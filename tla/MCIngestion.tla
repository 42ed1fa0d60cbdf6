----------------------------- MODULE MCIngestion -----------------------------
(* Instances of Ingestion for TLC: what a fetch may return.                  *)
EXTENDS Ingestion, TLC

CONSTANTS k1, k2, t1

Ev(k, time, kind) == [key |-> k, title |-> t1, time |-> time, kind |-> kind]

\* Two executions see the same fingerprint, out of time order, and an event
\* that does not parse.
MCOverlapBatches ==
    {<<Ev(k1, 2, "ok"), Ev(k1, 1, "unparsed")>>, <<Ev(k1, 3, "ok")>>}

\* Every kind of event and two fingerprints, under one title.
MCRaceBatches ==
    {<<Ev(k1, 2, "ok"), Ev(k1, 1, "unparsed")>>, <<Ev(k1, 0, "bad"), Ev(k2, 3, "ok")>>}

\* Short batches for the run that shows duplicates.
MCShortBatches ==
    {<<Ev(k1, 2, "ok"), Ev(k1, 1, "ok")>>}

\* Executions are interchangeable (safety runs only).
MCSymmetry == Permutations(Runs)
=============================================================================
