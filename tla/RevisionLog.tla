------------------------------ MODULE RevisionLog ------------------------------
(* What the revisions of a parser promise to who reads them: a log that only  *)
(* grows, in which every text is new or that of an earlier revision, and one  *)
(* of its revisions, or none yet, in force.                                   *)
EXTENDS Naturals, Sequences

CONSTANT Texts

VARIABLES log, current

vars == <<log, current>>

Init == log = << >> /\ current = 0

\* A text is added, and is not in force yet.
Publish(text) ==
    /\ log' = Append(log, [text |-> text, from |-> 0])
    /\ UNCHANGED current

\* The text of revision v is added again.
Restore(v) ==
    /\ log' = Append(log, [text |-> log[v].text, from |-> v])
    /\ UNCHANGED current

\* A revision of the log comes into force, or is no longer.
Apply(v) == current' = v /\ UNCHANGED log

Next ==
    \/ \E text \in Texts : Publish(text)
    \/ \E v \in DOMAIN log : Restore(v)
    \/ \E v \in {0} \cup DOMAIN log : Apply(v)

Spec == Init /\ [][Next]_vars
=============================================================================
