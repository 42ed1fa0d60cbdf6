------------------------------- MODULE Renewal -------------------------------
(***************************************************************************)
(* What the interceptor of api.ts promises to whoever calls the API: a     *)
(* call that finds the session lapsed waits for a renewal that it shares   *)
(* with every other such call, is made once more when it succeeds and      *)
(* fails with it otherwise.  A call is made at most twice, and it ends.    *)
(***************************************************************************)
CONSTANT Calls

VARIABLE phase   \* of a call: idle, or in its first attempt, waiting, or second

Waiting == {c \in Calls : phase[c] = "waiting"}

\* Every call of a set passes to one phase.
AllTo(S, p) == phase' = [c \in Calls |-> IF c \in S THEN p ELSE phase[c]]

Init == phase = [c \in Calls |-> "idle"]

Ask(c) == phase[c] = "idle" /\ AllTo({c}, "first")
Wait(c) == phase[c] = "first" /\ AllTo({c}, "waiting")
Settle(c) == phase[c] \in {"first", "second"} /\ AllTo({c}, "idle")
Renewed == Waiting # {} /\ AllTo(Waiting, "second")
Refused == Waiting # {} /\ AllTo(Waiting, "idle")

\* The page that made the calls is gone.
Leave == AllTo(Calls, "idle")

Next ==
  \/ \E c \in Calls : Ask(c) \/ Wait(c) \/ Settle(c)
  \/ Renewed \/ Refused \/ Leave

Spec == Init /\ [][Next]_phase

\* A call that was made ends.
EveryCallEnds == \A c \in Calls : phase[c] # "idle" ~> phase[c] = "idle"
=============================================================================
