------------------------------- MODULE Browser -------------------------------
(***************************************************************************)
(* What the views of the single-page application share.  App.tsx mounts    *)
(* one page at a time; a page's component state starts afresh when it is   *)
(* mounted and an answer to a component that is gone changes nothing, so a *)
(* behaviour is what happens between one mount and the next.  A view is a  *)
(* page, or one concern of a page that shares no state with its others.    *)
(*                                                                         *)
(* React runs a handler to its first await without interruption, then its  *)
(* effects; the rest of the handler runs when the request it awaits is     *)
(* answered.  So a step is a user's event or the answer to one request,    *)
(* with every effect the state change triggers.                            *)
(***************************************************************************)
EXTENDS Naturals, FiniteSets

CONSTANT MaxPending     \* bound: the requests of a view in flight together
PendingAssumption == MaxPending \in Nat \ {0}

VARIABLES
  view,   \* the view that is mounted
  ui,     \* its component state: a record, one field per useState or useRef
  net,    \* its requests in flight, with what the handler's closure captured
  srv     \* what the server stores and the view reads or writes: a record

\* The requests of one kind in flight.
Pending(op) == {r \in net : r.op = op}

Room == Cardinality(net) < MaxPending
Fresh == CHOOSE i \in 1..MaxPending : \A r \in net : r.id # i

\* The requests in flight after sending one more, and after an answer.
Sent(op, key) == net \cup {[id |-> Fresh, op |-> op, key |-> key]}
Without(r) == net \ {r}

\* The state of a view that has just been mounted.
Shows(name, mounted, stored) ==
  /\ view = name
  /\ ui \in mounted
  /\ net = {}
  /\ srv \in stored
=============================================================================
