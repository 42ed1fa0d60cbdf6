----------------------------- MODULE ActiveAlarms -----------------------------
(***************************************************************************)
(* The list of ActiveAlarmsPage.tsx: filters, the delayed search, pages,   *)
(* the selection and the bulk actions.  Filters, text and ordering are one *)
(* question; the rows are sets, without their order.                       *)
(***************************************************************************)
EXTENDS Browser

CONSTANTS Alerts, Questions, Contexts, Anyone, CustomerOf, Answering, PageOf

\* CustomerOf[a] is the customer of alert a; Answering[q] the alerts that match
\* question q; PageOf[n] the alerts on page n of the whole list.  A context is
\* the customer selected in the header, or Anyone.
AlarmsAssumption ==
  /\ IsFiniteSet(Alerts) /\ \A a \in Alerts : CustomerOf[a] # Anyone
  /\ Answering \in [Questions -> SUBSET Alerts]

Name == "alarms"
Pages == {0, 1}                     \* bound: the pages of a result

\* What the server answers to a search: the customer is a query parameter.
Matching(q, c) == {a \in Answering[q] : c = Anyone \/ CustomerOf[a] = c}

\* A page of a result of more than a page; the second page of a shorter one is empty.
Slice(s, p) ==
  IF Cardinality(s) < Cardinality(Alerts)
  THEN IF p = 0 THEN s ELSE {}
  ELSE s \cap PageOf[p]

Key(u) == [q |-> u.q, p |-> u.p, c |-> u.c, ids |-> {}]

\* The component as it is mounted: the address gives the filters; the page it
\* names is lost, for the effect on the customer, which runs next, goes to page 0.
Mounted ==
  {[rows |-> {}, total |-> 0, q |-> q, p |-> 0, c |-> c, due |-> TRUE,
    loading |-> FALSE, sel |-> {}, all |-> FALSE,
    bulk |-> FALSE] :
      q \in Questions, c \in Contexts}
Stored == {[alerts |-> Alerts]}

vars == <<view, ui, net, srv>>
Init == Shows(Name, Mounted, Stored)

\* Variant: the effect runs for new rows but not when "all" is switched off.
PruneOnRowsOnly(u) ==
  IF u.all \/ u.rows = ui.rows THEN u ELSE [u EXCEPT !.sel = @ \cap u.rows]

(***************************************************************************)
(* The effect on [alarms, allFilteredSelected]: ids that are no longer on  *)
(* the screen leave the selection, unless every result is selected.        *)
(***************************************************************************)
PruneSelection(u) ==
  IF u.all THEN u ELSE [u EXCEPT !.sel = @ \cap u.rows]

\* A change of the question, the page or the customer restarts the 200 ms timer.
Ask(u) ==
  [PruneSelection(u) EXCEPT
     !.due = @ \/ <<u.q, u.p, u.c>> # <<ui.q, ui.p, ui.c>>]

\* loadAlarms to its await.
StartLoad(u) ==
  /\ ui' = [u EXCEPT !.loading = TRUE, !.due = FALSE]
  /\ net' = Sent("load", Key(u))

DebounceFires ==
  /\ ui.due /\ Room
  /\ StartLoad(ui)
  /\ UNCHANGED srv

\* Enter in the search box loads at once, with the page of this render, and
\* goes to page 0, which starts the timer when it was another.
PressEnter ==
  /\ Room
  /\ net' = Sent("load", Key(ui))
  /\ ui' = [Ask([ui EXCEPT !.p = 0]) EXCEPT !.loading = TRUE]
  /\ UNCHANGED srv

\* loadAlarms after its await: the answer is shown whatever was asked since,
\* and loading ends with the first answer.
AnswerLoad ==
  \E r \in Pending("load"), ok \in BOOLEAN :
    LET found == Matching(r.key.q, r.key.c) IN
    /\ ui' = PruneSelection([ui EXCEPT
               !.rows    = IF ok THEN Slice(found, r.key.p) ELSE {},
               !.total   = IF ok THEN Cardinality(found) ELSE 0,
               !.loading = FALSE])
    /\ net' = Without(r)
    /\ UNCHANGED srv

\* A filter of the popover, a column header, "Reset": back to page 0.
Reask(q) == Ask([ui EXCEPT !.q = q, !.p = 0])

SetFilter ==
  \E q \in Questions \ {ui.q} :
    /\ ui' = Reask(q)
    /\ UNCHANGED <<net, srv>>

\* The cross of a filter's chip drops the filter and keeps the page.
RemoveChip ==
  \E q \in Questions :
    /\ Answering[ui.q] \subseteq Answering[q] /\ q # ui.q
    /\ ui' = Ask([ui EXCEPT !.q = q])
    /\ UNCHANGED <<net, srv>>

ChangePage ==
  \E p \in Pages \ {ui.p} :
    /\ ui' = Ask([ui EXCEPT !.p = p])
    /\ UNCHANGED <<net, srv>>

\* The customer of the header changes: page 0, nothing selected; the rows
\* of the other customer stay until an answer replaces them.
ChangeCustomer ==
  \E c \in Contexts \ {ui.c} :
    /\ ui' = Ask([ui EXCEPT !.c = c, !.p = 0, !.sel = {}, !.all = FALSE])
    /\ UNCHANGED <<net, srv>>

SelectPage ==
  /\ ui.rows # {}
  /\ \/ ui' = PruneSelection([ui EXCEPT !.sel = @ \cup ui.rows])
     \/ ui' = PruneSelection([ui EXCEPT !.sel = @ \ ui.rows, !.all = FALSE])
  /\ UNCHANGED <<net, srv>>

SelectRow ==
  \E a \in ui.rows :
    /\ \/ ~ui.all /\ a \notin ui.sel /\ ui' = [ui EXCEPT !.sel = @ \cup {a}]
       \/ (ui.all \/ a \in ui.sel)
          /\ ui' = PruneSelection([ui EXCEPT !.sel = @ \ {a}, !.all = FALSE])
    /\ UNCHANGED <<net, srv>>

\* The toolbar is shown while something counts as selected.
ToolbarShown == (IF ui.all THEN ui.total ELSE Cardinality(ui.sel)) > 0

ToggleAllFiltered ==
  /\ ToolbarShown
  /\ ui' = PruneSelection([ui EXCEPT !.all = ~@])
  /\ UNCHANGED <<net, srv>>

Cleared(u) == PruneSelection([u EXCEPT !.sel = {}, !.all = FALSE])

ClearSelection ==
  /\ ToolbarShown /\ ~ui.bulk
  /\ ui' = Cleared(ui)
  /\ UNCHANGED <<net, srv>>

\* The dialog that asks for the state, the assignee or the tags is confirmed
\* (it stays open when the toolbar goes): runBulkAction to its first await.  One
\* call with the filters, which hold no customer, when every result is selected;
\* else one call per selected alert.
ConfirmBulk ==
  /\ ui.all \/ ui.sel # {}
  /\ ~ui.bulk /\ Room
  /\ ui' = [ui EXCEPT !.bulk = TRUE]
  /\ net' = IF ui.all THEN Sent("bulkAll", Key(ui))
            ELSE Sent("bulkIds", [Key(ui) EXCEPT !.ids = ui.sel])
  /\ UNCHANGED srv

\* The server applies a bulk call: the customer the page shows is not in it.
Targets(r) ==
  IF r.op = "bulkAll" THEN Matching(r.key.q, Anyone) ELSE r.key.ids

\* Variant: the action ends before the list is loaded again.
BulkSettledEarly ==
  \E r \in Pending("bulkAll") \cup Pending("bulkIds") :
    \E done \in IF r.op = "bulkAll" THEN {Targets(r)} ELSE SUBSET Targets(r) :
      /\ ui' = [Cleared(ui) EXCEPT !.loading = TRUE, !.bulk = FALSE]
      /\ net' = Without(r) \cup {[r EXCEPT !.op = "reload", !.key.ids = done]}
      /\ UNCHANGED srv

\* The calls are settled, each on its own, and changed the alerts "done": the
\* selection is cleared and the list loaded with the question the closure captured.
BulkSettled ==
  \E r \in Pending("bulkAll") \cup Pending("bulkIds") :
    \E done \in IF r.op = "bulkAll" THEN {Targets(r)} ELSE SUBSET Targets(r) :
      /\ ui' = [Cleared(ui) EXCEPT !.loading = TRUE]
      /\ net' = Without(r) \cup {[r EXCEPT !.op = "reload", !.key.ids = done]}
      /\ UNCHANGED srv

\* Promise.allSettled never rejects, so only the single call can fail; then the
\* selection stays, and the list is not loaded again.
BulkFails ==
  \E r \in Pending("bulkAll") :
    /\ ui' = [ui EXCEPT !.bulk = FALSE]
    /\ net' = Without(r)
    /\ UNCHANGED srv

\* The load that ends a bulk action is answered: then the action ends.
BulkReloaded ==
  \E r \in Pending("reload"), ok \in BOOLEAN :
    LET found == Matching(r.key.q, r.key.c) IN
    /\ ui' = PruneSelection([ui EXCEPT
               !.rows    = IF ok THEN Slice(found, r.key.p) ELSE {},
               !.total   = IF ok THEN Cardinality(found) ELSE 0,
               !.loading = FALSE, !.bulk = FALSE])
    /\ net' = Without(r)
    /\ UNCHANGED srv

Next ==
  /\ view = Name /\ UNCHANGED view
  /\ \/ DebounceFires \/ PressEnter \/ AnswerLoad
     \/ SetFilter \/ RemoveChip \/ ChangePage \/ ChangeCustomer
     \/ SelectPage \/ SelectRow \/ ToggleAllFiltered \/ ClearSelection
     \/ ConfirmBulk \/ BulkSettled \/ BulkFails \/ BulkReloaded

-----------------------------------------------------------------------------
TypeOK ==
  /\ ui.rows \subseteq Alerts /\ ui.sel \subseteq Alerts
  /\ ui.q \in Questions /\ ui.p \in Pages /\ ui.c \in Contexts
  /\ ui.total \in 0..Cardinality(Alerts)
  /\ \A f \in {"due", "loading", "all", "bulk"} : ui[f] \in BOOLEAN
  /\ \A r \in net : r.key.ids \subseteq srv.alerts

\* An alert is selected one by one only while its row is on the screen.
SelectionIsShown == ui.all \/ ui.sel \subseteq ui.rows

\* The list is busy, or a bulk action is, only while a call is awaited.
BusyIsAwaited ==
  /\ ui.loading => Pending("load") \cup Pending("reload") # {}
  /\ ui.bulk <=> Pending("bulkAll") \cup Pending("bulkIds") \cup Pending("reload") # {}

\* Two bulk actions never overlap.
OneBulk == Cardinality(Pending("bulkAll") \cup Pending("bulkIds") \cup Pending("reload")) <= 1
=============================================================================
