----------------------------- MODULE RecentAlarms -----------------------------
(***************************************************************************)
(* The latest alarms of HomePage.tsx: one unguarded load per customer and  *)
(* time range, filters and columns applied in the browser, rows that open. *)
(* The columns are kept in localStorage.                                   *)
(***************************************************************************)
EXTENDS Browser

CONSTANTS Alerts, Questions, Columns, Labels, LabelOf, Answering

\* LabelOf[a] is the label (severity, source, customer, state) alert a is filtered
\* by; Answering[q] the alerts of a customer and a time range.
RecentAssumption ==
  /\ \A q \in Questions : Answering[q] \subseteq Alerts
  /\ \A a \in Alerts : LabelOf[a] \in Labels

Name == "recent"

Mounted ==
  {[q |-> q, rows |-> {}, columns |-> cs, filters |-> {}, expanded |-> {}, details |-> {},
    loading |-> TRUE] : q \in Questions, cs \in (SUBSET Columns) \ {{}}}
Stored == {[alerts |-> Alerts]}
vars == <<view, ui, net, srv>>
Init ==
  /\ view = Name /\ ui \in Mounted /\ srv \in Stored
  /\ net = {[id |-> 1, op |-> "load", key |-> ui.q]}

\* The labels a filter can be set for: those of the rows that are loaded.
Available == {LabelOf[a] : a \in ui.rows}
VisibleRows == {a \in ui.rows : ui.filters = {} \/ LabelOf[a] \in ui.filters}

\* Another customer closes the rows and forgets the details; filters stay.
ChangeQuestion ==
  \E q \in Questions \ {ui.q}, customer \in BOOLEAN :
    /\ Room
    /\ ui' = [ui EXCEPT !.q = q, !.loading = TRUE,
                        !.expanded = IF customer THEN {} ELSE @,
                        !.details = IF customer THEN {} ELSE @]
    /\ net' = Sent("load", q)
    /\ UNCHANGED srv

AnswerLoad ==
  \E r \in Pending("load"), ok \in BOOLEAN :
    /\ ui' = [ui EXCEPT !.rows = IF ok THEN Answering[r.key] ELSE {}, !.loading = FALSE]
    /\ net' = Without(r)
    /\ UNCHANGED srv

\* A chip of the filters; only those of the rows at hand are offered.
ToggleFilter ==
  \E l \in Available :
    /\ ui' = [ui EXCEPT !.filters = IF l \in @ THEN @ \ {l} ELSE @ \cup {l}]
    /\ UNCHANGED <<net, srv>>

ClearFilters ==
  /\ ui' = [ui EXCEPT !.filters = {}]
  /\ UNCHANGED <<net, srv>>

\* Variant: any column can be taken away.
ToggleAnyColumn ==
  \E k \in Columns :
    /\ ui' = [ui EXCEPT !.columns = IF k \in @ THEN @ \ {k} ELSE @ \cup {k}]
    /\ UNCHANGED <<net, srv>>

\* The last column cannot be taken away.
ToggleColumn ==
  \E k \in Columns :
    /\ ui' = [ui EXCEPT !.columns = IF k \notin @ THEN @ \cup {k}
                                    ELSE IF @ = {k} THEN @ ELSE @ \ {k}]
    /\ UNCHANGED <<net, srv>>

\* A row opens; its details are marked as loading and, as in AlarmFields, the
\* flag that would send the request is read before React runs the updater.
ToggleExpand ==
  \E a \in VisibleRows :
    /\ ui' = IF a \in ui.expanded THEN [ui EXCEPT !.expanded = @ \ {a}]
             ELSE [ui EXCEPT !.expanded = @ \cup {a}, !.details = @ \cup {a}]
    /\ UNCHANGED <<net, srv>>

Next ==
  /\ view = Name /\ UNCHANGED view
  /\ \/ ChangeQuestion \/ AnswerLoad \/ ToggleFilter \/ ClearFilters
     \/ ToggleColumn \/ ToggleExpand

-----------------------------------------------------------------------------
TypeOK ==
  /\ ui.q \in Questions /\ ui.rows \subseteq Alerts /\ ui.filters \subseteq Labels
  /\ ui.columns \subseteq Columns /\ ui.loading \in BOOLEAN

\* The table always has a column.
ColumnIsLeft == ui.columns # {}

\* The list waits only for an answer that is still to come; the bar of a row that
\* opens waits for none (ToggleExpand).
BusyIsAwaited == ui.loading => Pending("load") # {}
=============================================================================
