------------------------------- MODULE Dashboard -------------------------------
(***************************************************************************)
(* The widgets of HomePage.tsx and their layout, dragged into order,       *)
(* switched on and off, and saved.  A layout is a sequence of widgets, each *)
(* shown or not.  Customer and time range are one question.                *)
(***************************************************************************)
EXTENDS Browser, Sequences, SequencesExt

CONSTANTS Widgets, Questions
DashboardAssumption == IsFiniteSet(Widgets)

Name == "dashboard"
Places == 1..Cardinality(Widgets)

\* The server normalizes a layout: every widget once, shown or not.
Item == Widgets \X BOOLEAN
Layouts == {s \in [Places -> Item] : {s[i][1] : i \in Places} = Widgets}

Mounted ==
  {[q |-> q, draft |-> s, shown |-> "none", drag |-> 0, loading |-> TRUE, saving |-> FALSE] :
     q \in Questions, s \in Layouts}
Stored == {[layout |-> s] : s \in Layouts}
vars == <<view, ui, net, srv>>

\* A call for the widgets of a question; a save sends the layout along.
Req(op, q, s) == [id |-> Fresh, op |-> op, key |-> [q |-> q, layout |-> s]]

Init ==
  /\ view = Name /\ ui \in Mounted /\ srv \in Stored
  /\ net = {[id |-> 1, op |-> "load", key |-> [q |-> ui.q, layout |-> << >>]]}

\* Another customer or another time range asks for the widgets again.
ChangeQuestion ==
  \E q \in Questions \ {ui.q} :
    /\ Room
    /\ ui' = [ui EXCEPT !.q = q, !.loading = TRUE]
    /\ net' = net \cup {Req("load", q, << >>)}
    /\ UNCHANGED srv

\* loadDashboard after its await, whatever was asked since: the layout that
\* was being edited is replaced, and by the default layout after a failure.
AnswerLoad ==
  \E r \in Pending("load") :
    /\ \/ ui' = [ui EXCEPT !.draft = srv.layout, !.shown = r.key.q, !.loading = FALSE]
       \/ \E default \in Layouts :
            /\ \A i \in Places : default[i][2]
            /\ ui' = [ui EXCEPT !.draft = default, !.shown = "none", !.loading = FALSE]
    /\ net' = Without(r)
    /\ UNCHANGED srv

ToggleWidget ==
  \E i \in Places :
    /\ ui' = [ui EXCEPT !.draft[i][2] = ~@]
    /\ UNCHANGED <<net, srv>>

\* The place a drag started from; the layout may be another when it ends.
StartDrag ==
  \E i \in Places :
    /\ ui' = [ui EXCEPT !.drag = i]
    /\ UNCHANGED <<net, srv>>

\* Variant: the widget is put in without being taken out.
MovedCopy(s, from, to) == [s EXCEPT ![to] = s[from]]

\* reorderWidgetLayout: take the widget out, put it in at the other place.
Moved(s, from, to) == InsertAt(RemoveAt(s, from), to, s[from])

Drop ==
  \E i \in Places :
    /\ ui.drag # 0
    /\ ui' = [ui EXCEPT !.draft = Moved(@, ui.drag, i), !.drag = 0]
    /\ UNCHANGED <<net, srv>>

SaveLayout ==
  /\ ~ui.saving /\ Room
  /\ ui' = [ui EXCEPT !.saving = TRUE]
  /\ net' = net \cup {Req("save", ui.q, ui.draft)}
  /\ UNCHANGED srv

\* The layout is stored and answered with the widgets of the question it was
\* saved under; a failure leaves it unknown whether it was stored.
AnswerSave ==
  \E r \in Pending("save") :
    /\ \/ /\ srv' = [srv EXCEPT !.layout = r.key.layout]
          /\ ui' = [ui EXCEPT !.draft = r.key.layout, !.shown = r.key.q, !.saving = FALSE]
       \/ /\ srv' \in {srv, [srv EXCEPT !.layout = r.key.layout]}
          /\ ui' = [ui EXCEPT !.saving = FALSE]
    /\ net' = Without(r)

Next ==
  /\ view = Name /\ UNCHANGED view
  /\ \/ ChangeQuestion \/ AnswerLoad \/ ToggleWidget \/ StartDrag \/ Drop
     \/ SaveLayout \/ AnswerSave

-----------------------------------------------------------------------------
TypeOK ==
  /\ ui.q \in Questions /\ ui.shown \in Questions \cup {"none"}
  /\ ui.drag \in Places \cup {0}
  /\ ui.loading \in BOOLEAN /\ ui.saving \in BOOLEAN

\* No order of drags, answers and saves loses a widget or shows one twice.
LayoutIsWhole == ui.draft \in Layouts /\ srv.layout \in Layouts

\* The page waits only for an answer that is still to come.
BusyIsAwaited ==
  /\ ui.loading => Pending("load") # {}
  /\ ui.saving => Pending("save") # {}

\* One layout is saved at a time.
OneWrite == Cardinality(Pending("save")) <= 1
=============================================================================
