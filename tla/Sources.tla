-------------------------------- MODULE Sources --------------------------------
(***************************************************************************)
(* The list of sources and the form of SourcesPage.tsx: create, update,    *)
(* delete, test, run.  A draft is told by the source it edits.  Whenever   *)
(* the selected source is another object, an effect rewrites the draft.    *)
(***************************************************************************)
EXTENDS Browser

CONSTANTS Ids
SourcesAssumption == {"none", "new"} \cap Ids = {}

Name == "sources"

Mounted ==
  {[list |-> {}, sel |-> "none", draft |-> "none", dirty |-> FALSE, loading |-> TRUE,
    saving |-> FALSE, notice |-> "none"]}
Stored == {[sources |-> s] : s \in SUBSET Ids}
vars == <<view, ui, net, srv>>
Init ==
  /\ view = Name /\ ui \in Mounted /\ srv \in Stored
  /\ net = {[id |-> 1, op |-> "load", key |-> "none"]}

\* The selected source of a render, if the list holds it.
Selected(u) == IF u.sel \in u.list THEN u.sel ELSE "none"

\* Variant: the effect does not run when nothing is selected any more.
RedraftIfSelected(u) ==
  IF Selected(u) = "none" \/ (Selected(u) = Selected(ui) /\ u.list = ui.list) THEN u
  ELSE [u EXCEPT !.draft = Selected(u), !.dirty = FALSE]

\* The effect on [selectedSource]: it runs when the source is another one, or
\* another object because the list was loaded again.
Redraft(u) ==
  IF Selected(u) = Selected(ui) /\ (Selected(u) = "none" \/ u.list = ui.list) THEN u
  ELSE [u EXCEPT !.draft = Selected(u), !.dirty = FALSE]

\* The list was loaded: every source in it is a new object.
Reloaded(u) ==
  IF Selected(u) = "none" THEN Redraft(u)
  ELSE [u EXCEPT !.draft = Selected(u), !.dirty = FALSE]

SelectSource ==
  \E s \in ui.list :
    /\ ui' = Redraft([ui EXCEPT !.sel = s])
    /\ UNCHANGED <<net, srv>>

\* "Nuova Fonte": nothing selected and a new draft, then the effect.
CreateNew ==
  /\ ui' = Redraft([ui EXCEPT !.sel = "none", !.draft = "new", !.dirty = FALSE])
  /\ UNCHANGED <<net, srv>>

UpdateDraft ==
  /\ ui.draft # "none"
  /\ ui' = [ui EXCEPT !.dirty = TRUE]
  /\ UNCHANGED <<net, srv>>

\* loadSourcesData, from the refresh button or at the end of another action.
Load(u) == [u EXCEPT !.loading = TRUE]

Refresh ==
  /\ Room
  /\ ui' = Load(ui)
  /\ net' = Sent("load", "none")
  /\ UNCHANGED srv

\* The list as it arrives; a failure empties it.
WithList(u, data, s) ==
  Reloaded([u EXCEPT !.list = data, !.loading = FALSE, !.notice = "none", !.sel = s])
WithoutList(u, s) ==
  Redraft([u EXCEPT !.list = {}, !.loading = FALSE, !.notice = "error", !.sel = s])

\* The selection is kept if the list has it, else it is one of the list.
Choice(data) ==
  IF ui.sel \in data THEN {ui.sel} ELSE IF data = {} THEN {"none"} ELSE data

AnswerLoad ==
  \E r \in Pending("load") :
    /\ \/ \E s \in Choice(srv.sources) : ui' = WithList(ui, srv.sources, s)
       \/ ui' = WithoutList(ui, "none")
    /\ net' = Without(r)
    /\ UNCHANGED srv

\* saveSource to its first await: an update, or a creation when the draft is new.
Save ==
  /\ ui.draft # "none" /\ ~ui.saving /\ Room
  /\ ui' = [ui EXCEPT !.saving = TRUE]
  /\ net' = Sent("save", ui.draft)
  /\ UNCHANGED srv

\* The source is stored; the list is loaded before the saved source is selected.
Saved ==
  \E r \in Pending("save") :
    \E s \in IF r.key = "new" THEN Ids \ srv.sources ELSE {r.key} \cap srv.sources :
      /\ srv' = [srv EXCEPT !.sources = @ \cup {s}]
      /\ ui' = Load([ui EXCEPT !.notice = "success"])
      /\ net' = Without(r) \cup {[r EXCEPT !.op = "saveLoad", !.key = s]}

SaveFails ==
  \E r \in Pending("save") :
    /\ ui' = [ui EXCEPT !.notice = "error", !.saving = FALSE]
    /\ net' = Without(r)
    /\ UNCHANGED srv

\* React renders once for the list and the selection that follows it.
AnswerSaveLoad ==
  \E r \in Pending("saveLoad") :
    /\ \/ ui' = WithList([ui EXCEPT !.saving = FALSE], srv.sources, r.key)
       \/ ui' = WithoutList([ui EXCEPT !.saving = FALSE], r.key)
    /\ net' = Without(r)
    /\ UNCHANGED srv

\* Deletion, test of the connection and run now act on the source of the draft;
\* none of them disables its button.
Act ==
  \E kind \in {"delete", "test", "run"} :
    /\ ui.draft \in Ids /\ Room
    /\ ui' = IF kind = "test" THEN [ui EXCEPT !.notice = "info"] ELSE ui
    /\ net' = Sent(kind, ui.draft)
    /\ UNCHANGED srv

\* Without a stored source they only say that it must be saved first.
ActOnNothing ==
  /\ ui.draft \notin Ids
  /\ ui' = [ui EXCEPT !.notice = "info"]
  /\ UNCHANGED <<net, srv>>

\* The answer is told and the list loaded, which takes the notice away again.
ActDone ==
  \E r \in Pending("delete") \cup Pending("test") :
    /\ r.key \in srv.sources
    /\ srv' = [srv EXCEPT !.sources = IF r.op = "delete" THEN @ \ {r.key} ELSE @]
    /\ ui' = Load([ui EXCEPT !.notice = "success"])
    /\ net' = Without(r) \cup {[r EXCEPT !.op = "load", !.key = "none"]}

\* A run was queued: the runs of the source are read before the list is.
RunQueued ==
  \E r \in Pending("run") :
    /\ r.key \in srv.sources
    /\ ui' = [ui EXCEPT !.notice = "success"]
    /\ net' = Without(r) \cup {[r EXCEPT !.op = "runs"]}
    /\ UNCHANGED srv

\* Runs that cannot be read are shown as none, and the list is loaded.
RunsRead ==
  \E r \in Pending("runs") :
    /\ ui' = Load(ui)
    /\ net' = Without(r) \cup {[r EXCEPT !.op = "load", !.key = "none"]}
    /\ UNCHANGED srv

ActFails ==
  \E r \in Pending("delete") \cup Pending("test") \cup Pending("run") :
    /\ ui' = [ui EXCEPT !.notice = "error"]
    /\ net' = Without(r)
    /\ UNCHANGED srv

Next ==
  /\ view = Name /\ UNCHANGED view
  /\ \/ SelectSource \/ CreateNew \/ UpdateDraft \/ Refresh \/ AnswerLoad
     \/ Save \/ Saved \/ SaveFails \/ AnswerSaveLoad
     \/ Act \/ ActOnNothing \/ ActDone \/ RunQueued \/ RunsRead \/ ActFails

-----------------------------------------------------------------------------
TypeOK ==
  /\ ui.list \subseteq Ids /\ srv.sources \subseteq Ids
  /\ ui.sel \in Ids \cup {"none"} /\ ui.draft \in Ids \cup {"none", "new"}
  /\ ui.loading \in BOOLEAN /\ ui.saving \in BOOLEAN /\ ui.dirty \in BOOLEAN

\* The form edits the source that is highlighted, or a new one when none is.
FormIsOfSelected ==
  ui.draft = Selected(ui) \/ (ui.draft = "new" /\ Selected(ui) = "none")

\* The page waits only for an answer that is still to come.
BusyIsAwaited ==
  /\ ui.loading => Pending("load") \cup Pending("saveLoad") # {}
  /\ ui.saving => Pending("save") \cup Pending("saveLoad") # {}

\* One source is saved at a time.
OneWrite == Cardinality(Pending("save") \cup Pending("saveLoad")) <= 1
=============================================================================
