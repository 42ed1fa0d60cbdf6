------------------------------ MODULE SourceParser ------------------------------
(***************************************************************************)
(* The parser of the selected source in SourcesPage.tsx: load, save as a   *)
(* revision, roll back, compare two revisions, and the sources that come   *)
(* and go beside it.  The preview, which changes no other state, is left   *)
(* out; creating and updating a source, for this form a load of the list,  *)
(* is in Sources.  A source has at most one parser, told by its source and *)
(* deleted with it; a revision by its parser and a number.  None of the    *)
(* loads checks that its source is still selected.                         *)
(***************************************************************************)
EXTENDS Browser, Sequences

CONSTANTS Ids, MaxRevision          \* bound: the revisions of a parser
ParserAssumption == "none" \notin Ids /\ MaxRevision \in Nat \ {0}

Name == "sourceParser"

\* The parser the page holds, whose revisions it lists, the revisions ticked.
Hydrated(u, p) == [u EXCEPT !.def = p, !.revs = "none", !.ticked = << >>]

\* "editor" is the write that the editor's save key captured.  History: "keyed",
\* one of the writes since none was in flight is by that key; "crossed", since the
\* last load of the selected source that met no other request, the selection was
\* changed under a request or a parser was written that is not of the selection.
Unmounted == [op |-> "none", key |-> "none"]
Mounted ==
  {[list |-> {}, sel |-> "none", def |-> "none", revs |-> "none", ticked |-> << >>,
    editor |-> Unmounted, loading |-> FALSE, saving |-> FALSE,
    comparing |-> FALSE, keyed |-> FALSE, crossed |-> FALSE]}
\* The parser of a source has last[s] revisions; 0: the source has no parser.
Stored == {[there |-> Ids, last |-> f] : f \in [Ids -> {0, 1}]}
vars == <<view, ui, net, srv>>
Init ==
  /\ view = Name /\ ui \in Mounted /\ srv \in Stored
  /\ net = {[id |-> 1, op |-> "list", key |-> "none"]}

\* The requests whose answers put a parser into the form.
Parsing == Pending("parser") \cup Pending("create") \cup Pending("update") \cup Pending("rollback")

\* Another source, or none, is selected.
Select(u, s) == [u EXCEPT !.sel = s, !.crossed = @ \/ (s # u.sel /\ Parsing # {})]

\* Variant: the form is not emptied.
SelectedKeep(u, s) == IF s # "none" THEN [Select(u, s) EXCEPT !.loading = TRUE] ELSE Select(u, s)

\* The effect on [selectedSource] asks for its parser, and what is shown stays;
\* when no source is selected any more the form is emptied at once.
Selected(u, s) ==
  IF s # "none" THEN [Select(u, s) EXCEPT !.loading = TRUE]
  ELSE IF u.sel # "none" THEN Hydrated(Select(u, s), "none") ELSE u

SelectSource ==
  \E s \in ui.list \ {ui.sel} :
    /\ Room
    /\ ui' = Selected(ui, s)
    /\ net' = Sent("parser", s)
    /\ UNCHANGED srv

\* "Nuova Fonte": no source is selected, and the form is emptied.
Deselect ==
  /\ ui' = Hydrated(Select(ui, "none"), "none")
  /\ UNCHANGED <<net, srv>>

\* loadSourcesData: by the button, and after a test, a run or a save of a source.
Refresh ==
  /\ Room
  /\ net' = Sent("list", "none")
  /\ UNCHANGED <<ui, srv>>

\* The list arrives; its sources are new objects, so the effect runs for the
\* selected one in any case.  "sources" is the load that ends a save.
Listed(u, r) == IF r.op = "sources" THEN [u EXCEPT !.saving = FALSE] ELSE u
Choice ==
  IF ui.sel \in srv.there THEN {ui.sel}
  ELSE IF srv.there = {} THEN {"none"} ELSE srv.there

AnswerList ==
  \E r \in Pending("list") \cup Pending("sources") :
    /\ UNCHANGED srv
    /\ \/ \E s \in Choice :
            /\ ui' = Selected([Listed(ui, r) EXCEPT !.list = srv.there], s)
            /\ net' = Without(r) \cup
                 {[q EXCEPT !.op = "parser", !.key = s] : q \in {x \in {r} : s # "none"}}
       \/ /\ ui' = Selected([Listed(ui, r) EXCEPT !.list = {}], "none")
          /\ net' = Without(r)

\* removeSelectedSource, which disables nothing; the parser goes with its source,
\* and the page holds it until the list has been loaded.
DeleteSource ==
  /\ ui.sel # "none" /\ Room
  /\ net' = Sent("delete", ui.sel)
  /\ UNCHANGED <<ui, srv>>

SourceDeleted ==
  \E r \in Pending("delete") :
    /\ r.key \in srv.there
    /\ srv' = [srv EXCEPT !.there = @ \ {r.key}, !.last[r.key] = 0]
    /\ net' = Without(r) \cup {[r EXCEPT !.op = "list", !.key = "none"]}
    /\ UNCHANGED ui

DeleteFails ==
  \E r \in Pending("delete") :
    /\ net' = Without(r)
    /\ UNCHANGED <<ui, srv>>

\* A load of the selected source that no other request overlaps.
Healed(u, r) == [u EXCEPT !.crossed = @ /\ (r.key # u.sel \/ Parsing # {r})]

\* loadParserForSource: the parser, then its revisions.
AnswerParser ==
  \E r \in Pending("parser") :
    LET found == srv.last[r.key] > 0 IN
    /\ UNCHANGED srv
    /\ \/ /\ found
          /\ ui' = Hydrated(Healed(ui, r), r.key)
          /\ net' = Without(r) \cup {[r EXCEPT !.op = "revisions"]}
       \/ \* no parser, or the call failed: an empty form
          /\ ui' = [Hydrated(Healed(ui, r), "none") EXCEPT !.loading = FALSE]
          /\ net' = Without(r)

AnswerRevisions ==
  \E r \in Pending("revisions") :
    /\ \/ srv.last[r.key] > 0 /\ ui' = [ui EXCEPT !.revs = r.key, !.loading = FALSE]
       \/ ui' = [Hydrated(ui, "none") EXCEPT !.loading = FALSE]
    /\ net' = Without(r)
    /\ UNCHANGED srv

\* A write of parser p begins.
Writes == {r \in net : r.op \in {"create", "update", "rollback", "foreign", "saved",
                                 "rolledBack", "sources"}}
Writing(p, bykey) ==
  ui' = [ui EXCEPT !.saving = TRUE, !.crossed = @ \/ p # ui.sel,
                   !.keyed = bykey \/ (@ /\ Writes # {})]

\* saveParserWorkflow to its await, in a render that holds parser p and has source
\* s selected: the parser is updated, or one is created.
Saves(s, p) == IF p = "none" THEN [op |-> "create", key |-> s] ELSE [op |-> "update", key |-> p]
SaveWorkflow(w, bykey) ==
  /\ Room
  /\ Writing(w.key, bykey)
  /\ net' = Sent(w.op, w.key)
  /\ UNCHANGED srv

\* "Salva revisione": the button waits while a save is under way.
SaveParser == ui.sel # "none" /\ ~ui.saving /\ SaveWorkflow(Saves(ui.sel, ui.def), FALSE)

\* The editor is mounted once, when its code has been loaded, and its save key
\* keeps the handler of the render of that moment; without a source that handler
\* does nothing, as if the editor were not mounted.
MountEditor ==
  /\ ui.editor = Unmounted /\ ui.sel # "none"
  /\ ui' = [ui EXCEPT !.editor = Saves(ui.sel, ui.def)]
  /\ UNCHANGED <<net, srv>>

\* Ctrl+S or Cmd+S saves what that render showed, whatever is selected by now,
\* and does not wait.
SaveByKey == ui.editor # Unmounted /\ SaveWorkflow(ui.editor, TRUE)

\* "Ripristina": the parser the page holds, one of the revisions it lists.
Rollback ==
  /\ ui.def # "none" /\ ui.revs # "none" /\ ~ui.saving /\ Room
  /\ Writing(ui.def, FALSE)
  /\ net' = Sent(IF ui.revs = ui.def THEN "rollback" ELSE "foreign", ui.def)
  /\ UNCHANGED srv

\* The server keeps a new revision and answers with the parser.  A second parser
\* of a source and a revision of another parser are refused.
Write(r) ==
  \/ r.op = "create" /\ r.key \in srv.there /\ srv.last[r.key] = 0
  \/ r.op \in {"update", "rollback"} /\ srv.last[r.key] > 0

WriteDone ==
  \E r \in Pending("create") \cup Pending("update") \cup Pending("rollback") :
    /\ Write(r) /\ srv.last[r.key] < MaxRevision
    /\ srv' = [srv EXCEPT !.last[r.key] = @ + 1]
    /\ ui' = Hydrated(ui, r.key)
    /\ net' = Without(r) \cup {[r EXCEPT !.op = IF r.op = "rollback" THEN "rolledBack" ELSE "saved"]}

WriteFails ==
  \E r \in UNION {Pending(op) : op \in {"create", "update", "rollback", "foreign"}} :
    /\ ui' = [ui EXCEPT !.saving = FALSE]
    /\ net' = Without(r)
    /\ UNCHANGED srv

\* The revisions after a write; a save ends with a load of the list of sources.
AnswerSaved ==
  \E r \in Pending("saved") \cup Pending("rolledBack"), ok \in BOOLEAN :
    /\ ok => srv.last[r.key] > 0
    /\ ui' = [ui EXCEPT !.revs = IF ok THEN r.key ELSE @,
                        !.saving = @ /\ ok /\ r.op = "saved"]
    /\ net' = IF ok /\ r.op = "saved" THEN Without(r) \cup {[r EXCEPT !.op = "sources"]}
              ELSE Without(r)
    /\ UNCHANGED srv

\* Variant: a third revision is added.
ToggledMore(s, v) == IF \E i \in DOMAIN s : s[i] = v THEN << >> ELSE Append(s, v)

\* toggleRevisionSelection: a third revision takes the place of the older one.
Toggled(s, v) ==
  IF \E i \in DOMAIN s : s[i] = v
  THEN IF Len(s) = 1 THEN << >> ELSE IF s[1] = v THEN <<s[2]>> ELSE <<s[1]>>
  ELSE IF Len(s) >= 2 THEN <<s[2], v>> ELSE Append(s, v)

TickRevision ==
  \E v \in 1..MaxRevision :
    /\ ui.revs # "none" /\ v <= srv.last[ui.revs]
    /\ ui' = [ui EXCEPT !.ticked = Toggled(@, <<ui.revs, v>>)]
    /\ UNCHANGED <<net, srv>>

Compare ==
  /\ Len(ui.ticked) = 2 /\ ~ui.comparing /\ ui.def # "none" /\ Room
  /\ ui' = [ui EXCEPT !.comparing = TRUE]
  /\ net' = Sent("diff", ui.def)
  /\ UNCHANGED srv

AnswerDiff ==
  \E r \in Pending("diff") :
    /\ ui' = [ui EXCEPT !.comparing = FALSE]
    /\ net' = Without(r)
    /\ UNCHANGED srv

Next ==
  /\ view = Name /\ UNCHANGED view
  /\ \/ SelectSource \/ Deselect \/ Refresh \/ AnswerList
     \/ DeleteSource \/ SourceDeleted \/ DeleteFails
     \/ AnswerParser \/ AnswerRevisions \/ SaveParser \/ MountEditor \/ SaveByKey
     \/ Rollback \/ WriteDone \/ WriteFails \/ AnswerSaved
     \/ TickRevision \/ Compare \/ AnswerDiff

-----------------------------------------------------------------------------
ListLoads == Pending("list") \cup Pending("sources")

TypeOK ==
  /\ ui.list \subseteq Ids /\ ui.sel \in ui.list \cup {"none"}
  /\ ui.def \in Ids \cup {"none"} /\ ui.revs \in Ids \cup {"none"}
  /\ Len(ui.ticked) <= 2
  /\ srv.there \subseteq Ids /\ srv.last \in [Ids -> 0..MaxRevision]

\* The page waits only for an answer that is still to come.
BusyIsAwaited ==
  /\ ui.loading => Pending("parser") \cup Pending("revisions") # {}
  /\ ui.saving => Writes # {}
  /\ ui.comparing => Pending("diff") # {}

\* A revision is written, or rolled back to, one at a time, unless one of the saves
\* is by the editor's key: that does not wait for the flag, and its end resets the
\* flag of a save that it overlaps.
OneWrite == ui.keyed \/ Cardinality(Writes) <= 1

\* The parser in the form is that of the selected source, and stored unless the
\* list is about to show that the source is gone, or it is about to be replaced;
\* it is another source's only when requests crossed a change of the selection or
\* the write was of another source's parser, till the next load that goes alone.
HeldIsOfSelected ==
  \/ ui.def = "none" \/ Pending("parser") # {} \/ ui.crossed
  \/ ui.def = ui.sel /\ (srv.last[ui.def] > 0 \/ ListLoads # {})
=============================================================================
