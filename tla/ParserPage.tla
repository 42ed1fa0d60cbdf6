------------------------------ MODULE ParserPage ------------------------------
(***************************************************************************)
(* ParserPage.tsx: the parser of a source chosen from a list, its preview, *)
(* its revisions.  A parser is told by its source.  A choice of a source   *)
(* loads its parser without checking that the source is still chosen.      *)
(***************************************************************************)
EXTENDS Browser

CONSTANTS Ids
ParserPageAssumption == "none" \notin Ids

Name == "parser"

\* def: the parser whose definition is held; text: where the form's text is from.
Mounted ==
  {[source |-> "none", sources |-> {}, def |-> "none", text |-> "none", loading |-> TRUE,
    busy |-> FALSE]}
Stored == {[parsers |-> s] : s \in SUBSET Ids}
vars == <<view, ui, net, srv>>
Init ==
  /\ view = Name /\ ui \in Mounted /\ srv \in Stored
  /\ net = {[id |-> 1, op |-> "reload", key |-> "none"]}

\* hydrateFromParser of what the server has for a source.
Hydrated(u, s) ==
  [u EXCEPT !.def = IF s \in srv.parsers THEN s ELSE "none", !.text = s]

\* reload: the chosen source is kept, else one with a parser is preferred.
\* Without a parser the list of that source's parsers is asked for as well.
Choice ==
  IF ui.source # "none" THEN {ui.source} ELSE IF srv.parsers # {} THEN srv.parsers ELSE Ids

AnswerReload ==
  \E r \in Pending("reload") :
    /\ UNCHANGED srv
    /\ \/ \E s \in Choice :
            /\ ui' = [Hydrated([ui EXCEPT !.source = s, !.sources = Ids], s)
                        EXCEPT !.loading = s \notin srv.parsers]
            /\ net' = IF s \in srv.parsers THEN Without(r)
                      ELSE Without(r) \cup {[r EXCEPT !.op = "first", !.key = s]}
       \/ \* the call failed
          /\ ui' = [ui EXCEPT !.loading = FALSE]
          /\ net' = Without(r)

AnswerFirst ==
  \E r \in Pending("first"), ok \in BOOLEAN :
    /\ ui' = [(IF ok THEN Hydrated(ui, r.key) ELSE ui) EXCEPT !.loading = FALSE]
    /\ net' = Without(r)
    /\ UNCHANGED srv

\* While it loads the page is a progress bar.
Usable == ~ui.loading

SourceChange ==
  \E s \in ui.sources \ {ui.source} :
    /\ Usable /\ ~ui.busy /\ Room
    /\ ui' = [ui EXCEPT !.source = s]
    /\ net' = Sent("parser", s)
    /\ UNCHANGED srv

\* A failure leaves the parser of the source chosen before in the form.
AnswerParser ==
  \E r \in Pending("parser"), ok \in BOOLEAN :
    /\ ui' = IF ok THEN Hydrated(ui, r.key) ELSE ui
    /\ net' = Without(r)
    /\ UNCHANGED srv

\* saveParser: the definition that is held is updated, else one is created for
\* the chosen source.  Afterwards the chosen source's parser is loaded.
Save ==
  /\ Usable /\ ~ui.busy /\ ui.source # "none" /\ Room
  /\ ui' = [ui EXCEPT !.busy = TRUE]
  /\ net' = net \cup {[id |-> Fresh, op |-> IF ui.def = "none" THEN "create" ELSE "update",
                       key |-> IF ui.def = "none" THEN ui.source ELSE ui.def]}
  /\ UNCHANGED srv

\* A second parser of a source is refused, and then the form is loaded all the same.
AnswerSave ==
  \E r \in Pending("create") \cup Pending("update") :
    /\ \/ /\ r.op = "update" \/ r.key \notin srv.parsers
          /\ srv' = [srv EXCEPT !.parsers = @ \cup {r.key}]
          /\ ui' = [ui EXCEPT !.def = r.key, !.busy = FALSE]
       \/ /\ ui' = [ui EXCEPT !.busy = FALSE]
          /\ UNCHANGED srv
    /\ net' = Without(r) \cup {[r EXCEPT !.op = "parser", !.key = ui.source]}

\* A preview needs the form only; a rollback puts the revision's text into it.
RunPreview ==
  /\ Usable /\ ~ui.busy /\ ui.source # "none" /\ Room
  /\ ui' = [ui EXCEPT !.busy = TRUE]
  /\ net' = Sent("preview", ui.source)
  /\ UNCHANGED srv

RunRollback ==
  /\ Usable /\ ~ui.busy /\ ui.def # "none" /\ Room
  /\ ui' = [ui EXCEPT !.busy = TRUE]
  /\ net' = Sent("rollback", ui.def)
  /\ UNCHANGED srv

AnswerTask ==
  \E r \in Pending("preview") \cup Pending("rollback"), ok \in BOOLEAN :
    /\ ui' = [ui EXCEPT !.busy = FALSE,
                        !.def = IF ok /\ r.op = "rollback" THEN r.key ELSE @,
                        !.text = IF ok /\ r.op = "rollback" THEN r.key ELSE @]
    /\ net' = Without(r)
    /\ UNCHANGED srv

\* The refresh button.
Reload ==
  /\ Usable /\ ~ui.busy /\ Room
  /\ ui' = [ui EXCEPT !.loading = TRUE]
  /\ net' = Sent("reload", "none")
  /\ UNCHANGED srv

Next ==
  /\ view = Name /\ UNCHANGED view
  /\ \/ AnswerReload \/ AnswerFirst \/ SourceChange \/ AnswerParser \/ Save
     \/ AnswerSave \/ RunPreview \/ RunRollback \/ AnswerTask \/ Reload

-----------------------------------------------------------------------------
Tasks == {r \in net : r.op \in {"create", "update", "preview", "rollback"}}

TypeOK ==
  /\ \A f \in {"source", "def", "text"} : ui[f] \in Ids \cup {"none"}
  /\ ui.loading \in BOOLEAN /\ ui.busy \in BOOLEAN

\* The page waits only for an answer that is still to come.
BusyIsAwaited ==
  /\ ui.loading => Pending("reload") \cup Pending("first") # {}
  /\ ui.busy <=> Tasks # {}

\* A parser is saved, or rolled back, one at a time.
OneWrite == Cardinality(Tasks) <= 1
=============================================================================
