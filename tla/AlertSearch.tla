------------------------------ MODULE AlertSearch ------------------------------
(***************************************************************************)
(* TenantPage.tsx, the page /search: filters that search at every change,  *)
(* the schema that gives a source its dynamic filters, and the export.     *)
(* Text, state, severity, activity and ordering are one "text"; the values *)
(* typed for the fields of any source are one "dyn", kept under the names  *)
(* of the fields.                                                          *)
(***************************************************************************)
EXTENDS Browser

CONSTANTS Texts, SourceNames, Values
AlertSearchAssumption == "" \notin SourceNames /\ "" \in Values /\ Texts # {}

Name == "search"
Sources == SourceNames \cup {""}

\* What a search asks: a dynamic filter counts once its source's schema is known.
Payload(u) ==
  [text |-> u.text, source |-> u.source,
   dyn |-> IF u.source \in u.schemas THEN u.dyn ELSE ""]

\* "rows" holds the question that the table answers, if it has one.
Mounted ==
  {[text |-> CHOOSE t \in Texts : TRUE, source |-> "", dyn |-> "", schemas |-> {},
    loading |-> TRUE, searching |-> FALSE, rows |-> {}, columns |-> TRUE,
    exporting |-> FALSE]}
Stored == {[schemas |-> SourceNames]}
vars == <<view, ui, net, srv>>

NoQuestion == [text |-> "", source |-> "", dyn |-> ""]
Init ==
  /\ view = Name /\ ui \in Mounted /\ srv \in Stored
  /\ net = {[id |-> 1, op |-> "static", key |-> NoQuestion]}

\* The effect on the filters: runSearch to its await.  It waits for the page.
RunSearch(u, requests) ==
  IF u.loading THEN requests
  ELSE requests \cup
    {[id |-> CHOOSE i \in 1..MaxPending : \A r \in requests : r.id # i,
      op |-> "search", key |-> Payload(u)]}

\* The effect on [schemaMap, sourceFilter]: an unknown schema is asked for.
AskSchema(u, requests) ==
  IF u.source \in u.schemas \cup {""} THEN requests
  ELSE requests \cup
    {[id |-> CHOOSE i \in 1..MaxPending : \A r \in requests : r.id # i,
      op |-> "schema", key |-> [NoQuestion EXCEPT !.source = u.source]]}

\* The filters become those of u; both effects run when they see a change.
Filter(u) ==
  /\ Room
  /\ u.source \notin ui.schemas \cup {"", ui.source} => Cardinality(net) + 2 <= MaxPending
  /\ ui' = [u EXCEPT !.searching = @ \/ ~u.loading]
  /\ net' = IF u.source = ui.source THEN RunSearch(u, net)
            ELSE AskSchema(u, RunSearch(u, net))
  /\ UNCHANGED srv

\* loadStaticData after its await: the schemas of every source the server
\* knows, or none; the page is drawn and the first search runs.
StaticLoaded ==
  \E r \in Pending("static"), known \in SUBSET srv.schemas :
    /\ ui' = [ui EXCEPT !.schemas = known, !.loading = FALSE, !.searching = TRUE]
    /\ net' = RunSearch(ui', Without(r))
    /\ UNCHANGED srv

ChangeText ==
  \E t \in Texts \ {ui.text} : ~ui.loading /\ Filter([ui EXCEPT !.text = t])

\* A source of the list; the values typed for another source's fields stay.
ChooseSource ==
  \E s \in (ui.schemas \cup {""}) \ {ui.source} :
    ~ui.loading /\ Filter([ui EXCEPT !.source = s])

\* A dynamic filter is drawn only for a source with a known schema.
TypeValue ==
  \E v \in Values \ {ui.dyn} :
    /\ ui.source \in ui.schemas /\ ~ui.loading
    /\ Filter([ui EXCEPT !.dyn = v])

\* applySavedSearch: every filter at once, with a source that may be unknown,
\* and the columns, of which there is always one.
ApplySaved ==
  \E t \in Texts, s \in Sources, v \in Values :
    /\ ~ui.loading
    /\ Filter([ui EXCEPT !.text = t, !.source = s, !.dyn = v, !.columns = TRUE])

\* runSearch after its await; a search that fails empties the table.
AnswerSearch ==
  \E r \in Pending("search"), ok \in BOOLEAN :
    /\ ui' = [ui EXCEPT !.searching = FALSE, !.rows = IF ok THEN {r.key} ELSE {}]
    /\ net' = Without(r)
    /\ UNCHANGED srv

\* The schema arrives and brings its fields; no search runs with them.  The new
\* map, even of the same schemas, runs the effect again.
AnswerSchema ==
  \E r \in Pending("schema"), ok \in BOOLEAN :
    LET u == [ui EXCEPT !.schemas = @ \cup {r.key.source}] IN
    /\ ui' = IF ok THEN u ELSE ui
    /\ net' = IF ok THEN AskSchema(u, Without(r)) ELSE Without(r)
    /\ UNCHANGED srv

ToggleColumns ==
  /\ ~ui.loading
  /\ ui' = [ui EXCEPT !.columns = ~@]
  /\ UNCHANGED <<net, srv>>

\* handleExportCsv: refused without a column.
ExportCsv ==
  /\ ~ui.loading /\ ~ui.exporting /\ ui.columns /\ Room
  /\ ui' = [ui EXCEPT !.exporting = TRUE]
  /\ net' = Sent("export", Payload(ui))
  /\ UNCHANGED srv

AnswerExport ==
  \E r \in Pending("export") :
    /\ ui' = [ui EXCEPT !.exporting = FALSE]
    /\ net' = Without(r)
    /\ UNCHANGED srv

Next ==
  /\ view = Name /\ UNCHANGED view
  /\ \/ StaticLoaded \/ ChangeText \/ ChooseSource \/ TypeValue \/ ApplySaved
     \/ AnswerSearch \/ AnswerSchema \/ ToggleColumns \/ ExportCsv \/ AnswerExport

-----------------------------------------------------------------------------
Question == [text : Texts, source : Sources, dyn : Values]

TypeOK ==
  /\ ui.text \in Texts /\ ui.source \in Sources /\ ui.dyn \in Values
  /\ ui.schemas \subseteq SourceNames /\ ui.rows \subseteq Question
  /\ \A f \in {"loading", "searching", "columns", "exporting"} : ui[f] \in BOOLEAN

\* The page, the table and the export wait only for an answer still to come.
BusyIsAwaited ==
  /\ ui.loading <=> Pending("static") # {}
  /\ ui.searching => Pending("search") # {}
  /\ ui.exporting <=> Pending("export") # {}

\* One file is asked for at a time.
OneWrite == Cardinality(Pending("export")) <= 1
=============================================================================
