------------------------------- MODULE TestCases -------------------------------
(***************************************************************************)
(* ParserTestCases.tsx: the test cases of the parser a page shows.  The    *)
(* component stays when the page shows another parser; a test case is told *)
(* by its parser and a number.  The case whose difference is drawn is the  *)
(* selected one, if the results still hold it.                             *)
(***************************************************************************)
EXTENDS Browser

CONSTANTS Parsers, Numbers          \* bound: the test cases of a parser
TestCasesAssumption == "none" \notin Parsers /\ 0 \notin Numbers

Name == "testCases"
Cases == Parsers \X Numbers
NoCase == <<"none", 0>>

Mounted ==
  {[parser |-> p, items |-> {}, results |-> {}, failed |-> {}, selected |-> NoCase,
    dialog |-> FALSE, loading |-> FALSE, running |-> FALSE, saving |-> FALSE] :
      p \in {"none"}}
Stored == {[cases |-> {}]}
vars == <<view, ui, net, srv>>
Init == Shows(Name, Mounted, Stored)

\* A call for a parser as a whole; a deletion names a case.
All(p) == <<p, 0>>
Of(p) == {c \in srv.cases : c[1] = p}

\* The effect on [parserId]: without a parser the list is emptied, else loaded.
ChangeParser ==
  \E p \in (Parsers \cup {"none"}) \ {ui.parser} :
    /\ p # "none" => Room
    /\ ui' = IF p = "none" THEN [ui EXCEPT !.parser = p, !.items = {}]
             ELSE [ui EXCEPT !.parser = p, !.loading = TRUE]
    /\ net' = IF p = "none" THEN net ELSE Sent("load", All(p))
    /\ UNCHANGED srv

\* The test cases of the parser they were asked for.
AnswerLoad ==
  \E r \in Pending("load"), ok \in BOOLEAN :
    /\ ui' = [ui EXCEPT !.items = IF ok THEN Of(r.key[1]) ELSE @, !.loading = FALSE]
    /\ net' = Without(r)
    /\ UNCHANGED srv

ToggleDialog ==
  /\ ui.dialog \/ ui.parser # "none"
  /\ ui' = [ui EXCEPT !.dialog = ~@]
  /\ UNCHANGED <<net, srv>>

\* createTestCase, for the parser of the page when the button is pressed.
Create ==
  /\ ui.dialog /\ ui.parser # "none" /\ ~ui.saving /\ Room
  /\ ui' = [ui EXCEPT !.saving = TRUE]
  /\ net' = Sent("create", All(ui.parser))
  /\ UNCHANGED srv

Created ==
  \E r \in Pending("create") :
    \E c \in ({r.key[1]} \X Numbers) \ srv.cases :
      /\ srv' = [srv EXCEPT !.cases = @ \cup {c}]
      /\ ui' = [ui EXCEPT !.dialog = FALSE, !.loading = TRUE]
      /\ net' = Without(r) \cup {[r EXCEPT !.op = "createLoad"]}

\* Also when the expected output is no JSON: then nothing was sent.
CreateFails ==
  \E r \in Pending("create") :
    /\ ui' = [ui EXCEPT !.saving = FALSE]
    /\ net' = Without(r)
    /\ UNCHANGED srv

CreateLoaded ==
  \E r \in Pending("createLoad"), ok \in BOOLEAN :
    /\ ui' = [ui EXCEPT !.items = IF ok THEN Of(r.key[1]) ELSE @,
                        !.loading = FALSE, !.saving = FALSE]
    /\ net' = Without(r)
    /\ UNCHANGED srv

\* A row whose result failed is selected.
SelectFailed ==
  \E c \in ui.items \cap ui.failed :
    /\ ui' = [ui EXCEPT !.selected = c]
    /\ UNCHANGED <<net, srv>>

\* The button of a row does not wait for anything; the call remembers whether the
\* row was the selected one when it was made.
Delete ==
  \E c \in ui.items :
    /\ ui.parser # "none" /\ Room
    /\ net' = Sent(IF c = ui.selected THEN "deleteSelected" ELSE "delete", c)
    /\ UNCHANGED <<ui, srv>>

\* The case leaves the list and its result the results, whatever is shown by then.
Deleted ==
  \E r \in Pending("delete") \cup Pending("deleteSelected") :
    /\ net' = Without(r)
    /\ \/ /\ r.key \in srv.cases
          /\ srv' = [srv EXCEPT !.cases = @ \ {r.key}]
          /\ ui' = [ui EXCEPT !.items = @ \ {r.key}, !.results = @ \ {r.key},
                              !.failed = @ \ {r.key},
                              !.selected = IF r.op = "deleteSelected" THEN NoCase ELSE @]
       \/ UNCHANGED <<ui, srv>>

RunAll ==
  /\ ui.parser # "none" /\ ~ui.running /\ ui.items # {} /\ Room
  /\ ui' = [ui EXCEPT !.running = TRUE]
  /\ net' = Sent("run", All(ui.parser))
  /\ UNCHANGED srv

\* Variant: a run that fails for no case leaves the selection.
ResultsKeepSelected(results, f) ==
  {[ui EXCEPT !.results = results, !.failed = f, !.selected = c, !.running = FALSE] :
     c \in IF f = {} THEN {ui.selected} ELSE f}

\* The results of a run that failed for the cases f, one of them selected.
Results(results, f) ==
  {[ui EXCEPT !.results = results, !.failed = f, !.selected = c, !.running = FALSE] :
     c \in IF f = {} THEN {NoCase} ELSE f}

\* Some of the cases the server holds fail.
AnswerRun ==
  \E r \in Pending("run") :
    /\ \/ \E f \in SUBSET Of(r.key[1]) : ui' \in Results(Of(r.key[1]), f)
       \/ ui' = [ui EXCEPT !.running = FALSE]
    /\ net' = Without(r)
    /\ UNCHANGED srv

Next ==
  /\ view = Name /\ UNCHANGED view
  /\ \/ ChangeParser \/ AnswerLoad \/ ToggleDialog \/ Create \/ Created \/ CreateFails
     \/ CreateLoaded \/ SelectFailed \/ Delete \/ Deleted \/ RunAll \/ AnswerRun

-----------------------------------------------------------------------------
TypeOK ==
  /\ ui.parser \in Parsers \cup {"none"}
  /\ ui.items \subseteq Cases /\ ui.results \subseteq Cases /\ srv.cases \subseteq Cases

\* The difference drawn is never that of a case that passed: a selection that
\* outlived its case, or a later run, shows nothing or a failure.
DrawnHasFailed == ui.selected \in ui.results => ui.selected \in ui.failed

\* The component waits only for an answer that is still to come.
BusyIsAwaited ==
  /\ ui.loading => Pending("load") \cup Pending("createLoad") # {}
  /\ ui.running => Pending("run") # {}
  /\ ui.saving => Pending("create") \cup Pending("createLoad") # {}

\* One test case is written at a time.
OneWrite == Cardinality(Pending("create") \cup Pending("createLoad")) <= 1
=============================================================================
