---------------------------- MODULE FrontendProofs ----------------------------
(* What the views of the application show, for every value of the constants.   *)
(* Each view has an invariant of its own, here for those of the administration *)
(* and of the session, in ViewsProofs for the others; a step is one of the     *)
(* mounted view's.                                                             *)
EXTENDS ViewsProofs, WellFoundedInduction

-----------------------------------------------------------------------------
(* TestCases: what is drawn has failed, and one case is written at a time.     *)

CaseFields ==
  {"parser", "items", "results", "failed", "selected", "dialog", "loading", "running", "saving"}
CaseWrites == {"create", "createLoad"}

\* What a state u of the component holds.
CaseHolds(u) ==
  /\ DOMAIN u = CaseFields /\ u.parser \in Parsers \cup {"none"}
  /\ u.items \subseteq Cases!Cases /\ u.results \subseteq Cases!Cases
  /\ u.failed \subseteq Cases!Cases
  /\ u.selected \in u.results => u.selected \in u.failed
  /\ u.loading \in BOOLEAN /\ u.running \in BOOLEAN /\ u.saving \in BOOLEAN

\* What the flags of u wait for, of the calls N that are out.
CaseWaits(u, N) ==
  /\ u.loading => \E r \in N : r.op \in {"load", "createLoad"}
  /\ u.running => \E r \in N : r.op = "run"
  /\ u.saving <=> \E r \in N : r.op \in CaseWrites
  /\ \A r, x \in N : r.op \in CaseWrites /\ x.op \in CaseWrites => r = x

\* A call is for a parser, as a whole or about one of its cases.
CaseCall(r) ==
  DOMAIN r = {"id", "op", "key"} /\ r.key \in Parsers \X (Numbers \cup {0})

CasesInv ==
  /\ DOMAIN srv = {"cases"} /\ srv.cases \subseteq Cases!Cases
  /\ CaseHolds(ui) /\ CaseWaits(ui, net)
  /\ \A r \in net : CaseCall(r)

\* A selection that is no case was not a result.
LEMMA NoCaseIsNone == Cases!NoCase \notin Cases!Cases
BY FrontendAssumption DEF Cases!TestCasesAssumption, Cases!NoCase, Cases!Cases

LEMMA CaseIsCalled == \A c \in Cases!Cases : c \in Parsers \X (Numbers \cup {0})
BY DEF Cases!Cases

LEMMA CaseAll ==
  ASSUME NEW p \in Parsers
  PROVE  Cases!All(p) \in Parsers \X (Numbers \cup {0}) /\ Cases!All(p)[1] = p
BY DEF Cases!All

LEMMA CasesInit == Cases!Init => CasesInv
<1> SUFFICES ASSUME Cases!Init PROVE CasesInv
  OBVIOUS
<1>1. /\ DOMAIN ui = CaseFields /\ ui.parser = "none" /\ ui.items = {} /\ ui.results = {}
      /\ ui.failed = {} /\ ui.loading = FALSE /\ ui.running = FALSE /\ ui.saving = FALSE
  BY DEF Cases!Init, Cases!Shows, Cases!Mounted, CaseFields
<1>2. DOMAIN srv = {"cases"} /\ srv.cases = {} /\ net = {}
  BY DEF Cases!Init, Cases!Shows, Cases!Stored
<1> QED
  BY <1>1, <1>2, Zenon DEF CasesInv, CaseHolds, CaseWaits

\* A step that leaves the cases stored.
LEMMA CasesQuiet ==
  ASSUME CasesInv, srv' = srv, CaseHolds(ui'), CaseWaits(ui', net'), \A r \in net' : CaseCall(r)
  PROVE  CasesInv'
BY DEF CasesInv, CaseHolds, CaseWaits, CaseCall

\* Another parser is shown, and its cases are asked for.
LEMMA CasesParser == ASSUME CasesInv, Cases!ChangeParser PROVE CasesInv'
<1>1. PICK v, u : v = ui' /\ u = ui
  OBVIOUS
<1>2. CaseHolds(u) /\ CaseWaits(u, net) /\ \A r \in net : CaseCall(r)
  BY <1>1 DEF CasesInv
<1>3. PICK p \in Parsers \cup {"none"} :
        \/ /\ p = "none" /\ v = [u EXCEPT !.parser = p, !.items = {}] /\ net' = net
        \/ /\ p \in Parsers /\ v = [u EXCEPT !.parser = p, !.loading = TRUE]
           /\ net' = Cases!Sent("load", Cases!All(p))
  BY <1>1, Zenon DEF Cases!ChangeParser
<1>4. srv' = srv
  BY DEF Cases!ChangeParser
<1>5. CASE v = [u EXCEPT !.parser = p, !.items = {}] /\ net' = net
  <2>1. /\ DOMAIN v = CaseFields /\ v.parser = p /\ v.items = {} /\ v.results = u.results
        /\ v.failed = u.failed /\ v.selected = u.selected /\ v.loading = u.loading
        /\ v.running = u.running /\ v.saving = u.saving
    BY <1>2, <1>5 DEF CaseHolds, CaseFields
  <2>2. CaseHolds(v)
    BY <1>2, <2>1 DEF CaseHolds
  <2>3. CaseWaits(v, net')
    BY <1>2, <1>5, <2>1 DEF CaseWaits
  <2> QED
    BY <1>1, <1>2, <1>4, <1>5, <2>2, <2>3, CasesQuiet
<1>6. CASE /\ p \in Parsers /\ v = [u EXCEPT !.parser = p, !.loading = TRUE]
           /\ net' = Cases!Sent("load", Cases!All(p))
  <2>1. /\ DOMAIN v = CaseFields /\ v.parser = p /\ v.items = u.items /\ v.results = u.results
        /\ v.failed = u.failed /\ v.selected = u.selected /\ v.loading = TRUE
        /\ v.running = u.running /\ v.saving = u.saving
    BY <1>2, <1>6 DEF CaseHolds, CaseFields
  <2>2. CaseHolds(v)
    BY <1>2, <2>1, Zenon DEF CaseHolds
  <2>3. PICK n : n = [id |-> Cases!Fresh, op |-> "load", key |-> Cases!All(p)]
    OBVIOUS
  <2>4. DOMAIN n = {"id", "op", "key"} /\ n.op = "load" /\ n.key = Cases!All(p)
    BY <2>3
  <2>5. net' = net \cup {n}
    BY <1>6, <2>3 DEF Cases!Sent
  <2>6. CaseWaits(v, net')
    BY <1>2, <2>1, <2>4, <2>5 DEF CaseWaits, CaseWrites
  <2>7. CaseCall(n)
    BY <1>6, <2>4, CaseAll DEF CaseCall
  <2> QED
    BY <1>1, <1>2, <1>4, <2>2, <2>5, <2>6, <2>7, CasesQuiet
<1> QED
  BY <1>3, <1>5, <1>6

\* A call is sent, and the flag it sets waits for it.
LEMMA CasesSends ==
  ASSUME CasesInv, Cases!Create \/ Cases!RunAll \/ Cases!Delete
  PROVE  CasesInv'
<1>1. PICK v, u : v = ui' /\ u = ui
  OBVIOUS
<1>2. CaseHolds(u) /\ CaseWaits(u, net) /\ \A r \in net : CaseCall(r)
  BY <1>1 DEF CasesInv
<1>3. srv' = srv
  BY DEF Cases!Create, Cases!RunAll, Cases!Delete
<1>4. CASE Cases!Create
  <2>1. /\ ~u.saving /\ u.parser # "none" /\ v = [u EXCEPT !.saving = TRUE]
        /\ net' = Cases!Sent("create", Cases!All(u.parser))
    BY <1>1, <1>4 DEF Cases!Create
  <2>2. /\ DOMAIN v = CaseFields /\ v.parser = u.parser /\ v.items = u.items
        /\ v.results = u.results /\ v.failed = u.failed /\ v.selected = u.selected
        /\ v.loading = u.loading /\ v.running = u.running /\ v.saving = TRUE
    BY <1>2, <2>1 DEF CaseHolds, CaseFields
  <2>3. CaseHolds(v)
    BY <1>2, <2>2, Zenon DEF CaseHolds
  <2>4. PICK n : n = [id |-> Cases!Fresh, op |-> "create", key |-> Cases!All(u.parser)]
    OBVIOUS
  <2>5. DOMAIN n = {"id", "op", "key"} /\ n.op = "create" /\ n.key = Cases!All(u.parser)
    BY <2>4
  <2>6. net' = net \cup {n} /\ u.parser \in Parsers
    BY <1>2, <2>1, <2>4 DEF Cases!Sent, CaseHolds
  <2>7. CaseWaits(v, net')
    BY <1>2, <2>1, <2>2, <2>5, <2>6 DEF CaseWaits, CaseWrites
  <2>8. CaseCall(n)
    BY <2>5, <2>6, CaseAll DEF CaseCall
  <2> QED
    BY <1>1, <1>2, <1>3, <2>3, <2>6, <2>7, <2>8, CasesQuiet
<1>5. CASE Cases!RunAll
  <2>1. /\ u.parser # "none" /\ v = [u EXCEPT !.running = TRUE]
        /\ net' = Cases!Sent("run", Cases!All(u.parser))
    BY <1>1, <1>5 DEF Cases!RunAll
  <2>2. /\ DOMAIN v = CaseFields /\ v.parser = u.parser /\ v.items = u.items
        /\ v.results = u.results /\ v.failed = u.failed /\ v.selected = u.selected
        /\ v.loading = u.loading /\ v.running = TRUE /\ v.saving = u.saving
    BY <1>2, <2>1 DEF CaseHolds, CaseFields
  <2>3. CaseHolds(v)
    BY <1>2, <2>2, Zenon DEF CaseHolds
  <2>4. PICK n : n = [id |-> Cases!Fresh, op |-> "run", key |-> Cases!All(u.parser)]
    OBVIOUS
  <2>5. DOMAIN n = {"id", "op", "key"} /\ n.op = "run" /\ n.key = Cases!All(u.parser)
    BY <2>4
  <2>6. net' = net \cup {n} /\ u.parser \in Parsers
    BY <1>2, <2>1, <2>4 DEF Cases!Sent, CaseHolds
  <2>7. CaseWaits(v, net')
    BY <1>2, <2>2, <2>5, <2>6 DEF CaseWaits, CaseWrites
  <2>8. CaseCall(n)
    BY <2>5, <2>6, CaseAll DEF CaseCall
  <2> QED
    BY <1>1, <1>2, <1>3, <2>3, <2>6, <2>7, <2>8, CasesQuiet
<1>6. CASE Cases!Delete
  <2>1. PICK c \in u.items, op \in {"delete", "deleteSelected"} :
          net' = Cases!Sent(op, c) /\ v = u
    BY <1>1, <1>6 DEF Cases!Delete
  <2>2. PICK n : n = [id |-> Cases!Fresh, op |-> op, key |-> c]
    OBVIOUS
  <2>3. DOMAIN n = {"id", "op", "key"} /\ n.op = op /\ n.key = c
    BY <2>2
  <2>4. net' = net \cup {n}
    BY <2>1, <2>2 DEF Cases!Sent
  <2>5. CaseWaits(v, net')
    BY <1>2, <2>1, <2>3, <2>4 DEF CaseWaits, CaseWrites
  <2>6. CaseCall(n)
    BY <1>2, <2>1, <2>3, CaseIsCalled DEF CaseCall, CaseHolds
  <2> QED
    BY <1>1, <1>2, <1>3, <2>1, <2>4, <2>5, <2>6, CasesQuiet
<1> QED
  BY <1>4, <1>5, <1>6

\* The dialog opens and closes; a failed row is selected.
LEMMA CasesShows ==
  ASSUME CasesInv, Cases!ToggleDialog \/ Cases!SelectFailed
  PROVE  CasesInv'
<1>1. PICK v, u : v = ui' /\ u = ui
  OBVIOUS
<1>2. CaseHolds(u) /\ CaseWaits(u, net) /\ \A r \in net : CaseCall(r)
  BY <1>1 DEF CasesInv
<1>3. srv' = srv /\ net' = net
  BY DEF Cases!ToggleDialog, Cases!SelectFailed
<1>4. PICK d, c : /\ v = [u EXCEPT !.dialog = d, !.selected = c]
                  /\ c \in u.failed \/ c = u.selected
  <2>1. CASE Cases!ToggleDialog
    <3>1. v = [u EXCEPT !.dialog = ~u.dialog, !.selected = u.selected]
      BY <1>1, <1>2, <2>1, Zenon DEF Cases!ToggleDialog, CaseHolds, CaseFields
    <3> QED
      BY <3>1, Zenon
  <2>2. CASE Cases!SelectFailed
    <3>1. PICK c \in ui.items \cap ui.failed : ui' = [ui EXCEPT !.selected = c]
      BY <2>2 DEF Cases!SelectFailed
    <3>2. c \in u.failed /\ v = [u EXCEPT !.selected = c]
      BY <1>1, <3>1
    <3>3. v = [u EXCEPT !.dialog = u.dialog, !.selected = c]
      BY <1>2, <3>2, Zenon DEF CaseHolds, CaseFields
    <3> QED
      BY <3>2, <3>3, Zenon
  <2> QED
    BY <2>1, <2>2, Zenon
<1>5. /\ DOMAIN v = CaseFields /\ v.parser = u.parser /\ v.items = u.items
      /\ v.results = u.results /\ v.failed = u.failed /\ v.selected = c
      /\ v.loading = u.loading /\ v.running = u.running /\ v.saving = u.saving
  BY <1>2, <1>4 DEF CaseHolds, CaseFields
<1>6. CaseHolds(v)
  BY <1>2, <1>4, <1>5 DEF CaseHolds
<1>7. CaseWaits(v, net')
  BY <1>2, <1>3, <1>5 DEF CaseWaits
<1> QED
  BY <1>1, <1>2, <1>3, <1>6, <1>7, CasesQuiet

\* The cases of a parser arrive.
LEMMA CasesLoaded ==
  ASSUME CasesInv, Cases!AnswerLoad \/ Cases!CreateLoaded \/ Cases!CreateFails
  PROVE  CasesInv'
<1>1. PICK v, u : v = ui' /\ u = ui
  OBVIOUS
<1>2. CaseHolds(u) /\ CaseWaits(u, net) /\ \A r \in net : CaseCall(r)
  BY <1>1 DEF CasesInv
<1>3. srv' = srv
  BY Zenon DEF Cases!AnswerLoad, Cases!CreateLoaded, Cases!CreateFails
<1>4. \A p : Cases!Of(p) \subseteq Cases!Cases
  BY DEF CasesInv, Cases!Of
<1>5. CASE Cases!AnswerLoad
  <2>0. PICK r \in Cases!Pending("load"), ok \in BOOLEAN :
          /\ ui' = [ui EXCEPT !.items = IF ok THEN Cases!Of(r.key[1]) ELSE @,
                             !.loading = FALSE]
          /\ net' = Cases!Without(r)
    BY <1>5, Zenon DEF Cases!AnswerLoad
  <2>01. PICK S : S = IF ok THEN Cases!Of(r.key[1]) ELSE u.items
    OBVIOUS
  <2>02. S \subseteq Cases!Cases
    BY <1>2, <1>4, <2>01 DEF CaseHolds
  <2>1. /\ r \in net
        /\ r.op = "load" /\ net' = net \ {r} /\ S \subseteq Cases!Cases
        /\ v = [u EXCEPT !.items = S, !.loading = FALSE]
    BY <1>1, <2>0, <2>01, <2>02 DEF Cases!Pending, Cases!Without
  <2>2. /\ DOMAIN v = CaseFields /\ v.parser = u.parser /\ v.items = S
        /\ v.results = u.results /\ v.failed = u.failed /\ v.selected = u.selected
        /\ v.loading = FALSE /\ v.running = u.running /\ v.saving = u.saving
    BY <1>2, <2>1 DEF CaseHolds, CaseFields
  <2>3. CaseHolds(v)
    BY <1>2, <2>1, <2>2 DEF CaseHolds
  <2>4. CaseWaits(v, net')
    BY <1>2, <2>1, <2>2 DEF CaseWaits, CaseWrites
  <2> QED
    BY <1>1, <1>2, <1>3, <2>1, <2>3, <2>4, CasesQuiet
<1>6. CASE Cases!CreateLoaded
  <2>0. PICK r \in Cases!Pending("createLoad"), ok \in BOOLEAN :
          /\ ui' = [ui EXCEPT !.items = IF ok THEN Cases!Of(r.key[1]) ELSE @,
                             !.loading = FALSE, !.saving = FALSE]
          /\ net' = Cases!Without(r)
    BY <1>6, Zenon DEF Cases!CreateLoaded
  <2>01. PICK S : S = IF ok THEN Cases!Of(r.key[1]) ELSE u.items
    OBVIOUS
  <2>02. S \subseteq Cases!Cases
    BY <1>2, <1>4, <2>01 DEF CaseHolds
  <2>1. /\ r \in net
        /\ r.op = "createLoad" /\ net' = net \ {r} /\ S \subseteq Cases!Cases
        /\ v = [u EXCEPT !.items = S, !.loading = FALSE, !.saving = FALSE]
    BY <1>1, <2>0, <2>01, <2>02 DEF Cases!Pending, Cases!Without
  <2>2. /\ DOMAIN v = CaseFields /\ v.parser = u.parser /\ v.items = S
        /\ v.results = u.results /\ v.failed = u.failed /\ v.selected = u.selected
        /\ v.loading = FALSE /\ v.running = u.running /\ v.saving = FALSE
    BY <1>2, <2>1 DEF CaseHolds, CaseFields
  <2>3. CaseHolds(v)
    BY <1>2, <2>1, <2>2 DEF CaseHolds
  <2>4. CaseWaits(v, net')
    BY <1>2, <2>1, <2>2 DEF CaseWaits, CaseWrites
  <2> QED
    BY <1>1, <1>2, <1>3, <2>1, <2>3, <2>4, CasesQuiet
<1>7. CASE Cases!CreateFails
  <2>1. PICK r \in net :
          r.op = "create" /\ net' = net \ {r} /\ v = [u EXCEPT !.saving = FALSE]
    BY <1>1, <1>7 DEF Cases!CreateFails, Cases!Pending, Cases!Without
  <2>2. /\ DOMAIN v = CaseFields /\ v.parser = u.parser /\ v.items = u.items
        /\ v.results = u.results /\ v.failed = u.failed /\ v.selected = u.selected
        /\ v.loading = u.loading /\ v.running = u.running /\ v.saving = FALSE
    BY <1>2, <2>1 DEF CaseHolds, CaseFields
  <2>3. CaseHolds(v)
    BY <1>2, <2>1, <2>2 DEF CaseHolds
  <2>4. CaseWaits(v, net')
    BY <1>2, <2>1, <2>2 DEF CaseWaits, CaseWrites
  <2> QED
    BY <1>1, <1>2, <1>3, <2>1, <2>3, <2>4, CasesQuiet
<1> QED
  BY <1>5, <1>6, <1>7

\* A case is stored, and the list asked for again.
LEMMA CasesCreated == ASSUME CasesInv, Cases!Created PROVE CasesInv'
<1>1. PICK v, u : v = ui' /\ u = ui
  OBVIOUS
<1>2. CaseHolds(u) /\ CaseWaits(u, net) /\ \A r \in net : CaseCall(r)
  BY <1>1 DEF CasesInv
<1>3. PICK r, c :
        /\ r \in net
        /\ c \in {r.key[1]} \X Numbers
        /\ r.op = "create" /\ srv' = [srv EXCEPT !.cases = @ \cup {c}]
        /\ v = [u EXCEPT !.dialog = FALSE, !.loading = TRUE]
        /\ net' = (net \ {r}) \cup {[r EXCEPT !.op = "createLoad"]}
  <2>1. PICK r \in net :
          /\ r.op = "create" /\ net' = Cases!Without(r) \cup {[r EXCEPT !.op = "createLoad"]}
          /\ ui' = [ui EXCEPT !.dialog = FALSE, !.loading = TRUE]
          /\ \E c \in ({r.key[1]} \X Numbers) \ srv.cases : srv' = [srv EXCEPT !.cases = @ \cup {c}]
    BY Zenon DEF Cases!Created, Cases!Pending
  <2>2. PICK c \in ({r.key[1]} \X Numbers) \ srv.cases : srv' = [srv EXCEPT !.cases = @ \cup {c}]
    BY <2>1, Zenon
  <2>3. c \in {r.key[1]} \X Numbers
    BY <2>2
  <2> QED
    BY <1>1, <2>1, <2>2, <2>3, Zenon DEF Cases!Without
<1>4. CaseCall(r)
  BY <1>2, <1>3
<1>5. c \in Cases!Cases
  BY <1>3, <1>4 DEF CaseCall, Cases!Cases
<1>6. DOMAIN srv' = {"cases"} /\ srv'.cases \subseteq Cases!Cases
  BY <1>3, <1>5 DEF CasesInv
<1>7. /\ DOMAIN v = CaseFields /\ v.parser = u.parser /\ v.items = u.items
      /\ v.results = u.results /\ v.failed = u.failed /\ v.selected = u.selected
      /\ v.loading = TRUE /\ v.running = u.running /\ v.saving = u.saving
  BY <1>2, <1>3 DEF CaseHolds, CaseFields
<1>8. CaseHolds(v)
  BY <1>2, <1>7, Zenon DEF CaseHolds
<1>9. PICK n : n = [r EXCEPT !.op = "createLoad"]
  OBVIOUS
<1>10. DOMAIN n = {"id", "op", "key"} /\ n.op = "createLoad" /\ n.key = r.key
  BY <1>4, <1>9 DEF CaseCall
<1>11. net' = (net \ {r}) \cup {n}
  BY <1>3, <1>9
<1>12. CaseWaits(v, net')
  BY <1>2, <1>3, <1>7, <1>10, <1>11 DEF CaseWaits, CaseWrites
<1>13. CaseCall(n)
  BY <1>4, <1>10 DEF CaseCall
<1>14. CaseHolds(ui') /\ CaseWaits(ui', net') /\ \A x \in net' : CaseCall(x)
  BY <1>1, <1>2, <1>8, <1>11, <1>12, <1>13
<1> QED
  BY <1>6, <1>14 DEF CasesInv, CaseHolds, CaseWaits, CaseCall

\* A case is deleted, or was not there.
LEMMA CasesDeleted == ASSUME CasesInv, Cases!Deleted PROVE CasesInv'
<1>1. PICK v, u : v = ui' /\ u = ui
  OBVIOUS
<1>2. CaseHolds(u) /\ CaseWaits(u, net) /\ \A r \in net : CaseCall(r)
  BY <1>1 DEF CasesInv
<1>3. PICK r \in net :
        /\ r.op \in {"delete", "deleteSelected"} /\ net' = net \ {r}
        /\ \/ /\ srv' = [srv EXCEPT !.cases = @ \ {r.key}]
              /\ ui' = [ui EXCEPT !.items = @ \ {r.key}, !.results = @ \ {r.key},
                                  !.failed = @ \ {r.key},
                                  !.selected = IF r.op = "deleteSelected" THEN Cases!NoCase ELSE @]
           \/ UNCHANGED <<ui, srv>>
  BY Zenon DEF Cases!Deleted, Cases!Pending, Cases!Without
<1>4. CASE UNCHANGED <<ui, srv>>
  <2>1. CaseWaits(v, net')
    BY <1>1, <1>2, <1>3, <1>4 DEF CaseWaits, CaseWrites
  <2> QED
    BY <1>1, <1>2, <1>3, <1>4, <2>1, CasesQuiet
<1>5. CASE /\ srv' = [srv EXCEPT !.cases = @ \ {r.key}]
           /\ ui' = [ui EXCEPT !.items = @ \ {r.key}, !.results = @ \ {r.key},
                               !.failed = @ \ {r.key},
                               !.selected = IF r.op = "deleteSelected" THEN Cases!NoCase ELSE @]
  <2>1. PICK s : s = IF r.op = "deleteSelected" THEN Cases!NoCase ELSE u.selected
    OBVIOUS
  <2>2. /\ DOMAIN v = CaseFields /\ v.parser = u.parser /\ v.items = u.items \ {r.key}
        /\ v.results = u.results \ {r.key} /\ v.failed = u.failed \ {r.key} /\ v.selected = s
        /\ v.loading = u.loading /\ v.running = u.running /\ v.saving = u.saving
    BY <1>1, <1>2, <1>5, <2>1 DEF CaseHolds, CaseFields
  <2>3. s = Cases!NoCase \/ s = u.selected
    BY <2>1
  <2>4. CaseHolds(v)
    BY <1>2, <2>2, <2>3, NoCaseIsNone DEF CaseHolds
  <2>5. CaseWaits(v, net')
    BY <1>2, <1>3, <2>2 DEF CaseWaits, CaseWrites
  <2>6. DOMAIN srv' = {"cases"} /\ srv'.cases \subseteq srv.cases
    BY <1>5 DEF CasesInv
  <2>7. CaseHolds(ui') /\ CaseWaits(ui', net') /\ \A x \in net' : CaseCall(x)
    BY <1>1, <1>2, <1>3, <2>4, <2>5
  <2> QED
    BY <2>6, <2>7 DEF CasesInv, CaseHolds, CaseWaits, CaseCall
<1> QED
  BY <1>3, <1>4, <1>5

\* The results of a run: the case drawn is one of those that failed.
LEMMA CasesRun == ASSUME CasesInv, Cases!AnswerRun PROVE CasesInv'
<1>1. PICK v, u : v = ui' /\ u = ui
  OBVIOUS
<1>2. CaseHolds(u) /\ CaseWaits(u, net) /\ \A r \in net : CaseCall(r)
  BY <1>1 DEF CasesInv
<1>3. srv' = srv
  BY DEF Cases!AnswerRun
<1>4. PICK r \in net :
        /\ r.op = "run" /\ net' = net \ {r}
        /\ \/ \E f \in SUBSET Cases!Of(r.key[1]) : ui' \in Cases!Results(Cases!Of(r.key[1]), f)
           \/ ui' = [ui EXCEPT !.running = FALSE]
  BY DEF Cases!AnswerRun, Cases!Pending, Cases!Without
<1>5. PICK R, f, c :
        /\ R \subseteq Cases!Cases /\ f \subseteq Cases!Cases /\ (c \in R => c \in f)
        /\ v = [u EXCEPT !.results = R, !.failed = f, !.selected = c, !.running = FALSE]
  <2>1. CASE ui' = [ui EXCEPT !.running = FALSE]
    <3>1. v = [u EXCEPT !.results = u.results, !.failed = u.failed, !.selected = u.selected,
                        !.running = FALSE]
      BY <1>1, <1>2, <2>1, Zenon DEF CaseHolds, CaseFields
    <3> QED
      BY <1>2, <3>1, Zenon DEF CaseHolds
  <2>2. CASE \E f \in SUBSET Cases!Of(r.key[1]) : ui' \in Cases!Results(Cases!Of(r.key[1]), f)
    <3>1. PICK R : R = Cases!Of(r.key[1])
      OBVIOUS
    <3>2. R \subseteq Cases!Cases
      BY <3>1 DEF Cases!Of, CasesInv
    <3>3. PICK f \in SUBSET R : ui' \in Cases!Results(R, f)
      BY <2>2, <3>1
    <3>4. PICK c \in IF f = {} THEN {Cases!NoCase} ELSE f :
            v = [u EXCEPT !.results = R, !.failed = f, !.selected = c, !.running = FALSE]
      BY <1>1, <3>3, Zenon DEF Cases!Results
    <3>5. c \in R => c \in f
      BY <3>2, <3>4, NoCaseIsNone
    <3> QED
      BY <3>2, <3>3, <3>4, <3>5, Zenon
  <2> QED
    BY <1>4, <2>1, <2>2, Zenon
<1>6. /\ DOMAIN v = CaseFields /\ v.parser = u.parser /\ v.items = u.items
      /\ v.results = R /\ v.failed = f /\ v.selected = c
      /\ v.loading = u.loading /\ v.running = FALSE /\ v.saving = u.saving
  BY <1>2, <1>5 DEF CaseHolds, CaseFields
<1>7. CaseHolds(v)
  BY <1>2, <1>5, <1>6 DEF CaseHolds
<1>8. CaseWaits(v, net')
  BY <1>2, <1>4, <1>6 DEF CaseWaits, CaseWrites
<1> QED
  BY <1>1, <1>2, <1>3, <1>4, <1>7, <1>8, CasesQuiet

\* Every step of the test cases.
LEMMA CasesStep == ASSUME CasesInv, Cases!Next PROVE CasesInv'
BY CasesParser, CasesSends, CasesShows, CasesLoaded, CasesCreated, CasesDeleted, CasesRun
   DEF Cases!Next

LEMMA CasesStays == ASSUME CasesInv, UNCHANGED vars PROVE CasesInv'
BY DEF vars, CasesInv, CaseHolds, CaseWaits, CaseCall

\* What the invariant says of the test cases.
LEMMA CasesSay ==
  ASSUME CasesInv
  PROVE  Cases!TypeOK /\ Cases!DrawnHasFailed /\ Cases!BusyIsAwaited /\ Cases!OneWrite
<1>1. Cases!TypeOK /\ Cases!DrawnHasFailed
  BY DEF CasesInv, CaseHolds, Cases!TypeOK, Cases!DrawnHasFailed
<1>2. Cases!BusyIsAwaited
  BY DEF CasesInv, CaseWaits, CaseWrites, Cases!BusyIsAwaited, Cases!Pending
<1>3. Cases!OneWrite
  <2>1. \A r, x \in Cases!Pending("create") \cup Cases!Pending("createLoad") : r = x
    BY DEF CasesInv, CaseWaits, CaseWrites, Cases!Pending
  <2> QED
    BY <2>1, LoneCardinality, Zenon DEF Cases!OneWrite, Cases!Cardinality, Cardinality
<1> QED
  BY <1>1, <1>2, <1>3

-----------------------------------------------------------------------------
(* PanelUsers: an account that is edited is in the table.                      *)

PanelFields == {"users", "loading", "open", "editing", "active"}
PanelTable(t) == \A i \in DOMAIN t : t[i] \in BOOLEAN

PanelCall(r) ==
  /\ DOMAIN r = {"id", "op", "key"} /\ r.key \in Panel!Draft
  /\ r.op = "create" => r.key.id = 0

\* What a state u of the panel holds, with the accounts t that are stored.
PanelHolds(u, t) ==
  /\ DOMAIN u = PanelFields /\ PanelTable(u.users) /\ DOMAIN u.users \subseteq DOMAIN t
  /\ u.loading \in BOOLEAN /\ u.open \in BOOLEAN /\ u.active \in BOOLEAN
  /\ u.editing \in DOMAIN u.users \cup {0}

PanelInv ==
  /\ DOMAIN srv = {"users"} /\ DOMAIN srv.users \subseteq Accounts /\ PanelTable(srv.users)
  /\ PanelHolds(ui, srv.users)
  /\ \A r \in net : PanelCall(r)
  /\ ui.loading => \E r \in net : r.op = "load"

\* What a draft is made of.
LEMMA PanelDraftIs ==
  ASSUME NEW i \in Accounts \cup {0}, NEW b \in BOOLEAN
  PROVE  [id |-> i, active |-> b] \in Panel!Draft
BY DEF Panel!Draft

LEMMA PanelDraftHas ==
  ASSUME NEW d \in Panel!Draft
  PROVE  d.id \in Accounts \cup {0} /\ d.active \in BOOLEAN
BY DEF Panel!Draft

\* The table is empty, and the accounts are on their way.
LEMMA PanelInit == Panel!Init => PanelInv
<1> SUFFICES ASSUME Panel!Init PROVE PanelInv
  OBVIOUS
<1>1. /\ DOMAIN ui = PanelFields /\ ui.users = Panel!Empty /\ ui.loading = TRUE
      /\ ui.open = FALSE /\ ui.editing = 0 /\ ui.active = TRUE
  BY DEF Panel!Init, Panel!Mounted, PanelFields
<1>2. PICK k, n : /\ k = [id |-> 0, active |-> TRUE]
                  /\ n = [id |-> 1, op |-> "load", key |-> k] /\ net = {n}
  BY Zenon DEF Panel!Init
<1>3. PICK S \in SUBSET Accounts : \E t \in [S -> BOOLEAN] : srv = [users |-> t]
  BY DEF Panel!Init, Panel!Stored
<1>4. PICK t \in [S -> BOOLEAN] : srv = [users |-> t]
  BY <1>3
<1>5. DOMAIN srv = {"users"} /\ DOMAIN srv.users \subseteq Accounts /\ PanelTable(srv.users)
  BY <1>4 DEF PanelTable
<1>6. PanelHolds(ui, srv.users)
  BY <1>1, Zenon DEF PanelHolds, PanelTable, Panel!Empty
<1>7. DOMAIN n = {"id", "op", "key"} /\ n.op = "load" /\ n.key = k
  BY <1>2
<1>8. k \in Panel!Draft
  BY <1>2, PanelDraftIs, Zenon
<1>9. PanelCall(n)
  BY <1>7, <1>8 DEF PanelCall
<1> QED
  BY <1>2, <1>5, <1>6, <1>7, <1>9 DEF PanelInv

\* The dialog opens and closes.
LEMMA PanelDialog ==
  ASSUME PanelInv, Panel!OpenCreate \/ Panel!OpenEdit \/ Panel!Close
  PROVE  PanelInv'
<1>0. /\ DOMAIN ui = PanelFields /\ PanelTable(ui.users)
      /\ ui.editing \in DOMAIN ui.users \cup {0} /\ ui.active \in BOOLEAN
      /\ DOMAIN ui.users \subseteq DOMAIN srv.users
  BY DEF PanelInv, PanelHolds
<1>1. PICK v, u : v = ui' /\ u = ui
  OBVIOUS
<1>2. PICK o \in BOOLEAN, e \in DOMAIN u.users \cup {0}, a \in BOOLEAN :
        v = [u EXCEPT !.open = o, !.editing = e, !.active = a]
  <2>1. CASE Panel!OpenCreate
    BY <1>1, <2>1, Zenon DEF Panel!OpenCreate
  <2>2. CASE Panel!OpenEdit
    <3>1. PICK i \in DOMAIN u.users :
            v = [u EXCEPT !.open = TRUE, !.editing = i, !.active = u.users[i]]
      BY <1>1, <2>2, Zenon DEF Panel!OpenEdit
    <3>2. u.users[i] \in BOOLEAN
      BY <1>0, <1>1, <3>1 DEF PanelTable
    <3> QED
      BY <3>1, <3>2, Zenon
  <2>3. CASE Panel!Close
    <3>1. v = [u EXCEPT !.open = FALSE]
      BY <1>1, <2>3 DEF Panel!Close
    <3>2. v = [u EXCEPT !.open = FALSE, !.editing = u.editing, !.active = u.active]
      BY <1>0, <1>1, <3>1, Zenon DEF PanelFields
    <3> QED
      BY <1>0, <1>1, <3>2, Zenon
  <2> QED
    BY <2>1, <2>2, <2>3, Zenon
<1>3. /\ DOMAIN v = PanelFields /\ v.open = o /\ v.editing = e /\ v.active = a
      /\ v.users = u.users /\ v.loading = u.loading
  BY <1>0, <1>1, <1>2 DEF PanelFields
<1>4. PanelHolds(v, srv.users)
  BY <1>0, <1>1, <1>2, <1>3 DEF PanelHolds, PanelInv
<1>5. net' = net /\ srv' = srv
  BY Zenon DEF Panel!OpenCreate, Panel!OpenEdit, Panel!Close
<1>6. PanelHolds(ui', srv'.users)
  BY <1>1, <1>4, <1>5
<1>7. ui'.loading = ui.loading
  BY <1>1, <1>3
<1> QED
  BY <1>5, <1>6, <1>7 DEF PanelInv, PanelHolds, PanelCall, PanelTable

\* Calls are sent: of a save whose account is in the table, or of a creation.
LEMMA PanelSends ==
  ASSUME PanelInv, Panel!Save \/ Panel!ToggleActive \/ Panel!ResetPassword
  PROVE  PanelInv'
<1>0. /\ PanelTable(ui.users) /\ DOMAIN ui.users \subseteq Accounts
      /\ ui.editing \in DOMAIN ui.users \cup {0} /\ ui.active \in BOOLEAN
  BY DEF PanelInv, PanelHolds
<1>1. PICK op \in {"create", "update", "toggle", "reset"}, i \in Accounts \cup {0}, b \in BOOLEAN :
        /\ op = "create" => i = 0
        /\ net' = Panel!Sent(op, [id |-> i, active |-> b]) /\ ui' = ui /\ srv' = srv
  <2>1. CASE Panel!Save
    <3>1. Panel!EditingUser = 0 => ui.editing = 0
      BY <1>0 DEF Panel!EditingUser
    <3>2. CASE Panel!EditingUser = 0
      <4>1. net' = Panel!Sent("create", [id |-> ui.editing, active |-> ui.active])
            /\ ui' = ui /\ srv' = srv
        BY <2>1, <3>2 DEF Panel!Save
      <4> QED
        BY <1>0, <3>1, <3>2, <4>1, Zenon
    <3>3. CASE Panel!EditingUser # 0
      <4>1. net' = Panel!Sent("update", [id |-> ui.editing, active |-> ui.active])
            /\ ui' = ui /\ srv' = srv
        BY <2>1, <3>3 DEF Panel!Save
      <4> QED
        BY <1>0, <3>3, <4>1
    <3> QED
      BY <3>2, <3>3, Zenon
  <2>2. CASE Panel!ToggleActive
    <3>1. PICK i \in DOMAIN ui.users :
            /\ net' = Panel!Sent("toggle", [id |-> i, active |-> ~ui.users[i]])
            /\ ui' = ui /\ srv' = srv
      BY <2>2 DEF Panel!ToggleActive
    <3>2. (~ui.users[i]) \in BOOLEAN
      OBVIOUS
    <3> QED
      BY <1>0, <3>1, <3>2, Zenon
  <2>3. CASE Panel!ResetPassword
    <3>1. PICK i \in DOMAIN ui.users :
            /\ net' = Panel!Sent("reset", [id |-> i, active |-> ui.users[i]])
            /\ ui' = ui /\ srv' = srv
      BY <2>3 DEF Panel!ResetPassword
    <3>2. ui.users[i] \in BOOLEAN
      BY <1>0, <3>1 DEF PanelTable
    <3> QED
      BY <1>0, <3>1, <3>2
  <2> QED
    BY <2>1, <2>2, <2>3, Zenon
<1>2. PICK k, n : /\ k = [id |-> i, active |-> b]
                  /\ n = [id |-> Panel!Fresh, op |-> op, key |-> k]
  OBVIOUS
<1>3. net' = net \cup {n}
  BY <1>1, <1>2 DEF Panel!Sent
<1>4. DOMAIN n = {"id", "op", "key"} /\ n.op = op /\ n.key = k
  BY <1>2
<1>5. k \in Panel!Draft /\ k.id = i
  BY <1>2, PanelDraftIs
<1>6. PanelCall(n)
  BY <1>1, <1>4, <1>5 DEF PanelCall
<1> QED
  BY <1>1, <1>3, <1>6 DEF PanelInv, PanelHolds, PanelCall, PanelTable

\* A call is answered, and none follows.
LEMMA PanelEnds ==
  ASSUME PanelInv, Panel!Load \/ Panel!SaveFails \/ Panel!PasswordReset \/ Panel!Toggled
  PROVE  PanelInv'
<1>0. /\ DOMAIN ui = PanelFields /\ PanelTable(ui.users) /\ PanelTable(srv.users)
      /\ DOMAIN ui.users \subseteq DOMAIN srv.users /\ DOMAIN srv.users \subseteq Accounts
      /\ ui.editing \in DOMAIN ui.users \cup {0} /\ DOMAIN srv = {"users"}
      /\ ui.active \in BOOLEAN /\ ui.open \in BOOLEAN /\ ui.loading \in BOOLEAN
      /\ \A r \in net : PanelCall(r)
      /\ ui.loading => \E r \in net : r.op = "load"
  BY DEF PanelInv, PanelHolds
<1>1. PICK v, u : v = ui' /\ u = ui
  OBVIOUS
<1>2. CASE Panel!Load
  <2>1. PICK r, t :
          /\ r \in net
          /\ r.op = "load" /\ net' = net \ {r} /\ srv' = srv
          /\ v = [u EXCEPT !.loading = FALSE, !.users = t]
          /\ t = u.users \/ t = srv.users
    BY <1>1, <1>2, Zenon DEF Panel!Load, Panel!Pending, Panel!Without
  <2>2. /\ DOMAIN v = PanelFields /\ v.loading = FALSE /\ v.users = t
        /\ v.open = u.open /\ v.editing = u.editing /\ v.active = u.active
    BY <1>0, <1>1, <2>1 DEF PanelFields
  <2>3. PanelHolds(v, srv.users)
    BY <1>0, <1>1, <2>1, <2>2 DEF PanelHolds
  <2>4. PanelHolds(ui', srv'.users) /\ ~ui'.loading
    BY <1>1, <2>1, <2>2, <2>3
  <2>5. \A x \in net' : PanelCall(x)
    BY <1>0, <2>1
  <2> QED
    BY <1>0, <2>1, <2>4, <2>5 DEF PanelInv, PanelHolds, PanelCall, PanelTable
<1>3. CASE Panel!SaveFails \/ Panel!PasswordReset
  <2>1. PICK r \in net :
          /\ r.op \in {"create", "update", "reset"}
          /\ net' = net \ {r} /\ srv' = srv /\ ui' = ui
    BY <1>3 DEF Panel!SaveFails, Panel!PasswordReset, Panel!Pending, Panel!Without
  <2>2. ui'.loading => \E x \in net' : x.op = "load"
    BY <1>0, <2>1
  <2> QED
    BY <1>0, <2>1, <2>2 DEF PanelInv, PanelHolds, PanelCall, PanelTable
<1>4. CASE Panel!Toggled
  <2>1. PICK r \in net, ok \in BOOLEAN :
          /\ r.op = "toggle" /\ net' = net \ {r}
          /\ srv' = IF ok THEN [srv EXCEPT !.users[r.key.id] = r.key.active] ELSE srv
          /\ ui' = IF ok /\ r.key.id \in DOMAIN ui.users
                   THEN [ui EXCEPT !.users[r.key.id] = r.key.active] ELSE ui
    BY <1>4, Zenon DEF Panel!Toggled, Panel!Pending, Panel!Without
  <2>2. r.key.active \in BOOLEAN
    BY <1>0, PanelDraftHas DEF PanelCall
  <2>3. DOMAIN srv' = {"users"} /\ DOMAIN srv'.users = DOMAIN srv.users /\ PanelTable(srv'.users)
    <3>1. CASE srv' = srv
      BY <1>0, <3>1
    <3>2. CASE srv' = [srv EXCEPT !.users[r.key.id] = r.key.active]
      <4>1. DOMAIN srv' = {"users"} /\ srv'.users = [srv.users EXCEPT ![r.key.id] = r.key.active]
        BY <1>0, <3>2
      <4> QED
        BY <1>0, <2>2, <4>1 DEF PanelTable
    <3> QED
      BY <2>1, <3>1, <3>2
  <2>4. /\ DOMAIN v = PanelFields /\ DOMAIN v.users = DOMAIN u.users /\ PanelTable(v.users)
        /\ v.loading = u.loading /\ v.open = u.open /\ v.editing = u.editing
        /\ v.active = u.active
    <3>1. CASE v = u
      BY <1>0, <1>1, <3>1
    <3>2. CASE v = [u EXCEPT !.users[r.key.id] = r.key.active]
      <4>1. /\ DOMAIN v = PanelFields /\ v.users = [u.users EXCEPT ![r.key.id] = r.key.active]
            /\ v.loading = u.loading /\ v.open = u.open /\ v.editing = u.editing
            /\ v.active = u.active
        BY <1>0, <1>1, <3>2 DEF PanelFields
      <4> QED
        BY <1>0, <1>1, <2>2, <4>1 DEF PanelTable
    <3> QED
      BY <1>1, <2>1, <3>1, <3>2
  <2>5. PanelHolds(ui', srv'.users)
    BY <1>0, <1>1, <2>3, <2>4 DEF PanelHolds
  <2>6. ui'.loading => \E x \in net' : x.op = "load"
    BY <1>0, <1>1, <2>1, <2>4
  <2>7. \A x \in net' : PanelCall(x)
    BY <1>0, <2>1
  <2> QED
    BY <1>0, <2>3, <2>5, <2>6, <2>7 DEF PanelInv, PanelHolds, PanelCall, PanelTable
<1> QED
  BY <1>2, <1>3, <1>4

\* An account is written, and the table is asked for again.
LEMMA PanelWritten ==
  ASSUME PanelInv, Panel!Created \/ Panel!Updated
  PROVE  PanelInv'
<1>0. /\ DOMAIN ui = PanelFields /\ PanelTable(ui.users) /\ PanelTable(srv.users)
      /\ DOMAIN ui.users \subseteq DOMAIN srv.users /\ DOMAIN srv.users \subseteq Accounts
      /\ ui.editing \in DOMAIN ui.users \cup {0} /\ DOMAIN srv = {"users"}
      /\ ui.active \in BOOLEAN
      /\ \A r \in net : PanelCall(r)
  BY DEF PanelInv, PanelHolds
<1>1. PICK v, u : v = ui' /\ u = ui
  OBVIOUS
<1>2. PICK r, n :
        /\ r \in net
        /\ v = [u EXCEPT !.open = FALSE, !.loading = TRUE]
        /\ n = [r EXCEPT !.op = "load"] /\ net' = (net \ {r}) \cup {n}
        /\ \/ srv' = [srv EXCEPT !.users[r.key.id] = r.key.active]
           \/ \E i \in Accounts :
                srv' = [srv EXCEPT !.users =
                          [j \in DOMAIN @ \cup {i} |-> IF j = i THEN r.key.active ELSE @[j]]]
  <2>1. CASE Panel!Created
    <3>1. PICK r \in Panel!Pending("create"), i \in Accounts \ DOMAIN srv.users :
            /\ srv' = [srv EXCEPT !.users =
                 [j \in DOMAIN @ \cup {i} |-> IF j = i THEN r.key.active ELSE @[j]]]
            /\ ui' = [ui EXCEPT !.open = FALSE, !.loading = TRUE]
            /\ net' = Panel!Reload(r)
      BY <2>1, Zenon DEF Panel!Created
    <3>2. PICK n : n = [r EXCEPT !.op = "load"]
      OBVIOUS
    <3>3. r \in net /\ net' = (net \ {r}) \cup {n} /\ v = [u EXCEPT !.open = FALSE, !.loading = TRUE]
      BY <1>1, <3>1, <3>2 DEF Panel!Pending, Panel!Without, Panel!Reload
    <3>4. \E k \in Accounts :
            srv' = [srv EXCEPT !.users =
                      [j \in DOMAIN @ \cup {k} |-> IF j = k THEN r.key.active ELSE @[j]]]
      <4>1. i \in Accounts
        BY <3>1
      <4> QED
        BY <3>1, <4>1
    <3> HIDE <3>1
    <3> QED
      BY <3>2, <3>3, <3>4, Zenon
  <2>2. CASE Panel!Updated
    <3>1. PICK r \in Panel!Pending("update") :
            /\ srv' = [srv EXCEPT !.users[r.key.id] = r.key.active]
            /\ ui' = [ui EXCEPT !.open = FALSE, !.loading = TRUE]
            /\ net' = Panel!Reload(r)
      BY <2>2, Zenon DEF Panel!Updated
    <3>2. PICK n : n = [r EXCEPT !.op = "load"]
      OBVIOUS
    <3>3. r \in net /\ net' = (net \ {r}) \cup {n} /\ v = [u EXCEPT !.open = FALSE, !.loading = TRUE]
      BY <1>1, <3>1, <3>2 DEF Panel!Pending, Panel!Without, Panel!Reload
    <3> QED
      BY <3>1, <3>2, <3>3, Zenon
  <2> QED
    BY <2>1, <2>2, Zenon
<1>3. r.key.active \in BOOLEAN /\ PanelCall(r)
  BY <1>0, <1>2, PanelDraftHas DEF PanelCall
<1>4. /\ DOMAIN srv' = {"users"} /\ DOMAIN srv.users \subseteq DOMAIN srv'.users
      /\ DOMAIN srv'.users \subseteq Accounts /\ PanelTable(srv'.users)
  <2>1. CASE srv' = [srv EXCEPT !.users[r.key.id] = r.key.active]
    <3>1. DOMAIN srv' = {"users"} /\ srv'.users = [srv.users EXCEPT ![r.key.id] = r.key.active]
      BY <1>0, <2>1
    <3> QED
      BY <1>0, <1>3, <3>1 DEF PanelTable
  <2>2. ASSUME NEW i \in Accounts,
               srv' = [srv EXCEPT !.users =
                         [j \in DOMAIN @ \cup {i} |-> IF j = i THEN r.key.active ELSE @[j]]]
        PROVE  /\ DOMAIN srv' = {"users"} /\ DOMAIN srv.users \subseteq DOMAIN srv'.users
               /\ DOMAIN srv'.users \subseteq Accounts /\ PanelTable(srv'.users)
    <3>1. PICK t : t = [j \in DOMAIN srv.users \cup {i} |->
                          IF j = i THEN r.key.active ELSE srv.users[j]]
      OBVIOUS
    <3>2. DOMAIN srv' = {"users"} /\ srv'.users = t
      BY <1>0, <2>2, <3>1
    <3>3. DOMAIN t = DOMAIN srv.users \cup {i} /\ PanelTable(t)
      BY <1>0, <1>3, <3>1 DEF PanelTable
    <3> QED
      BY <1>0, <3>2, <3>3
  <2> QED
    BY <1>2, <2>1, <2>2, Zenon
<1>5. /\ DOMAIN v = PanelFields /\ v.open = FALSE /\ v.loading = TRUE /\ v.users = u.users
      /\ v.editing = u.editing /\ v.active = u.active
  BY <1>0, <1>1, <1>2 DEF PanelFields
<1>6. PanelHolds(ui', srv'.users)
  BY <1>0, <1>1, <1>4, <1>5, Zenon DEF PanelHolds
<1>7. DOMAIN n = {"id", "op", "key"} /\ n.op = "load" /\ n.key = r.key
  BY <1>2, <1>3 DEF PanelCall
<1>8. PanelCall(n)
  BY <1>3, <1>7 DEF PanelCall
<1>9. \A x \in net' : PanelCall(x)
  BY <1>0, <1>2, <1>8
<1>10. \E x \in net' : x.op = "load"
  BY <1>2, <1>7
<1> QED
  BY <1>4, <1>6, <1>9, <1>10 DEF PanelInv, PanelHolds, PanelCall, PanelTable

\* Every step of the panel.
LEMMA PanelStep == ASSUME PanelInv, Panel!Next PROVE PanelInv'
BY PanelDialog, PanelSends, PanelEnds, PanelWritten DEF Panel!Next

\* Nothing changes while the panel is left alone.
LEMMA PanelStays == ASSUME PanelInv, UNCHANGED vars PROVE PanelInv'
BY DEF vars, PanelInv, PanelHolds, PanelCall, PanelTable

\* What the invariant says of the panel.
LEMMA PanelSays ==
  ASSUME PanelInv
  PROVE  Panel!TypeOK /\ Panel!BusyIsAwaited /\ Panel!EditNeverCreates
<1>1. [id |-> ui.editing, active |-> ui.active] \in Panel!Draft
  <2>1. ui.editing \in Accounts \cup {0} /\ ui.active \in BOOLEAN
    BY DEF PanelInv, PanelHolds
  <2> QED
    BY <2>1, PanelDraftIs
<1>2. Panel!TypeOK
  <2>1. \A r \in net : r.key \in Panel!Draft
    BY DEF PanelInv, PanelCall
  <2> QED
    BY <1>1, <2>1 DEF PanelInv, PanelHolds, Panel!TypeOK
<1>3. Panel!BusyIsAwaited /\ Panel!EditNeverCreates
  BY DEF PanelInv, PanelCall, Panel!BusyIsAwaited, Panel!EditNeverCreates, Panel!Pending
<1> QED
  BY <1>2, <1>3

-----------------------------------------------------------------------------
(* Memberships: the dialog is of a customer of the list.                       *)

MemberFields == {"customers", "lists", "open", "customer", "user"}

\* What a state u of the panel holds.
MemberHolds(u) ==
  /\ DOMAIN u = MemberFields /\ u.lists \in Members!Lists
  /\ u.customers \subseteq Customers /\ u.open \in BOOLEAN
  /\ u.customer \in Customers \cup {"none"} /\ u.user \in Users \cup {"none"}
  /\ u.open => u.customer \in u.customers

\* A call is about a customer of those that are shown, and about a user.
MemberCall(r, shown) ==
  /\ DOMAIN r = {"id", "op", "key"} /\ DOMAIN r.key = {"customer", "user", "lists"}
  /\ r.key.lists \in Members!Lists
  /\ r.op \in {"save", "remove"} => r.key.customer \in shown /\ r.key.user \in Users

MembersInv ==
  /\ DOMAIN srv = {"members"} /\ srv.members \in Members!Lists
  /\ MemberHolds(ui)
  /\ \A r \in net : MemberCall(r, ui.customers)

LEMMA NoListsAreLists == Members!NoLists \in Members!Lists
BY DEF Members!NoLists, Members!Lists

LEMMA MembersInit == Members!Init => MembersInv
<1> SUFFICES ASSUME Members!Init PROVE MembersInv
  OBVIOUS
<1>1. /\ DOMAIN ui = MemberFields /\ ui.customers = {} /\ ui.lists = Members!NoLists
      /\ ui.open = FALSE /\ ui.customer = "none" /\ ui.user = "none"
  BY DEF Members!Init, Members!Mounted, MemberFields
<1>2. DOMAIN srv = {"members"} /\ srv.members \in Members!Lists
  BY DEF Members!Init, Members!Stored
<1>3. PICK n : n = [id |-> 1, op |-> "customers", key |-> Members!NoPair] /\ net = {n}
  BY Zenon DEF Members!Init
<1>4. DOMAIN n = {"id", "op", "key"} /\ n.op = "customers" /\ n.key = Members!NoPair
  BY <1>3
<1>5. DOMAIN Members!NoPair = {"customer", "user", "lists"} /\ Members!NoPair.lists = Members!NoLists
  BY DEF Members!NoPair
<1>6. MemberCall(n, ui.customers)
  BY <1>4, <1>5, NoListsAreLists DEF MemberCall
<1>7. MemberHolds(ui)
  BY <1>1, NoListsAreLists, Zenon DEF MemberHolds
<1> QED
  BY <1>2, <1>3, <1>6, <1>7 DEF MembersInv

\* The dialog may change, as long as an open one has a customer of the list.
LEMMA MembersDialogIs ==
  ASSUME MembersInv, NEW u, NEW v, u = ui, v = ui', net' = net, srv' = srv,
         NEW o \in BOOLEAN, NEW c \in Customers \cup {"none"}, NEW w \in Users \cup {"none"},
         v = [u EXCEPT !.open = o, !.customer = c, !.user = w],
         o => c \in u.customers
  PROVE  MembersInv'
<1>2. MemberHolds(u)
  BY DEF MembersInv
<1>5. /\ DOMAIN v = MemberFields /\ v.open = o /\ v.customer = c /\ v.user = w
      /\ v.customers = u.customers /\ v.lists = u.lists
  BY <1>2 DEF MemberHolds, MemberFields
<1>6. MemberHolds(v)
  <2>1. /\ DOMAIN v = MemberFields /\ v.lists \in Members!Lists /\ v.customers \subseteq Customers
        /\ v.user \in Users \cup {"none"}
    BY <1>2, <1>5 DEF MemberHolds
  <2>2. v.customer \in Customers \cup {"none"} /\ (o => v.customer \in v.customers)
    BY <1>5
  <2>3. v.open \in BOOLEAN /\ (v.open => v.customer \in v.customers)
    BY <1>5, <2>2
  <2> QED
    BY <2>1, <2>2, <2>3 DEF MemberHolds
<1>7. MemberHolds(ui') /\ ui'.customers = ui.customers
  BY <1>5, <1>6
<1> QED
  BY <1>7 DEF MembersInv, MemberHolds, MemberCall, Members!Lists

\* The dialog: it opens for a customer of the list.
LEMMA MembersDialog ==
  ASSUME MembersInv, Members!OpenAdd \/ Members!ChooseUser \/ Members!Close
  PROVE  MembersInv'
<1>1. PICK v, u : v = ui' /\ u = ui
  OBVIOUS
<1>2. MemberHolds(u)
  BY <1>1 DEF MembersInv
<1>3. net' = net /\ srv' = srv
  BY Zenon DEF Members!OpenAdd, Members!ChooseUser, Members!Close
<1>4. /\ u.open \in BOOLEAN /\ u.customer \in Customers \cup {"none"}
      /\ u.user \in Users \cup {"none"} /\ (u.open => u.customer \in u.customers)
  BY <1>2 DEF MemberHolds
<1>5. CASE Members!OpenAdd
  <2>1. PICK x \in u.customers : v = [u EXCEPT !.open = TRUE, !.customer = x, !.user = "none"]
    BY <1>1, <1>5, Zenon DEF Members!OpenAdd
  <2>2. x \in Customers \cup {"none"} /\ TRUE \in BOOLEAN /\ "none" \in Users \cup {"none"}
    BY <1>2, <2>1 DEF MemberHolds
  <2> QED
    BY <1>1, <1>3, <2>1, <2>2, MembersDialogIs, Zenon
<1>6. CASE Members!ChooseUser
  <2>1. PICK x \in Users : v = [u EXCEPT !.user = x]
    BY <1>1, <1>6 DEF Members!ChooseUser
  <2>2. v = [u EXCEPT !.open = u.open, !.customer = u.customer, !.user = x]
    BY <1>2, <2>1, Zenon DEF MemberHolds, MemberFields
  <2>3. x \in Users \cup {"none"}
    BY <2>1
  <2> QED
    BY <1>1, <1>3, <1>4, <2>2, <2>3, MembersDialogIs, Zenon
<1>7. CASE Members!Close
  <2>1. v = [u EXCEPT !.open = FALSE]
    BY <1>1, <1>7 DEF Members!Close
  <2>2. v = [u EXCEPT !.open = FALSE, !.customer = u.customer, !.user = u.user]
    BY <1>2, <2>1, Zenon DEF MemberHolds, MemberFields
  <2>3. FALSE \in BOOLEAN
    OBVIOUS
  <2> QED
    BY <1>1, <1>3, <1>4, <2>2, <2>3, MembersDialogIs, Zenon
<1> QED
  BY <1>5, <1>6, <1>7

\* The customers arrive, and the calls for their lists follow.
LEMMA MembersCustomers ==
  ASSUME MembersInv, Members!CustomersLoaded
  PROVE  MembersInv'
<1>1. PICK v, u : v = ui' /\ u = ui
  OBVIOUS
<1>2. MemberHolds(u) /\ \A r \in net : MemberCall(r, u.customers)
  BY <1>1 DEF MembersInv
<1>3. PICK r, n :
        /\ r \in net
        /\ v = [u EXCEPT !.customers = Customers]
        /\ n = [r EXCEPT !.op = "lists"] /\ net' = (net \ {r}) \cup {n}
        /\ srv' = srv
  BY <1>1, Zenon DEF Members!CustomersLoaded, Members!Pending, Members!Without
<1>4. /\ DOMAIN v = MemberFields /\ v.customers = Customers /\ v.open = u.open
      /\ v.lists = u.lists /\ v.customer = u.customer /\ v.user = u.user
  BY <1>2, <1>3 DEF MemberHolds, MemberFields
<1>5. MemberHolds(v)
  BY <1>2, <1>4 DEF MemberHolds
<1>6. DOMAIN n = {"id", "op", "key"} /\ n.op = "lists" /\ n.key = r.key
  BY <1>2, <1>3 DEF MemberCall
<1>7. MemberCall(n, v.customers)
  BY <1>2, <1>3, <1>6 DEF MemberCall
<1>8. \A x \in net' : MemberCall(x, v.customers)
  BY <1>2, <1>3, <1>4, <1>7 DEF MemberCall, MemberHolds
<1> QED
  BY <1>1, <1>3, <1>5, <1>8 DEF MembersInv, MemberHolds, MemberCall, Members!Lists

\* The lists are read, and shown when they arrive.
LEMMA MembersLists ==
  ASSUME MembersInv, Members!ListsRead \/ Members!ListsLoaded
  PROVE  MembersInv'
<1>1. PICK v, u : v = ui' /\ u = ui
  OBVIOUS
<1>2. MemberHolds(u) /\ \A r \in net : MemberCall(r, u.customers)
  BY <1>1 DEF MembersInv
<1>3. CASE Members!ListsRead
  <2>1. PICK r, n :
          /\ r \in net
          /\ n = [r EXCEPT !.op = "read", !.key.lists = srv.members]
          /\ net' = (net \ {r}) \cup {n} /\ ui' = ui /\ srv' = srv
    BY <1>3, Zenon DEF Members!ListsRead, Members!Pending, Members!Without
  <2>2. PICK k : k = [r.key EXCEPT !.lists = srv.members]
    OBVIOUS
  <2>3. MemberCall(r, u.customers)
    BY <1>2, <2>1
  <2>4. DOMAIN n = {"id", "op", "key"} /\ n.op = "read" /\ n.key = k
    BY <2>1, <2>2, <2>3 DEF MemberCall
  <2>5. DOMAIN k = {"customer", "user", "lists"} /\ k.lists = srv.members
    BY <2>2, <2>3 DEF MemberCall
  <2>6. MemberCall(n, u.customers)
    BY <2>4, <2>5 DEF MemberCall, MembersInv
  <2> QED
    BY <1>1, <1>2, <2>1, <2>6, Zenon DEF MembersInv, MemberHolds, MemberCall, Members!Lists
<1>4. CASE Members!ListsLoaded
  <2>1. PICK r \in net :
          /\ v = [u EXCEPT !.lists = r.key.lists]
          /\ net' = net \ {r} /\ srv' = srv
    BY <1>1, <1>4 DEF Members!ListsLoaded, Members!Pending, Members!Without
  <2>2. /\ DOMAIN v = MemberFields /\ v.lists = r.key.lists /\ v.open = u.open
        /\ v.customers = u.customers /\ v.customer = u.customer /\ v.user = u.user
    BY <1>2, <2>1 DEF MemberHolds, MemberFields
  <2>3. r.key.lists \in Members!Lists
    BY <1>2, <2>1 DEF MemberCall
  <2>4. MemberHolds(v)
    BY <1>2, <2>2, <2>3 DEF MemberHolds
  <2>5. \A x \in net' : MemberCall(x, v.customers)
    BY <1>2, <2>1, <2>2
  <2> QED
    BY <1>1, <2>1, <2>4, <2>5 DEF MembersInv, MemberHolds, MemberCall, Members!Lists
<1> QED
  BY <1>3, <1>4

\* A call is sent: for the customer of the dialog, or for a row of the list.
LEMMA MembersSends ==
  ASSUME MembersInv, Members!Save \/ Members!Remove
  PROVE  MembersInv'
<1>1. MemberHolds(ui) /\ \A r \in net : MemberCall(r, ui.customers)
  BY DEF MembersInv
<1>2. PICK op, c, w :
        /\ c \in ui.customers /\ w \in Users
        /\ net' = Members!Sent(op, [Members!NoPair EXCEPT !.customer = c, !.user = w])
        /\ ui' = ui /\ srv' = srv
  <2>1. CASE Members!Save
    <3>1. ui.customer \in ui.customers /\ ui.user \in Users
      BY <1>1, <2>1 DEF Members!Save, MemberHolds
    <3>2. /\ net' = Members!Sent("save", [Members!NoPair EXCEPT !.customer = ui.customer,
                                                                !.user = ui.user])
          /\ ui' = ui /\ srv' = srv
      BY <2>1 DEF Members!Save
    <3> QED
      BY <3>1, <3>2, Zenon
  <2>2. CASE Members!Remove
    <3>1. PICK c \in ui.customers : \E w \in ui.lists[c] :
            /\ net' = Members!Sent("remove", [Members!NoPair EXCEPT !.customer = c, !.user = w])
            /\ ui' = ui /\ srv' = srv
      BY <2>2, Zenon DEF Members!Remove
    <3>2. PICK w \in ui.lists[c] :
            /\ net' = Members!Sent("remove", [Members!NoPair EXCEPT !.customer = c, !.user = w])
            /\ ui' = ui /\ srv' = srv
      BY <3>1, Zenon
    <3>3. w \in Users
      BY <1>1, <3>1, <3>2 DEF MemberHolds, Members!Lists
    <3> QED
      BY <3>1, <3>2, <3>3, Zenon
  <2> QED
    BY <2>1, <2>2, Zenon
<1>3. PICK k, n : /\ k = [Members!NoPair EXCEPT !.customer = c, !.user = w]
                  /\ n = [id |-> Members!Fresh, op |-> op, key |-> k]
  OBVIOUS
<1>4. net' = net \cup {n}
  BY <1>2, <1>3 DEF Members!Sent
<1>5. DOMAIN n = {"id", "op", "key"} /\ n.key = k
  BY <1>3
<1>6. /\ DOMAIN k = {"customer", "user", "lists"} /\ k.customer = c /\ k.user = w
      /\ k.lists = Members!NoLists
  BY <1>3 DEF Members!NoPair
<1>7. MemberCall(n, ui.customers)
  BY <1>2, <1>5, <1>6, NoListsAreLists DEF MemberCall
<1> QED
  BY <1>1, <1>2, <1>4, <1>7 DEF MembersInv, MemberHolds, MemberCall, Members!Lists

\* The lists m are stored, and the answer brings them.
LEMMA MembersStores ==
  ASSUME MembersInv, NEW r \in net, NEW m \in Members!Lists, NEW op \in {"saved", "removed"},
         srv' = [srv EXCEPT !.members = m], ui' = ui,
         net' = (net \ {r}) \cup {[r EXCEPT !.op = op, !.key.lists = m]}
  PROVE  MembersInv'
<1>1. MemberHolds(ui) /\ \A x \in net : MemberCall(x, ui.customers)
  BY DEF MembersInv
<1>2. MemberCall(r, ui.customers)
  BY <1>1
<1>3. DOMAIN srv' = {"members"} /\ srv'.members = m
  BY DEF MembersInv
<1>4. PICK k, n : k = [r.key EXCEPT !.lists = m] /\ n = [r EXCEPT !.op = op, !.key.lists = m]
  OBVIOUS
<1>5. DOMAIN n = {"id", "op", "key"} /\ n.op = op /\ n.key = k
  BY <1>2, <1>4 DEF MemberCall
<1>6. DOMAIN k = {"customer", "user", "lists"} /\ k.lists = m
  BY <1>2, <1>4 DEF MemberCall
<1>7. MemberCall(n, ui.customers)
  BY <1>5, <1>6 DEF MemberCall
<1> QED
  BY <1>1, <1>3, <1>4, <1>7, Zenon DEF MembersInv, MemberHolds, MemberCall, Members!Lists

\* The server writes the pair.
LEMMA MembersWritten ==
  ASSUME MembersInv, Members!Written
  PROVE  MembersInv'
<1>1. PICK r \in net :
        LET m == IF r.op = "save"
                 THEN [srv.members EXCEPT ![r.key.customer] = @ \cup {r.key.user}]
                 ELSE [srv.members EXCEPT ![r.key.customer] = @ \ {r.key.user}] IN
        /\ r.op \in {"save", "remove"}
        /\ srv' = [srv EXCEPT !.members = m]
        /\ net' = (net \ {r}) \cup
             {[r EXCEPT !.op = IF @ = "save" THEN "saved" ELSE "removed", !.key.lists = m]}
        /\ ui' = ui
  BY Zenon DEF Members!Written, Members!Pending, Members!Without
<1>2. MemberCall(r, ui.customers) /\ srv.members \in Members!Lists
  BY DEF MembersInv
<1>3. r.key.user \in Users
  BY <1>1, <1>2 DEF MemberCall
<1>4. CASE r.op = "save"
  <2>1. PICK m : m = [srv.members EXCEPT ![r.key.customer] = @ \cup {r.key.user}]
    OBVIOUS
  <2>2. m \in Members!Lists
    BY <1>2, <1>3, <2>1, Zenon DEF Members!Lists
  <2>3. /\ srv' = [srv EXCEPT !.members = m] /\ ui' = ui
        /\ net' = (net \ {r}) \cup {[r EXCEPT !.op = "saved", !.key.lists = m]}
    BY <1>1, <1>2, <1>4, <2>1 DEF MemberCall
  <2> QED
    BY <2>2, <2>3, MembersStores, Zenon
<1>5. CASE r.op = "remove"
  <2>1. PICK m : m = [srv.members EXCEPT ![r.key.customer] = @ \ {r.key.user}]
    OBVIOUS
  <2>2. m \in Members!Lists
    BY <1>2, <2>1, Zenon DEF Members!Lists
  <2>3. /\ srv' = [srv EXCEPT !.members = m] /\ ui' = ui
        /\ net' = (net \ {r}) \cup {[r EXCEPT !.op = "removed", !.key.lists = m]}
    BY <1>1, <1>2, <1>5, <2>1 DEF MemberCall
  <2> QED
    BY <2>2, <2>3, MembersStores, Zenon
<1> QED
  BY <1>1, <1>4, <1>5

\* The answer of a write, or its failure, and the failure of a load.
LEMMA MembersAnswers ==
  ASSUME MembersInv, Members!Answered \/ Members!WriteFails \/ Members!LoadFails
  PROVE  MembersInv'
<1>1. PICK v, u : v = ui' /\ u = ui
  OBVIOUS
<1>2. MemberHolds(u) /\ \A r \in net : MemberCall(r, u.customers)
  BY <1>1 DEF MembersInv
<1>3. CASE Members!Answered
  <2>1. PICK r \in net, o \in BOOLEAN :
          /\ v = [u EXCEPT !.lists[r.key.customer] = r.key.lists[r.key.customer], !.open = o]
          /\ o => u.open
          /\ net' = net \ {r} /\ srv' = srv
    <3>1. PICK r \in net :
          /\ v = [u EXCEPT !.lists[r.key.customer] = r.key.lists[r.key.customer],
                           !.open = u.open /\ r.op = "removed"]
          /\ net' = net \ {r} /\ srv' = srv
      BY <1>1, <1>2, <1>3, Zenon
         DEF Members!Answered, Members!Pending, Members!Without, MemberHolds, MemberFields
    <3>2. (u.open /\ r.op = "removed") \in BOOLEAN
      OBVIOUS
    <3> QED
      BY <3>1, <3>2, Zenon
  <2>2. PICK c, l : /\ c = r.key.customer
                    /\ l = [u.lists EXCEPT ![c] = r.key.lists[c]]
    OBVIOUS
  <2>3. /\ DOMAIN v = MemberFields /\ v.lists = l /\ v.open = o
        /\ v.customers = u.customers /\ v.customer = u.customer /\ v.user = u.user
    BY <1>2, <2>1, <2>2 DEF MemberHolds, MemberFields
  <2>4. r.key.lists \in Members!Lists
    BY <1>2, <2>1 DEF MemberCall
  <2>5. l \in Members!Lists
    BY <1>2, <2>2, <2>4, Zenon DEF MemberHolds, Members!Lists
  <2>6. MemberHolds(v)
    BY <1>2, <2>1, <2>3, <2>5 DEF MemberHolds
  <2>7. \A x \in net' : MemberCall(x, v.customers)
    BY <1>2, <2>1, <2>3
  <2> QED
    BY <1>1, <2>1, <2>6, <2>7 DEF MembersInv, MemberHolds, MemberCall, Members!Lists
<1>4. CASE Members!WriteFails \/ Members!LoadFails
  <2>1. net' \subseteq net /\ ui' = ui /\ srv' = srv
    BY <1>4 DEF Members!WriteFails, Members!LoadFails, Members!Without
  <2> QED
    BY <1>1, <1>2, <2>1 DEF MembersInv, MemberHolds, MemberCall, Members!Lists
<1> QED
  BY <1>3, <1>4

\* Every step of the memberships.
LEMMA MembersStep == ASSUME MembersInv, Members!Next PROVE MembersInv'
BY MembersDialog, MembersCustomers, MembersLists, MembersSends, MembersWritten,
   MembersAnswers
   DEF Members!Next

LEMMA MembersStays == ASSUME MembersInv, UNCHANGED vars PROVE MembersInv'
BY DEF vars, MembersInv, MemberHolds, MemberCall, Members!Lists

\* What the invariant says of the memberships.
LEMMA MembersSays == ASSUME MembersInv PROVE Members!TypeOK /\ Members!DialogHasCustomer
BY DEF MembersInv, MemberHolds, MemberCall, Members!TypeOK, Members!DialogHasCustomer,
       Members!Pending

-----------------------------------------------------------------------------
(* Management: the sections and tabs shown are those of the permissions.       *)

\* The records of the state have their fields.
ManageIsCall(r) == DOMAIN r = {"id", "op", "key"}
ManageFields == {"granted", "tab", "loaded", "failed", "loading", "late", "settings"}
ManageShapes ==
  /\ DOMAIN ui = ManageFields
  /\ \A r \in net : ManageIsCall(r)

\* A load that is not cancelled was asked for under the permissions of the moment.
ManageLoadIsCurrent ==
  \A r \in Manage!Pending("load") : r.key = ui.granted /\ Manage!CanView(ui.granted)

ManageInv == ManageShapes /\ ManageLoadIsCurrent /\ Manage!DataIsAllowed /\ Manage!TabIsVisible

\* The effect on the tabs changes the tab alone, to one the user may see.
LEMMA ManageShownIsVisible ==
  ASSUME NEW u, DOMAIN u = ManageFields
  PROVE  /\ DOMAIN Manage!ShowVisible(u) = ManageFields
         /\ Manage!ShowVisible(u).granted = u.granted /\ Manage!ShowVisible(u).loaded = u.loaded
         /\ Manage!VisibleTabs(u.granted) # {}
              => Manage!ShowVisible(u).tab \in Manage!VisibleTabs(u.granted)
<1> USE DEF ManageFields
<1>1. CASE Manage!VisibleTabs(u.granted) = {} \/ u.tab \in Manage!VisibleTabs(u.granted)
  BY <1>1 DEF Manage!ShowVisible
<1>2. CASE ~(Manage!VisibleTabs(u.granted) = {} \/ u.tab \in Manage!VisibleTabs(u.granted))
  <2>1. PICK t \in Manage!VisibleTabs(u.granted) : Manage!ShowVisible(u) = [u EXCEPT !.tab = t]
    <3>1. CASE FirstTab \in Manage!VisibleTabs(u.granted)
      BY <1>2, <3>1 DEF Manage!ShowVisible
    <3>2. CASE FirstTab \notin Manage!VisibleTabs(u.granted)
      <4>1. (CHOOSE t \in Manage!VisibleTabs(u.granted) : TRUE) \in Manage!VisibleTabs(u.granted)
        BY <1>2
      <4> QED
        BY <1>2, <3>2, <4>1, Zenon DEF Manage!ShowVisible
    <3> QED
      BY <3>1, <3>2
  <2> QED
    BY <2>1
<1> QED
  BY <1>1, <1>2

\* What the effect on the permissions leaves in flight.
LEMMA ManageAskedIsCurrent ==
  ASSUME NEW u, NEW S, \A r \in S : ManageIsCall(r)
  PROVE  /\ \A r \in Manage!Asked(u, S) : ManageIsCall(r)
         /\ \A r \in Manage!Asked(u, S) :
              r.op = "load" => Manage!CanView(u.granted) /\ r.key = u.granted
<1>1. \A r \in S : /\ ManageIsCall([r EXCEPT !.op = "cancelled"])
                  /\ [r EXCEPT !.op = "cancelled"].op = "cancelled"
                  /\ ManageIsCall(r)
  BY DEF ManageIsCall
<1> DEFINE q == [id |-> CHOOSE i \in 1..(MaxPending + 1) : \A r \in S : r.id # i,
                 op |-> "load", key |-> u.granted]
<1>2. ManageIsCall(q) /\ q.key = u.granted
  BY DEF ManageIsCall
<1>3. \A r \in Manage!Asked(u, S) :
        \/ \E s \in S : r = [s EXCEPT !.op = "cancelled"]
        \/ r \in S /\ r.op # "load"
        \/ Manage!CanView(u.granted) /\ r = q
  BY DEF Manage!Asked
<1> HIDE DEF q
<1> QED
  BY <1>1, <1>2, <1>3, Zenon

\* Who may see the console has a load on its way.
LEMMA ManageLoadIsAsked ==
  ASSUME NEW u, NEW S, Manage!CanView(u.granted)
  PROVE  \E r \in Manage!Asked(u, S) : r.op = "load"
<1> DEFINE q == [id |-> CHOOSE i \in 1..(MaxPending + 1) : \A r \in S : r.id # i,
                 op |-> "load", key |-> u.granted]
<1>1. q \in Manage!Asked(u, S)
  BY DEF Manage!Asked
<1>2. q.op = "load"
  OBVIOUS
<1> HIDE DEF q
<1> QED
  BY <1>1, <1>2

\* The first load is asked for under the permissions the page is mounted with.
LEMMA ManageInit == Manage!Init => ManageInv
<1> SUFFICES ASSUME Manage!Init PROVE ManageInv
  OBVIOUS
<1>1. PICK u \in Manage!Mounted :
        ui = IF Manage!CanView(u.granted) THEN u ELSE [u EXCEPT !.loading = FALSE]
  BY Zenon DEF Manage!Init
<1>2. PICK v : /\ DOMAIN v = ManageFields /\ v.loaded = {}
               /\ u = Manage!ShowVisible(v)
  <2> DEFINE R == [granted : SUBSET Manage!Permissions, tab : Tabs, loaded : {{}}, failed : {{}},
                   loading : {TRUE}, late : {FALSE}, settings : {"kept", "default"}]
  <2>1. PICK v \in R : u = Manage!ShowVisible(v)
    BY Zenon DEF Manage!Mounted
  <2>2. DOMAIN v = ManageFields /\ v.loaded = {}
    BY DEF ManageFields
  <2> QED
    BY <2>1, <2>2
<1>3. PICK g : g = u.granted
  OBVIOUS
<1>4. /\ DOMAIN u = ManageFields /\ u.loaded = {}
      /\ Manage!VisibleTabs(g) # {} => u.tab \in Manage!VisibleTabs(g)
  BY <1>2, <1>3, ManageShownIsVisible
<1>5. DOMAIN ui = ManageFields /\ ui.granted = g /\ ui.loaded = {} /\ ui.tab = u.tab
  BY <1>1, <1>3, <1>4 DEF ManageFields
<1>6. net = Manage!Asked(ui, {})
  BY DEF Manage!Init
<1>7. \A r \in net : ManageIsCall(r) /\ (r.op = "load" => Manage!CanView(g) /\ r.key = g)
  BY <1>5, <1>6, ManageAskedIsCurrent
<1>8. ManageShapes /\ ManageLoadIsCurrent
  BY <1>5, <1>7 DEF ManageShapes, ManageLoadIsCurrent, Manage!Pending
<1>9. Manage!DataIsAllowed /\ Manage!TabIsVisible
  BY <1>4, <1>5 DEF Manage!DataIsAllowed, Manage!TabIsVisible
<1> QED
  BY <1>8, <1>9 DEF ManageInv

\* The sections arrive under the permissions they were asked for, which are
\* those of the moment.
LEMMA ManageLoadedStep == ASSUME ManageInv, Manage!Loaded PROVE ManageInv'
<1> USE DEF ManageInv
<1>1. PICK r \in Manage!Pending("load") :
      \E failed \in SUBSET {s \in Sections : Manage!Allowed(r.key, s)} :
        /\ ui' = [ui EXCEPT !.loading = FALSE, !.failed = failed, !.late = FALSE,
                            !.loaded = {s \in Sections : Manage!Allowed(r.key, s)} \ failed]
        /\ net' = Manage!Without(r)
  BY Zenon DEF Manage!Loaded
<1>2. /\ DOMAIN ui' = DOMAIN ui /\ ui'.granted = ui.granted /\ ui'.tab = ui.tab
      /\ \A s \in ui'.loaded : Manage!Allowed(r.key, s)
  BY <1>1 DEF ManageShapes, ManageFields
<1>3. net' \subseteq net
  BY <1>1 DEF Manage!Without
<1>4. ManageShapes' /\ ManageLoadIsCurrent' /\ Manage!TabIsVisible'
  BY <1>2, <1>3 DEF ManageShapes, ManageLoadIsCurrent, Manage!Pending, Manage!TabIsVisible
<1>5. r.key = ui.granted /\ Manage!CanView(ui.granted)
  BY <1>1 DEF ManageLoadIsCurrent
<1>6. Manage!DataIsAllowed'
  BY <1>2, <1>5 DEF Manage!DataIsAllowed, Manage!MayHold
<1> QED
  BY <1>4, <1>6

\* The profile is read again: an earlier load no longer counts.
LEMMA ManageProfileStep == ASSUME ManageInv, Manage!ProfileChanges PROVE ManageInv'
<1> USE DEF ManageInv
<1>1. PICK g \in SUBSET Manage!Permissions :
        /\ ui' = Manage!ShowVisible(Manage!Ask([ui EXCEPT !.granted = g]))
        /\ net' = Manage!Asked(ui', net)
  BY DEF Manage!ProfileChanges
<1>2. PICK v : v = [ui EXCEPT !.granted = g]
  OBVIOUS
<1>3. DOMAIN v = DOMAIN ui /\ v.granted = g
  BY <1>2 DEF ManageShapes, ManageFields
<1>4. /\ DOMAIN Manage!Ask(v) = ManageFields /\ Manage!Ask(v).granted = g
      /\ ~Manage!CanView(g) => Manage!Ask(v).loaded = {}
  BY <1>3 DEF Manage!Ask, ManageShapes, ManageFields
<1>5. PICK a : a = Manage!Ask(v)
  OBVIOUS
<1>6. /\ DOMAIN ui' = ManageFields /\ ui'.granted = g /\ ui'.loaded = a.loaded
      /\ Manage!VisibleTabs(g) # {} => ui'.tab \in Manage!VisibleTabs(g)
  BY <1>1, <1>2, <1>4, <1>5, ManageShownIsVisible
<1>7. \A r \in net' : ManageIsCall(r) /\ (r.op = "load" => Manage!CanView(g) /\ r.key = g)
  BY <1>1, <1>6, ManageAskedIsCurrent DEF ManageShapes
<1>8. ManageShapes' /\ ManageLoadIsCurrent' /\ Manage!TabIsVisible'
  BY <1>6, <1>7 DEF ManageShapes, ManageLoadIsCurrent, Manage!Pending, Manage!TabIsVisible
<1>9. CASE Manage!CanView(g)
  <2>1. \E r \in net' : r.op = "load"
    BY <1>1, <1>6, <1>9, ManageLoadIsAsked
  <2> QED
    BY <1>8, <2>1 DEF Manage!DataIsAllowed, Manage!Pending
<1>10. CASE ~Manage!CanView(g)
  BY <1>4, <1>5, <1>6, <1>8, <1>10 DEF Manage!DataIsAllowed
<1> QED
  BY <1>8, <1>9, <1>10

\* What is chosen or dropped touches neither the sections nor the permissions.
LEMMA ManageOtherSteps ==
  ASSUME ManageInv, Manage!DropLoad \/ Manage!ChooseTab \/ Manage!UpdateSettings
  PROVE  ManageInv'
<1> USE DEF ManageInv, ManageShapes, ManageFields, ManageLoadIsCurrent, Manage!DataIsAllowed,
            Manage!TabIsVisible
<1>1. CASE Manage!DropLoad
  <2>1. PICK r \in Manage!Pending("cancelled") : net' = Manage!Without(r) /\ UNCHANGED ui
    BY <1>1 DEF Manage!DropLoad
  <2>2. Manage!Pending("load")' = Manage!Pending("load")
    BY <2>1 DEF Manage!Pending, Manage!Without
  <2> QED
    BY <2>1, <2>2 DEF Manage!Without
<1>2. CASE Manage!ChooseTab
  BY <1>2 DEF Manage!ChooseTab, Manage!Pending
<1>3. CASE Manage!UpdateSettings
  BY <1>3 DEF Manage!UpdateSettings, Manage!Pending
<1> QED
  BY <1>1, <1>2, <1>3

\* A user is saved: it joins what is shown, and the history tells when it may not.
LEMMA ManageUserSteps ==
  ASSUME ManageInv, Manage!SaveUser \/ Manage!UserSaved
  PROVE  ManageInv'
<1>0. ManageShapes /\ ManageLoadIsCurrent /\ Manage!DataIsAllowed /\ Manage!TabIsVisible
  BY DEF ManageInv
<1>1. CASE Manage!SaveUser
  <2>1. PICK n : /\ n = [id |-> Manage!Fresh, op |-> "saveUser", key |-> ui.granted]
                 /\ net' = net \cup {n} /\ ui' = ui
    BY <1>1 DEF Manage!SaveUser, Manage!Sent
  <2>2. ManageIsCall(n) /\ n.op = "saveUser"
    BY <2>1 DEF ManageIsCall
  <2>3. Manage!Pending("load")' = Manage!Pending("load")
    BY <2>1, <2>2 DEF Manage!Pending
  <2>4. ManageShapes'
    BY <1>0, <2>1, <2>2 DEF ManageShapes
  <2> QED
    BY <1>0, <2>1, <2>3, <2>4
       DEF ManageInv, ManageLoadIsCurrent, Manage!DataIsAllowed, Manage!TabIsVisible
<1>2. CASE Manage!UserSaved
  <2>1. PICK r \in net, created \in BOOLEAN :
          /\ r.op = "saveUser" /\ net' = net \ {r}
          /\ ui' = IF created
                   THEN [ui EXCEPT !.loaded = @ \cup {UsersSection},
                                   !.late = @ \/ ~Manage!MayHold(ui.granted, UsersSection)]
                   ELSE ui
    BY <1>2, Zenon DEF Manage!UserSaved, Manage!Pending, Manage!Without
  <2>2. Manage!Pending("load")' = Manage!Pending("load")
    BY <2>1 DEF Manage!Pending
  <2>3. DOMAIN ui = ManageFields
    BY <1>0 DEF ManageShapes
  <2>4. CASE ui' = ui
    BY <1>0, <2>1, <2>2, <2>4
       DEF ManageInv, ManageShapes, ManageLoadIsCurrent, Manage!DataIsAllowed, Manage!TabIsVisible
  <2>5. CASE ui' = [ui EXCEPT !.loaded = @ \cup {UsersSection},
                              !.late = @ \/ ~Manage!MayHold(ui.granted, UsersSection)]
    <3>1. /\ DOMAIN ui' = ManageFields /\ ui'.granted = ui.granted /\ ui'.tab = ui.tab
          /\ ui'.loaded = ui.loaded \cup {UsersSection}
          /\ ui'.late = (ui.late \/ ~Manage!MayHold(ui.granted, UsersSection))
      BY <2>3, <2>5, Zenon DEF ManageFields
    <3>2. ManageShapes' /\ ManageLoadIsCurrent' /\ Manage!TabIsVisible'
      BY <1>0, <2>1, <2>2, <3>1
         DEF ManageShapes, ManageLoadIsCurrent, Manage!TabIsVisible
    <3>3. Manage!DataIsAllowed'
      BY <1>0, <2>2, <3>1, Zenon DEF Manage!DataIsAllowed
    <3> QED
      BY <3>2, <3>3 DEF ManageInv
  <2> QED
    BY <2>1, <2>4, <2>5
<1> QED
  BY <1>1, <1>2

\* Every step of the view.
LEMMA ManageStep == ASSUME ManageInv, Manage!Next PROVE ManageInv'
BY ManageLoadedStep, ManageProfileStep, ManageOtherSteps, ManageUserSteps
   DEF Manage!Next

LEMMA ManageStays == ASSUME ManageInv, UNCHANGED vars PROVE ManageInv'
BY DEF vars, ManageInv, ManageShapes, ManageLoadIsCurrent, Manage!DataIsAllowed,
       Manage!TabIsVisible, Manage!Pending

\* AdminConfigPage.tsx holds, once no load is awaited, only sections that the
\* user's permissions of the moment allow, but for a user who was created under
\* earlier ones and added since, and shows a tab of theirs, however the profile
\* changes while loads and saves are out.
THEOREM ConsoleKeepsPermissions ==
  Manage!Init /\ [][Manage!Next]_vars => [](Manage!DataIsAllowed /\ Manage!TabIsVisible)
<1>1. ManageInv => Manage!DataIsAllowed /\ Manage!TabIsVisible
  BY DEF ManageInv
<1>2. ManageInv /\ [Manage!Next]_vars => ManageInv'
  BY ManageStep, ManageStays
<1> QED
  BY <1>1, <1>2, ManageInit, PTL

\* What the flag of a state u of the console waits for in the calls N: the one
\* load that was not cancelled.
ManageWaits(u, N) ==
  /\ DOMAIN u = ManageFields
  /\ \A r \in N : ManageIsCall(r)
  /\ Manage!CanView(u.granted) => (u.loading <=> \E r \in N : r.op = "load")
  /\ \A r, x \in N : r.op = "load" /\ x.op = "load" => r = x

ManageBusy == ManageWaits(ui, net)

\* The effect on the tabs leaves the flag.
LEMMA ManageShownLoads ==
  ASSUME NEW u, DOMAIN u = ManageFields
  PROVE  Manage!ShowVisible(u).loading = u.loading
<1>1. Manage!ShowVisible(u) = u \/ \E t : Manage!ShowVisible(u) = [u EXCEPT !.tab = t]
  BY Zenon DEF Manage!ShowVisible
<1> QED
  BY <1>1 DEF ManageFields

\* The effect on the permissions leaves one load, for who may see the console.
LEMMA ManageAskedIsLone ==
  ASSUME NEW u, NEW S, \A r \in S : ManageIsCall(r)
  PROVE  /\ \A r \in Manage!Asked(u, S) : ManageIsCall(r)
         /\ \A r, x \in Manage!Asked(u, S) : r.op = "load" /\ x.op = "load" => r = x
<1>1. \A r \in S : [r EXCEPT !.op = "cancelled"].op = "cancelled"
  BY DEF ManageIsCall
<1> DEFINE q == [id |-> CHOOSE i \in 1..(MaxPending + 1) : \A r \in S : r.id # i,
                 op |-> "load", key |-> u.granted]
<1>2. \A r \in Manage!Asked(u, S) :
        \/ \E s \in S : r = [s EXCEPT !.op = "cancelled"]
        \/ r \in S /\ r.op # "load"
        \/ Manage!CanView(u.granted) /\ r = q
  BY DEF Manage!Asked
<1> HIDE DEF q
<1>3. \A r \in Manage!Asked(u, S) : r.op = "load" => r = q
  BY <1>1, <1>2, Zenon
<1> QED
  BY <1>3, ManageAskedIsCurrent

\* A console that is mounted waits for its first load, if there is one.
LEMMA ManageBusyInit == Manage!Init => ManageBusy
<1> SUFFICES ASSUME Manage!Init PROVE ManageBusy
  OBVIOUS
<1>1. PICK u \in Manage!Mounted :
        ui = IF Manage!CanView(u.granted) THEN u ELSE [u EXCEPT !.loading = FALSE]
  BY Zenon DEF Manage!Init
<1>2. PICK v : /\ DOMAIN v = ManageFields /\ v.loading = TRUE
               /\ u = Manage!ShowVisible(v)
  <2> DEFINE R == [granted : SUBSET Manage!Permissions, tab : Tabs, loaded : {{}}, failed : {{}},
                   loading : {TRUE}, late : {FALSE}, settings : {"kept", "default"}]
  <2>1. PICK v \in R : u = Manage!ShowVisible(v)
    BY Zenon DEF Manage!Mounted
  <2>2. DOMAIN v = ManageFields /\ v.loading = TRUE
    BY Zenon DEF ManageFields
  <2> QED
    BY <2>1, <2>2
<1>3. DOMAIN u = ManageFields /\ u.loading = TRUE
  BY <1>2, ManageShownIsVisible, ManageShownLoads
<1>4. DOMAIN ui = ManageFields /\ (Manage!CanView(ui.granted) => ui.loading = TRUE)
  BY <1>1, <1>3 DEF ManageFields
<1>5. net = Manage!Asked(ui, {})
  BY DEF Manage!Init
<1>6. /\ \A r \in net : ManageIsCall(r)
      /\ \A r, x \in net : r.op = "load" /\ x.op = "load" => r = x
  BY <1>5, ManageAskedIsLone
<1>7. Manage!CanView(ui.granted) => \E r \in net : r.op = "load"
  BY <1>5, ManageLoadIsAsked
<1> QED
  BY <1>4, <1>6, <1>7 DEF ManageBusy, ManageWaits

\* Every step of the view.
LEMMA ManageBusyStep == ASSUME ManageBusy, Manage!Next PROVE ManageBusy'
<1>1. PICK v, u : v = ui' /\ u = ui
  OBVIOUS
<1>2. ManageWaits(u, net) /\ DOMAIN u = ManageFields
  BY <1>1 DEF ManageBusy, ManageWaits
<1>3. CASE Manage!Loaded
  <2>1. PICK r \in Manage!Pending("load") :
        \E failed \in SUBSET {s \in Sections : Manage!Allowed(r.key, s)} :
          /\ ui' = [ui EXCEPT !.loading = FALSE, !.failed = failed, !.late = FALSE,
                              !.loaded = {s \in Sections : Manage!Allowed(r.key, s)} \ failed]
          /\ net' = Manage!Without(r)
    BY <1>3, Zenon DEF Manage!Loaded
  <2>2. r \in net /\ r.op = "load" /\ net' = net \ {r}
    BY <2>1 DEF Manage!Pending, Manage!Without
  <2>3. DOMAIN v = ManageFields /\ v.loading = FALSE
    BY <1>1, <1>2, <2>1 DEF ManageFields
  <2> QED
    BY <1>1, <1>2, <2>2, <2>3 DEF ManageBusy, ManageWaits
<1>4. CASE Manage!DropLoad
  <2>1. PICK r \in Manage!Pending("cancelled") : net' = Manage!Without(r) /\ UNCHANGED ui
    BY <1>4 DEF Manage!DropLoad
  <2>2. r.op = "cancelled" /\ net' = net \ {r} /\ v = u
    BY <1>1, <2>1 DEF Manage!Pending, Manage!Without
  <2> QED
    BY <1>1, <1>2, <2>2 DEF ManageBusy, ManageWaits
<1>5. CASE Manage!ProfileChanges
  <2>1. PICK g \in SUBSET Manage!Permissions :
          /\ ui' = Manage!ShowVisible(Manage!Ask([ui EXCEPT !.granted = g]))
          /\ net' = Manage!Asked(ui', net)
    BY <1>5 DEF Manage!ProfileChanges
  <2>2. PICK w : w = [u EXCEPT !.granted = g]
    OBVIOUS
  <2>3. DOMAIN w = ManageFields /\ w.granted = g
    BY <1>2, <2>2 DEF ManageFields
  <2>4. PICK a : a = Manage!Ask(w)
    OBVIOUS
  <2>5. DOMAIN a = ManageFields /\ a.granted = g /\ (Manage!CanView(g) => a.loading = TRUE)
    BY <2>3, <2>4 DEF Manage!Ask, ManageFields
  <2>6. v = Manage!ShowVisible(a) /\ net' = Manage!Asked(v, net)
    BY <1>1, <2>1, <2>2, <2>4
  <2>7. DOMAIN v = ManageFields /\ v.granted = g /\ (Manage!CanView(g) => v.loading = TRUE)
    BY <2>5, <2>6, ManageShownIsVisible, ManageShownLoads
  <2>8. \A r \in net : ManageIsCall(r)
    BY <1>2 DEF ManageWaits
  <2>9. /\ \A r \in net' : ManageIsCall(r)
        /\ \A r, x \in net' : r.op = "load" /\ x.op = "load" => r = x
    BY <2>6, <2>8, ManageAskedIsLone
  <2>10. Manage!CanView(v.granted) => \E r \in net' : r.op = "load"
    BY <2>6, ManageLoadIsAsked
  <2> QED
    BY <1>1, <2>7, <2>9, <2>10 DEF ManageBusy, ManageWaits
<1>6. CASE Manage!ChooseTab \/ Manage!UpdateSettings
  <2>1. net' = net
    BY <1>6 DEF Manage!ChooseTab, Manage!UpdateSettings
  <2>2. DOMAIN v = ManageFields /\ v.granted = u.granted /\ v.loading = u.loading
    <3>1. CASE Manage!ChooseTab
      BY <1>1, <1>2, <3>1 DEF Manage!ChooseTab, ManageFields
    <3>2. CASE Manage!UpdateSettings
      BY <1>1, <1>2, <3>2 DEF Manage!UpdateSettings, ManageFields
    <3> QED
      BY <1>6, <3>1, <3>2
  <2> QED
    BY <1>1, <1>2, <2>1, <2>2 DEF ManageBusy, ManageWaits
<1>7. CASE Manage!SaveUser
  <2>1. PICK n : /\ n = [id |-> Manage!Fresh, op |-> "saveUser", key |-> ui.granted]
                 /\ net' = net \cup {n} /\ ui' = ui
    BY <1>7 DEF Manage!SaveUser, Manage!Sent
  <2>2. ManageIsCall(n) /\ n.op = "saveUser"
    BY <2>1 DEF ManageIsCall
  <2> QED
    BY <1>1, <1>2, <2>1, <2>2 DEF ManageBusy, ManageWaits
<1>8. CASE Manage!UserSaved
  <2>1. PICK r \in net, created \in BOOLEAN :
          /\ r.op = "saveUser" /\ net' = net \ {r}
          /\ v = IF created
                 THEN [u EXCEPT !.loaded = @ \cup {UsersSection},
                                !.late = @ \/ ~Manage!MayHold(u.granted, UsersSection)]
                 ELSE u
    BY <1>1, <1>8, Zenon DEF Manage!UserSaved, Manage!Pending, Manage!Without
  <2>2. DOMAIN v = ManageFields /\ v.granted = u.granted /\ v.loading = u.loading
    BY <1>2, <2>1, Zenon DEF ManageFields
  <2> QED
    BY <1>1, <1>2, <2>1, <2>2 DEF ManageBusy, ManageWaits
<1> QED
  BY <1>3, <1>4, <1>5, <1>6, <1>7, <1>8 DEF Manage!Next

LEMMA ManageBusyStays == ASSUME ManageBusy, UNCHANGED vars PROVE ManageBusy'
BY DEF vars, ManageBusy, ManageWaits

LEMMA ManageBusySays == ASSUME ManageBusy PROVE Manage!BusyIsAwaited
BY DEF ManageBusy, ManageWaits, Manage!BusyIsAwaited, Manage!Pending

\* The types of a state u of the console.
ManageTyped(u) ==
  /\ DOMAIN u = ManageFields /\ u.granted \subseteq Manage!Permissions /\ u.tab \in Tabs
  /\ u.loaded \subseteq Sections /\ u.failed \subseteq Sections
  /\ u.loading \in BOOLEAN /\ u.late \in BOOLEAN /\ u.settings \in {"kept", "default"}

ManageTypes == ManageTyped(ui)

\* The effects keep the types.
LEMMA ManageShownTyped == ASSUME NEW u, ManageTyped(u) PROVE ManageTyped(Manage!ShowVisible(u))
<1>1. CASE Manage!VisibleTabs(u.granted) = {} \/ u.tab \in Manage!VisibleTabs(u.granted)
  BY <1>1 DEF Manage!ShowVisible
<1>2. CASE ~(Manage!VisibleTabs(u.granted) = {} \/ u.tab \in Manage!VisibleTabs(u.granted))
  <2>1. PICK t : t = IF FirstTab \in Manage!VisibleTabs(u.granted) THEN FirstTab
                     ELSE CHOOSE x \in Manage!VisibleTabs(u.granted) : TRUE
    OBVIOUS
  <2>2. (CHOOSE x \in Manage!VisibleTabs(u.granted) : TRUE) \in Manage!VisibleTabs(u.granted)
    BY <1>2
  <2>3. t \in Tabs
    BY <2>1, <2>2 DEF Manage!VisibleTabs
  <2>4. PICK v : v = Manage!ShowVisible(u)
    OBVIOUS
  <2>5. v = [u EXCEPT !.tab = t]
    BY <1>2, <2>1, <2>4 DEF Manage!ShowVisible
  <2>6. ManageTyped(v)
    BY <2>3, <2>5 DEF ManageTyped, ManageFields
  <2> QED
    BY <2>4, <2>6
<1> QED
  BY <1>1, <1>2

LEMMA ManageAskTyped == ASSUME NEW u, ManageTyped(u) PROVE ManageTyped(Manage!Ask(u))
<1>1. PICK v : v = Manage!Ask(u)
  OBVIOUS
<1>2. \/ v = [u EXCEPT !.loading = TRUE, !.failed = {}]
      \/ v = [u EXCEPT !.loaded = {}, !.failed = {}, !.late = FALSE]
  BY <1>1 DEF Manage!Ask
<1>3. ManageTyped(v)
  <2>1. CASE v = [u EXCEPT !.loading = TRUE, !.failed = {}]
    BY <2>1 DEF ManageTyped, ManageFields
  <2>2. CASE v = [u EXCEPT !.loaded = {}, !.failed = {}, !.late = FALSE]
    BY <2>2 DEF ManageTyped, ManageFields
  <2> QED
    BY <1>2, <2>1, <2>2
<1> QED
  BY <1>1, <1>3

LEMMA ManageTypesInit == Manage!Init => ManageTypes
<1> SUFFICES ASSUME Manage!Init PROVE ManageTypes
  OBVIOUS
<1>1. PICK u \in Manage!Mounted :
        ui = IF Manage!CanView(u.granted) THEN u ELSE [u EXCEPT !.loading = FALSE]
  BY Zenon DEF Manage!Init
<1>2. PICK v : ManageTyped(v) /\ u = Manage!ShowVisible(v)
  <2> DEFINE R == [granted : SUBSET Manage!Permissions, tab : Tabs, loaded : {{}}, failed : {{}},
                   loading : {TRUE}, late : {FALSE}, settings : {"kept", "default"}]
  <2>1. PICK v \in R : u = Manage!ShowVisible(v)
    BY Zenon DEF Manage!Mounted
  <2>2. ManageTyped(v)
    BY Zenon DEF ManageTyped, ManageFields
  <2> QED
    BY <2>1, <2>2
<1>3. ManageTyped(u)
  BY <1>2, ManageShownTyped
<1>4. PICK w : w = [u EXCEPT !.loading = FALSE]
  OBVIOUS
<1>5. ManageTyped(w)
  BY <1>3, <1>4 DEF ManageTyped, ManageFields
<1>6. ui = u \/ ui = w
  BY <1>1, <1>4
<1> QED
  BY <1>3, <1>5, <1>6 DEF ManageTypes

LEMMA ManageTypesStep == ASSUME ManageTypes, Manage!Next PROVE ManageTypes'
<1>1. PICK v, u : v = ui' /\ u = ui
  OBVIOUS
<1>2. ManageTyped(u)
  BY <1>1 DEF ManageTypes
<1>0. ManageTyped(v) => ManageTypes'
  BY <1>1 DEF ManageTypes, ManageTyped, Manage!Permissions
<1>3. CASE Manage!Loaded
  <2>1. PICK k : \E failed \in SUBSET {s \in Sections : Manage!Allowed(k, s)} :
          ui' = [ui EXCEPT !.loading = FALSE, !.failed = failed, !.late = FALSE,
                           !.loaded = {s \in Sections : Manage!Allowed(k, s)} \ failed]
    BY <1>3, Zenon DEF Manage!Loaded
  <2>2. PICK l, f : /\ l \subseteq Sections /\ f \subseteq Sections
                    /\ v = [u EXCEPT !.loading = FALSE, !.failed = f, !.late = FALSE, !.loaded = l]
    BY <1>1, <2>1, Zenon
  <2>3. ManageTyped(v)
    BY <1>2, <2>2 DEF ManageTyped, ManageFields
  <2> QED
    BY <1>0, <2>3
<1>4. CASE Manage!DropLoad
  BY <1>0, <1>1, <1>2, <1>4 DEF Manage!DropLoad
<1>5. CASE Manage!ChooseTab
  <2>1. PICK t \in Tabs : v = [u EXCEPT !.tab = t]
    BY <1>1, <1>5 DEF Manage!ChooseTab, Manage!VisibleTabs
  <2>2. ManageTyped(v)
    BY <1>2, <2>1 DEF ManageTyped, ManageFields
  <2> QED
    BY <1>0, <2>2
<1>6. CASE Manage!ProfileChanges
  <2>1. PICK g \in SUBSET Manage!Permissions :
          ui' = Manage!ShowVisible(Manage!Ask([ui EXCEPT !.granted = g]))
    BY <1>6 DEF Manage!ProfileChanges
  <2>2. PICK w, a : w = [ui EXCEPT !.granted = g] /\ a = Manage!Ask(w)
    OBVIOUS
  <2>3. ManageTyped(w)
    BY <1>1, <1>2, <2>2 DEF ManageTyped, ManageFields
  <2>4. ManageTyped(a)
    BY <2>2, <2>3, ManageAskTyped
  <2>5. v = Manage!ShowVisible(a)
    BY <1>1, <2>1, <2>2
  <2> QED
    BY <1>0, <2>4, <2>5, ManageShownTyped
<1>7. CASE Manage!UpdateSettings
  <2>1. v = [u EXCEPT !.settings = "kept"]
    BY <1>1, <1>7 DEF Manage!UpdateSettings
  <2>2. ManageTyped(v)
    BY <1>2, <2>1 DEF ManageTyped, ManageFields
  <2> QED
    BY <1>0, <2>2
<1>8. CASE Manage!SaveUser
  BY <1>0, <1>1, <1>2, <1>8 DEF Manage!SaveUser
<1>9. CASE Manage!UserSaved
  <2>1. PICK b : /\ b = (u.late \/ ~Manage!MayHold(u.granted, UsersSection))
                 /\ v = u \/ v = [u EXCEPT !.loaded = @ \cup {UsersSection}, !.late = b]
    BY <1>1, <1>9, Zenon DEF Manage!UserSaved
  <2>2. UsersSection \in Sections
    BY FrontendAssumption DEF Manage!ManagementAssumption
  <2>3. ASSUME v = [u EXCEPT !.loaded = @ \cup {UsersSection}, !.late = b]
        PROVE  ManageTyped(v)
    <3>1. b \in BOOLEAN
      BY <1>2, <2>1 DEF ManageTyped
    <3>2. DOMAIN u = ManageFields
      BY <1>2 DEF ManageTyped
    <3>3. /\ DOMAIN v = ManageFields /\ v.late = b /\ v.loaded = u.loaded \cup {UsersSection}
          /\ v.granted = u.granted /\ v.tab = u.tab /\ v.failed = u.failed
          /\ v.loading = u.loading /\ v.settings = u.settings
      BY <2>3, <3>2, Zenon DEF ManageFields
    <3>4. v.loaded \subseteq Sections
      <4>1. u.loaded \subseteq Sections
        BY <1>2 DEF ManageTyped
      <4> QED
        BY <2>2, <3>3, <4>1
    <3> QED
      BY <1>2, <3>1, <3>3, <3>4, Zenon DEF ManageTyped
  <2>4. ManageTyped(v)
    BY <1>2, <2>1, <2>3, Zenon
  <2> QED
    BY <1>0, <2>4
<1> QED
  BY <1>3, <1>4, <1>5, <1>6, <1>7, <1>8, <1>9 DEF Manage!Next

LEMMA ManageTypesStay == ASSUME ManageTypes, UNCHANGED vars PROVE ManageTypes'
BY DEF vars, ManageTypes, ManageTyped, Manage!Permissions

LEMMA ManageIsTyped == ASSUME ManageTypes PROVE Manage!TypeOK
BY DEF ManageTypes, ManageTyped, Manage!TypeOK

-----------------------------------------------------------------------------
(* UserAdmin: the card is busy only while a save is awaited.                   *)

AdminFields == {"users", "roles", "open", "draft", "saving", "status"}

\* What the flag of a state u of the view waits for in the calls N.
AdminWaits(u, N) ==
  /\ DOMAIN u = AdminFields
  /\ u.saving => \E r \in N : r.op \in {"create", "update"}

AdminInv == AdminWaits(ui, net)

\* The table is asked for; nothing is saved.
LEMMA AdminInit == Admin!Init => AdminInv
<1> SUFFICES ASSUME Admin!Init PROVE AdminInv
  OBVIOUS
<1>1. ui \in Admin!Mounted
  BY DEF Admin!Init
<1>2. DOMAIN ui = AdminFields /\ ui.saving = FALSE
  BY <1>1 DEF Admin!Mounted, AdminFields
<1> QED
  BY <1>2 DEF AdminInv, AdminWaits

\* A save begins.
LEMMA AdminSaveStep == ASSUME AdminInv, Admin!Save PROVE AdminInv'
<1>1. PICK v, u : v = ui' /\ u = ui
  OBVIOUS
<1>2. PICK n : n = [id |-> Admin!Fresh, op |-> IF u.draft.id = 0 THEN "create" ELSE "update",
                    key |-> u.draft]
  OBVIOUS
<1>3. v = [u EXCEPT !.saving = TRUE] /\ net' = net \cup {n}
  BY <1>1, <1>2 DEF Admin!Save, Admin!Sent
<1>4. n.op \in {"create", "update"}
  BY <1>2
<1>5. DOMAIN v = DOMAIN u
  BY <1>3
<1> QED
  BY <1>1, <1>3, <1>4, <1>5 DEF AdminInv, AdminWaits

\* An answer to a save ends the pause, also that of another save.
LEMMA AdminSavedStep ==
  ASSUME AdminInv, Admin!Created \/ Admin!Updated \/ Admin!SaveFails
  PROVE  AdminInv'
<1>1. DOMAIN ui = AdminFields
  BY DEF AdminInv, AdminWaits
<1>2. CASE Admin!Created
  <2>1. PICK x : ui' = [ui EXCEPT !.open = FALSE, !.saving = FALSE, !.users = x]
    BY <1>2, Zenon DEF Admin!Created
  <2>2. DOMAIN ui' = AdminFields /\ ui'.saving = FALSE
    BY <1>1, <2>1 DEF AdminFields
  <2> QED
    BY <2>2 DEF AdminInv, AdminWaits
<1>3. CASE Admin!Updated
  <2>1. PICK x : ui' = [ui EXCEPT !.open = FALSE, !.saving = FALSE, !.users = x]
    BY <1>3, Zenon DEF Admin!Updated
  <2>2. DOMAIN ui' = AdminFields /\ ui'.saving = FALSE
    BY <1>1, <2>1 DEF AdminFields
  <2> QED
    BY <2>2 DEF AdminInv, AdminWaits
<1>4. CASE Admin!SaveFails
  <2>1. ui' = [ui EXCEPT !.saving = FALSE]
    BY <1>4 DEF Admin!SaveFails
  <2>2. DOMAIN ui' = AdminFields /\ ui'.saving = FALSE
    BY <1>1, <2>1 DEF AdminFields
  <2> QED
    BY <2>2 DEF AdminInv, AdminWaits
<1> QED
  BY <1>2, <1>3, <1>4

\* The other answers, to the load and to a change of status, leave the saves.
LEMMA AdminOtherAnswers ==
  ASSUME AdminInv, Admin!Load \/ Admin!Toggled
  PROVE  AdminInv'
<1>1. PICK v, u : v = ui' /\ u = ui
  OBVIOUS
<1>2. AdminWaits(u, net) /\ DOMAIN u = AdminFields
  BY <1>1 DEF AdminInv, AdminWaits
<1>3. CASE Admin!Load
  <2>1. PICK r \in Admin!Pending("load") :
        \E users \in {srv.users, [i \in {} |-> TRUE]}, roles \in BOOLEAN :
          /\ ui' = [ui EXCEPT !.users = users, !.roles = roles]
          /\ net' = Admin!Without(r)
    BY <1>3, Zenon DEF Admin!Load
  <2>2. r.op = "load" /\ net' = net \ {r}
    BY <2>1 DEF Admin!Pending, Admin!Without
  <2>3. DOMAIN v = AdminFields /\ v.saving = u.saving
    BY <1>1, <1>2, <2>1 DEF AdminFields
  <2> QED
    BY <1>1, <1>2, <2>2, <2>3 DEF AdminInv, AdminWaits
<1>4. CASE Admin!Toggled
  <2>1. PICK r \in Admin!Pending("toggle"), ok \in BOOLEAN :
          /\ ui' = IF ok THEN [ui EXCEPT !.users = Admin!Replace(@, r.key.id, r.key.active)]
                   ELSE ui
          /\ net' = Admin!Without(r)
    BY <1>4, Zenon DEF Admin!Toggled
  <2>2. r.op = "toggle" /\ net' = net \ {r}
    BY <2>1 DEF Admin!Pending, Admin!Without
  <2>3. DOMAIN v = AdminFields /\ v.saving = u.saving
    <3>1. PICK x : x = Admin!Replace(u.users, r.key.id, r.key.active)
      OBVIOUS
    <3>2. v = [u EXCEPT !.users = x] \/ v = u
      BY <1>1, <2>1, <3>1
    <3> QED
      BY <1>2, <3>2 DEF AdminFields
  <2> QED
    BY <1>1, <1>2, <2>2, <2>3 DEF AdminInv, AdminWaits
<1> QED
  BY <1>3, <1>4

\* The events of the table and the dialog, which end no call.
LEMMA AdminPageSteps ==
  ASSUME AdminInv,
         \/ Admin!ChooseStatus \/ Admin!OpenCreate \/ Admin!OpenEdit \/ Admin!Edit
         \/ Admin!Close \/ Admin!ToggleStatus
  PROVE  AdminInv'
<1>1. PICK v, u : v = ui' /\ u = ui
  OBVIOUS
<1>2. AdminWaits(u, net) /\ DOMAIN u = AdminFields
  BY <1>1 DEF AdminInv, AdminWaits
<1>3. net \subseteq net'
  BY Zenon
     DEF Admin!ChooseStatus, Admin!OpenCreate, Admin!OpenEdit, Admin!Edit, Admin!Close,
         Admin!ToggleStatus, Admin!Sent
<1>4. DOMAIN v = AdminFields /\ v.saving = u.saving
  <2>1. CASE Admin!ChooseStatus
    BY <1>1, <1>2, <2>1 DEF Admin!ChooseStatus, AdminFields
  <2>2. CASE Admin!OpenCreate
    BY <1>1, <1>2, <2>2 DEF Admin!OpenCreate, AdminFields
  <2>3. CASE Admin!OpenEdit
    <3>1. PICK x : v = [u EXCEPT !.open = TRUE, !.draft = x]
      BY <1>1, <2>3, Zenon DEF Admin!OpenEdit
    <3> QED
      BY <1>2, <3>1 DEF AdminFields
  <2>4. CASE Admin!Edit
    <3>1. PICK a, f : v = [u EXCEPT !.draft.active = a, !.draft.filled = f]
      BY <1>1, <2>4, Zenon DEF Admin!Edit
    <3> QED
      BY <1>2, <3>1 DEF AdminFields
  <2>5. CASE Admin!Close
    BY <1>1, <1>2, <2>5 DEF Admin!Close, AdminFields
  <2>6. CASE Admin!ToggleStatus
    BY <1>1, <1>2, <2>6 DEF Admin!ToggleStatus
  <2> QED
    BY <2>1, <2>2, <2>3, <2>4, <2>5, <2>6
<1> QED
  BY <1>1, <1>2, <1>3, <1>4 DEF AdminInv, AdminWaits

\* Every step of the view.
LEMMA AdminStep == ASSUME AdminInv, Admin!Next PROVE AdminInv'
BY AdminSaveStep, AdminSavedStep, AdminOtherAnswers, AdminPageSteps DEF Admin!Next

LEMMA AdminStays == ASSUME AdminInv, UNCHANGED vars PROVE AdminInv'
BY DEF vars, AdminInv, AdminWaits

LEMMA AdminSays == ASSUME AdminInv PROVE Admin!BusyIsAwaited
BY DEF AdminInv, AdminWaits, Admin!BusyIsAwaited, Admin!Pending

\* The types of a state u of the view, of the stored accounts and of a call r.
AdminTable(t) == t \in Admin!Tables

AdminTyped(u) ==
  /\ DOMAIN u = AdminFields /\ AdminTable(u.users) /\ u.status \in Admin!Statuses
  /\ {u.open, u.saving, u.roles} \subseteq BOOLEAN
  /\ DOMAIN u.draft = {"id", "active", "filled"}
  /\ u.draft.id \in Accounts \cup {0} /\ u.draft.active \in BOOLEAN

AdminStore(s) == DOMAIN s = {"users"} /\ AdminTable(s.users)

AdminCall(r) == r.key.active \in BOOLEAN

AdminTypes == AdminTyped(ui) /\ AdminStore(srv) /\ \A r \in net : AdminCall(r)

\* Tables of accounts: the empty one, what one says, and how one changes.
LEMMA AdminTableEmpty == AdminTable([i \in {} |-> TRUE])
<1>1. [i \in {} |-> TRUE] \in [{} -> BOOLEAN] /\ {} \in SUBSET Accounts
  OBVIOUS
<1> QED
  BY <1>1 DEF AdminTable, Admin!Tables

LEMMA AdminTableHas ==
  ASSUME NEW t, AdminTable(t), NEW i \in DOMAIN t
  PROVE  i \in Accounts /\ t[i] \in BOOLEAN
<1>1. PICK S \in SUBSET Accounts : t \in [S -> BOOLEAN]
  BY DEF AdminTable, Admin!Tables
<1> QED
  BY <1>1

LEMMA AdminTableGrows ==
  ASSUME NEW t, AdminTable(t), NEW i \in Accounts, NEW b \in BOOLEAN
  PROVE  AdminTable([j \in DOMAIN t \cup {i} |-> IF j = i THEN b ELSE t[j]])
<1>1. PICK S \in SUBSET Accounts : t \in [S -> BOOLEAN]
  BY DEF AdminTable, Admin!Tables
<1>2. PICK f : f = [j \in DOMAIN t \cup {i} |-> IF j = i THEN b ELSE t[j]]
  OBVIOUS
<1>3. f \in [S \cup {i} -> BOOLEAN] /\ S \cup {i} \in SUBSET Accounts
  BY <1>1, <1>2
<1>4. AdminTable(f)
  BY <1>3 DEF AdminTable, Admin!Tables
<1> QED
  BY <1>2, <1>4

LEMMA AdminTableReplaced ==
  ASSUME NEW t, AdminTable(t), NEW i, NEW b \in BOOLEAN
  PROVE  AdminTable(Admin!Replace(t, i, b))
<1>1. PICK S \in SUBSET Accounts : t \in [S -> BOOLEAN]
  BY DEF AdminTable, Admin!Tables
<1>2. PICK f : f = Admin!Replace(t, i, b)
  OBVIOUS
<1>3. f \in [S -> BOOLEAN]
  BY <1>1, <1>2 DEF Admin!Replace
<1>4. AdminTable(f)
  BY <1>3 DEF AdminTable, Admin!Tables
<1> QED
  BY <1>2, <1>4

LEMMA AdminTypesInit == Admin!Init => AdminTypes
<1> SUFFICES ASSUME Admin!Init PROVE AdminTypes
  OBVIOUS
<1>1. PICK e, d : /\ e = [i \in {} |-> TRUE] /\ d = [id |-> 0, active |-> TRUE, filled |-> FALSE]
                  /\ ui = [users |-> e, roles |-> FALSE, open |-> FALSE, draft |-> d,
                           saving |-> FALSE, status |-> "all"]
  BY DEF Admin!Init, Admin!Mounted, Admin!NoDraft
<1>2. PICK n : n = [id |-> 1, op |-> "load", key |-> d]
  OBVIOUS
<1>3. net = {n} /\ n.key = d
  BY <1>1, <1>2 DEF Admin!Init, Admin!NoDraft
<1>4. PICK t : AdminTable(t) /\ srv = [users |-> t]
  BY DEF Admin!Init, Admin!Stored, AdminTable
<1>5. AdminStore(srv)
  BY <1>4 DEF AdminStore
<1>6. /\ DOMAIN d = {"id", "active", "filled"} /\ d.id = 0 /\ d.active = TRUE
  BY <1>1
<1>7. AdminTable(e)
  BY <1>1, AdminTableEmpty
<1>8. AdminTyped(ui)
  BY <1>1, <1>6, <1>7, Zenon DEF AdminTyped, AdminFields, Admin!Statuses
<1>9. AdminCall(n)
  BY <1>3, <1>6, Zenon DEF AdminCall
<1> QED
  BY <1>3, <1>5, <1>8, <1>9 DEF AdminTypes

\* The events of the table and the dialog.
LEMMA AdminPageTyped ==
  ASSUME AdminTypes,
         \/ Admin!ChooseStatus \/ Admin!OpenCreate \/ Admin!OpenEdit \/ Admin!Edit
         \/ Admin!Close
  PROVE  AdminTypes'
<1>1. PICK v, u : v = ui' /\ u = ui
  OBVIOUS
<1>2. AdminTyped(u)
  BY <1>1 DEF AdminTypes
<1>3. net' = net /\ srv' = srv
  BY Zenon DEF Admin!ChooseStatus, Admin!OpenCreate, Admin!OpenEdit, Admin!Edit, Admin!Close
<1>0. ASSUME AdminTyped(v) PROVE AdminTypes'
  BY <1>0, <1>1, <1>3 DEF AdminTypes
<1>4. CASE Admin!ChooseStatus
  <2>1. PICK s \in Admin!Statuses : v = [u EXCEPT !.status = s]
    BY <1>1, <1>4 DEF Admin!ChooseStatus
  <2>2. AdminTyped(v)
    BY <1>2, <2>1 DEF AdminTyped, AdminFields
  <2> QED
    BY <1>0, <2>2
<1>5. CASE Admin!OpenCreate
  <2>1. PICK d : /\ d = [id |-> 0, active |-> TRUE, filled |-> FALSE]
                 /\ v = [u EXCEPT !.open = TRUE, !.draft = d]
    BY <1>1, <1>5, Zenon DEF Admin!OpenCreate, Admin!NoDraft
  <2>2. DOMAIN d = {"id", "active", "filled"} /\ d.id = 0 /\ d.active = TRUE
    BY <2>1
  <2>3. AdminTyped(v)
    BY <1>2, <2>1, <2>2, Zenon DEF AdminTyped, AdminFields
  <2> QED
    BY <1>0, <2>3
<1>6. CASE Admin!OpenEdit
  <2>1. PICK i \in Admin!Shown :
          v = [u EXCEPT !.open = TRUE,
                        !.draft = [id |-> i, active |-> u.users[i], filled |-> TRUE]]
    BY <1>1, <1>6, Zenon DEF Admin!OpenEdit
  <2>2. PICK d : d = [id |-> i, active |-> u.users[i], filled |-> TRUE]
    OBVIOUS
  <2>3. i \in DOMAIN u.users
    BY <1>1, <2>1 DEF Admin!Shown
  <2>4. i \in Accounts /\ u.users[i] \in BOOLEAN
    BY <1>2, <2>3, AdminTableHas DEF AdminTyped
  <2>5. v = [u EXCEPT !.open = TRUE, !.draft = d]
    BY <2>1, <2>2
  <2>6. DOMAIN d = {"id", "active", "filled"} /\ d.id \in Accounts /\ d.active \in BOOLEAN
    BY <2>2, <2>4
  <2>7. AdminTyped(v)
    BY <1>2, <2>5, <2>6 DEF AdminTyped, AdminFields
  <2> QED
    BY <1>0, <2>7
<1>7. CASE Admin!Edit
  <2>1. PICK a \in BOOLEAN, f \in BOOLEAN :
          v = [u EXCEPT !.draft.active = a, !.draft.filled = f]
    BY <1>1, <1>7, Zenon DEF Admin!Edit
  <2>2. PICK d : d = [u.draft EXCEPT !.active = a, !.filled = f]
    OBVIOUS
  <2>3. v = [u EXCEPT !.draft = d]
    BY <1>2, <2>1, <2>2, Zenon DEF AdminTyped, AdminFields
  <2>4. DOMAIN d = {"id", "active", "filled"} /\ d.id = u.draft.id /\ d.active = a
    BY <1>2, <2>2 DEF AdminTyped
  <2>5. AdminTyped(v)
    BY <1>2, <2>1, <2>3, <2>4, Zenon DEF AdminTyped, AdminFields
  <2> QED
    BY <1>0, <2>5
<1>8. CASE Admin!Close
  <2>1. v = [u EXCEPT !.open = FALSE]
    BY <1>1, <1>8 DEF Admin!Close
  <2>2. AdminTyped(v)
    BY <1>2, <2>1 DEF AdminTyped, AdminFields
  <2> QED
    BY <1>0, <2>2
<1> QED
  BY <1>4, <1>5, <1>6, <1>7, <1>8

\* A call is sent.
LEMMA AdminSendTyped ==
  ASSUME AdminTypes, Admin!Save \/ Admin!ToggleStatus
  PROVE  AdminTypes'
<1>1. PICK v, u : v = ui' /\ u = ui
  OBVIOUS
<1>2. AdminTyped(u) /\ srv' = srv /\ AdminStore(srv) /\ \A r \in net : AdminCall(r)
  BY <1>1, Zenon DEF AdminTypes, Admin!Save, Admin!ToggleStatus
<1>3. CASE Admin!Save
  <2>1. PICK op : op = IF u.draft.id = 0 THEN "create" ELSE "update"
    OBVIOUS
  <2>2. PICK n : n = [id |-> Admin!Fresh, op |-> op, key |-> u.draft]
    OBVIOUS
  <2>3. v = [u EXCEPT !.saving = TRUE] /\ net' = net \cup {n} /\ n.key = u.draft
    BY <1>1, <1>3, <2>1, <2>2 DEF Admin!Save, Admin!Sent
  <2>4. AdminTyped(v)
    BY <1>2, <2>3 DEF AdminTyped, AdminFields
  <2>5. AdminCall(n)
    BY <1>2, <2>3 DEF AdminCall, AdminTyped
  <2> QED
    BY <1>1, <1>2, <2>3, <2>4, <2>5 DEF AdminTypes
<1>4. CASE Admin!ToggleStatus
  <2>1. PICK i \in Admin!Shown :
          /\ net' = Admin!Sent("toggle", [id |-> i, active |-> ~u.users[i], filled |-> TRUE])
          /\ v = u
    BY <1>1, <1>4, Zenon DEF Admin!ToggleStatus
  <2>2. PICK a : a = ~u.users[i]
    OBVIOUS
  <2>3. PICK k : k = [id |-> i, active |-> a, filled |-> TRUE]
    OBVIOUS
  <2>4. PICK n : n = [id |-> Admin!Fresh, op |-> "toggle", key |-> k]
    OBVIOUS
  <2>5. net' = net \cup {n} /\ n.key = k /\ k.active = a
    BY <2>1, <2>2, <2>3, <2>4 DEF Admin!Sent
  <2>6. a \in BOOLEAN
    BY <2>2
  <2>7. AdminCall(n)
    BY <2>5, <2>6 DEF AdminCall
  <2> QED
    BY <1>1, <1>2, <2>1, <2>5, <2>7, Zenon DEF AdminTypes
<1> QED
  BY <1>3, <1>4

\* An answer is drawn: the tables change together.
LEMMA AdminAnswerTyped ==
  ASSUME AdminTypes,
         Admin!Load \/ Admin!Created \/ Admin!Updated \/ Admin!SaveFails \/ Admin!Toggled
  PROVE  AdminTypes'
<1>1. PICK v, u : v = ui' /\ u = ui
  OBVIOUS
<1>2. PICK t, s : t = srv' /\ s = srv
  OBVIOUS
<1>3. AdminTyped(u) /\ AdminStore(s) /\ \A r \in net : AdminCall(r)
  BY <1>1, <1>2 DEF AdminTypes
<1>4. net' \subseteq net
  BY Zenon DEF Admin!Load, Admin!Created, Admin!Updated, Admin!SaveFails, Admin!Toggled,
         Admin!Without
<1>0. ASSUME AdminTyped(v), AdminStore(t) PROVE AdminTypes'
  BY <1>0, <1>1, <1>2, <1>3, <1>4 DEF AdminTypes
<1>9. ASSUME NEW f, AdminTable(f), s = s, t = [s EXCEPT !.users = f]
      PROVE  AdminStore(t)
  BY <1>3, <1>9 DEF AdminStore
<1>10. ASSUME NEW f, AdminTable(f), NEW o \in {u.open, FALSE}, NEW w \in {u.saving, FALSE},
              v = [u EXCEPT !.open = o, !.saving = w, !.users = f]
       PROVE  AdminTyped(v)
  BY <1>3, <1>10, Zenon DEF AdminTyped, AdminFields
<1>5. CASE Admin!Load
  <2>1. PICK users \in {srv.users, [i \in {} |-> TRUE]}, roles \in BOOLEAN :
          ui' = [ui EXCEPT !.users = users, !.roles = roles] /\ srv' = srv
    BY <1>5, Zenon DEF Admin!Load
  <2>2. AdminTable(users)
    BY <1>2, <1>3, <2>1, AdminTableEmpty DEF AdminStore
  <2>3. v = [u EXCEPT !.users = users, !.roles = roles] /\ t = s
    BY <1>1, <1>2, <2>1
  <2>4. AdminTyped(v)
    BY <1>3, <2>2, <2>3 DEF AdminTyped, AdminFields
  <2> QED
    BY <1>0, <1>3, <2>3, <2>4
<1>6. CASE Admin!Created
  <2>1. PICK r \in net, i \in Accounts :
          /\ srv' = [srv EXCEPT !.users =
               [j \in DOMAIN @ \cup {i} |-> IF j = i THEN r.key.active ELSE @[j]]]
          /\ ui' = [ui EXCEPT !.open = FALSE, !.saving = FALSE,
               !.users = [j \in DOMAIN @ \cup {i} |-> IF j = i THEN r.key.active ELSE @[j]]]
    BY <1>6, Zenon DEF Admin!Created, Admin!Pending
  <2>2. PICK b : b = r.key.active
    OBVIOUS
  <2>3. PICK f, g :
          /\ f = [j \in DOMAIN s.users \cup {i} |-> IF j = i THEN b ELSE s.users[j]]
          /\ g = [j \in DOMAIN u.users \cup {i} |-> IF j = i THEN b ELSE u.users[j]]
    OBVIOUS
  <2>4. b \in BOOLEAN
    BY <1>3, <2>1, <2>2 DEF AdminCall
  <2>5. AdminTable(f) /\ AdminTable(g)
    BY <1>3, <2>3, <2>4, AdminTableGrows DEF AdminStore, AdminTyped
  <2>6. /\ t = [s EXCEPT !.users = f]
        /\ v = [u EXCEPT !.open = FALSE, !.saving = FALSE, !.users = g]
    BY <1>1, <1>2, <2>1, <2>2, <2>3
  <2>7. AdminStore(t) /\ AdminTyped(v)
    BY <1>9, <1>10, <2>5, <2>6, Zenon
  <2> QED
    BY <1>0, <2>7
<1>7. CASE Admin!Updated
  <2>1. PICK r \in net :
          /\ srv' = [srv EXCEPT !.users = Admin!Replace(@, r.key.id, r.key.active)]
          /\ ui' = [ui EXCEPT !.open = FALSE, !.saving = FALSE,
                              !.users = Admin!Replace(@, r.key.id, r.key.active)]
    BY <1>7, Zenon DEF Admin!Updated, Admin!Pending
  <2>2. PICK f, g : /\ f = Admin!Replace(s.users, r.key.id, r.key.active)
                    /\ g = Admin!Replace(u.users, r.key.id, r.key.active)
    OBVIOUS
  <2>3. AdminTable(f) /\ AdminTable(g)
    BY <1>3, <2>1, <2>2, AdminTableReplaced DEF AdminStore, AdminTyped, AdminCall
  <2>4. /\ t = [s EXCEPT !.users = f]
        /\ v = [u EXCEPT !.open = FALSE, !.saving = FALSE, !.users = g]
    BY <1>1, <1>2, <2>1, <2>2
  <2>5. AdminStore(t) /\ AdminTyped(v)
    BY <1>9, <1>10, <2>3, <2>4, Zenon
  <2> QED
    BY <1>0, <2>5
<1>8. CASE Admin!SaveFails
  <2>1. v = [u EXCEPT !.saving = FALSE] /\ t = s
    BY <1>1, <1>2, <1>8 DEF Admin!SaveFails
  <2>2. AdminTyped(v)
    BY <1>3, <2>1 DEF AdminTyped, AdminFields
  <2> QED
    BY <1>0, <1>3, <2>1, <2>2
<1>11. CASE Admin!Toggled
  <2>1. PICK r \in net, ok \in BOOLEAN :
          /\ srv' = IF ok THEN [srv EXCEPT !.users = Admin!Replace(@, r.key.id, r.key.active)]
                    ELSE srv
          /\ ui' = IF ok THEN [ui EXCEPT !.users = Admin!Replace(@, r.key.id, r.key.active)]
                   ELSE ui
    BY <1>11, Zenon DEF Admin!Toggled, Admin!Pending
  <2>2. PICK f, g : /\ f = Admin!Replace(s.users, r.key.id, r.key.active)
                    /\ g = Admin!Replace(u.users, r.key.id, r.key.active)
    OBVIOUS
  <2>3. AdminTable(f) /\ AdminTable(g)
    BY <1>3, <2>1, <2>2, AdminTableReplaced DEF AdminStore, AdminTyped, AdminCall
  <2>4. \/ t = [s EXCEPT !.users = f] /\ v = [u EXCEPT !.users = g]
        \/ t = s /\ v = u
    BY <1>1, <1>2, <2>1, <2>2
  <2>5. v = [u EXCEPT !.users = g] => AdminTyped(v)
    BY <1>3, <2>3 DEF AdminTyped, AdminFields
  <2>6. AdminStore(t) /\ AdminTyped(v)
    BY <1>3, <1>9, <2>3, <2>4, <2>5
  <2> QED
    BY <1>0, <2>6
<1> QED
  BY <1>5, <1>6, <1>7, <1>8, <1>11

LEMMA AdminTypesStep == ASSUME AdminTypes, Admin!Next PROVE AdminTypes'
BY AdminPageTyped, AdminSendTyped, AdminAnswerTyped DEF Admin!Next

LEMMA AdminTypesStay == ASSUME AdminTypes, UNCHANGED vars PROVE AdminTypes'
BY DEF vars, AdminTypes, AdminTyped, AdminStore

LEMMA AdminIsTyped == ASSUME AdminTypes PROVE Admin!TypeOK
BY DEF AdminTypes, AdminTyped, AdminStore, AdminTable, Admin!TypeOK, AdminFields

-----------------------------------------------------------------------------
(* TenantCreation: the wizard is of a tenant that the server has.              *)

\* The records of the state have their fields.
CreationIsCall(r) == DOMAIN r = {"id", "op", "key"} /\ DOMAIN r.key = {"tenant", "polls"}
CreationShapes ==
  /\ DOMAIN ui = {"shown", "open", "name", "creating", "failed", "wizard"}
  /\ DOMAIN srv = {"tenants", "running", "broken"}
  /\ \A r \in net : CreationIsCall(r)

\* A tenant whose creation is polled has been taken on: it is being made, could
\* not be made or exists; one whose creation has succeeded exists.
CreationFollowed(r) ==
  /\ r.op = "poll" => r.key.tenant \in srv.running \cup srv.broken \cup srv.tenants
  /\ r.op = "reload" => r.key.tenant \in srv.tenants

CreationInv == CreationShapes /\ (\A r \in net : CreationFollowed(r)) /\ Creation!WizardHasTenant

\* The page starts with the call for its list, and no wizard.
LEMMA CreationInit == Creation!Init => CreationInv
<1> SUFFICES ASSUME Creation!Init PROVE CreationInv
  OBVIOUS
<1>1. /\ DOMAIN ui = {"shown", "open", "name", "creating", "failed", "wizard"}
      /\ Creation!WizardHasTenant
  <2>1. ui \in Creation!Mounted
    BY DEF Creation!Init
  <2> QED
    BY <2>1 DEF Creation!Mounted, Creation!WizardHasTenant
<1>2. DOMAIN srv = {"tenants", "running", "broken"}
  <2>1. PICK s \in SUBSET Tenants : srv = [tenants |-> s, running |-> {}, broken |-> {}]
    BY DEF Creation!Init, Creation!Stored
  <2> QED
    BY <2>1
<1>3. net = {[id |-> 1, op |-> "list", key |-> [tenant |-> "none", polls |-> 0]]}
  BY DEF Creation!Init, Creation!Call
<1>4. \A r \in net : CreationIsCall(r) /\ CreationFollowed(r)
  BY <1>3 DEF CreationIsCall, CreationFollowed
<1> QED
  BY <1>1, <1>2, <1>4 DEF CreationInv, CreationShapes

\* A call of a handler that gives way to its next call.
LEMMA CreationNextCall ==
  ASSUME NEW r, CreationIsCall(r), NEW op
  PROVE  /\ CreationIsCall([r EXCEPT !.op = op])
         /\ [r EXCEPT !.op = op].op = op
         /\ [r EXCEPT !.op = op].key = r.key
BY DEF CreationIsCall

\* The same call at its next poll.
LEMMA CreationNextPoll ==
  ASSUME NEW r, CreationIsCall(r)
  PROVE  /\ CreationIsCall([r EXCEPT !.key.polls = @ + 1])
         /\ [r EXCEPT !.key.polls = @ + 1].op = r.op
         /\ [r EXCEPT !.key.polls = @ + 1].key.tenant = r.key.tenant
BY DEF CreationIsCall

\* The calls stay followed when one more is, and the server forgets no tenant.
LEMMA CreationCallsKept ==
  ASSUME CreationInv, NEW q, CreationIsCall(q), CreationFollowed(q)', net' \subseteq net \cup {q},
         srv.tenants \subseteq srv'.tenants,
         srv.running \cup srv.broken \subseteq srv'.running \cup srv'.broken \cup srv'.tenants
  PROVE  \A r \in net' : CreationIsCall(r) /\ CreationFollowed(r)'
BY DEF CreationInv, CreationShapes, CreationFollowed

LEMMA CreationCallsDropped ==
  ASSUME CreationInv, net' \subseteq net,
         srv.tenants \subseteq srv'.tenants,
         srv.running \cup srv.broken \subseteq srv'.running \cup srv'.broken \cup srv'.tenants
  PROVE  \A r \in net' : CreationIsCall(r) /\ CreationFollowed(r)'
BY DEF CreationInv, CreationShapes, CreationFollowed

\* The parts of the invariant make it up after a step.
LEMMA CreationInvAfter ==
  ASSUME DOMAIN ui' = DOMAIN ui, DOMAIN srv' = DOMAIN srv, CreationInv,
         \A r \in net' : CreationIsCall(r) /\ CreationFollowed(r)', Creation!WizardHasTenant'
  PROVE  CreationInv'
BY DEF CreationInv, CreationShapes

\* A step that sends nothing, leaves the server and opens no wizard.
LEMMA CreationQuiet ==
  ASSUME CreationInv, net' \subseteq net, UNCHANGED srv,
         DOMAIN ui' = DOMAIN ui, ui'.wizard \in {ui.wizard, "none"}
  PROVE  CreationInv'
<1>1. Creation!WizardHasTenant'
  BY DEF CreationInv, Creation!WizardHasTenant
<1> QED
  BY <1>1, CreationCallsDropped, CreationInvAfter

\* A step that sends a call and changes neither the server nor the wizard.
LEMMA CreationSends ==
  ASSUME CreationInv, NEW q, CreationIsCall(q), CreationFollowed(q),
         net' \subseteq net \cup {q}, UNCHANGED srv,
         DOMAIN ui' = DOMAIN ui, ui'.wizard = ui.wizard
  PROVE  CreationInv'
<1>1. CreationFollowed(q)'
  BY DEF CreationFollowed
<1>2. Creation!WizardHasTenant'
  BY DEF CreationInv, Creation!WizardHasTenant
<1> QED
  BY <1>1, <1>2, CreationCallsKept, CreationInvAfter

\* The events of the page that call nothing, and the answers that end a call.
LEMMA CreationPageSteps ==
  ASSUME CreationInv,
         \/ Creation!Listed \/ Creation!ToggleDialog \/ Creation!TypeName
         \/ Creation!CallFails \/ Creation!PolledFailure \/ Creation!CloseWizard
  PROVE  CreationInv'
<1> USE DEF CreationInv, CreationShapes
<1>1. CASE Creation!Listed
  BY <1>1, CreationQuiet, Zenon DEF Creation!Listed, Creation!Without
<1>2. CASE Creation!ToggleDialog
  BY <1>2, CreationQuiet DEF Creation!ToggleDialog
<1>3. CASE Creation!TypeName
  BY <1>3, CreationQuiet DEF Creation!TypeName
<1>4. CASE Creation!CallFails
  BY <1>4, CreationQuiet DEF Creation!CallFails, Creation!GivesUp, Creation!Without
<1>5. CASE Creation!PolledFailure
  BY <1>5, CreationQuiet DEF Creation!PolledFailure, Creation!GivesUp, Creation!Without
<1>6. CASE Creation!CloseWizard
  BY <1>6, CreationQuiet DEF Creation!CloseWizard
<1> QED
  BY <1>1, <1>2, <1>3, <1>4, <1>5, <1>6

\* A creation begins with the check of its domain.
LEMMA CreationCreateStep == ASSUME CreationInv, Creation!Create PROVE CreationInv'
<1> USE DEF CreationInv, CreationShapes
<1>1. CASE ui.name = "none"
  BY <1>1, CreationQuiet DEF Creation!Create
<1>2. CASE ui.name # "none"
  <2>1. PICK q : q = [id |-> Creation!Fresh, op |-> "check", key |-> [tenant |-> ui.name, polls |-> 0]]
    OBVIOUS
  <2>2. CreationIsCall(q) /\ CreationFollowed(q)
    BY <2>1 DEF CreationIsCall, CreationFollowed
  <2>3. net' = net \cup {q} /\ UNCHANGED srv
    BY <1>2, <2>1 DEF Creation!Create, Creation!Sent, Creation!Call
  <2>4. DOMAIN ui' = DOMAIN ui /\ ui'.wizard = ui.wizard
    BY <1>2, Zenon DEF Creation!Create
  <2> QED
    BY <2>2, <2>3, <2>4, CreationSends
<1> QED
  BY <1>1, <1>2

\* A free domain leads to the call that creates the tenant.
LEMMA CreationCheckedStep == ASSUME CreationInv, Creation!DomainChecked PROVE CreationInv'
<1> USE DEF CreationInv, CreationShapes
<1>1. PICK r \in Creation!Pending("check") :
        IF r.key.tenant \in srv.tenants THEN Creation!GivesUp(r)
        ELSE net' = Creation!Continue(r, "create") /\ UNCHANGED <<ui, srv>>
  BY DEF Creation!DomainChecked
<1>2. CASE Creation!GivesUp(r)
  BY <1>2, CreationQuiet DEF Creation!GivesUp, Creation!Without
<1>3. CASE net' = Creation!Continue(r, "create") /\ UNCHANGED <<ui, srv>>
  <2>1. PICK q : q = [r EXCEPT !.op = "create"]
    OBVIOUS
  <2>2. r \in net
    BY DEF Creation!Pending
  <2>3. CreationIsCall(q) /\ CreationFollowed(q)
    BY <2>1, <2>2, CreationNextCall DEF CreationFollowed
  <2>4. net' \subseteq net \cup {q}
    BY <1>3, <2>1 DEF Creation!Continue, Creation!Without
  <2> QED
    BY <1>3, <2>3, <2>4, CreationSends
<1> QED
  BY <1>1, <1>2, <1>3

\* From here on the tenant of the call is followed.
LEMMA CreationAcceptedStep == ASSUME CreationInv, Creation!TaskAccepted PROVE CreationInv'
<1> USE DEF CreationInv, CreationShapes
<1>1. PICK r \in Creation!Pending("create") :
        /\ srv' = [srv EXCEPT !.running = @ \cup {r.key.tenant}, !.broken = @ \ {r.key.tenant}]
        /\ net' = Creation!Continue(r, "poll")
        /\ UNCHANGED ui
  BY Zenon DEF Creation!TaskAccepted
<1>2. PICK q : q = [r EXCEPT !.op = "poll"]
  OBVIOUS
<1>3. /\ DOMAIN srv' = DOMAIN srv
      /\ srv'.tenants = srv.tenants
      /\ srv'.running = srv.running \cup {r.key.tenant}
      /\ srv'.broken = srv.broken \ {r.key.tenant}
  BY <1>1
<1>4. CreationIsCall(q) /\ q.op = "poll" /\ q.key = r.key
  BY <1>1, <1>2, CreationNextCall DEF Creation!Pending
<1>5. CreationFollowed(q)'
  BY <1>3, <1>4 DEF CreationFollowed
<1>6. net' \subseteq net \cup {q}
  BY <1>1, <1>2 DEF Creation!Continue, Creation!Without
<1>7. \A c \in net' : CreationIsCall(c) /\ CreationFollowed(c)'
  BY <1>3, <1>4, <1>5, <1>6, CreationCallsKept
<1>8. Creation!WizardHasTenant'
  BY <1>1, <1>3 DEF Creation!WizardHasTenant
<1> QED
  BY <1>1, <1>3, <1>7, <1>8, CreationInvAfter

\* A task that ends stays accounted for, with a tenant or without.
LEMMA CreationEndsStep == ASSUME CreationInv, Creation!TaskEnds PROVE CreationInv'
<1> USE DEF CreationInv, CreationShapes
<1>1. PICK t \in srv.running, ok \in BOOLEAN :
        srv' = [running |-> srv.running \ {t},
                tenants |-> IF ok THEN srv.tenants \cup {t} ELSE srv.tenants,
                broken |-> IF ok THEN srv.broken ELSE srv.broken \cup {t}]
  BY Zenon DEF Creation!TaskEnds
<1>2. DOMAIN srv' = DOMAIN srv
  BY <1>1
<1>3. /\ srv.tenants \subseteq srv'.tenants
      /\ srv.running \cup srv.broken \subseteq srv'.running \cup srv'.broken \cup srv'.tenants
  BY <1>1
<1>4. UNCHANGED <<ui, net>>
  BY DEF Creation!TaskEnds
<1>5. \A c \in net' : CreationIsCall(c) /\ CreationFollowed(c)'
  BY <1>3, <1>4, CreationCallsDropped
<1>6. Creation!WizardHasTenant'
  BY <1>3, <1>4 DEF Creation!WizardHasTenant
<1> QED
  BY <1>2, <1>4, <1>5, <1>6, CreationInvAfter

\* The tenant was followed and is neither being made nor given up: it exists.
LEMMA CreationSuccessStep == ASSUME CreationInv, Creation!PolledSuccess PROVE CreationInv'
<1> USE DEF CreationInv, CreationShapes
<1>1. PICK r \in Creation!Pending("poll") :
        /\ r.key.tenant \notin srv.running \cup srv.broken
        /\ ui' = [ui EXCEPT !.failed = FALSE]
        /\ net' = Creation!Continue(r, "reload")
        /\ UNCHANGED srv
  BY DEF Creation!PolledSuccess
<1>2. r \in net /\ r.key.tenant \in srv.tenants
  BY <1>1 DEF Creation!Pending, CreationFollowed
<1>3. PICK q : q = [r EXCEPT !.op = "reload"]
  OBVIOUS
<1>4. CreationIsCall(q) /\ CreationFollowed(q)
  BY <1>2, <1>3, CreationNextCall DEF CreationFollowed
<1>5. net' \subseteq net \cup {q}
  BY <1>1, <1>3 DEF Creation!Continue, Creation!Without
<1>6. DOMAIN ui' = DOMAIN ui /\ ui'.wizard = ui.wizard
  BY <1>1
<1> QED
  BY <1>1, <1>4, <1>5, <1>6, CreationSends

\* A poll that is not answered leads to the next or to giving up.
LEMMA CreationOtherStep == ASSUME CreationInv, Creation!PolledOther PROVE CreationInv'
<1> USE DEF CreationInv, CreationShapes
<1>1. PICK r \in Creation!Pending("poll") :
        \/ /\ net' = Creation!Without(r) \cup {[r EXCEPT !.key.polls = @ + 1]}
           /\ UNCHANGED <<ui, srv>>
        \/ Creation!GivesUp(r)
  BY DEF Creation!PolledOther
<1>2. CASE Creation!GivesUp(r)
  BY <1>2, CreationQuiet DEF Creation!GivesUp, Creation!Without
<1>3. CASE net' = Creation!Without(r) \cup {[r EXCEPT !.key.polls = @ + 1]} /\ UNCHANGED <<ui, srv>>
  <2>1. PICK q : q = [r EXCEPT !.key.polls = @ + 1]
    OBVIOUS
  <2>2. r \in net /\ CreationFollowed(r)
    BY DEF Creation!Pending
  <2>3. CreationIsCall(q) /\ CreationFollowed(q)
    BY <2>1, <2>2, CreationNextPoll DEF CreationFollowed
  <2>4. net' \subseteq net \cup {q}
    BY <1>3, <2>1 DEF Creation!Without
  <2> QED
    BY <1>3, <2>3, <2>4, CreationSends
<1> QED
  BY <1>1, <1>2, <1>3

\* The wizard opens for the tenant of the call, which exists.
LEMMA CreationReloadedStep == ASSUME CreationInv, Creation!Reloaded PROVE CreationInv'
<1> USE DEF CreationInv, CreationShapes
<1>1. PICK r \in Creation!Pending("reload"), ok \in BOOLEAN :
        /\ ui' = [ui EXCEPT !.shown = IF ok THEN srv.tenants ELSE @, !.failed = ~ok,
                            !.open = FALSE, !.creating = FALSE, !.wizard = r.key.tenant]
        /\ net' = Creation!Without(r)
        /\ UNCHANGED srv
  BY Zenon DEF Creation!Reloaded
<1>2. r.key.tenant \in srv.tenants
  BY DEF Creation!Pending, CreationFollowed
<1>3. DOMAIN ui' = DOMAIN ui /\ ui'.wizard = r.key.tenant
  BY <1>1
<1>4. Creation!WizardHasTenant'
  BY <1>1, <1>2, <1>3 DEF Creation!WizardHasTenant
<1>5. \A c \in net' : CreationIsCall(c) /\ CreationFollowed(c)'
  BY <1>1, CreationCallsDropped DEF Creation!Without
<1> QED
  BY <1>1, <1>3, <1>4, <1>5, CreationInvAfter

\* Every step of the view.
LEMMA CreationStep == ASSUME CreationInv, Creation!Next PROVE CreationInv'
BY CreationPageSteps, CreationCreateStep, CreationCheckedStep, CreationAcceptedStep,
   CreationEndsStep, CreationSuccessStep, CreationOtherStep, CreationReloadedStep
   DEF Creation!Next

LEMMA CreationStays == ASSUME CreationInv, UNCHANGED vars PROVE CreationInv'
BY DEF vars, CreationInv, CreationShapes, CreationFollowed, Creation!WizardHasTenant

\* TabTenant.tsx opens the onboarding only for a tenant that the server has,
\* however the polls, the task and other creations of the name come in between.
THEOREM WizardAlwaysHasTenant ==
  Creation!Init /\ [][Creation!Next]_vars => []Creation!WizardHasTenant
<1>1. CreationInv => Creation!WizardHasTenant
  BY DEF CreationInv
<1>2. CreationInv /\ [Creation!Next]_vars => CreationInv'
  BY CreationStep, CreationStays
<1> QED
  BY <1>1, <1>2, CreationInit, PTL

\* The calls of a creation, one of which is awaited while the button is disabled.
CreationCall(r) == r.op \in {"check", "create", "poll", "reload"}
CreationFields == {"shown", "open", "name", "creating", "failed", "wizard"}

CreationWaits(u, N) ==
  /\ DOMAIN u = CreationFields
  /\ \A r \in N : CreationIsCall(r)
  /\ u.creating <=> \E r \in N : CreationCall(r)
  /\ \A r, x \in N : CreationCall(r) /\ CreationCall(x) => r = x

CreationBusy == CreationWaits(ui, net)

\* Nothing is created before the user asks.
LEMMA CreationBusyInit == Creation!Init => CreationBusy
<1> SUFFICES ASSUME Creation!Init PROVE CreationBusy
  OBVIOUS
<1>1. ui \in Creation!Mounted
  BY DEF Creation!Init
<1>2. DOMAIN ui = CreationFields /\ ui.creating = FALSE
  BY <1>1 DEF Creation!Mounted, CreationFields
<1>3. PICK n : n = [id |-> 1, op |-> "list", key |-> [tenant |-> "none", polls |-> 0]]
  OBVIOUS
<1>4. net = {n} /\ CreationIsCall(n) /\ ~CreationCall(n)
  BY <1>3 DEF Creation!Init, Creation!Call, CreationIsCall, CreationCall
<1> QED
  BY <1>2, <1>4 DEF CreationBusy, CreationWaits

\* The call of the creation gives way to its next one; the button stays disabled.
LEMMA CreationGoesOn ==
  ASSUME CreationBusy, NEW r \in net, CreationCall(r), NEW q, CreationCall(q),
         CreationIsCall(q), net' = (net \ {r}) \cup {q},
         DOMAIN ui' = CreationFields, ui'.creating = ui.creating
  PROVE  CreationBusy'
<1>1. PICK v, u : v = ui' /\ u = ui
  OBVIOUS
<1>2. CreationWaits(u, net) /\ DOMAIN v = CreationFields /\ v.creating = u.creating
  BY <1>1 DEF CreationBusy
<1>3. \A x \in net' : CreationCall(x) => x = q
  BY <1>2 DEF CreationWaits
<1> QED
  BY <1>1, <1>2, <1>3 DEF CreationBusy, CreationWaits

\* The creation ends, with its only call.
LEMMA CreationIsOver ==
  ASSUME CreationBusy, NEW r \in net, CreationCall(r), net' = net \ {r},
         DOMAIN ui' = CreationFields, ui'.creating = FALSE
  PROVE  CreationBusy'
<1>1. PICK v, u : v = ui' /\ u = ui
  OBVIOUS
<1>2. CreationWaits(u, net) /\ DOMAIN v = CreationFields /\ v.creating = FALSE
  BY <1>1 DEF CreationBusy
<1> QED
  BY <1>1, <1>2 DEF CreationBusy, CreationWaits

LEMMA CreationGivesUp ==
  ASSUME CreationBusy, NEW r \in net, CreationCall(r), Creation!GivesUp(r)
  PROVE  CreationBusy'
<1>1. ui' = [ui EXCEPT !.creating = FALSE, !.failed = TRUE] /\ net' = net \ {r}
  BY DEF Creation!GivesUp, Creation!Without
<1>2. DOMAIN ui' = CreationFields /\ ui'.creating = FALSE
  BY <1>1 DEF CreationBusy, CreationWaits, CreationFields
<1> QED
  BY <1>1, <1>2, CreationIsOver

\* What touches no call of a creation.
LEMMA CreationIdles ==
  ASSUME CreationBusy,
         \/ Creation!Listed \/ Creation!ToggleDialog \/ Creation!TypeName
         \/ Creation!TaskEnds \/ Creation!CloseWizard
  PROVE  CreationBusy'
<1>1. PICK v, u : v = ui' /\ u = ui
  OBVIOUS
<1>2. CreationWaits(u, net) /\ DOMAIN u = CreationFields
  BY <1>1 DEF CreationBusy, CreationWaits
<1>3. CASE Creation!Listed
  <2>1. PICK r \in Creation!Pending("list"), ok \in BOOLEAN :
          /\ ui' = [ui EXCEPT !.shown = IF ok THEN srv.tenants ELSE @, !.failed = @ \/ ~ok]
          /\ net' = Creation!Without(r)
    BY <1>3, Zenon DEF Creation!Listed
  <2>2. r \in net /\ ~CreationCall(r) /\ net' = net \ {r}
    BY <2>1 DEF Creation!Pending, Creation!Without, CreationCall
  <2>3. DOMAIN v = CreationFields /\ v.creating = u.creating
    BY <1>1, <1>2, <2>1 DEF CreationFields
  <2> QED
    BY <1>1, <1>2, <2>2, <2>3 DEF CreationBusy, CreationWaits
<1>4. CASE Creation!ToggleDialog \/ Creation!TypeName \/ Creation!TaskEnds \/ Creation!CloseWizard
  <2>1. net' = net
    BY <1>4
       DEF Creation!ToggleDialog, Creation!TypeName, Creation!TaskEnds, Creation!CloseWizard
  <2>2. DOMAIN v = CreationFields /\ v.creating = u.creating
    <3>1. CASE Creation!ToggleDialog
      BY <1>1, <1>2, <3>1 DEF Creation!ToggleDialog, CreationFields
    <3>2. CASE Creation!TypeName
      BY <1>1, <1>2, <3>2 DEF Creation!TypeName, CreationFields
    <3>3. CASE Creation!TaskEnds
      BY <1>1, <1>2, <3>3 DEF Creation!TaskEnds
    <3>4. CASE Creation!CloseWizard
      BY <1>1, <1>2, <3>4 DEF Creation!CloseWizard, CreationFields
    <3> QED
      BY <1>4, <3>1, <3>2, <3>3, <3>4
  <2> QED
    BY <1>1, <1>2, <2>1, <2>2 DEF CreationBusy, CreationWaits
<1> QED
  BY <1>3, <1>4

\* A creation begins only while none is followed.
LEMMA CreationBegins == ASSUME CreationBusy, Creation!Create PROVE CreationBusy'
<1>1. PICK v, u : v = ui' /\ u = ui
  OBVIOUS
<1>2. CreationWaits(u, net) /\ DOMAIN u = CreationFields /\ ~u.creating
  BY <1>1 DEF CreationBusy, CreationWaits, Creation!Create
<1>3. CASE u.name = "none"
  <2>1. v = [u EXCEPT !.failed = TRUE] /\ net' = net
    BY <1>1, <1>3 DEF Creation!Create
  <2>2. DOMAIN v = CreationFields /\ v.creating = u.creating
    BY <1>2, <2>1 DEF CreationFields
  <2> QED
    BY <1>1, <1>2, <2>1, <2>2 DEF CreationBusy, CreationWaits
<1>4. CASE u.name # "none"
  <2>1. PICK q : q = [id |-> Creation!Fresh, op |-> "check", key |-> [tenant |-> u.name, polls |-> 0]]
    OBVIOUS
  <2>2. CreationIsCall(q) /\ CreationCall(q)
    BY <2>1 DEF CreationIsCall, CreationCall
  <2>3. v = [u EXCEPT !.creating = TRUE, !.failed = FALSE] /\ net' = net \cup {q}
    BY <1>1, <1>4, <2>1 DEF Creation!Create, Creation!Sent, Creation!Call
  <2>4. DOMAIN v = CreationFields /\ v.creating = TRUE
    BY <1>2, <2>3 DEF CreationFields
  <2>5. \A x \in net' : CreationCall(x) => x = q
    BY <1>2, <2>3 DEF CreationWaits
  <2> QED
    BY <1>1, <1>2, <2>2, <2>3, <2>4, <2>5 DEF CreationBusy, CreationWaits
<1> QED
  BY <1>3, <1>4

\* The answers that lead to the next call of the handler, or end it.
LEMMA CreationAnswered ==
  ASSUME CreationBusy,
         \/ Creation!DomainChecked \/ Creation!TaskAccepted
         \/ Creation!PolledSuccess \/ Creation!PolledOther
  PROVE  CreationBusy'
<1>1. \A r \in net : CreationIsCall(r)
  BY DEF CreationBusy, CreationWaits
<1>2. DOMAIN ui = CreationFields
  BY DEF CreationBusy, CreationWaits
<1>3. CASE Creation!DomainChecked
  <2>1. PICK r \in Creation!Pending("check") :
          IF r.key.tenant \in srv.tenants THEN Creation!GivesUp(r)
          ELSE net' = Creation!Continue(r, "create") /\ UNCHANGED <<ui, srv>>
    BY <1>3 DEF Creation!DomainChecked
  <2>2. r \in net /\ CreationCall(r)
    BY DEF Creation!Pending, CreationCall
  <2>3. CASE Creation!GivesUp(r)
    BY <2>2, <2>3, CreationGivesUp
  <2>4. CASE net' = Creation!Continue(r, "create") /\ UNCHANGED <<ui, srv>>
    <3>1. PICK q : q = [r EXCEPT !.op = "create"]
      OBVIOUS
    <3>2. CreationIsCall(q) /\ CreationCall(q)
      BY <1>1, <2>2, <3>1, CreationNextCall DEF CreationCall
    <3>3. net' = (net \ {r}) \cup {q} /\ ui' = ui
      BY <2>4, <3>1 DEF Creation!Continue, Creation!Without
    <3> QED
      BY <1>2, <2>2, <3>2, <3>3, CreationGoesOn
  <2> QED
    BY <2>1, <2>3, <2>4
<1>4. CASE Creation!TaskAccepted
  <2>1. PICK r \in Creation!Pending("create") :
          net' = Creation!Continue(r, "poll") /\ UNCHANGED ui
    BY <1>4, Zenon DEF Creation!TaskAccepted
  <2>2. r \in net /\ CreationCall(r)
    BY DEF Creation!Pending, CreationCall
  <2>3. PICK q : q = [r EXCEPT !.op = "poll"]
    OBVIOUS
  <2>4. CreationIsCall(q) /\ CreationCall(q)
    BY <1>1, <2>2, <2>3, CreationNextCall DEF CreationCall
  <2>5. net' = (net \ {r}) \cup {q} /\ ui' = ui
    BY <2>1, <2>3 DEF Creation!Continue, Creation!Without
  <2> QED
    BY <1>2, <2>2, <2>4, <2>5, CreationGoesOn
<1>5. CASE Creation!PolledSuccess
  <2>1. PICK r \in Creation!Pending("poll") :
          /\ ui' = [ui EXCEPT !.failed = FALSE]
          /\ net' = Creation!Continue(r, "reload")
    BY <1>5 DEF Creation!PolledSuccess
  <2>2. r \in net /\ CreationCall(r)
    BY DEF Creation!Pending, CreationCall
  <2>3. PICK q : q = [r EXCEPT !.op = "reload"]
    OBVIOUS
  <2>4. CreationIsCall(q) /\ CreationCall(q)
    BY <1>1, <2>2, <2>3, CreationNextCall DEF CreationCall
  <2>5. net' = (net \ {r}) \cup {q}
    BY <2>1, <2>3 DEF Creation!Continue, Creation!Without
  <2>6. DOMAIN ui' = CreationFields /\ ui'.creating = ui.creating
    BY <1>2, <2>1 DEF CreationFields
  <2> QED
    BY <2>2, <2>4, <2>5, <2>6, CreationGoesOn
<1>6. CASE Creation!PolledOther
  <2>1. PICK r \in Creation!Pending("poll") :
          \/ /\ net' = Creation!Without(r) \cup {[r EXCEPT !.key.polls = @ + 1]}
             /\ UNCHANGED <<ui, srv>>
          \/ Creation!GivesUp(r)
    BY <1>6 DEF Creation!PolledOther
  <2>2. r \in net /\ r.op = "poll" /\ CreationCall(r)
    BY DEF Creation!Pending, CreationCall
  <2>3. CASE Creation!GivesUp(r)
    BY <2>2, <2>3, CreationGivesUp
  <2>4. CASE /\ net' = Creation!Without(r) \cup {[r EXCEPT !.key.polls = @ + 1]}
             /\ UNCHANGED <<ui, srv>>
    <3>1. PICK q : q = [r EXCEPT !.key.polls = @ + 1]
      OBVIOUS
    <3>2. CreationIsCall(q) /\ CreationCall(q)
      BY <1>1, <2>2, <3>1, CreationNextPoll, Zenon DEF CreationCall
    <3>3. net' = (net \ {r}) \cup {q} /\ ui' = ui
      BY <2>4, <3>1 DEF Creation!Without
    <3> QED
      BY <1>2, <2>2, <3>2, <3>3, CreationGoesOn
  <2> QED
    BY <2>1, <2>3, <2>4
<1> QED
  BY <1>3, <1>4, <1>5, <1>6

\* The answers after which the button is free again.
LEMMA CreationEnds ==
  ASSUME CreationBusy, Creation!PolledFailure \/ Creation!CallFails \/ Creation!Reloaded
  PROVE  CreationBusy'
<1>1. CASE Creation!PolledFailure
  <2>1. PICK r \in Creation!Pending("poll") : Creation!GivesUp(r)
    BY <1>1 DEF Creation!PolledFailure
  <2>2. r \in net /\ CreationCall(r)
    BY DEF Creation!Pending, CreationCall
  <2> QED
    BY <2>1, <2>2, CreationGivesUp
<1>2. CASE Creation!CallFails
  <2>1. PICK r \in Creation!Pending("check") \cup Creation!Pending("create")
                     \cup Creation!Pending("poll") : Creation!GivesUp(r)
    BY <1>2 DEF Creation!CallFails
  <2>2. r \in net /\ CreationCall(r)
    BY DEF Creation!Pending, CreationCall
  <2> QED
    BY <2>1, <2>2, CreationGivesUp
<1>3. CASE Creation!Reloaded
  <2>1. PICK r \in Creation!Pending("reload"), ok \in BOOLEAN :
          /\ ui' = [ui EXCEPT !.shown = IF ok THEN srv.tenants ELSE @, !.failed = ~ok,
                              !.open = FALSE, !.creating = FALSE, !.wizard = r.key.tenant]
          /\ net' = Creation!Without(r)
    BY <1>3, Zenon DEF Creation!Reloaded
  <2>2. r \in net /\ CreationCall(r) /\ net' = net \ {r}
    BY <2>1 DEF Creation!Pending, Creation!Without, CreationCall
  <2>3. DOMAIN ui' = CreationFields /\ ui'.creating = FALSE
    BY <2>1 DEF CreationBusy, CreationWaits, CreationFields
  <2> QED
    BY <2>2, <2>3, CreationIsOver, Zenon
<1> QED
  BY <1>1, <1>2, <1>3

\* Every step of the view.
LEMMA CreationBusyStep == ASSUME CreationBusy, Creation!Next PROVE CreationBusy'
BY CreationIdles, CreationBegins, CreationAnswered, CreationEnds DEF Creation!Next

LEMMA CreationBusyStays == ASSUME CreationBusy, UNCHANGED vars PROVE CreationBusy'
BY DEF vars, CreationBusy, CreationWaits

LEMMA CreationBusySays ==
  ASSUME CreationBusy
  PROVE  Creation!BusyIsAwaited /\ Creation!OneWrite
<1>1. \A r : r \in Creation!Creating <=> r \in net /\ CreationCall(r)
  BY DEF Creation!Creating, Creation!Pending, CreationCall
<1>2. Creation!BusyIsAwaited
  BY <1>1 DEF CreationBusy, CreationWaits, Creation!BusyIsAwaited
<1>3. \A r, x \in Creation!Creating : r = x
  BY <1>1 DEF CreationBusy, CreationWaits
<1> QED
  BY <1>2, <1>3, LoneCardinality, Zenon
     DEF Creation!OneWrite, Creation!Cardinality, Cardinality

\* What the page of tenants holds: rows of tenants that exist, a name, three flags;
\* a creation has polled no more than it may.
Polls == 0..MaxPolls
CreationTypes ==
  /\ CreationShapes
  /\ ui.shown \subseteq srv.tenants
  /\ ui.name \in Tenants \cup {"none"}
  /\ ui.open \in BOOLEAN /\ ui.creating \in BOOLEAN /\ ui.failed \in BOOLEAN
  /\ \A r \in net : r.key.polls \in Polls

LEMMA CreationIsTyped == ASSUME CreationTypes PROVE Creation!TypeOK
BY DEF CreationTypes, Polls, Creation!TypeOK

\* Nothing has been polled yet.
LEMMA NoPolls == 0 \in Polls /\ \A k \in Polls : k + 1 < MaxPolls => k + 1 \in Polls
BY FrontendAssumption DEF Creation!TenantAssumption, Polls

LEMMA CreationTypesInit == Creation!Init => CreationTypes
<1> SUFFICES ASSUME Creation!Init PROVE CreationTypes
  OBVIOUS
<1>1. CreationShapes
  BY CreationInit DEF CreationInv
<1>2. ui \in Creation!Mounted
  BY DEF Creation!Init
<1>3. /\ ui.shown = {} /\ ui.name = "none"
      /\ ui.open = FALSE /\ ui.creating = FALSE /\ ui.failed = FALSE
  BY <1>2 DEF Creation!Mounted
<1>4. net = {[id |-> 1, op |-> "list", key |-> [tenant |-> "none", polls |-> 0]]}
  BY DEF Creation!Init, Creation!Call
<1>5. \A r \in net : r.key.polls = 0
  BY <1>4
<1> QED
  BY <1>1, <1>3, <1>5, NoPolls, Zenon DEF CreationTypes

LEMMA CreationTypesStay == ASSUME CreationTypes, UNCHANGED vars PROVE CreationTypes'
BY DEF vars, CreationTypes, CreationShapes

\* A call of the handler gives way to the next one with the same polls.
LEMMA CreationGoesOnTyped ==
  ASSUME CreationTypes, NEW r \in net, NEW op, net' = Creation!Continue(r, op)
  PROVE  \A x \in net' : CreationIsCall(x) /\ x.key.polls \in Polls
<1>1. PICK q : q = [r EXCEPT !.op = op]
  OBVIOUS
<1>2. CreationIsCall(q) /\ q.key = r.key
  BY <1>1, CreationNextCall DEF CreationTypes, CreationShapes
<1>3. net' \subseteq net \cup {q}
  BY <1>1 DEF Creation!Continue, Creation!Without
<1> QED
  BY <1>2, <1>3 DEF CreationTypes, CreationShapes

\* What ends a call keeps the types of the others.
LEMMA CreationEndsTyped ==
  ASSUME CreationTypes, NEW r, net' = Creation!Without(r)
  PROVE  \A x \in net' : CreationIsCall(x) /\ x.key.polls \in Polls
BY DEF CreationTypes, CreationShapes, Creation!Without

LEMMA CreationGivesUpTyped ==
  ASSUME CreationTypes, NEW r, Creation!GivesUp(r)
  PROVE  CreationTypes'
<1>1. \A x \in net' : CreationIsCall(x) /\ x.key.polls \in Polls
  BY CreationEndsTyped DEF Creation!GivesUp
<1>2. /\ DOMAIN ui' = DOMAIN ui /\ ui'.shown = ui.shown /\ ui'.name = ui.name /\ ui'.open = ui.open
      /\ ui'.creating = FALSE /\ ui'.failed = TRUE
  BY DEF Creation!GivesUp, CreationTypes, CreationShapes
<1> QED
  BY <1>1, <1>2 DEF Creation!GivesUp, CreationTypes, CreationShapes

\* The page's own events, and the answers that only end a call.
LEMMA CreationEventsTyped ==
  ASSUME CreationTypes,
         \/ Creation!Listed \/ Creation!ToggleDialog \/ Creation!TypeName
         \/ Creation!Create \/ Creation!CloseWizard
  PROVE  CreationTypes'
<1>1. CASE Creation!Listed
  <2>1. PICK r \in Creation!Pending("list"), ok \in BOOLEAN :
          /\ ui' = [ui EXCEPT !.shown = IF ok THEN srv.tenants ELSE @, !.failed = @ \/ ~ok]
          /\ net' = Creation!Without(r) /\ UNCHANGED srv
    BY <1>1, Zenon DEF Creation!Listed
  <2>2. \A x \in net' : CreationIsCall(x) /\ x.key.polls \in Polls
    BY <2>1, CreationEndsTyped
  <2>3. PICK bad, u : bad = (ui.failed \/ ~ok) /\ u = ui
    OBVIOUS
  <2>4. bad \in BOOLEAN
    BY <2>1, <2>3 DEF CreationTypes
  <2>5. ui' = [u EXCEPT !.shown = IF ok THEN srv.tenants ELSE @, !.failed = bad]
    BY <2>1, <2>3
  <2>6. /\ DOMAIN ui' = DOMAIN ui /\ ui'.shown \in {srv.tenants, ui.shown} /\ ui'.failed = bad
        /\ ui'.name = ui.name /\ ui'.open = ui.open /\ ui'.creating = ui.creating
    BY <2>3, <2>5 DEF CreationTypes, CreationShapes
  <2> QED
    BY <2>1, <2>2, <2>4, <2>6 DEF CreationTypes, CreationShapes
<1>2. CASE Creation!ToggleDialog
  <2>1. ui' = [ui EXCEPT !.open = ~@] /\ UNCHANGED <<net, srv>>
    BY <1>2 DEF Creation!ToggleDialog
  <2> QED
    BY <2>1 DEF CreationTypes, CreationShapes
<1>3. CASE Creation!TypeName
  <2>1. PICK t \in Tenants \cup {"none"} : ui' = [ui EXCEPT !.name = t] /\ UNCHANGED <<net, srv>>
    BY <1>3 DEF Creation!TypeName
  <2> QED
    BY <2>1 DEF CreationTypes, CreationShapes
<1>4. CASE Creation!Create
  <2>1. CASE ui.name = "none"
    <3>1. ui' = [ui EXCEPT !.failed = TRUE] /\ UNCHANGED <<net, srv>>
      BY <1>4, <2>1 DEF Creation!Create
    <3> QED
      BY <3>1 DEF CreationTypes, CreationShapes
  <2>2. CASE ui.name # "none"
    <3>1. PICK q : q = [id |-> Creation!Fresh, op |-> "check", key |-> [tenant |-> ui.name, polls |-> 0]]
      OBVIOUS
    <3>2. CreationIsCall(q) /\ q.key.polls \in Polls
      BY <3>1, NoPolls DEF CreationIsCall
    <3>3. /\ ui' = [ui EXCEPT !.creating = TRUE, !.failed = FALSE]
          /\ net' = net \cup {q} /\ UNCHANGED srv
      BY <1>4, <2>2, <3>1 DEF Creation!Create, Creation!Sent, Creation!Call
    <3>4. /\ DOMAIN ui' = DOMAIN ui /\ ui'.shown = ui.shown /\ ui'.name = ui.name
          /\ ui'.open = ui.open /\ ui'.creating = TRUE /\ ui'.failed = FALSE
      BY <3>3 DEF CreationTypes, CreationShapes
    <3> QED
      BY <3>2, <3>3, <3>4 DEF CreationTypes, CreationShapes
  <2> QED
    BY <2>1, <2>2
<1>5. CASE Creation!CloseWizard
  <2>1. ui' = [ui EXCEPT !.wizard = "none"] /\ UNCHANGED <<net, srv>>
    BY <1>5 DEF Creation!CloseWizard
  <2> QED
    BY <2>1 DEF CreationTypes, CreationShapes
<1> QED
  BY <1>1, <1>2, <1>3, <1>4, <1>5

\* The creation as it is followed.
LEMMA CreationFollowTyped ==
  ASSUME CreationTypes,
         \/ Creation!DomainChecked \/ Creation!TaskAccepted \/ Creation!PolledSuccess
         \/ Creation!PolledFailure \/ Creation!PolledOther \/ Creation!Reloaded
         \/ Creation!CallFails
  PROVE  CreationTypes'
<1>1. CASE Creation!DomainChecked
  <2>1. PICK r \in Creation!Pending("check") :
          IF r.key.tenant \in srv.tenants THEN Creation!GivesUp(r)
          ELSE net' = Creation!Continue(r, "create") /\ UNCHANGED <<ui, srv>>
    BY <1>1 DEF Creation!DomainChecked
  <2>2. r \in net
    BY DEF Creation!Pending
  <2>3. CASE net' = Creation!Continue(r, "create") /\ UNCHANGED <<ui, srv>>
    <3>1. \A x \in net' : CreationIsCall(x) /\ x.key.polls \in Polls
      BY <2>2, <2>3, CreationGoesOnTyped
    <3> QED
      BY <2>3, <3>1 DEF CreationTypes, CreationShapes
  <2> QED
    BY <2>1, <2>3, CreationGivesUpTyped
<1>2. CASE Creation!TaskAccepted
  <2>1. PICK r \in Creation!Pending("create") :
          /\ srv' = [srv EXCEPT !.running = @ \cup {r.key.tenant}, !.broken = @ \ {r.key.tenant}]
          /\ net' = Creation!Continue(r, "poll") /\ UNCHANGED ui
    BY <1>2, Zenon DEF Creation!TaskAccepted
  <2>2. r \in net
    BY DEF Creation!Pending
  <2>3. \A x \in net' : CreationIsCall(x) /\ x.key.polls \in Polls
    BY <2>1, <2>2, CreationGoesOnTyped
  <2>4. DOMAIN srv' = DOMAIN srv /\ srv'.tenants = srv.tenants
    BY <2>1 DEF CreationTypes, CreationShapes
  <2> QED
    BY <2>1, <2>3, <2>4 DEF CreationTypes, CreationShapes
<1>3. CASE Creation!PolledSuccess
  <2>1. PICK r \in Creation!Pending("poll") :
          /\ ui' = [ui EXCEPT !.failed = FALSE]
          /\ net' = Creation!Continue(r, "reload") /\ UNCHANGED srv
    BY <1>3 DEF Creation!PolledSuccess
  <2>2. r \in net
    BY DEF Creation!Pending
  <2>3. \A x \in net' : CreationIsCall(x) /\ x.key.polls \in Polls
    BY <2>1, <2>2, CreationGoesOnTyped
  <2>4. /\ DOMAIN ui' = DOMAIN ui /\ ui'.shown = ui.shown /\ ui'.name = ui.name
        /\ ui'.open = ui.open /\ ui'.creating = ui.creating /\ ui'.failed = FALSE
    BY <2>1 DEF CreationTypes, CreationShapes
  <2> QED
    BY <2>1, <2>3, <2>4 DEF CreationTypes, CreationShapes
<1>4. CASE Creation!PolledFailure
  BY <1>4, CreationGivesUpTyped DEF Creation!PolledFailure
<1>5. CASE Creation!PolledOther
  <2>1. PICK r \in Creation!Pending("poll") :
          IF r.key.polls + 1 < MaxPolls
          THEN /\ net' = Creation!Without(r) \cup {[r EXCEPT !.key.polls = @ + 1]}
               /\ UNCHANGED <<ui, srv>>
          ELSE Creation!GivesUp(r)
    BY <1>5 DEF Creation!PolledOther
  <2>2. r \in net /\ CreationIsCall(r) /\ r.key.polls \in Polls
    BY DEF Creation!Pending, CreationTypes, CreationShapes
  <2>3. CASE r.key.polls + 1 < MaxPolls
    <3>1. PICK q : q = [r EXCEPT !.key.polls = @ + 1]
      OBVIOUS
    <3>2. CreationIsCall(q)
      BY <2>2, <3>1, CreationNextPoll, Zenon
    <3>3. q.key.polls = r.key.polls + 1
      BY <2>2, <3>1 DEF CreationIsCall
    <3>4. q.key.polls \in Polls
      BY <2>2, <2>3, <3>3, NoPolls
    <3>5. net' \subseteq net \cup {q} /\ UNCHANGED <<ui, srv>>
      BY <2>1, <2>3, <3>1 DEF Creation!Without
    <3> QED
      BY <3>2, <3>4, <3>5 DEF CreationTypes, CreationShapes
  <2> QED
    BY <2>1, <2>3, CreationGivesUpTyped
<1>6. CASE Creation!Reloaded
  <2>1. PICK r \in Creation!Pending("reload"), ok \in BOOLEAN :
          /\ ui' = [ui EXCEPT !.shown = IF ok THEN srv.tenants ELSE @, !.failed = ~ok,
                              !.open = FALSE, !.creating = FALSE, !.wizard = r.key.tenant]
          /\ net' = Creation!Without(r) /\ UNCHANGED srv
    BY <1>6, Zenon DEF Creation!Reloaded
  <2>2. \A x \in net' : CreationIsCall(x) /\ x.key.polls \in Polls
    BY <2>1, CreationEndsTyped
  <2>3. PICK bad, u : bad = (~ok) /\ u = ui
    OBVIOUS
  <2>4. ui' = [u EXCEPT !.shown = IF ok THEN srv.tenants ELSE @, !.failed = bad,
                        !.open = FALSE, !.creating = FALSE, !.wizard = r.key.tenant]
    BY <2>1, <2>3
  <2>5. /\ DOMAIN ui' = DOMAIN ui /\ ui'.shown \in {srv.tenants, ui.shown} /\ ui'.failed = bad
        /\ ui'.name = ui.name /\ ui'.open = FALSE /\ ui'.creating = FALSE
    BY <2>3, <2>4 DEF CreationTypes, CreationShapes
  <2>6. bad \in BOOLEAN
    BY <2>1, <2>3
  <2> QED
    BY <2>1, <2>2, <2>5, <2>6 DEF CreationTypes, CreationShapes
<1>7. CASE Creation!CallFails
  BY <1>7, CreationGivesUpTyped DEF Creation!CallFails
<1> QED
  BY <1>1, <1>2, <1>3, <1>4, <1>5, <1>6, <1>7

\* The task that ends takes no tenant away.
LEMMA CreationTaskTyped == ASSUME CreationTypes, Creation!TaskEnds PROVE CreationTypes'
<1>1. PICK t \in srv.running, ok \in BOOLEAN :
        srv' = [running |-> srv.running \ {t},
                tenants |-> IF ok THEN srv.tenants \cup {t} ELSE srv.tenants,
                broken |-> IF ok THEN srv.broken ELSE srv.broken \cup {t}]
  BY Zenon DEF Creation!TaskEnds
<1>2. DOMAIN srv' = {"tenants", "running", "broken"} /\ srv.tenants \subseteq srv'.tenants
  BY <1>1
<1>3. UNCHANGED <<ui, net>>
  BY DEF Creation!TaskEnds
<1> QED
  BY <1>2, <1>3 DEF CreationTypes, CreationShapes

LEMMA CreationTypesStep == ASSUME CreationTypes, Creation!Next PROVE CreationTypes'
BY CreationEventsTyped, CreationFollowTyped, CreationTaskTyped DEF Creation!Next

\* A view is known by its name, and its steps leave it mounted.
LEMMA StepOfView ==
  ASSUME Next
  PROVE  /\ view' = view
         /\ view = Alarms!Name => Alarms!Next
         /\ view = Fields!Name => Fields!Next
         /\ view = Export!Name => Export!Next
         /\ view = Detail!Name => Detail!Next
         /\ view = Board!Name => Board!Next
         /\ view = Recent!Name => Recent!Next
         /\ view = Period!Name => Period!Next
         /\ view = OfCustomer!Name => OfCustomer!Next
         /\ view = CustFields!Name => CustFields!Next
         /\ view = Search!Name => Search!Next
         /\ view = Saved!Name => Saved!Next
         /\ view = Settings!Name => Settings!Next
         /\ view = SourceForm!Name => SourceForm!Next
         /\ view = ParserForm!Name => ParserForm!Next
         /\ view = Parser!Name => Parser!Next
         /\ view = Cases!Name => Cases!Next
         /\ view = Manage!Name => Manage!Next
         /\ view = Admin!Name => Admin!Next
         /\ view = Panel!Name => Panel!Next
         /\ view = Members!Name => Members!Next
         /\ view = Creation!Name => Creation!Next
         /\ view = Wizard!Name => Wizard!Next
         /\ view = Centre!Name => Centre!Next
         /\ view = Choice!Name => Choice!Next
         /\ view = Route!Name => Route!Next
BY DEF
  Next, Alarms!Next, Fields!Next, Export!Next, Detail!Next, Board!Next, Recent!Next,
  Period!Next, OfCustomer!Next, CustFields!Next, Search!Next, Saved!Next,
  Settings!Next, SourceForm!Next, ParserForm!Next, Parser!Next, Cases!Next,
  Manage!Next, Admin!Next, Panel!Next, Members!Next, Creation!Next, Wizard!Next,
  Centre!Next, Choice!Next, Route!Next, Alarms!Name, Fields!Name, Export!Name,
  Detail!Name, Board!Name, Recent!Name, Period!Name, OfCustomer!Name, CustFields!Name,
  Search!Name, Saved!Name, Settings!Name, SourceForm!Name, ParserForm!Name,
  Parser!Name, Cases!Name, Manage!Name, Admin!Name, Panel!Name, Members!Name,
  Creation!Name, Wizard!Name, Centre!Name, Choice!Name, Route!Name

\* The initial states of the views differ in the view they name.
LEMMA InitOfView ==
  ASSUME Init
  PROVE  /\ view = Alarms!Name => Alarms!Init
         /\ view = Fields!Name => Fields!Init
         /\ view = Export!Name => Export!Init
         /\ view = Detail!Name => Detail!Init
         /\ view = Board!Name => Board!Init
         /\ view = Recent!Name => Recent!Init
         /\ view = Period!Name => Period!Init
         /\ view = OfCustomer!Name => OfCustomer!Init
         /\ view = CustFields!Name => CustFields!Init
         /\ view = Search!Name => Search!Init
         /\ view = Saved!Name => Saved!Init
         /\ view = Settings!Name => Settings!Init
         /\ view = SourceForm!Name => SourceForm!Init
         /\ view = ParserForm!Name => ParserForm!Init
         /\ view = Parser!Name => Parser!Init
         /\ view = Cases!Name => Cases!Init
         /\ view = Manage!Name => Manage!Init
         /\ view = Admin!Name => Admin!Init
         /\ view = Panel!Name => Panel!Init
         /\ view = Members!Name => Members!Init
         /\ view = Creation!Name => Creation!Init
         /\ view = Wizard!Name => Wizard!Init
         /\ view = Centre!Name => Centre!Init
         /\ view = Choice!Name => Choice!Init
         /\ view = Route!Name => Route!Init
BY DEF
  Init, Alarms!Init, Fields!Init, Export!Init, Detail!Init, Board!Init, Recent!Init,
  Period!Init, OfCustomer!Init, CustFields!Init, Search!Init, Saved!Init,
  Settings!Init, SourceForm!Init, ParserForm!Init, Parser!Init, Cases!Init,
  Manage!Init, Admin!Init, Panel!Init, Members!Init, Creation!Init, Wizard!Init,
  Centre!Init, Choice!Init, Route!Init, Alarms!Name, Fields!Name, Export!Name,
  Detail!Name, Board!Name, Recent!Name, Period!Name, OfCustomer!Name, CustFields!Name,
  Search!Name, Saved!Name, Settings!Name, SourceForm!Name, ParserForm!Name,
  Parser!Name, Cases!Name, Manage!Name, Admin!Name, Panel!Name, Members!Name,
  Creation!Name, Wizard!Name, Centre!Name, Choice!Name, Route!Name, Alarms!Shows,
  Export!Shows, Period!Shows, OfCustomer!Shows, Settings!Shows, Cases!Shows,
  Choice!Shows

-----------------------------------------------------------------------------
(* NotificationCentre: a popup is of an unread notification, and shown once.   *)

CentreFields == {"list", "unread", "popup", "seen", "open", "picker"}

\* What a state u of the centre holds.
CentreHolds(u) ==
  /\ DOMAIN u = CentreFields
  /\ u.list \subseteq Notifications /\ u.unread \subseteq Notifications
  /\ u.seen \subseteq Notifications /\ u.open \in BOOLEAN
  /\ u.popup \in Notifications \cup {"none"} /\ u.picker \in Notifications \cup {"none"}
  /\ u.popup # "none" => u.popup \in u.seen /\ u.popup \in u.unread

\* A call names notifications, or brings them.
CentreCall(r) ==
  /\ DOMAIN r = {"id", "op", "key"} /\ DOMAIN r.key = {"unread", "all"}
  /\ r.key.unread \subseteq Notifications /\ r.key.all \subseteq Notifications

CentreInv ==
  /\ DOMAIN srv = {"unread", "sent"}
  /\ srv.unread \subseteq srv.sent /\ srv.sent \subseteq Notifications
  /\ CentreHolds(ui)
  /\ \A r \in net : CentreCall(r)

LEMMA CentreNew ==
  ASSUME NEW i, NEW op, NEW S \in SUBSET Notifications, NEW T \in SUBSET Notifications
  PROVE  CentreCall([id |-> i, op |-> op, key |-> Centre!About(S, T)])
<1>1. PICK k : k = Centre!About(S, T)
  OBVIOUS
<1>2. DOMAIN k = {"unread", "all"} /\ k.unread = S /\ k.all = T
  BY <1>1 DEF Centre!About
<1>3. PICK n : n = [id |-> i, op |-> op, key |-> k]
  OBVIOUS
<1>4. DOMAIN n = {"id", "op", "key"} /\ n.key = k
  BY <1>3
<1> QED
  BY <1>1, <1>2, <1>3, <1>4 DEF CentreCall

\* A call that becomes another one.
LEMMA CentreChanged ==
  ASSUME NEW r, CentreCall(r), NEW op, NEW S \in SUBSET Notifications, NEW T \in SUBSET Notifications
  PROVE  CentreCall([r EXCEPT !.op = op, !.key = Centre!About(S, T)])
<1>1. PICK k : k = Centre!About(S, T)
  OBVIOUS
<1>2. DOMAIN k = {"unread", "all"} /\ k.unread = S /\ k.all = T
  BY <1>1 DEF Centre!About
<1>3. PICK n : n = [r EXCEPT !.op = op, !.key = k]
  OBVIOUS
<1>4. DOMAIN n = {"id", "op", "key"} /\ n.key = k
  BY <1>3 DEF CentreCall
<1> QED
  BY <1>1, <1>2, <1>3, <1>4 DEF CentreCall

LEMMA CentreInit == Centre!Init => CentreInv
<1> SUFFICES ASSUME Centre!Init PROVE CentreInv
  OBVIOUS
<1>1. PICK s \in SUBSET Notifications :
        ui = [list |-> {}, unread |-> {}, popup |-> "none", seen |-> s, open |-> FALSE,
              picker |-> "none"]
  BY DEF Centre!Init, Centre!Mounted
<1>2. /\ DOMAIN ui = CentreFields /\ ui.list = {} /\ ui.unread = {} /\ ui.popup = "none"
      /\ ui.seen = s /\ ui.open = FALSE /\ ui.picker = "none"
  BY <1>1 DEF CentreFields
<1>3. CentreHolds(ui)
  BY <1>2, Zenon DEF CentreHolds
<1>4. PICK t \in SUBSET Notifications : srv = [unread |-> t, sent |-> t]
  BY DEF Centre!Init, Centre!Stored
<1>5. DOMAIN srv = {"unread", "sent"} /\ srv.unread = t /\ srv.sent = t
  BY <1>4
<1>6. net = {[id |-> 1, op |-> "load", key |-> Centre!About({}, {})]}
  BY DEF Centre!Init, Centre!Nothing
<1> QED
  BY <1>3, <1>5, <1>6, CentreNew, Zenon DEF CentreInv

\* The popup that an answer leaves, or chooses.
LEMMA CentrePopups ==
  ASSUME NEW u, CentreHolds(u), NEW S \in SUBSET Notifications, NEW T \in SUBSET Notifications,
         NEW w \in Centre!Popups([u EXCEPT !.list = T, !.unread = S], S)
  PROVE  CentreHolds(w)
<1>1. PICK x : x = [u EXCEPT !.list = T, !.unread = S]
  OBVIOUS
<1>2. /\ DOMAIN x = CentreFields /\ x.list = T /\ x.unread = S /\ x.popup = u.popup
      /\ x.seen = u.seen /\ x.open = u.open /\ x.picker = u.picker
  BY <1>1 DEF CentreHolds, CentreFields
<1>3. \/ w = x /\ x.popup \in S
      \/ w = [x EXCEPT !.popup = "none"]
      \/ \E n \in S : w = [x EXCEPT !.popup = n, !.seen = @ \cup {n}]
  BY <1>1, Zenon DEF Centre!Popups
<1>4. CASE w = x /\ x.popup \in S
  BY <1>2, <1>4 DEF CentreHolds
<1>5. CASE w = [x EXCEPT !.popup = "none"]
  <2>1. /\ DOMAIN w = CentreFields /\ w.list = T /\ w.unread = S /\ w.popup = "none"
        /\ w.seen = u.seen /\ w.open = u.open /\ w.picker = u.picker
    BY <1>2, <1>5 DEF CentreFields
  <2> QED
    BY <2>1 DEF CentreHolds
<1>6. ASSUME NEW n \in S, w = [x EXCEPT !.popup = n, !.seen = @ \cup {n}] PROVE CentreHolds(w)
  <2>1. /\ DOMAIN w = CentreFields /\ w.list = T /\ w.unread = S /\ w.popup = n
        /\ w.seen = u.seen \cup {n} /\ w.open = u.open /\ w.picker = u.picker
    BY <1>2, <1>6 DEF CentreFields
  <2> QED
    BY <2>1 DEF CentreHolds
<1> QED
  BY <1>3, <1>4, <1>5, <1>6, Zenon

\* The alert is opened, and nothing pops up.
LEMMA CentreLeft == ASSUME NEW u, CentreHolds(u) PROVE CentreHolds(Centre!Left(u))
<1>1. PICK w : w = Centre!Left(u)
  OBVIOUS
<1>2. /\ DOMAIN w = CentreFields /\ w.popup = "none" /\ w.open = FALSE
      /\ w.list = u.list /\ w.unread = u.unread /\ w.seen = u.seen /\ w.picker = u.picker
  BY <1>1 DEF Centre!Left, CentreHolds, CentreFields
<1> QED
  BY <1>1, <1>2, Zenon DEF CentreHolds

\* A step that leaves the server's notifications, and adds at most a call n.
LEMMA CentreQuiet ==
  ASSUME CentreInv, srv' = srv, CentreHolds(ui'), NEW n, net' \subseteq net \cup {n}, CentreCall(n)
  PROVE  CentreInv'
BY DEF CentreInv, CentreHolds, CentreCall

LEMMA CentreSilent ==
  ASSUME CentreInv, srv' = srv, CentreHolds(ui'), net' \subseteq net
  PROVE  CentreInv'
BY DEF CentreInv, CentreHolds, CentreCall

\* A list is read, and shown.
LEMMA CentreLists ==
  ASSUME CentreInv, Centre!ListRead \/ Centre!ListArrives \/ Centre!ListArrivesToOpen
  PROVE  CentreInv'
<1>1. CentreHolds(ui) /\ \A r \in net : CentreCall(r)
  BY DEF CentreInv
<1>2. CASE Centre!ListRead
  <2>1. PICK r, op :
          /\ r \in net
          /\ net' = (net \ {r}) \cup {[r EXCEPT !.op = op, !.key = Centre!About(srv.unread, srv.sent)]}
          /\ ui' = ui /\ srv' = srv
    BY <1>2, Zenon DEF Centre!ListRead, Centre!Pending, Centre!Without
  <2>2. CentreCall([r EXCEPT !.op = op, !.key = Centre!About(srv.unread, srv.sent)])
    BY <1>1, <2>1, CentreChanged, Zenon DEF CentreInv
  <2>3. PICK n : n = [r EXCEPT !.op = op, !.key = Centre!About(srv.unread, srv.sent)]
    OBVIOUS
  <2>4. CentreCall(n) /\ net' \subseteq net \cup {n} /\ srv' = srv /\ CentreHolds(ui')
    BY <1>1, <2>1, <2>2, <2>3
  <2> QED
    BY <2>4, CentreQuiet
<1>3. CASE Centre!ListArrives
  <2>1. PICK r \in net :
          /\ ui' \in Centre!Popups([ui EXCEPT !.list = r.key.all, !.unread = r.key.unread], r.key.unread)
          /\ net' \subseteq net /\ srv' = srv
    BY <1>3, Zenon DEF Centre!ListArrives, Centre!Pending, Centre!Without
  <2>2. r.key.all \subseteq Notifications /\ r.key.unread \subseteq Notifications
    BY <1>1 DEF CentreCall
  <2>3. CentreHolds(ui')
    BY <1>1, <2>1, <2>2, CentrePopups, Zenon
  <2> QED
    BY <2>1, <2>3, CentreSilent
<1>4. CASE Centre!ListArrivesToOpen
  <2>1. PICK r \in net :
          /\ ui' \in {Centre!Left(u) : u \in Centre!Popups(
                        [ui EXCEPT !.list = r.key.all, !.unread = r.key.unread], r.key.unread)}
          /\ net' \subseteq net /\ srv' = srv
    BY <1>4, Zenon DEF Centre!ListArrivesToOpen, Centre!Pending, Centre!Without
  <2>2. r.key.all \subseteq Notifications /\ r.key.unread \subseteq Notifications
    BY <1>1 DEF CentreCall
  <2>3. PICK w \in Centre!Popups([ui EXCEPT !.list = r.key.all, !.unread = r.key.unread], r.key.unread) :
          ui' = Centre!Left(w)
    BY <2>1
  <2>4. CentreHolds(w)
    BY <1>1, <2>2, <2>3, CentrePopups, Zenon
  <2>5. CentreHolds(ui')
    BY <2>3, <2>4, CentreLeft
  <2> QED
    BY <2>1, <2>5, CentreSilent
<1> QED
  BY <1>2, <1>3, <1>4

\* A load or a write fails.
LEMMA CentreFails ==
  ASSUME CentreInv, Centre!LoadFails \/ Centre!WriteFails
  PROVE  CentreInv'
<1>1. CentreHolds(ui)
  BY DEF CentreInv
<1>2. PICK e : e = [ui EXCEPT !.list = {}, !.unread = {}, !.popup = "none"]
  OBVIOUS
<1>3. CentreHolds(e)
  <2>1. /\ DOMAIN e = CentreFields /\ e.list = {} /\ e.unread = {} /\ e.popup = "none"
        /\ e.seen = ui.seen /\ e.open = ui.open /\ e.picker = ui.picker
    BY <1>1, <1>2 DEF CentreHolds, CentreFields
  <2> QED
    BY <1>1, <2>1 DEF CentreHolds
<1>4. ui' \in {e, Centre!Left(e), ui, Centre!Left(ui)}
  BY <1>2 DEF Centre!LoadFails, Centre!WriteFails
<1>5. CentreHolds(ui')
  BY <1>1, <1>3, <1>4, CentreLeft
<1>6. net' \subseteq net /\ srv' = srv
  BY DEF Centre!LoadFails, Centre!WriteFails, Centre!Without
<1> QED
  BY <1>5, <1>6, CentreSilent

\* The drawer, its picker and the popup.
LEMMA CentreShows ==
  ASSUME CentreInv, Centre!ToggleDrawer \/ Centre!PickSnooze \/ Centre!ClosePopup
  PROVE  CentreInv'
<1>1. PICK v, u : v = ui' /\ u = ui
  OBVIOUS
<1>2. CentreHolds(u)
  BY <1>1 DEF CentreInv
<1>3. net' \subseteq net /\ srv' = srv
  BY DEF Centre!ToggleDrawer, Centre!PickSnooze, Centre!ClosePopup
<1>4. CASE Centre!ToggleDrawer
  <2>1. v = [u EXCEPT !.open = ~u.open]
    BY <1>1, <1>2, <1>4 DEF Centre!ToggleDrawer, CentreHolds, CentreFields
  <2>2. /\ DOMAIN v = CentreFields /\ v.open \in BOOLEAN /\ v.popup = u.popup
        /\ v.list = u.list /\ v.unread = u.unread /\ v.seen = u.seen /\ v.picker = u.picker
    BY <1>2, <2>1 DEF CentreHolds, CentreFields
  <2>3. CentreHolds(v)
    BY <1>2, <2>2 DEF CentreHolds
  <2> QED
    BY <1>1, <1>3, <2>3, CentreSilent
<1>5. CASE Centre!PickSnooze
  <2>1. PICK p : p \in u.list \cup {"none"} /\ v = [u EXCEPT !.picker = p]
    <3>1. PICK n \in u.list : v = [u EXCEPT !.picker = IF u.picker = n THEN "none" ELSE n]
      BY <1>1, <1>2, <1>5 DEF Centre!PickSnooze, CentreHolds, CentreFields
    <3> QED
      BY <3>1
  <2>2. /\ DOMAIN v = CentreFields /\ v.open = u.open /\ v.popup = u.popup
        /\ v.list = u.list /\ v.unread = u.unread /\ v.seen = u.seen /\ v.picker = p
    BY <1>2, <2>1 DEF CentreHolds, CentreFields
  <2>3. CentreHolds(v)
    BY <1>2, <2>1, <2>2 DEF CentreHolds
  <2> QED
    BY <1>1, <1>3, <2>3, CentreSilent
<1>6. CASE Centre!ClosePopup
  <2>1. v = [u EXCEPT !.popup = "none"]
    BY <1>1, <1>6 DEF Centre!ClosePopup
  <2>2. /\ DOMAIN v = CentreFields /\ v.open = u.open /\ v.popup = "none"
        /\ v.list = u.list /\ v.unread = u.unread /\ v.seen = u.seen /\ v.picker = u.picker
    BY <1>2, <2>1 DEF CentreHolds, CentreFields
  <2>3. CentreHolds(v)
    BY <1>2, <2>2 DEF CentreHolds
  <2> QED
    BY <1>1, <1>3, <2>3, CentreSilent
<1> QED
  BY <1>4, <1>5, <1>6

\* A call about the notifications S is sent.
LEMMA CentreAsks ==
  ASSUME CentreInv, NEW op, NEW S \in SUBSET Notifications, CentreHolds(ui'), srv' = srv,
         net' = Centre!Sent(op, Centre!About(S, {}))
  PROVE  CentreInv'
<1>1. PICK n : n = [id |-> Centre!Fresh, op |-> op, key |-> Centre!About(S, {})]
  OBVIOUS
<1>2. CentreCall(n) /\ net' \subseteq net \cup {n}
  BY <1>1, CentreNew, Zenon DEF Centre!Sent
<1> QED
  BY <1>2, CentreQuiet

\* A call is sent, about notifications of the list.
LEMMA CentreSends ==
  ASSUME CentreInv,
         \/ Centre!LoadNotifications \/ Centre!Ack \/ Centre!OpenAlert
         \/ Centre!Snooze \/ Centre!OpenPopup
  PROVE  CentreInv'
<1>1. CentreHolds(ui)
  BY DEF CentreInv
<1>2. PICK w, p : /\ w = [ui EXCEPT !.picker = "none"]
                  /\ p = [ui EXCEPT !.popup = "none", !.seen = @ \cup {ui.popup}]
  OBVIOUS
<1>3. CentreHolds(w)
  <2>1. /\ DOMAIN w = CentreFields /\ w.picker = "none" /\ w.popup = ui.popup
        /\ w.list = ui.list /\ w.unread = ui.unread /\ w.seen = ui.seen /\ w.open = ui.open
    BY <1>1, <1>2 DEF CentreHolds, CentreFields
  <2> QED
    BY <1>1, <2>1 DEF CentreHolds
<1>4. ui.popup # "none" => CentreHolds(p)
  <2>1. /\ DOMAIN p = CentreFields /\ p.picker = ui.picker /\ p.popup = "none"
        /\ p.list = ui.list /\ p.unread = ui.unread /\ p.seen = ui.seen \cup {ui.popup}
        /\ p.open = ui.open
    BY <1>1, <1>2 DEF CentreHolds, CentreFields
  <2> QED
    BY <1>1, <2>1 DEF CentreHolds
<1>5. CASE Centre!LoadNotifications
  BY <1>1, <1>5, CentreAsks DEF Centre!LoadNotifications, Centre!Nothing
<1>6. CASE Centre!Ack
  <2>1. PICK S \in {{n} : n \in ui.list} \cup {Notifications} :
          net' = Centre!Sent("ack", Centre!About(S, {})) /\ ui' = ui /\ srv' = srv
    BY <1>6 DEF Centre!Ack
  <2>2. S \in SUBSET Notifications
    BY <1>1, <2>1 DEF CentreHolds
  <2> QED
    BY <1>1, <2>1, <2>2, CentreAsks
<1>7. CASE Centre!OpenAlert
  <2>1. PICK n \in ui.list :
          net' = Centre!Sent("ackToOpen", Centre!About({n}, {})) /\ ui' = ui /\ srv' = srv
    BY <1>7, Zenon DEF Centre!OpenAlert
  <2>2. {n} \in SUBSET Notifications
    BY <1>1, <2>1 DEF CentreHolds
  <2> QED
    BY <1>1, <2>1, <2>2, CentreAsks
<1>8. CASE Centre!Snooze
  <2>1. /\ net' = Centre!Sent("snooze", Centre!About({ui.picker}, {})) /\ ui' = w
        /\ srv' = srv /\ ui.picker # "none"
    BY <1>2, <1>8 DEF Centre!Snooze
  <2>2. {ui.picker} \in SUBSET Notifications
    BY <1>1, <2>1 DEF CentreHolds
  <2> QED
    BY <1>3, <2>1, <2>2, CentreAsks
<1>9. CASE Centre!OpenPopup
  <2>1. /\ net' = Centre!Sent("mark", Centre!About({ui.popup}, {})) /\ ui' = p
        /\ srv' = srv /\ ui.popup # "none"
    BY <1>2, <1>9 DEF Centre!OpenPopup
  <2>2. {ui.popup} \in SUBSET Notifications
    BY <1>1, <2>1 DEF CentreHolds
  <2> QED
    BY <1>4, <2>1, <2>2, CentreAsks
<1> QED
  BY <1>5, <1>6, <1>7, <1>8, <1>9

\* The server notifies, and writes what it was asked to.
LEMMA CentreServer ==
  ASSUME CentreInv, Centre!Notify \/ Centre!Written \/ Centre!Marked
  PROVE  CentreInv'
<1>1. CentreHolds(ui) /\ \A r \in net : CentreCall(r)
  BY DEF CentreInv
<1>2. ui' = ui
  BY Zenon DEF Centre!Notify, Centre!Written, Centre!Marked
<1>3. CASE Centre!Notify
  <2>1. PICK n \in Notifications :
          srv' = [srv EXCEPT !.sent = srv.sent \cup {n}, !.unread = srv.unread \cup {n}] /\ net' = net
    BY <1>3, Zenon DEF Centre!Notify, CentreInv
  <2>2. /\ DOMAIN srv' = {"unread", "sent"} /\ srv'.sent = srv.sent \cup {n}
        /\ srv'.unread = srv.unread \cup {n}
    BY <2>1 DEF CentreInv
  <2> QED
    BY <1>1, <1>2, <2>1, <2>2 DEF CentreInv, CentreHolds, CentreCall
<1>4. CASE Centre!Written
  <2>1. PICK r, op :
          /\ r \in net
          /\ srv' = [srv EXCEPT !.unread = srv.unread \ r.key.unread]
          /\ net' = (net \ {r}) \cup {[r EXCEPT !.op = op, !.key = Centre!About({}, {})]}
    BY <1>4, Zenon
       DEF Centre!Written, Centre!Pending, Centre!Without, Centre!Nothing, CentreInv
  <2>2. /\ DOMAIN srv' = {"unread", "sent"} /\ srv'.sent = srv.sent
        /\ srv'.unread = srv.unread \ r.key.unread
    BY <2>1 DEF CentreInv
  <2>3. CentreCall([r EXCEPT !.op = op, !.key = Centre!About({}, {})])
    BY <1>1, <2>1, CentreChanged, Zenon
  <2>4. \A x \in net' : CentreCall(x)
    BY <1>1, <2>1, <2>3
  <2> QED
    BY <1>1, <1>2, <2>2, <2>4 DEF CentreInv, CentreHolds, CentreCall
<1>5. CASE Centre!Marked
  <2>1. PICK r \in net :
          /\ srv' = srv \/ srv' = [srv EXCEPT !.unread = srv.unread \ r.key.unread]
          /\ net' \subseteq net
    BY <1>5, Zenon DEF Centre!Marked, Centre!Pending, Centre!Without, CentreInv
  <2>2. /\ DOMAIN srv' = {"unread", "sent"} /\ srv'.sent = srv.sent
        /\ srv'.unread \subseteq srv.unread
    BY <2>1 DEF CentreInv
  <2> QED
    BY <1>1, <1>2, <2>1, <2>2 DEF CentreInv, CentreHolds, CentreCall
<1> QED
  BY <1>3, <1>4, <1>5

\* Every step of the centre.
LEMMA CentreStep == ASSUME CentreInv, Centre!Next PROVE CentreInv'
BY CentreLists, CentreFails, CentreShows, CentreSends, CentreServer DEF Centre!Next

LEMMA CentreStays == ASSUME CentreInv, UNCHANGED vars PROVE CentreInv'
BY DEF vars, CentreInv, CentreHolds, CentreCall

\* What the invariant says of the centre.
LEMMA CentreSays == ASSUME CentreInv PROVE Centre!TypeOK /\ Centre!PopupIsShownOnce
BY DEF CentreInv, CentreHolds, Centre!TypeOK, Centre!PopupIsShownOnce

-----------------------------------------------------------------------------
(* CustomerChoice: nobody signed in, nothing chosen and nothing kept.          *)

ChoiceInv ==
  /\ DOMAIN ui = {"user", "customers", "sel", "loading", "error"}
  /\ DOMAIN srv = {"visible", "kept"}
  /\ Choice!SignedOutChoosesNone

\* Nobody is signed in before the choice is mounted.
LEMMA ChoiceInit == Choice!Init => ChoiceInv
<1> SUFFICES ASSUME Choice!Init PROVE ChoiceInv
  OBVIOUS
<1>1. DOMAIN ui = {"user", "customers", "sel", "loading", "error"} /\ ui.sel = "none"
  <2>1. ui \in Choice!Mounted
    BY DEF Choice!Init, Choice!Shows
  <2> QED
    BY <2>1 DEF Choice!Mounted
<1>2. DOMAIN srv = {"visible", "kept"} /\ srv.kept = "none"
  <2>1. PICK v : srv = [visible |-> v, kept |-> "none"]
    BY DEF Choice!Init, Choice!Shows, Choice!Stored
  <2> QED
    BY <2>1
<1> QED
  BY <1>1, <1>2 DEF ChoiceInv, Choice!SignedOutChoosesNone

\* What is kept follows what is chosen, so only the choice has to be looked at.
LEMMA KeepChoice ==
  ASSUME ChoiceInv, NEW u, Choice!Keep(u), DOMAIN u = DOMAIN ui,
         u.user = "none" => u.sel = "none"
  PROVE  ChoiceInv'
<1>1. ui' = u /\ DOMAIN srv' = DOMAIN srv /\ srv'.kept = u.sel
  BY DEF Choice!Keep, ChoiceInv
<1> QED
  BY <1>1 DEF ChoiceInv, Choice!SignedOutChoosesNone

\* Only a signed-in user's load or selection chooses a customer.
LEMMA ChoiceStep == ASSUME ChoiceInv, Choice!Next PROVE ChoiceInv'
<1> USE DEF ChoiceInv, Choice!SignedOutChoosesNone
<1>1. CASE Choice!SignIn
  <2>1. PICK u \in Users : Choice!Keep(Choice!Refreshing([ui EXCEPT !.user = u]))
    BY <1>1 DEF Choice!SignIn
  <2>2. u # "none"
    BY FrontendAssumption DEF Choice!ChoiceAssumption
  <2>3. PICK v : v = Choice!Refreshing([ui EXCEPT !.user = u])
    OBVIOUS
  <2>4. DOMAIN v = DOMAIN ui /\ v.user = u
    BY <2>3 DEF Choice!Refreshing
  <2> QED
    BY <2>1, <2>2, <2>3, <2>4, KeepChoice
<1>2. CASE Choice!SignOut
  <2>1. PICK v : v = [user |-> "none", customers |-> {}, sel |-> "none",
                      loading |-> FALSE, error |-> FALSE]
    OBVIOUS
  <2>2. Choice!Keep(v)
    BY <1>2, <2>1 DEF Choice!SignOut
  <2>3. DOMAIN v = DOMAIN ui /\ v.sel = "none"
    BY <2>1
  <2> QED
    BY <2>2, <2>3, KeepChoice
<1>3. CASE Choice!Refresh
  <2>1. PICK v : v = Choice!Refreshing(ui)
    OBVIOUS
  <2>2. DOMAIN v = DOMAIN ui /\ v.user = ui.user /\ v.sel = ui.sel
    BY <2>1 DEF Choice!Refreshing
  <2> QED
    BY <1>3, <2>1, <2>2, KeepChoice DEF Choice!Refresh
<1>4. CASE Choice!CustomersArrive
  <2>1. PICK r \in Choice!Pending("customers") :
          Choice!Keep([ui EXCEPT !.customers = srv.visible[r.key], !.error = FALSE,
                                 !.loading = FALSE,
                                 !.sel = Choice!Chosen(srv.visible[r.key], @)])
    BY <1>4, Zenon DEF Choice!CustomersArrive
  <2>2. PICK v : v = [ui EXCEPT !.customers = srv.visible[r.key], !.error = FALSE,
                                !.loading = FALSE,
                                !.sel = Choice!Chosen(srv.visible[r.key], @)]
    OBVIOUS
  <2>3. /\ DOMAIN v = DOMAIN ui /\ v.user = ui.user
        /\ v.sel = Choice!Chosen(srv.visible[r.key], ui.sel)
    BY <2>2
  <2>4. v.user = "none" => v.sel = "none"
    BY <2>3 DEF Choice!Chosen
  <2> QED
    BY <2>1, <2>2, <2>3, <2>4, KeepChoice, Zenon
<1>5. CASE Choice!CustomersFail
  <2>1. PICK v : v = [ui EXCEPT !.customers = {}, !.error = TRUE, !.loading = FALSE]
    OBVIOUS
  <2>2. DOMAIN v = DOMAIN ui /\ v.user = ui.user /\ v.sel = ui.sel
    BY <2>1
  <2> QED
    BY <1>5, <2>1, <2>2, KeepChoice, Zenon DEF Choice!CustomersFail
<1>6. CASE Choice!SelectCustomer
  <2>1. PICK c \in Customers \cup {"none"} :
          ui.user # "none" /\ Choice!Keep([ui EXCEPT !.sel = c])
    BY <1>6 DEF Choice!SelectCustomer
  <2>2. PICK v : v = [ui EXCEPT !.sel = c]
    OBVIOUS
  <2>3. DOMAIN v = DOMAIN ui /\ v.user = ui.user
    BY <2>2
  <2> QED
    BY <2>1, <2>2, <2>3, KeepChoice
<1> QED
  BY <1>1, <1>2, <1>3, <1>4, <1>5, <1>6 DEF Choice!Next

\* The header waits only while a list is on its way.
ChoiceFields == {"user", "customers", "sel", "loading", "error"}

ChoiceWaits(u, N) ==
  /\ DOMAIN u = ChoiceFields
  /\ u.loading => \E r \in N : r.op = "customers"

ChoiceBusy == ChoiceWaits(ui, net)

LEMMA ChoiceBusyInit == Choice!Init => ChoiceBusy
<1> SUFFICES ASSUME Choice!Init PROVE ChoiceBusy
  OBVIOUS
<1>1. ui \in Choice!Mounted
  BY DEF Choice!Init, Choice!Shows
<1>2. DOMAIN ui = ChoiceFields /\ ui.loading = FALSE
  BY <1>1 DEF Choice!Mounted, ChoiceFields
<1> QED
  BY <1>2 DEF ChoiceBusy, ChoiceWaits

\* A list that is asked for is awaited; one that arrives or fails ends the wait,
\* though another may still be on its way.
LEMMA ChoiceBusyStep == ASSUME ChoiceBusy, Choice!Next PROVE ChoiceBusy'
<1>1. PICK v, u : v = ui' /\ u = ui
  OBVIOUS
<1>2. ChoiceWaits(u, net) /\ DOMAIN u = ChoiceFields
  BY <1>1 DEF ChoiceBusy, ChoiceWaits
<1>3. CASE Choice!SignIn \/ Choice!Refresh
  <2>1. PICK x, y : v = Choice!Refreshing(x) /\ net' = Choice!Sent("customers", y)
                    /\ DOMAIN x = ChoiceFields
    <3>1. CASE Choice!SignIn
      <4>1. PICK c \in Users : /\ v = Choice!Refreshing([u EXCEPT !.user = c])
                               /\ net' = Choice!Sent("customers", c)
        BY <1>1, <3>1 DEF Choice!SignIn, Choice!Keep
      <4>2. DOMAIN [u EXCEPT !.user = c] = ChoiceFields
        BY <1>2
      <4> QED
        BY <4>1, <4>2
    <3>2. CASE Choice!Refresh
      BY <1>1, <1>2, <3>2 DEF Choice!Refresh, Choice!Keep
    <3> QED
      BY <1>3, <3>1, <3>2
  <2>2. PICK n : n = [id |-> Choice!Fresh, op |-> "customers", key |-> y]
    OBVIOUS
  <2>3. n \in net' /\ n.op = "customers"
    BY <2>1, <2>2 DEF Choice!Sent
  <2>4. DOMAIN v = ChoiceFields
    BY <2>1 DEF Choice!Refreshing
  <2> QED
    BY <1>1, <2>3, <2>4 DEF ChoiceBusy, ChoiceWaits
<1>4. CASE Choice!SignOut
  <2>1. DOMAIN v = ChoiceFields /\ v.loading = FALSE
    BY <1>1, <1>4 DEF Choice!SignOut, Choice!Keep, ChoiceFields
  <2> QED
    BY <1>1, <2>1 DEF ChoiceBusy, ChoiceWaits
<1>5. CASE Choice!CustomersArrive
  <2>1. PICK x, y : v = [u EXCEPT !.customers = x, !.error = FALSE, !.loading = FALSE, !.sel = y]
    BY <1>1, <1>5, Zenon DEF Choice!CustomersArrive, Choice!Keep
  <2>2. DOMAIN v = ChoiceFields /\ v.loading = FALSE
    BY <1>2, <2>1 DEF ChoiceFields
  <2> QED
    BY <1>1, <2>2 DEF ChoiceBusy, ChoiceWaits
<1>6. CASE Choice!CustomersFail
  <2>1. v = [u EXCEPT !.customers = {}, !.error = TRUE, !.loading = FALSE]
    BY <1>1, <1>6 DEF Choice!CustomersFail, Choice!Keep
  <2>2. DOMAIN v = ChoiceFields /\ v.loading = FALSE
    BY <1>2, <2>1 DEF ChoiceFields
  <2> QED
    BY <1>1, <2>2 DEF ChoiceBusy, ChoiceWaits
<1>7. CASE Choice!SelectCustomer
  <2>1. PICK c : v = [u EXCEPT !.sel = c]
    BY <1>1, <1>7, Zenon DEF Choice!SelectCustomer, Choice!Keep
  <2>2. net' = net
    BY <1>7 DEF Choice!SelectCustomer
  <2>3. DOMAIN v = ChoiceFields /\ v.loading = u.loading
    BY <1>2, <2>1 DEF ChoiceFields
  <2> QED
    BY <1>1, <1>2, <2>2, <2>3 DEF ChoiceBusy, ChoiceWaits
<1> QED
  BY <1>3, <1>4, <1>5, <1>6, <1>7 DEF Choice!Next

LEMMA ChoiceBusyStays == ASSUME ChoiceBusy, UNCHANGED vars PROVE ChoiceBusy'
BY DEF vars, ChoiceBusy, ChoiceWaits

LEMMA ChoiceBusySays == ASSUME ChoiceBusy PROVE Choice!BusyIsAwaited
BY DEF ChoiceBusy, ChoiceWaits, Choice!BusyIsAwaited, Choice!Pending

\* The header's user, list and choice; each user sees some of the customers.
ChoiceUiTypes(u) ==
  /\ DOMAIN u = {"user", "customers", "sel", "loading", "error"}
  /\ u.user \in Users \cup {"none"} /\ u.customers \subseteq Customers
  /\ u.sel \in Customers \cup {"none"}
  /\ u.loading \in BOOLEAN /\ u.error \in BOOLEAN
ChoiceTypes ==
  /\ ChoiceUiTypes(ui)
  /\ DOMAIN srv = {"visible", "kept"} /\ srv.visible \in [Users -> SUBSET Customers]
  /\ \A r \in net : r.op = "customers" => r.key \in Users

LEMMA ChoiceIsTyped == ASSUME ChoiceTypes PROVE Choice!TypeOK
BY DEF ChoiceTypes, ChoiceUiTypes, Choice!TypeOK

LEMMA ChoiceTypesInit == Choice!Init => ChoiceTypes
<1> SUFFICES ASSUME Choice!Init PROVE ChoiceTypes
  OBVIOUS
<1>1. ui \in Choice!Mounted
  BY DEF Choice!Init, Choice!Shows
<1>2. ChoiceUiTypes(ui)
  <2>1. /\ DOMAIN ui = {"user", "customers", "sel", "loading", "error"}
        /\ ui.user = "none" /\ ui.customers = {} /\ ui.sel = "none"
        /\ ui.loading = FALSE /\ ui.error = FALSE
    BY <1>1 DEF Choice!Mounted
  <2> QED
    BY <2>1, Zenon DEF ChoiceUiTypes
<1>3. PICK v \in [Users -> SUBSET Customers] : srv = [visible |-> v, kept |-> "none"]
  BY DEF Choice!Init, Choice!Shows, Choice!Stored
<1>4. DOMAIN srv = {"visible", "kept"} /\ srv.visible = v
  BY <1>3
<1>5. net = {}
  BY DEF Choice!Init, Choice!Shows
<1> QED
  BY <1>2, <1>3, <1>4, <1>5 DEF ChoiceTypes

LEMMA ChoiceTypesStay == ASSUME ChoiceTypes, UNCHANGED vars PROVE ChoiceTypes'
BY DEF vars, ChoiceTypes

\* What is kept follows the choice, and no call is of another user than one of them.
LEMMA ChoiceKeepsTypes ==
  ASSUME ChoiceTypes, NEW u, ChoiceUiTypes(u), Choice!Keep(u),
         \A r \in net' : r.op = "customers" => r.key \in Users
  PROVE  ChoiceTypes'
<1>1. ui' = u /\ DOMAIN srv' = DOMAIN srv /\ srv'.visible = srv.visible
  BY DEF Choice!Keep, ChoiceTypes
<1> QED
  BY <1>1 DEF ChoiceTypes

\* A call for the list of one of the users.
LEMMA ChoiceSendsTyped ==
  ASSUME ChoiceTypes, NEW c \in Users, net' = Choice!Sent("customers", c)
  PROVE  \A r \in net' : r.op = "customers" => r.key \in Users
<1>1. PICK q : q = [id |-> Choice!Fresh, op |-> "customers", key |-> c]
  OBVIOUS
<1>2. net' = net \cup {q} /\ q.key = c
  BY <1>1 DEF Choice!Sent
<1> QED
  BY <1>2 DEF ChoiceTypes

LEMMA ChoiceEndsTyped ==
  ASSUME ChoiceTypes, net' \subseteq net
  PROVE  \A r \in net' : r.op = "customers" => r.key \in Users
BY DEF ChoiceTypes

\* Every step: the list that arrives is one that a user sees.
LEMMA ChoiceTypesStep == ASSUME ChoiceTypes, Choice!Next PROVE ChoiceTypes'
<1>1. PICK u : u = ui /\ ChoiceUiTypes(u)
  BY DEF ChoiceTypes
<1>2. CASE Choice!SignIn
  <2>1. PICK c \in Users : /\ Choice!Keep(Choice!Refreshing([u EXCEPT !.user = c]))
                           /\ net' = Choice!Sent("customers", c)
    BY <1>1, <1>2 DEF Choice!SignIn
  <2>2. ChoiceUiTypes(Choice!Refreshing([u EXCEPT !.user = c]))
    BY <1>1 DEF ChoiceUiTypes, Choice!Refreshing
  <2>3. \A r \in net' : r.op = "customers" => r.key \in Users
    BY <2>1, ChoiceSendsTyped
  <2> QED
    BY <2>1, <2>2, <2>3, ChoiceKeepsTypes
<1>3. CASE Choice!SignOut
  <2>1. PICK v : v = [user |-> "none", customers |-> {}, sel |-> "none",
                      loading |-> FALSE, error |-> FALSE]
    OBVIOUS
  <2>2. ChoiceUiTypes(v)
    BY <2>1 DEF ChoiceUiTypes
  <2>3. Choice!Keep(v) /\ net' = net
    BY <1>3, <2>1 DEF Choice!SignOut
  <2>4. \A r \in net' : r.op = "customers" => r.key \in Users
    BY <2>3, ChoiceEndsTyped
  <2> QED
    BY <2>2, <2>3, <2>4, ChoiceKeepsTypes
<1>4. CASE Choice!Refresh
  <2>1. /\ u.user # "none" /\ Choice!Keep(Choice!Refreshing(u))
        /\ net' = Choice!Sent("customers", u.user)
    BY <1>1, <1>4 DEF Choice!Refresh
  <2>2. ChoiceUiTypes(Choice!Refreshing(u))
    BY <1>1 DEF ChoiceUiTypes, Choice!Refreshing
  <2>3. u.user \in Users
    BY <1>1, <2>1 DEF ChoiceUiTypes
  <2>4. \A r \in net' : r.op = "customers" => r.key \in Users
    BY <2>1, <2>3, ChoiceSendsTyped
  <2> QED
    BY <2>1, <2>2, <2>4, ChoiceKeepsTypes
<1>5. CASE Choice!CustomersArrive
  <2>1. PICK r \in Choice!Pending("customers") :
          /\ Choice!Keep([ui EXCEPT !.customers = srv.visible[r.key], !.error = FALSE,
                                    !.loading = FALSE,
                                    !.sel = Choice!Chosen(srv.visible[r.key], @)])
          /\ net' = Choice!Without(r)
    BY <1>5, Zenon DEF Choice!CustomersArrive
  <2>2. PICK data, c : data = srv.visible[r.key] /\ c = Choice!Chosen(data, u.sel)
    OBVIOUS
  <2>3. r.key \in Users
    BY <2>1 DEF Choice!Pending, ChoiceTypes
  <2>4. data \subseteq Customers
    BY <2>2, <2>3 DEF ChoiceTypes
  <2>5. c \in Customers \cup {"none"}
    BY <2>2, <2>4 DEF Choice!Chosen
  <2>6. PICK v : v = [u EXCEPT !.customers = data, !.error = FALSE, !.loading = FALSE, !.sel = c]
    OBVIOUS
  <2>7. ChoiceUiTypes(v)
    BY <1>1, <2>4, <2>5, <2>6 DEF ChoiceUiTypes
  <2>8. Choice!Keep(v)
    BY <1>1, <2>1, <2>2, <2>6
  <2>9. \A x \in net' : x.op = "customers" => x.key \in Users
    BY <2>1, ChoiceEndsTyped DEF Choice!Without
  <2> QED
    BY <2>7, <2>8, <2>9, ChoiceKeepsTypes
<1>6. CASE Choice!CustomersFail
  <2>1. PICK r \in Choice!Pending("customers") :
          /\ Choice!Keep([u EXCEPT !.customers = {}, !.error = TRUE, !.loading = FALSE])
          /\ net' = Choice!Without(r)
    BY <1>1, <1>6 DEF Choice!CustomersFail
  <2>2. ChoiceUiTypes([u EXCEPT !.customers = {}, !.error = TRUE, !.loading = FALSE])
    BY <1>1 DEF ChoiceUiTypes
  <2>3. \A x \in net' : x.op = "customers" => x.key \in Users
    BY <2>1, ChoiceEndsTyped DEF Choice!Without
  <2> QED
    BY <2>1, <2>2, <2>3, ChoiceKeepsTypes
<1>7. CASE Choice!SelectCustomer
  <2>1. PICK c \in Customers \cup {"none"} : Choice!Keep([u EXCEPT !.sel = c]) /\ net' = net
    BY <1>1, <1>7 DEF Choice!SelectCustomer
  <2>2. ChoiceUiTypes([u EXCEPT !.sel = c])
    BY <1>1, <2>1 DEF ChoiceUiTypes
  <2>3. \A x \in net' : x.op = "customers" => x.key \in Users
    BY <2>1, ChoiceEndsTyped
  <2> QED
    BY <2>1, <2>2, <2>3, ChoiceKeepsTypes
<1> QED
  BY <1>2, <1>3, <1>4, <1>5, <1>6, <1>7 DEF Choice!Next

-----------------------------------------------------------------------------
(* Onboarding: every preference on its way to the server, and the one it has,  *)
(* is completed if its step is the last.                                       *)

LastDone(p) == p.step = Wizard!Last => p.completed

WizardInv ==
  /\ DOMAIN ui = {"open", "step", "choice"}
  /\ DOMAIN srv = {"preference"}
  /\ \A r \in net : LastDone(r.key)
  /\ Wizard!LastIsCompleted

\* A preference that was never stored is at its first step.
LEMMA NewIsDone == LastDone(Wizard!New)
BY DEF LastDone, Wizard!New, Wizard!Last

\* Neither stored preference the wizard can meet is at the last step.
LEMMA WizardInit == Wizard!Init => WizardInv
<1> SUFFICES ASSUME Wizard!Init PROVE WizardInv
  OBVIOUS
<1>1. DOMAIN ui = {"open", "step", "choice"}
  BY DEF Wizard!Init, Wizard!Mounted
<1>2. PICK p \in {Wizard!New, [step |-> 1, choice |-> Default, completed |-> FALSE]} :
        srv = [preference |-> p]
  BY DEF Wizard!Init, Wizard!Stored
<1>3. p.step # Wizard!Last
  BY DEF Wizard!New, Wizard!Last
<1>4. DOMAIN srv = {"preference"} /\ Wizard!LastIsCompleted
  BY <1>2, <1>3 DEF Wizard!LastIsCompleted
<1>5. \A r \in net : r.key = Wizard!New
  BY DEF Wizard!Init
<1> QED
  BY <1>1, <1>4, <1>5, NewIsDone DEF WizardInv

\* A step that sends at most one preference and leaves the stored one.
LEMMA SendsDone ==
  ASSUME WizardInv, NEW p, LastDone(p), NEW op, NEW i,
         net' \subseteq net \cup {[id |-> i, op |-> op, key |-> p]},
         DOMAIN ui' = DOMAIN ui, UNCHANGED srv
  PROVE  WizardInv'
<1>1. PICK q : q = [id |-> i, op |-> op, key |-> p]
  OBVIOUS
<1>2. q.key = p
  BY <1>1
<1>3. \A r \in net' : LastDone(r.key)
  BY <1>1, <1>2 DEF WizardInv
<1> QED
  BY <1>3 DEF WizardInv, Wizard!LastIsCompleted

\* "Avanti", "Salta" and "Fine": what is sent with the last step is completed.
LEMMA WizardSends ==
  ASSUME WizardInv, Wizard!HandleNext \/ Wizard!HandleSkip \/ Wizard!HandleFinish
  PROVE  WizardInv'
<1>1. CASE Wizard!HandleNext
  <2>1. PICK p : p = [step |-> ui.step + 1, choice |-> ui.choice,
                      completed |-> ui.step + 1 = Wizard!Last]
    OBVIOUS
  <2>2. LastDone(p)
    BY <2>1, Zenon DEF LastDone
  <2>3. net' = net \cup {[id |-> Wizard!Fresh, op |-> "next", key |-> p]}
    BY <1>1, <2>1 DEF Wizard!HandleNext, Wizard!Persist, Wizard!Sent
  <2>4. DOMAIN ui' = DOMAIN ui /\ UNCHANGED srv
    BY <1>1 DEF Wizard!HandleNext, WizardInv
  <2> QED
    BY <2>2, <2>3, <2>4, SendsDone
<1>2. CASE Wizard!HandleSkip
  <2>1. PICK p : p = [step |-> ui.step, choice |-> ui.choice, completed |-> TRUE]
    OBVIOUS
  <2>2. LastDone(p)
    BY <2>1 DEF LastDone
  <2>3. net' = net \cup {[id |-> Wizard!Fresh, op |-> "close", key |-> p]}
    BY <1>2, <2>1 DEF Wizard!HandleSkip, Wizard!Persist, Wizard!Sent
  <2>4. DOMAIN ui' = DOMAIN ui /\ UNCHANGED srv
    BY <1>2 DEF Wizard!HandleSkip
  <2> QED
    BY <2>2, <2>3, <2>4, SendsDone
<1>3. CASE Wizard!HandleFinish
  <2>1. PICK p : p = [step |-> Wizard!Last, choice |-> ui.choice, completed |-> TRUE]
    OBVIOUS
  <2>2. LastDone(p)
    BY <2>1 DEF LastDone
  <2>3. net' = net \cup {[id |-> Wizard!Fresh, op |-> "close", key |-> p]}
    BY <1>3, <2>1 DEF Wizard!HandleFinish, Wizard!Persist, Wizard!Sent
  <2>4. DOMAIN ui' = DOMAIN ui /\ UNCHANGED srv
    BY <1>3 DEF Wizard!HandleFinish
  <2> QED
    BY <2>2, <2>3, <2>4, SendsDone
<1> QED
  BY <1>1, <1>2, <1>3

\* What the server stores is what some call carried.
LEMMA WizardStep == ASSUME WizardInv, Wizard!Next PROVE WizardInv'
<1> USE DEF WizardInv, Wizard!LastIsCompleted
<1>1. CASE Wizard!HandleNext \/ Wizard!HandleSkip \/ Wizard!HandleFinish
  BY <1>1, WizardSends
<1>2. CASE Wizard!Reopen
  <2>1. net' = net \cup {[id |-> Wizard!Fresh, op |-> "fetch", key |-> Wizard!New]}
    BY <1>2 DEF Wizard!Reopen, Wizard!Sent
  <2>2. DOMAIN ui' = DOMAIN ui /\ UNCHANGED srv
    BY <1>2 DEF Wizard!Reopen
  <2> QED
    BY <2>1, <2>2, SendsDone, NewIsDone
<1>3. CASE Wizard!Persisted
  <2>1. PICK r \in Wizard!Pending("next") \cup Wizard!Pending("close") :
          /\ srv' = [srv EXCEPT !.preference = r.key]
          /\ ui' = [ui EXCEPT !.open = @ /\ r.op = "next"]
          /\ net' = Wizard!Without(r)
    BY <1>3, Zenon DEF Wizard!Persisted
  <2>2. LastDone(r.key) /\ net' \subseteq net
    BY <2>1 DEF Wizard!Pending, Wizard!Without
  <2>3. DOMAIN ui' = DOMAIN ui /\ DOMAIN srv' = DOMAIN srv /\ srv'.preference = r.key
    BY <2>1
  <2> QED
    BY <2>2, <2>3 DEF LastDone
<1>4. CASE Wizard!Fetched
  <2>1. DOMAIN ui' = DOMAIN ui
    BY <1>4 DEF Wizard!Fetched
  <2>2. net' \subseteq net /\ UNCHANGED srv
    BY <1>4 DEF Wizard!Fetched, Wizard!Without
  <2> QED
    BY <2>1, <2>2
<1>5. CASE Wizard!Choose
  BY <1>5 DEF Wizard!Choose
<1>6. CASE Wizard!PersistFails
  BY <1>6 DEF Wizard!PersistFails, Wizard!Without
<1>7. CASE Wizard!Dismiss
  BY <1>7 DEF Wizard!Dismiss
<1> QED
  BY <1>1, <1>2, <1>3, <1>4, <1>5, <1>6, <1>7 DEF Wizard!Next

\* What the wizard shows is a step and a choice; what is stored, or on its way to
\* the server, is a preference.
IsPreference(p) == p \in Wizard!Preference
Steps == 0..Wizard!Last
WizardTypes ==
  /\ DOMAIN ui = {"open", "step", "choice"} /\ DOMAIN srv = {"preference"}
  /\ ui.open \in BOOLEAN /\ ui.step \in Steps /\ ui.choice \in Choices
  /\ IsPreference(srv.preference)
  /\ \A r \in net : IsPreference(r.key)

LEMMA WizardIsTyped == ASSUME WizardTypes PROVE Wizard!TypeOK
BY DEF WizardTypes, IsPreference, Steps, Wizard!TypeOK

\* A preference has a step, a choice or none, and whether it is completed.
LEMMA PreferenceIs ==
  ASSUME NEW s \in Steps, NEW c \in Choices, NEW b \in BOOLEAN
  PROVE  IsPreference([step |-> s, choice |-> c, completed |-> b])
BY DEF IsPreference, Steps, Wizard!Preference

LEMMA PreferenceHas ==
  ASSUME NEW p, IsPreference(p)
  PROVE  p.step \in Steps /\ (p.choice # "none" => p.choice \in Choices)
BY DEF IsPreference, Steps, Wizard!Preference

LEMMA NewIsPreference == IsPreference(Wizard!New) /\ Wizard!Last \in Steps /\ 0 \in Steps /\ 1 \in Steps
BY DEF IsPreference, Steps, Wizard!Preference, Wizard!New, Wizard!Last

\* The step after one that is not the last.
LEMMA NextStep == ASSUME NEW s \in Steps, s < Wizard!Last PROVE s + 1 \in Steps
BY DEF Steps, Wizard!Last

LEMMA WizardTypesInit == Wizard!Init => WizardTypes
<1> SUFFICES ASSUME Wizard!Init PROVE WizardTypes
  OBVIOUS
<1>1. ui \in Wizard!Mounted /\ srv \in Wizard!Stored
  BY DEF Wizard!Init
<1>2. DOMAIN ui = {"open", "step", "choice"} /\ ui.open = TRUE /\ ui.step = 0 /\ ui.choice = Default
  BY <1>1 DEF Wizard!Mounted
<1>3. Default \in Choices
  BY FrontendAssumption DEF Wizard!OnboardingAssumption
<1>4. PICK p \in {Wizard!New, [step |-> 1, choice |-> Default, completed |-> FALSE]} :
        srv = [preference |-> p]
  BY <1>1 DEF Wizard!Stored
<1>5. IsPreference(p)
  BY <1>3, <1>4, NewIsPreference, PreferenceIs, Zenon
<1>6. DOMAIN srv = {"preference"} /\ srv.preference = p
  BY <1>4
<1>7. \A r \in net : r.key = Wizard!New
  BY DEF Wizard!Init
<1> QED
  BY <1>2, <1>3, <1>5, <1>6, <1>7, NewIsPreference, Zenon DEF WizardTypes

LEMMA WizardTypesStay == ASSUME WizardTypes, UNCHANGED vars PROVE WizardTypes'
BY DEF vars, WizardTypes

\* A preference that is sent, with the step and choice of the wizard.
LEMMA WizardSendsTyped ==
  ASSUME WizardTypes, NEW p, IsPreference(p), NEW op, net' = Wizard!Sent(op, p)
  PROVE  \A r \in net' : IsPreference(r.key)
<1>1. PICK q : q = [id |-> Wizard!Fresh, op |-> op, key |-> p]
  OBVIOUS
<1>2. net' = net \cup {q} /\ q.key = p
  BY <1>1 DEF Wizard!Sent
<1> QED
  BY <1>2 DEF WizardTypes

\* The events of the wizard that store or ask.
LEMMA WizardWritesTyped ==
  ASSUME WizardTypes,
         \/ Wizard!HandleNext \/ Wizard!HandleSkip \/ Wizard!HandleFinish \/ Wizard!Reopen
  PROVE  WizardTypes'
<1>1. CASE Wizard!HandleNext
  <2>1. PICK b : b = (ui.step + 1 = Wizard!Last)
    OBVIOUS
  <2>2. b \in BOOLEAN
    BY <2>1
  <2>3. ui.step + 1 \in Steps
    BY <1>1, NextStep DEF WizardTypes, Wizard!HandleNext
  <2>4. PICK p : p = [step |-> ui.step + 1, choice |-> ui.choice, completed |-> b]
    OBVIOUS
  <2>5. IsPreference(p)
    BY <2>2, <2>3, <2>4, PreferenceIs DEF WizardTypes
  <2>6. net' = Wizard!Sent("next", p)
    BY <1>1, <2>1, <2>4 DEF Wizard!HandleNext, Wizard!Persist
  <2>7. \A r \in net' : IsPreference(r.key)
    BY <2>5, <2>6, WizardSendsTyped
  <2>8. ui' = [ui EXCEPT !.step = @ + 1] /\ UNCHANGED srv
    BY <1>1 DEF Wizard!HandleNext
  <2> QED
    BY <2>3, <2>7, <2>8 DEF WizardTypes
<1>2. CASE Wizard!HandleSkip
  <2>1. PICK p : p = [step |-> ui.step, choice |-> ui.choice, completed |-> TRUE]
    OBVIOUS
  <2>2. IsPreference(p)
    BY <2>1, PreferenceIs, Zenon DEF WizardTypes
  <2>3. net' = Wizard!Sent("close", p)
    BY <1>2, <2>1 DEF Wizard!HandleSkip, Wizard!Persist
  <2>4. \A r \in net' : IsPreference(r.key)
    BY <2>2, <2>3, WizardSendsTyped
  <2> QED
    BY <1>2, <2>4, Zenon DEF WizardTypes, Wizard!HandleSkip
<1>3. CASE Wizard!HandleFinish
  <2>1. PICK p : p = [step |-> Wizard!Last, choice |-> ui.choice, completed |-> TRUE]
    OBVIOUS
  <2>2. IsPreference(p)
    BY <2>1, PreferenceIs, NewIsPreference, Zenon DEF WizardTypes
  <2>3. net' = Wizard!Sent("close", p)
    BY <1>3, <2>1 DEF Wizard!HandleFinish, Wizard!Persist
  <2>4. \A r \in net' : IsPreference(r.key)
    BY <2>2, <2>3, WizardSendsTyped
  <2> QED
    BY <1>3, <2>4, Zenon DEF WizardTypes, Wizard!HandleFinish
<1>4. CASE Wizard!Reopen
  <2>1. \A r \in net' : IsPreference(r.key)
    BY <1>4, WizardSendsTyped, NewIsPreference DEF Wizard!Reopen
  <2>2. ui' = [ui EXCEPT !.open = TRUE] /\ UNCHANGED srv
    BY <1>4 DEF Wizard!Reopen
  <2> QED
    BY <2>1, <2>2 DEF WizardTypes
<1> QED
  BY <1>1, <1>2, <1>3, <1>4

\* Answers, and what the user does without the server.
LEMMA WizardTypesStep == ASSUME WizardTypes, Wizard!Next PROVE WizardTypes'
<1>1. CASE \/ Wizard!HandleNext \/ Wizard!HandleSkip \/ Wizard!HandleFinish \/ Wizard!Reopen
  BY <1>1, WizardWritesTyped
<1>2. CASE Wizard!Fetched
  <2>1. PICK r \in Wizard!Pending("fetch"), ok \in BOOLEAN :
          /\ ui' = IF ok THEN [ui EXCEPT !.step = srv.preference.step,
                                         !.choice = IF srv.preference.choice = "none" THEN @
                                                    ELSE srv.preference.choice]
                   ELSE ui
          /\ net' = Wizard!Without(r) /\ UNCHANGED srv
    BY <1>2 DEF Wizard!Fetched
  <2>2. net' \subseteq net
    BY <2>1 DEF Wizard!Without
  <2>3. PICK s, c : /\ s = srv.preference.step
                    /\ c = IF srv.preference.choice = "none" THEN ui.choice
                           ELSE srv.preference.choice
    OBVIOUS
  <2>4. s \in Steps /\ c \in Choices
    BY <2>3, PreferenceHas DEF WizardTypes
  <2>5. ui' = [ui EXCEPT !.step = s, !.choice = c] \/ ui' = ui
    BY <2>1, <2>3
  <2> QED
    BY <2>1, <2>2, <2>4, <2>5, Zenon DEF WizardTypes
<1>3. CASE Wizard!Choose
  <2>1. PICK c \in Choices : ui' = [ui EXCEPT !.choice = c] /\ UNCHANGED <<net, srv>>
    BY <1>3 DEF Wizard!Choose
  <2> QED
    BY <2>1 DEF WizardTypes
<1>4. CASE Wizard!Persisted
  <2>1. PICK r \in Wizard!Pending("next") \cup Wizard!Pending("close") :
          /\ srv' = [srv EXCEPT !.preference = r.key]
          /\ ui' = [ui EXCEPT !.open = @ /\ r.op = "next"]
          /\ net' = Wizard!Without(r)
    BY <1>4, Zenon DEF Wizard!Persisted
  <2>2. IsPreference(r.key) /\ net' \subseteq net
    BY <2>1 DEF Wizard!Pending, Wizard!Without, WizardTypes
  <2>3. PICK b : b = (ui.open /\ r.op = "next")
    OBVIOUS
  <2>4. b \in BOOLEAN
    BY <2>3
  <2>5. ui' = [ui EXCEPT !.open = b]
    BY <2>1, <2>3
  <2>6. DOMAIN srv' = DOMAIN srv /\ srv'.preference = r.key
    BY <2>1 DEF WizardTypes
  <2> QED
    BY <2>2, <2>4, <2>5, <2>6 DEF WizardTypes
<1>5. CASE Wizard!PersistFails
  BY <1>5 DEF Wizard!PersistFails, Wizard!Without, WizardTypes
<1>6. CASE Wizard!Dismiss
  <2>1. ui' = [ui EXCEPT !.open = FALSE] /\ UNCHANGED <<net, srv>>
    BY <1>6 DEF Wizard!Dismiss
  <2> QED
    BY <2>1 DEF WizardTypes
<1> QED
  BY <1>1, <1>2, <1>3, <1>4, <1>5, <1>6 DEF Wizard!Next

-----------------------------------------------------------------------------
(* TenantRoute: a host is probed when all those before it are known not to     *)
(* answer, so the first that answers is the first of the list that is up.      *)

\* The hosts of the list up to one of them that are up.
UpBefore(h) == {j \in srv.listed : j < h /\ j \in srv.up}

RouteCall(r) ==
  /\ DOMAIN r = {"id", "op", "key"} /\ DOMAIN r.key = {"run", "path", "host"}
  /\ r.op = "tenants" => r.key.host = 0
  /\ r.op = "probe" => r.key.host \in srv.listed /\ UpBefore(r.key.host) = {}

RouteInv ==
  /\ DOMAIN ui = {"path", "run", "failed", "target", "schema"}
  /\ srv.listed \subseteq Nat \ {0}
  /\ \A r \in net : RouteCall(r)
  /\ Route!GoesToFirstUp

\* First(S) is the least host of S.
LEMMA FirstIsLeast ==
  ASSUME NEW S \in SUBSET Nat, S # {}
  PROVE  Route!First(S) \in S /\ \A j \in S : Route!First(S) <= j
<1>1. PICK m \in S : \A j \in S : ~ (<<j, m>> \in OpToRel(<, Nat))
  BY NatLessThanWellFounded, WFMin, Zenon, Zenon
<1>2. ASSUME NEW j \in S, j < m PROVE FALSE
  <2>1. <<j, m>> \in Nat \X Nat
    OBVIOUS
  <2>2. <<j, m>>[1] < <<j, m>>[2]
    BY <1>2
  <2>3. <<j, m>> \in OpToRel(<, Nat)
    BY <2>1, <2>2, Zenon, Zenon DEF OpToRel
  <2> QED
    BY <1>1, <2>3, Zenon, Zenon
<1>3. \A j \in S : m <= j
  BY <1>2
<1> QED
  BY <1>3, Zenon DEF Route!First

\* A host of S that is below all others is First(S).
LEMMA FirstIs ==
  ASSUME NEW S \in SUBSET Nat, NEW m \in S, \A j \in S : m <= j
  PROVE  Route!First(S) = m
<1>1. Route!First(S) \in S /\ \A j \in S : Route!First(S) <= j
  BY FirstIsLeast
<1>2. Route!First(S) <= m /\ m <= Route!First(S)
  BY <1>1, Zenon
<1>3. Route!First(S) \in Nat /\ m \in Nat
  BY <1>1, Zenon
<1> HIDE DEF Route!First
<1> QED
  BY <1>2, <1>3

\* The first call lists the tenants and probes no host.
LEMMA RouteInit == Route!Init => RouteInv
<1> SUFFICES ASSUME Route!Init PROVE RouteInv
  OBVIOUS
<1>1. PICK p \in Paths : ui = [path |-> p, run |-> 1, failed |-> FALSE,
                              target |-> <<0, p>>, schema |-> 0]
  BY DEF Route!Init, Route!Mounted
<1>2. DOMAIN ui = {"path", "run", "failed", "target", "schema"} /\ Route!GoesToFirstUp
  BY <1>1 DEF Route!GoesToFirstUp
<1>3. srv.listed \subseteq Nat \ {0}
  <2>1. PICK l \in SUBSET Hosts, u \in SUBSET Hosts, b \in BOOLEAN :
          srv = [listed |-> l, up |-> u, byPath |-> b]
    BY DEF Route!Init, Route!Stored
  <2>2. srv.listed = l
    BY <2>1
  <2> QED
    BY <2>2, FrontendAssumption DEF Route!RouteAssumption
<1>4. net = {[id |-> 1, op |-> "tenants", key |-> [run |-> ui.run, path |-> ui.path, host |-> 0]]}
  BY DEF Route!Init, Route!Key
<1>5. \A r \in net : RouteCall(r)
  BY <1>4 DEF RouteCall
<1> QED
  BY <1>2, <1>3, <1>5 DEF RouteInv

\* A step that sends at most one call and leaves the server and the target.
LEMMA RouteSends ==
  ASSUME RouteInv, NEW q, RouteCall(q), net' \subseteq net \cup {q}, UNCHANGED srv,
         DOMAIN ui' = DOMAIN ui, ui'.target = ui.target
  PROVE  RouteInv'
<1>1. \A r : RouteCall(r) => RouteCall(r)'
  BY DEF RouteCall, UpBefore
<1>2. Route!GoesToFirstUp'
  BY DEF RouteInv, Route!GoesToFirstUp, Route!First
<1> QED
  BY <1>1, <1>2 DEF RouteInv

\* A call that ends and leaves the target keeps the invariant.
LEMMA RouteEnds ==
  ASSUME RouteInv, net' \subseteq net, UNCHANGED srv,
         DOMAIN ui' = DOMAIN ui, ui'.target = ui.target
  PROVE  RouteInv'
<1>1. \A r : RouteCall(r) => RouteCall(r)'
  BY DEF RouteCall, UpBefore
<1>2. Route!GoesToFirstUp'
  BY DEF RouteInv, Route!GoesToFirstUp, Route!First
<1> QED
  BY <1>1, <1>2 DEF RouteInv

\* A failure, of the current run or an earlier one, goes nowhere.
LEMMA FailedKeepsTarget ==
  ASSUME RouteInv, NEW r
  PROVE  DOMAIN Route!Failed(r) = DOMAIN ui /\ Route!Failed(r).target = ui.target
BY DEF RouteInv, Route!Failed

\* The next probe: every host of the list before it is one that does not answer.
LEMMA ProbeStep ==
  ASSUME RouteInv, NEW r \in net, Route!Probe(r), UNCHANGED srv,
         r.key.host \in Nat, \A j \in srv.listed : j <= r.key.host => j \notin srv.up
  PROVE  RouteInv'
<1> DEFINE S == Route!After(r.key.host)
<1>1. S \in SUBSET Nat
  BY DEF RouteInv, Route!After
<1>2. CASE S = {}
  <2>1. net' \subseteq net /\ ui' = Route!Failed(r)
    BY <1>2 DEF Route!Probe, Route!Without
  <2> QED
    BY <2>1, FailedKeepsTarget, RouteEnds
<1>3. CASE S # {}
  <2>1. PICK m : m = Route!First(S)
    OBVIOUS
  <2>2. m \in S /\ \A j \in S : m <= j
    BY <1>1, <1>3, <2>1, FirstIsLeast
  <2>3. m \in srv.listed /\ m \in Nat /\ \A j \in srv.listed : j > r.key.host => m <= j
    BY <1>1, <2>2 DEF Route!After
  <2>4. UpBefore(m) = {}
    BY <2>3 DEF UpBefore, RouteInv
  <2>5. PICK q : q = [r EXCEPT !.op = "probe", !.key.host = m]
    OBVIOUS
  <2>6. RouteCall(q)
    <3>1. DOMAIN q = {"id", "op", "key"} /\ DOMAIN q.key = {"run", "path", "host"}
      BY <2>5 DEF RouteInv, RouteCall
    <3>2. q.op = "probe" /\ q.key.host = m
      BY <2>5 DEF RouteInv, RouteCall
    <3> QED
      BY <2>3, <2>4, <3>1, <3>2 DEF RouteCall
  <2>7. net' \subseteq net \cup {q} /\ ui' = ui
    BY <1>3, <2>1, <2>5 DEF Route!Probe, Route!Without
  <2> QED
    BY <2>6, <2>7, RouteSends
<1> QED
  BY <1>2, <1>3

\* A host answers that is up, with none before it that is.
LEMMA AnswerStep == ASSUME RouteInv, Route!HostAnswers PROVE RouteInv'
<1>1. PICK r \in Route!Pending("probe") :
        /\ r.key.host \in srv.up
        /\ ui' = [ui EXCEPT !.target = <<r.key.host, r.key.path>>]
        /\ net' = Route!Without(r) /\ UNCHANGED srv
  BY Zenon DEF Route!HostAnswers
<1>2. r.key.host \in srv.listed /\ UpBefore(r.key.host) = {}
  BY DEF Route!Pending, RouteInv, RouteCall
<1>3. srv.listed \cap srv.up \in SUBSET Nat
  BY DEF RouteInv
<1>4. r.key.host \in srv.listed \cap srv.up
  BY <1>1, <1>2
<1>5. \A j \in srv.listed \cap srv.up : r.key.host <= j
  BY <1>2, <1>3, <1>4 DEF UpBefore
<1>6. Route!First(srv.listed \cap srv.up) = r.key.host
  BY <1>3, <1>4, <1>5, FirstIs
<1>7. DOMAIN ui' = DOMAIN ui /\ ui'.target[1] = r.key.host
  BY <1>1 DEF RouteInv
<1>8. Route!GoesToFirstUp'
  BY <1>1, <1>6, <1>7 DEF Route!GoesToFirstUp, Route!First
<1>9. \A c \in net' : RouteCall(c)'
  BY <1>1 DEF RouteInv, RouteCall, UpBefore, Route!Without
<1> QED
  BY <1>1, <1>7, <1>8, <1>9 DEF RouteInv

\* Every step of the route: listing, probing, answering, failing.
LEMMA RouteStep == ASSUME RouteInv, Route!Next PROVE RouteInv'
<1>1. CASE Route!OpenPath
  <2>1. PICK p \in Paths :
          /\ ui' = [ui EXCEPT !.path = p, !.run = @ + 1]
          /\ net' = Route!Sent("tenants", [run |-> ui.run + 1, path |-> p, host |-> 0])
          /\ UNCHANGED srv
    BY <1>1, Zenon DEF Route!OpenPath
  <2>2. PICK q : q = [id |-> Route!Fresh, op |-> "tenants",
                      key |-> [run |-> ui.run + 1, path |-> p, host |-> 0]]
    OBVIOUS
  <2>3. RouteCall(q)
    BY <2>2 DEF RouteCall
  <2>4. net' = net \cup {q}
    BY <2>1, <2>2 DEF Route!Sent
  <2>5. DOMAIN ui' = DOMAIN ui /\ ui'.target = ui.target
    BY <2>1 DEF RouteInv
  <2> QED
    BY <2>1, <2>3, <2>4, <2>5, RouteSends
<1>2. CASE Route!TenantsListed
  <2>1. PICK r \in Route!Pending("tenants") : Route!Probe(r) /\ UNCHANGED srv
    BY <1>2 DEF Route!TenantsListed
  <2>2. r \in net /\ r.key.host = 0
    BY DEF Route!Pending, RouteInv, RouteCall
  <2>3. \A j \in srv.listed : ~(j <= r.key.host)
    BY <2>2 DEF RouteInv
  <2> QED
    BY <2>1, <2>2, <2>3, ProbeStep
<1>3. CASE Route!TenantsFail
  <2>1. PICK r : ui' = Route!Failed(r) /\ net' = Route!Without(r) /\ UNCHANGED srv
    BY <1>3 DEF Route!TenantsFail
  <2> QED
    BY <2>1, FailedKeepsTarget, RouteEnds DEF Route!Without
<1>4. CASE Route!TenantChosen
  <2>1. PICK x : ui' = [ui EXCEPT !.failed = FALSE, !.schema = x]
    BY <1>4, Zenon DEF Route!TenantChosen
  <2>2. DOMAIN ui' = DOMAIN ui /\ ui'.target = ui.target
    BY <2>1 DEF RouteInv
  <2>3. net' \subseteq net /\ UNCHANGED srv
    BY <1>4 DEF Route!TenantChosen, Route!Without
  <2> QED
    BY <2>2, <2>3, RouteEnds
<1>5. CASE Route!HostAnswers
  BY <1>5, AnswerStep
<1>6. CASE Route!HostSilent
  <2>1. PICK r \in Route!Pending("probe") :
          r.key.host \notin srv.up /\ Route!Probe(r) /\ UNCHANGED srv
    BY <1>6 DEF Route!HostSilent
  <2>2. r \in net /\ r.key.host \in srv.listed /\ UpBefore(r.key.host) = {}
    BY DEF Route!Pending, RouteInv, RouteCall
  <2>3. r.key.host \in Nat /\ srv.listed \subseteq Nat
    BY <2>2 DEF RouteInv
  <2>4. \A j \in srv.listed : j <= r.key.host => j \notin srv.up
    BY <2>1, <2>2, <2>3 DEF UpBefore
  <2> QED
    BY <2>1, <2>2, <2>3, <2>4, ProbeStep
<1> QED
  BY <1>1, <1>2, <1>3, <1>4, <1>5, <1>6 DEF Route!Next

\* The spinner has a step to wait for; RouteInv tells that a host is not 0.
RouteBusy == RouteInv /\ Route!BusyIsAwaited

LEMMA RouteBusyInit == Route!Init => RouteBusy
<1> SUFFICES ASSUME Route!Init PROVE RouteBusy
  OBVIOUS
<1>1. PICK n : n = [id |-> 1, op |-> "tenants",
                    key |-> [run |-> ui.run, path |-> ui.path, host |-> 0]]
  OBVIOUS
<1>2. n \in net /\ n.key.run = ui.run
  BY <1>1 DEF Route!Init, Route!Key
<1> QED
  BY <1>2, RouteInit DEF RouteBusy, Route!BusyIsAwaited

\* A run that ends without a host tells its failure, unless another run has taken
\* its place.
LEMMA RouteGivesUp ==
  ASSUME RouteBusy, NEW r \in net, ui' = Route!Failed(r), net' = net \ {r}, UNCHANGED srv
  PROVE  Route!BusyIsAwaited'
<1>1. CASE r.key.run = ui.run
  <2>1. ui' = [ui EXCEPT !.failed = TRUE]
    BY <1>1 DEF Route!Failed
  <2>2. ui'.failed = TRUE
    BY <2>1 DEF RouteBusy, RouteInv
  <2> QED
    BY <2>2 DEF Route!BusyIsAwaited
<1>2. CASE r.key.run # ui.run
  <2>1. ui' = ui
    BY <1>2 DEF Route!Failed
  <2> QED
    BY <1>2, <2>1 DEF RouteBusy, Route!BusyIsAwaited
<1> QED
  BY <1>1, <1>2

\* The next probe is of the same run.
LEMMA RouteProbes ==
  ASSUME RouteBusy, NEW r \in net, Route!Probe(r), UNCHANGED srv
  PROVE  Route!BusyIsAwaited'
<1>1. CASE Route!After(r.key.host) = {}
  <2>1. ui' = Route!Failed(r) /\ net' = net \ {r}
    BY <1>1 DEF Route!Probe, Route!Without
  <2> QED
    BY <2>1, RouteGivesUp
<1>2. CASE Route!After(r.key.host) # {}
  <2>1. PICK h : h = Route!First(Route!After(r.key.host))
    OBVIOUS
  <2>2. PICK q : q = [r EXCEPT !.op = "probe", !.key.host = h]
    OBVIOUS
  <2>3. net' = (net \ {r}) \cup {q} /\ ui' = ui
    BY <1>2, <2>1, <2>2 DEF Route!Probe, Route!Without
  <2>4. q.key.run = r.key.run
    BY <2>2 DEF RouteBusy, RouteInv, RouteCall
  <2> QED
    BY <2>3, <2>4 DEF RouteBusy, Route!BusyIsAwaited
<1> QED
  BY <1>1, <1>2

\* Every step of the route.
LEMMA RouteBusyStep == ASSUME RouteBusy, Route!Next PROVE RouteBusy'
<1> SUFFICES Route!BusyIsAwaited'
  BY RouteStep DEF RouteBusy
<1>1. CASE Route!OpenPath
  <2>1. PICK p \in Paths :
          /\ ui' = [ui EXCEPT !.path = p, !.run = @ + 1]
          /\ net' = Route!Sent("tenants", [run |-> ui.run + 1, path |-> p, host |-> 0])
    BY <1>1, Zenon DEF Route!OpenPath
  <2>2. PICK q : q = [id |-> Route!Fresh, op |-> "tenants",
                      key |-> [run |-> ui.run + 1, path |-> p, host |-> 0]]
    OBVIOUS
  <2>3. q \in net' /\ q.key.run = ui.run + 1
    BY <2>1, <2>2 DEF Route!Sent
  <2>4. ui'.run = ui.run + 1
    BY <2>1 DEF RouteBusy, RouteInv
  <2> QED
    BY <2>3, <2>4 DEF Route!BusyIsAwaited
<1>2. CASE Route!TenantsListed
  <2>1. PICK r \in Route!Pending("tenants") : Route!Probe(r) /\ UNCHANGED srv
    BY <1>2 DEF Route!TenantsListed
  <2> QED
    BY <2>1, RouteProbes DEF Route!Pending
<1>3. CASE Route!TenantsFail
  <2>1. PICK r \in Route!Pending("tenants") :
          ui' = Route!Failed(r) /\ net' = Route!Without(r) /\ UNCHANGED srv
    BY <1>3 DEF Route!TenantsFail
  <2> QED
    BY <2>1, RouteGivesUp DEF Route!Pending, Route!Without
<1>4. CASE Route!TenantChosen
  BY <1>4 DEF Route!TenantChosen, Route!BusyIsAwaited
<1>5. CASE Route!HostAnswers
  <2>1. PICK r \in Route!Pending("probe") :
          ui' = [ui EXCEPT !.target = <<r.key.host, r.key.path>>]
    BY <1>5, Zenon DEF Route!HostAnswers
  <2>2. r.key.host # 0
    BY DEF Route!Pending, RouteBusy, RouteInv, RouteCall
  <2>3. ui'.target[1] # 0
    BY <2>1, <2>2 DEF RouteBusy, RouteInv
  <2> QED
    BY <2>3 DEF Route!BusyIsAwaited
<1>6. CASE Route!HostSilent
  <2>1. PICK r \in Route!Pending("probe") : Route!Probe(r) /\ UNCHANGED srv
    BY <1>6 DEF Route!HostSilent
  <2> QED
    BY <2>1, RouteProbes DEF Route!Pending
<1> QED
  BY <1>1, <1>2, <1>3, <1>4, <1>5, <1>6 DEF Route!Next

LEMMA RouteBusyStays == ASSUME RouteBusy, UNCHANGED vars PROVE RouteBusy'
BY DEF vars, RouteBusy, RouteInv, RouteCall, UpBefore, Route!GoesToFirstUp, Route!First,
       Route!BusyIsAwaited

\* Where the browser is and what it probes: addresses and hosts of the list.
Place == (Hosts \cup {0}) \X Paths
RouteTypes ==
  /\ RouteInv
  /\ ui.path \in Paths /\ ui.run \in 1..MaxRuns /\ ui.failed \in BOOLEAN
  /\ ui.target \in Place /\ ui.schema \in Hosts \cup {0}
  /\ srv.listed \subseteq Hosts
  /\ \A r \in net : r.key.path \in Paths

LEMMA RouteIsTyped == ASSUME RouteTypes PROVE Route!TypeOK
BY DEF RouteTypes, Place, Route!TypeOK

\* A place is a host, or none, with an address.
LEMMA PlaceIs == ASSUME NEW h \in Hosts \cup {0}, NEW p \in Paths PROVE <<h, p>> \in Place
BY DEF Place

LEMMA RouteTypesInit == Route!Init => RouteTypes
<1> SUFFICES ASSUME Route!Init PROVE RouteTypes
  OBVIOUS
<1>1. PICK p \in Paths : ui = [path |-> p, run |-> 1, failed |-> FALSE,
                              target |-> <<0, p>>, schema |-> 0]
  BY DEF Route!Init, Route!Mounted
<1>2. /\ ui.path = p /\ ui.run = 1 /\ ui.failed = FALSE /\ ui.target = <<0, p>>
      /\ ui.schema = 0
  BY <1>1
<1>3. 1 \in 1..MaxRuns
  BY FrontendAssumption DEF Route!RouteAssumption
<1>4. PICK l \in SUBSET Hosts, u \in SUBSET Hosts, b \in BOOLEAN :
        srv = [listed |-> l, up |-> u, byPath |-> b]
  BY DEF Route!Init, Route!Stored
<1>5. srv.listed \subseteq Hosts
  BY <1>4
<1>6. net = {[id |-> 1, op |-> "tenants", key |-> [run |-> ui.run, path |-> ui.path, host |-> 0]]}
  BY DEF Route!Init, Route!Key
<1>7. \A r \in net : r.key.path = p
  BY <1>2, <1>6
<1> QED
  BY <1>2, <1>3, <1>5, <1>7, RouteInit, PlaceIs, Zenon DEF RouteTypes

LEMMA RouteTypesStay == ASSUME RouteTypes, UNCHANGED vars PROVE RouteTypes'
BY RouteBusyStays
   DEF vars, RouteTypes, RouteInv, RouteCall, UpBefore, Route!GoesToFirstUp, Route!First

\* A failure only sets its flag.
LEMMA FailedIsTyped ==
  ASSUME RouteTypes, NEW r, ui' = Route!Failed(r), net' \subseteq net, UNCHANGED srv, RouteInv'
  PROVE  RouteTypes'
<1>1. ui' = ui \/ ui' = [ui EXCEPT !.failed = TRUE]
  BY DEF Route!Failed
<1>2. CASE ui' = ui
  BY <1>2 DEF RouteTypes
<1>3. CASE ui' = [ui EXCEPT !.failed = TRUE]
  <2>1. /\ ui'.path = ui.path /\ ui'.run = ui.run /\ ui'.failed = TRUE
        /\ ui'.target = ui.target /\ ui'.schema = ui.schema
    BY <1>3 DEF RouteTypes, RouteInv
  <2> QED
    BY <2>1, Zenon DEF RouteTypes
<1> QED
  BY <1>1, <1>2, <1>3

\* The next probe is of the same address.
LEMMA ProbeIsTyped ==
  ASSUME RouteTypes, NEW r \in net, Route!Probe(r), UNCHANGED srv, RouteInv'
  PROVE  RouteTypes'
<1>1. CASE Route!After(r.key.host) = {}
  BY <1>1, FailedIsTyped DEF Route!Probe, Route!Without
<1>2. CASE Route!After(r.key.host) # {}
  <2>1. PICK h : h = Route!First(Route!After(r.key.host))
    OBVIOUS
  <2>2. PICK q : q = [r EXCEPT !.op = "probe", !.key.host = h]
    OBVIOUS
  <2>3. net' \subseteq net \cup {q} /\ ui' = ui
    BY <1>2, <2>1, <2>2 DEF Route!Probe, Route!Without
  <2>4. q.key.path = r.key.path
    BY <2>2 DEF RouteTypes, RouteInv, RouteCall
  <2> QED
    BY <2>3, <2>4 DEF RouteTypes
<1> QED
  BY <1>1, <1>2

\* Every step of the route.
LEMMA RouteTypesStep == ASSUME RouteTypes, Route!Next PROVE RouteTypes'
<1>1. RouteInv'
  BY RouteStep DEF RouteTypes
<1>2. CASE Route!OpenPath
  <2>1. PICK p \in Paths :
          /\ ui.run < MaxRuns
          /\ ui' = [ui EXCEPT !.path = p, !.run = @ + 1]
          /\ net' = Route!Sent("tenants", [run |-> ui.run + 1, path |-> p, host |-> 0])
          /\ UNCHANGED srv
    BY <1>2, Zenon DEF Route!OpenPath
  <2>2. PICK q : q = [id |-> Route!Fresh, op |-> "tenants",
                      key |-> [run |-> ui.run + 1, path |-> p, host |-> 0]]
    OBVIOUS
  <2>3. net' = net \cup {q} /\ q.key.path = p
    BY <2>1, <2>2 DEF Route!Sent
  <2>4. /\ ui'.path = p /\ ui'.run = ui.run + 1 /\ ui'.failed = ui.failed
        /\ ui'.target = ui.target /\ ui'.schema = ui.schema
    BY <2>1 DEF RouteTypes, RouteInv
  <2>5. ui.run + 1 \in 1..MaxRuns
    BY <2>1, FrontendAssumption DEF RouteTypes, Route!RouteAssumption
  <2> QED
    BY <1>1, <2>1, <2>3, <2>4, <2>5 DEF RouteTypes
<1>3. CASE Route!TenantsListed
  <2>1. PICK r \in Route!Pending("tenants") : Route!Probe(r) /\ UNCHANGED srv
    BY <1>3 DEF Route!TenantsListed
  <2> QED
    BY <1>1, <2>1, ProbeIsTyped DEF Route!Pending
<1>4. CASE Route!TenantsFail
  <2>1. PICK r \in Route!Pending("tenants") :
          ui' = Route!Failed(r) /\ net' = Route!Without(r) /\ UNCHANGED srv
    BY <1>4 DEF Route!TenantsFail
  <2> QED
    BY <1>1, <2>1, FailedIsTyped DEF Route!Without
<1>5. CASE Route!TenantChosen
  <2>1. PICK r \in Route!Pending("tenants"), ok \in BOOLEAN :
          /\ ui' = [ui EXCEPT !.failed = FALSE,
                      !.schema = IF ~ok THEN 0 ELSE IF srv.listed = {} THEN @
                                 ELSE Route!First(srv.listed)]
          /\ net' = Route!Without(r) /\ UNCHANGED srv
    BY <1>5, Zenon DEF Route!TenantChosen
  <2>2. PICK s : s = IF ~ok THEN 0 ELSE IF srv.listed = {} THEN ui.schema
                     ELSE Route!First(srv.listed)
    OBVIOUS
  <2>3. srv.listed # {} => Route!First(srv.listed) \in srv.listed
    BY FirstIsLeast DEF RouteTypes, RouteInv
  <2>4. s \in Hosts \cup {0}
    <3> HIDE DEF Route!First
    <3> QED
      BY <2>2, <2>3 DEF RouteTypes
  <2>5. ui' = [ui EXCEPT !.failed = FALSE, !.schema = s]
    BY <2>1, <2>2
  <2>6. /\ ui'.path = ui.path /\ ui'.run = ui.run /\ ui'.failed = FALSE
        /\ ui'.target = ui.target /\ ui'.schema = s
    BY <2>5 DEF RouteTypes, RouteInv
  <2> QED
    BY <1>1, <2>1, <2>4, <2>6 DEF RouteTypes, Route!Without
<1>6. CASE Route!HostAnswers
  <2>1. PICK r \in Route!Pending("probe") :
          /\ ui' = [ui EXCEPT !.target = <<r.key.host, r.key.path>>]
          /\ net' = Route!Without(r) /\ UNCHANGED srv
    BY <1>6, Zenon DEF Route!HostAnswers
  <2>2. r.key.host \in Hosts /\ r.key.path \in Paths
    BY <2>1 DEF Route!Pending, RouteTypes, RouteInv, RouteCall
  <2>3. PICK t : t = <<r.key.host, r.key.path>>
    OBVIOUS
  <2>4. t \in Place
    BY <2>2, <2>3, PlaceIs
  <2>5. /\ ui'.path = ui.path /\ ui'.run = ui.run /\ ui'.failed = ui.failed
        /\ ui'.target = t /\ ui'.schema = ui.schema
    BY <2>1, <2>3 DEF RouteTypes, RouteInv
  <2> QED
    BY <1>1, <2>1, <2>4, <2>5 DEF RouteTypes, Route!Without
<1>7. CASE Route!HostSilent
  <2>1. PICK r \in Route!Pending("probe") : Route!Probe(r) /\ UNCHANGED srv
    BY <1>7 DEF Route!HostSilent
  <2> QED
    BY <1>1, <2>1, ProbeIsTyped DEF Route!Pending
<1> QED
  BY <1>2, <1>3, <1>4, <1>5, <1>6, <1>7 DEF Route!Next

-----------------------------------------------------------------------------
(* The application: the invariant of whichever view is mounted.                *)

ViewInv ==
  /\ view = Alarms!Name => AlarmsInv
  /\ view = Fields!Name => FieldsInv
  /\ view = Export!Name => ExportInv
  /\ view = Detail!Name => DetailInv
  /\ view = Board!Name => BoardInv
  /\ view = Board!Name => BoardBusy
  /\ view = Recent!Name => RecentInv
  /\ view = Period!Name => PeriodInv
  /\ view = OfCustomer!Name => OfCustomerInv
  /\ view = CustFields!Name => CustFieldsInv
  /\ view = Search!Name => SearchInv
  /\ view = Settings!Name => SettingsInv
  /\ view = SourceForm!Name => SourceFormInv
  /\ view = ParserForm!Name => ParserInv
  /\ view = Parser!Name => PageInv
  /\ view = Cases!Name => CasesInv
  /\ view = Manage!Name => ManageInv
  /\ view = Manage!Name => ManageBusy
  /\ view = Admin!Name => AdminInv
  /\ view = Panel!Name => PanelInv
  /\ view = Members!Name => MembersInv
  /\ view = Creation!Name => CreationInv
  /\ view = Creation!Name => CreationBusy
  /\ view = Wizard!Name => WizardInv
  /\ view = Centre!Name => CentreInv
  /\ view = Choice!Name => ChoiceInv
  /\ view = Choice!Name => ChoiceBusy
  /\ view = Route!Name => RouteBusy
  /\ view = Recent!Name => RecentTypes
  /\ view = Alarms!Name => AlarmsTypes
  /\ view = Export!Name => ExportTypes
  /\ view = OfCustomer!Name => OfCustomerTypes
  /\ view = Search!Name => SearchTypes
  /\ view = Saved!Name => SavedTypes
  /\ view = Settings!Name => SettingsTypes
  /\ view = Manage!Name => ManageTypes
  /\ view = Admin!Name => AdminTypes
  /\ view = Creation!Name => CreationTypes
  /\ view = Wizard!Name => WizardTypes
  /\ view = Choice!Name => ChoiceTypes
  /\ view = Route!Name => RouteTypes

\* Whichever view is mounted starts in its invariant.
LEMMA ViewInit == Init => ViewInv
<1> SUFFICES ASSUME Init PROVE ViewInv
  OBVIOUS
<1>1. view = Alarms!Name => AlarmsInv
  BY InitOfView, AlarmsInit
<1>2. view = Fields!Name => FieldsInv
  BY InitOfView, FieldsInit
<1>3. view = Export!Name => ExportInv
  BY InitOfView, ExportInit
<1>4. view = Detail!Name => DetailInv
  BY InitOfView, DetailInit
<1>5. view = Board!Name => BoardInv
  BY InitOfView, BoardInit
<1>6. view = Board!Name => BoardBusy
  BY InitOfView, BoardBusyInit
<1>7. view = Recent!Name => RecentInv
  BY InitOfView, RecentInit
<1>8. view = Period!Name => PeriodInv
  BY InitOfView, PeriodInit
<1>9. view = OfCustomer!Name => OfCustomerInv
  BY InitOfView, OfCustomerInit
<1>10. view = CustFields!Name => CustFieldsInv
  BY InitOfView, CustFieldsInit
<1>11. view = Search!Name => SearchInv
  BY InitOfView, SearchInit
<1>12. view = Settings!Name => SettingsInv
  BY InitOfView, SettingsInit
<1>13. view = SourceForm!Name => SourceFormInv
  BY InitOfView, SourceFormInit
<1>14. view = ParserForm!Name => ParserInv
  BY InitOfView, ParserFormInit
<1>15. view = Parser!Name => PageInv
  BY InitOfView, PageInit
<1>16. view = Cases!Name => CasesInv
  BY InitOfView, CasesInit
<1>17. view = Manage!Name => ManageInv
  BY InitOfView, ManageInit
<1>18. view = Manage!Name => ManageBusy
  BY InitOfView, ManageBusyInit
<1>19. view = Admin!Name => AdminInv
  BY InitOfView, AdminInit
<1>20. view = Panel!Name => PanelInv
  BY InitOfView, PanelInit
<1>21. view = Members!Name => MembersInv
  BY InitOfView, MembersInit
<1>22. view = Creation!Name => CreationInv
  BY InitOfView, CreationInit
<1>23. view = Creation!Name => CreationBusy
  BY InitOfView, CreationBusyInit
<1>24. view = Wizard!Name => WizardInv
  BY InitOfView, WizardInit
<1>25. view = Centre!Name => CentreInv
  BY InitOfView, CentreInit
<1>26. view = Choice!Name => ChoiceInv
  BY InitOfView, ChoiceInit
<1>27. view = Choice!Name => ChoiceBusy
  BY InitOfView, ChoiceBusyInit
<1>28. view = Route!Name => RouteBusy
  BY InitOfView, RouteBusyInit
<1>29. view = Recent!Name => RecentTypes
  BY InitOfView, RecentTypesInit
<1>30. view = Alarms!Name => AlarmsTypes
  BY InitOfView, AlarmsTypesInit
<1>31. view = Export!Name => ExportTypes
  BY InitOfView, ExportTypesInit
<1>32. view = OfCustomer!Name => OfCustomerTypes
  BY InitOfView, OfCustomerTypesInit
<1>33. view = Search!Name => SearchTypes
  BY InitOfView, SearchTypesInit
<1>34. view = Saved!Name => SavedTypes
  BY InitOfView, SavedTypesInit
<1>35. view = Settings!Name => SettingsTypes
  BY InitOfView, SettingsTypesInit
<1>36. view = Manage!Name => ManageTypes
  BY InitOfView, ManageTypesInit
<1>37. view = Admin!Name => AdminTypes
  BY InitOfView, AdminTypesInit
<1>38. view = Creation!Name => CreationTypes
  BY InitOfView, CreationTypesInit
<1>39. view = Wizard!Name => WizardTypes
  BY InitOfView, WizardTypesInit
<1>40. view = Choice!Name => ChoiceTypes
  BY InitOfView, ChoiceTypesInit
<1>41. view = Route!Name => RouteTypes
  BY InitOfView, RouteTypesInit
<1> QED
  BY <1>1, <1>2, <1>3, <1>4, <1>5, <1>6, <1>7, <1>8, <1>9, <1>10, <1>11, <1>12, <1>13,
     <1>14, <1>15, <1>16, <1>17, <1>18, <1>19, <1>20, <1>21, <1>22, <1>23, <1>24, <1>25,
     <1>26, <1>27, <1>28, <1>29, <1>30, <1>31, <1>32, <1>33, <1>34, <1>35, <1>36, <1>37,
     <1>38, <1>39, <1>40, <1>41 DEF ViewInv

\* Nothing is mounted but what was.
LEMMA ViewStutters == ASSUME ViewInv, UNCHANGED vars PROVE ViewInv'
<1>1. view' = view /\ ui' = ui /\ net' = net /\ srv' = srv
  BY DEF vars
<1>2. AlarmsInv => AlarmsInv'
  BY AlarmsStays
<1>3. FieldsInv => FieldsInv'
  BY FieldsStays
<1>4. ExportInv => ExportInv'
  BY ExportStays
<1>5. DetailInv => DetailInv'
  BY DetailStays
<1>6. BoardInv => BoardInv'
  BY BoardStays
<1>7. BoardBusy => BoardBusy'
  BY BoardBusyStays
<1>8. RecentInv => RecentInv'
  BY RecentStays
<1>9. PeriodInv => PeriodInv'
  BY PeriodStays
<1>10. OfCustomerInv => OfCustomerInv'
  BY OfCustomerStays
<1>11. CustFieldsInv => CustFieldsInv'
  BY CustFieldsStays
<1>12. SearchInv => SearchInv'
  BY SearchStays
<1>13. SettingsInv => SettingsInv'
  BY SettingsStays
<1>14. SourceFormInv => SourceFormInv'
  BY SourceFormUnchanged
<1>15. ParserInv => ParserInv'
  BY ParserFormStays
<1>16. PageInv => PageInv'
  BY PageStays
<1>17. CasesInv => CasesInv'
  BY CasesStays
<1>18. ManageInv => ManageInv'
  BY ManageStays
<1>19. ManageBusy => ManageBusy'
  BY ManageBusyStays
<1>20. AdminInv => AdminInv'
  BY AdminStays
<1>21. PanelInv => PanelInv'
  BY PanelStays
<1>22. MembersInv => MembersInv'
  BY MembersStays
<1>23. CreationInv => CreationInv'
  BY CreationStays
<1>24. CreationBusy => CreationBusy'
  BY CreationBusyStays
<1>25. WizardInv => WizardInv'
  BY <1>1 DEF WizardInv, LastDone, Wizard!LastIsCompleted
<1>26. CentreInv => CentreInv'
  BY CentreStays
<1>27. ChoiceInv => ChoiceInv'
  BY <1>1 DEF ChoiceInv, Choice!SignedOutChoosesNone
<1>28. ChoiceBusy => ChoiceBusy'
  BY ChoiceBusyStays
<1>29. RouteBusy => RouteBusy'
  BY RouteBusyStays
<1>30. RecentTypes => RecentTypes'
  BY RecentTypesStay
<1>31. AlarmsTypes => AlarmsTypes'
  BY AlarmsTypesStay
<1>32. ExportTypes => ExportTypes'
  BY ExportTypesStay
<1>33. OfCustomerTypes => OfCustomerTypes'
  BY OfCustomerTypesStay
<1>34. SearchTypes => SearchTypes'
  BY SearchTypesStay
<1>35. SavedTypes => SavedTypes'
  BY SavedTypesStay
<1>36. SettingsTypes => SettingsTypes'
  BY SettingsTypesStay
<1>37. ManageTypes => ManageTypes'
  BY ManageTypesStay
<1>38. AdminTypes => AdminTypes'
  BY AdminTypesStay
<1>39. CreationTypes => CreationTypes'
  BY CreationTypesStay
<1>40. WizardTypes => WizardTypes'
  BY WizardTypesStay
<1>41. ChoiceTypes => ChoiceTypes'
  BY ChoiceTypesStay
<1>42. RouteTypes => RouteTypes'
  BY RouteTypesStay
<1> QED
  BY <1>1, <1>2, <1>3, <1>4, <1>5, <1>6, <1>7, <1>8, <1>9, <1>10, <1>11, <1>12, <1>13,
     <1>14, <1>15, <1>16, <1>17, <1>18, <1>19, <1>20, <1>21, <1>22, <1>23, <1>24, <1>25,
     <1>26, <1>27, <1>28, <1>29, <1>30, <1>31, <1>32, <1>33, <1>34, <1>35, <1>36, <1>37,
     <1>38, <1>39, <1>40, <1>41, <1>42
     DEF ViewInv, Alarms!Name, Fields!Name, Export!Name, Detail!Name, Board!Name,
         Board!Name, Recent!Name, Period!Name, OfCustomer!Name, CustFields!Name,
         Search!Name, Settings!Name, SourceForm!Name, ParserForm!Name, Parser!Name,
         Cases!Name, Manage!Name, Manage!Name, Admin!Name, Panel!Name, Members!Name,
         Creation!Name, Creation!Name, Wizard!Name, Centre!Name, Choice!Name, Choice!Name,
         Route!Name, Recent!Name, Alarms!Name, Export!Name, OfCustomer!Name, Search!Name,
         Saved!Name, Settings!Name, Manage!Name, Admin!Name, Creation!Name, Wizard!Name,
         Choice!Name, Route!Name

\* A step of the mounted view keeps its invariant; the other views are not mounted.
LEMMA ViewStep == ViewInv /\ [Next]_vars => ViewInv'
<1> SUFFICES ASSUME ViewInv, [Next]_vars PROVE ViewInv'
  OBVIOUS
<1>1. CASE Next
  <2>1. view' = view
    BY <1>1, StepOfView
  <2>2. view = Alarms!Name => AlarmsInv'
    BY <1>1, StepOfView, AlarmsStep DEF ViewInv
  <2>3. view = Fields!Name => FieldsInv'
    BY <1>1, StepOfView, FieldsStep DEF ViewInv
  <2>4. view = Export!Name => ExportInv'
    BY <1>1, StepOfView, ExportStep DEF ViewInv
  <2>5. view = Detail!Name => DetailInv'
    BY <1>1, StepOfView, DetailStep DEF ViewInv
  <2>6. view = Board!Name => BoardInv'
    BY <1>1, StepOfView, BoardStep DEF ViewInv
  <2>7. view = Board!Name => BoardBusy'
    BY <1>1, StepOfView, BoardBusyStep DEF ViewInv
  <2>8. view = Recent!Name => RecentInv'
    BY <1>1, StepOfView, RecentStep DEF ViewInv
  <2>9. view = Period!Name => PeriodInv'
    BY <1>1, StepOfView, PeriodStep DEF ViewInv
  <2>10. view = OfCustomer!Name => OfCustomerInv'
    BY <1>1, StepOfView, OfCustomerStep DEF ViewInv
  <2>11. view = CustFields!Name => CustFieldsInv'
    BY <1>1, StepOfView, CustFieldsStep DEF ViewInv
  <2>12. view = Search!Name => SearchInv'
    BY <1>1, StepOfView, SearchStep DEF ViewInv
  <2>13. view = Settings!Name => SettingsInv'
    BY <1>1, StepOfView, SettingsStep DEF ViewInv
  <2>14. view = SourceForm!Name => SourceFormInv'
    BY <1>1, StepOfView, SourceFormStep DEF ViewInv
  <2>15. view = ParserForm!Name => ParserInv'
    BY <1>1, StepOfView, ParserFormStep DEF ViewInv
  <2>16. view = Parser!Name => PageInv'
    BY <1>1, StepOfView, PageStep DEF ViewInv
  <2>17. view = Cases!Name => CasesInv'
    BY <1>1, StepOfView, CasesStep DEF ViewInv
  <2>18. view = Manage!Name => ManageInv'
    BY <1>1, StepOfView, ManageStep DEF ViewInv
  <2>19. view = Manage!Name => ManageBusy'
    BY <1>1, StepOfView, ManageBusyStep DEF ViewInv
  <2>20. view = Admin!Name => AdminInv'
    BY <1>1, StepOfView, AdminStep DEF ViewInv
  <2>21. view = Panel!Name => PanelInv'
    BY <1>1, StepOfView, PanelStep DEF ViewInv
  <2>22. view = Members!Name => MembersInv'
    BY <1>1, StepOfView, MembersStep DEF ViewInv
  <2>23. view = Creation!Name => CreationInv'
    BY <1>1, StepOfView, CreationStep DEF ViewInv
  <2>24. view = Creation!Name => CreationBusy'
    BY <1>1, StepOfView, CreationBusyStep DEF ViewInv
  <2>25. view = Wizard!Name => WizardInv'
    BY <1>1, StepOfView, WizardStep DEF ViewInv
  <2>26. view = Centre!Name => CentreInv'
    BY <1>1, StepOfView, CentreStep DEF ViewInv
  <2>27. view = Choice!Name => ChoiceInv'
    BY <1>1, StepOfView, ChoiceStep DEF ViewInv
  <2>28. view = Choice!Name => ChoiceBusy'
    BY <1>1, StepOfView, ChoiceBusyStep DEF ViewInv
  <2>29. view = Route!Name => RouteBusy'
    BY <1>1, StepOfView, RouteBusyStep DEF ViewInv
  <2>30. view = Recent!Name => RecentTypes'
    BY <1>1, StepOfView, RecentTypesStep DEF ViewInv
  <2>31. view = Alarms!Name => AlarmsTypes'
    BY <1>1, StepOfView, AlarmsTypesStep DEF ViewInv
  <2>32. view = Export!Name => ExportTypes'
    BY <1>1, StepOfView, ExportTypesStep DEF ViewInv
  <2>33. view = OfCustomer!Name => OfCustomerTypes'
    BY <1>1, StepOfView, OfCustomerTypesStep DEF ViewInv
  <2>34. view = Search!Name => SearchTypes'
    BY <1>1, StepOfView, SearchTypesStep DEF ViewInv
  <2>35. view = Saved!Name => SavedTypes'
    BY <1>1, StepOfView, SavedTypesStep DEF ViewInv
  <2>36. view = Settings!Name => SettingsTypes'
    BY <1>1, StepOfView, SettingsTypesStep DEF ViewInv
  <2>37. view = Manage!Name => ManageTypes'
    BY <1>1, StepOfView, ManageTypesStep DEF ViewInv
  <2>38. view = Admin!Name => AdminTypes'
    BY <1>1, StepOfView, AdminTypesStep DEF ViewInv
  <2>39. view = Creation!Name => CreationTypes'
    BY <1>1, StepOfView, CreationTypesStep DEF ViewInv
  <2>40. view = Wizard!Name => WizardTypes'
    BY <1>1, StepOfView, WizardTypesStep DEF ViewInv
  <2>41. view = Choice!Name => ChoiceTypes'
    BY <1>1, StepOfView, ChoiceTypesStep DEF ViewInv
  <2>42. view = Route!Name => RouteTypes'
    BY <1>1, StepOfView, RouteTypesStep DEF ViewInv
  <2> QED
    BY <2>1, <2>2, <2>3, <2>4, <2>5, <2>6, <2>7, <2>8, <2>9, <2>10, <2>11, <2>12, <2>13,
       <2>14, <2>15, <2>16, <2>17, <2>18, <2>19, <2>20, <2>21, <2>22, <2>23, <2>24, <2>25,
       <2>26, <2>27, <2>28, <2>29, <2>30, <2>31, <2>32, <2>33, <2>34, <2>35, <2>36, <2>37,
       <2>38, <2>39, <2>40, <2>41, <2>42
       DEF ViewInv, Alarms!Name, Fields!Name, Export!Name, Detail!Name, Board!Name,
           Board!Name, Recent!Name, Period!Name, OfCustomer!Name, CustFields!Name,
           Search!Name, Settings!Name, SourceForm!Name, ParserForm!Name, Parser!Name,
           Cases!Name, Manage!Name, Manage!Name, Admin!Name, Panel!Name, Members!Name,
           Creation!Name, Creation!Name, Wizard!Name, Centre!Name, Choice!Name, Choice!Name,
           Route!Name, Recent!Name, Alarms!Name, Export!Name, OfCustomer!Name, Search!Name,
           Saved!Name, Settings!Name, Manage!Name, Admin!Name, Creation!Name, Wizard!Name,
           Choice!Name, Route!Name
<1>2. CASE UNCHANGED vars
  BY <1>2, ViewStutters
<1> QED
  BY <1>1, <1>2

\* No view runs ahead of what the server has granted or made: the sections and tabs
\* of the console are those of the permissions (AdminConfigPage.tsx), the wizard is
\* of a tenant that exists (TabTenant.tsx), the last step is stored as completed
\* (OnboardingWizard.tsx), who is signed out has chosen no customer
\* (CustomerContext.tsx), the browser goes to the first host that answers
\* (ProtectedRoute.tsx).
THEOREM AlwaysGranted == Spec => []GrantedBeforeShown
<1>1. ViewInv => GrantedBeforeShown
  BY DEF ViewInv, ManageInv, CreationInv, WizardInv, ChoiceInv, RouteInv,
         RouteBusy, GrantedBeforeShown
<1> QED
  BY <1>1, ViewInit, ViewStep, PTL DEF Spec

\* What the user edits or selects is what the view shows, whatever answers arrive
\* meanwhile: the form is of the fields (ActiveAlarmsPage.tsx,
\* CustomerAlarmsPage.tsx) or source (SourcesPage.tsx) beside it, the state and the
\* assignee are chosen for the alert shown (AlertDetailPage.tsx), an account that is
\* edited is in the table (PanelUsers), the dialog of a membership has a customer
\* (TabRuoli.tsx), a selected row is on the screen (ActiveAlarmsPage.tsx), the case
\* drawn has failed (ParserTestCases.tsx), a popup is shown once (AppLayout.tsx).
\* The parser in the form is that of the selected source, sources deleted under it
\* included, unless requests crossed a change of the selection; the text, the tag and
\* the file of an alert are for the alert shown unless another was opened under them.
THEOREM ActsOnWhatIsShown == Spec => []ActsOnShown
<1>1. ViewInv => ActsOnShown
  <2>1. FieldsInv => Fields!SchemaOfKey
    BY FieldsHolds
  <2>2. CustFieldsInv => CustFields!SchemaOfKey
    BY CustFieldsHolds
  <2>3. DetailInv => Detail!ChoiceIsForShown
    BY DetailHolds
  <2>4. SourceFormInv => SourceForm!FormIsOfSelected
    BY SourceFormHolds
  <2>5. ParserInv => ParserForm!HeldIsOfSelected
    BY ParserFormHolds
  <2>6. PanelInv => Panel!EditNeverCreates
    BY PanelSays
  <2>7. MembersInv => Members!DialogHasCustomer
    BY MembersSays
  <2>8. AlarmsInv => Alarms!SelectionIsShown
    BY AlarmsSay
  <2>9. CasesInv => Cases!DrawnHasFailed
    BY CasesSay
  <2>10. CentreInv => Centre!PopupIsShownOnce
    BY CentreSays
  <2> QED
    BY <2>1, <2>2, <2>3, <2>4, <2>5, <2>6, <2>7, <2>8, <2>9, <2>10 DEF ViewInv, ActsOnShown
<1> QED
  BY <1>1, ViewInit, ViewStep, PTL DEF Spec

\* What the user arranges stays whole: the layout of the home page has every widget
\* once, whatever is dragged, reset or answered (HomePage.tsx), the table of recent
\* alarms a column (HomePage.tsx), the time range an end after its beginning
\* (TimeRangeContext.tsx).
THEOREM ArrangementKept == Spec => []ArrangementIsWhole
<1>1. ViewInv => ArrangementIsWhole
  BY DEF ViewInv, ArrangementIsWhole, BoardInv, RecentInv, PeriodInv
<1> QED
  BY <1>1, ViewInit, ViewStep, PTL DEF Spec

\* The flags by which a view waits, of a load, a save, an export or a comparison, are
\* set only while an answer is still to come: none is left behind by another call, a
\* failure, a save by the editor's key or a dialog that was closed meanwhile, in each
\* of the twenty views that have one.  The bar of a row that opens, which
\* ensureAlertDetail sets without a request (ActiveAlarmsPage.tsx:697-713), is not
\* one of these flags.
THEOREM NothingWaitsForNothing == Spec => []BusyIsAwaited
<1>1. ViewInv => BusyIsAwaited
  <2>1. AlarmsInv => Alarms!BusyIsAwaited
    BY AlarmsSay
  <2>2. FieldsInv => Fields!BusyIsAwaited
    BY FieldsHolds
  <2>3. ExportInv => Export!BusyIsAwaited
    BY ExportSays
  <2>4. DetailInv => Detail!BusyIsAwaited
    BY DetailHolds
  <2>5. BoardBusy => Board!BusyIsAwaited
    BY BoardBusySays
  <2>6. RecentInv => Recent!BusyIsAwaited
    BY DEF RecentInv
  <2>7. OfCustomerInv => OfCustomer!BusyIsAwaited
    BY OfCustomerSays
  <2>8. CustFieldsInv => CustFields!BusyIsAwaited
    BY CustFieldsHolds
  <2>9. SearchInv => Search!BusyIsAwaited
    BY SearchSays
  <2>10. SettingsInv => Settings!BusyIsAwaited
    BY SettingsSays
  <2>11. SourceFormInv => SourceForm!BusyIsAwaited
    BY SourceFormHolds
  <2>12. ParserInv => ParserForm!BusyIsAwaited
    BY ParserFormHolds
  <2>13. PageInv => Parser!BusyIsAwaited
    BY PageSays
  <2>14. CasesInv => Cases!BusyIsAwaited
    BY CasesSay
  <2>15. ManageBusy => Manage!BusyIsAwaited
    BY ManageBusySays
  <2>16. AdminInv => Admin!BusyIsAwaited
    BY AdminSays
  <2>17. PanelInv => Panel!BusyIsAwaited
    BY PanelSays
  <2>18. CreationBusy => Creation!BusyIsAwaited
    BY CreationBusySays
  <2>19. ChoiceBusy => Choice!BusyIsAwaited
    BY ChoiceBusySays
  <2>20. RouteBusy => Route!BusyIsAwaited
    BY DEF RouteBusy
  <2> QED
    BY <2>1, <2>2, <2>3, <2>4, <2>5, <2>6, <2>7, <2>8, <2>9, <2>10, <2>11, <2>12, <2>13,
       <2>14, <2>15, <2>16, <2>17, <2>18, <2>19, <2>20
       DEF ViewInv, BusyIsAwaited
<1> QED
  BY <1>1, ViewInit, ViewStep, PTL DEF Spec

\* A write whose button is disabled meanwhile is in flight once, whatever else
\* resets the flag the button reads: the bulk change, the exports, the saves of
\* fields, layout, settings, source, parser and case, the creation of a tenant.  The
\* save key of the parser's editor reads no flag (MonacoEditor.tsx:189-197): of the
\* parser, the writes are one at a time unless one of them is by that key.
THEOREM NothingWrittenTwice == Spec => []OneWrite
<1>1. ViewInv => OneWrite
  <2>1. AlarmsInv => Alarms!OneBulk
    BY AlarmsSay
  <2>2. FieldsInv => Fields!OneWrite
    BY FieldsHolds
  <2>3. ExportInv => Export!OneWrite
    BY ExportSays
  <2>4. BoardBusy => Board!OneWrite
    BY BoardBusySays
  <2>5. OfCustomerInv => OfCustomer!OneWrite
    BY OfCustomerSays
  <2>6. CustFieldsInv => CustFields!OneWrite
    BY CustFieldsHolds
  <2>7. SearchInv => Search!OneWrite
    BY SearchSays
  <2>8. SettingsInv => Settings!OneWrite
    BY SettingsSays
  <2>9. SourceFormInv => SourceForm!OneWrite
    BY SourceFormHolds
  <2>10. ParserInv => ParserForm!OneWrite
    BY ParserFormHolds
  <2>11. PageInv => Parser!OneWrite
    BY PageSays
  <2>12. CasesInv => Cases!OneWrite
    BY CasesSay
  <2>13. CreationBusy => Creation!OneWrite
    BY CreationBusySays
  <2> QED
    BY <2>1, <2>2, <2>3, <2>4, <2>5, <2>6, <2>7, <2>8, <2>9, <2>10, <2>11, <2>12, <2>13
       DEF ViewInv, OneWrite
<1> QED
  BY <1>1, ViewInit, ViewStep, PTL DEF Spec

\* Whatever is clicked, answered, lost or answered late, the state of the mounted
\* view is of its types: a row is an alarm, a selection a row's, a question one that
\* the page can ask (App.tsx and the pages it mounts).
THEOREM TypeCorrect == Spec => []TypeOK
<1>1. ViewInv => TypeOK
  <2>1. AlarmsTypes => Alarms!TypeOK
    BY AlarmsAreTyped
  <2>2. FieldsInv => Fields!TypeOK
    BY FieldsHolds
  <2>3. ExportTypes => Export!TypeOK
    BY ExportIsTyped
  <2>4. DetailInv => Detail!TypeOK
    BY DetailHolds
  <2>5. BoardInv /\ BoardBusy => Board!TypeOK
    BY BoardIsTyped
  <2>6. RecentTypes => Recent!TypeOK
    BY DEF RecentTypes
  <2>7. PeriodInv => Period!TypeOK
    BY DEF PeriodInv, Period!TypeOK
  <2>8. OfCustomerTypes => OfCustomer!TypeOK
    BY OfCustomerIsTyped
  <2>9. CustFieldsInv => CustFields!TypeOK
    BY CustFieldsHolds
  <2>10. SearchTypes => Search!TypeOK
    BY SearchIsTyped
  <2>11. SavedTypes => Saved!TypeOK
    BY SavedIsTyped
  <2>12. SettingsTypes => Settings!TypeOK
    BY SettingsIsTyped
  <2>13. SourceFormInv => SourceForm!TypeOK
    BY SourceFormHolds
  <2>14. ParserInv => ParserForm!TypeOK
    BY ParserFormHolds
  <2>15. PageInv => Parser!TypeOK
    BY PageSays
  <2>16. CasesInv => Cases!TypeOK
    BY CasesSay
  <2>17. ManageTypes => Manage!TypeOK
    BY ManageIsTyped
  <2>18. AdminTypes => Admin!TypeOK
    BY AdminIsTyped
  <2>19. PanelInv => Panel!TypeOK
    BY PanelSays
  <2>20. MembersInv => Members!TypeOK
    BY MembersSays
  <2>21. CreationTypes => Creation!TypeOK
    BY CreationIsTyped
  <2>22. WizardTypes => Wizard!TypeOK
    BY WizardIsTyped
  <2>23. CentreInv => Centre!TypeOK
    BY CentreSays
  <2>24. ChoiceTypes => Choice!TypeOK
    BY ChoiceIsTyped
  <2>25. RouteTypes => Route!TypeOK
    BY RouteIsTyped
  <2> QED
    BY <2>1, <2>2, <2>3, <2>4, <2>5, <2>6, <2>7, <2>8, <2>9, <2>10, <2>11, <2>12, <2>13,
       <2>14, <2>15, <2>16, <2>17, <2>18, <2>19, <2>20, <2>21, <2>22, <2>23, <2>24, <2>25
       DEF ViewInv, TypeOK
<1> QED
  BY <1>1, ViewInit, ViewStep, PTL DEF Spec
=============================================================================
