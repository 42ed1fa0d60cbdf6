----------------------------- MODULE ViewsProofs ------------------------------
(* The views of the alarms, of the home page, of a customer, of sources and of *)
(* parsers, for every value of the constants: each has an invariant that its   *)
(* mount establishes (XInit), its steps keep (XStep) and a stutter keeps       *)
(* (XStays), for view X.                                                       *)
EXTENDS Frontend, Sequences, FiniteSetTheorems, TLAPS

\* A set whose elements are all the same has one at most.
LEMMA LoneCardinality ==
  ASSUME NEW S, \A r, x \in S : r = x
  PROVE  Cardinality(S) <= 1
<1>1. CASE S = {}
  BY <1>1, FS_EmptySet
<1>2. CASE S # {}
  <2>1. PICK x : S = {x}
    BY <1>2
  <2> QED
    BY <2>1, FS_Singleton
<1> QED
  BY <1>1, <1>2

-----------------------------------------------------------------------------
(* ActiveAlarms: what is selected is on the screen, one bulk action at a time. *)

ListFields == {"rows", "total", "q", "p", "c", "due", "loading", "sel", "all", "bulk"}
Bulks == {"bulkAll", "bulkIds", "reload"}

ListShape(u) ==
  DOMAIN u = ListFields /\ u.loading \in BOOLEAN /\ u.all \in BOOLEAN /\ u.bulk \in BOOLEAN

\* What a state u of the list holds, and what its flags wait for in the calls N.
ListHolds(u) == ListShape(u) /\ (u.all \/ u.sel \subseteq u.rows)
ListWaits(u, N) ==
  /\ u.loading => \E r \in N : r.op \in {"load", "reload"}
  /\ u.bulk <=> \E r \in N : r.op \in Bulks
  /\ \A r, x \in N : r.op \in Bulks /\ x.op \in Bulks => r = x

AlarmsInv == ListHolds(ui) /\ ListWaits(ui, net) /\ \A r \in net : DOMAIN r = {"id", "op", "key"}

LEMMA AlarmsInit == Alarms!Init => AlarmsInv
<1> SUFFICES ASSUME Alarms!Init PROVE AlarmsInv
  OBVIOUS
<1>1. /\ DOMAIN ui = ListFields /\ ui.loading = FALSE /\ ui.all = FALSE /\ ui.bulk = FALSE
      /\ ui.sel = {} /\ ui.rows = {}
  BY DEF Alarms!Init, Alarms!Shows, Alarms!Mounted, ListFields
<1>2. net = {}
  BY DEF Alarms!Init, Alarms!Shows
<1> QED
  BY <1>1, <1>2, Zenon DEF AlarmsInv, ListShape, ListHolds, ListWaits

\* The effect leaves the selection on the screen, and everything else.
LEMMA ListPrunes ==
  ASSUME NEW u, ListShape(u)
  PROVE  LET v == Alarms!PruneSelection(u)
         IN  ListHolds(v) /\ v.loading = u.loading /\ v.bulk = u.bulk
<1>1. PICK v : v = Alarms!PruneSelection(u)
  OBVIOUS
<1>2. CASE u.all
  <2>1. v = u
    BY <1>1, <1>2 DEF Alarms!PruneSelection
  <2> QED
    BY <1>1, <1>2, <2>1 DEF ListHolds
<1>3. CASE ~u.all
  <2>1. v = [u EXCEPT !.sel = u.sel \cap u.rows]
    BY <1>1, <1>3 DEF Alarms!PruneSelection, ListShape, ListFields
  <2>2. /\ DOMAIN v = ListFields /\ v.sel = u.sel \cap u.rows /\ v.rows = u.rows
        /\ v.loading = u.loading /\ v.bulk = u.bulk /\ v.all = u.all
    BY <2>1 DEF ListShape, ListFields
  <2>3. ListHolds(v)
    BY <2>2 DEF ListHolds, ListShape
  <2> QED
    BY <1>1, <2>2, <2>3
<1> QED
  BY <1>2, <1>3

\* A question is asked: the effect runs, and the timer may start.
LEMMA ListAsks ==
  ASSUME NEW u, ListShape(u)
  PROVE  LET v == Alarms!Ask(u)
         IN  ListHolds(v) /\ v.loading = u.loading /\ v.bulk = u.bulk
<1>1. PICK w : w = Alarms!PruneSelection(u)
  OBVIOUS
<1>2. ListHolds(w) /\ w.loading = u.loading /\ w.bulk = u.bulk
  BY <1>1, ListPrunes
<1>3. PICK v : v = Alarms!Ask(u)
  OBVIOUS
<1>4. PICK d : v = [w EXCEPT !.due = d]
  <2>1. PICK d : d = (w.due \/ <<u.q, u.p, u.c>> # <<ui.q, ui.p, ui.c>>)
    OBVIOUS
  <2>2. v = [w EXCEPT !.due = d]
    BY <1>1, <1>2, <1>3, <2>1 DEF Alarms!Ask, ListHolds, ListShape, ListFields
  <2> QED
    BY <2>2, Zenon
<1>5. /\ DOMAIN v = ListFields /\ v.sel = w.sel /\ v.rows = w.rows
      /\ v.loading = w.loading /\ v.bulk = w.bulk /\ v.all = w.all
  BY <1>2, <1>4 DEF ListHolds, ListShape, ListFields
<1>6. ListHolds(v)
  BY <1>2, <1>5 DEF ListHolds, ListShape
<1> QED
  BY <1>2, <1>3, <1>5, <1>6

\* A state v that waits for what u waits for.
LEMMA ListSame ==
  ASSUME NEW u, NEW v, NEW N, ListWaits(u, N), v.loading = u.loading, v.bulk = u.bulk
  PROVE  ListWaits(v, N)
BY DEF ListWaits

\* No call is sent, and the flags stay.
LEMMA AlarmsQuiet ==
  ASSUME AlarmsInv, ListHolds(ui'), ui'.loading = ui.loading, ui'.bulk = ui.bulk, net' = net
  PROVE  AlarmsInv'
<1>1. ListWaits(ui', net)
  BY ListSame DEF AlarmsInv
<1> QED
  BY <1>1 DEF AlarmsInv

\* The state x is shown after the effect, or after a question of its own.
LEMMA AlarmsShown ==
  ASSUME AlarmsInv, NEW x, ListShape(x), x.loading = ui.loading, x.bulk = ui.bulk, net' = net,
         ui' = Alarms!Ask(x) \/ ui' = Alarms!PruneSelection(x)
  PROVE  AlarmsInv'
<1>1. ListHolds(ui') /\ ui'.loading = ui.loading /\ ui'.bulk = ui.bulk
  BY ListPrunes, ListAsks
<1> QED
  BY <1>1, AlarmsQuiet

\* A filter, a chip, a page or the customer of the header changes.
LEMMA AlarmsAsk ==
  ASSUME AlarmsInv,
         Alarms!SetFilter \/ Alarms!RemoveChip \/ Alarms!ChangePage \/ Alarms!ChangeCustomer
  PROVE  AlarmsInv'
<1>1. ListShape(ui)
  BY DEF AlarmsInv, ListHolds
<1>2. net' = net
  BY Zenon DEF Alarms!SetFilter, Alarms!RemoveChip, Alarms!ChangePage, Alarms!ChangeCustomer
<1>3. CASE Alarms!SetFilter
  <2>1. PICK q : ui' = Alarms!Ask([ui EXCEPT !.q = q, !.p = 0])
    BY <1>3, Zenon DEF Alarms!SetFilter, Alarms!Reask
  <2>2. PICK x : x = [ui EXCEPT !.q = q, !.p = 0]
    OBVIOUS
  <2>3. ListShape(x) /\ x.loading = ui.loading /\ x.bulk = ui.bulk
    BY <1>1, <2>2 DEF ListShape, ListFields
  <2> QED
    BY <1>2, <2>1, <2>2, <2>3, AlarmsShown, Zenon
<1>4. CASE Alarms!RemoveChip
  <2>1. PICK q : ui' = Alarms!Ask([ui EXCEPT !.q = q])
    BY <1>4 DEF Alarms!RemoveChip
  <2>2. PICK x : x = [ui EXCEPT !.q = q]
    OBVIOUS
  <2>3. ListShape(x) /\ x.loading = ui.loading /\ x.bulk = ui.bulk
    BY <1>1, <2>2 DEF ListShape, ListFields
  <2> QED
    BY <1>2, <2>1, <2>2, <2>3, AlarmsShown, Zenon
<1>5. CASE Alarms!ChangePage
  <2>1. PICK p : ui' = Alarms!Ask([ui EXCEPT !.p = p])
    BY <1>5 DEF Alarms!ChangePage
  <2>2. PICK x : x = [ui EXCEPT !.p = p]
    OBVIOUS
  <2>3. ListShape(x) /\ x.loading = ui.loading /\ x.bulk = ui.bulk
    BY <1>1, <2>2 DEF ListShape, ListFields
  <2> QED
    BY <1>2, <2>1, <2>2, <2>3, AlarmsShown, Zenon
<1>6. CASE Alarms!ChangeCustomer
  <2>1. PICK c : ui' = Alarms!Ask([ui EXCEPT !.c = c, !.p = 0, !.sel = {}, !.all = FALSE])
    BY <1>6, Zenon DEF Alarms!ChangeCustomer
  <2>2. PICK x : x = [ui EXCEPT !.c = c, !.p = 0, !.sel = {}, !.all = FALSE]
    OBVIOUS
  <2>3. ListShape(x) /\ x.loading = ui.loading /\ x.bulk = ui.bulk
    BY <1>1, <2>2 DEF ListShape, ListFields
  <2> QED
    BY <1>2, <2>1, <2>2, <2>3, AlarmsShown, Zenon
<1> QED
  BY <1>3, <1>4, <1>5, <1>6

\* Rows are selected and deselected.
LEMMA AlarmsSelect ==
  ASSUME AlarmsInv,
         \/ Alarms!SelectPage \/ Alarms!SelectRow \/ Alarms!ToggleAllFiltered
         \/ Alarms!ClearSelection
  PROVE  AlarmsInv'
<1>1. ListShape(ui) /\ ListHolds(ui)
  BY DEF AlarmsInv, ListHolds
<1>2. net' = net
  BY Zenon DEF Alarms!SelectPage, Alarms!SelectRow, Alarms!ToggleAllFiltered,
         Alarms!ClearSelection
<1>5. CASE Alarms!SelectPage
  <2>1. CASE ui' = Alarms!PruneSelection([ui EXCEPT !.sel = @ \cup ui.rows])
    <3>1. PICK x : x = [ui EXCEPT !.sel = @ \cup ui.rows]
      OBVIOUS
    <3>2. ListShape(x) /\ x.loading = ui.loading /\ x.bulk = ui.bulk
      BY <1>1, <3>1 DEF ListShape, ListFields
    <3> QED
      BY <1>2, <2>1, <3>1, <3>2, AlarmsShown, Zenon
  <2>2. CASE ui' = Alarms!PruneSelection([ui EXCEPT !.sel = @ \ ui.rows, !.all = FALSE])
    <3>1. PICK x : x = [ui EXCEPT !.sel = @ \ ui.rows, !.all = FALSE]
      OBVIOUS
    <3>2. ListShape(x) /\ x.loading = ui.loading /\ x.bulk = ui.bulk
      BY <1>1, <3>1 DEF ListShape, ListFields
    <3> QED
      BY <1>2, <2>2, <3>1, <3>2, AlarmsShown, Zenon
  <2> QED
    BY <1>5, <2>1, <2>2 DEF Alarms!SelectPage
<1>6. CASE Alarms!SelectRow
  <2>1. PICK a \in ui.rows :
          \/ ~ui.all /\ ui' = [ui EXCEPT !.sel = @ \cup {a}]
          \/ ui' = Alarms!PruneSelection([ui EXCEPT !.sel = @ \ {a}, !.all = FALSE])
    BY <1>6, Zenon DEF Alarms!SelectRow
  <2>2. CASE ~ui.all /\ ui' = [ui EXCEPT !.sel = @ \cup {a}]
    <3>1. PICK x : x = [ui EXCEPT !.sel = @ \cup {a}]
      OBVIOUS
    <3>2. /\ DOMAIN x = ListFields /\ x.loading = ui.loading /\ x.bulk = ui.bulk
          /\ x.all = ui.all /\ x.sel = ui.sel \cup {a} /\ x.rows = ui.rows
      BY <1>1, <3>1 DEF ListShape, ListFields
    <3>3. ListHolds(x)
      BY <1>1, <2>1, <2>2, <3>2 DEF ListHolds, ListShape
    <3> QED
      BY <1>2, <2>2, <3>1, <3>2, <3>3, AlarmsQuiet
  <2>3. CASE ui' = Alarms!PruneSelection([ui EXCEPT !.sel = @ \ {a}, !.all = FALSE])
    <3>1. PICK x : x = [ui EXCEPT !.sel = @ \ {a}, !.all = FALSE]
      OBVIOUS
    <3>2. ListShape(x) /\ x.loading = ui.loading /\ x.bulk = ui.bulk
      BY <1>1, <3>1 DEF ListShape, ListFields
    <3> QED
      BY <1>2, <2>3, <3>1, <3>2, AlarmsShown, Zenon
  <2> QED
    BY <2>1, <2>2, <2>3
<1>7. CASE Alarms!ToggleAllFiltered
  <2>1. ui' = Alarms!PruneSelection([ui EXCEPT !.all = ~@])
    BY <1>7 DEF Alarms!ToggleAllFiltered
  <2>2. PICK x : x = [ui EXCEPT !.all = ~@]
    OBVIOUS
  <2>3. ListShape(x) /\ x.loading = ui.loading /\ x.bulk = ui.bulk
    BY <1>1, <2>2 DEF ListShape, ListFields
  <2> QED
    BY <1>2, <2>1, <2>2, <2>3, AlarmsShown, Zenon
<1>8. CASE Alarms!ClearSelection
  <2>1. ui' = Alarms!PruneSelection([ui EXCEPT !.sel = {}, !.all = FALSE])
    BY <1>8 DEF Alarms!ClearSelection, Alarms!Cleared
  <2>2. PICK x : x = [ui EXCEPT !.sel = {}, !.all = FALSE]
    OBVIOUS
  <2>3. ListShape(x) /\ x.loading = ui.loading /\ x.bulk = ui.bulk
    BY <1>1, <2>2 DEF ListShape, ListFields
  <2> QED
    BY <1>2, <2>1, <2>2, <2>3, AlarmsShown, Zenon
<1> QED
  BY <1>5, <1>6, <1>7, <1>8

\* The list is asked for: by the timer, or by the Enter key.
LEMMA AlarmsLoad ==
  ASSUME AlarmsInv, Alarms!DebounceFires \/ Alarms!PressEnter
  PROVE  AlarmsInv'
<1>1. ListHolds(ui) /\ ListShape(ui) /\ ListWaits(ui, net)
  BY DEF AlarmsInv, ListHolds
<1>2. PICK n : n = [id |-> Alarms!Fresh, op |-> "load", key |-> Alarms!Key(ui)]
  OBVIOUS
<1>3. DOMAIN n = {"id", "op", "key"} /\ n.op = "load"
  BY <1>2
<1>4. net' = net \cup {n}
  BY <1>2 DEF Alarms!DebounceFires, Alarms!PressEnter, Alarms!StartLoad, Alarms!Sent
<1>5. ListHolds(ui') /\ ui'.loading = TRUE /\ ui'.bulk = ui.bulk
  <2>1. CASE Alarms!DebounceFires
    <3>1. PICK v : v = ui' /\ v = [ui EXCEPT !.loading = TRUE, !.due = FALSE]
      BY <2>1 DEF Alarms!DebounceFires, Alarms!StartLoad
    <3>2. /\ DOMAIN v = ListFields /\ v.sel = ui.sel /\ v.rows = ui.rows
          /\ v.loading = TRUE /\ v.bulk = ui.bulk /\ v.all = ui.all
      BY <1>1, <3>1 DEF ListShape, ListFields
    <3> QED
      BY <1>1, <3>1, <3>2 DEF ListHolds, ListShape
  <2>2. CASE Alarms!PressEnter
    <3>1. PICK x : x = [ui EXCEPT !.p = 0]
      OBVIOUS
    <3>2. ListShape(x) /\ x.bulk = ui.bulk
      BY <1>1, <3>1 DEF ListShape, ListFields
    <3>3. PICK w : w = Alarms!Ask(x)
      OBVIOUS
    <3>4. ListHolds(w) /\ w.bulk = ui.bulk
      BY <3>2, <3>3, ListAsks
    <3>5. PICK v : v = ui' /\ v = [w EXCEPT !.loading = TRUE]
      BY <2>2, <3>1, <3>3 DEF Alarms!PressEnter
    <3>6. /\ DOMAIN v = ListFields /\ v.sel = w.sel /\ v.rows = w.rows
          /\ v.loading = TRUE /\ v.bulk = w.bulk /\ v.all = w.all
      BY <3>4, <3>5 DEF ListHolds, ListShape, ListFields
    <3> QED
      BY <3>4, <3>5, <3>6 DEF ListHolds, ListShape
  <2> QED
    BY <2>1, <2>2, Zenon
<1>6. ListWaits(ui', net')
  BY <1>1, <1>3, <1>4, <1>5 DEF ListWaits, Bulks
<1> QED
  BY <1>3, <1>4, <1>5, <1>6 DEF AlarmsInv

\* The rows of an answer, to a load or to the one that ends a bulk action.
LEMMA AlarmsAnswered ==
  ASSUME AlarmsInv, Alarms!AnswerLoad \/ Alarms!BulkReloaded
  PROVE  AlarmsInv'
<1>1. ListHolds(ui) /\ ListShape(ui) /\ ListWaits(ui, net)
  BY DEF AlarmsInv, ListHolds
<1>2. CASE Alarms!AnswerLoad
  <2>1. PICK r, rows, t :
          /\ r \in net
          /\ r.op = "load" /\ net' = net \ {r}
          /\ ui' = Alarms!PruneSelection([ui EXCEPT !.rows = rows, !.total = t, !.loading = FALSE])
    BY <1>2, Zenon DEF Alarms!AnswerLoad, Alarms!Pending, Alarms!Without
  <2>2. PICK x : x = [ui EXCEPT !.rows = rows, !.total = t, !.loading = FALSE]
    OBVIOUS
  <2>3. ListShape(x) /\ x.loading = FALSE /\ x.bulk = ui.bulk
    BY <1>1, <2>2 DEF ListShape, ListFields
  <2>4. ListHolds(ui') /\ ui'.loading = FALSE /\ ui'.bulk = ui.bulk
    BY <2>1, <2>2, <2>3, ListPrunes, Zenon
  <2>5. ListWaits(ui', net')
    BY <1>1, <2>1, <2>4 DEF ListWaits, Bulks
  <2> QED
    BY <2>1, <2>4, <2>5 DEF AlarmsInv
<1>3. CASE Alarms!BulkReloaded
  <2>1. PICK r, rows, t :
          /\ r \in net
          /\ r.op = "reload" /\ net' = net \ {r}
          /\ ui' = Alarms!PruneSelection([ui EXCEPT !.rows = rows, !.total = t,
                                                    !.loading = FALSE, !.bulk = FALSE])
    BY <1>3, Zenon DEF Alarms!BulkReloaded, Alarms!Pending, Alarms!Without
  <2>2. PICK x : x = [ui EXCEPT !.rows = rows, !.total = t, !.loading = FALSE, !.bulk = FALSE]
    OBVIOUS
  <2>3. ListShape(x) /\ x.loading = FALSE /\ x.bulk = FALSE
    BY <1>1, <2>2 DEF ListShape, ListFields
  <2>4. ListHolds(ui') /\ ui'.loading = FALSE /\ ui'.bulk = FALSE
    BY <2>1, <2>2, <2>3, ListPrunes, Zenon
  <2>5. ListWaits(ui', net')
    BY <1>1, <2>1, <2>4 DEF ListWaits, Bulks
  <2> QED
    BY <2>1, <2>4, <2>5 DEF AlarmsInv
<1> QED
  BY <1>2, <1>3

\* A bulk action begins, fails, or has been applied and loads the list again.
LEMMA AlarmsBulk ==
  ASSUME AlarmsInv, Alarms!ConfirmBulk \/ Alarms!BulkSettled \/ Alarms!BulkFails
  PROVE  AlarmsInv'
<1>1. /\ ListHolds(ui) /\ ListShape(ui) /\ ListWaits(ui, net)
      /\ \A r \in net : DOMAIN r = {"id", "op", "key"}
  BY DEF AlarmsInv, ListHolds
<1>2. CASE Alarms!ConfirmBulk
  <2>1. PICK op, k :
          /\ op \in {"bulkAll", "bulkIds"}
          /\ ~ui.bulk /\ net' = Alarms!Sent(op, k) /\ ui' = [ui EXCEPT !.bulk = TRUE]
    BY <1>2 DEF Alarms!ConfirmBulk
  <2>2. PICK n : n = [id |-> Alarms!Fresh, op |-> op, key |-> k]
    OBVIOUS
  <2>3. DOMAIN n = {"id", "op", "key"} /\ n.op = op /\ net' = net \cup {n}
    BY <2>1, <2>2 DEF Alarms!Sent
  <2>4. PICK v : v = ui'
    OBVIOUS
  <2>5. /\ DOMAIN v = ListFields /\ v.sel = ui.sel /\ v.rows = ui.rows
        /\ v.loading = ui.loading /\ v.bulk = TRUE /\ v.all = ui.all
    BY <1>1, <2>1, <2>4 DEF ListShape, ListFields
  <2>6. ListHolds(v)
    BY <1>1, <2>5, Zenon DEF ListHolds, ListShape
  <2>7. ListWaits(v, net')
    BY <1>1, <2>1, <2>3, <2>5 DEF ListWaits, Bulks
  <2> QED
    BY <1>1, <2>3, <2>4, <2>6, <2>7 DEF AlarmsInv
<1>3. CASE Alarms!BulkSettled
  <2>0. PICK r \in net :
          /\ r.op \in {"bulkAll", "bulkIds"}
          /\ \E d \in IF r.op = "bulkAll" THEN {Alarms!Targets(r)} ELSE SUBSET Alarms!Targets(r) :
               /\ ui' = [Alarms!Cleared(ui) EXCEPT !.loading = TRUE]
               /\ net' = (net \ {r}) \cup {[r EXCEPT !.op = "reload", !.key.ids = d]}
    BY <1>3, Zenon DEF Alarms!BulkSettled, Alarms!Pending, Alarms!Without
  <2>1. PICK d :
          /\ ui' = [Alarms!Cleared(ui) EXCEPT !.loading = TRUE]
          /\ net' = (net \ {r}) \cup {[r EXCEPT !.op = "reload", !.key.ids = d]}
    BY <2>0, Zenon
  <2>2. PICK x, w, v :
          /\ x = [ui EXCEPT !.sel = {}, !.all = FALSE] /\ w = Alarms!Cleared(ui) /\ v = ui'
    OBVIOUS
  <2>3. ListShape(x) /\ x.bulk = ui.bulk
    BY <1>1, <2>2 DEF ListShape, ListFields
  <2>4. ListHolds(w) /\ w.bulk = ui.bulk
    BY <2>2, <2>3, ListPrunes, Zenon DEF Alarms!Cleared
  <2>5. v = [w EXCEPT !.loading = TRUE]
    BY <2>1, <2>2
  <2>6. /\ DOMAIN v = ListFields /\ v.sel = w.sel /\ v.rows = w.rows
        /\ v.loading = TRUE /\ v.bulk = w.bulk /\ v.all = w.all
    BY <2>4, <2>5 DEF ListHolds, ListShape, ListFields
  <2>7. ListHolds(v)
    BY <2>4, <2>6, Zenon DEF ListHolds, ListShape
  <2>8. PICK n : n = [r EXCEPT !.op = "reload", !.key.ids = d]
    OBVIOUS
  <2>9. DOMAIN n = {"id", "op", "key"} /\ n.op = "reload" /\ net' = (net \ {r}) \cup {n}
    BY <1>1, <2>0, <2>1, <2>8
  <2>10. ListWaits(v, net')
    BY <1>1, <2>0, <2>4, <2>6, <2>9 DEF ListWaits, Bulks
  <2> QED
    BY <1>1, <2>2, <2>7, <2>9, <2>10 DEF AlarmsInv
<1>4. CASE Alarms!BulkFails
  <2>1. PICK r \in net :
          r.op = "bulkAll" /\ net' = net \ {r} /\ ui' = [ui EXCEPT !.bulk = FALSE]
    BY <1>4 DEF Alarms!BulkFails, Alarms!Pending, Alarms!Without
  <2>2. PICK v : v = ui'
    OBVIOUS
  <2>3. /\ DOMAIN v = ListFields /\ v.sel = ui.sel /\ v.rows = ui.rows
        /\ v.loading = ui.loading /\ v.bulk = FALSE /\ v.all = ui.all
    BY <1>1, <2>1, <2>2 DEF ListShape, ListFields
  <2>4. ListHolds(v)
    BY <1>1, <2>3, Zenon DEF ListHolds, ListShape
  <2>5. ListWaits(v, net')
    BY <1>1, <2>1, <2>3 DEF ListWaits, Bulks
  <2> QED
    BY <1>1, <2>1, <2>2, <2>4, <2>5 DEF AlarmsInv
<1> QED
  BY <1>2, <1>3, <1>4

\* Every step of the list.
LEMMA AlarmsStep == ASSUME AlarmsInv, Alarms!Next PROVE AlarmsInv'
BY AlarmsAsk, AlarmsSelect, AlarmsLoad, AlarmsAnswered, AlarmsBulk DEF Alarms!Next

LEMMA AlarmsStays == ASSUME AlarmsInv, UNCHANGED vars PROVE AlarmsInv'
BY DEF vars, AlarmsInv, ListHolds, ListShape, ListWaits

\* What the invariant says of the list.
LEMMA AlarmsSay ==
  ASSUME AlarmsInv
  PROVE  Alarms!SelectionIsShown /\ Alarms!BusyIsAwaited /\ Alarms!OneBulk
<1>1. Alarms!SelectionIsShown
  BY DEF AlarmsInv, ListHolds, Alarms!SelectionIsShown
<1>2. Alarms!BusyIsAwaited
  BY DEF AlarmsInv, ListWaits, Bulks, Alarms!BusyIsAwaited, Alarms!Pending
<1>3. Alarms!OneBulk
  <2>1. \A r, x \in Alarms!Pending("bulkAll") \cup Alarms!Pending("bulkIds")
                      \cup Alarms!Pending("reload") : r = x
    BY DEF AlarmsInv, ListWaits, Bulks, Alarms!Pending
  <2> QED
    BY <2>1, LoneCardinality, Zenon DEF Alarms!OneBulk, Alarms!Cardinality, Cardinality
<1> QED
  BY <1>1, <1>2, <1>3

\* The types of a state u of the list and of a call r.
Totals == 0..Cardinality(Alerts)

ListTyped(u) ==
  /\ DOMAIN u = ListFields /\ u.rows \subseteq Alerts /\ u.sel \subseteq Alerts
  /\ u.q \in Questions /\ u.p \in Alarms!Pages /\ u.c \in Contexts /\ u.total \in Totals
  /\ {u.due, u.loading, u.all, u.bulk} \subseteq BOOLEAN

ListKey(k) == DOMAIN k = {"q", "p", "c", "ids"} /\ k.q \in Questions /\ k.ids \subseteq Alerts

ListCall(r) == DOMAIN r = {"id", "op", "key"} /\ ListKey(r.key)

AlarmsTypes == ListTyped(ui) /\ srv.alerts = Alerts /\ \A r \in net : ListCall(r)

LEMMA NoneIsTotal == 0 \in Totals
BY FrontendAssumption, FS_CardinalityType
   DEF Totals, FrontendAssumption, Alarms!AlarmsAssumption, Alarms!IsFiniteSet, IsFiniteSet

LEMMA AlarmsTypesInit == Alarms!Init => AlarmsTypes
<1> SUFFICES ASSUME Alarms!Init PROVE AlarmsTypes
  OBVIOUS
<1>1. PICK q \in Questions, c \in Contexts :
        ui = [rows |-> {}, total |-> 0, q |-> q, p |-> 0, c |-> c, due |-> TRUE,
              loading |-> FALSE, sel |-> {}, all |-> FALSE, bulk |-> FALSE]
  BY DEF Alarms!Init, Alarms!Shows, Alarms!Mounted
<1>2. net = {} /\ srv.alerts = Alerts
  BY DEF Alarms!Init, Alarms!Shows, Alarms!Stored
<1>4. ListTyped(ui)
  BY <1>1, NoneIsTotal DEF ListTyped, ListFields, Alarms!Pages
<1> QED
  BY <1>2, <1>4 DEF AlarmsTypes

\* What the server finds, and how much of it is on a page.
LEMMA ListFinds ==
  ASSUME NEW q \in Questions, NEW c
  PROVE  /\ Alarms!Matching(q, c) \subseteq Alerts
         /\ Cardinality(Alarms!Matching(q, c)) \in Totals
         /\ \A p : Alarms!Slice(Alarms!Matching(q, c), p) \subseteq Alerts
<1>1. PICK m : m = Alarms!Matching(q, c)
  OBVIOUS
<1>2. m \subseteq Alerts
  BY <1>1, FrontendAssumption
     DEF FrontendAssumption, Alarms!AlarmsAssumption, Alarms!Matching
<1>3. IsFiniteSet(Alerts)
  BY FrontendAssumption
     DEF FrontendAssumption, Alarms!AlarmsAssumption, Alarms!IsFiniteSet, IsFiniteSet
<1>4. Cardinality(m) \in Totals
  <2>1. Cardinality(m) \in Nat /\ Cardinality(Alerts) \in Nat
    BY <1>2, <1>3, FS_Subset, FS_CardinalityType
  <2>2. Cardinality(m) <= Cardinality(Alerts)
    BY <1>2, <1>3, FS_Subset
  <2> QED
    BY <2>1, <2>2 DEF Totals
<1>5. ASSUME NEW p PROVE Alarms!Slice(m, p) \subseteq Alerts
  BY <1>2 DEF Alarms!Slice
<1> QED
  BY <1>1, <1>2, <1>4, <1>5

\* The effect and a question keep the types.
LEMMA ListPrunesTyped == ASSUME NEW u, ListTyped(u) PROVE ListTyped(Alarms!PruneSelection(u))
<1>1. CASE u.all
  BY <1>1 DEF Alarms!PruneSelection
<1>2. CASE ~u.all
  <2>1. PICK v : v = Alarms!PruneSelection(u)
    OBVIOUS
  <2>2. v = [u EXCEPT !.sel = u.sel \cap u.rows]
    BY <1>2, <2>1 DEF Alarms!PruneSelection, ListTyped, ListFields
  <2>3. ListTyped(v)
    BY <2>2 DEF ListTyped, ListFields
  <2> QED
    BY <2>1, <2>3
<1> QED
  BY <1>1, <1>2

LEMMA ListAsksTyped == ASSUME NEW u, ListTyped(u) PROVE ListTyped(Alarms!Ask(u))
<1>1. PICK w, v : w = Alarms!PruneSelection(u) /\ v = Alarms!Ask(u)
  OBVIOUS
<1>2. ListTyped(w)
  BY <1>1, ListPrunesTyped
<1>3. PICK d : d = (w.due \/ <<u.q, u.p, u.c>> # <<ui.q, ui.p, ui.c>>)
  OBVIOUS
<1>4. v = [w EXCEPT !.due = d] /\ d \in BOOLEAN
  BY <1>1, <1>2, <1>3 DEF Alarms!Ask, ListTyped, ListFields
<1>5. ListTyped(v)
  BY <1>2, <1>4 DEF ListTyped, ListFields
<1> QED
  BY <1>1, <1>5

\* The state x is shown after the effect, or after a question of its own.
LEMMA ListShownTyped ==
  ASSUME NEW x, ListTyped(x), ui' = Alarms!Ask(x) \/ ui' = Alarms!PruneSelection(x)
  PROVE  ListTyped(ui')
BY ListPrunesTyped, ListAsksTyped

LEMMA ListTypedAsk ==
  ASSUME ListTyped(ui),
         Alarms!SetFilter \/ Alarms!RemoveChip \/ Alarms!ChangePage \/ Alarms!ChangeCustomer
  PROVE  ListTyped(ui') /\ net' = net /\ srv' = srv
<1>1. net' = net /\ srv' = srv
  BY Zenon DEF Alarms!SetFilter, Alarms!RemoveChip, Alarms!ChangePage, Alarms!ChangeCustomer
<1>2. CASE Alarms!SetFilter
  <2>1. PICK q \in Questions : ui' = Alarms!Ask([ui EXCEPT !.q = q, !.p = 0])
    BY <1>2, Zenon DEF Alarms!SetFilter, Alarms!Reask
  <2>2. PICK x : x = [ui EXCEPT !.q = q, !.p = 0]
    OBVIOUS
  <2>3. ListTyped(x)
    BY <2>1, <2>2 DEF ListTyped, ListFields, Alarms!Pages
  <2> QED
    BY <1>1, <2>1, <2>2, <2>3, ListShownTyped
<1>3. CASE Alarms!RemoveChip
  <2>1. PICK q \in Questions : ui' = Alarms!Ask([ui EXCEPT !.q = q])
    BY <1>3 DEF Alarms!RemoveChip
  <2>2. PICK x : x = [ui EXCEPT !.q = q]
    OBVIOUS
  <2>3. ListTyped(x)
    BY <2>1, <2>2 DEF ListTyped, ListFields, Alarms!Pages
  <2> QED
    BY <1>1, <2>1, <2>2, <2>3, ListShownTyped
<1>4. CASE Alarms!ChangePage
  <2>1. PICK p \in Alarms!Pages : ui' = Alarms!Ask([ui EXCEPT !.p = p])
    BY <1>4 DEF Alarms!ChangePage
  <2>2. PICK x : x = [ui EXCEPT !.p = p]
    OBVIOUS
  <2>3. ListTyped(x)
    BY <2>1, <2>2 DEF ListTyped, ListFields, Alarms!Pages
  <2> QED
    BY <1>1, <2>1, <2>2, <2>3, ListShownTyped
<1>5. CASE Alarms!ChangeCustomer
  <2>1. PICK c \in Contexts : ui' = Alarms!Ask([ui EXCEPT !.c = c, !.p = 0, !.sel = {}, !.all = FALSE])
    BY <1>5, Zenon DEF Alarms!ChangeCustomer
  <2>2. PICK x : x = [ui EXCEPT !.c = c, !.p = 0, !.sel = {}, !.all = FALSE]
    OBVIOUS
  <2>3. ListTyped(x)
    BY <2>1, <2>2 DEF ListTyped, ListFields, Alarms!Pages
  <2> QED
    BY <1>1, <2>1, <2>2, <2>3, ListShownTyped
<1> QED
  BY <1>2, <1>3, <1>4, <1>5

\* Alarms of the page may be selected, and the flag of all of them set or not.
LEMMA ListSelectedTyped ==
  ASSUME NEW u, ListTyped(u), NEW s \in SUBSET Alerts, NEW a \in BOOLEAN
  PROVE  ListTyped([u EXCEPT !.sel = s, !.all = a])
BY DEF ListTyped, ListFields

LEMMA ListTypedSelect ==
  ASSUME ListTyped(ui),
         \/ Alarms!SelectPage \/ Alarms!SelectRow \/ Alarms!ToggleAllFiltered
         \/ Alarms!ClearSelection
  PROVE  ListTyped(ui') /\ net' = net /\ srv' = srv
<1>1. net' = net /\ srv' = srv
  BY Zenon
     DEF Alarms!SelectPage, Alarms!SelectRow, Alarms!ToggleAllFiltered, Alarms!ClearSelection
<1>2. PICK x : ListTyped(x) /\ (ui' = x \/ ui' = Alarms!PruneSelection(x))
  <2>0. PICK u : u = ui
    OBVIOUS
  <2>1. CASE Alarms!SelectPage
    <3>1. \/ ui' = Alarms!PruneSelection([u EXCEPT !.sel = u.sel \cup u.rows])
          \/ ui' = Alarms!PruneSelection([u EXCEPT !.sel = u.sel \ u.rows, !.all = FALSE])
      BY <2>0, <2>1 DEF Alarms!SelectPage, ListTyped, ListFields
    <3>2. /\ [u EXCEPT !.sel = u.sel \cup u.rows]
                = [u EXCEPT !.sel = u.sel \cup u.rows, !.all = u.all]
          /\ u.all \in BOOLEAN /\ u.sel \cup u.rows \in SUBSET Alerts
          /\ u.sel \ u.rows \in SUBSET Alerts
      BY <2>0, Zenon DEF ListTyped, ListFields
    <3>3. /\ ListTyped([u EXCEPT !.sel = u.sel \cup u.rows])
          /\ ListTyped([u EXCEPT !.sel = u.sel \ u.rows, !.all = FALSE])
      BY <2>0 DEF ListTyped, ListFields
    <3> QED
      BY <3>1, <3>3
  <2>2. CASE Alarms!SelectRow
    <3>1. PICK a \in u.rows :
            \/ ui' = [u EXCEPT !.sel = u.sel \cup {a}]
            \/ ui' = Alarms!PruneSelection([u EXCEPT !.sel = u.sel \ {a}, !.all = FALSE])
      BY <2>0, <2>2, Zenon DEF Alarms!SelectRow, ListTyped, ListFields
    <3>2. /\ [u EXCEPT !.sel = u.sel \cup {a}]
                = [u EXCEPT !.sel = u.sel \cup {a}, !.all = u.all]
          /\ u.all \in BOOLEAN /\ u.sel \cup {a} \in SUBSET Alerts
          /\ u.sel \ {a} \in SUBSET Alerts
      BY <2>0, Zenon DEF ListTyped, ListFields
    <3>3. /\ ListTyped([u EXCEPT !.sel = u.sel \cup {a}])
          /\ ListTyped([u EXCEPT !.sel = u.sel \ {a}, !.all = FALSE])
      BY <2>0 DEF ListTyped, ListFields
    <3> QED
      BY <3>1, <3>3
  <2>3. CASE Alarms!ToggleAllFiltered
    <3>1. PICK a : a = ~u.all
      OBVIOUS
    <3>2. /\ ui' = Alarms!PruneSelection([u EXCEPT !.all = a])
          /\ [u EXCEPT !.all = a] = [u EXCEPT !.sel = u.sel, !.all = a]
      BY <2>0, <2>3, <3>1, Zenon DEF Alarms!ToggleAllFiltered, ListTyped, ListFields
    <3>3. a \in BOOLEAN /\ u.sel \in SUBSET Alerts
      BY <2>0, <3>1 DEF ListTyped
    <3>4. ListTyped([u EXCEPT !.all = a])
      BY <2>0, <3>3 DEF ListTyped, ListFields
    <3> QED
      BY <3>2, <3>4
  <2>4. CASE Alarms!ClearSelection
    <3>1. ui' = Alarms!PruneSelection([ui EXCEPT !.sel = {}, !.all = FALSE])
      BY <2>4 DEF Alarms!ClearSelection, Alarms!Cleared
    <3>2. ListTyped([ui EXCEPT !.sel = {}, !.all = FALSE])
      BY ListSelectedTyped, Zenon
    <3> QED
      BY <3>1, <3>2
  <2> QED
    BY <2>1, <2>2, <2>3, <2>4
<1> QED
  BY <1>1, <1>2, ListPrunesTyped

\* What is asked, and what a call that is sent brings.
LEMMA ListAskedTyped ==
  ASSUME ListTyped(ui), NEW s, s \in {{}, ui.sel}
  PROVE  ListKey([Alarms!Key(ui) EXCEPT !.ids = s]) /\ ListKey(Alarms!Key(ui))
BY DEF ListTyped, ListKey, Alarms!Key

LEMMA ListTypedSend ==
  ASSUME AlarmsTypes, Alarms!DebounceFires \/ Alarms!PressEnter \/ Alarms!ConfirmBulk
  PROVE  AlarmsTypes'
<1>1. ListTyped(ui) /\ srv' = srv /\ srv.alerts = Alerts /\ \A r \in net : ListCall(r)
  BY DEF AlarmsTypes, Alarms!DebounceFires, Alarms!PressEnter, Alarms!ConfirmBulk
<1>2. PICK op, k : net' = Alarms!Sent(op, k) /\ ListKey(k)
  <2>1. ListKey(Alarms!Key(ui)) /\ ListKey([Alarms!Key(ui) EXCEPT !.ids = ui.sel])
    BY <1>1, ListAskedTyped
  <2> QED
    BY <2>1
       DEF Alarms!DebounceFires, Alarms!PressEnter, Alarms!ConfirmBulk, Alarms!StartLoad
<1>3. PICK n : n = [id |-> Alarms!Fresh, op |-> op, key |-> k]
  OBVIOUS
<1>4. net' = net \cup {n} /\ ListCall(n)
  BY <1>2, <1>3 DEF Alarms!Sent, ListCall
<1>5. ListTyped(ui')
  <2>1. PICK v, u : v = ui' /\ u = ui
    OBVIOUS
  <2>2. CASE Alarms!DebounceFires
    <3>1. v = [u EXCEPT !.loading = TRUE, !.due = FALSE]
      BY <2>1, <2>2 DEF Alarms!DebounceFires, Alarms!StartLoad
    <3> QED
      BY <1>1, <2>1, <3>1 DEF ListTyped, ListFields
  <2>3. CASE Alarms!PressEnter
    <3>1. PICK x, w : x = [u EXCEPT !.p = 0] /\ w = Alarms!Ask(x)
      OBVIOUS
    <3>2. ListTyped(x)
      BY <1>1, <2>1, <3>1 DEF ListTyped, ListFields, Alarms!Pages
    <3>3. ListTyped(w)
      BY <3>1, <3>2, ListAsksTyped
    <3>4. v = [w EXCEPT !.loading = TRUE]
      BY <2>1, <2>3, <3>1 DEF Alarms!PressEnter
    <3> QED
      BY <2>1, <3>3, <3>4 DEF ListTyped, ListFields
  <2>4. CASE Alarms!ConfirmBulk
    <3>1. v = [u EXCEPT !.bulk = TRUE]
      BY <2>1, <2>4 DEF Alarms!ConfirmBulk
    <3> QED
      BY <1>1, <2>1, <3>1 DEF ListTyped, ListFields
  <2> QED
    BY <2>2, <2>3, <2>4
<1> QED
  BY <1>1, <1>4, <1>5 DEF AlarmsTypes

LEMMA ListTypedAnswer ==
  ASSUME AlarmsTypes, Alarms!AnswerLoad \/ Alarms!BulkReloaded \/ Alarms!BulkFails
  PROVE  ListTyped(ui') /\ net' \subseteq net /\ srv' = srv
<1>1. ListTyped(ui) /\ srv' = srv /\ \A r \in net : ListCall(r)
  BY Zenon DEF AlarmsTypes, Alarms!AnswerLoad, Alarms!BulkReloaded, Alarms!BulkFails
<1>2. PICK u : u = ui
  OBVIOUS
<1>3. net' \subseteq net
  BY Zenon DEF Alarms!AnswerLoad, Alarms!BulkReloaded, Alarms!BulkFails, Alarms!Without
<1>4. CASE Alarms!AnswerLoad
  <2>1. PICK r \in net, ok \in BOOLEAN :
          ui' = Alarms!PruneSelection([u EXCEPT
            !.rows = IF ok THEN Alarms!Slice(Alarms!Matching(r.key.q, r.key.c), r.key.p) ELSE {},
            !.total = IF ok THEN Cardinality(Alarms!Matching(r.key.q, r.key.c)) ELSE 0,
            !.loading = FALSE])
    BY <1>2, <1>4, Zenon
       DEF Alarms!AnswerLoad, Alarms!Pending, Alarms!Cardinality, Cardinality
  <2>2. PICK m, rows, t, x :
          /\ m = Alarms!Matching(r.key.q, r.key.c)
          /\ rows = (IF ok THEN Alarms!Slice(m, r.key.p) ELSE {})
          /\ t = (IF ok THEN Cardinality(m) ELSE 0)
          /\ x = [u EXCEPT !.rows = rows, !.total = t, !.loading = FALSE]
    OBVIOUS
  <2>3. ui' = Alarms!PruneSelection(x)
    BY <2>1, <2>2
  <2>4. r.key.q \in Questions
    BY <1>1, <2>1 DEF ListCall, ListKey
  <2>5. rows \subseteq Alerts /\ t \in Totals
    BY <2>2, <2>4, ListFinds, NoneIsTotal
  <2>6. ListTyped(x)
    BY <1>1, <1>2, <2>2, <2>5 DEF ListTyped, ListFields
  <2> QED
    BY <1>1, <1>3, <2>3, <2>6, ListPrunesTyped
<1>5. CASE Alarms!BulkReloaded
  <2>1. PICK r \in net, ok \in BOOLEAN :
          ui' = Alarms!PruneSelection([u EXCEPT
            !.rows = IF ok THEN Alarms!Slice(Alarms!Matching(r.key.q, r.key.c), r.key.p) ELSE {},
            !.total = IF ok THEN Cardinality(Alarms!Matching(r.key.q, r.key.c)) ELSE 0,
            !.loading = FALSE, !.bulk = FALSE])
    BY <1>2, <1>5, Zenon
       DEF Alarms!BulkReloaded, Alarms!Pending, Alarms!Cardinality, Cardinality
  <2>2. PICK m, rows, t, x :
          /\ m = Alarms!Matching(r.key.q, r.key.c)
          /\ rows = (IF ok THEN Alarms!Slice(m, r.key.p) ELSE {})
          /\ t = (IF ok THEN Cardinality(m) ELSE 0)
          /\ x = [u EXCEPT !.rows = rows, !.total = t, !.loading = FALSE, !.bulk = FALSE]
    OBVIOUS
  <2>3. ui' = Alarms!PruneSelection(x)
    BY <2>1, <2>2
  <2>4. r.key.q \in Questions
    BY <1>1, <2>1 DEF ListCall, ListKey
  <2>5. rows \subseteq Alerts /\ t \in Totals
    BY <2>2, <2>4, ListFinds, NoneIsTotal
  <2>6. ListTyped(x)
    BY <1>1, <1>2, <2>2, <2>5 DEF ListTyped, ListFields
  <2> QED
    BY <1>1, <1>3, <2>3, <2>6, ListPrunesTyped
<1>6. CASE Alarms!BulkFails
  <2>1. PICK v : v = ui' /\ v = [u EXCEPT !.bulk = FALSE]
    BY <1>2, <1>6 DEF Alarms!BulkFails
  <2>2. ListTyped(v)
    BY <1>1, <1>2, <2>1 DEF ListTyped, ListFields
  <2> QED
    BY <1>1, <1>3, <2>1, <2>2
<1> QED
  BY <1>4, <1>5, <1>6

LEMMA ListTypedSettled ==
  ASSUME AlarmsTypes, Alarms!BulkSettled
  PROVE  AlarmsTypes'
<1>1. ListTyped(ui) /\ srv' = srv /\ srv.alerts = Alerts /\ \A r \in net : ListCall(r)
  BY DEF AlarmsTypes, Alarms!BulkSettled
<1>2. PICK r, d :
        /\ r \in net /\ d \subseteq Alarms!Targets(r)
        /\ ui' = [Alarms!Cleared(ui) EXCEPT !.loading = TRUE]
        /\ net' = (net \ {r}) \cup {[r EXCEPT !.op = "reload", !.key.ids = d]}
  <2>0. PICK r \in net :
          \E d \in IF r.op = "bulkAll" THEN {Alarms!Targets(r)} ELSE SUBSET Alarms!Targets(r) :
            /\ ui' = [Alarms!Cleared(ui) EXCEPT !.loading = TRUE]
            /\ net' = (net \ {r}) \cup {[r EXCEPT !.op = "reload", !.key.ids = d]}
    BY DEF Alarms!BulkSettled, Alarms!Pending, Alarms!Without
  <2>1. PICK d \in SUBSET Alarms!Targets(r) :
          /\ ui' = [Alarms!Cleared(ui) EXCEPT !.loading = TRUE]
          /\ net' = (net \ {r}) \cup {[r EXCEPT !.op = "reload", !.key.ids = d]}
    BY <2>0, Zenon
  <2> QED
    BY <2>1, Zenon
<1>3. ListCall(r)
  BY <1>1, <1>2
<1>4. Alarms!Targets(r) \subseteq Alerts
  BY <1>3, ListFinds DEF Alarms!Targets, ListCall, ListKey
<1>5. PICK n : n = [r EXCEPT !.op = "reload", !.key.ids = d]
  OBVIOUS
<1>6. DOMAIN n = DOMAIN r /\ n.key = [r.key EXCEPT !.ids = d]
  BY <1>3, <1>5 DEF ListCall
<1>7. ListCall(n)
  BY <1>2, <1>3, <1>4, <1>6 DEF ListCall, ListKey
<1>8. ListTyped(ui')
  <2>1. PICK x, w, v :
          x = [ui EXCEPT !.sel = {}, !.all = FALSE] /\ w = Alarms!Cleared(ui) /\ v = ui'
    OBVIOUS
  <2>2. ListTyped(x)
    BY <1>1, <2>1 DEF ListTyped, ListFields
  <2>3. ListTyped(w)
    BY <2>1, <2>2, ListPrunesTyped DEF Alarms!Cleared
  <2>4. v = [w EXCEPT !.loading = TRUE]
    BY <1>2, <2>1
  <2> QED
    BY <2>1, <2>3, <2>4 DEF ListTyped, ListFields
<1> QED
  BY <1>1, <1>2, <1>5, <1>7, <1>8 DEF AlarmsTypes

LEMMA AlarmsTypesStep == ASSUME AlarmsTypes, Alarms!Next PROVE AlarmsTypes'
<1>1. ListTyped(ui) /\ srv.alerts = Alerts /\ \A r \in net : ListCall(r)
  BY DEF AlarmsTypes
<1>2. CASE ListTyped(ui') /\ net' \subseteq net /\ srv' = srv
  BY <1>1, <1>2 DEF AlarmsTypes
<1> QED
  BY <1>1, <1>2, ListTypedAsk, ListTypedSelect, ListTypedSend, ListTypedAnswer,
     ListTypedSettled DEF Alarms!Next

LEMMA AlarmsTypesStay == ASSUME AlarmsTypes, UNCHANGED vars PROVE AlarmsTypes'
BY DEF vars, AlarmsTypes, ListTyped

LEMMA AlarmsAreTyped == ASSUME AlarmsTypes PROVE Alarms!TypeOK
<1>1. \A r \in net : r.key.ids \subseteq srv.alerts
  BY DEF AlarmsTypes, ListCall, ListKey
<1>2. ui.total \in 0..Alarms!Cardinality(Alerts)
  BY DEF AlarmsTypes, ListTyped, Totals, Alarms!Cardinality, Cardinality
<1> QED
  BY <1>1, <1>2 DEF AlarmsTypes, ListTyped, Alarms!TypeOK, ListFields

-----------------------------------------------------------------------------
(* AlarmFields: the fields offered are those of the source and type shown.     *)

\* A schema that is not cancelled is asked for the key shown.
FieldsInv ==
  /\ DOMAIN ui = {"key", "c", "configured", "schema", "draft", "loading", "saving",
                  "expanded", "fetching"}
  /\ \A r \in net : DOMAIN r = {"id", "op", "key"} /\ r.key \in Keys
  /\ \A r \in net : r.op = "schema" => r.key = ui.key
  /\ Fields!TypeOK
  /\ (\A r \in net : r.op # "schema") => ui.schema \in {ui.key, "none"}
  /\ ui.loading => \E r \in net : r.op = "configs"
  /\ ui.saving <=> \E r \in net : r.op = "save"
  /\ \A r, x \in net : r.op = "save" /\ x.op = "save" => r = x

\* Both effects of the mount ask for the key shown.
LEMMA FieldsInit == Fields!Init => FieldsInv
<1> SUFFICES ASSUME Fields!Init PROVE FieldsInv
  OBVIOUS
<1>1. ui \in Fields!Mounted
  BY DEF Fields!Init
<1>2. PICK k \in Keys, c \in FieldContexts :
        ui = [key |-> k, c |-> c, configured |-> {}, schema |-> "none", draft |-> "none",
              loading |-> TRUE, saving |-> FALSE, expanded |-> {}, fetching |-> {}]
  BY <1>1 DEF Fields!Mounted
<1>3. net = {[id |-> 1, op |-> "configs", key |-> ui.key],
             [id |-> 2, op |-> "schema", key |-> ui.key]}
  BY DEF Fields!Init
<1>4. Fields!TypeOK
  BY <1>2 DEF Fields!TypeOK
<1> QED
  BY <1>2, <1>3, <1>4 DEF FieldsInv

\* The draft is rewritten, nothing else.
LEMMA Redrafted ==
  ASSUME NEW u, "draft" \in DOMAIN u
  PROVE  LET v == Fields!Redraft(u)
         IN  /\ DOMAIN v = DOMAIN u
             /\ \A f \in DOMAIN u : f # "draft" => v[f] = u[f]
             /\ v.draft \in {"stored", u.schema}
BY DEF Fields!Redraft

\* Of the requests out, the schema's are cancelled and one is asked for the key shown.
LEMMA SchemaAsked ==
  ASSUME FieldsInv, ui'.key \in Keys
  PROVE  /\ \A r \in Fields!AskSchema : DOMAIN r = {"id", "op", "key"} /\ r.key \in Keys
         /\ \A r \in Fields!AskSchema : r.op = "schema" => r.key = ui'.key
         /\ \E r \in Fields!AskSchema : r.op = "schema"
         /\ \A r \in net : r.op # "schema" => r \in Fields!AskSchema
         /\ \A r \in Fields!AskSchema : r.op \in {"schema", "cancelled"} \/ r \in net
<1> PICK A : A = Fields!AskSchema
  OBVIOUS
<1>1. \A r \in A : \/ r = [id |-> Fields!Fresh, op |-> "schema", key |-> ui'.key]
                   \/ r \in net /\ r.op # "schema"
                   \/ \E x \in net : r = [x EXCEPT !.op = "cancelled"]
  BY DEF Fields!AskSchema
<1>2. [id |-> Fields!Fresh, op |-> "schema", key |-> ui'.key] \in A
  BY DEF Fields!AskSchema
<1>3. \A r \in net : r.op # "schema" => r \in A
  BY DEF Fields!AskSchema
<1> QED
  BY <1>1, <1>2, <1>3 DEF FieldsInv

\* Another key asks for its schema, and what was out is cancelled.
LEMMA FieldsStep == ASSUME FieldsInv, Fields!Next PROVE FieldsInv'
<1>1. CASE Fields!ChooseKey
  <2>1. PICK k \in Keys : /\ ui' = Fields!Redraft([ui EXCEPT !.key = k])
                          /\ net' = Fields!AskSchema
    BY <1>1 DEF Fields!ChooseKey
  <2>2. /\ DOMAIN ui' = DOMAIN ui /\ ui'.key = k /\ ui'.draft \in {"stored", ui.schema}
        /\ \A f \in DOMAIN ui \ {"key", "draft"} : ui'[f] = ui[f]
    BY <2>1, Redrafted DEF FieldsInv
  <2>3. Fields!TypeOK'
    BY <2>2 DEF FieldsInv, Fields!TypeOK
  <2> QED
    BY <2>1, <2>2, <2>3, SchemaAsked DEF FieldsInv
<1>2. CASE Fields!ChangeCustomer
  <2>1. PICK c, i :
          /\ c \in FieldContexts
          /\ ui' = [ui EXCEPT !.c = c, !.loading = TRUE, !.expanded = {}, !.fetching = {}]
          /\ net' = Fields!AskSchema \cup {[id |-> i, op |-> "configs", key |-> ui.key]}
    BY <1>2, Zenon DEF Fields!ChangeCustomer
  <2>2. /\ DOMAIN ui' = DOMAIN ui /\ ui'.c = c /\ ui'.loading = TRUE
        /\ ui'.expanded = {} /\ ui'.fetching = {}
        /\ \A f \in DOMAIN ui \ {"c", "loading", "expanded", "fetching"} : ui'[f] = ui[f]
        /\ c \in FieldContexts
    BY <2>1, Zenon DEF FieldsInv
  <2>3. Fields!TypeOK'
    BY <2>2, Zenon DEF FieldsInv, Fields!TypeOK
  <2>4. PICK A : A = Fields!AskSchema
    OBVIOUS
  <2>5. PICK n : n = [id |-> i, op |-> "configs", key |-> ui.key]
    OBVIOUS
  <2>6. ui.key \in Keys /\ ui'.key = ui.key
    BY <2>2 DEF FieldsInv, Fields!TypeOK
  <2>7. net' = A \cup {n} /\ DOMAIN n = {"id", "op", "key"} /\ n.op = "configs" /\ n.key = ui.key
    BY <2>1, <2>4, <2>5
  <2> QED
    BY <2>2, <2>3, <2>4, <2>6, <2>7, SchemaAsked DEF FieldsInv
<1>3. CASE Fields!ToggleRow
  <2>1. PICK a \in Rows :
          \/ /\ ui' = [ui EXCEPT !.expanded = IF a \in @ THEN @ \ {a} ELSE @ \cup {a}]
             /\ net' = net
          \/ /\ ui' = [ui EXCEPT !.expanded = @ \cup {a}, !.fetching = @ \cup {a}]
             /\ net' = Fields!AskSchema
    BY <1>3, Zenon DEF Fields!ToggleRow
  <2>2. /\ DOMAIN ui' = DOMAIN ui
        /\ ui'.expanded \subseteq ui.expanded \cup {a}
        /\ ui'.fetching \subseteq ui.fetching \cup {a}
        /\ \A f \in DOMAIN ui \ {"expanded", "fetching"} : ui'[f] = ui[f]
    BY <2>1, Zenon DEF FieldsInv
  <2>3. Fields!TypeOK'
    BY <2>1, <2>2 DEF FieldsInv, Fields!TypeOK
  <2>4. CASE net' = net
    BY <2>2, <2>3, <2>4 DEF FieldsInv
  <2>5. CASE net' = Fields!AskSchema
    BY <2>2, <2>3, <2>5, SchemaAsked DEF FieldsInv, Fields!TypeOK
  <2> QED
    BY <2>1, <2>4, <2>5
<1>4. CASE Fields!EditDraft
  <2>1. /\ DOMAIN ui' = DOMAIN ui /\ ui'.draft = "edited" /\ net' = net
        /\ \A f \in DOMAIN ui \ {"draft"} : ui'[f] = ui[f]
    BY <1>4 DEF Fields!EditDraft, FieldsInv
  <2>2. Fields!TypeOK'
    BY <2>1 DEF FieldsInv, Fields!TypeOK
  <2> QED
    BY <2>1, <2>2 DEF FieldsInv
<1>5. CASE Fields!Save
  <2>1. /\ ~ui.saving /\ DOMAIN ui' = DOMAIN ui /\ ui'.saving = TRUE
        /\ net' = net \cup {[id |-> Fields!Fresh, op |-> "save", key |-> ui.key]}
        /\ \A f \in DOMAIN ui \ {"saving"} : ui'[f] = ui[f]
    BY <1>5 DEF Fields!Save, Fields!Sent, FieldsInv
  <2>2. Fields!TypeOK'
    BY <2>1, Zenon DEF FieldsInv, Fields!TypeOK
  <2>3. ui.key \in Keys /\ \A r \in net : r.op # "save"
    BY <2>1 DEF FieldsInv, Fields!TypeOK
  <2>4. PICK n : n = [id |-> Fields!Fresh, op |-> "save", key |-> ui.key]
    OBVIOUS
  <2>5. DOMAIN n = {"id", "op", "key"} /\ n.op = "save" /\ n.key = ui.key
    BY <2>4
  <2>6. net' = net \cup {n}
    BY <2>1, <2>4
  <2> QED
    BY <2>1, <2>2, <2>3, <2>5, <2>6 DEF FieldsInv
<1>6. CASE Fields!AnswerConfigs
  <2>1. PICK r \in net, S \in SUBSET Keys :
          /\ r.op = "configs" /\ net' = net \ {r}
          /\ ui' = Fields!Redraft([ui EXCEPT !.configured = S, !.loading = FALSE])
    BY <1>6, Zenon DEF Fields!AnswerConfigs, Fields!Pending, Fields!Without
  <2>2. /\ DOMAIN ui' = DOMAIN ui /\ ui'.configured = S /\ ui'.loading = FALSE
        /\ ui'.draft \in {"stored", ui.schema}
        /\ \A f \in DOMAIN ui \ {"configured", "loading", "draft"} : ui'[f] = ui[f]
    BY <2>1, Redrafted, Zenon DEF FieldsInv
  <2>3. Fields!TypeOK'
    BY <2>2, Zenon DEF FieldsInv, Fields!TypeOK
  <2> QED
    BY <2>1, <2>2, <2>3 DEF FieldsInv
<1>7. CASE Fields!AnswerSchema \/ Fields!SchemaFails
  <2>1. PICK r \in net :
          /\ r.op \in {"schema", "cancelled"} /\ net' = net \ {r}
          /\ \/ ui' = ui /\ r.op = "cancelled"
             \/ \E x : /\ ui' = Fields!Redraft([ui EXCEPT !.schema = x])
                       /\ x = "none" \/ (r.op = "schema" /\ x = r.key)
    BY <1>7, Zenon
       DEF Fields!AnswerSchema, Fields!SchemaFails, Fields!Pending, Fields!Without
  <2>2. CASE ui' = ui /\ r.op = "cancelled"
    <3>1. Fields!TypeOK'
      BY <2>2 DEF FieldsInv, Fields!TypeOK
    <3> QED
      BY <2>1, <2>2, <3>1 DEF FieldsInv
  <2>3. ASSUME NEW x, ui' = Fields!Redraft([ui EXCEPT !.schema = x]),
               x = "none" \/ (r.op = "schema" /\ x = r.key)
        PROVE  FieldsInv'
    <3>1. /\ DOMAIN ui' = DOMAIN ui /\ ui'.schema = x /\ ui'.draft \in {"stored", x}
          /\ \A f \in DOMAIN ui \ {"schema", "draft"} : ui'[f] = ui[f]
      BY <2>3, Redrafted DEF FieldsInv
    <3>2. x = "none" \/ (x = ui.key /\ x \in Keys)
      BY <2>1, <2>3 DEF FieldsInv
    <3>3. Fields!TypeOK'
      BY <3>1, <3>2 DEF FieldsInv, Fields!TypeOK
    <3> QED
      BY <2>1, <3>1, <3>2, <3>3 DEF FieldsInv
  <2> QED
    BY <2>1, <2>2, <2>3, Zenon
<1>8. CASE Fields!AnswerSave
  <2>1. PICK r \in net :
          /\ r.op = "save" /\ net' = net \ {r}
          /\ \/ ui' = Fields!Redraft([ui EXCEPT !.saving = FALSE, !.configured = @ \cup {r.key}])
             \/ ui' = [ui EXCEPT !.saving = FALSE]
    BY <1>8, Zenon DEF Fields!AnswerSave, Fields!Pending, Fields!Without
  <2>2. /\ DOMAIN ui' = DOMAIN ui /\ ui'.saving = FALSE
        /\ ui'.configured \in {ui.configured, ui.configured \cup {r.key}}
        /\ ui'.draft \in {"stored", ui.schema, ui.draft}
        /\ \A f \in DOMAIN ui \ {"saving", "configured", "draft"} : ui'[f] = ui[f]
    <3>1. CASE ui' = Fields!Redraft([ui EXCEPT !.saving = FALSE, !.configured = @ \cup {r.key}])
      <4>1. PICK S : /\ S = ui.configured \cup {r.key}
                     /\ ui' = Fields!Redraft([ui EXCEPT !.saving = FALSE, !.configured = S])
        BY <3>1, Zenon
      <4>2. /\ DOMAIN ui' = DOMAIN ui /\ ui'.saving = FALSE /\ ui'.configured = S
            /\ ui'.draft \in {"stored", ui.schema}
            /\ \A f \in DOMAIN ui \ {"saving", "configured", "draft"} : ui'[f] = ui[f]
        <5>1. PICK u : u = [ui EXCEPT !.saving = FALSE, !.configured = S]
          OBVIOUS
        <5>2. /\ DOMAIN u = DOMAIN ui /\ u.saving = FALSE /\ u.configured = S
              /\ \A f \in DOMAIN ui \ {"saving", "configured"} : u[f] = ui[f]
          BY <5>1, Zenon DEF FieldsInv
        <5> QED
          BY <4>1, <5>1, <5>2, Redrafted, Zenon DEF FieldsInv
      <4> QED
        BY <4>1, <4>2
    <3>2. CASE ui' = [ui EXCEPT !.saving = FALSE]
      BY <3>2 DEF FieldsInv
    <3> QED
      BY <2>1, <3>1, <3>2, Zenon
  <2>3. r.key \in Keys
    BY <2>1 DEF FieldsInv
  <2>4. Fields!TypeOK'
    BY <2>2, <2>3, Zenon DEF FieldsInv, Fields!TypeOK
  <2>5. \A x \in net' : x \in net /\ x.op # "save"
    BY <2>1 DEF FieldsInv
  <2> QED
    BY <2>1, <2>2, <2>4, <2>5 DEF FieldsInv
<1> QED
  BY <1>1, <1>2, <1>3, <1>4, <1>5, <1>6, <1>7, <1>8 DEF Fields!Next

\* Nothing changes while the page is left alone.
LEMMA FieldsStays == ASSUME FieldsInv, UNCHANGED vars PROVE FieldsInv'
BY DEF vars, FieldsInv, Fields!TypeOK

\* What the invariant says of the page.
LEMMA FieldsHolds ==
  ASSUME FieldsInv
  PROVE  /\ Fields!TypeOK /\ Fields!BusyIsAwaited /\ Fields!SchemaOfKey
         /\ Fields!OneWrite
<1>1. Fields!BusyIsAwaited
  BY DEF FieldsInv, Fields!BusyIsAwaited, Fields!Pending
<1>2. Fields!SchemaOfKey
  BY DEF FieldsInv, Fields!SchemaOfKey, Fields!Pending
<1>3. Fields!OneWrite
  <2>1. \A r, x \in Fields!Pending("save") : r = x
    BY DEF FieldsInv, Fields!Pending
  <2> QED
    BY <2>1, LoneCardinality, Zenon DEF Fields!OneWrite, Fields!Cardinality, Cardinality
<1> QED
  BY <1>1, <1>2, <1>3 DEF FieldsInv

-----------------------------------------------------------------------------
(* AlarmExport: the preview and the one download that are awaited.             *)

ExportFields == {"q", "open", "loading", "failed", "shown", "exporting"}

\* What the flags of a state u of the view wait for in the calls N.
ExportWaits(u, N) ==
  /\ DOMAIN u = ExportFields
  /\ u.loading => \E r \in N : r.op = "preview"
  /\ u.exporting <=> \E r \in N : r.op = "download"
  /\ \A r, x \in N : r.op = "download" /\ x.op = "download" => r = x

ExportInv == ExportWaits(ui, net)

\* Nothing is asked for before the user does.
LEMMA ExportInit == Export!Init => ExportInv
<1> SUFFICES ASSUME Export!Init PROVE ExportInv
  OBVIOUS
<1>1. DOMAIN ui = ExportFields /\ ui.loading = FALSE /\ ui.exporting = FALSE /\ net = {}
  BY DEF Export!Init, Export!Shows, Export!Mounted, ExportFields
<1> QED
  BY <1>1 DEF ExportInv, ExportWaits

\* Every step of the view: an answer ends its flag, whichever dialog is open.
LEMMA ExportStep == ASSUME ExportInv, Export!Next PROVE ExportInv'
<1>1. PICK v, u : v = ui' /\ u = ui
  OBVIOUS
<1>2. ExportWaits(u, net) /\ DOMAIN u = ExportFields
  BY <1>1 DEF ExportInv, ExportWaits
<1>3. CASE Export!ChangeQuestion \/ Export!ClosePreview
  <2>1. /\ DOMAIN v = ExportFields /\ v.loading = u.loading /\ v.exporting = u.exporting
        /\ net' = net
    BY <1>1, <1>2, <1>3 DEF Export!ChangeQuestion, Export!ClosePreview, ExportFields
  <2> QED
    BY <1>1, <1>2, <2>1 DEF ExportInv, ExportWaits
<1>4. CASE Export!OpenPreview
  <2>1. PICK n : n = [id |-> Export!Fresh, op |-> "preview", key |-> u.q]
    OBVIOUS
  <2>2. /\ v = [u EXCEPT !.open = TRUE, !.loading = TRUE, !.failed = FALSE, !.shown = "none"]
        /\ net' = net \cup {n} /\ n.op = "preview"
    BY <1>1, <1>4, <2>1 DEF Export!OpenPreview, Export!Sent
  <2>3. DOMAIN v = ExportFields /\ v.exporting = u.exporting
    BY <1>2, <2>2 DEF ExportFields
  <2> QED
    BY <1>1, <1>2, <2>2, <2>3 DEF ExportInv, ExportWaits
<1>5. CASE Export!AnswerPreview
  <2>1. PICK r \in Export!Pending("preview"), ok \in BOOLEAN :
          /\ ui' = [ui EXCEPT !.loading = FALSE, !.shown = IF ok THEN r.key ELSE @,
                              !.failed = @ \/ ~ok]
          /\ net' = Export!Without(r)
    BY <1>5, Zenon DEF Export!AnswerPreview
  <2>2. r \in net /\ r.op = "preview" /\ net' = net \ {r}
    BY <2>1 DEF Export!Pending, Export!Without
  <2>3. DOMAIN v = ExportFields /\ v.loading = FALSE /\ v.exporting = u.exporting
    BY <1>1, <1>2, <2>1 DEF ExportFields
  <2> QED
    BY <1>1, <1>2, <2>2, <2>3 DEF ExportInv, ExportWaits
<1>6. CASE Export!Download
  <2>1. PICK n : n = [id |-> Export!Fresh, op |-> "download", key |-> u.q]
    OBVIOUS
  <2>2. /\ ~u.exporting /\ v = [u EXCEPT !.exporting = TRUE]
        /\ net' = net \cup {n} /\ n.op = "download"
    BY <1>1, <1>6, <2>1 DEF Export!Download, Export!Sent
  <2>3. DOMAIN v = ExportFields /\ v.loading = u.loading /\ v.exporting = TRUE
    BY <1>2, <2>2 DEF ExportFields
  <2> QED
    BY <1>1, <1>2, <2>2, <2>3 DEF ExportInv, ExportWaits
<1>7. CASE Export!AnswerDownload
  <2>1. PICK r \in Export!Pending("download"), ok \in BOOLEAN :
          /\ ui' = [ui EXCEPT !.exporting = FALSE, !.open = @ /\ ~ok]
          /\ net' = Export!Without(r)
    BY <1>7, Zenon DEF Export!AnswerDownload
  <2>2. r \in net /\ r.op = "download" /\ net' = net \ {r}
    BY <2>1 DEF Export!Pending, Export!Without
  <2>3. DOMAIN v = ExportFields /\ v.loading = u.loading /\ v.exporting = FALSE
    BY <1>1, <1>2, <2>1 DEF ExportFields
  <2> QED
    BY <1>1, <1>2, <2>2, <2>3 DEF ExportInv, ExportWaits
<1> QED
  BY <1>3, <1>4, <1>5, <1>6, <1>7 DEF Export!Next

LEMMA ExportStays == ASSUME ExportInv, UNCHANGED vars PROVE ExportInv'
BY DEF vars, ExportInv, ExportWaits

\* What the invariant says of the view.
LEMMA ExportSays == ASSUME ExportInv PROVE Export!BusyIsAwaited /\ Export!OneWrite
<1>1. Export!BusyIsAwaited
  BY DEF ExportInv, ExportWaits, Export!BusyIsAwaited, Export!Pending
<1>2. \A r, x \in Export!Pending("download") : r = x
  BY DEF ExportInv, ExportWaits, Export!Pending
<1> QED
  BY <1>1, <1>2, LoneCardinality, Zenon DEF Export!OneWrite, Export!Cardinality, Cardinality

\* The types of a state u of the view and of the calls N.
ExportTyped(u, N) ==
  /\ DOMAIN u = ExportFields /\ u.q \in Questions /\ u.shown \in Questions \cup {"none"}
  /\ {u.open, u.loading, u.failed, u.exporting} \subseteq BOOLEAN
  /\ \A r \in N : r.key \in Questions

ExportTypes == ExportTyped(ui, net)

LEMMA ExportTypesInit == Export!Init => ExportTypes
<1> SUFFICES ASSUME Export!Init PROVE ExportTypes
  OBVIOUS
<1>1. PICK q \in Questions :
        ui = [q |-> q, open |-> FALSE, loading |-> FALSE, failed |-> FALSE, shown |-> "none",
              exporting |-> FALSE]
  BY DEF Export!Init, Export!Shows, Export!Mounted
<1>2. net = {}
  BY DEF Export!Init, Export!Shows
<1> QED
  BY <1>1, <1>2 DEF ExportTypes, ExportTyped, ExportFields

\* An answer brings what was asked for.
LEMMA ExportTypesStep == ASSUME ExportTypes, Export!Next PROVE ExportTypes'
<1>1. PICK v, u : v = ui' /\ u = ui
  OBVIOUS
<1>2. ExportTyped(u, net)
  BY <1>1 DEF ExportTypes
<1> SUFFICES ExportTyped(v, net')
  BY <1>1 DEF ExportTypes
<1>3. CASE Export!ChangeQuestion
  <2>1. PICK q \in Questions : v = [u EXCEPT !.q = q] /\ net' = net
    BY <1>1, <1>3 DEF Export!ChangeQuestion
  <2> QED
    BY <1>2, <2>1 DEF ExportTyped, ExportFields
<1>4. CASE Export!OpenPreview
  <2>1. PICK n : n = [id |-> Export!Fresh, op |-> "preview", key |-> u.q]
    OBVIOUS
  <2>2. /\ v = [u EXCEPT !.open = TRUE, !.loading = TRUE, !.failed = FALSE, !.shown = "none"]
        /\ net' = net \cup {n} /\ n.key = u.q
    BY <1>1, <1>4, <2>1 DEF Export!OpenPreview, Export!Sent
  <2> QED
    BY <1>2, <2>2 DEF ExportTyped, ExportFields
<1>5. CASE Export!ClosePreview
  <2>1. v = [u EXCEPT !.open = FALSE] /\ net' = net
    BY <1>1, <1>5 DEF Export!ClosePreview
  <2> QED
    BY <1>2, <2>1 DEF ExportTyped, ExportFields
<1>6. CASE Export!AnswerPreview
  <2>1. PICK r \in Export!Pending("preview"), ok \in BOOLEAN :
          /\ ui' = [ui EXCEPT !.loading = FALSE, !.shown = IF ok THEN r.key ELSE @,
                              !.failed = @ \/ ~ok]
          /\ net' = Export!Without(r)
    BY <1>6, Zenon DEF Export!AnswerPreview
  <2>2. PICK s, f : s = (IF ok THEN r.key ELSE u.shown) /\ f = (u.failed \/ ~ok)
    OBVIOUS
  <2>3. r \in net /\ net' = net \ {r} /\ f \in BOOLEAN /\ s \in {r.key, u.shown}
    BY <2>1, <2>2 DEF Export!Pending, Export!Without
  <2>4. v = [u EXCEPT !.loading = FALSE, !.shown = s, !.failed = f]
    BY <1>1, <2>1, <2>2
  <2> QED
    BY <1>2, <2>3, <2>4 DEF ExportTyped, ExportFields
<1>7. CASE Export!Download
  <2>1. PICK n : n = [id |-> Export!Fresh, op |-> "download", key |-> u.q]
    OBVIOUS
  <2>2. v = [u EXCEPT !.exporting = TRUE] /\ net' = net \cup {n} /\ n.key = u.q
    BY <1>1, <1>7, <2>1 DEF Export!Download, Export!Sent
  <2> QED
    BY <1>2, <2>2 DEF ExportTyped, ExportFields
<1>8. CASE Export!AnswerDownload
  <2>1. PICK r \in Export!Pending("download"), ok \in BOOLEAN :
          /\ ui' = [ui EXCEPT !.exporting = FALSE, !.open = @ /\ ~ok]
          /\ net' = Export!Without(r)
    BY <1>8, Zenon DEF Export!AnswerDownload
  <2>2. PICK o : o = (u.open /\ ~ok)
    OBVIOUS
  <2>3. net' \subseteq net /\ o \in BOOLEAN
    BY <2>1, <2>2 DEF Export!Without
  <2>4. v = [u EXCEPT !.exporting = FALSE, !.open = o]
    BY <1>1, <2>1, <2>2
  <2> QED
    BY <1>2, <2>3, <2>4 DEF ExportTyped, ExportFields
<1> QED
  BY <1>3, <1>4, <1>5, <1>6, <1>7, <1>8 DEF Export!Next

LEMMA ExportTypesStay == ASSUME ExportTypes, UNCHANGED vars PROVE ExportTypes'
BY DEF vars, ExportTypes, ExportTyped

LEMMA ExportIsTyped == ASSUME ExportTypes PROVE Export!TypeOK
BY DEF ExportTypes, ExportTyped, Export!TypeOK

-----------------------------------------------------------------------------
(* AlertDetail: the choices are for the alert shown, and so is what is entered  *)
(* unless it strayed: while nothing strays, every request is of the alert of    *)
(* the address, and an alert is entered for only while it is that one.          *)

DetailFields == {"id", "shown", "loading", "busy", "choice", "entered", "dialog", "success",
                 "stray"}

DetailRequest(r) ==
  /\ DOMAIN r = {"id", "op", "key"} /\ DOMAIN r.key = {"at", "on", "ends"}
  /\ r.key.at \in Alerts /\ r.key.on \in Alerts
  /\ r.op \in {"load", "reload"} => r.key.on = r.key.at

\* What is entered under u is for the alert shown, and that is the one of the address.
EnteredHere(u) ==
  \A e \in Detail!Entries :
    u.entered[e] = "none" \/ (u.entered[e] = u.shown /\ u.shown = u.id)

DetailInv ==
  /\ DOMAIN ui = DetailFields
  /\ \A r \in net : DetailRequest(r)
  /\ Detail!TypeOK
  /\ ui.choice = ui.shown
  /\ ui.loading => \E r \in net : r.op \in {"load", "reload"}
  /\ ui.busy => \E r \in net : r.op \in {"act", "reload", "download"}
  /\ ui.stray \/ (EnteredHere(ui) /\ \A r \in net : r.key.at = ui.id)

\* The alert of the address is asked for.
LEMMA DetailInit == Detail!Init => DetailInv
<1> SUFFICES ASSUME Detail!Init PROVE DetailInv
  OBVIOUS
<1>1. ui \in Detail!Mounted
  BY DEF Detail!Init
<1>2. PICK a \in Alerts :
        ui = [id |-> a, shown |-> "none", loading |-> TRUE, busy |-> FALSE, choice |-> "none",
              entered |-> [e \in Detail!Entries |-> "none"], dialog |-> FALSE, success |-> FALSE,
              stray |-> FALSE]
  BY <1>1 DEF Detail!Mounted
<1>3. net = {[id |-> 1, op |-> "load", key |-> [at |-> a, on |-> a, ends |-> "none"]]}
  BY <1>2 DEF Detail!Init, Detail!Key
<1>4. ui.entered = [e \in Detail!Entries |-> "none"] /\ ui.id = a /\ ui.shown = "none"
  BY <1>2
<1>5. /\ ui.entered \in [Detail!Entries -> Alerts \cup {"none"}]
      /\ EnteredHere(ui)
  BY <1>4 DEF EnteredHere
<1>6. Detail!TypeOK
  BY <1>2, <1>5 DEF Detail!TypeOK
<1>7. \A r \in net : DetailRequest(r) /\ r.key.at = ui.id /\ r.op = "load"
  BY <1>3, <1>4 DEF DetailRequest
<1>8. DOMAIN ui = DetailFields /\ ui.choice = ui.shown /\ ~ui.busy
  BY <1>2 DEF DetailFields
<1>9. net # {}
  BY <1>3
<1> QED
  BY <1>5, <1>6, <1>7, <1>8, <1>9 DEF DetailInv

\* A request is for the alert of the address and one that the page knows.
LEMMA DetailAsks ==
  ASSUME NEW op, NEW a \in Alerts, NEW b \in Alerts, NEW e,
         op \in {"load", "reload"} => b = a
  PROVE  LET n == Detail!Req(op, a, b, e)
         IN  DetailRequest(n) /\ n.key.at = a /\ n.op = op
BY DEF Detail!Req, Detail!Key, DetailRequest

\* An entry that is reset leaves the others.
LEMMA DetailResets ==
  ASSUME NEW f \in [Detail!Entries -> Alerts \cup {"none"}], NEW e
  PROVE  /\ Detail!Reset(f, e) \in [Detail!Entries -> Alerts \cup {"none"}]
         /\ \A x \in Detail!Entries : Detail!Reset(f, e)[x] \in {"none", f[x]}
BY DEF Detail!Reset

\* A step that leaves the alert of the address, shows that of the address or none
\* other than before, and empties entries or none keeps what is entered in place.
LEMMA DetailKeeps ==
  ASSUME DetailInv,
         DOMAIN ui' = DetailFields, ui'.id = ui.id, ui'.stray = ui.stray,
         ui'.shown = ui.shown \/ (ui'.shown \in Alerts /\ (ui'.stray \/ ui'.shown = ui.id)),
         ui'.choice = ui'.shown,
         ui'.entered \in [Detail!Entries -> Alerts \cup {"none"}],
         \A x \in Detail!Entries : ui'.entered[x] \in {"none", ui.entered[x]},
         ui'.loading \in BOOLEAN, ui'.busy \in BOOLEAN, ui'.dialog \in BOOLEAN, ui'.success \in BOOLEAN,
         \A r \in net' : r \in net \/ (DetailRequest(r) /\ (ui.stray \/ r.key.at = ui.id)),
         ui'.loading => \E r \in net' : r.op \in {"load", "reload"},
         ui'.busy => \E r \in net' : r.op \in {"act", "reload", "download"}
  PROVE  DetailInv'
<1>1. Detail!TypeOK'
  BY Zenon DEF DetailInv, Detail!TypeOK
<1>2. \A r \in net' : DetailRequest(r)
  BY DEF DetailInv
<1>3. ui'.stray \/ (EnteredHere(ui') /\ \A r \in net' : r.key.at = ui'.id)
  <2> SUFFICES ASSUME ~ui.stray PROVE EnteredHere(ui') /\ \A r \in net' : r.key.at = ui.id
    OBVIOUS
  <2>1. EnteredHere(ui) /\ \A r \in net : r.key.at = ui.id
    BY DEF DetailInv
  <2>2. EnteredHere(ui')
    <3> SUFFICES ASSUME NEW x \in Detail!Entries, ui'.entered[x] # "none"
                 PROVE  ui'.entered[x] = ui'.shown /\ ui'.shown = ui'.id
      BY DEF EnteredHere
    <3>1. ui'.entered[x] = ui.entered[x] /\ ui.entered[x] = ui.shown /\ ui.shown = ui.id
      BY <2>1 DEF EnteredHere
    <3> QED
      BY <3>1
  <2> QED
    BY <2>1, <2>2
<1> QED
  BY <1>1, <1>2, <1>3, Zenon DEF DetailInv

\* The alert and the choices are set together, and nothing else sets them.
LEMMA DetailStep == ASSUME DetailInv, Detail!Next PROVE DetailInv'
<1>0. /\ ui.id \in Alerts /\ ui.shown \in Alerts \cup {"none"} /\ ui.choice = ui.shown
      /\ ui.entered \in [Detail!Entries -> Alerts \cup {"none"}] /\ "none" \notin Alerts
      /\ ui.loading \in BOOLEAN /\ ui.busy \in BOOLEAN /\ ui.stray \in BOOLEAN
      /\ ui.dialog \in BOOLEAN /\ ui.success \in BOOLEAN /\ DOMAIN ui = DetailFields
  BY FrontendAssumption DEF DetailInv, Detail!TypeOK, Detail!DetailAssumption
<1>00. \A r \in net : DetailRequest(r)
  BY DEF DetailInv
<1>1. CASE Detail!OpenOther
  <2>1. PICK a \in Alerts :
          /\ ui' = [ui EXCEPT !.id = a, !.loading = TRUE,
                              !.stray = ~Detail!NothingEntered \/ net # {}]
          /\ net' = net \cup {Detail!Req("load", a, a, "none")}
    BY <1>1, Zenon DEF Detail!OpenOther
  <2>2. /\ DOMAIN ui' = DetailFields /\ ui'.id = a /\ ui'.loading = TRUE
        /\ ui'.stray = (~Detail!NothingEntered \/ net # {})
        /\ ui'.shown = ui.shown /\ ui'.choice = ui.choice /\ ui'.busy = ui.busy
        /\ ui'.entered = ui.entered /\ ui'.dialog = ui.dialog /\ ui'.success = ui.success
    BY <1>0, <2>1, Zenon DEF DetailFields
  <2>3. Detail!TypeOK'
    BY <1>0, <2>2, Zenon DEF Detail!TypeOK
  <2>4. PICK n : n = Detail!Req("load", a, a, "none")
    OBVIOUS
  <2>5. DetailRequest(n) /\ n.key.at = a /\ n.op = "load"
    BY <2>4, DetailAsks
  <2>6. net' = net \cup {n}
    BY <2>1, <2>4
  <2>7. ui'.stray \/ (EnteredHere(ui') /\ \A r \in net' : r.key.at = ui'.id)
    <3> SUFFICES ASSUME Detail!NothingEntered, net = {}
                 PROVE  EnteredHere(ui') /\ \A r \in net' : r.key.at = ui'.id
      BY <2>2
    <3> QED
      BY <2>2, <2>5, <2>6 DEF EnteredHere, Detail!NothingEntered
  <2>8. ui'.busy => \E r \in net' : r.op \in {"act", "reload", "download"}
    BY <2>2, <2>6 DEF DetailInv
  <2> QED
    BY <1>0, <1>00, <2>2, <2>3, <2>5, <2>6, <2>7, <2>8 DEF DetailInv
<1>2. CASE Detail!AnswerLoad
  <2>1. PICK r \in net : /\ r.op = "load" /\ net' = net \ {r}
                         /\ \/ ui' = [ui EXCEPT !.shown = r.key.on, !.choice = r.key.on, !.loading = FALSE]
                            \/ ui' = [ui EXCEPT !.loading = FALSE]
    BY <1>2, Zenon DEF Detail!AnswerLoad, Detail!ShowAlert, Detail!Pending, Detail!Without
  <2>2. /\ DOMAIN ui' = DetailFields /\ ui'.loading = FALSE
        /\ ui'.shown \in {ui.shown, r.key.on} /\ ui'.choice = ui'.shown
        /\ \A f \in DetailFields \ {"shown", "choice", "loading"} : ui'[f] = ui[f]
    BY <1>0, <2>1, Zenon DEF DetailFields
  <2>3. r.key.on \in Alerts /\ (ui.stray \/ r.key.on = ui.id)
    BY <1>00, <2>1 DEF DetailInv, DetailRequest
  <2>4. /\ ui'.id = ui.id /\ ui'.stray = ui.stray /\ ui'.entered = ui.entered
        /\ ui'.busy = ui.busy /\ ui'.dialog = ui.dialog /\ ui'.success = ui.success
    BY <2>2, Zenon DEF DetailFields
  <2>5. ui'.busy => \E q \in net' : q.op \in {"act", "reload", "download"}
    BY <2>1, <2>4 DEF DetailInv
  <2>6. \A x \in Detail!Entries : ui'.entered[x] \in {"none", ui.entered[x]}
    BY <2>4
  <2>8. \A q \in net' : q \in net
    BY <2>1
  <2> QED
    BY <1>0, <2>2, <2>3, <2>4, <2>5, <2>6, <2>8, DetailKeeps
<1>3. ASSUME NEW kind, Detail!Act(kind) PROVE DetailInv'
  <2>1. PICK e : /\ ui' = [ui EXCEPT !.busy = TRUE, !.success = FALSE,
                      !.dialog = @ /\ kind # "state",
                      !.entered = IF kind = "comment" THEN Detail!Reset(@, kind) ELSE @]
        /\ net' = net \cup {Detail!Req("act", ui.id, ui.shown, e)} /\ ui.shown # "none"
    BY <1>3, Zenon DEF Detail!Act, Detail!Usable
  <2>2. /\ DOMAIN ui' = DetailFields /\ ui'.busy = TRUE /\ ui'.success = FALSE
        /\ ui'.entered \in {ui.entered, Detail!Reset(ui.entered, kind)}
        /\ ui'.dialog \in BOOLEAN
        /\ \A f \in DetailFields \ {"busy", "success", "dialog", "entered"} : ui'[f] = ui[f]
    BY <1>0, <2>1, Zenon DEF DetailFields
  <2>3. ui.shown \in Alerts /\ ui.id \in Alerts
    BY <1>0, <2>1
  <2>4. PICK n : n = Detail!Req("act", ui.id, ui.shown, e)
    OBVIOUS
  <2>5. DetailRequest(n) /\ n.key.at = ui.id /\ n.op = "act"
    BY <2>3, <2>4, DetailAsks
  <2>6. net' = net \cup {n}
    BY <2>1, <2>4
  <2>7. /\ ui'.entered \in [Detail!Entries -> Alerts \cup {"none"}]
        /\ \A x \in Detail!Entries : ui'.entered[x] \in {"none", ui.entered[x]}
    BY <1>0, <2>2, DetailResets
  <2>8. /\ ui'.id = ui.id /\ ui'.stray = ui.stray /\ ui'.shown = ui.shown
        /\ ui'.choice = ui'.shown /\ ui'.loading = ui.loading
    BY <1>0, <2>2, Zenon DEF DetailFields
  <2>9. ui'.loading => \E r \in net' : r.op \in {"load", "reload"}
    BY <2>6, <2>8 DEF DetailInv
  <2>11. \E r \in net' : r.op = "act"
    BY <2>5, <2>6
  <2>12. \A r \in net' : r \in net \/ (DetailRequest(r) /\ (ui.stray \/ r.key.at = ui.id))
    BY <2>5, <2>6
  <2> QED
    BY <1>0, <2>2, <2>7, <2>8, <2>9, <2>11, <2>12, DetailKeeps
<1>4. CASE Detail!ActDone
  <2>1. PICK r \in net :
          /\ r.op = "act"
          /\ ui' = [ui EXCEPT !.loading = TRUE, !.entered = Detail!Reset(@, r.key.ends)]
          /\ net' = (net \ {r}) \cup
               {[r EXCEPT !.op = "reload", !.key = Detail!Key(r.key.at, r.key.at, "none")]}
    BY <1>4 DEF Detail!ActDone, Detail!Pending, Detail!Without
  <2>2. PICK n : n = [r EXCEPT !.op = "reload", !.key = Detail!Key(r.key.at, r.key.at, "none")]
    OBVIOUS
  <2>3. DetailRequest(n) /\ n.key.at = r.key.at /\ n.op = "reload"
    BY <1>00, <2>1, <2>2 DEF DetailRequest, Detail!Key
  <2>4. ui.stray \/ r.key.at = ui.id
    BY <2>1 DEF DetailInv
  <2>5. /\ DOMAIN ui' = DetailFields /\ ui'.loading = TRUE
        /\ ui'.entered = Detail!Reset(ui.entered, r.key.ends)
        /\ \A f \in DetailFields \ {"loading", "entered"} : ui'[f] = ui[f]
    BY <1>0, <2>1, Zenon DEF DetailFields
  <2>6. /\ ui'.entered \in [Detail!Entries -> Alerts \cup {"none"}]
        /\ \A x \in Detail!Entries : ui'.entered[x] \in {"none", ui.entered[x]}
    BY <1>0, <2>5, DetailResets
  <2>7. net' = (net \ {r}) \cup {n}
    BY <2>1, <2>2
  <2>8. \E q \in net' : q.op = "reload"
    BY <2>3, <2>7
  <2>9. \A q \in net' : q \in net \/ (DetailRequest(q) /\ (ui.stray \/ q.key.at = ui.id))
    BY <2>3, <2>4, <2>7
  <2>10. /\ ui'.id = ui.id /\ ui'.stray = ui.stray /\ ui'.shown = ui.shown
         /\ ui'.choice = ui'.shown /\ ui'.busy = ui.busy
         /\ ui'.dialog = ui.dialog /\ ui'.success = ui.success
    BY <1>0, <2>5, Zenon DEF DetailFields
  <2> QED
    BY <1>0, <2>5, <2>6, <2>8, <2>9, <2>10, DetailKeeps
<1>5. CASE Detail!ActFails \/ Detail!Downloaded
  <2>1. PICK r \in net, s \in {ui.success} \cup BOOLEAN :
          /\ r.op \in {"act", "download"} /\ net' = net \ {r}
          /\ ui' = [ui EXCEPT !.busy = FALSE, !.success = s]
    <3>1. CASE Detail!ActFails
      <4>1. [ui EXCEPT !.busy = FALSE] = [ui EXCEPT !.busy = FALSE, !.success = ui.success]
        BY <1>0, Zenon DEF DetailFields
      <4> QED
        BY <3>1, <4>1, Zenon DEF Detail!ActFails, Detail!Pending, Detail!Without
    <3>2. CASE Detail!Downloaded
      BY <3>2, Zenon DEF Detail!Downloaded, Detail!Pending, Detail!Without
    <3> QED
      BY <1>5, <3>1, <3>2, Zenon
  <2>2. /\ DOMAIN ui' = DetailFields /\ ui'.busy = FALSE /\ ui'.success = s
        /\ \A f \in DetailFields \ {"busy", "success"} : ui'[f] = ui[f]
    BY <1>0, <2>1, Zenon DEF DetailFields
  <2>3. /\ ui'.id = ui.id /\ ui'.stray = ui.stray /\ ui'.shown = ui.shown
        /\ ui'.choice = ui'.shown /\ ui'.loading = ui.loading
        /\ ui'.dialog = ui.dialog /\ ui'.entered = ui.entered
    BY <1>0, <2>2, Zenon DEF DetailFields
  <2>4. ui'.loading => \E q \in net' : q.op \in {"load", "reload"}
    BY <2>1, <2>3 DEF DetailInv
  <2>5. \A x \in Detail!Entries : ui'.entered[x] \in {"none", ui.entered[x]}
    BY <2>3
  <2>7. \A q \in net' : q \in net
    BY <2>1
  <2>8. s \in BOOLEAN
    BY <1>0, <2>1
  <2> QED
    BY <1>0, <2>2, <2>3, <2>4, <2>5, <2>7, <2>8, DetailKeeps
<1>6. CASE Detail!Reloaded
  <2>1. PICK r \in net :
          /\ r.op = "reload" /\ net' = net \ {r}
          /\ \/ ui' = [ui EXCEPT !.shown = r.key.on, !.choice = r.key.on, !.loading = FALSE,
                                 !.busy = FALSE, !.success = TRUE]
             \/ ui' = [ui EXCEPT !.loading = FALSE, !.busy = FALSE, !.success = TRUE]
    BY <1>6, Zenon DEF Detail!Reloaded, Detail!ShowAlert, Detail!Pending, Detail!Without
  <2>2. /\ DOMAIN ui' = DetailFields /\ ui'.loading = FALSE /\ ui'.busy = FALSE
        /\ ui'.success = TRUE /\ ui'.shown \in {ui.shown, r.key.on} /\ ui'.choice = ui'.shown
        /\ \A f \in DetailFields \ {"shown", "choice", "loading", "busy", "success"} :
             ui'[f] = ui[f]
    BY <1>0, <2>1, Zenon DEF DetailFields
  <2>3. r.key.on \in Alerts /\ (ui.stray \/ r.key.on = ui.id)
    BY <1>00, <2>1 DEF DetailInv, DetailRequest
  <2>4. /\ ui'.id = ui.id /\ ui'.stray = ui.stray /\ ui'.entered = ui.entered
        /\ ui'.dialog = ui.dialog
    BY <2>2, Zenon DEF DetailFields
  <2>5. \A x \in Detail!Entries : ui'.entered[x] \in {"none", ui.entered[x]}
    BY <2>4
  <2>7. \A q \in net' : q \in net
    BY <2>1
  <2> QED
    BY <1>0, <2>2, <2>3, <2>4, <2>5, <2>7, DetailKeeps
<1>7. CASE Detail!Download
  <2>1. /\ ui' = [ui EXCEPT !.busy = TRUE, !.success = FALSE] /\ ui.shown # "none"
        /\ net' = net \cup {Detail!Req("download", ui.id, ui.shown, "none")}
    BY <1>7 DEF Detail!Download, Detail!Usable
  <2>2. /\ DOMAIN ui' = DetailFields /\ ui'.busy = TRUE /\ ui'.success = FALSE
        /\ \A f \in DetailFields \ {"busy", "success"} : ui'[f] = ui[f]
    BY <1>0, <2>1, Zenon DEF DetailFields
  <2>3. ui.shown \in Alerts /\ ui.id \in Alerts
    BY <1>0, <2>1
  <2>4. PICK n : n = Detail!Req("download", ui.id, ui.shown, "none")
    OBVIOUS
  <2>5. DetailRequest(n) /\ n.key.at = ui.id /\ n.op = "download"
    BY <2>3, <2>4, DetailAsks
  <2>6. net' = net \cup {n}
    BY <2>1, <2>4
  <2>7. /\ ui'.id = ui.id /\ ui'.stray = ui.stray /\ ui'.shown = ui.shown
        /\ ui'.choice = ui'.shown /\ ui'.loading = ui.loading
        /\ ui'.dialog = ui.dialog /\ ui'.entered = ui.entered
    BY <1>0, <2>2, Zenon DEF DetailFields
  <2>8. ui'.loading => \E r \in net' : r.op \in {"load", "reload"}
    BY <2>6, <2>7 DEF DetailInv
  <2>10. \E r \in net' : r.op = "download"
    BY <2>5, <2>6
  <2>11. \A r \in net' : r \in net \/ (DetailRequest(r) /\ (ui.stray \/ r.key.at = ui.id))
    BY <2>5, <2>6
  <2>12. \A x \in Detail!Entries : ui'.entered[x] \in {"none", ui.entered[x]}
    BY <2>7
  <2> QED
    BY <1>0, <2>2, <2>7, <2>8, <2>10, <2>11, <2>12, DetailKeeps
<1>8. CASE Detail!ToggleStateDialog \/ Detail!Choose
  <2>1. net' = net /\ \E x \in BOOLEAN : \/ ui' = [ui EXCEPT !.dialog = x]
                                         \/ ui' = [ui EXCEPT !.choice = ui.shown]
    BY <1>0, <1>8, Zenon DEF Detail!ToggleStateDialog, Detail!Choose
  <2>2. /\ DOMAIN ui' = DetailFields /\ ui'.dialog \in BOOLEAN /\ ui'.choice = ui.shown
        /\ \A f \in DetailFields \ {"dialog", "choice"} : ui'[f] = ui[f]
    BY <1>0, <2>1, Zenon DEF DetailFields
  <2>3. /\ ui'.id = ui.id /\ ui'.stray = ui.stray /\ ui'.shown = ui.shown
        /\ ui'.choice = ui'.shown /\ ui'.loading = ui.loading /\ ui'.busy = ui.busy
        /\ ui'.success = ui.success /\ ui'.entered = ui.entered
    BY <2>2, Zenon DEF DetailFields
  <2>4. \A x \in Detail!Entries : ui'.entered[x] \in {"none", ui.entered[x]}
    BY <2>3
  <2>6. /\ ui.loading => \E r \in net : r.op \in {"load", "reload"}
        /\ ui.busy => \E r \in net : r.op \in {"act", "reload", "download"}
    BY DEF DetailInv
  <2> QED
    BY <1>0, <2>1, <2>2, <2>3, <2>4, <2>6, DetailKeeps
<1>9. CASE Detail!Enter
  <2>1. PICK e \in Detail!Entries, w \in {"none", ui.shown} :
          /\ net' = net
          /\ ui' = [ui EXCEPT !.entered = [@ EXCEPT ![e] = w],
                              !.stray = @ \/ ui.id # ui.shown]
    BY <1>9, Zenon DEF Detail!Enter
  <2>2. /\ DOMAIN ui' = DetailFields /\ ui'.entered = [ui.entered EXCEPT ![e] = w]
        /\ ui'.stray = (ui.stray \/ ui.id # ui.shown)
        /\ \A f \in DetailFields \ {"entered", "stray"} : ui'[f] = ui[f]
    BY <1>0, <2>1, Zenon DEF DetailFields
  <2>3. /\ ui'.id = ui.id /\ ui'.shown = ui.shown /\ ui'.choice = ui.choice
        /\ ui'.loading = ui.loading /\ ui'.busy = ui.busy
        /\ ui'.success = ui.success /\ ui'.dialog = ui.dialog
    BY <2>2, Zenon DEF DetailFields
  <2>4. /\ ui'.entered \in [Detail!Entries -> Alerts \cup {"none"}]
        /\ \A x \in Detail!Entries : ui'.entered[x] \in {ui.entered[x], "none", ui.shown}
    BY <1>0, <2>1, <2>2
  <2>5. Detail!TypeOK'
    BY <1>0, <2>2, <2>3, <2>4, Zenon DEF Detail!TypeOK
  <2>6. ui'.stray \/ (EnteredHere(ui') /\ \A r \in net' : r.key.at = ui'.id)
    <3> SUFFICES ASSUME ~ui.stray, ui.id = ui.shown
                 PROVE  EnteredHere(ui') /\ \A r \in net' : r.key.at = ui'.id
      BY <2>2
    <3>1. EnteredHere(ui) /\ \A r \in net : r.key.at = ui.id
      BY DEF DetailInv
    <3> QED
      BY <2>1, <2>3, <2>4, <3>1 DEF EnteredHere
  <2> QED
    BY <1>0, <1>00, <2>1, <2>2, <2>3, <2>5, <2>6 DEF DetailInv
<1> QED
  BY <1>1, <1>2, <1>3, <1>4, <1>5, <1>6, <1>7, <1>8, <1>9 DEF Detail!Next, Detail!Write

\* Nothing changes while the page is left alone.
LEMMA DetailStays == ASSUME DetailInv, UNCHANGED vars PROVE DetailInv'
BY DEF vars, DetailInv, Detail!TypeOK

\* What the invariant says of the page.
LEMMA DetailHolds ==
  ASSUME DetailInv
  PROVE  Detail!TypeOK /\ Detail!BusyIsAwaited /\ Detail!ChoiceIsForShown
<1>1. ui.stray \/ \A e \in Detail!Entries : ui.entered[e] \in {"none", ui.shown}
  BY DEF DetailInv, EnteredHere
<1> QED
  BY <1>1 DEF DetailInv, Detail!BusyIsAwaited, Detail!ChoiceIsForShown, Detail!Pending

-----------------------------------------------------------------------------
(* Dashboard: every widget once, in whatever order they are dragged.           *)

\* Two sequences of n places that hold the same.
SameItems(n, s, t) ==
  /\ \A k \in 1..n : \E l \in 1..n : t[k] = s[l]
  /\ \A l \in 1..n : \E k \in 1..n : t[k] = s[l]

\* Where an element goes when the one at i is put at j.
Shifted(n, s, m, i, j) ==
  \A k \in 1..n : m[k] = IF k = j THEN s[i]
                         ELSE IF i <= k /\ k < j THEN s[k + 1]
                         ELSE IF j < k /\ k <= i THEN s[k - 1]
                         ELSE s[k]

\* An element that is shifted has a place, and nothing else has.
LEMMA ShiftedIsSame ==
  ASSUME NEW n \in Nat, NEW s, NEW m, NEW i \in 1..n, NEW j \in 1..n, Shifted(n, s, m, i, j)
  PROVE  SameItems(n, s, m)
<1>1. \A k \in 1..n : \E l \in 1..n : m[k] = s[l]
  BY DEF Shifted
<1>2. \A l \in 1..n : \E k \in 1..n : m[k] = s[l]
  <2> TAKE l \in 1..n
  <2>1. CASE l = i
    BY <2>1 DEF Shifted
  <2>2. CASE l > i /\ l <= j
    <3>1. l - 1 \in 1..n /\ i <= l - 1 /\ l - 1 < j /\ l - 1 + 1 = l
      BY <2>2
    <3>2. m[l - 1] = s[l]
      BY <3>1 DEF Shifted
    <3> QED
      BY <3>1, <3>2
  <2>3. CASE l < i /\ l >= j
    <3>1. l + 1 \in 1..n /\ j < l + 1 /\ l + 1 <= i /\ l + 1 - 1 = l
      BY <2>3
    <3>2. m[l + 1] = s[l]
      BY <3>1 DEF Shifted
    <3> QED
      BY <3>1, <3>2
  <2>4. CASE l # i /\ ~(l > i /\ l <= j) /\ ~(l < i /\ l >= j)
    <3>1. l # j /\ ~(i <= l /\ l < j) /\ ~(j < l /\ l <= i)
      BY <2>4
    <3>2. m[l] = s[l]
      BY <3>1 DEF Shifted
    <3> QED
      BY <3>2
  <2> QED
    BY <2>1, <2>2, <2>3, <2>4
<1> QED
  BY <1>1, <1>2 DEF SameItems

\* The elements of a concatenation.
LEMMA Concatenated ==
  ASSUME NEW S, NEW p \in Seq(S), NEW q \in Seq(S)
  PROVE  /\ p \o q \in Seq(S) /\ Len(p \o q) = Len(p) + Len(q)
         /\ \A k \in 1..(Len(p) + Len(q)) :
              (p \o q)[k] = IF k <= Len(p) THEN p[k] ELSE q[k - Len(p)]
OBVIOUS

\* t is s, of n elements, without the i-th; m is t, of n - 1, with x at j.
Removed(n, s, i, t) == \A k \in 1..(n-1) : t[k] = IF k < i THEN s[k] ELSE s[k+1]
Inserted(n, t, j, x, m) ==
  \A k \in 1..n : m[k] = IF k < j THEN t[k] ELSE IF k = j THEN x ELSE t[k-1]

\* An element is taken out of a sequence.
LEMMA RemovedIs ==
  ASSUME NEW n \in Nat, NEW S, NEW s \in Seq(S), Len(s) = n, NEW i \in 1..n
  PROVE  /\ Board!RemoveAt(s, i) \in Seq(S) /\ Len(Board!RemoveAt(s, i)) = n - 1
         /\ Removed(n, s, i, Board!RemoveAt(s, i))
<1>1. PICK p, q : p = SubSeq(s, 1, i-1) /\ q = SubSeq(s, i+1, n)
  OBVIOUS
<1>2. p \in Seq(S) /\ Len(p) = i - 1 /\ \A k \in 1..(i-1) : p[k] = s[k]
  BY <1>1
<1>3. q \in Seq(S) /\ Len(q) = n - i /\ \A k \in 1..(n-i) : q[k] = s[k+i]
  BY <1>1
<1>4. PICK t : t = p \o q
  OBVIOUS
<1>5. /\ t \in Seq(S) /\ Len(t) = Len(p) + Len(q)
      /\ \A k \in 1..(Len(p) + Len(q)) : t[k] = IF k <= Len(p) THEN p[k] ELSE q[k - Len(p)]
  <2>1. p \in Seq(S) /\ q \in Seq(S)
    BY <1>2, <1>3
  <2> QED
    BY <1>4, <2>1, Concatenated
<1>6. ASSUME NEW k \in 1..(n-1) PROVE t[k] = IF k < i THEN s[k] ELSE s[k+1]
  <2>1. CASE k < i
    <3>1. t[k] = p[k]
      BY <1>2, <1>3, <1>5, <2>1
    <3> QED
      BY <1>2, <2>1, <3>1
  <2>2. CASE i <= k
    <3>1. t[k] = q[k - (i - 1)]
      BY <1>2, <1>3, <1>5, <2>2
    <3>2. k - (i - 1) \in 1..(n-i) /\ k - (i - 1) + i = k + 1
      BY <2>2
    <3> QED
      BY <1>3, <2>2, <3>1, <3>2
  <2>3. k < i \/ i <= k
    OBVIOUS
  <2> QED
    BY <2>1, <2>2, <2>3
<1>7. Removed(n, s, i, t) /\ Len(t) = n - 1
  BY <1>2, <1>3, <1>5, <1>6 DEF Removed
<1>8. t = Board!RemoveAt(s, i)
  BY <1>1, <1>4 DEF Board!RemoveAt
<1> QED
  BY <1>5, <1>7, <1>8

\* An element is put at j.
LEMMA InsertedIs ==
  ASSUME NEW n \in Nat, NEW S, NEW t \in Seq(S), Len(t) = n - 1, NEW j \in 1..n, NEW x \in S
  PROVE  /\ Board!InsertAt(t, j, x) \in Seq(S) /\ Len(Board!InsertAt(t, j, x)) = n
         /\ Inserted(n, t, j, x, Board!InsertAt(t, j, x))
<1>1. PICK a, b : a = SubSeq(t, 1, j-1) /\ b = SubSeq(t, j, n-1)
  OBVIOUS
<1>2. a \in Seq(S) /\ Len(a) = j - 1 /\ \A k \in 1..(j-1) : a[k] = t[k]
  BY <1>1
<1>3. b \in Seq(S) /\ Len(b) = n - j /\ \A k \in 1..(n-j) : b[k] = t[k+j-1]
  BY <1>1
<1>4. PICK c : c = a \o <<x>>
  OBVIOUS
<1>5. c \in Seq(S) /\ Len(c) = j
  BY <1>2, <1>4
<1>6. c[j] = x /\ \A k \in 1..(j-1) : c[k] = a[k]
  BY <1>2, <1>4
<1>7. PICK m : m = c \o b
  OBVIOUS
<1>8. m \in Seq(S) /\ Len(m) = Len(c) + Len(b)
  BY <1>3, <1>5, <1>7
<1>9. ASSUME NEW k \in 1..n
      PROVE  m[k] = IF k < j THEN t[k] ELSE IF k = j THEN x ELSE t[k-1]
  <2>1. CASE k < j
    <3>1. m[k] = c[k]
      BY <1>3, <1>5, <1>7, <2>1
    <3> QED
      BY <1>2, <1>6, <2>1, <3>1
  <2>2. CASE k = j
    <3>1. m[k] = c[k]
      BY <1>3, <1>5, <1>7, <2>2
    <3> QED
      BY <1>6, <2>2, <3>1
  <2>3. CASE j < k
    <3>1. m[k] = b[k - j]
      BY <1>3, <1>5, <1>7, <2>3
    <3>2. k - j \in 1..(n - j) /\ k - j + j - 1 = k - 1
      BY <2>3
    <3> QED
      BY <1>3, <2>3, <3>1, <3>2
  <2>4. k < j \/ k = j \/ j < k
    OBVIOUS
  <2> QED
    BY <2>1, <2>2, <2>3, <2>4
<1>10. Inserted(n, t, j, x, m) /\ Len(m) = n
  BY <1>3, <1>5, <1>8, <1>9 DEF Inserted
<1>11. m = Board!InsertAt(t, j, x)
  BY <1>1, <1>4, <1>7 DEF Board!InsertAt
<1> QED
  BY <1>8, <1>10, <1>11

\* reorderWidgetLayout puts every element somewhere and adds none.
LEMMA MovedIs ==
  ASSUME NEW n \in Nat, NEW S, NEW s \in [1..n -> S], NEW i \in 1..n, NEW j \in 1..n
  PROVE  /\ Board!Moved(s, i, j) \in [1..n -> S]
         /\ SameItems(n, s, Board!Moved(s, i, j))
<1>1. s \in Seq(S) /\ Len(s) = n /\ s[i] \in S
  OBVIOUS
<1>2. PICK t : t = Board!RemoveAt(s, i)
  OBVIOUS
<1>3. t \in Seq(S) /\ Len(t) = n - 1 /\ Removed(n, s, i, t)
  BY <1>1, <1>2, RemovedIs
<1>4. PICK m : m = Board!Moved(s, i, j)
  OBVIOUS
<1>5. m = Board!InsertAt(t, j, s[i])
  BY <1>2, <1>4 DEF Board!Moved
<1>6. m \in Seq(S) /\ Len(m) = n /\ Inserted(n, t, j, s[i], m)
  BY <1>1, <1>3, <1>5, InsertedIs
<1>7. m \in [1..n -> S]
  BY <1>6
<1>8. Shifted(n, s, m, i, j)
  <2> SUFFICES ASSUME NEW k \in 1..n
               PROVE  m[k] = IF k = j THEN s[i]
                             ELSE IF i <= k /\ k < j THEN s[k + 1]
                             ELSE IF j < k /\ k <= i THEN s[k - 1]
                             ELSE s[k]
    BY DEF Shifted
  <2>1. CASE k < j
    <3>1. m[k] = t[k] /\ k \in 1..(n-1)
      BY <1>6, <2>1 DEF Inserted
    <3>2. t[k] = IF k < i THEN s[k] ELSE s[k+1]
      BY <1>3, <3>1 DEF Removed
    <3> QED
      BY <2>1, <3>1, <3>2
  <2>2. CASE k = j
    BY <1>6, <2>2 DEF Inserted
  <2>3. CASE j < k
    <3>1. m[k] = t[k-1] /\ k - 1 \in 1..(n-1)
      BY <1>6, <2>3 DEF Inserted
    <3>2. t[k-1] = IF k - 1 < i THEN s[k-1] ELSE s[k-1+1]
      BY <1>3, <3>1 DEF Removed
    <3>3. k - 1 + 1 = k
      OBVIOUS
    <3> QED
      BY <2>3, <3>1, <3>2, <3>3
  <2> QED
    BY <2>1, <2>2, <2>3
<1> QED
  BY <1>4, <1>7, <1>8, ShiftedIsSame

\* So a move neither loses a widget nor shows one twice.
LEMMA MovedIsWhole ==
  ASSUME NEW s \in Board!Layouts, NEW i \in Board!Places, NEW j \in Board!Places
  PROVE  Board!Moved(s, i, j) \in Board!Layouts
<1>1. Cardinality(Widgets) \in Nat /\ Board!Places = 1..Cardinality(Widgets)
  <2>1. IsFiniteSet(Widgets)
    BY FrontendAssumption DEF Board!DashboardAssumption, Board!IsFiniteSet, IsFiniteSet
  <2> QED
    BY <2>1, FS_CardinalityType, Zenon DEF Board!Places, Board!Cardinality, Cardinality
<1> PICK n \in Nat : n = Cardinality(Widgets)
  BY <1>1
<1> PICK m : m = Board!Moved(s, i, j)
  OBVIOUS
<1>2. s \in [1..n -> Board!Item] /\ {s[k][1] : k \in 1..n} = Widgets
  BY <1>1 DEF Board!Layouts
<1>3. m \in [1..n -> Board!Item] /\ SameItems(n, s, m)
  BY <1>1, <1>2, MovedIs, Zenon
<1>4. {m[k][1] : k \in 1..n} = {s[k][1] : k \in 1..n}
  <2>1. ASSUME NEW y \in {m[k][1] : k \in 1..n} PROVE y \in {s[k][1] : k \in 1..n}
    <3>1. PICK k \in 1..n : y = m[k][1]
      BY <2>1
    <3>2. PICK l \in 1..n : m[k] = s[l]
      BY <1>3 DEF SameItems
    <3> QED
      BY <3>1, <3>2
  <2>2. ASSUME NEW y \in {s[k][1] : k \in 1..n} PROVE y \in {m[k][1] : k \in 1..n}
    <3>1. PICK l \in 1..n : y = s[l][1]
      BY <2>2
    <3>2. PICK k \in 1..n : m[k] = s[l]
      BY <1>3 DEF SameItems
    <3> QED
      BY <3>1, <3>2
  <2> QED
    BY <2>1, <2>2, Zenon
<1>5. {m[k][1] : k \in 1..n} = Widgets
  BY <1>2, <1>4
<1>6. m \in [Board!Places -> Board!Item]
  BY <1>1, <1>3
<1> QED
  BY <1>1, <1>5, <1>6 DEF Board!Layouts

\* Showing a widget or hiding it leaves it in its place.
LEMMA ToggledIsWhole ==
  ASSUME NEW s \in Board!Layouts, NEW i \in Board!Places
  PROVE  [s EXCEPT ![i] = [@ EXCEPT ![2] = ~s[i][2]]] \in Board!Layouts
<1> PICK x : x = [s[i] EXCEPT ![2] = ~s[i][2]]
  OBVIOUS
<1> PICK m : m = [s EXCEPT ![i] = x]
  OBVIOUS
<1>1. s \in [Board!Places -> Board!Item] /\ {s[k][1] : k \in Board!Places} = Widgets
  BY DEF Board!Layouts
<1>2. x \in Board!Item /\ x[1] = s[i][1]
  <2>1. s[i] \in Board!Item
    BY <1>1
  <2>2. PICK w \in Widgets, b \in BOOLEAN : s[i] = <<w, b>>
    BY <2>1 DEF Board!Item
  <2>3. x = <<w, ~b>>
    BY <2>2
  <2>4. <<w, ~b>> \in Widgets \X BOOLEAN
    BY <2>2, Zenon
  <2> QED
    BY <2>2, <2>3, <2>4 DEF Board!Item
<1>3. m \in [Board!Places -> Board!Item] /\ \A k \in Board!Places : m[k][1] = s[k][1]
  BY <1>1, <1>2
<1>4. {m[k][1] : k \in Board!Places} = {s[k][1] : k \in Board!Places}
  BY <1>3
<1>5. m \in Board!Layouts
  BY <1>1, <1>3, <1>4, Zenon DEF Board!Layouts
<1> QED
  BY <1>5

\* A save in flight carries a whole layout.
BoardInv ==
  /\ DOMAIN ui = {"q", "draft", "shown", "drag", "loading", "saving"}
  /\ DOMAIN srv = {"layout"}
  /\ Board!LayoutIsWhole
  /\ ui.drag = 0 \/ ui.drag \in Board!Places
  /\ \A r \in Board!Pending("save") : r.key.layout \in Board!Layouts

\* The page is mounted with a layout of the server's.
LEMMA BoardInit == Board!Init => BoardInv
<1> SUFFICES ASSUME Board!Init PROVE BoardInv
  OBVIOUS
<1>1. /\ DOMAIN ui = {"q", "draft", "shown", "drag", "loading", "saving"}
      /\ ui.draft \in Board!Layouts /\ ui.drag = 0
  <2>1. ui \in Board!Mounted
    BY DEF Board!Init
  <2> QED
    BY <2>1 DEF Board!Mounted
<1>2. PICK s \in Board!Layouts : srv = [layout |-> s]
  BY DEF Board!Init, Board!Stored
<1>3. Board!Pending("save") = {}
  BY DEF Board!Init, Board!Pending
<1> QED
  BY <1>1, <1>2, <1>3 DEF BoardInv, Board!LayoutIsWhole

\* Whatever replaces the layout is whole.
LEMMA BoardStep == ASSUME BoardInv, Board!Next PROVE BoardInv'
<1>0. /\ \A r \in net : r.op = "save" => r.key.layout \in Board!Layouts
      /\ ui.draft \in Board!Layouts /\ srv.layout \in Board!Layouts
  BY DEF BoardInv, Board!Pending, Board!LayoutIsWhole
<1>1. ASSUME DOMAIN ui' = DOMAIN ui, DOMAIN srv' = DOMAIN srv,
             ui'.draft \in Board!Layouts, srv'.layout \in Board!Layouts,
             ui'.drag = ui.drag \/ ui'.drag = 0 \/ ui'.drag \in Board!Places,
             \A r \in net' : r \in net \/ r.op = "load" \/ r.key.layout \in Board!Layouts
      PROVE  BoardInv'
  <2>1. Board!Layouts' = Board!Layouts /\ Board!Places' = Board!Places
    BY DEF Board!Layouts, Board!Places, Board!Cardinality
  <2>2. \A r \in Board!Pending("save")' : r.key.layout \in Board!Layouts
    BY <1>0, <1>1 DEF Board!Pending
  <2> QED
    BY <1>1, <2>1, <2>2 DEF BoardInv, Board!LayoutIsWhole
<1>2. CASE Board!ChangeQuestion
  <2>1. PICK q : /\ ui' = [ui EXCEPT !.q = q, !.loading = TRUE]
                 /\ net' = net \cup {Board!Req("load", q, << >>)} /\ UNCHANGED srv
    BY <1>2, Zenon DEF Board!ChangeQuestion
  <2>2. Board!Req("load", q, << >>).op = "load"
    BY DEF Board!Req
  <2> QED
    BY <1>0, <1>1, <2>1, <2>2
<1>3. CASE Board!AnswerLoad
  <2>1. PICK s, x :
           /\ s \in Board!Layouts
           /\ ui' = [ui EXCEPT !.draft = s, !.shown = x, !.loading = FALSE]
    BY <1>0, <1>3, Zenon DEF Board!AnswerLoad
  <2>11. s \in Board!Layouts
    BY <2>1
  <2>2. net' \subseteq net /\ UNCHANGED srv
    BY <1>3, Zenon DEF Board!AnswerLoad, Board!Without
  <2>3. DOMAIN ui' = DOMAIN ui /\ ui'.draft = s /\ ui'.drag = ui.drag
    BY <2>1 DEF BoardInv
  <2> QED
    BY <1>0, <1>1, <2>11, <2>2, <2>3
<1>4. CASE Board!ToggleWidget
  <2>1. PICK i \in Board!Places : ui' = [ui EXCEPT !.draft[i][2] = ~@]
    BY <1>4, Zenon DEF Board!ToggleWidget
  <2>2. PICK s : s = [ui.draft EXCEPT ![i] = [@ EXCEPT ![2] = ~ui.draft[i][2]]]
    OBVIOUS
  <2>3. s \in Board!Layouts
    BY <1>0, <2>2, ToggledIsWhole
  <2>4. ui' = [ui EXCEPT !.draft = s]
    BY <2>1, <2>2
  <2>5. DOMAIN ui' = DOMAIN ui /\ ui'.draft = s /\ ui'.drag = ui.drag
    BY <2>4 DEF BoardInv
  <2> QED
    BY <1>0, <1>1, <1>4, <2>3, <2>5 DEF Board!ToggleWidget
<1>5. CASE Board!StartDrag
  <2>1. PICK i \in Board!Places : ui' = [ui EXCEPT !.drag = i]
    BY <1>5 DEF Board!StartDrag
  <2>2. DOMAIN ui' = DOMAIN ui /\ ui'.draft = ui.draft /\ ui'.drag = i
    BY <2>1 DEF BoardInv
  <2> QED
    BY <1>0, <1>1, <1>5, <2>2 DEF Board!StartDrag
<1>6. CASE Board!Drop
  <2>1. PICK i \in Board!Places :
           /\ ui.drag # 0
           /\ ui' = [ui EXCEPT !.draft = Board!Moved(@, ui.drag, i), !.drag = 0]
    BY <1>6, Zenon DEF Board!Drop
  <2>2. Board!Moved(ui.draft, ui.drag, i) \in Board!Layouts
    BY <1>0, <2>1, MovedIsWhole DEF BoardInv
  <2>3. DOMAIN ui' = DOMAIN ui /\ ui'.draft = Board!Moved(ui.draft, ui.drag, i) /\ ui'.drag = 0
    BY <2>1 DEF BoardInv
  <2> QED
    BY <1>0, <1>1, <1>6, <2>2, <2>3 DEF Board!Drop
<1>7. CASE Board!SaveLayout
  <2>1. /\ ui' = [ui EXCEPT !.saving = TRUE]
        /\ net' = net \cup {Board!Req("save", ui.q, ui.draft)} /\ UNCHANGED srv
    BY <1>7 DEF Board!SaveLayout
  <2>2. Board!Req("save", ui.q, ui.draft).key.layout = ui.draft
    BY DEF Board!Req
  <2> QED
    BY <1>0, <1>1, <2>1, <2>2
<1>8. CASE Board!AnswerSave
  <2>1. PICK r \in Board!Pending("save") :
          /\ \/ /\ srv' = [srv EXCEPT !.layout = r.key.layout]
                /\ ui' = [ui EXCEPT !.draft = r.key.layout, !.shown = r.key.q, !.saving = FALSE]
             \/ /\ srv' \in {srv, [srv EXCEPT !.layout = r.key.layout]}
                /\ ui' = [ui EXCEPT !.saving = FALSE]
          /\ net' = Board!Without(r)
    BY <1>8, Zenon DEF Board!AnswerSave
  <2>2. r.key.layout \in Board!Layouts /\ net' \subseteq net
    BY <2>1 DEF BoardInv, Board!Without
  <2>3. /\ DOMAIN srv' = DOMAIN srv /\ srv'.layout \in {srv.layout, r.key.layout}
        /\ DOMAIN ui' = DOMAIN ui /\ ui'.draft \in {ui.draft, r.key.layout}
        /\ ui'.drag = ui.drag
    BY <2>1, Zenon DEF BoardInv
  <2> QED
    BY <1>0, <1>1, <2>2, <2>3
<1> QED
  BY <1>2, <1>3, <1>4, <1>5, <1>6, <1>7, <1>8 DEF Board!Next

\* Nothing changes while the page is left alone.
LEMMA BoardStays == ASSUME BoardInv, UNCHANGED vars PROVE BoardInv'
<1>1. view' = view /\ ui' = ui /\ net' = net /\ srv' = srv
  BY DEF vars
<1> QED
  BY <1>1, Zenon DEF BoardInv, Board!LayoutIsWhole, Board!Layouts, Board!Item, Board!Places,
              Board!Cardinality, Board!Pending

\* What the flags of a state u of the page wait for in the calls N, and which
\* question it shows.
BoardFields == {"q", "draft", "shown", "drag", "loading", "saving"}
BoardWaits(u, N) ==
  /\ DOMAIN u = BoardFields
  /\ u.loading => \E r \in N : r.op = "load"
  /\ u.saving <=> \E r \in N : r.op = "save"
  /\ \A r, x \in N : r.op = "save" /\ x.op = "save" => r = x
  /\ u.q \in Questions /\ u.shown \in Questions \cup {"none"}
  /\ {u.loading, u.saving} \subseteq BOOLEAN /\ \A r \in N : r.key.q \in Questions

BoardBusy == BoardWaits(ui, net)

\* The page is mounted with the call for its widgets.
LEMMA BoardBusyInit == Board!Init => BoardBusy
<1> SUFFICES ASSUME Board!Init PROVE BoardBusy
  OBVIOUS
<1>1. /\ DOMAIN ui = BoardFields /\ ui.loading = TRUE /\ ui.saving = FALSE
      /\ ui.q \in Questions /\ ui.shown = "none"
  <2>1. ui \in Board!Mounted
    BY DEF Board!Init
  <2> QED
    BY <2>1 DEF Board!Mounted, BoardFields
<1>2. PICK n : n = [id |-> 1, op |-> "load", key |-> [q |-> ui.q, layout |-> << >>]]
  OBVIOUS
<1>3. net = {n} /\ n.op = "load" /\ n.key.q \in Questions
  BY <1>1, <1>2 DEF Board!Init
<1> QED
  BY <1>1, <1>3, Zenon DEF BoardBusy, BoardWaits

\* Every step of the page, whichever load is answered first.
LEMMA BoardBusyStep == ASSUME BoardBusy, Board!Next PROVE BoardBusy'
<1>1. PICK v, u : v = ui' /\ u = ui
  OBVIOUS
<1>2. BoardWaits(u, net) /\ DOMAIN u = BoardFields
  BY <1>1 DEF BoardBusy, BoardWaits
<1>3. CASE Board!ChangeQuestion
  <2>1. PICK q, n : /\ q \in Questions /\ ui' = [ui EXCEPT !.q = q, !.loading = TRUE]
                    /\ n = Board!Req("load", q, << >>) /\ net' = net \cup {n}
    BY <1>3, Zenon DEF Board!ChangeQuestion
  <2>2. n.op = "load" /\ n.key.q \in Questions
    BY <2>1 DEF Board!Req
  <2>3. /\ DOMAIN v = BoardFields /\ v.saving = u.saving /\ v.q = q /\ v.shown = u.shown
        /\ v.loading = TRUE
    BY <1>1, <1>2, <2>1 DEF BoardFields
  <2> QED
    BY <1>1, <1>2, <2>1, <2>2, <2>3 DEF BoardBusy, BoardWaits
<1>4. CASE Board!AnswerLoad
  <2>1. PICK r, s, x :
          /\ r \in Board!Pending("load") /\ net' = Board!Without(r) /\ x \in {r.key.q, "none"}
          /\ ui' = [ui EXCEPT !.draft = s, !.shown = x, !.loading = FALSE]
    BY <1>4, Zenon DEF Board!AnswerLoad
  <2>2. ui' = [ui EXCEPT !.draft = s, !.shown = x, !.loading = FALSE]
    BY <2>1
  <2>3. /\ DOMAIN v = BoardFields /\ v.loading = FALSE /\ v.saving = u.saving
        /\ v.q = u.q /\ v.shown = x
    BY <1>1, <1>2, <2>2 DEF BoardFields
  <2>4. r \in net /\ r.op = "load" /\ net' = net \ {r}
    BY <2>1 DEF Board!Pending, Board!Without
  <2> QED
    BY <1>1, <1>2, <2>1, <2>3, <2>4 DEF BoardBusy, BoardWaits
<1>5. CASE Board!ToggleWidget \/ Board!StartDrag \/ Board!Drop
  <2>1. /\ DOMAIN v = BoardFields /\ v.loading = u.loading /\ v.saving = u.saving
        /\ v.q = u.q /\ v.shown = u.shown
    BY <1>1, <1>2, <1>5, Zenon
       DEF Board!ToggleWidget, Board!StartDrag, Board!Drop, BoardFields
  <2>2. net' = net
    BY <1>5, Zenon DEF Board!ToggleWidget, Board!StartDrag, Board!Drop
  <2> QED
    BY <1>1, <1>2, <2>1, <2>2 DEF BoardBusy, BoardWaits
<1>6. CASE Board!SaveLayout
  <2>1. PICK n : n = Board!Req("save", u.q, u.draft)
    OBVIOUS
  <2>2. n.op = "save" /\ n.key.q = u.q
    BY <2>1 DEF Board!Req
  <2>3. ~u.saving /\ v = [u EXCEPT !.saving = TRUE] /\ net' = net \cup {n}
    BY <1>1, <1>6, <2>1 DEF Board!SaveLayout
  <2>4. /\ DOMAIN v = BoardFields /\ v.loading = u.loading /\ v.saving = TRUE
        /\ v.q = u.q /\ v.shown = u.shown
    BY <1>2, <2>3 DEF BoardFields
  <2> QED
    BY <1>1, <1>2, <2>2, <2>3, <2>4 DEF BoardBusy, BoardWaits
<1>7. CASE Board!AnswerSave
  <2>1. PICK r \in Board!Pending("save") :
          /\ net' = Board!Without(r)
          /\ \/ ui' = [ui EXCEPT !.draft = r.key.layout, !.shown = r.key.q, !.saving = FALSE]
             \/ ui' = [ui EXCEPT !.saving = FALSE]
    BY <1>7, Zenon DEF Board!AnswerSave
  <2>3. /\ DOMAIN v = BoardFields /\ v.loading = u.loading /\ v.saving = FALSE
        /\ v.q = u.q /\ v.shown \in {u.shown, r.key.q}
    BY <1>1, <1>2, <2>1, Zenon DEF BoardFields
  <2>4. r \in net /\ r.op = "save" /\ net' = net \ {r}
    BY <2>1 DEF Board!Pending, Board!Without
  <2> QED
    BY <1>1, <1>2, <2>3, <2>4, Zenon DEF BoardBusy, BoardWaits
<1> QED
  BY <1>3, <1>4, <1>5, <1>6, <1>7 DEF Board!Next

LEMMA BoardBusyStays == ASSUME BoardBusy, UNCHANGED vars PROVE BoardBusy'
BY DEF vars, BoardBusy, BoardWaits

\* What the flags say of the page.
LEMMA BoardBusySays == ASSUME BoardBusy PROVE Board!BusyIsAwaited /\ Board!OneWrite
<1>1. Board!BusyIsAwaited
  BY DEF BoardBusy, BoardWaits, Board!BusyIsAwaited, Board!Pending
<1>2. \A r, x \in Board!Pending("save") : r = x
  BY DEF BoardBusy, BoardWaits, Board!Pending
<1> QED
  BY <1>1, <1>2, LoneCardinality, Zenon DEF Board!OneWrite, Board!Cardinality, Cardinality

LEMMA BoardIsTyped == ASSUME BoardInv, BoardBusy PROVE Board!TypeOK
BY DEF BoardInv, BoardBusy, BoardWaits, Board!TypeOK

-----------------------------------------------------------------------------
(* RecentAlarms: the table keeps a column.                                     *)

RecentFields == {"q", "rows", "columns", "filters", "expanded", "details", "loading"}

RecentInv ==
  /\ DOMAIN ui = RecentFields
  /\ Recent!ColumnIsLeft /\ Recent!BusyIsAwaited

\* The columns kept in localStorage are some; every row is closed.
LEMMA RecentInit == Recent!Init => RecentInv
<1> SUFFICES ASSUME Recent!Init PROVE RecentInv
  OBVIOUS
<1>1. PICK q \in Questions, cs \in (SUBSET Columns) \ {{}} :
        ui = [q |-> q, rows |-> {}, columns |-> cs, filters |-> {}, expanded |-> {},
              details |-> {}, loading |-> TRUE]
  BY DEF Recent!Init, Recent!Mounted
<1>2. PICK n : n = [id |-> 1, op |-> "load", key |-> ui.q] /\ net = {n}
  BY Zenon DEF Recent!Init
<1>3. DOMAIN ui = RecentFields /\ ui.columns # {}
  BY <1>1 DEF RecentFields
<1> QED
  BY <1>2, <1>3 DEF RecentInv, Recent!ColumnIsLeft, Recent!BusyIsAwaited, Recent!Pending

\* Only a column that is not the last is taken away.
LEMMA RecentStep == ASSUME RecentInv, Recent!Next PROVE RecentInv'
<1>0. DOMAIN ui = RecentFields /\ ui.columns # {}
  BY DEF RecentInv, Recent!ColumnIsLeft
<1>1. ASSUME DOMAIN ui' = RecentFields, ui'.columns # {},
             \/ ~ui'.loading
             \/ \E r \in net' : r.op = "load"
             \/ net' = net /\ ui'.loading = ui.loading
      PROVE  RecentInv'
  <2>1. Recent!ColumnIsLeft'
    BY <1>1 DEF Recent!ColumnIsLeft
  <2>2. Recent!BusyIsAwaited'
    BY <1>1, Zenon DEF RecentInv, Recent!BusyIsAwaited, Recent!Pending
  <2> QED
    BY <1>1, <2>1, <2>2 DEF RecentInv
<1>2. CASE Recent!ToggleColumn
  <2>1. PICK k, c : /\ c = IF k \notin ui.columns THEN ui.columns \cup {k}
                           ELSE IF ui.columns = {k} THEN ui.columns ELSE ui.columns \ {k}
                    /\ ui' = [ui EXCEPT !.columns = c] /\ net' = net
    BY <1>2, Zenon DEF Recent!ToggleColumn
  <2>2. c # {}
    BY <1>0, <2>1
  <2>3. /\ DOMAIN ui' = RecentFields /\ ui'.columns = c
        /\ \A f \in RecentFields \ {"columns"} : ui'[f] = ui[f]
    BY <1>0, <2>1 DEF RecentFields
  <2> QED
    BY <1>0, <1>1, <2>1, <2>2, <2>3 DEF RecentFields
<1>3. CASE Recent!ChangeQuestion
  <2>1. PICK q, e, d, n :
          /\ ui' = [ui EXCEPT !.q = q, !.loading = TRUE, !.expanded = e, !.details = d]
          /\ net' = net \cup {n} /\ n = [id |-> Recent!Fresh, op |-> "load", key |-> q]
    BY <1>3, Zenon DEF Recent!ChangeQuestion, Recent!Sent
  <2>2. DOMAIN ui' = RecentFields /\ ui'.columns = ui.columns
    BY <1>0, <2>1 DEF RecentFields
  <2>3. n.op = "load"
    BY <2>1
  <2> QED
    BY <1>0, <1>1, <2>1, <2>2, <2>3, Zenon
<1>4. CASE Recent!AnswerLoad
  <2>1. PICK rows : ui' = [ui EXCEPT !.rows = rows, !.loading = FALSE]
    BY <1>4, Zenon DEF Recent!AnswerLoad
  <2>2. DOMAIN ui' = RecentFields /\ ui'.columns = ui.columns /\ ui'.loading = FALSE
    BY <1>0, <2>1 DEF RecentFields
  <2> QED
    BY <1>0, <1>1, <2>2
<1>5. CASE Recent!ToggleFilter \/ Recent!ClearFilters
  <2>1. PICK c : ui' = [ui EXCEPT !.filters = c] /\ net' = net
    BY <1>5 DEF Recent!ToggleFilter, Recent!ClearFilters
  <2>2. DOMAIN ui' = RecentFields /\ \A f \in RecentFields \ {"filters"} : ui'[f] = ui[f]
    BY <1>0, <2>1 DEF RecentFields
  <2> QED
    BY <1>0, <1>1, <2>1, <2>2 DEF RecentFields
<1>6. CASE Recent!ToggleExpand
  <2>1. PICK a : /\ ui' = IF a \in ui.expanded THEN [ui EXCEPT !.expanded = @ \ {a}]
                          ELSE [ui EXCEPT !.expanded = @ \cup {a}, !.details = @ \cup {a}]
                 /\ net' = net
    BY <1>6, Zenon DEF Recent!ToggleExpand
  <2>2. /\ DOMAIN ui' = RecentFields
        /\ \A f \in RecentFields \ {"expanded", "details"} : ui'[f] = ui[f]
    BY <1>0, <2>1, Zenon DEF RecentFields
  <2> QED
    BY <1>0, <1>1, <2>1, <2>2 DEF RecentFields
<1> QED
  BY <1>2, <1>3, <1>4, <1>5, <1>6 DEF Recent!Next

\* Nothing changes while the page is left alone.
LEMMA RecentStays == ASSUME RecentInv, UNCHANGED vars PROVE RecentInv'
BY DEF vars, RecentInv, Recent!ColumnIsLeft, Recent!BusyIsAwaited, Recent!Pending

\* What the table shows, and asks, is of the page.
RecentTypes ==
  /\ DOMAIN ui = RecentFields /\ Recent!TypeOK
  /\ \A r \in net : r.key \in Questions

LEMMA RecentTypesInit == Recent!Init => RecentTypes
<1> SUFFICES ASSUME Recent!Init PROVE RecentTypes
  OBVIOUS
<1>1. PICK q \in Questions, cs \in (SUBSET Columns) \ {{}} :
        ui = [q |-> q, rows |-> {}, columns |-> cs, filters |-> {}, expanded |-> {},
              details |-> {}, loading |-> TRUE]
  BY DEF Recent!Init, Recent!Mounted
<1>2. PICK n : n = [id |-> 1, op |-> "load", key |-> ui.q] /\ net = {n}
  BY Zenon DEF Recent!Init
<1> QED
  BY <1>1, <1>2 DEF RecentTypes, RecentFields, Recent!TypeOK

\* A step of the table: rows of alarms, columns of the set, a question of the page.
LEMMA RecentTypesStep == ASSUME RecentTypes, Recent!Next PROVE RecentTypes'
<1>1. PICK v, u : v = ui' /\ u = ui
  OBVIOUS
<1>2. /\ DOMAIN u = RecentFields /\ u.q \in Questions /\ u.rows \subseteq Alerts
      /\ u.filters \subseteq Labels /\ u.columns \subseteq Columns /\ u.loading \in BOOLEAN
      /\ \A r \in net : r.key \in Questions
  BY <1>1 DEF RecentTypes, Recent!TypeOK
<1>3. ASSUME /\ DOMAIN v = RecentFields /\ v.q \in Questions /\ v.rows \subseteq Alerts
             /\ v.filters \subseteq Labels /\ v.columns \subseteq Columns /\ v.loading \in BOOLEAN,
             \A r \in net' : r.key \in Questions
      PROVE  RecentTypes'
  BY <1>1, <1>3 DEF RecentTypes, Recent!TypeOK
<1>4. CASE Recent!ChangeQuestion
  <2>1. PICK q, e, d, n :
          /\ q \in Questions
          /\ v = [u EXCEPT !.q = q, !.loading = TRUE, !.expanded = e, !.details = d]
          /\ net' = net \cup {n} /\ n = [id |-> Recent!Fresh, op |-> "load", key |-> q]
    BY <1>1, <1>4, Zenon DEF Recent!ChangeQuestion, Recent!Sent
  <2>2. n.key \in Questions
    BY <2>1
  <2> QED
    BY <1>2, <1>3, <2>1, <2>2 DEF RecentFields
<1>5. CASE Recent!AnswerLoad
  <2>1. PICK r, rows :
          /\ r \in Recent!Pending("load") /\ rows \in {Answering[r.key], {}}
          /\ v = [u EXCEPT !.rows = rows, !.loading = FALSE]
          /\ net' = Recent!Without(r)
    BY <1>1, <1>5, Zenon DEF Recent!AnswerLoad
  <2>2. r.key \in Questions /\ \A x \in net' : x.key \in Questions
    BY <1>2, <2>1 DEF Recent!Pending, Recent!Without
  <2>3. rows \subseteq Alerts
    BY <2>1, <2>2, FrontendAssumption DEF Recent!RecentAssumption
  <2> QED
    BY <1>2, <1>3, <2>1, <2>2, <2>3 DEF RecentFields
<1>6. CASE Recent!ToggleFilter
  <2>1. PICK l, c : /\ l \in Recent!Available /\ c \in {u.filters \ {l}, u.filters \cup {l}}
                    /\ v = [u EXCEPT !.filters = c] /\ net' = net
    BY <1>1, <1>6, Zenon DEF Recent!ToggleFilter
  <2>2. PICK a \in u.rows : l = LabelOf[a]
    BY <1>1, <2>1 DEF Recent!Available
  <2>3. l \in Labels
    BY <1>2, <2>2, FrontendAssumption DEF Recent!RecentAssumption
  <2> QED
    BY <1>2, <1>3, <2>1, <2>3 DEF RecentFields
<1>7. CASE Recent!ClearFilters
  <2>1. v = [u EXCEPT !.filters = {}] /\ net' = net
    BY <1>1, <1>7 DEF Recent!ClearFilters
  <2> QED
    BY <1>2, <1>3, <2>1 DEF RecentFields
<1>8. CASE Recent!ToggleColumn
  <2>1. PICK k \in Columns : /\ ui' = [ui EXCEPT !.columns = IF k \notin @ THEN @ \cup {k}
                                                        ELSE IF @ = {k} THEN @ ELSE @ \ {k}]
                           /\ net' = net
    BY <1>8, Zenon DEF Recent!ToggleColumn
  <2>2. PICK c : c = IF k \notin ui.columns THEN ui.columns \cup {k}
                     ELSE IF ui.columns = {k} THEN ui.columns ELSE ui.columns \ {k}
    OBVIOUS
  <2>3. v = [u EXCEPT !.columns = c] /\ c \subseteq Columns
    BY <1>1, <1>2, <2>1, <2>2
  <2> QED
    BY <1>2, <1>3, <2>1, <2>3 DEF RecentFields
<1>9. CASE Recent!ToggleExpand
  <2>1. PICK a : /\ v = IF a \in u.expanded THEN [u EXCEPT !.expanded = @ \ {a}]
                        ELSE [u EXCEPT !.expanded = @ \cup {a}, !.details = @ \cup {a}]
                 /\ net' = net
    BY <1>1, <1>9, Zenon DEF Recent!ToggleExpand
  <2>2. /\ DOMAIN v = RecentFields
        /\ \A f \in RecentFields \ {"expanded", "details"} : v[f] = u[f]
    BY <1>2, <2>1, Zenon DEF RecentFields
  <2> QED
    BY <1>2, <1>3, <2>1, <2>2 DEF RecentFields
<1> QED
  BY <1>4, <1>5, <1>6, <1>7, <1>8, <1>9 DEF Recent!Next

LEMMA RecentTypesStay == ASSUME RecentTypes, UNCHANGED vars PROVE RecentTypes'
BY DEF vars, RecentTypes, Recent!TypeOK

-----------------------------------------------------------------------------
(* TimeRange: the window is an interval, whatever is typed.                    *)

PeriodInv ==
  /\ ui.range \in Period!Range
  /\ DOMAIN srv = {"now", "kept"} /\ srv.now \in Nat /\ srv.kept = ui.range
  /\ Period!WindowIsInterval

\* Times before now, or a custom range that is one.
LEMMA ComputedIsInterval ==
  ASSUME NEW s \in Period!Range, NEW now \in Nat
  PROVE  Period!ComputeWindow(s, now).from <= Period!ComputeWindow(s, now).to
<1>1. \A p \in DOMAIN PresetLength : PresetLength[p] \in Nat
  BY FrontendAssumption DEF Period!TimeRangeAssumption
<1>2. \A h \in Nat : Period!Back(now, h) <= now
  BY DEF Period!Back
<1>3. CASE s.preset # "custom"
  <2>1. s.preset \in DOMAIN PresetLength
    BY <1>3 DEF Period!Range, Period!Presets
  <2> QED
    BY <1>1, <1>2, <1>3, <2>1 DEF Period!ComputeWindow
<1>4. CASE s.preset = "custom" /\ Period!Usable(s)
  BY <1>4 DEF Period!ComputeWindow, Period!Usable
<1>5. CASE s.preset = "custom" /\ ~Period!Usable(s)
  <2>1. PresetLength["24h"] \in Nat
    BY <1>1, FrontendAssumption DEF Period!TimeRangeAssumption
  <2> QED
    BY <1>2, <1>5, <2>1 DEF Period!ComputeWindow
<1> QED
  BY <1>3, <1>4, <1>5

\* The application starts with the range it kept.
LEMMA PeriodInit == Period!Init => PeriodInv
<1> SUFFICES ASSUME Period!Init PROVE PeriodInv
  OBVIOUS
<1>1. PICK s \in Period!Range : ui = [range |-> s, window |-> Period!ComputeWindow(s, 0)]
  BY DEF Period!Init, Period!Shows, Period!Mounted
<1>2. PICK k \in Period!Range : srv = [now |-> 0, kept |-> k] /\ k = ui.range
  BY DEF Period!Init, Period!Shows, Period!Stored
<1> QED
  BY <1>1, <1>2, ComputedIsInterval DEF PeriodInv, Period!WindowIsInterval

\* The window is computed anew whenever the range is.
LEMMA PeriodStep == ASSUME PeriodInv, Period!Next PROVE PeriodInv'
<1>1. ASSUME NEW s \in Period!Range, NEW now \in Nat,
             ui' = [range |-> s, window |-> Period!ComputeWindow(s, now)],
             DOMAIN srv' = DOMAIN srv, srv'.now \in Nat, srv'.kept = s
      PROVE  PeriodInv'
  <2>1. ui'.range = s /\ ui'.window = Period!ComputeWindow(s, now)
    BY <1>1
  <2>2. Period!Range' = Period!Range
    BY DEF Period!Range, Period!Presets, Period!Typed, Period!Invalid
  <2> QED
    BY <1>1, <2>1, <2>2, ComputedIsInterval DEF PeriodInv, Period!WindowIsInterval
<1>2. ASSUME NEW s \in Period!Range, Period!Persist(s) PROVE PeriodInv'
  <2>1. DOMAIN srv' = DOMAIN srv /\ srv'.now = srv.now /\ srv'.kept = s
    BY <1>2 DEF Period!Persist, PeriodInv
  <2> QED
    BY <1>1, <1>2, <2>1 DEF Period!Persist, PeriodInv
<1>3. CASE Period!SetPreset
  <2>1. PICK p \in Period!Presets : Period!Persist([ui.range EXCEPT !.preset = p])
    BY <1>3 DEF Period!SetPreset
  <2>2. [ui.range EXCEPT !.preset = p] \in Period!Range
    BY DEF PeriodInv, Period!Range
  <2> QED
    BY <1>2, <2>1, <2>2
<1>4. CASE Period!SetCustomRange
  <2>1. PICK x \in Period!Typed, end \in {"from", "to"} :
          Period!Persist([ui.range EXCEPT ![end] = x])
    BY <1>4 DEF Period!SetCustomRange
  <2>2. [ui.range EXCEPT ![end] = x] \in Period!Range
    BY DEF PeriodInv, Period!Range
  <2> QED
    BY <1>2, <2>1, <2>2
<1>5. CASE Period!HourPasses
  <2>1. ui' = ui /\ DOMAIN srv' = DOMAIN srv /\ srv'.now \in Nat /\ srv'.kept = srv.kept
    BY <1>5 DEF Period!HourPasses, PeriodInv
  <2>2. Period!Range' = Period!Range
    BY DEF Period!Range, Period!Presets, Period!Typed, Period!Invalid
  <2> QED
    BY <2>1, <2>2 DEF PeriodInv, Period!WindowIsInterval
<1>6. CASE Period!Reload
  BY <1>1, <1>6 DEF Period!Reload, PeriodInv
<1> QED
  BY <1>3, <1>4, <1>5, <1>6 DEF Period!Next

\* Nothing changes while the application is left alone.
LEMMA PeriodStays == ASSUME PeriodInv, UNCHANGED vars PROVE PeriodInv'
BY DEF vars, PeriodInv, Period!WindowIsInterval, Period!Range, Period!Presets, Period!Typed,
       Period!Invalid

-----------------------------------------------------------------------------
(* CustomerAlarms: one export is asked for.                                    *)

OfFields ==
  {"of", "header", "q", "p", "rows", "total", "due", "loading", "exporting", "file"}

\* What a state u of the page holds, and what its flags wait for in the calls N.
OfHolds(u) ==
  /\ DOMAIN u = OfFields
  /\ u.loading \in BOOLEAN /\ u.exporting \in BOOLEAN
OfWaits(u, N) ==
  /\ u.loading => \E r \in N : r.op = "load"
  /\ u.exporting <=> \E r \in N : r.op = "export"
  /\ \A r, x \in N : r.op = "export" /\ x.op = "export" => r = x

OfCustomerInv == OfHolds(ui) /\ OfWaits(ui, net)

LEMMA OfCustomerInit == OfCustomer!Init => OfCustomerInv
<1> SUFFICES ASSUME OfCustomer!Init PROVE OfCustomerInv
  OBVIOUS
<1>1. DOMAIN ui = OfFields /\ ui.rows = {} /\ ui.loading = FALSE /\ ui.exporting = FALSE
  BY DEF OfCustomer!Init, OfCustomer!Shows, OfCustomer!Mounted, OfFields
<1>2. net = {}
  BY DEF OfCustomer!Init, OfCustomer!Shows
<1> QED
  BY <1>1, <1>2, Zenon DEF OfCustomerInv, OfHolds, OfWaits

\* A state that shows the same rows, and waits for the same.
LEMMA OfSame ==
  ASSUME NEW u, NEW v, NEW N, OfHolds(u), OfWaits(u, N), DOMAIN v = OfFields,
         v.rows = u.rows, v.loading = u.loading, v.exporting = u.exporting
  PROVE  OfHolds(v) /\ OfWaits(v, N)
BY DEF OfHolds, OfWaits

\* A question, a page or a customer is chosen: the timer may start, nothing else.
LEMMA OfAsk ==
  ASSUME NEW u, DOMAIN u = OfFields
  PROVE  /\ DOMAIN OfCustomer!Ask(u) = OfFields /\ OfCustomer!Ask(u).rows = u.rows
         /\ OfCustomer!Ask(u).loading = u.loading /\ OfCustomer!Ask(u).exporting = u.exporting
<1>1. PICK d : d = (u.due \/ <<u.q, u.p, u.of>> # <<ui.q, ui.p, ui.of>>)
  OBVIOUS
<1>2. OfCustomer!Ask(u) = [u EXCEPT !.due = d]
  BY <1>1 DEF OfCustomer!Ask, OfFields
<1> QED
  BY <1>2 DEF OfFields

\* What is asked is that of x, a state that shows the same.
LEMMA OfAsked ==
  ASSUME OfCustomerInv, NEW x, DOMAIN x = OfFields, x.rows = ui.rows, x.loading = ui.loading,
         x.exporting = ui.exporting, ui' = OfCustomer!Ask(x), net' = net
  PROVE  OfCustomerInv'
<1>1. /\ DOMAIN ui' = OfFields /\ ui'.rows = ui.rows /\ ui'.loading = ui.loading
      /\ ui'.exporting = ui.exporting
  BY OfAsk
<1>2. OfHolds(ui) /\ OfWaits(ui, net)
  BY DEF OfCustomerInv
<1>3. OfHolds(ui') /\ OfWaits(ui', net)
  BY <1>1, <1>2, OfSame
<1> QED
  BY <1>3 DEF OfCustomerInv

\* A filter, an ordering, a page or the customer of the address changes.
LEMMA OfAsks ==
  ASSUME OfCustomerInv,
         \/ OfCustomer!ToggleSort \/ OfCustomer!SetFilter \/ OfCustomer!ClearFilters
         \/ OfCustomer!ChangePage \/ OfCustomer!OpenCustomer
  PROVE  OfCustomerInv'
<1>1. DOMAIN ui = OfFields
  BY DEF OfCustomerInv, OfHolds
<1>2. net' = net
  BY Zenon DEF OfCustomer!ToggleSort, OfCustomer!SetFilter, OfCustomer!ClearFilters,
         OfCustomer!ChangePage, OfCustomer!OpenCustomer
<1>3. CASE OfCustomer!ToggleSort
  <2>1. PICK q : ui' = OfCustomer!Ask([ui EXCEPT !.q = q, !.p = 0])
    BY <1>3, Zenon DEF OfCustomer!ToggleSort
  <2>2. PICK x : x = [ui EXCEPT !.q = q, !.p = 0]
    OBVIOUS
  <2>3. /\ DOMAIN x = OfFields /\ x.rows = ui.rows /\ x.loading = ui.loading
        /\ x.exporting = ui.exporting
    BY <1>1, <2>2 DEF OfFields
  <2> QED
    BY <1>2, <2>1, <2>2, <2>3, OfAsked, Zenon
<1>4. CASE OfCustomer!SetFilter
  <2>1. PICK q : ui' = OfCustomer!Ask([ui EXCEPT !.q = q, !.p = 0])
    BY <1>4, Zenon DEF OfCustomer!SetFilter
  <2>2. PICK x : x = [ui EXCEPT !.q = q, !.p = 0]
    OBVIOUS
  <2>3. /\ DOMAIN x = OfFields /\ x.rows = ui.rows /\ x.loading = ui.loading
        /\ x.exporting = ui.exporting
    BY <1>1, <2>2 DEF OfFields
  <2> QED
    BY <1>2, <2>1, <2>2, <2>3, OfAsked, Zenon
<1>5. CASE OfCustomer!ClearFilters
  <2>1. ui' = OfCustomer!Ask([ui EXCEPT !.q = Plain, !.p = 0])
    BY <1>5 DEF OfCustomer!ClearFilters
  <2>2. PICK x : x = [ui EXCEPT !.q = Plain, !.p = 0]
    OBVIOUS
  <2>3. /\ DOMAIN x = OfFields /\ x.rows = ui.rows /\ x.loading = ui.loading
        /\ x.exporting = ui.exporting
    BY <1>1, <2>2 DEF OfFields
  <2> QED
    BY <1>2, <2>1, <2>2, <2>3, OfAsked, Zenon
<1>6. CASE OfCustomer!ChangePage
  <2>1. PICK p : ui' = OfCustomer!Ask([ui EXCEPT !.p = p])
    BY <1>6 DEF OfCustomer!ChangePage
  <2>2. PICK x : x = [ui EXCEPT !.p = p]
    OBVIOUS
  <2>3. /\ DOMAIN x = OfFields /\ x.rows = ui.rows /\ x.loading = ui.loading
        /\ x.exporting = ui.exporting
    BY <1>1, <2>2 DEF OfFields
  <2> QED
    BY <1>2, <2>1, <2>2, <2>3, OfAsked, Zenon
<1>7. CASE OfCustomer!OpenCustomer
  <2>1. PICK c : ui' = OfCustomer!Ask([ui EXCEPT !.of = c, !.header = c, !.p = 0])
    BY <1>7, Zenon DEF OfCustomer!OpenCustomer
  <2>2. PICK x : x = [ui EXCEPT !.of = c, !.header = c, !.p = 0]
    OBVIOUS
  <2>3. /\ DOMAIN x = OfFields /\ x.rows = ui.rows /\ x.loading = ui.loading
        /\ x.exporting = ui.exporting
    BY <1>1, <2>2 DEF OfFields
  <2> QED
    BY <1>2, <2>1, <2>2, <2>3, OfAsked, Zenon
<1> QED
  BY <1>3, <1>4, <1>5, <1>6, <1>7

\* Every step of the page.
LEMMA OfCustomerStep == ASSUME OfCustomerInv, OfCustomer!Next PROVE OfCustomerInv'
<1>1. PICK v, u : v = ui' /\ u = ui
  OBVIOUS
<1>2. OfHolds(u) /\ OfWaits(u, net)
  BY <1>1 DEF OfCustomerInv
<1>3. CASE OfCustomer!LoadAlarms
  <2>1. /\ v = [u EXCEPT !.due = FALSE, !.loading = TRUE]
        /\ net' = OfCustomer!Sent("load", OfCustomer!Payload(u))
    BY <1>1, <1>3 DEF OfCustomer!LoadAlarms
  <2>2. DOMAIN v = OfFields /\ v.rows = u.rows /\ v.loading = TRUE /\ v.exporting = u.exporting
    BY <1>2, <2>1 DEF OfHolds, OfFields
  <2>3. PICK n : n = [id |-> OfCustomer!Fresh, op |-> "load", key |-> OfCustomer!Payload(u)]
    OBVIOUS
  <2>4. net' = net \cup {n} /\ n.op = "load"
    BY <2>1, <2>3 DEF OfCustomer!Sent
  <2>5. OfHolds(v) /\ OfWaits(v, net')
    BY <1>2, <2>2, <2>4, Zenon DEF OfHolds, OfWaits
  <2> QED
    BY <1>1, <2>5 DEF OfCustomerInv
<1>4. CASE OfCustomer!AnswerLoad
  <2>0. PICK r \in OfCustomer!Pending("load"), ok \in BOOLEAN :
          /\ ui' = [ui EXCEPT !.rows = IF ok THEN OfCustomer!SearchAnswer(r.key) ELSE {},
                       !.total = IF ok THEN Cardinality(OfCustomer!SearchAnswer(r.key)) ELSE 0,
                       !.loading = FALSE]
          /\ net' = OfCustomer!Without(r)
    BY <1>4, Zenon DEF OfCustomer!AnswerLoad, OfCustomer!Cardinality, Cardinality
  <2>1. r \in net /\ r.op = "load" /\ net' = net \ {r}
    BY <2>0 DEF OfCustomer!Pending, OfCustomer!Without
  <2>2. /\ DOMAIN v = OfFields /\ v.rows \in {OfCustomer!SearchAnswer(r.key), {}}
        /\ v.loading = FALSE /\ v.exporting = u.exporting
    BY <1>1, <1>2, <2>0 DEF OfHolds, OfFields
  <2>3. OfHolds(v) /\ OfWaits(v, net')
    BY <1>2, <2>1, <2>2, Zenon DEF OfHolds, OfWaits
  <2> QED
    BY <1>1, <2>3 DEF OfCustomerInv
<1>5. CASE OfCustomer!ChooseInHeader
  <2>1. PICK c : v = [u EXCEPT !.header = c] /\ net' = net
    BY <1>1, <1>5 DEF OfCustomer!ChooseInHeader
  <2>2. DOMAIN v = OfFields /\ v.rows = u.rows /\ v.loading = u.loading /\ v.exporting = u.exporting
    BY <1>2, <2>1 DEF OfHolds, OfFields
  <2> QED
    BY <1>1, <1>2, <2>1, <2>2, OfSame, Zenon DEF OfCustomerInv
<1>6. CASE OfCustomer!Export
  <2>1. /\ ~u.exporting /\ v = [u EXCEPT !.exporting = TRUE]
        /\ net' = OfCustomer!Sent("export", OfCustomer!Payload(u))
    BY <1>1, <1>6 DEF OfCustomer!Export
  <2>2. DOMAIN v = OfFields /\ v.rows = u.rows /\ v.loading = u.loading /\ v.exporting = TRUE
    BY <1>2, <2>1 DEF OfHolds, OfFields
  <2>3. PICK n : n = [id |-> OfCustomer!Fresh, op |-> "export", key |-> OfCustomer!Payload(u)]
    OBVIOUS
  <2>4. net' = net \cup {n} /\ n.op = "export"
    BY <2>1, <2>3 DEF OfCustomer!Sent
  <2>5. OfHolds(v) /\ OfWaits(v, net')
    BY <1>2, <2>1, <2>2, <2>4 DEF OfHolds, OfWaits
  <2> QED
    BY <1>1, <2>5 DEF OfCustomerInv
<1>7. CASE OfCustomer!AnswerExport
  <2>1. PICK r, f :
          /\ r \in net
          /\ r.op = "export" /\ net' = net \ {r}
          /\ v = [u EXCEPT !.exporting = FALSE, !.file = f]
    <3>1. PICK r \in net, ok \in BOOLEAN :
            /\ r.op = "export" /\ net' = net \ {r}
            /\ ui' = [ui EXCEPT !.exporting = FALSE,
                        !.file = IF ok THEN {[of |-> r.key.of, alerts |-> OfCustomer!ExportAnswer(r.key)]}
                                 ELSE @]
      BY <1>7, Zenon DEF OfCustomer!AnswerExport, OfCustomer!Pending, OfCustomer!Without
    <3>2. PICK f : f = IF ok THEN {[of |-> r.key.of, alerts |-> OfCustomer!ExportAnswer(r.key)]}
                       ELSE u.file
      OBVIOUS
    <3>3. v = [u EXCEPT !.exporting = FALSE, !.file = f]
      BY <1>1, <1>2, <3>1, <3>2 DEF OfHolds, OfFields
    <3> QED
      BY <3>1, <3>3, Zenon
  <2>2. DOMAIN v = OfFields /\ v.rows = u.rows /\ v.loading = u.loading /\ v.exporting = FALSE
    BY <1>2, <2>1 DEF OfHolds, OfFields
  <2>3. OfHolds(v) /\ OfWaits(v, net')
    BY <1>2, <2>1, <2>2 DEF OfHolds, OfWaits
  <2> QED
    BY <1>1, <2>3 DEF OfCustomerInv
<1> QED
  BY <1>3, <1>4, <1>5, <1>6, <1>7, OfAsks DEF OfCustomer!Next

LEMMA OfCustomerStays == ASSUME OfCustomerInv, UNCHANGED vars PROVE OfCustomerInv'
BY DEF vars, OfCustomerInv, OfHolds, OfWaits

\* What the invariant says of the page.
LEMMA OfCustomerSays ==
  ASSUME OfCustomerInv
  PROVE  OfCustomer!BusyIsAwaited /\ OfCustomer!OneWrite
<1>1. OfCustomer!BusyIsAwaited
  BY DEF OfCustomerInv, OfWaits, OfHolds, OfCustomer!BusyIsAwaited, OfCustomer!Pending
<1>2. OfCustomer!OneWrite
  <2>1. \A r, x \in OfCustomer!Pending("export") : r = x
    BY DEF OfCustomerInv, OfWaits, OfCustomer!Pending
  <2> QED
    BY <2>1, LoneCardinality, Zenon
       DEF OfCustomer!OneWrite, OfCustomer!Cardinality, Cardinality
<1> QED
  BY <1>1, <1>2

\* The types of a state u of the page and of a call r.
OfTyped(u) ==
  /\ DOMAIN u = OfFields /\ {u.of, u.header} \subseteq Customers
  /\ u.q \in Questions /\ u.p \in OfCustomer!Pages /\ u.rows \subseteq Alerts
  /\ u.total \in Totals /\ {u.due, u.loading, u.exporting} \subseteq BOOLEAN
  /\ \A f \in u.file : f.of \in Customers /\ f.alerts \subseteq Alerts

OfCall(r) == r.key.q \in Questions /\ r.key.of \in Customers

OfCustomerTypes == OfTyped(ui) /\ srv.alerts = Alerts /\ \A r \in net : OfCall(r)

LEMMA OfCustomerTypesInit == OfCustomer!Init => OfCustomerTypes
<1> SUFFICES ASSUME OfCustomer!Init PROVE OfCustomerTypes
  OBVIOUS
<1>1. PICK c \in Customers :
        ui = [of |-> c, header |-> c, q |-> Plain, p |-> 0, rows |-> {}, total |-> 0,
              due |-> TRUE, loading |-> FALSE, exporting |-> FALSE, file |-> {}]
  BY DEF OfCustomer!Init, OfCustomer!Shows, OfCustomer!Mounted
<1>2. net = {} /\ srv.alerts = Alerts
  BY DEF OfCustomer!Init, OfCustomer!Shows, OfCustomer!Stored
<1>3. Plain \in Questions
  BY FrontendAssumption DEF FrontendAssumption, OfCustomer!CustomerAlarmsAssumption
<1>4. OfTyped(ui)
  BY <1>1, <1>3, NoneIsTotal DEF OfTyped, OfFields, OfCustomer!Pages
<1> QED
  BY <1>2, <1>4 DEF OfCustomerTypes

\* The answers are alerts.
LEMMA OfFinds ==
  ASSUME NEW k, k.q \in Questions
  PROVE  /\ OfCustomer!SearchAnswer(k) \subseteq Alerts
         /\ OfCustomer!ExportAnswer(k) \subseteq Alerts
         /\ Cardinality(OfCustomer!SearchAnswer(k)) \in Totals
<1>1. PICK m : m = OfCustomer!SearchAnswer(k)
  OBVIOUS
<1>2. Answering[k.q] \subseteq Alerts
  BY FrontendAssumption DEF FrontendAssumption, OfCustomer!CustomerAlarmsAssumption
<1>3. m \subseteq Alerts /\ OfCustomer!ExportAnswer(k) \subseteq Alerts
  BY <1>1, <1>2 DEF OfCustomer!SearchAnswer, OfCustomer!ExportAnswer
<1>4. IsFiniteSet(Alerts)
  BY FrontendAssumption
     DEF FrontendAssumption, Alarms!AlarmsAssumption, Alarms!IsFiniteSet, IsFiniteSet
<1>5. Cardinality(m) \in Totals
  <2>1. Cardinality(m) \in Nat /\ Cardinality(Alerts) \in Nat
    BY <1>3, <1>4, FS_Subset, FS_CardinalityType
  <2>2. Cardinality(m) <= Cardinality(Alerts)
    BY <1>3, <1>4, FS_Subset
  <2> QED
    BY <2>1, <2>2 DEF Totals
<1> QED
  BY <1>1, <1>3, <1>5

\* The timer may start.
LEMMA OfAskTyped == ASSUME NEW u, OfTyped(u) PROVE OfTyped(OfCustomer!Ask(u))
<1>1. PICK d, v : /\ d = (u.due \/ <<u.q, u.p, u.of>> # <<ui.q, ui.p, ui.of>>)
                  /\ v = OfCustomer!Ask(u)
  OBVIOUS
<1>2. v = [u EXCEPT !.due = d] /\ d \in BOOLEAN
  BY <1>1 DEF OfCustomer!Ask, OfTyped, OfFields
<1>3. OfTyped(v)
  BY <1>2 DEF OfTyped, OfFields
<1> QED
  BY <1>1, <1>3

LEMMA OfAsksTyped ==
  ASSUME OfTyped(ui),
         \/ OfCustomer!ToggleSort \/ OfCustomer!SetFilter \/ OfCustomer!ClearFilters
         \/ OfCustomer!ChangePage \/ OfCustomer!OpenCustomer
  PROVE  OfTyped(ui')
<1>1. ASSUME NEW q \in Questions, NEW x, x = [ui EXCEPT !.q = q, !.p = 0]
      PROVE  OfTyped(x)
  BY <1>1 DEF OfTyped, OfFields, OfCustomer!Pages
<1>2. CASE OfCustomer!ToggleSort \/ OfCustomer!SetFilter \/ OfCustomer!ClearFilters
  <2>1. Plain \in Questions
    BY FrontendAssumption DEF FrontendAssumption, OfCustomer!CustomerAlarmsAssumption
  <2>2. PICK q \in Questions : ui' = OfCustomer!Ask([ui EXCEPT !.q = q, !.p = 0])
    BY <1>2, <2>1, Zenon
       DEF OfCustomer!ToggleSort, OfCustomer!SetFilter, OfCustomer!ClearFilters
  <2>3. PICK x : x = [ui EXCEPT !.q = q, !.p = 0]
    OBVIOUS
  <2> QED
    BY <1>1, <2>2, <2>3, OfAskTyped, Zenon
<1>3. CASE OfCustomer!ChangePage
  <2>1. PICK p \in OfCustomer!Pages : ui' = OfCustomer!Ask([ui EXCEPT !.p = p])
    BY <1>3 DEF OfCustomer!ChangePage
  <2>2. PICK x : x = [ui EXCEPT !.p = p]
    OBVIOUS
  <2>3. OfTyped(x)
    BY <2>1, <2>2 DEF OfTyped, OfFields
  <2> QED
    BY <2>1, <2>2, <2>3, OfAskTyped
<1>4. CASE OfCustomer!OpenCustomer
  <2>1. PICK c \in Customers : ui' = OfCustomer!Ask([ui EXCEPT !.of = c, !.header = c, !.p = 0])
    BY <1>4, Zenon DEF OfCustomer!OpenCustomer
  <2>2. PICK x : x = [ui EXCEPT !.of = c, !.header = c, !.p = 0]
    OBVIOUS
  <2>3. OfTyped(x)
    BY <2>1, <2>2 DEF OfTyped, OfFields, OfCustomer!Pages
  <2> QED
    BY <2>1, <2>2, <2>3, OfAskTyped
<1> QED
  BY <1>2, <1>3, <1>4

LEMMA OfCustomerTypesStep == ASSUME OfCustomerTypes, OfCustomer!Next PROVE OfCustomerTypes'
<1>1. PICK v, u : v = ui' /\ u = ui
  OBVIOUS
<1>2. OfTyped(u) /\ \A r \in net : OfCall(r)
  BY <1>1 DEF OfCustomerTypes
<1>3. srv' = srv /\ srv.alerts = Alerts
  BY Zenon
     DEF OfCustomer!Next, OfCustomer!LoadAlarms, OfCustomer!AnswerLoad, OfCustomer!ToggleSort,
         OfCustomer!SetFilter, OfCustomer!ClearFilters, OfCustomer!ChangePage,
         OfCustomer!OpenCustomer, OfCustomer!ChooseInHeader, OfCustomer!Export,
         OfCustomer!AnswerExport, OfCustomerTypes
<1> SUFFICES OfTyped(v) /\ \A r \in net' : OfCall(r)
  BY <1>1, <1>3 DEF OfCustomerTypes, OfCall
<1>4. CASE \/ OfCustomer!ToggleSort \/ OfCustomer!SetFilter \/ OfCustomer!ClearFilters
           \/ OfCustomer!ChangePage \/ OfCustomer!OpenCustomer
  <2>1. net' = net
    BY <1>4, Zenon DEF OfCustomer!ToggleSort, OfCustomer!SetFilter, OfCustomer!ClearFilters,
                OfCustomer!ChangePage, OfCustomer!OpenCustomer
  <2>2. OfTyped(ui)
    BY <1>1, <1>2
  <2>3. OfTyped(ui')
    BY <1>4, <2>2, OfAsksTyped
  <2> QED
    BY <1>1, <1>2, <2>1, <2>3
<1>5. CASE OfCustomer!LoadAlarms \/ OfCustomer!Export
  <2>1. PICK op : net' = OfCustomer!Sent(op, OfCustomer!Payload(u))
    BY <1>1, <1>5 DEF OfCustomer!LoadAlarms, OfCustomer!Export
  <2>2. PICK n : n = [id |-> OfCustomer!Fresh, op |-> op, key |-> OfCustomer!Payload(u)]
    OBVIOUS
  <2>3. net' = net \cup {n} /\ OfCall(n)
    BY <1>2, <2>1, <2>2 DEF OfCustomer!Sent, OfCustomer!Payload, OfCall, OfTyped
  <2>4. OfTyped(v)
    <3>1. CASE OfCustomer!LoadAlarms
      <4>1. v = [u EXCEPT !.due = FALSE, !.loading = TRUE]
        BY <1>1, <3>1 DEF OfCustomer!LoadAlarms
      <4> QED
        BY <1>2, <4>1 DEF OfTyped, OfFields
    <3>2. CASE OfCustomer!Export
      <4>1. v = [u EXCEPT !.exporting = TRUE]
        BY <1>1, <3>2 DEF OfCustomer!Export
      <4> QED
        BY <1>2, <4>1 DEF OfTyped, OfFields
    <3> QED
      BY <1>5, <3>1, <3>2
  <2> QED
    BY <1>2, <2>3, <2>4
<1>6. CASE OfCustomer!AnswerLoad
  <2>1. PICK r \in net, ok \in BOOLEAN :
          /\ net' = net \ {r}
          /\ ui' = [ui EXCEPT !.rows = IF ok THEN OfCustomer!SearchAnswer(r.key) ELSE {},
                       !.total = IF ok THEN Cardinality(OfCustomer!SearchAnswer(r.key)) ELSE 0,
                       !.loading = FALSE]
    BY <1>6, Zenon DEF OfCustomer!AnswerLoad, OfCustomer!Pending, OfCustomer!Without,
                OfCustomer!Cardinality, Cardinality
  <2>2. PICK rows, t : /\ rows = (IF ok THEN OfCustomer!SearchAnswer(r.key) ELSE {})
                       /\ t = (IF ok THEN Cardinality(OfCustomer!SearchAnswer(r.key)) ELSE 0)
    OBVIOUS
  <2>3. v = [u EXCEPT !.rows = rows, !.total = t, !.loading = FALSE]
    BY <1>1, <2>1, <2>2
  <2>4. rows \subseteq Alerts /\ t \in Totals
    <3>1. r.key.q \in Questions
      BY <1>2, <2>1 DEF OfCall
    <3> QED
      BY <2>2, <3>1, OfFinds, NoneIsTotal
  <2>5. OfTyped(v)
    BY <1>2, <2>3, <2>4 DEF OfTyped, OfFields
  <2> QED
    BY <1>2, <2>1, <2>5
<1>7. CASE OfCustomer!ChooseInHeader
  <2>1. PICK c \in Customers : v = [u EXCEPT !.header = c] /\ net' = net
    BY <1>1, <1>7 DEF OfCustomer!ChooseInHeader
  <2>2. OfTyped(v)
    BY <1>2, <2>1 DEF OfTyped, OfFields
  <2> QED
    BY <1>2, <2>1, <2>2
<1>8. CASE OfCustomer!AnswerExport
  <2>1. PICK r \in net, ok \in BOOLEAN :
          /\ net' = net \ {r}
          /\ ui' = [ui EXCEPT !.exporting = FALSE,
                      !.file = IF ok THEN {[of |-> r.key.of, alerts |-> OfCustomer!ExportAnswer(r.key)]}
                               ELSE @]
    BY <1>8, Zenon DEF OfCustomer!AnswerExport, OfCustomer!Pending, OfCustomer!Without
  <2>2. PICK p : p = [of |-> r.key.of, alerts |-> OfCustomer!ExportAnswer(r.key)]
    OBVIOUS
  <2>3. PICK f : f = (IF ok THEN {p} ELSE u.file)
    OBVIOUS
  <2>4. v = [u EXCEPT !.exporting = FALSE, !.file = f]
    BY <1>1, <1>2, <2>1, <2>2, <2>3 DEF OfTyped, OfFields
  <2>5. p.of \in Customers /\ p.alerts \subseteq Alerts
    BY <1>2, <2>1, <2>2, OfFinds DEF OfCall
  <2>6. OfTyped(v)
    BY <1>2, <2>3, <2>4, <2>5 DEF OfTyped, OfFields
  <2> QED
    BY <1>2, <2>1, <2>6
<1> QED
  BY <1>4, <1>5, <1>6, <1>7, <1>8 DEF OfCustomer!Next

LEMMA OfCustomerTypesStay == ASSUME OfCustomerTypes, UNCHANGED vars PROVE OfCustomerTypes'
BY DEF vars, OfCustomerTypes, OfTyped

LEMMA OfCustomerIsTyped == ASSUME OfCustomerTypes PROVE OfCustomer!TypeOK
<1>1. ui.total \in 0..OfCustomer!Cardinality(Alerts)
  BY DEF OfCustomerTypes, OfTyped, Totals, OfCustomer!Cardinality, Cardinality
<1> QED
  BY <1>1 DEF OfCustomerTypes, OfTyped, OfCustomer!TypeOK, OfFields

-----------------------------------------------------------------------------
(* CustomerFields: the fields offered are those of the pair shown.             *)

\* A schema that is not cancelled is asked for the key and the customer shown.
CustFieldsInv ==
  /\ DOMAIN ui = {"key", "of", "configured", "offered", "draft", "loading", "saving",
                  "expanded", "marked"}
  /\ srv.choices = Keys \X Customers
  /\ \A r \in net : DOMAIN r = {"id", "op", "key"} /\ r.key \in Keys \X Customers
  /\ \A r \in net : r.op = "schema" => r.key = <<ui.key, ui.of>>
  /\ CustFields!TypeOK
  /\ (\A r \in net : r.op # "schema") => ui.offered \in {<<ui.key, ui.of>>, CustFields!Nothing}
  /\ ui.loading => \E r \in net : r.op = "configs"
  /\ ui.saving <=> \E r \in net : r.op = "save"
  /\ \A r, x \in net : r.op = "save" /\ x.op = "save" => r = x

\* Both effects of the mount ask for the pair shown.
LEMMA CustFieldsInit == CustFields!Init => CustFieldsInv
<1> SUFFICES ASSUME CustFields!Init PROVE CustFieldsInv
  OBVIOUS
<1>1. ui \in CustFields!Mounted /\ srv \in CustFields!Stored
  BY DEF CustFields!Init
<1>2. PICK k \in Keys, c \in Customers :
        ui = [key |-> k, of |-> c, configured |-> {}, offered |-> CustFields!Nothing,
              draft |-> "none", loading |-> TRUE, saving |-> FALSE, expanded |-> {},
              marked |-> {}]
  BY <1>1 DEF CustFields!Mounted
<1>3. net = {[id |-> 1, op |-> "configs", key |-> <<ui.key, ui.of>>],
             [id |-> 2, op |-> "schema", key |-> <<ui.key, ui.of>>]}
  BY DEF CustFields!Init
<1>4. srv.choices = Keys \X Customers
  BY <1>1 DEF CustFields!Stored
<1>5. CustFields!TypeOK
  BY <1>2 DEF CustFields!TypeOK
<1> QED
  BY <1>2, <1>3, <1>4, <1>5 DEF CustFieldsInv

\* The draft is rewritten, nothing else.
LEMMA CustRedrafted ==
  ASSUME NEW u, "draft" \in DOMAIN u
  PROVE  LET v == CustFields!Redraft(u)
         IN  /\ DOMAIN v = DOMAIN u
             /\ \A f \in DOMAIN u : f # "draft" => v[f] = u[f]
             /\ v.draft \in {"none", "schema", "stored"}
BY DEF CustFields!Redraft

\* Of the requests, the schema's are cancelled and one is asked for the pair of u.
LEMMA CustSchemaAsked ==
  ASSUME NEW u, NEW S, u.key \in Keys, u.of \in Customers,
         \A r \in S : DOMAIN r = {"id", "op", "key"} /\ r.key \in Keys \X Customers
  PROVE  /\ \A r \in CustFields!SchemaAsked(u, S) :
              DOMAIN r = {"id", "op", "key"} /\ r.key \in Keys \X Customers
         /\ \A r \in CustFields!SchemaAsked(u, S) :
              r.op = "schema" => r.key = <<u.key, u.of>>
         /\ \E r \in CustFields!SchemaAsked(u, S) : r.op = "schema"
         /\ \A r \in S : r.op # "schema" => r \in CustFields!SchemaAsked(u, S)
         /\ \A r \in CustFields!SchemaAsked(u, S) : r.op \in {"schema", "cancelled"} \/ r \in S
<1> PICK A : A = CustFields!SchemaAsked(u, S)
  OBVIOUS
<1>0. PICK i : A = CustFields!Cancel(S) \cup {[id |-> i, op |-> "schema", key |-> <<u.key, u.of>>]}
  BY Zenon DEF CustFields!SchemaAsked
<1>1. \A r \in A : \/ r = [id |-> i, op |-> "schema", key |-> <<u.key, u.of>>]
                   \/ r \in S /\ r.op # "schema"
                   \/ \E x \in S : r = [x EXCEPT !.op = "cancelled"]
  BY <1>0 DEF CustFields!Cancel
<1>2. [id |-> i, op |-> "schema", key |-> <<u.key, u.of>>] \in A
  BY <1>0
<1>3. \A r \in S : r.op # "schema" => r \in A
  BY <1>0 DEF CustFields!Cancel
<1> QED
  BY <1>1, <1>2, <1>3

\* Another key or customer asks for its schema, and what was out is cancelled.
LEMMA CustFieldsStep == ASSUME CustFieldsInv, CustFields!Next PROVE CustFieldsInv'
<1>0. ui.key \in Keys /\ ui.of \in Customers
  BY DEF CustFieldsInv, CustFields!TypeOK
<1>00. srv' = srv
  BY Zenon DEF CustFields!Next, CustFields!ChooseKey, CustFields!OpenCustomer,
         CustFields!AnswerConfigs, CustFields!AnswerSchema, CustFields!DropSchema,
         CustFields!SchemaFails, CustFields!Tick, CustFields!SaveDetailConfig,
         CustFields!AnswerSave, CustFields!ToggleRow
<1>1. CASE CustFields!ChooseKey
  <2>1. PICK k \in Keys : /\ ui' = CustFields!Redraft([ui EXCEPT !.key = k])
                          /\ net' = CustFields!SchemaAsked(ui', net)
    BY <1>1 DEF CustFields!ChooseKey
  <2>2. /\ DOMAIN ui' = DOMAIN ui /\ ui'.key = k /\ ui'.draft \in {"none", "schema", "stored"}
        /\ \A f \in DOMAIN ui \ {"key", "draft"} : ui'[f] = ui[f]
    BY <2>1, CustRedrafted DEF CustFieldsInv
  <2>3. CustFields!TypeOK'
    BY <1>00, <2>2 DEF CustFieldsInv, CustFields!TypeOK, CustFields!Nothing
  <2>4. /\ ui'.key \in Keys /\ ui'.of \in Customers
        /\ \A r \in net : DOMAIN r = {"id", "op", "key"} /\ r.key \in Keys \X Customers
    BY <1>0, <2>2 DEF CustFieldsInv
  <2> QED
    BY <1>00, <2>1, <2>2, <2>3, <2>4, CustSchemaAsked DEF CustFieldsInv
<1>2. CASE CustFields!OpenCustomer
  <2>1. PICK c, i, S :
          /\ c \in Customers
          /\ ui' = [ui EXCEPT !.of = c, !.loading = TRUE, !.expanded = {}, !.marked = {}]
          /\ S = net \cup {[id |-> i, op |-> "configs", key |-> <<ui.key, c>>]}
          /\ net' = CustFields!SchemaAsked(ui', S)
    BY <1>2, Zenon DEF CustFields!OpenCustomer, CustFields!Sent
  <2>2. /\ DOMAIN ui' = DOMAIN ui /\ ui'.of = c /\ ui'.loading = TRUE
        /\ ui'.expanded = {} /\ ui'.marked = {}
        /\ \A f \in DOMAIN ui \ {"of", "loading", "expanded", "marked"} : ui'[f] = ui[f]
        /\ c \in Customers
    BY <2>1, Zenon DEF CustFieldsInv
  <2>3. CustFields!TypeOK'
    BY <1>00, <2>2, Zenon DEF CustFieldsInv, CustFields!TypeOK, CustFields!Nothing
  <2>4. PICK n : n = [id |-> i, op |-> "configs", key |-> <<ui.key, c>>]
    OBVIOUS
  <2>5. S = net \cup {n} /\ DOMAIN n = {"id", "op", "key"} /\ n.op = "configs"
    BY <2>1, <2>4
  <2>6. n.key \in Keys \X Customers
    BY <1>0, <2>2, <2>4
  <2>7. /\ ui'.key \in Keys /\ ui'.of \in Customers
        /\ \A r \in S : DOMAIN r = {"id", "op", "key"} /\ r.key \in Keys \X Customers
    BY <1>0, <2>2, <2>5, <2>6 DEF CustFieldsInv
  <2>8. /\ \A r \in net' : DOMAIN r = {"id", "op", "key"} /\ r.key \in Keys \X Customers
        /\ \A r \in net' : r.op = "schema" => r.key = <<ui'.key, ui'.of>>
        /\ \E r \in net' : r.op = "schema"
        /\ \A r \in S : r.op # "schema" => r \in net'
        /\ \A r \in net' : r.op \in {"schema", "cancelled"} \/ r \in S
    <3>1. PICK u : u = ui'
      OBVIOUS
    <3>2. /\ u.key \in Keys /\ u.of \in Customers
          /\ \A r \in S : DOMAIN r = {"id", "op", "key"} /\ r.key \in Keys \X Customers
      BY <2>7, <3>1
    <3>3. net' = CustFields!SchemaAsked(u, S)
      BY <2>1, <3>1
    <3>4. /\ \A r \in net' : DOMAIN r = {"id", "op", "key"} /\ r.key \in Keys \X Customers
          /\ \A r \in net' : r.op = "schema" => r.key = <<u.key, u.of>>
          /\ \E r \in net' : r.op = "schema"
          /\ \A r \in S : r.op # "schema" => r \in net'
          /\ \A r \in net' : r.op \in {"schema", "cancelled"} \/ r \in S
      BY <3>2, <3>3, CustSchemaAsked
    <3> QED
      BY <3>1, <3>4
  <2>9. /\ \E r \in net' : r.op = "configs"
        /\ \A r \in net' : r.op = "save" => r \in net
        /\ \A r \in net : r.op = "save" => r \in net'
    BY <2>5, <2>8
  <2> QED
    BY <1>00, <2>2, <2>3, <2>8, <2>9 DEF CustFieldsInv
<1>3. CASE CustFields!ToggleRow
  <2>1. PICK a \in Rows :
          /\ ui' = [ui EXCEPT !.expanded = IF a \in @ THEN @ \ {a} ELSE @ \cup {a},
                              !.marked = @ \cup {a}]
          /\ net' = net \/ net' = CustFields!SchemaAsked(ui, net)
    BY <1>3, Zenon DEF CustFields!ToggleRow
  <2>2. /\ DOMAIN ui' = DOMAIN ui
        /\ ui'.expanded \subseteq ui.expanded \cup {a} /\ ui'.marked = ui.marked \cup {a}
        /\ \A f \in DOMAIN ui \ {"expanded", "marked"} : ui'[f] = ui[f]
    BY <2>1, Zenon DEF CustFieldsInv
  <2>3. CustFields!TypeOK'
    BY <1>00, <2>2 DEF CustFieldsInv, CustFields!TypeOK, CustFields!Nothing
  <2>4. CASE net' = net
    BY <1>00, <2>2, <2>3, <2>4 DEF CustFieldsInv, CustFields!Nothing
  <2>5. CASE net' = CustFields!SchemaAsked(ui, net)
    <3>1. \A r \in net : DOMAIN r = {"id", "op", "key"} /\ r.key \in Keys \X Customers
      BY DEF CustFieldsInv
    <3> QED
      BY <1>0, <1>00, <2>2, <2>3, <2>5, <3>1, CustSchemaAsked DEF CustFieldsInv
  <2> QED
    BY <2>1, <2>4, <2>5
<1>4. CASE CustFields!Tick
  <2>1. /\ DOMAIN ui' = DOMAIN ui /\ ui'.draft = "edited" /\ net' = net
        /\ \A f \in DOMAIN ui \ {"draft"} : ui'[f] = ui[f]
    BY <1>4 DEF CustFields!Tick, CustFieldsInv
  <2>2. CustFields!TypeOK'
    BY <1>00, <2>1 DEF CustFieldsInv, CustFields!TypeOK, CustFields!Nothing
  <2> QED
    BY <1>00, <2>1, <2>2 DEF CustFieldsInv, CustFields!Nothing
<1>5. CASE CustFields!SaveDetailConfig
  <2>1. /\ ~ui.saving /\ DOMAIN ui' = DOMAIN ui /\ ui'.saving = TRUE
        /\ net' = net \cup {[id |-> CustFields!Fresh, op |-> "save", key |-> <<ui.key, ui.of>>]}
        /\ \A f \in DOMAIN ui \ {"saving"} : ui'[f] = ui[f]
    BY <1>5 DEF CustFields!SaveDetailConfig, CustFields!Sent, CustFieldsInv
  <2>2. CustFields!TypeOK'
    BY <1>00, <2>1, Zenon DEF CustFieldsInv, CustFields!TypeOK, CustFields!Nothing
  <2>3. \A r \in net : r.op # "save"
    BY <2>1 DEF CustFieldsInv
  <2>4. PICK n : n = [id |-> CustFields!Fresh, op |-> "save", key |-> <<ui.key, ui.of>>]
    OBVIOUS
  <2>5. /\ DOMAIN n = {"id", "op", "key"} /\ n.op = "save"
        /\ n.key \in Keys \X Customers
    BY <1>0, <2>4
  <2>6. net' = net \cup {n}
    BY <2>1, <2>4
  <2> QED
    BY <1>00, <2>1, <2>2, <2>3, <2>5, <2>6 DEF CustFieldsInv, CustFields!Nothing
<1>6. CASE CustFields!AnswerConfigs
  <2>1. PICK r, T, S :
          /\ r \in net /\ T \in SUBSET Keys
          /\ r.op = "configs" /\ net' = net \ {r} /\ S = T \X {r.key[2]}
          /\ ui' = CustFields!Redraft([ui EXCEPT !.configured = S, !.loading = FALSE])
    BY <1>6, Zenon DEF CustFields!AnswerConfigs, CustFields!Pending, CustFields!Without
  <2>2. PICK u : u = [ui EXCEPT !.configured = S, !.loading = FALSE]
    OBVIOUS
  <2>3. /\ DOMAIN u = DOMAIN ui /\ u.configured = S /\ u.loading = FALSE
        /\ \A f \in DOMAIN ui \ {"configured", "loading"} : u[f] = ui[f]
    BY <2>2, Zenon DEF CustFieldsInv
  <2>4. /\ DOMAIN ui' = DOMAIN ui /\ ui'.configured = S /\ ui'.loading = FALSE
        /\ ui'.draft \in {"none", "schema", "stored"}
        /\ \A f \in DOMAIN ui \ {"configured", "loading", "draft"} : ui'[f] = ui[f]
    <3>1. ui' = CustFields!Redraft(u) /\ "draft" \in DOMAIN u
      BY <2>1, <2>2, <2>3 DEF CustFieldsInv
    <3> QED
      BY <2>3, <3>1, CustRedrafted DEF CustFieldsInv
  <2>5. S \subseteq Keys \X Customers
    BY <2>1 DEF CustFieldsInv
  <2>6. CustFields!TypeOK'
    BY <1>00, <2>4, <2>5, Zenon DEF CustFieldsInv, CustFields!TypeOK, CustFields!Nothing
  <2> QED
    BY <1>00, <2>1, <2>4, <2>6 DEF CustFieldsInv, CustFields!Nothing
<1>7. ASSUME NEW r \in net, NEW x, r.op \in {"schema", "cancelled"}, net' = net \ {r},
             ui' = CustFields!Redraft([ui EXCEPT !.offered = x]),
             x = CustFields!Nothing \/ (r.op = "schema" /\ x = r.key)
      PROVE  CustFieldsInv'
  <2>1. /\ DOMAIN ui' = DOMAIN ui /\ ui'.offered = x /\ ui'.draft \in {"none", "schema", "stored"}
        /\ \A f \in DOMAIN ui \ {"offered", "draft"} : ui'[f] = ui[f]
    BY <1>7, CustRedrafted DEF CustFieldsInv
  <2>2. x = CustFields!Nothing \/ (x = <<ui.key, ui.of>> /\ x \in Keys \X Customers)
    BY <1>0, <1>7 DEF CustFieldsInv
  <2>3. CustFields!TypeOK'
    BY <1>00, <2>1, <2>2 DEF CustFieldsInv, CustFields!TypeOK, CustFields!Nothing
  <2> QED
    BY <1>00, <1>7, <2>1, <2>2, <2>3 DEF CustFieldsInv, CustFields!Nothing
<1>8. CASE CustFields!AnswerSchema
  BY <1>7, <1>8 DEF CustFields!AnswerSchema, CustFields!Pending, CustFields!Without
<1>9. CASE CustFields!SchemaFails
  BY <1>7, <1>9 DEF CustFields!SchemaFails, CustFields!Pending, CustFields!Without
<1>10. CASE CustFields!DropSchema
  <2>1. PICK r \in net : r.op = "cancelled" /\ net' = net \ {r} /\ ui' = ui
    BY <1>10 DEF CustFields!DropSchema, CustFields!Pending, CustFields!Without
  <2>2. CustFields!TypeOK'
    BY <1>00, <2>1 DEF CustFieldsInv, CustFields!TypeOK, CustFields!Nothing
  <2> QED
    BY <1>00, <2>1, <2>2 DEF CustFieldsInv, CustFields!Nothing
<1>11. CASE CustFields!AnswerSave
  <2>1. PICK r, S :
          /\ r \in net
          /\ r.op = "save" /\ net' = net \ {r} /\ S = ui.configured \cup {r.key}
          /\ \/ ui' = CustFields!Redraft([ui EXCEPT !.saving = FALSE, !.configured = S])
             \/ ui' = [ui EXCEPT !.saving = FALSE]
    BY <1>11, Zenon DEF CustFields!AnswerSave, CustFields!Pending, CustFields!Without
  <2>2. /\ DOMAIN ui' = DOMAIN ui /\ ui'.saving = FALSE
        /\ ui'.configured \in {ui.configured, S}
        /\ ui'.draft \in {"none", "schema", "stored", ui.draft}
        /\ \A f \in DOMAIN ui \ {"saving", "configured", "draft"} : ui'[f] = ui[f]
    <3>1. CASE ui' = CustFields!Redraft([ui EXCEPT !.saving = FALSE, !.configured = S])
      <4>1. PICK u : u = [ui EXCEPT !.saving = FALSE, !.configured = S]
        OBVIOUS
      <4>2. /\ DOMAIN u = DOMAIN ui /\ u.saving = FALSE /\ u.configured = S
            /\ \A f \in DOMAIN ui \ {"saving", "configured"} : u[f] = ui[f]
        BY <4>1, Zenon DEF CustFieldsInv
      <4> QED
        BY <3>1, <4>1, <4>2, CustRedrafted, Zenon DEF CustFieldsInv
    <3>2. CASE ui' = [ui EXCEPT !.saving = FALSE]
      BY <3>2 DEF CustFieldsInv
    <3> QED
      BY <2>1, <3>1, <3>2, Zenon
  <2>3. r.key \in Keys \X Customers
    BY <2>1 DEF CustFieldsInv
  <2>4. CustFields!TypeOK'
    BY <1>00, <2>1, <2>2, <2>3, Zenon
       DEF CustFieldsInv, CustFields!TypeOK, CustFields!Nothing
  <2>5. \A x \in net' : x \in net /\ x.op # "save"
    BY <2>1 DEF CustFieldsInv
  <2> QED
    BY <1>00, <2>1, <2>2, <2>4, <2>5 DEF CustFieldsInv, CustFields!Nothing
<1> QED
  BY <1>1, <1>2, <1>3, <1>4, <1>5, <1>6, <1>8, <1>9, <1>10, <1>11 DEF CustFields!Next

\* Nothing changes while the page is left alone.
LEMMA CustFieldsStays == ASSUME CustFieldsInv, UNCHANGED vars PROVE CustFieldsInv'
BY DEF vars, CustFieldsInv, CustFields!TypeOK, CustFields!Nothing

\* What the invariant says of the page.
LEMMA CustFieldsHolds ==
  ASSUME CustFieldsInv
  PROVE  /\ CustFields!TypeOK /\ CustFields!BusyIsAwaited /\ CustFields!SchemaOfKey
         /\ CustFields!OneWrite
<1>1. CustFields!BusyIsAwaited
  BY DEF CustFieldsInv, CustFields!BusyIsAwaited, CustFields!Pending
<1>2. CustFields!SchemaOfKey
  BY DEF CustFieldsInv, CustFields!SchemaOfKey, CustFields!Pending
<1>3. CustFields!OneWrite
  <2>1. \A r, x \in CustFields!Pending("save") : r = x
    BY DEF CustFieldsInv, CustFields!Pending
  <2> QED
    BY <2>1, LoneCardinality, Zenon
       DEF CustFields!OneWrite, CustFields!Cardinality, Cardinality
<1> QED
  BY <1>1, <1>2, <1>3 DEF CustFieldsInv

-----------------------------------------------------------------------------
(* AlertSearch: the page waits for its data once, the table for a search, and  *)
(* one file is asked for.                                                      *)

SearchFields ==
  {"text", "source", "dyn", "schemas", "loading", "searching", "rows", "columns", "exporting"}

\* What the flags of a state u of the page wait for in the calls N.
SearchWaits(u, N) ==
  /\ DOMAIN u = SearchFields
  /\ u.loading <=> \E r \in N : r.op = "static"
  /\ u.searching => \E r \in N : r.op = "search"
  /\ u.exporting <=> \E r \in N : r.op = "export"
  /\ \A op \in {"static", "export"} : \A r, x \in N : r.op = op /\ x.op = op => r = x

SearchInv == SearchWaits(ui, net)

\* The page is mounted with the call for its data.
LEMMA SearchInit == Search!Init => SearchInv
<1> SUFFICES ASSUME Search!Init PROVE SearchInv
  OBVIOUS
<1>1. /\ DOMAIN ui = SearchFields /\ ui.loading = TRUE /\ ui.searching = FALSE
      /\ ui.exporting = FALSE
  <2>1. PICK t, a : ui = [text |-> t, source |-> a, dyn |-> a, schemas |-> {}, loading |-> TRUE,
                         searching |-> FALSE, rows |-> {}, columns |-> TRUE, exporting |-> FALSE]
    BY Zenon, Zenon DEF Search!Init, Search!Mounted
  <2> QED
    BY <2>1 DEF SearchFields
<1>2. PICK n : n = [id |-> 1, op |-> "static", key |-> Search!NoQuestion]
  OBVIOUS
<1>3. net = {n} /\ n.op = "static"
  BY <1>2 DEF Search!Init
<1> QED
  BY <1>1, <1>3 DEF SearchInv, SearchWaits

\* A set of calls M that adds to N calls of kind op alone.
Adds(op, N, M) == N \subseteq M /\ \A r \in M : r \in N \/ r.op = op

\* The effect on the filters asks for one search, if the page is drawn.
LEMMA SearchRuns ==
  ASSUME NEW u, NEW N
  PROVE  /\ Adds("search", N, Search!RunSearch(u, N))
         /\ ~u.loading => \E r \in Search!RunSearch(u, N) : r.op = "search"
<1>1. PICK n : n = [id |-> CHOOSE i \in 1..MaxPending : \A r \in N : r.id # i,
                    op |-> "search", key |-> Search!Payload(u)]
  OBVIOUS
<1>2. n.op = "search" /\ Search!RunSearch(u, N) = IF u.loading THEN N ELSE N \cup {n}
  BY <1>1 DEF Search!RunSearch
<1> QED
  BY <1>2 DEF Adds

\* The effect on the schemas asks for one, if it is not known.
LEMMA SchemaRuns == ASSUME NEW u, NEW N PROVE Adds("schema", N, Search!AskSchema(u, N))
<1>1. PICK n : n = [id |-> CHOOSE i \in 1..MaxPending : \A r \in N : r.id # i,
                    op |-> "schema", key |-> [Search!NoQuestion EXCEPT !.source = u.source]]
  OBVIOUS
<1>2. /\ n.op = "schema"
      /\ Search!AskSchema(u, N) = IF u.source \in u.schemas \cup {""} THEN N ELSE N \cup {n}
  BY <1>1 DEF Search!AskSchema
<1> QED
  BY <1>2, Zenon DEF Adds

\* A filter changes in a page that is drawn: a search is asked for.
LEMMA SearchFilters ==
  ASSUME SearchInv, NEW u, DOMAIN u = SearchFields, u.loading = ui.loading,
         u.exporting = ui.exporting, ~u.loading, Search!Filter(u)
  PROVE  SearchInv'
<1>1. PICK v : v = ui'
  OBVIOUS
<1>2. v = [u EXCEPT !.searching = @ \/ ~u.loading]
  BY <1>1, Zenon DEF Search!Filter
<1>3. DOMAIN v = SearchFields /\ v.loading = ui.loading /\ v.exporting = ui.exporting
  BY <1>2 DEF SearchFields
<1>4. PICK M : M = Search!RunSearch(u, net)
  OBVIOUS
<1>5. Adds("search", net, M) /\ \E r \in M : r.op = "search"
  BY <1>4, SearchRuns
<1>6. net' = M \/ net' = Search!AskSchema(u, M)
  BY <1>4, Zenon DEF Search!Filter
<1>7. Adds("schema", M, net')
  BY <1>6, SchemaRuns DEF Adds
<1>8. /\ net \subseteq net' /\ \A r \in net' : r \in net \/ r.op \in {"search", "schema"}
      /\ \E r \in net' : r.op = "search"
  BY <1>5, <1>7 DEF Adds
<1> QED
  BY <1>1, <1>3, <1>8 DEF SearchInv, SearchWaits

\* Every way to change a filter.
LEMMA SearchAsks ==
  ASSUME SearchInv,
         Search!ChangeText \/ Search!ChooseSource \/ Search!TypeValue \/ Search!ApplySaved
  PROVE  SearchInv'
<1>0. DOMAIN ui = SearchFields
  BY DEF SearchInv, SearchWaits
<1>1. CASE Search!ChangeText
  <2>1. PICK t \in Texts : ~ui.loading /\ Search!Filter([ui EXCEPT !.text = t])
    BY <1>1 DEF Search!ChangeText
  <2>2. PICK u : u = [ui EXCEPT !.text = t]
    OBVIOUS
  <2>3. DOMAIN u = SearchFields /\ u.loading = ui.loading /\ u.exporting = ui.exporting
    BY <1>0, <2>2 DEF SearchFields
  <2> QED
    BY <2>1, <2>2, <2>3, SearchFilters, Zenon
<1>2. CASE Search!ChooseSource
  <2>1. PICK s : ~ui.loading /\ Search!Filter([ui EXCEPT !.source = s])
    BY <1>2, Zenon DEF Search!ChooseSource
  <2>2. PICK u : u = [ui EXCEPT !.source = s]
    OBVIOUS
  <2>3. DOMAIN u = SearchFields /\ u.loading = ui.loading /\ u.exporting = ui.exporting
    BY <1>0, <2>2 DEF SearchFields
  <2> QED
    BY <2>1, <2>2, <2>3, SearchFilters, Zenon
<1>3. CASE Search!TypeValue
  <2>1. PICK d \in Values : ~ui.loading /\ Search!Filter([ui EXCEPT !.dyn = d])
    BY <1>3 DEF Search!TypeValue
  <2>2. PICK u : u = [ui EXCEPT !.dyn = d]
    OBVIOUS
  <2>3. DOMAIN u = SearchFields /\ u.loading = ui.loading /\ u.exporting = ui.exporting
    BY <1>0, <2>2 DEF SearchFields
  <2> QED
    BY <2>1, <2>2, <2>3, SearchFilters, Zenon
<1>4. CASE Search!ApplySaved
  <2>1. PICK t \in Texts, s \in Search!Sources, d \in Values :
          /\ ~ui.loading
          /\ Search!Filter([ui EXCEPT !.text = t, !.source = s, !.dyn = d, !.columns = TRUE])
    BY <1>4, Zenon DEF Search!ApplySaved
  <2>2. PICK u : u = [ui EXCEPT !.text = t, !.source = s, !.dyn = d, !.columns = TRUE]
    OBVIOUS
  <2>3. DOMAIN u = SearchFields /\ u.loading = ui.loading /\ u.exporting = ui.exporting
    BY <1>0, <2>2 DEF SearchFields
  <2> QED
    BY <2>1, <2>2, <2>3, SearchFilters, Zenon
<1> QED
  BY <1>1, <1>2, <1>3, <1>4

\* Every step of the page.
LEMMA SearchStep == ASSUME SearchInv, Search!Next PROVE SearchInv'
<1>1. PICK v, u : v = ui' /\ u = ui
  OBVIOUS
<1>2. SearchWaits(u, net) /\ DOMAIN u = SearchFields
  BY <1>1 DEF SearchInv, SearchWaits
<1>3. CASE Search!StaticLoaded
  <2>1. PICK r \in Search!Pending("static"), known \in SUBSET srv.schemas :
          /\ ui' = [ui EXCEPT !.schemas = known, !.loading = FALSE, !.searching = TRUE]
          /\ net' = Search!RunSearch(ui', Search!Without(r))
    BY <1>3, Zenon DEF Search!StaticLoaded
  <2>2. DOMAIN v = SearchFields /\ v.loading = FALSE /\ v.exporting = u.exporting
    BY <1>1, <1>2, <2>1 DEF SearchFields
  <2>3. r \in net /\ r.op = "static" /\ net' = Search!RunSearch(v, net \ {r})
    BY <1>1, <2>1 DEF Search!Pending, Search!Without
  <2>4. /\ Adds("search", net \ {r}, net') /\ \E x \in net' : x.op = "search"
    BY <2>2, <2>3, SearchRuns
  <2>5. \A x \in net' : (x \in net /\ x # r) \/ x.op = "search"
    BY <2>4 DEF Adds
  <2>6. net \ {r} \subseteq net'
    BY <2>4 DEF Adds
  <2>7. \A x \in net' : x.op # "static"
    BY <1>2, <2>3, <2>5 DEF SearchWaits
  <2>8. v.exporting <=> \E x \in net' : x.op = "export"
    BY <1>2, <2>2, <2>3, <2>5, <2>6, Zenon DEF SearchWaits
  <2>9. \A x, y \in net' : x.op = "export" /\ y.op = "export" => x = y
    BY <1>2, <2>5 DEF SearchWaits
  <2> QED
    BY <1>1, <2>2, <2>4, <2>7, <2>8, <2>9 DEF SearchInv, SearchWaits
<1>4. CASE Search!AnswerSearch
  <2>1. PICK r \in Search!Pending("search"), ok \in BOOLEAN :
          /\ ui' = [ui EXCEPT !.searching = FALSE, !.rows = IF ok THEN {r.key} ELSE {}]
          /\ net' = Search!Without(r)
    BY <1>4, Zenon DEF Search!AnswerSearch
  <2>2. /\ DOMAIN v = SearchFields /\ v.loading = u.loading /\ v.searching = FALSE
        /\ v.exporting = u.exporting
    BY <1>1, <1>2, <2>1 DEF SearchFields
  <2>3. r \in net /\ r.op = "search" /\ net' = net \ {r}
    BY <2>1 DEF Search!Pending, Search!Without
  <2> QED
    BY <1>1, <1>2, <2>2, <2>3 DEF SearchInv, SearchWaits
<1>5. CASE Search!AnswerSchema
  <2>0. PICK r \in Search!Pending("schema"), ok \in BOOLEAN :
          LET w == [ui EXCEPT !.schemas = @ \cup {r.key.source}] IN
          /\ ui' = IF ok THEN w ELSE ui
          /\ net' = IF ok THEN Search!AskSchema(w, Search!Without(r)) ELSE Search!Without(r)
    BY <1>5, Zenon DEF Search!AnswerSchema
  <2>1. PICK w :
          /\ w = [ui EXCEPT !.schemas = @ \cup {r.key.source}]
          /\ ui' = IF ok THEN w ELSE ui
          /\ net' = IF ok THEN Search!AskSchema(w, Search!Without(r)) ELSE Search!Without(r)
    BY <2>0
  <2>2. /\ DOMAIN v = SearchFields /\ v.loading = u.loading /\ v.searching = u.searching
        /\ v.exporting = u.exporting
    BY <1>1, <1>2, <2>1 DEF SearchFields
  <2>3. r \in net /\ r.op = "schema"
    BY <2>0 DEF Search!Pending
  <2>4. Adds("schema", net \ {r}, net')
    BY <2>1, SchemaRuns DEF Search!Without, Adds
  <2> QED
    BY <1>1, <1>2, <2>2, <2>3, <2>4 DEF SearchInv, SearchWaits, Adds
<1>6. CASE Search!ToggleColumns
  <2>1. /\ DOMAIN v = SearchFields /\ v.loading = u.loading /\ v.searching = u.searching
        /\ v.exporting = u.exporting /\ net' = net
    BY <1>1, <1>2, <1>6 DEF Search!ToggleColumns, SearchFields
  <2> QED
    BY <1>1, <1>2, <2>1 DEF SearchInv, SearchWaits
<1>7. CASE Search!ExportCsv
  <2>1. PICK n : n = [id |-> Search!Fresh, op |-> "export", key |-> Search!Payload(u)]
    OBVIOUS
  <2>2. /\ ~u.exporting /\ v = [u EXCEPT !.exporting = TRUE]
        /\ net' = net \cup {n} /\ n.op = "export"
    BY <1>1, <1>7, <2>1 DEF Search!ExportCsv, Search!Sent
  <2>3. /\ DOMAIN v = SearchFields /\ v.loading = u.loading /\ v.searching = u.searching
        /\ v.exporting = TRUE
    BY <1>2, <2>2 DEF SearchFields
  <2> QED
    BY <1>1, <1>2, <2>2, <2>3 DEF SearchInv, SearchWaits
<1>8. CASE Search!AnswerExport
  <2>1. PICK r \in Search!Pending("export") :
          ui' = [ui EXCEPT !.exporting = FALSE] /\ net' = Search!Without(r)
    BY <1>8 DEF Search!AnswerExport
  <2>2. /\ DOMAIN v = SearchFields /\ v.loading = u.loading /\ v.searching = u.searching
        /\ v.exporting = FALSE
    BY <1>1, <1>2, <2>1 DEF SearchFields
  <2>3. r \in net /\ r.op = "export" /\ net' = net \ {r}
    BY <2>1 DEF Search!Pending, Search!Without
  <2> QED
    BY <1>1, <1>2, <2>2, <2>3 DEF SearchInv, SearchWaits
<1> QED
  BY <1>3, <1>4, <1>5, <1>6, <1>7, <1>8, SearchAsks DEF Search!Next

LEMMA SearchStays == ASSUME SearchInv, UNCHANGED vars PROVE SearchInv'
BY DEF vars, SearchInv, SearchWaits

\* What the invariant says of the page.
LEMMA SearchSays == ASSUME SearchInv PROVE Search!BusyIsAwaited /\ Search!OneWrite
<1>1. Search!BusyIsAwaited
  BY DEF SearchInv, SearchWaits, Search!BusyIsAwaited, Search!Pending
<1>2. \A r, x \in Search!Pending("export") : r = x
  BY DEF SearchInv, SearchWaits, Search!Pending
<1> QED
  BY <1>1, <1>2, LoneCardinality, Zenon DEF Search!OneWrite, Search!Cardinality, Cardinality

\* The types of a state u of the page and of a call r: what a search asks is a
\* question, a schema is asked for a source that has one.
SearchTyped(u) ==
  /\ DOMAIN u = SearchFields
  /\ u.text \in Texts /\ u.source \in Search!Sources /\ u.dyn \in Values
  /\ u.schemas \subseteq SourceNames /\ u.rows \subseteq Search!Question
  /\ {u.loading, u.searching, u.columns, u.exporting} \subseteq BOOLEAN

SearchCall(r) ==
  /\ r.op = "search" => r.key \in Search!Question
  /\ r.op = "schema" => r.key.source \in SourceNames

SearchTypes ==
  SearchTyped(ui) /\ srv.schemas \subseteq SourceNames /\ \A r \in net : SearchCall(r)

LEMMA SearchTypesInit == Search!Init => SearchTypes
<1> SUFFICES ASSUME Search!Init PROVE SearchTypes
  OBVIOUS
<1>1. PICK e, s, t : t \in Texts /\ e = "" /\ s = "static" /\
        ui = [text |-> t, source |-> e, dyn |-> e, schemas |-> {}, loading |-> TRUE,
              searching |-> FALSE, rows |-> {}, columns |-> TRUE, exporting |-> FALSE]
  <2>1. PICK t : /\ t = (CHOOSE x \in Texts : TRUE)
                 /\ ui = [text |-> t, source |-> "", dyn |-> "", schemas |-> {}, loading |-> TRUE,
                          searching |-> FALSE, rows |-> {}, columns |-> TRUE, exporting |-> FALSE]
    BY Zenon, Zenon DEF Search!Init, Search!Mounted
  <2>2. t \in Texts
    BY <2>1, FrontendAssumption, Zenon DEF FrontendAssumption, Search!AlertSearchAssumption
  <2> QED
    BY <2>1, <2>2, Zenon
<1>2. e \in Search!Sources /\ e \in Values
  BY <1>1, FrontendAssumption, Zenon
     DEF FrontendAssumption, Search!AlertSearchAssumption, Search!Sources
<1>3. SearchTyped(ui)
  BY <1>1, <1>2, Zenon DEF SearchTyped, SearchFields
<1>4. PICK n : n = [id |-> 1, op |-> s, key |-> Search!NoQuestion]
  OBVIOUS
<1>5. net = {n} /\ n.op = "static" /\ srv = [schemas |-> SourceNames]
  BY <1>1, <1>4, Zenon DEF Search!Init, Search!Stored
<1>6. SearchCall(n)
  BY <1>5 DEF SearchCall
<1> QED
  BY <1>3, <1>5, <1>6 DEF SearchTypes

\* What is asked is a question.
LEMMA SearchPays == ASSUME NEW u, SearchTyped(u) PROVE Search!Payload(u) \in Search!Question
<1>1. PICK d : d = (IF u.source \in u.schemas THEN u.dyn ELSE "")
  OBVIOUS
<1>2. d \in Values
  BY <1>1, FrontendAssumption, Zenon
     DEF FrontendAssumption, Search!AlertSearchAssumption, SearchTyped
<1>3. Search!Payload(u) = [text |-> u.text, source |-> u.source, dyn |-> d]
  BY <1>1, Zenon DEF Search!Payload
<1> QED
  BY <1>2, <1>3 DEF Search!Question, SearchTyped

\* The calls of the two effects.
LEMMA SearchRunsTyped ==
  ASSUME NEW u, SearchTyped(u), NEW N, \A r \in N : SearchCall(r)
  PROVE  \A r \in Search!RunSearch(u, N) : SearchCall(r)
<1>1. PICK n : n = [id |-> CHOOSE i \in 1..MaxPending : \A r \in N : r.id # i,
                    op |-> "search", key |-> Search!Payload(u)]
  OBVIOUS
<1>2. n.op = "search" /\ n.key = Search!Payload(u)
  BY <1>1
<1>3. Search!RunSearch(u, N) = IF u.loading THEN N ELSE N \cup {n}
  BY <1>1 DEF Search!RunSearch
<1>4. SearchCall(n)
  BY <1>2, SearchPays DEF SearchCall
<1> QED
  BY <1>3, <1>4

LEMMA SchemaRunsTyped ==
  ASSUME NEW u, SearchTyped(u), NEW N, \A r \in N : SearchCall(r)
  PROVE  \A r \in Search!AskSchema(u, N) : SearchCall(r)
<1>1. PICK k : k = [Search!NoQuestion EXCEPT !.source = u.source]
  OBVIOUS
<1>2. PICK n : n = [id |-> CHOOSE i \in 1..MaxPending : \A r \in N : r.id # i,
                    op |-> "schema", key |-> k]
  OBVIOUS
<1>3. n.op = "schema" /\ n.key.source = u.source
  BY <1>1, <1>2, Zenon DEF Search!NoQuestion
<1>4. Search!AskSchema(u, N) = IF u.source \in u.schemas \cup {""} THEN N ELSE N \cup {n}
  BY <1>1, <1>2 DEF Search!AskSchema
<1>5. u.source # "" => SearchCall(n)
  BY <1>3, Zenon DEF SearchCall, SearchTyped, Search!Sources
<1> QED
  BY <1>4, <1>5, Zenon

\* A filter changes.
LEMMA SearchFiltersTyped ==
  ASSUME SearchTypes, NEW u, SearchTyped(u), Search!Filter(u)
  PROVE  SearchTypes'
<1>1. PICK v, s : v = ui' /\ s = (u.searching \/ ~u.loading)
  OBVIOUS
<1>2. v = [u EXCEPT !.searching = s] /\ s \in BOOLEAN /\ srv' = srv
  BY <1>1, Zenon DEF Search!Filter, SearchTyped, SearchFields
<1>3. SearchTyped(v)
  BY <1>2 DEF SearchTyped, SearchFields
<1>4. PICK M : M = Search!RunSearch(u, net)
  OBVIOUS
<1>5. \A r \in M : SearchCall(r)
  BY <1>4, SearchRunsTyped DEF SearchTypes
<1>6. \A r \in Search!AskSchema(u, M) : SearchCall(r)
  BY <1>5, SchemaRunsTyped
<1>7. net' = M \/ net' = Search!AskSchema(u, M)
  BY <1>4, Zenon DEF Search!Filter
<1>8. \A r \in net' : SearchCall(r)
  BY <1>5, <1>6, <1>7
<1> QED
  BY <1>1, <1>2, <1>3, <1>8 DEF SearchTypes

LEMMA SearchAsksTyped ==
  ASSUME SearchTypes,
         Search!ChangeText \/ Search!ChooseSource \/ Search!TypeValue \/ Search!ApplySaved
  PROVE  SearchTypes'
<1>0. SearchTyped(ui)
  BY DEF SearchTypes
<1>1. CASE Search!ChangeText
  <2>1. PICK t \in Texts : Search!Filter([ui EXCEPT !.text = t])
    BY <1>1 DEF Search!ChangeText
  <2>2. PICK u : u = [ui EXCEPT !.text = t]
    OBVIOUS
  <2>3. SearchTyped(u)
    BY <1>0, <2>1, <2>2 DEF SearchTyped, SearchFields
  <2> QED
    BY <2>1, <2>2, <2>3, SearchFiltersTyped
<1>2. CASE Search!ChooseSource
  <2>1. PICK s \in (ui.schemas \cup {""}) \ {ui.source} : Search!Filter([ui EXCEPT !.source = s])
    BY <1>2, Zenon DEF Search!ChooseSource
  <2>2. PICK u : u = [ui EXCEPT !.source = s]
    OBVIOUS
  <2>3. s \in Search!Sources
    BY <1>0, <2>1, Zenon DEF SearchTyped, Search!Sources
  <2>4. SearchTyped(u)
    BY <1>0, <2>2, <2>3, Zenon DEF SearchTyped, SearchFields
  <2> QED
    BY <2>1, <2>2, <2>4, SearchFiltersTyped, Zenon
<1>3. CASE Search!TypeValue
  <2>1. PICK d \in Values : Search!Filter([ui EXCEPT !.dyn = d])
    BY <1>3 DEF Search!TypeValue
  <2>2. PICK u : u = [ui EXCEPT !.dyn = d]
    OBVIOUS
  <2>3. SearchTyped(u)
    BY <1>0, <2>1, <2>2 DEF SearchTyped, SearchFields
  <2> QED
    BY <2>1, <2>2, <2>3, SearchFiltersTyped
<1>4. CASE Search!ApplySaved
  <2>1. PICK t \in Texts, s \in Search!Sources, d \in Values :
          Search!Filter([ui EXCEPT !.text = t, !.source = s, !.dyn = d, !.columns = TRUE])
    BY <1>4, Zenon DEF Search!ApplySaved
  <2>2. PICK u : u = [ui EXCEPT !.text = t, !.source = s, !.dyn = d, !.columns = TRUE]
    OBVIOUS
  <2>3. SearchTyped(u)
    BY <1>0, <2>1, <2>2 DEF SearchTyped, SearchFields
  <2> QED
    BY <2>1, <2>2, <2>3, SearchFiltersTyped
<1> QED
  BY <1>1, <1>2, <1>3, <1>4

LEMMA SearchTypesStep == ASSUME SearchTypes, Search!Next PROVE SearchTypes'
<1>1. PICK v, u : v = ui' /\ u = ui
  OBVIOUS
<1>2. SearchTyped(u) /\ srv.schemas \subseteq SourceNames /\ \A r \in net : SearchCall(r)
  BY <1>1 DEF SearchTypes
<1>3. ASSUME SearchTyped(v), srv' = srv, \A r \in net' : SearchCall(r) PROVE SearchTypes'
  BY <1>1, <1>2, <1>3 DEF SearchTypes
<1>4. CASE Search!StaticLoaded
  <2>1. PICK r \in net, known \in SUBSET srv.schemas :
          /\ ui' = [ui EXCEPT !.schemas = known, !.loading = FALSE, !.searching = TRUE]
          /\ net' = Search!RunSearch(ui', net \ {r}) /\ srv' = srv
    BY <1>4, Zenon DEF Search!StaticLoaded, Search!Pending, Search!Without
  <2>2. v = [u EXCEPT !.schemas = known, !.loading = FALSE, !.searching = TRUE]
    BY <1>1, <2>1
  <2>3. SearchTyped(v)
    BY <1>2, <2>1, <2>2 DEF SearchTyped, SearchFields
  <2>4. \A x \in net \ {r} : SearchCall(x)
    BY <1>2
  <2>5. \A x \in Search!RunSearch(v, net \ {r}) : SearchCall(x)
    BY <2>3, <2>4, SearchRunsTyped
  <2> QED
    BY <1>1, <1>3, <2>1, <2>3, <2>5
<1>5. CASE Search!AnswerSearch
  <2>1. PICK r \in net, ok \in BOOLEAN :
          /\ ui' = [ui EXCEPT !.searching = FALSE, !.rows = IF ok THEN {r.key} ELSE {}]
          /\ net' = net \ {r} /\ srv' = srv /\ r.op = "search"
    BY <1>5, Zenon DEF Search!AnswerSearch, Search!Pending, Search!Without
  <2>2. PICK w : w = (IF ok THEN {r.key} ELSE {})
    OBVIOUS
  <2>3. v = [u EXCEPT !.searching = FALSE, !.rows = w]
    BY <1>1, <2>1, <2>2
  <2>4. w \subseteq Search!Question
    BY <1>2, <2>1, <2>2 DEF SearchCall
  <2>5. SearchTyped(v)
    BY <1>2, <2>3, <2>4 DEF SearchTyped, SearchFields
  <2> QED
    BY <1>2, <1>3, <2>1, <2>5
<1>6. CASE Search!AnswerSchema
  <2>0. PICK r \in Search!Pending("schema"), ok \in BOOLEAN :
          LET w == [ui EXCEPT !.schemas = @ \cup {r.key.source}] IN
          /\ ui' = IF ok THEN w ELSE ui
          /\ net' = IF ok THEN Search!AskSchema(w, Search!Without(r)) ELSE Search!Without(r)
          /\ srv' = srv
    BY <1>6, Zenon DEF Search!AnswerSchema
  <2>1. PICK w : w = [ui EXCEPT !.schemas = @ \cup {r.key.source}]
    OBVIOUS
  <2>2. /\ v = IF ok THEN w ELSE u
        /\ net' = IF ok THEN Search!AskSchema(w, net \ {r}) ELSE net \ {r}
        /\ srv' = srv
    BY <1>1, <2>0, <2>1 DEF Search!Without
  <2>3. r.key.source \in SourceNames
    BY <1>2, <2>0 DEF Search!Pending, SearchCall
  <2>4. w = [u EXCEPT !.schemas = u.schemas \cup {r.key.source}]
    BY <1>1, <1>2, <2>1 DEF SearchTyped, SearchFields
  <2>5. SearchTyped(w)
    BY <1>2, <2>3, <2>4 DEF SearchTyped, SearchFields
  <2>6. \A x \in net \ {r} : SearchCall(x)
    BY <1>2
  <2>7. \A x \in Search!AskSchema(w, net \ {r}) : SearchCall(x)
    BY <2>5, <2>6, SchemaRunsTyped
  <2> QED
    BY <1>2, <1>3, <2>2, <2>5, <2>6, <2>7
<1>7. CASE Search!ToggleColumns
  <2>1. PICK c : c = ~u.columns
    OBVIOUS
  <2>2. v = [u EXCEPT !.columns = c] /\ c \in BOOLEAN /\ net' = net /\ srv' = srv
    BY <1>1, <1>2, <1>7, <2>1 DEF Search!ToggleColumns, SearchTyped, SearchFields
  <2>3. SearchTyped(v)
    BY <1>2, <2>2 DEF SearchTyped, SearchFields
  <2> QED
    BY <1>2, <1>3, <2>2, <2>3
<1>8. CASE Search!ExportCsv
  <2>1. PICK n : n = [id |-> Search!Fresh, op |-> "export", key |-> Search!Payload(u)]
    OBVIOUS
  <2>2. /\ v = [u EXCEPT !.exporting = TRUE] /\ srv' = srv
        /\ net' = net \cup {n} /\ n.op = "export"
    BY <1>1, <1>8, <2>1 DEF Search!ExportCsv, Search!Sent
  <2>3. SearchCall(n)
    BY <2>2 DEF SearchCall
  <2>4. SearchTyped(v)
    BY <1>2, <2>2 DEF SearchTyped, SearchFields
  <2> QED
    BY <1>2, <1>3, <2>2, <2>3, <2>4
<1>9. CASE Search!AnswerExport
  <2>1. v = [u EXCEPT !.exporting = FALSE] /\ net' \subseteq net /\ srv' = srv
    BY <1>1, <1>9 DEF Search!AnswerExport, Search!Without
  <2>2. SearchTyped(v)
    BY <1>2, <2>1 DEF SearchTyped, SearchFields
  <2> QED
    BY <1>2, <1>3, <2>1, <2>2
<1> QED
  BY <1>4, <1>5, <1>6, <1>7, <1>8, <1>9, SearchAsksTyped DEF Search!Next

LEMMA SearchTypesStay == ASSUME SearchTypes, UNCHANGED vars PROVE SearchTypes'
BY DEF vars, SearchTypes, SearchTyped

LEMMA SearchIsTyped == ASSUME SearchTypes PROVE Search!TypeOK
BY DEF SearchTypes, SearchTyped, Search!TypeOK, SearchFields

-----------------------------------------------------------------------------
(* SavedSearches: a name and filters in the list, on the server and on the way. *)

SavedFields == {"list", "sel", "name", "filters"}

SavedList(f) == DOMAIN f \subseteq Accounts /\ \A i \in DOMAIN f : f[i] \in Saved!Searches

SavedCall(r) ==
  /\ DOMAIN r = {"id", "op", "key"} /\ DOMAIN r.key = {"sel", "name", "filters"}
  /\ r.key.sel \in Accounts \cup {0} /\ r.key.filters \in Filters
  /\ r.op \in {"create", "update"} => r.key.name \in Names

SavedPage(u) ==
  /\ DOMAIN u = SavedFields /\ u.sel \in Accounts \cup {0} /\ u.name \in Names \cup {""}
  /\ u.filters \in Filters /\ SavedList(u.list)

SavedTypes ==
  /\ SavedPage(ui) /\ DOMAIN srv = {"saved"} /\ SavedList(srv.saved)
  /\ \A r \in net : SavedCall(r)

LEMMA SavedTypesInit == Saved!Init => SavedTypes
<1> SUFFICES ASSUME Saved!Init PROVE SavedTypes
  OBVIOUS
<1>1. PICK none : none = [i \in {} |-> Saved!NotSaved]
  OBVIOUS
<1>2. SavedList(none)
  BY <1>1 DEF SavedList
<1>4. DOMAIN srv = {"saved"} /\ SavedList(srv.saved)
  <2>1. srv \in [saved : UNION {[S -> Saved!Searches] : S \in {{}} \cup {{j} : j \in Accounts}}]
    BY DEF Saved!Init, Saved!Stored
  <2>2. PICK S \in {{}} \cup {{j} : j \in Accounts} : srv.saved \in [S -> Saved!Searches]
    BY <2>1
  <2>3. S \subseteq Accounts
    OBVIOUS
  <2> QED
    BY <2>1, <2>2, <2>3 DEF SavedList
<1>5. SavedPage(ui)
  <2>1. PICK l, f : /\ f \in Filters /\ l \in {none, srv.saved}
                    /\ ui = [list |-> l, sel |-> 0, name |-> "", filters |-> f]
    <3>1. CASE ui \in Saved!Mounted
      BY <1>1, <3>1, Zenon DEF Saved!Mounted
    <3>2. CASE \E u \in Saved!Mounted : ui = [u EXCEPT !.list = srv.saved]
      <4>1. PICK f \in Filters :
              ui = [[list |-> none, sel |-> 0, name |-> "", filters |-> f]
                     EXCEPT !.list = srv.saved]
        BY <1>1, <3>2, Zenon DEF Saved!Mounted
      <4>2. ui = [list |-> srv.saved, sel |-> 0, name |-> "", filters |-> f]
        BY <4>1, Zenon
      <4> QED
        BY <4>2, Zenon
    <3> QED
      BY <3>1, <3>2, Zenon DEF Saved!Init
  <2>2. SavedList(l)
    BY <1>2, <1>4, <2>1, Zenon
  <2> QED
    BY <2>1, <2>2, Zenon DEF SavedPage, SavedFields
<1> QED
  BY <1>4, <1>5 DEF SavedTypes, Saved!Init

\* The server keeps what a call asked it to, and the page what the server sent.
LEMMA SavedTypesStep == ASSUME SavedTypes, Saved!Next PROVE SavedTypes'
<1>1. PICK v, u : v = ui' /\ u = ui
  OBVIOUS
<1>2. PICK t, s : t = srv' /\ s = srv
  OBVIOUS
<1>3. /\ SavedPage(u) /\ DOMAIN s = {"saved"} /\ SavedList(s.saved)
      /\ \A r \in net : SavedCall(r)
  BY <1>1, <1>2 DEF SavedTypes
<1> SUFFICES /\ SavedPage(v) /\ DOMAIN t = {"saved"} /\ SavedList(t.saved)
             /\ \A r \in net' : SavedCall(r)
  BY <1>1, <1>2 DEF SavedTypes, SavedCall
<1>4. CASE Saved!Choose
  <2>1. PICK i \in DOMAIN u.list :
          /\ v = [u EXCEPT !.sel = i, !.name = u.list[i].name, !.filters = u.list[i].filters]
          /\ t = s /\ net' = net
    BY <1>1, <1>2, <1>4, Zenon DEF Saved!Choose
  <2>2. i \in Accounts /\ u.list[i].name \in Names /\ u.list[i].filters \in Filters
    BY <1>3, Zenon DEF SavedPage, SavedList, Saved!Searches
  <2>3. SavedPage(v)
    BY <1>3, <2>1, <2>2, Zenon DEF SavedPage, SavedFields
  <2> QED
    BY <1>3, <2>1, <2>3
<1>5. CASE Saved!ChooseNone \/ Saved!TypeName
  <2>1. PICK x, n : /\ v = [u EXCEPT !.sel = x, !.name = n] /\ n \in Names \cup {""}
                    /\ x \in {u.sel, 0} /\ t = s /\ net' = net
    <3>1. CASE Saved!ChooseNone
      BY <1>1, <1>2, <3>1, Zenon DEF Saved!ChooseNone
    <3>2. CASE Saved!TypeName
      <4>1. PICK n \in Names \cup {""} : v = [u EXCEPT !.name = n] /\ t = s /\ net' = net
        BY <1>1, <1>2, <3>2, Zenon DEF Saved!TypeName
      <4>2. [u EXCEPT !.name = n] = [u EXCEPT !.sel = u.sel, !.name = n]
        BY <1>3, Zenon DEF SavedPage, SavedFields
      <4> QED
        BY <4>1, <4>2, Zenon
    <3> QED
      BY <1>5, <3>1, <3>2, Zenon
  <2>2. SavedPage(v)
    BY <1>3, <2>1, Zenon DEF SavedPage, SavedFields
  <2> QED
    BY <1>3, <2>1, <2>2, Zenon
<1>6. CASE Saved!ChangeFilters
  <2>1. PICK f \in Filters : v = [u EXCEPT !.filters = f] /\ t = s /\ net' = net
    BY <1>1, <1>2, <1>6 DEF Saved!ChangeFilters
  <2>2. SavedPage(v)
    BY <1>3, <2>1, Zenon DEF SavedPage, SavedFields
  <2> QED
    BY <1>3, <2>1, <2>2
<1>7. CASE Saved!SaveNew \/ Saved!UpdateSelected \/ Saved!DeleteSelected
  <2>1. PICK op : /\ op \in {"create", "update", "delete"} /\ op # "delete" => u.name # ""
                  /\ net' = Saved!Sent(op, Saved!Payload) /\ v = u /\ t = s
    BY <1>1, <1>2, <1>7, Zenon DEF Saved!SaveNew, Saved!UpdateSelected, Saved!DeleteSelected
  <2>2. PICK n : n = [id |-> Saved!Fresh, op |-> op, key |-> Saved!Payload]
    OBVIOUS
  <2>3. SavedCall(n)
    BY <1>1, <1>3, <2>1, <2>2, Zenon DEF SavedCall, SavedPage, Saved!Payload
  <2> QED
    BY <1>3, <2>1, <2>2, <2>3, Zenon DEF Saved!Sent
<1>8. ASSUME NEW r \in net, NEW op \in {"created", "updated", "deleted"},
             NEW i \in Accounts \cup {0}, net' = Saved!Refresh(r, op, i)
      PROVE  \A x \in net' : SavedCall(x)
  <2>1. PICK n : n = [r EXCEPT !.op = op, !.key.sel = i]
    OBVIOUS
  <2>2. SavedCall(r)
    BY <1>3
  <2>3. DOMAIN n = DOMAIN r /\ n.op = op /\ n.key = [r.key EXCEPT !.sel = i]
    BY <2>1, <2>2 DEF SavedCall
  <2>4. SavedCall(n)
    BY <2>2, <2>3 DEF SavedCall
  <2> QED
    BY <1>3, <1>8, <2>1, <2>4 DEF Saved!Refresh, Saved!Without
<1>9. ASSUME NEW r \in net, r.op \in {"create", "update"}
      PROVE  Saved!Search(r.key) \in Saved!Searches
  BY <1>3, <1>9 DEF SavedCall, Saved!Search, Saved!Searches
<1>10. CASE Saved!Created
  <2>1. PICK r \in Saved!Pending("create"), i \in Accounts \ DOMAIN srv.saved :
          /\ srv' = [srv EXCEPT !.saved =
               [j \in DOMAIN @ \cup {i} |-> IF j = i THEN Saved!Search(r.key) ELSE @[j]]]
          /\ net' = Saved!Refresh(r, "created", i) /\ UNCHANGED ui
    BY <1>10, Zenon DEF Saved!Created
  <2>2. r \in net /\ r.op = "create"
    BY <2>1 DEF Saved!Pending
  <2>3. PICK f : f = [j \in DOMAIN s.saved \cup {i} |->
                        IF j = i THEN Saved!Search(r.key) ELSE s.saved[j]]
    OBVIOUS
  <2>4. t = [s EXCEPT !.saved = f]
    BY <1>2, <2>1, <2>3
  <2>5. SavedList(f)
    <3>1. Saved!Search(r.key) \in Saved!Searches
      BY <1>9, <2>2
    <3> QED
      BY <1>3, <2>1, <2>3, <3>1 DEF SavedList
  <2>6. DOMAIN t = {"saved"} /\ t.saved = f
    BY <1>3, <2>4
  <2> QED
    BY <1>1, <1>3, <1>8, <2>1, <2>2, <2>5, <2>6
<1>11. CASE Saved!Updated
  <2>1. PICK r \in Saved!Pending("update") :
          /\ r.key.sel \in DOMAIN srv.saved
          /\ srv' = [srv EXCEPT !.saved[r.key.sel] = Saved!Search(r.key)]
          /\ net' = Saved!Refresh(r, "updated", r.key.sel) /\ UNCHANGED ui
    BY <1>11, Zenon DEF Saved!Updated
  <2>2. r \in net /\ r.op = "update"
    BY <2>1 DEF Saved!Pending
  <2>3. PICK f : f = [s.saved EXCEPT ![r.key.sel] = Saved!Search(r.key)]
    OBVIOUS
  <2>4. t = [s EXCEPT !.saved = f]
    BY <1>2, <2>1, <2>3
  <2>5. SavedList(f)
    <3>1. Saved!Search(r.key) \in Saved!Searches
      BY <1>9, <2>2
    <3> QED
      BY <1>3, <2>1, <2>3, <3>1 DEF SavedList
  <2>6. DOMAIN t = {"saved"} /\ t.saved = f /\ r.key.sel \in Accounts \cup {0}
    BY <1>3, <2>2, <2>4 DEF SavedCall
  <2> QED
    BY <1>1, <1>3, <1>8, <2>1, <2>2, <2>5, <2>6
<1>12. CASE Saved!Deleted
  <2>1. PICK r \in Saved!Pending("delete") :
          /\ srv' = [srv EXCEPT !.saved = [j \in DOMAIN @ \ {r.key.sel} |-> @[j]]]
          /\ net' = Saved!Refresh(r, "deleted", r.key.sel) /\ UNCHANGED ui
    BY <1>12, Zenon DEF Saved!Deleted
  <2>2. r \in net
    BY <2>1 DEF Saved!Pending
  <2>3. PICK f : f = [j \in DOMAIN s.saved \ {r.key.sel} |-> s.saved[j]]
    OBVIOUS
  <2>4. t = [s EXCEPT !.saved = f]
    BY <1>2, <2>1, <2>3
  <2>5. SavedList(f)
    BY <1>3, <2>3 DEF SavedList
  <2>6. DOMAIN t = {"saved"} /\ t.saved = f /\ r.key.sel \in Accounts \cup {0}
    BY <1>3, <2>2, <2>4 DEF SavedCall
  <2> QED
    BY <1>1, <1>3, <1>8, <2>1, <2>2, <2>5, <2>6
<1>13. CASE Saved!Refused \/ Saved!RefreshFails
  <2>1. net' \subseteq net /\ v = u /\ t = s
    BY <1>1, <1>2, <1>13 DEF Saved!Refused, Saved!RefreshFails, Saved!Without
  <2> QED
    BY <1>3, <2>1
<1>14. CASE Saved!Refreshed
  <2>1. PICK r : /\ r \in net /\ r.op \in {"created", "updated", "deleted"}
                 /\ ui' = CASE r.op = "created" -> [ui EXCEPT !.list = srv.saved, !.sel = r.key.sel]
                            [] r.op = "updated" -> [ui EXCEPT !.list = srv.saved]
                            [] r.op = "deleted" -> [ui EXCEPT !.list = srv.saved, !.sel = 0,
                                                              !.name = ""]
                 /\ net' \subseteq net /\ t = s
    BY <1>2, <1>14, Zenon DEF Saved!Refreshed, Saved!Without, Saved!Pending
  <2>2. r.key.sel \in Accounts \cup {0}
    BY <1>3, <2>1 DEF SavedCall
  <2>3. SavedPage(v)
    <3>1. CASE r.op = "created"
      <4>1. v = [u EXCEPT !.list = s.saved, !.sel = r.key.sel]
        BY <1>1, <1>2, <2>1, <3>1
      <4> QED
        BY <1>3, <2>2, <4>1, Zenon DEF SavedPage, SavedFields
    <3>2. CASE r.op = "updated"
      <4>1. v = [u EXCEPT !.list = s.saved]
        BY <1>1, <1>2, <2>1, <3>2
      <4> QED
        BY <1>3, <4>1, Zenon DEF SavedPage, SavedFields
    <3>3. CASE r.op = "deleted"
      <4>1. v = [u EXCEPT !.list = s.saved, !.sel = 0, !.name = ""]
        BY <1>1, <1>2, <2>1, <3>3
      <4> QED
        BY <1>3, <4>1, Zenon DEF SavedPage, SavedFields
    <3> QED
      BY <2>1, <3>1, <3>2, <3>3
  <2> QED
    BY <1>3, <2>1, <2>3
<1> QED
  BY <1>4, <1>5, <1>6, <1>7, <1>10, <1>11, <1>12, <1>13, <1>14 DEF Saved!Next

LEMMA SavedTypesStay == ASSUME SavedTypes, UNCHANGED vars PROVE SavedTypes'
BY Zenon DEF vars, SavedTypes, SavedPage, SavedList, SavedCall

LEMMA SavedIsTyped == ASSUME SavedTypes PROVE Saved!TypeOK
BY Zenon DEF SavedTypes, SavedPage, SavedList, Saved!TypeOK

-----------------------------------------------------------------------------
(* CustomerSettings: one save and one switch of a source, each awaited by its  *)
(* own flag, and the load of whichever customer.                               *)

SettingsFields ==
  {"of", "sel", "due", "whose", "table", "edited", "loading", "saving", "toggling"}

\* What the flags of a state u of the page wait for in the calls N.
SettingsWaits(u, N) ==
  /\ DOMAIN u = SettingsFields
  /\ u.loading => \E r \in N : r.op = "load"
  /\ u.saving <=> \E r \in N : r.op = "save"
  /\ u.toggling <=> \E r \in N : r.op = "toggle"
  /\ \A op \in {"save", "toggle"} : \A r, x \in N : r.op = op /\ x.op = op => r = x

SettingsInv == SettingsWaits(ui, net)

\* Nothing is asked for before the effect on the customer runs.
LEMMA SettingsInit == Settings!Init => SettingsInv
<1> SUFFICES ASSUME Settings!Init PROVE SettingsInv
  OBVIOUS
<1>1. /\ DOMAIN ui = SettingsFields /\ net = {}
      /\ ui.loading = FALSE /\ ui.saving = FALSE /\ ui.toggling = FALSE
  BY DEF Settings!Init, Settings!Shows, Settings!Mounted, SettingsFields
<1> QED
  BY <1>1 DEF SettingsInv, SettingsWaits

\* Every step of the page: whichever customer is active by then, an answer ends
\* the flag of its own kind.
LEMMA SettingsStep == ASSUME SettingsInv, Settings!Next PROVE SettingsInv'
<1>1. PICK v, u : v = ui' /\ u = ui
  OBVIOUS
<1>2. SettingsWaits(u, net) /\ DOMAIN u = SettingsFields
  BY <1>1 DEF SettingsInv, SettingsWaits
<1>3. CASE \/ Settings!SelectCustomer \/ Settings!SelectAll \/ Settings!OpenCustomer
           \/ Settings!Synchronise \/ Settings!UpdateSettings
  <2>1. /\ DOMAIN v = SettingsFields /\ v.loading = u.loading /\ v.saving = u.saving
        /\ v.toggling = u.toggling
    BY <1>1, <1>2, <1>3, Zenon
       DEF Settings!SelectCustomer, Settings!SelectAll, Settings!OpenCustomer,
           Settings!Synchronise, Settings!UpdateSettings, SettingsFields
  <2>2. net' = net
    BY <1>3, Zenon DEF Settings!SelectCustomer, Settings!SelectAll, Settings!OpenCustomer,
                Settings!Synchronise, Settings!UpdateSettings
  <2> QED
    BY <1>1, <1>2, <2>1, <2>2 DEF SettingsInv, SettingsWaits
<1>4. CASE Settings!LoadSettings
  <2>1. PICK n : n = [id |-> Settings!Fresh, op |-> "load", key |-> Settings!For(Settings!Active)]
    OBVIOUS
  <2>2. /\ v = [u EXCEPT !.due = FALSE, !.loading = TRUE]
        /\ net' = net \cup {n} /\ n.op = "load"
    BY <1>1, <1>4, <2>1 DEF Settings!LoadSettings, Settings!Sent
  <2>3. DOMAIN v = SettingsFields /\ v.saving = u.saving /\ v.toggling = u.toggling
    BY <1>2, <2>2 DEF SettingsFields
  <2> QED
    BY <1>1, <1>2, <2>2, <2>3 DEF SettingsInv, SettingsWaits
<1>5. CASE Settings!AnswerLoad
  <2>1. PICK r \in Settings!Pending("load"), ok \in BOOLEAN :
          /\ ui' = [ui EXCEPT !.loading = FALSE, !.edited = FALSE,
                              !.whose = IF ok THEN r.key.of ELSE "none",
                              !.table = IF ok THEN r.key.of ELSE "none"]
          /\ net' = Settings!Without(r)
    BY <1>5, Zenon DEF Settings!AnswerLoad
  <2>2. r \in net /\ r.op = "load" /\ net' = net \ {r}
    BY <2>1 DEF Settings!Pending, Settings!Without
  <2>3. /\ DOMAIN v = SettingsFields /\ v.loading = FALSE /\ v.saving = u.saving
        /\ v.toggling = u.toggling
    BY <1>1, <1>2, <2>1 DEF SettingsFields
  <2> QED
    BY <1>1, <1>2, <2>2, <2>3 DEF SettingsInv, SettingsWaits
<1>6. CASE Settings!Save
  <2>1. PICK n : n = [id |-> Settings!Fresh, op |-> "save", key |-> Settings!For(Settings!Active)]
    OBVIOUS
  <2>2. /\ ~u.saving /\ v = [u EXCEPT !.saving = TRUE]
        /\ net' = net \cup {n} /\ n.op = "save"
    BY <1>1, <1>6, <2>1 DEF Settings!Save, Settings!Sent
  <2>3. /\ DOMAIN v = SettingsFields /\ v.loading = u.loading /\ v.saving = TRUE
        /\ v.toggling = u.toggling
    BY <1>2, <2>2 DEF SettingsFields
  <2> QED
    BY <1>1, <1>2, <2>2, <2>3 DEF SettingsInv, SettingsWaits
<1>7. CASE Settings!Saved
  <2>1. PICK r \in Settings!Pending("save"), ok \in BOOLEAN :
          /\ ui' = IF ok THEN [ui EXCEPT !.saving = FALSE, !.whose = r.key.of,
                                         !.table = r.key.of, !.edited = FALSE]
                   ELSE [ui EXCEPT !.saving = FALSE]
          /\ net' = Settings!Without(r)
    BY <1>7, Zenon DEF Settings!Saved
  <2>2. r \in net /\ r.op = "save" /\ net' = net \ {r}
    BY <2>1 DEF Settings!Pending, Settings!Without
  <2>3. /\ DOMAIN v = SettingsFields /\ v.loading = u.loading /\ v.saving = FALSE
        /\ v.toggling = u.toggling
    BY <1>1, <1>2, <2>1 DEF SettingsFields
  <2> QED
    BY <1>1, <1>2, <2>2, <2>3 DEF SettingsInv, SettingsWaits
<1>8. CASE Settings!ToggleSource
  <2>1. PICK n : n = [id |-> Settings!Fresh, op |-> "toggle", key |-> Settings!For(Settings!Active)]
    OBVIOUS
  <2>2. /\ ~u.toggling /\ v = [u EXCEPT !.toggling = TRUE]
        /\ net' = net \cup {n} /\ n.op = "toggle"
    BY <1>1, <1>8, <2>1 DEF Settings!ToggleSource, Settings!Sent
  <2>3. /\ DOMAIN v = SettingsFields /\ v.loading = u.loading /\ v.saving = u.saving
        /\ v.toggling = TRUE
    BY <1>2, <2>2 DEF SettingsFields
  <2> QED
    BY <1>1, <1>2, <2>2, <2>3 DEF SettingsInv, SettingsWaits
<1>9. CASE Settings!SourceToggled
  <2>1. PICK r \in Settings!Pending("toggle"), ok \in BOOLEAN :
          /\ ui' = [ui EXCEPT !.toggling = FALSE,
                              !.table = IF ok THEN r.key.of ELSE r.key.table]
          /\ net' = Settings!Without(r)
    BY <1>9, Zenon DEF Settings!SourceToggled
  <2>2. r \in net /\ r.op = "toggle" /\ net' = net \ {r}
    BY <2>1 DEF Settings!Pending, Settings!Without
  <2>3. /\ DOMAIN v = SettingsFields /\ v.loading = u.loading /\ v.saving = u.saving
        /\ v.toggling = FALSE
    BY <1>1, <1>2, <2>1 DEF SettingsFields
  <2> QED
    BY <1>1, <1>2, <2>2, <2>3 DEF SettingsInv, SettingsWaits
<1> QED
  BY <1>3, <1>4, <1>5, <1>6, <1>7, <1>8, <1>9 DEF Settings!Next

LEMMA SettingsStays == ASSUME SettingsInv, UNCHANGED vars PROVE SettingsInv'
BY DEF vars, SettingsInv, SettingsWaits

\* What the invariant says of the page.
LEMMA SettingsSays == ASSUME SettingsInv PROVE Settings!BusyIsAwaited /\ Settings!OneWrite
<1>1. Settings!BusyIsAwaited
  BY DEF SettingsInv, SettingsWaits, Settings!BusyIsAwaited, Settings!Pending
<1>2. /\ \A r, x \in Settings!Pending("save") : r = x
      /\ \A r, x \in Settings!Pending("toggle") : r = x
  BY DEF SettingsInv, SettingsWaits, Settings!Pending
<1> QED
  BY <1>1, <1>2, LoneCardinality, Zenon
     DEF Settings!OneWrite, Settings!Cardinality, Cardinality

\* The types of a state u of the page and of a call r.
Shown == Customers \cup {"none"}

SettingsTyped(u) ==
  /\ DOMAIN u = SettingsFields /\ u.of \in Customers /\ {u.sel, u.whose, u.table} \subseteq Shown
  /\ {u.due, u.edited, u.loading, u.saving, u.toggling} \subseteq BOOLEAN

SettingsCall(r) == {r.key.of, r.key.table} \subseteq Shown

SettingsTypes == SettingsTyped(ui) /\ \A r \in net : SettingsCall(r)

LEMMA SettingsTypesInit == Settings!Init => SettingsTypes
<1> SUFFICES ASSUME Settings!Init PROVE SettingsTypes
  OBVIOUS
<1>1. PICK c \in Customers :
        ui = [of |-> c, sel |-> c, due |-> TRUE, whose |-> "none", table |-> "none",
              edited |-> FALSE, loading |-> FALSE, saving |-> FALSE, toggling |-> FALSE]
  BY DEF Settings!Init, Settings!Shows, Settings!Mounted
<1>2. net = {}
  BY DEF Settings!Init, Settings!Shows
<1>3. SettingsTyped(ui)
  BY <1>1 DEF SettingsTyped, SettingsFields, Shown
<1> QED
  BY <1>2, <1>3 DEF SettingsTypes

LEMMA SettingsTypesStep == ASSUME SettingsTypes, Settings!Next PROVE SettingsTypes'
<1>1. PICK v, u : v = ui' /\ u = ui
  OBVIOUS
<1>2. SettingsTyped(u) /\ \A r \in net : SettingsCall(r)
  BY <1>1 DEF SettingsTypes
<1> SUFFICES SettingsTyped(v) /\ \A r \in net' : SettingsCall(r)
  BY <1>1 DEF SettingsTypes, SettingsCall
<1>3. CASE Settings!SelectCustomer \/ Settings!SelectAll
  <2>1. PICK c \in Shown, d \in BOOLEAN : v = [u EXCEPT !.sel = c, !.due = d] /\ net' = net
    BY <1>1, <1>3, Zenon DEF Settings!SelectCustomer, Settings!SelectAll, Shown
  <2>2. SettingsTyped(v)
    BY <1>2, <2>1 DEF SettingsTyped, SettingsFields
  <2> QED
    BY <1>2, <2>1, <2>2
<1>4. CASE Settings!OpenCustomer
  <2>1. PICK c \in Customers : v = [u EXCEPT !.of = c] /\ net' = net
    BY <1>1, <1>4 DEF Settings!OpenCustomer
  <2>2. SettingsTyped(v)
    BY <1>2, <2>1 DEF SettingsTyped, SettingsFields
  <2> QED
    BY <1>2, <2>1, <2>2
<1>5. CASE Settings!Synchronise
  <2>1. PICK o : o = (IF u.sel = "none" THEN u.of ELSE u.sel)
    OBVIOUS
  <2>2. v = [u EXCEPT !.sel = u.of, !.of = o, !.due = TRUE] /\ net' = net
    BY <1>1, <1>2, <1>5, <2>1 DEF Settings!Synchronise, SettingsTyped, SettingsFields
  <2>3. o \in Customers /\ u.of \in Shown
    BY <1>2, <2>1 DEF SettingsTyped, Shown
  <2>4. SettingsTyped(v)
    BY <1>2, <2>2, <2>3 DEF SettingsTyped, SettingsFields
  <2> QED
    BY <1>2, <2>2, <2>4
<1>6. CASE Settings!UpdateSettings
  <2>1. v = [u EXCEPT !.edited = TRUE] /\ net' = net
    BY <1>1, <1>6 DEF Settings!UpdateSettings
  <2>2. SettingsTyped(v)
    BY <1>2, <2>1 DEF SettingsTyped, SettingsFields
  <2> QED
    BY <1>2, <2>1, <2>2
<1>7. CASE Settings!LoadSettings \/ Settings!Save \/ Settings!ToggleSource
  <2>1. PICK op : net' = Settings!Sent(op, Settings!For(Settings!Active))
    BY <1>7 DEF Settings!LoadSettings, Settings!Save, Settings!ToggleSource
  <2>2. PICK n : n = [id |-> Settings!Fresh, op |-> op, key |-> Settings!For(Settings!Active)]
    OBVIOUS
  <2>3. SettingsCall(n) /\ net' = net \cup {n}
    BY <1>1, <1>2, <2>1, <2>2
       DEF Settings!Sent, Settings!For, Settings!Active, SettingsCall, SettingsTyped
  <2>4. SettingsTyped(v)
    <3>1. CASE Settings!LoadSettings
      <4>1. v = [u EXCEPT !.due = FALSE, !.loading = TRUE]
        BY <1>1, <3>1 DEF Settings!LoadSettings
      <4> QED
        BY <1>2, <4>1 DEF SettingsTyped, SettingsFields
    <3>2. CASE Settings!Save
      <4>1. v = [u EXCEPT !.saving = TRUE]
        BY <1>1, <3>2 DEF Settings!Save
      <4> QED
        BY <1>2, <4>1 DEF SettingsTyped, SettingsFields
    <3>3. CASE Settings!ToggleSource
      <4>1. v = [u EXCEPT !.toggling = TRUE]
        BY <1>1, <3>3 DEF Settings!ToggleSource
      <4> QED
        BY <1>2, <4>1 DEF SettingsTyped, SettingsFields
    <3> QED
      BY <1>7, <3>1, <3>2, <3>3
  <2> QED
    BY <1>2, <2>3, <2>4
<1>8. CASE Settings!AnswerLoad
  <2>1. PICK r \in net, ok \in BOOLEAN :
          /\ ui' = [ui EXCEPT !.loading = FALSE, !.edited = FALSE,
                              !.whose = IF ok THEN r.key.of ELSE "none",
                              !.table = IF ok THEN r.key.of ELSE "none"]
          /\ net' = net \ {r}
    BY <1>8 DEF Settings!AnswerLoad, Settings!Pending, Settings!Without
  <2>2. PICK w : w = (IF ok THEN r.key.of ELSE "none")
    OBVIOUS
  <2>3. v = [u EXCEPT !.loading = FALSE, !.edited = FALSE, !.whose = w, !.table = w]
    BY <1>1, <2>1, <2>2
  <2>4. w \in Shown
    BY <1>2, <2>1, <2>2 DEF SettingsCall, Shown
  <2>5. SettingsTyped(v)
    BY <1>2, <2>3, <2>4 DEF SettingsTyped, SettingsFields
  <2> QED
    BY <1>2, <2>1, <2>5
<1>9. CASE Settings!Saved
  <2>1. PICK r \in net, ok \in BOOLEAN :
          /\ ui' = IF ok THEN [ui EXCEPT !.saving = FALSE, !.whose = r.key.of,
                                         !.table = r.key.of, !.edited = FALSE]
                   ELSE [ui EXCEPT !.saving = FALSE]
          /\ net' = net \ {r}
    BY <1>9 DEF Settings!Saved, Settings!Pending, Settings!Without
  <2>2. r.key.of \in Shown
    BY <1>2, <2>1 DEF SettingsCall
  <2>3. SettingsTyped(v)
    <3>1. CASE ok
      <4>1. v = [u EXCEPT !.saving = FALSE, !.whose = r.key.of, !.table = r.key.of,
                          !.edited = FALSE]
        BY <1>1, <2>1, <3>1
      <4> QED
        BY <1>2, <2>2, <4>1 DEF SettingsTyped, SettingsFields
    <3>2. CASE ~ok
      <4>1. v = [u EXCEPT !.saving = FALSE]
        BY <1>1, <2>1, <3>2
      <4> QED
        BY <1>2, <4>1 DEF SettingsTyped, SettingsFields
    <3> QED
      BY <3>1, <3>2
  <2> QED
    BY <1>2, <2>1, <2>3
<1>10. CASE Settings!SourceToggled
  <2>1. PICK r \in net, ok \in BOOLEAN :
          /\ ui' = [ui EXCEPT !.toggling = FALSE,
                              !.table = IF ok THEN r.key.of ELSE r.key.table]
          /\ net' = net \ {r}
    BY <1>10 DEF Settings!SourceToggled, Settings!Pending, Settings!Without
  <2>2. PICK w : w = (IF ok THEN r.key.of ELSE r.key.table)
    OBVIOUS
  <2>3. v = [u EXCEPT !.toggling = FALSE, !.table = w] /\ w \in Shown
    BY <1>1, <1>2, <2>1, <2>2 DEF SettingsCall
  <2>4. SettingsTyped(v)
    BY <1>2, <2>3 DEF SettingsTyped, SettingsFields
  <2> QED
    BY <1>2, <2>1, <2>4
<1> QED
  BY <1>3, <1>4, <1>5, <1>6, <1>7, <1>8, <1>9, <1>10 DEF Settings!Next

LEMMA SettingsTypesStay == ASSUME SettingsTypes, UNCHANGED vars PROVE SettingsTypes'
BY DEF vars, SettingsTypes, SettingsTyped

LEMMA SettingsIsTyped == ASSUME SettingsTypes PROVE Settings!TypeOK
BY DEF SettingsTypes, SettingsTyped, Shown, Settings!TypeOK

-----------------------------------------------------------------------------
(* Sources: the form is of the source that is selected.                        *)

FormIs(u) ==
  u.draft = SourceForm!Selected(u) \/ (u.draft = "new" /\ SourceForm!Selected(u) = "none")

SourceFields == {"list", "sel", "draft", "dirty", "loading", "saving", "notice"}

\* What is loaded after a save is for a stored source; one save is out at most.
SourceFormInv ==
  /\ DOMAIN ui = SourceFields /\ DOMAIN srv = {"sources"}
  /\ \A r \in net : DOMAIN r = {"id", "op", "key"}
  /\ \A r \in net : r.op = "saveLoad" => r.key \in SourceIds
  /\ SourceForm!TypeOK
  /\ FormIs(ui)
  /\ ui.loading => \E r \in net : r.op \in {"load", "saveLoad"}
  /\ ui.saving <=> \E r \in net : r.op \in {"save", "saveLoad"}
  /\ \A r, x \in net : {r.op, x.op} \subseteq {"save", "saveLoad"} => r = x

\* Nothing is selected and nothing drafted.
LEMMA SourceFormInit == SourceForm!Init => SourceFormInv
<1> SUFFICES ASSUME SourceForm!Init PROVE SourceFormInv
  OBVIOUS
<1>1. ui = [list |-> {}, sel |-> "none", draft |-> "none", dirty |-> FALSE, loading |-> TRUE,
            saving |-> FALSE, notice |-> "none"]
  BY DEF SourceForm!Init, SourceForm!Mounted
<1>2. net = {[id |-> 1, op |-> "load", key |-> "none"]}
  BY DEF SourceForm!Init
<1>3. PICK S \in SUBSET SourceIds : srv = [sources |-> S]
  BY DEF SourceForm!Init, SourceForm!Stored
<1>4. SourceForm!TypeOK
  BY <1>1, <1>3 DEF SourceForm!TypeOK
<1> QED
  BY <1>1, <1>2, <1>3, <1>4
     DEF SourceFormInv, FormIs, SourceFields, SourceForm!Selected

\* v is u with the form of what is selected.
FormDrawn(v, u) ==
  /\ DOMAIN v = SourceFields /\ FormIs(v)
  /\ v.draft \in SourceIds \cup {"none", u.draft} /\ v.dirty \in {u.dirty, FALSE}
  /\ \A f \in SourceFields \ {"draft", "dirty"} : v[f] = u[f]

\* The effect gives the draft of the selected source, and changes nothing else.
LEMMA SourceRedrafted ==
  ASSUME SourceFormInv, NEW u, DOMAIN u = SourceFields, u.list \subseteq SourceIds,
         u.draft = ui.draft \/ (u.draft = "new" /\ SourceForm!Selected(u) = "none")
  PROVE  FormDrawn(SourceForm!Redraft(u), u)
<1> PICK v : v = SourceForm!Redraft(u)
  OBVIOUS
<1>1. SourceForm!Selected(u) \in SourceIds \cup {"none"}
  BY DEF SourceForm!Selected
<1>2. CASE v = [u EXCEPT !.draft = SourceForm!Selected(u), !.dirty = FALSE]
  <2>1. /\ DOMAIN v = SourceFields /\ v.draft = SourceForm!Selected(u) /\ v.dirty = FALSE
        /\ \A f \in SourceFields \ {"draft", "dirty"} : v[f] = u[f]
    BY <1>2 DEF SourceFields
  <2>2. SourceForm!Selected(v) = SourceForm!Selected(u)
    BY <2>1 DEF SourceForm!Selected, SourceFields
  <2> QED
    BY <1>1, <2>1, <2>2 DEF FormIs, FormDrawn
<1>3. CASE v = u /\ SourceForm!Selected(u) = SourceForm!Selected(ui)
  BY <1>3 DEF FormIs, FormDrawn, SourceFormInv
<1> QED
  BY <1>2, <1>3 DEF SourceForm!Redraft

\* So does a list that was loaded.
LEMMA SourceReloaded ==
  ASSUME SourceFormInv, NEW u, DOMAIN u = SourceFields, u.list \subseteq SourceIds,
         u.draft = ui.draft
  PROVE  FormDrawn(SourceForm!Reloaded(u), u)
<1>1. CASE SourceForm!Selected(u) = "none"
  BY <1>1, SourceRedrafted DEF SourceForm!Reloaded
<1>2. CASE SourceForm!Selected(u) # "none"
  <2> PICK v : v = SourceForm!Reloaded(u)
    OBVIOUS
  <2>1. v = [u EXCEPT !.draft = SourceForm!Selected(u), !.dirty = FALSE]
    BY <1>2 DEF SourceForm!Reloaded
  <2>2. /\ DOMAIN v = SourceFields /\ v.draft = SourceForm!Selected(u) /\ v.dirty = FALSE
        /\ \A f \in SourceFields \ {"draft", "dirty"} : v[f] = u[f]
    BY <2>1 DEF SourceFields
  <2>3. SourceForm!Selected(v) = SourceForm!Selected(u)
    BY <2>2 DEF SourceForm!Selected, SourceFields
  <2>4. SourceForm!Selected(u) \in SourceIds
    BY <1>2 DEF SourceForm!Selected
  <2> QED
    BY <2>2, <2>3, <2>4 DEF FormIs, FormDrawn
<1> QED
  BY <1>1, <1>2

\* What is shown after an answer to a load, with s selected.
ListShown(v, u, s) ==
  /\ DOMAIN v = SourceFields /\ FormIs(v)
  /\ v.list \subseteq SourceIds /\ v.sel = s
  /\ v.draft \in SourceIds \cup {"none", "new"}
  /\ v.dirty \in BOOLEAN /\ v.loading = FALSE /\ v.saving = u.saving

\* The form follows the list and the selection of an answer, and of a failure.
LEMMA SourceListed ==
  ASSUME SourceFormInv, NEW u, DOMAIN u = SourceFields, u.draft = ui.draft,
         u.dirty = ui.dirty, NEW s \in SourceIds \cup {"none"}
  PROVE  /\ ListShown(SourceForm!WithList(u, srv.sources, s), u, s)
         /\ ListShown(SourceForm!WithoutList(u, s), u, s)
<1>0. /\ ui.draft \in SourceIds \cup {"none", "new"} /\ ui.dirty \in BOOLEAN
      /\ srv.sources \subseteq SourceIds
  BY DEF SourceFormInv, SourceForm!TypeOK
<1>1. ListShown(SourceForm!WithList(u, srv.sources, s), u, s)
  <2> PICK v : v = SourceForm!WithList(u, srv.sources, s)
    OBVIOUS
  <2>1. PICK w : w = [u EXCEPT !.list = srv.sources, !.loading = FALSE, !.notice = "none",
                               !.sel = s]
    OBVIOUS
  <2>2. /\ DOMAIN w = SourceFields /\ w.list = srv.sources /\ w.loading = FALSE /\ w.sel = s
        /\ w.draft = ui.draft /\ w.dirty = ui.dirty /\ w.saving = u.saving
    BY <2>1 DEF SourceFields
  <2>3. v = SourceForm!Reloaded(w)
    BY <2>1 DEF SourceForm!WithList
  <2>4. FormDrawn(v, w)
    BY <1>0, <2>2, <2>3, SourceReloaded
  <2> QED
    BY <1>0, <2>2, <2>4 DEF SourceFields, FormDrawn, ListShown
<1>2. ListShown(SourceForm!WithoutList(u, s), u, s)
  <2> PICK v : v = SourceForm!WithoutList(u, s)
    OBVIOUS
  <2>1. PICK w : w = [u EXCEPT !.list = {}, !.loading = FALSE, !.notice = "error", !.sel = s]
    OBVIOUS
  <2>2. /\ DOMAIN w = SourceFields /\ w.list = {} /\ w.loading = FALSE /\ w.sel = s
        /\ w.draft = ui.draft /\ w.dirty = ui.dirty /\ w.saving = u.saving
    BY <2>1 DEF SourceFields
  <2>3. v = SourceForm!Redraft(w)
    BY <2>1 DEF SourceForm!WithoutList
  <2>4. FormDrawn(v, w)
    BY <2>2, <2>3, SourceRedrafted
  <2> QED
    BY <1>0, <2>2, <2>4 DEF SourceFields, FormDrawn, ListShown
<1> QED
  BY <1>1, <1>2

\* The form stays while the list, the selection and the draft do.
LEMMA SourceFormStays ==
  ASSUME SourceFormInv, ui'.list = ui.list, ui'.sel = ui.sel, ui'.draft = ui.draft
  PROVE  FormIs(ui')
BY DEF SourceFormInv, FormIs, SourceForm!Selected

\* A request with another purpose is a request.
LEMMA SourceAsksNext ==
  ASSUME SourceFormInv, NEW r \in net, NEW op, NEW k
  PROVE  LET n == [r EXCEPT !.op = op, !.key = k]
         IN  DOMAIN n = {"id", "op", "key"} /\ n.op = op /\ n.key = k
BY DEF SourceFormInv

\* Whatever changes the list or the selection draws the form again.
LEMMA SourceFormStep == ASSUME SourceFormInv, SourceForm!Next PROVE SourceFormInv'
<1>0. /\ ui.list \subseteq SourceIds /\ srv.sources \subseteq SourceIds
      /\ ui.sel \in SourceIds \cup {"none"} /\ ui.draft \in SourceIds \cup {"none", "new"}
      /\ ui.loading \in BOOLEAN /\ ui.saving \in BOOLEAN /\ ui.dirty \in BOOLEAN
  BY DEF SourceFormInv, SourceForm!TypeOK
<1>1. CASE SourceForm!SelectSource
  <2>1. PICK s, u :
          /\ s \in ui.list
          /\ u = [ui EXCEPT !.sel = s] /\ ui' = SourceForm!Redraft(u)
    BY <1>1 DEF SourceForm!SelectSource
  <2>2. /\ DOMAIN u = SourceFields /\ u.sel = s
        /\ \A f \in SourceFields \ {"sel"} : u[f] = ui[f]
    BY <2>1 DEF SourceFormInv, SourceFields
  <2>3. /\ DOMAIN ui' = SourceFields /\ FormIs(ui')
        /\ ui'.draft \in SourceIds \cup {"none", u.draft} /\ ui'.dirty \in {u.dirty, FALSE}
        /\ \A f \in SourceFields \ {"draft", "dirty"} : ui'[f] = u[f]
    <3>1. u.list \subseteq SourceIds /\ u.draft = ui.draft
      BY <1>0, <2>2 DEF SourceFields
    <3> QED
      BY <2>1, <2>2, <3>1, SourceRedrafted DEF FormDrawn
  <2>4. SourceForm!TypeOK'
    BY <1>0, <1>1, <2>1, <2>2, <2>3
       DEF SourceForm!TypeOK, SourceFields, SourceForm!SelectSource
  <2> QED
    BY <1>1, <2>2, <2>3, <2>4 DEF SourceFormInv, SourceFields, SourceForm!SelectSource
<1>2. CASE SourceForm!CreateNew
  <2>1. PICK u : /\ u = [ui EXCEPT !.sel = "none", !.draft = "new", !.dirty = FALSE]
                 /\ ui' = SourceForm!Redraft(u)
    BY <1>2 DEF SourceForm!CreateNew
  <2>2. /\ DOMAIN u = SourceFields /\ u.sel = "none" /\ u.draft = "new" /\ u.dirty = FALSE
        /\ \A f \in SourceFields \ {"sel", "draft", "dirty"} : u[f] = ui[f]
    BY <2>1 DEF SourceFormInv, SourceFields
  <2>3. SourceForm!Selected(u) = "none" /\ u.list \subseteq SourceIds
    BY <1>0, <2>2 DEF SourceForm!Selected, SourceFields
  <2>4. /\ DOMAIN ui' = SourceFields /\ FormIs(ui')
        /\ ui'.draft \in SourceIds \cup {"none", u.draft} /\ ui'.dirty \in {u.dirty, FALSE}
        /\ \A f \in SourceFields \ {"draft", "dirty"} : ui'[f] = u[f]
    BY <2>1, <2>2, <2>3, SourceRedrafted DEF FormDrawn
  <2>5. SourceForm!TypeOK'
    BY <1>0, <1>2, <2>2, <2>4 DEF SourceForm!TypeOK, SourceFields, SourceForm!CreateNew
  <2> QED
    BY <1>2, <2>2, <2>4, <2>5 DEF SourceFormInv, SourceFields, SourceForm!CreateNew
<1>3. CASE SourceForm!UpdateDraft \/ SourceForm!ActOnNothing
  <2>1. /\ DOMAIN ui' = SourceFields /\ ui'.dirty \in {ui.dirty, TRUE}
        /\ \A f \in SourceFields \ {"dirty", "notice"} : ui'[f] = ui[f]
        /\ net' = net /\ srv' = srv
    BY <1>3 DEF SourceForm!UpdateDraft, SourceForm!ActOnNothing, SourceFormInv, SourceFields
  <2>2. SourceForm!TypeOK'
    BY <1>0, <2>1 DEF SourceForm!TypeOK, SourceFields
  <2>3. FormIs(ui')
    BY <2>1, SourceFormStays DEF SourceFields
  <2> QED
    BY <2>1, <2>2, <2>3 DEF SourceFormInv, SourceFields
<1>4. ASSUME NEW n, net' = net \cup {n}, DOMAIN n = {"id", "op", "key"}, DOMAIN ui' = SourceFields,
             \A f \in SourceFields \ {"loading", "saving", "notice"} : ui'[f] = ui[f], srv' = srv,
             \/ n.op = "load" /\ ui'.loading = TRUE /\ ui'.saving = ui.saving
             \/ n.op = "save" /\ ui'.loading = ui.loading /\ ~ui.saving /\ ui'.saving = TRUE
             \/ /\ n.op \in {"delete", "test", "run"}
                /\ ui'.loading = ui.loading /\ ui'.saving = ui.saving
      PROVE  SourceFormInv'
  <2>1. SourceForm!TypeOK'
    BY <1>0, <1>4 DEF SourceForm!TypeOK, SourceFields
  <2>2. FormIs(ui')
    BY <1>4, SourceFormStays DEF SourceFields
  <2>3. ui'.loading => \E r \in net' : r.op \in {"load", "saveLoad"}
    BY <1>4 DEF SourceFormInv
  <2>4. ui'.saving <=> \E r \in net' : r.op \in {"save", "saveLoad"}
    BY <1>4 DEF SourceFormInv
  <2>5. \A r, x \in net' : {r.op, x.op} \subseteq {"save", "saveLoad"} => r = x
    BY <1>4 DEF SourceFormInv
  <2> QED
    BY <1>4, <2>1, <2>2, <2>3, <2>4, <2>5 DEF SourceFormInv
<1>5. CASE SourceForm!Refresh
  <2>1. PICK n : n = [id |-> SourceForm!Fresh, op |-> "load", key |-> "none"]
    OBVIOUS
  <2>2. /\ net' = net \cup {n} /\ srv' = srv /\ DOMAIN ui' = SourceFields /\ ui'.loading = TRUE
        /\ \A f \in SourceFields \ {"loading"} : ui'[f] = ui[f]
    BY <1>5, <2>1 DEF SourceForm!Refresh, SourceForm!Load, SourceForm!Sent, SourceFormInv,
                      SourceFields
  <2> QED
    BY <1>4, <2>1, <2>2 DEF SourceFields
<1>6. CASE SourceForm!Save
  <2>1. PICK n : n = [id |-> SourceForm!Fresh, op |-> "save", key |-> ui.draft]
    OBVIOUS
  <2>2. /\ net' = net \cup {n} /\ srv' = srv /\ ~ui.saving
        /\ DOMAIN ui' = SourceFields /\ ui'.saving = TRUE
        /\ \A f \in SourceFields \ {"saving"} : ui'[f] = ui[f]
    BY <1>6, <2>1 DEF SourceForm!Save, SourceForm!Sent, SourceFormInv, SourceFields
  <2> QED
    BY <1>4, <2>1, <2>2 DEF SourceFields
<1>7. CASE SourceForm!Act
  <2>0. PICK kind \in {"delete", "test", "run"} :
          /\ net' = net \cup {[id |-> SourceForm!Fresh, op |-> kind, key |-> ui.draft]}
          /\ srv' = srv /\ (ui' = [ui EXCEPT !.notice = "info"] \/ ui' = ui)
    BY <1>7 DEF SourceForm!Act, SourceForm!Sent
  <2>1. PICK n :
          /\ n = [id |-> SourceForm!Fresh, op |-> kind, key |-> ui.draft]
          /\ net' = net \cup {n} /\ srv' = srv
          /\ ui' = [ui EXCEPT !.notice = "info"] \/ ui' = ui
    BY <2>0
  <2>2. /\ DOMAIN ui' = SourceFields
        /\ \A f \in SourceFields \ {"notice"} : ui'[f] = ui[f]
    BY <2>1 DEF SourceFormInv, SourceFields
  <2>3. n.op \in {"delete", "test", "run"} /\ DOMAIN n = {"id", "op", "key"}
    BY <2>1
  <2> QED
    BY <1>4, <2>1, <2>2, <2>3 DEF SourceFields
<1>8. CASE SourceForm!AnswerLoad
  <2>1. PICK r, s :
          /\ r \in net
          /\ r.op = "load" /\ net' = net \ {r} /\ srv' = srv /\ s \in SourceIds \cup {"none"}
          /\ \/ ui' = SourceForm!WithList(ui, srv.sources, s)
             \/ ui' = SourceForm!WithoutList(ui, s)
    BY <1>0, <1>8
       DEF SourceForm!AnswerLoad, SourceForm!Choice, SourceForm!Pending, SourceForm!Without
  <2>2. /\ DOMAIN ui' = SourceFields /\ FormIs(ui')
        /\ ui'.list \subseteq SourceIds /\ ui'.sel = s
        /\ ui'.draft \in SourceIds \cup {"none", "new"}
        /\ ui'.dirty \in BOOLEAN /\ ui'.loading = FALSE /\ ui'.saving = ui.saving
    <3>1. PICK v, u : v = ui' /\ u = ui
      OBVIOUS
    <3>2. /\ DOMAIN u = SourceFields /\ u.draft = ui.draft /\ u.dirty = ui.dirty
          /\ s \in SourceIds \cup {"none"}
          /\ \/ v = SourceForm!WithList(u, srv.sources, s)
             \/ v = SourceForm!WithoutList(u, s)
      BY <2>1, <3>1 DEF SourceFormInv
    <3>3. ListShown(v, u, s)
      BY <3>2, SourceListed
    <3> QED
      BY <3>1, <3>3 DEF ListShown
  <2>3. SourceForm!TypeOK'
    BY <1>0, <2>1, <2>2 DEF SourceForm!TypeOK
  <2>4. ui'.saving <=> \E x \in net' : x.op \in {"save", "saveLoad"}
    BY <2>1, <2>2 DEF SourceFormInv
  <2> QED
    BY <2>1, <2>2, <2>3, <2>4 DEF SourceFormInv
<1>9. CASE SourceForm!AnswerSaveLoad
  <2>1. PICK r, u :
          /\ r \in net
          /\ r.op = "saveLoad" /\ net' = net \ {r} /\ srv' = srv
          /\ u = [ui EXCEPT !.saving = FALSE]
          /\ \/ ui' = SourceForm!WithList(u, srv.sources, r.key)
             \/ ui' = SourceForm!WithoutList(u, r.key)
    BY <1>9 DEF SourceForm!AnswerSaveLoad, SourceForm!Pending, SourceForm!Without
  <2>2. /\ DOMAIN u = SourceFields /\ u.draft = ui.draft /\ u.dirty = ui.dirty
        /\ u.saving = FALSE
    BY <2>1 DEF SourceFormInv, SourceFields
  <2>3. r.key \in SourceIds
    BY <2>1 DEF SourceFormInv
  <2>4. /\ DOMAIN ui' = SourceFields /\ FormIs(ui')
        /\ ui'.list \subseteq SourceIds /\ ui'.sel = r.key
        /\ ui'.draft \in SourceIds \cup {"none", "new"}
        /\ ui'.dirty \in BOOLEAN /\ ui'.loading = FALSE /\ ui'.saving = u.saving
    <3>1. PICK v, k : v = ui' /\ k = r.key
      OBVIOUS
    <3>2. /\ k \in SourceIds \cup {"none"}
          /\ \/ v = SourceForm!WithList(u, srv.sources, k)
             \/ v = SourceForm!WithoutList(u, k)
      BY <2>1, <2>3, <3>1
    <3>3. ListShown(v, u, k)
      BY <2>2, <3>2, SourceListed
    <3> QED
      BY <3>1, <3>3 DEF ListShown
  <2>5. SourceForm!TypeOK'
    BY <1>0, <2>1, <2>2, <2>3, <2>4 DEF SourceForm!TypeOK
  <2>6. \A x \in net' : x \in net /\ x.op \notin {"save", "saveLoad"}
    BY <2>1 DEF SourceFormInv
  <2> QED
    BY <2>1, <2>2, <2>4, <2>5, <2>6 DEF SourceFormInv
<1>10. ASSUME NEW r \in net, NEW n, net' = (net \ {r}) \cup {n}, DOMAIN n = {"id", "op", "key"},
              DOMAIN ui' = SourceFields, ui'.saving = ui.saving,
              \A f \in SourceFields \ {"loading", "notice"} : ui'[f] = ui[f],
              DOMAIN srv' = {"sources"}, srv'.sources \subseteq SourceIds,
              \/ /\ r.op = "save" /\ n.op = "saveLoad" /\ n.key \in SourceIds
                 /\ ui'.loading = TRUE
              \/ r.op \in {"delete", "test", "runs"} /\ n.op = "load" /\ ui'.loading = TRUE
              \/ r.op = "run" /\ n.op = "runs" /\ ui'.loading = ui.loading
       PROVE  SourceFormInv'
  <2>1. SourceForm!TypeOK'
    BY <1>0, <1>10 DEF SourceForm!TypeOK, SourceFields
  <2>2. FormIs(ui')
    BY <1>10, SourceFormStays DEF SourceFields
  <2>3. ui'.loading => \E x \in net' : x.op \in {"load", "saveLoad"}
    BY <1>10 DEF SourceFormInv
  <2>4. ui'.saving <=> \E x \in net' : x.op \in {"save", "saveLoad"}
    BY <1>10 DEF SourceFormInv
  <2>5. \A x, y \in net' : {x.op, y.op} \subseteq {"save", "saveLoad"} => x = y
    BY <1>10 DEF SourceFormInv
  <2> QED
    BY <1>10, <2>1, <2>2, <2>3, <2>4, <2>5 DEF SourceFormInv
<1>11. CASE SourceForm!Saved
  <2>1. PICK r, s, n :
          /\ r \in net
          /\ r.op = "save" /\ s \in SourceIds
          /\ srv' = [srv EXCEPT !.sources = @ \cup {s}]
          /\ ui' = [ui EXCEPT !.notice = "success", !.loading = TRUE]
          /\ net' = (net \ {r}) \cup {n} /\ n = [r EXCEPT !.op = "saveLoad", !.key = s]
    BY <1>0, <1>11
       DEF SourceForm!Saved, SourceForm!Load, SourceForm!Pending, SourceForm!Without
  <2>2. DOMAIN n = {"id", "op", "key"} /\ n.op = "saveLoad" /\ n.key = s
    BY <2>1, SourceAsksNext
  <2>3. /\ DOMAIN ui' = SourceFields /\ ui'.loading = TRUE /\ ui'.saving = ui.saving
        /\ \A f \in SourceFields \ {"loading", "notice"} : ui'[f] = ui[f]
    BY <2>1 DEF SourceFormInv, SourceFields
  <2>4. DOMAIN srv' = {"sources"} /\ srv'.sources \subseteq SourceIds
    BY <1>0, <2>1 DEF SourceFormInv
  <2> QED
    BY <1>10, <2>1, <2>2, <2>3, <2>4
<1>12. CASE SourceForm!ActDone
  <2>0. PICK r \in net :
          /\ r.op \in {"delete", "test"}
          /\ srv' = [srv EXCEPT !.sources = IF r.op = "delete" THEN @ \ {r.key} ELSE @]
          /\ ui' = SourceForm!Load([ui EXCEPT !.notice = "success"])
          /\ net' = SourceForm!Without(r) \cup {[r EXCEPT !.op = "load", !.key = "none"]}
    BY <1>12 DEF SourceForm!ActDone, SourceForm!Pending
  <2>1. PICK n :
          /\ ui' = [ui EXCEPT !.notice = "success", !.loading = TRUE]
          /\ net' = (net \ {r}) \cup {n} /\ n = [r EXCEPT !.op = "load", !.key = "none"]
    BY <2>0 DEF SourceForm!Load, SourceForm!Without
  <2>2. DOMAIN n = {"id", "op", "key"} /\ n.op = "load"
    BY <2>1, SourceAsksNext
  <2>3. /\ DOMAIN ui' = SourceFields /\ ui'.loading = TRUE /\ ui'.saving = ui.saving
        /\ \A f \in SourceFields \ {"loading", "notice"} : ui'[f] = ui[f]
    BY <2>1 DEF SourceFormInv, SourceFields
  <2>4. DOMAIN srv' = {"sources"} /\ srv'.sources \subseteq SourceIds
    BY <1>0, <2>0 DEF SourceFormInv
  <2>5. r.op \in {"delete", "test", "runs"} /\ net' = (net \ {r}) \cup {n}
    BY <2>0, <2>1
  <2> QED
    BY <1>10, <2>2, <2>3, <2>4, <2>5
<1>15. CASE SourceForm!RunsRead
  <2>1. PICK r, n :
          /\ r \in net
          /\ r.op = "runs" /\ srv' = srv /\ ui' = [ui EXCEPT !.loading = TRUE]
          /\ net' = (net \ {r}) \cup {n} /\ n = [r EXCEPT !.op = "load", !.key = "none"]
    BY <1>15
       DEF SourceForm!RunsRead, SourceForm!Load, SourceForm!Pending, SourceForm!Without
  <2>2. DOMAIN n = {"id", "op", "key"} /\ n.op = "load"
    BY <2>1, SourceAsksNext
  <2>3. /\ DOMAIN ui' = SourceFields /\ ui'.loading = TRUE /\ ui'.saving = ui.saving
        /\ \A f \in SourceFields \ {"loading", "notice"} : ui'[f] = ui[f]
    BY <2>1 DEF SourceFormInv, SourceFields
  <2>4. DOMAIN srv' = {"sources"} /\ srv'.sources \subseteq SourceIds
    BY <1>0, <2>1 DEF SourceFormInv
  <2> QED
    BY <1>10, <2>1, <2>2, <2>3, <2>4
<1>13. CASE SourceForm!RunQueued
  <2>1. PICK r, n :
          /\ r \in net
          /\ r.op = "run" /\ srv' = srv /\ ui' = [ui EXCEPT !.notice = "success"]
          /\ net' = (net \ {r}) \cup {n} /\ n = [r EXCEPT !.op = "runs"]
    BY <1>13 DEF SourceForm!RunQueued, SourceForm!Pending, SourceForm!Without
  <2>2. DOMAIN n = {"id", "op", "key"} /\ n.op = "runs"
    BY <2>1 DEF SourceFormInv
  <2>3. /\ DOMAIN ui' = SourceFields /\ ui'.loading = ui.loading /\ ui'.saving = ui.saving
        /\ \A f \in SourceFields \ {"loading", "notice"} : ui'[f] = ui[f]
    BY <2>1 DEF SourceFormInv, SourceFields
  <2>4. DOMAIN srv' = {"sources"} /\ srv'.sources \subseteq SourceIds
    BY <1>0, <2>1 DEF SourceFormInv
  <2> QED
    BY <1>10, <2>1, <2>2, <2>3, <2>4
<1>14. CASE SourceForm!SaveFails \/ SourceForm!ActFails
  <2>1. PICK r \in net :
          /\ net' = net \ {r} /\ srv' = srv
          /\ \/ r.op = "save" /\ ui' = [ui EXCEPT !.notice = "error", !.saving = FALSE]
             \/ /\ r.op \in {"delete", "test", "run"}
                /\ ui' = [ui EXCEPT !.notice = "error"]
    BY <1>14 DEF SourceForm!SaveFails, SourceForm!ActFails, SourceForm!Pending,
                 SourceForm!Without
  <2>2. /\ DOMAIN ui' = SourceFields
        /\ \A f \in SourceFields \ {"saving", "notice"} : ui'[f] = ui[f]
        /\ ui'.saving = IF r.op = "save" THEN FALSE ELSE ui.saving
    BY <2>1 DEF SourceFormInv, SourceFields
  <2>3. SourceForm!TypeOK'
    BY <1>0, <2>1, <2>2 DEF SourceForm!TypeOK, SourceFields
  <2>4. FormIs(ui')
    BY <2>2, SourceFormStays DEF SourceFields
  <2>5. ui'.saving <=> \E x \in net' : x.op \in {"save", "saveLoad"}
    BY <2>1, <2>2 DEF SourceFormInv
  <2>6. ui'.loading => \E x \in net' : x.op \in {"load", "saveLoad"}
    BY <2>1, <2>2 DEF SourceFormInv, SourceFields
  <2> QED
    BY <2>1, <2>2, <2>3, <2>4, <2>5, <2>6 DEF SourceFormInv
<1> QED
  BY <1>1, <1>2, <1>3, <1>5, <1>6, <1>7, <1>8, <1>9, <1>11, <1>12, <1>13, <1>14, <1>15
     DEF SourceForm!Next

\* Nothing changes while the page is left alone.
LEMMA SourceFormUnchanged == ASSUME SourceFormInv, UNCHANGED vars PROVE SourceFormInv'
BY DEF vars, SourceFormInv, SourceForm!TypeOK

\* What the invariant says of the page.
LEMMA SourceFormHolds ==
  ASSUME SourceFormInv
  PROVE  /\ SourceForm!TypeOK /\ SourceForm!BusyIsAwaited /\ SourceForm!FormIsOfSelected
         /\ SourceForm!OneWrite
<1>1. SourceForm!BusyIsAwaited
  BY DEF SourceFormInv, SourceForm!BusyIsAwaited, SourceForm!Pending
<1>2. SourceForm!FormIsOfSelected
  BY DEF SourceFormInv, SourceForm!FormIsOfSelected, FormIs
<1>3. SourceForm!OneWrite
  <2>1. PICK S : S = SourceForm!Pending("save") \cup SourceForm!Pending("saveLoad")
    OBVIOUS
  <2>2. \A r, x \in S : r = x
    BY <2>1 DEF SourceFormInv, SourceForm!Pending
  <2>3. Cardinality(S) <= 1
    BY <2>2, LoneCardinality
  <2> QED
    BY <2>1, <2>3 DEF SourceForm!OneWrite, SourceForm!Cardinality, Cardinality
<1> QED
  BY <1>1, <1>2, <1>3 DEF SourceFormInv

-----------------------------------------------------------------------------
(* SourceParser: the parser that is held is that of the selected source, unless *)
(* a request crossed a change of the selection.  The fields have their types    *)
(* (ParserTypes); a flag waits for a call, and one write is under way at a time *)
(* unless one is by the key (ParserWaits); and while nothing crossed, every     *)
(* call that fills the form is for the selected source (ParserHeld).            *)

ParserFields == {"list", "sel", "def", "revs", "ticked", "editor", "loading", "saving",
                 "comparing", "keyed", "crossed"}
ParserReads   == {"parser", "revisions"}
ParserWrites  == {"create", "update", "rollback", "foreign", "saved", "rolledBack", "sources"}
ParserLists   == {"list", "sources"}
ParserParsing == {"parser", "create", "update", "rollback"}

ParserCall(r) ==
  /\ DOMAIN r = {"id", "op", "key"}
  /\ r.op \in ParserReads \cup ParserWrites \cup {"delete"} => r.key \in SourceIds

\* The sequences of two elements of S at most.
TwoOf(S) == {<< >>} \cup {<<a>> : a \in S} \cup {<<a, b>> : a \in S, b \in S}

\* The write that the key of the editor captured.
ParserKey(e) ==
  e # ParserForm!Unmounted => e.op \in {"create", "update"} /\ e.key \in SourceIds

ParserShape(u) ==
  /\ DOMAIN u = ParserFields
  /\ u.list \subseteq SourceIds
  /\ u.def \in SourceIds \cup {"none"} /\ u.revs \in SourceIds \cup {"none"}
  /\ u.ticked \in TwoOf(SourceIds \X Nat)
  /\ ParserKey(u.editor)
  /\ \A k \in {"loading", "saving", "comparing", "keyed", "crossed"} : u[k] \in BOOLEAN

ParserTypes(u) == ParserShape(u) /\ u.sel \in u.list \cup {"none"}

ParserStored(s) ==
  /\ DOMAIN s = {"there", "last"} /\ s.there \subseteq SourceIds
  /\ s.last \in [SourceIds -> 0..MaxRevision]

\* What a state u of the page waits for is among its calls N; one write at a time,
\* of which the flag tells, but for the writes by the key.
ParserWaits(u, N) ==
  /\ \A r \in N : ParserCall(r)
  /\ u.loading => \E r \in N : r.op \in ParserReads
  /\ u.saving => \E r \in N : r.op \in ParserWrites
  /\ u.comparing => \E r \in N : r.op = "diff"
  /\ \/ u.keyed
     \/ /\ \A r \in N : r.op \in ParserWrites => u.saving
        /\ \A r, x \in N : {r.op, x.op} \subseteq ParserWrites => r = x

\* What a state u of the page with the calls N holds, when f tells the revisions.
ParserHeld(u, f, N) ==
  \/ u.crossed
  \/ /\ \A r \in N : r.op \in ParserParsing => r.key = u.sel
     /\ \/ u.def = "none"
        \/ \E r \in N : r.op = "parser"
        \/ u.def = u.sel /\ (f[u.def] > 0 \/ \E r \in N : r.op \in ParserLists)

ParserInv ==
  /\ ParserStored(srv)
  /\ ParserTypes(ui)
  /\ ParserWaits(ui, net)
  /\ ParserHeld(ui, srv.last, net)

\* Nothing is held, and the list of the sources is on its way.
LEMMA ParserFormInit == ParserForm!Init => ParserInv
<1> SUFFICES ASSUME ParserForm!Init PROVE ParserInv
  OBVIOUS
<1>1. ui = [list |-> {}, sel |-> "none", def |-> "none", revs |-> "none", ticked |-> << >>,
            editor |-> ParserForm!Unmounted, loading |-> FALSE, saving |-> FALSE,
            comparing |-> FALSE, keyed |-> FALSE, crossed |-> FALSE]
  BY DEF ParserForm!Init, ParserForm!Mounted
<1>2. PICK n : n = [id |-> 1, op |-> "list", key |-> "none"] /\ net = {n}
  BY DEF ParserForm!Init
<1>3. PICK f \in [SourceIds -> {0, 1}] : srv = [there |-> SourceIds, last |-> f]
  BY DEF ParserForm!Init, ParserForm!Stored
<1>4. MaxRevision \in Nat \ {0}
  BY FrontendAssumption DEF ParserForm!ParserAssumption
<1>5. ParserStored(srv)
  BY <1>3, <1>4 DEF ParserStored
<1>6. /\ DOMAIN ui = ParserFields /\ ui.list = {} /\ ui.sel = "none" /\ ui.def = "none"
      /\ ui.revs = "none" /\ ui.ticked = << >> /\ ui.editor = ParserForm!Unmounted
      /\ ui.loading = FALSE /\ ui.saving = FALSE
      /\ ui.comparing = FALSE /\ ui.keyed = FALSE /\ ui.crossed = FALSE
  BY <1>1 DEF ParserFields
<1>7. ParserTypes(ui)
  <2>1. \A k \in {"loading", "saving", "comparing", "keyed", "crossed"} : ui[k] \in BOOLEAN
    BY <1>6
  <2>2. ParserKey(ui.editor) /\ ui.ticked \in TwoOf(SourceIds \X Nat)
    BY <1>6 DEF ParserKey, TwoOf
  <2> QED
    BY <1>6, <2>1, <2>2 DEF ParserTypes, ParserShape
<1>8. DOMAIN n = {"id", "op", "key"} /\ n.op = "list"
  BY <1>2
<1>9. ParserWaits(ui, net)
  BY <1>2, <1>6, <1>8 DEF ParserWaits, ParserCall, ParserReads, ParserWrites
<1>10. ParserHeld(ui, srv.last, net)
  BY <1>2, <1>6, <1>8 DEF ParserHeld, ParserParsing
<1> QED
  BY <1>5, <1>7, <1>9, <1>10 DEF ParserInv

\* A call more, of which the page waits for the answer, or does not.
LEMMA ParserSends ==
  ASSUME NEW u, NEW v, NEW N, NEW n, ParserWaits(u, N), ParserCall(n),
         \/ /\ n.op \in ParserReads
            /\ v.saving = u.saving /\ v.comparing = u.comparing /\ v.keyed = u.keyed
         \/ /\ n.op \in ParserWrites /\ v.saving = TRUE
            /\ v.loading = u.loading /\ v.comparing = u.comparing
            /\ v.keyed \/ \A r \in N : r.op \notin ParserWrites
         \/ /\ n.op \in {"diff", "list", "delete"}
            /\ v.loading = u.loading /\ v.saving = u.saving /\ v.keyed = u.keyed
            /\ v.comparing = u.comparing \/ n.op = "diff"
  PROVE  ParserWaits(v, N \cup {n})
BY DEF ParserWaits, ParserReads, ParserWrites

\* A call that was answered and is over.
LEMMA ParserEnds ==
  ASSUME NEW u, NEW v, NEW N, NEW r \in N, ParserWaits(u, N), v.keyed = u.keyed,
         \/ /\ r.op \in ParserReads
            /\ ~v.loading /\ v.saving = u.saving /\ v.comparing = u.comparing
         \/ /\ r.op \in ParserWrites
            /\ v.loading = u.loading /\ v.saving = FALSE /\ v.comparing = u.comparing
         \/ /\ r.op = "diff"
            /\ v.loading = u.loading /\ v.saving = u.saving /\ ~v.comparing
         \/ /\ r.op \in {"list", "delete"}
            /\ v.loading = u.loading /\ v.saving = u.saving /\ v.comparing = u.comparing
  PROVE  ParserWaits(v, N \ {r})
BY DEF ParserWaits, ParserReads, ParserWrites

\* A call whose answer is followed by another.
LEMMA ParserGoesOn ==
  ASSUME NEW u, NEW v, NEW N, NEW r \in N, NEW n, ParserWaits(u, N), ParserCall(n),
         v.comparing = u.comparing, v.keyed = u.keyed,
         \/ /\ v.loading = u.loading /\ v.saving = u.saving
            /\ \/ {r.op, n.op} \subseteq ParserReads
               \/ {r.op, n.op} \subseteq ParserWrites
               \/ r.op = "delete" /\ n.op = "list"
         \/ r.op = "list" /\ n.op \in ParserReads /\ v.saving = u.saving
         \/ r.op = "sources" /\ n.op \in ParserReads /\ v.saving = FALSE
  PROVE  ParserWaits(v, (N \ {r}) \cup {n})
BY DEF ParserWaits, ParserReads, ParserWrites

\* Other calls M, with none that fills the form for another source, and the loads
\* that were out still out or followed by one.
LEMMA ParserKeeps ==
  ASSUME NEW u, NEW v, NEW f, NEW N, NEW M, ParserHeld(u, f, N),
         v.crossed = u.crossed, v.sel = u.sel, v.def \in {u.def, "none"},
         \A r \in M : r.op \in ParserParsing => r \in N \/ r.key = u.sel,
         \A r \in N : r.op = "parser" => v.def = "none" \/ \E x \in M : x.op = "parser",
         \A r \in N : r.op \in ParserLists => \E x \in M : x.op \in ParserLists \cup {"parser"}
  PROVE  ParserHeld(v, f, M)
BY DEF ParserHeld

\* A call for the parser of the source that is selected by now.
LEMMA ParserAsked ==
  ASSUME NEW u, NEW v, NEW f, NEW N, NEW M, NEW n, ParserHeld(u, f, N),
         n.op = "parser", n.key = v.sel, M \subseteq N,
         v.crossed \/ (~u.crossed /\ (v.sel = u.sel \/ \A r \in N : r.op \notin ParserParsing))
  PROVE  ParserHeld(v, f, M \cup {n})
BY DEF ParserHeld

\* A form that is filled with the parser of the selected source, or emptied.
LEMMA ParserFilled ==
  ASSUME NEW v, NEW f, NEW M,
         v.crossed \/ \A r \in M : r.op \in ParserParsing => r.key = v.sel,
         v.crossed \/ v.def = "none" \/ (v.def = v.sel /\ f[v.def] > 0)
  PROVE  ParserHeld(v, f, M)
BY DEF ParserHeld

\* A step that leaves what is stored as it is.
LEMMA ParserQuiet ==
  ASSUME ParserInv, UNCHANGED srv, ParserTypes(ui'), ParserWaits(ui', net'),
         ParserHeld(ui', srv.last, net')
  PROVE  ParserInv'
BY DEF ParserInv, ParserStored, ParserTypes, ParserShape, ParserWaits, ParserHeld, ParserCall,
       ParserKey

\* The form with the parser p, or emptied.
LEMMA ParserHydrated ==
  ASSUME NEW u, ParserTypes(u), NEW p \in SourceIds \cup {"none"}
  PROVE  LET v == ParserForm!Hydrated(u, p)
         IN  /\ ParserTypes(v) /\ v.def = p
             /\ v.list = u.list /\ v.sel = u.sel /\ v.editor = u.editor
             /\ v.loading = u.loading /\ v.saving = u.saving /\ v.comparing = u.comparing
             /\ v.keyed = u.keyed /\ v.crossed = u.crossed
<1>1. PICK v : v = ParserForm!Hydrated(u, p)
  OBVIOUS
<1>2. DOMAIN u = ParserFields
  BY DEF ParserTypes, ParserShape
<1>3. /\ DOMAIN v = ParserFields /\ v.def = p /\ v.revs = "none" /\ v.ticked = << >>
      /\ \A k \in ParserFields \ {"def", "revs", "ticked"} : v[k] = u[k]
  BY <1>1, <1>2 DEF ParserForm!Hydrated, ParserFields
<1>4. /\ v.list = u.list /\ v.sel = u.sel /\ v.editor = u.editor
      /\ v.loading = u.loading /\ v.saving = u.saving /\ v.comparing = u.comparing
      /\ v.keyed = u.keyed /\ v.crossed = u.crossed
  BY <1>3 DEF ParserFields
<1>5. << >> \in TwoOf(SourceIds \X Nat)
  BY DEF TwoOf
<1>6. ParserTypes(v)
  BY <1>3, <1>4, <1>5 DEF ParserTypes, ParserShape
<1> QED
  BY <1>1, <1>3, <1>4, <1>6

\* What an answer leaves of a load that is over: the flag is lowered.
LEMMA ParserLoaded ==
  ASSUME NEW u, ParserTypes(u)
  PROVE  LET v == [u EXCEPT !.loading = FALSE]
         IN  /\ ParserTypes(v) /\ v.loading = FALSE
             /\ v.def = u.def /\ v.sel = u.sel /\ v.saving = u.saving
             /\ v.comparing = u.comparing /\ v.keyed = u.keyed /\ v.crossed = u.crossed
<1>1. PICK v : v = [u EXCEPT !.loading = FALSE]
  OBVIOUS
<1>2. DOMAIN u = ParserFields
  BY DEF ParserTypes, ParserShape
<1>3. /\ DOMAIN v = ParserFields /\ v.loading = FALSE
      /\ \A k \in ParserFields \ {"loading"} : v[k] = u[k]
  BY <1>1, <1>2 DEF ParserFields
<1>4. /\ v.list = u.list /\ v.sel = u.sel /\ v.editor = u.editor
      /\ v.def = u.def /\ v.revs = u.revs /\ v.ticked = u.ticked
      /\ v.saving = u.saving /\ v.comparing = u.comparing
      /\ v.keyed = u.keyed /\ v.crossed = u.crossed
  BY <1>3 DEF ParserFields
<1>5. ParserTypes(v)
  BY <1>3, <1>4 DEF ParserTypes, ParserShape
<1> QED
  BY <1>1, <1>3, <1>4, <1>5

\* Another selection: the history notes a request that it crosses.
LEMMA ParserSelects ==
  ASSUME ParserInv, NEW u, ParserShape(u), NEW s \in u.list \cup {"none"}
  PROVE  LET v == ParserForm!Select(u, s)
         IN  /\ ParserTypes(v) /\ v.sel = s
             /\ v.list = u.list /\ v.def = u.def /\ v.editor = u.editor
             /\ v.loading = u.loading /\ v.saving = u.saving /\ v.comparing = u.comparing
             /\ v.keyed = u.keyed
             /\ v.crossed \/ (~u.crossed /\ (s = u.sel \/ \A r \in net : r.op \notin ParserParsing))
             /\ u.crossed => v.crossed
<1>1. PICK v, P : v = ParserForm!Select(u, s) /\ P = ParserForm!Parsing
  OBVIOUS
<1>2. DOMAIN u = ParserFields
  BY DEF ParserShape
<1>3. v = [u EXCEPT !.sel = s, !.crossed = @ \/ (s # u.sel /\ P # {})]
  BY <1>1 DEF ParserForm!Select
<1>4. /\ DOMAIN v = ParserFields /\ v.sel = s
      /\ v.crossed = (u.crossed \/ (s # u.sel /\ P # {}))
      /\ \A k \in ParserFields \ {"sel", "crossed"} : v[k] = u[k]
  BY <1>2, <1>3, Zenon DEF ParserFields
<1>5. /\ v.list = u.list /\ v.def = u.def /\ v.editor = u.editor
      /\ v.revs = u.revs /\ v.ticked = u.ticked
      /\ v.loading = u.loading /\ v.saving = u.saving /\ v.comparing = u.comparing
      /\ v.keyed = u.keyed
  BY <1>4 DEF ParserFields
<1>6. v.crossed \in BOOLEAN /\ u.crossed \in BOOLEAN
  BY <1>4 DEF ParserShape
<1>7. ParserTypes(v)
  BY <1>4, <1>5, <1>6 DEF ParserTypes, ParserShape
<1>8. P = {} => \A r \in net : r.op \notin ParserParsing
  BY <1>1 DEF ParserForm!Parsing, ParserForm!Pending, ParserParsing
<1>9. /\ v.crossed \/ (~u.crossed /\ (s = u.sel \/ \A r \in net : r.op \notin ParserParsing))
      /\ u.crossed => v.crossed
  BY <1>4, <1>8
<1> QED
  BY <1>1, <1>4, <1>5, <1>7, <1>9

\* One element and another.
LEMMA AppendToOne ==
  ASSUME NEW a, NEW x
  PROVE  Append(<<a>>, x) = <<a, x>>
<1>1. PICK S, t : S = {a, x} /\ t = Append(<<a>>, x)
  OBVIOUS
<1>2. <<a>> \in Seq(S) /\ x \in S /\ Len(<<a>>) = 1
  BY <1>1
<1>3. t \in Seq(S)
  BY <1>1, <1>2
<1>4. Len(t) = 2 /\ t[1] = a /\ t[2] = x
  BY <1>1, <1>2
<1>5. t \in [1..Len(t) -> S]
  BY <1>3
<1>6. Len(t) = 2
  BY <1>4
<1>7. t \in [1..2 -> S]
  BY <1>5, <1>6, Zenon
<1>8. t = <<a, x>>
  BY <1>4, <1>7
<1> QED
  BY <1>1, <1>8

\* A revision more or less is ticked, two at most.
LEMMA ParserTicks ==
  ASSUME NEW S, NEW s \in TwoOf(S), NEW x \in S
  PROVE  ParserForm!Toggled(s, x) \in TwoOf(S)
<1>1. CASE s = << >>
  <2>1. ParserForm!Toggled(s, x) = <<x>>
    BY <1>1 DEF ParserForm!Toggled
  <2> QED
    BY <2>1 DEF TwoOf
<1>2. ASSUME NEW a \in S, s = <<a>> PROVE ParserForm!Toggled(s, x) \in TwoOf(S)
  <2>1. DOMAIN s = {1} /\ s[1] = a /\ Len(s) = 1
    BY <1>2
  <2>2. CASE a = x
    <3>1. ParserForm!Toggled(s, x) = << >>
      BY <2>1, <2>2 DEF ParserForm!Toggled
    <3> QED
      BY <3>1 DEF TwoOf
  <2>3. CASE a # x
    <3>1. ParserForm!Toggled(s, x) = Append(s, x)
      BY <2>1, <2>3 DEF ParserForm!Toggled
    <3>2. Append(<<a>>, x) = <<a, x>>
      BY AppendToOne
    <3> QED
      BY <1>2, <3>1, <3>2 DEF TwoOf
  <2> QED
    BY <2>2, <2>3
<1>3. ASSUME NEW a \in S, NEW b \in S, s = <<a, b>>
      PROVE  ParserForm!Toggled(s, x) \in TwoOf(S)
  <2>1. DOMAIN s = {1, 2} /\ s[1] = a /\ s[2] = b /\ Len(s) = 2
    BY <1>3
  <2>2. ParserForm!Toggled(s, x) \in {<<b>>, <<a>>, <<b, x>>}
    BY <1>3, <2>1 DEF ParserForm!Toggled
  <2> QED
    BY <2>2 DEF TwoOf
<1> QED
  BY <1>1, <1>2, <1>3 DEF TwoOf

\* What the invariant says of a state, with the names the steps use.
LEMMA ParserFacts ==
  ASSUME ParserInv
  PROVE  /\ ParserStored(srv) /\ ParserTypes(ui) /\ ParserWaits(ui, net)
         /\ ParserHeld(ui, srv.last, net)
         /\ \A r \in net : ParserCall(r)
         /\ "none" \notin SourceIds /\ MaxRevision \in Nat \ {0}
BY FrontendAssumption DEF ParserInv, ParserWaits, ParserForm!ParserAssumption

\* A selection asks for the parser; with none selected the form is emptied.
LEMMA ParserTurns ==
  ASSUME ParserInv, NEW u, ParserShape(u), NEW s \in u.list \cup {"none"},
         u.sel \in SourceIds \cup {"none"}
  PROVE  LET v == ParserForm!Selected(u, s)
         IN  /\ ParserTypes(v) /\ v.sel = s
             /\ s = "none" => v.loading = u.loading
             /\ v.saving = u.saving /\ v.comparing = u.comparing /\ v.keyed = u.keyed
             /\ v.crossed \/ (~u.crossed /\ (s = u.sel \/ \A r \in net : r.op \notin ParserParsing))
             /\ s = "none" => v.def = "none" \/ (u.sel = "none" /\ v.def = u.def)
<1>1. PICK v : v = ParserForm!Selected(u, s)
  OBVIOUS
<1>2. PICK w : w = ParserForm!Select(u, s)
  OBVIOUS
<1>3. /\ ParserTypes(w) /\ w.sel = s
      /\ w.loading = u.loading /\ w.saving = u.saving /\ w.comparing = u.comparing
      /\ w.keyed = u.keyed
      /\ w.crossed \/ (~u.crossed /\ (s = u.sel \/ \A r \in net : r.op \notin ParserParsing))
  BY <1>2, ParserSelects
<1>4. CASE s # "none"
  <2>1. v = [w EXCEPT !.loading = TRUE]
    BY <1>1, <1>2, <1>4 DEF ParserForm!Selected
  <2>2. DOMAIN w = ParserFields
    BY <1>3 DEF ParserTypes, ParserShape
  <2>3. /\ DOMAIN v = ParserFields /\ v.loading = TRUE
        /\ \A k \in ParserFields \ {"loading"} : v[k] = w[k]
    BY <2>1, <2>2 DEF ParserFields
  <2>4. /\ v.list = w.list /\ v.sel = w.sel /\ v.editor = w.editor
        /\ v.def = w.def /\ v.revs = w.revs /\ v.ticked = w.ticked
        /\ v.saving = w.saving /\ v.comparing = w.comparing
        /\ v.keyed = w.keyed /\ v.crossed = w.crossed
    BY <2>3 DEF ParserFields
  <2>5. ParserTypes(v)
    BY <1>3, <2>3, <2>4 DEF ParserTypes, ParserShape
  <2> QED
    BY <1>1, <1>3, <1>4, <2>4, <2>5
<1>5. CASE s = "none" /\ u.sel # "none"
  <2>1. v = ParserForm!Hydrated(w, "none")
    BY <1>1, <1>2, <1>5 DEF ParserForm!Selected
  <2> QED
    BY <1>1, <1>3, <1>5, <2>1, ParserHydrated
<1>6. CASE s = "none" /\ u.sel = "none"
  <2>1. v = u
    BY <1>1, <1>6 DEF ParserForm!Selected
  <2>2. ParserTypes(v) /\ u.crossed \in BOOLEAN
    BY <1>6, <2>1 DEF ParserTypes, ParserShape
  <2> QED
    BY <1>1, <1>6, <2>1, <2>2
<1> QED
  BY <1>4, <1>5, <1>6

\* The selection and the list of the sources.
LEMMA ParserChooses ==
  ASSUME ParserInv, ParserForm!SelectSource \/ ParserForm!Deselect \/ ParserForm!Refresh
  PROVE  ParserInv'
<1>0. /\ ParserTypes(ui) /\ ParserShape(ui) /\ ParserWaits(ui, net)
      /\ ParserHeld(ui, srv.last, net) /\ \A r \in net : ParserCall(r)
      /\ "none" \notin SourceIds /\ ui.sel \in SourceIds \cup {"none"} /\ ui.list \subseteq SourceIds
  BY ParserFacts DEF ParserTypes, ParserShape
<1>1. PICK v, u : v = ui' /\ u = ui
  OBVIOUS
<1>2. CASE ParserForm!SelectSource
  <2>1. PICK s, n :
          /\ s \in u.list /\ v = ParserForm!Selected(u, s)
          /\ n = [id |-> ParserForm!Fresh, op |-> "parser", key |-> s]
          /\ net' = net \cup {n} /\ srv' = srv
    BY <1>1, <1>2 DEF ParserForm!SelectSource, ParserForm!Sent
  <2>2. /\ ParserTypes(v) /\ v.sel = s
        /\ v.saving = u.saving /\ v.comparing = u.comparing /\ v.keyed = u.keyed
        /\ v.crossed \/ (~u.crossed /\ (s = u.sel \/ \A r \in net : r.op \notin ParserParsing))
    <3>1. s \in u.list \cup {"none"} /\ u.sel \in SourceIds \cup {"none"} /\ ParserShape(u)
      BY <1>0, <1>1, <2>1
    <3> QED
      BY <2>1, <3>1, ParserTurns
  <2>3. s \in SourceIds
    BY <1>0, <1>1, <2>1
  <2>4. DOMAIN n = {"id", "op", "key"} /\ n.op = "parser" /\ n.key = s
    BY <2>1
  <2>5. ParserCall(n) /\ n.op \in ParserReads
    BY <2>3, <2>4 DEF ParserCall, ParserReads
  <2>6. ParserWaits(v, net \cup {n})
    BY <1>0, <1>1, <2>2, <2>5, ParserSends
  <2>7. ParserHeld(v, srv.last, net \cup {n})
    BY <1>0, <1>1, <2>2, <2>4, ParserAsked
  <2> QED
    BY <1>1, <2>1, <2>2, <2>6, <2>7, ParserQuiet
<1>3. CASE ParserForm!Deselect
  <2>1. PICK w : w = ParserForm!Select(u, "none")
    OBVIOUS
  <2>2. /\ ParserTypes(w) /\ w.sel = "none"
        /\ w.loading = u.loading /\ w.saving = u.saving /\ w.comparing = u.comparing
        /\ w.keyed = u.keyed
        /\ w.crossed \/ (~u.crossed /\ ("none" = u.sel \/ \A r \in net : r.op \notin ParserParsing))
    BY <1>0, <1>1, <2>1, ParserSelects
  <2>3. v = ParserForm!Hydrated(w, "none") /\ net' = net /\ srv' = srv
    BY <1>1, <1>3, <2>1 DEF ParserForm!Deselect
  <2>4. /\ ParserTypes(v) /\ v.def = "none" /\ v.sel = "none"
        /\ v.loading = u.loading /\ v.saving = u.saving /\ v.comparing = u.comparing
        /\ v.keyed = u.keyed /\ v.crossed = w.crossed
    BY <2>2, <2>3, ParserHydrated
  <2>5. ParserWaits(v, net)
    BY <1>0, <1>1, <2>4 DEF ParserWaits
  <2>6. v.crossed \/ \A r \in net : r.op \in ParserParsing => r.key = v.sel
    BY <1>0, <1>1, <2>2, <2>4 DEF ParserHeld
  <2>7. ParserHeld(v, srv.last, net)
    BY <2>4, <2>6, ParserFilled
  <2> QED
    BY <1>1, <2>3, <2>4, <2>5, <2>7, ParserQuiet
<1>4. CASE ParserForm!Refresh
  <2>1. PICK n : /\ n = [id |-> ParserForm!Fresh, op |-> "list", key |-> "none"]
                 /\ net' = net \cup {n} /\ ui' = ui /\ srv' = srv
    BY <1>4 DEF ParserForm!Refresh, ParserForm!Sent
  <2>2. DOMAIN n = {"id", "op", "key"} /\ n.op = "list"
    BY <2>1
  <2>3. ParserCall(n) /\ n.op \notin ParserParsing
    BY <2>2 DEF ParserCall, ParserReads, ParserWrites, ParserParsing
  <2>4. ParserWaits(ui, net \cup {n})
    BY <1>0, <2>2, <2>3, ParserSends
  <2>5. ParserHeld(ui, srv.last, net \cup {n})
    BY <1>0, <2>3, ParserKeeps
  <2> QED
    BY <1>0, <2>1, <2>4, <2>5, ParserQuiet
<1> QED
  BY <1>2, <1>3, <1>4

\* The answer r brings the list L, of which s is selected.
ParserArrives(r, s, L) ==
  /\ L \subseteq SourceIds /\ s \in L \cup {"none"}
  /\ ui' = ParserForm!Selected([ParserForm!Listed(ui, r) EXCEPT !.list = L], s)
  /\ \/ s # "none" /\ net' = (net \ {r}) \cup {[r EXCEPT !.op = "parser", !.key = s]}
     \/ s = "none" /\ net' = net \ {r}

\* The list arrives: one of its sources is selected, and its parser asked for.
LEMMA ParserListed ==
  ASSUME ParserInv, ParserForm!AnswerList
  PROVE  ParserInv'
<1>0. /\ ParserTypes(ui) /\ ParserShape(ui) /\ ParserWaits(ui, net) /\ ParserStored(srv)
      /\ ParserHeld(ui, srv.last, net) /\ \A r \in net : ParserCall(r)
      /\ "none" \notin SourceIds /\ ui.sel \in SourceIds \cup {"none"} /\ ui.list \subseteq SourceIds
  BY ParserFacts DEF ParserTypes, ParserShape
<1>1. PICK v, u : v = ui' /\ u = ui
  OBVIOUS
<1>20. PICK r \in net :
         /\ r.op \in ParserLists /\ srv' = srv
         /\ \/ \E s \in ParserForm!Choice :
                 /\ ui' = ParserForm!Selected(
                            [ParserForm!Listed(ui, r) EXCEPT !.list = srv.there], s)
                 /\ net' = (net \ {r}) \cup
                      {[q EXCEPT !.op = "parser", !.key = s] : q \in {x \in {r} : s # "none"}}
            \/ /\ ui' = ParserForm!Selected([ParserForm!Listed(ui, r) EXCEPT !.list = {}], "none")
               /\ net' = net \ {r}
  BY DEF ParserForm!AnswerList, ParserForm!Pending, ParserForm!Without, ParserLists
<1>21. \E s, L : ParserArrives(r, s, L)
  <2>1. CASE /\ ui' = ParserForm!Selected([ParserForm!Listed(ui, r) EXCEPT !.list = {}], "none")
             /\ net' = net \ {r}
    <3>1. ParserArrives(r, "none", {})
      BY <2>1 DEF ParserArrives
    <3> QED
      BY <3>1
  <2>2. ASSUME NEW s \in ParserForm!Choice,
               ui' = ParserForm!Selected([ParserForm!Listed(ui, r) EXCEPT !.list = srv.there], s),
               net' = (net \ {r}) \cup
                 {[q EXCEPT !.op = "parser", !.key = s] : q \in {x \in {r} : s # "none"}}
        PROVE  ParserArrives(r, s, srv.there)
    <3>1. s \in srv.there \cup {"none"} /\ srv.there \subseteq SourceIds
      BY <1>0 DEF ParserForm!Choice, ParserStored
    <3>2. CASE s # "none"
      <4>1. {x \in {r} : s # "none"} = {r}
        BY <3>2
      <4>2. {[q EXCEPT !.op = "parser", !.key = s] : q \in {r}}
              = {[r EXCEPT !.op = "parser", !.key = s]}
        OBVIOUS
      <4> QED
        BY <2>2, <3>1, <3>2, <4>1, <4>2 DEF ParserArrives
    <3>3. CASE s = "none"
      <4>1. {x \in {r} : s # "none"} = {}
        BY <3>3
      <4>2. {[q EXCEPT !.op = "parser", !.key = s] : q \in {}} = {}
        OBVIOUS
      <4> QED
        BY <2>2, <3>1, <3>3, <4>1, <4>2 DEF ParserArrives
    <3> QED
      BY <3>2, <3>3
  <2> QED
    BY <1>20, <2>1, <2>2, Zenon
<1>22. PICK s, L : ParserArrives(r, s, L)
  BY <1>21
<1>2. /\ r.op \in ParserLists /\ srv' = srv
      /\ L \subseteq SourceIds /\ s \in L \cup {"none"}
      /\ v = ParserForm!Selected([ParserForm!Listed(u, r) EXCEPT !.list = L], s)
      /\ \/ s # "none" /\ net' = (net \ {r}) \cup {[r EXCEPT !.op = "parser", !.key = s]}
         \/ s = "none" /\ net' = net \ {r}
  BY <1>1, <1>20, <1>22 DEF ParserArrives
<1>3. PICK w : w = [ParserForm!Listed(u, r) EXCEPT !.list = L]
  OBVIOUS
<1>4. /\ ParserShape(w) /\ w.list = L /\ w.sel = u.sel /\ w.def = u.def
      /\ w.loading = u.loading /\ w.comparing = u.comparing
      /\ w.keyed = u.keyed /\ w.crossed = u.crossed
      /\ w.saving = (u.saving /\ r.op # "sources")
  <2>1. PICK x : x = ParserForm!Listed(u, r)
    OBVIOUS
  <2>2. DOMAIN u = ParserFields /\ u.saving \in BOOLEAN
    BY <1>0, <1>1 DEF ParserShape
  <2>3. /\ DOMAIN x = ParserFields /\ x.saving = (u.saving /\ r.op # "sources")
        /\ \A k \in ParserFields \ {"saving"} : x[k] = u[k]
    <3>1. CASE r.op = "sources"
      <4>1. x = [u EXCEPT !.saving = FALSE]
        BY <2>1, <3>1 DEF ParserForm!Listed
      <4> QED
        BY <2>2, <3>1, <4>1 DEF ParserFields
    <3>2. CASE r.op # "sources"
      BY <2>1, <2>2, <3>2 DEF ParserForm!Listed
    <3> QED
      BY <3>1, <3>2
  <2>4. w = [x EXCEPT !.list = L]
    BY <1>3, <2>1
  <2>5. /\ DOMAIN w = ParserFields /\ w.list = L /\ w.saving = (u.saving /\ r.op # "sources")
        /\ \A k \in ParserFields \ {"saving", "list"} : w[k] = u[k]
    BY <2>3, <2>4 DEF ParserFields
  <2>6. /\ w.sel = u.sel /\ w.def = u.def /\ w.editor = u.editor
        /\ w.revs = u.revs /\ w.ticked = u.ticked
        /\ w.loading = u.loading /\ w.comparing = u.comparing
        /\ w.keyed = u.keyed /\ w.crossed = u.crossed
    BY <2>5 DEF ParserFields
  <2>7. ParserShape(w)
    BY <1>0, <1>1, <1>2, <2>5, <2>6 DEF ParserShape
  <2> QED
    BY <2>5, <2>6, <2>7
<1>5. /\ ParserTypes(v) /\ v.sel = s
      /\ s = "none" => v.loading = w.loading
      /\ v.saving = w.saving /\ v.comparing = w.comparing /\ v.keyed = w.keyed
      /\ v.crossed \/ (~w.crossed /\ (s = w.sel \/ \A q \in net : q.op \notin ParserParsing))
      /\ s = "none" => v.def = "none" \/ (w.sel = "none" /\ v.def = w.def)
  <2>1. v = ParserForm!Selected(w, s) /\ s \in w.list \cup {"none"}
        /\ w.sel \in SourceIds \cup {"none"}
    BY <1>0, <1>1, <1>2, <1>3, <1>4
  <2> QED
    BY <1>4, <2>1, ParserTurns
<1>6. u.saving \in BOOLEAN
  BY <1>0, <1>1 DEF ParserShape
<1>7. CASE s # "none" /\ net' = (net \ {r}) \cup {[r EXCEPT !.op = "parser", !.key = s]}
  <2>1. PICK n : n = [r EXCEPT !.op = "parser", !.key = s]
    OBVIOUS
  <2>2. DOMAIN n = {"id", "op", "key"} /\ n.op = "parser" /\ n.key = s /\ s \in SourceIds
    BY <1>0, <1>2, <1>7, <2>1 DEF ParserCall
  <2>3. ParserCall(n) /\ n.op \in ParserReads
    BY <2>2 DEF ParserCall, ParserReads
  <2>4. ParserWaits(v, (net \ {r}) \cup {n})
    <3>1. v.comparing = u.comparing /\ v.keyed = u.keyed
      BY <1>4, <1>5
    <3>2. CASE r.op = "list"
      <4>1. v.saving = u.saving
        BY <1>4, <1>5, <1>6, <3>2
      <4> QED
        BY <1>0, <1>1, <2>3, <3>1, <3>2, <4>1, ParserGoesOn
    <3>3. CASE r.op = "sources"
      <4>1. v.saving = FALSE
        BY <1>4, <1>5, <1>6, <3>3
      <4> QED
        BY <1>0, <1>1, <2>3, <3>1, <3>3, <4>1, ParserGoesOn
    <3> QED
      BY <1>2, <3>2, <3>3 DEF ParserLists
  <2>5. ParserHeld(v, srv.last, (net \ {r}) \cup {n})
    <3>1. ParserHeld(w, srv.last, net)
      BY <1>0, <1>1, <1>4 DEF ParserHeld
    <3>2. v.crossed \/ (~w.crossed /\ (v.sel = w.sel \/ \A q \in net : q.op \notin ParserParsing))
      BY <1>5
    <3> QED
      BY <1>5, <2>2, <3>1, <3>2, ParserAsked
  <2> QED
    BY <1>1, <1>2, <1>5, <1>7, <2>1, <2>4, <2>5, ParserQuiet
<1>8. CASE s = "none" /\ net' = net \ {r}
  <2>1. /\ v.loading = u.loading /\ v.comparing = u.comparing /\ v.keyed = u.keyed
        /\ v.saving = (u.saving /\ r.op # "sources")
    BY <1>4, <1>5, <1>8
  <2>2. ParserWaits(v, net \ {r})
    <3>1. CASE r.op = "list"
      BY <1>0, <1>1, <1>6, <2>1, <3>1, ParserEnds
    <3>2. CASE r.op = "sources"
      BY <1>0, <1>1, <1>6, <2>1, <3>2, ParserEnds DEF ParserWrites
    <3> QED
      BY <1>2, <3>1, <3>2 DEF ParserLists
  <2>3. ParserHeld(v, srv.last, net \ {r})
    <3>1. v.crossed \/ \A q \in net \ {r} : q.op \in ParserParsing => q.key = v.sel
      BY <1>0, <1>1, <1>4, <1>5 DEF ParserHeld
    <3>2. v.crossed \/ v.def = "none"
      <4> SUFFICES ASSUME ~v.crossed PROVE v.def = "none"
        OBVIOUS
      <4>1. CASE u.sel = "none" /\ v.def = u.def
        <5>1. ~u.crossed
          BY <1>4, <1>5
        <5>2. \A q \in net : q.op # "parser"
          <6> SUFFICES ASSUME NEW q \in net, q.op = "parser" PROVE FALSE
            OBVIOUS
          <6>1. q.key = "none"
            BY <1>0, <1>1, <4>1, <5>1 DEF ParserHeld, ParserParsing
          <6>2. q.key \in SourceIds
            BY <1>0 DEF ParserCall, ParserReads
          <6> QED
            BY <1>0, <6>1, <6>2
        <5> QED
          BY <1>0, <1>1, <4>1, <5>1, <5>2 DEF ParserHeld
      <4>2. v.def = "none" \/ (u.sel = "none" /\ v.def = u.def)
        BY <1>4, <1>5, <1>8
      <4> QED
        BY <4>1, <4>2
    <3> QED
      BY <3>1, <3>2, ParserFilled
  <2> QED
    BY <1>1, <1>2, <1>5, <1>8, <2>2, <2>3, ParserQuiet
<1> QED
  BY <1>2, <1>7, <1>8

\* A source is deleted, and its parser with it: the list is loaded after.
LEMMA ParserDeletes ==
  ASSUME ParserInv,
         ParserForm!DeleteSource \/ ParserForm!SourceDeleted \/ ParserForm!DeleteFails
  PROVE  ParserInv'
<1>0. /\ ParserTypes(ui) /\ ParserWaits(ui, net) /\ ParserStored(srv)
      /\ ParserHeld(ui, srv.last, net) /\ \A r \in net : ParserCall(r)
      /\ "none" \notin SourceIds /\ MaxRevision \in Nat \ {0}
      /\ ui.sel \in SourceIds \cup {"none"} /\ ui.def \in SourceIds \cup {"none"}
  BY ParserFacts DEF ParserTypes, ParserShape
<1>1. CASE ParserForm!DeleteSource
  <2>1. PICK n : /\ n = [id |-> ParserForm!Fresh, op |-> "delete", key |-> ui.sel]
                 /\ net' = net \cup {n} /\ ui' = ui /\ srv' = srv /\ ui.sel # "none"
    BY <1>1 DEF ParserForm!DeleteSource, ParserForm!Sent
  <2>2. DOMAIN n = {"id", "op", "key"} /\ n.op = "delete" /\ n.key \in SourceIds
    BY <1>0, <2>1
  <2>3. ParserCall(n) /\ n.op \notin ParserParsing
    BY <2>2 DEF ParserCall, ParserParsing
  <2>4. ParserWaits(ui, net \cup {n})
    BY <1>0, <2>2, <2>3, ParserSends
  <2>5. ParserHeld(ui, srv.last, net \cup {n})
    BY <1>0, <2>3, ParserKeeps
  <2> QED
    BY <1>0, <2>1, <2>4, <2>5, ParserQuiet
<1>2. CASE ParserForm!SourceDeleted
  <2>1. PICK r, n :
          /\ r \in net /\ r.op = "delete" /\ ui' = ui
          /\ srv' = [srv EXCEPT !.there = @ \ {r.key}, !.last[r.key] = 0]
          /\ n = [r EXCEPT !.op = "list", !.key = "none"]
          /\ net' = (net \ {r}) \cup {n}
    BY <1>2 DEF ParserForm!SourceDeleted, ParserForm!Pending, ParserForm!Without
  <2>2. DOMAIN n = {"id", "op", "key"} /\ n.op = "list" /\ r.key \in SourceIds
    BY <1>0, <2>1 DEF ParserCall
  <2>3. ParserCall(n) /\ n.op \notin ParserParsing /\ n.op \in ParserLists
    BY <2>2 DEF ParserCall, ParserReads, ParserWrites, ParserParsing, ParserLists
  <2>4. /\ DOMAIN srv' = {"there", "last"} /\ srv'.there = srv.there \ {r.key}
        /\ srv'.last = [srv.last EXCEPT ![r.key] = 0]
    BY <1>0, <2>1 DEF ParserStored
  <2>5. ParserStored(srv')
    BY <1>0, <2>2, <2>4 DEF ParserStored
  <2>6. ParserWaits(ui, (net \ {r}) \cup {n})
    BY <1>0, <2>1, <2>2, <2>3, ParserGoesOn
  <2>7. ParserHeld(ui, srv'.last, (net \ {r}) \cup {n})
    BY <1>0, <2>1, <2>2, <2>3, <2>4 DEF ParserHeld, ParserStored
  <2> QED
    BY <1>0, <2>1, <2>5, <2>6, <2>7, Zenon DEF ParserInv
<1>3. CASE ParserForm!DeleteFails
  <2>1. PICK r \in net : r.op = "delete" /\ ui' = ui /\ srv' = srv /\ net' = net \ {r}
    BY <1>3 DEF ParserForm!DeleteFails, ParserForm!Pending, ParserForm!Without
  <2>2. ParserWaits(ui, net \ {r})
    BY <1>0, <2>1, ParserEnds
  <2>3. ParserHeld(ui, srv.last, net \ {r})
    BY <1>0, <2>1, ParserKeeps DEF ParserLists
  <2> QED
    BY <1>0, <2>1, <2>2, <2>3, ParserQuiet
<1> QED
  BY <1>1, <1>2, <1>3

\* A load of the selected source that goes alone ends what had crossed.
LEMMA ParserHeals ==
  ASSUME NEW u, ParserTypes(u), NEW r
  PROVE  LET v == ParserForm!Healed(u, r)
         IN  /\ ParserTypes(v) /\ v.sel = u.sel /\ v.def = u.def
             /\ v.loading = u.loading /\ v.saving = u.saving /\ v.comparing = u.comparing
             /\ v.keyed = u.keyed
             /\ \/ v.crossed = u.crossed
                \/ r.key = u.sel /\ ParserForm!Parsing = {r}
<1>1. PICK v : v = ParserForm!Healed(u, r)
  OBVIOUS
<1>2. PICK c : c = (u.crossed /\ (r.key # u.sel \/ ParserForm!Parsing # {r}))
  OBVIOUS
<1>3. v = [u EXCEPT !.crossed = c]
  BY <1>1, <1>2 DEF ParserForm!Healed
<1>4. DOMAIN u = ParserFields /\ u.crossed \in BOOLEAN
  BY DEF ParserTypes, ParserShape
<1>5. DOMAIN v = ParserFields /\ v.crossed = c /\ \A k \in ParserFields \ {"crossed"} : v[k] = u[k]
  BY <1>3, <1>4, Zenon DEF ParserFields
<1>6. /\ v.list = u.list /\ v.sel = u.sel /\ v.editor = u.editor
      /\ v.def = u.def /\ v.revs = u.revs /\ v.ticked = u.ticked
      /\ v.loading = u.loading /\ v.saving = u.saving
      /\ v.comparing = u.comparing /\ v.keyed = u.keyed
  BY <1>5 DEF ParserFields
<1>7. c \in BOOLEAN /\ (c = u.crossed \/ (r.key = u.sel /\ ParserForm!Parsing = {r}))
  BY <1>2, <1>4
<1>8. ParserTypes(v)
  BY <1>5, <1>6, <1>7 DEF ParserTypes, ParserShape
<1> QED
  BY <1>1, <1>5, <1>6, <1>7, <1>8

\* The answers of the loads of a parser.
LEMMA ParserLoads ==
  ASSUME ParserInv, ParserForm!AnswerParser \/ ParserForm!AnswerRevisions
  PROVE  ParserInv'
<1>0. /\ ParserTypes(ui) /\ ParserWaits(ui, net) /\ ParserStored(srv)
      /\ ParserHeld(ui, srv.last, net) /\ \A r \in net : ParserCall(r)
      /\ "none" \notin SourceIds
  BY ParserFacts
<1>1. PICK v, u : v = ui' /\ u = ui
  OBVIOUS
<1>2. CASE ParserForm!AnswerParser
  <2>1. PICK r \in net :
          /\ r.op = "parser" /\ srv' = srv
          /\ \/ /\ srv.last[r.key] > 0
                /\ v = ParserForm!Hydrated(ParserForm!Healed(u, r), r.key)
                /\ net' = (net \ {r}) \cup {[r EXCEPT !.op = "revisions"]}
             \/ /\ v = [ParserForm!Hydrated(ParserForm!Healed(u, r), "none") EXCEPT !.loading = FALSE]
                /\ net' = net \ {r}
    BY <1>1, <1>2 DEF ParserForm!AnswerParser, ParserForm!Pending, ParserForm!Without
  <2>2. r.key \in SourceIds /\ r.op \in ParserReads /\ DOMAIN r = {"id", "op", "key"}
    BY <1>0, <2>1 DEF ParserCall, ParserReads
  <2>3. PICK w : w = ParserForm!Healed(u, r)
    OBVIOUS
  <2>4. /\ ParserTypes(w) /\ w.sel = u.sel
        /\ w.loading = u.loading /\ w.saving = u.saving /\ w.comparing = u.comparing
        /\ w.keyed = u.keyed
        /\ w.crossed = u.crossed \/ (r.key = u.sel /\ ParserForm!Parsing = {r})
    BY <1>0, <1>1, <2>3, ParserHeals
  <2>5. w.crossed \/ (r.key = w.sel /\ \A q \in net : q.op \in ParserParsing => q.key = w.sel)
    <3>1. CASE w.crossed = u.crossed
      BY <1>0, <1>1, <2>1, <2>4, <3>1 DEF ParserHeld, ParserParsing
    <3>2. CASE r.key = u.sel /\ ParserForm!Parsing = {r}
      <4>1. PICK P : P = ParserForm!Parsing /\ P = {r}
        BY <3>2
      <4>2. \A q \in net : q.op \in ParserParsing => q \in P
        BY <4>1 DEF ParserForm!Parsing, ParserForm!Pending, ParserParsing
      <4> QED
        BY <2>4, <3>2, <4>1, <4>2
    <3> QED
      BY <2>4, <3>1, <3>2
  <2>6. CASE /\ srv.last[r.key] > 0
             /\ v = ParserForm!Hydrated(ParserForm!Healed(u, r), r.key)
             /\ net' = (net \ {r}) \cup {[r EXCEPT !.op = "revisions"]}
    <3>1. v = ParserForm!Hydrated(w, r.key)
      BY <2>3, <2>6
    <3>2. /\ ParserTypes(v) /\ v.def = r.key /\ v.sel = w.sel
          /\ v.loading = w.loading /\ v.saving = w.saving /\ v.comparing = w.comparing
          /\ v.keyed = w.keyed /\ v.crossed = w.crossed
      BY <2>2, <2>4, <3>1, ParserHydrated
    <3>3. PICK n : n = [r EXCEPT !.op = "revisions"]
      OBVIOUS
    <3>4. DOMAIN n = {"id", "op", "key"} /\ n.op = "revisions" /\ n.key \in SourceIds
      BY <2>2, <3>3
    <3>5. ParserCall(n) /\ n.op \in ParserReads /\ n.op \notin ParserParsing
      BY <3>4 DEF ParserCall, ParserReads, ParserParsing
    <3>6. ParserWaits(v, (net \ {r}) \cup {n})
      <4>1. {r.op, n.op} \subseteq ParserReads
        BY <2>2, <3>5
      <4>2. /\ v.loading = u.loading /\ v.saving = u.saving
            /\ v.comparing = u.comparing /\ v.keyed = u.keyed
        BY <2>4, <3>2
      <4> QED
        BY <1>0, <1>1, <3>5, <4>1, <4>2, ParserGoesOn
    <3>7. ParserHeld(v, srv.last, (net \ {r}) \cup {n})
      BY <2>5, <2>6, <3>2, <3>5, ParserFilled
    <3> QED
      BY <1>1, <2>1, <2>6, <3>2, <3>3, <3>6, <3>7, ParserQuiet
  <2>7. CASE /\ v = [ParserForm!Hydrated(ParserForm!Healed(u, r), "none") EXCEPT !.loading = FALSE]
             /\ net' = net \ {r}
    <3>1. PICK x : x = ParserForm!Hydrated(w, "none")
      OBVIOUS
    <3>2. /\ ParserTypes(x) /\ x.def = "none" /\ x.sel = w.sel
          /\ x.saving = w.saving /\ x.comparing = w.comparing
          /\ x.keyed = w.keyed /\ x.crossed = w.crossed
      BY <2>4, <3>1, ParserHydrated
    <3>3. v = [x EXCEPT !.loading = FALSE]
      BY <2>3, <2>7, <3>1
    <3>4. /\ ParserTypes(v) /\ v.loading = FALSE /\ v.def = "none" /\ v.sel = w.sel
          /\ v.saving = w.saving /\ v.comparing = w.comparing
          /\ v.keyed = w.keyed /\ v.crossed = w.crossed
      BY <3>2, <3>3, ParserLoaded
    <3>5. ParserWaits(v, net \ {r})
      BY <1>0, <1>1, <2>2, <2>4, <3>4, ParserEnds
    <3>6. ParserHeld(v, srv.last, net \ {r})
      BY <2>5, <3>4, ParserFilled
    <3> QED
      BY <1>1, <2>1, <2>7, <3>4, <3>5, <3>6, ParserQuiet
  <2> QED
    BY <2>1, <2>6, <2>7
<1>3. CASE ParserForm!AnswerRevisions
  <2>1. PICK r \in net :
          /\ r.op = "revisions" /\ srv' = srv /\ net' = net \ {r}
          /\ \/ v = [u EXCEPT !.revs = r.key, !.loading = FALSE]
             \/ v = [ParserForm!Hydrated(u, "none") EXCEPT !.loading = FALSE]
    BY <1>1, <1>3 DEF ParserForm!AnswerRevisions, ParserForm!Pending, ParserForm!Without
  <2>2. r.key \in SourceIds /\ r.op \in ParserReads
    BY <1>0, <2>1 DEF ParserCall, ParserReads
  <2>3. /\ ParserTypes(v) /\ v.loading = FALSE /\ v.def \in {u.def, "none"} /\ v.sel = u.sel
        /\ v.saving = u.saving /\ v.comparing = u.comparing
        /\ v.keyed = u.keyed /\ v.crossed = u.crossed
    <3>1. CASE v = [u EXCEPT !.revs = r.key, !.loading = FALSE]
      <4>1. DOMAIN u = ParserFields
        BY <1>0, <1>1 DEF ParserTypes, ParserShape
      <4>2. /\ DOMAIN v = ParserFields /\ v.revs = r.key /\ v.loading = FALSE
            /\ \A k \in ParserFields \ {"revs", "loading"} : v[k] = u[k]
        BY <3>1, <4>1 DEF ParserFields
      <4>3. /\ v.list = u.list /\ v.sel = u.sel /\ v.editor = u.editor
            /\ v.def = u.def /\ v.ticked = u.ticked
            /\ v.saving = u.saving /\ v.comparing = u.comparing
            /\ v.keyed = u.keyed /\ v.crossed = u.crossed
        BY <4>2 DEF ParserFields
      <4>4. ParserTypes(v)
        BY <1>0, <1>1, <2>2, <4>2, <4>3 DEF ParserTypes, ParserShape
      <4> QED
        BY <4>2, <4>3, <4>4
    <3>2. CASE v = [ParserForm!Hydrated(u, "none") EXCEPT !.loading = FALSE]
      <4>1. PICK x : x = ParserForm!Hydrated(u, "none")
        OBVIOUS
      <4>2. /\ ParserTypes(x) /\ x.def = "none" /\ x.sel = u.sel
            /\ x.saving = u.saving /\ x.comparing = u.comparing
            /\ x.keyed = u.keyed /\ x.crossed = u.crossed
        BY <1>0, <1>1, <4>1, ParserHydrated
      <4>3. v = [x EXCEPT !.loading = FALSE]
        BY <3>2, <4>1
      <4> QED
        BY <4>2, <4>3, ParserLoaded
    <3> QED
      BY <2>1, <3>1, <3>2
  <2>4. ParserWaits(v, net \ {r})
    BY <1>0, <1>1, <2>2, <2>3, ParserEnds
  <2>5. ParserHeld(v, srv.last, net \ {r})
    BY <1>0, <1>1, <2>1, <2>3, ParserKeeps DEF ParserLists
  <2> QED
    BY <1>1, <2>1, <2>3, <2>4, <2>5, ParserQuiet
<1> QED
  BY <1>2, <1>3

\* A write begins: another that is under way makes it one by the key, and one of
\* another source's parser is noted.
LEMMA ParserBegins ==
  ASSUME ParserInv, NEW op, NEW k \in SourceIds, NEW bykey \in BOOLEAN,
         op \in {"create", "update", "rollback", "foreign"},
         bykey \/ ~ui.saving,
         ParserForm!Writing(k, bykey), net' = ParserForm!Sent(op, k), srv' = srv
  PROVE  ParserInv'
<1>0. /\ ParserTypes(ui) /\ ParserWaits(ui, net)
      /\ ParserHeld(ui, srv.last, net) /\ \A r \in net : ParserCall(r)
  BY ParserFacts
<1>1. PICK v, u, W : v = ui' /\ u = ui /\ W = ParserForm!Writes
  OBVIOUS
<1>2. /\ DOMAIN u = ParserFields /\ u.keyed \in BOOLEAN /\ u.crossed \in BOOLEAN
      /\ u.saving \in BOOLEAN
  BY <1>0, <1>1 DEF ParserTypes, ParserShape
<1>3. v = [u EXCEPT !.saving = TRUE, !.crossed = @ \/ k # u.sel,
                    !.keyed = bykey \/ (@ /\ W # {})]
  BY <1>1 DEF ParserForm!Writing
<1>4. /\ DOMAIN v = ParserFields /\ v.saving = TRUE
      /\ v.crossed = (u.crossed \/ k # u.sel)
      /\ v.keyed = (bykey \/ (u.keyed /\ W # {}))
      /\ \A f \in ParserFields \ {"saving", "crossed", "keyed"} : v[f] = u[f]
  BY <1>2, <1>3, Zenon DEF ParserFields
<1>5. /\ v.list = u.list /\ v.sel = u.sel /\ v.editor = u.editor
      /\ v.def = u.def /\ v.revs = u.revs /\ v.ticked = u.ticked
      /\ v.loading = u.loading /\ v.comparing = u.comparing
  BY <1>4 DEF ParserFields
<1>6. v.crossed \in BOOLEAN /\ v.keyed \in BOOLEAN
  BY <1>2, <1>4
<1>7. ParserTypes(v)
  BY <1>0, <1>1, <1>4, <1>5, <1>6 DEF ParserTypes, ParserShape
<1>8. PICK n : n = [id |-> ParserForm!Fresh, op |-> op, key |-> k] /\ net' = net \cup {n}
  BY DEF ParserForm!Sent
<1>9. DOMAIN n = {"id", "op", "key"} /\ n.op = op /\ n.key = k
  BY <1>8
<1>10. ParserCall(n) /\ n.op \in ParserWrites
  BY <1>9 DEF ParserCall, ParserWrites
<1>11. v.keyed \/ \A r \in net : r.op \notin ParserWrites
  <2>1. W = {} => \A r \in net : r.op \notin ParserWrites
    BY <1>1 DEF ParserForm!Writes, ParserWrites
  <2>2. CASE ~u.keyed /\ ~u.saving
    BY <1>0, <1>1, <2>2 DEF ParserWaits
  <2>3. v.keyed \/ W = {} \/ (~u.keyed /\ ~u.saving)
    BY <1>1, <1>2, <1>4
  <2> QED
    BY <2>1, <2>2, <2>3
<1>12. ParserWaits(v, net \cup {n})
  BY <1>0, <1>1, <1>4, <1>5, <1>10, <1>11, ParserSends
<1>13. ParserHeld(v, srv.last, net \cup {n})
  BY <1>0, <1>1, <1>4, <1>5, <1>9 DEF ParserHeld
<1> QED
  BY <1>1, <1>7, <1>8, <1>12, <1>13, ParserQuiet

\* A save, by the button or by the key, and a roll back.
LEMMA ParserSendsWrite ==
  ASSUME ParserInv,
         ParserForm!SaveParser \/ ParserForm!MountEditor \/ ParserForm!SaveByKey
           \/ ParserForm!Rollback
  PROVE  ParserInv'
<1>0. /\ ParserTypes(ui) /\ ParserWaits(ui, net) /\ ParserHeld(ui, srv.last, net)
      /\ DOMAIN ui = ParserFields /\ ParserKey(ui.editor)
      /\ ui.sel \in SourceIds \cup {"none"} /\ ui.def \in SourceIds \cup {"none"}
  BY ParserFacts DEF ParserTypes, ParserShape
<1>1. PICK e : e = ParserForm!Saves(ui.sel, ui.def)
  OBVIOUS
<1>2. ui.sel # "none" => e.op \in {"create", "update"} /\ e.key \in SourceIds
  BY <1>0, <1>1 DEF ParserForm!Saves
<1>3. CASE ParserForm!SaveParser
  <2>1. /\ ui.sel # "none" /\ ~ui.saving /\ ParserForm!Writing(e.key, FALSE)
        /\ net' = ParserForm!Sent(e.op, e.key) /\ srv' = srv
    BY <1>1, <1>3 DEF ParserForm!SaveParser, ParserForm!SaveWorkflow
  <2> QED
    BY <1>2, <2>1, ParserBegins
<1>4. CASE ParserForm!SaveByKey
  <2>1. PICK k : k = ui.editor
    OBVIOUS
  <2>2. /\ ParserForm!Writing(k.key, TRUE) /\ k # ParserForm!Unmounted
        /\ net' = ParserForm!Sent(k.op, k.key) /\ srv' = srv
    BY <1>4, <2>1 DEF ParserForm!SaveByKey, ParserForm!SaveWorkflow
  <2>3. k.op \in {"create", "update"} /\ k.key \in SourceIds
    BY <1>0, <2>1, <2>2 DEF ParserKey
  <2> QED
    BY <2>2, <2>3, ParserBegins
<1>5. CASE ParserForm!Rollback
  <2>1. PICK op : /\ op \in {"rollback", "foreign"}
                  /\ ui.def # "none" /\ ~ui.saving /\ ParserForm!Writing(ui.def, FALSE)
                  /\ net' = ParserForm!Sent(op, ui.def) /\ srv' = srv
    BY <1>5 DEF ParserForm!Rollback
  <2>2. ui.def \in SourceIds
    BY <1>0, <2>1
  <2> QED
    BY <2>1, <2>2, ParserBegins
<1>6. CASE ParserForm!MountEditor
  <2>1. PICK v, u : v = ui' /\ u = ui
    OBVIOUS
  <2>2. ui.sel # "none" /\ v = [u EXCEPT !.editor = e] /\ net' = net /\ srv' = srv
    BY <1>1, <1>6, <2>1 DEF ParserForm!MountEditor
  <2>3. DOMAIN v = ParserFields /\ v.editor = e /\ \A f \in ParserFields \ {"editor"} : v[f] = u[f]
    BY <1>0, <2>1, <2>2 DEF ParserFields
  <2>4. /\ v.list = u.list /\ v.sel = u.sel
        /\ v.def = u.def /\ v.revs = u.revs /\ v.ticked = u.ticked
        /\ v.loading = u.loading /\ v.saving = u.saving
        /\ v.comparing = u.comparing /\ v.keyed = u.keyed /\ v.crossed = u.crossed
    BY <2>3 DEF ParserFields
  <2>5. ParserKey(v.editor)
    BY <1>2, <2>2, <2>3 DEF ParserKey
  <2>6. ParserTypes(v)
    BY <1>0, <2>1, <2>3, <2>4, <2>5 DEF ParserTypes, ParserShape
  <2>7. ParserWaits(v, net)
    BY <1>0, <2>1, <2>4 DEF ParserWaits
  <2>8. ParserHeld(v, srv.last, net)
    BY <1>0, <2>1, <2>4 DEF ParserHeld
  <2> QED
    BY <2>1, <2>2, <2>6, <2>7, <2>8, ParserQuiet
<1> QED
  BY <1>3, <1>4, <1>5, <1>6

\* A write is done: the form is filled with its parser, which has a revision more.
LEMMA ParserWritten ==
  ASSUME ParserInv, ParserForm!WriteDone
  PROVE  ParserInv'
<1>0. /\ ParserTypes(ui) /\ ParserWaits(ui, net) /\ ParserStored(srv)
      /\ ParserHeld(ui, srv.last, net) /\ \A r \in net : ParserCall(r)
      /\ MaxRevision \in Nat \ {0}
  BY ParserFacts
<1>1. PICK v, u : v = ui' /\ u = ui
  OBVIOUS
<1>20. PICK r \in net :
         /\ r.op \in {"create", "update", "rollback"}
         /\ srv.last[r.key] < MaxRevision
         /\ srv' = [srv EXCEPT !.last[r.key] = @ + 1]
         /\ ui' = ParserForm!Hydrated(ui, r.key)
         /\ net' = ParserForm!Without(r) \cup
              {[r EXCEPT !.op = IF r.op = "rollback" THEN "rolledBack" ELSE "saved"]}
  BY DEF ParserForm!WriteDone, ParserForm!Pending
<1>2. PICK n :
        /\ srv' = [srv EXCEPT !.last[r.key] = @ + 1]
        /\ v = ParserForm!Hydrated(u, r.key)
        /\ net' = (net \ {r}) \cup {n}
        /\ n = [r EXCEPT !.op = IF r.op = "rollback" THEN "rolledBack" ELSE "saved"]
  BY <1>1, <1>20 DEF ParserForm!Without
<1>3. ParserCall(r) /\ r.op \in ParserWrites /\ r.op \in ParserParsing /\ r.key \in SourceIds
  BY <1>0, <1>20 DEF ParserCall, ParserWrites, ParserParsing
<1>4. DOMAIN n = {"id", "op", "key"} /\ n.op \in {"saved", "rolledBack"} /\ n.key = r.key
  BY <1>2, <1>3 DEF ParserCall
<1>40. ParserCall(n) /\ n.op \in ParserWrites /\ n.op \notin ParserParsing
  BY <1>3, <1>4 DEF ParserCall, ParserWrites, ParserParsing
<1>5. /\ ParserTypes(v) /\ v.def = r.key /\ v.sel = u.sel
      /\ v.loading = u.loading /\ v.saving = u.saving /\ v.comparing = u.comparing
      /\ v.keyed = u.keyed /\ v.crossed = u.crossed
  BY <1>0, <1>1, <1>2, <1>3, ParserHydrated
<1>6. PICK f : f = srv'.last
  OBVIOUS
<1>7. /\ DOMAIN srv' = {"there", "last"} /\ srv'.there = srv.there
      /\ f \in [SourceIds -> 0..MaxRevision] /\ f[r.key] > 0
  <2>1. /\ DOMAIN srv' = {"there", "last"} /\ srv'.there = srv.there
        /\ f = [srv.last EXCEPT ![r.key] = @ + 1]
    BY <1>0, <1>2, <1>6 DEF ParserStored
  <2>2. /\ srv.last \in [SourceIds -> 0..MaxRevision] /\ srv.last[r.key] < MaxRevision
    BY <1>0, <1>20 DEF ParserStored
  <2>3. srv.last[r.key] \in 0..MaxRevision
    BY <1>3, <2>2
  <2> QED
    BY <1>0, <1>3, <2>1, <2>2, <2>3
<1>8. ParserStored(srv')
  BY <1>0, <1>6, <1>7 DEF ParserStored
<1>9. ParserWaits(v, (net \ {r}) \cup {n})
  <2>1. {r.op, n.op} \subseteq ParserWrites
    BY <1>3, <1>40
  <2> QED
    BY <1>0, <1>1, <1>5, <1>40, <2>1, ParserGoesOn
<1>10. ParserHeld(v, f, (net \ {r}) \cup {n})
  <2>1. v.crossed \/ (r.key = v.sel /\ \A q \in net : q.op \in ParserParsing => q.key = v.sel)
    BY <1>0, <1>1, <1>3, <1>5 DEF ParserHeld
  <2> QED
    BY <1>5, <1>7, <1>40, <2>1, ParserFilled
<1> QED
  BY <1>1, <1>2, <1>5, <1>6, <1>8, <1>9, <1>10 DEF ParserInv

\* What follows a write: a failure, or the revisions.
LEMMA ParserAfterWrite ==
  ASSUME ParserInv, ParserForm!WriteFails \/ ParserForm!AnswerSaved
  PROVE  ParserInv'
<1>0. /\ ParserTypes(ui) /\ ParserWaits(ui, net)
      /\ ParserHeld(ui, srv.last, net) /\ \A r \in net : ParserCall(r)
      /\ DOMAIN ui = ParserFields /\ ui.saving \in BOOLEAN
  BY ParserFacts DEF ParserTypes, ParserShape
<1>1. PICK v, u : v = ui' /\ u = ui
  OBVIOUS
<1>2. ASSUME NEW r \in net, r.op \in ParserWrites \ ParserLists, srv' = srv,
             DOMAIN v = ParserFields, v.saving \in BOOLEAN,
             v.revs \in SourceIds \cup {u.revs},
             \A f \in ParserFields \ {"revs", "saving"} : v[f] = u[f],
             \/ v.saving = FALSE /\ net' = net \ {r}
             \/ /\ v.saving = u.saving
                /\ \E n : /\ ParserCall(n) /\ n.op = "sources"
                          /\ net' = (net \ {r}) \cup {n}
      PROVE  ParserInv'
  <2>1. /\ v.list = u.list /\ v.sel = u.sel /\ v.editor = u.editor
        /\ v.def = u.def /\ v.ticked = u.ticked
        /\ v.loading = u.loading /\ v.comparing = u.comparing
        /\ v.keyed = u.keyed /\ v.crossed = u.crossed
    BY <1>2 DEF ParserFields
  <2>2. ParserTypes(v)
    BY <1>0, <1>1, <1>2, <2>1 DEF ParserTypes, ParserShape
  <2>3. CASE v.saving = FALSE /\ net' = net \ {r}
    <3>1. ParserWaits(v, net \ {r})
      BY <1>0, <1>1, <1>2, <2>1, <2>3, ParserEnds
    <3>2. r.op # "parser" /\ r.op \notin ParserLists
      BY <1>2 DEF ParserWrites
    <3>3. ParserHeld(v, srv.last, net \ {r})
      BY <1>0, <1>1, <2>1, <3>2, ParserKeeps
    <3> QED
      BY <1>1, <1>2, <2>2, <2>3, <3>1, <3>3, ParserQuiet
  <2>4. ASSUME NEW n, v.saving = u.saving, ParserCall(n), n.op = "sources",
               net' = (net \ {r}) \cup {n}
        PROVE  ParserInv'
    <3>1. {r.op, n.op} \subseteq ParserWrites /\ n.op \notin ParserParsing
          /\ n.op \in ParserLists /\ r.op # "parser"
      BY <1>2, <2>4 DEF ParserWrites, ParserLists, ParserParsing
    <3>2. ParserWaits(v, (net \ {r}) \cup {n})
      BY <1>0, <1>1, <1>2, <2>1, <2>4, <3>1, ParserGoesOn
    <3>3. ParserHeld(v, srv.last, (net \ {r}) \cup {n})
      BY <1>0, <1>1, <2>1, <3>1, ParserKeeps
    <3> QED
      BY <1>1, <1>2, <2>2, <2>4, <3>2, <3>3, ParserQuiet
  <2> QED
    BY <1>2, <2>3, <2>4
<1>3. CASE ParserForm!WriteFails
  <2>1. PICK r \in net :
          /\ r.op \in {"create", "update", "rollback", "foreign"}
          /\ v = [u EXCEPT !.saving = FALSE] /\ net' = net \ {r} /\ srv' = srv
    BY <1>1, <1>3 DEF ParserForm!WriteFails, ParserForm!Pending, ParserForm!Without
  <2>2. /\ DOMAIN v = ParserFields /\ v.saving = FALSE
        /\ \A f \in ParserFields \ {"saving"} : v[f] = u[f]
    BY <1>0, <1>1, <2>1 DEF ParserFields
  <2>3. r.op \in ParserWrites \ ParserLists
    BY <2>1 DEF ParserWrites, ParserLists
  <2>4. v.revs = u.revs
    BY <2>2 DEF ParserFields
  <2> QED
    BY <1>2, <2>1, <2>2, <2>3, <2>4
<1>4. CASE ParserForm!AnswerSaved
  <2>1. PICK r \in net, ok \in BOOLEAN :
          /\ r.op \in {"saved", "rolledBack"} /\ srv' = srv
          /\ v = [u EXCEPT !.revs = IF ok THEN r.key ELSE @,
                           !.saving = @ /\ ok /\ r.op = "saved"]
          /\ net' = IF ok /\ r.op = "saved" THEN (net \ {r}) \cup {[r EXCEPT !.op = "sources"]}
                    ELSE net \ {r}
    BY <1>1, <1>4 DEF ParserForm!AnswerSaved, ParserForm!Pending, ParserForm!Without
  <2>2. /\ ParserCall(r) /\ r.op \in ParserWrites /\ r.op \in ParserWrites \ ParserLists
        /\ r.key \in SourceIds /\ DOMAIN r = {"id", "op", "key"}
    BY <1>0, <2>1 DEF ParserCall, ParserWrites, ParserLists
  <2>3. /\ DOMAIN v = ParserFields /\ v.revs \in SourceIds \cup {u.revs}
        /\ \A f \in ParserFields \ {"revs", "saving"} : v[f] = u[f]
    BY <1>0, <1>1, <2>1, <2>2 DEF ParserFields
  <2>4. v.saving = (u.saving /\ ok /\ r.op = "saved")
    BY <1>0, <1>1, <2>1, Zenon DEF ParserFields
  <2>5. CASE ok /\ r.op = "saved"
    <3>1. PICK n : n = [r EXCEPT !.op = "sources"] /\ net' = (net \ {r}) \cup {n}
      BY <2>1, <2>5
    <3>2. DOMAIN n = {"id", "op", "key"} /\ n.op = "sources" /\ n.key = r.key
      BY <2>2, <3>1
    <3>3. ParserCall(n)
      BY <2>2, <3>2 DEF ParserCall
    <3>4. v.saving = u.saving /\ v.saving \in BOOLEAN
      BY <1>0, <1>1, <2>4, <2>5
    <3> QED
      BY <1>2, <2>1, <2>2, <2>3, <3>1, <3>2, <3>3, <3>4
  <2>6. CASE ~(ok /\ r.op = "saved")
    <3>1. v.saving = FALSE /\ net' = net \ {r}
      BY <2>1, <2>4, <2>6
    <3> QED
      BY <1>2, <2>1, <2>2, <2>3, <3>1
  <2> QED
    BY <2>5, <2>6
<1> QED
  BY <1>3, <1>4

\* Revisions are ticked and compared.
LEMMA ParserCompares ==
  ASSUME ParserInv,
         ParserForm!TickRevision \/ ParserForm!Compare \/ ParserForm!AnswerDiff
  PROVE  ParserInv'
<1>0. /\ ParserTypes(ui) /\ ParserWaits(ui, net) /\ ParserHeld(ui, srv.last, net)
      /\ DOMAIN ui = ParserFields /\ ui.ticked \in TwoOf(SourceIds \X Nat)
      /\ ui.revs \in SourceIds \cup {"none"}
  BY ParserFacts DEF ParserTypes, ParserShape
<1>1. PICK v, u : v = ui' /\ u = ui
  OBVIOUS
<1>2. ASSUME DOMAIN v = ParserFields, v.comparing \in BOOLEAN,
             v.ticked \in TwoOf(SourceIds \X Nat),
             \A f \in ParserFields \ {"ticked", "comparing"} : v[f] = u[f]
      PROVE  /\ ParserTypes(v) /\ ParserHeld(v, srv.last, net)
             /\ v.loading = u.loading /\ v.saving = u.saving /\ v.keyed = u.keyed
             /\ v.sel = u.sel /\ v.def = u.def /\ v.crossed = u.crossed
  <2>1. /\ v.list = u.list /\ v.sel = u.sel /\ v.editor = u.editor
        /\ v.def = u.def /\ v.revs = u.revs
        /\ v.loading = u.loading /\ v.saving = u.saving
        /\ v.keyed = u.keyed /\ v.crossed = u.crossed
    BY <1>2 DEF ParserFields
  <2>2. ParserTypes(v)
    BY <1>0, <1>1, <1>2, <2>1 DEF ParserTypes, ParserShape
  <2>3. ParserHeld(v, srv.last, net)
    BY <1>0, <1>1, <2>1 DEF ParserHeld
  <2> QED
    BY <2>1, <2>2, <2>3
<1>3. u.comparing \in BOOLEAN
  BY <1>0, <1>1 DEF ParserTypes, ParserShape
<1>4. CASE ParserForm!TickRevision
  <2>1. PICK x \in Nat :
          /\ u.revs # "none" /\ net' = net /\ srv' = srv
          /\ v = [u EXCEPT !.ticked = ParserForm!Toggled(@, <<u.revs, x>>)]
    BY <1>1, <1>4, FrontendAssumption
       DEF ParserForm!TickRevision, ParserForm!ParserAssumption
  <2>2. PICK y, t : y = <<u.revs, x>> /\ t = ParserForm!Toggled(u.ticked, y)
    OBVIOUS
  <2>3. y \in SourceIds \X Nat
    BY <1>0, <1>1, <2>1, <2>2
  <2>4. t \in TwoOf(SourceIds \X Nat)
    BY <1>0, <1>1, <2>2, <2>3, ParserTicks
  <2>5. v = [u EXCEPT !.ticked = t]
    BY <2>1, <2>2
  <2>6. DOMAIN v = ParserFields /\ v.ticked = t /\ \A f \in ParserFields \ {"ticked"} : v[f] = u[f]
    BY <1>0, <1>1, <2>5 DEF ParserFields
  <2>7. v.comparing = u.comparing
    BY <2>6 DEF ParserFields
  <2>8. /\ ParserTypes(v) /\ ParserHeld(v, srv.last, net)
        /\ v.loading = u.loading /\ v.saving = u.saving /\ v.keyed = u.keyed
    BY <1>2, <1>3, <2>4, <2>6, <2>7
  <2>9. ParserWaits(v, net)
    BY <1>0, <1>1, <2>7, <2>8 DEF ParserWaits
  <2> QED
    BY <1>1, <2>1, <2>8, <2>9, ParserQuiet
<1>5. CASE ParserForm!Compare
  <2>1. PICK n :
          /\ v = [u EXCEPT !.comparing = TRUE] /\ srv' = srv /\ net' = net \cup {n}
          /\ n = [id |-> ParserForm!Fresh, op |-> "diff", key |-> u.def]
    BY <1>1, <1>5 DEF ParserForm!Compare, ParserForm!Sent
  <2>2. /\ DOMAIN v = ParserFields /\ v.comparing = TRUE
        /\ \A f \in ParserFields \ {"comparing"} : v[f] = u[f]
    BY <1>0, <1>1, <2>1 DEF ParserFields
  <2>3. v.ticked \in TwoOf(SourceIds \X Nat)
    BY <1>0, <1>1, <2>2 DEF ParserFields
  <2>4. DOMAIN n = {"id", "op", "key"} /\ n.op = "diff"
    BY <2>1
  <2>5. ParserCall(n) /\ n.op \notin ParserParsing
    BY <2>4 DEF ParserCall, ParserReads, ParserWrites, ParserParsing
  <2>6. /\ ParserTypes(v) /\ ParserHeld(v, srv.last, net)
        /\ v.loading = u.loading /\ v.saving = u.saving /\ v.keyed = u.keyed
    BY <1>2, <2>2, <2>3
  <2>7. ParserWaits(v, net \cup {n})
    BY <1>0, <1>1, <2>4, <2>5, <2>6, ParserSends
  <2>8. ParserHeld(v, srv.last, net \cup {n})
    BY <2>5, <2>6, ParserKeeps
  <2> QED
    BY <1>1, <2>1, <2>6, <2>7, <2>8, ParserQuiet
<1>6. CASE ParserForm!AnswerDiff
  <2>1. PICK r \in net :
          /\ r.op = "diff" /\ srv' = srv /\ net' = net \ {r}
          /\ v = [u EXCEPT !.comparing = FALSE]
    BY <1>1, <1>6 DEF ParserForm!AnswerDiff, ParserForm!Pending, ParserForm!Without
  <2>2. /\ DOMAIN v = ParserFields /\ v.comparing = FALSE
        /\ \A f \in ParserFields \ {"comparing"} : v[f] = u[f]
    BY <1>0, <1>1, <2>1 DEF ParserFields
  <2>3. v.ticked \in TwoOf(SourceIds \X Nat)
    BY <1>0, <1>1, <2>2 DEF ParserFields
  <2>4. /\ ParserTypes(v) /\ ParserHeld(v, srv.last, net)
        /\ v.loading = u.loading /\ v.saving = u.saving /\ v.keyed = u.keyed
    BY <1>2, <2>2, <2>3
  <2>5. ParserWaits(v, net \ {r})
    BY <1>0, <1>1, <2>1, <2>2, <2>4, ParserEnds
  <2>6. ParserHeld(v, srv.last, net \ {r})
    BY <2>1, <2>4, ParserKeeps DEF ParserLists
  <2> QED
    BY <1>1, <2>1, <2>4, <2>5, <2>6, ParserQuiet
<1> QED
  BY <1>4, <1>5, <1>6

\* Every step of the form of the parser.
LEMMA ParserFormStep == ASSUME ParserInv, ParserForm!Next PROVE ParserInv'
BY ParserChooses, ParserListed, ParserDeletes, ParserLoads, ParserSendsWrite, ParserWritten,
   ParserAfterWrite, ParserCompares
   DEF ParserForm!Next

\* Nothing changes while the page is left alone.
LEMMA ParserFormStays == ASSUME ParserInv, UNCHANGED vars PROVE ParserInv'
BY DEF vars, ParserInv, ParserStored, ParserTypes, ParserShape, ParserWaits, ParserHeld,
       ParserCall, ParserKey

\* What the invariant says of the page.
LEMMA ParserFormHolds ==
  ASSUME ParserInv
  PROVE  /\ ParserForm!TypeOK /\ ParserForm!BusyIsAwaited /\ ParserForm!HeldIsOfSelected
         /\ ParserForm!OneWrite
<1>1. ParserForm!TypeOK
  <2>1. ui.ticked \in TwoOf(SourceIds \X Nat)
    BY DEF ParserInv, ParserTypes, ParserShape
  <2>2. Len(ui.ticked) <= 2
    <3>1. CASE ui.ticked = << >>
      BY <3>1
    <3>2. ASSUME NEW a, ui.ticked = <<a>> PROVE Len(ui.ticked) <= 2
      BY <3>2
    <3>3. ASSUME NEW a, NEW b, ui.ticked = <<a, b>> PROVE Len(ui.ticked) <= 2
      BY <3>3
    <3> QED
      BY <2>1, <3>1, <3>2, <3>3 DEF TwoOf
  <2> QED
    BY <2>2 DEF ParserInv, ParserTypes, ParserShape, ParserStored, ParserForm!TypeOK
<1>2. ParserForm!BusyIsAwaited
  BY DEF ParserInv, ParserWaits, ParserReads, ParserWrites, ParserForm!BusyIsAwaited,
         ParserForm!Pending, ParserForm!Writes
<1>3. ParserForm!OneWrite
  <2>1. PICK S : S = ParserForm!Writes
    OBVIOUS
  <2>2. ui.keyed \/ \A r, x \in S : r = x
    BY <2>1 DEF ParserInv, ParserWaits, ParserForm!Writes, ParserWrites
  <2>3. ui.keyed \/ Cardinality(S) <= 1
    BY <2>2, LoneCardinality
  <2> QED
    BY <2>1, <2>3 DEF ParserForm!OneWrite, ParserForm!Cardinality, Cardinality
<1>4. ParserForm!HeldIsOfSelected
  BY DEF ParserInv, ParserHeld, ParserLists, ParserForm!HeldIsOfSelected, ParserForm!Pending,
         ParserForm!ListLoads
<1> QED
  BY <1>1, <1>2, <1>3, <1>4

-----------------------------------------------------------------------------
(* ParserPage: the parser that is held is stored.                              *)

PageFields == {"source", "sources", "def", "text", "loading", "busy"}
PageLoads  == {"reload", "first"}
PageTasks  == {"create", "update", "preview", "rollback"}

\* A call names a source; a rollback one whose parser is among those stored, P.
PageCall(r, P) ==
  /\ DOMAIN r = {"id", "op", "key"}
  /\ r.op \in {"first", "parser"} => r.key \in Parsers \cup {"none"}
  /\ r.op \in {"create", "update"} => r.key \in Parsers
  /\ r.op = "rollback" => r.key \in P

\* What a state u of the page waits for is among its calls N; one task at a time.
PageWaits(u, N, P) ==
  /\ \A r \in N : PageCall(r, P)
  /\ u.loading => \E r \in N : r.op \in PageLoads
  /\ u.busy <=> \E r \in N : r.op \in PageTasks
  /\ \A r, x \in N : {r.op, x.op} \subseteq PageTasks => r = x

\* What a state u of the page holds.
PageHolds(u, P) ==
  /\ DOMAIN u = PageFields
  /\ u.source \in Parsers \cup {"none"} /\ u.text \in Parsers \cup {"none"}
  /\ u.sources \subseteq Parsers /\ u.loading \in BOOLEAN /\ u.busy \in BOOLEAN
  /\ u.def \in P \cup {"none"}

PageInv ==
  /\ DOMAIN srv = {"parsers"} /\ srv.parsers \subseteq Parsers
  /\ PageHolds(ui, srv.parsers) /\ PageWaits(ui, net, srv.parsers)

\* The page is empty, and the sources are on their way.
LEMMA PageInit == Parser!Init => PageInv
<1> SUFFICES ASSUME Parser!Init PROVE PageInv
  OBVIOUS
<1>1. /\ DOMAIN ui = PageFields /\ ui.source = "none" /\ ui.sources = {} /\ ui.def = "none"
      /\ ui.text = "none" /\ ui.loading = TRUE /\ ui.busy = FALSE
  BY DEF Parser!Init, Parser!Mounted, PageFields
<1>2. PICK n : n = [id |-> 1, op |-> "reload", key |-> "none"] /\ net = {n}
  BY DEF Parser!Init
<1>3. PICK P \in SUBSET Parsers : srv = [parsers |-> P]
  BY DEF Parser!Init, Parser!Stored
<1>4. PageHolds(ui, P)
  BY <1>1 DEF PageHolds
<1>5. DOMAIN n = {"id", "op", "key"} /\ n.op = "reload"
  BY <1>2
<1>6. PageWaits(ui, net, P)
  BY <1>1, <1>2, <1>5 DEF PageWaits, PageCall, PageLoads, PageTasks
<1> QED
  BY <1>3, <1>4, <1>6 DEF PageInv

\* A call more, of which the page waits for the answer.
LEMMA PageSends ==
  ASSUME NEW u, NEW v, NEW N, NEW P, NEW n, PageWaits(u, N, P), PageCall(n, P),
         \/ n.op \in PageLoads /\ v.loading = TRUE /\ v.busy = u.busy
         \/ n.op \in PageTasks /\ ~u.busy /\ v.loading = u.loading /\ v.busy = TRUE
         \/ n.op = "parser" /\ v.loading = u.loading /\ v.busy = u.busy
  PROVE  PageWaits(v, N \cup {n}, P)
BY DEF PageWaits, PageLoads, PageTasks

\* A call that was answered and is over.
LEMMA PageEnds ==
  ASSUME NEW u, NEW v, NEW N, NEW P, NEW r \in N, PageWaits(u, N, P),
         \/ r.op \in PageLoads /\ v.loading = FALSE /\ v.busy = u.busy
         \/ r.op \in PageTasks /\ v.loading = u.loading /\ v.busy = FALSE
         \/ r.op = "parser" /\ v.loading = u.loading /\ v.busy = u.busy
  PROVE  PageWaits(v, N \ {r}, P)
BY DEF PageWaits, PageLoads, PageTasks

\* A call whose answer is followed by another; no parser is taken away meanwhile.
LEMMA PageGoesOn ==
  ASSUME NEW u, NEW v, NEW N, NEW P, NEW Q, P \subseteq Q, NEW r \in N, NEW n,
         PageWaits(u, N, P), PageCall(n, Q),
         \/ {r.op, n.op} \subseteq PageLoads /\ v.busy = u.busy
         \/ r.op \in PageTasks /\ n.op = "parser" /\ v.loading = u.loading /\ v.busy = FALSE
  PROVE  PageWaits(v, (N \ {r}) \cup {n}, Q)
<1>1. \A x \in N : PageCall(x, Q)
  BY DEF PageWaits, PageCall
<1> QED
  BY <1>1 DEF PageWaits, PageLoads, PageTasks

\* A step that leaves what is stored as it is.
LEMMA PageQuiet ==
  ASSUME PageInv, UNCHANGED srv, PageHolds(ui', srv.parsers), PageWaits(ui', net', srv.parsers)
  PROVE  PageInv'
BY DEF PageInv, PageHolds, PageWaits, PageCall

\* The form with what the server has for a source.
LEMMA PageHydrated ==
  ASSUME NEW u, PageHolds(u, srv.parsers), NEW s \in Parsers \cup {"none"}
  PROVE  /\ PageHolds(Parser!Hydrated(u, s), srv.parsers)
         /\ \A f \in PageFields \ {"def", "text"} : Parser!Hydrated(u, s)[f] = u[f]
<1> PICK v : v = Parser!Hydrated(u, s)
  OBVIOUS
<1>1. PICK d : d = (IF s \in srv.parsers THEN s ELSE "none")
  OBVIOUS
<1>2. v = [u EXCEPT !.def = d, !.text = s]
  BY <1>1 DEF Parser!Hydrated
<1>3. /\ DOMAIN v = PageFields /\ v.def = d /\ v.text = s
      /\ \A f \in PageFields \ {"def", "text"} : v[f] = u[f]
  BY <1>2 DEF PageHolds, PageFields
<1>4. v.source = u.source /\ v.sources = u.sources /\ v.loading = u.loading /\ v.busy = u.busy
  BY <1>3 DEF PageFields
<1> QED
  BY <1>1, <1>3, <1>4 DEF PageHolds

\* The sources arrive, and the first parser of the one that is chosen.
LEMMA PageLoaded ==
  ASSUME PageInv, Parser!AnswerReload \/ Parser!AnswerFirst \/ Parser!AnswerParser
  PROVE  PageInv'
<1>0. /\ PageHolds(ui, srv.parsers) /\ PageWaits(ui, net, srv.parsers)
      /\ srv.parsers \subseteq Parsers /\ DOMAIN ui = PageFields
      /\ ui.source \in Parsers \cup {"none"}
  BY DEF PageInv, PageHolds
<1>1. PICK v, u : v = ui' /\ u = ui
  OBVIOUS
<1>2. ASSUME NEW w, NEW b \in BOOLEAN, PageHolds(w, srv.parsers), v = [w EXCEPT !.loading = b]
      PROVE  /\ PageHolds(v, srv.parsers) /\ v.loading = b
             /\ \A f \in PageFields \ {"loading"} : v[f] = w[f]
  <2>1. /\ DOMAIN v = PageFields /\ v.loading = b
        /\ \A f \in PageFields \ {"loading"} : v[f] = w[f]
    BY <1>2 DEF PageHolds, PageFields
  <2>2. /\ v.source = w.source /\ v.sources = w.sources /\ v.def = w.def /\ v.text = w.text
        /\ v.busy = w.busy
    BY <2>1 DEF PageFields
  <2> QED
    BY <1>2, <2>1, <2>2 DEF PageHolds
<1>3. CASE Parser!AnswerReload
  <2>1. PICK r \in net : /\ r.op = "reload" /\ srv' = srv
          /\ \/ \E s \in Parser!Choice :
                  /\ ui' = [Parser!Hydrated([ui EXCEPT !.source = s, !.sources = Parsers], s)
                              EXCEPT !.loading = s \notin srv.parsers]
                  /\ net' = IF s \in srv.parsers THEN Parser!Without(r)
                            ELSE Parser!Without(r) \cup {[r EXCEPT !.op = "first", !.key = s]}
             \/ ui' = [ui EXCEPT !.loading = FALSE] /\ net' = Parser!Without(r)
    BY <1>3 DEF Parser!AnswerReload, Parser!Pending
  <2>2. CASE ui' = [ui EXCEPT !.loading = FALSE] /\ net' = Parser!Without(r)
    <3>1. net' = net \ {r} /\ v = [u EXCEPT !.loading = FALSE]
      BY <1>1, <2>2 DEF Parser!Without
    <3>2. /\ PageHolds(v, srv.parsers) /\ v.loading = FALSE
          /\ \A f \in PageFields \ {"loading"} : v[f] = u[f]
      BY <1>0, <1>1, <1>2, <3>1
    <3>3. v.busy = u.busy /\ r.op \in PageLoads
      BY <2>1, <3>2 DEF PageFields, PageLoads
    <3>4. PageWaits(v, net \ {r}, srv.parsers)
      BY <1>0, <1>1, <3>2, <3>3, PageEnds
    <3> QED
      BY <1>1, <2>1, <3>1, <3>2, <3>4, PageQuiet
  <2>3. ASSUME NEW s \in Parser!Choice,
               ui' = [Parser!Hydrated([ui EXCEPT !.source = s, !.sources = Parsers], s)
                        EXCEPT !.loading = s \notin srv.parsers],
               net' = IF s \in srv.parsers THEN Parser!Without(r)
                      ELSE Parser!Without(r) \cup {[r EXCEPT !.op = "first", !.key = s]}
        PROVE  PageInv'
    <3>1. s \in Parsers
      BY <1>0, <2>3 DEF Parser!Choice
    <3>2. PICK x, w, b :
            /\ x = [u EXCEPT !.source = s, !.sources = Parsers]
            /\ w = Parser!Hydrated(x, s) /\ b = (s \notin srv.parsers)
      OBVIOUS
    <3>3. v = [w EXCEPT !.loading = b] /\ b \in BOOLEAN
      BY <1>1, <2>3, <3>2
    <3>4. PageHolds(x, srv.parsers) /\ x.busy = u.busy
      <4>1. /\ DOMAIN x = PageFields /\ x.source = s /\ x.sources = Parsers
            /\ \A f \in PageFields \ {"source", "sources"} : x[f] = u[f]
        BY <1>0, <1>1, <3>2 DEF PageFields
      <4>2. x.def = u.def /\ x.text = u.text /\ x.loading = u.loading /\ x.busy = u.busy
        BY <4>1 DEF PageFields
      <4> QED
        BY <1>0, <1>1, <3>1, <4>1, <4>2 DEF PageHolds
    <3>5. /\ PageHolds(w, srv.parsers)
          /\ \A f \in PageFields \ {"def", "text"} : w[f] = x[f]
      BY <3>1, <3>2, <3>4, PageHydrated
    <3>6. /\ PageHolds(v, srv.parsers) /\ v.loading = b
          /\ \A f \in PageFields \ {"loading"} : v[f] = w[f]
      BY <1>2, <3>3, <3>5
    <3>7. v.busy = u.busy
      BY <3>4, <3>5, <3>6 DEF PageFields
    <3>8. r.op \in PageLoads /\ PageCall(r, srv.parsers)
      BY <1>0, <2>1 DEF PageLoads, PageWaits
    <3>9. CASE s \in srv.parsers
      <4>1. net' = net \ {r} /\ v.loading = FALSE
        BY <2>3, <3>2, <3>6, <3>9 DEF Parser!Without
      <4>2. PageWaits(v, net \ {r}, srv.parsers)
        BY <1>0, <1>1, <3>7, <3>8, <4>1, PageEnds
      <4> QED
        BY <1>1, <2>1, <3>6, <4>1, <4>2, PageQuiet
    <3>10. CASE s \notin srv.parsers
      <4>1. PICK n : n = [r EXCEPT !.op = "first", !.key = s]
        OBVIOUS
      <4>2. net' = (net \ {r}) \cup {n}
        BY <2>3, <3>10, <4>1 DEF Parser!Without
      <4>3. DOMAIN n = {"id", "op", "key"} /\ n.op = "first" /\ n.key = s
        BY <3>8, <4>1 DEF PageCall
      <4>4. PageCall(n, srv.parsers) /\ n.op \in PageLoads
        BY <3>1, <4>3 DEF PageCall, PageLoads
      <4>5. {r.op, n.op} \subseteq PageLoads /\ srv.parsers \subseteq srv.parsers
        BY <3>8, <4>4
      <4>6. PageWaits(v, (net \ {r}) \cup {n}, srv.parsers)
        BY <1>0, <1>1, <3>7, <4>4, <4>5, PageGoesOn
      <4> QED
        BY <1>1, <2>1, <3>6, <4>2, <4>6, PageQuiet
    <3> QED
      BY <3>9, <3>10
  <2> QED
    BY <2>1, <2>2, <2>3
<1>4. CASE Parser!AnswerFirst
  <2>1. PICK r \in net, ok \in BOOLEAN :
          /\ r.op = "first" /\ srv' = srv /\ net' = net \ {r}
          /\ v = [(IF ok THEN Parser!Hydrated(u, r.key) ELSE u) EXCEPT !.loading = FALSE]
    BY <1>1, <1>4 DEF Parser!AnswerFirst, Parser!Pending, Parser!Without
  <2>2. PICK w : w = (IF ok THEN Parser!Hydrated(u, r.key) ELSE u)
    OBVIOUS
  <2>3. r.key \in Parsers \cup {"none"} /\ r.op \in PageLoads
    BY <1>0, <2>1 DEF PageWaits, PageCall, PageLoads
  <2>4. PageHolds(w, srv.parsers) /\ \A f \in PageFields \ {"def", "text"} : w[f] = u[f]
    BY <1>0, <1>1, <2>2, <2>3, PageHydrated
  <2>8. v = [w EXCEPT !.loading = FALSE] /\ FALSE \in BOOLEAN
    BY <2>1, <2>2
  <2>5. /\ PageHolds(v, srv.parsers) /\ v.loading = FALSE
        /\ \A f \in PageFields \ {"loading"} : v[f] = w[f]
    BY <1>2, <2>4, <2>8
  <2>6. v.busy = u.busy
    BY <2>4, <2>5 DEF PageFields
  <2>7. PageWaits(v, net \ {r}, srv.parsers)
    BY <1>0, <1>1, <2>1, <2>3, <2>5, <2>6, PageEnds
  <2> QED
    BY <1>1, <2>1, <2>5, <2>7, PageQuiet
<1>5. CASE Parser!AnswerParser
  <2>1. PICK r \in net, ok \in BOOLEAN :
          /\ r.op = "parser" /\ srv' = srv /\ net' = net \ {r}
          /\ v = IF ok THEN Parser!Hydrated(u, r.key) ELSE u
    BY <1>1, <1>5 DEF Parser!AnswerParser, Parser!Pending, Parser!Without
  <2>2. r.key \in Parsers \cup {"none"}
    BY <1>0, <2>1 DEF PageWaits, PageCall
  <2>3. PageHolds(v, srv.parsers) /\ \A f \in PageFields \ {"def", "text"} : v[f] = u[f]
    BY <1>0, <1>1, <2>1, <2>2, PageHydrated
  <2>4. v.loading = u.loading /\ v.busy = u.busy
    BY <2>3 DEF PageFields
  <2>5. PageWaits(v, net \ {r}, srv.parsers)
    BY <1>0, <1>1, <2>1, <2>4, PageEnds
  <2> QED
    BY <1>1, <2>1, <2>3, <2>5, PageQuiet
<1> QED
  BY <1>3, <1>4, <1>5

\* What the user asks for: another source, a task, the sources again.
LEMMA PageAsks ==
  ASSUME PageInv,
         Parser!SourceChange \/ Parser!Save \/ Parser!RunPreview \/ Parser!RunRollback
           \/ Parser!Reload
  PROVE  PageInv'
<1>0. /\ PageHolds(ui, srv.parsers) /\ PageWaits(ui, net, srv.parsers)
      /\ srv.parsers \subseteq Parsers /\ DOMAIN ui = PageFields
      /\ ui.source \in Parsers \cup {"none"} /\ ui.sources \subseteq Parsers
      /\ ui.def \in srv.parsers \cup {"none"}
  BY DEF PageInv, PageHolds
<1>1. PICK v, u : v = ui' /\ u = ui
  OBVIOUS
<1>2. ASSUME NEW op, NEW k, net' = Parser!Sent(op, k), srv' = srv, DOMAIN v = PageFields,
             v.source \in Parsers \cup {"none"},
             \A f \in PageFields \ {"source", "loading", "busy"} : v[f] = u[f],
             \/ op = "reload" /\ v.loading = TRUE /\ v.busy = u.busy
             \/ /\ op = "parser" /\ k \in Parsers /\ v.loading = u.loading /\ v.busy = u.busy
             \/ /\ op \in PageTasks /\ (op \in {"create", "update"} => k \in Parsers)
                /\ (op = "rollback" => k \in srv.parsers)
                /\ ~u.busy /\ v.loading = u.loading /\ v.busy = TRUE
      PROVE  PageInv'
  <2>1. PICK n : n = [id |-> Parser!Fresh, op |-> op, key |-> k]
    OBVIOUS
  <2>2. DOMAIN n = {"id", "op", "key"} /\ n.op = op /\ n.key = k /\ net' = net \cup {n}
    BY <1>2, <2>1 DEF Parser!Sent
  <2>3. PageCall(n, srv.parsers)
    BY <1>2, <2>2 DEF PageCall, PageTasks
  <2>4. v.sources = u.sources /\ v.def = u.def /\ v.text = u.text
    BY <1>2 DEF PageFields
  <2>5. PageHolds(v, srv.parsers)
    <3>1. u.loading \in BOOLEAN /\ u.busy \in BOOLEAN
      BY <1>0, <1>1 DEF PageHolds
    <3>2. v.loading \in BOOLEAN /\ v.busy \in BOOLEAN
      BY <1>2, <3>1
    <3> QED
      BY <1>0, <1>1, <1>2, <2>4, <3>2 DEF PageHolds
  <2>6. PageWaits(v, net \cup {n}, srv.parsers)
    BY <1>0, <1>1, <1>2, <2>2, <2>3, PageSends DEF PageLoads
  <2> QED
    BY <1>1, <1>2, <2>2, <2>5, <2>6, PageQuiet
<1>3. CASE Parser!SourceChange
  <2>1. PICK s \in Parsers : v = [u EXCEPT !.source = s] /\ net' = Parser!Sent("parser", s)
                             /\ srv' = srv
    BY <1>0, <1>1, <1>3 DEF Parser!SourceChange
  <2>2. /\ DOMAIN v = PageFields /\ v.source = s
        /\ \A f \in PageFields \ {"source"} : v[f] = u[f]
    BY <1>0, <1>1, <2>1 DEF PageFields
  <2> QED
    BY <1>2, <2>1, <2>2 DEF PageFields
<1>4. CASE Parser!Reload
  <2>1. v = [u EXCEPT !.loading = TRUE] /\ net' = Parser!Sent("reload", "none") /\ srv' = srv
    BY <1>1, <1>4 DEF Parser!Reload
  <2>2. /\ DOMAIN v = PageFields /\ v.loading = TRUE
        /\ \A f \in PageFields \ {"loading"} : v[f] = u[f]
    BY <1>0, <1>1, <2>1 DEF PageFields
  <2>3. v.source \in Parsers \cup {"none"} /\ v.busy = u.busy
    BY <1>0, <1>1, <2>2 DEF PageFields
  <2> QED
    BY <1>2, <2>1, <2>2, <2>3 DEF PageFields
<1>5. CASE Parser!Save \/ Parser!RunPreview \/ Parser!RunRollback
  <2>1. PICK op, k :
          /\ op \in {"create", "update", "preview", "rollback"}
          /\ op \in {"create", "update"} => k \in Parsers
          /\ op = "rollback" => k \in srv.parsers
          /\ ~u.busy /\ v = [u EXCEPT !.busy = TRUE] /\ net' = Parser!Sent(op, k) /\ srv' = srv
    <3>1. CASE Parser!Save
      BY <1>0, <1>1, <3>1 DEF Parser!Save, Parser!Sent
    <3>2. CASE Parser!RunPreview
      BY <1>0, <1>1, <3>2 DEF Parser!RunPreview
    <3>3. CASE Parser!RunRollback
      BY <1>0, <1>1, <3>3 DEF Parser!RunRollback
    <3> QED
      BY <1>5, <3>1, <3>2, <3>3
  <2>2. /\ DOMAIN v = PageFields /\ v.busy = TRUE
        /\ \A f \in PageFields \ {"busy"} : v[f] = u[f]
    BY <1>0, <1>1, <2>1 DEF PageFields
  <2>3. v.source \in Parsers \cup {"none"} /\ v.loading = u.loading
    BY <1>0, <1>1, <2>2 DEF PageFields
  <2>4. op \in PageTasks
    BY <2>1 DEF PageTasks
  <2> QED
    BY <1>2, <2>1, <2>2, <2>3, <2>4 DEF PageFields
<1> QED
  BY <1>3, <1>4, <1>5

\* A save is answered: the parser is stored, and held; a task ends.
LEMMA PageAnswers ==
  ASSUME PageInv, Parser!AnswerSave \/ Parser!AnswerTask
  PROVE  PageInv'
<1>0. /\ PageHolds(ui, srv.parsers) /\ PageWaits(ui, net, srv.parsers)
      /\ srv.parsers \subseteq Parsers /\ DOMAIN ui = PageFields
      /\ ui.source \in Parsers \cup {"none"} /\ DOMAIN srv = {"parsers"}
      /\ ui.def \in srv.parsers \cup {"none"}
  BY DEF PageInv, PageHolds
<1>1. PICK v, u : v = ui' /\ u = ui
  OBVIOUS
<1>2. CASE Parser!AnswerSave
  <2>1. PICK r \in net :
          /\ r.op \in {"create", "update"}
          /\ \/ /\ srv' = [srv EXCEPT !.parsers = @ \cup {r.key}]
                /\ ui' = [ui EXCEPT !.def = r.key, !.busy = FALSE]
             \/ srv' = srv /\ ui' = [ui EXCEPT !.busy = FALSE]
          /\ net' = Parser!Without(r) \cup {[r EXCEPT !.op = "parser", !.key = ui.source]}
    BY <1>2 DEF Parser!AnswerSave, Parser!Pending
  <2>2. PICK n : n = [r EXCEPT !.op = "parser", !.key = u.source]
    OBVIOUS
  <2>3. net' = (net \ {r}) \cup {n}
    BY <1>1, <2>1, <2>2 DEF Parser!Without
  <2>4. PageCall(r, srv.parsers) /\ r.op \in PageTasks /\ r.key \in Parsers
    BY <1>0, <2>1 DEF PageWaits, PageCall, PageTasks
  <2>5. DOMAIN n = {"id", "op", "key"} /\ n.op = "parser" /\ n.key = u.source
    BY <2>2, <2>4 DEF PageCall
  <2>6. PICK P : P = srv'.parsers
    OBVIOUS
  <2>7. /\ DOMAIN srv' = {"parsers"} /\ P \subseteq Parsers /\ srv.parsers \subseteq P
        /\ v.def \in P \cup {"none"} /\ DOMAIN v = PageFields /\ v.busy = FALSE
        /\ \A f \in PageFields \ {"def", "busy"} : v[f] = u[f]
    <3>1. CASE /\ srv' = [srv EXCEPT !.parsers = @ \cup {r.key}]
               /\ ui' = [ui EXCEPT !.def = r.key, !.busy = FALSE]
      <4>1. DOMAIN srv' = {"parsers"} /\ P = srv.parsers \cup {r.key}
        BY <1>0, <2>6, <3>1
      <4>2. /\ DOMAIN v = PageFields /\ v.def = r.key /\ v.busy = FALSE
            /\ \A f \in PageFields \ {"def", "busy"} : v[f] = u[f]
        BY <1>0, <1>1, <3>1 DEF PageFields
      <4> QED
        BY <1>0, <2>4, <4>1, <4>2
    <3>2. CASE srv' = srv /\ ui' = [ui EXCEPT !.busy = FALSE]
      <4>1. DOMAIN srv' = {"parsers"} /\ P = srv.parsers
        BY <1>0, <2>6, <3>2
      <4>2. /\ DOMAIN v = PageFields /\ v.busy = FALSE
            /\ \A f \in PageFields \ {"busy"} : v[f] = u[f]
        BY <1>0, <1>1, <3>2 DEF PageFields
      <4>3. v.def = u.def
        BY <4>2 DEF PageFields
      <4> QED
        BY <1>0, <1>1, <4>1, <4>2, <4>3
    <3> QED
      BY <2>1, <3>1, <3>2
  <2>8. /\ v.source = u.source /\ v.sources = u.sources /\ v.text = u.text
        /\ v.loading = u.loading
    BY <2>7 DEF PageFields
  <2>9. PageHolds(v, P)
    BY <1>0, <1>1, <2>7, <2>8 DEF PageHolds
  <2>10. PageCall(n, P)
    BY <1>0, <1>1, <2>5 DEF PageCall
  <2>11. PageWaits(v, (net \ {r}) \cup {n}, P)
    BY <1>0, <1>1, <2>4, <2>5, <2>7, <2>8, <2>10, PageGoesOn
  <2>12. PageHolds(ui', srv'.parsers) /\ PageWaits(ui', net', srv'.parsers)
    BY <1>1, <2>3, <2>6, <2>9, <2>11
  <2> QED
    BY <2>6, <2>7, <2>12 DEF PageInv, PageHolds, PageWaits, PageCall
<1>3. CASE Parser!AnswerTask
  <2>1. PICK r, d, t :
          /\ r \in net
          /\ r.op \in {"preview", "rollback"} /\ net' = net \ {r} /\ srv' = srv
          /\ v = [u EXCEPT !.busy = FALSE, !.def = d, !.text = t]
          /\ \/ d = u.def /\ t = u.text
             \/ r.op = "rollback" /\ d = r.key /\ t = r.key
    BY <1>1, <1>3 DEF Parser!AnswerTask, Parser!Pending, Parser!Without
  <2>2. r.op = "rollback" => r.key \in srv.parsers
    BY <1>0, <2>1 DEF PageWaits, PageCall
  <2>3. /\ DOMAIN v = PageFields /\ v.busy = FALSE /\ v.def = d /\ v.text = t
        /\ \A f \in PageFields \ {"busy", "def", "text"} : v[f] = u[f]
    BY <1>0, <1>1, <2>1 DEF PageFields
  <2>4. v.source = u.source /\ v.sources = u.sources /\ v.loading = u.loading
    BY <2>3 DEF PageFields
  <2>5. PageHolds(v, srv.parsers)
    BY <1>0, <1>1, <2>1, <2>2, <2>3, <2>4 DEF PageHolds
  <2>6. r \in net /\ r.op \in PageTasks
    BY <2>1 DEF PageTasks
  <2>7. PageWaits(v, net \ {r}, srv.parsers)
    BY <1>0, <1>1, <2>3, <2>4, <2>6, PageEnds
  <2> QED
    BY <1>1, <2>1, <2>5, <2>7, PageQuiet
<1> QED
  BY <1>2, <1>3

\* Every step of the page.
LEMMA PageStep == ASSUME PageInv, Parser!Next PROVE PageInv'
BY PageLoaded, PageAsks, PageAnswers DEF Parser!Next

\* Nothing changes while the page is left alone.
LEMMA PageStays == ASSUME PageInv, UNCHANGED vars PROVE PageInv'
BY DEF vars, PageInv, PageHolds, PageWaits, PageCall

\* What the invariant says of the page.
LEMMA PageSays ==
  ASSUME PageInv
  PROVE  /\ Parser!TypeOK /\ Parser!BusyIsAwaited /\ Parser!OneWrite
<1>1. Parser!TypeOK
  <2>1. {ui.source, ui.def, ui.text} \subseteq Parsers \cup {"none"}
    BY DEF PageInv, PageHolds
  <2> QED
    BY <2>1 DEF PageInv, PageHolds, Parser!TypeOK
<1>2. Parser!BusyIsAwaited
  BY DEF PageInv, PageWaits, PageLoads, PageTasks, Parser!BusyIsAwaited, Parser!Pending,
         Parser!Tasks
<1>3. Parser!OneWrite
  <2>1. PICK S : S = Parser!Tasks
    OBVIOUS
  <2>2. \A r, x \in S : r = x
    BY <2>1 DEF PageInv, PageWaits, Parser!Tasks, PageTasks
  <2>3. Cardinality(S) <= 1
    BY <2>2, LoneCardinality
  <2> QED
    BY <2>1, <2>3 DEF Parser!OneWrite, Parser!Cardinality, Cardinality
<1> QED
  BY <1>1, <1>2, <1>3
=============================================================================
