--------------------------- MODULE IngestionProofs ---------------------------
(* Theorems about Ingestion, for every set of runs, keys, titles and batches. *)
EXTENDS Ingestion, FiniteSetTheorems, TLAPS

\* The labels between the increment of summary.processed and the end of the
\* event: there the current event exists.
InEvent == {"rule", "lookup", "create", "occurrence", "update", "errlog"}

CurrentEventExists ==
    \A r \in Runs :
        /\ pc[r] \in InEvent => pos[r] \in 1 .. Len(batch[r])
        /\ pc[r] \in {"idle", "policy", "fetch"} => pos[r] = 0

TypeInv == TypeOK /\ CurrentEventExists

\* The current event of an execution is an event.
LEMMA CurrentEvent ==
    ASSUME TypeInv, NEW r \in Runs, pc[r] \in InEvent
    PROVE  Cur(r) \in Event
  <1>1. batch[r] \in Seq(Event)
    BY DEF TypeInv, TypeOK
  <1>2. pos[r] \in 1 .. Len(batch[r])
    BY DEF TypeInv, CurrentEventExists
  <1> QED BY <1>1, <1>2 DEF Cur

LEMMA IncrementType ==
    ASSUME NEW o \in Occurrence, NEW t \in Nat
    PROVE  Increment(o, t) \in Occurrence /\ Increment(o, t).count = o.count + 1
  BY DEF Increment, Lower, Higher, Occurrence

\* Counting keeps the summaries' type.
LEMMA TallyType ==
    ASSUME sum \in [Runs -> Summary], NEW r \in Runs,
           NEW c \in Nat, NEW u \in Nat, NEW x \in Nat, Tally(r, c, u, x)
    PROVE  sum' \in [Runs -> Summary]
  <1>1. Count(sum[r], c, u, x) \in Summary
    BY DEF Count, Summary
  <1> QED BY <1>1 DEF Tally

\* The end of an event keeps the locals' types and the other executions.
LEMMA EndEventType ==
    ASSUME TypeInv, NEW r \in Runs, EndEvent(r)
    PROVE  /\ target' \in [Runs -> AlertId \cup {NoAlert}]
           /\ seen' \in [Runs -> Occurrence]
           /\ received' \in [Runs -> Rule]
           /\ \A s \in Runs \ {r} : target'[s] = target[s] /\ seen'[s] = seen[s]
  <1>1. NoOcc \in Occurrence /\ NoRule \in Rule
    BY DEF NoOcc, Occurrence, NoRule, Rule
  <1> QED BY <1>1 DEF EndEvent, TypeInv, TypeOK

\* An update of the rules touches nothing else.
LEMMA EditKeeps ==
    ASSUME EditRules
    PROVE  UNCHANGED <<progress, run, alert, tagged, log, policy, health, deleted, raced, torn>>
  BY DEF EditRules, ReadRules, RewriteRule, DropRules, StopEdit, history

LEMMA InitType == Init => TypeInv
  <1> SUFFICES ASSUME Init PROVE TypeInv
    OBVIOUS
  <1>1. DOMAIN alert = {} /\ alert \in [DOMAIN alert -> Alert]
    BY DEF Init
  <1>4. DOMAIN edit = {} /\ edit \in [DOMAIN edit -> Rule]
    BY DEF Init
  <1>2. TypeOK
    BY <1>1, <1>4, NoAlertAssumption
       DEF Init, TypeOK, Labels, NoSum, NoOcc, EmptyRow, Row,
           Occurrence, Summary, NoRule, Rule
  <1>3. CurrentEventExists
    BY DEF Init, CurrentEventExists, InEvent
  <1> QED BY <1>2, <1>3 DEF TypeInv

\* A committed transaction keeps the types.
LEMMA CommitType ==
    ASSUME TypeInv, NEW r \in Runs, pc[r] \in InEvent,
           NEW a \in AlertId, NEW v \in Alert,
           NEW action \in {"created", "updated"},
           Commit(r, a, v, action), raced' \subseteq Keys, torn' \subseteq AlertId,
           doubted' = doubted, sum' \in [Runs -> Summary]
    PROVE  TypeInv'
  <1> DEFINE P == Put(alert, a, v)
  <1>0. /\ alert' = P /\ DOMAIN P = DOMAIN alert \cup {a}
        /\ P \in [DOMAIN P -> Alert]
    BY DEF Commit, TypeInv, TypeOK, Put
  <1>1. DOMAIN alert' \subseteq AlertId /\ alert' \in [DOMAIN alert' -> Alert]
    BY <1>0 DEF TypeInv, TypeOK
  <1>2. tagged' \subseteq DOMAIN alert'
    BY <1>0 DEF Commit, TypeInv, TypeOK
  <1>3. log' \subseteq LogEntry
    BY DEF Commit, TypeInv, TypeOK, LogEntry
  <1>4. pc' \in [Runs -> Labels]
    BY DEF Commit, TypeInv, TypeOK, Goto, Labels
  <1>5. TypeOK'
    BY <1>1, <1>2, <1>3, <1>4, EndEventType DEF Commit, TypeInv, TypeOK, editing
  <1>6. CurrentEventExists'
    BY DEF Commit, TypeInv, TypeOK, Goto, CurrentEventExists, InEvent
  <1> QED BY <1>5, <1>6 DEF TypeInv

LEMMA NextType == TypeInv /\ [Next]_vars => TypeInv'
  <1> SUFFICES ASSUME TypeInv, [Next]_vars PROVE TypeInv'
    OBVIOUS
  <1> USE DEF TypeInv, TypeOK, CurrentEventExists, InEvent, Labels, Goto, reads, editing, history
  <1>1. CASE UNCHANGED vars
    BY <1>1 DEF vars, progress, store
  <1>2. ASSUME NEW r \in Runs, Start(r) PROVE TypeInv'
    BY <1>2 DEF Start, Row
  <1>3. ASSUME NEW r \in Runs, CreatePolicy(r) PROVE TypeInv'
    BY <1>3 DEF CreatePolicy
  <1>4. ASSUME NEW r \in Runs, Fetch(r) PROVE TypeInv'
    <2>1. batch' \in [Runs -> Seq(Event)]
      BY <1>4, BatchesAssumption DEF Fetch
    <2>2. \A s \in Runs : pos[s] <= Len(batch'[s])
      <3>1. PICK b \in Batches : batch' = [batch EXCEPT ![r] = b]
        BY <1>4 DEF Fetch
      <3>2. pos[r] = 0 /\ Len(b) \in Nat
        BY <1>4, BatchesAssumption DEF Fetch
      <3> QED BY <3>1, <3>2
    <2> QED BY <1>4, <2>1, <2>2 DEF Fetch, store
  <1>5. ASSUME NEW r \in Runs, FetchFails(r) PROVE TypeInv'
    BY <1>5 DEF FetchFails, store
  <1>6. ASSUME NEW r \in Runs, BadEvent(r) PROVE TypeInv'
    <2>1. sum' \in [Runs -> Summary]
      BY <1>6, TallyType DEF BadEvent
    <2>2. pos' \in [Runs -> Nat] /\ \A s \in Runs : pos'[s] <= Len(batch[s])
      BY <1>6 DEF BadEvent
    <2> QED BY <1>6, <2>1, <2>2 DEF BadEvent, store
  <1>7. ASSUME NEW r \in Runs, ReadRule(r) PROVE TypeInv'
    <2>1. batch[r][pos[r] + 1] \in Event
      BY <1>7 DEF ReadRule
    <2>4. NextTitle(r) \in Titles
      BY <2>1 DEF NextTitle, Event
    <2>5. Found(NextTitle(r)) \in Rule
      BY <2>4 DEF Found, Rule
    <2>2. received' \in [Runs -> Rule] /\ rule' \in [Titles -> Rule]
      BY <1>7, <2>4, <2>5 DEF ReadRule
    <2>3. pos' \in [Runs -> Nat] /\ \A s \in Runs : pos'[s] <= Len(batch[s])
      BY <1>7 DEF ReadRule
    <2> QED BY <1>7, <2>2, <2>3 DEF ReadRule, store
  <1>8. ASSUME NEW r \in Runs, SaveRule(r) PROVE TypeInv'
    <2>1. Cur(r) \in Event
      BY <1>8, CurrentEvent DEF SaveRule
    <2>3. Title(r) \in Titles
      BY <2>1 DEF Title, Event
    <2>4. [rule[Title(r)] EXCEPT !.count = received[r].count + 1] \in Rule
      <3>1. PICK u \in Rule : u = rule[Title(r)]
        BY <2>3
      <3>2. PICK n \in Nat : n = received[r].count + 1
        BY DEF Rule
      <3>3. [u EXCEPT !.count = n] \in Rule
        BY DEF Rule
      <3> QED BY <3>1, <3>2, <3>3
    <2>2. rule' \in [Titles -> Rule]
      BY <1>8, <2>3, <2>4 DEF SaveRule
    <2>5. doubted' \subseteq Titles
      BY <1>8, <2>3 DEF SaveRule
    <2> QED BY <1>8, <2>2, <2>5 DEF SaveRule
  <1>9. ASSUME NEW r \in Runs, LookupNone(r) PROVE TypeInv'
    <2>1. Cur(r).key \in Keys
      BY <1>9, CurrentEvent DEF LookupNone, Event
    <2>2. raced' \subseteq Keys
      BY <1>9, <2>1 DEF LookupNone
    <2> QED BY <1>9, <2>2 DEF LookupNone
  <1>10. ASSUME NEW r \in Runs, LookupOne(r) PROVE TypeInv'
    BY <1>10 DEF LookupOne, store, Matching
  <1>11. ASSUME NEW r \in Runs, LookupMany(r) PROVE TypeInv'
    <2>1. sum' \in [Runs -> Summary]
      BY <1>11, TallyType DEF LookupMany
    <2> QED BY <1>11, <2>1, EndEventType DEF LookupMany, store
  <1>12. ASSUME NEW r \in Runs, ReadOccurrence(r) PROVE TypeInv'
    BY <1>12 DEF ReadOccurrence, store, Alert
  <1>13. ASSUME NEW r \in Runs, TargetGone(r) PROVE TypeInv'
    <2>1. sum' \in [Runs -> Summary]
      BY <1>13, TallyType DEF TargetGone
    <2> QED BY <1>13, <2>1, EndEventType DEF TargetGone, store
  <1>14. ASSUME NEW r \in Runs, CommitCreate(r) PROVE TypeInv'
    <2>1. Cur(r) \in Event /\ Me(r) \in AlertId
      BY <1>14, CurrentEvent DEF CommitCreate, Me, AlertId
    <2>2. sum' \in [Runs -> Summary]
      BY <1>14, TallyType DEF CommitCreate
    <2> DEFINE e == Cur(r)
               v == [key |-> e.key, time |-> e.time,
                     unparsed |-> e.kind = "unparsed",
                     occ |-> [count |-> 1, first |-> e.time, last |-> e.time]]
    <2>3. v \in Alert
      BY <2>1 DEF Alert, Occurrence, Event
    <2>4. Commit(r, Me(r), v, "created") /\ pc[r] \in InEvent
      BY <1>14 DEF CommitCreate
    <2>5. UNCHANGED history
      BY <1>14 DEF CommitCreate
    <2> QED BY <2>1, <2>2, <2>3, <2>4, <2>5, CommitType
  <1>15. ASSUME NEW r \in Runs, CommitUpdate(r) PROVE TypeInv'
    <2> DEFINE e == Cur(r)
               a == target[r]
               v == [key |-> alert[a].key, time |-> e.time,
                     unparsed |-> e.kind = "unparsed",
                     occ |-> Increment(seen[r], e.time)]
    <2>1. e \in Event /\ a \in DOMAIN alert /\ a \in AlertId
      BY <1>15, CurrentEvent DEF CommitUpdate
    <2>2. sum' \in [Runs -> Summary]
      BY <1>15, TallyType DEF CommitUpdate
    <2>3. v \in Alert
      BY <2>1, IncrementType DEF Alert, Event
    <2>4. Commit(r, a, v, "updated") /\ pc[r] \in InEvent
      BY <1>15 DEF CommitUpdate
    <2>5. raced' \subseteq Keys /\ torn' \subseteq AlertId /\ doubted' = doubted
      BY <1>15, <2>1 DEF CommitUpdate
    <2> QED BY <2>1, <2>2, <2>3, <2>4, <2>5, CommitType
  <1>16. ASSUME NEW r \in Runs, RolledBack(r) PROVE TypeInv'
    <2>1. PICK n \in {0, 1} : Tally(r, n, 0, 1) \/ Tally(r, 0, n, 1)
      BY <1>16 DEF RolledBack
    <2>2. sum' \in [Runs -> Summary]
      <3>1. n \in Nat /\ 0 \in Nat /\ 1 \in Nat
        OBVIOUS
      <3>2. CASE Tally(r, n, 0, 1)
        BY <3>1, <3>2, TallyType
      <3>3. CASE Tally(r, 0, n, 1)
        BY <3>1, <3>3, TallyType
      <3> QED BY <2>1, <3>2, <3>3
    <2> QED BY <1>16, <2>2, EndEventType DEF RolledBack, store
  <1>17. ASSUME NEW r \in Runs, LogError(r) PROVE TypeInv'
    <2>1. log' \subseteq LogEntry
      BY <1>17 DEF LogError, LogEntry
    <2> QED BY <1>17, <2>1 DEF LogError
  <1>18. ASSUME NEW r \in Runs, LogErrorFails(r) PROVE TypeInv'
    BY <1>18 DEF LogErrorFails, store
  <1>19. ASSUME NEW r \in Runs, SaveRun(r) PROVE TypeInv'
    <2>1. run' \in [Runs -> Row]
      BY <1>19 DEF SaveRun, FinalStatus, Row, Summary
    <2> QED BY <1>19, <2>1 DEF SaveRun
  <1>20. ASSUME NEW r \in Runs, SaveHealthy(r) PROVE TypeInv'
    BY <1>20 DEF SaveHealthy
  <1>21. ASSUME NEW r \in Runs, LateFailure(r) PROVE TypeInv'
    BY <1>21 DEF LateFailure, store
  <1>22. ASSUME NEW r \in Runs, SaveFailedRun(r) PROVE TypeInv'
    <2>1. Higher(sum[r].errors, 1) \in Nat
      BY DEF Summary, Higher
    <2> DEFINE n == IF pc[r] = "failing" THEN 1 ELSE Higher(sum[r].errors, 1)
               half == [run[r] EXCEPT !.status = "error"]
               row == [half EXCEPT !.errors = n]
    <2>3. run[r] \in Row /\ n \in Nat
      BY <2>1
    <2>4. half \in Row
      BY <2>3 DEF Row
    <2>5. row \in Row
      BY <2>3, <2>4 DEF Row
    <2>6. run' = [run EXCEPT ![r] = row]
      BY <1>22 DEF SaveFailedRun
    <2>2. run' \in [Runs -> Row]
      BY <2>5, <2>6
    <2> QED BY <1>22, <2>2 DEF SaveFailedRun
  <1>23. ASSUME NEW r \in Runs, SaveUnhealthy(r) PROVE TypeInv'
    BY <1>23 DEF SaveUnhealthy
  <1>24. ASSUME NEW r \in Runs, Crash(r) PROVE TypeInv'
    BY <1>24, EndEventType DEF Crash, store
  <1>26. ASSUME NEW r \in Runs, RuleGone(r) PROVE TypeInv'
    <2>1. sum' \in [Runs -> Summary]
      BY <1>26, TallyType DEF RuleGone
    <2> QED BY <1>26, <2>1, EndEventType DEF RuleGone, store
  <1>25. ASSUME NEW a \in DOMAIN alert, DeleteAlert(a) PROVE TypeInv'
    <2>1. log' \subseteq LogEntry
      <3> SUFFICES ASSUME NEW l \in log
                   PROVE  (IF l.alert = a THEN [l EXCEPT !.alert = NoAlert] ELSE l)
                            \in LogEntry
        BY <1>25 DEF DeleteAlert
      <3>1. l \in LogEntry
        OBVIOUS
      <3>2. [l EXCEPT !.alert = NoAlert] \in LogEntry
        BY <3>1 DEF LogEntry
      <3> QED BY <3>1, <3>2
    <2>2. DOMAIN alert' \subseteq AlertId /\ alert' \in [DOMAIN alert' -> Alert]
          /\ tagged' \subseteq DOMAIN alert' /\ deleted' \subseteq AlertId
      BY <1>25 DEF DeleteAlert
    <2> QED BY <1>25, <2>1, <2>2 DEF DeleteAlert, progress
  <1>27. ASSUME EditRules PROVE TypeInv'
    <2>1. UNCHANGED <<progress, run, alert, tagged, log, policy, health, deleted, raced, torn>>
      BY <1>27, EditKeeps
    <2>2. CASE ReadRules
      <3>1. DOMAIN edit' \subseteq Titles /\ edit' \in [DOMAIN edit' -> Rule] /\ edits' \in Nat
        BY <2>2 DEF ReadRules
      <3> QED BY <2>1, <2>2, <3>1 DEF ReadRules, progress
    <2>3. ASSUME NEW t \in Titles, RewriteRule(t) PROVE TypeInv'
      <3>1. /\ DOMAIN edit' \subseteq Titles /\ edit' \in [DOMAIN edit' -> Rule]
            /\ rule' \in [Titles -> Rule]
        BY <2>3 DEF RewriteRule
      <3> QED BY <2>1, <2>3, <3>1 DEF RewriteRule, progress
    <2>4. CASE DropRules
      <3>1. DOMAIN edit' = {} /\ edit' \in [DOMAIN edit' -> Rule]
        <4>1. edit' = << >>
          BY <2>4 DEF DropRules
        <4> QED BY ONLY <4>1
      <3>3. doubted' \subseteq Titles
        BY <2>4 DEF DropRules
      <3>2. rule' \in [Titles -> Rule]
        <4> SUFFICES ASSUME NEW t \in Titles
                     PROVE  [rule[t] EXCEPT !.there = FALSE, !.count = 0] \in Rule
          BY <2>4 DEF DropRules
        <4>1. PICK u \in Rule : u = rule[t]
          OBVIOUS
        <4>2. [u EXCEPT !.there = FALSE] \in Rule
          BY <4>1 DEF Rule
        <4> QED BY <4>1, <4>2 DEF Rule
      <3> QED BY <2>1, <2>4, <3>1, <3>2, <3>3 DEF DropRules, progress
    <2>5. CASE StopEdit
      <3>1. DOMAIN edit' = {} /\ edit' \in [DOMAIN edit' -> Rule]
        BY <2>5 DEF StopEdit
      <3> QED BY <2>1, <2>5, <3>1 DEF StopEdit, progress
    <2> QED BY <1>27, <2>2, <2>3, <2>4, <2>5 DEF EditRules
  <1> QED
    BY <1>1, <1>2, <1>3, <1>4, <1>5, <1>6, <1>7, <1>8, <1>9, <1>10, <1>11,
       <1>12, <1>13, <1>14, <1>15, <1>16, <1>17, <1>18, <1>19, <1>20, <1>21,
       <1>22, <1>23, <1>24, <1>25, <1>26, <1>27 DEF Next, Step, Work

\* Type correctness of every execution and of every table, whatever the
\* number of overlapping executions.
THEOREM TypeCorrect == Spec => []TypeOK
  <1>1. TypeInv => TypeOK
    BY DEF TypeInv
  <1> QED BY <1>1, InitType, NextType, PTL DEF Spec

-----------------------------------------------------------------------------
(* Deduplication *)

\* Two executions are about to create an alert for one fingerprint only if it was
\* noted; without that, nothing carries the fingerprint of an alert to come.
OneCreates ==
    \A r, s \in Runs :
        pc[r] = "create" /\ pc[s] = "create" /\ r # s /\ Cur(r).key = Cur(s).key
            => Cur(r).key \in raced
StillAbsent ==
    \A r \in Runs : pc[r] = "create" /\ Cur(r).key \notin raced => Matching(Cur(r)) = {}

RacedInv == TypeInv /\ OneCreates /\ StillAbsent /\ DuplicateOnlyIfRaced

\* A step that adds no alert and takes no execution to a creation.
LEMMA RacedQuiet ==
    ASSUME RacedInv, TypeInv', raced' = raced,
           DOMAIN alert' \subseteq DOMAIN alert,
           \A a \in DOMAIN alert' : alert'[a].key = alert[a].key,
           \A s \in Runs : pc'[s] = "create" => pc[s] = "create" /\ Cur(s)' = Cur(s)
    PROVE  RacedInv'
  <1>1. OneCreates'
    BY DEF RacedInv, OneCreates
  <1>2. StillAbsent'
    <2> SUFFICES ASSUME NEW s \in Runs, pc'[s] = "create", Cur(s).key \notin raced,
                        NEW a \in DOMAIN alert'
                 PROVE  alert'[a].key # Cur(s).key
      BY DEF StillAbsent, Matching
    <2>1. Matching(Cur(s)) = {} /\ a \in DOMAIN alert
      BY DEF RacedInv, StillAbsent
    <2> QED BY <2>1 DEF Matching
  <1>3. DuplicateOnlyIfRaced'
    BY DEF RacedInv, DuplicateOnlyIfRaced
  <1> QED BY <1>1, <1>2, <1>3 DEF RacedInv

\* The current event of an execution that neither moves nor fetches stays.
LEMMA CurrentKept ==
    ASSUME TypeInv, NEW r \in Runs, NEW s \in Runs, s # r,
           pos'[s] = pos[s], batch'[s] = batch[s]
    PROVE  Cur(s)' = Cur(s)
  BY DEF Cur

LEMMA RacedNext ==
    ASSUME RacedInv, [Next]_vars
    PROVE  RacedInv'
  <1>0. TypeInv /\ TypeInv'
    BY NextType DEF RacedInv
  <1>t. pc \in [Runs -> Labels] /\ pos \in [Runs -> Nat] /\ batch \in [Runs -> Seq(Event)]
    BY <1>0 DEF TypeInv, TypeOK
  <1>1. CASE UNCHANGED vars
    BY <1>1, <1>0, RacedQuiet DEF vars, progress, store, history, Cur
  <1>2. ASSUME NEW r \in Runs, LookupNone(r) PROVE RacedInv'
    <2> DEFINE k == Cur(r).key
               Other == \E s \in Runs \ {r} : pc[s] = "create" /\ Cur(s).key = k
    <2>1. /\ pc[r] = "lookup" /\ pc' = [pc EXCEPT ![r] = "create"]
          /\ Matching(Cur(r)) = {} /\ UNCHANGED <<alert, pos, batch>>
          /\ raced' = IF Other THEN raced \cup {k} ELSE raced
      BY <1>2 DEF LookupNone, Goto
    <2>2. \A s \in Runs : Cur(s)' = Cur(s)
      BY <2>1 DEF Cur
    <2>3. raced \subseteq raced' /\ (Other => k \in raced')
      BY <2>1
    <2> HIDE DEF k
    <2>4. \A s \in Runs : pc'[s] = "create" => s = r \/ pc[s] = "create"
      BY <1>t, <2>1
    <2>5. OneCreates'
      <3> SUFFICES ASSUME NEW x \in Runs, NEW y \in Runs, pc'[x] = "create",
                          pc'[y] = "create", x # y, Cur(x).key = Cur(y).key
                   PROVE  Cur(x).key \in raced'
        BY <2>2 DEF OneCreates
      <3>1. CASE x # r /\ y # r
        BY <2>3, <2>4, <3>1 DEF RacedInv, OneCreates
      <3>2. CASE x = r
        BY <2>3, <2>4, <3>2 DEF k
      <3>3. CASE y = r
        BY <2>3, <2>4, <3>3 DEF k
      <3> QED BY <3>1, <3>2, <3>3
    <2>6. StillAbsent'
      <3> SUFFICES ASSUME NEW s \in Runs, pc'[s] = "create", Cur(s).key \notin raced'
                   PROVE  Matching(Cur(s)) = {}
        BY <2>1, <2>2 DEF StillAbsent, Matching
      <3>1. CASE s = r
        BY <2>1, <3>1
      <3>2. CASE s # r
        BY <2>3, <2>4, <3>2 DEF RacedInv, StillAbsent
      <3> QED BY <3>1, <3>2
    <2>7. DuplicateOnlyIfRaced'
      BY <2>1, <2>3 DEF RacedInv, DuplicateOnlyIfRaced
    <2> QED BY <1>0, <2>5, <2>6, <2>7 DEF RacedInv
  <1>3. ASSUME NEW r \in Runs, CommitCreate(r) PROVE RacedInv'
    <2>1. /\ pc[r] = "create" /\ pc' = [pc EXCEPT ![r] = "event"]
          /\ UNCHANGED <<pos, batch, raced>>
          /\ DOMAIN alert' = DOMAIN alert \cup {Me(r)} /\ alert'[Me(r)].key = Cur(r).key
          /\ \A a \in DOMAIN alert : a # Me(r) => alert'[a] = alert[a]
      BY <1>3 DEF CommitCreate, Commit, Goto, Put, history
    <2>2. /\ \A s \in Runs : Cur(s)' = Cur(s)
          /\ \A s \in Runs : pc'[s] = "create" => s # r /\ pc[s] = "create"
      BY <1>t, <2>1 DEF Cur
    <2>3. OneCreates'
      BY <2>1, <2>2 DEF RacedInv, OneCreates
    <2>4. StillAbsent'
      <3> SUFFICES ASSUME NEW s \in Runs, pc'[s] = "create", Cur(s).key \notin raced,
                          NEW a \in DOMAIN alert'
                   PROVE  alert'[a].key # Cur(s).key
        BY <2>1, <2>2 DEF StillAbsent, Matching
      <3>1. CASE a = Me(r)
        BY <2>1, <2>2, <3>1 DEF RacedInv, OneCreates
      <3>2. CASE a # Me(r)
        BY <2>1, <2>2, <3>2 DEF RacedInv, StillAbsent, Matching
      <3> QED BY <3>1, <3>2
    <2>5. DuplicateOnlyIfRaced'
      <3>1. Cur(r).key \notin raced => \A a \in DOMAIN alert : alert[a].key # Cur(r).key
        BY <2>1 DEF RacedInv, StillAbsent, Matching
      <3> QED BY <2>1, <3>1 DEF RacedInv, DuplicateOnlyIfRaced
    <2> QED BY <1>0, <2>3, <2>4, <2>5 DEF RacedInv
  <1>4. ASSUME NEW r \in Runs, CommitUpdate(r) PROVE RacedInv'
    <2>1. /\ DOMAIN alert' = DOMAIN alert /\ UNCHANGED <<pos, batch, raced>>
          /\ \A a \in DOMAIN alert : alert'[a].key = alert[a].key
          /\ pc' = [pc EXCEPT ![r] = "event"]
      BY <1>4 DEF CommitUpdate, Commit, Put, Goto
    <2>2. \A s \in Runs : pc'[s] = "create" => pc[s] = "create" /\ Cur(s)' = Cur(s)
      BY <1>t, <2>1 DEF Cur
    <2> QED BY <1>0, <2>1, <2>2, RacedQuiet
  <1>5. ASSUME NEW a \in DOMAIN alert, DeleteAlert(a) PROVE RacedInv'
    <2>1. /\ DOMAIN alert' = DOMAIN alert \ {a} /\ UNCHANGED <<pc, pos, batch, raced>>
          /\ \A x \in DOMAIN alert' : alert'[x] = alert[x]
      BY <1>5 DEF DeleteAlert, progress, history
    <2> QED BY <1>0, <2>1, RacedQuiet DEF Cur
  <1>6. ASSUME EditRules PROVE RacedInv'
    <2>1. UNCHANGED <<pc, pos, batch, alert, raced>>
      BY <1>6, EditKeeps DEF progress
    <2> QED BY <1>0, <2>1, RacedQuiet DEF Cur
  <1>7. ASSUME NEW r \in Runs,
               \/ Start(r) \/ CreatePolicy(r) \/ Fetch(r) \/ FetchFails(r)
               \/ BadEvent(r) \/ ReadRule(r) \/ SaveRule(r) \/ RuleGone(r)
               \/ LookupOne(r) \/ LookupMany(r)
               \/ ReadOccurrence(r) \/ TargetGone(r) \/ RolledBack(r)
        PROVE  RacedInv'
    <2>1. /\ UNCHANGED <<alert, raced>>
          /\ \A s \in Runs \ {r} : pc'[s] = pc[s] /\ pos'[s] = pos[s] /\ batch'[s] = batch[s]
          /\ pc'[r] # "create"
      BY <1>t, <1>7 DEF Start, CreatePolicy, Fetch, FetchFails, BadEvent, ReadRule, SaveRule,
                  RuleGone, LookupOne, LookupMany, ReadOccurrence, TargetGone, RolledBack,
                  Goto, store, reads, history
    <2>2. \A s \in Runs : pc'[s] = "create" => pc[s] = "create" /\ Cur(s)' = Cur(s)
      BY <1>0, <2>1, CurrentKept
    <2> QED BY <1>0, <2>1, <2>2, RacedQuiet
  <1>8. ASSUME NEW r \in Runs,
               \/ LogError(r) \/ LogErrorFails(r) \/ SaveRun(r)
               \/ SaveHealthy(r) \/ LateFailure(r) \/ SaveFailedRun(r)
               \/ SaveUnhealthy(r) \/ Crash(r)
        PROVE  RacedInv'
    <2>1. /\ UNCHANGED <<alert, raced>>
          /\ \A s \in Runs \ {r} : pc'[s] = pc[s] /\ pos'[s] = pos[s] /\ batch'[s] = batch[s]
          /\ pc'[r] # "create"
      BY <1>t, <1>8 DEF LogError, LogErrorFails, SaveRun, SaveHealthy, LateFailure,
                  SaveFailedRun, SaveUnhealthy, Crash, Goto, store, history
    <2>2. \A s \in Runs : pc'[s] = "create" => pc[s] = "create" /\ Cur(s)' = Cur(s)
      BY <1>0, <2>1, CurrentKept
    <2> QED BY <1>0, <2>1, <2>2, RacedQuiet
  <1> QED
    BY <1>1, <1>2, <1>3, <1>4, <1>5, <1>6, <1>7, <1>8 DEF Next, Step, Work

\* However many executions overlap, and with crashes, rollbacks and deletions
\* anywhere: an alert is the only one of its fingerprint unless two executions
\* were between the lookup and the creation for that fingerprint at once.
THEOREM DuplicatesNeedARace == Spec => []DuplicateOnlyIfRaced
  <1>1. Init => RacedInv
    <2> SUFFICES ASSUME Init PROVE RacedInv
      OBVIOUS
    <2>1. DOMAIN alert = {} /\ \A r \in Runs : pc[r] # "create"
      BY DEF Init
    <2> QED BY <2>1, InitType DEF RacedInv, OneCreates, StillAbsent, DuplicateOnlyIfRaced
  <1>2. RacedInv /\ [Next]_vars => RacedInv'
    BY RacedNext
  <1>3. RacedInv => DuplicateOnlyIfRaced
    BY DEF RacedInv
  <1> QED BY <1>1, <1>2, <1>3, PTL DEF Spec

-----------------------------------------------------------------------------
(* Occurrence counts, with any number of overlapping executions *)

\* What is stored about a position of a batch was stored by an event that is
\* over: the current event of an execution has left nothing yet.
Over(r, p) == p <= pos[r] /\ (pc[r] \in InEvent => p < pos[r])

LogBehind == \A l \in log : Over(l.run, l.pos)
IdsBehind == \A r \in Runs, p \in Nat :
                <<r, p>> \in DOMAIN alert \cup deleted => Over(r, p)

\* An alert that was looked up exists or was deleted, so its name is taken.
TargetKnown ==
    \A r \in Runs : pc[r] \in {"occurrence", "update"} =>
                       target[r] \in DOMAIN alert \cup deleted

\* The copy of an occurrence that an execution holds is bounded as well.
SeenBounded ==
    \A r \in Runs : pc[r] = "update" /\ target[r] \in DOMAIN alert =>
                       seen[r].count <= Cardinality(Entries(target[r]))

CountInv == /\ TypeInv /\ IsFiniteSet(log) /\ LogBehind /\ IdsBehind
            /\ TargetKnown /\ SeenBounded /\ CountNeverExceedsLog

LEMMA EntriesFinite ==
    ASSUME IsFiniteSet(log), NEW a
    PROVE  IsFiniteSet(Entries(a)) /\ Cardinality(Entries(a)) \in Nat
  BY FS_Subset, FS_CardinalityType DEF Entries

\* A new line about alert a is one more entry of a, and no other's.
LEMMA NewEntry ==
    ASSUME IsFiniteSet(log), NEW e, e \notin log, log' = log \cup {e}
    PROVE  /\ IsFiniteSet(log')
           /\ Cardinality(Entries(e.alert)') = Cardinality(Entries(e.alert)) + 1
           /\ \A a : a # e.alert => Entries(a)' = Entries(a)
  <1>1. IsFiniteSet(log')
    BY FS_AddElement
  <1>2. Entries(e.alert)' = Entries(e.alert) \cup {e} /\ e \notin Entries(e.alert)
    BY DEF Entries
  <1>3. Cardinality(Entries(e.alert) \cup {e}) = Cardinality(Entries(e.alert)) + 1
    BY <1>2, EntriesFinite, FS_AddElement
  <1>4. \A a : a # e.alert => Entries(a)' = Entries(a)
    BY DEF Entries
  <1> QED BY <1>1, <1>2, <1>3, <1>4

\* A step of r that leaves alerts and log alone: it moves r on, perhaps after
\* reading a target and its occurrence.
LEMMA CountQuiet ==
    ASSUME CountInv, TypeInv', NEW r \in Runs,
           UNCHANGED <<alert, log, deleted>>,
           \A s \in Runs \ {r} : /\ pc'[s] = pc[s] /\ pos'[s] = pos[s]
                                 /\ target'[s] = target[s] /\ seen'[s] = seen[s],
           \/ pos'[r] = pos[r] /\ (pc'[r] \in InEvent => pc[r] \in InEvent)
           \/ pos'[r] = pos[r] + 1,
           pc'[r] \in {"occurrence", "update"} =>
               target'[r] \in DOMAIN alert \cup deleted,
           pc'[r] = "update" =>
               seen'[r].count <= Cardinality(Entries(target'[r]))
    PROVE  CountInv'
  <1>1. \A a : Entries(a)' = Entries(a)
    BY DEF Entries
  <1>2. ASSUME NEW s \in Runs, NEW p \in Nat, Over(s, p) PROVE Over(s, p)'
    <2>1. pos[r] \in Nat
      BY DEF CountInv, TypeInv, TypeOK
    <2>2. CASE s = r
      BY <1>2, <2>1, <2>2 DEF Over
    <2>3. CASE s # r
      BY <1>2, <2>3 DEF Over
    <2> QED BY <2>2, <2>3
  <1>3. LogBehind' /\ IdsBehind'
    BY <1>2 DEF LogBehind, IdsBehind, CountInv, TypeInv, TypeOK, LogEntry
  <1>4. TargetKnown'
    BY DEF TargetKnown, CountInv
  <1>5. SeenBounded'
    BY <1>1 DEF SeenBounded, CountInv
  <1>6. CountNeverExceedsLog'
    BY <1>1 DEF CountNeverExceedsLog, CountInv
  <1> QED BY <1>3, <1>4, <1>5, <1>6 DEF CountInv

\* A commit of r about alert a with one more line in the log.
LEMMA CountCommit ==
    ASSUME CountInv, TypeInv', NEW r \in Runs, NEW a \in AlertId, NEW v \in Alert,
           NEW action \in {"created", "updated"}, Commit(r, a, v, action),
           pc[r] \in InEvent,
           v.occ.count <= Cardinality(Entries(a)) + 1,
           a = Me(r) \/ a \in DOMAIN alert
    PROVE  CountInv'
  <1> DEFINE e == [run |-> r, pos |-> pos[r], action |-> action, alert |-> a]
  <1>1. e \notin log /\ log' = log \cup {e} /\ e.alert = a
    BY DEF Commit, CountInv, LogBehind, Over, TypeInv, TypeOK
  <1>2. /\ IsFiniteSet(log')
        /\ Cardinality(Entries(a)') = Cardinality(Entries(a)) + 1
        /\ \A x : x # a => Entries(x)' = Entries(x)
    BY <1>1, NewEntry DEF CountInv
  <1>3. \A x : Cardinality(Entries(x)) \in Nat
    BY EntriesFinite DEF CountInv
  <1>4. /\ DOMAIN alert' = DOMAIN alert \cup {a} /\ alert'[a] = v
        /\ \A x \in DOMAIN alert : x # a => alert'[x] = alert[x]
        /\ pc' = [pc EXCEPT ![r] = "event"]
        /\ UNCHANGED <<pos, deleted>>
        /\ \A s \in Runs \ {r} : target'[s] = target[s] /\ seen'[s] = seen[s]
    BY EndEventType DEF Commit, Put, Goto, CountInv
  <1>5. \A s \in Runs, p \in Nat : Over(s, p) => Over(s, p)'
    BY <1>4 DEF Over, CountInv, TypeInv, TypeOK, InEvent
  <1>6. Over(r, pos[r])' /\ pos[r] \in Nat
    BY <1>4 DEF Over, CountInv, TypeInv, TypeOK, InEvent
  <1>7. LogBehind'
    BY <1>1, <1>5, <1>6, <1>4 DEF LogBehind, CountInv, TypeInv, TypeOK, LogEntry
  <1>8. IdsBehind'
    BY <1>4, <1>5, <1>6 DEF IdsBehind, CountInv, Me
  <1>9. TargetKnown'
    BY <1>4 DEF TargetKnown, CountInv, TypeInv, TypeOK
  <1>10. CountNeverExceedsLog'
    BY <1>2, <1>3, <1>4 DEF CountNeverExceedsLog, CountInv
  <1>11. SeenBounded'
    <2>0. \A s \in Runs : pc'[s] = "update" =>
             pc[s] = "update" /\ target'[s] = target[s] /\ seen'[s] = seen[s]
      BY <1>4 DEF CountInv, TypeInv, TypeOK
    <2> SUFFICES ASSUME NEW s \in Runs, pc'[s] = "update",
                        NEW x, x = target[s], x \in DOMAIN alert \cup {a}
                 PROVE  seen[s].count <= Cardinality(Entries(x)')
      BY <1>4, <2>0 DEF SeenBounded, Entries
    <2>1. pc[s] = "update" /\ x \in DOMAIN alert \cup deleted
      BY <2>0 DEF CountInv, TargetKnown
    <2>2. x \in DOMAIN alert
      BY <2>1, <1>6 DEF CountInv, IdsBehind, Over, Me
    <2>3. seen[s].count <= Cardinality(Entries(x)) /\ seen[s].count \in Nat
      BY <2>1, <2>2 DEF CountInv, SeenBounded, TypeInv, TypeOK, Occurrence
    <2>4. CASE x = a
      BY <2>3, <2>4, <1>2, <1>3
    <2>5. CASE x # a
      BY <2>3, <2>5, <1>2
    <2> QED BY <2>4, <2>5
  <1> QED BY <1>2, <1>7, <1>8, <1>9, <1>10, <1>11 DEF CountInv

LEMMA CountNext == CountInv /\ [Next]_vars => CountInv'
  <1> SUFFICES ASSUME CountInv, [Next]_vars PROVE CountInv'
    OBVIOUS
  <1>0. TypeInv /\ TypeInv'
    BY NextType DEF CountInv
  <1>1. CASE UNCHANGED vars
    BY <1>1, <1>0 DEF vars, progress, reads, store, CountInv, LogBehind,
       IdsBehind, Over, TargetKnown, SeenBounded, CountNeverExceedsLog, Entries
  <1>2. ASSUME NEW r \in Runs, CommitCreate(r) PROVE CountInv'
    <2>1. Cur(r) \in Event /\ Me(r) \in AlertId /\ pc[r] \in InEvent
      BY <1>0, <1>2, CurrentEvent
         DEF CommitCreate, Me, AlertId, InEvent, TypeInv, TypeOK
    <2> DEFINE e == Cur(r)
               v == [key |-> e.key, time |-> e.time,
                     unparsed |-> e.kind = "unparsed",
                     occ |-> [count |-> 1, first |-> e.time, last |-> e.time]]
    <2>2. v \in Alert /\ v.occ.count = 1
      BY <2>1 DEF Alert, Occurrence, Event
    <2>3. Commit(r, Me(r), v, "created")
      BY <1>2 DEF CommitCreate
    <2>4. v.occ.count <= Cardinality(Entries(Me(r))) + 1
      BY <2>2, EntriesFinite DEF CountInv
    <2> QED BY <1>0, <2>1, <2>2, <2>3, <2>4, CountCommit
  <1>3. ASSUME NEW r \in Runs, CommitUpdate(r) PROVE CountInv'
    <2> DEFINE e == Cur(r)
               a == target[r]
               v == [key |-> alert[a].key, time |-> e.time,
                     unparsed |-> e.kind = "unparsed",
                     occ |-> Increment(seen[r], e.time)]
    <2>1. e \in Event /\ a \in DOMAIN alert /\ a \in AlertId /\ pc[r] = "update"
          /\ pc[r] \in InEvent
      BY <1>0, <1>3, CurrentEvent DEF CommitUpdate, InEvent, TypeInv, TypeOK
    <2>2. seen[r] \in Occurrence /\ e.time \in Nat /\ e.kind \in EventKinds
          /\ alert[a].key \in Keys
      BY <1>0, <2>1 DEF TypeInv, TypeOK, Event, Alert
    <2>3. v \in Alert /\ v.occ.count = seen[r].count + 1
      BY <2>2, IncrementType DEF Alert
    <2>4. seen[r].count <= Cardinality(Entries(a)) /\ seen[r].count \in Nat
      BY <2>1, <2>2 DEF CountInv, SeenBounded, Occurrence
    <2>5. v.occ.count <= Cardinality(Entries(a)) + 1
      BY <2>3, <2>4, EntriesFinite DEF CountInv
    <2>6. Commit(r, a, v, "updated")
      BY <1>3 DEF CommitUpdate
    <2> QED BY <1>0, <2>1, <2>3, <2>5, <2>6, CountCommit
  <1>4. ASSUME NEW r \in Runs, LogError(r) PROVE CountInv'
    <2> DEFINE e == [run |-> r, pos |-> pos[r], action |-> "error", alert |-> NoAlert]
    <2>1. e \notin log /\ log' = log \cup {e} /\ e.alert = NoAlert
      BY <1>0, <1>4 DEF LogError, CountInv, LogBehind, Over, InEvent, TypeInv, TypeOK
    <2>2. IsFiniteSet(log') /\ \A x : x # NoAlert => Entries(x)' = Entries(x)
      BY <2>1, NewEntry DEF CountInv
    <2>3. NoAlert \notin DOMAIN alert
      BY <1>0, NoAlertAssumption DEF TypeInv, TypeOK, AlertId
    <2>4. pc' = [pc EXCEPT ![r] = "event"]
          /\ UNCHANGED <<pos, target, seen, deleted, alert>>
      BY <1>4 DEF LogError, Goto, reads
    <2>5. \A s \in Runs, p \in Nat : Over(s, p) => Over(s, p)'
      BY <1>0, <2>4 DEF Over, TypeInv, TypeOK, InEvent
    <2>6. Over(r, pos[r])' /\ pos[r] \in Nat
      BY <1>0, <2>4 DEF Over, TypeInv, TypeOK, InEvent
    <2>7. LogBehind'
      BY <1>0, <2>1, <2>4, <2>5, <2>6 DEF LogBehind, CountInv, TypeInv, TypeOK, LogEntry
    <2>8. IdsBehind'
      BY <2>4, <2>5 DEF IdsBehind, CountInv
    <2>9. TargetKnown' /\ SeenBounded' /\ CountNeverExceedsLog'
      BY <1>0, <2>2, <2>3, <2>4 DEF TargetKnown, SeenBounded, CountNeverExceedsLog,
                                    CountInv, TypeInv, TypeOK
    <2> QED BY <1>0, <2>2, <2>7, <2>8, <2>9 DEF CountInv
  <1>5. ASSUME NEW a \in DOMAIN alert, DeleteAlert(a) PROVE CountInv'
    <2> DEFINE Cut(l) == IF l.alert = a THEN [l EXCEPT !.alert = NoAlert] ELSE l
    <2>1. /\ log' = {Cut(l) : l \in log}
          /\ DOMAIN alert' = DOMAIN alert \ {a}
          /\ \A x \in DOMAIN alert' : alert'[x] = alert[x]
          /\ deleted' = deleted \cup {a}
          /\ UNCHANGED <<pc, pos, target, seen>>
      BY <1>5 DEF DeleteAlert, progress, reads
    <2>2. IsFiniteSet(log')
      <3> DEFINE f == [l \in log |-> Cut(l)]
      <3>1. f \in Surjection(log, log')
        BY <2>1 DEF Surjection
      <3>2. IsFiniteSet(log)
        BY DEF CountInv
      <3> QED BY <3>1, <3>2, FS_Surjection
    <2>3. \A l \in log : /\ Cut(l).run = l.run /\ Cut(l).pos = l.pos
                         /\ Cut(l).alert = IF l.alert = a THEN NoAlert ELSE l.alert
                         /\ l.alert # a => Cut(l) = l
      BY <1>0 DEF TypeInv, TypeOK, LogEntry
    <2>4. \A x : x # a /\ x # NoAlert => Entries(x)' = Entries(x)
      BY <2>1, <2>3 DEF Entries
    <2>5. NoAlert \notin DOMAIN alert
      BY <1>0, NoAlertAssumption DEF TypeInv, TypeOK, AlertId
    <2>6. LogBehind'
      <3>1. \A l \in log' : \E k \in log : l.run = k.run /\ l.pos = k.pos
        BY <2>1, <2>3
      <3> QED BY <2>1, <3>1 DEF LogBehind, Over, CountInv
    <2>7. IdsBehind' /\ TargetKnown'
      BY <2>1 DEF IdsBehind, TargetKnown, Over, CountInv
    <2>8. SeenBounded' /\ CountNeverExceedsLog'
      BY <2>1, <2>4, <2>5 DEF SeenBounded, CountNeverExceedsLog, CountInv
    <2> QED BY <1>0, <2>2, <2>6, <2>7, <2>8 DEF CountInv
  <1>6. ASSUME NEW r \in Runs,
               \/ Start(r) \/ CreatePolicy(r) \/ Fetch(r) \/ FetchFails(r)
               \/ SaveRun(r) \/ SaveHealthy(r) \/ LateFailure(r)
               \/ SaveFailedRun(r) \/ SaveUnhealthy(r)
        PROVE  CountInv'
    <2>1. /\ UNCHANGED <<alert, log, deleted, pos, target, seen>>
          /\ \A s \in Runs \ {r} : pc'[s] = pc[s]
          /\ pc'[r] \notin InEvent
      BY <1>0, <1>6 DEF Start, CreatePolicy, Fetch, FetchFails, SaveRun,
         SaveHealthy, LateFailure, SaveFailedRun, SaveUnhealthy, Goto,
         InEvent, store, reads, TypeInv, TypeOK
    <2> QED BY <1>0, <2>1, CountQuiet DEF InEvent
  <1>7. ASSUME NEW r \in Runs, BadEvent(r) \/ ReadRule(r) PROVE CountInv'
    <2>1. /\ UNCHANGED <<alert, log, deleted, target, seen>>
          /\ \A s \in Runs \ {r} : pc'[s] = pc[s] /\ pos'[s] = pos[s]
          /\ pos'[r] = pos[r] + 1 /\ pc'[r] \in {"errlog", "rule"}
      BY <1>0, <1>7 DEF BadEvent, ReadRule, Goto, store, reads, TypeInv, TypeOK
    <2> QED BY <1>0, <2>1, CountQuiet
  <1>8. ASSUME NEW r \in Runs, SaveRule(r) \/ LookupNone(r) \/ LogErrorFails(r)
        PROVE  CountInv'
    <2>1. /\ UNCHANGED <<alert, log, deleted, pos, target, seen>>
          /\ \A s \in Runs \ {r} : pc'[s] = pc[s]
          /\ pc[r] \in InEvent /\ pc'[r] \notin {"occurrence", "update"}
      BY <1>0, <1>8 DEF SaveRule, LookupNone, LogErrorFails, Goto, InEvent,
         store, reads, TypeInv, TypeOK
    <2> QED BY <1>0, <2>1, CountQuiet
  <1>11. ASSUME NEW r \in Runs,
                \/ RuleGone(r) \/ LookupMany(r) \/ TargetGone(r)
                \/ RolledBack(r) \/ Crash(r)
         PROVE  CountInv'
    <2>1. /\ UNCHANGED <<alert, log, deleted, pos>> /\ EndEvent(r)
          /\ \A s \in Runs \ {r} : pc'[s] = pc[s]
          /\ pc'[r] \in InEvent => pc[r] \in InEvent
          /\ pc'[r] \notin {"occurrence", "update"}
      BY <1>0, <1>11 DEF RuleGone, LookupMany, TargetGone, RolledBack, Crash,
         Goto, InEvent, store, TypeInv, TypeOK
    <2> QED BY <1>0, <2>1, EndEventType, CountQuiet
  <1>9. ASSUME NEW r \in Runs, LookupOne(r) PROVE CountInv'
    <2>1. /\ UNCHANGED <<alert, log, deleted, pos, seen>>
          /\ \A s \in Runs \ {r} : pc'[s] = pc[s] /\ target'[s] = target[s]
          /\ pc[r] \in InEvent /\ pc'[r] = "occurrence"
          /\ target'[r] \in DOMAIN alert
      BY <1>0, <1>9 DEF LookupOne, Matching, Goto, InEvent, store, TypeInv, TypeOK
    <2> QED BY <1>0, <2>1, CountQuiet
  <1>10. ASSUME NEW r \in Runs, ReadOccurrence(r) PROVE CountInv'
    <2>1. /\ UNCHANGED <<alert, log, deleted, pos, target>>
          /\ \A s \in Runs \ {r} : pc'[s] = pc[s] /\ seen'[s] = seen[s]
          /\ pc[r] \in InEvent /\ pc'[r] = "update"
          /\ target[r] \in DOMAIN alert /\ seen'[r] = alert[target[r]].occ
      BY <1>0, <1>10 DEF ReadOccurrence, Goto, InEvent, store, TypeInv, TypeOK
    <2>2. seen'[r].count <= Cardinality(Entries(target[r]))
      BY <2>1 DEF CountInv, CountNeverExceedsLog
    <2> QED BY <1>0, <2>1, <2>2, CountQuiet
  <1>12. ASSUME EditRules PROVE CountInv'
    <2>1. UNCHANGED <<alert, log, deleted, pc, pos, target, seen>>
      BY <1>12, EditKeeps DEF progress, reads
    <2>2. /\ LogBehind' /\ IdsBehind' /\ TargetKnown' /\ SeenBounded'
          /\ CountNeverExceedsLog' /\ IsFiniteSet(log')
      BY <2>1 DEF CountInv, LogBehind, IdsBehind, Over, TargetKnown, SeenBounded,
                  CountNeverExceedsLog, Entries
    <2> QED BY <1>0, <2>2 DEF CountInv
  <1> QED
    BY <1>1, <1>2, <1>3, <1>4, <1>5, <1>6, <1>7, <1>8, <1>9, <1>10, <1>11, <1>12
    DEF Next, Step, Work

LEMMA CountInit == Init => CountInv
  <1> SUFFICES ASSUME Init PROVE CountInv
    OBVIOUS
  <1>1. /\ DOMAIN alert = {} /\ log = {} /\ deleted = {} /\ IsFiniteSet(log)
        /\ \A r \in Runs : pc[r] = "idle"
    BY FS_EmptySet DEF Init
  <1> QED BY <1>1, InitType DEF CountInv, LogBehind, IdsBehind, TargetKnown,
                                SeenBounded, CountNeverExceedsLog

\* However many executions overlap, an occurrence never counts more events
\* than the log shows for its alert: increments may be lost, none is invented.
LEMMA CountsAreBounded == Spec => []CountNeverExceedsLog
  <1>1. CountInv => CountNeverExceedsLog
    BY DEF CountInv
  <1> QED BY <1>1, CountInit, CountNext, PTL DEF Spec

-----------------------------------------------------------------------------
(* What an alert shows *)

\* Only the transactions of events and deletions change alerts.
LEMMA OtherStepsKeepAlerts ==
    ASSUME [Next]_vars
    PROVE  \/ alert' = alert
           \/ \E r \in Runs : CommitCreate(r) \/ CommitUpdate(r)
           \/ \E a \in DOMAIN alert : DeleteAlert(a)
  BY EditKeeps DEF Next, Step, Work, vars, store, Start, CreatePolicy, Fetch, FetchFails, BadEvent,
         ReadRule, SaveRule, RuleGone, LookupNone, LookupOne, LookupMany, ReadOccurrence, TargetGone,
         RolledBack, LogError, LogErrorFails, SaveRun, SaveHealthy, LateFailure,
         SaveFailedRun, SaveUnhealthy, Crash

\* An execution comes to aim at an alert by a lookup that found it alone.
LEMMA StepsTowardsAlert ==
    ASSUME TypeInv, Next, NEW r \in Runs, pc'[r] \in {"occurrence", "update"},
           ~(pc[r] \in {"occurrence", "update"} /\ target[r] = target'[r])
    PROVE  LookupOne(r)
  <1> USE DEF TypeInv, TypeOK, Goto
  <1>1. ASSUME NEW s \in Runs, Start(s) \/ Crash(s) PROVE LookupOne(r)
    BY <1>1 DEF Start, Crash, reads, EndEvent
  <1>2. ASSUME NEW a \in DOMAIN alert, DeleteAlert(a) PROVE LookupOne(r)
    BY <1>2 DEF DeleteAlert, progress, reads
  <1>3. ASSUME NEW s \in Runs, Step(s), s # r PROVE LookupOne(r)
    <2>1. pc'[r] = pc[r] /\ target'[r] = target[r]
      BY <1>3 DEF Step, Work, CreatePolicy, Fetch, FetchFails, BadEvent, ReadRule, SaveRule, RuleGone,
         LookupNone, LookupOne, LookupMany, ReadOccurrence, TargetGone, CommitCreate,
         CommitUpdate, Commit, RolledBack, LogError, LogErrorFails, SaveRun, SaveHealthy,
         LateFailure, SaveFailedRun, SaveUnhealthy, reads, EndEvent
    <2> QED BY <2>1
  <1>4. ASSUME Step(r) PROVE LookupOne(r)
    BY <1>4 DEF Step, Work, CreatePolicy, Fetch, FetchFails, BadEvent, ReadRule, SaveRule, RuleGone,
       LookupNone, LookupMany, ReadOccurrence, TargetGone, CommitCreate,
       CommitUpdate, Commit, RolledBack, LogError, LogErrorFails, SaveRun, SaveHealthy,
       LateFailure, SaveFailedRun, SaveUnhealthy, reads
  <1>5. ASSUME EditRules PROVE LookupOne(r)
    BY <1>5, EditKeeps DEF progress, reads
  <1> QED BY <1>1, <1>2, <1>3, <1>4, <1>5 DEF Next

\* The window of an alert holds the timestamp that it shows: an update puts both
\* together, whatever occurrence it had read.
LEMMA WindowHoldsShown == Spec => []ShownEventInWindow
  <1> DEFINE WindowInv == TypeInv /\ ShownEventInWindow
  <1>1. Init => WindowInv
    BY InitType DEF Init, ShownEventInWindow
  <1>2. WindowInv /\ [Next]_vars => WindowInv'
    <2> SUFFICES ASSUME WindowInv, [Next]_vars PROVE ShownEventInWindow'
      BY NextType
    <2>1. CASE alert' = alert
      BY <2>1 DEF ShownEventInWindow
    <2>2. ASSUME NEW r \in Runs, CommitCreate(r) PROVE ShownEventInWindow'
      <3>1. Cur(r).time \in Nat
        BY <2>2, CurrentEvent DEF CommitCreate, InEvent, Event
      <3>2. /\ DOMAIN alert' = DOMAIN alert \cup {Me(r)}
            /\ alert'[Me(r)].time = Cur(r).time
            /\ alert'[Me(r)].occ.first = Cur(r).time /\ alert'[Me(r)].occ.last = Cur(r).time
            /\ \A a \in DOMAIN alert : a # Me(r) => alert'[a] = alert[a]
        BY <2>2 DEF CommitCreate, Commit, Put
      <3> QED BY <3>1, <3>2 DEF ShownEventInWindow
    <2>3. ASSUME NEW r \in Runs, CommitUpdate(r) PROVE ShownEventInWindow'
      <3> DEFINE t == Cur(r).time
                 o == Increment(seen[r], t)
      <3>1. t \in Nat /\ seen[r] \in Occurrence
        BY <2>3, CurrentEvent DEF CommitUpdate, InEvent, Event, TypeInv, TypeOK
      <3>2. o.first <= t /\ t <= o.last
        BY <3>1 DEF Increment, Lower, Higher, Occurrence
      <3>3. /\ DOMAIN alert' = DOMAIN alert
            /\ alert'[target[r]].time = t /\ alert'[target[r]].occ = o
            /\ \A a \in DOMAIN alert : a # target[r] => alert'[a] = alert[a]
        BY <2>3 DEF CommitUpdate, Commit, Put
      <3> QED BY <3>2, <3>3 DEF ShownEventInWindow
    <2>4. ASSUME NEW a \in DOMAIN alert, DeleteAlert(a) PROVE ShownEventInWindow'
      BY <2>4 DEF DeleteAlert, ShownEventInWindow
    <2> QED BY <2>1, <2>2, <2>3, <2>4, OtherStepsKeepAlerts
  <1>3. WindowInv => ShownEventInWindow
    OBVIOUS
  <1> QED BY <1>1, <1>2, <1>3, PTL DEF Spec

\* However many executions overlap, an occurrence counts no more events than
\* were logged, and its window holds the one that the alert shows
\* (_store_event, the read-modify-write of AlertOccurrence).
THEOREM OccurrencesAreSound == Spec => []OccurrenceIsSound
  BY CountsAreBounded, WindowHoldsShown, PTL DEF OccurrenceIsSound

-----------------------------------------------------------------------------
(* Duplicates *)

\* A fingerprint that two alerts share is left alone: get_or_create raises for
\* it, so that only an update past its lookup still reaches one of the two.
THEOREM DuplicatesAreFrozen == Spec => DuplicatedKeyIsFrozen
  <1> DEFINE Frozen == \A a, b \in DOMAIN alert :
                /\ a # b /\ alert[a].key = alert[b].key
                /\ ~InFlight(a) /\ {a, b} \subseteq DOMAIN alert'
                => ~InFlight(a)' /\ alert'[a] = alert[a]
  <1>1. CountInv /\ [Next]_vars => [Frozen]_vars
    <2> SUFFICES ASSUME CountInv, Next, NEW a \in DOMAIN alert, NEW b \in DOMAIN alert,
                        a # b, alert[a].key = alert[b].key, ~InFlight(a),
                        a \in DOMAIN alert'
                 PROVE  ~InFlight(a)' /\ alert'[a] = alert[a]
      OBVIOUS
    <2> USE DEF CountInv
    <2>1. ~InFlight(a)'
      <3> SUFFICES ASSUME NEW r \in Runs, pc'[r] \in {"occurrence", "update"}, target'[r] = a
                   PROVE  FALSE
        BY DEF InFlight
      <3>1. pc[r] \in {"occurrence", "update"} => target[r] # a
        BY DEF InFlight
      <3>2. LookupOne(r)
        BY <3>1, StepsTowardsAlert
      <3>3. Matching(Cur(r)) = {a}
        BY <3>2 DEF LookupOne, TypeInv, TypeOK
      <3> QED BY <3>3 DEF Matching
    <2>2. alert'[a] = alert[a]
      <3>1. CASE alert' = alert
        BY <3>1
      <3>2. ASSUME NEW r \in Runs, CommitCreate(r) PROVE alert'[a] = alert[a]
        <4>1. pc[r] \in InEvent /\ pos[r] \in Nat
          BY <3>2 DEF CommitCreate, InEvent, TypeInv, TypeOK
        <4>2. Me(r) \notin DOMAIN alert
          BY <4>1 DEF IdsBehind, Over, Me
        <4> QED BY <3>2, <4>2 DEF CommitCreate, Commit, Put
      <3>3. ASSUME NEW r \in Runs, CommitUpdate(r) PROVE alert'[a] = alert[a]
        <4>1. target[r] # a
          BY <3>3 DEF CommitUpdate, InFlight
        <4> QED BY <3>3, <4>1 DEF CommitUpdate, Commit, Put
      <3>4. ASSUME NEW x \in DOMAIN alert, DeleteAlert(x) PROVE alert'[a] = alert[a]
        BY <3>4 DEF DeleteAlert
      <3> QED BY <3>1, <3>2, <3>3, <3>4, OtherStepsKeepAlerts
    <2> QED BY <2>1, <2>2
  <1>2. Spec => []CountInv
    BY CountInit, CountNext, PTL DEF Spec
  <1> QED BY <1>1, <1>2, PTL DEF Spec, DuplicatedKeyIsFrozen

-----------------------------------------------------------------------------
(* What a run reports, with any number of overlapping executions *)

LinesOf(r)   == {l \in log : l.run = r}
Positions(r) == {l.pos : l \in LinesOf(r)}
Logged(r, action) == Cardinality(Lines(r, action))
OneLine      == \A l, m \in log : l.run = m.run /\ l.pos = m.pos => l = m

\* The log of r covers the first "done" events of its batch, "errs" of them as
\* errors; the counts of stored events are exact as long as nothing failed.
Tallied(r, done, errs) ==
    /\ Positions(r) = 1 .. done
    /\ Logged(r, "error") = errs
    /\ Logged(r, "created") <= sum[r].created
    /\ Logged(r, "updated") <= sum[r].updated
    /\ sum[r].errors = 0 => /\ Logged(r, "created") = sum[r].created
                            /\ Logged(r, "updated") = sum[r].updated
                            /\ sum[r].created + sum[r].updated = done

Saved   == {"success", "partial"}
Between == {"idle", "policy", "fetch", "event"}

\* Where an execution stands in its batch, and what its log shows by then.
LogFollows(r) ==
    /\ pc[r] \in Between => Tallied(r, pos[r], sum[r].errors)
    /\ pc[r] \in InEvent \ {"errlog"} => Tallied(r, pos[r] - 1, sum[r].errors)
    /\ pc[r] = "errlog" => /\ Tallied(r, pos[r] - 1, sum[r].errors - 1)
                           /\ sum[r].errors > 0

\* A row with a final status is the summary that the log bears out.
RowFollows(r) ==
    run[r].status \in Saved =>
        /\ Tallied(r, Len(batch[r]), sum[r].errors)
        /\ run[r] = [status |-> FinalStatus(sum[r]), processed |-> Len(batch[r]),
                     created |-> sum[r].created, updated |-> sum[r].updated,
                     errors |-> sum[r].errors]

\* The status of the row while its execution lives.
StatusFollows(r) ==
    /\ pc[r] = "idle" => run[r].status = "none"
    /\ pc[r] \in {"policy", "fetch", "event", "failing"} \cup InEvent =>
          run[r].status = "running"
    /\ pc[r] = "health" => run[r].status \in Saved
    /\ pc[r] = "unhealthy" => run[r].status = "error"

HealthFollows ==
    health.by \in Runs =>
        /\ pc[health.by] = "done"
        /\ health.status = "healthy" <=> run[health.by].status \in Saved

RunFollows(r) == LogFollows(r) /\ RowFollows(r) /\ StatusFollows(r)

RunInv == CountInv /\ OneLine /\ HealthFollows /\ \A r \in Runs : RunFollows(r)

\* Without new lines, the numbers stay.
LEMMA SameLines ==
    ASSUME NEW r, LinesOf(r)' = LinesOf(r)
    PROVE  /\ Positions(r)' = Positions(r)
           /\ \A a : Lines(r, a)' = Lines(r, a) /\ Logged(r, a)' = Logged(r, a)
  <1>1. ASSUME NEW a PROVE Lines(r, a)' = Lines(r, a)
    <2>1. Lines(r, a) = {l \in LinesOf(r) : l.action = a}
      BY DEF Lines, LinesOf
    <2>2. Lines(r, a)' = {l \in LinesOf(r)' : l.action = a}
      BY DEF Lines, LinesOf
    <2> QED BY <2>1, <2>2
  <1>2. Positions(r)' = Positions(r)
    BY DEF Positions
  <1> QED BY <1>1, <1>2 DEF Logged

LEMMA LoggedNat ==
    ASSUME IsFiniteSet(log), NEW r, NEW a
    PROVE  IsFiniteSet(Lines(r, a)) /\ Logged(r, a) \in Nat
  BY FS_Subset, FS_CardinalityType DEF Lines, Logged

\* The line that ends an event is its only one.
LEMMA NewLine ==
    ASSUME CountInv, OneLine, NEW r \in Runs, pc[r] \in InEvent,
           NEW e \in LogEntry, e.run = r, e.pos = pos[r], log' = log \cup {e}
    PROVE  /\ OneLine'
           /\ Positions(r)' = Positions(r) \cup {pos[r]}
           /\ Logged(r, e.action)' = Logged(r, e.action) + 1
           /\ \A a : a # e.action => Logged(r, a)' = Logged(r, a)
           /\ \A s \in Runs \ {r} : LinesOf(s)' = LinesOf(s)
  <1>1. \A l \in log : ~(l.run = r /\ l.pos = pos[r])
    BY DEF CountInv, LogBehind, Over, TypeInv, TypeOK
  <1>2. OneLine'
    BY <1>1 DEF OneLine
  <1>3. Positions(r)' = Positions(r) \cup {pos[r]}
    BY DEF Positions, LinesOf
  <1>4. Logged(r, e.action)' = Logged(r, e.action) + 1
    <2>1. Lines(r, e.action)' = Lines(r, e.action) \cup {e} /\ e \notin Lines(r, e.action)
      BY <1>1 DEF Lines
    <2>2. Cardinality(Lines(r, e.action) \cup {e}) = Cardinality(Lines(r, e.action)) + 1
      BY <2>1, LoggedNat, FS_AddElement DEF CountInv
    <2> QED BY <2>1, <2>2 DEF Logged
  <1>5. ASSUME NEW a, a # e.action PROVE Logged(r, a)' = Logged(r, a)
    <2>1. Lines(r, a)' = Lines(r, a)
      BY <1>5 DEF Lines
    <2> QED BY <2>1 DEF Logged
  <1>6. \A s \in Runs \ {r} : LinesOf(s)' = LinesOf(s)
    BY DEF LinesOf
  <1> QED BY <1>2, <1>3, <1>4, <1>5, <1>6

\* What an execution has reported does not depend on the other executions.
LEMMA RunFollowsKept ==
    ASSUME NEW s \in Runs, RunFollows(s), LinesOf(s)' = LinesOf(s), pc'[s] = pc[s],
           pos'[s] = pos[s], sum'[s] = sum[s], batch'[s] = batch[s], run'[s] = run[s]
    PROVE  RunFollows(s)'
  <1>1. Positions(s)' = Positions(s) /\ \A a : Logged(s, a)' = Logged(s, a)
    BY SameLines
  <1> QED BY <1>1 DEF RunFollows, LogFollows, RowFollows, StatusFollows, Tallied

\* A step of r keeps the invariant when it keeps it for r.
LEMMA RunStep ==
    ASSUME RunInv, CountInv', NEW r \in Runs, OneLine', RunFollows(r)', HealthFollows',
           \A s \in Runs \ {r} :
              /\ LinesOf(s)' = LinesOf(s) /\ pc'[s] = pc[s] /\ pos'[s] = pos[s]
              /\ sum'[s] = sum[s] /\ batch'[s] = batch[s] /\ run'[s] = run[s]
    PROVE  RunInv'
  <1>1. \A s \in Runs \ {r} : RunFollows(s)'
    BY RunFollowsKept DEF RunInv
  <1> QED BY <1>1 DEF RunInv

\* The health of the source stays what it was while a live execution moves on.
LEMMA HealthKept ==
    ASSUME RunInv, NEW r \in Runs, pc[r] # "done", health' = health,
           \A s \in Runs \ {r} : pc'[s] = pc[s] /\ run'[s] = run[s]
    PROVE  HealthFollows'
  BY DEF RunInv, HealthFollows

\* A step of r that leaves the log and the rows.
LEMMA RunQuiet ==
    ASSUME RunInv, CountInv', NEW r \in Runs, pc[r] # "done",
           UNCHANGED <<log, run, health, batch>>,
           \A s \in Runs \ {r} : pc'[s] = pc[s] /\ pos'[s] = pos[s] /\ sum'[s] = sum[s],
           LogFollows(r)', RowFollows(r)', StatusFollows(r)'
    PROVE  RunInv'
  <1>1. OneLine' /\ \A s \in Runs : LinesOf(s)' = LinesOf(s)
    BY DEF RunInv, OneLine, LinesOf
  <1> QED BY <1>1, RunStep, HealthKept DEF RunFollows

\* An event that fails is counted as an error before its line is written,
\* perhaps after it was counted as stored.
LEMMA RunErrs ==
    ASSUME RunInv, CountInv', NEW r \in Runs, NEW c \in Nat, NEW u \in Nat,
           Tally(r, c, u, 1), Goto(r, "errlog"), UNCHANGED <<log, run, health, batch>>,
           \/ pc[r] \in InEvent \ {"errlog"} /\ pos' = pos
           \/ pc[r] = "event" /\ pos' = [pos EXCEPT ![r] = @ + 1]
    PROVE  RunInv'
  <1>t. /\ pc \in [Runs -> Labels] /\ pos \in [Runs -> Nat]
        /\ sum \in [Runs -> Summary] /\ IsFiniteSet(log)
    BY DEF RunInv, CountInv, TypeInv, TypeOK
  <1>1. sum[r] \in Summary /\ pos[r] \in Nat /\ pc[r] # "done"
    BY <1>t DEF InEvent
  <1>2. sum' = [sum EXCEPT ![r] = Count(sum[r], c, u, 1)]
    BY DEF Tally
  <1>3. /\ sum'[r].errors = sum[r].errors + 1
        /\ sum'[r].created = sum[r].created + c /\ sum'[r].updated = sum[r].updated + u
        /\ \A s \in Runs \ {r} : sum'[s] = sum[s]
    BY <1>2, <1>t DEF Count
  <1>4. pc'[r] = "errlog" /\ \A s \in Runs \ {r} : pc'[s] = pc[s]
    BY <1>t DEF Goto
  <1>5. pos'[r] \in Nat /\ Tallied(r, pos'[r] - 1, sum[r].errors)
    BY <1>1, <1>t DEF RunInv, RunFollows, LogFollows, Between
  <1>6. LinesOf(r)' = LinesOf(r)
    BY DEF LinesOf
  <1>7. Positions(r)' = Positions(r) /\ \A a : Logged(r, a)' = Logged(r, a) /\ Logged(r, a) \in Nat
    BY <1>6, <1>t, SameLines, LoggedNat
  <1>8. Tallied(r, pos[r] - 1, sum[r].errors - 1)'
    <2>0. sum[r].errors \in Nat /\ sum'[r].errors \in Nat
      BY <1>1, <1>3 DEF Summary
    <2>1. sum'[r].errors - 1 = sum[r].errors /\ sum'[r].errors # 0
      BY <1>3, <2>0
    <2>2. /\ Positions(r)' = 1 .. pos'[r] - 1
          /\ Logged(r, "error")' = sum'[r].errors - 1
      BY <1>5, <1>7, <2>1 DEF Tallied
    <2>3. /\ Logged(r, "created")' <= sum'[r].created
          /\ Logged(r, "updated")' <= sum'[r].updated
      <3>1. /\ Logged(r, "created") <= sum[r].created
            /\ Logged(r, "updated") <= sum[r].updated
        BY <1>5 DEF Tallied
      <3>2. sum[r].created \in Nat /\ sum[r].updated \in Nat
        BY <1>1 DEF Summary
      <3> QED BY <1>3, <1>7, <3>1, <3>2
    <2> QED BY <2>1, <2>2, <2>3 DEF Tallied
  <1>9. LogFollows(r)'
    BY <1>1, <1>3, <1>4, <1>8 DEF LogFollows, InEvent, Between, Summary
  <1>10. RowFollows(r)' /\ StatusFollows(r)'
    BY <1>4 DEF RunInv, RunFollows, RowFollows, StatusFollows, InEvent, Saved
  <1>11. \A s \in Runs \ {r} : pos'[s] = pos[s]
    BY <1>t
  <1> QED BY <1>1, <1>3, <1>4, <1>9, <1>10, <1>11, RunQuiet

\* The line of an event brings the log up to the current position.
LEMMA RunLine ==
    ASSUME RunInv, CountInv', NEW r \in Runs, pc[r] \in InEvent, Goto(r, "event"),
           NEW e \in LogEntry, e.run = r, e.pos = pos[r], log' = log \cup {e},
           UNCHANGED <<run, health, batch, pos>>, sum'[r] \in Summary,
           \A s \in Runs \ {r} : sum'[s] = sum[s],
           \/ /\ pc[r] # "errlog" /\ e.action = "created"
              /\ sum'[r] = Count(sum[r], 1, 0, 0)
           \/ /\ pc[r] # "errlog" /\ e.action = "updated"
              /\ sum'[r] = Count(sum[r], 0, 1, 0)
           \/ pc[r] = "errlog" /\ e.action = "error" /\ sum' = sum
    PROVE  RunInv'
  <1>1. /\ sum[r] \in Summary /\ pos[r] \in Nat \ {0}
        /\ pc' = [pc EXCEPT ![r] = "event"] /\ pc'[r] = "event"
    BY DEF RunInv, CountInv, TypeInv, TypeOK, CurrentEventExists, Goto
  <1>2. /\ OneLine'
        /\ Positions(r)' = Positions(r) \cup {pos[r]}
        /\ Logged(r, e.action)' = Logged(r, e.action) + 1
        /\ \A a : a # e.action => Logged(r, a)' = Logged(r, a)
        /\ \A s \in Runs \ {r} : LinesOf(s)' = LinesOf(s)
    BY NewLine DEF RunInv
  <1>3. \A a : Logged(r, a) \in Nat
    BY LoggedNat DEF RunInv, CountInv
  <1>4. (1 .. pos[r] - 1) \cup {pos[r]} = 1 .. pos[r]
    BY <1>1
  <1>5. Tallied(r, pos[r], sum[r].errors)'
    <2>1. CASE pc[r] # "errlog"
      <3>1. Tallied(r, pos[r] - 1, sum[r].errors)
        BY <2>1 DEF RunInv, RunFollows, LogFollows
      <3>2. /\ sum[r].created \in Nat /\ sum[r].updated \in Nat /\ sum[r].errors \in Nat
            /\ sum'[r].errors = sum[r].errors
        BY <1>1, <2>1 DEF Count, Summary
      <3>3. Positions(r)' = 1 .. pos[r] /\ Logged(r, "error")' = sum[r].errors
        BY <1>2, <1>4, <2>1, <3>1 DEF Tallied
      <3>4. CASE e.action = "created"
        <4>1. /\ sum'[r].created = sum[r].created + 1 /\ sum'[r].updated = sum[r].updated
              /\ Logged(r, "created")' = Logged(r, "created") + 1
              /\ Logged(r, "updated")' = Logged(r, "updated")
          BY <1>2, <2>1, <3>2, <3>4 DEF Count
        <4> QED BY <1>1, <1>3, <3>1, <3>2, <3>3, <4>1 DEF Tallied
      <3>5. CASE e.action = "updated"
        <4>1. /\ sum'[r].created = sum[r].created /\ sum'[r].updated = sum[r].updated + 1
              /\ Logged(r, "created")' = Logged(r, "created")
              /\ Logged(r, "updated")' = Logged(r, "updated") + 1
          BY <1>2, <2>1, <3>2, <3>5 DEF Count
        <4> QED BY <1>1, <1>3, <3>1, <3>2, <3>3, <4>1 DEF Tallied
      <3> QED BY <2>1, <3>4, <3>5
    <2>2. CASE pc[r] = "errlog"
      <3>1. Tallied(r, pos[r] - 1, sum[r].errors - 1) /\ sum[r].errors > 0
        BY <2>2 DEF RunInv, RunFollows, LogFollows
      <3> QED BY <1>1, <1>2, <1>3, <1>4, <2>2, <3>1 DEF Tallied, Summary
    <2> QED BY <2>1, <2>2
  <1>6. LogFollows(r)'
    BY <1>1, <1>5 DEF LogFollows, InEvent
  <1>7. RowFollows(r)' /\ StatusFollows(r)'
    BY <1>1 DEF RunInv, RunFollows, RowFollows, StatusFollows, InEvent, Saved
  <1>8. \A s \in Runs \ {r} : pc'[s] = pc[s]
    BY DEF Goto, RunInv, CountInv, TypeInv, TypeOK
  <1>9. HealthFollows'
    BY <1>1, <1>8, HealthKept DEF InEvent
  <1> QED BY <1>2, <1>6, <1>7, <1>8, <1>9, RunStep DEF RunFollows

\* A deletion takes the alert out of its lines and leaves everything else in them.
LEMMA RunDelete ==
    ASSUME RunInv, CountInv', NEW a \in DOMAIN alert, DeleteAlert(a)
    PROVE  RunInv'
  <1> DEFINE Cut(l) == IF l.alert = a THEN [l EXCEPT !.alert = NoAlert] ELSE l
  <1>1. /\ log' = {Cut(l) : l \in log} /\ IsFiniteSet(log)
        /\ UNCHANGED <<pc, pos, sum, batch, run, health>>
    BY DEF DeleteAlert, progress, RunInv, CountInv
  <1>2. \A l \in log : /\ Cut(l).run = l.run /\ Cut(l).pos = l.pos
                       /\ Cut(l).action = l.action
    BY DEF RunInv, CountInv, TypeInv, TypeOK, LogEntry
  <1> HIDE DEF Cut
  <1>3. OneLine'
    BY <1>1, <1>2 DEF OneLine, RunInv
  <1>4. ASSUME NEW r PROVE Positions(r)' = Positions(r)
    <2>1. \A p : p \in Positions(r) <=> \E l \in log : l.run = r /\ l.pos = p
      BY DEF Positions, LinesOf
    <2>2. \A p : p \in Positions(r)' <=> \E l \in log' : l.run = r /\ l.pos = p
      BY DEF Positions, LinesOf
    <2>3. \A p : (\E l \in log' : l.run = r /\ l.pos = p)
                   <=> (\E l \in log : l.run = r /\ l.pos = p)
      BY <1>1, <1>2
    <2> QED BY <2>1, <2>2, <2>3
  <1>5. ASSUME NEW r, NEW x PROVE Logged(r, x)' = Logged(r, x)
    <2> DEFINE L == Lines(r, x)
               f == [l \in L |-> Cut(l)]
    <2>1. \A l \in L : Cut(l) \in L'
      BY <1>1, <1>2 DEF Lines
    <2>2. \A m \in L' : \E l \in L : m = Cut(l)
      BY <1>1, <1>2 DEF Lines
    <2>3. \A l, m \in L : Cut(l) = Cut(m) => l = m
      BY <1>2 DEF Lines, RunInv, OneLine
    <2> HIDE DEF L
    <2>4. PICK M : M = L'
      OBVIOUS
    <2>5. f \in [L -> M]
      BY <2>1, <2>4
    <2>6. f \in Injection(L, M)
      BY <2>3, <2>5 DEF Injection, IsInjective
    <2>7. f \in Surjection(L, M)
      BY <2>2, <2>4, <2>5 DEF Surjection
    <2>8. f \in Bijection(L, M)
      BY <2>6, <2>7 DEF Bijection
    <2>9. IsFiniteSet(L)
      BY <1>1, FS_Subset DEF L, Lines
    <2>10. Cardinality(L) = Cardinality(M)
      BY <2>8, <2>9, FS_Bijection DEF ExistsBijection
    <2> QED BY <2>4, <2>10 DEF L, Logged
  <1>6. \A r \in Runs : RunFollows(r)'
    BY <1>1, <1>4, <1>5 DEF RunInv, RunFollows, LogFollows, RowFollows, StatusFollows, Tallied
  <1>7. HealthFollows'
    BY <1>1 DEF RunInv, HealthFollows
  <1> QED BY <1>3, <1>6, <1>7 DEF RunInv

LEMMA RunNext == RunInv /\ [Next]_vars => RunInv'
  <1> SUFFICES ASSUME RunInv, [Next]_vars PROVE RunInv'
    OBVIOUS
  <1>0. CountInv /\ CountInv'
    BY CountNext DEF RunInv
  <1>t. /\ pc \in [Runs -> Labels] /\ pos \in [Runs -> Nat]
        /\ sum \in [Runs -> Summary] /\ run \in [Runs -> Row]
        /\ batch \in [Runs -> Seq(Event)]
    BY <1>0 DEF CountInv, TypeInv, TypeOK
  <1>f. \A r \in Runs : LogFollows(r) /\ RowFollows(r) /\ StatusFollows(r)
    BY DEF RunInv, RunFollows
  <1>1. CASE UNCHANGED vars
    <2>1. UNCHANGED <<pc, pos, sum, batch, run, health, log>>
      BY <1>1 DEF vars, progress, store
    <2>2. OneLine' /\ HealthFollows' /\ \A r \in Runs : LinesOf(r)' = LinesOf(r)
      BY <2>1 DEF RunInv, OneLine, HealthFollows, LinesOf
    <2> QED BY <1>0, <2>1, <2>2, RunFollowsKept DEF RunInv
  <1>12. ASSUME EditRules PROVE RunInv'
    <2>1. UNCHANGED <<pc, pos, sum, batch, run, health, log>>
      BY <1>12, EditKeeps DEF progress
    <2>2. OneLine' /\ HealthFollows' /\ \A r \in Runs : LinesOf(r)' = LinesOf(r)
      BY <2>1 DEF RunInv, OneLine, HealthFollows, LinesOf
    <2> QED BY <1>0, <2>1, <2>2, RunFollowsKept DEF RunInv
  <1>2. ASSUME NEW r \in Runs,
               \/ Start(r) \/ SaveRun(r) \/ SaveFailedRun(r)
               \/ SaveHealthy(r) \/ SaveUnhealthy(r)
        PROVE  RunInv'
    <2>1. /\ UNCHANGED <<log, batch, pos, sum>> /\ pc[r] # "done"
          /\ \A s \in Runs \ {r} : pc'[s] = pc[s] /\ run'[s] = run[s]
      BY <1>2, <1>t DEF Start, SaveRun, SaveFailedRun, SaveHealthy, SaveUnhealthy, Goto
    <2>2. OneLine' /\ \A s \in Runs : LinesOf(s)' = LinesOf(s)
      BY <2>1 DEF RunInv, OneLine, LinesOf
    <2>3. Positions(r)' = Positions(r) /\ \A a : Logged(r, a)' = Logged(r, a)
      BY <2>2, SameLines
    <2>4. \A n, m : Tallied(r, n, m)' = Tallied(r, n, m)
      BY <2>1, <2>3 DEF Tallied
    <2>5. RunFollows(r)' /\ HealthFollows'
      <3>1. CASE Start(r)
        <4>1. /\ pc[r] = "idle" /\ pc'[r] \in {"policy", "fetch"} /\ health' = health
              /\ run'[r].status = "running"
          BY <3>1, <1>t DEF Start, Goto, Row
        <4>2. HealthFollows'
          BY <2>1, <4>1, HealthKept
        <4>3. LogFollows(r)'
          BY <1>f, <2>1, <2>3, <4>1 DEF LogFollows, Tallied, Between, InEvent
        <4>4. RowFollows(r)' /\ StatusFollows(r)'
          BY <4>1 DEF RowFollows, StatusFollows, InEvent, Saved
        <4> QED BY <4>2, <4>3, <4>4 DEF RunFollows
      <3>2. CASE SaveRun(r)
        <4>1. /\ pc[r] = "event" /\ pc'[r] = "health" /\ health' = health
              /\ pos[r] = Len(batch[r])
              /\ run'[r] = [status |-> FinalStatus(sum[r]), processed |-> pos[r],
                            created |-> sum[r].created, updated |-> sum[r].updated,
                            errors |-> sum[r].errors]
          BY <3>2, <1>t DEF SaveRun, Goto
        <4>2. HealthFollows'
          BY <2>1, <4>1, HealthKept
        <4>3. RowFollows(r)'
          BY <1>f, <2>1, <2>3, <4>1 DEF LogFollows, RowFollows, Tallied, Between, FinalStatus
        <4>4. run'[r].status \in Saved
          BY <4>1 DEF FinalStatus, Saved
        <4>5. LogFollows(r)' /\ StatusFollows(r)'
          BY <4>1, <4>4 DEF LogFollows, StatusFollows, Between, InEvent
        <4> QED BY <4>2, <4>3, <4>5 DEF RunFollows
      <3>3. CASE SaveFailedRun(r)
        <4>1. pc[r] # "done" /\ pc'[r] = "unhealthy" /\ health' = health
          BY <3>3, <1>t DEF SaveFailedRun, Goto
        <4>3. run'[r].status = "error"
          <5> DEFINE n == IF pc[r] = "failing" THEN 1 ELSE Higher(sum[r].errors, 1)
                     half == [run[r] EXCEPT !.status = "error"]
          <5>1. half.status = "error" /\ DOMAIN half = DOMAIN run[r]
            BY <1>t DEF Row
          <5>2. [half EXCEPT !.errors = n].status = "error"
            BY <5>1, <1>t DEF Row
          <5>3. run'[r] = [half EXCEPT !.errors = n]
            BY <3>3, <1>t DEF SaveFailedRun
          <5> QED BY <5>2, <5>3
        <4>2. HealthFollows'
          BY <2>1, <4>1, HealthKept
        <4> QED BY <4>1, <4>2, <4>3
                DEF RunFollows, LogFollows, RowFollows, StatusFollows, Between, InEvent, Saved
      <3>4. CASE SaveHealthy(r) \/ SaveUnhealthy(r)
        <4>1. /\ pc'[r] = "done" /\ run' = run /\ health'.by = r
              /\ health'.status = "healthy" <=> run[r].status \in Saved
          BY <3>4, <1>t, <1>f DEF SaveHealthy, SaveUnhealthy, Goto, StatusFollows, Saved
        <4>2. HealthFollows'
          BY <4>1 DEF HealthFollows
        <4>3. RowFollows(r)'
          <5>1. run'[r] = run[r] /\ batch'[r] = batch[r] /\ sum' = sum
            BY <2>1, <4>1
          <5> QED BY <1>f, <2>3, <5>1 DEF RowFollows, Tallied, FinalStatus
        <4>4. LogFollows(r)' /\ StatusFollows(r)'
          BY <4>1 DEF LogFollows, StatusFollows, Between, InEvent
        <4> QED BY <4>2, <4>3, <4>4 DEF RunFollows
      <3> QED BY <1>2, <3>1, <3>2, <3>3, <3>4
    <2> QED BY <1>0, <2>1, <2>2, <2>5, RunStep
  <1>3. ASSUME NEW r \in Runs, BadEvent(r) PROVE RunInv'
    BY <1>0, <1>3, RunErrs DEF BadEvent, store
  <1>4. ASSUME NEW r \in Runs, RuleGone(r) \/ LookupMany(r) \/ TargetGone(r) PROVE RunInv'
    BY <1>0, <1>4, RunErrs DEF RuleGone, LookupMany, TargetGone, store, InEvent
  <1>5. ASSUME NEW r \in Runs, RolledBack(r) PROVE RunInv'
    <2>1. PICK n \in {0, 1} : Tally(r, n, 0, 1) \/ Tally(r, 0, n, 1)
      BY <1>5 DEF RolledBack
    <2>2. /\ Goto(r, "errlog") /\ UNCHANGED <<log, run, health, batch>> /\ pos' = pos
          /\ pc[r] \in InEvent \ {"errlog"} /\ n \in Nat
      BY <1>5 DEF RolledBack, store, InEvent
    <2>3. CASE Tally(r, n, 0, 1)
      BY <1>0, <2>2, <2>3, RunErrs
    <2>4. CASE Tally(r, 0, n, 1)
      BY <1>0, <2>2, <2>4, RunErrs
    <2> QED BY <2>1, <2>3, <2>4
  <1>6. ASSUME NEW r \in Runs, NEW a, NEW v, NEW action \in {"created", "updated"},
               a \in AlertId, pc[r] \in InEvent, pc[r] # "errlog", Commit(r, a, v, action),
               \/ action = "created" /\ Tally(r, 1, 0, 0)
               \/ action = "updated" /\ Tally(r, 0, 1, 0)
        PROVE  RunInv'
    <2> DEFINE e == [run |-> r, pos |-> pos[r], action |-> action, alert |-> a]
    <2>1. e \in LogEntry /\ log' = log \cup {e}
      BY <1>6, <1>t DEF Commit, LogEntry
    <2>2. /\ Goto(r, "event") /\ UNCHANGED <<run, health, batch, pos>>
          /\ sum' \in [Runs -> Summary]
      BY <1>0, <1>6 DEF Commit, CountInv, TypeInv, TypeOK
    <2>3. /\ \A s \in Runs \ {r} : sum'[s] = sum[s]
          /\ \/ action = "created" /\ sum'[r] = Count(sum[r], 1, 0, 0)
             \/ action = "updated" /\ sum'[r] = Count(sum[r], 0, 1, 0)
      BY <1>6, <1>t DEF Tally
    <2>4. e.run = r /\ e.pos = pos[r] /\ e.action = action
      OBVIOUS
    <2> HIDE DEF e
    <2> QED BY <1>0, <1>6, <2>1, <2>2, <2>3, <2>4, RunLine
  <1>7. ASSUME NEW r \in Runs, CommitCreate(r) PROVE RunInv'
    <2>1. Me(r) \in AlertId /\ pc[r] \in InEvent /\ pc[r] # "errlog"
      BY <1>7, <1>t DEF CommitCreate, Me, AlertId, InEvent
    <2> QED BY <1>6, <1>7, <2>1 DEF CommitCreate
  <1>8. ASSUME NEW r \in Runs, CommitUpdate(r) PROVE RunInv'
    <2>1. target[r] \in AlertId /\ pc[r] \in InEvent /\ pc[r] # "errlog"
      BY <1>0, <1>8 DEF CommitUpdate, InEvent, CountInv, TypeInv, TypeOK
    <2> QED BY <1>6, <1>8, <2>1 DEF CommitUpdate
  <1>9. ASSUME NEW r \in Runs, LogError(r) PROVE RunInv'
    <2> DEFINE e == [run |-> r, pos |-> pos[r], action |-> "error", alert |-> NoAlert]
    <2>1. e \in LogEntry /\ log' = log \cup {e} /\ pc[r] = "errlog" /\ pc[r] \in InEvent
      BY <1>9, <1>t DEF LogError, LogEntry, InEvent
    <2>2. /\ Goto(r, "event") /\ UNCHANGED <<run, health, batch, pos, sum>>
          /\ sum'[r] \in Summary
      BY <1>9, <1>t DEF LogError
    <2>3. e.run = r /\ e.pos = pos[r] /\ e.action = "error"
      OBVIOUS
    <2> HIDE DEF e
    <2> QED BY <1>0, <2>1, <2>2, <2>3, RunLine
  <1>10. ASSUME NEW a \in DOMAIN alert, DeleteAlert(a) PROVE RunInv'
    BY <1>0, <1>10, RunDelete
  <1>11. ASSUME NEW r \in Runs,
                \/ CreatePolicy(r) \/ Fetch(r) \/ FetchFails(r) \/ ReadRule(r) \/ SaveRule(r)
                \/ LookupNone(r) \/ LookupOne(r) \/ ReadOccurrence(r)
                \/ LogErrorFails(r) \/ LateFailure(r) \/ Crash(r)
         PROVE  RunInv'
    <2>1. /\ UNCHANGED <<log, run, health, sum>> /\ pc[r] # "done"
          /\ \A s \in Runs \ {r} : pc'[s] = pc[s] /\ pos'[s] = pos[s] /\ batch'[s] = batch[s]
      BY <1>11, <1>t DEF CreatePolicy, Fetch, FetchFails, ReadRule, SaveRule, LookupNone,
         LookupOne, ReadOccurrence, LogErrorFails, LateFailure, Crash, Goto, Active, store
    <2>2. OneLine' /\ \A s \in Runs : LinesOf(s)' = LinesOf(s)
      BY <2>1 DEF RunInv, OneLine, LinesOf
    <2>3. Positions(r)' = Positions(r) /\ \A a : Logged(r, a)' = Logged(r, a)
      BY <2>2, SameLines
    <2>4. /\ \/ pc'[r] \in Between \cup (InEvent \ {"errlog"}) /\ pc[r] # "errlog"
                /\ (IF pc[r] \in Between THEN pos[r] ELSE pos[r] - 1)
                   = (IF pc'[r] \in Between THEN pos'[r] ELSE pos'[r] - 1)
                /\ pc[r] \in Between \cup InEvent
             \/ pc'[r] \in {"failing", "failingLate", "crashed", "raised"}
          /\ run[r].status \in Saved => batch'[r] = batch[r]
      BY <1>11, <1>t, <1>f DEF CreatePolicy, Fetch, FetchFails, ReadRule, SaveRule, LookupNone,
         LookupOne, ReadOccurrence, LogErrorFails, LateFailure, Crash, Goto,
         Between, InEvent, store, StatusFollows, Saved
    <2>5. LogFollows(r)'
      BY <1>f, <2>1, <2>3, <2>4 DEF LogFollows, Tallied, Between, InEvent
    <2>6. RowFollows(r)'
      BY <1>f, <2>1, <2>3, <2>4 DEF RowFollows, Tallied, FinalStatus
    <2>7. StatusFollows(r)'
      BY <1>11, <1>t, <1>f DEF CreatePolicy, Fetch, FetchFails, ReadRule, SaveRule, LookupNone,
         LookupOne, ReadOccurrence, LogErrorFails, LateFailure, Crash, Goto,
         Between, InEvent, store, StatusFollows, Saved
    <2>8. HealthFollows'
      BY <2>1, HealthKept
    <2> QED BY <1>0, <2>1, <2>2, <2>5, <2>6, <2>7, <2>8, RunStep DEF RunFollows
  <1> QED
    BY <1>1, <1>2, <1>3, <1>4, <1>5, <1>7, <1>8, <1>9, <1>10, <1>11, <1>12 DEF Next, Step, Work

LEMMA RunInit == Init => RunInv
  <1> SUFFICES ASSUME Init PROVE RunInv
    OBVIOUS
  <1>1. \A r \in Runs : Positions(r) = {} /\ \A a : Logged(r, a) = 0
    BY FS_EmptySet DEF Init, Positions, LinesOf, Logged, Lines
  <1>2. \A r \in Runs : pc[r] = "idle" /\ run[r].status = "none" /\ pos[r] = 0
                        /\ sum[r] = NoSum /\ health.by \notin Runs /\ log = {}
    BY NoAlertAssumption DEF Init, EmptyRow
  <1>3. OneLine /\ HealthFollows
    BY NoAlertAssumption DEF Init, OneLine, HealthFollows
  <1>4. ASSUME NEW r \in Runs PROVE RunFollows(r)
    <2>1. Tallied(r, pos[r], sum[r].errors)
      <3>1. sum[r].created = 0 /\ sum[r].updated = 0 /\ sum[r].errors = 0 /\ 1 .. pos[r] = {}
        BY <1>2 DEF NoSum
      <3>2. Positions(r) = 1 .. pos[r]
        BY <1>1, <3>1
      <3>3. \A a : Logged(r, a) = 0
        BY <1>1
      <3>4. pos[r] = 0
        BY <1>2
      <3> QED BY <3>1, <3>2, <3>3, <3>4 DEF Tallied
    <2> QED BY <1>2, <2>1 DEF RunFollows, LogFollows, RowFollows, StatusFollows, Between,
                              InEvent, Saved
  <1> QED BY <1>3, <1>4, CountInit DEF RunInv

\* A run that ended normally logged each fetched event exactly once: whatever
\* was rolled back, whoever ran at the same time, whatever was deleted since.
THEOREM EventsLoggedOnce == Spec => []EveryEventLoggedOnce
  <1>1. RunInv => EveryEventLoggedOnce
    BY DEF RunInv, EveryEventLoggedOnce, OneLine, RunFollows, RowFollows, Tallied, Saved,
           Positions, LinesOf
  <1> QED BY <1>1, RunInit, RunNext, PTL DEF Spec

\* The counters of a successful run are what it stored.
LEMMA SuccessTellsTheTruth == Spec => []SuccessIsExact
  <1>1. RunInv => SuccessIsExact
    <2> SUFFICES ASSUME RunInv, NEW r \in Runs, run[r].status = "success"
                 PROVE  /\ Lines(r, "error") = {}
                        /\ run[r].created = Logged(r, "created")
                        /\ run[r].updated = Logged(r, "updated")
                        /\ run[r].processed = run[r].created + run[r].updated
      BY DEF SuccessIsExact, Logged
    <2>1. /\ Tallied(r, Len(batch[r]), sum[r].errors)
          /\ run[r] = [status |-> FinalStatus(sum[r]), processed |-> Len(batch[r]),
                       created |-> sum[r].created, updated |-> sum[r].updated,
                       errors |-> sum[r].errors]
      BY DEF RunInv, RunFollows, RowFollows, Saved
    <2>2. sum[r].errors = 0
      BY <2>1 DEF FinalStatus
    <2>3. Lines(r, "error") = {}
      <3>1. Logged(r, "error") = 0 /\ IsFiniteSet(Lines(r, "error"))
        BY <2>1, <2>2, LoggedNat DEF Tallied, RunInv, CountInv
      <3> QED BY <3>1, FS_EmptySet DEF Logged
    <2> QED BY <2>1, <2>2, <2>3 DEF Tallied
  <1> QED BY <1>1, RunInit, RunNext, PTL DEF Spec

\* The counters of a partial run bound what it stored; its errors are exact.
LEMMA PartialTellsABound == Spec => []PartialIsBounded
  <1>1. RunInv => PartialIsBounded
    <2> SUFFICES ASSUME RunInv, NEW r \in Runs, run[r].status = "partial"
                 PROVE  /\ run[r].errors = Logged(r, "error")
                        /\ run[r].errors > 0
                        /\ run[r].created >= Logged(r, "created")
                        /\ run[r].updated >= Logged(r, "updated")
      BY DEF PartialIsBounded, Logged
    <2>1. /\ Tallied(r, Len(batch[r]), sum[r].errors)
          /\ run[r] = [status |-> FinalStatus(sum[r]), processed |-> Len(batch[r]),
                       created |-> sum[r].created, updated |-> sum[r].updated,
                       errors |-> sum[r].errors]
      BY DEF RunInv, RunFollows, RowFollows, Saved
    <2>2. sum[r].errors # 0 /\ sum[r] \in Summary /\ \A a : Logged(r, a) \in Nat
      BY <2>1, LoggedNat DEF FinalStatus, RunInv, CountInv, TypeInv, TypeOK
    <2> QED BY <2>1, <2>2 DEF Tallied, Summary
  <1> QED BY <1>1, RunInit, RunNext, PTL DEF Spec

\* A status of success is exact and a partial one bounds what was stored
\* (process_source, the counters of IngestionRun).
THEOREM StatusesTellLog == Spec => []StatusTellsLog
  BY SuccessTellsTheTruth, PartialTellsABound, PTL DEF StatusTellsLog

\* The health of the source is that of the run it names, although each of the
\* two saves may fail and another run may save its own in between.
THEOREM HealthIsTheRuns == Spec => []HealthTellsTheRun
  <1>1. RunInv => HealthTellsTheRun
    BY DEF RunInv, HealthFollows, HealthTellsTheRun, Saved
  <1> QED BY <1>1, RunInit, RunNext, PTL DEF Spec

-----------------------------------------------------------------------------
(* Rules and occurrences: read, then written without a lock *)

AfterRule == {"lookup", "create", "occurrence", "update"}

\* The events of a title that its rule has counted, stored or still to be.
Pending(t) == {<<r, pos[r]>> : r \in {s \in Runs : pc[s] \in AfterRule /\ Title(s) = t}}
Counted(t) == StoredUnder(t) \cup Pending(t)

RuleCounts ==
    \A t \in Titles \ doubted :
        IsFiniteSet(Counted(t)) /\ Cardinality(Counted(t)) <= rule[t].count

\* A missing rule counts nothing; a copy of a rule was made of a rule.
RuleAbsent ==
    /\ \A t \in Titles : ~rule[t].there => rule[t].count = 0
    /\ \A t \in DOMAIN edit : edit[t].there
    /\ \A r \in Runs : pc[r] = "rule" => received[r].there

\* Who holds a copy of a rule holds what is stored, until that was noted.
RuleFresh ==
    /\ \A r \in Runs : pc[r] = "rule" /\ Title(r) \notin doubted => received[r] = rule[Title(r)]
    /\ \A t \in DOMAIN edit \ doubted : edit[t] = rule[t]

RuleInv == RuleCounts /\ RuleAbsent /\ RuleFresh

Times(a) == {EventOf(l).time : l \in Entries(a)}

Summarises(o, a) ==
    /\ o.count = Cardinality(Entries(a))
    /\ {o.first, o.last} \subseteq Times(a)
    /\ \A t \in Times(a) : o.first <= t /\ t <= o.last

\* The occurrence that an execution has read is the stored one, until that was
\* noted.
SeenFresh ==
    \A r \in Runs : pc[r] = "update" /\ target[r] \in DOMAIN alert \ torn =>
        seen[r] = alert[target[r]].occ

\* The log names existing alerts only, and events that exist.
LinesNameAlerts ==
    \A l \in log : l.pos > 0 /\ (l.alert # NoAlert => l.alert \in DOMAIN alert)

OccurrenceInv ==
    /\ LinesNameAlerts /\ SeenFresh
    /\ \A a \in DOMAIN alert \ torn : Summarises(alert[a].occ, a)

\* One more element is at most one more.
LEMMA OneMore ==
    ASSUME NEW S, IsFiniteSet(S), NEW e
    PROVE  /\ IsFiniteSet(S \cup {e})
           /\ Cardinality(S \cup {e}) <= Cardinality(S) + 1
  <1>1. PICK n \in Nat : n = Cardinality(S)
    BY FS_CardinalityType
  <1>2. CASE e \in S
    <2>1. S \cup {e} = S
      BY <1>2
    <2> QED BY <1>1, <2>1
  <1>3. CASE e \notin S
    <2>1. Cardinality(S \cup {e}) = n + 1 /\ IsFiniteSet(S \cup {e})
      BY <1>1, <1>3, FS_AddElement
    <2> QED BY <1>1, <2>1
  <1> QED BY <1>2, <1>3

\* Only the end of an event and a deletion touch the log.
LEMMA LogSteps ==
    ASSUME [Next]_vars
    PROVE  \/ log' = log
           \/ \E r \in Runs : CommitCreate(r) \/ CommitUpdate(r) \/ LogError(r)
           \/ \E a \in DOMAIN alert : DeleteAlert(a)
  BY EditKeeps DEF Next, Step, Work, vars, store, Start, CreatePolicy, Fetch, FetchFails, BadEvent,
         ReadRule, SaveRule, RuleGone, LookupNone, LookupOne, LookupMany, ReadOccurrence,
         TargetGone, RolledBack, LogErrorFails, SaveRun, SaveHealthy, LateFailure,
         SaveFailedRun, SaveUnhealthy, Crash

\* A fetch comes before the lines of its run: the event of a line never changes.
LEMMA EventsKept ==
    ASSUME RunInv, [Next]_vars, NEW l \in log
    PROVE  EventOf(l)' = EventOf(l)
  <1>3. CASE EditRules \/ UNCHANGED vars \/ \E a \in DOMAIN alert : DeleteAlert(a)
    <2>1. batch' = batch
      BY <1>3, EditKeeps DEF vars, progress, DeleteAlert
    <2> QED BY <2>1 DEF EventOf
  <1>1. ASSUME NEW r \in Runs, Start(r) \/ Crash(r) \/ Step(r), ~Fetch(r) PROVE batch' = batch
    BY <1>1 DEF Step, Work, store, Start, CreatePolicy, FetchFails,
         BadEvent, ReadRule, SaveRule, RuleGone, LookupNone, LookupOne, LookupMany,
         ReadOccurrence, TargetGone, RolledBack, LogError, LogErrorFails, SaveRun, SaveHealthy,
         LateFailure, SaveFailedRun, SaveUnhealthy, Crash, CommitCreate, CommitUpdate, Commit
  <1>2. ASSUME NEW r \in Runs, Fetch(r) PROVE batch'[l.run] = batch[l.run]
    <2>1. pc[r] = "fetch" /\ pos[r] = 0
      BY <1>2 DEF Fetch, RunInv, CountInv, TypeInv, CurrentEventExists
    <2>2. Positions(r) = {}
      <3>1. Positions(r) = 1 .. 0
        BY <2>1 DEF RunInv, RunFollows, LogFollows, Tallied, Between
      <3> QED BY <3>1
    <2>3. l.run # r
      BY <2>2 DEF Positions, LinesOf
    <2> QED BY <1>2, <2>3 DEF Fetch, RunInv, CountInv, TypeInv, TypeOK
  <1> QED BY <1>1, <1>2, <1>3 DEF EventOf, Next

\* What comes to be stored had been counted: only a commit stores, and its event
\* has passed the rule.
LEMMA StoredWasCounted ==
    ASSUME RunInv, [Next]_vars, NEW t
    PROVE  StoredUnder(t)' \subseteq Counted(t)
  <1> SUFFICES ASSUME NEW m \in Stored', EventOf(m)'.title = t
               PROVE  <<m.run, m.pos>> \in Counted(t)
    BY DEF StoredUnder
  <1>1. ASSUME NEW l \in log, l.action # "error", l.run = m.run, l.pos = m.pos
        PROVE  <<m.run, m.pos>> \in Counted(t)
    <2>1. EventOf(l)' = EventOf(l)
      BY EventsKept
    <2>2. EventOf(l)' = EventOf(m)'
      BY <1>1 DEF EventOf
    <2>3. l \in Stored /\ EventOf(l).title = t
      BY <1>1, <2>1, <2>2 DEF Stored
    <2> QED BY <1>1, <2>3 DEF Counted, StoredUnder
  <1>2. ASSUME NEW r \in Runs, CommitCreate(r) \/ CommitUpdate(r)
        PROVE  <<m.run, m.pos>> \in Counted(t)
    <2>1. PICK e : e.run = r /\ e.pos = pos[r] /\ log' = log \cup {e}
      <3>1. PICK a, action : log' = log \cup {[run |-> r, pos |-> pos[r], action |-> action,
                                               alert |-> a]}
        BY <1>2 DEF CommitCreate, CommitUpdate, Commit
      <3> QED BY <3>1
    <2>2. pc[r] \in AfterRule /\ batch' = batch
      BY <1>2 DEF CommitCreate, CommitUpdate, Commit, AfterRule
    <2>3. CASE m = e
      <3>1. EventOf(m)' = Cur(r)
        BY <2>1, <2>2, <2>3 DEF EventOf, Cur
      <3> QED BY <2>1, <2>2, <2>3, <3>1 DEF Counted, Pending, Title
    <2>4. CASE m # e
      BY <1>1, <2>1, <2>4 DEF Stored
    <2> QED BY <2>3, <2>4
  <1>3. CASE log' = log
    BY <1>1, <1>3 DEF Stored
  <1>4. ASSUME NEW r \in Runs, LogError(r) PROVE <<m.run, m.pos>> \in Counted(t)
    <2>1. m \in log
      BY <1>4 DEF LogError, Stored
    <2> QED BY <1>1, <2>1 DEF Stored
  <1>5. ASSUME NEW a \in DOMAIN alert, DeleteAlert(a) PROVE <<m.run, m.pos>> \in Counted(t)
    <2>1. PICK l \in log : m = IF l.alert = a THEN [l EXCEPT !.alert = NoAlert] ELSE l
      BY <1>5 DEF DeleteAlert, Stored
    <2>2. l.run = m.run /\ l.pos = m.pos /\ l.action = m.action
      BY <2>1 DEF RunInv, CountInv, TypeInv, TypeOK, LogEntry
    <2> QED BY <1>1, <2>1, <2>2 DEF Stored
  <1> QED BY <1>2, <1>3, <1>4, <1>5, LogSteps

\* A step that counts nothing: rules and copies stay, and no event passes a rule.
LEMMA RuleKept ==
    ASSUME RunInv, RuleInv, [Next]_vars, doubted \subseteq doubted',
           \A t \in Titles :
              \/ rule'[t] = rule[t]
              \/ t \in doubted' /\ rule'[t].there = FALSE /\ rule'[t].count = 0,
           DOMAIN edit' \subseteq DOMAIN edit, \A t \in DOMAIN edit' : edit'[t] = edit[t],
           \A s \in Runs : pc'[s] \in AfterRule =>
               pc[s] \in AfterRule /\ Cur(s)' = Cur(s) /\ pos'[s] = pos[s],
           \A s \in Runs : pc'[s] = "rule" =>
               pc[s] = "rule" /\ Cur(s)' = Cur(s) /\ received'[s] = received[s]
    PROVE  RuleInv'
  <1>0. /\ DOMAIN edit \subseteq Titles
        /\ \A s \in Runs : pc[s] = "rule" => Title(s) \in Titles
    BY CurrentEvent DEF RunInv, CountInv, TypeInv, TypeOK, Title, InEvent, Event
  <1>1. \A t : Pending(t)' \subseteq Pending(t)
    BY DEF Pending, Title
  <1>2. \A t : Counted(t)' \subseteq Counted(t)
    BY <1>1, StoredWasCounted DEF Counted
  <1>3. RuleCounts'
    <2> SUFFICES ASSUME NEW t \in Titles \ doubted'
                 PROVE  IsFiniteSet(Counted(t)') /\ Cardinality(Counted(t)') <= rule[t].count
      BY DEF RuleCounts
    <2>1. IsFiniteSet(Counted(t)) /\ Cardinality(Counted(t)) <= rule[t].count
      BY DEF RuleInv, RuleCounts
    <2>2. IsFiniteSet(Counted(t)') /\ Cardinality(Counted(t)') <= Cardinality(Counted(t))
      BY <1>2, <2>1, FS_Subset
    <2>3. /\ Cardinality(Counted(t)) \in Nat /\ Cardinality(Counted(t)') \in Nat
          /\ rule[t].count \in Nat
      BY <2>1, <2>2, FS_CardinalityType DEF RunInv, CountInv, TypeInv, TypeOK, Rule
    <2> QED BY <2>1, <2>2, <2>3
  <1>4. RuleAbsent'
    BY DEF RuleInv, RuleAbsent
  <1>5. RuleFresh'
    BY <1>0 DEF RuleInv, RuleFresh, Title
  <1> QED BY <1>3, <1>4, <1>5 DEF RuleInv

LEMMA RuleNext ==
    ASSUME RunInv, RuleInv, [Next]_vars
    PROVE  RuleInv'
  <1>1. /\ rule \in [Titles -> Rule] /\ received \in [Runs -> Rule]
        /\ pc \in [Runs -> Labels] /\ pos \in [Runs -> Nat] /\ batch \in [Runs -> Seq(Event)]
        /\ DOMAIN edit \subseteq Titles /\ edit \in [DOMAIN edit -> Rule]
    BY DEF RunInv, CountInv, TypeInv, TypeOK
  <1>2. ASSUME NEW r \in Runs, SaveRule(r) PROVE RuleInv'
    <2>1. Cur(r) \in Event /\ pc[r] = "rule"
      BY <1>2, CurrentEvent DEF SaveRule, RunInv, CountInv, InEvent
    <2>2. PICK t \in Titles : t = Title(r)
      BY <2>1 DEF Event, Title
    <2>3. /\ rule' = [rule EXCEPT ![t].count = received[r].count + 1]
          /\ doubted' = IF RuleHeld(r, t) THEN doubted \cup {t} ELSE doubted
          /\ rule[t].there /\ UNCHANGED <<pos, batch, received, edit, log>>
          /\ pc' = [pc EXCEPT ![r] = "lookup"]
      BY <1>2, <2>2 DEF SaveRule, SameRule, Goto, reads, editing
    <2>4. /\ \A s \in Runs : Cur(s)' = Cur(s)
          /\ \A s \in Runs \ {r} : pc'[s] = pc[s]
          /\ \A x \in Titles \ {t} : rule'[x] = rule[x]
          /\ rule'[t].there /\ rule'[t].count = received[r].count + 1
          /\ pc'[r] = "lookup" /\ doubted \subseteq doubted'
      BY <1>1, <2>3 DEF Cur, Rule
    <2>5. \A x \in Titles : Counted(x)' \subseteq IF x = t THEN Counted(x) \cup {<<r, pos[r]>>}
                                                  ELSE Counted(x)
      <3>1. \A x : Pending(x)' \subseteq IF x = t THEN Pending(x) \cup {<<r, pos[r]>>}
                                         ELSE Pending(x)
        BY <2>2, <2>3, <2>4 DEF Pending, Title
      <3> QED BY <3>1, StoredWasCounted DEF Counted
    <2>6. RuleCounts'
      <3> SUFFICES ASSUME NEW x \in Titles \ doubted'
                   PROVE  IsFiniteSet(Counted(x)') /\ Cardinality(Counted(x)') <= rule'[x].count
        BY DEF RuleCounts
      <3>1. /\ IsFiniteSet(Counted(x)) /\ Cardinality(Counted(x)) <= rule[x].count
            /\ Cardinality(Counted(x)) \in Nat /\ rule[x].count \in Nat
        BY <1>1, <2>4, FS_CardinalityType DEF RuleInv, RuleCounts, Rule
      <3>2. CASE x # t
        <4>1. IsFiniteSet(Counted(x)') /\ Cardinality(Counted(x)') <= Cardinality(Counted(x))
          BY <2>5, <3>1, <3>2, FS_Subset
        <4>2. Cardinality(Counted(x)') \in Nat
          BY <4>1, FS_CardinalityType
        <4> QED BY <2>4, <3>1, <3>2, <4>1, <4>2
      <3>3. CASE x = t
        <4>1. received[r] = rule[x]
          BY <2>1, <2>2, <2>4, <3>3 DEF RuleInv, RuleFresh
        <4> DEFINE S == Counted(x) \cup {<<r, pos[r]>>}
        <4>2. /\ IsFiniteSet(S) /\ Cardinality(S) <= Cardinality(Counted(x)) + 1
              /\ Counted(x)' \subseteq S
          BY <2>5, <3>1, <3>3, OneMore
        <4>3. IsFiniteSet(Counted(x)') /\ Cardinality(Counted(x)') <= Cardinality(S)
          BY <4>2, FS_Subset
        <4>4. Cardinality(Counted(x)') \in Nat /\ Cardinality(S) \in Nat
          BY <4>2, <4>3, FS_CardinalityType
        <4> HIDE DEF S
        <4> QED BY <2>4, <3>1, <3>3, <4>1, <4>2, <4>3, <4>4
      <3> QED BY <3>2, <3>3
    <2>7. RuleAbsent'
      BY <2>3, <2>4 DEF RuleInv, RuleAbsent
    <2>8. RuleFresh'
      <3>1. \A s \in Runs : pc'[s] = "rule" /\ Title(s)' \notin doubted' =>
               pc[s] = "rule" /\ Title(s)' = Title(s) /\ Title(s) # t /\ Title(s) \in Titles
        <4>1. \A s \in Runs : pc[s] = "rule" => Title(s) \in Titles
          BY CurrentEvent DEF RunInv, CountInv, Title, InEvent, Event
        <4> QED BY <2>3, <2>4, <4>1 DEF Title, RuleHeld
      <3>2. \A x \in DOMAIN edit \ doubted' : x # t
        BY <2>3 DEF RuleHeld
      <3> QED BY <1>1, <2>3, <2>4, <3>1, <3>2 DEF RuleInv, RuleFresh
    <2> QED BY <2>6, <2>7, <2>8 DEF RuleInv
  <1>3. ASSUME NEW r \in Runs, ReadRule(r) PROVE RuleInv'
    <2>1. batch[r][pos[r] + 1] \in Event
      BY <1>1, <1>3 DEF ReadRule
    <2>2. PICK t \in Titles : t = NextTitle(r)
      BY <2>1 DEF NextTitle, Event
    <2>3. PICK f \in Rule : f = Found(t)
      <3>1. rule[t] \in Rule
        BY <1>1
      <3>2. Found(t) \in Rule
        BY <3>1 DEF Found, Rule
      <3> QED BY <3>2
    <2>4. /\ rule' = [rule EXCEPT ![t] = f] /\ received' = [received EXCEPT ![r] = f]
          /\ pos' = [pos EXCEPT ![r] = @ + 1] /\ pc' = [pc EXCEPT ![r] = "rule"]
          /\ UNCHANGED <<batch, edit, doubted>>
      BY <1>3, <2>2, <2>3 DEF ReadRule, Goto, editing, history
    <2>5. f.there /\ f.count = rule[t].count /\ (rule[t].there => f = rule[t])
      BY <1>1, <2>3 DEF Found, RuleInv, RuleAbsent
    <2>6. /\ \A s \in Runs \ {r} : pc'[s] = pc[s] /\ Cur(s)' = Cur(s) /\ pos'[s] = pos[s]
                                   /\ received'[s] = received[s]
          /\ pc'[r] = "rule" /\ received'[r] = f /\ Title(r)' = t
          /\ rule'[t] = f /\ \A x \in Titles \ {t} : rule'[x] = rule[x]
      BY <1>1, <2>2, <2>4 DEF Cur, Title, NextTitle
    <2>7. \A x : Counted(x)' \subseteq Counted(x)
      <3>1. \A x : Pending(x)' \subseteq Pending(x)
        BY <2>6 DEF Pending, AfterRule, Title
      <3> QED BY <3>1, StoredWasCounted DEF Counted
    <2>8. RuleCounts'
      <3> SUFFICES ASSUME NEW x \in Titles \ doubted
                   PROVE  IsFiniteSet(Counted(x)') /\ Cardinality(Counted(x)') <= rule'[x].count
        BY <2>4 DEF RuleCounts
      <3>1. /\ IsFiniteSet(Counted(x)) /\ Cardinality(Counted(x)) <= rule[x].count
            /\ Cardinality(Counted(x)) \in Nat /\ rule[x].count \in Nat
        BY <1>1, FS_CardinalityType DEF RuleInv, RuleCounts, Rule
      <3>2. rule'[x].count = rule[x].count
        BY <2>5, <2>6
      <3>3. IsFiniteSet(Counted(x)') /\ Cardinality(Counted(x)') <= Cardinality(Counted(x))
        BY <2>7, <3>1, FS_Subset
      <3>4. Cardinality(Counted(x)') \in Nat
        BY <3>3, FS_CardinalityType
      <3> QED BY <3>1, <3>2, <3>3, <3>4
    <2>9. RuleAbsent'
      BY <2>4, <2>5, <2>6 DEF RuleInv, RuleAbsent
    <2>10. RuleFresh'
      <3>1. \A s \in Runs : pc[s] = "rule" => Title(s) \in Titles
        BY CurrentEvent DEF RunInv, CountInv, Title, InEvent, Event
      <3>2. \A s \in Runs \ {r} : Title(s)' = Title(s)
        BY <2>6 DEF Title
      <3>3. ASSUME NEW x \in Titles, rule[x].there PROVE rule'[x] = rule[x]
        BY <2>5, <2>6, <3>3
      <3>4. \A s \in Runs \ {r} : pc'[s] = "rule" /\ Title(s)' \notin doubted' =>
                received'[s] = rule'[Title(s)']
        <4> SUFFICES ASSUME NEW s \in Runs \ {r}, pc[s] = "rule", Title(s) \notin doubted
                     PROVE  received[s] = rule'[Title(s)]
          BY <2>4, <2>6, <3>2
        <4>1. received[s] = rule[Title(s)] /\ rule[Title(s)].there
          BY DEF RuleInv, RuleFresh, RuleAbsent
        <4> QED BY <3>1, <3>3, <4>1
      <3>5. \A x \in DOMAIN edit' \ doubted' : edit'[x] = rule'[x]
        <4> SUFFICES ASSUME NEW x \in DOMAIN edit \ doubted PROVE edit[x] = rule'[x]
          BY <2>4
        <4>1. edit[x] = rule[x] /\ rule[x].there
          BY DEF RuleInv, RuleFresh, RuleAbsent
        <4> QED BY <1>1, <3>3, <4>1
      <3>6. received'[r] = rule'[Title(r)']
        BY <2>6
      <3> QED BY <3>4, <3>5, <3>6 DEF RuleFresh
    <2> QED BY <2>8, <2>9, <2>10 DEF RuleInv
  <1>4. ASSUME EditRules PROVE RuleInv'
    <2>1. UNCHANGED <<pc, pos, batch, received>>
      BY <1>4, EditKeeps DEF progress, reads
    <2>2. \A s \in Runs : Cur(s)' = Cur(s)
      BY <2>1 DEF Cur
    <2>3. CASE StopEdit
      <3>1. rule' = rule /\ doubted' = doubted /\ DOMAIN edit' = {}
        BY <2>3 DEF StopEdit, history
      <3> QED BY <2>1, <2>2, <3>1, RuleKept
    <2>4. CASE DropRules
      <3>1. doubted' = doubted \cup DOMAIN edit /\ edit' = << >>
        BY <2>4 DEF DropRules
      <3>2. ASSUME NEW t \in Titles
            PROVE  \/ rule'[t] = rule[t]
                   \/ t \in doubted' /\ rule'[t].there = FALSE /\ rule'[t].count = 0
        <4>1. PICK u \in Rule : u = rule[t]
          BY <1>1
        <4>2. rule'[t] = IF t \in DOMAIN edit THEN [u EXCEPT !.there = FALSE, !.count = 0] ELSE u
          BY <2>4, <4>1 DEF DropRules
        <4>3. \/ rule'[t] = u
              \/ t \in DOMAIN edit /\ rule'[t].there = FALSE /\ rule'[t].count = 0
          BY <4>2 DEF Rule
        <4> QED BY <3>1, <4>1, <4>3
      <3>3. DOMAIN edit' = {}
        BY <3>1
      <3> QED BY <2>1, <2>2, <3>1, <3>2, <3>3, RuleKept
    <2>5. CASE ReadRules
      <3>1. /\ rule' = rule /\ doubted' = doubted /\ \A x : Counted(x)' \subseteq Counted(x)
        <4>1. \A x : Pending(x)' \subseteq Pending(x)
          BY <2>1, <2>2 DEF Pending, Title
        <4> QED BY <2>5, <4>1, StoredWasCounted DEF ReadRules, history, Counted
      <3>2. /\ DOMAIN edit' = {u \in Titles : rule[u].there}
            /\ \A t \in DOMAIN edit' : edit'[t] = rule[t]
        BY <2>5 DEF ReadRules
      <3>3. RuleCounts'
        <4> SUFFICES ASSUME NEW x \in Titles \ doubted
                     PROVE  IsFiniteSet(Counted(x)') /\ Cardinality(Counted(x)') <= rule[x].count
          BY <3>1 DEF RuleCounts
        <4>1. /\ IsFiniteSet(Counted(x)) /\ Cardinality(Counted(x)) <= rule[x].count
              /\ Cardinality(Counted(x)) \in Nat /\ rule[x].count \in Nat
          BY <1>1, FS_CardinalityType DEF RuleInv, RuleCounts, Rule
        <4>2. IsFiniteSet(Counted(x)') /\ Cardinality(Counted(x)') <= Cardinality(Counted(x))
          BY <3>1, <4>1, FS_Subset
        <4>3. Cardinality(Counted(x)') \in Nat
          BY <4>2, FS_CardinalityType
        <4> QED BY <4>1, <4>2, <4>3
      <3>4. RuleAbsent' /\ RuleFresh'
        BY <2>1, <2>2, <3>1, <3>2 DEF RuleInv, RuleAbsent, RuleFresh, Title
      <3> QED BY <3>3, <3>4 DEF RuleInv
    <2>6. ASSUME NEW t \in Titles, RewriteRule(t) PROVE RuleInv'
      <3>1. /\ t \in DOMAIN edit /\ rule' = [rule EXCEPT ![t] = edit[t]]
            /\ edit' = [u \in DOMAIN edit \ {t} |-> edit[u]] /\ doubted' = doubted
        BY <2>6 DEF RewriteRule, history
      <3>2. CASE t \notin doubted
        <4>1. rule' = rule
          BY <1>1, <3>1, <3>2 DEF RuleInv, RuleFresh
        <4> QED BY <2>1, <2>2, <3>1, <4>1, RuleKept
      <3>3. CASE t \in doubted
        <4>1. /\ rule'[t] = edit[t] /\ rule'[t].there
              /\ \A x \in Titles \ {t} : rule'[x] = rule[x]
          BY <1>1, <3>1 DEF RuleInv, RuleAbsent
        <4>2. \A x : Counted(x)' \subseteq Counted(x)
          <5>1. \A x : Pending(x)' \subseteq Pending(x)
            BY <2>1, <2>2 DEF Pending, Title
          <5> QED BY <5>1, StoredWasCounted DEF Counted
        <4>3. RuleCounts'
          <5> SUFFICES ASSUME NEW x \in Titles \ doubted
                       PROVE  IsFiniteSet(Counted(x)') /\ Cardinality(Counted(x)') <= rule[x].count
            BY <3>1, <3>3, <4>1 DEF RuleCounts
          <5>1. /\ IsFiniteSet(Counted(x)) /\ Cardinality(Counted(x)) <= rule[x].count
                /\ Cardinality(Counted(x)) \in Nat /\ rule[x].count \in Nat
            BY <1>1, FS_CardinalityType DEF RuleInv, RuleCounts, Rule
          <5>2. IsFiniteSet(Counted(x)') /\ Cardinality(Counted(x)') <= Cardinality(Counted(x))
            BY <4>2, <5>1, FS_Subset
          <5>3. Cardinality(Counted(x)') \in Nat
            BY <5>2, FS_CardinalityType
          <5> QED BY <5>1, <5>2, <5>3
        <4>4. RuleAbsent'
          BY <2>1, <3>1, <4>1 DEF RuleInv, RuleAbsent
        <4>5. RuleFresh'
          <5>1. \A s \in Runs : pc[s] = "rule" => Title(s) \in Titles
            BY CurrentEvent DEF RunInv, CountInv, Title, InEvent, Event
          <5> QED BY <1>1, <2>1, <2>2, <3>1, <3>3, <4>1, <5>1 DEF RuleInv, RuleFresh, Title
        <4> QED BY <4>3, <4>4, <4>5 DEF RuleInv
      <3> QED BY <3>2, <3>3
    <2> QED BY <1>4, <2>3, <2>4, <2>5, <2>6 DEF EditRules
  <1>5. ASSUME NEW r \in Runs,
               \/ Start(r) \/ CreatePolicy(r) \/ Fetch(r) \/ FetchFails(r) \/ BadEvent(r)
               \/ RuleGone(r) \/ LookupMany(r) \/ TargetGone(r) \/ RolledBack(r)
               \/ LogError(r) \/ LogErrorFails(r) \/ SaveRun(r) \/ SaveHealthy(r)
               \/ LateFailure(r) \/ SaveFailedRun(r) \/ SaveUnhealthy(r) \/ Crash(r)
               \/ CommitCreate(r) \/ CommitUpdate(r)
        PROVE  RuleInv'
    <2>1. /\ UNCHANGED <<rule, edit, doubted>> /\ pc'[r] \notin AfterRule \cup {"rule"}
          /\ \A s \in Runs \ {r} : /\ pc'[s] = pc[s] /\ pos'[s] = pos[s]
                                   /\ batch'[s] = batch[s] /\ received'[s] = received[s]
      BY <1>1, <1>5 DEF Start, CreatePolicy, Fetch, FetchFails, BadEvent, RuleGone,
         LookupMany, TargetGone, RolledBack, LogError, LogErrorFails, SaveRun, SaveHealthy,
         LateFailure, SaveFailedRun, SaveUnhealthy, Crash, CommitCreate, CommitUpdate, Commit,
         Goto, store, reads, editing, history, AfterRule, EndEvent
    <2>2. \A s \in Runs \ {r} : Cur(s)' = Cur(s)
      BY <2>1 DEF Cur
    <2> QED BY <2>1, <2>2, RuleKept
  <1>6. ASSUME NEW r \in Runs, LookupNone(r) \/ LookupOne(r) \/ ReadOccurrence(r) PROVE RuleInv'
    <2>1. /\ UNCHANGED <<rule, edit, doubted, batch, pos, received>>
          /\ pc[r] \in AfterRule /\ \A s \in Runs \ {r} : pc'[s] = pc[s]
          /\ pc'[r] # "rule"
      BY <1>1, <1>6 DEF LookupNone, LookupOne, ReadOccurrence, Goto, store, reads, editing,
         history, AfterRule
    <2>2. \A s \in Runs : Cur(s)' = Cur(s)
      BY <2>1 DEF Cur
    <2> QED BY <2>1, <2>2, RuleKept
  <1>7. ASSUME NEW a \in DOMAIN alert, DeleteAlert(a) PROVE RuleInv'
    <2>1. UNCHANGED <<rule, edit, doubted, pc, batch, pos, received>>
      BY <1>7 DEF DeleteAlert, progress, reads, editing, history
    <2>2. \A s \in Runs : Cur(s)' = Cur(s)
      BY <2>1 DEF Cur
    <2> QED BY <2>1, <2>2, RuleKept
  <1>8. CASE UNCHANGED vars
    <2>1. UNCHANGED <<rule, edit, doubted, pc, batch, pos, received>>
      BY <1>8 DEF vars, progress, reads, store, editing, history
    <2>2. \A s \in Runs : Cur(s)' = Cur(s)
      BY <2>1 DEF Cur
    <2> QED BY <2>1, <2>2, RuleKept
  <1> QED BY <1>2, <1>3, <1>4, <1>5, <1>6, <1>7, <1>8 DEF Next, Step, Work

\* A rule has counted what is stored under its title, whatever overlaps, until
\* the rule is deleted or a save of it met a copy that somebody held.
LEMMA RulesCountTheLog == Spec => []RuleCountCoversLog
  <1> DEFINE Inv == RunInv /\ RuleInv
  <1>1. Init => Inv
    <2> SUFFICES ASSUME Init PROVE RuleInv
      BY RunInit
    <2>1. \A t : Counted(t) = {}
      BY DEF Init, Counted, StoredUnder, Pending, Stored, AfterRule
    <2>2. \A t \in Titles : rule[t].count = 0 /\ ~rule[t].there
      BY DEF Init, NoRule
    <2>3. RuleCounts
      BY <2>1, <2>2, FS_EmptySet DEF RuleCounts
    <2>4. RuleAbsent /\ RuleFresh
      BY <2>2 DEF Init, RuleAbsent, RuleFresh
    <2> QED BY <2>3, <2>4 DEF RuleInv
  <1>2. Inv /\ [Next]_vars => Inv'
    BY RunNext, RuleNext
  <1>3. Inv => RuleCountCoversLog
    <2> SUFFICES ASSUME Inv, NEW t \in Titles \ doubted
                 PROVE  Cardinality(StoredUnder(t)) <= rule[t].count
      BY DEF RuleCountCoversLog
    <2>1. IsFiniteSet(Counted(t)) /\ Cardinality(Counted(t)) <= rule[t].count
      BY DEF RuleInv, RuleCounts
    <2>2. IsFiniteSet(StoredUnder(t)) /\ Cardinality(StoredUnder(t)) <= Cardinality(Counted(t))
      BY <2>1, FS_Subset DEF Counted
    <2>3. /\ Cardinality(Counted(t)) \in Nat /\ Cardinality(StoredUnder(t)) \in Nat
          /\ rule[t].count \in Nat
      BY <2>1, <2>2, FS_CardinalityType DEF RunInv, CountInv, TypeInv, TypeOK, Rule
    <2> QED BY <2>1, <2>2, <2>3
  <1> QED BY <1>1, <1>2, <1>3, PTL DEF Spec

\* Lines that stay keep what the alert's occurrence summarises.
LEMMA SummaryKept ==
    ASSUME RunInv, [Next]_vars, NEW a, Entries(a)' = Entries(a)
    PROVE  Times(a)' = Times(a) /\ \A o : Summarises(o, a) => Summarises(o, a)'
  <1>1. \A l \in Entries(a) : EventOf(l)' = EventOf(l)
    BY EventsKept DEF Entries
  <1>2. Times(a)' = Times(a)
    BY <1>1 DEF Times
  <1> QED BY <1>2 DEF Summarises

\* A commit about alert a: its occurrence takes the event at hand in.
LEMMA OccurrenceCommit ==
    ASSUME RunInv, OccurrenceInv, [Next]_vars, NEW r \in Runs, pc[r] \in InEvent,
           NEW a \in AlertId, NEW v, NEW action, Commit(r, a, v, action),
           torn \subseteq torn',
           \A s \in Runs \ {r} : pc[s] = "update" /\ target[s] = a => a \in torn',
           NEW t, t = Cur(r).time,
           a \notin torn' =>
              /\ v.occ.count = Cardinality(Entries(a)) + 1
              /\ {v.occ.first, v.occ.last} \subseteq Times(a) \cup {t}
              /\ \A u \in Times(a) \cup {t} : v.occ.first <= u /\ u <= v.occ.last
    PROVE  OccurrenceInv'
  <1>0. PICK e : e = [run |-> r, pos |-> pos[r], action |-> action, alert |-> a]
    OBVIOUS
  <1>1. e \notin log /\ log' = log \cup {e} /\ e.alert = a /\ e.run = r /\ e.pos = pos[r]
    BY <1>0 DEF Commit, RunInv, CountInv, LogBehind, Over, TypeInv, TypeOK
  <1>2. /\ Cardinality(Entries(a)') = Cardinality(Entries(a)) + 1
        /\ \A x : x # a => Entries(x)' = Entries(x)
    BY <1>1, NewEntry DEF RunInv, CountInv
  <1>3. /\ DOMAIN alert' = DOMAIN alert \cup {a} /\ alert'[a] = v
        /\ \A x \in DOMAIN alert : x # a => alert'[x] = alert[x]
        /\ pc' = [pc EXCEPT ![r] = "event"] /\ UNCHANGED <<batch, pos>>
    BY DEF Commit, Put, Goto
  <1>4. EventOf(e)' = Cur(r)
    BY <1>1, <1>3 DEF EventOf, Cur
  <1>5. Times(a)' = Times(a) \cup {t}
    <2>1. Entries(a)' = Entries(a) \cup {e} /\ Entries(a) \subseteq log
      BY <1>1 DEF Entries
    <2>2. \A l \in Entries(a) : EventOf(l)' = EventOf(l)
      BY <2>1, EventsKept
    <2> QED BY <1>4, <2>1, <2>2 DEF Times
  <1>6. ASSUME a \notin torn' PROVE Summarises(v.occ, a)'
    <2> DEFINE o == v.occ
    <2>1. Summarises(o, a)' <=>
            /\ o.count = Cardinality(Entries(a)')
            /\ {o.first, o.last} \subseteq Times(a)'
            /\ \A u \in Times(a)' : o.first <= u /\ u <= o.last
      BY DEF Summarises
    <2> QED BY <1>2, <1>5, <1>6, <2>1
  <1>7. ASSUME NEW x \in DOMAIN alert' \ torn', x # a PROVE Summarises(alert[x].occ, x)'
    <2>1. x \in DOMAIN alert /\ alert'[x] = alert[x] /\ Entries(x)' = Entries(x)
      BY <1>2, <1>3, <1>7
    <2>2. PICK o : o = alert[x].occ
      OBVIOUS
    <2>3. Summarises(o, x)
      BY <2>1, <2>2 DEF OccurrenceInv
    <2>4. Summarises(o, x)'
      BY <2>1, <2>3, SummaryKept
    <2> QED BY <2>1, <2>2, <2>4 DEF Summarises
  <1>8. \A x \in DOMAIN alert' \ torn' : Summarises(alert[x].occ, x)'
    <2> SUFFICES ASSUME NEW x \in DOMAIN alert' \ torn' PROVE Summarises(alert[x].occ, x)'
      OBVIOUS
    <2>1. CASE x = a
      BY <1>3, <1>6, <2>1 DEF Summarises
    <2>2. CASE x # a
      BY <1>7, <2>2
    <2> QED BY <2>1, <2>2
  <1>9. LinesNameAlerts'
    <2>1. pos[r] > 0
      BY DEF RunInv, CountInv, TypeInv, CurrentEventExists
    <2> QED BY <1>1, <1>3, <2>1 DEF LinesNameAlerts, OccurrenceInv
  <1>10. SeenFresh'
    <2>1. \A s \in Runs : pc'[s] = "update" =>
             s # r /\ pc[s] = "update" /\ target'[s] = target[s] /\ seen'[s] = seen[s]
      BY <1>3, EndEventType DEF Commit, RunInv, CountInv, TypeInv, TypeOK
    <2> QED BY <1>3, <2>1 DEF SeenFresh, OccurrenceInv
  <1> QED BY <1>8, <1>9, <1>10 DEF OccurrenceInv

LEMMA OccurrenceNext ==
    ASSUME RunInv, OccurrenceInv, [Next]_vars
    PROVE  OccurrenceInv'
  <1>0. TypeOK
    BY DEF RunInv, CountInv, TypeInv
  <1>1. ASSUME UNCHANGED <<alert, torn>>,
               \A x \in DOMAIN alert : Entries(x)' = Entries(x),
               LinesNameAlerts', SeenFresh'
        PROVE  OccurrenceInv'
    <2>1. ASSUME NEW x \in DOMAIN alert \ torn PROVE Summarises(alert[x].occ, x)'
      <3>1. PICK o : o = alert[x].occ
        OBVIOUS
      <3>2. Summarises(o, x)'
        BY <1>0, <1>1, <3>1, SummaryKept DEF OccurrenceInv
      <3> QED BY <1>1, <3>1, <3>2 DEF Summarises
    <2> QED BY <1>1, <2>1 DEF OccurrenceInv
  <1>2. ASSUME NEW r \in Runs, CommitCreate(r) PROVE OccurrenceInv'
    <2> DEFINE c == Cur(r)
               v == [key |-> c.key, time |-> c.time,
                     unparsed |-> c.kind = "unparsed",
                     occ |-> [count |-> 1, first |-> c.time, last |-> c.time]]
    <2>1. /\ pc[r] \in InEvent /\ Me(r) \in AlertId /\ Cur(r).time \in Nat
          /\ Commit(r, Me(r), v, "created")
      BY <1>0, <1>2, CurrentEvent DEF CommitCreate, InEvent, TypeOK, Me, AlertId, RunInv,
         CountInv, Event
    <2>2. Me(r) \notin DOMAIN alert /\ Me(r) # NoAlert
      <3>1. Me(r) \notin DOMAIN alert
        BY <1>0, <2>1 DEF RunInv, CountInv, IdsBehind, Over, Me, TypeOK
      <3> QED BY <2>1, <3>1, NoAlertAssumption DEF AlertId
    <2>3. Entries(Me(r)) = {}
      BY <2>2 DEF Entries, OccurrenceInv, LinesNameAlerts
    <2>4. Times(Me(r)) = {} /\ Cardinality(Entries(Me(r))) = 0
      BY <2>3, FS_EmptySet DEF Times
    <2>5. v.occ.count = 1 /\ v.occ.first = c.time /\ v.occ.last = c.time
      OBVIOUS
    <2> HIDE DEF v
    <2>6. PICK t \in Nat : t = Cur(r).time
      BY <2>1
    <2>7. \A u \in {} \cup {t} : v.occ.first <= u /\ u <= v.occ.last
      BY <2>5, <2>6
    <2>8. torn' = torn /\ \A s \in Runs \ {r} : pc[s] = "update" => target[s] # Me(r)
      <3>1. Me(r) \notin DOMAIN alert \cup deleted
        BY <1>0, <2>1 DEF RunInv, CountInv, IdsBehind, Over, Me, TypeOK
      <3> QED BY <1>2, <3>1 DEF CommitCreate, history, RunInv, CountInv, TargetKnown
    <2> QED BY <2>1, <2>4, <2>5, <2>6, <2>7, <2>8, OccurrenceCommit
  <1>3. ASSUME NEW r \in Runs, CommitUpdate(r) PROVE OccurrenceInv'
    <2> DEFINE c == Cur(r)
               a == target[r]
               v == [key |-> alert[a].key, time |-> c.time,
                     unparsed |-> c.kind = "unparsed",
                     occ |-> Increment(seen[r], c.time)]
    <2>1. /\ pc[r] \in InEvent /\ a \in AlertId /\ Cur(r).time \in Nat
          /\ Commit(r, a, v, "updated") /\ a \in DOMAIN alert
      BY <1>0, <1>3, CurrentEvent DEF CommitUpdate, InEvent, TypeOK, RunInv, CountInv, Event
    <2>2. PICK o : o = seen[r]
      OBVIOUS
    <2>8. /\ torn \subseteq torn'
          /\ \A s \in Runs \ {r} : pc[s] = "update" /\ target[s] = a => a \in torn'
      BY <1>3 DEF CommitUpdate
    <2>3. ASSUME a \notin torn' PROVE o \in Occurrence /\ Summarises(o, a)
      <3>1. o = alert[a].occ
        BY <1>3, <2>1, <2>2, <2>3, <2>8 DEF OccurrenceInv, SeenFresh, CommitUpdate
      <3>2. alert[a] \in Alert
        BY <1>0, <2>1 DEF TypeOK
      <3>3. alert[a].occ \in Occurrence
        BY <3>2 DEF Alert
      <3> QED BY <2>1, <2>3, <2>8, <3>1, <3>3 DEF OccurrenceInv
    <2>4. PICK t \in Nat : t = Cur(r).time
      BY <2>1
    <2>5. v.occ = Increment(o, t)
      BY <2>2, <2>4
    <2> HIDE DEF v
    <2>6. \A u \in Times(a) : u \in Nat
      <3> SUFFICES ASSUME NEW l \in Entries(a) PROVE EventOf(l).time \in Nat
        BY DEF Times
      <3>1. l.run \in Runs /\ l.pos \in Nat /\ l \in log
        BY <1>0 DEF Entries, TypeOK, LogEntry
      <3>2. l.pos \in Positions(l.run)
        BY <3>1 DEF Positions, LinesOf
      <3>3. l.pos \in 1 .. Len(batch[l.run])
        <4>1. PICK s \in Runs : s = l.run
          BY <3>1
        <4>2. l.pos <= pos[s]
          BY <3>1, <4>1 DEF RunInv, CountInv, LogBehind, Over
        <4>3. pos[s] <= Len(batch[s]) /\ pos[s] \in Nat
          BY <1>0 DEF TypeOK
        <4>4. l.pos >= 1
          BY <3>1 DEF OccurrenceInv, LinesNameAlerts
        <4> QED BY <3>1, <4>1, <4>2, <4>3, <4>4
      <3>4. EventOf(l) \in Event
        BY <1>0, <3>1, <3>3 DEF EventOf, TypeOK
      <3> QED BY <3>4 DEF Event
    <2>7. ASSUME a \notin torn'
          PROVE
          /\ Increment(o, t).count = Cardinality(Entries(a)) + 1
          /\ {Increment(o, t).first, Increment(o, t).last} \subseteq Times(a) \cup {t}
          /\ \A u \in Times(a) \cup {t} : Increment(o, t).first <= u /\ u <= Increment(o, t).last
      <3>1. o.first \in Nat /\ o.last \in Nat /\ o.count \in Nat
        BY <2>3, <2>7 DEF Occurrence
      <3> QED BY <2>3, <2>6, <2>7, <3>1 DEF Increment, Lower, Higher, Summarises
    <2> QED BY <2>1, <2>4, <2>5, <2>7, <2>8, OccurrenceCommit
  <1>4. ASSUME NEW r \in Runs, LogError(r) PROVE OccurrenceInv'
    <2> DEFINE e == [run |-> r, pos |-> pos[r], action |-> "error", alert |-> NoAlert]
    <2>1. /\ log' = log \cup {e} /\ e.alert = NoAlert /\ alert' = alert
          /\ UNCHANGED <<target, seen, torn>> /\ pc' = [pc EXCEPT ![r] = "event"]
      BY <1>4 DEF LogError, reads, Goto, history
    <2> HIDE DEF e
    <2>2. \A x \in DOMAIN alert : x # NoAlert
      BY <1>0, NoAlertAssumption DEF TypeOK, AlertId
    <2>3. \A x \in DOMAIN alert : Entries(x)' = Entries(x)
      BY <2>1, <2>2 DEF Entries
    <2>4. LinesNameAlerts'
      <3>1. pos[r] > 0 /\ e.pos = pos[r]
        BY <1>4 DEF RunInv, CountInv, TypeInv, CurrentEventExists, LogError, InEvent, e
      <3> QED BY <2>1, <3>1 DEF LinesNameAlerts, OccurrenceInv
    <2>5. SeenFresh'
      <3>1. \A s \in Runs : pc'[s] = "update" => pc[s] = "update"
        BY <1>0, <2>1 DEF TypeOK
      <3> QED BY <2>1, <3>1 DEF SeenFresh, OccurrenceInv
    <2> QED BY <1>1, <2>1, <2>3, <2>4, <2>5
  <1>5. ASSUME NEW a \in DOMAIN alert, DeleteAlert(a) PROVE OccurrenceInv'
    <2> DEFINE Cut(l) == IF l.alert = a THEN [l EXCEPT !.alert = NoAlert] ELSE l
    <2>1. /\ log' = {Cut(l) : l \in log}
          /\ DOMAIN alert' = DOMAIN alert \ {a}
          /\ \A x \in DOMAIN alert' : alert'[x] = alert[x]
          /\ UNCHANGED <<pc, target, seen, torn>>
      BY <1>5 DEF DeleteAlert, progress, reads, history
    <2>3. \A l \in log : /\ Cut(l).pos = l.pos
                         /\ Cut(l).alert = IF l.alert = a THEN NoAlert ELSE l.alert
                         /\ l.alert # a => Cut(l) = l
      BY <1>0 DEF TypeOK, LogEntry
    <2> HIDE DEF Cut
    <2>4. \A x : x # a /\ x # NoAlert => Entries(x)' = Entries(x)
      BY <2>1, <2>3 DEF Entries
    <2>5. \A x \in DOMAIN alert : x # NoAlert
      BY <1>0, NoAlertAssumption DEF TypeOK, AlertId
    <2>6. LinesNameAlerts'
      BY <2>1, <2>3 DEF LinesNameAlerts, OccurrenceInv
    <2>7. SeenFresh'
      BY <2>1 DEF SeenFresh, OccurrenceInv
    <2>8. ASSUME NEW x \in DOMAIN alert' \ torn PROVE Summarises(alert[x].occ, x)'
      <3>1. x \in DOMAIN alert /\ alert'[x] = alert[x] /\ Entries(x)' = Entries(x)
        BY <2>1, <2>4, <2>5
      <3>2. PICK o : o = alert[x].occ
        OBVIOUS
      <3>3. Summarises(o, x)'
        BY <1>0, <3>1, <3>2, SummaryKept DEF OccurrenceInv
      <3> QED BY <3>1, <3>2, <3>3 DEF Summarises
    <2> QED BY <2>1, <2>6, <2>7, <2>8 DEF OccurrenceInv
  <1>6. CASE log' = log /\ alert' = alert
    <2>5. torn' = torn
      <3>1. ASSUME NEW r \in Runs, CommitCreate(r) \/ CommitUpdate(r) PROVE log' # log
        <4>1. PICK e : e.run = r /\ e.pos = pos[r] /\ e \in log'
          <5>1. PICK a, action : log' = log \cup {[run |-> r, pos |-> pos[r], action |-> action,
                                                   alert |-> a]}
            BY <3>1 DEF CommitCreate, CommitUpdate, Commit
          <5> QED BY <5>1
        <4>2. pc[r] \in InEvent
          BY <3>1 DEF CommitCreate, CommitUpdate, InEvent
        <4> QED BY <1>0, <4>1, <4>2 DEF RunInv, CountInv, LogBehind, Over, TypeOK
      <3> QED BY <1>6, <3>1, EditKeeps DEF Next, Step, Work, vars, store, history, Start,
         CreatePolicy, Fetch, FetchFails, BadEvent, ReadRule, SaveRule, RuleGone, LookupNone,
         LookupOne, LookupMany, ReadOccurrence, TargetGone, RolledBack, LogError,
         LogErrorFails, SaveRun, SaveHealthy, LateFailure, SaveFailedRun, SaveUnhealthy, Crash,
         DeleteAlert
    <2>1. \A x : Entries(x)' = Entries(x)
      BY <1>6 DEF Entries
    <2>2. LinesNameAlerts'
      BY <1>6 DEF LinesNameAlerts, OccurrenceInv
    <2>3. ASSUME NEW s \in Runs, pc'[s] = "update"
          PROVE  \/ pc[s] = "update" /\ target'[s] = target[s] /\ seen'[s] = seen[s]
                 \/ seen'[s] = alert[target'[s]].occ
      <3> USE <1>0, <2>3 DEF TypeOK, Goto
      <3>1. ASSUME NEW r \in Runs,
                   \/ Start(r) \/ CreatePolicy(r) \/ Fetch(r) \/ FetchFails(r) \/ BadEvent(r)
                   \/ ReadRule(r) \/ SaveRule(r) \/ LookupNone(r) \/ LookupOne(r)
                   \/ LogError(r) \/ LogErrorFails(r) \/ SaveRun(r) \/ SaveHealthy(r)
                   \/ LateFailure(r) \/ SaveFailedRun(r) \/ SaveUnhealthy(r)
            PROVE  pc[s] = "update" /\ target'[s] = target[s] /\ seen'[s] = seen[s]
        BY <3>1 DEF Start, CreatePolicy, Fetch, FetchFails, BadEvent, ReadRule, SaveRule,
           LookupNone, LookupOne, LogError, LogErrorFails, SaveRun, SaveHealthy, LateFailure,
           SaveFailedRun, SaveUnhealthy, reads
      <3>2. ASSUME NEW r \in Runs,
                   \/ RuleGone(r) \/ LookupMany(r) \/ TargetGone(r) \/ RolledBack(r) \/ Crash(r)
                   \/ CommitCreate(r) \/ CommitUpdate(r)
            PROVE  pc[s] = "update" /\ target'[s] = target[s] /\ seen'[s] = seen[s]
        BY <3>2 DEF RuleGone, LookupMany, TargetGone, RolledBack, Crash, CommitCreate,
           CommitUpdate, Commit, EndEvent
      <3>3. ASSUME NEW r \in Runs, ReadOccurrence(r)
            PROVE  \/ pc[s] = "update" /\ target'[s] = target[s] /\ seen'[s] = seen[s]
                   \/ seen'[s] = alert[target'[s]].occ
        BY <3>3 DEF ReadOccurrence
      <3>4. ASSUME NEW a \in DOMAIN alert, DeleteAlert(a)
            PROVE  pc[s] = "update" /\ target'[s] = target[s] /\ seen'[s] = seen[s]
        BY <3>4 DEF DeleteAlert, progress, reads
      <3>5. CASE UNCHANGED vars
        BY <3>5 DEF vars, progress, reads
      <3>6. CASE EditRules
        BY <3>6, EditKeeps DEF progress, reads
      <3> QED BY <3>1, <3>2, <3>3, <3>4, <3>5, <3>6 DEF Next, Step, Work
    <2>4. SeenFresh'
      BY <1>6, <2>3, <2>5 DEF SeenFresh, OccurrenceInv
    <2> QED BY <1>1, <1>6, <2>1, <2>2, <2>4, <2>5
  <1> QED BY <1>2, <1>3, <1>4, <1>5, <1>6, LogSteps, OtherStepsKeepAlerts

\* The occurrence of an alert sums its log lines up: how many events it stands
\* for, and from which timestamp to which, in whatever order they were applied,
\* unless two executions updated it at once.
LEMMA OccurrencesSummarise == Spec => []OccurrenceSummarisesLog
  <1> DEFINE Inv == RunInv /\ OccurrenceInv
  <1>1. Init => Inv
    <2> SUFFICES ASSUME Init PROVE OccurrenceInv
      BY RunInit
    <2> QED BY DEF Init, OccurrenceInv, LinesNameAlerts, SeenFresh
  <1>2. Inv /\ [Next]_vars => Inv'
    BY RunNext, OccurrenceNext
  <1>3. Inv => OccurrenceSummarisesLog
    BY DEF OccurrenceInv, OccurrenceSummarisesLog, Summarises, Times
  <1> QED BY <1>1, <1>2, <1>3, PTL DEF Spec

\* However executions overlap with each other and with updates of the source,
\* occurrences are the summary of the log and rules count at least what was stored
\* under their titles, but for those on which two writers crossed.
THEOREM CountersAreTheLogs == Spec => []CountersTellLog
  BY OccurrencesSummarise, RulesCountTheLog, PTL DEF CountersTellLog
=============================================================================
