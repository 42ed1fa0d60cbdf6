------------------------ MODULE ParserRevisionsProofs ------------------------
(* Proofs about ParserRevisions: any number of requests and of texts.         *)
EXTENDS ParserRevisions, SequenceTheorems, TLAPS

\* The revision that r inserted is there.
Owns(r) ==
    /\ base[r] \in DOMAIN revs
    /\ revs[base[r]] = [text |-> want[r], from |-> from[r], by |-> r]

Early == {"idle", "insert", "save", "pick"}
NotYet == Early \cup {"version"}

\* What holds of a request by the place it is at.
PlaceOK(r) ==
    /\ pc[r] \in NotYet => base[r] = 0
    /\ pc[r] = "store" => base[r] # 0
    /\ pc[r] \in {"insert", "version", "store", "point"} => want[r] \in Texts
    /\ pc[r] = "point" => copy[r] = base[r] /\ Owns(r)
    /\ pc[r] = "audit" /\ base[r] # 0 => Owns(r)
    /\ answer[r] = "ok" => pc[r] = "done" /\ (base[r] # 0 => Owns(r))

\* What it rolls back to is an earlier revision, whose text it has.
SourceOK(r) ==
    /\ pc[r] \in Early => from[r] = 0
    /\ from[r] # 0 => /\ from[r] \in DOMAIN revs /\ want[r] = revs[from[r]].text
                      /\ base[r] # 0 => from[r] < base[r]

\* The versions are those from 1 to the latest, and all that is read or in
\* force is one of them; what is to be inserted is at most the next.
LogOK(n) ==
    /\ DOMAIN revs = 1..n
    /\ active \in 0..n
    /\ \A r \in Requests : copy[r] \in 0..n /\ base[r] \in 0..(n + 1)

Inserted == \A v \in DOMAIN revs : base[revs[v].by] = v

LogInv ==
    /\ TypeOK /\ Inserted /\ RollbackKeepsText
    /\ \E n \in Nat : LogOK(n)
    /\ \A r \in Requests : PlaceOK(r) /\ SourceOK(r)

\* How far a request is that nothing overlapped.
Reached(r) ==
    /\ pc[r] = "save" => copy[r] = active
    /\ pc[r] = "audit" => /\ copy[r] = active
                          /\ want[r] # NoText => active \in DOMAIN revs /\ revs[active].text = want[r]

CalmInv ==
    /\ mixed \subseteq Busy
    /\ \A r \in Busy \ mixed : Busy = {r} /\ Reached(r)
    /\ calm \in Requests => Busy = {}
    /\ AnswerIsInForce /\ AuditTellsActive

RaceOK ==
    /\ \A p, q \in Busy : p = q
    /\ \A r \in Requests : /\ pc[r] = "save" => copy[r] = active
                           /\ pc[r] = "point" => copy[r] = Latest
    /\ (\A r \in Requests : pc[r] # "point") => active = Latest

RaceInv == ~raced /\ ~broken => RaceOK

-----------------------------------------------------------------------------
(* Types                                                                     *)

LEMMA InitType == Init => TypeOK
  <1> SUFFICES ASSUME Init PROVE TypeOK
    OBVIOUS
  <1>1. DOMAIN revs = {}
    BY DEF Init
  <1> QED
    BY <1>1 DEF Init, TypeOK, Places

LEMMA TypeStep ==
    ASSUME TypeOK, [Next]_vars, Latest \in Nat,
           \A r \in Requests : pc[r] = "store" => want[r] \in Texts /\ base[r] # 0
    PROVE  TypeOK'
  <1>1. CASE UNCHANGED vars
    BY <1>1 DEF TypeOK, vars, rows, asks, seen
  <1>2. ASSUME NEW r \in Requests, Fail(r) PROVE TypeOK'
    BY <1>2 DEF TypeOK, Fail, End, rows, asks, Places
  <1>3. ASSUME NEW r \in Requests, Create(r) PROVE TypeOK'
    BY <1>3 DEF TypeOK, Create, Begin, rows, Places, Busy
  <1>4. ASSUME NEW r \in Requests, Insert(r) PROVE TypeOK'
    <2>1. CASE there
      BY <1>2, <1>4, <2>1 DEF Insert
    <2>2. CASE ~there
      <3>1. base' \in [Requests -> Nat] /\ there' = TRUE
        BY <1>4, <2>2 DEF Insert, TypeOK
      <3>2. pc' \in [Requests -> Places]
        BY <1>4, <2>2 DEF Insert, Goto, TypeOK, Places
      <3> QED
        BY <1>4, <2>2, <3>1, <3>2 DEF TypeOK, Insert, Goto, seen
    <2> QED
      BY <2>1, <2>2 DEF TypeOK
  <1>5. ASSUME NEW r \in Requests, Update(r) PROVE TypeOK'
    BY <1>5 DEF TypeOK, Update, Begin, rows, Places, Busy
  <1>6. ASSUME NEW r \in Requests, Save(r) PROVE TypeOK'
    BY <1>6 DEF TypeOK, Save, Goto, asks, seen, Places
  <1>7. ASSUME NEW r \in Requests, Rollback(r) PROVE TypeOK'
    BY <1>7 DEF TypeOK, Rollback, Begin, rows, Places, Busy
  <1>8. ASSUME NEW r \in Requests, Pick(r) PROVE TypeOK'
    BY <1>2, <1>8 DEF TypeOK, Pick, Goto, rows, seen, Places
  <1>9. ASSUME NEW r \in Requests, NextVersion(r) PROVE TypeOK'
    BY <1>9 DEF TypeOK, NextVersion, Goto, rows, seen, Places
  <1>10. ASSUME NEW r \in Requests, Store(r) PROVE TypeOK'
    BY <1>2, <1>10 DEF TypeOK, Store, Goto, seen, Places
  <1>11. ASSUME NEW r \in Requests, Point(r) PROVE TypeOK'
    BY <1>11 DEF TypeOK, Point, Goto, asks, seen, Places
  <1>12. ASSUME NEW r \in Requests, Audit(r) PROVE TypeOK'
    BY <1>12 DEF TypeOK, Audit, End, asks, Places

  <1>13. ASSUME NEW r \in Requests, Stop(r) PROVE TypeOK'
    BY <1>2, <1>13 DEF Stop
  <1> QED
    BY <1>1, <1>3, <1>4, <1>5, <1>6, <1>7, <1>8, <1>9, <1>10, <1>11, <1>12, <1>13 DEF Next

-----------------------------------------------------------------------------
(* The log                                                                   *)

LEMMA LatestIs ==
    ASSUME NEW n \in Nat, DOMAIN revs = 1..n
    PROVE  Latest = n
  <1>1. CASE n = 0
    BY <1>1 DEF Latest
  <1>2. CASE n # 0
    <2>1. n \in DOMAIN revs /\ \A u \in DOMAIN revs : u <= n
      BY <1>2
    <2>2. \A v \in DOMAIN revs : (\A u \in DOMAIN revs : u <= v) => v = n
      BY <2>1
    <2> QED
      BY <2>1, <2>2 DEF Latest
  <1> QED
    BY <1>1, <1>2

\* A step that leaves q where it is.
Same(q) ==
    /\ pc'[q] = pc[q] /\ copy'[q] = copy[q] /\ want'[q] = want[q]
    /\ from'[q] = from[q] /\ base'[q] = base[q] /\ answer'[q] = answer[q]

\* A step of r alone that inserts nothing.
Alone(r) ==
    /\ revs' = revs
    /\ \A q \in Requests \ {r} : Same(q)
    /\ base'[r] = base[r] \/ base[r] = 0

LEMMA SameOK ==
    ASSUME NEW q \in Requests, Same(q), revs' = revs, PlaceOK(q), SourceOK(q)
    PROVE  PlaceOK(q)' /\ SourceOK(q)'
  <1>1. PlaceOK(q)'
    BY DEF Same, PlaceOK, Owns, NotYet, Early
  <1>2. SourceOK(q)'
    BY DEF Same, SourceOK
  <1> QED
    BY <1>1, <1>2

LEMMA AloneStep ==
    ASSUME LogInv, TypeOK', NEW n \in Nat, LogOK(n), NEW r \in Requests, Alone(r),
           active' \in 0..n, copy'[r] \in 0..n, base'[r] \in 0..(n + 1),
           PlaceOK(r)', SourceOK(r)'
    PROVE  LogInv'
  <1>1. \A q \in Requests : PlaceOK(q)' /\ SourceOK(q)'
    <2> TAKE q \in Requests
    <2>1. CASE q = r
      BY <2>1
    <2>2. CASE q # r
      <3>1. Same(q) /\ revs' = revs
        BY <2>2 DEF Alone
      <3>2. PlaceOK(q) /\ SourceOK(q)
        BY DEF LogInv
      <3> QED
        BY <3>1, <3>2, SameOK
    <2> QED
      BY <2>1, <2>2
  <1>2. LogOK(n)'
    <2>1. DOMAIN revs' = 1..n
      BY DEF LogOK, Alone
    <2>2. ASSUME NEW q \in Requests PROVE copy'[q] \in 0..n /\ base'[q] \in 0..(n + 1)
      <3>1. CASE q = r
        BY <3>1
      <3>2. CASE q # r
        BY <3>2 DEF LogOK, Alone, Same
      <3> QED
        BY <3>1, <3>2
    <2> QED
      BY <2>1, <2>2 DEF LogOK
  <1>3. Inserted'
    <2> SUFFICES ASSUME NEW v \in DOMAIN revs PROVE base'[revs[v].by] = v
      BY DEF Inserted, Alone
    <2>1. revs[v].by \in Requests /\ base[revs[v].by] = v
      BY DEF LogInv, TypeOK, Inserted
    <2>2. v # 0
      BY DEF LogInv, TypeOK
    <2>3. CASE revs[v].by = r
      BY <2>1, <2>2, <2>3 DEF Alone
    <2>4. CASE revs[v].by # r
      BY <2>1, <2>4 DEF Alone, Same
    <2> QED
      BY <2>3, <2>4
  <1>4. RollbackKeepsText'
    BY DEF LogInv, RollbackKeepsText, Alone
  <1>5. \E m \in Nat : LogOK(m)'
    BY <1>2
  <1> QED
    BY <1>1, <1>3, <1>4, <1>5 DEF LogInv

LEMMA FailStep ==
    ASSUME LogInv, TypeOK', NEW r \in Requests, Fail(r), r \in Busy
    PROVE  LogInv'
  <1>1. PICK n \in Nat : LogOK(n)
    BY DEF LogInv
  <1>2. PlaceOK(r) /\ SourceOK(r)
    BY DEF LogInv
  <1>3. pc'[r] = "done" /\ answer'[r] = "error" /\ UNCHANGED <<rows, asks>>
    BY DEF Fail, End, LogInv, TypeOK
  <1>4. Alone(r)
    BY DEF Fail, End, LogInv, TypeOK, rows, asks, Alone, Same
  <1>5. PlaceOK(r)'
    BY <1>3 DEF PlaceOK, NotYet, Early
  <1>6. SourceOK(r)'
    BY <1>2, <1>3 DEF SourceOK, Early, rows, asks
  <1>7. active' \in 0..n /\ copy'[r] \in 0..n /\ base'[r] \in 0..(n + 1)
    BY <1>1, <1>3 DEF LogOK, rows, asks
  <1> QED
    BY <1>1, <1>4, <1>5, <1>6, <1>7, AloneStep

LEMMA BeginStep ==
    ASSUME LogInv, TypeOK', NEW r \in Requests, Create(r) \/ Update(r) \/ Rollback(r)
    PROVE  LogInv'
  <1>1. PICK n \in Nat : LogOK(n)
    BY DEF LogInv
  <1>2. PlaceOK(r) /\ SourceOK(r) /\ pc[r] = "idle"
    BY DEF LogInv, Create, Update, Rollback, Begin
  <1>3. answer[r] # "ok" /\ base[r] = 0
    BY <1>2 DEF PlaceOK, NotYet, Early
  <1>4. UNCHANGED <<rows, from, base, answer>>
    BY DEF Create, Update, Rollback, Begin
  <1>5. copy'[r] \in {copy[r], active}
    BY DEF Create, Update, Rollback, LogInv, TypeOK
  <1>6. /\ pc'[r] \in {"insert", "save", "pick"}
        /\ pc'[r] = "insert" => want'[r] \in Texts
    BY DEF Create, Update, Rollback, Begin, LogInv, TypeOK
  <1>7. Alone(r)
    BY DEF Create, Update, Rollback, Begin, LogInv, TypeOK, rows, Alone, Same
  <1>8. PlaceOK(r)'
    BY <1>3, <1>4, <1>6 DEF PlaceOK, NotYet, Early
  <1>9. from[r] = 0
    BY <1>2 DEF SourceOK, Early
  <1>10. SourceOK(r)'
    BY <1>4, <1>9 DEF SourceOK
  <1>11. active' \in 0..n /\ copy'[r] \in 0..n /\ base'[r] \in 0..(n + 1)
    BY <1>1, <1>4, <1>5 DEF LogOK, rows
  <1> QED
    BY <1>1, <1>7, <1>8, <1>10, <1>11, AloneStep

LEMMA InsertStep ==
    ASSUME LogInv, TypeOK', NEW r \in Requests, Insert(r)
    PROVE  LogInv'
  <1>1. PICK n \in Nat : LogOK(n)
    BY DEF LogInv
  <1>2. PlaceOK(r) /\ SourceOK(r) /\ pc[r] = "insert"
    BY DEF LogInv, Insert
  <1>3. CASE there
    BY <1>2, <1>3, FailStep DEF Insert, Busy
  <1>4. CASE ~there
    <2>1. base[r] = 0 /\ answer[r] # "ok" /\ want[r] \in Texts /\ from[r] = 0
      BY <1>2 DEF PlaceOK, NotYet, Early, SourceOK
    <2>2. UNCHANGED <<active, revs, copy, want, from, answer>>
      BY <1>4 DEF Insert, Goto
    <2>3. \/ pc'[r] = "store" /\ base'[r] = 1
          \/ pc'[r] = "version" /\ base'[r] = 0
      BY <1>4, <2>1 DEF Insert, Goto, LogInv, TypeOK
    <2>4. Alone(r)
      BY <1>4, <2>1, <2>2 DEF Insert, Goto, LogInv, TypeOK, Alone, Same
    <2>5. PlaceOK(r)'
      BY <2>1, <2>2, <2>3 DEF PlaceOK, NotYet, Early
    <2>6. SourceOK(r)'
      BY <2>1, <2>2 DEF SourceOK
    <2>7. active' \in 0..n /\ copy'[r] \in 0..n /\ base'[r] \in 0..(n + 1)
      BY <1>1, <2>2, <2>3 DEF LogOK
    <2> QED
      BY <1>1, <2>4, <2>5, <2>6, <2>7, AloneStep
  <1> QED
    BY <1>3, <1>4

LEMMA SaveStep ==
    ASSUME LogInv, TypeOK', NEW r \in Requests, Save(r)
    PROVE  LogInv'
  <1>1. PICK n \in Nat : LogOK(n)
    BY DEF LogInv
  <1>2. PlaceOK(r) /\ SourceOK(r) /\ pc[r] = "save"
    BY DEF LogInv, Save
  <1>3. base[r] = 0 /\ answer[r] # "ok" /\ from[r] = 0
    BY <1>2 DEF PlaceOK, NotYet, Early, SourceOK
  <1>4. active' = copy[r] /\ UNCHANGED <<revs, asks, answer>>
    BY DEF Save, Goto
  <1>5. pc'[r] = "audit" \/ (pc'[r] = "version" /\ want[r] # NoText)
    <2>1. pc'[r] = IF IsNew(r) THEN "version" ELSE "audit"
      BY DEF Save, Goto, LogInv, TypeOK
    <2>2. CASE IsNew(r)
      BY <2>1, <2>2 DEF IsNew
    <2>3. CASE ~IsNew(r)
      BY <2>1, <2>3
    <2> QED
      BY <2>2, <2>3
  <1>6. Alone(r)
    BY DEF Save, Goto, LogInv, TypeOK, asks, Alone, Same
  <1>7. want[r] \in Texts \cup {NoText}
    BY DEF LogInv, TypeOK
  <1>8. PlaceOK(r)'
    BY <1>3, <1>4, <1>5, <1>7 DEF PlaceOK, NotYet, Early, asks
  <1>9. SourceOK(r)'
    BY <1>3, <1>4 DEF SourceOK, asks
  <1>10. active' \in 0..n /\ copy'[r] \in 0..n /\ base'[r] \in 0..(n + 1)
    BY <1>1, <1>4 DEF LogOK, asks
  <1> QED
    BY <1>1, <1>6, <1>8, <1>9, <1>10, AloneStep

LEMMA PickStep ==
    ASSUME LogInv, TypeOK', NEW r \in Requests, Pick(r)
    PROVE  LogInv'
  <1>1. PICK n \in Nat : LogOK(n)
    BY DEF LogInv
  <1>2. PlaceOK(r) /\ SourceOK(r) /\ pc[r] = "pick"
    BY DEF LogInv, Pick
  <1>3. CASE Fail(r)
    BY <1>2, <1>3, FailStep DEF Busy
  <1>4. ASSUME NEW v \in DOMAIN revs,
               from' = [from EXCEPT ![r] = v], want' = [want EXCEPT ![r] = revs[v].text],
               Goto(r, "version"), UNCHANGED <<rows, kind, copy, base>>
        PROVE  LogInv'
    <2>1. base[r] = 0 /\ answer[r] # "ok"
      BY <1>2 DEF PlaceOK, NotYet, Early
    <2>2. /\ pc'[r] = "version" /\ from'[r] = v /\ want'[r] = revs[v].text
          /\ UNCHANGED <<rows, copy, base, answer>>
      BY <1>4 DEF Goto, LogInv, TypeOK
    <2>3. revs[v].text \in Texts
      BY DEF LogInv, TypeOK
    <2>4. Alone(r)
      BY <1>4 DEF Goto, LogInv, TypeOK, rows, Alone, Same
    <2>5. PlaceOK(r)'
      BY <2>1, <2>2, <2>3 DEF PlaceOK, NotYet, Early
    <2>6. SourceOK(r)'
      BY <1>4, <2>1, <2>2 DEF SourceOK, Early, rows
    <2>7. active' \in 0..n /\ copy'[r] \in 0..n /\ base'[r] \in 0..(n + 1)
      BY <1>1, <2>2 DEF LogOK, rows
    <2> QED
      BY <1>1, <2>4, <2>5, <2>6, <2>7, AloneStep
  <1> QED
    BY <1>3, <1>4 DEF Pick

LEMMA VersionStep ==
    ASSUME LogInv, TypeOK', NEW r \in Requests, NextVersion(r)
    PROVE  LogInv'
  <1>1. PICK n \in Nat : LogOK(n)
    BY DEF LogInv
  <1>2. PlaceOK(r) /\ SourceOK(r) /\ pc[r] = "version"
    BY DEF LogInv, NextVersion
  <1>3. base[r] = 0 /\ answer[r] # "ok" /\ want[r] \in Texts
    BY <1>2 DEF PlaceOK, NotYet
  <1>4. Latest = n /\ DOMAIN revs = 1..n
    BY <1>1, LatestIs DEF LogOK
  <1>5. pc'[r] = "store" /\ base'[r] = n + 1 /\ UNCHANGED <<rows, copy, want, from, answer>>
    BY <1>4 DEF NextVersion, Goto, LogInv, TypeOK
  <1>6. Alone(r)
    BY <1>3 DEF NextVersion, Goto, LogInv, TypeOK, rows, Alone, Same
  <1>7. PlaceOK(r)'
    BY <1>3, <1>5 DEF PlaceOK, NotYet, Early
  <1>8. SourceOK(r)'
    BY <1>2, <1>4, <1>5 DEF SourceOK, Early, rows
  <1>9. active' \in 0..n /\ copy'[r] \in 0..n /\ base'[r] \in 0..(n + 1)
    BY <1>1, <1>5 DEF LogOK, rows
  <1> QED
    BY <1>1, <1>6, <1>7, <1>8, <1>9, AloneStep

LEMMA PointStep ==
    ASSUME LogInv, TypeOK', NEW r \in Requests, Point(r)
    PROVE  LogInv'
  <1>1. PICK n \in Nat : LogOK(n)
    BY DEF LogInv
  <1>2. PlaceOK(r) /\ SourceOK(r) /\ pc[r] = "point"
    BY DEF LogInv, Point
  <1>3. active' = copy[r] /\ pc'[r] = "audit" /\ UNCHANGED <<revs, asks, answer>>
    BY DEF Point, Goto, LogInv, TypeOK
  <1>4. Alone(r)
    BY DEF Point, Goto, LogInv, TypeOK, asks, Alone, Same
  <1>5. PlaceOK(r)'
    BY <1>2, <1>3 DEF PlaceOK, Owns, NotYet, Early, asks
  <1>6. SourceOK(r)'
    BY <1>2, <1>3 DEF SourceOK, Early, asks
  <1>7. active' \in 0..n /\ copy'[r] \in 0..n /\ base'[r] \in 0..(n + 1)
    BY <1>1, <1>3 DEF LogOK, asks
  <1> QED
    BY <1>1, <1>4, <1>5, <1>6, <1>7, AloneStep

LEMMA AuditStep ==
    ASSUME LogInv, TypeOK', NEW r \in Requests, Audit(r)
    PROVE  LogInv'
  <1>1. PICK n \in Nat : LogOK(n)
    BY DEF LogInv
  <1>2. PlaceOK(r) /\ SourceOK(r) /\ pc[r] = "audit"
    BY DEF LogInv, Audit
  <1>3. pc'[r] = "done" /\ UNCHANGED <<active, revs, asks>>
    BY DEF Audit, End, LogInv, TypeOK
  <1>4. Alone(r)
    BY DEF Audit, End, LogInv, TypeOK, asks, Alone, Same
  <1>5. PlaceOK(r)'
    BY <1>2, <1>3 DEF PlaceOK, Owns, NotYet, Early, asks
  <1>6. SourceOK(r)'
    BY <1>2, <1>3 DEF SourceOK, Early, asks
  <1>7. active' \in 0..n /\ copy'[r] \in 0..n /\ base'[r] \in 0..(n + 1)
    BY <1>1, <1>3 DEF LogOK, asks
  <1> QED
    BY <1>1, <1>4, <1>5, <1>6, <1>7, AloneStep

LEMMA StoreStep ==
    ASSUME LogInv, TypeOK', NEW r \in Requests, Store(r)
    PROVE  LogInv'
  <1>1. PICK n \in Nat : LogOK(n)
    BY DEF LogInv
  <1>2. PlaceOK(r) /\ SourceOK(r) /\ pc[r] = "store"
    BY DEF LogInv, Store
  <1>3. CASE base[r] \in DOMAIN revs
    BY <1>2, <1>3, FailStep DEF Store, Busy
  <1>4. CASE base[r] \notin DOMAIN revs
    <2>1. base[r] = n + 1 /\ DOMAIN revs = 1..n
      BY <1>1, <1>2, <1>4 DEF LogOK, PlaceOK
    <2>2. /\ DOMAIN revs' = DOMAIN revs \cup {base[r]}
          /\ revs'[base[r]] = [text |-> want[r], from |-> from[r], by |-> r]
          /\ \A v \in DOMAIN revs : revs'[v] = revs[v]
      BY <1>4 DEF Store
    <2>3. /\ UNCHANGED <<active, want, from, base, answer>>
          /\ pc' = [pc EXCEPT ![r] = "point"] /\ copy' = [copy EXCEPT ![r] = base[r]]
      BY <1>4 DEF Store, Goto
    <2>4. \A q \in Requests : PlaceOK(q)' /\ SourceOK(q)'
      <3> TAKE q \in Requests
      <3>1. PlaceOK(q) /\ SourceOK(q)
        BY DEF LogInv
      <3>2. Owns(q) => Owns(q)'
        BY <2>2, <2>3 DEF Owns
      <3>3. SourceOK(q)'
        BY <3>1, <2>2, <2>3 DEF SourceOK, Early, LogInv, TypeOK
      <3>4. CASE q = r
        <4>1. pc'[r] = "point" /\ copy'[r] = base[r] /\ answer[r] # "ok" /\ want[r] \in Texts
          BY <1>2, <2>3 DEF LogInv, TypeOK, PlaceOK
        <4>2. Owns(r)'
          BY <2>2, <2>3 DEF Owns
        <4> QED
          BY <2>3, <3>3, <3>4, <4>1, <4>2 DEF PlaceOK, NotYet, Early
      <3>5. CASE q # r
        <4>1. pc'[q] = pc[q] /\ copy'[q] = copy[q]
          BY <2>3, <3>5 DEF LogInv, TypeOK
        <4> QED
          BY <2>3, <3>1, <3>2, <3>3, <4>1 DEF PlaceOK
      <3> QED
        BY <3>4, <3>5
    <2>5. LogOK(n + 1)'
      <3>1. DOMAIN revs' = 1..(n + 1) /\ active' \in 0..(n + 1)
        BY <1>1, <2>1, <2>2, <2>3 DEF LogOK
      <3>2. ASSUME NEW q \in Requests
            PROVE  copy'[q] \in 0..(n + 1) /\ base'[q] \in 0..((n + 1) + 1)
        <4>1. copy'[q] \in {copy[q], n + 1} /\ base'[q] = base[q]
          BY <2>1, <2>3 DEF LogInv, TypeOK
        <4> QED
          BY <1>1, <4>1 DEF LogOK
      <3> QED
        BY <3>1, <3>2 DEF LogOK
    <2>6. Inserted'
      <3> SUFFICES ASSUME NEW v \in DOMAIN revs' PROVE base'[revs'[v].by] = v
        BY DEF Inserted
      <3>1. CASE v = base[r]
        BY <2>2, <2>3, <3>1
      <3>2. CASE v # base[r]
        BY <2>2, <2>3, <3>2 DEF LogInv, Inserted
      <3> QED
        BY <3>1, <3>2
    <2>7. RollbackKeepsText'
      <3> SUFFICES ASSUME NEW v \in DOMAIN revs', revs'[v].from # 0
                   PROVE  /\ revs'[v].from < v /\ revs'[v].from \in DOMAIN revs'
                          /\ revs'[v].text = revs'[revs'[v].from].text
        BY DEF RollbackKeepsText
      <3>1. CASE v = base[r]
        <4>1. from[r] # 0 /\ base[r] # 0
          BY <2>1, <2>2, <3>1
        <4>2. from[r] \in DOMAIN revs /\ want[r] = revs[from[r]].text /\ from[r] < base[r]
          BY <1>2, <4>1 DEF SourceOK
        <4> QED
          BY <2>2, <3>1, <4>2
      <3>2. CASE v # base[r]
        <4>1. v \in DOMAIN revs /\ revs'[v] = revs[v]
          BY <2>2, <3>2
        <4>2. revs[v].from < v /\ revs[v].from \in DOMAIN revs /\ revs[v].text = revs[revs[v].from].text
          BY <4>1 DEF LogInv, RollbackKeepsText
        <4> QED
          BY <2>2, <4>1, <4>2
      <3> QED
        BY <3>1, <3>2
    <2>8. \E m \in Nat : LogOK(m)'
      BY <2>5
    <2> QED
      BY <2>4, <2>6, <2>7, <2>8 DEF LogInv
  <1> QED
    BY <1>3, <1>4

LEMMA LogTypes ==
    ASSUME LogInv, [Next]_vars
    PROVE  TypeOK' /\ Latest \in Nat
  <1>1. Latest \in Nat
    <2>1. PICK n \in Nat : LogOK(n)
      BY DEF LogInv
    <2> QED
      BY <2>1, LatestIs DEF LogOK
  <1>2. \A r \in Requests : pc[r] = "store" => want[r] \in Texts /\ base[r] # 0
    BY DEF LogInv, PlaceOK
  <1> QED
    BY <1>1, <1>2, TypeStep DEF LogInv

LEMMA LogStep ==
    ASSUME LogInv, [Next]_vars
    PROVE  LogInv'
  <1>1. TypeOK'
    BY LogTypes
  <1>2. CASE UNCHANGED vars
    <2>1. UNCHANGED <<there, active, revs, told, pc, kind, copy, want, from, base, answer>>
      BY <1>2 DEF vars, rows, asks
    <2>2. PICK n \in Nat : LogOK(n)
      BY DEF LogInv
    <2>3. LogOK(n)'
      BY <2>1, <2>2 DEF LogOK
    <2>4. \A q \in Requests : PlaceOK(q)' /\ SourceOK(q)'
      BY <2>1 DEF LogInv, PlaceOK, SourceOK, Owns
    <2>5. Inserted' /\ RollbackKeepsText'
      BY <2>1 DEF LogInv, Inserted, RollbackKeepsText
    <2>6. \E m \in Nat : LogOK(m)'
      BY <2>3
    <2> QED
      BY <1>1, <2>4, <2>5, <2>6 DEF LogInv
  <1>3. ASSUME NEW r \in Requests,
               Create(r) \/ Insert(r) \/ Update(r) \/ Save(r) \/ Rollback(r) \/ Pick(r)
               \/ NextVersion(r) \/ Store(r) \/ Point(r) \/ Audit(r) \/ Stop(r)
        PROVE  LogInv'
    BY <1>1, <1>3, BeginStep, InsertStep, SaveStep, PickStep, VersionStep, StoreStep, PointStep,
       AuditStep, FailStep DEF Stop
  <1> QED
    BY <1>2, <1>3 DEF Next

LEMMA InitLog == Init => LogInv
  <1> SUFFICES ASSUME Init PROVE LogInv
    OBVIOUS
  <1>1. DOMAIN revs = {}
    BY DEF Init
  <1>2. LogOK(0)
    BY <1>1 DEF Init, LogOK
  <1>3. Inserted /\ RollbackKeepsText
    BY <1>1 DEF Inserted, RollbackKeepsText
  <1>4. \A r \in Requests : PlaceOK(r) /\ SourceOK(r)
    BY DEF Init, PlaceOK, SourceOK
  <1>5. \E n \in Nat : LogOK(n)
    BY <1>2
  <1> QED
    BY <1>3, <1>4, <1>5, InitType DEF LogInv

LEMMA LogAlways == Spec => []LogInv
  BY InitLog, LogStep, PTL DEF Spec

-----------------------------------------------------------------------------
(* A change that nothing overlapped                                          *)

LEMMA GotoBusy ==
    ASSUME TypeOK, NEW r \in Busy, NEW place \in Places \ {"idle", "done"}, Goto(r, place)
    PROVE  Busy' = Busy /\ pc'[r] = place /\ UNCHANGED <<mixed, raced, broken, calm, answer>>
  BY DEF TypeOK, Busy, Goto, seen, Places

LEMMA EndBusy ==
    ASSUME TypeOK, NEW r \in Busy, NEW a, NEW quiet, End(r, a, quiet)
    PROVE  Busy' = Busy \ {r} /\ mixed' = mixed \ {r} /\ UNCHANGED <<asks, raced>>
  BY DEF TypeOK, Busy, End

LEMMA BeginBusy ==
    ASSUME TypeOK, NEW r \in Requests, NEW k, NEW place \in {"insert", "save", "pick"},
           Begin(r, k, place)
    PROVE  /\ Busy' = Busy \cup {r} /\ pc'[r] = place /\ r \notin Busy
           /\ UNCHANGED <<rows, broken>>
  BY DEF TypeOK, Busy, Begin

LEMMA BeginCalm ==
    ASSUME CalmInv, TypeOK, NEW r \in Requests, NEW k, NEW place \in {"insert", "save", "pick"},
           Begin(r, k, place), place = "save" => copy'[r] = active
    PROVE  CalmInv'
  <1>1. /\ Busy' = Busy \cup {r} /\ pc'[r] = place /\ UNCHANGED <<rows, broken>>
    BY BeginBusy
  <1>2. calm' = Nobody /\ calm' \notin Requests
    BY NobodyAssumption DEF Begin
  <1>3. CASE Busy = {}
    <2>1. mixed = {} /\ mixed' = {} /\ Busy' = {r}
      BY <1>1, <1>3 DEF CalmInv, Begin
    <2>2. Reached(r)'
      BY <1>1 DEF Reached, rows
    <2> QED
      BY <1>2, <2>1, <2>2 DEF CalmInv, AnswerIsInForce, AuditTellsActive
  <1>4. CASE Busy # {}
    <2>1. mixed' = Busy'
      BY <1>1, <1>4 DEF CalmInv, Begin
    <2> QED
      BY <1>2, <2>1 DEF CalmInv, AnswerIsInForce, AuditTellsActive
  <1> QED
    BY <1>3, <1>4

LEMMA GotoCalm ==
    ASSUME CalmInv, TypeOK, NEW r \in Busy, NEW place \in Places \ {"idle", "done"},
           Goto(r, place), r \notin mixed => Reached(r)'
    PROVE  CalmInv'
  <1>1. Busy' = Busy /\ UNCHANGED <<mixed, calm>>
    BY GotoBusy
  <1>2. calm \notin Requests
    BY DEF CalmInv
  <1>3. ASSUME NEW q \in Busy \ mixed PROVE Busy = {q} /\ Reached(q)'
    <2>1. Busy = {q}
      BY DEF CalmInv
    <2>2. q = r
      BY <2>1
    <2> QED
      BY <2>1, <2>2
  <1> QED
    BY <1>1, <1>2, <1>3 DEF CalmInv, AnswerIsInForce, AuditTellsActive

LEMMA EndCalm ==
    ASSUME CalmInv, TypeOK, NEW r \in Busy, NEW a, NEW quiet \in BOOLEAN, End(r, a, quiet),
           quiet => /\ r \notin mixed
                    /\ want[r] # NoText => active' \in DOMAIN revs' /\ revs'[active'].text = want[r]
                    /\ kind[r] # "preset" => told' = active'
    PROVE  CalmInv'
  <1>1. Busy' = Busy \ {r} /\ mixed' = mixed \ {r} /\ UNCHANGED asks
    BY EndBusy
  <1>2. \A q \in Busy \ mixed : Busy = {q}
    BY DEF CalmInv
  <1>3. Busy' \ mixed' = {}
    BY <1>1, <1>2
  <1>4. mixed' \subseteq Busy'
    BY <1>1 DEF CalmInv
  <1>5. CASE quiet
    <2>1. Busy' = {} /\ calm' = r
      BY <1>1, <1>2, <1>5 DEF End
    <2> QED
      BY <1>1, <1>3, <1>4, <1>5, <2>1 DEF CalmInv, AnswerIsInForce, AuditTellsActive, asks
  <1>6. CASE ~quiet
    <2>1. calm' \notin Requests
      BY <1>6, NobodyAssumption DEF End
    <2> QED
      BY <1>3, <1>4, <2>1 DEF CalmInv, AnswerIsInForce, AuditTellsActive
  <1> QED
    BY <1>5, <1>6

LEMMA CalmStep ==
    ASSUME LogInv, CalmInv, [Next]_vars
    PROVE  CalmInv'
  <1> USE DEF Places
  <1>1. TypeOK /\ \A r \in Requests : PlaceOK(r)
    BY DEF LogInv
  <1>2. PICK n \in Nat : LogOK(n)
    BY DEF LogInv
  <1>3. CASE UNCHANGED vars
    BY <1>3 DEF vars, rows, asks, seen, CalmInv, Busy, Reached, AnswerIsInForce, AuditTellsActive
  <1>4. ASSUME NEW r \in Requests, Fail(r), r \in Busy PROVE CalmInv'
    BY <1>1, <1>4, EndCalm DEF Fail
  <1>5. ASSUME NEW r \in Requests, Create(r) PROVE CalmInv'
    BY <1>1, <1>5, BeginCalm DEF Create
  <1>6. ASSUME NEW r \in Requests, Insert(r) PROVE CalmInv'
    <2>1. r \in Busy
      BY <1>6 DEF Insert, Busy
    <2>2. CASE there
      BY <1>4, <1>6, <2>1, <2>2 DEF Insert
    <2>3. CASE ~there
      <3>1. PICK place \in {"store", "version"} : Goto(r, place)
        BY <1>6, <2>3 DEF Insert
      <3>2. Reached(r)'
        BY <1>1, <2>1, <3>1, GotoBusy DEF Reached
      <3> QED
        BY <1>1, <2>1, <3>1, <3>2, GotoCalm
    <2> QED
      BY <2>2, <2>3
  <1>7. ASSUME NEW r \in Requests, Update(r) PROVE CalmInv'
    <2>1. copy'[r] = active
      BY <1>1, <1>7 DEF Update, TypeOK
    <2> QED
      BY <1>1, <1>7, <2>1, BeginCalm DEF Update
  <1>8. ASSUME NEW r \in Requests, Save(r) PROVE CalmInv'
    <2>1. r \in Busy /\ active' = copy[r] /\ UNCHANGED <<revs, asks>>
      BY <1>8 DEF Save, Busy
    <2>2. CASE IsNew(r)
      <3>1. Goto(r, "version")
        BY <1>8, <2>2 DEF Save
      <3>2. Reached(r)'
        BY <1>1, <2>1, <3>1, GotoBusy DEF Reached
      <3> QED
        BY <1>1, <2>1, <3>1, <3>2, GotoCalm
    <2>3. CASE ~IsNew(r)
      <3>1. Goto(r, "audit")
        BY <1>8, <2>3, Zenon DEF Save
      <3>2. want[r] # NoText => copy[r] \in DOMAIN revs /\ revs[copy[r]].text = want[r]
        BY <1>2, <2>3 DEF IsNew, LogOK
      <3>3. pc'[r] = "audit"
        BY <1>1, <2>1, <3>1, GotoBusy
      <3>4. Reached(r)'
        BY <2>1, <3>2, <3>3 DEF Reached, asks
      <3> QED
        BY <1>1, <2>1, <3>1, <3>4, GotoCalm
    <2> QED
      BY <2>2, <2>3
  <1>9. ASSUME NEW r \in Requests, Rollback(r) PROVE CalmInv'
    BY <1>1, <1>9, BeginCalm DEF Rollback
  <1>10. ASSUME NEW r \in Requests, Pick(r) PROVE CalmInv'
    <2>1. r \in Busy
      BY <1>10 DEF Pick, Busy
    <2>2. CASE Fail(r)
      BY <1>4, <2>1, <2>2
    <2>3. CASE Goto(r, "version")
      <3>1. Reached(r)'
        BY <1>1, <2>1, <2>3, GotoBusy DEF Reached
      <3> QED
        BY <1>1, <2>1, <2>3, <3>1, GotoCalm
    <2> QED
      BY <1>10, <2>2, <2>3 DEF Pick
  <1>11. ASSUME NEW r \in Requests, NextVersion(r) PROVE CalmInv'
    <2>1. r \in Busy /\ Goto(r, "store")
      BY <1>11 DEF NextVersion, Busy
    <2>2. Reached(r)'
      BY <1>1, <2>1, GotoBusy DEF Reached
    <2> QED
      BY <1>1, <2>1, <2>2, GotoCalm
  <1>12. ASSUME NEW r \in Requests, Store(r) PROVE CalmInv'
    <2>1. r \in Busy
      BY <1>12 DEF Store, Busy
    <2>2. CASE Fail(r)
      BY <1>4, <2>1, <2>2
    <2>3. CASE Goto(r, "point")
      <3>1. Reached(r)'
        BY <1>1, <2>1, <2>3, GotoBusy DEF Reached
      <3> QED
        BY <1>1, <2>1, <2>3, <3>1, GotoCalm
    <2> QED
      BY <1>12, <2>2, <2>3 DEF Store
  <1>13. ASSUME NEW r \in Requests, Point(r) PROVE CalmInv'
    <2>1. r \in Busy /\ Goto(r, "audit") /\ active' = copy[r] /\ UNCHANGED <<revs, asks>>
      BY <1>13 DEF Point, Busy
    <2>2. copy[r] \in DOMAIN revs /\ revs[copy[r]].text = want[r]
      <3>1. pc[r] = "point" /\ PlaceOK(r)
        BY <1>1, <1>13 DEF Point
      <3>2. copy[r] = base[r] /\ Owns(r)
        BY <3>1 DEF PlaceOK
      <3> QED
        BY <3>2 DEF Owns
    <2>3. Reached(r)'
      BY <2>1, <2>2 DEF Reached, asks
    <2> QED
      BY <1>1, <2>1, <2>3, GotoCalm
  <1>14. ASSUME NEW r \in Requests, Audit(r) PROVE CalmInv'
    <2>1. r \in Busy /\ End(r, "ok", r \notin mixed) /\ UNCHANGED <<active, revs>>
      BY <1>14 DEF Audit, Busy
    <2>2. ASSUME r \notin mixed
          PROVE  /\ want[r] # NoText => active' \in DOMAIN revs' /\ revs'[active'].text = want[r]
                 /\ kind[r] # "preset" => told' = active'
      <3>1. Reached(r) /\ pc[r] = "audit"
        BY <1>14, <2>1, <2>2 DEF CalmInv, Audit
      <3> QED
        BY <1>14, <2>1, <3>1 DEF Reached, Audit
    <2> QED
      BY <1>1, <2>1, <2>2, EndCalm
  <1>15. ASSUME NEW r \in Requests, Stop(r) PROVE CalmInv'
    BY <1>4, <1>15 DEF Stop
  <1> QED
    BY <1>3, <1>5, <1>6, <1>7, <1>8, <1>9, <1>10, <1>11, <1>12, <1>13, <1>14, <1>15 DEF Next

LEMMA InitCalm == Init => CalmInv
  BY NobodyAssumption DEF Init, CalmInv, Busy, AnswerIsInForce, AuditTellsActive

-----------------------------------------------------------------------------
(* The newest revision                                                       *)

LEMMA OneBusy ==
    ASSUME RaceOK, NEW r \in Busy
    PROVE  Busy = {r}
  BY DEF RaceOK

LEMMA BeginRace ==
    ASSUME RaceInv, TypeOK, NEW r \in Requests, NEW k, NEW place \in {"insert", "save", "pick"},
           Begin(r, k, place), copy' = copy \/ copy' = [copy EXCEPT ![r] = active],
           place = "save" => copy'[r] = active
    PROVE  RaceInv'
  <1> SUFFICES ASSUME ~raced', ~broken' PROVE RaceOK'
    BY DEF RaceInv
  <1>1. Busy' = Busy \cup {r} /\ pc'[r] = place /\ UNCHANGED <<rows, broken>>
    BY BeginBusy
  <1>2. ~raced /\ ~broken /\ Busy = {} /\ Busy' = {r}
    <2>1. raced' = (raced \/ Busy # {}) /\ raced \in BOOLEAN
      BY DEF Begin, TypeOK
    <2>2. Busy = {} /\ ~raced
      BY <2>1
    <2> QED
      BY <1>1, <2>2
  <1>3. RaceOK
    BY <1>2 DEF RaceInv
  <1>4. \A q \in Requests : pc[q] # "point" /\ pc'[q] # "point" /\ (q # r => pc'[q] # "save")
    BY <1>2 DEF Busy, Begin, TypeOK
  <1>5. Latest' = Latest /\ active' = active
    BY <1>1 DEF rows, Latest
  <1> QED
    BY <1>1, <1>2, <1>3, <1>4, <1>5 DEF RaceOK

LEMMA GotoRace ==
    ASSUME RaceInv, TypeOK, NEW r \in Busy, NEW place \in Places \ {"idle", "save", "done"},
           Goto(r, place),
           RaceOK => IF place = "point" THEN copy'[r] = Latest' ELSE active' = Latest'
    PROVE  RaceInv'
  <1> SUFFICES ASSUME ~raced', ~broken' PROVE RaceOK'
    BY DEF RaceInv
  <1>1. Busy' = Busy /\ pc'[r] = place /\ UNCHANGED <<mixed, raced, broken, calm>>
    BY GotoBusy
  <1>2. RaceOK /\ Busy = {r}
    BY <1>1, OneBusy DEF RaceInv
  <1>3. \A q \in Requests : q # r => pc'[q] # "point" /\ pc'[q] # "save"
    BY <1>1, <1>2 DEF Busy
  <1>4. pc'[r] # "save"
    BY <1>1
  <1>5. \A p, q \in Busy' : p = q
    BY <1>1, <1>2
  <1>6. \A q \in Requests : /\ pc'[q] = "save" => copy'[q] = active'
                            /\ pc'[q] = "point" => copy'[q] = Latest'
    BY <1>1, <1>2, <1>3, <1>4
  <1>7. (\A q \in Requests : pc'[q] # "point") => active' = Latest'
    <2>1. r \in Requests
      BY DEF Busy
    <2> QED
      BY <1>1, <1>2, <2>1
  <1> QED
    BY <1>5, <1>6, <1>7 DEF RaceOK

LEMMA EndRace ==
    ASSUME RaceInv, TypeOK, NEW r \in Busy, NEW a, NEW quiet, End(r, a, quiet),
           UNCHANGED <<active, revs>>, ~broken' => ~broken /\ pc[r] # "point"
    PROVE  RaceInv'
  <1> SUFFICES ASSUME ~raced', ~broken' PROVE RaceOK'
    BY DEF RaceInv
  <1>1. Busy' = Busy \ {r} /\ UNCHANGED <<asks, raced>>
    BY EndBusy
  <1>2. RaceOK /\ Busy = {r} /\ Busy' = {}
    BY <1>1, OneBusy DEF RaceInv
  <1>3. \A q \in Requests : pc[q] # "point" /\ pc'[q] # "point" /\ pc'[q] # "save"
    BY <1>2 DEF Busy
  <1>4. Latest' = Latest
    BY DEF Latest
  <1> QED
    BY <1>2, <1>3, <1>4 DEF RaceOK

LEMMA RaceStep ==
    ASSUME LogInv, RaceInv, [Next]_vars
    PROVE  RaceInv'
  <1> USE DEF Places
  <1>1. TypeOK /\ \A r \in Requests : PlaceOK(r)
    BY DEF LogInv
  <1>2. PICK n \in Nat : LogOK(n)
    BY DEF LogInv
  <1>3. CASE UNCHANGED vars
    BY <1>3 DEF vars, rows, asks, seen, RaceInv, RaceOK, Busy, Latest
  <1>4. ASSUME NEW r \in Requests, Fail(r), r \in Busy PROVE RaceInv'
    BY <1>1, <1>4, EndRace DEF Fail, rows
  <1>5. ASSUME NEW r \in Requests, Create(r) PROVE RaceInv'
    BY <1>1, <1>5, BeginRace DEF Create
  <1>6. ASSUME NEW r \in Requests, Insert(r) PROVE RaceInv'
    <2>1. r \in Busy
      BY <1>6 DEF Insert, Busy
    <2>2. CASE there
      BY <1>4, <1>6, <2>1, <2>2 DEF Insert
    <2>3. CASE ~there
      <3>1. PICK place \in {"store", "version"} : Goto(r, place)
        BY <1>6, <2>3 DEF Insert
      <3>2. Latest' = Latest /\ active' = active
        BY <1>6, <2>3 DEF Insert, Latest
      <3>3. RaceOK => active = Latest
        <4>1. pc[r] # "point"
          BY <1>6 DEF Insert
        <4> QED
          BY <2>1, <4>1, OneBusy DEF RaceOK, Busy
      <3> QED
        BY <1>1, <2>1, <3>1, <3>2, <3>3, GotoRace
    <2> QED
      BY <2>2, <2>3
  <1>7. ASSUME NEW r \in Requests, Update(r) PROVE RaceInv'
    <2>1. copy'[r] = active
      BY <1>1, <1>7 DEF Update, TypeOK
    <2> QED
      BY <1>1, <1>7, <2>1, BeginRace DEF Update
  <1>9. ASSUME NEW r \in Requests, Rollback(r) PROVE RaceInv'
    BY <1>1, <1>9, BeginRace DEF Rollback
  <1>10. ASSUME NEW r \in Busy, pc[r] # "point", RaceOK PROVE active = Latest
    BY <1>10, OneBusy DEF RaceOK, Busy
  <1>8. ASSUME NEW r \in Requests, Save(r) PROVE RaceInv'
    <2>1. r \in Busy /\ active' = copy[r] /\ UNCHANGED revs /\ pc[r] = "save"
      BY <1>8 DEF Save, Busy
    <2>2. PICK place \in {"version", "audit"} : Goto(r, place)
      BY <1>8 DEF Save
    <2>3. RaceOK => active' = Latest'
      BY <1>10, <2>1 DEF RaceOK, Latest
    <2> QED
      BY <1>1, <2>1, <2>2, <2>3, GotoRace
  <1>11. ASSUME NEW r \in Requests, Pick(r) PROVE RaceInv'
    <2>1. r \in Busy /\ pc[r] = "pick"
      BY <1>11 DEF Pick, Busy
    <2>2. CASE Fail(r)
      BY <1>4, <2>1, <2>2
    <2>3. CASE Goto(r, "version") /\ UNCHANGED rows
      <3>1. Latest' = Latest /\ active' = active
        BY <2>3 DEF rows, Latest
      <3> QED
        BY <1>1, <1>10, <2>1, <2>3, <3>1, GotoRace
    <2> QED
      BY <1>11, <2>2, <2>3 DEF Pick
  <1>12. ASSUME NEW r \in Requests, NextVersion(r) PROVE RaceInv'
    <2>1. r \in Busy /\ pc[r] = "version" /\ Goto(r, "store") /\ UNCHANGED rows
      BY <1>12 DEF NextVersion, Busy
    <2>2. Latest' = Latest /\ active' = active
      BY <2>1 DEF rows, Latest
    <2> QED
      BY <1>1, <1>10, <2>1, <2>2, GotoRace
  <1>13. ASSUME NEW r \in Requests, Store(r) PROVE RaceInv'
    <2>1. r \in Busy /\ pc[r] = "store"
      BY <1>13 DEF Store, Busy
    <2>2. CASE Fail(r)
      BY <1>4, <2>1, <2>2
    <2>3. CASE base[r] \notin DOMAIN revs
      <3>1. base[r] = n + 1 /\ DOMAIN revs = 1..n
        BY <1>1, <1>2, <2>1, <2>3 DEF LogOK, PlaceOK
      <3>2. DOMAIN revs' = 1..(n + 1)
        <4>1. DOMAIN revs' = DOMAIN revs \cup {base[r]}
          BY <1>13, <2>3 DEF Store
        <4> QED
          BY <3>1, <4>1
      <3>3. Latest' = n + 1
        <4>1. n + 1 \in DOMAIN revs' /\ \A u \in DOMAIN revs' : u <= n + 1
          BY <3>2
        <4>2. ASSUME NEW v \in DOMAIN revs', \A u \in DOMAIN revs' : u <= v PROVE v = n + 1
          <5>1. v \in Nat /\ v <= n + 1 /\ n + 1 <= v
            BY <3>2, <4>1, <4>2
          <5> QED
            BY <5>1
        <4> QED
          BY <4>1, <4>2 DEF Latest
      <3>4. Goto(r, "point") /\ copy'[r] = n + 1
        BY <1>1, <1>13, <2>3, <3>1 DEF Store, TypeOK
      <3> QED
        BY <1>1, <2>1, <3>3, <3>4, GotoRace
    <2> QED
      BY <1>13, <2>2, <2>3 DEF Store
  <1>14. ASSUME NEW r \in Requests, Point(r) PROVE RaceInv'
    <2>1. r \in Busy /\ pc[r] = "point" /\ Goto(r, "audit") /\ active' = copy[r] /\ UNCHANGED revs
      BY <1>14 DEF Point, Busy
    <2>2. RaceOK => active' = Latest'
      BY <1>14, <2>1 DEF RaceOK, Latest
    <2> QED
      BY <1>1, <2>1, <2>2, GotoRace
  <1>15. ASSUME NEW r \in Requests, Audit(r) PROVE RaceInv'
    BY <1>1, <1>15, EndRace DEF Audit, Busy
  <1>16. ASSUME NEW r \in Requests, Stop(r) PROVE RaceInv'
    BY <1>4, <1>16 DEF Stop
  <1> QED
    BY <1>3, <1>5, <1>6, <1>7, <1>8, <1>9, <1>11, <1>12, <1>13, <1>14, <1>15, <1>16 DEF Next

LEMMA InitRace == Init => RaceInv
  <1> SUFFICES ASSUME Init PROVE RaceOK
    BY DEF RaceInv
  <1>1. Latest = 0
    BY LatestIs, DOMAIN revs = 1..0 DEF Init
  <1> QED
    BY <1>1 DEF Init, RaceOK, Busy

-----------------------------------------------------------------------------
(* The properties                                                            *)

RevisionsInv == LogInv /\ CalmInv /\ RaceInv

LEMMA RevisionsAlways == Spec => []RevisionsInv
  <1>1. Init => RevisionsInv
    BY InitLog, InitCalm, InitRace DEF RevisionsInv
  <1>2. RevisionsInv /\ [Next]_vars => RevisionsInv'
    BY LogStep, CalmStep, RaceStep DEF RevisionsInv
  <1> QED
    BY <1>1, <1>2, PTL DEF Spec

\* The state keeps its shape.
THEOREM TypeCorrect == Spec => []TypeOK
  <1>1. RevisionsInv => TypeOK
    BY DEF RevisionsInv, LogInv
  <1> QED
    BY <1>1, RevisionsAlways, PTL

\* However requests overlap and wherever they stop, a request that was answered
\* has its revision, with its text, under a version that no other request has
\* (unique_together of ParserRevision, _create_revision), and a revision made by
\* a rollback has the text of the earlier one that it names (rollback).
THEOREM RevisionsKept == Spec => []RevisionsAreKept
  <1>1. RevisionsInv => OwnersKeepRevisions
    BY DEF RevisionsInv, LogInv, PlaceOK, Owns, Inserted, OwnersKeepRevisions
  <1>2. RevisionsInv => RollbackKeepsText
    BY DEF RevisionsInv, LogInv
  <1> QED
    BY <1>1, <1>2, RevisionsAlways, PTL DEF RevisionsAreKept

\* A change that nothing overlapped and that was answered is in force, whatever
\* races and failures went before it (update, _create_revision), and the latest
\* audit entry names it (perform_create, perform_update, rollback).
THEOREM AnswersStand == Spec => []AnswerStands
  <1>1. RevisionsInv => AnswerStands
    BY DEF RevisionsInv, CalmInv, AnswerStands
  <1> QED
    BY <1>1, RevisionsAlways, PTL

\* As long as requests never overlapped and none stopped between the insert and
\* the save of active_revision, the newest revision is in force or about to be.
THEOREM NewestUnlessRaced == Spec => []BehindIfRaced
  <1>1. RevisionsInv => BehindIfRaced
    BY DEF RevisionsInv, RaceInv, RaceOK, BehindIfRaced
  <1> QED
    BY <1>1, RevisionsAlways, PTL

-----------------------------------------------------------------------------
(* The log that readers see                                                  *)

Entry == [text: Texts, from: Nat]

Seen == [v \in DOMAIN revs |-> [text |-> revs[v].text, from |-> revs[v].from]]

LEMMA AppendIs ==
    ASSUME NEW S, NEW n \in Nat, NEW f \in [1..n -> S], NEW e \in S
    PROVE  Append(f, e) = [i \in 1..(n + 1) |-> IF i = n + 1 THEN e ELSE f[i]]
  <1>1. f \in Seq(S) /\ Len(f) = n
    OBVIOUS
  <1> DEFINE g == Append(f, e)
  <1>2. /\ g \in Seq(S) /\ Len(g) = n + 1
        /\ \A i \in 1..n : g[i] = f[i]
        /\ g[n + 1] = e
    BY <1>1, AppendProperties
  <1>3. g \in [1..(n + 1) -> S]
    <2>1. g \in [1..Len(g) -> S]
      BY <1>2, LenProperties
    <2> QED
      BY <1>2, <2>1
  <1>4. \A i \in 1..(n + 1) : g[i] = IF i = n + 1 THEN e ELSE f[i]
    BY <1>2
  <1> HIDE DEF g
  <1>5. g = [i \in 1..(n + 1) |-> IF i = n + 1 THEN e ELSE f[i]]
    BY <1>3, <1>4
  <1> QED
    BY <1>5 DEF g

LEMMA SeenIs ==
    ASSUME LogInv, NEW n \in Nat, LogOK(n)
    PROVE  Seen \in [1..n -> Entry] /\ DOMAIN Seen = DOMAIN revs
  <1>1. DOMAIN revs = 1..n
    BY DEF LogOK
  <1>2. \A v \in DOMAIN revs : revs[v].text \in Texts /\ revs[v].from \in Nat
    BY DEF LogInv, TypeOK
  <1> QED
    BY <1>1, <1>2 DEF Seen, Entry

LEMMA StoreAppends ==
    ASSUME LogInv, NEW n \in Nat, LogOK(n), NEW r \in Requests, Store(r), base[r] \notin DOMAIN revs
    PROVE  Seen' = Append(Seen, [text |-> want[r], from |-> from[r]])
  <1>1. base[r] = n + 1 /\ DOMAIN revs = 1..n /\ want[r] \in Texts /\ from[r] \in Nat
    BY DEF LogInv, LogOK, PlaceOK, Store, TypeOK
  <1>2. /\ DOMAIN revs' = DOMAIN revs \cup {base[r]}
        /\ revs'[base[r]] = [text |-> want[r], from |-> from[r], by |-> r]
        /\ \A v \in DOMAIN revs : revs'[v] = revs[v]
    BY DEF Store
  <1>3. DOMAIN revs' = 1..(n + 1)
    BY <1>1, <1>2
  <1> DEFINE e == [text |-> want[r], from |-> from[r]]
  <1>4. e \in Entry
    BY <1>1 DEF Entry
  <1>5. Append(Seen, e) = [i \in 1..(n + 1) |-> IF i = n + 1 THEN e ELSE Seen[i]]
    BY <1>4, SeenIs, AppendIs
  <1>6. Seen' = [i \in 1..(n + 1) |-> [text |-> revs'[i].text, from |-> revs'[i].from]]
    BY <1>3 DEF Seen
  <1>7. ASSUME NEW i \in 1..(n + 1)
        PROVE  [text |-> revs'[i].text, from |-> revs'[i].from] = IF i = n + 1 THEN e ELSE Seen[i]
    <2>1. CASE i = n + 1
      BY <1>1, <1>2, <2>1
    <2>2. CASE i # n + 1
      BY <1>1, <1>2, <2>2 DEF Seen
    <2> QED
      BY <2>1, <2>2
  <1>8. Seen' = [i \in 1..(n + 1) |-> IF i = n + 1 THEN e ELSE Seen[i]]
    BY <1>6, <1>7
  <1> QED
    BY <1>5, <1>8

LEMMA KeepsLogStep ==
    ASSUME LogInv, [Next]_vars
    PROVE  [Log!Next]_(Log!vars)
  <1>1. PICK n \in Nat : LogOK(n)
    BY DEF LogInv
  <1>2. DOMAIN Seen = DOMAIN revs /\ DOMAIN revs = 1..n
    BY <1>1, SeenIs DEF LogOK
  <1>3. ASSUME UNCHANGED revs, active' \in 0..n PROVE [Log!Next]_(Log!vars)
    <2>1. Seen' = Seen
      BY <1>3 DEF Seen
    <2>2. Log!Apply(active')
      BY <2>1 DEF Log!Apply, Seen
    <2>3. active' \in {0} \cup DOMAIN Seen
      BY <1>2, <1>3
    <2> QED
      BY <2>2, <2>3 DEF Log!Next, Seen
  <1>4. ASSUME NEW r \in Requests, Store(r), base[r] \notin DOMAIN revs PROVE Log!Next
    <2>1. Seen' = Append(Seen, [text |-> want[r], from |-> from[r]]) /\ active' = active
      BY <1>1, <1>4, StoreAppends DEF Store
    <2>2. PlaceOK(r) /\ SourceOK(r) /\ pc[r] = "store"
      BY <1>4 DEF LogInv, Store
    <2>3. CASE from[r] = 0
      <3>1. want[r] \in Texts
        BY <2>2 DEF PlaceOK
      <3>2. \E text \in Texts : Log!Publish(text)
        BY <2>1, <2>3, <3>1 DEF Log!Publish, Seen
      <3> QED
        BY <3>2 DEF Log!Next
    <2>4. CASE from[r] # 0
      <3>1. from[r] \in DOMAIN revs /\ want[r] = revs[from[r]].text
        BY <2>2, <2>4 DEF SourceOK
      <3>2. from[r] \in DOMAIN Seen /\ Seen[from[r]].text = want[r]
        BY <3>1 DEF Seen
      <3>3. \E v \in DOMAIN Seen : Log!Restore(v)
        BY <2>1, <3>2 DEF Log!Restore, Seen
      <3> QED
        BY <3>3 DEF Log!Next, Seen
    <2> QED
      BY <2>3, <2>4
  <1>5. CASE UNCHANGED vars
    BY <1>1, <1>3, <1>5 DEF vars, rows, LogOK
  <1>6. ASSUME NEW r \in Requests, Fail(r) PROVE [Log!Next]_(Log!vars)
    BY <1>1, <1>3, <1>6 DEF Fail, rows, LogOK
  <1>7. ASSUME NEW r \in Requests, Create(r) \/ Update(r) \/ Rollback(r)
        PROVE  [Log!Next]_(Log!vars)
    <2>1. UNCHANGED rows
      BY <1>7 DEF Create, Update, Rollback, Begin
    <2> QED
      BY <1>1, <1>3, <2>1 DEF rows, LogOK
  <1>8. ASSUME NEW r \in Requests, Insert(r) \/ Pick(r) PROVE [Log!Next]_(Log!vars)
    <2>1. Fail(r) \/ (UNCHANGED <<revs, active>>)
      BY <1>8 DEF Insert, Pick, rows
    <2> QED
      BY <1>1, <1>3, <1>6, <2>1 DEF LogOK
  <1>9. ASSUME NEW r \in Requests, NextVersion(r) \/ Audit(r) PROVE [Log!Next]_(Log!vars)
    <2>1. UNCHANGED <<revs, active>>
      BY <1>9 DEF NextVersion, Audit, rows
    <2> QED
      BY <1>1, <1>3, <2>1 DEF LogOK
  <1>10. ASSUME NEW r \in Requests, Save(r) \/ Point(r) PROVE [Log!Next]_(Log!vars)
    <2>1. UNCHANGED revs /\ active' = copy[r]
      BY <1>10 DEF Save, Point
    <2> QED
      BY <1>1, <1>3, <2>1 DEF LogOK
  <1>11. ASSUME NEW r \in Requests, Store(r) PROVE [Log!Next]_(Log!vars)
    BY <1>4, <1>6, <1>11 DEF Store
  <1>12. ASSUME NEW r \in Requests, Stop(r) PROVE [Log!Next]_(Log!vars)
    BY <1>6, <1>12 DEF Stop
  <1> QED
    BY <1>5, <1>7, <1>8, <1>9, <1>10, <1>11, <1>12 DEF Next

LEMMA InitLogSeen == Init => Log!Init
  <1> SUFFICES ASSUME Init PROVE Seen = << >> /\ active = 0
    BY DEF Log!Init, Seen
  <1>1. DOMAIN revs = 1..0
    BY DEF Init
  <1>2. Seen \in [1..0 -> Entry]
    BY <1>1 DEF Seen
  <1>3. Seen \in Seq(Entry) /\ Len(Seen) = 0
    BY <1>2
  <1>4. Seen = << >>
    BY <1>3, EmptySeq
  <1> QED
    BY <1>4 DEF Init

\* In every interleaving of the requests, with any of them stopping anywhere,
\* readers see a log that only grows, without gaps, in which each text is new
\* or copied from an earlier revision, and what is in force is in it.
THEOREM KeepsLog == Spec => ImplementsLog
  BY InitLogSeen, KeepsLogStep, LogAlways, PTL DEF Spec, ImplementsLog, Log!Spec
=============================================================================
