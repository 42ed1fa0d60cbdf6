--------------------------- MODULE AlertTriageProofs ---------------------------
(* Proofs about AlertTriage: any number of writers, workers and recipients,    *)
(* any states of alerts, any bounds.                                           *)
EXTENDS AlertTriage, FiniteSetTheorems, TLAPS

\* What holds of a process by the place it is at: only bulk actions and events
\* have writes to commit, and only change_state has an entry to write.
PlaceOK ==
    \A p \in Procs :
        /\ pc[p] \in {"lookup", "upsert"} => at[p] \in Users
        /\ pc[p] = "audit" => kind[p] = "change"
        /\ pc[p] = "commit" => InTx(kind[p])
        /\ ~InTx(kind[p]) \/ pc[p] \in {"idle", "save", "end"} => DOMAIN writes[p] = {}

PlaceInv == TypeOK /\ PlaceOK

-----------------------------------------------------------------------------
(* Rows of notifications                                                     *)

\* A table of notifications with ids up to n.
IsTable(t, n) == DOMAIN t \subseteq 1..n /\ \A i \in DOMAIN t : t[i] \in Notes

LEMMA OverTable ==
    ASSUME NEW n, NEW f, NEW g, IsTable(f, n), IsTable(g, n)
    PROVE  IsTable(Over(f, g), n)
  BY DEF IsTable, Over

LEMMA TableGrows ==
    ASSUME NEW t, NEW n \in Nat, NEW m \in Nat, n <= m, IsTable(t, n)
    PROVE  IsTable(t, m)
  BY DEF IsTable

LEMMA NothingTable == \A n : DOMAIN Nothing = {} /\ IsTable(Nothing, n)
  BY DEF Nothing, IsTable

LEMMA NoteType == \A u \in Users, a \in BOOLEAN : Note(u, a) \in Notes
  BY DEF Note, Notes

LEMMA UsersNat == NUsers \in Nat \ {0} /\ Users = 1..NUsers
  BY BoundsAssumption DEF Users

\* The tables of a state of the right type.
LEMMA Tables ==
    ASSUME TypeOK
    PROVE  /\ made \in Nat /\ IsTable(notes, made) /\ DOMAIN writes = Procs
           /\ \A p \in Procs : IsTable(writes[p], made) /\ IsTable(Seen(p), made)
  BY OverTable DEF TypeOK, IsTable, Seen

\* A statement keeps the tables' type when its rows have it.
LEMMA StoreTable ==
    ASSUME TypeOK, NEW p \in Procs, NEW m \in Nat, made <= m,
           NEW rows, IsTable(rows, m), Store(p, rows)
    PROVE  /\ IsTable(notes', m) /\ DOMAIN writes' = Procs
           /\ \A q \in Procs : IsTable(writes'[q], m)
  <1>1. IsTable(notes, m) /\ \A q \in Procs : IsTable(writes[q], m)
    BY Tables, TableGrows
  <1>2. CASE InTx(kind[p])
    BY <1>1, <1>2, Tables, OverTable DEF Store
  <1>3. CASE ~InTx(kind[p])
    BY <1>1, <1>3, Tables, OverTable DEF Store
  <1>. QED BY <1>2, <1>3

-----------------------------------------------------------------------------
(* Type correctness                                                          *)

LEMMA MergedType ==
    ASSUME NEW k, NEW inst \in Contents, NEW row \in Contents
    PROVE  Merged(k, inst, row) \in Contents
  BY DEF Merged, Contents

LEMMA AfterSignalPlace == \A k : AfterSignal(k) \in {"commit", "audit", "end"}
  BY DEF AfterSignal

LEMMA InitPlace == Init => PlaceInv
  <1>. SUFFICES ASSUME Init PROVE PlaceInv
    OBVIOUS
  <1>0. [state |-> FirstState, severity |-> "other"] \in Contents
    BY StatesAssumption DEF Contents
  <1>1. made \in Nat /\ IsTable(notes, made)
    <2>1. made \in 0..NUsers /\ notes = [i \in 1..made |-> Note(i, TRUE)]
      BY UsersNat DEF Init
    <2>2. \A i \in 1..made : i \in Users
      BY <2>1, UsersNat
    <2>3. \A i \in 1..made : Note(i, TRUE) \in Notes
      BY <2>2, NoteType
    <2>4. DOMAIN notes = 1..made /\ \A i \in DOMAIN notes : notes[i] \in Notes
      BY <2>1, <2>3
    <2>5. made \in Nat
      BY <2>1, UsersNat
    <2>6. IsTable(notes, made)
      BY <2>4 DEF IsTable
    <2>. QED BY <2>5, <2>6
  <1>2. audit \in Seq([old: States, new: States])
    <2>1. << >> \in Seq([old: States, new: States])
      OBVIOUS
    <2>. QED BY <2>1 DEF Init
  <1>3. DOMAIN writes = Procs /\ \A p \in Procs : IsTable(writes[p], made) /\ DOMAIN writes[p] = {}
    BY NothingTable DEF Init
  <1>4. TypeOK
    <2>1. alert \in Contents /\ holder \in Procs \cup {Nobody} /\ iocs \in Nat /\ wants \subseteq Users
      BY DEF Init
    <2>2. pc \in [Procs -> Places] /\ kind \in [Procs -> Kinds]
      BY DEF Init, Places, Kinds
    <2>3. copy \in [Procs -> Contents] /\ before \in [Procs -> States]
      BY <1>0, StatesAssumption DEF Init
    <2>4. at \in [Procs -> 0..NUsers] /\ found \in [Procs -> 0..made]
      BY <1>1, UsersNat DEF Init
    <2>5. changes \in Nat /\ lost \in Nat
      BY DEF Init
    <2>. QED BY <1>1, <1>2, <1>3, <2>1, <2>2, <2>3, <2>4, <2>5 DEF TypeOK, IsTable
  <1>5. PlaceOK
    BY <1>3 DEF Init, PlaceOK
  <1>. QED BY <1>4, <1>5 DEF PlaceInv

\* One lemma per action.
LEMMA StartPlace ==
    ASSUME PlaceInv, NEW p \in Procs, NEW k \in Kinds, NEW inst \in Contents,
           pc[p] = "idle", iocs' \in Nat, Start(p, k, inst)
    PROVE  PlaceInv'
  <1>. USE DEF PlaceInv
  <1>1. TypeOK'
    <2>1. pc' \in [Procs -> Places] /\ kind' \in [Procs -> Kinds]
      BY DEF TypeOK, Start, Places
    <2>2. copy' \in [Procs -> Contents] /\ before' \in [Procs -> States]
      BY DEF TypeOK, Start, Contents
    <2>. QED BY <2>1, <2>2 DEF TypeOK, Start, NoteStart, tables
  <1>2. PlaceOK'
    BY DEF PlaceOK, TypeOK, Start
  <1>. QED BY <1>1, <1>2

LEMMA SavePlace ==
    ASSUME PlaceInv, NEW p \in Procs, Save(p)
    PROVE  PlaceInv'
  <1>. USE DEF PlaceInv
  <1>1. TypeOK'
    <2>1. pc' \in [Procs -> Places] /\ at' \in [Procs -> 0..NUsers]
      BY UsersNat DEF TypeOK, Save, Places
    <2>2. Merged(kind[p], copy[p], alert) \in Contents
      BY MergedType DEF TypeOK
    <2>3. alert' \in Contents /\ holder' \in Procs \cup {Nobody} /\ iocs' \in Nat
      BY <2>2 DEF TypeOK, Save
    <2>4. changes' \in Nat /\ lost' \in Nat
      BY DEF TypeOK, Save, NoteWrite, seen
    <2>. QED BY <2>1, <2>3, <2>4 DEF TypeOK, Save
  <1>2. PlaceOK'
    BY UsersNat DEF PlaceOK, TypeOK, Save
  <1>. QED BY <1>1, <1>2

LEMMA DeactivatePlace ==
    ASSUME PlaceInv, NEW p \in Procs, Deactivate(p)
    PROVE  PlaceInv'
  <1>. USE DEF PlaceInv
  <1>. DEFINE rows == [i \in DOMAIN Seen(p) |-> Note(Seen(p)[i].user, FALSE)]
  <1>1. IsTable(rows, made)
    <2>1. \A i \in DOMAIN Seen(p) : Seen(p)[i].user \in Users
      BY Tables DEF IsTable, Notes
    <2>. QED BY <2>1, Tables, NoteType DEF IsTable
  <1>2. IsTable(notes', made) /\ DOMAIN writes' = Procs /\ \A q \in Procs : IsTable(writes'[q], made)
    <2>1. Store(p, rows) /\ made \in Nat
      BY Tables DEF Deactivate
    <2>. HIDE DEF rows
    <2>. QED BY <1>1, <2>1, StoreTable
  <1>3. pc' \in [Procs -> Places]
    BY AfterSignalPlace DEF TypeOK, Deactivate, Places
  <1>4. TypeOK'
    BY <1>2, <1>3 DEF TypeOK, Deactivate, IsTable, seen
  <1>5. PlaceOK'
    BY DEF PlaceOK, TypeOK, Deactivate, Store, AfterSignal, InTx, Kinds
  <1>. QED BY <1>4, <1>5

\* The place after a recipient.
LEMMA AdvancePlace ==
    ASSUME PlaceInv, NEW p \in Procs, pc[p] \in {"lookup", "upsert"}, Advance(p)
    PROVE  /\ pc' = [pc EXCEPT ![p] = pc'[p]] /\ at' = [at EXCEPT ![p] = at'[p]]
           /\ pc'[p] \in {"lookup", "commit", "audit", "end"} /\ at'[p] \in 0..NUsers
           /\ pc'[p] = "lookup" => at'[p] \in Users
           /\ pc'[p] = "audit" => kind[p] = "change"
           /\ pc'[p] = "commit" => InTx(kind[p])
           /\ pc'[p] = "end" => ~InTx(kind[p])
  <1>1. at[p] \in Users
    BY DEF PlaceInv, PlaceOK
  <1>2. CASE at[p] < NUsers
    BY <1>1, <1>2, UsersNat DEF PlaceInv, TypeOK, Advance
  <1>3. CASE ~(at[p] < NUsers)
    <2>1. pc' = [pc EXCEPT ![p] = AfterSignal(kind[p])] /\ at' = [at EXCEPT ![p] = 0]
      BY <1>3 DEF Advance
    <2>. QED BY <2>1, UsersNat DEF PlaceInv, TypeOK, AfterSignal
  <1>. QED BY <1>2, <1>3

LEMMA LookupPlace ==
    ASSUME PlaceInv, NEW p \in Procs, Lookup(p)
    PROVE  PlaceInv'
  <1>. USE DEF PlaceInv
  <1>1. CASE at[p] \in wants
    <2>1. Mine(p) \subseteq 0..made
      <3>1. DOMAIN Seen(p) \subseteq 1..made /\ made \in Nat
        BY Tables DEF IsTable
      <3>. QED BY <3>1 DEF Mine
    <2>2. found' \in [Procs -> 0..made]
      <3>1. \E i \in Mine(p) \cup {0} : found' = [found EXCEPT ![p] = i]
        BY <1>1 DEF Lookup
      <3>2. 0 \in 0..made /\ found \in [Procs -> 0..made]
        BY DEF TypeOK
      <3>. QED BY <2>1, <3>1, <3>2
    <2>3. pc' = [pc EXCEPT ![p] = "upsert"] /\ at' = at
      BY <1>1 DEF Lookup
    <2>4. TypeOK'
      BY <2>2, <2>3 DEF TypeOK, Lookup, Places, tables, seen
    <2>5. PlaceOK'
      BY <2>3 DEF PlaceOK, TypeOK, Lookup
    <2>. QED BY <2>4, <2>5
  <1>2. CASE at[p] \notin wants
    <2>1. Advance(p) /\ pc[p] = "lookup" /\ found' = found
      BY <1>2 DEF Lookup
    <2>2. TypeOK'
      BY <2>1, AdvancePlace DEF TypeOK, Lookup, Places, tables, seen
    <2>3. PlaceOK'
      BY <2>1, AdvancePlace DEF PlaceOK, TypeOK, Lookup
    <2>. QED BY <2>2, <2>3
  <1>. QED BY <1>1, <1>2

LEMMA UpsertPlace ==
    ASSUME PlaceInv, NEW p \in Procs, Upsert(p)
    PROVE  PlaceInv'
  <1>. USE DEF PlaceInv
  <1>. DEFINE i == IF found[p] = 0 THEN made + 1 ELSE found[p]
              rows == [j \in {i} |-> Note(at[p], TRUE)]
  <1>0. pc[p] = "upsert" /\ Advance(p) /\ at[p] \in Users
    BY DEF Upsert, PlaceOK
  <1>1. made' \in Nat /\ made <= made' /\ i \in 1..made'
    BY DEF TypeOK, Upsert
  <1>2. IsTable(rows, made')
    BY <1>0, <1>1, NoteType DEF IsTable
  <1>3. IsTable(notes', made') /\ DOMAIN writes' = Procs /\ \A q \in Procs : IsTable(writes'[q], made')
    <2>1. Store(p, rows)
      BY DEF Upsert
    <2>. HIDE DEF rows
    <2>. QED BY <1>1, <1>2, <2>1, StoreTable
  <1>4. found' \in [Procs -> 0..made']
    BY <1>1 DEF TypeOK, Upsert
  <1>5. TypeOK'
    BY <1>0, <1>1, <1>3, <1>4, AdvancePlace DEF TypeOK, Upsert, Places, IsTable, seen
  <1>6. PlaceOK'
    <2>1. \A q \in Procs : ~InTx(kind[q]) => DOMAIN writes'[q] = DOMAIN writes[q]
      BY DEF Upsert, Store, TypeOK
    <2>2. \A q \in Procs \ {p} : writes'[q] = writes[q]
      BY DEF Upsert, Store, TypeOK
    <2>. QED BY <1>0, <2>1, <2>2, AdvancePlace DEF PlaceOK, TypeOK, Upsert
  <1>. QED BY <1>5, <1>6

LEMMA EntryType ==
    ASSUME TypeOK, NEW p \in Procs
    PROVE  Append(audit, Entry(p)) \in Seq([old: States, new: States])
  <1>1. Entry(p) \in [old: States, new: States]
    BY DEF TypeOK, Entry, Contents
  <1>. QED BY <1>1 DEF TypeOK

LEMMA AuditPlace ==
    ASSUME PlaceInv, NEW p \in Procs, Audit(p)
    PROVE  PlaceInv'
  <1>. USE DEF PlaceInv
  <1>1. pc' = [pc EXCEPT ![p] = "end"] /\ pc[p] = "audit"
    BY DEF Audit
  <1>2. TypeOK'
    BY <1>1, EntryType DEF TypeOK, Audit, Places, seen
  <1>3. PlaceOK'
    BY <1>1 DEF PlaceOK, TypeOK, Audit, InTx
  <1>. QED BY <1>2, <1>3

LEMMA CommitPlace ==
    ASSUME PlaceInv, NEW p \in Procs, Commit(p)
    PROVE  PlaceInv'
  <1>. USE DEF PlaceInv
  <1>1. pc' = [pc EXCEPT ![p] = "end"] /\ writes' = [writes EXCEPT ![p] = Nothing]
    BY DEF Commit
  <1>2. audit' \in Seq([old: States, new: States])
    BY EntryType DEF TypeOK, Commit
  <1>3. IsTable(notes', made) /\ DOMAIN writes' = Procs /\ \A q \in Procs : IsTable(writes'[q], made)
    BY <1>1, Tables, OverTable, NothingTable DEF Commit
  <1>4. Merged(kind[p], copy[p], alert) \in Contents
    BY MergedType DEF TypeOK
  <1>5. changes' \in Nat /\ lost' \in Nat
    BY DEF TypeOK, Commit, NoteWrite
  <1>6. pc' \in [Procs -> Places] /\ holder' \in Procs \cup {Nobody}
    BY <1>1 DEF TypeOK, Commit, Places
  <1>7. TypeOK'
    BY <1>2, <1>3, <1>4, <1>5, <1>6 DEF TypeOK, Commit, IsTable
  <1>8. PlaceOK'
    BY <1>1, NothingTable DEF PlaceOK, TypeOK, Commit
  <1>. QED BY <1>7, <1>8

\* A process that is free again, by End or by Stop.
LEMMA ResetPlace ==
    ASSUME PlaceInv, NEW p \in Procs, Reset(p),
           UNCHANGED <<alert, notes, made, audit, iocs, wants, changes>>,
           holder' \in Procs \cup {Nobody}, lost' \in Nat
    PROVE  PlaceInv'
  <1>. USE DEF PlaceInv
  <1>1. [state |-> FirstState, severity |-> "other"] \in Contents
    BY StatesAssumption DEF Contents
  <1>2. pc' \in [Procs -> Places] /\ kind' \in [Procs -> Kinds] /\ found' \in [Procs -> 0..made]
    BY DEF TypeOK, Reset, Places, Kinds
  <1>3. copy' \in [Procs -> Contents] /\ before' \in [Procs -> States] /\ at' \in [Procs -> 0..NUsers]
    BY <1>1, StatesAssumption, UsersNat DEF TypeOK, Reset
  <1>4. DOMAIN writes' = Procs /\ \A q \in Procs : IsTable(writes'[q], made)
    BY Tables, NothingTable DEF Reset
  <1>5. TypeOK'
    BY <1>2, <1>3, <1>4 DEF TypeOK, IsTable
  <1>6. PlaceOK'
    BY NothingTable DEF PlaceOK, TypeOK, Reset
  <1>. QED BY <1>5, <1>6

LEMMA EndPlace ==
    ASSUME PlaceInv, NEW p \in Procs, End(p)
    PROVE  PlaceInv'
  BY ResetPlace DEF End, NoteEnd, tables, PlaceInv, TypeOK

LEMMA StopPlace ==
    ASSUME PlaceInv, NEW p \in Procs, Stop(p)
    PROVE  PlaceInv'
  BY ResetPlace DEF Stop, NoteEnd, PlaceInv, TypeOK

LEMMA PreferPlace ==
    ASSUME PlaceInv, NEW u \in Users, Prefer(u)
    PROVE  PlaceInv'
  BY DEF Prefer, PlaceInv, TypeOK, PlaceOK, tables, procs

LEMMA NextPlace == PlaceInv /\ [Next]_vars => PlaceInv'
  <1>. SUFFICES ASSUME PlaceInv, [Next]_vars PROVE PlaceInv'
    OBVIOUS
  <1>1. ASSUME NEW p \in Requests, Write(p) PROVE PlaceInv'
    BY <1>1, StartPlace DEF Write, PlaceInv, TypeOK, Procs
  <1>2. ASSUME NEW p \in Workers, TakeIocs(p) PROVE PlaceInv'
    <2>1. p \in Procs /\ "iocs" \in Kinds /\ alert \in Contents /\ iocs' \in Nat
      BY <1>2 DEF TakeIocs, PlaceInv, TypeOK, Procs, Kinds
    <2>. QED BY <1>2, <2>1, StartPlace DEF TakeIocs
  <1>3. ASSUME NEW p \in Procs, Step(p) PROVE PlaceInv'
    BY <1>3, SavePlace, DeactivatePlace, LookupPlace, UpsertPlace, AuditPlace, CommitPlace, EndPlace
    DEF Step
  <1>4. ASSUME NEW p \in Procs, Stop(p) PROVE PlaceInv'
    BY <1>4, StopPlace
  <1>5. ASSUME NEW u \in Users, Prefer(u) PROVE PlaceInv'
    BY <1>5, PreferPlace
  <1>6. CASE UNCHANGED vars
    BY <1>6 DEF vars, tables, procs, seen, PlaceInv, TypeOK, PlaceOK
  <1>. QED BY <1>1, <1>2, <1>3, <1>4, <1>5, <1>6 DEF Next

\* The state always has its type, and each process is at a place that its
\* kind of writer has.
THEOREM PlacesHold == Spec => []PlaceInv
  BY InitPlace, NextPlace, PTL DEF Spec

\* TypeOK: shape of the state, of every instance.
THEOREM TypeCorrect == Spec => []TypeOK
  BY PlacesHold, PTL DEF PlaceInv

-----------------------------------------------------------------------------
(* The audit log                                                             *)

AuditInv == PlaceInv /\ ChangesAreAudited

Owed == {"deactivate", "lookup", "upsert", "audit"}

LEMMA OwingFinite ==
    /\ IsFiniteSet(Owing) /\ Cardinality(Owing) \in Nat
    /\ \A p \in Procs \ Owing : Cardinality(Owing \cup {p}) = Cardinality(Owing) + 1
    /\ \A p \in Owing : Cardinality(Owing \ {p}) = Cardinality(Owing) - 1
  <1>1. IsFiniteSet(Procs)
    BY ProcsAssumption, FS_Union DEF Procs
  <1>2. IsFiniteSet(Owing)
    BY <1>1, FS_Subset DEF Owing
  <1>. QED BY <1>2, FS_CardinalityType, FS_AddElement, FS_RemoveElement

LEMMA OwingMember ==
    ASSUME NEW p \in Procs
    PROVE  p \in Owing <=> kind[p] = "change" /\ pc[p] \in Owed
  BY DEF Owing, Owed

\* A step of p that does not change what p owes, nor the log.
LEMMA OwesTheSame ==
    ASSUME AuditInv, NEW p \in Procs,
           \A q \in Procs \ {p} : pc'[q] = pc[q] /\ kind'[q] = kind[q],
           p \in Owing <=> (kind'[p] = "change" /\ pc'[p] \in Owed),
           UNCHANGED <<changes, audit, lost>>
    PROVE  ChangesAreAudited'
  <1>1. Owing' = Owing
    BY DEF Owing, Owed
  <1>. QED BY <1>1 DEF AuditInv, ChangesAreAudited

\* A step in which p settles what it owes: by the entry, or by stopping.
LEMMA OwesNoMore ==
    ASSUME AuditInv, NEW p \in Owing,
           \A q \in Procs \ {p} : pc'[q] = pc[q] /\ kind'[q] = kind[q],
           pc'[p] \notin Owed, changes' = changes,
           Len(audit') + lost' = Len(audit) + lost + 1
    PROVE  ChangesAreAudited'
  <1>1. Owing' = Owing \ {p}
    BY DEF Owing, Owed
  <1>2. Len(audit) \in Nat /\ lost \in Nat /\ changes \in Nat
    BY DEF AuditInv, PlaceInv, TypeOK
  <1>3. Cardinality(Owing') = Cardinality(Owing) - 1
    BY <1>1, OwingFinite
  <1>4. changes' = Len(audit') + lost' + Cardinality(Owing')
    <2>1. changes = Len(audit) + lost + Cardinality(Owing)
      BY DEF AuditInv, ChangesAreAudited
    <2>. QED BY <1>2, <1>3, <2>1, OwingFinite
  <1>. QED BY <1>4 DEF ChangesAreAudited

\* One lemma per action, again.
LEMMA StartAudited ==
    ASSUME AuditInv, NEW p \in Procs, NEW k \in Kinds, NEW inst, pc[p] = "idle", Start(p, k, inst)
    PROVE  ChangesAreAudited'
  <1>1. pc' = [pc EXCEPT ![p] = "save"] /\ kind' = [kind EXCEPT ![p] = k]
    BY DEF Start
  <1>2. p \notin Owing /\ pc'[p] \notin Owed
    BY <1>1, OwingMember DEF AuditInv, PlaceInv, TypeOK, Owed
  <1>. QED BY <1>1, <1>2, OwesTheSame DEF Start, NoteStart, tables

LEMMA SaveAudited ==
    ASSUME AuditInv, NEW p \in Procs, Save(p)
    PROVE  ChangesAreAudited'
  <1>1. /\ pc[p] = "save" /\ pc'[p] \in {"lookup", "deactivate"} /\ kind' = kind
        /\ \A q \in Procs \ {p} : pc'[q] = pc[q]
    BY DEF Save, AuditInv, PlaceInv, TypeOK
  <1>2. p \notin Owing /\ pc'[p] \in Owed
    BY <1>1, OwingMember DEF Owed
  <1>3. CASE kind[p] = "change"
    <2>1. Owing' = Owing \cup {p}
      BY <1>1, <1>2, <1>3 DEF Owing, Owed
    <2>2. changes' = changes + 1 /\ UNCHANGED <<audit, lost>>
      BY <1>3 DEF Save, InTx, NoteWrite, ChangeKinds
    <2>3. Len(audit) \in Nat /\ lost \in Nat /\ changes \in Nat
      BY DEF AuditInv, PlaceInv, TypeOK
    <2>4. Cardinality(Owing') = Cardinality(Owing) + 1
      BY <1>2, <2>1, OwingFinite
    <2>5. changes = Len(audit) + lost + Cardinality(Owing)
      BY DEF AuditInv, ChangesAreAudited
    <2>6. changes' = Len(audit') + lost' + Cardinality(Owing')
      BY <2>2, <2>3, <2>4, <2>5, OwingFinite
    <2>. QED BY <2>6 DEF ChangesAreAudited
  <1>4. CASE kind[p] # "change"
    <2>1. UNCHANGED <<changes, audit, lost>>
      BY <1>4 DEF Save, InTx, NoteWrite, ChangeKinds, seen
    <2>. QED BY <1>1, <1>2, <1>4, <2>1, OwesTheSame
  <1>. QED BY <1>3, <1>4

LEMMA SignalAudited ==
    ASSUME AuditInv, NEW p \in Procs, Deactivate(p) \/ Lookup(p) \/ Upsert(p)
    PROVE  ChangesAreAudited'
  <1>. USE DEF AuditInv
  <1>1. kind' = kind /\ UNCHANGED <<changes, audit, lost>> /\ pc[p] \in Owed
    BY DEF Deactivate, Lookup, Upsert, tables, seen, Owed
  <1>2. /\ \A q \in Procs \ {p} : pc'[q] = pc[q]
        /\ pc'[p] \in Owed \cup {"commit", "end"}
        /\ pc'[p] \in {"commit", "end"} => kind[p] # "change"
    <2>1. CASE Deactivate(p)
      BY <2>1 DEF Deactivate, AfterSignal, InTx, Owed, PlaceInv, TypeOK
    <2>2. CASE Upsert(p)
      BY <2>2, AdvancePlace DEF Upsert, InTx, Owed, PlaceInv, TypeOK, PlaceOK, Advance, AfterSignal
    <2>3. CASE Lookup(p) /\ at[p] \in wants
      BY <2>3 DEF Lookup, Owed, PlaceInv, TypeOK
    <2>4. CASE Lookup(p) /\ at[p] \notin wants
      BY <2>4 DEF Lookup, Owed, PlaceInv, TypeOK, Advance, AfterSignal, InTx
    <2>. QED BY <2>1, <2>2, <2>3, <2>4
  <1>. QED BY <1>1, <1>2, OwesTheSame, OwingMember

LEMMA AuditAudited ==
    ASSUME AuditInv, NEW p \in Procs, Audit(p)
    PROVE  ChangesAreAudited'
  <1>1. /\ pc[p] = "audit" /\ kind[p] = "change" /\ kind' = kind /\ pc'[p] = "end"
        /\ \A q \in Procs \ {p} : pc'[q] = pc[q]
    BY DEF AuditInv, PlaceInv, PlaceOK, TypeOK, Audit
  <1>2. p \in Owing /\ pc'[p] \notin Owed
    BY <1>1, OwingMember DEF Owed
  <1>3. Len(audit') + lost' = Len(audit) + lost + 1 /\ changes' = changes
    BY DEF AuditInv, PlaceInv, TypeOK, Audit, seen
  <1>. QED BY <1>1, <1>2, <1>3, OwesNoMore

LEMMA CommitAudited ==
    ASSUME AuditInv, NEW p \in Procs, Commit(p)
    PROVE  ChangesAreAudited'
  <1>1. /\ pc[p] = "commit" /\ InTx(kind[p]) /\ kind' = kind /\ pc'[p] = "end"
        /\ \A q \in Procs \ {p} : pc'[q] = pc[q]
    BY DEF AuditInv, PlaceInv, PlaceOK, TypeOK, Commit
  <1>2. Owing' = Owing
    BY <1>1 DEF Owing, InTx
  <1>3. Len(audit) \in Nat /\ lost \in Nat /\ changes \in Nat /\ lost' = lost
    BY DEF AuditInv, PlaceInv, TypeOK, Commit, NoteWrite
  <1>4. CASE kind[p] = "bulk"
    <2>1. changes' = changes + 1 /\ audit' = Append(audit, Entry(p))
      BY <1>4 DEF Commit, NoteWrite, ChangeKinds
    <2>2. Len(audit') = Len(audit) + 1
      BY <2>1 DEF AuditInv, PlaceInv, TypeOK
    <2>. QED BY <1>2, <1>3, <2>1, <2>2, OwingFinite DEF AuditInv, ChangesAreAudited
  <1>5. CASE kind[p] = "ingest"
    BY <1>2, <1>3, <1>5 DEF AuditInv, ChangesAreAudited, Commit, NoteWrite, ChangeKinds
  <1>. QED BY <1>1, <1>4, <1>5 DEF InTx

LEMMA EndAudited ==
    ASSUME AuditInv, NEW p \in Procs, End(p)
    PROVE  ChangesAreAudited'
  <1>1. p \notin Owing
    BY OwingMember DEF End, Owed
  <1>. QED BY <1>1, OwesTheSame DEF AuditInv, PlaceInv, TypeOK, End, Reset, NoteEnd, tables, Owed

LEMMA StopAudited ==
    ASSUME AuditInv, NEW p \in Procs, Stop(p)
    PROVE  ChangesAreAudited'
  <1>1. /\ \A q \in Procs \ {p} : pc'[q] = pc[q] /\ kind'[q] = kind[q]
        /\ pc'[p] = "idle" /\ changes' = changes /\ audit' = audit
        /\ lost' = IF p \in Owing THEN lost + 1 ELSE lost
    BY DEF AuditInv, PlaceInv, TypeOK, Stop, Reset, NoteEnd
  <1>2. pc'[p] \notin Owed /\ Len(audit) \in Nat /\ lost \in Nat
    BY <1>1 DEF AuditInv, PlaceInv, TypeOK, Owed
  <1>3. CASE p \in Owing
    BY <1>1, <1>2, <1>3, OwesNoMore
  <1>4. CASE p \notin Owing
    BY <1>1, <1>2, <1>4, OwesTheSame
  <1>. QED BY <1>3, <1>4

LEMMA NextAudited == AuditInv /\ [Next]_vars => AuditInv'
  <1>. SUFFICES ASSUME AuditInv, [Next]_vars PROVE ChangesAreAudited'
    BY NextPlace DEF AuditInv
  <1>1. ASSUME NEW p \in Requests, Write(p) PROVE ChangesAreAudited'
    BY <1>1, StartAudited DEF Write, Procs
  <1>2. ASSUME NEW p \in Workers, TakeIocs(p) PROVE ChangesAreAudited'
    BY <1>2, StartAudited DEF TakeIocs, Procs, Kinds
  <1>3. ASSUME NEW p \in Procs, Step(p) PROVE ChangesAreAudited'
    BY <1>3, SaveAudited, SignalAudited, AuditAudited, CommitAudited, EndAudited DEF Step
  <1>4. ASSUME NEW p \in Procs, Stop(p) PROVE ChangesAreAudited'
    BY <1>4, StopAudited
  <1>5. CASE (\E u \in Users : Prefer(u)) \/ UNCHANGED vars
    <2>1. UNCHANGED <<pc, kind, changes, audit, lost>>
      BY <1>5 DEF Prefer, vars, tables, procs, seen
    <2>2. Owing' = Owing
      BY <2>1 DEF Owing
    <2>. QED BY <2>1, <2>2 DEF AuditInv, ChangesAreAudited
  <1>. QED BY <1>1, <1>2, <1>3, <1>4, <1>5 DEF Next

LEMMA InitAudited == Init => AuditInv
  <1>. SUFFICES ASSUME Init PROVE ChangesAreAudited
    BY InitPlace DEF AuditInv
  <1>1. Owing = {}
    BY DEF Init, Owing
  <1>. QED BY <1>1, FS_EmptySet DEF Init, ChangesAreAudited

\* ChangesAreAudited: a committed change of state lacks its entry only while
\* its author is at work or because it stopped.
LEMMA EveryChangeAudited == Spec => []ChangesAreAudited
  <1>1. Spec => []AuditInv
    BY InitAudited, NextAudited, PTL DEF Spec
  <1>. QED BY <1>1, PTL DEF AuditInv

-----------------------------------------------------------------------------
(* Duplicated notifications                                                  *)

\* A table with one notification per recipient at most.
OneEach(t) == \A i, j \in DOMAIN t : t[i].user = t[j].user => i = j

\* While no executions overlapped: one is under way at most, no view of the
\* notifications has a duplicate, and what was looked up still holds.
Once ==
    /\ \A p, q \in Busy : p = q
    /\ OneEach(notes) /\ \A p \in Procs : OneEach(Seen(p))
    /\ \A p \in Procs : pc[p] = "upsert" =>
           IF found[p] = 0 THEN Mine(p) = {} ELSE found[p] \in Mine(p)

RaceInv == PlaceInv /\ (~raced => Once)

LEMMA OverNothing ==
    ASSUME NEW f, NEW g, DOMAIN f = {}
    PROVE  /\ DOMAIN Over(f, g) = DOMAIN g
           /\ \A i \in DOMAIN g : Over(f, g)[i] = g[i]
           /\ OneEach(g) => OneEach(Over(f, g))
  BY DEF Over, OneEach

LEMMA OverAssociates ==
    ASSUME NEW f, NEW g, NEW h
    PROVE  Over(Over(f, g), h) = Over(f, Over(g, h))
  BY DEF Over

\* No other process has rows to commit.
LEMMA Alone ==
    ASSUME PlaceInv, Once, NEW p \in Busy
    PROVE  \A q \in Procs \ {p} : pc[q] = "idle" /\ DOMAIN writes[q] = {}
  BY DEF Once, Busy, PlaceInv, PlaceOK

\* A statement of the only process under way.
LEMMA StoreOnce ==
    ASSUME PlaceInv, Once, NEW p \in Busy, NEW rows, Store(p, rows),
           OneEach(Over(rows, Seen(p)))
    PROVE  OneEach(notes') /\ \A q \in Procs : OneEach(Seen(q)')
  <1>0. p \in Procs /\ DOMAIN writes = Procs
    BY DEF Busy, PlaceInv, TypeOK
  <1>1. CASE InTx(kind[p])
    <2>1. notes' = notes /\ writes' = [writes EXCEPT ![p] = Over(rows, writes[p])]
      BY <1>1 DEF Store
    <2>2. Seen(p)' = Over(rows, Seen(p))
      BY <1>0, <2>1, OverAssociates DEF Seen
    <2>3. \A q \in Procs \ {p} : Seen(q)' = Seen(q)
      BY <1>0, <2>1 DEF Seen
    <2>. QED BY <2>1, <2>2, <2>3 DEF Once
  <1>2. CASE ~InTx(kind[p])
    <2>1. notes' = Over(rows, notes) /\ writes' = writes
      BY <1>2 DEF Store
    <2>2. \A q \in Procs : DOMAIN writes[q] = {}
      BY <1>0, <1>2, Alone DEF PlaceInv, PlaceOK
    <2>3. notes' = Over(rows, Seen(p))
      <3>1. DOMAIN Seen(p) = DOMAIN notes /\ \A i \in DOMAIN notes : Seen(p)[i] = notes[i]
        <4>. DEFINE w == writes[p]
        <4>1. DOMAIN w = {} /\ Seen(p) = Over(w, notes)
          BY <1>0, <2>2 DEF Seen
        <4>. HIDE DEF w
        <4>. QED BY <4>1, OverNothing
      <3>. QED BY <2>1, <3>1 DEF Over
    <2>4. \A q \in Procs : OneEach(Seen(q)')
      BY <2>1, <2>2, <2>3, OverNothing DEF Seen
    <2>. QED BY <2>3, <2>4
  <1>. QED BY <1>1, <1>2

\* A step that leaves the notifications alone.
LEMMA QuietOnce ==
    ASSUME PlaceInv, Once, NEW p \in Procs, UNCHANGED <<notes, writes, found>>,
           \A q \in Procs \ {p} : pc'[q] = pc[q] /\ at'[q] = at[q],
           pc[p] # "idle" \/ Busy = {} \/ pc'[p] = "idle", pc'[p] # "upsert"
    PROVE  Once'
  <1>1. \A q \in Procs : Seen(q)' = Seen(q)
    BY DEF Seen
  <1>2. \A q, r \in Busy' : q = r
    BY DEF Once, Busy
  <1>3. \A q \in Procs \ {p} : Mine(q)' = Mine(q)
    BY <1>1 DEF Mine
  <1>. QED BY <1>1, <1>2, <1>3 DEF Once

LEMMA StartOnce ==
    ASSUME RaceInv, NEW p \in Procs, NEW k \in Kinds, NEW inst, Start(p, k, inst), ~raced'
    PROVE  Once'
  <1>1. ~raced /\ Busy = {} /\ UNCHANGED <<notes, writes, found, at>>
    BY DEF Start, NoteStart, tables
  <1>2. pc'[p] = "save" /\ \A q \in Procs \ {p} : pc'[q] = pc[q]
    BY DEF Start, RaceInv, PlaceInv, TypeOK
  <1>. QED BY <1>1, <1>2, QuietOnce DEF RaceInv

LEMMA SaveOnce ==
    ASSUME PlaceInv, Once, NEW p \in Procs, Save(p)
    PROVE  Once'
  <1>1. /\ pc[p] = "save" /\ pc'[p] # "upsert" /\ UNCHANGED <<notes, writes, found>>
        /\ \A q \in Procs \ {p} : pc'[q] = pc[q] /\ at'[q] = at[q]
    BY DEF Save, PlaceInv, TypeOK
  <1>. QED BY <1>1, QuietOnce

LEMMA AuditOnce ==
    ASSUME PlaceInv, Once, NEW p \in Procs, Audit(p)
    PROVE  Once'
  <1>1. /\ pc[p] = "audit" /\ pc'[p] # "upsert" /\ UNCHANGED <<notes, writes, found>>
        /\ \A q \in Procs \ {p} : pc'[q] = pc[q] /\ at'[q] = at[q]
    BY DEF Audit, PlaceInv, TypeOK
  <1>. QED BY <1>1, QuietOnce

\* A step of p, the only process under way, that writes notifications.
LEMMA WriterOnce ==
    ASSUME PlaceInv, Once, NEW p \in Busy, NEW rows, Store(p, rows),
           OneEach(Over(rows, Seen(p))), pc'[p] # "upsert",
           \A q \in Procs \ {p} : pc'[q] = pc[q]
    PROVE  Once'
  <1>1. \A q, r \in Busy' : q = r
    BY Alone DEF Busy
  <1>2. \A q \in Procs : pc'[q] # "upsert"
    BY Alone DEF Busy
  <1>. QED BY <1>1, <1>2, StoreOnce DEF Once

LEMMA DeactivateOnce ==
    ASSUME PlaceInv, Once, NEW p \in Procs, Deactivate(p)
    PROVE  Once'
  <1>. DEFINE rows == [i \in DOMAIN Seen(p) |-> Note(Seen(p)[i].user, FALSE)]
  <1>1. OneEach(Over(rows, Seen(p)))
    <2>1. DOMAIN Over(rows, Seen(p)) = DOMAIN Seen(p)
      BY DEF Over
    <2>2. \A i \in DOMAIN Seen(p) : Over(rows, Seen(p))[i].user = Seen(p)[i].user
      BY DEF Over, Note
    <2>. QED BY <2>1, <2>2 DEF OneEach, Once
  <1>2. /\ p \in Busy /\ Store(p, rows) /\ pc'[p] # "upsert"
        /\ \A q \in Procs \ {p} : pc'[q] = pc[q]
    BY AfterSignalPlace DEF Deactivate, Busy, PlaceInv, TypeOK
  <1>. HIDE DEF rows
  <1>. QED BY <1>1, <1>2, WriterOnce

LEMMA LookupOnce ==
    ASSUME PlaceInv, Once, NEW p \in Procs, Lookup(p)
    PROVE  Once'
  <1>0. pc[p] = "lookup" /\ UNCHANGED <<notes, writes>>
    BY DEF Lookup, tables
  <1>1. CASE at[p] \in wants
    <2>1. /\ at' = at /\ pc' = [pc EXCEPT ![p] = "upsert"]
          /\ \A q \in Procs \ {p} : found'[q] = found[q]
      BY <1>1 DEF Lookup, PlaceInv, TypeOK
    <2>2. \A q \in Procs : Seen(q)' = Seen(q) /\ Mine(q)' = Mine(q)
      BY <1>0, <2>1 DEF Seen, Mine
    <2>3. IF found'[p] = 0 THEN Mine(p) = {} ELSE found'[p] \in Mine(p)
      <3>1. 0 \notin Mine(p)
        BY Tables DEF PlaceInv, IsTable, Mine
      <3>2. found \in [Procs -> 0..made]
        BY DEF PlaceInv, TypeOK
      <3>3. \/ Mine(p) = {} /\ found' = [found EXCEPT ![p] = 0]
            \/ \E i \in Mine(p) : found' = [found EXCEPT ![p] = i]
        BY <1>1 DEF Lookup
      <3>. QED BY <3>1, <3>2, <3>3
    <2>4. \A q, r \in Busy' : q = r
      BY <1>0, <2>1 DEF Once, Busy, PlaceInv, TypeOK
    <2>5. \A q \in Procs \ {p} : pc'[q] = pc[q]
      BY <2>1 DEF PlaceInv, TypeOK
    <2>. QED BY <1>0, <2>1, <2>2, <2>3, <2>4, <2>5 DEF Once
  <1>2. CASE at[p] \notin wants
    <2>1. Advance(p) /\ found' = found
      BY <1>2 DEF Lookup
    <2>2. pc'[p] # "upsert" /\ \A q \in Procs \ {p} : pc'[q] = pc[q] /\ at'[q] = at[q]
      BY <1>0, <2>1, AdvancePlace DEF PlaceInv, TypeOK
    <2>. QED BY <1>0, <2>1, <2>2, QuietOnce
  <1>. QED BY <1>1, <1>2

LEMMA UpsertOnce ==
    ASSUME PlaceInv, Once, NEW p \in Procs, Upsert(p)
    PROVE  Once'
  <1>. DEFINE i == IF found[p] = 0 THEN made + 1 ELSE found[p]
              rows == [j \in {i} |-> Note(at[p], TRUE)]
  <1>0. pc[p] = "upsert" /\ Advance(p) /\ Store(p, rows)
    BY DEF Upsert
  <1>1. OneEach(Over(rows, Seen(p)))
    <2>1. \A j \in DOMAIN Seen(p) : Seen(p)[j].user = at[p] => j = i
      <3>1. CASE found[p] = 0
        BY <1>0, <3>1 DEF Once, Mine
      <3>2. CASE found[p] # 0
        BY <1>0, <3>2 DEF Once, Mine, OneEach
      <3>. QED BY <3>1, <3>2
    <2>2. DOMAIN Over(rows, Seen(p)) = DOMAIN Seen(p) \cup {i}
      BY DEF Over
    <2>3. \A j \in DOMAIN Seen(p) \cup {i} :
              Over(rows, Seen(p))[j].user = IF j = i THEN at[p] ELSE Seen(p)[j].user
      BY DEF Over, Note
    <2>4. OneEach(Seen(p))
      BY DEF Once
    <2>. HIDE DEF rows, i
    <2>. QED BY <2>1, <2>2, <2>3, <2>4 DEF OneEach
  <1>2. /\ p \in Busy /\ pc'[p] # "upsert"
        /\ \A q \in Procs \ {p} : pc'[q] = pc[q]
    BY <1>0, AdvancePlace DEF Busy, PlaceInv, TypeOK
  <1>. HIDE DEF rows
  <1>. QED BY <1>0, <1>1, <1>2, WriterOnce

\* The rows of a process that ends are gone, or committed.
LEMMA ForgetOnce ==
    ASSUME PlaceInv, Once, NEW p \in Procs, OneEach(notes'),
           writes' = [writes EXCEPT ![p] = Nothing], pc'[p] \in {"idle", "end"},
           pc[p] # "idle",
           \A q \in Procs \ {p} : pc'[q] = pc[q]
    PROVE  Once'
  <1>0. p \in Busy
    BY DEF Busy
  <1>1. \A q, r \in Busy' : q = r
    BY <1>0, Alone DEF Busy
  <1>2. \A q \in Procs : pc'[q] # "upsert"
    BY <1>0, Alone
  <1>3. \A q \in Procs : DOMAIN writes'[q] = {}
    BY <1>0, Alone, NothingTable DEF PlaceInv, TypeOK
  <1>4. \A q \in Procs : OneEach(Seen(q)')
    BY <1>3, OverNothing DEF Seen
  <1>. QED BY <1>1, <1>2, <1>4 DEF Once

LEMMA CommitOnce ==
    ASSUME PlaceInv, Once, NEW p \in Procs, Commit(p)
    PROVE  Once'
  <1>1. OneEach(notes')
    BY DEF Commit, Once, Seen
  <1>2. /\ writes' = [writes EXCEPT ![p] = Nothing] /\ pc[p] = "commit" /\ pc'[p] = "end"
        /\ \A q \in Procs \ {p} : pc'[q] = pc[q]
    BY DEF Commit, PlaceInv, TypeOK
  <1>. QED BY <1>1, <1>2, ForgetOnce

LEMMA ResetOnce ==
    ASSUME PlaceInv, Once, NEW p \in Procs, End(p) \/ Stop(p)
    PROVE  Once'
  <1>1. OneEach(notes')
    BY DEF End, Stop, tables, Once
  <1>2. /\ writes' = [writes EXCEPT ![p] = Nothing] /\ pc[p] # "idle" /\ pc'[p] = "idle"
        /\ \A q \in Procs \ {p} : pc'[q] = pc[q]
    BY DEF End, Stop, Reset, PlaceInv, TypeOK
  <1>. QED BY <1>1, <1>2, ForgetOnce

LEMMA NextOnce == RaceInv /\ [Next]_vars => RaceInv'
  <1>. SUFFICES ASSUME RaceInv, [Next]_vars, ~raced' PROVE Once'
    BY NextPlace DEF RaceInv
  <1>1. ASSUME NEW p \in Requests, Write(p) PROVE Once'
    BY <1>1, StartOnce DEF Write, Procs
  <1>2. ASSUME NEW p \in Workers, TakeIocs(p) PROVE Once'
    BY <1>2, StartOnce DEF TakeIocs, Procs, Kinds
  <1>3. ASSUME NEW p \in Procs, Step(p) PROVE Once'
    <2>1. ~raced
      BY <1>3 DEF Step, Save, Deactivate, Lookup, Upsert, Audit, Commit, End, NoteEnd, NoteWrite, seen
    <2>. QED BY <1>3, <2>1, SaveOnce, DeactivateOnce, LookupOnce, UpsertOnce, AuditOnce, CommitOnce,
                ResetOnce DEF Step, RaceInv
  <1>4. ASSUME NEW p \in Procs, Stop(p) PROVE Once'
    BY <1>4, ResetOnce DEF Stop, NoteEnd, RaceInv
  <1>5. CASE (\E u \in Users : Prefer(u)) \/ UNCHANGED vars
    <2>1. UNCHANGED <<notes, writes, found, pc, at, raced>>
      BY <1>5 DEF Prefer, vars, tables, procs, seen
    <2>2. \A q \in Procs : Seen(q)' = Seen(q) /\ Mine(q)' = Mine(q)
      BY <2>1 DEF Seen, Mine
    <2>. QED BY <2>1, <2>2 DEF RaceInv, Once, Busy
  <1>. QED BY <1>1, <1>2, <1>3, <1>4, <1>5 DEF Next

LEMMA InitOnce == Init => RaceInv
  <1>. SUFFICES ASSUME Init PROVE Once
    BY InitPlace DEF RaceInv
  <1>1. OneEach(notes)
    BY DEF Init, OneEach, Note
  <1>2. \A q \in Procs : OneEach(Seen(q))
    BY <1>1, OverNothing, NothingTable DEF Init, Seen
  <1>3. Busy = {} /\ \A q \in Procs : pc[q] = "idle"
    BY DEF Init, Busy
  <1>. QED BY <1>1, <1>2, <1>3 DEF Once

\* DuplicateIfRaced: as long as no two executions overlapped, a user has one
\* notification of the alert at most.
THEOREM OneNotificationEach == Spec => []DuplicateIfRaced
  <1>1. Spec => []RaceInv
    BY InitOnce, NextOnce, PTL DEF Spec
  <1>2. RaceInv => DuplicateIfRaced
    BY DEF RaceInv, Once, OneEach, DuplicateIfRaced
  <1>. QED BY <1>1, <1>2, PTL

-----------------------------------------------------------------------------
(* The last entry and the state                                              *)

LastNew == IF audit = << >> THEN FirstState ELSE audit[Len(audit)].new

Undoubted == ~crossed /\ ~silent /\ lost = 0

\* One writer at most has an entry to write, and it is that of the state.
EntryAhead ==
    /\ \A p, q \in Owing : p = q
    /\ \A p \in Owing : copy[p].state = alert.state
    /\ Owing = {} => alert.state = LastNew

TellInv == AuditInv /\ (Undoubted => EntryAhead)

\* Which state a save leaves.
LEMMA MergedState ==
    ASSUME NEW k \in Kinds, NEW inst, NEW row
    PROVE  /\ k \in {"change", "patch", "bulk"} => Merged(k, inst, row).state = inst.state
           /\ k \in {"ingest", "iocs"} => Merged(k, inst, row).state = row.state
  <1>1. "state" \in Writes(k) <=> k \in {"change", "patch", "bulk"}
    BY DEF Writes, Kinds
  <1>. QED BY <1>1 DEF Merged, Kinds

\* A step of p that leaves the state, the log and what p owes.
LEMMA TellQuiet ==
    ASSUME TellInv, NEW p \in Procs, Undoubted' => Undoubted,
           \A q \in Procs \ {p} : pc'[q] = pc[q] /\ kind'[q] = kind[q] /\ copy'[q] = copy[q],
           p \in Owing <=> (kind'[p] = "change" /\ pc'[p] \in Owed),
           p \in Owing => copy'[p] = copy[p],
           audit' = audit, alert'.state = alert.state
    PROVE  Undoubted' => EntryAhead'
  <1>1. Owing' = Owing
    BY DEF Owing, Owed
  <1>. QED BY <1>1 DEF TellInv, EntryAhead, LastNew, Owing

LEMMA StartTells ==
    ASSUME TellInv, NEW p \in Procs, NEW k, NEW inst, pc[p] = "idle", Start(p, k, inst)
    PROVE  Undoubted' => EntryAhead'
  <1>1. /\ \A q \in Procs \ {p} : pc'[q] = pc[q] /\ kind'[q] = kind[q] /\ copy'[q] = copy[q]
        /\ pc'[p] = "save" /\ UNCHANGED <<audit, alert, crossed, silent, lost>>
    BY DEF Start, NoteStart, tables, TellInv, AuditInv, PlaceInv, TypeOK
  <1>2. p \notin Owing /\ pc'[p] \notin Owed
    BY <1>1, OwingMember DEF Owed
  <1>. QED BY <1>1, <1>2, TellQuiet DEF Undoubted

LEMMA SaveTells ==
    ASSUME TellInv, NEW p \in Procs, Save(p)
    PROVE  Undoubted' => EntryAhead'
  <1>1. /\ pc[p] = "save" /\ pc'[p] \in {"lookup", "deactivate"} /\ kind' = kind
        /\ copy' = copy /\ audit' = audit
        /\ \A q \in Procs \ {p} : pc'[q] = pc[q]
    BY DEF Save, TellInv, AuditInv, PlaceInv, TypeOK
  <1>2. p \notin Owing /\ pc'[p] \in Owed
    BY <1>1, OwingMember DEF Owed
  <1>3. CASE kind[p] = "change"
    <2>1. /\ alert' = Merged("change", copy[p], alert)
          /\ (crossed' <=> crossed \/ Owing # {}) /\ (silent' <=> silent) /\ lost' = lost
      BY <1>3 DEF Save, InTx, NoteWrite, ChangeKinds
    <2>3. alert'.state = copy[p].state
      BY <2>1, MergedState DEF Kinds
    <2>2. Owing' = Owing \cup {p}
      BY <1>1, <1>2, <1>3 DEF Owing, Owed
    <2>. QED BY <1>1, <2>1, <2>2, <2>3 DEF Undoubted, EntryAhead
  <1>4. CASE kind[p] # "change"
    <2>1. (Undoubted' => Undoubted) /\ (Undoubted' => alert'.state = alert.state)
      <3>1. CASE InTx(kind[p])
        BY <3>1 DEF Save, seen, Undoubted
      <3>2. CASE kind[p] = "patch"
        BY <3>2 DEF Save, InTx, NoteWrite, ChangeKinds, Undoubted
      <3>3. CASE kind[p] = "iocs"
        <4>1. /\ alert' = Merged("iocs", copy[p], alert)
              /\ (crossed' <=> crossed) /\ (silent' <=> silent) /\ lost' = lost
          BY <3>3 DEF Save, InTx, NoteWrite, ChangeKinds
        <4>2. alert'.state = alert.state
          BY <4>1, MergedState DEF Kinds
        <4>. QED BY <4>1, <4>2 DEF Undoubted
      <3>. QED BY <1>4, <3>1, <3>2, <3>3 DEF TellInv, AuditInv, PlaceInv, TypeOK, Kinds, InTx
    <2>. QED BY <1>1, <1>2, <1>4, <2>1, TellQuiet
  <1>. QED BY <1>3, <1>4

LEMMA SignalTells ==
    ASSUME TellInv, NEW p \in Procs, Deactivate(p) \/ Lookup(p) \/ Upsert(p)
    PROVE  Undoubted' => EntryAhead'
  <1>1. /\ kind' = kind /\ copy' = copy /\ pc[p] \in Owed
        /\ UNCHANGED <<audit, alert, crossed, silent, lost>>
    BY DEF Deactivate, Lookup, Upsert, tables, seen, Owed
  <1>2. /\ \A q \in Procs \ {p} : pc'[q] = pc[q]
        /\ kind[p] = "change" => pc'[p] \in Owed
    <2>1. CASE Deactivate(p)
      BY <2>1 DEF Deactivate, AfterSignal, InTx, Owed, TellInv, AuditInv, PlaceInv, TypeOK
    <2>2. CASE Upsert(p) \/ (Lookup(p) /\ at[p] \notin wants)
      BY <2>2 DEF Upsert, Lookup, InTx, Owed, TellInv, AuditInv, PlaceInv, TypeOK, Advance, AfterSignal
    <2>3. CASE Lookup(p) /\ at[p] \in wants
      BY <2>3 DEF Lookup, Owed, TellInv, AuditInv, PlaceInv, TypeOK
    <2>. QED BY <2>1, <2>2, <2>3
  <1>. QED BY <1>1, <1>2, OwingMember, TellQuiet DEF Undoubted

LEMMA AuditTells ==
    ASSUME TellInv, NEW p \in Procs, Audit(p), Undoubted'
    PROVE  EntryAhead'
  <1>1. /\ pc[p] = "audit" /\ kind[p] = "change" /\ kind' = kind /\ pc'[p] = "end"
        /\ \A q \in Procs \ {p} : pc'[q] = pc[q]
        /\ Undoubted /\ alert' = alert /\ audit' = Append(audit, Entry(p))
    BY DEF TellInv, AuditInv, PlaceInv, PlaceOK, TypeOK, Audit, seen, Undoubted
  <1>2. p \in Owing /\ pc'[p] \notin Owed
    BY <1>1, OwingMember DEF Owed
  <1>3. Owing' = {}
    BY <1>1, <1>2 DEF TellInv, EntryAhead, Owing, Owed
  <1>4. audit' # << >> /\ audit'[Len(audit')] = Entry(p)
    <2>1. audit \in Seq([old: States, new: States])
      BY DEF TellInv, AuditInv, PlaceInv, TypeOK
    <2>. QED BY <1>1, <2>1, EntryType DEF TellInv, AuditInv, PlaceInv
  <1>5. alert.state = copy[p].state
    BY <1>1, <1>2 DEF TellInv, EntryAhead
  <1>. QED BY <1>1, <1>3, <1>4, <1>5 DEF EntryAhead, LastNew, Entry

LEMMA CommitTells ==
    ASSUME TellInv, NEW p \in Procs, Commit(p), Undoubted'
    PROVE  EntryAhead'
  <1>1. /\ pc[p] = "commit" /\ InTx(kind[p]) /\ kind' = kind /\ copy' = copy /\ pc'[p] = "end"
        /\ \A q \in Procs \ {p} : pc'[q] = pc[q]
    BY DEF TellInv, AuditInv, PlaceInv, PlaceOK, TypeOK, Commit
  <1>2. Owing' = Owing /\ Undoubted
    BY <1>1 DEF Owing, InTx, Commit, NoteWrite, Undoubted
  <1>3. CASE kind[p] = "bulk"
    <2>0. /\ alert' = Merged("bulk", copy[p], alert) /\ audit' = Append(audit, Entry(p))
          /\ crossed' = (crossed \/ Owing # {})
      BY <1>3 DEF Commit, NoteWrite, ChangeKinds
    <2>1. Owing = {} /\ alert'.state = copy[p].state
      BY <2>0, MergedState DEF Undoubted, Kinds
    <2>2. audit' # << >> /\ audit'[Len(audit')] = Entry(p)
      <3>1. audit \in Seq([old: States, new: States])
        BY DEF TellInv, AuditInv, PlaceInv, TypeOK
      <3>. QED BY <2>0, <3>1, EntryType DEF TellInv, AuditInv, PlaceInv
    <2>. QED BY <1>2, <2>1, <2>2 DEF EntryAhead, LastNew, Entry
  <1>4. CASE kind[p] = "ingest"
    <2>0. alert' = Merged("ingest", copy[p], alert) /\ audit' = audit
      BY <1>4 DEF Commit
    <2>1. alert'.state = alert.state /\ audit' = audit
      BY <2>0, MergedState DEF Kinds
    <2>. QED BY <1>1, <1>2, <2>1 DEF TellInv, EntryAhead, LastNew
  <1>. QED BY <1>1, <1>3, <1>4 DEF InTx

LEMMA ResetTells ==
    ASSUME TellInv, NEW p \in Procs, End(p) \/ Stop(p), Undoubted'
    PROVE  EntryAhead'
  <1>1. /\ \A q \in Procs \ {p} : pc'[q] = pc[q] /\ kind'[q] = kind[q] /\ copy'[q] = copy[q]
        /\ pc'[p] = "idle" /\ UNCHANGED <<audit, alert, crossed, silent>>
    BY DEF TellInv, AuditInv, PlaceInv, TypeOK, End, Stop, Reset, NoteEnd, tables
  <1>2. p \notin Owing /\ lost' = lost
    <2>1. CASE End(p)
      BY <2>1, OwingMember DEF End, Owed
    <2>2. CASE Stop(p)
      BY <2>2 DEF Stop, Undoubted, TellInv, AuditInv, PlaceInv, TypeOK
    <2>. QED BY <2>1, <2>2
  <1>. QED BY <1>1, <1>2, TellQuiet DEF Undoubted, Owed

LEMMA NextTells == TellInv /\ [Next]_vars => TellInv'
  <1>. SUFFICES ASSUME TellInv, [Next]_vars PROVE Undoubted' => EntryAhead'
    BY NextAudited DEF TellInv
  <1>1. ASSUME NEW p \in Requests, Write(p) PROVE Undoubted' => EntryAhead'
    BY <1>1, StartTells DEF Write, Procs
  <1>2. ASSUME NEW p \in Workers, TakeIocs(p) PROVE Undoubted' => EntryAhead'
    BY <1>2, StartTells DEF TakeIocs, Procs
  <1>3. ASSUME NEW p \in Procs, Step(p) PROVE Undoubted' => EntryAhead'
    BY <1>3, SaveTells, SignalTells, AuditTells, CommitTells, ResetTells DEF Step
  <1>4. ASSUME NEW p \in Procs, Stop(p) PROVE Undoubted' => EntryAhead'
    BY <1>4, ResetTells
  <1>5. CASE (\E u \in Users : Prefer(u)) \/ UNCHANGED vars
    <2>1. UNCHANGED <<pc, kind, copy, alert, audit, crossed, silent, lost>>
      BY <1>5 DEF Prefer, vars, tables, procs, seen
    <2>2. Owing' = Owing
      BY <2>1 DEF Owing
    <2>. QED BY <2>1, <2>2 DEF TellInv, EntryAhead, Undoubted, LastNew
  <1>. QED BY <1>1, <1>2, <1>3, <1>4, <1>5 DEF Next

\* AuditTellsState: the log ends with the state of the alert, unless a PATCH
\* moved it, two changes crossed between save and entry, or an author stopped.
LEMMA LastEntryTellsState == Spec => []AuditTellsState
  <1>1. Init => TellInv
    BY InitAudited DEF Init, TellInv, EntryAhead, LastNew, Owing
  <1>2. TellInv => AuditTellsState
    BY DEF TellInv, Undoubted, EntryAhead, LastNew, AuditTellsState
  <1>. QED BY <1>1, <1>2, NextTells, PTL DEF Spec

\* AuditFollowsState: every change of state has its entry, or a stop explains
\* why not, and the last entry tells the state that nobody wrote past it.
THEOREM AuditFollows == Spec => []AuditFollowsState
  BY EveryChangeAudited, LastEntryTellsState, PTL DEF AuditFollowsState

-----------------------------------------------------------------------------
(* Notifications and the alert                                               *)

\* The recipients before n who want the notification have it, active.
Told(p, n) ==
    \A u \in wants : u < n => \E i \in DOMAIN Seen(p) : Seen(p)[i] = Note(u, TRUE)

Silenced(p) == \A i \in DOMAIN Seen(p) : ~Seen(p)[i].active

\* What an execution that nothing overlaps has reached, place by place.
FlagReached(p) ==
    /\ Merged(kind[p], copy[p], alert) = copy[p]
    /\ pc[p] = "end" \/ (pc[p] # "save" /\ ~InTx(kind[p])) => alert = copy[p]
    /\ pc[p] = "deactivate" => ~Due(copy[p])
    /\ pc[p] \in {"lookup", "upsert"} => Due(copy[p]) /\ Told(p, at[p])
    /\ pc[p] = "upsert" => found[p] = 0 \/ found[p] \in Mine(p)
    /\ pc[p] \in {"audit", "commit", "end"} =>
          IF Due(copy[p]) THEN Told(p, NUsers + 1) ELSE Silenced(p)

FlagInv ==
    /\ PlaceInv /\ mixed \subseteq Busy
    /\ \A p \in Busy \ mixed : Busy = {p} /\ FlagReached(p)
    /\ clean => Busy = {} /\ FlagTellsAlert

\* Without rows of its own, a process sees the committed notifications.
LEMMA SeenPlain ==
    ASSUME NEW p, DOMAIN writes[p] = {}
    PROVE  DOMAIN Seen(p) = DOMAIN notes /\ \A i \in DOMAIN notes : Seen(p)[i] = notes[i]
  BY DEF Seen, Over

\* What p sees after a statement of its own.
LEMMA SeenStored ==
    ASSUME PlaceInv, NEW p \in Procs, NEW rows, Store(p, rows)
    PROVE  /\ DOMAIN Seen(p)' = DOMAIN rows \cup DOMAIN Seen(p)
           /\ \A i \in DOMAIN Seen(p)' :
                 Seen(p)'[i] = IF i \in DOMAIN rows THEN rows[i] ELSE Seen(p)[i]
  <1>0. DOMAIN writes = Procs
    BY DEF PlaceInv, TypeOK
  <1>1. CASE InTx(kind[p])
    <2>1. Seen(p)' = Over(Over(rows, writes[p]), notes)
      BY <1>0, <1>1 DEF Store, Seen
    <2>2. Seen(p)' = Over(rows, Seen(p))
      BY <2>1, OverAssociates DEF Seen
    <2>. QED BY <2>2 DEF Over
  <1>2. CASE ~InTx(kind[p])
    <2>1. /\ notes' = Over(rows, notes) /\ writes' = writes /\ DOMAIN writes[p] = {}
      BY <1>2 DEF Store, PlaceInv, PlaceOK
    <2>2. /\ DOMAIN Seen(p)' = DOMAIN notes'
          /\ \A i \in DOMAIN notes' : Seen(p)'[i] = notes'[i]
      BY <2>1 DEF Seen, Over
    <2>3. DOMAIN Seen(p) = DOMAIN notes /\ \A i \in DOMAIN notes : Seen(p)[i] = notes[i]
      BY <2>1, SeenPlain
    <2>4. /\ DOMAIN notes' = DOMAIN rows \cup DOMAIN notes
          /\ \A i \in DOMAIN notes' : notes'[i] = IF i \in DOMAIN rows THEN rows[i] ELSE notes[i]
      BY <2>1 DEF Over
    <2>5. DOMAIN Seen(p)' = DOMAIN rows \cup DOMAIN Seen(p)
      BY <2>2, <2>3, <2>4
    <2>6. ASSUME NEW i \in DOMAIN Seen(p)'
          PROVE  Seen(p)'[i] = IF i \in DOMAIN rows THEN rows[i] ELSE Seen(p)[i]
      BY <2>2, <2>3, <2>4
    <2>. QED BY <2>5, <2>6
  <1>. QED BY <1>1, <1>2

\* A step of p keeps the invariant when it keeps it for p alone.
LEMMA FlagStep ==
    ASSUME FlagInv, PlaceInv', NEW p \in Busy,
           mixed' = mixed, clean' = clean, pc'[p] # "idle",
           \A q \in Procs \ {p} : pc'[q] = pc[q],
           p \notin mixed => FlagReached(p)'
    PROVE  FlagInv'
  <1>1. p \in Procs /\ ~clean /\ Busy' = Busy
    BY DEF FlagInv, Busy
  <1>2. \A q \in Busy \ mixed : q = p
    BY DEF FlagInv
  <1>. QED BY <1>1, <1>2 DEF FlagInv

LEMMA FlagStart ==
    ASSUME FlagInv, PlaceInv', NEW p \in Procs, NEW k, NEW inst \in Contents, pc[p] = "idle",
           Start(p, k, inst), Merged(k, inst, alert) = inst
    PROVE  FlagInv'
  <1>1. /\ ~clean' /\ pc'[p] = "save" /\ \A q \in Procs \ {p} : pc'[q] = pc[q]
        /\ mixed' = IF Busy = {} THEN mixed ELSE mixed \cup Busy \cup {p}
        /\ kind'[p] = k /\ copy'[p] = inst /\ alert' = alert
    BY DEF Start, NoteStart, tables, FlagInv, PlaceInv, TypeOK
  <1>2. Busy' = Busy \cup {p}
    BY <1>1 DEF Busy
  <1>3. FlagReached(p)'
    BY <1>1 DEF FlagReached
  <1>4. CASE Busy = {}
    <2>1. mixed' = {} /\ Busy' = {p}
      BY <1>1, <1>2, <1>4 DEF FlagInv
    <2>. QED BY <1>1, <1>3, <2>1 DEF FlagInv
  <1>5. CASE Busy # {}
    <2>1. Busy' \subseteq mixed' /\ mixed' \subseteq Busy'
      BY <1>1, <1>2, <1>5 DEF FlagInv
    <2>. QED BY <1>1, <2>1 DEF FlagInv
  <1>. QED BY <1>4, <1>5

\* An instance whose other fields are those of the row replaces it.
LEMMA MergedSelf ==
    ASSUME NEW k \in Kinds, NEW inst \in Contents, NEW row \in Contents,
           \A f \in DOMAIN inst : f \notin Writes(k) => inst[f] = row[f]
    PROVE  Merged(k, inst, row) = inst
  <1>1. inst["state"] = inst.state /\ row["state"] = row.state
        /\ inst["severity"] = inst.severity /\ row["severity"] = row.severity
        /\ DOMAIN inst = {"state", "severity"}
    BY DEF Contents
  <1>2. inst = [state |-> inst.state, severity |-> inst.severity]
    BY DEF Contents
  <1>3. /\ "state" \notin Writes(k) => inst.state = row.state
        /\ "severity" \notin Writes(k) => inst.severity = row.severity
    BY <1>1
  <1>. QED BY <1>2, <1>3 DEF Merged

LEMMA MergedTwice ==
    ASSUME NEW k, NEW inst, NEW row, Merged(k, inst, row) = inst
    PROVE  Merged(k, inst, inst) = inst
  BY DEF Merged

LEMMA FlagSave ==
    ASSUME FlagInv, PlaceInv', NEW p \in Procs, Save(p)
    PROVE  FlagInv'
  <1>1. /\ p \in Busy /\ mixed' = mixed /\ clean' = clean
        /\ \A q \in Procs \ {p} : pc'[q] = pc[q]
        /\ pc'[p] = (IF Due(copy[p]) THEN "lookup" ELSE "deactivate")
        /\ at'[p] = (IF Due(copy[p]) THEN 1 ELSE 0)
        /\ UNCHANGED <<kind, copy, wants>>
    BY DEF Save, Busy, FlagInv, PlaceInv, TypeOK, NoteWrite, seen
  <1>2. ASSUME p \notin mixed PROVE FlagReached(p)'
    <2>1. Merged(kind[p], copy[p], alert) = copy[p]
      BY <1>1, <1>2 DEF FlagInv, FlagReached
    <2>2. IF InTx(kind[p]) THEN alert' = alert ELSE alert' = copy[p]
      BY <2>1 DEF Save
    <2>3. Merged(kind[p], copy[p], alert') = copy[p]
      BY <2>1, <2>2, MergedTwice
    <2>4. Told(p, 1)'
      BY UsersNat DEF Told, FlagInv, PlaceInv, TypeOK
    <2>5. at'[p] = 1 => Told(p, at[p])'
      BY <1>1, <2>4 DEF Told
    <2>. QED BY <1>1, <2>2, <2>3, <2>5 DEF FlagReached
  <1>. QED BY <1>1, <1>2, FlagStep

\* The place after post_save.
LEMMA FlagDone ==
    ASSUME NEW p \in Procs, FlagReached(p), pc[p] # "save",
           UNCHANGED <<alert, kind, copy, wants>>,
           pc'[p] = AfterSignal(kind[p]),
           IF Due(copy[p]) THEN Told(p, NUsers + 1)' ELSE Silenced(p)'
    PROVE  FlagReached(p)'
  <1>1. pc'[p] \in {"commit", "audit", "end"} /\ (pc'[p] = "end" => ~InTx(kind[p]))
    BY DEF AfterSignal
  <1>. QED BY <1>1 DEF FlagReached

LEMMA FlagDeactivate ==
    ASSUME FlagInv, PlaceInv', NEW p \in Procs, Deactivate(p)
    PROVE  FlagInv'
  <1>. DEFINE rows == [i \in DOMAIN Seen(p) |-> Note(Seen(p)[i].user, FALSE)]
  <1>1. /\ p \in Busy /\ mixed' = mixed /\ clean' = clean
        /\ pc[p] = "deactivate" /\ pc'[p] = AfterSignal(kind[p])
        /\ \A q \in Procs \ {p} : pc'[q] = pc[q]
        /\ UNCHANGED <<alert, kind, copy, wants>> /\ Store(p, rows)
    BY DEF Deactivate, Busy, FlagInv, PlaceInv, TypeOK, seen
  <1>2. Silenced(p)'
    <2>1. \A i \in DOMAIN rows : rows[i].active = FALSE
      BY DEF Note
    <2>2. DOMAIN rows = DOMAIN Seen(p)
      OBVIOUS
    <2>. HIDE DEF rows
    <2>3. /\ DOMAIN Seen(p)' = DOMAIN rows \cup DOMAIN Seen(p)
          /\ \A i \in DOMAIN Seen(p)' :
                Seen(p)'[i] = IF i \in DOMAIN rows THEN rows[i] ELSE Seen(p)[i]
      BY <1>1, SeenStored DEF FlagInv
    <2>. QED BY <2>1, <2>2, <2>3 DEF Silenced
  <1>3. ASSUME p \notin mixed PROVE FlagReached(p)'
    <2>1. FlagReached(p) /\ ~Due(copy[p])
      BY <1>1, <1>3 DEF FlagInv, FlagReached
    <2>. QED BY <1>1, <1>2, <2>1, FlagDone
  <1>4. pc'[p] # "idle"
    BY <1>1, AfterSignalPlace
  <1>. QED BY <1>1, <1>3, <1>4, FlagStep

\* On to the next recipient, when those up to this one are told.
LEMMA FlagAdvance ==
    ASSUME FlagInv, NEW p \in Procs, pc[p] \in {"lookup", "upsert"}, Advance(p),
           p \notin mixed, UNCHANGED <<alert, kind, copy, wants>>,
           NEW a, a = at[p], Told(p, a + 1)'
    PROVE  FlagReached(p)' /\ pc'[p] # "idle"
  <1>0. /\ a \in Users /\ FlagReached(p) /\ Due(copy[p]) /\ pc \in [Procs -> Places]
        /\ at \in [Procs -> 0..NUsers]
    BY DEF FlagInv, Busy, PlaceInv, PlaceOK, TypeOK, FlagReached
  <1>1. CASE a < NUsers
    <2>1. pc'[p] = "lookup" /\ at'[p] = a + 1
      BY <1>0, <1>1 DEF Advance
    <2>2. Told(p, at[p])'
      BY <2>1 DEF Told
    <2>. QED BY <1>0, <2>1, <2>2 DEF FlagReached
  <1>2. CASE ~(a < NUsers)
    <2>1. a = NUsers
      BY <1>0, <1>2, UsersNat
    <2>2. pc'[p] = AfterSignal(kind[p])
      BY <1>0, <1>2 DEF Advance
    <2>3. Told(p, NUsers + 1)'
      BY <2>1
    <2>. QED BY <1>0, <2>2, <2>3, FlagDone, AfterSignalPlace
  <1>. QED BY <1>1, <1>2

LEMMA FlagLookup ==
    ASSUME FlagInv, PlaceInv', NEW p \in Procs, Lookup(p)
    PROVE  FlagInv'
  <1>1. /\ p \in Busy /\ pc[p] = "lookup" /\ UNCHANGED <<mixed, clean, alert, kind, copy, wants>>
        /\ UNCHANGED <<notes, writes>>
    BY DEF Lookup, Busy, tables, seen
  <1>2. Seen(p)' = Seen(p)
    BY <1>1 DEF Seen
  <1>3. \A q \in Procs \ {p} : pc'[q] = pc[q]
    BY DEF Lookup, Advance, FlagInv, PlaceInv, TypeOK
  <1>4. pc'[p] # "idle" /\ (p \notin mixed => FlagReached(p)')
    <2>1. CASE at[p] \in wants
      <3>1. pc'[p] = "upsert" /\ at' = at
        BY <2>1 DEF Lookup, FlagInv, PlaceInv, TypeOK
      <3>2. Mine(p)' = Mine(p)
        BY <1>2, <3>1 DEF Mine
      <3>3. found'[p] = 0 \/ found'[p] \in Mine(p)
        BY <2>1 DEF Lookup, FlagInv, PlaceInv, TypeOK
      <3>4. Told(p, at[p]) => Told(p, at[p])'
        BY <1>1, <1>2, <3>1 DEF Told
      <3>. QED BY <1>1, <3>1, <3>2, <3>3, <3>4 DEF FlagInv, FlagReached
    <2>2. CASE at[p] \notin wants
      <3>1. Advance(p)
        BY <2>2 DEF Lookup
      <3>2. PICK a : a = at[p]
        OBVIOUS
      <3>3. a \in Users /\ wants \subseteq Users
        BY <1>1, <3>2 DEF FlagInv, PlaceInv, PlaceOK, TypeOK
      <3>4. p \notin mixed => Told(p, a)
        BY <1>1, <3>2 DEF FlagInv, FlagReached
      <3>5. \A u \in wants : u < a + 1 => u < a
        BY <2>2, <3>2, <3>3, UsersNat
      <3>6. p \notin mixed => Told(p, a + 1)'
        BY <1>1, <1>2, <3>4, <3>5 DEF Told
      <3>7. pc'[p] # "idle"
        BY <1>1, <3>1, AdvancePlace DEF FlagInv
      <3>. QED BY <1>1, <3>1, <3>2, <3>6, <3>7, FlagAdvance
    <2>. QED BY <2>1, <2>2
  <1>. QED BY <1>1, <1>3, <1>4, FlagStep

LEMMA FlagUpsert ==
    ASSUME FlagInv, PlaceInv', NEW p \in Procs, Upsert(p)
    PROVE  FlagInv'
  <1>1. PICK a, i : a = at[p] /\ i = (IF found[p] = 0 THEN made + 1 ELSE found[p])
    OBVIOUS
  <1>. DEFINE rows == [j \in {i} |-> Note(a, TRUE)]
  <1>2. /\ p \in Busy /\ pc[p] = "upsert" /\ UNCHANGED <<mixed, clean, alert, kind, copy, wants>>
        /\ Store(p, rows) /\ Advance(p) /\ a \in Users /\ wants \subseteq Users
        /\ \A q \in Procs \ {p} : pc'[q] = pc[q]
    BY <1>1 DEF Upsert, Busy, seen, FlagInv, PlaceInv, PlaceOK, TypeOK, Advance
  <1>3. DOMAIN rows = {i} /\ rows[i] = Note(a, TRUE)
    OBVIOUS
  <1>. HIDE DEF rows
  <1>4. /\ DOMAIN Seen(p)' = {i} \cup DOMAIN Seen(p) /\ Seen(p)'[i] = Note(a, TRUE)
        /\ \A j \in DOMAIN Seen(p) : j # i => Seen(p)'[j] = Seen(p)[j]
    BY <1>2, <1>3, SeenStored DEF FlagInv
  <1>5. ASSUME p \notin mixed PROVE Told(p, a + 1)'
    <2>1. Told(p, a) /\ (found[p] = 0 \/ found[p] \in Mine(p))
      BY <1>1, <1>2, <1>5 DEF FlagInv, FlagReached
    <2>2. \A j \in DOMAIN Seen(p) : j = i => Seen(p)[j].user = a
      <3>1. made + 1 \notin DOMAIN Seen(p)
        BY Tables DEF FlagInv, PlaceInv, IsTable
      <3>. QED BY <1>1, <2>1, <3>1 DEF Mine
    <2> SUFFICES ASSUME NEW u \in wants, u < a + 1
                 PROVE  \E j \in DOMAIN Seen(p)' : Seen(p)'[j] = Note(u, TRUE)
      BY <1>2 DEF Told
    <2>3. CASE u = a
      BY <1>4, <2>3
    <2>4. CASE u # a
      <3>1. u < a
        BY <1>2, <2>4, UsersNat
      <3>2. PICK j \in DOMAIN Seen(p) : Seen(p)[j] = Note(u, TRUE)
        BY <2>1, <3>1 DEF Told
      <3>3. j # i
        BY <2>2, <2>4, <3>2 DEF Note
      <3>. QED BY <1>4, <3>2, <3>3
    <2>. QED BY <2>3, <2>4
  <1>6. p \notin mixed => FlagReached(p)'
    BY <1>1, <1>2, <1>5, FlagAdvance
  <1>7. pc'[p] # "idle"
    BY <1>2, AdvancePlace DEF FlagInv
  <1>. QED BY <1>2, <1>6, <1>7, FlagStep

LEMMA FlagAudit ==
    ASSUME FlagInv, PlaceInv', NEW p \in Procs, Audit(p)
    PROVE  FlagInv'
  <1>1. /\ p \in Busy /\ pc[p] = "audit" /\ pc'[p] = "end"
        /\ UNCHANGED <<mixed, clean, alert, kind, copy, wants, notes, writes>>
        /\ \A q \in Procs \ {p} : pc'[q] = pc[q] /\ kind[p] = "change"
    BY DEF Audit, Busy, seen, FlagInv, PlaceInv, PlaceOK, TypeOK
  <1>2. Seen(p)' = Seen(p) /\ kind[p] = "change"
    BY <1>1 DEF Seen, FlagInv, PlaceInv, PlaceOK
  <1>3. ASSUME p \notin mixed PROVE FlagReached(p)'
    <2>1. /\ Merged(kind[p], copy[p], alert) = copy[p] /\ alert = copy[p]
          /\ IF Due(copy[p]) THEN Told(p, NUsers + 1) ELSE Silenced(p)
      BY <1>1, <1>2, <1>3 DEF FlagInv, FlagReached, InTx
    <2>2. Told(p, NUsers + 1)' = Told(p, NUsers + 1) /\ Silenced(p)' = Silenced(p)
      BY <1>1, <1>2 DEF Told, Silenced
    <2>. QED BY <1>1, <2>1, <2>2 DEF FlagReached
  <1>. QED BY <1>1, <1>3, FlagStep

LEMMA FlagCommit ==
    ASSUME FlagInv, PlaceInv', NEW p \in Procs, Commit(p)
    PROVE  FlagInv'
  <1>1. /\ p \in Busy /\ pc[p] = "commit" /\ pc'[p] = "end" /\ UNCHANGED <<kind, copy, wants>>
        /\ mixed' = mixed /\ clean' = clean /\ alert' = Merged(kind[p], copy[p], alert)
        /\ \A q \in Procs \ {p} : pc'[q] = pc[q]
        /\ notes' = Seen(p) /\ DOMAIN writes'[p] = {}
    BY NothingTable DEF Commit, Busy, NoteWrite, FlagInv, PlaceInv, TypeOK, Seen
  <1>2. /\ DOMAIN Seen(p)' = DOMAIN Seen(p)
        /\ \A i \in DOMAIN Seen(p) : Seen(p)'[i] = Seen(p)[i]
    BY <1>1 DEF Seen, Over
  <1>3. p \notin mixed => FlagReached(p)'
    <2> SUFFICES ASSUME p \notin mixed PROVE FlagReached(p)'
      OBVIOUS
    <2>1. alert' = copy[p] /\ IF Due(copy[p]) THEN Told(p, NUsers + 1) ELSE Silenced(p)
      BY <1>1 DEF FlagInv, FlagReached
    <2>2. Merged(kind[p], copy[p], alert') = copy[p]
      BY <1>1, <2>1, MergedTwice
    <2>3. IF Due(copy[p]) THEN Told(p, NUsers + 1)' ELSE Silenced(p)'
      BY <1>1, <1>2, <2>1 DEF Told, Silenced
    <2>. QED BY <1>1, <2>1, <2>2, <2>3 DEF FlagReached
  <1>. QED BY <1>1, <1>3, FlagStep

LEMMA FlagEnd ==
    ASSUME FlagInv, PlaceInv', NEW p \in Procs, End(p)
    PROVE  FlagInv'
  <1>1. /\ p \in Busy /\ pc[p] = "end" /\ pc'[p] = "idle"
        /\ \A q \in Procs \ {p} : /\ pc'[q] = pc[q] /\ kind'[q] = kind[q] /\ copy'[q] = copy[q]
                                  /\ at'[q] = at[q] /\ found'[q] = found[q] /\ writes'[q] = writes[q]
        /\ UNCHANGED <<alert, notes, wants>>
        /\ clean' = (p \notin mixed) /\ mixed' = mixed \ {p}
    BY DEF End, Reset, NoteEnd, Busy, tables, FlagInv, PlaceInv, TypeOK
  <1>2. Busy' = Busy \ {p}
    BY <1>1 DEF Busy
  <1>3. CASE p \in mixed
    <2>1. \A q \in Busy \ mixed : Busy = {q}
      BY DEF FlagInv
    <2>2. Busy' \subseteq mixed'
      BY <1>1, <1>2, <1>3, <2>1
    <2>. QED BY <1>1, <1>2, <1>3, <2>2 DEF FlagInv
  <1>4. CASE p \notin mixed
    <2>1. Busy = {p} /\ FlagReached(p)
      BY <1>1, <1>4 DEF FlagInv
    <2>2. alert = copy[p] /\ IF Due(alert) THEN Told(p, NUsers + 1) ELSE Silenced(p)
      BY <1>1, <2>1 DEF FlagReached
    <2>3. /\ DOMAIN Seen(p) = DOMAIN notes /\ \A i \in DOMAIN notes : Seen(p)[i] = notes[i]
      <3>1. DOMAIN writes[p] = {}
        BY <1>1 DEF FlagInv, PlaceInv, PlaceOK
      <3>. QED BY <3>1, SeenPlain
    <2>4. FlagTellsAlert'
      <3>1. CASE Due(alert)
        <4>1. \A u \in wants : u < NUsers + 1
          BY UsersNat DEF FlagInv, PlaceInv, TypeOK
        <4>2. \A u \in wants : \E i \in DOMAIN notes : notes[i] = Note(u, TRUE)
          BY <2>2, <2>3, <3>1, <4>1 DEF Told
        <4>. QED BY <1>1, <3>1, <4>2 DEF FlagTellsAlert, Due, Note
      <3>2. CASE ~Due(alert)
        BY <1>1, <2>2, <2>3, <3>2 DEF FlagTellsAlert, Due, Silenced
      <3>. QED BY <3>1, <3>2
    <2>5. Busy' = {} /\ mixed' \subseteq Busy'
      BY <1>1, <1>2, <2>1 DEF FlagInv
    <2>. QED BY <2>4, <2>5 DEF FlagInv
  <1>. QED BY <1>3, <1>4

LEMMA FlagStop ==
    ASSUME FlagInv, PlaceInv', NEW p \in Procs, Stop(p)
    PROVE  FlagInv'
  <1>1. /\ p \in Busy /\ pc'[p] = "idle" /\ \A q \in Procs \ {p} : pc'[q] = pc[q]
        /\ clean' = FALSE /\ mixed' = mixed \ {p}
    BY DEF Stop, Reset, NoteEnd, Busy, FlagInv, PlaceInv, TypeOK
  <1>2. Busy' = Busy \ {p}
    BY <1>1 DEF Busy
  <1>3. \A q \in Busy \ mixed : Busy = {q}
    BY DEF FlagInv
  <1>4. Busy' \subseteq mixed' /\ mixed' \subseteq Busy'
    BY <1>1, <1>2, <1>3 DEF FlagInv
  <1>. QED BY <1>1, <1>4 DEF FlagInv

LEMMA FlagPrefer ==
    ASSUME FlagInv, PlaceInv', NEW u \in Users, Prefer(u)
    PROVE  FlagInv'
  <1>1. Busy' = Busy /\ mixed' = mixed \cup Busy /\ clean' = FALSE
    BY DEF Prefer, procs, Busy
  <1>. QED BY <1>1 DEF FlagInv

LEMMA NextFlag == FlagInv /\ [Next]_vars => FlagInv'
  <1>. SUFFICES ASSUME FlagInv, [Next]_vars PROVE FlagInv'
    OBVIOUS
  <1>0. PlaceInv'
    BY NextPlace DEF FlagInv
  <1>1. ASSUME NEW p \in Requests, Write(p) PROVE FlagInv'
    <2>1. PICK k \in Kinds \ {"iocs"}, inst \in Contents :
              /\ \A f \in DOMAIN inst : f \notin Writes(k) => inst[f] = alert[f]
              /\ Start(p, k, inst)
      BY <1>1 DEF Write
    <2>2. Merged(k, inst, alert) = inst
      BY <2>1, MergedSelf DEF FlagInv, PlaceInv, TypeOK
    <2>. QED BY <1>0, <1>1, <2>1, <2>2, FlagStart DEF Write, Procs
  <1>2. ASSUME NEW p \in Workers, TakeIocs(p) PROVE FlagInv'
    <2>1. alert \in Contents
      BY DEF FlagInv, PlaceInv, TypeOK
    <2>2. Merged("iocs", alert, alert) = alert
      BY <2>1, MergedSelf DEF Kinds
    <2>. QED BY <1>0, <1>2, <2>1, <2>2, FlagStart DEF TakeIocs, Procs
  <1>3. ASSUME NEW p \in Procs, Step(p) PROVE FlagInv'
    BY <1>0, <1>3, FlagSave, FlagDeactivate, FlagLookup, FlagUpsert, FlagAudit, FlagCommit, FlagEnd
    DEF Step
  <1>4. ASSUME NEW p \in Procs, Stop(p) PROVE FlagInv'
    BY <1>0, <1>4, FlagStop
  <1>5. ASSUME NEW u \in Users, Prefer(u) PROVE FlagInv'
    BY <1>0, <1>5, FlagPrefer
  <1>6. CASE UNCHANGED vars
    <2>1. UNCHANGED <<alert, notes, wants, pc, kind, copy, at, found, writes, mixed, clean>>
      BY <1>6 DEF vars, tables, procs, seen
    <2>2. \A p \in Procs : Seen(p)' = Seen(p) /\ Mine(p)' = Mine(p)
      BY <2>1 DEF Seen, Mine
    <2>3. Busy' = Busy /\ FlagTellsAlert' = FlagTellsAlert
      BY <2>1 DEF Busy, FlagTellsAlert
    <2>4. ASSUME NEW p \in Procs, FlagReached(p) PROVE FlagReached(p)'
      <3>1. /\ Told(p, at[p])' = Told(p, at[p]) /\ Told(p, NUsers + 1)' = Told(p, NUsers + 1)
            /\ Silenced(p)' = Silenced(p)
        BY <2>1, <2>2 DEF Told, Silenced
      <3>. QED BY <2>1, <2>2, <2>4, <3>1 DEF FlagReached
    <2>. QED BY <1>0, <2>1, <2>3, <2>4 DEF FlagInv, Busy
  <1>. QED BY <1>1, <1>2, <1>3, <1>4, <1>5, <1>6 DEF Next

LEMMA InitFlag == Init => FlagInv
  <1>. SUFFICES ASSUME Init PROVE FlagInv
    OBVIOUS
  <1>1. Busy = {} /\ mixed = {}
    BY DEF Init, Busy
  <1>2. FlagTellsAlert
    <2>1. CASE Due(alert)
      <3>1. DOMAIN notes = Users /\ wants = Users /\ \A u \in Users : notes[u] = Note(u, TRUE)
        BY <2>1 DEF Init, Users
      <3>. QED BY <2>1, <3>1 DEF FlagTellsAlert, Note
    <2>2. CASE ~Due(alert)
      <3>1. DOMAIN notes = {}
        BY <2>2, UsersNat DEF Init
      <3>. QED BY <2>2, <3>1 DEF FlagTellsAlert
    <2>. QED BY <2>1, <2>2
  <1>. QED BY <1>1, <1>2, InitPlace DEF FlagInv

\* FlagTellsAlert: an execution that nothing overlaps leaves the notifications
\* as the alert asks for, in whatever state it found them.
THEOREM FlagFollowsAlert == Spec => []FlagTellsAlert
  <1>1. FlagInv => FlagTellsAlert
    BY DEF FlagInv, FlagTellsAlert
  <1>. QED BY <1>1, InitFlag, NextFlag, PTL DEF Spec
=============================================================================
