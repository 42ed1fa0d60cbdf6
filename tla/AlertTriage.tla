------------------------------ MODULE AlertTriage ------------------------------
(***************************************************************************)
(* The writes of one alert and what follows them: the notifications of a   *)
(* critical alert (tenant_data/signals.py, notifications.py) and the audit *)
(* log of its states (views.py).                                           *)
(*                                                                         *)
(* Every writer reads the alert into an instance, assigns some fields,     *)
(* and saves: change_state and the task of the indicators save the fields  *)
(* they name, a PATCH saves every field of its instance.  post_save        *)
(* decides on the notifications by what the INSTANCE holds.  Bulk actions  *)
(* and ingested events do all this in one transaction; for the others      *)
(* each statement is committed as it is made.                              *)
(*                                                                         *)
(* Abstracted: the content of an alert is its state and whether it is      *)
(* critical, a notification is that of a critical alert and active or not. *)
(* The index is in AlertIndex.                                             *)
(* A statement that waits for a row is modelled as one that begins when    *)
(* the row is free.                                                        *)
(***************************************************************************)
EXTENDS Naturals, Sequences, FiniteSets

CONSTANTS
    States,       \* the alert's states
    FinalStates,  \* those with is_final
    FirstState,   \* that of the alert when it was created
    NUsers,       \* recipients, in the order of their ids
    Requests,     \* views, and ingested events of the alert
    Workers,      \* celery workers that extract indicators
    Nobody,       \* no transaction has the row
    MaxSaves, MaxStops, MaxPrefers  \* bounds: saves, stops, changes of preferences

ASSUME StatesAssumption == FirstState \in States /\ FinalStates \subseteq States
ASSUME ProcsAssumption  == /\ IsFiniteSet(Requests) /\ IsFiniteSet(Workers)
                           /\ Requests \cap Workers = {} /\ Nobody \notin Requests \cup Workers
ASSUME BoundsAssumption == /\ NUsers \in Nat \ {0}
                           /\ MaxSaves \in Nat /\ MaxStops \in Nat /\ MaxPrefers \in Nat

Procs == Requests \cup Workers
Users == 1..NUsers

\* How often each may happen.
Max == [saves |-> MaxSaves, stops |-> MaxStops, prefers |-> MaxPrefers]

Contents == [state: States, severity: {"critical", "other"}]
Notes    == [user: Users, active: BOOLEAN]
Note(u, active) == [user |-> u, active |-> active]

VARIABLES
    alert,    \* the row, as committed
    holder,   \* the process whose open transaction wrote the row
    notes,    \* table NotificationEvent: committed rows by their id
    made,     \* the latest id
    audit,    \* the log's entries on changes of state
    iocs,     \* extract_iocs tasks that are queued
    wants,    \* users whose preferences let the notification through
    pc,       \* what each process does next
    kind,     \* the writer it runs
    copy,     \* its instance of the alert
    before,   \* the state that the instance had when it was read
    at,       \* the recipient it is at
    found,    \* the notification it read for that recipient; 0: none
    writes,   \* rows of notes that its transaction wrote
    spent,    \* saves, stops and changes of preferences so far
    mixed, raced, clean, silent, crossed, changes, lost  \* history, see below

tables == <<alert, holder, notes, made, audit>>
procs  == <<pc, kind, copy, before, at, found, writes>>
seen   == <<mixed, raced, clean, silent, crossed, changes, lost>>
vars   == <<tables, iocs, wants, procs, spent, seen>>

Kinds == {"change", "patch", "bulk", "ingest", "iocs"}

\* The writers that run in a transaction.
InTx(k) == k \in {"bulk", "ingest"}

\* The fields a writer saves, and may assign.
Writes(k) == CASE k \in {"change", "bulk"} -> {"state"}
               [] k = "patch"              -> {"state", "severity"}
               [] k = "ingest"             -> {"severity"}
               [] k = "iocs"               -> {}

\* Variant: every writer saves its whole instance.
MergedWhole(k, inst, row) == inst

\* The row once inst is saved over it.
Merged(k, inst, row) ==
    [state    |-> IF "state" \in Writes(k) THEN inst.state ELSE row.state,
     severity |-> IF "severity" \in Writes(k) THEN inst.severity ELSE row.severity]

\* post_save: whether an alert is to be notified of.
Due(a) == a.severity = "critical" /\ a.state \notin FinalStates

\* Function f, and g where f says nothing.
Over(f, g) == [i \in DOMAIN f \cup DOMAIN g |-> IF i \in DOMAIN f THEN f[i] ELSE g[i]]
Nothing == [i \in {} |-> Note(1, FALSE)]

\* What p reads of notes: what is committed, and what its transaction wrote.
Seen(p) == Over(writes[p], notes)

\* No other transaction has written a row of S.
Unlocked(p, S) == \A q \in Procs \ {p} : S \cap DOMAIN writes[q] = {}

\* A statement of p that sets rows of notes.
Store(p, rows) ==
    IF InTx(kind[p])
    THEN writes' = [writes EXCEPT ![p] = Over(rows, writes[p])] /\ UNCHANGED notes
    ELSE notes' = Over(rows, notes) /\ UNCHANGED writes

\* The alert was created, and everyone has the notification of it if it is due.
Init ==
    /\ alert \in {c \in Contents : c.state = FirstState}
    /\ holder = Nobody
    /\ made   = IF Due(alert) THEN NUsers ELSE 0
    /\ notes  = [i \in 1..made |-> Note(i, TRUE)]
    /\ audit  = << >> /\ iocs = 0 /\ wants = Users
    /\ pc     = [p \in Procs |-> "idle"]
    /\ kind   = [p \in Procs |-> "iocs"]
    /\ copy   = [p \in Procs |-> [state |-> FirstState, severity |-> "other"]]
    /\ before = [p \in Procs |-> FirstState]
    /\ at     = [p \in Procs |-> 0]
    /\ found  = [p \in Procs |-> 0]
    /\ writes = [p \in Procs |-> Nothing]
    /\ spent  = [b \in DOMAIN Max |-> 0]
    /\ mixed  = {} /\ raced = FALSE /\ clean = TRUE
    /\ silent = FALSE /\ crossed = FALSE /\ changes = 0 /\ lost = 0

-----------------------------------------------------------------------------
(* What happened so far, for the properties: the executions under way that   *)
(* others, or a change of preferences, overlapped (mixed), whether           *)
(* executions ever overlapped each other (raced), whether the last           *)
(* execution ended, was alone and nothing happened since (clean), whether a  *)
(* PATCH moved the state (silent), how often a change of state was committed *)
(* (changes), whether one was before the entry of another (crossed), and how *)
(* often its author then stopped before the entry (lost).                    *)

Busy == {p \in Procs : pc[p] # "idle"}

NoteStart(p) ==
    /\ clean' = FALSE
    /\ raced' = (raced \/ Busy # {})
    /\ mixed' = IF Busy = {} THEN mixed ELSE mixed \cup Busy \cup {p}
    /\ UNCHANGED <<silent, crossed, changes, lost>>

ChangeKinds == {"change", "bulk"}

\* Those that committed a change of state and have its entry still to write.
Owing == {p \in Procs : kind[p] = "change" /\ pc[p] \in {"deactivate", "lookup", "upsert", "audit"}}

NoteWrite(k, new) ==
    /\ silent'  = (silent \/ (k = "patch" /\ new.state # alert.state))
    /\ crossed' = (crossed \/ (k \in ChangeKinds /\ Owing # {}))
    /\ changes' = IF k \in ChangeKinds THEN changes + 1 ELSE changes
    /\ UNCHANGED <<mixed, raced, clean, lost>>

\* Process p ends, undisturbed or not.
NoteEnd(p, undisturbed) ==
    /\ clean' = undisturbed
    /\ mixed' = mixed \ {p}
    /\ UNCHANGED <<raced, silent, crossed, changes>>

Spend(b) == spent[b] < Max[b] /\ spent' = [spent EXCEPT ![b] = @ + 1]

-----------------------------------------------------------------------------
(* Writers *)

\* get_object, or the task's first(): the instance, and what is assigned.
Start(p, k, inst) ==
    /\ pc' = [pc EXCEPT ![p] = "save"]
    /\ kind' = [kind EXCEPT ![p] = k]
    /\ copy' = [copy EXCEPT ![p] = inst]
    /\ before' = [before EXCEPT ![p] = alert.state]
    /\ NoteStart(p)
    /\ UNCHANGED <<tables, wants, at, found, writes>>

Write(p) ==
    /\ pc[p] = "idle"
    /\ Spend("saves")
    /\ \E k \in Kinds \ {"iocs"}, inst \in Contents :
           /\ \A f \in DOMAIN inst : f \notin Writes(k) => inst[f] = alert[f]
           /\ Start(p, k, inst)
    /\ UNCHANGED iocs

TakeIocs(p) ==
    /\ pc[p] = "idle"
    /\ iocs > 0
    /\ iocs' = iocs - 1
    /\ Start(p, "iocs", alert)
    /\ UNCHANGED spent

\* The UPDATE, which waits for the row, then the first lines of post_save.
Save(p) ==
    LET k == kind[p]
        new == Merged(k, copy[p], alert) IN
    /\ pc[p] = "save"
    /\ holder = Nobody
    /\ IF InTx(k)
       THEN holder' = p /\ UNCHANGED <<alert, seen>>
       ELSE alert' = new /\ NoteWrite(k, new) /\ UNCHANGED holder
    /\ iocs' = IF k = "iocs" THEN iocs ELSE iocs + 1
    /\ pc' = [pc EXCEPT ![p] = IF Due(copy[p]) THEN "lookup" ELSE "deactivate"]
    /\ at' = [at EXCEPT ![p] = IF Due(copy[p]) THEN 1 ELSE 0]
    /\ UNCHANGED <<notes, made, audit, wants, kind, copy, before, found, writes, spent>>

\* What follows post_save.
AfterSignal(k) == CASE InTx(k)        -> "commit"
                    [] k = "change"   -> "audit"
                    [] OTHER          -> "end"

\* Variant: only the newest notification is deactivated.
DeactivateNewest(p) ==
    LET last == {i \in DOMAIN Seen(p) : \A j \in DOMAIN Seen(p) : j <= i} IN
    /\ pc[p] = "deactivate"
    /\ Unlocked(p, DOMAIN Seen(p))
    /\ Store(p, [i \in last |-> Note(Seen(p)[i].user, FALSE)])
    /\ pc' = [pc EXCEPT ![p] = AfterSignal(kind[p])]
    /\ UNCHANGED <<alert, holder, made, audit, iocs, wants, kind, copy, before, at,
                   found, spent, seen>>

\* One UPDATE of all the alert's notifications.
Deactivate(p) ==
    /\ pc[p] = "deactivate"
    /\ Unlocked(p, DOMAIN Seen(p))
    /\ Store(p, [i \in DOMAIN Seen(p) |-> Note(Seen(p)[i].user, FALSE)])
    /\ pc' = [pc EXCEPT ![p] = AfterSignal(kind[p])]
    /\ UNCHANGED <<alert, holder, made, audit, iocs, wants, kind, copy, before, at,
                   found, spent, seen>>

\* On to the next recipient.
Advance(p) ==
    IF at[p] < NUsers
    THEN pc' = [pc EXCEPT ![p] = "lookup"] /\ at' = [at EXCEPT ![p] = @ + 1]
    ELSE pc' = [pc EXCEPT ![p] = AfterSignal(kind[p])] /\ at' = [at EXCEPT ![p] = 0]

\* Variant: a notification that was closed is not looked for.
MineActive(p) == {i \in DOMAIN Seen(p) : Seen(p)[i].user = at[p] /\ Seen(p)[i].active}

\* The recipient's notifications of the alert.
Mine(p) == {i \in DOMAIN Seen(p) : Seen(p)[i].user = at[p]}

\* The recipient's preferences, and queryset.first(): the newest.
Lookup(p) ==
    /\ pc[p] = "lookup"
    /\ IF at[p] \in wants
       THEN /\ \/ Mine(p) = {} /\ found' = [found EXCEPT ![p] = 0]
               \/ \E i \in Mine(p) : /\ \A j \in Mine(p) : j <= i
                                     /\ found' = [found EXCEPT ![p] = i]
            /\ pc' = [pc EXCEPT ![p] = "upsert"]
            /\ UNCHANGED at
       ELSE Advance(p) /\ UNCHANGED found
    /\ UNCHANGED <<tables, iocs, wants, kind, copy, before, writes, spent, seen>>

\* Variant: a notification that was not found is not counted.
UpsertUncounted(p) ==
    LET i == IF found[p] = 0 THEN made + 1 ELSE found[p] IN
    /\ pc[p] = "upsert"
    /\ Unlocked(p, {i})
    /\ Store(p, [j \in {i} |-> Note(at[p], TRUE)])
    /\ found' = [found EXCEPT ![p] = 0]
    /\ Advance(p)
    /\ UNCHANGED <<alert, holder, made, audit, iocs, wants, kind, copy, before, spent, seen>>

\* The notification is made, or made active again.
Upsert(p) ==
    LET i == IF found[p] = 0 THEN made + 1 ELSE found[p] IN
    /\ pc[p] = "upsert"
    /\ Unlocked(p, {i})
    /\ made' = IF found[p] = 0 THEN i ELSE made
    /\ Store(p, [j \in {i} |-> Note(at[p], TRUE)])
    /\ found' = [found EXCEPT ![p] = 0]
    /\ Advance(p)
    /\ UNCHANGED <<alert, holder, audit, iocs, wants, kind, copy, before, spent, seen>>

Entry(p) == [old |-> before[p], new |-> copy[p].state]

\* create_audit_log of change_state.
Audit(p) ==
    /\ pc[p] = "audit"
    /\ audit' = Append(audit, Entry(p))
    /\ pc' = [pc EXCEPT ![p] = "end"]
    /\ UNCHANGED <<alert, holder, notes, made, iocs, wants, kind, copy, before, at,
                   found, writes, spent, seen>>

\* Variant: the entries of a bulk action are forgotten.
CommitUnaudited(p) ==
    LET k == kind[p]
        new == Merged(k, copy[p], alert) IN
    /\ pc[p] = "commit"
    /\ alert' = new /\ NoteWrite(k, new)
    /\ notes' = Over(writes[p], notes)
    /\ writes' = [writes EXCEPT ![p] = Nothing]
    /\ holder' = Nobody
    /\ pc' = [pc EXCEPT ![p] = "end"]
    /\ UNCHANGED <<made, audit, iocs, wants, kind, copy, before, at, found, spent>>

\* The transaction ends; that of a bulk action holds its audit entry.
Commit(p) ==
    LET k == kind[p]
        new == Merged(k, copy[p], alert) IN
    /\ pc[p] = "commit"
    /\ alert' = new /\ NoteWrite(k, new)
    /\ notes' = Over(writes[p], notes)
    /\ writes' = [writes EXCEPT ![p] = Nothing]
    /\ audit' = IF k = "bulk" THEN Append(audit, Entry(p)) ELSE audit
    /\ holder' = Nobody
    /\ pc' = [pc EXCEPT ![p] = "end"]
    /\ UNCHANGED <<made, iocs, wants, kind, copy, before, at, found, spent>>

\* The process is free again.
Reset(p) ==
    /\ pc' = [pc EXCEPT ![p] = "idle"]
    /\ kind' = [kind EXCEPT ![p] = "iocs"]
    /\ copy' = [copy EXCEPT ![p] = [state |-> FirstState, severity |-> "other"]]
    /\ before' = [before EXCEPT ![p] = FirstState]
    /\ at' = [at EXCEPT ![p] = 0]
    /\ found' = [found EXCEPT ![p] = 0]
    /\ writes' = [writes EXCEPT ![p] = Nothing]

End(p) ==
    /\ pc[p] = "end"
    /\ Reset(p)
    /\ NoteEnd(p, p \notin mixed)
    /\ UNCHANGED lost
    /\ UNCHANGED <<tables, iocs, wants, spent>>

\* The process dies, or a statement or the channel layer raises: an open
\* transaction is rolled back, what was committed stays.
Stop(p) ==
    /\ pc[p] \notin {"idle", "end"}
    /\ Spend("stops")
    /\ Reset(p)
    /\ holder' = IF holder = p THEN Nobody ELSE holder
    /\ NoteEnd(p, FALSE)
    /\ lost' = IF p \in Owing THEN lost + 1 ELSE lost
    /\ UNCHANGED <<alert, notes, made, audit, iocs, wants>>

-----------------------------------------------------------------------------
(* Users *)

\* A user's preferences begin or cease to let the notification through.
Prefer(u) ==
    /\ Spend("prefers")
    /\ wants' = IF u \in wants THEN wants \ {u} ELSE wants \cup {u}
    /\ clean' = FALSE
    /\ mixed' = mixed \cup Busy
    /\ UNCHANGED <<tables, iocs, procs, raced, silent, crossed, changes, lost>>

Step(p) ==
    \/ Save(p) \/ Deactivate(p) \/ Lookup(p) \/ Upsert(p)
    \/ Audit(p) \/ Commit(p) \/ End(p)

Next ==
    \/ \E p \in Requests : Write(p)
    \/ \E p \in Workers : TakeIocs(p)
    \/ \E p \in Procs : Step(p) \/ Stop(p)
    \/ \E u \in Users : Prefer(u)

Spec == Init /\ [][Next]_vars

-----------------------------------------------------------------------------
(* Properties *)

Places == {"idle", "save", "deactivate", "lookup", "upsert", "audit", "commit", "end"}

\* Shape of the state.
TypeOK ==
    /\ alert \in Contents /\ holder \in Procs \cup {Nobody}
    /\ made \in Nat /\ iocs \in Nat /\ wants \subseteq Users
    /\ DOMAIN notes \subseteq 1..made /\ \A i \in DOMAIN notes : notes[i] \in Notes
    /\ audit \in Seq([old: States, new: States])
    /\ pc \in [Procs -> Places] /\ kind \in [Procs -> Kinds] /\ copy \in [Procs -> Contents]
    /\ before \in [Procs -> States] /\ at \in [Procs -> 0..NUsers]
    /\ found \in [Procs -> 0..made]
    /\ changes \in Nat /\ lost \in Nat
    /\ DOMAIN writes = Procs
    /\ \A p \in Procs : /\ DOMAIN writes[p] \subseteq 1..made
                        /\ \A i \in DOMAIN writes[p] : writes[p][i] \in Notes

\* A save that no other overlaps and that ends leaves the notifications as
\* the alert asks for, whatever races and failures went before: an open
\* critical alert is notified of to everyone who wants it, any other is
\* closed for everyone.
FlagTellsAlert ==
    clean =>
        IF Due(alert)
        THEN \A u \in wants : \E i \in DOMAIN notes : notes[i].user = u /\ notes[i].active
        ELSE \A i \in DOMAIN notes : ~notes[i].active

\* dedupe_key: a user has a second notification of the alert only when saves
\* of the alert overlapped.
DuplicateIfRaced ==
    ~raced =>
        \A i, j \in DOMAIN notes : notes[i].user = notes[j].user => i = j

\* A change of state has its audit entry, or its author has still to write
\* it, or stopped before: never in a bulk action.
ChangesAreAudited ==
    changes = Len(audit) + lost + Cardinality(Owing)

\* The last entry tells the state, whatever ingestion and the indicators
\* wrote meanwhile, unless a PATCH moved the state (by a stale instance too),
\* or a change was committed or its author stopped between the save and the
\* entry of a change.
AuditTellsState ==
    (Owing = {} /\ ~crossed /\ ~silent /\ lost = 0) =>
        alert.state = IF audit = << >> THEN FirstState ELSE audit[Len(audit)].new

\* The audit log follows the state.
AuditFollowsState == ChangesAreAudited /\ AuditTellsState

\* What a test says of a critical alert: its users are notified, once the
\* work that its save caused is done.
CriticalIsNotified ==
    (Busy = {} /\ iocs = 0 /\ Due(alert) /\ spent["stops"] = 0 /\ spent["prefers"] = 0) =>
        \A u \in Users : \E i \in DOMAIN notes : notes[i].user = u /\ notes[i].active

=============================================================================
