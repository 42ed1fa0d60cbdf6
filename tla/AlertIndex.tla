------------------------------ MODULE AlertIndex ------------------------------
(***************************************************************************)
(* How the Elasticsearch copy of the alerts follows the alerts themselves: *)
(* the signals of tenant_data/signals.py send celery tasks, whose bodies   *)
(* are in tenant_data/tasks.py, search/service.py and search/backends.py.  *)
(*                                                                         *)
(* A signal runs inside the transaction of the write that raised it: an    *)
(* ingested event and a deletion are transactions, a save of a view is     *)
(* committed before its signal.  A task reads the row in one step and      *)
(* writes the document in another.  When the broker refuses a message the  *)
(* sender runs the task itself.                                            *)
(*                                                                         *)
(* Abstracted: the content of an alert is the number of the write that     *)
(* made it (0: no such row, or no such document).  Writing the indicators  *)
(* (iocs) changes no content, the document does not hold them.             *)
(***************************************************************************)
EXTENDS Naturals, Sequences, FiniteSets

CONSTANTS
    Alerts,        \* primary keys; a key is never used again
    Workers,       \* processes of the celery worker
    Requests,      \* web requests and ingestion runs that write alerts
    BrokerMayFail, \* whether delay() may raise
    Nobody,        \* no process holds the row
    MaxWrites,     \* bound on the writes of one alert
    MaxOutages, MaxCrashes, MaxRebuilds,
    MaxFaults      \* bound on these three, the broker's refusals and the
                   \* deletions rolled back together

ASSUME ProcsAssumption  == Workers \cap Requests = {} /\ Nobody \notin Workers \cup Requests
ASSUME BoundsAssumption == /\ {MaxWrites, MaxOutages, MaxCrashes, MaxRebuilds, MaxFaults} \subseteq Nat
                           /\ BrokerMayFail \in BOOLEAN
ASSUME AlertsAssumption == IsFiniteSet(Alerts)

Procs == Workers \cup Requests

\* What is left of a piece of work: the task it is, or the rest of one.
Tasks   == {"sync", "delete", "iocs", "rebuild"}
Pending == {"send", "put", "bulk", "saveIocs"}
Op      == [task: Tasks \cup Pending, what: Tasks, id: Alerts, ver: Nat]

VARIABLES
    row,        \* table Alert: the version of each row that is committed
    last,       \* the latest version handed out, committed or not
    lock,       \* the process whose open transaction wrote the row
    tx,         \* the version it wrote; 0 when it deleted the row
    queue,      \* the broker's queue, first in first out
    todo,       \* what each process has still to do
    doc,        \* the Elasticsearch documents
    up,         \* Elasticsearch answers
    spent,      \* outages, crashes, rebuilds and deletions rolled back so far
    committed,  \* history: every version of each alert that was committed
    overtaken,  \* history: the alerts whose content a process has read and not
                \* yet written, and another process has written since
    missed,     \* history: alerts whose work met an outage or a crash, whose
                \* deletion was rolled back, or of which a process that was
                \* overtaken wrote another content, until the row's content is
                \* written and nothing disturbs it
    refused     \* history: the broker has refused a message

rows    == <<row, last, lock, tx, committed>>
history == <<spent, missed, overtaken>>
vars    == <<rows, queue, todo, doc, up, history, refused>>

\* Work on an alert; "send" says what is sent.
Do(task, a)     == [task |-> task, what |-> "sync", id |-> a, ver |-> 0]
Send(task, a)   == [task |-> "send", what |-> task, id |-> a, ver |-> 0]
Write(how, a, v) == [task |-> how, what |-> "sync", id |-> a, ver |-> v]

Init ==
    /\ row       = [a \in Alerts |-> 0]
    /\ last      = [a \in Alerts |-> 0]
    /\ lock      = [a \in Alerts |-> Nobody]
    /\ tx        = [a \in Alerts |-> 0]
    /\ queue     = << >>
    /\ todo      = [p \in Procs |-> << >>]
    /\ doc       = [a \in Alerts |-> 0]
    /\ up        = TRUE
    /\ spent     = [outages |-> 0, crashes |-> 0, rebuilds |-> 0, undone |-> 0]
    /\ committed = [a \in Alerts |-> {}]
    /\ overtaken = [p \in Procs |-> {}]
    /\ missed    = {}
    /\ refused   = FALSE

\* Another outage, crash, rebuild or undone deletion is within the bound; so is
\* a refusal of the broker, which may go on once it has begun.
MayDisturb ==
    spent.outages + spent.crashes + spent.rebuilds + spent.undone
        + (IF refused THEN 1 ELSE 0) < MaxFaults

Idle(p) == todo[p] = << >> /\ \A a \in Alerts : lock[a] # p
Next1(p, task) == todo[p] # << >> /\ Head(todo[p]).task = task
Then(p, ops) == todo' = [todo EXCEPT ![p] = ops \o Tail(@)]

\* Variant: a task is given what its sender sees, committed or not.
SeenDirty(p, a) == IF lock[a] # Nobody THEN tx[a] ELSE row[a]

\* What p reads: its own transaction's row, or what is committed.
Seen(p, a) == IF lock[a] = p THEN tx[a] ELSE row[a]

-----------------------------------------------------------------------------
(* Writes of alerts *)

\* Variant: every save sends a sync and nothing else.
SaveSignalSyncOnly(a) == <<Send("sync", a)>>

\* post_save of a save that is not only of the indicators.
SaveSignal(a) == <<Send("sync", a), Send("iocs", a)>>

\* A row may be inserted once and updated while it exists.
Writable(p, a) ==
    /\ Idle(p)
    /\ lock[a] = Nobody
    /\ row[a] # 0 \/ last[a] = 0
    /\ last[a] < MaxWrites

\* A save by a view: committed, then the signal.
Save(p, a) ==
    /\ Writable(p, a)
    /\ last' = [last EXCEPT ![a] = @ + 1]
    /\ row' = [row EXCEPT ![a] = last'[a]]
    /\ committed' = [committed EXCEPT ![a] = @ \cup {last'[a]}]
    /\ todo' = [todo EXCEPT ![p] = SaveSignal(a)]
    /\ UNCHANGED <<lock, tx, queue, doc, up, history>>

\* A save by an ingested event, in the transaction of the event.
SaveInTransaction(p, a) ==
    /\ Writable(p, a)
    /\ last' = [last EXCEPT ![a] = @ + 1]
    /\ lock' = [lock EXCEPT ![a] = p]
    /\ tx' = [tx EXCEPT ![a] = last'[a]]
    /\ todo' = [todo EXCEPT ![p] = SaveSignal(a)]
    /\ UNCHANGED <<row, committed, queue, doc, up, history>>

\* The deletion of an alert, and post_delete, in one transaction.
DeleteInTransaction(p, a) ==
    /\ Idle(p)
    /\ lock[a] = Nobody
    /\ row[a] # 0
    /\ lock' = [lock EXCEPT ![a] = p]
    /\ tx' = [tx EXCEPT ![a] = 0]
    /\ todo' = [todo EXCEPT ![p] = <<Send("delete", a)>>]
    /\ UNCHANGED <<row, last, committed, queue, doc, up, history>>

Commit(p, a) ==
    /\ lock[a] = p
    /\ todo[p] = << >>
    /\ row' = [row EXCEPT ![a] = tx[a]]
    /\ committed' = [committed EXCEPT ![a] = IF tx[a] = 0 THEN @ ELSE @ \cup {tx[a]}]
    /\ lock' = [lock EXCEPT ![a] = Nobody]
    /\ tx' = [tx EXCEPT ![a] = 0]
    /\ UNCHANGED <<last, queue, todo, doc, up, history>>

Miss(S) == missed' = missed \cup S

\* A later statement of the transaction raises, or its commit: of an event or
\* of a deletion, whose removal from the index is already sent.
Rollback(p, a) ==
    /\ lock[a] = p
    /\ todo[p] = << >>
    /\ lock' = [lock EXCEPT ![a] = Nobody]
    /\ tx' = [tx EXCEPT ![a] = 0]
    /\ \/ tx[a] # 0 /\ UNCHANGED <<spent, missed>>
       \/ /\ tx[a] = 0 /\ MayDisturb
          /\ spent' = [spent EXCEPT !.undone = @ + 1]
          /\ Miss({a})
    /\ UNCHANGED <<row, last, committed, queue, todo, doc, up, overtaken>>

-----------------------------------------------------------------------------
(* The queue *)

\* Variant: the message of a sync carries the document.
SendDocument(p) ==
    LET op == Head(todo[p]) IN
    /\ Next1(p, "send")
    /\ queue' = Append(queue, IF op.what = "sync" THEN Write("put", op.id, Seen(p, op.id))
                                                 ELSE Do(op.what, op.id))
    /\ Then(p, << >>)
    /\ UNCHANGED <<rows, doc, up, history>>

SendTask(p) ==
    /\ Next1(p, "send")
    /\ queue' = Append(queue, Do(Head(todo[p]).what, Head(todo[p]).id))
    /\ Then(p, << >>)
    /\ UNCHANGED <<rows, doc, up, history>>

\* delay() raises: the sender runs the task.
RunInline(p) ==
    /\ BrokerMayFail /\ (refused \/ MayDisturb) /\ refused' = TRUE
    /\ Next1(p, "send")
    /\ Then(p, <<Do(Head(todo[p]).what, Head(todo[p]).id)>>)
    /\ UNCHANGED <<rows, queue, doc, up, history>>

\* A rebuild is sent from a shell; no alert is meant by its id.
SendRebuild ==
    /\ spent.rebuilds < MaxRebuilds /\ MayDisturb
    /\ spent' = [spent EXCEPT !.rebuilds = @ + 1]
    /\ \E a \in Alerts : queue' = Append(queue, Do("rebuild", a))
    /\ UNCHANGED <<rows, todo, doc, up, missed, overtaken>>

Take(w) ==
    /\ Idle(w)
    /\ queue # << >>
    /\ todo' = [todo EXCEPT ![w] = <<Head(queue)>>]
    /\ queue' = Tail(queue)
    /\ UNCHANGED <<rows, doc, up, history>>

-----------------------------------------------------------------------------
(* Task bodies *)

\* sync_alert_index: a row that is not there, or an index that does not
\* answer, ends the task and nothing tries again.
Sync(p) ==
    LET a == Head(todo[p]).id IN
    /\ Next1(p, "sync")
    /\ IF Seen(p, a) # 0 /\ up THEN Then(p, <<Write("put", a, Seen(p, a))>>)
                               ELSE Then(p, << >>)
    /\ Miss(IF up THEN {} ELSE {a})
    /\ UNCHANGED <<rows, queue, doc, up, spent, overtaken>>

\* No transaction and no deletion of the alert is under way.
Undisturbed(a) ==
    /\ lock[a] = Nobody
    /\ \A i \in DOMAIN queue : queue[i] # Do("delete", a)
    /\ \A p \in Procs : \A i \in DOMAIN todo[p] : todo[p][i] # Do("delete", a)

\* p has read a content of a that it has not written yet.
Holds(p, a) == \E i \in DOMAIN todo[p] : todo[p][i].task \in {"put", "bulk"} /\ todo[p][i].id = a

\* The PUT of sync_alert: it asks for no version of the document.
PutTo(p, a, v) ==
    /\ up
    /\ doc' = [doc EXCEPT ![a] = v]
    /\ overtaken' = [q \in Procs |-> IF q = p THEN overtaken[p] \ {a}
                                    ELSE IF Holds(q, a) THEN overtaken[q] \cup {a}
                                    ELSE overtaken[q]]
    /\ missed' = IF v = row[a] THEN IF Undisturbed(a) THEN missed \ {a} ELSE missed
                 ELSE IF a \in overtaken[p] THEN missed \cup {a} ELSE missed
    /\ Then(p, << >>)

Put(p) ==
    LET op == Head(todo[p]) IN
    /\ Next1(p, "put")
    /\ \/ PutTo(p, op.id, op.ver)
       \/ /\ ~up /\ Then(p, << >>) /\ Miss({op.id}) /\ UNCHANGED doc
          /\ overtaken' = [overtaken EXCEPT ![p] = {}]
    /\ UNCHANGED <<rows, queue, up, spent>>

\* Variant: the document is emptied, not removed.
DeleteToNull(p) ==
    /\ Next1(p, "delete")
    /\ doc' = [doc EXCEPT ![Head(todo[p]).id] = Nobody]
    /\ Then(p, << >>)
    /\ UNCHANGED <<rows, queue, up, history>>

\* delete_alert_index and remove_alert.
Delete(p) ==
    LET a == Head(todo[p]).id IN
    /\ Next1(p, "delete")
    /\ doc' = IF up THEN [doc EXCEPT ![a] = 0] ELSE doc
    /\ Miss(IF up THEN {} ELSE {a})
    /\ Then(p, << >>)
    /\ UNCHANGED <<rows, queue, up, spent, overtaken>>

\* extract_iocs_task reads the alert ...
ReadIocs(p) ==
    LET a == Head(todo[p]).id IN
    /\ Next1(p, "iocs")
    /\ Then(p, IF Seen(p, a) # 0 THEN <<Do("saveIocs", a)>> ELSE << >>)
    /\ UNCHANGED <<rows, queue, doc, up, history>>

\* Variant: post_save does not look at update_fields.
IocSignalAlways(a) == SaveSignal(a)

\* ... and saves its indicators: the UPDATE waits for the row's lock and
\* raises when the row is gone.  Its own post_save sends only a sync.
IocSignal(a) == <<Send("sync", a)>>

SaveIocs(p) ==
    LET a == Head(todo[p]).id IN
    /\ Next1(p, "saveIocs")
    /\ lock[a] \in {Nobody, p}
    /\ IF Seen(p, a) # 0 THEN Then(p, IocSignal(a))
                         ELSE todo' = [todo EXCEPT ![p] = << >>]
    /\ UNCHANGED <<rows, queue, doc, up, history>>

\* The ways to list a set.
Orders(S) == {s \in [1..Cardinality(S) -> S] :
                  \A i, j \in 1..Cardinality(S) : s[i] = s[j] => i = j}

\* rebuild writes every alert of one query, and stops at the first failure.
Rebuild(p) ==
    LET live == {a \in Alerts : row[a] # 0} IN
    /\ Next1(p, "rebuild")
    /\ IF up THEN \E s \in Orders(live) :
                      Then(p, [i \in DOMAIN s |-> Write("bulk", s[i], row[s[i]])])
             ELSE Then(p, << >>)
    /\ UNCHANGED <<rows, queue, doc, up, history>>

BulkPut(p) ==
    LET op == Head(todo[p]) IN
    /\ Next1(p, "bulk")
    /\ \/ PutTo(p, op.id, op.ver)
       \/ /\ ~up /\ todo' = [todo EXCEPT ![p] = << >>] /\ UNCHANGED <<doc, missed>>
          /\ overtaken' = [overtaken EXCEPT ![p] = {}]
    /\ UNCHANGED <<rows, queue, up, spent>>

-----------------------------------------------------------------------------
(* Failures *)

\* A process dies: the task it took is not delivered again (celery
\* acknowledges early), and its transaction is rolled back.
Crash(p) ==
    LET held == {a \in Alerts : lock[a] = p} IN
    /\ ~Idle(p)
    /\ spent.crashes < MaxCrashes /\ MayDisturb
    /\ spent' = [spent EXCEPT !.crashes = @ + 1]
    /\ lock' = [a \in Alerts |-> IF a \in held THEN Nobody ELSE lock[a]]
    /\ tx' = [a \in Alerts |-> IF a \in held THEN 0 ELSE tx[a]]
    /\ Miss(held \cup {todo[p][i].id : i \in DOMAIN todo[p]})
    /\ todo' = [todo EXCEPT ![p] = << >>]
    /\ overtaken' = [overtaken EXCEPT ![p] = {}]
    /\ UNCHANGED <<row, last, committed, queue, doc, up>>

IndexFails ==
    /\ up
    /\ spent.outages < MaxOutages /\ MayDisturb
    /\ spent' = [spent EXCEPT !.outages = @ + 1]
    /\ up' = FALSE
    /\ UNCHANGED <<rows, queue, todo, doc, missed, overtaken>>

IndexRecovers ==
    /\ ~up
    /\ up' = TRUE
    /\ UNCHANGED <<rows, queue, todo, doc, history>>

-----------------------------------------------------------------------------

\* What a process does once its work is started, with the broker or without.
Step(p) ==
    \/ SendTask(p)
    \/ Sync(p) \/ Put(p) \/ Delete(p) \/ ReadIocs(p) \/ SaveIocs(p)
    \/ Rebuild(p) \/ BulkPut(p)
    \/ \E a \in Alerts : Commit(p, a) \/ Rollback(p, a)

Works(p) == (Step(p) /\ UNCHANGED refused) \/ RunInline(p)

Else ==
    \/ \E p \in Requests, a \in Alerts :
           Save(p, a) \/ SaveInTransaction(p, a) \/ DeleteInTransaction(p, a)
    \/ \E p \in Procs : Crash(p)
    \/ SendRebuild \/ IndexFails \/ IndexRecovers

Next ==
    \/ \E p \in Procs : Works(p)
    \/ \E w \in Workers : Take(w) /\ UNCHANGED refused
    \/ Else /\ UNCHANGED refused

\* The operating system runs every process, and an idle worker takes the
\* next task.  Nobody has to write an alert, and nothing has to fail.
Fairness == /\ \A p \in Procs : WF_vars(Works(p))
            /\ \A w \in Workers : WF_vars(Take(w) /\ UNCHANGED refused)

Spec     == Init /\ [][Next]_vars
FairSpec == Spec /\ Fairness

-----------------------------------------------------------------------------
(* Properties *)

\* Shape of the state.
ShapeOK ==
    /\ row \in [Alerts -> Nat] /\ last \in [Alerts -> Nat]
    /\ lock \in [Alerts -> Procs \cup {Nobody}] /\ tx \in [Alerts -> Nat]
    /\ queue \in Seq(Op) /\ todo \in [Procs -> Seq(Op)]
    /\ doc \in [Alerts -> Nat] /\ up \in BOOLEAN
    /\ spent \in [outages: Nat, crashes: Nat, rebuilds: Nat, undone: Nat]
    /\ committed \in [Alerts -> SUBSET Nat]
    /\ overtaken \in [Procs -> SUBSET Alerts] /\ missed \subseteq Alerts

TypeOK == ShapeOK /\ refused \in BOOLEAN

Settled == queue = << >> /\ \A p \in Procs : Idle(p)

\* Although signals fire inside open transactions, a search never finds what
\* no transaction committed: a task carries the key of the alert, and reads
\* the row when it runs, not when it was sent.  Once the broker has refused a
\* message, a task has run inside a transaction and this may be lost.
DocsCommitted == \A a \in Alerts : doc[a] # 0 => doc[a] \in committed[a]
OnlyCommittedShown == ~refused => DocsCommitted

\* When the work is done, what the index lacks of a live alert is nothing, or
\* all of it; and then the alert was inserted and never written again: its
\* tasks ran before its transaction committed.  An alert that is updated in a
\* transaction is caught up by the indicators' save, which waits for the commit
\* and sends another sync.  What else makes the index lack an alert is named
\* by missed: an outage, a process that died, a deletion rolled back after its
\* removal was sent, and a process of the pool that was overtaken between the
\* row and the document.  (A broker that has refused nothing.)
StaleOnlyIfNew ==
    Settled /\ ~refused => \A a \in Alerts \ missed :
        row[a] # 0 => \/ doc[a] = row[a]
                      \/ doc[a] = 0 /\ committed[a] = {row[a]}

\* Whatever rebuilds, indicator saves and syncs a pool of workers has under
\* way, a document is replaced by an older content of its alert by none but a
\* process that another one overtook after it had read the row: what waits in
\* the queue is never older than what is written.  (A broker that has refused
\* nothing: a task run by its sender reads what is not committed.)
IndexNeverGoesBack ==
    [][~refused => \A a \in Alerts : doc'[a] # 0 =>
           \/ doc'[a] >= doc[a]
           \/ \E p \in Procs : a \in overtaken[p] \ overtaken'[p]]_vars

\* The work that writes cause comes to an end: a save of indicators does not
\* cause another one, and the wait for a row's lock is never circular.
Settles == []<>Settled

=============================================================================
