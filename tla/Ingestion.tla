------------------------------ MODULE Ingestion ------------------------------
(***************************************************************************)
(* Concurrent executions of run_ingestion_for_source on ONE source         *)
(* (tenant_data/ingestion/service.py).  An execution is a celery task      *)
(* (beat schedule or "run now") or a webhook request; nothing in the code  *)
(* prevents two of them from overlapping, so executions interleave at      *)
(* every statement that reads or writes the database.  PostgreSQL runs at  *)
(* READ COMMITTED: what a transaction wrote becomes visible at its commit, *)
(* which is one action here; its reads are actions of their own.           *)
(*                                                                         *)
(* Meanwhile users delete alerts, and the update of the source rewrites    *)
(* and deletes its alert type rules (SourceSerializer.update), request by  *)
(* request, without a transaction.                                         *)
(*                                                                         *)
(* Abstracted: payloads, severities and titles' text.  An event is its     *)
(* fingerprint, its title (which selects a SourceAlertTypeRule), its       *)
(* timestamp, and whether it parses.                                       *)
(*                                                                         *)
(* raced, torn and doubted are history: no action reads them.  They name   *)
(* what two read-then-write sequences crossed on, so that the properties   *)
(* say exactly what the missing locks and constraints may spoil.           *)
(***************************************************************************)
EXTENDS Naturals, Sequences, FiniteSets

CONSTANTS
    Runs,          \* executions that may happen
    Keys,          \* dedup fingerprints
    Titles,        \* event titles
    Batches,       \* what a fetch, or a webhook body, may contain
    MaxActive,     \* executions the workers run at the same time
    MaxRequests,   \* bound on what users do: deletions of alerts, and updates of
                   \* the source's rules (these one at a time)
    NoAlert        \* the NULL of IngestionEventLog.alert

\* "ok" parses; "unparsed" makes parse_event raise; "bad" is not a dict, on
\* which parse_event_timestamp raises.
EventKinds == {"ok", "unparsed", "bad"}
Event == [key: Keys, title: Titles, time: Nat, kind: EventKinds]

ASSUME BatchesAssumption == Batches \subseteq Seq(Event)
ASSUME BoundsAssumption  == MaxActive \in Nat \ {0} /\ MaxRequests \in Nat
ASSUME NoAlertAssumption == NoAlert \notin Runs \cup (Runs \X Nat)

\* An alert is named by the run and the position of the event that made it.
AlertId    == Runs \X Nat
Occurrence == [count: Nat, first: Nat, last: Nat]
Alert      == [key: Keys, time: Nat, unparsed: BOOLEAN, occ: Occurrence]
Row        == [status: {"none", "running", "success", "partial", "error"},
               processed: Nat, created: Nat, updated: Nat, errors: Nat]
Summary    == [created: Nat, updated: Nat, errors: Nat]
\* The SourceAlertTypeRule of a title: its primary key (the number of rules the
\* title has had) and received_count, which mean nothing when it is not there.
Rule       == [there: BOOLEAN, id: Nat, count: Nat]
NoRule     == [there |-> FALSE, id |-> 0, count |-> 0]
LogEntry   == [run: Runs, pos: Nat, action: {"created", "updated", "error"},
               alert: AlertId \cup {NoAlert}]

VARIABLES
    pc,        \* where each execution stands
    batch,     \* the events it fetched
    pos,       \* summary.processed, also the index of its current event
    sum,       \* summary.created, .updated and .errors
    target,    \* the alert that get_or_create returned
    seen,      \* the occurrence it read
    received,  \* the rule it read
    run,       \* table IngestionRun
    alert,     \* tables Alert and AlertOccurrence (one to one)
    tagged,    \* alerts that carry the tag #unparsed
    log,       \* table IngestionEventLog
    rule,      \* table SourceAlertTypeRule, by title
    policy,    \* the source has a DedupPolicy
    health,    \* SourceConfig.status and the run that health_details describe
    deleted,   \* alerts that users have deleted
    edit,      \* the rules an update of the source has read and not yet handled
    edits,     \* such updates so far
    raced,     \* fingerprints that two executions were creating at once
    torn,      \* alerts updated while another execution held their occurrence
    doubted    \* titles whose rule was deleted, or saved under a held copy

reads    == <<target, seen, received>>
progress == <<pc, batch, pos, sum, reads>>
editing  == <<edit, edits>>
history  == <<raced, torn, doubted>>
store    == <<run, alert, tagged, log, rule, policy, health, deleted, editing,
              history>>
vars     == <<progress, store>>

Active == {r \in Runs : pc[r] \notin {"idle", "done", "raised", "crashed"}}
Cur(r) == batch[r][pos[r]]
Me(r)  == <<r, pos[r]>>

Goto(r, l) == pc' = [pc EXCEPT ![r] = l]

\* The row that the defaults of a model give, and an untouched summary.
EmptyRow == [status |-> "none", processed |-> 0, created |-> 0,
             updated |-> 0, errors |-> 0]
NoSum    == [created |-> 0, updated |-> 0, errors |-> 0]
NoOcc    == [count |-> 0, first |-> 0, last |-> 0]

Init ==
    /\ pc      = [r \in Runs |-> "idle"]
    /\ batch   = [r \in Runs |-> << >>]
    /\ pos     = [r \in Runs |-> 0]
    /\ sum     = [r \in Runs |-> NoSum]
    /\ target   = [r \in Runs |-> NoAlert]
    /\ seen     = [r \in Runs |-> NoOcc]
    /\ received = [r \in Runs |-> NoRule]
    /\ run     = [r \in Runs |-> EmptyRow]
    /\ alert   = << >>
    /\ tagged  = {}
    /\ log     = {}
    /\ rule    = [t \in Titles |-> NoRule]
    /\ policy \in BOOLEAN
    /\ health  = [status |-> "never", by |-> NoAlert]
    /\ deleted = {}
    /\ edit    = << >>
    /\ edits   = 0
    /\ raced   = {} /\ torn = {} /\ doubted = {}

-----------------------------------------------------------------------------
(* Before the events *)

\* The IngestionRun row is created before anything can fail.  The source was
\* loaded with its dedup policy, so a missing one is noticed from that read.
Start(r) ==
    /\ pc[r] = "idle"
    /\ Cardinality(Active) < MaxActive
    /\ run' = [run EXCEPT ![r].status = "running"]
    /\ Goto(r, IF policy THEN "fetch" ELSE "policy")
    /\ UNCHANGED <<batch, pos, sum, reads, alert, tagged, log, rule, policy,
                   health, deleted, editing, history>>

\* DedupPolicy.source is one to one: a second creation raises, outside the
\* try block, and the run's row stays as it is.
CreatePolicy(r) ==
    /\ pc[r] = "policy"
    /\ policy' = TRUE
    /\ Goto(r, IF policy THEN "raised" ELSE "fetch")
    /\ UNCHANGED <<batch, pos, sum, reads, run, alert, tagged, log, rule,
                   health, deleted, editing, history>>

Fetch(r) ==
    /\ pc[r] = "fetch"
    /\ \E b \in Batches : batch' = [batch EXCEPT ![r] = b]
    /\ Goto(r, "event")
    /\ UNCHANGED <<pos, sum, reads, store>>

\* The connector, or the default alert state, raises.
FetchFails(r) ==
    /\ pc[r] = "fetch"
    /\ Goto(r, "failing")
    /\ UNCHANGED <<batch, pos, sum, reads, store>>

-----------------------------------------------------------------------------
(* One event: its alert type rule, saved outside the transaction *)

Count(s, c, u, x) ==
    [created |-> s.created + c, updated |-> s.updated + u, errors |-> s.errors + x]

Tally(r, c, u, x) == sum' = [sum EXCEPT ![r] = Count(@, c, u, x)]

\* The locals of one iteration are dead when it ends.
EndEvent(r) ==
    /\ target'   = [target EXCEPT ![r] = NoAlert]
    /\ seen'     = [seen EXCEPT ![r] = NoOcc]
    /\ received' = [received EXCEPT ![r] = NoRule]

\* "bad" events raise before the rule is looked up.
BadEvent(r) ==
    /\ pc[r] = "event" /\ pos[r] < Len(batch[r])
    /\ batch[r][pos[r] + 1].kind = "bad"
    /\ pos' = [pos EXCEPT ![r] = @ + 1]
    /\ Tally(r, 0, 0, 1)
    /\ Goto(r, "errlog")
    /\ UNCHANGED <<batch, reads, store>>

Title(r)     == Cur(r).title
NextTitle(r) == batch[r][pos[r] + 1].title

\* The rule that the title selects, or a new one: (source, name, mode) is unique,
\* so that get_or_create of two executions ends with one row.
Found(t) == IF rule[t].there THEN rule[t]
            ELSE [there |-> TRUE, id |-> rule[t].id + 1, count |-> 0]

ReadRule(r) ==
    /\ pc[r] = "event" /\ pos[r] < Len(batch[r])
    /\ batch[r][pos[r] + 1].kind # "bad"
    /\ pos' = [pos EXCEPT ![r] = @ + 1]
    /\ rule' = [rule EXCEPT ![NextTitle(r)] = Found(NextTitle(r))]
    /\ received' = [received EXCEPT ![r] = Found(NextTitle(r))]
    /\ Goto(r, "rule")
    /\ UNCHANGED <<batch, sum, target, seen, run, alert, tagged, log, policy,
                   health, deleted, editing, history>>

\* Somebody else has read the rule of title t and is going to save what it read.
RuleHeld(r, t) ==
    \/ \E s \in Runs \ {r} : pc[s] = "rule" /\ Title(s) = t
    \/ t \in DOMAIN edit

\* The row that was read is still there.
SameRule(r) == rule[Title(r)].there /\ rule[Title(r)].id = received[r].id

\* received_count += 1 on the instance that was read, saved outside the
\* transaction.
SaveRule(r) ==
    /\ pc[r] = "rule"
    /\ SameRule(r)
    /\ rule' = [rule EXCEPT ![Title(r)].count = received[r].count + 1]
    /\ doubted' = IF RuleHeld(r, Title(r)) THEN doubted \cup {Title(r)} ELSE doubted
    /\ Goto(r, "lookup")
    /\ UNCHANGED <<batch, pos, sum, reads, run, alert, tagged, log, policy,
                   health, deleted, editing, raced, torn>>

\* The rule was deleted meanwhile, whether or not another event has made a new
\* one since: a save with update_fields that finds no row raises.
RuleGone(r) ==
    /\ pc[r] = "rule"
    /\ ~SameRule(r)
    /\ Tally(r, 0, 0, 1)
    /\ Goto(r, "errlog")
    /\ EndEvent(r)
    /\ UNCHANGED <<batch, pos, store>>

-----------------------------------------------------------------------------
(* One event: the transaction *)

\* Variant: the filter also compares the event's timestamp.
MatchingOnTime(e) == {a \in DOMAIN alert : /\ alert[a].key = e.key
                                           /\ alert[a].time = e.time}

\* customer and source_name are those of the one source: the fingerprint tells.
Matching(e) == {a \in DOMAIN alert : alert[a].key = e.key}

\* get_or_create finds nothing, one alert, or raises MultipleObjectsReturned.
LookupNone(r) ==
    /\ pc[r] = "lookup"
    /\ Matching(Cur(r)) = {}
    /\ raced' = IF \E s \in Runs \ {r} : pc[s] = "create" /\ Cur(s).key = Cur(r).key
                THEN raced \cup {Cur(r).key} ELSE raced
    /\ Goto(r, "create")
    /\ UNCHANGED <<batch, pos, sum, reads, run, alert, tagged, log, rule, policy,
                   health, deleted, editing, torn, doubted>>

\* Variant: the first match is updated, as filter().first() would.
LookupFirst(r) ==
    /\ pc[r] = "lookup"
    /\ \E a \in Matching(Cur(r)) : target' = [target EXCEPT ![r] = a]
    /\ Goto(r, "occurrence")
    /\ UNCHANGED <<batch, pos, sum, seen, received, store>>

LookupOne(r) ==
    /\ pc[r] = "lookup"
    /\ \E a \in Matching(Cur(r)) :
          /\ Matching(Cur(r)) = {a}
          /\ target' = [target EXCEPT ![r] = a]
    /\ Goto(r, "occurrence")
    /\ UNCHANGED <<batch, pos, sum, seen, received, store>>

\* Variant: the lookup is retried until one alert is left.
LookupManyRetries(r) ==
    /\ pc[r] = "lookup"
    /\ \E a, b \in Matching(Cur(r)) : a # b
    /\ UNCHANGED vars

LookupMany(r) ==
    /\ pc[r] = "lookup"
    /\ \E a, b \in Matching(Cur(r)) : a # b
    /\ Tally(r, 0, 0, 1)
    /\ Goto(r, "errlog")
    /\ EndEvent(r)
    /\ UNCHANGED <<batch, pos, store>>

ReadOccurrence(r) ==
    /\ pc[r] = "occurrence"
    /\ target[r] \in DOMAIN alert
    /\ seen' = [seen EXCEPT ![r] = alert[target[r]].occ]
    /\ Goto(r, "update")
    /\ UNCHANGED <<batch, pos, sum, target, received, store>>

\* An alert deleted meanwhile makes a save with update_fields raise; the
\* transaction rolls back before summary.updated counts it.
TargetGone(r) ==
    /\ pc[r] \in {"occurrence", "update"}
    /\ target[r] \notin DOMAIN alert
    /\ Tally(r, 0, 0, 1)
    /\ Goto(r, "errlog")
    /\ EndEvent(r)
    /\ UNCHANGED <<batch, pos, store>>

Lower(x, y)  == IF x < y THEN x ELSE y
Higher(x, y) == IF x > y THEN x ELSE y

\* Variant: last_seen is written without looking at the stored one.
IncrementLatest(o, t) ==
    [count |-> o.count + 1, first |-> Lower(o.first, t), last |-> t]

Increment(o, t) ==
    [count |-> o.count + 1, first |-> Lower(o.first, t),
     last |-> Higher(o.last, t)]

Put(f, x, v) == [y \in DOMAIN f \cup {x} |-> IF y = x THEN v ELSE f[y]]

\* What every committed transaction leaves: the alert a with content v, the tag
\* when the event did not parse, and the event's line in the log.
Commit(r, a, v, action) ==
    /\ alert'  = Put(alert, a, v)
    /\ tagged' = IF v.unparsed THEN tagged \cup {a} ELSE tagged
    /\ log'    = log \cup {[run |-> r, pos |-> pos[r], action |-> action,
                            alert |-> a]}
    /\ Goto(r, "event")
    /\ EndEvent(r)
    /\ UNCHANGED <<batch, pos, run, rule, policy, health, deleted, editing>>

CommitCreate(r) ==
    LET e == Cur(r) IN
    /\ pc[r] = "create"
    /\ Commit(r, Me(r),
              [key |-> e.key, time |-> e.time, unparsed |-> e.kind = "unparsed",
               occ |-> [count |-> 1, first |-> e.time, last |-> e.time]],
              "created")
    /\ Tally(r, 1, 0, 0)
    /\ UNCHANGED history

CommitUpdate(r) ==
    LET e == Cur(r)
        a == target[r] IN
    /\ pc[r] = "update"
    /\ a \in DOMAIN alert
    /\ Commit(r, a,
              [key |-> alert[a].key, time |-> e.time,
               unparsed |-> e.kind = "unparsed",
               occ |-> Increment(seen[r], e.time)],
              "updated")
    /\ Tally(r, 0, 1, 0)
    /\ torn' = IF \E s \in Runs \ {r} : pc[s] = "update" /\ target[s] = a
               THEN torn \cup {a} ELSE torn
    /\ UNCHANGED <<raced, doubted>>

\* Variant: no transaction.atomic, the occurrence stays incremented.
RolledBackNotAtomic(r) ==
    /\ pc[r] = "update" /\ target[r] \in DOMAIN alert
    /\ alert' = [alert EXCEPT ![target[r]].occ = Increment(seen[r], Cur(r).time)]
    /\ Tally(r, 0, 1, 1)
    /\ Goto(r, "errlog")
    /\ EndEvent(r)
    /\ UNCHANGED <<batch, pos, run, tagged, log, rule, policy, health, deleted, editing, history>>

\* Variant: a rolled back event leaves no line in the log.
RolledBackUnlogged(r) ==
    /\ pc[r] \in {"create", "update"}
    /\ pc[r] = "update" => target[r] \in DOMAIN alert
    /\ Tally(r, 0, 0, 1)
    /\ Goto(r, "event")
    /\ EndEvent(r)
    /\ UNCHANGED <<batch, pos, store>>

\* A statement of the transaction raises: the rows are rolled back, but a
\* summary that was already incremented (the tag, the log line and deferred
\* foreign keys come after it, the signal handlers of the alert before) is not.
RolledBack(r) ==
    /\ pc[r] \in {"create", "update"}
    /\ pc[r] = "update" => target[r] \in DOMAIN alert
    /\ \E n \in {0, 1} :
          IF pc[r] = "create" THEN Tally(r, n, 0, 1) ELSE Tally(r, 0, n, 1)
    /\ Goto(r, "errlog")
    /\ EndEvent(r)
    /\ UNCHANGED <<batch, pos, store>>

LogError(r) ==
    /\ pc[r] = "errlog"
    /\ log' = log \cup {[run |-> r, pos |-> pos[r], action |-> "error",
                         alert |-> NoAlert]}
    /\ Goto(r, "event")
    /\ UNCHANGED <<batch, pos, sum, reads, run, alert, tagged, rule, policy,
                   health, deleted, editing, history>>

\* An exception inside the handler leaves the loop.
LogErrorFails(r) ==
    /\ pc[r] = "errlog"
    /\ Goto(r, "failing")
    /\ UNCHANGED <<batch, pos, sum, reads, store>>

-----------------------------------------------------------------------------
(* After the events *)

\* Variant: a run is successful as long as something was stored.
StatusIfAny(s) == IF s.errors = 0 \/ s.created + s.updated > 0
                  THEN "success" ELSE "partial"

FinalStatus(s) == IF s.errors = 0 THEN "success" ELSE "partial"

SaveRun(r) ==
    /\ pc[r] = "event" /\ pos[r] = Len(batch[r])
    /\ run' = [run EXCEPT ![r] =
                 [status |-> FinalStatus(sum[r]), processed |-> pos[r],
                  created |-> sum[r].created, updated |-> sum[r].updated,
                  errors |-> sum[r].errors]]
    /\ Goto(r, "health")
    /\ UNCHANGED <<batch, pos, sum, reads, alert, tagged, log, rule, policy,
                   health, deleted, editing, history>>

SaveHealthy(r) ==
    /\ pc[r] = "health"
    /\ health' = [status |-> "healthy", by |-> r]
    /\ Goto(r, "done")
    /\ UNCHANGED <<batch, pos, sum, reads, run, alert, tagged, log, rule,
                   policy, deleted, editing, history>>

\* run.save or source_config.save raises: the run, saved or not, becomes an
\* error, and its instance already carries the summary's error count.
LateFailure(r) ==
    /\ \/ pc[r] = "event" /\ pos[r] = Len(batch[r])
       \/ pc[r] = "health"
    /\ Goto(r, "failingLate")
    /\ UNCHANGED <<batch, pos, sum, reads, store>>

\* Variant: a run that was saved keeps its status.
SaveFailedRunKeeping(r) ==
    /\ pc[r] \in {"failing", "failingLate"}
    /\ run' = [run EXCEPT ![r].status = IF @ = "running" THEN "error" ELSE @]
    /\ Goto(r, "unhealthy")
    /\ UNCHANGED <<batch, pos, sum, reads, alert, tagged, log, rule, policy,
                   health, deleted, editing, history>>

SaveFailedRun(r) ==
    /\ pc[r] \in {"failing", "failingLate"}
    /\ run' = [run EXCEPT ![r] =
                 [@ EXCEPT !.status = "error",
                           !.errors = IF pc[r] = "failing" THEN 1
                                      ELSE Higher(sum[r].errors, 1)]]
    /\ Goto(r, "unhealthy")
    /\ UNCHANGED <<batch, pos, sum, reads, alert, tagged, log, rule, policy,
                   health, deleted, editing, history>>

SaveUnhealthy(r) ==
    /\ pc[r] = "unhealthy"
    /\ health' = [status |-> "error", by |-> r]
    /\ Goto(r, "done")
    /\ UNCHANGED <<batch, pos, sum, reads, run, alert, tagged, log, rule,
                   policy, deleted, editing, history>>

-----------------------------------------------------------------------------
(* The environment *)

\* The worker is killed.  Celery acknowledged the task when it started, so it
\* is not delivered again; an open transaction is rolled back.
Crash(r) ==
    /\ r \in Active
    /\ Goto(r, "crashed")
    /\ EndEvent(r)
    /\ UNCHANGED <<batch, pos, sum, store>>

\* Variant: the tags of a deleted alert stay.
DeleteAlertKeepsTags(a) ==
    /\ a \in DOMAIN alert
    /\ Cardinality(deleted) + edits < MaxRequests
    /\ alert'   = [x \in DOMAIN alert \ {a} |-> alert[x]]
    /\ log'     = {IF l.alert = a THEN [l EXCEPT !.alert = NoAlert] ELSE l : l \in log}
    /\ deleted' = deleted \cup {a}
    /\ UNCHANGED <<progress, run, tagged, rule, policy, health, editing, history>>

\* AlertViewSet.destroy: the occurrence and the tags go with the alert, the
\* log keeps its lines (SET_NULL).
DeleteAlert(a) ==
    /\ a \in DOMAIN alert
    /\ Cardinality(deleted) + edits < MaxRequests
    /\ alert'   = [x \in DOMAIN alert \ {a} |-> alert[x]]
    /\ tagged'  = tagged \ {a}
    /\ log'     = {IF l.alert = a THEN [l EXCEPT !.alert = NoAlert] ELSE l : l \in log}
    /\ deleted' = deleted \cup {a}
    /\ UNCHANGED <<progress, run, rule, policy, health, editing, history>>

\* SourceSerializer.update reads the rules of the source with one query.
ReadRules ==
    /\ edit = << >>
    /\ Cardinality(deleted) + edits < MaxRequests
    /\ edits' = edits + 1
    /\ edit' = [t \in {u \in Titles : rule[u].there} |-> rule[t]]
    /\ UNCHANGED <<progress, run, alert, tagged, log, rule, policy, health, deleted,
                   history>>

\* A rule that the request names is saved as a whole, with the received_count
\* that was read.
RewriteRule(t) ==
    /\ t \in DOMAIN edit
    /\ rule' = [rule EXCEPT ![t] = edit[t]]
    /\ edit' = [u \in DOMAIN edit \ {t} |-> edit[u]]
    /\ UNCHANGED <<progress, run, alert, tagged, log, policy, health, deleted, edits,
                   history>>

\* The rules that the request does not name are deleted, by one statement at the
\* end.
DropRules ==
    /\ edit # << >>
    /\ rule' = [t \in Titles |->
                  IF t \in DOMAIN edit THEN [rule[t] EXCEPT !.there = FALSE, !.count = 0]
                  ELSE rule[t]]
    /\ doubted' = doubted \cup DOMAIN edit
    /\ edit' = << >>
    /\ UNCHANGED <<progress, run, alert, tagged, log, policy, health, deleted, edits,
                   raced, torn>>

\* A save of the request raises, or its worker stops: what it saved stays.
StopEdit ==
    /\ edit # << >>
    /\ edit' = << >>
    /\ UNCHANGED <<progress, run, alert, tagged, log, rule, policy, health, deleted,
                   edits, history>>

-----------------------------------------------------------------------------

\* What an execution does by itself once its events are there.
Work(r) ==
    \/ BadEvent(r) \/ ReadRule(r) \/ SaveRule(r) \/ RuleGone(r)
    \/ LookupNone(r) \/ LookupOne(r) \/ LookupMany(r)
    \/ ReadOccurrence(r) \/ TargetGone(r)
    \/ CommitCreate(r) \/ CommitUpdate(r) \/ RolledBack(r)
    \/ LogError(r) \/ LogErrorFails(r)
    \/ SaveRun(r) \/ SaveHealthy(r) \/ LateFailure(r)
    \/ SaveFailedRun(r) \/ SaveUnhealthy(r)

Step(r) == CreatePolicy(r) \/ Fetch(r) \/ FetchFails(r) \/ Work(r)

\* What updates of the source do to its rules.
EditRules == ReadRules \/ DropRules \/ StopEdit \/ \E t \in Titles : RewriteRule(t)

Next ==
    \/ \E r \in Runs : Start(r) \/ Step(r) \/ Crash(r)
    \/ \E a \in DOMAIN alert : DeleteAlert(a)
    \/ EditRules

Spec == Init /\ [][Next]_vars

\* Statements on the database return.  A fetch need not: the IMAP connector opens
\* its socket without a timeout, and the tasks have no time limit.
FairSpec == Spec /\ \A r \in Runs : WF_vars(Work(r))

-----------------------------------------------------------------------------
(* Properties *)

Labels == {"idle", "policy", "fetch", "event", "rule", "lookup", "create",
           "occurrence", "update", "errlog", "health", "failing",
           "failingLate", "unhealthy", "done", "raised", "crashed"}

\* Every variable keeps its type; an execution never runs past its batch.
TypeOK ==
    /\ pc \in [Runs -> Labels]
    /\ batch \in [Runs -> Seq(Event)]
    /\ pos \in [Runs -> Nat] /\ \A r \in Runs : pos[r] <= Len(batch[r])
    /\ sum \in [Runs -> Summary]
    /\ target \in [Runs -> AlertId \cup {NoAlert}]
    /\ seen \in [Runs -> Occurrence] /\ received \in [Runs -> Rule]
    /\ run \in [Runs -> Row]
    /\ DOMAIN alert \subseteq AlertId /\ alert \in [DOMAIN alert -> Alert]
    /\ tagged \subseteq DOMAIN alert
    /\ log \subseteq LogEntry
    /\ rule \in [Titles -> Rule]
    /\ policy \in BOOLEAN
    /\ health \in [status: {"never", "healthy", "error"}, by: Runs \cup {NoAlert}]
    /\ deleted \subseteq AlertId
    /\ DOMAIN edit \subseteq Titles /\ edit \in [DOMAIN edit -> Rule]
    /\ edits \in Nat
    /\ raced \subseteq Keys /\ torn \subseteq AlertId /\ doubted \subseteq Titles

Entries(a) == {l \in log : l.alert = a}
Stored     == {l \in log : l.action # "error"}
EventOf(l) == batch[l.run][l.pos]
Lines(r, action) == {l \in log : l.run = r /\ l.action = action}

\* At most one alert carries a fingerprint.  The code relies on get_or_create for
\* it, without a unique constraint, and overlapping runs break it.
UniqueAlert ==
    \A a, b \in DOMAIN alert : alert[a].key = alert[b].key => a = b

\* Deduplication, however executions overlap: two alerts carry a fingerprint only
\* if two executions were between the lookup and the creation for it at once.
DuplicateOnlyIfRaced ==
    \A a, b \in DOMAIN alert :
        alert[a].key = alert[b].key /\ a # b => alert[a].key \in raced

\* The occurrence of an alert is the summary of the log: it counts the events
\* stored on the alert and spans exactly their timestamps, unless an execution
\* updated the alert while another held the occurrence it had read.
OccurrenceSummarisesLog ==
    \A a \in DOMAIN alert \ torn :
        LET o == alert[a].occ
            T == {EventOf(l).time : l \in Entries(a)} IN
        /\ o.count = Cardinality(Entries(a))
        /\ {o.first, o.last} \subseteq T
        /\ \A t \in T : o.first <= t /\ t <= o.last

\* Overlapping runs may lose increments but never invent an occurrence.
CountNeverExceedsLog ==
    \A a \in DOMAIN alert : alert[a].occ.count <= Cardinality(Entries(a))

\* The window first_seen..last_seen contains the timestamp the alert shows,
\* also when an older event is applied after a newer one, by any run.
ShownEventInWindow ==
    \A a \in DOMAIN alert :
        /\ alert[a].occ.first <= alert[a].time
        /\ alert[a].time <= alert[a].occ.last

\* However executions overlap an occurrence claims nothing the log does not
\* show, and its window holds what the alert shows.
OccurrenceIsSound == CountNeverExceedsLog /\ ShownEventInWindow

\* A run that ended normally has one line in the log for each event it
\* fetched, in spite of rollbacks, and none for any other.
EveryEventLoggedOnce ==
    /\ \A l, m \in log : l.run = m.run /\ l.pos = m.pos => l = m
    /\ \A r \in Runs : run[r].status \in {"success", "partial"} =>
          {l.pos : l \in {k \in log : k.run = r}} = 1 .. Len(batch[r])

\* The counters of a run reported as SUCCESS are the numbers of alerts the
\* run really stored: no rollback is hidden behind that status.
SuccessIsExact ==
    \A r \in Runs : run[r].status = "success" =>
        /\ Lines(r, "error") = {}
        /\ run[r].created = Cardinality(Lines(r, "created"))
        /\ run[r].updated = Cardinality(Lines(r, "updated"))
        /\ run[r].processed = run[r].created + run[r].updated

\* The counters of a PARTIAL run bound what it stored from above (a rolled
\* back event is counted as stored and as an error) and its errors are exact.
PartialIsBounded ==
    \A r \in Runs : run[r].status = "partial" =>
        /\ run[r].errors = Cardinality(Lines(r, "error"))
        /\ run[r].errors > 0
        /\ run[r].created >= Cardinality(Lines(r, "created"))
        /\ run[r].updated >= Cardinality(Lines(r, "updated"))

\* The status of a run tells how far its counters may be trusted.
StatusTellsLog == SuccessIsExact /\ PartialIsBounded

\* The health of the source agrees with the run it describes, although the
\* two rows are saved one after the other and either save may fail.
HealthTellsTheRun ==
    health.by \in Runs =>
        (health.status = "healthy" <=>
            run[health.by].status \in {"success", "partial"})

StoredUnder(t) == {<<l.run, l.pos>> : l \in {m \in Stored : EventOf(m).title = t}}

\* A rule has received at least the events that were stored under its title (it
\* is counted before the transaction, so a rollback or a crash leaves it higher,
\* never lower), unless users deleted a rule of the title or a save of the rule
\* met a copy of it that another execution or the update of the source held.
RuleCountCoversLog ==
    \A t \in Titles \ doubted : Cardinality(StoredUnder(t)) <= rule[t].count

\* The derived counters are those of the log but for these crossings.
CountersTellLog == OccurrenceSummarisesLog /\ RuleCountCoversLog

InFlight(a) == \E r \in Runs : /\ pc[r] \in {"occurrence", "update"}
                               /\ target[r] = a

\* Once two alerts share a fingerprint get_or_create raises for it: apart from
\* updates already past their lookup, no event is ever aimed at either of them
\* again while both exist, and neither changes.
DuplicatedKeyIsFrozen ==
    [][\A a, b \in DOMAIN alert :
          /\ a # b /\ alert[a].key = alert[b].key
          /\ ~InFlight(a) /\ {a, b} \subseteq DOMAIN alert'
          => ~InFlight(a)' /\ alert'[a] = alert[a]]_vars

\* An execution whose events are there ends with its final status in its row,
\* through failures of each event, of the error handler and of the final saves,
\* unless its worker is killed.
RunEnds == \A r \in Runs :
    pc[r] = "event" ~> \/ pc[r] = "done" /\ run[r].status # "running"
                       \/ pc[r] = "crashed"
=============================================================================
