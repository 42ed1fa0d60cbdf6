---------------------------- MODULE ParserRevisions ----------------------------
(***************************************************************************)
(* The parser of a source on the server: its numbered revisions and the    *)
(* one in force, which ingestion applies (parser_serializers.py,           *)
(* parser_views.py, the preset of ingestion_views.py).                     *)
(*                                                                         *)
(* A request reads the parser into an instance.  An update first saves     *)
(* EVERY column of its instance, the revision in force with them.  A new   *)
(* text, or a rollback, then reads the latest version, inserts the next    *)
(* one, which a constraint keeps unique, and puts it in force.  Each       *)
(* statement is committed as it is made.                                   *)
(*                                                                         *)
(* Abstracted: a configuration is one of Texts, a revision is known by its *)
(* version, the other columns of the parser are left out.                  *)
(***************************************************************************)
EXTENDS Naturals

CONSTANTS
    Requests,  \* POST, PATCH and rollback of the parser, each made once
    Texts,     \* configurations that parse
    NoText,    \* an update without config_text
    Nobody     \* no request

ASSUME NoTextAssumption == NoText \notin Texts
ASSUME NobodyAssumption == Nobody \notin Requests

VARIABLES
    there,   \* the row ParserDefinition was inserted
    active,  \* its active_revision; 0: none
    revs,    \* table ParserRevision, by version
    told,    \* the active revision that the latest audit entry names
    pc,      \* what each request does next
    kind,    \* what it was made for
    copy,    \* the active revision of its instance
    want,    \* the text it is to put in force
    from,    \* the revision it rolls back to; 0: none
    base,    \* the version it is to insert
    answer,  \* what it was answered
    mixed, raced, broken, calm  \* history, see below

rows == <<there, active, revs, told>>
asks == <<kind, copy, want, from, base>>
seen == <<mixed, raced, broken, calm>>
vars == <<rows, pc, asks, answer, seen>>

Init ==
    /\ there = FALSE /\ active = 0 /\ revs = [v \in {} |-> 0] /\ told = 0
    /\ pc     = [r \in Requests |-> "idle"]
    /\ kind   = [r \in Requests |-> "none"]
    /\ copy   = [r \in Requests |-> 0]
    /\ want   = [r \in Requests |-> NoText]
    /\ from   = [r \in Requests |-> 0]
    /\ base   = [r \in Requests |-> 0]
    /\ answer = [r \in Requests |-> "none"]
    /\ mixed  = {} /\ raced = FALSE /\ broken = FALSE /\ calm = Nobody

-----------------------------------------------------------------------------
(* What happened so far, for the properties: the requests under way that     *)
(* others overlapped (mixed), whether requests ever overlapped (raced),      *)
(* whether one stopped before its revision was in force (broken), and the    *)
(* last one to end, if nothing overlapped it and nothing began since (calm). *)

Busy == {r \in Requests : pc[r] \notin {"idle", "done"}}

Begin(r, k, place) ==
    /\ pc[r] = "idle"
    /\ pc' = [pc EXCEPT ![r] = place]
    /\ kind' = [kind EXCEPT ![r] = k]
    /\ mixed' = IF Busy = {} THEN mixed ELSE mixed \cup Busy \cup {r}
    /\ raced' = (raced \/ Busy # {})
    /\ calm' = Nobody
    /\ UNCHANGED <<rows, from, base, answer, broken>>

End(r, a, quiet) ==
    /\ pc' = [pc EXCEPT ![r] = "done"]
    /\ answer' = [answer EXCEPT ![r] = a]
    /\ mixed' = mixed \ {r}
    /\ calm' = IF quiet THEN r ELSE Nobody
    /\ UNCHANGED <<asks, raced>>

Goto(r, place) == pc' = [pc EXCEPT ![r] = place] /\ UNCHANGED <<answer, seen>>

\* An exception: what was committed stays.
Fail(r) ==
    /\ End(r, "error", FALSE)
    /\ broken' = (broken \/ pc[r] = "point")
    /\ UNCHANGED rows

-----------------------------------------------------------------------------
(* Requests *)

\* POST of a parser for a source that has none, or of a source from a preset,
\* which nothing can precede.
Create(r) ==
    /\ ~there
    /\ \E k \in {"create", "preset"} :
           /\ k = "preset" => \A q \in Requests : pc[q] = "idle"
           /\ Begin(r, k, "insert")
    /\ \E text \in Texts : want' = [want EXCEPT ![r] = text]
    /\ UNCHANGED copy

\* ParserDefinition.objects.create; a source has one parser.
Insert(r) ==
    /\ pc[r] = "insert"
    /\ IF there THEN Fail(r)
       ELSE /\ there' = TRUE
            /\ base' = IF kind[r] = "preset" THEN [base EXCEPT ![r] = 1] ELSE base
            /\ Goto(r, IF kind[r] = "preset" THEN "store" ELSE "version")
            /\ UNCHANGED <<active, revs, told, kind, copy, want, from>>

\* PATCH: get_object, the valid fields, and whether there is a text.
Update(r) ==
    /\ there
    /\ Begin(r, "update", "save")
    /\ copy' = [copy EXCEPT ![r] = active]
    /\ \E text \in Texts \cup {NoText} : want' = [want EXCEPT ![r] = text]

\* The text is not that of the revision in force when the request read it.
IsNew(r) == want[r] # NoText /\ (copy[r] = 0 \/ revs[copy[r]].text # want[r])

\* Variant: the instance is saved without the revision in force.
SaveCleared(r) ==
    /\ pc[r] = "save"
    /\ active' = 0
    /\ Goto(r, IF IsNew(r) THEN "version" ELSE "audit")
    /\ UNCHANGED <<there, revs, told, asks>>

\* instance.save(): every column.
Save(r) ==
    /\ pc[r] = "save"
    /\ active' = copy[r]
    /\ Goto(r, IF IsNew(r) THEN "version" ELSE "audit")
    /\ UNCHANGED <<there, revs, told, asks>>

Rollback(r) ==
    /\ there
    /\ Begin(r, "rollback", "pick")
    /\ copy' = [copy EXCEPT ![r] = active]
    /\ UNCHANGED want

\* Variant: the text of the instance is copied, not that of the revision.
PickActive(r) ==
    /\ pc[r] = "pick"
    /\ \/ Fail(r)
       \/ \E v \in DOMAIN revs :
              /\ copy[r] # 0
              /\ from' = [from EXCEPT ![r] = v]
              /\ want' = [want EXCEPT ![r] = revs[copy[r]].text]
              /\ Goto(r, "version")
              /\ UNCHANGED <<rows, kind, copy, base>>

\* The revision that is asked for, which may not be one of the parser's.
Pick(r) ==
    /\ pc[r] = "pick"
    /\ \/ Fail(r)
       \/ \E v \in DOMAIN revs :
              /\ from' = [from EXCEPT ![r] = v]
              /\ want' = [want EXCEPT ![r] = revs[v].text]
              /\ Goto(r, "version")
              /\ UNCHANGED <<rows, kind, copy, base>>

\* The highest version; 0: none.
Latest ==
    IF DOMAIN revs = {} THEN 0
    ELSE CHOOSE v \in DOMAIN revs : \A u \in DOMAIN revs : u <= v

\* Variant: the first version is that of no revision.
NextFromNone(r) ==
    /\ pc[r] = "version"
    /\ base' = [base EXCEPT ![r] = IF DOMAIN revs = {} THEN 0 ELSE Latest + 1]
    /\ Goto(r, "store")
    /\ UNCHANGED <<rows, kind, copy, want, from>>

\* _next_version.
NextVersion(r) ==
    /\ pc[r] = "version"
    /\ base' = [base EXCEPT ![r] = Latest + 1]
    /\ Goto(r, "store")
    /\ UNCHANGED <<rows, kind, copy, want, from>>

\* Variant: versions are not unique; the later insert stands for both.
StoreOver(r) ==
    /\ pc[r] = "store"
    /\ revs' = [v \in DOMAIN revs \cup {base[r]} |->
                    IF v = base[r] THEN [text |-> want[r], from |-> from[r], by |-> r] ELSE revs[v]]
    /\ copy' = [copy EXCEPT ![r] = base[r]]
    /\ Goto(r, "point")
    /\ UNCHANGED <<there, active, told, kind, want, from, base>>

\* ParserRevision.objects.create, which unique_together may refuse.
Store(r) ==
    /\ pc[r] = "store"
    /\ IF base[r] \in DOMAIN revs THEN Fail(r)
       ELSE /\ revs' = [v \in DOMAIN revs \cup {base[r]} |->
                            IF v = base[r] THEN [text |-> want[r], from |-> from[r], by |-> r]
                            ELSE revs[v]]
            /\ copy' = [copy EXCEPT ![r] = base[r]]
            /\ Goto(r, "point")
            /\ UNCHANGED <<there, active, told, kind, want, from, base>>

\* Variant: the instance is not saved.
PointUnsaved(r) ==
    /\ pc[r] = "point"
    /\ Goto(r, "audit")
    /\ UNCHANGED <<rows, asks>>

\* save(update_fields = active_revision).
Point(r) ==
    /\ pc[r] = "point"
    /\ active' = copy[r]
    /\ Goto(r, "audit")
    /\ UNCHANGED <<there, revs, told, asks>>

\* create_audit_log, which a preset writes about the source, and the answer.
Audit(r) ==
    /\ pc[r] = "audit"
    /\ told' = IF kind[r] = "preset" THEN told ELSE copy[r]
    /\ End(r, "ok", r \notin mixed)
    /\ UNCHANGED <<there, active, revs, broken>>

\* The process dies, or a statement raises.
Stop(r) == r \in Busy /\ Fail(r)

Next == \E r \in Requests :
    \/ Create(r) \/ Insert(r) \/ Update(r) \/ Save(r) \/ Rollback(r) \/ Pick(r)
    \/ NextVersion(r) \/ Store(r) \/ Point(r) \/ Audit(r) \/ Stop(r)

Spec == Init /\ [][Next]_vars

-----------------------------------------------------------------------------
(* Properties *)

Places == {"idle", "insert", "save", "pick", "version", "store", "point", "audit", "done"}

\* Shape of the state.
TypeOK ==
    /\ there \in BOOLEAN /\ active \in Nat /\ told \in Nat
    /\ DOMAIN revs \subseteq Nat \ {0}
    /\ \A v \in DOMAIN revs : revs[v] \in [text: Texts, from: Nat, by: Requests]
    /\ pc \in [Requests -> Places]
    /\ kind \in [Requests -> {"none", "create", "preset", "update", "rollback"}]
    /\ copy \in [Requests -> Nat] /\ from \in [Requests -> Nat] /\ base \in [Requests -> Nat]
    /\ want \in [Requests -> Texts \cup {NoText}]
    /\ answer \in [Requests -> {"none", "ok", "error"}]
    /\ mixed \subseteq Requests /\ raced \in BOOLEAN /\ broken \in BOOLEAN
    /\ calm \in Requests \cup {Nobody}

\* Whatever requests overlap, a request that was answered has the revision it
\* inserted, with its text; and no revision was inserted for a version that
\* another request had.
OwnersKeepRevisions ==
    /\ \A r \in Requests :
           answer[r] = "ok" /\ base[r] # 0 =>
               base[r] \in DOMAIN revs /\ revs[base[r]] = [text |-> want[r], from |-> from[r], by |-> r]
    /\ \A v \in DOMAIN revs : base[revs[v].by] = v

\* A rollback has the text of the revision it names, which is an earlier one,
\* however many were inserted since it was asked for.
RollbackKeepsText ==
    \A v \in DOMAIN revs : revs[v].from # 0 =>
        /\ revs[v].from < v /\ revs[v].from \in DOMAIN revs
        /\ revs[v].text = revs[revs[v].from].text

\* The history is kept: of who was answered, and of what a rollback names.
RevisionsAreKept == OwnersKeepRevisions /\ RollbackKeepsText

\* A change that nothing overlapped and that was answered is in force, also
\* when its text was found to be in force already, and whatever races and
\* failures went before.
AnswerIsInForce ==
    calm \in Requests /\ want[calm] # NoText =>
        active \in DOMAIN revs /\ revs[active].text = want[calm]

\* The audit log then names the revision in force.
AuditTellsActive ==
    calm \in Requests /\ kind[calm] # "preset" => told = active

\* An answer stands, in the parser and in the audit log.
AnswerStands == AnswerIsInForce /\ AuditTellsActive

\* The newest revision is in force, or about to be, unless requests overlapped
\* (the save of a stale instance puts an older one in force again) or one
\* stopped before its own was.
BehindIfRaced ==
    ~raced /\ ~broken /\ active # Latest => \E r \in Requests : pc[r] = "point"

Log == INSTANCE RevisionLog WITH
           log <- [v \in DOMAIN revs |-> [text |-> revs[v].text, from |-> revs[v].from]],
           current <- active

\* The revisions are a log without gaps that nothing rewrites, and what is in
\* force is in the log, in every interleaving of the requests.
ImplementsLog == Log!Spec
=============================================================================
