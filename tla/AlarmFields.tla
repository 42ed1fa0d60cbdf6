------------------------------ MODULE AlarmFields ------------------------------
(***************************************************************************)
(* ActiveAlarmsPage.tsx: the expanded rows, and the choice of the fields   *)
(* they show for a source and an alarm type (one key here).  A draft is    *)
(* told by where it comes from: the stored choice, the schema of a key, or *)
(* the user's edits.                                                       *)
(***************************************************************************)
EXTENDS Browser

CONSTANTS Keys, Rows, Contexts
FieldsAssumption == Keys # {} /\ "none" \notin Keys

Name == "alarmFields"

Mounted ==
  {[key |-> k, c |-> c, configured |-> {}, schema |-> "none", draft |-> "none",
    loading |-> TRUE, saving |-> FALSE, expanded |-> {}, fetching |-> {}] :
      k \in Keys, c \in Contexts}
Stored == {[fields |-> Keys]}
vars == <<view, ui, net, srv>>

\* Mounting runs both effects: the stored choices and the schema are asked for.
Init ==
  /\ view = Name /\ ui \in Mounted /\ srv \in Stored
  /\ net = {[id |-> 1, op |-> "configs", key |-> ui.key],
            [id |-> 2, op |-> "schema", key |-> ui.key]}

\* The effect on [key, available fields, stored choices] rewrites the draft,
\* edited or not: new arrays run it though they hold the same fields.
Redraft(u) ==
  [u EXCEPT !.draft = IF u.key \in u.configured THEN "stored" ELSE u.schema]

\* The effect on [key, details, customer]: the request that is out is cancelled
\* and the schema asked for again.
AskSchema ==
  {IF r.op = "schema" THEN [r EXCEPT !.op = "cancelled"] ELSE r : r \in net}
    \cup {[id |-> Fresh, op |-> "schema", key |-> ui'.key]}

ChooseKey ==
  \E k \in Keys \ {ui.key} :
    /\ Room
    /\ ui' = Redraft([ui EXCEPT !.key = k])
    /\ net' = AskSchema
    /\ UNCHANGED srv

\* Another customer: stored choices and schema are asked for, rows are closed.
ChangeCustomer ==
  \E c \in Contexts \ {ui.c} :
    /\ Cardinality(net) + 2 <= MaxPending
    /\ ui' = [ui EXCEPT !.c = c, !.loading = TRUE, !.expanded = {}, !.fetching = {}]
    /\ net' = AskSchema \cup
         {[id |-> CHOOSE i \in 1..MaxPending :
                    i # Fresh /\ \A r \in net : r.id # i,
           op |-> "configs", key |-> ui.key]}
    /\ UNCHANGED srv

\* loadDetailConfigs after its await: no guard against a later customer.
AnswerConfigs ==
  \E r \in Pending("configs"), stored \in SUBSET Keys :
    /\ ui' = Redraft([ui EXCEPT !.configured = stored, !.loading = FALSE])
    /\ net' = Without(r)
    /\ UNCHANGED srv

\* Variant: the answer is not compared with what was asked since.
AnswerSchemaAlways ==
  \E r \in Pending("schema") \cup Pending("cancelled") :
    /\ ui' = Redraft([ui EXCEPT !.schema = r.key])
    /\ net' = Without(r)
    /\ UNCHANGED srv

\* A schema arrives; one that was cancelled is dropped.
AnswerSchema ==
  \E r \in Pending("schema") \cup Pending("cancelled") :
    /\ ui' = IF r.op = "cancelled" THEN ui
             ELSE Redraft([ui EXCEPT !.schema = r.key])
    /\ net' = Without(r)
    /\ UNCHANGED srv

\* A failure empties the fields, whether the request was cancelled or not.
SchemaFails ==
  \E r \in Pending("schema") \cup Pending("cancelled") :
    /\ ui' = Redraft([ui EXCEPT !.schema = "none"])
    /\ net' = Without(r)
    /\ UNCHANGED srv

\* A check box of the fields; it is not disabled while the choice is saved.
EditDraft ==
  /\ ui.schema # "none" /\ ui.draft # "edited"
  /\ ui' = [ui EXCEPT !.draft = "edited"]
  /\ UNCHANGED <<net, srv>>

Save ==
  /\ ~ui.saving /\ Room
  /\ ui' = [ui EXCEPT !.saving = TRUE]
  /\ net' = Sent("save", ui.key)
  /\ UNCHANGED srv

\* The saved choice joins the list the page has now, whichever customer it is
\* for, and the draft of the key shown is rewritten.
AnswerSave ==
  \E r \in Pending("save"), ok \in BOOLEAN :
    /\ ui' = IF ok THEN Redraft([ui EXCEPT !.saving = FALSE, !.configured = @ \cup {r.key}])
             ELSE [ui EXCEPT !.saving = FALSE]
    /\ net' = Without(r)
    /\ UNCHANGED srv

(***************************************************************************)
(* A row is opened or closed.  ensureAlertDetail decides to fetch inside a *)
(* state updater and tests the flag right after queueing it; toggleRow has *)
(* queued another update before, so React runs the updater at the next     *)
(* render: the detail is marked as loading, no request is sent, and a row  *)
(* marked so is not asked for again.  The new map of details asks for the  *)
(* schema again.                                                           *)
(***************************************************************************)
ToggleRow ==
  \E a \in Rows :
    IF a \in ui.expanded \/ a \in ui.fetching
    THEN /\ ui' = [ui EXCEPT !.expanded = IF a \in @ THEN @ \ {a} ELSE @ \cup {a}]
         /\ UNCHANGED <<net, srv>>
    ELSE /\ Room
         /\ ui' = [ui EXCEPT !.expanded = @ \cup {a}, !.fetching = @ \cup {a}]
         /\ net' = AskSchema
         /\ UNCHANGED srv

Next ==
  /\ view = Name /\ UNCHANGED view
  /\ \/ ChooseKey \/ ChangeCustomer \/ ToggleRow \/ EditDraft \/ Save
     \/ AnswerConfigs \/ AnswerSchema \/ SchemaFails \/ AnswerSave

-----------------------------------------------------------------------------
TypeOK ==
  /\ ui.key \in Keys /\ ui.c \in Contexts /\ ui.configured \subseteq Keys
  /\ ui.schema \in Keys \cup {"none"}
  /\ ui.draft \in Keys \cup {"none", "stored", "edited"}
  /\ ui.expanded \subseteq Rows /\ ui.fetching \subseteq Rows
  /\ ui.loading \in BOOLEAN /\ ui.saving \in BOOLEAN

\* Once nothing is asked for, the fields offered are those of the key shown.
SchemaOfKey == Pending("schema") = {} => ui.schema \in {ui.key, "none"}

\* The spinners of the fields show only while their answer is awaited; the bar of a
\* row in "fetching" shows as long as the customer stays (ToggleRow).
BusyIsAwaited ==
  /\ ui.loading => Pending("configs") # {}
  /\ ui.saving <=> Pending("save") # {}

\* One choice is saved at a time.
OneWrite == Cardinality(Pending("save")) <= 1
=============================================================================
