---------------------------- MODULE CustomerFields ----------------------------
(***************************************************************************)
(* CustomerAlarmsPage.tsx: the choice of the fields a row shows, for the   *)
(* customer of the address.  A key is a source and an alarm type; pairs of *)
(* a key and a customer tell whose choice or schema is meant.              *)
(***************************************************************************)
EXTENDS Browser

CONSTANTS Keys, Customers, Rows
CustomerFieldsAssumption == Keys # {} /\ Customers # {}

Name == "customerFields"
Nothing == <<"none", "none">>

\* "offered" is the key and customer whose schema gives the fields, "draft" what
\* is ticked: those of a schema, the stored choice or the user's edits.
Mounted ==
  {[key |-> k, of |-> c, configured |-> {}, offered |-> Nothing, draft |-> "none",
    loading |-> TRUE, saving |-> FALSE, expanded |-> {}, marked |-> {}] :
      k \in Keys, c \in Customers}
Stored == {[choices |-> Keys \X Customers]}
vars == <<view, ui, net, srv>>

Init ==
  /\ view = Name /\ ui \in Mounted /\ srv \in Stored
  /\ net = {[id |-> 1, op |-> "configs", key |-> <<ui.key, ui.of>>],
            [id |-> 2, op |-> "schema", key |-> <<ui.key, ui.of>>]}

\* detailConfigMap is keyed without the customer.
Configured(u) == u.key \in {pair[1] : pair \in u.configured}

\* The effect on [source, type, offered fields, detailConfigMap]: what the user
\* ticked and did not save is lost.
Redraft(u) ==
  [u EXCEPT !.draft = IF Configured(u) THEN "stored"
                      ELSE IF u.offered = Nothing THEN "none" ELSE "schema"]

\* The cleanup of the schema effect marks the request that is out.
Cancel(requests) ==
  {IF r.op = "schema" THEN [r EXCEPT !.op = "cancelled"] ELSE r : r \in requests}

\* The requests after the effect ran again for the pair shown.
SchemaAsked(u, requests) ==
  Cancel(requests) \cup
    {[id |-> CHOOSE i \in 1..MaxPending : \A r \in requests : r.id # i,
      op |-> "schema", key |-> <<u.key, u.of>>]}

ChooseKey ==
  \E k \in Keys \ {ui.key} :
    /\ Room
    /\ ui' = Redraft([ui EXCEPT !.key = k])
    /\ net' = SchemaAsked(ui', net)
    /\ UNCHANGED srv

\* Another customer in the address: rows are closed, their details forgotten,
\* choices and schema asked for; the fields and the draft of before stay.
OpenCustomer ==
  \E c \in Customers \ {ui.of} :
    /\ Cardinality(net) + 2 <= MaxPending
    /\ ui' = [ui EXCEPT !.of = c, !.loading = TRUE, !.expanded = {}, !.marked = {}]
    /\ net' = SchemaAsked(ui', Sent("configs", <<ui.key, c>>))
    /\ UNCHANGED srv

\* loadDetailConfigs after its await; no later call is looked for.
AnswerConfigs ==
  \E r \in Pending("configs"), stored \in SUBSET Keys :
    /\ ui' = Redraft([ui EXCEPT !.configured = stored \X {r.key[2]}, !.loading = FALSE])
    /\ net' = Without(r)
    /\ UNCHANGED srv

\* An answer to the effect that is current.
AnswerSchema ==
  \E r \in Pending("schema") :
    /\ ui' = Redraft([ui EXCEPT !.offered = r.key])
    /\ net' = Without(r)
    /\ UNCHANGED srv

DropSchema ==
  \E r \in Pending("cancelled") :
    /\ net' = Without(r)
    /\ UNCHANGED <<ui, srv>>

\* A failure empties the fields, of a cancelled request too.
SchemaFails ==
  \E r \in Pending("schema") \cup Pending("cancelled") :
    /\ ui' = Redraft([ui EXCEPT !.offered = Nothing])
    /\ net' = Without(r)
    /\ UNCHANGED srv

Tick ==
  /\ ui.offered # Nothing
  /\ ui' = [ui EXCEPT !.draft = "edited"]
  /\ UNCHANGED <<net, srv>>

SaveDetailConfig ==
  /\ ~ui.saving /\ Room
  /\ ui' = [ui EXCEPT !.saving = TRUE]
  /\ net' = Sent("save", <<ui.key, ui.of>>)
  /\ UNCHANGED srv

\* The saved choice replaces the one of its key and customer, in whichever list
\* the page holds by then.
AnswerSave ==
  \E r \in Pending("save"), ok \in BOOLEAN :
    /\ ui' = IF ok THEN Redraft([ui EXCEPT !.saving = FALSE,
                                           !.configured = @ \cup {r.key}])
             ELSE [ui EXCEPT !.saving = FALSE]
    /\ net' = Without(r)
    /\ UNCHANGED srv

(***************************************************************************)
(* toggleRow queues an update before ensureAlertDetail queues the one that *)
(* decides to fetch, so the decision is read before it is made: a row      *)
(* opened for the first time is marked as loading and nothing is sent.     *)
(* The new map of details runs the schema effect again.                    *)
(***************************************************************************)
ToggleRow ==
  \E a \in Rows :
    /\ a \in ui.expanded \cup ui.marked \/ Room
    /\ ui' = [ui EXCEPT !.expanded = IF a \in @ THEN @ \ {a} ELSE @ \cup {a},
                        !.marked = @ \cup {a}]
    /\ net' = IF a \in ui.marked THEN net ELSE SchemaAsked(ui, net)
    /\ UNCHANGED srv

Next ==
  /\ view = Name /\ UNCHANGED view
  /\ \/ ChooseKey \/ OpenCustomer \/ AnswerConfigs \/ AnswerSchema \/ DropSchema
     \/ SchemaFails \/ Tick \/ SaveDetailConfig \/ AnswerSave \/ ToggleRow

-----------------------------------------------------------------------------
TypeOK ==
  /\ ui.key \in Keys /\ ui.of \in Customers
  /\ ui.configured \subseteq srv.choices
  /\ ui.offered \in srv.choices \cup {Nothing}
  /\ ui.draft \in {"none", "schema", "stored", "edited"}
  /\ ui.expanded \subseteq ui.marked /\ ui.marked \subseteq Rows
  /\ ui.loading \in BOOLEAN /\ ui.saving \in BOOLEAN

\* Once no schema is awaited, the fields offered are those of the key and the
\* customer shown, or none.
SchemaOfKey == Pending("schema") = {} => ui.offered \in {<<ui.key, ui.of>>, Nothing}

\* The spinners show only while their answer is awaited.
BusyIsAwaited ==
  /\ ui.loading => Pending("configs") # {}
  /\ ui.saving <=> Pending("save") # {}

\* One choice is saved at a time.
OneWrite == Cardinality(Pending("save")) <= 1
=============================================================================
