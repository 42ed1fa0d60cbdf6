---------------------------- MODULE TenantCreation ----------------------------
(***************************************************************************)
(* AdminPanel/TabTenant.tsx: a tenant is created by a task that the page   *)
(* polls, thirty times in the code.  A tenant's name, domain and schema    *)
(* are one, and so are two tasks for one tenant; "ui.name" is what the     *)
(* fields hold, "none" when one is blank.                                  *)
(***************************************************************************)
EXTENDS Browser

CONSTANTS Tenants, MaxPolls         \* bound: the polls of one creation
TenantAssumption == "none" \notin Tenants /\ MaxPolls \in Nat \ {0}

Name == "tenants"
Call(t, n) == [tenant |-> t, polls |-> n]

Mounted ==
  {[shown |-> {}, open |-> FALSE, name |-> "none", creating |-> FALSE,
    failed |-> FALSE, wizard |-> "none"]}
Stored == {[tenants |-> s, running |-> {}, broken |-> {}] : s \in SUBSET Tenants}
vars == <<view, ui, net, srv>>
Init ==
  /\ view = Name /\ ui \in Mounted /\ srv \in Stored
  /\ net = {[id |-> 1, op |-> "list", key |-> Call("none", 0)]}

\* The call of the handler gives way to the next one it awaits.
Continue(r, op) == Without(r) \cup {[r EXCEPT !.op = op]}

Listed ==
  \E r \in Pending("list"), ok \in BOOLEAN :
    /\ ui' = [ui EXCEPT !.shown = IF ok THEN srv.tenants ELSE @, !.failed = @ \/ ~ok]
    /\ net' = Without(r)
    /\ UNCHANGED srv

ToggleDialog ==
  /\ ui.wizard = "none"
  /\ ui' = [ui EXCEPT !.open = ~@]
  /\ UNCHANGED <<net, srv>>

TypeName ==
  \E t \in Tenants \cup {"none"} :
    /\ ui.open
    /\ ui' = [ui EXCEPT !.name = t]
    /\ UNCHANGED <<net, srv>>

\* createTenant to its first await; a blank field only sets the error.
Create ==
  /\ ui.open /\ ~ui.creating
  /\ IF ui.name = "none"
     THEN /\ ui' = [ui EXCEPT !.failed = TRUE]
          /\ UNCHANGED net
     ELSE /\ Room
          /\ ui' = [ui EXCEPT !.creating = TRUE, !.failed = FALSE]
          /\ net' = Sent("check", Call(ui.name, 0))
  /\ UNCHANGED srv

\* The creation ends without a tenant: the dialog stays, the button is free.
GivesUp(r) ==
  /\ ui' = [ui EXCEPT !.creating = FALSE, !.failed = TRUE]
  /\ net' = Without(r)
  /\ UNCHANGED srv

DomainChecked ==
  \E r \in Pending("check") :
    IF r.key.tenant \in srv.tenants THEN GivesUp(r)
    ELSE net' = Continue(r, "create") /\ UNCHANGED <<ui, srv>>

\* The server takes the task on; the page polls it.
TaskAccepted ==
  \E r \in Pending("create") :
    /\ srv' = [srv EXCEPT !.running = @ \cup {r.key.tenant}, !.broken = @ \ {r.key.tenant}]
    /\ net' = Continue(r, "poll")
    /\ UNCHANGED ui

\* The worker ends the task, with a tenant or without.
TaskEnds ==
  \E t \in srv.running, ok \in BOOLEAN :
    /\ srv' = [running |-> srv.running \ {t},
               tenants |-> IF ok THEN srv.tenants \cup {t} ELSE srv.tenants,
               broken |-> IF ok THEN srv.broken ELSE srv.broken \cup {t}]
    /\ UNCHANGED <<ui, net>>

\* Variant: what is not a failure counts as success.
PolledUnfailed ==
  \E r \in Pending("poll") :
    /\ r.key.tenant \notin srv.broken
    /\ ui' = [ui EXCEPT !.failed = FALSE]
    /\ net' = Continue(r, "reload")
    /\ UNCHANGED srv

\* A poll that says SUCCESS: load clears the error and reads the list before it goes on.
PolledSuccess ==
  \E r \in Pending("poll") :
    /\ r.key.tenant \notin srv.running \cup srv.broken
    /\ ui' = [ui EXCEPT !.failed = FALSE]
    /\ net' = Continue(r, "reload")
    /\ UNCHANGED srv

PolledFailure ==
  \E r \in Pending("poll") : r.key.tenant \in srv.broken /\ GivesUp(r)

\* Any other status: two seconds later again, until the polls are used up.
PolledOther ==
  \E r \in Pending("poll") :
    /\ r.key.tenant \in srv.running
    /\ IF r.key.polls + 1 < MaxPolls
       THEN /\ net' = Without(r) \cup {[r EXCEPT !.key.polls = @ + 1]}
            /\ UNCHANGED <<ui, srv>>
       ELSE GivesUp(r)

\* load never rejects: with the list or without, the dialog closes and the
\* wizard opens for the tenant of the call.
Reloaded ==
  \E r \in Pending("reload"), ok \in BOOLEAN :
    /\ ui' = [ui EXCEPT !.shown = IF ok THEN srv.tenants ELSE @, !.failed = ~ok,
                        !.open = FALSE, !.creating = FALSE, !.wizard = r.key.tenant]
    /\ net' = Without(r)
    /\ UNCHANGED srv

\* Any call of the creation may be refused or lost.
CallFails ==
  \E r \in Pending("check") \cup Pending("create") \cup Pending("poll") : GivesUp(r)

CloseWizard ==
  /\ ui.wizard # "none"
  /\ ui' = [ui EXCEPT !.wizard = "none"]
  /\ UNCHANGED <<net, srv>>

Next ==
  /\ view = Name /\ UNCHANGED view
  /\ \/ Listed \/ ToggleDialog \/ TypeName \/ Create \/ DomainChecked
     \/ TaskAccepted \/ TaskEnds \/ PolledSuccess \/ PolledFailure \/ PolledOther
     \/ Reloaded \/ CallFails \/ CloseWizard

-----------------------------------------------------------------------------
Creating == Pending("check") \cup Pending("create") \cup Pending("poll") \cup Pending("reload")

TypeOK ==
  /\ ui.shown \subseteq srv.tenants /\ ui.name \in Tenants \cup {"none"}
  /\ \A f \in {"open", "creating", "failed"} : ui[f] \in BOOLEAN
  /\ \A r \in net : r.key.polls \in 0..MaxPolls

\* The button is disabled exactly while a creation is being followed.
BusyIsAwaited == ui.creating <=> Creating # {}

\* One creation is followed at a time, though earlier tasks may still run.
OneWrite == Cardinality(Creating) <= 1

\* The wizard opens only for a tenant that the task has made.
WizardHasTenant == ui.wizard # "none" => ui.wizard \in srv.tenants
=============================================================================
