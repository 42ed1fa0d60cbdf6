----------------------------- MODULE TenantRoute -----------------------------
(***************************************************************************)
(* The effect of ProtectedRoute.tsx that sends a signed-in user of the     *)
(* public host to a tenant: it lists the tenants and probes their hosts    *)
(* in order.  The effect runs anew for each address; a run that was left   *)
(* goes on, and only its failure is ignored.  With tenants in the path it  *)
(* only chooses the tenant of the API's calls.                             *)
(***************************************************************************)
EXTENDS Browser

CONSTANTS Hosts, Paths, MaxRuns      \* bound: the addresses opened
RouteAssumption == Hosts \subseteq Nat \ {0} /\ MaxRuns \in Nat \ {0}

Name == "tenantRoute"

\* The hosts with an entry_url that the list names, those that answer a probe,
\* and whether the routing is by path.
Stored ==
  {[listed |-> l, up |-> u, byPath |-> b] :
     l \in SUBSET Hosts, u \in SUBSET Hosts, b \in BOOLEAN}
Mounted ==
  {[path |-> p, run |-> 1, failed |-> FALSE, target |-> <<0, p>>, schema |-> 0] :
     p \in Paths}
vars == <<view, ui, net, srv>>
Key(h) == [run |-> ui.run, path |-> ui.path, host |-> h]
Init ==
  /\ view = Name /\ ui \in Mounted /\ srv \in Stored
  /\ net = {[id |-> 1, op |-> "tenants", key |-> Key(0)]}

\* The hosts still to probe after one of them, in the order of the list.
After(h) == {i \in srv.listed : i > h}
First(s) == CHOOSE i \in s : \A j \in s : i <= j

\* The catch of a run: it tells the failure unless the run was left.
Failed(r) == IF r.key.run = ui.run THEN [ui EXCEPT !.failed = TRUE] ELSE ui

\* Another address: the effect runs again, with what it failed at still shown.
OpenPath ==
  \E p \in Paths \ {ui.path} :
    /\ ui.run < MaxRuns /\ Room
    /\ ui' = [ui EXCEPT !.path = p, !.run = @ + 1]
    /\ net' = Sent("tenants", [run |-> ui.run + 1, path |-> p, host |-> 0])
    /\ UNCHANGED srv

\* The run probes the next host, or gives up after the last.
Probe(r) ==
  IF After(r.key.host) = {}
  THEN /\ net' = Without(r) /\ ui' = Failed(r)
  ELSE /\ net' = Without(r) \cup
                   {[r EXCEPT !.op = "probe", !.key.host = First(After(r.key.host))]}
       /\ UNCHANGED ui

TenantsListed ==
  \E r \in Pending("tenants") :
    /\ ~srv.byPath /\ Probe(r)
    /\ UNCHANGED srv

TenantsFail ==
  \E r \in Pending("tenants") :
    /\ ~srv.byPath
    /\ ui' = Failed(r) /\ net' = Without(r)
    /\ UNCHANGED srv

\* With tenants in the path the first of the list is the one of the calls.
TenantChosen ==
  \E r \in Pending("tenants"), ok \in BOOLEAN :
    /\ srv.byPath
    /\ ui' = [ui EXCEPT !.failed = FALSE,
                !.schema = IF ~ok THEN 0 ELSE IF srv.listed = {} THEN @ ELSE First(srv.listed)]
    /\ net' = Without(r)
    /\ UNCHANGED srv

\* A host answers its probe: the browser goes to it, with the run's address.
HostAnswers ==
  \E r \in Pending("probe") :
    /\ r.key.host \in srv.up
    /\ ui' = [ui EXCEPT !.target = <<r.key.host, r.key.path>>]
    /\ net' = Without(r)
    /\ UNCHANGED srv

\* It does not answer within three seconds, or not at all.
HostSilent ==
  \E r \in Pending("probe") :
    /\ r.key.host \notin srv.up /\ Probe(r)
    /\ UNCHANGED srv

Next ==
  /\ view = Name /\ UNCHANGED view
  /\ \/ OpenPath \/ TenantsListed \/ TenantsFail \/ TenantChosen
     \/ HostAnswers \/ HostSilent

-----------------------------------------------------------------------------
TypeOK ==
  /\ ui.path \in Paths /\ ui.run \in 1..MaxRuns /\ ui.failed \in BOOLEAN
  /\ ui.target \in (Hosts \cup {0}) \X Paths /\ ui.schema \in Hosts \cup {0}

\* "Reindirizzamento al tenant operativo...": the spinner that hides the pages
\* turns only while the run of this address, or the browser, has a step to make.
BusyIsAwaited ==
  \/ srv.byPath \/ ui.failed
  \/ ui.target[1] # 0
  \/ \E r \in net : r.key.run = ui.run

\* The browser goes to the first host of the list that answers.
GoesToFirstUp == ui.target[1] # 0 => ui.target[1] = First(srv.listed \cap srv.up)
=============================================================================
