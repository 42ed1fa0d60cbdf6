------------------------------ MODULE PanelUsers ------------------------------
(***************************************************************************)
(* The accounts of the admin panel, AdminPanel/TabUtenti.tsx.  The dialog  *)
(* keeps the id it edits and looks the account up in the table of the      *)
(* moment; every save reads the table again.                               *)
(***************************************************************************)
EXTENDS Browser

CONSTANTS Ids
PanelUsersAssumption == 0 \notin Ids

Name == "panelUsers"
Empty == [i \in {} |-> TRUE]
Draft == [id : Ids \cup {0}, active : BOOLEAN]

Mounted ==
  {[users |-> Empty, loading |-> TRUE, open |-> FALSE, editing |-> 0, active |-> TRUE]}
Stored == {[users |-> a] : a \in UNION {[S -> BOOLEAN] : S \in SUBSET Ids}}
vars == <<view, ui, net, srv>>
Init ==
  /\ view = Name /\ ui \in Mounted /\ srv \in Stored
  /\ net = {[id |-> 1, op |-> "load", key |-> [id |-> 0, active |-> TRUE]]}

\* The account that the dialog edits, if the table has it.
EditingUser == IF ui.editing \in DOMAIN ui.users THEN ui.editing ELSE 0

\* Variant: a load that fails empties the table.
LoadOrEmpty ==
  \E r \in Pending("load"), ok \in BOOLEAN :
    /\ ui' = [ui EXCEPT !.loading = FALSE, !.users = IF ok THEN srv.users ELSE Empty]
    /\ net' = Without(r)
    /\ UNCHANGED srv

\* load after its await: accounts and roles arrive together or not at all; the
\* table stays as it was when they do not.
Load ==
  \E r \in Pending("load"), ok \in BOOLEAN :
    /\ ui' = [ui EXCEPT !.loading = FALSE, !.users = IF ok THEN srv.users ELSE @]
    /\ net' = Without(r)
    /\ UNCHANGED srv

OpenCreate ==
  /\ ~ui.open
  /\ ui' = [ui EXCEPT !.open = TRUE, !.editing = 0, !.active = TRUE]
  /\ UNCHANGED <<net, srv>>

OpenEdit ==
  \E i \in DOMAIN ui.users :
    /\ ~ui.open
    /\ ui' = [ui EXCEPT !.open = TRUE, !.editing = i, !.active = ui.users[i]]
    /\ UNCHANGED <<net, srv>>

Close ==
  /\ ui.open
  /\ ui' = [ui EXCEPT !.open = FALSE]
  /\ UNCHANGED <<net, srv>>

\* save to its await: an account that is edited is updated, with the status it
\* had when the dialog was opened; otherwise one is created.  The button is
\* never disabled.
Save ==
  /\ ui.open /\ Room
  /\ net' = Sent(IF EditingUser = 0 THEN "create" ELSE "update",
                 [id |-> ui.editing, active |-> ui.active])
  /\ UNCHANGED <<ui, srv>>

\* The table is asked for again by the same handler, in the place of its call.
Reload(r) == Without(r) \cup {[r EXCEPT !.op = "load"]}

\* The server creates the account: whatever dialog is open is closed.
Created ==
  \E r \in Pending("create"), i \in Ids \ DOMAIN srv.users :
    /\ srv' = [srv EXCEPT !.users =
         [j \in DOMAIN @ \cup {i} |-> IF j = i THEN r.key.active ELSE @[j]]]
    /\ ui' = [ui EXCEPT !.open = FALSE, !.loading = TRUE]
    /\ net' = Reload(r)

Updated ==
  \E r \in Pending("update") :
    /\ srv' = [srv EXCEPT !.users[r.key.id] = r.key.active]
    /\ ui' = [ui EXCEPT !.open = FALSE, !.loading = TRUE]
    /\ net' = Reload(r)

\* The dialog stays open with its draft.
SaveFails ==
  \E r \in Pending("create") \cup Pending("update") :
    /\ net' = Without(r)
    /\ UNCHANGED <<ui, srv>>

\* toggleActive sends the opposite of what the row shows.
ToggleActive ==
  \E i \in DOMAIN ui.users :
    /\ ~ui.open /\ Room
    /\ net' = Sent("toggle", [id |-> i, active |-> ~ui.users[i]])
    /\ UNCHANGED <<ui, srv>>

Toggled ==
  \E r \in Pending("toggle"), ok \in BOOLEAN :
    /\ srv' = IF ok THEN [srv EXCEPT !.users[r.key.id] = r.key.active] ELSE srv
    /\ ui' = IF ok /\ r.key.id \in DOMAIN ui.users
             THEN [ui EXCEPT !.users[r.key.id] = r.key.active] ELSE ui
    /\ net' = Without(r)

ResetPassword ==
  \E i \in DOMAIN ui.users :
    /\ ~ui.open /\ Room
    /\ net' = Sent("reset", [id |-> i, active |-> ui.users[i]])
    /\ UNCHANGED <<ui, srv>>

PasswordReset ==
  \E r \in Pending("reset") :
    /\ net' = Without(r)
    /\ UNCHANGED <<ui, srv>>

Next ==
  /\ view = Name /\ UNCHANGED view
  /\ \/ Load \/ OpenCreate \/ OpenEdit \/ Close \/ Save \/ Created \/ Updated
     \/ SaveFails \/ ToggleActive \/ Toggled \/ ResetPassword \/ PasswordReset

-----------------------------------------------------------------------------
TypeOK ==
  /\ DOMAIN ui.users \subseteq DOMAIN srv.users
  /\ DOMAIN srv.users \subseteq Ids
  /\ [id |-> ui.editing, active |-> ui.active] \in Draft
  /\ ui.loading \in BOOLEAN /\ ui.open \in BOOLEAN
  /\ \A r \in net : r.key \in Draft

\* The notice of a load is shown only while one is awaited.
BusyIsAwaited == ui.loading => Pending("load") # {}

\* Saving an account that was opened to be edited never creates another one.
EditNeverCreates == \A r \in Pending("create") : r.key.id = 0
=============================================================================
