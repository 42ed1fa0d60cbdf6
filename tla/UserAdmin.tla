------------------------------- MODULE UserAdmin -------------------------------
(***************************************************************************)
(* The users of AdminConfigPage.tsx, with UserManagementCard.tsx and       *)
(* UserDialog.tsx: the table of accounts, the dialog that creates or edits *)
(* one, and the button that suspends or reactivates one.  An account is    *)
(* told by its id and whether it is active; "filled" says that the         *)
(* dialog's required fields are.  The user keeps the permission to manage  *)
(* users; the text of the search, which only hides rows, is left out.      *)
(***************************************************************************)
EXTENDS Browser

CONSTANTS Ids
UserAdminAssumption == 0 \notin Ids

Name == "userAdmin"
Tables == UNION {[S -> BOOLEAN] : S \in SUBSET Ids}
Statuses == {"all", "active", "suspended"}
NoDraft == [id |-> 0, active |-> TRUE, filled |-> FALSE]

Mounted ==
  {[users |-> [i \in {} |-> TRUE], roles |-> FALSE, open |-> FALSE,
    draft |-> NoDraft, saving |-> FALSE, status |-> "all"]}
Stored == {[users |-> a] : a \in Tables}
vars == <<view, ui, net, srv>>
Init ==
  /\ view = Name /\ ui \in Mounted /\ srv \in Stored
  /\ net = {[id |-> 1, op |-> "load", key |-> NoDraft]}

\* The accounts arrive with the roles, each on its own: one may have failed.
Load ==
  \E r \in Pending("load"), users \in {srv.users, [i \in {} |-> TRUE]}, roles \in BOOLEAN :
    /\ ui' = [ui EXCEPT !.users = users, !.roles = roles]
    /\ net' = Without(r)
    /\ UNCHANGED srv

\* The rows of the table, for the status chosen above it.
Shown == {i \in DOMAIN ui.users :
            ui.status = "all" \/ (ui.status = "active" <=> ui.users[i])}

ChooseStatus ==
  \E status \in Statuses \ {ui.status} :
    /\ ~ui.open
    /\ ui' = [ui EXCEPT !.status = status]
    /\ UNCHANGED <<net, srv>>

OpenCreate ==
  /\ ~ui.open /\ ui.roles
  /\ ui' = [ui EXCEPT !.open = TRUE, !.draft = NoDraft]
  /\ UNCHANGED <<net, srv>>

\* The draft takes the account as the table shows it.
OpenEdit ==
  \E i \in Shown :
    /\ ~ui.open
    /\ ui' = [ui EXCEPT !.open = TRUE,
                        !.draft = [id |-> i, active |-> ui.users[i], filled |-> TRUE]]
    /\ UNCHANGED <<net, srv>>

Edit ==
  \E active \in BOOLEAN, filled \in BOOLEAN :
    /\ ui.open
    /\ ui' = [ui EXCEPT !.draft.active = active, !.draft.filled = filled]
    /\ UNCHANGED <<net, srv>>

Close ==
  /\ ui.open
  /\ ui' = [ui EXCEPT !.open = FALSE]
  /\ UNCHANGED <<net, srv>>

\* saveUser to its await: the button asks for the fields, not for a pause, and
\* the dialog can be closed and opened for another account meanwhile.
Save ==
  /\ ui.open /\ ui.draft.filled /\ Room
  /\ ui' = [ui EXCEPT !.saving = TRUE]
  /\ net' = Sent(IF ui.draft.id = 0 THEN "create" ELSE "update", ui.draft)
  /\ UNCHANGED srv

\* Whichever dialog is open by now is closed.
Created ==
  \E r \in Pending("create"), i \in Ids \ DOMAIN srv.users :
    /\ srv' = [srv EXCEPT !.users =
         [j \in DOMAIN @ \cup {i} |-> IF j = i THEN r.key.active ELSE @[j]]]
    /\ ui' = [ui EXCEPT !.open = FALSE, !.saving = FALSE,
         !.users = [j \in DOMAIN @ \cup {i} |-> IF j = i THEN r.key.active ELSE @[j]]]
    /\ net' = Without(r)

\* setUsers(current.map ...): an account that is in the table is replaced.
Replace(users, i, active) == IF i \in DOMAIN users THEN [users EXCEPT ![i] = active] ELSE users

Updated ==
  \E r \in Pending("update") :
    /\ srv' = [srv EXCEPT !.users = Replace(@, r.key.id, r.key.active)]
    /\ ui' = [ui EXCEPT !.open = FALSE, !.saving = FALSE,
                        !.users = Replace(@, r.key.id, r.key.active)]
    /\ net' = Without(r)

SaveFails ==
  \E r \in Pending("create") \cup Pending("update") :
    /\ ui' = [ui EXCEPT !.saving = FALSE]
    /\ net' = Without(r)
    /\ UNCHANGED srv

\* toggleUserStatus: the opposite of what the table shows.
ToggleStatus ==
  \E i \in Shown :
    /\ ~ui.open /\ Room
    /\ net' = Sent("toggle", [id |-> i, active |-> ~ui.users[i], filled |-> TRUE])
    /\ UNCHANGED <<ui, srv>>

Toggled ==
  \E r \in Pending("toggle"), ok \in BOOLEAN :
    /\ srv' = IF ok THEN [srv EXCEPT !.users = Replace(@, r.key.id, r.key.active)] ELSE srv
    /\ ui' = IF ok THEN [ui EXCEPT !.users = Replace(@, r.key.id, r.key.active)] ELSE ui
    /\ net' = Without(r)

Next ==
  /\ view = Name /\ UNCHANGED view
  /\ \/ Load \/ ChooseStatus \/ OpenCreate \/ OpenEdit \/ Edit \/ Close \/ Save
     \/ Created \/ Updated \/ SaveFails \/ ToggleStatus \/ Toggled

-----------------------------------------------------------------------------
TypeOK ==
  /\ ui.users \in Tables /\ srv.users \in Tables
  /\ ui.draft.id \in Ids \cup {0} /\ ui.status \in Statuses
  /\ \A f \in {"open", "saving", "roles"} : ui[f] \in BOOLEAN

\* The card says that it is busy only while a save is awaited.
BusyIsAwaited == ui.saving => Pending("create") \cup Pending("update") # {}
=============================================================================
