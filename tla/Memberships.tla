------------------------------ MODULE Memberships ------------------------------
(***************************************************************************)
(* The memberships of the admin panel, AdminPanel/TabRuoli.tsx: who has a  *)
(* scope on which customer.  Each write answers with the customer's list.  *)
(***************************************************************************)
EXTENDS Browser

CONSTANTS Customers, Users
MembershipsAssumption == "none" \notin Customers \cup Users

Name == "memberships"
Lists == [Customers -> SUBSET Users]
NoLists == [c \in Customers |-> {}]
NoPair == [customer |-> "none", user |-> "none", lists |-> NoLists]

Mounted ==
  {[customers |-> {}, lists |-> NoLists, open |-> FALSE,
    customer |-> "none", user |-> "none"]}
Stored == {[members |-> m] : m \in Lists}
vars == <<view, ui, net, srv>>
Init ==
  /\ view = Name /\ ui \in Mounted /\ srv \in Stored
  /\ net = {[id |-> 1, op |-> "customers", key |-> NoPair]}

\* The customers and the users arrive and are shown; a call per customer follows.
CustomersLoaded ==
  \E r \in Pending("customers") :
    /\ ui' = [ui EXCEPT !.customers = Customers]
    /\ net' = Without(r) \cup {[r EXCEPT !.op = "lists"]}
    /\ UNCHANGED srv

\* The server reads the lists; the answer is on its way.
ListsRead ==
  \E r \in Pending("lists") :
    /\ net' = Without(r) \cup {[r EXCEPT !.op = "read", !.key.lists = srv.members]}
    /\ UNCHANGED <<ui, srv>>

\* All the lists are replaced by those that were read, also over a newer one.
ListsLoaded ==
  \E r \in Pending("read") :
    /\ ui' = [ui EXCEPT !.lists = r.key.lists]
    /\ net' = Without(r)
    /\ UNCHANGED srv

LoadFails ==
  \E r \in Pending("customers") \cup Pending("lists") \cup Pending("read") :
    /\ net' = Without(r)
    /\ UNCHANGED <<ui, srv>>

OpenAdd ==
  \E c \in ui.customers :
    /\ ~ui.open
    /\ ui' = [ui EXCEPT !.open = TRUE, !.customer = c, !.user = "none"]
    /\ UNCHANGED <<net, srv>>

ChooseUser ==
  \E u \in Users :
    /\ ui.open
    /\ ui' = [ui EXCEPT !.user = u]
    /\ UNCHANGED <<net, srv>>

Close ==
  /\ ui.open
  /\ ui' = [ui EXCEPT !.open = FALSE]
  /\ UNCHANGED <<net, srv>>

\* saveMembership asks for a customer and a user.
Save ==
  /\ ui.open /\ ui.user # "none" /\ Room
  /\ net' = Sent("save", [NoPair EXCEPT !.customer = ui.customer, !.user = ui.user])
  /\ UNCHANGED <<ui, srv>>

Remove ==
  \E c \in ui.customers : \E u \in ui.lists[c] :
    /\ ~ui.open /\ Room
    /\ net' = Sent("remove", [NoPair EXCEPT !.customer = c, !.user = u])
    /\ UNCHANGED <<ui, srv>>

\* The server writes and answers with the list of the customer of the call.
Written ==
  \E r \in Pending("save") \cup Pending("remove") :
    LET members == IF r.op = "save"
                   THEN [srv.members EXCEPT ![r.key.customer] = @ \cup {r.key.user}]
                   ELSE [srv.members EXCEPT ![r.key.customer] = @ \ {r.key.user}] IN
    /\ srv' = [srv EXCEPT !.members = members]
    /\ net' = Without(r) \cup {[r EXCEPT !.op = IF @ = "save" THEN "saved" ELSE "removed",
                                         !.key.lists = members]}
    /\ UNCHANGED ui

\* The answer: the list is the customer's, whichever the dialog shows by now;
\* a save closes the dialog that is open.
Answered ==
  \E r \in Pending("saved") \cup Pending("removed") :
    /\ ui' = [ui EXCEPT !.lists[r.key.customer] = r.key.lists[r.key.customer],
                        !.open = @ /\ r.op = "removed"]
    /\ net' = Without(r)
    /\ UNCHANGED srv

\* The call is refused, or its answer is lost after the write.
WriteFails ==
  \E r \in Pending("save") \cup Pending("remove") \cup Pending("saved") \cup Pending("removed") :
    /\ net' = Without(r)
    /\ UNCHANGED <<ui, srv>>

Next ==
  /\ view = Name /\ UNCHANGED view
  /\ \/ CustomersLoaded \/ ListsRead \/ ListsLoaded \/ LoadFails
     \/ OpenAdd \/ ChooseUser \/ Close \/ Save \/ Remove
     \/ Written \/ Answered \/ WriteFails

-----------------------------------------------------------------------------
TypeOK ==
  /\ ui.customers \subseteq Customers /\ ui.lists \in Lists /\ srv.members \in Lists
  /\ ui.open \in BOOLEAN /\ ui.customer \in Customers \cup {"none"}
  /\ ui.user \in Users \cup {"none"}

\* The dialog is open for a customer, and what is sent names one and a user.
DialogHasCustomer ==
  /\ ui.open => ui.customer \in ui.customers
  /\ \A r \in Pending("save") \cup Pending("remove") :
       r.key.customer \in ui.customers /\ r.key.user \in Users
=============================================================================
