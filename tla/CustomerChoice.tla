---------------------------- MODULE CustomerChoice ----------------------------
(***************************************************************************)
(* CustomerContext.tsx: the customers the signed-in user may choose from   *)
(* in the header, and the one chosen, which localStorage keeps.  It is     *)
(* mounted above the pages, while nobody is signed in yet: that mount's    *)
(* effects have dropped whatever choice was kept from before.              *)
(***************************************************************************)
EXTENDS Browser

CONSTANTS Users, Customers
ChoiceAssumption == "none" \notin Users \cup Customers

Name == "customerChoice"

Mounted ==
  {[user |-> "none", customers |-> {}, sel |-> "none", loading |-> FALSE,
    error |-> FALSE]}
Stored == {[visible |-> v, kept |-> "none"] : v \in [Users -> SUBSET Customers]}
vars == <<view, ui, net, srv>>
Init == Shows(Name, Mounted, Stored)

\* The effect on [selectedCustomerId]: localStorage follows the choice.
Keep(u) == ui' = u /\ srv' = [srv EXCEPT !.kept = u.sel]

\* refreshCustomers of a signed-in user, to its await.
Refreshing(u) == [u EXCEPT !.loading = TRUE]

\* AuthContext has a user, perhaps another one: the effect on [user] loads anew.
SignIn ==
  \E u \in Users :
    /\ Room
    /\ Keep(Refreshing([ui EXCEPT !.user = u]))
    /\ net' = Sent("customers", u)

SignOut ==
  /\ ui.user # "none"
  /\ Keep([user |-> "none", customers |-> {}, sel |-> "none", loading |-> FALSE,
           error |-> FALSE])
  /\ UNCHANGED net

\* A page asks for the list again after it changed a customer.
Refresh ==
  /\ ui.user # "none" /\ Room
  /\ Keep(Refreshing(ui))
  /\ net' = Sent("customers", ui.user)

\* Variant: the first customer is chosen when none is.
ChosenOrFirst(data, c) ==
  IF c \in data \/ data = {} THEN c ELSE CHOOSE d \in data : TRUE

\* A choice stays while the list has it; none stays none.
Chosen(data, c) == IF c \in data THEN c ELSE "none"

\* The answer is shown to whoever is signed in by then, if anybody.
CustomersArrive ==
  \E r \in Pending("customers") :
    LET data == srv.visible[r.key] IN
    /\ Keep([ui EXCEPT !.customers = data, !.error = FALSE, !.loading = FALSE,
                       !.sel = Chosen(data, @)])
    /\ net' = Without(r)

CustomersFail ==
  \E r \in Pending("customers") :
    /\ Keep([ui EXCEPT !.customers = {}, !.error = TRUE, !.loading = FALSE])
    /\ net' = Without(r)

\* The header offers the list; a page may choose the customer of its address.
SelectCustomer ==
  \E c \in Customers \cup {"none"} :
    /\ ui.user # "none"
    /\ Keep([ui EXCEPT !.sel = c])
    /\ UNCHANGED net

Next ==
  /\ view = Name /\ UNCHANGED view
  /\ \/ SignIn \/ SignOut \/ Refresh \/ CustomersArrive \/ CustomersFail
     \/ SelectCustomer

-----------------------------------------------------------------------------
TypeOK ==
  /\ ui.user \in Users \cup {"none"} /\ ui.customers \subseteq Customers
  /\ ui.sel \in Customers \cup {"none"}
  /\ ui.loading \in BOOLEAN /\ ui.error \in BOOLEAN

\* The header waits only for a list that is still to come.
BusyIsAwaited == ui.loading => Pending("customers") # {}

\* Nobody signed in: no customer is chosen, not even by a list that arrives late,
\* and none is kept for whoever signs in next.
SignedOutChoosesNone == ui.user = "none" => ui.sel = "none" /\ srv.kept = "none"
=============================================================================
