--------------------------- MODULE CustomerSettings ---------------------------
(***************************************************************************)
(* CustomerSettingsPage.tsx: the settings and the sources of a customer.   *)
(* The customer is in the address (of) and is the one selected in the      *)
(* header (sel); two effects bring them together.  A form is told by whose *)
(* settings it holds and whether the user changed it.                      *)
(***************************************************************************)
EXTENDS Browser

CONSTANTS Customers
SettingsAssumption == "none" \notin Customers

Name == "customerSettings"

\* "table" tells whose sources the table holds.
Mounted ==
  {[of |-> c, sel |-> c, due |-> TRUE, whose |-> "none", table |-> "none", edited |-> FALSE,
    loading |-> FALSE, saving |-> FALSE, toggling |-> FALSE] : c \in Customers}
Stored == {[customers |-> Customers]}
vars == <<view, ui, net, srv>>
Init == Shows(Name, Mounted, Stored)

\* A request is for a customer; a switch remembers whose sources the table held.
For(c) == [of |-> c, table |-> ui.table]

\* The customer whose settings the page shows: the one selected, once its list
\* of customers has it.
Active == ui.sel

\* The selection of the header, or of the page's own box.
SelectCustomer ==
  \E c \in Customers \ {ui.sel} :
    /\ ui' = [ui EXCEPT !.sel = c, !.due = TRUE]
    /\ UNCHANGED <<net, srv>>

SelectAll ==
  /\ ui.sel # "none"
  /\ ui' = [ui EXCEPT !.sel = "none", !.due = FALSE]
  /\ UNCHANGED <<net, srv>>

\* The address names another customer, by the history of the browser.
OpenCustomer ==
  \E c \in Customers \ {ui.of} :
    /\ ui' = [ui EXCEPT !.of = c]
    /\ UNCHANGED <<net, srv>>

(***************************************************************************)
(* Both effects run when address and selection differ.  The first sets the *)
(* selection to the address it saw; the second sends the address to the    *)
(* selection it saw, if there is one.  React applies both in one render.   *)
(***************************************************************************)
Synchronise ==
  /\ ui.of # ui.sel
  /\ ui' = [ui EXCEPT !.sel = ui.of, !.of = IF ui.sel = "none" THEN @ ELSE ui.sel,
                      !.due = TRUE]
  /\ UNCHANGED <<net, srv>>

\* The effect on [activeCustomer]; the loads of the customers passed through
\* before there is room are left out.
LoadSettings ==
  /\ ui.due /\ Active # "none" /\ Room
  /\ ui' = [ui EXCEPT !.due = FALSE, !.loading = TRUE]
  /\ net' = Sent("load", For(Active))
  /\ UNCHANGED srv

\* loadSettings after its await: the form is replaced, by whichever customer's
\* settings arrive, and by the defaults when they do not.
AnswerLoad ==
  \E r \in Pending("load"), ok \in BOOLEAN :
    /\ ui' = [ui EXCEPT !.loading = FALSE, !.edited = FALSE,
                        !.whose = IF ok THEN r.key.of ELSE "none",
                        !.table = IF ok THEN r.key.of ELSE "none"]
    /\ net' = Without(r)
    /\ UNCHANGED srv

UpdateSettings ==
  /\ Active # "none" /\ ~ui.edited
  /\ ui' = [ui EXCEPT !.edited = TRUE]
  /\ UNCHANGED <<net, srv>>

\* save: what the form holds goes to the active customer.  A form that is not
\* valid only marks its fields.
Save ==
  /\ Active # "none" /\ ~ui.saving /\ Room
  /\ ui' = [ui EXCEPT !.saving = TRUE]
  /\ net' = Sent("save", For(Active))
  /\ UNCHANGED srv

Saved ==
  \E r \in Pending("save"), ok \in BOOLEAN :
    /\ ui' = IF ok THEN [ui EXCEPT !.saving = FALSE, !.whose = r.key.of, !.table = r.key.of,
                                 !.edited = FALSE]
             ELSE [ui EXCEPT !.saving = FALSE]
    /\ net' = Without(r)
    /\ UNCHANGED srv

\* A source is switched on or off for the customer: the table waits for it, but
\* not the button that saves.
ToggleSource ==
  /\ ui.table # "none" /\ Active # "none"
  /\ ~ui.loading /\ ~ui.saving /\ ~ui.toggling /\ Room
  /\ ui' = [ui EXCEPT !.toggling = TRUE]
  /\ net' = Sent("toggle", For(Active))
  /\ UNCHANGED srv

\* The answer's sources, or those of before, replace the table's, whichever
\* customer is active by then.
SourceToggled ==
  \E r \in Pending("toggle"), ok \in BOOLEAN :
    /\ ui' = [ui EXCEPT !.toggling = FALSE, !.table = IF ok THEN r.key.of ELSE r.key.table]
    /\ net' = Without(r)
    /\ UNCHANGED srv

Next ==
  /\ view = Name /\ UNCHANGED view
  /\ \/ SelectCustomer \/ SelectAll \/ OpenCustomer \/ Synchronise
     \/ LoadSettings \/ AnswerLoad \/ UpdateSettings \/ Save \/ Saved
     \/ ToggleSource \/ SourceToggled

-----------------------------------------------------------------------------
TypeOK ==
  /\ ui.of \in Customers
  /\ {ui.sel, ui.whose, ui.table} \subseteq Customers \cup {"none"}
  /\ \A f \in {"due", "edited", "loading", "saving", "toggling"} : ui[f] \in BOOLEAN

\* The notice of a load, the button and the table wait only for an answer.
BusyIsAwaited ==
  /\ ui.loading => Pending("load") # {}
  /\ ui.saving <=> Pending("save") # {}
  /\ ui.toggling <=> Pending("toggle") # {}

\* Settings are saved once at a time, and one source is switched at a time.
OneWrite == Cardinality(Pending("save")) <= 1 /\ Cardinality(Pending("toggle")) <= 1
=============================================================================
