------------------------------ MODULE Onboarding ------------------------------
(***************************************************************************)
(* OnboardingWizard.tsx: four steps, kept on the server as the user's      *)
(* preference for the tenant.  Preset, template and addresses are one      *)
(* "choice", "none" in a preference that does not have them.               *)
(***************************************************************************)
EXTENDS Browser

CONSTANTS Choices, Default
OnboardingAssumption == Default \in Choices /\ "none" \notin Choices

Name == "onboarding"
Last == 3                               \* steps.length - 1
Preference == [step : 0..Last, choice : Choices \cup {"none"}, completed : BOOLEAN]
New == [step |-> 0, choice |-> "none", completed |-> FALSE]

Mounted == {[open |-> TRUE, step |-> 0, choice |-> Default]}
Stored == {[preference |-> p] :
    p \in {New, [step |-> 1, choice |-> Default, completed |-> FALSE]}}
vars == <<view, ui, net, srv>>
Init ==
  /\ view = Name /\ ui \in Mounted /\ srv \in Stored
  /\ net = {[id |-> 1, op |-> "fetch", key |-> New]}

\* The stored preference arrives and what it has is shown, whatever was done
\* since; without a stored one the wizard goes back to the first step.
Fetched ==
  \E r \in Pending("fetch"), ok \in BOOLEAN :
    /\ ui' = IF ok THEN [ui EXCEPT !.step = srv.preference.step,
                                   !.choice = IF srv.preference.choice = "none" THEN @
                                              ELSE srv.preference.choice]
             ELSE ui
    /\ net' = Without(r)
    /\ UNCHANGED srv

Choose ==
  \E c \in Choices :
    /\ ui.open /\ ui.step < Last
    /\ ui' = [ui EXCEPT !.choice = c]
    /\ UNCHANGED <<net, srv>>

\* persist: the whole preference, with what the handler patches.
Persist(op, step, completed) ==
  Sent(op, [step |-> step, choice |-> ui.choice, completed |-> completed])

\* "Avanti": the step is shown at once, and stored with the other values.
HandleNext ==
  /\ ui.open /\ ui.step < Last /\ Room
  /\ ui' = [ui EXCEPT !.step = @ + 1]
  /\ net' = Persist("next", ui.step + 1, ui.step + 1 = Last)
  /\ UNCHANGED srv

\* "Salta" and "Fine" close the wizard once the server has answered.
HandleSkip ==
  /\ ui.open /\ Room
  /\ net' = Persist("close", ui.step, TRUE)
  /\ UNCHANGED <<ui, srv>>

HandleFinish ==
  /\ ui.open /\ ui.step = Last /\ Room
  /\ net' = Persist("close", Last, TRUE)
  /\ UNCHANGED <<ui, srv>>

\* The server stores one of the preferences that are out, in any order.
Persisted ==
  \E r \in Pending("next") \cup Pending("close") :
    /\ srv' = [srv EXCEPT !.preference = r.key]
    /\ ui' = [ui EXCEPT !.open = @ /\ r.op = "next"]
    /\ net' = Without(r)

\* The rejection is nobody's: a wizard that was to close stays open.
PersistFails ==
  \E r \in Pending("next") \cup Pending("close") :
    /\ net' = Without(r)
    /\ UNCHANGED <<ui, srv>>

\* A click outside the dialog closes it and stores nothing.
Dismiss ==
  /\ ui.open
  /\ ui' = [ui EXCEPT !.open = FALSE]
  /\ UNCHANGED <<net, srv>>

\* The wizard of the same tenant is shown again: its state is fetched.
Reopen ==
  /\ ~ui.open /\ Room
  /\ ui' = [ui EXCEPT !.open = TRUE]
  /\ net' = Sent("fetch", New)
  /\ UNCHANGED srv

Next ==
  /\ view = Name /\ UNCHANGED view
  /\ \/ Fetched \/ Choose \/ HandleNext \/ HandleSkip \/ HandleFinish
     \/ Persisted \/ PersistFails \/ Dismiss \/ Reopen

-----------------------------------------------------------------------------
TypeOK ==
  /\ ui.open \in BOOLEAN /\ ui.step \in 0..Last /\ ui.choice \in Choices
  /\ srv.preference \in Preference
  /\ \A r \in net : r.key \in Preference

\* What is stored as the last step is stored as completed.
LastIsCompleted == srv.preference.step = Last => srv.preference.completed
=============================================================================
