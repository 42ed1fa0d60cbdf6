------------------------------ MODULE AlertDetail ------------------------------
(***************************************************************************)
(* AlertDetailPage.tsx.  The router keeps the component when only the id   *)
(* in the address changes (a notification, the browser's back button), so  *)
(* loads and actions of one alert are answered over another.  What the     *)
(* user has entered is told by the alert it was entered for.               *)
(***************************************************************************)
EXTENDS Browser

CONSTANTS AlertIds
DetailAssumption == "none" \notin AlertIds

Name == "detail"

\* The writes: every button waits for "busy" except the cross of a tag.
Guarded == {"state", "assign", "addTag", "mitre", "upload", "comment"}

\* The writes that send what was entered: a text, a tag, a file.
Entries == {"comment", "addTag", "upload"}

\* "choice" and "entered" name the alert that was shown when the state and the
\* assignee were chosen, and when each entry was made.  History: "stray", an entry
\* was made over an alert not of the address, or another alert was opened while
\* there was one or a request was out.
Mounted ==
  {[id |-> a, shown |-> "none", loading |-> TRUE, busy |-> FALSE, choice |-> "none",
    entered |-> [e \in Entries |-> "none"], dialog |-> FALSE, success |-> FALSE,
    stray |-> FALSE] : a \in AlertIds}
Stored == {[alerts |-> AlertIds]}
vars == <<view, ui, net, srv>>

\* A request knows the id of the address when it was made, the alert written and
\* the entry that its success resets.
Key(id, target, ends) == [at |-> id, on |-> target, ends |-> ends]
Req(op, id, target, ends) == [id |-> Fresh, op |-> op, key |-> Key(id, target, ends)]

Init ==
  /\ view = Name /\ ui \in Mounted /\ srv \in Stored
  /\ net = {[id |-> 1, op |-> "load", key |-> Key(ui.id, ui.id, "none")]}

\* While it loads the page is a progress bar; without an alert, a message.
Usable == ~ui.loading /\ ui.shown # "none"

NothingEntered == \A e \in Entries : ui.entered[e] = "none"

\* Another id in the address; the component, its dialog and its entries stay.
OpenOther ==
  \E a \in AlertIds \ {ui.id} :
    /\ Room
    /\ ui' = [ui EXCEPT !.id = a, !.loading = TRUE,
                        !.stray = ~NothingEntered \/ net # {}]
    /\ net' = net \cup {Req("load", a, a, "none")}
    /\ UNCHANGED srv

\* Variant: the choices of state and assignee are not reset with the alert.
ShowAlertKeepChoice(u, a) ==
  [u EXCEPT !.shown = a, !.choice = IF @ = "none" THEN a ELSE @, !.loading = FALSE]

\* The alert and the choices that start from it are set together.
ShowAlert(u, a) == [u EXCEPT !.shown = a, !.choice = a, !.loading = FALSE]

\* loadData: the alert must load, its lists may fail one by one.
AnswerLoad ==
  \E r \in Pending("load"), ok \in BOOLEAN :
    /\ ui' = IF ok THEN ShowAlert(ui, r.key.on) ELSE [ui EXCEPT !.loading = FALSE]
    /\ net' = Without(r)
    /\ UNCHANGED srv

\* executeAction to its first await, on the alert shown.  The text of a comment
\* is cleared before it is sent, a tag and a file when they were stored.
Reset(entered, e) == [x \in Entries |-> IF x = e THEN "none" ELSE entered[x]]

Act(kind) ==
  /\ Usable /\ Room
  /\ kind \in Guarded => ~ui.busy
  /\ kind \in Entries => ui.entered[kind] # "none"
  /\ kind = "state" => ui.dialog
  /\ ui' = [ui EXCEPT !.busy = TRUE, !.success = FALSE,
                      !.dialog = @ /\ kind # "state",
                      !.entered = IF kind = "comment" THEN Reset(@, kind) ELSE @]
  /\ net' = net \cup {Req("act", ui.id, ui.shown,
                         IF kind \in {"addTag", "upload"} THEN kind ELSE "none")}
  /\ UNCHANGED srv

Write == \E kind \in Guarded \cup {"removeTag"} : Act(kind)

\* The write succeeded: the alert of the address the closure captured is loaded.
ActDone ==
  \E r \in Pending("act") :
    /\ ui' = [ui EXCEPT !.loading = TRUE, !.entered = Reset(@, r.key.ends)]
    /\ net' = Without(r) \cup {[r EXCEPT !.op = "reload", !.key = Key(@.at, @.at, "none")]}
    /\ UNCHANGED srv

ActFails ==
  \E r \in Pending("act") :
    /\ ui' = [ui EXCEPT !.busy = FALSE]
    /\ net' = Without(r)
    /\ UNCHANGED srv

\* The load after a write: its failure is caught, so success is told all the same.
Reloaded ==
  \E r \in Pending("reload"), ok \in BOOLEAN :
    /\ ui' = [(IF ok THEN ShowAlert(ui, r.key.on) ELSE [ui EXCEPT !.loading = FALSE])
                EXCEPT !.busy = FALSE, !.success = TRUE]
    /\ net' = Without(r)
    /\ UNCHANGED srv

\* An attachment is downloaded: busy, and nothing is loaded again.
Download ==
  /\ Usable /\ ~ui.busy /\ Room
  /\ ui' = [ui EXCEPT !.busy = TRUE, !.success = FALSE]
  /\ net' = net \cup {Req("download", ui.id, ui.shown, "none")}
  /\ UNCHANGED srv

Downloaded ==
  \E r \in Pending("download"), ok \in BOOLEAN :
    /\ ui' = [ui EXCEPT !.busy = FALSE, !.success = ok]
    /\ net' = Without(r)
    /\ UNCHANGED srv

ToggleStateDialog ==
  /\ Usable /\ (ui.dialog \/ ~ui.busy)
  /\ ui' = [ui EXCEPT !.dialog = ~@]
  /\ UNCHANGED <<net, srv>>

\* A state in the dialog, an assignee in the list: chosen for the alert shown.
Choose ==
  /\ Usable /\ ~ui.busy
  /\ ui' = [ui EXCEPT !.choice = ui.shown]
  /\ UNCHANGED <<net, srv>>

\* A text is typed, a tag or a file chosen, or taken back.  Bound: a text is not
\* typed on.
Enter ==
  \E e \in Entries, v \in {"none", ui.shown} :
    /\ Usable /\ ~ui.busy
    /\ e = "comment" /\ v # "none" => ui.entered[e] = "none"
    /\ ui' = [ui EXCEPT !.entered = [@ EXCEPT ![e] = v],
                        !.stray = @ \/ ui.id # ui.shown]
    /\ UNCHANGED <<net, srv>>

Next ==
  /\ view = Name /\ UNCHANGED view
  /\ \/ OpenOther \/ AnswerLoad \/ Write \/ ActDone \/ ActFails \/ Reloaded
     \/ Download \/ Downloaded \/ ToggleStateDialog \/ Choose \/ Enter

-----------------------------------------------------------------------------
TypeOK ==
  /\ ui.id \in AlertIds
  /\ \A f \in {"shown", "choice"} : ui[f] \in AlertIds \cup {"none"}
  /\ ui.entered \in [Entries -> AlertIds \cup {"none"}]
  /\ \A f \in {"loading", "busy", "dialog", "success", "stray"} : ui[f] \in BOOLEAN

\* The page waits only while an answer is still to come.
BusyIsAwaited ==
  /\ ui.loading => Pending("load") \cup Pending("reload") # {}
  /\ ui.busy => Pending("act") \cup Pending("reload") \cup Pending("download") # {}

\* The state and the assignee the page would send were chosen for the alert it shows.
\* The page does not clear its entries with the alert: they are for the alert shown
\* unless they strayed from one to another.
ChoiceIsForShown ==
  /\ ui.choice = ui.shown
  /\ ui.stray \/ \A e \in Entries : ui.entered[e] \in {"none", ui.shown}
=============================================================================
