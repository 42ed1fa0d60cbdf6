------------------------------ MODULE AlarmExport ------------------------------
(***************************************************************************)
(* The export of ActiveAlarmsPage.tsx with ExportPreviewDialog.tsx: a      *)
(* preview of the first rows, and the download.  The question is the page's*)
(* filters; a preview is told by the question it answers.                  *)
(***************************************************************************)
EXTENDS Browser

CONSTANTS Questions
ExportAssumption == "none" \notin Questions

Name == "alarmExport"

Mounted ==
  {[q |-> q, open |-> FALSE, loading |-> FALSE, failed |-> FALSE,
    shown |-> "none", exporting |-> FALSE] : q \in Questions}
Stored == {[alerts |-> {}]}
vars == <<view, ui, net, srv>>
Init == Shows(Name, Mounted, Stored)

\* The filters can change only while the modal dialog is closed.
ChangeQuestion ==
  \E q \in Questions \ {ui.q} :
    /\ ~ui.open
    /\ ui' = [ui EXCEPT !.q = q]
    /\ UNCHANGED <<net, srv>>

OpenPreview ==
  /\ ~ui.open /\ ~ui.exporting /\ Room
  /\ ui' = [ui EXCEPT !.open = TRUE, !.loading = TRUE, !.failed = FALSE, !.shown = "none"]
  /\ net' = Sent("preview", ui.q)
  /\ UNCHANGED srv

ClosePreview ==
  /\ ui.open
  /\ ui' = [ui EXCEPT !.open = FALSE]
  /\ UNCHANGED <<net, srv>>

\* The answer is shown, also when the dialog was closed and opened for another.
AnswerPreview ==
  \E r \in Pending("preview"), ok \in BOOLEAN :
    /\ ui' = [ui EXCEPT !.loading = FALSE, !.shown = IF ok THEN r.key ELSE @,
                        !.failed = @ \/ ~ok]
    /\ net' = Without(r)
    /\ UNCHANGED srv

\* From the page, or from the dialog once a preview is there without an error.
Download ==
  /\ IF ui.open THEN ~ui.loading /\ ~ui.failed /\ ~ui.exporting ELSE ~ui.exporting
  /\ Room
  /\ ui' = [ui EXCEPT !.exporting = TRUE]
  /\ net' = Sent("download", ui.q)
  /\ UNCHANGED srv

\* The file is saved and the dialog closed, whichever dialog is open by then.
AnswerDownload ==
  \E r \in Pending("download"), ok \in BOOLEAN :
    /\ ui' = [ui EXCEPT !.exporting = FALSE, !.open = @ /\ ~ok]
    /\ net' = Without(r)
    /\ UNCHANGED srv

Next ==
  /\ view = Name /\ UNCHANGED view
  /\ \/ ChangeQuestion \/ OpenPreview \/ ClosePreview \/ AnswerPreview
     \/ Download \/ AnswerDownload

-----------------------------------------------------------------------------
TypeOK ==
  /\ ui.q \in Questions /\ ui.shown \in Questions \cup {"none"}
  /\ \A f \in {"open", "loading", "failed", "exporting"} : ui[f] \in BOOLEAN

\* The dialog and the buttons wait only for an answer that is still to come.
BusyIsAwaited ==
  /\ ui.loading => Pending("preview") # {}
  /\ ui.exporting <=> Pending("download") # {}

\* One file is asked for at a time, from the page or from the dialog.
OneWrite == Cardinality(Pending("download")) <= 1
=============================================================================
