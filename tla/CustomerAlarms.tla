---------------------------- MODULE CustomerAlarms ----------------------------
(***************************************************************************)
(* The list of CustomerAlarmsPage.tsx: the alerts of the customer in the   *)
(* address, its filters and pages, and the export to a file.  Filters,     *)
(* text and ordering are one question; the page of a result is not told    *)
(* from the whole result.                                                  *)
(***************************************************************************)
EXTENDS Browser

CONSTANTS Customers, Alerts, CustomerOf, Questions, Plain, Answering

\* Plain is the question without filters: it matches every alert.
CustomerAlarmsAssumption ==
  /\ CustomerOf \in [Alerts -> Customers]
  /\ Answering \in [Questions -> SUBSET Alerts]
  /\ Plain \in Questions /\ Answering[Plain] = Alerts

Name == "customerAlarms"
Pages == {0, 1}                     \* bound: the pages of a result

Mounted ==
  {[of |-> c, header |-> c, q |-> Plain, p |-> 0, rows |-> {}, total |-> 0,
    due |-> TRUE, loading |-> FALSE, exporting |-> FALSE, file |-> {}] :
      c \in Customers}
Stored == {[alerts |-> Alerts]}
vars == <<view, ui, net, srv>>
Init == Shows(Name, Mounted, Stored)

\* A search sends the customer of the address as a query parameter.
SearchAnswer(key) == {a \in Answering[key.q] : CustomerOf[a] = key.of}

\* An export sends the filters alone.
ExportAnswer(key) == Answering[key.q]

\* buildSearchPayload, with what the closure of the caller captured.
Payload(u) == [q |-> u.q, p |-> u.p, of |-> u.of]

\* A new question or page makes a new loadAlarms, which restarts its 200 ms timer.
Ask(u) ==
  [u EXCEPT !.due = @ \/ <<u.q, u.p, u.of>> # <<ui.q, ui.p, ui.of>>]

\* The timer fires: loadAlarms to its await.
LoadAlarms ==
  /\ ui.due /\ Room
  /\ ui' = [ui EXCEPT !.due = FALSE, !.loading = TRUE]
  /\ net' = Sent("load", Payload(ui))
  /\ UNCHANGED srv

\* loadAlarms after its await: any answer is shown, of an earlier customer too.
AnswerLoad ==
  \E r \in Pending("load"), ok \in BOOLEAN :
    /\ ui' = [ui EXCEPT !.rows = IF ok THEN SearchAnswer(r.key) ELSE {},
                        !.total = IF ok THEN Cardinality(SearchAnswer(r.key)) ELSE 0,
                        !.loading = FALSE]
    /\ net' = Without(r)
    /\ UNCHANGED srv

ToggleSort ==
  \E q \in {x \in Questions : Answering[x] = Answering[ui.q]} :
    /\ ui' = Ask([ui EXCEPT !.q = q, !.p = 0])
    /\ UNCHANGED <<net, srv>>

SetFilter ==
  \E q \in Questions \ {ui.q} :
    /\ ui' = Ask([ui EXCEPT !.q = q, !.p = 0])
    /\ UNCHANGED <<net, srv>>

ClearFilters ==
  /\ ui' = Ask([ui EXCEPT !.q = Plain, !.p = 0])
  /\ UNCHANGED <<net, srv>>

ChangePage ==
  \E p \in Pages :
    /\ ui' = Ask([ui EXCEPT !.p = p])
    /\ UNCHANGED <<net, srv>>

\* The address names another customer: page 0, and the header follows.
OpenCustomer ==
  \E c \in Customers \ {ui.of} :
    /\ ui' = Ask([ui EXCEPT !.of = c, !.header = c, !.p = 0])
    /\ UNCHANGED <<net, srv>>

\* The customer chosen in the header does not change the one of the address.
ChooseInHeader ==
  \E c \in Customers \ {ui.header} :
    /\ ui' = [ui EXCEPT !.header = c]
    /\ UNCHANGED <<net, srv>>

Export ==
  /\ ~ui.exporting /\ Room
  /\ ui' = [ui EXCEPT !.exporting = TRUE]
  /\ net' = Sent("export", Payload(ui))
  /\ UNCHANGED srv

\* Variant: the flag is reset by an answer, not in a finally.
AnswerExportKeepFlag ==
  \E r \in Pending("export"), ok \in BOOLEAN :
    /\ ui' = IF ok THEN [ui EXCEPT !.exporting = FALSE] ELSE ui
    /\ net' = Without(r)
    /\ UNCHANGED srv

\* handleExport after its await: the file is named after the customer the
\* handler captured; "file" holds the pairs of name and content.
AnswerExport ==
  \E r \in Pending("export"), ok \in BOOLEAN :
    /\ ui' = [ui EXCEPT !.exporting = FALSE,
                        !.file = IF ok THEN {[of |-> r.key.of, alerts |-> ExportAnswer(r.key)]}
                                 ELSE @]
    /\ net' = Without(r)
    /\ UNCHANGED srv

Next ==
  /\ view = Name /\ UNCHANGED view
  /\ \/ LoadAlarms \/ AnswerLoad \/ ToggleSort \/ SetFilter \/ ClearFilters
     \/ ChangePage \/ OpenCustomer \/ ChooseInHeader \/ Export \/ AnswerExport

-----------------------------------------------------------------------------
TypeOK ==
  /\ {ui.of, ui.header} \subseteq Customers
  /\ ui.q \in Questions /\ ui.p \in Pages /\ ui.rows \subseteq Alerts
  /\ ui.total \in 0..Cardinality(Alerts)
  /\ \A f \in {"due", "loading", "exporting"} : ui[f] \in BOOLEAN
  /\ \A f \in ui.file : f.of \in Customers /\ f.alerts \subseteq srv.alerts

\* The list and the export button wait only for an answer still to come.
BusyIsAwaited ==
  /\ ui.loading => Pending("load") # {}
  /\ ui.exporting <=> Pending("export") # {}

\* One file is asked for at a time.
OneWrite == Cardinality(Pending("export")) <= 1

\* What the page says it exports, the alarms of the customer, is what the file
\* holds that is named after the customer.
FileIsOfCustomer ==
  \A f \in ui.file : \A a \in f.alerts : CustomerOf[a] = f.of
=============================================================================
