------------------------------- MODULE Frontend -------------------------------
(***************************************************************************)
(* The views of the single-page application (App.tsx) side by side, each   *)
(* from its mount on.  Leaving a page ends its view: what a component that *)
(* is gone still receives changes nothing that is shown, and every page    *)
(* starts from what the server stores, so no step leads from view to view. *)
(* The properties say of every view what holds of its kind of state.       *)
(***************************************************************************)
EXTENDS Naturals, FiniteSets

CONSTANTS
  Customers, Alerts, CustomerOf, Anyone, Contexts,
  Questions, Plain, Answering, PageOf,            \* what is asked of the list of alerts
  Keys, Rows, FieldContexts, Texts, SourceNames, Values, Names, Filters,
  Widgets, Columns, Labels, LabelOf, Hours, PresetLength,
  SourceIds, Parsers, Numbers, MaxRevision,
  Tabs, Sections, FirstTab, UsersSection, NeededBy,
  Accounts, Users, Tenants, MaxPolls, Choices, Default, Notifications,
  Hosts, Paths, MaxRuns,
  MaxPending                                      \* bound: requests in flight

VARIABLES view, ui, net, srv
vars == <<view, ui, net, srv>>

\* The alarms, their fields, export and detail.
Alarms       == INSTANCE ActiveAlarms
Fields       == INSTANCE AlarmFields WITH Contexts <- FieldContexts
Export       == INSTANCE AlarmExport WITH MaxPending <- MaxPending + 1
Detail       == INSTANCE AlertDetail WITH AlertIds <- Alerts
\* The home page.
Board        == INSTANCE Dashboard
Recent       == INSTANCE RecentAlarms
Period       == INSTANCE TimeRange WITH MaxPending <- 1
\* The search and the page of a customer.
OfCustomer   == INSTANCE CustomerAlarms
CustFields   == INSTANCE CustomerFields
Search       == INSTANCE AlertSearch
Saved        == INSTANCE SavedSearches WITH Ids <- Accounts
Settings     == INSTANCE CustomerSettings WITH MaxPending <- MaxPending + 1
\* Sources and parsers.
SourceForm   == INSTANCE Sources WITH Ids <- SourceIds
ParserForm   == INSTANCE SourceParser WITH Ids <- SourceIds
Parser       == INSTANCE ParserPage WITH Ids <- Parsers, MaxPending <- MaxPending + 1
Cases        == INSTANCE TestCases
\* Administration.
Manage       == INSTANCE Management WITH First <- FirstTab, MaxPending <- MaxPending + 1
Admin        == INSTANCE UserAdmin WITH Ids <- Accounts
Panel        == INSTANCE PanelUsers WITH Ids <- Accounts
Members      == INSTANCE Memberships
Creation     == INSTANCE TenantCreation
Wizard       == INSTANCE Onboarding
\* What surrounds the pages.
Centre       == INSTANCE NotificationCentre
Choice       == INSTANCE CustomerChoice
Route        == INSTANCE TenantRoute

ASSUME FrontendAssumption ==
  /\ Alarms!PendingAssumption /\ Alarms!AlarmsAssumption
  /\ Fields!FieldsAssumption /\ Export!ExportAssumption /\ Detail!DetailAssumption
  /\ Board!DashboardAssumption /\ Recent!RecentAssumption /\ Period!TimeRangeAssumption
  /\ OfCustomer!CustomerAlarmsAssumption /\ CustFields!CustomerFieldsAssumption
  /\ Search!AlertSearchAssumption /\ Saved!SavedAssumption /\ Settings!SettingsAssumption
  /\ SourceForm!SourcesAssumption /\ ParserForm!ParserAssumption
  /\ Parser!ParserPageAssumption /\ Cases!TestCasesAssumption
  /\ Manage!ManagementAssumption /\ Admin!UserAdminAssumption
  /\ Panel!PanelUsersAssumption /\ Members!MembershipsAssumption
  /\ Creation!TenantAssumption /\ Wizard!OnboardingAssumption
  /\ Centre!CentreAssumption /\ Choice!ChoiceAssumption /\ Route!RouteAssumption

Init ==
  \/ Alarms!Init \/ Fields!Init \/ Export!Init \/ Detail!Init
  \/ Board!Init \/ Recent!Init \/ Period!Init
  \/ OfCustomer!Init \/ CustFields!Init \/ Search!Init \/ Saved!Init \/ Settings!Init
  \/ SourceForm!Init \/ ParserForm!Init \/ Parser!Init \/ Cases!Init
  \/ Manage!Init \/ Admin!Init \/ Panel!Init \/ Members!Init \/ Creation!Init \/ Wizard!Init
  \/ Centre!Init \/ Choice!Init \/ Route!Init

Next ==
  \/ Alarms!Next \/ Fields!Next \/ Export!Next \/ Detail!Next
  \/ Board!Next \/ Recent!Next \/ Period!Next
  \/ OfCustomer!Next \/ CustFields!Next \/ Search!Next \/ Saved!Next \/ Settings!Next
  \/ SourceForm!Next \/ ParserForm!Next \/ Parser!Next \/ Cases!Next
  \/ Manage!Next \/ Admin!Next \/ Panel!Next \/ Members!Next \/ Creation!Next \/ Wizard!Next
  \/ Centre!Next \/ Choice!Next \/ Route!Next

Spec == Init /\ [][Next]_vars

-----------------------------------------------------------------------------
\* The state of each view has its types.
TypeOK ==
  /\ view = Alarms!Name => Alarms!TypeOK
  /\ view = Fields!Name => Fields!TypeOK
  /\ view = Export!Name => Export!TypeOK
  /\ view = Detail!Name => Detail!TypeOK
  /\ view = Board!Name => Board!TypeOK
  /\ view = Recent!Name => Recent!TypeOK
  /\ view = Period!Name => Period!TypeOK
  /\ view = OfCustomer!Name => OfCustomer!TypeOK
  /\ view = CustFields!Name => CustFields!TypeOK
  /\ view = Search!Name => Search!TypeOK
  /\ view = Saved!Name => Saved!TypeOK
  /\ view = Settings!Name => Settings!TypeOK
  /\ view = SourceForm!Name => SourceForm!TypeOK
  /\ view = ParserForm!Name => ParserForm!TypeOK
  /\ view = Parser!Name => Parser!TypeOK
  /\ view = Cases!Name => Cases!TypeOK
  /\ view = Manage!Name => Manage!TypeOK
  /\ view = Admin!Name => Admin!TypeOK
  /\ view = Panel!Name => Panel!TypeOK
  /\ view = Members!Name => Members!TypeOK
  /\ view = Creation!Name => Creation!TypeOK
  /\ view = Wizard!Name => Wizard!TypeOK
  /\ view = Centre!Name => Centre!TypeOK
  /\ view = Choice!Name => Choice!TypeOK
  /\ view = Route!Name => Route!TypeOK

\* The flags by which a view waits, of a load, a save, an export or a comparison,
\* are set only while an answer is still to come, in every order of the answers and
\* after every failure.  A flag that a path leaves behind hangs the page.  The bar
\* of a row that opens is not among them: ensureAlertDetail marks the row as loading
\* and sends no request (ActiveAlarmsPage.tsx:697-713, HomePage.tsx:576-592,
\* CustomerAlarmsPage.tsx:483-499), so that bar stays as long as the page does.
BusyIsAwaited ==
  /\ view = Alarms!Name => Alarms!BusyIsAwaited
  /\ view = Fields!Name => Fields!BusyIsAwaited
  /\ view = Export!Name => Export!BusyIsAwaited
  /\ view = Detail!Name => Detail!BusyIsAwaited
  /\ view = Board!Name => Board!BusyIsAwaited
  /\ view = Recent!Name => Recent!BusyIsAwaited
  /\ view = OfCustomer!Name => OfCustomer!BusyIsAwaited
  /\ view = CustFields!Name => CustFields!BusyIsAwaited
  /\ view = Search!Name => Search!BusyIsAwaited
  /\ view = Settings!Name => Settings!BusyIsAwaited
  /\ view = SourceForm!Name => SourceForm!BusyIsAwaited
  /\ view = ParserForm!Name => ParserForm!BusyIsAwaited
  /\ view = Parser!Name => Parser!BusyIsAwaited
  /\ view = Cases!Name => Cases!BusyIsAwaited
  /\ view = Manage!Name => Manage!BusyIsAwaited
  /\ view = Admin!Name => Admin!BusyIsAwaited
  /\ view = Panel!Name => Panel!BusyIsAwaited
  /\ view = Creation!Name => Creation!BusyIsAwaited
  /\ view = Choice!Name => Choice!BusyIsAwaited
  /\ view = Route!Name => Route!BusyIsAwaited

\* Where a flag keeps a write from being sent twice, no two are in flight, also
\* when the flag is shared by other calls or reset by an answer of theirs.  The save
\* key of the parser's editor goes past the flag (SourcesPage.tsx:1194, 608-642):
\* there the property holds of the saves that no save by key overlaps.
OneWrite ==
  /\ view = Alarms!Name => Alarms!OneBulk
  /\ view = Fields!Name => Fields!OneWrite
  /\ view = Export!Name => Export!OneWrite
  /\ view = Board!Name => Board!OneWrite
  /\ view = OfCustomer!Name => OfCustomer!OneWrite
  /\ view = CustFields!Name => CustFields!OneWrite
  /\ view = Search!Name => Search!OneWrite
  /\ view = Settings!Name => Settings!OneWrite
  /\ view = SourceForm!Name => SourceForm!OneWrite
  /\ view = ParserForm!Name => ParserForm!OneWrite
  /\ view = Parser!Name => Parser!OneWrite
  /\ view = Cases!Name => Cases!OneWrite
  /\ view = Creation!Name => Creation!OneWrite

\* What the user edits or selects is what the view shows, whatever answer replaced
\* what was shown meanwhile: the fields offered are those of the source and type
\* chosen, the form is of the selected source, the state and the assignee are of the
\* alert shown, a selected row is in the list.  What the code does not keep beside
\* what is shown is named with its excuse: the parser in the form once requests have
\* crossed a change of the selection (SourceParser), and the text, tag and file of
\* an alert once another was opened under them (AlertDetail).
ActsOnShown ==
  /\ view = Fields!Name => Fields!SchemaOfKey
  /\ view = CustFields!Name => CustFields!SchemaOfKey
  /\ view = Detail!Name => Detail!ChoiceIsForShown
  /\ view = SourceForm!Name => SourceForm!FormIsOfSelected
  /\ view = ParserForm!Name => ParserForm!HeldIsOfSelected
  /\ view = Panel!Name => Panel!EditNeverCreates
  /\ view = Members!Name => Members!DialogHasCustomer
  /\ view = Alarms!Name => Alarms!SelectionIsShown
  /\ view = Cases!Name => Cases!DrawnHasFailed
  /\ view = Centre!Name => Centre!PopupIsShownOnce

\* What the user arranges stays whole: every widget of the layout once, a column
\* left in the table, a time range that ends after it begins.
ArrangementIsWhole ==
  /\ view = Board!Name => Board!LayoutIsWhole
  /\ view = Recent!Name => Recent!ColumnIsLeft
  /\ view = Period!Name => Period!WindowIsInterval

\* A view does not run ahead of what the server has granted or made: tabs and
\* data of the permissions, the wizard of a tenant that exists, the last step
\* of the onboarding, a customer only for who is signed in, a host that answers.
GrantedBeforeShown ==
  /\ view = Manage!Name => Manage!DataIsAllowed /\ Manage!TabIsVisible
  /\ view = Creation!Name => Creation!WizardHasTenant
  /\ view = Wizard!Name => Wizard!LastIsCompleted
  /\ view = Choice!Name => Choice!SignedOutChoosesNone
  /\ view = Route!Name => Route!GoesToFirstUp

\* The export of a customer's alarms holds alarms of that customer.
FileIsOfCustomer == view = OfCustomer!Name => OfCustomer!FileIsOfCustomer
=============================================================================
