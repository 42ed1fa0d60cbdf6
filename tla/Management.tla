------------------------------ MODULE Management ------------------------------
(***************************************************************************)
(* The console of AdminConfigPage.tsx: its tabs, the sections it loads     *)
(* under the user's permissions, and the settings, which stay in the       *)
(* browser's storage.  A section is loaded, empty or failed.               *)
(***************************************************************************)
EXTENDS Browser

CONSTANTS Tabs, Sections, First, UsersSection, NeededBy
\* NeededBy maps a tab or a section to the permissions that show it; UsersSection is
\* the section whose entries the page itself creates, the users.
ManagementAssumption ==
  /\ First \in Tabs /\ UsersSection \in Sections
  /\ \A x \in Tabs \cup Sections : NeededBy[x] # {}

Name == "management"
Permissions == UNION {NeededBy[x] : x \in Tabs \cup Sections}

\* A tab or a section is for those who have one of its permissions.
Allowed(granted, x) == NeededBy[x] \cap granted # {}
VisibleTabs(granted) == {t \in Tabs : Allowed(granted, t)}

\* The effect on [tab, tabs]: a tab that is not visible gives way to the first.
ShowVisible(u) ==
  IF VisibleTabs(u.granted) = {} \/ u.tab \in VisibleTabs(u.granted) THEN u
  ELSE [u EXCEPT !.tab = IF First \in VisibleTabs(u.granted) THEN First
                         ELSE CHOOSE t \in VisibleTabs(u.granted) : TRUE]

\* The tab and the settings are read from the browser's storage.  History: "late",
\* since the last load a user was added whom the permissions no longer allow to see.
Mounted ==
  {ShowVisible(u) : u \in
     [granted : SUBSET Permissions, tab : Tabs, loaded : {{}}, failed : {{}},
      loading : {TRUE}, late : {FALSE}, settings : {"kept", "default"}]}
Stored == {[sections |-> Sections]}
vars == <<view, ui, net, srv>>

CanView(granted) == Allowed(granted, First)
MayHold(granted, s) == CanView(granted) /\ Allowed(granted, s)

\* load to its await, for the permissions of the moment.
Ask(u) == IF CanView(u.granted) THEN [u EXCEPT !.loading = TRUE, !.failed = {}]
          ELSE [u EXCEPT !.loaded = {}, !.failed = {}, !.late = FALSE]

Asked(u, requests) ==
  {IF r.op = "load" THEN [r EXCEPT !.op = "cancelled"] ELSE r : r \in requests} \cup
  IF CanView(u.granted)
  THEN {[id |-> CHOOSE i \in 1..MaxPending : \A r \in requests : r.id # i,
         op |-> "load", key |-> u.granted]}
  ELSE {}

Init ==
  /\ view = Name /\ srv \in Stored
  /\ \E u \in Mounted : ui = IF CanView(u.granted) THEN u ELSE [u EXCEPT !.loading = FALSE]
  /\ net = Asked(ui, {})

\* Ten calls settle together: what is not permitted is not asked for and counts
\* as empty; the others are loaded or reported as missing.
Loaded ==
  \E r \in Pending("load") : \E failed \in SUBSET {s \in Sections : Allowed(r.key, s)} :
    /\ ui' = [ui EXCEPT !.loading = FALSE, !.failed = failed, !.late = FALSE,
                        !.loaded = {s \in Sections : Allowed(r.key, s)} \ failed]
    /\ net' = Without(r)
    /\ UNCHANGED srv

\* The answer to an effect that was cleaned up is dropped.
DropLoad ==
  \E r \in Pending("cancelled") :
    /\ net' = Without(r)
    /\ UNCHANGED <<ui, srv>>

ChooseTab ==
  \E t \in VisibleTabs(ui.granted) :
    /\ CanView(ui.granted)
    /\ ui' = [ui EXCEPT !.tab = t]
    /\ UNCHANGED <<net, srv>>

\* The profile of the user is read again, maybe with other permissions.
ProfileChanges ==
  \E g \in SUBSET Permissions :
    /\ Room
    /\ ui' = ShowVisible(Ask([ui EXCEPT !.granted = g]))
    /\ net' = Asked(ui', net)
    /\ UNCHANGED srv

\* The cards of the platform tab: a change is kept in the browser at once.
UpdateSettings ==
  /\ CanView(ui.granted)
  /\ ui' = [ui EXCEPT !.settings = "kept"]
  /\ UNCHANGED <<net, srv>>

\* saveUser to its await; UserAdmin has its dialog.
SaveUser ==
  /\ MayHold(ui.granted, UsersSection) /\ Room
  /\ net' = Sent("saveUser", ui.granted)
  /\ UNCHANGED <<ui, srv>>

\* A new user joins the list that the page has now; an update, or a failure, adds
\* none.
UserSaved ==
  \E r \in Pending("saveUser"), created \in BOOLEAN :
    /\ ui' = IF created
             THEN [ui EXCEPT !.loaded = @ \cup {UsersSection},
                             !.late = @ \/ ~MayHold(ui.granted, UsersSection)]
             ELSE ui
    /\ net' = Without(r)
    /\ UNCHANGED srv

Next ==
  /\ view = Name /\ UNCHANGED view
  /\ \/ Loaded \/ DropLoad \/ ChooseTab \/ ProfileChanges \/ UpdateSettings
     \/ SaveUser \/ UserSaved

-----------------------------------------------------------------------------
TypeOK ==
  /\ ui.granted \subseteq Permissions /\ ui.tab \in Tabs
  /\ ui.loaded \cup ui.failed \subseteq Sections
  /\ ui.loading \in BOOLEAN /\ ui.late \in BOOLEAN /\ ui.settings \in {"kept", "default"}

\* While the user may see the console, it is busy exactly when an answer that
\* will be used is awaited.
BusyIsAwaited == CanView(ui.granted) => (ui.loading <=> Pending("load") # {})

\* Once no load is awaited, the console holds only what the user's permissions of
\* the moment allow, whatever they were when an earlier load began; only a user
\* that was created under earlier permissions may have been added since.
DataIsAllowed ==
  Pending("load") = {} =>
    \A s \in ui.loaded :
      MayHold(ui.granted, s) \/ (s = UsersSection /\ ui.late)

\* The open tab is one the user may see, if there is any.
TabIsVisible == VisibleTabs(ui.granted) # {} => ui.tab \in VisibleTabs(ui.granted)
=============================================================================
