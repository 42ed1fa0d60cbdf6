-------------------------- MODULE NotificationCentre --------------------------
(***************************************************************************)
(* AppLayout.tsx and NotificationDrawer.tsx: the list of notifications, the*)
(* popup of a critical one and the writes of the drawer, each of which     *)
(* reads the list again.  A notification is critical; "unread" is what the *)
(* server says of the user.                                                *)
(***************************************************************************)
EXTENDS Browser

CONSTANTS Notifications
CentreAssumption == "none" \notin Notifications

Name == "notifications"

\* "seen" is the set that the browser's session storage keeps.
Mounted ==
  {[list |-> {}, unread |-> {}, popup |-> "none", seen |-> s, open |-> FALSE,
    picker |-> "none"] : s \in SUBSET Notifications}
Stored == {[unread |-> s, sent |-> s] : s \in SUBSET Notifications}
vars == <<view, ui, net, srv>>

\* What a request is about, or what its answer brings: notifications that are
\* or were unread, and all there are.
About(unread, all) == [unread |-> unread, all |-> all]
Nothing == About({}, {})

Init ==
  /\ view = Name /\ ui \in Mounted /\ srv \in Stored
  /\ net = {[id |-> 1, op |-> "load", key |-> Nothing]}

\* The server notifies; the socket or the poll asks for the list.
Notify ==
  \E n \in Notifications \ srv.sent :
    /\ srv' = [srv EXCEPT !.sent = @ \cup {n}, !.unread = @ \cup {n}]
    /\ UNCHANGED <<ui, net>>

LoadNotifications ==
  /\ Room
  /\ net' = Sent("load", Nothing)
  /\ UNCHANGED <<ui, srv>>

\* The server reads the list; the answer is on its way, to a load or to the
\* load that follows the drawer's "Apri".
ListRead ==
  \E r \in Pending("load") \cup Pending("loadToOpen") :
    /\ net' = Without(r) \cup
         {[r EXCEPT !.op = IF r.op = "load" THEN "list" ELSE "listToOpen",
                    !.key = About(srv.unread, srv.sent)]}
    /\ UNCHANGED <<ui, srv>>

\* Variant: the popup that is chosen is not marked.
PopupsUnmarked(u, unread) ==
  IF u.popup \in unread THEN {u}
  ELSE IF unread \subseteq u.seen THEN {[u EXCEPT !.popup = "none"]}
  ELSE {[u EXCEPT !.popup = n] : n \in unread \ u.seen}

\* setPopupNotification in loadNotifications: the popup stays while the answer
\* has it unread; else one that was never shown takes its place, and is marked.
Popups(u, unread) ==
  IF u.popup \in unread THEN {u}
  ELSE IF unread \subseteq u.seen THEN {[u EXCEPT !.popup = "none"]}
  ELSE {[u EXCEPT !.popup = n, !.seen = @ \cup {n}] : n \in unread \ u.seen}

ListArrives ==
  \E r \in Pending("list") :
    /\ ui' \in Popups([ui EXCEPT !.list = r.key.all, !.unread = r.key.unread], r.key.unread)
    /\ net' = Without(r)
    /\ UNCHANGED srv

\* onOpenAlert of the drawer: popup and drawer are closed, the alert opened.
Left(u) == [u EXCEPT !.popup = "none", !.open = FALSE]

\* The same list after "Apri": a popup this answer chose is marked as shown and
\* closed in the same render.
ListArrivesToOpen ==
  \E r \in Pending("listToOpen") :
    /\ ui' \in {Left(u) : u \in Popups([ui EXCEPT !.list = r.key.all,
                                                 !.unread = r.key.unread], r.key.unread)}
    /\ net' = Without(r)
    /\ UNCHANGED srv

\* A load that fails empties the list and closes the popup.
LoadFails ==
  \E r \in {x \in net : x.op \in {"load", "list", "loadToOpen", "listToOpen"}} :
    LET empty == [ui EXCEPT !.list = {}, !.unread = {}, !.popup = "none"] IN
    /\ ui' = IF r.op \in {"load", "list"} THEN empty ELSE Left(empty)
    /\ net' = Without(r)
    /\ UNCHANGED srv

ToggleDrawer ==
  /\ ui' = [ui EXCEPT !.open = ~@]
  /\ UNCHANGED <<net, srv>>

\* "Letta", "Segna tutto letto": the write, then the list again.
Ack ==
  \E s \in {{n} : n \in ui.list} \cup {Notifications} :
    /\ ui.open /\ Room
    /\ net' = Sent("ack", About(s, {}))
    /\ UNCHANGED <<ui, srv>>

\* "Apri": the mark is awaited, with the list after it, before the alert opens.
OpenAlert ==
  \E n \in ui.list :
    /\ ui.open /\ Room
    /\ net' = Sent("ackToOpen", About({n}, {}))
    /\ UNCHANGED <<ui, srv>>

PickSnooze ==
  \E n \in ui.list :
    /\ ui.open
    /\ ui' = [ui EXCEPT !.picker = IF @ = n THEN "none" ELSE n]
    /\ UNCHANGED <<net, srv>>

Snooze ==
  /\ ui.open /\ ui.picker # "none" /\ Room
  /\ ui' = [ui EXCEPT !.picker = "none"]
  /\ net' = Sent("snooze", About({ui.picker}, {}))
  /\ UNCHANGED srv

\* What the server does to a notification it snoozes or marks: it is not unread
\* for the user.
Written ==
  \E r \in Pending("ack") \cup Pending("snooze") \cup Pending("ackToOpen") :
    /\ srv' = [srv EXCEPT !.unread = @ \ r.key.unread]
    /\ net' = Without(r) \cup
         {[r EXCEPT !.op = IF @ = "ackToOpen" THEN "loadToOpen" ELSE "load",
                    !.key = Nothing]}
    /\ UNCHANGED ui

\* Best effort: the list is not read again, and nothing is said; the drawer's
\* "Apri" opens the alert all the same.
WriteFails ==
  \E r \in Pending("ack") \cup Pending("snooze") \cup Pending("ackToOpen") :
    /\ ui' = IF r.op = "ackToOpen" THEN Left(ui) ELSE ui
    /\ net' = Without(r)
    /\ UNCHANGED srv

\* The popup's button: the mark is sent and not awaited, the alert opened.
OpenPopup ==
  /\ ui.popup # "none" /\ Room
  /\ ui' = [ui EXCEPT !.popup = "none", !.seen = @ \cup {ui.popup}]
  /\ net' = Sent("mark", About({ui.popup}, {}))
  /\ UNCHANGED srv

Marked ==
  \E r \in Pending("mark"), ok \in BOOLEAN :
    /\ srv' = IF ok THEN [srv EXCEPT !.unread = @ \ r.key.unread] ELSE srv
    /\ net' = Without(r)
    /\ UNCHANGED ui

\* The cross, a click elsewhere, or eight seconds.
ClosePopup ==
  /\ ui.popup # "none"
  /\ ui' = [ui EXCEPT !.popup = "none"]
  /\ UNCHANGED <<net, srv>>

Next ==
  /\ view = Name /\ UNCHANGED view
  /\ \/ Notify \/ LoadNotifications \/ ListRead \/ ListArrives \/ LoadFails
     \/ ListArrivesToOpen \/ OpenAlert \/ ToggleDrawer \/ Ack \/ PickSnooze \/ Snooze \/ Written \/ WriteFails
     \/ OpenPopup \/ Marked \/ ClosePopup

-----------------------------------------------------------------------------
TypeOK ==
  /\ ui.list \cup ui.unread \cup ui.seen \subseteq Notifications
  /\ {ui.popup, ui.picker} \subseteq Notifications \cup {"none"}
  /\ ui.open \in BOOLEAN /\ srv.unread \subseteq srv.sent

\* The popup is open for a notification that is marked as shown, so a closed one
\* does not come back, and that the list of the moment has as unread.
PopupIsShownOnce ==
  ui.popup # "none" => ui.popup \in ui.seen /\ ui.popup \in ui.unread
=============================================================================
