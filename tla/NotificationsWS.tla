---------------------------- MODULE NotificationsWS ----------------------------
(***************************************************************************)
(* How the browser hears of notifications: the hook useNotificationsWS     *)
(* (frontend/src/hooks) and the layout that calls it (AppLayout.tsx).      *)
(*                                                                         *)
(* The hook is an effect: each run of it opens a WebSocket, falls back to  *)
(* polling while it has none, and is undone by its cleanup.  The runs      *)
(* share three refs, but what an old run still waits for (a token, the     *)
(* error event of an aborted handshake) arrives after its cleanup.  The    *)
(* layout passes new callbacks at every render, so every render undoes the *)
(* effect and runs it again.                                               *)
(*                                                                         *)
(* Abstracted: the list of notifications is how many of them it holds.     *)
(* The empty token of line 81 is not an outcome of its own: the server     *)
(* answers with a token or with an error.  One life of the layout is       *)
(* modelled, from the login to the logout and what runs on after it.       *)
(***************************************************************************)
EXTENDS Naturals, FiniteSets

CONSTANTS
    Runs,          \* runs of the effect that may be pending at a time
    None,          \* a null ref
    MaxSent,       \* bound on the notifications
    MaxLoads,      \* bound on the loads that are under way
    MaxRenders,    \* bound on the renders that a user causes
    MaxFailures    \* bound on the loads that fail

ASSUME NoneAssumption   == None \notin Runs
ASSUME BoundsAssumption == /\ {MaxSent, MaxRenders, MaxFailures} \subseteq Nat
                           /\ MaxLoads \in Nat \ {0}

VARIABLES
    run,         \* where each run of the effect stands
    live,        \* the run that is not cancelled
    socketRef,   \* the run whose socket is in socketRef
    timer,       \* the run whose reconnection is in reconnectTimerRef
    poller,      \* fallbackTimerRef holds an interval
    wire,        \* messages on their way over the open socket
    sent,        \* notifications the server has made
    asked,       \* loads that the server has not answered
    answers,     \* answers that have not arrived: what they list
    shown,       \* notifications the layout shows
    renders, failures,  \* counts for the bounds
    interrupted  \* history: a cleanup met a connection that was being made

refs   == <<socketRef, timer, poller>>
hook   == <<run, live, refs, wire, interrupted>>
loads  == <<asked, answers>>
counts == <<renders, failures>>
vars   == <<hook, sent, loads, shown, counts>>

\* "token": connect() awaits a token.  "opening", "open": its socket.
\* "lost": no socket, a reconnection is scheduled.  "aborting": cleanup
\* closed the socket in its handshake, and its error event is to come.
RunStates == {"free", "token", "opening", "open", "lost", "aborting"}

\* A user is known: the layout loads the notifications and runs the hook.
Init ==
    /\ live \in Runs
    /\ run = [r \in Runs |-> IF r = live THEN "token" ELSE "free"]
    /\ socketRef = None /\ timer = None
    /\ poller = FALSE
    /\ wire = 0 /\ sent = 0 /\ asked = 1 /\ answers = {} /\ shown = 0
    /\ renders = 0 /\ failures = 0
    /\ interrupted = FALSE

Mounted == live # None
Open    == Mounted /\ run[live] = "open"
To(r, s) == run' = [run EXCEPT ![r] = s]

-----------------------------------------------------------------------------
(* The effect and its cleanup *)

\* Variant: an aborted handshake is in a state of its own.
UndoneClosing(s) == IF s = "opening" THEN "closing" ELSE s

\* What cleanup leaves of a run: a pending token stays, a handshake aborts,
\* and nothing more is heard of an open socket.
Undone(s) == CASE s = "token"   -> "token"
               [] s = "opening" -> "aborting"
               [] OTHER         -> "free"

AfterCleanup == IF Mounted THEN [run EXCEPT ![live] = Undone(@)] ELSE run

\* Variant: stopFallbackPolling is left out.
CleanupKeepsPolling ==
    /\ UNCHANGED poller
    /\ timer' = None
    /\ socketRef' = None
    /\ wire' = 0
    /\ interrupted' = (interrupted \/ (Mounted /\ run[live] \in {"token", "opening"}))

\* cancelled is set, both timers are cleared and the socket is closed.
Cleanup ==
    /\ poller' = FALSE
    /\ timer' = None
    /\ socketRef' = None
    /\ wire' = 0
    /\ interrupted' = (interrupted \/ (Mounted /\ run[live] \in {"token", "opening"}))

\* Cleanup, then the effect: it calls connect().
Restart ==
    /\ Cleanup
    /\ \E r \in Runs : /\ AfterCleanup[r] = "free"
                       /\ run' = [AfterCleanup EXCEPT ![r] = "token"]
                       /\ live' = r

\* loadNotifications sends its request.
Load == asked < MaxLoads /\ asked' = asked + 1

\* Logout.
Unmount ==
    /\ Mounted
    /\ Cleanup
    /\ run' = AfterCleanup
    /\ live' = None
    /\ shown' = 0
    /\ UNCHANGED <<sent, loads, counts>>

Render ==
    /\ Mounted
    /\ renders < MaxRenders
    /\ renders' = renders + 1
    /\ Restart
    /\ UNCHANGED <<sent, loads, shown, failures>>

-----------------------------------------------------------------------------
(* Events of the connection *)

\* Variant: connect() does not look at cancelled after its await.
TokenAlwaysConnects(r) ==
    /\ run[r] = "token"
    /\ To(r, "opening")
    /\ socketRef' = r
    /\ UNCHANGED <<live, timer, poller, wire, interrupted, sent, loads, shown, counts>>

\* connect() resumes with a token: a cancelled run starts to poll.
TokenArrives(r) ==
    /\ run[r] = "token"
    /\ IF r = live
         THEN To(r, "opening") /\ socketRef' = r /\ UNCHANGED poller
         ELSE To(r, "free") /\ poller' = TRUE /\ UNCHANGED socketRef
    /\ UNCHANGED <<live, timer, wire, interrupted, sent, loads, shown, counts>>

\* scheduleReconnect: not when a timer is set or the run is cancelled.
ScheduleReconnect(r) == timer' = IF timer = None /\ r = live THEN r ELSE timer

\* Variant: it waits for the reconnection without polling.
LoseQuietly(r) ==
    /\ To(r, IF r = live THEN "lost" ELSE "free")
    /\ ScheduleReconnect(r)
    /\ wire' = IF r = live THEN 0 ELSE wire
    /\ UNCHANGED <<live, socketRef, poller, interrupted, sent, loads, shown, counts>>

\* Variant: the events of a lost connection return early.
LoseForGood(r) ==
    /\ To(r, IF r = live THEN "lost" ELSE "free")
    /\ wire' = IF r = live THEN 0 ELSE wire
    /\ UNCHANGED <<live, socketRef, timer, poller, interrupted, sent, loads, shown, counts>>

\* startFallbackPolling, then scheduleReconnect.
Lose(r) ==
    /\ To(r, IF r = live THEN "lost" ELSE "free")
    /\ poller' = TRUE
    /\ ScheduleReconnect(r)
    /\ wire' = IF r = live THEN 0 ELSE wire
    /\ UNCHANGED <<live, socketRef, interrupted, sent, loads, shown, counts>>

TokenFails(r) == run[r] = "token" /\ Lose(r)

\* onerror and onclose of a refused handshake, onclose of an open socket.
SocketCloses(r) == run[r] \in {"opening", "open"} /\ Lose(r)

SocketOpens(r) ==
    /\ run[r] = "opening"
    /\ To(r, "open")
    /\ poller' = FALSE
    /\ UNCHANGED <<live, socketRef, timer, wire, interrupted, sent, loads, shown, counts>>

\* onerror of a handshake that cleanup aborted; onclose then returns.
AbortedErrors(r) ==
    /\ run[r] = "aborting"
    /\ To(r, "free")
    /\ poller' = TRUE
    /\ UNCHANGED <<live, socketRef, timer, wire, interrupted, sent, loads, shown, counts>>

\* The ref is cleared, then connect().
Reconnect ==
    /\ timer # None
    /\ timer' = None
    /\ run' = IF timer = live THEN [run EXCEPT ![timer] = "token"] ELSE run
    /\ UNCHANGED <<live, socketRef, poller, wire, interrupted, sent, loads, shown, counts>>

-----------------------------------------------------------------------------
(* Notifications *)

\* post_save of a NotificationEvent sends to the sockets that are open.
Notify ==
    /\ sent < MaxSent
    /\ sent' = sent + 1
    /\ wire' = IF Open THEN wire + 1 ELSE wire
    /\ UNCHANGED <<run, live, refs, interrupted, loads, shown, counts>>

\* onmessage calls onNotification, which loads.
Receive ==
    /\ wire > 0
    /\ wire' = wire - 1
    /\ Load
    /\ UNCHANGED <<run, live, refs, interrupted, sent, answers, shown, counts>>

Poll ==
    /\ poller
    /\ Load
    /\ UNCHANGED <<hook, sent, answers, shown, counts>>

Serve ==
    /\ asked > 0
    /\ asked' = asked - 1
    /\ answers' = answers \cup {sent}
    /\ UNCHANGED <<hook, sent, shown, counts>>

\* An answer replaces the list, whichever load it is the answer of; the new
\* state renders the layout, and so restarts the effect.
Show(list) ==
    /\ Mounted
    /\ shown' = list
    /\ Restart

Arrive ==
    /\ \E list \in answers : Show(list) /\ answers' = answers \ {list}
    /\ UNCHANGED <<sent, asked, counts>>

\* A load that fails empties the list.
LoadFails ==
    /\ asked > 0
    /\ failures < MaxFailures
    /\ failures' = failures + 1
    /\ asked' = asked - 1
    /\ Show(0)
    /\ UNCHANGED <<sent, answers, renders>>

\* Nobody is there to see the answer.
Ignore ==
    /\ ~Mounted
    /\ answers' = {}
    /\ answers # {}
    /\ UNCHANGED <<hook, sent, asked, shown, counts>>

-----------------------------------------------------------------------------

Events(r) == TokenArrives(r) \/ TokenFails(r) \/ SocketOpens(r)
                \/ SocketCloses(r) \/ AbortedErrors(r)

Next ==
    \/ Unmount \/ Render \/ Reconnect
    \/ \E r \in Runs : Events(r)
    \/ Notify \/ Receive \/ Poll \/ Serve \/ Arrive \/ LoadFails \/ Ignore

\* Timers fire, and a request or a handshake has an outcome.  An open socket
\* may stay open, and nobody has to log in or out.
Fairness ==
    /\ \A r \in Runs : WF_vars(run[r] # "open" /\ Events(r))
    /\ WF_vars(Reconnect) /\ WF_vars(Receive) /\ WF_vars(Poll)
    /\ WF_vars(Serve) /\ WF_vars(Arrive) /\ WF_vars(Ignore)

Spec     == Init /\ [][Next]_vars
FairSpec == Spec /\ Fairness

-----------------------------------------------------------------------------
(* Properties *)

\* Shape of the state.
TypeOK ==
    /\ run \in [Runs -> RunStates]
    /\ {live, socketRef, timer} \subseteq Runs \cup {None}
    /\ poller \in BOOLEAN /\ interrupted \in BOOLEAN
    /\ {wire, sent, asked, shown, renders, failures} \subseteq Nat
    /\ answers \subseteq Nat

\* While a user is logged in, the hook has a socket, is getting one, or polls:
\* no event of an earlier run takes its poller away and leaves it with nothing.
NeverDeaf ==
    Mounted => run[live] \in {"token", "opening", "open"} \/ poller

\* However late tokens arrive, there is one socket at most, it belongs to the
\* run that is not cancelled, and cleanup will find it.
OneSocket ==
    \A r \in Runs : run[r] \in {"opening", "open"} => r = live /\ socketRef = r

\* A scheduled reconnection belongs to the live run, which has no socket and
\* no other way to get one (a lemma of the proofs, which OneSocket needs).
TimerIsLive ==
    /\ timer # None => timer = live
    /\ Mounted => (run[live] = "lost" <=> timer = live)

\* An interval that nothing needs, with the user gone or the socket open, is
\* left by a run that was cancelled while its connection was being made.
OrphanIfInterrupted == poller /\ (Open \/ ~Mounted) => interrupted

\* Without a socket the hook asks again for one, as often as it takes.
KeepsTrying ==
    \A r \in Runs : (live = r /\ run[r] = "lost") ~> (live # r \/ run[r] = "token")

\* While no socket opens, polling shows in the end all there is to see.
PollingCatchesUp == Mounted ~> (shown = sent \/ Open \/ ~Mounted)

=============================================================================
