------------------------- MODULE NotificationsWSProofs -------------------------
(* Proofs about NotificationsWS, for any number of runs of the effect and     *)
(* any bounds.                                                                *)
EXTENDS NotificationsWS, TLAPS

Busy == {"token", "opening", "open", "lost"}

\* A run that waits to reconnect is the live one, and polls; unless a cleanup
\* met a connection in the making, nothing of an earlier run is left.
HookInv ==
    /\ TypeOK
    /\ OneSocket
    /\ TimerIsLive
    /\ \A r \in Runs : run[r] = "lost" => r = live /\ poller
    /\ Mounted => run[live] \in Busy
    /\ ~interrupted => \A r \in Runs : r # live => run[r] = "free"
    /\ OrphanIfInterrupted

\* What a cleanup leaves of the run that it cancels.
LEMMA UndoneRuns ==
    ASSUME HookInv
    PROVE  /\ AfterCleanup \in [Runs -> RunStates]
           /\ \A r \in Runs : AfterCleanup[r] \in {"token", "aborting", "free"}
           /\ \A r \in Runs : r # live => AfterCleanup[r] = run[r]
           /\ Mounted => live \in Runs /\ AfterCleanup[live] = Undone(run[live])
  <1>1. CASE Mounted
    <2>1. live \in Runs
      BY <1>1 DEF HookInv, TypeOK, Mounted
    <2>2. Undone(run[live]) \in {"token", "aborting", "free"}
      BY DEF Undone
    <2>3. \A r \in Runs : r # live => run[r] \in {"token", "aborting", "free"}
      BY DEF HookInv, TypeOK, OneSocket, RunStates
    <2> QED BY <1>1, <2>1, <2>2, <2>3 DEF AfterCleanup, HookInv, TypeOK, RunStates
  <1>2. CASE ~Mounted
    <2>1. live \notin Runs
      BY <1>2, NoneAssumption DEF Mounted
    <2>2. \A r \in Runs : run[r] \in {"token", "aborting", "free"}
      BY <2>1 DEF HookInv, TypeOK, OneSocket, RunStates
    <2> QED BY <1>2, <2>2 DEF AfterCleanup, HookInv, TypeOK, RunStates
  <1> QED BY <1>1, <1>2

\* Unless it is recorded as an interruption, a cleanup leaves nothing pending.
LEMMA CleanupLeavesNothing ==
    ASSUME HookInv, Cleanup, ~interrupted'
    PROVE  \A r \in Runs : AfterCleanup[r] = "free"
  <1>1. ~interrupted /\ (Mounted => run[live] \notin {"token", "opening"})
    BY DEF Cleanup
  <1>2. \A r \in Runs : r # live => AfterCleanup[r] = "free"
    BY <1>1, UndoneRuns DEF HookInv
  <1>3. Mounted => AfterCleanup[live] = "free"
    BY <1>1, UndoneRuns DEF Undone
  <1>4. ~Mounted => live \notin Runs
    BY NoneAssumption DEF Mounted
  <1> QED BY <1>2, <1>3, <1>4

\* After a cleanup and another run of the effect, that run awaits its token.
LEMMA RestartKeeps ==
    ASSUME HookInv, Restart,
           {sent', asked', shown', renders', failures'} \subseteq Nat,
           answers' \subseteq Nat
    PROVE  HookInv'
  <1>1. PICK r \in Runs : /\ AfterCleanup[r] = "free"
                          /\ run' = [AfterCleanup EXCEPT ![r] = "token"]
                          /\ live' = r
    BY DEF Restart
  <1>2. poller' = FALSE /\ timer' = None /\ socketRef' = None /\ wire' = 0
    BY DEF Restart, Cleanup
  <1>3. interrupted' \in BOOLEAN
    BY DEF Restart, Cleanup
  <1>4. run' \in [Runs -> RunStates] /\ run'[r] = "token"
    BY <1>1, UndoneRuns DEF RunStates
  <1>5. \A q \in Runs : run'[q] \in {"token", "aborting", "free"}
    BY <1>1, UndoneRuns
  <1>6. ~interrupted' => \A q \in Runs : q # r => run'[q] = "free"
    BY <1>1, UndoneRuns, CleanupLeavesNothing DEF Restart
  <1>7. TypeOK'
    <2>1. {live', socketRef', timer'} \subseteq Runs \cup {None}
      BY <1>1, <1>2
    <2>2. {wire', sent', asked', shown', renders', failures'} \subseteq Nat
      BY <1>2
    <2> QED BY <1>2, <1>3, <1>4, <2>1, <2>2 DEF TypeOK
  <1>8. Mounted' /\ live' = r /\ r # None
    BY <1>1, NoneAssumption DEF Mounted
  <1>9. OneSocket'
    BY <1>5 DEF OneSocket
  <1>10. TimerIsLive'
    BY <1>2, <1>4, <1>8 DEF TimerIsLive
  <1>11. OrphanIfInterrupted'
    BY <1>2 DEF OrphanIfInterrupted
  <1> QED BY <1>4, <1>5, <1>6, <1>7, <1>8, <1>9, <1>10, <1>11 DEF HookInv, Busy

LEMMA HookInit == Init => HookInv
  <1> SUFFICES ASSUME Init PROVE HookInv
    OBVIOUS
  <1>1. live \in Runs /\ live # None
    BY NoneAssumption DEF Init
  <1>2. TypeOK
    <2>1. {live, socketRef, timer} \subseteq Runs \cup {None}
      BY <1>1 DEF Init
    <2>2. {wire, sent, asked, shown, renders, failures} \subseteq Nat /\ answers \subseteq Nat
      BY DEF Init
    <2>3. run \in [Runs -> RunStates] /\ poller \in BOOLEAN /\ interrupted \in BOOLEAN
      BY <1>1 DEF Init, RunStates
    <2> QED BY <2>1, <2>2, <2>3 DEF TypeOK
  <1>3. run[live] = "token" /\ \A r \in Runs : r # live => run[r] = "free"
    BY <1>1 DEF Init
  <1>4. OneSocket /\ TimerIsLive /\ OrphanIfInterrupted
    BY <1>1, <1>3 DEF Init, OneSocket, TimerIsLive, OrphanIfInterrupted, Mounted, Open
  <1> QED BY <1>1, <1>2, <1>3, <1>4 DEF HookInv, Busy

\* Every step of the hook and of the layout keeps the invariant.
LEMMA HookStep == HookInv /\ [Next]_vars => HookInv'
  <1> SUFFICES ASSUME HookInv, [Next]_vars PROVE HookInv'
    OBVIOUS
  <1> USE NoneAssumption
  <1>1. CASE Unmount
    <2>1. run' = AfterCleanup /\ live' = None /\ timer' = None /\ poller' = FALSE
      BY <1>1 DEF Unmount, Cleanup
    <2>2. TypeOK'
      <3>1. {live', socketRef', timer'} \subseteq Runs \cup {None}
        BY <1>1, <2>1 DEF Unmount, Cleanup
      <3>2. {wire', sent', asked', shown', renders', failures'} \subseteq Nat
        BY <1>1 DEF Unmount, Cleanup, TypeOK, HookInv, loads, counts
      <3>3. interrupted' \in BOOLEAN /\ answers' \subseteq Nat
        BY <1>1 DEF Unmount, Cleanup, TypeOK, HookInv, loads
      <3> QED BY <2>1, <3>1, <3>2, <3>3, UndoneRuns DEF TypeOK
    <2>3. ~interrupted' => \A r \in Runs : run'[r] = "free"
      BY <1>1, <2>1, CleanupLeavesNothing DEF Unmount
    <2> QED BY <2>1, <2>2, <2>3, UndoneRuns
            DEF HookInv, OneSocket, TimerIsLive, OrphanIfInterrupted, Mounted, Open
  <1>2. CASE Render
    BY <1>2, RestartKeeps DEF Render, HookInv, TypeOK, loads
  <1>3. CASE Reconnect
    <2>1. timer = live /\ live \in Runs /\ run[live] = "lost"
      BY <1>3 DEF Reconnect, HookInv, TypeOK, TimerIsLive, Mounted
    <2>2. run' = [run EXCEPT ![live] = "token"] /\ timer' = None
      BY <1>3, <2>1 DEF Reconnect
    <2> QED BY <1>3, <2>1, <2>2
            DEF Reconnect, HookInv, TypeOK, OneSocket, TimerIsLive, RunStates, Busy,
                OrphanIfInterrupted, Mounted, Open, loads, counts
  <1>4. ASSUME NEW r \in Runs, TokenArrives(r) PROVE HookInv'
    <2>1. CASE r = live
      BY <1>4, <2>1
         DEF TokenArrives, To, HookInv, TypeOK, OneSocket, TimerIsLive, RunStates, Busy,
             OrphanIfInterrupted, Mounted, Open, loads, counts
    <2>2. CASE r # live
      BY <1>4, <2>2
         DEF TokenArrives, To, HookInv, TypeOK, OneSocket, TimerIsLive, RunStates, Busy,
             OrphanIfInterrupted, Mounted, Open, loads, counts
    <2> QED BY <2>1, <2>2
  <1>5. ASSUME NEW r \in Runs, run[r] \in {"token", "opening", "open"}, Lose(r)
        PROVE HookInv'
    <2>1. CASE r = live
      <3>1. timer = None
        BY <1>5, <2>1 DEF HookInv, TypeOK, TimerIsLive, Mounted
      <3>2. timer' = r /\ run' = [run EXCEPT ![r] = "lost"] /\ poller' = TRUE /\ wire' = 0
        BY <1>5, <2>1, <3>1 DEF Lose, ScheduleReconnect, To
      <3> QED BY <1>5, <2>1, <3>1, <3>2
              DEF Lose, HookInv, TypeOK, OneSocket, TimerIsLive, RunStates, Busy,
                  OrphanIfInterrupted, Mounted, Open, loads, counts
    <2>2. CASE r # live
      <3>1. timer' = timer /\ run' = [run EXCEPT ![r] = "free"] /\ poller' = TRUE
            /\ wire' = wire
        BY <1>5, <2>2 DEF Lose, ScheduleReconnect, To
      <3> QED BY <1>5, <2>2, <3>1
              DEF Lose, HookInv, TypeOK, OneSocket, TimerIsLive, RunStates, Busy,
                  OrphanIfInterrupted, Mounted, Open, loads, counts
    <2> QED BY <2>1, <2>2
  <1>6. ASSUME NEW r \in Runs, TokenFails(r) \/ SocketCloses(r) PROVE HookInv'
    BY <1>5, <1>6 DEF TokenFails, SocketCloses
  <1>7. ASSUME NEW r \in Runs, SocketOpens(r) PROVE HookInv'
    <2>1. r = live
      BY <1>7 DEF SocketOpens, HookInv, OneSocket
    <2> QED BY <1>7, <2>1
            DEF SocketOpens, To, HookInv, TypeOK, OneSocket, TimerIsLive, RunStates, Busy,
                OrphanIfInterrupted, Mounted, Open, loads, counts
  <1>8. ASSUME NEW r \in Runs, AbortedErrors(r) PROVE HookInv'
    <2>1. r # live
      BY <1>8 DEF AbortedErrors, HookInv, Busy, Mounted
    <2> QED BY <1>8, <2>1
            DEF AbortedErrors, To, HookInv, TypeOK, OneSocket, TimerIsLive, RunStates, Busy,
                OrphanIfInterrupted, Mounted, Open, loads, counts
  <1>9. CASE Notify \/ Receive \/ Poll \/ Serve \/ Ignore
    <2>1. UNCHANGED <<run, live, refs, interrupted>>
      BY <1>9 DEF Notify, Receive, Poll, Serve, Ignore, hook
    <2>2. {wire', sent', asked', shown', renders', failures'} \subseteq Nat
      BY <1>9 DEF Notify, Receive, Poll, Serve, Ignore, Load, HookInv, TypeOK, hook,
                  loads, counts
    <2>3. answers' \subseteq Nat
      BY <1>9 DEF Notify, Receive, Poll, Serve, Ignore, HookInv, TypeOK, loads
    <2>4. TypeOK'
      BY <2>1, <2>2, <2>3 DEF TypeOK, HookInv, refs
    <2> QED BY <2>1, <2>4 DEF HookInv, OneSocket, TimerIsLive, OrphanIfInterrupted,
                              Mounted, Open, refs
  <1>10. CASE Arrive
    <2>1. PICK list \in answers : Show(list) /\ answers' = answers \ {list}
      BY <1>10 DEF Arrive
    <2> QED BY <1>10, <2>1, RestartKeeps DEF Arrive, Show, HookInv, TypeOK, counts
  <1>11. CASE LoadFails
    BY <1>11, RestartKeeps DEF LoadFails, Show, HookInv, TypeOK
  <1>12. CASE UNCHANGED vars
    BY <1>12 DEF vars, hook, refs, loads, counts, HookInv, TypeOK, OneSocket, TimerIsLive,
                 OrphanIfInterrupted, Mounted, Open
  <1> QED BY <1>1, <1>2, <1>3, <1>4, <1>6, <1>7, <1>8, <1>9, <1>10, <1>11, <1>12
          DEF Next, Events

LEMMA HookAlways == Spec => []HookInv
  BY HookInit, HookStep, PTL DEF Spec

\* The hook's references and counters stay in their ranges, in every order of the
\* connections and the loads.
THEOREM HookShape == Spec => []TypeOK
  <1>1. HookInv => TypeOK
    BY DEF HookInv
  <1> QED BY <1>1, HookAlways, PTL

\* However many runs of the effect are pending, and whatever is late, the hook
\* has one socket at most, which its cleanup will close.
THEOREM SingleSocket == Spec => []OneSocket
  <1>1. HookInv => OneSocket
    BY DEF HookInv
  <1> QED BY <1>1, HookAlways, PTL

\* A user who is logged in always has a connection, one in the making, or the
\* fallback polling.
THEOREM AlwaysHears == Spec => []NeverDeaf
  <1>1. HookInv => NeverDeaf
    BY DEF HookInv, NeverDeaf, Busy, TypeOK, Mounted
  <1> QED BY <1>1, HookAlways, PTL

\* An interval that outlives its use is left by a run that was cancelled
\* while its connection was being made, and by nothing else.
THEOREM OrphansExplained == Spec => []OrphanIfInterrupted
  <1>1. HookInv => OrphanIfInterrupted
    BY DEF HookInv
  <1> QED BY <1>1, HookAlways, PTL

=============================================================================
