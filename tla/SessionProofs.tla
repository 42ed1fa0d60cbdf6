---------------------------- MODULE SessionProofs ----------------------------
(* Proofs about Session, for any set of requests and any number of visits.    *)
EXTENDS Session, TLAPS

\* The four groups of the state, each with what holds of it.
CallsOK ==
  /\ req \in [Calls -> Phases]
  /\ refresh \in {"none", "good", "bad"}
  /\ WaitersHaveRefresh

AuthOK ==
  /\ notified \in BOOLEAN /\ user \in BOOLEAN /\ loading \in BOOLEAN
  /\ message \in BOOLEAN /\ stored \in BOOLEAN
  /\ state \in States
  /\ StateTellsUser

\* Before the bootstrap asks for the profile nobody asks for anything: the pages
\* are hidden by the spinner.
StartOK ==
  /\ starting \in BOOLEAN
  /\ starting => loading /\ \A c \in Calls : req[c] = "idle"

RestOK ==
  /\ access \in BOOLEAN /\ renewable \in BOOLEAN /\ legacy \in BOOLEAN
  /\ leaving \in BOOLEAN /\ login \in BOOLEAN /\ logout \in BOOLEAN
  /\ page \in {"login", "app"}
  /\ visits \in 0..MaxVisits

SessionInv == CallsOK /\ AuthOK /\ StartOK /\ RestOK

LEMMA BootIsCall == Boot \in Calls /\ Requests \subseteq Calls
  BY DEF Calls

LEMMA InvGivesType == SessionInv => TypeOK
  BY BootIsCall DEF SessionInv, CallsOK, AuthOK, StartOK, RestOK, TypeOK

\* A step that moves calls to a phase leaves the others where they are.
LEMMA Moved ==
  ASSUME CallsOK, NEW S \in SUBSET Calls, NEW p \in Phases, AllTo(S, p)
  PROVE  /\ req' \in [Calls -> Phases]
         /\ \A c \in Calls : req'[c] = IF c \in S THEN p ELSE req[c]
  BY DEF CallsOK, AllTo

LEMMA SessionInit == Init => SessionInv
  <1> SUFFICES ASSUME Init PROVE SessionInv
    OBVIOUS
  <1>1. CallsOK
    BY DEF Init, CallsOK, WaitersHaveRefresh, Waiting, Phases
  <1>2. AuthOK
    BY DEF Init, AuthOK, StateTellsUser, States
  <1>3. StartOK
    BY DEF Init, StartOK
  <1>4. RestOK
    <2>1. visits \in 0..MaxVisits
      BY VisitsAssumption DEF Init
    <2> QED BY <2>1 DEF Init, RestOK
  <1> QED BY <1>1, <1>2, <1>3, <1>4 DEF SessionInv

\* A load of the page starts from a good state again.
LEMMA FreshKeeps ==
  ASSUME SessionInv, Fresh
  PROVE  CallsOK' /\ AuthOK' /\ StartOK' /\ leaving' = FALSE /\ login' = FALSE /\ logout' = FALSE
  <1>1. CallsOK'
    BY DEF Fresh, CallsOK, WaitersHaveRefresh, Waiting, Phases
  <1>2. AuthOK'
    BY DEF SessionInv, AuthOK, Fresh, StateTellsUser, States
  <1>3. StartOK'
    BY DEF Fresh, StartOK
  <1> QED BY <1>1, <1>2, <1>3 DEF Fresh

\* A call moved between phases that are not "waiting" disturbs no renewal.
LEMMA MovedElsewhere ==
  ASSUME CallsOK, NEW S \in SUBSET Calls, NEW p \in Phases \ {"waiting"}, AllTo(S, p),
         \A c \in S : req[c] # "waiting", UNCHANGED refresh
  PROVE  CallsOK'
  <1>1. req' \in [Calls -> Phases] /\ \A c \in Calls : req'[c] = IF c \in S THEN p ELSE req[c]
    BY Moved
  <1>2. Waiting' = Waiting
    BY <1>1 DEF Waiting
  <1> QED BY <1>1, <1>2 DEF CallsOK, WaitersHaveRefresh

\* The end of a renewal releases every call that waited.
LEMMA Released ==
  ASSUME CallsOK, NEW p \in Phases \ {"waiting"}, AllTo(Waiting, p), refresh' = "none"
  PROVE  CallsOK'
  <1>1. req' \in [Calls -> Phases] /\ \A c \in Calls : req'[c] = IF c \in Waiting THEN p ELSE req[c]
    BY Moved DEF Waiting
  <1>2. Waiting' = {}
    BY <1>1 DEF Waiting
  <1> QED BY <1>1, <1>2 DEF CallsOK, WaitersHaveRefresh

\* Rejected calls leave a user exactly if the state says so.
LEMMA RejectedKeeps ==
  ASSUME SessionInv, NEW e, NEW b, Rejected(e, b)
  PROVE  AuthOK' /\ RestOK' /\ UNCHANGED starting
  <1>1. AuthOK'
    BY DEF SessionInv, AuthOK, Rejected, StateTellsUser, States
  <1>2. RestOK'
    BY DEF SessionInv, RestOK, Rejected, Guarded, cookies, forms
  <1> QED BY <1>1, <1>2 DEF Rejected, forms

\* While a call is not idle, the bootstrap has started.
LEMMA Started ==
  ASSUME SessionInv, NEW c \in Calls, req[c] # "idle"
  PROVE  starting = FALSE
  BY DEF SessionInv, StartOK

LEMMA SessionStep == SessionInv /\ [Next]_vars => SessionInv'
  <1> SUFFICES ASSUME SessionInv, [Next]_vars PROVE SessionInv'
    OBVIOUS
  <1> USE BootIsCall
  <1>1. ASSUME NEW p \in {"login", "app"}, Visit(p) PROVE SessionInv'
    <2>1. Fresh
      BY <1>1 DEF Visit
    <2>2. visits' \in 0..MaxVisits
      BY <1>1, VisitsAssumption DEF Visit, SessionInv, RestOK
    <2>3. RestOK'
      BY <1>1, FreshKeeps, <2>1, <2>2 DEF Visit, SessionInv, RestOK, cookies
    <2> QED BY <2>1, <2>3, FreshKeeps DEF SessionInv
  <1>2. CASE Leave
    <2>1. Fresh
      BY <1>2 DEF Leave
    <2>2. RestOK'
      BY <1>2, FreshKeeps, <2>1 DEF Leave, SessionInv, RestOK, cookies
    <2> QED BY <2>1, <2>2, FreshKeeps DEF SessionInv
  <1>3. CASE BootStart
    <2>1. AllTo({Boot}, Attempt) /\ Attempt \in Phases \ {"waiting"} /\ UNCHANGED refresh
      BY <1>3 DEF BootStart, Attempt, Phases
    <2>2. req[Boot] = "idle"
      BY <1>3 DEF BootStart, SessionInv, StartOK
    <2>3. CallsOK'
      BY <2>1, <2>2, MovedElsewhere DEF SessionInv
    <2>4. AuthOK' /\ StartOK'
      BY <1>3 DEF BootStart, SessionInv, AuthOK, StartOK, StateTellsUser, auth
    <2>5. RestOK'
      BY <1>3 DEF BootStart, SessionInv, RestOK, where
    <2> QED BY <2>3, <2>4, <2>5 DEF SessionInv
  <1>4. ASSUME NEW r \in Requests, Ask(r) PROVE SessionInv'
    <2>1. AllTo({r}, Attempt) /\ Attempt \in Phases \ {"waiting"} /\ UNCHANGED refresh
      BY <1>4 DEF Ask, Attempt, Phases
    <2>2. CallsOK'
      BY <1>4, <2>1, MovedElsewhere DEF Ask, SessionInv
    <2>3. AuthOK'
      BY <1>4 DEF Ask, SessionInv, AuthOK, StateTellsUser, auth
    <2>4. StartOK'
      BY <1>4 DEF Ask, SessionInv, StartOK, auth, forms
    <2>5. RestOK'
      BY <1>4 DEF Ask, SessionInv, RestOK, where, forms
    <2> QED BY <2>2, <2>3, <2>4, <2>5 DEF SessionInv
  <1>5. CASE AccessLapses
    <2>1. PICK S \in SUBSET InFlight :
            req' = [c \in Calls |->
                      IF c \in S /\ req[c] = "sent" THEN "stale"
                      ELSE IF c \in S /\ req[c] = "again" THEN "againStale" ELSE req[c]]
      BY <1>5 DEF AccessLapses
    <2>2. req' \in [Calls -> Phases]
      BY <2>1 DEF SessionInv, CallsOK, Phases
    <2>3. Waiting' = Waiting
      BY <2>1 DEF Waiting
    <2>4. CallsOK'
      BY <1>5, <2>2, <2>3 DEF AccessLapses, SessionInv, CallsOK, WaitersHaveRefresh
    <2>5. AuthOK'
      BY <1>5 DEF AccessLapses, SessionInv, AuthOK, StateTellsUser, auth
    <2>6. StartOK'
      BY <1>5, <2>1 DEF AccessLapses, SessionInv, StartOK, auth, forms
    <2>7. RestOK'
      BY <1>5 DEF AccessLapses, SessionInv, RestOK, where, forms
    <2> QED BY <2>4, <2>5, <2>6, <2>7 DEF SessionInv
  <1>6. CASE RefreshLapses
    <2>1. CallsOK'
      BY <1>6 DEF RefreshLapses, Lapsed, SessionInv, CallsOK, WaitersHaveRefresh, Waiting
    <2>2. AuthOK' /\ StartOK'
      BY <1>6 DEF RefreshLapses, SessionInv, AuthOK, StartOK, StateTellsUser, auth, forms
    <2>3. RestOK'
      BY <1>6 DEF RefreshLapses, SessionInv, RestOK, where, forms
    <2> QED BY <2>1, <2>2, <2>3 DEF SessionInv
  <1>7. ASSUME NEW c \in Calls, Answered(c) PROVE SessionInv'
    <2>1. AllTo({c}, "idle") /\ UNCHANGED refresh /\ req[c] # "waiting" /\ req[c] # "idle"
      BY <1>7 DEF Answered
    <2>2. CallsOK'
      BY <2>1, MovedElsewhere DEF SessionInv, Phases
    <2>3. AuthOK'
      BY <1>7 DEF Answered, SessionInv, AuthOK, StateTellsUser, States
    <2>4. StartOK'
      BY <1>7, <2>1, Started DEF Answered, StartOK, forms
    <2>5. RestOK'
      BY <1>7 DEF Answered, SessionInv, RestOK, where, forms, cookies
    <2> QED BY <2>2, <2>3, <2>4, <2>5 DEF SessionInv
  <1>8. ASSUME NEW c \in Calls, Fails(c) PROVE SessionInv'
    <2>1. /\ AllTo({c}, "idle") /\ UNCHANGED refresh /\ Rejected(FALSE, c = Boot)
          /\ req[c] # "waiting" /\ req[c] # "idle"
      BY <1>8 DEF Fails, InFlight
    <2>2. CallsOK'
      BY <2>1, MovedElsewhere DEF SessionInv, Phases
    <2>3. AuthOK' /\ RestOK' /\ UNCHANGED starting
      BY <2>1, RejectedKeeps
    <2>4. StartOK'
      BY <2>1, <2>3, Started DEF StartOK
    <2> QED BY <2>2, <2>3, <2>4 DEF SessionInv
  <1>9. ASSUME NEW c \in Calls, Unauthorised(c) PROVE SessionInv'
    <2>1. AllTo({c}, "waiting") /\ req[c] = "stale"
      BY <1>9 DEF Unauthorised
    <2>2. /\ req' \in [Calls -> Phases]
          /\ \A d \in Calls : req'[d] = IF d \in {c} THEN "waiting" ELSE req[d]
      BY <2>1, Moved DEF SessionInv, Phases
    <2>3. refresh' \in {"good", "bad"}
      BY <1>9 DEF Unauthorised, SessionInv, CallsOK
    <2>4. c \in Waiting'
      BY <2>2 DEF Waiting
    <2>5. CallsOK'
      BY <2>2, <2>3, <2>4 DEF CallsOK, WaitersHaveRefresh
    <2>6. AuthOK'
      BY <1>9 DEF Unauthorised, SessionInv, AuthOK, StateTellsUser, auth
    <2>7. StartOK'
      BY <1>9, <2>1, Started DEF Unauthorised, StartOK, forms
    <2>8. RestOK'
      BY <1>9 DEF Unauthorised, SessionInv, RestOK, where, forms, cookies
    <2> QED BY <2>5, <2>6, <2>7, <2>8 DEF SessionInv
  <1>10. ASSUME NEW c \in Calls, RefusedAgain(c) PROVE SessionInv'
    <2>1. /\ AllTo({c}, "idle") /\ UNCHANGED refresh /\ Rejected(TRUE, c = Boot)
          /\ req[c] # "waiting" /\ req[c] # "idle"
      BY <1>10 DEF RefusedAgain
    <2>2. CallsOK'
      BY <2>1, MovedElsewhere DEF SessionInv, Phases
    <2>3. AuthOK' /\ RestOK' /\ UNCHANGED starting
      BY <2>1, RejectedKeeps
    <2>4. StartOK'
      BY <2>1, <2>3, Started DEF StartOK
    <2> QED BY <2>2, <2>3, <2>4 DEF SessionInv
  <1>11. CASE Renewed
    <2>1. AllTo(Waiting, "again") /\ refresh' = "none" /\ refresh # "none"
      BY <1>11 DEF Renewed
    <2>2. CallsOK'
      BY <2>1, Released DEF SessionInv, Phases
    <2>3. AuthOK'
      BY <1>11 DEF Renewed, SessionInv, AuthOK, StateTellsUser, auth
    <2>4. PICK c \in Calls : req[c] = "waiting"
      BY <2>1 DEF SessionInv, CallsOK, WaitersHaveRefresh, Waiting
    <2>5. StartOK'
      BY <1>11, <2>4, Started DEF Renewed, StartOK, forms
    <2>6. RestOK'
      BY <1>11 DEF Renewed, SessionInv, RestOK, where, forms
    <2> QED BY <2>2, <2>3, <2>5, <2>6 DEF SessionInv
  <1>12. CASE RefreshRefused \/ RefreshUnanswered
    <2>1. /\ AllTo(Waiting, "idle") /\ refresh' = "none" /\ refresh # "none"
          /\ Rejected(TRUE, Boot \in Waiting)
      BY <1>12 DEF RefreshRefused, RefreshUnanswered, RenewalRejected
    <2>2. CallsOK'
      BY <2>1, Released DEF SessionInv, Phases
    <2>3. AuthOK' /\ RestOK' /\ UNCHANGED starting
      BY <2>1, RejectedKeeps
    <2>4. PICK c \in Calls : req[c] = "waiting"
      BY <2>1 DEF SessionInv, CallsOK, WaitersHaveRefresh, Waiting
    <2>5. StartOK'
      BY <2>3, <2>4, Started DEF StartOK
    <2> QED BY <2>2, <2>3, <2>5 DEF SessionInv
  <1>13. CASE Submit \/ LoginSucceeds \/ LoginFails \/ Logout
    <2>1. CallsOK'
      BY <1>13 DEF Submit, LoginSucceeds, LoginFails, Logout, net, SessionInv, CallsOK,
                   WaitersHaveRefresh, Waiting
    <2>2. AuthOK'
      <3>1. CASE Submit
        BY <3>1 DEF Submit, net, SessionInv, AuthOK, StateTellsUser
      <3>2. CASE LoginSucceeds
        BY <3>2 DEF LoginSucceeds, net, SessionInv, AuthOK, StateTellsUser, States
      <3>3. CASE LoginFails \/ Logout
        BY <3>3 DEF LoginFails, Logout, net, auth, SessionInv, AuthOK, StateTellsUser
      <3> QED BY <1>13, <3>1, <3>2, <3>3
    <2>3. StartOK'
      BY <1>13 DEF Submit, LoginSucceeds, LoginFails, Logout, net, auth, SessionInv, StartOK
    <2>4. RestOK'
      BY <1>13 DEF Submit, LoginSucceeds, LoginFails, Logout, cookies, where, SessionInv, RestOK
    <2> QED BY <2>1, <2>2, <2>3, <2>4 DEF SessionInv
  <1>14. CASE LogoutEnds
    <2>1. CallsOK'
      BY <1>14 DEF LogoutEnds, Lapsed, SessionInv, CallsOK, WaitersHaveRefresh, Waiting
    <2>2. AuthOK'
      BY <1>14 DEF LogoutEnds, SessionInv, AuthOK, StateTellsUser, States
    <2>3. StartOK'
      BY <1>14 DEF LogoutEnds, SessionInv, StartOK
    <2>4. RestOK'
      BY <1>14 DEF LogoutEnds, SessionInv, RestOK
    <2> QED BY <2>1, <2>2, <2>3, <2>4 DEF SessionInv
  <1>15. CASE UNCHANGED vars
    BY <1>15 DEF vars, net, cookies, auth, where, forms, SessionInv, CallsOK, AuthOK, StartOK,
                 RestOK, WaitersHaveRefresh, Waiting, StateTellsUser
  <1> QED
    BY <1>1, <1>2, <1>3, <1>4, <1>5, <1>6, <1>7, <1>8, <1>9, <1>10, <1>11, <1>12, <1>13,
       <1>14, <1>15 DEF Next

LEMMA SessionInvariant == Spec => []SessionInv
  BY SessionInit, SessionStep, PTL DEF Spec

\* The state of the session keeps its types, and the bootstrap asks once.
THEOREM TypeCorrect == Spec => []TypeOK
  BY SessionInvariant, InvGivesType, PTL

\* In every interleaving of bootstrap, renewals, login and logout, AuthContext
\* has a user exactly when its state says authenticated.
THEOREM UserIsTold == Spec => []StateTellsUser
  <1>1. SessionInv => StateTellsUser
    BY DEF SessionInv, AuthOK
  <1> QED BY <1>1, SessionInvariant, PTL

\* refreshPromise is there exactly while a call waits for it.
THEOREM RenewalIsShared == Spec => []WaitersHaveRefresh
  <1>1. SessionInv => WaitersHaveRefresh
    BY DEF SessionInv, CallsOK
  <1> QED BY <1>1, SessionInvariant, PTL

-----------------------------------------------------------------------------
\* How a move of calls reads in the abstract phases.
LEMMA MovedPhase ==
  ASSUME NEW S \in SUBSET Calls, NEW p, NEW q, q = Attempted(p), AllTo(S, p)
  PROVE  Promise!AllTo(S, q)
  BY DEF AllTo, Phase, Promise!AllTo

LEMMA SameWaiting == Promise!Waiting = Waiting
  BY DEF Promise!Waiting, Phase, Waiting, Attempted

LEMMA ImplementsInit == Init => Promise!Init
  BY DEF Init, Promise!Init, Phase, Attempted

\* Every step of the session is a step of the promise, or none.
LEMMA ImplementsStep == SessionInv /\ [Next]_vars => [Promise!Next]_Phase
  <1> SUFFICES ASSUME SessionInv, [Next]_vars PROVE [Promise!Next]_Phase
    OBVIOUS
  <1> USE BootIsCall
  <1>1. ASSUME Fresh PROVE Promise!Leave
    BY <1>1 DEF Fresh, Promise!Leave, Promise!AllTo, Phase, Attempted
  <1>2. CASE BootStart
    <2>1. AllTo({Boot}, Attempt) /\ Attempted(Attempt) = "first"
      BY <1>2 DEF BootStart, Attempt, Attempted
    <2>2. Phase[Boot] = "idle"
      BY <1>2 DEF BootStart, SessionInv, StartOK, Phase, Attempted
    <2>3. Promise!AllTo({Boot}, "first")
      BY <2>1, MovedPhase
    <2> QED BY <2>2, <2>3 DEF Promise!Next, Promise!Ask
  <1>3. ASSUME NEW r \in Requests, Ask(r) PROVE Promise!Next
    <2>1. AllTo({r}, Attempt) /\ Attempted(Attempt) = "first"
      BY <1>3 DEF Ask, Attempt, Attempted
    <2>2. Phase[r] = "idle"
      BY <1>3 DEF Ask, Phase, Attempted
    <2>3. Promise!AllTo({r}, "first")
      BY <2>1, MovedPhase
    <2> QED BY <2>2, <2>3 DEF Promise!Next, Promise!Ask
  <1>4. CASE AccessLapses
    <2>1. \A c \in Calls : Attempted(req'[c]) = Attempted(req[c])
      BY <1>4 DEF AccessLapses, Attempted
    <2> QED BY <2>1 DEF Phase
  <1>5. ASSUME NEW c \in Calls, Answered(c) \/ Fails(c) \/ RefusedAgain(c) PROVE Promise!Next
    <2>1. AllTo({c}, "idle") /\ Attempted("idle") = "idle"
      BY <1>5 DEF Answered, Fails, RefusedAgain, Attempted
    <2>2. Phase[c] \in {"first", "second"}
      BY <1>5 DEF Answered, Fails, RefusedAgain, InFlight, Phase, Attempted
    <2>3. Promise!AllTo({c}, "idle")
      BY <2>1, MovedPhase
    <2> QED BY <2>2, <2>3 DEF Promise!Next, Promise!Settle
  <1>6. ASSUME NEW c \in Calls, Unauthorised(c) PROVE Promise!Next
    <2>1. AllTo({c}, "waiting") /\ Attempted("waiting") = "waiting"
      BY <1>6 DEF Unauthorised, Attempted
    <2>2. Phase[c] = "first"
      BY <1>6 DEF Unauthorised, Phase, Attempted
    <2>3. Promise!AllTo({c}, "waiting")
      BY <2>1, MovedPhase
    <2> QED BY <2>2, <2>3 DEF Promise!Next, Promise!Wait
  <1>7. CASE Renewed
    <2>1. AllTo(Waiting, "again") /\ Attempted("again") = "second" /\ Waiting \subseteq Calls
      BY <1>7 DEF Renewed, Attempted, Waiting
    <2>2. Waiting # {}
      BY <1>7 DEF Renewed, SessionInv, CallsOK, WaitersHaveRefresh
    <2>3. Promise!AllTo(Waiting, "second")
      BY <2>1, MovedPhase
    <2> QED BY <2>2, <2>3, SameWaiting DEF Promise!Next, Promise!Renewed
  <1>8. CASE RefreshRefused \/ RefreshUnanswered
    <2>1. AllTo(Waiting, "idle") /\ Attempted("idle") = "idle" /\ Waiting \subseteq Calls
      BY <1>8 DEF RefreshRefused, RefreshUnanswered, RenewalRejected, Attempted, Waiting
    <2>2. Waiting # {}
      BY <1>8 DEF RefreshRefused, RefreshUnanswered, SessionInv, CallsOK, WaitersHaveRefresh
    <2>3. Promise!AllTo(Waiting, "idle")
      BY <2>1, MovedPhase
    <2> QED BY <2>2, <2>3, SameWaiting DEF Promise!Next, Promise!Refused
  <1>9. CASE RefreshLapses \/ Submit \/ LoginSucceeds \/ LoginFails \/ Logout \/ LogoutEnds
             \/ UNCHANGED vars
    BY <1>9 DEF RefreshLapses, Submit, LoginSucceeds, LoginFails, Logout, LogoutEnds, vars, net, Phase
  <1>10. ASSUME Promise!Leave PROVE Promise!Next
    BY <1>10 DEF Promise!Next
  <1> QED
    BY <1>1, <1>2, <1>3, <1>4, <1>5, <1>6, <1>7, <1>8, <1>9, <1>10 DEF Next, Visit, Leave

\* The interceptor keeps its promise: a call that finds the session lapsed waits
\* for the renewal that all share, and is made at most once more.
THEOREM KeepsPromise == Spec => ImplementsRenewal
  BY SessionInvariant, ImplementsInit, ImplementsStep, PTL
     DEF Spec, ImplementsRenewal, Promise!Spec
=============================================================================
