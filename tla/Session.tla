------------------------------- MODULE Session -------------------------------
(***************************************************************************)
(* The session of the browser: the cookies, the interceptor of api.ts that *)
(* renews them behind the calls of the pages, the state AuthContext shows, *)
(* the login page and the guard of the other pages (ProtectedRoute).       *)
(*                                                                         *)
(* A call is an app request, or Boot, the bootstrap's GET /auth/me/.  It   *)
(* goes from idle to sent; stale is a call that the server answers 401, as *)
(* it carries no access cookie or one that lapsed; waiting is one held in  *)
(* the interceptor for the renewal; again and againStale are its retry.    *)
(***************************************************************************)
EXTENDS Naturals, FiniteSets

CONSTANTS
  Requests,   \* the requests the pages may have in flight together
  Boot,       \* the request of the bootstrap
  MaxVisits   \* bound: how often the user opens the application anew

Calls == Requests \cup {Boot}

ASSUME BootAssumption == Boot \notin Requests
ASSUME VisitsAssumption == MaxVisits \in Nat

VARIABLES
  req,        \* api.ts: where each call is
  refresh,    \* refreshPromise: none, or a request with a good or a bad cookie
  notified,   \* sessionExpiredNotified
  access,     \* the access cookie is there and valid
  renewable,  \* the refresh cookie is there and valid
  legacy,     \* localStorage holds the tokens of an older version
  user,       \* AuthContext: a user is set
  loading,
  state,      \* sessionState
  message,    \* sessionMessage is set
  stored,     \* the same message waits in sessionStorage
  starting,   \* the bootstrap has not asked for the profile yet
  page,       \* the address: the login page, or any page behind the guard
  leaving,    \* window.location.assign("/login") was called
  login,      \* the login's request is in flight
  logout,     \* the logout's request is in flight
  visits

net == <<req, refresh, notified>>
cookies == <<access, renewable, legacy>>
auth == <<user, loading, state, message, stored>>
where == <<page, leaving, visits>>
forms == <<starting, login, logout>>
vars == <<net, cookies, auth, where, forms>>

States == {"checking", "authenticated", "anonymous", "expired"}
Phases == {"idle", "sent", "stale", "waiting", "again", "againStale"}

Waiting == {c \in Calls : req[c] = "waiting"}
InFlight == {c \in Calls : req[c] \in {"sent", "stale", "again", "againStale"}}

AllTo(S, p) == req' = [c \in Calls |-> IF c \in S THEN p ELSE req[c]]

\* The guard: a page that is not the login's is left when nobody is signed in.
Guarded(p) == page' = IF ~user' /\ ~loading' THEN "login" ELSE p

-----------------------------------------------------------------------------
\* What a load of the page leaves of the memory of the one before: nothing.
Fresh ==
  /\ req' = [c \in Calls |-> "idle"]
  /\ refresh' = "none" /\ notified' = FALSE
  /\ user' = FALSE /\ loading' = TRUE /\ state' = "checking"
  /\ message' = stored /\ stored' = FALSE
  /\ starting' = TRUE /\ login' = FALSE /\ logout' = FALSE
  /\ leaving' = FALSE

Init ==
  /\ req = [c \in Calls |-> "idle"]
  /\ refresh = "none" /\ notified = FALSE
  /\ access \in BOOLEAN /\ renewable \in BOOLEAN /\ legacy \in BOOLEAN
  /\ user = FALSE /\ loading = TRUE /\ state = "checking"
  /\ message = FALSE /\ stored = FALSE
  /\ starting = TRUE /\ login = FALSE /\ logout = FALSE
  /\ page \in {"login", "app"}
  /\ leaving = FALSE /\ visits = 0

\* The user opens an address, or reloads the one shown.
Visit(p) ==
  /\ visits < MaxVisits
  /\ Fresh
  /\ page' = p /\ visits' = visits + 1
  /\ UNCHANGED cookies

\* The browser carries out the assign("/login").
Leave ==
  /\ leaving
  /\ Fresh
  /\ page' = "login"
  /\ UNCHANGED <<cookies, visits>>

\* A call is sent with the access cookie of that moment.
Attempt == IF access' THEN "sent" ELSE "stale"

\* Variant: the bootstrap may ask for the profile once more.
BootStartAgain ==
  /\ starting
  /\ legacy' = FALSE
  /\ \/ UNCHANGED <<access, renewable>>
     \/ legacy /\ access' = TRUE /\ renewable' \in {renewable, TRUE}
  /\ AllTo({Boot}, Attempt)
  /\ UNCHANGED <<starting, refresh, notified, auth, where, login, logout>>

(***************************************************************************)
(* The bootstrap up to its GET /auth/me/: the csrf cookie, whose failure   *)
(* is ignored, then the older version's tokens, which become cookies when  *)
(* the server accepts them and are forgotten in any case.                  *)
(***************************************************************************)
BootStart ==
  /\ starting /\ starting' = FALSE
  /\ legacy' = FALSE
  /\ \/ UNCHANGED <<access, renewable>>
     \/ legacy /\ access' = TRUE /\ renewable' \in {renewable, TRUE}
  /\ AllTo({Boot}, Attempt)
  /\ UNCHANGED <<refresh, notified, auth, where, login, logout>>

\* A page asks the API for something.
Ask(r) ==
  /\ req[r] = "idle"
  /\ user /\ ~loading /\ page = "app"
  /\ UNCHANGED access
  /\ AllTo({r}, Attempt)
  /\ UNCHANGED <<refresh, notified, renewable, legacy, auth, where, forms>>

\* The access cookie lapses, under the calls that the server has yet to judge.
AccessLapses ==
  /\ access /\ access' = FALSE
  /\ \E S \in SUBSET InFlight :
       req' = [c \in Calls |->
                 IF c \in S /\ req[c] = "sent" THEN "stale"
                 ELSE IF c \in S /\ req[c] = "again" THEN "againStale" ELSE req[c]]
  /\ UNCHANGED <<refresh, notified, renewable, legacy, auth, where, forms>>

\* The refresh cookie lapses, before or after a renewal in flight was judged.
Lapsed == IF refresh = "good" THEN {"good", "bad"} ELSE {refresh}

RefreshLapses ==
  /\ renewable /\ renewable' = FALSE
  /\ refresh' \in Lapsed
  /\ UNCHANGED <<req, notified, access, legacy, auth, where, forms>>

-----------------------------------------------------------------------------
\* Variant: the catch of the bootstrap leaves the user as it is.
RejectedKeepUser(expired, boot) ==
  LET told == expired /\ ~notified
  IN /\ notified' = (notified \/ expired)
     /\ stored' = (stored \/ told) /\ message' = (message \/ told)
     /\ user' = (user /\ ~told)
     /\ loading' = (loading /\ ~told /\ ~boot)
     /\ state' = IF boot THEN "anonymous" ELSE IF told THEN "expired" ELSE state
     /\ leaving' = (leaving \/ (told /\ page # "login"))
     /\ Guarded(page)
     /\ UNCHANGED <<cookies, visits, forms>>

\* Variant: the bootstrap has no finally that ends the loading.
RejectedKeepLoading(expired, boot) ==
  LET told == expired /\ ~notified
  IN /\ notified' = (notified \/ expired)
     /\ stored' = (stored \/ told) /\ message' = (message \/ told)
     /\ user' = (user /\ ~told /\ ~boot)
     /\ loading' = (loading /\ ~told)
     /\ state' = IF boot THEN "anonymous" ELSE IF told THEN "expired" ELSE state
     /\ leaving' = (leaving \/ (told /\ page # "login"))
     /\ Guarded(page)
     /\ UNCHANGED <<cookies, visits, forms>>

(***************************************************************************)
(* Calls are rejected: with the broadcast of an expired session if expired *)
(* holds, which is told only once, and into the catch of the bootstrap, if *)
(* Boot is among them, which runs after the listener of the broadcast.     *)
(***************************************************************************)
Rejected(expired, boot) ==
  LET told == expired /\ ~notified
  IN /\ notified' = (notified \/ expired)
     /\ stored' = (stored \/ told) /\ message' = (message \/ told)
     /\ user' = (user /\ ~told /\ ~boot)
     /\ loading' = (loading /\ ~told /\ ~boot)
     /\ state' = IF boot THEN "anonymous" ELSE IF told THEN "expired" ELSE state
     /\ leaving' = (leaving \/ (told /\ page # "login"))
     /\ Guarded(page)
     /\ UNCHANGED <<cookies, visits, forms>>

\* A call is answered; the bootstrap's brings the user.
Answered(c) ==
  /\ req[c] \in {"sent", "again"}
  /\ AllTo({c}, "idle")
  /\ IF c = Boot
     THEN user' = TRUE /\ state' = "authenticated" /\ loading' = FALSE
     ELSE UNCHANGED <<user, state, loading>>
  /\ UNCHANGED <<refresh, notified, cookies, message, stored, where, forms>>

\* A call fails for another reason than the session.
Fails(c) ==
  /\ c \in InFlight
  /\ AllTo({c}, "idle")
  /\ Rejected(FALSE, c = Boot)
  /\ UNCHANGED refresh

\* A first 401: the call waits for the renewal in flight, or starts one.
Unauthorised(c) ==
  /\ req[c] = "stale"
  /\ AllTo({c}, "waiting")
  /\ refresh' = IF refresh # "none" THEN refresh ELSE IF renewable THEN "good" ELSE "bad"
  /\ UNCHANGED <<notified, cookies, auth, where, forms>>

\* Variant: _retry is not looked at.
RefusedAgainRetry(c) ==
  /\ req[c] = "againStale"
  /\ AllTo({c}, "waiting")
  /\ refresh' = IF refresh # "none" THEN refresh ELSE IF renewable THEN "good" ELSE "bad"
  /\ UNCHANGED <<notified, cookies, auth, where, forms>>

\* A 401 to the retry (_retry is set): the session is over.
RefusedAgain(c) ==
  /\ req[c] = "againStale"
  /\ AllTo({c}, "idle")
  /\ Rejected(TRUE, c = Boot)
  /\ UNCHANGED refresh

\* Variant: only one of the calls that share the renewal resumes.
RenewedOne ==
  /\ refresh = "good" /\ refresh' = "none"
  /\ access' = TRUE /\ notified' = FALSE
  /\ \E c \in Waiting : AllTo({c}, "again")
  /\ UNCHANGED <<renewable, legacy, auth, where, forms>>

\* The renewal succeeds: whoever waits for it tries again.
Renewed ==
  /\ refresh = "good" /\ refresh' = "none"
  /\ access' = TRUE /\ notified' = FALSE
  /\ AllTo(Waiting, "again")
  /\ UNCHANGED <<renewable, legacy, auth, where, forms>>

\* The renewal is rejected, and with it every call that waits: the server refuses
\* it, or it gets no answer.
RenewalRejected ==
  /\ refresh' = "none"
  /\ AllTo(Waiting, "idle")
  /\ Rejected(TRUE, Boot \in Waiting)

RefreshRefused == refresh = "bad" /\ RenewalRejected
RefreshUnanswered == refresh # "none" /\ RenewalRejected

-----------------------------------------------------------------------------
\* The login page's button is off while its request is in flight.
Submit ==
  /\ page = "login" /\ ~login
  /\ login' = TRUE
  /\ message' = FALSE /\ stored' = FALSE
  /\ UNCHANGED <<net, cookies, user, loading, state, where, starting, logout>>

LoginSucceeds ==
  /\ login /\ login' = FALSE
  /\ access' = TRUE /\ renewable' = TRUE
  /\ user' = TRUE /\ state' = "authenticated"
  /\ page' = "app"
  /\ UNCHANGED <<net, legacy, loading, message, stored, leaving, visits, starting, logout>>

LoginFails ==
  /\ login /\ login' = FALSE
  /\ UNCHANGED <<net, cookies, auth, where, starting, logout>>

Logout ==
  /\ user /\ ~loading /\ page = "app" /\ ~logout
  /\ logout' = TRUE
  /\ UNCHANGED <<net, cookies, auth, where, starting, login>>

\* The server revokes the refresh token and removes both cookies; whether it did
\* or not, the page forgets the user.
LogoutEnds ==
  /\ logout /\ logout' = FALSE
  /\ \/ UNCHANGED <<access, renewable, refresh>>
     \/ access' = FALSE /\ renewable' = FALSE /\ refresh' \in Lapsed
  /\ user' = FALSE /\ state' = "anonymous" /\ message' = FALSE
  /\ page' = IF loading THEN page ELSE "login"
  /\ UNCHANGED <<req, notified, legacy, loading, stored, leaving, visits, starting, login>>

Ends(c) == Answered(c) \/ Fails(c) \/ Unauthorised(c) \/ RefusedAgain(c)

Next ==
  \/ \E p \in {"login", "app"} : Visit(p)
  \/ Leave
  \/ BootStart
  \/ \E r \in Requests : Ask(r)
  \/ AccessLapses \/ RefreshLapses
  \/ \E c \in Calls : Answered(c)
  \/ \E c \in Calls : Fails(c)
  \/ \E c \in Calls : Unauthorised(c)
  \/ \E c \in Calls : RefusedAgain(c)
  \/ Renewed \/ RefreshRefused \/ RefreshUnanswered
  \/ Submit \/ LoginSucceeds \/ LoginFails
  \/ Logout \/ LogoutEnds

Spec == Init /\ [][Next]_vars

\* Every request gets an answer or fails; the browser carries out its steps.
FairSpec ==
  /\ Spec
  /\ WF_vars(BootStart)
  /\ WF_vars(Leave)
  /\ WF_vars(Renewed \/ RefreshRefused \/ RefreshUnanswered)
  /\ \A c \in Calls : WF_vars(Ends(c))

-----------------------------------------------------------------------------
\* The session's state; the bootstrap asks for the profile once.
TypeOK ==
  /\ req \in [Calls -> Phases]
  /\ refresh \in {"none", "good", "bad"}
  /\ {notified, access, renewable, legacy} \subseteq BOOLEAN
  /\ {user, loading, message, stored} \subseteq BOOLEAN
  /\ state \in States
  /\ {starting, leaving, login, logout} \subseteq BOOLEAN
  /\ page \in {"login", "app"}
  /\ visits \in 0..MaxVisits
  /\ starting => loading /\ req[Boot] = "idle"

\* Whatever the order of the bootstrap, the renewals and the login, there is a
\* user exactly when the state says so (AuthContext keeps the two apart).
StateTellsUser == user <=> state = "authenticated"

\* A call is held in the interceptor only while a renewal is in flight, and a
\* renewal only while a call waits for it: refreshPromise is never left behind.
WaitersHaveRefresh == Waiting # {} <=> refresh # "none"

\* The check of the session ends: the spinner of the guard goes away.
CheckEnds == loading ~> ~loading

\* What the interceptor promises, of which it hides why an attempt is refused.
Attempted(p) == IF p \in {"sent", "stale"} THEN "first"
                ELSE IF p \in {"again", "againStale"} THEN "second" ELSE p
Phase == [c \in Calls |-> Attempted(req[c])]
Promise == INSTANCE Renewal WITH phase <- Phase

\* Each step of the interceptor is a step of the promise.
ImplementsRenewal == Promise!Spec

\* Every call of a page ends, whatever lapses meanwhile.
EveryCallEnds == Promise!EveryCallEnds

\* Nothing waits for ever, neither the guard nor a page.
NothingHangs == CheckEnds /\ EveryCallEnds

\* docs/RESUME_AFTER_REBOOT.md: a renewal that is refused signs the user out.
ForcedLogout == [][RefreshRefused => ~user']_vars
=============================================================================
