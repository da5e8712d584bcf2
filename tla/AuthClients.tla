---------------------------- MODULE AuthClients -----------------------------
(***************************************************************************)
(* createOAuthClient of packages/auth-oauth: logins that leave a state to  *)
(* be brought back once, the exchange of a code for tokens, refreshes that *)
(* may overlap, and a timer that renews the tokens before they expire.     *)
(* Tokens are named by the login they descend from (line).                 *)
(***************************************************************************)
EXTENDS Integers, FiniteSets

CONSTANTS
  States,    \* the states of the logins
  MaxCalls,  \* bound: requests of the token endpoint
  None

VARIABLES
  login,       \* how far each login is
  pending,     \* store.pending
  exchanged,   \* the states that were exchanged, and those exchanged again
  tokens,
  user,        \* the line the user signal is of, or None
  claims,      \* and the signal of the claims
  status,
  timers,      \* the timers that are armed, named by the call that scheduled them
  renewTimer,  \* the last one, armed or not
  calls,       \* the requests under way
  made,        \* how many were made
  disposed,
  crossed,     \* whether an answer was taken that a logout or another answer overtook
  gaveUp       \* whether the last renewal failed

vars == <<login, pending, exchanged, tokens, user, claims, status, timers, renewTimer, calls, made,
          disposed, crossed, gaveUp>>

NoTokens == [line |-> None, refresh |-> FALSE, expires |-> FALSE]
Tokens == [line : States, refresh : BOOLEAN, expires : BOOLEAN] \cup {NoTokens}
Calls == [id : 1..MaxCalls, kind : {"exchange", "refresh"}, phase : {"asking", "verifying", "verified"},
          brings : Tokens, byTimer : BOOLEAN, overtaken : BOOLEAN]

TypeOK ==
  /\ login \in [States -> {"new", "asked", "stored", "returned", "failed"}]
  /\ pending \subseteq States /\ exchanged \in [once : SUBSET States, again : SUBSET States]
  /\ tokens \in Tokens /\ {user, claims} \subseteq States \cup {None}
  /\ status \in {"idle", "awaiting-redirect", "authenticated", "error"}
  /\ timers \subseteq 1..MaxCalls /\ renewTimer \in 0..MaxCalls
  /\ calls \subseteq Calls /\ made \in 0..MaxCalls
  /\ {disposed, crossed, gaveUp} \subseteq BOOLEAN

Init ==
  /\ login = [s \in States |-> "new"] /\ pending = {} /\ exchanged = [once |-> {}, again |-> {}]
  /\ tokens = NoTokens /\ user = None /\ claims = None /\ status = "idle"
  /\ timers = {} /\ renewTimer = 0 /\ calls = {} /\ made = 0
  /\ disposed = FALSE /\ crossed = FALSE /\ gaveUp = FALSE

Session == <<tokens, user, claims, timers, renewTimer, crossed, gaveUp>>

\* login up to its first await, the endpoints.
LoginBegins(s) ==
  /\ ~disposed /\ login[s] = "new" /\ login' = [login EXCEPT ![s] = "asked"]
  /\ UNCHANGED <<Session, pending, exchanged, status, calls, made, disposed>>

\* The endpoints are known, or the discovery has failed; disposed is not looked at again.
LoginStores(s) ==
  /\ login[s] = "asked"
  /\ \/ login' = [login EXCEPT ![s] = "stored"] /\ pending' = pending \cup {s}
     \/ login' = [login EXCEPT ![s] = "failed"] /\ UNCHANGED pending
  /\ UNCHANGED <<Session, exchanged, status, calls, made, disposed>>

\* The challenge is computed and the address handed out.
LoginReturns(s) ==
  /\ login[s] = "stored" /\ login' = [login EXCEPT ![s] = "returned"]
  /\ status' = "awaiting-redirect"
  /\ UNCHANGED <<Session, pending, exchanged, calls, made, disposed>>

Asks(kind, brings, byTimer) ==
  /\ made < MaxCalls /\ made' = made + 1
  /\ calls' = calls \cup {[id |-> made + 1, kind |-> kind, phase |-> "asking", brings |-> brings,
                           byTimer |-> byTimer, overtaken |-> FALSE]}

Exchanges(s) ==
  /\ Asks("exchange", [line |-> s, refresh |-> FALSE, expires |-> FALSE], FALSE)
  /\ exchanged' = [once |-> exchanged.once \cup {s},
                    again |-> exchanged.again \cup ({s} \cap exchanged.once)]

\* Faulty variant: the state is forgotten only when it has expired.
handleCallbackKeeping(s) ==
  /\ login[s] = "returned" /\ s \in pending
  /\ \/ pending' = pending \ {s} /\ UNCHANGED <<exchanged, calls, made>>
     \/ Exchanges(s) /\ UNCHANGED pending
  /\ UNCHANGED <<Session, login, status, disposed>>

\* The address comes back with a code and a state that is pending, and has expired or not.
handleCallback(s) ==
  /\ login[s] = "returned" /\ s \in pending /\ pending' = pending \ {s}
  /\ Exchanges(s) \/ UNCHANGED <<exchanged, calls, made>>
  /\ UNCHANGED <<Session, login, status, disposed>>

\* Faulty variant: the timer is set for the first tokens only.
scheduleRenewOnce(id, t) ==
  IF ~t.expires \/ renewTimer # 0 THEN UNCHANGED <<timers, renewTimer, gaveUp>>
  ELSE timers' = timers \cup {id} /\ renewTimer' = id /\ gaveUp' = FALSE

\* scheduleRenew: a timer that is still armed is left as it is, and forgotten.
scheduleRenew(id, t) ==
  IF ~t.expires THEN UNCHANGED <<timers, renewTimer, gaveUp>>
  ELSE timers' = timers \cup {id} /\ renewTimer' = id /\ gaveUp' = FALSE

Overtaken(set) == {[c EXCEPT !.overtaken = TRUE] : c \in set}

Fails(c) == calls' = calls \ {c} /\ UNCHANGED <<Session, status>>

Verified(c, t) == [c EXCEPT !.phase = "verified", !.brings = t]

\* The id token of an exchange, which the scope openid brings (a default), is verified:
\* claims and user are shown before there are tokens.  Answers come in tasks of their own,
\* so one sign-in at a time is half done.
ExchangeVerified(c) ==
  /\ c.kind = "exchange" /\ c.phase = "asking" /\ \A d \in calls : d.phase # "verified"
  /\ \/ \E r, x \in BOOLEAN :
          /\ calls' = (calls \ {c}) \cup
               {Verified(c, [line |-> c.brings.line, refresh |-> r, expires |-> x])}
          /\ user' = c.brings.line /\ claims' = c.brings.line /\ crossed' = (crossed \/ c.overtaken)
          /\ UNCHANGED <<tokens, timers, renewTimer, gaveUp, status>>
     \/ Fails(c)
  /\ UNCHANGED <<login, pending, exchanged, made, disposed>>

\* The tokens a call brought replace those there are.
Takes(c, t) ==
  /\ tokens' = t /\ scheduleRenew(c.id, t)
  /\ calls' = Overtaken(calls \ {c}) /\ crossed' = (crossed \/ c.overtaken)

\* handleCallback goes on a microtask later.
ExchangeEnds(c) ==
  /\ c.phase = "verified" /\ Takes(c, c.brings) /\ status' = "authenticated"
  /\ UNCHANGED <<login, pending, exchanged, user, claims, made, disposed>>

\* refresh starts from the tokens there are, however many refreshes are under way.
refresh ==
  /\ tokens.refresh /\ Asks("refresh", tokens, FALSE)
  /\ UNCHANGED <<Session, login, pending, exchanged, status, disposed>>

TimerFires(t) ==
  /\ timers' = timers \ {t}
  /\ IF tokens.refresh THEN Asks("refresh", tokens, TRUE) /\ UNCHANGED <<status, gaveUp>>
     ELSE status' = "error" /\ gaveUp' = TRUE /\ UNCHANGED <<calls, made>>
  /\ UNCHANGED <<login, pending, exchanged, tokens, user, claims, renewTimer, disposed, crossed>>

\* The answer holds an id token, and there are claims it will replace once it is verified.
RefreshVerifies(c) ==
  /\ c.kind = "refresh" /\ c.phase = "asking" /\ claims # None
  /\ calls' = (calls \ {c}) \cup {[c EXCEPT !.phase = "verifying"]}
  /\ UNCHANGED <<Session, login, pending, exchanged, status, made, disposed>>

\* What the answer lacks is taken over from the tokens the refresh started with.
RefreshEnds(c) ==
  /\ c.kind = "refresh"
  /\ \/ \E x \in BOOLEAN : Takes(c, [c.brings EXCEPT !.expires = x \/ c.brings.expires])
     /\ claims' = (IF c.phase = "verifying" THEN c.brings.line ELSE claims)
     /\ UNCHANGED <<user, status>>
  /\ UNCHANGED <<login, pending, exchanged, made, disposed>>

\* Only a refresh that the timer started tells anybody.
RefreshFails(c) ==
  /\ c.kind = "refresh"
  /\ IF ~c.byTimer THEN Fails(c)
     ELSE /\ calls' = calls \ {c} /\ status' = "error" /\ gaveUp' = TRUE
          /\ UNCHANGED <<tokens, user, claims, timers, renewTimer, crossed>>
  /\ UNCHANGED <<login, pending, exchanged, made, disposed>>

\* Faulty variant: the user stays.
SignedOutButUser ==
  /\ tokens' = NoTokens /\ claims' = None /\ status' = "idle" /\ UNCHANGED user
  /\ timers' = timers \ {renewTimer} /\ calls' = Overtaken(calls)

\* logout, and the part of dispose that is the same.
SignedOut ==
  /\ tokens' = NoTokens /\ user' = None /\ claims' = None /\ status' = "idle"
  /\ timers' = timers \ {renewTimer} /\ calls' = Overtaken(calls)

logout ==
  /\ SignedOut
  /\ UNCHANGED <<login, pending, exchanged, renewTimer, made, disposed, crossed, gaveUp>>

dispose ==
  /\ ~disposed /\ disposed' = TRUE /\ SignedOut /\ pending' = {}
  /\ UNCHANGED <<login, exchanged, renewTimer, made, crossed, gaveUp>>

Next ==
  \/ refresh \/ logout \/ dispose
  \/ \E s \in States : LoginBegins(s) \/ LoginStores(s) \/ LoginReturns(s) \/ handleCallback(s)
  \/ \E t \in timers : TimerFires(t)
  \/ \E c \in calls :
       ExchangeVerified(c) \/ ExchangeEnds(c) \/ RefreshVerifies(c) \/ RefreshEnds(c) \/ RefreshFails(c)

Spec == Init /\ [][Next]_vars

------------------------------------------------------------------------------
(* What is checked *)

\* A state that comes back twice, even while the first is being exchanged, is exchanged once.
StateIsSpentOnce == exchanged.again = {}

\* The tokens, the user and the claims are of one sign-in, and an idle client has none of
\* them, unless an answer was taken that a logout or another answer had overtaken.
SessionIsOne ==
  ~crossed /\ (\A c \in calls : c.phase # "verified") =>
    /\ tokens.line = user /\ claims = user
    /\ status = "idle" => tokens = NoTokens

\* Tokens that expire will be renewed: a timer is armed, or has started a refresh that is
\* under way, or the renewal has failed and nobody tries again.
RenewalIsComing ==
  tokens.expires => timers # {} \/ gaveUp \/ \E c \in calls : c.kind = "refresh" /\ c.byTimer

------------------------------------------------------------------------------
(***************************************************************************)
(* The functional interface of packages/auth: module-level signals for the *)
(* user and the tokens, a record in storage, one refresh timer, and calls  *)
(* whose answers nothing puts in order.  Tokens are named by the account   *)
(* they are of; they have an expiry and a refresh token.                   *)
(***************************************************************************)

CONSTANT Accounts

VARIABLES
  account,       \* functionalUser
  accountTokens, \* functionalTokens
  stored,        \* what the storage has
  loading,       \* functionalIsLoading
  timer,         \* functionalRefreshTimer is set and has not fired
  initialized,
  requests,      \* the calls that ask the server and are under way
  sent,          \* how many were made
  mixed,         \* initAuth came after a sign-in, or an answer after the session had changed
  halfCleared    \* the signals were cleared for a failed call, and the storage was not

functionalVars == <<account, accountTokens, stored, loading, timer, initialized, requests, sent,
                    mixed, halfCleared>>

Who == Accounts \cup {None}
Kinds == {"init", "me", "login", "remember", "register", "logout", "refresh", "timed"}

FunctionalTypeOK ==
  /\ {account, accountTokens, stored} \subseteq Who
  /\ {loading, timer, initialized, mixed, halfCleared} \subseteq BOOLEAN
  /\ requests \subseteq [id : 1..MaxCalls, kind : Kinds, of : Who, late : BOOLEAN]
  /\ sent \in 0..MaxCalls

FunctionalInit ==
  /\ account = None /\ accountTokens = None /\ stored \in Who
  /\ loading = FALSE /\ timer = FALSE /\ initialized = FALSE
  /\ requests = {} /\ sent = 0 /\ mixed = FALSE /\ halfCleared = FALSE

FunctionalAsks(kind, of) ==
  /\ sent < MaxCalls /\ sent' = sent + 1
  /\ requests' = requests \cup
       {[id |-> sent + 1, kind |-> kind, of |-> of, late |-> FALSE]}
  /\ UNCHANGED halfCleared

\* A call ends; if it changes who is signed in, the others are late.
Ends(c, changes) ==
  /\ requests' = {[d EXCEPT !.late = @ \/ changes] : d \in requests \ {c}}
  /\ UNCHANGED <<initialized, sent>>

\* setupFunctionalAutoRefresh clears the timer, and sets it if there are tokens.
setupFunctionalAutoRefresh(held) == timer' = (held # None)

clearFunctionalAuthState == account' = None /\ accountTokens' = None

\* initAuth runs once; the tokens it finds are used before the server is asked whose they are.
initAuth ==
  /\ ~initialized /\ initialized' = TRUE
  /\ IF stored = None
     THEN /\ setupFunctionalAutoRefresh(accountTokens)
          /\ UNCHANGED <<accountTokens, requests, sent, mixed, halfCleared>>
     ELSE /\ accountTokens' = stored /\ mixed' = (mixed \/ account # None)
          /\ FunctionalAsks("init", stored) /\ UNCHANGED timer
  /\ UNCHANGED <<account, stored, loading>>

functionalLogin(a, kind) ==
  /\ FunctionalAsks(kind, a) /\ loading' = TRUE
  /\ UNCHANGED <<account, accountTokens, stored, timer, initialized, mixed>>

\* The answer to login or register: only a remembered login and a registration are stored,
\* and only a login arms the timer.
SignsIn(c) ==
  /\ c.kind \in {"login", "remember", "register"} /\ Ends(c, TRUE)
  /\ account' = c.of /\ accountTokens' = c.of /\ loading' = FALSE
  /\ stored' = IF c.kind = "login" THEN stored ELSE c.of
  /\ IF c.kind = "register" THEN UNCHANGED timer ELSE setupFunctionalAutoRefresh(c.of)
  /\ mixed' = FALSE /\ halfCleared' = FALSE

SignInFails(c) ==
  /\ c.kind \in {"login", "remember", "register"} /\ Ends(c, FALSE)
  /\ loading' = FALSE /\ UNCHANGED <<account, accountTokens, stored, timer, mixed, halfCleared>>

\* logout asks the server first, if it is to and there are tokens.
logoutAsks ==
  /\ accountTokens # None /\ FunctionalAsks("logout", accountTokens) /\ loading' = TRUE
  /\ UNCHANGED <<account, accountTokens, stored, timer, initialized, mixed>>

\* Faulty variant: the storage is cleared only of what this session has put there.
LoggedOutOfOwn ==
  /\ clearFunctionalAuthState /\ stored' = (IF stored = account THEN None ELSE stored)
  /\ timer' = FALSE /\ loading' = FALSE
  /\ mixed' = FALSE /\ halfCleared' = FALSE

\* The finally of logout, whoever is signed in by then.
LoggedOut ==
  /\ clearFunctionalAuthState /\ stored' = None /\ timer' = FALSE /\ loading' = FALSE
  /\ mixed' = FALSE /\ halfCleared' = FALSE

logoutEnds(c) == c.kind = "logout" /\ Ends(c, TRUE) /\ LoggedOut

functionalLogout ==
  /\ LoggedOut /\ requests' = {[d EXCEPT !.late = TRUE] : d \in requests}
  /\ UNCHANGED <<initialized, sent>>

\* refreshToken by hand throws when there are no tokens.
refreshToken ==
  /\ accountTokens # None /\ FunctionalAsks("refresh", accountTokens)
  /\ UNCHANGED <<account, accountTokens, stored, loading, timer, initialized, mixed>>

\* The timer: without tokens refreshToken throws and the catch logs out.
FunctionalTimerFires ==
  /\ timer
  /\ IF accountTokens = None THEN functionalLogout
     ELSE FunctionalAsks("timed", accountTokens) /\ timer' = FALSE
          /\ UNCHANGED <<account, accountTokens, stored, loading, initialized, mixed>>

\* The new tokens are taken whoever is signed in by now, and the timer is not set again.
Refreshed(c) ==
  /\ c.kind \in {"refresh", "timed"} /\ Ends(c, accountTokens # c.of)
  /\ accountTokens' = c.of /\ stored' = c.of
  /\ mixed' = (mixed \/ c.late) /\ halfCleared' = FALSE
  /\ UNCHANGED <<account, loading, timer>>

\* Faulty variant: the failed refresh of the timer is not followed by a logout.
FunctionalRefreshFailsByHand(c) ==
  /\ c.kind \in {"refresh", "timed"} /\ Ends(c, TRUE)
  /\ clearFunctionalAuthState /\ mixed' = FALSE
  /\ halfCleared' = (halfCleared \/ c.kind = "refresh") /\ UNCHANGED <<stored, loading, timer>>

\* By hand only the signals are cleared, the timer's callback logs out.
FunctionalRefreshFails(c) ==
  /\ c.kind \in {"refresh", "timed"} /\ Ends(c, TRUE)
  /\ IF c.kind = "timed" THEN LoggedOut
     ELSE /\ clearFunctionalAuthState /\ mixed' = FALSE /\ halfCleared' = TRUE
          /\ UNCHANGED <<stored, loading, timer>>

fetchCurrentUser ==
  /\ FunctionalAsks("me", accountTokens) /\ accountTokens # None
  /\ UNCHANGED <<account, accountTokens, stored, loading, timer, initialized, mixed>>

\* The user is shown whoever is signed in by now; initAuth then sets the timer.
UserArrives(c) ==
  /\ c.kind \in {"me", "init"} /\ Ends(c, FALSE)
  /\ account' = c.of /\ mixed' = (mixed \/ c.late)
  /\ UNCHANGED <<accountTokens, stored, loading, halfCleared>>
  /\ IF c.kind = "init" THEN setupFunctionalAutoRefresh(accountTokens) ELSE UNCHANGED timer

UserFails(c) ==
  /\ c.kind \in {"me", "init"} /\ Ends(c, TRUE)
  /\ clearFunctionalAuthState /\ mixed' = FALSE /\ halfCleared' = TRUE
  /\ UNCHANGED <<stored, loading>>
  /\ IF c.kind = "init" THEN setupFunctionalAutoRefresh(None) ELSE UNCHANGED timer

FunctionalNext ==
  \/ initAuth \/ logoutAsks \/ functionalLogout \/ refreshToken \/ FunctionalTimerFires \/ fetchCurrentUser
  \/ \E a \in Accounts, kind \in {"login", "remember", "register"} : functionalLogin(a, kind)
  \/ \E c \in requests : SignsIn(c) \/ SignInFails(c) \/ logoutEnds(c) \/ Refreshed(c)
                      \/ FunctionalRefreshFails(c) \/ UserArrives(c) \/ UserFails(c)

FunctionalSpec == FunctionalInit /\ [][FunctionalNext]_functionalVars

------------------------------------------------------------------------------
(* What is checked *)

\* The user and the tokens are of one account, unless the answer of a call that a sign-in or
\* a sign-out overtook was the last to arrive, or initAuth came after a sign-in.
OneAccount == account # None /\ accountTokens # None => account = accountTokens \/ mixed

\* Nobody who signed out is signed in by the next visit: the storage is empty once there are
\* no tokens, unless a call failed for which only the signals are cleared.
SignedOutIsForgotten == initialized /\ accountTokens = None /\ stored # None => halfCleared

\* The loading signal belongs to a call that will clear it.
LoadingIsBacked == loading => \E c \in requests : c.kind \in {"login", "remember", "register", "logout"}
=============================================================================
