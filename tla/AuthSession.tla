----------------------------- MODULE AuthSession -----------------------------
(***************************************************************************)
(* The class Auth of packages/auth in one tab: the session signal, the     *)
(* tokens in localStorage that other tabs share, one refresh at a time, a  *)
(* timer that starts it, and the answers of requests that logout, dispose  *)
(* or another tab may have overtaken.  A token is named by the request     *)
(* that brought it, 0 is the one found in storage.                         *)
(***************************************************************************)
EXTENDS Integers, FiniteSets

CONSTANTS
  MaxCalls,   \* bound: requests made
  None

\* A constructor that finds a token makes two requests.
ASSUME AuthAssumption == MaxCalls \in Nat /\ MaxCalls >= 2 /\ None \notin Int

VARIABLES
  session,     \* the signal
  stored,      \* the tokens in storage
  timer,       \* whether _refreshTimer is set
  online,
  deferred,    \* whether a listener for the online event will set it
  calls,       \* the requests under way
  refreshing,  \* the request of _refreshPromise, or 0
  notice,      \* whether the logout of another tab is still to be heard of
  disposed,
  made,        \* how many requests were made
  revived,     \* whether a request that a logout overtook has signed the user in again
  abandoned,   \* whether secureLogout has ever let go of a refresh under way
  unattended   \* whether the last refresh ended with an error that may pass

vars == <<session, stored, timer, online, deferred, calls, refreshing, notice, disposed, made,
          revived, abandoned, unattended>>

\* The token of an answer that brought none: undefined in the signal, and the text
\* that setItem makes of it in storage, which a reload takes for a token.
Undefined == -1

Tokens == 0..MaxCalls \cup {None, Undefined}
SignedOut == [token |-> None, refresh |-> FALSE, expiry |-> FALSE, authed |-> FALSE, loading |-> FALSE]
Nothing == [token |-> None, refresh |-> FALSE, expiry |-> FALSE]
Call(id, kind) == [id |-> id, kind |-> kind, overtaken |-> FALSE]
Kinds == {"login", "me", "refresh", "mfa", "logout"}
Calls == [id : 1..MaxCalls, kind : Kinds, overtaken : BOOLEAN]

TypeOK ==
  /\ session \in [token : Tokens, refresh : BOOLEAN, expiry : BOOLEAN, authed : BOOLEAN, loading : BOOLEAN]
  /\ stored \in [token : Tokens, refresh : BOOLEAN, expiry : BOOLEAN]
  /\ calls \subseteq Calls /\ refreshing \in 0..MaxCalls /\ made \in 0..MaxCalls
  /\ {timer, online, deferred, notice, disposed, revived, abandoned, unattended} \subseteq BOOLEAN

\* The constructor finds nothing in storage, or a token with or without the other parts,
\* whose expiry may have passed.  It validates it by refresh or fetchUser and then calls
\* fetchUser in any case.
Restored(r, x, passed) ==
  /\ stored = [token |-> 0, refresh |-> r, expiry |-> x]
  /\ session = [token |-> 0, refresh |-> r, expiry |-> x, authed |-> FALSE, loading |-> TRUE]
  /\ timer = (x /\ ~passed) /\ made = 2
  /\ calls = {Call(1, IF x /\ r THEN "refresh" ELSE "me"), Call(2, "me")}
  /\ refreshing = IF x /\ r THEN 1 ELSE 0

Init ==
  /\ \/ stored = Nothing /\ session = SignedOut /\ timer = FALSE /\ calls = {} /\ made = 0 /\ refreshing = 0
     \/ \E r, x, passed \in BOOLEAN : (x /\ passed => r) /\ Restored(r, x, passed)
  /\ online = TRUE /\ deferred = FALSE /\ notice = FALSE /\ disposed = FALSE
  /\ revived = FALSE /\ abandoned = FALSE /\ unattended = FALSE

\* Faulty variant: a token that the answer did not bring is shown but not stored.
Stored_IfBrought(token, r, x) ==
  [token |-> IF token = Undefined THEN stored.token ELSE token, refresh |-> r \/ stored.refresh, expiry |-> x \/ stored.expiry]

\* _storeTokens leaves what it is not given.
Stored(token, r, x) == [token |-> token, refresh |-> r \/ stored.refresh, expiry |-> x \/ stored.expiry]

\* _scheduleRefresh, if there is an expiry: set anew, or put off until the tab is online.
Scheduled(x) ==
  IF ~x \/ disposed THEN UNCHANGED <<timer, deferred>>
  ELSE timer' = online /\ deferred' = (deferred \/ ~online)

Overtaken(set) == {[c EXCEPT !.overtaken = TRUE] : c \in set}

\* The part of logout that does not depend on its answer, while the others are under way.
LoggedOut(others) ==
  IF disposed THEN calls' = others /\ UNCHANGED <<session, stored, timer>>
  ELSE session' = SignedOut /\ stored' = Nothing /\ timer' = FALSE /\ calls' = Overtaken(others)

logout ==
  /\ ~disposed /\ LoggedOut(calls)
  /\ UNCHANGED <<online, deferred, refreshing, notice, disposed, made, revived, abandoned, unattended>>

\* _clearLocalState: the tokens in storage stay, and a refresh under way is let go of.
Cleared(others) ==
  /\ session' = SignedOut /\ timer' = FALSE /\ refreshing' = 0
  /\ calls' = Overtaken(others) /\ abandoned' = (abandoned \/ refreshing # 0)
  /\ UNCHANGED <<stored, online, deferred, notice, disposed, made, revived, unattended>>

\* secureLogout by a beacon, or without a URL.
secureLogout == ~disposed /\ Cleared(calls)

dispose ==
  /\ ~disposed /\ disposed' = TRUE /\ timer' = FALSE /\ refreshing' = 0
  /\ calls' = Overtaken(calls)
  /\ UNCHANGED <<session, stored, online, deferred, notice, made, revived, abandoned, unattended>>

\* Another tab logs out, and this one hears of it later, by a message or a storage event.
OtherTabLogsOut ==
  /\ ~notice /\ notice' = TRUE /\ stored' = Nothing
  /\ UNCHANGED <<session, timer, online, deferred, calls, refreshing, disposed, made, revived, abandoned, unattended>>

\* Unlike logout, _clearTokens leaves the expiry in storage.
NoticeArrives ==
  /\ notice /\ notice' = FALSE
  /\ IF disposed THEN UNCHANGED <<session, stored, calls>>
     ELSE /\ session' = SignedOut /\ calls' = Overtaken(calls)
          /\ stored' = [stored EXCEPT !.token = None, !.refresh = FALSE]
  /\ UNCHANGED <<timer, online, deferred, refreshing, disposed, made, revived, abandoned, unattended>>

Asks(kind) ==
  /\ ~disposed /\ made < MaxCalls /\ made' = made + 1
  /\ calls' = calls \cup {Call(made + 1, kind)}
  /\ UNCHANGED <<stored, online, deferred, notice, disposed, revived, abandoned>>

\* secureLogout without beacons waits for a fetch, and then does not look whether the
\* session was disposed of or has signed in again.
SecureLogoutAsks == Asks("logout") /\ UNCHANGED <<session, timer, refreshing, unattended>>
SecureLogoutEnds(c) == c.kind = "logout" /\ Cleared(calls \ {c})

login == Asks("login") /\ session' = [session EXCEPT !.loading = TRUE] /\ UNCHANGED <<timer, refreshing, unattended>>

HasToken == session.token \notin {None, Undefined}

fetchUser ==
  /\ HasToken /\ Asks("me") /\ session' = [session EXCEPT !.loading = TRUE]
  /\ UNCHANGED <<timer, refreshing, unattended>>

verifyMfa == Asks("mfa") /\ UNCHANGED <<session, timer, refreshing, unattended>>

\* Faulty variant: a refresh under way is not looked at.
StartsRefreshAlways == session.refresh

\* Whether refresh makes a request: the callers during one share its promise.
StartsRefresh == refreshing = 0 /\ session.refresh

refresh ==
  /\ StartsRefresh /\ Asks("refresh") /\ refreshing' = made + 1 /\ unattended' = FALSE
  /\ UNCHANGED <<session, timer>>

\* The timer fires, and starts a refresh unless there is one or no refresh token.
TimerFires ==
  /\ timer /\ timer' = FALSE
  /\ IF StartsRefresh THEN Asks("refresh") /\ refreshing' = made + 1 /\ unattended' = FALSE
     ELSE UNCHANGED <<stored, online, deferred, calls, refreshing, notice, disposed, made, revived, abandoned, unattended>>
  /\ UNCHANGED session

Answered(c, kind) ==
  /\ c.kind = kind
  /\ refreshing' = IF kind = "refresh" THEN 0 ELSE refreshing
  /\ UNCHANGED <<online, notice, disposed, made, abandoned>>

\* An answer that signs in: with or without a refresh token and an expiry.
SignsIn(c, token, r, x, s) ==
  /\ session' = s /\ calls' = calls \ {c}
  /\ stored' = Stored(token, r, x)
  /\ revived' = (revived \/ c.overtaken)

LoginAnswer(c) ==
  /\ Answered(c, "login")
  /\ \/ \E r, x \in BOOLEAN :
          /\ SignsIn(c, c.id, r, x, [token |-> c.id, refresh |-> r, expiry |-> x, authed |-> TRUE, loading |-> FALSE])
          /\ Scheduled(x)
     \/ /\ session' = [session EXCEPT !.loading = FALSE] /\ calls' = calls \ {c}
        /\ UNCHANGED <<stored, timer, deferred, revived>>
  /\ UNCHANGED unattended

\* The user is known, or the token is refused, or nothing is known.
UserAnswer(c) ==
  /\ Answered(c, "me")
  /\ \/ /\ session' = [session EXCEPT !.authed = TRUE, !.loading = FALSE] /\ calls' = calls \ {c}
        /\ revived' = (revived \/ c.overtaken) /\ UNCHANGED <<stored, timer>>
     \/ LoggedOut(calls \ {c}) /\ UNCHANGED revived
     \/ /\ session' = [session EXCEPT !.loading = FALSE] /\ calls' = calls \ {c}
        /\ UNCHANGED <<stored, timer, revived>>
  /\ UNCHANGED <<deferred, unattended>>

\* Without a refresh token in the answer the session keeps the one it has.  Without a
\* token it keeps none: unlike login and verifyMfa, _doRefresh does not look.
RefreshAnswer(c) ==
  /\ Answered(c, "refresh")
  /\ \/ \E token \in {c.id, Undefined}, new, x \in BOOLEAN :
          LET r == new \/ session.refresh
          IN /\ SignsIn(c, token, r, x, [session EXCEPT !.token = token, !.refresh = r, !.expiry = x, !.authed = TRUE])
             /\ Scheduled(x) /\ UNCHANGED unattended
     \/ LoggedOut(calls \ {c}) /\ UNCHANGED <<deferred, revived, unattended>>
     \/ calls' = calls \ {c} /\ unattended' = TRUE /\ UNCHANGED <<session, stored, timer, deferred, revived>>

\* The answer may bring no token; that of the session is then stored once more.
MfaAnswer(c) ==
  /\ Answered(c, "mfa")
  /\ \/ \E token \in {c.id, session.token} \ {None, Undefined}, r \in BOOLEAN :
          SignsIn(c, token, r, FALSE, [session EXCEPT !.token = token, !.authed = TRUE])
     \/ calls' = calls \ {c} /\ UNCHANGED <<session, stored, revived>>
  /\ UNCHANGED <<timer, deferred, unattended>>

Connection ==
  /\ online' = ~online
  /\ IF ~online /\ deferred
     THEN deferred' = FALSE /\ timer' = (timer \/ ~disposed)
     ELSE UNCHANGED <<timer, deferred>>
  /\ UNCHANGED <<session, stored, calls, refreshing, notice, disposed, made, revived, abandoned, unattended>>

Next ==
  \/ login \/ fetchUser \/ verifyMfa \/ refresh \/ logout \/ secureLogout \/ SecureLogoutAsks \/ dispose
  \/ OtherTabLogsOut \/ NoticeArrives \/ TimerFires \/ Connection
  \/ \E c \in calls : LoginAnswer(c) \/ UserAnswer(c) \/ RefreshAnswer(c) \/ MfaAnswer(c) \/ SecureLogoutEnds(c)

Spec == Init /\ [][Next]_vars

------------------------------------------------------------------------------
(* What is checked *)

\* Whoever is shown as signed in has a token, or the undefined one of a refresh whose
\* answer brought none (auth.ts:662-679), and what a reload would find is the same,
\* whatever answers of login, refresh, verifyMfa and fetchUser have crossed: unless a
\* logout was overtaken, or that of another tab is still to be heard of.
SessionIsWhole ==
  /\ session.authed /\ ~revived => HasToken \/ session.token = Undefined
  /\ session.token # None /\ ~notice /\ ~disposed => stored.token = session.token

\* One refresh at a time goes to the server, however many ask for it, unless secureLogout
\* has let go of one.
OneRefresh == abandoned \/ disposed \/ Cardinality({c \in calls : c.kind = "refresh"}) <= 1

\* While the session shows that it is loading, a request that will end it is under way.
LoadingIsBacked == session.loading /\ ~disposed => \E c \in calls : c.kind \in {"login", "me"}

\* A session that expires and can be refreshed has a refresh under way or coming, unless
\* the last one met an error that may pass: nobody tries again then.
RefreshIsComing ==
  session.expiry /\ session.refresh /\ ~disposed => timer \/ deferred \/ refreshing # 0 \/ unattended

\* What the session promises whatever crosses what: it is whole, it shows loading only
\* while it is, and it is refreshed by one request at a time, in time.
SessionIsSound == SessionIsWhole /\ OneRefresh /\ LoadingIsBacked /\ RefreshIsComing
=============================================================================
