---------------------------- MODULE SharedProofs -----------------------------
(***************************************************************************)
(* Proofs about what several share: the session of the clients of          *)
(* AuthClients (createOAuthClient, and the functional interface of         *)
(* packages/auth), the records that tabs share in StorageSync, the state   *)
(* and the stores of Store, and the server that renders in ServerRender.   *)
(***************************************************************************)
EXTENDS AuthClients, SequenceTheorems, FiniteSetTheorems, WellFoundedInduction, TLAPS

\* None is no login and no account.
ClientConstants == MaxCalls \in Nat /\ None \notin States /\ None \notin Accounts

-----------------------------------------------------------------------------
(* The OAuth client. *)

\* The states that were exchanged come from logins that returned, and are not pending.
StatesInv ==
  /\ login \in [States -> {"new", "asked", "stored", "returned", "failed"}]
  /\ exchanged \in [once : SUBSET States, again : SUBSET States]
  /\ StateIsSpentOnce
  /\ pending \cap exchanged.once = {}
  /\ \A s \in exchanged.once : login[s] = "returned"

LEMMA LoginKeepsStates ==
  ASSUME StatesInv, NEW s \in States, NEW to \in {"asked", "stored", "returned", "failed"},
         login[s] # "returned", login' = [login EXCEPT ![s] = to], exchanged' = exchanged,
         pending' \subseteq pending \cup {s}
  PROVE  StatesInv'
<1>1. s \notin exchanged.once
  BY DEF StatesInv
<1>2. \A q \in States : q # s => login'[q] = login[q]
  BY DEF StatesInv
<1>3. login' \in [States -> {"new", "asked", "stored", "returned", "failed"}]
  BY DEF StatesInv
<1>4. exchanged.once \subseteq States
  BY DEF StatesInv
<1> QED BY <1>1, <1>2, <1>3, <1>4 DEF StatesInv, StateIsSpentOnce

LEMMA StatesNext ==
  ASSUME StatesInv, [Next]_vars
  PROVE  StatesInv'
<1>1. ASSUME UNCHANGED <<login, exchanged>>, pending' \subseteq pending PROVE StatesInv'
  BY <1>1 DEF StatesInv, StateIsSpentOnce
<1>2. CASE refresh \/ logout \/ dispose \/ UNCHANGED vars
  BY <1>1, <1>2 DEF refresh, logout, dispose, vars
<1>3. ASSUME NEW s \in States, LoginBegins(s) \/ LoginStores(s) \/ LoginReturns(s) PROVE StatesInv'
  BY <1>3, LoginKeepsStates DEF LoginBegins, LoginStores, LoginReturns
<1>4. ASSUME NEW s \in States, handleCallback(s) PROVE StatesInv'
  <2>1. CASE UNCHANGED exchanged
    BY <1>1, <1>4, <2>1 DEF handleCallback
  <2>2. CASE Exchanges(s)
    <3>1. /\ exchanged' = [once |-> exchanged.once \cup {s},
                           again |-> exchanged.again \cup ({s} \cap exchanged.once)]
          /\ pending' = pending \ {s} /\ login' = login /\ login[s] = "returned" /\ s \in pending
      BY <1>4, <2>2 DEF handleCallback, Exchanges
    <3>2. /\ exchanged'.once = exchanged.once \cup {s}
          /\ exchanged'.again = exchanged.again \cup ({s} \cap exchanged.once)
      BY <3>1
    <3>3. s \notin exchanged.once
      BY <3>1 DEF StatesInv
    <3>4. exchanged' \in [once : SUBSET States, again : SUBSET States]
      BY <3>1 DEF StatesInv
    <3>5. StateIsSpentOnce'
      BY <3>2, <3>3 DEF StatesInv, StateIsSpentOnce
    <3> QED BY <3>1, <3>2, <3>4, <3>5 DEF StatesInv
  <2> QED BY <1>4, <2>1, <2>2 DEF handleCallback
<1>5. ASSUME NEW t \in timers, TimerFires(t) PROVE StatesInv'
  BY <1>1, <1>5 DEF TimerFires
<1>6. ASSUME NEW c \in calls,
             \/ ExchangeVerified(c) \/ ExchangeEnds(c)
             \/ RefreshVerifies(c) \/ RefreshEnds(c) \/ RefreshFails(c)
      PROVE  StatesInv'
  <2>1. UNCHANGED <<login, pending, exchanged>>
    BY <1>6, Zenon DEF ExchangeVerified, ExchangeEnds, RefreshVerifies, RefreshEnds, RefreshFails
  <2> QED BY <1>1, <2>1
<1> QED BY <1>2, <1>3, <1>4, <1>5, <1>6 DEF Next

\* The state of a login is exchanged at most once, however often the address comes back.
THEOREM StatesAreSpentOnce == Spec => []StateIsSpentOnce
<1>1. Init => StatesInv
  BY DEF Init, StatesInv, StateIsSpentOnce
<1>2. StatesInv /\ [Next]_vars => StatesInv'
  BY StatesNext
<1>3. StatesInv => StateIsSpentOnce
  BY DEF StatesInv
<1> QED BY <1>1, <1>2, <1>3, PTL DEF Spec

-----------------------------------------------------------------------------
(* The calls of the token endpoint, and the session they change. *)

\* The parts of the type that the proofs need.
ClientTypes ==
  /\ tokens \in Tokens /\ calls \subseteq Calls /\ made \in Nat
  /\ \A c \in calls : c.brings.line \in States

\* Only an exchange is verified, one at a time, and it shows its user and claims unless it
\* was overtaken.
VerifiedShows ==
  /\ \A c, d \in calls : c.phase = "verified" /\ d.phase = "verified" => c = d
  /\ \A c \in calls : c.phase = "verified" /\ ~c.overtaken /\ ~crossed =>
       user = c.brings.line /\ claims = c.brings.line

\* A refresh that nothing overtook began with the tokens there are.
RefreshesAreCurrent ==
  \A c \in calls : c.kind = "refresh" /\ ~c.overtaken => c.brings.line = tokens.line

VerifiedAreExchanges == \A c \in calls : c.phase = "verified" => c.kind = "exchange"

ClientInv ==
  /\ ClientTypes /\ VerifiedAreExchanges /\ VerifiedShows /\ RefreshesAreCurrent
  /\ SessionIsOne /\ RenewalIsComing

\* What every call keeps in the set of calls: the kind, and who began it.
LEMMA CallFacts ==
  ASSUME ClientTypes, NEW c \in calls
  PROVE  /\ c \in Calls /\ c.brings \in Tokens /\ c.brings.line \in States
         /\ c.kind \in {"exchange", "refresh"} /\ c.phase \in {"asking", "verifying", "verified"}
BY DEF ClientTypes, Calls

\* Calls that are overtaken stay the calls they are.
LEMMA OvertakenFacts ==
  ASSUME ClientTypes, NEW set \in SUBSET calls
  PROVE  /\ Overtaken(set) \subseteq Calls
         /\ \A d \in Overtaken(set) : /\ d.overtaken /\ d.brings.line \in States
                                      /\ \E c \in set : /\ d = [c EXCEPT !.overtaken = TRUE]
                                                        /\ d.kind = c.kind /\ d.phase = c.phase
                                                        /\ d.byTimer = c.byTimer
         /\ \A c \in set : \E d \in Overtaken(set) :
              d.kind = c.kind /\ d.phase = c.phase /\ d.byTimer = c.byTimer
<1>1. ASSUME NEW c \in set
      PROVE  LET d == [c EXCEPT !.overtaken = TRUE]
             IN /\ d \in Calls /\ d.overtaken /\ d.brings.line \in States
                /\ d.kind = c.kind /\ d.phase = c.phase /\ d.byTimer = c.byTimer
  BY <1>1, CallFacts DEF Calls
<1> QED BY <1>1 DEF Overtaken

\* The calls at the end of a step, when no call is new: each was one of them, and is
\* overtaken if the tokens changed.
LEMMA FewerCalls ==
  ASSUME ClientInv, NEW set \in SUBSET calls,
         \/ calls' = set /\ UNCHANGED <<tokens, user, claims>>
         \/ calls' = Overtaken(set),
         tokens' \in Tokens, made' = made, crossed => crossed'
  PROVE  ClientTypes' /\ VerifiedAreExchanges' /\ VerifiedShows' /\ RefreshesAreCurrent'
<1>1. CASE calls' = set /\ UNCHANGED <<tokens, user, claims>>
  <2>1. UNCHANGED <<tokens, user, claims>>
    BY <1>1
  <2>2. ClientTypes' /\ VerifiedAreExchanges'
    BY <1>1, <2>1 DEF ClientInv, ClientTypes, VerifiedAreExchanges
  <2>3. VerifiedShows'
    BY <1>1, <2>1 DEF ClientInv, VerifiedShows
  <2>4. RefreshesAreCurrent'
    BY <1>1, <2>1 DEF ClientInv, RefreshesAreCurrent
  <2> QED BY <2>2, <2>3, <2>4
<1>2. CASE calls' = Overtaken(set)
  <2>1. /\ calls' \subseteq Calls
        /\ \A d \in calls' : /\ d.overtaken /\ d.brings.line \in States
                             /\ \E c \in set : /\ d = [c EXCEPT !.overtaken = TRUE]
                                               /\ d.kind = c.kind /\ d.phase = c.phase
    BY <1>2, OvertakenFacts DEF ClientInv
  <2>2. ClientTypes'
    BY <2>1 DEF ClientInv, ClientTypes
  <2>3. VerifiedAreExchanges' /\ RefreshesAreCurrent'
    BY <2>1 DEF ClientInv, VerifiedAreExchanges, RefreshesAreCurrent
  <2>4. ASSUME NEW d \in calls', NEW e \in calls', d.phase = "verified", e.phase = "verified"
        PROVE  d = e
    <3>1. PICK c \in set : d = [c EXCEPT !.overtaken = TRUE] /\ d.phase = c.phase
      BY <2>1
    <3>2. PICK b \in set : e = [b EXCEPT !.overtaken = TRUE] /\ e.phase = b.phase
      BY <2>1
    <3>3. c = b
      BY <2>4, <3>1, <3>2 DEF ClientInv, VerifiedShows
    <3> QED BY <3>1, <3>2, <3>3
  <2>5. VerifiedShows'
    BY <2>1, <2>4 DEF VerifiedShows
  <2> QED BY <2>2, <2>3, <2>5
<1> QED BY <1>1, <1>2

\* A timer stays armed, or what it started is under way.
LEMMA RenewalStays ==
  ASSUME ClientInv, tokens'.expires => tokens.expires, timers' = timers, gaveUp => gaveUp',
         \A c \in calls : c.kind = "refresh" /\ c.byTimer =>
           \E d \in calls' : d.kind = "refresh" /\ d.byTimer
  PROVE  RenewalIsComing'
BY DEF ClientInv, RenewalIsComing

LEMMA AsksKeeps ==
  ASSUME ClientInv, NEW kind \in {"exchange", "refresh"}, NEW brings \in Tokens, NEW byTimer \in BOOLEAN,
         Asks(kind, brings, byTimer), ClientConstants,
         brings.line \in States, kind = "refresh" => brings.line = tokens.line,
         UNCHANGED <<tokens, user, claims, crossed>>,
         status' = status \/ status' = "error"
  PROVE  /\ ClientTypes' /\ VerifiedAreExchanges' /\ VerifiedShows' /\ RefreshesAreCurrent' /\ SessionIsOne'
         /\ calls \subseteq calls'
         /\ byTimer /\ kind = "refresh" => \E c \in calls' : c.kind = "refresh" /\ c.byTimer
<1> DEFINE new == [id |-> made + 1, kind |-> kind, phase |-> "asking", brings |-> brings,
                   byTimer |-> byTimer, overtaken |-> FALSE]
<1>1. calls' = calls \cup {new} /\ made + 1 \in 1..MaxCalls /\ made' \in Nat
  BY DEF Asks, ClientConstants, ClientInv, ClientTypes
<1>2. /\ new \in Calls /\ new.kind = kind /\ new.phase = "asking" /\ new.brings = brings
      /\ new.byTimer = byTimer /\ ~new.overtaken
  BY <1>1 DEF Calls
<1> HIDE DEF new
<1>3. ClientTypes' /\ VerifiedAreExchanges'
  BY <1>1, <1>2 DEF ClientInv, ClientTypes, VerifiedAreExchanges
<1>4. VerifiedShows'
  BY <1>1, <1>2 DEF ClientInv, VerifiedShows
<1>5. RefreshesAreCurrent'
  BY <1>1, <1>2 DEF ClientInv, RefreshesAreCurrent
<1>6. SessionIsOne'
  BY <1>1, <1>2 DEF ClientInv, SessionIsOne
<1> QED BY <1>1, <1>2, <1>3, <1>4, <1>5, <1>6

\* A step that leaves the session and the calls as they are.
LEMMA QuietKeeps ==
  ASSUME ClientInv, UNCHANGED <<tokens, user, claims, timers, crossed, gaveUp, calls, made>>,
         status' = status \/ status' # "idle"
  PROVE  ClientInv'
<1>1. ClientTypes' /\ VerifiedAreExchanges' /\ VerifiedShows' /\ RefreshesAreCurrent'
  BY DEF ClientInv, ClientTypes, VerifiedAreExchanges, VerifiedShows, RefreshesAreCurrent
<1>2. SessionIsOne' /\ RenewalIsComing'
  BY DEF ClientInv, SessionIsOne, RenewalIsComing
<1> QED BY <1>1, <1>2 DEF ClientInv

\* A call ends and changes nothing but the status.
LEMMA FailureKeeps ==
  ASSUME ClientInv, NEW c \in calls, c.phase # "verified", calls' = calls \ {c},
         UNCHANGED <<tokens, user, claims, timers, crossed, made>>,
         \/ status' = status /\ gaveUp' = gaveUp /\ ~(c.kind = "refresh" /\ c.byTimer)
         \/ status' = "error" /\ gaveUp' = TRUE
  PROVE  ClientInv'
<1>1. ClientTypes' /\ VerifiedAreExchanges' /\ VerifiedShows' /\ RefreshesAreCurrent'
  <2> DEFINE set == calls \ {c}
  <2>1. set \in SUBSET calls /\ calls' = set /\ UNCHANGED <<tokens, user, claims>> /\ tokens' \in Tokens
    BY DEF ClientInv, ClientTypes
  <2> HIDE DEF set
  <2> QED BY <2>1, FewerCalls
<1>2. SessionIsOne'
  BY DEF ClientInv, SessionIsOne
<1>3. RenewalIsComing'
  BY DEF ClientInv, RenewalIsComing
<1> QED BY <1>1, <1>2, <1>3 DEF ClientInv

\* The tokens that an answer brought are taken, and with them the user and the claims: those
\* it verified or those there were.
LEMMA TakesKeeps ==
  ASSUME ClientInv, NEW c \in calls, NEW t \in Tokens, Takes(c, t), made' = made,
         ~(crossed \/ c.overtaken) /\ (\A d \in calls \ {c} : d.phase # "verified") =>
           t.line = user' /\ claims' = user' /\ status' # "idle"
  PROVE  ClientInv'
<1> DEFINE set == calls \ {c}
<1>1. /\ tokens' = t /\ set \in SUBSET calls /\ calls' = Overtaken(set)
      /\ crossed' = (crossed \/ c.overtaken)
  BY DEF Takes
<1>2. set = calls \ {c}
  OBVIOUS
<1> HIDE DEF set
<1>4. ClientTypes' /\ VerifiedAreExchanges' /\ VerifiedShows' /\ RefreshesAreCurrent'
  BY <1>1, FewerCalls
<1>5. SessionIsOne'
  <2> SUFFICES ASSUME ~crossed', \A d \in calls' : d.phase # "verified"
               PROVE  tokens'.line = user' /\ claims' = user' /\ status' # "idle"
    BY DEF SessionIsOne
  <2>1. \A d \in set : d.phase # "verified"
    BY <1>1, OvertakenFacts DEF ClientInv
  <2> QED BY <1>1, <1>2, <2>1
<1>6. RenewalIsComing'
  <2>1. CASE ~t.expires
    BY <1>1, <2>1 DEF RenewalIsComing
  <2>2. CASE t.expires
    BY <2>2 DEF Takes, scheduleRenew, RenewalIsComing
  <2> QED BY <2>1, <2>2
<1> QED BY <1>4, <1>5, <1>6 DEF ClientInv

LEMMA SignOutKeeps ==
  ASSUME ClientInv, SignedOut, UNCHANGED <<made, crossed, gaveUp>>
  PROVE  ClientInv'
<1>1. /\ tokens' = NoTokens /\ user' = None /\ claims' = None /\ calls' = Overtaken(calls)
      /\ NoTokens \in Tokens /\ NoTokens.line = None /\ ~NoTokens.expires
  BY DEF SignedOut, NoTokens, Tokens
<1>2. ClientTypes' /\ VerifiedAreExchanges' /\ VerifiedShows' /\ RefreshesAreCurrent'
  <2> DEFINE set == calls
  <2>1. set \in SUBSET calls /\ calls' = Overtaken(set) /\ tokens' \in Tokens
    BY <1>1
  <2> HIDE DEF set
  <2> QED BY <2>1, FewerCalls
<1>3. SessionIsOne'
  BY <1>1 DEF SessionIsOne
<1>4. RenewalIsComing'
  BY <1>1 DEF RenewalIsComing
<1> QED BY <1>2, <1>3, <1>4 DEF ClientInv

\* A new call, of the application or of a timer.
LEMMA NewCallKeeps ==
  ASSUME ClientInv, ClientConstants, NEW kind \in {"exchange", "refresh"}, NEW brings \in Tokens,
         NEW byTimer \in BOOLEAN, Asks(kind, brings, byTimer),
         brings.line \in States, kind = "refresh" => brings.line = tokens.line,
         UNCHANGED <<tokens, user, claims, status, crossed, gaveUp>>,
         timers' = timers \/ (byTimer /\ kind = "refresh")
  PROVE  ClientInv'
<1>1. /\ ClientTypes' /\ VerifiedAreExchanges' /\ VerifiedShows' /\ RefreshesAreCurrent' /\ SessionIsOne'
      /\ calls \subseteq calls'
      /\ byTimer /\ kind = "refresh" => \E c \in calls' : c.kind = "refresh" /\ c.byTimer
  BY AsksKeeps
<1>2. RenewalIsComing'
  BY <1>1 DEF ClientInv, RenewalIsComing
<1> QED BY <1>1, <1>2 DEF ClientInv

LEMMA TimerKeeps ==
  ASSUME ClientInv, ClientConstants, NEW t \in timers, TimerFires(t)
  PROVE  ClientInv'
<1>1. CASE tokens.refresh
  <2>1. /\ Asks("refresh", tokens, TRUE)
        /\ UNCHANGED <<tokens, user, claims, status, crossed, gaveUp>>
    BY <1>1 DEF TimerFires
  <2>2. tokens \in Tokens /\ tokens.line \in States
    BY <1>1 DEF ClientInv, ClientTypes, Tokens, NoTokens
  <2> QED BY <2>1, <2>2, NewCallKeeps
<1>2. CASE ~tokens.refresh
  <2>1. /\ status' = "error" /\ gaveUp' = TRUE
        /\ UNCHANGED <<calls, made, tokens, user, claims, crossed>>
    BY <1>2 DEF TimerFires
  <2>2. ClientTypes' /\ VerifiedAreExchanges' /\ VerifiedShows' /\ RefreshesAreCurrent'
    BY <2>1 DEF ClientInv, ClientTypes, VerifiedAreExchanges, VerifiedShows, RefreshesAreCurrent
  <2>3. SessionIsOne' /\ RenewalIsComing'
    BY <2>1 DEF ClientInv, SessionIsOne, RenewalIsComing
  <2> QED BY <2>2, <2>3 DEF ClientInv
<1> QED BY <1>1, <1>2

\* A call goes on to its next phase; one that is verified shows what it brought.
LEMMA PhaseKeeps ==
  ASSUME ClientInv, NEW c \in calls, NEW d \in Calls, calls' = (calls \ {c}) \cup {d},
         d.kind = c.kind, d.byTimer = c.byTimer, d.overtaken = c.overtaken,
         d.brings.line = c.brings.line, c.phase # "verified",
         d.phase = "verified" => /\ c.kind = "exchange" /\ \A e \in calls : e.phase # "verified"
                                 /\ user' = c.brings.line /\ claims' = c.brings.line
                                 /\ crossed' = (crossed \/ c.overtaken),
         d.phase # "verified" => UNCHANGED <<user, claims, crossed>>,
         UNCHANGED <<tokens, timers, gaveUp, status, made>>
  PROVE  ClientInv'
<1>1. \A e \in calls' : e = d \/ (e \in calls /\ e # c)
  OBVIOUS
<1>2. d \in calls' /\ \A e \in calls : e # c => e \in calls'
  OBVIOUS
<1>3. ClientTypes' /\ VerifiedAreExchanges'
  BY <1>1 DEF ClientInv, ClientTypes, VerifiedAreExchanges
<1>4. RefreshesAreCurrent'
  BY <1>1 DEF ClientInv, RefreshesAreCurrent
<1>5. VerifiedShows'
  <2>1. CASE d.phase = "verified"
    <3>1. \A e \in calls' : e.phase = "verified" => e = d
      BY <1>1, <2>1
    <3> QED BY <2>1, <3>1 DEF VerifiedShows
  <2>2. CASE d.phase # "verified"
    BY <1>1, <2>2 DEF ClientInv, VerifiedShows
  <2> QED BY <2>1, <2>2
<1>6. SessionIsOne'
  BY <1>1, <1>2 DEF ClientInv, SessionIsOne
<1>7. RenewalIsComing'
  BY <1>1, <1>2 DEF ClientInv, RenewalIsComing
<1> QED BY <1>3, <1>4, <1>5, <1>6, <1>7 DEF ClientInv

LEMMA ExchangeEndsKeeps ==
  ASSUME ClientInv, NEW c \in calls, ExchangeEnds(c)
  PROVE  ClientInv'
<1>1. /\ c.phase = "verified" /\ Takes(c, c.brings) /\ status' = "authenticated"
      /\ UNCHANGED <<user, claims, made>> /\ c.brings \in Tokens
  BY CallFacts DEF ExchangeEnds, ClientInv
<1>2. ~(crossed \/ c.overtaken) => user = c.brings.line /\ claims = c.brings.line
  BY <1>1 DEF ClientInv, VerifiedShows
<1> QED BY <1>1, <1>2, TakesKeeps

LEMMA RefreshEndsKeeps ==
  ASSUME ClientInv, ClientConstants, NEW c \in calls, RefreshEnds(c)
  PROVE  ClientInv'
<1>1. PICK x \in BOOLEAN : Takes(c, [c.brings EXCEPT !.expires = x \/ c.brings.expires])
  BY DEF RefreshEnds
<1> DEFINE t == [c.brings EXCEPT !.expires = x \/ c.brings.expires]
<1>2. /\ c.kind = "refresh" /\ UNCHANGED <<user, status, made>>
      /\ claims' = (IF c.phase = "verifying" THEN c.brings.line ELSE claims)
  BY DEF RefreshEnds
<1>3. c.brings \in Tokens /\ c.brings.line \in States /\ c.phase # "verified"
  BY <1>2, CallFacts DEF ClientInv, VerifiedAreExchanges
<1>4. c.brings \in [line : States, refresh : BOOLEAN, expires : BOOLEAN]
  BY <1>3 DEF Tokens, NoTokens, ClientConstants
<1>5. t \in Tokens /\ t.line = c.brings.line
  BY <1>4 DEF Tokens
<1>6. Takes(c, t)
  BY <1>1
<1> HIDE DEF t
<1>7. ASSUME ~(crossed \/ c.overtaken), \A d \in calls \ {c} : d.phase # "verified"
      PROVE  t.line = user' /\ claims' = user' /\ status' # "idle"
  <2>1. tokens.line = user /\ claims = user /\ (status = "idle" => tokens = NoTokens)
    BY <1>3, <1>7 DEF ClientInv, SessionIsOne
  <2>2. c.brings.line = tokens.line
    BY <1>2, <1>7 DEF ClientInv, RefreshesAreCurrent
  <2>3. status # "idle"
    BY <1>3, <2>1, <2>2 DEF NoTokens, ClientConstants
  <2> QED BY <1>2, <1>5, <2>1, <2>2, <2>3
<1> QED BY <1>2, <1>5, <1>6, <1>7, TakesKeeps

LEMMA ClientNext ==
  ASSUME ClientInv, ClientConstants, [Next]_vars
  PROVE  ClientInv'
<1>1. CASE refresh
  <2>1. /\ Asks("refresh", tokens, FALSE) /\ tokens.refresh
        /\ UNCHANGED <<tokens, user, claims, timers, status, crossed, gaveUp>>
    BY <1>1 DEF refresh, Session
  <2>2. tokens \in Tokens /\ tokens.line \in States
    BY <2>1 DEF ClientInv, ClientTypes, Tokens, NoTokens
  <2> QED BY <2>1, <2>2, NewCallKeeps
<1>2. CASE logout \/ dispose
  BY <1>2, SignOutKeeps DEF logout, dispose
<1>3. ASSUME NEW s \in States, LoginBegins(s) \/ LoginStores(s) \/ LoginReturns(s) PROVE ClientInv'
  BY <1>3, QuietKeeps DEF LoginBegins, LoginStores, LoginReturns, Session
<1>4. ASSUME NEW s \in States, handleCallback(s) PROVE ClientInv'
  <2>1. UNCHANGED <<tokens, user, claims, timers, status, crossed, gaveUp>>
    BY <1>4 DEF handleCallback, Session
  <2>2. CASE UNCHANGED <<exchanged, calls, made>>
    BY <2>1, <2>2, QuietKeeps
  <2>3. CASE Exchanges(s)
    <3> DEFINE brings == [line |-> s, refresh |-> FALSE, expires |-> FALSE]
    <3>1. Asks("exchange", brings, FALSE) /\ brings \in Tokens /\ brings.line \in States
      BY <2>3 DEF Exchanges, Tokens
    <3> HIDE DEF brings
    <3> QED BY <2>1, <3>1, NewCallKeeps
  <2> QED BY <1>4, <2>2, <2>3 DEF handleCallback
<1>5. ASSUME NEW t \in timers, TimerFires(t) PROVE ClientInv'
  BY <1>5, TimerKeeps
<1>6. ASSUME NEW c \in calls, ExchangeVerified(c) PROVE ClientInv'
  <2>1. /\ c.kind = "exchange" /\ c.phase = "asking" /\ \A d \in calls : d.phase # "verified"
        /\ made' = made
    BY <1>6 DEF ExchangeVerified
  <2>2. CASE Fails(c)
    BY <2>1, <2>2, FailureKeeps DEF Fails, Session
  <2>3. CASE \E r, x \in BOOLEAN :
          /\ calls' = (calls \ {c}) \cup
               {Verified(c, [line |-> c.brings.line, refresh |-> r, expires |-> x])}
          /\ user' = c.brings.line /\ claims' = c.brings.line /\ crossed' = (crossed \/ c.overtaken)
          /\ UNCHANGED <<tokens, timers, renewTimer, gaveUp, status>>
    <3>1. PICK r \in BOOLEAN, x \in BOOLEAN :
            calls' = (calls \ {c}) \cup
              {Verified(c, [line |-> c.brings.line, refresh |-> r, expires |-> x])}
      BY <2>3
    <3> DEFINE d == Verified(c, [line |-> c.brings.line, refresh |-> r, expires |-> x])
    <3>2. c \in Calls /\ c.brings.line \in States
      BY CallFacts DEF ClientInv
    <3>3. /\ d \in Calls /\ d.kind = c.kind /\ d.byTimer = c.byTimer /\ d.overtaken = c.overtaken
          /\ d.brings.line = c.brings.line /\ d.phase = "verified"
      BY <3>2 DEF Calls, Tokens, Verified
    <3>4. calls' = (calls \ {c}) \cup {d}
      BY <3>1
    <3> HIDE DEF d
    <3> QED BY <2>1, <2>3, <3>3, <3>4, PhaseKeeps
  <2> QED BY <1>6, <2>2, <2>3 DEF ExchangeVerified
<1>7. ASSUME NEW c \in calls, ExchangeEnds(c) PROVE ClientInv'
  BY <1>7, ExchangeEndsKeeps
<1>8. ASSUME NEW c \in calls, RefreshVerifies(c) PROVE ClientInv'
  <2> DEFINE d == [c EXCEPT !.phase = "verifying"]
  <2>1. c.phase = "asking" /\ calls' = (calls \ {c}) \cup {d}
        /\ UNCHANGED <<tokens, user, claims, timers, status, crossed, gaveUp, made>>
    BY <1>8 DEF RefreshVerifies, Session
  <2>2. c \in Calls
    BY CallFacts DEF ClientInv
  <2>3. /\ d \in Calls /\ d.kind = c.kind /\ d.byTimer = c.byTimer /\ d.overtaken = c.overtaken
        /\ d.brings.line = c.brings.line /\ d.phase # "verified"
    BY <2>2 DEF Calls
  <2> HIDE DEF d
  <2> QED BY <2>1, <2>3, PhaseKeeps
<1>9. ASSUME NEW c \in calls, RefreshEnds(c) PROVE ClientInv'
  BY <1>9, RefreshEndsKeeps
<1>10. ASSUME NEW c \in calls, RefreshFails(c) PROVE ClientInv'
  <2>1. c.kind = "refresh" /\ made' = made /\ c.phase # "verified"
    BY <1>10 DEF RefreshFails, ClientInv, VerifiedAreExchanges
  <2>2. CASE ~c.byTimer
    BY <1>10, <2>1, <2>2, FailureKeeps DEF RefreshFails, Fails, Session
  <2>3. CASE c.byTimer
    BY <1>10, <2>1, <2>3, FailureKeeps DEF RefreshFails
  <2> QED BY <2>2, <2>3
<1>11. CASE UNCHANGED vars
  BY <1>11, QuietKeeps DEF vars
<1> QED BY <1>1, <1>2, <1>3, <1>4, <1>5, <1>6, <1>7, <1>8, <1>9, <1>10, <1>11 DEF Next

LEMMA ClientAlways ==
  ASSUME ClientConstants
  PROVE  Spec => []ClientInv
<1>1. Init => ClientInv
  <2> SUFFICES ASSUME Init PROVE ClientInv
    OBVIOUS
  <2>1. calls = {} /\ tokens = NoTokens /\ user = None /\ claims = None /\ made = 0
    BY DEF Init
  <2>2. ClientTypes /\ VerifiedAreExchanges /\ VerifiedShows /\ RefreshesAreCurrent
    BY <2>1 DEF ClientTypes, Tokens, VerifiedAreExchanges, VerifiedShows, RefreshesAreCurrent
  <2>3. SessionIsOne /\ RenewalIsComing
    BY <2>1 DEF SessionIsOne, RenewalIsComing, NoTokens
  <2> QED BY <2>2, <2>3 DEF ClientInv
<1>2. ClientInv /\ [Next]_vars => ClientInv'
  BY ClientNext
<1> QED BY <1>1, <1>2, PTL DEF Spec

\* The tokens, the user and the claims are of one sign-in, unless an answer was taken that a
\* logout or another answer had overtaken.
THEOREM SessionStaysOne ==
  ASSUME ClientConstants
  PROVE  Spec => []SessionIsOne
<1>1. ClientInv => SessionIsOne
  BY DEF ClientInv
<1> QED BY <1>1, ClientAlways, PTL

\* Tokens that expire will be renewed, or the renewal has failed.
THEOREM RenewalsContinue ==
  ASSUME ClientConstants
  PROVE  Spec => []RenewalIsComing
<1>1. ClientInv => RenewalIsComing
  BY DEF ClientInv
<1> QED BY <1>1, ClientAlways, PTL

-----------------------------------------------------------------------------
(* The functional interface. *)

\* The parts of the type that the proofs need: a call is of an account.
FunctionalTypes ==
  /\ {account, accountTokens, stored} \subseteq Who
  /\ requests \subseteq [id : Nat, kind : Kinds, of : Accounts, late : BOOLEAN]
  /\ sent \in Nat

Newcomers == {"login", "remember", "register"}

\* As long as nothing is mixed up: the user is of the tokens, before initAuth both are there
\* or none is, and the calls that go on from the tokens are of those there are, unless late.
NothingMixed ==
  ~mixed =>
    /\ account # None => account = accountTokens
    /\ ~initialized => (account = None) = (accountTokens = None)
    /\ \A c \in requests : ~c.late /\ c.kind \notin Newcomers => c.of = accountTokens

FunctionalInv ==
  /\ FunctionalTypes /\ NothingMixed /\ SignedOutIsForgotten /\ LoadingIsBacked

\* A new call is of the tokens there are, or signs somebody in.
LEMMA FunctionalAsksKeeps ==
  ASSUME FunctionalInv, ClientConstants, NEW kind \in Kinds, NEW of \in Accounts, FunctionalAsks(kind, of),
         kind \notin Newcomers => of = accountTokens',
         UNCHANGED <<account, stored>>,
         \/ UNCHANGED <<accountTokens, initialized, mixed>>
         \/ /\ ~initialized /\ initialized' = TRUE /\ stored = of
            /\ accountTokens' = of /\ mixed' = (mixed \/ account # None),
         \/ loading' = loading
         \/ loading' = TRUE /\ kind \in Newcomers \cup {"logout"}
  PROVE  FunctionalInv'
<1> DEFINE new == [id |-> sent + 1, kind |-> kind, of |-> of, late |-> FALSE]
<1>1. requests' = requests \cup {new} /\ sent' = sent + 1 /\ halfCleared' = halfCleared
  BY DEF FunctionalAsks
<1>2. /\ new \in [id : Nat, kind : Kinds, of : Accounts, late : BOOLEAN]
      /\ new.kind = kind /\ new.of = of
  BY DEF FunctionalInv, FunctionalTypes
<1> HIDE DEF new
<1>3. of # None /\ \A c \in requests : c.of # None
  BY DEF ClientConstants, FunctionalInv, FunctionalTypes
<1>4. FunctionalTypes'
  BY <1>1, <1>2 DEF FunctionalInv, FunctionalTypes, Who
<1>5. NothingMixed'
  <2>1. CASE UNCHANGED <<accountTokens, initialized, mixed>>
    BY <1>1, <1>2, <2>1 DEF FunctionalInv, NothingMixed
  <2>2. CASE /\ ~initialized /\ initialized' = TRUE /\ stored = of
             /\ accountTokens' = of /\ mixed' = (mixed \/ account # None)
    <3> SUFFICES ASSUME ~mixed' PROVE NothingMixed'
      BY DEF NothingMixed
    <3>1. ~mixed /\ account = None /\ accountTokens = None
      BY <2>2 DEF FunctionalInv, FunctionalTypes, NothingMixed
    <3>2. \A c \in requests : c.late \/ c.kind \in Newcomers
      BY <1>3, <3>1 DEF FunctionalInv, NothingMixed
    <3> QED BY <1>1, <1>2, <2>2, <3>1, <3>2 DEF NothingMixed
  <2> QED BY <2>1, <2>2
<1>6. SignedOutIsForgotten'
  BY <1>1, <1>3 DEF FunctionalInv, SignedOutIsForgotten
<1>7. LoadingIsBacked'
  <2>1. \A c \in requests : c \in requests'
    BY <1>1
  <2>2. CASE loading' = loading
    BY <2>1, <2>2 DEF FunctionalInv, LoadingIsBacked
  <2>3. CASE loading' = TRUE /\ kind \in Newcomers \cup {"logout"}
    BY <1>1, <1>2, <2>3 DEF LoadingIsBacked, Newcomers
  <2> QED BY <2>2, <2>3
<1> QED BY <1>4, <1>5, <1>6, <1>7 DEF FunctionalInv

\* The calls after one has ended: those there were, and late if who is signed in changed.
LEMMA EndsFacts ==
  ASSUME FunctionalInv, NEW rest \in SUBSET requests, NEW changes \in BOOLEAN,
         requests' = {[d EXCEPT !.late = @ \/ changes] : d \in rest}
  PROVE  /\ requests' \subseteq [id : Nat, kind : Kinds, of : Accounts, late : BOOLEAN]
         /\ changes => \A e \in requests' : e.late
         /\ \A e \in requests' : \E d \in requests : e.kind = d.kind /\ e.of = d.of /\ (d.late => e.late)
         /\ \A d \in rest : \E e \in requests' : e.kind = d.kind
<1>1. ASSUME NEW d \in rest
      PROVE  LET e == [d EXCEPT !.late = @ \/ changes]
             IN /\ e \in [id : Nat, kind : Kinds, of : Accounts, late : BOOLEAN]
                /\ e.kind = d.kind /\ e.of = d.of /\ e.late = (d.late \/ changes)
  BY <1>1 DEF FunctionalInv, FunctionalTypes
<1>2. \A e \in requests' : \E d \in rest :
        /\ e \in [id : Nat, kind : Kinds, of : Accounts, late : BOOLEAN]
        /\ e.kind = d.kind /\ e.of = d.of /\ e.late = (d.late \/ changes)
  BY <1>1
<1>3. ASSUME NEW d \in rest PROVE \E e \in requests' : e.kind = d.kind
  <2>1. [d EXCEPT !.late = @ \/ changes] \in requests'
    OBVIOUS
  <2>2. [d EXCEPT !.late = @ \/ changes].kind = d.kind
    BY <1>1
  <2> QED BY <2>1, <2>2
<1>4. ASSUME changes, NEW e \in requests' PROVE e.late
  BY <1>2, <1>4
<1>5. ASSUME NEW e \in requests'
      PROVE  \E d \in requests : e.kind = d.kind /\ e.of = d.of /\ (d.late => e.late)
  BY <1>2, <1>5
<1>6. requests' \subseteq [id : Nat, kind : Kinds, of : Accounts, late : BOOLEAN]
  BY <1>2
<1> QED BY <1>3, <1>4, <1>5, <1>6

\* Somebody signs in or out: every other call is late from then on.
LEMMA SessionChangeKeeps ==
  ASSUME FunctionalInv, ClientConstants, NEW rest \in SUBSET requests,
         requests' = {[d EXCEPT !.late = @ \/ TRUE] : d \in rest},
         UNCHANGED <<initialized, sent>>, mixed' = FALSE,
         account' = accountTokens', {accountTokens', stored'} \subseteq Who,
         accountTokens' # None \/ stored' = None \/ halfCleared',
         \/ loading' = FALSE
         \/ loading' = loading /\ \A d \in requests \ rest : d.kind \notin Newcomers \cup {"logout"}
  PROVE  FunctionalInv'
<1> DEFINE changes == TRUE
<1>1. requests' = {[d EXCEPT !.late = @ \/ changes] : d \in rest} /\ changes \in BOOLEAN /\ changes
  OBVIOUS
<1> HIDE DEF changes
<1>2. /\ requests' \subseteq [id : Nat, kind : Kinds, of : Accounts, late : BOOLEAN]
      /\ \A e \in requests' : e.late
      /\ \A d \in rest : \E e \in requests' : e.kind = d.kind
  BY <1>1, EndsFacts
<1>3. FunctionalTypes' /\ NothingMixed'
  BY <1>2 DEF FunctionalInv, FunctionalTypes, NothingMixed
<1>4. SignedOutIsForgotten'
  BY DEF SignedOutIsForgotten
<1>5. LoadingIsBacked'
  <2> SUFFICES ASSUME loading' PROVE \E e \in requests' : e.kind \in Newcomers \cup {"logout"}
    BY DEF LoadingIsBacked, Newcomers
  <2>1. PICK d \in requests : d.kind \in Newcomers \cup {"logout"}
    BY DEF FunctionalInv, LoadingIsBacked, Newcomers
  <2>2. d \in rest
    BY <2>1
  <2> QED BY <1>2, <2>1, <2>2
<1> QED BY <1>3, <1>4, <1>5 DEF FunctionalInv

\* A call ends and what it brought is taken, which mixes accounts up if it is not of the
\* tokens there are.
LEMMA AnswerKeeps ==
  ASSUME FunctionalInv, ClientConstants, NEW c \in requests, NEW changes \in BOOLEAN, Ends(c, changes),
         {account', accountTokens', stored'} \subseteq Who,
         ~mixed' => /\ ~mixed /\ accountTokens' = accountTokens
                    /\ account' = account \/ account' = accountTokens,
         \/ UNCHANGED <<accountTokens, stored, halfCleared>>
         \/ accountTokens' # None,
         \/ loading' = FALSE
         \/ loading' = loading /\ c.kind \notin Newcomers \cup {"logout"}
  PROVE  FunctionalInv'
<1> DEFINE rest == requests \ {c}
<1>1. /\ requests' = {[d EXCEPT !.late = @ \/ changes] : d \in rest} /\ rest \in SUBSET requests
      /\ UNCHANGED <<initialized, sent>>
  BY DEF Ends
<1>2. \A d \in requests : d # c => d \in rest
  OBVIOUS
<1> HIDE DEF rest
<1>3. /\ requests' \subseteq [id : Nat, kind : Kinds, of : Accounts, late : BOOLEAN]
      /\ \A e \in requests' : \E d \in requests : e.kind = d.kind /\ e.of = d.of /\ (d.late => e.late)
      /\ \A d \in rest : \E e \in requests' : e.kind = d.kind
  BY <1>1, EndsFacts
<1>4. FunctionalTypes'
  BY <1>1, <1>3 DEF FunctionalInv, FunctionalTypes
<1>5. NothingMixed'
  <2> SUFFICES ASSUME ~mixed' PROVE NothingMixed'
    BY DEF NothingMixed
  <2>1. /\ account # None => account = accountTokens
        /\ ~initialized => (account = None) = (accountTokens = None)
        /\ \A d \in requests : ~d.late /\ d.kind \notin Newcomers => d.of = accountTokens
    BY DEF FunctionalInv, NothingMixed
  <2>2. \A e \in requests' : ~e.late /\ e.kind \notin Newcomers => e.of = accountTokens
    BY <1>3, <2>1
  <2> QED BY <1>1, <2>1, <2>2 DEF NothingMixed
<1>6. SignedOutIsForgotten'
  BY <1>1 DEF FunctionalInv, SignedOutIsForgotten
<1>7. LoadingIsBacked'
  <2> SUFFICES ASSUME loading' PROVE \E e \in requests' : e.kind \in Newcomers \cup {"logout"}
    BY DEF LoadingIsBacked, Newcomers
  <2>1. PICK d \in requests : d.kind \in Newcomers \cup {"logout"}
    BY DEF FunctionalInv, LoadingIsBacked, Newcomers
  <2> QED BY <1>2, <1>3, <2>1
<1> QED BY <1>4, <1>5, <1>6, <1>7 DEF FunctionalInv

LEMMA CallTypes ==
  ASSUME FunctionalInv, ClientConstants, NEW c \in requests
  PROVE  c.of \in Accounts /\ c.of \in Who /\ c.of # None /\ c.late \in BOOLEAN
BY DEF FunctionalInv, FunctionalTypes, ClientConstants, Who

\* The session ends for everybody who is asking.
LEMMA SignOutEverybody ==
  ASSUME FunctionalInv, ClientConstants, functionalLogout
  PROVE  FunctionalInv'
<1> DEFINE rest == requests
<1>1. {[d EXCEPT !.late = TRUE] : d \in rest} = {[d EXCEPT !.late = @ \/ TRUE] : d \in rest}
  OBVIOUS
<1>2. requests' = {[d EXCEPT !.late = @ \/ TRUE] : d \in rest} /\ rest \in SUBSET requests
  BY <1>1 DEF functionalLogout
<1>3. /\ account' = None /\ accountTokens' = None /\ stored' = None /\ loading' = FALSE
      /\ mixed' = FALSE /\ halfCleared' = FALSE /\ UNCHANGED <<initialized, sent>> /\ None \in Who
  BY DEF functionalLogout, LoggedOut, clearFunctionalAuthState, Who
<1> HIDE DEF rest
<1> QED BY <1>2, <1>3, SessionChangeKeeps

\* The answers that begin or end a session.
LEMMA SessionAnswers ==
  ASSUME FunctionalInv, ClientConstants, NEW c \in requests,
         SignsIn(c) \/ logoutEnds(c) \/ FunctionalRefreshFails(c) \/ UserFails(c)
  PROVE  FunctionalInv'
<1> DEFINE rest == requests \ {c}
<1>1. /\ requests' = {[d EXCEPT !.late = @ \/ TRUE] : d \in rest}
      /\ rest \in SUBSET requests /\ UNCHANGED <<initialized, sent>> /\ mixed' = FALSE
  <2>1. Ends(c, TRUE) /\ mixed' = FALSE
    BY Zenon DEF SignsIn, logoutEnds, FunctionalRefreshFails, UserFails, LoggedOut
  <2> QED BY <2>1 DEF Ends
<1>2. \A d \in requests \ rest : d = c
  OBVIOUS
<1> HIDE DEF rest
<1>3. None \in Who /\ c.of \in Who /\ c.of # None /\ stored \in Who
  BY CallTypes DEF Who, FunctionalInv, FunctionalTypes
<1>4. CASE SignsIn(c)
  BY <1>1, <1>3, <1>4, SessionChangeKeeps DEF SignsIn
<1>5. CASE logoutEnds(c)
  BY <1>1, <1>3, <1>5, SessionChangeKeeps DEF logoutEnds, LoggedOut, clearFunctionalAuthState
<1>6. CASE FunctionalRefreshFails(c) \/ UserFails(c)
  <2>1. c.kind \in {"refresh", "timed", "me", "init"}
    BY <1>6, Zenon DEF FunctionalRefreshFails, UserFails
  <2>2. c.kind \notin Newcomers \cup {"logout"}
    BY <2>1 DEF Newcomers
  <2>3. clearFunctionalAuthState
    BY <1>6, Zenon DEF FunctionalRefreshFails, UserFails, LoggedOut
  <2>4. \/ stored' = None /\ loading' = FALSE
        \/ stored' = stored /\ halfCleared' = TRUE /\ loading' = loading
    BY <1>6, Zenon DEF FunctionalRefreshFails, UserFails, LoggedOut
  <2> QED BY <1>1, <1>2, <1>3, <2>2, <2>3, <2>4, SessionChangeKeeps DEF clearFunctionalAuthState
<1> QED BY <1>4, <1>5, <1>6

LEMMA FunctionalStep ==
  ASSUME FunctionalInv, ClientConstants, [FunctionalNext]_functionalVars
  PROVE  FunctionalInv'
<1>1. account \in Who /\ accountTokens \in Who /\ stored \in Who
  BY DEF FunctionalInv, FunctionalTypes
<1>2. accountTokens # None => accountTokens \in Accounts
  BY <1>1 DEF Who
<1>3. CASE initAuth
  <2>1. CASE stored = None
    <3>1. UNCHANGED <<account, accountTokens, stored, loading, requests, sent, mixed, halfCleared>>
          /\ initialized' = TRUE
      BY <1>3, <2>1 DEF initAuth
    <3> QED BY <2>1, <3>1 DEF FunctionalInv, FunctionalTypes, NothingMixed, SignedOutIsForgotten, LoadingIsBacked
  <2>2. CASE stored # None
    <3>1. /\ FunctionalAsks("init", stored) /\ ~initialized /\ initialized' = TRUE
          /\ accountTokens' = stored /\ mixed' = (mixed \/ account # None)
          /\ UNCHANGED <<account, stored, loading>> /\ stored \in Accounts /\ "init" \in Kinds
      BY <1>1, <1>3, <2>2 DEF initAuth, Who, Kinds
    <3> QED BY <3>1, FunctionalAsksKeeps
  <2> QED BY <2>1, <2>2
<1>4. CASE logoutAsks
  <2>1. /\ FunctionalAsks("logout", accountTokens) /\ accountTokens # None /\ loading' = TRUE
        /\ UNCHANGED <<account, accountTokens, stored, initialized, mixed>>
    BY <1>4 DEF logoutAsks
  <2>2. "logout" \in Kinds
    BY DEF Kinds
  <2> QED BY <1>2, <2>1, <2>2, FunctionalAsksKeeps
<1>5. CASE functionalLogout
  BY <1>5, SignOutEverybody
<1>6. CASE refreshToken \/ fetchCurrentUser
  <2>1. PICK kind \in {"refresh", "me"} : FunctionalAsks(kind, accountTokens)
    BY <1>6 DEF refreshToken, fetchCurrentUser
  <2>2. /\ accountTokens # None
        /\ UNCHANGED <<account, accountTokens, stored, loading, initialized, mixed>>
    BY <1>6 DEF refreshToken, fetchCurrentUser
  <2>3. kind \in Kinds
    BY DEF Kinds
  <2> QED BY <1>2, <2>1, <2>2, <2>3, FunctionalAsksKeeps
<1>7. CASE FunctionalTimerFires
  <2>1. CASE accountTokens = None
    BY <1>7, <2>1, SignOutEverybody DEF FunctionalTimerFires
  <2>2. CASE accountTokens # None
    <3>1. /\ FunctionalAsks("timed", accountTokens)
          /\ UNCHANGED <<account, accountTokens, stored, loading, initialized, mixed>>
      BY <1>7, <2>2 DEF FunctionalTimerFires
    <3>2. "timed" \in Kinds
      BY DEF Kinds
    <3> QED BY <1>2, <2>2, <3>1, <3>2, FunctionalAsksKeeps
  <2> QED BY <2>1, <2>2
<1>8. ASSUME NEW a \in Accounts, NEW kind \in {"login", "remember", "register"}, functionalLogin(a, kind)
      PROVE  FunctionalInv'
  <2>1. /\ FunctionalAsks(kind, a) /\ loading' = TRUE
        /\ UNCHANGED <<account, accountTokens, stored, initialized, mixed>>
    BY <1>8 DEF functionalLogin
  <2>2. kind \in Kinds /\ kind \in Newcomers
    BY DEF Kinds, Newcomers
  <2> QED BY <2>1, <2>2, FunctionalAsksKeeps
<1>9. ASSUME NEW c \in requests, SignsIn(c) \/ logoutEnds(c) \/ FunctionalRefreshFails(c) \/ UserFails(c)
      PROVE  FunctionalInv'
  BY <1>9, SessionAnswers
<1>10. ASSUME NEW c \in requests, SignInFails(c) PROVE FunctionalInv'
  <2>1. /\ Ends(c, FALSE) /\ FALSE \in BOOLEAN /\ loading' = FALSE
        /\ UNCHANGED <<account, accountTokens, stored, mixed, halfCleared>>
    BY <1>10 DEF SignInFails
  <2> QED BY <1>1, <2>1, AnswerKeeps
<1>11. ASSUME NEW c \in requests, Refreshed(c) PROVE FunctionalInv'
  <2> DEFINE changes == accountTokens # c.of
  <2>1. /\ Ends(c, changes) /\ changes \in BOOLEAN /\ c.kind \notin Newcomers \cup {"logout"}
        /\ accountTokens' = c.of /\ stored' = c.of /\ account' = account /\ loading' = loading
        /\ mixed' = (mixed \/ c.late)
    <3>1. /\ Ends(c, changes) /\ c.kind \in {"refresh", "timed"}
          /\ accountTokens' = c.of /\ stored' = c.of /\ account' = account /\ loading' = loading
          /\ mixed' = (mixed \/ c.late)
      BY <1>11 DEF Refreshed
    <3> QED BY <3>1 DEF Newcomers
  <2>2. ~mixed' => ~mixed /\ accountTokens' = accountTokens
    BY <2>1 DEF FunctionalInv, NothingMixed
  <2> HIDE DEF changes
  <2> QED BY <1>1, <2>1, <2>2, CallTypes, AnswerKeeps
<1>12. ASSUME NEW c \in requests, UserArrives(c) PROVE FunctionalInv'
  <2>1. /\ Ends(c, FALSE) /\ FALSE \in BOOLEAN /\ c.kind \notin Newcomers \cup {"logout"}
        /\ account' = c.of /\ mixed' = (mixed \/ c.late)
        /\ UNCHANGED <<accountTokens, stored, loading, halfCleared>>
    BY <1>12 DEF UserArrives, Newcomers
  <2>2. ~mixed' => ~mixed /\ account' = accountTokens
    BY <2>1 DEF FunctionalInv, NothingMixed
  <2> QED BY <1>1, <2>1, <2>2, CallTypes, AnswerKeeps
<1>13. CASE UNCHANGED functionalVars
  BY <1>13 DEF functionalVars, FunctionalInv, FunctionalTypes, NothingMixed, SignedOutIsForgotten, LoadingIsBacked
<1> QED BY <1>3, <1>4, <1>5, <1>6, <1>7, <1>8, <1>9, <1>10, <1>11, <1>12, <1>13 DEF FunctionalNext

LEMMA FunctionalAlways ==
  ASSUME ClientConstants
  PROVE  FunctionalSpec => []FunctionalInv
<1>1. FunctionalInit => FunctionalInv
  <2> SUFFICES ASSUME FunctionalInit PROVE FunctionalInv
    OBVIOUS
  <2>1. FunctionalTypes /\ NothingMixed
    BY DEF FunctionalInit, FunctionalTypes, NothingMixed, Who
  <2>2. SignedOutIsForgotten /\ LoadingIsBacked
    BY DEF FunctionalInit, SignedOutIsForgotten, LoadingIsBacked
  <2> QED BY <2>1, <2>2 DEF FunctionalInv
<1>2. FunctionalInv /\ [FunctionalNext]_functionalVars => FunctionalInv'
  BY FunctionalStep
<1> QED BY <1>1, <1>2, PTL DEF FunctionalSpec

\* The user and the tokens are of one account, unless the answer of a call that a sign-in or
\* a sign-out overtook was the last to arrive, or initAuth came after a sign-in.
THEOREM AccountsAreNotMixed ==
  ASSUME ClientConstants
  PROVE  FunctionalSpec => []OneAccount
<1>1. FunctionalInv => OneAccount
  BY DEF FunctionalInv, NothingMixed, OneAccount
<1> QED BY <1>1, FunctionalAlways, PTL

\* Nobody who signed out is signed in by the next visit, unless only the signals were cleared.
THEOREM SignOutsAreFinal ==
  ASSUME ClientConstants
  PROVE  FunctionalSpec => []SignedOutIsForgotten
<1>1. FunctionalInv => SignedOutIsForgotten
  BY DEF FunctionalInv
<1> QED BY <1>1, FunctionalAlways, PTL

\* The loading signal belongs to a call that will clear it.
THEOREM LoadingWillClear ==
  ASSUME ClientConstants
  PROVE  FunctionalSpec => []LoadingIsBacked
<1>1. FunctionalInv => LoadingIsBacked
  BY DEF FunctionalInv
<1> QED BY <1>1, FunctionalAlways, PTL
-----------------------------------------------------------------------------
(* What tabs, stores and requests share.  The variables objects, saved and *)
(* telling are made, stored and calls of Store.                            *)

CONSTANTS
  Tabs, Keys, Values, Capacity, MaxEvents,                                                   \* Storage
  Root, MaxObjects, MaxSets, MaxLayers, MaxChanges, Subscribers, MaxStores, MaxDepth,        \* Stores
  Requests, Streams, Workers, MaxPool, MaxPasses                                             \* Server

VARIABLES
  records, signal, inbox, torn,                                                              \* Storage
  field, objects, sets, visiting, proxied, held, kept, changes, twice,                       \* Stores, the state
  stores, current, saved, refused, telling, mutations,                                       \* Stores, of one name
  als, serving, failOnError, stack, work, result, aborted, pool, doms, job, files            \* Server

Storage == INSTANCE StorageSync

Stores == INSTANCE Store WITH made <- objects, stored <- saved, calls <- telling

Server == INSTANCE ServerRender

\* Induction over the numbers up to m, with a set for the statement.
LEMMA CountUp ==
  ASSUME NEW m \in Nat, NEW P, 0 \in P, \A n \in Nat : n < m /\ n \in P => n + 1 \in P
  PROVE  \A n \in 0..m : n \in P
<1> DEFINE Bad == {n \in 0..m : n \notin P}
           less == {ss \in Nat \X Nat : ss[1] < ss[2]}
<1>1. SUFFICES ASSUME Bad # {} PROVE FALSE
  OBVIOUS
<1>2. IsWellFoundedOn(less, Nat)
  BY NatLessThanWellFounded, Zenon DEF OpToRel
<1>3. Bad \in SUBSET Nat
  OBVIOUS
<1> HIDE DEF less, Bad
<1>4. PICK n \in Bad : \A k \in Bad : ~(<<k, n>> \in less)
  BY <1>1, <1>2, <1>3, WFMin
<1>5. n \in 0..m /\ n \notin P
  BY <1>4 DEF Bad
<1>6. n # 0 /\ n - 1 \in Nat /\ n - 1 < m /\ n - 1 \in 0..m
  BY <1>5
<1>7. n - 1 \in Bad
  BY <1>5, <1>6 DEF Bad
<1>8. <<n - 1, n>> \in less
  BY <1>5, <1>6 DEF less
<1> QED BY <1>4, <1>7, <1>8

\* What is left of a sequence without one of its elements.
LEMMA RemovalFacts ==
  ASSUME NEW S, NEW s \in Seq(S), NEW i \in 1..Len(s)
  PROVE  /\ Storage!RemoveAt(s, i) \in Seq(S) /\ Len(Storage!RemoveAt(s, i)) = Len(s) - 1
         /\ \A k \in 1..(Len(s) - 1) : Storage!RemoveAt(s, i)[k] = IF k < i THEN s[k] ELSE s[k + 1]
<1> DEFINE a == SubSeq(s, 1, i - 1)
           b == SubSeq(s, i + 1, Len(s))
<1>1. a \in Seq(S) /\ Len(a) = i - 1 /\ \A k \in 1..(i - 1) : a[k] = s[k]
  OBVIOUS
<1>2. b \in Seq(S) /\ Len(b) = Len(s) - i /\ \A k \in 1..(Len(s) - i) : b[k] = s[k + i]
  OBVIOUS
<1>3. Storage!RemoveAt(s, i) = a \o b
  BY DEF Storage!RemoveAt
<1> HIDE DEF a, b
<1>4. /\ a \o b \in Seq(S) /\ Len(a \o b) = Len(a) + Len(b)
      /\ \A k \in 1..(Len(a) + Len(b)) : (a \o b)[k] = IF k <= Len(a) THEN a[k] ELSE b[k - Len(a)]
  BY <1>1, <1>2, ConcatProperties, Zenon
<1>5. ASSUME NEW k \in 1..(Len(s) - 1)
      PROVE  (a \o b)[k] = IF k < i THEN s[k] ELSE s[k + 1]
  <2>1. (a \o b)[k] = IF k <= i - 1 THEN a[k] ELSE b[k - (i - 1)]
    BY <1>1, <1>2, <1>4
  <2>2. CASE k < i
    BY <1>1, <2>1, <2>2
  <2>3. CASE k >= i
    <3>1. k - (i - 1) \in 1..(Len(s) - i) /\ (k - (i - 1)) + i = k + 1
      BY <2>3
    <3> QED BY <1>2, <2>1, <2>3, <3>1
  <2>4. k < i \/ k >= i
    OBVIOUS
  <2> QED BY <2>2, <2>3, <2>4
<1> QED BY <1>1, <1>2, <1>3, <1>4, <1>5
-----------------------------------------------------------------------------
(* The storage that tabs share. *)

StorageConstants == Values \subseteq Nat /\ Capacity \in Nat /\ None \notin Values

Records == [key : Keys, value : Values, live : BOOLEAN]

LEMMA ValueIsNat ==
  ASSUME StorageConstants, NEW rs \in Seq(Records), NEW n \in 1..Len(rs)
  PROVE  rs[n].value \in Nat
<1>1. rs[n] \in Records
  OBVIOUS
<1>2. rs[n].value \in Values
  BY <1>1 DEF Records
<1> QED BY <1>2 DEF StorageConstants

\* The room the first n records take, from that of those before.
UpTo(f, rs, n) == IF n = 0 THEN 0 ELSE f[n - 1] + rs[n].value
IsRoom(f, rs, m) == f = [n \in 0..m |-> UpTo(f, rs, n)]

\* Induction over data: the sums of the sizes of the first n records, up to m.
LEMMA RoomExists ==
  ASSUME NEW rs, NEW m \in Nat
  PROVE  \E f : IsRoom(f, rs, m)
<1> DEFINE P == {n \in Nat : \E f : IsRoom(f, rs, n)}
<1>1. 0 \in P
  <2> DEFINE f == [n \in 0..0 |-> UpTo(<<>>, rs, n)]
  <2>1. \A n \in 0..0 : UpTo(<<>>, rs, n) = UpTo(f, rs, n)
    BY DEF UpTo
  <2>2. IsRoom(f, rs, 0)
    BY <2>1 DEF IsRoom
  <2> QED BY <2>2
<1>2. ASSUME NEW n \in Nat, n \in P
      PROVE  n + 1 \in P
  <2>1. PICK g : IsRoom(g, rs, n)
    BY <1>2
  <2> DEFINE f == [i \in 0..(n + 1) |-> UpTo(g, rs, i)]
  <2>2. \A i \in 0..n : f[i] = g[i]
    BY <2>1 DEF IsRoom
  <2> HIDE DEF f
  <2>3. ASSUME NEW i \in 0..(n + 1) PROVE UpTo(g, rs, i) = UpTo(f, rs, i)
    <3>1. i = 0 \/ i - 1 \in 0..n
      OBVIOUS
    <3> QED BY <2>2, <3>1 DEF UpTo
  <2>4. IsRoom(f, rs, n + 1)
    BY <2>3 DEF IsRoom, f
  <2> QED BY <2>4
<1> HIDE DEF P
<1>3. \A n \in 0..m : n \in P
  BY <1>1, <1>2, CountUp
<1> QED BY <1>3 DEF P

\* f has the room of each beginning of rs.
Rooms(f, rs) ==
  /\ f[0] = 0 /\ \A n \in 1..Len(rs) : f[n] = f[n - 1] + rs[n].value
  /\ \A n \in 0..Len(rs) : f[n] \in Nat

\* The room that records take is the last of these sums.
LEMMA RoomIs ==
  ASSUME StorageConstants, NEW rs \in Seq(Records)
  PROVE  \E f : Rooms(f, rs) /\ Storage!Room(rs) = f[Len(rs)]
<1> DEFINE f == CHOOSE f : IsRoom(f, rs, Len(rs))
<1>0. Len(rs) \in Nat
  OBVIOUS
<1>1. Storage!Room(rs) = f[Len(rs)]
  BY DEF Storage!Room, IsRoom, UpTo
<1>2. IsRoom(f, rs, Len(rs))
  BY <1>0, RoomExists
<1> HIDE DEF f
<1>3. \A n \in 0..Len(rs) : f[n] = UpTo(f, rs, n)
  BY <1>2 DEF IsRoom
<1>4. f[0] = 0 /\ \A n \in 1..Len(rs) : f[n] = f[n - 1] + rs[n].value
  BY <1>0, <1>3 DEF UpTo
<1> DEFINE P == {n \in Nat : f[n] \in Nat}
<1>5. ASSUME NEW n \in Nat, n < Len(rs), n \in P PROVE n + 1 \in P
  <2>1. n + 1 \in 1..Len(rs)
    BY <1>0, <1>5
  <2>2. rs[n + 1].value \in Nat
    BY <2>1, ValueIsNat
  <2> QED BY <1>4, <1>5, <2>1, <2>2
<1>6. 0 \in P
  BY <1>4
<1> HIDE DEF P
<1>7. \A n \in 0..Len(rs) : n \in P
  BY <1>0, <1>5, <1>6, CountUp
<1>8. \A n \in 0..Len(rs) : f[n] \in Nat
  BY <1>7 DEF P
<1> QED BY <1>1, <1>4, <1>8 DEF Rooms

LEMMA RoomIsNat ==
  ASSUME StorageConstants, NEW rs \in Seq(Records)
  PROVE  Storage!Room(rs) \in Nat
<1>1. PICK f : Rooms(f, rs) /\ Storage!Room(rs) = f[Len(rs)]
  BY RoomIs
<1>2. Len(rs) \in 0..Len(rs)
  OBVIOUS
<1> QED BY <1>1, <1>2 DEF Rooms

\* A record more takes its size.
LEMMA RoomOfAppend ==
  ASSUME StorageConstants, NEW rs \in Seq(Records), NEW r \in Records
  PROVE  Storage!Room(Append(rs, r)) = Storage!Room(rs) + r.value
<1> DEFINE qs == Append(rs, r)
<1>1. /\ qs \in Seq(Records) /\ Len(qs) = Len(rs) + 1 /\ qs[Len(rs) + 1] = r /\ Len(rs) \in Nat
      /\ \A i \in 1..Len(rs) : qs[i] = rs[i]
  OBVIOUS
<1> HIDE DEF qs
<1>2. PICK f : Rooms(f, rs) /\ Storage!Room(rs) = f[Len(rs)]
  BY RoomIs
<1>3. PICK g : Rooms(g, qs) /\ Storage!Room(qs) = g[Len(qs)]
  BY <1>1, RoomIs
<1> DEFINE P == {n \in Nat : g[n] = f[n]}
<1>4. 0 \in P
  BY <1>2, <1>3 DEF Rooms
<1>5. ASSUME NEW n \in Nat, n < Len(rs), n \in P PROVE n + 1 \in P
  <2>1. n + 1 \in 1..Len(rs) /\ n + 1 \in 1..Len(qs) /\ (n + 1) - 1 = n
    BY <1>1, <1>5
  <2>2. g[n + 1] = g[n] + qs[n + 1].value /\ f[n + 1] = f[n] + rs[n + 1].value
    BY <1>2, <1>3, <2>1 DEF Rooms
  <2> QED BY <1>1, <1>5, <2>1, <2>2
<1> HIDE DEF P
<1>6. Len(rs) \in P
  <2>1. \A n \in 0..Len(rs) : n \in P
    BY <1>1, <1>4, <1>5, CountUp
  <2> QED BY <1>1, <2>1
<1>7. g[Len(rs)] = f[Len(rs)]
  BY <1>6 DEF P
<1>8. g[Len(qs)] = g[Len(rs)] + r.value
  <2>1. Len(rs) + 1 \in 1..Len(qs) /\ (Len(rs) + 1) - 1 = Len(rs)
    BY <1>1
  <2> QED BY <1>1, <1>3, <2>1 DEF Rooms
<1> QED BY <1>2, <1>3, <1>7, <1>8 DEF qs

\* A record less takes no more room, wherever it was.
LEMMA RoomOfRemoval ==
  ASSUME StorageConstants, NEW rs \in Seq(Records), NEW k \in 1..Len(rs)
  PROVE  Storage!Room(Storage!RemoveAt(rs, k)) <= Storage!Room(rs)
<1> DEFINE qs == Storage!RemoveAt(rs, k)
<1>1. /\ qs \in Seq(Records) /\ Len(qs) = Len(rs) - 1 /\ Len(rs) \in Nat
      /\ \A i \in 1..(Len(rs) - 1) : qs[i] = IF i < k THEN rs[i] ELSE rs[i + 1]
  BY RemovalFacts
<1>1a. Len(qs) \in Nat
  BY <1>1
<1> HIDE DEF qs
<1>2. PICK f : Rooms(f, rs) /\ Storage!Room(rs) = f[Len(rs)]
  BY RoomIs
<1>3. PICK g : Rooms(g, qs) /\ Storage!Room(qs) = g[Len(qs)]
  BY <1>1, RoomIs
<1> DEFINE P == {n \in Nat : g[n] = IF n < k THEN f[n] ELSE f[n + 1] - rs[k].value}
<1>0. rs[k].value \in Nat /\ k \in Nat \ {0}
  BY ValueIsNat
<1>4. 0 \in P
  BY <1>0, <1>2, <1>3 DEF Rooms
<1>5. ASSUME NEW n \in Nat, n < Len(qs), n \in P PROVE n + 1 \in P
  <2>1. n + 1 \in 1..(Len(rs) - 1) /\ n + 1 \in 1..Len(qs) /\ (n + 1) - 1 = n
        /\ n + 1 \in 1..Len(rs) /\ n + 2 \in 1..Len(rs) /\ (n + 2) - 1 = n + 1 /\ (n + 1) + 1 = n + 2
    BY <1>1, <1>5
  <2>2. /\ g[n + 1] = g[n] + qs[n + 1].value
        /\ f[n + 1] = f[n] + rs[n + 1].value /\ f[n + 2] = f[n + 1] + rs[n + 2].value
    BY <1>2, <1>3, <2>1 DEF Rooms
  <2>3. f[n] \in Nat /\ f[n + 1] \in Nat /\ f[n + 2] \in Nat
    BY <1>2, <2>1, <1>5 DEF Rooms
  <2>4. qs[n + 1] = IF n + 1 < k THEN rs[n + 1] ELSE rs[n + 2]
    BY <1>1, <2>1
  <2>5. rs[n + 1].value \in Nat /\ rs[n + 2].value \in Nat
    BY <2>1, ValueIsNat
  <2>6. g[n] = IF n < k THEN f[n] ELSE f[n + 1] - rs[k].value
    BY <1>5
  <2>7. g[n + 1] = IF n + 1 < k THEN f[n + 1] ELSE f[n + 2] - rs[k].value
    <3>1. CASE n + 1 < k
      BY <1>0, <2>2, <2>4, <2>6, <3>1
    <3>2. CASE n + 1 = k
      <4>1. f[n + 1] = f[n] + rs[k].value /\ g[n] = f[n] /\ g[n + 1] = f[n] + rs[n + 2].value
        BY <1>0, <2>2, <2>4, <2>6, <3>2
      <4>2. ASSUME NEW a \in Nat, NEW b \in Nat, NEW c \in Nat, NEW d \in Nat, NEW e \in Nat,
                   b = a + d, c = b + e
            PROVE  a + e = c - d
        BY <4>2
      <4>3. f[n + 2] = f[n + 1] + rs[n + 2].value
        BY <2>2
      <4>4. f[n] + rs[n + 2].value = f[n + 2] - rs[k].value
        BY <1>0, <2>3, <2>5, <4>1, <4>2, <4>3, SMTT(60)
      <4> QED BY <1>0, <3>2, <4>1, <4>4
    <3>3. CASE n + 1 > k
      <4>1. g[n] = f[n + 1] - rs[k].value /\ g[n + 1] = g[n] + rs[n + 2].value
        BY <1>0, <2>2, <2>4, <2>6, <3>3
      <4>2. ASSUME NEW b \in Nat, NEW c \in Nat, NEW d \in Nat, NEW e \in Nat, c = b + e
            PROVE  (b - d) + e = c - d
        BY <4>2
      <4>3. g[n + 1] = f[n + 2] - rs[k].value
        BY <1>0, <2>2, <2>3, <2>5, <4>1, <4>2
      <4> QED BY <1>0, <3>3, <4>3
    <3> QED BY <1>0, <3>1, <3>2, <3>3
  <2> QED BY <2>1, <2>7
<1> HIDE DEF P
<1>6. Len(qs) \in P
  <2>1. \A n \in 0..Len(qs) : n \in P
    BY <1>1a, <1>4, <1>5, CountUp
  <2> QED BY <1>1a, <2>1
<1>7. g[Len(qs)] = IF Len(rs) - 1 < k THEN f[Len(rs) - 1] ELSE f[Len(rs)] - rs[k].value
  BY <1>1, <1>6 DEF P
<1>8. Len(rs) \in 1..Len(rs) /\ Len(rs) - 1 \in 0..Len(rs) /\ Len(rs) \in 0..Len(rs)
  BY <1>1
<1>9. f[Len(rs)] = f[Len(rs) - 1] + rs[Len(rs)].value
  BY <1>2, <1>8 DEF Rooms
<1>10. f[Len(rs)] \in Nat /\ f[Len(rs) - 1] \in Nat /\ rs[Len(rs)].value \in Nat
  <2>1. f[Len(rs)] \in Nat /\ f[Len(rs) - 1] \in Nat
    BY <1>2, <1>8 DEF Rooms
  <2>2. rs[Len(rs)].value \in Nat
    BY <1>8, ValueIsNat
  <2> QED BY <2>1, <2>2
<1>11. g[Len(qs)] <= f[Len(rs)]
  BY <1>0, <1>7, <1>9, <1>10
<1> QED BY <1>2, <1>3, <1>11 DEF qs

\* Records that take the same room.
LEMMA RoomLike ==
  ASSUME StorageConstants, NEW rs \in Seq(Records), NEW qs \in Seq(Records), Len(qs) = Len(rs),
         \A i \in 1..Len(rs) : qs[i].value = rs[i].value
  PROVE  Storage!Room(qs) = Storage!Room(rs)
<1>1. Len(rs) \in Nat
  OBVIOUS
<1>2. PICK f : Rooms(f, rs) /\ Storage!Room(rs) = f[Len(rs)]
  BY RoomIs
<1>3. PICK g : Rooms(g, qs) /\ Storage!Room(qs) = g[Len(qs)]
  BY RoomIs
<1> DEFINE P == {n \in Nat : g[n] = f[n]}
<1>4. 0 \in P
  BY <1>2, <1>3 DEF Rooms
<1>5. ASSUME NEW n \in Nat, n < Len(rs), n \in P PROVE n + 1 \in P
  <2>1. n + 1 \in 1..Len(rs) /\ (n + 1) - 1 = n
    BY <1>1, <1>5
  <2>2. g[n + 1] = g[n] + qs[n + 1].value /\ f[n + 1] = f[n] + rs[n + 1].value
    BY <1>2, <1>3, <2>1 DEF Rooms
  <2> QED BY <1>5, <2>1, <2>2
<1> HIDE DEF P
<1>6. \A n \in 0..Len(rs) : n \in P
  BY <1>1, <1>4, <1>5, CountUp
<1> QED BY <1>1, <1>2, <1>3, <1>6 DEF P

\* A record that rs holds, and one record for a key.
Holds(rs, r) == \E i \in 1..Len(rs) : rs[i] = r
OneForEach(rs) == \A i, j \in 1..Len(rs) : rs[i].key = rs[j].key => i = j

\* What Read finds in rs.
Found(rs, k) ==
  IF \E i \in DOMAIN rs : rs[i].key = k /\ rs[i].live
  THEN (CHOOSE r \in Storage!Range(rs) : r.key = k).value ELSE None

\* What a tab reads is what is found in the records.
LEMMA ReadsFound ==
  /\ \A k : Storage!Read(k) = Found(records, k)
  /\ \A k : Storage!Read(k)' = Found(records', k)
BY DEF Storage!Read, Found, Storage!Range

\* It is the value of the one record of that key, while that lives.
LEMMA FoundIs ==
  ASSUME NEW rs \in Seq(Records), OneForEach(rs), NEW k
  PROVE  /\ \A r \in Records : Holds(rs, r) /\ r.key = k => Found(rs, k) = IF r.live THEN r.value ELSE None
         /\ (\A r \in Records : Holds(rs, r) => r.key # k) => Found(rs, k) = None
<1>0. DOMAIN rs = 1..Len(rs) /\ \A i \in 1..Len(rs) : rs[i] \in Records
  OBVIOUS
<1>1. ASSUME NEW r \in Records, Holds(rs, r), r.key = k
      PROVE  Found(rs, k) = IF r.live THEN r.value ELSE None
  <2>1. PICK i \in 1..Len(rs) : rs[i] = r
    BY <1>1 DEF Holds
  <2>2. \A j \in DOMAIN rs : rs[j].key = k => rs[j] = r
    BY <1>0, <1>1, <2>1 DEF OneForEach
  <2>3. (\E j \in DOMAIN rs : rs[j].key = k /\ rs[j].live) <=> r.live
    BY <1>0, <1>1, <2>1, <2>2
  <2>4. r \in Storage!Range(rs) /\ \A q \in Storage!Range(rs) : q.key = k => q = r
    BY <1>0, <2>1, <2>2 DEF Storage!Range
  <2>5. (CHOOSE q \in Storage!Range(rs) : q.key = k) = r
    BY <1>1, <2>4
  <2>6. CASE r.live
    <3>1. Found(rs, k) = (CHOOSE q \in Storage!Range(rs) : q.key = k).value
      BY <2>3, <2>6, Zenon DEF Found
    <3> QED BY <2>5, <2>6, <3>1
  <2>7. CASE ~r.live
    BY <2>3, <2>7, Zenon DEF Found
  <2> QED BY <2>6, <2>7
<1>2. ASSUME \A r \in Records : Holds(rs, r) => r.key # k
      PROVE  Found(rs, k) = None
  <2>1. \A j \in DOMAIN rs : rs[j].key # k
    BY <1>0, <1>2 DEF Holds
  <2> QED BY <2>1 DEF Found
<1> QED BY <1>1, <1>2

\* Sequences that hold the same records of a key.
LEMMA FoundLike ==
  ASSUME NEW rs \in Seq(Records), OneForEach(rs), NEW qs \in Seq(Records), OneForEach(qs), NEW k,
         \A r \in Records : r.key = k => (Holds(rs, r) <=> Holds(qs, r))
  PROVE  Found(rs, k) = Found(qs, k)
<1>1. CASE \E r \in Records : Holds(rs, r) /\ r.key = k
  <2>1. PICK r \in Records : Holds(rs, r) /\ r.key = k
    BY <1>1
  <2>2. Found(rs, k) = IF r.live THEN r.value ELSE None
    BY <2>1, FoundIs
  <2>3. Found(qs, k) = IF r.live THEN r.value ELSE None
    BY <2>1, FoundIs
  <2> QED BY <2>2, <2>3
<1>2. CASE ~\E r \in Records : Holds(rs, r) /\ r.key = k
  <2>1. Found(rs, k) = None
    BY <1>2, FoundIs
  <2>2. Found(qs, k) = None
    BY <1>2, FoundIs
  <2> QED BY <2>1, <2>2
<1> QED BY <1>1, <1>2

\* The books of a sequence of records.
Sound(rs) == rs \in Seq(Records) /\ OneForEach(rs)

\* Without one of them the records are those of the other keys; with Without and Tail it is the same.
LEMMA RemovalKeeps ==
  ASSUME StorageConstants, NEW rs, Sound(rs), NEW i \in 1..Len(rs)
  PROVE  /\ Sound(Storage!RemoveAt(rs, i)) /\ Storage!Room(Storage!RemoveAt(rs, i)) <= Storage!Room(rs)
         /\ \A r \in Records : Holds(Storage!RemoveAt(rs, i), r) <=> Holds(rs, r) /\ r.key # rs[i].key
<1> DEFINE qs == Storage!RemoveAt(rs, i)
<1>0. rs \in Seq(Records) /\ Len(rs) \in Nat /\ \A j \in 1..Len(rs) : rs[j] \in Records
  BY DEF Sound
<1>1. /\ qs \in Seq(Records) /\ Len(qs) = Len(rs) - 1
      /\ \A k \in 1..(Len(rs) - 1) : qs[k] = IF k < i THEN rs[k] ELSE rs[k + 1]
  BY <1>0, RemovalFacts
<1>2. Storage!Room(qs) <= Storage!Room(rs)
  BY <1>0, RoomOfRemoval
<1> HIDE DEF qs
<1>3. ASSUME NEW k \in 1..Len(qs)
      PROVE  \E j \in 1..Len(rs) : j # i /\ qs[k] = rs[j] /\ (j = IF k < i THEN k ELSE k + 1)
  BY <1>0, <1>1
<1>4. ASSUME NEW j \in 1..Len(rs), j # i PROVE \E k \in 1..Len(qs) : qs[k] = rs[j]
  <2>1. CASE j < i
    BY <1>0, <1>1, <2>1
  <2>2. CASE j > i
    <3>1. j - 1 \in 1..Len(qs) /\ ~(j - 1 < i) /\ (j - 1) + 1 = j
      BY <1>0, <1>1, <2>2
    <3> QED BY <1>1, <3>1
  <2> QED BY <1>0, <1>4, <2>1, <2>2
<1>5. OneForEach(qs)
  <2> SUFFICES ASSUME NEW k \in 1..Len(qs), NEW l \in 1..Len(qs), qs[k].key = qs[l].key PROVE k = l
    BY DEF OneForEach
  <2>1. PICK j \in 1..Len(rs) : j # i /\ qs[k] = rs[j] /\ (j = IF k < i THEN k ELSE k + 1)
    BY <1>3
  <2>2. PICK h \in 1..Len(rs) : h # i /\ qs[l] = rs[h] /\ (h = IF l < i THEN l ELSE l + 1)
    BY <1>3
  <2>3. j = h
    BY <2>1, <2>2 DEF Sound, OneForEach
  <2> QED BY <1>0, <1>1, <2>1, <2>2, <2>3
<1>6. ASSUME NEW r \in Records PROVE Holds(qs, r) <=> Holds(rs, r) /\ r.key # rs[i].key
  <2>1. Holds(qs, r) <=> \E j \in 1..Len(rs) : j # i /\ rs[j] = r
    BY <1>3, <1>4 DEF Holds
  <2>2. \A j \in 1..Len(rs) : j # i <=> rs[j].key # rs[i].key
    BY DEF Sound, OneForEach
  <2> QED BY <2>1, <2>2 DEF Holds
<1>7. Sound(qs)
  BY <1>1, <1>5 DEF Sound
<1> QED BY <1>2, <1>6, <1>7 DEF qs

LEMMA WithoutKeeps ==
  ASSUME StorageConstants, NEW rs, Sound(rs), NEW k
  PROVE  /\ Sound(Storage!Without(rs, k)) /\ Storage!Room(Storage!Without(rs, k)) <= Storage!Room(rs)
         /\ \A r \in Records : Holds(Storage!Without(rs, k), r) <=> Holds(rs, r) /\ r.key # k
<1>0. DOMAIN rs = 1..Len(rs)
  BY DEF Sound
<1>1. CASE \E i \in DOMAIN rs : rs[i].key = k
  <2> DEFINE i == CHOOSE i \in DOMAIN rs : rs[i].key = k
  <2>1. i \in 1..Len(rs) /\ rs[i].key = k
    BY <1>0, <1>1
  <2>2. Storage!Without(rs, k) = Storage!RemoveAt(rs, i)
    BY <1>1 DEF Storage!Without
  <2> HIDE DEF i
  <2> QED BY <2>1, <2>2, RemovalKeeps
<1>2. CASE ~\E i \in DOMAIN rs : rs[i].key = k
  <2>1. Storage!Without(rs, k) = rs
    BY <1>2 DEF Storage!Without
  <2>2. \A r \in Records : Holds(rs, r) => r.key # k
    BY <1>0, <1>2 DEF Holds
  <2>3. Storage!Room(rs) <= Storage!Room(rs)
    <3>1. Storage!Room(rs) \in Nat
      BY RoomIsNat DEF Sound
    <3> QED BY <3>1
  <2> QED BY <2>1, <2>2, <2>3
<1> QED BY <1>1, <1>2

LEMMA AppendKeeps ==
  ASSUME StorageConstants, NEW rs, Sound(rs), NEW r \in Records, \A q \in Records : Holds(rs, q) => q.key # r.key
  PROVE  /\ Sound(Append(rs, r)) /\ Storage!Room(Append(rs, r)) = Storage!Room(rs) + r.value
         /\ \A q \in Records : Holds(Append(rs, r), q) <=> Holds(rs, q) \/ q = r
<1> DEFINE qs == Append(rs, r)
<1>0. rs \in Seq(Records) /\ Len(rs) \in Nat /\ \A j \in 1..Len(rs) : rs[j] \in Records
  BY DEF Sound
<1>1. /\ qs \in Seq(Records) /\ Len(qs) = Len(rs) + 1 /\ qs[Len(rs) + 1] = r
      /\ \A i \in 1..Len(rs) : qs[i] = rs[i]
  BY <1>0
<1>2. Storage!Room(qs) = Storage!Room(rs) + r.value
  BY <1>0, RoomOfAppend
<1> HIDE DEF qs
<1>3. \A j \in 1..Len(rs) : rs[j].key # r.key
  BY <1>0 DEF Holds
<1>4. \A i \in 1..Len(qs) : i \in 1..Len(rs) \/ i = Len(rs) + 1
  BY <1>0, <1>1
<1>5. OneForEach(qs)
  BY <1>0, <1>1, <1>3, <1>4 DEF OneForEach, Sound
<1>6. \A q \in Records : Holds(qs, q) <=> Holds(rs, q) \/ q = r
  BY <1>0, <1>1, <1>4 DEF Holds
<1> QED BY <1>1, <1>2, <1>5, <1>6 DEF qs, Sound

LEMMA TailKeeps ==
  ASSUME StorageConstants, NEW rs, Sound(rs), rs # <<>>
  PROVE  /\ Sound(Tail(rs)) /\ Storage!Room(Tail(rs)) <= Storage!Room(rs) /\ rs[1] \in Records
         /\ \A r \in Records : Holds(Tail(rs), r) <=> Holds(rs, r) /\ r.key # rs[1].key
<1>0. rs \in Seq(Records) /\ Len(rs) \in Nat \ {0} /\ 1 \in 1..Len(rs)
  BY DEF Sound
<1>1. Tail(rs) = Storage!RemoveAt(rs, 1)
  <2> DEFINE qs == Storage!RemoveAt(rs, 1)
  <2>1. /\ qs \in Seq(Records) /\ Len(qs) = Len(rs) - 1
        /\ \A k \in 1..(Len(rs) - 1) : qs[k] = rs[k + 1]
    BY <1>0, RemovalFacts
  <2>2. /\ Tail(rs) \in Seq(Records) /\ Len(Tail(rs)) = Len(rs) - 1
        /\ \A k \in 1..(Len(rs) - 1) : Tail(rs)[k] = rs[k + 1]
    BY <1>0
  <2> HIDE DEF qs
  <2>3. Tail(rs) = qs
    BY <2>1, <2>2, SeqEqual
  <2> QED BY <2>3 DEF qs
<1>2. rs[1] \in Records
  BY <1>0
<1> QED BY <1>0, <1>1, <1>2, RemovalKeeps

\* Room is a number, and at most Capacity.
StorageInv == Storage!TypeOK /\ Storage!TabsAgree

\* After the records became those that hold the same but for key k: who shows the other keys right still does.
LEMMA OthersFound ==
  ASSUME NEW rs, Sound(rs), NEW qs, Sound(qs), NEW k,
         \A r \in Records : r.key # k => (Holds(rs, r) <=> Holds(qs, r))
  PROVE  \A j : j # k => Found(rs, j) = Found(qs, j)
BY FoundLike DEF Sound

\* The records of a key that is written, and of one that is taken out.
LEMMA WrittenIs ==
  ASSUME NEW rs, Sound(rs), NEW r \in Records, r.live, NEW qs, Sound(qs),
         \A q \in Records : Holds(qs, q) <=> (Holds(rs, q) /\ q.key # r.key) \/ q = r
  PROVE  /\ Found(qs, r.key) = r.value
         /\ \A j : j # r.key => Found(qs, j) = Found(rs, j)
<1>1. Found(qs, r.key) = r.value
  BY FoundIs DEF Sound
<1>2. \A j : j # r.key => Found(rs, j) = Found(qs, j)
  <2>1. \A q \in Records : q.key # r.key => (Holds(rs, q) <=> Holds(qs, q))
    OBVIOUS
  <2> QED BY <2>1, OthersFound
<1> QED BY <1>1, <1>2

\* The sequence a write makes of rs.
LEMMA WriteIs ==
  ASSUME StorageConstants, NEW rs, Sound(rs), NEW r \in Records, Storage!Fits(rs, r.key, r.value)
  PROVE  /\ Sound(Append(Storage!Without(rs, r.key), r))
         /\ Storage!Room(Append(Storage!Without(rs, r.key), r)) <= Capacity
         /\ \A q \in Records :
              Holds(Append(Storage!Without(rs, r.key), r), q) <=> (Holds(rs, q) /\ q.key # r.key) \/ q = r
<1> DEFINE ws == Storage!Without(rs, r.key)
<1>1. /\ Sound(ws) /\ \A q \in Records : Holds(ws, q) <=> Holds(rs, q) /\ q.key # r.key
  BY WithoutKeeps
<1>2. Storage!Room(ws) + r.value <= Capacity
  BY DEF Storage!Fits
<1> HIDE DEF ws
<1>3. /\ Sound(Append(ws, r)) /\ Storage!Room(Append(ws, r)) = Storage!Room(ws) + r.value
      /\ \A q \in Records : Holds(Append(ws, r), q) <=> Holds(ws, q) \/ q = r
  BY <1>1, AppendKeeps
<1> QED BY <1>1, <1>2, <1>3 DEF ws

LEMMA WithoutIs ==
  ASSUME StorageConstants, NEW rs, Sound(rs), NEW k
  PROVE  /\ Sound(Storage!Without(rs, k)) /\ Found(Storage!Without(rs, k), k) = None
         /\ \A j : j # k => Found(Storage!Without(rs, k), j) = Found(rs, j)
<1> DEFINE ws == Storage!Without(rs, k)
<1>1. /\ Sound(ws) /\ \A q \in Records : Holds(ws, q) <=> Holds(rs, q) /\ q.key # k
  BY WithoutKeeps
<1> HIDE DEF ws
<1>2. Found(ws, k) = None
  BY <1>1, FoundIs DEF Sound
<1>3. \A j : j # k => Found(rs, j) = Found(ws, j)
  BY <1>1, OthersFound
<1> QED BY <1>1, <1>2, <1>3 DEF ws

\* The conjuncts of the invariant in the words of these lemmas.
LEMMA SharedBooks ==
  /\ StorageInv => Sound(records) /\ Storage!Room(records) <= Capacity
  /\ Sound(records') /\ Storage!Room(records') <= Capacity => Storage!RecordsFit'
<1>1. DOMAIN records = 1..Len(records) <=> DOMAIN records = 1..Len(records)
  OBVIOUS
<1>2. StorageInv => Sound(records) /\ Storage!Room(records) <= Capacity
  BY DEF StorageInv, Sound, Storage!TypeOK, Records, Storage!TabsAgree, Storage!RecordsFit, OneForEach
<1>3. ASSUME Sound(records'), Storage!Room(records') <= Capacity PROVE Storage!RecordsFit'
  <2>1. DOMAIN records' = 1..Len(records')
    BY <1>3 DEF Sound
  <2> QED BY <1>3, <2>1 DEF Sound, Storage!RecordsFit, OneForEach
<1> QED BY <1>2, <1>3

\* An event for a key is on its way to a tab, and what a tab that was told of the key shows.
Pending(u, j) == \E i \in DOMAIN inbox[u] : inbox[u][i].key = j
Told(u, j) == j \notin torn[u] /\ \A i \in DOMAIN inbox[u] : inbox[u][i].key # j
Shown(u, j) == Told(u, j) => signal[u][j] = Found(records, j)

LEMMA SignalsAreShown ==
  /\ Storage!SignalsFollowStorage <=> \A u \in Tabs, j \in Keys : Shown(u, j)
  /\ Storage!SignalsFollowStorage' <=> \A u \in Tabs, j \in Keys : Shown(u, j)'
<1>1. Storage!SignalsFollowStorage <=> \A u \in Tabs, j \in Keys : Shown(u, j)
  BY ReadsFound, Zenon DEF Storage!SignalsFollowStorage, Shown, Told
<1>2. Storage!SignalsFollowStorage' <=> \A u \in Tabs, j \in Keys : Shown(u, j)'
  BY ReadsFound, Zenon DEF Storage!SignalsFollowStorage, Shown, Told
<1> QED BY <1>1, <1>2

\* A step that does not concern a tab and a key: no event for the key is taken away, nothing is forgiven.
Unconcerned(u, j) ==
  /\ j \in torn[u] => j \in torn'[u]
  /\ \A i \in DOMAIN inbox[u] : i \in DOMAIN inbox'[u] /\ inbox'[u][i] = inbox[u][i]
  /\ signal'[u][j] = signal[u][j] /\ Found(records', j) = Found(records, j)

\* A tab and a key that a step does not concern.
LEMMA UnconcernedKeeps ==
  ASSUME NEW u, NEW j, Shown(u, j), Unconcerned(u, j)
  PROVE  Shown(u, j)'
BY DEF Shown, Told, Unconcerned

\* Events for a key are on their way.
LEMMA EventsWait ==
  ASSUME NEW u, NEW j, (\E i \in DOMAIN inbox'[u] : inbox'[u][i].key = j) \/ j \in torn'[u]
  PROVE  Shown(u, j)'
BY DEF Shown, Told

\* The events of a tab arrive in the inboxes of all the others, behind what waits there.
LEMMA TellAdds ==
  ASSUME Storage!TypeOK, NEW t \in Tabs, NEW es \in Seq([key : Keys, removed : BOOLEAN]), Storage!Tell(t, es)
  PROVE  /\ inbox' \in [Tabs -> Seq([key : Keys, removed : BOOLEAN])]
         /\ inbox'[t] = inbox[t]
         /\ \A u \in Tabs \ {t} : \A i \in DOMAIN inbox[u] :
              i \in DOMAIN inbox'[u] /\ inbox'[u][i] = inbox[u][i]
         /\ \A u \in Tabs \ {t} : \A i \in DOMAIN es : \E j \in DOMAIN inbox'[u] : inbox'[u][j] = es[i]
<1> DEFINE Events == [key : Keys, removed : BOOLEAN]
<1>1. inbox \in [Tabs -> Seq(Events)] /\ inbox' = [u \in Tabs |-> IF u = t THEN inbox[u] ELSE inbox[u] \o es]
  BY DEF Storage!TypeOK, Storage!Tell
<1> HIDE DEF Events
<1>2. es \in Seq(Events)
  BY DEF Events
<1>3. ASSUME NEW u \in Tabs \ {t}
      PROVE  /\ inbox'[u] \in Seq(Events)
             /\ \A i \in DOMAIN inbox[u] : i \in DOMAIN inbox'[u] /\ inbox'[u][i] = inbox[u][i]
             /\ \A i \in DOMAIN es : \E j \in DOMAIN inbox'[u] : inbox'[u][j] = es[i]
  <2> DEFINE a == inbox[u]
             b == inbox'[u]
  <2>1. a \in Seq(Events) /\ b = a \o es /\ Len(a) \in Nat /\ Len(es) \in Nat
    BY <1>1, <1>2
  <2> HIDE DEF a, b
  <2>2. /\ b \in Seq(Events) /\ Len(b) = Len(a) + Len(es)
        /\ \A i \in 1..(Len(a) + Len(es)) : b[i] = IF i <= Len(a) THEN a[i] ELSE es[i - Len(a)]
    BY <1>2, <2>1, ConcatProperties, Zenon
  <2>3. DOMAIN a = 1..Len(a) /\ DOMAIN b = 1..Len(b) /\ DOMAIN es = 1..Len(es)
    BY <1>2, <2>1, <2>2
  <2>4. \A i \in DOMAIN a : i \in DOMAIN b /\ b[i] = a[i]
    BY <2>1, <2>2, <2>3
  <2>5. ASSUME NEW i \in DOMAIN es PROVE \E j \in DOMAIN b : b[j] = es[i]
    <3>1. Len(a) + i \in DOMAIN b /\ ~(Len(a) + i <= Len(a)) /\ (Len(a) + i) - Len(a) = i
      BY <2>1, <2>2, <2>3
    <3>2. b[Len(a) + i] = es[i]
      BY <2>1, <2>2, <2>3, <3>1
    <3> QED BY <3>1, <3>2
  <2> QED BY <2>2, <2>4, <2>5 DEF a, b
<1>4. inbox' \in [Tabs -> Seq(Events)]
  <2>1. ASSUME NEW u \in Tabs PROVE (IF u = t THEN inbox[u] ELSE inbox[u] \o es) \in Seq(Events)
    BY <1>1, <1>2, <1>3
  <2> QED BY <1>1, <2>1
<1> QED BY <1>1, <1>3, <1>4 DEF Events

\* A tab sets one of its signals.
LEMMA TypesKept ==
  ASSUME Storage!TypeOK, NEW t \in Tabs, NEW k \in Keys, NEW v \in Values \cup {None},
         Storage!Shows(t, k, v)
  PROVE  /\ signal' \in [Tabs -> [Keys -> Values \cup {None}]] /\ signal'[t][k] = v
         /\ \A u \in Tabs, j \in Keys : u # t \/ j # k => signal'[u][j] = signal[u][j]
BY DEF Storage!TypeOK, Storage!Shows

LEMMA TornIs ==
  ASSUME Storage!TypeOK, NEW t \in Tabs, NEW gone, NEW fresh \in SUBSET Keys, Storage!Torn(t, gone, fresh)
  PROVE  /\ torn' \in [Tabs -> SUBSET Keys] /\ torn'[t] = (torn[t] \ gone) \cup fresh
         /\ \A u \in Tabs : u # t => torn'[u] = torn[u]
BY DEF Storage!TypeOK, Storage!Torn

\* A tab changes key k in the storage, and evicts key e before: what it has to tell, and of what it must not be told.
LEMMA WriteKeeps ==
  ASSUME StorageInv, Sound(records'), Storage!Room(records') <= Capacity,
         NEW t \in Tabs, NEW k \in Keys, NEW E \in SUBSET Keys,
         NEW es \in Seq([key : Keys, removed : BOOLEAN]), Storage!Tell(t, es),
         \A j \in E : \E i \in DOMAIN es : es[i].key = j,
         \A j \in Keys \ E : Found(records', j) = Found(records, j),
         signal' \in [Tabs -> [Keys -> Values \cup {None}]],
         \A u \in Tabs, j \in Keys : u # t \/ j # k => signal'[u][j] = signal[u][j],
         torn' \in [Tabs -> SUBSET Keys], \A u \in Tabs : u # t => torn'[u] = torn[u],
         torn[t] \ {k} \subseteq torn'[t], E \ {k} \subseteq torn'[t],
         k \in torn'[t] \/ Pending(t, k) \/ signal'[t][k] = Found(records', k)
  PROVE  StorageInv'
<1>1. Storage!TypeOK
  BY DEF StorageInv
<1>2. /\ inbox' \in [Tabs -> Seq([key : Keys, removed : BOOLEAN])]
      /\ inbox'[t] = inbox[t]
      /\ \A u \in Tabs \ {t} : \A i \in DOMAIN inbox[u] : i \in DOMAIN inbox'[u] /\ inbox'[u][i] = inbox[u][i]
      /\ \A u \in Tabs \ {t} : \A i \in DOMAIN es : \E j \in DOMAIN inbox'[u] : inbox'[u][j] = es[i]
  BY <1>1, TellAdds
<1>3. Storage!TypeOK'
  BY <1>2 DEF Storage!TypeOK, Sound, Records
<1>4. Storage!RecordsFit'
  BY SharedBooks
<1>5. \A u \in Tabs, j \in Keys : Shown(u, j)
  BY SignalsAreShown DEF StorageInv, Storage!TabsAgree
<1>6. ASSUME NEW u \in Tabs, NEW j \in Keys PROVE Shown(u, j)'
  <2>1. CASE u = t /\ j = k
    BY <1>2, <2>1 DEF Shown, Told, Pending
  <2>2. CASE u = t /\ j # k /\ j \in E
    BY <2>2, EventsWait
  <2>3. CASE u = t /\ j # k /\ j \notin E
    <3>1. Unconcerned(u, j)
      BY <1>2, <2>3 DEF Unconcerned
    <3> QED BY <1>5, <3>1, UnconcernedKeeps
  <2>4. CASE u # t /\ j \in E
    <3>1. PICK i \in DOMAIN es : es[i].key = j
      BY <2>4
    <3>2. PICK h \in DOMAIN inbox'[u] : inbox'[u][h] = es[i]
      BY <1>2, <2>4
    <3> QED BY <3>1, <3>2, EventsWait
  <2>5. CASE u # t /\ j \notin E
    <3>1. Unconcerned(u, j)
      BY <1>2, <2>5 DEF Unconcerned
    <3> QED BY <1>5, <3>1, UnconcernedKeeps
  <2> QED BY <2>1, <2>2, <2>3, <2>4, <2>5
<1> QED BY <1>3, <1>4, <1>6, SignalsAreShown DEF StorageInv, Storage!TabsAgree

\* set() writes for its own tab, and evicts and retries when there is no room.
LEMMA SetKeeps ==
  ASSUME StorageConstants, StorageInv, NEW t \in Tabs, NEW k \in Keys, NEW v \in Values,
         Storage!SetSignal(t, k, v)
  PROVE  StorageInv'
<1> DEFINE e == records[1].key
           ev == Storage!Event(e, TRUE)
           wr == Storage!Event(k, FALSE)
           new == Storage!Record(k, v)
           Events == [key : Keys, removed : BOOLEAN]
<1>1. Storage!TypeOK /\ Sound(records) /\ Storage!Room(records) <= Capacity
  BY SharedBooks DEF StorageInv
<1>2. /\ signal' \in [Tabs -> [Keys -> Values \cup {None}]] /\ signal'[t][k] = v
      /\ \A u \in Tabs, j \in Keys : u # t \/ j # k => signal'[u][j] = signal[u][j]
  BY <1>1, TypesKept DEF Storage!SetSignal
<1>3. /\ wr \in Events /\ wr.key = k
      /\ \A x \in Events : <<x>> \in Seq(Events) /\ 1 \in DOMAIN <<x>> /\ <<x>>[1] = x
  <2>1. wr \in Events /\ wr.key = k
    BY DEF Storage!Event
  <2> HIDE DEF Events
  <2>2. \A x \in Events : <<x>> \in Seq(Events) /\ 1 \in DOMAIN <<x>> /\ <<x>>[1] = x
    OBVIOUS
  <2> QED BY <2>1, <2>2
<1>3a. new \in Records /\ new.key = k /\ new.value = v /\ new.live
  BY DEF Storage!Record, Records
<1>4. CASE Storage!Fits(records, k, v)
  <2>1. /\ records' = Append(Storage!Without(records, k), Storage!Record(k, v))
        /\ Storage!Tell(t, <<wr>>) /\ Storage!Torn(t, {k}, {})
    BY <1>4 DEF Storage!SetSignal
  <2>2. /\ Sound(records') /\ Storage!Room(records') <= Capacity /\ Found(records', k) = v
        /\ \A j : j # k => Found(records', j) = Found(records, j)
    <3>1. records' = Append(Storage!Without(records, new.key), new)
      BY <1>3a, <2>1
    <3>2. Sound(records) /\ Storage!Fits(records, new.key, new.value)
      BY <1>1, <1>3a, <1>4
    <3> HIDE DEF e, ev, wr, Events, new
    <3>3. /\ Sound(records') /\ Storage!Room(records') <= Capacity
          /\ \A q \in Records : Holds(records', q) <=> (Holds(records, q) /\ q.key # new.key) \/ q = new
      BY <1>3a, <3>1, <3>2, WriteIs
    <3> QED BY <1>3a, <3>2, <3>3, WrittenIs
  <2>3. /\ torn' \in [Tabs -> SUBSET Keys] /\ torn'[t] = torn[t] \ {k}
        /\ \A u \in Tabs : u # t => torn'[u] = torn[u]
    BY <1>1, <2>1, TornIs
  <2>4. <<wr>> \in Seq(Events) /\ 1 \in DOMAIN <<wr>> /\ <<wr>>[1] = wr
    BY <1>3
  <2>5. \A j \in {k} : \E i \in DOMAIN <<wr>> : <<wr>>[i].key = j
    BY <1>3, <2>4
  <2> HIDE DEF wr
  <2>6. {k} \in SUBSET Keys /\ torn[t] \ {k} \subseteq torn'[t] /\ {k} \ {k} \subseteq torn'[t]
        /\ \A j \in Keys \ {k} : Found(records', j) = Found(records, j)
    BY <2>2, <2>3
  <2> QED BY <1>2, <2>1, <2>2, <2>3, <2>4, <2>5, <2>6, WriteKeeps, Zenon
<1>5. CASE ~Storage!Fits(records, k, v) /\ (records = <<>> \/ e = k)
  <2>1. records' = records /\ inbox' = inbox /\ Storage!Torn(t, {}, {k})
    BY <1>5 DEF Storage!SetSignal
  <2>2. /\ torn' \in [Tabs -> SUBSET Keys] /\ torn'[t] = torn[t] \cup {k}
        /\ \A u \in Tabs : u # t => torn'[u] = torn[u]
    BY <1>1, <2>1, TornIs
  <2>3. Storage!TypeOK'
    BY <1>1, <1>2, <2>1, <2>2 DEF Storage!TypeOK
  <2>4. Storage!RecordsFit'
    BY <1>1, <2>1, SharedBooks
  <2>5. \A u \in Tabs, j \in Keys : Shown(u, j)
    BY SignalsAreShown DEF StorageInv, Storage!TabsAgree
  <2>6. ASSUME NEW u \in Tabs, NEW j \in Keys PROVE Shown(u, j)'
    <3>1. CASE u = t /\ j = k
      BY <2>2, <3>1, EventsWait
    <3>2. CASE u # t \/ j # k
      <4>1. Unconcerned(u, j)
        BY <1>2, <2>1, <2>2, <3>2 DEF Unconcerned
      <4> QED BY <2>5, <4>1, UnconcernedKeeps
    <3> QED BY <3>1, <3>2
  <2> QED BY <2>3, <2>4, <2>6, SignalsAreShown DEF StorageInv, Storage!TabsAgree
<1>6. CASE ~Storage!Fits(records, k, v) /\ records # <<>> /\ e # k
  <2> DEFINE rest == Tail(records)
  <2>1. /\ Sound(rest) /\ Storage!Room(rest) <= Storage!Room(records) /\ records[1] \in Records
        /\ \A r \in Records : Holds(rest, r) <=> Holds(records, r) /\ r.key # e
    BY <1>1, <1>6, TailKeeps
  <2>2. e \in Keys /\ ev \in Events /\ ev.key = e
    <3>1. e \in Keys
      BY <2>1 DEF Records
    <3> HIDE DEF e
    <3> QED BY <3>1 DEF Storage!Event
  <2>3. \A j : j # e => Found(rest, j) = Found(records, j)
    BY <1>1, <2>1, OthersFound
  <2>4. Storage!Room(rest) <= Capacity
    <3>1. Storage!Room(rest) \in Nat /\ Storage!Room(records) \in Nat
      BY <1>1, <2>1, RoomIsNat DEF Sound
    <3> QED BY <1>1, <2>1, <3>1 DEF StorageConstants
  <2> HIDE DEF rest
  <2>5. CASE Storage!Fits(rest, k, v)
    <3>1. /\ records' = Append(Storage!Without(rest, k), Storage!Record(k, v))
          /\ Storage!Tell(t, <<ev, wr>>) /\ Storage!Torn(t, {k}, {e})
      BY <1>6, <2>5 DEF Storage!SetSignal, rest, Storage!Event
    <3>2. /\ Sound(records') /\ Storage!Room(records') <= Capacity /\ Found(records', k) = v
          /\ \A j : j # k => Found(records', j) = Found(rest, j)
      <4>1. records' = Append(Storage!Without(rest, new.key), new)
        BY <1>3a, <3>1
      <4>2. Sound(rest) /\ Storage!Fits(rest, new.key, new.value)
        BY <1>3a, <2>1, <2>5
      <4> HIDE DEF e, ev, wr, Events, new
      <4>3. /\ Sound(records') /\ Storage!Room(records') <= Capacity
            /\ \A q \in Records : Holds(records', q) <=> (Holds(rest, q) /\ q.key # new.key) \/ q = new
        BY <1>3a, <4>1, <4>2, WriteIs
      <4> QED BY <1>3a, <4>2, <4>3, WrittenIs
    <3>3. /\ torn' \in [Tabs -> SUBSET Keys] /\ torn'[t] = (torn[t] \ {k}) \cup {e}
          /\ \A u \in Tabs : u # t => torn'[u] = torn[u]
      BY <1>1, <2>2, <3>1, TornIs
    <3> HIDE DEF ev, wr, e
    <3>4. /\ <<ev, wr>> \in Seq(Events) /\ 1 \in DOMAIN <<ev, wr>> /\ <<ev, wr>>[1] = ev
          /\ 2 \in DOMAIN <<ev, wr>> /\ <<ev, wr>>[2] = wr
      BY <1>3, <2>2
    <3>5. \A j \in {e, k} : \E i \in DOMAIN <<ev, wr>> : <<ev, wr>>[i].key = j
      BY <1>3, <2>2, <3>4
    <3>6. {e, k} \in SUBSET Keys /\ torn[t] \ {k} \subseteq torn'[t] /\ {e, k} \ {k} \subseteq torn'[t]
          /\ \A j \in Keys \ {e, k} : Found(records', j) = Found(records, j)
      BY <2>2, <2>3, <3>2, <3>3
    <3> DEFINE E == {e, k}
               es == <<ev, wr>>
    <3>7. /\ Sound(records') /\ Storage!Room(records') <= Capacity
          /\ signal'[t][k] = Found(records', k) /\ Storage!Tell(t, es)
      BY <1>2, <3>1, <3>2
    <3>8. es \in Seq([key : Keys, removed : BOOLEAN]) /\ \A j \in E : \E i \in DOMAIN es : es[i].key = j
      BY <3>4, <3>5
    <3>9. E \in SUBSET Keys /\ torn[t] \ {k} \subseteq torn'[t] /\ E \ {k} \subseteq torn'[t]
          /\ \A j \in Keys \ E : Found(records', j) = Found(records, j)
      BY <3>6
    <3> HIDE DEF E, es, Events
    <3>10. Sound(records') /\ Storage!Room(records') <= Capacity
      BY <3>7
    <3>11. E \in SUBSET Keys
      BY <3>9
    <3>12. es \in Seq([key : Keys, removed : BOOLEAN])
      BY <3>8
    <3>13. Storage!Tell(t, es)
      BY <3>7, <3>9
    <3>14. \A j \in E : \E i \in DOMAIN es : es[i].key = j
      BY <3>8
    <3>15. \A j \in Keys \ E : Found(records', j) = Found(records, j)
      BY <3>9
    <3>16. /\ signal' \in [Tabs -> [Keys -> Values \cup {None}]]
           /\ \A u \in Tabs, j \in Keys : u # t \/ j # k => signal'[u][j] = signal[u][j]
      BY <1>2
    <3>17. torn' \in [Tabs -> SUBSET Keys] /\ \A u \in Tabs : u # t => torn'[u] = torn[u]
      BY <3>3
    <3>18. torn[t] \ {k} \subseteq torn'[t] /\ E \ {k} \subseteq torn'[t]
      BY <3>9
    <3>19. k \in torn'[t] \/ signal'[t][k] = Found(records', k)
      BY <3>7, <3>9
    <3> QED BY <3>10, <3>11, <3>12, <3>13, <3>14, <3>15, <3>16, <3>17, <3>18, <3>19, WriteKeeps
  <2>6. CASE ~Storage!Fits(rest, k, v)
    <3>1. records' = rest /\ Storage!Tell(t, <<ev>>) /\ Storage!Torn(t, {}, {k, e})
      BY <1>6, <2>6 DEF Storage!SetSignal, rest, Storage!Event
    <3>3. /\ torn' \in [Tabs -> SUBSET Keys] /\ torn'[t] = torn[t] \cup {k, e}
          /\ \A u \in Tabs : u # t => torn'[u] = torn[u]
      BY <1>1, <2>2, <3>1, TornIs
    <3> HIDE DEF ev, wr, e
    <3>4. <<ev>> \in Seq(Events) /\ 1 \in DOMAIN <<ev>> /\ <<ev>>[1] = ev
      BY <2>2
    <3>5. \A j \in {e} : \E i \in DOMAIN <<ev>> : <<ev>>[i].key = j
      BY <2>2, <3>4
    <3>6. {e} \in SUBSET Keys /\ torn[t] \ {k} \subseteq torn'[t] /\ {e} \ {k} \subseteq torn'[t]
          /\ k \in torn'[t] /\ \A j \in Keys \ {e} : Found(records', j) = Found(records, j)
      BY <2>2, <2>3, <3>1, <3>3
    <3>7. Sound(records') /\ Storage!Room(records') <= Capacity
      BY <2>1, <2>4, <3>1
    <3> DEFINE E == {e}
               es == <<ev>>
    <3>8. es \in Seq([key : Keys, removed : BOOLEAN]) /\ \A j \in E : \E i \in DOMAIN es : es[i].key = j
      BY <3>4, <3>5
    <3>9. /\ E \in SUBSET Keys /\ torn[t] \ {k} \subseteq torn'[t] /\ E \ {k} \subseteq torn'[t]
          /\ k \in torn'[t] /\ \A j \in Keys \ E : Found(records', j) = Found(records, j)
          /\ Storage!Tell(t, es)
      BY <3>1, <3>6
    <3> HIDE DEF E, es, Events
    <3>10. Sound(records') /\ Storage!Room(records') <= Capacity
      BY <3>7
    <3>11. E \in SUBSET Keys
      BY <3>9
    <3>12. es \in Seq([key : Keys, removed : BOOLEAN])
      BY <3>8
    <3>13. Storage!Tell(t, es)
      BY <3>7, <3>9
    <3>14. \A j \in E : \E i \in DOMAIN es : es[i].key = j
      BY <3>8
    <3>15. \A j \in Keys \ E : Found(records', j) = Found(records, j)
      BY <3>9
    <3>16. /\ signal' \in [Tabs -> [Keys -> Values \cup {None}]]
           /\ \A u \in Tabs, j \in Keys : u # t \/ j # k => signal'[u][j] = signal[u][j]
      BY <1>2
    <3>17. torn' \in [Tabs -> SUBSET Keys] /\ \A u \in Tabs : u # t => torn'[u] = torn[u]
      BY <3>3
    <3>18. torn[t] \ {k} \subseteq torn'[t] /\ E \ {k} \subseteq torn'[t]
      BY <3>9
    <3>19. k \in torn'[t] \/ signal'[t][k] = Found(records', k)
      BY <3>7, <3>9
    <3> QED BY <3>10, <3>11, <3>12, <3>13, <3>14, <3>15, <3>16, <3>17, <3>18, <3>19, WriteKeeps
  <2> QED BY <2>5, <2>6
<1> QED BY <1>4, <1>5, <1>6

\* A key whose record goes, by remove or because it was found expired.
LEMMA GoneKeeps ==
  ASSUME StorageConstants, StorageInv, NEW t \in Tabs, NEW k \in Keys,
         records' = Storage!Without(records, k), Storage!Tell(t, <<Storage!Event(k, TRUE)>>),
         signal' \in [Tabs -> [Keys -> Values \cup {None}]],
         \A u \in Tabs, j \in Keys : u # t \/ j # k => signal'[u][j] = signal[u][j],
         torn' \in [Tabs -> SUBSET Keys], \A u \in Tabs : u # t => torn'[u] = torn[u],
         torn[t] \ {k} \subseteq torn'[t], k \in torn'[t] \/ Pending(t, k) \/ signal'[t][k] = None
  PROVE  StorageInv'
<1> DEFINE ev == Storage!Event(k, TRUE)
           es == <<ev>>
           E == {k}
           Events == [key : Keys, removed : BOOLEAN]
<1>1. Sound(records) /\ Storage!Room(records) <= Capacity
  BY SharedBooks
<1>2. /\ Sound(records') /\ Storage!Room(records') <= Capacity /\ Found(records', k) = None
      /\ \A j : j # k => Found(records', j) = Found(records, j)
  <2> DEFINE qs == Storage!Without(records, k)
  <2>1. /\ Sound(qs) /\ Found(qs, k) = None /\ \A j : j # k => Found(qs, j) = Found(records, j)
    BY <1>1, WithoutIs
  <2>2. Storage!Room(qs) <= Storage!Room(records)
    BY <1>1, WithoutKeeps
  <2> HIDE DEF qs
  <2>3. Storage!Room(qs) <= Capacity
    <3>1. Storage!Room(qs) \in Nat /\ Storage!Room(records) \in Nat
      BY <1>1, <2>1, RoomIsNat DEF Sound
    <3> QED BY <1>1, <2>2, <3>1 DEF StorageConstants
  <2> QED BY <2>1, <2>3 DEF qs
<1>3. ev \in Events /\ ev.key = k
  BY DEF Storage!Event
<1>4. es \in Seq(Events) /\ 1 \in DOMAIN es /\ es[1] = ev
  <2> HIDE DEF ev, Events
  <2> QED BY <1>3
<1>5. E \in SUBSET Keys /\ E \ {k} \subseteq torn'[t]
  OBVIOUS
<1>6. \A j \in E : \E i \in DOMAIN es : es[i].key = j
  BY <1>3, <1>4
<1>7. \A j \in Keys \ E : Found(records', j) = Found(records, j)
  BY <1>2
<1>8. Storage!Tell(t, es)
  OBVIOUS
<1>9. k \in torn'[t] \/ Pending(t, k) \/ signal'[t][k] = Found(records', k)
  BY <1>2
<1>10. Sound(records') /\ Storage!Room(records') <= Capacity
  BY <1>2
<1>11. es \in Seq([key : Keys, removed : BOOLEAN])
  BY <1>4
<1> HIDE DEF es, E
<1> QED BY <1>5, <1>6, <1>7, <1>8, <1>9, <1>10, <1>11, WriteKeeps

LEMMA FoundIsValue ==
  ASSUME Sound(records), NEW k
  PROVE  Found(records, k) \in Values \cup {None}
<1>1. CASE \E r \in Records : Holds(records, r) /\ r.key = k
  <2>1. PICK r \in Records : Holds(records, r) /\ r.key = k
    BY <1>1
  <2>2. Found(records, k) = IF r.live THEN r.value ELSE None
    BY <2>1, FoundIs DEF Sound
  <2>3. r.value \in Values
    BY DEF Records
  <2> QED BY <2>2, <2>3
<1>2. CASE ~\E r \in Records : Holds(records, r) /\ r.key = k
  BY <1>2, FoundIs DEF Sound
<1> QED BY <1>1, <1>2

\* Every step keeps the invariant.
LEMMA StorageStep ==
  ASSUME StorageConstants, StorageInv, [Storage!Next]_(Storage!vars)
  PROVE  StorageInv'
<1>0. Storage!TypeOK /\ Sound(records) /\ Storage!Room(records) <= Capacity
  BY SharedBooks DEF StorageInv
<1>1. \A u \in Tabs, j \in Keys : Shown(u, j)
  BY SignalsAreShown DEF StorageInv, Storage!TabsAgree
<1>2. ASSUME NEW t \in Tabs, NEW k \in Keys, Storage!remove(t, k) PROVE StorageInv'
  <2>1. /\ records' = Storage!Without(records, k) /\ Storage!Tell(t, <<Storage!Event(k, TRUE)>>)
        /\ Storage!Shows(t, k, None) /\ Storage!Torn(t, {k}, {})
    BY <1>2 DEF Storage!remove
  <2>2. /\ signal' \in [Tabs -> [Keys -> Values \cup {None}]] /\ signal'[t][k] = None
        /\ \A u \in Tabs, j \in Keys : u # t \/ j # k => signal'[u][j] = signal[u][j]
    BY <1>0, <2>1, TypesKept
  <2>3. /\ torn' \in [Tabs -> SUBSET Keys] /\ torn'[t] = torn[t] \ {k}
        /\ \A u \in Tabs : u # t => torn'[u] = torn[u]
    BY <1>0, <2>1, TornIs
  <2>4. torn[t] \ {k} \subseteq torn'[t]
    BY <2>3
  <2> QED BY <2>1, <2>2, <2>3, <2>4, GoneKeeps
<1>3. ASSUME NEW t \in Tabs, NEW k \in Keys, Storage!Purge(t, k) PROVE StorageInv'
  <2>1. /\ records' = Storage!Without(records, k) /\ Storage!Tell(t, <<Storage!Event(k, TRUE)>>)
        /\ signal' = signal /\ torn' = torn /\ Storage!Read(k) = None
    BY <1>3 DEF Storage!Purge
  <2>2. /\ signal' \in [Tabs -> [Keys -> Values \cup {None}]] /\ torn' \in [Tabs -> SUBSET Keys]
        /\ \A u \in Tabs, j \in Keys : signal'[u][j] = signal[u][j]
    BY <1>0, <2>1 DEF Storage!TypeOK
  <2>3. CASE Told(t, k)
    <3>1. signal[t][k] = None
      BY <1>1, <2>1, <2>3, ReadsFound DEF Shown
    <3>2. torn[t] \ {k} \subseteq torn'[t] /\ \A u \in Tabs : u # t => torn'[u] = torn[u]
      BY <2>1
    <3> QED BY <2>1, <2>2, <3>1, <3>2, GoneKeeps
  <2>4. CASE k \in torn[t]
    <3>1. torn[t] \ {k} \subseteq torn'[t] /\ k \in torn'[t] /\ \A u \in Tabs : u # t => torn'[u] = torn[u]
      BY <2>1, <2>4
    <3> QED BY <2>1, <2>2, <3>1, GoneKeeps
  <2>5. CASE Pending(t, k)
    <3>1. torn[t] \ {k} \subseteq torn'[t] /\ \A u \in Tabs : u # t => torn'[u] = torn[u]
      BY <2>1
    <3> QED BY <2>1, <2>2, <2>5, <3>1, GoneKeeps
  <2> QED BY <2>3, <2>4, <2>5 DEF Told, Pending
<1>4. ASSUME NEW k \in Keys, Storage!Expire(k) PROVE StorageInv'
  <2>1. /\ records' = [i \in DOMAIN records |->
             IF records[i].key = k THEN [records[i] EXCEPT !.live = FALSE] ELSE records[i]]
        /\ torn' = [t \in Tabs |-> torn[t] \cup {k}] /\ signal' = signal /\ inbox' = inbox
    BY <1>4 DEF Storage!Expire
  <2>2. records \in Seq(Records) /\ Len(records) \in Nat /\ DOMAIN records = 1..Len(records)
    BY <1>0 DEF Sound
  <2>3. ASSUME NEW r \in Records
        PROVE  /\ [r EXCEPT !.live = FALSE] \in Records /\ [r EXCEPT !.live = FALSE].key = r.key
               /\ [r EXCEPT !.live = FALSE].value = r.value
    BY DEF Records
  <2>4. \A i \in 1..Len(records) :
          /\ records[i] \in Records /\ records'[i] \in Records
          /\ records'[i].key = records[i].key /\ records'[i].value = records[i].value
          /\ records[i].key # k => records'[i] = records[i]
    BY <2>1, <2>2, <2>3
  <2>5. records' \in Seq(Records) /\ Len(records') = Len(records)
    BY <2>1, <2>2, <2>4
  <2>6. Sound(records') /\ Storage!Room(records') = Storage!Room(records)
    <3>1. OneForEach(records')
      BY <1>0, <2>4, <2>5 DEF OneForEach, Sound
    <3>2. Storage!Room(records') = Storage!Room(records)
      BY <2>2, <2>4, <2>5, RoomLike
    <3> QED BY <2>5, <3>1, <3>2 DEF Sound
  <2>7. \A r \in Records : r.key # k => (Holds(records, r) <=> Holds(records', r))
    BY <2>4, <2>5 DEF Holds
  <2>8. \A j : j # k => Found(records, j) = Found(records', j)
    BY <1>0, <2>6, <2>7, OthersFound
  <2>9. Storage!TypeOK'
    BY <1>0, <2>1, <2>6 DEF Storage!TypeOK, Sound, Records
  <2>10. ASSUME NEW u \in Tabs, NEW j \in Keys PROVE Shown(u, j)'
    <3>1. CASE j = k
      BY <2>1, <3>1, EventsWait
    <3>2. CASE j # k
      <4>1. Unconcerned(u, j)
        BY <2>1, <2>8, <3>2 DEF Unconcerned
      <4> QED BY <1>1, <4>1, UnconcernedKeeps
    <3> QED BY <3>1, <3>2
  <2>11. Storage!RecordsFit'
    BY <1>0, <2>6, SharedBooks
  <2> QED BY <2>9, <2>10, <2>11, SignalsAreShown DEF StorageInv, Storage!TabsAgree
<1>5. ASSUME NEW t \in Tabs, Storage!Deliver(t) PROVE StorageInv'
  <2> DEFINE e == Head(inbox[t])
             Events == [key : Keys, removed : BOOLEAN]
  <2>1. /\ inbox[t] # <<>> /\ inbox' = [inbox EXCEPT ![t] = Tail(@)] /\ records' = records
        /\ Storage!Shows(t, e.key, Storage!Heard(e))
        /\ Storage!Torn(t, {e.key}, IF e.removed /\ Storage!Read(e.key) # None THEN {e.key} ELSE {})
    BY <1>5 DEF Storage!Deliver
  <2>2. inbox \in [Tabs -> Seq(Events)]
    BY <1>0 DEF Storage!TypeOK
  <2>3. e \in Events /\ inbox[t] \in Seq(Events) /\ Tail(inbox[t]) \in Seq(Events)
    <3> HIDE DEF Events
    <3> QED BY <2>1, <2>2
  <2>4. e.key \in Keys /\ e.removed \in BOOLEAN
    BY <2>3
  <2>5. /\ inbox' \in [Tabs -> Seq(Events)] /\ inbox'[t] = Tail(inbox[t])
        /\ \A u \in Tabs : u # t => inbox'[u] = inbox[u]
    <3> HIDE DEF Events
    <3> QED BY <2>1, <2>2, <2>3
  <2>6. \A i \in DOMAIN inbox[t] : i = 1 \/ (i - 1 \in DOMAIN inbox'[t] /\ inbox'[t][i - 1] = inbox[t][i])
    <3> HIDE DEF Events
    <3> QED BY <2>1, <2>3, <2>5
  <2>7. inbox[t][1] = e
    BY <2>1, <2>3
  <2> HIDE DEF e
  <2>8. \A k \in Keys : Found(records, k) \in Values \cup {None}
    BY <1>0, FoundIsValue
  <2>9. Storage!Heard(e) = IF e.removed THEN None ELSE Found(records, e.key)
    BY ReadsFound DEF Storage!Heard
  <2>10. Storage!Heard(e) \in Values \cup {None}
    BY <2>4, <2>8, <2>9
  <2>11. /\ signal' \in [Tabs -> [Keys -> Values \cup {None}]] /\ signal'[t][e.key] = Storage!Heard(e)
         /\ \A u \in Tabs, j \in Keys : u # t \/ j # e.key => signal'[u][j] = signal[u][j]
    BY <1>0, <2>1, <2>4, <2>10, TypesKept
  <2> DEFINE fresh == IF e.removed /\ Storage!Read(e.key) # None THEN {e.key} ELSE {}
  <2>12. fresh \in SUBSET Keys
    BY <2>4
  <2>13. /\ torn' \in [Tabs -> SUBSET Keys] /\ torn'[t] = (torn[t] \ {e.key}) \cup fresh
         /\ \A u \in Tabs : u # t => torn'[u] = torn[u]
    BY <1>0, <2>1, <2>12, TornIs
  <2>14. ASSUME NEW u \in Tabs, NEW j \in Keys PROVE Shown(u, j)'
    <3>1. CASE u # t
      <4>1. Unconcerned(u, j)
        BY <2>1, <2>5, <2>11, <2>13, <3>1 DEF Unconcerned
      <4> QED BY <1>1, <4>1, UnconcernedKeeps
    <3>2. CASE u = t /\ j # e.key
      <4>1. Told(t, j)' => Told(t, j)
        BY <2>6, <2>7, <2>13, <3>2 DEF Told
      <4> QED BY <1>1, <2>1, <2>11, <3>2, <4>1 DEF Shown
    <3>3. CASE u = t /\ j = e.key
      <4>1. CASE e.removed /\ Found(records, e.key) # None
        <5>1. fresh = {e.key}
          BY <4>1, ReadsFound
        <5> HIDE DEF fresh
        <5>2. e.key \in torn'[t]
          BY <2>13, <5>1
        <5> QED BY <3>3, <5>2, EventsWait
      <4>2. CASE ~e.removed \/ Found(records, e.key) = None
        <5>1. signal'[t][e.key] = Found(records, e.key)
          BY <2>4, <2>9, <2>11, <4>2
        <5> QED BY <2>1, <3>3, <5>1 DEF Shown
      <4> QED BY <4>1, <4>2
    <3> QED BY <3>1, <3>2, <3>3
  <2>15. Storage!TypeOK'
    BY <1>0, <2>1, <2>5, <2>11, <2>13 DEF Storage!TypeOK
  <2>16. Storage!RecordsFit'
    BY <1>0, <2>1, SharedBooks
  <2> QED BY <2>14, <2>15, <2>16, SignalsAreShown DEF StorageInv, Storage!TabsAgree
<1>6. ASSUME NEW t \in Tabs, Storage!Reload(t) PROVE StorageInv'
  <2>1. /\ inbox' = [inbox EXCEPT ![t] = <<>>] /\ torn' = [torn EXCEPT ![t] = {}] /\ records' = records
        /\ signal' = [signal EXCEPT ![t] = [k \in Keys |-> Storage!Read(k)]]
    BY <1>6 DEF Storage!Reload
  <2>2. signal \in [Tabs -> [Keys -> Values \cup {None}]]
    BY <1>0 DEF Storage!TypeOK
  <2>3. \A k \in Keys : Storage!Read(k) = Found(records, k) /\ Found(records, k) \in Values \cup {None}
    BY <1>0, FoundIsValue, ReadsFound
  <2>4. /\ signal' \in [Tabs -> [Keys -> Values \cup {None}]]
        /\ \A j \in Keys : signal'[t][j] = Found(records, j)
        /\ \A u \in Tabs : u # t => signal'[u] = signal[u]
    BY <2>1, <2>2, <2>3
  <2>5. Storage!TypeOK'
    <3>1. /\ inbox \in [Tabs -> Seq([key : Keys, removed : BOOLEAN])] /\ torn \in [Tabs -> SUBSET Keys]
          /\ records \in Seq([key : Keys, value : Values, live : BOOLEAN])
      BY <1>0 DEF Storage!TypeOK
    <3>2. <<>> \in Seq([key : Keys, removed : BOOLEAN])
      OBVIOUS
    <3>3. inbox' \in [Tabs -> Seq([key : Keys, removed : BOOLEAN])]
      BY <2>1, <3>1, <3>2
    <3>4. torn' \in [Tabs -> SUBSET Keys]
      BY <2>1, <3>1
    <3> QED BY <2>1, <2>4, <3>1, <3>3, <3>4 DEF Storage!TypeOK
  <2>6. \A u \in Tabs : u # t => inbox'[u] = inbox[u] /\ torn'[u] = torn[u]
    BY <2>1
  <2>7. ASSUME NEW u \in Tabs, NEW j \in Keys PROVE Shown(u, j)'
    <3>1. CASE u = t
      BY <2>1, <2>4, <3>1 DEF Shown
    <3>2. CASE u # t
      <4>1. Unconcerned(u, j)
        BY <2>1, <2>4, <2>6, <3>2 DEF Unconcerned
      <4> QED BY <1>1, <4>1, UnconcernedKeeps
    <3> QED BY <3>1, <3>2
  <2>8. Storage!RecordsFit'
    BY <1>0, <2>1, SharedBooks
  <2> QED BY <2>5, <2>7, <2>8, SignalsAreShown DEF StorageInv, Storage!TabsAgree
<1>7. CASE UNCHANGED Storage!vars
  <2>1. records' = records /\ signal' = signal /\ inbox' = inbox /\ torn' = torn
    BY <1>7 DEF Storage!vars
  <2>2. \A u \in Tabs, j \in Keys : Unconcerned(u, j)
    BY <2>1 DEF Unconcerned
  <2>3. \A u \in Tabs, j \in Keys : Shown(u, j)'
    BY <1>1, <2>2, UnconcernedKeeps
  <2>4. Storage!TypeOK'
    BY <1>0, <2>1 DEF Storage!TypeOK
  <2>5. Storage!RecordsFit'
    BY <1>0, <2>1, SharedBooks
  <2> QED BY <2>3, <2>4, <2>5, SignalsAreShown DEF StorageInv, Storage!TabsAgree
<1> QED BY <1>2, <1>3, <1>4, <1>5, <1>6, <1>7, SetKeeps DEF Storage!Next

LEMMA StorageInit ==
  ASSUME StorageConstants, Storage!Init
  PROVE  StorageInv
<1>1. /\ records = <<>> /\ \A t \in Tabs : signal[t] = [k \in Keys |-> None]
      /\ inbox = [t \in Tabs |-> <<>>] /\ torn = [t \in Tabs |-> {}]
  BY DEF Storage!Init
<1>2. Storage!TypeOK
  BY DEF Storage!Init, Storage!TypeOK
<1>3. Sound(records)
  BY <1>1 DEF Sound, OneForEach, Records
<1>4. Storage!Room(records) = 0
  BY <1>1, <1>3, RoomIs DEF Sound, Rooms
<1>5. Storage!RecordsFit
  BY <1>1, <1>4 DEF Storage!RecordsFit, StorageConstants
<1>6. \A k \in Keys : Found(records, k) = None
  <2>1. records \in Seq(Records) /\ OneForEach(records)
    BY <1>3 DEF Sound
  <2>2. \A r \in Records : ~Holds(records, r)
    BY <1>1 DEF Holds
  <2> QED BY <2>1, <2>2, FoundIs
<1>7. \A t \in Tabs, k \in Keys : Shown(t, k)
  BY <1>1, <1>6 DEF Shown
<1> QED BY <1>2, <1>5, <1>7, SignalsAreShown DEF StorageInv, Storage!TabsAgree

\* Tabs agree with the records they share, whatever the order their events arrive in.
THEOREM TabsStayInStep == StorageConstants => (Storage!Spec => []Storage!TabsAgree)
<1> SUFFICES ASSUME StorageConstants PROVE Storage!Spec => []Storage!TabsAgree
  OBVIOUS
<1>1. Storage!Init => StorageInv
  BY StorageInit
<1>2. StorageInv /\ [Storage!Next]_(Storage!vars) => StorageInv'
  BY StorageStep
<1>3. StorageInv => Storage!TabsAgree
  BY DEF StorageInv
<1> QED BY <1>1, <1>2, <1>3, PTL DEF Storage!Spec
-----------------------------------------------------------------------------
(* The stores of one name. *)

LifecycleConstants == Subscribers \cap {"persist", "plugin", "nobody"} = {}

Names == Stores!Called
StoreRecords ==
  [kept : Nat, other : Nat, subs : Seq(Names), heard : [Names -> Nat], missed : SUBSET Names,
   disposed : BOOLEAN]
Notifications == [of : Nat, rest : Seq(Names), in : Names \cup {"nobody"}]

StoresTyped ==
  /\ stores \in Seq(StoreRecords) /\ current \in 0..Len(stores) /\ mutations \in Nat
  /\ saved \in Nat \cup {Stores!Nothing} /\ refused \in BOOLEAN
  /\ telling \in Seq(Notifications) /\ \A i \in 1..Len(telling) : telling[i].of \in 1..Len(stores)

\* persist is the first one told, and once.
LedByPersist(q) == Len(q) >= 1 /\ q[1] = "persist" /\ \A j \in 2..Len(q) : q[j] # "persist"

\* Only the store in the registry is not disposed.
PersistComesFirst ==
  \A s \in 1..Len(stores) :
    /\ stores[s].disposed <=> s # current
    /\ s = current => LedByPersist(stores[s].subs)

\* As long as persist has to be told there is nobody who runs: it is next.
PersistIsNext ==
  \A i \in 1..Len(telling) : \A j \in 1..Len(telling[i].rest) : telling[i].rest[j] = "persist" =>
    j = 1 /\ i = Len(telling) /\ telling[i].of = current /\ telling[i].in = "nobody"

StoresInv ==
  StoresTyped /\ PersistComesFirst /\ PersistIsNext /\ Stores!StoredIsState /\ Stores!SubscribersHeard

\* Whom the notifications qs will tell of store s.
Waits(qs, s, x) == \E i \in 1..Len(qs) : qs[i].of = s /\ \E j \in 1..Len(qs[i].rest) : qs[i].rest[j] = x

\* Who is still to be told, in the words of the notifications under way.
LEMMA DueIs ==
  /\ StoresTyped => \A s, x : Stores!IsDue(s, x) <=> Waits(telling, s, x)
  /\ StoresTyped' => \A s, x : Stores!IsDue(s, x)' <=> Waits(telling', s, x)
<1>1. ASSUME StoresTyped PROVE \A i \in 1..Len(telling) : DOMAIN telling[i].rest = 1..Len(telling[i].rest)
  <2>1. \A i \in 1..Len(telling) : telling[i] \in Notifications
    BY <1>1 DEF StoresTyped
  <2> QED BY <2>1 DEF Notifications
<1>2. ASSUME StoresTyped' PROVE \A i \in 1..Len(telling') : DOMAIN telling'[i].rest = 1..Len(telling'[i].rest)
  <2>1. \A i \in 1..Len(telling') : telling'[i] \in Notifications
    BY <1>2 DEF StoresTyped
  <2> QED BY <2>1 DEF Notifications
<1> QED BY <1>1, <1>2 DEF Stores!IsDue, Waits, Stores!ToSet

\* Who listens to st has heard of its newest version, or will.
HasHeard(st, s, qs) ==
  st.disposed \/ \A j \in 1..Len(st.subs) :
    Waits(qs, s, st.subs[j]) \/ st.subs[j] \in st.missed \/ st.heard[st.subs[j]] = Stores!Version(st)

LEMMA HeardIs ==
  /\ StoresTyped => (Stores!SubscribersHeard <=> \A s \in 1..Len(stores) : HasHeard(stores[s], s, telling))
  /\ StoresTyped' => (Stores!SubscribersHeard' <=> \A s \in 1..Len(stores') : HasHeard(stores'[s], s, telling'))
<1>1. ASSUME StoresTyped PROVE \A s \in 1..Len(stores) : DOMAIN stores[s].subs = 1..Len(stores[s].subs)
  <2>1. \A s \in 1..Len(stores) : stores[s] \in StoreRecords
    BY <1>1 DEF StoresTyped
  <2> QED BY <2>1 DEF StoreRecords
<1>2. ASSUME StoresTyped' PROVE \A s \in 1..Len(stores') : DOMAIN stores'[s].subs = 1..Len(stores'[s].subs)
  <2>1. \A s \in 1..Len(stores') : stores'[s] \in StoreRecords
    BY <1>2 DEF StoresTyped
  <2> QED BY <2>1 DEF StoreRecords
<1>3. ASSUME StoresTyped
      PROVE  Stores!SubscribersHeard <=> \A s \in 1..Len(stores) : HasHeard(stores[s], s, telling)
  <2>1. ASSUME NEW s \in 1..Len(stores)
        PROVE  HasHeard(stores[s], s, telling) <=>
                 (~stores[s].disposed => \A x \in Stores!ToSet(stores[s].subs) :
                    Waits(telling, s, x) \/ x \in stores[s].missed \/ stores[s].heard[x] = Stores!Version(stores[s]))
    BY <1>1, <1>3 DEF HasHeard, Stores!ToSet
  <2> QED BY <1>3, <2>1, DueIs DEF Stores!SubscribersHeard
<1>4. ASSUME StoresTyped'
      PROVE  Stores!SubscribersHeard' <=> \A s \in 1..Len(stores') : HasHeard(stores'[s], s, telling')
  <2>1. ASSUME NEW s \in 1..Len(stores')
        PROVE  HasHeard(stores'[s], s, telling') <=>
                 (~stores'[s].disposed => \A x \in Stores!ToSet(stores'[s].subs) :
                    \/ Waits(telling', s, x) \/ x \in stores'[s].missed
                    \/ stores'[s].heard[x] = Stores!Version(stores'[s]))
    BY <1>2, <1>4 DEF HasHeard, Stores!ToSet
  <2> QED BY <1>4, <2>1, DueIs DEF Stores!SubscribersHeard
<1> QED BY <1>3, <1>4

\* What is saved is what the store st has, unless persist waits in qs.
IsStored(st, was, refusal, qs) ==
  ~refusal /\ ~Waits(qs, current, "persist") => was = st.kept \/ (was = Stores!Nothing /\ st.kept = 0)

\* A step edits one store.
LEMMA EditStore ==
  ASSUME StoresTyped, NEW s \in 1..Len(stores), NEW st \in StoreRecords,
         stores' = [stores EXCEPT ![s] = st]
  PROVE  /\ stores' \in Seq(StoreRecords) /\ Len(stores') = Len(stores) /\ stores'[s] = st
         /\ \A u \in 1..Len(stores) : stores'[u] \in StoreRecords /\ (u # s => stores'[u] = stores[u])
<1>1. stores \in Seq(StoreRecords)
  BY DEF StoresTyped
<1> QED BY <1>1

\* The application runs only when persist has been told.
LEMMA NobodyWaitsForPersist ==
  ASSUME LifecycleConstants, StoresTyped, PersistIsNext, Stores!AppRuns
  PROVE  \A s : ~Waits(telling, s, "persist")
<1> SUFFICES ASSUME NEW i \in 1..Len(telling), NEW j \in 1..Len(telling[i].rest), telling[i].rest[j] = "persist"
             PROVE  FALSE
  BY DEF Waits
<1>1. i = Len(telling) /\ telling[i].in = "nobody"
  BY DEF PersistIsNext
<1>2. telling # <<>>
  BY DEF StoresTyped
<1>3. telling[Len(telling)].in \in Subscribers \cup {"plugin"}
  BY <1>2 DEF Stores!AppRuns, Stores!Last
<1> QED BY <1>1, <1>3 DEF LifecycleConstants

LEMMA StoreIsRecord ==
  ASSUME StoresTyped, NEW s \in 1..Len(stores)
  PROVE  /\ stores[s] \in StoreRecords /\ stores[s].kept \in Nat /\ stores[s].other \in Nat
         /\ stores[s].subs \in Seq(Names) /\ stores[s].heard \in [Names -> Nat]
         /\ stores[s].missed \in SUBSET Names /\ stores[s].disposed \in BOOLEAN
<1>1. stores[s] \in StoreRecords
  BY DEF StoresTyped
<1> QED BY <1>1 DEF StoreRecords

\* An edit of one store that leaves what is saved alone.
LEMMA EditKeeps ==
  ASSUME StoresInv, NEW s \in 1..Len(stores), NEW st \in StoreRecords,
         stores' = [stores EXCEPT ![s] = st], st.disposed <=> stores[s].disposed,
         s = current => LedByPersist(st.subs) /\ st.kept = stores[s].kept, HasHeard(st, s, telling),
         mutations' \in Nat, UNCHANGED <<current, saved, refused, telling>>
  PROVE  StoresInv'
<1>0. StoresTyped /\ PersistComesFirst /\ PersistIsNext
  BY DEF StoresInv
<1>1. /\ stores' \in Seq(StoreRecords) /\ Len(stores') = Len(stores) /\ stores'[s] = st
      /\ \A u \in 1..Len(stores) : stores'[u] \in StoreRecords /\ (u # s => stores'[u] = stores[u])
  BY <1>0, EditStore
<1>2. StoresTyped'
  BY <1>0, <1>1 DEF StoresTyped
<1>3. PersistComesFirst'
  BY <1>0, <1>1 DEF PersistComesFirst
<1>4. PersistIsNext'
  BY <1>0 DEF PersistIsNext
<1>5. current \in 1..Len(stores) => stores'[current].kept = stores[current].kept
  BY <1>1
<1>6. Stores!StoredIsState'
  <2>1. Stores!StoredIsState /\ (current # 0 => current \in 1..Len(stores))
    BY <1>0 DEF StoresInv, StoresTyped
  <2> QED BY <1>0, <1>2, <1>5, <2>1, DueIs DEF Stores!StoredIsState
<1>7. \A u \in 1..Len(stores) : HasHeard(stores'[u], u, telling)
  BY <1>0, <1>1, HeardIs DEF StoresInv
<1>8. Stores!SubscribersHeard'
  BY <1>1, <1>2, <1>7, HeardIs
<1> QED BY <1>2, <1>3, <1>4, <1>6, <1>8 DEF StoresInv

\* A subscriber that is new is last, behind persist, and has heard of this version.
LEMMA SubscribeKeeps ==
  ASSUME LifecycleConstants, StoresInv, NEW s \in 1..Len(stores), NEW x \in Subscribers,
         Stores!subscribe(s, x)
  PROVE  StoresInv'
<1>0. StoresTyped /\ PersistComesFirst
  BY DEF StoresInv
<1> DEFINE o == stores[s]
           v == Stores!Version(o)
           st == [o EXCEPT !.subs = Append(@, x), !.heard[x] = v, !.missed = @ \ {x}]
<1>1. /\ o \in StoreRecords /\ o.kept \in Nat /\ o.other \in Nat /\ o.subs \in Seq(Names)
      /\ o.heard \in [Names -> Nat] /\ o.missed \in SUBSET Names /\ o.disposed \in BOOLEAN
  BY <1>0, StoreIsRecord
<1>2. x \in Names /\ x # "persist"
  BY DEF LifecycleConstants, Names, Stores!Called
<1>3. stores' = [stores EXCEPT ![s] = st] /\ UNCHANGED <<current, saved, refused, telling, mutations>>
  BY DEF Stores!subscribe
<1>4. v \in Nat
  BY <1>1 DEF Stores!Version
<1>5. /\ st.kept = o.kept /\ st.other = o.other /\ st.subs = Append(o.subs, x)
      /\ st.heard = [o.heard EXCEPT ![x] = v] /\ st.missed = o.missed \ {x} /\ st.disposed = o.disposed
      /\ st = [kept |-> o.kept, other |-> o.other, subs |-> Append(o.subs, x),
               heard |-> [o.heard EXCEPT ![x] = v], missed |-> o.missed \ {x}, disposed |-> o.disposed]
  <2> HIDE DEF v, o
  <2>1. o = [kept |-> o.kept, other |-> o.other, subs |-> o.subs, heard |-> o.heard,
             missed |-> o.missed, disposed |-> o.disposed]
    BY <1>1 DEF StoreRecords
  <2>2. DOMAIN st = {"kept", "other", "subs", "heard", "missed", "disposed"}
    BY <2>1
  <2>3. st.kept = o.kept /\ st.other = o.other /\ st.disposed = o.disposed
    BY <2>1
  <2>4. st.subs = Append(o.subs, x)
    BY <2>1
  <2>5. st.heard = [o.heard EXCEPT ![x] = v]
    BY <2>1
  <2>6. st.missed = o.missed \ {x}
    BY <2>1
  <2>7. st = [i \in {"kept", "other", "subs", "heard", "missed", "disposed"} |-> st[i]]
    BY <2>2
  <2> HIDE DEF st
  <2> QED BY <2>2, <2>3, <2>4, <2>5, <2>6, <2>7
<1>6. HasHeard(o, s, telling) /\ (s = current => LedByPersist(o.subs))
  BY <1>0, HeardIs DEF StoresInv, PersistComesFirst
<1>7. Stores!Version(st) = v
  BY <1>5 DEF Stores!Version
<1> HIDE DEF st, v, o
<1>8. Append(o.subs, x) \in Seq(Names) /\ [o.heard EXCEPT ![x] = v] \in [Names -> Nat]
  BY <1>1, <1>2, <1>4
<1>9. st \in StoreRecords
  BY <1>1, <1>5, <1>8 DEF StoreRecords
<1>10. s = current => LedByPersist(st.subs) /\ st.kept = stores[s].kept
  BY <1>1, <1>2, <1>5, <1>6 DEF LedByPersist, o
<1>11. HasHeard(st, s, telling)
  <2> SUFFICES ASSUME ~st.disposed, NEW j \in 1..Len(st.subs)
               PROVE  Waits(telling, s, st.subs[j]) \/ st.subs[j] \in st.missed \/ st.heard[st.subs[j]] = v
    BY <1>7 DEF HasHeard
  <2>1. CASE st.subs[j] = x
    BY <1>1, <1>2, <1>5, <2>1
  <2>2. CASE st.subs[j] # x
    <3>1. j \in 1..Len(o.subs) /\ st.subs[j] = o.subs[j]
      BY <1>1, <1>5, <2>2
    <3>2. Waits(telling, s, o.subs[j]) \/ o.subs[j] \in o.missed \/ o.heard[o.subs[j]] = v
      BY <1>5, <1>6, <3>1 DEF HasHeard, v
    <3>3. o.subs[j] \in Names
      BY <1>1, <3>1
    <3> QED BY <1>1, <1>5, <2>2, <3>1, <3>2, <3>3
  <2> QED BY <2>1, <2>2
<1>12. (st.disposed <=> stores[s].disposed) /\ mutations' \in Nat
  BY <1>0, <1>3, <1>5 DEF o, StoresTyped
<1> QED BY <1>3, <1>9, <1>10, <1>11, <1>12, EditKeeps

\* A set of numbers has a least one: the place RemoveFirst takes from.
LEMMA LeastExists ==
  ASSUME NEW X \in SUBSET Nat, X # {}
  PROVE  \E m \in X : \A n \in X : m <= n
<1> DEFINE less == {ss \in Nat \X Nat : ss[1] < ss[2]}
<1>1. IsWellFoundedOn(less, Nat)
  BY NatLessThanWellFounded, Zenon DEF OpToRel
<1> HIDE DEF less
<1>2. PICK m \in X : \A n \in X : ~(<<n, m>> \in less)
  BY <1>1, WFMin
<1>3. ASSUME NEW n \in X PROVE m <= n
  <2>1. ~(n < m)
    BY <1>2, <1>3 DEF less
  <2> QED BY <2>1, <1>2, <1>3
<1> QED BY <1>2, <1>3

LEMMA RemoveFirstIs ==
  ASSUME NEW q \in Seq(Names), NEW x, \E i \in 1..Len(q) : q[i] = x
  PROVE  \E i \in 1..Len(q) : q[i] = x /\ Stores!RemoveFirst(q, x) = Stores!RemoveAt(q, i)
<1> DEFINE I == {i \in 1..Len(q) : q[i] = x}
<1>1. Stores!RemoveFirst(q, x) = Stores!RemoveAt(q, Stores!Min(I))
  BY DEF Stores!RemoveFirst, Stores!SelectInSeq
<1>2. I # {} /\ I \in SUBSET Nat
  OBVIOUS
<1>3. Stores!Min(I) \in I
  <2> HIDE DEF I
  <2>1. \E m \in I : \A n \in I : m <= n
    BY <1>2, LeastExists
  <2> QED BY <2>1 DEF Stores!Min
<1> QED BY <1>1, <1>3

\* One that leaves is not persist.
LEMMA UnsubscribeKeeps ==
  ASSUME LifecycleConstants, StoresInv, NEW s \in 1..Len(stores), NEW x \in Subscribers,
         Stores!Unsubscribe(s, x)
  PROVE  StoresInv'
<1>0. StoresTyped /\ PersistComesFirst
  BY DEF StoresInv
<1> DEFINE o == stores[s]
           q == Stores!RemoveFirst(o.subs, x)
           st == [o EXCEPT !.subs = q]
<1>1. /\ o \in StoreRecords /\ o.kept \in Nat /\ o.other \in Nat /\ o.subs \in Seq(Names)
      /\ o.heard \in [Names -> Nat] /\ o.missed \in SUBSET Names /\ o.disposed \in BOOLEAN
  BY <1>0, StoreIsRecord
<1>2. x \in Names /\ x # "persist"
  BY DEF LifecycleConstants, Names, Stores!Called
<1>3. /\ stores' = [stores EXCEPT ![s].subs = q] /\ UNCHANGED <<current, saved, refused, telling, mutations>>
      /\ x \in Stores!ToSet(o.subs)
  BY DEF Stores!Unsubscribe
<1> HIDE DEF q
<1>4. stores' = [stores EXCEPT ![s] = st]
  BY <1>3
<1>5. PICK i \in 1..Len(o.subs) : o.subs[i] = x /\ q = Stores!RemoveAt(o.subs, i)
  <2>1. o.subs \in Seq(Names) /\ \E i \in 1..Len(o.subs) : o.subs[i] = x
    BY <1>1, <1>3 DEF Stores!ToSet
  <2> HIDE DEF o
  <2> QED BY <2>1, RemoveFirstIs DEF q
<1>6. /\ q \in Seq(Names) /\ Len(q) = Len(o.subs) - 1
      /\ \A j \in 1..(Len(o.subs) - 1) : q[j] = IF j < i THEN o.subs[j] ELSE o.subs[j + 1]
  <2>1. Stores!RemoveAt(o.subs, i) = Storage!RemoveAt(o.subs, i)
    BY DEF Stores!RemoveAt, Storage!RemoveAt
  <2> QED BY <1>1, <1>5, <2>1, RemovalFacts
<1>7. HasHeard(o, s, telling) /\ (s = current => LedByPersist(o.subs))
  BY <1>0, HeardIs DEF StoresInv, PersistComesFirst
<1>8. /\ st.kept = o.kept /\ st.other = o.other /\ st.subs = q
      /\ st.heard = o.heard /\ st.missed = o.missed /\ st.disposed = o.disposed /\ st \in StoreRecords
  BY <1>1, <1>6 DEF StoreRecords
<1>9. Stores!Version(st) = Stores!Version(o)
  BY <1>8 DEF Stores!Version
<1>10. Len(o.subs) \in Nat
  BY <1>1
<1> HIDE DEF st
<1>11. s = current => LedByPersist(st.subs) /\ st.kept = stores[s].kept
  <2> SUFFICES ASSUME s = current PROVE LedByPersist(q)
    BY <1>8
  <2>1. Len(o.subs) >= 1 /\ o.subs[1] = "persist" /\ \A j \in 2..Len(o.subs) : o.subs[j] # "persist"
    BY <1>7 DEF LedByPersist
  <2>2. i # 1
    BY <1>2, <1>5, <2>1
  <2> HIDE DEF o
  <2>3. i >= 2 /\ Len(o.subs) >= 2 /\ 1 \in 1..(Len(o.subs) - 1)
    BY <1>5, <1>10, <2>2
  <2>4. q[1] = "persist" /\ Len(q) >= 1
    BY <1>6, <1>10, <2>1, <2>3
  <2>5. ASSUME NEW j \in 2..Len(q) PROVE q[j] # "persist"
    <3>1. j \in 1..(Len(o.subs) - 1) /\ j \in 2..Len(o.subs) /\ j + 1 \in 2..Len(o.subs)
      BY <1>6, <1>10
    <3> QED BY <1>6, <2>1, <3>1
  <2> QED BY <2>4, <2>5 DEF LedByPersist
<1>12. HasHeard(st, s, telling)
  <2> SUFFICES ASSUME ~o.disposed, NEW j \in 1..Len(q)
               PROVE  Waits(telling, s, q[j]) \/ q[j] \in o.missed \/ o.heard[q[j]] = Stores!Version(o)
    BY <1>8, <1>9 DEF HasHeard
  <2>1. \E m \in 1..Len(o.subs) : q[j] = o.subs[m]
    BY <1>5, <1>6, <1>10
  <2> QED BY <1>7, <2>1 DEF HasHeard
<1>13. (st.disposed <=> stores[s].disposed) /\ mutations' \in Nat
  BY <1>0, <1>3, <1>8 DEF StoresTyped
<1> QED BY <1>3, <1>4, <1>8, <1>11, <1>12, <1>13, EditKeeps

\* A mutation tells everybody, persist first.
LEMMA ChangeKeeps ==
  ASSUME LifecycleConstants, StoresInv, NEW s \in 1..Len(stores), NEW part \in {"kept", "other"},
         Stores!Change(s, part)
  PROVE  StoresInv'
<1>0. StoresTyped /\ PersistComesFirst /\ PersistIsNext
  BY DEF StoresInv
<1> DEFINE o == stores[s]
           n == mutations + 1
           st == IF part = "kept" THEN [o EXCEPT !.kept = n] ELSE [o EXCEPT !.other = n]
           new == [of |-> s, rest |-> o.subs, in |-> "nobody"]
<1>1. /\ o \in StoreRecords /\ o.kept \in Nat /\ o.other \in Nat /\ o.subs \in Seq(Names)
      /\ o.heard \in [Names -> Nat] /\ o.missed \in SUBSET Names /\ o.disposed \in BOOLEAN
  BY <1>0, StoreIsRecord
<1>2. /\ stores' = [stores EXCEPT ![s] = st] /\ mutations' = n /\ UNCHANGED <<current, saved, refused>>
      /\ telling' = (IF o.disposed THEN telling ELSE Append(telling, new)) /\ Stores!AppRuns
  BY DEF Stores!Change, Stores!Notified
<1>3. n \in Nat
  BY <1>0 DEF StoresTyped
<1> HIDE DEF n
<1>4. st \in StoreRecords /\ st.subs = o.subs /\ st.missed = o.missed /\ (st.disposed <=> o.disposed)
  BY <1>1, <1>3 DEF StoreRecords
<1> HIDE DEF st
<1>5. CASE o.disposed
  <2>1. s # current
    BY <1>0, <1>5 DEF PersistComesFirst
  <2>2. HasHeard(st, s, telling)
    BY <1>4, <1>5 DEF HasHeard
  <2> QED BY <1>2, <1>3, <1>4, <1>5, <2>1, <2>2, EditKeeps
<1>6. CASE ~o.disposed
  <2>1. s = current /\ telling' = Append(telling, new) /\ LedByPersist(o.subs)
    BY <1>0, <1>2, <1>6 DEF PersistComesFirst
  <2>2. /\ stores' \in Seq(StoreRecords) /\ Len(stores') = Len(stores) /\ stores'[s] = st
        /\ \A u \in 1..Len(stores) : stores'[u] \in StoreRecords /\ (u # s => stores'[u] = stores[u])
    BY <1>0, <1>2, <1>4, EditStore
  <2>3. new \in Notifications /\ new.of = s /\ new.rest = o.subs /\ new.in = "nobody"
    BY <1>1 DEF Notifications
  <2>4. telling \in Seq(Notifications) /\ \A i \in 1..Len(telling) : telling[i].of \in 1..Len(stores)
    BY <1>0 DEF StoresTyped
  <2> HIDE DEF new, o
  <2>5. /\ telling' \in Seq(Notifications) /\ Len(telling') = Len(telling) + 1 /\ telling'[Len(telling) + 1] = new
        /\ \A i \in 1..Len(telling) : telling'[i] = telling[i]
    BY <2>1, <2>3, <2>4
  <2>6. StoresTyped'
    BY <1>0, <1>2, <1>3, <2>2, <2>3, <2>4, <2>5 DEF StoresTyped
  <2>7. PersistComesFirst'
    BY <1>0, <1>2, <1>4, <2>1, <2>2 DEF PersistComesFirst, o
  <2>8. \A u : ~Waits(telling, u, "persist")
    BY <1>0, <1>2, NobodyWaitsForPersist
  <2>9. PersistIsNext'
    <3> SUFFICES ASSUME NEW i \in 1..Len(telling'), NEW j \in 1..Len(telling'[i].rest),
                        telling'[i].rest[j] = "persist"
                 PROVE  j = 1 /\ i = Len(telling') /\ telling'[i].of = current' /\ telling'[i].in = "nobody"
      BY DEF PersistIsNext
    <3>1. i \notin 1..Len(telling)
      BY <2>5, <2>8 DEF Waits
    <3>2. i = Len(telling) + 1
      BY <2>4, <2>5, <3>1
    <3> QED BY <1>1, <1>2, <2>1, <2>3, <2>5, <3>2 DEF LedByPersist
  <2>10. \A u, x : Waits(telling, u, x) => Waits(telling', u, x)
    BY <2>4, <2>5 DEF Waits
  <2>11. \A j \in 1..Len(o.subs) : Waits(telling', s, o.subs[j])
    <3>1. /\ Len(telling) + 1 \in 1..Len(telling') /\ telling'[Len(telling) + 1].of = s
          /\ telling'[Len(telling) + 1].rest = o.subs
      BY <2>3, <2>4, <2>5
    <3> QED BY <3>1 DEF Waits
  <2>12. Stores!StoredIsState'
    <3>1. Waits(telling', current, "persist")
      BY <1>1, <2>1, <2>11 DEF LedByPersist
    <3> QED BY <1>2, <2>6, <3>1, DueIs DEF Stores!StoredIsState
  <2>13. \A u \in 1..Len(stores) : HasHeard(stores'[u], u, telling')
    <3> SUFFICES ASSUME NEW u \in 1..Len(stores) PROVE HasHeard(stores'[u], u, telling')
      OBVIOUS
    <3>1. CASE u = s
      BY <1>4, <2>2, <2>11, <3>1 DEF HasHeard
    <3>2. CASE u # s
      <4>1. HasHeard(stores[u], u, telling) /\ stores'[u] = stores[u]
        BY <1>0, <2>2, <3>2, HeardIs DEF StoresInv
      <4> QED BY <2>10, <4>1 DEF HasHeard
    <3> QED BY <3>1, <3>2
  <2>14. Stores!SubscribersHeard'
    BY <2>2, <2>6, <2>13, HeardIs
  <2> QED BY <2>6, <2>7, <2>9, <2>12, <2>14 DEF StoresInv
<1> QED BY <1>1, <1>5, <1>6

\* Persist stores the state or is refused; others hear and may go on mutating.
LEMMA CallNextKeeps ==
  ASSUME LifecycleConstants, StoresInv, Stores!CallNext
  PROVE  StoresInv'
<1>0. StoresTyped /\ PersistComesFirst /\ PersistIsNext
  BY DEF StoresInv
<1> DEFINE n == Len(telling)
           top == telling[n]
           x == Head(top.rest)
           s == top.of
           o == stores[s]
           st == [o EXCEPT !.heard[x] = Stores!Version(o), !.missed = @ \ {x}]
           next == [top EXCEPT !.rest = Tail(top.rest), !.in = x]
<1>1. /\ telling # <<>> /\ top.rest # <<>> /\ telling' = [telling EXCEPT ![n] = next]
      /\ stores' = [stores EXCEPT ![s] = st] /\ UNCHANGED <<current, mutations>>
      /\ IF x = "persist"
         THEN \/ saved' = o.kept /\ refused' = FALSE
              \/ refused' = TRUE /\ UNCHANGED saved
         ELSE UNCHANGED <<saved, refused>>
  BY DEF Stores!CallNext, Stores!Last
<1>2. telling \in Seq(Notifications) /\ n \in Nat /\ n \in 1..Len(telling) /\ \A i \in 1..n : telling[i] \in Notifications
  BY <1>0, <1>1 DEF StoresTyped
<1> HIDE DEF n
<1>3. top \in Notifications /\ top.of \in Nat /\ top.rest \in Seq(Names) /\ s \in 1..Len(stores)
  BY <1>0, <1>2 DEF StoresTyped, Notifications, n
<1>4. /\ o \in StoreRecords /\ o.kept \in Nat /\ o.other \in Nat /\ o.subs \in Seq(Names)
      /\ o.heard \in [Names -> Nat] /\ o.missed \in SUBSET Names /\ o.disposed \in BOOLEAN
  BY <1>0, <1>3, StoreIsRecord
<1>5. x = top.rest[1] /\ x \in Names /\ 1 \in 1..Len(top.rest) /\ Len(top.rest) \in Nat
      /\ Tail(top.rest) \in Seq(Names) /\ Len(Tail(top.rest)) = Len(top.rest) - 1
      /\ \A j \in 1..(Len(top.rest) - 1) : Tail(top.rest)[j] = top.rest[j + 1]
  BY <1>1, <1>3
<1>6. next \in Notifications /\ next.of = s /\ next.rest = Tail(top.rest) /\ next.in = x
  BY <1>3, <1>5 DEF Notifications
<1> HIDE DEF next, x
<1>7. Stores!Version(o) \in Nat
  BY <1>4 DEF Stores!Version
<1>8. /\ st.kept = o.kept /\ st.other = o.other /\ st.subs = o.subs /\ st.disposed = o.disposed
      /\ st.heard = [o.heard EXCEPT ![x] = Stores!Version(o)] /\ st.missed = o.missed \ {x}
      /\ st = [kept |-> o.kept, other |-> o.other, subs |-> o.subs,
               heard |-> [o.heard EXCEPT ![x] = Stores!Version(o)], missed |-> o.missed \ {x},
               disposed |-> o.disposed]
  <2> HIDE DEF o
  <2>1. o = [kept |-> o.kept, other |-> o.other, subs |-> o.subs, heard |-> o.heard,
             missed |-> o.missed, disposed |-> o.disposed]
    BY <1>4 DEF StoreRecords
  <2>2. DOMAIN st = {"kept", "other", "subs", "heard", "missed", "disposed"}
    BY <2>1
  <2>3. st.kept = o.kept /\ st.other = o.other /\ st.subs = o.subs /\ st.disposed = o.disposed
    BY <2>1
  <2>5. st.heard = [o.heard EXCEPT ![x] = Stores!Version(o)]
    BY <2>1
  <2>6. st.missed = o.missed \ {x}
    BY <2>1
  <2>7. st = [i \in {"kept", "other", "subs", "heard", "missed", "disposed"} |-> st[i]]
    BY <2>2
  <2> HIDE DEF st
  <2> QED BY <2>2, <2>3, <2>5, <2>6, <2>7
<1>9. Stores!Version(st) = Stores!Version(o)
  BY <1>8 DEF Stores!Version
<1> HIDE DEF st
<1>10. st \in StoreRecords
  <2>1. [o.heard EXCEPT ![x] = Stores!Version(o)] \in [Names -> Nat]
    BY <1>4, <1>7
  <2> QED BY <1>4, <1>8, <2>1 DEF StoreRecords
<1> HIDE DEF s, o
<1>11. /\ stores' \in Seq(StoreRecords) /\ Len(stores') = Len(stores) /\ stores'[s] = st
       /\ \A u \in 1..Len(stores) : stores'[u] \in StoreRecords /\ (u # s => stores'[u] = stores[u])
  BY <1>0, <1>1, <1>3, <1>10, EditStore
<1>12. /\ telling' \in Seq(Notifications) /\ Len(telling') = Len(telling) /\ telling'[n] = next
       /\ \A i \in 1..Len(telling) : i # n => telling'[i] = telling[i]
  BY <1>1, <1>2, <1>6
<1>13. StoresTyped'
  <2>1. \A i \in 1..Len(telling') : telling'[i].of \in 1..Len(stores')
    BY <1>0, <1>3, <1>6, <1>11, <1>12 DEF StoresTyped
  <2>2. saved' \in Nat \cup {Stores!Nothing} /\ refused' \in BOOLEAN
    BY <1>0, <1>1, <1>4 DEF StoresTyped, o
  <2> QED BY <1>0, <1>1, <1>11, <1>12, <2>1, <2>2 DEF StoresTyped
<1>14. PersistComesFirst'
  BY <1>0, <1>1, <1>3, <1>8, <1>11 DEF PersistComesFirst, o
<1>15. PersistIsNext'
  <2> SUFFICES ASSUME NEW i \in 1..Len(telling'), NEW j \in 1..Len(telling'[i].rest),
                      telling'[i].rest[j] = "persist"
               PROVE  FALSE
    BY DEF PersistIsNext
  <2>1. CASE i = n
    <3>1. telling'[i].rest = Tail(top.rest)
      BY <1>6, <1>12, <2>1
    <3>2. j \in 1..(Len(top.rest) - 1) /\ top.rest[j + 1] = "persist"
      BY <1>5, <3>1
    <3>3. j + 1 \in 1..Len(top.rest) /\ j + 1 # 1
      BY <1>5, <3>2
    <3> QED BY <1>0, <1>2, <3>2, <3>3 DEF PersistIsNext
  <2>2. CASE i # n
    BY <1>0, <1>2, <1>12, <2>2 DEF PersistIsNext, n
  <2> QED BY <2>1, <2>2
<1>16. \A u, y : Waits(telling', u, y) => Waits(telling, u, y)
  <2> SUFFICES ASSUME NEW u, NEW y, Waits(telling', u, y) PROVE Waits(telling, u, y)
    OBVIOUS
  <2>0. PICK i \in 1..Len(telling') : telling'[i].of = u /\ \E j \in 1..Len(telling'[i].rest) : telling'[i].rest[j] = y
    BY DEF Waits
  <2> PICK j \in 1..Len(telling'[i].rest) : telling'[i].rest[j] = y
    BY <2>0
  <2>1. CASE i = n
    <3>1. telling'[i].rest = Tail(top.rest) /\ u = top.of
      BY <1>6, <1>12, <2>0, <2>1 DEF s
    <3>2. j \in 1..(Len(top.rest) - 1) /\ top.rest[j + 1] = y /\ j + 1 \in 1..Len(top.rest)
      BY <1>5, <3>1
    <3> QED BY <1>2, <3>1, <3>2 DEF Waits
  <2>2. CASE i # n
    BY <1>12, <2>0, <2>2 DEF Waits
  <2> QED BY <2>1, <2>2
<1>17. \A u, y : Waits(telling, u, y) => Waits(telling', u, y) \/ (u = s /\ y = x)
  <2> SUFFICES ASSUME NEW u, NEW y, Waits(telling, u, y), u # s \/ y # x PROVE Waits(telling', u, y)
    OBVIOUS
  <2>0. PICK i \in 1..Len(telling) : telling[i].of = u /\ \E j \in 1..Len(telling[i].rest) : telling[i].rest[j] = y
    BY DEF Waits
  <2> PICK j \in 1..Len(telling[i].rest) : telling[i].rest[j] = y
    BY <2>0
  <2>1. CASE i = n
    <3>1. u = s /\ y # x
      BY <2>0, <2>1 DEF s
    <3>2. j # 1 /\ j \in 1..Len(top.rest) /\ top.rest[j] = y
      BY <1>5, <2>1, <3>1
    <3>3. j - 1 \in 1..(Len(top.rest) - 1) /\ (j - 1) + 1 = j
      BY <1>5, <3>2
    <3>4. j - 1 \in 1..Len(next.rest) /\ next.rest[j - 1] = y
      BY <1>5, <1>6, <3>2, <3>3
    <3> QED BY <1>2, <1>6, <1>12, <3>1, <3>4 DEF Waits
  <2>2. CASE i # n
    BY <1>12, <2>0, <2>2 DEF Waits
  <2> QED BY <2>1, <2>2
<1>18. Stores!StoredIsState'
  <2>1. current \in 1..Len(stores) => stores'[current].kept = stores[current].kept
    BY <1>8, <1>11 DEF o
  <2>2. Stores!StoredIsState /\ (current # 0 => current \in 1..Len(stores))
    BY <1>0 DEF StoresInv, StoresTyped
  <2>3. CASE x = "persist"
    <3>1. s = current
      BY <1>0, <1>2, <1>5, <2>3 DEF PersistIsNext, s
    <3>2. refused' = FALSE => saved' = stores[current].kept
      BY <1>1, <2>3, <3>1 DEF o
    <3> QED BY <1>1, <2>1, <2>2, <2>3, <3>2 DEF Stores!StoredIsState
  <2>4. CASE x # "persist"
    <3>1. Waits(telling, current, "persist") <=> Waits(telling', current, "persist")
      BY <1>16, <1>17, <2>4
    <3>2. saved' = saved /\ refused' = refused /\ current' = current
      BY <1>1, <2>4
    <3> QED BY <1>0, <1>13, <2>1, <2>2, <3>1, <3>2, DueIs DEF Stores!StoredIsState
  <2> QED BY <2>3, <2>4
<1>19. \A u \in 1..Len(stores) : HasHeard(stores'[u], u, telling')
  <2> SUFFICES ASSUME NEW u \in 1..Len(stores) PROVE HasHeard(stores'[u], u, telling')
    OBVIOUS
  <2>1. HasHeard(stores[u], u, telling)
    BY <1>0, HeardIs DEF StoresInv
  <2>2. CASE u = s
    <3> SUFFICES ASSUME ~o.disposed, NEW j \in 1..Len(o.subs)
                 PROVE  \/ Waits(telling', s, o.subs[j]) \/ o.subs[j] \in st.missed
                        \/ st.heard[o.subs[j]] = Stores!Version(o)
      <4>1. stores'[u] = st /\ st.subs = o.subs /\ (st.disposed <=> o.disposed)
        BY <1>8, <1>11, <2>2
      <4> QED BY <1>9, <2>2, <4>1 DEF HasHeard
    <3>1. CASE o.subs[j] = x
      BY <1>4, <1>5, <1>8, <3>1
    <3>2. CASE o.subs[j] # x
      <4>1. Waits(telling, s, o.subs[j]) \/ o.subs[j] \in o.missed \/ o.heard[o.subs[j]] = Stores!Version(o)
        BY <2>1, <2>2 DEF HasHeard, o
      <4>2. st.heard[o.subs[j]] = o.heard[o.subs[j]]
        <5>1. o.subs[j] \in Names
          BY <1>4
        <5> QED BY <1>4, <1>8, <3>2, <5>1
      <4> QED BY <1>8, <1>17, <3>2, <4>1, <4>2
    <3> QED BY <3>1, <3>2
  <2>3. CASE u # s
    BY <1>11, <1>17, <2>1, <2>3 DEF HasHeard
  <2> QED BY <2>2, <2>3
<1>20. Stores!SubscribersHeard'
  BY <1>11, <1>13, <1>19, HeardIs
<1> QED BY <1>13, <1>14, <1>15, <1>18, <1>20 DEF StoresInv

\* What lies below the top of the stack.
LEMMA FrontFacts ==
  ASSUME NEW S, NEW q \in Seq(S), q # <<>>
  PROVE  /\ Stores!Front(q) \in Seq(S) /\ Len(Stores!Front(q)) = Len(q) - 1
         /\ \A i \in 1..(Len(q) - 1) : Stores!Front(q)[i] = q[i]
<1>1. Len(q) \in 1..Len(q)
  OBVIOUS
<1>2. ASSUME NEW m \in 1..Len(q)
      PROVE  /\ SubSeq(q, 1, m - 1) \in Seq(S) /\ Len(SubSeq(q, 1, m - 1)) = m - 1
             /\ \A i \in 1..(m - 1) : SubSeq(q, 1, m - 1)[i] = q[i]
  OBVIOUS
<1> QED BY <1>1, <1>2 DEF Stores!Front

LEMMA ReturnKeeps ==
  ASSUME StoresInv, Stores!Return
  PROVE  StoresInv'
<1>0. StoresTyped /\ PersistComesFirst /\ PersistIsNext
  BY DEF StoresInv
<1> DEFINE n == Len(telling)
<1>1. /\ telling # <<>> /\ telling[n].rest = <<>> /\ telling' = Stores!Front(telling)
      /\ UNCHANGED <<stores, current, saved, refused, mutations>>
  BY DEF Stores!Return, Stores!Last
<1>2. telling \in Seq(Notifications) /\ n \in Nat /\ n >= 1
  BY <1>0, <1>1 DEF StoresTyped
<1>3. /\ telling' \in Seq(Notifications) /\ Len(telling') = n - 1
      /\ \A i \in 1..(n - 1) : telling'[i] = telling[i]
  BY <1>1, <1>2, FrontFacts
<1>4. StoresTyped'
  BY <1>0, <1>1, <1>2, <1>3 DEF StoresTyped
<1>5. \A u, x : Waits(telling, u, x) <=> Waits(telling', u, x)
  <2>1. \A i \in 1..n : i # n => i \in 1..(n - 1)
    BY <1>2
  <2>2. ASSUME NEW j \in 1..Len(telling[n].rest) PROVE FALSE
    BY <1>1
  <2>3. \A i \in 1..(n - 1) : i \in 1..n
    BY <1>2
  <2> QED BY <1>3, <2>1, <2>2, <2>3 DEF Waits
<1>6. PersistComesFirst'
  BY <1>0, <1>1 DEF PersistComesFirst
<1>7. PersistIsNext'
  <2> SUFFICES ASSUME NEW i \in 1..(n - 1), NEW j \in 1..Len(telling'[i].rest), telling'[i].rest[j] = "persist"
               PROVE  FALSE
    BY <1>3 DEF PersistIsNext
  <2>1. i \in 1..n /\ i # n
    BY <1>2
  <2> QED BY <1>0, <1>3, <2>1 DEF PersistIsNext
<1>8. Stores!StoredIsState'
  BY <1>0, <1>1, <1>4, <1>5, DueIs DEF StoresInv, Stores!StoredIsState
<1>9. Stores!SubscribersHeard'
  BY <1>0, <1>1, <1>4, <1>5, HeardIs DEF StoresInv, HasHeard
<1> QED BY <1>4, <1>6, <1>7, <1>8, <1>9 DEF StoresInv

\* One that throws leaves the ones behind it to the notification that is under way.
LEMMA ThrowsKeeps ==
  ASSUME LifecycleConstants, StoresInv, Stores!Throws
  PROVE  StoresInv'
<1>0. StoresTyped /\ PersistComesFirst /\ PersistIsNext /\ Stores!AppRuns
  BY DEF StoresInv, Stores!Throws
<1> DEFINE Lost(s) == UNION {Stores!ToSet(telling[i].rest) : i \in {j \in 1..Len(telling) : telling[j].of = s}}
<1>1. /\ telling' = <<>> /\ UNCHANGED <<current, saved, refused, mutations>>
      /\ stores' = [s \in 1..Len(stores) |-> [stores[s] EXCEPT !.missed = @ \cup Lost(s)]]
  BY DEF Stores!Throws
<1>2. \A i \in 1..Len(telling) : telling[i].rest \in Seq(Names) /\ DOMAIN telling[i].rest = 1..Len(telling[i].rest)
  <2>1. \A i \in 1..Len(telling) : telling[i] \in Notifications
    BY <1>0 DEF StoresTyped
  <2> QED BY <2>1 DEF Notifications
<1>3. \A s, x : x \in Lost(s) <=> Waits(telling, s, x)
  BY <1>2 DEF Waits, Stores!ToSet
<1> HIDE DEF Lost
<1>4. \A s : Lost(s) \in SUBSET Names
  <2> SUFFICES ASSUME NEW s, NEW x \in Lost(s) PROVE x \in Names
    OBVIOUS
  <2>1. PICK i \in 1..Len(telling) : \E j \in 1..Len(telling[i].rest) : telling[i].rest[j] = x
    BY <1>3 DEF Waits
  <2> QED BY <1>2, <2>1
<1>5. ASSUME NEW s \in 1..Len(stores)
      PROVE  /\ stores'[s] \in StoreRecords /\ stores'[s].subs = stores[s].subs
             /\ stores'[s].kept = stores[s].kept /\ stores'[s].other = stores[s].other
             /\ stores'[s].heard = stores[s].heard /\ stores'[s].missed = stores[s].missed \cup Lost(s)
             /\ (stores'[s].disposed <=> stores[s].disposed)
  <2> DEFINE o == stores[s]
             st == [o EXCEPT !.missed = @ \cup Lost(s)]
  <2>1. /\ o \in StoreRecords /\ o.kept \in Nat /\ o.other \in Nat /\ o.subs \in Seq(Names)
        /\ o.heard \in [Names -> Nat] /\ o.missed \in SUBSET Names /\ o.disposed \in BOOLEAN
    BY <1>0, <1>5, StoreIsRecord
  <2>2. stores'[s] = st
    BY <1>1
  <2> HIDE DEF o
  <2>3. o.missed \cup Lost(s) \in SUBSET Names
    BY <1>4, <2>1
  <2>4. /\ st.kept = o.kept /\ st.other = o.other /\ st.subs = o.subs /\ st.heard = o.heard
        /\ st.missed = o.missed \cup Lost(s) /\ (st.disposed <=> o.disposed) /\ st \in StoreRecords
    BY <2>1, <2>3 DEF StoreRecords
  <2> HIDE DEF st
  <2> QED BY <2>2, <2>4 DEF o
<1>6. stores' \in Seq(StoreRecords) /\ Len(stores') = Len(stores)
  <2>1. Len(stores) \in Nat
    BY <1>0 DEF StoresTyped
  <2>2. stores' \in [1..Len(stores) -> StoreRecords]
    BY <1>1, <1>5
  <2> QED BY <2>1, <2>2
<1>7. StoresTyped'
  <2>1. telling' \in Seq(Notifications) /\ 1..Len(telling') = {}
    BY <1>1
  <2> QED BY <1>0, <1>1, <1>6, <2>1 DEF StoresTyped
<1>8. PersistComesFirst'
  BY <1>0, <1>1, <1>5, <1>6 DEF PersistComesFirst
<1>9. PersistIsNext'
  BY <1>1 DEF PersistIsNext
<1>10. ~Waits(telling, current, "persist") /\ ~Waits(telling', current, "persist")
  <2>1. ~Waits(telling, current, "persist")
    BY <1>0, NobodyWaitsForPersist
  <2>2. 1..Len(telling') = {}
    BY <1>1
  <2> QED BY <2>1, <2>2 DEF Waits
<1>11. Stores!StoredIsState'
  <2>1. Stores!StoredIsState /\ (current # 0 => current \in 1..Len(stores))
    BY <1>0 DEF StoresInv, StoresTyped
  <2> QED BY <1>0, <1>1, <1>5, <1>7, <1>10, <2>1, DueIs DEF Stores!StoredIsState
<1>12. \A s \in 1..Len(stores) : HasHeard(stores'[s], s, telling')
  <2> SUFFICES ASSUME NEW s \in 1..Len(stores) PROVE HasHeard(stores'[s], s, telling')
    OBVIOUS
  <2>1. HasHeard(stores[s], s, telling)
    BY <1>0, HeardIs DEF StoresInv
  <2>2. Stores!Version(stores'[s]) = Stores!Version(stores[s])
    BY <1>5 DEF Stores!Version
  <2>3. /\ stores'[s].subs = stores[s].subs /\ stores'[s].heard = stores[s].heard
        /\ stores'[s].missed = stores[s].missed \cup Lost(s) /\ (stores'[s].disposed <=> stores[s].disposed)
    BY <1>5
  <2> QED BY <1>3, <2>1, <2>2, <2>3 DEF HasHeard
<1>13. Stores!SubscribersHeard'
  BY <1>6, <1>7, <1>12, HeardIs
<1> QED BY <1>7, <1>8, <1>9, <1>11, <1>13 DEF StoresInv

\* A store that is disposed is out of the registry, and tells nobody.
LEMMA DisposeKeeps ==
  ASSUME LifecycleConstants, StoresInv, NEW s \in 1..Len(stores), Stores!disposeStore(s)
  PROVE  StoresInv'
<1>0. StoresTyped /\ PersistComesFirst /\ PersistIsNext /\ Stores!AppRuns
  BY DEF StoresInv, Stores!disposeStore
<1> DEFINE o == stores[s]
           st == [o EXCEPT !.disposed = TRUE, !.subs = <<>>]
<1>1. /\ o \in StoreRecords /\ o.kept \in Nat /\ o.other \in Nat /\ o.subs \in Seq(Names)
      /\ o.heard \in [Names -> Nat] /\ o.missed \in SUBSET Names /\ o.disposed \in BOOLEAN
  BY <1>0, StoreIsRecord
<1>2. /\ stores' = [stores EXCEPT ![s] = st] /\ current' = 0 /\ ~o.disposed
      /\ UNCHANGED <<saved, refused, telling, mutations>>
  BY DEF Stores!disposeStore
<1>3. st \in StoreRecords /\ st.disposed
  <2> HIDE DEF o
  <2>1. o = [kept |-> o.kept, other |-> o.other, subs |-> o.subs, heard |-> o.heard,
             missed |-> o.missed, disposed |-> o.disposed]
    BY <1>1 DEF StoreRecords
  <2>2. st = [kept |-> o.kept, other |-> o.other, subs |-> <<>>, heard |-> o.heard,
              missed |-> o.missed, disposed |-> TRUE]
    <3>1. DOMAIN st = {"kept", "other", "subs", "heard", "missed", "disposed"}
      BY <2>1
    <3>2. /\ st.kept = o.kept /\ st.other = o.other /\ st.subs = <<>> /\ st.heard = o.heard
          /\ st.missed = o.missed /\ st.disposed = TRUE
      BY <2>1
    <3>3. st = [i \in {"kept", "other", "subs", "heard", "missed", "disposed"} |-> st[i]]
      BY <3>1
    <3> HIDE DEF st
    <3> QED BY <3>1, <3>2, <3>3
  <2>3. <<>> \in Seq(Names)
    OBVIOUS
  <2> QED BY <1>1, <2>2, <2>3 DEF StoreRecords
<1> HIDE DEF st
<1>4. /\ stores' \in Seq(StoreRecords) /\ Len(stores') = Len(stores) /\ stores'[s] = st
      /\ \A u \in 1..Len(stores) : stores'[u] \in StoreRecords /\ (u # s => stores'[u] = stores[u])
  BY <1>0, <1>2, <1>3, EditStore
<1>5. s = current
  BY <1>0, <1>2 DEF PersistComesFirst
<1>6. StoresTyped'
  BY <1>0, <1>2, <1>4 DEF StoresTyped
<1>7. PersistComesFirst'
  BY <1>0, <1>2, <1>3, <1>4, <1>5 DEF PersistComesFirst
<1>8. \A u : ~Waits(telling, u, "persist")
  BY <1>0, NobodyWaitsForPersist
<1>9. PersistIsNext'
  BY <1>2, <1>8 DEF PersistIsNext, Waits
<1>10. Stores!StoredIsState'
  BY <1>2 DEF Stores!StoredIsState
<1>11. \A u \in 1..Len(stores) : HasHeard(stores'[u], u, telling)
  <2>1. \A u \in 1..Len(stores) : HasHeard(stores[u], u, telling)
    BY <1>0, HeardIs DEF StoresInv
  <2>2. HasHeard(st, s, telling)
    BY <1>3 DEF HasHeard
  <2>3. \A u \in 1..Len(stores) : (stores'[u] = st /\ u = s) \/ stores'[u] = stores[u]
    BY <1>4
  <2> QED BY <2>1, <2>2, <2>3
<1>12. Stores!SubscribersHeard'
  BY <1>2, <1>4, <1>6, <1>11, HeardIs
<1> QED BY <1>6, <1>7, <1>9, <1>10, <1>12 DEF StoresInv

\* A store that is made again begins with what is stored.
LEMMA UseStoreKeeps ==
  ASSUME LifecycleConstants, StoresInv, Stores!useStore
  PROVE  StoresInv'
<1>0. StoresTyped /\ PersistComesFirst /\ PersistIsNext /\ Stores!AppRuns
  BY DEF StoresInv, Stores!useStore
<1> DEFINE v == Stores!Restored
           q == Stores!Subscribed(<<"plugin">>)
           n == Len(stores) + 1
           st == [kept |-> v, other |-> 0, subs |-> q, heard |-> [x \in Names |-> v], missed |-> {},
                  disposed |-> FALSE]
<1>1. v \in Nat /\ (saved # Stores!Nothing => v = saved) /\ (saved = Stores!Nothing => v = 0)
  BY <1>0 DEF Stores!Restored, StoresTyped
<1>2. q \in Seq(Names) /\ LedByPersist(q)
  <2>1. "persist" \in Names /\ "plugin" \in Names
    BY DEF Names, Stores!Called
  <2>2. /\ <<"persist">> \in Seq(Names) /\ Len(<<"persist">>) = 1 /\ <<"persist">>[1] = "persist"
        /\ <<"plugin">> \in Seq(Names) /\ Len(<<"plugin">>) = 1 /\ <<"plugin">>[1] = "plugin"
    BY <2>1
  <2> DEFINE a == <<"persist">>
             b == <<"plugin">>
  <2>3. q = a \o b
    BY DEF Stores!Subscribed
  <2> HIDE DEF a, b, q
  <2>4. /\ a \o b \in Seq(Names) /\ Len(a \o b) = Len(a) + Len(b)
        /\ \A k \in 1..(Len(a) + Len(b)) : (a \o b)[k] = IF k <= Len(a) THEN a[k] ELSE b[k - Len(a)]
    BY <2>2, ConcatProperties, Zenon DEF a, b
  <2>5. q \in Seq(Names) /\ Len(q) = 2 /\ q[1] = "persist" /\ q[2] = "plugin"
    BY <2>2, <2>3, <2>4 DEF a, b
  <2>6. LedByPersist(q)
    BY <2>5 DEF LedByPersist
  <2> QED BY <2>5, <2>6
<1>3. /\ stores' = Append(stores, st) /\ current' = Len(stores') /\ current = 0
      /\ UNCHANGED <<saved, refused, telling, mutations>>
  BY <1>2 DEF Stores!useStore, Names
<1> HIDE DEF q
<1>4. stores \in Seq(StoreRecords) /\ Len(stores) \in Nat
  BY <1>0 DEF StoresTyped
<1>5. /\ st \in StoreRecords /\ ~st.disposed /\ st.subs = q /\ st.kept = v /\ st.other = 0
      /\ st.heard = [x \in Names |-> v]
  BY <1>1, <1>2 DEF StoreRecords
<1>6. Stores!Version(st) = v
  BY <1>1, <1>5 DEF Stores!Version
<1> HIDE DEF st
<1>7. /\ stores' \in Seq(StoreRecords) /\ Len(stores') = n /\ stores'[n] = st
      /\ \A u \in 1..Len(stores) : stores'[u] = stores[u]
  BY <1>3, <1>4, <1>5
<1>8. \A u \in 1..n : u \in 1..Len(stores) \/ u = n
  BY <1>4
<1>9. StoresTyped'
  BY <1>0, <1>3, <1>4, <1>7 DEF StoresTyped
<1>10. PersistComesFirst'
  <2>1. \A u \in 1..Len(stores) : stores[u].disposed /\ u # n
    BY <1>0, <1>3, <1>4 DEF PersistComesFirst
  <2> QED BY <1>2, <1>3, <1>5, <1>7, <1>8, <2>1 DEF PersistComesFirst
<1>11. \A u : ~Waits(telling, u, "persist")
  BY <1>0, NobodyWaitsForPersist
<1>12. PersistIsNext'
  BY <1>3, <1>11 DEF PersistIsNext, Waits
<1>13. Stores!StoredIsState'
  BY <1>1, <1>3, <1>5, <1>7 DEF Stores!StoredIsState
<1>14. HasHeard(st, n, telling)
  BY <1>2, <1>5, <1>6 DEF HasHeard
<1>15. \A u \in 1..n : HasHeard(stores'[u], u, telling)
  BY <1>0, <1>7, <1>8, <1>14, HeardIs DEF StoresInv
<1>16. Stores!SubscribersHeard'
  BY <1>3, <1>7, <1>9, <1>15, HeardIs
<1> QED BY <1>9, <1>10, <1>12, <1>13, <1>16 DEF StoresInv

LEMMA StoresStep ==
  ASSUME LifecycleConstants, StoresInv, [Stores!LifecycleNext]_(Stores!lifecycleVars)
  PROVE  StoresInv'
<1>1. CASE UNCHANGED Stores!lifecycleVars
  BY <1>1 DEF StoresInv, StoresTyped, PersistComesFirst, PersistIsNext, Stores!StoredIsState,
              Stores!SubscribersHeard, Stores!IsDue, Stores!lifecycleVars
<1> QED BY <1>1, UseStoreKeeps, CallNextKeeps, ReturnKeeps, ThrowsKeeps, DisposeKeeps, SubscribeKeeps,
           UnsubscribeKeeps, ChangeKeeps DEF Stores!LifecycleNext

\* What is saved is the state of the store in the registry, and whoever subscribed has heard of
\* the newest one, through notifications within one another, throwing subscribers, stores that are
\* disposed and objects again, and writes that are refused.
THEOREM StoredAndHeard ==
  LifecycleConstants => (Stores!LifecycleSpec => [](Stores!StoredIsState /\ Stores!SubscribersHeard))
<1> SUFFICES ASSUME LifecycleConstants
             PROVE  Stores!LifecycleSpec => [](Stores!StoredIsState /\ Stores!SubscribersHeard)
  OBVIOUS
<1>1. Stores!LifecycleInit => StoresInv
  <2> SUFFICES ASSUME Stores!LifecycleInit PROVE StoresInv
    OBVIOUS
  <2>1. /\ stores = <<>> /\ current = 0 /\ saved = Stores!Nothing /\ refused = FALSE
        /\ telling = <<>> /\ mutations = 0
    BY DEF Stores!LifecycleInit
  <2>2. /\ stores \in Seq(StoreRecords) /\ telling \in Seq(Notifications) /\ 0 \in 0..Len(stores)
        /\ 1..Len(stores) = {} /\ 1..Len(telling) = {}
    BY <2>1
  <2> QED BY <2>1, <2>2 DEF StoresInv, StoresTyped, PersistComesFirst, PersistIsNext,
                            Stores!StoredIsState, Stores!SubscribersHeard
<1>2. StoresInv /\ [Stores!LifecycleNext]_(Stores!lifecycleVars) => StoresInv'
  BY StoresStep
<1>3. StoresInv => Stores!StoredIsState /\ Stores!SubscribersHeard
  BY DEF StoresInv
<1> QED BY <1>1, <1>2, <1>3, PTL DEF Stores!LifecycleSpec
-----------------------------------------------------------------------------
(* The state of a store. *)

StateConstants == MaxObjects \in Nat \ {0, 1} /\ MaxSets \in Nat \ {0}

Nil == Stores!Nil
Raw(o) == Stores!Raw(o)
Refs == [obj : 0..MaxObjects, sets : Seq(1..MaxSets)]
Visitors == [1..MaxSets -> SUBSET Refs]

\* An object but the state itself, or nothing.
Inner(q, n) == q \in Refs /\ q.obj <= n /\ q.obj # 1 /\ (q.obj = 0 => q = Nil)

\* A reference that announces nothing.
Bare(q) == q.sets = <<>> /\ q # Nil
Seen(vis, q) == \E s \in 1..MaxSets : q \in vis[s]

StateTyped ==
  /\ Root = 1 /\ objects \in 2..MaxObjects /\ sets \in 1..MaxSets /\ twice \in SUBSET (1..MaxObjects)
  /\ field \in [1..MaxObjects -> Refs] /\ visiting \in Visitors /\ proxied \in SUBSET Refs
  /\ \A o \in 1..MaxObjects : Inner(field[o], objects)
  /\ Inner(kept, objects) /\ held \in Refs /\ held.obj \in 1..objects
  /\ \A s \in 1..MaxSets : \A q \in visiting[s] : q.obj <= objects

\* The object of a bare reference was put in a second time: the one in a field, but the first one
\* as long as nobody has read it, one that was read before, and those the application has.
BareOnesAreTwice ==
  /\ \A o \in 1..MaxObjects : Bare(field[o]) =>
       field[o].obj \in twice \/ (o = Root /\ field[o] = Raw(2) /\ ~Seen(visiting, Raw(2)))
  /\ \A q \in proxied : Bare(q) => q.obj \in twice
  /\ Nil \notin proxied /\ (Bare(kept) => kept.obj \in twice)

StateInv == StateTyped /\ BareOnesAreTwice /\ Stores!ReadIsWatched

\* createInPlaceDeepProxy, of what the sets in vis have seen.
Wrapped(m, s) == Stores!createInPlaceDeepProxy(m, s)
Mem(q, vis, px) == [ref |-> q, visiting |-> vis, proxied |-> px]

LEMMA HasHead ==
  ASSUME NEW S, NEW q \in Seq(S), q # <<>>
  PROVE  q[1] \in S /\ Len(q) \in Nat \ {0}
OBVIOUS

LEMMA ElementIsIn ==
  ASSUME NEW S, NEW q \in Seq(S), NEW k \in 1..Len(q)
  PROVE  q[k] \in S
OBVIOUS

LEMMA RefFacts ==
  ASSUME StateConstants
  PROVE  /\ Nil \in Refs /\ Nil.obj = 0 /\ Nil.sets = <<>>
         /\ \A o \in 0..MaxObjects : Raw(o) \in Refs /\ Raw(o).obj = o /\ Raw(o).sets = <<>>
         /\ \A q \in Refs : q.obj \in 0..MaxObjects /\ q.sets \in Seq(1..MaxSets)
         /\ \A q \in Refs : q.sets = <<>> => q = Raw(q.obj)
         /\ \A q \in Refs : \A s \in 1..MaxSets :
              /\ [obj |-> q.obj, sets |-> Append(q.sets, s)] \in Refs
              /\ Append(q.sets, s) # <<>>
<1>1. <<>> \in Seq(1..MaxSets) /\ 0 \in 0..MaxObjects
  BY DEF StateConstants
<1>2. Nil \in Refs /\ Nil.obj = 0 /\ Nil.sets = <<>>
  BY <1>1 DEF Nil, Stores!Nil, Refs
<1>3. \A o \in 0..MaxObjects : Raw(o) \in Refs /\ Raw(o).obj = o /\ Raw(o).sets = <<>>
  BY <1>1 DEF Raw, Stores!Raw, Refs
<1>4. \A q \in Refs : q.obj \in 0..MaxObjects /\ q.sets \in Seq(1..MaxSets)
  BY DEF Refs
<1>5. \A q \in Refs : q.sets = <<>> => q = Raw(q.obj)
  BY DEF Refs, Raw, Stores!Raw
<1>6. ASSUME NEW q \in Refs, NEW s \in 1..MaxSets
      PROVE  [obj |-> q.obj, sets |-> Append(q.sets, s)] \in Refs /\ Append(q.sets, s) # <<>>
  <2>0. q.sets \in Seq(1..MaxSets)
    BY <1>4
  <2>1. Append(q.sets, s) \in Seq(1..MaxSets) /\ Len(Append(q.sets, s)) = Len(q.sets) + 1 /\ Len(q.sets) \in Nat
    BY <2>0
  <2>2. Append(q.sets, s) # <<>>
    BY <2>1
  <2> QED BY <1>4, <2>1, <2>2 DEF Refs
<1> QED BY <1>2, <1>3, <1>4, <1>5, <1>6

\* A wrapping adds what it has seen, and leaves a reference bare only when it has seen it before.
LEMMA WrapFacts ==
  ASSUME StateConstants, NEW q \in Refs, NEW vis \in Visitors, NEW px, NEW s \in 1..MaxSets
  PROVE  \E r \in Refs, grown \in Visitors :
           /\ Wrapped(Mem(q, vis, px), s) = Mem(r, grown, px)
           /\ r.obj = q.obj /\ (q = Nil => r = Nil)
           /\ \A u \in 1..MaxSets : vis[u] \subseteq grown[u] /\ grown[u] \subseteq vis[u] \cup {q}
           /\ r.sets = <<>> => r = q /\ grown = vis /\ (q = Nil \/ q \in vis[s])
<1> DEFINE m == Mem(q, vis, px)
<1>1. m.ref = q /\ m.visiting = vis /\ m.proxied = px
  BY DEF Mem
<1>2. CASE q = Nil \/ q \in vis[s]
  <2>1. Wrapped(m, s) = m
    BY <1>1, <1>2 DEF Wrapped, Stores!createInPlaceDeepProxy, Nil
  <2> QED BY <1>2, <2>1
<1>3. CASE ~(q = Nil \/ q \in vis[s])
  <2> DEFINE r == [obj |-> q.obj, sets |-> Append(q.sets, s)]
             grown == [vis EXCEPT ![s] = @ \cup {q}]
  <2>1. Wrapped(m, s) = [m EXCEPT !.visiting[s] = @ \cup {q}, !.ref = r]
    BY <1>1, <1>3 DEF Wrapped, Stores!createInPlaceDeepProxy, Nil
  <2>2. [m EXCEPT !.visiting[s] = @ \cup {q}, !.ref = r] = Mem(r, grown, px)
    <3> DEFINE e == [m EXCEPT !.visiting[s] = @ \cup {q}, !.ref = r]
    <3> HIDE DEF r
    <3>1. DOMAIN e = {"ref", "visiting", "proxied"}
      BY DEF Mem
    <3>2. e.ref = r
      BY DEF Mem
    <3>3. e.visiting = grown
      BY DEF Mem
    <3>4. e.proxied = px
      BY DEF Mem
    <3>5. e = [i \in {"ref", "visiting", "proxied"} |-> e[i]]
      BY <3>1
    <3> HIDE DEF e, grown
    <3>6. e = Mem(r, grown, px)
      BY <3>1, <3>2, <3>3, <3>4, <3>5 DEF Mem
    <3> QED BY <3>6 DEF e
  <2>3. r \in Refs /\ r.obj = q.obj /\ r.sets # <<>>
    BY RefFacts
  <2>4. /\ grown \in Visitors
        /\ \A u \in 1..MaxSets : vis[u] \subseteq grown[u] /\ grown[u] \subseteq vis[u] \cup {q}
    BY DEF Visitors
  <2> HIDE DEF r, grown, m
  <2> QED BY <1>3, <2>1, <2>2, <2>3, <2>4 DEF m
<1> QED BY <1>2, <1>3

\* What a trap leaves in _proxiedSet.
LEMMA NotedIs ==
  ASSUME NEW q, NEW vis, NEW px
  PROVE  Stores!Noted(Mem(q, vis, px)) = Mem(q, vis, IF q = Nil THEN px ELSE px \cup {q})
<1> DEFINE m == Mem(q, vis, px)
<1>1. m.ref = q /\ m.proxied = px
  BY DEF Mem
<1>2. CASE q = Nil
  BY <1>1, <1>2 DEF Stores!Noted, Nil
<1>3. CASE q # Nil
  <2>1. Stores!Noted(m) = [m EXCEPT !.proxied = @ \cup {q}]
    BY <1>1, <1>3 DEF Stores!Noted, Nil
  <2>2. [m EXCEPT !.proxied = @ \cup {q}] = Mem(q, vis, px \cup {q})
    BY DEF Mem
  <2> HIDE DEF m
  <2> QED BY <1>3, <2>1, <2>2 DEF m
<1> QED BY <1>2, <1>3

\* Reading: what comes out, and what is remembered of it.
LEMMA GotFacts ==
  ASSUME StateConstants, StateInv, NEW r \in Refs, r.obj \in 1..MaxObjects
  PROVE  \E q \in Refs, grown \in Visitors, px \in SUBSET Refs :
           /\ Stores!Got(r) = Mem(q, grown, px) /\ Inner(q, objects)
           /\ field[r.obj] = Nil => q = Nil
           /\ \A u \in 1..MaxSets : \A p \in grown[u] : p \in visiting[u] \/ p = field[r.obj]
           /\ \A p \in px : p \in proxied \/ (p = q /\ (Bare(q) => q.obj \in twice)) 
           /\ Nil \notin px
           /\ Bare(q) => /\ q = field[r.obj] /\ grown = visiting
                         /\ (r.sets # <<>> => q.obj \in twice)
<1>0. StateTyped /\ BareOnesAreTwice
  BY DEF StateInv
<1> DEFINE v == field[r.obj]
<1>1. v \in Refs /\ Inner(v, objects) /\ visiting \in Visitors /\ proxied \in SUBSET Refs /\ Nil \notin proxied
  BY <1>0 DEF StateTyped, BareOnesAreTwice
<1>2. Stores!Memory(v) = Mem(v, visiting, proxied)
  BY DEF Stores!Memory, Mem
<1>3. Bare(v) => v.obj \in twice \/ (r.obj = Root /\ v = Raw(2) /\ ~Seen(visiting, Raw(2)))
  BY <1>0 DEF BareOnesAreTwice
<1>4. CASE r.sets = <<>> \/ v = Nil \/ v \in proxied
  <2>1. Stores!Got(r) = Mem(v, visiting, proxied)
    BY <1>2, <1>4 DEF Stores!Got, Nil
  <2>2. Bare(v) /\ r.sets # <<>> => v.obj \in twice
    BY <1>0, <1>4 DEF BareOnesAreTwice, Bare
  <2> HIDE DEF v
  <2>3. \A u \in 1..MaxSets : \A p \in visiting[u] : p \in visiting[u] \/ p = v
    OBVIOUS
  <2> QED BY <1>1, <2>1, <2>2, <2>3 DEF v
<1>5. CASE ~(r.sets = <<>> \/ v = Nil \/ v \in proxied)
  <2> DEFINE s == r.sets[1]
  <2>1. s \in 1..MaxSets
    <3>1. r.sets \in Seq(1..MaxSets) /\ r.sets # <<>>
      BY <1>5, RefFacts
    <3> QED BY <3>1, HasHead
  <2>2. Stores!Got(r) = Stores!Noted(Wrapped(Mem(v, visiting, proxied), s))
    BY <1>2, <1>5 DEF Stores!Got, Nil, Wrapped
  <2> HIDE DEF v, s
  <2>3. PICK q \in Refs, grown \in Visitors :
           /\ Wrapped(Mem(v, visiting, proxied), s) = Mem(q, grown, proxied)
           /\ q.obj = v.obj /\ (v = Nil => q = Nil)
           /\ \A u \in 1..MaxSets : visiting[u] \subseteq grown[u] /\ grown[u] \subseteq visiting[u] \cup {v}
           /\ q.sets = <<>> => q = v /\ grown = visiting /\ (v = Nil \/ v \in visiting[s])
    BY <1>1, <2>1, WrapFacts
  <2> DEFINE px == proxied \cup {q}
  <2>4. v # Nil /\ v.obj # 0 /\ q.obj # 0
    BY <1>1, <1>5, <2>3 DEF Inner, v
  <2>5. q # Nil
    BY <2>4, RefFacts
  <2>6. Stores!Got(r) = Mem(q, grown, px)
    BY <2>2, <2>3, <2>5, NotedIs
  <2>7. Inner(q, objects)
    BY <1>1, <2>3, <2>4 DEF Inner
  <2>8. Bare(q) => q = v /\ grown = visiting /\ q.obj \in twice
    BY <1>3, <2>1, <2>3, <2>4 DEF Bare, Seen
  <2>9. px \in SUBSET Refs /\ Nil \notin px
    BY <1>1, <2>5
  <2>10. \A p \in px : p \in proxied \/ (p = q /\ (Bare(q) => q.obj \in twice))
    BY <2>8
  <2>11. \A u \in 1..MaxSets : \A p \in grown[u] : p \in visiting[u] \/ p = v
    BY <2>3
  <2> HIDE DEF px
  <2> QED BY <2>4, <2>6, <2>7, <2>8, <2>9, <2>10, <2>11 DEF v
<1> QED BY <1>4, <1>5

\* The trap set, as a function of how many proxies have wrapped the value v.
Wrap(by, r, v, n) ==
  IF n = 0 THEN Mem(v, visiting, proxied)
  ELSE Stores!Noted(Wrapped(by[n - 1], r.sets[Len(r.sets) + 1 - n]))
IsWrapping(by, r, v, m) == by = [n \in 0..m |-> Wrap(by, r, v, n)]

\* Induction over data: the wrappings of a value by the sets of one layer after another.
LEMMA WrappingExists ==
  ASSUME NEW r, NEW v, NEW m \in Nat
  PROVE  \E by : IsWrapping(by, r, v, m)
<1> DEFINE P == {n \in Nat : \E by : IsWrapping(by, r, v, n)}
<1>1. 0 \in P
  <2> DEFINE by == [n \in 0..0 |-> Wrap(<<>>, r, v, n)]
  <2>1. \A n \in 0..0 : Wrap(<<>>, r, v, n) = Wrap(by, r, v, n)
    BY DEF Wrap
  <2>2. IsWrapping(by, r, v, 0)
    BY <2>1 DEF IsWrapping
  <2> QED BY <2>2
<1>2. ASSUME NEW n \in Nat, n \in P
      PROVE  n + 1 \in P
  <2>1. PICK before : IsWrapping(before, r, v, n)
    BY <1>2
  <2> DEFINE by == [i \in 0..(n + 1) |-> Wrap(before, r, v, i)]
  <2>2. \A i \in 0..n : by[i] = before[i]
    BY <2>1 DEF IsWrapping
  <2> HIDE DEF by
  <2>3. ASSUME NEW i \in 0..(n + 1) PROVE Wrap(before, r, v, i) = Wrap(by, r, v, i)
    <3>1. i = 0 \/ i - 1 \in 0..n
      OBVIOUS
    <3> QED BY <2>2, <3>1 DEF Wrap
  <2>4. IsWrapping(by, r, v, n + 1)
    BY <2>3 DEF IsWrapping, by
  <2> QED BY <2>4
<1> HIDE DEF P
<1>3. \A n \in 0..m : n \in P
  BY <1>1, <1>2, CountUp
<1> QED BY <1>3 DEF P

\* What is remembered once q stands for the value v.
Holding(v, q, grown, px) ==
  /\ q \in Refs /\ grown \in Visitors /\ px \in SUBSET Refs /\ q.obj = v.obj /\ (v = Nil => q = Nil)
  /\ \A u \in 1..MaxSets : \A p \in grown[u] : p \in visiting[u] \/ (p.obj = v.obj /\ (p.sets = <<>> => p = v))
  /\ \A p \in px : p \in proxied \/ (p.obj = v.obj /\ (p.sets = <<>> => p = v /\ Seen(visiting, v)))
  /\ Nil \notin px
  /\ q.sets = <<>> => q = v /\ grown = visiting

\* A value that wrappings have left bare has been seen.
LEMMA WrapHolds ==
  ASSUME StateConstants, NEW v \in Refs, v.obj = 0 => v = Nil, NEW q, NEW grown, NEW px,
         Holding(v, q, grown, px), NEW s \in 1..MaxSets
  PROVE  \E q2, grown2, px2 :
           /\ Stores!Noted(Wrapped(Mem(q, grown, px), s)) = Mem(q2, grown2, px2)
           /\ Holding(v, q2, grown2, px2)
           /\ q2.sets = <<>> => v = Nil \/ Seen(visiting, v)
<1>1. PICK q2 \in Refs, grown2 \in Visitors :
        /\ Wrapped(Mem(q, grown, px), s) = Mem(q2, grown2, px)
        /\ q2.obj = q.obj /\ (q = Nil => q2 = Nil)
        /\ \A u \in 1..MaxSets : grown[u] \subseteq grown2[u] /\ grown2[u] \subseteq grown[u] \cup {q}
        /\ q2.sets = <<>> => q2 = q /\ grown2 = grown /\ (q = Nil \/ q \in grown[s])
  BY WrapFacts DEF Holding
<1> DEFINE px2 == IF q2 = Nil THEN px ELSE px \cup {q2}
<1>2. Stores!Noted(Wrapped(Mem(q, grown, px), s)) = Mem(q2, grown2, px2)
  <2>1. Stores!Noted(Mem(q2, grown2, px)) = Mem(q2, grown2, px2)
    BY NotedIs
  <2> HIDE DEF px2
  <2> QED BY <1>1, <2>1
<1>3. q2.sets = <<>> => q2 = v /\ grown2 = visiting /\ (v = Nil \/ Seen(visiting, v))
  BY <1>1 DEF Holding, Seen
<1>4. q.sets = <<>> => q = v
  BY DEF Holding
<1>5. \A u \in 1..MaxSets : \A p \in grown2[u] : p \in visiting[u] \/ (p.obj = v.obj /\ (p.sets = <<>> => p = v))
  BY <1>1, <1>4 DEF Holding
<1>6. q2.obj = v.obj /\ (v = Nil => q2 = Nil)
  BY <1>1 DEF Holding
<1>7. q2 # Nil /\ q2.sets = <<>> => q2 = v /\ Seen(visiting, v)
  BY <1>3, <1>6
<1>8. px2 \in SUBSET Refs /\ Nil \notin px2
  BY <1>1 DEF Holding
<1>9. \A p \in px2 : p \in proxied \/ (p.obj = v.obj /\ (p.sets = <<>> => p = v /\ Seen(visiting, v)))
  BY <1>6, <1>7 DEF Holding
<1> HIDE DEF px2
<1>10. Holding(v, q2, grown2, px2)
  BY <1>1, <1>3, <1>5, <1>6, <1>8, <1>9 DEF Holding
<1> QED BY <1>2, <1>3, <1>10

\* What Put leaves in the field, and what is remembered of it.
LEMMA PutFacts ==
  ASSUME StateConstants, StateInv, NEW r \in Refs, r.sets # <<>>, r.obj \in 1..MaxObjects,
         NEW v \in Refs, v.obj = 0 => v = Nil, Stores!Put(r, v)
  PROVE  \E q, grown, px :
           /\ Holding(v, q, grown, px) /\ visiting' = grown /\ proxied' = px
           /\ field' = [field EXCEPT ![r.obj] = q]
           /\ q.sets = <<>> => v = Nil \/ Seen(visiting, v)
<1> DEFINE m == Len(r.sets)
           by == CHOOSE by : IsWrapping(by, r, v, m)
<1>0. r.sets \in Seq(1..MaxSets) /\ m \in Nat \ {0}
  <2>1. r.sets \in Seq(1..MaxSets)
    BY RefFacts
  <2> QED BY <2>1, HasHead
<1>1. field' = [field EXCEPT ![r.obj] = by[m].ref] /\ visiting' = by[m].visiting /\ proxied' = by[m].proxied
  BY DEF Stores!Put, Stores!Keep, IsWrapping, Wrap, Wrapped, Mem, Stores!Memory
<1>2. IsWrapping(by, r, v, m)
  BY <1>0, WrappingExists
<1> HIDE DEF by, m
<1>3. \A n \in 0..m : by[n] = Wrap(by, r, v, n)
  BY <1>2 DEF IsWrapping
<1> DEFINE Ok(n) == \E q, grown, px :
                      /\ by[n] = Mem(q, grown, px) /\ Holding(v, q, grown, px)
                      /\ n # 0 /\ q.sets = <<>> => v = Nil \/ Seen(visiting, v)
           P == {n \in Nat : Ok(n)}
<1>4. 0 \in P
  <2>1. by[0] = Mem(v, visiting, proxied)
    BY <1>0, <1>3 DEF Wrap
  <2>2. Holding(v, v, visiting, proxied)
    BY DEF StateInv, StateTyped, BareOnesAreTwice, Holding
  <2> QED BY <2>1, <2>2
<1>5. ASSUME NEW n \in Nat, n < m, n \in P PROVE n + 1 \in P
  <2>1. PICK q, grown, px : by[n] = Mem(q, grown, px) /\ Holding(v, q, grown, px)
    BY <1>5
  <2> DEFINE s == r.sets[m + 1 - (n + 1)]
  <2>2. n + 1 \in 0..m /\ n + 1 # 0 /\ (n + 1) - 1 = n /\ m + 1 - (n + 1) \in 1..m
    BY <1>0, <1>5
  <2>3. s \in 1..MaxSets
    <3> DEFINE k == m + 1 - (n + 1)
    <3>1. k \in 1..Len(r.sets)
      BY <2>2 DEF m
    <3> HIDE DEF k
    <3>2. r.sets[k] \in 1..MaxSets
      BY <1>0, <3>1, ElementIsIn
    <3> QED BY <3>2 DEF k
  <2>4. by[n + 1] = Stores!Noted(Wrapped(by[n], s))
    BY <1>3, <2>2 DEF Wrap, m
  <2> HIDE DEF s
  <2>5. \E q2, grown2, px2 :
          /\ Stores!Noted(Wrapped(Mem(q, grown, px), s)) = Mem(q2, grown2, px2)
          /\ Holding(v, q2, grown2, px2)
          /\ q2.sets = <<>> => v = Nil \/ Seen(visiting, v)
    BY <2>1, <2>3, WrapHolds
  <2> QED BY <2>1, <2>4, <2>5
<1> HIDE DEF P
<1>6. \A n \in 0..m : n \in P
  BY <1>0, <1>4, <1>5, CountUp
<1>7. PICK q, grown, px :
        /\ by[m] = Mem(q, grown, px) /\ Holding(v, q, grown, px)
        /\ m # 0 /\ q.sets = <<>> => v = Nil \/ Seen(visiting, v)
  BY <1>0, <1>6 DEF P
<1>8. by[m].ref = q /\ by[m].visiting = grown /\ by[m].proxied = px
  BY <1>7 DEF Mem
<1> QED BY <1>0, <1>1, <1>7, <1>8

\* A step that leaves bare references only to objects that were put in a second time.
LEMMA StateKeeps ==
  ASSUME StateConstants, StateInv, objects' \in objects..MaxObjects, sets' \in 1..MaxSets,
         twice \subseteq twice', twice' \in SUBSET (1..MaxObjects),
         field' \in [1..MaxObjects -> Refs], visiting' \in Visitors, proxied' \in SUBSET Refs,
         \A o \in 1..MaxObjects :
           \/ field'[o] = field[o]
           \/ Inner(field'[o], objects') /\ (Bare(field'[o]) => field'[o].obj \in twice'),
         field'[Root] = field[Root] /\ field[Root] = Raw(2) /\ 2 \notin twice' =>
           \A u \in 1..MaxSets : Raw(2) \in visiting'[u] => Raw(2) \in visiting[u],
         \A u \in 1..MaxSets : \A p \in visiting'[u] : p \in visiting[u] \/ p.obj <= objects',
         \A p \in proxied' : p \in proxied \/ (Bare(p) => p.obj \in twice'), Nil \notin proxied',
         Inner(kept', objects'), Bare(kept') => kept'.obj \in twice',
         held' \in Refs, held'.obj \in 1..objects', held'.sets = <<>> => held'.obj \in twice'
  PROVE  StateInv'
<1>0. StateTyped /\ BareOnesAreTwice /\ objects \in Nat /\ objects' \in Nat /\ objects <= objects' /\ MaxObjects \in Nat
  BY DEF StateInv, StateTyped, StateConstants
<1>1. \A q, n : Inner(q, objects) => Inner(q, objects')
  <2> SUFFICES ASSUME NEW q, Inner(q, objects) PROVE Inner(q, objects')
    OBVIOUS
  <2>1. q.obj \in 0..MaxObjects
    BY RefFacts DEF Inner
  <2>2. q.obj <= objects'
    BY <1>0, <2>1 DEF Inner
  <2> QED BY <2>2 DEF Inner
<1>2. \A o \in 1..MaxObjects : Inner(field'[o], objects')
  BY <1>0, <1>1 DEF StateTyped
<1>3. ASSUME NEW u \in 1..MaxSets, NEW p \in visiting'[u] PROVE p.obj <= objects'
  <2>1. p \in Refs /\ p.obj \in 0..MaxObjects
    <3>1. p \in Refs
      BY <1>3 DEF Visitors
    <3> QED BY <3>1, RefFacts
  <2>2. p \in visiting[u] => p.obj <= objects
    BY <1>0 DEF StateTyped
  <2> QED BY <1>0, <1>3, <2>1, <2>2
<1>4. StateTyped'
  <2>1. Root = 1 /\ objects' \in 2..MaxObjects
    BY <1>0 DEF StateTyped
  <2> QED BY <1>2, <1>3, <2>1 DEF StateTyped
<1>5. ASSUME NEW o \in 1..MaxObjects, Bare(field'[o]), field'[o].obj \notin twice'
      PROVE  o = Root /\ field'[o] = Raw(2) /\ ~Seen(visiting', Raw(2))
  <2>1. field'[o] = field[o]
    BY <1>5
  <2>2. o = Root /\ field[o] = Raw(2) /\ ~Seen(visiting, Raw(2))
    BY <1>0, <1>5, <2>1 DEF BareOnesAreTwice
  <2>3. Raw(2).obj = 2
    <3>1. 2 \in 0..MaxObjects
      BY DEF StateConstants
    <3> QED BY <3>1, RefFacts
  <2> QED BY <1>5, <2>1, <2>2, <2>3 DEF Seen
<1>6. BareOnesAreTwice'
  <2>1. \A q \in proxied' : Bare(q) => q.obj \in twice'
    BY <1>0 DEF BareOnesAreTwice
  <2> QED BY <1>5, <2>1 DEF BareOnesAreTwice
<1>7. Stores!ReadIsWatched'
  BY DEF Stores!ReadIsWatched
<1> QED BY <1>4, <1>6, <1>7 DEF StateInv

\* What the invariant says of the numbers and references of a state.
LEMMA StateFacts ==
  ASSUME StateConstants, StateInv
  PROVE  /\ Root = 1 /\ objects \in Nat /\ objects >= 2 /\ objects <= MaxObjects /\ MaxObjects \in Nat /\ 2 \in 0..MaxObjects
         /\ held \in Refs /\ held.obj \in 1..objects /\ held.obj \in 1..MaxObjects /\ kept \in Refs
         /\ Inner(kept, objects) /\ (Bare(kept) => kept.obj \in twice) /\ (held.sets = <<>> => held.obj \in twice)
         /\ twice \in SUBSET (1..MaxObjects) /\ sets \in 1..MaxSets /\ objects \in objects..MaxObjects
         /\ field \in [1..MaxObjects -> Refs] /\ visiting \in Visitors /\ proxied \in SUBSET Refs
         /\ Nil \notin proxied /\ Raw(2) # Nil /\ Raw(2).obj = 2 /\ Bare(Raw(2))
<1>1. /\ Root = 1 /\ objects \in Nat /\ objects >= 2 /\ objects <= MaxObjects /\ MaxObjects \in Nat /\ 2 \in 0..MaxObjects
      /\ objects \in objects..MaxObjects
  BY DEF StateConstants, StateInv, StateTyped
<1>2. held \in Refs /\ held.obj \in 1..objects /\ (held.sets = <<>> => held.obj \in twice)
  BY DEF StateInv, StateTyped, Stores!ReadIsWatched
<1>3. held.obj \in 1..MaxObjects
  BY <1>1, <1>2
<1>4. Raw(2).obj = 2 /\ Raw(2).sets = <<>> /\ Nil.obj = 0
  BY <1>1, RefFacts
<1>5. Raw(2) # Nil /\ Bare(Raw(2))
  BY <1>4 DEF Bare
<1>6. Inner(kept, objects) /\ kept \in Refs /\ (Bare(kept) => kept.obj \in twice) /\ Nil \notin proxied
  BY DEF StateInv, StateTyped, BareOnesAreTwice, Inner
<1>7. /\ twice \in SUBSET (1..MaxObjects) /\ sets \in 1..MaxSets
      /\ field \in [1..MaxObjects -> Refs] /\ visiting \in Visitors /\ proxied \in SUBSET Refs
  BY DEF StateInv, StateTyped
<1> QED BY <1>1, <1>2, <1>3, <1>4, <1>5, <1>6, <1>7

LEMMA InnerGrows ==
  ASSUME StateConstants, NEW n \in Nat, NEW q, Inner(q, objects), objects \in Nat, objects <= n
  PROVE  Inner(q, n)
<1>1. q.obj \in 0..MaxObjects /\ MaxObjects \in Nat
  BY RefFacts DEF Inner, StateConstants
<1>2. q.obj <= n
  BY <1>1 DEF Inner
<1> QED BY <1>2 DEF Inner

\* Reading wraps what it returns.
LEMMA ReadKeeps ==
  ASSUME StateConstants, StateInv, Stores!Read
  PROVE  StateInv'
<1>0. /\ held \in Refs /\ held.obj \in 1..objects /\ held.obj \in 1..MaxObjects
      /\ field \in [1..MaxObjects -> Refs] /\ Root = 1
  BY StateFacts
<1>1. held.sets # <<>> /\ Stores!Got(held).ref # Nil
  BY DEF Stores!Read, Stores!Watched, Nil
<1>2. PICK q \in Refs, grown \in Visitors, px \in SUBSET Refs :
           /\ Stores!Got(held) = Mem(q, grown, px) /\ Inner(q, objects)
           /\ field[held.obj] = Nil => q = Nil
           /\ \A u \in 1..MaxSets : \A p \in grown[u] : p \in visiting[u] \/ p = field[held.obj]
           /\ \A p \in px : p \in proxied \/ (p = q /\ (Bare(q) => q.obj \in twice))
           /\ Nil \notin px
           /\ Bare(q) => /\ q = field[held.obj] /\ grown = visiting
                         /\ (held.sets # <<>> => q.obj \in twice)
  BY <1>0, GotFacts
<1>3. /\ held' = q /\ field' = [field EXCEPT ![held.obj] = q] /\ visiting' = grown /\ proxied' = px
      /\ UNCHANGED <<objects, sets, kept, changes, twice>> /\ q # Nil
  BY <1>1, <1>2 DEF Stores!Read, Stores!Keep, Mem
<1>4. field' \in [1..MaxObjects -> Refs] /\ field'[held.obj] = q /\ \A o \in 1..MaxObjects : o # held.obj => field'[o] = field[o]
  BY <1>0, <1>3
<1>5. \A o \in 1..MaxObjects :
        \/ field'[o] = field[o]
        \/ Inner(field'[o], objects') /\ (Bare(field'[o]) => field'[o].obj \in twice')
  BY <1>1, <1>2, <1>3, <1>4
<1>6. ASSUME field'[Root] = field[Root], field[Root] = Raw(2), 2 \notin twice'
      PROVE  \A u \in 1..MaxSets : Raw(2) \in visiting'[u] => Raw(2) \in visiting[u]
  <2>1. Bare(Raw(2)) /\ Raw(2).obj = 2 /\ BareOnesAreTwice
    BY StateFacts DEF StateInv
  <2>2. CASE held.obj = Root
    <3>1. q = Raw(2)
      BY <1>4, <1>6, <2>2
    <3> QED BY <1>2, <1>3, <2>1, <3>1
  <2>3. CASE held.obj # Root
    <3>1. field[held.obj] # Raw(2)
      BY <1>0, <1>3, <1>6, <2>1, <2>3 DEF BareOnesAreTwice
    <3> QED BY <1>2, <1>3, <3>1
  <2> QED BY <2>2, <2>3
<1>7. ASSUME NEW u \in 1..MaxSets, NEW p \in visiting'[u] PROVE p \in visiting[u] \/ p.obj <= objects'
  <2>1. Inner(field[held.obj], objects)
    BY <1>0 DEF StateInv, StateTyped
  <2> QED BY <1>2, <1>3, <1>7, <2>1 DEF Inner
<1>8. \A p \in proxied' : p \in proxied \/ (Bare(p) => p.obj \in twice')
  BY <1>2, <1>3
<1>9. q.sets = <<>> => q.obj \in twice
  BY <1>1, <1>2, <1>3 DEF Bare
<1>10. q.obj \in 1..objects'
  <2>1. q.obj # 0 /\ q.obj <= objects /\ q.obj \in 0..MaxObjects
    BY <1>2, <1>3, RefFacts DEF Inner
  <2> QED BY <1>3, <2>1, StateFacts
<1>11. /\ objects' \in objects..MaxObjects /\ sets' \in 1..MaxSets /\ twice \subseteq twice' /\ twice' \in SUBSET (1..MaxObjects)
       /\ visiting' \in Visitors /\ proxied' \in SUBSET Refs /\ Nil \notin proxied'
       /\ Inner(kept', objects') /\ (Bare(kept') => kept'.obj \in twice')
  BY <1>2, <1>3, StateFacts
<1>12. held' \in Refs /\ held'.obj \in 1..objects' /\ (held'.sets = <<>> => held'.obj \in twice')
  BY <1>3, <1>9, <1>10
<1> QED BY <1>4, <1>5, <1>6, <1>7, <1>8, <1>11, <1>12, StateKeeps

\* Writing a value through a proxy.
LEMMA WriteValueKeeps ==
  ASSUME StateConstants, StateInv, NEW v \in Refs, Stores!Put(held, v),
         objects' \in objects..MaxObjects, twice \subseteq twice', twice' \in SUBSET (1..MaxObjects),
         Inner(v, objects'), Bare(v) => v.obj \in twice' \/ (~Seen(visiting, v) /\ v # Raw(2)),
         UNCHANGED <<sets, held, kept>>
  PROVE  StateInv'
<1>0. /\ held \in Refs /\ held.obj \in 1..objects /\ held.obj \in 1..MaxObjects
      /\ field \in [1..MaxObjects -> Refs] /\ Root = 1 /\ objects \in Nat /\ MaxObjects \in Nat
  BY StateFacts
<1>1. held.sets # <<>> /\ (v.obj = 0 => v = Nil)
  BY DEF Stores!Put, Stores!Watched, Inner
<1>2. PICK q, grown, px :
        /\ Holding(v, q, grown, px) /\ visiting' = grown /\ proxied' = px
        /\ field' = [field EXCEPT ![held.obj] = q]
        /\ q.sets = <<>> => v = Nil \/ Seen(visiting, v)
  BY <1>0, <1>1, PutFacts
<1>3. q \in Refs /\ q.obj = v.obj /\ (v = Nil => q = Nil) /\ (q.sets = <<>> => q = v)
      /\ visiting' \in Visitors /\ proxied' \in SUBSET Refs /\ Nil \notin proxied'
  BY <1>2 DEF Holding
<1>4. field' \in [1..MaxObjects -> Refs] /\ field'[held.obj] = q /\ \A o \in 1..MaxObjects : o # held.obj => field'[o] = field[o]
  BY <1>0, <1>2, <1>3
<1>5. Inner(q, objects')
  BY <1>1, <1>3 DEF Inner
<1>6. Bare(q) => q.obj \in twice'
  BY <1>2, <1>3 DEF Bare
<1>7. \A o \in 1..MaxObjects :
        \/ field'[o] = field[o]
        \/ Inner(field'[o], objects') /\ (Bare(field'[o]) => field'[o].obj \in twice')
  BY <1>4, <1>5, <1>6
<1>8. ASSUME field'[Root] = field[Root], field[Root] = Raw(2), 2 \notin twice'
      PROVE  \A u \in 1..MaxSets : Raw(2) \in visiting'[u] => Raw(2) \in visiting[u]
  <2> SUFFICES ASSUME NEW u \in 1..MaxSets, Raw(2) \in visiting'[u], Raw(2) \notin visiting[u]
               PROVE  FALSE
    OBVIOUS
  <2>1. Bare(Raw(2)) /\ Raw(2).obj = 2 /\ Raw(2).sets = <<>>
    BY StateFacts DEF Bare
  <2>2. Raw(2) = v
    BY <1>2, <2>1 DEF Holding
  <2> QED BY <1>8, <2>1, <2>2
<1>9. ASSUME NEW u \in 1..MaxSets, NEW p \in visiting'[u] PROVE p \in visiting[u] \/ p.obj <= objects'
  BY <1>2, <1>9 DEF Holding, Inner
<1>10. ASSUME NEW p \in proxied', p \notin proxied, Bare(p) PROVE p.obj \in twice'
  <2>1. p = v /\ Seen(visiting, v)
    BY <1>2, <1>10 DEF Holding, Bare
  <2> QED BY <1>10, <2>1
<1>11. /\ sets' \in 1..MaxSets /\ Inner(kept', objects') /\ (Bare(kept') => kept'.obj \in twice')
       /\ held' \in Refs /\ held'.obj \in 1..objects' /\ (held'.sets = <<>> => held'.obj \in twice')
  <2>1. Inner(kept, objects')
    BY <1>0, StateFacts, InnerGrows
  <2>2. held.obj \in 1..objects'
    BY <1>0
  <2> QED BY <2>1, <2>2, StateFacts
<1> QED BY <1>3, <1>4, <1>7, <1>8, <1>9, <1>10, <1>11, StateKeeps

\* What is written was wrapped, or was in the application before and is counted as put in twice.
LEMMA WritesKeep ==
  ASSUME StateConstants, StateInv
  PROVE  /\ Stores!WriteNew => StateInv'
         /\ \A o \in Stores!Objects : Stores!WriteAgain(o) => StateInv'
         /\ Stores!WriteKept => StateInv'
         /\ Stores!Delete => StateInv'
<1>0. /\ objects \in Nat /\ objects >= 2 /\ objects <= MaxObjects /\ MaxObjects \in Nat /\ twice \in SUBSET (1..MaxObjects)
      /\ objects \in objects..MaxObjects /\ Inner(kept, objects) /\ kept \in Refs /\ (Bare(kept) => kept.obj \in twice)
  BY StateFacts
<1>1. ASSUME Stores!WriteNew PROVE StateInv'
  <2>1. /\ objects < MaxObjects /\ objects' = objects + 1 /\ UNCHANGED <<sets, held, kept, twice>>
        /\ Stores!Put(held, Raw(objects + 1))
    BY <1>1 DEF Stores!WriteNew, Raw
  <2> DEFINE v == Raw(objects + 1)
  <2>2. objects + 1 \in 0..MaxObjects /\ objects + 1 # 0 /\ objects + 1 # 1 /\ objects + 1 # 2 /\ objects' \in objects..MaxObjects
    BY <1>0, <2>1
  <2>3. v \in Refs /\ v.obj = objects + 1
    BY <2>2, RefFacts
  <2>4. v # Raw(2)
    BY <2>2, <2>3, StateFacts
  <2>5. ~Seen(visiting, v)
    <3>1. ASSUME NEW s \in 1..MaxSets, v \in visiting[s] PROVE FALSE
      <4>1. objects + 1 <= objects
        BY <2>3, <3>1 DEF StateInv, StateTyped
      <4> QED BY <1>0, <4>1
    <3> QED BY <3>1 DEF Seen
  <2> HIDE DEF v
  <2>6. Inner(v, objects')
    BY <1>0, <2>1, <2>2, <2>3 DEF Inner
  <2>7. Stores!Put(held, v)
    BY <2>1 DEF v
  <2> QED BY <1>0, <2>1, <2>2, <2>3, <2>4, <2>5, <2>6, <2>7, WriteValueKeeps
<1>2. ASSUME NEW o \in Stores!Objects, Stores!WriteAgain(o) PROVE StateInv'
  <2>1. /\ o \in 2..objects /\ Stores!Put(held, Raw(o)) /\ twice' = twice \cup {o}
        /\ UNCHANGED <<objects, sets, held, kept>>
    BY <1>2 DEF Stores!WriteAgain, Raw
  <2> DEFINE v == Raw(o)
  <2>2. o \in 0..MaxObjects /\ o \in 1..MaxObjects /\ o # 0 /\ o # 1 /\ o <= objects
    BY <1>0, <2>1
  <2>3. v \in Refs /\ v.obj = o
    BY <2>2, RefFacts
  <2> HIDE DEF v
  <2>4. Inner(v, objects')
    BY <2>1, <2>2, <2>3 DEF Inner
  <2>5. v.obj \in twice' /\ twice' \in SUBSET (1..MaxObjects) /\ twice \subseteq twice' /\ objects' \in objects..MaxObjects
    BY <1>0, <2>1, <2>2, <2>3
  <2>6. Stores!Put(held, v) /\ UNCHANGED <<sets, held, kept>>
    BY <2>1 DEF v
  <2> QED BY <2>3, <2>4, <2>5, <2>6, WriteValueKeeps
<1>3. ASSUME Stores!WriteKept PROVE StateInv'
  <2>1. Stores!Put(held, kept) /\ UNCHANGED <<objects, sets, held, kept, twice>>
    BY <1>3 DEF Stores!WriteKept
  <2> QED BY <1>0, <2>1, WriteValueKeeps
<1>4. ASSUME Stores!Delete PROVE StateInv'
  <2>1. Stores!Put(held, Nil) /\ UNCHANGED <<objects, sets, held, kept, twice>>
    BY <1>4 DEF Stores!Delete, Nil
  <2>2. Nil \in Refs /\ Inner(Nil, objects') /\ ~Bare(Nil)
    BY <1>0, <2>1, RefFacts DEF Inner, Bare
  <2> QED BY <1>0, <2>1, <2>2, WriteValueKeeps
<1> QED BY <1>1, <1>2, <1>3, <1>4

LEMMA ApplicationKeeps ==
  ASSUME StateConstants, StateInv
  PROVE  (Stores!Restart => StateInv') /\ (Stores!KeepIt => StateInv')
<1>0. /\ objects \in Nat /\ held.obj \in 1..objects /\ held \in Refs /\ (held.sets = <<>> => held.obj \in twice) /\ Root = 1
      /\ twice \in SUBSET (1..MaxObjects) /\ sets \in 1..MaxSets /\ objects \in objects..MaxObjects
      /\ field \in [1..MaxObjects -> Refs] /\ visiting \in Visitors /\ proxied \in SUBSET Refs
      /\ Nil \notin proxied /\ Inner(kept, objects) /\ (Bare(kept) => kept.obj \in twice) /\ objects >= 2
  BY StateFacts
<1>1. ASSUME UNCHANGED <<field, objects, sets, visiting, proxied, twice>>,
             Inner(kept', objects'), Bare(kept') => kept'.obj \in twice',
             held' \in Refs, held'.obj \in 1..objects', held'.sets = <<>> => held'.obj \in twice'
      PROVE  StateInv'
  <2>1. \A o \in 1..MaxObjects : field'[o] = field[o]
    BY <1>1
  <2>2. \A u \in 1..MaxSets : visiting'[u] = visiting[u]
    BY <1>1
  <2> QED BY <1>0, <1>1, <2>1, <2>2, StateKeeps
<1>2. ASSUME Stores!Restart PROVE StateInv'
  <2>1. UNCHANGED <<field, objects, sets, visiting, proxied, kept, twice>> /\ held' = Stores!stateProxy
    BY <1>2 DEF Stores!Restart
  <2>2. held' \in Refs /\ held'.obj \in 1..objects /\ held'.sets # <<>>
    <3>1. 1 \in 1..MaxSets /\ 1 \in 0..MaxObjects /\ 1 \in 1..objects
      BY <1>0 DEF StateConstants
    <3>2. <<1>> \in Seq(1..MaxSets) /\ <<1>> # <<>>
      BY <3>1
    <3>3. held' = [obj |-> 1, sets |-> <<1>>]
      BY <1>0, <2>1 DEF Stores!stateProxy
    <3> QED BY <3>1, <3>2, <3>3 DEF Refs
  <2> QED BY <1>0, <1>1, <2>1, <2>2
<1>3. ASSUME Stores!KeepIt PROVE StateInv'
  <2>1. held.obj # Root /\ kept' = held /\ UNCHANGED <<field, objects, sets, visiting, proxied, held, twice>>
    BY <1>3 DEF Stores!KeepIt
  <2>2. Inner(held, objects)
    BY <1>0, <2>1 DEF Inner
  <2> QED BY <1>0, <1>1, <2>1, <2>2 DEF Bare
<1> QED BY <1>2, <1>3

\* reset() copies the state it began with.
LEMMA ResetKeeps ==
  ASSUME StateConstants, StateInv, Stores!reset
  PROVE  StateInv'
<1>0. /\ objects \in Nat /\ objects >= 2 /\ MaxObjects \in Nat /\ twice \in SUBSET (1..MaxObjects) /\ sets \in 1..MaxSets
      /\ held \in Refs /\ held.obj \in 1..objects /\ (held.sets = <<>> => held.obj \in twice) /\ Root = 1
      /\ field \in [1..MaxObjects -> Refs] /\ visiting \in Visitors /\ proxied \in SUBSET Refs
      /\ Nil \notin proxied /\ Inner(kept, objects) /\ (Bare(kept) => kept.obj \in twice)
  BY StateFacts
<1> DEFINE s == sets + 1
           v == Raw(objects + 2)
           vis == [visiting EXCEPT ![s] = {Raw(objects + 1)}]
           fresh == [Stores!Memory(v) EXCEPT !.visiting[s] = {Raw(objects + 1)}]
           m == Stores!Noted(Wrapped(fresh, s))
<1>1. /\ objects + 2 <= MaxObjects /\ objects' = objects + 2 /\ sets < MaxSets /\ sets' = s
      /\ field' = [field EXCEPT ![Root] = m.ref, ![objects + 1] = m.ref]
      /\ visiting' = m.visiting /\ proxied' = m.proxied /\ UNCHANGED <<held, kept, twice>>
  BY DEF Stores!reset, Stores!Keep, Raw, Wrapped
<1> HIDE DEF m
<1>2. s \in 1..MaxSets /\ objects + 1 \in 0..MaxObjects /\ objects + 2 \in 0..MaxObjects /\ objects + 1 # objects + 2
      /\ objects + 2 # 0 /\ objects + 2 # 1 /\ objects + 1 # 2 /\ objects + 2 # 2 /\ objects + 1 \in 1..MaxObjects
      /\ objects' \in objects..MaxObjects /\ objects <= objects' /\ objects' \in Nat
  BY <1>0, <1>1 DEF StateConstants
<1> HIDE DEF s
<1>3. v \in Refs /\ v.obj = objects + 2 /\ v.sets = <<>> /\ Raw(objects + 1) \in Refs /\ Raw(objects + 1).obj = objects + 1
  BY <1>2, RefFacts
<1>4. v # Nil /\ v # Raw(objects + 1) /\ v # Raw(2) /\ Raw(objects + 1) # Raw(2)
  BY <1>2, <1>3, RefFacts, StateFacts
<1> HIDE DEF v
<1>5. fresh = Mem(v, vis, proxied)
  BY DEF Mem, Stores!Memory
<1>6. vis \in Visitors /\ vis[s] = {Raw(objects + 1)} /\ \A u \in 1..MaxSets : u # s => vis[u] = visiting[u]
  BY <1>0, <1>2, <1>3 DEF Visitors
<1> HIDE DEF vis, fresh
<1>7. PICK r \in Refs, grown \in Visitors :
           /\ Wrapped(Mem(v, vis, proxied), s) = Mem(r, grown, proxied)
           /\ r.obj = v.obj /\ (v = Nil => r = Nil)
           /\ \A u \in 1..MaxSets : vis[u] \subseteq grown[u] /\ grown[u] \subseteq vis[u] \cup {v}
           /\ r.sets = <<>> => r = v /\ grown = vis /\ (v = Nil \/ v \in vis[s])
  <2>1. s \in 1..MaxSets
    BY <1>2
  <2>2. v \in Refs
    BY <1>3
  <2>3. vis \in Visitors
    BY <1>6
  <2> QED BY <2>1, <2>2, <2>3, WrapFacts
<1>8. r.sets # <<>> /\ r # Nil /\ r # Raw(2) /\ ~Bare(r)
  <2>1. r.sets # <<>>
    BY <1>4, <1>6, <1>7
  <2> QED BY <2>1, StateFacts, RefFacts DEF Bare
<1>9. m = Mem(r, grown, proxied \cup {r})
  BY <1>5, <1>7, <1>8, NotedIs DEF m
<1>10. visiting' = grown /\ proxied' = proxied \cup {r} /\ field' = [field EXCEPT ![Root] = r, ![objects + 1] = r]
  BY <1>1, <1>9 DEF Mem
<1>11. Inner(r, objects')
  BY <1>0, <1>1, <1>2, <1>3, <1>7 DEF Inner
<1>12. /\ field' \in [1..MaxObjects -> Refs] /\ field'[1] = r
       /\ \A o \in 1..MaxObjects : field'[o] = field[o] \/ field'[o] = r
  BY <1>0, <1>2, <1>10 DEF StateConstants
<1>13. ASSUME NEW u \in 1..MaxSets, NEW p \in visiting'[u] PROVE p \in visiting[u] \/ p.obj <= objects'
  <2>1. p \in visiting[u] \/ p = v \/ p = Raw(objects + 1)
    BY <1>6, <1>7, <1>10, <1>13
  <2>2. v.obj <= objects' /\ Raw(objects + 1).obj <= objects'
    BY <1>0, <1>1, <1>3
  <2> QED BY <2>1, <2>2
<1>14. field'[Root] # Raw(2)
  BY <1>0, <1>8, <1>12
<1>15. visiting' \in Visitors /\ proxied' \in SUBSET Refs /\ Nil \notin proxied' /\ twice' = twice
       /\ sets' \in 1..MaxSets /\ \A p \in proxied' : p \in proxied \/ ~Bare(p)
  BY <1>0, <1>1, <1>2, <1>7, <1>8, <1>10
<1>16. Inner(kept, objects') /\ held.obj \in 1..objects'
  <2>1. Inner(kept, objects')
    BY <1>0, <1>2, InnerGrows
  <2> QED BY <1>0, <1>1, <2>1
<1>17. Inner(kept', objects') /\ (Bare(kept') => kept'.obj \in twice') /\ held' \in Refs /\ held'.obj \in 1..objects'
       /\ (held'.sets = <<>> => held'.obj \in twice')
  BY <1>0, <1>1, <1>16
<1>18. twice \subseteq twice' /\ twice' \in SUBSET (1..MaxObjects)
  BY <1>0, <1>15
<1>19. \A o \in 1..MaxObjects :
        \/ field'[o] = field[o]
        \/ Inner(field'[o], objects') /\ (Bare(field'[o]) => field'[o].obj \in twice')
  BY <1>8, <1>11, <1>12
<1>20. \A p \in proxied' : p \in proxied \/ (Bare(p) => p.obj \in twice')
  BY <1>15
<1> QED BY <1>2, <1>12, <1>13, <1>14, <1>15, <1>17, <1>18, <1>19, <1>20, StateKeeps

\* The copy that $patch makes holds what is in the object it copies, which it reads.
LEMMA InnerFacts ==
  ASSUME StateConstants, StateInv
  PROVE  \E q \in Refs, grown \in Visitors, px \in SUBSET Refs :
           /\ (IF field[Root] = Nil THEN Stores!Memory(Nil) ELSE Stores!Got(field[Root])) = Mem(q, grown, px)
           /\ Inner(q, objects) /\ (Bare(q) => q.obj \in twice) /\ Nil \notin px
           /\ \A u \in 1..MaxSets : \A p \in grown[u] : p \in visiting[u] \/ p.obj <= objects
           /\ \A p \in px : p \in proxied \/ (Bare(p) => p.obj \in twice)
<1>0. /\ objects \in Nat /\ MaxObjects \in Nat /\ Root = 1 /\ Root \in 1..MaxObjects /\ visiting \in Visitors
      /\ proxied \in SUBSET Refs /\ Nil \notin proxied /\ objects <= MaxObjects /\ field \in [1..MaxObjects -> Refs]
  BY StateFacts DEF StateConstants
<1>1. \A o \in 1..MaxObjects : Inner(field[o], objects) /\ field[o] \in Refs
  BY <1>0 DEF StateInv, StateTyped
<1>2. CASE field[Root] = Nil
  <2>1. Stores!Memory(Nil) = Mem(Nil, visiting, proxied)
    BY DEF Stores!Memory, Mem
  <2>2. Nil \in Refs /\ Inner(Nil, objects) /\ ~Bare(Nil)
    BY <1>0, RefFacts DEF Inner, Bare
  <2> QED BY <1>0, <1>2, <2>1, <2>2
<1>3. CASE field[Root] # Nil
  <2> DEFINE r == field[Root]
  <2>1. r \in Refs /\ r.obj # 0 /\ r.obj # 1 /\ r.obj \in 1..MaxObjects
    <3>1. r \in Refs /\ Inner(r, objects) /\ r.obj \in 0..MaxObjects
      BY <1>0, <1>1, RefFacts
    <3>2. r.obj # 0 /\ r.obj # 1
      BY <1>3, <3>1 DEF Inner
    <3> HIDE DEF r
    <3> QED BY <1>0, <3>1, <3>2
  <2> HIDE DEF r
  <2>2. PICK q \in Refs, grown \in Visitors, px \in SUBSET Refs :
           /\ Stores!Got(r) = Mem(q, grown, px) /\ Inner(q, objects)
           /\ field[r.obj] = Nil => q = Nil
           /\ \A u \in 1..MaxSets : \A p \in grown[u] : p \in visiting[u] \/ p = field[r.obj]
           /\ \A p \in px : p \in proxied \/ (p = q /\ (Bare(q) => q.obj \in twice))
           /\ Nil \notin px
           /\ Bare(q) => /\ q = field[r.obj] /\ grown = visiting
                         /\ (r.sets # <<>> => q.obj \in twice)
    BY <2>1, GotFacts
  <2>3. Bare(q) => q.obj \in twice
    BY <1>0, <2>1, <2>2 DEF StateInv, BareOnesAreTwice
  <2>4. field[r.obj].obj <= objects
    BY <1>1, <2>1 DEF Inner
  <2>5. \A u \in 1..MaxSets : \A p \in grown[u] : p \in visiting[u] \/ p.obj <= objects
    BY <2>2, <2>4
  <2>6. \A p \in px : p \in proxied \/ (Bare(p) => p.obj \in twice)
    BY <2>2
  <2> QED BY <1>3, <2>2, <2>3, <2>5, <2>6 DEF r
<1> QED BY <1>2, <1>3

\* patch() puts a copy of the given values in.
LEMMA PatchKeeps ==
  ASSUME StateConstants, StateInv, Stores!patch
  PROVE  StateInv'
<1>0. /\ objects \in Nat /\ objects >= 2 /\ MaxObjects \in Nat /\ twice \in SUBSET (1..MaxObjects) /\ sets \in 1..MaxSets
      /\ held \in Refs /\ held.obj \in 1..objects /\ (held.sets = <<>> => held.obj \in twice) /\ Root = 1
      /\ field \in [1..MaxObjects -> Refs] /\ visiting \in Visitors /\ proxied \in SUBSET Refs
      /\ Nil \notin proxied /\ Inner(kept, objects) /\ (Bare(kept) => kept.obj \in twice)
  BY StateFacts
<1> DEFINE s == sets + 1
           v == Raw(objects + 1)
           old == field[Root]
           inner == IF old = Nil THEN Stores!Memory(Nil) ELSE Stores!Got(old)
           new == Wrapped([inner EXCEPT !.ref = v], s)
<1>1. /\ objects < MaxObjects /\ objects' = objects + 1 /\ sets < MaxSets /\ sets' = s
      /\ field' = [o \in 1..MaxObjects |-> CASE o = Root -> new.ref
                                             [] o = objects + 1 -> inner.ref
                                             [] old # Nil /\ o = old.obj -> inner.ref
                                             [] OTHER -> field[o]]
      /\ visiting' = new.visiting /\ proxied' = new.proxied /\ UNCHANGED <<held, kept, twice>>
  BY DEF Stores!patch, Stores!Keep, Raw, Wrapped, Nil, Stores!Objects
<1>2. PICK q \in Refs, grown \in Visitors, px \in SUBSET Refs :
           /\ inner = Mem(q, grown, px)
           /\ Inner(q, objects) /\ (Bare(q) => q.obj \in twice) /\ Nil \notin px
           /\ \A u \in 1..MaxSets : \A p \in grown[u] : p \in visiting[u] \/ p.obj <= objects
           /\ \A p \in px : p \in proxied \/ (Bare(p) => p.obj \in twice)
  BY InnerFacts
<1> HIDE DEF inner, new, old
<1>3. s \in 1..MaxSets /\ objects + 1 \in 0..MaxObjects /\ objects + 1 \in 1..MaxObjects
      /\ objects + 1 # 0 /\ objects + 1 # 1 /\ objects + 1 # 2
      /\ objects' \in objects..MaxObjects /\ objects <= objects' /\ objects' \in Nat
  BY <1>0, <1>1 DEF StateConstants
<1> HIDE DEF s
<1>4. v \in Refs /\ v.obj = objects + 1 /\ v # Nil
  BY <1>3, RefFacts
<1> HIDE DEF v
<1>5. ASSUME NEW u \in 1..MaxSets, NEW p \in grown[u] PROVE p.obj <= objects
  BY <1>2, <1>5 DEF StateInv, StateTyped
<1>6. new = Wrapped(Mem(v, grown, px), s)
  <2>1. [inner EXCEPT !.ref = v] = Mem(v, grown, px)
    BY <1>2 DEF Mem
  <2> QED BY <2>1 DEF new
<1>7. PICK r \in Refs, grown2 \in Visitors :
           /\ Wrapped(Mem(v, grown, px), s) = Mem(r, grown2, px)
           /\ r.obj = v.obj /\ (v = Nil => r = Nil)
           /\ \A u \in 1..MaxSets : grown[u] \subseteq grown2[u] /\ grown2[u] \subseteq grown[u] \cup {v}
           /\ r.sets = <<>> => r = v /\ grown2 = grown /\ (v = Nil \/ v \in grown[s])
  <2>1. s \in 1..MaxSets
    BY <1>3
  <2>2. v \in Refs
    BY <1>4
  <2> QED BY <2>1, <2>2, WrapFacts
<1>8. r.sets # <<>> /\ r # Raw(2) /\ ~Bare(r)
  <2>1. r.sets # <<>>
    <3>1. v \notin grown[s]
      <4>1. v.obj > objects
        BY <1>0, <1>4
      <4> QED BY <1>0, <1>3, <1>4, <1>5, <4>1
    <3> QED BY <1>4, <1>7, <3>1
  <2> QED BY <2>1, StateFacts, RefFacts DEF Bare
<1>9. visiting' = grown2 /\ proxied' = px /\ new.ref = r /\ inner.ref = q
  BY <1>1, <1>2, <1>6, <1>7 DEF Mem
<1>10. Inner(r, objects') /\ Inner(q, objects')
  <2>1. Inner(r, objects')
    BY <1>0, <1>1, <1>3, <1>4, <1>7 DEF Inner
  <2>2. Inner(q, objects')
    BY <1>0, <1>2, <1>3, InnerGrows
  <2> QED BY <2>1, <2>2
<1>11. ASSUME NEW o \in 1..MaxObjects
       PROVE  (o = Root => field'[o] = r) /\ (field'[o] = r \/ field'[o] = q \/ field'[o] = field[o])
  <2>1. field'[o] = CASE o = Root -> r [] o = objects + 1 -> q [] old # Nil /\ o = old.obj -> q [] OTHER -> field[o]
    BY <1>1, <1>9
  <2>2. CASE o = Root
    <3>1. o # objects + 1
      BY <1>0, <1>3, <2>2
    <3>2. ~(old # Nil /\ o = old.obj)
      <4>1. Inner(field[Root], objects)
        BY <2>2 DEF StateInv, StateTyped
      <4> QED BY <1>0, <2>2, <4>1 DEF old, Inner
    <3> QED BY <2>1, <2>2, <3>1, <3>2
  <2>3. CASE o # Root
    <3>1. CASE o = objects + 1 \/ (old # Nil /\ o = old.obj)
      <4>1. field'[o] = q
        BY <2>1, <2>3, <3>1
      <4> QED BY <2>3, <4>1
    <3>2. CASE ~(o = objects + 1 \/ (old # Nil /\ o = old.obj))
      BY <2>1, <2>3, <3>2
    <3> QED BY <3>1, <3>2
  <2> QED BY <2>2, <2>3
<1>12. field' \in [1..MaxObjects -> Refs] /\ field'[Root] = r
       /\ \A o \in 1..MaxObjects : field'[o] = r \/ field'[o] = q \/ field'[o] = field[o]
  <2>1. \A o \in 1..MaxObjects : field'[o] = r \/ field'[o] = q \/ field'[o] = field[o]
    BY <1>11
  <2>2. Root \in 1..MaxObjects
    BY <1>0 DEF StateConstants
  <2>3. field'[Root] = r
    BY <1>11, <2>2
  <2>4. \A o \in 1..MaxObjects : field'[o] \in Refs
    BY <1>0, <2>1
  <2>5. field' = [o \in 1..MaxObjects |-> field'[o]]
    BY <1>1
  <2> QED BY <2>1, <2>3, <2>4, <2>5
<1>13. ASSUME NEW u \in 1..MaxSets, NEW p \in visiting'[u] PROVE p \in visiting[u] \/ p.obj <= objects'
  <2>1. p \in grown[u] \/ p = v
    BY <1>7, <1>9, <1>13
  <2>2. v.obj <= objects'
    BY <1>0, <1>1, <1>4
  <2>3. CASE p \in grown[u] /\ p \notin visiting[u]
    <3>1. p.obj <= objects /\ p \in Refs
      BY <1>2, <2>3 DEF Visitors
    <3>2. p.obj \in 0..MaxObjects
      BY <3>1, RefFacts
    <3> QED BY <1>0, <1>3, <3>1, <3>2
  <2> QED BY <2>1, <2>2, <2>3
<1>14. field'[Root] # Raw(2)
  BY <1>8, <1>12
<1>15. visiting' \in Visitors /\ proxied' \in SUBSET Refs /\ Nil \notin proxied' /\ twice' = twice /\ sets' \in 1..MaxSets
  BY <1>1, <1>2, <1>3, <1>7, <1>9
<1>16. Inner(kept, objects') /\ held.obj \in 1..objects'
  <2>1. Inner(kept, objects')
    BY <1>0, <1>3, InnerGrows
  <2> QED BY <1>0, <1>1, <2>1
<1>17. Inner(kept', objects') /\ (Bare(kept') => kept'.obj \in twice') /\ held' \in Refs /\ held'.obj \in 1..objects'
       /\ (held'.sets = <<>> => held'.obj \in twice')
  BY <1>0, <1>1, <1>16
<1>18. twice \subseteq twice' /\ twice' \in SUBSET (1..MaxObjects)
  BY <1>0, <1>15
<1>19. \A o \in 1..MaxObjects :
        \/ field'[o] = field[o]
        \/ Inner(field'[o], objects') /\ (Bare(field'[o]) => field'[o].obj \in twice')
  BY <1>2, <1>8, <1>10, <1>12, <1>15
<1>20. \A p \in proxied' : p \in proxied \/ (Bare(p) => p.obj \in twice')
  BY <1>2, <1>9, <1>15
<1> QED BY <1>3, <1>12, <1>13, <1>14, <1>15, <1>17, <1>18, <1>19, <1>20, StateKeeps

LEMMA StateInit ==
  ASSUME StateConstants, Stores!Init
  PROVE  StateInv
<1>1. /\ Root = 1 /\ objects = 2 /\ sets = 1 /\ proxied = {} /\ held = Stores!stateProxy /\ kept = Nil /\ twice = {}
      /\ field = [o \in 1..MaxObjects |-> IF o = 1 THEN Raw(2) ELSE Nil]
      /\ visiting = [s \in 1..MaxSets |-> IF s = 1 THEN {Raw(1)} ELSE {}]
  BY DEF Stores!Init, Nil, Raw, Stores!Objects
<1>2. /\ 2 \in 0..MaxObjects /\ 1 \in 0..MaxObjects /\ 1 \in 1..MaxSets /\ 2 \in 2..MaxObjects
  BY DEF StateConstants
<1>3. /\ Raw(2) \in Refs /\ Raw(2).obj = 2 /\ Raw(1) \in Refs /\ Raw(1).obj = 1 /\ Nil \in Refs /\ Nil.obj = 0
      /\ Nil.sets = <<>>
  BY <1>2, RefFacts
<1>4. held \in Refs /\ held.obj = 1 /\ held.sets # <<>>
  <2>1. <<1>> \in Seq(1..MaxSets) /\ <<1>> # <<>>
    BY <1>2
  <2>2. held = [obj |-> 1, sets |-> <<1>>]
    BY <1>1 DEF Stores!stateProxy
  <2> QED BY <1>2, <2>1, <2>2 DEF Refs
<1>5. field \in [1..MaxObjects -> Refs] /\ visiting \in Visitors
  BY <1>1, <1>3 DEF Visitors
<1>6. \A o \in 1..MaxObjects : Inner(field[o], objects)
  BY <1>1, <1>3 DEF Inner
<1>7. Inner(kept, objects) /\ ~Bare(kept)
  BY <1>1, <1>3 DEF Inner, Bare
<1>8. \A s \in 1..MaxSets : \A q \in visiting[s] : q = Raw(1)
  BY <1>1
<1>9. StateTyped
  BY <1>1, <1>2, <1>3, <1>4, <1>5, <1>6, <1>7, <1>8 DEF StateTyped
<1>10. Raw(2) # Raw(1) /\ ~Bare(Nil)
  BY <1>3 DEF Bare
<1>11. BareOnesAreTwice
  BY <1>1, <1>7, <1>8, <1>10 DEF BareOnesAreTwice, Seen
<1> QED BY <1>4, <1>9, <1>11 DEF StateInv, Stores!ReadIsWatched

\* What is read out of a store's state announces its changes, unless the application has put the
\* object in a second time, through all that can be written, kept, copied and reset.
THEOREM ReadsAreWatched == StateConstants => (Stores!Spec => []Stores!ReadIsWatched)
<1> SUFFICES ASSUME StateConstants PROVE Stores!Spec => []Stores!ReadIsWatched
  OBVIOUS
<1>1. Stores!Init => StateInv
  BY StateInit
<1>2. StateInv /\ [Stores!Next]_(Stores!vars) => StateInv'
  <2>1. ASSUME StateInv, UNCHANGED Stores!vars PROVE StateInv'
    BY <2>1 DEF StateInv, StateTyped, BareOnesAreTwice, Seen, Inner, Stores!ReadIsWatched, Stores!vars
  <2> QED BY <2>1, ReadKeeps, WritesKeep, ApplicationKeeps, PatchKeeps, ResetKeeps DEF Stores!Next
<1>3. StateInv => Stores!ReadIsWatched
  BY DEF StateInv
<1> QED BY <1>1, <1>2, <1>3, PTL DEF Stores!Spec
-----------------------------------------------------------------------------
(* The requests of a server. *)

RenderConstants ==
  /\ Requests \subseteq Nat \ {0} /\ IsFiniteSet(Requests) /\ Streams \subseteq Requests
  /\ Workers # {} /\ MaxPool \in Nat /\ MaxPasses \in Nat \ {0}

Works ==
  [at : {"idle", "asked", "prepass", "rendered", "over"}, passes : Nat, began : Nat, dom : Nat, ok : BOOLEAN,
   settled : BOOLEAN, late : BOOLEAN, reads : SUBSET Requests]

RenderTyped ==
  /\ als \in BOOLEAN /\ serving \in BOOLEAN /\ failOnError \in BOOLEAN
  /\ stack \in Seq(Requests) /\ pool \in Seq(Nat) /\ aborted \in SUBSET Streams
  /\ work \in [Requests -> Works]
  /\ result \in [Requests -> {"none", "head", "waits", "body", "whole", "failed"}]
  /\ doms \in [made : Nat, dirty : SUBSET Nat, closed : SUBSET Nat]
  /\ job \in [Workers -> Requests \cup {0, -1, -2}]
  /\ files \in [rendered : SUBSET Requests, failed : SUBSET Requests]

\* Who has not begun has read nothing and has no time to run out of.
StagesInOrder ==
  \A r \in Requests :
    /\ work[r].at \in {"idle", "asked"} => work[r].began = 0 /\ work[r].reads = {} /\ ~work[r].settled /\ ~work[r].late
    /\ work[r].late => work[r].settled
    /\ work[r].at \in {"prepass", "rendered"} /\ work[r].settled => work[r].late
    /\ result[r] \in {"none", "head"} => work[r].at = "idle"

\* The contexts on the stack are those under way, the newest on top.
Contexts ==
  /\ als => stack = <<>>
  /\ ~als => \A r \in Requests : r \in Server!UnderWay <=> \E i \in 1..Len(stack) : stack[i] = r
  /\ \A i, j \in 1..Len(stack) : i < j => work[stack[i]].began < work[stack[j]].began
  /\ \A r \in Requests : work[r].began <= Cardinality(Server!Begun)
  /\ \A r, s \in Requests : s \in work[r].reads => s = r \/ (~als /\ work[s].began > work[r].began)

Keeps(w) == w.at = "rendered" \/ (w.at = "over" /\ w.late)

\* Every DOM that was made is idle in the pool, with a render, or closed.
DomsAccounted ==
  /\ Len(pool) <= MaxPool
  /\ \A i, j \in 1..Len(pool) : pool[i] = pool[j] => i = j
  /\ \A i \in 1..Len(pool) : pool[i] \in 1..doms.made /\ pool[i] \notin doms.dirty /\ pool[i] \notin doms.closed
  /\ \A r, s \in Requests : Keeps(work[r]) /\ Keeps(work[s]) /\ work[r].dom = work[s].dom => r = s
  /\ \A d : d \in doms.dirty <=> \E r \in Requests : Keeps(work[r]) /\ work[r].dom = d
  /\ doms.dirty \subseteq 1..doms.made /\ doms.closed \subseteq 1..doms.made /\ doms.dirty \cap doms.closed = {}
  /\ \A d \in 1..doms.made : d \in doms.dirty \/ d \in doms.closed \/ \E i \in 1..Len(pool) : pool[i] = d

RenderInv == RenderTyped /\ StagesInOrder /\ Contexts /\ DomsAccounted

\* The renders that began are finitely many, and instances count alike.
LEMMA Counting ==
  ASSUME RenderConstants
  PROVE  /\ Cardinality(Server!Begun) \in Nat
         /\ \A S \in SUBSET Requests : IsFiniteSet(S) /\ Server!Cardinality(S) = Cardinality(S)
<1>1. \A S \in SUBSET Requests : IsFiniteSet(S)
  BY FS_Subset DEF RenderConstants
<1>2. Server!Begun \in SUBSET Requests
  BY DEF Server!Begun
<1>3. \A S : Server!Cardinality(S) = Cardinality(S)
  BY DEF Server!Cardinality, Cardinality
<1> QED BY <1>1, <1>2, <1>3, FS_CardinalityType

\* A step changes the record of one request; what it changes there, step by step:
LEMMA OneRender ==
  ASSUME NEW r \in Requests, NEW w \in Works, work \in [Requests -> Works], work' = [work EXCEPT ![r] = w]
  PROVE  work' \in [Requests -> Works] /\ work'[r] = w /\ \A q \in Requests : q # r => work'[q] = work[q]
OBVIOUS

LEMMA EnterWork ==
  ASSUME RenderConstants, RenderTyped, NEW r \in Requests, Server!Enter(r)
  PROVE  /\ work' \in [Requests -> Works] /\ \A q \in Requests : q # r => work'[q] = work[q]
         /\ work[r].at = "asked" /\ work'[r].at = "prepass" /\ work'[r].reads = {r}
         /\ work'[r].began = Cardinality(Server!Begun) + 1 /\ work'[r].ok = work[r].ok
         /\ work'[r].settled = work[r].settled /\ work'[r].late = work[r].late /\ work'[r].dom = work[r].dom
<1> DEFINE c == Cardinality(Server!Begun) + 1
           w == [work[r] EXCEPT !.at = "prepass", !.passes = 1, !.reads = {r}, !.began = c]
<1>1. c \in Nat /\ Server!Cardinality(Server!Begun) = Cardinality(Server!Begun)
  BY Counting DEF Server!Begun
<1>2. work' = [work EXCEPT ![r] = w] /\ work[r].at = "asked"
  BY <1>1 DEF Server!Enter, RenderTyped
<1> HIDE DEF c
<1>3. work[r] \in Works /\ work \in [Requests -> Works]
  BY DEF RenderTyped
<1>4. w \in Works /\ w.at = "prepass" /\ w.reads = {r} /\ w.began = c /\ w.ok = work[r].ok
      /\ w.settled = work[r].settled /\ w.late = work[r].late /\ w.dom = work[r].dom
  BY <1>1, <1>3 DEF Works
<1> HIDE DEF w
<1>5. work' \in [Requests -> Works] /\ work'[r] = w /\ \A q \in Requests : q # r => work'[q] = work[q]
  BY <1>2, <1>3, <1>4, OneRender
<1> QED BY <1>2, <1>4, <1>5 DEF c

LEMMA NextPassWork ==
  ASSUME RenderTyped, NEW r \in Requests, Server!NextPass(r), Server!getStore(r) \in Requests
  PROVE  /\ work' \in [Requests -> Works] /\ \A q \in Requests : q # r => work'[q] = work[q]
         /\ work[r].at = "prepass" /\ work[r].passes < MaxPasses /\ work'[r].passes = work[r].passes + 1
         /\ work'[r].at = work[r].at /\ work'[r].reads = work[r].reads \cup {Server!getStore(r)}
         /\ work'[r].began = work[r].began /\ work'[r].ok = work[r].ok
         /\ work'[r].settled = work[r].settled /\ work'[r].late = work[r].late /\ work'[r].dom = work[r].dom
<1> DEFINE g == Server!getStore(r)
           w == [work[r] EXCEPT !.passes = work[r].passes + 1, !.reads = work[r].reads \cup {g}]
<1>1. work[r] \in Works /\ work \in [Requests -> Works]
  BY DEF RenderTyped
<1>2. work' = [work EXCEPT ![r].passes = @ + 1, ![r].reads = @ \cup {g}] /\ work[r].at = "prepass"
      /\ work[r].passes < MaxPasses
  BY DEF Server!NextPass
<1>6. g \in Requests
  OBVIOUS
<1> HIDE DEF g
<1>3. work' = [work EXCEPT ![r] = w]
  BY <1>1, <1>2
<1>7. work[r].reads \cup {g} \in SUBSET Requests /\ work[r].passes + 1 \in Nat
  BY <1>1, <1>6 DEF Works
<1>4. w \in Works /\ w.at = work[r].at /\ w.reads = work[r].reads \cup {g} /\ w.began = work[r].began
      /\ w.ok = work[r].ok /\ w.passes = work[r].passes + 1
      /\ w.settled = work[r].settled /\ w.late = work[r].late /\ w.dom = work[r].dom
  BY <1>1, <1>7 DEF Works
<1> HIDE DEF w
<1>5. work' \in [Requests -> Works] /\ work'[r] = w /\ \A q \in Requests : q # r => work'[q] = work[q]
  BY <1>1, <1>3, <1>4, OneRender
<1> QED BY <1>2, <1>4, <1>5 DEF g

NewDom == IF pool = <<>> THEN doms.made + 1 ELSE pool[Len(pool)]

LEMMA RenderWork ==
  ASSUME RenderTyped, NEW r \in Requests, NEW ok \in BOOLEAN, Server!Render(r, ok), Server!getStore(r) \in Requests
  PROVE  /\ work' \in [Requests -> Works] /\ \A q \in Requests : q # r => work'[q] = work[q]
         /\ work[r].at = "prepass" /\ work'[r].at = "rendered" /\ NewDom \in Nat /\ work'[r].dom = NewDom
         /\ work'[r].reads = work[r].reads \cup {Server!getStore(r)} /\ work'[r].ok = ok
         /\ work'[r].began = work[r].began /\ work'[r].passes = work[r].passes
         /\ work'[r].settled = work[r].settled /\ work'[r].late = work[r].late
<1> DEFINE g == Server!getStore(r)
           w == [work[r] EXCEPT !.at = "rendered", !.dom = NewDom, !.ok = ok, !.reads = work[r].reads \cup {g}]
<1>1. work[r] \in Works /\ work \in [Requests -> Works]
  BY DEF RenderTyped
<1>2. NewDom \in Nat
  BY DEF NewDom, RenderTyped
<1>3. work' = [work EXCEPT ![r] = w] /\ work[r].at = "prepass"
  BY DEF Server!Render, NewDom, Server!Last
<1> HIDE DEF g
<1>4. w \in Works /\ w.at = "rendered" /\ w.reads = work[r].reads \cup {g} /\ w.began = work[r].began
      /\ w.ok = ok /\ w.passes = work[r].passes /\ w.dom = NewDom
      /\ w.settled = work[r].settled /\ w.late = work[r].late
  BY <1>1, <1>2 DEF Works, g
<1> HIDE DEF w
<1>5. work' \in [Requests -> Works] /\ work'[r] = w /\ \A q \in Requests : q # r => work'[q] = work[q]
  BY <1>1, <1>3, <1>4, OneRender
<1> QED BY <1>2, <1>3, <1>4, <1>5 DEF g

LEMMA FinishWork ==
  ASSUME RenderTyped, NEW r \in Requests, Server!Finish(r)
  PROVE  /\ work' \in [Requests -> Works] /\ \A q \in Requests : q # r => work'[q] = work[q]
         /\ work[r].at = "rendered" /\ work'[r].at = "over" /\ work'[r].settled
         /\ work'[r].reads = work[r].reads /\ work'[r].ok = work[r].ok /\ work'[r].dom = work[r].dom
         /\ work'[r].began = work[r].began /\ work'[r].passes = work[r].passes /\ work'[r].late = work[r].late
<1> DEFINE w == [work[r] EXCEPT !.at = "over", !.settled = TRUE]
<1>1. work[r] \in Works /\ work \in [Requests -> Works]
  BY DEF RenderTyped
<1>2. work' = [work EXCEPT ![r] = w] /\ work[r].at = "rendered"
  BY <1>1 DEF Server!Finish
<1>3. w \in Works /\ w.at = "over" /\ w.reads = work[r].reads /\ w.began = work[r].began
      /\ w.ok = work[r].ok /\ w.passes = work[r].passes /\ w.dom = work[r].dom
      /\ w.settled /\ w.late = work[r].late
  BY <1>1 DEF Works
<1> HIDE DEF w
<1>4. work' \in [Requests -> Works] /\ work'[r] = w /\ \A q \in Requests : q # r => work'[q] = work[q]
  BY <1>1, <1>2, <1>3, OneRender
<1> QED BY <1>2, <1>3, <1>4

LEMMA TimeoutWork ==
  ASSUME RenderTyped, NEW r \in Requests, Server!Timeout(r)
  PROVE  /\ work' \in [Requests -> Works] /\ \A q \in Requests : q # r => work'[q] = work[q]
         /\ work[r].at = "prepass" /\ work'[r].at = "prepass" /\ work'[r].settled /\ work'[r].late
         /\ work'[r].reads = work[r].reads /\ work'[r].ok = work[r].ok /\ work'[r].dom = work[r].dom
         /\ work'[r].began = work[r].began /\ work'[r].passes = work[r].passes
<1> DEFINE w == [work[r] EXCEPT !.settled = TRUE, !.late = TRUE]
<1>1. work[r] \in Works /\ work \in [Requests -> Works]
  BY DEF RenderTyped
<1>2. work' = [work EXCEPT ![r] = w] /\ work[r].at = "prepass"
  BY <1>1 DEF Server!Timeout
<1>3. w \in Works /\ w.at = work[r].at /\ w.reads = work[r].reads /\ w.began = work[r].began
      /\ w.ok = work[r].ok /\ w.passes = work[r].passes /\ w.dom = work[r].dom
      /\ w.settled /\ w.late
  BY <1>1 DEF Works
<1> HIDE DEF w
<1>4. work' \in [Requests -> Works] /\ work'[r] = w /\ \A q \in Requests : q # r => work'[q] = work[q]
  BY <1>1, <1>2, <1>3, OneRender
<1> QED BY <1>2, <1>3, <1>4

LEMMA AskedWork ==
  ASSUME RenderTyped, NEW r \in Requests, Server!RenderBegins(r)
  PROVE  /\ work' \in [Requests -> Works] /\ \A q \in Requests : q # r => work'[q] = work[q]
         /\ work'[r].at = "asked" /\ work'[r].settled = work[r].settled /\ work'[r].late = work[r].late
         /\ work'[r].reads = work[r].reads /\ work'[r].ok = work[r].ok /\ work'[r].dom = work[r].dom
         /\ work'[r].began = work[r].began /\ work'[r].passes = work[r].passes
<1> DEFINE w == [work[r] EXCEPT !.at = "asked"]
<1>1. work[r] \in Works /\ work \in [Requests -> Works]
  BY DEF RenderTyped
<1>2. work' = [work EXCEPT ![r] = w]
  BY <1>1 DEF Server!RenderBegins
<1>3. w \in Works /\ w.at = "asked" /\ w.reads = work[r].reads /\ w.began = work[r].began
      /\ w.ok = work[r].ok /\ w.passes = work[r].passes /\ w.dom = work[r].dom
      /\ w.settled = work[r].settled /\ w.late = work[r].late
  BY <1>1 DEF Works
<1> HIDE DEF w
<1>4. work' \in [Requests -> Works] /\ work'[r] = w /\ \A q \in Requests : q # r => work'[q] = work[q]
  BY <1>1, <1>2, <1>3, OneRender
<1> QED BY <1>2, <1>3, <1>4

LEMMA BegunFacts ==
  /\ \A q : q \in Server!Begun <=> q \in Requests /\ work[q].at \notin {"idle", "asked"}
  /\ \A q : q \in Server!UnderWay <=> q \in Requests /\ work[q].at \in {"prepass", "rendered"}
BY DEF Server!Begun, Server!UnderWay

\* A request reads its own stores, or those of one that began later and lies above it.
LEMMA OwnStore ==
  ASSUME RenderConstants, RenderInv, NEW r \in Requests, work[r].at = "prepass"
  PROVE  /\ Server!getStore(r) \in Requests
         /\ Server!getStore(r) = r \/ (~als /\ work[Server!getStore(r)].began > work[r].began)
<1>1. CASE als
  BY <1>1 DEF Server!getStore
<1>2. CASE ~als
  <2>1. PICK i \in 1..Len(stack) : stack[i] = r
    BY <1>2, BegunFacts DEF RenderInv, Contexts
  <2>2. stack \in Seq(Requests) /\ Len(stack) \in 1..Len(stack) /\ stack[Len(stack)] \in Requests
    BY <2>1 DEF RenderInv, RenderTyped
  <2>3. Server!getStore(r) = stack[Len(stack)]
    BY <1>2 DEF Server!getStore, Server!Last
  <2>4. CASE i = Len(stack)
    BY <2>1, <2>2, <2>3, <2>4
  <2>5. CASE i # Len(stack)
    <3>1. i < Len(stack)
      BY <2>2, <2>5
    <3>2. work[stack[i]].began < work[stack[Len(stack)]].began
      BY <2>2, <3>1 DEF RenderInv, Contexts
    <3>3. work[r].began \in Nat /\ work[stack[Len(stack)]].began \in Nat
      BY <2>2 DEF RenderInv, RenderTyped, Works
    <3> QED BY <1>2, <2>1, <2>2, <2>3, <3>2, <3>3
  <2> QED BY <2>4, <2>5
<1> QED BY <1>1, <1>2

\* What neither begins nor ends a render leaves the contexts.
LEMMA ContextsStay ==
  ASSUME RenderInv, NEW r \in Requests, als' = als, stack' = stack,
         \A q \in Requests : q # r => work'[q] = work[q],
         work'[r].began = work[r].began,
         work'[r].at \in {"prepass", "rendered"} <=> work[r].at \in {"prepass", "rendered"},
         work'[r].at \in {"idle", "asked"} <=> work[r].at \in {"idle", "asked"},
         \A s \in work'[r].reads : s \in work[r].reads \/ s = r \/ (~als /\ work[s].began > work[r].began)
  PROVE  Contexts'
<1>1. \A q \in Requests : work'[q].began = work[q].began
  OBVIOUS
<1>2. Server!Begun' = Server!Begun
  BY DEF Server!Begun
<1>3. Server!UnderWay' = Server!UnderWay
  BY DEF Server!UnderWay
<1>4. \A i \in 1..Len(stack) : stack[i] \in Requests
  BY DEF RenderInv, RenderTyped
<1>5. \A q, s \in Requests : s \in work'[q].reads => s = q \/ (~als' /\ work'[s].began > work'[q].began)
  BY <1>1 DEF RenderInv, Contexts
<1>6. als' => stack' = <<>>
  BY DEF RenderInv, Contexts
<1>7. ~als' => \A q \in Requests : q \in Server!UnderWay' <=> \E i \in 1..Len(stack') : stack'[i] = q
  BY <1>3 DEF RenderInv, Contexts
<1>8. \A i, j \in 1..Len(stack') : i < j => work'[stack'[i]].began < work'[stack'[j]].began
  BY <1>1, <1>4 DEF RenderInv, Contexts
<1>9. \A q \in Requests : work'[q].began <= Cardinality(Server!Begun')
  BY <1>1, <1>2 DEF RenderInv, Contexts
<1> QED BY <1>5, <1>6, <1>7, <1>8, <1>9 DEF Contexts

\* The request that enters has begun last, and lies on top.
LEMMA EnterContexts ==
  ASSUME RenderConstants, RenderInv, NEW r \in Requests, Server!Enter(r)
  PROVE  Contexts'
<1>0. /\ als' = als /\ als \in BOOLEAN /\ stack \in Seq(Requests) /\ work \in [Requests -> Works]
      /\ stack' = IF als THEN stack ELSE Append(stack, r)
  BY DEF Server!Enter, Server!AskersStay, RenderInv, RenderTyped
<1>1. /\ \A q \in Requests : q # r => work'[q] = work[q]
      /\ work[r].at = "asked" /\ work'[r].at = "prepass" /\ work'[r].reads = {r}
      /\ work'[r].began = Cardinality(Server!Begun) + 1
  BY EnterWork DEF RenderInv
<1>2. Cardinality(Server!Begun) \in Nat /\ IsFiniteSet(Server!Begun) /\ r \notin Server!Begun
  BY <1>1, Counting DEF Server!Begun
<1>3. Server!Begun' = Server!Begun \cup {r}
  BY <1>1 DEF Server!Begun
<1>4. Cardinality(Server!Begun') = Cardinality(Server!Begun) + 1
  BY <1>2, <1>3, FS_AddElement
<1>5. \A q \in Requests : work[q].began \in Nat /\ work[q].began <= Cardinality(Server!Begun)
  BY <1>0 DEF RenderInv, Contexts, Works
<1>6. \A q \in Requests : work'[q].began <= Cardinality(Server!Begun')
  BY <1>1, <1>2, <1>4, <1>5
<1>7. work[r].began = 0 /\ work[r].reads = {}
  BY <1>1 DEF RenderInv, StagesInOrder
<1>8. ASSUME NEW q \in Requests, NEW s \in Requests, s \in work'[q].reads
      PROVE  s = q \/ (~als' /\ work'[s].began > work'[q].began)
  <2>1. CASE q = r
    BY <1>1, <1>8, <2>1
  <2>2. CASE q # r
    <3>1. s = q \/ (~als /\ work[s].began > work[q].began)
      BY <1>1, <1>8, <2>2 DEF RenderInv, Contexts
    <3>2. s = q \/ s # r
      BY <1>5, <1>7, <3>1
    <3> QED BY <1>0, <1>1, <2>2, <3>1, <3>2
  <2> QED BY <2>1, <2>2
<1>9. als' => stack' = <<>>
  BY <1>0 DEF RenderInv, Contexts
<1>10. \A i \in 1..Len(stack) : stack[i] \in Requests
  BY <1>0
<1>11. CASE als
  BY <1>0, <1>6, <1>8, <1>9, <1>11 DEF RenderInv, Contexts
<1>12. CASE ~als
  <2>1. /\ stack' = Append(stack, r) /\ Len(stack') = Len(stack) + 1 /\ stack'[Len(stack) + 1] = r
        /\ \A i \in 1..Len(stack) : stack'[i] = stack[i]
    BY <1>0, <1>12
  <2>2. \A i \in 1..Len(stack) : stack[i] # r
    <3>1. r \notin Server!UnderWay
      BY <1>1, BegunFacts
    <3> QED BY <1>12, <3>1 DEF RenderInv, Contexts
  <2>3. \A q \in Requests : q \in Server!UnderWay' <=> q = r \/ q \in Server!UnderWay
    BY <1>1 DEF Server!UnderWay
  <2>4. ASSUME NEW q \in Requests PROVE q \in Server!UnderWay' <=> \E i \in 1..Len(stack') : stack'[i] = q
    <3>1. q \in Server!UnderWay <=> \E i \in 1..Len(stack) : stack[i] = q
      BY <1>12 DEF RenderInv, Contexts
    <3>2. (\E i \in 1..Len(stack') : stack'[i] = q) <=> q = r \/ \E i \in 1..Len(stack) : stack[i] = q
      BY <1>0, <2>1
    <3> QED BY <2>3, <3>1, <3>2
  <2>5. ASSUME NEW i \in 1..Len(stack'), NEW j \in 1..Len(stack'), i < j
        PROVE  work'[stack'[i]].began < work'[stack'[j]].began
    <3>1. i \in 1..Len(stack) /\ stack'[i] = stack[i] /\ work'[stack[i]] = work[stack[i]]
      BY <1>0, <1>1, <1>10, <2>1, <2>2, <2>5
    <3>2. CASE j = Len(stack) + 1
      BY <1>1, <1>2, <1>5, <1>10, <2>1, <3>1, <3>2
    <3>3. CASE j # Len(stack) + 1
      <4>1. j \in 1..Len(stack) /\ stack'[j] = stack[j] /\ work'[stack[j]] = work[stack[j]]
        BY <1>0, <1>1, <1>10, <2>1, <2>2, <3>3
      <4> QED BY <2>5, <3>1, <4>1 DEF RenderInv, Contexts
    <3> QED BY <3>2, <3>3
  <2> QED BY <1>0, <1>6, <1>8, <1>9, <2>4, <2>5, <1>12 DEF Contexts
<1> QED BY <1>11, <1>12

\* What is left of the stack, or the pool, without one of its elements.
LEMMA RemovedFacts ==
  ASSUME NEW S, NEW s \in Seq(S), NEW i \in 1..Len(s)
  PROVE  /\ Server!RemoveAt(s, i) \in Seq(S) /\ Len(Server!RemoveAt(s, i)) = Len(s) - 1
         /\ \A k \in 1..(Len(s) - 1) : Server!RemoveAt(s, i)[k] = IF k < i THEN s[k] ELSE s[k + 1]
<1> DEFINE a == SubSeq(s, 1, i - 1)
           b == SubSeq(s, i + 1, Len(s))
<1>1. a \in Seq(S) /\ Len(a) = i - 1 /\ \A k \in 1..(i - 1) : a[k] = s[k]
  OBVIOUS
<1>2. b \in Seq(S) /\ Len(b) = Len(s) - i /\ \A k \in 1..(Len(s) - i) : b[k] = s[k + i]
  OBVIOUS
<1>3. Server!RemoveAt(s, i) = a \o b
  BY DEF Server!RemoveAt
<1> HIDE DEF a, b
<1>4. /\ a \o b \in Seq(S) /\ Len(a \o b) = Len(a) + Len(b)
      /\ \A k \in 1..(Len(a) + Len(b)) : (a \o b)[k] = IF k <= Len(a) THEN a[k] ELSE b[k - Len(a)]
  BY <1>1, <1>2, ConcatProperties, Zenon
<1>5. ASSUME NEW k \in 1..(Len(s) - 1)
      PROVE  (a \o b)[k] = IF k < i THEN s[k] ELSE s[k + 1]
  <2>1. (a \o b)[k] = IF k <= i - 1 THEN a[k] ELSE b[k - (i - 1)]
    BY <1>1, <1>2, <1>4
  <2>2. CASE k < i
    BY <1>1, <2>1, <2>2
  <2>3. CASE k >= i
    <3>1. k - (i - 1) \in 1..(Len(s) - i) /\ (k - (i - 1)) + i = k + 1
      BY <2>3
    <3> QED BY <1>2, <2>1, <2>3, <3>1
  <2>4. k < i \/ k >= i
    OBVIOUS
  <2> QED BY <2>2, <2>3, <2>4
<1> QED BY <1>1, <1>2, <1>3, <1>4, <1>5

\* The request that leaves is taken out of the stack, wherever it lies.
LEMMA LeftFacts ==
  ASSUME RenderConstants, RenderInv, NEW r \in Requests, work[r].at = "rendered", ~als
  PROVE  \E i \in 1..Len(stack) : stack[i] = r /\ Server!Left(r) = Server!RemoveAt(stack, i)
                                  /\ \A j \in 1..Len(stack) : j # i => stack[j] # r
<1>0. stack \in Seq(Requests) /\ \A i \in 1..Len(stack) : stack[i] \in Requests /\ work[stack[i]].began \in Nat
  BY DEF RenderInv, RenderTyped, Works
<1>1. PICK i \in 1..Len(stack) : stack[i] = r
  BY BegunFacts DEF RenderInv, Contexts
<1>2. ASSUME NEW j \in 1..Len(stack), stack[j] = r PROVE j = i
  <2>1. i < j \/ j < i \/ i = j
    BY <1>0
  <2>2. ~(i < j) /\ ~(j < i)
    BY <1>0, <1>1, <1>2 DEF RenderInv, Contexts
  <2> QED BY <2>1, <2>2
<1> DEFINE Newest(k) == stack[k] = r /\ \A j \in DOMAIN stack : stack[j] = r => j <= k
<1>3. DOMAIN stack = 1..Len(stack)
  BY <1>0
<1>4. Newest(i) /\ i \in DOMAIN stack
  BY <1>0, <1>1, <1>2, <1>3
<1>5. \A k \in DOMAIN stack : Newest(k) => k = i
  BY <1>2, <1>3
<1>6. (CHOOSE k \in DOMAIN stack : Newest(k)) = i
  <2> HIDE DEF Newest
  <2> QED BY <1>4, <1>5
<1>7. Server!Left(r) = Server!RemoveAt(stack, i)
  BY <1>6 DEF Server!Left
<1> QED BY <1>1, <1>2, <1>7

\* A render that ends takes its context off the stack, wherever it lies.
LEMMA FinishContexts ==
  ASSUME RenderConstants, RenderInv, NEW r \in Requests, Server!Finish(r)
  PROVE  Contexts' /\ stack' \in Seq(Requests)
<1>0. /\ als' = als /\ als \in BOOLEAN /\ stack \in Seq(Requests) /\ stack' = Server!Left(r)
  BY DEF Server!Finish, Server!AskersStay, RenderInv, RenderTyped
<1>1. /\ \A q \in Requests : q # r => work'[q] = work[q]
      /\ work[r].at = "rendered" /\ work'[r].at = "over"
      /\ work'[r].reads = work[r].reads /\ work'[r].began = work[r].began
  BY FinishWork DEF RenderInv
<1>2. \A q \in Requests : work'[q].began = work[q].began
  BY <1>1
<1>3. Server!Begun' = Server!Begun
  BY <1>1 DEF Server!Begun
<1>4. \A q, s \in Requests : s \in work'[q].reads => s = q \/ (~als' /\ work'[s].began > work'[q].began)
  BY <1>0, <1>1, <1>2 DEF RenderInv, Contexts
<1>5. \A q \in Requests : work'[q].began <= Cardinality(Server!Begun')
  BY <1>2, <1>3 DEF RenderInv, Contexts
<1>6. CASE als
  <2>1. stack' = <<>> /\ stack = <<>> /\ stack' \in Seq(Requests)
    BY <1>0, <1>6 DEF RenderInv, Contexts, Server!Left
  <2> QED BY <1>0, <1>4, <1>5, <1>6, <2>1 DEF Contexts
<1>7. CASE ~als
  <2>1. PICK i \in 1..Len(stack) : stack[i] = r /\ stack' = Server!RemoveAt(stack, i)
                                   /\ \A j \in 1..Len(stack) : j # i => stack[j] # r
    BY <1>0, <1>1, <1>7, LeftFacts
  <2>2. /\ stack' \in Seq(Requests) /\ Len(stack') = Len(stack) - 1
        /\ \A k \in 1..(Len(stack) - 1) : stack'[k] = IF k < i THEN stack[k] ELSE stack[k + 1]
    BY <1>0, <2>1, RemovedFacts
  <2>3. \A j \in 1..Len(stack) : stack[j] \in Requests
    BY <1>0
  <2>4. Len(stack) \in Nat
    BY <1>0
  <2>5. ASSUME NEW q \in Requests PROVE q \in Server!UnderWay' <=> \E j \in 1..Len(stack') : stack'[j] = q
    <3>1. q \in Server!UnderWay' <=> q # r /\ q \in Server!UnderWay
      BY <1>1 DEF Server!UnderWay
    <3>2. q \in Server!UnderWay <=> \E j \in 1..Len(stack) : stack[j] = q
      BY <1>7 DEF RenderInv, Contexts
    <3>3. ASSUME NEW j \in 1..Len(stack'), stack'[j] = q PROVE q # r /\ \E k \in 1..Len(stack) : stack[k] = q
      <4>1. CASE j < i
        <5>1. j \in 1..Len(stack) /\ stack[j] = q /\ j # i
          BY <2>2, <2>4, <3>3, <4>1
        <5> QED BY <2>1, <5>1
      <4>2. CASE ~(j < i)
        <5>1. j + 1 \in 1..Len(stack) /\ stack[j + 1] = q /\ j + 1 # i
          BY <2>2, <2>4, <3>3, <4>2
        <5> QED BY <2>1, <5>1
      <4> QED BY <4>1, <4>2
    <3>4. ASSUME NEW k \in 1..Len(stack), stack[k] = q, q # r PROVE \E j \in 1..Len(stack') : stack'[j] = q
      <4>1. k # i
        BY <2>1, <3>4
      <4>2. CASE k < i
        <5>1. k \in 1..Len(stack') /\ stack'[k] = q
          BY <2>2, <2>4, <3>4, <4>2
        <5> QED BY <5>1
      <4>3. CASE k > i
        <5>1. k - 1 \in 1..Len(stack') /\ ~(k - 1 < i) /\ (k - 1) + 1 = k /\ k - 1 \in 1..(Len(stack) - 1)
          BY <2>2, <2>4, <4>3
        <5>2. stack'[k - 1] = q
          BY <2>2, <3>4, <5>1
        <5> QED BY <5>1, <5>2
      <4> QED BY <4>1, <4>2, <4>3
    <3> QED BY <3>1, <3>2, <3>3, <3>4
  <2>6. ASSUME NEW a \in 1..Len(stack'), NEW b \in 1..Len(stack'), a < b
        PROVE  work'[stack'[a]].began < work'[stack'[b]].began
    <3> DEFINE f(k) == IF k < i THEN k ELSE k + 1
    <3>1. f(a) \in 1..Len(stack) /\ f(b) \in 1..Len(stack) /\ f(a) < f(b)
          /\ stack'[a] = stack[f(a)] /\ stack'[b] = stack[f(b)]
      BY <2>2, <2>4, <2>6
    <3> HIDE DEF f
    <3>2. work[stack[f(a)]].began < work[stack[f(b)]].began
      BY <3>1 DEF RenderInv, Contexts
    <3> QED BY <1>2, <2>3, <3>1, <3>2
  <2> QED BY <1>0, <1>4, <1>5, <1>7, <2>2, <2>5, <2>6 DEF Contexts
<1> QED BY <1>6, <1>7

\* What neither takes nor returns a DOM leaves the books of the pool.
LEMMA DomsStay ==
  ASSUME RenderInv, pool' = pool, doms' = doms,
         \A q \in Requests : /\ Keeps(work'[q]) <=> Keeps(work[q])
                             /\ Keeps(work[q]) => work'[q].dom = work[q].dom
  PROVE  DomsAccounted'
<1>1. /\ \A r, s \in Requests : Keeps(work'[r]) /\ Keeps(work'[s]) /\ work'[r].dom = work'[s].dom => r = s
      /\ \A d : d \in doms.dirty <=> \E r \in Requests : Keeps(work'[r]) /\ work'[r].dom = d
  BY DEF RenderInv, DomsAccounted
<1> QED BY <1>1 DEF RenderInv, DomsAccounted

LEMMA ShorterByOne ==
  ASSUME NEW S, NEW q \in Seq(S), q # <<>>
  PROVE  Len(SubSeq(q, 1, Len(q) - 1)) = Len(q) - 1
<1>1. Len(q) \in 1..Len(q)
  OBVIOUS
<1>2. ASSUME NEW m \in 1..Len(q) PROVE Len(SubSeq(q, 1, m - 1)) = m - 1
  OBVIOUS
<1> QED BY <1>1, <1>2

\* A DOM out of the pool, or a new one, is nobody else's.
LEMMA RenderDoms ==
  ASSUME RenderConstants, RenderInv, NEW r \in Requests, NEW ok \in BOOLEAN, Server!Render(r, ok)
  PROVE  DomsAccounted' /\ pool' \in Seq(Nat) /\ doms' \in [made : Nat, dirty : SUBSET Nat, closed : SUBSET Nat]
         /\ doms'.made \in doms.made..(doms.made + 1)
<1> DEFINE n == NewDom
<1>0. /\ pool \in Seq(Nat) /\ Len(pool) \in Nat /\ doms.made \in Nat /\ MaxPool \in Nat
      /\ doms.dirty \in SUBSET Nat /\ doms.closed \in SUBSET Nat
  BY DEF RenderInv, RenderTyped, RenderConstants
<1>1. /\ \A q \in Requests : q # r => work'[q] = work[q]
      /\ work[r].at = "prepass" /\ work'[r].at = "rendered" /\ n \in Nat /\ work'[r].dom = n
  <2>1. work[r].at = "prepass"
    BY DEF Server!Render
  <2> QED BY <2>1, OwnStore, RenderWork DEF RenderInv
<1>2. /\ pool' = IF pool = <<>> THEN pool ELSE SubSeq(pool, 1, Len(pool) - 1)
      /\ doms' = [doms EXCEPT !.made = IF pool = <<>> THEN @ + 1 ELSE @, !.dirty = @ \cup {n}]
  BY DEF Server!Render, Server!Taken, Server!Front, Server!Last, NewDom
<1>3. /\ doms' \in [made : Nat, dirty : SUBSET Nat, closed : SUBSET Nat]
      /\ doms'.made = (IF pool = <<>> THEN doms.made + 1 ELSE doms.made)
      /\ doms'.dirty = doms.dirty \cup {n} /\ doms'.closed = doms.closed
  <2> HIDE DEF n
  <2> DEFINE m == IF pool = <<>> THEN doms.made + 1 ELSE doms.made
             d == doms.dirty \cup {n}
  <2>1. d \in SUBSET Nat /\ m \in Nat
    BY <1>0, <1>1
  <2>2. doms' = [doms EXCEPT !.made = m, !.dirty = d]
    BY <1>2
  <2>3. doms \in [made : Nat, dirty : SUBSET Nat, closed : SUBSET Nat]
    BY DEF RenderInv, RenderTyped
  <2> HIDE DEF m, d
  <2>4. /\ doms' \in [made : Nat, dirty : SUBSET Nat, closed : SUBSET Nat]
        /\ doms'.made = m /\ doms'.dirty = d /\ doms'.closed = doms.closed
    BY <2>1, <2>2, <2>3
  <2> QED BY <2>4 DEF m, d
<1>4. /\ ~Keeps(work[r]) /\ Keeps(work'[r]) /\ \A q \in Requests : q # r => (Keeps(work'[q]) <=> Keeps(work[q]))
  BY <1>1 DEF Keeps
<1>5. pool' \in Seq(Nat) /\ Len(pool') <= Len(pool) /\ \A i \in 1..Len(pool') : i \in 1..Len(pool) /\ pool'[i] = pool[i]
  BY <1>0, <1>2
<1>6. n \notin doms.dirty /\ n \notin doms.closed /\ n \in 1..doms'.made /\ doms.made <= doms'.made /\ doms'.made \in Nat
      /\ \A i \in 1..Len(pool') : pool'[i] # n
  <2>1. CASE pool = <<>>
    <3>1. n = doms.made + 1 /\ doms'.made = doms.made + 1 /\ Len(pool') = 0
      BY <1>2, <1>3, <2>1 DEF NewDom
    <3> HIDE DEF n
    <3>2. n \notin 1..doms.made /\ n \in 1..doms'.made
      BY <1>0, <3>1
    <3> QED BY <1>0, <3>1, <3>2 DEF RenderInv, DomsAccounted
  <2>2. CASE pool # <<>>
    <3>1. n = pool[Len(pool)] /\ doms'.made = doms.made /\ Len(pool) \in 1..Len(pool) /\ Len(pool') = Len(pool) - 1
      <4>1. n = pool[Len(pool)] /\ doms'.made = doms.made
        BY <1>3, <2>2 DEF NewDom
      <4>2. Len(pool) \in 1..Len(pool) /\ pool' = SubSeq(pool, 1, Len(pool) - 1)
        BY <1>0, <1>2, <2>2
      <4>3. Len(pool') = Len(pool) - 1
        BY <1>0, <2>2, <4>2, ShorterByOne
      <4> QED BY <4>1, <4>2, <4>3
    <3> HIDE DEF n
    <3>2. n \in 1..doms.made /\ n \notin doms.dirty /\ n \notin doms.closed
      BY <3>1 DEF RenderInv, DomsAccounted
    <3>3. ASSUME NEW i \in 1..Len(pool'), pool'[i] = n PROVE FALSE
      <4>1. i \in 1..Len(pool) /\ pool[i] = pool[Len(pool)]
        BY <1>5, <3>1, <3>3
      <4>2. i # Len(pool)
        BY <1>0, <3>1, <3>3
      <4> QED BY <3>1, <4>1, <4>2 DEF RenderInv, DomsAccounted
    <3> QED BY <1>0, <3>1, <3>2, <3>3
  <2> QED BY <2>1, <2>2
<1> HIDE DEF n
<1>7. Len(pool') <= MaxPool /\ \A i, j \in 1..Len(pool') : pool'[i] = pool'[j] => i = j
  <2>1. Len(pool) <= MaxPool /\ Len(pool') \in Nat
    BY <1>5 DEF RenderInv, DomsAccounted
  <2> QED BY <1>0, <1>5, <2>1 DEF RenderInv, DomsAccounted
<1>8. \A i \in 1..Len(pool') : pool'[i] \in 1..doms'.made /\ pool'[i] \notin doms'.dirty /\ pool'[i] \notin doms'.closed
  <2>1. \A i \in 1..Len(pool) : pool[i] \in 1..doms.made /\ pool[i] \notin doms.dirty /\ pool[i] \notin doms.closed
    BY DEF RenderInv, DomsAccounted
  <2> QED BY <1>0, <1>3, <1>5, <1>6, <2>1
<1>9. ASSUME NEW p \in Requests, NEW q \in Requests, Keeps(work'[p]), Keeps(work'[q]), work'[p].dom = work'[q].dom
      PROVE  p = q
  <2>1. \A o \in Requests : o # r /\ Keeps(work'[o]) => work'[o].dom \in doms.dirty /\ work'[o] = work[o] /\ Keeps(work[o])
    BY <1>1, <1>4 DEF RenderInv, DomsAccounted
  <2> QED BY <1>1, <1>6, <1>9, <2>1 DEF RenderInv, DomsAccounted
<1>10. ASSUME NEW d PROVE d \in doms'.dirty <=> \E q \in Requests : Keeps(work'[q]) /\ work'[q].dom = d
  <2>1. d \in doms.dirty <=> \E q \in Requests : Keeps(work[q]) /\ work[q].dom = d
    BY DEF RenderInv, DomsAccounted
  <2>2. (\E q \in Requests : Keeps(work'[q]) /\ work'[q].dom = d)
          <=> d = n \/ \E q \in Requests : Keeps(work[q]) /\ work[q].dom = d
    BY <1>1, <1>4
  <2> QED BY <1>3, <2>1, <2>2
<1>11. doms'.dirty \subseteq 1..doms'.made /\ doms'.closed \subseteq 1..doms'.made /\ doms'.dirty \cap doms'.closed = {}
  <2>1. doms.dirty \subseteq 1..doms.made /\ doms.closed \subseteq 1..doms.made /\ doms.dirty \cap doms.closed = {}
    BY DEF RenderInv, DomsAccounted
  <2>2. 1..doms.made \subseteq 1..doms'.made
    BY <1>0, <1>6
  <2> QED BY <1>3, <1>6, <2>1, <2>2
<1>12. ASSUME NEW d \in 1..doms'.made PROVE d \in doms'.dirty \/ d \in doms'.closed \/ \E i \in 1..Len(pool') : pool'[i] = d
  <2>1. CASE d = n
    BY <1>3, <2>1
  <2>2. CASE d # n
    <3>1. d \in 1..doms.made
      <4>1. CASE pool = <<>>
        BY <1>0, <1>3, <2>2, <4>1 DEF n, NewDom
      <4>2. CASE pool # <<>>
        BY <1>3, <4>2
      <4> QED BY <4>1, <4>2
    <3>2. d \in doms.dirty \/ d \in doms.closed \/ \E i \in 1..Len(pool) : pool[i] = d
      BY <3>1 DEF RenderInv, DomsAccounted
    <3>3. ASSUME NEW i \in 1..Len(pool), pool[i] = d PROVE i \in 1..Len(pool') /\ pool'[i] = d
      <4>1. pool # <<>> /\ n = pool[Len(pool)]
        BY <1>0, <3>3 DEF n, NewDom
      <4>2. i # Len(pool)
        BY <2>2, <3>3, <4>1
      <4>3. i \in 1..Len(pool')
        BY <1>0, <1>2, <3>3, <4>1, <4>2
      <4> QED BY <1>5, <3>3, <4>3
    <3> QED BY <1>3, <3>2, <3>3
  <2> QED BY <2>1, <2>2
<1>13. doms'.made \in doms.made..(doms.made + 1)
  BY <1>0, <1>3
<1> QED BY <1>3, <1>5, <1>7, <1>8, <1>9, <1>10, <1>11, <1>12, <1>13 DEF DomsAccounted

\* A render that was in time puts its DOM back, empty, or closes it; one that was late keeps it.
LEMMA FinishDoms ==
  ASSUME RenderConstants, RenderInv, NEW r \in Requests, Server!Finish(r)
  PROVE  DomsAccounted' /\ pool' \in Seq(Nat) /\ doms' \in [made : Nat, dirty : SUBSET Nat, closed : SUBSET Nat]
         /\ doms'.made = doms.made
<1> DEFINE n == work[r].dom
<1>0. /\ pool \in Seq(Nat) /\ Len(pool) \in Nat /\ doms.made \in Nat /\ MaxPool \in Nat /\ n \in Nat
      /\ doms.dirty \in SUBSET Nat /\ doms.closed \in SUBSET Nat
  BY DEF RenderInv, RenderTyped, RenderConstants, Works
<1>1. /\ \A q \in Requests : q # r => work'[q] = work[q]
      /\ work[r].at = "rendered" /\ work'[r].at = "over" /\ work'[r].dom = n /\ work'[r].late = work[r].late
      /\ work[r].settled \in BOOLEAN /\ work[r].late \in BOOLEAN
  BY FinishWork DEF RenderInv, RenderTyped, Works
<1>2. CASE work[r].settled
  <2>1. work[r].late /\ pool' = pool /\ doms' = doms
    BY <1>1, <1>2 DEF Server!Finish, RenderInv, StagesInOrder
  <2>2. \A q \in Requests : /\ Keeps(work'[q]) <=> Keeps(work[q])
                            /\ Keeps(work[q]) => work'[q].dom = work[q].dom
    BY <1>1, <2>1 DEF Keeps
  <2> QED BY <2>1, <2>2, DomsStay DEF RenderInv, RenderTyped
<1>3. CASE ~work[r].settled
  <2>1. /\ pool' = IF Len(pool) < MaxPool THEN Append(pool, n) ELSE pool
        /\ doms' = [doms EXCEPT !.dirty = @ \ {n}, !.closed = IF Len(pool) < MaxPool THEN @ ELSE @ \cup {n}]
    BY <1>3 DEF Server!Finish
  <2>2. /\ doms'.made = doms.made /\ doms'.dirty = doms.dirty \ {n}
        /\ doms'.closed = (IF Len(pool) < MaxPool THEN doms.closed ELSE doms.closed \cup {n})
        /\ doms' \in [made : Nat, dirty : SUBSET Nat, closed : SUBSET Nat]
    <3> HIDE DEF n
    <3>1. doms.dirty \ {n} \in SUBSET Nat /\ doms.closed \cup {n} \in SUBSET Nat
      BY <1>0
    <3> QED BY <1>0, <2>1, <3>1 DEF RenderInv, RenderTyped
  <2>3. ~work[r].late /\ Keeps(work[r]) /\ ~Keeps(work'[r])
        /\ \A q \in Requests : q # r => (Keeps(work'[q]) <=> Keeps(work[q]))
    BY <1>1, <1>3 DEF Keeps, RenderInv, StagesInOrder
  <2>4. n \in doms.dirty /\ n \in 1..doms.made /\ n \notin doms.closed /\ \A i \in 1..Len(pool) : pool[i] # n
    BY <2>3 DEF RenderInv, DomsAccounted
  <2> HIDE DEF n
  <2>5. pool' \in Seq(Nat) /\ Len(pool') \in Nat
    BY <1>0, <2>1
  <2>6. /\ Len(pool') <= MaxPool /\ \A i \in 1..Len(pool') : (i \in 1..Len(pool) /\ pool'[i] = pool[i])
             \/ (Len(pool) < MaxPool /\ pool'[i] = n /\ i = Len(pool) + 1)
    <3>1. Len(pool) <= MaxPool
      BY DEF RenderInv, DomsAccounted
    <3> QED BY <1>0, <2>1, <3>1
  <2>7. ASSUME NEW i \in 1..Len(pool'), NEW j \in 1..Len(pool'), pool'[i] = pool'[j] PROVE i = j
    BY <2>4, <2>6, <2>7 DEF RenderInv, DomsAccounted
  <2>8. ASSUME NEW i \in 1..Len(pool')
        PROVE  pool'[i] \in 1..doms'.made /\ pool'[i] \notin doms'.dirty /\ pool'[i] \notin doms'.closed
    <3>1. CASE i \in 1..Len(pool) /\ pool'[i] = pool[i]
      BY <2>2, <2>4, <3>1 DEF RenderInv, DomsAccounted
    <3>2. CASE Len(pool) < MaxPool /\ pool'[i] = n
      BY <2>2, <2>4, <3>2
    <3> QED BY <2>6, <3>1, <3>2
  <2>9. ASSUME NEW p \in Requests, NEW q \in Requests, Keeps(work'[p]), Keeps(work'[q]), work'[p].dom = work'[q].dom
        PROVE  p = q
    BY <1>1, <2>3, <2>9 DEF RenderInv, DomsAccounted
  <2>10. ASSUME NEW d PROVE d \in doms'.dirty <=> \E q \in Requests : Keeps(work'[q]) /\ work'[q].dom = d
    <3>1. d \in doms.dirty <=> \E q \in Requests : Keeps(work[q]) /\ work[q].dom = d
      BY DEF RenderInv, DomsAccounted
    <3>2. ASSUME NEW q \in Requests, Keeps(work'[q]), work'[q].dom = d
          PROVE d # n /\ \E p \in Requests : Keeps(work[p]) /\ work[p].dom = d
      <4>1. q # r /\ Keeps(work[q]) /\ work[q].dom = d
        BY <1>1, <2>3, <3>2
      <4>2. d # work[r].dom
        BY <2>3, <4>1 DEF RenderInv, DomsAccounted
      <4> QED BY <4>1, <4>2 DEF n
    <3>3. ASSUME NEW q \in Requests, Keeps(work[q]), work[q].dom = d, d # n
          PROVE \E p \in Requests : Keeps(work'[p]) /\ work'[p].dom = d
      <4>1. q # r
        BY <3>3 DEF n
      <4> QED BY <1>1, <2>3, <3>3, <4>1
    <3> QED BY <2>2, <3>1, <3>2, <3>3
  <2>11. doms'.dirty \subseteq 1..doms'.made /\ doms'.closed \subseteq 1..doms'.made /\ doms'.dirty \cap doms'.closed = {}
    <3>1. doms.dirty \subseteq 1..doms.made /\ doms.closed \subseteq 1..doms.made /\ doms.dirty \cap doms.closed = {}
      BY DEF RenderInv, DomsAccounted
    <3> QED BY <2>2, <2>4, <3>1
  <2>12. ASSUME NEW d \in 1..doms'.made
         PROVE  d \in doms'.dirty \/ d \in doms'.closed \/ \E i \in 1..Len(pool') : pool'[i] = d
    <3>1. d \in doms.dirty \/ d \in doms.closed \/ \E i \in 1..Len(pool) : pool[i] = d
      BY <2>2 DEF RenderInv, DomsAccounted
    <3>2. CASE d = n
      <4>1. CASE Len(pool) < MaxPool
        <5>1. Len(pool) + 1 \in 1..Len(pool') /\ pool'[Len(pool) + 1] = n
          BY <1>0, <2>1, <4>1
        <5> QED BY <3>2, <5>1
      <4>2. CASE ~(Len(pool) < MaxPool)
        BY <2>2, <3>2, <4>2
      <4> QED BY <4>1, <4>2
    <3>3. CASE d # n
      <4>1. ASSUME NEW i \in 1..Len(pool), pool[i] = d PROVE \E j \in 1..Len(pool') : pool'[j] = d
        <5>1. i \in 1..Len(pool') /\ pool'[i] = pool[i]
          BY <1>0, <2>1, <4>1
        <5> QED BY <4>1, <5>1
      <4> QED BY <2>2, <3>1, <3>3, <4>1
    <3> QED BY <3>2, <3>3
  <2> QED BY <2>2, <2>5, <2>6, <2>7, <2>8, <2>9, <2>10, <2>11, <2>12 DEF DomsAccounted
<1> QED BY <1>1, <1>2, <1>3

\* What leaves the renders alone leaves their stages, contexts and DOMs.
LEMMA RendersStayPut ==
  ASSUME RenderInv, als' = als, Server!RendersStay,
         \A q \in Requests : result'[q] \in {"none", "head"} => work[q].at = "idle"
  PROVE  StagesInOrder' /\ Contexts' /\ DomsAccounted'
<1>1. als' = als /\ stack' = stack /\ work' = work /\ pool' = pool /\ doms' = doms
  BY DEF Server!RendersStay
<1>2. Server!Begun' = Server!Begun /\ Server!UnderWay' = Server!UnderWay
  BY <1>1 DEF Server!Begun, Server!UnderWay
<1>3. StagesInOrder'
  BY <1>1 DEF RenderInv, StagesInOrder
<1>4. Contexts'
  BY <1>1, <1>2 DEF RenderInv, Contexts
<1>5. DomsAccounted'
  BY <1>1 DEF RenderInv, DomsAccounted
<1> QED BY <1>3, <1>4, <1>5

LEMMA AskersTyped ==
  ASSUME RenderTyped, Server!AskersStay
  PROVE  /\ als' = als /\ als' \in BOOLEAN /\ serving' \in BOOLEAN /\ failOnError' \in BOOLEAN /\ aborted' \in SUBSET Streams
         /\ job' \in [Workers -> Requests \cup {0, -1, -2}]
         /\ files' \in [rendered : SUBSET Requests, failed : SUBSET Requests]
BY DEF RenderTyped, Server!AskersStay

\* A render is asked for by one who has not asked before.
LEMMA BeginKeeps ==
  ASSUME RenderConstants, RenderInv, NEW r \in Requests, result[r] \in {"none", "head"}, Server!RenderBegins(r), als' = als
  PROVE  /\ StagesInOrder' /\ Contexts' /\ DomsAccounted' /\ stack' \in Seq(Requests) /\ pool' \in Seq(Nat)
         /\ work' \in [Requests -> Works] /\ doms' \in [made : Nat, dirty : SUBSET Nat, closed : SUBSET Nat]
         /\ result' \in [Requests -> {"none", "head", "waits", "body", "whole", "failed"}]
<1>1. work[r].at = "idle" /\ work[r].began = 0 /\ work[r].reads = {} /\ ~work[r].settled /\ ~work[r].late
  BY DEF RenderInv, StagesInOrder
<1>2. /\ stack' = stack /\ pool' = pool /\ doms' = doms /\ result' = [result EXCEPT ![r] = "waits"]
  BY DEF Server!RenderBegins
<1>3. /\ work' \in [Requests -> Works] /\ \A q \in Requests : q # r => work'[q] = work[q]
      /\ work'[r].at = "asked" /\ work'[r].settled = work[r].settled /\ work'[r].late = work[r].late
      /\ work'[r].reads = work[r].reads /\ work'[r].dom = work[r].dom /\ work'[r].began = work[r].began
  BY AskedWork DEF RenderInv
<1>4. Contexts'
  BY <1>1, <1>2, <1>3, ContextsStay
<1>5. DomsAccounted'
  <2>1. \A q \in Requests : /\ Keeps(work'[q]) <=> Keeps(work[q])
                            /\ Keeps(work[q]) => work'[q].dom = work[q].dom
    BY <1>1, <1>3 DEF Keeps
  <2> QED BY <1>2, <2>1, DomsStay
<1>6. StagesInOrder'
  <2>1. \A q \in Requests : q # r => result'[q] = result[q]
    BY <1>2 DEF RenderInv, RenderTyped
  <2>2. result'[r] = "waits"
    BY <1>2 DEF RenderInv, RenderTyped
  <2> QED BY <1>1, <1>3, <2>1, <2>2 DEF RenderInv, StagesInOrder
<1> QED BY <1>2, <1>3, <1>4, <1>5, <1>6 DEF RenderInv, RenderTyped

\* Each step of a render keeps the invariant.
LEMMA EnterKeeps ==
  ASSUME RenderConstants, RenderInv, NEW r \in Requests, Server!Enter(r)
  PROVE  RenderInv'
<1>1. /\ work' \in [Requests -> Works] /\ \A q \in Requests : q # r => work'[q] = work[q]
      /\ work[r].at = "asked" /\ work'[r].at = "prepass" /\ work'[r].settled = work[r].settled
      /\ work'[r].late = work[r].late /\ work'[r].dom = work[r].dom
  BY EnterWork DEF RenderInv
<1>2. /\ Server!AskersStay /\ pool' = pool /\ doms' = doms /\ result' = result
      /\ stack' = IF als THEN stack ELSE Append(stack, r)
  BY DEF Server!Enter
<1>3. RenderTyped'
  <2>1. stack' \in Seq(Requests)
    BY <1>2 DEF RenderInv, RenderTyped
  <2> QED BY <1>1, <1>2, <2>1, AskersTyped DEF RenderInv, RenderTyped
<1>4. StagesInOrder'
  BY <1>1, <1>2 DEF RenderInv, StagesInOrder
<1>5. DomsAccounted'
  <2>1. \A q \in Requests : /\ Keeps(work'[q]) <=> Keeps(work[q])
                            /\ Keeps(work[q]) => work'[q].dom = work[q].dom
    BY <1>1 DEF Keeps
  <2> QED BY <1>2, <2>1, DomsStay
<1> QED BY <1>3, <1>4, <1>5, EnterContexts DEF RenderInv

LEMMA NextPassKeeps ==
  ASSUME RenderConstants, RenderInv, NEW r \in Requests, Server!NextPass(r)
  PROVE  RenderInv'
<1>1. work[r].at = "prepass"
  BY DEF Server!NextPass
<1>2. /\ Server!getStore(r) \in Requests
      /\ Server!getStore(r) = r \/ (~als /\ work[Server!getStore(r)].began > work[r].began)
  BY <1>1, OwnStore
<1>3. /\ work' \in [Requests -> Works] /\ \A q \in Requests : q # r => work'[q] = work[q]
      /\ work'[r].at = work[r].at /\ work'[r].reads = work[r].reads \cup {Server!getStore(r)}
      /\ work'[r].began = work[r].began /\ work'[r].settled = work[r].settled
      /\ work'[r].late = work[r].late /\ work'[r].dom = work[r].dom
  BY <1>2, NextPassWork DEF RenderInv
<1>4. Server!AskersStay /\ pool' = pool /\ doms' = doms /\ result' = result /\ stack' = stack /\ als' = als
  BY DEF Server!NextPass, Server!AskersStay
<1>5. RenderTyped'
  BY <1>3, <1>4, AskersTyped DEF RenderInv, RenderTyped
<1>6. StagesInOrder'
  BY <1>1, <1>3, <1>4 DEF RenderInv, StagesInOrder
<1>7. DomsAccounted'
  <2>1. \A q \in Requests : /\ Keeps(work'[q]) <=> Keeps(work[q])
                            /\ Keeps(work[q]) => work'[q].dom = work[q].dom
    BY <1>3 DEF Keeps
  <2> QED BY <1>4, <2>1, DomsStay
<1>8. Contexts'
  BY <1>1, <1>2, <1>3, <1>4, ContextsStay
<1> QED BY <1>5, <1>6, <1>7, <1>8 DEF RenderInv

LEMMA RenderKeeps ==
  ASSUME RenderConstants, RenderInv, NEW r \in Requests, NEW ok \in BOOLEAN, Server!Render(r, ok)
  PROVE  RenderInv'
<1>1. work[r].at = "prepass"
  BY DEF Server!Render
<1>2. /\ Server!getStore(r) \in Requests
      /\ Server!getStore(r) = r \/ (~als /\ work[Server!getStore(r)].began > work[r].began)
  BY <1>1, OwnStore
<1>3. /\ work' \in [Requests -> Works] /\ \A q \in Requests : q # r => work'[q] = work[q]
      /\ work'[r].at = "rendered" /\ work'[r].reads = work[r].reads \cup {Server!getStore(r)}
      /\ work'[r].began = work[r].began /\ work'[r].settled = work[r].settled /\ work'[r].late = work[r].late
  BY <1>2, RenderWork DEF RenderInv
<1>4. Server!AskersStay /\ result' = result /\ stack' = stack /\ als' = als
  BY DEF Server!Render, Server!AskersStay
<1>5. DomsAccounted' /\ pool' \in Seq(Nat) /\ doms' \in [made : Nat, dirty : SUBSET Nat, closed : SUBSET Nat]
  BY RenderDoms
<1>6. RenderTyped'
  BY <1>3, <1>4, <1>5, AskersTyped DEF RenderInv, RenderTyped
<1>7. StagesInOrder'
  BY <1>1, <1>3, <1>4 DEF RenderInv, StagesInOrder
<1>8. Contexts'
  BY <1>1, <1>2, <1>3, <1>4, ContextsStay
<1> QED BY <1>5, <1>6, <1>7, <1>8 DEF RenderInv

LEMMA FinishKeeps ==
  ASSUME RenderConstants, RenderInv, NEW r \in Requests, Server!Finish(r)
  PROVE  RenderInv'
<1>1. /\ work' \in [Requests -> Works] /\ \A q \in Requests : q # r => work'[q] = work[q]
      /\ work[r].at = "rendered" /\ work'[r].at = "over" /\ work'[r].settled /\ work'[r].late = work[r].late
  BY FinishWork DEF RenderInv
<1>2. Server!AskersStay /\ result' = [result EXCEPT ![r] = Server!Answered(r)]
  BY DEF Server!Finish
<1>3. DomsAccounted' /\ pool' \in Seq(Nat) /\ doms' \in [made : Nat, dirty : SUBSET Nat, closed : SUBSET Nat]
  BY FinishDoms
<1>4. Contexts' /\ stack' \in Seq(Requests)
  BY FinishContexts
<1>5. result[r] \notin {"none", "head"}
  BY <1>1 DEF RenderInv, StagesInOrder
<1>6. /\ result \in [Requests -> {"none", "head", "waits", "body", "whole", "failed"}]
      /\ Server!Answered(r) \in {"waits", "body", "whole", "failed"}
  BY <1>5 DEF RenderInv, RenderTyped, Server!Answered
<1>7. result' \in [Requests -> {"none", "head", "waits", "body", "whole", "failed"}]
      /\ \A q \in Requests : result'[q] \in {"none", "head"} => q # r /\ result[q] \in {"none", "head"}
  BY <1>2, <1>6
<1>8. RenderTyped'
  BY <1>1, <1>2, <1>3, <1>4, <1>7, AskersTyped DEF RenderInv, RenderTyped
<1>9. StagesInOrder'
  BY <1>1, <1>7 DEF RenderInv, StagesInOrder
<1> QED BY <1>3, <1>4, <1>8, <1>9 DEF RenderInv

LEMMA TimeoutKeeps ==
  ASSUME RenderConstants, RenderInv, NEW r \in Requests, Server!Timeout(r)
  PROVE  RenderInv'
<1>1. /\ work' \in [Requests -> Works] /\ \A q \in Requests : q # r => work'[q] = work[q]
      /\ work[r].at = "prepass" /\ work'[r].at = "prepass" /\ work'[r].settled /\ work'[r].late
      /\ work'[r].reads = work[r].reads /\ work'[r].dom = work[r].dom /\ work'[r].began = work[r].began
  BY TimeoutWork DEF RenderInv
<1>2. /\ Server!AskersStay /\ pool' = pool /\ doms' = doms /\ stack' = stack /\ als' = als
      /\ result' = [result EXCEPT ![r] = IF @ = "waits" THEN "failed" ELSE @]
  BY DEF Server!Timeout, Server!AskersStay
<1>3. result' \in [Requests -> {"none", "head", "waits", "body", "whole", "failed"}]
      /\ \A q \in Requests : result'[q] \in {"none", "head"} => result[q] \in {"none", "head"}
  BY <1>2 DEF RenderInv, RenderTyped
<1>4. RenderTyped'
  BY <1>1, <1>2, <1>3, AskersTyped DEF RenderInv, RenderTyped
<1>5. StagesInOrder'
  BY <1>1, <1>3 DEF RenderInv, StagesInOrder
<1>6. DomsAccounted'
  <2>1. \A q \in Requests : /\ Keeps(work'[q]) <=> Keeps(work[q])
                            /\ Keeps(work[q]) => work'[q].dom = work[q].dom
    BY <1>1 DEF Keeps
  <2> QED BY <1>2, <2>1, DomsStay
<1>7. Contexts'
  BY <1>1, <1>2, ContextsStay
<1> QED BY <1>4, <1>5, <1>6, <1>7 DEF RenderInv

Results == {"none", "head", "waits", "body", "whole", "failed"}

\* What each of those who ask does: one render begins, or the renders stay.
LEMMA AskFacts ==
  ASSUME RenderInv, NEW r \in Requests, Server!Ask(r) \/ Server!Pull(r)
  PROVE  /\ Server!AskersStay /\ result[r] \in {"none", "head", "body"} /\ (Server!Ask(r) => serving)
         /\ \/ /\ Server!RenderBegins(r) /\ result[r] \in {"none", "head"} /\ r \notin aborted
            \/ /\ Server!RendersStay /\ \A q \in Requests : q # r => result'[q] = result[q]
               /\ result' \in [Requests -> Results]
               /\ \/ result[r] = "none" /\ result'[r] \in {"head", "failed"} /\ (r \in aborted => result'[r] = "failed")
                  \/ result[r] \in {"head", "body"} /\ r \in aborted /\ result'[r] = "failed"
                  \/ result[r] = "body" /\ r \notin aborted /\ result'[r] = "whole"
<1>0. result \in [Requests -> Results] /\ aborted \in SUBSET Streams
  BY DEF RenderInv, RenderTyped, Results
<1>1. CASE Server!Ask(r)
  <2>0. Server!AskersStay /\ result[r] = "none" /\ serving
    BY <1>1 DEF Server!Ask
  <2>1. CASE r \notin Streams
    BY <1>0, <1>1, <2>0, <2>1 DEF Server!Ask
  <2>2. CASE r \in Streams
    <3>1. result' = [result EXCEPT ![r] = IF r \in aborted THEN "failed" ELSE "head"] /\ Server!RendersStay
      BY <1>1, <2>2 DEF Server!Ask
    <3>2. /\ \A q \in Requests : q # r => result'[q] = result[q]
          /\ result'[r] = (IF r \in aborted THEN "failed" ELSE "head")
          /\ result' \in [Requests -> Results]
      BY <1>0, <3>1 DEF Results
    <3> QED BY <2>0, <3>1, <3>2
  <2> QED BY <2>1, <2>2
<1>2. CASE Server!Pull(r) /\ ~Server!Ask(r)
  <2>0. Server!AskersStay /\ result[r] \in {"head", "body"}
    BY <1>2 DEF Server!Pull
  <2>1. CASE result[r] = "head" /\ r \notin aborted
    BY <1>2, <2>0, <2>1 DEF Server!Pull
  <2>2. CASE ~(result[r] = "head" /\ r \notin aborted)
    <3>1. result' = [result EXCEPT ![r] = IF r \in aborted THEN "failed" ELSE "whole"] /\ Server!RendersStay
      BY <1>2, <2>2 DEF Server!Pull
    <3>2. /\ \A q \in Requests : q # r => result'[q] = result[q]
          /\ result'[r] = (IF r \in aborted THEN "failed" ELSE "whole")
          /\ result' \in [Requests -> Results]
      BY <1>0, <3>1 DEF Results
    <3> QED BY <1>2, <2>0, <2>2, <3>1, <3>2
  <2> QED BY <2>1, <2>2
<1> QED BY <1>1, <1>2

\* What the steps of those who ask for pages change.
LEMMA AbortFacts ==
  ASSUME RenderConstants, RenderInv, NEW r \in Streams, Server!Abort(r)
  PROVE  /\ r \in Requests /\ serving /\ result[r] \notin {"whole", "failed"} /\ aborted' = aborted \cup {r}
         /\ \A q \in Requests : q # r => result'[q] = result[q]
         /\ result'[r] = (IF result[r] = "waits" THEN "failed" ELSE result[r])
         /\ result' \in [Requests -> Results] /\ Server!RendersStay
         /\ UNCHANGED <<als, serving, failOnError, job, files>>
BY DEF Server!Abort, RenderConstants, RenderInv, RenderTyped, Results

LEMMA WorkerFacts ==
  ASSUME RenderInv, NEW w \in Workers, Server!worker(w)
  PROVE  /\ ~serving /\ job[w] = 0 /\ UNCHANGED <<als, serving, failOnError, aborted, files>>
         /\ \/ /\ \A q \in Requests : result[q] # "none"
               /\ job' = [job EXCEPT ![w] = -1] /\ UNCHANGED result /\ Server!RendersStay
            \/ \E r \in Requests : result[r] = "none" /\ job' = [job EXCEPT ![w] = r] /\ Server!RenderBegins(r)
BY DEF Server!worker, Server!Queue, Server!Idle, Server!Ended

LEMMA PageEndsFacts ==
  ASSUME RenderInv, NEW w \in Workers, Server!PageEnds(w)
  PROVE  \E r \in Requests :
           /\ job[w] = r /\ Server!RendersStay /\ UNCHANGED <<als, serving, failOnError, aborted, result>>
           /\ \/ result[r] = "whole" /\ files' = [files EXCEPT !.rendered = @ \cup {r}] /\ job' = [job EXCEPT ![w] = 0]
              \/ result[r] = "failed" /\ UNCHANGED files /\ job' = [job EXCEPT ![w] = -2]
              \/ result[r] = "failed" /\ files' = [files EXCEPT !.failed = @ \cup {r}] /\ job' = [job EXCEPT ![w] = 0]
BY DEF Server!PageEnds, Server!Idle, Server!Rejected

\* They keep the invariant.
LEMMA AskingKeeps ==
  ASSUME RenderConstants, RenderInv
  PROVE  /\ \A r \in Requests : Server!Ask(r) \/ Server!Pull(r) => RenderInv'
         /\ \A r \in Streams : Server!Abort(r) => RenderInv'
         /\ \A w \in Workers : Server!worker(w) \/ Server!PageEnds(w) => RenderInv'
<1>0. /\ result \in [Requests -> Results] /\ job \in [Workers -> Requests \cup {0, -1, -2}]
      /\ files \in [rendered : SUBSET Requests, failed : SUBSET Requests]
      /\ \A q \in Requests : result[q] \in {"none", "head"} => work[q].at = "idle"
  BY DEF RenderInv, RenderTyped, Results, StagesInOrder
<1>1. ASSUME NEW r \in Requests, Server!Ask(r) \/ Server!Pull(r) PROVE RenderInv'
  <2>0. Server!AskersStay /\ als' = als
    BY <1>1, AskFacts DEF Server!AskersStay
  <2>1. CASE Server!RenderBegins(r) /\ result[r] \in {"none", "head"}
    BY <2>0, <2>1, BeginKeeps, AskersTyped DEF RenderInv, RenderTyped
  <2>2. CASE ~(Server!RenderBegins(r) /\ result[r] \in {"none", "head"})
    <3>1. /\ Server!RendersStay /\ \A q \in Requests : q # r => result'[q] = result[q]
          /\ result' \in [Requests -> Results]
          /\ result'[r] \in {"none", "head"} => result[r] \in {"none", "head"}
      BY <1>1, <2>2, AskFacts
    <3>2. \A q \in Requests : result'[q] \in {"none", "head"} => work[q].at = "idle"
      BY <1>0, <3>1
    <3>3. StagesInOrder' /\ Contexts' /\ DomsAccounted'
      BY <2>0, <3>1, <3>2, RendersStayPut
    <3>4. RenderTyped'
      BY <2>0, <3>1, AskersTyped DEF RenderInv, RenderTyped, Results, Server!RendersStay
    <3> QED BY <3>3, <3>4 DEF RenderInv
  <2> QED BY <2>1, <2>2
<1>2. ASSUME NEW r \in Streams, Server!Abort(r) PROVE RenderInv'
  <2>1. /\ r \in Requests /\ aborted' = aborted \cup {r} /\ Server!RendersStay /\ result' \in [Requests -> Results]
        /\ UNCHANGED <<als, serving, failOnError, job, files>>
    BY <1>2, AbortFacts
  <2>2. \A q \in Requests : result'[q] \in {"none", "head"} => work[q].at = "idle"
    BY <1>0, <1>2, AbortFacts
  <2>3. StagesInOrder' /\ Contexts' /\ DomsAccounted'
    BY <2>1, <2>2, RendersStayPut
  <2>4. RenderTyped'
    BY <1>2, <2>1 DEF RenderInv, RenderTyped, Results, Server!RendersStay
  <2> QED BY <2>3, <2>4 DEF RenderInv
<1>3. ASSUME NEW w \in Workers, Server!worker(w) PROVE RenderInv'
  <2>0. UNCHANGED <<als, serving, failOnError, aborted, files>>
    BY <1>3, WorkerFacts
  <2>1. CASE job' = [job EXCEPT ![w] = -1] /\ UNCHANGED result /\ Server!RendersStay
    <3>1. StagesInOrder' /\ Contexts' /\ DomsAccounted'
      BY <1>0, <2>0, <2>1, RendersStayPut
    <3>2. job' \in [Workers -> Requests \cup {0, -1, -2}]
      BY <1>0, <2>1
    <3>3. RenderTyped'
      BY <2>0, <2>1, <3>2 DEF RenderInv, RenderTyped, Server!RendersStay
    <3> QED BY <3>1, <3>3 DEF RenderInv
  <2>2. ASSUME NEW r \in Requests, result[r] = "none", job' = [job EXCEPT ![w] = r], Server!RenderBegins(r)
        PROVE  RenderInv'
    <3>1. job' \in [Workers -> Requests \cup {0, -1, -2}]
      BY <1>0, <2>2
    <3>2. result[r] \in {"none", "head"}
      BY <2>2
    <3>3. /\ StagesInOrder' /\ Contexts' /\ DomsAccounted' /\ stack' \in Seq(Requests) /\ pool' \in Seq(Nat)
          /\ work' \in [Requests -> Works] /\ doms' \in [made : Nat, dirty : SUBSET Nat, closed : SUBSET Nat]
          /\ result' \in [Requests -> {"none", "head", "waits", "body", "whole", "failed"}]
      BY <2>0, <2>2, <3>2, BeginKeeps
    <3> QED BY <2>0, <3>1, <3>3 DEF RenderInv, RenderTyped
  <2> QED BY <1>3, <2>1, <2>2, WorkerFacts
<1>4. ASSUME NEW w \in Workers, Server!PageEnds(w) PROVE RenderInv'
  <2>1. PICK r \in Requests :
           /\ job[w] = r /\ Server!RendersStay /\ UNCHANGED <<als, serving, failOnError, aborted, result>>
           /\ \/ result[r] = "whole" /\ files' = [files EXCEPT !.rendered = @ \cup {r}] /\ job' = [job EXCEPT ![w] = 0]
              \/ result[r] = "failed" /\ UNCHANGED files /\ job' = [job EXCEPT ![w] = -2]
              \/ result[r] = "failed" /\ files' = [files EXCEPT !.failed = @ \cup {r}] /\ job' = [job EXCEPT ![w] = 0]
    BY <1>4, PageEndsFacts
  <2>2. StagesInOrder' /\ Contexts' /\ DomsAccounted'
    BY <1>0, <2>1, RendersStayPut
  <2>3. job' \in [Workers -> Requests \cup {0, -1, -2}]
    BY <1>0, <2>1
  <2>4. files' \in [rendered : SUBSET Requests, failed : SUBSET Requests]
    BY <1>0, <2>1
  <2>5. RenderTyped'
    BY <2>1, <2>3, <2>4 DEF RenderInv, RenderTyped, Server!RendersStay
  <2> QED BY <2>2, <2>5 DEF RenderInv
<1> QED BY <1>1, <1>2, <1>3, <1>4

\* Who waits has a render that is in time and wanted; who has a page has one that came to its end.
AnswersComing ==
  \A r \in Requests :
    /\ work[r].late => result[r] = "failed"
    /\ work[r].at \in {"asked", "prepass", "rendered"} =>
         /\ result[r] \in {"waits", "failed"}
         /\ result[r] = "waits" <=> ~work[r].late /\ r \notin aborted
    /\ result[r] = "waits" => work[r].at \in {"asked", "prepass", "rendered"}
    /\ result[r] \in {"body", "whole"} => work[r].at = "over" /\ work[r].ok
    /\ r \in aborted /\ work[r].at = "over" => result[r] \notin {"waits", "whole"}

\* Every page prerender has begun is with one worker, put down, or lost with a worker that failed.
PagesAccounted ==
  /\ serving => files.rendered = {} /\ files.failed = {} /\ \A w \in Workers : job[w] = 0
  /\ ~serving => aborted = {}
  /\ \A w, v \in Workers : job[w] \in Requests /\ job[w] = job[v] => w = v
  /\ \A w \in Workers : job[w] \in Requests =>
       job[w] \notin files.rendered /\ job[w] \notin files.failed /\ result[job[w]] # "none"
  /\ \A w \in Workers : job[w] = -1 => \A r \in Requests : result[r] # "none"
  /\ \A r \in files.rendered : result[r] = "whole" /\ r \notin files.failed
  /\ \A r \in files.failed : result[r] # "none"
  /\ ~serving => \A r \in Requests : \/ result[r] = "none" \/ r \in files.rendered \/ r \in files.failed
                                     \/ \E w \in Workers : job[w] \in {r, -2}

\* A render has a bounded number of passes, and no more DOMs are made than renders are done.
Rendered == {r \in Requests : work[r].at \in {"rendered", "over"}}
RenderBounded ==
  /\ \A r \in Requests : work[r].passes <= MaxPasses /\ work[r].dom <= doms.made
  /\ doms.made <= Cardinality(Rendered)

\* Pages and answers, over steps that no worker sees.
LEMMA PagesStay ==
  ASSUME PagesAccounted, UNCHANGED <<serving, aborted, job, files>>,
         \A q \in Requests : /\ result'[q] = "none" <=> result[q] = "none"
                             /\ result[q] = "whole" => result'[q] = "whole",
         RenderTyped
  PROVE  PagesAccounted'
<1>1. files.rendered \in SUBSET Requests /\ files.failed \in SUBSET Requests
  BY DEF RenderTyped
<1> QED BY <1>1 DEF PagesAccounted

\* A render that settles answers the one who asked, and nobody twice.
LEMMA RendersAnswer ==
  ASSUME RenderConstants, RenderInv, AnswersComing, PagesAccounted, NEW r \in Requests,
         \/ Server!Enter(r) \/ Server!NextPass(r) \/ (\E ok \in BOOLEAN : Server!Render(r, ok))
         \/ Server!Finish(r) \/ Server!Timeout(r)
  PROVE  AnswersComing' /\ PagesAccounted'
<1>0. /\ result \in [Requests -> Results] /\ work \in [Requests -> Works]
      /\ \A q \in Requests : result[q] \in {"none", "head"} => work[q].at = "idle"
  BY DEF RenderInv, RenderTyped, Results, StagesInOrder
<1>1. CASE Server!Enter(r)
  <2>1. /\ \A q \in Requests : q # r => work'[q] = work[q]
        /\ work[r].at = "asked" /\ work'[r].at = "prepass" /\ work'[r].ok = work[r].ok /\ work'[r].late = work[r].late
    BY <1>1, EnterWork DEF RenderInv
  <2>2. result' = result /\ UNCHANGED <<serving, aborted, job, files>>
    BY <1>1 DEF Server!Enter, Server!AskersStay
  <2>3. AnswersComing'
    BY <2>1, <2>2 DEF AnswersComing
  <2> QED BY <2>2, <2>3, PagesStay DEF RenderInv
<1>2. CASE Server!NextPass(r)
  <2>0. work[r].at = "prepass"
    BY <1>2 DEF Server!NextPass
  <2>1. /\ \A q \in Requests : q # r => work'[q] = work[q]
        /\ work'[r].at = work[r].at /\ work'[r].ok = work[r].ok /\ work'[r].late = work[r].late
    BY <1>2, <2>0, OwnStore, NextPassWork DEF RenderInv
  <2>2. result' = result /\ UNCHANGED <<serving, aborted, job, files>>
    BY <1>2 DEF Server!NextPass, Server!AskersStay
  <2>3. AnswersComing'
    BY <2>1, <2>2 DEF AnswersComing
  <2> QED BY <2>2, <2>3, PagesStay DEF RenderInv
<1>3. ASSUME NEW ok \in BOOLEAN, Server!Render(r, ok) PROVE AnswersComing' /\ PagesAccounted'
  <2>0. work[r].at = "prepass"
    BY <1>3 DEF Server!Render
  <2>1. /\ \A q \in Requests : q # r => work'[q] = work[q]
        /\ work'[r].at = "rendered" /\ work'[r].late = work[r].late
    BY <1>3, <2>0, OwnStore, RenderWork DEF RenderInv
  <2>2. result' = result /\ UNCHANGED <<serving, aborted, job, files>>
    BY <1>3 DEF Server!Render, Server!AskersStay
  <2>3. AnswersComing'
    BY <2>0, <2>1, <2>2 DEF AnswersComing
  <2> QED BY <2>2, <2>3, PagesStay DEF RenderInv
<1>4. CASE Server!Finish(r)
  <2>1. /\ \A q \in Requests : q # r => work'[q] = work[q]
        /\ work[r].at = "rendered" /\ work'[r].at = "over" /\ work'[r].ok = work[r].ok /\ work'[r].late = work[r].late
    BY <1>4, FinishWork DEF RenderInv
  <2>2. result' = [result EXCEPT ![r] = Server!Answered(r)] /\ UNCHANGED <<serving, aborted, job, files>>
    BY <1>4 DEF Server!Finish, Server!AskersStay
  <2>3. result'[r] = Server!Answered(r) /\ \A q \in Requests : q # r => result'[q] = result[q]
    BY <1>0, <2>2
  <2>4. /\ result[r] = "waits" /\ ~work[r].ok => result'[r] = "failed"
        /\ result[r] = "waits" /\ work[r].ok => result'[r] \in {"body", "whole"}
        /\ result[r] # "waits" => result'[r] = result[r]
    BY <2>3 DEF Server!Answered
  <2>5. result[r] \in {"waits", "failed"} /\ (result[r] = "waits" <=> ~work[r].late /\ r \notin aborted)
    BY <2>1 DEF AnswersComing
  <2>6. ASSUME NEW q \in Requests, q # r
        PROVE  work'[q] = work[q] /\ result'[q] = result[q] /\ (q \in aborted' <=> q \in aborted)
    BY <2>1, <2>2, <2>3, <2>6
  <2>7. AnswersComing'
    <3>1. /\ work'[r].late => result'[r] = "failed"
          /\ result'[r] # "waits"
          /\ result'[r] \in {"body", "whole"} => work'[r].ok
          /\ r \in aborted' => result'[r] = "failed"
      BY <2>1, <2>2, <2>4, <2>5 DEF AnswersComing
    <3> QED BY <2>1, <2>6, <3>1 DEF AnswersComing
  <2>8. \A q \in Requests : /\ result'[q] = "none" <=> result[q] = "none"
                            /\ result[q] = "whole" => result'[q] = "whole"
    BY <2>3, <2>4, <2>5
  <2> QED BY <2>2, <2>7, <2>8, PagesStay DEF RenderInv
<1>5. CASE Server!Timeout(r)
  <2>1. /\ \A q \in Requests : q # r => work'[q] = work[q]
        /\ work[r].at = "prepass" /\ work'[r].at = "prepass" /\ work'[r].late /\ work'[r].ok = work[r].ok
    BY <1>5, TimeoutWork DEF RenderInv
  <2>2. result' = [result EXCEPT ![r] = IF @ = "waits" THEN "failed" ELSE @] /\ UNCHANGED <<serving, aborted, job, files>>
    BY <1>5 DEF Server!Timeout, Server!AskersStay
  <2>3. result[r] \in {"waits", "failed"}
    BY <2>1 DEF AnswersComing
  <2>4. result'[r] = "failed" /\ \A q \in Requests : q # r => result'[q] = result[q]
    BY <1>0, <2>2, <2>3
  <2>5. AnswersComing'
    BY <2>1, <2>2, <2>4 DEF AnswersComing
  <2>6. \A q \in Requests : /\ result'[q] = "none" <=> result[q] = "none"
                            /\ result[q] = "whole" => result'[q] = "whole"
    BY <2>3, <2>4
  <2> QED BY <2>2, <2>5, <2>6, PagesStay DEF RenderInv
<1> QED BY <1>1, <1>2, <1>3, <1>4, <1>5

\* A render begins for one who is not aborted, and is waited for.
LEMMA BeginAnswers ==
  ASSUME RenderConstants, RenderInv, AnswersComing, NEW r \in Requests, result[r] \in {"none", "head"},
         r \notin aborted, Server!RenderBegins(r), aborted' = aborted
  PROVE  /\ AnswersComing' /\ result'[r] = "waits"
         /\ \A q \in Requests : q # r => result'[q] = result[q]
<1>1. work[r].at = "idle" /\ ~work[r].late
  BY DEF RenderInv, StagesInOrder
<1>2. /\ \A q \in Requests : q # r => work'[q] = work[q]
      /\ work'[r].at = "asked" /\ work'[r].late = work[r].late
  BY AskedWork DEF RenderInv
<1>3. result'[r] = "waits" /\ \A q \in Requests : q # r => result'[q] = result[q]
  BY DEF Server!RenderBegins, RenderInv, RenderTyped
<1> QED BY <1>1, <1>2, <1>3 DEF AnswersComing

LEMMA AskingAnswers ==
  ASSUME RenderConstants, RenderInv, AnswersComing, PagesAccounted
  PROVE  /\ \A r \in Requests : Server!Ask(r) \/ Server!Pull(r) => AnswersComing' /\ PagesAccounted'
         /\ \A r \in Streams : Server!Abort(r) => AnswersComing' /\ PagesAccounted'
<1>0. /\ result \in [Requests -> Results] /\ work \in [Requests -> Works]
      /\ \A q \in Requests : result[q] \in {"none", "head"} => work[q].at = "idle" /\ ~work[q].late
      /\ files.rendered \in SUBSET Requests /\ files.failed \in SUBSET Requests
      /\ job \in [Workers -> Requests \cup {0, -1, -2}]
  BY DEF RenderInv, RenderTyped, Results, StagesInOrder
<1>1. ASSUME NEW r \in Requests, Server!Ask(r) \/ Server!Pull(r) PROVE AnswersComing' /\ PagesAccounted'
  <2>0. UNCHANGED <<serving, aborted, job, files>> /\ result[r] \in {"none", "head", "body"}
        /\ (result[r] = "none" => serving)
    <3>1. result[r] = "none" => Server!Ask(r)
      BY <1>1 DEF Server!Pull
    <3> QED BY <1>1, <3>1, AskFacts DEF Server!AskersStay
  <2>1. CASE Server!RenderBegins(r) /\ result[r] \in {"none", "head"} /\ r \notin aborted
    <3>1. AnswersComing' /\ result'[r] = "waits" /\ \A q \in Requests : q # r => result'[q] = result[q]
      BY <2>0, <2>1, BeginAnswers
    <3>2. CASE serving
      <4>1. files.rendered = {} /\ files.failed = {} /\ \A w \in Workers : job[w] = 0
        BY <3>2 DEF PagesAccounted
      <4>2. 0 \notin Requests
        BY DEF RenderConstants
      <4> QED BY <2>0, <3>1, <3>2, <4>1, <4>2 DEF PagesAccounted
    <3>3. CASE ~serving
      <4>1. \A q \in Requests : /\ result'[q] = "none" <=> result[q] = "none"
                                /\ result[q] = "whole" => result'[q] = "whole"
        BY <2>0, <2>1, <3>1, <3>3
      <4> QED BY <2>0, <3>1, <4>1, PagesStay DEF RenderInv
    <3> QED BY <3>2, <3>3
  <2>2. CASE ~(Server!RenderBegins(r) /\ result[r] \in {"none", "head"} /\ r \notin aborted)
    <3>1. /\ Server!RendersStay /\ \A q \in Requests : q # r => result'[q] = result[q]
          /\ \/ result[r] = "none" /\ result'[r] \in {"head", "failed"} /\ (r \in aborted => result'[r] = "failed")
             \/ result[r] \in {"head", "body"} /\ r \in aborted /\ result'[r] = "failed"
             \/ result[r] = "body" /\ r \notin aborted /\ result'[r] = "whole"
      BY <1>1, <2>2, AskFacts
    <3>2. work' = work
      BY <3>1 DEF Server!RendersStay
    <3>3. \/ result[r] \in {"none", "head"} /\ work[r].at = "idle" /\ ~work[r].late
          \/ result[r] = "body" /\ work[r].at = "over" /\ work[r].ok /\ ~work[r].late
      BY <1>0, <2>0 DEF AnswersComing
    <3>4. AnswersComing'
      BY <2>0, <3>1, <3>2, <3>3 DEF AnswersComing
    <3>5. CASE serving
      <4>1. files.rendered = {} /\ files.failed = {} /\ \A w \in Workers : job[w] = 0
        BY <3>5 DEF PagesAccounted
      <4>2. 0 \notin Requests
        BY DEF RenderConstants
      <4> QED BY <2>0, <3>4, <3>5, <4>1, <4>2 DEF PagesAccounted
    <3>6. CASE ~serving
      <4>1. \A q \in Requests : /\ result'[q] = "none" <=> result[q] = "none"
                                /\ result[q] = "whole" => result'[q] = "whole"
        BY <2>0, <3>1, <3>6
      <4> QED BY <2>0, <3>4, <4>1, PagesStay DEF RenderInv
    <3> QED BY <3>5, <3>6
  <2> QED BY <2>1, <2>2
<1>2. ASSUME NEW r \in Streams, Server!Abort(r) PROVE AnswersComing' /\ PagesAccounted'
  <2>1. /\ r \in Requests /\ serving /\ result[r] \notin {"whole", "failed"} /\ aborted' = aborted \cup {r}
        /\ \A q \in Requests : q # r => result'[q] = result[q]
        /\ result'[r] = (IF result[r] = "waits" THEN "failed" ELSE result[r])
        /\ work' = work /\ UNCHANGED <<serving, job, files>>
    BY <1>2, AbortFacts DEF Server!RendersStay
  <2>2. AnswersComing'
    <3>1. \A q \in Requests : q # r => (q \in aborted' <=> q \in aborted)
      BY <2>1
    <3>2. r \in aborted' /\ result'[r] # "waits"
      BY <2>1
    <3>3. ~work[r].late
      BY <2>1 DEF AnswersComing
    <3>4. work[r].at \in {"asked", "prepass", "rendered"} => result'[r] = "failed"
      BY <2>1 DEF AnswersComing
    <3>5. result'[r] \in {"body", "whole"} => result[r] = "body" /\ result'[r] = "body"
      BY <2>1
    <3> QED BY <2>1, <3>1, <3>2, <3>3, <3>4, <3>5 DEF AnswersComing
  <2>3. files.rendered = {} /\ files.failed = {} /\ (\A w \in Workers : job[w] = 0) /\ 0 \notin Requests
    BY <2>1 DEF PagesAccounted, RenderConstants
  <2> QED BY <2>1, <2>2, <2>3 DEF PagesAccounted
<1> QED BY <1>1, <1>2

\* A worker puts its page down before it takes another, or ends.
LEMMA WorkersAnswer ==
  ASSUME RenderConstants, RenderInv, AnswersComing, PagesAccounted, NEW w \in Workers,
         Server!worker(w) \/ Server!PageEnds(w)
  PROVE  AnswersComing' /\ PagesAccounted'
<1>0. /\ result \in [Requests -> Results] /\ work \in [Requests -> Works]
      /\ files \in [rendered : SUBSET Requests, failed : SUBSET Requests]
      /\ job \in [Workers -> Requests \cup {0, -1, -2}]
      /\ 0 \notin Requests /\ -1 \notin Requests /\ -2 \notin Requests
  BY DEF RenderInv, RenderTyped, Results, RenderConstants
<1>1. CASE Server!worker(w)
  <2>1. ~serving /\ job[w] = 0 /\ UNCHANGED <<serving, aborted, files>> /\ aborted = {}
    BY <1>1, WorkerFacts DEF PagesAccounted
  <2>2. CASE /\ \A q \in Requests : result[q] # "none"
             /\ job' = [job EXCEPT ![w] = -1] /\ UNCHANGED result /\ Server!RendersStay
    <3>1. job'[w] = -1 /\ \A v \in Workers : v # w => job'[v] = job[v]
      BY <1>0, <2>2
    <3>2. AnswersComing'
      BY <2>1, <2>2 DEF AnswersComing, Server!RendersStay
    <3>3. \A v, u \in Workers : job'[v] \in Requests /\ job'[v] = job'[u] => v = u
      BY <1>0, <3>1 DEF PagesAccounted
    <3>4. \A v \in Workers : job'[v] \in Requests =>
            job'[v] \notin files.rendered /\ job'[v] \notin files.failed /\ result[job'[v]] # "none"
      BY <1>0, <3>1 DEF PagesAccounted
    <3>5. ASSUME NEW r \in Requests
          PROVE  r \in files.rendered \/ r \in files.failed \/ \E v \in Workers : job'[v] \in {r, -2}
      <4>1. r \in files.rendered \/ r \in files.failed \/ \E v \in Workers : job[v] \in {r, -2}
        BY <2>1, <2>2 DEF PagesAccounted
      <4>2. ASSUME NEW v \in Workers, job[v] \in {r, -2} PROVE job'[v] \in {r, -2}
        BY <1>0, <2>1, <3>1, <4>2
      <4> QED BY <4>1, <4>2
    <3> QED BY <2>1, <2>2, <3>2, <3>3, <3>4, <3>5 DEF PagesAccounted
  <2>3. ASSUME NEW r \in Requests, result[r] = "none", job' = [job EXCEPT ![w] = r], Server!RenderBegins(r)
        PROVE  AnswersComing' /\ PagesAccounted'
    <3>1. job'[w] = r /\ \A v \in Workers : v # w => job'[v] = job[v]
      BY <1>0, <2>3
    <3>2. AnswersComing' /\ result'[r] = "waits" /\ \A q \in Requests : q # r => result'[q] = result[q]
      BY <2>1, <2>3, BeginAnswers
    <3>3. r \notin files.rendered /\ r \notin files.failed /\ \A v \in Workers : job[v] # r
      BY <2>3 DEF PagesAccounted
    <3>4. \A v, u \in Workers : job'[v] \in Requests /\ job'[v] = job'[u] => v = u
      BY <3>1, <3>3 DEF PagesAccounted
    <3>5. \A v \in Workers : job'[v] \in Requests =>
            job'[v] \notin files.rendered /\ job'[v] \notin files.failed /\ result'[job'[v]] # "none"
      BY <3>1, <3>2, <3>3 DEF PagesAccounted
    <3>6. \A v \in Workers : job'[v] = -1 => \A q \in Requests : result'[q] # "none"
      BY <1>0, <3>1, <3>2 DEF PagesAccounted
    <3>7. /\ \A q \in files.rendered : result'[q] = "whole" /\ q \notin files.failed
          /\ \A q \in files.failed : result'[q] # "none"
      BY <1>0, <3>2, <3>3 DEF PagesAccounted
    <3>8. ASSUME NEW q \in Requests, result'[q] # "none"
          PROVE  q \in files.rendered \/ q \in files.failed \/ \E v \in Workers : job'[v] \in {q, -2}
      <4>1. CASE q = r
        BY <3>1, <4>1
      <4>2. CASE q # r
        <5>1. q \in files.rendered \/ q \in files.failed \/ \E v \in Workers : job[v] \in {q, -2}
          BY <2>1, <3>2, <3>8, <4>2 DEF PagesAccounted
        <5>2. ASSUME NEW v \in Workers, job[v] \in {q, -2} PROVE job'[v] \in {q, -2}
          BY <1>0, <2>1, <3>1, <5>2
        <5> QED BY <5>1, <5>2
      <4> QED BY <4>1, <4>2
    <3> QED BY <2>1, <3>2, <3>4, <3>5, <3>6, <3>7, <3>8 DEF PagesAccounted
  <2> QED BY <1>1, <2>2, <2>3, WorkerFacts
<1>2. CASE Server!PageEnds(w)
  <2>1. PICK r \in Requests :
           /\ job[w] = r /\ Server!RendersStay /\ UNCHANGED <<als, serving, failOnError, aborted, result>>
           /\ \/ result[r] = "whole" /\ files' = [files EXCEPT !.rendered = @ \cup {r}] /\ job' = [job EXCEPT ![w] = 0]
              \/ result[r] = "failed" /\ UNCHANGED files /\ job' = [job EXCEPT ![w] = -2]
              \/ result[r] = "failed" /\ files' = [files EXCEPT !.failed = @ \cup {r}] /\ job' = [job EXCEPT ![w] = 0]
    BY <1>2, PageEndsFacts
  <2>2. ~serving
    BY <1>0, <2>1 DEF PagesAccounted
  <2>3. AnswersComing'
    BY <2>1 DEF AnswersComing, Server!RendersStay
  <2>4. r \notin files.rendered /\ r \notin files.failed /\ \A v \in Workers : v # w => job[v] # r
    BY <2>1 DEF PagesAccounted
  <2>5. /\ \A v \in Workers : v # w => job'[v] = job[v]
        /\ \/ /\ result[r] = "whole" /\ job'[w] = 0 /\ files'.rendered = files.rendered \cup {r}
              /\ files'.failed = files.failed
           \/ job'[w] = -2 /\ files'.rendered = files.rendered /\ files'.failed = files.failed
           \/ /\ result[r] = "failed" /\ job'[w] = 0 /\ files'.rendered = files.rendered
              /\ files'.failed = files.failed \cup {r}
    BY <1>0, <2>1
  <2>6. \A v, u \in Workers : job'[v] \in Requests /\ job'[v] = job'[u] => v = u
    BY <1>0, <2>4, <2>5 DEF PagesAccounted
  <2>7. \A v \in Workers : job'[v] \in Requests =>
          job'[v] \notin files'.rendered /\ job'[v] \notin files'.failed /\ result'[job'[v]] # "none"
    BY <1>0, <2>1, <2>4, <2>5 DEF PagesAccounted
  <2>8. \A v \in Workers : job'[v] = -1 => \A q \in Requests : result'[q] # "none"
    BY <1>0, <2>1, <2>5 DEF PagesAccounted
  <2>9. /\ \A q \in files'.rendered : result'[q] = "whole" /\ q \notin files'.failed
        /\ \A q \in files'.failed : result'[q] # "none"
    BY <1>0, <2>1, <2>4, <2>5 DEF PagesAccounted
  <2>10. ASSUME NEW q \in Requests, result'[q] # "none"
         PROVE  q \in files'.rendered \/ q \in files'.failed \/ \E v \in Workers : job'[v] \in {q, -2}
    <3>1. q \in files.rendered \/ q \in files.failed \/ \E v \in Workers : job[v] \in {q, -2}
      BY <2>1, <2>2, <2>10 DEF PagesAccounted
    <3>2. ASSUME NEW v \in Workers, job[v] \in {q, -2}
          PROVE  q \in files'.rendered \/ q \in files'.failed \/ \E u \in Workers : job'[u] \in {q, -2}
      <4>1. CASE v # w
        BY <2>5, <3>2, <4>1
      <4>2. CASE v = w
        <5>1. q = r
          BY <1>0, <2>1, <3>2, <4>2
        <5> QED BY <2>5, <5>1
      <4> QED BY <4>1, <4>2
    <3> QED BY <2>5, <3>1, <3>2
  <2> QED BY <2>1, <2>2, <2>3, <2>6, <2>7, <2>8, <2>9, <2>10 DEF PagesAccounted
<1> QED BY <1>1, <1>2

\* The numbers of renders and DOMs stay within those of the requests.
LEMMA RenderStaysBounded ==
  ASSUME RenderConstants, RenderInv, RenderBounded, Server!Next
  PROVE  RenderBounded'
<1>0. /\ work \in [Requests -> Works] /\ MaxPasses \in Nat /\ MaxPasses >= 1 /\ doms.made \in Nat
      /\ IsFiniteSet(Rendered) /\ Cardinality(Rendered) \in Nat
  <2>1. Rendered \in SUBSET Requests
    BY DEF Rendered
  <2> QED BY <2>1, Counting, FS_CardinalityType DEF RenderInv, RenderTyped, RenderConstants
<1>1. \A q \in Requests : work[q].passes \in Nat /\ work[q].dom \in Nat
  BY <1>0 DEF Works
<1> DEFINE Stays(r) == /\ \A q \in Requests : q # r => work'[q] = work[q]
                       /\ work'[r].passes <= MaxPasses /\ work'[r].dom = work[r].dom
                       /\ work'[r].at \in {"rendered", "over"} <=> work[r].at \in {"rendered", "over"}
<1>2. ASSUME NEW r \in Requests, Stays(r), doms'.made = doms.made PROVE RenderBounded'
  <2>1. Rendered' = Rendered
    BY <1>2 DEF Rendered
  <2> QED BY <1>2, <2>1 DEF RenderBounded
<1>3. ASSUME work' = work, doms' = doms PROVE RenderBounded'
  BY <1>3 DEF RenderBounded, Rendered
<1>4. ASSUME NEW r \in Requests, Server!RenderBegins(r), result[r] \in {"none", "head"} PROVE RenderBounded'
  <2>1. work[r].at = "idle" /\ doms' = doms
    BY <1>4 DEF RenderInv, StagesInOrder, Server!RenderBegins
  <2>2. Stays(r)
    BY <1>4, <2>1, AskedWork DEF RenderInv, RenderBounded
  <2> QED BY <1>2, <2>1, <2>2
<1>5. ASSUME NEW r \in Requests, Server!Enter(r) PROVE RenderBounded'
  <2>1. doms' = doms /\ work[r].at = "asked" /\ work'[r].passes = 1
    BY <1>0, <1>5 DEF Server!Enter, Works
  <2>2. Stays(r)
    BY <1>0, <1>5, <2>1, EnterWork DEF RenderInv
  <2> QED BY <1>2, <2>1, <2>2
<1>6. ASSUME NEW r \in Requests, Server!NextPass(r) PROVE RenderBounded'
  <2>1. doms' = doms /\ work[r].at = "prepass"
    BY <1>6 DEF Server!NextPass
  <2>2. Stays(r)
    BY <1>0, <1>1, <1>6, <2>1, OwnStore, NextPassWork DEF RenderInv
  <2> QED BY <1>2, <2>1, <2>2
<1>7. ASSUME NEW r \in Requests, NEW ok \in BOOLEAN, Server!Render(r, ok) PROVE RenderBounded'
  <2>1. work[r].at = "prepass"
    BY <1>7 DEF Server!Render
  <2>2. /\ \A q \in Requests : q # r => work'[q] = work[q]
        /\ work'[r].at = "rendered" /\ work'[r].dom = NewDom /\ work'[r].passes = work[r].passes /\ NewDom \in Nat
    BY <1>7, <2>1, OwnStore, RenderWork DEF RenderInv
  <2>3. doms'.made \in doms.made..(doms.made + 1) /\ NewDom <= doms'.made
    <3>1. doms'.made = IF pool = <<>> THEN doms.made + 1 ELSE doms.made
      BY <1>0, <1>7 DEF Server!Render, RenderInv, RenderTyped
    <3>2. CASE pool = <<>>
      BY <1>0, <3>1, <3>2 DEF NewDom
    <3>3. CASE pool # <<>>
      <4>1. Len(pool) \in 1..Len(pool)
        BY <3>3 DEF RenderInv, RenderTyped
      <4>2. pool[Len(pool)] \in 1..doms.made
        BY <4>1 DEF RenderInv, DomsAccounted
      <4> QED BY <1>0, <3>1, <3>3, <4>2 DEF NewDom
    <3> QED BY <3>2, <3>3
  <2>4. Rendered' = Rendered \cup {r} /\ r \notin Rendered
    BY <2>1, <2>2 DEF Rendered
  <2>5. Cardinality(Rendered') = Cardinality(Rendered) + 1
    BY <1>0, <2>4, FS_AddElement
  <2>6. doms'.made <= Cardinality(Rendered')
    BY <1>0, <2>3, <2>5 DEF RenderBounded
  <2>7. ASSUME NEW q \in Requests PROVE work'[q].passes <= MaxPasses /\ work'[q].dom <= doms'.made
    <3>1. CASE q = r
      BY <2>2, <2>3, <3>1 DEF RenderBounded
    <3>2. CASE q # r
      BY <1>0, <1>1, <2>2, <2>3, <3>2 DEF RenderBounded
    <3> QED BY <3>1, <3>2
  <2> QED BY <2>6, <2>7 DEF RenderBounded
<1>8. ASSUME NEW r \in Requests, Server!Finish(r) PROVE RenderBounded'
  <2>1. doms'.made = doms.made
    BY <1>8, FinishDoms
  <2>2. Stays(r)
    BY <1>8, FinishWork DEF RenderInv, RenderBounded
  <2> QED BY <1>2, <2>1, <2>2
<1>9. ASSUME NEW r \in Requests, Server!Timeout(r) PROVE RenderBounded'
  <2>1. doms' = doms
    BY <1>9 DEF Server!Timeout
  <2>2. Stays(r)
    BY <1>9, TimeoutWork DEF RenderInv, RenderBounded
  <2> QED BY <1>2, <2>1, <2>2
<1>10. ASSUME NEW r \in Requests, Server!Ask(r) \/ Server!Pull(r) PROVE RenderBounded'
  BY <1>3, <1>4, <1>10, AskFacts DEF Server!RendersStay
<1>11. ASSUME NEW r \in Streams, Server!Abort(r) PROVE RenderBounded'
  BY <1>3, <1>11, AbortFacts DEF Server!RendersStay
<1>12. ASSUME NEW w \in Workers, Server!worker(w) PROVE RenderBounded'
  BY <1>3, <1>4, <1>12, WorkerFacts DEF Server!RendersStay
<1>13. ASSUME NEW w \in Workers, Server!PageEnds(w) PROVE RenderBounded'
  BY <1>3, <1>13, PageEndsFacts DEF Server!RendersStay
<1> HIDE DEF Stays
<1> QED BY <1>5, <1>6, <1>7, <1>8, <1>9, <1>10, <1>11, <1>12, <1>13 DEF Server!Next

RenderWhole == RenderInv /\ AnswersComing /\ PagesAccounted /\ RenderBounded

LEMMA RenderInit ==
  ASSUME RenderConstants, Server!Init
  PROVE  RenderWhole
<1>1. /\ als \in BOOLEAN /\ serving \in BOOLEAN /\ failOnError \in BOOLEAN
      /\ stack = <<>> /\ pool = <<>> /\ aborted = {} /\ result = [r \in Requests |-> "none"]
      /\ work = [r \in Requests |-> Server!NewWork] /\ doms = [made |-> 0, dirty |-> {}, closed |-> {}]
      /\ job = [w \in Workers |-> 0] /\ files = [rendered |-> {}, failed |-> {}]
  BY DEF Server!Init, Server!Idle
<1>2. Server!NewWork \in Works /\ Server!NewWork = [at |-> "idle", passes |-> 0, began |-> 0, dom |-> 0, ok |-> FALSE,
            settled |-> FALSE, late |-> FALSE, reads |-> {}]
  BY DEF Server!NewWork, Works
<1>3. RenderTyped
  BY <1>1, <1>2 DEF RenderTyped
<1>4. StagesInOrder /\ AnswersComing
  BY <1>1, <1>2 DEF StagesInOrder, AnswersComing
<1>5. \A r \in Requests : r \notin Server!UnderWay
  BY <1>1, <1>2 DEF Server!UnderWay
<1>6. Contexts
  BY <1>1, <1>2, <1>5, Counting DEF Contexts
<1>7. DomsAccounted
  BY <1>1, <1>2 DEF DomsAccounted, Keeps, RenderConstants
<1>8. PagesAccounted
  BY <1>1 DEF PagesAccounted, RenderConstants
<1>9. RenderBounded
  <2>1. Rendered = {}
    BY <1>1, <1>2 DEF Rendered
  <2> QED BY <1>1, <1>2, <2>1, FS_EmptySet DEF RenderBounded, RenderConstants
<1> QED BY <1>3, <1>4, <1>6, <1>7, <1>8, <1>9 DEF RenderWhole, RenderInv

\* Every step keeps the whole invariant.
LEMMA RenderNext ==
  ASSUME RenderConstants, RenderWhole, [Server!Next]_(Server!vars)
  PROVE  RenderWhole'
<1>1. CASE UNCHANGED Server!vars
  <2>1. UNCHANGED <<als, serving, failOnError, stack, work, result, aborted, pool, doms, job, files>>
    BY <1>1 DEF Server!vars
  <2>2. Server!Begun' = Server!Begun /\ Server!UnderWay' = Server!UnderWay
    BY <2>1 DEF Server!Begun, Server!UnderWay
  <2>3. RenderInv'
    BY <2>1, <2>2 DEF RenderWhole, RenderInv, RenderTyped, StagesInOrder, Contexts, DomsAccounted
  <2> QED BY <2>1, <2>3 DEF RenderWhole, AnswersComing, PagesAccounted, RenderBounded, Rendered
<1>2. CASE Server!Next
  <2>1. RenderInv'
    BY <1>2, EnterKeeps, NextPassKeeps, RenderKeeps, FinishKeeps, TimeoutKeeps, AskingKeeps DEF Server!Next, RenderWhole
  <2>2. AnswersComing' /\ PagesAccounted'
    BY <1>2, RendersAnswer, AskingAnswers, WorkersAnswer DEF Server!Next, RenderWhole
  <2>3. RenderBounded'
    BY <1>2, RenderStaysBounded DEF RenderWhole
  <2> QED BY <2>1, <2>2, <2>3 DEF RenderWhole
<1> QED BY <1>1, <1>2

LEMMA SeqInto ==
  ASSUME NEW S, NEW T, NEW q \in Seq(S), \A i \in 1..Len(q) : q[i] \in T
  PROVE  q \in Seq(T)
<1>1. q \in [1..Len(q) -> T] /\ Len(q) \in Nat
  OBVIOUS
<1> QED BY <1>1, SeqDef

\* The whole invariant contains the promises.
LEMMA RenderImplies ==
  ASSUME RenderConstants, RenderWhole
  PROVE  /\ Server!TypeOK /\ Server!RequestsAreIsolated /\ Server!DomsAreInOnePlace
         /\ Server!AnswersAreExpected /\ Server!EveryPageIsPutDown
<1>0. RenderTyped /\ StagesInOrder /\ Contexts /\ DomsAccounted
  BY DEF RenderWhole, RenderInv
<1>1. Server!TypeOK
  <2>1. \A S \in SUBSET Requests : Cardinality(S) <= Cardinality(Requests) /\ Cardinality(S) \in Nat
    BY FS_Subset, FS_CardinalityType DEF RenderConstants
  <2>2. Server!Begun \in SUBSET Requests /\ Rendered \in SUBSET Requests
    BY DEF Server!Begun, Rendered
  <2>3. Server!Cardinality(Requests) = Cardinality(Requests) /\ Cardinality(Requests) \in Nat
    BY <2>1, Counting
  <2>4. ASSUME NEW r \in Requests
        PROVE  work[r] \in [at : {"idle", "asked", "prepass", "rendered", "over"}, passes : 0..MaxPasses,
                            began : 0..Cardinality(Requests), dom : 0..Cardinality(Requests), ok : BOOLEAN,
                            settled : BOOLEAN, late : BOOLEAN, reads : SUBSET Requests]
    <3>1. work[r] \in Works /\ doms.made \in Nat /\ MaxPasses \in Nat
      BY <1>0 DEF RenderTyped, RenderConstants
    <3>2. work[r].began <= Cardinality(Server!Begun)
      BY <1>0 DEF Contexts
    <3>3. work[r].passes <= MaxPasses /\ work[r].dom <= doms.made /\ doms.made <= Cardinality(Rendered)
      BY DEF RenderWhole, RenderBounded
    <3>4. work[r].passes \in 0..MaxPasses /\ work[r].began \in 0..Cardinality(Requests) /\ work[r].dom \in 0..Cardinality(Requests)
      BY <2>1, <2>2, <3>1, <3>2, <3>3 DEF Works
    <3> QED BY <3>1, <3>4 DEF Works
  <2>5. work \in [Requests -> [at : {"idle", "asked", "prepass", "rendered", "over"}, passes : 0..MaxPasses,
                            began : 0..Cardinality(Requests), dom : 0..Cardinality(Requests), ok : BOOLEAN,
                            settled : BOOLEAN, late : BOOLEAN, reads : SUBSET Requests]]
    BY <1>0, <2>4 DEF RenderTyped
  <2>6. pool \in Seq(1..doms.made) /\ doms.dirty \cup doms.closed \subseteq 1..doms.made
    <3>1. pool \in Seq(Nat) /\ \A i \in 1..Len(pool) : pool[i] \in 1..doms.made
      BY <1>0 DEF RenderTyped, DomsAccounted
    <3>2. pool \in Seq(1..doms.made)
      BY <3>1, SeqInto
    <3> QED BY <1>0, <3>2 DEF DomsAccounted
  <2> QED BY <1>0, <2>3, <2>5, <2>6 DEF RenderTyped, Server!TypeOK, Server!Idle, Server!Ended, Server!Rejected
<1>2. Server!RequestsAreIsolated
  <2>1. \A r, s \in Requests : s \in work[r].reads => s = r \/ (~als /\ work[s].began > work[r].began)
    BY <1>0 DEF Contexts
  <2>2. Server!ToSet(stack) = {stack[i] : i \in 1..Len(stack)}
    BY <1>0 DEF Server!ToSet, RenderTyped
  <2>3. CASE als
    BY <1>0, <2>1, <2>2, <2>3 DEF Contexts, Server!RequestsAreIsolated
  <2>4. CASE ~als
    <3>1. \A r : r \in Server!UnderWay <=> r \in Requests /\ \E i \in 1..Len(stack) : stack[i] = r
      BY <1>0, <2>4, BegunFacts DEF Contexts
    <3>2. \A i \in 1..Len(stack) : stack[i] \in Requests
      BY <1>0 DEF RenderTyped
    <3>3. Server!ToSet(stack) = Server!UnderWay
      BY <2>2, <3>1, <3>2
    <3> QED BY <2>1, <2>4, <3>3 DEF Server!RequestsAreIsolated
  <2> QED BY <2>3, <2>4
<1>3. Server!DomsAreInOnePlace
  <2> DEFINE owners == {r \in Requests : work[r].at = "rendered" \/ (work[r].at = "over" /\ work[r].late)}
  <2>1. \A r : r \in owners <=> r \in Requests /\ Keeps(work[r])
    BY DEF Keeps
  <2>2. Server!ToSet(pool) = {pool[i] : i \in 1..Len(pool)} /\ DOMAIN pool = 1..Len(pool)
    BY <1>0 DEF Server!ToSet, RenderTyped
  <2>3. Server!IsInjective(pool) /\ Len(pool) <= MaxPool
    BY <1>0, <2>2 DEF DomsAccounted, Server!IsInjective
  <2>4. Server!ToSet(pool) \cap (doms.dirty \cup doms.closed) = {}
    BY <1>0, <2>2 DEF DomsAccounted
  <2>5. \A r, s \in owners : work[r].dom = work[s].dom => r = s
    BY <1>0, <2>1 DEF DomsAccounted
  <2>6. doms.dirty = {work[r].dom : r \in owners}
    <3> HIDE DEF owners
    <3>1. \A d : d \in doms.dirty <=> \E r \in owners : d = work[r].dom
      BY <1>0, <2>1 DEF DomsAccounted
    <3> QED BY <3>1
  <2>7. 1..doms.made = Server!ToSet(pool) \cup doms.dirty \cup doms.closed
    BY <1>0, <2>2 DEF DomsAccounted
  <2> QED BY <2>3, <2>4, <2>5, <2>6, <2>7 DEF Server!DomsAreInOnePlace
<1>4. Server!AnswersAreExpected
  <2>1. aborted \in SUBSET Requests
    BY <1>0 DEF RenderTyped, RenderConstants
  <2>2. \A r \in Requests : /\ work[r].at \in {"idle", "asked", "prepass", "rendered", "over"}
                            /\ result[r] \in {"none", "head"} => work[r].at = "idle"
    BY <1>0 DEF RenderTyped, StagesInOrder, Works
  <2> QED BY <2>1, <2>2 DEF RenderWhole, AnswersComing, Server!AnswersAreExpected
<1>5. Server!EveryPageIsPutDown
  <2>1. files.rendered \in SUBSET Requests /\ files.failed \in SUBSET Requests
    BY <1>0 DEF RenderTyped
  <2>2. files.rendered \cap files.failed = {}
    BY DEF RenderWhole, PagesAccounted
  <2>3. \A r \in files.rendered : work[r].ok /\ ~work[r].late
    BY <2>1 DEF RenderWhole, PagesAccounted, AnswersComing
  <2>4. ASSUME ~serving, Server!Settled, \A w \in Workers : job[w] # Server!Rejected
        PROVE  files.rendered \cup files.failed = Requests
    <3>1. \A w \in Workers : job[w] = -1
      BY <2>4 DEF Server!Settled, Server!Ended, Server!Rejected
    <3>2. \A r \in Requests : result[r] # "none"
      BY <3>1 DEF RenderWhole, PagesAccounted, RenderConstants
    <3>3. -1 \notin Requests
      BY DEF RenderConstants
    <3>4. \A r \in Requests : r \in files.rendered \/ r \in files.failed
      BY <2>4, <3>1, <3>2, <3>3 DEF RenderWhole, PagesAccounted
    <3> QED BY <2>1, <3>4
  <2> QED BY <2>2, <2>3, <2>4 DEF Server!EveryPageIsPutDown
<1> QED BY <1>1, <1>2, <1>3, <1>4, <1>5

\* A page is made of its own request's registries and state, in a DOM that nobody else uses, however
\* the renders overlap, time out and end; every DOM is with a render, idle in the pool or closed.
THEOREM RendersAreApart == RenderConstants => (Server!Spec => [](Server!RequestsAreIsolated /\ Server!DomsAreInOnePlace))
<1> SUFFICES ASSUME RenderConstants
             PROVE  Server!Spec => [](Server!RequestsAreIsolated /\ Server!DomsAreInOnePlace)
  OBVIOUS
<1>1. Server!Init => RenderWhole
  BY RenderInit
<1>2. RenderWhole /\ [Server!Next]_(Server!vars) => RenderWhole'
  BY RenderNext
<1>3. RenderWhole => Server!RequestsAreIsolated /\ Server!DomsAreInOnePlace
  BY RenderImplies
<1> QED BY <1>1, <1>2, <1>3, PTL DEF Server!Spec

\* Who waits for a page has a render under way, a settled render answers nobody a second time, and
\* prerender ends with every page rendered or counted as failed.
THEOREM AnswersComeOnce == RenderConstants => (Server!Spec => [](Server!AnswersAreExpected /\ Server!EveryPageIsPutDown))
<1> SUFFICES ASSUME RenderConstants
             PROVE  Server!Spec => [](Server!AnswersAreExpected /\ Server!EveryPageIsPutDown)
  OBVIOUS
<1>1. Server!Init => RenderWhole
  BY RenderInit
<1>2. RenderWhole /\ [Server!Next]_(Server!vars) => RenderWhole'
  BY RenderNext
<1>3. RenderWhole => Server!AnswersAreExpected /\ Server!EveryPageIsPutDown
  BY RenderImplies
<1> QED BY <1>1, <1>2, <1>3, PTL DEF Server!Spec
=============================================================================
