----------------------------- MODULE AuthProofs ------------------------------
(***************************************************************************)
(* Proofs about AuthSession: types, and what the session promises, for any *)
(* number of requests.                                                     *)
(***************************************************************************)
EXTENDS AuthSession, FiniteSetTheorems, TLAPS

\* Requests are told apart by their numbers.
IdsAreOwn ==
  /\ \A c \in calls : c.id <= made
  /\ \A c, d \in calls : c.id = d.id => c = d

\* A fetchUser that nothing has overtaken was made by a session with a token,
\* and the token is still there: what takes it away overtakes the request.
UsersHaveTokens == \A c \in calls : c.kind = "me" /\ ~c.overtaken => session.token # None

\* A refresh under way is the one that its callers share.
RefreshIsOwn == ~abandoned /\ ~disposed => \A c \in calls : c.kind = "refresh" => c.id = refreshing

IInv ==
  /\ TypeOK
  /\ IdsAreOwn
  /\ UsersHaveTokens
  /\ RefreshIsOwn
  /\ SessionIsWhole
  /\ LoadingIsBacked
  /\ RefreshIsComing
-----------------------------------------------------------------------------
(* What is under way. *)

LEMMA TokensAreNumbers ==
  /\ MaxCalls \in Nat /\ 1 \in 1..MaxCalls /\ 2 \in 1..MaxCalls /\ None \notin 1..MaxCalls
  /\ 0 \in Tokens /\ 0 # None /\ None \in Tokens /\ 1..MaxCalls \subseteq Tokens
  /\ Undefined \in Tokens /\ Undefined # None
BY AuthAssumption DEF AuthAssumption, Tokens, Undefined

\* Whoever has a token has one, if only the undefined one.
LEMMA TokenIsThere == HasToken => session.token # None
BY DEF HasToken

LEMMA NewCall ==
  ASSUME TypeOK, NEW kind \in Kinds, made < MaxCalls
  PROVE  /\ Call(made + 1, kind) \in Calls /\ made + 1 \in 1..MaxCalls
         /\ Call(made + 1, kind).id = made + 1 /\ Call(made + 1, kind).kind = kind
<1>1. made \in Nat /\ made + 1 \in 1..MaxCalls
  BY TokensAreNumbers DEF TypeOK
<1> QED BY <1>1 DEF Call, Calls

\* An overtaken call is one of those there were, with its number and kind.
LEMMA OvertakenCalls ==
  ASSUME NEW S \in SUBSET Calls
  PROVE  /\ Overtaken(S) \in SUBSET Calls
         /\ \A d \in Overtaken(S) : d.overtaken /\ \E c \in S : d.id = c.id /\ d.kind = c.kind
         /\ (\A c, d \in S : c.id = d.id => c = d) => \A c, d \in Overtaken(S) : c.id = d.id => c = d
<1>1. \A c \in S : /\ [c EXCEPT !.overtaken = TRUE] \in Calls
                   /\ [c EXCEPT !.overtaken = TRUE].overtaken
                   /\ [c EXCEPT !.overtaken = TRUE].id = c.id
                   /\ [c EXCEPT !.overtaken = TRUE].kind = c.kind
  BY DEF Calls
<1>2. \A d \in Overtaken(S) : \E c \in S : d = [c EXCEPT !.overtaken = TRUE]
  BY DEF Overtaken
<1>3. ASSUME NEW d \in Overtaken(S)
      PROVE  d \in Calls /\ d.overtaken /\ \E c \in S : d.id = c.id /\ d.kind = c.kind
  <2>1. PICK c \in S : d = [c EXCEPT !.overtaken = TRUE]
    BY <1>2
  <2> QED BY <1>1, <2>1
<1>4. ASSUME \A c, d \in S : c.id = d.id => c = d, NEW c \in Overtaken(S), NEW d \in Overtaken(S), c.id = d.id
      PROVE  c = d
  <2>1. PICK x \in S : c = [x EXCEPT !.overtaken = TRUE]
    BY <1>2
  <2>2. PICK y \in S : d = [y EXCEPT !.overtaken = TRUE]
    BY <1>2
  <2>3. x.id = y.id
    BY <1>1, <1>4, <2>1, <2>2
  <2> QED BY <1>4, <2>1, <2>2, <2>3
<1> QED BY <1>3, <1>4

\* What a step does to the requests: nothing, one more, one less, or those that
\* are left are overtaken.
KeepsToken == session.token # None => session'.token # None

AddsOne ==
  /\ made < MaxCalls /\ made' = made + 1 /\ KeepsToken
  /\ \E kind \in Kinds :
       /\ calls' = calls \cup {Call(made + 1, kind)}
       /\ kind = "me" => session.token # None
       /\ refreshing' = IF kind = "refresh" THEN made + 1 ELSE refreshing
       /\ kind = "refresh" => refreshing = 0

\* The requests under way without the one whose answer has come.
Ended(c, refreshingNow) == refreshingNow = IF c.kind = "refresh" THEN 0 ELSE refreshing

TakesOne ==
  /\ made' = made /\ KeepsToken
  /\ \E c \in calls : calls' = calls \ {c} /\ Ended(c, refreshing')

OvertakesThem ==
  /\ made' = made
  /\ \/ \E c \in calls : calls' = Overtaken(calls \ {c}) /\ Ended(c, refreshing')
     \/ /\ \E S \in SUBSET calls : calls' = Overtaken(S)
        /\ refreshing' = refreshing \/ (refreshing' = 0 /\ (disposed' \/ abandoned' \/ refreshing = 0))

LeavesCalls == calls' = calls /\ made' = made /\ refreshing' = refreshing /\ KeepsToken

Moves == AddsOne \/ TakesOne \/ OvertakesThem \/ LeavesCalls

LEMMA AsksAdds ==
  ASSUME TypeOK, NEW kind \in Kinds, Asks(kind), KeepsToken,
         kind = "me" => session.token # None,
         refreshing' = IF kind = "refresh" THEN made + 1 ELSE refreshing,
         kind = "refresh" => refreshing = 0
  PROVE  AddsOne
BY DEF Asks, AddsOne

LEMMA LoadingKeepsToken ==
  ASSUME TypeOK, NEW b \in BOOLEAN, session' = [session EXCEPT !.loading = b] \/ session' = session
  PROVE  KeepsToken
BY DEF TypeOK, KeepsToken

LEMMA LoggedOutMoves ==
  ASSUME TypeOK, NEW c \in calls, LoggedOut(calls \ {c}), Ended(c, refreshing'), made' = made
  PROVE  TakesOne \/ OvertakesThem
BY DEF LoggedOut, TakesOne, OvertakesThem, KeepsToken

LEMMA StepsMove ==
  ASSUME TypeOK, [Next]_vars
  PROVE  Moves /\ (abandoned => abandoned') /\ (disposed => disposed')
<1> USE DEF Moves
<1>1. CASE login
  BY <1>1, AsksAdds, LoadingKeepsToken DEF login, Asks, Kinds
<1>2. CASE fetchUser
  BY <1>2, AsksAdds, LoadingKeepsToken, TokenIsThere DEF fetchUser, Asks, Kinds
<1>3. CASE verifyMfa \/ SecureLogoutAsks
  <2>1. PICK kind \in {"mfa", "logout"} : Asks(kind)
    BY <1>3 DEF verifyMfa, SecureLogoutAsks
  <2>2. kind \in Kinds /\ kind # "me" /\ kind # "refresh" /\ session' = session /\ refreshing' = refreshing
    BY <1>3 DEF verifyMfa, SecureLogoutAsks, Kinds
  <2>3. AddsOne
    BY <2>1, <2>2, AsksAdds, LoadingKeepsToken
  <2> QED BY <1>3, <2>1, <2>3 DEF Asks, verifyMfa, SecureLogoutAsks
<1>4. CASE refresh
  BY <1>4, AsksAdds, LoadingKeepsToken DEF refresh, Asks, StartsRefresh, Kinds
<1>5. CASE logout
  BY <1>5 DEF logout, LoggedOut, OvertakesThem
<1>6. ASSUME NEW S \in SUBSET calls, Cleared(S)
      PROVE  Moves /\ (abandoned => abandoned') /\ (disposed => disposed')
  <2>1. refreshing = 0 \/ abandoned'
    BY <1>6 DEF Cleared
  <2>2. OvertakesThem
    BY <1>6, <2>1 DEF Cleared, OvertakesThem
  <2> QED BY <1>6, <2>2 DEF Cleared
<1>7. CASE dispose
  BY <1>7 DEF dispose, OvertakesThem
<1>8. CASE OtherTabLogsOut
  BY <1>8, LoadingKeepsToken DEF OtherTabLogsOut, LeavesCalls
<1>9. CASE NoticeArrives
  BY <1>9, LoadingKeepsToken DEF NoticeArrives, LeavesCalls, OvertakesThem
<1>10. CASE TimerFires
  <2>1. CASE StartsRefresh
    BY <1>10, <2>1, AsksAdds, LoadingKeepsToken DEF TimerFires, Asks, StartsRefresh, Kinds
  <2>2. CASE ~StartsRefresh
    BY <1>10, <2>2, LoadingKeepsToken DEF TimerFires, LeavesCalls
  <2> QED BY <2>1, <2>2
<1>11. CASE Connection
  BY <1>11, LoadingKeepsToken DEF Connection, LeavesCalls
<1>12. ASSUME NEW c \in calls, LoginAnswer(c) \/ UserAnswer(c) \/ RefreshAnswer(c) \/ MfaAnswer(c)
       PROVE  Moves /\ (abandoned => abandoned') /\ (disposed => disposed')
  <2>1. /\ Ended(c, refreshing') /\ made' = made /\ abandoned' = abandoned /\ disposed' = disposed
        /\ c \in Calls /\ c.id \in Tokens /\ c.id # None
    BY <1>12, TokensAreNumbers
       DEF LoginAnswer, UserAnswer, RefreshAnswer, MfaAnswer, Answered, Ended, TypeOK, Calls
  <2>2. CASE LoggedOut(calls \ {c})
    BY <2>1, <2>2, LoggedOutMoves
  <2>3. CASE ~LoggedOut(calls \ {c})
    <3>1. calls' = calls \ {c} /\ KeepsToken
      <4>1. CASE LoginAnswer(c)
        <5>1. CASE session' = [session EXCEPT !.loading = FALSE] /\ calls' = calls \ {c}
          BY <5>1, LoadingKeepsToken
        <5>2. CASE \E r, x \in BOOLEAN :
                     SignsIn(c, c.id, r, x, [token |-> c.id, refresh |-> r, expiry |-> x, authed |-> TRUE, loading |-> FALSE])
          BY <2>1, <5>2 DEF SignsIn, KeepsToken
        <5> QED BY <4>1, <5>1, <5>2 DEF LoginAnswer
      <4>2. CASE UserAnswer(c)
        BY <2>3, <4>2 DEF UserAnswer, TypeOK, KeepsToken
      <4>3. CASE RefreshAnswer(c)
        <5>1. ASSUME NEW token \in {c.id, Undefined}, NEW r \in BOOLEAN, NEW x \in BOOLEAN,
                     SignsIn(c, token, r, x, [session EXCEPT !.token = token, !.refresh = r, !.expiry = x, !.authed = TRUE])
              PROVE  calls' = calls \ {c} /\ KeepsToken
          <6>1. session'.token = token
            BY <5>1 DEF SignsIn, TypeOK
          <6> QED BY <2>1, <5>1, <6>1, TokensAreNumbers DEF SignsIn, KeepsToken
        <5>2. CASE calls' = calls \ {c} /\ session' = session
          BY <5>2 DEF KeepsToken
        <5>3. session.refresh \in BOOLEAN
          BY DEF TypeOK
        <5> QED BY <2>3, <4>3, <5>1, <5>2, <5>3 DEF RefreshAnswer
      <4>4. CASE MfaAnswer(c)
        BY <2>1, <4>4 DEF MfaAnswer, SignsIn, TypeOK, KeepsToken
      <4> QED BY <1>12, <4>1, <4>2, <4>3, <4>4
    <3> QED BY <2>1, <3>1 DEF TakesOne
  <2> QED BY <2>2, <2>3
<1>13. CASE UNCHANGED vars
  BY <1>13, LoadingKeepsToken DEF vars, LeavesCalls
<1> QED
  BY <1>1, <1>2, <1>3, <1>4, <1>5, <1>6, <1>7, <1>8, <1>9, <1>10, <1>11, <1>12, <1>13
     DEF Next, secureLogout, SecureLogoutEnds
-----------------------------------------------------------------------------
(* What every move preserves. *)

\* The requests there are after a step: those of before, perhaps overtaken, and
\* at most a new one.
LEMMA CallsAfter ==
  ASSUME TypeOK, IdsAreOwn, Moves
  PROVE  /\ calls' \subseteq Calls /\ made' \in 0..MaxCalls /\ refreshing' \in 0..MaxCalls
         /\ IdsAreOwn'
         /\ made' = made => \A d \in calls' : \E c \in calls : d.id = c.id /\ d.kind = c.kind
<1>0. made \in 0..MaxCalls /\ refreshing \in 0..MaxCalls /\ 0 \in 0..MaxCalls /\ calls \in SUBSET Calls
  BY TokensAreNumbers DEF TypeOK
<1>1. CASE AddsOne
  <2>1. PICK kind \in Kinds :
          /\ calls' = calls \cup {Call(made + 1, kind)}
          /\ refreshing' = IF kind = "refresh" THEN made + 1 ELSE refreshing
    BY <1>1 DEF AddsOne
  <2>2. made < MaxCalls /\ made' = made + 1
    BY <1>1 DEF AddsOne
  <2>3. /\ Call(made + 1, kind) \in Calls /\ made + 1 \in 1..MaxCalls
        /\ Call(made + 1, kind).id = made + 1
    BY <2>2, NewCall
  <2>4. \A c \in calls : c.id \in Nat /\ c.id <= made
    BY <1>0 DEF IdsAreOwn, Calls
  <2>5. made' # made /\ made + 1 \in 0..MaxCalls /\ made \in Nat
    BY <1>0, <2>2, <2>3
  <2>6. \A c \in calls' : c.id <= made'
    BY <2>1, <2>2, <2>3, <2>4, <2>5
  <2>7. \A c \in calls : c.id # made + 1
    BY <2>4, <2>5
  <2>8. \A c, d \in calls' : c.id = d.id => c = d
    BY <2>1, <2>3, <2>7 DEF IdsAreOwn
  <2> QED BY <1>0, <2>1, <2>2, <2>3, <2>5, <2>6, <2>8 DEF IdsAreOwn
<1>2. CASE TakesOne
  BY <1>0, <1>2 DEF TakesOne, Ended, IdsAreOwn
<1>3. CASE OvertakesThem
  <2>1. PICK S \in SUBSET calls : calls' = Overtaken(S)
    BY <1>3 DEF OvertakesThem
  <2>2. made' = made /\ refreshing' \in {0, refreshing}
    BY <1>3 DEF OvertakesThem, Ended
  <2>3. S \in SUBSET Calls /\ \A c, d \in S : c.id = d.id => c = d
    BY <1>0, <2>1 DEF IdsAreOwn
  <2>4. /\ Overtaken(S) \in SUBSET Calls
        /\ \A d \in Overtaken(S) : \E c \in S : d.id = c.id /\ d.kind = c.kind
        /\ \A c, d \in Overtaken(S) : c.id = d.id => c = d
    BY <2>3, OvertakenCalls
  <2>5. \A d \in calls' : d.id <= made'
    BY <2>1, <2>2, <2>4 DEF IdsAreOwn
  <2> QED BY <1>0, <2>1, <2>2, <2>4, <2>5 DEF IdsAreOwn
<1>4. CASE LeavesCalls
  BY <1>0, <1>4 DEF LeavesCalls, IdsAreOwn
<1> QED BY <1>1, <1>2, <1>3, <1>4 DEF Moves

LEMMA TokensStay ==
  ASSUME TypeOK, UsersHaveTokens, Moves
  PROVE  UsersHaveTokens'
<1>1. CASE AddsOne
  <2>1. PICK kind \in Kinds :
          calls' = calls \cup {Call(made + 1, kind)} /\ (kind = "me" => session.token # None)
    BY <1>1 DEF AddsOne
  <2>2. Call(made + 1, kind).kind = kind
    BY <1>1, NewCall DEF AddsOne
  <2> QED BY <1>1, <2>1, <2>2 DEF AddsOne, KeepsToken, UsersHaveTokens
<1>2. CASE TakesOne
  BY <1>2 DEF TakesOne, KeepsToken, UsersHaveTokens
<1>3. CASE OvertakesThem
  <2>1. PICK S \in SUBSET calls : calls' = Overtaken(S)
    BY <1>3 DEF OvertakesThem
  <2>2. S \in SUBSET Calls
    BY <2>1 DEF TypeOK
  <2> QED BY <2>1, <2>2, OvertakenCalls DEF UsersHaveTokens
<1>4. CASE LeavesCalls
  BY <1>4 DEF LeavesCalls, KeepsToken, UsersHaveTokens
<1> QED BY <1>1, <1>2, <1>3, <1>4 DEF Moves

LEMMA RefreshStays ==
  ASSUME TypeOK, IdsAreOwn, RefreshIsOwn, Moves, abandoned => abandoned', disposed => disposed'
  PROVE  RefreshIsOwn'
<1> SUFFICES ASSUME ~abandoned', ~disposed', NEW d \in calls', d.kind = "refresh"
             PROVE  d.id = refreshing'
  BY DEF RefreshIsOwn
<1>1. \A c \in calls : c.kind = "refresh" => c.id = refreshing
  BY DEF RefreshIsOwn
<1>2. \A c \in calls : c \in Calls /\ c.id # 0
  BY TokensAreNumbers DEF TypeOK, Calls
\* When the answer of a refresh has come, no other is under way.
<1>3. ASSUME NEW c \in calls, NEW e \in calls \ {c}, e.kind = "refresh", Ended(c, refreshing')
      PROVE  e.id = refreshing'
  <2>1. c.kind # "refresh"
    BY <1>1, <1>3 DEF IdsAreOwn
  <2> QED BY <1>1, <1>3, <2>1 DEF Ended
<1>4. CASE AddsOne
  <2>1. PICK kind \in Kinds :
          /\ calls' = calls \cup {Call(made + 1, kind)}
          /\ refreshing' = IF kind = "refresh" THEN made + 1 ELSE refreshing
          /\ kind = "refresh" => refreshing = 0
    BY <1>4 DEF AddsOne
  <2>2. Call(made + 1, kind).kind = kind /\ Call(made + 1, kind).id = made + 1
    BY <1>4, NewCall DEF AddsOne
  <2> QED BY <1>1, <1>2, <2>1, <2>2
<1>5. CASE TakesOne
  BY <1>3, <1>5 DEF TakesOne
<1>6. CASE OvertakesThem
  <2>1. CASE \E c \in calls : calls' = Overtaken(calls \ {c}) /\ Ended(c, refreshing')
    <3>1. PICK c \in calls : calls' = Overtaken(calls \ {c}) /\ Ended(c, refreshing')
      BY <2>1
    <3>2. calls \ {c} \in SUBSET Calls
      BY <1>2
    <3>3. PICK e \in calls \ {c} : d.id = e.id /\ d.kind = e.kind
      BY <3>1, <3>2, OvertakenCalls
    <3> QED BY <1>3, <3>1, <3>3
  <2>2. CASE (\E S \in SUBSET calls : calls' = Overtaken(S)) /\ (refreshing' = refreshing \/ refreshing = 0)
    <3>1. PICK S \in SUBSET calls : calls' = Overtaken(S)
      BY <2>2
    <3>2. S \in SUBSET Calls
      BY <1>2
    <3>3. PICK e \in S : d.id = e.id /\ d.kind = e.kind
      BY <3>1, <3>2, OvertakenCalls
    <3> QED BY <1>1, <1>2, <2>2, <3>3
  <2> QED BY <1>6, <2>1, <2>2 DEF OvertakesThem
<1>7. CASE LeavesCalls
  BY <1>1, <1>7 DEF LeavesCalls
<1> QED BY <1>4, <1>5, <1>6, <1>7 DEF Moves
-----------------------------------------------------------------------------
(* Types. *)

Sessions == [token : Tokens, refresh : BOOLEAN, expiry : BOOLEAN, authed : BOOLEAN, loading : BOOLEAN]
Saved == [token : Tokens, refresh : BOOLEAN, expiry : BOOLEAN]

LEMMA EmptySessions == SignedOut \in Sessions /\ Nothing \in Saved
BY TokensAreNumbers DEF SignedOut, Nothing, Sessions, Saved

LEMMA StoredIsSaved ==
  ASSUME TypeOK, NEW token \in Tokens, NEW r \in BOOLEAN, NEW x \in BOOLEAN
  PROVE  Stored(token, r, x) \in Saved
BY DEF TypeOK, Stored, Saved

LEMMA SessionChanges ==
  ASSUME TypeOK, NEW token \in Tokens, NEW a \in BOOLEAN, NEW b \in BOOLEAN
  PROVE  /\ [session EXCEPT !.loading = a] \in Sessions
         /\ [session EXCEPT !.authed = a, !.loading = b] \in Sessions
         /\ [session EXCEPT !.token = token, !.authed = TRUE] \in Sessions
         /\ [session EXCEPT !.token = token, !.refresh = a, !.expiry = b, !.authed = TRUE] \in Sessions
         /\ [token |-> token, refresh |-> a, expiry |-> b, authed |-> TRUE, loading |-> FALSE] \in Sessions
BY DEF TypeOK, Sessions

LEMMA SessionLoads == TypeOK => [session EXCEPT !.loading = TRUE] \in Sessions
BY DEF TypeOK, Sessions

LEMMA SchedulesFlags ==
  ASSUME TypeOK, NEW x \in BOOLEAN, Scheduled(x)
  PROVE  timer' \in BOOLEAN /\ deferred' \in BOOLEAN
BY DEF TypeOK, Scheduled

LEMMA LogoutTypes ==
  ASSUME TypeOK, NEW S, LoggedOut(S)
  PROVE  session' \in Sessions /\ stored' \in Saved /\ timer' \in BOOLEAN
BY EmptySessions DEF TypeOK, LoggedOut, Sessions, Saved

LEMMA AnswerTypes ==
  ASSUME TypeOK, NEW c \in calls, LoginAnswer(c) \/ UserAnswer(c) \/ RefreshAnswer(c) \/ MfaAnswer(c)
  PROVE  /\ session' \in Sessions /\ stored' \in Saved
         /\ {timer', deferred', revived', unattended'} \subseteq BOOLEAN
<1>1. /\ c.id \in Tokens /\ c.overtaken \in BOOLEAN /\ FALSE \in BOOLEAN /\ TRUE \in BOOLEAN
      /\ session \in Sessions /\ stored \in Saved /\ {timer, deferred, revived, unattended} \subseteq BOOLEAN
      /\ session.token \in Tokens /\ session.refresh \in BOOLEAN /\ Undefined \in Tokens
  BY TokensAreNumbers DEF TypeOK, Calls, Sessions, Saved
<1>2. ASSUME NEW token \in Tokens, NEW r \in BOOLEAN, NEW x \in BOOLEAN, NEW s \in Sessions, SignsIn(c, token, r, x, s)
      PROVE  session' \in Sessions /\ stored' \in Saved /\ revived' \in BOOLEAN
  BY <1>1, <1>2, StoredIsSaved DEF SignsIn
<1>3. CASE LoginAnswer(c)
  <2>1. CASE \E r, x \in BOOLEAN :
               /\ SignsIn(c, c.id, r, x, [token |-> c.id, refresh |-> r, expiry |-> x, authed |-> TRUE, loading |-> FALSE])
               /\ Scheduled(x)
    <3>1. PICK r \in BOOLEAN, x \in BOOLEAN :
            /\ SignsIn(c, c.id, r, x, [token |-> c.id, refresh |-> r, expiry |-> x, authed |-> TRUE, loading |-> FALSE])
            /\ Scheduled(x)
      BY <2>1
    <3>2. [token |-> c.id, refresh |-> r, expiry |-> x, authed |-> TRUE, loading |-> FALSE] \in Sessions
      BY <1>1, SessionChanges
    <3> QED BY <1>1, <1>2, <1>3, <3>1, <3>2, SchedulesFlags DEF LoginAnswer
  <2>2. CASE session' = [session EXCEPT !.loading = FALSE] /\ UNCHANGED <<stored, timer, deferred, revived>>
    BY <1>1, <1>3, <2>2, SessionChanges DEF LoginAnswer
  <2> QED BY <1>3, <2>1, <2>2 DEF LoginAnswer
<1>4. CASE UserAnswer(c)
  <2>1. CASE LoggedOut(calls \ {c}) /\ UNCHANGED revived
    BY <1>1, <1>4, <2>1, LogoutTypes DEF UserAnswer
  <2>2. CASE /\ session' \in {[session EXCEPT !.authed = TRUE, !.loading = FALSE], [session EXCEPT !.loading = FALSE]}
             /\ revived' \in {revived, revived \/ c.overtaken} /\ UNCHANGED <<stored, timer>>
    BY <1>1, <1>4, <2>2, SessionChanges DEF UserAnswer
  <2> QED BY <1>4, <2>1, <2>2 DEF UserAnswer
<1>5. CASE RefreshAnswer(c)
  <2>1. CASE \E token \in {c.id, Undefined}, new, x \in BOOLEAN :
          LET r == new \/ session.refresh
          IN /\ SignsIn(c, token, r, x, [session EXCEPT !.token = token, !.refresh = r, !.expiry = x, !.authed = TRUE])
             /\ Scheduled(x) /\ UNCHANGED unattended
    <3>1. PICK token \in Tokens, r \in BOOLEAN, x \in BOOLEAN :
            /\ SignsIn(c, token, r, x, [session EXCEPT !.token = token, !.refresh = r, !.expiry = x, !.authed = TRUE])
            /\ Scheduled(x) /\ UNCHANGED unattended
      BY <1>1, <2>1
    <3>2. [session EXCEPT !.token = token, !.refresh = r, !.expiry = x, !.authed = TRUE] \in Sessions
      BY <1>1, SessionChanges
    <3> QED BY <1>1, <1>2, <3>1, <3>2, SchedulesFlags
  <2>2. CASE LoggedOut(calls \ {c}) /\ UNCHANGED <<deferred, revived, unattended>>
    BY <1>1, <2>2, LogoutTypes
  <2>3. CASE unattended' = TRUE /\ UNCHANGED <<session, stored, timer, deferred, revived>>
    BY <1>1, <2>3
  <2> QED BY <1>5, <2>1, <2>2, <2>3 DEF RefreshAnswer
<1>6. CASE MfaAnswer(c)
  <2>1. CASE \E token \in {c.id, session.token} \ {None, Undefined}, r \in BOOLEAN :
               SignsIn(c, token, r, FALSE, [session EXCEPT !.token = token, !.authed = TRUE])
    <3>1. PICK token \in Tokens, r \in BOOLEAN :
            SignsIn(c, token, r, FALSE, [session EXCEPT !.token = token, !.authed = TRUE])
      BY <1>1, <2>1
    <3>2. [session EXCEPT !.token = token, !.authed = TRUE] \in Sessions
      BY <1>1, SessionChanges
    <3> QED BY <1>1, <1>2, <1>6, <3>1, <3>2 DEF MfaAnswer
  <2>2. CASE UNCHANGED <<session, stored, revived>>
    BY <1>1, <1>6, <2>2 DEF MfaAnswer
  <2> QED BY <1>6, <2>1, <2>2 DEF MfaAnswer
<1> QED BY <1>3, <1>4, <1>5, <1>6

\* Every step keeps the types of what the requests do not decide.
LEMMA StepTypes ==
  ASSUME TypeOK, [Next]_vars
  PROVE  /\ session' \in Sessions /\ stored' \in Saved
         /\ {timer', online', deferred', notice', disposed', revived', abandoned', unattended'} \subseteq BOOLEAN
<1>0. /\ session \in Sessions /\ stored \in Saved /\ FALSE \in BOOLEAN /\ TRUE \in BOOLEAN
      /\ {timer, online, deferred, notice, disposed, revived, abandoned, unattended} \subseteq BOOLEAN
  BY DEF TypeOK, Sessions, Saved
<1>1. CASE login
  BY <1>0, <1>1, SessionLoads DEF login, Asks
<1>2. CASE fetchUser
  BY <1>0, <1>2, SessionLoads DEF fetchUser, Asks
<1>3. CASE verifyMfa \/ SecureLogoutAsks
  BY <1>0, <1>3 DEF verifyMfa, SecureLogoutAsks, Asks
<1>4. CASE refresh
  BY <1>0, <1>4 DEF refresh, Asks
<1>5. CASE logout
  BY <1>0, <1>5, LogoutTypes DEF logout
<1>6. CASE \E S : Cleared(S)
  BY <1>0, <1>6, EmptySessions DEF Cleared
<1>7. CASE dispose
  BY <1>0, <1>7 DEF dispose
<1>8. CASE OtherTabLogsOut
  BY <1>0, <1>8, EmptySessions DEF OtherTabLogsOut
<1>9. CASE NoticeArrives
  <2>1. [stored EXCEPT !.token = None, !.refresh = FALSE] \in Saved
    BY <1>0, TokensAreNumbers DEF Saved
  <2> QED BY <1>0, <1>9, <2>1, EmptySessions DEF NoticeArrives
<1>10. CASE TimerFires
  BY <1>0, <1>10 DEF TimerFires, Asks
<1>11. CASE Connection
  BY <1>0, <1>11 DEF Connection
<1>12. ASSUME NEW c \in calls, LoginAnswer(c) \/ UserAnswer(c) \/ RefreshAnswer(c) \/ MfaAnswer(c)
       PROVE  /\ session' \in Sessions /\ stored' \in Saved
              /\ {timer', online', deferred', notice', disposed', revived', abandoned', unattended'} \subseteq BOOLEAN
  <2>1. UNCHANGED <<online, notice, disposed, abandoned>>
    BY <1>12 DEF LoginAnswer, UserAnswer, RefreshAnswer, MfaAnswer, Answered
  <2>2. session' \in Sessions /\ stored' \in Saved /\ {timer', deferred', revived', unattended'} \subseteq BOOLEAN
    BY <1>12, AnswerTypes
  <2> QED BY <1>0, <2>1, <2>2
<1>13. CASE UNCHANGED vars
  BY <1>0, <1>13 DEF vars
<1> QED
  BY <1>1, <1>2, <1>3, <1>4, <1>5, <1>6, <1>7, <1>8, <1>9, <1>10, <1>11, <1>12, <1>13
     DEF Next, secureLogout, SecureLogoutEnds

LEMMA TypesStay ==
  ASSUME TypeOK, IdsAreOwn, [Next]_vars
  PROVE  TypeOK'
<1>1. Moves
  BY StepsMove
<1>2. calls' \subseteq Calls /\ made' \in 0..MaxCalls /\ refreshing' \in 0..MaxCalls
  BY <1>1, CallsAfter
<1> QED BY <1>2, StepTypes DEF TypeOK, Sessions, Saved

-----------------------------------------------------------------------------
(* What the session promises. *)

\* The fields of the session that a step may have set.
LEMMA Fields ==
  ASSUME TypeOK, NEW token \in Tokens, NEW a \in BOOLEAN, NEW b \in BOOLEAN
  PROVE  /\ LET s == [session EXCEPT !.loading = a]
            IN s.token = session.token /\ s.refresh = session.refresh /\ s.expiry = session.expiry
               /\ s.authed = session.authed /\ s.loading = a
         /\ LET s == [session EXCEPT !.authed = a, !.loading = b]
            IN s.token = session.token /\ s.refresh = session.refresh /\ s.expiry = session.expiry
               /\ s.authed = a /\ s.loading = b
         /\ LET s == [session EXCEPT !.token = token, !.authed = TRUE]
            IN s.token = token /\ s.refresh = session.refresh /\ s.expiry = session.expiry
               /\ s.authed /\ s.loading = session.loading
         /\ LET s == [session EXCEPT !.token = token, !.refresh = a, !.expiry = b, !.authed = TRUE]
            IN s.token = token /\ s.refresh = a /\ s.expiry = b /\ s.authed /\ s.loading = session.loading
BY DEF TypeOK

LEMMA SignedOutFields ==
  /\ SignedOut.token = None /\ ~SignedOut.refresh /\ ~SignedOut.expiry /\ ~SignedOut.authed /\ ~SignedOut.loading
BY DEF SignedOut

LEMMA StoredToken == \A token, r, x : Stored(token, r, x).token = token
BY DEF Stored

\* An answer leaves the session whole.
LEMMA AnswersAreWhole ==
  ASSUME TypeOK, UsersHaveTokens, SessionIsWhole, NEW c \in calls,
         LoginAnswer(c) \/ UserAnswer(c) \/ RefreshAnswer(c) \/ MfaAnswer(c)
  PROVE  SessionIsWhole'
<1>1. /\ c.id \in Tokens /\ c.id # None /\ session.token \in Tokens /\ session.refresh \in BOOLEAN
      /\ FALSE \in BOOLEAN /\ TRUE \in BOOLEAN /\ UNCHANGED <<notice, disposed>>
      /\ Undefined \in Tokens /\ Undefined # None
  BY TokensAreNumbers DEF TypeOK, Calls, LoginAnswer, UserAnswer, RefreshAnswer, MfaAnswer, Answered
<1>2. ASSUME NEW token \in Tokens, token # None, NEW r, NEW x, NEW s, SignsIn(c, token, r, x, s), s.token = token
      PROVE  SessionIsWhole'
  <2>1. session'.token = token /\ stored'.token = token
    BY <1>2, StoredToken DEF SignsIn
  <2> QED BY <1>2, <2>1 DEF SessionIsWhole, HasToken
<1>3. CASE LoggedOut(calls \ {c}) /\ UNCHANGED revived
  BY <1>1, <1>3, SignedOutFields DEF LoggedOut, SessionIsWhole, HasToken
<1>4. CASE session' \in {session, [session EXCEPT !.loading = FALSE]} /\ UNCHANGED <<stored, revived>>
  <2>1. session'.token = session.token /\ session'.authed = session.authed
    BY <1>1, <1>4, Fields
  <2> QED BY <1>1, <1>4, <2>1 DEF SessionIsWhole, HasToken
<1>5. CASE UserAnswer(c) /\ revived' = (revived \/ c.overtaken) /\ stored' = stored
           /\ session' = [session EXCEPT !.authed = TRUE, !.loading = FALSE]
  <2>1. session'.token = session.token
    BY <1>1, <1>5, Fields
  <2>2. c.kind = "me"
    BY <1>5 DEF UserAnswer, Answered
  <2> QED BY <1>1, <1>5, <2>1, <2>2 DEF SessionIsWhole, UsersHaveTokens, HasToken
<1>6. CASE LoginAnswer(c)
  <2>1. ASSUME NEW r \in BOOLEAN, NEW x \in BOOLEAN,
               SignsIn(c, c.id, r, x, [token |-> c.id, refresh |-> r, expiry |-> x, authed |-> TRUE, loading |-> FALSE])
        PROVE  SessionIsWhole'
    <3>1. [token |-> c.id, refresh |-> r, expiry |-> x, authed |-> TRUE, loading |-> FALSE].token = c.id
      OBVIOUS
    <3> QED BY <1>1, <1>2, <2>1, <3>1
  <2> QED BY <1>4, <1>6, <2>1 DEF LoginAnswer
<1>7. CASE UserAnswer(c)
  BY <1>3, <1>4, <1>5, <1>7 DEF UserAnswer
<1>8. CASE RefreshAnswer(c)
  <2>1. ASSUME NEW token \in {c.id, Undefined}, NEW r \in BOOLEAN, NEW x \in BOOLEAN,
               SignsIn(c, token, r, x, [session EXCEPT !.token = token, !.refresh = r, !.expiry = x, !.authed = TRUE])
        PROVE  SessionIsWhole'
    <3>1. [session EXCEPT !.token = token, !.refresh = r, !.expiry = x, !.authed = TRUE].token = token
      BY <1>1, Fields
    <3> QED BY <1>1, <1>2, <2>1, <3>1
  <2> QED BY <1>1, <1>3, <1>4, <1>8, <2>1 DEF RefreshAnswer
<1>9. CASE MfaAnswer(c)
  <2>1. ASSUME NEW token \in {c.id, session.token} \ {None, Undefined}, NEW r \in BOOLEAN,
               SignsIn(c, token, r, FALSE, [session EXCEPT !.token = token, !.authed = TRUE])
        PROVE  SessionIsWhole'
    <3>1. token \in Tokens /\ token # None
      BY <1>1
    <3>2. [session EXCEPT !.token = token, !.authed = TRUE].token = token
      BY <1>1, <3>1, Fields
    <3> QED BY <1>2, <2>1, <3>1, <3>2
  <2> QED BY <1>4, <1>9, <2>1 DEF MfaAnswer
<1> QED BY <1>6, <1>7, <1>8, <1>9

\* What requests and timers start changes nothing but whether the session loads.
LEMMA StartsLeave ==
  ASSUME TypeOK, login \/ fetchUser \/ verifyMfa \/ SecureLogoutAsks \/ refresh \/ TimerFires
  PROVE  /\ session'.token = session.token /\ session'.refresh = session.refresh
         /\ session'.expiry = session.expiry /\ session'.authed = session.authed
         /\ session' = session \/ login \/ fetchUser
         /\ UNCHANGED <<stored, notice, disposed, revived, deferred>>
<1>1. CASE session' = [session EXCEPT !.loading = TRUE]
  BY <1>1, Fields, TokensAreNumbers DEF login, fetchUser, verifyMfa, SecureLogoutAsks, refresh, TimerFires, Asks
<1>2. CASE session' = session
  BY <1>2 DEF login, fetchUser, verifyMfa, SecureLogoutAsks, refresh, TimerFires, Asks
<1> QED BY <1>1, <1>2 DEF login, fetchUser, verifyMfa, SecureLogoutAsks, refresh, TimerFires

LEMMA WholeStays ==
  ASSUME TypeOK, UsersHaveTokens, SessionIsWhole, [Next]_vars
  PROVE  SessionIsWhole'
<1>1. CASE login \/ fetchUser \/ verifyMfa \/ SecureLogoutAsks \/ refresh \/ TimerFires
  BY <1>1, StartsLeave DEF SessionIsWhole, HasToken
<1>2. CASE logout
  BY <1>2, SignedOutFields DEF logout, LoggedOut, SessionIsWhole, HasToken
<1>3. CASE \E S : Cleared(S)
  BY <1>3, SignedOutFields DEF Cleared, SessionIsWhole, HasToken
<1>4. CASE dispose
  BY <1>4 DEF dispose, SessionIsWhole, HasToken
<1>5. CASE OtherTabLogsOut
  BY <1>5 DEF OtherTabLogsOut, SessionIsWhole, HasToken
<1>6. CASE NoticeArrives
  BY <1>6, SignedOutFields DEF NoticeArrives, SessionIsWhole, HasToken
<1>7. CASE Connection
  BY <1>7 DEF Connection, SessionIsWhole, HasToken
<1>8. CASE UNCHANGED vars
  BY <1>8 DEF vars, SessionIsWhole, HasToken
<1> QED BY <1>1, <1>2, <1>3, <1>4, <1>5, <1>6, <1>7, <1>8, AnswersAreWhole
     DEF Next, secureLogout, SecureLogoutEnds

LEMMA LoadingStays ==
  ASSUME TypeOK, LoadingIsBacked, [Next]_vars
  PROVE  LoadingIsBacked'
<1>1. CASE login \/ fetchUser
  <2>1. PICK kind \in {"login", "me"} : Asks(kind)
    BY <1>1 DEF login, fetchUser
  <2>2. Call(made + 1, kind) \in calls' /\ Call(made + 1, kind).kind = kind
    BY <2>1, NewCall DEF Asks, Kinds
  <2> QED BY <2>1, <2>2 DEF LoadingIsBacked
<1>2. CASE verifyMfa \/ SecureLogoutAsks \/ refresh \/ TimerFires
  <2>1. session' = session /\ disposed' = disposed /\ calls \subseteq calls'
    BY <1>2 DEF verifyMfa, SecureLogoutAsks, refresh, TimerFires, Asks
  <2> QED BY <2>1 DEF LoadingIsBacked
<1>3. CASE logout
  BY <1>3, SignedOutFields DEF logout, LoggedOut, LoadingIsBacked
<1>4. CASE \E S : Cleared(S)
  BY <1>4, SignedOutFields DEF Cleared, LoadingIsBacked
<1>5. CASE dispose
  BY <1>5 DEF dispose, LoadingIsBacked
<1>6. CASE OtherTabLogsOut
  BY <1>6 DEF OtherTabLogsOut, LoadingIsBacked
<1>7. CASE NoticeArrives
  BY <1>7, SignedOutFields DEF NoticeArrives, LoadingIsBacked
<1>8. CASE Connection
  BY <1>8 DEF Connection, LoadingIsBacked
<1>9. ASSUME NEW c \in calls, LoginAnswer(c) \/ UserAnswer(c) \/ RefreshAnswer(c) \/ MfaAnswer(c)
      PROVE  LoadingIsBacked'
  <2>1. /\ c.id \in Tokens /\ session.token \in Tokens /\ session.refresh \in BOOLEAN
        /\ FALSE \in BOOLEAN /\ TRUE \in BOOLEAN /\ disposed' = disposed /\ Undefined \in Tokens
    BY <1>9, TokensAreNumbers
       DEF TypeOK, Calls, LoginAnswer, UserAnswer, RefreshAnswer, MfaAnswer, Answered
  <2>2. CASE LoggedOut(calls \ {c})
    BY <2>1, <2>2, SignedOutFields DEF LoggedOut, LoadingIsBacked
  <2>3. CASE session'.loading = FALSE
    BY <2>3 DEF LoadingIsBacked
  <2>4. CASE session'.loading = session.loading /\ calls' = calls \ {c} /\ c.kind \in {"refresh", "mfa"}
    BY <2>1, <2>4 DEF LoadingIsBacked
  <2>5. CASE LoginAnswer(c)
    <3>1. [session EXCEPT !.loading = FALSE].loading = FALSE
      BY <2>1, Fields
    <3>2. \A r, x : [token |-> c.id, refresh |-> r, expiry |-> x, authed |-> TRUE, loading |-> FALSE].loading = FALSE
      OBVIOUS
    <3> QED BY <2>3, <2>5, <3>1, <3>2 DEF LoginAnswer, SignsIn
  <2>6. CASE UserAnswer(c)
    <3>1. /\ [session EXCEPT !.loading = FALSE].loading = FALSE
          /\ [session EXCEPT !.authed = TRUE, !.loading = FALSE].loading = FALSE
      BY <2>1, Fields
    <3> QED BY <2>2, <2>3, <2>6, <3>1 DEF UserAnswer
  <2>7. CASE RefreshAnswer(c)
    <3>1. c.kind = "refresh"
      BY <2>7 DEF RefreshAnswer, Answered
    <3>2. ASSUME NEW token \in {c.id, Undefined}, NEW r \in BOOLEAN, NEW x \in BOOLEAN,
                 SignsIn(c, token, r, x, [session EXCEPT !.token = token, !.refresh = r, !.expiry = x, !.authed = TRUE])
          PROVE  session'.loading = session.loading /\ calls' = calls \ {c}
      BY <2>1, <3>2, Fields DEF SignsIn
    <3> QED BY <2>1, <2>2, <2>4, <2>7, <3>1, <3>2 DEF RefreshAnswer
  <2>8. CASE MfaAnswer(c)
    <3>1. c.kind = "mfa"
      BY <2>8 DEF MfaAnswer, Answered
    <3>2. ASSUME NEW token \in {c.id, session.token} \ {None, Undefined}, NEW r \in BOOLEAN,
                 SignsIn(c, token, r, FALSE, [session EXCEPT !.token = token, !.authed = TRUE])
          PROVE  session'.loading = session.loading /\ calls' = calls \ {c}
      BY <2>1, <3>2, Fields DEF SignsIn
    <3> QED BY <2>4, <2>8, <3>1, <3>2 DEF MfaAnswer
  <2> QED BY <1>9, <2>5, <2>6, <2>7, <2>8
<1>10. CASE UNCHANGED vars
  BY <1>10 DEF vars, LoadingIsBacked
<1> QED BY <1>1, <1>2, <1>3, <1>4, <1>5, <1>6, <1>7, <1>8, <1>9, <1>10
     DEF Next, secureLogout, SecureLogoutEnds

LEMMA SchedulesSomething ==
  ASSUME TypeOK, Scheduled(TRUE), disposed' = disposed
  PROVE  disposed' \/ timer' \/ deferred'
BY DEF TypeOK, Scheduled

LEMMA RefreshComes ==
  ASSUME TypeOK, RefreshIsComing, [Next]_vars
  PROVE  RefreshIsComing'
<1>0. /\ made \in Nat /\ refreshing \in Nat /\ session.token \in Tokens
      /\ FALSE \in BOOLEAN /\ TRUE \in BOOLEAN /\ session.refresh \in BOOLEAN
  BY TokensAreNumbers DEF TypeOK
<1>1. CASE login \/ fetchUser \/ verifyMfa \/ SecureLogoutAsks
  <2>1. UNCHANGED <<timer, refreshing, unattended>>
    BY <1>1 DEF login, fetchUser, verifyMfa, SecureLogoutAsks
  <2> QED BY <1>1, <2>1, StartsLeave DEF RefreshIsComing
<1>2. CASE refresh
  <2>1. refreshing' # 0
    BY <1>0, <1>2 DEF refresh
  <2> QED BY <2>1 DEF RefreshIsComing
<1>3. CASE TimerFires
  <2>1. CASE StartsRefresh
    <3>1. refreshing' # 0
      BY <1>0, <1>3, <2>1 DEF TimerFires
    <3> QED BY <3>1 DEF RefreshIsComing
  <2>2. CASE ~StartsRefresh
    BY <1>3, <2>2 DEF TimerFires, StartsRefresh, RefreshIsComing
  <2> QED BY <2>1, <2>2
<1>4. CASE logout
  BY <1>4, SignedOutFields DEF logout, LoggedOut, RefreshIsComing
<1>5. CASE \E S : Cleared(S)
  BY <1>5, SignedOutFields DEF Cleared, RefreshIsComing
<1>6. CASE dispose
  BY <1>6 DEF dispose, RefreshIsComing
<1>7. CASE OtherTabLogsOut
  BY <1>7 DEF OtherTabLogsOut, RefreshIsComing
<1>8. CASE NoticeArrives
  BY <1>8, SignedOutFields DEF NoticeArrives, RefreshIsComing
<1>9. CASE Connection
  <2>1. CASE ~online /\ deferred
    BY <1>9, <2>1 DEF Connection, RefreshIsComing
  <2>2. CASE ~(~online /\ deferred)
    BY <1>9, <2>2 DEF Connection, RefreshIsComing
  <2> QED BY <2>1, <2>2
<1>10. ASSUME NEW c \in calls, LoginAnswer(c) \/ UserAnswer(c) \/ RefreshAnswer(c) \/ MfaAnswer(c)
       PROVE  RefreshIsComing'
  <2>1. c.id \in Tokens /\ Undefined \in Tokens /\ disposed' = disposed /\ Ended(c, refreshing')
    BY <1>10, TokensAreNumbers
       DEF TypeOK, Calls, LoginAnswer, UserAnswer, RefreshAnswer, MfaAnswer, Answered, Ended
  <2>2. CASE LoggedOut(calls \ {c})
    BY <2>1, <2>2, SignedOutFields DEF LoggedOut, RefreshIsComing
  \* The session may be refreshed as before, and what was coming still is.
  <2>3. CASE /\ session'.refresh = session.refresh /\ session'.expiry = session.expiry
             /\ refreshing' = refreshing /\ UNCHANGED <<timer, deferred, unattended>>
    BY <2>1, <2>3 DEF RefreshIsComing
  <2>4. ASSUME NEW x \in BOOLEAN, Scheduled(x), session'.expiry = x
        PROVE  RefreshIsComing'
    <3>1. CASE x
      <4>1. Scheduled(TRUE)
        BY <2>4, <3>1, Zenon
      <4> QED BY <2>1, <4>1, SchedulesSomething DEF RefreshIsComing
    <3>2. CASE ~x
      BY <2>4, <3>2 DEF RefreshIsComing
    <3> QED BY <3>1, <3>2
  <2>5. CASE LoginAnswer(c)
    <3>1. refreshing' = refreshing /\ unattended' = unattended
      BY <2>5 DEF LoginAnswer, Answered
    <3>2. ASSUME NEW r \in BOOLEAN, NEW x \in BOOLEAN, Scheduled(x),
                 SignsIn(c, c.id, r, x, [token |-> c.id, refresh |-> r, expiry |-> x, authed |-> TRUE, loading |-> FALSE])
          PROVE  RefreshIsComing'
      <4>1. session'.expiry = x
        BY <3>2 DEF SignsIn
      <4> QED BY <2>4, <3>2, <4>1
    <3>3. CASE session' = [session EXCEPT !.loading = FALSE] /\ UNCHANGED <<timer, deferred>>
      <4>1. session'.refresh = session.refresh /\ session'.expiry = session.expiry
        BY <1>0, <3>3, Fields
      <4> QED BY <2>3, <3>1, <3>3, <4>1
    <3> QED BY <2>5, <3>2, <3>3 DEF LoginAnswer
  <2>6. CASE UserAnswer(c)
    <3>1. refreshing' = refreshing /\ unattended' = unattended /\ deferred' = deferred
      BY <2>6 DEF UserAnswer, Answered
    <3>2. CASE session' \in {[session EXCEPT !.authed = TRUE, !.loading = FALSE], [session EXCEPT !.loading = FALSE]}
               /\ timer' = timer
      <4>1. session'.refresh = session.refresh /\ session'.expiry = session.expiry
        BY <1>0, <3>2, Fields
      <4> QED BY <2>3, <3>1, <3>2, <4>1
    <3> QED BY <2>2, <2>6, <3>2 DEF UserAnswer
  <2>7. CASE RefreshAnswer(c)
    <3>1. ASSUME NEW token \in {c.id, Undefined}, NEW r \in BOOLEAN, NEW x \in BOOLEAN, Scheduled(x),
                 SignsIn(c, token, r, x, [session EXCEPT !.token = token, !.refresh = r, !.expiry = x, !.authed = TRUE])
          PROVE  RefreshIsComing'
      <4>1. session'.expiry = x
        BY <2>1, <3>1, Fields DEF SignsIn
      <4> QED BY <2>4, <3>1, <4>1
    <3>2. CASE unattended' = TRUE
      BY <3>2 DEF RefreshIsComing
    <3> QED BY <1>0, <2>2, <2>7, <3>1, <3>2 DEF RefreshAnswer
  <2>8. CASE MfaAnswer(c)
    <3>1. refreshing' = refreshing /\ UNCHANGED <<timer, deferred, unattended>>
      BY <2>8 DEF MfaAnswer, Answered
    <3>2. ASSUME NEW token \in {c.id, session.token} \ {None, Undefined}, NEW r \in BOOLEAN,
                 SignsIn(c, token, r, FALSE, [session EXCEPT !.token = token, !.authed = TRUE])
          PROVE  session'.refresh = session.refresh /\ session'.expiry = session.expiry
      BY <1>0, <2>1, <3>2, Fields DEF SignsIn
    <3> QED BY <2>3, <2>8, <3>1, <3>2 DEF MfaAnswer
  <2> QED BY <1>10, <2>5, <2>6, <2>7, <2>8
<1>11. CASE UNCHANGED vars
  BY <1>11 DEF vars, RefreshIsComing
<1> QED BY <1>1, <1>2, <1>3, <1>4, <1>5, <1>6, <1>7, <1>8, <1>9, <1>10, <1>11
     DEF Next, secureLogout, SecureLogoutEnds

-----------------------------------------------------------------------------
(* The theorems. *)

LEMMA InitIsSound == Init => IInv
<1> SUFFICES ASSUME Init PROVE IInv
  OBVIOUS
<1>1. CASE stored = Nothing /\ session = SignedOut /\ timer = FALSE /\ calls = {} /\ made = 0 /\ refreshing = 0
  <2>1. session \in Sessions /\ stored \in Saved /\ 0 \in 0..MaxCalls
    BY <1>1, TokensAreNumbers, EmptySessions
  <2>2. {timer, online, deferred, notice, disposed, revived, abandoned, unattended} \subseteq BOOLEAN
    BY <1>1 DEF Init
  <2>3. TypeOK
    BY <1>1, <2>1, <2>2 DEF TypeOK, Sessions, Saved
  <2> QED
    BY <1>1, <2>3, SignedOutFields
       DEF Init, IInv, IdsAreOwn, UsersHaveTokens, RefreshIsOwn, SessionIsWhole, LoadingIsBacked, RefreshIsComing
<1>2. ASSUME NEW r \in BOOLEAN, NEW x \in BOOLEAN, NEW passed \in BOOLEAN, Restored(r, x, passed), x /\ passed => r
      PROVE  IInv
  <2> DEFINE kind == IF x /\ r THEN "refresh" ELSE "me"
  <2>1. /\ calls = {Call(1, kind), Call(2, "me")} /\ made = 2 /\ timer \in BOOLEAN
        /\ refreshing = IF x /\ r THEN 1 ELSE 0
        /\ stored = [token |-> 0, refresh |-> r, expiry |-> x]
        /\ session = [token |-> 0, refresh |-> r, expiry |-> x, authed |-> FALSE, loading |-> TRUE]
    BY <1>2 DEF Restored
  <2>2. kind \in Kinds /\ "me" \in Kinds
    BY DEF Kinds
  <2> HIDE DEF kind
  <2>3. /\ Call(1, kind) \in Calls /\ Call(1, kind).id = 1 /\ Call(1, kind).kind = kind
        /\ Call(2, "me") \in Calls /\ Call(2, "me").id = 2 /\ Call(2, "me").kind = "me"
    BY <2>2, TokensAreNumbers DEF Call, Calls
  <2>4. session \in Sessions /\ stored \in Saved
    BY <2>1, TokensAreNumbers DEF Sessions, Saved
  <2>5. calls \subseteq Calls /\ refreshing \in 0..MaxCalls /\ made \in 0..MaxCalls
    BY <2>1, <2>3, TokensAreNumbers, AuthAssumption DEF AuthAssumption
  <2>6. TypeOK
    BY <2>1, <2>4, <2>5 DEF Init, TypeOK, Sessions, Saved
  <2>7. IdsAreOwn
    BY <2>1, <2>3 DEF IdsAreOwn
  <2>8. session.token = 0 /\ session.refresh = r /\ session.expiry = x /\ ~session.authed /\ stored.token = 0
    BY <2>1
  <2>9. UsersHaveTokens /\ SessionIsWhole
    BY <2>8, TokensAreNumbers DEF UsersHaveTokens, SessionIsWhole, HasToken
  <2>10. RefreshIsOwn
    BY <2>1, <2>3 DEF RefreshIsOwn, kind
  <2>11. LoadingIsBacked
    BY <2>1, <2>3 DEF LoadingIsBacked
  <2>12. RefreshIsComing
    BY <2>1, <2>8 DEF RefreshIsComing
  <2> QED BY <2>6, <2>7, <2>9, <2>10, <2>11, <2>12 DEF IInv
<1> QED BY <1>1, <1>2 DEF Init

LEMMA StepIsSound == IInv /\ [Next]_vars => IInv'
<1> SUFFICES ASSUME IInv, [Next]_vars PROVE IInv'
  OBVIOUS
<1>1. /\ TypeOK /\ IdsAreOwn /\ UsersHaveTokens /\ RefreshIsOwn
      /\ SessionIsWhole /\ LoadingIsBacked /\ RefreshIsComing
  BY DEF IInv
<1>2. Moves /\ (abandoned => abandoned') /\ (disposed => disposed')
  BY <1>1, StepsMove
<1> QED
  BY <1>1, <1>2, TypesStay, CallsAfter, TokensStay, RefreshStays, WholeStays, LoadingStays, RefreshComes DEF IInv

LEMMA SoundFollows == IInv => SessionIsSound
<1> SUFFICES ASSUME IInv, ~abandoned, ~disposed
             PROVE  Cardinality({c \in calls : c.kind = "refresh"}) <= 1
  BY DEF IInv, SessionIsSound, OneRefresh
<1> DEFINE R == {c \in calls : c.kind = "refresh"}
<1>1. \A c, d \in R : c = d
  BY DEF IInv, RefreshIsOwn, IdsAreOwn
<1>2. CASE R = {}
  BY <1>2, FS_EmptySet
<1>3. CASE R # {}
  <2>1. PICK c \in R : R = {c}
    BY <1>1, <1>3
  <2>2. Cardinality({c}) = 1
    BY FS_Singleton
  <2> QED BY <2>1, <2>2
<1> QED BY <1>2, <1>3

\* Every variable of the session keeps its type.
THEOREM SessionTypes == Spec => []TypeOK
<1>1. IInv => TypeOK
  BY DEF IInv
<1> QED BY <1>1, InitIsSound, StepIsSound, PTL DEF Spec

\* Whatever answers of login, refresh, verifyMfa and fetchUser cross each other, a
\* logout, dispose or another tab: the session is whole, refreshed by one request at
\* a time and in time, and shows that it loads only while it does.  What is shown as signed
\* in has a token, the undefined one included that _doRefresh takes from an answer without.
THEOREM SessionStaysSound == Spec => []SessionIsSound
BY InitIsSound, StepIsSound, SoundFollows, PTL DEF Spec
=============================================================================
