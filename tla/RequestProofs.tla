---------------------------- MODULE RequestProofs ----------------------------
(***************************************************************************)
(* Proofs about packages whose requests overlap and must not be lost,      *)
(* repeated or let through: HttpRequests, and as instances SyncQueue       *)
(* (Queue), ComponentLoader (Loader), Navigation (Router), whose           *)
(* navigations wait for the answers of guards, DataHelpers (Fetch) and     *)
(* Outlet, which show only the newest of the answers they wait for,        *)
(* Settings (Chosen), whose overrides and locales cross, CacheStrategies   *)
(* (Strategy), whose versions overlap, Suspense (Fallback), which waits    *)
(* for the loads of others, and Forms (Form), which waits for checks.      *)
(***************************************************************************)
EXTENDS HttpRequests, SequenceTheorems, FiniteSetTheorems, WellFoundedInduction, TLAPS

-----------------------------------------------------------------------------
(* Requests of packages/http. *)

\* The parts of the type that the proofs need.
HttpTypes ==
  /\ phase \in [Requests -> {"idle", "intercepting"} \cup UnderWay \cup Ended]
  /\ attempt \in [Requests -> Nat]
  /\ DOMAIN pending = Keys
  /\ res \in [data : Refetches \cup {None}, loading : BOOLEAN]
  /\ \A r \in Requests : phase[r] = "idle" => attempt[r] = 0
  /\ \A r \in Requests : phase[r] = "intercepting" => attempt[r] >= 1

\* While interceptors run before an attempt, only the attempt before it may have
\* been aborted: it was waiting out the backoff then.
AbortedBefore ==
  \A r \in Requests : phase[r] = "intercepting" =>
    \A n \in 1..attempt[r] - 1 : <<r, n>> \in aborted => n = attempt[r] - 1

HttpInv == HttpTypes /\ RegistryNamesRunning /\ NoAttemptAfterAbort /\ AbortedBefore /\ LoadingIsBacked

\* What an outcome can be, and when an attempt goes on the network.
LEMMA OutcomeFacts ==
  ASSUME NEW r, NEW n
  PROVE  /\ Outcome(r, n) \in {"done", "aborted", "fetching"}
         /\ Outcome(r, n) = "fetching" => ~CallerHasAborted(r, n)
BY DEF Outcome

LEMMA SettledFacts ==
  ASSUME NEW r, NEW how, NEW signals \in [data : Refetches \cup {None}, loading : BOOLEAN]
  PROVE  /\ Settled(r, how, signals) \in [data : Refetches \cup {None}, loading : BOOLEAN]
         /\ r \in Refetches => ~Settled(r, how, signals).loading
         /\ r \notin Refetches => Settled(r, how, signals) = signals
BY DEF Settled

\* An attempt of r ends, or begins and perhaps ends at once: p is its phase then,
\* n the attempt, reg the registry.
Moves(r, p, n, reg) ==
  /\ phase' = [phase EXCEPT ![r] = p] /\ attempt' = [attempt EXCEPT ![r] = n] /\ pending' = reg

\* The parts of a move that every one keeps.
LEMMA MoveKeepsRegistry ==
  ASSUME HttpInv, NEW r \in Requests, NEW p, NEW n, NEW reg, Moves(r, p, n, reg),
         \/ reg = Unregister(r)
         \/ reg = pending /\ (phase[r] \in UnderWay => p \in UnderWay /\ n = attempt[r])
         \/ reg = [pending EXCEPT ![KeyOf[r]] = <<r, n>>] /\ p \in UnderWay
              /\ phase[r] \notin UnderWay
  PROVE  RegistryNamesRunning' /\ DOMAIN pending' = Keys
<1>1. /\ KeyOf[r] \in Keys /\ DOMAIN pending = Keys
      /\ phase' = [phase EXCEPT ![r] = p] /\ attempt' = [attempt EXCEPT ![r] = n]
      /\ DOMAIN phase = Requests /\ DOMAIN attempt = Requests
  BY DEF Keys, HttpInv, HttpTypes, Moves
<1>2. DOMAIN pending' = Keys
  BY <1>1 DEF Moves, Unregister
<1>3. ASSUME NEW k \in Keys, pending'[k] # None
      PROVE  \E q \in Requests : KeyOf[q] = k /\ pending'[k] = <<q, attempt'[q]>> /\ phase'[q] \in UnderWay
  <2>1. ASSUME k # KeyOf[r], pending'[k] = pending[k]
        PROVE  \E q \in Requests : KeyOf[q] = k /\ pending'[k] = <<q, attempt'[q]>> /\ phase'[q] \in UnderWay
    <3>1. PICK q \in Requests : KeyOf[q] = k /\ pending[k] = <<q, attempt[q]>> /\ phase[q] \in UnderWay
      BY <1>3, <2>1 DEF HttpInv, RegistryNamesRunning, Controller
    <3>2. q # r
      BY <2>1, <3>1
    <3>3. attempt'[q] = attempt[q] /\ phase'[q] = phase[q]
      BY <1>1, <3>2
    <3> QED BY <2>1, <3>1, <3>3
  <2>2. CASE reg = Unregister(r)
    <3>1. k # KeyOf[r] /\ pending'[k] = pending[k]
      BY <1>1, <1>3, <2>2 DEF Moves, Unregister
    <3> QED BY <2>1, <3>1
  <2>3. CASE reg = pending /\ (phase[r] \in UnderWay => p \in UnderWay /\ n = attempt[r])
    <3>1. pending' = pending
      BY <2>3 DEF Moves
    <3>2. PICK q \in Requests : KeyOf[q] = k /\ pending[k] = <<q, attempt[q]>> /\ phase[q] \in UnderWay
      BY <1>3, <3>1 DEF HttpInv, RegistryNamesRunning, Controller
    <3>3. attempt'[q] = attempt[q] /\ phase'[q] \in UnderWay
      BY <1>1, <2>3, <3>2
    <3> QED BY <3>1, <3>2, <3>3
  <2>4. CASE /\ reg = [pending EXCEPT ![KeyOf[r]] = <<r, n>>] /\ p \in UnderWay
             /\ phase[r] \notin UnderWay
    <3>1. CASE k = KeyOf[r]
      BY <1>1, <2>4, <3>1 DEF Moves
    <3>2. CASE k # KeyOf[r]
      BY <1>1, <2>1, <2>4, <3>2 DEF Moves
    <3> QED BY <3>1, <3>2
  <2> QED BY <2>2, <2>3, <2>4
<1> QED BY <1>2, <1>3 DEF RegistryNamesRunning, Controller

\* How an attempt may begin and end.
MayMove(r, p, n) ==
  /\ p \in {"intercepting"} \cup UnderWay \cup Ended
  /\ \/ phase[r] = "idle" /\ n = 1 /\ p # "backoff"
     \/ phase[r] = "intercepting" /\ n = attempt[r] /\ p \in {"fetching"} \cup Ended
     \/ phase[r] = "fetching" /\ n = attempt[r] /\ p \in {"backoff"} \cup Ended
     \/ phase[r] = "backoff" /\ n = attempt[r] + 1 /\ p # "backoff"
  /\ p = "fetching" => ~CallerHasAborted(r, n)

LEMMA MoveKeepsAborted ==
  ASSUME HttpInv, NEW r \in Requests, NEW p, NEW n, NEW reg, Moves(r, p, n, reg),
         MayMove(r, p, n), aborted' = aborted
  PROVE  /\ phase' \in [Requests -> {"idle", "intercepting"} \cup UnderWay \cup Ended]
         /\ attempt' \in [Requests -> Nat]
         /\ \A q \in Requests : phase'[q] = "idle" => attempt'[q] = 0
         /\ \A q \in Requests : phase'[q] = "intercepting" => attempt'[q] >= 1
         /\ NoAttemptAfterAbort' /\ AbortedBefore'
<1>1. /\ phase' = [phase EXCEPT ![r] = p] /\ attempt' = [attempt EXCEPT ![r] = n]
      /\ phase \in [Requests -> {"idle", "intercepting"} \cup UnderWay \cup Ended]
      /\ attempt \in [Requests -> Nat]
      /\ \A q \in Requests : phase[q] = "idle" => attempt[q] = 0
      /\ \A q \in Requests : phase[q] = "intercepting" => attempt[q] >= 1
  BY DEF HttpInv, HttpTypes, Moves
<1>2. n \in Nat /\ (n >= 1 \/ p \in Ended \cup {"backoff"})
  BY <1>1 DEF MayMove, UnderWay, Ended
<1>3. p # "idle" /\ (p = "intercepting" => n >= 1)
  BY <1>1, <1>2 DEF MayMove, UnderWay, Ended
<1>4. /\ phase' \in [Requests -> {"idle", "intercepting"} \cup UnderWay \cup Ended]
      /\ attempt' \in [Requests -> Nat]
      /\ \A q \in Requests : phase'[q] = "idle" => attempt'[q] = 0
      /\ \A q \in Requests : phase'[q] = "intercepting" => attempt'[q] >= 1
  BY <1>1, <1>2, <1>3 DEF MayMove
<1>5. ASSUME p \in UnderWay PROVE \A m \in 1..n - 1 : <<r, m>> \notin aborted
  <2>1. ASSUME phase[r] \in UnderWay PROVE \A m \in 1..attempt[r] - 1 : <<r, m>> \notin aborted
    BY <2>1 DEF HttpInv, NoAttemptAfterAbort
  <2>2. ASSUME phase[r] = "intercepting"
        PROVE  \A m \in 1..attempt[r] - 1 : <<r, m>> \in aborted => m = attempt[r] - 1
    BY <2>2 DEF HttpInv, AbortedBefore
  <2>3. ASSUME p = "fetching", n # 1 PROVE <<r, n - 1>> \notin aborted
    BY <2>3 DEF MayMove, CallerHasAborted
  <2>4. CASE phase[r] = "idle"
    BY <2>4 DEF MayMove
  <2>5. CASE phase[r] = "intercepting"
    BY <1>1, <1>5, <2>2, <2>3, <2>5 DEF MayMove, UnderWay, Ended
  <2>6. CASE phase[r] = "fetching"
    BY <1>5, <2>1, <2>6 DEF MayMove, UnderWay, Ended
  <2>7. CASE phase[r] = "backoff"
    <3>1. p = "fetching" /\ n = attempt[r] + 1
      BY <1>5, <2>7 DEF MayMove, UnderWay, Ended
    <3>2. \A m \in 1..attempt[r] - 1 : <<r, m>> \notin aborted
      BY <2>1, <2>7 DEF UnderWay
    <3>3. \A m \in 1..n - 1 : m \in 1..attempt[r] - 1 \/ (m = n - 1 /\ n # 1)
      BY <1>1, <3>1
    <3> QED BY <2>3, <3>1, <3>2, <3>3
  <2> QED BY <2>4, <2>5, <2>6, <2>7 DEF MayMove
<1>6. NoAttemptAfterAbort'
  BY <1>1, <1>5 DEF NoAttemptAfterAbort, HttpInv
<1>7. ASSUME p = "intercepting" PROVE \A m \in 1..n - 1 : <<r, m>> \in aborted => m = n - 1
  <2>1. CASE phase[r] = "idle"
    BY <1>7, <2>1 DEF MayMove
  <2>2. CASE phase[r] = "backoff"
    <3>1. n = attempt[r] + 1
      BY <2>2 DEF MayMove
    <3>2. \A m \in 1..attempt[r] - 1 : <<r, m>> \notin aborted
      BY <2>2 DEF HttpInv, NoAttemptAfterAbort, UnderWay
    <3> QED BY <1>1, <3>1, <3>2
  <2> QED BY <1>7, <2>1, <2>2 DEF MayMove, UnderWay, Ended
<1>8. AbortedBefore'
  BY <1>1, <1>7 DEF AbortedBefore, HttpInv
<1> QED BY <1>4, <1>6, <1>8

LEMMA MoveKeeps ==
  ASSUME HttpInv, NEW r \in Requests, NEW p, NEW n, NEW reg, Moves(r, p, n, reg), MayMove(r, p, n),
         \/ reg = Unregister(r)
         \/ reg = pending /\ (phase[r] \in UnderWay => p \in UnderWay /\ n = attempt[r])
         \/ reg = [pending EXCEPT ![KeyOf[r]] = <<r, n>>] /\ p \in UnderWay
              /\ phase[r] \notin UnderWay,
         aborted' = aborted, res' \in [data : Refetches \cup {None}, loading : BOOLEAN],
         IF r \in Refetches THEN p \notin Ended \/ ~res'.loading ELSE res' = res
  PROVE  HttpInv'
<1>1. RegistryNamesRunning' /\ DOMAIN pending' = Keys
  BY MoveKeepsRegistry
<1>2. /\ phase' \in [Requests -> {"idle", "intercepting"} \cup UnderWay \cup Ended]
      /\ attempt' \in [Requests -> Nat]
      /\ \A q \in Requests : phase'[q] = "idle" => attempt'[q] = 0
      /\ \A q \in Requests : phase'[q] = "intercepting" => attempt'[q] >= 1
      /\ NoAttemptAfterAbort' /\ AbortedBefore'
  BY MoveKeepsAborted
<1>3. LoadingIsBacked'
  <2>1. phase' = [phase EXCEPT ![r] = p] /\ DOMAIN phase = Requests /\ p # "idle"
    BY DEF Moves, MayMove, UnderWay, Ended, HttpInv, HttpTypes
  <2>2. CASE r \in Refetches
    BY <2>1, <2>2 DEF LoadingIsBacked
  <2>3. CASE r \notin Refetches
    BY <2>1, <2>3 DEF LoadingIsBacked, HttpInv
  <2> QED BY <2>2, <2>3
<1>4. HttpTypes'
  BY <1>1, <1>2 DEF HttpTypes
<1> QED BY <1>1, <1>2, <1>3, <1>4 DEF HttpInv

\* Only attempts that are under way are aborted.
LEMMA AbortKeeps ==
  ASSUME HttpInv, NEW cs, aborted' = aborted \cup cs,
         \A c \in cs : \E q \in Requests : c = <<q, attempt[q]>> /\ phase[q] \in UnderWay,
         pending' = pending \/ pending' = [k \in Keys |-> None],
         UNCHANGED <<phase, attempt, res>>
  PROVE  HttpInv'
<1>1. HttpTypes' /\ RegistryNamesRunning' /\ LoadingIsBacked'
  BY DEF HttpInv, HttpTypes, RegistryNamesRunning, LoadingIsBacked, Controller
<1>2. ASSUME NEW r \in Requests, NEW n \in 1..attempt[r] - 1, <<r, n>> \in cs PROVE FALSE
  <2>1. attempt[r] \in Nat
    BY DEF HttpInv, HttpTypes
  <2> QED BY <1>2, <2>1
<1>3. NoAttemptAfterAbort' /\ AbortedBefore'
  BY <1>2 DEF HttpInv, NoAttemptAfterAbort, AbortedBefore
<1> QED BY <1>1, <1>3 DEF HttpInv

LEMMA HttpNext ==
  ASSUME HttpInv, [Next]_vars
  PROVE  HttpInv'
<1>0. \A k \in Keys : pending[k] # None =>
        \E q \in Requests : pending[k] = <<q, attempt[q]>> /\ phase[q] \in UnderWay
  BY DEF HttpInv, RegistryNamesRunning, Controller
<1>1. /\ res \in [data : Refetches \cup {None}, loading : BOOLEAN]
      /\ \A r \in Requests : attempt[r] \in Nat
  BY DEF HttpInv, HttpTypes
\* An attempt that begins, behind the interceptors or without them.
<1>2. ASSUME NEW r \in Requests, NEW n, NEW signals \in [data : Refetches \cup {None}, loading : BOOLEAN],
             Intercept(r, n, signals), \/ phase[r] = "idle" /\ n = 1
                                       \/ phase[r] = "backoff" /\ n = attempt[r] + 1,
             pending' = Unregister(r) \/ (pending' = pending /\ phase[r] = "idle"),
             aborted' = aborted, r \notin Refetches => signals = res
      PROVE  HttpInv'
  <2>1. Moves(r, "intercepting", n, pending') /\ res' = signals
    BY <1>2 DEF Intercept, Moves
  <2>2. MayMove(r, "intercepting", n)
    BY <1>2 DEF MayMove
  <2>3. "intercepting" \notin Ended /\ "idle" \notin UnderWay
    BY DEF Ended, UnderWay
  <2> QED BY <1>2, <2>1, <2>2, <2>3, MoveKeeps
<1>3. ASSUME NEW r \in Requests, NEW n, NEW signals \in [data : Refetches \cup {None}, loading : BOOLEAN],
             Proceed(r, n, signals), \/ phase[r] = "idle" /\ n = 1
                                     \/ phase[r] = "intercepting" /\ n = attempt[r]
                                     \/ phase[r] = "backoff" /\ n = attempt[r] + 1,
             pending' = Unregister(r) \/ (pending' = Register(r, n) /\ phase[r] # "backoff"),
             aborted' = aborted, r \notin Refetches => signals = res
      PROVE  HttpInv'
  <2> DEFINE p == Outcome(r, n)
  <2>1. p \in {"done", "aborted", "fetching"} /\ (p = "fetching" => ~CallerHasAborted(r, n))
    BY OutcomeFacts
  <2>2. /\ Moves(r, p, n, pending')
        /\ res' = IF p = "fetching" THEN signals ELSE Settled(r, p, signals)
    BY <1>3 DEF Proceed, Moves
  <2>3. /\ Settled(r, p, signals) \in [data : Refetches \cup {None}, loading : BOOLEAN]
        /\ r \in Refetches => ~Settled(r, p, signals).loading
        /\ r \notin Refetches => Settled(r, p, signals) = signals
    BY <1>3, SettledFacts
  <2>4. \/ pending' = Unregister(r)
        \/ pending' = pending /\ phase[r] \notin UnderWay
        \/ pending' = [pending EXCEPT ![KeyOf[r]] = <<r, n>>] /\ p = "fetching" /\ phase[r] \notin UnderWay
    BY <1>3 DEF Register, UnderWay
  <2> HIDE DEF p
  <2>5. MayMove(r, p, n)
    BY <1>3, <2>1 DEF MayMove, UnderWay, Ended
  <2>6. /\ res' \in [data : Refetches \cup {None}, loading : BOOLEAN]
        /\ IF r \in Refetches THEN p \notin Ended \/ ~res'.loading ELSE res' = res
    BY <1>3, <2>1, <2>2, <2>3 DEF Ended
  <2>7. p = "fetching" => p \in UnderWay
    BY DEF UnderWay
  <2> QED BY <1>3, <2>2, <2>4, <2>5, <2>6, <2>7, MoveKeeps
<1>4. ASSUME NEW r \in Requests, NEW how \in Ended, Finish(r, how), phase[r] = "fetching"
      PROVE  HttpInv'
  <2>1. Moves(r, how, attempt[r], Unregister(r)) /\ res' = Settled(r, how, res) /\ aborted' = aborted
    <3>1. attempt = [attempt EXCEPT ![r] = attempt[r]]
      BY DEF HttpInv, HttpTypes
    <3> QED BY <1>4, <3>1 DEF Finish, Moves
  <2>2. MayMove(r, how, attempt[r])
    BY <1>4 DEF MayMove, Ended, UnderWay
  <2>3. /\ res' \in [data : Refetches \cup {None}, loading : BOOLEAN]
        /\ IF r \in Refetches THEN how \notin Ended \/ ~res'.loading ELSE res' = res
    BY <1>1, <2>1, SettledFacts
  <2> QED BY <2>1, <2>2, <2>3, MoveKeeps
<1>5. ASSUME NEW r \in Requests, Send(r) PROVE HttpInv'
  <2> DEFINE signals == IF r \in Refetches THEN [res EXCEPT !.loading = TRUE] ELSE res
  <2>1. signals \in [data : Refetches \cup {None}, loading : BOOLEAN] /\ (r \notin Refetches => signals = res)
    BY <1>1
  <2>2. phase[r] = "idle" /\ aborted' = aborted
    BY <1>5 DEF Send
  <2>3. \/ Intercept(r, 1, signals) /\ pending' = pending
        \/ Proceed(r, 1, signals) /\ pending' = Register(r, 1)
    BY <1>5 DEF Send
  <2> HIDE DEF signals
  <2> QED BY <1>2, <1>3, <2>1, <2>2, <2>3
<1>6. ASSUME NEW r \in Requests, InterceptorsEnd(r) PROVE HttpInv'
  BY <1>1, <1>3, <1>6 DEF InterceptorsEnd
<1>16. ASSUME NEW r \in Requests, InterceptorFails(r) PROVE HttpInv'
  <2>1. /\ Moves(r, "failed", attempt[r], pending) /\ phase[r] = "intercepting"
        /\ res' = Settled(r, "failed", res) /\ aborted' = aborted
    <3>1. attempt = [attempt EXCEPT ![r] = attempt[r]]
      BY DEF HttpInv, HttpTypes
    <3> QED BY <1>16, <3>1 DEF InterceptorFails, Moves
  <2>2. MayMove(r, "failed", attempt[r]) /\ "failed" \in Ended /\ "intercepting" \notin UnderWay
    BY <2>1 DEF MayMove, UnderWay, Ended
  <2>3. /\ res' \in [data : Refetches \cup {None}, loading : BOOLEAN]
        /\ IF r \in Refetches THEN "failed" \notin Ended \/ ~res'.loading ELSE res' = res
    BY <1>1, <2>1, <2>2, SettledFacts
  <2> QED BY <2>1, <2>2, <2>3, MoveKeeps
<1>7. ASSUME NEW r \in Requests, Succeed(r) PROVE HttpInv'
  BY <1>4, <1>7 DEF Succeed, Ended
<1>8. ASSUME NEW r \in Requests, FailAborted(r) PROVE HttpInv'
  BY <1>4, <1>8 DEF FailAborted, Ended
<1>9. ASSUME NEW r \in Requests, Fail(r) PROVE HttpInv'
  <2>1. CASE Finish(r, "failed")
    BY <1>4, <1>9, <2>1 DEF Fail, Ended
  <2>2. CASE phase' = [phase EXCEPT ![r] = "backoff"] /\ UNCHANGED <<attempt, pending, aborted, callerAborted, res>>
    <3>1. Moves(r, "backoff", attempt[r], pending) /\ phase[r] = "fetching"
      <4>1. attempt = [attempt EXCEPT ![r] = attempt[r]]
        BY DEF HttpInv, HttpTypes
      <4> QED BY <1>9, <2>2, <4>1 DEF Fail, Moves
    <3>2. MayMove(r, "backoff", attempt[r]) /\ "backoff" \in UnderWay /\ "backoff" \notin Ended
      BY <3>1 DEF MayMove, UnderWay, Ended
    <3> QED BY <1>1, <2>2, <3>1, <3>2, MoveKeeps
  <2> QED BY <1>9, <2>1, <2>2 DEF Fail
<1>10. ASSUME NEW r \in Requests, Retry(r) PROVE HttpInv'
  BY <1>1, <1>2, <1>3, <1>10 DEF Retry
<1>11. ASSUME NEW r \in Requests, TimeOut(r) PROVE HttpInv'
  <2> DEFINE cs == {<<r, attempt[r]>>}
  <2>1. aborted' = aborted \cup cs /\ pending' = pending /\ UNCHANGED <<phase, attempt, res>>
    BY <1>11 DEF TimeOut, Abort, Controller
  <2>2. \A c \in cs : \E q \in Requests : c = <<q, attempt[q]>> /\ phase[q] \in UnderWay
    BY <1>11 DEF TimeOut
  <2> HIDE DEF cs
  <2> QED BY <2>1, <2>2, AbortKeeps
<1>12. ASSUME NEW r \in Requests, CallerAborts(r) PROVE HttpInv'
  <2> DEFINE cs == IF phase[r] \in UnderWay /\ attempt[r] = 1 THEN {<<r, 1>>} ELSE {}
  <2>1. aborted' = aborted \cup cs /\ pending' = pending /\ UNCHANGED <<phase, attempt, res>>
    BY <1>12 DEF CallerAborts
  <2>2. \A c \in cs : \E q \in Requests : c = <<q, attempt[q]>> /\ phase[q] \in UnderWay
    OBVIOUS
  <2> HIDE DEF cs
  <2> QED BY <2>1, <2>2, AbortKeeps
<1>13. ASSUME NEW k \in Keys, cancelRequest(k) PROVE HttpInv'
  <2> DEFINE cs == {pending[k]}
  <2>1. \A c \in cs : \E q \in Requests : c = <<q, attempt[q]>> /\ phase[q] \in UnderWay
    BY <1>13, <1>0 DEF cancelRequest
  <2>2. aborted' = aborted \cup cs /\ pending' = pending /\ UNCHANGED <<phase, attempt, res>>
    BY <1>13 DEF cancelRequest, Abort
  <2> HIDE DEF cs
  <2> QED BY <2>1, <2>2, AbortKeeps
<1>14. CASE cancelAllRequests
  <2>1. \A c \in {pending[k] : k \in Keys} \ {None} :
          \E q \in Requests : c = <<q, attempt[q]>> /\ phase[q] \in UnderWay
    BY <1>0
  <2> QED BY <1>14, <2>1, AbortKeeps DEF cancelAllRequests, Abort
<1>15. CASE clearHttpCache \/ UNCHANGED vars
  <2> DEFINE cs == {}
  <2>1. aborted' = aborted \cup cs /\ pending' = pending /\ UNCHANGED <<phase, attempt, res>>
    BY <1>15 DEF clearHttpCache, vars
  <2>2. \A c \in cs : \E q \in Requests : c = <<q, attempt[q]>> /\ phase[q] \in UnderWay
    OBVIOUS
  <2> HIDE DEF cs
  <2> QED BY <2>1, <2>2, AbortKeeps
<1> QED BY <1>5, <1>6, <1>7, <1>8, <1>9, <1>10, <1>11, <1>12, <1>13, <1>14, <1>15,
           <1>16 DEF Next

LEMMA HttpAlways == Spec => []HttpInv
<1>1. Init => HttpInv
  <2> SUFFICES ASSUME Init PROVE HttpInv
    OBVIOUS
  <2>1. \A r \in Requests : phase[r] = "idle" /\ attempt[r] = 0
    BY DEF Init
  <2>2. HttpTypes
    BY <2>1 DEF Init, HttpTypes
  <2>3. RegistryNamesRunning /\ LoadingIsBacked
    BY DEF Init, RegistryNamesRunning, LoadingIsBacked
  <2>4. NoAttemptAfterAbort /\ AbortedBefore
    BY <2>1 DEF Init, NoAttemptAfterAbort, AbortedBefore
  <2> QED BY <2>2, <2>3, <2>4 DEF HttpInv
<1>2. HttpInv /\ [Next]_vars => HttpInv'
  BY HttpNext
<1> QED BY <1>1, <1>2, PTL DEF Spec

\* What is registered for a key is an attempt under way.
THEOREM RegistryIsFresh == Spec => []RegistryNamesRunning
<1>1. HttpInv => RegistryNamesRunning
  BY DEF HttpInv
<1> QED BY <1>1, HttpAlways, PTL

\* No attempt goes on the network after an earlier one of its request was aborted.
THEOREM AbortsAreFinal == Spec => []NoAttemptAfterAbort
<1>1. HttpInv => NoAttemptAfterAbort
  BY DEF HttpInv
<1> QED BY <1>1, HttpAlways, PTL

\* While the resource shows that it is loading, a refetch that will end it is under way.
THEOREM LoadingWillEnd == Spec => []LoadingIsBacked
<1>1. HttpInv => LoadingIsBacked
  BY DEF HttpInv
<1> QED BY <1>1, HttpAlways, PTL

-----------------------------------------------------------------------------
(* The background sync of packages/service-worker. *)

CONSTANTS Mutations, MaxCycles, CyclesSeen
VARIABLES client, stored, registered, sync, retryCount, cycles, accepted, cutOff

Queue == INSTANCE SyncQueue

\* Keys of IndexedDB are numbers; a record is dropped by its second failed cycle at the
\* earliest, the constant of the code being 3.
SyncConstants ==
  /\ Mutations \subseteq Nat /\ MaxCycles \in Nat /\ MaxCycles >= 2
  /\ None \notin Queue!Handlers

Removing == sync # None /\ sync.step = "removing"

SyncTypes ==
  /\ client \in [Mutations -> {"new", "sending", "storing", "answered", "queued", "lost"}]
  /\ stored \subseteq Mutations /\ cutOff \subseteq Mutations
  /\ sync = None \/ sync \in Queue!Handlers
  /\ retryCount \in [Mutations -> Nat] /\ accepted \in [Mutations -> Nat]

\* Only records of queued mutations are stored or being sent.
QueuedOnly ==
  /\ \A m \in stored : client[m] = "queued"
  /\ sync # None => \A m \in sync.left : client[m] = "queued"

\* The counts of the records to be sent are those they were stored with.
CountsAreStored == sync # None => \A m \in sync.left : retryCount[m] = 0

RemovesAccepted == Removing => sync.left # {} /\ accepted[Queue!Current] > 0

\* A mutation accepted once is being removed, or no handler will find it any more.
SpentOnce ==
  \A m \in Mutations : accepted[m] > 0 /\ m \notin cutOff =>
    /\ accepted[m] = 1 /\ client[m] = "queued"
    /\ \/ Removing /\ Queue!Current = m
       \/ m \notin stored /\ (sync = None \/ m \notin sync.left)

SyncInv ==
  /\ SyncTypes /\ QueuedOnly /\ CountsAreStored /\ RemovesAccepted /\ SpentOnce
  /\ Queue!KeptUntilAccepted

\* A set of numbers that is not empty has a least one.
LEMMA LeastExists ==
  ASSUME NEW S \in SUBSET Nat, S # {}
  PROVE  \E m \in S : \A other \in S : m <= other
<1> DEFINE less == {ss \in Nat \X Nat : ss[1] < ss[2]}
<1>1. IsWellFoundedOn(less, Nat)
  BY NatLessThanWellFounded, Zenon DEF OpToRel
<1> HIDE DEF less
<1>2. PICK m \in S : \A other \in S : ~(<<other, m>> \in less)
  BY <1>1, WFMin
<1>3. ASSUME NEW other \in S PROVE m <= other
  <2>1. ~(other < m)
    BY <1>2, <1>3 DEF less
  <2> QED BY <2>1, <1>2, <1>3
<1> QED BY <1>2, <1>3

LEMMA CurrentIsLeft ==
  ASSUME SyncConstants, SyncTypes, sync # None, sync.left # {}
  PROVE  Queue!Current \in sync.left /\ Queue!Current \in Mutations /\ Queue!Current \in Nat
<1>1. sync.left \in SUBSET Nat /\ sync.left \subseteq Mutations /\ Mutations \subseteq Nat
  BY DEF SyncConstants, SyncTypes, Queue!Handlers
<1>2. \E m \in sync.left : \A other \in sync.left : m <= other
  BY <1>1, LeastExists
<1>3. Queue!Current \in sync.left
  BY <1>2 DEF Queue!Current
<1> QED BY <1>1, <1>3

\* What a fetch handler does of a mutation, the queueing of it included.
LEMMA ClientKeeps ==
  ASSUME SyncInv, NEW m \in Mutations, NEW from, NEW to,
         Queue!Client(m, from, to), Queue!SyncStays, from # "queued",
         to \in {"new", "sending", "storing", "answered", "queued", "lost"},
         \/ to # "queued" /\ stored' = stored
         \/ to = "queued" /\ stored' = stored \cup {m}
  PROVE  SyncInv'
<1>1. /\ client[m] = from /\ client' = [client EXCEPT ![m] = to]
      /\ sync' = sync /\ retryCount' = retryCount /\ accepted' = accepted /\ cutOff' = cutOff
  BY DEF Queue!Client, Queue!SyncStays
<1>2. SyncTypes'
  BY <1>1 DEF SyncInv, SyncTypes
<1>3. \A o \in Mutations : o # m => client'[o] = client[o]
  BY <1>1 DEF SyncInv, SyncTypes
<1>4. client'[m] = to /\ DOMAIN client = Mutations
  BY <1>1 DEF SyncInv, SyncTypes
<1>5. sync # None => sync.left \subseteq Mutations
  BY DEF SyncInv, SyncTypes, Queue!Handlers
<1>6. m \notin stored /\ (sync # None => m \notin sync.left)
  BY <1>1 DEF SyncInv, QueuedOnly
<1>7. QueuedOnly'
  <2>1. ASSUME NEW o \in stored' PROVE client'[o] = "queued"
    BY <1>2, <1>3, <1>4, <1>6, <2>1 DEF SyncInv, QueuedOnly, SyncTypes
  <2>2. ASSUME sync' # None, NEW o \in sync'.left PROVE client'[o] = "queued"
    BY <1>1, <1>3, <1>5, <1>6, <2>2 DEF SyncInv, QueuedOnly
  <2> QED BY <2>1, <2>2 DEF QueuedOnly
<1>8. Queue!Current' = Queue!Current /\ Removing' = Removing
  BY <1>1 DEF Queue!Current, Removing
<1>9. CountsAreStored' /\ RemovesAccepted'
  BY <1>1, <1>8 DEF SyncInv, CountsAreStored, RemovesAccepted
<1>10. SpentOnce'
  <2>1. ASSUME NEW o \in Mutations, accepted[o] > 0, o \notin cutOff
        PROVE  /\ accepted[o] = 1 /\ client'[o] = "queued"
               /\ \/ Removing /\ Queue!Current = o
                  \/ o \notin stored' /\ (sync = None \/ o \notin sync.left)
    <3>1. /\ accepted[o] = 1 /\ client[o] = "queued"
          /\ \/ Removing /\ Queue!Current = o
             \/ o \notin stored /\ (sync = None \/ o \notin sync.left)
      BY <2>1 DEF SyncInv, SpentOnce
    <3>2. o # m
      BY <1>1, <3>1
    <3> QED BY <1>3, <3>1, <3>2
  <2> QED BY <1>1, <1>8, <2>1 DEF SpentOnce
<1>11. Queue!KeptUntilAccepted'
  BY <1>1, <1>3, <1>4 DEF SyncInv, Queue!KeptUntilAccepted
<1> QED BY <1>2, <1>7, <1>9, <1>10, <1>11 DEF SyncInv

LEMMA SyncFiresKeeps ==
  ASSUME SyncInv, SyncConstants, Queue!SyncFires
  PROVE  SyncInv'
<1>1. /\ sync = None /\ \E left \in {stored, {}} : sync' = [left |-> left, step |-> "sending"]
      /\ retryCount' = [m \in Mutations |-> 0] /\ UNCHANGED <<client, stored, accepted, cutOff>>
  BY DEF Queue!SyncFires, Queue!Loads
<1>2. sync'.left \in {stored, {}} /\ sync'.step = "sending"
  BY <1>1
<1>3. sync' \in Queue!Handlers /\ stored \subseteq Mutations
  BY <1>1 DEF SyncInv, SyncTypes, Queue!Handlers
<1>4. SyncTypes'
  BY <1>1, <1>3 DEF SyncInv, SyncTypes
<1>5. QueuedOnly' /\ CountsAreStored' /\ ~Removing' /\ ~Removing
  BY <1>1, <1>2, <1>3 DEF SyncInv, QueuedOnly, CountsAreStored, Removing
<1>6. SpentOnce'
  BY <1>1, <1>2, <1>5 DEF SyncInv, SpentOnce
<1>7. RemovesAccepted' /\ Queue!KeptUntilAccepted'
  BY <1>1, <1>5 DEF SyncInv, RemovesAccepted, Queue!KeptUntilAccepted
<1> QED BY <1>4, <1>5, <1>6, <1>7 DEF SyncInv

LEMMA RetrySucceedsKeeps ==
  ASSUME SyncInv, SyncConstants, Queue!RetrySucceeds
  PROVE  SyncInv'
<1> DEFINE c == Queue!Current
<1>1. /\ sync # None /\ sync.left # {} /\ sync.step = "sending"
      /\ accepted' = [accepted EXCEPT ![c] = @ + 1] /\ sync' = [sync EXCEPT !.step = "removing"]
      /\ UNCHANGED <<client, stored, retryCount, cutOff>>
  BY DEF Queue!RetrySucceeds, Queue!Sending, Queue!AfterAcceptance
<1>2. c \in sync.left /\ c \in Mutations
  BY <1>1, CurrentIsLeft DEF SyncInv
<1>3. sync \in Queue!Handlers
  BY <1>1 DEF SyncInv, SyncTypes
<1>4. sync'.left = sync.left /\ sync'.step = "removing" /\ sync' \in Queue!Handlers
  BY <1>1, <1>3 DEF Queue!Handlers
<1>5. Queue!Current' = c
  BY <1>4 DEF Queue!Current
<1>6. sync' # None /\ Removing'
  BY <1>4 DEF SyncConstants, Removing
<1> HIDE DEF c
<1>7. accepted \in [Mutations -> Nat] /\ accepted'[c] = accepted[c] + 1
      /\ \A o \in Mutations : o # c => accepted'[o] = accepted[o]
  BY <1>1, <1>2 DEF SyncInv, SyncTypes
<1>8. SyncTypes'
  BY <1>1, <1>2, <1>4, <1>7 DEF SyncInv, SyncTypes
<1>9. QueuedOnly' /\ CountsAreStored'
  BY <1>1, <1>4 DEF SyncInv, QueuedOnly, CountsAreStored
<1>10. RemovesAccepted'
  BY <1>1, <1>2, <1>4, <1>5, <1>7 DEF RemovesAccepted
<1>11. SpentOnce'
  <2>1. ASSUME NEW o \in Mutations, accepted'[o] > 0, o \notin cutOff'
        PROVE  /\ accepted'[o] = 1 /\ client'[o] = "queued"
               /\ o = c \/ (o \notin stored' /\ o \notin sync'.left)
    <3>1. accepted[o] > 0 => /\ accepted[o] = 1 /\ client[o] = "queued"
                             /\ o \notin stored /\ o \notin sync.left
      BY <1>1, <2>1 DEF SyncInv, SpentOnce, Removing
    <3>2. CASE o = c
      <4>1. client[o] = "queued" /\ ~(accepted[o] > 0)
        BY <1>1, <1>2, <3>1, <3>2 DEF SyncInv, QueuedOnly
      <4>2. accepted[c] \in Nat /\ ~(accepted[c] > 0) /\ accepted'[c] = accepted[c] + 1
        BY <1>2, <1>7, <3>2, <4>1
      <4>3. accepted'[o] = 1
        BY <3>2, <4>2
      <4> QED BY <1>1, <3>2, <4>1, <4>3
    <3>3. CASE o # c
      BY <1>1, <1>4, <1>7, <2>1, <3>1, <3>3
    <3> QED BY <3>2, <3>3
  <2> QED BY <1>5, <1>6, <2>1 DEF SpentOnce
<1>12. Queue!KeptUntilAccepted'
  BY <1>1, <1>7 DEF SyncInv, Queue!KeptUntilAccepted
<1> QED BY <1>8, <1>9, <1>10, <1>11, <1>12 DEF SyncInv

\* The handler goes on to its next record, the current one being removed or not.
LEMMA NextRecordKeeps ==
  ASSUME SyncInv, SyncConstants, sync # None, sync.left # {},
         sync' = [left |-> sync.left \ {Queue!Current}, step |-> "sending"],
         stored' \in {stored, stored \ {Queue!Current}}, UNCHANGED <<client, accepted>>,
         retryCount' \in [Mutations -> Nat],
         \A o \in Mutations : o # Queue!Current => retryCount'[o] = retryCount[o],
         Removing \/ stored' = stored,
         cutOff' = IF Removing /\ Queue!Current \in stored' THEN cutOff \cup {Queue!Current} ELSE cutOff
  PROVE  SyncInv'
<1> DEFINE c == Queue!Current
<1>1. c \in sync.left /\ c \in Mutations
  BY CurrentIsLeft DEF SyncInv
<1>2. sync \in Queue!Handlers
  BY DEF SyncInv, SyncTypes
<1>3. sync'.left = sync.left \ {c} /\ sync'.step = "sending" /\ sync' \in Queue!Handlers
  BY <1>2 DEF Queue!Handlers
<1>4. stored' \subseteq stored /\ (stored' = stored \/ stored' = stored \ {c}) /\ sync.left \subseteq Mutations
  BY <1>2 DEF Queue!Handlers
<1>5. cutOff' = (IF Removing /\ c \in stored' THEN cutOff \cup {c} ELSE cutOff)
  OBVIOUS
<1>6. (Removing => accepted[c] > 0) /\ (Removing \/ stored' = stored)
  BY DEF SyncInv, RemovesAccepted
<1>7. \A o \in Mutations : accepted[o] > 0 /\ o \notin cutOff =>
        /\ accepted[o] = 1 /\ client[o] = "queued"
        /\ (Removing /\ c = o) \/ (o \notin stored /\ o \notin sync.left)
  <2>1. SpentOnce /\ sync # None
    BY DEF SyncInv
  <2> QED BY <2>1 DEF SpentOnce
<1>8. \A o \in Mutations : o # c => retryCount'[o] = retryCount[o]
  OBVIOUS
<1> HIDE DEF c
<1>9. SyncTypes'
  BY <1>1, <1>3, <1>4, <1>5 DEF SyncInv, SyncTypes
<1>10. QueuedOnly'
  BY <1>3, <1>4 DEF SyncInv, QueuedOnly
<1>11. CountsAreStored'
  BY <1>3, <1>4, <1>8 DEF SyncInv, CountsAreStored
<1>12. ~Removing' /\ RemovesAccepted'
  BY <1>3 DEF Removing, RemovesAccepted
<1>13. SpentOnce'
  <2>1. ASSUME NEW o \in Mutations, accepted[o] > 0, o \notin cutOff'
        PROVE  accepted[o] = 1 /\ client[o] = "queued" /\ o \notin stored' /\ o \notin sync'.left
    <3>1. o \notin cutOff /\ (o = c => ~(Removing /\ c \in stored'))
      BY <1>1, <1>5, <2>1
    <3>2. CASE o = c
      BY <1>1, <1>3, <1>7, <2>1, <3>1, <3>2
    <3>3. CASE o # c
      BY <1>3, <1>4, <1>7, <2>1, <3>1, <3>3
    <3> QED BY <3>2, <3>3
  <2> QED BY <2>1 DEF SpentOnce
<1>14. Queue!KeptUntilAccepted'
  BY <1>4, <1>6 DEF SyncInv, Queue!KeptUntilAccepted
<1> QED BY <1>9, <1>10, <1>11, <1>12, <1>13, <1>14 DEF SyncInv

LEMMA RetryFailsKeeps ==
  ASSUME SyncInv, SyncConstants, Queue!RetryFails
  PROVE  SyncInv'
<1> DEFINE c == Queue!Current
<1>1. /\ sync # None /\ sync.left # {} /\ sync.step = "sending"
      /\ retryCount' = [retryCount EXCEPT ![c] = @ + 1]
      /\ sync' = IF retryCount'[c] >= MaxCycles THEN [sync EXCEPT !.step = "removing"]
                 ELSE [sync EXCEPT !.left = @ \ {c}]
      /\ UNCHANGED <<client, stored, accepted, cutOff>>
  BY DEF Queue!RetryFails, Queue!Sending
<1>2. c \in sync.left /\ c \in Mutations /\ sync \in Queue!Handlers
  BY <1>1, CurrentIsLeft DEF SyncInv, SyncTypes
<1> HIDE DEF c
<1>3. retryCount[c] = 0 /\ retryCount \in [Mutations -> Nat]
  BY <1>1, <1>2 DEF SyncInv, CountsAreStored, SyncTypes
<1>4. /\ retryCount' \in [Mutations -> Nat] /\ retryCount'[c] = 1
      /\ \A o \in Mutations : o # c => retryCount'[o] = retryCount[o]
  BY <1>1, <1>2, <1>3
<1>5. sync' = [sync EXCEPT !.left = @ \ {c}]
  BY <1>1, <1>4 DEF SyncConstants
<1>6. sync' = [left |-> sync.left \ {c}, step |-> "sending"]
  BY <1>1, <1>2, <1>5 DEF Queue!Handlers
<1>7. ~Removing
  BY <1>1 DEF Removing
<1> USE DEF c
<1> QED BY <1>1, <1>4, <1>6, <1>7, NextRecordKeeps

LEMMA RemovalKeeps ==
  ASSUME SyncInv, SyncConstants, Queue!removeFromQueue
  PROVE  SyncInv'
<1>1. /\ Removing /\ sync # None /\ stored' \in {stored, stored \ {Queue!Current}}
      /\ cutOff' = IF Queue!Current \in stored' THEN cutOff \cup {Queue!Current} ELSE cutOff
      /\ sync' = [left |-> sync.left \ {Queue!Current}, step |-> "sending"]
      /\ UNCHANGED <<client, retryCount, accepted>>
  BY DEF Queue!removeFromQueue, Removing
<1>2. sync.left # {} /\ retryCount \in [Mutations -> Nat]
  BY <1>1 DEF SyncInv, RemovesAccepted, SyncTypes
<1> QED BY <1>1, <1>2, NextRecordKeeps

\* The handler is over, by itself or because the worker was stopped.
LEMMA EndKeeps ==
  ASSUME SyncInv, SyncConstants, Queue!SyncEnds \/ Queue!WorkerStops
  PROVE  SyncInv'
<1>1. /\ sync' = None /\ UNCHANGED <<stored, retryCount, accepted>>
      /\ client' \in [Mutations -> {"new", "sending", "storing", "answered", "queued", "lost"}]
      /\ \A m \in Mutations : client[m] = "queued" <=> client'[m] = "queued"
  <2>1. CASE Queue!SyncEnds
    BY <2>1 DEF Queue!SyncEnds, SyncInv, SyncTypes
  <2>2. CASE Queue!WorkerStops
    BY <2>2 DEF Queue!WorkerStops, SyncInv, SyncTypes
  <2> QED BY <2>1, <2>2
<1>2. cutOff \subseteq cutOff' /\ cutOff' \subseteq Mutations /\ (Removing => Queue!Current \in cutOff')
  <2>1. CASE Queue!SyncEnds
    BY <2>1 DEF Queue!SyncEnds, SyncInv, SyncTypes, RemovesAccepted
  <2>2. CASE Queue!WorkerStops
    <3>1. Removing => Queue!Current \in Mutations
      BY CurrentIsLeft DEF SyncInv, RemovesAccepted, Removing
    <3> QED BY <2>2, <3>1 DEF Queue!WorkerStops, SyncInv, SyncTypes, Removing
  <2> QED BY <2>1, <2>2
<1>3. SyncTypes' /\ QueuedOnly' /\ CountsAreStored'
  BY <1>1, <1>2 DEF SyncInv, SyncTypes, QueuedOnly, CountsAreStored
<1>4. ~Removing' /\ RemovesAccepted'
  BY <1>1 DEF Removing, RemovesAccepted
<1>5. SpentOnce'
  BY <1>1, <1>2 DEF SyncInv, SpentOnce
<1>6. Queue!KeptUntilAccepted'
  BY <1>1 DEF SyncInv, Queue!KeptUntilAccepted
<1> QED BY <1>3, <1>4, <1>5, <1>6 DEF SyncInv

LEMMA SyncAlways ==
  ASSUME SyncConstants
  PROVE  Queue!Spec => []SyncInv
<1>1. Queue!Init => SyncInv
  <2> SUFFICES ASSUME Queue!Init PROVE SyncInv
    OBVIOUS
  <2>1. SyncTypes /\ QueuedOnly /\ CountsAreStored
    BY DEF Queue!Init, SyncTypes, QueuedOnly, CountsAreStored
  <2>2. RemovesAccepted /\ SpentOnce /\ Queue!KeptUntilAccepted
    BY DEF Queue!Init, RemovesAccepted, Removing, SpentOnce, Queue!KeptUntilAccepted
  <2> QED BY <2>1, <2>2 DEF SyncInv
<1>2. SyncInv /\ [Queue!Next]_Queue!vars => SyncInv'
  <2> SUFFICES ASSUME SyncInv, [Queue!Next]_Queue!vars PROVE SyncInv'
    OBVIOUS
  <2>1. ASSUME NEW m \in Mutations, Queue!Post(m) \/ Queue!PostAnswered(m) \/ Queue!PostFails(m)
        PROVE  SyncInv'
    BY <2>1, ClientKeeps DEF Queue!Post, Queue!PostAnswered, Queue!PostFails
  <2>2. ASSUME NEW m \in Mutations, Queue!Enqueue(m) PROVE SyncInv'
    BY <2>2, ClientKeeps DEF Queue!Enqueue
  <2>3. CASE Queue!SyncFires
    BY <2>3, SyncFiresKeeps
  <2>4. CASE Queue!RetrySucceeds
    BY <2>4, RetrySucceedsKeeps
  <2>5. CASE Queue!RetryFails
    BY <2>5, RetryFailsKeeps
  <2>6. CASE Queue!removeFromQueue
    BY <2>6, RemovalKeeps
  <2>7. CASE Queue!SyncEnds \/ Queue!WorkerStops
    BY <2>7, EndKeeps
  <2>8. CASE UNCHANGED Queue!vars
    BY <2>8 DEF Queue!vars, SyncInv, SyncTypes, QueuedOnly, CountsAreStored, RemovesAccepted,
                Removing, SpentOnce, Queue!KeptUntilAccepted, Queue!Current
  <2> QED BY <2>1, <2>2, <2>3, <2>4, <2>5, <2>6, <2>7, <2>8 DEF Queue!Next
<1> QED BY <1>1, <1>2, PTL DEF Queue!Spec

\* A mutation that was stored leaves the store only when the server has accepted it.
THEOREM QueueKeepsMutations ==
  ASSUME SyncConstants
  PROVE  Queue!Spec => []Queue!KeptUntilAccepted
<1>1. SyncInv => Queue!KeptUntilAccepted
  BY DEF SyncInv
<1> QED BY <1>1, SyncAlways, PTL

\* A mutation that was accepted is sent again only if the removal of its record was cut off.
THEOREM QueueSendsOnce ==
  ASSUME SyncConstants
  PROVE  Queue!Spec => []Queue!AcceptedOnce
<1>1. SyncInv => Queue!AcceptedOnce
  BY DEF SyncInv, SyncTypes, SpentOnce, Queue!AcceptedOnce
<1> QED BY <1>1, SyncAlways, PTL

-----------------------------------------------------------------------------
(* The asynchronous loader of packages/components. *)

CONSTANTS Elements, MaxFetches
VARIABLES element, disposed, template, failure, inflight, fetches, made, cleared

Loader == INSTANCE ComponentLoader

LoaderTypes ==
  /\ element \in [Elements -> {"new", "loading", "shown", "error"}]
  /\ made \in 0..MaxFetches /\ inflight \in 0..MaxFetches /\ fetches \subseteq Loader!Fetches
  /\ \A f \in fetches : f.id <= made

\* A fetch has a number of its own, and an element waits for one at most.
FetchesAreApart ==
  \A f, g \in fetches : f # g => f.id # g.id /\ f.waiting \cap g.waiting = {}

\* Whoever is to join finds the fetch.
InflightIsThere == inflight # 0 => \E f \in fetches : f.id = inflight

\* Until the caches are cleared nobody fetches what is there.
FetchedIsMissing == ~cleared /\ fetches # {} => ~failure /\ ~template

LoaderInv ==
  /\ LoaderTypes /\ FetchesAreApart /\ InflightIsThere /\ FetchedIsMissing
  /\ Loader!LoadingIsBacked /\ Loader!OneFetchForAll

\* Fetches may change in what does not matter here: who started them, and their abort.
LEMMA SameFetchesKeep ==
  ASSUME LoaderInv, UNCHANGED <<element, made, inflight>>,
         NEW S \in SUBSET Elements,
         fetches' = {IF f.starter \in S THEN [f EXCEPT !.aborted = TRUE] ELSE f : f \in fetches},
         UNCHANGED <<failure, template, cleared>>
  PROVE  LoaderInv'
<1> DEFINE new(f) == IF f.starter \in S THEN [f EXCEPT !.aborted = TRUE] ELSE f
<1>1. \A f \in fetches : /\ new(f) \in Loader!Fetches /\ new(f).id = f.id
                         /\ new(f).waiting = f.waiting
  BY DEF LoaderInv, LoaderTypes, Loader!Fetches
<1>2. fetches' = {new(f) : f \in fetches}
  OBVIOUS
<1> HIDE DEF new
<1>3. LoaderTypes'
  BY <1>1, <1>2 DEF LoaderInv, LoaderTypes, Loader!Fetches
<1>4. FetchesAreApart' /\ InflightIsThere' /\ FetchedIsMissing'
  <2>1. FetchesAreApart'
    <3>1. ASSUME NEW f \in fetches, NEW g \in fetches, new(f) # new(g)
          PROVE  new(f).id # new(g).id /\ new(f).waiting \cap new(g).waiting = {}
      BY <1>1, <3>1 DEF LoaderInv, FetchesAreApart
    <3> QED BY <1>2, <3>1 DEF FetchesAreApart
  <2>2. InflightIsThere'
    BY <1>1, <1>2 DEF LoaderInv, InflightIsThere
  <2>3. FetchedIsMissing'
    BY <1>2 DEF LoaderInv, FetchedIsMissing
  <2> QED BY <2>1, <2>2, <2>3
<1>5. Loader!LoadingIsBacked'
  <2>1. \A e \in Elements : (\E f \in fetches : e \in f.waiting) <=> (\E f \in fetches' : e \in f.waiting)
    BY <1>1, <1>2
  <2> QED BY <2>1 DEF LoaderInv, Loader!LoadingIsBacked
<1>6. Loader!OneFetchForAll'
  BY <1>1, <1>2 DEF LoaderInv, Loader!OneFetchForAll
<1> QED BY <1>3, <1>4, <1>5, <1>6 DEF LoaderInv

LEMMA ElementKeeps ==
  ASSUME LoaderInv, MaxFetches \in Nat, NEW e \in Elements, Loader!processAsyncComponent(e)
  PROVE  LoaderInv'
<1>1. /\ element[e] = "new" /\ UNCHANGED <<template, failure, cleared>>
      /\ element \in [Elements -> {"new", "loading", "shown", "error"}]
  BY DEF Loader!processAsyncComponent, LoaderInv, LoaderTypes
<1>2. \A f \in fetches : e \notin f.waiting
  BY <1>1 DEF LoaderInv, Loader!LoadingIsBacked
<1>3. ASSUME NEW what \in {"shown", "error"}, Loader!Becomes({e}, what), UNCHANGED <<inflight, fetches, made>>
      PROVE  LoaderInv'
  <2>1. /\ element' \in [Elements -> {"new", "loading", "shown", "error"}]
        /\ \A d \in Elements : element'[d] = "loading" <=> element[d] = "loading"
    BY <1>1, <1>3 DEF Loader!Becomes
  <2> QED BY <1>1, <1>3, <2>1 DEF LoaderInv, LoaderTypes, FetchesAreApart, InflightIsThere, FetchedIsMissing,
                                 Loader!LoadingIsBacked, Loader!OneFetchForAll
<1>4. ASSUME Loader!Becomes({e}, "loading")
      PROVE  /\ element' \in [Elements -> {"new", "loading", "shown", "error"}]
             /\ \A d \in Elements : element'[d] = "loading" <=> (d = e \/ element[d] = "loading")
  BY <1>1, <1>4 DEF Loader!Becomes
<1>5. ASSUME ~failure, ~template, Loader!Becomes({e}, "loading"), Loader!Joins,
             fetches' = {IF f.id = inflight THEN [f EXCEPT !.waiting = @ \cup {e}] ELSE f : f \in fetches},
             UNCHANGED <<inflight, made>>
      PROVE  LoaderInv'
  <2> DEFINE new(f) == IF f.id = inflight THEN [f EXCEPT !.waiting = @ \cup {e}] ELSE f
  <2>1. \A f \in fetches : /\ new(f) \in Loader!Fetches /\ new(f).id = f.id
                           /\ new(f).waiting = IF f.id = inflight THEN f.waiting \cup {e} ELSE f.waiting
    BY DEF LoaderInv, LoaderTypes, Loader!Fetches
  <2>2. fetches' = {new(f) : f \in fetches}
    BY <1>5
  <2> HIDE DEF new
  <2>3. PICK j \in fetches : j.id = inflight
    BY <1>5 DEF Loader!Joins, LoaderInv, InflightIsThere
  <2>4. LoaderTypes'
    BY <1>4, <1>5, <2>1, <2>2 DEF LoaderInv, LoaderTypes
  <2>5. FetchesAreApart'
    <3>1. ASSUME NEW f \in fetches, NEW g \in fetches, f # g
          PROVE  new(f).id # new(g).id /\ new(f).waiting \cap new(g).waiting = {}
      <4>1. f.id # g.id /\ f.waiting \cap g.waiting = {}
        BY <3>1 DEF LoaderInv, FetchesAreApart
      <4> QED BY <1>2, <2>1, <4>1
    <3> QED BY <2>2, <3>1 DEF FetchesAreApart
  <2>6. InflightIsThere' /\ FetchedIsMissing'
    BY <1>1, <1>5, <2>1, <2>2, <2>3 DEF LoaderInv, InflightIsThere, FetchedIsMissing
  <2>7. Loader!LoadingIsBacked'
    <3>1. \A d \in Elements : (\E f \in fetches' : d \in f.waiting)
                                <=> (d = e \/ \E f \in fetches : d \in f.waiting)
      BY <2>1, <2>2, <2>3
    <3> QED BY <1>4, <1>5, <3>1 DEF LoaderInv, Loader!LoadingIsBacked
  <2>8. Loader!OneFetchForAll'
    BY <1>1, <1>5, <2>1, <2>2 DEF LoaderInv, Loader!OneFetchForAll
  <2> QED BY <2>4, <2>5, <2>6, <2>7, <2>8 DEF LoaderInv
<1>6. ASSUME ~failure, ~template, Loader!Becomes({e}, "loading"), ~Loader!Joins,
             made < MaxFetches, made' = made + 1, inflight' = made + 1,
             fetches' = fetches \cup {[id |-> made + 1, starter |-> e, waiting |-> {e}, aborted |-> FALSE]}
      PROVE  LoaderInv'
  <2> DEFINE new == [id |-> made + 1, starter |-> e, waiting |-> {e}, aborted |-> FALSE]
  <2>1. /\ new \in Loader!Fetches /\ new.id = made + 1 /\ new.waiting = {e}
        /\ fetches' = fetches \cup {new} /\ made + 1 \in 1..MaxFetches
    BY <1>6 DEF Loader!Fetches, LoaderInv, LoaderTypes
  <2> HIDE DEF new
  <2>2. \A f \in fetches : f.id \in 1..MaxFetches /\ f.id <= made /\ f.id # made + 1
    BY DEF LoaderInv, LoaderTypes, Loader!Fetches
  <2>3. LoaderTypes'
    BY <1>4, <1>6, <2>1, <2>2 DEF LoaderInv, LoaderTypes
  <2>4. FetchesAreApart'
    BY <1>2, <2>1, <2>2 DEF LoaderInv, FetchesAreApart
  <2>5. InflightIsThere' /\ FetchedIsMissing'
    BY <1>1, <1>6, <2>1 DEF InflightIsThere, FetchedIsMissing
  <2>6. Loader!LoadingIsBacked'
    BY <1>4, <1>6, <2>1 DEF LoaderInv, Loader!LoadingIsBacked
  <2>7. Loader!OneFetchForAll'
    <3>1. ~cleared => fetches = {}
      BY <1>6, <2>2 DEF LoaderInv, Loader!OneFetchForAll, Loader!Joins
    <3> QED BY <1>1, <1>6, <2>1, <3>1 DEF Loader!OneFetchForAll
  <2> QED BY <2>3, <2>4, <2>5, <2>6, <2>7 DEF LoaderInv
<1> QED BY <1>3, <1>5, <1>6 DEF Loader!processAsyncComponent

\* A fetch ends: those who waited for it show what it brought.
LEMMA FetchEndKeeps ==
  ASSUME LoaderInv, MaxFetches \in Nat, NEW f \in fetches, fetches' = fetches \ {f}, inflight' = 0,
         NEW what \in {"shown", "error"}, Loader!Becomes(f.waiting, what), UNCHANGED <<made, cleared>>,
         \/ template' = TRUE /\ failure' = failure
         \/ failure' = TRUE /\ template' = template
  PROVE  LoaderInv'
<1>1. /\ element' \in [Elements -> {"new", "loading", "shown", "error"}]
      /\ \A d \in Elements : element'[d] = "loading" <=> (d \notin f.waiting /\ element[d] = "loading")
  BY DEF Loader!Becomes, LoaderInv, LoaderTypes
<1>2. \A g \in fetches : g # f => g.id # f.id /\ f.waiting \cap g.waiting = {}
  BY DEF LoaderInv, FetchesAreApart
<1>3. LoaderTypes' /\ FetchesAreApart' /\ InflightIsThere'
  BY <1>1 DEF LoaderInv, LoaderTypes, FetchesAreApart, InflightIsThere
<1>4. Loader!LoadingIsBacked'
  BY <1>1, <1>2 DEF LoaderInv, Loader!LoadingIsBacked
<1>5. ~cleared => fetches' = {} /\ ~failure /\ ~template
  BY <1>2 DEF LoaderInv, Loader!OneFetchForAll, FetchedIsMissing
<1>6. FetchedIsMissing' /\ Loader!OneFetchForAll'
  BY <1>5 DEF FetchedIsMissing, Loader!OneFetchForAll
<1> QED BY <1>3, <1>4, <1>6 DEF LoaderInv

LEMMA LoaderAlways ==
  ASSUME MaxFetches \in Nat
  PROVE  Loader!Spec => []LoaderInv
<1>1. Loader!Init => LoaderInv
  BY DEF Loader!Init, LoaderInv, LoaderTypes, FetchesAreApart, InflightIsThere, FetchedIsMissing,
         Loader!LoadingIsBacked, Loader!OneFetchForAll
<1>2. LoaderInv /\ [Loader!Next]_Loader!vars => LoaderInv'
  <2> SUFFICES ASSUME LoaderInv, [Loader!Next]_Loader!vars PROVE LoaderInv'
    OBVIOUS
  <2>1. ASSUME NEW e \in Elements, Loader!processAsyncComponent(e) PROVE LoaderInv'
    BY <2>1, ElementKeeps
  <2>2. ASSUME NEW e \in Elements, Loader!dispose(e) PROVE LoaderInv'
    <3>1. \/ fetches' = {IF f.starter \in {e} THEN [f EXCEPT !.aborted = TRUE] ELSE f : f \in fetches}
          \/ fetches' = {IF f.starter \in {} THEN [f EXCEPT !.aborted = TRUE] ELSE f : f \in fetches}
      BY <2>2 DEF Loader!dispose
    <3>2. UNCHANGED <<element, made, inflight>> /\ UNCHANGED <<failure, template, cleared>>
      BY <2>2 DEF Loader!dispose
    <3>3. {e} \in SUBSET Elements /\ {} \in SUBSET Elements
      OBVIOUS
    <3> HIDE DEF Loader!dispose
    <3> QED BY <3>1, <3>2, <3>3, SameFetchesKeep
  <2>3. ASSUME NEW f \in fetches, Loader!FetchSucceeds(f) \/ Loader!FetchFails(f) PROVE LoaderInv'
    BY <2>3, FetchEndKeeps DEF Loader!FetchSucceeds, Loader!FetchFails, Loader!Fails
  <2>4. CASE Loader!clearComponentCache
    <3>1. /\ UNCHANGED <<element, fetches, made>> /\ ~template' /\ ~failure' /\ inflight' = 0
          /\ ~cleared' => fetches' = {}
      BY <2>4 DEF Loader!clearComponentCache
    <3> QED BY <3>1 DEF LoaderInv, LoaderTypes, FetchesAreApart, InflightIsThere, FetchedIsMissing,
                        Loader!LoadingIsBacked, Loader!OneFetchForAll
  <2>5. CASE Loader!Expires
    <3>1. /\ UNCHANGED <<element, inflight, fetches, made, cleared>>
          /\ template' => template
          /\ failure' => failure
      BY <2>5 DEF Loader!Expires
    <3> QED BY <3>1 DEF LoaderInv, LoaderTypes, FetchesAreApart, InflightIsThere, FetchedIsMissing,
                        Loader!LoadingIsBacked, Loader!OneFetchForAll
  <2>6. CASE UNCHANGED Loader!vars
    BY <2>6 DEF Loader!vars, LoaderInv, LoaderTypes, FetchesAreApart, InflightIsThere, FetchedIsMissing,
                Loader!LoadingIsBacked, Loader!OneFetchForAll
  <2> QED BY <2>1, <2>2, <2>3, <2>4, <2>5, <2>6 DEF Loader!Next
<1> QED BY <1>1, <1>2, PTL DEF Loader!Spec

\* An element that shows "loading" waits for a fetch that is under way, whichever element
\* started it, whoever is disposed and whenever the caches are cleared or expire: loadComponent
\* and processAsyncComponent of async-loader.ts.
THEOREM NobodyWaitsInVain ==
  ASSUME MaxFetches \in Nat
  PROVE  Loader!Spec => []Loader!LoadingIsBacked
<1>1. LoaderInv => Loader!LoadingIsBacked
  BY DEF LoaderInv
<1> QED BY <1>1, LoaderAlways, PTL

\* Unless the caches are cleared during a fetch, one fetch at a time is under way and all can
\* join it, and a failure is never remembered beside the template.
THEOREM FetchesAreShared ==
  ASSUME MaxFetches \in Nat
  PROVE  Loader!Spec => []Loader!OneFetchForAll
<1>1. LoaderInv => Loader!OneFetchForAll
  BY DEF LoaderInv
<1> QED BY <1>1, LoaderAlways, PTL

-----------------------------------------------------------------------------
(* Navigations of packages/router, which wait for guards. *)

CONSTANTS Paths, PageOf, Guards, MaxHistory, MaxWaiting, MaxCommits
VARIABLES guards, entries, at, route, waiting, commits, crossed

Router == INSTANCE Navigation

RouterTypes ==
  /\ guards \in Seq(Guards) /\ entries \in Seq(Paths) /\ at \in 1..Len(entries)
  /\ waiting \in Seq(Router!Navigations) /\ commits \in Seq(Router!Pages)

\* A navigation has asked the guards in their order, up to the one it waits for.
AskedInOrder ==
  \A i \in DOMAIN waiting : ~waiting[i].shifted =>
    /\ waiting[i].index \in 1..Len(guards) /\ waiting[i].asked = guards[waiting[i].index]
    /\ \A k \in 1..(waiting[i].index - 1) : guards[k] \in waiting[i].agreed

\* The last page that is set, or is to be set by the view transitions, is that of the location.
LastIsHere ==
  ~crossed => IF commits = <<>> THEN route = PageOf[Router!Here]
              ELSE commits[Len(commits)] = PageOf[Router!Here]

RouterInv == RouterTypes /\ AskedInOrder /\ LastIsHere

LEMMA RemovalFacts ==
  ASSUME NEW S, NEW s \in Seq(S), NEW i \in 1..Len(s)
  PROVE  /\ Router!RemoveAt(s, i) \in Seq(S) /\ Len(Router!RemoveAt(s, i)) = Len(s) - 1
         /\ \A k \in 1..(Len(s) - 1) : Router!RemoveAt(s, i)[k] = IF k < i THEN s[k] ELSE s[k + 1]
<1> DEFINE a == SubSeq(s, 1, i - 1)
           b == SubSeq(s, i + 1, Len(s))
<1>1. a \in Seq(S) /\ Len(a) = i - 1 /\ \A k \in 1..(i - 1) : a[k] = s[k]
  OBVIOUS
<1>2. b \in Seq(S) /\ Len(b) = Len(s) - i /\ \A k \in 1..(Len(s) - i) : b[k] = s[k + i]
  OBVIOUS
<1>3. Router!RemoveAt(s, i) = a \o b
  BY DEF Router!RemoveAt
<1> HIDE DEF a, b
<1>4. /\ a \o b \in Seq(S) /\ Len(a \o b) = Len(a) + Len(b)
      /\ \A k \in 1..(Len(a) + Len(b)) : (a \o b)[k] = IF k <= Len(a) THEN a[k] ELSE b[k - Len(a)]
  BY <1>1, <1>2, ConcatProperties, Zenon
<1>5. ASSUME NEW k \in 1..(Len(s) - 1)
      PROVE  (a \o b)[k] = IF k < i THEN s[k] ELSE s[k + 1]
  <2>1. (a \o b)[k] = IF k <= i - 1 THEN a[k] ELSE b[k - (i - 1)]
    BY <1>1, <1>2, <1>4
  <2>2. CASE k < i
    BY <1>1, <2>1, <2>2
  <2>3. CASE k >= i
    <3>1. k - (i - 1) \in 1..(Len(s) - i) /\ (k - (i - 1)) + i = k + 1
      BY <2>3
    <3> QED BY <1>2, <2>1, <2>3, <3>1
  <2>4. k < i \/ k >= i
    OBVIOUS
  <2> QED BY <2>2, <2>3, <2>4
<1> QED BY <1>1, <1>2, <1>3, <1>4, <1>5

\* To take out either of two elements comes to the same only if they are equal.
LEMMA SameRemoval ==
  ASSUME NEW S, NEW s \in Seq(S), NEW i \in 1..Len(s), NEW j \in 1..Len(s), i < j,
         Router!RemoveAt(s, i) = Router!RemoveAt(s, j)
  PROVE  s[i] = s[j]
<1>1. \A k \in 1..(Len(s) - 1) : i <= k /\ k < j => s[k + 1] = s[k]
  <2> SUFFICES ASSUME NEW k \in 1..(Len(s) - 1), i <= k, k < j PROVE s[k + 1] = s[k]
    OBVIOUS
  <2>1. Router!RemoveAt(s, i)[k] = IF k < i THEN s[k] ELSE s[k + 1]
    BY RemovalFacts, Zenon
  <2>2. Router!RemoveAt(s, j)[k] = IF k < j THEN s[k] ELSE s[k + 1]
    BY RemovalFacts, Zenon
  <2> QED BY <2>1, <2>2
<1> DEFINE others == {k \in i..j : s[k] # s[i]}
<1>2. SUFFICES ASSUME others # {} PROVE FALSE
  <2>1. j \in i..j
    OBVIOUS
  <2> QED BY <1>2, <2>1
<1>3. PICK m \in others : \A k \in others : m <= k
  <2>1. others \in SUBSET Nat
    OBVIOUS
  <2> HIDE DEF others
  <2> QED BY <1>2, <2>1, LeastExists
<1>4. m - 1 \in i..j /\ m - 1 \notin others /\ m - 1 \in 1..(Len(s) - 1)
  BY <1>3
<1>5. s[m - 1] = s[i] /\ s[(m - 1) + 1] = s[m - 1]
  BY <1>1, <1>3, <1>4
<1> QED BY <1>3, <1>5

\* What a navigation that arrives does to the history and to what is shown.
LEMMA ArriveKeeps ==
  ASSUME RouterTypes, LastIsHere, NEW n, n.to \in Paths, Router!Arrive(n)
  PROVE  /\ entries' \in Seq(Paths) /\ at' \in 1..Len(entries') /\ commits' \in Seq(Router!Pages)
         /\ LastIsHere'
<1>1. CASE n.to = n.from
  BY <1>1 DEF Router!Arrive, RouterTypes, LastIsHere, Router!Here
<1>2. CASE n.to # n.from
  <2>1. entries' \in Seq(Paths) /\ at' \in 1..Len(entries') /\ entries'[at'] = n.to
    <3>1. CASE n.replace
      <4>1. entries' = [entries EXCEPT ![at] = n.to] /\ at' = at
        BY <1>2, <3>1 DEF Router!Arrive, Router!HistoryTakes
      <4>2. entries \in Seq(Paths) /\ at \in 1..Len(entries)
        BY DEF RouterTypes
      <4> QED BY <4>1, <4>2, ExceptSeq
    <3>2. CASE ~n.replace
      <4>1. entries' = Append(SubSeq(entries, 1, at), n.to) /\ at' = at + 1
        BY <1>2, <3>2 DEF Router!Arrive, Router!HistoryTakes
      <4>2. SubSeq(entries, 1, at) \in Seq(Paths) /\ Len(SubSeq(entries, 1, at)) = at
        BY DEF RouterTypes
      <4>3. /\ entries' \in Seq(Paths) /\ Len(entries') = at + 1 /\ entries'[at + 1] = n.to
        BY <4>1, <4>2, AppendProperties
      <4> QED BY <4>1, <4>3 DEF RouterTypes
    <3> QED BY <3>1, <3>2
  <2>2. Router!Here' = n.to
    BY <2>1 DEF Router!Here
  <2>3. CASE PageOf[n.to] = PageOf[Router!Here]
    BY <1>2, <2>1, <2>2, <2>3 DEF Router!Arrive, RouterTypes, LastIsHere
  <2>4. CASE PageOf[n.to] # PageOf[Router!Here] /\ n.transition
    <3>1. commits' = Append(commits, PageOf[n.to]) /\ UNCHANGED <<route, crossed>>
      BY <1>2, <2>4 DEF Router!Arrive
    <3>2. PageOf[n.to] \in Router!Pages
      BY DEF Router!Pages
    <3>3. commits' \in Seq(Router!Pages) /\ commits' # <<>> /\ commits'[Len(commits')] = PageOf[n.to]
      BY <3>1, <3>2, AppendProperties DEF RouterTypes
    <3> QED BY <2>1, <2>2, <3>3 DEF LastIsHere
  <2>5. CASE PageOf[n.to] # PageOf[Router!Here] /\ ~n.transition
    <3>1. route' = PageOf[n.to] /\ crossed' = (commits # <<>>) /\ commits' = commits
      BY <1>2, <2>5 DEF Router!Arrive, Router!SignalBecomes
    <3> QED BY <2>1, <2>2, <3>1 DEF LastIsHere, RouterTypes
  <2> QED BY <2>3, <2>4, <2>5
<1> QED BY <1>1, <1>2

\* Taking a navigation out leaves the others as they are.
LEMMA OthersKeep ==
  ASSUME RouterTypes, AskedInOrder, NEW i \in DOMAIN waiting,
         NEW s, s = Router!RemoveAt(waiting, i)
  PROVE  /\ s \in Seq(Router!Navigations)
         /\ \A j \in DOMAIN s : \E k \in DOMAIN waiting : s[j] = waiting[k]
<1>1. waiting \in Seq(Router!Navigations) /\ i \in 1..Len(waiting)
  BY DEF RouterTypes
<1>2. /\ s \in Seq(Router!Navigations) /\ Len(s) = Len(waiting) - 1
      /\ \A k \in 1..(Len(waiting) - 1) : s[k] = IF k < i THEN waiting[k] ELSE waiting[k + 1]
  BY <1>1, RemovalFacts
<1>3. ASSUME NEW j \in DOMAIN s PROVE \E k \in DOMAIN waiting : s[j] = waiting[k]
  <2>1. j \in 1..(Len(waiting) - 1) /\ j \in DOMAIN waiting /\ j + 1 \in DOMAIN waiting
    BY <1>1, <1>2
  <2> QED BY <1>2, <2>1
<1> QED BY <1>2, <1>3

LEMMA BeginKeeps ==
  ASSUME RouterInv, NEW to \in Paths, NEW replace \in BOOLEAN, NEW transition \in BOOLEAN,
         NEW others \in Seq(Router!Navigations),
         \A j \in DOMAIN others : \E k \in DOMAIN waiting : others[j] = waiting[k],
         Router!Begin(to, replace, transition, others)
  PROVE  RouterInv'
<1>1. guards' = guards /\ guards \in Seq(Guards)
  BY DEF Router!Begin, RouterInv, RouterTypes
<1>2. ASSUME NEW j \in DOMAIN others, ~others[j].shifted
      PROVE  /\ others[j].index \in 1..Len(guards) /\ others[j].asked = guards[others[j].index]
             /\ \A k \in 1..(others[j].index - 1) : guards[k] \in others[j].agreed
  BY <1>2 DEF RouterInv, AskedInOrder
<1>3. CASE guards = <<>>
  <2> DEFINE n == Router!Asking(to, replace, transition, "nobody")
  <2>1. Router!Arrive(n) /\ waiting' = others
    BY <1>3 DEF Router!Begin
  <2>2. n.to = to
    BY DEF Router!Asking
  <2> HIDE DEF n
  <2>3. /\ entries' \in Seq(Paths) /\ at' \in 1..Len(entries') /\ commits' \in Seq(Router!Pages)
        /\ LastIsHere'
    BY <2>1, <2>2, ArriveKeeps DEF RouterInv
  <2>4. AskedInOrder'
    BY <1>1, <1>2, <2>1 DEF AskedInOrder
  <2> QED BY <1>1, <2>1, <2>3, <2>4 DEF RouterInv, RouterTypes, Router!Navigations, Router!Pages
<1>4. CASE guards # <<>>
  <2> DEFINE n == Router!Asking(to, replace, transition, guards[1])
  <2>1. waiting' = Append(others, n) /\ UNCHANGED <<entries, at, route, commits, crossed>>
    BY <1>4 DEF Router!Begin
  <2>2. guards[1] \in Guards /\ 1 \in 1..Len(guards) /\ Router!Here \in Paths
    BY <1>1, <1>4 DEF RouterInv, RouterTypes, Router!Here
  <2>3. n \in Router!Navigations /\ n.index = 1 /\ n.asked = guards[1]
    BY <2>2 DEF Router!Asking, Router!Navigations
  <2> HIDE DEF n
  <2>4. waiting' \in Seq(Router!Navigations)
    BY <2>1, <2>3
  <2>5. AskedInOrder'
    <3>1. ASSUME NEW j \in DOMAIN waiting' PROVE (j \in DOMAIN others /\ waiting'[j] = others[j]) \/ waiting'[j] = n
      BY <2>1, <3>1
    <3>2. ASSUME NEW j \in DOMAIN waiting', ~waiting'[j].shifted
          PROVE  /\ waiting'[j].index \in 1..Len(guards) /\ waiting'[j].asked = guards[waiting'[j].index]
                 /\ \A k \in 1..(waiting'[j].index - 1) : guards[k] \in waiting'[j].agreed
      BY <1>2, <2>2, <2>3, <3>1, <3>2
    <3> QED BY <1>1, <3>2 DEF AskedInOrder
  <2>6. RouterTypes' /\ LastIsHere'
    BY <1>1, <2>1, <2>4 DEF RouterInv, RouterTypes, LastIsHere, Router!Here, Router!Navigations, Router!Pages
  <2> QED BY <2>5, <2>6 DEF RouterInv
<1> QED BY <1>3, <1>4

\* A navigation that goes on to its next guard.
LEMMA NextGuardAsked ==
  ASSUME NEW n \in Router!Navigations, NEW g \in Guards
  PROVE  LET m == [n EXCEPT !.index = @ + 1, !.agreed = @ \cup {n.asked}, !.asked = g]
         IN /\ m \in Router!Navigations /\ m.index = n.index + 1 /\ m.asked = g
            /\ m.agreed = n.agreed \cup {n.asked} /\ m.shifted = n.shifted
<1> DEFINE a == n.agreed \cup {n.asked}
           m == [n EXCEPT !.index = @ + 1, !.agreed = @ \cup {n.asked}, !.asked = g]
<1>1. n.index + 1 \in Nat /\ a \in SUBSET Guards
  BY DEF Router!Navigations
<1>2. m.index = n.index + 1 /\ m.asked = g /\ m.agreed = a /\ m.shifted = n.shifted
  BY DEF Router!Navigations
<1>3. m = [n EXCEPT !.index = n.index + 1, !.agreed = a, !.asked = g]
  BY Zenon DEF Router!Navigations
<1> HIDE DEF a, m
<1>4. m \in Router!Navigations
  BY <1>1, <1>3 DEF Router!Navigations
<1> USE DEF a, m
<1> QED BY <1>2, <1>4

LEMMA GuardAgreesKeeps ==
  ASSUME RouterInv, NEW i \in DOMAIN waiting, Router!GuardAgrees(i)
  PROVE  RouterInv'
<1> DEFINE n == waiting[i]
<1>1. /\ guards' = guards /\ guards \in Seq(Guards) /\ waiting \in Seq(Router!Navigations)
      /\ n \in Router!Navigations
  BY DEF Router!GuardAgrees, RouterInv, RouterTypes
<1>2. \A j \in DOMAIN waiting : ~waiting[j].shifted =>
        /\ waiting[j].index \in 1..Len(guards) /\ waiting[j].asked = guards[waiting[j].index]
        /\ \A k \in 1..(waiting[j].index - 1) : guards[k] \in waiting[j].agreed
  BY DEF RouterInv, AskedInOrder
<1>3. CASE Router!HasNext(n)
  <2> DEFINE m == [n EXCEPT !.index = @ + 1, !.agreed = @ \cup {n.asked}, !.asked = guards[n.index + 1]]
  <2>1. waiting' = [waiting EXCEPT ![i] = m] /\ UNCHANGED <<entries, at, route, commits, crossed>>
    BY <1>3 DEF Router!GuardAgrees
  <2>2. n.index + 1 \in 1..Len(guards) /\ guards[n.index + 1] \in Guards
    BY <1>1, <1>3 DEF Router!HasNext, Router!Navigations
  <2>3. /\ m \in Router!Navigations /\ m.index = n.index + 1 /\ m.asked = guards[m.index]
        /\ m.agreed = n.agreed \cup {n.asked} /\ m.shifted = n.shifted
    <3>1. /\ m \in Router!Navigations /\ m.index = n.index + 1 /\ m.asked = guards[n.index + 1]
          /\ m.agreed = n.agreed \cup {n.asked} /\ m.shifted = n.shifted
      BY <1>1, <2>2, NextGuardAsked, Zenon
    <3> QED BY <3>1
  <2>4. ASSUME ~m.shifted PROVE \A k \in 1..(m.index - 1) : guards[k] \in m.agreed
    <3> SUFFICES ASSUME NEW k \in 1..(m.index - 1) PROVE guards[k] \in m.agreed
      OBVIOUS
    <3>1. ~n.shifted
      BY <2>3, <2>4
    <3>2. /\ n.index \in 1..Len(guards) /\ n.asked = guards[n.index]
          /\ \A l \in 1..(n.index - 1) : guards[l] \in n.agreed
      BY <1>2, <3>1
    <3>3. k = n.index \/ k \in 1..(n.index - 1)
      BY <2>3, <3>2
    <3> QED BY <2>3, <3>2, <3>3
  <2> HIDE DEF m, n
  <2>5. \A j \in DOMAIN waiting : waiting'[j] = IF j = i THEN m ELSE waiting[j]
    BY <1>1, <2>1
  <2>6. waiting' \in Seq(Router!Navigations) /\ DOMAIN waiting' = DOMAIN waiting
    BY <1>1, <2>1, <2>3
  <2>7. AskedInOrder'
    <3>1. ASSUME NEW j \in DOMAIN waiting', ~waiting'[j].shifted
          PROVE  /\ waiting'[j].index \in 1..Len(guards) /\ waiting'[j].asked = guards[waiting'[j].index]
                 /\ \A k \in 1..(waiting'[j].index - 1) : guards[k] \in waiting'[j].agreed
      BY <1>2, <2>2, <2>3, <2>4, <2>5, <2>6, <3>1
    <3> QED BY <1>1, <3>1 DEF AskedInOrder
  <2>8. RouterTypes' /\ LastIsHere'
    BY <1>1, <2>1, <2>6 DEF RouterInv, RouterTypes, LastIsHere, Router!Here, Router!Navigations, Router!Pages
  <2> QED BY <2>7, <2>8 DEF RouterInv
<1>4. CASE ~Router!HasNext(n)
  <2>1. Router!Arrive(n) /\ waiting' = Router!RemoveAt(waiting, i) /\ n.to \in Paths
    BY <1>1, <1>4 DEF Router!GuardAgrees, Router!Navigations
  <2>2. /\ waiting' \in Seq(Router!Navigations)
        /\ \A j \in DOMAIN waiting' : \E k \in DOMAIN waiting : waiting'[j] = waiting[k]
    BY <2>1, OthersKeep DEF RouterInv
  <2> HIDE DEF n
  <2>3. /\ entries' \in Seq(Paths) /\ at' \in 1..Len(entries') /\ commits' \in Seq(Router!Pages)
        /\ LastIsHere'
    BY <2>1, ArriveKeeps DEF RouterInv
  <2>4. AskedInOrder'
    BY <1>1, <1>2, <2>2 DEF AskedInOrder
  <2> QED BY <1>1, <2>2, <2>3, <2>4 DEF RouterInv, RouterTypes, Router!Navigations, Router!Pages
<1> QED BY <1>3, <1>4

\* Guards come behind the others; one that goes marks those that had come as far.
LEMMA GuardsChangeKeeps ==
  ASSUME RouterInv,
         (\E g \in Guards : Router!beforeEach(g)) \/ (\E i \in DOMAIN guards : Router!removeGuard(i))
  PROVE  RouterInv'
<1>1. /\ guards \in Seq(Guards) /\ waiting \in Seq(Router!Navigations)
      /\ UNCHANGED <<entries, at, route, commits, crossed>>
  BY DEF RouterInv, RouterTypes, Router!beforeEach, Router!removeGuard
<1>2. LastIsHere'
  BY <1>1 DEF RouterInv, LastIsHere, Router!Here
<1>3. \A j \in DOMAIN waiting : ~waiting[j].shifted =>
        /\ waiting[j].index \in 1..Len(guards) /\ waiting[j].asked = guards[waiting[j].index]
        /\ \A k \in 1..(waiting[j].index - 1) : guards[k] \in waiting[j].agreed
  BY DEF RouterInv, AskedInOrder
<1>4. ASSUME NEW g \in Guards, Router!beforeEach(g) PROVE RouterInv'
  <2>1. guards' = Append(guards, g) /\ waiting' = waiting
    BY <1>4 DEF Router!beforeEach
  <2>2. /\ guards' \in Seq(Guards) /\ Len(guards') = Len(guards) + 1
        /\ \A k \in 1..Len(guards) : guards'[k] = guards[k]
    BY <1>1, <2>1, AppendProperties
  <2>3. AskedInOrder'
    <3>1. ASSUME NEW j \in DOMAIN waiting', ~waiting'[j].shifted
          PROVE  /\ waiting'[j].index \in 1..Len(guards') /\ waiting'[j].asked = guards'[waiting'[j].index]
                 /\ \A k \in 1..(waiting'[j].index - 1) : guards'[k] \in waiting'[j].agreed
      <4>1. waiting[j].index \in 1..Len(guards)
        BY <1>3, <2>1, <3>1
      <4>2. \A k \in 1..(waiting[j].index - 1) : k \in 1..Len(guards)
        BY <1>1, <4>1
      <4> QED BY <1>1, <1>3, <2>1, <2>2, <3>1, <4>1, <4>2
    <3> QED BY <3>1 DEF AskedInOrder
  <2>4. RouterTypes'
    BY <1>1, <2>1, <2>2 DEF RouterInv, RouterTypes, Router!Navigations, Router!Pages
  <2> QED BY <1>2, <2>3, <2>4 DEF RouterInv
<1>5. ASSUME NEW i \in DOMAIN guards, Router!removeGuard(i) PROVE RouterInv'
  <2> DEFINE new(j) == [waiting[j] EXCEPT !.shifted = @ \/ i <= waiting[j].index]
  <2>1. guards' = Router!RemoveAt(guards, i) /\ waiting' = [j \in DOMAIN waiting |-> new(j)]
    BY <1>5 DEF Router!removeGuard
  <2>2. /\ guards' \in Seq(Guards) /\ Len(guards') = Len(guards) - 1 /\ i \in 1..Len(guards)
        /\ \A k \in 1..(Len(guards) - 1) : guards'[k] = IF k < i THEN guards[k] ELSE guards[k + 1]
    BY <1>1, <2>1, RemovalFacts
  <2>3. \A j \in DOMAIN waiting :
          /\ new(j) \in Router!Navigations /\ new(j).index = waiting[j].index
          /\ new(j).asked = waiting[j].asked /\ new(j).agreed = waiting[j].agreed
          /\ new(j).shifted = (waiting[j].shifted \/ i <= waiting[j].index)
    <3> SUFFICES ASSUME NEW j \in DOMAIN waiting
                 PROVE  /\ new(j) \in Router!Navigations /\ new(j).index = waiting[j].index
                        /\ new(j).asked = waiting[j].asked /\ new(j).agreed = waiting[j].agreed
                        /\ new(j).shifted = (waiting[j].shifted \/ i <= waiting[j].index)
      OBVIOUS
    <3>1. waiting[j] \in Router!Navigations
      BY <1>1
    <3> QED BY <3>1 DEF Router!Navigations
  <2> HIDE DEF new
  <2>4. waiting' \in Seq(Router!Navigations) /\ DOMAIN waiting' = DOMAIN waiting
    BY <1>1, <2>1, <2>3
  <2>5. AskedInOrder'
    <3>1. ASSUME NEW j \in DOMAIN waiting', ~waiting'[j].shifted
          PROVE  /\ waiting'[j].index \in 1..Len(guards') /\ waiting'[j].asked = guards'[waiting'[j].index]
                 /\ \A k \in 1..(waiting'[j].index - 1) : guards'[k] \in waiting'[j].agreed
      <4>1. j \in DOMAIN waiting /\ waiting'[j] = new(j)
        BY <2>1, <2>4, <3>1
      <4>2. ~waiting[j].shifted /\ ~(i <= waiting[j].index)
        BY <2>3, <3>1, <4>1
      <4>3. /\ waiting[j].index \in 1..Len(guards) /\ waiting[j].asked = guards[waiting[j].index]
            /\ \A k \in 1..(waiting[j].index - 1) : guards[k] \in waiting[j].agreed
        BY <1>3, <4>1, <4>2
      <4>4. waiting[j].index \in 1..Len(guards') /\ \A k \in 1..waiting[j].index : guards'[k] = guards[k]
        BY <2>2, <4>2, <4>3
      <4>5. /\ waiting'[j].index = waiting[j].index /\ waiting'[j].asked = waiting[j].asked
            /\ waiting'[j].agreed = waiting[j].agreed
        BY <2>3, <4>1
      <4> QED BY <4>3, <4>4, <4>5
    <3> QED BY <3>1 DEF AskedInOrder
  <2>6. RouterTypes'
    BY <1>1, <2>2, <2>4 DEF RouterInv, RouterTypes, Router!Navigations, Router!Pages
  <2> QED BY <1>2, <2>5, <2>6 DEF RouterInv
<1> QED BY <1>4, <1>5

\* View transitions that begin, and the Back and Forward of the browser.
LEMMA BrowserKeeps ==
  ASSUME RouterInv, Router!TransitionBegins \/ \E i \in DOMAIN entries : Router!Traverse(i)
  PROVE  RouterInv'
<1>1. UNCHANGED <<guards, entries, waiting>>
  BY DEF Router!TransitionBegins, Router!Traverse
<1>2. AskedInOrder'
  BY <1>1 DEF RouterInv, AskedInOrder
<1>3. CASE Router!TransitionBegins
  <2>1. commits # <<>> /\ route' = Head(commits) /\ commits' = Tail(commits) /\ UNCHANGED <<at, crossed>>
    BY <1>3 DEF Router!TransitionBegins
  <2>2. commits \in Seq(Router!Pages)
    BY DEF RouterInv, RouterTypes
  <2>3. /\ commits' \in Seq(Router!Pages) /\ Len(commits') = Len(commits) - 1 /\ Len(commits) > 0
        /\ route' = commits[1] /\ \A k \in 1..(Len(commits) - 1) : commits'[k] = commits[k + 1]
    BY <2>1, <2>2
  <2>4. LastIsHere'
    <3>1. ~crossed => commits[Len(commits)] = PageOf[Router!Here]
      BY <2>1 DEF RouterInv, LastIsHere
    <3>2. commits' = <<>> <=> Len(commits) = 1
      BY <2>2, <2>3
    <3>3. Len(commits) > 1 => commits'[Len(commits')] = commits[Len(commits)]
      BY <2>2, <2>3
    <3> QED BY <1>1, <2>1, <2>2, <2>3, <3>1, <3>2, <3>3 DEF LastIsHere, Router!Here
  <2> QED BY <1>1, <1>2, <2>1, <2>3, <2>4 DEF RouterInv, RouterTypes, Router!Navigations, Router!Pages
<1>4. ASSUME NEW i \in DOMAIN entries, Router!Traverse(i) PROVE RouterInv'
  <2>1. /\ at' = i /\ route' = PageOf[entries[i]] /\ crossed' = (commits # <<>>) /\ commits' = commits
    BY <1>4 DEF Router!Traverse, Router!SignalBecomes
  <2>2. LastIsHere'
    BY <1>1, <2>1 DEF LastIsHere, Router!Here
  <2> QED BY <1>1, <1>2, <2>1, <2>2 DEF RouterInv, RouterTypes, Router!Navigations, Router!Pages
<1> QED BY <1>3, <1>4

LEMMA RouterAlways == Router!Spec => []RouterInv
<1>1. Router!Init => RouterInv
  <2> SUFFICES ASSUME Router!Init PROVE RouterInv
    OBVIOUS
  <2>1. PICK p \in Paths : entries = <<p>> /\ route = PageOf[p]
    BY DEF Router!Init
  <2>2. entries \in Seq(Paths) /\ Len(entries) = 1 /\ entries[1] = p
    BY <2>1
  <2>3. /\ guards \in Seq(Guards) /\ waiting \in Seq(Router!Navigations) /\ commits \in Seq(Router!Pages)
        /\ DOMAIN waiting = {} /\ commits = <<>> /\ at = 1
    BY DEF Router!Init
  <2> QED BY <2>1, <2>2, <2>3 DEF RouterInv, RouterTypes, AskedInOrder, LastIsHere, Router!Here
<1>2. RouterInv /\ [Router!Next]_Router!vars => RouterInv'
  <2> SUFFICES ASSUME RouterInv, [Router!Next]_Router!vars PROVE RouterInv'
    OBVIOUS
  <2>w. waiting \in Seq(Router!Navigations)
    BY DEF RouterInv, RouterTypes
  <2>1. ASSUME NEW p \in Paths, NEW r \in BOOLEAN, NEW t \in BOOLEAN, Router!navigate(p, r, t)
        PROVE  RouterInv'
    <3>1. Router!Begin(p, r, t, waiting)
      BY <2>1 DEF Router!navigate
    <3> QED BY <2>w, <3>1, BeginKeeps
  <2>2. ASSUME NEW i \in DOMAIN waiting, Router!GuardAgrees(i) PROVE RouterInv'
    BY <2>2, GuardAgreesKeeps
  <2>3. ASSUME NEW i \in DOMAIN waiting, Router!GuardBlocks(i) PROVE RouterInv'
    <3>1. waiting' = Router!RemoveAt(waiting, i) /\ UNCHANGED <<guards, entries, at, route, commits, crossed>>
      BY <2>3 DEF Router!GuardBlocks
    <3>2. /\ waiting' \in Seq(Router!Navigations)
          /\ \A j \in DOMAIN waiting' : \E k \in DOMAIN waiting : waiting'[j] = waiting[k]
      BY <3>1, OthersKeep DEF RouterInv
    <3>3. AskedInOrder'
      BY <3>1, <3>2 DEF RouterInv, AskedInOrder
    <3>4. LastIsHere'
      BY <3>1 DEF RouterInv, LastIsHere, Router!Here
    <3> QED BY <3>1, <3>2, <3>3, <3>4 DEF RouterInv, RouterTypes, Router!Navigations, Router!Pages
  <2>4. ASSUME NEW i \in DOMAIN waiting, NEW p \in Paths, Router!GuardRedirects(i, p) PROVE RouterInv'
    <3> DEFINE s == Router!RemoveAt(waiting, i)
    <3>1. Router!Begin(p, TRUE, waiting[i].transition, s) /\ waiting[i].transition \in BOOLEAN
      <4>1. waiting[i] \in Router!Navigations
        BY <2>w
      <4>2. waiting[i].transition \in BOOLEAN
        BY <4>1 DEF Router!Navigations
      <4> QED BY <2>4, <4>2 DEF Router!GuardRedirects
    <3>2. /\ s \in Seq(Router!Navigations)
          /\ \A j \in DOMAIN s : \E k \in DOMAIN waiting : s[j] = waiting[k]
      BY OthersKeep DEF RouterInv
    <3> HIDE DEF s
    <3> QED BY <3>1, <3>2, BeginKeeps
  <2>5. CASE Router!TransitionBegins \/ \E i \in DOMAIN entries : Router!Traverse(i)
    BY <2>5, BrowserKeeps
  <2>6. CASE (\E g \in Guards : Router!beforeEach(g)) \/ (\E i \in DOMAIN guards : Router!removeGuard(i))
    BY <2>6, GuardsChangeKeeps
  <2>7. CASE UNCHANGED Router!vars
    BY <2>7 DEF Router!vars, RouterInv, RouterTypes, AskedInOrder, LastIsHere, Router!Here,
                Router!Navigations, Router!Pages
  <2> QED BY <2>1, <2>2, <2>3, <2>4, <2>5, <2>6, <2>7 DEF Router!Next, Router!Transitions
<1> QED BY <1>1, <1>2, PTL DEF Router!Spec

\* The navigation that a step takes out has asked every guard there is.
LEMMA MoversAgreed == RouterInv /\ [Router!Next]_Router!vars => [Router!AgreedMove]_Router!vars
<1> SUFFICES ASSUME RouterInv, Router!Next, NEW i \in DOMAIN waiting,
                    waiting' = Router!RemoveAt(waiting, i), <<entries, at>>' # <<entries, at>>,
                    ~waiting[i].shifted
             PROVE  Router!ToSet(guards) \subseteq waiting[i].agreed \cup {waiting[i].asked}
  BY DEF Router!AgreedMove
<1>1. waiting \in Seq(Router!Navigations) /\ guards \in Seq(Guards)
  BY DEF RouterInv, RouterTypes
<1>2. Len(waiting') = Len(waiting) - 1 /\ Len(waiting) \in Nat
  BY <1>1, RemovalFacts
<1>3. ASSUME guards = <<>>
      PROVE  Router!ToSet(guards) \subseteq waiting[i].agreed \cup {waiting[i].asked}
  BY <1>3 DEF Router!ToSet
<1>4. ASSUME NEW p \in Paths, NEW r \in BOOLEAN, NEW t \in BOOLEAN, Router!navigate(p, r, t)
      PROVE  FALSE
  <2>1. waiting' = waiting \/ \E n : waiting' = Append(waiting, n)
    BY <1>4 DEF Router!navigate, Router!Begin
  <2>2. \A n : Len(Append(waiting, n)) = Len(waiting) + 1
    BY <1>1
  <2> QED BY <1>2, <2>1, <2>2
<1>5. ASSUME NEW j \in DOMAIN waiting, Router!GuardAgrees(j)
      PROVE  Router!ToSet(guards) \subseteq waiting[i].agreed \cup {waiting[i].asked}
  <2>1. ~Router!HasNext(waiting[j]) /\ waiting' = Router!RemoveAt(waiting, j)
    BY <1>5 DEF Router!GuardAgrees
  <2>2. waiting[i] = waiting[j]
    <3>1. i \in 1..Len(waiting) /\ j \in 1..Len(waiting)
      BY <1>1
    <3>2. i = j \/ i < j \/ j < i
      BY <3>1
    <3> QED BY <1>1, <2>1, <3>1, <3>2, SameRemoval
  <2>3. /\ waiting[i].index \in 1..Len(guards) /\ waiting[i].asked = guards[waiting[i].index]
        /\ \A k \in 1..(waiting[i].index - 1) : guards[k] \in waiting[i].agreed
    BY DEF RouterInv, AskedInOrder
  <2>4. waiting[i].index = Len(guards)
    BY <1>1, <2>1, <2>2, <2>3 DEF Router!HasNext
  <2>5. \A k \in DOMAIN guards : guards[k] \in waiting[i].agreed \cup {waiting[i].asked}
    BY <1>1, <2>3, <2>4
  <2> QED BY <2>5 DEF Router!ToSet
<1>6. ASSUME NEW j \in DOMAIN waiting, NEW p \in Paths, Router!GuardRedirects(j, p) PROVE guards = <<>>
  BY <1>6 DEF Router!GuardRedirects, Router!Begin
<1>7. ASSUME NEW k \in DOMAIN entries, Router!Traverse(k) PROVE FALSE
  BY <1>2, <1>7 DEF Router!Traverse
<1>8. ASSUME UNCHANGED <<entries, at>> PROVE FALSE
  BY <1>8
<1>9. CASE \/ \E j \in DOMAIN waiting : Router!GuardBlocks(j)
           \/ Router!TransitionBegins \/ \E g \in Guards : Router!beforeEach(g)
           \/ \E j \in DOMAIN guards : Router!removeGuard(j)
  BY <1>8, <1>9 DEF Router!GuardBlocks, Router!TransitionBegins, Router!beforeEach, Router!removeGuard
<1> QED BY <1>3, <1>4, <1>5, <1>6, <1>7, <1>9 DEF Router!Next, Router!Transitions

\* A navigation moves only when every guard there is has agreed, in whatever order guards answer
\* and are registered while others wait, unless one it had passed was removed: the loop
\* over the guards in navigate() of router.ts, which keeps its index across each await.
THEOREM GuardsAreNotPassed == Router!Spec => Router!EveryGuardAgreed
BY RouterAlways, MoversAgreed, PTL DEF Router!Spec, Router!EveryGuardAgreed

\* Once all view transitions have begun, and none was overtaken, the route signal has the page of
\* the location, whichever navigation, redirect or traversal came last: commitRoute and the
\* popstate listener of router.ts.
THEOREM RouteFollowsLocation == Router!Spec => []Router!SignalShowsLocation
<1>1. RouterInv => Router!SignalShowsLocation
  BY DEF RouterInv, LastIsHere, Router!SignalShowsLocation
<1> QED BY <1>1, RouterAlways, PTL

-----------------------------------------------------------------------------
(* The zen-fetch directive of packages/data. *)

CONSTANTS Urls, DirectUrls, MaxRetries, MaxPageCalls, MaxPages
VARIABLES url, scheduled, fetchId, evaluated, shown,
          mutations, callbacks, mutation, pages, next, queries, querying, overlapped, calls

Fetch == INSTANCE DataHelpers WITH MaxCalls <- MaxPageCalls

\* The fetch that counts is for the URL that was evaluated, unless that one needs no fetch.
FetchIsOfUrl ==
  \A f \in fetches : /\ f.id \in Nat /\ f.id <= fetchId
                     /\ Fetch!IsCurrent(f) /\ evaluated.how = "fetch" /\ ~disposed => f.url = evaluated.url

\* Until it has ended nothing is settled, and after that its outcome is shown.
FetchedIsShown ==
  evaluated.how = "fetch" /\ ~disposed =>
    (\E f \in fetches : Fetch!IsCurrent(f)) \/ shown = [loading |-> FALSE, of |-> evaluated.url]

FetchInv == fetchId \in Nat /\ FetchIsOfUrl /\ FetchedIsShown /\ Fetch!LoadingIsBacked

LEMMA UrlAndEffectKeep ==
  ASSUME FetchInv, (\E u \in Urls : Fetch!UrlChanges(u)) \/ Fetch!EffectRuns \/ Fetch!cleanup
  PROVE  FetchInv'
<1>1. CASE \E u \in Urls : Fetch!UrlChanges(u)
  BY <1>1 DEF Fetch!UrlChanges, FetchInv, FetchIsOfUrl, FetchedIsShown, Fetch!LoadingIsBacked, Fetch!IsCurrent
<1>2. CASE Fetch!EffectRuns /\ url \in DirectUrls
  <2>1. /\ shown' = [loading |-> FALSE, of |-> url] /\ evaluated' = [url |-> url, how |-> "direct"]
        /\ UNCHANGED <<fetchId, fetches, disposed>>
    BY <1>2 DEF Fetch!EffectRuns
  <2> QED BY <2>1 DEF FetchInv, FetchIsOfUrl, FetchedIsShown, Fetch!LoadingIsBacked, Fetch!IsCurrent
<1>3. CASE Fetch!EffectRuns /\ url \notin DirectUrls
  <2> DEFINE new == [id |-> fetchId + 1, url |-> url, tries |-> 0, where |-> "net"]
  <2>1. /\ fetchId' = fetchId + 1 /\ evaluated' = [url |-> url, how |-> "fetch"] /\ disposed' = disposed
        /\ fetches' = {f \in fetches : f.where = "waits" \/ f.tries > 0} \cup {new}
    BY <1>3 DEF Fetch!EffectRuns
  <2>2. \A f \in fetches : f.id \in Nat /\ f.id <= fetchId /\ fetchId \in Nat
    BY DEF FetchInv, FetchIsOfUrl
  <2>3. new.id = fetchId + 1 /\ new.url = url
    OBVIOUS
  <2> HIDE DEF new
  <2>4. FetchIsOfUrl'
    BY <2>1, <2>2, <2>3 DEF FetchIsOfUrl, Fetch!IsCurrent, FetchInv
  <2>5. \E f \in fetches' : f.id = fetchId'
    BY <2>1, <2>3
  <2> QED BY <2>1, <2>4, <2>5 DEF FetchInv, FetchedIsShown, Fetch!LoadingIsBacked, Fetch!IsCurrent
<1>4. CASE Fetch!cleanup
  <2>1. disposed' /\ fetchId' = fetchId + 1 /\ fetches' \subseteq fetches
    BY <1>4 DEF Fetch!cleanup
  <2> QED BY <2>1 DEF FetchInv, FetchIsOfUrl, FetchedIsShown, Fetch!LoadingIsBacked
<1> QED BY <1>1, <1>2, <1>3, <1>4

LEMMA FetchStepKeeps ==
  ASSUME FetchInv, NEW f \in fetches, Fetch!Answered(f) \/ Fetch!RateLimited(f) \/ Fetch!WaitEnds(f)
  PROVE  FetchInv'
<1>1. UNCHANGED <<fetchId, evaluated, disposed, scheduled>>
  BY DEF Fetch!Answered, Fetch!RateLimited, Fetch!WaitEnds
\* Another attempt of the same fetch.
<1>2. ASSUME NEW g, g.id = f.id, g.url = f.url, fetches' = (fetches \ {f}) \cup {g},
             shown' = shown \/ (Fetch!IsCurrent(f) /\ shown' = [loading |-> TRUE, of |-> None])
      PROVE  FetchInv'
  <2>1. FetchIsOfUrl'
    BY <1>1, <1>2 DEF FetchInv, FetchIsOfUrl, Fetch!IsCurrent
  <2>2. (\E h \in fetches : h.id = fetchId) => \E h \in fetches' : h.id = fetchId'
    BY <1>1, <1>2
  <2>3. (f.id = fetchId) => \E h \in fetches' : h.id = fetchId'
    BY <1>1, <1>2
  <2> QED BY <1>1, <1>2, <2>1, <2>2, <2>3 DEF FetchInv, FetchedIsShown, Fetch!LoadingIsBacked, Fetch!IsCurrent
<1>3. ASSUME fetches' = fetches \ {f}, ~Fetch!IsCurrent(f), shown' = shown PROVE FetchInv'
  BY <1>1, <1>3 DEF FetchInv, FetchIsOfUrl, FetchedIsShown, Fetch!LoadingIsBacked, Fetch!IsCurrent
<1>4. ASSUME fetches' = fetches \ {f}, Fetch!IsCurrent(f), shown' = [loading |-> FALSE, of |-> f.url]
      PROVE  FetchInv'
  BY <1>1, <1>4 DEF FetchInv, FetchIsOfUrl, FetchedIsShown, Fetch!LoadingIsBacked, Fetch!IsCurrent
<1>5. CASE Fetch!Answered(f)
  BY <1>3, <1>4, <1>5 DEF Fetch!Answered
<1>6. CASE Fetch!RateLimited(f)
  <2> DEFINE g == [f EXCEPT !.where = "waits"]
  <2>1. g.id = f.id /\ g.url = f.url
    OBVIOUS
  <2>2. fetches' = (fetches \ {f}) \cup {g} /\ shown' = shown
    BY <1>6 DEF Fetch!RateLimited
  <2> HIDE DEF g
  <2> QED BY <1>2, <2>1, <2>2
<1>7. CASE Fetch!WaitEnds(f)
  <2> DEFINE g == [f EXCEPT !.where = "net", !.tries = @ + 1]
  <2>1. g.id = f.id /\ g.url = f.url
    OBVIOUS
  <2>2. CASE Fetch!IsCurrent(f)
    <3>1. fetches' = (fetches \ {f}) \cup {g} /\ shown' = [loading |-> TRUE, of |-> None]
      BY <1>7, <2>2 DEF Fetch!WaitEnds
    <3> HIDE DEF g
    <3> QED BY <1>2, <2>1, <2>2, <3>1
  <2>3. CASE ~Fetch!IsCurrent(f)
    BY <1>3, <1>7, <2>3 DEF Fetch!WaitEnds
  <2> QED BY <2>2, <2>3
<1> QED BY <1>5, <1>6, <1>7

LEMMA FetchAlways == Fetch!Spec => []FetchInv
<1>1. Fetch!Init => FetchInv
  BY DEF Fetch!Init, FetchInv, FetchIsOfUrl, FetchedIsShown, Fetch!LoadingIsBacked
<1>2. FetchInv /\ [Fetch!Next]_Fetch!vars => FetchInv'
  <2> SUFFICES ASSUME FetchInv, [Fetch!Next]_Fetch!vars PROVE FetchInv'
    OBVIOUS
  <2>1. CASE UNCHANGED Fetch!vars
    BY <2>1 DEF Fetch!vars, FetchInv, FetchIsOfUrl, FetchedIsShown, Fetch!LoadingIsBacked, Fetch!IsCurrent
  <2> QED BY <2>1, UrlAndEffectKeep, FetchStepKeeps DEF Fetch!Next
<1> QED BY <1>1, <1>2, PTL DEF Fetch!Spec

\* While zen-fetch shows that it is loading, a fetch is under way whose answer will be shown,
\* over 429s that it waits out and changes of its URL: performFetch and the effect of fetch.ts.
THEOREM FetchWillBeShown == Fetch!Spec => []Fetch!LoadingIsBacked
<1>1. FetchInv => Fetch!LoadingIsBacked
  BY DEF FetchInv
<1> QED BY <1>1, FetchAlways, PTL

\* When nothing is under way zen-fetch shows the answer for the URL it last evaluated, if that
\* URL was fetched, in whatever order fetches are answered or told to wait.
THEOREM SettledFetchIsOfUrl == Fetch!Spec => []Fetch!SettledShowsUrl
<1>1. FetchInv => Fetch!SettledShowsUrl
  BY DEF FetchInv, FetchedIsShown, Fetch!SettledShowsUrl
<1> QED BY <1>1, FetchAlways, PTL
-----------------------------------------------------------------------------
(* The outlet of packages/router. *)

CONSTANTS Sources, Parametric, MaxLoads
VARIABLES path, params, queued, loadId, cache, prefetched, content, cleaned

Outlet == INSTANCE Outlet

\* What the load that counts is of, and that "loading" waits for it.
LoadIsOfPath ==
  ~queued /\ ~cleaned /\ path # None =>
    /\ \A f \in fetches : f.id = loadId /\ f.id # 0 => f.src = path
    /\ \/ content \in {Outlet!Shows("page", path), Outlet!Shows("error", path)}
       \/ /\ content = Outlet!Shows("loading", path)
          /\ \E f \in fetches : f.id = loadId /\ f.id # 0 /\ ~f.background

OutletInv ==
  /\ loadId \in Nat /\ \A f \in fetches : f.id \in Nat /\ f.id <= loadId
  /\ LoadIsOfPath

\* Fetches may be added for a prefetch, or be aborted, which those who show pages do not see.
LEMMA FetchesKeep ==
  ASSUME OutletInv, UNCHANGED <<path, loadId, content>>, queued' = queued, cleaned' = cleaned,
         fetches' = fetches
  PROVE  OutletInv'
BY DEF OutletInv, LoadIsOfPath, Outlet!Shows

LEMMA AbortedFacts ==
  ASSUME OutletInv
  PROVE  /\ \A g \in Outlet!Aborted(fetches) : g.id \in Nat /\ g.id <= loadId
         /\ \A f \in fetches : f.id \in Nat
<1> DEFINE new(f) == IF f.id = loadId /\ f.id # 0 THEN [f EXCEPT !.aborted = TRUE] ELSE f
<1>1. \A f \in fetches : new(f).id = f.id
  OBVIOUS
<1>2. Outlet!Aborted(fetches) = {new(f) : f \in fetches}
  BY DEF Outlet!Aborted
<1> HIDE DEF new
<1> QED BY <1>1, <1>2 DEF OutletInv

LEMMA OutletEffectKeeps ==
  ASSUME OutletInv, Outlet!EffectRuns
  PROVE  OutletInv'
<1>1. path' = path /\ cleaned' = cleaned
  BY DEF Outlet!EffectRuns
<1>2. CASE path # None /\ ~params
  <2>1. UNCHANGED <<queued, loadId, fetches, content>> /\ queued
    BY <1>2 DEF Outlet!EffectRuns
  <2> QED BY <1>1, <2>1 DEF OutletInv, LoadIsOfPath, Outlet!Shows
<1>3. CASE path = None
  <2>1. UNCHANGED <<loadId, fetches>>
    BY <1>3 DEF Outlet!EffectRuns
  <2> QED BY <1>1, <1>3, <2>1 DEF OutletInv, LoadIsOfPath
<1>4. CASE path # None /\ params
  <2> DEFINE new == Outlet!Fetch(path, cache[path] = "stale")
             more == IF cache[path] = "fresh" THEN {} ELSE {new}
  <2>1. /\ loadId' = loadId + 1
        /\ content' = Outlet!Shows(IF cache[path] = "absent" THEN "loading" ELSE "page", path)
        /\ fetches' = Outlet!Aborted(fetches) \cup more
    BY <1>4 DEF Outlet!EffectRuns, Outlet!Load
  <2>2. new.id = loadId + 1 /\ new.src = path /\ (new.background <=> cache[path] = "stale")
    BY DEF Outlet!Fetch
  <2> HIDE DEF new
  <2>3. loadId' \in Nat /\ loadId' > loadId /\ loadId' # 0
    BY <2>1 DEF OutletInv
  <2>4. \A f \in fetches' : (f.id \in Nat /\ f.id <= loadId) \/ (f = new /\ cache[path] # "fresh")
    BY <2>1, AbortedFacts
  <2>5. \A f \in fetches' : f.id \in Nat /\ f.id <= loadId' /\ (f.id = loadId' => f.src = path)
    BY <2>1, <2>2, <2>3, <2>4 DEF OutletInv
  <2>6. cache[path] = "absent" => new \in fetches' /\ ~new.background
    BY <2>1, <2>2
  <2> QED BY <1>1, <2>1, <2>2, <2>3, <2>5, <2>6 DEF OutletInv, LoadIsOfPath
<1> QED BY <1>2, <1>3, <1>4

LEMMA OutletFetchKeeps ==
  ASSUME OutletInv, NEW f \in fetches, Outlet!FetchSucceeds(f) \/ Outlet!FetchFails(f)
  PROVE  OutletInv'
<1>1. PICK what \in {"page", "error"} : content' = Outlet!Rendered(f, what)
  BY DEF Outlet!FetchSucceeds, Outlet!FetchFails
<1>2. fetches' = fetches \ {f} /\ UNCHANGED <<path, queued, loadId, cleaned>>
  BY DEF Outlet!FetchSucceeds, Outlet!FetchFails
<1>3. CASE f.id # loadId \/ f.id = 0
  <2>1. content' = content
    BY <1>1, <1>3 DEF Outlet!Rendered
  <2> QED BY <1>2, <1>3, <2>1 DEF OutletInv, LoadIsOfPath, Outlet!Shows
<1>4. CASE f.id = loadId /\ f.id # 0 /\ f.background /\ what = "error"
  <2>1. content' = content
    BY <1>1, <1>4 DEF Outlet!Rendered
  <2> QED BY <1>2, <1>4, <2>1 DEF OutletInv, LoadIsOfPath, Outlet!Shows
<1>5. CASE f.id = loadId /\ f.id # 0 /\ ~(f.background /\ what = "error")
  <2>1. content' = Outlet!Shows(what, f.src)
    BY <1>1, <1>5 DEF Outlet!Rendered
  <2>2. ~queued /\ ~cleaned /\ path # None => f.src = path
    BY <1>5 DEF OutletInv, LoadIsOfPath
  <2> QED BY <1>1, <1>2, <2>1, <2>2 DEF OutletInv, LoadIsOfPath, Outlet!Shows
<1> QED BY <1>3, <1>4, <1>5

LEMMA OutletAlways == Outlet!Spec => []OutletInv
<1>1. Outlet!Init => OutletInv
  BY DEF Outlet!Init, OutletInv, LoadIsOfPath
<1>2. OutletInv /\ [Outlet!Next]_Outlet!vars => OutletInv'
  <2> SUFFICES ASSUME OutletInv, [Outlet!Next]_Outlet!vars PROVE OutletInv'
    OBVIOUS
  <2>1. ASSUME NEW p \in Sources \cup {None}, Outlet!RouteChanges(p) PROVE OutletInv'
    <3>1. UNCHANGED <<loadId, fetches, cleaned>> /\ queued' = ~cleaned
      BY <2>1 DEF Outlet!RouteChanges
    <3> QED BY <3>1 DEF OutletInv, LoadIsOfPath
  <2>2. CASE Outlet!EffectRuns
    BY <2>2, OutletEffectKeeps
  <2>3. ASSUME NEW f \in fetches, Outlet!FetchSucceeds(f) \/ Outlet!FetchFails(f) PROVE OutletInv'
    BY <2>3, OutletFetchKeeps
  <2>4. CASE Outlet!cleanup
    <3>1. cleaned' /\ loadId' = loadId /\ fetches' = Outlet!Aborted(fetches)
      BY <2>4 DEF Outlet!cleanup
    <3> QED BY <3>1, AbortedFacts DEF OutletInv, LoadIsOfPath
  <2>5. ASSUME NEW s \in Sources, Outlet!prefetchRoute(s) PROVE OutletInv'
    <3> DEFINE new == [id |-> 0, src |-> s, aborted |-> FALSE, background |-> TRUE]
    <3>1. fetches' = fetches \cup {new} /\ UNCHANGED <<path, queued, loadId, content, cleaned>>
      BY <2>5 DEF Outlet!prefetchRoute
    <3>2. new.id = 0
      OBVIOUS
    <3> HIDE DEF new
    <3> QED BY <3>1, <3>2 DEF OutletInv, LoadIsOfPath, Outlet!Shows
  <2>6. CASE \/ Outlet!clearRouteCache \/ UNCHANGED Outlet!vars
             \/ \E s \in Sources : Outlet!GrowsOld(s, "stale") \/ Outlet!GrowsOld(s, "absent")
    <3>1. UNCHANGED <<path, queued, loadId, fetches, content, cleaned>>
      BY <2>6 DEF Outlet!clearRouteCache, Outlet!GrowsOld, Outlet!vars
    <3> QED BY <3>1, FetchesKeep
  <2> QED BY <2>1, <2>2, <2>3, <2>4, <2>5, <2>6 DEF Outlet!Next
<1> QED BY <1>1, <1>2, PTL DEF Outlet!Spec

\* When nothing is queued or under way the outlet shows the page of the route there is, or that
\* it could not be had, whatever loads were overtaken, cached, prefetched or answered late:
\* the effect of processRouter in outlet.ts.
THEOREM OutletShowsRoute == Outlet!Spec => []Outlet!MatchIsShown
<1>1. OutletInv => Outlet!MatchIsShown
  BY DEF OutletInv, LoadIsOfPath, Outlet!MatchIsShown, Outlet!Settled
<1> QED BY <1>1, OutletAlways, PTL

-----------------------------------------------------------------------------
(* The flags of packages/feature-flags and the locale of packages/i18n. *)

CONSTANTS MaxRefreshes, MaxOverrides, Locales, Default, Rtl, Bundled, MaxCalls
VARIABLES data, override, overrides, cleanups, refreshes, timer, unordered,
          locale, lastDir, page, messages, available, loads, i18nDisposed

Chosen == INSTANCE Settings

InForce == Chosen!InForce

\* As long as cleanups come in the opposite order, each override in force has found the
\* newest of those before it.
FoundTheOneBefore ==
  ~unordered /\ ~disposed => \A i \in InForce :
    LET found == overrides[i].found IN
    /\ found = None => \A j \in InForce : j >= i
    /\ found # None => found \in InForce /\ found < i /\ \A j \in InForce : j < i => j <= found

\* The refreshes that the timer started, and LoopIsAlive in their terms.
Loops == {r \in refreshes : r.byTimer}
OneLoop ==
  /\ ~disposed => timer \/ Loops # {}
  /\ timer => Loops = {}
  /\ \A r, s \in Loops : r = s

FlagsInv ==
  /\ overrides \in Seq([found : Nat \cup {None}, inForce : BOOLEAN]) /\ override \in Nat \cup {None}
  /\ disposed \in BOOLEAN /\ unordered \in BOOLEAN
  /\ OneLoop /\ Chosen!NewestOverrideCounts /\ FoundTheOneBefore

FlagsConstants == None \notin Nat

LEMMA RefreshKeeps ==
  ASSUME FlagsInv,
         Chosen!refresh \/ Chosen!TimerFires \/ Chosen!dispose \/ \E r \in refreshes : Chosen!RefreshEnds(r)
  PROVE  FlagsInv'
<1>1. CASE Chosen!refresh \/ Chosen!TimerFires
  <2>1. UNCHANGED <<override, overrides, disposed, unordered>>
    BY <1>1 DEF Chosen!refresh, Chosen!TimerFires, Chosen!Starts
  <2>2. OneLoop'
    <3>1. CASE Chosen!refresh
      <4>1. UNCHANGED <<timer, disposed>> /\ refreshes' = refreshes \cup {[id |-> made + 1, byTimer |-> FALSE]}
        BY <3>1 DEF Chosen!refresh, Chosen!Starts
      <4>2. Loops' = Loops
        BY <4>1 DEF Loops
      <4> QED BY <4>1, <4>2 DEF FlagsInv, OneLoop
    <3>2. CASE Chosen!TimerFires
      <4> DEFINE new == [id |-> made + 1, byTimer |-> TRUE]
      <4>1. timer /\ ~timer' /\ refreshes' = refreshes \cup {new}
        BY <3>2 DEF Chosen!TimerFires, Chosen!Starts
      <4>2. Loops' = {new}
        BY <4>1 DEF FlagsInv, OneLoop, Loops
      <4> QED BY <4>1, <4>2 DEF FlagsInv, OneLoop
    <3> QED BY <1>1, <3>1, <3>2
  <2>3. InForce' = InForce
    BY <2>1 DEF InForce, Chosen!InForce, Chosen!Ids
  <2> QED BY <2>1, <2>2, <2>3 DEF FlagsInv, FoundTheOneBefore, Chosen!NewestOverrideCounts, InForce
<1>2. CASE \E r \in refreshes : Chosen!RefreshEnds(r)
  <2>1. UNCHANGED <<override, overrides, disposed, unordered>>
    BY <1>2 DEF Chosen!RefreshEnds
  <2>2. OneLoop'
    <3>1. PICK r \in refreshes : /\ refreshes' = refreshes \ {r} /\ timer' = (timer \/ r.byTimer)
                                 /\ disposed' = disposed
      BY <1>2 DEF Chosen!RefreshEnds, Chosen!Rearms
    <3>2. Loops' = Loops \ {r} /\ (r.byTimer <=> r \in Loops)
      BY <3>1 DEF Loops
    <3> QED BY <3>1, <3>2 DEF FlagsInv, OneLoop
  <2>3. InForce' = InForce
    BY <2>1 DEF InForce, Chosen!InForce, Chosen!Ids
  <2> QED BY <2>1, <2>2, <2>3 DEF FlagsInv, FoundTheOneBefore, Chosen!NewestOverrideCounts, InForce
<1>3. CASE Chosen!dispose
  BY <1>3 DEF Chosen!dispose, FlagsInv, OneLoop, Loops, FoundTheOneBefore, Chosen!NewestOverrideCounts
<1> QED BY <1>1, <1>2, <1>3

LEMMA OverrideKeeps ==
  ASSUME FlagsConstants, FlagsInv, Chosen!Override
  PROVE  FlagsInv'
<1> DEFINE new == Len(overrides) + 1
<1>1. /\ overrides' = Append(overrides, [found |-> override, inForce |-> TRUE]) /\ override' = new
      /\ UNCHANGED <<refreshes, timer, disposed, unordered>>
  BY DEF Chosen!Override
<1>2. overrides' \in Seq([found : Nat \cup {None}, inForce : BOOLEAN]) /\ new \in Nat \ {0}
  BY <1>1 DEF FlagsInv
<1>3. /\ DOMAIN overrides = 1..new - 1 /\ DOMAIN overrides' = 1..new
      /\ overrides'[new] = [found |-> override, inForce |-> TRUE]
      /\ \A i \in 1..new - 1 : overrides'[i] = overrides[i]
  BY <1>1 DEF FlagsInv
<1>4. InForce' = InForce \cup {new} /\ InForce \subseteq 1..new - 1
  BY <1>3 DEF InForce, Chosen!InForce, Chosen!Ids
<1>5. OneLoop'
  BY <1>1 DEF FlagsInv, OneLoop, Loops
<1>6. Chosen!NewestOverrideCounts'
  BY <1>1, <1>2, <1>4 DEF FlagsConstants, Chosen!NewestOverrideCounts, InForce
<1>7. FoundTheOneBefore'
  <2> SUFFICES ASSUME ~unordered, ~disposed, NEW i \in InForce'
               PROVE  LET found == overrides'[i].found IN
                      /\ found = None => \A j \in InForce' : j >= i
                      /\ found # None => found \in InForce' /\ found < i /\ \A j \in InForce' : j < i => j <= found
    BY <1>1 DEF FoundTheOneBefore
  <2>1. CASE i = new
    BY <2>1, <1>2, <1>3, <1>4 DEF FlagsInv, Chosen!NewestOverrideCounts, InForce
  <2>2. CASE i # new
    <3>1. i \in InForce /\ i \in 1..new - 1 /\ overrides'[i] = overrides[i]
      BY <2>2, <1>3, <1>4
    <3> QED BY <3>1, <1>2, <1>4 DEF FlagsInv, FoundTheOneBefore
  <2> QED BY <2>1, <2>2
<1> QED BY <1>1, <1>2, <1>5, <1>6, <1>7 DEF FlagsInv

LEMMA CleanupKeeps ==
  ASSUME FlagsConstants, FlagsInv, NEW i \in Chosen!Ids, Chosen!Cleanup(i)
  PROVE  FlagsInv'
<1>1. /\ overrides[i].inForce /\ overrides' = [overrides EXCEPT ![i].inForce = FALSE]
      /\ override' = overrides[i].found
      /\ unordered' = (unordered \/ \E j \in InForce : j > i)
      /\ UNCHANGED <<refreshes, timer, disposed>>
  BY DEF Chosen!Cleanup, Chosen!PutBack, InForce
<1>2. /\ DOMAIN overrides \subseteq Nat /\ DOMAIN overrides' = DOMAIN overrides /\ i \in InForce
      /\ \A j \in DOMAIN overrides : overrides[j] \in [found : Nat \cup {None}, inForce : BOOLEAN]
      /\ \A j \in DOMAIN overrides : overrides'[j].found = overrides[j].found
  <2> DEFINE One == [found : Nat \cup {None}, inForce : BOOLEAN]
  <2>1. overrides \in Seq(One) /\ i \in DOMAIN overrides
    BY DEF FlagsInv, Chosen!Ids
  <2> HIDE DEF One
  <2>2. DOMAIN overrides = 1..Len(overrides) /\ \A j \in DOMAIN overrides : overrides[j] \in One
    BY <2>1
  <2>3. \A j \in DOMAIN overrides :
          overrides'[j] = IF j = i THEN [overrides[i] EXCEPT !.inForce = FALSE] ELSE overrides[j]
    BY <1>1, <2>1
  <2> QED BY <1>1, <2>1, <2>2, <2>3 DEF One, InForce, Chosen!InForce, Chosen!Ids
<1>3. overrides' \in Seq([found : Nat \cup {None}, inForce : BOOLEAN]) /\ override' \in Nat \cup {None}
  <2> DEFINE One == [found : Nat \cup {None}, inForce : BOOLEAN]
  <2>1. overrides \in Seq(One) /\ i \in 1..Len(overrides)
    BY DEF FlagsInv, Chosen!Ids
  <2>2. [overrides[i] EXCEPT !.inForce = FALSE] \in One /\ overrides[i].found \in Nat \cup {None}
    <3>1. overrides[i] \in One
      <4> HIDE DEF One
      <4> QED BY <2>1
    <3> QED BY <3>1
  <2>3. overrides' = [overrides EXCEPT ![i] = [overrides[i] EXCEPT !.inForce = FALSE]]
    BY <1>1
  <2> HIDE DEF One
  <2>4. overrides' \in Seq(One)
    BY <2>1, <2>2, <2>3
  <2> QED BY <1>1, <2>2, <2>4 DEF One
<1>4. InForce' = InForce \ {i} /\ InForce \subseteq DOMAIN overrides
  BY <1>1, <1>2 DEF InForce, Chosen!InForce, Chosen!Ids, FlagsInv
<1>5. OneLoop' /\ unordered' \in BOOLEAN
  BY <1>1 DEF FlagsInv, OneLoop, Loops
<1>6. ASSUME ~unordered', ~disposed' PROVE ~unordered /\ ~disposed /\ \A j \in InForce : j <= i
  BY <1>1, <1>2, <1>4, <1>6 DEF FlagsInv
<1>7. Chosen!NewestOverrideCounts'
  <2> SUFFICES ASSUME ~unordered', ~disposed'
               PROVE  /\ override' = None => InForce' = {}
                      /\ override' # None => override' \in InForce' /\ \A j \in InForce' : j <= override'
    BY DEF Chosen!NewestOverrideCounts, InForce
  <2> QED BY <1>1, <1>2, <1>3, <1>4, <1>6 DEF FlagsInv, FoundTheOneBefore, FlagsConstants
<1>8. FoundTheOneBefore'
  <2> SUFFICES ASSUME ~unordered', ~disposed', NEW j \in InForce'
               PROVE  LET found == overrides'[j].found IN
                      /\ found = None => \A k \in InForce' : k >= j
                      /\ found # None => found \in InForce' /\ found < j /\ \A k \in InForce' : k < j => k <= found
    BY DEF FoundTheOneBefore
  <2>1. /\ j \in InForce /\ j # i /\ overrides'[j].found = overrides[j].found /\ j \in Nat /\ i \in Nat /\ j < i
    BY <1>2, <1>4, <1>6
  <2> QED BY <2>1, <1>2, <1>4, <1>6 DEF FlagsInv, FoundTheOneBefore, FlagsConstants
<1> QED BY <1>1, <1>3, <1>5, <1>7, <1>8 DEF FlagsInv

LEMMA FlagsAlways ==
  ASSUME FlagsConstants
  PROVE  Chosen!Spec => []FlagsInv
<1>1. Chosen!Init => FlagsInv
  <2> SUFFICES ASSUME Chosen!Init PROVE FlagsInv
    OBVIOUS
  <2>1. /\ override = None /\ overrides = <<>> /\ refreshes = {} /\ timer = TRUE
        /\ disposed = FALSE /\ unordered = FALSE
    BY DEF Chosen!Init
  <2>2. InForce = {}
    BY <2>1 DEF InForce, Chosen!InForce, Chosen!Ids
  <2>3. overrides \in Seq([found : Nat \cup {None}, inForce : BOOLEAN])
    BY <2>1
  <2>4. OneLoop
    BY <2>1 DEF OneLoop, Loops
  <2> QED BY <2>1, <2>2, <2>3, <2>4 DEF FlagsInv, Chosen!NewestOverrideCounts, FoundTheOneBefore, InForce
<1>2. FlagsInv /\ [Chosen!Next]_Chosen!vars => FlagsInv'
  <2> SUFFICES ASSUME FlagsInv, [Chosen!Next]_Chosen!vars PROVE FlagsInv'
    OBVIOUS
  <2>1. CASE Chosen!Next
    BY <2>1, RefreshKeeps, OverrideKeeps, CleanupKeeps DEF Chosen!Next
  <2>2. CASE UNCHANGED Chosen!vars
    BY <2>2 DEF Chosen!vars, FlagsInv, OneLoop, Loops, Chosen!NewestOverrideCounts, FoundTheOneBefore,
                InForce, Chosen!InForce, Chosen!Ids
  <2> QED BY <2>1, <2>2
<1> QED BY <1>1, <1>2, PTL DEF Chosen!Spec

\* The flags go on being refreshed until dispose, one timer or one refresh it started at a time,
\* over failures and refreshes by hand: the loop of createFlags that rearms itself.
THEOREM FlagsStayFresh ==
  ASSUME FlagsConstants
  PROVE  Chosen!Spec => []Chosen!LoopIsAlive
<1>1. FlagsInv => Chosen!LoopIsAlive
  BY DEF FlagsInv, OneLoop, Loops, Chosen!LoopIsAlive
<1> QED BY <1>1, FlagsAlways, PTL

\* Cleanups that are called in the opposite order leave the newest override in force, however many
\* there are, though each puts back only what it found: override() of createFlags.
THEOREM OverridesNest ==
  ASSUME FlagsConstants
  PROVE  Chosen!Spec => []Chosen!NewestOverrideCounts
<1>1. FlagsInv => Chosen!NewestOverrideCounts
  BY DEF FlagsInv
<1> QED BY <1>1, FlagsAlways, PTL

-----------------------------------------------------------------------------
\* The list of locales, and what the types of the proof need.
LocaleInv ==
  /\ DOMAIN messages = Locales /\ \A i \in 1..Len(loads) : loads[i] \in Locales
  /\ loads \in Seq(Locales)
  /\ Chosen!PageFollowsLocale
  /\ ~crossed /\ ~i18nDisposed => available = Chosen!Listed(messages, locale)

LocaleConstants == Bundled \cup {Default} \subseteq Locales /\ "none" \notin Locales

LEMMA LocaleChanges ==
  ASSUME LocaleConstants, LocaleInv, NEW l \in Locales, NEW m, DOMAIN m = Locales, Chosen!Changes(l, m)
  PROVE  /\ DOMAIN messages' = Locales /\ Chosen!PageFollowsLocale'
         /\ ~crossed' => available' = Chosen!Listed(messages', locale')
<1>1. CASE Chosen!Becomes(l, m)
  BY <1>1 DEF LocaleConstants, Chosen!Becomes, Chosen!DirAfter, Chosen!PageFollowsLocale
<1>2. CASE \E inner \in Locales \ {l} : Chosen!BecomesCrossed(l, inner, m)
  BY <1>2 DEF Chosen!BecomesCrossed, Chosen!PageFollowsLocale
<1> QED BY <1>1, <1>2 DEF Chosen!Changes

LEMMA LocaleAlways ==
  ASSUME LocaleConstants
  PROVE  Chosen!LocaleSpec => []LocaleInv
<1>1. Chosen!LocaleInit => LocaleInv
  <2> SUFFICES ASSUME Chosen!LocaleInit PROVE LocaleInv
    OBVIOUS
  <2>1. loads = <<>> /\ messages = [l \in Locales |-> IF l \in Bundled \cup {Default} THEN {} ELSE {0}]
    BY DEF Chosen!LocaleInit, Chosen!Missing
  <2>2. available = Chosen!Listed(messages, locale)
    <3>1. available = Bundled \cup {Default} /\ locale = Default
      BY DEF Chosen!LocaleInit
    <3>2. \A l \in Locales : messages[l] # {0} <=> l \in Bundled \cup {Default}
      BY <2>1
    <3> QED BY <3>1, <3>2 DEF Chosen!Listed, Chosen!HasLocale, Chosen!Missing, LocaleConstants
  <2>3. Chosen!PageFollowsLocale
    BY DEF Chosen!LocaleInit, Chosen!PageFollowsLocale
  <2> QED BY <2>1, <2>2, <2>3 DEF LocaleInv
<1>2. LocaleInv /\ [Chosen!LocaleNext]_Chosen!localeVars => LocaleInv'
  <2> SUFFICES ASSUME LocaleInv, [Chosen!LocaleNext]_Chosen!localeVars PROVE LocaleInv'
    OBVIOUS
  <2>1. ASSUME NEW l \in Locales, Chosen!setLocale(l) PROVE LocaleInv'
    <3>1. CASE Chosen!HasLocale(messages, l)
      BY <2>1, <3>1, LocaleChanges DEF Chosen!setLocale, LocaleInv
    <3>2. CASE ~Chosen!HasLocale(messages, l)
      <4>1. loads' = Append(loads, l) /\ UNCHANGED <<locale, lastDir, page, stored, messages, available, crossed, i18nDisposed>>
        BY <2>1, <3>2 DEF Chosen!setLocale
      <4>2. loads' \in Seq(Locales) /\ \A i \in 1..Len(loads') : loads'[i] \in Locales
        BY <4>1 DEF LocaleInv
      <4> QED BY <4>1, <4>2 DEF LocaleInv, Chosen!PageFollowsLocale
    <3> QED BY <3>1, <3>2
  <2>2. ASSUME NEW l \in Locales, Chosen!Set(l) PROVE LocaleInv'
    BY <2>2 DEF Chosen!Set, LocaleInv, Chosen!PageFollowsLocale
  <2>3. ASSUME NEW l \in Locales, NEW merge, Chosen!addMessages(l, merge) PROVE LocaleInv'
    BY <2>3 DEF Chosen!addMessages, LocaleInv, Chosen!PageFollowsLocale
  <2>4. ASSUME NEW i \in 1..Len(loads), Chosen!Loaded(i) \/ Chosen!LoadFails(i) PROVE LocaleInv'
    <3> DEFINE left == SubSeq(loads, 1, i - 1) \o SubSeq(loads, i + 1, Len(loads))
    <3>1. left \in Seq(Locales) /\ \A k \in 1..Len(left) : left[k] \in Locales
      <4>1. SubSeq(loads, 1, i - 1) \in Seq(Locales) /\ SubSeq(loads, i + 1, Len(loads)) \in Seq(Locales)
        BY DEF LocaleInv
      <4>2. left \in Seq(Locales)
        BY <4>1
      <4> HIDE DEF left
      <4> QED BY <4>2
    <3>2. CASE Chosen!Loaded(i)
      <4>1. loads[i] \in Locales /\ DOMAIN [messages EXCEPT ![loads[i]] = {}] = Locales
        BY DEF LocaleInv
      <4>2. loads' = left /\ Chosen!Changes(loads[i], [messages EXCEPT ![loads[i]] = {}])
        BY <3>2 DEF Chosen!Loaded
      <4> QED BY <3>1, <4>1, <4>2, LocaleChanges DEF LocaleInv
    <3>3. CASE Chosen!LoadFails(i)
      <4>1. loads' = left /\ UNCHANGED <<locale, lastDir, page, stored, messages, available, crossed, i18nDisposed>>
        BY <3>3 DEF Chosen!LoadFails
      <4> QED BY <3>1, <4>1 DEF LocaleInv, Chosen!PageFollowsLocale
    <3> QED BY <2>4, <3>2, <3>3
  <2>5. ASSUME NEW c \in cleanups, Chosen!RemoveAdded(c) PROVE LocaleInv'
    BY <2>5 DEF Chosen!RemoveAdded, LocaleInv, Chosen!PageFollowsLocale
  <2>6. CASE Chosen!Dispose
    BY <2>6 DEF Chosen!Dispose, LocaleInv, Chosen!PageFollowsLocale
  <2>7. CASE UNCHANGED Chosen!localeVars
    BY <2>7 DEF Chosen!localeVars, LocaleInv, Chosen!PageFollowsLocale
  <2> QED BY <2>1, <2>2, <2>3, <2>4, <2>5, <2>6, <2>7 DEF Chosen!LocaleNext
<1> QED BY <1>1, <1>2, PTL DEF Chosen!LocaleSpec

\* The document, its direction, the stored choice and what the subscribers know are those of the
\* locale, and the list has every locale there are messages of, whatever answers come late.
THEOREM PageHasLocale ==
  ASSUME LocaleConstants
  PROVE  Chosen!LocaleSpec => [](Chosen!PageFollowsLocale /\ Chosen!ListIsComplete)
<1>1. LocaleInv => Chosen!PageFollowsLocale /\ Chosen!ListIsComplete
  BY DEF LocaleInv, Chosen!ListIsComplete, Chosen!Listed
<1> QED BY <1>1, LocaleAlways, PTL

-----------------------------------------------------------------------------
(* The caching strategies of packages/service-worker. *)

CONSTANTS Versions, MaxEdits
VARIABLES strategy, named, active, cleaning, store, server, req, kept

Strategy == INSTANCE CacheStrategies

VersionConstants == Versions \subseteq Nat \ {0} /\ 1 \in Versions

ToldWords == {"none", "pending", "offline", "not ok", "from cache", "from network"}
OneRequest == [worker : Nat, answer : ToldWords, asks : {"no", "opening", "opened", "asked", "answered"},
               body : Nat, had : BOOLEAN, failed : BOOLEAN]
StrategyTypes ==
  /\ active \in Versions \cup {0} /\ waiting \in Versions \cup {0} /\ server \in Nat \ {0}
  /\ kept \subseteq Versions /\ store \in [Strategy!Names -> Int] /\ req \in [Requests -> OneRequest]

\* Who asks, asks for the active worker, and who is waited for still asks; a page that may be
\* given what the cache had finds it there, and is past the cache only where that comes last.
Sound(q) ==
  /\ q.asks # "no" => q.worker = active /\ active # 0
  /\ q.answer = "pending" => q.asks # "no"
  /\ q.asks \in {"opening", "opened"} => q.answer = "pending"
  /\ q.asks = "answered" => q.body > 0
  /\ strategy = "networkFirst" => q.asks # "opened" /\ (q.answer = "from cache" => q.failed)
  /\ q.had /\ q.answer = "pending" =>
       /\ store[Strategy!CacheName(active)] > 0
       /\ q.asks \in {"asked", "answered"} => strategy \in {"networkFirst", "networkOnly"}
  /\ q.had /\ q.answer = "offline" => strategy = "networkOnly"

\* What is there and not to be judged by activate is of the active version or the one that
\* waits; no version that comes after the active one has been filled.
CachesSound ==
  /\ \A n \in Strategy!Names : store[n] # -1 /\ n \notin cleaning => active # 0 /\ n[1] \in {active, waiting, 0}
  /\ active # 0 => \A v \in kept : v <= active
  /\ waiting # 0 => active # 0 /\ waiting >= active
  /\ active \in kept => store[Strategy!CacheName(active)] > 0

StrategyInv == StrategyTypes /\ CachesSound /\ \A r \in Requests : Sound(req[r])

LEMMA CacheNameFacts ==
  ASSUME NEW v \in Versions
  PROVE  Strategy!CacheName(v) \in Strategy!Names /\ Strategy!CacheName(v)[1] = v
BY DEF Strategy!CacheName, Strategy!Names

\* A step of one request, which may put something into the cache of the active version.
LEMMA RequestMoves ==
  ASSUME VersionConstants, StrategyInv, NEW r \in Requests, Strategy!WorkersStay,
         req' \in [Requests -> OneRequest], \A s \in Requests \ {r} : req'[s] = req[s], Sound(req[r])',
         \/ store' = store /\ kept' = kept
         \/ /\ active # 0
            /\ \E c \in Int : store' = [store EXCEPT ![Strategy!CacheName(active)] = c]
                              /\ (c > 0 \/ c = store[Strategy!CacheName(active)] \/ store[Strategy!CacheName(active)] = -1)
            /\ kept' = kept \/ (kept' = kept \cup {active} /\ store'[Strategy!CacheName(active)] > 0)
  PROVE  StrategyInv'
<1> DEFINE mine == Strategy!CacheName(active)
<1>1. UNCHANGED <<strategy, named, active, waiting, cleaning, server>>
  BY DEF Strategy!WorkersStay
<1>2. Strategy!CacheName(active)' = mine
  BY <1>1 DEF Strategy!CacheName
<1>3. active # 0 => mine \in Strategy!Names /\ mine[1] = active
  BY CacheNameFacts DEF StrategyInv, StrategyTypes
<1>4. \/ store' = store /\ kept' = kept
      \/ /\ active # 0
         /\ \E c \in Int : store' = [store EXCEPT ![mine] = c] /\ (c > 0 \/ c = store[mine] \/ store[mine] = -1)
         /\ kept' = kept \/ (kept' = kept \cup {active} /\ store'[mine] > 0)
  OBVIOUS
<1> HIDE DEF mine
<1>5. store' \in [Strategy!Names -> Int]
  BY <1>4 DEF StrategyInv, StrategyTypes
<1>a. kept' \subseteq Versions
  BY <1>4 DEF StrategyInv, StrategyTypes
<1>6. \A n \in Strategy!Names : /\ store[n] > 0 => store'[n] > 0
                                /\ store'[n] # -1 => store[n] # -1 \/ (n = mine /\ active # 0)
  <2>1. CASE store' = store
    BY <2>1
  <2>2. ASSUME active # 0, NEW c \in Int, store' = [store EXCEPT ![mine] = c],
               c > 0 \/ c = store[mine] \/ store[mine] = -1
        PROVE  \A n \in Strategy!Names : /\ store[n] > 0 => store'[n] > 0
                                         /\ store'[n] # -1 => store[n] # -1 \/ (n = mine /\ active # 0)
    <3>1. \A n \in Strategy!Names : store[n] \in Int /\ store'[n] = IF n = mine THEN c ELSE store[n]
      BY <2>2 DEF StrategyInv, StrategyTypes
    <3> QED BY <2>2, <3>1
  <2> QED BY <1>4, <2>1, <2>2
<1>7. StrategyTypes'
  <2>1. Strategy!Names' = Strategy!Names
    BY DEF Strategy!Names
  <2> QED BY <1>1, <1>5, <1>a, <2>1 DEF StrategyInv, StrategyTypes
<1>8. CachesSound'
  <2>1. \A n \in Strategy!Names : store'[n] # -1 /\ n \notin cleaning => active # 0 /\ n[1] \in {active, waiting, 0}
    BY <1>3, <1>6 DEF StrategyInv, CachesSound
  <2>2. active # 0 => \A v \in kept' : v <= active
    <3>1. active # 0 => active <= active
      BY DEF StrategyInv, StrategyTypes, VersionConstants
    <3> QED BY <1>4, <3>1 DEF StrategyInv, CachesSound
  <2>3. active \in kept' => store'[mine] > 0
    <3>1. ASSUME active \in kept PROVE store'[mine] > 0
      <4>1. active # 0 /\ store[mine] > 0
        BY <3>1 DEF StrategyInv, CachesSound, StrategyTypes, VersionConstants, mine
      <4> QED BY <4>1, <1>3, <1>6
    <3> QED BY <1>4, <3>1
  <2>4. waiting # 0 => active # 0 /\ waiting >= active
    BY DEF StrategyInv, CachesSound
  <2> QED BY <1>1, <1>2, <2>1, <2>2, <2>3, <2>4 DEF CachesSound, Strategy!Names
<1>9. ASSUME NEW s \in Requests PROVE Sound(req[s])'
  <2>1. CASE s # r
    <3>1. Sound(req[s]) /\ req'[s] = req[s]
      BY <2>1 DEF StrategyInv, StrategyTypes
    <3>2. req[s].had /\ req[s].answer = "pending" => store'[mine] > 0
      <4> SUFFICES ASSUME req[s].had, req[s].answer = "pending" PROVE store'[mine] > 0
        OBVIOUS
      <4>1. active # 0 /\ store[mine] > 0
        BY <3>1 DEF Sound, mine
      <4> QED BY <4>1, <1>3, <1>6
    <3> QED BY <3>1, <3>2, <1>1, <1>2 DEF Sound
  <2> QED BY <2>1
<1> QED BY <1>7, <1>8, <1>9 DEF StrategyInv

LEMMA FetchEventKeeps ==
  ASSUME VersionConstants, StrategyInv, NEW r \in Requests, Strategy!FetchEvent(r)
  PROVE  StrategyInv'
<1> DEFINE had == store[Strategy!CacheName(active)] > 0
           first == IF strategy = "networkOnly" THEN "asked" ELSE "opening"
           q == [Strategy!NewRequest EXCEPT !.worker = active, !.answer = "pending", !.asks = first, !.had = had]
<1>1. /\ req' = [req EXCEPT ![r] = q] /\ store' = store /\ kept' = kept /\ Strategy!WorkersStay /\ active # 0
  BY DEF Strategy!FetchEvent, Strategy!StoreStays
<1>2. had \in BOOLEAN /\ first \in {"asked", "opening"} /\ active \in Nat
  BY DEF StrategyInv, StrategyTypes, VersionConstants
<1>3. q \in OneRequest /\ q.worker = active /\ q.answer = "pending" /\ q.asks = first /\ (q.had <=> had)
  <2> HIDE DEF had, first
  <2> QED BY <1>2 DEF OneRequest, ToldWords, Strategy!NewRequest
<1>4. req' \in [Requests -> OneRequest] /\ req'[r] = q /\ \A s \in Requests \ {r} : req'[s] = req[s]
  <2> HIDE DEF q
  <2> QED BY <1>1, <1>3 DEF StrategyInv, StrategyTypes
<1>5. Sound(req[r])'
  <2>1. UNCHANGED <<strategy, active, store, Strategy!CacheName(active)>>
    BY <1>1 DEF Strategy!WorkersStay, Strategy!CacheName
  <2> HIDE DEF q
  <2> QED BY <1>1, <1>3, <1>4, <2>1 DEF Sound
<1> QED BY <1>1, <1>4, <1>5, RequestMoves

LEMMA CacheStepKeeps ==
  ASSUME VersionConstants, StrategyInv, NEW r \in Requests, Strategy!Opened(r) \/ Strategy!Matched(r)
  PROVE  StrategyInv'
<1> DEFINE mine == Strategy!CacheName(active)
<1>1. req[r] \in OneRequest /\ Sound(req[r]) /\ Strategy!WorkersStay
  BY DEF StrategyInv, StrategyTypes, Strategy!Opened, Strategy!Matched
<1>2. req[r].worker = active /\ active # 0
  BY <1>1 DEF Strategy!Opened, Strategy!Matched, Sound
<1>3. UNCHANGED <<strategy, active, Strategy!CacheName(active)>>
  BY <1>1 DEF Strategy!WorkersStay, Strategy!CacheName
<1>4. CASE Strategy!Opened(r)
  <2> DEFINE q == [req[r] EXCEPT !.asks = IF strategy = "networkFirst" THEN "asked" ELSE "opened"]
             c == IF store[mine] = -1 THEN 0 ELSE store[mine]
  <2>1. req' = [req EXCEPT ![r] = q] /\ store' = [store EXCEPT ![mine] = c] /\ kept' = kept /\ req[r].asks = "opening"
    BY <1>2, <1>4 DEF Strategy!Opened
  <2>2. q \in OneRequest /\ mine \in Strategy!Names
    BY <1>1, <1>2, CacheNameFacts DEF OneRequest, ToldWords, StrategyInv, StrategyTypes
  <2>3. store[mine] \in Int
    BY <2>2 DEF StrategyInv, StrategyTypes
  <2>4. req' \in [Requests -> OneRequest] /\ req'[r] = q /\ \A s \in Requests \ {r} : req'[s] = req[s]
    <3> HIDE DEF q
    <3> QED BY <2>1, <2>2 DEF StrategyInv, StrategyTypes
  <2>5. store'[mine] = c
    BY <2>1, <2>2 DEF StrategyInv, StrategyTypes
  <2>a. /\ q.asks = IF strategy = "networkFirst" THEN "asked" ELSE "opened"
        /\ q.worker = req[r].worker /\ q.answer = req[r].answer /\ q.had = req[r].had /\ q.failed = req[r].failed
    BY <1>1 DEF OneRequest
  <2>6. Sound(req[r])'
    <3> HIDE DEF q, c
    <3>1. Sound(q)
      BY <1>1, <2>1, <2>a DEF Sound
    <3>2. q.had /\ q.answer = "pending" => store[mine] > 0
      BY <3>1 DEF Sound
    <3>3. q.had /\ q.answer = "pending" => store'[mine] > 0
      BY <3>2, <2>3, <2>5 DEF c
    <3> QED BY <1>3, <2>4, <3>1, <3>3 DEF Sound
  <2>7. c \in Int /\ (c > 0 \/ c = store[mine] \/ store[mine] = -1)
    BY <2>3
  <2> HIDE DEF c
  <2> QED BY <1>1, <1>2, <2>1, <2>4, <2>6, <2>7, RequestMoves
<1>5. CASE Strategy!Matched(r)
  <2> DEFINE hit == store[mine] > 0
             q == [req[r] EXCEPT !.answer = IF hit THEN "from cache" ELSE IF strategy = "cacheOnly" THEN "offline" ELSE @,
                                 !.asks = IF strategy = "cacheOnly" \/ (hit /\ strategy = "cacheFirst") THEN "no" ELSE "asked"]
  <2>1. req' = [req EXCEPT ![r] = q] /\ store' = store /\ kept' = kept /\ req[r].asks = "opened"
    BY <1>2, <1>5 DEF Strategy!Matched, Strategy!StoreStays
  <2>2. q \in OneRequest
    BY <1>1 DEF OneRequest, ToldWords
  <2>3. req' \in [Requests -> OneRequest] /\ req'[r] = q /\ \A s \in Requests \ {r} : req'[s] = req[s]
    <3> HIDE DEF q
    <3> QED BY <2>1, <2>2 DEF StrategyInv, StrategyTypes
  <2>a. /\ q.asks = IF strategy = "cacheOnly" \/ (hit /\ strategy = "cacheFirst") THEN "no" ELSE "asked"
        /\ q.answer = IF hit THEN "from cache" ELSE IF strategy = "cacheOnly" THEN "offline" ELSE req[r].answer
        /\ q.worker = req[r].worker /\ q.had = req[r].had /\ q.failed = req[r].failed
    BY <1>1 DEF OneRequest
  <2>4. Sound(req[r])'
    <3> HIDE DEF q
    <3>1. CASE hit
      BY <1>1, <1>2, <1>3, <2>1, <2>3, <2>a, <3>1 DEF Sound
    <3>2. CASE ~hit
      <4>1. /\ req'[r].asks = IF strategy = "cacheOnly" THEN "no" ELSE "asked"
            /\ req'[r].answer = IF strategy = "cacheOnly" THEN "offline" ELSE req[r].answer
            /\ req'[r].worker = active /\ req'[r].had = req[r].had /\ req'[r].failed = req[r].failed
        BY <1>2, <2>3, <2>a, <3>2
      <4>2. strategy # "networkFirst" /\ ~req[r].had
        BY <1>1, <2>1, <3>2 DEF Sound
      <4>3. ~req'[r].had /\ strategy' # "networkFirst"
        BY <1>3, <4>1, <4>2
      <4> QED BY <1>2, <1>3, <4>1, <4>3 DEF Sound
    <3> QED BY <3>1, <3>2
  <2> QED BY <1>1, <2>1, <2>3, <2>4, RequestMoves
<1> QED BY <1>4, <1>5

LEMMA NetworkStepKeeps ==
  ASSUME VersionConstants, StrategyInv, NEW r \in Requests,
         Strategy!ServerAnswers(r) \/ Strategy!Arrives(r) \/ Strategy!ArrivesNotOk(r) \/ Strategy!NetworkFails(r)
  PROVE  StrategyInv'
<1> DEFINE mine == Strategy!CacheName(active)
<1>1. req[r] \in OneRequest /\ Sound(req[r]) /\ Strategy!WorkersStay
  BY DEF StrategyInv, StrategyTypes, Strategy!ServerAnswers, Strategy!Arrives, Strategy!ArrivesNotOk, Strategy!NetworkFails
<1>2. req[r].worker = active /\ active # 0
  BY <1>1 DEF Strategy!ServerAnswers, Strategy!Arrives, Strategy!ArrivesNotOk, Strategy!NetworkFails, Sound
<1>3. UNCHANGED <<strategy, active, Strategy!CacheName(active)>>
  BY <1>1 DEF Strategy!WorkersStay, Strategy!CacheName
<1>4. mine \in Strategy!Names
  BY <1>1, <1>2, CacheNameFacts DEF StrategyInv, StrategyTypes
<1>5. CASE Strategy!ServerAnswers(r)
  <2> DEFINE q == [req[r] EXCEPT !.asks = "answered", !.body = server]
  <2>1. req' = [req EXCEPT ![r] = q] /\ store' = store /\ kept' = kept /\ req[r].asks = "asked"
    BY <1>5 DEF Strategy!ServerAnswers, Strategy!StoreStays
  <2>2. server \in Nat /\ server > 0
    BY DEF StrategyInv, StrategyTypes
  <2>a. q \in OneRequest
    BY <1>1, <2>2 DEF OneRequest, ToldWords
  <2>3. req' \in [Requests -> OneRequest] /\ req'[r] = q /\ \A s \in Requests \ {r} : req'[s] = req[s]
    <3> HIDE DEF q
    <3> QED BY <2>1, <2>a DEF StrategyInv, StrategyTypes
  <2>4. Sound(req[r])'
    BY <1>1, <1>3, <2>1, <2>2, <2>3 DEF Sound, OneRequest
  <2> QED BY <1>1, <2>1, <2>3, <2>4, RequestMoves
<1>6. CASE Strategy!Arrives(r) \/ Strategy!ArrivesNotOk(r)
  <2>1. PICK w : /\ w = "from network" \/ w = "not ok"
                 /\ req' = [req EXCEPT ![r] = [@ EXCEPT !.asks = "no", !.answer = Strategy!Given(r, w)]]
    BY <1>6 DEF Strategy!Arrives, Strategy!ArrivesNotOk
  <2> DEFINE q == [req[r] EXCEPT !.asks = "no", !.answer = Strategy!Given(r, w)]
  <2>2. q \in OneRequest /\ req' = [req EXCEPT ![r] = q]
    BY <1>1, <2>1 DEF OneRequest, ToldWords, Strategy!Given
  <2>3. req' \in [Requests -> OneRequest] /\ req'[r] = q /\ \A s \in Requests \ {r} : req'[s] = req[s]
    <3> HIDE DEF q
    <3> QED BY <2>2 DEF StrategyInv, StrategyTypes
  <2>4. Sound(req[r])'
    <3>1. q.asks = "no" /\ q.answer = Strategy!Given(r, w) /\ q.had = req[r].had /\ q.failed = req[r].failed
      BY <1>1 DEF OneRequest, ToldWords
    <3>2. Strategy!Given(r, w) # "pending" /\ (Strategy!Given(r, w) \in {"from cache", "offline"} => req[r].answer = Strategy!Given(r, w))
      BY <2>1 DEF Strategy!Given
    <3> HIDE DEF q
    <3> QED BY <1>1, <1>3, <2>3, <3>1, <3>2 DEF Sound
  <2>5. \/ store' = store /\ kept' = kept
        \/ store' = [store EXCEPT ![mine] = req[r].body] /\ kept' = kept \cup {active} /\ req[r].asks = "answered"
    BY <1>2, <1>6 DEF Strategy!Arrives, Strategy!ArrivesNotOk, Strategy!StoreStays
  <2>6. req[r].body \in Nat
    BY <1>1 DEF OneRequest
  <2>8. req[r].asks = "answered" => req[r].body > 0
    BY <1>1 DEF Sound
  <2>7. store' = [store EXCEPT ![mine] = req[r].body] => store'[mine] = req[r].body
    BY <1>4 DEF StrategyInv, StrategyTypes
  <2> DEFINE c == req[r].body
  <2> HIDE DEF c, q
  <2>9. \/ store' = store /\ kept' = kept
        \/ /\ store' = [store EXCEPT ![mine] = c] /\ c \in Nat /\ c > 0
           /\ kept' = kept \cup {active} /\ store'[mine] > 0
    <3>1. CASE store' = store /\ kept' = kept
      BY <3>1
    <3>2. CASE store' = [store EXCEPT ![mine] = req[r].body] /\ kept' = kept \cup {active} /\ req[r].asks = "answered"
      BY <3>2, <2>6, <2>7, <2>8 DEF c
    <3> QED BY <2>5, <3>1, <3>2
  <2>10. CASE store' = store /\ kept' = kept
    BY <1>1, <2>3, <2>4, <2>10, RequestMoves
  <2>11. CASE /\ store' = [store EXCEPT ![mine] = c] /\ c \in Nat /\ c > 0
              /\ kept' = kept \cup {active} /\ store'[mine] > 0
    <3> HIDE DEF mine
    <3>a. c \in Int
      BY <2>11
    <3>1. \E k \in Int : store' = [store EXCEPT ![mine] = k] /\ (k > 0 \/ k = store[mine] \/ store[mine] = -1)
      BY <2>11, <3>a, Zenon
    <3> USE DEF mine
    <3> QED BY <1>1, <1>2, <2>3, <2>4, <2>11, <3>1, RequestMoves
  <2> QED BY <2>9, <2>10, <2>11
<1>7. CASE Strategy!NetworkFails(r)
  <2> DEFINE q == [req[r] EXCEPT !.asks = "no", !.failed = TRUE, !.answer = Strategy!Given(r, Strategy!Fallback(r))]
  <2>1. req' = [req EXCEPT ![r] = q] /\ store' = store /\ kept' = kept /\ req[r].asks \in {"asked", "answered"}
    BY <1>7 DEF Strategy!NetworkFails, Strategy!StoreStays
  <2>2. q \in OneRequest
    BY <1>1 DEF OneRequest, ToldWords, Strategy!Given, Strategy!Fallback
  <2>3. req' \in [Requests -> OneRequest] /\ req'[r] = q /\ \A s \in Requests \ {r} : req'[s] = req[s]
    <3> HIDE DEF q
    <3> QED BY <2>1, <2>2 DEF StrategyInv, StrategyTypes
  <2>4. Sound(req[r])'
    <3>1. /\ q.asks = "no" /\ q.failed /\ q.had = req[r].had
          /\ q.answer = IF req[r].answer # "pending" THEN req[r].answer
                        ELSE IF strategy = "networkFirst" /\ store[mine] > 0 THEN "from cache" ELSE "offline"
      BY <1>1, <1>2 DEF OneRequest, ToldWords, Strategy!Given, Strategy!Fallback
    <3> HIDE DEF q
    <3> QED BY <1>1, <1>3, <2>1, <2>3, <3>1 DEF Sound
  <2> QED BY <1>1, <2>1, <2>3, <2>4, RequestMoves
<1> QED BY <1>5, <1>6, <1>7

LEMMA WorkerKeeps ==
  ASSUME VersionConstants, StrategyInv,
         \/ Strategy!ServerEdits \/ Strategy!WorkerStops \/ (waiting # 0 /\ Strategy!Activates(waiting))
         \/ Strategy!KillSwitch \/ Strategy!Cleaned \/ \E v \in Versions : Strategy!Install(v)
  PROVE  StrategyInv'
<1> DEFINE mine == Strategy!CacheName(active)
<1>1. Strategy!Names' = Strategy!Names
  BY DEF Strategy!Names
<1>2. active # 0 => mine \in Strategy!Names /\ mine[1] = active
  BY CacheNameFacts DEF StrategyInv, StrategyTypes
<1>3. ASSUME Strategy!ServerEdits PROVE StrategyInv'
  <2>1. UNCHANGED <<strategy, named, active, waiting, cleaning, req, store, kept, Strategy!CacheName(active)>>
    BY <1>3 DEF Strategy!ServerEdits, Strategy!StoreStays, Strategy!CacheName
  <2>2. server' \in Nat \ {0}
    BY <1>3 DEF Strategy!ServerEdits, StrategyInv, StrategyTypes
  <2> QED BY <1>1, <2>1, <2>2 DEF StrategyInv, StrategyTypes, CachesSound, Sound
<1>4. ASSUME req' = Strategy!WithoutBackground, \A r \in Requests : req[r].answer # "pending", strategy' = strategy
      PROVE  req' \in [Requests -> OneRequest] /\ \A r \in Requests : Sound(req[r])'
  <2>1. ASSUME NEW r \in Requests
        PROVE  /\ req'[r] = [req[r] EXCEPT !.asks = "no"] /\ req[r] \in OneRequest
               /\ Sound(req[r]) /\ req[r].answer # "pending"
    BY <1>4 DEF Strategy!WithoutBackground, StrategyInv, StrategyTypes
  <2>2. ASSUME NEW r \in Requests
        PROVE  req'[r] \in OneRequest /\ Sound(req[r])'
    <3> DEFINE q == req'[r]
    <3>1. /\ q \in OneRequest /\ q.asks = "no"
          /\ q.answer = req[r].answer /\ q.had = req[r].had /\ q.failed = req[r].failed
      BY <2>1 DEF OneRequest
    <3> HIDE DEF q
    <3>2. /\ strategy = "networkFirst" => (q.answer = "from cache" => q.failed)
          /\ q.had /\ q.answer = "offline" => strategy = "networkOnly"
          /\ q.answer # "pending"
      BY <2>1, <3>1 DEF Sound
    <3> QED BY <1>4, <3>1, <3>2 DEF Sound, q
  <2> QED BY <1>4, <2>2 DEF Strategy!WithoutBackground
<1>5. ASSUME Strategy!WorkerStops PROVE StrategyInv'
  <2>1. /\ req' = Strategy!WithoutBackground /\ \A r \in Requests : req[r].answer # "pending"
        /\ UNCHANGED <<strategy, named, active, waiting, cleaning, server, store, kept, Strategy!CacheName(active)>>
    BY <1>5 DEF Strategy!WorkerStops, Strategy!WorkersStay, Strategy!StoreStays, Strategy!CacheName
  <2> QED BY <1>1, <1>4, <2>1 DEF StrategyInv, StrategyTypes, CachesSound
<1>6. ASSUME NEW v \in Versions \cup {0}, Strategy!Activates(v), active # 0, v = waiting \/ v = 0
      PROVE  StrategyInv'
  <2>1. /\ active' = v /\ waiting' = 0 /\ cleaning' = {n \in Strategy!Names : store[n] # -1}
        /\ req' = Strategy!WithoutBackground /\ \A r \in Requests : req[r].answer # "pending"
        /\ UNCHANGED <<strategy, named, server, store, kept>>
    BY <1>6 DEF Strategy!Activates
  <2>2. StrategyTypes'
    BY <1>1, <1>4, <2>1 DEF StrategyInv, StrategyTypes
  <2>3. v # 0 => v >= active /\ \A k \in kept : k <= active
    BY <1>6 DEF StrategyInv, CachesSound
  <2>4. ASSUME v # 0 PROVE v \in kept => v = active
    BY <2>3, <2>4 DEF StrategyInv, StrategyTypes, VersionConstants
  <2>5. v \in kept => store[Strategy!CacheName(v)] > 0
    BY <2>4 DEF StrategyInv, CachesSound, StrategyTypes, VersionConstants
  <2>6. Strategy!CacheName(active)' = Strategy!CacheName(v)
    BY <2>1 DEF Strategy!CacheName
  <2>7. v # 0 => \A k \in kept : k <= v
    BY <2>3 DEF StrategyInv, StrategyTypes, VersionConstants
  <2>8. CachesSound'
    BY <1>1, <2>1, <2>5, <2>6, <2>7 DEF CachesSound
  <2> QED BY <1>4, <2>1, <2>2, <2>8 DEF StrategyInv
<1>7. ASSUME (waiting # 0 /\ Strategy!Activates(waiting)) \/ Strategy!KillSwitch PROVE StrategyInv'
  <2>1. CASE Strategy!KillSwitch
    BY <2>1, <1>6 DEF Strategy!KillSwitch
  <2>2. CASE waiting # 0 /\ Strategy!Activates(waiting)
    BY <2>2, <1>6 DEF StrategyInv, StrategyTypes, CachesSound
  <2> QED BY <1>7, <2>1, <2>2
<1>8. ASSUME Strategy!Cleaned PROVE StrategyInv'
  <2>1. /\ cleaning' = {} /\ UNCHANGED <<strategy, named, active, waiting, server, req, kept, Strategy!CacheName(active)>>
        /\ store' = [n \in Strategy!Names |-> IF n \in cleaning \ Strategy!keepNames(active) THEN -1 ELSE store[n]]
    BY <1>8 DEF Strategy!Cleaned, Strategy!CacheName
  <2>2. StrategyTypes'
    BY <1>1, <2>1 DEF StrategyInv, StrategyTypes
  <2>3. active # 0 => store'[mine] = store[mine]
    BY <1>2, <2>1 DEF Strategy!keepNames
  <2>4. ASSUME NEW n \in Strategy!Names, store'[n] # -1 PROVE active # 0 /\ n[1] \in {active, waiting, 0}
    <3>1. store[n] # -1 /\ ~(n \in cleaning \ Strategy!keepNames(active))
      BY <2>1, <2>4
    <3>2. CASE n \in Strategy!keepNames(active)
      BY <1>2, <3>2 DEF Strategy!keepNames
    <3>3. CASE n \notin cleaning
      BY <3>1, <3>3 DEF StrategyInv, CachesSound
    <3> QED BY <3>1, <3>2, <3>3
  <2>5. active # 0 /\ active \in kept => store'[mine] > 0
    BY <2>3 DEF StrategyInv, CachesSound
  <2>6. active \in kept => active # 0
    BY DEF StrategyInv, StrategyTypes, VersionConstants
  <2>7. CachesSound'
    BY <1>1, <2>1, <2>4, <2>5, <2>6 DEF StrategyInv, CachesSound
  <2>8. ASSUME NEW r \in Requests PROVE Sound(req[r])'
    <3>1. Sound(req[r]) /\ req'[r] = req[r]
      BY <2>1 DEF StrategyInv
    <3>2. req[r].had /\ req[r].answer = "pending" => store'[mine] > 0
      BY <2>3, <3>1 DEF Sound
    <3> QED BY <2>1, <3>1, <3>2 DEF Sound
  <2> QED BY <2>2, <2>7, <2>8 DEF StrategyInv
<1>9. ASSUME NEW v \in Versions, Strategy!Install(v) PROVE StrategyInv'
  <2> DEFINE pre == <<v, "precache">>
  <2>1. /\ waiting = 0 /\ cleaning = {} /\ active # 0 /\ v >= active /\ waiting' = v
        /\ store' = [store EXCEPT ![pre] = IF @ = -1 THEN 0 ELSE @]
        /\ UNCHANGED <<strategy, named, active, cleaning, server, req, kept, Strategy!CacheName(active)>>
    BY <1>9 DEF Strategy!Install, Strategy!CacheName
  <2>2. pre \in Strategy!Names /\ pre[1] = v
    BY DEF Strategy!Names
  <2> HIDE DEF pre
  <2>3. /\ store' \in [Strategy!Names -> Int]
        /\ \A n \in Strategy!Names : n # pre => store'[n] = store[n]
        /\ store[pre] # -1 => store'[pre] = store[pre]
    BY <2>1, <2>2 DEF StrategyInv, StrategyTypes
  <2>4. StrategyTypes'
    BY <1>1, <2>1, <2>3 DEF StrategyInv, StrategyTypes
  <2>5. store[mine] > 0 => store'[mine] > 0
    BY <1>2, <2>1, <2>3
  <2>6. CachesSound'
    <3>1. \A n \in Strategy!Names : store'[n] # -1 => n[1] \in {active, v, 0}
      BY <2>1, <2>2, <2>3 DEF StrategyInv, CachesSound
    <3> QED BY <1>1, <2>1, <2>5, <3>1 DEF StrategyInv, CachesSound
  <2>7. ASSUME NEW r \in Requests PROVE Sound(req[r])'
    <3>1. Sound(req[r]) /\ req'[r] = req[r]
      BY <2>1 DEF StrategyInv
    <3> QED BY <2>1, <2>5, <3>1 DEF Sound
  <2> QED BY <2>4, <2>6, <2>7 DEF StrategyInv
<1> QED BY <1>3, <1>5, <1>7, <1>8, <1>9

LEMMA StrategyAlways ==
  ASSUME VersionConstants
  PROVE  Strategy!Spec => []StrategyInv
<1>1. Strategy!Init => StrategyInv
  <2> SUFFICES ASSUME Strategy!Init PROVE StrategyInv
    OBVIOUS
  <2>1. /\ active = 1 /\ waiting = 0 /\ cleaning = {} /\ server = 1 /\ kept = {}
        /\ store = [n \in Strategy!Names |-> IF n[1] = 0 THEN 0 ELSE -1]
        /\ req = [r \in Requests |-> Strategy!NewRequest]
    BY DEF Strategy!Init
  <2>2. Strategy!NewRequest \in OneRequest /\ Sound(Strategy!NewRequest)
    BY DEF Strategy!NewRequest, OneRequest, ToldWords, Sound
  <2>3. StrategyTypes
    BY <2>1, <2>2 DEF StrategyTypes, VersionConstants
  <2>4. CachesSound
    BY <2>1 DEF CachesSound
  <2> QED BY <2>1, <2>2, <2>3, <2>4 DEF StrategyInv
<1>2. StrategyInv /\ [Strategy!Next]_Strategy!vars => StrategyInv'
  <2> SUFFICES ASSUME StrategyInv, [Strategy!Next]_Strategy!vars PROVE StrategyInv'
    OBVIOUS
  <2>1. CASE Strategy!Next
    BY <2>1, FetchEventKeeps, CacheStepKeeps, NetworkStepKeeps, WorkerKeeps DEF Strategy!Next
  <2>2. CASE UNCHANGED Strategy!vars
    <3>1. UNCHANGED <<strategy, named, active, waiting, cleaning, store, server, req, kept,
                      Strategy!CacheName(active), Strategy!Names>>
      BY <2>2 DEF Strategy!vars, Strategy!CacheName, Strategy!Names
    <3> QED BY <3>1 DEF StrategyInv, StrategyTypes, CachesSound, Sound
  <2> QED BY <2>1, <2>2
<1> QED BY <1>1, <1>2, PTL DEF Strategy!Spec

\* Under every strategy a page gets what the cache had when it asked, or the newest if the
\* network comes first, whatever updates of the worker and other requests come between:
\* the strategies of strategies.ts.
THEOREM PagesGetWhatIsThere ==
  ASSUME VersionConstants
  PROVE  Strategy!Spec => [](Strategy!OfflineMeansNothing /\ Strategy!NetworkComesFirst)
<1>1. StrategyInv => Strategy!OfflineMeansNothing /\ Strategy!NetworkComesFirst
  BY DEF StrategyInv, Sound, Strategy!OfflineMeansNothing, Strategy!NetworkComesFirst
<1> QED BY <1>1, StrategyAlways, PTL

\* Once the active version has cached something it is kept through installs, activations and
\* deletions, and after them nothing of an earlier version is left: install and activate of sw.ts.
THEOREM CachesOutliveUpdates ==
  ASSUME VersionConstants
  PROVE  Strategy!Spec => []Strategy!UpdatesKeepCaches
<1>1. StrategyInv => Strategy!UpdatesKeepCaches
  BY DEF StrategyInv, CachesSound, Strategy!UpdatesKeepCaches
<1> QED BY <1>1, StrategyAlways, PTL
-----------------------------------------------------------------------------
(* The boundaries of packages/suspense. *)

CONSTANTS Children, Siblings, HasTimeout, InnerId, Promises, TrackTimeout, HasDelay, MaxGenerations
VARIABLES inner, outer, released, ctx, tracked, generation, loading, delaying, error, ready

Fallback == INSTANCE Suspense

\* A boundary with its timer as TimeoutIsArmed says; one that has settled waits for nobody, one
\* that is loading for somebody.
Sane(b, Ids, T) ==
  /\ b \in Fallback!Boundary(Ids)
  /\ b.timer <=> (T /\ b.loading /\ ~b.timedOut /\ ~b.error)
  /\ b.settled => b.set = {}
  /\ b.loading => b.set # {}

LEMMA UpdateIsSane ==
  ASSUME NEW Ids, NEW T \in BOOLEAN, NEW b \in Fallback!Boundary(Ids),
         b.timer => T /\ ~b.timedOut /\ ~b.error
  PROVE  /\ Sane(Fallback!updateState(b, T), Ids, T) /\ Fallback!updateState(b, T).set = b.set
         /\ Fallback!updateState(b, T).loading <=> b.set # {}
<1>1. b.set \in SUBSET Ids /\ b.timer \in BOOLEAN /\ b.timedOut \in BOOLEAN /\ b.error \in BOOLEAN
  BY DEF Fallback!Boundary
<1> DEFINE u == Fallback!updateState(b, T)
           waits == b.set # {}
           late == waits /\ b.timedOut
           timed == waits /\ (b.timer \/ (T /\ ~b.timedOut /\ ~b.error))
           over == ~waits /\ ~b.error /\ ~late
<1>2. u = [b EXCEPT !.loading = waits, !.timedOut = late, !.timer = timed, !.settled = over]
  BY DEF Fallback!updateState
<1>3. waits \in BOOLEAN /\ late \in BOOLEAN /\ timed \in BOOLEAN /\ over \in BOOLEAN
  OBVIOUS
<1>4. /\ timed <=> (T /\ waits /\ ~late /\ ~b.error)
      /\ over => b.set = {}
      /\ waits <=> b.set # {}
  BY <1>1
<1> HIDE DEF u, waits, late, timed, over
<1>5. /\ u \in Fallback!Boundary(Ids) /\ u.set = b.set /\ u.loading = waits /\ u.timedOut = late
      /\ u.timer = timed /\ u.settled = over /\ u.error = b.error
  BY <1>2, <1>3 DEF Fallback!Boundary
<1> QED BY <1>4, <1>5 DEF Sane, u

LEMMA StartIsSane ==
  ASSUME NEW Ids, NEW T \in BOOLEAN, NEW b, Sane(b, Ids, T), NEW id \in Ids
  PROVE  Sane(Fallback!startLoading(b, id, T), Ids, T) /\ Fallback!startLoading(b, id, T).set = b.set \cup {id}
<1> DEFINE added == [b EXCEPT !.set = @ \cup {id}]
           new == [added EXCEPT !.timedOut = FALSE, !.error = FALSE, !.loading = TRUE, !.timer = T]
<1>1. b \in Fallback!Boundary(Ids) /\ b.set \in SUBSET Ids
  BY DEF Sane, Fallback!Boundary
<1>2. /\ added \in Fallback!Boundary(Ids) /\ added.set = b.set \cup {id} /\ added.timer = b.timer
      /\ added.timedOut = b.timedOut /\ added.error = b.error
  BY <1>1 DEF Fallback!Boundary
<1>3. /\ new \in Fallback!Boundary(Ids) /\ new.set = b.set \cup {id} /\ new.timer = T
      /\ ~new.timedOut /\ ~new.error
  BY <1>1 DEF Fallback!Boundary
<1>4. \/ Fallback!startLoading(b, id, T) = Fallback!updateState(added, T)
      \/ Fallback!startLoading(b, id, T) = Fallback!updateState(new, T)
  BY DEF Fallback!startLoading
<1> HIDE DEF added, new
<1> QED BY <1>2, <1>3, <1>4, UpdateIsSane DEF Sane

LEMMA StopIsSane ==
  ASSUME NEW Ids, NEW T \in BOOLEAN, NEW b, Sane(b, Ids, T), NEW id \in Ids
  PROVE  Sane(Fallback!stopLoading(b, id, T), Ids, T) /\ Fallback!stopLoading(b, id, T).set = b.set \ {id}
<1> DEFINE less == [b EXCEPT !.set = @ \ {id}]
<1>1. /\ less \in Fallback!Boundary(Ids) /\ less.set = b.set \ {id} /\ less.timer = b.timer
      /\ less.timedOut = b.timedOut /\ less.error = b.error
  BY DEF Sane, Fallback!Boundary
<1>2. Fallback!stopLoading(b, id, T) = Fallback!updateState(less, T)
  BY DEF Fallback!stopLoading
<1> HIDE DEF less
<1> QED BY <1>1, <1>2, UpdateIsSane DEF Sane

LEMMA StopLoads ==
  ASSUME NEW Ids, NEW T \in BOOLEAN, NEW b, Sane(b, Ids, T), NEW id \in Ids
  PROVE  Fallback!stopLoading(b, id, T).loading <=> Fallback!stopLoading(b, id, T).set # {}
<1> DEFINE less == [b EXCEPT !.set = @ \ {id}]
<1>1. /\ less \in Fallback!Boundary(Ids) /\ less.timer = b.timer
      /\ less.timedOut = b.timedOut /\ less.error = b.error
  BY DEF Sane, Fallback!Boundary
<1>2. Fallback!stopLoading(b, id, T) = Fallback!updateState(less, T)
  BY DEF Fallback!stopLoading
<1> HIDE DEF less
<1> QED BY <1>1, <1>2, UpdateIsSane DEF Sane

LEMMA ErrorIsSane ==
  ASSUME NEW Ids, NEW T, NEW b, Sane(b, Ids, T)
  PROVE  Sane(Fallback!reportError(b), Ids, T) /\ Fallback!reportError(b).set = b.set
BY DEF Sane, Fallback!reportError, Fallback!Boundary

LEMMA TimeoutIsSane ==
  ASSUME NEW Ids, NEW T, NEW b, Sane(b, Ids, T)
  PROVE  Sane(Fallback!reportTimeout(b), Ids, T) /\ Fallback!reportTimeout(b).set = b.set
BY DEF Sane, Fallback!reportTimeout, Fallback!Boundary

LEMMA ResetIsSane ==
  ASSUME NEW Ids, NEW T, NEW b, Sane(b, Ids, T)
  PROVE  Sane(Fallback!resetBoundary(b), Ids, T) /\ Fallback!resetBoundary(b).set = {}
BY DEF Sane, Fallback!resetBoundary, Fallback!Boundary

FreshIsSane ==
  \A Ids : \A T \in BOOLEAN : Sane(Fallback!Fresh, Ids, T)

LEMMA FreshFacts == FreshIsSane
BY DEF FreshIsSane, Sane, Fallback!Fresh, Fallback!Boundary

\* The inner boundary has a name of its own among those that the outer one waits for.
SuspenseConstants == InnerId \notin Siblings

\* Until it is cleaned up, or the outer one was reset, the inner boundary is waited for from the
\* moment that it is no longer settled.
NestInv ==
  /\ Sane(inner, Children, Fallback!InnerT) /\ Sane(outer, Siblings \cup {InnerId}, Fallback!OuterT)
  /\ ~inner.settled /\ ~cleaned /\ ~released => InnerId \in outer.set

LEMMA InnerKeeps ==
  ASSUME SuspenseConstants, NestInv, NEW b, Sane(b, Children, Fallback!InnerT), Fallback!InnerBecomes(b)
  PROVE  NestInv'
<1>1. /\ inner' = b /\ cleaned' = cleaned /\ released' = (released /\ b.settled = inner.settled)
      /\ outer' = IF b.settled = inner.settled THEN outer
                  ELSE IF b.settled THEN Fallback!stopLoading(outer, InnerId, Fallback!OuterT)
                       ELSE Fallback!startLoading(outer, InnerId, Fallback!OuterT)
  BY DEF Fallback!InnerBecomes
<1>2. Fallback!OuterT \in BOOLEAN /\ InnerId \in Siblings \cup {InnerId}
      /\ b.settled \in BOOLEAN /\ inner.settled \in BOOLEAN
  BY DEF Fallback!OuterT, Sane, NestInv, Fallback!Boundary
<1>3. /\ Sane(Fallback!startLoading(outer, InnerId, Fallback!OuterT), Siblings \cup {InnerId}, Fallback!OuterT)
      /\ Fallback!startLoading(outer, InnerId, Fallback!OuterT).set = outer.set \cup {InnerId}
      /\ Sane(Fallback!stopLoading(outer, InnerId, Fallback!OuterT), Siblings \cup {InnerId}, Fallback!OuterT)
  <2>1. Sane(outer, Siblings \cup {InnerId}, Fallback!OuterT)
    BY DEF NestInv
  <2>2. /\ Sane(Fallback!startLoading(outer, InnerId, Fallback!OuterT), Siblings \cup {InnerId}, Fallback!OuterT)
        /\ Fallback!startLoading(outer, InnerId, Fallback!OuterT).set = outer.set \cup {InnerId}
    BY <1>2, <2>1, StartIsSane
  <2>3. Sane(Fallback!stopLoading(outer, InnerId, Fallback!OuterT), Siblings \cup {InnerId}, Fallback!OuterT)
    BY <1>2, <2>1, StopIsSane
  <2> QED BY <2>2, <2>3
<1> QED BY <1>1, <1>2, <1>3 DEF NestInv

LEMMA OuterKeeps ==
  ASSUME SuspenseConstants, NestInv, NEW c \in Siblings,
         Fallback!SiblingStarts(c) \/ Fallback!SiblingStops(c) \/ Fallback!SiblingFails(c)
  PROVE  NestInv'
<1>1. Fallback!OuterT \in BOOLEAN /\ c \in Siblings \cup {InnerId} /\ c # InnerId
  BY DEF Fallback!OuterT, SuspenseConstants
<1>2. ASSUME NEW b, Sane(b, Siblings \cup {InnerId}, Fallback!OuterT), InnerId \in outer.set => InnerId \in b.set,
             Fallback!OuterBecomes(b)
      PROVE  NestInv'
  BY <1>2 DEF NestInv, Fallback!OuterBecomes
<1>3. Sane(outer, Siblings \cup {InnerId}, Fallback!OuterT)
  BY DEF NestInv
<1>4. CASE Fallback!SiblingStarts(c)
  <2>1. LET b == Fallback!startLoading(outer, c, Fallback!OuterT)
        IN  Sane(b, Siblings \cup {InnerId}, Fallback!OuterT) /\ b.set = outer.set \cup {c}
    BY <1>1, <1>3, StartIsSane
  <2> QED BY <1>2, <1>4, <2>1 DEF Fallback!SiblingStarts
<1>5. CASE Fallback!SiblingStops(c)
  <2>1. LET b == Fallback!stopLoading(outer, c, Fallback!OuterT)
        IN  Sane(b, Siblings \cup {InnerId}, Fallback!OuterT) /\ b.set = outer.set \ {c}
    BY <1>1, <1>3, StopIsSane
  <2> QED BY <1>1, <1>2, <1>5, <2>1 DEF Fallback!SiblingStops
<1>6. CASE Fallback!SiblingFails(c)
  BY <1>2, <1>3, <1>6, ErrorIsSane DEF Fallback!SiblingFails
<1> QED BY <1>4, <1>5, <1>6

LEMMA NestAlways == SuspenseConstants => (Fallback!Spec => []NestInv)
<1> SUFFICES ASSUME SuspenseConstants PROVE Fallback!Spec => []NestInv
  OBVIOUS
<1>0. Fallback!InnerT \in BOOLEAN /\ Fallback!OuterT \in BOOLEAN
  BY DEF Fallback!InnerT, Fallback!OuterT
<1>1. Fallback!Init => NestInv
  <2>1. SUFFICES ASSUME Fallback!Init PROVE NestInv
    OBVIOUS
  <2>2. Sane(Fallback!Fresh, Children, Fallback!InnerT) /\ Sane(Fallback!Fresh, Siblings \cup {InnerId}, Fallback!OuterT)
    BY <1>0, FreshFacts DEF FreshIsSane
  <2>3. InnerId \in Siblings \cup {InnerId} /\ Fallback!Fresh.settled
    BY DEF Fallback!Fresh
  <2> QED BY <1>0, <2>1, <2>2, <2>3, StartIsSane DEF NestInv, Fallback!Init
<1>2. NestInv /\ [Fallback!Next]_(Fallback!vars) => NestInv'
  <2> SUFFICES ASSUME NestInv, [Fallback!Next]_(Fallback!vars) PROVE NestInv'
    OBVIOUS
  <2>1. ASSUME NEW c \in Children,
               Fallback!ChildStarts(c) \/ Fallback!ChildStops(c) \/ Fallback!ChildFails(c)
        PROVE  NestInv'
    <3>1. Sane(inner, Children, Fallback!InnerT)
      BY DEF NestInv
    <3>2. CASE Fallback!ChildStarts(c)
      BY <1>0, <3>1, <3>2, StartIsSane, InnerKeeps DEF Fallback!ChildStarts
    <3>3. CASE Fallback!ChildStops(c)
      BY <1>0, <3>1, <3>3, StopIsSane, InnerKeeps DEF Fallback!ChildStops
    <3>4. CASE Fallback!ChildFails(c)
      BY <3>1, <3>4, ErrorIsSane, InnerKeeps DEF Fallback!ChildFails
    <3> QED BY <2>1, <3>2, <3>3, <3>4
  <2>2. ASSUME NEW c \in Siblings,
               Fallback!SiblingStarts(c) \/ Fallback!SiblingStops(c) \/ Fallback!SiblingFails(c)
        PROVE  NestInv'
    BY <2>2, OuterKeeps
  <2>3. CASE Fallback!InnerTimesOut \/ Fallback!InnerResets
    <3>1. Sane(inner, Children, Fallback!InnerT)
      BY DEF NestInv
    <3>2. CASE Fallback!InnerTimesOut
      BY <3>1, <3>2, TimeoutIsSane, InnerKeeps DEF Fallback!InnerTimesOut
    <3>3. CASE Fallback!InnerResets
      BY <3>1, <3>3, ResetIsSane, InnerKeeps DEF Fallback!InnerResets
    <3> QED BY <2>3, <3>2, <3>3
  <2>4. CASE Fallback!OuterTimesOut
    <3>1. Sane(Fallback!reportTimeout(outer), Siblings \cup {InnerId}, Fallback!OuterT)
          /\ Fallback!reportTimeout(outer).set = outer.set
      BY <1>0, TimeoutIsSane DEF NestInv
    <3> QED BY <2>4, <3>1 DEF NestInv, Fallback!OuterTimesOut, Fallback!OuterBecomes
  <2>5. CASE Fallback!OuterResets
    <3>1. Sane(Fallback!resetBoundary(outer), Siblings \cup {InnerId}, Fallback!OuterT)
      BY <1>0, ResetIsSane DEF NestInv
    <3> QED BY <2>5, <3>1 DEF NestInv, Fallback!OuterResets
  <2>6. CASE Fallback!cleanup
    <3>1. Sane(Fallback!stopLoading(outer, InnerId, Fallback!OuterT), Siblings \cup {InnerId}, Fallback!OuterT)
      BY <1>0, StopIsSane DEF NestInv
    <3> QED BY <2>6, <3>1 DEF NestInv, Fallback!cleanup
  <2>7. CASE UNCHANGED Fallback!vars
    BY <2>7 DEF NestInv, Fallback!vars
  <2> QED BY <2>1, <2>2, <2>3, <2>4, <2>5, <2>6, <2>7 DEF Fallback!Next
<1> QED BY <1>1, <1>2, PTL DEF Fallback!Spec

\* Whatever fails, times out, is reset or starts anew, a boundary that shows its fallback has its
\* timeout running, and the outer one waits as long as children of the inner one load: the
\* context of suspense.ts and processSuspense.
THEOREM BoundariesNest ==
  ASSUME SuspenseConstants
  PROVE  Fallback!Spec => [](Fallback!TimeoutIsArmed /\ Fallback!OuterWaitsForInner)
<1>1. NestInv => Fallback!TimeoutIsArmed /\ Fallback!OuterWaitsForInner
  BY DEF NestInv, Sane, Fallback!TimeoutIsArmed, Fallback!OuterWaitsForInner
<1> QED BY <1>1, NestAlways, PTL

-----------------------------------------------------------------------------
(* createSuspense. *)

SignalConstants == TrackTimeout \in BOOLEAN /\ HasDelay \in BOOLEAN

PhaseTypes ==
  /\ phase \in {"idle", "delayed-show", "shown"} /\ loading \in BOOLEAN /\ delaying \in BOOLEAN
  /\ phase = "idle" => ~loading /\ ~delaying
  /\ phase = "shown" => loading

\* The promises of this generation are those the context waits for.
TrackedAreWaitedFor ==
  /\ tracked \in [Promises -> Nat] /\ generation \in Nat \ {0}
  /\ \A p \in Promises : tracked[p] <= generation
  /\ ~disposed => \A p \in Promises : tracked[p] = generation <=> p \in ctx.set

TrackInv ==
  /\ Sane(ctx, Promises, TrackTimeout)
  /\ queued \in BOOLEAN /\ disposed \in BOOLEAN
  /\ PhaseTypes /\ TrackedAreWaitedFor
  /\ Fallback!ReadyMeansSettled /\ Fallback!IndicatorFollows

\* Where a transition leads: to what is shown, or about to be, exactly if that is loading.
LEMMA TransitionShows ==
  ASSUME SignalConstants, PhaseTypes, NEW isLoading \in BOOLEAN, Fallback!transition(isLoading)
  PROVE  PhaseTypes' /\ (loading' \/ delaying' <=> isLoading)
BY DEF SignalConstants, PhaseTypes, Fallback!transition

\* Promises come and end: the effect is queued unless nothing changed for it.
LEMMA TrackKeeps ==
  ASSUME SignalConstants, TrackInv, NEW p \in Promises,
         Fallback!track(p) \/ Fallback!Resolve(p) \/ Fallback!Reject(p)
  PROVE  TrackInv'
<1>1. p \in Promises /\ TrackTimeout \in BOOLEAN /\ Sane(ctx, Promises, TrackTimeout)
      /\ ctx.set \subseteq Promises
  BY DEF SignalConstants, TrackInv, Sane, Fallback!Boundary
<1>2. CASE Fallback!track(p)
  <2> DEFINE c == Fallback!startLoading(ctx, p, TrackTimeout)
  <2>1. /\ ~disposed /\ disposed' = disposed /\ tracked[p] = 0 /\ tracked' = [tracked EXCEPT ![p] = generation]
        /\ generation' = generation /\ ctx' = c /\ queued' = (queued \/ (c # ctx /\ ~disposed)) /\ ~ready'
    BY <1>2 DEF Fallback!track, Fallback!Context
  <2>2. Sane(c, Promises, TrackTimeout) /\ c.set = ctx.set \cup {p}
    <3>1. Sane(c, Promises, TrackTimeout)
      BY <1>1, StartIsSane
    <3>2. c.set = ctx.set \cup {p}
      BY <1>1, StartIsSane
    <3> QED BY <3>1, <3>2
  <2>3. p \notin ctx.set
    BY <2>1 DEF TrackInv, TrackedAreWaitedFor
  <2> HIDE DEF c
  <2>4. PhaseTypes'
    BY <1>2, TransitionShows DEF Fallback!track, TrackInv
  <2>5. TrackedAreWaitedFor'
    BY <2>1, <2>2 DEF TrackInv, TrackedAreWaitedFor
  <2>6. queued' \in BOOLEAN /\ queued' /\ c # ctx
    BY <2>1, <2>2, <2>3
  <2> QED BY <2>1, <2>2, <2>4, <2>5, <2>6 DEF TrackInv, Fallback!ReadyMeansSettled, Fallback!IndicatorFollows
<1>3. CASE (Fallback!Resolve(p) \/ Fallback!Reject(p)) /\ Fallback!IsStale(p)
  <2>1. /\ tracked[p] # 0 /\ tracked' = [tracked EXCEPT ![p] = 0] /\ ~ready' /\ (disposed \/ tracked[p] # generation)
        /\ UNCHANGED <<ctx, loading, phase, delaying, queued, generation, disposed>>
    BY <1>3 DEF Fallback!Resolve, Fallback!Reject, Fallback!Ignore, Fallback!IsStale
  <2>2. TrackedAreWaitedFor'
    BY <2>1 DEF TrackInv, TrackedAreWaitedFor
  <2> QED BY <2>1, <2>2 DEF TrackInv, PhaseTypes, Fallback!ReadyMeansSettled, Fallback!IndicatorFollows
<1>4. CASE (Fallback!Resolve(p) \/ Fallback!Reject(p)) /\ ~Fallback!IsStale(p)
  <2> DEFINE b == Fallback!stopLoading(ctx, p, TrackTimeout)
             e == Fallback!reportError(b)
  <2>1. Sane(b, Promises, TrackTimeout) /\ b.set = ctx.set \ {p} /\ (b.loading <=> b.set # {})
    <3>1. Sane(b, Promises, TrackTimeout) /\ b.set = ctx.set \ {p}
      BY <1>1, StopIsSane
    <3>2. b.loading <=> b.set # {}
      BY <1>1, StopLoads
    <3> QED BY <3>1, <3>2
  <2>2. Sane(e, Promises, TrackTimeout) /\ e.set = b.set
    BY <2>1, ErrorIsSane
  <2>3. /\ ~disposed /\ disposed' = disposed /\ tracked[p] = generation /\ tracked[p] # 0
        /\ tracked' = [tracked EXCEPT ![p] = 0] /\ generation' = generation
    BY <1>4 DEF Fallback!Resolve, Fallback!Reject, Fallback!IsStale
  <2>4. \/ Fallback!Context(b) /\ (ready' => Fallback!Ready(b))
        \/ Fallback!Context(e) /\ ~ready'
    BY <1>4 DEF Fallback!Resolve, Fallback!Reject
  <2>5. UNCHANGED <<loading, phase, delaying>> \/ Fallback!transition(FALSE)
    BY <1>4 DEF Fallback!Resolve, Fallback!Reject
  <2>6. PhaseTypes'
    <3>1. CASE UNCHANGED <<loading, phase, delaying>>
      BY <3>1 DEF TrackInv, PhaseTypes
    <3>2. CASE Fallback!transition(FALSE)
      BY <3>2, TransitionShows DEF TrackInv
    <3> QED BY <2>5, <3>1, <3>2
  <2>7. ready' => b.set = {}
    BY <2>1, <2>4 DEF Fallback!Ready
  <2> HIDE DEF b, e
  <2>8. PICK c : /\ Sane(c, Promises, TrackTimeout) /\ c.set = ctx.set \ {p}
                 /\ ctx' = c /\ queued' = (queued \/ (c # ctx /\ ~disposed))
    BY <2>1, <2>2, <2>4 DEF Fallback!Context
  <2>9. p \in ctx.set
    BY <2>3 DEF TrackInv, TrackedAreWaitedFor
  <2>10. TrackedAreWaitedFor'
    BY <2>3, <2>8 DEF TrackInv, TrackedAreWaitedFor
  <2>11. queued' \in BOOLEAN /\ queued' /\ c # ctx
    BY <2>3, <2>8, <2>9
  <2>12. Fallback!ReadyMeansSettled'
    BY <2>1, <2>3, <2>7, <2>8, <2>10 DEF TrackInv, TrackedAreWaitedFor, Fallback!ReadyMeansSettled
  <2> QED BY <2>3, <2>6, <2>8, <2>10, <2>11, <2>12 DEF TrackInv, Fallback!IndicatorFollows
<1> QED BY <1>2, <1>3, <1>4

LEMMA TimersKeep ==
  ASSUME SignalConstants, TrackInv,
         Fallback!EffectRuns \/ Fallback!DelayEnds \/ Fallback!TimesOut \/ Fallback!reset \/ Fallback!dispose
  PROVE  TrackInv'
<1>1. Sane(ctx, Promises, TrackTimeout) /\ TrackTimeout \in BOOLEAN
      /\ ctx.loading \in BOOLEAN /\ ctx.timedOut \in BOOLEAN /\ ctx.timer \in BOOLEAN
  BY DEF SignalConstants, TrackInv, Sane, Fallback!Boundary
<1>2. CASE Fallback!EffectRuns
  <2>1. PhaseTypes' /\ (loading' \/ delaying' <=> (ctx.loading /\ ~ctx.timedOut))
    BY <1>1, <1>2, TransitionShows DEF Fallback!EffectRuns, TrackInv
  <2>2. ~queued' /\ queued' = FALSE /\ ~ready' /\ UNCHANGED <<ctx, tracked, generation, disposed>>
    BY <1>2 DEF Fallback!EffectRuns
  <2> QED BY <2>1, <2>2 DEF TrackInv, TrackedAreWaitedFor, Fallback!ReadyMeansSettled, Fallback!IndicatorFollows
<1>3. CASE Fallback!DelayEnds
  <2>1. /\ delaying /\ ~delaying' /\ delaying' = FALSE /\ ~ready' /\ UNCHANGED <<ctx, tracked, generation, queued, disposed>>
        /\ IF phase = "delayed-show" /\ ctx.loading THEN phase' = "shown" /\ loading' = TRUE
           ELSE UNCHANGED <<phase, loading>>
    BY <1>3 DEF Fallback!DelayEnds
  <2>2. PhaseTypes'
    BY <2>1 DEF TrackInv, PhaseTypes
  <2>3. ~queued /\ ~disposed => loading' /\ ctx.loading /\ ~ctx.timedOut
    BY <1>1, <2>1 DEF TrackInv, PhaseTypes, Fallback!IndicatorFollows
  <2> QED BY <2>1, <2>2, <2>3 DEF TrackInv, TrackedAreWaitedFor, Fallback!ReadyMeansSettled, Fallback!IndicatorFollows
<1>4. CASE Fallback!TimesOut
  <2> DEFINE c == Fallback!reportTimeout(ctx)
  <2>1. /\ ctx.timer /\ ctx' = c /\ queued' = (queued \/ (c # ctx /\ ~disposed)) /\ ~ready'
        /\ UNCHANGED <<tracked, generation, loading, phase, delaying, disposed>>
    BY <1>4 DEF Fallback!TimesOut, Fallback!Context
  <2>2. Sane(c, Promises, TrackTimeout) /\ c.set = ctx.set
    BY <1>1, TimeoutIsSane
  <2>3. c.timer = FALSE
    BY <1>1 DEF Sane, Fallback!Boundary, Fallback!reportTimeout
  <2> HIDE DEF c
  <2>4. c # ctx
    BY <2>1, <2>3
  <2>5. queued' \in BOOLEAN /\ (queued' \/ disposed)
    BY <2>1, <2>4 DEF TrackInv
  <2> QED BY <2>1, <2>2, <2>5 DEF TrackInv, PhaseTypes, TrackedAreWaitedFor, Fallback!ReadyMeansSettled,
                                  Fallback!IndicatorFollows
<1>5. CASE Fallback!reset \/ Fallback!dispose
  <2> DEFINE c == Fallback!resetBoundary(ctx)
  <2>1. /\ ctx' = c /\ ~ready' /\ tracked' = tracked
        /\ queued' = (queued \/ (c # ctx /\ ~disposed)) \/ queued' = FALSE
        /\ \/ generation' = generation + 1 /\ disposed' = disposed
           \/ generation' = generation /\ disposed' = TRUE
    BY <1>5 DEF Fallback!reset, Fallback!dispose, Fallback!Context
  <2>2. Sane(c, Promises, TrackTimeout) /\ c.set = {}
    BY <1>1, ResetIsSane
  <2>3. c.loading = FALSE
    BY <1>1 DEF Sane, Fallback!Boundary, Fallback!resetBoundary
  <2>4. PhaseTypes' /\ ~(loading' \/ delaying')
    BY <1>5, TransitionShows DEF Fallback!reset, Fallback!dispose, TrackInv
  <2> HIDE DEF c
  <2>5. TrackedAreWaitedFor'
    BY <2>1, <2>2 DEF TrackInv, TrackedAreWaitedFor
  <2>6. queued' \in BOOLEAN /\ disposed' \in BOOLEAN
    BY <2>1 DEF TrackInv
  <2> QED BY <2>1, <2>2, <2>3, <2>4, <2>5, <2>6 DEF TrackInv, Fallback!ReadyMeansSettled, Fallback!IndicatorFollows
<1> QED BY <1>2, <1>3, <1>4, <1>5

LEMMA TrackAlways == SignalConstants => (Fallback!TrackSpec => []TrackInv)
<1> SUFFICES ASSUME SignalConstants PROVE Fallback!TrackSpec => []TrackInv
  OBVIOUS
<1>1. Fallback!TrackInit => TrackInv
  <2> SUFFICES ASSUME Fallback!TrackInit PROVE TrackInv
    OBVIOUS
  <2>1. Sane(ctx, Promises, TrackTimeout) /\ ctx.set = {} /\ ctx.loading = FALSE
    BY FreshFacts DEF FreshIsSane, SignalConstants, Fallback!TrackInit, Fallback!Fresh
  <2>2. TrackedAreWaitedFor
    BY <2>1 DEF Fallback!TrackInit, TrackedAreWaitedFor
  <2>3. PhaseTypes /\ Fallback!ReadyMeansSettled
    BY DEF Fallback!TrackInit, PhaseTypes, Fallback!ReadyMeansSettled
  <2> QED BY <2>1, <2>2, <2>3 DEF Fallback!TrackInit, TrackInv, Fallback!IndicatorFollows
<1>2. TrackInv /\ [Fallback!TrackNext]_(Fallback!trackVars) => TrackInv'
  <2> SUFFICES ASSUME TrackInv, [Fallback!TrackNext]_(Fallback!trackVars) PROVE TrackInv'
    OBVIOUS
  <2>1. CASE UNCHANGED Fallback!trackVars
    BY <2>1 DEF TrackInv, PhaseTypes, TrackedAreWaitedFor, Fallback!ReadyMeansSettled, Fallback!IndicatorFollows,
                Fallback!trackVars
  <2> QED BY <2>1, TrackKeeps, TimersKeep DEF Fallback!TrackNext
<1> QED BY <1>1, <1>2, PTL DEF Fallback!TrackSpec

\* onReady comes when no promise of this generation is pending, and once the effect has run,
\* loading is shown or delayed exactly while the boundary waits: createSuspense, over resets,
\* stale promises, timeouts and delays.
THEOREM IndicatorIsRight ==
  ASSUME SignalConstants
  PROVE  Fallback!TrackSpec => [](Fallback!IndicatorFollows /\ Fallback!ReadyMeansSettled)
<1>1. TrackInv => Fallback!IndicatorFollows /\ Fallback!ReadyMeansSettled
  BY DEF TrackInv
<1> QED BY <1>1, TrackAlways, PTL
-----------------------------------------------------------------------------
(* createMutation and createInfiniteQuery of packages/data. *)

\* While calls do not overlap, the one page asked for is the next one.
NextIsAsked ==
  /\ pages \in Seq(Nat) /\ next \in Nat \cup {None}
  /\ ~overlapped => /\ next # None => next = Len(pages)
                    /\ \A q, r \in queries : q = r
                    /\ \A q \in queries : next # None /\ q.page = next
                    /\ \A i \in 1..Len(pages) : pages[i] = i - 1

CallTypes ==
  /\ mutation \in [loading : BOOLEAN, of : Nat] /\ mutations \subseteq Nat /\ calls \in Nat
  /\ \A q \in queries : q.page \in Nat

CallsInv == CallTypes /\ NextIsAsked /\ Fetch!CallsAreBacked

PageConstants == None \notin Nat

LEMMA MutationsKeep ==
  ASSUME CallsInv,
         \/ Fetch!mutate \/ Fetch!resetMutation
         \/ \E c \in mutations : Fetch!MutationAnswers(c)
         \/ \E c \in 1..MaxPageCalls : Fetch!OnSuccessThrows(c)
         \/ \E c \in callbacks : Fetch!MutationSettles(c)
  PROVE  CallsInv'
<1>1. UNCHANGED <<pages, next, queries, querying, overlapped>>
  BY DEF Fetch!mutate, Fetch!resetMutation, Fetch!MutationAnswers, Fetch!OnSuccessThrows, Fetch!MutationSettles
<1>2. CallTypes' /\ (mutation'.loading => mutations' # {} \/ callbacks' # {})
  <2>1. CASE Fetch!mutate
    <3>1. /\ mutations' = mutations \cup {calls + 1} /\ calls' = calls + 1
          /\ mutation' = [mutation EXCEPT !.loading = TRUE] /\ queries' = queries
      BY <2>1 DEF Fetch!mutate
    <3>2. mutations' # {}
      BY <3>1
    <3>3. calls' \in Nat /\ mutations' \subseteq Nat
      BY <3>1 DEF CallsInv, CallTypes
    <3>4. mutation' \in [loading : BOOLEAN, of : Nat]
      BY <3>1 DEF CallsInv, CallTypes
    <3>5. \A q \in queries' : q.page \in Nat
      BY <3>1 DEF CallsInv, CallTypes
    <3> QED BY <3>2, <3>3, <3>4, <3>5 DEF CallTypes
  <2>2. CASE Fetch!resetMutation
    BY <2>2 DEF Fetch!resetMutation, CallsInv, CallTypes
  <2>3. ASSUME NEW c \in mutations, Fetch!MutationAnswers(c)
        PROVE  CallTypes' /\ callbacks' # {}
    BY <2>3 DEF Fetch!MutationAnswers, CallsInv, CallTypes
  <2>4. ASSUME NEW c \in 1..MaxPageCalls, Fetch!OnSuccessThrows(c)
        PROVE  CallTypes' /\ callbacks' # {}
    <3>1. callbacks' # {}
      BY <2>4 DEF Fetch!OnSuccessThrows
    <3>2. c \in Nat /\ mutation' = [mutation EXCEPT !.of = c] /\ UNCHANGED <<mutations, queries, calls>>
      BY <2>4 DEF Fetch!OnSuccessThrows
    <3> QED BY <3>1, <3>2 DEF CallsInv, CallTypes
  <2>5. ASSUME NEW c \in callbacks, Fetch!MutationSettles(c)
        PROVE  CallTypes' /\ ~mutation'.loading
    BY <2>5 DEF Fetch!MutationSettles, CallsInv, CallTypes
  <2> QED BY <2>1, <2>2, <2>3, <2>4, <2>5
<1> QED BY <1>1, <1>2 DEF CallsInv, NextIsAsked, Fetch!CallsAreBacked

LEMMA QueriesKeep ==
  ASSUME PageConstants, CallsInv,
         Fetch!fetchNextPage \/ Fetch!resetQuery \/ \E q \in queries : Fetch!QuerySettles(q)
  PROVE  CallsInv'
<1>1. CASE Fetch!fetchNextPage
  <2>1. /\ next # None /\ queries' = queries \cup {[call |-> calls + 1, page |-> next]}
        /\ overlapped' = (overlapped \/ queries # {}) /\ calls' = calls + 1
        /\ UNCHANGED <<mutations, callbacks, mutation, pages, next>>
    BY <1>1 DEF Fetch!fetchNextPage
  <2>2. pages' \in Seq(Nat) /\ next' \in Nat \cup {None} /\ next \in Nat
    BY <2>1 DEF CallsInv, NextIsAsked
  <2>3. NextIsAsked'
    <3>1. ASSUME ~overlapped'
          PROVE  queries' = {[call |-> calls + 1, page |-> next]} /\ ~overlapped
      BY <2>1, <3>1
    <3>2. ASSUME ~overlapped'
          PROVE  /\ \A q, r \in queries' : q = r
                 /\ \A q \in queries' : next' # None /\ q.page = next'
      BY <2>1, <3>1, <3>2
    <3> QED BY <2>1, <2>2, <3>1, <3>2 DEF CallsInv, NextIsAsked
  <2>4. CallTypes'
    BY <2>1, <2>2 DEF CallsInv, CallTypes
  <2> QED BY <2>1, <2>3, <2>4 DEF CallsInv, Fetch!CallsAreBacked
<1>2. CASE Fetch!resetQuery
  <2>1. /\ pages' = <<>> /\ next' = 0 /\ querying' = FALSE /\ overlapped' = (overlapped \/ queries # {})
        /\ UNCHANGED <<mutations, callbacks, mutation, queries, calls>>
    BY <1>2 DEF Fetch!resetQuery
  <2>2. <<>> \in Seq(Nat) /\ Len(<<>>) = 0
    OBVIOUS
  <2>3. NextIsAsked'
    <3>1. pages' \in Seq(Nat) /\ Len(pages') = 0 /\ next' = 0 /\ 0 # None
      BY <2>1, <2>2 DEF PageConstants
    <3>2. ASSUME ~overlapped' PROVE queries' = {}
      BY <2>1, <3>2
    <3> QED BY <3>1, <3>2 DEF NextIsAsked
  <2> QED BY <2>1, <2>3 DEF CallsInv, CallTypes, Fetch!CallsAreBacked
<1>3. ASSUME NEW q \in queries, Fetch!QuerySettles(q)
      PROVE  CallsInv'
  <2>1. /\ queries' = queries \ {q} /\ querying' = FALSE /\ UNCHANGED <<mutations, callbacks, mutation, overlapped, calls>>
        /\ Fetch!PageArrives(q.page) \/ UNCHANGED <<pages, next>>
    BY <1>3 DEF Fetch!QuerySettles
  <2>2. CASE UNCHANGED <<pages, next>>
    BY <2>1, <2>2 DEF CallsInv, CallTypes, NextIsAsked, Fetch!CallsAreBacked
  <2>3. CASE Fetch!PageArrives(q.page)
    <3>1. /\ pages' = Append(pages, q.page) /\ next' = IF q.page + 1 < MaxPages THEN q.page + 1 ELSE None
          /\ q.page \in Nat /\ pages \in Seq(Nat)
      BY <2>3 DEF Fetch!PageArrives, CallsInv, CallTypes, NextIsAsked
    <3>2. /\ pages' \in Seq(Nat) /\ Len(pages') = Len(pages) + 1 /\ Len(pages) \in Nat
          /\ \A i \in 1..Len(pages) : pages'[i] = pages[i]
          /\ pages'[Len(pages) + 1] = q.page
      BY <3>1, AppendProperties
    <3>3. ASSUME ~overlapped
          PROVE  q.page = Len(pages) /\ queries' = {} /\ \A i \in 1..Len(pages) : pages[i] = i - 1
      BY <2>1, <3>3 DEF CallsInv, NextIsAsked
    <3>4. ASSUME ~overlapped
          PROVE  \A i \in 1..Len(pages') : pages'[i] = i - 1
      BY <3>2, <3>3, <3>4
    <3>5. NextIsAsked'
      BY <2>1, <3>1, <3>2, <3>3, <3>4 DEF NextIsAsked
    <3> QED BY <2>1, <3>5 DEF CallsInv, CallTypes, Fetch!CallsAreBacked
  <2> QED BY <2>1, <2>2, <2>3
<1> QED BY <1>1, <1>2, <1>3

LEMMA CallsAlways == PageConstants => (Fetch!CallsSpec => []CallsInv)
<1> SUFFICES ASSUME PageConstants PROVE Fetch!CallsSpec => []CallsInv
  OBVIOUS
<1>1. Fetch!CallsInit => CallsInv
  BY DEF Fetch!CallsInit, CallsInv, CallTypes, NextIsAsked, Fetch!CallsAreBacked, PageConstants
<1>2. CallsInv /\ [Fetch!CallsNext]_(Fetch!callsVars) => CallsInv'
  <2> SUFFICES ASSUME CallsInv, [Fetch!CallsNext]_(Fetch!callsVars) PROVE CallsInv'
    OBVIOUS
  <2>1. CASE UNCHANGED Fetch!callsVars
    BY <2>1 DEF CallsInv, CallTypes, NextIsAsked, Fetch!CallsAreBacked, Fetch!callsVars
  <2> QED BY <2>1, MutationsKeep, QueriesKeep DEF Fetch!CallsNext
<1> QED BY <1>1, <1>2, PTL DEF Fetch!CallsSpec

\* The loading signals of createMutation and createInfiniteQuery are cleared by a call that is
\* under way, however calls overlap and are reset, and unless they do the pages are the first ones in
\* order, over failures and resets.
THEOREM PagesComeInOrder ==
  ASSUME PageConstants
  PROVE  Fetch!CallsSpec => [](Fetch!CallsAreBacked /\ Fetch!PagesInSequence)
<1>1. CallsInv => Fetch!CallsAreBacked /\ Fetch!PagesInSequence
  BY DEF CallsInv, NextIsAsked, Fetch!PagesInSequence
<1> QED BY <1>1, CallsAlways, PTL

-----------------------------------------------------------------------------
(* The forms of packages/form. *)

CONSTANTS Fields, Dynamic, Values, Initial, SyncRejects, AsyncRejects, Confirms, MaxChecks,
          Steps, Good, Bad, MaxRuns, MaxFormCalls
VARIABLES present, value, verdict, flag, valid, submitting, timers, checks, mixed, handed,
          stepValue, refusals, outdated, runs, validating, currentStep, unseen, canGoNext, autoSave,
          saved, formCalls, refusedOnce

Form == INSTANCE Forms WITH MaxCalls <- MaxFormCalls, error <- refusals, calls <- formCalls

FormConstants == Initial \in Values /\ MaxChecks \in Nat

\* A validation of the whole form that began after the last edit has judged the values there are.
ChecksAreOfForm ==
  \A c \in checks : c.kind # "field" =>
    /\ c.ok \subseteq c.of
    /\ ~c.edited => c.of = present /\ c.ok = {f \in present : Form!FullyOk(f, value)}

\* The validations there can be.
CheckSet == [id : 1..MaxChecks, of : SUBSET Fields, ok : SUBSET Fields,
             kind : {"field", "form", "submit"}, newest : BOOLEAN, edited : BOOLEAN]

\* The parts of the type, the checks, and what is to be shown.
FormInv ==
  /\ present \subseteq Fields /\ value \in [Fields -> Values]
  /\ verdict \in [Fields -> BOOLEAN] /\ flag \in [Fields -> BOOLEAN]
  /\ valid \in BOOLEAN /\ submitting \in BOOLEAN /\ mixed \in BOOLEAN
  /\ timers \subseteq Fields /\ checks \subseteq CheckSet /\ IsFiniteSet(checks)
  /\ handed \in {"nothing", "accepted values", "edited values"}
  /\ ChecksAreOfForm
  /\ mixed \/ (valid <=> Form!AllValid(verdict, present))

\* What a function makes of a finite set.
LEMMA ImageIsFinite ==
  ASSUME NEW S, IsFiniteSet(S), NEW g, DOMAIN g = S, NEW T, T = {g[x] : x \in S}
  PROVE  IsFiniteSet(T) /\ Cardinality(T) <= Cardinality(S)
<1> DEFINE h == [x \in S |-> g[x]]
<1>1. h \in Surjection(S, T)
  BY DEF Surjection
<1> QED BY <1>1, FS_Surjection

\* As long as fewer are under way than the bound there is a number for one more.
LEMMA NumberIsFree ==
  ASSUME NEW S, IsFiniteSet(S), NEW M \in Nat, Cardinality(S) < M
  PROVE  \E i \in 1..M : \A c \in S : c.id # i
<1> SUFFICES ASSUME \A i \in 1..M : \E c \in S : c.id = i PROVE FALSE
  OBVIOUS
<1> DEFINE ids == {c.id : c \in S}
           g == [c \in S |-> c.id]
<1>1. IsFiniteSet(ids) /\ Cardinality(ids) <= Cardinality(S)
  <2>1. DOMAIN g = S /\ ids = {g[c] : c \in S}
    OBVIOUS
  <2> HIDE DEF g, ids
  <2> QED BY <2>1, ImageIsFinite
<1>2. 1..M \subseteq ids
  OBVIOUS
<1>3. Cardinality(1..M) <= Cardinality(ids)
  BY <1>1, <1>2, FS_Subset
<1>4. Cardinality(1..M) = M
  BY FS_Interval
<1>5. Cardinality(S) \in Nat /\ Cardinality(ids) \in Nat
  BY <1>1, FS_CardinalityType
<1> HIDE DEF ids
<1> QED BY <1>1, <1>3, <1>4, <1>5

\* The size of a set is the same in the two modules.
LEMMA SizeIsSame ==
  ASSUME NEW S
  PROVE  Form!Cardinality(S) = Cardinality(S)
BY DEF Form!Cardinality, Cardinality

\* A new validation is of the values there are.
LEMMA NewCheck ==
  ASSUME FormConstants, FormInv, Cardinality(checks) < MaxChecks, NEW kind \in {"field", "form",
    "submit"},
         NEW fields \in SUBSET Fields
  PROVE  /\ Form!Check(fields, kind) \in CheckSet
         /\ Form!Check(fields, kind).of = fields /\ Form!Check(fields, kind).kind = kind
         /\ Form!Check(fields, kind).ok = {f \in fields : Form!FullyOk(f, value)}
<1>1. \E i \in 1..MaxChecks : \A c \in checks : c.id # i
  BY NumberIsFree DEF FormConstants, FormInv
<1>2. (CHOOSE i \in 1..MaxChecks : \A c \in checks : c.id # i) \in 1..MaxChecks
  BY <1>1
<1> QED BY <1>2 DEF Form!Check, CheckSet

\* An edit of some fields.
LEMMA EditedKeeps ==
  ASSUME FormInv, NEW fields, Form!Edited(fields)
  PROVE  /\ checks' \subseteq CheckSet /\ IsFiniteSet(checks')
         /\ \A c \in checks' : c.kind # "field" => c.ok \subseteq c.of /\ c.edited
<1>1. checks \subseteq CheckSet
  BY DEF FormInv
<1> DEFINE mark(c) == [c EXCEPT !.edited = @ \/ c.kind # "field" \/ c.of \cap fields # {}]
<1>2. checks' = {mark(c) : c \in checks}
  BY DEF Form!Edited
<1>3. IsFiniteSet(checks')
  <2> DEFINE g == [c \in checks |-> mark(c)]
  <2>1. DOMAIN g = checks /\ checks' = {g[c] : c \in checks} /\ IsFiniteSet(checks)
    BY <1>2 DEF FormInv
  <2> HIDE DEF g, mark
  <2> QED BY <2>1, ImageIsFinite
<1>4. ASSUME NEW c \in checks
      PROVE  /\ mark(c) \in CheckSet /\ mark(c).kind = c.kind /\ mark(c).ok = c.ok /\ mark(c).of = c.of
             /\ c.kind # "field" => mark(c).edited
  BY <1>1 DEF CheckSet
<1>5. \A c \in checks : c.kind # "field" => c.ok \subseteq c.of
  BY DEF FormInv, ChecksAreOfForm
<1> HIDE DEF mark
<1> QED BY <1>2, <1>3, <1>4, <1>5

\* Every step of the form store.
LEMMA FormStep ==
  ASSUME FormConstants, FormInv, [Form!Next]_Form!vars
  PROVE  FormInv'
<1>1. /\ present \subseteq Fields /\ value \in [Fields -> Values]
      /\ verdict \in [Fields -> BOOLEAN] /\ flag \in [Fields -> BOOLEAN]
      /\ valid \in BOOLEAN /\ submitting \in BOOLEAN /\ mixed \in BOOLEAN
      /\ timers \subseteq Fields /\ checks \subseteq CheckSet
      /\ handed \in {"nothing", "accepted values", "edited values"}
  BY DEF FormInv
<1>2. /\ IsFiniteSet(checks) /\ ChecksAreOfForm
      /\ mixed \/ (valid <=> Form!AllValid(verdict, present))
  BY DEF FormInv
<1>3. Initial \in Values /\ MaxChecks \in Nat
  BY DEF FormConstants
\* An edit leaves only checks that are marked.
<1>4. ASSUME NEW fields, Form!Edited(fields)
      PROVE  checks' \subseteq CheckSet /\ IsFiniteSet(checks') /\ ChecksAreOfForm'
  BY <1>4, EditedKeeps DEF ChecksAreOfForm
\* With the same values, some checks less, and one more perhaps.
<1>5. ASSUME UNCHANGED <<present, value>>, NEW S, S \subseteq checks, checks' = S
      PROVE  checks' \subseteq CheckSet /\ IsFiniteSet(checks') /\ ChecksAreOfForm'
  <2>1. IsFiniteSet(checks')
    BY <1>2, <1>5, FS_Subset
  <2> QED BY <1>1, <1>2, <1>5, <2>1 DEF ChecksAreOfForm, Form!FullyOk, Form!SyncOk
<1>6. ASSUME UNCHANGED <<present, value>>, Cardinality(checks) < MaxChecks,
             NEW kind \in {"form", "submit"}, checks' = checks \cup {Form!Check(present, kind)}
      PROVE  checks' \subseteq CheckSet /\ IsFiniteSet(checks') /\ ChecksAreOfForm'
  <2> DEFINE new == Form!Check(present, kind)
  <2>1. new \in CheckSet /\ new.of = present /\ new.ok = {f \in present : Form!FullyOk(f, value)}
    BY <1>1, <1>6, NewCheck
  <2>2. IsFiniteSet(checks')
    BY <1>2, <1>6, FS_AddElement
  <2>3. checks' = checks \cup {new}
    BY <1>6
  <2> HIDE DEF new
  <2>4. \A f \in present : Form!FullyOk(f, value)' <=> Form!FullyOk(f, value)
    BY <1>6 DEF Form!FullyOk, Form!SyncOk
  <2>5. ASSUME NEW c \in checks', c.kind # "field"
        PROVE  /\ c.ok \subseteq c.of
               /\ ~c.edited => c.of = present' /\ c.ok = {f \in present' : Form!FullyOk(f, value)'}
    BY <1>2, <1>6, <2>1, <2>3, <2>4, <2>5 DEF ChecksAreOfForm
  <2> QED BY <1>1, <2>1, <2>2, <2>3, <2>5 DEF ChecksAreOfForm
<1>7. ASSUME NEW f \in Fields, NEW v \in Values, Form!setValue(f, v) PROVE FormInv'
  <2>1. CASE f \notin present
    BY <1>1, <1>2, <1>5, <1>7, <2>1, <1>2 DEF FormInv, Form!setValue
  <2>2. CASE f \in present
    <3>1. checks' \subseteq CheckSet /\ IsFiniteSet(checks') /\ ChecksAreOfForm'
      BY <1>4, <1>7, <2>2 DEF Form!setValue
    <3>2. value' \in [Fields -> Values] /\ verdict' \in [Fields -> BOOLEAN]
      BY <1>1, <1>7, <2>2 DEF Form!setValue, Form!SyncOk
    <3> QED BY <1>1, <1>7, <2>2, <3>1, <3>2, <1>2 DEF FormInv, Form!setValue, Form!AllValid
  <2> QED BY <2>1, <2>2
<1>8. ASSUME NEW f \in Fields, Form!TimerFires(f) PROVE FormInv'
  <2> DEFINE old(c) == [c EXCEPT !.newest = FALSE]
             older == {old(c) : c \in checks}
             new == Form!Check({f}, "field")
  <2>1. /\ checks' = older \/ checks' = older \cup {new}
        /\ UNCHANGED <<present, value, verdict, valid, submitting, mixed, handed>>
        /\ timers' \subseteq Fields /\ flag' \in [Fields -> BOOLEAN]
    BY <1>1, <1>8 DEF Form!TimerFires
  <2>2. ASSUME NEW c \in checks
        PROVE  /\ old(c) \in CheckSet /\ old(c).kind = c.kind /\ old(c).ok = c.ok /\ old(c).of = c.of
               /\ old(c).edited = c.edited
    BY <1>1 DEF CheckSet
  <2>3. IsFiniteSet(older)
    <3> DEFINE g == [c \in checks |-> old(c)]
    <3>1. DOMAIN g = checks /\ older = {g[c] : c \in checks}
      OBVIOUS
    <3> HIDE DEF g, older, old
    <3> QED BY <1>2, <3>1, ImageIsFinite
  <2>4. new \in CheckSet /\ new.kind = "field"
    <3>1. Cardinality(checks) < MaxChecks /\ {f} \in SUBSET Fields
      BY <1>8, SizeIsSame DEF Form!TimerFires
    <3> QED BY <3>1, NewCheck
  <2>5. \A g \in present : Form!FullyOk(g, value)' <=> Form!FullyOk(g, value)
    BY <2>1 DEF Form!FullyOk, Form!SyncOk
  <2> HIDE DEF old, new
  <2>6. older \subseteq CheckSet
    BY <2>2
  <2> DEFINE judged(c) == /\ c.ok \subseteq c.of
                          /\ ~c.edited => c.of = present /\ c.ok = {g \in present : Form!FullyOk(g,
                            value)}
  <2>7. ASSUME NEW d \in older, d.kind # "field" PROVE judged(d)
    <3>1. PICK c \in checks : d = old(c)
      BY <2>7
    <3>2. judged(c)
      BY <1>2, <2>2, <2>7, <3>1 DEF ChecksAreOfForm
    <3> QED BY <2>2, <3>1, <3>2
  <2>8. \A d \in checks' : d.kind # "field" => judged(d)
    <3> HIDE DEF judged, older
    <3> QED BY <2>1, <2>4, <2>7
  <2>9. IsFiniteSet(checks') /\ checks' \subseteq CheckSet
    <3> HIDE DEF older
    <3> QED BY <2>1, <2>3, <2>4, <2>6, FS_AddElement
  <2>10. ChecksAreOfForm'
    BY <2>1, <2>5, <2>8 DEF ChecksAreOfForm
  <2> QED BY <1>1, <1>2, <2>1, <2>9, <2>10 DEF FormInv, Form!AllValid
<1>9. ASSUME NEW c \in checks, Form!FieldAnswer(c) PROVE FormInv'
  <2>1. checks' \subseteq CheckSet /\ IsFiniteSet(checks') /\ ChecksAreOfForm'
    BY <1>5, <1>9 DEF Form!FieldAnswer
  <2>2. PICK f \in c.of :
          IF f \notin present \/ ~c.newest THEN UNCHANGED <<verdict, flag, valid, mixed>>
          ELSE /\ verdict' = [verdict EXCEPT ![f] = f \in c.ok]
               /\ flag' = [flag EXCEPT ![f] = FALSE]
               /\ valid' = Form!FormValid(verdict')
               /\ mixed' = FALSE
    BY <1>9 DEF Form!FieldAnswer
  <2>3. UNCHANGED <<present, value, submitting, timers, handed>>
    BY <1>9 DEF Form!FieldAnswer
  <2>4. CASE f \notin present \/ ~c.newest
    BY <1>1, <1>2, <2>1, <2>2, <2>3, <2>4 DEF FormInv, Form!AllValid
  <2>5. CASE f \in present /\ c.newest
    <3>1. /\ verdict' = [verdict EXCEPT ![f] = f \in c.ok] /\ flag' = [flag EXCEPT ![f] = FALSE]
          /\ valid' = Form!AllValid(verdict', present) /\ mixed' = FALSE
      BY <2>2, <2>5 DEF Form!FormValid
    <3>2. (f \in c.ok) \in BOOLEAN
      OBVIOUS
    <3>3. verdict' \in [Fields -> BOOLEAN] /\ flag' \in [Fields -> BOOLEAN]
      BY <1>1, <3>1, <3>2
    <3>4. valid' \in BOOLEAN /\ (valid' <=> Form!AllValid(verdict', present'))
      BY <2>3, <3>1 DEF Form!AllValid
    <3> QED BY <1>1, <2>1, <2>3, <3>1, <3>3, <3>4 DEF FormInv
  <2> QED BY <2>4, <2>5
<1>10. ASSUME NEW c \in checks, Form!FormAnswer(c) PROVE FormInv'
  <2>1. checks' \subseteq CheckSet /\ IsFiniteSet(checks') /\ ChecksAreOfForm'
    BY <1>5, <1>10 DEF Form!FormAnswer
  <2>2. /\ c.kind # "field" /\ c \in CheckSet /\ c.ok \subseteq c.of
        /\ ~c.edited => c.of = present /\ c.ok = {f \in present : Form!FullyOk(f, value)}
    BY <1>1, <1>2, <1>10 DEF Form!FormAnswer, ChecksAreOfForm
  <2>3. /\ verdict' = [f \in Fields |-> IF f \in c.of \cap present THEN f \in c.ok ELSE verdict[f]]
        /\ flag' = [f \in Fields |-> flag[f] /\ f \notin c.of \cap present]
        /\ valid' = (c.ok = c.of) /\ mixed' = c.edited
        /\ UNCHANGED <<present, value, timers>>
    BY <1>10 DEF Form!FormAnswer, Form!Accepts
  <2>4. /\ verdict' \in [Fields -> BOOLEAN] /\ flag' \in [Fields -> BOOLEAN]
        /\ mixed' \in BOOLEAN /\ valid' \in BOOLEAN
    <3>1. c.edited \in BOOLEAN
      BY <2>2 DEF CheckSet
    <3>2. verdict' \in [Fields -> BOOLEAN] /\ flag' \in [Fields -> BOOLEAN]
      <4>1. \A f \in Fields : (IF f \in c.of \cap present THEN f \in c.ok ELSE verdict[f]) \in BOOLEAN
        <5>1. \A f \in Fields : verdict[f] \in BOOLEAN
          BY <1>1
        <5>2. \A f : (f \in c.ok) \in BOOLEAN
          OBVIOUS
        <5> QED BY <5>1, <5>2
      <4>2. \A f \in Fields : (flag[f] /\ f \notin c.of \cap present) \in BOOLEAN
        OBVIOUS
      <4> QED BY <2>3, <4>1, <4>2
    <3>3. (c.ok = c.of) \in BOOLEAN
      OBVIOUS
    <3> QED BY <2>3, <3>1, <3>2, <3>3
  <2>5. mixed' \/ (valid' <=> Form!AllValid(verdict', present'))
    BY <1>1, <2>2, <2>3 DEF Form!AllValid
  <2>6. handed' \in {"nothing", "accepted values", "edited values"} /\ submitting' \in BOOLEAN
    <3>1. CASE c.kind = "submit" /\ Form!Accepts(c)
      <4>1. c.edited \/ \A f \in present : Form!FullyOk(f, value)
        BY <2>2, <3>1 DEF Form!Accepts
      <4> QED BY <1>10, <3>1, <4>1 DEF Form!FormAnswer
    <3>2. CASE ~(c.kind = "submit" /\ Form!Accepts(c))
      BY <1>1, <1>10, <3>2 DEF Form!FormAnswer
    <3> QED BY <3>1, <3>2
  <2> QED BY <1>1, <2>1, <2>3, <2>4, <2>5, <2>6 DEF FormInv
<1>11. ASSUME NEW c \in checks, Form!AnswerThrows(c) PROVE FormInv'
  <2>1. checks' \subseteq CheckSet /\ IsFiniteSet(checks') /\ ChecksAreOfForm'
    BY <1>5, <1>11 DEF Form!AnswerThrows, Form!formVars
  <2> QED BY <1>1, <1>2, <1>11, <2>1 DEF FormInv, Form!AnswerThrows, Form!formVars, Form!AllValid
<1>12. ASSUME Form!validateAsync PROVE FormInv'
  <2>1. checks' \subseteq CheckSet /\ IsFiniteSet(checks') /\ ChecksAreOfForm'
    <3>1. /\ UNCHANGED <<present, value>> /\ Cardinality(checks) < MaxChecks
          /\ checks' = checks \cup {Form!Check(present, "form")}
      BY <1>12, SizeIsSame DEF Form!validateAsync, Form!formVars
    <3> QED BY <1>6, <3>1
  <2> QED BY <1>1, <1>2, <1>12, <2>1 DEF FormInv, Form!validateAsync, Form!formVars, Form!AllValid
<1>13. ASSUME Form!submit PROVE FormInv'
  <2>1. checks' \subseteq CheckSet /\ IsFiniteSet(checks') /\ ChecksAreOfForm'
    <3>1. /\ UNCHANGED <<present, value>> /\ Cardinality(checks) < MaxChecks
          /\ checks' = checks \cup {Form!Check(present, "submit")} \/ checks' = checks
      BY <1>13, SizeIsSame DEF Form!submit
    <3>2. CASE checks' = checks
      BY <1>5, <3>1, <3>2
    <3>3. CASE checks' = checks \cup {Form!Check(present, "submit")}
      BY <1>6, <3>1, <3>3
    <3> QED BY <3>1, <3>2, <3>3
  <2>2. verdict' \in [Fields -> BOOLEAN]
    BY <1>1, <1>13 DEF Form!submit, Form!validate, Form!SyncOk
  <2> QED BY <1>1, <1>13, <2>1, <2>2 DEF FormInv, Form!submit, Form!validate, Form!FormValid,
             Form!AllValid
<1>14. ASSUME Form!HandlerEnds PROVE FormInv'
  <2>1. checks' \subseteq CheckSet /\ IsFiniteSet(checks') /\ ChecksAreOfForm'
    BY <1>5, <1>14 DEF Form!HandlerEnds
  <2> QED BY <1>1, <1>2, <1>14, <2>1 DEF FormInv, Form!HandlerEnds, Form!AllValid
<1>15. ASSUME NEW f \in Fields, Form!addField(f) \/ Form!removeField(f) PROVE FormInv'
  <2>1. checks' \subseteq CheckSet /\ IsFiniteSet(checks') /\ ChecksAreOfForm'
    BY <1>4, <1>15 DEF Form!addField, Form!removeField
  <2>2. value' \in [Fields -> Values] /\ verdict' \in [Fields -> BOOLEAN] /\ flag' \in [Fields -> BOOLEAN]
    BY <1>1, <1>3, <1>15 DEF Form!addField, Form!removeField
  <2> QED BY <1>1, <1>15, <2>1, <2>2 DEF FormInv, Form!addField, Form!removeField, Form!AllValid
<1>16. ASSUME Form!reset PROVE FormInv'
  <2>1. checks' \subseteq CheckSet /\ IsFiniteSet(checks') /\ ChecksAreOfForm'
    BY <1>4, <1>16 DEF Form!reset
  <2>2. value' \in [Fields -> Values] /\ verdict' \in [Fields -> BOOLEAN] /\ flag' \in [Fields -> BOOLEAN]
    BY <1>1, <1>3, <1>16 DEF Form!reset
  <2> QED BY <1>1, <1>16, <2>1, <2>2 DEF FormInv, Form!reset, Form!AllValid
<1>17. ASSUME UNCHANGED Form!vars PROVE FormInv'
  <2>1. checks' \subseteq CheckSet /\ IsFiniteSet(checks') /\ ChecksAreOfForm'
    BY <1>5, <1>17 DEF Form!vars
  <2> QED BY <1>1, <1>2, <1>17, <2>1 DEF FormInv, Form!vars, Form!AllValid
<1> QED BY <1>7, <1>8, <1>9, <1>10, <1>11, <1>12, <1>13, <1>14, <1>15, <1>16, <1>17 DEF Form!Next

LEMMA FormAlways == FormConstants => (Form!Spec => []FormInv)
<1> SUFFICES ASSUME FormConstants PROVE Form!Spec => []FormInv
  OBVIOUS
<1>1. Form!Init => FormInv
  <2> SUFFICES ASSUME Form!Init PROVE FormInv
    OBVIOUS
  <2>1. checks = {} /\ IsFiniteSet(checks)
    BY FS_EmptySet DEF Form!Init
  <2> QED BY <2>1 DEF Form!Init, FormInv, FormConstants, ChecksAreOfForm, Form!AllValid
<1>2. FormInv /\ [Form!Next]_Form!vars => FormInv'
  BY FormStep
<1> QED BY <1>1, <1>2, PTL DEF Form!Spec

\* The handler of a form gets values that all rules, the server's included, accept, unless they
\* were edited while it was waited for: submit of the form store.
THEOREM HandlersGetChecked == FormConstants => (Form!Spec => []Form!HandlerGetsCheckedValues)
<1>1. FormInv => Form!HandlerGetsCheckedValues
  BY DEF FormInv, Form!HandlerGetsCheckedValues
<1> QED BY <1>1, FormAlways, PTL

\* A form is shown as valid exactly when all its fields are, whatever answers come late, fields
\* come and go or resets cross them, unless the last answer for the whole form is of older values.
THEOREM FormShowsItsFields == FormConstants => (Form!Spec => []Form!ValidMeansAllValid)
<1>1. FormInv => Form!ValidMeansAllValid
  BY DEF FormInv, Form!ValidMeansAllValid
<1> QED BY <1>1, FormAlways, PTL

-----------------------------------------------------------------------------
(* The form of steps of packages/form. *)

WizardConstants == Good # Bad /\ 1 \in Steps /\ MaxRuns \in Nat

\* The fields whose answers a validation has given or will give.
Answered(r) == IF r.kind \in {"validate", "submit"} THEN Steps ELSE r.left

\* A validation refuses what is refused now, but for the fields that were edited since it began.
RunsAreOfValues ==
  \A r \in runs : \A f \in Answered(r) \ r.edited : f \in r.refused <=> stepValue[f] = Bad

\* A timer with former values is one that the effect will set anew.
FormerIsSeen == autoSave = "former" => "values" \in unseen

\* The validations there can be.
RunSet == [id : 1..MaxRuns, kind : {"field", "validate", "submit", "next"}, step : Steps,
           left : SUBSET Steps, refused : SUBSET Steps, edited : SUBSET Steps]

\* The parts of the type that the proofs need.
WizardTypes ==
  /\ stepValue \in [Steps -> {Good, Bad}] /\ refusals \subseteq Steps /\ outdated \subseteq Steps
  /\ runs \subseteq RunSet /\ IsFiniteSet(runs) /\ currentStep \in Steps
  /\ canGoNext \in BOOLEAN /\ saved \in BOOLEAN /\ unseen \subseteq {"step", "values"}
  /\ autoSave \in {"none", "former", "current"}

WizardInv ==
  /\ WizardTypes /\ RunsAreOfValues /\ Form!ErrorIsOfValue
  /\ Form!WizardGetsCheckedValues /\ Form!NextIsOffered
  /\ FormerIsSeen /\ Form!ChangesAreSaved /\ Form!FlagsAreBacked

\* A new validation is of the values there are.
LEMMA NewRun ==
  ASSUME WizardConstants, WizardTypes, Form!Cardinality(runs) < MaxRuns,
         NEW kind \in {"field", "validate", "submit", "next"}, NEW fields \in SUBSET Steps
  PROVE  LET new == Form!Run(kind, fields, currentStep) IN
         /\ new \in RunSet /\ new.kind = kind /\ new.left = fields /\ new.edited = {}
         /\ new.refused = {f \in fields : stepValue[f] = Bad}
<1>1. Cardinality(runs) < MaxRuns
  BY SizeIsSame
<1>2. \E i \in 1..MaxRuns : \A r \in runs : r.id # i
  BY <1>1, NumberIsFree DEF WizardConstants, WizardTypes
<1>3. (CHOOSE i \in 1..MaxRuns : \A r \in runs : r.id # i) \in 1..MaxRuns
  BY <1>2
<1>4. currentStep \in Steps
  BY DEF WizardTypes
<1> QED BY <1>3, <1>4 DEF Form!Run, RunSet

\* The validations under way, when one more begins.
LEMMA StartsKeeps ==
  ASSUME WizardConstants, WizardInv, NEW kind \in {"field", "validate", "submit", "next"},
         NEW fields \in SUBSET Steps, Form!Starts(kind, fields), stepValue' = stepValue,
         kind \in {"validate", "submit"} => fields = Steps
  PROVE  /\ runs' \subseteq RunSet /\ IsFiniteSet(runs') /\ RunsAreOfValues'
         /\ runs \subseteq runs' /\ \E r \in runs' : r.kind = kind
<1> DEFINE new == Form!Run(kind, fields, currentStep)
<1>1. runs' = runs \cup {new} /\ Form!Cardinality(runs) < MaxRuns
  BY DEF Form!Starts
<1>2. /\ new \in RunSet /\ new.kind = kind /\ new.left = fields /\ new.edited = {}
      /\ new.refused = {f \in fields : stepValue[f] = Bad}
  BY <1>1, NewRun DEF WizardInv
<1> HIDE DEF new
<1>3. IsFiniteSet(runs')
  BY <1>1, FS_AddElement DEF WizardInv, WizardTypes
<1>4. \A f \in Answered(new) \ new.edited : f \in new.refused <=> stepValue[f] = Bad
  BY <1>2 DEF Answered
<1>5. RunsAreOfValues'
  BY <1>1, <1>4 DEF WizardInv, RunsAreOfValues, Answered
<1> QED BY <1>1, <1>2, <1>3, <1>5 DEF WizardInv, WizardTypes

\* The validations under way, when one of them goes on or ends.
LEMMA RunKeeps ==
  ASSUME WizardInv, NEW r \in runs, NEW rest, runs' = (runs \ {r}) \cup rest,
    stepValue' = stepValue,
         rest \subseteq RunSet, IsFiniteSet(rest),
         \A s \in rest : \A f \in Answered(s) \ s.edited : f \in s.refused <=> stepValue[f] = Bad
  PROVE  runs' \subseteq RunSet /\ IsFiniteSet(runs') /\ RunsAreOfValues'
<1>1. IsFiniteSet(runs \ {r})
  BY FS_Subset DEF WizardInv, WizardTypes
<1>2. IsFiniteSet(runs')
  BY <1>1, FS_Union
<1> QED BY <1>2 DEF WizardInv, WizardTypes, RunsAreOfValues, Answered

\* Every validation under way is marked with the fields that were edited.
LEMMA MarkedKeeps ==
  ASSUME WizardInv, NEW fields \in SUBSET Steps, NEW marked,
         \A s : s \in marked <=> \E r \in runs : s = [r EXCEPT !.edited = @ \cup fields],
         \A f \in Steps \ fields : stepValue'[f] = stepValue[f]
  PROVE  /\ marked \subseteq RunSet /\ IsFiniteSet(marked)
         /\ \A r \in marked : \A f \in Answered(r) \ r.edited : f \in r.refused <=> stepValue'[f] = Bad
         /\ \A r \in runs : \E s \in marked : s.kind = r.kind
<1> DEFINE mark(r) == [r EXCEPT !.edited = @ \cup fields]
           g == [r \in runs |-> mark(r)]
<1>1. marked = {mark(r) : r \in runs}
  OBVIOUS
<1>2. DOMAIN g = runs /\ marked = {g[r] : r \in runs} /\ IsFiniteSet(runs)
  BY <1>1 DEF WizardInv, WizardTypes
<1>3. IsFiniteSet(marked)
  <2> HIDE DEF g
  <2> QED BY <1>2, ImageIsFinite
<1>4. ASSUME NEW r \in runs
      PROVE  /\ mark(r) \in RunSet /\ mark(r).kind = r.kind /\ mark(r).left = r.left
             /\ mark(r).refused = r.refused /\ mark(r).edited = r.edited \cup fields
             /\ r.left \subseteq Steps
  BY DEF WizardInv, WizardTypes, RunSet
<1> HIDE DEF mark
<1>5. ASSUME NEW r \in runs
      PROVE  \A f \in Answered(mark(r)) \ mark(r).edited : f \in mark(r).refused <=> stepValue'[f] = Bad
  <2>1. Answered(mark(r)) = Answered(r) /\ Answered(r) \subseteq Steps
    BY <1>4 DEF Answered
  <2> QED BY <1>4, <2>1 DEF WizardInv, RunsAreOfValues
<1> QED BY <1>1, <1>3, <1>4, <1>5

\* An answer for one field.
LEMMA WizardAnswerKeeps ==
  ASSUME WizardInv, NEW r \in runs, NEW f \in r.left, Form!WizardFieldAnswer(r, f)
  PROVE  WizardInv'
<1>1. WizardTypes /\ r \in RunSet /\ f \in Steps
  BY DEF WizardInv, WizardTypes, RunSet
<1> DEFINE rest == [r EXCEPT !.left = @ \ {f}]
           asked == [rest EXCEPT !.kind = "submit", !.left = Steps, !.edited = {},
                                 !.refused = {g \in Steps : stepValue[g] = Bad}]
           others == runs \ {r}
<1>2. /\ refusals' = IF f \in r.refused THEN refusals \cup {f} ELSE refusals \ {f}
      /\ outdated' = IF f \in r.edited THEN outdated \cup {f} ELSE outdated \ {f}
      /\ unseen' = unseen \cup {"step"}
      /\ UNCHANGED <<stepValue, autoSave, saved, formCalls, canGoNext>>
  BY DEF Form!WizardFieldAnswer, Form!Shows, Form!fieldVars, Form!stepVars
<1>3. \/ /\ runs' = others \cup {rest}
         /\ UNCHANGED <<currentStep, validating, refusedOnce>>
      \/ /\ runs' = others /\ r.kind \notin {"validate", "submit"}
         /\ UNCHANGED <<currentStep, validating, refusedOnce>>
      \/ /\ runs' = others /\ r.kind \notin {"validate", "submit"} /\ r.step + 1 \in Steps
         /\ currentStep' = r.step + 1 /\ UNCHANGED <<validating, refusedOnce>>
      \/ /\ runs' = others \cup {asked} /\ UNCHANGED <<currentStep, refusedOnce>>
  BY DEF Form!WizardFieldAnswer, Form!stepVars, Form!wizardFormVars
<1>4. /\ rest \in RunSet /\ rest.kind = r.kind /\ rest.left = r.left \ {f}
      /\ rest.refused = r.refused /\ rest.edited = r.edited
  BY <1>1 DEF RunSet
<1>5. /\ asked \in RunSet /\ asked.kind = "submit" /\ asked.left = Steps /\ asked.edited = {}
      /\ asked.refused = {g \in Steps : stepValue[g] = Bad}
  BY <1>1 DEF RunSet
<1> HIDE DEF rest, asked
<1>6. \A g \in Answered(rest) \ rest.edited : g \in rest.refused <=> stepValue[g] = Bad
  <2>1. Answered(rest) \subseteq Answered(r)
    BY <1>4 DEF Answered
  <2> QED BY <1>4, <2>1 DEF WizardInv, RunsAreOfValues
<1>7. \A g \in Answered(asked) \ asked.edited : g \in asked.refused <=> stepValue[g] = Bad
  BY <1>5 DEF Answered
<1>8. runs' \subseteq RunSet /\ IsFiniteSet(runs') /\ RunsAreOfValues'
  <2>1. CASE runs' = others \cup {rest}
    <3>1. IsFiniteSet({rest})
      BY FS_Singleton
    <3> QED BY <1>2, <1>4, <1>6, <2>1, <3>1, RunKeeps
  <2>2. CASE runs' = others
    <3>1. IsFiniteSet({}) /\ runs' = others \cup {}
      BY <2>2, FS_EmptySet
    <3> QED BY <1>2, <3>1, RunKeeps
  <2>3. CASE runs' = others \cup {asked}
    <3>1. IsFiniteSet({asked})
      BY FS_Singleton
    <3> QED BY <1>2, <1>5, <1>7, <2>3, <3>1, RunKeeps
  <2> QED BY <1>3, <2>1, <2>2, <2>3
<1>9. Form!ErrorIsOfValue'
  <2>1. f \notin r.edited => (f \in r.refused <=> stepValue[f] = Bad)
    <3>1. f \in Answered(r)
      BY <1>1 DEF Answered
    <3> QED BY <3>1 DEF WizardInv, RunsAreOfValues
  <2>2. \A g \in Steps : g \notin outdated => (g \in refusals <=> stepValue[g] = Bad)
    BY DEF WizardInv, Form!ErrorIsOfValue
  <2> QED BY <1>2, <2>1, <2>2 DEF Form!ErrorIsOfValue
<1>10. Form!FlagsAreBacked'
  <2>1. validating = "yes" => \E s \in runs : s.kind \in {"validate", "submit"}
    BY DEF WizardInv, Form!FlagsAreBacked
  <2>2. CASE runs' = others \cup {asked}
    BY <1>5, <2>2 DEF Form!FlagsAreBacked
  <2>3. CASE runs' = others \cup {rest} /\ UNCHANGED validating
    BY <1>4, <2>1, <2>3 DEF Form!FlagsAreBacked
  <2>4. CASE runs' = others /\ r.kind \notin {"validate", "submit"} /\ UNCHANGED validating
    BY <2>1, <2>4 DEF Form!FlagsAreBacked
  <2> QED BY <1>3, <2>2, <2>3, <2>4
<1>11. WizardTypes'
  BY <1>1, <1>2, <1>3, <1>8 DEF WizardTypes
<1>12. Form!NextIsOffered' /\ Form!WizardGetsCheckedValues'
  BY <1>2, <1>3 DEF WizardInv, Form!NextIsOffered, Form!WizardGetsCheckedValues
<1>13. FormerIsSeen' /\ Form!ChangesAreSaved'
  BY <1>2 DEF WizardInv, FormerIsSeen, Form!ChangesAreSaved
<1> QED BY <1>8, <1>9, <1>10, <1>11, <1>12, <1>13 DEF WizardInv

\* Every step of the form of steps.
LEMMA WizardStep ==
  ASSUME WizardConstants, WizardInv, [Form!WizardNext]_Form!wizardVars
  PROVE  WizardInv'
<1>1. WizardTypes
  BY DEF WizardInv
<1>2. ASSUME NEW f \in Steps, NEW v \in {Good, Bad}, Form!setFieldValue(f, v) PROVE WizardInv'
  <2> DEFINE older == {[r EXCEPT !.edited = @ \cup {f}] : r \in runs}
             base == Form!Run("field", {f}, currentStep)
             new == [base EXCEPT !.refused = IF v = Bad THEN {f} ELSE {}]
  <2>1. /\ stepValue' = [stepValue EXCEPT ![f] = v]
        /\ Form!Cardinality(runs) < MaxRuns /\ runs' = older \cup {new}
        /\ outdated' = outdated \cup {f}
        /\ unseen' = unseen \cup {"values"} /\ saved' = FALSE
        /\ autoSave' = IF autoSave = "none" THEN "none" ELSE "former"
        /\ UNCHANGED <<refusals, currentStep, canGoNext, validating, refusedOnce>>
    BY <1>2 DEF Form!setFieldValue, Form!ValuesChange, Form!stepVars, Form!wizardFormVars
  <2>2. base \in RunSet /\ base.kind = "field" /\ base.left = {f} /\ base.edited = {}
    BY <1>1, <2>1, NewRun
  <2>3. /\ new \in RunSet /\ new.kind = "field" /\ new.left = {f} /\ new.edited = {}
        /\ new.refused = IF v = Bad THEN {f} ELSE {}
    <3> HIDE DEF base
    <3> QED BY <2>2 DEF RunSet
  <2> HIDE DEF new, base
  <2>4. /\ older \subseteq RunSet /\ IsFiniteSet(older)
        /\ \A r \in older : \A g \in Answered(r) \ r.edited : g \in r.refused <=> stepValue'[g] = Bad
        /\ \A r \in runs : \E s \in older : s.kind = r.kind
    <3>1. \A g \in Steps \ {f} : stepValue'[g] = stepValue[g]
      BY <1>1, <2>1 DEF WizardTypes
    <3>2. {f} \in SUBSET Steps /\ \A s : s \in older <=> \E r \in runs : s = [r EXCEPT !.edited = @ \cup {f}]
      OBVIOUS
    <3> HIDE DEF older
    <3> QED BY <3>1, <3>2, MarkedKeeps
  <2> HIDE DEF older
  <2>5. stepValue' \in [Steps -> {Good, Bad}] /\ stepValue'[f] = v
    BY <1>1, <2>1 DEF WizardTypes
  <2>6. \A g \in Answered(new) \ new.edited : g \in new.refused <=> stepValue'[g] = Bad
    BY <2>3, <2>5 DEF Answered
  <2>7. RunsAreOfValues'
    BY <2>1, <2>4, <2>6 DEF RunsAreOfValues, Answered
  <2>8. WizardTypes'
    BY <1>1, <2>1, <2>3, <2>4, <2>5, FS_AddElement DEF WizardTypes
  <2>9. Form!ErrorIsOfValue'
    BY <1>1, <2>1 DEF WizardInv, WizardTypes, Form!ErrorIsOfValue
  <2>10. Form!FlagsAreBacked'
    BY <2>1, <2>4 DEF WizardInv, Form!FlagsAreBacked
  <2>11. Form!NextIsOffered' /\ Form!WizardGetsCheckedValues' /\ FormerIsSeen' /\ Form!ChangesAreSaved'
    BY <2>1 DEF WizardInv, Form!NextIsOffered, Form!WizardGetsCheckedValues, FormerIsSeen,
       Form!ChangesAreSaved
  <2> QED BY <2>7, <2>8, <2>9, <2>10, <2>11 DEF WizardInv
<1>3. ASSUME NEW s \in Steps, Form!goToStep(s) PROVE WizardInv'
  <2>1. /\ currentStep' = s /\ unseen' = unseen \cup {"step"}
        /\ UNCHANGED <<refusals, outdated, runs, stepValue, autoSave, saved, canGoNext, validating,
                       refusedOnce>>
    BY <1>3 DEF Form!goToStep, Form!fieldVars, Form!wizardFormVars
  <2>2. WizardTypes' /\ RunsAreOfValues'
    BY <1>1, <2>1 DEF WizardInv, WizardTypes, RunsAreOfValues, Answered
  <2> QED BY <2>1, <2>2 DEF WizardInv, Form!ErrorIsOfValue, Form!WizardGetsCheckedValues,
             Form!NextIsOffered, FormerIsSeen, Form!ChangesAreSaved, Form!FlagsAreBacked
<1>4. ASSUME NEW kind \in {"validate", "submit"}, Form!validateAll(kind) PROVE WizardInv'
  <2>1. /\ Form!Starts(kind, Steps) /\ validating' = "yes"
        /\ UNCHANGED <<refusals, outdated, unseen, stepValue, autoSave, saved, currentStep,
                       canGoNext, refusedOnce>>
    BY <1>4 DEF Form!validateAll, Form!fieldVars, Form!stepVars
  <2>2. /\ runs' \subseteq RunSet /\ IsFiniteSet(runs') /\ RunsAreOfValues'
        /\ \E r \in runs' : r.kind = kind
    BY <2>1, StartsKeeps
  <2>3. WizardTypes' /\ Form!FlagsAreBacked'
    BY <1>1, <2>1, <2>2 DEF WizardTypes, Form!FlagsAreBacked
  <2> QED BY <2>1, <2>2, <2>3 DEF WizardInv, Form!ErrorIsOfValue, Form!WizardGetsCheckedValues,
             Form!NextIsOffered, FormerIsSeen, Form!ChangesAreSaved
<1>5. ASSUME Form!next PROVE WizardInv'
  <2>1. /\ Form!Starts("next", {currentStep})
        /\ UNCHANGED <<refusals, outdated, unseen, stepValue, autoSave, saved, currentStep,
                       canGoNext, validating,
                       refusedOnce>>
    BY <1>5 DEF Form!next, Form!fieldVars, Form!stepVars, Form!wizardFormVars
  <2>2. {currentStep} \in SUBSET Steps
    BY <1>1 DEF WizardTypes
  <2>3. runs' \subseteq RunSet /\ IsFiniteSet(runs') /\ RunsAreOfValues' /\ runs \subseteq runs'
    BY <2>1, <2>2, StartsKeeps
  <2>4. WizardTypes'
    BY <1>1, <2>1, <2>3 DEF WizardTypes
  <2> QED BY <2>1, <2>3, <2>4 DEF WizardInv, Form!ErrorIsOfValue, Form!WizardGetsCheckedValues,
             Form!NextIsOffered, FormerIsSeen, Form!ChangesAreSaved, Form!FlagsAreBacked
<1>6. ASSUME Form!resetWizard PROVE WizardInv'
  <2>1. /\ stepValue' = [f \in Steps |-> Good] /\ refusals' = {} /\ outdated' = {}
        /\ runs' = {[r EXCEPT !.edited = Steps] : r \in runs}
        /\ unseen' = {"step", "values"} /\ saved' = FALSE
        /\ autoSave' = IF autoSave = "none" THEN "none" ELSE "former"
        /\ UNCHANGED <<currentStep, canGoNext, validating, refusedOnce>>
    BY <1>6 DEF Form!resetWizard, Form!stepVars, Form!wizardFormVars
  <2>2. \A r \in runs : [r EXCEPT !.edited = Steps] = [r EXCEPT !.edited = @ \cup Steps]
    <3>1. \A r \in runs : r.edited \cup Steps = Steps
      BY <1>1 DEF WizardTypes, RunSet
    <3> QED BY <3>1
  <2>3. \A s : s \in runs' <=> \E r \in runs : s = [r EXCEPT !.edited = @ \cup Steps]
    BY <2>1, <2>2
  <2>4. /\ runs' \subseteq RunSet /\ IsFiniteSet(runs')
        /\ \A r \in runs' : \A f \in Answered(r) \ r.edited : f \in r.refused <=> stepValue'[f] = Bad
        /\ \A r \in runs : \E s \in runs' : s.kind = r.kind
    <3>1. Steps \in SUBSET Steps /\ \A f \in Steps \ Steps : stepValue'[f] = stepValue[f]
      OBVIOUS
    <3> QED BY <2>3, <3>1, MarkedKeeps
  <2>5. WizardTypes' /\ RunsAreOfValues'
    BY <1>1, <2>1, <2>4 DEF WizardTypes, RunsAreOfValues, Answered
  <2>6. Form!FlagsAreBacked'
    BY <2>1, <2>4 DEF WizardInv, Form!FlagsAreBacked
  <2>7. Form!ErrorIsOfValue'
    BY <2>1 DEF WizardConstants, Form!ErrorIsOfValue
  <2> QED BY <2>1, <2>5, <2>6, <2>7 DEF WizardInv, Form!WizardGetsCheckedValues, Form!NextIsOffered,
             FormerIsSeen, Form!ChangesAreSaved
<1>7. ASSUME Form!EffectsRun PROVE WizardInv'
  <2>1. /\ unseen' = {}
        /\ canGoNext' = IF "step" \in unseen THEN currentStep \notin refusals ELSE canGoNext
        /\ autoSave' = IF "values" \in unseen THEN "current" ELSE autoSave
        /\ UNCHANGED <<stepValue, refusals, outdated, runs, saved, currentStep, validating,
                       refusedOnce>>
    BY <1>7 DEF Form!EffectsRun, Form!Timed, Form!wizardFormVars
  <2>2. Form!NextIsOffered'
    BY <2>1 DEF WizardInv, Form!NextIsOffered
  <2>3. WizardTypes' /\ RunsAreOfValues'
    <3>1. canGoNext' \in BOOLEAN
      BY <1>1, <2>1 DEF WizardTypes
    <3> QED BY <1>1, <2>1, <3>1 DEF WizardInv, WizardTypes, RunsAreOfValues, Answered
  <2> QED BY <2>1, <2>2, <2>3 DEF WizardInv, WizardTypes, Form!ErrorIsOfValue,
             Form!WizardGetsCheckedValues,
             FormerIsSeen, Form!ChangesAreSaved, Form!FlagsAreBacked
<1>8. ASSUME Form!AutoSaves PROVE WizardInv'
  <2>1. /\ autoSave # "none" /\ saved' = (autoSave = "current") /\ autoSave' = "none"
        /\ UNCHANGED <<stepValue, refusals, outdated, runs, unseen, currentStep, canGoNext,
                       validating, refusedOnce>>
    BY <1>8 DEF Form!AutoSaves, Form!stepVars, Form!wizardFormVars
  <2>2. WizardTypes' /\ RunsAreOfValues'
    BY <1>1, <2>1 DEF WizardInv, WizardTypes, RunsAreOfValues, Answered
  <2> QED BY <1>1, <2>1, <2>2 DEF WizardInv, WizardTypes, Form!ErrorIsOfValue,
             Form!WizardGetsCheckedValues,
             Form!NextIsOffered, FormerIsSeen, Form!ChangesAreSaved, Form!FlagsAreBacked
<1>9. ASSUME NEW r \in runs, NEW f \in r.left, Form!FieldThrows(r, f) PROVE WizardInv'
  <2> DEFINE rest == [r EXCEPT !.left = @ \ {f}, !.kind = "field"]
             goes == IF r.left = {f} THEN {} ELSE {rest}
  <2>1. /\ runs' = (runs \ {r}) \cup goes
        /\ validating' = IF r.kind \in {"validate", "submit"} THEN "stuck" ELSE validating
        /\ UNCHANGED <<refusals, outdated, unseen, stepValue, autoSave, saved, currentStep,
                       canGoNext, refusedOnce>>
    BY <1>9 DEF Form!FieldThrows, Form!fieldVars, Form!stepVars
  <2>2. r \in RunSet
    BY <1>1 DEF WizardTypes
  <2>3. /\ rest \in RunSet /\ rest.kind = "field" /\ rest.left = r.left \ {f}
        /\ rest.refused = r.refused /\ rest.edited = r.edited
    BY <2>2 DEF RunSet
  <2> HIDE DEF rest
  <2>4. \A g \in Answered(rest) \ rest.edited : g \in rest.refused <=> stepValue[g] = Bad
    <3>1. Answered(rest) \subseteq Answered(r)
      BY <2>2, <2>3 DEF Answered, RunSet
    <3> QED BY <2>3, <3>1 DEF WizardInv, RunsAreOfValues
  <2>5. goes \subseteq RunSet /\ IsFiniteSet(goes)
        /\ \A s \in goes : \A g \in Answered(s) \ s.edited : g \in s.refused <=> stepValue[g] = Bad
    BY <2>3, <2>4, FS_EmptySet, FS_Singleton
  <2> HIDE DEF goes
  <2>6. runs' \subseteq RunSet /\ IsFiniteSet(runs') /\ RunsAreOfValues'
    BY <2>1, <2>5, RunKeeps
  <2>7. Form!FlagsAreBacked'
    BY <2>1 DEF WizardInv, Form!FlagsAreBacked
  <2>8. WizardTypes'
    BY <1>1, <2>1, <2>6 DEF WizardTypes
  <2> QED BY <2>1, <2>6, <2>7, <2>8 DEF WizardInv, Form!ErrorIsOfValue,
             Form!WizardGetsCheckedValues,
             Form!NextIsOffered, FormerIsSeen, Form!ChangesAreSaved
<1>10. ASSUME NEW r \in runs, r.kind \in {"validate", "submit"}, NEW ok \in BOOLEAN,
              Form!WizardFormAnswer(r, ok)
       PROVE  WizardInv'
  <2>1. /\ runs' = runs \ {r} /\ validating' = "no"
        /\ refusedOnce' = (refusedOnce \/ (/\ r.kind = "submit" /\ ok /\ r.refused = {}
                                           /\ \E f \in Steps \ r.edited : stepValue[f] = Bad))
        /\ UNCHANGED <<refusals, outdated, unseen, stepValue, autoSave, saved, currentStep,
                       canGoNext>>
    BY <1>10 DEF Form!WizardFormAnswer, Form!Accepted, Form!fieldVars, Form!stepVars
  <2>2. \A f \in Steps \ r.edited : f \in r.refused <=> stepValue[f] = Bad
    BY <1>10 DEF WizardInv, RunsAreOfValues, Answered
  <2>3. Form!WizardGetsCheckedValues'
    BY <2>1, <2>2 DEF WizardInv, Form!WizardGetsCheckedValues
  <2>4. IsFiniteSet(runs')
    BY <1>1, <2>1, FS_Subset DEF WizardTypes
  <2>5. WizardTypes' /\ RunsAreOfValues'
    BY <1>1, <2>1, <2>4 DEF WizardInv, WizardTypes, RunsAreOfValues, Answered
  <2> QED BY <2>1, <2>3, <2>5 DEF WizardInv, Form!ErrorIsOfValue, Form!NextIsOffered, FormerIsSeen,
             Form!ChangesAreSaved, Form!FlagsAreBacked
<1>12. ASSUME NEW r \in runs, Form!WizardFormThrows(r) PROVE WizardInv'
  <2>1. /\ runs' = runs \ {r} /\ validating' = "stuck"
        /\ UNCHANGED <<refusals, outdated, unseen, stepValue, autoSave, saved, currentStep,
                       canGoNext, refusedOnce>>
    BY <1>12 DEF Form!WizardFormThrows, Form!fieldVars, Form!stepVars
  <2>2. IsFiniteSet(runs')
    BY <1>1, <2>1, FS_Subset DEF WizardTypes
  <2>3. WizardTypes' /\ RunsAreOfValues'
    BY <1>1, <2>1, <2>2 DEF WizardInv, WizardTypes, RunsAreOfValues, Answered
  <2> QED BY <2>1, <2>3 DEF WizardInv, Form!ErrorIsOfValue, Form!NextIsOffered, FormerIsSeen,
             Form!ChangesAreSaved, Form!FlagsAreBacked, Form!WizardGetsCheckedValues
<1>11. ASSUME UNCHANGED Form!wizardVars PROVE WizardInv'
  BY <1>1, <1>11 DEF Form!wizardVars, WizardInv, WizardTypes, RunsAreOfValues, Answered,
     Form!ErrorIsOfValue,
     Form!WizardGetsCheckedValues, Form!NextIsOffered, FormerIsSeen, Form!ChangesAreSaved,
       Form!FlagsAreBacked
<1> QED BY <1>2, <1>3, <1>4, <1>5, <1>6, <1>7, <1>8, <1>9, <1>10, <1>11, <1>12,
           WizardAnswerKeeps DEF Form!WizardNext

LEMMA WizardAlways == WizardConstants => (Form!WizardSpec => []WizardInv)
<1> SUFFICES ASSUME WizardConstants PROVE Form!WizardSpec => []WizardInv
  OBVIOUS
<1>1. Form!WizardInit => WizardInv
  <2> SUFFICES ASSUME Form!WizardInit PROVE WizardInv
    OBVIOUS
  <2>1. runs = {} /\ IsFiniteSet(runs)
    BY FS_EmptySet DEF Form!WizardInit
  <2> QED BY <2>1 DEF Form!WizardInit, WizardInv, WizardTypes, WizardConstants, RunsAreOfValues,
             Form!ErrorIsOfValue, Form!WizardGetsCheckedValues, Form!NextIsOffered, FormerIsSeen,
             Form!ChangesAreSaved, Form!FlagsAreBacked
<1>2. WizardInv /\ [Form!WizardNext]_Form!wizardVars => WizardInv'
  BY WizardStep
<1> QED BY <1>1, <1>2, PTL DEF Form!WizardSpec

\* The handler of a form of steps gets values that all validators accepted, unless they were
\* edited since the last validation began, and no check that came late leaves the error of a
\* former value unnoticed, the next step wrongly offered, an edit unsaved or the flag set.
THEOREM WizardIsConsistent ==
  WizardConstants =>
    (Form!WizardSpec => [](/\ Form!WizardGetsCheckedValues /\ Form!ErrorIsOfValue /\ Form!NextIsOffered
                           /\ Form!ChangesAreSaved /\ Form!FlagsAreBacked))
<1>1. WizardInv => /\ Form!WizardGetsCheckedValues /\ Form!ErrorIsOfValue /\ Form!NextIsOffered
                   /\ Form!ChangesAreSaved /\ Form!FlagsAreBacked
  BY DEF WizardInv
<1> QED BY <1>1, WizardAlways, PTL
==============================================================================
