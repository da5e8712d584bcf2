---------------------------- MODULE HttpRequests ----------------------------
(***************************************************************************)
(* Requests of packages/http: request() with its abort controllers, the    *)
(* registry pendingRequests, the retry that calls request() from its own   *)
(* catch block, the response cache, and http.resource(), whose refetch     *)
(* shares one data and one loading signal.                                 *)
(*                                                                         *)
(* A controller is <<r, n>>: the one made by attempt n of request r.  The  *)
(* attempt after it takes the signal of <<r, n>> for its caller's signal,  *)
(* because the options of a retry are the config of the attempt before.    *)
(***************************************************************************)
EXTENDS Integers, FiniteSets

CONSTANTS
  Requests,     \* calls of request(), each made at most once
  Refetches,    \* the calls among them made by the refetch of one resource
  KeyOf,        \* the cache key of each call, its method and URL
  MaxAttempts,  \* retry.maxAttempts: how often a failed attempt is retried
  Intercepted,  \* whether request interceptors are registered
  Caching,      \* whether config.cache.enabled
  None

VARIABLES
  phase,          \* how far each call is
  attempt,        \* the attempt each call is at
  pending,        \* pendingRequests: the controller registered under a key
  aborted,        \* the controllers that were aborted
  callerAborted,  \* the calls whose own AbortSignal was aborted
  cached,         \* the keys httpCache holds a response for
  res             \* the signals of the resource: whose data, and loading

vars == <<phase, attempt, pending, aborted, callerAborted, cached, res>>

Keys == {KeyOf[r] : r \in Requests}
Controllers == Requests \X (1..MaxAttempts + 1)
Ended == {"done", "aborted", "failed"}
UnderWay == {"fetching", "backoff"}

TypeOK ==
  /\ phase \in [Requests -> {"idle", "intercepting"} \cup UnderWay \cup Ended]
  /\ attempt \in [Requests -> 0..MaxAttempts + 1]
  /\ pending \in [Keys -> Controllers \cup {None}]
  /\ aborted \subseteq Controllers /\ callerAborted \subseteq Requests
  /\ cached \subseteq Keys
  /\ res \in [data : Refetches \cup {None}, loading : BOOLEAN]

Init ==
  /\ phase = [r \in Requests |-> "idle"] /\ attempt = [r \in Requests |-> 0]
  /\ pending = [k \in Keys |-> None]
  /\ aborted = {} /\ callerAborted = {} /\ cached = {}
  /\ res = [data |-> None, loading |-> FALSE]

Controller(r) == <<r, attempt[r]>>

\* The signal an attempt got from its caller: the one of the options for the first.
CallerHasAborted(r, n) ==
  IF n = 1 THEN r \in callerAborted ELSE <<r, n - 1>> \in aborted

\* The two signals once refetch has its answer: data on success, loading in any case.
Settled(r, how, signals) ==
  IF r \notin Refetches THEN signals
  ELSE [data |-> IF how = "done" THEN r ELSE signals.data, loading |-> FALSE]

\* Faulty variant: the controller of an attempt is not linked to its caller's signal.
OutcomeUnlinked(r, n) == IF Caching /\ KeyOf[r] \in cached THEN "done" ELSE "fetching"

\* Where attempt n gets to after the interceptors, before its next await: it is
\* answered from the cache, refused, or registers a controller and starts the fetch.
Outcome(r, n) ==
  IF Caching /\ KeyOf[r] \in cached THEN "done"
  ELSE IF CallerHasAborted(r, n) THEN "aborted" ELSE "fetching"

Proceed(r, n, signals) ==
  /\ phase' = [phase EXCEPT ![r] = Outcome(r, n)]
  /\ attempt' = [attempt EXCEPT ![r] = n]
  /\ res' = IF Outcome(r, n) = "fetching" THEN signals ELSE Settled(r, Outcome(r, n), signals)

Register(r, n) == IF Outcome(r, n) = "fetching" THEN [pending EXCEPT ![KeyOf[r]] = <<r, n>>] ELSE pending

Intercept(r, n, signals) ==
  /\ phase' = [phase EXCEPT ![r] = "intercepting"]
  /\ attempt' = [attempt EXCEPT ![r] = n]
  /\ res' = signals

\* request(), or the refetch around it, is called; it runs to its first await.
Send(r) ==
  /\ phase[r] = "idle"
  /\ LET signals == IF r \in Refetches THEN [res EXCEPT !.loading = TRUE] ELSE res
     IN IF Intercepted THEN Intercept(r, 1, signals) /\ UNCHANGED pending
        ELSE Proceed(r, 1, signals) /\ pending' = Register(r, 1)
  /\ UNCHANGED <<aborted, callerAborted, cached>>

InterceptorsEnd(r) ==
  /\ phase[r] = "intercepting"
  /\ Proceed(r, attempt[r], res) /\ pending' = Register(r, attempt[r])
  /\ UNCHANGED <<aborted, callerAborted, cached>>

\* An interceptor throws: nothing is registered for this attempt, and its try block, with the
\* retries, is not entered.
InterceptorFails(r) ==
  /\ phase[r] = "intercepting" /\ phase' = [phase EXCEPT ![r] = "failed"]
  /\ res' = Settled(r, "failed", res)
  /\ UNCHANGED <<attempt, pending, aborted, callerAborted, cached>>

\* The finally block deletes by key, whatever controller is registered there now.
Unregister(r) == [pending EXCEPT ![KeyOf[r]] = None]

\* Faulty variant: the entry is only removed when the request succeeds.
FinishLeaky(r, how) ==
  /\ phase' = [phase EXCEPT ![r] = how]
  /\ pending' = IF how = "done" THEN Unregister(r) ELSE pending
  /\ res' = Settled(r, how, res)
  /\ UNCHANGED <<attempt, aborted, callerAborted>>

\* Faulty variant: an abort that the caller asked for leaves loading as it is.
FinishQuietly(r, how) ==
  /\ phase' = [phase EXCEPT ![r] = how]
  /\ pending' = Unregister(r)
  /\ res' = IF how = "aborted" THEN res ELSE Settled(r, how, res)
  /\ UNCHANGED <<attempt, aborted, callerAborted>>

Finish(r, how) ==
  /\ phase' = [phase EXCEPT ![r] = how]
  /\ pending' = Unregister(r)
  /\ res' = Settled(r, how, res)
  /\ UNCHANGED <<attempt, aborted, callerAborted>>

\* An abort may come too late to reject the fetch, so it does not exclude this.
Succeed(r) ==
  /\ phase[r] = "fetching"
  /\ Finish(r, "done")
  /\ cached' = IF Caching THEN cached \cup {KeyOf[r]} ELSE cached

\* The catch block after an AbortError, or after any error once the caller has aborted.
FailAborted(r) ==
  /\ phase[r] = "fetching"
  /\ Controller(r) \in aborted \/ CallerHasAborted(r, attempt[r])
  /\ Finish(r, "aborted")
  /\ UNCHANGED cached

\* The catch block after a network error or a status: it fails for good when no retry
\* is left, or the status is not one to retry, else it waits with the entry in place.
Fail(r) ==
  /\ phase[r] = "fetching" /\ ~CallerHasAborted(r, attempt[r])
  /\ \/ Finish(r, "failed")
     \/ /\ attempt[r] <= MaxAttempts
        /\ phase' = [phase EXCEPT ![r] = "backoff"]
        /\ UNCHANGED <<attempt, pending, aborted, callerAborted, res>>
  /\ UNCHANGED cached

\* return request(...) in the catch block: the next attempt runs to its first await,
\* and only then the finally block of this one deletes the entry of their common key.
Retry(r) ==
  /\ phase[r] = "backoff"
  /\ IF Intercepted THEN Intercept(r, attempt[r] + 1, res) ELSE Proceed(r, attempt[r] + 1, res)
  /\ pending' = Unregister(r)
  /\ UNCHANGED <<aborted, callerAborted, cached>>

Abort(controllers) ==
  /\ aborted' = aborted \cup controllers
  /\ UNCHANGED <<phase, attempt, callerAborted, cached, res>>

\* setTimeout of the attempt; its timer is cleared by the finally block.
TimeOut(r) == phase[r] \in UnderWay /\ Controller(r) \notin aborted /\ Abort({Controller(r)}) /\ UNCHANGED pending

\* The caller's AbortSignal; only the first attempt has a listener on it.
CallerAborts(r) ==
  /\ r \notin callerAborted /\ phase[r] \notin Ended
  /\ callerAborted' = callerAborted \cup {r}
  /\ aborted' = IF phase[r] \in UnderWay /\ attempt[r] = 1 THEN aborted \cup {<<r, 1>>} ELSE aborted
  /\ UNCHANGED <<phase, attempt, pending, cached, res>>

cancelRequest(k) == pending[k] # None /\ Abort({pending[k]}) /\ UNCHANGED pending

cancelAllRequests ==
  /\ Abort({pending[k] : k \in Keys} \ {None})
  /\ pending' = [k \in Keys |-> None]

clearHttpCache == cached' = {} /\ UNCHANGED <<phase, attempt, pending, aborted, callerAborted, res>>

Next ==
  \/ \E r \in Requests : \/ Send(r) \/ InterceptorsEnd(r) \/ InterceptorFails(r)
                         \/ Succeed(r) \/ FailAborted(r)
                         \/ Fail(r) \/ Retry(r) \/ TimeOut(r) \/ CallerAborts(r)
  \/ \E k \in Keys : cancelRequest(k)
  \/ cancelAllRequests \/ clearHttpCache

Spec == Init /\ [][Next]_vars

------------------------------------------------------------------------------
(* What is checked *)

\* What is registered under a key is the attempt a request for it is at now: no entry
\* outlives its attempt, however calls of one key, retries and cancellations cross, so
\* cancelRequest never aborts the controller of a request that has ended.
RegistryNamesRunning ==
  \A k \in Keys : pending[k] # None =>
    \E r \in Requests : KeyOf[r] = k /\ pending[k] = Controller(r) /\ phase[r] \in UnderWay

\* A request of which an attempt was aborted, by its timeout, by the caller or by a
\* cancellation while it waited out the backoff, is not on the network again.
NoAttemptAfterAbort ==
  \A r \in Requests : \A n \in 1..attempt[r] - 1 : <<r, n>> \in aborted => phase[r] \notin UnderWay

\* While the resource shows that it is loading, a refetch that will end it is under way.
LoadingIsBacked == res.loading => \E r \in Refetches : phase[r] \notin {"idle"} \cup Ended
=============================================================================
