------------------------------ MODULE Resource ------------------------------
(***************************************************************************)
(* packages/resource/src/resource.ts: class Resource, one endpoint with    *)
(* its requests, their deduplication, cancellation and retry, optimistic   *)
(* changes with rollback, and the queue of mutations.                      *)
(*                                                                         *)
(* A call is named by its place in the order of calls.  Data is what the   *)
(* screen shows: nothing, one item, or a list with the changes (patches)   *)
(* in it, each named by the call that made it; from is the call whose      *)
(* answer it is.  The server is external: an answer may come, fail, or     *)
(* never come, and a list holds the mutations that were answered.          *)
(*                                                                         *)
(* An answer comes only when the microtasks of the last one have run; user *)
(* code can run between any two steps.                                     *)
(*                                                                         *)
(* Left out: read(id), error texts, calls on a disposed resource (they are *)
(* refused), a browser without AbortSignal.any, the DOM callbacks and the  *)
(* registry of resources.                                                  *)
(***************************************************************************)
EXTENDS Naturals, Sequences, FiniteSets

CONSTANTS Ops,       \* the mutations in use: of "create", "update", "delete"
          Bodies,    \* the arguments of mutations: equal ones are deduplicated
          MaxRetries,
          MaxCalls   \* bound: calls

ASSUME ResourceAssumption ==
  /\ Ops \subseteq {"create", "update", "delete"}
  /\ MaxRetries \in Nat /\ MaxCalls \in Nat

VARIABLES
  data, loading, isStale,  \* the signal
  recent,      \* is lastUpdated younger than staleTime
  calls,
  controller,  \* is there a _currentRequestController
  dedupe,      \* _dedupeCache: the call whose promise is stored, or 0
  snapshots,   \* _optimisticSnapshots: what each call found, or Undefined
  queue,       \* the length of _mutationQueue
  processing,
  timer,       \* is the auto refresh on
  destroyed

signal == <<data, loading, isStale, recent>>
mutations == <<queue, processing>>
vars == <<signal, calls, controller, dedupe, snapshots, mutations, timer, destroyed>>

Calls == 1..MaxCalls
List == <<"get", "list">>
Keys == {List} \cup (Ops \X Bodies)

Null == [kind |-> "none", patches |-> {}, from |-> 0]
Undefined == [Null EXCEPT !.kind = "undefined"]

Init ==
  /\ data = Null /\ loading = FALSE /\ isStale = FALSE /\ recent = FALSE
  /\ calls = <<>> /\ controller = FALSE
  /\ dedupe = [k \in Keys |-> 0]
  /\ snapshots = [c \in Calls |-> Undefined]
  /\ queue = 0 /\ processing = FALSE
  /\ timer = FALSE /\ destroyed = FALSE
-----------------------------------------------------------------------------
(* Making a request. *)

Made == DOMAIN calls
In(state) == {c \in Made : calls[c].state = state}
IsGet(c) == calls[c].key = List

\* The microtasks of the last answer have run, so a timer or an answer can come.
Quiet == In("aborting") \cup In("answered") \cup In("delivered") = {}

\* Faulty variant: the previous request is not told to stop.
abort_Never(cs, who) == cs

\* The fetches that listen to this controller fail with an AbortError.
abort(cs, who) ==
  [c \in DOMAIN cs |-> IF cs[c].state = "fetching" /\ who \in cs[c].listens
                       THEN [cs[c] EXCEPT !.state = "aborting"] ELSE cs[c]]

\* What is done with the result: keep says who waits for it.
NewCall(key, keep) ==
  [key |-> key, keep |-> keep, state |-> "fetching", of |-> Len(calls) + 1, attempt |-> 0,
   listens |-> {"request", "life"}, result |-> "none"]

HasRoom == Len(calls) + queue < MaxCalls

\* Data that list does not fetch again.
IsFresh == data.kind # "none" /\ recent /\ ~isStale

\* _request up to its await, made from the calls cs: abort the previous request,
\* then join an equal one, find the data fresh, or fetch.
request(cs, key, force, keep) ==
  LET stopped == abort(cs, "request")
      new == NewCall(key, keep)
      joins == ~force /\ dedupe[key] # 0
      skips == ~force /\ ~joins /\ key = List /\ IsFresh
  IN /\ controller' = TRUE
     /\ \/ /\ joins
           /\ calls' = Append(stopped, [new EXCEPT !.state = "joined", !.of = dedupe[key],
                                                   !.listens = {}])
           /\ UNCHANGED <<dedupe, loading>>
        \/ skips /\ calls' = stopped /\ UNCHANGED <<dedupe, loading>>
        \/ /\ ~joins /\ ~skips
           /\ calls' = Append(stopped, new)
           /\ dedupe' = [dedupe EXCEPT ![key] = new.of]
           /\ loading' = (loading \/ (key = List /\ data.kind = "none"))

list(force) ==
  /\ HasRoom /\ ~destroyed
  /\ request(calls, List, force, "nobody")
  /\ UNCHANGED <<data, isStale, recent, snapshots, mutations, timer, destroyed>>

\* create, update and delete.
mutate(op, b) ==
  /\ HasRoom /\ ~destroyed
  /\ request(calls, <<op, b>>, FALSE, "nobody")
  /\ UNCHANGED <<data, isStale, recent, snapshots, mutations, timer, destroyed>>

\* createOptimistic, updateOptimistic and deleteOptimistic up to their await.
mutateOptimistic(op, b) ==
  LET c == Len(calls) + 1 IN
  /\ HasRoom /\ ~destroyed
  /\ snapshots' = [snapshots EXCEPT ![c] = data]
  /\ IF data.kind = "list"
       THEN data' = [data EXCEPT !.patches = @ \cup {c}] /\ recent' = TRUE
       ELSE UNCHANGED <<data, recent>>
  /\ request(calls, <<op, b>>, FALSE, "optimistic")
  /\ UNCHANGED <<isStale, mutations, timer, destroyed>>

\* enqueueMutation with an update.
enqueueMutation(b) ==
  /\ HasRoom /\ ~destroyed
  /\ IF processing
       THEN queue' = queue + 1 /\ UNCHANGED <<calls, controller, dedupe, loading, processing>>
       ELSE processing' = TRUE /\ UNCHANGED queue /\ request(calls, <<"update", b>>, FALSE, "queue")
  /\ UNCHANGED <<data, isStale, recent, snapshots, timer, destroyed>>

invalidate ==
  /\ isStale' = TRUE
  /\ UNCHANGED <<data, loading, recent, calls, controller, dedupe, snapshots, mutations,
                 timer, destroyed>>

\* setData with an updater that returns a list of its own.
setData ==
  /\ data' = [Null EXCEPT !.kind = "list"] /\ recent' = TRUE
  /\ UNCHANGED <<loading, isStale, calls, controller, dedupe, snapshots, mutations,
                 timer, destroyed>>

GetsOld ==
  /\ Quiet /\ recent /\ recent' = FALSE
  /\ UNCHANGED <<data, loading, isStale, calls, controller, dedupe, snapshots, mutations,
                 timer, destroyed>>
-----------------------------------------------------------------------------
(* The network.                                                            *)

Settle(c, result) == calls' = [calls EXCEPT ![c].state = "answered", ![c].result = result]
OnlyCalls == UNCHANGED <<signal, controller, dedupe, snapshots, mutations, timer, destroyed>>

\* "ok" with a body, or "empty" for 204.
Answer(c, result) ==
  /\ Quiet /\ c \in In("fetching")
  /\ Settle(c, result)
  /\ OnlyCalls

\* Faulty variant: one retry too many.
MayRetry_OffByOne(c, why) == calls[c].attempt <= MaxRetries /\ (IsGet(c) \/ why = "network")

MayRetry(c, why) == calls[c].attempt < MaxRetries /\ (IsGet(c) \/ why = "network")

\* An error of the network, or a status that is not ok.
Fail(c, why) ==
  /\ Quiet /\ c \in In("fetching")
  /\ IF MayRetry(c, why) THEN calls' = [calls EXCEPT ![c].state = "sleeping"]
                         ELSE Settle(c, "failed")
  /\ OnlyCalls

\* The wait is over.  The next attempt listens to the controller of the newest
\* request, and to the life of the resource as it is now.
Retry(c) ==
  /\ Quiet /\ c \in In("sleeping")
  /\ calls' = [calls EXCEPT
       ![c].state = IF destroyed THEN "aborting" ELSE "fetching",
       ![c].listens = {"life"} \cup (IF controller THEN {"request"} ELSE {}),
       ![c].attempt = @ + 1]
  /\ OnlyCalls

AbortError(c) ==
  /\ c \in In("aborting")
  /\ Settle(c, "failed")
  /\ OnlyCalls

Succeeded(c) == calls[c].result \in {"ok", "empty"}

AnswerOf(c) ==
  IF IsGet(c)
    THEN [kind |-> "list", patches |-> {m \in Made : ~IsGet(m) /\ Succeeded(m)}, from |-> c]
    ELSE [kind |-> "item", patches |-> {}, from |-> c]

\* What is kept of a call that has ended, for the properties.
Over(c, result) ==
  [calls[c] EXCEPT !.state = "done", !.result = result, !.attempt = 0, !.listens = {}]

\* Faulty variant: only a success takes the promise out of the store.
Forgotten_OnSuccess(c) ==
  IF Succeeded(c) THEN [dedupe EXCEPT ![calls[c].key] = 0] ELSE dedupe

Forgotten(c) == [dedupe EXCEPT ![calls[c].key] = 0]

\* Faulty variant: a failure leaves the spinner on.
Deliver_KeepsLoading(c) ==
  /\ c \in In("answered")
  /\ dedupe' = Forgotten(c)
  /\ calls' = [calls EXCEPT ![c] = IF calls[c].keep = "nobody" THEN Over(c, calls[c].result)
                                   ELSE [@ EXCEPT !.state = "delivered"]]
  /\ CASE calls[c].result = "ok" ->
            data' = AnswerOf(c) /\ loading' = FALSE /\ recent' = TRUE /\ isStale' = FALSE
       [] calls[c].result = "failed" ->
            UNCHANGED signal
       [] OTHER -> UNCHANGED signal
  /\ UNCHANGED <<controller, snapshots, mutations, timer, destroyed>>

\* _request after its await: any result is taken, also of an old request.
Deliver(c) ==
  /\ c \in In("answered")
  /\ dedupe' = Forgotten(c)
  /\ calls' = [calls EXCEPT ![c] = IF calls[c].keep = "nobody" THEN Over(c, calls[c].result)
                                   ELSE [@ EXCEPT !.state = "delivered"]]
  /\ CASE calls[c].result = "ok" ->
            data' = AnswerOf(c) /\ loading' = FALSE /\ recent' = TRUE /\ isStale' = FALSE
       [] calls[c].result = "failed" ->
            loading' = FALSE /\ UNCHANGED <<data, recent, isStale>>
       [] OTHER -> UNCHANGED signal
  /\ UNCHANGED <<controller, snapshots, mutations, timer, destroyed>>
-----------------------------------------------------------------------------
(* What the caller of a request does with its result. *)

\* The promise call c waits for is settled.
Resumes(c) ==
  \/ c \in In("delivered")
  \/ c \in In("joined") /\ calls[calls[c].of].result # "none"

ResultFor(c) == calls[calls[c].of].result
Finished(c) == [calls EXCEPT ![c] = Over(c, ResultFor(c))]

\* Faulty variant: only the snapshot of the call itself is invalid.
Surviving_AllOthers(c) == [snapshots EXCEPT ![c] = Undefined]

\* A rollback clears the snapshots of this call and of all newer ones.
Surviving(c) == [v \in Calls |-> IF v >= c THEN Undefined ELSE snapshots[v]]

\* _rollbackSnapshot: nothing happens if an older call was rolled back before.
Rollback(c) ==
  /\ calls[c].keep = "optimistic" /\ Resumes(c) /\ ResultFor(c) = "failed"
  /\ calls' = Finished(c)
  /\ IF snapshots[c] # Undefined
       THEN snapshots' = Surviving(c) /\ data' = snapshots[c] /\ recent' = TRUE
       ELSE UNCHANGED <<snapshots, data, recent>>
  /\ UNCHANGED <<loading, isStale, controller, dedupe, mutations, timer, destroyed>>

\* The optimistic call succeeded.  The temporary item of a create becomes the
\* real one, or goes if the server sent none; a delete without an answer leaves
\* the list stale.
Finalize(c) ==
  LET op == calls[c].key[1]
      adjusts == op = "create" /\ data.kind = "list"
      empty == ResultFor(c) = "empty"
  IN /\ calls[c].keep = "optimistic" /\ Resumes(c) /\ ResultFor(c) # "failed"
     /\ calls' = Finished(c)
     /\ snapshots' = [snapshots EXCEPT ![c] = Undefined]
     /\ data' = IF adjusts /\ empty THEN [data EXCEPT !.patches = @ \ {c}] ELSE data
     /\ recent' = (recent \/ adjusts)
     /\ isStale' = (isStale \/ (op = "delete" /\ empty))
     /\ UNCHANGED <<loading, controller, dedupe, mutations, timer, destroyed>>

JoinedReturns(c) ==
  /\ calls[c].keep = "nobody" /\ c \in In("joined") /\ Resumes(c)
  /\ calls' = Finished(c)
  /\ OnlyCalls

\* Faulty variant: a failed mutation ends the loop and leaves the others there.
QueueGoesOn_UnlessFailed(c) == queue > 0 /\ ResultFor(c) # "failed"

QueueGoesOn(c) == queue > 0

\* _processQueue after its await: the next mutation starts at once.
QueueStep(c) ==
  /\ calls[c].keep = "queue" /\ Resumes(c)
  /\ IF QueueGoesOn(c)
       THEN /\ queue' = queue - 1 /\ UNCHANGED processing
            /\ \E b \in Bodies : request(Finished(c), <<"update", b>>, FALSE, "queue")
       ELSE /\ processing' = FALSE
            /\ calls' = Finished(c)
            /\ UNCHANGED <<queue, controller, dedupe, loading>>
  /\ UNCHANGED <<data, isStale, recent, snapshots, timer, destroyed>>
-----------------------------------------------------------------------------
(* The life of the resource. *)

Emptied ==
  /\ data' = Null /\ loading' = FALSE /\ isStale' = FALSE /\ recent' = FALSE
  /\ dedupe' = [k \in Keys |-> 0]
  /\ queue' = 0
  /\ timer' = FALSE

\* Requests under way are neither stopped nor forgotten: no controller that the
\* resource still has belongs to them.
reset ==
  /\ Emptied
  /\ calls' = [c \in Made |-> [calls[c] EXCEPT !.listens = {}]]
  /\ controller' = FALSE /\ destroyed' = FALSE
  /\ UNCHANGED <<snapshots, processing>>

dispose ==
  /\ ~destroyed
  /\ Emptied
  /\ calls' = abort(abort(calls, "life"), "request")
  /\ controller' = FALSE /\ destroyed' = TRUE
  /\ UNCHANGED <<snapshots, processing>>

startAutoRefresh ==
  /\ ~destroyed /\ timer' = TRUE
  /\ UNCHANGED <<signal, calls, controller, dedupe, snapshots, mutations, destroyed>>

stopAutoRefresh ==
  /\ timer' = FALSE
  /\ UNCHANGED <<signal, calls, controller, dedupe, snapshots, mutations, destroyed>>

Refresh ==
  /\ Quiet /\ timer /\ HasRoom /\ data.kind # "none"
  /\ isStale' = TRUE
  /\ request(calls, List, TRUE, "nobody")
  /\ UNCHANGED <<data, recent, snapshots, mutations, timer, destroyed>>

Next ==
  \/ \E force \in BOOLEAN : list(force)
  \/ \E op \in Ops, b \in Bodies : mutate(op, b) \/ mutateOptimistic(op, b)
  \/ "update" \in Ops /\ \E b \in Bodies : enqueueMutation(b)
  \/ invalidate \/ setData \/ GetsOld
  \/ \E c \in Made :
       \/ \E result \in {"ok", "empty"} : Answer(c, result)
       \/ \E why \in {"network", "http"} : Fail(c, why)
       \/ Retry(c) \/ AbortError(c) \/ Deliver(c)
       \/ Rollback(c) \/ Finalize(c) \/ JoinedReturns(c) \/ QueueStep(c)
  \/ reset \/ dispose \/ startAutoRefresh \/ stopAutoRefresh \/ Refresh

Spec == Init /\ [][Next]_vars
-----------------------------------------------------------------------------
Data == [kind : {"none", "undefined", "list", "item"}, patches : SUBSET Calls, from : 0..MaxCalls]
Call == [key : Keys, keep : {"nobody", "optimistic", "queue"}, of : Calls, attempt : 0..MaxRetries,
         state : {"fetching", "sleeping", "aborting", "answered", "delivered", "joined", "done"},
         listens : SUBSET {"request", "life"}, result : {"none", "ok", "empty", "failed"}]

\* Every field of the class and of its signal keeps its type.
TypeOK ==
  /\ data \in Data /\ data.kind # "undefined"
  /\ loading \in BOOLEAN /\ isStale \in BOOLEAN /\ recent \in BOOLEAN
  /\ calls \in Seq(Call) /\ Len(calls) + queue <= MaxCalls
  /\ controller \in BOOLEAN
  /\ dedupe \in [Keys -> 0..MaxCalls]
  /\ snapshots \in [Calls -> Data]
  /\ queue \in Nat /\ processing \in BOOLEAN
  /\ timer \in BOOLEAN /\ destroyed \in BOOLEAN

UnderWay == In("fetching") \cup In("sleeping") \cup In("aborting") \cup In("answered")

\* The comment resource.ts:153-156: only a promise in flight can be joined, so a
\* settled result is never served.
DedupeIsInFlight == \A k \in Keys : dedupe[k] # 0 => dedupe[k] \in UnderWay

\* No spinner for nothing: while loading is set a GET is under way, unless one
\* was answered 204, which the code does not count as the end of loading.
LoadingIsBacked ==
  loading => \E c \in Made : IsGet(c) /\ (c \in UnderWay \/ calls[c].result = "empty")

\* When an optimistic call has failed its change is gone, and no snapshot kept
\* for another rollback brings it back.
NoGhostPatch ==
  \A c \in In("done") : calls[c].keep = "optimistic" /\ calls[c].result = "failed" =>
    /\ c \notin data.patches
    /\ \A v \in Calls : c \notin snapshots[v].patches

\* Queued mutations run one at a time, and none waits while none runs, whatever
\* happened to the previous one and even if reset emptied the queue.
QueueInOrder ==
  LET running == {c \in Made : calls[c].keep = "queue" /\ calls[c].state # "done"}
  IN /\ Cardinality(running) = IF processing THEN 1 ELSE 0
     /\ queue > 0 => processing

Overwrites(c) == calls[c].state = "answered" /\ data'.from = c /\ data.from > c

\* The answer of an older request replaces that of a newer one only if the older
\* one was waiting for its retry when it should have been aborted, or a reset
\* lost sight of it.
OnlyRetriesOvertake ==
  [][\A c \in Made : Overwrites(c) => calls[c].attempt > 0 \/ calls[c].listens = {}]_vars
=============================================================================
