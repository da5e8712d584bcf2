----------------------------- MODULE AsyncSignal -----------------------------
(***************************************************************************)
(* packages/state/src/async.ts: createAsync.  A request is named by the    *)
(* runVersion execute gave it, and its result by the same number.          *)
(*                                                                         *)
(* The function of the user runs synchronously up to its first await: it   *)
(* reads its dependency, and may call refresh, abort and dispose of the    *)
(* same signal before it returns a promise or throws.  The promise settles *)
(* at any later time, also after it was aborted, or never.                 *)
(***************************************************************************)
EXTENDS Naturals, Sequences

CONSTANTS MaxVersion,  \* bound: requests
          MaxNesting   \* bound: calls of execute inside one another

ASSUME AsyncAssumption == MaxVersion \in Nat /\ MaxNesting \in Nat

VARIABLES
  immediate, keepPrevious,  \* the options, which never change
  data, loading, error,  \* the three signals; a request stands for its result
  runVersion,
  controller,  \* activeController: the request it belongs to, or 0
  aborted,     \* the requests whose controller was aborted
  disposed,
  built,       \* createAsync returned, so user code has refresh, abort, dispose
  request,     \* the state of each request
  running,     \* the requests whose synchronous part is on the stack
  dep,         \* the value of the signal fn reads
  readDep,     \* what each request read
  tracked,     \* is the effect subscribed to that signal
  scheduled    \* is the effect queued

options == <<immediate, keepPrevious>>
shown == <<data, loading, error>>
ctrl == <<controller, aborted>>
reactive == <<dep, readDep, tracked, scheduled>>
vars == <<options, shown, runVersion, ctrl, disposed, built, request, running, reactive>>

Versions == 1..MaxVersion

Init ==
  /\ immediate \in BOOLEAN /\ keepPrevious \in BOOLEAN
  /\ data = 0 /\ loading = immediate /\ error = 0
  /\ runVersion = 0 /\ controller = 0 /\ aborted = {}
  /\ disposed = FALSE /\ built = FALSE
  /\ request = [v \in Versions |-> "none"] /\ running = <<>>
  /\ dep = 0 /\ readDep = [v \in Versions |-> 0]
  /\ tracked = FALSE /\ scheduled = FALSE
-----------------------------------------------------------------------------
\* Faulty variant: abort is called without looking whether there is a request.
abortCurrent_Unguarded == aborted' = aborted \cup {controller} /\ controller' = 0

abortCurrent ==
  /\ aborted' = aborted \cup ({controller} \ {0})
  /\ controller' = 0

\* Faulty variant: the previous request is forgotten, not aborted.
execute_NoAbort ==
  LET v == runVersion + 1 IN
  /\ v <= MaxVersion /\ Len(running) < MaxNesting
  /\ UNCHANGED aborted
  /\ runVersion' = v /\ controller' = v
  /\ loading' = TRUE /\ error' = 0
  /\ data' = IF ~keepPrevious /\ v > 1 THEN 0 ELSE data
  /\ request' = [request EXCEPT ![v] = "running"]
  /\ readDep' = [readDep EXCEPT ![v] = dep]
  /\ running' = Append(running, v)

\* execute, up to and including the start of fn.
execute ==
  LET v == runVersion + 1 IN
  /\ v <= MaxVersion /\ Len(running) < MaxNesting
  /\ aborted' = aborted \cup ({controller} \ {0})
  /\ runVersion' = v /\ controller' = v
  /\ loading' = TRUE /\ error' = 0
  /\ data' = IF ~keepPrevious /\ v > 1 THEN 0 ELSE data
  /\ request' = [request EXCEPT ![v] = "running"]
  /\ readDep' = [readDep EXCEPT ![v] = dep]
  /\ running' = Append(running, v)

\* The first run of the effect.  fn cannot use the result of createAsync yet.
Build ==
  /\ ~built /\ running = <<>>
  /\ \/ immediate /\ execute /\ tracked' = TRUE /\ UNCHANGED built
     \/ /\ ~immediate
        /\ built' = TRUE
        /\ UNCHANGED <<shown, runVersion, ctrl, request, readDep, running, tracked>>
  /\ UNCHANGED <<options, disposed, dep, scheduled>>

\* Faulty variant: a change that comes while a request is loading is not requested.
EffectRuns_SkipsWhileLoading ==
  /\ scheduled /\ running = <<>>
  /\ scheduled' = FALSE
  /\ \/ ~disposed /\ ~loading /\ execute /\ tracked' = TRUE
     \/ (disposed \/ loading) /\ UNCHANGED <<shown, runVersion, ctrl, request, readDep, running, tracked>>
  /\ UNCHANGED <<options, disposed, built, dep>>

\* A later run of the effect, from the scheduler; after dispose it is skipped.
EffectRuns ==
  /\ scheduled /\ running = <<>>
  /\ scheduled' = FALSE
  /\ \/ ~disposed /\ execute /\ tracked' = TRUE
     \/ disposed /\ UNCHANGED <<shown, runVersion, ctrl, request, readDep, running, tracked>>
  /\ UNCHANGED <<options, disposed, built, dep>>

\* refresh, by user code or by fn itself.  A disposed signal ignores it.
refresh ==
  /\ built /\ ~disposed
  /\ execute
  /\ UNCHANGED <<options, disposed, built, dep, tracked, scheduled>>

\* Faulty variant: abort leaves the spinner on.
abort_KeepsLoading ==
  /\ built
  /\ abortCurrent
  /\ UNCHANGED <<options, shown, runVersion, disposed, built, request, running, reactive>>

abort ==
  /\ built
  /\ abortCurrent
  /\ loading' = FALSE
  /\ UNCHANGED <<options, data, error, runVersion, disposed, built, request, running, reactive>>

dispose ==
  /\ built /\ ~disposed
  /\ disposed' = TRUE
  /\ abortCurrent
  /\ loading' = FALSE
  /\ tracked' = FALSE
  /\ UNCHANGED <<options, data, error, runVersion, built, request, running, dep, readDep, scheduled>>

SetDependency(x) ==
  /\ dep # x
  /\ dep' = x
  /\ scheduled' = (scheduled \/ tracked)
  /\ UNCHANGED <<options, shown, runVersion, ctrl, disposed, built, request, running, readDep, tracked>>
-----------------------------------------------------------------------------
(* How a request ends. *)

Top == running[Len(running)]
Pop == running' = SubSeq(running, 1, Len(running) - 1)

fnReturns ==
  /\ running # <<>>
  /\ request' = [request EXCEPT ![Top] = "pending"]
  /\ Pop /\ built' = TRUE
  /\ UNCHANGED <<options, shown, runVersion, ctrl, disposed, reactive>>

Settle(v) == request' = [request EXCEPT ![v] = "settled"]

\* The catch block looks at the version and at disposed, not at the controller.
fnThrows ==
  /\ running # <<>>
  /\ Settle(Top)
  /\ IF Top = runVersion /\ ~disposed
       THEN error' = Top /\ loading' = FALSE /\ UNCHANGED data
       ELSE UNCHANGED shown
  /\ Pop /\ built' = TRUE
  /\ UNCHANGED <<options, runVersion, ctrl, disposed, reactive>>

\* Faulty variant: the version alone decides.
IsCurrent_ByVersion(v) == v = runVersion

\* Faulty variant: any answer is taken until dispose.
IsCurrent_NotDisposed(v) == ~disposed

IsCurrent(v) == v = runVersion /\ ~disposed /\ v \notin aborted

Resolve(v) ==
  /\ running = <<>> /\ request[v] = "pending"
  /\ Settle(v)
  /\ IF IsCurrent(v)
       THEN data' = v /\ loading' = FALSE /\ UNCHANGED error
       ELSE UNCHANGED shown
  /\ UNCHANGED <<options, runVersion, ctrl, disposed, built, running, reactive>>

Reject(v) ==
  /\ running = <<>> /\ request[v] = "pending"
  /\ Settle(v)
  /\ IF IsCurrent(v)
       THEN error' = v /\ loading' = FALSE /\ UNCHANGED data
       ELSE UNCHANGED shown
  /\ UNCHANGED <<options, runVersion, ctrl, disposed, built, running, reactive>>

\* An AbortError is ignored, also when nobody aborted the request.
RejectAborted(v) ==
  /\ running = <<>> /\ request[v] = "pending"
  /\ request' = [request EXCEPT ![v] = "forgotten"]
  /\ UNCHANGED <<options, shown, runVersion, ctrl, disposed, built, running, reactive>>

Next ==
  \/ Build \/ EffectRuns \/ refresh \/ abort \/ dispose
  \/ \E x \in {0, 1} : SetDependency(x)
  \/ fnReturns \/ fnThrows
  \/ \E v \in Versions : Resolve(v) \/ Reject(v) \/ RejectAborted(v)

Spec == Init /\ [][Next]_vars
-----------------------------------------------------------------------------
\* Every variable keeps its type: the signals, runVersion, activeController
\* and disposed of createAsync, and the requests that are running.
TypeOK ==
  /\ immediate \in BOOLEAN /\ keepPrevious \in BOOLEAN
  /\ data \in 0..MaxVersion /\ loading \in BOOLEAN /\ error \in 0..MaxVersion
  /\ runVersion \in 0..MaxVersion /\ controller \in 0..MaxVersion
  /\ aborted \subseteq Versions
  /\ disposed \in BOOLEAN /\ built \in BOOLEAN
  /\ request \in [Versions -> {"none", "running", "pending", "settled", "forgotten"}]
  /\ running \in Seq(Versions)
  /\ dep \in {0, 1} /\ readDep \in [Versions -> {0, 1}]
  /\ tracked \in BOOLEAN /\ scheduled \in BOOLEAN

InFlight(v) == v # 0 /\ request[v] \in {"running", "pending"}

\* A spinner is never shown for nothing: while loading is set, the newest
\* request is under way and its answer will be taken, unless it ended with an
\* AbortError of its own, which the code ignores for good.
LoadingIsBacked ==
  loading /\ built =>
    \/ InFlight(runVersion) /\ IsCurrent(runVersion)
    \/ runVersion # 0 /\ request[runVersion] = "forgotten"

\* Only one request is not aborted: the others were told to stop.
OnlyNewestIsUnaborted == \A v \in Versions : InFlight(v) /\ v # runVersion => v \in aborted

\* The answer of an older request never replaces that of a newer one, and
\* nothing is shown after dispose.
NoStaleAnswer ==
  [][ /\ data' # data => data' = 0 \/ (data' > data /\ ~disposed)
      /\ error' # error => error' = 0 \/ (error' = runVersion /\ ~disposed) ]_vars

\* When everything has settled, data shows the present dependency: the effect
\* was run again after every change, and the newest run was the one shown.
DataFollowsDependency ==
  data # 0 /\ data = runVersion /\ tracked /\ ~disposed /\ ~scheduled
    => readDep[data] = dep

\* The outcome of the newest request can still be shown.
Open ==
  /\ ~disposed /\ runVersion # 0
  /\ \/ request[runVersion] = "running"
     \/ request[runVersion] = "pending" /\ runVersion \notin aborted

Latest == INSTANCE LatestRequest
  WITH last <- runVersion, current <- IF Open THEN runVersion ELSE 0, closed <- disposed

\* createAsync shows the newest request and no other.
ShowsLatestRequest == Latest!Spec
=============================================================================
