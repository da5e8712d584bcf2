----------------------------- MODULE ZenRuntime -----------------------------
(***************************************************************************)
(* The code of packages/runtime as a whole and one of its boundaries, with *)
(* a state and a specification each: starting and stopping (Spec), and     *)
(* zen-error-boundary (BoundarySpec).                                      *)
(*                                                                         *)
(* Zen.start, Zen.stop and the reload of packages/runtime: what they keep  *)
(* on a root element and globally.  All of it is synchronous, but an error *)
(* handler, a directive or an action that runs while the document is being *)
(* processed may start and stop roots itself (stack), and processing may   *)
(* throw.                                                                  *)
(***************************************************************************)
EXTENDS Integers, Sequences

CONSTANTS
  Roots,
  MaxStarts,  \* bound: calls of start
  MaxDepth    \* bound: starts within starts

VARIABLES
  starts,       \* the root of each call of start there was
  teardown,     \* __zenithDelegationTeardown: the start it belongs to, or 0
  disposes,     \* __zenithDisposes: the start whose directives it ends, or 0
  delegations,  \* the starts whose listeners are on the document
  bound,        \* the starts whose directives have effects
  stack,        \* the starts under way, the innermost last: [id, injected]
  cloak,        \* the style that hides unprocessed elements is in the document
  reload,       \* the root __ZENITH_RELOAD__ starts again, or "none"
  actions,      \* the application's actions are registered
  thrown,       \* the starts whose processing threw
  cut           \* the roots that were started or stopped while they were processed

vars == <<starts, teardown, disposes, delegations, bound, stack, cloak, reload, actions, thrown, cut>>

Ids == 1..Len(starts)
TypeOK ==
  /\ Len(starts) <= MaxStarts /\ Len(stack) <= MaxDepth
  /\ {teardown[r] : r \in Roots} \cup {disposes[r] : r \in Roots} \subseteq 0..Len(starts)
  /\ {delegations, bound, thrown} \subseteq SUBSET Ids /\ cut \subseteq Roots
  /\ \A i \in 1..Len(stack) : stack[i].id \in Ids /\ stack[i].injected \in BOOLEAN
  /\ cloak \in BOOLEAN /\ reload \in Roots \cup {"none"} /\ actions \in BOOLEAN

Init ==
  /\ starts = <<>> /\ teardown = [r \in Roots |-> 0] /\ disposes = [r \in Roots |-> 0]
  /\ delegations = {} /\ bound = {} /\ stack = <<>> /\ cloak = FALSE /\ reload = "none"
  /\ actions = FALSE /\ thrown = {} /\ cut = {}

Cut(r) == cut \cup (IF \E i \in 1..Len(stack) : starts[stack[i].id] = r THEN {r} ELSE {})

\* Faulty variant: a root that is started again is not stopped.
NothingBefore(r) == [delegations |-> delegations, bound |-> bound]

\* start ends what it started before on this root, if the listeners are still there.
Previous(r) ==
  IF teardown[r] = 0 THEN [delegations |-> delegations, bound |-> bound]
  ELSE [delegations |-> delegations \ {teardown[r]}, bound |-> bound \ {disposes[r]}]

\* Up to the call of processDOM.
start(r) ==
  LET id == Len(starts) + 1
  IN /\ Len(starts) < MaxStarts /\ Len(stack) < MaxDepth /\ starts' = Append(starts, r)
     /\ delegations' = Previous(r).delegations \cup {id} /\ bound' = Previous(r).bound \cup {id}
     /\ teardown' = [teardown EXCEPT ![r] = id]
     /\ cloak' = TRUE /\ stack' = Append(stack, [id |-> id, injected |-> ~cloak])
     /\ cut' = Cut(r)
     /\ UNCHANGED <<disposes, reload, actions, thrown>>

Top == stack[Len(stack)]

\* processDOM returns, and start with it.
Processed ==
  /\ stack # <<>> /\ stack' = SubSeq(stack, 1, Len(stack) - 1)
  /\ disposes' = [disposes EXCEPT ![starts[Top.id]] = Top.id]
  /\ cloak' = (cloak /\ ~Top.injected) /\ reload' = starts[Top.id]
  /\ UNCHANGED <<starts, teardown, delegations, bound, actions, thrown, cut>>

\* It throws, through start and on to the caller, which may be a start that catches it.
ProcessingThrows ==
  /\ stack # <<>> /\ stack' = SubSeq(stack, 1, Len(stack) - 1)
  /\ thrown' = thrown \cup {Top.id}
  /\ UNCHANGED <<starts, teardown, disposes, delegations, bound, cloak, reload, actions, cut>>

\* Faulty variant: the effects are left to the next start.
ListenersOnly(r) == bound

EffectsEnded(r) == bound \ {disposes[r]}

\* The registries of the application go with any root.
stop(r) ==
  /\ delegations' = delegations \ {teardown[r]} /\ teardown' = [teardown EXCEPT ![r] = 0]
  /\ bound' = EffectsEnded(r) /\ disposes' = [disposes EXCEPT ![r] = 0]
  /\ reload' = "none" /\ actions' = FALSE /\ cut' = Cut(r)
  /\ UNCHANGED <<starts, stack, cloak, thrown>>

\* A reload stops the root and starts it again, with what is registered by then.
Reload ==
  /\ reload # "none" /\ Len(starts) < MaxStarts /\ Len(stack) < MaxDepth
  /\ LET r == reload id == Len(starts) + 1
     IN /\ starts' = Append(starts, r)
        /\ delegations' = (delegations \ {teardown[r]}) \cup {id} /\ bound' = EffectsEnded(r) \cup {id}
        /\ teardown' = [teardown EXCEPT ![r] = id] /\ disposes' = [disposes EXCEPT ![r] = 0]
        /\ cut' = Cut(r)
        /\ stack' = Append(stack, [id |-> id, injected |-> ~cloak])
  /\ cloak' = TRUE /\ reload' = "none" /\ actions' = FALSE /\ UNCHANGED thrown

register ==
  /\ ~actions /\ actions' = TRUE
  /\ UNCHANGED <<starts, teardown, disposes, delegations, bound, stack, cloak, reload, thrown, cut>>

Next ==
  \/ \E r \in Roots : start(r) \/ stop(r)
  \/ Processed \/ ProcessingThrows \/ Reload \/ register

Spec == Init /\ [][Next]_vars

------------------------------------------------------------------------------
(* What is checked *)

\* What runs for a root will be ended with it: the listeners and the effects of a start are the
\* newest of their root and known to it, unless processing threw or the root was started or
\* stopped while it was processed.
RunningIsKnown ==
  /\ \A id \in delegations : teardown[starts[id]] = id
  /\ \A id \in bound :
       \/ id \in thrown \/ starts[id] \in cut \/ \E i \in 1..Len(stack) : stack[i].id = id
       \/ disposes[starts[id]] = id

\* Between the calls the page is visible unless processing threw, and a reload starts a root that
\* is running, unless its processing went on when it had been stopped.
PageIsVisible ==
  /\ stack = <<>> /\ cloak => thrown # {}
  /\ reload # "none" => teardown[reload] # 0 \/ reload \in cut

------------------------------------------------------------------------------
(***************************************************************************)
(* Second part, with a state of its own: the directive zen-error-boundary  *)
(* of packages/error-boundary, with the hub of packages/errors that calls  *)
(* it: an error of an element inside ends the bindings of the children,    *)
(* and they are processed again after a delay or replaced by the fallback. *)
(* Processing reports errors itself, and the application recovers and      *)
(* resets the boundary when it likes.                                      *)
(***************************************************************************)

CONSTANTS
  Attempts,   \* zen-error-retry
  Children,   \* how many errors processing may report
  MaxMounts,  \* bound: times the children are processed
  MaxErrors   \* bound: errors reported at other times

VARIABLES
  b,          \* the boundary, see TypeOK
  listening,  \* it is subscribed to the hub
  mounts,     \* times its children were processed
  fired,      \* retry timers that have fired
  resets,     \* calls of resetErrorBoundary
  errors      \* errors at other times

boundaryVars == <<b, listening, mounts, fired, resets, errors>>

BoundaryTypeOK ==
  /\ b.content \in 0..mounts                \* the mount that is shown, or 0: the fallback
  /\ b.running \subseteq 1..mounts          \* mounts whose bindings run
  /\ b.known \subseteq b.running            \* childDisposes: those that will be ended
  /\ b.retries \in 0..Attempts              \* __zenithRetryCount__
  /\ b.timers \in Nat                       \* retry timers that are set
  /\ b.signal \in BOOLEAN                   \* errorSignal shows an error
  /\ listening \in BOOLEAN /\ mounts \in 1..MaxMounts /\ fired \in Nat
  /\ resets \in 0..MaxMounts /\ errors \in 0..MaxErrors

\* The errors of the first processing come before the boundary listens.
BoundaryInit ==
  /\ \E signal \in BOOLEAN :
       b = [content |-> 1, running |-> {1}, known |-> {1}, retries |-> 0, timers |-> 0, signal |-> signal]
  /\ listening = TRUE /\ mounts = 1 /\ fired = 0 /\ resets = 0 /\ errors = 0

\* Faulty variant: the fallback is shown at once, the retries come behind it.
FallbackWhileTrying(x) == [x EXCEPT !.retries = @ + 1, !.timers = @ + 1, !.content = 0]

TriesAgain(x) == [x EXCEPT !.retries = @ + 1, !.timers = @ + 1]

\* emitError: the signal first, then the handler of the boundary.
OnError(x) ==
  LET y == [x EXCEPT !.signal = TRUE, !.running = @ \ x.known, !.known = {}]
  IN IF ~listening THEN [x EXCEPT !.signal = TRUE]
     ELSE IF y.retries < Attempts THEN TriesAgain(y)
     ELSE [y EXCEPT !.content = 0]

\* An element that the fallback has replaced is not inside any more: its errors reach only the signal.
ErrorWhileProcessing(x) == IF x.content = 0 THEN [x EXCEPT !.signal = TRUE] ELSE OnError(x)

\* recoverFromError processes the children anew; what ends these bindings is kept nowhere.
Recovered(x, id, n) ==
  LET fresh == [x EXCEPT !.content = id, !.running = @ \cup {id}, !.signal = FALSE]
      after[k \in 0..n] == IF k = 0 THEN fresh ELSE ErrorWhileProcessing(after[k - 1])
  IN after[n]

Mounts == mounts < MaxMounts /\ mounts' = mounts + 1

\* An error of an element inside, of an effect or an action, also one in the fallback.
ErrorInside ==
  /\ errors < MaxErrors /\ errors' = errors + 1
  /\ b' = OnError(b) /\ UNCHANGED <<listening, mounts, fired, resets>>

\* Faulty variant: an attempt that was made makes room for another.
KeepsCountUnlessFired(x) == [x EXCEPT !.timers = @ - 1, !.retries = 0]

KeepsCount(x) == [x EXCEPT !.timers = @ - 1]

RetryFires ==
  /\ b.timers > 0 /\ fired' = fired + 1 /\ Mounts
  /\ \E n \in 0..Children : b' = Recovered(KeepsCount(b), mounts', n)
  /\ UNCHANGED <<listening, resets, errors>>

recoverFromError ==
  /\ Mounts /\ \E n \in 0..Children : b' = Recovered(b, mounts', n)
  /\ UNCHANGED <<listening, fired, resets, errors>>

\* The timers that are set stay set.
resetErrorBoundary ==
  /\ Mounts /\ resets' = resets + 1
  /\ \E n \in 0..Children : b' = Recovered([b EXCEPT !.retries = 0], mounts', n)
  /\ UNCHANGED <<listening, fired, errors>>

\* Faulty variant: only the subscription is taken back.
CleanedLater(x) == [x EXCEPT !.running = @ \ x.known, !.known = {}]

Cleaned(x) == [x EXCEPT !.running = @ \ x.known, !.known = {}, !.timers = 0]

Cleanup ==
  /\ listening /\ listening' = FALSE /\ b' = Cleaned(b)
  /\ UNCHANGED <<mounts, fired, resets, errors>>

BoundaryNext == ErrorInside \/ RetryFires \/ recoverFromError \/ resetErrorBoundary \/ Cleanup

BoundarySpec == BoundaryInit /\ [][BoundaryNext]_boundaryVars

------------------------------------------------------------------------------
(* What is checked *)

\* The fallback is shown only after every attempt was made or is due, together with the error, and
\* a boundary that nobody resets makes each attempt once.
FallbackComesLast ==
  /\ b.content = 0 => b.retries = Attempts /\ b.signal
  /\ resets = 0 => fired + b.timers <= b.retries

\* After the boundary is cleaned up no retry is due, and the bindings it was mounted with are never
\* left to themselves: whoever replaces them, they are ended by the next error or the cleanup.
CleanupIsFinal ==
  /\ ~listening => b.timers = 0 /\ 1 \notin b.running
  /\ 1 \in b.running => 1 \in b.known
=============================================================================
