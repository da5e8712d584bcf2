------------------------------ MODULE Suspense ------------------------------
(***************************************************************************)
(* The code of packages/suspense: the context, and two users of it with a  *)
(* state and a specification each, zen-suspense (Spec) and createSuspense  *)
(* (TrackSpec).                                                            *)
(*                                                                         *)
(* createSuspenseContext of packages/suspense as operators on the state of *)
(* one boundary b: the set of those it waits for, the fields of its signal *)
(* (pendingCount is the size of the set), its timeout timer and the flag   *)
(* _prevSettled.  T says whether the boundary has a timeout.               *)
(***************************************************************************)
EXTENDS FiniteSets, Integers

Boundary(Ids) == [set : SUBSET Ids, loading : BOOLEAN, timedOut : BOOLEAN, error : BOOLEAN,
                  timer : BOOLEAN, settled : BOOLEAN]

Fresh == [set |-> {}, loading |-> FALSE, timedOut |-> FALSE, error |-> FALSE,
          timer |-> FALSE, settled |-> TRUE]

\* onSettle is called exactly when the field settled changes here.
updateState(b, T) ==
  LET isLoading == b.set # {}
      late == isLoading /\ b.timedOut
  IN [b EXCEPT !.loading = isLoading,
               !.timedOut = late,
               !.timer = isLoading /\ (@ \/ (T /\ ~b.timedOut /\ ~b.error)),
               !.settled = ~isLoading /\ ~b.error /\ ~late]

\* A new cycle clears what the last one left behind, and arms the timer anew.
startLoading(b, id, T) ==
  LET added == [b EXCEPT !.set = @ \cup {id}]
  IN updateState(IF b.timedOut \/ (b.set = {} /\ b.error)
                 THEN [added EXCEPT !.timedOut = FALSE, !.error = FALSE, !.loading = TRUE, !.timer = T]
                 ELSE added, T)

stopLoading(b, id, T) == updateState([b EXCEPT !.set = @ \ {id}], T)

reportError(b) ==
  [b EXCEPT !.timer = FALSE, !.loading = b.set # {}, !.timedOut = FALSE, !.error = TRUE]

\* The timer fires, or reportTimeout is called.
reportTimeout(b) == [b EXCEPT !.timer = FALSE, !.loading = FALSE, !.timedOut = TRUE, !.error = FALSE]

\* Faulty variant: reset leaves the timer of the old cycle running.
resetBoundaryTimed(b) ==
  [b EXCEPT !.set = {}, !.loading = FALSE, !.timedOut = FALSE, !.error = FALSE]

resetBoundary(b) ==
  [b EXCEPT !.set = {}, !.timer = FALSE, !.loading = FALSE, !.timedOut = FALSE, !.error = FALSE]

------------------------------------------------------------------------------
(***************************************************************************)
(* Two zen-suspense boundaries, one inside the other (processSuspense):    *)
(* the inner one registers with the outer one under its id when it is      *)
(* built and tells it, in the same step, whenever it settles or not.       *)
(* Children report through startLoading and stopLoading, or through        *)
(* trackPromise, which after a rejection only reports the error.           *)
(***************************************************************************)

CONSTANTS
  Children,    \* children of the inner boundary
  Siblings,    \* children of the outer boundary beside the inner one
  HasTimeout,  \* the boundaries with a timeout attribute
  InnerId      \* the id the inner boundary registers under

VARIABLES
  inner, outer,  \* the two contexts
  cleaned,       \* whether the inner boundary was cleaned up
  released       \* whether the outer one was reset after the inner one last started

vars == <<inner, outer, cleaned, released>>

InnerT == "inner" \in HasTimeout
OuterT == "outer" \in HasTimeout

TypeOK ==
  /\ inner \in Boundary(Children) /\ outer \in Boundary(Siblings \cup {InnerId})
  /\ cleaned \in BOOLEAN /\ released \in BOOLEAN

Init ==
  /\ inner = Fresh /\ outer = startLoading(Fresh, InnerId, OuterT)
  /\ cleaned = FALSE /\ released = FALSE

\* Faulty variant: the outer boundary is told when the inner one ends, not when it starts.
InnerBecomesLate(b) ==
  /\ inner' = b
  /\ outer' = IF b.settled /\ ~inner.settled THEN stopLoading(outer, InnerId, OuterT) ELSE outer
  /\ released' = (released /\ b.settled = inner.settled)
  /\ UNCHANGED cleaned

\* The inner context becomes b; onSettle tells the outer one if settled has changed.
InnerBecomes(b) ==
  /\ inner' = b
  /\ outer' = IF b.settled = inner.settled THEN outer
              ELSE IF b.settled THEN stopLoading(outer, InnerId, OuterT)
                   ELSE startLoading(outer, InnerId, OuterT)
  /\ released' = (released /\ b.settled = inner.settled)
  /\ UNCHANGED cleaned

OuterBecomes(b) == outer' = b /\ UNCHANGED <<inner, cleaned, released>>

ChildStarts(c) == c \notin inner.set /\ InnerBecomes(startLoading(inner, c, InnerT))
ChildStops(c) == c \in inner.set /\ InnerBecomes(stopLoading(inner, c, InnerT))
\* The rejection handler of trackPromise.
ChildFails(c) == c \in inner.set /\ InnerBecomes(reportError(inner))
InnerTimesOut == inner.timer /\ InnerBecomes(reportTimeout(inner))
InnerResets == inner # resetBoundary(inner) /\ InnerBecomes(resetBoundary(inner))

SiblingStarts(c) == c \notin outer.set /\ OuterBecomes(startLoading(outer, c, OuterT))
SiblingStops(c) == c \in outer.set /\ OuterBecomes(stopLoading(outer, c, OuterT))
SiblingFails(c) == c \in outer.set /\ OuterBecomes(reportError(outer))
OuterTimesOut == outer.timer /\ OuterBecomes(reportTimeout(outer))

OuterResets ==
  /\ outer # resetBoundary(outer)
  /\ outer' = resetBoundary(outer) /\ released' = TRUE
  /\ UNCHANGED <<inner, cleaned>>

\* The cleanup of the inner boundary; its children may still call its context.
cleanup ==
  /\ ~cleaned /\ cleaned' = TRUE
  /\ outer' = stopLoading(outer, InnerId, OuterT)
  /\ UNCHANGED <<inner, released>>

Next ==
  \/ \E c \in Children : ChildStarts(c) \/ ChildStops(c) \/ ChildFails(c)
  \/ \E c \in Siblings : SiblingStarts(c) \/ SiblingStops(c) \/ SiblingFails(c)
  \/ InnerTimesOut \/ InnerResets \/ OuterTimesOut \/ OuterResets \/ cleanup

Spec == Init /\ [][Next]_vars

------------------------------------------------------------------------------
(* What is checked *)

\* A boundary that waits and shows its fallback has its timeout running, if it has one,
\* and no timer outlives the wait it was set for.
TimeoutIsArmed ==
  /\ inner.timer <=> (InnerT /\ inner.loading /\ ~inner.timedOut /\ ~inner.error)
  /\ outer.timer <=> (OuterT /\ outer.loading /\ ~outer.timedOut /\ ~outer.error)

\* The outer boundary waits while a child of the inner one is loading, through failures,
\* timeouts and resets of the inner one, unless it was reset itself.
OuterWaitsForInner == (inner.set # {} /\ ~cleaned /\ ~released) => InnerId \in outer.set

------------------------------------------------------------------------------
(***************************************************************************)
(* createSuspense of packages/suspense: a context, the promises it tracks  *)
(* with the generation they belong to, and a simpler loading signal that   *)
(* an effect on the context's signal, a minimal delay and every settling   *)
(* promise move.                                                           *)
(***************************************************************************)

CONSTANTS
  Promises,       \* the promises given to track
  TrackTimeout,   \* options.timeout > 0
  HasDelay,       \* options.minDelay > 0
  MaxGenerations  \* bound: calls of reset

VARIABLES
  ctx,       \* the context
  tracked,   \* generation of every promise that is pending, or 0
  generation,
  loading,   \* the loading signal
  phase,     \* loadingPhase between steps
  delaying,  \* whether loadingTimer is set
  error,     \* whether the error signal holds one
  queued,    \* whether the effect on the context's signal is queued
  ready,     \* whether the last step ran the onReady callbacks
  disposed

trackVars == <<ctx, tracked, generation, loading, phase, delaying, error, queued, ready, disposed>>

TrackTypeOK ==
  /\ ctx \in Boundary(Promises) /\ tracked \in [Promises -> 0..MaxGenerations]
  /\ generation \in 1..MaxGenerations
  /\ phase \in {"idle", "delayed-show", "shown"}
  /\ {loading, delaying, error, queued, ready, disposed} \subseteq BOOLEAN

TrackInit ==
  /\ ctx = Fresh /\ tracked = [p \in Promises |-> 0] /\ generation = 1
  /\ loading = FALSE /\ phase = "idle" /\ delaying = FALSE /\ error = FALSE
  /\ queued = FALSE /\ ready = FALSE /\ disposed = FALSE

\* Faulty variant: the delay is not started again when it ran out in vain.
transitionOnce(isLoading) ==
  IF ~isLoading THEN phase' = "idle" /\ loading' = FALSE /\ delaying' = FALSE
  ELSE IF phase = "idle"
  THEN IF HasDelay THEN phase' = "delayed-show" /\ delaying' = TRUE /\ UNCHANGED loading
                   ELSE phase' = "shown" /\ loading' = TRUE /\ UNCHANGED delaying
  ELSE UNCHANGED <<phase, loading, delaying>>

\* transitionLoadingPhase
transition(isLoading) ==
  IF ~isLoading THEN phase' = "idle" /\ loading' = FALSE /\ delaying' = FALSE
  ELSE IF phase = "idle"
  THEN IF HasDelay THEN phase' = "delayed-show" /\ delaying' = TRUE /\ UNCHANGED loading
                   ELSE phase' = "shown" /\ loading' = TRUE /\ UNCHANGED delaying
  ELSE /\ delaying' = (delaying \/ phase = "delayed-show")
       /\ loading' = (loading \/ phase = "shown")
       /\ UNCHANGED phase

\* The context becomes c; the effect is queued when its signal was set.
Context(c) ==
  /\ ctx' = c
  /\ queued' = (queued \/ (c # ctx /\ ~disposed))

track(p) ==
  /\ ~disposed /\ tracked[p] = 0
  /\ tracked' = [tracked EXCEPT ![p] = generation]
  /\ Context(startLoading(ctx, p, TrackTimeout))
  /\ transition(TRUE) /\ ready' = FALSE
  /\ UNCHANGED <<generation, error, disposed>>

\* Faulty variant: what the context still waits for is not looked at.
ReadyAtOnce(c) == ~c.error /\ ~c.timedOut

\* Whether a promise that has resolved makes the boundary ready.
Ready(c) == ~c.loading /\ ~c.error /\ ~c.timedOut

IsStale(p) == disposed \/ tracked[p] # generation

Ignore ==
  /\ ready' = FALSE
  /\ UNCHANGED <<ctx, loading, phase, delaying, error, queued>>

Resolve(p) ==
  /\ tracked[p] # 0 /\ tracked' = [tracked EXCEPT ![p] = 0]
  /\ IF IsStale(p) THEN Ignore
     ELSE LET c == stopLoading(ctx, p, TrackTimeout)
          IN /\ Context(c)
             /\ IF c.loading THEN UNCHANGED <<loading, phase, delaying>> ELSE transition(FALSE)
             /\ ready' = Ready(c)
             /\ UNCHANGED error
  /\ UNCHANGED <<generation, disposed>>

Reject(p) ==
  /\ tracked[p] # 0 /\ tracked' = [tracked EXCEPT ![p] = 0]
  /\ IF IsStale(p) THEN Ignore
     ELSE LET c == reportError(stopLoading(ctx, p, TrackTimeout))
          IN /\ Context(c) /\ error' = TRUE
             /\ IF c.loading THEN UNCHANGED <<loading, phase, delaying>> ELSE transition(FALSE)
             /\ ready' = FALSE
  /\ UNCHANGED <<generation, disposed>>

\* disposeStateEffect: error and the loading signal follow the context.
EffectRuns ==
  /\ queued /\ queued' = FALSE
  /\ error' = ctx.error
  /\ transition(ctx.loading /\ ~ctx.timedOut)
  /\ ready' = FALSE
  /\ UNCHANGED <<ctx, tracked, generation, disposed>>

DelayEnds ==
  /\ delaying /\ delaying' = FALSE
  /\ IF phase = "delayed-show" /\ ctx.loading THEN phase' = "shown" /\ loading' = TRUE
     ELSE UNCHANGED <<phase, loading>>
  /\ ready' = FALSE
  /\ UNCHANGED <<ctx, tracked, generation, error, queued, disposed>>

TimesOut ==
  /\ ctx.timer /\ Context(reportTimeout(ctx)) /\ ready' = FALSE
  /\ UNCHANGED <<tracked, generation, loading, phase, delaying, error, disposed>>

reset ==
  /\ generation < MaxGenerations /\ generation' = generation + 1
  /\ transition(FALSE) /\ error' = FALSE
  /\ Context(resetBoundary(ctx)) /\ ready' = FALSE
  /\ UNCHANGED <<tracked, disposed>>

\* The callbacks and the effect are gone with it.
dispose ==
  /\ ~disposed /\ disposed' = TRUE
  /\ transition(FALSE) /\ queued' = FALSE
  /\ ctx' = resetBoundary(ctx) /\ ready' = FALSE
  /\ UNCHANGED <<tracked, generation, error>>

TrackNext ==
  \/ \E p \in Promises : track(p) \/ Resolve(p) \/ Reject(p)
  \/ EffectRuns \/ DelayEnds \/ TimesOut \/ reset \/ dispose

TrackSpec == TrackInit /\ [][TrackNext]_trackVars

------------------------------------------------------------------------------
(* What is checked *)

\* onReady is called only when no promise tracked since the last reset is pending.
ReadyMeansSettled == ready => \A p \in Promises : tracked[p] # generation

\* Once the effect has run, loading is shown, or is about to be shown when the delay ends,
\* exactly while the boundary waits and has not timed out.
IndicatorFollows ==
  ~queued /\ ~disposed => ((loading \/ delaying) <=> (ctx.loading /\ ~ctx.timedOut))
=============================================================================
