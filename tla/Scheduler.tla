----------------------------- MODULE Scheduler -----------------------------
(***************************************************************************)
(* packages/scheduler/src/scheduler.ts: the effect queue of the framework. *)
(*                                                                         *)
(* JavaScript is single threaded, but user code runs inside flushQueue: an *)
(* effect body or an afterFlush callback may call every exported function. *)
(* A call of flushQueue that is on the JavaScript stack is a frame; its pc *)
(* says which of its lines it is at.  User code runs when no frame is on   *)
(* the stack, or when the top frame is inside a body or a callback.        *)
(*                                                                         *)
(* Time is counted in ticks of one second and kept as the age of each      *)
(* queued task.                                                            *)
(***************************************************************************)
EXTENDS Naturals, Sequences, FiniteSets

CONSTANTS Effects,            \* effect functions, the keys of the queue
          Ticks,              \* those among them that are passed to nextTick
          Callbacks,          \* functions passed to afterFlush
          Priorities,         \* the priorities callers use, among 0..4
          AdapterModes,       \* whether an adapter is ever, never or always set
          AgingThreshold,     \* ticks before ageing starts (1000 ms)
          AgingStep,          \* ticks per level gained (1 / PRIORITY_AGING_RATE)
          MaxFlushIterations, \* MAX_FLUSH_ITERATIONS
          MaxDepth,           \* bound: nested calls of flushQueue
          MaxMicrotasks,      \* bound: promise jobs waiting to run flushQueue
          MaxCallbacks        \* bound: registered afterFlush callbacks

urgent == 0
idle == 4

ASSUME SchedulerAssumption ==
  /\ IsFiniteSet(Effects) /\ Ticks \subseteq Effects
  /\ Priorities \subseteq urgent..idle
  /\ AdapterModes \subseteq BOOLEAN
  /\ AgingThreshold \in Nat /\ AgingStep \in Nat \ {0}
  /\ MaxFlushIterations \in Nat \ {0}
  /\ MaxDepth \in Nat \ {0} /\ MaxMicrotasks \in Nat \ {0} /\ MaxCallbacks \in Nat

VARIABLES
  queue,         \* Map from effect function to Task
  isFlushing, flushPromise,
  callbacks,     \* afterFlushCallbacks
  disposalMap,   \* effects with an entry in effectDisposalMap
  disposed,      \* effects whose disposed() callback answers true
  adapter,       \* is a SchedulerAdapter configured
  handed,        \* the adapter was handed flushQueue and has yet to call it
  microtasks,    \* promise jobs that will call flushQueue
  frames, depth, \* the calls of flushQueue on the stack; the top is frames[depth]
  emitted        \* "ZEN-905" when the last step reported a runaway flush

env == <<disposalMap, disposed, adapter>>
vars == <<queue, isFlushing, flushPromise, callbacks, disposalMap, disposed,
          adapter, handed, microtasks, frames, depth, emitted>>

\* m is a Map from some of the effects to values in T.
IsMap(m, T) == DOMAIN m \subseteq Effects /\ m \in [DOMAIN m -> T]

Task == [prio : urgent..idle, seq : Nat, age : Nat, disposable : BOOLEAN]
Snapshot == [eff : urgent..idle, seq : Nat, disposable : BOOLEAN]
IsFrame(f) ==
  /\ f \in [pc : {"none", "loop", "round", "body", "callbacks", "callback"},
            iterations : 0..MaxFlushIterations, tasks : {f.tasks},
            cbs : Seq(Callbacks), hitMax : BOOLEAN, ranCb : BOOLEAN]
  /\ IsMap(f.tasks, Snapshot)

\* The empty Map, and what an unused slot of the stack holds.
EmptyMap == [e \in {} |-> 0]
NoFrame == [pc |-> "none", iterations |-> 0, tasks |-> EmptyMap, cbs |-> <<>>,
            hitMax |-> FALSE, ranCb |-> FALSE]

Top == frames[depth]
SetTop(f) == frames' = [frames EXCEPT ![depth] = f]

\* User code is on top of the stack, or nothing is.
InUserCode == depth = 0 \/ (depth > 0 /\ Top.pc \in {"body", "callback"})

Init ==
  /\ queue = EmptyMap
  /\ isFlushing = FALSE /\ flushPromise = FALSE
  /\ callbacks = <<>>
  /\ disposalMap = {} /\ disposed = {}
  /\ adapter \in AdapterModes /\ handed = FALSE
  /\ microtasks = 0
  /\ frames = [d \in 1..MaxDepth |-> NoFrame] /\ depth = 0
  /\ emitted = "none"
-----------------------------------------------------------------------------
(* The exported functions, called from user code. *)

\* A new task is inserted last.  insertSeq is only compared inside one queue,
\* which grows by insertion and is otherwise emptied, so the position serves.
Insert(e, p, d) ==
  queue' = [x \in DOMAIN queue \cup {e} |->
              IF x # e THEN queue[x]
              ELSE [prio |-> p, seq |-> Cardinality(DOMAIN queue), age |-> 0,
                    disposable |-> d]]

\* Faulty variant: the priority of the last call wins.
Merge_LastWins(e, p, d) ==
  queue' = [queue EXCEPT ![e].prio = p, ![e].disposable = @ \/ d]

\* A queued effect keeps its better priority and its older disposed callback.
Merge(e, p, d) ==
  queue' = [queue EXCEPT ![e].prio = IF p < @ THEN p ELSE @, ![e].disposable = @ \/ d]

scheduleEffect(e, p, d) ==
  /\ InUserCode
  /\ LET disposable == d \/ e \in disposalMap IN
     IF e \in DOMAIN queue
     THEN /\ Merge(e, p, disposable)
          /\ UNCHANGED <<handed, flushPromise, microtasks>>
     ELSE /\ Insert(e, p, disposable)
          /\ CASE adapter ->
                    handed' = TRUE /\ UNCHANGED <<flushPromise, microtasks>>
               [] ~adapter /\ ~isFlushing /\ ~flushPromise ->
                    /\ microtasks < MaxMicrotasks
                    /\ flushPromise' = TRUE
                    /\ microtasks' = microtasks + 1
                    /\ UNCHANGED handed
               [] OTHER -> UNCHANGED <<handed, flushPromise, microtasks>>
  /\ emitted' = "none"
  /\ UNCHANGED <<isFlushing, callbacks, env, frames, depth>>

nextTick(e) == scheduleEffect(e, idle, FALSE)

\* Faulty variant: the task that is queued already is not told.
setEffectDisposal_MapOnly(e) ==
  /\ InUserCode
  /\ disposalMap' = disposalMap \cup {e}
  /\ emitted' = "none"
  /\ UNCHANGED <<queue, isFlushing, flushPromise, callbacks, disposed, adapter, handed,
                 microtasks, frames, depth>>

setEffectDisposal(e) ==
  /\ InUserCode
  /\ disposalMap' = disposalMap \cup {e}
  /\ queue' = IF e \in DOMAIN queue
              THEN [queue EXCEPT ![e].disposable = TRUE] ELSE queue
  /\ emitted' = "none"
  /\ UNCHANGED <<isFlushing, flushPromise, callbacks, disposed, adapter, handed,
                 microtasks, frames, depth>>

\* The owner of e disposes it: from now on its disposed callback answers true.
DisposeEffect(e) ==
  /\ InUserCode
  /\ e \notin disposed
  /\ disposed' = disposed \cup {e}
  /\ emitted' = "none"
  /\ UNCHANGED <<queue, isFlushing, flushPromise, callbacks, disposalMap, adapter,
                 handed, microtasks, frames, depth>>

\* Entering flushQueue: nothing when a flush is in progress.
EnterFlush ==
  IF isFlushing
  THEN UNCHANGED <<isFlushing, frames, depth>>
  ELSE /\ depth < MaxDepth
       /\ isFlushing' = TRUE
       /\ depth' = depth + 1
       /\ frames' = [frames EXCEPT ![depth + 1] = [NoFrame EXCEPT !.pc = "loop"]]

\* adapter.flush() is external: it may call flushQueue if it was handed it.
flushSync ==
  /\ InUserCode
  /\ ~isFlushing
  /\ \/ ~adapter /\ EnterFlush /\ UNCHANGED handed
     \/ adapter /\ handed /\ EnterFlush /\ handed' \in BOOLEAN
  /\ emitted' = "none"
  /\ UNCHANGED <<queue, flushPromise, callbacks, env, microtasks>>

afterFlush(c) ==
  /\ InUserCode
  /\ Len(callbacks) < MaxCallbacks
  /\ callbacks' = Append(callbacks, c)
  /\ emitted' = "none"
  /\ UNCHANGED <<queue, isFlushing, flushPromise, env, handed, microtasks, frames, depth>>

\* The function afterFlush returned: splice the first entry equal to c.
unregister(c) ==
  /\ InUserCode
  /\ \E i \in DOMAIN callbacks :
       /\ callbacks[i] = c /\ \A j \in 1..(i - 1) : callbacks[j] # c
       /\ callbacks' = SubSeq(callbacks, 1, i - 1) \o SubSeq(callbacks, i + 1, Len(callbacks))
  /\ emitted' = "none"
  /\ UNCHANGED <<queue, isFlushing, flushPromise, env, handed, microtasks, frames, depth>>

\* The global reset hook; nothing stops it from running inside an effect.
clearSchedulerInternal ==
  /\ InUserCode
  /\ queue' = EmptyMap
  /\ isFlushing' = FALSE /\ flushPromise' = FALSE
  /\ callbacks' = <<>>
  /\ emitted' = "none"
  /\ UNCHANGED <<env, handed, microtasks, frames, depth>>

configureScheduler ==
  /\ InUserCode
  /\ adapter' \in AdapterModes
  /\ adapter' # adapter
  /\ emitted' = "none"
  /\ UNCHANGED <<queue, isFlushing, flushPromise, callbacks, disposalMap, disposed,
                 handed, microtasks, frames, depth>>

\* getEffectivePriority: an old task gains one level per AgingStep.
EffectivePriority(t) ==
  LET gain == IF t.age < AgingThreshold THEN 0 ELSE (t.age - AgingThreshold) \div AgingStep
  IN IF gain < t.prio THEN t.prio - gain ELSE 0

\* Date.now() advances.  The age of a task that is urgent already is not
\* followed any further: its priority can only improve.
Tick ==
  /\ \E e \in DOMAIN queue : EffectivePriority(queue[e]) # urgent
  /\ queue' = [e \in DOMAIN queue |->
                 IF EffectivePriority(queue[e]) = urgent THEN queue[e]
                 ELSE [queue[e] EXCEPT !.age = @ + 1]]
  /\ emitted' = "none"
  /\ UNCHANGED <<isFlushing, flushPromise, callbacks, env, handed, microtasks, frames, depth>>
-----------------------------------------------------------------------------
(* The event loop calls flushQueue when the stack is empty. *)

Microtask ==
  /\ depth = 0 /\ microtasks > 0
  /\ microtasks' = microtasks - 1
  /\ EnterFlush
  /\ emitted' = "none"
  /\ UNCHANGED <<queue, flushPromise, callbacks, env, handed>>

\* A configured (or since replaced) adapter calls flushQueue; it may hold
\* several copies of it, one for each task inserted.
AdapterFires ==
  /\ depth = 0 /\ handed
  /\ handed' \in BOOLEAN
  /\ EnterFlush
  /\ emitted' = "none"
  /\ UNCHANGED <<queue, flushPromise, callbacks, env, microtasks>>
-----------------------------------------------------------------------------
(* The lines of flushQueue. *)

IsDead(e, t) == t.disposable /\ e \in disposed
Live == {e \in DOMAIN queue : ~IsDead(e, queue[e])}

\* Faulty variants: one of the two flags is not reset.
Unlock_KeepsLock(overflow) ==
  /\ isFlushing' = isFlushing /\ flushPromise' = FALSE
  /\ SetTop([NoFrame EXCEPT !.pc = "callbacks", !.cbs = callbacks, !.hitMax = overflow])
  /\ callbacks' = <<>>

Unlock_KeepsPromise(overflow) ==
  /\ isFlushing' = FALSE /\ flushPromise' = flushPromise
  /\ SetTop([NoFrame EXCEPT !.pc = "callbacks", !.cbs = callbacks, !.hitMax = overflow])
  /\ callbacks' = <<>>

\* The first part of the finally block: unlock and take the callbacks.  The
\* locals of the loop are dead from here on.
Unlock(overflow) ==
  /\ isFlushing' = FALSE /\ flushPromise' = FALSE
  /\ SetTop([NoFrame EXCEPT !.pc = "callbacks", !.cbs = callbacks, !.hitMax = overflow])
  /\ callbacks' = <<>>

InLoop == depth > 0 /\ Top.pc = "loop"

\* Faulty variant: the loop ends as soon as a disposed task was dropped.
Drained_OnAnyDead ==
  /\ InLoop
  /\ Live # DOMAIN queue \/ DOMAIN queue = {}
  /\ queue' = EmptyMap
  /\ Unlock(FALSE)
  /\ emitted' = "none"
  /\ UNCHANGED <<env, handed, microtasks, depth>>

\* The queue is empty, or becomes so once the disposed tasks are dropped.
Drained ==
  /\ InLoop
  /\ Live = {}
  /\ DOMAIN queue = {} \/ Top.iterations < MaxFlushIterations
  /\ queue' = EmptyMap
  /\ Unlock(FALSE)
  /\ emitted' = "none"
  /\ UNCHANGED <<env, handed, microtasks, depth>>

\* One iteration too many: ZEN-905, and what is pending is discarded.
Overflow ==
  /\ InLoop
  /\ DOMAIN queue # {}
  /\ Top.iterations >= MaxFlushIterations
  /\ queue' = EmptyMap
  /\ Unlock(TRUE)
  /\ emitted' = "ZEN-905"
  /\ UNCHANGED <<env, handed, microtasks, depth>>

RoundTasks == [e \in Live |-> [eff |-> EffectivePriority(queue[e]), seq |-> queue[e].seq,
                               disposable |-> queue[e].disposable]]

\* Faulty variants: the guard of the loop is off by one; the rounds are not counted.
StartRound_OffByOne ==
  /\ InLoop
  /\ Live # {}
  /\ Top.iterations <= MaxFlushIterations
  /\ SetTop([Top EXCEPT !.pc = "round", !.iterations = @ + 1, !.tasks = RoundTasks])
  /\ queue' = EmptyMap
  /\ emitted' = "none"
  /\ UNCHANGED <<isFlushing, flushPromise, callbacks, env, handed, microtasks, depth>>

StartRound_NoCount ==
  /\ InLoop
  /\ Live # {}
  /\ SetTop([Top EXCEPT !.pc = "round", !.tasks = RoundTasks])
  /\ queue' = EmptyMap
  /\ emitted' = "none"
  /\ UNCHANGED <<isFlushing, flushPromise, callbacks, env, handed, microtasks, depth>>

\* Drop the disposed tasks, fix the order of the others, empty the queue.
StartRound ==
  /\ InLoop
  /\ Live # {}
  /\ Top.iterations < MaxFlushIterations
  /\ SetTop([Top EXCEPT !.pc = "round", !.iterations = @ + 1, !.tasks = RoundTasks])
  /\ queue' = EmptyMap
  /\ emitted' = "none"
  /\ UNCHANGED <<isFlushing, flushPromise, callbacks, env, handed, microtasks, depth>>

\* The order of the sort: effective priority, then insertion.
Before(s, t) == s.eff < t.eff \/ (s.eff = t.eff /\ s.seq < t.seq)
Without(tasks, e) == [x \in DOMAIN tasks \ {e} |-> tasks[x]]

IsNext(e) ==
  /\ depth > 0 /\ Top.pc = "round"
  /\ e \in DOMAIN Top.tasks
  /\ \A x \in DOMAIN Top.tasks \ {e} : Before(Top.tasks[e], Top.tasks[x])

RunTask(e) ==
  /\ IsNext(e)
  /\ ~IsDead(e, Top.tasks[e])
  /\ SetTop([Top EXCEPT !.pc = "body", !.tasks = Without(@, e)])
  /\ emitted' = "none"
  /\ UNCHANGED <<queue, isFlushing, flushPromise, callbacks, env, handed, microtasks, depth>>

\* Disposed since the round was fixed.
SkipTask(e) ==
  /\ IsNext(e)
  /\ IsDead(e, Top.tasks[e])
  /\ SetTop([Top EXCEPT !.tasks = Without(@, e)])
  /\ emitted' = "none"
  /\ UNCHANGED <<queue, isFlushing, flushPromise, callbacks, env, handed, microtasks, depth>>

\* The effect returns, or throws: the error goes to the hub as ZEN-906 and to
\* the hooks, and the round continues either way.
TaskEnds ==
  /\ depth > 0 /\ Top.pc = "body"
  /\ SetTop([Top EXCEPT !.pc = "round"])
  /\ emitted' = "none"
  /\ UNCHANGED <<queue, isFlushing, flushPromise, callbacks, env, handed, microtasks, depth>>

RoundEnds ==
  /\ depth > 0 /\ Top.pc = "round" /\ DOMAIN Top.tasks = {}
  /\ SetTop([Top EXCEPT !.pc = "loop"])
  /\ emitted' = "none"
  /\ UNCHANGED <<queue, isFlushing, flushPromise, callbacks, env, handed, microtasks, depth>>

RunCallback ==
  /\ depth > 0 /\ Top.pc = "callbacks" /\ Top.cbs # <<>>
  /\ SetTop([Top EXCEPT !.pc = "callback", !.cbs = Tail(@), !.ranCb = TRUE])
  /\ emitted' = "none"
  /\ UNCHANGED <<queue, isFlushing, flushPromise, callbacks, env, handed, microtasks, depth>>

CallbackEnds ==
  /\ depth > 0 /\ Top.pc = "callback"
  /\ SetTop([Top EXCEPT !.pc = "callbacks"])
  /\ emitted' = "none"
  /\ UNCHANGED <<queue, isFlushing, flushPromise, callbacks, env, handed, microtasks, depth>>

\* The last lines of the finally block.
EndFlush ==
  /\ depth > 0 /\ Top.pc = "callbacks" /\ Top.cbs = <<>>
  /\ queue' = IF Top.hitMax THEN queue ELSE EmptyMap
  /\ SetTop(NoFrame)
  /\ depth' = depth - 1
  /\ emitted' = "none"
  /\ UNCHANGED <<isFlushing, flushPromise, callbacks, env, handed, microtasks>>
-----------------------------------------------------------------------------
UserCall ==
  \/ \E e \in Effects \ Ticks :
       \/ \E p \in Priorities, d \in BOOLEAN : scheduleEffect(e, p, d)
       \/ setEffectDisposal(e)
       \/ DisposeEffect(e)
  \/ \E e \in Ticks : nextTick(e)
  \/ \E c \in Callbacks : afterFlush(c) \/ unregister(c)
  \/ flushSync
  \/ clearSchedulerInternal
  \/ configureScheduler

FlushStep ==
  \/ Drained \/ Overflow \/ StartRound \/ RoundEnds
  \/ \E e \in Effects : RunTask(e) \/ SkipTask(e)
  \/ RunCallback \/ EndFlush

UserReturn == TaskEnds \/ CallbackEnds

Next == UserCall \/ Tick \/ Microtask \/ AdapterFires \/ FlushStep \/ UserReturn

Spec == Init /\ [][Next]_vars

\* The event loop runs its jobs, flushQueue runs on, and an adapter calls what
\* it was handed.  A body makes finitely many calls, so it ends although the
\* nested flushes it asks for disable its return again and again (strong).
Fairness ==
  /\ WF_vars(Microtask) /\ WF_vars(FlushStep)
  /\ WF_vars(depth = 0 /\ AdapterFires)
  /\ \A d \in 1..MaxDepth : SF_vars(depth = d /\ UserReturn)

FairSpec == Spec /\ Fairness
-----------------------------------------------------------------------------
(* Properties. *)

\* The type of every variable.
TypeOK ==
  /\ IsMap(queue, Task)
  /\ isFlushing \in BOOLEAN /\ flushPromise \in BOOLEAN
  /\ callbacks \in Seq(Callbacks)
  /\ disposalMap \subseteq Effects /\ disposed \subseteq Effects
  /\ adapter \in BOOLEAN /\ handed \in BOOLEAN
  /\ microtasks \in 0..MaxMicrotasks
  /\ DOMAIN frames = 1..MaxDepth /\ \A d \in 1..MaxDepth : IsFrame(frames[d])
  /\ depth \in 0..MaxDepth
  /\ emitted \in {"none", "ZEN-905"}

Looping(d) == frames[d].pc \in {"loop", "round", "body"}
SomeFlushLoops == \E d \in 1..depth : Looping(d)

\* The flush lock is never left behind: while isFlushing is set, a call of
\* flushQueue is in its loop and will release it.  A stuck lock would turn
\* every later flush into a no-op, whatever reset or nested flush came before.
LockIsHeldByAFlush == isFlushing => SomeFlushLoops

\* flushPromise suppresses the next promise job, so while it is set a job is
\* still waiting or the flush it stands for is in its loop.
PromiseIsBacked == flushPromise => microtasks > 0 \/ SomeFlushLoops

\* Neither of the two flags by which scheduleEffect and flushQueue decide that
\* nothing is to be done is ever set without somebody who will clear it.
LocksAreBacked == LockIsHeldByAFlush /\ PromiseIsBacked

\* No lost wake-up: while an effect is queued, somebody is going to flush.
\* flushSync, a change of adapter and a reset all race with the promise job.
FlushIsComing == DOMAIN queue # {} => microtasks > 0 \/ handed \/ SomeFlushLoops

\* A queued effect whose disposal was registered is known to be disposable, in
\* whatever order setEffectDisposal and scheduleEffect were called.
QueuedKnowsDisposal ==
  \A e \in DOMAIN queue : e \in disposalMap => queue[e].disposable

\* The effects that leave the queue in a step, without being taken into a
\* round and without having been disposed.
Dropped == {e \in DOMAIN queue \ DOMAIN queue' :
              /\ ~IsDead(e, queue[e])
              /\ ~(depth > 0 /\ e \in DOMAIN frames'[depth].tasks)}

IsReset == depth' = depth /\ frames' = frames /\ ~isFlushing' /\ callbacks' = <<>>

\* What the code keeps of the promise of scheduleEffect, that a queued effect
\* runs unless it is disposed, the runaway guard reports ZEN-905 or the
\* scheduler is reset: the only other drop is the clear at the end of a flush,
\* and only of effects that its afterFlush callbacks scheduled.
SilentDropOnlyAfterCallbacks ==
  [][Dropped # {} => \/ emitted' = "ZEN-905" \/ IsReset
                     \/ depth' < depth /\ Top.ranCb]_vars

\* While an effect waits in the queue its priority only improves: neither a
\* second schedule with a worse priority nor ageing pushes it back.
PriorityNeverWorsens ==
  [][\A e \in DOMAIN queue \cap DOMAIN queue' :
       EffectivePriority(queue[e])' <= EffectivePriority(queue[e])]_vars

\* Every flush ends, even if its effects schedule each other for ever and its
\* callbacks flush again: the runaway guard bounds the rounds.
FlushTerminates == (depth > 0) ~> (depth = 0)

\* Every queued effect leaves the queue: no schedule waits for ever, whatever
\* the adapter, the promise job and synchronous flushes do in the meantime.
QueuedIsServed == \A e \in Effects : (e \in DOMAIN queue) ~> (e \notin DOMAIN queue)
=============================================================================
