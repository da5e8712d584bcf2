-------------------------- MODULE SchedulerProofs --------------------------
(* The flush lock and the absence of lost wake-ups, for every instance.    *)
EXTENDS Scheduler, FiniteSetTheorems, SequenceTheorems, TLAPS

\* The inductive invariant: the flags and the stack imply each other's
\* conjunct, so the three are proved together, over the types.
Wake == LockIsHeldByAFlush /\ PromiseIsBacked /\ FlushIsComing
WakeInv == TypeOK /\ Wake

FramesOK == DOMAIN frames = 1..MaxDepth /\ \A d \in 1..MaxDepth : IsFrame(frames[d])

LEMMA EmptyDomain == DOMAIN EmptyMap = {}
BY DEF EmptyMap

LEMMA EmptyMapOK == ASSUME NEW T PROVE IsMap(EmptyMap, T)
<1>1. EmptyMap \in [{} -> T]
  BY DEF EmptyMap
<1> QED BY <1>1, EmptyDomain DEF IsMap

LEMMA DivNat == ASSUME NEW a \in Nat, NEW b \in Nat, b > 0 PROVE a \div b \in Nat
BY Z3

LEMMA EffectivePriorityType ==
  ASSUME NEW t \in Task PROVE EffectivePriority(t) \in urgent..idle
<1>1. AgingStep \in Nat \ {0} /\ AgingThreshold \in Nat /\ t.age \in Nat /\ t.prio \in 0..4
  BY SchedulerAssumption DEF SchedulerAssumption, Task, urgent, idle
<1>2. CASE t.age < AgingThreshold
  BY <1>1, <1>2 DEF EffectivePriority, urgent, idle
<1>3. CASE ~(t.age < AgingThreshold)
  <2>1. t.age - AgingThreshold \in Nat
    BY <1>1, <1>3
  <2>2. (t.age - AgingThreshold) \div AgingStep \in Nat
    BY <2>1, <1>1, DivNat
  <2> QED BY <1>1, <1>3, <2>2 DEF EffectivePriority, urgent, idle
<1> QED BY <1>2, <1>3

LEMMA NoFrameOK == IsFrame(NoFrame)
BY EmptyMapOK, SchedulerAssumption DEF NoFrame, IsFrame, IsMap, SchedulerAssumption

LEMMA TypeInit == Init => TypeOK
<1> SUFFICES ASSUME Init PROVE TypeOK OBVIOUS
<1>1. IsMap(queue, Task) /\ callbacks \in Seq(Callbacks)
  BY EmptyMapOK DEF Init
<1>2. isFlushing \in BOOLEAN /\ flushPromise \in BOOLEAN /\ handed \in BOOLEAN
  BY DEF Init
<1>3. adapter \in BOOLEAN /\ microtasks \in 0..MaxMicrotasks /\ depth \in 0..MaxDepth
  BY SchedulerAssumption DEF Init, SchedulerAssumption
<1>4. FramesOK
  BY NoFrameOK DEF Init, FramesOK
<1> QED BY <1>1, <1>2, <1>3, <1>4 DEF Init, FramesOK, TypeOK

\* Writing a well-formed frame on top keeps the stack well formed.
LEMMA SetTopOK ==
  ASSUME TypeOK, depth > 0, NEW f, IsFrame(f), SetTop(f)
  PROVE  FramesOK'
BY DEF FramesOK, TypeOK, SetTop

LEMMA TopOK == ASSUME TypeOK, depth > 0 PROVE depth \in 1..MaxDepth /\ IsFrame(Top)
BY SchedulerAssumption DEF FramesOK, TypeOK, Top, SchedulerAssumption

LEMMA EnterOK ==
  ASSUME TypeOK, EnterFlush
  PROVE  isFlushing' \in BOOLEAN /\ depth' \in 0..MaxDepth /\ FramesOK'
<1>1. IsFrame([NoFrame EXCEPT !.pc = "loop"])
  BY NoFrameOK DEF IsFrame, IsMap
<1>2. CASE isFlushing
  BY <1>2 DEF EnterFlush, FramesOK, TypeOK
<1>3. CASE ~isFlushing
  <2>1. depth + 1 \in 1..MaxDepth
    BY <1>3, SchedulerAssumption DEF EnterFlush, FramesOK, TypeOK, SchedulerAssumption
  <2>2. /\ isFlushing' = TRUE /\ depth' = depth + 1
        /\ frames' = [frames EXCEPT ![depth + 1] = [NoFrame EXCEPT !.pc = "loop"]]
    BY <1>3 DEF EnterFlush
  <2> QED BY <1>1, <2>1, <2>2 DEF FramesOK, TypeOK
<1> QED BY <1>2, <1>3

LEMMA WithoutOK ==
  ASSUME NEW m, IsMap(m, Snapshot), NEW e PROVE IsMap(Without(m, e), Snapshot)
<1>1. DOMAIN m \subseteq Effects /\ m \in [DOMAIN m -> Snapshot]
  BY DEF IsMap
<1>2. Without(m, e) \in [DOMAIN m \ {e} -> Snapshot]
  BY <1>1 DEF Without
<1> QED BY <1>1, <1>2 DEF IsMap

LEMMA RoundTasksOK == ASSUME TypeOK PROVE IsMap(RoundTasks, Snapshot)
<1>1. DOMAIN queue \subseteq Effects /\ queue \in [DOMAIN queue -> Task]
  BY DEF IsMap, FramesOK, TypeOK
<1>2. \A e \in Live : queue[e] \in Task /\ EffectivePriority(queue[e]) \in urgent..idle
  BY <1>1, EffectivePriorityType DEF Live
<1>3. \A e \in Live : [eff |-> EffectivePriority(queue[e]), seq |-> queue[e].seq,
                       disposable |-> queue[e].disposable] \in Snapshot
  BY <1>2 DEF Task, Snapshot
<1>4. RoundTasks \in [Live -> Snapshot]
  BY <1>3 DEF RoundTasks
<1>5. Live \subseteq Effects
  BY <1>1 DEF Live
<1> QED BY <1>4, <1>5 DEF IsMap

\* Every step keeps the types.
LEMMA TypeNext == TypeOK /\ [Next]_vars => TypeOK'
<1> SUFFICES ASSUME TypeOK, [Next]_vars PROVE TypeOK' OBVIOUS
<1>q. DOMAIN queue \subseteq Effects /\ queue \in [DOMAIN queue -> Task]
  BY DEF IsMap, FramesOK, TypeOK
<1>p. ASSUME NEW e \in Effects, NEW p \in urgent..idle, NEW d \in BOOLEAN, scheduleEffect(e, p, d)
      PROVE TypeOK'
  <2>1. (d \/ e \in disposalMap) \in BOOLEAN
    OBVIOUS
  <2>2. ASSUME NEW b \in BOOLEAN, e \in DOMAIN queue, Merge(e, p, b) PROVE IsMap(queue', Task)
    <3>1. [queue[e] EXCEPT !.prio = IF p < @ THEN p ELSE @, !.disposable = @ \/ b] \in Task
      BY <1>q, <2>2 DEF Task
    <3>2. queue' \in [DOMAIN queue -> Task]
      BY <1>q, <2>2, <3>1 DEF Merge
    <3> QED BY <1>q, <3>2 DEF IsMap
  <2>3. ASSUME NEW b \in BOOLEAN, e \notin DOMAIN queue, Insert(e, p, b) PROVE IsMap(queue', Task)
    <3>1. Cardinality(DOMAIN queue) \in Nat
      BY <1>q, FS_Subset, FS_CardinalityType, SchedulerAssumption DEF SchedulerAssumption
    <3>2. [prio |-> p, seq |-> Cardinality(DOMAIN queue), age |-> 0, disposable |-> b] \in Task
      BY <3>1 DEF Task
    <3>3. queue' \in [DOMAIN queue \cup {e} -> Task]
      BY <1>q, <2>3, <3>2 DEF Insert
    <3> QED BY <1>q, <3>3 DEF IsMap
  <2>4. IsMap(queue', Task)
    BY <1>p, <2>1, <2>2, <2>3 DEF scheduleEffect
  <2>5. handed' \in BOOLEAN /\ flushPromise' \in BOOLEAN /\ microtasks' \in 0..MaxMicrotasks
    <3>1. CASE UNCHANGED <<handed, flushPromise, microtasks>>
      BY <3>1 DEF FramesOK, TypeOK
    <3>2. CASE handed' = TRUE /\ UNCHANGED <<flushPromise, microtasks>>
      BY <3>2 DEF FramesOK, TypeOK
    <3>3. CASE microtasks < MaxMicrotasks /\ flushPromise' = TRUE
               /\ microtasks' = microtasks + 1 /\ UNCHANGED handed
      BY <3>3, SchedulerAssumption DEF FramesOK, TypeOK, SchedulerAssumption
    <3> QED BY <1>p, <3>1, <3>2, <3>3 DEF scheduleEffect
  <2> QED BY <1>p, <2>4, <2>5 DEF scheduleEffect, FramesOK, TypeOK, env
<1>1. ASSUME NEW e \in Effects, NEW p \in Priorities, NEW d \in BOOLEAN, scheduleEffect(e, p, d)
      PROVE TypeOK'
  BY <1>1, <1>p, SchedulerAssumption DEF SchedulerAssumption
<1>2. ASSUME NEW e \in Effects, nextTick(e) PROVE TypeOK'
  <2>1. idle \in urgent..idle
    BY DEF urgent, idle
  <2> QED BY <1>2, <1>p, <2>1 DEF nextTick
<1>3. ASSUME NEW e \in Effects, setEffectDisposal(e) PROVE TypeOK'
  <2>1. e \in DOMAIN queue => [queue[e] EXCEPT !.disposable = TRUE] \in Task
    BY <1>q DEF Task
  <2>2. queue' \in [DOMAIN queue -> Task]
    BY <1>3, <1>q, <2>1 DEF setEffectDisposal
  <2>3. IsMap(queue', Task)
    BY <1>q, <2>2 DEF IsMap
  <2> QED BY <1>3, <2>3 DEF setEffectDisposal, FramesOK, TypeOK
<1>4. ASSUME NEW e \in Effects, DisposeEffect(e) PROVE TypeOK'
  BY <1>4 DEF DisposeEffect, FramesOK, TypeOK
<1>5. ASSUME NEW c \in Callbacks, afterFlush(c) PROVE TypeOK'
  BY <1>5 DEF afterFlush, FramesOK, TypeOK, env
<1>6. ASSUME NEW c \in Callbacks, unregister(c) PROVE TypeOK'
  <2>1. \A i \in 1..Len(callbacks) : /\ SubSeq(callbacks, 1, i - 1) \in Seq(Callbacks)
                                     /\ SubSeq(callbacks, i + 1, Len(callbacks)) \in Seq(Callbacks)
    BY SubSeqProperties DEF FramesOK, TypeOK
  <2>2. DOMAIN callbacks = 1..Len(callbacks)
    BY DEF FramesOK, TypeOK
  <2>3. callbacks' \in Seq(Callbacks)
    BY <1>6, <2>1, <2>2, ConcatProperties DEF unregister
  <2> QED BY <1>6, <2>3 DEF unregister, FramesOK, TypeOK, env
<1>7. CASE flushSync
  BY <1>7, EnterOK DEF flushSync, FramesOK, TypeOK, env
<1>8. CASE clearSchedulerInternal
  <2>1. IsMap(queue', Task) /\ callbacks' \in Seq(Callbacks)
    BY <1>8, EmptyMapOK DEF clearSchedulerInternal
  <2>2. isFlushing' \in BOOLEAN /\ flushPromise' \in BOOLEAN
    BY <1>8 DEF clearSchedulerInternal
  <2> QED BY <1>8, <2>1, <2>2 DEF clearSchedulerInternal, FramesOK, TypeOK, env
<1>9. CASE configureScheduler
  BY <1>9, SchedulerAssumption DEF configureScheduler, FramesOK, TypeOK, SchedulerAssumption
<1>10. CASE Tick
  <2>1. \A e \in DOMAIN queue : [queue[e] EXCEPT !.age = @ + 1] \in Task
    BY <1>q DEF Task
  <2>2. queue' \in [DOMAIN queue -> Task]
    BY <1>10, <1>q, <2>1 DEF Tick
  <2>3. IsMap(queue', Task)
    BY <1>q, <2>2 DEF IsMap
  <2> QED BY <1>10, <2>3 DEF Tick, FramesOK, TypeOK, env
<1>11. CASE Microtask
  BY <1>11, EnterOK, SchedulerAssumption DEF Microtask, FramesOK, TypeOK, env, SchedulerAssumption
<1>12. CASE AdapterFires
  BY <1>12, EnterOK DEF AdapterFires, FramesOK, TypeOK, env
<1>13. CASE Drained \/ Overflow
  <2>1. \A h \in BOOLEAN :
          IsFrame([NoFrame EXCEPT !.pc = "callbacks", !.cbs = callbacks, !.hitMax = h])
    BY NoFrameOK DEF IsFrame, IsMap, FramesOK, TypeOK
  <2>2. PICK h \in BOOLEAN : Unlock(h)
    BY <1>13 DEF Drained, Overflow
  <2>3. depth > 0
    BY <1>13 DEF Drained, Overflow, InLoop
  <2>4. FramesOK'
    BY <2>1, <2>2, <2>3, SetTopOK DEF Unlock
  <2>5. /\ IsMap(queue', Task) /\ ~isFlushing' /\ ~flushPromise' /\ callbacks' = <<>>
        /\ emitted' \in {"none", "ZEN-905"}
        /\ UNCHANGED <<env, handed, microtasks, depth>>
    BY <1>13, <2>2, EmptyMapOK DEF Drained, Overflow, Unlock
  <2>6. isFlushing' \in BOOLEAN /\ flushPromise' \in BOOLEAN
    BY <1>13 DEF Drained, Overflow, Unlock
  <2> QED BY <2>4, <2>5, <2>6 DEF FramesOK, TypeOK, env
<1>14. CASE StartRound
  <2>1. IsFrame(Top)
    BY <1>14, TopOK DEF StartRound, InLoop
  <2>2. IsFrame([Top EXCEPT !.pc = "round", !.iterations = @ + 1, !.tasks = RoundTasks])
    <3>1. Top.iterations + 1 \in 0..MaxFlushIterations
      BY <1>14, <2>1, SchedulerAssumption DEF StartRound, IsFrame, IsMap, SchedulerAssumption
    <3> QED BY <2>1, <3>1, RoundTasksOK DEF IsFrame, IsMap
  <2>3. FramesOK'
    BY <1>14, <2>2, SetTopOK DEF StartRound, InLoop
  <2> QED BY <1>14, <2>3, EmptyMapOK DEF StartRound, FramesOK, TypeOK, env
<1>15. ASSUME NEW e \in Effects, RunTask(e) \/ SkipTask(e) PROVE TypeOK'
  <2>1. depth > 0 /\ IsFrame(Top)
    BY <1>15, TopOK DEF RunTask, SkipTask, IsNext
  <2>2. IsMap(Without(Top.tasks, e), Snapshot)
    BY <2>1, WithoutOK DEF IsFrame, IsMap
  <2>3. /\ IsFrame([Top EXCEPT !.pc = "body", !.tasks = Without(@, e)])
        /\ IsFrame([Top EXCEPT !.tasks = Without(@, e)])
    BY <2>1, <2>2 DEF IsFrame, IsMap
  <2>4. FramesOK'
    BY <1>15, <2>1, <2>3, SetTopOK DEF RunTask, SkipTask
  <2> QED BY <1>15, <2>4 DEF RunTask, SkipTask, FramesOK, TypeOK, env
<1>16. CASE TaskEnds \/ RoundEnds \/ CallbackEnds
  <2>1. depth > 0 /\ IsFrame(Top)
    BY <1>16, TopOK DEF TaskEnds, RoundEnds, CallbackEnds
  <2>2. \A pc \in {"round", "loop", "callbacks"} : IsFrame([Top EXCEPT !.pc = pc])
    BY <2>1 DEF IsFrame, IsMap
  <2>3. FramesOK'
    BY <1>16, <2>1, <2>2, SetTopOK DEF TaskEnds, RoundEnds, CallbackEnds
  <2> QED BY <1>16, <2>3 DEF TaskEnds, RoundEnds, CallbackEnds, FramesOK, TypeOK, env
<1>17. CASE RunCallback
  <2>1. depth > 0 /\ IsFrame(Top) /\ Top.cbs # <<>>
    BY <1>17, TopOK DEF RunCallback
  <2>2. Tail(Top.cbs) \in Seq(Callbacks)
    BY <2>1, HeadTailProperties DEF IsFrame, IsMap
  <2>3. IsFrame([Top EXCEPT !.pc = "callback", !.cbs = Tail(@), !.ranCb = TRUE])
    BY <2>1, <2>2 DEF IsFrame, IsMap
  <2>4. FramesOK'
    BY <1>17, <2>1, <2>3, SetTopOK DEF RunCallback
  <2> QED BY <1>17, <2>4 DEF RunCallback, FramesOK, TypeOK, env
<1>18. CASE EndFlush
  <2>1. FramesOK'
    BY <1>18, NoFrameOK, SetTopOK DEF EndFlush
  <2>2. depth' \in 0..MaxDepth
    BY <1>18, TopOK, SchedulerAssumption DEF EndFlush, SchedulerAssumption
  <2> QED BY <1>18, <2>1, <2>2, EmptyMapOK DEF EndFlush, FramesOK, TypeOK, env
<1>19. CASE UNCHANGED vars
  BY <1>19 DEF vars, FramesOK, TypeOK
<1> QED
  BY <1>1, <1>2, <1>3, <1>4, <1>5, <1>6, <1>7, <1>8, <1>9, <1>10, <1>11, <1>12, <1>13,
     <1>14, <1>15, <1>16, <1>17, <1>18, <1>19, SchedulerAssumption
     DEF Next, UserCall, FlushStep, UserReturn, SchedulerAssumption

\* The scheduler's variables keep their types.
THEOREM TypeCorrect == Spec => []TypeOK
BY TypeInit, TypeNext, PTL DEF Spec
-----------------------------------------------------------------------------
LEMMA WakeInit == Init => WakeInv
<1> SUFFICES ASSUME Init PROVE WakeInv OBVIOUS
<1>1. TypeOK
  BY TypeInit
<1>2. ~isFlushing /\ ~flushPromise /\ DOMAIN queue = {}
  BY EmptyDomain DEF Init
<1> QED
  BY <1>1, <1>2 DEF WakeInv, Wake, LockIsHeldByAFlush, PromiseIsBacked, FlushIsComing

LEMMA StackKept ==
  ASSUME UNCHANGED <<frames, depth>> PROVE SomeFlushLoops' = SomeFlushLoops
BY DEF SomeFlushLoops, Looping

\* Entering flushQueue leaves a frame in its loop, whether or not it pushed it.
LEMMA EnterFlushLoops ==
  ASSUME TypeOK, LockIsHeldByAFlush, EnterFlush
  PROVE  SomeFlushLoops' /\ depth' \in 0..MaxDepth /\ DOMAIN frames' = 1..MaxDepth
<1>1. CASE isFlushing
  BY <1>1, StackKept DEF EnterFlush, LockIsHeldByAFlush, FramesOK, TypeOK
<1>2. CASE ~isFlushing
  <2> DEFINE top == depth + 1
  <2>1. top \in 1..MaxDepth /\ depth' = top /\ frames'[top].pc = "loop"
    BY <1>2, SchedulerAssumption DEF EnterFlush, FramesOK, TypeOK, NoFrame, SchedulerAssumption
  <2>2. DOMAIN frames' = 1..MaxDepth
    BY <1>2 DEF EnterFlush, FramesOK, TypeOK
  <2> QED
    BY <2>1, <2>2, SchedulerAssumption DEF SomeFlushLoops, Looping, SchedulerAssumption
<1> QED BY <1>1, <1>2

\* A frame that stays in its loop, and one that stays out of it.
LEMMA TopLoops ==
  ASSUME TypeOK, depth > 0, NEW f, f.pc \in {"loop", "round", "body"},
         SetTop(f), depth' = depth
  PROVE  SomeFlushLoops' /\ DOMAIN frames' = 1..MaxDepth
<1>1. depth \in 1..MaxDepth
  BY SchedulerAssumption DEF FramesOK, TypeOK, SchedulerAssumption
<1>2. frames'[depth] = f /\ DOMAIN frames' = 1..MaxDepth
  BY <1>1 DEF SetTop, FramesOK, TypeOK
<1> QED BY <1>1, <1>2 DEF SomeFlushLoops, Looping

LEMMA TopKept ==
  ASSUME TypeOK, depth > 0, ~Looping(depth), NEW f, SetTop(f),
         depth' = depth \/ depth' = depth - 1
  PROVE  (SomeFlushLoops => SomeFlushLoops') /\ DOMAIN frames' = 1..MaxDepth
<1>1. depth \in 1..MaxDepth
  BY SchedulerAssumption DEF FramesOK, TypeOK, SchedulerAssumption
<1>2. DOMAIN frames' = 1..MaxDepth /\ \A d \in 1..MaxDepth : d # depth => frames'[d] = frames[d]
  BY <1>1 DEF SetTop, FramesOK, TypeOK
<1>3. ASSUME NEW d \in 1..depth, Looping(d) PROVE SomeFlushLoops'
  <2>1. d # depth
    BY <1>3
  <2>2. d \in 1..depth' /\ d \in 1..MaxDepth
    BY <2>1, <1>1, SchedulerAssumption DEF SchedulerAssumption
  <2>3. frames'[d] = frames[d]
    BY <2>1, <2>2, <1>2
  <2>4. frames'[d].pc \in {"loop", "round", "body"}
    BY <2>3, <1>3 DEF Looping
  <2> QED BY <2>2, <2>4 DEF SomeFlushLoops, Looping
<1> QED BY <1>2, <1>3 DEF SomeFlushLoops

\* Every step preserves the invariant: one case per action.
LEMMA WakeNext == WakeInv /\ [Next]_vars => WakeInv'
<1> SUFFICES ASSUME TypeOK, TypeOK', Wake, [Next]_vars PROVE Wake'
  BY TypeNext DEF WakeInv
<1> USE DEF Wake
<1>1. ASSUME NEW e \in Effects, NEW p, NEW d, scheduleEffect(e, p, d) PROVE Wake'
  <2>1. SomeFlushLoops' = SomeFlushLoops
    BY <1>1, StackKept DEF scheduleEffect
  <2>2. LockIsHeldByAFlush'
    BY <1>1, <2>1 DEF scheduleEffect, LockIsHeldByAFlush
  <2>3. CASE e \in DOMAIN queue
    <3>1. DOMAIN queue' = DOMAIN queue
      BY <1>1, <2>3 DEF scheduleEffect, Merge
    <3> QED
      BY <1>1, <2>1, <2>2, <2>3, <3>1 DEF scheduleEffect, PromiseIsBacked, FlushIsComing
  <2>4. CASE e \notin DOMAIN queue /\ adapter
    BY <1>1, <2>1, <2>2, <2>4 DEF scheduleEffect, PromiseIsBacked, FlushIsComing
  <2>5. CASE e \notin DOMAIN queue /\ ~adapter /\ ~isFlushing /\ ~flushPromise
    <3>1. microtasks' = microtasks + 1 /\ microtasks' > 0
      BY <1>1, <2>5 DEF scheduleEffect, FramesOK, TypeOK
    <3> QED BY <2>1, <2>2, <3>1 DEF PromiseIsBacked, FlushIsComing
  <2>6. CASE e \notin DOMAIN queue /\ ~adapter /\ (isFlushing \/ flushPromise)
    <3>1. UNCHANGED <<handed, flushPromise, microtasks>>
      BY <1>1, <2>6 DEF scheduleEffect
    <3>2. microtasks > 0 \/ SomeFlushLoops
      BY <2>6 DEF LockIsHeldByAFlush, PromiseIsBacked
    <3> QED BY <2>1, <2>2, <3>1, <3>2 DEF PromiseIsBacked, FlushIsComing
  <2> QED BY <2>3, <2>4, <2>5, <2>6
<1>2. ASSUME NEW e \in Effects, nextTick(e) PROVE Wake'
  BY <1>1, <1>2 DEF nextTick
<1>3. ASSUME NEW e \in Effects, setEffectDisposal(e) PROVE Wake'
  <2>1. DOMAIN queue' = DOMAIN queue
    BY <1>3 DEF setEffectDisposal
  <2> QED
    BY <1>3, <2>1, StackKept DEF setEffectDisposal, FramesOK, TypeOK, LockIsHeldByAFlush,
       PromiseIsBacked, FlushIsComing
<1>4. ASSUME NEW e \in Effects, DisposeEffect(e) PROVE Wake'
  BY <1>4, StackKept DEF DisposeEffect, FramesOK, TypeOK, LockIsHeldByAFlush, PromiseIsBacked,
     FlushIsComing
<1>5. ASSUME NEW c \in Callbacks, afterFlush(c) \/ unregister(c) PROVE Wake'
  BY <1>5, StackKept DEF afterFlush, unregister, FramesOK, TypeOK, LockIsHeldByAFlush,
     PromiseIsBacked, FlushIsComing
<1>6. CASE configureScheduler
  BY <1>6, StackKept DEF configureScheduler, FramesOK, TypeOK, LockIsHeldByAFlush, PromiseIsBacked,
     FlushIsComing
<1>7. CASE clearSchedulerInternal
  BY <1>7, StackKept, EmptyDomain DEF clearSchedulerInternal, FramesOK, TypeOK, LockIsHeldByAFlush,
     PromiseIsBacked, FlushIsComing
<1>8. CASE flushSync
  <2>1. EnterFlush /\ microtasks' = microtasks
    BY <1>8 DEF flushSync
  <2> QED
    BY <2>1, EnterFlushLoops DEF FramesOK, TypeOK, LockIsHeldByAFlush, PromiseIsBacked, FlushIsComing
<1>9. CASE Tick
  <2>1. DOMAIN queue' = DOMAIN queue
    BY <1>9 DEF Tick
  <2> QED
    BY <1>9, <2>1, StackKept DEF Tick, FramesOK, TypeOK, LockIsHeldByAFlush, PromiseIsBacked,
       FlushIsComing
<1>10. CASE Microtask
  <2>1. EnterFlush /\ microtasks' \in Nat
    BY <1>10 DEF Microtask, FramesOK, TypeOK
  <2> QED
    BY <2>1, EnterFlushLoops DEF FramesOK, TypeOK, LockIsHeldByAFlush, PromiseIsBacked, FlushIsComing
<1>11. CASE AdapterFires
  <2>1. EnterFlush /\ microtasks' = microtasks
    BY <1>11 DEF AdapterFires
  <2> QED
    BY <2>1, EnterFlushLoops DEF FramesOK, TypeOK, LockIsHeldByAFlush, PromiseIsBacked, FlushIsComing
<1>12. CASE Drained \/ Overflow
  <2>1. /\ ~isFlushing' /\ ~flushPromise' /\ DOMAIN queue' = {}
        /\ UNCHANGED <<microtasks, depth>> /\ depth > 0
        /\ \E f : SetTop(f)
    BY <1>12, EmptyDomain DEF Drained, Overflow, Unlock, InLoop
  <2>2. DOMAIN frames' = 1..MaxDepth
    BY <2>1 DEF SetTop, FramesOK, TypeOK
  <2> QED
    BY <2>1, <2>2 DEF FramesOK, TypeOK, LockIsHeldByAFlush, PromiseIsBacked, FlushIsComing
<1>13. ASSUME StartRound \/ RoundEnds \/ TaskEnds
              \/ \E e \in Effects : RunTask(e) \/ SkipTask(e)
       PROVE Wake'
  <2>1. depth > 0 /\ UNCHANGED <<microtasks, depth>>
    BY <1>13 DEF StartRound, RoundEnds, TaskEnds, RunTask, SkipTask, IsNext, InLoop
  <2>2. IsFrame(Top) /\ DOMAIN Top = DOMAIN NoFrame
    BY <2>1, TopOK DEF IsFrame, IsMap, NoFrame
  <2>3. PICK f : f.pc \in {"loop", "round", "body"} /\ SetTop(f)
    <3> SUFFICES \E f : f.pc \in {"loop", "round", "body"} /\ SetTop(f) OBVIOUS
    <3>1. CASE StartRound
      <4> DEFINE f == [Top EXCEPT !.pc = "round", !.iterations = @ + 1, !.tasks = RoundTasks]
      <4>1. f.pc = "round" /\ SetTop(f)
        BY <3>1, <2>2 DEF StartRound, IsFrame, IsMap
      <4> HIDE DEF f
      <4> QED BY <4>1
    <3>2. CASE RoundEnds
      <4> DEFINE f == [Top EXCEPT !.pc = "loop"]
      <4>1. f.pc = "loop" /\ SetTop(f)
        BY <3>2, <2>2 DEF RoundEnds, IsFrame, IsMap
      <4> HIDE DEF f
      <4> QED BY <4>1
    <3>3. CASE TaskEnds
      <4> DEFINE f == [Top EXCEPT !.pc = "round"]
      <4>1. f.pc = "round" /\ SetTop(f)
        BY <3>3, <2>2 DEF TaskEnds, IsFrame, IsMap
      <4> HIDE DEF f
      <4> QED BY <4>1
    <3>4. ASSUME NEW e \in Effects, RunTask(e)
          PROVE \E f : f.pc \in {"loop", "round", "body"} /\ SetTop(f)
      <4> DEFINE f == [Top EXCEPT !.pc = "body", !.tasks = Without(@, e)]
      <4>1. f.pc = "body" /\ SetTop(f)
        BY <3>4, <2>2 DEF RunTask, IsFrame, IsMap
      <4> HIDE DEF f
      <4> QED BY <4>1
    <3>5. ASSUME NEW e \in Effects, SkipTask(e)
          PROVE \E f : f.pc \in {"loop", "round", "body"} /\ SetTop(f)
      <4> DEFINE f == [Top EXCEPT !.tasks = Without(@, e)]
      <4>1. f.pc = "round" /\ SetTop(f)
        BY <3>5, <2>2 DEF SkipTask, IsNext, IsFrame, IsMap
      <4> HIDE DEF f
      <4> QED BY <4>1
    <3> QED BY <1>13, <3>1, <3>2, <3>3, <3>4, <3>5
  <2>4. SomeFlushLoops'
    BY <2>1, <2>3, TopLoops
  <2> QED
    BY <2>4 DEF LockIsHeldByAFlush, PromiseIsBacked, FlushIsComing
<1>14. CASE RunCallback \/ CallbackEnds
  <2>1. /\ depth > 0 /\ ~Looping(depth) /\ \E f : SetTop(f)
        /\ UNCHANGED <<queue, isFlushing, flushPromise, handed, microtasks, depth>>
    BY <1>14 DEF RunCallback, CallbackEnds, Looping, Top
  <2> QED
    BY <2>1, TopKept DEF FramesOK, TypeOK, LockIsHeldByAFlush, PromiseIsBacked, FlushIsComing
<1>15. CASE EndFlush
  <2>1. /\ depth > 0 /\ ~Looping(depth) /\ SetTop(NoFrame) /\ depth' = depth - 1
        /\ UNCHANGED <<isFlushing, flushPromise, handed, microtasks>>
        /\ DOMAIN queue' \subseteq DOMAIN queue
    BY <1>15, EmptyDomain DEF EndFlush, Looping, Top
  <2> QED
    BY <2>1, TopKept DEF FramesOK, TypeOK, LockIsHeldByAFlush, PromiseIsBacked, FlushIsComing
<1>16. CASE UNCHANGED vars
  BY <1>16, StackKept DEF vars, FramesOK, TypeOK, LockIsHeldByAFlush, PromiseIsBacked, FlushIsComing
<1> HIDE DEF Wake
<1> QED
  BY <1>1, <1>2, <1>3, <1>4, <1>5, <1>6, <1>7, <1>8, <1>9, <1>10, <1>11, <1>12, <1>13,
     <1>14, <1>15, <1>16, SchedulerAssumption
     DEF Next, UserCall, FlushStep, UserReturn, SchedulerAssumption

\* Neither isFlushing nor flushPromise, the flags that turn a flush and a new
\* promise job into a no-op, is ever set with nobody left to clear it.
THEOREM FlagsAreBacked == Spec => []LocksAreBacked
<1>1. WakeInv => LocksAreBacked
  BY DEF WakeInv, Wake, LocksAreBacked
<1> QED BY WakeInit, WakeNext, <1>1, PTL DEF Spec

\* The flush lock is never left behind and no wake-up is lost: whatever the
\* interleaving of schedules, flushes, resets and adapter changes, a queued
\* effect has a promise job, an adapter or a running flush to serve it.
THEOREM NoLostWakeUp ==
  Spec => [](LockIsHeldByAFlush /\ PromiseIsBacked /\ FlushIsComing)
<1>1. WakeInv => LockIsHeldByAFlush /\ PromiseIsBacked /\ FlushIsComing
  BY DEF WakeInv, Wake
<1> QED BY WakeInit, WakeNext, <1>1, PTL DEF Spec
-----------------------------------------------------------------------------
\* A flush leaves the queue alone or empties it.
LEMMA FlushEmptiesOrKeeps ==
  ASSUME FlushStep PROVE (DOMAIN queue' = {} \/ queue' = queue) /\ disposalMap' = disposalMap
<1>1. CASE Drained \/ Overflow
  BY <1>1, EmptyDomain DEF Drained, Overflow, env
<1>2. CASE StartRound \/ RoundEnds
  BY <1>2, EmptyDomain DEF StartRound, RoundEnds, env
<1>3. ASSUME NEW e \in Effects, RunTask(e) \/ SkipTask(e)
      PROVE  queue' = queue /\ disposalMap' = disposalMap
  BY <1>3 DEF RunTask, SkipTask, env
<1>4. CASE RunCallback \/ EndFlush
  BY <1>4, EmptyDomain DEF RunCallback, EndFlush, env
<1> QED BY <1>1, <1>2, <1>3, <1>4 DEF FlushStep

\* No step forgets that an effect is disposable: setEffectDisposal tells the task that is queued
\* and a task that is inserted or merged later asks effectDisposalMap.
LEMMA DisposalNext == TypeOK /\ QueuedKnowsDisposal /\ [Next]_vars => QueuedKnowsDisposal'
<1> SUFFICES ASSUME TypeOK, QueuedKnowsDisposal, [Next]_vars PROVE QueuedKnowsDisposal'
  OBVIOUS
<1>q. DOMAIN queue \subseteq Effects /\ queue \in [DOMAIN queue -> Task]
  BY DEF IsMap, TypeOK
<1>k. \A e \in DOMAIN queue : DOMAIN queue[e] = {"prio", "seq", "age", "disposable"}
  BY <1>q DEF Task
<1>1. ASSUME NEW e \in Effects, NEW p, NEW d, scheduleEffect(e, p, d) PROVE QueuedKnowsDisposal'
  <2> DEFINE disposable == d \/ e \in disposalMap
  <2>1. disposalMap' = disposalMap
    BY <1>1 DEF scheduleEffect, env
  <2>2. CASE e \in DOMAIN queue
    <3>1. Merge(e, p, disposable)
      BY <1>1, <2>2 DEF scheduleEffect
    <3>2. /\ DOMAIN queue' = DOMAIN queue
          /\ \A x \in DOMAIN queue : x # e => queue'[x] = queue[x]
          /\ queue'[e].disposable = (queue[e].disposable \/ disposable)
      BY <1>k, <2>2, <3>1 DEF Merge
    <3> QED BY <2>1, <2>2, <3>2 DEF QueuedKnowsDisposal
  <2>3. CASE e \notin DOMAIN queue
    <3>1. Insert(e, p, disposable)
      BY <1>1, <2>3 DEF scheduleEffect
    <3>2. /\ DOMAIN queue' = DOMAIN queue \cup {e}
          /\ \A x \in DOMAIN queue : queue'[x] = queue[x]
          /\ queue'[e].disposable = disposable
      BY <2>3, <3>1 DEF Insert
    <3> QED BY <2>1, <3>2 DEF QueuedKnowsDisposal
  <2> QED BY <2>2, <2>3
<1>2. ASSUME NEW e \in Effects, nextTick(e) PROVE QueuedKnowsDisposal'
  BY <1>1, <1>2 DEF nextTick
<1>3. ASSUME NEW e \in Effects, setEffectDisposal(e) PROVE QueuedKnowsDisposal'
  <2>1. disposalMap' = disposalMap \cup {e} /\ DOMAIN queue' = DOMAIN queue
    BY <1>3 DEF setEffectDisposal
  <2>2. \A x \in DOMAIN queue : IF x = e THEN queue'[x].disposable = TRUE ELSE queue'[x] = queue[x]
    BY <1>3, <1>k DEF setEffectDisposal
  <2> QED BY <2>1, <2>2 DEF QueuedKnowsDisposal
<1>4. CASE Tick
  <2>1. disposalMap' = disposalMap /\ DOMAIN queue' = DOMAIN queue
    BY <1>4 DEF Tick, env
  <2>2. \A x \in DOMAIN queue : queue'[x].disposable = queue[x].disposable
    BY <1>4, <1>k DEF Tick
  <2> QED BY <2>1, <2>2 DEF QueuedKnowsDisposal
<1>5. ASSUME DOMAIN queue' = {} \/ queue' = queue, disposalMap' = disposalMap
      PROVE QueuedKnowsDisposal'
  BY <1>5 DEF QueuedKnowsDisposal
<1>6. ASSUME UserCall,
             ~ \E e \in Effects : \/ setEffectDisposal(e) \/ nextTick(e)
                                  \/ \E p, d : scheduleEffect(e, p, d)
      PROVE  QueuedKnowsDisposal'
  <2>1. (DOMAIN queue' = {} \/ queue' = queue) /\ disposalMap' = disposalMap
    BY <1>6, EmptyDomain, SchedulerAssumption
       DEF UserCall, DisposeEffect, afterFlush, unregister, flushSync, clearSchedulerInternal,
           configureScheduler, env, SchedulerAssumption
  <2> QED BY <2>1, <1>5
<1>7. CASE Microtask \/ AdapterFires \/ UserReturn \/ UNCHANGED vars
  <2>1. queue' = queue /\ disposalMap' = disposalMap
    BY <1>7 DEF Microtask, AdapterFires, UserReturn, TaskEnds, CallbackEnds, env, vars
  <2> QED BY <2>1, <1>5
<1>8. CASE FlushStep
  <2>1. (DOMAIN queue' = {} \/ queue' = queue) /\ disposalMap' = disposalMap
    BY <1>8, FlushEmptiesOrKeeps
  <2> QED BY <2>1, <1>5
<1> QED
  BY <1>1, <1>2, <1>3, <1>4, <1>6, <1>7, <1>8 DEF Next

\* A queued effect knows that its disposal was registered, in whatever order it was registered,
\* scheduled and scheduled again.
THEOREM DisposalIsKnown == Spec => []QueuedKnowsDisposal
<1>1. Init => QueuedKnowsDisposal
  BY EmptyDomain DEF Init, QueuedKnowsDisposal
<1> QED BY <1>1, DisposalNext, TypeCorrect, PTL DEF Spec
-----------------------------------------------------------------------------
\* Division by a step does not turn round what is older.
LEMMA DivGrows ==
  ASSUME NEW a \in Nat, NEW b \in Nat, NEW s \in Nat \ {0}, a <= b PROVE a \div s <= b \div s
BY Z3

\* A task that is older, or that was given a better priority, is not behind.
LEMMA EffectivePriorityImproves ==
  ASSUME NEW s \in Task, NEW t \in Task, t.prio <= s.prio, s.age <= t.age
  PROVE  EffectivePriority(t) <= EffectivePriority(s)
<1> DEFINE gain(x) == IF x.age < AgingThreshold THEN 0 ELSE (x.age - AgingThreshold) \div AgingStep
<1>1. /\ AgingStep \in Nat \ {0} /\ AgingThreshold \in Nat
      /\ s.age \in Nat /\ s.prio \in Nat /\ t.age \in Nat /\ t.prio \in Nat
  BY SchedulerAssumption DEF SchedulerAssumption, Task, urgent, idle
<1>2. gain(s) \in Nat /\ gain(t) \in Nat
  BY <1>1, DivNat
<1>3. gain(s) <= gain(t)
  <2>1. CASE s.age < AgingThreshold
    BY <2>1, <1>2
  <2>2. CASE ~(s.age < AgingThreshold)
    <3>1. /\ s.age - AgingThreshold \in Nat /\ t.age - AgingThreshold \in Nat
          /\ s.age - AgingThreshold <= t.age - AgingThreshold
      BY <1>1, <2>2
    <3>2. (s.age - AgingThreshold) \div AgingStep <= (t.age - AgingThreshold) \div AgingStep
      BY <1>1, <3>1, DivGrows
    <3> QED BY <1>1, <2>2, <3>2
  <2> QED BY <2>1, <2>2
<1>4. /\ EffectivePriority(s) = IF gain(s) < s.prio THEN s.prio - gain(s) ELSE 0
      /\ EffectivePriority(t) = IF gain(t) < t.prio THEN t.prio - gain(t) ELSE 0
  BY DEF EffectivePriority
<1> HIDE DEF gain
<1> QED BY <1>1, <1>2, <1>3, <1>4

\* A step makes the task of an effect that stays queued no younger and its priority no worse.
LEMMA TasksImprove ==
  ASSUME TypeOK, [Next]_vars, NEW e \in DOMAIN queue \cap DOMAIN queue'
  PROVE  queue'[e].prio <= queue[e].prio /\ queue[e].age <= queue'[e].age
<1>q. /\ DOMAIN queue \subseteq Effects /\ queue[e] \in Task
      /\ queue[e].prio \in Nat /\ queue[e].age \in Nat
      /\ DOMAIN queue[e] = {"prio", "seq", "age", "disposable"}
  BY DEF IsMap, TypeOK, Task, urgent, idle
<1>1. ASSUME NEW x \in Effects, NEW p \in urgent..idle, NEW d, scheduleEffect(x, p, d)
      PROVE  queue'[e].prio <= queue[e].prio /\ queue[e].age <= queue'[e].age
  <2>1. CASE x # e
    <3>1. queue'[e] = queue[e]
      BY <1>1, <2>1 DEF scheduleEffect, Merge, Insert
    <3> QED BY <1>q, <3>1
  <2>2. CASE x = e
    <3>1. PICK b : Merge(e, p, b)
      BY <1>1, <2>2 DEF scheduleEffect
    <3>2. /\ queue'[e].prio = IF p < queue[e].prio THEN p ELSE queue[e].prio
          /\ queue'[e].age = queue[e].age
      BY <1>q, <3>1 DEF Merge
    <3> QED BY <1>q, <3>2 DEF urgent, idle
  <2> QED BY <2>1, <2>2
<1>2. ASSUME NEW x \in Effects, nextTick(x)
      PROVE  queue'[e].prio <= queue[e].prio /\ queue[e].age <= queue'[e].age
  <2>1. idle \in urgent..idle
    BY DEF urgent, idle
  <2> QED BY <1>1, <1>2, <2>1 DEF nextTick
<1>3. ASSUME NEW x \in Effects, setEffectDisposal(x)
      PROVE  queue'[e].prio <= queue[e].prio /\ queue[e].age <= queue'[e].age
  <2>1. queue'[e].prio = queue[e].prio /\ queue'[e].age = queue[e].age
    BY <1>q, <1>3 DEF setEffectDisposal
  <2> QED BY <1>q, <2>1
<1>4. CASE Tick
  <2>1. queue'[e] = queue[e] \/ queue'[e] = [queue[e] EXCEPT !.age = @ + 1]
    BY <1>4 DEF Tick
  <2>2. queue'[e].prio = queue[e].prio /\ queue'[e].age \in {queue[e].age, queue[e].age + 1}
    BY <1>q, <2>1
  <2> QED BY <1>q, <2>2
<1>5. ASSUME queue' = queue
      PROVE  queue'[e].prio <= queue[e].prio /\ queue[e].age <= queue'[e].age
  BY <1>q, <1>5
<1>6. ASSUME UserCall,
             ~ \E x \in Effects : \/ setEffectDisposal(x) \/ nextTick(x)
                                  \/ \E p \in urgent..idle : \E d : scheduleEffect(x, p, d)
      PROVE  queue' = queue
  BY <1>6, EmptyDomain, SchedulerAssumption
     DEF UserCall, DisposeEffect, afterFlush, unregister, flushSync, clearSchedulerInternal,
         configureScheduler, SchedulerAssumption
<1>7. CASE Microtask \/ AdapterFires \/ UserReturn \/ UNCHANGED vars
  <2>1. queue' = queue
    BY <1>7 DEF Microtask, AdapterFires, UserReturn, TaskEnds, CallbackEnds, vars
  <2> QED BY <2>1, <1>5
<1>8. CASE FlushStep
  BY <1>5, <1>8, FlushEmptiesOrKeeps
<1> QED BY <1>1, <1>2, <1>3, <1>4, <1>5, <1>6, <1>7, <1>8 DEF Next

\* While an effect waits, neither another schedule nor time puts it behind.
THEOREM PriorityOnlyImproves == Spec => PriorityNeverWorsens
<1> DEFINE Better ==
      \A e \in DOMAIN queue \cap DOMAIN queue' :
        EffectivePriority(queue[e])' <= EffectivePriority(queue[e])
<1>1. TypeOK /\ TypeOK' /\ [Next]_vars => [Better]_vars
  <2> SUFFICES ASSUME TypeOK, TypeOK', [Next]_vars, NEW e \in DOMAIN queue \cap DOMAIN queue'
               PROVE  EffectivePriority(queue[e])' <= EffectivePriority(queue[e])
    OBVIOUS
  <2>1. queue[e] \in Task /\ queue'[e] \in Task
    BY DEF TypeOK, IsMap
  <2>2. EffectivePriority(queue'[e]) <= EffectivePriority(queue[e])
    BY <2>1, TasksImprove, EffectivePriorityImproves
  <2>3. EffectivePriority(queue[e])' = EffectivePriority(queue'[e])
    BY DEF EffectivePriority
  <2> QED BY <2>2, <2>3
<1> QED BY <1>1, TypeCorrect, PTL DEF Spec, PriorityNeverWorsens
-----------------------------------------------------------------------------
\* The stack of nested flushes: below the top one each waits for an effect or a callback of its
\* own, and one that has run no callback and was not cut short finds the queue still empty.
StackShape ==
  \A d \in 1..depth :
    /\ d < depth => frames[d].pc \in {"body", "callback"}
    /\ frames[d].pc = "callback" => frames[d].ranCb
    /\ frames[d].pc = "callbacks" => frames[d].hitMax \/ frames[d].ranCb \/ DOMAIN queue = {}

\* While user code is on top, no frame is between callbacks, so the queue may grow.
LEMMA ShapeUnderUserCode ==
  ASSUME TypeOK, StackShape, InUserCode, UNCHANGED <<frames, depth>> PROVE StackShape'
<1>1. \A d \in 1..depth : frames[d].pc \in {"body", "callback"}
  BY DEF TypeOK, StackShape, InUserCode, Top
<1> QED BY <1>1 DEF StackShape

LEMMA ShapeAtEntry ==
  ASSUME TypeOK, StackShape, InUserCode, EnterFlush, queue' = queue PROVE StackShape'
<1>1. CASE isFlushing
  BY <1>1, ShapeUnderUserCode DEF EnterFlush
<1>2. CASE ~isFlushing
  <2>1. /\ depth \in Nat /\ depth' = depth + 1 /\ depth + 1 \in 1..MaxDepth
        /\ frames'[depth + 1].pc = "loop"
        /\ \A d \in 1..depth : frames'[d] = frames[d]
    BY <1>2, SchedulerAssumption DEF EnterFlush, TypeOK, NoFrame, SchedulerAssumption
  <2>2. \A d \in 1..depth : /\ frames[d].pc \in {"body", "callback"}
                            /\ frames[d].pc = "callback" => frames[d].ranCb
    BY DEF TypeOK, StackShape, InUserCode, Top
  <2>3. \A d \in 1..depth' : d = depth + 1 \/ d \in 1..depth
    BY <2>1
  <2> QED BY <2>1, <2>2, <2>3 DEF StackShape
<1> QED BY <1>1, <1>2

\* Writing the top frame leaves those below it as they are.
LEMMA ShapeAtTop ==
  ASSUME TypeOK, StackShape, depth > 0, NEW f, SetTop(f), depth' = depth,
         f.pc = "callback" => f.ranCb,
         f.pc = "callbacks" => f.hitMax \/ f.ranCb \/ DOMAIN queue' = {}
  PROVE  StackShape'
<1>1. /\ depth \in 1..MaxDepth /\ frames'[depth] = f
      /\ \A d \in 1..depth : d # depth => frames'[d] = frames[d] /\ d < depth
  BY SchedulerAssumption DEF TypeOK, SetTop, SchedulerAssumption
<1> QED BY <1>1 DEF StackShape

LEMMA ShapeNext == TypeOK /\ StackShape /\ [Next]_vars => StackShape'
<1> SUFFICES ASSUME TypeOK, StackShape, [Next]_vars PROVE StackShape'
  OBVIOUS
<1>t. depth > 0 => IsFrame(Top) /\ DOMAIN Top = DOMAIN NoFrame /\ Top = frames[depth]
                   /\ depth \in 1..depth
  BY TopOK DEF IsFrame, NoFrame, Top, TypeOK
<1>1. CASE UserCall /\ ~flushSync
  <2>1. InUserCode /\ UNCHANGED <<frames, depth>>
    BY <1>1 DEF UserCall, scheduleEffect, nextTick, setEffectDisposal, DisposeEffect, afterFlush,
       unregister, clearSchedulerInternal, configureScheduler
  <2> QED BY <2>1, ShapeUnderUserCode
<1>2. CASE flushSync \/ Microtask \/ AdapterFires
  <2>1. InUserCode /\ EnterFlush /\ queue' = queue
    BY <1>2 DEF flushSync, Microtask, AdapterFires, InUserCode
  <2> QED BY <2>1, ShapeAtEntry
<1>3. CASE Tick
  <2>1. UNCHANGED <<frames, depth>> /\ DOMAIN queue' = DOMAIN queue
    BY <1>3 DEF Tick
  <2> QED BY <2>1 DEF StackShape
<1>4. CASE Drained \/ Overflow
  <2>1. PICK o \in BOOLEAN : Unlock(o)
    BY <1>4 DEF Drained, Overflow
  <2> DEFINE f == [NoFrame EXCEPT !.pc = "callbacks", !.cbs = callbacks, !.hitMax = o]
  <2>2. depth > 0 /\ SetTop(f) /\ depth' = depth /\ DOMAIN queue' = {} /\ f.pc = "callbacks"
    BY <1>4, <2>1, EmptyDomain DEF Drained, Overflow, InLoop, Unlock, NoFrame
  <2> HIDE DEF f
  <2> QED BY <2>2, ShapeAtTop
<1>5. CASE StartRound
  <2> DEFINE f == [Top EXCEPT !.pc = "round", !.iterations = @ + 1, !.tasks = RoundTasks]
  <2>1. depth > 0 /\ SetTop(f) /\ depth' = depth
    BY <1>5 DEF StartRound, InLoop
  <2>2. f.pc = "round"
    BY <1>t, <2>1 DEF NoFrame
  <2> HIDE DEF f
  <2> QED BY <2>1, <2>2, ShapeAtTop
<1>6. ASSUME NEW e \in Effects, RunTask(e) PROVE StackShape'
  <2> DEFINE f == [Top EXCEPT !.pc = "body", !.tasks = Without(@, e)]
  <2>1. depth > 0 /\ SetTop(f) /\ depth' = depth
    BY <1>6 DEF RunTask, IsNext
  <2>2. f.pc = "body"
    BY <1>t, <2>1 DEF NoFrame
  <2> HIDE DEF f
  <2> QED BY <2>1, <2>2, ShapeAtTop
<1>7. ASSUME NEW e \in Effects, SkipTask(e) PROVE StackShape'
  <2> DEFINE f == [Top EXCEPT !.tasks = Without(@, e)]
  <2>1. depth > 0 /\ SetTop(f) /\ depth' = depth /\ Top.pc = "round"
    BY <1>7 DEF SkipTask, IsNext
  <2>2. f.pc = "round"
    BY <1>t, <2>1 DEF NoFrame
  <2> HIDE DEF f
  <2> QED BY <2>1, <2>2, ShapeAtTop
<1>8. CASE TaskEnds
  <2> DEFINE f == [Top EXCEPT !.pc = "round"]
  <2>1. depth > 0 /\ SetTop(f) /\ depth' = depth
    BY <1>8 DEF TaskEnds
  <2>2. f.pc = "round"
    BY <1>t, <2>1 DEF NoFrame
  <2> HIDE DEF f
  <2> QED BY <2>1, <2>2, ShapeAtTop
<1>9. CASE RoundEnds
  <2> DEFINE f == [Top EXCEPT !.pc = "loop"]
  <2>1. depth > 0 /\ SetTop(f) /\ depth' = depth
    BY <1>9 DEF RoundEnds
  <2>2. f.pc = "loop"
    BY <1>t, <2>1 DEF NoFrame
  <2> HIDE DEF f
  <2> QED BY <2>1, <2>2, ShapeAtTop
<1>10. CASE RunCallback
  <2> DEFINE f == [Top EXCEPT !.pc = "callback", !.cbs = Tail(@), !.ranCb = TRUE]
  <2>1. depth > 0 /\ SetTop(f) /\ depth' = depth
    BY <1>10 DEF RunCallback
  <2>2. f.pc = "callback" /\ f.ranCb = TRUE
    BY <1>t, <2>1 DEF NoFrame
  <2> HIDE DEF f
  <2> QED BY <2>1, <2>2, ShapeAtTop
<1>11. CASE CallbackEnds
  <2> DEFINE f == [Top EXCEPT !.pc = "callbacks"]
  <2>1. depth > 0 /\ SetTop(f) /\ depth' = depth /\ Top.pc = "callback"
    BY <1>11 DEF CallbackEnds
  <2>2. f.pc = "callbacks" /\ f.ranCb = Top.ranCb /\ Top.ranCb
    BY <1>t, <2>1 DEF NoFrame, StackShape
  <2> HIDE DEF f
  <2> QED BY <2>1, <2>2, ShapeAtTop
<1>12. CASE EndFlush
  <2>1. /\ depth \in 1..MaxDepth /\ depth' = depth - 1
        /\ \A d \in 1..depth' : frames'[d] = frames[d] /\ d \in 1..depth /\ d < depth
    BY <1>12, TopOK, SchedulerAssumption DEF EndFlush, SetTop, TypeOK, SchedulerAssumption
  <2> QED BY <2>1 DEF StackShape
<1>13. CASE UNCHANGED vars
  BY <1>13 DEF vars, StackShape
<1> QED
  BY <1>1, <1>2, <1>3, <1>4, <1>5, <1>6, <1>7, <1>8, <1>9, <1>10, <1>11, <1>12, <1>13
     DEF Next, FlushStep, UserReturn

\* An effect that leaves the queue unrun was disposed of, reported, reset, or scheduled by an
\* afterFlush callback: no flush, nested or not, loses it in any other way.
THEOREM DropsAreAccountedFor == Spec => SilentDropOnlyAfterCallbacks
<1> DEFINE Accounted == \/ emitted' = "ZEN-905" \/ IsReset
                        \/ depth' < depth /\ Top.ranCb
<1>1. Init => StackShape
  BY DEF Init, StackShape
<1>2. TypeOK /\ StackShape /\ [Next]_vars => [Dropped # {} => Accounted]_vars
  <2> SUFFICES ASSUME TypeOK, StackShape, Next, Dropped # {} PROVE Accounted
    BY DEF vars
  <2>d. PICK e \in DOMAIN queue \ DOMAIN queue' :
          /\ ~IsDead(e, queue[e])
          /\ ~(depth > 0 /\ e \in DOMAIN frames'[depth].tasks)
    BY DEF Dropped
  <2>1. CASE clearSchedulerInternal
    BY <2>1 DEF clearSchedulerInternal, IsReset
  <2>2. CASE UserCall /\ ~clearSchedulerInternal
    <3>1. ASSUME NEW x \in Effects, NEW p, NEW b, scheduleEffect(x, p, b)
          PROVE  DOMAIN queue \subseteq DOMAIN queue'
      BY <3>1 DEF scheduleEffect, Merge, Insert
    <3>2. ASSUME NEW x \in Effects, nextTick(x) \/ setEffectDisposal(x) \/ DisposeEffect(x)
          PROVE  DOMAIN queue \subseteq DOMAIN queue'
      BY <3>1, <3>2 DEF nextTick, setEffectDisposal, DisposeEffect
    <3>3. ASSUME NEW c \in Callbacks, afterFlush(c) \/ unregister(c) PROVE queue' = queue
      BY <3>3 DEF afterFlush, unregister
    <3>4. CASE flushSync \/ configureScheduler
      BY <3>4, <2>d DEF flushSync, configureScheduler
    <3> QED BY <2>2, <2>d, <3>1, <3>2, <3>3, <3>4, SchedulerAssumption DEF UserCall, SchedulerAssumption
  <2>3. CASE Tick \/ Microtask \/ AdapterFires \/ UserReturn
    <3>1. DOMAIN queue' = DOMAIN queue
      BY <2>3 DEF Tick, Microtask, AdapterFires, UserReturn, TaskEnds, CallbackEnds
    <3> QED BY <3>1, <2>d
  <2>4. CASE Drained
    <3>1. e \in Live
      BY <2>d DEF Live
    <3> QED BY <2>4, <3>1 DEF Drained
  <2>5. CASE Overflow
    BY <2>5 DEF Overflow
  <2>6. CASE StartRound
    <3>1. e \in Live
      BY <2>d DEF Live
    <3>2. depth > 0 /\ depth \in DOMAIN frames /\ DOMAIN Top = DOMAIN NoFrame
      BY <2>6, TopOK DEF StartRound, InLoop, TypeOK, IsFrame, NoFrame
    <3>3. frames'[depth].tasks = RoundTasks
      BY <2>6, <3>2 DEF StartRound, SetTop, NoFrame
    <3>4. e \in DOMAIN frames'[depth].tasks
      BY <3>1, <3>3 DEF RoundTasks
    <3> QED BY <2>d, <3>2, <3>4
  <2>7. CASE RoundEnds \/ RunCallback
    <3>1. queue' = queue
      BY <2>7 DEF RoundEnds, RunCallback
    <3> QED BY <3>1, <2>d
  <2>9. ASSUME NEW x \in Effects, RunTask(x) \/ SkipTask(x) PROVE Accounted
    <3>1. queue' = queue
      BY <2>9 DEF RunTask, SkipTask
    <3> QED BY <3>1, <2>d
  <2>8. CASE EndFlush
    <3>1. ~Top.hitMax /\ depth' < depth /\ depth \in 1..depth /\ Top.pc = "callbacks"
      BY <2>d, <2>8, TopOK DEF EndFlush
    <3>2. Top.ranCb
      BY <2>d, <3>1 DEF StackShape, Top
    <3> QED BY <3>1, <3>2
  <2> QED BY <2>1, <2>2, <2>3, <2>4, <2>5, <2>6, <2>7, <2>8, <2>9 DEF Next, FlushStep
<1> QED BY <1>1, <1>2, ShapeNext, TypeCorrect, PTL DEF Spec, SilentDropOnlyAfterCallbacks
=============================================================================
