---------------------------- MODULE Presentation ----------------------------
(***************************************************************************)
(* Toasts of packages/notifications: a list of visible ones with a ceiling *)
(* that every call may change, a queue of those that wait for room, and a  *)
(* timer per visible toast that hovering pauses.  A toast is a number, in  *)
(* the order of the calls; even ones are persistent and have no timer.     *)
(***************************************************************************)
EXTENDS Integers, Sequences, SequencesExt

CONSTANTS
  MaxToasts,  \* bound: toasts made
  Ceilings    \* values of maxVisible given to notify; 0 means none

VARIABLES
  visible,    \* notifications
  queued,     \* queuedNotifications
  timer,      \* dismissTimers: the state of the timer of each toast
  ceiling,    \* currentMaxVisible, that of the last call
  made        \* toasts made so far

vars == <<visible, queued, timer, ceiling, made>>

Toasts == 1..MaxToasts
Persistent(n) == n % 2 = 0

TypeOK ==
  /\ visible \in Seq(Toasts) /\ queued \in Seq(Toasts)
  /\ timer \in [Toasts -> {"none", "runs", "paused", "spent"}]
  /\ ceiling \in Ceilings /\ made \in 0..MaxToasts

Init ==
  /\ visible = <<>> /\ queued = <<>> /\ timer = [n \in Toasts |-> "none"]
  /\ ceiling \in Ceilings /\ made = 0

Full(list, max) == max > 0 /\ Len(list) >= max

\* scheduleAutoDismiss for the given toasts, after clearTimer for the toast that goes.
Timers(shown, gone) ==
  [n \in Toasts |-> IF n \in shown /\ ~Persistent(n) THEN "runs"
                    ELSE IF n \in gone THEN "none" ELSE timer[n]]

\* notify: a toast that finds no room under the ceiling of its own call is queued.
notify(max) ==
  /\ made < MaxToasts /\ made' = made + 1 /\ ceiling' = max
  /\ IF Full(visible, max)
     THEN queued' = Append(queued, made + 1) /\ UNCHANGED <<visible, timer>>
     ELSE /\ visible' = Append(visible, made + 1)
          /\ timer' = Timers({made + 1}, {})
          /\ UNCHANGED queued

\* Faulty variant: off by one at the ceiling.
PromotedOneLess(list, queue) ==
  IF ceiling <= 0 \/ Len(list) + Len(queue) < ceiling THEN Len(queue)
  ELSE IF Len(list) >= ceiling - 1 THEN 0 ELSE ceiling - 1 - Len(list)

\* How many toasts of the queue find room once the list has this length.
Promoted(list, queue) ==
  IF ceiling <= 0 \/ Len(list) + Len(queue) <= ceiling THEN Len(queue)
  ELSE IF Len(list) >= ceiling THEN 0 ELSE ceiling - Len(list)

\* Faulty variant: promoted toasts get no timer.
dismissUntimed(n) ==
  LET list == SelectSeq(visible, LAMBDA m : m # n)
      queue == SelectSeq(queued, LAMBDA m : m # n)
      k == Promoted(list, queue)
  IN /\ visible' = list \o SubSeq(queue, 1, k)
     /\ queued' = SubSeq(queue, k + 1, Len(queue))
     /\ timer' = Timers({}, {n})
     /\ UNCHANGED <<ceiling, made>>

\* dismissNotification: the toast goes from either list and the queue fills the room.
dismiss(n) ==
  LET list == SelectSeq(visible, LAMBDA m : m # n)
      queue == SelectSeq(queued, LAMBDA m : m # n)
      k == Promoted(list, queue)
  IN /\ visible' = list \o SubSeq(queue, 1, k)
     /\ queued' = SubSeq(queue, k + 1, Len(queue))
     /\ timer' = Timers(ToSet(SubSeq(queue, 1, k)), {n})
     /\ UNCHANGED <<ceiling, made>>

TimerFires(n) == timer[n] = "runs" /\ dismiss(n)

\* pauseAutoDismiss; the remaining time may already be used up.
pause(n) ==
  /\ timer[n] = "runs"
  /\ timer' \in {[timer EXCEPT ![n] = s] : s \in {"paused", "spent"}}
  /\ UNCHANGED <<visible, queued, ceiling, made>>

\* resumeAutoDismiss: a toast whose time is used up goes at once, one that is no longer
\* shown loses its timer.
resume(n) ==
  \/ timer[n] = "spent" /\ dismiss(n)
  \/ /\ timer[n] = "paused"
     /\ timer' = [timer EXCEPT ![n] = IF n \in ToSet(visible) THEN "runs" ELSE "none"]
     /\ UNCHANGED <<visible, queued, ceiling, made>>

clearAll ==
  /\ visible' = <<>> /\ queued' = <<>> /\ timer' = [n \in Toasts |-> "none"]
  /\ UNCHANGED <<ceiling, made>>

Next ==
  \/ \E max \in Ceilings : notify(max)
  \/ \E n \in 1..made : dismiss(n) \/ TimerFires(n) \/ pause(n) \/ resume(n)
  \/ clearAll

Spec == Init /\ [][Next]_vars

------------------------------------------------------------------------------
(* What is checked *)

\* A toast that is to go by itself has its timer exactly while it is visible, running or
\* paused: none is left on the screen for good and no timer outlives its toast.
TimersMatchVisible ==
  \A n \in Toasts : timer[n] # "none" <=> (n \in ToSet(visible) /\ ~Persistent(n))

\* Toasts never wait behind an empty screen: something is visible whose end lets them in,
\* whatever ceilings the calls had.
QueueIsServed == queued # <<>> => visible # <<>>

------------------------------------------------------------------------------
(***************************************************************************)
(* createTransition of packages/transition, for one element: runs that     *)
(* cancel the one before, the classes each puts on the element, two        *)
(* animation frames, a timer that ends a run whatever the browser does,    *)
(* and callbacks that may call the controller again.                       *)
(***************************************************************************)

CONSTANTS
  MaxRuns,   \* bound: runs
  MaxDepth   \* bound: callbacks inside callbacks

VARIABLES
  runs,       \* the runs so far: direction, phase and whether the timer is armed
  active,     \* the run in activeRuns, or 0
  classes,    \* the classes on the element
  callbacks,  \* the callbacks that are being executed, innermost last
  disposed,
  reentered   \* whether an onBefore callback has called the controller

transitionVars == <<runs, active, classes, callbacks, disposed, reentered>>

Directions == {"enter", "leave"}
Phases == {"before", "first frame", "second frame", "to", "settled"}
Of(d) == {<<d, "from">>, <<d, "active">>, <<d, "to">>}
Name == <<"any", "name">>
Classes == {Name} \cup Of("enter") \cup Of("leave")
Ids == DOMAIN runs
UnderWay == {r \in Ids : runs[r].phase \notin {"before", "settled"}}

TransitionTypeOK ==
  /\ runs \in Seq([direction : Directions, phase : Phases, timer : BOOLEAN]) /\ Len(runs) <= MaxRuns
  /\ active \in 0..Len(runs) /\ classes \subseteq Classes
  /\ callbacks \in Seq([run : Ids, what : {"before", "after"}]) /\ Len(callbacks) <= MaxDepth
  /\ {disposed, reentered} \subseteq BOOLEAN

TransitionInit ==
  /\ runs = <<>> /\ active = 0 /\ classes = {} /\ callbacks = <<>>
  /\ disposed = FALSE /\ reentered = FALSE

Idle == callbacks = <<>>
InBefore == ~Idle /\ callbacks[Len(callbacks)].what = "before"

\* Faulty variant: the timer is left for the end of the second frame to set.
TimerAfterFrames == FALSE

\* The timer is made at once: in a background tab there are no frames.
TimerFromStart == TRUE

Settled(rs, r) == [rs EXCEPT ![r].phase = "settled", ![r].timer = FALSE]

\* finish: the classes of its direction and the name go, whosever they are.
Cleaned(r) == classes \ (Of(runs[r].direction) \cup {Name})

\* Faulty variant: the run before is forgotten, and goes on.
ForgetsActive(new) == runs' = Append(runs, new) /\ active' = 0 /\ UNCHANGED classes

\* The run before is cancelled, without callbacks.
CancelsActive(new) ==
  IF active = 0 THEN runs' = Append(runs, new) /\ UNCHANGED <<active, classes>>
  ELSE runs' = Append(Settled(runs, active), new) /\ active' = 0 /\ classes' = Cleaned(active)

\* enter and leave up to the callback before.
run(direction) ==
  /\ ~disposed /\ Len(runs) < MaxRuns /\ Len(callbacks) < MaxDepth
  /\ CancelsActive([direction |-> direction, phase |-> "before", timer |-> FALSE])
  /\ callbacks' = Append(callbacks, [run |-> Len(runs) + 1, what |-> "before"])
  /\ reentered' = (reentered \/ InBefore)
  /\ UNCHANGED disposed

Top == callbacks[Len(callbacks)]
Return == callbacks' = SubSeq(callbacks, 1, Len(callbacks) - 1)

\* The callback before is over: the run takes its place in activeRuns and on the element,
\* whatever the callback has done.
Begins ==
  /\ InBefore /\ Return /\ active' = Top.run
  /\ runs' = [runs EXCEPT ![Top.run].phase = "first frame", ![Top.run].timer = TimerFromStart]
  /\ classes' = classes \cup {Name, <<runs[Top.run].direction, "from">>, <<runs[Top.run].direction, "active">>}
  /\ UNCHANGED <<disposed, reentered>>

\* With reduced motion the callbacks after follow at once, and nothing is put on the element.
BeginsReduced ==
  /\ InBefore /\ runs' = Settled(runs, Top.run)
  /\ callbacks' = [callbacks EXCEPT ![Len(callbacks)].what = "after"]
  /\ UNCHANGED <<active, classes, disposed, reentered>>

\* onAfterEnter, onAfterLeave and onComplete have returned.
AfterReturns ==
  /\ ~Idle /\ Top.what = "after" /\ Return
  /\ UNCHANGED <<runs, active, classes, disposed, reentered>>

Frame(r) ==
  /\ Idle /\ runs[r].phase \in {"first frame", "second frame"}
  /\ IF runs[r].phase = "first frame"
     THEN runs' = [runs EXCEPT ![r].phase = "second frame"] /\ UNCHANGED classes
     ELSE /\ runs' = [runs EXCEPT ![r].phase = "to", ![r].timer = TRUE]
          /\ classes' = (classes \ {<<runs[r].direction, "from">>}) \cup {<<runs[r].direction, "to">>}
  /\ UNCHANGED <<active, callbacks, disposed, reentered>>

\* The part of finish that cancelled and completed runs share.
Ends(r) == runs' = Settled(runs, r) /\ classes' = Cleaned(r) /\ active' = 0

\* The timer fires, or the browser says that the transition of this element has ended.
Completes(r) ==
  /\ Idle /\ r \in UnderWay /\ Ends(r)
  /\ callbacks' = <<[run |-> r, what |-> "after"]>>
  /\ UNCHANGED <<disposed, reentered>>

\* cancel, of the run's owner or the browser; possible in a callback as well.
cancel(r) ==
  /\ r \in UnderWay /\ Ends(r) /\ reentered' = (reentered \/ InBefore)
  /\ UNCHANGED <<callbacks, disposed>>

dispose ==
  /\ ~disposed /\ disposed' = TRUE /\ reentered' = (reentered \/ InBefore)
  /\ IF active = 0 THEN UNCHANGED <<runs, active, classes>> ELSE Ends(active)
  /\ UNCHANGED callbacks

TransitionNext ==
  \/ \E d \in Directions : run(d)
  \/ Begins \/ BeginsReduced \/ AfterReturns \/ dispose
  \/ \E r \in Ids : Frame(r) \/ Completes(r) \/ cancel(r)

TransitionSpec == TransitionInit /\ [][TransitionNext]_transitionVars

------------------------------------------------------------------------------
(* What is checked *)

\* A run that has begun ends, in a background tab as well: its timer is armed until then.
RunsWillEnd == \A r \in UnderWay : runs[r].timer

\* As long as no callback before a run calls the controller: one run at a time is under
\* way, the controller knows it and none after dispose, and the element wears exactly its
\* classes, nothing when there is none.
OneRunAtATime ==
  ~reentered =>
    /\ UnderWay = IF active = 0 THEN {} ELSE {active}
    /\ disposed => UnderWay = {}
    /\ classes = IF active = 0 THEN {}
                 ELSE LET d == runs[active].direction
                      IN {Name, <<d, "active">>, <<d, IF runs[active].phase = "to" THEN "to" ELSE "from">>}
=============================================================================
