------------------------------ MODULE Controls ------------------------------
(***************************************************************************)
(* Elements a user acts on, in two parts with a state and a specification  *)
(* each: buttons (Spec) and the input of zen-persist (InputSpec).          *)
(*                                                                         *)
(* The elements that run an action of the registry themselves when they    *)
(* are clicked: zen-button and zen-optimistic of packages/runtime, and     *)
(* zen-action-button of packages/stateful.  One behaviour follows one of   *)
(* them; the action answers, fails or hangs, and the element is taken down *)
(* and bound again at any time.                                            *)
(***************************************************************************)
EXTENDS Integers, FiniteSets, Sequences

CONSTANTS
  MaxRuns,     \* bound: calls of the action
  MaxBindings  \* bound: bindings of the element

Controls == {"zen-button", "zen-action-button", "zen-optimistic"}

VARIABLES
  control,
  runs,        \* the calls of the action: [of, is], the binding and how it stands
  shown,       \* the state of a zen-button
  resetTimer,  \* the timer that takes a zen-button back to idle is set
  loading,     \* isLoading of a zen-action-button, or "none" when it is not bound
  applied,     \* optimistic updates in the state
  binding,     \* the bindings there were
  attached,    \* the newest is there
  crossed      \* it began while a call of an earlier one was under way

vars == <<control, runs, shown, resetTimer, loading, applied, binding, attached, crossed>>

TypeOK ==
  /\ control \in Controls /\ Len(runs) <= MaxRuns /\ binding \in 1..MaxBindings /\ {attached, crossed} \subseteq BOOLEAN
  /\ \A i \in 1..Len(runs) :
       /\ runs[i].of \in 1..binding
       /\ runs[i].is \in {"running", "ended", "undone", "timed out", "late"}
  /\ shown \in {"idle", "loading", "success", "error"} /\ resetTimer \in BOOLEAN
  /\ loading \in {"yes", "no", "none"} /\ applied \in 0..MaxRuns

Init ==
  /\ control \in Controls /\ runs = <<>> /\ shown = "idle" /\ resetTimer = FALSE
  /\ loading = "no" /\ applied = 0 /\ binding = 1 /\ attached = TRUE /\ crossed = FALSE

Calls == Len(runs) < MaxRuns /\ runs' = Append(runs, [of |-> binding, is |-> "running"])
Running == {i \in 1..Len(runs) : runs[i].is = "running"}
Becomes(i, is) == runs' = [runs EXCEPT ![i].is = is]

(* zen-button: idle, loading, success or error, and after a while idle again *)

ClickButton ==
  /\ control = "zen-button" /\ attached /\ shown # "loading"
  /\ \/ Calls /\ shown' = "loading" /\ UNCHANGED resetTimer
     \/ shown' = "error" /\ resetTimer' = TRUE /\ UNCHANGED runs   \* no such action
  /\ UNCHANGED <<control, loading, applied, binding, attached, crossed>>

\* Faulty variant: an error stays until the next click.
ResetAfterSuccess(ok) == resetTimer' = ok

\* Whatever the result, the button shows it for a while.
ResetAfter(ok) == resetTimer' = TRUE

ButtonEnds(i, ok) ==
  /\ control = "zen-button" /\ i \in Running
  /\ Becomes(i, "ended") /\ shown' = (IF ok THEN "success" ELSE "error") /\ ResetAfter(ok)
  /\ UNCHANGED <<control, loading, applied, binding, attached, crossed>>

\* The timer does not know what the button shows by now.
ResetFires ==
  /\ resetTimer /\ resetTimer' = FALSE /\ shown' = "idle"
  /\ UNCHANGED <<control, runs, loading, applied, binding, attached, crossed>>

(* zen-action-button: a flag kept by element *)

\* Faulty variant: a click counts while the action runs.
MayRunWhenBound(of) == of = binding

\* A click while the action runs is ignored.
MayRun(of) == of = binding /\ loading = "no"

runAction ==
  /\ control = "zen-action-button" /\ attached /\ MayRun(binding)
  /\ Calls /\ loading' = "yes"
  /\ UNCHANGED <<control, shown, resetTimer, applied, binding, attached, crossed>>

\* The end of a call finds the flag of the element as it is bound by now.
ActionEnds(i) ==
  /\ control = "zen-action-button" /\ i \in Running /\ Becomes(i, "ended")
  /\ loading' = (IF loading = "none" THEN "none" ELSE "no")
  /\ UNCHANGED <<control, shown, resetTimer, applied, binding, attached, crossed>>

(* zen-optimistic: the update first, and a race of the action against ten seconds *)

ClickOptimistic ==
  /\ control = "zen-optimistic" /\ attached
  /\ \/ Calls /\ applied' = applied + 1
     \/ UNCHANGED <<runs, applied>>   \* no such action: updated and rolled back
  /\ UNCHANGED <<control, shown, resetTimer, loading, binding, attached, crossed>>

\* Faulty variant: the timer rolls back by itself and is not cleared when the action has ended.
StillRaces(i) == runs[i].is \in {"running", "ended"}

\* Of a race only the first to come counts.
Races(i) == runs[i].is = "running"

OptimisticAnswered(i, ok) ==
  /\ control = "zen-optimistic" /\ i \in 1..Len(runs)
  /\ \/ /\ runs[i].is = "running" /\ Becomes(i, IF ok THEN "ended" ELSE "undone")
        /\ applied' = applied - (IF ok THEN 0 ELSE 1)
     \/ runs[i].is = "timed out" /\ Becomes(i, "late") /\ UNCHANGED applied
  /\ UNCHANGED <<control, shown, resetTimer, loading, binding, attached, crossed>>

TimesOut(i) ==
  /\ control = "zen-optimistic" /\ i \in 1..Len(runs) /\ Races(i)
  /\ Becomes(i, IF i \in Running THEN "timed out" ELSE runs[i].is) /\ applied' = applied - 1
  /\ UNCHANGED <<control, shown, resetTimer, loading, binding, attached, crossed>>

(* All three *)

Dispose ==
  /\ attached /\ attached' = FALSE /\ resetTimer' = FALSE /\ loading' = "none"
  /\ UNCHANGED <<control, runs, shown, applied, binding, crossed>>

\* A zen-button is replaced by a new element, the others are bound as they are.
BindAgain ==
  /\ ~attached /\ control # "zen-button" /\ binding < MaxBindings
  /\ binding' = binding + 1 /\ attached' = TRUE /\ loading' = "no"
  /\ crossed' = (crossed \/ Running # {})
  /\ UNCHANGED <<control, runs, shown, resetTimer, applied>>

Next ==
  \/ ClickButton \/ runAction \/ ClickOptimistic \/ ResetFires \/ Dispose \/ BindAgain
  \/ \E i \in 1..Len(runs) :
       \/ ActionEnds(i) \/ TimesOut(i)
       \/ \E ok \in BOOLEAN : ButtonEnds(i, ok) \/ OptimisticAnswered(i, ok)

Spec == Init /\ [][Next]_vars

------------------------------------------------------------------------------
(* What is checked *)

\* A button says that it is loading only while an action runs, and when none runs it will say
\* idle again, even if the timer of an earlier result came between.
ButtonsComeBack ==
  control = "zen-button" =>
    /\ shown = "loading" => Running # {}
    /\ attached /\ Running = {} /\ ~resetTimer => shown = "idle"

\* An action button runs its action once at a time and is loading just then, unless a
\* call of an earlier binding of its element was under way when it was bound.
OneRunAtATime ==
  control = "zen-action-button" /\ attached /\ ~crossed =>
    /\ Cardinality(Running) <= 1
    /\ loading = "yes" <=> Running # {}

\* An optimistic update is there as long as its action runs and once it has succeeded in time, and
\* one that failed or timed out was taken back once.
UpdatesFollowOutcomes ==
  control = "zen-optimistic" =>
    applied = Cardinality({i \in 1..Len(runs) : runs[i].is \in {"running", "ended"}})

------------------------------------------------------------------------------
(***************************************************************************)
(* Second part, with a state of its own: the directive zen-persist of      *)
(* packages/runtime: what is typed into an input is stored a while later,  *)
(* what another tab stores comes back, and a binding starts with what is   *)
(* stored.                                                                 *)
(***************************************************************************)

CONSTANTS
  Values,     \* what is typed; the input is empty at first
  MaxTyped,   \* bound: input events
  MaxNotices  \* bound: writes of the other tab

VARIABLES
  signal,         \* the value of the model
  stored,         \* what the storage has, or Nothing
  pending,        \* what the timer will store
  timer,          \* it is set
  notices,        \* the other tab's writes that this tab has not heard of
  inputAttached,  \* the directive is bound
  debounced,      \* to an element whose values are stored a while later
  typed,          \* the input events
  written,        \* the other tab's writes
  inputCrossed    \* a write of the other tab met one of this tab

inputVars ==
  <<signal, stored, pending, timer, notices, inputAttached, debounced, typed, written, inputCrossed>>

Nothing == 0

InputTypeOK ==
  /\ {signal, stored, pending} \subseteq Values \cup {Nothing}
  /\ {timer, inputAttached, debounced, inputCrossed} \subseteq BOOLEAN
  /\ Len(notices) <= MaxNotices /\ \A i \in 1..Len(notices) : notices[i] \in Values
  /\ typed \in 0..MaxTyped /\ written \in 0..MaxNotices

InputInit ==
  /\ signal = Nothing /\ stored = Nothing /\ pending = Nothing /\ timer = FALSE /\ notices = <<>>
  /\ inputAttached = FALSE /\ debounced = FALSE /\ typed = 0 /\ written = 0 /\ inputCrossed = FALSE

processPersist ==
  /\ ~inputAttached /\ inputAttached' = TRUE /\ timer' = FALSE /\ inputCrossed' = FALSE /\ debounced' \in BOOLEAN
  /\ signal' = (IF stored = Nothing THEN signal ELSE stored)
  /\ UNCHANGED <<stored, pending, notices, typed, written>>

\* Faulty variant: the value is that of the first event.
FirstPending(v) == IF timer THEN pending ELSE v

\* The value is that of the newest event.
Pending(v) == v

\* The timer is that of the first event, however many follow.
onEvent(v) ==
  /\ inputAttached /\ typed < MaxTyped /\ typed' = typed + 1
  /\ signal' = v /\ pending' = Pending(v) /\ inputCrossed' = FALSE
  /\ IF debounced THEN timer' = TRUE /\ UNCHANGED stored
     ELSE UNCHANGED timer /\ stored' = v
  /\ UNCHANGED <<notices, inputAttached, debounced, written>>

flush ==
  /\ timer /\ timer' = FALSE /\ stored' = pending
  /\ UNCHANGED <<signal, pending, notices, inputAttached, debounced, typed, written, inputCrossed>>

OtherTabWrites(v) ==
  /\ written < MaxNotices /\ written' = written + 1
  /\ stored' = v /\ notices' = Append(notices, v)
  /\ UNCHANGED <<signal, pending, timer, inputAttached, debounced, typed, inputCrossed>>

\* The notice is shown, also when this tab's own value waits to be stored or was stored since.
NoticeArrives ==
  /\ notices # <<>> /\ notices' = Tail(notices)
  /\ signal' = (IF inputAttached THEN Head(notices) ELSE signal)
  /\ inputCrossed' = (inputCrossed \/ timer \/ stored # Head(notices))
  /\ UNCHANGED <<stored, pending, timer, inputAttached, debounced, typed, written>>

\* What waits to be stored is dropped.
DisposeInput ==
  /\ inputAttached /\ inputAttached' = FALSE /\ timer' = FALSE
  /\ UNCHANGED <<signal, stored, pending, notices, debounced, typed, written, inputCrossed>>

InputNext ==
  \/ processPersist \/ flush \/ NoticeArrives \/ DisposeInput
  \/ \E v \in Values : onEvent(v) \/ OtherTabWrites(v)

InputSpec == InputInit /\ [][InputNext]_inputVars

------------------------------------------------------------------------------
(* What is checked *)

\* When nothing waits to be stored or heard of, the input shows what is stored, unless writes of
\* the two tabs met: then each tab keeps what the other one wrote.
InputShowsStored ==
  inputAttached /\ ~timer /\ notices = <<>> /\ ~inputCrossed /\ stored # Nothing => signal = stored
=============================================================================
