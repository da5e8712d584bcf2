-------------------------- MODULE EventDelegation --------------------------
(***************************************************************************)
(* initEventDelegation: one listener at the root for the capture and one   *)
(* for the bubble phase of each event.  Both look for the nearest element  *)
(* with a binding, keep what they found by the attributes of the element,  *)
(* and run its action at once or through a debounced or throttled wrapper. *)
(* Actions may do anything: set attributes, dispatch events, tear down.    *)
(* Element n + 1 is the parent of element n.                               *)
(* Then the registry the actions come from (packages/actions): one name,   *)
(* its handlers, and its executions behind a chain of middleware.          *)
(***************************************************************************)
EXTENDS Integers, Sequences, FiniteSets

CONSTANTS
  Elements,     \* 1..n, from the innermost outwards
  Templates,    \* lists of attributes an element may be given
  Events,
  MaxEvents, MaxChanges, MaxWrappers, MaxDepth,  \* bounds: dispatches, new attributes, wrappers, nesting
  MaxHandlers, MaxMiddlewares, MaxExecutions     \* bounds of the registry of actions

NoBinding == [ev |-> "none", plain |-> FALSE, mods |-> {}, action |-> "none"]

VARIABLES
  attributes,   \* of each element, in order: [ev, plain, mods, action]
  bindingCache, \* of each element: [signature, byEvent]
  wrappers,     \* made by applyTimingModifiers: [binding, el, armed, hot]
  timed,        \* timedHandlerCache of each element: event and action -> wrapper
  stack,        \* dispatches and timers being handled, the newest last
  listening,
  events, changes

vars == <<attributes, bindingCache, wrappers, timed, stack, listening, events, changes>>

Empty == [x \in {} |-> 0]
Uncached == [signature |-> <<>>, byEvent |-> Empty]
Without(s, i) == SubSeq(s, 1, i - 1) \o SubSeq(s, i + 1, Len(s))
First(S) == CHOOSE i \in S : \A j \in S : i <= j

Init ==
  /\ attributes \in [Elements -> Templates]
  /\ bindingCache = [e \in Elements |-> Uncached] /\ wrappers = <<>>
  /\ timed = [e \in Elements |-> Empty] /\ stack = <<>> /\ listening = TRUE
  /\ events = 0 /\ changes = 0

\* Names and values of the attributes.  Faulty variant: the names only.
SignatureOfNames(as) == [i \in DOMAIN as |-> <<as[i].ev, as[i].plain, as[i].mods>>]
Signature(as) == [i \in DOMAIN as |-> <<as[i].ev, as[i].plain, as[i].mods, as[i].action>>]

\* The first binding of the event for this phase, else the plain form, which means click.
Matches(a, ev, phase) == ~a.plain /\ a.ev = ev /\ ("capture" \in a.mods <=> phase = "capture")
Compute(as, ev, phase) ==
  LET named == {i \in DOMAIN as : Matches(as[i], ev, phase)}
      plain == {i \in DOMAIN as : as[i].plain}
  IN  CASE named # {} -> as[First(named)]
        [] named = {} /\ ev = "click" /\ phase # "capture" /\ plain # {} -> as[First(plain)]
        [] OTHER -> NoBinding

Known(e) == IF bindingCache[e].signature = Signature(attributes[e]) THEN bindingCache[e].byEvent ELSE Empty
FindBinding(e, ev, phase) ==
  IF <<ev, phase>> \in DOMAIN Known(e) THEN Known(e)[<<ev, phase>>] ELSE Compute(attributes[e], ev, phase)

\* The walk from the target to the root ends at the first element with a binding; what was
\* found is kept for every element on the way.
Closest(f) ==
  LET found == {e \in Elements : e >= f.target /\ FindBinding(e, f.ev, f.phase) # NoBinding}
  IN  IF found = {} THEN 0 ELSE First(found)
Remembered(f) ==
  [e \in Elements |->
     IF e >= f.target /\ (Closest(f) # 0 => e <= Closest(f))
     THEN [signature |-> Signature(attributes[e]),
           byEvent |-> [k \in DOMAIN Known(e) \cup {<<f.ev, f.phase>>} |-> FindBinding(e, k[1], k[2])]]
     ELSE bindingCache[e]]

Top == stack[Len(stack)]
Below == SubSeq(stack, 1, Len(stack) - 1)
\* The dispatch goes on with the bubble phase, or is over.
Passed(f) == IF f.phase = "capture" THEN Append(Below, [f EXCEPT !.phase = "bubble", !.run = NoBinding]) ELSE Below
\* invokeAction: the action runs, unless an argument cannot be computed.
Invoked(f, b, e, over) ==
  {Append(Below, [f EXCEPT !.run = b, !.el = e, !.phase = IF over THEN "last" ELSE f.phase]),
   IF over THEN Below ELSE Passed(f)}

Dispatch(ev, e) ==
  /\ events < MaxEvents /\ Len(stack) < MaxDepth
  /\ stack # <<>> => Top.run # NoBinding
  /\ events' = events + 1
  /\ stack' = Append(stack, [ev |-> ev, target |-> e, phase |-> "capture", run |-> NoBinding, el |-> 0])
  /\ UNCHANGED <<attributes, bindingCache, wrappers, timed, listening, changes>>

\* The wrapper of the element for this event and action, made when there is none.
Key(f, b) == <<f.ev, b.action>>
Wrapper(f, b, e) == IF Key(f, b) \in DOMAIN timed[e] THEN timed[e][Key(f, b)] ELSE Len(wrappers) + 1
WithWrapper(f, b, e) ==
  IF Key(f, b) \in DOMAIN timed[e] THEN wrappers
  ELSE Append(wrappers, [binding |-> b, el |-> e, armed |-> FALSE, hot |-> FALSE])

Delayed(f, b, e, over) ==
  LET w == Wrapper(f, b, e)  ws == WithWrapper(f, b, e)
      now == "debounce" \notin ws[w].binding.mods /\ ~ws[w].hot
  IN  /\ Len(ws) <= MaxWrappers
      /\ timed' = [timed EXCEPT ![e] =
            [k \in DOMAIN timed[e] \cup {Key(f, b)} |-> IF k = Key(f, b) THEN w ELSE timed[e][k]]]
      /\ wrappers' = [ws EXCEPT ![w].armed = ~now, ![w].hot = ws[w].hot \/ now]
      /\ stack' \in IF now THEN Invoked(f, ws[w].binding, e, over) ELSE {IF over THEN Below ELSE Passed(f)}

\* delegateEvent, once for each phase that has still a listener.
Deliver ==
  /\ stack # <<>> /\ Top.run = NoBinding
  /\ LET f == Top
         e == Closest(f)
         b == IF e = 0 THEN NoBinding ELSE FindBinding(e, f.ev, f.phase)
         over == "stop" \in b.mods
         ignored == "self" \in b.mods /\ f.target # e
     IN
     IF ~listening
     THEN stack' = Below /\ UNCHANGED <<bindingCache, wrappers, timed>>
     ELSE /\ bindingCache' = Remembered(f)
          /\ IF e # 0 /\ ~ignored /\ b.mods \cap {"debounce", "throttle"} # {} THEN Delayed(f, b, e, over)
             ELSE /\ stack' \in IF e = 0 \/ ignored THEN {Passed(f)} ELSE Invoked(f, b, e, over)
                  /\ UNCHANGED <<wrappers, timed>>
  /\ UNCHANGED <<attributes, listening, events, changes>>

\* Timers are cancelled by way of the elements that have them.  Faulty variant: they are forgotten.
Forgotten(es) == wrappers
Cancelled(es) ==
  [w \in DOMAIN wrappers |->
     IF \E e \in es : \E k \in DOMAIN timed[e] : timed[e][k] = w
      THEN [wrappers[w] EXCEPT !.armed = FALSE] ELSE wrappers[w]]

\* The action has returned or thrown.  With .once its attribute goes, and with it what was kept
\* of the element; the plain form goes when it names the same action.
AfterNamed(as, ev, b) ==
  LET same == {i \in DOMAIN as : ~as[i].plain /\ as[i].ev = ev /\ as[i].action = b.action}
  IN  IF same = {} THEN as ELSE Without(as, First(same))
AfterPlain(as, ev, b) ==
  LET same == {i \in DOMAIN as : as[i].plain /\ as[i].action = b.action}
      bare == {i \in DOMAIN as : ~as[i].plain /\ as[i].ev = "click" /\ as[i].mods = {}}
  IN  IF ev = "click" /\ same # {} /\ bare = {} THEN Without(as, First(same)) ELSE as

Return ==
  /\ stack # <<>> /\ Top.run # NoBinding
  /\ stack' = Passed(Top)
  /\ LET e == Top.el  b == Top.run IN
     IF "once" \notin b.mods THEN UNCHANGED <<attributes, bindingCache, wrappers, timed>>
     ELSE /\ attributes' = [attributes EXCEPT ![e] = AfterPlain(AfterNamed(@, Top.ev, b), Top.ev, b)]
          /\ bindingCache' = [bindingCache EXCEPT ![e] = Uncached]
          /\ wrappers' = Cancelled({e}) /\ timed' = [timed EXCEPT ![e] = Empty]
  /\ UNCHANGED <<listening, events, changes>>

\* The timer of a debounce, or of the end of a throttled burst, fires between events.
TimerFires(w) ==
  /\ stack = <<>> /\ wrappers[w].armed /\ ~wrappers[w].hot
  /\ wrappers' = [wrappers EXCEPT ![w].armed = FALSE, ![w].hot = "debounce" \notin wrappers[w].binding.mods]
  /\ LET b == wrappers[w].binding  e == wrappers[w].el IN
       stack' \in {<<[ev |-> b.ev, target |-> e, phase |-> "last", run |-> b, el |-> e]>>, <<>>}
  /\ UNCHANGED <<attributes, bindingCache, timed, listening, events, changes>>
TimePasses(w) ==
  /\ wrappers[w].hot /\ wrappers' = [wrappers EXCEPT ![w].hot = FALSE]
  /\ UNCHANGED <<attributes, bindingCache, timed, stack, listening, events, changes>>

SetAttributes(e, as) ==
  /\ changes < MaxChanges /\ as # attributes[e]
  /\ stack # <<>> => Top.run # NoBinding
  /\ attributes' = [attributes EXCEPT ![e] = as] /\ changes' = changes + 1
  /\ UNCHANGED <<bindingCache, wrappers, timed, stack, listening, events>>

teardown ==
  /\ listening /\ listening' = FALSE
  /\ stack # <<>> => Top.run # NoBinding
  /\ wrappers' = Cancelled(Elements) /\ timed' = [e \in Elements |-> Empty]
  /\ UNCHANGED <<attributes, bindingCache, stack, events, changes>>

Next ==
  \/ \E ev \in Events, e \in Elements : Dispatch(ev, e)
  \/ Deliver \/ Return \/ teardown
  \/ \E w \in DOMAIN wrappers : TimerFires(w) \/ TimePasses(w)
  \/ \E e \in Elements, as \in Templates : SetAttributes(e, as)

Spec == Init /\ [][Next]_vars

------------------------------------------------------------------------------
\* The variables keep their types.
TypeOK ==
  /\ listening \in BOOLEAN /\ events \in 0..MaxEvents /\ changes \in 0..MaxChanges
  /\ Len(wrappers) <= MaxWrappers /\ Len(stack) <= MaxDepth
  /\ \A e \in Elements : \A k \in DOMAIN timed[e] : timed[e][k] \in DOMAIN wrappers

\* What is kept of an element whose attributes are those it was kept for is what its
\* attributes say now, for every event and phase.
CacheFollowsAttributes ==
  \A e \in Elements : \A k \in DOMAIN Known(e) : Known(e)[k] = Compute(attributes[e], k[1], k[2])

\* Every timer that may still run an action can be found and cancelled: through its element
\* while there are listeners, and there is none afterwards, whatever an action did meanwhile.
TimersCanBeCancelled ==
  \A w \in DOMAIN wrappers : wrappers[w].armed =>
    listening /\ \E k \in DOMAIN timed[wrappers[w].el] : timed[wrappers[w].el][k] = w

------------------------------------------------------------------------------
(* ActionRegistry *)

VARIABLES
  entry,         \* the handler registered under the name: 0, or which one
  handlers,      \* of each handler that was registered: whether its cleanup has run
  cleared,       \* how many of them came before the last clear, unregister or dispose
  middlewares,   \* a sequence of middleware
  executions,    \* calls of execute that found a handler
  unusable       \* disposed

actionVars == <<entry, handlers, cleared, middlewares, executions, unusable>>

ActionInit ==
  /\ entry = 0 /\ handlers = <<>> /\ cleared = 0 /\ middlewares = <<>> /\ executions = <<>>
  /\ unusable = FALSE

\* registerAction, which overrides.
registerAction ==
  /\ Len(handlers) < MaxHandlers
  /\ handlers' = Append(handlers, FALSE) /\ entry' = Len(handlers')
  /\ UNCHANGED <<cleared, middlewares, executions, unusable>>

\* Faulty variant: whatever is registered under the name goes.
WithoutName(h) == 0

\* The name keeps a handler that came later.
WithoutHandler(h) == IF entry = h THEN 0 ELSE entry

\* The cleanup that registerAction returned.
Cleanup(h) ==
  /\ ~handlers[h] /\ handlers' = [handlers EXCEPT ![h] = TRUE] /\ entry' = WithoutHandler(h)
  /\ UNCHANGED <<cleared, middlewares, executions, unusable>>

unregister ==
  /\ entry # 0 /\ entry' = 0 /\ cleared' = Len(handlers)
  /\ UNCHANGED <<handlers, middlewares, executions, unusable>>

use ==
  /\ Len(middlewares) < MaxMiddlewares /\ middlewares' = Append(middlewares, Len(middlewares) + 1)
  /\ UNCHANGED <<entry, handlers, cleared, executions, unusable>>

\* clear, and dispose, after which nothing is executed; actions are registered still.
clear(forGood) ==
  /\ entry' = 0 /\ middlewares' = <<>> /\ cleared' = Len(handlers) /\ unusable' = (unusable \/ forGood)
  /\ UNCHANGED <<handlers, executions>>

\* runTarget: the handler there is now, or the one the execution began with.
Target(x) == IF entry # 0 THEN entry ELSE x.initial

\* Faulty variant: the chain is the list of middleware as it is at the time.
ChainNow(x) == middlewares
ChainOf(x) == x.chain

\* dispatch: the middleware at index is entered, or there is none left and the handler runs.
Dispatched(x, index) ==
  IF index > Len(ChainOf(x)) THEN [x EXCEPT !.ran = Append(@, Target(x))]
  ELSE [x EXCEPT !.entered = @ \cup {index}]

execute ==
  /\ ~unusable /\ entry # 0 /\ Len(executions) < MaxExecutions
  /\ LET x == [initial |-> entry, chain |-> middlewares, entered |-> {}, passed |-> {}, ran |-> <<>>]
     IN executions' = Append(executions, Dispatched(x, 1))
  /\ UNCHANGED <<entry, handlers, cleared, middlewares, unusable>>

\* Faulty variant: next does not know that it was called.
MayPassAgain(x, index) == TRUE
MayPass(x, index) == index \notin x.passed

\* A middleware calls next, at once or when what it awaited has come; another call throws.
nextOf(c, index) ==
  LET x == executions[c]
  IN /\ index \in x.entered /\ Len(x.ran) < 2
     /\ IF MayPass(x, index)
        THEN executions' = [executions EXCEPT ![c] = Dispatched([x EXCEPT !.passed = @ \cup {index}], index + 1)]
        ELSE UNCHANGED executions
     /\ UNCHANGED <<entry, handlers, cleared, middlewares, unusable>>

ActionNext ==
  \/ registerAction \/ unregister \/ execute \/ use
  \/ \E h \in DOMAIN handlers : Cleanup(h)
  \/ \E forGood \in BOOLEAN : clear(forGood)
  \/ \E c \in DOMAIN executions : \E index \in executions[c].entered : nextOf(c, index)

ActionTypeOK ==
  /\ entry \in 0..Len(handlers) /\ handlers \in Seq(BOOLEAN) /\ cleared \in 0..Len(handlers)
  /\ middlewares \in Seq(1..MaxMiddlewares) /\ unusable \in BOOLEAN
  /\ \A c \in DOMAIN executions :
       /\ executions[c].initial \in DOMAIN handlers /\ executions[c].passed \subseteq executions[c].entered
       /\ executions[c].entered \subseteq 1..MaxMiddlewares /\ executions[c].ran \in Seq(DOMAIN handlers)

\* An action runs at most once per execution, and only when every middleware there was at the
\* start has let it pass, however the list changed and however often next was called.
RunsOnceBehindItsChain ==
  \A c \in DOMAIN executions :
    LET x == executions[c]
    IN Len(x.ran) <= 1 /\ (x.ran # <<>> => x.passed = DOMAIN x.chain)

\* The newest handler stays registered until its own cleanup, however late the cleanups of
\* those it overrode are run.
NewestHandlerCounts ==
  \/ handlers = <<>> \/ cleared = Len(handlers) \/ handlers[Len(handlers)]
  \/ entry = Len(handlers)
=============================================================================
