------------------------------ MODULE Reactive ------------------------------
(***************************************************************************)
(* packages/state/src: signals, computeds, effects and the owner tree, the *)
(* code of signal.ts, computed.ts, effect.ts, context.ts and root.ts.      *)
(*                                                                         *)
(* Everything runs on one JavaScript stack.  The bodies of effects and of  *)
(* createRoot and untrack are user code, so the model lets a body that is  *)
(* on top of the stack make any call in any order, and return or throw at  *)
(* any point.  The computation of a computed is pure: it reads Source[c],  *)
(* and its value is that of its source.                                    *)
(*                                                                         *)
(* The scheduler is that of module Scheduler with one priority: a queue    *)
(* without duplicates, flushed in rounds.  The order of a round and of the *)
(* subscribers of a signal is left open, and its runaway guard is left out *)
(* (what it discards is not run, so freshness is promised without it).     *)
(***************************************************************************)
EXTENDS Naturals, Sequences, FiniteSets

CONSTANTS Signals, Computeds, Effects, Roots, Hooks,
          Source,      \* the signal each computed reads
          Values,      \* values of signals
          InitialValue,
          Devtools,    \* isDevtoolsEnabled(): a new signal is read by the registry
          Untracking,  \* does user code call untrack
          MaxStack,    \* bound: nesting of bodies
          None

ASSUME ReactiveAssumption ==
  /\ Source \in [Computeds -> Signals]
  /\ InitialValue \in Values
  /\ Devtools \in BOOLEAN /\ Untracking \in BOOLEAN
  /\ MaxStack \in Nat
  \* The kinds of objects are different from each other, and from null.
  /\ Computeds \cap (Signals \cup Effects) = {}
  /\ Roots \cap (Effects \cup Computeds) = {}
  /\ \A c \in Computeds : <<"inner", c>> \notin Effects \cup Roots \cup Computeds
  /\ None \notin Values \cup Effects \cup Roots \cup Computeds
  /\ \A c \in Computeds : None # <<"inner", c>>

\* A computed has an inner signal and an inner effect, both named after it,
\* and two owners: its own and, below it, that of the inner effect.
Nodes == Signals \cup Computeds
Runners == Effects \cup Computeds
Inner(c) == <<"inner", c>>
Owners == Effects \cup Roots \cup Computeds \cup {Inner(c) : c \in Computeds}
OwnerOf(r) == IF r \in Computeds THEN Inner(r) ELSE r

VARIABLES
  val,          \* _value of every signal
  subs,         \* _subscribers
  cleanups,     \* cleanupQueue: the signals each effect will unsubscribe from
  parent,       \* the owner tree
  disposed,     \* disposed owners
  hooks,        \* functions registered with onCleanup, by owner
  ran,          \* those that have run
  currentOwner, active, registration,  \* the reactive context
  created,      \* effects, computeds and roots constructed so far
  initialized,  \* computeds that were read
  handles,      \* the dispose functions user code holds, of effects and roots
  outer,        \* prevOwner, the owner each root was created under
  queue,        \* scheduled effects
  stack,        \* the JavaScript stack: bodies and flushes
  seen          \* what each effect read, while it was tracked, since its latest start

context == <<currentOwner, active, registration>>
tree == <<parent, disposed, hooks, ran>>
status == <<created, initialized, handles, outer>>
vars == <<val, subs, cleanups, tree, context, status, queue, stack, seen>>

Unread == [n \in Nodes |-> None]

Init ==
  /\ val = [n \in Nodes |-> InitialValue]
  /\ subs = [n \in Nodes |-> {}]
  /\ cleanups = [r \in Runners |-> {}]
  /\ parent = [o \in Owners |-> None] /\ disposed = {}
  /\ hooks = [o \in Owners |-> {}] /\ ran = {}
  /\ currentOwner = None /\ active = None /\ registration = None
  /\ created = {} /\ initialized = {} /\ handles = {}
  /\ outer = [r \in Roots |-> None]
  /\ queue = {} /\ stack = <<>>
  /\ seen = [e \in Effects |-> Unread]
-----------------------------------------------------------------------------
Frame(kind, who) == [kind |-> kind, who |-> who, prev |-> None, first |-> FALSE, round |-> {}]

Top == stack[Len(stack)]
Under == SubSeq(stack, 1, Len(stack) - 1)
TopIs(kind) == stack # <<>> /\ Top.kind = kind
UserCode == ~TopIs("flush")
RoomFor(n) == Len(stack) + n <= MaxStack
Bodies == {stack[i].who : i \in {j \in DOMAIN stack : stack[j].kind = "body"}}
Flushing == \E i \in DOMAIN stack : stack[i].kind = "flush"
Rounds == UNION {stack[i].round : i \in DOMAIN stack}

\* Faulty variant: an owner is disposed without its children.
Below_Itself(o) == {o}

\* disposeOwner: o and what is below it, the least set that has o and the
\* children of its members.  The cleanup of an effect's owner
\* unsubscribes the effect.
Below(o) ==
  {x \in Owners : \A S \in SUBSET Owners :
     o \in S /\ (\A y \in Owners : parent[y] \in S => y \in S) => x \in S}

\* Faulty variant: what onCleanup registered below the owner is forgotten.
DisposeOwner_OwnHooks(o) ==
  LET gone == IF o \in disposed THEN {} ELSE Below(o)
      stopped == {r \in Runners : OwnerOf(r) \in gone}
  IN /\ disposed' = disposed \cup gone
     /\ parent' = [x \in Owners |-> IF x \in gone THEN None ELSE parent[x]]
     /\ subs' = [n \in Nodes |-> {r \in subs[n] : ~(r \in stopped /\ n \in cleanups[r])}]
     /\ cleanups' = [r \in Runners |-> IF r \in stopped THEN {} ELSE cleanups[r]]
     /\ ran' = IF o \in disposed THEN ran ELSE ran \cup hooks[o]
     /\ hooks' = [x \in Owners |-> IF x \in gone THEN {} ELSE hooks[x]]

DisposeOwner(o) ==
  LET gone == IF o \in disposed THEN {} ELSE Below(o)
      stopped == {r \in Runners : OwnerOf(r) \in gone}
  IN /\ disposed' = disposed \cup gone
     /\ parent' = [x \in Owners |-> IF x \in gone THEN None ELSE parent[x]]
     /\ subs' = [n \in Nodes |-> {r \in subs[n] : ~(r \in stopped /\ n \in cleanups[r])}]
     /\ cleanups' = [r \in Runners |-> IF r \in stopped THEN {} ELSE cleanups[r]]
     /\ ran' = ran \cup UNION {hooks[x] : x \in gone}
     /\ hooks' = [x \in Owners |-> IF x \in gone THEN {} ELSE hooks[x]]

\* runEffect up to the call of the body.
StartBody(e, below, isFirst) ==
  /\ subs' = [n \in Nodes |-> IF n \in cleanups[e] THEN subs[n] \ {e} ELSE subs[n]]
  /\ cleanups' = [cleanups EXCEPT ![e] = {}]
  /\ currentOwner' = e /\ active' = e /\ registration' = e
  /\ seen' = [seen EXCEPT ![e] = Unread]
  /\ stack' = Append(below, [Frame("body", e) EXCEPT !.first = isFirst])

\* Faulty variant: the cleanup of a subscription is not registered.
Track_NoCleanup(ns) ==
  /\ subs' = [n \in Nodes |-> IF n \in ns /\ active # None THEN subs[n] \cup {active} ELSE subs[n]]
  /\ seen' = IF active = None THEN seen
             ELSE [seen EXCEPT ![active] = [n \in Nodes |-> IF n \in ns THEN val[n] ELSE @[n]]]
  /\ UNCHANGED cleanups

\* Reading the nodes ns subscribes the active effect and registers the cleanup
\* with whoever collects cleanups.
Track(ns) ==
  /\ subs' = [n \in Nodes |-> IF n \in ns /\ active # None THEN subs[n] \cup {active} ELSE subs[n]]
  /\ seen' = IF active = None THEN seen
             ELSE [seen EXCEPT ![active] = [n \in Nodes |-> IF n \in ns THEN val[n] ELSE @[n]]]
  /\ cleanups' = IF active = None \/ registration = None THEN cleanups
                 ELSE [cleanups EXCEPT ![registration] = @ \cup ns]
-----------------------------------------------------------------------------
(* Calls of user code. *)

Get(n) ==
  /\ UserCode
  /\ n \in Signals \cup initialized
  /\ Track({n})
  /\ UNCHANGED <<val, tree, context, status, queue, stack>>

\* The first get of a computed: run the computation under the caller's context,
\* create the inner signal, run the inner effect for the first time, and only
\* then read the inner signal, in the context the inner effect left behind.
GetUninitialized(c) ==
  /\ UserCode
  /\ c \in created \ initialized
  /\ LET v == val[Source[c]]
         read == {Source[c]} \cup (IF Devtools THEN {c} ELSE {})
         readers == IF active = None THEN {} ELSE {active}
     IN /\ val' = [val EXCEPT ![c] = v]
        /\ subs' = [n \in Nodes |->
                      CASE n = Source[c] -> subs[n] \cup readers \cup {c}
                        [] n = c -> IF Devtools THEN readers ELSE {}
                        [] OTHER -> subs[n]]
        /\ cleanups' = [r \in Runners |->
                          CASE r = c -> {Source[c]}
                            [] r # c /\ r = registration /\ active # None -> cleanups[r] \cup read
                            [] OTHER -> cleanups[r]]
        /\ parent' = [parent EXCEPT ![Inner(c)] = c]
        /\ currentOwner' = Inner(c) /\ active' = None /\ registration' = None
        /\ initialized' = initialized \cup {c}
        /\ seen' = IF active = None THEN seen
                   ELSE [seen EXCEPT ![active] = [n \in Nodes |-> IF n \in read THEN v ELSE @[n]]]
  /\ UNCHANGED <<disposed, hooks, ran, created, handles, outer, queue, stack>>

\* Faulty variant: the inner effects of computeds are not scheduled.
Notify_UserEffects(n) == queue' = queue \cup (subs[n] \cap Effects)

\* Faulty variant: an effect that sets what it has read is not scheduled again.
Notify_NotRunning(n) == queue' = queue \cup (subs[n] \ (IF TopIs("body") THEN {Top.who} ELSE {}))

Notify(n) == queue' = queue \cup subs[n]

\* set, and update with a function that returns v.
Set(n, v) ==
  /\ UserCode
  /\ val[n] # v
  /\ val' = [val EXCEPT ![n] = v]
  /\ Notify(n)
  /\ UNCHANGED <<subs, cleanups, tree, context, status, stack, seen>>

DisposeSignal(n) ==
  /\ UserCode
  /\ subs[n] # {}
  /\ subs' = [subs EXCEPT ![n] = {}]
  /\ UNCHANGED <<val, cleanups, tree, context, status, queue, stack, seen>>

\* effect(fn): a new owner below the current one, which it replaces, and the
\* first run.
CreateEffect(e) ==
  /\ UserCode /\ RoomFor(1)
  /\ e \notin created
  /\ created' = created \cup {e}
  /\ parent' = [parent EXCEPT ![e] = currentOwner]
  /\ StartBody(e, stack, TRUE)
  /\ UNCHANGED <<val, disposed, hooks, ran, initialized, handles, outer, queue>>

CreateComputed(c) ==
  /\ UserCode
  /\ c \notin created
  /\ created' = created \cup {c}
  /\ parent' = [parent EXCEPT ![c] = currentOwner]
  /\ UNCHANGED <<val, subs, cleanups, disposed, hooks, ran, context, initialized, handles, outer,
                 queue, stack, seen>>

\* The function effect() returned.
DisposeEffect(e) ==
  /\ UserCode
  /\ e \in handles /\ e \notin disposed
  /\ DisposeOwner(e)
  /\ currentOwner' = None
  /\ UNCHANGED <<val, active, registration, status, queue, stack, seen>>

CreateRoot(r) ==
  /\ UserCode /\ RoomFor(1)
  /\ r \notin created
  /\ created' = created \cup {r}
  /\ handles' = handles \cup {r}
  /\ outer' = [outer EXCEPT ![r] = currentOwner]
  /\ parent' = [parent EXCEPT ![r] = currentOwner]
  /\ currentOwner' = r
  /\ stack' = Append(stack, Frame("root", r))
  /\ UNCHANGED <<val, subs, cleanups, disposed, hooks, ran, active, registration,
                 initialized, queue, seen>>

\* The dispose function of a root, inside its function or later.  It can be
\* called once, which is not the same as the root being alive.
DisposeRoot(r) ==
  /\ UserCode
  /\ r \in handles
  /\ handles' = handles \ {r}
  /\ DisposeOwner(r)
  /\ currentOwner' = outer[r]
  /\ UNCHANGED <<val, active, registration, created, initialized, outer, queue, stack, seen>>

RootEnds ==
  /\ TopIs("root")
  /\ currentOwner' = outer[Top.who]
  /\ stack' = Under
  /\ UNCHANGED <<val, subs, cleanups, tree, active, registration, status, queue, seen>>

RootThrows ==
  /\ TopIs("root")
  /\ \/ Top.who \in handles /\ DisposeOwner(Top.who) /\ currentOwner' = outer[Top.who]
     \/ Top.who \notin handles /\ UNCHANGED <<subs, cleanups, tree, currentOwner>>
  /\ handles' = handles \ {Top.who}
  /\ stack' = Under
  /\ UNCHANGED <<val, active, registration, created, initialized, outer, queue, seen>>

Untrack ==
  /\ Untracking /\ UserCode /\ RoomFor(1)
  /\ stack' = Append(stack, [Frame("untrack", None) EXCEPT !.prev = active])
  /\ active' = None
  /\ UNCHANGED <<val, subs, cleanups, tree, currentOwner, registration, status, queue, seen>>

\* Return or throw: the finally block is the same.
UntrackEnds ==
  /\ TopIs("untrack")
  /\ active' = Top.prev
  /\ stack' = Under
  /\ UNCHANGED <<val, subs, cleanups, tree, currentOwner, registration, status, queue, seen>>

OnCleanup(h) ==
  /\ UserCode
  /\ h \notin ran /\ \A o \in Owners : h \notin hooks[o]
  /\ currentOwner # None
  /\ hooks' = [hooks EXCEPT ![currentOwner] = @ \cup {h}]
  /\ UNCHANGED <<val, subs, cleanups, parent, disposed, ran, context, status, queue, stack, seen>>
-----------------------------------------------------------------------------
(* The end of a body, and the flush. *)

\* Faulty variant: without the finally block the context survives the body.
Leave_KeepsContext == UNCHANGED <<active, registration>> /\ stack' = Under

\* The finally block of runEffect.
Leave ==
  /\ active' = None /\ registration' = None
  /\ stack' = Under

BodyReturns ==
  /\ TopIs("body")
  /\ Leave
  /\ handles' = IF Top.first THEN handles \cup {Top.who} ELSE handles
  /\ UNCHANGED <<val, subs, cleanups, tree, currentOwner, created, initialized, outer, queue, seen>>

\* The cleanups collected so far run.  With a global error handler the error
\* ends here; without it the first run rethrows it to the caller of effect(),
\* which never gets the dispose function.
BodyThrows(handled) ==
  /\ TopIs("body")
  /\ Leave
  /\ LET e == Top.who IN
     /\ subs' = [n \in Nodes |-> IF n \in cleanups[e] THEN subs[n] \ {e} ELSE subs[n]]
     /\ cleanups' = [cleanups EXCEPT ![e] = {}]
     /\ handles' = IF Top.first /\ handled THEN handles \cup {e} ELSE handles
  /\ UNCHANGED <<val, tree, currentOwner, created, initialized, outer, queue, seen>>

\* The promise job, or flushSync.
BeginFlush ==
  /\ UserCode /\ RoomFor(1)
  /\ queue # {} /\ ~Flushing
  /\ stack' = Append(stack, Frame("flush", None))
  /\ UNCHANGED <<val, subs, cleanups, tree, context, status, queue, seen>>

IsLive(r) == OwnerOf(r) \notin disposed

NextRound ==
  /\ TopIs("flush") /\ Top.round = {} /\ \E r \in queue : IsLive(r)
  /\ stack' = Append(Under, [Top EXCEPT !.round = {r \in queue : IsLive(r)}])
  /\ queue' = {}
  /\ UNCHANGED <<val, subs, cleanups, tree, context, status, seen>>

EndFlush ==
  /\ TopIs("flush") /\ Top.round = {} /\ \A r \in queue : ~IsLive(r)
  /\ stack' = Under
  /\ queue' = {}
  /\ UNCHANGED <<val, subs, cleanups, tree, context, status, seen>>

Rest(r) == Append(Under, [Top EXCEPT !.round = @ \ {r}])

SkipDisposed(r) ==
  /\ TopIs("flush") /\ r \in Top.round /\ ~IsLive(r)
  /\ stack' = Rest(r)
  /\ UNCHANGED <<val, subs, cleanups, tree, context, status, queue, seen>>

RunEffect(e) ==
  /\ RoomFor(1)
  /\ TopIs("flush") /\ e \in Top.round /\ IsLive(e)
  /\ StartBody(e, Rest(e), FALSE)
  /\ UNCHANGED <<val, tree, status, queue>>

\* Faulty variant: the inner signal is changed without telling its subscribers.
RunInner_Silent(c) ==
  /\ TopIs("flush") /\ c \in Top.round /\ IsLive(c)
  /\ val' = [val EXCEPT ![c] = val[Source[c]]]
  /\ subs' = [subs EXCEPT ![Source[c]] = @ \cup {c}]
  /\ cleanups' = [cleanups EXCEPT ![c] = {Source[c]}]
  /\ currentOwner' = Inner(c) /\ active' = None /\ registration' = None
  /\ stack' = Rest(c)
  /\ UNCHANGED <<tree, status, queue, seen>>

\* The inner effect of a computed, whose body makes no other call.
RunInner(c) ==
  /\ TopIs("flush") /\ c \in Top.round /\ IsLive(c)
  /\ val' = [val EXCEPT ![c] = val[Source[c]]]
  /\ queue' = IF val[c] # val[Source[c]] THEN queue \cup subs[c] ELSE queue
  /\ subs' = [subs EXCEPT ![Source[c]] = @ \cup {c}]
  /\ cleanups' = [cleanups EXCEPT ![c] = {Source[c]}]
  /\ currentOwner' = Inner(c) /\ active' = None /\ registration' = None
  /\ stack' = Rest(c)
  /\ UNCHANGED <<tree, status, seen>>
-----------------------------------------------------------------------------
Call ==
  \/ \E n \in Nodes : Get(n)
  \/ \E n \in Signals : DisposeSignal(n) \/ \E v \in Values : Set(n, v)
  \/ \E c \in Computeds : GetUninitialized(c) \/ CreateComputed(c)
  \/ \E e \in Effects : CreateEffect(e) \/ DisposeEffect(e)
  \/ \E r \in Roots : CreateRoot(r) \/ DisposeRoot(r)
  \/ \E h \in Hooks : OnCleanup(h)
  \/ Untrack

Return == RootEnds \/ RootThrows \/ UntrackEnds \/ BodyReturns \/ \E b \in BOOLEAN : BodyThrows(b)

FlushStep ==
  \/ NextRound \/ EndFlush
  \/ \E r \in Runners : SkipDisposed(r)
  \/ \E e \in Effects : RunEffect(e)
  \/ \E c \in Computeds : RunInner(c)

Next == Call \/ Return \/ BeginFlush \/ FlushStep

Spec == Init /\ [][Next]_vars
-----------------------------------------------------------------------------
Frames == [kind : {"flush", "body", "root", "untrack"}, who : Effects \cup Roots \cup {None},
           prev : Effects \cup {None}, first : BOOLEAN, round : SUBSET Runners]

IsFrame(f) ==
  \/ f.kind = "flush" /\ f.who = None /\ f.prev = None /\ f.round \subseteq Runners
  \/ f.kind = "body" /\ f.who \in Effects /\ f.prev = None /\ f.round = {}
  \/ f.kind = "root" /\ f.who \in Roots /\ f.prev = None /\ f.round = {}
  \/ f.kind = "untrack" /\ f.who = None /\ f.prev \in Effects \cup {None} /\ f.round = {}

\* Every variable keeps its type: _value, _subscribers and cleanupQueue
\* of the classes, the context of context.ts, and the stack.
TypeOK ==
  /\ val \in [Nodes -> Values]
  /\ subs \in [Nodes -> SUBSET Runners] /\ cleanups \in [Runners -> SUBSET Nodes]
  /\ parent \in [Owners -> Owners \cup {None}]
  /\ disposed \subseteq Owners
  /\ hooks \in [Owners -> SUBSET Hooks] /\ ran \subseteq Hooks
  /\ currentOwner \in Owners \cup {None}
  /\ active \in Effects \cup {None} /\ registration \in Effects \cup {None}
  /\ created \subseteq Effects \cup Computeds \cup Roots
  /\ initialized \subseteq Computeds
  /\ handles \subseteq Effects \cup Roots /\ outer \in [Roots -> Owners \cup {None}]
  /\ queue \subseteq Runners
  /\ stack \in Seq(Frames) /\ Len(stack) <= MaxStack
  /\ \A i \in DOMAIN stack : IsFrame(stack[i])
  /\ seen \in [Effects -> [Nodes -> Values \cup {None}]]

\* No update is lost: an effect that is alive and subscribed to a signal has
\* read its present value, or it is scheduled (set notifies, re-runs
\* re-subscribe, and no flush drops a live effect).
NoStaleSubscriber ==
  \A e \in Effects, n \in Nodes :
    e \in subs[n] /\ IsLive(e) => seen[e][n] \in {None, val[n]} \/ e \in queue \cup Rounds

\* The same for computeds: while the inner effect is subscribed, its value is
\* that of its source, or it is scheduled.
ComputedCatchesUp ==
  \A c \in initialized :
    c \in subs[Source[c]] /\ IsLive(c) => val[c] = val[Source[c]] \/ c \in queue \cup Rounds

\* A change of a signal reaches the computeds above it and the effects above
\* those, though the flush may run a reader before the computed it reads.
EverybodyCatchesUp == TypeOK /\ ComputedCatchesUp /\ NoStaleSubscriber

\* Whatever bodies do, return or throw, the context they leave behind names no
\* effect that is not running (the finally block of runEffect, untrack).
ContextIsClean ==
  /\ active # None => active \in Bodies
  /\ registration # None => registration \in Bodies

\* signal.ts:56-57 and 72-74: a get that subscribes an effect also registers
\* the cleanup that will end the subscription.  True as long as no effect runs
\* inside untrack, which restores active but not registration.
SubscriptionsHaveCleanups ==
  \A r \in Runners, n \in Nodes : r \in subs[n] => n \in cleanups[r]

\* disposeOwner is final and complete: what was created below a disposed owner
\* is disposed with it, its effects are unsubscribed, and the functions that
\* onCleanup registered there run then and at no other time.  So those that an
\* effect registers are not run when its body throws, nor before its next run:
\* context.ts:175 puts them on the owner, and effect.ts:254 empties cleanupQueue
\* alone, though the comment at effect.ts:248-253 says that they are run there.
DisposalIsFinal ==
  [][ LET gone == disposed' \ disposed IN
      /\ disposed \subseteq disposed'
      /\ \A x \in Owners : parent[x] # None /\ parent[x] \in gone => x \in gone
      /\ \A n \in Nodes, r \in Runners : OwnerOf(r) \in gone => r \notin subs'[n]
      /\ ran' = ran \cup UNION {hooks[x] : x \in gone} ]_vars

\* state.md:80, an effect re-runs when a signal that was accessed inside it
\* changes: while its body runs, reads are tracked for it.
BodyIsTracked == TopIs("body") => active = Top.who
=============================================================================
