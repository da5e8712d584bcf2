------------------------------- MODULE Store --------------------------------
(***************************************************************************)
(* defineStore of packages/store, in two parts with a state and a          *)
(* specification each.  First the state of a store (Spec), second the life *)
(* of the stores of one name (LifecycleSpec).                              *)
(*                                                                         *)
(* The state of defineStore: raw objects, read and written through proxies *)
(* that announce every change.  A proxy wraps what is read or put into it  *)
(* and leaves it in the raw object in place of what was there.  Every      *)
(* object has one field that may hold another, which stands for all its    *)
(* properties.  A reference is a raw object and the proxies around it,     *)
(* innermost first, each named by the visitingSet it was made with.        *)
(***************************************************************************)
EXTENDS Integers, Sequences, SequencesExt

CONSTANTS
  Root,                            \* stateObj
  MaxObjects, MaxSets, MaxLayers,  \* bounds: objects made, visiting sets, proxies around one object,
  MaxChanges                       \* changes

Nil == [obj |-> 0, sets |-> <<>>]
Raw(o) == [obj |-> o, sets |-> <<>>]

VARIABLES
  field,     \* what each object holds
  made,      \* objects so far
  sets,      \* visiting sets so far
  visiting,  \* of each visiting set, the references it has seen
  proxied,   \* _proxiedSet
  held,      \* the reference the application works with
  kept,      \* another one that it keeps
  changes,   \* changes so far
  twice      \* raw objects that the application has put in a second time

vars == <<field, made, sets, visiting, proxied, held, kept, changes, twice>>

Objects == 1..MaxObjects
stateProxy == [obj |-> Root, sets |-> <<1>>]

\* def.state() makes an object with another one in it.
Init ==
  /\ Root = 1 /\ made = 2 /\ sets = 1
  /\ field = [o \in Objects |-> IF o = 1 THEN Raw(2) ELSE Nil]
  /\ visiting = [s \in 1..MaxSets |-> IF s = 1 THEN {Raw(1)} ELSE {}]
  /\ proxied = {} /\ held = stateProxy /\ kept = Nil /\ changes = 0 /\ twice = {}

\* createInPlaceDeepProxy: nothing, what this visiting set knows, or a new proxy.
createInPlaceDeepProxy(m, s) ==
  IF m.ref = Nil \/ m.ref \in m.visiting[s] THEN m
  ELSE [m EXCEPT !.visiting[s] = @ \cup {m.ref}, !.ref = [obj |-> m.ref.obj, sets |-> Append(m.ref.sets, s)]]

Memory(ref) == [ref |-> ref, visiting |-> visiting, proxied |-> proxied]
Noted(m) == IF m.ref = Nil THEN m ELSE [m EXCEPT !.proxied = @ \cup {m.ref}]

\* The trap get of the innermost proxy wraps what it finds; the others then leave it alone.
\* Faulty variant: it hands out what it finds.
GotAsIs(r) == Memory(field[r.obj])
Got(r) ==
  LET v == field[r.obj] IN
  IF r.sets = <<>> \/ v = Nil \/ v \in proxied THEN Memory(v)
  ELSE Noted(createInPlaceDeepProxy(Memory(v), r.sets[1]))

Keep(m) == visiting' = m.visiting /\ proxied' = m.proxied

\* The application goes on from a reference that is watched.
Watched == held.sets # <<>>
Read ==
  /\ Watched
  /\ LET m == Got(held) IN
       /\ m.ref # Nil
       /\ held' = m.ref /\ field' = [field EXCEPT ![held.obj] = m.ref] /\ Keep(m)
  /\ UNCHANGED <<made, sets, kept, changes, twice>>
Restart == held' = stateProxy /\ UNCHANGED <<field, made, sets, visiting, proxied, kept, changes, twice>>
KeepIt == held.obj # Root /\ kept' = held /\ UNCHANGED <<field, made, sets, visiting, proxied, held, changes, twice>>

Changes == changes < MaxChanges /\ changes' = changes + 1

\* The trap set, of the outermost proxy first: each proxy wraps the value once more.
Put(r, v) ==
  LET by[n \in 0..Len(r.sets)] ==   \* after the n outermost ones
        IF n = 0 THEN Memory(v)
        ELSE Noted(createInPlaceDeepProxy(by[n - 1], r.sets[Len(r.sets) + 1 - n]))
      m == by[Len(r.sets)]
  IN  /\ Watched /\ Changes /\ Len(m.ref.sets) <= MaxLayers
      /\ field' = [field EXCEPT ![r.obj] = m.ref] /\ Keep(m)

WriteNew ==
  /\ made < MaxObjects /\ made' = made + 1
  /\ Put(held, Raw(made + 1))
  /\ UNCHANGED <<sets, held, kept, twice>>
WriteAgain(o) ==
  /\ o \in 2..made /\ o # held.obj
  /\ Put(held, Raw(o)) /\ twice' = twice \cup {o}
  /\ UNCHANGED <<made, sets, held, kept>>
WriteKept ==
  /\ kept # Nil /\ kept.obj # held.obj
  /\ Put(held, kept)
  /\ UNCHANGED <<made, sets, held, kept, twice>>
Delete == Put(held, Nil) /\ UNCHANGED <<made, sets, held, kept, twice>>

\* $patch of the property of the state with an object that has not that field: what is there
\* is copied, which reads it, and the copy is wrapped with a visiting set of its own.
patch ==
  /\ made < MaxObjects /\ made' = made + 1
  /\ Changes /\ sets < MaxSets /\ sets' = sets + 1
  /\ LET old == field[Root]
         inner == IF old = Nil THEN Memory(Nil) ELSE Got(old)
         new == createInPlaceDeepProxy([inner EXCEPT !.ref = Raw(made + 1)], sets + 1)
     IN  /\ field' = [o \in Objects |-> CASE o = Root -> new.ref
                                          [] o = made + 1 -> inner.ref
                                          [] old # Nil /\ o = old.obj -> inner.ref
                                          [] OTHER -> field[o]]
         /\ Keep(new)
  /\ UNCHANGED <<held, kept, twice>>

\* $reset takes over what the proxy around a fresh state hands out.
reset ==
  /\ made + 2 <= MaxObjects /\ made' = made + 2
  /\ Changes /\ sets < MaxSets /\ sets' = sets + 1
  /\ LET fresh == [Memory(Raw(made + 2)) EXCEPT !.visiting[sets + 1] = {Raw(made + 1)}]
         m == Noted(createInPlaceDeepProxy(fresh, sets + 1))
     IN  field' = [field EXCEPT ![Root] = m.ref, ![made + 1] = m.ref] /\ Keep(m)
  /\ UNCHANGED <<held, kept, twice>>

Next ==
  \/ Read \/ Restart \/ KeepIt \/ WriteNew \/ WriteKept \/ Delete \/ patch \/ reset
  \/ \E o \in Objects : WriteAgain(o)

Spec == Init /\ [][Next]_vars

------------------------------------------------------------------------------
\* The variables keep their types.
TypeOK ==
  /\ made \in 2..MaxObjects /\ changes \in 0..MaxChanges /\ sets \in 1..MaxSets /\ twice \subseteq Objects
  /\ \A o \in Objects : field[o].obj \in 0..made /\ Len(field[o].sets) <= MaxLayers

\* What the application reads out of the state announces its changes, whatever was moved,
\* copied, reset or taken out before, unless it has put the raw object in itself a second time.
ReadIsWatched == held.sets = <<>> => held.obj \in twice

------------------------------------------------------------------------------
(***************************************************************************)
(* Second part, with a state of its own: one name of the registry with the *)
(* stores made for it one after another, their subscribers, who are called *)
(* one by one and call the store back, and what of the state is stored and *)
(* restored (persist).                                                     *)
(***************************************************************************)

CONSTANTS
  Subscribers,  \* of the application
  MaxStores,    \* bound: stores that are made
  MaxDepth      \* bound: notifications within one another

VARIABLES
  stores,    \* see TypeOK
  current,   \* the one in the registry, or 0
  stored,    \* the field that is stored, or Nothing
  refused,   \* the last write was refused, as there was no room
  calls,     \* notifications under way, the innermost last: [of, rest, in]
  mutations  \* changes of the state, whose number is the value

lifecycleVars == <<stores, current, stored, refused, calls, mutations>>

Nothing == -1
Called == Subscribers \cup {"persist", "plugin"}

LifecycleTypeOK ==
  /\ Len(stores) <= MaxStores
  /\ \A s \in 1..Len(stores) :
       /\ stores[s].kept \in 0..MaxChanges          \* the field that is stored
       /\ stores[s].other \in 0..MaxChanges         \* one that is not (pick, omit)
       /\ ToSet(stores[s].subs) \subseteq Called    \* stateSubscribers
       /\ stores[s].heard \in [Called -> 0..MaxChanges]
       /\ stores[s].missed \subseteq Called         \* not told, since somebody before threw
       /\ stores[s].disposed \in BOOLEAN
  /\ current \in 0..Len(stores) /\ stored \in Nothing..MaxChanges /\ refused \in BOOLEAN
  /\ Len(calls) <= MaxDepth /\ mutations \in 0..MaxChanges
  /\ \A i \in 1..Len(calls) : ToSet(calls[i].rest) \subseteq Called /\ calls[i].in \in Called \cup {"nobody"}

LifecycleInit ==
  /\ stores = <<>> /\ current = 0 /\ stored = Nothing /\ refused = FALSE /\ calls = <<>> /\ mutations = 0

\* The application acts by itself, or in one of its subscribers.
AppRuns == IF calls = <<>> THEN TRUE ELSE Last(calls).in \in Subscribers \cup {"plugin"}

Version(store) == IF store.kept > store.other THEN store.kept ELSE store.other

\* Faulty variant: the plugins come first.
PersistBehind(plugins) == plugins \o <<"persist">>

\* persistStore subscribes before the global plugins do.
Subscribed(plugins) == <<"persist">> \o plugins

\* Only what is stored is restored; nobody is there to be told.
Restored == IF stored = Nothing THEN 0 ELSE stored

useStore ==
  /\ AppRuns /\ current = 0 /\ Len(stores) < MaxStores
  /\ stores' = Append(stores, [kept |-> Restored, other |-> 0, subs |-> Subscribed(<<"plugin">>),
                               heard |-> [x \in Called |-> Restored], missed |-> {}, disposed |-> FALSE])
  /\ current' = Len(stores') /\ UNCHANGED <<stored, refused, calls, mutations>>

subscribe(s, x) ==
  /\ AppRuns /\ ~stores[s].disposed /\ x \notin ToSet(stores[s].subs)
  /\ stores' = [stores EXCEPT ![s] =
                  [stores[s] EXCEPT !.subs = Append(@, x), !.heard[x] = Version(stores[s]), !.missed = @ \ {x}]]
  /\ UNCHANGED <<current, stored, refused, calls, mutations>>

Unsubscribe(s, x) ==
  /\ AppRuns /\ x \in ToSet(stores[s].subs)
  /\ stores' = [stores EXCEPT ![s].subs = RemoveFirst(@, x)]
  /\ UNCHANGED <<current, stored, refused, calls, mutations>>

\* Faulty variant: a notification under way will do.
NotifiedByOuter(s) ==
  IF \E i \in 1..Len(calls) : calls[i].of = s THEN calls
  ELSE Append(calls, [of |-> s, rest |-> stores[s].subs, in |-> "nobody"])

\* notifySubscribers: those there are now, also when it is one of them who changes the state.
Notified(s) == Append(calls, [of |-> s, rest |-> stores[s].subs, in |-> "nobody"])

\* triggerReactive; a store that was disposed still changes, and tells nobody.
Change(s, part) ==
  /\ AppRuns /\ mutations < MaxChanges /\ Len(calls) < MaxDepth /\ mutations' = mutations + 1
  /\ stores' = [stores EXCEPT ![s] = IF part = "kept" THEN [@ EXCEPT !.kept = mutations']
                                                      ELSE [@ EXCEPT !.other = mutations']]
  /\ calls' = (IF stores[s].disposed THEN calls ELSE Notified(s))
  /\ UNCHANGED <<current, stored, refused>>

\* The next one is called with the state as it is by now, also if the store was disposed since.
CallNext ==
  /\ calls # <<>> /\ Last(calls).rest # <<>>
  /\ LET top == Last(calls)
         x == Head(top.rest)
     IN /\ calls' = [calls EXCEPT ![Len(calls)] = [@ EXCEPT !.rest = Tail(top.rest), !.in = x]]
        /\ stores' = [stores EXCEPT ![top.of] =
                        [stores[top.of] EXCEPT !.heard[x] = Version(stores[top.of]), !.missed = @ \ {x}]]
        /\ IF x = "persist"
             THEN \/ stored' = stores[top.of].kept /\ refused' = FALSE
                  \/ refused' = TRUE /\ UNCHANGED stored
             ELSE UNCHANGED <<stored, refused>>
  /\ UNCHANGED <<current, mutations>>

Return ==
  /\ calls # <<>> /\ Last(calls).rest = <<>> /\ calls' = Front(calls)
  /\ UNCHANGED <<stores, current, stored, refused, mutations>>

\* An exception of a subscriber ends all notifications it came from.
Throws ==
  /\ calls # <<>> /\ AppRuns /\ calls' = <<>>
  /\ stores' = [s \in 1..Len(stores) |->
       [stores[s] EXCEPT !.missed =
          @ \cup UNION {ToSet(calls[i].rest) : i \in {j \in 1..Len(calls) : calls[j].of = s}}]]
  /\ UNCHANGED <<current, stored, refused, mutations>>

\* dispose and unregisterStore
disposeStore(s) ==
  /\ AppRuns /\ ~stores[s].disposed
  /\ stores' = [stores EXCEPT ![s] = [@ EXCEPT !.disposed = TRUE, !.subs = <<>>]] /\ current' = 0
  /\ UNCHANGED <<stored, refused, calls, mutations>>

LifecycleNext ==
  \/ useStore \/ CallNext \/ Return \/ Throws
  \/ \E s \in 1..Len(stores) :
       \/ disposeStore(s)
       \/ \E x \in Subscribers : subscribe(s, x) \/ Unsubscribe(s, x)
       \/ \E part \in {"kept", "other"} : Change(s, part)

LifecycleSpec == LifecycleInit /\ [][LifecycleNext]_lifecycleVars

------------------------------------------------------------------------------
(* What is checked *)

\* x has still to be called.
IsDue(s, x) == \E i \in 1..Len(calls) : calls[i].of = s /\ x \in ToSet(calls[i].rest)

\* The field is stored as the store in the registry has it, through stores that are disposed and
\* made again, subscribers that change the state or throw, and changes of stores that are gone.
StoredIsState ==
  current # 0 /\ ~refused /\ ~IsDue(current, "persist") =>
    stored = stores[current].kept \/ (stored = Nothing /\ stores[current].kept = 0)

\* Whoever is subscribed has heard of the newest state, unless it is about to, or a subscriber
\* before it threw.
SubscribersHeard ==
  \A s \in 1..Len(stores) : ~stores[s].disposed =>
    \A x \in ToSet(stores[s].subs) :
      IsDue(s, x) \/ x \in stores[s].missed \/ stores[s].heard[x] = Version(stores[s])
=============================================================================
