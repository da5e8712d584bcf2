--------------------------- MODULE ReactiveProofs ---------------------------
(***************************************************************************)
(* Proofs about Reactive: an update is never lost, the reactive context    *)
(* never names a body that has ended, and, where user code does not call   *)
(* untrack, every subscription can be ended and every disposal is complete.*)
(***************************************************************************)
EXTENDS Reactive, TLAPS

LEMMA KindsDiffer ==
  /\ None \notin Owners \cup Values \cup Runners
  /\ \A c \in Computeds : c \notin Signals /\ c \notin Effects /\ Source[c] \in Signals
                          /\ Source[c] \in Nodes /\ Source[c] # c /\ c \in Nodes
  /\ \A r \in Runners : OwnerOf(r) \in Owners
  /\ \A q, r \in Runners : OwnerOf(q) = OwnerOf(r) => q = r
  /\ \A c \in Computeds : Inner(c) \in Owners /\ Inner(c) \notin Effects \cup Roots \cup Computeds
  /\ \A c, d \in Computeds : Inner(c) = Inner(d) => c = d
BY ReactiveAssumption DEF Owners, Runners, Nodes, OwnerOf, Inner
-----------------------------------------------------------------------------
(* The stack. *)

RoundsIn(s) == UNION {s[i].round : i \in DOMAIN s}

\* What calls put on the stack.
LEMMA BodyFrame ==
  ASSUME NEW e \in Effects, NEW b \in BOOLEAN, NEW f, f = [Frame("body", e) EXCEPT !.first = b]
  PROVE  f \in Frames /\ f.kind = "body" /\ f.who = e /\ f.first = b /\ f.round = {} /\ IsFrame(f)
BY DEF Frame, Frames, IsFrame

LEMMA RootFrame ==
  ASSUME NEW r \in Roots, NEW f, f = Frame("root", r)
  PROVE  f \in Frames /\ f.kind = "root" /\ f.who = r /\ f.round = {} /\ IsFrame(f)
BY DEF Frame, Frames, IsFrame

LEMMA FlushFrame ==
  ASSUME NEW f, f = Frame("flush", None)
  PROVE  f \in Frames /\ f.kind = "flush" /\ f.round = {} /\ IsFrame(f)
BY DEF Frame, Frames, IsFrame

LEMMA UntrackFrame ==
  ASSUME NEW a \in Effects \cup {None}, NEW f, f = [Frame("untrack", None) EXCEPT !.prev = a]
  PROVE  f \in Frames /\ f.kind = "untrack" /\ f.prev = a /\ f.round = {} /\ IsFrame(f)
BY DEF Frame, Frames, IsFrame

\* A nonempty stack is its top on what is below it.
LEMMA TopOfStack ==
  ASSUME stack \in Seq(Frames), stack # <<>>
  PROVE  /\ Under \in Seq(Frames) /\ Top \in Frames
         /\ Len(stack) \in Nat /\ Len(stack) > 0 /\ Len(Under) = Len(stack) - 1
         /\ Top = stack[Len(stack)] /\ Len(stack) \in DOMAIN stack
         /\ DOMAIN stack = 1..Len(stack) /\ DOMAIN Under = 1..(Len(stack) - 1)
         /\ \A i \in DOMAIN Under : i \in DOMAIN stack /\ Under[i] = stack[i]
         /\ \A i \in DOMAIN stack : i \in DOMAIN Under \/ i = Len(stack)
<1>1. Len(stack) \in Nat /\ Len(stack) > 0 /\ DOMAIN stack = 1..Len(stack)
  OBVIOUS
<1>2. /\ Under \in Seq(Frames) /\ Len(Under) = Len(stack) - 1
      /\ \A i \in 1..(Len(stack) - 1) : Under[i] = stack[i]
  BY <1>1 DEF Under
<1>3. DOMAIN Under = 1..(Len(stack) - 1)
  BY <1>2
<1>4. Top = stack[Len(stack)] /\ Top \in Frames
  BY <1>1 DEF Top
<1> QED BY <1>1, <1>2, <1>3, <1>4

LEMMA PushedFrame ==
  ASSUME NEW s \in Seq(Frames), NEW f \in Frames
  PROVE  /\ Append(s, f) \in Seq(Frames) /\ Len(Append(s, f)) = Len(s) + 1
         /\ Append(s, f) # <<>>
         /\ DOMAIN Append(s, f) = 1..(Len(s) + 1) /\ DOMAIN s = 1..Len(s) /\ Len(s) \in Nat
         /\ Append(s, f)[Len(s) + 1] = f
         /\ \A i \in DOMAIN s : i \in DOMAIN Append(s, f) /\ Append(s, f)[i] = s[i]
         /\ \A i \in DOMAIN Append(s, f) : i \in DOMAIN s \/ i = Len(s) + 1
OBVIOUS

LEMMA PushedRound ==
  ASSUME NEW s \in Seq(Frames), NEW f \in Frames
  PROVE  RoundsIn(Append(s, f)) = RoundsIn(s) \cup f.round
<1>1. ASSUME NEW r, r \in RoundsIn(Append(s, f)) PROVE r \in RoundsIn(s) \cup f.round
  BY <1>1, PushedFrame DEF RoundsIn
<1>2. ASSUME NEW r, r \in RoundsIn(s) \cup f.round PROVE r \in RoundsIn(Append(s, f))
  <2>1. CASE r \in f.round
    <3>1. Len(s) + 1 \in DOMAIN Append(s, f) /\ Append(s, f)[Len(s) + 1] = f
      BY PushedFrame
    <3> QED BY <3>1, <2>1 DEF RoundsIn
  <2>2. CASE r \in RoundsIn(s)
    <3>1. PICK i \in DOMAIN s : r \in s[i].round
      BY <2>2 DEF RoundsIn
    <3>2. i \in DOMAIN Append(s, f) /\ Append(s, f)[i] = s[i]
      BY PushedFrame
    <3> QED BY <3>1, <3>2 DEF RoundsIn
  <2> QED BY <1>2, <2>1, <2>2
<1> QED BY <1>1, <1>2

LEMMA TopRound ==
  ASSUME stack \in Seq(Frames), stack # <<>>
  PROVE  /\ Rounds = RoundsIn(Under) \cup Top.round
         /\ \A f \in Frames : RoundsIn(Append(Under, f)) = RoundsIn(Under) \cup f.round
<1>1. Rounds = RoundsIn(Under) \cup Top.round
  <2>1. ASSUME NEW r, r \in Rounds PROVE r \in RoundsIn(Under) \cup Top.round
    BY <2>1, TopOfStack DEF Rounds, RoundsIn
  <2>2. ASSUME NEW r, r \in RoundsIn(Under) \cup Top.round PROVE r \in Rounds
    <3>1. CASE r \in Top.round
      <4>1. Len(stack) \in DOMAIN stack /\ Top = stack[Len(stack)]
        BY TopOfStack
      <4> QED BY <4>1, <3>1 DEF Rounds
    <3>2. CASE r \in RoundsIn(Under)
      <4>1. PICK i \in DOMAIN Under : r \in Under[i].round
        BY <3>2 DEF RoundsIn
      <4>2. i \in DOMAIN stack /\ stack[i] = Under[i]
        BY TopOfStack
      <4> QED BY <4>1, <4>2 DEF Rounds
    <3> QED BY <2>2, <3>1, <3>2
  <2> QED BY <2>1, <2>2
<1>2. ASSUME NEW f \in Frames PROVE RoundsIn(Append(Under, f)) = RoundsIn(Under) \cup f.round
  BY TopOfStack, PushedRound
<1> QED BY <1>1, <1>2

\* The top of a stack of frames is one, and taking some of its round leaves one.
LEMMA TopIsFrame ==
  ASSUME stack \in Seq(Frames), \A i \in DOMAIN stack : IsFrame(stack[i]), stack # <<>>
  PROVE  /\ IsFrame(Top)
         /\ \A i \in DOMAIN Under : IsFrame(Under[i])
         /\ \A q \in SUBSET Runners : /\ [Top EXCEPT !.round = q] \in Frames
                                      /\ [Top EXCEPT !.round = q].kind = Top.kind
                                      /\ [Top EXCEPT !.round = q].who = Top.who
                                      /\ [Top EXCEPT !.round = q].prev = Top.prev
                                      /\ [Top EXCEPT !.round = q].first = Top.first
                                      /\ [Top EXCEPT !.round = q].round = q
<1>1. IsFrame(Top) /\ \A i \in DOMAIN Under : IsFrame(Under[i])
  BY TopOfStack
<1>2. Top \in Frames
  BY TopOfStack
<1>3. ASSUME NEW q \in SUBSET Runners
      PROVE  /\ [Top EXCEPT !.round = q] \in Frames
             /\ [Top EXCEPT !.round = q].kind = Top.kind
             /\ [Top EXCEPT !.round = q].who = Top.who
             /\ [Top EXCEPT !.round = q].prev = Top.prev
             /\ [Top EXCEPT !.round = q].first = Top.first
             /\ [Top EXCEPT !.round = q].round = q
  BY <1>2 DEF Frames
<1> QED BY <1>1, <1>3
-----------------------------------------------------------------------------
(* Types. *)

StackOK ==
  /\ stack \in Seq(Frames) /\ Len(stack) <= MaxStack
  /\ \A i \in DOMAIN stack : IsFrame(stack[i])

LEMMA FramesOfAppend ==
  ASSUME NEW s \in Seq(Frames), \A i \in DOMAIN s : IsFrame(s[i]),
         NEW f \in Frames, IsFrame(f)
  PROVE  \A i \in DOMAIN Append(s, f) : IsFrame(Append(s, f)[i])
BY PushedFrame

LEMMA PushKeepsStack ==
  ASSUME StackOK, NEW f \in Frames, IsFrame(f), RoomFor(1), stack' = Append(stack, f)
  PROVE  StackOK'
<1>1. stack' \in Seq(Frames) /\ Len(stack') = Len(stack) + 1 /\ Len(stack) \in Nat
  BY PushedFrame DEF StackOK
<1>2. \A i \in DOMAIN stack' : IsFrame(stack'[i])
  BY FramesOfAppend DEF StackOK
<1> QED BY <1>1, <1>2 DEF StackOK, RoomFor, IsFrame

LEMMA PopKeepsStack ==
  ASSUME StackOK, stack # <<>>, stack' = Under
  PROVE  StackOK'
BY TopOfStack, TopIsFrame, ReactiveAssumption DEF StackOK, IsFrame

LEMMA RoundKeepsStack ==
  ASSUME StackOK, TopIs("flush"), NEW q \in SUBSET Runners,
         stack' = Append(Under, [Top EXCEPT !.round = q])
  PROVE  StackOK'
<1> DEFINE g == [Top EXCEPT !.round = q]
<1>1. stack # <<>> /\ Top.kind = "flush"
  BY DEF TopIs
<1>2. IsFrame(Top) /\ g \in Frames /\ g.kind = Top.kind /\ g.who = Top.who /\ g.prev = Top.prev
      /\ g.round = q
  BY <1>1, TopIsFrame DEF StackOK
<1>3. IsFrame(g)
  BY <1>1, <1>2 DEF IsFrame
<1> HIDE DEF g
<1>4. Under \in Seq(Frames) /\ \A i \in DOMAIN Under : IsFrame(Under[i])
  BY <1>1, TopOfStack, TopIsFrame DEF StackOK
<1>5. stack' = Append(Under, g)
  BY DEF g
<1>6. \A i \in DOMAIN stack' : IsFrame(stack'[i])
  BY <1>2, <1>3, <1>4, <1>5, FramesOfAppend
<1>7. stack' \in Seq(Frames) /\ Len(stack') = Len(stack)
  BY <1>1, <1>2, <1>4, <1>5, TopOfStack, PushedFrame DEF StackOK
<1> QED BY <1>6, <1>7 DEF StackOK, IsFrame

\* The stack of a flush that has taken the body of e from its round.
LEMMA RunKeepsStack ==
  ASSUME StackOK, TopIs("flush"), RoomFor(1), NEW q \in SUBSET Runners, NEW e \in Effects,
         NEW b \in BOOLEAN,
         stack' = Append(Append(Under, [Top EXCEPT !.round = q]), [Frame("body", e) EXCEPT !.first = b])
  PROVE  StackOK'
<1> DEFINE g == [Top EXCEPT !.round = q]
           f == [Frame("body", e) EXCEPT !.first = b]
<1>1. stack # <<>> /\ Top.kind = "flush"
  BY DEF TopIs
<1>2. IsFrame(Top) /\ g \in Frames /\ g.kind = Top.kind /\ g.who = Top.who /\ g.prev = Top.prev
      /\ g.round = q
  BY <1>1, TopIsFrame DEF StackOK
<1>3. IsFrame(g)
  BY <1>1, <1>2 DEF IsFrame
<1>4. f \in Frames /\ IsFrame(f)
  BY BodyFrame
<1> HIDE DEF g, f
<1>6. Under \in Seq(Frames) /\ \A i \in DOMAIN Under : IsFrame(Under[i])
  BY <1>1, TopOfStack, TopIsFrame DEF StackOK
<1>7. stack' = Append(Append(Under, g), f)
  BY DEF g, f
<1>8. /\ Append(Under, g) \in Seq(Frames) /\ Len(Append(Under, g)) = Len(stack)
      /\ \A i \in DOMAIN Append(Under, g) : IsFrame(Append(Under, g)[i])
  <2>1. \A i \in DOMAIN Append(Under, g) : IsFrame(Append(Under, g)[i])
    BY <1>2, <1>3, <1>6, FramesOfAppend
  <2> QED BY <2>1, <1>1, <1>2, <1>6, TopOfStack, PushedFrame DEF StackOK
<1>9. \A i \in DOMAIN stack' : IsFrame(stack'[i])
  BY <1>4, <1>7, <1>8, FramesOfAppend
<1>10. stack' \in Seq(Frames) /\ Len(stack') = Len(stack) + 1
  BY <1>4, <1>7, <1>8, PushedFrame
<1> QED BY <1>9, <1>10 DEF StackOK, IsFrame, RoomFor

\* The variables but the stack.
ValuesOK ==
  /\ val \in [Nodes -> Values]
  /\ subs \in [Nodes -> SUBSET Runners] /\ cleanups \in [Runners -> SUBSET Nodes]
  /\ seen \in [Effects -> [Nodes -> Values \cup {None}]]
  /\ queue \subseteq Runners

TreeOK ==
  /\ parent \in [Owners -> Owners \cup {None}]
  /\ disposed \subseteq Owners
  /\ hooks \in [Owners -> SUBSET Hooks] /\ ran \subseteq Hooks
  /\ created \subseteq Effects \cup Computeds \cup Roots
  /\ initialized \subseteq Computeds
  /\ handles \subseteq Effects \cup Roots /\ outer \in [Roots -> Owners \cup {None}]

ContextOK ==
  /\ currentOwner \in Owners \cup {None}
  /\ active \in Effects \cup {None} /\ registration \in Effects \cup {None}

LEMMA TypeOKIs == TypeOK <=> ValuesOK /\ TreeOK /\ ContextOK /\ StackOK
BY DEF TypeOK, ValuesOK, TreeOK, ContextOK, StackOK

LEMMA TopKinds ==
  ASSUME StackOK, stack # <<>>
  PROVE  /\ Top \in Frames /\ IsFrame(Top)
         /\ Top.kind = "flush" => Top.round \subseteq Runners
         /\ Top.kind = "body" => Top.who \in Effects /\ Top.round = {}
         /\ Top.kind = "root" => Top.who \in Roots /\ Top.round = {}
         /\ Top.kind = "untrack" => Top.prev \in Effects \cup {None} /\ Top.round = {}
BY TopIsFrame, TopOfStack DEF StackOK, IsFrame

LEMMA StackNext == TypeOK /\ [Next]_vars => StackOK'
<1> SUFFICES ASSUME TypeOK, [Next]_vars PROVE StackOK'
  OBVIOUS
<1> USE DEF vars, status, tree, context
<1>0. StackOK /\ ValuesOK /\ ContextOK
  BY TypeOKIs
<1>1. CASE stack' = stack
  BY <1>0, <1>1 DEF StackOK, IsFrame
<1>2. ASSUME NEW e \in Effects, CreateEffect(e) PROVE StackOK'
  <2> DEFINE f == [Frame("body", e) EXCEPT !.first = TRUE]
  <2>1. f \in Frames /\ IsFrame(f)
    BY BodyFrame
  <2>2. stack' = Append(stack, f) /\ RoomFor(1)
    BY <1>2 DEF CreateEffect, StartBody
  <2> HIDE DEF f
  <2> QED BY <1>0, <2>1, <2>2, PushKeepsStack
<1>3. ASSUME NEW r \in Roots, CreateRoot(r) PROVE StackOK'
  <2> DEFINE f == Frame("root", r)
  <2>1. f \in Frames /\ IsFrame(f)
    BY RootFrame
  <2>2. stack' = Append(stack, f) /\ RoomFor(1)
    BY <1>3 DEF CreateRoot
  <2> HIDE DEF f
  <2> QED BY <1>0, <2>1, <2>2, PushKeepsStack
<1>4. CASE Untrack
  <2> DEFINE f == [Frame("untrack", None) EXCEPT !.prev = active]
  <2>1. f \in Frames /\ IsFrame(f)
    BY <1>0, UntrackFrame DEF ContextOK
  <2>2. stack' = Append(stack, f) /\ RoomFor(1)
    BY <1>4 DEF Untrack
  <2> HIDE DEF f
  <2> QED BY <1>0, <2>1, <2>2, PushKeepsStack
<1>5. CASE BeginFlush
  <2> DEFINE f == Frame("flush", None)
  <2>1. f \in Frames /\ IsFrame(f)
    BY FlushFrame
  <2>2. stack' = Append(stack, f) /\ RoomFor(1)
    BY <1>5 DEF BeginFlush
  <2> HIDE DEF f
  <2> QED BY <1>0, <2>1, <2>2, PushKeepsStack
<1>6. CASE Return
  <2>1. stack # <<>> /\ stack' = Under
    <3>1. CASE RootEnds
      BY <3>1 DEF RootEnds, TopIs
    <3>2. CASE RootThrows
      BY <3>2 DEF RootThrows, TopIs
    <3>3. CASE UntrackEnds
      BY <3>3 DEF UntrackEnds, TopIs
    <3>4. CASE BodyReturns
      BY <3>4 DEF BodyReturns, TopIs, Leave
    <3>5. ASSUME NEW b \in BOOLEAN, BodyThrows(b) PROVE stack # <<>> /\ stack' = Under
      BY <3>5 DEF BodyThrows, TopIs, Leave
    <3> QED BY <1>6, <3>1, <3>2, <3>3, <3>4, <3>5 DEF Return
  <2> QED BY <1>0, <2>1, PopKeepsStack
<1>7. CASE EndFlush
  <2>1. stack # <<>> /\ stack' = Under
    BY <1>7 DEF EndFlush, TopIs
  <2> QED BY <1>0, <2>1, PopKeepsStack
<1>8. CASE NextRound
  <2>1. /\ TopIs("flush") /\ {r \in queue : IsLive(r)} \in SUBSET Runners
        /\ stack' = Append(Under, [Top EXCEPT !.round = {r \in queue : IsLive(r)}])
    BY <1>0, <1>8 DEF NextRound, ValuesOK
  <2> QED BY <1>0, <2>1, RoundKeepsStack
<1>9. ASSUME NEW r \in Runners, SkipDisposed(r) PROVE StackOK'
  <2>1. /\ TopIs("flush") /\ Top.round \ {r} \in SUBSET Runners
        /\ stack' = Append(Under, [Top EXCEPT !.round = Top.round \ {r}])
    BY <1>0, <1>9, TopKinds DEF SkipDisposed, Rest, TopIs
  <2> QED BY <1>0, <2>1, RoundKeepsStack
<1>10. ASSUME NEW e \in Effects, RunEffect(e) PROVE StackOK'
  <2>1. /\ TopIs("flush") /\ Top.round \ {e} \in SUBSET Runners /\ RoomFor(1)
        /\ stack' = Append(Append(Under, [Top EXCEPT !.round = Top.round \ {e}]),
                           [Frame("body", e) EXCEPT !.first = FALSE])
    BY <1>0, <1>10, TopKinds DEF RunEffect, StartBody, Rest, TopIs
  <2> QED BY <1>0, <2>1, RunKeepsStack
<1>11. ASSUME NEW c \in Computeds, RunInner(c) PROVE StackOK'
  <2>1. /\ TopIs("flush") /\ Top.round \ {c} \in SUBSET Runners
        /\ stack' = Append(Under, [Top EXCEPT !.round = Top.round \ {c}])
    BY <1>0, <1>11, TopKinds DEF RunInner, Rest, TopIs
  <2> QED BY <1>0, <2>1, RoundKeepsStack
<1>12. CASE Call
  <2>1. ASSUME NEW n \in Nodes, Get(n) PROVE stack' = stack
    BY <2>1 DEF Get
  <2>2. ASSUME NEW n \in Signals, DisposeSignal(n) PROVE stack' = stack
    BY <2>2 DEF DisposeSignal
  <2>3. ASSUME NEW n \in Signals, NEW v \in Values, Set(n, v) PROVE stack' = stack
    BY <2>3 DEF Set
  <2>4. ASSUME NEW c \in Computeds, GetUninitialized(c) PROVE stack' = stack
    BY <2>4 DEF GetUninitialized
  <2>5. ASSUME NEW c \in Computeds, CreateComputed(c) PROVE stack' = stack
    BY <2>5 DEF CreateComputed
  <2>6. ASSUME NEW e \in Effects, DisposeEffect(e) PROVE stack' = stack
    BY <2>6 DEF DisposeEffect
  <2>7. ASSUME NEW r \in Roots, DisposeRoot(r) PROVE stack' = stack
    BY <2>7 DEF DisposeRoot
  <2>8. ASSUME NEW h \in Hooks, OnCleanup(h) PROVE stack' = stack
    BY <2>8 DEF OnCleanup
  <2> QED BY <1>1, <1>2, <1>3, <1>4, <1>12, <2>1, <2>2, <2>3, <2>4, <2>5, <2>6, <2>7, <2>8 DEF Call
<1>13. CASE UNCHANGED vars
  BY <1>1, <1>13
<1> QED BY <1>5, <1>6, <1>7, <1>8, <1>9, <1>10, <1>11, <1>12, <1>13 DEF Next, FlushStep

LEMMA ValuesOfStartBody ==
  ASSUME ValuesOK, NEW e \in Effects, NEW below, NEW b \in BOOLEAN, StartBody(e, below, b)
  PROVE  /\ subs' \in [Nodes -> SUBSET Runners] /\ cleanups' \in [Runners -> SUBSET Nodes]
         /\ seen' \in [Effects -> [Nodes -> Values \cup {None}]]
         /\ ContextOK'
BY DEF ValuesOK, StartBody, ContextOK, Unread, Owners, Runners

LEMMA TypesOfDisposal ==
  ASSUME ValuesOK, TreeOK, NEW o \in Owners, DisposeOwner(o)
  PROVE  /\ subs' \in [Nodes -> SUBSET Runners] /\ cleanups' \in [Runners -> SUBSET Nodes]
         /\ parent' \in [Owners -> Owners \cup {None}] /\ disposed' \subseteq Owners
         /\ hooks' \in [Owners -> SUBSET Hooks] /\ ran' \subseteq Hooks
<1> DEFINE gone == IF o \in disposed THEN {} ELSE Below(o)
           stopped == {r \in Runners : OwnerOf(r) \in gone}
<1>1. gone \subseteq Owners
  BY DEF Below
<1>2. /\ disposed' = disposed \cup gone
      /\ parent' = [x \in Owners |-> IF x \in gone THEN None ELSE parent[x]]
      /\ subs' = [n \in Nodes |-> {r \in subs[n] : ~(r \in stopped /\ n \in cleanups[r])}]
      /\ cleanups' = [r \in Runners |-> IF r \in stopped THEN {} ELSE cleanups[r]]
      /\ ran' = ran \cup UNION {hooks[x] : x \in gone}
      /\ hooks' = [x \in Owners |-> IF x \in gone THEN {} ELSE hooks[x]]
  BY DEF DisposeOwner
<1> HIDE DEF gone, stopped
<1> QED BY <1>1, <1>2 DEF ValuesOK, TreeOK

LEMMA RunnersAreOwners ==
  Effects \subseteq Owners /\ Roots \subseteq Owners /\ Computeds \subseteq Owners
  /\ Effects \subseteq Runners /\ Computeds \subseteq Runners
  /\ Signals \subseteq Nodes /\ Computeds \subseteq Nodes
BY DEF Owners, Runners, Nodes

LEMMA OthersNext == TypeOK /\ [Next]_vars => ValuesOK' /\ TreeOK' /\ ContextOK'
<1> SUFFICES ASSUME TypeOK, [Next]_vars PROVE ValuesOK' /\ TreeOK' /\ ContextOK'
  OBVIOUS
<1> USE DEF vars, status, tree, context
<1>0. ValuesOK /\ TreeOK /\ ContextOK /\ StackOK
  BY TypeOKIs
<1>1. ASSUME NEW n \in Nodes, Get(n) PROVE ValuesOK' /\ TreeOK' /\ ContextOK'
  <2>1. ValuesOK'
    BY <1>0, <1>1, RunnersAreOwners DEF Get, Track, ValuesOK, ContextOK
  <2> QED BY <1>0, <1>1, <2>1 DEF Get, TreeOK, ContextOK
<1>2. ASSUME NEW n \in Signals, DisposeSignal(n) PROVE ValuesOK' /\ TreeOK' /\ ContextOK'
  BY <1>0, <1>2 DEF DisposeSignal, ValuesOK, TreeOK, ContextOK
<1>3. ASSUME NEW n \in Signals, NEW v \in Values, Set(n, v) PROVE ValuesOK' /\ TreeOK' /\ ContextOK'
  BY <1>0, <1>3, RunnersAreOwners DEF Set, Notify, ValuesOK, TreeOK, ContextOK
<1>4. ASSUME NEW c \in Computeds, GetUninitialized(c) PROVE ValuesOK' /\ TreeOK' /\ ContextOK'
  <2> DEFINE v == val[Source[c]]
             read == {Source[c]} \cup (IF Devtools THEN {c} ELSE {})
             readers == IF active = None THEN {} ELSE {active}
  <2>1. v \in Values /\ read \subseteq Nodes /\ readers \subseteq Runners /\ readers \subseteq Effects
    BY <1>0, KindsDiffer, RunnersAreOwners DEF ValuesOK, ContextOK
  <2>2. /\ val' = [val EXCEPT ![c] = v]
        /\ subs' = [n \in Nodes |->
                      CASE n = Source[c] -> subs[n] \cup readers \cup {c}
                        [] n = c -> IF Devtools THEN readers ELSE {}
                        [] OTHER -> subs[n]]
        /\ cleanups' = [r \in Runners |->
                          CASE r = c -> {Source[c]}
                            [] r # c /\ r = registration /\ active # None -> cleanups[r] \cup read
                            [] OTHER -> cleanups[r]]
        /\ parent' = [parent EXCEPT ![Inner(c)] = c]
        /\ currentOwner' = Inner(c) /\ active' = None /\ registration' = None
        /\ initialized' = initialized \cup {c}
        /\ seen' = IF active = None THEN seen
                   ELSE [seen EXCEPT ![active] = [n \in Nodes |-> IF n \in read THEN v ELSE @[n]]]
        /\ UNCHANGED <<disposed, hooks, ran, created, handles, outer, queue, stack>>
    BY <1>4 DEF GetUninitialized
  <2> HIDE DEF v, read, readers
  <2>3. val' \in [Nodes -> Values] /\ queue' \subseteq Runners
    BY <1>0, <2>1, <2>2 DEF ValuesOK
  <2>4. subs' \in [Nodes -> SUBSET Runners]
    BY <1>0, <2>1, <2>2, RunnersAreOwners DEF ValuesOK
  <2>5. cleanups' \in [Runners -> SUBSET Nodes]
    BY <1>0, <2>1, <2>2, KindsDiffer DEF ValuesOK
  <2>6. seen' \in [Effects -> [Nodes -> Values \cup {None}]]
    BY <1>0, <2>1, <2>2 DEF ValuesOK, ContextOK
  <2>7. TreeOK' /\ ContextOK'
    BY <1>0, <2>2, KindsDiffer, RunnersAreOwners DEF TreeOK, ContextOK
  <2> QED BY <2>3, <2>4, <2>5, <2>6, <2>7 DEF ValuesOK
<1>5. ASSUME NEW c \in Computeds, CreateComputed(c) PROVE ValuesOK' /\ TreeOK' /\ ContextOK'
  BY <1>0, <1>5, RunnersAreOwners DEF CreateComputed, ValuesOK, TreeOK, ContextOK
<1>6. ASSUME NEW e \in Effects, CreateEffect(e) PROVE ValuesOK' /\ TreeOK' /\ ContextOK'
  <2>1. StartBody(e, stack, TRUE)
    BY <1>6 DEF CreateEffect
  <2>2. ValuesOK' /\ ContextOK'
    BY <1>0, <1>6, <2>1, ValuesOfStartBody DEF CreateEffect, ValuesOK
  <2>3. TreeOK'
    BY <1>0, <1>6, RunnersAreOwners DEF CreateEffect, TreeOK, ContextOK
  <2> QED BY <2>2, <2>3
<1>7. ASSUME NEW e \in Effects, DisposeEffect(e) PROVE ValuesOK' /\ TreeOK' /\ ContextOK'
  <2>1. e \in Owners /\ DisposeOwner(e)
    BY <1>7, RunnersAreOwners DEF DisposeEffect
  <2> QED BY <1>0, <1>7, <2>1, TypesOfDisposal DEF DisposeEffect, ValuesOK, TreeOK, ContextOK
<1>8. ASSUME NEW r \in Roots, CreateRoot(r) PROVE ValuesOK' /\ TreeOK' /\ ContextOK'
  BY <1>0, <1>8, RunnersAreOwners DEF CreateRoot, ValuesOK, TreeOK, ContextOK
<1>9. ASSUME NEW r \in Roots, DisposeRoot(r) PROVE ValuesOK' /\ TreeOK' /\ ContextOK'
  <2>1. r \in Owners /\ DisposeOwner(r)
    BY <1>9, RunnersAreOwners DEF DisposeRoot
  <2> QED BY <1>0, <1>9, <2>1, TypesOfDisposal DEF DisposeRoot, ValuesOK, TreeOK, ContextOK
<1>10. ASSUME NEW h \in Hooks, OnCleanup(h) PROVE ValuesOK' /\ TreeOK' /\ ContextOK'
  BY <1>0, <1>10 DEF OnCleanup, ValuesOK, TreeOK, ContextOK
<1>11. CASE Untrack
  BY <1>0, <1>11 DEF Untrack, ValuesOK, TreeOK, ContextOK
<1>12. CASE RootEnds
  BY <1>0, <1>12, TopKinds DEF RootEnds, TopIs, ValuesOK, TreeOK, ContextOK
<1>13. CASE RootThrows
  <2>1. Top.who \in Roots /\ Top.who \in Owners
    BY <1>0, <1>13, TopKinds, RunnersAreOwners DEF RootThrows, TopIs
  <2>2. CASE DisposeOwner(Top.who) /\ currentOwner' = outer[Top.who]
    <3>1. /\ subs' \in [Nodes -> SUBSET Runners] /\ cleanups' \in [Runners -> SUBSET Nodes]
          /\ parent' \in [Owners -> Owners \cup {None}] /\ disposed' \subseteq Owners
          /\ hooks' \in [Owners -> SUBSET Hooks] /\ ran' \subseteq Hooks
      BY <1>0, <2>1, <2>2, TypesOfDisposal
    <3> QED BY <1>0, <1>13, <2>1, <2>2, <3>1 DEF RootThrows, ValuesOK, TreeOK, ContextOK
  <2>3. CASE UNCHANGED <<subs, cleanups, tree, currentOwner>>
    BY <1>0, <1>13, <2>1, <2>3 DEF RootThrows, ValuesOK, TreeOK, ContextOK
  <2> QED BY <1>13, <2>2, <2>3 DEF RootThrows
<1>14. CASE UntrackEnds
  BY <1>0, <1>14, TopKinds DEF UntrackEnds, TopIs, ValuesOK, TreeOK, ContextOK
<1>15. CASE BodyReturns
  BY <1>0, <1>15, TopKinds DEF BodyReturns, Leave, TopIs, ValuesOK, TreeOK, ContextOK
<1>16. ASSUME NEW b \in BOOLEAN, BodyThrows(b) PROVE ValuesOK' /\ TreeOK' /\ ContextOK'
  <2>1. Top.who \in Effects
    BY <1>0, <1>16, TopKinds DEF BodyThrows, TopIs
  <2> QED BY <1>0, <1>16, <2>1, RunnersAreOwners DEF BodyThrows, Leave, ValuesOK, TreeOK, ContextOK
<1>17. CASE BeginFlush
  BY <1>0, <1>17 DEF BeginFlush, ValuesOK, TreeOK, ContextOK
<1>18. CASE NextRound
  BY <1>0, <1>18 DEF NextRound, ValuesOK, TreeOK, ContextOK
<1>19. CASE EndFlush
  BY <1>0, <1>19 DEF EndFlush, ValuesOK, TreeOK, ContextOK
<1>20. ASSUME NEW r \in Runners, SkipDisposed(r) PROVE ValuesOK' /\ TreeOK' /\ ContextOK'
  BY <1>0, <1>20 DEF SkipDisposed, ValuesOK, TreeOK, ContextOK
<1>21. ASSUME NEW e \in Effects, RunEffect(e) PROVE ValuesOK' /\ TreeOK' /\ ContextOK'
  <2>1. StartBody(e, Rest(e), FALSE)
    BY <1>21 DEF RunEffect
  <2> QED BY <1>0, <1>21, <2>1, ValuesOfStartBody DEF RunEffect, ValuesOK, TreeOK
<1>22. ASSUME NEW c \in Computeds, RunInner(c) PROVE ValuesOK' /\ TreeOK' /\ ContextOK'
  <2>1. Source[c] \in Nodes /\ c \in Nodes /\ c \in Runners /\ Inner(c) \in Owners
    BY KindsDiffer, RunnersAreOwners
  <2>2. ValuesOK'
    BY <1>0, <1>22, <2>1 DEF RunInner, ValuesOK
  <2> QED BY <1>0, <1>22, <2>1, <2>2 DEF RunInner, TreeOK, ContextOK
<1>23. CASE UNCHANGED vars
  BY <1>0, <1>23 DEF ValuesOK, TreeOK, ContextOK
<1>24. CASE Call
  BY <1>24, <1>1, <1>2, <1>3, <1>4, <1>5, <1>6, <1>7, <1>8, <1>9, <1>10, <1>11 DEF Call
<1>25. CASE Return
  BY <1>25, <1>12, <1>13, <1>14, <1>15, <1>16 DEF Return
<1>26. CASE FlushStep
  BY <1>26, <1>18, <1>19, <1>20, <1>21, <1>22 DEF FlushStep
<1> QED BY <1>17, <1>23, <1>24, <1>25, <1>26 DEF Next

LEMMA TypeInit == Init => TypeOK
<1> SUFFICES ASSUME Init PROVE ValuesOK /\ TreeOK /\ ContextOK /\ StackOK
  BY TypeOKIs
<1>1. StackOK
  BY ReactiveAssumption DEF Init, StackOK
<1> QED BY <1>1, ReactiveAssumption DEF Init, ValuesOK, TreeOK, ContextOK, Unread

LEMMA TypeNext == TypeOK /\ [Next]_vars => TypeOK'
<1> SUFFICES ASSUME TypeOK, [Next]_vars PROVE TypeOK'
  OBVIOUS
<1>1. ValuesOK' /\ TreeOK' /\ ContextOK' /\ StackOK'
  BY StackNext, OthersNext
<1> QED BY <1>1 DEF TypeOK, ValuesOK, TreeOK, ContextOK, StackOK, IsFrame

\* Values, subscriptions, the owner tree, the context and the stack always have
\* their type: signal.ts, effect.ts, context.ts and root.ts as far as the model goes.
THEOREM TypeCorrect == Spec => []TypeOK
<1>1. Init => TypeOK
  BY TypeInit
<1>2. TypeOK /\ [Next]_vars => TypeOK'
  BY TypeNext
<1> QED BY <1>1, <1>2, PTL DEF Spec
-----------------------------------------------------------------------------
(* No update is lost. *)

CatchUp == ComputedCatchesUp /\ NoStaleSubscriber

LEMMA RoundsStay ==
  ASSUME StackOK
  PROVE  /\ stack' = stack => Rounds' = Rounds
         /\ \A f \in Frames : f.round = {} /\ stack' = Append(stack, f) => Rounds' = Rounds
         /\ stack # <<>> /\ Top.round = {} /\ stack' = Under => Rounds' = Rounds
<1>1. stack \in Seq(Frames)
  BY DEF StackOK
<1>2. Rounds = RoundsIn(stack) /\ Rounds' = RoundsIn(stack')
  BY DEF Rounds, RoundsIn
<1>3. ASSUME NEW f \in Frames, f.round = {}, stack' = Append(stack, f) PROVE Rounds' = Rounds
  BY <1>1, <1>2, <1>3, PushedRound
<1>4. stack # <<>> /\ Top.round = {} /\ stack' = Under => Rounds' = Rounds
  BY <1>1, <1>2, TopRound
<1> QED BY <1>2, <1>3, <1>4

LEMMA RoundsOfFlush ==
  ASSUME StackOK, TopIs("flush"), NEW q \in SUBSET Runners,
         \/ stack' = Append(Under, [Top EXCEPT !.round = q])
         \/ \E f \in Frames : f.round = {} /\ stack' = Append(Append(Under, [Top EXCEPT !.round = q]), f)
  PROVE  \A r : r \in Rounds => r \in Rounds' \/ (r \in Top.round /\ r \notin q)
<1> DEFINE g == [Top EXCEPT !.round = q]
<1>1. stack \in Seq(Frames) /\ stack # <<>>
  BY DEF StackOK, TopIs
<1>2. g \in Frames /\ g.round = q
  BY <1>1, TopIsFrame DEF StackOK
<1> HIDE DEF g
<1>3. Rounds' = RoundsIn(stack')
  BY DEF Rounds, RoundsIn
<1>4. Rounds = RoundsIn(Under) \cup Top.round /\ RoundsIn(Append(Under, g)) = RoundsIn(Under) \cup q
  BY <1>1, <1>2, TopRound
<1>5. CASE stack' = Append(Under, g)
  BY <1>3, <1>4, <1>5
<1>6. ASSUME NEW f \in Frames, f.round = {}, stack' = Append(Append(Under, g), f)
      PROVE  \A r : r \in Rounds => r \in Rounds' \/ (r \in Top.round /\ r \notin q)
  <2>1. Append(Under, g) \in Seq(Frames)
    BY <1>1, <1>2, TopOfStack, PushedFrame
  <2>2. RoundsIn(stack') = RoundsIn(Append(Under, g)) \cup {}
    BY <1>6, <2>1, PushedRound
  <2> QED BY <1>3, <1>4, <2>2
<1> QED BY <1>5, <1>6 DEF g

\* Steps that read and write no value, and keep what is scheduled and alive.
LEMMA StillCaughtUp ==
  ASSUME TypeOK, CatchUp, UNCHANGED <<val, seen, initialized>>,
         \A n \in Nodes : subs'[n] \subseteq subs[n], disposed \subseteq disposed',
         \A r \in Runners : r \in queue \cup Rounds => r \in queue' \cup Rounds' \/ ~IsLive(r)'
  PROVE  CatchUp'
<1>1. \A r \in Runners : IsLive(r)' => IsLive(r)
  BY DEF IsLive, OwnerOf, Inner
<1>2. ComputedCatchesUp'
  <2> SUFFICES ASSUME NEW c \in initialized', c \in subs'[Source[c]], IsLive(c)'
               PROVE  val'[c] = val'[Source[c]] \/ c \in queue' \cup Rounds'
    BY DEF ComputedCatchesUp, Rounds, IsLive, OwnerOf, Inner
  <2>1. c \in Computeds /\ c \in Runners /\ Source[c] \in Nodes
    BY KindsDiffer, RunnersAreOwners DEF TypeOK
  <2> QED BY <1>1, <2>1 DEF CatchUp, ComputedCatchesUp
<1>3. NoStaleSubscriber'
  <2> SUFFICES ASSUME NEW e \in Effects, NEW n \in Nodes, e \in subs'[n], IsLive(e)'
               PROVE  seen'[e][n] \in {None, val'[n]} \/ e \in queue' \cup Rounds'
    BY DEF NoStaleSubscriber, Rounds, IsLive, OwnerOf, Inner
  <2> QED BY <1>1, RunnersAreOwners DEF CatchUp, NoStaleSubscriber
<1> QED BY <1>2, <1>3 DEF CatchUp

LEMMA DisposalUnsubscribes ==
  ASSUME TypeOK, NEW o \in Owners, DisposeOwner(o)
  PROVE  disposed \subseteq disposed' /\ \A n \in Nodes : subs'[n] \subseteq subs[n]
BY DEF DisposeOwner

LEMMA CaughtUpByStart ==
  ASSUME TypeOK, CatchUp, NEW e \in Effects, NEW below, NEW b \in BOOLEAN, StartBody(e, below, b),
         UNCHANGED <<val, initialized, disposed>>,
         \A r \in Runners \ {e} : r \in queue \cup Rounds => r \in queue' \cup Rounds'
  PROVE  CatchUp'
<1>1. \A r \in Runners : IsLive(r)' = IsLive(r)
  BY DEF IsLive, OwnerOf, Inner
<1>2. \A n \in Nodes : subs'[n] \subseteq subs[n]
  BY DEF StartBody
<1>3. ComputedCatchesUp'
  <2> SUFFICES ASSUME NEW c \in initialized', c \in subs'[Source[c]], IsLive(c)'
               PROVE  val'[c] = val'[Source[c]] \/ c \in queue' \cup Rounds'
    BY DEF ComputedCatchesUp, Rounds, IsLive, OwnerOf, Inner
  <2>1. c \in Computeds /\ c \in Runners \ {e} /\ Source[c] \in Nodes
    BY KindsDiffer, RunnersAreOwners DEF TypeOK
  <2> QED BY <1>1, <1>2, <2>1 DEF CatchUp, ComputedCatchesUp
<1>4. NoStaleSubscriber'
  <2> SUFFICES ASSUME NEW x \in Effects, NEW n \in Nodes, x \in subs'[n], IsLive(x)'
               PROVE  seen'[x][n] \in {None, val'[n]} \/ x \in queue' \cup Rounds'
    BY DEF NoStaleSubscriber, Rounds, IsLive, OwnerOf, Inner
  <2>1. CASE x = e
    BY <2>1 DEF StartBody, Unread, TypeOK
  <2>2. CASE x # e
    <3>1. seen'[x] = seen[x] /\ x \in Runners \ {e}
      BY <2>2, RunnersAreOwners DEF StartBody, TypeOK
    <3> QED BY <1>1, <1>2, <3>1 DEF CatchUp, NoStaleSubscriber
  <2> QED BY <2>1, <2>2
<1> QED BY <1>3, <1>4 DEF CatchUp

LEMMA CaughtUpByGet ==
  ASSUME TypeOK, CatchUp, NEW n \in Nodes, Get(n)
  PROVE  CatchUp'
<1>0. UNCHANGED <<val, initialized, disposed, queue, stack>> /\ Track({n})
  BY DEF Get, tree, status
<1>1. Rounds' = Rounds /\ \A r \in Runners : IsLive(r)' = IsLive(r)
  BY <1>0 DEF Rounds, IsLive, OwnerOf, Inner
<1>2. ComputedCatchesUp'
  <2> SUFFICES ASSUME NEW c \in initialized', c \in subs'[Source[c]], IsLive(c)'
               PROVE  val'[c] = val'[Source[c]] \/ c \in queue' \cup Rounds'
    BY DEF ComputedCatchesUp, Rounds, IsLive, OwnerOf, Inner
  <2>1. c \in Computeds /\ c \in Runners /\ Source[c] \in Nodes /\ c \notin Effects
    BY <1>0, KindsDiffer, RunnersAreOwners DEF TypeOK
  <2>2. c \in subs[Source[c]]
    BY <1>0, <2>1, KindsDiffer DEF Track, TypeOK
  <2> QED BY <1>0, <1>1, <2>1, <2>2 DEF CatchUp, ComputedCatchesUp
<1>3. NoStaleSubscriber'
  <2> SUFFICES ASSUME NEW x \in Effects, NEW m \in Nodes, x \in subs'[m], IsLive(x)'
               PROVE  seen'[x][m] \in {None, val'[m]} \/ x \in queue' \cup Rounds'
    BY DEF NoStaleSubscriber, Rounds, IsLive, OwnerOf, Inner
  <2>0. x \in Runners
    BY RunnersAreOwners
  <2>1. CASE x = active /\ m = n
    <3>1. active # None /\ seen'[x][m] = val[m]
      BY <1>0, <2>1, KindsDiffer, RunnersAreOwners DEF Track, TypeOK
    <3> QED BY <1>0, <3>1
  <2>2. CASE ~(x = active /\ m = n)
    <3>1. x \in subs[m] /\ seen'[x][m] = seen[x][m]
      BY <1>0, <2>2 DEF Track, TypeOK
    <3> QED BY <1>0, <1>1, <2>0, <3>1 DEF CatchUp, NoStaleSubscriber
  <2> QED BY <2>1, <2>2
<1> QED BY <1>2, <1>3 DEF CatchUp

LEMMA CaughtUpBySet ==
  ASSUME TypeOK, CatchUp, NEW n \in Signals, NEW v \in Values, Set(n, v)
  PROVE  CatchUp'
<1>0. /\ UNCHANGED <<subs, seen, initialized, disposed, stack>>
      /\ val' = [val EXCEPT ![n] = v] /\ queue' = queue \cup subs[n]
  BY DEF Set, Notify, tree, status
<1>1. Rounds' = Rounds /\ \A r \in Runners : IsLive(r)' = IsLive(r)
  BY <1>0 DEF Rounds, IsLive, OwnerOf, Inner
<1>2. ComputedCatchesUp'
  <2> SUFFICES ASSUME NEW c \in initialized', c \in subs'[Source[c]], IsLive(c)'
               PROVE  val'[c] = val'[Source[c]] \/ c \in queue' \cup Rounds'
    BY DEF ComputedCatchesUp, Rounds, IsLive, OwnerOf, Inner
  <2>1. /\ c \in Computeds /\ c \in Runners /\ Source[c] \in Nodes /\ c \in Nodes /\ c # n
        /\ val'[c] = val[c] /\ (Source[c] # n => val'[Source[c]] = val[Source[c]])
    BY <1>0, KindsDiffer, RunnersAreOwners DEF TypeOK
  <2> QED BY <1>0, <1>1, <2>1 DEF CatchUp, ComputedCatchesUp
<1>3. NoStaleSubscriber'
  <2> SUFFICES ASSUME NEW x \in Effects, NEW m \in Nodes, x \in subs'[m], IsLive(x)'
               PROVE  seen'[x][m] \in {None, val'[m]} \/ x \in queue' \cup Rounds'
    BY DEF NoStaleSubscriber, Rounds, IsLive, OwnerOf, Inner
  <2>1. x \in Runners /\ (m # n => val'[m] = val[m])
    BY <1>0, RunnersAreOwners DEF TypeOK
  <2> QED BY <1>0, <1>1, <2>1 DEF CatchUp, NoStaleSubscriber
<1> QED BY <1>2, <1>3 DEF CatchUp

LEMMA CaughtUpByFirstGet ==
  ASSUME TypeOK, CatchUp, NEW c \in Computeds, GetUninitialized(c)
  PROVE  CatchUp'
<1> DEFINE v == val[Source[c]]
           read == {Source[c]} \cup (IF Devtools THEN {c} ELSE {})
           readers == IF active = None THEN {} ELSE {active}
<1>0. /\ UNCHANGED <<disposed, queue, stack>>
      /\ val' = [val EXCEPT ![c] = v]
      /\ subs' = [n \in Nodes |->
                    CASE n = Source[c] -> subs[n] \cup readers \cup {c}
                      [] n = c -> IF Devtools THEN readers ELSE {}
                      [] OTHER -> subs[n]]
      /\ seen' = IF active = None THEN seen
                 ELSE [seen EXCEPT ![active] = [n \in Nodes |-> IF n \in read THEN v ELSE @[n]]]
      /\ initialized' = initialized \cup {c} /\ c \notin initialized
  BY DEF GetUninitialized, tree, status
<1>1. Rounds' = Rounds /\ \A r \in Runners : IsLive(r)' = IsLive(r)
  BY <1>0 DEF Rounds, IsLive, OwnerOf, Inner
<1>2. /\ v \in Values /\ readers \subseteq Effects /\ (active # None => active \in Effects)
      /\ Source[c] \in Nodes /\ c \in Nodes /\ Source[c] # c /\ Source[c] \in Signals
      /\ val'[c] = v /\ val'[Source[c]] = v /\ \A n \in Nodes : n # c => val'[n] = val[n]
  BY <1>0, KindsDiffer, RunnersAreOwners DEF TypeOK
<1>3. ComputedCatchesUp'
  <2> SUFFICES ASSUME NEW d \in initialized', d \in subs'[Source[d]], IsLive(d)'
               PROVE  val'[d] = val'[Source[d]] \/ d \in queue' \cup Rounds'
    BY DEF ComputedCatchesUp, Rounds, IsLive, OwnerOf, Inner
  <2>1. CASE d = c
    BY <1>2, <2>1
  <2>2. CASE d # c
    <3>1. /\ d \in Computeds /\ d \in Runners /\ Source[d] \in Nodes /\ Source[d] # c /\ d \in Nodes
          /\ d \in initialized /\ d \notin Effects
      BY <1>0, <2>2, KindsDiffer, RunnersAreOwners DEF TypeOK
    <3>2. d \in subs[Source[d]]
      <4> HIDE DEF v, read, readers
      <4> QED BY <1>0, <1>2, <2>2, <3>1
    <3> QED BY <1>0, <1>1, <1>2, <2>2, <3>1, <3>2 DEF CatchUp, ComputedCatchesUp
  <2> QED BY <2>1, <2>2
<1>4. NoStaleSubscriber'
  <2> SUFFICES ASSUME NEW x \in Effects, NEW m \in Nodes, x \in subs'[m], IsLive(x)'
               PROVE  seen'[x][m] \in {None, val'[m]} \/ x \in queue' \cup Rounds'
    BY DEF NoStaleSubscriber, Rounds, IsLive, OwnerOf, Inner
  <2>0. x \in Runners /\ x # c /\ None \notin Effects
    BY KindsDiffer, RunnersAreOwners
  <2>1. CASE x \in readers /\ m \in read
    <3>1. active # None /\ x = active
      BY <2>1
    <3>2. seen'[x][m] = v
      <4> HIDE DEF v, read, readers
      <4> QED BY <1>0, <2>1, <3>1 DEF TypeOK
    <3>3. val'[m] = v
      <4> HIDE DEF v, readers
      <4> QED BY <1>2, <2>1
    <3> QED BY <3>2, <3>3
  <2>2. CASE x \notin readers \/ m \notin read
    <3>1. x \in subs[m] /\ m # c
      BY <1>0, <1>2, <2>0, <2>2
    <3>2. seen'[x][m] = seen[x][m]
      <4>1. CASE active = None
        BY <1>0, <4>1
      <4>2. CASE active # None /\ x # active
        BY <1>0, <4>2 DEF TypeOK
      <4>3. CASE active # None /\ x = active
        <5>1. m \notin read
          BY <2>2, <4>3
        <5> HIDE DEF v, read, readers
        <5> QED BY <1>0, <4>3, <5>1 DEF TypeOK
      <4> QED BY <4>1, <4>2, <4>3
    <3> QED BY <1>0, <1>1, <1>2, <2>0, <3>1, <3>2 DEF CatchUp, NoStaleSubscriber
  <2> QED BY <2>1, <2>2
<1> QED BY <1>3, <1>4 DEF CatchUp

LEMMA CaughtUpByInner ==
  ASSUME TypeOK, CatchUp, NEW c \in Computeds, RunInner(c)
  PROVE  CatchUp'
<1>0. /\ UNCHANGED <<disposed, initialized, seen>>
      /\ val' = [val EXCEPT ![c] = val[Source[c]]]
      /\ queue' = IF val[c] # val[Source[c]] THEN queue \cup subs[c] ELSE queue
      /\ subs' = [subs EXCEPT ![Source[c]] = @ \cup {c}]
      /\ TopIs("flush") /\ stack' = Append(Under, [Top EXCEPT !.round = Top.round \ {c}])
  BY DEF RunInner, Rest, tree, status
<1>1. \A r \in Runners : IsLive(r)' = IsLive(r)
  BY <1>0 DEF IsLive, OwnerOf, Inner
<1>2. \A r \in Rounds : r \in Rounds' \/ r = c
  <2>1. StackOK /\ Top.round \ {c} \in SUBSET Runners
    BY <1>0, TopKinds, TypeOKIs DEF TopIs
  <2>2. \A r : r \in Rounds => r \in Rounds' \/ (r \in Top.round /\ r \notin Top.round \ {c})
    BY <1>0, <2>1, RoundsOfFlush
  <2> QED BY <2>2
<1>3. /\ Source[c] \in Nodes /\ c \in Nodes /\ Source[c] # c /\ Source[c] \in Signals
      /\ val'[c] = val'[Source[c]] /\ \A n \in Nodes : n # c => val'[n] = val[n]
  BY <1>0, KindsDiffer, RunnersAreOwners DEF TypeOK
<1>4. ComputedCatchesUp'
  <2> SUFFICES ASSUME NEW d \in initialized', d \in subs'[Source[d]], IsLive(d)'
               PROVE  val'[d] = val'[Source[d]] \/ d \in queue' \cup Rounds'
    BY DEF ComputedCatchesUp, Rounds, IsLive, OwnerOf, Inner
  <2>1. CASE d = c
    BY <1>3, <2>1
  <2>2. CASE d # c
    <3>1. /\ d \in Computeds /\ d \in Runners /\ Source[d] \in Nodes /\ Source[d] # c /\ d \in Nodes
          /\ d \in initialized
      BY <1>0, <2>2, KindsDiffer, RunnersAreOwners DEF TypeOK
    <3>2. d \in subs[Source[d]]
      BY <1>0, <1>3, <2>2, <3>1 DEF TypeOK
    <3> QED BY <1>0, <1>1, <1>2, <1>3, <2>2, <3>1, <3>2 DEF CatchUp, ComputedCatchesUp
  <2> QED BY <2>1, <2>2
<1>5. NoStaleSubscriber'
  <2> SUFFICES ASSUME NEW x \in Effects, NEW m \in Nodes, x \in subs'[m], IsLive(x)'
               PROVE  seen'[x][m] \in {None, val'[m]} \/ x \in queue' \cup Rounds'
    BY DEF NoStaleSubscriber, Rounds, IsLive, OwnerOf, Inner
  <2>1. x \in Runners /\ x # c
    BY KindsDiffer, RunnersAreOwners
  <2>2. x \in subs[m]
    BY <1>0, <1>3, <2>1 DEF TypeOK
  <2>3. CASE m = c /\ val[c] # val[Source[c]]
    BY <1>0, <2>2, <2>3
  <2>4. CASE ~(m = c /\ val[c] # val[Source[c]])
    <3>1. val'[m] = val[m]
      BY <1>0, <1>3, <2>4 DEF TypeOK
    <3> QED BY <1>0, <1>1, <1>2, <2>1, <2>2, <3>1 DEF CatchUp, NoStaleSubscriber
  <2> QED BY <2>3, <2>4
<1> QED BY <1>4, <1>5 DEF CatchUp

LEMMA CatchUpNext == TypeOK /\ CatchUp /\ [Next]_vars => CatchUp'
<1> SUFFICES ASSUME TypeOK, CatchUp, [Next]_vars PROVE CatchUp'
  OBVIOUS
<1> USE DEF tree, status
<1>0. StackOK /\ ContextOK /\ Effects \subseteq Runners
  BY TypeOKIs, RunnersAreOwners
<1>1. CASE /\ UNCHANGED <<val, seen, initialized, disposed, queue>> /\ Rounds' = Rounds
           /\ \A n \in Nodes : subs'[n] \subseteq subs[n]
  BY <1>1, StillCaughtUp
<1>2. ASSUME NEW n \in Signals, DisposeSignal(n) PROVE CatchUp'
  <2>1. UNCHANGED <<val, seen, initialized, disposed, queue, stack>>
        /\ \A m \in Nodes : subs'[m] \subseteq subs[m]
    BY <1>2 DEF DisposeSignal, TypeOK
  <2> QED BY <1>0, <1>1, <2>1, RoundsStay
<1>3. ASSUME NEW c \in Computeds, CreateComputed(c) PROVE CatchUp'
  <2>1. UNCHANGED <<val, subs, seen, initialized, disposed, queue, stack>>
    BY <1>3 DEF CreateComputed
  <2> QED BY <1>0, <1>1, <2>1, RoundsStay
<1>4. ASSUME NEW e \in Effects, CreateEffect(e) PROVE CatchUp'
  <2> DEFINE f == [Frame("body", e) EXCEPT !.first = TRUE]
  <2>1. StartBody(e, stack, TRUE) /\ UNCHANGED <<val, disposed, initialized, queue>>
        /\ stack' = Append(stack, f)
    BY <1>4 DEF CreateEffect, StartBody
  <2>2. f \in Frames /\ f.round = {}
    BY BodyFrame
  <2>3. Rounds' = Rounds
    <3> HIDE DEF f
    <3> QED BY <1>0, <2>1, <2>2, RoundsStay
  <2> QED BY <2>1, <2>3, CaughtUpByStart
<1>5. ASSUME NEW o \in Owners, DisposeOwner(o), UNCHANGED <<val, seen, initialized, queue>>,
             Rounds' = Rounds
      PROVE  CatchUp'
  <2>1. disposed \subseteq disposed' /\ \A n \in Nodes : subs'[n] \subseteq subs[n]
    BY <1>5, DisposalUnsubscribes
  <2> QED BY <1>5, <2>1, StillCaughtUp
<1>6. ASSUME NEW e \in Effects, DisposeEffect(e) PROVE CatchUp'
  <2>1. e \in Owners /\ DisposeOwner(e) /\ UNCHANGED <<val, seen, initialized, queue, stack>>
    BY <1>6, RunnersAreOwners DEF DisposeEffect
  <2> QED BY <1>0, <1>5, <2>1, RoundsStay
<1>7. ASSUME NEW r \in Roots, DisposeRoot(r) PROVE CatchUp'
  <2>1. r \in Owners /\ DisposeOwner(r) /\ UNCHANGED <<val, seen, initialized, queue, stack>>
    BY <1>7, RunnersAreOwners DEF DisposeRoot
  <2> QED BY <1>0, <1>5, <2>1, RoundsStay
<1>8. ASSUME NEW r \in Roots, CreateRoot(r) PROVE CatchUp'
  <2> DEFINE f == Frame("root", r)
  <2>1. UNCHANGED <<val, subs, seen, initialized, disposed, queue>> /\ stack' = Append(stack, f)
    BY <1>8 DEF CreateRoot
  <2>2. f \in Frames /\ f.round = {}
    BY RootFrame
  <2> HIDE DEF f
  <2> QED BY <1>0, <1>1, <2>1, <2>2, RoundsStay
<1>9. CASE Untrack
  <2> DEFINE f == [Frame("untrack", None) EXCEPT !.prev = active]
  <2>1. UNCHANGED <<val, subs, seen, initialized, disposed, queue>> /\ stack' = Append(stack, f)
    BY <1>9 DEF Untrack
  <2>2. f \in Frames /\ f.round = {}
    BY <1>0, UntrackFrame DEF ContextOK
  <2> HIDE DEF f
  <2> QED BY <1>0, <1>1, <2>1, <2>2, RoundsStay
<1>10. ASSUME NEW h \in Hooks, OnCleanup(h) PROVE CatchUp'
  <2>1. UNCHANGED <<val, subs, seen, initialized, disposed, queue, stack>>
    BY <1>10 DEF OnCleanup
  <2> QED BY <1>0, <1>1, <2>1, RoundsStay
<1>11. CASE RootEnds
  <2>1. /\ UNCHANGED <<val, subs, seen, initialized, disposed, queue>>
        /\ stack # <<>> /\ Top.kind = "root" /\ stack' = Under
    BY <1>11 DEF RootEnds, TopIs
  <2> QED BY <1>0, <1>1, <2>1, TopKinds, RoundsStay
<1>12. CASE RootThrows
  <2>1. /\ UNCHANGED <<val, seen, initialized, queue>>
        /\ stack # <<>> /\ Top.kind = "root" /\ stack' = Under
        /\ DisposeOwner(Top.who) \/ UNCHANGED <<subs, disposed>>
    BY <1>12 DEF RootThrows, TopIs
  <2>2. Rounds' = Rounds /\ Top.who \in Owners
    BY <1>0, <2>1, TopKinds, RoundsStay, RunnersAreOwners
  <2> QED BY <1>1, <1>5, <2>1, <2>2
<1>13. CASE UntrackEnds
  <2>1. /\ UNCHANGED <<val, subs, seen, initialized, disposed, queue>>
        /\ stack # <<>> /\ Top.kind = "untrack" /\ stack' = Under
    BY <1>13 DEF UntrackEnds, TopIs
  <2> QED BY <1>0, <1>1, <2>1, TopKinds, RoundsStay
<1>14. CASE BodyReturns
  <2>1. /\ UNCHANGED <<val, subs, seen, initialized, disposed, queue>>
        /\ stack # <<>> /\ Top.kind = "body" /\ stack' = Under
    BY <1>14 DEF BodyReturns, TopIs, Leave
  <2> QED BY <1>0, <1>1, <2>1, TopKinds, RoundsStay
<1>15. ASSUME NEW b \in BOOLEAN, BodyThrows(b) PROVE CatchUp'
  <2>1. /\ UNCHANGED <<val, seen, initialized, disposed, queue>>
        /\ stack # <<>> /\ Top.kind = "body" /\ stack' = Under
        /\ \A n \in Nodes : subs'[n] \subseteq subs[n]
    BY <1>15 DEF BodyThrows, TopIs, Leave
  <2> QED BY <1>0, <1>1, <2>1, TopKinds, RoundsStay
<1>16. CASE BeginFlush
  <2> DEFINE f == Frame("flush", None)
  <2>1. UNCHANGED <<val, subs, seen, initialized, disposed, queue>> /\ stack' = Append(stack, f)
    BY <1>16 DEF BeginFlush
  <2>2. f \in Frames /\ f.round = {}
    BY FlushFrame
  <2> HIDE DEF f
  <2> QED BY <1>0, <1>1, <2>1, <2>2, RoundsStay
<1>17. CASE NextRound
  <2> DEFINE q == {r \in queue : IsLive(r)}
  <2>1. /\ UNCHANGED <<val, subs, seen, initialized, disposed>>
        /\ TopIs("flush") /\ Top.round = {} /\ stack' = Append(Under, [Top EXCEPT !.round = q])
    BY <1>17 DEF NextRound
  <2>2. q \in SUBSET Runners /\ stack # <<>> /\ stack \in Seq(Frames)
    BY <2>1 DEF TypeOK, TopIs
  <2>3. \A r \in Runners : IsLive(r)' = IsLive(r)
    BY <2>1 DEF IsLive, OwnerOf, Inner
  <2>4. \A r \in Runners : r \in queue => r \in q \/ ~IsLive(r)
    OBVIOUS
  <2>5. Rounds' = Rounds \cup q
    <3> DEFINE g == [Top EXCEPT !.round = q]
    <3>1. g \in Frames /\ g.round = q
      BY <1>0, <2>2, TopIsFrame DEF StackOK
    <3> HIDE DEF g, q
    <3>2. Rounds' = RoundsIn(stack')
      BY DEF Rounds, RoundsIn
    <3>3. stack' = Append(Under, g)
      BY <2>1 DEF g
    <3> QED BY <2>1, <2>2, <3>1, <3>2, <3>3, TopRound
  <2> HIDE DEF q
  <2> QED BY <2>1, <2>3, <2>4, <2>5, StillCaughtUp
<1>18. CASE EndFlush
  <2>1. /\ UNCHANGED <<val, subs, seen, initialized, disposed>> /\ stack # <<>>
        /\ Top.round = {} /\ stack' = Under /\ \A r \in queue : ~IsLive(r)
    BY <1>18 DEF EndFlush, TopIs
  <2>2. \A r \in Runners : IsLive(r)' = IsLive(r)
    BY <2>1 DEF IsLive, OwnerOf, Inner
  <2> QED BY <1>0, <2>1, <2>2, RoundsStay, StillCaughtUp
<1>19. ASSUME NEW r \in Runners, SkipDisposed(r) PROVE CatchUp'
  <2>1. /\ UNCHANGED <<val, subs, seen, initialized, disposed, queue>> /\ ~IsLive(r)
        /\ TopIs("flush") /\ stack' = Append(Under, [Top EXCEPT !.round = Top.round \ {r}])
    BY <1>19 DEF SkipDisposed, Rest
  <2>2. Top.round \ {r} \in SUBSET Runners
    BY <1>0, <2>1, TopKinds DEF TopIs
  <2>3. \A q : q \in Rounds => q \in Rounds' \/ (q \in Top.round /\ q \notin Top.round \ {r})
    BY <1>0, <2>1, <2>2, RoundsOfFlush
  <2>4. \A q \in Runners : IsLive(q)' = IsLive(q)
    BY <2>1 DEF IsLive, OwnerOf, Inner
  <2> QED BY <2>1, <2>3, <2>4, StillCaughtUp
<1>20. ASSUME NEW e \in Effects, RunEffect(e) PROVE CatchUp'
  <2> DEFINE f == [Frame("body", e) EXCEPT !.first = FALSE]
  <2>1. /\ StartBody(e, Rest(e), FALSE) /\ UNCHANGED <<val, initialized, disposed, queue>>
        /\ TopIs("flush") /\ stack' = Append(Append(Under, [Top EXCEPT !.round = Top.round \ {e}]), f)
    BY <1>20 DEF RunEffect, StartBody, Rest
  <2>2. f \in Frames /\ f.round = {} /\ Top.round \ {e} \in SUBSET Runners
    BY <1>0, <2>1, TopKinds, BodyFrame DEF TopIs
  <2>3. \A q : q \in Rounds => q \in Rounds' \/ (q \in Top.round /\ q \notin Top.round \ {e})
    <3> HIDE DEF f
    <3> QED BY <1>0, <2>1, <2>2, RoundsOfFlush
  <2> QED BY <2>1, <2>3, CaughtUpByStart
<1>21. CASE UNCHANGED vars
  <2>1. UNCHANGED <<val, subs, seen, initialized, disposed, queue, stack>>
    BY <1>21 DEF vars
  <2> QED BY <1>0, <1>1, <2>1, RoundsStay
<1>22. CASE Call
  BY <1>22, <1>2, <1>3, <1>4, <1>6, <1>7, <1>8, <1>9, <1>10, CaughtUpByGet, CaughtUpBySet,
     CaughtUpByFirstGet DEF Call
<1>23. CASE Return
  BY <1>23, <1>11, <1>12, <1>13, <1>14, <1>15 DEF Return
<1>24. CASE FlushStep
  BY <1>24, <1>17, <1>18, <1>19, <1>20, CaughtUpByInner DEF FlushStep
<1> QED BY <1>16, <1>21, <1>22, <1>23, <1>24 DEF Next

LEMMA CatchUpAlways == Spec => [](TypeOK /\ CatchUp)
<1>1. Init => TypeOK /\ CatchUp
  BY TypeInit DEF Init, CatchUp, ComputedCatchesUp, NoStaleSubscriber
<1>2. TypeOK /\ CatchUp /\ [Next]_vars => TypeOK' /\ CatchUp'
  BY TypeNext, CatchUpNext
<1> QED BY <1>1, <1>2, PTL DEF Spec

\* signal.ts:133 and effect.ts: however effects run, re-run, throw, dispose, flush
\* and set what they read, one that is alive and subscribed has read the present
\* value or is scheduled.
THEOREM NoUpdateIsLost == Spec => []NoStaleSubscriber
<1>1. TypeOK /\ CatchUp => NoStaleSubscriber
  BY DEF CatchUp
<1> QED BY <1>1, CatchUpAlways, PTL

\* computed.ts: the same for computeds and, through them, for those who read them.
THEOREM AllCatchUp == Spec => []EverybodyCatchesUp
<1>1. TypeOK /\ CatchUp => EverybodyCatchesUp
  BY DEF CatchUp, EverybodyCatchesUp
<1> QED BY <1>1, CatchUpAlways, PTL
-----------------------------------------------------------------------------
(* The reactive context. *)

BodiesIn(s) == {s[i].who : i \in {j \in DOMAIN s : s[j].kind = "body"}}

\* What an untrack will restore is the body of an effect below it.
UntracksBacked(s) ==
  \A i \in DOMAIN s : s[i].kind = "untrack" /\ s[i].prev # None =>
    \E j \in DOMAIN s : j < i /\ s[j].kind = "body" /\ s[j].who = s[i].prev

ContextInv == ContextIsClean /\ UntracksBacked(stack)

LEMMA PushedBodies ==
  ASSUME NEW s \in Seq(Frames), NEW f \in Frames, UntracksBacked(s),
         f.kind = "untrack" /\ f.prev # None => f.prev \in BodiesIn(s)
  PROVE  /\ BodiesIn(s) \subseteq BodiesIn(Append(s, f))
         /\ f.kind = "body" => f.who \in BodiesIn(Append(s, f))
         /\ UntracksBacked(Append(s, f))
<1> DEFINE t == Append(s, f)
<1>1. /\ \A i \in DOMAIN s : i \in DOMAIN t /\ t[i] = s[i]
      /\ \A i \in DOMAIN t : i \in DOMAIN s \/ i = Len(s) + 1
      /\ DOMAIN s = 1..Len(s) /\ Len(s) \in Nat /\ t[Len(s) + 1] = f /\ Len(s) + 1 \in DOMAIN t
  BY PushedFrame
<1> HIDE DEF t
<1>2. BodiesIn(s) \subseteq BodiesIn(t) /\ (f.kind = "body" => f.who \in BodiesIn(t))
  BY <1>1 DEF BodiesIn
<1>3. ASSUME NEW i \in DOMAIN t, t[i].kind = "untrack", t[i].prev # None
      PROVE  \E j \in DOMAIN t : j < i /\ t[j].kind = "body" /\ t[j].who = t[i].prev
  <2>1. CASE i \in DOMAIN s
    <3>1. PICK j \in DOMAIN s : j < i /\ s[j].kind = "body" /\ s[j].who = s[i].prev
      BY <1>1, <1>3, <2>1 DEF UntracksBacked
    <3> QED BY <1>1, <2>1, <3>1
  <2>2. CASE i = Len(s) + 1
    <3>1. PICK j \in DOMAIN s : s[j].kind = "body" /\ s[j].who = f.prev
      BY <1>1, <1>3, <2>2 DEF BodiesIn
    <3>2. j < i
      BY <1>1, <2>2
    <3> QED BY <1>1, <2>2, <3>1, <3>2
  <2> QED BY <1>1, <2>1, <2>2
<1> QED BY <1>2, <1>3 DEF t, UntracksBacked

LEMMA PoppedBodies ==
  ASSUME StackOK, stack # <<>>, UntracksBacked(stack)
  PROVE  /\ UntracksBacked(Under)
         /\ Top.kind # "body" => BodiesIn(Under) = Bodies
         /\ Top.kind = "untrack" /\ Top.prev # None => Top.prev \in BodiesIn(Under)
<1>0. stack \in Seq(Frames)
  BY DEF StackOK
<1>1. /\ Top = stack[Len(stack)] /\ Len(stack) \in DOMAIN stack /\ Len(stack) \in Nat
      /\ DOMAIN stack = 1..Len(stack) /\ DOMAIN Under = 1..(Len(stack) - 1)
      /\ \A i \in DOMAIN Under : i \in DOMAIN stack /\ Under[i] = stack[i]
      /\ \A i \in DOMAIN stack : i \in DOMAIN Under \/ i = Len(stack)
  BY <1>0, TopOfStack
<1>2. ASSUME NEW i \in DOMAIN stack, NEW j \in DOMAIN stack, j < i PROVE j \in DOMAIN Under
  BY <1>1, <1>2
<1>3. UntracksBacked(Under)
  <2> SUFFICES ASSUME NEW i \in DOMAIN Under, Under[i].kind = "untrack", Under[i].prev # None
               PROVE  \E j \in DOMAIN Under : j < i /\ Under[j].kind = "body" /\ Under[j].who = Under[i].prev
    BY DEF UntracksBacked
  <2>1. PICK j \in DOMAIN stack : j < i /\ stack[j].kind = "body" /\ stack[j].who = stack[i].prev
    BY <1>1 DEF UntracksBacked
  <2> QED BY <1>1, <1>2, <2>1
<1>4. Top.kind # "body" => BodiesIn(Under) = Bodies
  <2> SUFFICES ASSUME Top.kind # "body" PROVE BodiesIn(Under) = Bodies
    OBVIOUS
  <2>1. ASSUME NEW x, x \in BodiesIn(Under) PROVE x \in Bodies
    BY <1>1, <2>1 DEF BodiesIn, Bodies
  <2>2. ASSUME NEW x, x \in Bodies PROVE x \in BodiesIn(Under)
    BY <1>1, <2>2 DEF BodiesIn, Bodies
  <2> QED BY <2>1, <2>2
<1>5. ASSUME Top.kind = "untrack", Top.prev # None PROVE Top.prev \in BodiesIn(Under)
  <2>1. PICK j \in DOMAIN stack : j < Len(stack) /\ stack[j].kind = "body" /\ stack[j].who = Top.prev
    BY <1>1, <1>5 DEF UntracksBacked
  <2>2. j \in DOMAIN Under /\ Under[j] = stack[j]
    BY <1>1, <2>1
  <2> QED BY <2>1, <2>2 DEF BodiesIn
<1> QED BY <1>3, <1>4, <1>5

\* Steps that leave the context alone, or clear it, and end no body.
LEMMA ContextKept ==
  ASSUME ContextInv, UntracksBacked(stack'), BodiesIn(stack) \subseteq BodiesIn(stack'),
         active' \in {active, None} \cup BodiesIn(stack'),
         registration' \in {registration, None} \cup BodiesIn(stack')
  PROVE  ContextInv'
<1>1. Bodies = BodiesIn(stack) /\ Bodies' = BodiesIn(stack')
  BY DEF Bodies, BodiesIn
<1>2. ContextIsClean'
  BY <1>1 DEF ContextInv, ContextIsClean
<1> QED BY <1>2 DEF ContextInv, UntracksBacked

LEMMA ContextPushed ==
  ASSUME StackOK, ContextInv, NEW f \in Frames, stack' = Append(stack, f),
         f.kind = "untrack" /\ f.prev # None => f.prev \in Bodies,
         active' \in {active, None} \/ (f.kind = "body" /\ active' = f.who),
         registration' \in {registration, None} \/ (f.kind = "body" /\ registration' = f.who)
  PROVE  ContextInv'
<1>1. Bodies = BodiesIn(stack) /\ stack \in Seq(Frames) /\ UntracksBacked(stack)
  BY DEF Bodies, BodiesIn, StackOK, ContextInv
<1>2. /\ BodiesIn(stack) \subseteq BodiesIn(stack') /\ UntracksBacked(stack')
      /\ f.kind = "body" => f.who \in BodiesIn(stack')
  BY <1>1, PushedBodies
<1> QED BY <1>2, ContextKept

LEMMA ContextPopped ==
  ASSUME StackOK, ContextInv, stack # <<>>, Top.kind # "body", stack' = Under,
         active' \in {active, None} \/ (Top.kind = "untrack" /\ active' = Top.prev),
         registration' = registration
  PROVE  ContextInv'
<1>1. Bodies = BodiesIn(stack) /\ UntracksBacked(stack)
  BY DEF Bodies, BodiesIn, ContextInv
<1>2. /\ BodiesIn(stack') = BodiesIn(stack) /\ UntracksBacked(stack')
      /\ Top.kind = "untrack" /\ Top.prev # None => Top.prev \in BodiesIn(stack')
  BY <1>1, PoppedBodies
<1> QED BY <1>2, ContextKept

LEMMA ContextOfRound ==
  ASSUME StackOK, ContextInv, TopIs("flush"), NEW q \in SUBSET Runners
  PROVE  LET s == Append(Under, [Top EXCEPT !.round = q]) IN
         s \in Seq(Frames) /\ UntracksBacked(s) /\ BodiesIn(stack) \subseteq BodiesIn(s)
<1> DEFINE g == [Top EXCEPT !.round = q]
<1>1. stack # <<>> /\ Top.kind = "flush" /\ stack \in Seq(Frames) /\ UntracksBacked(stack)
  BY DEF TopIs, StackOK, ContextInv
<1>2. g \in Frames /\ g.kind = "flush"
  BY <1>1, TopIsFrame DEF StackOK
<1> HIDE DEF g
<1>3. Under \in Seq(Frames) /\ UntracksBacked(Under) /\ BodiesIn(Under) = BodiesIn(stack)
  <2>1. Under \in Seq(Frames)
    BY <1>1, TopOfStack
  <2>2. Bodies = BodiesIn(stack)
    BY DEF Bodies, BodiesIn
  <2> QED BY <1>1, <2>1, <2>2, PoppedBodies
<1>4. Append(Under, g) \in Seq(Frames)
  BY <1>2, <1>3, PushedFrame
<1> QED BY <1>2, <1>3, <1>4, PushedBodies DEF g

LEMMA ContextNext == TypeOK /\ ContextInv /\ [Next]_vars => ContextInv'
<1> SUFFICES ASSUME TypeOK, ContextInv, [Next]_vars PROVE ContextInv'
  OBVIOUS
<1> USE DEF context
<1>0. StackOK /\ ContextOK /\ UntracksBacked(stack)
  BY TypeOKIs DEF ContextInv
<1>1. ASSUME stack' = stack, active' \in {active, None}, registration' \in {registration, None}
      PROVE  ContextInv'
  BY <1>0, <1>1, ContextKept
<1>2. ASSUME NEW e \in Effects, CreateEffect(e) PROVE ContextInv'
  <2> DEFINE f == [Frame("body", e) EXCEPT !.first = TRUE]
  <2>1. f \in Frames /\ f.kind = "body" /\ f.who = e
    BY BodyFrame
  <2>2. stack' = Append(stack, f) /\ active' = e /\ registration' = e
    BY <1>2 DEF CreateEffect, StartBody
  <2> HIDE DEF f
  <2> QED BY <1>0, <2>1, <2>2, ContextPushed
<1>3. ASSUME NEW r \in Roots, CreateRoot(r) PROVE ContextInv'
  <2> DEFINE f == Frame("root", r)
  <2>1. f \in Frames /\ f.kind = "root"
    BY RootFrame
  <2>2. stack' = Append(stack, f) /\ active' = active /\ registration' = registration
    BY <1>3 DEF CreateRoot
  <2> HIDE DEF f
  <2> QED BY <1>0, <2>1, <2>2, ContextPushed
<1>4. CASE Untrack
  <2> DEFINE f == [Frame("untrack", None) EXCEPT !.prev = active]
  <2>1. f \in Frames /\ f.kind = "untrack" /\ f.prev = active
    BY <1>0, UntrackFrame DEF ContextOK
  <2>2. stack' = Append(stack, f) /\ active' = None /\ registration' = registration
    BY <1>4 DEF Untrack
  <2>3. active # None => active \in Bodies
    BY DEF ContextInv, ContextIsClean
  <2> HIDE DEF f
  <2> QED BY <1>0, <2>1, <2>2, <2>3, ContextPushed
<1>5. CASE BeginFlush
  <2> DEFINE f == Frame("flush", None)
  <2>1. f \in Frames /\ f.kind = "flush"
    BY FlushFrame
  <2>2. stack' = Append(stack, f) /\ active' = active /\ registration' = registration
    BY <1>5 DEF BeginFlush
  <2> HIDE DEF f
  <2> QED BY <1>0, <2>1, <2>2, ContextPushed
<1>6. CASE RootEnds
  <2>1. /\ stack # <<>> /\ Top.kind = "root" /\ stack' = Under
        /\ active' = active /\ registration' = registration
    BY <1>6 DEF RootEnds, TopIs
  <2> QED BY <1>0, <2>1, ContextPopped
<1>7. CASE RootThrows
  <2>1. /\ stack # <<>> /\ Top.kind = "root" /\ stack' = Under
        /\ active' = active /\ registration' = registration
    BY <1>7 DEF RootThrows, TopIs
  <2> QED BY <1>0, <2>1, ContextPopped
<1>8. CASE UntrackEnds
  <2>1. /\ stack # <<>> /\ Top.kind = "untrack" /\ stack' = Under
        /\ active' = Top.prev /\ registration' = registration
    BY <1>8 DEF UntrackEnds, TopIs
  <2> QED BY <1>0, <2>1, ContextPopped
<1>9. ASSUME stack # <<>>, stack' = Under, active' = None, registration' = None PROVE ContextInv'
  BY <1>0, <1>9, PoppedBodies DEF ContextInv, ContextIsClean
<1>10. CASE BodyReturns
  BY <1>9, <1>10 DEF BodyReturns, TopIs, Leave
<1>11. ASSUME NEW b \in BOOLEAN, BodyThrows(b) PROVE ContextInv'
  BY <1>9, <1>11 DEF BodyThrows, TopIs, Leave
<1>12. ASSUME TopIs("flush"), NEW q \in SUBSET Runners,
              stack' = Append(Under, [Top EXCEPT !.round = q]),
              active' \in {active, None}, registration' \in {registration, None}
       PROVE  ContextInv'
  <2>1. UntracksBacked(stack') /\ BodiesIn(stack) \subseteq BodiesIn(stack')
    BY <1>0, <1>12, ContextOfRound
  <2> QED BY <1>12, <2>1, ContextKept
<1>13. CASE NextRound
  <2> DEFINE q == {r \in queue : IsLive(r)}
  <2>1. /\ TopIs("flush") /\ stack' = Append(Under, [Top EXCEPT !.round = q])
        /\ active' = active /\ registration' = registration
    BY <1>13 DEF NextRound
  <2>2. q \in SUBSET Runners
    BY DEF TypeOK
  <2> HIDE DEF q
  <2> QED BY <1>12, <2>1, <2>2
<1>14. ASSUME NEW r \in Runners, SkipDisposed(r) PROVE ContextInv'
  <2>1. /\ TopIs("flush") /\ stack' = Append(Under, [Top EXCEPT !.round = Top.round \ {r}])
        /\ active' = active /\ registration' = registration
    BY <1>14 DEF SkipDisposed, Rest
  <2>2. Top.round \ {r} \in SUBSET Runners
    BY <1>0, <2>1, TopKinds DEF TopIs
  <2> QED BY <1>12, <2>1, <2>2
<1>15. ASSUME NEW c \in Computeds, RunInner(c) PROVE ContextInv'
  <2>1. /\ TopIs("flush") /\ stack' = Append(Under, [Top EXCEPT !.round = Top.round \ {c}])
        /\ active' = None /\ registration' = None
    BY <1>15 DEF RunInner, Rest
  <2>2. Top.round \ {c} \in SUBSET Runners
    BY <1>0, <2>1, TopKinds DEF TopIs
  <2> QED BY <1>12, <2>1, <2>2
<1>16. ASSUME NEW e \in Effects, RunEffect(e) PROVE ContextInv'
  <2> DEFINE f == [Frame("body", e) EXCEPT !.first = FALSE]
             s == Append(Under, [Top EXCEPT !.round = Top.round \ {e}])
  <2>1. /\ TopIs("flush") /\ stack' = Append(s, f) /\ active' = e /\ registration' = e
    BY <1>16 DEF RunEffect, StartBody, Rest
  <2>0. Top.round \ {e} \in SUBSET Runners
    BY <1>0, <2>1, TopKinds DEF TopIs
  <2>2. f \in Frames /\ f.kind = "body" /\ f.who = e
    BY BodyFrame
  <2>3. s \in Seq(Frames) /\ UntracksBacked(s) /\ BodiesIn(stack) \subseteq BodiesIn(s)
    BY <1>0, <2>0, <2>1, ContextOfRound
  <2> HIDE DEF f, s
  <2>4. /\ BodiesIn(stack) \subseteq BodiesIn(stack') /\ UntracksBacked(stack')
        /\ e \in BodiesIn(stack')
    BY <2>1, <2>2, <2>3, PushedBodies
  <2> QED BY <2>1, <2>4, ContextKept
<1>17. CASE EndFlush
  <2>1. /\ stack # <<>> /\ Top.kind = "flush" /\ stack' = Under
        /\ active' = active /\ registration' = registration
    BY <1>17 DEF EndFlush, TopIs
  <2> QED BY <1>0, <2>1, ContextPopped
<1>18. CASE UNCHANGED vars
  BY <1>1, <1>18 DEF vars
<1>19. CASE Call
  <2>1. ASSUME NEW n \in Nodes, Get(n) PROVE ContextInv'
    BY <1>1, <2>1 DEF Get
  <2>2. ASSUME NEW n \in Signals, DisposeSignal(n) PROVE ContextInv'
    BY <1>1, <2>2 DEF DisposeSignal
  <2>3. ASSUME NEW n \in Signals, NEW v \in Values, Set(n, v) PROVE ContextInv'
    BY <1>1, <2>3 DEF Set
  <2>4. ASSUME NEW c \in Computeds, GetUninitialized(c) PROVE ContextInv'
    BY <1>1, <2>4 DEF GetUninitialized
  <2>5. ASSUME NEW c \in Computeds, CreateComputed(c) PROVE ContextInv'
    BY <1>1, <2>5 DEF CreateComputed
  <2>6. ASSUME NEW e \in Effects, DisposeEffect(e) PROVE ContextInv'
    BY <1>1, <2>6 DEF DisposeEffect
  <2>7. ASSUME NEW r \in Roots, DisposeRoot(r) PROVE ContextInv'
    BY <1>1, <2>7 DEF DisposeRoot
  <2>8. ASSUME NEW h \in Hooks, OnCleanup(h) PROVE ContextInv'
    BY <1>1, <2>8 DEF OnCleanup
  <2> QED BY <1>2, <1>3, <1>4, <1>19, <2>1, <2>2, <2>3, <2>4, <2>5, <2>6, <2>7, <2>8 DEF Call
<1>20. CASE Return
  BY <1>20, <1>6, <1>7, <1>8, <1>10, <1>11 DEF Return
<1>21. CASE FlushStep
  BY <1>21, <1>13, <1>14, <1>15, <1>16, <1>17 DEF FlushStep
<1> QED BY <1>5, <1>18, <1>19, <1>20, <1>21 DEF Next

\* effect.ts:288 and signal.ts:251: whatever bodies do, return or throw, with untrack
\* and flushes inside each other, the context names no effect that is not running.
THEOREM ContextNamesRunning == Spec => []ContextIsClean
<1>1. Init => ContextInv
  BY DEF Init, ContextInv, ContextIsClean, UntracksBacked
<1>2. TypeOK /\ ContextInv /\ [Next]_vars => ContextInv'
  BY ContextNext
<1>3. ContextInv => ContextIsClean
  BY DEF ContextInv
<1> QED BY <1>1, <1>2, <1>3, TypeCorrect, PTL DEF Spec
-----------------------------------------------------------------------------
(* Subscriptions and disposal, where user code does not call untrack. *)

NoUntracks == \A i \in DOMAIN stack : stack[i].kind # "untrack"

\* A computed's inner effect reads one signal.
InnerReadsSource == \A c \in Computeds, n \in Nodes : c \in subs[n] => n = Source[c]

SubscriptionInv ==
  /\ NoUntracks
  /\ active # None => registration = active
  /\ InnerReadsSource
  /\ SubscriptionsHaveCleanups

LEMMA NoUntracksKept ==
  ASSUME StackOK, NoUntracks
  PROVE  /\ stack' = stack => NoUntracks'
         /\ \A f \in Frames : f.kind # "untrack" /\ stack' = Append(stack, f) => NoUntracks'
         /\ stack # <<>> /\ stack' = Under => NoUntracks'
         /\ stack # <<>> => Top.kind # "untrack"
<1>1. stack \in Seq(Frames)
  BY DEF StackOK
<1>2. ASSUME NEW f \in Frames, f.kind # "untrack", stack' = Append(stack, f) PROVE NoUntracks'
  BY <1>1, <1>2, PushedFrame DEF NoUntracks
<1>3. ASSUME stack # <<>>, stack' = Under PROVE NoUntracks'
  BY <1>1, <1>3, TopOfStack DEF NoUntracks
<1>4. stack # <<>> => Top.kind # "untrack"
  BY <1>1, TopOfStack DEF NoUntracks
<1> QED BY <1>2, <1>3, <1>4 DEF NoUntracks

LEMMA NoUntracksInFlush ==
  ASSUME StackOK, NoUntracks, TopIs("flush"), NEW q \in SUBSET Runners,
         \/ stack' = Append(Under, [Top EXCEPT !.round = q])
         \/ \E f \in Frames : f.kind # "untrack"
                              /\ stack' = Append(Append(Under, [Top EXCEPT !.round = q]), f)
  PROVE  NoUntracks'
<1> DEFINE g == [Top EXCEPT !.round = q]
<1>1. stack \in Seq(Frames) /\ stack # <<>> /\ Top.kind = "flush"
  BY DEF StackOK, TopIs
<1>2. g \in Frames /\ g.kind = "flush"
  BY <1>1, TopIsFrame DEF StackOK
<1> HIDE DEF g
<1>3. Under \in Seq(Frames) /\ \A i \in DOMAIN Under : Under[i].kind # "untrack"
  BY <1>1, TopOfStack DEF NoUntracks
<1>4. Append(Under, g) \in Seq(Frames)
      /\ \A i \in DOMAIN Append(Under, g) : Append(Under, g)[i].kind # "untrack"
  BY <1>2, <1>3, PushedFrame
<1>5. CASE stack' = Append(Under, g)
  BY <1>4, <1>5 DEF NoUntracks
<1>6. ASSUME NEW f \in Frames, f.kind # "untrack", stack' = Append(Append(Under, g), f)
      PROVE  NoUntracks'
  BY <1>4, <1>6, PushedFrame DEF NoUntracks
<1> QED BY <1>5, <1>6 DEF g

\* The part of SubscriptionInv about subscriptions.
SubscribersInv == InnerReadsSource /\ SubscriptionsHaveCleanups

LEMMA SubscribersOfStart ==
  ASSUME TypeOK, SubscribersInv, NEW e \in Effects, NEW below, NEW b \in BOOLEAN, StartBody(e, below, b)
  PROVE  SubscribersInv'
BY RunnersAreOwners DEF TypeOK, SubscribersInv, InnerReadsSource, SubscriptionsHaveCleanups, StartBody

LEMMA SubscribersOfDisposal ==
  ASSUME TypeOK, SubscribersInv, NEW o \in Owners, DisposeOwner(o)
  PROVE  SubscribersInv'
<1> DEFINE gone == IF o \in disposed THEN {} ELSE Below(o)
           stopped == {r \in Runners : OwnerOf(r) \in gone}
<1>1. /\ subs' = [n \in Nodes |-> {r \in subs[n] : ~(r \in stopped /\ n \in cleanups[r])}]
      /\ cleanups' = [r \in Runners |-> IF r \in stopped THEN {} ELSE cleanups[r]]
  BY DEF DisposeOwner
<1> HIDE DEF gone, stopped
<1>2. InnerReadsSource'
  BY <1>1, RunnersAreOwners DEF TypeOK, SubscribersInv, InnerReadsSource
<1>3. SubscriptionsHaveCleanups'
  BY <1>1 DEF TypeOK, SubscribersInv, SubscriptionsHaveCleanups
<1> QED BY <1>2, <1>3 DEF SubscribersInv

LEMMA SubscribersNext ==
  ASSUME TypeOK, SubscriptionInv, [Next]_vars
  PROVE  SubscribersInv'
<1> USE DEF tree, status, context
<1>0. SubscribersInv /\ StackOK
  BY TypeOKIs DEF SubscriptionInv, SubscribersInv
<1>1. CASE UNCHANGED <<subs, cleanups>>
  BY <1>0, <1>1 DEF SubscribersInv, InnerReadsSource, SubscriptionsHaveCleanups
<1>2. ASSUME NEW n \in Nodes, Get(n) PROVE SubscribersInv'
  <2>1. Track({n}) /\ (active # None => registration = active /\ active \in Effects)
    BY <1>2 DEF Get, SubscriptionInv, TypeOK
  <2>2. InnerReadsSource'
    <3> SUFFICES ASSUME NEW c \in Computeds, NEW m \in Nodes, c \in subs'[m] PROVE m = Source[c]
      BY DEF InnerReadsSource
    <3>1. c \in subs[m]
      BY <2>1, KindsDiffer DEF Track, TypeOK
    <3> QED BY <3>1 DEF SubscriptionInv, InnerReadsSource
  <2>3. SubscriptionsHaveCleanups'
    BY <1>0, <2>1, RunnersAreOwners DEF Track, TypeOK, SubscribersInv, SubscriptionsHaveCleanups
  <2> QED BY <2>2, <2>3 DEF SubscribersInv
<1>3. ASSUME NEW n \in Signals, DisposeSignal(n) PROVE SubscribersInv'
  BY <1>0, <1>3 DEF DisposeSignal, TypeOK, SubscribersInv, InnerReadsSource, SubscriptionsHaveCleanups
<1>4. ASSUME NEW c \in Computeds, GetUninitialized(c) PROVE SubscribersInv'
  <2> DEFINE read == {Source[c]} \cup (IF Devtools THEN {c} ELSE {})
             readers == IF active = None THEN {} ELSE {active}
  <2>1. /\ subs' = [n \in Nodes |->
                      CASE n = Source[c] -> subs[n] \cup readers \cup {c}
                        [] n = c -> IF Devtools THEN readers ELSE {}
                        [] OTHER -> subs[n]]
        /\ cleanups' = [r \in Runners |->
                          CASE r = c -> {Source[c]}
                            [] r # c /\ r = registration /\ active # None -> cleanups[r] \cup read
                            [] OTHER -> cleanups[r]]
    BY <1>4 DEF GetUninitialized
  <2>2. /\ active # None => registration = active /\ active \in Effects /\ active # c
        /\ Source[c] \in Nodes /\ c \in Nodes /\ c \in Runners /\ Source[c] # c
    BY KindsDiffer, RunnersAreOwners DEF SubscriptionInv, TypeOK
  <2>3. InnerReadsSource'
    <3> SUFFICES ASSUME NEW d \in Computeds, NEW m \in Nodes, d \in subs'[m] PROVE m = Source[d]
      BY DEF InnerReadsSource
    <3>1. d \notin readers
      BY <2>2, KindsDiffer
    <3>2. CASE d = c
      <4>1. m = Source[c] \/ d \in subs[m]
        <5> HIDE DEF read, readers
        <5> QED BY <2>1, <2>2, <3>1, <3>2
      <4> QED BY <1>0, <3>2, <4>1 DEF SubscribersInv, InnerReadsSource
    <3>3. CASE d # c
      <4>1. d \in subs[m]
        <5> HIDE DEF read, readers
        <5> QED BY <2>1, <2>2, <3>1, <3>3
      <4> QED BY <1>0, <4>1 DEF SubscribersInv, InnerReadsSource
    <3> QED BY <3>2, <3>3
  <2>4. SubscriptionsHaveCleanups'
    <3> SUFFICES ASSUME NEW r \in Runners, NEW m \in Nodes, r \in subs'[m] PROVE m \in cleanups'[r]
      BY DEF SubscriptionsHaveCleanups
    <3>1. CASE r = c
      <4>1. m = Source[c]
        BY <2>3, <3>1 DEF InnerReadsSource
      <4> QED BY <2>1, <2>2, <3>1, <4>1
    <3>2. CASE r # c /\ r \in readers /\ m \in read
      <4>1. r = registration /\ active # None
        BY <2>2, <3>2
      <4> QED BY <2>1, <3>2, <4>1
    <3>3. CASE r # c /\ (r \notin readers \/ m \notin read)
      <4>1. r \in subs[m]
        BY <2>1, <2>2, <3>3
      <4>2. cleanups[r] \subseteq cleanups'[r]
        <5> HIDE DEF read, readers
        <5> QED BY <2>1, <3>3
      <4> QED BY <1>0, <4>1, <4>2 DEF SubscribersInv, SubscriptionsHaveCleanups
    <3> QED BY <3>1, <3>2, <3>3
  <2> QED BY <2>3, <2>4 DEF SubscribersInv
<1>5. ASSUME NEW e \in Effects, CreateEffect(e) PROVE SubscribersInv'
  BY <1>0, <1>5, SubscribersOfStart DEF CreateEffect
<1>6. ASSUME NEW e \in Effects, DisposeEffect(e) PROVE SubscribersInv'
  BY <1>0, <1>6, RunnersAreOwners, SubscribersOfDisposal DEF DisposeEffect
<1>7. ASSUME NEW r \in Roots, DisposeRoot(r) PROVE SubscribersInv'
  BY <1>0, <1>7, RunnersAreOwners, SubscribersOfDisposal DEF DisposeRoot
<1>8. CASE RootThrows
  <2>1. Top.who \in Owners /\ (DisposeOwner(Top.who) \/ UNCHANGED <<subs, cleanups>>)
    BY <1>0, <1>8, TopKinds, RunnersAreOwners DEF RootThrows, TopIs
  <2> QED BY <1>0, <1>1, <2>1, SubscribersOfDisposal
<1>9. ASSUME NEW b \in BOOLEAN, BodyThrows(b) PROVE SubscribersInv'
  <2>1. Top.who \in Effects /\ Top.who \in Runners
    BY <1>0, <1>9, TopKinds, RunnersAreOwners DEF BodyThrows, TopIs
  <2>2. /\ subs' = [n \in Nodes |-> IF n \in cleanups[Top.who] THEN subs[n] \ {Top.who} ELSE subs[n]]
        /\ cleanups' = [cleanups EXCEPT ![Top.who] = {}]
    BY <1>9 DEF BodyThrows
  <2> QED BY <1>0, <2>1, <2>2, RunnersAreOwners
          DEF TypeOK, SubscribersInv, InnerReadsSource, SubscriptionsHaveCleanups
<1>10. ASSUME NEW e \in Effects, RunEffect(e) PROVE SubscribersInv'
  BY <1>0, <1>10, SubscribersOfStart DEF RunEffect
<1>11. ASSUME NEW c \in Computeds, RunInner(c) PROVE SubscribersInv'
  <2>1. /\ subs' = [subs EXCEPT ![Source[c]] = @ \cup {c}]
        /\ cleanups' = [cleanups EXCEPT ![c] = {Source[c]}]
        /\ Source[c] \in Nodes /\ c \in Runners
    BY <1>11, KindsDiffer, RunnersAreOwners DEF RunInner
  <2> QED BY <1>0, <2>1, RunnersAreOwners
          DEF TypeOK, SubscribersInv, InnerReadsSource, SubscriptionsHaveCleanups
<1>12. CASE Call
  <2>1. ASSUME NEW n \in Signals, NEW v \in Values, Set(n, v) PROVE UNCHANGED <<subs, cleanups>>
    BY <2>1 DEF Set
  <2>2. ASSUME NEW c \in Computeds, CreateComputed(c) PROVE UNCHANGED <<subs, cleanups>>
    BY <2>2 DEF CreateComputed
  <2>3. ASSUME NEW r \in Roots, CreateRoot(r) PROVE UNCHANGED <<subs, cleanups>>
    BY <2>3 DEF CreateRoot
  <2>4. ASSUME NEW h \in Hooks, OnCleanup(h) PROVE UNCHANGED <<subs, cleanups>>
    BY <2>4 DEF OnCleanup
  <2>5. Untrack => UNCHANGED <<subs, cleanups>>
    BY DEF Untrack
  <2> QED BY <1>1, <1>2, <1>3, <1>4, <1>5, <1>6, <1>7, <1>12, <2>1, <2>2, <2>3, <2>4, <2>5 DEF Call
<1>13. CASE Return
  <2>1. RootEnds \/ UntrackEnds \/ BodyReturns => UNCHANGED <<subs, cleanups>>
    BY DEF RootEnds, UntrackEnds, BodyReturns
  <2> QED BY <1>1, <1>8, <1>9, <1>13, <2>1 DEF Return
<1>14. CASE FlushStep
  <2>1. NextRound \/ EndFlush => UNCHANGED <<subs, cleanups>>
    BY DEF NextRound, EndFlush
  <2>2. ASSUME NEW r \in Runners, SkipDisposed(r) PROVE UNCHANGED <<subs, cleanups>>
    BY <2>2 DEF SkipDisposed
  <2> QED BY <1>1, <1>10, <1>11, <1>14, <2>1, <2>2 DEF FlushStep
<1>15. CASE BeginFlush
  BY <1>1, <1>15 DEF BeginFlush
<1>16. CASE UNCHANGED vars
  BY <1>1, <1>16 DEF vars
<1> QED BY <1>12, <1>13, <1>14, <1>15, <1>16 DEF Next

LEMMA SubscriptionNext ==
  ASSUME ~Untracking, TypeOK, SubscriptionInv, [Next]_vars
  PROVE  SubscriptionInv'
<1> USE DEF context
<1>0. StackOK /\ NoUntracks /\ (active # None => registration = active)
  BY TypeOKIs DEF SubscriptionInv
<1>1. SubscribersInv'
  BY SubscribersNext
<1> SUFFICES NoUntracks' /\ (active' # None => registration' = active')
  BY <1>1 DEF SubscriptionInv, SubscribersInv, InnerReadsSource
<1> DEFINE Goal == NoUntracks' /\ (active' # None => registration' = active')
<1>2. ASSUME stack' = stack, \/ active' = active /\ registration' = registration
                             \/ active' = None /\ registration' = None
      PROVE  Goal
  BY <1>0, <1>2, NoUntracksKept
<1>3. ASSUME NEW e \in Effects, CreateEffect(e) PROVE Goal
  <2> DEFINE f == [Frame("body", e) EXCEPT !.first = TRUE]
  <2>1. f \in Frames /\ f.kind # "untrack"
    BY BodyFrame
  <2>2. stack' = Append(stack, f) /\ active' = e /\ registration' = e
    BY <1>3 DEF CreateEffect, StartBody
  <2> HIDE DEF f
  <2> QED BY <1>0, <2>1, <2>2, NoUntracksKept
<1>4. ASSUME NEW r \in Roots, CreateRoot(r) PROVE Goal
  <2> DEFINE f == Frame("root", r)
  <2>1. f \in Frames /\ f.kind # "untrack"
    BY RootFrame
  <2>2. stack' = Append(stack, f) /\ active' = active /\ registration' = registration
    BY <1>4 DEF CreateRoot
  <2> HIDE DEF f
  <2> QED BY <1>0, <2>1, <2>2, NoUntracksKept
<1>5. CASE BeginFlush
  <2> DEFINE f == Frame("flush", None)
  <2>1. f \in Frames /\ f.kind # "untrack"
    BY FlushFrame
  <2>2. stack' = Append(stack, f) /\ active' = active /\ registration' = registration
    BY <1>5 DEF BeginFlush
  <2> HIDE DEF f
  <2> QED BY <1>0, <2>1, <2>2, NoUntracksKept
<1>6. ASSUME stack # <<>>, stack' = Under, \/ active' = active /\ registration' = registration
                                           \/ active' = None /\ registration' = None
      PROVE  Goal
  BY <1>0, <1>6, NoUntracksKept
<1>7. CASE Return
  <2>1. ~UntrackEnds
    BY <1>0, NoUntracksKept DEF UntrackEnds, TopIs
  <2>2. CASE RootEnds
    BY <1>6, <2>2 DEF RootEnds, TopIs
  <2>3. CASE RootThrows
    BY <1>6, <2>3 DEF RootThrows, TopIs
  <2>4. CASE BodyReturns
    BY <1>6, <2>4 DEF BodyReturns, TopIs, Leave
  <2>5. ASSUME NEW b \in BOOLEAN, BodyThrows(b) PROVE Goal
    BY <1>6, <2>5 DEF BodyThrows, TopIs, Leave
  <2> QED BY <1>7, <2>1, <2>2, <2>3, <2>4, <2>5 DEF Return
<1>8. ASSUME TopIs("flush"), NEW q \in SUBSET Runners,
             stack' = Append(Under, [Top EXCEPT !.round = q]),
             \/ active' = active /\ registration' = registration
             \/ active' = None /\ registration' = None
      PROVE  Goal
  BY <1>0, <1>8, NoUntracksInFlush
<1>9. CASE NextRound
  <2> DEFINE q == {r \in queue : IsLive(r)}
  <2>1. /\ TopIs("flush") /\ stack' = Append(Under, [Top EXCEPT !.round = q])
        /\ active' = active /\ registration' = registration
    BY <1>9 DEF NextRound
  <2>2. q \in SUBSET Runners
    BY DEF TypeOK
  <2> HIDE DEF q
  <2> QED BY <1>8, <2>1, <2>2
<1>10. ASSUME NEW r \in Runners, SkipDisposed(r) PROVE Goal
  <2>1. /\ TopIs("flush") /\ stack' = Append(Under, [Top EXCEPT !.round = Top.round \ {r}])
        /\ active' = active /\ registration' = registration
    BY <1>10 DEF SkipDisposed, Rest
  <2>2. Top.round \ {r} \in SUBSET Runners
    BY <1>0, <2>1, TopKinds DEF TopIs
  <2> QED BY <1>8, <2>1, <2>2
<1>11. ASSUME NEW c \in Computeds, RunInner(c) PROVE Goal
  <2>1. /\ TopIs("flush") /\ stack' = Append(Under, [Top EXCEPT !.round = Top.round \ {c}])
        /\ active' = None /\ registration' = None
    BY <1>11 DEF RunInner, Rest
  <2>2. Top.round \ {c} \in SUBSET Runners
    BY <1>0, <2>1, TopKinds DEF TopIs
  <2> QED BY <1>8, <2>1, <2>2
<1>12. ASSUME NEW e \in Effects, RunEffect(e) PROVE Goal
  <2> DEFINE f == [Frame("body", e) EXCEPT !.first = FALSE]
  <2>1. /\ TopIs("flush") /\ active' = e /\ registration' = e
        /\ stack' = Append(Append(Under, [Top EXCEPT !.round = Top.round \ {e}]), f)
    BY <1>12 DEF RunEffect, StartBody, Rest
  <2>2. Top.round \ {e} \in SUBSET Runners
    BY <1>0, <2>1, TopKinds DEF TopIs
  <2>3. f \in Frames /\ f.kind = "body"
    BY BodyFrame
  <2> HIDE DEF f
  <2> QED BY <1>0, <2>1, <2>2, <2>3, NoUntracksInFlush
<1>13. CASE EndFlush
  BY <1>6, <1>13 DEF EndFlush, TopIs
<1>14. CASE UNCHANGED vars
  BY <1>2, <1>14 DEF vars
<1>15. CASE Call
  <2>1. ASSUME NEW n \in Nodes, Get(n) PROVE Goal
    BY <1>2, <2>1 DEF Get
  <2>2. ASSUME NEW n \in Signals, DisposeSignal(n) PROVE Goal
    BY <1>2, <2>2 DEF DisposeSignal
  <2>3. ASSUME NEW n \in Signals, NEW v \in Values, Set(n, v) PROVE Goal
    BY <1>2, <2>3 DEF Set
  <2>4. ASSUME NEW c \in Computeds, GetUninitialized(c) PROVE Goal
    BY <1>2, <2>4 DEF GetUninitialized
  <2>5. ASSUME NEW c \in Computeds, CreateComputed(c) PROVE Goal
    BY <1>2, <2>5 DEF CreateComputed
  <2>6. ASSUME NEW e \in Effects, DisposeEffect(e) PROVE Goal
    BY <1>2, <2>6 DEF DisposeEffect
  <2>7. ASSUME NEW r \in Roots, DisposeRoot(r) PROVE Goal
    BY <1>2, <2>7 DEF DisposeRoot
  <2>8. ASSUME NEW h \in Hooks, OnCleanup(h) PROVE Goal
    BY <1>2, <2>8 DEF OnCleanup
  <2>9. ~Untrack
    BY DEF Untrack
  <2> QED BY <1>3, <1>4, <1>15, <2>1, <2>2, <2>3, <2>4, <2>5, <2>6, <2>7, <2>8, <2>9 DEF Call
<1>16. CASE FlushStep
  BY <1>9, <1>10, <1>11, <1>12, <1>13, <1>16 DEF FlushStep
<1> QED BY <1>5, <1>7, <1>14, <1>15, <1>16 DEF Next

LEMMA SubscriptionAlways == ASSUME ~Untracking PROVE Spec => [](TypeOK /\ SubscriptionInv)
<1>1. Init => TypeOK /\ SubscriptionInv
  BY TypeInit DEF Init, SubscriptionInv, NoUntracks, InnerReadsSource, SubscriptionsHaveCleanups
<1>2. TypeOK /\ SubscriptionInv /\ [Next]_vars => TypeOK' /\ SubscriptionInv'
  BY TypeNext, SubscriptionNext
<1> QED BY <1>1, <1>2, PTL DEF Spec

\* signal.ts:56-74: where user code does not call untrack, who is subscribed to a
\* signal has collected the cleanup that ends the subscription.
THEOREM SubscriptionsEnd == ASSUME ~Untracking PROVE Spec => []SubscriptionsHaveCleanups
<1>1. TypeOK /\ SubscriptionInv => SubscriptionsHaveCleanups
  BY DEF SubscriptionInv
<1> QED BY <1>1, SubscriptionAlways, PTL

-----------------------------------------------------------------------------
(* The owner tree. *)

Born == created \cup {Inner(c) : c \in initialized}

\* The effects in their first run, which get a dispose function when it ends.
FirstsIn(s) == {s[i].who : i \in {j \in DOMAIN s : s[j].kind = "body" /\ s[j].first}}

\* Owners that were not constructed yet are in no tree, and those that were
\* disposed are out of it.
TreeInv ==
  /\ initialized \subseteq created /\ handles \subseteq created
  /\ disposed \subseteq Born
  /\ \A x \in Owners : parent[x] # None => x \in Born /\ x \notin disposed
  /\ FirstsIn(stack) \subseteq created

\* What is below o is o and owners with a parent, and with one owner its children.
LEMMA BelowIsTree ==
  ASSUME TypeOK, NEW o \in Owners
  PROVE  /\ o \in Below(o) /\ Below(o) \subseteq Owners
         /\ \A x \in Below(o) : x = o \/ parent[x] # None
         /\ \A x \in Owners : parent[x] \in Below(o) => x \in Below(o)
<1>1. o \in Below(o) /\ Below(o) \subseteq Owners
  BY DEF Below
<1>2. ASSUME NEW x \in Below(o) PROVE x = o \/ parent[x] # None
  <2> DEFINE S == {o} \cup {y \in Owners : parent[y] # None}
  <2>1. S \in SUBSET Owners /\ o \in S
    OBVIOUS
  <2>2. ASSUME NEW y \in Owners, parent[y] \in S PROVE y \in S
    BY <2>2, KindsDiffer
  <2>3. x \in S
    <3> HIDE DEF S
    <3> QED BY <2>1, <2>2 DEF Below
  <2> QED BY <2>3
<1>3. ASSUME NEW x \in Owners, parent[x] \in Below(o) PROVE x \in Below(o)
  <2> SUFFICES ASSUME NEW S \in SUBSET Owners, o \in S, \A y \in Owners : parent[y] \in S => y \in S
               PROVE  x \in S
    BY DEF Below
  <2>1. parent[x] \in S
    BY <1>3 DEF Below
  <2> QED BY <2>1
<1> QED BY <1>1, <1>2, <1>3

LEMMA FirstsPushed ==
  ASSUME NEW s \in Seq(Frames), NEW f \in Frames
  PROVE  /\ FirstsIn(Append(s, f)) \subseteq FirstsIn(s) \cup {f.who}
         /\ ~(f.kind = "body" /\ f.first) => FirstsIn(Append(s, f)) \subseteq FirstsIn(s)
<1> DEFINE t == Append(s, f)
<1>1. /\ \A i \in DOMAIN s : i \in DOMAIN t /\ t[i] = s[i]
      /\ \A i \in DOMAIN t : i \in DOMAIN s \/ t[i] = f
  BY PushedFrame
<1> HIDE DEF t
<1> QED BY <1>1 DEF FirstsIn, t

LEMMA FirstsKept ==
  ASSUME StackOK, stack # <<>>
  PROVE  /\ FirstsIn(Under) \subseteq FirstsIn(stack)
         /\ Top.kind = "body" /\ Top.first => Top.who \in FirstsIn(stack)
         /\ \A q \in SUBSET Runners : Top.kind = "flush" =>
              FirstsIn(Append(Under, [Top EXCEPT !.round = q])) \subseteq FirstsIn(stack)
<1>1. stack \in Seq(Frames)
  BY DEF StackOK
<1>2. FirstsIn(Under) \subseteq FirstsIn(stack)
  BY <1>1, TopOfStack DEF FirstsIn
<1>3. Top.kind = "body" /\ Top.first => Top.who \in FirstsIn(stack)
  BY <1>1, TopOfStack DEF FirstsIn
<1>4. ASSUME NEW q \in SUBSET Runners, Top.kind = "flush"
      PROVE  FirstsIn(Append(Under, [Top EXCEPT !.round = q])) \subseteq FirstsIn(stack)
  <2> DEFINE g == [Top EXCEPT !.round = q]
  <2>1. g \in Frames /\ g.kind = "flush" /\ Under \in Seq(Frames)
    BY <1>1, <1>4, TopOfStack, TopIsFrame DEF StackOK
  <2> HIDE DEF g
  <2>2. FirstsIn(Append(Under, g)) \subseteq FirstsIn(Under)
    BY <2>1, FirstsPushed
  <2> QED BY <1>2, <2>2 DEF g
<1> QED BY <1>2, <1>3, <1>4

LEMMA FirstsNext ==
  ASSUME TypeOK, [Next]_vars
  PROVE  FirstsIn(stack') \subseteq FirstsIn(stack) \cup created'
<1>0. StackOK /\ ContextOK /\ stack \in Seq(Frames)
  BY TypeOKIs DEF StackOK
<1>1. CASE stack' = stack
  BY <1>1
<1>2. ASSUME NEW e \in Effects, CreateEffect(e) PROVE FirstsIn(stack') \subseteq FirstsIn(stack) \cup created'
  <2> DEFINE f == [Frame("body", e) EXCEPT !.first = TRUE]
  <2>1. f \in Frames /\ f.who = e
    BY BodyFrame
  <2>2. stack' = Append(stack, f) /\ e \in created'
    BY <1>2 DEF CreateEffect, StartBody
  <2> HIDE DEF f
  <2> QED BY <1>0, <2>1, <2>2, FirstsPushed
<1>3. ASSUME NEW f \in Frames, f.kind # "body", stack' = Append(stack, f)
      PROVE  FirstsIn(stack') \subseteq FirstsIn(stack) \cup created'
  BY <1>0, <1>3, FirstsPushed
<1>4. ASSUME NEW r \in Roots, CreateRoot(r) PROVE FirstsIn(stack') \subseteq FirstsIn(stack) \cup created'
  <2> DEFINE f == Frame("root", r)
  <2>1. f \in Frames /\ f.kind # "body"
    BY RootFrame
  <2>2. stack' = Append(stack, f)
    BY <1>4 DEF CreateRoot
  <2> HIDE DEF f
  <2> QED BY <1>3, <2>1, <2>2
<1>5. CASE Untrack
  <2> DEFINE f == [Frame("untrack", None) EXCEPT !.prev = active]
  <2>1. f \in Frames /\ f.kind # "body"
    BY <1>0, UntrackFrame DEF ContextOK
  <2>2. stack' = Append(stack, f)
    BY <1>5 DEF Untrack
  <2> HIDE DEF f
  <2> QED BY <1>3, <2>1, <2>2
<1>6. CASE BeginFlush
  <2> DEFINE f == Frame("flush", None)
  <2>1. f \in Frames /\ f.kind # "body"
    BY FlushFrame
  <2>2. stack' = Append(stack, f)
    BY <1>6 DEF BeginFlush
  <2> HIDE DEF f
  <2> QED BY <1>3, <2>1, <2>2
<1>7. CASE Return \/ EndFlush
  <2>1. stack # <<>> /\ stack' = Under
    BY <1>7 DEF Return, RootEnds, RootThrows, UntrackEnds, BodyReturns, BodyThrows, EndFlush, TopIs, Leave
  <2> QED BY <1>0, <2>1, FirstsKept
<1>8. ASSUME TopIs("flush"), NEW q \in SUBSET Runners, stack' = Append(Under, [Top EXCEPT !.round = q])
      PROVE  FirstsIn(stack') \subseteq FirstsIn(stack) \cup created'
  BY <1>0, <1>8, FirstsKept DEF TopIs
<1>9. CASE NextRound
  <2> DEFINE q == {r \in queue : IsLive(r)}
  <2>1. TopIs("flush") /\ stack' = Append(Under, [Top EXCEPT !.round = q])
    BY <1>9 DEF NextRound
  <2>2. q \in SUBSET Runners
    BY DEF TypeOK
  <2> HIDE DEF q
  <2> QED BY <1>8, <2>1, <2>2
<1>10. ASSUME TopIs("flush") PROVE \A r : Top.round \ {r} \in SUBSET Runners
  BY <1>0, <1>10, TopKinds DEF TopIs
<1>11. ASSUME NEW r \in Runners, SkipDisposed(r) PROVE FirstsIn(stack') \subseteq FirstsIn(stack) \cup created'
  <2>1. TopIs("flush") /\ stack' = Append(Under, [Top EXCEPT !.round = Top.round \ {r}])
    BY <1>11 DEF SkipDisposed, Rest
  <2>2. Top.round \ {r} \in SUBSET Runners
    BY <1>10, <2>1
  <2> QED BY <1>8, <2>1, <2>2
<1>12. ASSUME NEW c \in Computeds, RunInner(c) PROVE FirstsIn(stack') \subseteq FirstsIn(stack) \cup created'
  <2>1. TopIs("flush") /\ stack' = Append(Under, [Top EXCEPT !.round = Top.round \ {c}])
    BY <1>12 DEF RunInner, Rest
  <2>2. Top.round \ {c} \in SUBSET Runners
    BY <1>10, <2>1
  <2> QED BY <1>8, <2>1, <2>2
<1>13. ASSUME NEW e \in Effects, RunEffect(e) PROVE FirstsIn(stack') \subseteq FirstsIn(stack) \cup created'
  <2> DEFINE f == [Frame("body", e) EXCEPT !.first = FALSE]
             g == [Top EXCEPT !.round = Top.round \ {e}]
             s == Append(Under, g)
  <2>1. TopIs("flush") /\ stack' = Append(s, f)
    BY <1>13 DEF RunEffect, StartBody, Rest
  <2>2. f \in Frames /\ f.first = FALSE
    BY BodyFrame
  <2>3. Top.round \ {e} \in SUBSET Runners
    BY <1>10, <2>1
  <2>4. FirstsIn(s) \subseteq FirstsIn(stack)
    BY <1>0, <2>1, <2>3, FirstsKept DEF TopIs
  <2>5. s \in Seq(Frames)
    <3>1. Under \in Seq(Frames)
      BY <1>0, <2>1, TopOfStack DEF TopIs
    <3>2. g \in Frames
      BY <1>0, <2>1, <2>3, TopIsFrame DEF TopIs, StackOK
    <3> HIDE DEF g
    <3> QED BY <3>1, <3>2, PushedFrame
  <2> HIDE DEF f, s
  <2> QED BY <2>1, <2>2, <2>4, <2>5, FirstsPushed
<1>14. CASE UNCHANGED vars
  BY <1>1, <1>14 DEF vars
<1>15. CASE Call
  <2>1. ASSUME NEW n \in Nodes, Get(n) PROVE stack' = stack
    BY <2>1 DEF Get
  <2>2. ASSUME NEW n \in Signals, DisposeSignal(n) PROVE stack' = stack
    BY <2>2 DEF DisposeSignal
  <2>3. ASSUME NEW n \in Signals, NEW v \in Values, Set(n, v) PROVE stack' = stack
    BY <2>3 DEF Set
  <2>4. ASSUME NEW c \in Computeds, GetUninitialized(c) PROVE stack' = stack
    BY <2>4 DEF GetUninitialized
  <2>5. ASSUME NEW c \in Computeds, CreateComputed(c) PROVE stack' = stack
    BY <2>5 DEF CreateComputed
  <2>6. ASSUME NEW e \in Effects, DisposeEffect(e) PROVE stack' = stack
    BY <2>6 DEF DisposeEffect
  <2>7. ASSUME NEW r \in Roots, DisposeRoot(r) PROVE stack' = stack
    BY <2>7 DEF DisposeRoot
  <2>8. ASSUME NEW h \in Hooks, OnCleanup(h) PROVE stack' = stack
    BY <2>8 DEF OnCleanup
  <2> QED BY <1>1, <1>2, <1>4, <1>5, <1>15, <2>1, <2>2, <2>3, <2>4, <2>5, <2>6, <2>7, <2>8 DEF Call
<1>16. CASE FlushStep
  BY <1>7, <1>9, <1>11, <1>12, <1>13, <1>16 DEF FlushStep
<1> QED BY <1>6, <1>7, <1>14, <1>15, <1>16 DEF Next

DisposalStep ==
  LET gone == disposed' \ disposed IN
  /\ disposed \subseteq disposed'
  /\ \A x \in Owners : parent[x] # None /\ parent[x] \in gone => x \in gone
  /\ \A n \in Nodes, r \in Runners : OwnerOf(r) \in gone => r \notin subs'[n]
  /\ ran' = ran \cup UNION {hooks[x] : x \in gone}

LEMMA DisposalTakesAll ==
  ASSUME TypeOK, TreeInv, SubscriptionsHaveCleanups, NEW o \in Owners, o \in created, DisposeOwner(o)
  PROVE  DisposalStep
<1> DEFINE gone == IF o \in disposed THEN {} ELSE Below(o)
           stopped == {r \in Runners : OwnerOf(r) \in gone}
<1>1. /\ disposed' = disposed \cup gone
      /\ subs' = [n \in Nodes |-> {r \in subs[n] : ~(r \in stopped /\ n \in cleanups[r])}]
      /\ ran' = ran \cup UNION {hooks[x] : x \in gone}
  BY DEF DisposeOwner
<1>2. gone \cap disposed = {}
  <2> SUFFICES ASSUME NEW x \in Below(o), x \in disposed, o \notin disposed PROVE FALSE
    OBVIOUS
  <2>1. x \in Owners /\ (x = o \/ parent[x] # None)
    BY BelowIsTree
  <2> QED BY <2>1 DEF TreeInv
<1>3. disposed' \ disposed = gone
  BY <1>1, <1>2
<1>4. ASSUME NEW x \in Owners, parent[x] \in gone PROVE x \in gone
  BY <1>4, BelowIsTree
<1>5. ASSUME NEW n \in Nodes, NEW r \in Runners, OwnerOf(r) \in gone, r \in subs'[n] PROVE FALSE
  <2>1. r \in stopped
    BY <1>5
  <2> HIDE DEF gone, stopped
  <2>2. r \in subs[n] /\ n \notin cleanups[r]
    BY <1>1, <1>5, <2>1
  <2> QED BY <2>2 DEF SubscriptionsHaveCleanups
<1> HIDE DEF gone
<1> QED BY <1>1, <1>3, <1>4, <1>5 DEF DisposalStep

LEMMA TreeOfDisposal ==
  ASSUME TypeOK, TreeInv, FirstsIn(stack') \subseteq created', NEW o \in Owners, o \in created, DisposeOwner(o),
         UNCHANGED <<created, initialized>>, handles' \subseteq handles
  PROVE  TreeInv'
<1> DEFINE gone == IF o \in disposed THEN {} ELSE Below(o)
<1>1. /\ disposed' = disposed \cup gone
      /\ parent' = [x \in Owners |-> IF x \in gone THEN None ELSE parent[x]]
  BY DEF DisposeOwner
<1>2. Born' = Born /\ gone \subseteq Born
  <2>1. o \in Born
    BY DEF Born
  <2>2. \A x \in Below(o) : x \in Owners /\ (x = o \/ parent[x] # None)
    BY BelowIsTree
  <2> QED BY <2>1, <2>2 DEF TreeInv, Born, Inner
<1> HIDE DEF gone
<1> QED BY <1>1, <1>2 DEF TreeInv, FirstsIn

\* A new owner, which was in no tree and is not disposed.
LEMMA TreeOfBirth ==
  ASSUME TypeOK, TreeInv, FirstsIn(stack') \subseteq created', NEW o \in Owners, o \notin Born, NEW p,
         parent' = [parent EXCEPT ![o] = p], disposed' = disposed, Born' = Born \cup {o},
         initialized' \subseteq created', handles' \subseteq created'
  PROVE  TreeInv'
BY DEF TypeOK, TreeInv, FirstsIn

LEMMA TreeNext ==
  ASSUME TypeOK, TreeInv, [Next]_vars
  PROVE  /\ TreeInv'
         /\ SubscriptionsHaveCleanups => DisposalStep
<1> USE DEF tree, status
<1> DEFINE Goal == TreeInv' /\ (SubscriptionsHaveCleanups => DisposalStep)
<1>0. StackOK /\ Effects \cup Roots \subseteq Owners
  BY TypeOKIs, RunnersAreOwners
<1>01. created \subseteq created' => FirstsIn(stack') \subseteq created'
  BY FirstsNext DEF TreeInv
<1>1. ASSUME disposed' = disposed, ran' = ran PROVE DisposalStep
  BY <1>1 DEF DisposalStep
<1>2. ASSUME UNCHANGED <<parent, disposed, ran, created, initialized>>, handles' \subseteq created
      PROVE  Goal
  <2>1. TreeInv'
    BY <1>2, <1>01 DEF TreeInv, Born, Inner, FirstsIn
  <2> QED BY <1>1, <1>2, <2>1
<1>3. ASSUME NEW o \in Effects \cup Roots, o \in handles, DisposeOwner(o), UNCHANGED <<created, initialized>>,
             handles' \subseteq handles
      PROVE  Goal
  <2>1. o \in Owners /\ o \in created
    BY <1>0, <1>3 DEF TreeInv
  <2> QED BY <1>01, <1>3, <2>1, DisposalTakesAll, TreeOfDisposal
<1>4. ASSUME NEW c \in Computeds, GetUninitialized(c) PROVE Goal
  <2>1. /\ parent' = [parent EXCEPT ![Inner(c)] = c] /\ initialized' = initialized \cup {c}
        /\ c \in created /\ c \notin initialized
        /\ UNCHANGED <<disposed, ran, created, handles>>
    BY <1>4 DEF GetUninitialized
  <2>2. Inner(c) \in Owners /\ Inner(c) \notin Born
    BY <2>1, KindsDiffer DEF Born, TypeOK
  <2>3. Born' = Born \cup {Inner(c)}
    BY <2>1 DEF Born, Inner
  <2>4. TreeInv'
    BY <1>01, <2>1, <2>2, <2>3, TreeOfBirth DEF TreeInv
  <2> QED BY <1>1, <2>1, <2>4
<1>5. ASSUME NEW o \in Effects \cup Roots \cup Computeds, o \notin created, created' = created \cup {o},
             NEW p, parent' = [parent EXCEPT ![o] = p],
             UNCHANGED <<disposed, ran, initialized>>, handles' \subseteq handles \cup {o}
      PROVE  Goal
  <2>1. o \in Owners /\ o \notin Born
    BY <1>0, <1>5, KindsDiffer, RunnersAreOwners DEF Born, TypeOK
  <2>2. Born' = Born \cup {o}
    BY <1>5 DEF Born, Inner
  <2>3. initialized' \subseteq created' /\ handles' \subseteq created'
    BY <1>5 DEF TreeInv
  <2>4. TreeInv'
    BY <1>01, <1>5, <2>1, <2>2, <2>3, TreeOfBirth
  <2> QED BY <1>1, <1>5, <2>4
<1>6. ASSUME NEW e \in Effects, CreateEffect(e) PROVE Goal
  BY <1>5, <1>6 DEF CreateEffect
<1>7. ASSUME NEW c \in Computeds, CreateComputed(c) PROVE Goal
  BY <1>5, <1>7 DEF CreateComputed
<1>8. ASSUME NEW r \in Roots, CreateRoot(r) PROVE Goal
  BY <1>5, <1>8 DEF CreateRoot
<1>9. ASSUME NEW e \in Effects, DisposeEffect(e) PROVE Goal
  BY <1>3, <1>9 DEF DisposeEffect
<1>10. ASSUME NEW r \in Roots, DisposeRoot(r) PROVE Goal
  BY <1>3, <1>10 DEF DisposeRoot
<1>11. CASE RootThrows
  <2>1. Top.who \in Roots /\ handles' = handles \ {Top.who} /\ UNCHANGED <<created, initialized>>
    BY <1>0, <1>11, TopKinds DEF RootThrows, TopIs
  <2>2. CASE Top.who \in handles /\ DisposeOwner(Top.who)
    BY <1>3, <2>1, <2>2
  <2>3. CASE UNCHANGED <<subs, cleanups, tree, currentOwner>>
    BY <1>2, <2>1, <2>3 DEF TreeInv
  <2> QED BY <1>11, <2>2, <2>3 DEF RootThrows
<1>12. handles \subseteq created
  BY DEF TreeInv
<1>13. CASE Call
  <2>1. ASSUME NEW n \in Nodes, Get(n) PROVE Goal
    BY <1>2, <1>12, <2>1 DEF Get
  <2>2. ASSUME NEW n \in Signals, DisposeSignal(n) PROVE Goal
    BY <1>2, <1>12, <2>2 DEF DisposeSignal
  <2>3. ASSUME NEW n \in Signals, NEW v \in Values, Set(n, v) PROVE Goal
    BY <1>2, <1>12, <2>3 DEF Set
  <2>4. ASSUME NEW h \in Hooks, OnCleanup(h) PROVE Goal
    BY <1>2, <1>12, <2>4 DEF OnCleanup
  <2>5. CASE Untrack
    BY <1>2, <1>12, <2>5 DEF Untrack
  <2> QED BY <1>4, <1>6, <1>7, <1>8, <1>9, <1>10, <1>13, <2>1, <2>2, <2>3, <2>4, <2>5 DEF Call
<1>14. CASE Return
  <2>1. CASE RootEnds
    BY <1>2, <1>12, <2>1 DEF RootEnds
  <2>2. CASE UntrackEnds
    BY <1>2, <1>12, <2>2 DEF UntrackEnds
  <2>3. CASE BodyReturns
    <3>1. Top.first => Top.who \in created
      BY <1>0, <2>3, FirstsKept DEF BodyReturns, TopIs, TreeInv
    <3>2. handles' \subseteq created
      BY <1>12, <2>3, <3>1 DEF BodyReturns
    <3> QED BY <1>2, <2>3, <3>2 DEF BodyReturns
  <2>4. ASSUME NEW b \in BOOLEAN, BodyThrows(b) PROVE Goal
    <3>1. Top.first => Top.who \in created
      BY <1>0, <2>4, FirstsKept DEF BodyThrows, TopIs, TreeInv
    <3>2. handles' \subseteq created
      BY <1>12, <2>4, <3>1 DEF BodyThrows
    <3> QED BY <1>2, <2>4, <3>2 DEF BodyThrows
  <2> QED BY <1>11, <1>14, <2>1, <2>2, <2>3, <2>4 DEF Return
<1>15. CASE FlushStep
  <2>1. CASE NextRound \/ EndFlush
    BY <1>2, <1>12, <2>1 DEF NextRound, EndFlush
  <2>2. ASSUME NEW r \in Runners, SkipDisposed(r) PROVE Goal
    BY <1>2, <1>12, <2>2 DEF SkipDisposed
  <2>3. ASSUME NEW e \in Effects, RunEffect(e) PROVE Goal
    BY <1>2, <1>12, <2>3 DEF RunEffect
  <2>4. ASSUME NEW c \in Computeds, RunInner(c) PROVE Goal
    BY <1>2, <1>12, <2>4 DEF RunInner
  <2> QED BY <1>15, <2>1, <2>2, <2>3, <2>4 DEF FlushStep
<1>16. CASE BeginFlush
  BY <1>2, <1>12, <1>16 DEF BeginFlush
<1>17. CASE UNCHANGED vars
  BY <1>2, <1>12, <1>17 DEF vars
<1> QED BY <1>13, <1>14, <1>15, <1>16, <1>17 DEF Next

\* context.ts:135: where user code does not call untrack, a disposal takes
\* everything below its owner, ends its subscriptions, and runs its cleanups.
THEOREM DisposalIsComplete == ASSUME ~Untracking PROVE Spec => DisposalIsFinal
<1>1. Init => TreeInv
  BY KindsDiffer DEF Init, TreeInv, FirstsIn, Born
<1>2. TypeOK /\ TreeInv /\ [Next]_vars => TreeInv'
  BY TreeNext
<1>3. Spec => []TreeInv
  BY <1>1, <1>2, TypeCorrect, PTL DEF Spec
<1>4. TypeOK /\ TreeInv /\ SubscriptionInv /\ [Next]_vars => [DisposalStep]_vars
  BY TreeNext DEF SubscriptionInv
<1> QED BY <1>3, <1>4, SubscriptionAlways, PTL DEF Spec, DisposalIsFinal, DisposalStep
=============================================================================
