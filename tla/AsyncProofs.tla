----------------------------- MODULE AsyncProofs -----------------------------
(***************************************************************************)
(* Proofs about AsyncSignal: the inductive invariant, the safety           *)
(* properties, and that createAsync implements LatestRequest; and, in the  *)
(* second part, about the composition of MCRequests: each package it has   *)
(* keeps in RunSpec the properties proved of it by itself.                 *)
(***************************************************************************)
EXTENDS MCRequests, SequenceTheorems, TLAPS

\* What is on the stack is running, and is there once.
StackIsRunning ==
  \A i \in 1..Len(running) :
    /\ request[running[i]] = "running"
    /\ \A j \in 1..Len(running) : i < j => running[i] # running[j]

VersionsAreUsedInOrder == \A v \in Versions : request[v] = "none" <=> v > runVersion

\* The controller, if any, is that of the newest request, and there is none only
\* when the newest request was aborted.
ControllerIsNewest ==
  /\ controller \in {0, runVersion}
  /\ runVersion # 0 => (controller = 0 <=> runVersion \in aborted)
  /\ \A v \in aborted : v <= runVersion

\* Nothing but the first request happens before createAsync returned.
BuildIsFirst ==
  ~built =>
    /\ ~disposed /\ aborted = {}
    /\ runVersion = Len(running) /\ Len(running) <= 1
    /\ runVersion = 0 => loading = immediate /\ ~tracked /\ ~scheduled

LoadingIsBackedAlways ==
  loading /\ (built \/ runVersion # 0) =>
    \/ InFlight(runVersion) /\ IsCurrent(runVersion)
    \/ runVersion # 0 /\ request[runVersion] = "forgotten"

ShownHasSettled == data <= runVersion /\ (data # 0 => request[data] = "settled")

IInv ==
  /\ TypeOK
  /\ StackIsRunning
  /\ VersionsAreUsedInOrder
  /\ ControllerIsNewest
  /\ BuildIsFirst
  /\ LoadingIsBackedAlways
  /\ OnlyNewestIsUnaborted
  /\ ShownHasSettled
-----------------------------------------------------------------------------
LEMMA RunningType ==
  ASSUME TypeOK
  PROVE  /\ Len(running) \in Nat
         /\ \A i \in 1..Len(running) : running[i] \in 1..MaxVersion
         /\ running # <<>> => Len(running) >= 1 /\ Top \in 1..MaxVersion
<1>1. running \in Seq(Versions)
  BY DEF TypeOK
<1>2. Len(running) \in Nat /\ \A i \in 1..Len(running) : running[i] \in Versions
  BY <1>1, LenProperties, ElementOfSeq
<1>3. running # <<>> => Len(running) >= 1
  BY <1>1, EmptySeq
<1> QED BY <1>2, <1>3 DEF Top, Versions

\* What a new request does to the stack.
LEMMA PushFacts ==
  ASSUME TypeOK, NEW v \in Versions, running' = Append(running, v)
  PROVE  /\ running' \in Seq(Versions) /\ running' # <<>>
         /\ Len(running') = Len(running) + 1 /\ running'[Len(running) + 1] = v
         /\ \A i \in 1..Len(running) : running'[i] = running[i]
BY DEF TypeOK

\* What the end of the synchronous part of a request does to the stack.
LEMMA PopFacts ==
  ASSUME TypeOK, running # <<>>, Pop
  PROVE  /\ running' \in Seq(Versions)
         /\ Len(running') = Len(running) - 1
         /\ \A i \in 1..Len(running') : running'[i] = running[i]
<1>1. running \in Seq(Versions) /\ Len(running) \in Nat /\ Len(running) >= 1
  BY RunningType DEF TypeOK
<1>2. \A i \in 1..(Len(running) - 1) : running[i] \in Versions
  BY <1>1, ElementOfSeq
<1>3. running' = SubSeq(running, 1, Len(running) - 1)
  BY DEF Pop
<1>4. /\ running' \in Seq(Versions) /\ Len(running') = Len(running) - 1
      /\ \A i \in 1..(Len(running) - 1) : running'[i] = running[i]
  <2> DEFINE n == Len(running) - 1
  <2>1. n \in Nat /\ \A i \in 1..n : running[i] \in Versions
    BY <1>1, <1>2
  <2>2. /\ SubSeq(running, 1, n) \in Seq(Versions)
        /\ Len(SubSeq(running, 1, n)) = IF 1 <= n THEN n - 1 + 1 ELSE 0
        /\ \A i \in 1..(n - 1 + 1) : SubSeq(running, 1, n)[i] = running[1 + i - 1]
    <3> HIDE DEF n
    <3> QED BY <2>1, SubSeqProperties
  <2>3. /\ Len(SubSeq(running, 1, n)) = n
        /\ \A i \in 1..n : SubSeq(running, 1, n)[i] = running[i]
    <3> HIDE DEF n
    <3> QED BY <2>1, <2>2
  <2> QED BY <1>1, <1>3, <2>2, <2>3
<1> QED BY <1>4

\* TypeOK in two halves: the flags, and the rest.
Flags ==
  /\ immediate \in BOOLEAN /\ keepPrevious \in BOOLEAN /\ loading \in BOOLEAN
  /\ disposed \in BOOLEAN /\ built \in BOOLEAN /\ tracked \in BOOLEAN /\ scheduled \in BOOLEAN

Rest ==
  /\ data \in 0..MaxVersion /\ error \in 0..MaxVersion
  /\ runVersion \in 0..MaxVersion /\ controller \in 0..MaxVersion
  /\ aborted \subseteq Versions
  /\ request \in [Versions -> {"none", "running", "pending", "settled", "forgotten"}]
  /\ running \in Seq(Versions)
  /\ dep \in {0, 1} /\ readDep \in [Versions -> {0, 1}]

LEMMA TypeHalves == TypeOK <=> Flags /\ Rest
BY DEF TypeOK, Flags, Rest

LEMMA TypeHalvesPrime == TypeOK' <=> Flags' /\ Rest'
BY DEF TypeOK, Flags, Rest

LEMMA InitInv == Init => IInv
<1> SUFFICES ASSUME Init PROVE IInv OBVIOUS
<1>1. TypeOK
  <2>1. running \in Seq(Versions)
    BY EmptySeq DEF Init
  <2>2. /\ data \in 0..MaxVersion /\ error \in 0..MaxVersion /\ runVersion \in 0..MaxVersion
        /\ controller \in 0..MaxVersion
    BY AsyncAssumption DEF Init, AsyncAssumption
  <2>3. /\ request \in [Versions -> {"none", "running", "pending", "settled", "forgotten"}]
        /\ readDep \in [Versions -> {0, 1}]
    BY DEF Init
  <2> QED BY <2>1, <2>2, <2>3 DEF Init, TypeOK
<1>2. StackIsRunning /\ VersionsAreUsedInOrder /\ ControllerIsNewest
  BY AsyncAssumption DEF Init, StackIsRunning, VersionsAreUsedInOrder, ControllerIsNewest,
     Versions, AsyncAssumption
<1>3. BuildIsFirst /\ LoadingIsBackedAlways /\ OnlyNewestIsUnaborted /\ ShownHasSettled
  BY DEF Init, BuildIsFirst, LoadingIsBackedAlways, OnlyNewestIsUnaborted, ShownHasSettled, InFlight
<1> QED BY <1>1, <1>2, <1>3 DEF IInv

\* A new request: the parts that do not depend on who made it.
LEMMA ExecuteInv ==
  ASSUME IInv, execute
  PROVE  /\ runVersion' \in 1..MaxVersion /\ controller' = runVersion'
         /\ aborted' \subseteq Versions /\ data' \in 0..MaxVersion /\ loading' = TRUE /\ error' = 0
         /\ request' \in [Versions -> {"none", "running", "pending", "settled", "forgotten"}]
         /\ readDep' \in [Versions -> {0, 1}] /\ running' \in Seq(Versions)
         /\ Len(running') = Len(running) + 1
         /\ request'[runVersion'] = "running" /\ runVersion' \notin aborted'
         /\ StackIsRunning' /\ VersionsAreUsedInOrder' /\ ControllerIsNewest'
         /\ OnlyNewestIsUnaborted' /\ ShownHasSettled'
<1> DEFINE v == runVersion + 1
<1>1. v \in Versions /\ runVersion \in Nat /\ v # 0 /\ request[v] = "none"
  BY DEF IInv, TypeOK, execute, Versions, VersionsAreUsedInOrder
<1>2. /\ runVersion' = v /\ controller' = v /\ aborted' = aborted \cup ({controller} \ {0})
      /\ request' = [request EXCEPT ![v] = "running"] /\ running' = Append(running, v)
      /\ readDep' = [readDep EXCEPT ![v] = dep] /\ loading' = TRUE /\ error' = 0
      /\ data' \in {0, data}
  BY DEF execute
<1>3. TypeOK
  BY DEF IInv
<1> HIDE DEF v
<1>4. request' \in [Versions -> {"none", "running", "pending", "settled", "forgotten"}]
  BY <1>1, <1>2, <1>3 DEF TypeOK
<1>5. aborted' \subseteq Versions /\ data' \in 0..MaxVersion
  BY <1>1, <1>2, <1>3, AsyncAssumption DEF TypeOK, Versions, AsyncAssumption
<1>13. readDep' \in [Versions -> {0, 1}]
  BY <1>1, <1>2, <1>3 DEF TypeOK
<1>6. /\ running' \in Seq(Versions) /\ Len(running') = Len(running) + 1 /\ running'[Len(running) + 1] = v
      /\ \A i \in 1..Len(running) : running'[i] = running[i]
  BY <1>1, <1>2, <1>3, PushFacts
<1>7. StackIsRunning'
  <2>1. \A i \in 1..Len(running) : running[i] \in Versions /\ running[i] # v /\ request'[running[i]] = "running"
    BY <1>1, <1>2, <1>3, RunningType DEF IInv, StackIsRunning, TypeOK, Versions
  <2>2. request'[v] = "running"
    BY <1>1, <1>2, <1>3 DEF TypeOK
  <2> QED BY <1>6, <2>1, <2>2, <1>3, RunningType DEF StackIsRunning, IInv
<1>8. VersionsAreUsedInOrder'
  BY <1>1, <1>2, <1>3 DEF IInv, TypeOK, VersionsAreUsedInOrder, Versions, v
<1>9. ControllerIsNewest' /\ v \notin aborted'
  BY <1>1, <1>2, <1>3 DEF IInv, TypeOK, ControllerIsNewest, Versions, v
<1>10. OnlyNewestIsUnaborted'
  <2> SUFFICES ASSUME NEW w \in Versions, InFlight(w)', w # runVersion' PROVE w \in aborted'
    BY DEF OnlyNewestIsUnaborted
  <2>1. InFlight(w)
    BY <1>1, <1>2, <1>3 DEF InFlight, TypeOK
  <2>2. CASE w = runVersion
    BY <2>1, <2>2, <1>1, <1>2 DEF IInv, ControllerIsNewest, InFlight
  <2>3. CASE w # runVersion
    BY <2>1, <2>3, <1>2 DEF IInv, OnlyNewestIsUnaborted
  <2> QED BY <2>2, <2>3
<1>11. ShownHasSettled'
  BY <1>1, <1>2, <1>3 DEF IInv, ShownHasSettled, TypeOK, Versions, v
<1>12. request'[v] = "running"
  BY <1>1, <1>2, <1>3 DEF TypeOK
<1> QED BY <1>1, <1>2, <1>4, <1>5, <1>6, <1>7, <1>8, <1>9, <1>10, <1>11, <1>12, <1>13 DEF Versions

LEMMA AbortFacts ==
  ASSUME IInv, abortCurrent
  PROVE  /\ controller' = 0 /\ aborted' \subseteq Versions
         /\ aborted \subseteq aborted' /\ aborted' \subseteq aborted \cup ({runVersion} \ {0})
         /\ runVersion # 0 => runVersion \in aborted'
BY DEF IInv, TypeOK, ControllerIsNewest, abortCurrent, Versions

\* The end of the synchronous part: the parts that do not depend on how it ended.
LEMMA EndInv ==
  ASSUME IInv, running # <<>>, Pop, NEW st \in {"pending", "settled"},
         request' = [request EXCEPT ![Top] = st],
         UNCHANGED <<runVersion, ctrl>>
  PROVE  /\ Top \in Versions /\ request[Top] = "running" /\ running' \in Seq(Versions)
         /\ request' \in [Versions -> {"none", "running", "pending", "settled", "forgotten"}]
         /\ StackIsRunning' /\ VersionsAreUsedInOrder' /\ ControllerIsNewest'
         /\ OnlyNewestIsUnaborted'
<1>1. /\ Len(running) >= 1 /\ Len(running) \in Nat /\ Top \in Versions
      /\ \A i \in 1..Len(running) : running[i] \in Versions
  BY RunningType DEF IInv, Versions
<1>2. request[Top] = "running" /\ TypeOK
  BY <1>1 DEF IInv, StackIsRunning, Top
<1>3. /\ running' \in Seq(Versions) /\ Len(running') = Len(running) - 1
      /\ \A i \in 1..Len(running') : running'[i] = running[i]
  BY <1>2, PopFacts
<1>4. request' \in [Versions -> {"none", "running", "pending", "settled", "forgotten"}]
  BY <1>1, <1>2 DEF TypeOK
<1>5. StackIsRunning'
  <2>1. \A i \in 1..Len(running') : i \in 1..Len(running) /\ i < Len(running)
    BY <1>1, <1>3
  <2>2. \A i \in 1..Len(running') : running[i] # Top
    BY <1>1, <2>1 DEF IInv, StackIsRunning, Top
  <2>3. \A i \in 1..Len(running') : request'[running'[i]] = "running"
    BY <1>1, <1>2, <1>3, <2>1, <2>2 DEF IInv, StackIsRunning, TypeOK
  <2>4. \A i, j \in 1..Len(running') : i < j => running'[i] # running'[j]
    BY <1>3, <2>1 DEF IInv, StackIsRunning
  <2> QED BY <2>3, <2>4 DEF StackIsRunning
<1>6. VersionsAreUsedInOrder' /\ ControllerIsNewest'
  BY <1>1, <1>2 DEF IInv, TypeOK, VersionsAreUsedInOrder, ControllerIsNewest, ctrl
<1>7. OnlyNewestIsUnaborted'
  BY <1>1, <1>2 DEF IInv, TypeOK, OnlyNewestIsUnaborted, InFlight, ctrl
<1> QED BY <1>1, <1>2, <1>3, <1>4, <1>5, <1>6, <1>7

\* A promise settles.
LEMMA SettleInv ==
  ASSUME IInv, NEW v \in Versions, running = <<>>, request[v] = "pending",
         NEW st \in {"settled", "forgotten"}, request' = [request EXCEPT ![v] = st],
         UNCHANGED <<runVersion, ctrl, running>>
  PROVE  /\ request' \in [Versions -> {"none", "running", "pending", "settled", "forgotten"}]
         /\ StackIsRunning' /\ VersionsAreUsedInOrder' /\ ControllerIsNewest'
         /\ OnlyNewestIsUnaborted'
<1>1. request' \in [Versions -> {"none", "running", "pending", "settled", "forgotten"}]
  BY DEF IInv, TypeOK
<1>2. StackIsRunning'
  <2>1. Len(running') = 0
    BY EmptySeq
  <2> QED BY <2>1 DEF StackIsRunning
<1>3. VersionsAreUsedInOrder' /\ ControllerIsNewest'
  BY DEF IInv, TypeOK, VersionsAreUsedInOrder, ControllerIsNewest, ctrl
<1>4. OnlyNewestIsUnaborted'
  BY DEF IInv, TypeOK, OnlyNewestIsUnaborted, InFlight, ctrl
<1> QED BY <1>1, <1>2, <1>3, <1>4

\* A new request that nobody disposed of in the same step.
LEMMA ExecuteKeepsInv ==
  ASSUME IInv, execute, ~disposed, UNCHANGED <<options, disposed, dep>>,
         built' = built, built \/ (runVersion = 0 /\ running = <<>>),
         tracked' \in BOOLEAN, scheduled' \in BOOLEAN
  PROVE  IInv'
<1>1. TypeOK'
  <2>1. Flags'
    BY ExecuteInv, TypeHalves DEF IInv, Flags, options
  <2>2. Rest'
    BY ExecuteInv, TypeHalves, AsyncAssumption DEF IInv, Rest, Versions, AsyncAssumption
  <2> QED BY <2>1, <2>2, TypeHalvesPrime
<1>2. BuildIsFirst'
  <2> SUFFICES ASSUME ~built' PROVE /\ ~disposed' /\ aborted' = {}
                                    /\ runVersion' = Len(running') /\ Len(running') <= 1
                                    /\ runVersion' # 0
    BY DEF BuildIsFirst
  <2>1. aborted = {} /\ controller = 0 /\ runVersion = 0 /\ Len(running) = 0
    BY EmptySeq DEF IInv, BuildIsFirst, ControllerIsNewest
  <2> QED BY <2>1, ExecuteInv DEF execute
<1>3. LoadingIsBackedAlways'
  BY ExecuteInv DEF LoadingIsBackedAlways, InFlight, IsCurrent
<1> QED BY <1>1, <1>2, <1>3, ExecuteInv DEF IInv

LEMMA StepInv == IInv /\ [Next]_vars => IInv'
<1> SUFFICES ASSUME IInv, [Next]_vars PROVE IInv' OBVIOUS
<1>1. ASSUME Build PROVE IInv'
  <2>1. running = <<>> /\ Len(running) = 0 /\ runVersion = 0 /\ ~disposed /\ ~built
    BY <1>1, EmptySeq DEF Build, IInv, BuildIsFirst
  <2>2. CASE immediate /\ execute /\ tracked' = TRUE /\ UNCHANGED built
    BY <1>1, <2>1, <2>2, ExecuteKeepsInv DEF Build, IInv, TypeOK, options
  <2>3. CASE /\ ~immediate /\ built' = TRUE
             /\ UNCHANGED <<shown, runVersion, ctrl, request, readDep, running, tracked>>
    <3>1. UNCHANGED <<immediate, keepPrevious, data, loading, error, runVersion, controller, aborted,
                      disposed, request, running, dep, readDep, tracked, scheduled>> /\ built' = TRUE
      BY <1>1, <2>3 DEF Build, options, shown, ctrl
    <3>2. ~loading
      BY <2>1, <2>3 DEF IInv, BuildIsFirst
    <3>3. TypeOK' /\ StackIsRunning' /\ VersionsAreUsedInOrder' /\ ControllerIsNewest'
      BY <3>1 DEF IInv, TypeOK, StackIsRunning, VersionsAreUsedInOrder, ControllerIsNewest
    <3>4. BuildIsFirst' /\ LoadingIsBackedAlways' /\ OnlyNewestIsUnaborted' /\ ShownHasSettled'
      BY <3>1, <3>2 DEF IInv, BuildIsFirst, LoadingIsBackedAlways, OnlyNewestIsUnaborted,
         ShownHasSettled, InFlight
    <3> QED BY <3>3, <3>4 DEF IInv
  <2> QED BY <1>1, <2>2, <2>3 DEF Build
<1>2. ASSUME EffectRuns PROVE IInv'
  <2>1. running = <<>> /\ Len(running) = 0 /\ scheduled /\ scheduled' = FALSE
    BY <1>2, EmptySeq DEF EffectRuns
  <2>2. built
    BY <2>1 DEF IInv, BuildIsFirst
  <2>3. CASE ~disposed /\ execute /\ tracked' = TRUE
    BY <1>2, <2>1, <2>2, <2>3, ExecuteKeepsInv DEF EffectRuns
  <2>4. CASE disposed /\ UNCHANGED <<shown, runVersion, ctrl, request, readDep, running, tracked>>
    <3>1. UNCHANGED <<immediate, keepPrevious, data, loading, error, runVersion, controller, aborted,
                      disposed, built, request, running, dep, readDep, tracked>>
      BY <1>2, <2>4 DEF EffectRuns, options, shown, ctrl
    <3>4. Flags' /\ Rest'
      BY <3>1, <2>1, TypeHalves DEF IInv, Flags, Rest
    <3>2. TypeOK' /\ StackIsRunning' /\ VersionsAreUsedInOrder' /\ ControllerIsNewest'
      BY <3>1, <3>4, TypeHalvesPrime DEF IInv, StackIsRunning, VersionsAreUsedInOrder, ControllerIsNewest
    <3>3. BuildIsFirst' /\ LoadingIsBackedAlways' /\ OnlyNewestIsUnaborted' /\ ShownHasSettled'
      BY <3>1, <2>2 DEF IInv, BuildIsFirst, LoadingIsBackedAlways, OnlyNewestIsUnaborted,
         ShownHasSettled, InFlight, IsCurrent
    <3> QED BY <3>2, <3>3 DEF IInv
  <2> QED BY <1>2, <2>3, <2>4 DEF EffectRuns
<1>3. ASSUME refresh PROVE IInv'
  BY <1>3, ExecuteKeepsInv DEF refresh, IInv, TypeOK, options
<1>4. ASSUME abort \/ dispose PROVE IInv'
  <2>1. /\ built /\ built' = built /\ abortCurrent /\ loading' = FALSE
        /\ disposed' \in BOOLEAN /\ tracked' \in BOOLEAN
        /\ UNCHANGED <<immediate, keepPrevious, data, error, runVersion, request, running,
                       dep, readDep, scheduled>>
    BY <1>4 DEF abort, dispose, options, reactive, IInv, TypeOK
  <2>2. /\ controller' = 0 /\ aborted' \subseteq Versions
        /\ aborted \subseteq aborted' /\ aborted' \subseteq aborted \cup ({runVersion} \ {0})
        /\ runVersion # 0 => runVersion \in aborted'
    BY <2>1, AbortFacts
  <2>3. TypeOK'
    <3>1. Flags'
      BY <2>1, TypeHalves DEF IInv, Flags
    <3>2. Rest'
      BY <2>1, <2>2, TypeHalves, AsyncAssumption DEF IInv, Rest, AsyncAssumption
    <3> QED BY <3>1, <3>2, TypeHalvesPrime
  <2>4. StackIsRunning' /\ VersionsAreUsedInOrder' /\ ControllerIsNewest'
    BY <2>1, <2>2 DEF IInv, TypeOK, StackIsRunning, VersionsAreUsedInOrder, ControllerIsNewest
  <2>5. BuildIsFirst' /\ LoadingIsBackedAlways' /\ OnlyNewestIsUnaborted' /\ ShownHasSettled'
    BY <2>1, <2>2 DEF IInv, BuildIsFirst, LoadingIsBackedAlways, OnlyNewestIsUnaborted,
       ShownHasSettled, InFlight
  <2> QED BY <2>3, <2>4, <2>5 DEF IInv
<1>5. ASSUME NEW x \in {0, 1}, SetDependency(x) PROVE IInv'
  <2>1. /\ dep' = x /\ scheduled' \in BOOLEAN /\ (~tracked => scheduled' = scheduled)
        /\ UNCHANGED <<immediate, keepPrevious, data, loading, error, runVersion, controller, aborted,
                       disposed, built, request, running, readDep, tracked>>
    BY <1>5 DEF SetDependency, options, shown, ctrl, IInv, TypeOK
  <2>2. TypeOK' /\ StackIsRunning' /\ VersionsAreUsedInOrder' /\ ControllerIsNewest'
    BY <2>1 DEF IInv, TypeOK, StackIsRunning, VersionsAreUsedInOrder, ControllerIsNewest
  <2>3. BuildIsFirst' /\ LoadingIsBackedAlways' /\ OnlyNewestIsUnaborted' /\ ShownHasSettled'
    BY <2>1 DEF IInv, BuildIsFirst, LoadingIsBackedAlways, OnlyNewestIsUnaborted,
       ShownHasSettled, InFlight, IsCurrent
  <2> QED BY <2>2, <2>3 DEF IInv
<1>6. ASSUME fnReturns PROVE IInv'
  <2>1. /\ running # <<>> /\ Pop /\ request' = [request EXCEPT ![Top] = "pending"] /\ built' = TRUE
        /\ UNCHANGED <<immediate, keepPrevious, data, loading, error, runVersion, controller, aborted,
                       disposed, dep, readDep, tracked, scheduled>>
    BY <1>6 DEF fnReturns, options, shown, ctrl, reactive
  <2>2. /\ Top \in Versions /\ request[Top] = "running" /\ running' \in Seq(Versions)
        /\ request' \in [Versions -> {"none", "running", "pending", "settled", "forgotten"}]
        /\ StackIsRunning' /\ VersionsAreUsedInOrder' /\ ControllerIsNewest'
        /\ OnlyNewestIsUnaborted'
    BY <2>1, EndInv DEF ctrl
  <2>3. TypeOK'
    BY <2>1, <2>2 DEF IInv, TypeOK
  <2>4. BuildIsFirst' /\ ShownHasSettled'
    BY <2>1, <2>2 DEF IInv, TypeOK, BuildIsFirst, ShownHasSettled, Versions
  <2>5. runVersion # 0 => runVersion \in Versions
    BY DEF IInv, TypeOK, Versions
  <2>6. LoadingIsBackedAlways'
    <3>1. CASE built \/ runVersion # 0
      BY <3>1, <2>1, <2>2, <2>5 DEF IInv, TypeOK, LoadingIsBackedAlways, InFlight, IsCurrent
    <3>2. CASE ~built /\ runVersion = 0
      BY <3>2, <2>1, RunningType DEF IInv, BuildIsFirst
    <3> QED BY <3>1, <3>2
  <2> QED BY <2>2, <2>3, <2>4, <2>6 DEF IInv
<1>7. ASSUME fnThrows PROVE IInv'
  <2>1. /\ running # <<>> /\ Pop /\ request' = [request EXCEPT ![Top] = "settled"] /\ built' = TRUE
        /\ UNCHANGED <<immediate, keepPrevious, data, runVersion, controller, aborted,
                       disposed, dep, readDep, tracked, scheduled>>
        /\ \/ Top = runVersion /\ ~disposed /\ error' = Top /\ loading' = FALSE
           \/ ~(Top = runVersion /\ ~disposed) /\ UNCHANGED <<loading, error>>
    BY <1>7 DEF fnThrows, Settle, options, shown, ctrl, reactive
  <2>2. /\ Top \in Versions /\ request[Top] = "running" /\ running' \in Seq(Versions)
        /\ request' \in [Versions -> {"none", "running", "pending", "settled", "forgotten"}]
        /\ StackIsRunning' /\ VersionsAreUsedInOrder' /\ ControllerIsNewest'
        /\ OnlyNewestIsUnaborted'
    BY <2>1, EndInv DEF ctrl
  <2>3. TypeOK'
    BY <2>1, <2>2 DEF IInv, TypeOK, Versions
  <2>4. BuildIsFirst' /\ ShownHasSettled'
    BY <2>1, <2>2 DEF IInv, TypeOK, BuildIsFirst, ShownHasSettled, Versions
  <2>5. runVersion # 0 => runVersion \in Versions
    BY DEF IInv, TypeOK, Versions
  <2>6. LoadingIsBackedAlways'
    <3>1. CASE built \/ runVersion # 0
      BY <3>1, <2>1, <2>2, <2>5 DEF IInv, TypeOK, LoadingIsBackedAlways, InFlight, IsCurrent
    <3>2. CASE ~built /\ runVersion = 0
      BY <3>2, <2>1, RunningType DEF IInv, BuildIsFirst
    <3> QED BY <3>1, <3>2
  <2> QED BY <2>2, <2>3, <2>4, <2>6 DEF IInv
<1>8. ASSUME NEW v \in Versions, Resolve(v) \/ Reject(v) \/ RejectAborted(v) PROVE IInv'
  <2> PICK st \in {"settled", "forgotten"} :
         /\ running = <<>> /\ request[v] = "pending" /\ request' = [request EXCEPT ![v] = st]
         /\ UNCHANGED <<immediate, keepPrevious, runVersion, controller, aborted, disposed, built,
                        running, dep, readDep, tracked, scheduled>>
         /\ \/ st = "settled" /\ IsCurrent(v) /\ loading' = FALSE
               /\ data' \in {data, v} /\ error' \in {error, v}
            \/ st = "settled" /\ ~IsCurrent(v) /\ UNCHANGED <<data, loading, error>>
            \/ st = "forgotten" /\ UNCHANGED <<data, loading, error>>
    BY <1>8 DEF Resolve, Reject, RejectAborted, Settle, options, shown, ctrl, reactive
  <2>1. /\ request' \in [Versions -> {"none", "running", "pending", "settled", "forgotten"}]
        /\ StackIsRunning' /\ VersionsAreUsedInOrder' /\ ControllerIsNewest'
        /\ OnlyNewestIsUnaborted'
    BY SettleInv DEF ctrl
  <2>2. TypeOK'
    <3>1. Flags'
      BY TypeHalves DEF IInv, Flags
    <3>2. Rest'
      BY <2>1, TypeHalves DEF IInv, Rest, Versions
    <3> QED BY <3>1, <3>2, TypeHalvesPrime
  <2>3. Len(running) = 0 /\ runVersion # 0
    BY EmptySeq DEF IInv, VersionsAreUsedInOrder, Versions
  <2>4. BuildIsFirst'
    BY <2>3 DEF IInv, BuildIsFirst
  <2>5. ShownHasSettled'
    BY DEF IInv, TypeOK, ShownHasSettled, IsCurrent, Versions
  <2>6. LoadingIsBackedAlways'
    <3>1. runVersion \in Versions
      BY <2>3 DEF IInv, TypeOK, Versions
    <3> QED BY <3>1, <2>3 DEF IInv, TypeOK, LoadingIsBackedAlways, InFlight, IsCurrent
  <2> QED BY <2>1, <2>2, <2>4, <2>5, <2>6 DEF IInv
<1>9. ASSUME UNCHANGED vars PROVE IInv'
  <2>1. UNCHANGED <<immediate, keepPrevious, data, loading, error, runVersion, controller, aborted,
                    disposed, built, request, running, dep, readDep, tracked, scheduled>>
    BY <1>9 DEF vars, options, shown, ctrl, reactive
  <2>2. TypeOK' /\ StackIsRunning' /\ VersionsAreUsedInOrder' /\ ControllerIsNewest'
    BY <2>1 DEF IInv, TypeOK, StackIsRunning, VersionsAreUsedInOrder, ControllerIsNewest
  <2>3. BuildIsFirst' /\ LoadingIsBackedAlways' /\ OnlyNewestIsUnaborted' /\ ShownHasSettled'
    BY <2>1 DEF IInv, BuildIsFirst, LoadingIsBackedAlways, OnlyNewestIsUnaborted,
       ShownHasSettled, InFlight, IsCurrent
  <2> QED BY <2>2, <2>3 DEF IInv
<1> QED BY <1>1, <1>2, <1>3, <1>4, <1>5, <1>6, <1>7, <1>8, <1>9 DEF Next
-----------------------------------------------------------------------------
LEMMA InvAlways == Spec => []IInv
BY InitInv, StepInv, PTL DEF Spec

\* The variables of createAsync keep their types.
THEOREM TypeCorrect == Spec => []TypeOK
<1>1. IInv => TypeOK
  BY DEF IInv
<1> QED BY <1>1, InvAlways, PTL

\* No spinner is shown for nothing (loading of createAsync).
THEOREM SpinnerIsBacked == Spec => []LoadingIsBacked
<1>1. IInv => LoadingIsBacked
  BY DEF IInv, LoadingIsBackedAlways, LoadingIsBacked
<1> QED BY <1>1, InvAlways, PTL

\* All requests but the newest were told to stop (abortCurrent in execute).
THEOREM OthersWereAborted == Spec => []OnlyNewestIsUnaborted
<1>1. IInv => OnlyNewestIsUnaborted
  BY DEF IInv
<1> QED BY <1>1, InvAlways, PTL

LEMMA AnswerStep ==
  IInv /\ [Next]_vars =>
    [ /\ data' # data => data' = 0 \/ (data' > data /\ ~disposed)
      /\ error' # error => error' = 0 \/ (error' = runVersion /\ ~disposed) ]_vars
<1> DEFINE Good == /\ data' # data => data' = 0 \/ (data' > data /\ ~disposed)
                   /\ error' # error => error' = 0 \/ (error' = runVersion /\ ~disposed)
<1> SUFFICES ASSUME IInv, Next PROVE Good
  OBVIOUS
<1>1. ASSUME execute PROVE Good
  BY <1>1 DEF execute
<1>2. ASSUME abort \/ dispose \/ fnReturns \/ UNCHANGED shown PROVE Good
  BY <1>2 DEF abort, dispose, fnReturns, shown
<1>3. ASSUME NEW x \in {0, 1}, SetDependency(x) PROVE Good
  BY <1>3 DEF SetDependency, shown
<1>4. ASSUME fnThrows PROVE Good
  BY <1>4 DEF fnThrows, shown
<1>5. ASSUME NEW v \in Versions, Resolve(v) \/ Reject(v) \/ RejectAborted(v) PROVE Good
  <2>1. IsCurrent(v) => v = runVersion /\ ~disposed
    BY DEF IsCurrent
  <2>2. request[v] = "pending" /\ v \in Nat
    BY <1>5 DEF Resolve, Reject, RejectAborted, Versions
  <2>3. v = runVersion => data < v
    BY <2>2 DEF IInv, TypeOK, ShownHasSettled
  <2> QED BY <1>5, <2>1, <2>3 DEF Resolve, Reject, RejectAborted, shown
<1>6. ASSUME Build \/ EffectRuns \/ refresh PROVE Good
  BY <1>1, <1>2, <1>6 DEF Build, EffectRuns, refresh
<1> QED BY <1>2, <1>3, <1>4, <1>5, <1>6 DEF Next

\* The answer of an older request never replaces that of a newer one, and
\* nothing is shown after dispose (the then-handlers of execute).
THEOREM AnswersAreFresh == Spec => NoStaleAnswer
BY InvAlways, AnswerStep, PTL DEF Spec, NoStaleAnswer

\* What the newest request read is the present value, or the effect is queued
\* to read it again, as long as it is subscribed.
NewestReadDependency ==
  runVersion # 0 /\ tracked /\ ~disposed /\ ~scheduled => readDep[runVersion] = dep

LEMMA ReadStep == IInv /\ NewestReadDependency /\ [Next]_vars => NewestReadDependency'
<1> SUFFICES ASSUME IInv, NewestReadDependency, [Next]_vars
             PROVE  NewestReadDependency'
  OBVIOUS
<1>1. ASSUME execute, dep' = dep PROVE NewestReadDependency'
  <2>1. runVersion' \in Versions /\ readDep' = [readDep EXCEPT ![runVersion'] = dep]
    BY <1>1 DEF execute, IInv, TypeOK, Versions
  <2>2. readDep \in [Versions -> {0, 1}]
    BY DEF IInv, TypeOK
  <2> QED BY <1>1, <2>1, <2>2 DEF NewestReadDependency
<1>2. ASSUME UNCHANGED <<runVersion, dep, readDep, scheduled>>, tracked' => tracked, disposed => disposed'
      PROVE  NewestReadDependency'
  BY <1>2 DEF NewestReadDependency
<1>3. CASE UNCHANGED vars
  BY <1>2, <1>3 DEF vars, shown, ctrl, reactive
<1>4. CASE Build
  BY <1>1, <1>2, <1>4 DEF Build, ctrl
<1>5. CASE EffectRuns
  <2>1. CASE disposed
    BY <1>5, <2>1 DEF EffectRuns, NewestReadDependency
  <2>2. CASE ~disposed
    BY <1>1, <1>5, <2>2 DEF EffectRuns
  <2> QED BY <2>1, <2>2
<1>6. CASE refresh
  BY <1>1, <1>6 DEF refresh
<1>7. CASE abort \/ dispose
  BY <1>2, <1>7 DEF abort, dispose, reactive
<1>8. ASSUME NEW x \in {0, 1}, SetDependency(x) PROVE NewestReadDependency'
  BY <1>8 DEF SetDependency, NewestReadDependency
<1>9. CASE fnReturns \/ fnThrows
  BY <1>2, <1>9 DEF fnReturns, fnThrows, reactive
<1>10. ASSUME NEW v \in Versions, Resolve(v) \/ Reject(v) \/ RejectAborted(v)
       PROVE  NewestReadDependency'
  BY <1>2, <1>10 DEF Resolve, Reject, RejectAborted, reactive
<1> QED BY <1>3, <1>4, <1>5, <1>6, <1>7, <1>8, <1>9, <1>10 DEF Next

\* async.ts:95, 131-139: what is shown when all is quiet was asked for with the
\* present dependency, whatever was refreshed, aborted or changed meanwhile.
THEOREM ShownFollowsDependency == Spec => []DataFollowsDependency
<1>1. Init => NewestReadDependency
  BY DEF Init, NewestReadDependency
<1>2. NewestReadDependency => DataFollowsDependency
  BY DEF NewestReadDependency, DataFollowsDependency
<1> QED BY <1>1, <1>2, InvAlways, ReadStep, PTL DEF Spec
-----------------------------------------------------------------------------
(* createAsync implements LatestRequest. *)

Current == IF Open THEN runVersion ELSE 0

\* A step of LatestRequest under the refinement mapping, or a stutter.
Mapped == Latest!Next \/ UNCHANGED Latest!vars

LEMMA ExecuteIsBegin == ASSUME IInv, execute, ~disposed, disposed' = disposed PROVE Mapped
<1>1. /\ runVersion' = runVersion + 1 /\ runVersion' \in 1..MaxVersion /\ loading' = TRUE /\ error' = 0
      /\ data' \in {data, 0} /\ request'[runVersion'] = "running"
  BY ExecuteInv DEF execute
<1>2. Current' = runVersion'
  BY <1>1 DEF Current, Open
<1> QED BY <1>1, <1>2 DEF Mapped, Latest!Next, Latest!Begin, Current

LEMMA Stutter ==
  ASSUME UNCHANGED <<shown, runVersion, disposed>>, Open' = Open PROVE Mapped
BY DEF Mapped, Latest!vars, shown

LEMMA StepMaps == IInv /\ [Next]_vars => Mapped
<1> SUFFICES ASSUME IInv, [Next]_vars PROVE Mapped OBVIOUS
<1> DEFINE Same == UNCHANGED <<shown, runVersion, ctrl, disposed, request>>
<1>1. ASSUME Same PROVE Mapped
  <2>1. Open' = Open
    BY <1>1 DEF Open, ctrl
  <2> QED BY <1>1, <2>1, Stutter
<1>2. ASSUME Build PROVE Mapped
  BY <1>1, <1>2, ExecuteIsBegin DEF Build, IInv, BuildIsFirst
<1>3. ASSUME EffectRuns \/ refresh PROVE Mapped
  BY <1>1, <1>3, ExecuteIsBegin DEF EffectRuns, refresh
<1>4. ASSUME abort PROVE Mapped
  <2>1. /\ loading' = FALSE /\ UNCHANGED <<data, error, runVersion, disposed, request>>
        /\ aborted \subseteq aborted' /\ (runVersion # 0 => runVersion \in aborted')
    BY <1>4, AbortFacts DEF abort
  <2>2. Current' \in {Current, 0}
    BY <2>1 DEF Current, Open
  <2> QED BY <2>1, <2>2 DEF Mapped, Latest!Next, Latest!Cancel, Current
<1>5. ASSUME dispose PROVE Mapped
  BY <1>5 DEF dispose, Mapped, Latest!Next, Latest!Close, Open
<1>6. ASSUME NEW x \in {0, 1}, SetDependency(x) PROVE Mapped
  BY <1>1, <1>6 DEF SetDependency
<1>7. ASSUME running # <<>>, Pop, UNCHANGED <<runVersion, ctrl, disposed>>,
             NEW st \in {"pending", "settled"}, request' = [request EXCEPT ![Top] = st]
      PROVE  /\ Top \in Versions /\ request[Top] = "running" /\ request'[Top] = st
             /\ Top # runVersion => Open' = Open
             /\ Top = runVersion => (Open <=> ~disposed) /\ (st = "settled" => ~Open')
  <2>1. Top \in Versions /\ request[Top] = "running"
    BY <1>7, EndInv
  <2> QED BY <1>7, <2>1 DEF IInv, TypeOK, Open, ctrl, Versions
<1>8. ASSUME fnReturns PROVE Mapped
  <2>1. /\ Top # runVersion => Open' = Open
        /\ Top = runVersion => (Open <=> ~disposed)
        /\ Top \in Versions
    BY <1>7, <1>8 DEF fnReturns
  <2>2. UNCHANGED <<shown, runVersion, disposed>>
    BY <1>8 DEF fnReturns
  <2>3. CASE Open' = Open
    BY <2>2, <2>3, Stutter
  <2>4. CASE Open /\ ~Open'
    BY <2>2, <2>4 DEF Mapped, Latest!Next, Latest!Forget, shown, Open
  <2>5. CASE ~Open /\ Open'
    BY <2>1, <2>2, <2>5 DEF Open
  <2> QED BY <2>3, <2>4, <2>5 DEF Open
<1>9. ASSUME fnThrows PROVE Mapped
  <2>1. /\ Top # runVersion => Open' = Open
        /\ Top = runVersion => (Open <=> ~disposed) /\ ~Open'
        /\ Top \in Versions
    BY <1>7, <1>9 DEF fnThrows, Settle
  <2>2. UNCHANGED <<runVersion, disposed>>
    BY <1>9 DEF fnThrows
  <2>3. CASE Top = runVersion /\ ~disposed
    BY <1>9, <2>1, <2>2, <2>3 DEF fnThrows, Mapped, Latest!Next, Latest!Fail, Versions
  <2>4. CASE ~(Top = runVersion /\ ~disposed)
    <3>1. UNCHANGED shown
      BY <1>9, <2>4 DEF fnThrows
    <3>2. Open' = Open
      BY <2>1, <2>2, <2>4 DEF Open
    <3> QED BY <3>1, <3>2, <2>2, Stutter
  <2> QED BY <2>3, <2>4
<1>10. ASSUME NEW v \in Versions, Resolve(v) \/ Reject(v) \/ RejectAborted(v) PROVE Mapped
  <2>1. /\ request[v] = "pending" /\ UNCHANGED <<runVersion, ctrl, disposed>>
        /\ request' \in {[request EXCEPT ![v] = "settled"], [request EXCEPT ![v] = "forgotten"]}
    BY <1>10 DEF Resolve, Reject, RejectAborted, Settle
  <2>2. /\ v # runVersion => Open' = Open
        /\ v = runVersion => ~Open'
        /\ IsCurrent(v) <=> v = runVersion /\ Open
    <3>1. v \in Nat \ {0} /\ request = [w \in Versions |-> request[w]] /\ aborted' = aborted
      BY <2>1 DEF IInv, TypeOK, ctrl, Versions
    <3>2. /\ request'[v] \in {"settled", "forgotten"}
          /\ \A w \in Versions : w # v => request'[w] = request[w]
      BY <2>1, <3>1
    <3>3. v = runVersion => ~Open'
      BY <2>1, <3>2 DEF Open
    <3>4. IsCurrent(v) <=> v = runVersion /\ Open
      BY <2>1, <3>1 DEF Open, IsCurrent
    <3>5. runVersion # 0 => runVersion \in Versions
      BY DEF IInv, TypeOK, Versions
    <3>6. v # runVersion => Open' = Open
      BY <2>1, <3>1, <3>2, <3>5 DEF Open
    <3> QED BY <3>3, <3>4, <3>6
  <2>3. CASE UNCHANGED shown
    <3>1. CASE Open /\ ~Open'
      BY <2>1, <2>3, <3>1 DEF Mapped, Latest!Next, Latest!Forget, shown, Open
    <3>2. CASE Open' = Open
      BY <2>1, <2>3, <3>2, Stutter
    <3>3. CASE ~Open /\ Open'
      BY <2>2, <3>3
    <3> QED BY <3>1, <3>2, <3>3 DEF Open
  <2>4. CASE IsCurrent(v) /\ Resolve(v)
    BY <2>1, <2>2, <2>4 DEF Resolve, Mapped, Latest!Next, Latest!Succeed, Versions
  <2>5. CASE IsCurrent(v) /\ Reject(v)
    BY <2>1, <2>2, <2>5 DEF Reject, Mapped, Latest!Next, Latest!Fail, Versions
  <2> QED BY <1>10, <2>3, <2>4, <2>5 DEF Resolve, Reject, RejectAborted
<1>11. ASSUME UNCHANGED vars PROVE Mapped
  BY <1>1, <1>11 DEF vars
<1> QED BY <1>2, <1>3, <1>4, <1>5, <1>6, <1>8, <1>9, <1>10, <1>11 DEF Next

LEMMA InitMaps == Init => Latest!Init
BY DEF Init, Latest!Init, Open

\* createAsync shows the newest request and no other: its steps are steps of
\* LatestRequest, whatever the bounds.
THEOREM ImplementsLatestRequest == Spec => ShowsLatestRequest
<1>1. IInv /\ [Next]_vars => [Latest!Next]_(Latest!vars)
  BY StepMaps DEF Mapped
<1> QED BY <1>1, InitMaps, InvAlways, PTL DEF Spec, ShowsLatestRequest, Latest!Spec

------------------------------------------------------------------------------
(***************************************************************************)
(* The packages of MCRequests, composed.  RunSpec follows one package, so  *)
(* for each one there are two lemmas: its steps in RunSpec are those of    *)
(* its own specification (...Runs), and so it keeps what was proved of     *)
(* that specification (...Keeps), here with the variables v1, v2, ...      *)
(* The proofs come in by INSTANCE, with the substitutions of MCRequests:   *)
(* A has those of AuthClients and of what is shared, Q all others, and R   *)
(* those of Navigation again, for the chain of two guards.                 *)
(***************************************************************************)

\* A step of RunSpec stays with its package and is a step, or a stutter, of that package.
LEMMA PackageSteps ==
  ASSUME [Step]_<<package, vars, Rest1>>
  PROVE  /\ package' = package
         /\ package = "auth-oauth" => [O!Next]_(O!vars)
         /\ package = "functional auth" => [O!FunctionalNext]_(O!functionalVars)
         /\ package = "http" => [H!Next]_(H!vars)
         /\ package = "fetcher" => [Z!Next]_(Z!vars)
         /\ package = "data" => [Z!CallsNext]_(Z!callsVars)
         /\ package = "service-worker" => [S!Next]_(S!vars)
         /\ package = "feature-flags" => [G!Next]_(G!vars)
         /\ package = "i18n" => [G!LocaleNext]_(G!localeVars)
         /\ package = "service-worker caches" => [C!Next]_(C!vars)
         /\ package = "router, one guard" => [N!Next]_(N!vars)
         /\ package = "outlet" => [T!Next]_(T!vars)
         /\ package = "components" => [L!Next]_(L!vars)
         /\ package = "zen-suspense" => [B!Next]_(B!vars)
         /\ package = "createSuspense" => [B!TrackNext]_(B!trackVars)
         /\ package = "form" => [F!Next]_(F!vars)
         /\ package = "wizard" => [F!WizardNext]_(F!wizardVars)
         /\ package = "router, two guards" => [V!Next]_(V!vars)
         /\ package = "storage" => [K!Next]_(K!vars)
         /\ package = "store" => [W!Next]_(W!vars)
         /\ package = "stores" => [W!LifecycleNext]_(W!lifecycleVars)
         /\ package = "ssr" => [P!Next]_(P!vars)
BY DEF Step, vars, Rest1, Rest2, Rest3, Rest4, Rest5, Rest6, Rest7, Rest8, Rest9, Rest10, Rest11,
       Rest12, Rest13, Rest14, H!vars, Z!vars, Z!callsVars, S!vars, O!vars, O!functionalVars,
       G!vars, G!localeVars, C!vars, N!vars, V!vars, T!vars, L!vars, B!vars, B!trackVars,
       F!vars, F!wizardVars, K!vars, W!vars, W!lifecycleVars, P!vars

A == INSTANCE SharedProofs
  WITH Tabs <- {"t1", "t2"}, Keys <- {"k1", "k2"}, Values <- {1, 2}, Capacity <- 2, MaxEvents <- 2,
       Root <- 1, MaxObjects <- 5, MaxSets <- 3, MaxLayers <- 2, MaxChanges <- 3,
       Subscribers <- {"a"}, MaxStores <- 2, MaxDepth <- 2, Requests <- {1, 2}, Streams <- {2},
       Workers <- {1, 2}, MaxPool <- 1, MaxPasses <- 2, login <- v1, pending <- v2, exchanged <- v3,
       tokens <- v4, user <- v5, claims <- v6, status <- v7, timers <- v8, renewTimer <- v9,
       calls <- v10, made <- v11, disposed <- v12, crossed <- v13, gaveUp <- v14, account <- v1,
       accountTokens <- v2, stored <- v3, loading <- v4, timer <- v5, initialized <- v6,
       requests <- v7, sent <- v8, mixed <- v9, halfCleared <- v10, records <- v1, signal <- v2,
       inbox <- v3, torn <- v4, field <- v1, objects <- v2, sets <- v3, visiting <- v4,
       proxied <- v5, held <- v6, kept <- v7, changes <- v8, twice <- v9, stores <- v1,
       current <- v2, saved <- v3, refused <- v4, telling <- v5, mutations <- v6, als <- v1,
       serving <- v2, failOnError <- v3, stack <- v4, work <- v5, result <- v6, aborted <- v7,
       pool <- v8, doms <- v9, job <- v10, files <- v11

LEMMA ClientRuns == RunSpec /\ package = "auth-oauth" => A!Spec
<1>1. O!Init => A!Init
  BY DEF O!NoTokens, A!NoTokens, O!Init, A!Init, O!Session, A!Session, O!Asks, A!Asks, O!refresh,
         A!refresh
<1>2. O!Next => A!Next
  BY DEF O!NoTokens, A!NoTokens, O!Session, A!Session, O!LoginBegins, A!LoginBegins, O!LoginStores,
         A!LoginStores, O!LoginReturns, A!LoginReturns, O!Asks, A!Asks, O!Exchanges, A!Exchanges,
         O!handleCallback, A!handleCallback, O!scheduleRenew, A!scheduleRenew, O!Overtaken,
         A!Overtaken, O!Fails, A!Fails, O!Verified, A!Verified, O!ExchangeVerified,
         A!ExchangeVerified, O!Takes, A!Takes, O!ExchangeEnds, A!ExchangeEnds, O!refresh, A!refresh,
         O!TimerFires, A!TimerFires, O!RefreshVerifies, A!RefreshVerifies, O!RefreshEnds,
         A!RefreshEnds, O!RefreshFails, A!RefreshFails, O!SignedOut, A!SignedOut, O!logout,
         A!logout, O!dispose, A!dispose, O!Next, A!Next
<1>3. package = "auth-oauth" /\ Start => A!Init
  BY <1>1 DEF Start
<1>4. package = "auth-oauth" /\ [Step]_<<package, vars, Rest1>>
      => (package = "auth-oauth")' /\ [A!Next]_(A!vars)
  BY <1>2, PackageSteps DEF O!vars, A!vars
<1> QED BY <1>3, <1>4, PTL DEF RunSpec, A!Spec

LEMMA ClientKeeps ==
  RunSpec => [](package = "auth-oauth" => O!RenewalIsComing /\ O!SessionIsOne /\ O!StateIsSpentOnce)
<1>1. A!ClientConstants
  BY RequestsAssumption DEF A!ClientConstants
<1>2. A!Spec => [](A!RenewalIsComing /\ A!SessionIsOne /\ A!StateIsSpentOnce)
  BY <1>1, A!StatesAreSpentOnce, A!SessionStaysOne, A!RenewalsContinue, PTL
<1>3. A!RenewalIsComing /\ A!SessionIsOne /\ A!StateIsSpentOnce =>
      O!RenewalIsComing /\ O!SessionIsOne /\ O!StateIsSpentOnce
  BY DEF O!NoTokens, A!NoTokens, O!Session, A!Session, O!Asks, A!Asks, O!refresh, A!refresh,
         O!StateIsSpentOnce, A!StateIsSpentOnce, O!SessionIsOne, A!SessionIsOne, O!RenewalIsComing,
         A!RenewalIsComing
<1>4. ~(package = "auth-oauth") /\ [Step]_<<package, vars, Rest1>> => ~(package = "auth-oauth")'
  BY PackageSteps
<1> QED BY <1>2, <1>3, <1>4, ClientRuns, PTL DEF RunSpec

LEMMA FunctionalRuns == RunSpec /\ package = "functional auth" => A!FunctionalSpec
<1>1. O!FunctionalInit => A!FunctionalInit
  BY DEF O!Who, A!Who, O!FunctionalInit, A!FunctionalInit
<1>2. O!FunctionalNext => A!FunctionalNext
  BY DEF O!FunctionalAsks, A!FunctionalAsks, O!Ends, A!Ends, O!setupFunctionalAutoRefresh,
         A!setupFunctionalAutoRefresh, O!clearFunctionalAuthState, A!clearFunctionalAuthState,
         O!initAuth, A!initAuth, O!functionalLogin, A!functionalLogin, O!SignsIn, A!SignsIn,
         O!SignInFails, A!SignInFails, O!logoutAsks, A!logoutAsks, O!LoggedOut, A!LoggedOut,
         O!logoutEnds, A!logoutEnds, O!functionalLogout, A!functionalLogout, O!refreshToken,
         A!refreshToken, O!FunctionalTimerFires, A!FunctionalTimerFires, O!Refreshed, A!Refreshed,
         O!FunctionalRefreshFails, A!FunctionalRefreshFails, O!fetchCurrentUser, A!fetchCurrentUser,
         O!UserArrives, A!UserArrives, O!UserFails, A!UserFails, O!FunctionalNext, A!FunctionalNext
<1>3. package = "functional auth" /\ Start => A!FunctionalInit
  BY <1>1 DEF Start
<1>4. package = "functional auth" /\ [Step]_<<package, vars, Rest1>>
      => (package = "functional auth")' /\ [A!FunctionalNext]_(A!functionalVars)
  BY <1>2, PackageSteps DEF O!functionalVars, A!functionalVars
<1> QED BY <1>3, <1>4, PTL DEF RunSpec, A!FunctionalSpec

LEMMA FunctionalKeeps ==
  RunSpec => [](package = "functional auth" =>
                   O!LoadingIsBacked /\ O!OneAccount /\ O!SignedOutIsForgotten)
<1>1. A!ClientConstants
  BY RequestsAssumption DEF A!ClientConstants
<1>2. A!FunctionalSpec => [](A!LoadingIsBacked /\ A!OneAccount /\ A!SignedOutIsForgotten)
  BY <1>1, A!AccountsAreNotMixed, A!SignOutsAreFinal, A!LoadingWillClear, PTL
<1>3. A!LoadingIsBacked /\ A!OneAccount /\ A!SignedOutIsForgotten =>
      O!LoadingIsBacked /\ O!OneAccount /\ O!SignedOutIsForgotten
  BY DEF O!OneAccount, A!OneAccount, O!SignedOutIsForgotten, A!SignedOutIsForgotten,
         O!LoadingIsBacked, A!LoadingIsBacked
<1>4. ~(package = "functional auth") /\ [Step]_<<package, vars, Rest1>> =>
      ~(package = "functional auth")'
  BY PackageSteps
<1> QED BY <1>2, <1>3, <1>4, FunctionalRuns, PTL DEF RunSpec

LEMMA TabsRuns == RunSpec /\ package = "storage" => A!Storage!Spec
<1>1. K!Init => A!Storage!Init
  BY DEF K!Init, A!Storage!Init
<1>2. K!Next => A!Storage!Next
  BY DEF K!RemoveAt, A!Storage!RemoveAt, K!Range, A!Storage!Range, K!Record, A!Storage!Record,
         K!Event, A!Storage!Event, K!Without, A!Storage!Without, K!Room, A!Storage!Room, K!Fits,
         A!Storage!Fits, K!IsStored, A!Storage!IsStored, K!Read, A!Storage!Read, K!Tell,
         A!Storage!Tell, K!Shows, A!Storage!Shows, K!Torn, A!Storage!Torn, K!SetSignal,
         A!Storage!SetSignal, K!remove, A!Storage!remove, K!Purge, A!Storage!Purge, K!Expire,
         A!Storage!Expire, K!Heard, A!Storage!Heard, K!Deliver, A!Storage!Deliver, K!Reload,
         A!Storage!Reload, K!Next, A!Storage!Next
<1>3. package = "storage" /\ Start => A!Storage!Init
  BY <1>1 DEF Start
<1>4. package = "storage" /\ [Step]_<<package, vars, Rest1>>
      => (package = "storage")' /\ [A!Storage!Next]_(A!Storage!vars)
  BY <1>2, PackageSteps DEF K!vars, A!Storage!vars
<1> QED BY <1>3, <1>4, PTL DEF RunSpec, A!Storage!Spec

LEMMA TabsKeeps == RunSpec => [](package = "storage" => K!TabsAgree)
<1>1. A!StorageConstants
  BY RequestsAssumption DEF A!StorageConstants
<1>2. A!Storage!Spec => []A!Storage!TabsAgree
  BY <1>1, A!TabsStayInStep, PTL
<1>3. A!Storage!TabsAgree => K!TabsAgree
  BY DEF K!Range, A!Storage!Range, K!Room, A!Storage!Room, K!Read, A!Storage!Read,
         K!SignalsFollowStorage, A!Storage!SignalsFollowStorage, K!RecordsFit, A!Storage!RecordsFit,
         K!TabsAgree, A!Storage!TabsAgree
<1>4. ~(package = "storage") /\ [Step]_<<package, vars, Rest1>> => ~(package = "storage")'
  BY PackageSteps
<1> QED BY <1>2, <1>3, <1>4, TabsRuns, PTL DEF RunSpec

LEMMA WatchedRuns == RunSpec /\ package = "store" => A!Stores!Spec
<1>1. W!Init => A!Stores!Init
  BY DEF W!Nil, A!Stores!Nil, W!Raw, A!Stores!Raw, W!Objects, A!Stores!Objects, W!stateProxy,
         A!Stores!stateProxy, W!Init, A!Stores!Init
<1>2. W!Next => A!Stores!Next
  BY DEF W!Nil, A!Stores!Nil, W!Raw, A!Stores!Raw, W!Objects, A!Stores!Objects, W!stateProxy,
         A!Stores!stateProxy, W!createInPlaceDeepProxy, A!Stores!createInPlaceDeepProxy, W!Memory,
         A!Stores!Memory, W!Noted, A!Stores!Noted, W!Got, A!Stores!Got, W!Keep, A!Stores!Keep,
         W!Watched, A!Stores!Watched, W!Read, A!Stores!Read, W!Restart, A!Stores!Restart, W!KeepIt,
         A!Stores!KeepIt, W!Changes, A!Stores!Changes, W!Put, A!Stores!Put, W!WriteNew,
         A!Stores!WriteNew, W!WriteAgain, A!Stores!WriteAgain, W!WriteKept, A!Stores!WriteKept,
         W!Delete, A!Stores!Delete, W!patch, A!Stores!patch, W!reset, A!Stores!reset, W!Next,
         A!Stores!Next
<1>3. package = "store" /\ Start => A!Stores!Init
  BY <1>1 DEF Start
<1>4. package = "store" /\ [Step]_<<package, vars, Rest1>>
      => (package = "store")' /\ [A!Stores!Next]_(A!Stores!vars)
  BY <1>2, PackageSteps DEF W!vars, A!Stores!vars
<1> QED BY <1>3, <1>4, PTL DEF RunSpec, A!Stores!Spec

LEMMA WatchedKeeps == RunSpec => [](package = "store" => W!ReadIsWatched)
<1>1. A!StateConstants
  BY RequestsAssumption DEF A!StateConstants
<1>2. A!Stores!Spec => []A!Stores!ReadIsWatched
  BY <1>1, A!ReadsAreWatched, PTL
<1>3. A!Stores!ReadIsWatched => W!ReadIsWatched
  BY DEF W!ReadIsWatched, A!Stores!ReadIsWatched
<1>4. ~(package = "store") /\ [Step]_<<package, vars, Rest1>> => ~(package = "store")'
  BY PackageSteps
<1> QED BY <1>2, <1>3, <1>4, WatchedRuns, PTL DEF RunSpec

LEMMA ToldRuns == RunSpec /\ package = "stores" => A!Stores!LifecycleSpec
<1>1. W!LifecycleInit => A!Stores!LifecycleInit
  BY DEF W!Nothing, A!Stores!Nothing, W!LifecycleInit, A!Stores!LifecycleInit
<1>2. W!LifecycleNext => A!Stores!LifecycleNext
  <2>1. \A q, x : W!RemoveFirst(q, x) = A!Stores!RemoveFirst(q, x)
    BY DEF W!RemoveFirst, A!Stores!RemoveFirst, W!SelectInSeq, A!Stores!SelectInSeq, W!Min,
           A!Stores!Min, W!RemoveAt, A!Stores!RemoveAt
  <2>2. \A s, x : W!Unsubscribe(s, x) => A!Stores!Unsubscribe(s, x)
    BY <2>1 DEF W!Unsubscribe, A!Stores!Unsubscribe, W!AppRuns, A!Stores!AppRuns, W!Last,
                A!Stores!Last, W!ToSet, A!Stores!ToSet
  <2> QED
    BY <2>2 DEF W!ToSet, A!Stores!ToSet, W!Front, A!Stores!Front, W!Last,
         A!Stores!Last, W!Nothing, A!Stores!Nothing, W!Called, A!Stores!Called, W!AppRuns,
         A!Stores!AppRuns, W!Version, A!Stores!Version, W!Subscribed, A!Stores!Subscribed,
         W!Restored, A!Stores!Restored, W!useStore, A!Stores!useStore, W!subscribe,
         A!Stores!subscribe, W!Notified, A!Stores!Notified,
         W!Change, A!Stores!Change, W!CallNext, A!Stores!CallNext, W!Return, A!Stores!Return,
         W!Throws, A!Stores!Throws, W!disposeStore, A!Stores!disposeStore, W!LifecycleNext,
         A!Stores!LifecycleNext
<1>3. package = "stores" /\ Start => A!Stores!LifecycleInit
  BY <1>1 DEF Start
<1>4. package = "stores" /\ [Step]_<<package, vars, Rest1>>
      => (package = "stores")' /\ [A!Stores!LifecycleNext]_(A!Stores!lifecycleVars)
  BY <1>2, PackageSteps DEF W!lifecycleVars, A!Stores!lifecycleVars
<1> QED BY <1>3, <1>4, PTL DEF RunSpec, A!Stores!LifecycleSpec

LEMMA ToldKeeps ==
  RunSpec => [](package = "stores" => W!StoredIsState /\ W!SubscribersHeard)
<1>1. A!LifecycleConstants
  BY RequestsAssumption DEF A!LifecycleConstants
<1>2. A!Stores!LifecycleSpec => [](A!Stores!StoredIsState /\ A!Stores!SubscribersHeard)
  BY <1>1, A!StoredAndHeard, PTL
<1>3. A!Stores!StoredIsState /\ A!Stores!SubscribersHeard => W!StoredIsState /\ W!SubscribersHeard
  BY DEF W!ToSet, A!Stores!ToSet, W!Nothing, A!Stores!Nothing, W!Version, A!Stores!Version, W!IsDue,
         A!Stores!IsDue, W!StoredIsState, A!Stores!StoredIsState, W!SubscribersHeard,
         A!Stores!SubscribersHeard
<1>4. ~(package = "stores") /\ [Step]_<<package, vars, Rest1>> => ~(package = "stores")'
  BY PackageSteps
<1> QED BY <1>2, <1>3, <1>4, ToldRuns, PTL DEF RunSpec

LEMMA RenderedRuns == RunSpec /\ package = "ssr" => A!Server!Spec
<1>1. P!Init => A!Server!Init
  BY DEF P!NewWork, A!Server!NewWork, P!Idle, A!Server!Idle, P!Init, A!Server!Init
<1>2. P!Next => A!Server!Next
  BY DEF P!RemoveAt, A!Server!RemoveAt, P!Front, A!Server!Front, P!Last, A!Server!Last,
         P!Cardinality, A!Server!Cardinality, P!Begun, A!Server!Begun, P!Idle, A!Server!Idle,
         P!Ended, A!Server!Ended, P!Rejected, A!Server!Rejected, P!RendersStay,
         A!Server!RendersStay, P!AskersStay, A!Server!AskersStay, P!getStore, A!Server!getStore,
         P!Enter, A!Server!Enter, P!NextPass, A!Server!NextPass, P!Taken, A!Server!Taken, P!Render,
         A!Server!Render, P!Left, A!Server!Left, P!Answered, A!Server!Answered, P!Finish,
         A!Server!Finish, P!Timeout, A!Server!Timeout, P!RenderBegins, A!Server!RenderBegins, P!Ask,
         A!Server!Ask, P!Pull, A!Server!Pull, P!Abort, A!Server!Abort, P!Queue, A!Server!Queue,
         P!worker, A!Server!worker, P!PageEnds, A!Server!PageEnds, P!Next, A!Server!Next
<1>3. package = "ssr" /\ Start => A!Server!Init
  BY <1>1 DEF Start
<1>4. package = "ssr" /\ [Step]_<<package, vars, Rest1>>
      => (package = "ssr")' /\ [A!Server!Next]_(A!Server!vars)
  BY <1>2, PackageSteps DEF P!vars, A!Server!vars
<1> QED BY <1>3, <1>4, PTL DEF RunSpec, A!Server!Spec

LEMMA RenderedKeeps ==
  RunSpec => [](package = "ssr" => /\ P!RequestsAreIsolated /\ P!DomsAreInOnePlace
                                   /\ P!AnswersAreExpected /\ P!EveryPageIsPutDown)
<1>1. A!RenderConstants
  <2>1. <<1, 2>> \in Seq({1, 2}) /\ \A r \in {1, 2} : \E n \in 1..Len(<<1, 2>>) : <<1, 2>>[n] = r
    OBVIOUS
  <2>2. A!IsFiniteSet({1, 2})
    BY <2>1 DEF A!IsFiniteSet
  <2> QED BY <2>2 DEF A!RenderConstants
<1>2. A!Server!Spec => [](/\ A!Server!RequestsAreIsolated /\ A!Server!DomsAreInOnePlace
                          /\ A!Server!AnswersAreExpected /\ A!Server!EveryPageIsPutDown)
  BY <1>1, A!RendersAreApart, A!AnswersComeOnce, PTL
<1>3. /\ A!Server!RequestsAreIsolated /\ A!Server!DomsAreInOnePlace
      /\ A!Server!AnswersAreExpected /\ A!Server!EveryPageIsPutDown
      =>
      /\ P!RequestsAreIsolated /\ P!DomsAreInOnePlace
      /\ P!AnswersAreExpected /\ P!EveryPageIsPutDown
  BY DEF P!ToSet, A!Server!ToSet, P!IsInjective, A!Server!IsInjective, P!UnderWay,
         A!Server!UnderWay, P!Ended, A!Server!Ended, P!Rejected, A!Server!Rejected, P!Settled,
         A!Server!Settled, P!RequestsAreIsolated, A!Server!RequestsAreIsolated, P!DomsAreInOnePlace,
         A!Server!DomsAreInOnePlace, P!AnswersAreExpected, A!Server!AnswersAreExpected,
         P!EveryPageIsPutDown, A!Server!EveryPageIsPutDown
<1>4. ~(package = "ssr") /\ [Step]_<<package, vars, Rest1>> => ~(package = "ssr")'
  BY PackageSteps
<1> QED BY <1>2, <1>3, <1>4, RenderedRuns, PTL DEF RunSpec

Q == INSTANCE RequestProofs
  WITH Versions <- WorkerVersions, Fields <- {"a", "b"}, Dynamic <- {"b"}, Values <- {0, 1},
       Initial <- 0, SyncRejects <- {<<"a", 0>>}, AsyncRejects <- {<<"b", 1>>}, Confirms <- {},
       MaxChecks <- 2, Steps <- {1, 2}, Good <- 0, Bad <- 1, MaxRuns <- 2, MaxFormCalls <- 3,
       phase <- v4, attempt <- v1, pending <- v2, aborted <- v3, callerAborted <- v5, cached <- v6,
       res <- v7, url <- v3, scheduled <- v4, fetchId <- v5, evaluated <- v6, fetches <- v2,
       shown <- v7, disposed <- v1, mutations <- v1, callbacks <- v2, mutation <- v4, pages <- v5,
       next <- v6, queries <- v7, querying <- v8, overlapped <- v9, calls <- v3, client <- v2,
       stored <- v1, registered <- v3, sync <- v4, retryCount <- v5, cycles <- v6, accepted <- v7,
       cutOff <- v8, data <- v2, override <- v4, overrides <- v5, refreshes <- v6, made <- v3,
       timer <- v7, unordered <- v8, locale <- v4, lastDir <- v5, page <- v6, messages <- v7,
       available <- v8, loads <- v9, cleanups <- v10, i18nDisposed <- v11, crossed <- v2,
       strategy <- v2, named <- v3, active <- v4, waiting <- v1, cleaning <- v5, store <- v6,
       server <- v7, req <- v8, kept <- v9, guards <- v3, entries <- v4, at <- v5, route <- v6,
       commits <- v7, path <- v4, params <- v5, queued <- v3, loadId <- v6, cache <- v7,
       prefetched <- v8, content <- v9, cleaned <- v1, element <- v4, template <- v5, failure <- v6,
       inflight <- v7, cleared <- v8, inner <- v2, outer <- v3, released <- v4, ctx <- v2,
       tracked <- v5, generation <- v6, loading <- v7, delaying <- v8, error <- v9, ready <- v10,
       present <- v1, value <- v2, verdict <- v3, flag <- v4, valid <- v5, submitting <- v6,
       timers <- v7, checks <- v8, mixed <- v9, handed <- v10, stepValue <- v1, refusals <- v2,
       outdated <- v3, runs <- v4, validating <- v5, currentStep <- v6, unseen <- v7,
       canGoNext <- v8, autoSave <- v9, saved <- v10, formCalls <- v11, refusedOnce <- v12

LEMMA HttpRuns == RunSpec /\ package = "http" => Q!Spec
<1>1. H!Init => Q!Init
  BY DEF H!Keys, Q!Keys, H!Init, Q!Init
<1>2. H!Next => Q!Next
  BY DEF H!Keys, Q!Keys, H!Ended, Q!Ended, H!UnderWay, Q!UnderWay, H!Controller, Q!Controller,
         H!CallerHasAborted, Q!CallerHasAborted, H!Settled, Q!Settled, H!Outcome, Q!Outcome,
         H!Proceed, Q!Proceed, H!Register, Q!Register, H!Intercept, Q!Intercept, H!Send, Q!Send,
         H!InterceptorsEnd, Q!InterceptorsEnd, H!InterceptorFails, Q!InterceptorFails, H!Unregister, Q!Unregister, H!Finish, Q!Finish,
         H!Succeed, Q!Succeed, H!FailAborted, Q!FailAborted, H!Fail, Q!Fail, H!Retry, Q!Retry,
         H!Abort, Q!Abort, H!TimeOut, Q!TimeOut, H!CallerAborts, Q!CallerAborts, H!cancelRequest,
         Q!cancelRequest, H!cancelAllRequests, Q!cancelAllRequests, H!clearHttpCache,
         Q!clearHttpCache, H!Next, Q!Next
<1>3. package = "http" /\ Start => Q!Init
  BY <1>1 DEF Start
<1>4. package = "http" /\ [Step]_<<package, vars, Rest1>>
      => (package = "http")' /\ [Q!Next]_(Q!vars)
  BY <1>2, PackageSteps DEF H!vars, Q!vars
<1> QED BY <1>3, <1>4, PTL DEF RunSpec, Q!Spec

LEMMA HttpKeeps ==
  RunSpec => [](package = "http" =>
                   H!LoadingIsBacked /\ H!RegistryNamesRunning /\ H!NoAttemptAfterAbort)
<1>1. Q!Spec => [](Q!LoadingIsBacked /\ Q!RegistryNamesRunning /\ Q!NoAttemptAfterAbort)
  BY Q!RegistryIsFresh, Q!AbortsAreFinal, Q!LoadingWillEnd, PTL
<1>2. Q!LoadingIsBacked /\ Q!RegistryNamesRunning /\ Q!NoAttemptAfterAbort =>
      H!LoadingIsBacked /\ H!RegistryNamesRunning /\ H!NoAttemptAfterAbort
  BY DEF H!Keys, Q!Keys, H!Ended, Q!Ended, H!UnderWay, Q!UnderWay, H!Controller, Q!Controller,
         H!RegistryNamesRunning, Q!RegistryNamesRunning, H!NoAttemptAfterAbort,
         Q!NoAttemptAfterAbort, H!LoadingIsBacked, Q!LoadingIsBacked
<1>3. ~(package = "http") /\ [Step]_<<package, vars, Rest1>> => ~(package = "http")'
  BY PackageSteps
<1> QED BY <1>1, <1>2, <1>3, HttpRuns, PTL DEF RunSpec

LEMMA FetcherRuns == RunSpec /\ package = "fetcher" => Q!Fetch!Spec
<1>1. Z!Init => Q!Fetch!Init
  BY DEF Z!Init, Q!Fetch!Init
<1>2. Z!Next => Q!Fetch!Next
  BY DEF Z!UrlChanges, Q!Fetch!UrlChanges, Z!EffectRuns, Q!Fetch!EffectRuns, Z!IsCurrent,
         Q!Fetch!IsCurrent, Z!Answered, Q!Fetch!Answered, Z!RateLimited, Q!Fetch!RateLimited,
         Z!WaitEnds, Q!Fetch!WaitEnds, Z!cleanup, Q!Fetch!cleanup, Z!Next, Q!Fetch!Next
<1>3. package = "fetcher" /\ Start => Q!Fetch!Init
  BY <1>1 DEF Start
<1>4. package = "fetcher" /\ [Step]_<<package, vars, Rest1>>
      => (package = "fetcher")' /\ [Q!Fetch!Next]_(Q!Fetch!vars)
  BY <1>2, PackageSteps DEF Z!vars, Q!Fetch!vars
<1> QED BY <1>3, <1>4, PTL DEF RunSpec, Q!Fetch!Spec

LEMMA FetcherKeeps == RunSpec => [](package = "fetcher" => Z!LoadingIsBacked /\ Z!SettledShowsUrl)
<1>1. Q!Fetch!Spec => [](Q!Fetch!LoadingIsBacked /\ Q!Fetch!SettledShowsUrl)
  BY Q!FetchWillBeShown, Q!SettledFetchIsOfUrl, PTL
<1>2. Q!Fetch!LoadingIsBacked /\ Q!Fetch!SettledShowsUrl => Z!LoadingIsBacked /\ Z!SettledShowsUrl
  BY DEF Z!IsCurrent, Q!Fetch!IsCurrent, Z!SettledShowsUrl, Q!Fetch!SettledShowsUrl,
         Z!LoadingIsBacked, Q!Fetch!LoadingIsBacked
<1>3. ~(package = "fetcher") /\ [Step]_<<package, vars, Rest1>> => ~(package = "fetcher")'
  BY PackageSteps
<1> QED BY <1>1, <1>2, <1>3, FetcherRuns, PTL DEF RunSpec

LEMMA CallsRuns == RunSpec /\ package = "data" => Q!Fetch!CallsSpec
<1>1. Z!CallsInit => Q!Fetch!CallsInit
  BY DEF Z!CallsInit, Q!Fetch!CallsInit
<1>2. Z!CallsNext => Q!Fetch!CallsNext
  BY DEF Z!mutate, Q!Fetch!mutate, Z!MutationAnswers, Q!Fetch!MutationAnswers, Z!OnSuccessThrows,
         Q!Fetch!OnSuccessThrows, Z!MutationSettles, Q!Fetch!MutationSettles, Z!fetchNextPage,
         Q!Fetch!fetchNextPage, Z!PageArrives, Q!Fetch!PageArrives, Z!QuerySettles,
         Q!Fetch!QuerySettles, Z!resetMutation, Q!Fetch!resetMutation, Z!resetQuery,
         Q!Fetch!resetQuery, Z!CallsNext, Q!Fetch!CallsNext
<1>3. package = "data" /\ Start => Q!Fetch!CallsInit
  BY <1>1 DEF Start
<1>4. package = "data" /\ [Step]_<<package, vars, Rest1>>
      => (package = "data")' /\ [Q!Fetch!CallsNext]_(Q!Fetch!callsVars)
  BY <1>2, PackageSteps DEF Z!callsVars, Q!Fetch!callsVars
<1> QED BY <1>3, <1>4, PTL DEF RunSpec, Q!Fetch!CallsSpec

LEMMA CallsKeeps == RunSpec => [](package = "data" => Z!CallsAreBacked /\ Z!PagesInSequence)
<1>1. Q!PageConstants
  BY RequestsAssumption DEF Q!PageConstants
<1>2. Q!Fetch!CallsSpec => [](Q!Fetch!CallsAreBacked /\ Q!Fetch!PagesInSequence)
  BY <1>1, Q!PagesComeInOrder, PTL
<1>3. Q!Fetch!CallsAreBacked /\ Q!Fetch!PagesInSequence => Z!CallsAreBacked /\ Z!PagesInSequence
  BY DEF Z!CallsAreBacked, Q!Fetch!CallsAreBacked, Z!PagesInSequence, Q!Fetch!PagesInSequence
<1>4. ~(package = "data") /\ [Step]_<<package, vars, Rest1>> => ~(package = "data")'
  BY PackageSteps
<1> QED BY <1>2, <1>3, <1>4, CallsRuns, PTL DEF RunSpec

LEMMA QueueRuns == RunSpec /\ package = "service-worker" => Q!Queue!Spec
<1>1. S!Init => Q!Queue!Init
  BY DEF S!Init, Q!Queue!Init
<1>2. S!Next => Q!Queue!Next
  BY DEF S!Client, Q!Queue!Client, S!SyncStays, Q!Queue!SyncStays, S!Post, Q!Queue!Post,
         S!PostAnswered, Q!Queue!PostAnswered, S!PostFails, Q!Queue!PostFails, S!Enqueue,
         Q!Queue!Enqueue, S!Loads, Q!Queue!Loads, S!SyncFires, Q!Queue!SyncFires, S!Current,
         Q!Queue!Current, S!Sending, Q!Queue!Sending, S!AfterAcceptance, Q!Queue!AfterAcceptance,
         S!RetrySucceeds, Q!Queue!RetrySucceeds, S!RetryFails, Q!Queue!RetryFails,
         S!removeFromQueue, Q!Queue!removeFromQueue, S!SyncEnds, Q!Queue!SyncEnds, S!WorkerStops,
         Q!Queue!WorkerStops, S!Next, Q!Queue!Next
<1>3. package = "service-worker" /\ Start => Q!Queue!Init
  BY <1>1 DEF Start
<1>4. package = "service-worker" /\ [Step]_<<package, vars, Rest1>>
      => (package = "service-worker")' /\ [Q!Queue!Next]_(Q!Queue!vars)
  BY <1>2, PackageSteps DEF S!vars, Q!Queue!vars
<1> QED BY <1>3, <1>4, PTL DEF RunSpec, Q!Queue!Spec

LEMMA QueueKeeps ==
  RunSpec => [](package = "service-worker" => S!KeptUntilAccepted /\ S!AcceptedOnce)
<1>1. Q!SyncConstants
  BY RequestsAssumption DEF Q!SyncConstants, S!Handlers, Q!Queue!Handlers, S!Client, Q!Queue!Client
<1>2. Q!Queue!Spec => [](Q!Queue!KeptUntilAccepted /\ Q!Queue!AcceptedOnce)
  BY <1>1, Q!QueueKeepsMutations, Q!QueueSendsOnce, PTL
<1>3. Q!Queue!KeptUntilAccepted /\ Q!Queue!AcceptedOnce => S!KeptUntilAccepted /\ S!AcceptedOnce
  BY DEF S!KeptUntilAccepted, Q!Queue!KeptUntilAccepted, S!AcceptedOnce, Q!Queue!AcceptedOnce
<1>4. ~(package = "service-worker") /\ [Step]_<<package, vars, Rest1>> =>
      ~(package = "service-worker")'
  BY PackageSteps
<1> QED BY <1>2, <1>3, <1>4, QueueRuns, PTL DEF RunSpec

LEMMA FlagsRuns == RunSpec /\ package = "feature-flags" => Q!Chosen!Spec
<1>1. G!Init => Q!Chosen!Init
  BY DEF G!Init, Q!Chosen!Init
<1>2. G!Next => Q!Chosen!Next
  BY DEF G!Ids, Q!Chosen!Ids, G!InForce, Q!Chosen!InForce, G!Starts, Q!Chosen!Starts, G!refresh,
         Q!Chosen!refresh, G!TimerFires, Q!Chosen!TimerFires, G!Rearms, Q!Chosen!Rearms,
         G!RefreshEnds, Q!Chosen!RefreshEnds, G!Override, Q!Chosen!Override, G!PutBack,
         Q!Chosen!PutBack, G!Cleanup, Q!Chosen!Cleanup, G!dispose, Q!Chosen!dispose, G!Next,
         Q!Chosen!Next
<1>3. package = "feature-flags" /\ Start => Q!Chosen!Init
  BY <1>1 DEF Start
<1>4. package = "feature-flags" /\ [Step]_<<package, vars, Rest1>>
      => (package = "feature-flags")' /\ [Q!Chosen!Next]_(Q!Chosen!vars)
  BY <1>2, PackageSteps DEF G!vars, Q!Chosen!vars
<1> QED BY <1>3, <1>4, PTL DEF RunSpec, Q!Chosen!Spec

LEMMA FlagsKeeps ==
  RunSpec => [](package = "feature-flags" => G!LoopIsAlive /\ G!NewestOverrideCounts)
<1>1. Q!FlagsConstants
  BY RequestsAssumption DEF Q!FlagsConstants
<1>2. Q!Chosen!Spec => [](Q!Chosen!LoopIsAlive /\ Q!Chosen!NewestOverrideCounts)
  BY <1>1, Q!FlagsStayFresh, Q!OverridesNest, PTL
<1>3. Q!Chosen!LoopIsAlive /\ Q!Chosen!NewestOverrideCounts =>
      G!LoopIsAlive /\ G!NewestOverrideCounts
  BY DEF G!Ids, Q!Chosen!Ids, G!InForce, Q!Chosen!InForce, G!LoopIsAlive, Q!Chosen!LoopIsAlive,
         G!NewestOverrideCounts, Q!Chosen!NewestOverrideCounts
<1>4. ~(package = "feature-flags") /\ [Step]_<<package, vars, Rest1>> =>
      ~(package = "feature-flags")'
  BY PackageSteps
<1> QED BY <1>2, <1>3, <1>4, FlagsRuns, PTL DEF RunSpec

LEMMA LocaleRuns == RunSpec /\ package = "i18n" => Q!Chosen!LocaleSpec
<1>1. G!LocaleInit => Q!Chosen!LocaleInit
  BY DEF G!Missing, Q!Chosen!Missing, G!dirFor, Q!Chosen!dirFor, G!Page, Q!Chosen!Page,
         G!LocaleInit, Q!Chosen!LocaleInit
<1>2. G!LocaleNext => Q!Chosen!LocaleNext
  BY DEF G!Missing, Q!Chosen!Missing, G!dirFor, Q!Chosen!dirFor, G!Page, Q!Chosen!Page, G!HasLocale,
         Q!Chosen!HasLocale, G!Listed, Q!Chosen!Listed, G!Calls, Q!Chosen!Calls, G!DirAfter,
         Q!Chosen!DirAfter, G!Becomes, Q!Chosen!Becomes, G!BecomesCrossed, Q!Chosen!BecomesCrossed,
         G!Changes, Q!Chosen!Changes, G!setLocale, Q!Chosen!setLocale, G!Loaded, Q!Chosen!Loaded,
         G!LoadFails, Q!Chosen!LoadFails, G!Set, Q!Chosen!Set, G!addMessages, Q!Chosen!addMessages,
         G!RemoveAdded, Q!Chosen!RemoveAdded, G!Dispose, Q!Chosen!Dispose, G!LocaleNext,
         Q!Chosen!LocaleNext
<1>3. package = "i18n" /\ Start => Q!Chosen!LocaleInit
  BY <1>1 DEF Start
<1>4. package = "i18n" /\ [Step]_<<package, vars, Rest1>>
      => (package = "i18n")' /\ [Q!Chosen!LocaleNext]_(Q!Chosen!localeVars)
  BY <1>2, PackageSteps DEF G!localeVars, Q!Chosen!localeVars
<1> QED BY <1>3, <1>4, PTL DEF RunSpec, Q!Chosen!LocaleSpec

LEMMA LocaleKeeps == RunSpec => [](package = "i18n" => G!PageFollowsLocale /\ G!ListIsComplete)
<1>1. Q!LocaleConstants
  BY RequestsAssumption DEF Q!LocaleConstants
<1>2. Q!Chosen!LocaleSpec => [](Q!Chosen!PageFollowsLocale /\ Q!Chosen!ListIsComplete)
  BY <1>1, Q!PageHasLocale, PTL
<1>3. Q!Chosen!PageFollowsLocale /\ Q!Chosen!ListIsComplete =>
      G!PageFollowsLocale /\ G!ListIsComplete
  BY DEF G!Missing, Q!Chosen!Missing, G!dirFor, Q!Chosen!dirFor, G!Page, Q!Chosen!Page, G!HasLocale,
         Q!Chosen!HasLocale, G!PageFollowsLocale, Q!Chosen!PageFollowsLocale, G!ListIsComplete,
         Q!Chosen!ListIsComplete
<1>4. ~(package = "i18n") /\ [Step]_<<package, vars, Rest1>> => ~(package = "i18n")'
  BY PackageSteps
<1> QED BY <1>2, <1>3, <1>4, LocaleRuns, PTL DEF RunSpec

LEMMA CachesRuns == RunSpec /\ package = "service-worker caches" => Q!Strategy!Spec
<1>1. C!Init => Q!Strategy!Init
  BY DEF C!Strategies, Q!Strategy!Strategies, C!Names, Q!Strategy!Names, C!NewRequest,
         Q!Strategy!NewRequest, C!Init, Q!Strategy!Init
<1>2. C!Next => Q!Strategy!Next
  BY DEF C!Names, Q!Strategy!Names, C!CacheName, Q!Strategy!CacheName, C!NewRequest,
         Q!Strategy!NewRequest, C!WorkersStay, Q!Strategy!WorkersStay, C!StoreStays,
         Q!Strategy!StoreStays, C!FetchEvent, Q!Strategy!FetchEvent, C!Opened, Q!Strategy!Opened,
         C!Matched, Q!Strategy!Matched, C!ServerAnswers, Q!Strategy!ServerAnswers, C!ServerEdits,
         Q!Strategy!ServerEdits, C!Given, Q!Strategy!Given, C!Arrives, Q!Strategy!Arrives,
         C!ArrivesNotOk, Q!Strategy!ArrivesNotOk, C!Fallback, Q!Strategy!Fallback, C!NetworkFails,
         Q!Strategy!NetworkFails, C!WithoutBackground, Q!Strategy!WithoutBackground, C!WorkerStops,
         Q!Strategy!WorkerStops, C!Install, Q!Strategy!Install, C!Activates, Q!Strategy!Activates,
         C!KillSwitch, Q!Strategy!KillSwitch, C!keepNames, Q!Strategy!keepNames, C!Cleaned,
         Q!Strategy!Cleaned, C!Next, Q!Strategy!Next
<1>3. package = "service-worker caches" /\ Start => Q!Strategy!Init
  BY <1>1 DEF Start
<1>4. package = "service-worker caches" /\ [Step]_<<package, vars, Rest1>>
      => (package = "service-worker caches")' /\ [Q!Strategy!Next]_(Q!Strategy!vars)
  BY <1>2, PackageSteps DEF C!vars, Q!Strategy!vars
<1> QED BY <1>3, <1>4, PTL DEF RunSpec, Q!Strategy!Spec

LEMMA CachesKeeps ==
  RunSpec => [](package = "service-worker caches" =>
                   C!OfflineMeansNothing /\ C!NetworkComesFirst /\ C!UpdatesKeepCaches)
<1>1. Q!VersionConstants
  BY RequestsAssumption DEF Q!VersionConstants
<1>2. Q!Strategy!Spec => [](Q!Strategy!OfflineMeansNothing /\ Q!Strategy!NetworkComesFirst /\
                           Q!Strategy!UpdatesKeepCaches)
  BY <1>1, Q!PagesGetWhatIsThere, Q!CachesOutliveUpdates, PTL
<1>3. Q!Strategy!OfflineMeansNothing /\ Q!Strategy!NetworkComesFirst /\
      Q!Strategy!UpdatesKeepCaches =>
      C!OfflineMeansNothing /\ C!NetworkComesFirst /\ C!UpdatesKeepCaches
  BY DEF C!Names, Q!Strategy!Names, C!CacheName, Q!Strategy!CacheName, C!OfflineMeansNothing,
         Q!Strategy!OfflineMeansNothing, C!NetworkComesFirst, Q!Strategy!NetworkComesFirst,
         C!UpdatesKeepCaches, Q!Strategy!UpdatesKeepCaches
<1>4. ~(package = "service-worker caches") /\ [Step]_<<package, vars, Rest1>> =>
      ~(package = "service-worker caches")'
  BY PackageSteps
<1> QED BY <1>2, <1>3, <1>4, CachesRuns, PTL DEF RunSpec

LEMMA RouteRuns == RunSpec /\ package = "router, one guard" => Q!Router!Spec
<1>1. N!Init => Q!Router!Init
  BY DEF N!Init, Q!Router!Init
<1>2. N!Next => Q!Router!Next
  BY DEF N!RemoveAt, Q!Router!RemoveAt, N!ToSet, Q!Router!ToSet, N!Here, Q!Router!Here,
         N!HistoryTakes, Q!Router!HistoryTakes, N!SignalBecomes, Q!Router!SignalBecomes, N!Arrive,
         Q!Router!Arrive, N!Asking, Q!Router!Asking, N!Begin, Q!Router!Begin, N!navigate,
         Q!Router!navigate, N!HasNext, Q!Router!HasNext, N!GuardAgrees, Q!Router!GuardAgrees,
         N!GuardBlocks, Q!Router!GuardBlocks, N!GuardRedirects, Q!Router!GuardRedirects,
         N!TransitionBegins, Q!Router!TransitionBegins, N!Traverse, Q!Router!Traverse, N!beforeEach,
         Q!Router!beforeEach, N!removeGuard, Q!Router!removeGuard, N!Transitions,
         Q!Router!Transitions, N!Next, Q!Router!Next
<1>3. package = "router, one guard" /\ Start => Q!Router!Init
  BY <1>1 DEF Start
<1>4. package = "router, one guard" /\ [Step]_<<package, vars, Rest1>>
      => (package = "router, one guard")' /\ [Q!Router!Next]_(Q!Router!vars)
  BY <1>2, PackageSteps DEF N!vars, Q!Router!vars
<1> QED BY <1>3, <1>4, PTL DEF RunSpec, Q!Router!Spec

LEMMA RouteKeeps == RunSpec => [](package = "router, one guard" => N!SignalShowsLocation)
<1>1. Q!Router!Spec => []Q!Router!SignalShowsLocation
  BY Q!RouteFollowsLocation, PTL
<1>2. Q!Router!SignalShowsLocation => N!SignalShowsLocation
  BY DEF N!Here, Q!Router!Here, N!SignalShowsLocation, Q!Router!SignalShowsLocation
<1>3. ~(package = "router, one guard") /\ [Step]_<<package, vars, Rest1>> =>
      ~(package = "router, one guard")'
  BY PackageSteps
<1> QED BY <1>1, <1>2, <1>3, RouteRuns, PTL DEF RunSpec

LEMMA OutletRuns == RunSpec /\ package = "outlet" => Q!Outlet!Spec
<1>1. T!Init => Q!Outlet!Init
  BY DEF T!Shows, Q!Outlet!Shows, T!Init, Q!Outlet!Init
<1>2. T!Next => Q!Outlet!Next
  BY DEF T!Shows, Q!Outlet!Shows, T!RouteChanges, Q!Outlet!RouteChanges, T!Aborted,
         Q!Outlet!Aborted, T!Fetch, Q!Outlet!Fetch, T!Load, Q!Outlet!Load, T!EffectRuns,
         Q!Outlet!EffectRuns, T!Rendered, Q!Outlet!Rendered, T!FetchSucceeds,
         Q!Outlet!FetchSucceeds, T!FetchFails, Q!Outlet!FetchFails, T!prefetchRoute,
         Q!Outlet!prefetchRoute, T!clearRouteCache, Q!Outlet!clearRouteCache, T!GrowsOld,
         Q!Outlet!GrowsOld, T!cleanup, Q!Outlet!cleanup, T!Next, Q!Outlet!Next
<1>3. package = "outlet" /\ Start => Q!Outlet!Init
  BY <1>1 DEF Start
<1>4. package = "outlet" /\ [Step]_<<package, vars, Rest1>>
      => (package = "outlet")' /\ [Q!Outlet!Next]_(Q!Outlet!vars)
  BY <1>2, PackageSteps DEF T!vars, Q!Outlet!vars
<1> QED BY <1>3, <1>4, PTL DEF RunSpec, Q!Outlet!Spec

LEMMA OutletKeeps == RunSpec => [](package = "outlet" => T!MatchIsShown)
<1>1. Q!Outlet!Spec => []Q!Outlet!MatchIsShown
  BY Q!OutletShowsRoute, PTL
<1>2. Q!Outlet!MatchIsShown => T!MatchIsShown
  BY DEF T!Shows, Q!Outlet!Shows, T!Settled, Q!Outlet!Settled, T!MatchIsShown, Q!Outlet!MatchIsShown
<1>3. ~(package = "outlet") /\ [Step]_<<package, vars, Rest1>> => ~(package = "outlet")'
  BY PackageSteps
<1> QED BY <1>1, <1>2, <1>3, OutletRuns, PTL DEF RunSpec

LEMMA LoaderRuns == RunSpec /\ package = "components" => Q!Loader!Spec
<1>1. L!Init => Q!Loader!Init
  BY DEF L!Init, Q!Loader!Init
<1>2. L!Next => Q!Loader!Next
  BY DEF L!Becomes, Q!Loader!Becomes, L!Joins, Q!Loader!Joins, L!processAsyncComponent,
         Q!Loader!processAsyncComponent, L!FetchSucceeds, Q!Loader!FetchSucceeds, L!Fails,
         Q!Loader!Fails, L!FetchFails, Q!Loader!FetchFails, L!dispose, Q!Loader!dispose,
         L!clearComponentCache, Q!Loader!clearComponentCache, L!Expires, Q!Loader!Expires, L!Next,
         Q!Loader!Next
<1>3. package = "components" /\ Start => Q!Loader!Init
  BY <1>1 DEF Start
<1>4. package = "components" /\ [Step]_<<package, vars, Rest1>>
      => (package = "components")' /\ [Q!Loader!Next]_(Q!Loader!vars)
  BY <1>2, PackageSteps DEF L!vars, Q!Loader!vars
<1> QED BY <1>3, <1>4, PTL DEF RunSpec, Q!Loader!Spec

LEMMA LoaderKeeps == RunSpec => [](package = "components" => L!LoadingIsBacked /\ L!OneFetchForAll)
<1>1. MaxFetches \in Nat
  BY RequestsAssumption
<1>2. Q!Loader!Spec => [](Q!Loader!LoadingIsBacked /\ Q!Loader!OneFetchForAll)
  BY <1>1, Q!NobodyWaitsInVain, Q!FetchesAreShared, PTL
<1>3. Q!Loader!LoadingIsBacked /\ Q!Loader!OneFetchForAll => L!LoadingIsBacked /\ L!OneFetchForAll
  BY DEF L!LoadingIsBacked, Q!Loader!LoadingIsBacked, L!OneFetchForAll, Q!Loader!OneFetchForAll
<1>4. ~(package = "components") /\ [Step]_<<package, vars, Rest1>> => ~(package = "components")'
  BY PackageSteps
<1> QED BY <1>2, <1>3, <1>4, LoaderRuns, PTL DEF RunSpec

LEMMA BoundariesRuns == RunSpec /\ package = "zen-suspense" => Q!Fallback!Spec
<1>1. B!Init => Q!Fallback!Init
  BY DEF B!Fresh, Q!Fallback!Fresh, B!updateState, Q!Fallback!updateState, B!startLoading,
         Q!Fallback!startLoading, B!OuterT, Q!Fallback!OuterT, B!Init, Q!Fallback!Init
<1>2. B!Next => Q!Fallback!Next
  BY DEF B!updateState, Q!Fallback!updateState, B!startLoading, Q!Fallback!startLoading,
         B!stopLoading, Q!Fallback!stopLoading, B!reportError, Q!Fallback!reportError,
         B!reportTimeout, Q!Fallback!reportTimeout, B!resetBoundary, Q!Fallback!resetBoundary,
         B!InnerT, Q!Fallback!InnerT, B!OuterT, Q!Fallback!OuterT, B!InnerBecomes,
         Q!Fallback!InnerBecomes, B!OuterBecomes, Q!Fallback!OuterBecomes, B!ChildStarts,
         Q!Fallback!ChildStarts, B!ChildStops, Q!Fallback!ChildStops, B!ChildFails,
         Q!Fallback!ChildFails, B!InnerTimesOut, Q!Fallback!InnerTimesOut, B!InnerResets,
         Q!Fallback!InnerResets, B!SiblingStarts, Q!Fallback!SiblingStarts, B!SiblingStops,
         Q!Fallback!SiblingStops, B!SiblingFails, Q!Fallback!SiblingFails, B!OuterTimesOut,
         Q!Fallback!OuterTimesOut, B!OuterResets, Q!Fallback!OuterResets, B!cleanup,
         Q!Fallback!cleanup, B!Next, Q!Fallback!Next
<1>3. package = "zen-suspense" /\ Start => Q!Fallback!Init
  BY <1>1 DEF Start
<1>4. package = "zen-suspense" /\ [Step]_<<package, vars, Rest1>>
      => (package = "zen-suspense")' /\ [Q!Fallback!Next]_(Q!Fallback!vars)
  BY <1>2, PackageSteps DEF B!vars, Q!Fallback!vars
<1> QED BY <1>3, <1>4, PTL DEF RunSpec, Q!Fallback!Spec

LEMMA BoundariesKeeps ==
  RunSpec => [](package = "zen-suspense" => B!TimeoutIsArmed /\ B!OuterWaitsForInner)
<1>1. Q!SuspenseConstants
  BY RequestsAssumption DEF Q!SuspenseConstants
<1>2. Q!Fallback!Spec => [](Q!Fallback!TimeoutIsArmed /\ Q!Fallback!OuterWaitsForInner)
  BY <1>1, Q!BoundariesNest, PTL
<1>3. Q!Fallback!TimeoutIsArmed /\ Q!Fallback!OuterWaitsForInner =>
      B!TimeoutIsArmed /\ B!OuterWaitsForInner
  BY DEF B!InnerT, Q!Fallback!InnerT, B!OuterT, Q!Fallback!OuterT, B!TimeoutIsArmed,
         Q!Fallback!TimeoutIsArmed, B!OuterWaitsForInner, Q!Fallback!OuterWaitsForInner
<1>4. ~(package = "zen-suspense") /\ [Step]_<<package, vars, Rest1>> => ~(package = "zen-suspense")'
  BY PackageSteps
<1> QED BY <1>2, <1>3, <1>4, BoundariesRuns, PTL DEF RunSpec

LEMMA IndicatorRuns == RunSpec /\ package = "createSuspense" => Q!Fallback!TrackSpec
<1>1. B!TrackInit => Q!Fallback!TrackInit
  BY DEF B!Fresh, Q!Fallback!Fresh, B!TrackInit, Q!Fallback!TrackInit
<1>2. B!TrackNext => Q!Fallback!TrackNext
  BY DEF B!updateState, Q!Fallback!updateState, B!startLoading, Q!Fallback!startLoading,
         B!stopLoading, Q!Fallback!stopLoading, B!reportError, Q!Fallback!reportError,
         B!reportTimeout, Q!Fallback!reportTimeout, B!resetBoundary, Q!Fallback!resetBoundary,
         B!transition, Q!Fallback!transition, B!Context, Q!Fallback!Context, B!track,
         Q!Fallback!track, B!Ready, Q!Fallback!Ready, B!IsStale, Q!Fallback!IsStale, B!Ignore,
         Q!Fallback!Ignore, B!Resolve, Q!Fallback!Resolve, B!Reject, Q!Fallback!Reject,
         B!EffectRuns, Q!Fallback!EffectRuns, B!DelayEnds, Q!Fallback!DelayEnds, B!TimesOut,
         Q!Fallback!TimesOut, B!reset, Q!Fallback!reset, B!dispose, Q!Fallback!dispose, B!TrackNext,
         Q!Fallback!TrackNext
<1>3. package = "createSuspense" /\ Start => Q!Fallback!TrackInit
  BY <1>1 DEF Start
<1>4. package = "createSuspense" /\ [Step]_<<package, vars, Rest1>>
      => (package = "createSuspense")' /\ [Q!Fallback!TrackNext]_(Q!Fallback!trackVars)
  BY <1>2, PackageSteps DEF B!trackVars, Q!Fallback!trackVars
<1> QED BY <1>3, <1>4, PTL DEF RunSpec, Q!Fallback!TrackSpec

LEMMA IndicatorKeeps ==
  RunSpec => [](package = "createSuspense" => B!IndicatorFollows /\ B!ReadyMeansSettled)
<1>1. Q!SignalConstants
  BY RequestsAssumption DEF Q!SignalConstants
<1>2. Q!Fallback!TrackSpec => [](Q!Fallback!IndicatorFollows /\ Q!Fallback!ReadyMeansSettled)
  BY <1>1, Q!IndicatorIsRight, PTL
<1>3. Q!Fallback!IndicatorFollows /\ Q!Fallback!ReadyMeansSettled =>
      B!IndicatorFollows /\ B!ReadyMeansSettled
  BY DEF B!ReadyMeansSettled, Q!Fallback!ReadyMeansSettled, B!IndicatorFollows,
         Q!Fallback!IndicatorFollows
<1>4. ~(package = "createSuspense") /\ [Step]_<<package, vars, Rest1>> =>
      ~(package = "createSuspense")'
  BY PackageSteps
<1> QED BY <1>2, <1>3, <1>4, IndicatorRuns, PTL DEF RunSpec

LEMMA FormRuns == RunSpec /\ package = "form" => Q!Form!Spec
<1>1. F!Init => Q!Form!Init
  BY DEF F!Init, Q!Form!Init
<1>2. F!Next => Q!Form!Next
  BY DEF F!Cardinality, Q!Form!Cardinality, F!formVars, Q!Form!formVars, F!SyncOk, Q!Form!SyncOk, F!FullyOk, Q!Form!FullyOk, F!Check,
         Q!Form!Check, F!AllValid, Q!Form!AllValid, F!Edited, Q!Form!Edited, F!setValue,
         Q!Form!setValue, F!TimerFires, Q!Form!TimerFires, F!FormValid, Q!Form!FormValid,
         F!FieldAnswer, Q!Form!FieldAnswer, F!AnswerThrows, Q!Form!AnswerThrows, F!validate,
         Q!Form!validate, F!validateAsync, Q!Form!validateAsync, F!submit, Q!Form!submit, F!Accepts,
         Q!Form!Accepts, F!FormAnswer, Q!Form!FormAnswer, F!HandlerEnds, Q!Form!HandlerEnds,
         F!addField, Q!Form!addField, F!removeField, Q!Form!removeField, F!reset, Q!Form!reset,
         F!Next, Q!Form!Next
<1>3. package = "form" /\ Start => Q!Form!Init
  BY <1>1 DEF Start
<1>4. package = "form" /\ [Step]_<<package, vars, Rest1>>
      => (package = "form")' /\ [Q!Form!Next]_(Q!Form!vars)
  BY <1>2, PackageSteps DEF F!vars, Q!Form!vars
<1> QED BY <1>3, <1>4, PTL DEF RunSpec, Q!Form!Spec

LEMMA FormKeeps ==
  RunSpec => [](package = "form" => F!HandlerGetsCheckedValues /\ F!ValidMeansAllValid)
<1>1. Q!FormConstants
  BY DEF Q!FormConstants
<1>2. Q!Form!Spec => [](Q!Form!HandlerGetsCheckedValues /\ Q!Form!ValidMeansAllValid)
  BY <1>1, Q!HandlersGetChecked, Q!FormShowsItsFields, PTL
<1>3. Q!Form!HandlerGetsCheckedValues /\ Q!Form!ValidMeansAllValid =>
      F!HandlerGetsCheckedValues /\ F!ValidMeansAllValid
  BY DEF F!AllValid, Q!Form!AllValid, F!HandlerGetsCheckedValues, Q!Form!HandlerGetsCheckedValues,
         F!ValidMeansAllValid, Q!Form!ValidMeansAllValid
<1>4. ~(package = "form") /\ [Step]_<<package, vars, Rest1>> => ~(package = "form")'
  BY PackageSteps
<1> QED BY <1>2, <1>3, <1>4, FormRuns, PTL DEF RunSpec

LEMMA WizardRuns == RunSpec /\ package = "wizard" => Q!Form!WizardSpec
<1>1. F!WizardInit => Q!Form!WizardInit
  BY DEF F!WizardInit, Q!Form!WizardInit
<1>2. F!WizardNext => Q!Form!WizardNext
  BY DEF F!Cardinality, Q!Form!Cardinality, F!fieldVars, Q!Form!fieldVars, F!stepVars, Q!Form!stepVars, F!wizardFormVars,
         Q!Form!wizardFormVars, F!Run, Q!Form!Run, F!Called, Q!Form!Called, F!Starts, Q!Form!Starts,
         F!ValuesChange, Q!Form!ValuesChange, F!setFieldValue, Q!Form!setFieldValue, F!validateAll,
         Q!Form!validateAll, F!next, Q!Form!next, F!Shows, Q!Form!Shows, F!Accepted,
         Q!Form!Accepted, F!WizardFieldAnswer, Q!Form!WizardFieldAnswer, F!FieldThrows,
         Q!Form!FieldThrows, F!WizardFormAnswer, Q!Form!WizardFormAnswer, F!WizardFormThrows,
         Q!Form!WizardFormThrows, F!goToStep,
         Q!Form!goToStep, F!resetWizard, Q!Form!resetWizard, F!Timed, Q!Form!Timed, F!EffectsRun,
         Q!Form!EffectsRun, F!AutoSaves, Q!Form!AutoSaves, F!WizardNext, Q!Form!WizardNext
<1>3. package = "wizard" /\ Start => Q!Form!WizardInit
  BY <1>1 DEF Start
<1>4. package = "wizard" /\ [Step]_<<package, vars, Rest1>>
      => (package = "wizard")' /\ [Q!Form!WizardNext]_(Q!Form!wizardVars)
  BY <1>2, PackageSteps DEF F!wizardVars, Q!Form!wizardVars
<1> QED BY <1>3, <1>4, PTL DEF RunSpec, Q!Form!WizardSpec

LEMMA WizardKeeps ==
  RunSpec => [](package = "wizard" =>
                 /\ F!WizardGetsCheckedValues /\ F!ErrorIsOfValue
                 /\ F!NextIsOffered /\ F!ChangesAreSaved /\ F!FlagsAreBacked)
<1>1. Q!WizardConstants
  BY DEF Q!WizardConstants
<1>2. Q!Form!WizardSpec =>
      [](/\ Q!Form!WizardGetsCheckedValues /\ Q!Form!ErrorIsOfValue
         /\ Q!Form!NextIsOffered /\ Q!Form!ChangesAreSaved /\ Q!Form!FlagsAreBacked)
  BY <1>1, Q!WizardIsConsistent, PTL
<1>3. /\ Q!Form!WizardGetsCheckedValues /\ Q!Form!ErrorIsOfValue
     /\ Q!Form!NextIsOffered /\ Q!Form!ChangesAreSaved /\ Q!Form!FlagsAreBacked
      =>
     /\ F!WizardGetsCheckedValues /\ F!ErrorIsOfValue
     /\ F!NextIsOffered /\ F!ChangesAreSaved /\ F!FlagsAreBacked
  BY DEF F!WizardGetsCheckedValues, Q!Form!WizardGetsCheckedValues, F!ErrorIsOfValue,
         Q!Form!ErrorIsOfValue, F!NextIsOffered, Q!Form!NextIsOffered, F!ChangesAreSaved,
         Q!Form!ChangesAreSaved, F!FlagsAreBacked, Q!Form!FlagsAreBacked
<1>4. ~(package = "wizard") /\ [Step]_<<package, vars, Rest1>> => ~(package = "wizard")'
  BY PackageSteps
<1> QED BY <1>2, <1>3, <1>4, WizardRuns, PTL DEF RunSpec

R == INSTANCE RequestProofs
  WITH Versions <- WorkerVersions, Guards <- ChainGuards, MaxWaiting <- ChainWaiting,
       MaxCommits <- ChainCommits, Fields <- {"a", "b"}, Dynamic <- {"b"}, Values <- {0, 1},
       Initial <- 0, SyncRejects <- {<<"a", 0>>}, AsyncRejects <- {<<"b", 1>>}, Confirms <- {},
       MaxChecks <- 2, Steps <- {1, 2}, Good <- 0, Bad <- 1, MaxRuns <- 2, MaxFormCalls <- 3,
       phase <- v4, attempt <- v1, pending <- v2, aborted <- v3, callerAborted <- v5, cached <- v6,
       res <- v7, url <- v3, scheduled <- v4, fetchId <- v5, evaluated <- v6, fetches <- v2,
       shown <- v7, disposed <- v1, mutations <- v1, callbacks <- v2, mutation <- v4, pages <- v5,
       next <- v6, queries <- v7, querying <- v8, overlapped <- v9, calls <- v3, client <- v2,
       stored <- v1, registered <- v3, sync <- v4, retryCount <- v5, cycles <- v6, accepted <- v7,
       cutOff <- v8, data <- v2, override <- v4, overrides <- v5, refreshes <- v6, made <- v3,
       timer <- v7, unordered <- v8, locale <- v4, lastDir <- v5, page <- v6, messages <- v7,
       available <- v8, loads <- v9, cleanups <- v10, i18nDisposed <- v11, crossed <- v2,
       strategy <- v2, named <- v3, active <- v4, waiting <- v1, cleaning <- v5, store <- v6,
       server <- v7, req <- v8, kept <- v9, guards <- v3, entries <- v4, at <- v5, route <- v6,
       commits <- v7, path <- v4, params <- v5, queued <- v3, loadId <- v6, cache <- v7,
       prefetched <- v8, content <- v9, cleaned <- v1, element <- v4, template <- v5, failure <- v6,
       inflight <- v7, cleared <- v8, inner <- v2, outer <- v3, released <- v4, ctx <- v2,
       tracked <- v5, generation <- v6, loading <- v7, delaying <- v8, error <- v9, ready <- v10,
       present <- v1, value <- v2, verdict <- v3, flag <- v4, valid <- v5, submitting <- v6,
       timers <- v7, checks <- v8, mixed <- v9, handed <- v10, stepValue <- v1, refusals <- v2,
       outdated <- v3, runs <- v4, validating <- v5, currentStep <- v6, unseen <- v7,
       canGoNext <- v8, autoSave <- v9, saved <- v10, formCalls <- v11, refusedOnce <- v12

LEMMA ChainRuns == RunSpec /\ package = "router, two guards" => R!Router!Spec
<1>1. V!Init => R!Router!Init
  BY DEF V!Init, R!Router!Init
<1>2. V!Next => R!Router!Next
  BY DEF V!RemoveAt, R!Router!RemoveAt, V!ToSet, R!Router!ToSet, V!Here, R!Router!Here,
         V!HistoryTakes, R!Router!HistoryTakes, V!SignalBecomes, R!Router!SignalBecomes, V!Arrive,
         R!Router!Arrive, V!Asking, R!Router!Asking, V!Begin, R!Router!Begin, V!navigate,
         R!Router!navigate, V!HasNext, R!Router!HasNext, V!GuardAgrees, R!Router!GuardAgrees,
         V!GuardBlocks, R!Router!GuardBlocks, V!GuardRedirects, R!Router!GuardRedirects,
         V!TransitionBegins, R!Router!TransitionBegins, V!Traverse, R!Router!Traverse, V!beforeEach,
         R!Router!beforeEach, V!removeGuard, R!Router!removeGuard, V!Transitions,
         R!Router!Transitions, V!Next, R!Router!Next
<1>3. package = "router, two guards" /\ Start => R!Router!Init
  BY <1>1 DEF Start
<1>4. package = "router, two guards" /\ [Step]_<<package, vars, Rest1>>
      => (package = "router, two guards")' /\ [R!Router!Next]_(R!Router!vars)
  BY <1>2, PackageSteps DEF V!vars, R!Router!vars
<1> QED BY <1>3, <1>4, PTL DEF RunSpec, R!Router!Spec

LEMMA ChainKeeps == RunSpec => [](package = "router, two guards" => V!SignalShowsLocation)
<1>1. R!Router!Spec => []R!Router!SignalShowsLocation
  BY R!RouteFollowsLocation, PTL
<1>2. R!Router!SignalShowsLocation => V!SignalShowsLocation
  BY DEF V!Here, R!Router!Here, V!SignalShowsLocation, R!Router!SignalShowsLocation
<1>3. ~(package = "router, two guards") /\ [Step]_<<package, vars, Rest1>> =>
      ~(package = "router, two guards")'
  BY PackageSteps
<1> QED BY <1>1, <1>2, <1>3, ChainRuns, PTL DEF RunSpec

\* What is said to come is coming: a loading flag of http.resource, zen-fetch, a mutation or an
\* infinite query and of the functional sign-in belongs to a call that will clear it; the registry
\* of pending requests names attempts under way; tokens and flags are fetched again.
THEOREM PendingAlwaysBacked == RunSpec => []PendingIsBacked
BY HttpKeeps, FetcherKeeps, CallsKeeps, ClientKeeps, FlagsKeeps, FunctionalKeeps,
   PTL DEF PendingIsBacked

\* What is shown is what there is: no answer, navigation, traversal or override that came late
\* remains in the fetcher, the query, the session, the flags, the locale, the route or the outlet,
\* and a page gets from the worker's caches what its strategy prefers.
THEOREM ShownAlwaysCurrent == RunSpec => []ShownIsCurrent
<1> DEFINE Routed == package \in {"router, one guard", "router, two guards"}
<1>1. Routed <=> package = "router, one guard" \/ package = "router, two guards"
  OBVIOUS
<1>2. V!SignalShowsLocation => N!SignalShowsLocation
  BY DEF V!SignalShowsLocation, N!SignalShowsLocation, V!Here, N!Here
<1>3. RunSpec => [](Routed => N!SignalShowsLocation)
  <2> HIDE DEF Routed
  <2> QED BY <1>1, <1>2, RouteKeeps, ChainKeeps, PTL
<1> QED BY <1>3, FetcherKeeps, CallsKeeps, ClientKeeps, FlagsKeeps, FunctionalKeeps, LocaleKeeps,
           CachesKeeps, OutletKeeps, PTL DEF ShownIsCurrent

\* The sync queue sends a mutation again only when the worker or IndexedDB failed in between, and
\* keeps it until the server has accepted it; the state of a login is exchanged once.
THEOREM SentOnlyOnce == RunSpec => []SentOnce
BY QueueKeeps, ClientKeeps, PTL DEF SentOnce

\* A boundary shows fallback or content as what it waits for demands, through nesting, timeouts
\* and resets, and every element that waits for a template waits for a fetch that all of them share.
THEOREM WaitingAlwaysFollows == RunSpec => []WaitingFollows
BY BoundariesKeeps, IndicatorKeeps, LoaderKeeps, PTL DEF WaitingFollows

\* A form gives its handler what all rules accepted and shows the verdict of its fields; a form of
\* steps shows the errors of its values, offers the next step accordingly, saves the last edit and
\* clears its flag, whatever answers come late, fields come and go or calls overlap.
THEOREM FormsStayConsistent == RunSpec => []FormIsConsistent
BY FormKeeps, WizardKeeps, PTL DEF FormIsConsistent

\* Who shares state sees the same: tabs their storage, readers and subscribers a store, and the
\* requests of a server nothing of one another, whatever events are late, notifications are within
\* one another, writes are refused, renders overlap, time out or are given up.
THEOREM StateAlwaysAgrees == RunSpec => []StateAgrees
BY TabsKeeps, WatchedKeeps, ToldKeeps, RenderedKeeps, PTL DEF StateAgrees

\* No navigation of the router moves unless every guard registered then has agreed to it.
THEOREM GuardsAlwaysAsked == RunSpec => GuardsAreAsked
<1> DEFINE Routers == {"router, one guard", "router, two guards"}
           Asked == package \in Routers => N!AgreedMove
<1>1. [Q!Router!AgreedMove]_(Q!Router!vars) => [Asked]_<<v1, v2, v3, v4, v5, v6, v7>>
  BY DEF Q!Router!AgreedMove, N!AgreedMove, Q!Router!RemoveAt, N!RemoveAt, Q!Router!ToSet,
         N!ToSet, Q!Router!vars
<1>2. [R!Router!AgreedMove]_(R!Router!vars) => [Asked]_<<v1, v2, v3, v4, v5, v6, v7>>
  BY DEF R!Router!AgreedMove, N!AgreedMove, R!Router!RemoveAt, N!RemoveAt, R!Router!ToSet,
         N!ToSet, R!Router!vars
<1>3. package \notin Routers => [Asked]_<<v1, v2, v3, v4, v5, v6, v7>>
  OBVIOUS
<1>4. package \notin Routers /\ [Step]_<<package, vars, Rest1>> => (package \notin Routers)'
  BY PackageSteps
<1>5. package = "router, one guard" \/ package = "router, two guards" \/ package \notin Routers
  OBVIOUS
<1> HIDE DEF Asked, Routers
<1>6. RunSpec => [][Asked]_<<v1, v2, v3, v4, v5, v6, v7>>
  BY <1>1, <1>2, <1>3, <1>4, <1>5, RouteRuns, ChainRuns, Q!GuardsAreNotPassed,
     R!GuardsAreNotPassed, PTL
     DEF RunSpec, Q!Router!EveryGuardAgreed, R!Router!EveryGuardAgreed
<1> QED BY <1>6 DEF GuardsAreAsked, Asked, Routers
==============================================================================
