--------------------------- MODULE ResourceProofs ---------------------------
(***************************************************************************)
(* Proofs about Resource: the inductive invariant and, from it, the safety *)
(* properties, for any number of calls and retries.                        *)
(***************************************************************************)
EXTENDS Resource, SequenceTheorems, FiniteSetTheorems, TLAPS

\* A call that waits has no result yet, and only a call that joined waits for
\* the result of another.
CallsAreCoherent ==
  \A c \in Made :
    /\ calls[c].of \in Made
    /\ calls[c].state \in {"fetching", "sleeping", "aborting", "joined"} => calls[c].result = "none"
    /\ calls[c].state \in {"answered", "delivered"} => calls[c].result # "none"
    /\ calls[c].state \notin {"joined", "done"} => calls[c].of = c
    /\ calls[c].keep = "queue" => "update" \in Ops
    /\ calls[c].state = "sleeping" => calls[c].attempt < MaxRetries

\* The stored promise belongs to a request under way for the same key.
DedupeIsOwn ==
  \A k \in Keys : dedupe[k] # 0 =>
    dedupe[k] \in Made /\ dedupe[k] \in UnderWay /\ calls[dedupe[k]].key = k

\* Data and snapshots hold only changes that had been made by then.
PatchesAreOld ==
  /\ data.patches \subseteq Made
  /\ \A v \in Calls : /\ snapshots[v].patches \subseteq 1..(v - 1)
                      /\ snapshots[v].kind = "undefined" <=> snapshots[v] = Undefined

\* An optimistic call whose snapshot is gone was finished, or was rolled back
\* together with an older one: unless it succeeded, its change is nowhere.
RolledBackIsGone ==
  \A c \in Made : calls[c].keep = "optimistic" =>
    /\ calls[c].state = "done" => snapshots[c] = Undefined
    /\ snapshots[c] = Undefined /\ ~Succeeded(c) =>
         c \notin data.patches /\ \A v \in Calls : c \notin snapshots[v].patches

InQueue == {c \in Made : calls[c].keep = "queue" /\ calls[c].state # "done"}

OneAtATime ==
  /\ IF processing THEN \E c \in Made : InQueue = {c} ELSE InQueue = {}
  /\ queue > 0 => processing

IInv ==
  /\ TypeOK
  /\ CallsAreCoherent
  /\ DedupeIsOwn
  /\ LoadingIsBacked
  /\ PatchesAreOld
  /\ RolledBackIsGone
  /\ OneAtATime
-----------------------------------------------------------------------------
(* How the calls change. *)

\* What is the same in every version of a call.
SameCall(r, s) == s.key = r.key /\ s.keep = r.keep /\ s.of = r.of

\* s is r after an abort of who.
Stopped(r, s, who) ==
  /\ SameCall(r, s) /\ s.attempt = r.attempt /\ s.listens = r.listens /\ s.result = r.result
  /\ s.state = IF r.state = "fetching" /\ who \in r.listens THEN "aborting" ELSE r.state

LEMMA MadeFacts ==
  ASSUME TypeOK
  PROVE  /\ Len(calls) \in Nat /\ Made = 1..Len(calls) /\ Made \subseteq Calls
         /\ \A c \in Made : calls[c] \in Call
<1>1. calls \in Seq(Call) /\ queue \in Nat /\ MaxCalls \in Nat /\ Len(calls) + queue <= MaxCalls
  BY ResourceAssumption DEF TypeOK, ResourceAssumption
<1>2. Len(calls) \in Nat /\ Made = 1..Len(calls) /\ calls \in [1..Len(calls) -> Call]
  BY <1>1, LenProperties DEF Made
<1> QED BY <1>1, <1>2 DEF Calls

LEMMA OneCall ==
  ASSUME TypeOK, NEW c \in Made, NEW r \in Call, calls' = [calls EXCEPT ![c] = r]
  PROVE  /\ calls' \in Seq(Call) /\ Len(calls') = Len(calls) /\ Made' = Made
         /\ calls'[c] = r /\ \A d \in Made : d # c => calls'[d] = calls[d]
<1>1. calls \in Seq(Call) /\ c \in 1..Len(calls)
  BY MadeFacts DEF TypeOK
<1>2. /\ calls' \in Seq(Call) /\ Len(calls') = Len(calls)
      /\ \A j \in 1..Len(calls) : calls'[j] = IF j = c THEN r ELSE calls[j]
  BY <1>1, ExceptSeq
<1>3. Made' = 1..Len(calls') /\ Made = 1..Len(calls)
  BY <1>1, <1>2, LenProperties DEF Made
<1> QED BY <1>1, <1>2, <1>3

LEMMA CallFields ==
  ASSUME NEW r \in Call
  PROVE  /\ r = [key |-> r.key, keep |-> r.keep, state |-> r.state, of |-> r.of,
                 attempt |-> r.attempt, listens |-> r.listens, result |-> r.result]
         /\ r.key \in Keys /\ r.of \in Calls /\ r.attempt \in 0..MaxRetries
         /\ r.keep \in {"nobody", "optimistic", "queue"}
         /\ r.state \in {"fetching", "sleeping", "aborting", "answered", "delivered", "joined", "done"}
         /\ r.listens \subseteq {"request", "life"} /\ r.result \in {"none", "ok", "empty", "failed"}
BY DEF Call

LEMMA AbortFacts ==
  ASSUME NEW cs \in Seq(Call), NEW who
  PROVE  /\ abort(cs, who) \in Seq(Call) /\ Len(abort(cs, who)) = Len(cs)
         /\ \A c \in 1..Len(cs) : Stopped(cs[c], abort(cs, who)[c], who)
<1> DEFINE a == abort(cs, who)
           next(c) == IF cs[c].state = "fetching" /\ who \in cs[c].listens
                      THEN [cs[c] EXCEPT !.state = "aborting"] ELSE cs[c]
<1>1. Len(cs) \in Nat /\ DOMAIN cs = 1..Len(cs) /\ \A c \in 1..Len(cs) : cs[c] \in Call
  BY LenProperties
<1>2. ASSUME NEW c \in 1..Len(cs) PROVE next(c) \in Call /\ Stopped(cs[c], next(c), who)
  <2>1. cs[c] \in Call
    BY <1>1
  <2> QED BY <2>1 DEF Call, Stopped, SameCall
<1>3. a = [c \in 1..Len(cs) |-> next(c)]
  BY <1>1 DEF abort
<1>4. a \in [1..Len(cs) -> Call]
  BY <1>2, <1>3
<1>5. a \in Seq(Call) /\ Len(a) = Len(cs)
  <2> HIDE DEF a
  <2> QED BY <1>1, <1>4
<1> QED BY <1>2, <1>3, <1>5

\* Only call c changes, and it stays the same call.
Changes(c) ==
  /\ calls' \in Seq(Call) /\ Len(calls') = Len(calls) /\ Made' = Made
  /\ SameCall(calls[c], calls'[c])
  /\ \A d \in Made : d # c => calls'[d] = calls[d]

LEMMA SettleFacts ==
  ASSUME TypeOK, NEW c \in Made, NEW result \in {"ok", "empty", "failed"}, Settle(c, result)
  PROVE  /\ Changes(c) /\ calls'[c].state = "answered" /\ calls'[c].result = result
         /\ calls'[c].attempt = calls[c].attempt /\ calls'[c].listens = calls[c].listens
<1> DEFINE r == [calls[c] EXCEPT !.state = "answered", !.result = result]
<1>1. calls[c] \in Call /\ c \in DOMAIN calls
  BY MadeFacts DEF Made
<1>2. r \in Call
  BY <1>1 DEF Call
<1>3. calls' = [calls EXCEPT ![c] = r]
  BY <1>1 DEF Settle
<1>4. /\ SameCall(calls[c], r) /\ r.state = "answered" /\ r.result = result
      /\ r.attempt = calls[c].attempt /\ r.listens = calls[c].listens
  BY <1>1 DEF Call, SameCall
<1> HIDE DEF r
<1> QED BY <1>2, <1>3, <1>4, OneCall DEF Changes

LEMMA SleepFacts ==
  ASSUME TypeOK, NEW c \in Made, calls' = [calls EXCEPT ![c].state = "sleeping"]
  PROVE  /\ Changes(c) /\ calls'[c].state = "sleeping" /\ calls'[c].result = calls[c].result
         /\ calls'[c].attempt = calls[c].attempt /\ calls'[c].listens = calls[c].listens
<1> DEFINE r == [calls[c] EXCEPT !.state = "sleeping"]
<1>1. calls[c] \in Call /\ c \in DOMAIN calls
  BY MadeFacts DEF Made
<1>2. r \in Call
  BY <1>1 DEF Call
<1>3. calls' = [calls EXCEPT ![c] = r]
  OBVIOUS
<1>4. /\ SameCall(calls[c], r) /\ r.state = "sleeping" /\ r.result = calls[c].result
      /\ r.attempt = calls[c].attempt /\ r.listens = calls[c].listens
  BY <1>1 DEF Call, SameCall
<1> HIDE DEF r
<1> QED BY <1>2, <1>3, <1>4, OneCall DEF Changes

LEMMA OverFacts ==
  ASSUME TypeOK, NEW c \in Made, NEW result \in {"none", "ok", "empty", "failed"},
         calls' = [calls EXCEPT ![c] = Over(c, result)]
  PROVE  /\ Changes(c) /\ calls'[c].state = "done" /\ calls'[c].result = result
         /\ calls'[c].attempt = 0 /\ calls'[c].listens = {}
<1>1. calls[c] \in Call
  BY MadeFacts
<1>2. Over(c, result) \in Call
  <2>1. 0 \in 0..MaxRetries /\ {} \subseteq {"request", "life"}
    BY ResourceAssumption DEF ResourceAssumption
  <2> QED BY <1>1, <2>1 DEF Call, Over
<1>3. LET r == Over(c, result) IN
      /\ SameCall(calls[c], r) /\ r.state = "done" /\ r.result = result
      /\ r.attempt = 0 /\ r.listens = {}
  BY <1>1 DEF Call, SameCall, Over
<1> QED BY <1>2, <1>3, OneCall DEF Changes

LEMMA DeliveredFacts ==
  ASSUME TypeOK, NEW c \in Made, calls' = [calls EXCEPT ![c] = [@ EXCEPT !.state = "delivered"]]
  PROVE  /\ Changes(c) /\ calls'[c].state = "delivered" /\ calls'[c].result = calls[c].result
         /\ calls'[c].attempt = calls[c].attempt /\ calls'[c].listens = calls[c].listens
<1> DEFINE r == [calls[c] EXCEPT !.state = "delivered"]
<1>1. calls[c] \in Call /\ c \in DOMAIN calls
  BY MadeFacts DEF Made
<1>2. r \in Call
  BY <1>1 DEF Call
<1>3. calls' = [calls EXCEPT ![c] = r]
  OBVIOUS
<1>4. /\ SameCall(calls[c], r) /\ r.state = "delivered" /\ r.result = calls[c].result
      /\ r.attempt = calls[c].attempt /\ r.listens = calls[c].listens
  BY <1>1 DEF Call, SameCall
<1> HIDE DEF r
<1> QED BY <1>2, <1>3, <1>4, OneCall DEF Changes

LEMMA RetryFacts ==
  ASSUME TypeOK, NEW c, Retry(c), calls[c].attempt < MaxRetries
  PROVE  /\ c \in Made /\ Changes(c) /\ calls'[c].state \in {"fetching", "aborting"}
         /\ calls'[c].result = calls[c].result
         /\ calls'[c].attempt > 0
<1>1. c \in Made
  BY DEF Retry, In
<1> DEFINE r == [calls[c] EXCEPT !.state = IF destroyed THEN "aborting" ELSE "fetching",
                                 !.listens = {"life"} \cup (IF controller THEN {"request"} ELSE {}),
                                 !.attempt = @ + 1]
<1>2. calls[c] \in Call /\ c \in DOMAIN calls
  BY <1>1, MadeFacts DEF Made
<1>3. r \in Call
  <2>1. calls[c].attempt + 1 \in 0..MaxRetries
    BY <1>2, ResourceAssumption DEF Call, ResourceAssumption
  <2>2. {"life"} \cup (IF controller THEN {"request"} ELSE {}) \in SUBSET {"request", "life"}
    OBVIOUS
  <2> QED BY <1>2, <2>1, <2>2 DEF Call
<1>4. calls' = [calls EXCEPT ![c] = r]
  BY <1>2 DEF Retry
<1>5. /\ SameCall(calls[c], r) /\ r.state \in {"fetching", "aborting"} /\ r.result = calls[c].result
      /\ r.attempt > 0
  BY <1>2, ResourceAssumption DEF Call, SameCall, ResourceAssumption
<1> HIDE DEF r
<1> QED BY <1>1, <1>3, <1>4, <1>5, OneCall DEF Changes

\* What request(cs, key, force, keep) does to the calls: those of cs are stopped,
\* and the new one, if there is one, joins or fetches.
Asked(cs, key, force, keep) ==
  /\ calls' \in Seq(Call)
  /\ \A c \in Made : c \in Made' /\ Stopped(cs[c], calls'[c], "request")
  /\ \/ /\ Len(calls') = Len(calls) /\ Made' = Made
        /\ ~force /\ key = List /\ UNCHANGED <<dedupe, loading>>
     \/ LET n == Len(calls) + 1 IN
        /\ Len(calls') = n /\ Made' = Made \cup {n} /\ n \in Calls
        /\ calls'[n].key = key /\ calls'[n].keep = keep
        /\ calls'[n].attempt = 0 /\ calls'[n].result = "none"
        /\ \/ /\ calls'[n].state = "joined" /\ calls'[n].listens = {}
              /\ dedupe[key] # 0 /\ calls'[n].of = dedupe[key]
              /\ UNCHANGED <<dedupe, loading>>
           \/ /\ calls'[n].state = "fetching" /\ calls'[n].listens = {"request", "life"}
              /\ calls'[n].of = n
              /\ dedupe' = [dedupe EXCEPT ![key] = n]
              /\ loading' = (loading \/ (key = List /\ data.kind = "none"))

LEMMA Appended ==
  ASSUME NEW cs \in Seq(Call), NEW r \in Call, NEW n, n = Len(cs) + 1
  PROVE  /\ Append(cs, r) \in Seq(Call) /\ Len(Append(cs, r)) = n
         /\ DOMAIN Append(cs, r) = 1..n /\ Append(cs, r)[n] = r
         /\ \A c \in 1..Len(cs) : Append(cs, r)[c] = cs[c]
<1>1. Append(cs, r) \in Seq(Call) /\ Len(Append(cs, r)) = n /\ Len(cs) \in Nat
  BY LenProperties
<1> QED BY <1>1, LenProperties

LEMMA RequestFacts ==
  ASSUME TypeOK, DedupeIsOwn, NEW cs \in Seq(Call), Len(cs) = Len(calls), Len(calls) < MaxCalls,
         NEW key \in Keys, NEW force, NEW keep \in {"nobody", "optimistic", "queue"},
         request(cs, key, force, keep)
  PROVE  Asked(cs, key, force, keep)
<1> DEFINE n == Len(calls) + 1
           stopped == abort(cs, "request")
           new == NewCall(key, keep)
           joined == [new EXCEPT !.state = "joined", !.of = dedupe[key], !.listens = {}]
<1>1. Len(calls) \in Nat /\ Made = 1..Len(calls) /\ Made \subseteq Calls /\ n \in Calls
  BY MadeFacts, ResourceAssumption DEF Calls, ResourceAssumption
<1>2. /\ stopped \in Seq(Call) /\ Len(stopped) = Len(calls)
      /\ \A c \in Made : Stopped(cs[c], stopped[c], "request")
  BY <1>1, AbortFacts
<1>3. /\ new \in Call /\ new.key = key /\ new.keep = keep /\ new.attempt = 0 /\ new.result = "none"
      /\ new.state = "fetching" /\ new.listens = {"request", "life"} /\ new.of = n
  <2>1. 0 \in 0..MaxRetries
    BY ResourceAssumption DEF ResourceAssumption
  <2> QED BY <1>1, <2>1 DEF NewCall, Call
<1>4. dedupe[key] # 0 =>
        /\ joined \in Call /\ joined.key = key /\ joined.keep = keep /\ joined.attempt = 0
        /\ joined.result = "none" /\ joined.state = "joined" /\ joined.listens = {}
        /\ joined.of = dedupe[key]
  <2>1. dedupe[key] # 0 => dedupe[key] \in Calls
    BY <1>1 DEF DedupeIsOwn
  <2> HIDE DEF new
  <2> QED BY <1>3, <2>1 DEF Call
<1>5. \A r \in Call : calls' = Append(stopped, r) =>
        /\ calls' \in Seq(Call) /\ Len(calls') = n /\ Made' = Made \cup {n} /\ calls'[n] = r
        /\ \A c \in Made : c \in Made' /\ Stopped(cs[c], calls'[c], "request")
  <2> SUFFICES ASSUME NEW r \in Call, calls' = Append(stopped, r)
               PROVE  /\ calls' \in Seq(Call) /\ Len(calls') = n /\ Made' = Made \cup {n} /\ calls'[n] = r
                      /\ \A c \in Made : c \in Made' /\ Stopped(cs[c], calls'[c], "request")
    OBVIOUS
  <2>1. /\ calls' \in Seq(Call) /\ Len(calls') = n /\ DOMAIN calls' = 1..n /\ calls'[n] = r
        /\ \A c \in Made : calls'[c] = stopped[c]
    <3> HIDE DEF stopped
    <3> QED BY <1>1, <1>2, Appended
  <2>2. Made' = 1..n
    BY <2>1 DEF Made
  <2> HIDE DEF stopped
  <2> QED BY <1>1, <1>2, <2>1, <2>2
<1>6. CASE calls' = stopped /\ ~force /\ key = List /\ UNCHANGED <<dedupe, loading>>
  <2>1. Made' = 1..Len(calls')
    BY <1>2, <1>6, LenProperties DEF Made
  <2> HIDE DEF stopped, new
  <2> QED BY <1>1, <1>2, <1>6, <2>1 DEF Asked
<1>7. CASE dedupe[key] # 0 /\ calls' = Append(stopped, joined) /\ UNCHANGED <<dedupe, loading>>
  <2> HIDE DEF stopped, joined
  <2> QED BY <1>1, <1>4, <1>5, <1>7 DEF Asked
<1>8. CASE /\ calls' = Append(stopped, new) /\ dedupe' = [dedupe EXCEPT ![key] = new.of]
           /\ loading' = (loading \/ (key = List /\ data.kind = "none"))
  <2> HIDE DEF stopped, new
  <2> QED BY <1>1, <1>3, <1>5, <1>8 DEF Asked
<1> QED BY <1>6, <1>7, <1>8 DEF request
-----------------------------------------------------------------------------
(* What a change of one call keeps. *)

OnItsWay == {"fetching", "sleeping", "aborting", "answered"}

LEMMA UnderWayIs ==
  /\ UnderWay = {c \in Made : calls[c].state \in OnItsWay}
  /\ UnderWay' = {c \in Made' : calls'[c].state \in OnItsWay}
BY DEF UnderWay, In, OnItsWay, Made

\* The conditions of CallsAreCoherent on one call.
Coherent(r) ==
  /\ r.state \in {"fetching", "sleeping", "aborting", "joined"} => r.result = "none"
  /\ r.state \in {"answered", "delivered"} => r.result # "none"
  /\ r.state = "sleeping" => r.attempt < MaxRetries

LEMMA ChangesCoherent ==
  ASSUME CallsAreCoherent, NEW c \in Made, Changes(c), Coherent(calls'[c]),
         calls[c].state \notin {"joined", "done"} \/ calls'[c].state = "done"
  PROVE  CallsAreCoherent'
BY DEF CallsAreCoherent, Changes, Coherent, SameCall

\* The request goes on and its promise stays where it is.
LEMMA ChangesUnderWay ==
  ASSUME DedupeIsOwn, LoadingIsBacked, NEW c \in Made, Changes(c),
         calls[c].state \in OnItsWay, calls'[c].state \in OnItsWay, UNCHANGED <<dedupe, loading>>
  PROVE  DedupeIsOwn' /\ LoadingIsBacked'
<1>1. DedupeIsOwn'
  BY UnderWayIs DEF DedupeIsOwn, Changes, SameCall
<1>2. LoadingIsBacked'
  BY UnderWayIs DEF LoadingIsBacked, Changes, SameCall, IsGet
<1> QED BY <1>1, <1>2

\* A call that nobody can join ends, and its result stays.
LEMMA ChangesElsewhere ==
  ASSUME DedupeIsOwn, LoadingIsBacked, CallsAreCoherent, NEW c \in Made, Changes(c),
         calls[c].state \in {"joined", "delivered"},
         calls'[c].result = ResultFor(c), UNCHANGED <<dedupe, loading>>
  PROVE  DedupeIsOwn' /\ LoadingIsBacked'
<1>1. c \notin UnderWay
  BY UnderWayIs DEF OnItsWay
<1>2. DedupeIsOwn'
  BY <1>1, UnderWayIs DEF DedupeIsOwn, Changes, SameCall
<1>3. calls[c].result = "empty" => calls'[c].result = "empty"
  BY DEF CallsAreCoherent, ResultFor
<1>4. LoadingIsBacked'
  BY <1>1, <1>3, UnderWayIs DEF LoadingIsBacked, Changes, SameCall, IsGet
<1> QED BY <1>2, <1>4

LEMMA ChangesQueue ==
  ASSUME OneAtATime, NEW c \in Made, Changes(c), UNCHANGED mutations,
         calls[c].keep # "queue" \/ (calls[c].state # "done" /\ calls'[c].state # "done")
  PROVE  OneAtATime'
<1>1. InQueue' = InQueue
  BY DEF InQueue, Changes, SameCall
<1> QED BY <1>1 DEF OneAtATime, mutations, Changes

\* The changes shown and kept are the same, and the call did not fail just now.
LEMMA ChangesPatches ==
  ASSUME PatchesAreOld, RolledBackIsGone, NEW c \in Made, Changes(c), UNCHANGED <<data, snapshots>>,
         Succeeded(c) => calls'[c].result = calls[c].result,
         calls[c].keep = "optimistic" /\ calls'[c].state = "done" => snapshots[c] = Undefined
  PROVE  PatchesAreOld' /\ RolledBackIsGone'
<1>1. PatchesAreOld'
  BY DEF PatchesAreOld, Changes
<1>2. \A d \in Made : Succeeded(d) => Succeeded(d)'
  BY DEF Changes, Succeeded
<1>3. RolledBackIsGone'
  BY <1>2 DEF RolledBackIsGone, Changes, SameCall
<1> QED BY <1>1, <1>3
-----------------------------------------------------------------------------
(* What a request keeps. *)

\* The calls a request is made from: as they are, or with the queued mutation
\* that has just been finished.
Carried(cs, c) ==
  \/ cs[c] = calls[c]
  \/ /\ calls[c].state \in {"delivered", "joined"} /\ calls[c].keep = "queue"
     /\ SameCall(calls[c], cs[c])
     /\ cs[c].state = "done" /\ cs[c].attempt = 0 /\ cs[c].listens = {} /\ cs[c].result = ResultFor(c)

LEMMA CarriedFacts ==
  ASSUME CallsAreCoherent, NEW cs, NEW c \in Made, Carried(cs, c),
         Stopped(cs[c], calls'[c], "request")
  PROVE  /\ SameCall(calls[c], calls'[c]) /\ Coherent(calls'[c])
         /\ calls[c].state \in OnItsWay => calls'[c].state \in OnItsWay
         /\ calls'[c].result # calls[c].result => calls[c].result = "none" /\ calls[c].keep = "queue"
         /\ calls[c].keep # "queue" => (calls'[c].state = "done" <=> calls[c].state = "done")
         /\ calls'[c].state \notin {"joined", "done"} => calls[c].state \notin {"joined", "done"}
<1>1. CASE cs[c] = calls[c]
  BY <1>1 DEF Stopped, CallsAreCoherent, SameCall, OnItsWay, Coherent
<1>2. CASE cs[c] # calls[c]
  <2>1. /\ calls[c].state \in {"delivered", "joined"} /\ calls[c].keep = "queue"
        /\ SameCall(calls[c], cs[c]) /\ cs[c].state = "done" /\ cs[c].result = ResultFor(c)
    BY <1>2 DEF Carried
  <2>2. calls[c].state = "delivered" => cs[c].result = calls[c].result
    BY <2>1 DEF CallsAreCoherent, ResultFor
  <2> QED BY <2>1, <2>2 DEF Stopped, SameCall, OnItsWay, Coherent, CallsAreCoherent
<1> QED BY <1>1, <1>2

LEMMA AskedCoherent ==
  ASSUME CallsAreCoherent, DedupeIsOwn, NEW cs, \A c \in Made : Carried(cs, c),
         NEW key \in Keys, NEW force, NEW keep, Asked(cs, key, force, keep),
         keep = "queue" => "update" \in Ops
  PROVE  CallsAreCoherent'
<1>1. ASSUME NEW c \in Made
      PROVE  /\ calls'[c].of \in Made' /\ Coherent(calls'[c])
             /\ calls'[c].state \notin {"joined", "done"} => calls'[c].of = c
             /\ calls'[c].keep = "queue" => "update" \in Ops
  BY <1>1, CarriedFacts DEF Asked, CallsAreCoherent, SameCall
<1>2. ASSUME NEW n \in Made', n \notin Made
      PROVE  /\ calls'[n].of \in Made' /\ Coherent(calls'[n])
             /\ calls'[n].state \notin {"joined", "done"} => calls'[n].of = n
             /\ calls'[n].keep = "queue" => "update" \in Ops
  BY <1>2 DEF Asked, DedupeIsOwn, Coherent
<1> QED BY <1>1, <1>2 DEF CallsAreCoherent, Coherent

LEMMA AskedUnderWay ==
  ASSUME TypeOK, CallsAreCoherent, DedupeIsOwn, LoadingIsBacked, NEW cs, \A c \in Made : Carried(cs, c),
         NEW key \in Keys, NEW force, NEW keep, Asked(cs, key, force, keep)
  PROVE  DedupeIsOwn' /\ LoadingIsBacked'
<1>1. \A c \in Made : /\ c \in Made' /\ SameCall(calls[c], calls'[c])
                      /\ calls[c].state \in OnItsWay => calls'[c].state \in OnItsWay
                      /\ calls[c].result = "empty" => calls'[c].result = "empty"
  BY CarriedFacts DEF Asked
<1>2. ASSUME NEW k \in Keys, dedupe'[k] # 0, dedupe'[k] = dedupe[k]
      PROVE  dedupe'[k] \in Made' /\ dedupe'[k] \in UnderWay' /\ calls'[dedupe'[k]].key = k
  BY <1>1, <1>2, UnderWayIs DEF DedupeIsOwn, SameCall
<1>3. ASSUME NEW k \in Keys, dedupe'[k] # dedupe[k]
      PROVE  dedupe'[k] \in Made' /\ dedupe'[k] \in UnderWay' /\ calls'[dedupe'[k]].key = k
  <2> DEFINE n == Len(calls) + 1
  <2>1. /\ dedupe' = [dedupe EXCEPT ![key] = n] /\ n \in Made'
        /\ calls'[n].key = key /\ calls'[n].state = "fetching"
    BY <1>3 DEF Asked
  <2>2. k = key /\ dedupe'[k] = n
    <3> HIDE DEF n
    <3> QED BY <1>3, <2>1 DEF TypeOK
  <2> QED BY <2>1, <2>2, UnderWayIs DEF OnItsWay
<1>4. DedupeIsOwn'
  BY <1>2, <1>3 DEF DedupeIsOwn
<1>5. ASSUME loading' PROVE \E c \in Made' : IsGet(c)' /\ (c \in UnderWay' \/ calls'[c].result = "empty")
  <2>1. CASE loading
    <3>1. PICK c \in Made : IsGet(c) /\ (c \in UnderWay \/ calls[c].result = "empty")
      BY <2>1 DEF LoadingIsBacked
    <3> QED BY <1>1, <3>1, UnderWayIs DEF IsGet, SameCall
  <2>2. CASE ~loading
    <3> DEFINE n == Len(calls) + 1
    <3>1. n \in Made' /\ calls'[n].key = key /\ calls'[n].state = "fetching" /\ key = List
      BY <1>5, <2>2 DEF Asked
    <3> HIDE DEF n
    <3> QED BY <3>1, UnderWayIs DEF IsGet, OnItsWay
  <2> QED BY <2>1, <2>2
<1>6. LoadingIsBacked'
  BY <1>5 DEF LoadingIsBacked
<1> QED BY <1>4, <1>6

LEMMA AskedQueue ==
  ASSUME TypeOK, CallsAreCoherent, OneAtATime, NEW cs, \A c \in Made : Carried(cs, c),
         NEW key, NEW force, NEW keep \in {"nobody", "optimistic"}, Asked(cs, key, force, keep),
         cs = calls, UNCHANGED mutations
  PROVE  OneAtATime'
<1>1. \A c \in Made : c \in Made' /\ SameCall(calls[c], calls'[c]) /\ (calls'[c].state = "done" <=> calls[c].state = "done")
  BY DEF Asked, Stopped
<1>2. \A c \in Made' : c \notin Made => calls'[c].keep # "queue"
  BY DEF Asked
<1>3. InQueue' = InQueue
  BY <1>1, <1>2 DEF InQueue, SameCall
<1> QED BY <1>1, <1>3 DEF OneAtATime, mutations

\* A request that is not optimistic touches no change.
LEMMA AskedPatches ==
  ASSUME TypeOK, CallsAreCoherent, PatchesAreOld, RolledBackIsGone, NEW cs, \A c \in Made : Carried(cs, c),
         NEW key, NEW force, NEW keep \in {"nobody", "queue"}, Asked(cs, key, force, keep),
         UNCHANGED <<data, snapshots>>
  PROVE  PatchesAreOld' /\ RolledBackIsGone'
<1>1. PatchesAreOld'
  BY DEF PatchesAreOld, Asked
<1>2. \A c \in Made : calls'[c].keep = "optimistic" =>
        /\ calls[c].keep = "optimistic" /\ (calls'[c].state = "done" <=> calls[c].state = "done")
        /\ calls'[c].result = calls[c].result
  BY CarriedFacts DEF Asked, SameCall
<1>3. \A c \in Made' : c \notin Made => calls'[c].keep # "optimistic"
  BY DEF Asked
<1>4. RolledBackIsGone'
  BY <1>2, <1>3 DEF RolledBackIsGone, Succeeded
<1> QED BY <1>1, <1>4
-----------------------------------------------------------------------------
(* The invariant is inductive. *)

Flags ==
  /\ loading \in BOOLEAN /\ isStale \in BOOLEAN /\ recent \in BOOLEAN
  /\ controller \in BOOLEAN /\ processing \in BOOLEAN /\ timer \in BOOLEAN /\ destroyed \in BOOLEAN

Rest ==
  /\ data \in Data /\ data.kind # "undefined"
  /\ calls \in Seq(Call) /\ Len(calls) + queue <= MaxCalls
  /\ dedupe \in [Keys -> 0..MaxCalls]
  /\ snapshots \in [Calls -> Data]
  /\ queue \in Nat

LEMMA TypeHalves == (TypeOK <=> Flags /\ Rest) /\ (TypeOK' <=> Flags' /\ Rest')
<1>1. TypeOK <=> Flags /\ Rest
  BY DEF TypeOK, Flags, Rest
<1>2. TypeOK' <=> Flags' /\ Rest'
  BY DEF TypeOK, Flags, Rest
<1> QED BY <1>1, <1>2

LEMMA NullType == Null \in Data /\ Undefined \in Data /\ Null.kind = "none" /\ Undefined.kind = "undefined"
                  /\ Null.patches = {} /\ Undefined.patches = {} /\ Null.from = 0 /\ Undefined.from = 0
BY ResourceAssumption DEF Null, Undefined, Data, Calls, ResourceAssumption

LEMMA InitInv == Init => IInv
<1> SUFFICES ASSUME Init PROVE IInv OBVIOUS
<1>1. calls = <<>> /\ Made = {} /\ Len(calls) = 0 /\ calls \in Seq(Call)
  BY EmptySeq DEF Init, Made
<1>2. Flags
  BY DEF Init, Flags
<1>3. Rest
  BY <1>1, NullType, ResourceAssumption DEF Init, Rest, ResourceAssumption
<1>4. PatchesAreOld
  BY <1>1, NullType DEF Init, PatchesAreOld
<1>5. OneAtATime
  BY <1>1 DEF Init, OneAtATime, InQueue
<1>6. CallsAreCoherent /\ DedupeIsOwn /\ LoadingIsBacked /\ RolledBackIsGone
  BY <1>1 DEF Init, CallsAreCoherent, DedupeIsOwn, LoadingIsBacked, RolledBackIsGone
<1> QED BY <1>2, <1>3, <1>4, <1>5, <1>6, TypeHalves DEF IInv

\* Nothing changes but flags, and the data by setData.
LEMMA FlagsInv ==
  ASSUME IInv, invalidate \/ setData \/ GetsOld \/ startAutoRefresh \/ stopAutoRefresh PROVE IInv'
<1>1. /\ UNCHANGED <<calls, dedupe, snapshots, mutations, loading>> /\ Made' = Made
      /\ data' = data \/ data' = [Null EXCEPT !.kind = "list"]
  BY DEF invalidate, setData, GetsOld, startAutoRefresh, stopAutoRefresh, signal, Made
<1>2. data' = data \/ (data' \in Data /\ data'.kind = "list" /\ data'.patches = {})
  BY <1>1, NullType DEF Data
<1>3. Flags'
  BY DEF invalidate, setData, GetsOld, startAutoRefresh, stopAutoRefresh, signal, mutations, Flags, IInv, TypeOK
<1>4. Rest'
  BY <1>1, <1>2 DEF Rest, IInv, TypeOK, mutations
<1>5. CallsAreCoherent' /\ DedupeIsOwn' /\ LoadingIsBacked'
  BY <1>1, UnderWayIs DEF IInv, CallsAreCoherent, DedupeIsOwn, LoadingIsBacked, IsGet
<1>6. PatchesAreOld'
  BY <1>1, <1>2 DEF IInv, PatchesAreOld
<1>7. RolledBackIsGone'
  BY <1>1, <1>2 DEF IInv, RolledBackIsGone, Succeeded
<1>8. OneAtATime'
  BY <1>1 DEF IInv, OneAtATime, InQueue, mutations
<1> QED BY <1>3, <1>4, <1>5, <1>6, <1>7, <1>8, TypeHalves DEF IInv

\* The network touches one call, and leaves it under way.
LEMMA NetworkInv ==
  ASSUME IInv, NEW c \in Made, Changes(c), OnlyCalls, Coherent(calls'[c]),
         calls[c].state \in OnItsWay, calls'[c].state \in OnItsWay,
         calls'[c].result = calls[c].result \/ calls[c].result = "none"
  PROVE  IInv'
<1>1. UNCHANGED <<data, snapshots, dedupe, loading, mutations>>
  BY DEF OnlyCalls, signal
<1>2. Flags'
  BY DEF OnlyCalls, signal, mutations, Flags, IInv, TypeOK
<1>3. Rest'
  BY <1>1 DEF Rest, IInv, TypeOK, Changes, mutations
<1>4. CallsAreCoherent'
  BY ChangesCoherent DEF IInv, OnItsWay
<1>5. DedupeIsOwn' /\ LoadingIsBacked'
  BY <1>1, ChangesUnderWay DEF IInv
<1>6. PatchesAreOld' /\ RolledBackIsGone'
  BY <1>1, ChangesPatches DEF IInv, Succeeded, OnItsWay
<1>7. OneAtATime'
  BY <1>1, ChangesQueue DEF IInv, OnItsWay
<1> QED BY <1>2, <1>3, <1>4, <1>5, <1>6, <1>7, TypeHalves DEF IInv

LEMMA AnswerInv ==
  ASSUME IInv, NEW c \in Made,
         \/ \E result \in {"ok", "empty"} : Answer(c, result)
         \/ \E why \in {"network", "http"} : Fail(c, why)
         \/ AbortError(c)
  PROVE  IInv'
<1>1. /\ TypeOK /\ OnlyCalls /\ calls[c].state \in {"fetching", "aborting"}
      /\ calls[c].result = "none" /\ calls[c].state \in OnItsWay
  BY DEF IInv, Answer, Fail, AbortError, In, CallsAreCoherent, OnItsWay
<1>2. ASSUME NEW result \in {"ok", "empty", "failed"}, Settle(c, result) PROVE IInv'
  <2>1. Changes(c) /\ calls'[c].state = "answered" /\ calls'[c].result = result
    BY <1>1, <1>2, SettleFacts
  <2>2. Coherent(calls'[c]) /\ calls'[c].state \in OnItsWay
    BY <2>1 DEF Coherent, OnItsWay
  <2> QED BY <1>1, <2>1, <2>2, NetworkInv
<1>3. ASSUME calls' = [calls EXCEPT ![c].state = "sleeping"], NEW why, MayRetry(c, why) PROVE IInv'
  <2>1. /\ Changes(c) /\ calls'[c].state = "sleeping" /\ calls'[c].result = "none"
        /\ calls'[c].attempt = calls[c].attempt
    BY <1>1, <1>3, SleepFacts
  <2>2. Coherent(calls'[c]) /\ calls'[c].state \in OnItsWay
    BY <1>3, <2>1 DEF Coherent, OnItsWay, MayRetry
  <2> QED BY <1>1, <2>1, <2>2, NetworkInv
<1>4. ASSUME NEW why, Fail(c, why) PROVE IInv'
  BY <1>2, <1>3, <1>4 DEF Fail
<1> QED BY <1>2, <1>4 DEF Answer, AbortError

LEMMA RetryInv == ASSUME IInv, NEW c \in Made, Retry(c) PROVE IInv'
<1>1. /\ TypeOK /\ OnlyCalls /\ calls[c].state = "sleeping" /\ calls[c].attempt < MaxRetries
      /\ calls[c].result = "none"
  BY DEF IInv, Retry, In, CallsAreCoherent
<1>2. Changes(c) /\ calls'[c].state \in {"fetching", "aborting"} /\ calls'[c].result = "none"
  BY <1>1, RetryFacts
<1>3. Coherent(calls'[c]) /\ calls[c].state \in OnItsWay /\ calls'[c].state \in OnItsWay
  BY <1>1, <1>2 DEF Coherent, OnItsWay
<1> QED BY <1>1, <1>2, <1>3, NetworkInv

LEMMA DeliverFacts ==
  ASSUME TypeOK, NEW c \in Made, Deliver(c)
  PROVE  /\ Changes(c) /\ calls'[c].result = calls[c].result /\ calls[c].state = "answered"
         /\ calls'[c].state = IF calls[c].keep = "nobody" THEN "done" ELSE "delivered"
<1>1. calls[c].result \in {"none", "ok", "empty", "failed"} /\ calls[c].state = "answered"
  BY MadeFacts, CallFields DEF Deliver, In
<1>2. CASE calls[c].keep = "nobody"
  <2>1. calls' = [calls EXCEPT ![c] = Over(c, calls[c].result)]
    BY <1>2 DEF Deliver
  <2> QED BY <1>1, <1>2, <2>1, OverFacts
<1>3. CASE calls[c].keep # "nobody"
  <2>1. calls' = [calls EXCEPT ![c] = [@ EXCEPT !.state = "delivered"]]
    BY <1>3 DEF Deliver
  <2> QED BY <1>1, <1>3, <2>1, DeliveredFacts
<1> QED BY <1>2, <1>3

LEMMA AnswerType ==
  ASSUME TypeOK, NEW c \in Made
  PROVE  /\ AnswerOf(c) \in Data /\ AnswerOf(c).kind \in {"list", "item"} /\ AnswerOf(c).from = c
         /\ AnswerOf(c).patches \subseteq {m \in Made : Succeeded(m)}
<1>1. c \in 0..MaxCalls /\ {m \in Made : ~IsGet(m) /\ Succeeded(m)} \in SUBSET Calls
  BY MadeFacts, ResourceAssumption DEF Calls, ResourceAssumption
<1> QED BY <1>1 DEF AnswerOf, Data

LEMMA DeliverInv == ASSUME IInv, NEW c \in Made, Deliver(c) PROVE IInv'
<1>1. TypeOK /\ UNCHANGED <<controller, snapshots, mutations, timer, destroyed>> /\ calls[c].result # "none"
  BY DEF IInv, Deliver, CallsAreCoherent, In
<1>2. /\ Changes(c) /\ calls'[c].result = calls[c].result /\ calls[c].state = "answered"
      /\ calls'[c].state = IF calls[c].keep = "nobody" THEN "done" ELSE "delivered"
  BY <1>1, DeliverFacts
<1>3. calls[c] \in Call
  BY <1>1, MadeFacts
<1>4. \/ data' = data /\ UNCHANGED <<recent, isStale>>
      \/ data' = AnswerOf(c) /\ recent' = TRUE /\ isStale' = FALSE
  BY DEF Deliver, signal
<1>5. \/ loading' = FALSE
      \/ loading' = loading /\ calls[c].result = "empty"
  BY <1>1, <1>3, CallFields DEF Deliver, signal
<1>6. Flags'
  BY <1>1, <1>4, <1>5 DEF Flags, TypeOK, mutations
<1>7. dedupe' = [dedupe EXCEPT ![calls[c].key] = 0] /\ calls[c].key \in Keys
  BY <1>3, CallFields DEF Deliver, Forgotten
<1>8. Rest'
  <2>1. data' \in Data /\ data'.kind # "undefined"
    BY <1>1, <1>4, AnswerType DEF TypeOK
  <2>2. dedupe' \in [Keys -> 0..MaxCalls]
    BY <1>1, <1>7, ResourceAssumption DEF TypeOK, ResourceAssumption
  <2> QED BY <1>1, <1>2, <2>1, <2>2 DEF Rest, TypeOK, Changes, mutations
<1>9. CallsAreCoherent'
  BY <1>1, <1>2, ChangesCoherent DEF Coherent, IInv
<1>10. DedupeIsOwn'
  <2> SUFFICES ASSUME NEW k \in Keys, dedupe'[k] # 0
               PROVE  dedupe'[k] \in Made' /\ dedupe'[k] \in UnderWay' /\ calls'[dedupe'[k]].key = k
    BY DEF DedupeIsOwn
  <2>1. k # calls[c].key /\ dedupe'[k] = dedupe[k]
    BY <1>1, <1>7 DEF TypeOK
  <2>2. dedupe[k] \in Made /\ dedupe[k] \in UnderWay /\ calls[dedupe[k]].key = k
    BY <2>1 DEF IInv, DedupeIsOwn
  <2>3. dedupe[k] # c
    BY <2>1, <2>2
  <2> QED BY <1>2, <2>1, <2>2, <2>3, UnderWayIs DEF Changes
<1>11. LoadingIsBacked'
  <2> SUFFICES ASSUME loading, calls[c].result = "empty"
               PROVE  \E d \in Made' : IsGet(d)' /\ (d \in UnderWay' \/ calls'[d].result = "empty")
    BY <1>5 DEF LoadingIsBacked
  <2>1. PICK d \in Made : IsGet(d) /\ (d \in UnderWay \/ calls[d].result = "empty")
    BY DEF IInv, LoadingIsBacked
  <2> QED BY <1>2, <2>1, UnderWayIs DEF Changes, SameCall, IsGet
<1>12. PatchesAreOld'
  BY <1>1, <1>2, <1>4, AnswerType DEF PatchesAreOld, IInv, Changes
<1>13. RolledBackIsGone'
  <2>1. \A d \in Made : /\ calls'[d].keep = calls[d].keep /\ Succeeded(d)' = Succeeded(d)
                        /\ calls[d].keep = "optimistic" => (calls'[d].state = "done" <=> calls[d].state = "done")
    BY <1>2 DEF Changes, SameCall, Succeeded
  <2>2. \A d \in data'.patches : d \in data.patches \/ Succeeded(d)
    BY <1>1, <1>4, AnswerType
  <2> QED BY <1>1, <1>2, <2>1, <2>2 DEF RolledBackIsGone, IInv, Changes
<1>14. OneAtATime'
  BY <1>1, <1>2, ChangesQueue DEF IInv
<1> QED BY <1>6, <1>8, <1>9, <1>10, <1>11, <1>12, <1>13, <1>14, TypeHalves DEF IInv

LEMMA ResumesFacts ==
  ASSUME IInv, NEW c \in Made, Resumes(c)
  PROVE  /\ calls[c].state \in {"delivered", "joined"} /\ ResultFor(c) \in {"ok", "empty", "failed"}
         /\ Succeeded(c) => calls[c].result = ResultFor(c)
<1>1. calls[c].state \in {"delivered", "joined"}
  BY DEF Resumes, In
<1>2. calls[c].of \in Made /\ calls[calls[c].of] \in Call
  BY MadeFacts DEF IInv, CallsAreCoherent
<1>3. ResultFor(c) # "none" /\ (Succeeded(c) => calls[c].result = ResultFor(c))
  BY <1>1 DEF IInv, CallsAreCoherent, Resumes, ResultFor, Succeeded, In
<1> QED BY <1>1, <1>2, <1>3, CallFields DEF ResultFor

LEMMA FinishedFacts ==
  ASSUME IInv, NEW c \in Made, Resumes(c), calls' = Finished(c)
  PROVE  /\ Changes(c) /\ calls'[c].state = "done" /\ calls'[c].result = ResultFor(c)
         /\ calls'[c].attempt = 0 /\ calls'[c].listens = {}
         /\ CallsAreCoherent'
<1>1. TypeOK /\ calls' = [calls EXCEPT ![c] = Over(c, ResultFor(c))]
      /\ ResultFor(c) \in {"none", "ok", "empty", "failed"}
  BY ResumesFacts DEF IInv, Finished
<1>2. /\ Changes(c) /\ calls'[c].state = "done" /\ calls'[c].result = ResultFor(c)
      /\ calls'[c].attempt = 0 /\ calls'[c].listens = {}
  BY <1>1, OverFacts
<1> QED BY <1>2, ChangesCoherent DEF IInv, Coherent

LEMMA RollbackInv == ASSUME IInv, NEW c \in Made, Rollback(c) PROVE IInv'
<1>1. /\ TypeOK /\ Resumes(c) /\ ResultFor(c) = "failed" /\ calls[c].keep = "optimistic"
      /\ UNCHANGED <<loading, isStale, controller, dedupe, mutations, timer, destroyed>>
      /\ c \in Calls /\ Made \subseteq Nat /\ Calls \subseteq Nat /\ Made = 1..Len(calls) /\ Len(calls) \in Nat
  BY MadeFacts DEF IInv, Rollback, Calls
<1>2. /\ Changes(c) /\ calls'[c].state = "done" /\ calls'[c].result = "failed" /\ CallsAreCoherent'
  BY <1>1, FinishedFacts DEF Rollback
<1>3. /\ snapshots' = IF snapshots[c] # Undefined THEN Surviving(c) ELSE snapshots
      /\ data' = IF snapshots[c] # Undefined THEN snapshots[c] ELSE data
  BY DEF Rollback
<1>4. \A v \in Calls : snapshots'[v] = IF snapshots[c] # Undefined /\ v >= c THEN Undefined ELSE snapshots[v]
  BY <1>1, <1>3 DEF Surviving
<1>5. Flags'
  BY <1>1 DEF Rollback, Flags, TypeOK, mutations
<1>6. Rest'
  <2>1. data' \in Data /\ data'.kind # "undefined"
    BY <1>1, <1>3 DEF IInv, TypeOK, PatchesAreOld
  <2>2. snapshots' \in [Calls -> Data]
    BY <1>1, <1>3, NullType DEF TypeOK, Surviving
  <2> QED BY <1>1, <1>2, <2>1, <2>2 DEF Rest, TypeOK, Changes, mutations
<1>7. DedupeIsOwn' /\ LoadingIsBacked'
  BY <1>1, <1>2, ResumesFacts, ChangesElsewhere DEF IInv
<1>8. PatchesAreOld'
  <2>1. \A v \in Calls : snapshots'[v].patches \subseteq 1..(v - 1)
                         /\ (snapshots'[v].kind = "undefined" <=> snapshots'[v] = Undefined)
    BY <1>1, <1>4, NullType DEF IInv, PatchesAreOld
  <2>2. snapshots[c].patches \subseteq Made
    BY <1>1 DEF IInv, PatchesAreOld
  <2> QED BY <1>2, <1>3, <2>1, <2>2 DEF IInv, PatchesAreOld, Changes
<1>9. RolledBackIsGone'
  <2> SUFFICES ASSUME NEW d \in Made, calls[d].keep = "optimistic"
               PROVE  /\ calls'[d].state = "done" => snapshots'[d] = Undefined
                      /\ snapshots'[d] = Undefined /\ ~Succeeded(d)' =>
                           d \notin data'.patches /\ \A v \in Calls : d \notin snapshots'[v].patches
    BY <1>2 DEF RolledBackIsGone, Changes, SameCall
  <2>1. d \in Calls
    BY <1>1, MadeFacts
  <2>2. calls'[d].state = "done" => snapshots'[d] = Undefined
    BY <1>1, <1>2, <1>4, <2>1 DEF IInv, RolledBackIsGone, Changes
  <2>3. ~Succeeded(c)
    BY <1>1, ResumesFacts DEF Succeeded
  <2>4. ~Succeeded(d)' => ~Succeeded(d)
    BY <1>2, <2>3 DEF Changes, Succeeded
  <2>5. ASSUME snapshots'[d] = Undefined, ~Succeeded(d)
        PROVE  d \notin data'.patches /\ \A v \in Calls : d \notin snapshots'[v].patches
    <3>1. CASE snapshots[d] = Undefined
      <4>1. d \notin data.patches /\ \A v \in Calls : d \notin snapshots[v].patches
        BY <2>5, <3>1 DEF IInv, RolledBackIsGone
      <4> QED BY <1>1, <1>3, <1>4, <4>1, NullType
    <3>2. CASE snapshots[d] # Undefined
      <4>1. snapshots[c] # Undefined /\ d >= c
        BY <1>4, <2>1, <2>5, <3>2
      <4>2. data' = snapshots[c] /\ d \notin snapshots[c].patches
        BY <1>1, <1>3, <4>1 DEF IInv, PatchesAreOld
      <4>3. ASSUME NEW v \in Calls PROVE d \notin snapshots'[v].patches
        BY <1>1, <1>4, <4>1, NullType DEF IInv, PatchesAreOld
      <4> QED BY <4>2, <4>3
    <3> QED BY <3>1, <3>2
  <2> QED BY <2>2, <2>4, <2>5
<1>10. OneAtATime'
  BY <1>1, <1>2, ChangesQueue DEF IInv
<1> QED BY <1>2, <1>5, <1>6, <1>7, <1>8, <1>9, <1>10, TypeHalves DEF IInv

LEMMA FinalizeInv == ASSUME IInv, NEW c \in Made, Finalize(c) PROVE IInv'
<1>1. /\ TypeOK /\ Resumes(c) /\ ResultFor(c) \in {"ok", "empty"} /\ calls[c].keep = "optimistic"
      /\ UNCHANGED <<loading, controller, dedupe, mutations, timer, destroyed>>
      /\ snapshots' = [snapshots EXCEPT ![c] = Undefined] /\ c \in Calls
  BY MadeFacts, ResumesFacts DEF IInv, Finalize
<1>2. /\ Changes(c) /\ calls'[c].state = "done" /\ calls'[c].result = ResultFor(c) /\ CallsAreCoherent'
  BY <1>1, FinishedFacts DEF Finalize
<1>3. data' = data \/ data' = [data EXCEPT !.patches = @ \ {c}]
  BY DEF Finalize
<1>4. data' \in Data /\ data'.kind = data.kind /\ data'.patches \subseteq data.patches
  BY <1>1, <1>3 DEF TypeOK, Data
<1>5. \A v \in Calls : snapshots'[v] = IF v = c THEN Undefined ELSE snapshots[v]
  BY <1>1 DEF TypeOK
<1>6. Flags'
  <2>1. recent' \in BOOLEAN /\ isStale' \in BOOLEAN
    BY DEF Finalize
  <2> QED BY <1>1, <2>1 DEF Flags, TypeOK, mutations
<1>7. Rest'
  <2>1. snapshots' \in [Calls -> Data]
    BY <1>1, NullType DEF TypeOK
  <2> QED BY <1>1, <1>2, <1>4, <2>1 DEF Rest, TypeOK, Changes, mutations
<1>8. DedupeIsOwn' /\ LoadingIsBacked'
  BY <1>1, <1>2, ResumesFacts, ChangesElsewhere DEF IInv
<1>9. PatchesAreOld'
  BY <1>2, <1>4, <1>5, NullType DEF IInv, PatchesAreOld, Changes
<1>10. RolledBackIsGone'
  <2> SUFFICES ASSUME NEW d \in Made, calls[d].keep = "optimistic"
               PROVE  /\ calls'[d].state = "done" => snapshots'[d] = Undefined
                      /\ snapshots'[d] = Undefined /\ ~Succeeded(d)' =>
                           d \notin data'.patches /\ \A v \in Calls : d \notin snapshots'[v].patches
    BY <1>2 DEF RolledBackIsGone, Changes, SameCall
  <2>1. d \in Calls
    BY <1>1, MadeFacts
  <2>2. CASE d = c
    BY <1>1, <1>2, <1>5, <2>2 DEF Succeeded
  <2>3. CASE d # c
    <3>1. /\ calls'[d] = calls[d] /\ snapshots'[d] = snapshots[d]
      BY <1>2, <1>5, <2>1, <2>3 DEF Changes
    <3> QED BY <1>4, <1>5, <3>1, NullType DEF IInv, RolledBackIsGone, Succeeded
  <2> QED BY <2>2, <2>3
<1>11. OneAtATime'
  BY <1>1, <1>2, ChangesQueue DEF IInv
<1> QED BY <1>2, <1>6, <1>7, <1>8, <1>9, <1>10, <1>11, TypeHalves DEF IInv

LEMMA JoinedReturnsInv == ASSUME IInv, NEW c \in Made, JoinedReturns(c) PROVE IInv'
<1>1. /\ TypeOK /\ Resumes(c) /\ calls[c].keep = "nobody"
      /\ UNCHANGED <<data, snapshots, dedupe, loading, mutations>>
  BY DEF IInv, JoinedReturns, OnlyCalls, signal
<1>2. /\ Changes(c) /\ calls'[c].state = "done" /\ calls'[c].result = ResultFor(c) /\ CallsAreCoherent'
  BY <1>1, FinishedFacts DEF JoinedReturns
<1>3. Flags'
  BY <1>1 DEF JoinedReturns, OnlyCalls, Flags, TypeOK, signal, mutations
<1>4. Rest'
  BY <1>1, <1>2 DEF Rest, TypeOK, Changes, mutations
<1>5. DedupeIsOwn' /\ LoadingIsBacked'
  BY <1>1, <1>2, ResumesFacts, ChangesElsewhere DEF IInv
<1>6. PatchesAreOld' /\ RolledBackIsGone'
  BY <1>1, <1>2, ResumesFacts, ChangesPatches DEF IInv
<1>7. OneAtATime'
  BY <1>1, <1>2, ChangesQueue DEF IInv
<1> QED BY <1>2, <1>3, <1>4, <1>5, <1>6, <1>7, TypeHalves DEF IInv

LEMMA RoomFacts ==
  ASSUME TypeOK, HasRoom
  PROVE  /\ Len(calls) < MaxCalls
         /\ \A n : n \in {Len(calls), Len(calls) + 1} => n + queue <= MaxCalls
BY MadeFacts, ResourceAssumption DEF TypeOK, HasRoom, ResourceAssumption

LEMMA AskedTypes ==
  ASSUME TypeOK, NEW cs, NEW key \in Keys, NEW force, NEW keep, Asked(cs, key, force, keep)
  PROVE  loading' \in BOOLEAN /\ dedupe' \in [Keys -> 0..MaxCalls]
<1>1. loading' \in BOOLEAN
  BY DEF Asked, TypeOK
<1>2. dedupe' = dedupe \/ \E n \in Calls : dedupe' = [dedupe EXCEPT ![key] = n]
  BY DEF Asked
<1>3. dedupe \in [Keys -> 0..MaxCalls] /\ Calls \subseteq 0..MaxCalls
  BY ResourceAssumption DEF TypeOK, Calls, ResourceAssumption
<1> QED BY <1>1, <1>2, <1>3

\* A request nobody waits for, or the first of the queue; nothing else changes.
LEMMA RequestInv ==
  ASSUME IInv, HasRoom, NEW key \in Keys, NEW force, NEW keep \in {"nobody", "queue"},
         request(calls, key, force, keep),
         keep = "queue" => "update" \in Ops /\ ~processing /\ processing' = TRUE /\ force = FALSE /\ key # List,
         keep = "nobody" => processing' = processing,
         isStale' \in BOOLEAN, UNCHANGED <<data, recent, snapshots, queue, timer, destroyed>>
  PROVE  IInv'
<1>1. TypeOK /\ Len(calls) < MaxCalls /\ calls \in Seq(Call) /\ \A c \in Made : Carried(calls, c)
  BY RoomFacts DEF IInv, TypeOK, Carried
<1>2. Asked(calls, key, force, keep)
  BY <1>1, RequestFacts DEF IInv
<1>3. Flags'
  <2>1. loading' \in BOOLEAN
    BY <1>1, <1>2, AskedTypes
  <2>2. controller' \in BOOLEAN /\ processing' \in BOOLEAN
    BY <1>1 DEF request, TypeOK
  <2> QED BY <1>1, <2>1, <2>2 DEF Flags, TypeOK
<1>4. Rest'
  <2>1. dedupe' \in [Keys -> 0..MaxCalls]
    BY <1>1, <1>2, AskedTypes
  <2>2. calls' \in Seq(Call) /\ Len(calls') + queue <= MaxCalls
    BY <1>1, <1>2, RoomFacts DEF Asked
  <2> QED BY <1>1, <2>1, <2>2 DEF Rest, TypeOK
<1>5. CallsAreCoherent'
  BY <1>1, <1>2, AskedCoherent DEF IInv
<1>6. DedupeIsOwn' /\ LoadingIsBacked'
  BY <1>1, <1>2, AskedUnderWay DEF IInv
<1>7. PatchesAreOld' /\ RolledBackIsGone'
  BY <1>1, <1>2, AskedPatches DEF IInv
<1>8. OneAtATime'
  <2>1. CASE keep = "nobody"
    BY <1>1, <1>2, <2>1, AskedQueue DEF IInv, mutations
  <2>2. CASE keep = "queue"
    <3> DEFINE n == Len(calls) + 1
    <3>1. /\ Made' = Made \cup {n} /\ calls'[n].keep = "queue" /\ calls'[n].state # "done"
      BY <1>2, <2>2 DEF Asked
    <3>2. \A c \in Made : SameCall(calls[c], calls'[c]) /\ (calls'[c].state = "done" <=> calls[c].state = "done")
      BY <1>2 DEF Asked, Stopped
    <3>3. InQueue = {}
      BY <2>2 DEF IInv, OneAtATime
    <3>4. InQueue' = {n}
      <4> HIDE DEF n
      <4> QED BY <3>1, <3>2, <3>3 DEF InQueue, SameCall
    <3> QED BY <2>2, <3>1, <3>4 DEF OneAtATime
  <2> QED BY <2>1, <2>2
<1> QED BY <1>3, <1>4, <1>5, <1>6, <1>7, <1>8, TypeHalves DEF IInv

LEMMA CarriedFinished ==
  ASSUME IInv, NEW c \in Made, Resumes(c), calls[c].keep = "queue"
  PROVE  /\ Finished(c) \in Seq(Call) /\ Len(Finished(c)) = Len(calls)
         /\ \A d \in Made : Carried(Finished(c), d) /\ (d # c => Finished(c)[d] = calls[d])
         /\ Finished(c)[c].state = "done"
<1>1. /\ TypeOK /\ calls \in Seq(Call) /\ Made = 1..Len(calls) /\ calls[c] \in Call
      /\ calls[c].state \in {"delivered", "joined"} /\ ResultFor(c) \in {"ok", "empty", "failed"}
  BY MadeFacts, ResumesFacts DEF IInv, TypeOK
<1> DEFINE r == Over(c, ResultFor(c))
<1>2. r \in Call
  <2>1. 0 \in 0..MaxRetries /\ {} \subseteq {"request", "life"}
    BY ResourceAssumption DEF ResourceAssumption
  <2> QED BY <1>1, <2>1 DEF Call, Over
<1>3. /\ SameCall(calls[c], r) /\ r.state = "done" /\ r.result = ResultFor(c)
      /\ r.attempt = 0 /\ r.listens = {}
  BY <1>1 DEF Call, SameCall, Over
<1>4. /\ Finished(c) \in Seq(Call) /\ Len(Finished(c)) = Len(calls)
      /\ \A d \in Made : Finished(c)[d] = IF d = c THEN r ELSE calls[d]
  <2> HIDE DEF r
  <2>1. Finished(c) = [calls EXCEPT ![c] = r]
    BY DEF Finished, r
  <2> QED BY <1>1, <1>2, <2>1, ExceptSeq
<1> HIDE DEF r
<1> QED BY <1>1, <1>3, <1>4 DEF Carried

LEMMA QueueStepInv == ASSUME IInv, NEW c \in Made, QueueStep(c) PROVE IInv'
<1>1. /\ TypeOK /\ Resumes(c) /\ calls[c].keep = "queue" /\ calls[c].state # "done" /\ "update" \in Ops
      /\ UNCHANGED <<data, isStale, recent, snapshots, timer, destroyed>>
  BY ResumesFacts DEF IInv, QueueStep, CallsAreCoherent
<1>2. processing /\ InQueue = {c}
  BY <1>1 DEF IInv, OneAtATime, InQueue
<1>3. CASE QueueGoesOn(c)
  <2>1. PICK b \in Bodies : request(Finished(c), <<"update", b>>, FALSE, "queue")
    BY <1>3 DEF QueueStep
  <2>2. queue > 0 /\ queue' = queue - 1 /\ processing' = processing
    BY <1>3 DEF QueueStep, QueueGoesOn
  <2> DEFINE key == <<"update", b>>
             cs == Finished(c)
             n == Len(calls) + 1
  <2>3. key \in Keys /\ key # List
    BY <1>1 DEF Keys, List
  <2>4. /\ queue \in Nat /\ Len(calls) \in Nat /\ Len(calls) + queue <= MaxCalls
        /\ Len(calls) < MaxCalls /\ queue' \in Nat /\ n + queue' <= MaxCalls
    BY <1>1, <2>2, MadeFacts, ResourceAssumption DEF TypeOK, ResourceAssumption
  <2>5. /\ cs \in Seq(Call) /\ Len(cs) = Len(calls) /\ cs[c].state = "done"
        /\ \A d \in Made : Carried(cs, d) /\ (d # c => cs[d] = calls[d])
    BY <1>1, CarriedFinished
  <2> HIDE DEF key, cs
  <2>6. request(cs, key, FALSE, "queue")
    BY <2>1 DEF key, cs
  <2>7. Asked(cs, key, FALSE, "queue")
    BY <1>1, <2>3, <2>4, <2>5, <2>6, RequestFacts DEF IInv
  <2>8. /\ calls' \in Seq(Call) /\ Len(calls') = n /\ Made' = Made \cup {n} /\ n \notin Made
        /\ calls'[n].keep = "queue" /\ calls'[n].state # "done"
    BY <1>1, <2>3, <2>7, MadeFacts DEF Asked
  <2>9. Flags'
    <3>1. loading' \in BOOLEAN
      BY <1>1, <2>3, <2>7, AskedTypes
    <3>2. controller' \in BOOLEAN
      BY <2>6 DEF request
    <3> QED BY <1>1, <2>2, <3>1, <3>2 DEF Flags, TypeOK
  <2>10. Rest'
    <3>1. dedupe' \in [Keys -> 0..MaxCalls]
      BY <1>1, <2>3, <2>7, AskedTypes
    <3> QED BY <1>1, <2>4, <2>8, <3>1 DEF Rest, TypeOK
  <2>11. CallsAreCoherent'
    BY <1>1, <2>3, <2>5, <2>7, AskedCoherent DEF IInv
  <2>12. DedupeIsOwn' /\ LoadingIsBacked'
    BY <1>1, <2>3, <2>5, <2>7, AskedUnderWay DEF IInv
  <2>13. PatchesAreOld' /\ RolledBackIsGone'
    BY <1>1, <2>3, <2>5, <2>7, AskedPatches DEF IInv
  <2>14. OneAtATime'
    <3>1. \A d \in Made : calls'[d].keep = calls[d].keep /\ (d # c => (calls'[d].state = "done" <=> calls[d].state = "done"))
      BY <2>5, <2>7, CarriedFacts DEF IInv, Asked, Stopped, SameCall
    <3>2. calls'[c].state = "done"
      BY <2>5, <2>7 DEF Asked, Stopped
    <3>3. InQueue' = {n}
      <4> HIDE DEF n
      <4> QED BY <1>2, <2>8, <3>1, <3>2 DEF InQueue
    <3> QED BY <1>2, <2>2, <2>8, <3>3 DEF OneAtATime
  <2> QED BY <2>9, <2>10, <2>11, <2>12, <2>13, <2>14, TypeHalves DEF IInv
<1>4. CASE ~QueueGoesOn(c)
  <2>1. /\ calls' = Finished(c) /\ processing' = FALSE /\ queue' = queue /\ ~(queue > 0)
        /\ UNCHANGED <<controller, dedupe, loading>>
    BY <1>4 DEF QueueStep, QueueGoesOn
  <2>2. /\ Changes(c) /\ calls'[c].state = "done" /\ calls'[c].result = ResultFor(c) /\ CallsAreCoherent'
    BY <1>1, <2>1, FinishedFacts
  <2>3. Flags'
    BY <1>1, <2>1 DEF Flags, TypeOK
  <2>4. Rest'
    BY <1>1, <2>1, <2>2 DEF Rest, TypeOK, Changes
  <2>5. DedupeIsOwn' /\ LoadingIsBacked'
    BY <1>1, <2>1, <2>2, ResumesFacts, ChangesElsewhere DEF IInv
  <2>6. PatchesAreOld' /\ RolledBackIsGone'
    BY <1>1, <2>2, ResumesFacts, ChangesPatches DEF IInv
  <2>7. OneAtATime'
    <3>1. InQueue' = {}
      BY <1>2, <2>2 DEF InQueue, Changes, SameCall
    <3> QED BY <2>1, <3>1 DEF OneAtATime
  <2> QED BY <2>2, <2>3, <2>4, <2>5, <2>6, <2>7, TypeHalves DEF IInv
<1> QED BY <1>3, <1>4

LEMMA KeyFacts ==
  /\ List \in Keys
  /\ \A op \in Ops, b \in Bodies : <<op, b>> \in Keys /\ <<op, b>> # List
<1>1. "get" \notin Ops
  BY ResourceAssumption DEF ResourceAssumption
<1> QED BY <1>1 DEF Keys, List

LEMMA CallersInv ==
  ASSUME IInv,
         \/ \E force \in BOOLEAN : list(force)
         \/ \E op \in Ops, b \in Bodies : mutate(op, b)
         \/ "update" \in Ops /\ \E b \in Bodies : enqueueMutation(b) /\ ~processing
         \/ Refresh
  PROVE  IInv'
<1>1. isStale \in BOOLEAN /\ queue \in Nat
  BY DEF IInv, TypeOK
<1>2. ASSUME NEW force \in BOOLEAN, list(force) PROVE IInv'
  BY <1>1, <1>2, KeyFacts, RequestInv DEF list, mutations
<1>3. ASSUME NEW op \in Ops, NEW b \in Bodies, mutate(op, b) PROVE IInv'
  BY <1>1, <1>3, KeyFacts, RequestInv DEF mutate, mutations
<1>4. ASSUME "update" \in Ops, NEW b \in Bodies, enqueueMutation(b), ~processing PROVE IInv'
  BY <1>1, <1>4, KeyFacts, RequestInv DEF enqueueMutation
<1>5. ASSUME Refresh PROVE IInv'
  BY <1>5, KeyFacts, RequestInv DEF Refresh, mutations
<1> QED BY <1>2, <1>3, <1>4, <1>5

LEMMA WaitsInv ==
  ASSUME IInv, NEW b \in Bodies, enqueueMutation(b), processing PROVE IInv'
<1>1. /\ queue' = queue + 1 /\ TypeOK /\ HasRoom /\ Made' = Made
      /\ UNCHANGED <<signal, calls, controller, dedupe, snapshots, processing, timer, destroyed>>
  BY DEF IInv, enqueueMutation, signal, Made
<1>2. Flags'
  BY <1>1 DEF Flags, TypeOK, signal
<1>3. Rest'
  BY <1>1, MadeFacts, ResourceAssumption DEF Rest, TypeOK, signal, HasRoom, ResourceAssumption
<1>4. CallsAreCoherent' /\ DedupeIsOwn' /\ LoadingIsBacked'
  BY <1>1, UnderWayIs DEF IInv, CallsAreCoherent, DedupeIsOwn, LoadingIsBacked, IsGet, signal
<1>5. PatchesAreOld' /\ RolledBackIsGone'
  BY <1>1 DEF IInv, PatchesAreOld, RolledBackIsGone, Succeeded, signal
<1>6. OneAtATime'
  BY <1>1 DEF IInv, OneAtATime, InQueue
<1> QED BY <1>2, <1>3, <1>4, <1>5, <1>6, TypeHalves DEF IInv

LEMMA OptimisticInv ==
  ASSUME IInv, NEW op \in Ops, NEW b \in Bodies, mutateOptimistic(op, b) PROVE IInv'
<1> DEFINE n == Len(calls) + 1
           key == <<op, b>>
<1>1. /\ TypeOK /\ HasRoom /\ Len(calls) < MaxCalls /\ key \in Keys /\ key # List
      /\ calls \in Seq(Call) /\ \A c \in Made : Carried(calls, c)
      /\ request(calls, key, FALSE, "optimistic")
      /\ UNCHANGED <<isStale, mutations, timer, destroyed>>
      /\ Made = 1..Len(calls) /\ Len(calls) \in Nat /\ n + queue <= MaxCalls
  BY KeyFacts, RoomFacts, MadeFacts DEF IInv, TypeOK, Carried, mutateOptimistic
<1> HIDE DEF key
<1>2. Asked(calls, key, FALSE, "optimistic")
  BY <1>1, RequestFacts DEF IInv
<1>3. /\ calls' \in Seq(Call) /\ Len(calls') = n /\ Made' = Made \cup {n} /\ n \in Calls /\ n \notin Made
      /\ calls'[n].keep = "optimistic" /\ calls'[n].state # "done" /\ calls'[n].result = "none"
      /\ \A c \in Made : Stopped(calls[c], calls'[c], "request")
  BY <1>1, <1>2 DEF Asked
<1>4. /\ snapshots' = [snapshots EXCEPT ![n] = data]
      /\ \A v \in Calls : snapshots'[v] = IF v = n THEN data ELSE snapshots[v]
  BY <1>1 DEF mutateOptimistic, TypeOK
<1>5. data' = data \/ data' = [data EXCEPT !.patches = @ \cup {n}]
  BY DEF mutateOptimistic
<1>6. data' \in Data /\ data'.kind = data.kind /\ data'.patches \subseteq data.patches \cup {n}
  BY <1>1, <1>3, <1>5 DEF TypeOK, Data
<1>7. Flags'
  <2>1. loading' \in BOOLEAN
    BY <1>1, <1>2, AskedTypes
  <2>2. controller' \in BOOLEAN /\ recent' \in BOOLEAN
    BY <1>1 DEF request, mutateOptimistic, TypeOK
  <2> QED BY <1>1, <2>1, <2>2 DEF Flags, TypeOK, mutations
<1>8. Rest'
  <2>1. dedupe' \in [Keys -> 0..MaxCalls]
    BY <1>1, <1>2, AskedTypes
  <2>2. snapshots' \in [Calls -> Data]
    BY <1>1, <1>4 DEF TypeOK
  <2> QED BY <1>1, <1>3, <1>6, <2>1, <2>2 DEF Rest, TypeOK, mutations
<1>9. CallsAreCoherent'
  BY <1>1, <1>2, AskedCoherent DEF IInv
<1>10. DedupeIsOwn' /\ LoadingIsBacked'
  BY <1>1, <1>2, AskedUnderWay DEF IInv
<1>11. PatchesAreOld'
  <2>1. data.patches \subseteq 1..(n - 1) /\ data.kind # "undefined" /\ data # Undefined
    BY <1>1, NullType DEF IInv, PatchesAreOld, TypeOK
  <2>2. \A v \in Calls : snapshots'[v].patches \subseteq 1..(v - 1)
                         /\ (snapshots'[v].kind = "undefined" <=> snapshots'[v] = Undefined)
    <3> HIDE DEF n
    <3> QED BY <1>4, <2>1 DEF IInv, PatchesAreOld
  <2> HIDE DEF n
  <2> QED BY <1>3, <1>6, <2>2 DEF IInv, PatchesAreOld
<1>12. RolledBackIsGone'
  <2> HIDE DEF n
  <2>1. snapshots'[n] # Undefined
    BY <1>1, <1>3, <1>4, NullType DEF TypeOK
  <2>2. ASSUME NEW c \in Made, calls'[c].keep = "optimistic"
        PROVE  /\ calls'[c].state = "done" => snapshots'[c] = Undefined
               /\ snapshots'[c] = Undefined /\ ~Succeeded(c)' =>
                    c \notin data'.patches /\ \A v \in Calls : c \notin snapshots'[v].patches
    <3>1. c # n /\ c \in Calls /\ snapshots'[c] = snapshots[c]
      BY <1>1, <1>3, <1>4, MadeFacts
    <3>2. /\ calls[c].keep = "optimistic" /\ Succeeded(c)' = Succeeded(c)
          /\ calls'[c].state = "done" => calls[c].state = "done"
      BY <1>3, <2>2 DEF Stopped, SameCall, Succeeded
    <3> QED BY <1>4, <1>6, <3>1, <3>2 DEF IInv, RolledBackIsGone
  <2> QED BY <1>3, <2>1, <2>2 DEF RolledBackIsGone
<1>13. OneAtATime'
  BY <1>1, <1>2, AskedQueue DEF IInv
<1> QED BY <1>7, <1>8, <1>9, <1>10, <1>11, <1>12, <1>13, TypeHalves DEF IInv

\* reset and dispose forget what is asked for, but not the calls themselves.
LEMMA EmptiedInv ==
  ASSUME IInv, Emptied, UNCHANGED <<snapshots, processing>>,
         controller' \in BOOLEAN, destroyed' \in BOOLEAN,
         calls' \in Seq(Call), Len(calls') = Len(calls), Made' = Made,
         \A c \in Made : /\ SameCall(calls[c], calls'[c]) /\ Coherent(calls'[c])
                         /\ calls'[c].result = calls[c].result
                         /\ \/ calls'[c].state = calls[c].state
                            \/ calls[c].state \in OnItsWay /\ calls'[c].state \in OnItsWay
  PROVE  IInv'
<1>1. TypeOK /\ data' = Null /\ queue' = 0 /\ dedupe' = [k \in Keys |-> 0]
  BY DEF IInv, Emptied
<1>2. Flags'
  BY <1>1 DEF Emptied, Flags, TypeOK
<1>3. Rest'
  BY <1>1, MadeFacts, NullType, ResourceAssumption DEF Rest, TypeOK, ResourceAssumption
<1>4. CallsAreCoherent'
  BY DEF IInv, CallsAreCoherent, SameCall, Coherent, OnItsWay
<1>5. DedupeIsOwn' /\ LoadingIsBacked'
  BY <1>1 DEF DedupeIsOwn, LoadingIsBacked, Emptied
<1>6. PatchesAreOld'
  BY <1>1, NullType DEF IInv, PatchesAreOld
<1>7. RolledBackIsGone'
  BY <1>1, NullType DEF IInv, RolledBackIsGone, Succeeded, SameCall, OnItsWay
<1>8. InQueue' = InQueue
  BY DEF InQueue, SameCall, OnItsWay
<1>9. OneAtATime'
  BY <1>1, <1>8 DEF IInv, OneAtATime
<1> QED BY <1>2, <1>3, <1>4, <1>5, <1>6, <1>7, <1>9, TypeHalves DEF IInv

LEMMA ResetFacts ==
  ASSUME TypeOK, reset
  PROVE  /\ calls' \in Seq(Call) /\ Len(calls') = Len(calls) /\ Made' = Made
         /\ \A c \in Made : /\ SameCall(calls[c], calls'[c]) /\ calls'[c].listens = {}
                            /\ calls'[c].state = calls[c].state /\ calls'[c].result = calls[c].result
                            /\ calls'[c].attempt = calls[c].attempt
<1>1. Len(calls) \in Nat /\ Made = 1..Len(calls) /\ \A c \in Made : calls[c] \in Call
  BY MadeFacts
<1>2. calls' = [c \in Made |-> [calls[c] EXCEPT !.listens = {}]]
  BY DEF reset
<1>3. ASSUME NEW c \in Made
      PROVE  LET r == [calls[c] EXCEPT !.listens = {}] IN
             /\ r \in Call /\ SameCall(calls[c], r) /\ r.listens = {} /\ r.state = calls[c].state
             /\ r.result = calls[c].result /\ r.attempt = calls[c].attempt
  <2>1. calls[c] \in Call
    BY <1>1
  <2> QED BY <2>1 DEF Call, SameCall
<1>4. calls' \in [1..Len(calls) -> Call]
  BY <1>1, <1>2, <1>3
<1>5. calls' \in Seq(Call) /\ Len(calls') = Len(calls) /\ Made' = Made
  <2>1. calls' \in Seq(Call) /\ Len(calls') = Len(calls)
    BY <1>1, <1>4
  <2> QED BY <1>1, <2>1, LenProperties DEF Made
<1> QED BY <1>2, <1>3, <1>5

LEMMA DisposeFacts ==
  ASSUME TypeOK, dispose
  PROVE  /\ calls' \in Seq(Call) /\ Len(calls') = Len(calls) /\ Made' = Made
         /\ \A c \in Made : /\ SameCall(calls[c], calls'[c]) /\ calls'[c].listens = calls[c].listens
                            /\ calls'[c].result = calls[c].result /\ calls'[c].attempt = calls[c].attempt
                            /\ \/ calls'[c].state = calls[c].state
                               \/ calls[c].state = "fetching" /\ calls'[c].state = "aborting"
<1> DEFINE first == abort(calls, "life")
<1>1. calls \in Seq(Call) /\ Made = 1..Len(calls)
  BY MadeFacts DEF TypeOK
<1>2. /\ first \in Seq(Call) /\ Len(first) = Len(calls)
      /\ \A c \in Made : Stopped(calls[c], first[c], "life")
  BY <1>1, AbortFacts
<1>3. calls' = abort(first, "request")
  BY DEF dispose
<1> HIDE DEF first
<1>4. /\ calls' \in Seq(Call) /\ Len(calls') = Len(calls)
      /\ \A c \in Made : Stopped(first[c], calls'[c], "request")
  BY <1>1, <1>2, <1>3, AbortFacts
<1>5. Made' = Made
  BY <1>1, <1>4, LenProperties DEF Made
<1> QED BY <1>2, <1>4, <1>5 DEF Stopped, SameCall

LEMMA LifeInv == ASSUME IInv, reset \/ dispose PROVE IInv'
<1>1. \A c \in Made : Coherent(calls[c])
  BY DEF IInv, CallsAreCoherent, Coherent
<1>2. CASE reset
  <2>1. /\ calls' \in Seq(Call) /\ Len(calls') = Len(calls) /\ Made' = Made
        /\ \A c \in Made : /\ SameCall(calls[c], calls'[c]) /\ Coherent(calls'[c])
                           /\ calls'[c].state = calls[c].state /\ calls'[c].result = calls[c].result
    BY <1>1, <1>2, ResetFacts DEF IInv, Coherent
  <2> QED BY <1>2, <2>1, EmptiedInv DEF reset
<1>3. CASE dispose
  <2>1. /\ calls' \in Seq(Call) /\ Len(calls') = Len(calls) /\ Made' = Made
        /\ \A c \in Made : /\ SameCall(calls[c], calls'[c]) /\ Coherent(calls'[c])
                           /\ calls'[c].result = calls[c].result
                           /\ \/ calls'[c].state = calls[c].state
                              \/ calls[c].state \in OnItsWay /\ calls'[c].state \in OnItsWay
    BY <1>1, <1>3, DisposeFacts DEF IInv, Coherent, OnItsWay
  <2> QED BY <1>3, <2>1, EmptiedInv DEF dispose
<1> QED BY <1>2, <1>3

LEMMA StepInv == IInv /\ [Next]_vars => IInv'
<1> SUFFICES ASSUME IInv, [Next]_vars PROVE IInv' OBVIOUS
<1>1. ASSUME NEW c \in Made,
             \/ \E result \in {"ok", "empty"} : Answer(c, result)
             \/ \E why \in {"network", "http"} : Fail(c, why)
             \/ AbortError(c) \/ Retry(c) \/ Deliver(c)
             \/ Rollback(c) \/ Finalize(c) \/ JoinedReturns(c) \/ QueueStep(c)
      PROVE  IInv'
  BY <1>1, AnswerInv, RetryInv, DeliverInv, RollbackInv, FinalizeInv, JoinedReturnsInv, QueueStepInv
<1>2. ASSUME "update" \in Ops, NEW b \in Bodies, enqueueMutation(b) PROVE IInv'
  BY <1>2, CallersInv, WaitsInv
<1>3. CASE UNCHANGED vars
  <2>1. /\ UNCHANGED <<data, loading, isStale, recent, calls, controller, dedupe, snapshots>>
        /\ UNCHANGED <<queue, processing, timer, destroyed>>
    BY <1>3 DEF vars, signal, mutations
  <2>2. Made' = Made
    BY <2>1 DEF Made
  <2>3. Flags' /\ Rest'
    BY <2>1 DEF IInv, TypeOK, Flags, Rest
  <2>4. CallsAreCoherent' /\ DedupeIsOwn' /\ LoadingIsBacked'
    BY <2>1, <2>2, UnderWayIs DEF IInv, CallsAreCoherent, DedupeIsOwn, LoadingIsBacked, IsGet
  <2>5. PatchesAreOld' /\ RolledBackIsGone' /\ OneAtATime'
    BY <2>1, <2>2 DEF IInv, PatchesAreOld, RolledBackIsGone, Succeeded, OneAtATime, InQueue
  <2> QED BY <2>3, <2>4, <2>5, TypeHalves DEF IInv
<1> QED BY <1>1, <1>2, <1>3, CallersInv, OptimisticInv, FlagsInv, LifeInv DEF Next

LEMMA InvAlways == Spec => []IInv
BY InitInv, StepInv, PTL DEF Spec
-----------------------------------------------------------------------------
\* The fields of the class Resource and of its signal keep their types.
THEOREM TypeCorrect == Spec => []TypeOK
<1>1. IInv => TypeOK
  BY DEF IInv
<1> QED BY <1>1, InvAlways, PTL

\* _dedupeCache never holds a promise that has settled (resource.ts:153-156).
THEOREM OnlyInFlightIsJoined == Spec => []DedupeIsInFlight
<1>1. IInv => DedupeIsInFlight
  BY DEF IInv, DedupeIsOwn, DedupeIsInFlight
<1> QED BY <1>1, InvAlways, PTL

\* The spinner of a resource is not shown for nothing.
THEOREM SpinnerIsBacked == Spec => []LoadingIsBacked
<1>1. IInv => LoadingIsBacked
  BY DEF IInv
<1> QED BY <1>1, InvAlways, PTL

\* A failed optimistic change is gone for good (_rollbackSnapshot).
THEOREM FailedChangeIsGone == Spec => []NoGhostPatch
<1>1. IInv => NoGhostPatch
  BY DEF IInv, RolledBackIsGone, NoGhostPatch, In, Succeeded
<1> QED BY <1>1, InvAlways, PTL

\* Queued mutations run one at a time, and none is left behind (_processQueue).
THEOREM QueueRunsInOrder == Spec => []QueueInOrder
<1>1. ASSUME IInv PROVE QueueInOrder
  <2>1. Cardinality(InQueue) = IF processing THEN 1 ELSE 0
    <3>1. CASE processing
      BY <1>1, <3>1, FS_Singleton DEF IInv, OneAtATime
    <3>2. CASE ~processing
      BY <1>1, <3>2, FS_EmptySet DEF IInv, OneAtATime
    <3> QED BY <3>1, <3>2
  <2> QED BY <1>1, <2>1 DEF IInv, OneAtATime, QueueInOrder, InQueue
<1> QED BY <1>1, InvAlways, PTL

------------------------------------------------------------------------------
(* In which order answers reach the signal. *)

\* A first attempt that some controller of the resource can still stop.
IsFirst(c) == calls[c].attempt = 0 /\ calls[c].listens # {}

FirstsListen == \A c \in Made : IsFirst(c) => "request" \in calls[c].listens

\* A request stops the one before it, so only the last first attempt fetches.
OnlyLastFetchesFirst == \A c \in In("fetching") : IsFirst(c) => c = Len(calls)

\* Data and snapshots name no request that was not delivered.
Delivered == {0} \cup In("delivered") \cup In("done")
DataIsDelivered ==
  /\ data.from \in Delivered
  /\ \A v \in Calls : snapshots[v].from \in Delivered

Good == {c \in In("answered") : Succeeded(c)}

\* While the good answer to a first attempt is on its way to the signal, no other
\* is, and nothing in the resource is newer.
GoodIsAlone == \A c, d \in Good : c = d
GoodIsNewest ==
  \A c \in Good : IsFirst(c) => data.from <= c /\ \A v \in Calls : snapshots[v].from <= c

OvertakeInv ==
  /\ FirstsListen /\ OnlyLastFetchesFirst /\ DataIsDelivered /\ GoodIsAlone /\ GoodIsNewest
-----------------------------------------------------------------------------
\* The controllers and the attempt of call c are the same, or it is no first
\* attempt any more.
SameOrNotFirst(c) ==
  \/ calls'[c].attempt = calls[c].attempt /\ calls'[c].listens = calls[c].listens
  \/ calls'[c].attempt > 0 \/ calls'[c].listens = {}

LEMMA FromNat ==
  ASSUME IInv
  PROVE  /\ Len(calls) \in Nat /\ Made = 1..Len(calls) /\ Made \subseteq Nat /\ data.from \in Nat
         /\ \A v \in Calls : snapshots[v].from \in Nat
         /\ \A c \in Made : calls[c].attempt \in Nat
<1>1. TypeOK /\ Len(calls) \in Nat /\ Made = 1..Len(calls) /\ \A c \in Made : calls[c] \in Call
  BY MadeFacts DEF IInv
<1>2. data \in Data /\ snapshots \in [Calls -> Data] /\ 0..MaxCalls \subseteq Nat
  BY <1>1, ResourceAssumption DEF TypeOK, ResourceAssumption
<1>3. \A d \in Data : d.from \in Nat
  BY <1>2 DEF Data
<1> QED BY <1>1, <1>2, <1>3, CallFields, ResourceAssumption DEF ResourceAssumption

\* A step of one call.
LEMMA OneCallOrder ==
  ASSUME IInv, OvertakeInv, NEW c \in Made, Changes(c), SameOrNotFirst(c),
         calls[c].state \in {"delivered", "done"} => calls'[c].state \in {"delivered", "done"},
         calls'[c].state = "fetching" => calls'[c].attempt > 0,
         calls'[c].state = "answered" /\ calls'[c].result \in {"ok", "empty"} =>
           /\ Quiet /\ calls[c].state = "fetching"
           /\ calls'[c].attempt = calls[c].attempt /\ calls'[c].listens = calls[c].listens,
         \/ data'.from \in {data.from, 0}
         \/ \E v \in Calls : data'.from = snapshots[v].from
         \/ c \in Good /\ data'.from = c /\ calls'[c].state \in {"delivered", "done"},
         \A v \in Calls : snapshots'[v].from \in {0, snapshots[v].from}
  PROVE  OvertakeInv'
<1>1. FirstsListen'
  BY FromNat DEF OvertakeInv, FirstsListen, IsFirst, Changes, SameOrNotFirst
<1>2. OnlyLastFetchesFirst'
  <2> SUFFICES ASSUME NEW d \in In("fetching")', IsFirst(d)'  PROVE d = Len(calls')
    BY DEF OnlyLastFetchesFirst
  <2>1. Len(calls') = Len(calls)
    BY FromNat DEF Changes
  <2>2. CASE d = c
    <3>1. c \in In("fetching") /\ IsFirst(c)
      BY <2>2 DEF IsFirst, In
    <3> QED BY <2>1, <2>2, <3>1 DEF OvertakeInv, OnlyLastFetchesFirst
  <2>3. CASE d # c
    <3>1. d \in In("fetching") /\ IsFirst(d)
      BY <2>3 DEF IsFirst, In, Changes
    <3> QED BY <2>1, <3>1 DEF OvertakeInv, OnlyLastFetchesFirst
  <2> QED BY <2>2, <2>3
<1>3. Delivered \subseteq Delivered'
  BY DEF Delivered, In, Changes
<1>4. data'.from \in Delivered'
  BY <1>3 DEF OvertakeInv, DataIsDelivered, Delivered, In, Changes
<1>5. DataIsDelivered'
  BY <1>3, <1>4 DEF OvertakeInv, DataIsDelivered, Delivered
<1>6. \A d \in Good' : d = c \/ (d \in Good /\ d # c /\ calls'[d] = calls[d])
  BY DEF Good, In, Changes, Succeeded
<1>7. c \in Good' => Quiet /\ Good = {} /\ c \in In("fetching") /\ calls'[c].attempt = calls[c].attempt
                     /\ calls'[c].listens = calls[c].listens
  BY DEF Good, In, Succeeded, Quiet
<1>8. GoodIsAlone'
  BY <1>6, <1>7 DEF OvertakeInv, GoodIsAlone
<1>9. ASSUME NEW d \in Good', IsFirst(d)'
      PROVE  data'.from <= d /\ \A v \in Calls : snapshots'[v].from <= d
  <2>1. CASE d = c
    <3>1. c = Len(calls) /\ c \in Nat /\ c \notin Good
      BY <1>7, <1>9, <2>1, FromNat DEF OvertakeInv, OnlyLastFetchesFirst, IsFirst
    <3>2. \A x \in Delivered : x \in Nat /\ x <= c
      BY <3>1, FromNat DEF Delivered, In
    <3> QED BY <1>7, <2>1, <3>1, <3>2 DEF OvertakeInv, DataIsDelivered
  <2>2. CASE d # c
    <3>1. d \in Good /\ IsFirst(d) /\ d \in Made
      BY <1>6, <1>9, <2>2 DEF IsFirst, Good, In
    <3>2. data.from <= d /\ 0 <= d /\ \A v \in Calls : snapshots[v].from <= d
      BY <3>1, FromNat DEF OvertakeInv, GoodIsNewest
    <3>3. c \notin Good
      BY <2>2, <3>1 DEF OvertakeInv, GoodIsAlone
    <3> QED BY <3>2, <3>3
  <2> QED BY <2>1, <2>2
<1>10. GoodIsNewest'
  BY <1>9 DEF GoodIsNewest
<1> QED BY <1>1, <1>2, <1>5, <1>8, <1>10 DEF OvertakeInv

\* A new request.
LEMMA AskedOrder ==
  ASSUME IInv, OvertakeInv, NEW cs, \A c \in Made : Carried(cs, c),
         NEW key, NEW force, NEW keep, Asked(cs, key, force, keep),
         data'.from = data.from,
         \A v \in Calls : snapshots'[v].from \in {snapshots[v].from, data.from}
  PROVE  OvertakeInv'
<1> DEFINE n == Len(calls) + 1
<1>1. ASSUME NEW c \in Made
      PROVE  /\ c \in Made' /\ (calls'[c].state # "fetching" \/ "request" \notin calls'[c].listens)
             /\ calls[c].state \in {"delivered", "done"} => calls'[c].state \in {"delivered", "done"}
             /\ calls'[c].state = "answered" =>
                  calls[c].state = "answered" /\ calls'[c].result = calls[c].result
             /\ IsFirst(c)' => IsFirst(c) /\ calls'[c].listens = calls[c].listens
  BY DEF Asked, Carried, Stopped, SameCall, IsFirst
<1>2. ASSUME NEW c \in Made', c \notin Made
      PROVE  /\ c = n /\ c = Len(calls') /\ calls'[c].state \in {"joined", "fetching"}
             /\ calls'[c].listens \in {{}, {"request", "life"}}
  BY <1>2 DEF Asked
<1> HIDE DEF n
<1>3. FirstsListen'
  BY <1>1, <1>2 DEF OvertakeInv, FirstsListen, IsFirst
<1>4. OnlyLastFetchesFirst'
  BY <1>1, <1>2, <1>3 DEF OnlyLastFetchesFirst, FirstsListen, In
<1>5. Delivered \subseteq Delivered'
  BY <1>1 DEF Delivered, In
<1>6. DataIsDelivered'
  BY <1>5 DEF OvertakeInv, DataIsDelivered
<1>7. Good' \subseteq Good
  BY <1>1, <1>2 DEF Good, In, Succeeded
<1>8. \A d \in Good' : IsFirst(d)' => IsFirst(d)
  BY <1>1, <1>7 DEF Good, In
<1>9. GoodIsAlone' /\ GoodIsNewest'
  BY <1>7, <1>8 DEF OvertakeInv, GoodIsAlone, GoodIsNewest
<1> QED BY <1>3, <1>4, <1>6, <1>9 DEF OvertakeInv

\* A step that answers nothing and asks nothing.
LEMMA OtherOrder ==
  ASSUME IInv, OvertakeInv, Made' = Made, Len(calls') = Len(calls),
         \A c \in Made : /\ SameOrNotFirst(c)
                         /\ calls'[c].result = calls[c].result
                         /\ \/ calls'[c].state = calls[c].state /\ (IsFirst(c)' => IsFirst(c))
                            \/ calls[c].state = "fetching" /\ calls'[c].state = "aborting",
         data'.from \in {0, data.from}, snapshots' = snapshots
  PROVE  OvertakeInv'
<1>1. FirstsListen'
  BY FromNat DEF OvertakeInv, FirstsListen, IsFirst, SameOrNotFirst
<1>2. OnlyLastFetchesFirst'
  BY DEF OvertakeInv, OnlyLastFetchesFirst, In
<1>3. Delivered \subseteq Delivered' /\ 0 \in Delivered
  BY DEF Delivered, In
<1>4. DataIsDelivered'
  BY <1>3 DEF OvertakeInv, DataIsDelivered
<1>5. Good' \subseteq Good /\ \A d \in Good' : d \in Nat /\ (IsFirst(d)' => IsFirst(d))
  BY FromNat DEF Good, In, Succeeded
<1>6. GoodIsAlone' /\ GoodIsNewest'
  BY <1>5 DEF OvertakeInv, GoodIsAlone, GoodIsNewest
<1> QED BY <1>1, <1>2, <1>4, <1>6 DEF OvertakeInv
-----------------------------------------------------------------------------
LEMMA NullFrom == Null.from = 0 /\ Undefined.from = 0
BY DEF Null, Undefined

LEMMA InitOrder == Init => OvertakeInv
<1> SUFFICES ASSUME Init PROVE OvertakeInv OBVIOUS
<1>1. Made = {} /\ data = Null /\ \A v \in Calls : snapshots[v] = Undefined
  BY DEF Init, Made
<1> QED BY <1>1, NullFrom DEF OvertakeInv, FirstsListen, OnlyLastFetchesFirst, DataIsDelivered,
                              Delivered, GoodIsAlone, GoodIsNewest, Good, In

LEMMA NetworkOrder ==
  ASSUME IInv, OvertakeInv, NEW c \in Made,
         \/ \E result \in {"ok", "empty"} : Answer(c, result)
         \/ \E why \in {"network", "http"} : Fail(c, why)
         \/ AbortError(c)
  PROVE  OvertakeInv'
<1>1. TypeOK /\ data' = data /\ snapshots' = snapshots /\ calls[c].state \in {"fetching", "aborting"}
  BY DEF IInv, OnlyCalls, signal, Answer, Fail, AbortError, In
<1>2. ASSUME NEW result \in {"ok", "empty", "failed"}, Settle(c, result),
             result # "failed" => Quiet /\ calls[c].state = "fetching"
      PROVE  OvertakeInv'
  <2>1. /\ Changes(c) /\ calls'[c].state = "answered" /\ calls'[c].result = result
        /\ calls'[c].attempt = calls[c].attempt /\ calls'[c].listens = calls[c].listens
    BY <1>1, <1>2, SettleFacts
  <2> QED BY <1>1, <1>2, <2>1, OneCallOrder DEF SameOrNotFirst
<1>3. ASSUME calls' = [calls EXCEPT ![c].state = "sleeping"] PROVE OvertakeInv'
  <2>1. /\ Changes(c) /\ calls'[c].state = "sleeping"
        /\ calls'[c].attempt = calls[c].attempt /\ calls'[c].listens = calls[c].listens
    BY <1>1, <1>3, SleepFacts
  <2> QED BY <1>1, <2>1, OneCallOrder DEF SameOrNotFirst
<1>4. ASSUME NEW result \in {"ok", "empty"}, Answer(c, result) PROVE OvertakeInv'
  BY <1>2, <1>4 DEF Answer, In
<1>5. ASSUME NEW why, Fail(c, why) PROVE OvertakeInv'
  BY <1>2, <1>3, <1>5 DEF Fail
<1>6. ASSUME AbortError(c) PROVE OvertakeInv'
  BY <1>2, <1>6 DEF AbortError
<1> QED BY <1>4, <1>5, <1>6

LEMMA RetryOrder == ASSUME IInv, OvertakeInv, NEW c \in Made, Retry(c) PROVE OvertakeInv'
<1>1. /\ TypeOK /\ data' = data /\ snapshots' = snapshots
      /\ calls[c].state = "sleeping" /\ calls[c].attempt < MaxRetries
  BY DEF IInv, OnlyCalls, signal, Retry, In, CallsAreCoherent
<1>2. Changes(c) /\ calls'[c].state \in {"fetching", "aborting"} /\ calls'[c].attempt > 0
  BY <1>1, RetryFacts
<1> QED BY <1>1, <1>2, OneCallOrder DEF SameOrNotFirst

\* The answer of call c enters the signal, or nothing does.
LEMMA DeliverFrom ==
  ASSUME IInv, NEW c \in Made, Deliver(c)
  PROVE  data'.from = data.from \/ (c \in Good /\ data'.from = c)
<1>1. data' = data \/ (calls[c].result = "ok" /\ data' = AnswerOf(c))
  BY DEF Deliver, signal
<1> QED BY <1>1, AnswerType DEF IInv, Good, In, Deliver, Succeeded

LEMMA DeliverOrder == ASSUME IInv, OvertakeInv, NEW c \in Made, Deliver(c) PROVE OvertakeInv'
<1>1. /\ snapshots' = snapshots
      /\ Changes(c) /\ calls[c].state = "answered" /\ calls'[c].state \in {"delivered", "done"}
  BY DeliverFacts DEF IInv, Deliver
<1>2. SameOrNotFirst(c)
  <2>1. CASE calls[c].keep = "nobody"
    <3>1. calls' = [calls EXCEPT ![c] = Over(c, calls[c].result)] /\ TypeOK
          /\ calls[c].result \in {"none", "ok", "empty", "failed"}
      BY <2>1, MadeFacts, CallFields DEF Deliver, IInv
    <3> QED BY <3>1, OverFacts DEF SameOrNotFirst
  <2>2. CASE calls[c].keep # "nobody"
    <3>1. calls' = [calls EXCEPT ![c] = [@ EXCEPT !.state = "delivered"]] /\ TypeOK
      BY <2>2 DEF Deliver, IInv
    <3> QED BY <3>1, DeliveredFacts DEF SameOrNotFirst
  <2> QED BY <2>1, <2>2
<1> QED BY <1>1, <1>2, DeliverFrom, OneCallOrder

\* A caller that gets its result ends the call.
LEMMA FinishedOrder ==
  ASSUME IInv, OvertakeInv, NEW c \in Made, Resumes(c), calls' = Finished(c),
         data'.from = data.from \/ \E v \in Calls : data'.from = snapshots[v].from,
         \A v \in Calls : snapshots'[v].from \in {0, snapshots[v].from}
  PROVE  OvertakeInv'
<1>1. Changes(c) /\ calls'[c].state = "done" /\ calls'[c].listens = {}
  BY FinishedFacts
<1> QED BY <1>1, OneCallOrder DEF SameOrNotFirst

LEMMA CallerOrder ==
  ASSUME IInv, OvertakeInv, NEW c \in Made, Rollback(c) \/ Finalize(c) \/ JoinedReturns(c)
  PROVE  OvertakeInv'
<1>1. c \in Calls /\ Resumes(c) /\ calls' = Finished(c) /\ data \in Data /\ snapshots \in [Calls -> Data]
  BY MadeFacts DEF IInv, Rollback, Finalize, JoinedReturns, TypeOK
<1>2. CASE Rollback(c)
  <2>1. data' = data \/ data' = snapshots[c]
    BY <1>2 DEF Rollback
  <2>2. \A v \in Calls : snapshots'[v] \in {Undefined, snapshots[v]}
    BY <1>2 DEF Rollback, Surviving
  <2> QED BY <1>1, <2>1, <2>2, NullFrom, FinishedOrder
<1>3. CASE Finalize(c)
  <2>1. data' = data \/ data' = [data EXCEPT !.patches = @ \ {c}]
    BY <1>3 DEF Finalize
  <2>2. data'.from = data.from
    BY <1>1, <2>1 DEF Data
  <2>3. \A v \in Calls : snapshots'[v] \in {Undefined, snapshots[v]}
    BY <1>1, <1>3 DEF Finalize
  <2> QED BY <1>1, <2>2, <2>3, NullFrom, FinishedOrder
<1>4. CASE JoinedReturns(c)
  <2>1. data' = data /\ snapshots' = snapshots
    BY <1>4 DEF JoinedReturns, OnlyCalls, signal
  <2> QED BY <1>1, <2>1, FinishedOrder
<1> QED BY <1>2, <1>3, <1>4

LEMMA QueueOrder == ASSUME IInv, OvertakeInv, NEW c \in Made, QueueStep(c) PROVE OvertakeInv'
<1>1. /\ TypeOK /\ Resumes(c) /\ calls[c].keep = "queue" /\ "update" \in Ops
      /\ data' = data /\ snapshots' = snapshots
  BY DEF IInv, QueueStep, CallsAreCoherent
<1>2. CASE QueueGoesOn(c)
  <2>1. PICK b \in Bodies : request(Finished(c), <<"update", b>>, FALSE, "queue")
    BY <1>2 DEF QueueStep
  <2>2. Len(calls) < MaxCalls /\ <<"update", b>> \in Keys
    BY <1>1, <1>2, MadeFacts, KeyFacts, ResourceAssumption DEF QueueGoesOn, TypeOK, ResourceAssumption
  <2>3. /\ Finished(c) \in Seq(Call) /\ Len(Finished(c)) = Len(calls)
        /\ \A d \in Made : Carried(Finished(c), d)
    BY <1>1, CarriedFinished
  <2> DEFINE key == <<"update", b>>
             cs == Finished(c)
  <2> HIDE DEF key, cs
  <2>4. Asked(cs, key, FALSE, "queue")
    BY <1>1, <2>1, <2>2, <2>3, RequestFacts DEF IInv, key, cs
  <2> QED BY <1>1, <2>3, <2>4, AskedOrder DEF cs
<1>3. CASE ~QueueGoesOn(c)
  BY <1>1, <1>3, FinishedOrder DEF QueueStep
<1> QED BY <1>2, <1>3

\* A request made from the calls as they are.
LEMMA RequestOrder ==
  ASSUME IInv, OvertakeInv, HasRoom, NEW key \in Keys, NEW force,
         NEW keep \in {"nobody", "optimistic", "queue"}, request(calls, key, force, keep),
         data'.from = data.from,
         \A v \in Calls : snapshots'[v].from \in {snapshots[v].from, data.from}
  PROVE  OvertakeInv'
<1>1. TypeOK /\ Len(calls) < MaxCalls /\ calls \in Seq(Call) /\ \A c \in Made : Carried(calls, c)
  BY RoomFacts DEF IInv, TypeOK, Carried
<1>2. Asked(calls, key, force, keep)
  BY <1>1, RequestFacts DEF IInv
<1> QED BY <1>1, <1>2, AskedOrder

LEMMA AskersOrder ==
  ASSUME IInv, OvertakeInv,
         \/ \E force \in BOOLEAN : list(force)
         \/ \E op \in Ops, b \in Bodies : mutate(op, b) \/ mutateOptimistic(op, b)
         \/ "update" \in Ops /\ \E b \in Bodies : enqueueMutation(b) /\ ~processing
         \/ Refresh
  PROVE  OvertakeInv'
<1>1. CASE \E force \in BOOLEAN : list(force)
  BY <1>1, KeyFacts, RequestOrder DEF list
<1>2. ASSUME NEW op \in Ops, NEW b \in Bodies, mutate(op, b) PROVE OvertakeInv'
  BY <1>2, KeyFacts, RequestOrder DEF mutate
<1>3. ASSUME NEW op \in Ops, NEW b \in Bodies, mutateOptimistic(op, b) PROVE OvertakeInv'
  <2>1. data \in Data /\ snapshots \in [Calls -> Data]
    BY DEF IInv, TypeOK
  <2>2. data' = data \/ data' = [data EXCEPT !.patches = @ \cup {Len(calls) + 1}]
    BY <1>3 DEF mutateOptimistic
  <2>3. data'.from = data.from
    BY <2>1, <2>2 DEF Data
  <2>4. \A v \in Calls : snapshots'[v] \in {snapshots[v], data}
    BY <1>3, <2>1 DEF mutateOptimistic
  <2>5. HasRoom /\ request(calls, <<op, b>>, FALSE, "optimistic")
    BY <1>3 DEF mutateOptimistic
  <2> QED BY <2>3, <2>4, <2>5, KeyFacts, RequestOrder
<1>4. ASSUME "update" \in Ops, NEW b \in Bodies, enqueueMutation(b), ~processing PROVE OvertakeInv'
  BY <1>4, KeyFacts, RequestOrder DEF enqueueMutation
<1>5. CASE Refresh
  BY <1>5, KeyFacts, RequestOrder DEF Refresh
<1> QED BY <1>1, <1>2, <1>3, <1>4, <1>5

\* The steps that leave the calls alone.
LEMMA FlagsOrder ==
  ASSUME IInv, OvertakeInv, UNCHANGED <<calls, snapshots>>, data'.from \in {0, data.from}
  PROVE  OvertakeInv'
BY OtherOrder DEF SameOrNotFirst, Made, IsFirst

LEMMA LifeOrder == ASSUME IInv, OvertakeInv, reset \/ dispose PROVE OvertakeInv'
<1>1. data'.from = 0 /\ snapshots' = snapshots
  BY NullFrom DEF reset, dispose, Emptied
<1>2. CASE reset
  BY <1>1, <1>2, ResetFacts, OtherOrder DEF IInv, SameOrNotFirst, IsFirst
<1>3. CASE dispose
  BY <1>1, <1>3, DisposeFacts, OtherOrder DEF IInv, SameOrNotFirst, IsFirst
<1> QED BY <1>2, <1>3

LEMMA StepOrder == IInv /\ OvertakeInv /\ [Next]_vars => OvertakeInv'
<1> SUFFICES ASSUME IInv, OvertakeInv, [Next]_vars PROVE OvertakeInv' OBVIOUS
<1>1. ASSUME NEW c \in Made,
             \/ \E result \in {"ok", "empty"} : Answer(c, result)
             \/ \E why \in {"network", "http"} : Fail(c, why)
             \/ AbortError(c) \/ Retry(c) \/ Deliver(c)
             \/ Rollback(c) \/ Finalize(c) \/ JoinedReturns(c) \/ QueueStep(c)
      PROVE  OvertakeInv'
  BY <1>1, NetworkOrder, RetryOrder, DeliverOrder, CallerOrder, QueueOrder
<1>2. ASSUME NEW b \in Bodies, enqueueMutation(b), processing PROVE OvertakeInv'
  BY <1>2, FlagsOrder DEF enqueueMutation
<1>3. ASSUME invalidate \/ setData \/ GetsOld \/ startAutoRefresh \/ stopAutoRefresh \/ UNCHANGED vars
      PROVE  OvertakeInv'
  BY <1>3, NullFrom, FlagsOrder
     DEF invalidate, setData, GetsOld, startAutoRefresh, stopAutoRefresh, vars, signal, Null
<1> QED BY <1>1, <1>2, <1>3, AskersOrder, LifeOrder DEF Next
-----------------------------------------------------------------------------
\* Where the data of a step can be from.
LEMMA FromStep ==
  ASSUME IInv, [Next]_vars
  PROVE  \/ data'.from \in {0, data.from}
         \/ \E v \in Calls : data'.from = snapshots[v].from
         \/ data'.from \in Good
<1>1. data \in Data /\ Made \subseteq Calls
  BY MadeFacts DEF IInv, TypeOK
<1>2. \A p : [data EXCEPT !.patches = p].from = data.from
  BY <1>1 DEF Data
<1>3. ASSUME NEW c \in Made,
             \/ \E result \in {"ok", "empty"} : Answer(c, result)
             \/ \E why \in {"network", "http"} : Fail(c, why)
             \/ AbortError(c) \/ Retry(c) \/ JoinedReturns(c) \/ QueueStep(c)
      PROVE  data' = data
  BY <1>3 DEF Answer, Fail, AbortError, Retry, JoinedReturns, QueueStep, OnlyCalls, signal
<1>4. ASSUME NEW c \in Made, Rollback(c)
      PROVE  data' = data \/ \E v \in Calls : data' = snapshots[v]
  BY <1>1, <1>4 DEF Rollback
<1>5. ASSUME NEW c \in Made, Finalize(c)
      PROVE  data' = data \/ \E p : data' = [data EXCEPT !.patches = p]
  BY <1>5 DEF Finalize
<1>6. ASSUME NEW op, NEW b, mutateOptimistic(op, b)
      PROVE  data' = data \/ \E p : data' = [data EXCEPT !.patches = p]
  BY <1>6 DEF mutateOptimistic
<1>7. ASSUME \/ \E force \in BOOLEAN : list(force)
             \/ \E op \in Ops, b \in Bodies : mutate(op, b)
             \/ \E b \in Bodies : enqueueMutation(b)
             \/ invalidate \/ GetsOld \/ startAutoRefresh \/ stopAutoRefresh \/ Refresh
             \/ UNCHANGED vars
      PROVE  data' = data
  BY <1>7 DEF list, mutate, enqueueMutation, invalidate, GetsOld, startAutoRefresh,
              stopAutoRefresh, Refresh, vars, signal
<1>8. ASSUME setData \/ reset \/ dispose PROVE data'.from = 0
  BY <1>8, NullFrom DEF setData, reset, dispose, Emptied, Null
<1>9. ASSUME NEW c \in Made, Deliver(c) PROVE data'.from = data.from \/ data'.from \in Good
  BY <1>9, DeliverFrom
<1> QED BY <1>2, <1>3, <1>4, <1>5, <1>6, <1>7, <1>8, <1>9 DEF Next

LEMMA StepOvertakes ==
  ASSUME IInv, OvertakeInv, [Next]_vars, NEW c \in Made, Overwrites(c)
  PROVE  calls[c].attempt > 0 \/ calls[c].listens = {}
<1> SUFFICES ASSUME IsFirst(c) PROVE FALSE
  BY FromNat DEF IsFirst
<1>1. calls[c].state = "answered" /\ data'.from = c /\ data.from > c /\ c \in Nat /\ c # 0
  BY FromNat DEF Overwrites
<1>2. c \notin Delivered
  BY <1>1 DEF Delivered, In
<1>3. c # data.from /\ \A v \in Calls : c # snapshots[v].from
  BY <1>2 DEF OvertakeInv, DataIsDelivered
<1>4. c \in Good
  BY <1>1, <1>3, FromStep
<1> QED BY <1>1, <1>4, FromNat DEF OvertakeInv, GoodIsNewest

LEMMA OvertakeAlways == Spec => [](IInv /\ OvertakeInv)
<1>1. Init => IInv /\ OvertakeInv
  BY InitInv, InitOrder
<1>2. (IInv /\ OvertakeInv) /\ [Next]_vars => (IInv /\ OvertakeInv)'
  BY StepInv, StepOrder
<1> QED BY <1>1, <1>2, PTL DEF Spec

\* An older answer replaces a newer one (resource.ts, _request after its await)
\* only if the older request was waiting for its retry when it should have been
\* aborted, or a reset lost sight of it: for any number of calls and retries.
THEOREM OnlyRetriesMayOvertake == Spec => OnlyRetriesOvertake
<1>1. (IInv /\ OvertakeInv) /\ [Next]_vars =>
        [\A c \in Made : Overwrites(c) => calls[c].attempt > 0 \/ calls[c].listens = {}]_vars
  BY StepOvertakes
<1> QED BY <1>1, OvertakeAlways, PTL DEF Spec, OnlyRetriesOvertake
=============================================================================
