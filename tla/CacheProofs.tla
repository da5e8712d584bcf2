----------------------------- MODULE CacheProofs -----------------------------
(***************************************************************************)
(* Proofs about Cache: a key has one load on its way, a load commits       *)
(* nothing once its key was changed, and the books balance: the order, the *)
(* tag index and the byte count are three views of the entries, and no     *)
(* more entries are kept than the bound allows.                            *)
(*                                                                         *)
(* The order is filtered and the bytes are summed by recursive functions.  *)
(* What these compute is proved by the least counterexample (Least), from  *)
(* the well-foundedness of the numbers.                                    *)
(***************************************************************************)
EXTENDS Cache, FiniteSetTheorems, WellFoundedInduction, TLAPS

-----------------------------------------------------------------------------
(* Loads. *)

\* What becomes of the fields of a load, and of the loads by a change of the
\* keys ks, a clear, a new load and the end of one.
Like(q, r) ==
  /\ DOMAIN q = DOMAIN r /\ q.kind = r.kind /\ q.key = r.key /\ q.options = r.options
  /\ q.value = r.value /\ q.s0 = r.s0

LoadOK(r) ==
  /\ DOMAIN r = DOMAIN Idle
  /\ r.kind \in {"sync", "async"} => r.key \in Keys /\ r.options \in Options
  /\ r.kind = "sync" => r.value \in Values

LoadsOK == DOMAIN loads = Loads /\ \A l \in Loads : LoadOK(loads[l])

\* The slot of a key and the loads of the key know of each other: the slot's load
\* is one of them, and all others were forgotten.
PendingInv ==
  /\ pending \in [Keys -> Loads \cup {None}]
  /\ \A k \in Keys : pending[k] # None => InFlight(pending[k]) /\ loads[pending[k]].key = k
  /\ \A l \in Loads : InFlight(l) /\ ~loads[l].forgotten => pending[loads[l].key] = l

LoadInv == LoadsOK /\ PendingInv

\* Every load stays or ends, none is new, and the slots of those that end are free.
LoadsLike ==
  /\ DOMAIN loads' = Loads
  /\ \A l \in Loads : Like(loads'[l], loads[l]) /\ (loads[l].forgotten => loads'[l].forgotten)

LEMMA LikeKeeps ==
  ASSUME LoadInv, LoadsLike,
         \/ pending' = pending
         \/ pending' = [k \in Keys |-> None] /\ \A l \in Loads : InFlight(l) => loads'[l].forgotten
  PROVE  LoadInv'
<1>1. \A l \in Loads : /\ loads'[l].kind = loads[l].kind /\ loads'[l].key = loads[l].key
                       /\ loads[l].forgotten => loads'[l].forgotten
  BY DEF LoadsLike, Like
<1>2. LoadsOK'
  BY DEF LoadInv, LoadsOK, LoadsLike, Like, LoadOK
<1>3. PendingInv'
  BY <1>1 DEF LoadInv, PendingInv, InFlight
<1> QED BY <1>2, <1>3 DEF LoadInv

LEMMA VoidIsLike ==
  ASSUME LoadInv, NEW ks, Void(ks)
  PROVE  /\ LoadsLike
         /\ \A l \in Loads : /\ loads'[l].forgotten = loads[l].forgotten
                             /\ loads'[l].shared = loads[l].shared
                             /\ ~(InFlight(l) /\ loads[l].key \in ks) => loads'[l] = loads[l]
<1>1. DOMAIN loads' = Loads
  BY DEF Void
<1>2. ASSUME NEW l \in Loads
      PROVE  /\ Like(loads'[l], loads[l])
             /\ loads'[l].forgotten = loads[l].forgotten
             /\ loads'[l].shared = loads[l].shared
             /\ ~(InFlight(l) /\ loads[l].key \in ks) => loads'[l] = loads[l]
  <2>1. loads'[l] = IF InFlight(l) /\ loads[l].key \in ks
                    THEN [loads[l] EXCEPT !.voided = TRUE] ELSE loads[l]
    BY DEF Void
  <2>2. DOMAIN loads[l] = DOMAIN Idle
    BY DEF LoadInv, LoadsOK, LoadOK
  <2> QED BY <2>1, <2>2 DEF Like, Idle
<1> QED BY <1>1, <1>2 DEF LoadsLike

LEMMA ForgetIsLike ==
  ASSUME LoadInv, Forget
  PROVE  /\ LoadsLike
         /\ \A l \in Loads : /\ loads'[l].voided = loads[l].voided /\ loads'[l].shared = loads[l].shared
                             /\ InFlight(l) => loads'[l].forgotten
<1>1. DOMAIN loads' = Loads
  BY DEF Forget
<1>2. ASSUME NEW l \in Loads
      PROVE  /\ Like(loads'[l], loads[l]) /\ (loads[l].forgotten => loads'[l].forgotten)
             /\ loads'[l].voided = loads[l].voided /\ loads'[l].shared = loads[l].shared
             /\ InFlight(l) => loads'[l].forgotten
  <2>1. loads'[l] = IF InFlight(l) THEN [loads[l] EXCEPT !.forgotten = TRUE] ELSE loads[l]
    BY DEF Forget
  <2>2. DOMAIN loads[l] = DOMAIN Idle
    BY DEF LoadInv, LoadsOK, LoadOK
  <2> QED BY <2>1, <2>2 DEF Like, Idle
<1> QED BY <1>1, <1>2 DEF LoadsLike

Started(l, k, o, kind, v) ==
  /\ l \in Loads /\ loads[l].kind = "none"
  /\ pending' = [pending EXCEPT ![k] = l]
  /\ DOMAIN loads' = Loads
  /\ LoadOK(loads'[l]) /\ loads'[l].kind = kind /\ loads'[l].key = k /\ loads'[l].s0 = table'.bumps[k]
  /\ ~loads'[l].voided /\ ~loads'[l].forgotten /\ (loads'[l].shared <=> InFlightOf(k) # {})
  /\ \A m \in Loads \ {l} : /\ Like(loads'[m], loads[m])
                            /\ loads'[m].voided = loads[m].voided
                            /\ loads'[m].forgotten = loads[m].forgotten
                            /\ m \in InFlightOf(k) => loads'[m].shared
                            /\ m \notin InFlightOf(k) => loads'[m].shared = loads[m].shared

\* The load that starts, and what the others are told of it.
LEMMA StartedLoad ==
  ASSUME LoadInv, NEW k \in Keys, NEW o \in Options, NEW kind \in {"sync", "async"}, NEW v,
         kind = "sync" => v \in Values, startLoad(k, o, kind, v)
  PROVE  \E l : Started(l, k, o, kind, v)
<1> DEFINE l == CHOOSE m \in Unused : TRUE
           new == [key |-> k, kind |-> kind, value |-> v, options |-> o, s0 |-> table'.bumps[k],
                   voided |-> FALSE, forgotten |-> FALSE, shared |-> InFlightOf(k) # {}]
<1>1. l \in Unused
  BY DEF startLoad
<1>2. l \in Loads /\ loads[l].kind = "none"
  BY <1>1 DEF Unused
<1>3. /\ pending' = [pending EXCEPT ![k] = l]
      /\ loads' = [m \in Loads |->
           CASE m = l -> new
             [] m \in InFlightOf(k) -> [loads[m] EXCEPT !.shared = TRUE]
             [] OTHER -> loads[m]]
  BY DEF startLoad
<1>4. /\ LoadOK(new) /\ new.kind = kind /\ new.key = k /\ new.s0 = table'.bumps[k]
      /\ ~new.voided /\ ~new.forgotten /\ (new.shared <=> InFlightOf(k) # {})
  BY DEF LoadOK, Idle
<1> HIDE DEF l, new
<1>5. l \notin InFlightOf(k)
  BY <1>2 DEF InFlightOf, InFlight
<1>6. DOMAIN loads' = Loads /\ loads'[l] = new
  <2>1. DOMAIN loads' = Loads
    BY <1>3
  <2>2. loads'[l] = new
    BY <1>2, <1>3, <1>5
  <2> QED BY <2>1, <2>2
<1>7. ASSUME NEW m \in Loads \ {l}
      PROVE  /\ Like(loads'[m], loads[m])
             /\ loads'[m].voided = loads[m].voided
             /\ loads'[m].forgotten = loads[m].forgotten
             /\ m \in InFlightOf(k) => loads'[m].shared
             /\ m \notin InFlightOf(k) => loads'[m].shared = loads[m].shared
  <2>1. loads'[m] = IF m \in InFlightOf(k) THEN [loads[m] EXCEPT !.shared = TRUE] ELSE loads[m]
    BY <1>3
  <2>2. DOMAIN loads[m] = DOMAIN Idle
    BY DEF LoadInv, LoadsOK, LoadOK
  <2> QED BY <2>1, <2>2 DEF Like, Idle
<1>8. Started(l, k, o, kind, v)
  BY <1>2, <1>3, <1>4, <1>6, <1>7 DEF Started
<1> QED BY <1>8

LEMMA StartKeeps ==
  ASSUME LoadInv, NEW k \in Keys, NEW o, NEW kind \in {"sync", "async"}, NEW v, NEW l,
         pending[k] = None, Started(l, k, o, kind, v)
  PROVE  LoadInv'
<1>0. None \notin Loads /\ l \in Loads
  BY CacheAssumption DEF Loads, Started
<1>1. LoadsOK'
  <2>1. ASSUME NEW m \in Loads \ {l} PROVE LoadOK(loads'[m])
    BY DEF LoadInv, LoadsOK, LoadOK, Started, Like
  <2> QED BY <2>1 DEF LoadsOK, Started
<1>2. /\ pending' = [pending EXCEPT ![k] = l] /\ pending \in [Keys -> Loads \cup {None}]
      /\ loads[l].kind = "none" /\ loads'[l].kind = kind /\ loads'[l].key = k
      /\ \A m \in Loads \ {l} : /\ loads'[m].kind = loads[m].kind /\ loads'[m].key = loads[m].key
                                /\ loads'[m].forgotten = loads[m].forgotten
  BY DEF Started, Like, LoadInv, PendingInv
<1>3. PendingInv'
  <2>1. pending' \in [Keys -> Loads \cup {None}]
    BY <1>0, <1>2
  <2>2. ASSUME NEW x \in Keys, pending'[x] # None
        PROVE  loads'[pending'[x]].kind \in {"sync", "async"} /\ loads'[pending'[x]].key = x
    <3>1. CASE x = k
      BY <1>2, <3>1
    <3>2. CASE x # k
      <4>1. /\ pending'[x] = pending[x] /\ pending[x] \in Loads /\ loads[pending[x]].key = x
            /\ loads[pending[x]].kind \in {"sync", "async"}
        BY <1>2, <2>2, <3>2 DEF LoadInv, PendingInv, InFlight
      <4> QED BY <1>2, <4>1
    <3> QED BY <3>1, <3>2
  <2>3. ASSUME NEW m \in Loads, loads'[m].kind \in {"sync", "async"}, ~loads'[m].forgotten
        PROVE  pending'[loads'[m].key] = m
    <3>1. CASE m = l
      BY <1>2, <3>1
    <3>2. CASE m # l
      <4>1. loads[m].kind \in {"sync", "async"} /\ ~loads[m].forgotten
        BY <1>2, <2>3, <3>2
      <4>2. pending[loads[m].key] = m /\ loads[m].key \in Keys
        BY <4>1 DEF LoadInv, PendingInv, LoadsOK, LoadOK, InFlight
      <4> QED BY <1>0, <1>2, <3>2, <4>2
    <3> QED BY <3>1, <3>2
  <2> QED BY <2>1, <2>2, <2>3 DEF PendingInv, InFlight
<1> QED BY <1>1, <1>3 DEF LoadInv

\* A load that ended, whose slot is free again.
LEMMA DoneKeeps ==
  ASSUME LoadInv, NEW l \in Loads, InFlight(l), Done(l), pending' = Released(l)
  PROVE  LoadInv' /\ loads'[l].kind = "done" /\ \A m \in Loads \ {l} : loads'[m] = loads[m]
<1>0. None \notin Loads
  BY CacheAssumption DEF Loads
<1>1. /\ DOMAIN loads' = Loads /\ \A m \in Loads \ {l} : loads'[m] = loads[m]
      /\ DOMAIN loads'[l] = DOMAIN Idle /\ loads'[l].kind = "done"
  BY DEF Done, LoadInv, LoadsOK, LoadOK, Idle
<1>2. LoadsOK'
  BY <1>1 DEF LoadInv, LoadsOK, LoadOK
<1>3. pending' = [k \in Keys |-> IF pending[k] = l THEN None ELSE pending[k]]
      /\ pending \in [Keys -> Loads \cup {None}]
  BY DEF Released, LoadInv, PendingInv
<1>4. PendingInv'
  <2>1. pending' \in [Keys -> Loads \cup {None}]
    BY <1>3
  <2>2. ASSUME NEW x \in Keys, pending'[x] # None
        PROVE  loads'[pending'[x]].kind \in {"sync", "async"} /\ loads'[pending'[x]].key = x
    <3>1. /\ pending'[x] = pending[x] /\ pending[x] \in Loads \ {l} /\ loads[pending[x]].key = x
          /\ loads[pending[x]].kind \in {"sync", "async"}
      BY <1>3, <2>2 DEF LoadInv, PendingInv, InFlight
    <3> QED BY <1>1, <3>1
  <2>3. ASSUME NEW m \in Loads, loads'[m].kind \in {"sync", "async"}, ~loads'[m].forgotten
        PROVE  pending'[loads'[m].key] = m
    <3>1. m # l /\ loads'[m] = loads[m]
      BY <1>1, <2>3
    <3>2. pending[loads[m].key] = m /\ loads[m].key \in Keys
      BY <2>3, <3>1 DEF LoadInv, PendingInv, LoadsOK, LoadOK, InFlight
    <3> QED BY <1>3, <3>1, <3>2
  <2> QED BY <2>1, <2>2, <2>3 DEF PendingInv, InFlight
<1> QED BY <1>1, <1>2, <1>4 DEF LoadInv

LEMMA LoadsUnchanged ==
  ASSUME LoadInv, UNCHANGED <<loads, pending>>
  PROVE  LoadInv'
BY DEF LoadInv, LoadsOK, PendingInv, InFlight

LEMMA LoadNext ==
  ASSUME LoadInv, [Next]_vars
  PROVE  LoadInv'
<1>1. CASE UNCHANGED <<loads, pending>>
  BY <1>1, LoadsUnchanged
<1>2. ASSUME NEW ks, Void(ks), pending' = pending PROVE LoadInv'
  BY <1>2, VoidIsLike, LikeKeeps
<1>3. CASE Tick \/ Sweep \/ UNCHANGED vars
  BY <1>1, <1>3 DEF Tick, Sweep, vars
<1>4. CASE clear
  BY <1>4, ForgetIsLike, LikeKeeps DEF clear
<1>5. CASE dispose
  BY <1>5, ForgetIsLike, LikeKeeps DEF dispose
<1>6. ASSUME NEW k \in Keys, get(k) \/ peek(k) \/ getOrLoadWithoutLoad(k) PROVE LoadInv'
  BY <1>1, <1>6 DEF get, peek, getOrLoadWithoutLoad
<1>7. ASSUME NEW k \in Keys, delete(k) PROVE LoadInv'
  BY <1>2, <1>7 DEF delete
<1>8. ASSUME NEW k \in Keys, NEW v \in Values, revalidate(k, v) PROVE LoadInv'
  <2>1. pending' = pending /\ (UNCHANGED loads \/ Void({k}))
    BY <1>8 DEF revalidate
  <2> QED BY <1>1, <1>2, <2>1
<1>9. ASSUME NEW k \in Keys, NEW v \in Values, NEW o \in Options, set(k, v, o) PROVE LoadInv'
  BY <1>2, <1>9 DEF set
<1>10. ASSUME NEW t \in Tags, invalidateTag(t) PROVE LoadInv'
  BY <1>2, <1>10 DEF invalidateTag
<1>11. ASSUME NEW ks \in SUBSET Keys, invalidateWhere(ks) PROVE LoadInv'
  BY <1>2, <1>11 DEF invalidateWhere
<1>12. ASSUME NEW k \in Keys, NEW o \in Options, getOrLoad(k, o, "async", 0) PROVE LoadInv'
  <2>1. pending[k] = None /\ startLoad(k, o, "async", 0)
    BY <1>12 DEF getOrLoad, NeedsLoad
  <2>2. PICK l : Started(l, k, o, "async", 0)
    BY <2>1, StartedLoad
  <2> QED BY <2>1, <2>2, StartKeeps
<1>13. ASSUME NEW k \in Keys, NEW o \in Options, NEW v \in Values, getOrLoad(k, o, "sync", v)
       PROVE  LoadInv'
  <2>1. pending[k] = None /\ startLoad(k, o, "sync", v)
    BY <1>13 DEF getOrLoad, NeedsLoad
  <2>2. PICK l : Started(l, k, o, "sync", v)
    BY <2>1, StartedLoad
  <2> QED BY <2>1, <2>2, StartKeeps
<1>14. ASSUME NEW l \in Loads, CommitSync(l) PROVE LoadInv'
  BY <1>14, DoneKeeps DEF CommitSync, InFlight
<1>15. ASSUME NEW l \in Loads, Reject(l) PROVE LoadInv'
  BY <1>15, DoneKeeps DEF Reject, InFlight
<1>16. ASSUME NEW l \in Loads, NEW v \in Values, Resolve(l, v) PROVE LoadInv'
  BY <1>16, DoneKeeps DEF Resolve, InFlight
<1> QED BY <1>3, <1>4, <1>5, <1>6, <1>7, <1>8, <1>9, <1>10, <1>11, <1>12, <1>13, <1>14, <1>15, <1>16
        DEF Next

LEMMA LoadAlways == Spec => []LoadInv
<1>1. Init => LoadInv
  <2> SUFFICES ASSUME Init PROVE LoadInv
    OBVIOUS
  <2>1. \A l \in Loads : loads[l] = Idle /\ ~InFlight(l)
    BY DEF Init, InFlight, Idle
  <2>2. LoadsOK
    BY <2>1 DEF Init, LoadsOK, LoadOK, Idle
  <2>3. PendingInv
    BY <2>1 DEF Init, PendingInv
  <2> QED BY <2>2, <2>3 DEF LoadInv
<1>2. LoadInv /\ [Next]_vars => LoadInv'
  BY LoadNext
<1> QED BY <1>1, <1>2, PTL DEF Spec

\* cache.ts:240-312: a key has at most one load that clear did not forget, and
\* the load its callers wait for is on its way.
THEOREM OneLoadPerKey == Spec => []LoadsAreSingle
<1>1. LoadInv => LoadsAreSingle
  <2> SUFFICES ASSUME LoadInv, NEW k \in Keys
               PROVE  /\ Cardinality({l \in InFlightOf(k) : ~loads[l].forgotten}) <= 1
                      /\ pending[k] # None => pending[k] \in InFlightOf(k)
    BY DEF LoadsAreSingle, SingleFlight, PendingIsInFlight
  <2>1. {l \in InFlightOf(k) : ~loads[l].forgotten} \subseteq {pending[k]}
    BY DEF LoadInv, PendingInv, InFlightOf
  <2>2. IsFiniteSet({pending[k]}) /\ Cardinality({pending[k]}) = 1
    BY FS_Singleton
  <2>3. Cardinality({l \in InFlightOf(k) : ~loads[l].forgotten}) <= 1
    BY <2>1, <2>2, FS_Subset
  <2>4. pending[k] # None => pending[k] \in InFlightOf(k)
    BY DEF LoadInv, PendingInv, InFlightOf
  <2> QED BY <2>3, <2>4
<1> QED BY <1>1, LoadAlways, PTL
-----------------------------------------------------------------------------
(* Tables. *)

\* The tag index holds the keys of the entries that have the tag, which is what is
\* needed of a table to tell when its counters go up.
TableOK(tbl) ==
  /\ DOMAIN tbl = {"order", "entry", "index", "bytes", "bumps"}
  /\ tbl.entry \in [Keys -> Entry \cup {None}]
  /\ tbl.index \in [Tags -> SUBSET Keys]
  /\ tbl.bumps \in [Keys -> Nat]
  /\ \A t \in Tags, k \in Keys :
       k \in tbl.index[t] <=> tbl.entry[k] # None /\ t \in tbl.entry[k].tags

\* The table new is what an operation makes of the table tbl.
Grows(tbl, new) == TableOK(new) /\ \A k \in Keys : tbl.bumps[k] <= new.bumps[k]

\* The counters of those of the keys ks that are loading went up.
Raised(tbl, new, ks, waiting) ==
  \A k \in ks \cap Keys : waiting[k] # None => tbl.bumps[k] < new.bumps[k]

LEMMA GrowsTwice ==
  ASSUME NEW t1, NEW t2, NEW t3, TableOK(t1), Grows(t1, t2), Grows(t2, t3)
  PROVE  /\ Grows(t1, t3)
         /\ \A ks, waiting : Raised(t1, t2, ks, waiting) \/ Raised(t2, t3, ks, waiting)
                               => Raised(t1, t3, ks, waiting)
<1>1. \A k \in Keys : t1.bumps[k] \in Nat /\ t2.bumps[k] \in Nat /\ t3.bumps[k] \in Nat
  BY DEF Grows, TableOK
<1> QED BY <1>1 DEF Grows, Raised

LEMMA BumpGrows ==
  ASSUME NEW tbl, TableOK(tbl), NEW ks, NEW waiting
  PROVE  /\ Grows(tbl, bump(tbl, ks, waiting))
         /\ Raised(tbl, bump(tbl, ks, waiting), ks, waiting)
         /\ bump(tbl, ks, waiting).entry = tbl.entry
<1> DEFINE b == [k \in Keys |-> IF k \in ks /\ waiting[k] # None THEN tbl.bumps[k] + 1 ELSE tbl.bumps[k]]
           new == bump(tbl, ks, waiting)
<1>1. /\ DOMAIN new = DOMAIN tbl /\ new.entry = tbl.entry /\ new.index = tbl.index
      /\ new.bumps = b
  BY DEF bump, TableOK
<1>2. b \in [Keys -> Nat] /\ \A k \in Keys : tbl.bumps[k] <= b[k]
  BY DEF TableOK
<1>3. \A k \in ks \cap Keys : waiting[k] # None => tbl.bumps[k] < b[k]
  BY DEF TableOK
<1> HIDE DEF b, new
<1>4. TableOK(new)
  BY <1>1, <1>2 DEF TableOK
<1>5. Grows(tbl, new) /\ Raised(tbl, new, ks, waiting)
  BY <1>1, <1>2, <1>3, <1>4 DEF Grows, Raised
<1> QED BY <1>1, <1>5 DEF new

LEMMA DropGrows ==
  ASSUME NEW tbl, TableOK(tbl), NEW ks
  PROVE  /\ Grows(tbl, drop(tbl, ks))
         /\ \A k \in Keys : drop(tbl, ks).entry[k] = IF k \in ks THEN None ELSE tbl.entry[k]
<1> DEFINE new == drop(tbl, ks)
<1>1. /\ DOMAIN new = {"order", "entry", "index", "bytes", "bumps"}
      /\ new.entry = emptied(tbl, ks) /\ new.index = untag(tbl, ks) /\ new.bumps = tbl.bumps
  BY DEF drop, dropped
<1>2. /\ emptied(tbl, ks) \in [Keys -> Entry \cup {None}]
      /\ \A k \in Keys : emptied(tbl, ks)[k] = IF k \in ks THEN None ELSE tbl.entry[k]
  BY DEF emptied, TableOK
<1>3. untag(tbl, ks) \in [Tags -> SUBSET Keys]
  BY DEF untag, TableOK
<1>4. ASSUME NEW t \in Tags, NEW k \in Keys
      PROVE  k \in untag(tbl, ks)[t] <=> k \notin ks /\ tbl.entry[k] # None /\ t \in tbl.entry[k].tags
  BY DEF untag, TableOK
<1> HIDE DEF new
<1>5. TableOK(new)
  BY <1>1, <1>2, <1>3, <1>4 DEF TableOK
<1>6. Grows(tbl, new)
  BY <1>1, <1>5 DEF Grows, TableOK
<1> QED BY <1>1, <1>2, <1>6 DEF new

LEMMA RemoveGrows ==
  ASSUME NEW tbl, TableOK(tbl), NEW ks, NEW waiting
  PROVE  /\ Grows(tbl, remove(tbl, ks, waiting))
         /\ Raised(tbl, remove(tbl, ks, waiting), {k \in ks : tbl.entry[k] # None}, waiting)
<1> DEFINE there == {k \in ks : tbl.entry[k] # None}
           bumped == bump(tbl, there, waiting)
<1>1. remove(tbl, ks, waiting) = drop(bumped, there)
  BY DEF remove, Has
<1> HIDE DEF there
<1>2. Grows(tbl, bumped) /\ Raised(tbl, bumped, there, waiting)
  BY BumpGrows
<1> HIDE DEF bumped
<1>3. Grows(bumped, drop(bumped, there))
  BY <1>2, DropGrows DEF Grows
<1>4. Grows(tbl, drop(bumped, there)) /\ Raised(tbl, drop(bumped, there), there, waiting)
  BY <1>2, <1>3, GrowsTwice
<1> QED BY <1>1, <1>4 DEF there

LEMMA TrimGrows ==
  ASSUME NEW tbl, TableOK(tbl), NEW waiting
  PROVE  Grows(tbl, sweepExpired(tbl, waiting)) /\ Grows(tbl, trim(tbl, waiting))
<1>1. \A t1, ks : TableOK(t1) => Grows(t1, remove(t1, ks, waiting))
  BY RemoveGrows
<1>2. Grows(tbl, sweepExpired(tbl, waiting))
  BY <1>1 DEF sweepExpired
<1>3. ASSUME NEW t1, NEW ks, Grows(tbl, t1) PROVE Grows(tbl, remove(t1, ks, waiting))
  <2>1. Grows(t1, remove(t1, ks, waiting))
    BY <1>1, <1>3 DEF Grows
  <2> QED BY <1>3, <2>1, GrowsTwice
<1>4. Grows(tbl, trim(tbl, waiting))
  BY <1>2, <1>3 DEF trim
<1> QED BY <1>2, <1>4

LEMMA TouchGrows ==
  ASSUME NEW tbl, TableOK(tbl), NEW k
  PROVE  Grows(tbl, touch(tbl, k))
<1>1. /\ DOMAIN touch(tbl, k) = DOMAIN tbl /\ touch(tbl, k).entry = tbl.entry
      /\ touch(tbl, k).index = tbl.index /\ touch(tbl, k).bumps = tbl.bumps
  BY DEF touch, TableOK
<1> QED BY <1>1 DEF Grows, TableOK

LEMMA DropIfExpiredGrows ==
  ASSUME NEW tbl, TableOK(tbl), NEW k, NEW waiting
  PROVE  Grows(tbl, dropIfExpired(tbl, k, waiting))
<1>1. Grows(tbl, remove(tbl, {k}, waiting))
  BY RemoveGrows
<1>2. Grows(tbl, tbl)
  BY DEF Grows, TableOK
<1> QED BY <1>1, <1>2 DEF dropIfExpired

\* The entries that store and revalidate make are no empty ones.
LEMMA NewEntry ==
  ASSUME now \in 0..MaxTime, NEW v \in Values, NEW e,
         e \in Options \/ e \in Entry
  PROVE  [value |-> v, time |-> now, ttl |-> e.ttl, tags |-> e.tags] \in Entry
<1>1. e.ttl \in {o.ttl : o \in Options}
  BY DEF Entry
<1>2. e.tags \in SUBSET Tags
  BY CacheAssumption DEF Entry
<1> QED BY <1>1, <1>2 DEF Entry

\* An entry for a key that had none.
LEMMA AddedOK ==
  ASSUME NEW tbl, TableOK(tbl), NEW k \in Keys, tbl.entry[k] = None, NEW e \in Entry
  PROVE  TableOK(added(tbl, k, e)) /\ added(tbl, k, e).bumps = tbl.bumps
<1> DEFINE new == added(tbl, k, e)
<1>1. /\ DOMAIN new = {"order", "entry", "index", "bytes", "bumps"} /\ new.bumps = tbl.bumps
      /\ new.entry = [tbl.entry EXCEPT ![k] = e]
      /\ new.index = [t \in Tags |-> IF t \in e.tags THEN tbl.index[t] \cup {k} ELSE tbl.index[t]]
  BY DEF added
<1> HIDE DEF new
<1>2. new.entry \in [Keys -> Entry \cup {None}] /\ new.bumps \in [Keys -> Nat]
  BY <1>1 DEF TableOK
<1>3. new.index \in [Tags -> SUBSET Keys]
  BY <1>1 DEF TableOK
<1>4. ASSUME NEW t \in Tags, NEW x \in Keys
      PROVE  x \in new.index[t] <=> new.entry[x] # None /\ t \in new.entry[x].tags
  <2>1. CASE x = k
    <3>1. new.entry[x] = e /\ e # None
      BY <1>1, <2>1, EntryAssumption DEF TableOK
    <3>2. k \notin tbl.index[t]
      BY DEF TableOK
    <3> QED BY <1>1, <2>1, <3>1, <3>2
  <2>2. CASE x # k
    <3>1. x \in new.index[t] <=> x \in tbl.index[t]
      BY <1>1, <2>2
    <3>2. new.entry[x] = tbl.entry[x]
      BY <1>1, <2>2 DEF TableOK
    <3> QED BY <3>1, <3>2 DEF TableOK
  <2> QED BY <2>1, <2>2
<1> QED BY <1>1, <1>2, <1>3, <1>4 DEF TableOK, new

LEMMA StoreGrows ==
  ASSUME NEW tbl, TableOK(tbl), now \in 0..MaxTime,
         NEW k \in Keys, NEW v \in Values, NEW o \in Options, NEW waiting
  PROVE  /\ Grows(tbl, store(tbl, k, v, o, waiting))
         /\ Raised(tbl, store(tbl, k, v, o, waiting), {k}, waiting)
<1> DEFINE bumped == bump(tbl, {k}, waiting)
           cleared == IF Has(tbl, k) THEN drop(bumped, {k}) ELSE bumped
           e == [value |-> v, time |-> now, ttl |-> o.ttl, tags |-> o.tags]
           new == added(cleared, k, e)
<1>1. store(tbl, k, v, o, waiting) = trim(new, waiting)
  BY DEF store
<1>2. /\ Grows(tbl, bumped) /\ Raised(tbl, bumped, {k}, waiting)
      /\ bumped.entry = tbl.entry
  BY BumpGrows
<1>3. e \in Entry /\ e.tags \in SUBSET Tags
  BY NewEntry, CacheAssumption
<1>4. Grows(bumped, cleared) /\ cleared.entry[k] = None
  <2> HIDE DEF bumped
  <2>1. Grows(bumped, drop(bumped, {k})) /\ drop(bumped, {k}).entry[k] = None
    BY <1>2, DropGrows DEF Grows
  <2>2. Grows(bumped, bumped)
    BY <1>2 DEF Grows, TableOK
  <2> QED BY <1>2, <2>1, <2>2 DEF Has
<1> HIDE DEF bumped, cleared, e
<1>5. Grows(cleared, new)
  <2>1. TableOK(cleared) /\ e \in Entry
    BY <1>3, <1>4 DEF Grows
  <2>2. TableOK(new) /\ new.bumps = cleared.bumps
    BY <1>4, <2>1, AddedOK
  <2> QED BY <2>1, <2>2 DEF Grows, TableOK
<1> HIDE DEF new
<1>6. Grows(new, trim(new, waiting))
  BY <1>5, TrimGrows DEF Grows
<1>7. Grows(tbl, cleared) /\ Raised(tbl, cleared, {k}, waiting)
  BY <1>2, <1>4, GrowsTwice
<1>8. Grows(tbl, new) /\ Raised(tbl, new, {k}, waiting)
  BY <1>5, <1>7, GrowsTwice
<1> QED BY <1>1, <1>6, <1>8, GrowsTwice

LEMMA RenewedGrows ==
  ASSUME NEW tbl, TableOK(tbl), now \in 0..MaxTime, NEW k \in Keys, NEW v \in Values, tbl.entry[k] # None
  PROVE  Grows(tbl, renewed(tbl, k, v))
<1> DEFINE old == tbl.entry[k]
           e == [value |-> v, time |-> now, ttl |-> old.ttl, tags |-> old.tags]
           new == renewed(tbl, k, v)
<1>1. old \in Entry
  BY DEF TableOK
<1>2. e \in Entry /\ e.tags = old.tags
  BY <1>1, NewEntry
<1>3. /\ DOMAIN new = {"order", "entry", "index", "bytes", "bumps"} /\ new.bumps = tbl.bumps
      /\ new.entry = [tbl.entry EXCEPT ![k] = e] /\ new.index = tbl.index
  BY DEF renewed
<1> HIDE DEF e, new
<1>4. new.entry \in [Keys -> Entry \cup {None}]
  BY <1>2, <1>3 DEF TableOK
<1>5. ASSUME NEW t \in Tags, NEW x \in Keys
      PROVE  x \in tbl.index[t] <=> new.entry[x] # None /\ t \in new.entry[x].tags
  BY <1>2, <1>3, EntryAssumption DEF TableOK
<1>6. TableOK(new)
  BY <1>3, <1>4, <1>5 DEF TableOK
<1> QED BY <1>3, <1>6 DEF Grows, TableOK, new
-----------------------------------------------------------------------------
\* A set of numbers has a least one.
LEMMA Least ==
  ASSUME NEW T \in SUBSET Nat, T # {}
  PROVE  \E n \in Nat : n \in T /\ \A m \in Nat : m < n => m \notin T
<1>1. PICK n \in T : \A m \in T : ~(<<m, n>> \in OpToRel(<, Nat))
  BY NatLessThanWellFounded, WFMin
<1>2. \A m \in T : ~(m < n)
  BY <1>1 DEF OpToRel
<1> QED BY <1>1, <1>2

\* The function that MapThenSumSet computes, with one element taken at a time.
First(s) == CHOOSE x \in s : TRUE
Summed(g, tbl, s) == IF s = {} THEN 0 ELSE tbl.entry[First(s)].value + g[s \ {First(s)}]
IsSum(g, tbl, S) == g = [s \in SUBSET S |-> Summed(g, tbl, s)]

LEMMA AnyIn == ASSUME NEW s, s # {} PROVE First(s) \in s
BY DEF First

LEMMA SmallerSet ==
  ASSUME NEW s, IsFiniteSet(s), NEW x \in s
  PROVE  /\ IsFiniteSet(s \ {x}) /\ Cardinality(s \ {x}) = Cardinality(s) - 1
         /\ Cardinality(s) \in Nat /\ Cardinality(s \ {x}) \in Nat
BY FS_RemoveElement, FS_CardinalityType

LEMMA SumExists ==
  ASSUME NEW tbl, NEW S, IsFiniteSet(S)
  PROVE  \E g : IsSum(g, tbl, S)
<1> DEFINE Upto(n) == {s \in SUBSET S : Cardinality(s) <= n}
           IsPart(g, n) == g = [s \in Upto(n) |-> Summed(g, tbl, s)]
           Bad == {n \in Nat : ~\E g : IsPart(g, n)}
<1>1. \A s \in SUBSET S : IsFiniteSet(s) /\ Cardinality(s) \in Nat /\ Cardinality(s) <= Cardinality(S)
  BY FS_Subset, FS_CardinalityType
<1>2. \E g : IsPart(g, 0)
  <2>1. Upto(0) = {{}}
    BY <1>1, FS_EmptySet
  <2>2. [s \in {{}} |-> 0] = [s \in {{}} |-> Summed([r \in {{}} |-> 0], tbl, s)]
    BY DEF Summed
  <2> QED BY <2>1, <2>2
<1>3. ASSUME NEW n \in Nat, \E g : IsPart(g, n) PROVE \E g : IsPart(g, n + 1)
  <2>1. PICK g : IsPart(g, n)
    BY <1>3
  <2> DEFINE h == [s \in Upto(n + 1) |-> Summed(g, tbl, s)]
  <2>2. ASSUME NEW s \in Upto(n) PROVE s \in Upto(n + 1) /\ h[s] = g[s]
    BY <1>1, <2>1
  <2>3. ASSUME NEW s \in Upto(n + 1) PROVE Summed(g, tbl, s) = Summed(h, tbl, s)
    <3>1. CASE s = {}
      BY <3>1 DEF Summed
    <3>2. CASE s # {}
      <4>1. First(s) \in s /\ s \in SUBSET S
        BY <3>2, AnyIn
      <4>2. s \ {First(s)} \in Upto(n)
        BY <1>1, <2>3, <4>1, SmallerSet
      <4> QED BY <2>2, <4>2 DEF Summed
    <3> QED BY <3>1, <3>2
  <2>4. IsPart(h, n + 1)
    BY <2>3
  <2> QED BY <2>4
<1>4. Bad = {}
  <2> SUFFICES ASSUME Bad # {} PROVE FALSE
    OBVIOUS
  <2>1. PICK n \in Nat : n \in Bad /\ \A m \in Nat : m < n => m \notin Bad
    BY Least
  <2>2. ~\E g : IsPart(g, n)
    BY <2>1
  <2> HIDE DEF IsPart
  <2>3. n # 0
    BY <1>2, <2>2
  <2>4. n - 1 \in Nat /\ n - 1 < n /\ (n - 1) + 1 = n
    BY <2>3
  <2>5. \E g : IsPart(g, n - 1)
    BY <2>1, <2>4
  <2> QED BY <1>3, <2>2, <2>4, <2>5
<1>5. PICK g : IsPart(g, Cardinality(S))
  <2>1. Cardinality(S) \in Nat
    BY FS_CardinalityType
  <2> QED BY <1>4, <2>1
<1>6. Upto(Cardinality(S)) = SUBSET S
  BY <1>1
<1> QED BY <1>5, <1>6 DEF IsSum

LEMMA SizeIsSum ==
  ASSUME NEW tbl, NEW S, IsFiniteSet(S)
  PROVE  \E g : IsSum(g, tbl, S) /\ Size(tbl, S) = g[S]
<1>1. Size(tbl, S) = (CHOOSE g : IsSum(g, tbl, S))[S]
  BY DEF Size, MapThenSumSet, MapThenFoldSet, IsSum, Summed, First
<1>2. \E g : IsSum(g, tbl, S)
  BY SumExists
<1> QED BY <1>1, <1>2

\* Two sums agree on the sets whose members have the same sizes.
LEMMA SumsAgree ==
  ASSUME NEW t1, NEW t2, NEW S1, NEW S2, NEW g1, NEW g2, IsSum(g1, t1, S1), IsSum(g2, t2, S2),
         NEW T, IsFiniteSet(T), T \subseteq S1, T \subseteq S2,
         \A x \in T : t1.entry[x].value = t2.entry[x].value
  PROVE  g1[T] = g2[T]
<1> DEFINE Bad == {n \in Nat : \E s \in SUBSET T : Cardinality(s) = n /\ g1[s] # g2[s]}
<1>1. Bad = {}
  <2> SUFFICES ASSUME Bad # {} PROVE FALSE
    OBVIOUS
  <2>1. PICK n \in Nat : n \in Bad /\ \A m \in Nat : m < n => m \notin Bad
    BY Least
  <2>2. PICK s \in SUBSET T : Cardinality(s) = n /\ g1[s] # g2[s]
    BY <2>1
  <2>3. g1[s] = Summed(g1, t1, s) /\ g2[s] = Summed(g2, t2, s)
    BY DEF IsSum
  <2>4. s # {} /\ First(s) \in s
    BY <2>2, <2>3, AnyIn DEF Summed
  <2>5. IsFiniteSet(s)
    BY FS_Subset
  <2>6. Cardinality(s \ {First(s)}) \in Nat /\ Cardinality(s \ {First(s)}) < n
    <3>1. /\ Cardinality(s \ {First(s)}) = Cardinality(s) - 1
          /\ Cardinality(s \ {First(s)}) \in Nat /\ Cardinality(s) \in Nat
      BY <2>4, <2>5, SmallerSet
    <3> QED BY <2>2, <3>1
  <2>7. Cardinality(s \ {First(s)}) \notin Bad
    BY <2>1, <2>6
  <2>8. g1[s \ {First(s)}] = g2[s \ {First(s)}]
    BY <2>6, <2>7
  <2> QED BY <2>2, <2>3, <2>4, <2>8 DEF Summed
<1>2. Cardinality(T) \in Nat
  BY FS_CardinalityType
<1> QED BY <1>1, <1>2

LEMMA SumIsNat ==
  ASSUME NEW tbl, NEW S, NEW g, IsSum(g, tbl, S), IsFiniteSet(S),
         \A x \in S : tbl.entry[x].value \in Nat
  PROVE  \A s \in SUBSET S : g[s] \in Nat
<1> DEFINE Bad == {n \in Nat : \E s \in SUBSET S : Cardinality(s) = n /\ g[s] \notin Nat}
<1>1. Bad = {}
  <2> SUFFICES ASSUME Bad # {} PROVE FALSE
    OBVIOUS
  <2>1. PICK n \in Nat : n \in Bad /\ \A m \in Nat : m < n => m \notin Bad
    BY Least
  <2>2. PICK s \in SUBSET S : Cardinality(s) = n /\ g[s] \notin Nat
    BY <2>1
  <2>3. g[s] = Summed(g, tbl, s)
    BY DEF IsSum
  <2>4. s # {} /\ First(s) \in s
    BY <2>2, <2>3, AnyIn DEF Summed
  <2>5. IsFiniteSet(s)
    BY FS_Subset
  <2>6. Cardinality(s \ {First(s)}) \in Nat /\ Cardinality(s \ {First(s)}) < n
    <3>1. /\ Cardinality(s \ {First(s)}) = Cardinality(s) - 1
          /\ Cardinality(s \ {First(s)}) \in Nat /\ Cardinality(s) \in Nat
      BY <2>4, <2>5, SmallerSet
    <3> QED BY <2>2, <3>1
  <2>7. Cardinality(s \ {First(s)}) \notin Bad
    BY <2>1, <2>6
  <2>8. g[s \ {First(s)}] \in Nat
    BY <2>6, <2>7
  <2> QED BY <2>2, <2>3, <2>4, <2>8 DEF Summed
<1>2. \A s \in SUBSET S : Cardinality(s) \in Nat
  BY FS_Subset, FS_CardinalityType
<1> QED BY <1>1, <1>2

\* The order in which the elements are taken does not matter.
LEMMA SumTakesAny ==
  ASSUME NEW tbl, NEW S, NEW g, IsSum(g, tbl, S), IsFiniteSet(S),
         \A x \in S : tbl.entry[x].value \in Nat
  PROVE  \A s \in SUBSET S : \A x \in s : g[s] = tbl.entry[x].value + g[s \ {x}]
<1> DEFINE Bad == {n \in Nat : \E s \in SUBSET S : /\ Cardinality(s) = n
                                                    /\ \E x \in s : g[s] # tbl.entry[x].value + g[s \ {x}]}
<1>1. Bad = {}
  <2> SUFFICES ASSUME Bad # {} PROVE FALSE
    OBVIOUS
  <2>1. PICK n \in Nat : n \in Bad /\ \A m \in Nat : m < n => m \notin Bad
    BY Least
  <2>2. PICK s \in SUBSET S : Cardinality(s) = n /\ \E x \in s : g[s] # tbl.entry[x].value + g[s \ {x}]
    BY <2>1
  <2>0. PICK x \in s : g[s] # tbl.entry[x].value + g[s \ {x}]
    BY <2>2
  <2> DEFINE c == First(s)
  <2>3. c \in s /\ IsFiniteSet(s)
    BY <2>2, AnyIn, FS_Subset
  <2>4. g[s] = tbl.entry[c].value + g[s \ {c}]
    BY <2>3 DEF IsSum, Summed
  <2> HIDE DEF c
  <2>5. c # x
    BY <2>0, <2>4
  <2>6. ASSUME NEW a \in s, NEW b \in s, a # b
        PROVE  g[s \ {a}] = tbl.entry[b].value + g[(s \ {a}) \ {b}]
    <3>1. Cardinality(s \ {a}) \in Nat /\ Cardinality(s \ {a}) < n
      <4>1. /\ Cardinality(s \ {a}) = Cardinality(s) - 1
            /\ Cardinality(s \ {a}) \in Nat /\ Cardinality(s) \in Nat
        BY <2>3, SmallerSet
      <4> QED BY <2>2, <4>1
    <3>2. Cardinality(s \ {a}) \notin Bad
      BY <2>1, <3>1
    <3>3. s \ {a} \in SUBSET S /\ b \in s \ {a}
      BY <2>6
    <3> QED BY <3>1, <3>2, <3>3
  <2>7. g[s \ {c}] = tbl.entry[x].value + g[(s \ {c}) \ {x}]
    BY <2>2, <2>3, <2>5, <2>6
  <2>8. g[s \ {x}] = tbl.entry[c].value + g[(s \ {x}) \ {c}]
    BY <2>2, <2>3, <2>5, <2>6
  <2>9. (s \ {c}) \ {x} = (s \ {x}) \ {c} /\ (s \ {c}) \ {x} \in SUBSET S
    OBVIOUS
  <2>10. g[(s \ {c}) \ {x}] \in Nat
    BY <2>9, SumIsNat
  <2>11. tbl.entry[c].value \in Nat /\ tbl.entry[x].value \in Nat
    BY <2>3
  <2>12. g[s \ {c}] = tbl.entry[x].value + g[(s \ {x}) \ {c}] /\ g[(s \ {x}) \ {c}] \in Nat
    BY <2>7, <2>9, <2>10
  <2> QED BY <2>0, <2>4, <2>8, <2>11, <2>12
<1>2. \A s \in SUBSET S : Cardinality(s) \in Nat
  BY FS_Subset, FS_CardinalityType
<1> QED BY <1>1, <1>2

SizesOK(tbl, S) == IsFiniteSet(S) /\ \A x \in S : tbl.entry[x].value \in Nat

LEMMA SizeLike ==
  ASSUME NEW t1, NEW t2, NEW S, IsFiniteSet(S), \A x \in S : t1.entry[x].value = t2.entry[x].value
  PROVE  Size(t1, S) = Size(t2, S)
<1>1. PICK g1 : IsSum(g1, t1, S) /\ Size(t1, S) = g1[S]
  BY SizeIsSum
<1>2. PICK g2 : IsSum(g2, t2, S) /\ Size(t2, S) = g2[S]
  BY SizeIsSum
<1> QED BY <1>1, <1>2, SumsAgree

LEMMA SizeOfNone ==
  ASSUME NEW tbl
  PROVE  Size(tbl, {}) = 0
<1>1. PICK g : IsSum(g, tbl, {}) /\ Size(tbl, {}) = g[{}]
  BY SizeIsSum, FS_EmptySet
<1>2. {} \in SUBSET {}
  OBVIOUS
<1> QED BY <1>1, <1>2 DEF IsSum, Summed

LEMMA SizeOfRest ==
  ASSUME NEW tbl, NEW S, SizesOK(tbl, S), NEW x \in S
  PROVE  /\ Size(tbl, S) \in Nat /\ Size(tbl, S \ {x}) \in Nat
         /\ Size(tbl, S) = tbl.entry[x].value + Size(tbl, S \ {x})
<1>0. IsFiniteSet(S) /\ IsFiniteSet(S \ {x}) /\ \A y \in S : tbl.entry[y].value \in Nat
  BY SmallerSet DEF SizesOK
<1>1. PICK g1 : IsSum(g1, tbl, S) /\ Size(tbl, S) = g1[S]
  BY <1>0, SizeIsSum
<1>2. PICK g2 : IsSum(g2, tbl, S \ {x}) /\ Size(tbl, S \ {x}) = g2[S \ {x}]
  BY <1>0, SizeIsSum
<1>3. g1[S \ {x}] = g2[S \ {x}]
  BY <1>0, <1>1, <1>2, SumsAgree
<1>4. g1[S] = tbl.entry[x].value + g1[S \ {x}]
  BY <1>0, <1>1, SumTakesAny
<1>5. g1[S] \in Nat /\ g1[S \ {x}] \in Nat
  <2>1. S \in SUBSET S /\ S \ {x} \in SUBSET S
    OBVIOUS
  <2> QED BY <1>0, <1>1, <2>1, SumIsNat
<1> QED BY <1>1, <1>2, <1>3, <1>4, <1>5

LEMMA SizeIsNat ==
  ASSUME NEW tbl, NEW S, SizesOK(tbl, S)
  PROVE  Size(tbl, S) \in Nat
<1>1. CASE S = {}
  BY <1>1, SizeOfNone
<1>2. CASE S # {}
  BY <1>2, SizeOfRest
<1> QED BY <1>1, <1>2

\* What is left when the entries of ks give back their sizes.
LEMMA SizeOfDifference ==
  ASSUME NEW tbl, NEW S, SizesOK(tbl, S), NEW ks \in SUBSET S
  PROVE  Size(tbl, S \ ks) = Size(tbl, S) - Size(tbl, ks)
<1> DEFINE Holds(r) == Size(tbl, S \ r) = Size(tbl, S) - Size(tbl, r)
           Bad == {n \in Nat : \E r \in SUBSET S : Cardinality(r) = n /\ ~Holds(r)}
<1>0. \A r \in SUBSET S : SizesOK(tbl, r) /\ Size(tbl, r) \in Nat
  BY FS_Subset, SizeIsNat DEF SizesOK
<1>1. Bad = {}
  <2> SUFFICES ASSUME Bad # {} PROVE FALSE
    OBVIOUS
  <2>1. PICK n \in Nat : n \in Bad /\ \A m \in Nat : m < n => m \notin Bad
    BY Least
  <2>2. PICK r \in SUBSET S : Cardinality(r) = n /\ ~Holds(r)
    BY <2>1
  <2>3. r # {}
    <3>1. S \ {} = S /\ S \in SUBSET S
      OBVIOUS
    <3> QED BY <1>0, <2>2, <3>1, SizeOfNone
  <2>4. PICK x \in r : TRUE
    BY <2>3
  <2> DEFINE q == r \ {x}
  <2>5. q \in SUBSET S /\ S \ q \in SUBSET S /\ x \in S \ q /\ (S \ q) \ {x} = S \ r
        /\ S \ r \in SUBSET S /\ S \in SUBSET S
    BY <2>4
  <2>6. Holds(q)
    <3>1. Cardinality(q) \in Nat /\ Cardinality(q) < n
      <4>1. IsFiniteSet(r)
        BY <1>0 DEF SizesOK
      <4>2. /\ Cardinality(r \ {x}) = Cardinality(r) - 1
            /\ Cardinality(r \ {x}) \in Nat /\ Cardinality(r) \in Nat
        BY <2>4, <4>1, SmallerSet
      <4> QED BY <2>2, <4>2
    <3>2. Cardinality(q) \notin Bad
      BY <2>1, <3>1
    <3> QED BY <2>5, <3>1, <3>2
  <2>7. Size(tbl, r) = tbl.entry[x].value + Size(tbl, q)
    BY <1>0, <2>4, SizeOfRest
  <2>8. Size(tbl, S \ q) = tbl.entry[x].value + Size(tbl, S \ r)
    BY <1>0, <2>5, SizeOfRest
  <2>9. tbl.entry[x].value \in Nat
    BY <2>5 DEF SizesOK
  <2>10. Size(tbl, q) \in Nat /\ Size(tbl, S \ q) \in Nat /\ Size(tbl, S \ r) \in Nat
         /\ Size(tbl, S) \in Nat /\ Size(tbl, r) \in Nat
    BY <1>0, <2>5
  <2> HIDE DEF q
  <2> QED BY <2>2, <2>6, <2>7, <2>8, <2>9, <2>10
<1>2. Cardinality(ks) \in Nat
  BY <1>0, FS_CardinalityType DEF SizesOK
<1> QED BY <1>1, <1>2
-----------------------------------------------------------------------------
(* The order of the entries. *)

\* What without keeps of the first n keys, from what it keeps of those before.
KeptOf(f, order, ks, n) ==
  IF n = 0 THEN <<>>
  ELSE IF order[n] \in ks THEN f[n - 1] ELSE Append(f[n - 1], order[n])

IsKept(f, order, ks, m) == f = [n \in 0..m |-> KeptOf(f, order, ks, n)]

LEMMA KeptExists ==
  ASSUME NEW order, NEW ks, NEW m \in Nat
  PROVE  \E f : IsKept(f, order, ks, m)
<1> DEFINE Bad == {n \in Nat : ~\E f : IsKept(f, order, ks, n)}
<1>1. \E f : IsKept(f, order, ks, 0)
  <2> DEFINE f == [n \in 0..0 |-> KeptOf(<<>>, order, ks, n)]
  <2>1. \A n \in 0..0 : KeptOf(<<>>, order, ks, n) = KeptOf(f, order, ks, n)
    BY DEF KeptOf
  <2>2. IsKept(f, order, ks, 0)
    BY <2>1 DEF IsKept
  <2> QED BY <2>2
<1>2. ASSUME NEW n \in Nat, \E f : IsKept(f, order, ks, n)
      PROVE  \E f : IsKept(f, order, ks, n + 1)
  <2>1. PICK g : IsKept(g, order, ks, n)
    BY <1>2
  <2> DEFINE f == [i \in 0..(n + 1) |-> KeptOf(g, order, ks, i)]
  <2>2. \A i \in 0..n : f[i] = g[i]
    BY <2>1 DEF IsKept
  <2> HIDE DEF f
  <2>3. ASSUME NEW i \in 0..(n + 1) PROVE KeptOf(g, order, ks, i) = KeptOf(f, order, ks, i)
    <3>1. i = 0 \/ i - 1 \in 0..n
      OBVIOUS
    <3> QED BY <2>2, <3>1 DEF KeptOf
  <2>4. IsKept(f, order, ks, n + 1)
    BY <2>3 DEF IsKept, f
  <2> QED BY <2>4
<1>3. Bad = {}
  <2> SUFFICES ASSUME Bad # {} PROVE FALSE
    OBVIOUS
  <2>1. PICK n \in Nat : n \in Bad /\ \A i \in Nat : i < n => i \notin Bad
    BY Least
  <2>2. ~\E f : IsKept(f, order, ks, n)
    BY <2>1
  <2>3. n # 0
    BY <1>1, <2>2
  <2>4. n - 1 \in Nat /\ n - 1 < n /\ (n - 1) + 1 = n
    BY <2>3
  <2>5. \E f : IsKept(f, order, ks, n - 1)
    BY <2>1, <2>4
  <2> QED BY <1>2, <2>2, <2>4, <2>5
<1> QED BY <1>3

\* What is known of the keys kept of the first n ones.
KeptOK(kept, order, ks, n) ==
  /\ kept \in Seq(Keys) /\ Len(kept) <= n
  /\ \A k : (\E i \in 1..Len(kept) : kept[i] = k) <=> (\E i \in 1..n : order[i] = k) /\ k \notin ks
  /\ IsInjective(order) => IsInjective(kept)
  /\ \A i \in 1..n : order[i] \in ks => Len(kept) < n
  /\ \A d \in 0..n : (\A i \in 1..d : order[i] \in ks) => Len(kept) <= n - d

LEMMA KeptStep ==
  ASSUME NEW order \in Seq(Keys), NEW ks, NEW n \in 1..Len(order), NEW old, KeptOK(old, order, ks, n - 1)
  PROVE  KeptOK(IF order[n] \in ks THEN old ELSE Append(old, order[n]), order, ks, n)
<1>0. old \in Seq(Keys) /\ Len(old) \in Nat /\ n \in Nat \ {0} /\ n - 1 \in Nat /\ Len(old) <= n - 1
  BY DEF KeptOK
<1>1. CASE order[n] \in ks
  <2>1. \A k : (\E i \in 1..n : order[i] = k) /\ k \notin ks <=> (\E i \in 1..(n - 1) : order[i] = k) /\ k \notin ks
    BY <1>0, <1>1
  <2>2. \A k : (\E i \in 1..Len(old) : old[i] = k) <=> (\E i \in 1..n : order[i] = k) /\ k \notin ks
    BY <2>1 DEF KeptOK
  <2>3. ASSUME NEW d \in 0..n, \A i \in 1..d : order[i] \in ks PROVE Len(old) <= n - d
    <3>1. CASE d = n
      <4>1. n - 1 \in 0..(n - 1) /\ \A i \in 1..(n - 1) : order[i] \in ks
        BY <1>0, <2>3, <3>1
      <4>2. Len(old) <= (n - 1) - (n - 1)
        BY <4>1 DEF KeptOK
      <4> QED BY <1>0, <3>1, <4>2
    <3>2. CASE d # n
      <4>1. d \in 0..(n - 1)
        BY <1>0, <3>2
      <4>2. Len(old) <= (n - 1) - d
        BY <2>3, <4>1 DEF KeptOK
      <4> QED BY <1>0, <4>2
    <3> QED BY <3>1, <3>2
  <2>4. Len(old) < n
    BY <1>0
  <2>5. IsInjective(order) => IsInjective(old)
    BY DEF KeptOK
  <2> QED BY <1>0, <1>1, <2>2, <2>3, <2>4, <2>5 DEF KeptOK
<1>2. CASE order[n] \notin ks
  <2> DEFINE x == order[n]
             new == Append(old, x)
  <2>0. x \in Keys /\ DOMAIN order = 1..Len(order) /\ Len(order) \in Nat
    OBVIOUS
  <2>1. /\ new \in Seq(Keys) /\ Len(new) = Len(old) + 1 /\ new[Len(old) + 1] = x
        /\ \A i \in 1..Len(old) : new[i] = old[i]
    BY <1>0, <2>0
  <2> HIDE DEF new
  <2>2. ASSUME NEW k
        PROVE  (\E i \in 1..Len(new) : new[i] = k) <=> (\E i \in 1..n : order[i] = k) /\ k \notin ks
    <3>1. (\E i \in 1..Len(new) : new[i] = k) <=> (\E i \in 1..Len(old) : old[i] = k) \/ k = x
      BY <1>0, <2>1
    <3>2. (\E i \in 1..n : order[i] = k) <=> (\E i \in 1..(n - 1) : order[i] = k) \/ k = x
      BY <1>0
    <3>3. (\E i \in 1..Len(old) : old[i] = k) <=> (\E i \in 1..(n - 1) : order[i] = k) /\ k \notin ks
      BY DEF KeptOK
    <3> QED BY <1>2, <3>1, <3>2, <3>3
  <2>3. ASSUME IsInjective(order) PROVE IsInjective(new)
    <3>1. IsInjective(old) /\ DOMAIN old = 1..Len(old) /\ DOMAIN new = 1..Len(new)
      BY <1>0, <2>1, <2>3 DEF KeptOK
    <3>2. ASSUME NEW i \in 1..Len(old) PROVE old[i] # x
      <4>1. PICK j \in 1..(n - 1) : order[j] = old[i]
        BY <3>2 DEF KeptOK
      <4>2. j # n /\ j \in DOMAIN order /\ n \in DOMAIN order
        BY <2>0
      <4> QED BY <2>3, <4>1, <4>2 DEF IsInjective
    <3>3. ASSUME NEW i \in 1..Len(new), NEW j \in 1..Len(new), new[i] = new[j] PROVE i = j
      <4>1. \A h \in 1..Len(new) : h \in 1..Len(old) \/ h = Len(old) + 1
        BY <1>0, <2>1
      <4>2. CASE i \in 1..Len(old) /\ j \in 1..Len(old)
        BY <2>1, <3>1, <3>3, <4>2 DEF IsInjective
      <4>3. CASE i = Len(old) + 1 /\ j = Len(old) + 1
        BY <4>3
      <4>4. CASE i \in 1..Len(old) /\ j = Len(old) + 1
        BY <2>1, <3>2, <3>3, <4>4
      <4>5. CASE j \in 1..Len(old) /\ i = Len(old) + 1
        BY <2>1, <3>2, <3>3, <4>5
      <4> QED BY <4>1, <4>2, <4>3, <4>4, <4>5
    <3> QED BY <3>1, <3>3 DEF IsInjective
  <2>4. ASSUME NEW i \in 1..n, order[i] \in ks PROVE Len(new) < n
    <3>1. i \in 1..(n - 1)
      BY <1>0, <1>2, <2>4
    <3>2. Len(old) < n - 1
      BY <2>4, <3>1 DEF KeptOK
    <3> QED BY <1>0, <2>1, <3>2
  <2>5. ASSUME NEW d \in 0..n, \A i \in 1..d : order[i] \in ks PROVE Len(new) <= n - d
    <3>1. d \in 0..(n - 1)
      BY <1>0, <1>2, <2>5
    <3>2. Len(old) <= (n - 1) - d
      BY <2>5, <3>1 DEF KeptOK
    <3> QED BY <1>0, <2>1, <3>2
  <2>6. Len(new) <= n
    BY <1>0, <2>1
  <2>7. KeptOK(new, order, ks, n)
    BY <2>1, <2>2, <2>3, <2>4, <2>5, <2>6 DEF KeptOK
  <2> QED BY <1>2, <2>7 DEF new
<1> QED BY <1>1, <1>2

\* The keys outside ks, each once, in a sequence that is shorter by those of ks.
LEMMA WithoutIs ==
  ASSUME NEW order \in Seq(Keys), NEW ks
  PROVE  KeptOK(without(order, ks), order, ks, Len(order))
<1> DEFINE f == CHOOSE f : IsKept(f, order, ks, Len(order))
<1>1. Len(order) \in Nat
  OBVIOUS
<1>2. without(order, ks) = f[Len(order)]
  BY DEF without, IsKept, KeptOf
<1>3. IsKept(f, order, ks, Len(order))
  BY <1>1, KeptExists
<1> HIDE DEF f
<1> DEFINE Bad == {n \in Nat : n <= Len(order) /\ ~KeptOK(f[n], order, ks, n)}
<1>4. KeptOK(f[0], order, ks, 0)
  <2>1. f[0] = <<>>
    BY <1>1, <1>3 DEF IsKept, KeptOf
  <2> QED BY <2>1 DEF KeptOK, IsInjective
<1>5. ASSUME NEW n \in 1..Len(order), KeptOK(f[n - 1], order, ks, n - 1)
      PROVE  KeptOK(f[n], order, ks, n)
  <2>1. n \in 0..Len(order) /\ n # 0
    BY <1>1
  <2>2. f[n] = KeptOf(f, order, ks, n)
    BY <1>3, <2>1 DEF IsKept
  <2>3. f[n] = IF order[n] \in ks THEN f[n - 1] ELSE Append(f[n - 1], order[n])
    BY <2>1, <2>2 DEF KeptOf
  <2> QED BY <1>5, <2>3, KeptStep
<1>6. Bad = {}
  <2> SUFFICES ASSUME Bad # {} PROVE FALSE
    OBVIOUS
  <2>1. PICK n \in Nat : n \in Bad /\ \A i \in Nat : i < n => i \notin Bad
    BY Least
  <2>2. n <= Len(order) /\ ~KeptOK(f[n], order, ks, n)
    BY <2>1
  <2>3. n # 0
    BY <1>4, <2>2
  <2>4. n - 1 \in Nat /\ n - 1 < n /\ n \in 1..Len(order) /\ n - 1 <= Len(order)
    BY <1>1, <2>2, <2>3
  <2>5. KeptOK(f[n - 1], order, ks, n - 1)
    BY <2>1, <2>4
  <2> QED BY <1>5, <2>2, <2>4, <2>5
<1> QED BY <1>1, <1>2, <1>6
-----------------------------------------------------------------------------
(* The books of a table. *)

Cached(tbl) == {k \in Keys : tbl.entry[k] # None}

OrderOK(tbl) ==
  /\ tbl.order \in Seq(Keys) /\ IsInjective(tbl.order)
  /\ \A k \in Keys : (\E i \in 1..Len(tbl.order) : tbl.order[i] = k) <=> tbl.entry[k] # None

Books(tbl) == TableOK(tbl) /\ OrderOK(tbl) /\ tbl.bytes = Size(tbl, Cached(tbl))

LEMMA BooksSizes ==
  ASSUME NEW tbl, Books(tbl)
  PROVE  SizesOK(tbl, Cached(tbl)) /\ tbl.bytes \in Nat
<1>1. \A k \in Cached(tbl) : tbl.entry[k].value \in Nat
  <2>1. \A k \in Cached(tbl) : tbl.entry[k] \in Entry
    BY DEF Books, TableOK, Cached
  <2>2. \A e \in Entry : e.value \in Nat
    BY CacheAssumption DEF Entry
  <2> QED BY <2>1, <2>2
<1>2. IsFiniteSet(Cached(tbl))
  <2>1. tbl.order \in Seq(Keys) /\ \A k \in Cached(tbl) : \E i \in 1..Len(tbl.order) : tbl.order[i] = k
    BY DEF Books, OrderOK, Cached
  <2>2. \A i \in 1..Len(tbl.order) : tbl.order[i] \in Cached(tbl)
    BY DEF Books, OrderOK, Cached
  <2>3. tbl.order \in Seq(Cached(tbl))
    BY <2>1, <2>2
  <2> QED BY <2>1, <2>3 DEF IsFiniteSet
<1>3. SizesOK(tbl, Cached(tbl))
  BY <1>1, <1>2 DEF SizesOK
<1> QED BY <1>3, SizeIsNat DEF Books

\* The counters are no part of the books.
LEMMA BooksLike ==
  ASSUME NEW t1, NEW t2, Books(t1), TableOK(t2),
         t2.order = t1.order, t2.entry = t1.entry, t2.bytes = t1.bytes
  PROVE  Books(t2)
<1>1. Cached(t2) = Cached(t1) /\ OrderOK(t2)
  BY DEF Cached, Books, OrderOK
<1>2. Size(t2, Cached(t1)) = Size(t1, Cached(t1))
  BY BooksSizes, SizeLike DEF SizesOK
<1> QED BY <1>1, <1>2 DEF Books

LEMMA BumpBooks ==
  ASSUME NEW tbl, Books(tbl), NEW ks, NEW waiting
  PROVE  /\ Books(bump(tbl, ks, waiting))
         /\ bump(tbl, ks, waiting).entry = tbl.entry /\ bump(tbl, ks, waiting).order = tbl.order
<1>1. TableOK(bump(tbl, ks, waiting))
  BY BumpGrows DEF Books, Grows
<1>2. /\ bump(tbl, ks, waiting).order = tbl.order /\ bump(tbl, ks, waiting).entry = tbl.entry
      /\ bump(tbl, ks, waiting).bytes = tbl.bytes
  BY DEF bump, Books, TableOK
<1> QED BY <1>1, <1>2, BooksLike

\* The keys ks leave the map and the order, and take their bytes with them.
LEMMA DropBooks ==
  ASSUME NEW tbl, Books(tbl), NEW ks \in SUBSET Cached(tbl)
  PROVE  /\ Books(drop(tbl, ks))
         /\ KeptOK(drop(tbl, ks).order, tbl.order, ks, Len(tbl.order))
<1> DEFINE new == drop(tbl, ks)
<1>1. TableOK(new) /\ \A k \in Keys : new.entry[k] = IF k \in ks THEN None ELSE tbl.entry[k]
  BY DropGrows DEF Books, Grows
<1>2. new.order = without(tbl.order, ks) /\ new.bytes = tbl.bytes - Size(tbl, ks)
  BY DEF drop, dropped
<1>3. KeptOK(new.order, tbl.order, ks, Len(tbl.order))
  BY <1>2, WithoutIs DEF Books, OrderOK
<1> HIDE DEF new
<1>4. OrderOK(new)
  BY <1>1, <1>3 DEF KeptOK, Books, OrderOK
<1>5. Cached(new) = Cached(tbl) \ ks
  BY <1>1 DEF Cached
<1>6. Size(new, Cached(new)) = Size(tbl, Cached(tbl) \ ks)
  <2>1. IsFiniteSet(Cached(tbl) \ ks)
    BY BooksSizes, FS_Subset DEF SizesOK
  <2>2. \A k \in Cached(tbl) \ ks : new.entry[k].value = tbl.entry[k].value
    BY <1>1 DEF Cached
  <2> QED BY <1>5, <2>1, <2>2, SizeLike
<1>7. Size(tbl, Cached(tbl) \ ks) = tbl.bytes - Size(tbl, ks)
  BY BooksSizes, SizeOfDifference DEF Books
<1> QED BY <1>1, <1>2, <1>3, <1>4, <1>6, <1>7 DEF Books, new

\* What is removed is what was there; the order is shorter by the first keys, if
\* these are removed.
LEMMA RemoveBooks ==
  ASSUME NEW tbl, Books(tbl), NEW ks \in SUBSET Keys, NEW waiting
  PROVE  LET new == remove(tbl, ks, waiting) IN
         /\ Books(new)
         /\ \A d \in 0..Len(tbl.order) :
              (\A i \in 1..d : tbl.order[i] \in ks) => Len(new.order) <= Len(tbl.order) - d
<1> DEFINE there == {k \in ks : Has(tbl, k)}
           bumped == bump(tbl, there, waiting)
           new == drop(bumped, there)
<1>1. there \in SUBSET Cached(tbl) /\ \A k \in ks \cap Cached(tbl) : k \in there
  BY DEF Has, Cached
<1>2. remove(tbl, ks, waiting) = new
  BY DEF remove
<1> HIDE DEF there
<1>3. Books(bumped) /\ bumped.order = tbl.order /\ Cached(bumped) = Cached(tbl)
  BY BumpBooks DEF Cached
<1> HIDE DEF bumped
<1>4. Books(new) /\ KeptOK(new.order, tbl.order, there, Len(tbl.order))
  BY <1>1, <1>3, DropBooks
<1> HIDE DEF new
<1>5. ASSUME NEW d \in 0..Len(tbl.order), \A i \in 1..d : tbl.order[i] \in ks
      PROVE  Len(new.order) <= Len(tbl.order) - d
  <2>1. tbl.order \in Seq(Keys) /\ \A i \in 1..Len(tbl.order) : tbl.order[i] \in Cached(tbl)
    BY DEF Books, OrderOK, Cached
  <2>2. \A i \in 1..d : i \in 1..Len(tbl.order)
    BY <2>1
  <2>3. \A i \in 1..d : tbl.order[i] \in there
    BY <1>1, <1>5, <2>1, <2>2
  <2> QED BY <1>4, <2>3 DEF KeptOK
<1> QED BY <1>2, <1>4, <1>5

LEMMA NoLonger ==
  ASSUME NEW tbl, Books(tbl), NEW ks \in SUBSET Keys, NEW waiting
  PROVE  /\ Books(remove(tbl, ks, waiting))
         /\ Len(remove(tbl, ks, waiting).order) <= Len(tbl.order)
         /\ Len(tbl.order) \in Nat /\ Len(remove(tbl, ks, waiting).order) \in Nat
<1> DEFINE new == remove(tbl, ks, waiting)
<1>1. /\ Books(new)
      /\ \A d \in 0..Len(tbl.order) :
           (\A i \in 1..d : tbl.order[i] \in ks) => Len(new.order) <= Len(tbl.order) - d
  BY RemoveBooks
<1> HIDE DEF new
<1>2. tbl.order \in Seq(Keys) /\ new.order \in Seq(Keys)
  BY <1>1 DEF Books, OrderOK
<1>3. Len(tbl.order) \in Nat /\ Len(new.order) \in Nat
  BY <1>2
<1>4. Len(new.order) <= Len(tbl.order) - 0
  BY <1>1, <1>3
<1> QED BY <1>1, <1>3, <1>4 DEF new

LEMMA SweepBooks ==
  ASSUME NEW tbl, Books(tbl), NEW waiting
  PROVE  /\ Books(sweepExpired(tbl, waiting)) /\ Len(tbl.order) \in Nat
         /\ Len(sweepExpired(tbl, waiting).order) \in Nat
         /\ Len(sweepExpired(tbl, waiting).order) <= Len(tbl.order)
BY NoLonger DEF sweepExpired

\* However much was added, the bound holds once the order was trimmed.
LEMMA TrimBooks ==
  ASSUME NEW tbl, Books(tbl), NEW waiting
  PROVE  Books(trim(tbl, waiting)) /\ Len(trim(tbl, waiting).order) <= MaxSize
<1> DEFINE swept == sweepExpired(tbl, waiting)
           d == Len(swept.order) - MaxSize
           fewer == remove(swept, Oldest(swept, d), waiting)
           n == Len(fewer.order)
           lighter == {i \in 0..n : fewer.bytes - Size(fewer, Oldest(fewer, i)) <= MaxBytes}
           m == Min(lighter \cup {n})
<1>1. trim(tbl, waiting) = remove(fewer, Oldest(fewer, m), waiting)
  BY DEF trim
<1>2. Books(swept) /\ Len(swept.order) \in Nat /\ MaxSize \in Nat
  BY SweepBooks, CacheAssumption
<1> HIDE DEF swept
<1>3. ASSUME NEW t, Books(t), NEW i \in Int, i <= Len(t.order)
      PROVE  Oldest(t, i) \in SUBSET Keys /\ \A j \in 1..i : t.order[j] \in Oldest(t, i)
  <2>1. t.order \in Seq(Keys)
    BY <1>3 DEF Books, OrderOK
  <2>2. \A j \in 1..i : t.order[j] \in Keys
    BY <1>3, <2>1
  <2> QED BY <2>2 DEF Oldest
<1>4. Books(fewer) /\ n \in Nat /\ n <= MaxSize
  <2>1. Oldest(swept, d) \in SUBSET Keys /\ \A j \in 1..d : swept.order[j] \in Oldest(swept, d)
    BY <1>2, <1>3
  <2>2. Books(fewer) /\ n \in Nat /\ n <= Len(swept.order)
    BY <1>2, <2>1, NoLonger
  <2>3. CASE d <= 0
    BY <1>2, <2>2, <2>3
  <2>4. CASE d > 0
    <3>1. d \in 0..Len(swept.order)
      BY <1>2, <2>4
    <3>2. n <= Len(swept.order) - d
      BY <1>2, <2>1, <3>1, RemoveBooks
    <3> QED BY <1>2, <2>2, <3>2
  <2> QED BY <1>2, <2>3, <2>4
<1> HIDE DEF fewer
<1>5. m \in 0..n
  <2> DEFINE all == lighter \cup {n}
  <2>1. all \in SUBSET Nat /\ all \subseteq 0..n /\ all # {}
    BY <1>4
  <2> HIDE DEF all
  <2>2. PICK least \in Nat : least \in all /\ \A i \in Nat : i < least => i \notin all
    BY <2>1, Least
  <2>3. \A i \in all : least <= i
    BY <2>1, <2>2
  <2>4. Min(all) \in all
    BY <2>2, <2>3 DEF Min
  <2> QED BY <2>1, <2>4 DEF all
<1> HIDE DEF m
<1>6. Oldest(fewer, m) \in SUBSET Keys
  BY <1>3, <1>4, <1>5
<1>7. /\ Books(remove(fewer, Oldest(fewer, m), waiting))
      /\ Len(remove(fewer, Oldest(fewer, m), waiting).order) <= n
      /\ Len(remove(fewer, Oldest(fewer, m), waiting).order) \in Nat
  BY <1>4, <1>6, NoLonger
<1> QED BY <1>1, <1>2, <1>4, <1>7

\* A key that was not in the order goes to its end.
AppendedOK(new, old, k) ==
  /\ new \in Seq(Keys) /\ Len(new) = Len(old) + 1
  /\ \A x \in Keys : (\E i \in 1..Len(new) : new[i] = x) <=> (\E i \in 1..Len(old) : old[i] = x) \/ x = k
  /\ IsInjective(new)

LEMMA AppendIs ==
  ASSUME NEW old \in Seq(Keys), IsInjective(old), NEW k \in Keys, ~\E i \in 1..Len(old) : old[i] = k
  PROVE  AppendedOK(Append(old, k), old, k)
<1> DEFINE new == Append(old, k)
<1>1. /\ new \in Seq(Keys) /\ Len(new) = Len(old) + 1 /\ new[Len(old) + 1] = k /\ Len(old) \in Nat
      /\ \A i \in 1..Len(old) : new[i] = old[i]
      /\ DOMAIN old = 1..Len(old)
  OBVIOUS
<1> HIDE DEF new
<1>2. DOMAIN new = 1..Len(new)
  BY <1>1
<1>3. \A i \in 1..Len(new) : i \in 1..Len(old) \/ i = Len(old) + 1
  BY <1>1
<1>4. ASSUME NEW i \in 1..Len(new), NEW j \in 1..Len(new), new[i] = new[j] PROVE i = j
  BY <1>1, <1>3, <1>4 DEF IsInjective
<1>5. \A x \in Keys : (\E i \in 1..Len(new) : new[i] = x) <=> (\E i \in 1..Len(old) : old[i] = x) \/ x = k
  BY <1>1, <1>3
<1>6. IsInjective(new)
  BY <1>2, <1>4 DEF IsInjective
<1> QED BY <1>1, <1>5, <1>6 DEF AppendedOK, new

\* An entry that is read goes to the end of the order.
LEMMA TouchBooks ==
  ASSUME NEW tbl, Books(tbl), NEW k \in Keys, tbl.entry[k] # None
  PROVE  Books(touch(tbl, k)) /\ Len(touch(tbl, k).order) <= Len(tbl.order)
<1>0. Len(tbl.order) \in Nat
  BY DEF Books, OrderOK
<1>1. CASE policy # "lru"
  BY <1>0, <1>1 DEF touch
<1>2. CASE policy = "lru"
  <2> DEFINE new == touch(tbl, k)
             rest == without(tbl.order, {k})
  <2>1. /\ new.order = Append(rest, k) /\ new.entry = tbl.entry /\ new.bytes = tbl.bytes
    BY <1>2 DEF touch, Books, TableOK
  <2>2. TableOK(new)
    BY TouchGrows DEF Books, Grows
  <2>3. /\ tbl.order \in Seq(Keys) /\ IsInjective(tbl.order)
        /\ \A x \in Keys : (\E i \in 1..Len(tbl.order) : tbl.order[i] = x) <=> tbl.entry[x] # None
    BY DEF Books, OrderOK
  <2>4. KeptOK(rest, tbl.order, {k}, Len(tbl.order))
    BY <2>3, WithoutIs
  <2> HIDE DEF new, rest
  <2>5. /\ rest \in Seq(Keys) /\ IsInjective(rest) /\ Len(rest) < Len(tbl.order)
        /\ \A x \in Keys : (\E i \in 1..Len(rest) : rest[i] = x) <=> tbl.entry[x] # None /\ x # k
    <3>1. \A x \in Keys : (\E i \in 1..Len(rest) : rest[i] = x) <=> tbl.entry[x] # None /\ x # k
      BY <2>3, <2>4 DEF KeptOK
    <3>2. Len(rest) < Len(tbl.order)
      BY <2>3, <2>4 DEF KeptOK
    <3> QED BY <2>3, <2>4, <3>1, <3>2 DEF KeptOK
  <2>6. AppendedOK(new.order, rest, k)
    BY <2>1, <2>5, AppendIs
  <2>7. OrderOK(new)
    BY <2>1, <2>5, <2>6 DEF OrderOK, AppendedOK
  <2>8. Len(new.order) <= Len(tbl.order)
    BY <1>0, <2>5, <2>6 DEF AppendedOK
  <2>9. Cached(new) = Cached(tbl) /\ Size(new, Cached(tbl)) = Size(tbl, Cached(tbl))
    BY <2>1, BooksSizes, SizeLike DEF SizesOK, Cached
  <2>10. Books(new)
    BY <2>1, <2>2, <2>7, <2>9 DEF Books
  <2> QED BY <2>8, <2>10 DEF new
<1> QED BY <1>1, <1>2

LEMMA DropIfExpiredBooks ==
  ASSUME NEW tbl, Books(tbl), NEW k \in Keys, NEW waiting
  PROVE  /\ Books(dropIfExpired(tbl, k, waiting))
         /\ Len(dropIfExpired(tbl, k, waiting).order) <= Len(tbl.order)
<1>1. Len(tbl.order) \in Nat
  BY DEF Books, OrderOK
<1>2. {k} \in SUBSET Keys
  OBVIOUS
<1> QED BY <1>1, <1>2, NoLonger DEF dropIfExpired

\* A new entry adds its bytes, and its key to the order.
LEMMA StoreBooks ==
  ASSUME NEW tbl, Books(tbl), now \in 0..MaxTime,
         NEW k \in Keys, NEW v \in Values, NEW o \in Options, NEW waiting
  PROVE  Books(store(tbl, k, v, o, waiting)) /\ Len(store(tbl, k, v, o, waiting).order) <= MaxSize
<1> DEFINE bumped == bump(tbl, {k}, waiting)
           cleared == IF Has(tbl, k) THEN drop(bumped, {k}) ELSE bumped
           e == [value |-> v, time |-> now, ttl |-> o.ttl, tags |-> o.tags]
           new == added(cleared, k, e)
<1>1. store(tbl, k, v, o, waiting) = trim(new, waiting)
  BY DEF store
<1>2. Books(bumped) /\ bumped.entry = tbl.entry
  BY BumpBooks
<1> HIDE DEF bumped
<1>3. Books(cleared) /\ cleared.entry[k] = None
  <2>1. CASE Has(tbl, k)
    <3>1. {k} \in SUBSET Cached(bumped)
      BY <1>2, <2>1 DEF Has, Cached
    <3>2. Books(drop(bumped, {k}))
      BY <1>2, <3>1, DropBooks
    <3>3. drop(bumped, {k}).entry[k] = None
      BY <1>2, DropGrows DEF Books
    <3> QED BY <2>1, <3>2, <3>3
  <2>2. CASE ~Has(tbl, k)
    BY <1>2, <2>2 DEF Has
  <2> QED BY <2>1, <2>2
<1> HIDE DEF cleared
<1>4. e \in Entry /\ e.value = v /\ e # None
  BY NewEntry, EntryAssumption
<1>5. TableOK(new)
  BY <1>3, <1>4, AddedOK DEF Books
<1> HIDE DEF e
<1>6. /\ new.order = Append(cleared.order, k) /\ new.entry = [cleared.entry EXCEPT ![k] = e]
      /\ new.bytes = cleared.bytes + v
  BY <1>4 DEF added
<1> HIDE DEF new
<1>7. /\ cleared.order \in Seq(Keys) /\ IsInjective(cleared.order)
      /\ ~\E i \in 1..Len(cleared.order) : cleared.order[i] = k
      /\ cleared.entry \in [Keys -> Entry \cup {None}]
  BY <1>3 DEF Books, OrderOK, TableOK
<1>8. AppendedOK(new.order, cleared.order, k)
  BY <1>6, <1>7, AppendIs
<1>9. /\ new.entry[k] = e /\ \A x \in Keys \ {k} : new.entry[x] = cleared.entry[x]
  BY <1>6, <1>7
<1>10. OrderOK(new)
  <2>1. new.order \in Seq(Keys) /\ IsInjective(new.order)
    BY <1>8 DEF AppendedOK
  <2>2. ASSUME NEW x \in Keys
        PROVE  (\E i \in 1..Len(new.order) : new.order[i] = x) <=> new.entry[x] # None
    <3>1. (\E i \in 1..Len(new.order) : new.order[i] = x) <=> cleared.entry[x] # None \/ x = k
      BY <1>3, <1>8 DEF AppendedOK, Books, OrderOK
    <3> QED BY <1>4, <1>9, <3>1
  <2> QED BY <2>1, <2>2 DEF OrderOK
<1>11. Cached(new) \ {k} = Cached(cleared) /\ k \in Cached(new)
  BY <1>3, <1>4, <1>9 DEF Cached
<1>12. SizesOK(cleared, Cached(cleared)) /\ cleared.bytes = Size(cleared, Cached(cleared))
  BY <1>3, BooksSizes DEF Books
<1>13. Size(new, Cached(cleared)) = Size(cleared, Cached(cleared))
  BY <1>9, <1>11, <1>12, SizeLike DEF SizesOK, Cached
<1>14. SizesOK(new, Cached(new))
  <2>1. IsFiniteSet(Cached(cleared) \cup {k}) /\ Cached(new) = Cached(cleared) \cup {k}
    BY <1>11, <1>12, FS_AddElement DEF SizesOK
  <2>2. ASSUME NEW x \in Cached(new) PROVE new.entry[x].value \in Nat
    <3>1. v \in Nat
      BY CacheAssumption
    <3>2. CASE x = k
      BY <1>4, <1>9, <3>1, <3>2
    <3>3. CASE x # k
      <4>1. x \in Cached(cleared) /\ new.entry[x] = cleared.entry[x]
        BY <1>9, <1>11, <3>3 DEF Cached
      <4> QED BY <1>12, <4>1 DEF SizesOK
    <3> QED BY <3>2, <3>3
  <2> QED BY <2>1, <2>2 DEF SizesOK
<1>15. Size(new, Cached(new)) = v + Size(new, Cached(cleared)) /\ Size(new, Cached(cleared)) \in Nat
  BY <1>4, <1>9, <1>11, <1>14, SizeOfRest
<1>16. new.bytes = Size(new, Cached(new))
  <2>1. v \in Nat
    BY CacheAssumption
  <2> QED BY <1>6, <1>12, <1>13, <1>15, <2>1
<1>17. Books(new)
  BY <1>5, <1>10, <1>16 DEF Books
<1> QED BY <1>1, <1>17, TrimBooks

\* A renewed entry trades its bytes.
LEMMA RenewedBooks ==
  ASSUME NEW tbl, Books(tbl), now \in 0..MaxTime, NEW k \in Keys, NEW v \in Values, tbl.entry[k] # None
  PROVE  /\ Books(renewed(tbl, k, v)) /\ renewed(tbl, k, v).order = tbl.order
         /\ renewed(tbl, k, v).entry[k] # None
<1> DEFINE old == tbl.entry[k]
           e == [value |-> v, time |-> now, ttl |-> old.ttl, tags |-> old.tags]
           new == renewed(tbl, k, v)
<1>1. old \in Entry /\ tbl.entry \in [Keys -> Entry \cup {None}]
  BY DEF Books, TableOK
<1>2. e \in Entry /\ e.value = v /\ e # None
  BY <1>1, NewEntry, EntryAssumption
<1>3. TableOK(new)
  BY RenewedGrows DEF Grows, Books
<1>4. /\ new.order = tbl.order /\ new.bytes = tbl.bytes - old.value + v
      /\ new.entry = [tbl.entry EXCEPT ![k] = e]
  BY DEF renewed
<1> HIDE DEF e, new
<1>5. new.entry[k] = e /\ \A x \in Keys \ {k} : new.entry[x] = tbl.entry[x]
  BY <1>1, <1>4
<1>6. Cached(new) = Cached(tbl) /\ k \in Cached(tbl)
  BY <1>2, <1>5 DEF Cached
<1>7. OrderOK(new)
  BY <1>2, <1>4, <1>5 DEF Books, OrderOK
<1> DEFINE rest == Cached(tbl) \ {k}
<1>8. SizesOK(tbl, Cached(tbl)) /\ tbl.bytes = Size(tbl, Cached(tbl))
  BY BooksSizes DEF Books
<1>9. Size(tbl, Cached(tbl)) = old.value + Size(tbl, rest) /\ Size(tbl, rest) \in Nat
  BY <1>6, <1>8, SizeOfRest
<1>10. v \in Nat /\ old.value \in Nat
  BY <1>1, CacheAssumption DEF Entry
<1>11. SizesOK(new, Cached(tbl))
  BY <1>2, <1>5, <1>8, <1>10 DEF SizesOK, Cached
<1>12. Size(new, Cached(tbl)) = v + Size(new, rest) /\ Size(new, rest) \in Nat
  BY <1>2, <1>5, <1>6, <1>11, SizeOfRest
<1>13. Size(new, rest) = Size(tbl, rest)
  <2>1. IsFiniteSet(rest) /\ \A x \in rest : new.entry[x].value = tbl.entry[x].value
    BY <1>5, <1>8, SmallerSet, <1>6 DEF SizesOK, Cached
  <2> QED BY <2>1, SizeLike
<1>14. new.bytes = Size(new, Cached(new))
  BY <1>4, <1>6, <1>8, <1>9, <1>10, <1>12, <1>13
<1>15. Books(new)
  BY <1>3, <1>7, <1>14 DEF Books
<1> QED BY <1>2, <1>4, <1>5, <1>15 DEF new
-----------------------------------------------------------------------------
(* Loads and tables. *)

\* A load that shares its key with no other one commits when the key's counter is
\* the one it began with, and the counter went up when its key was changed.
VoidInv ==
  ~disposed => \A l \in Loads : InFlight(l) =>
    /\ loads[l].s0 \in Nat
    /\ ~loads[l].shared => /\ InFlightOf(loads[l].key) = {l}
                           /\ loads[l].s0 <= table.bumps[loads[l].key]
                           /\ loads[l].voided \/ loads[l].forgotten
                                => loads[l].s0 < table.bumps[loads[l].key]

CommitInv == now \in 0..MaxTime /\ TableOK(table) /\ VoidInv

\* Steps that start and end no load.
LEMMA ChangeKeepsVoid ==
  ASSUME LoadInv, CommitInv, LoadsLike, Grows(table, table'), disposed' = disposed,
         \A l \in Loads : loads'[l].shared = loads[l].shared,
         \A l \in Loads : InFlight(l) /\ ~(loads[l].voided \/ loads[l].forgotten)
                          /\ (loads'[l].voided \/ loads'[l].forgotten)
                            => table.bumps[loads[l].key] < table'.bumps[loads[l].key]
  PROVE  VoidInv'
<1>1. \A l \in Loads : /\ loads'[l].kind = loads[l].kind /\ loads'[l].key = loads[l].key
                       /\ loads'[l].s0 = loads[l].s0
  BY DEF LoadsLike, Like
<1>2. \A k : InFlightOf(k)' = InFlightOf(k)
  BY <1>1 DEF InFlightOf, InFlight
<1> SUFFICES ASSUME ~disposed, NEW l \in Loads, InFlight(l), ~loads[l].shared
             PROVE  /\ loads[l].s0 <= table'.bumps[loads[l].key]
                    /\ loads'[l].voided \/ loads'[l].forgotten
                         => loads[l].s0 < table'.bumps[loads[l].key]
  BY <1>1, <1>2 DEF VoidInv, CommitInv, InFlight
<1>3. /\ loads[l].s0 \in Nat /\ loads[l].s0 <= table.bumps[loads[l].key]
      /\ loads[l].voided \/ loads[l].forgotten => loads[l].s0 < table.bumps[loads[l].key]
  BY DEF VoidInv, CommitInv
<1>4. loads[l].key \in Keys
  BY DEF LoadInv, LoadsOK, LoadOK, InFlight
<1>5. /\ table.bumps[loads[l].key] \in Nat /\ table'.bumps[loads[l].key] \in Nat
      /\ table.bumps[loads[l].key] <= table'.bumps[loads[l].key]
  BY <1>4 DEF Grows, CommitInv, TableOK
<1> QED BY <1>3, <1>5

\* The changes of some keys by user code.
LEMMA VoidKeepsVoid ==
  ASSUME LoadInv, CommitInv, NEW ks, Void(ks), Grows(table, table'),
         Raised(table, table', ks, pending), disposed' = disposed
  PROVE  VoidInv'
<1>1. /\ LoadsLike
      /\ \A l \in Loads : /\ loads'[l].forgotten = loads[l].forgotten
                          /\ loads'[l].shared = loads[l].shared
                          /\ ~(InFlight(l) /\ loads[l].key \in ks) => loads'[l] = loads[l]
  BY VoidIsLike
<1>2. ASSUME NEW l \in Loads, InFlight(l), ~(loads[l].voided \/ loads[l].forgotten),
             loads'[l].voided \/ loads'[l].forgotten
      PROVE  table.bumps[loads[l].key] < table'.bumps[loads[l].key]
  <2>1. loads[l].key \in ks \cap Keys
    BY <1>1, <1>2 DEF LoadInv, LoadsOK, LoadOK, InFlight
  <2>2. pending[loads[l].key] = l /\ l # None
    BY <1>2, CacheAssumption DEF LoadInv, PendingInv, Loads
  <2> QED BY <2>1, <2>2 DEF Raised
<1> QED BY <1>1, <1>2, ChangeKeepsVoid

LEMMA ForgetKeepsVoid ==
  ASSUME LoadInv, CommitInv, Forget, Grows(table, table'),
         Raised(table, table', Keys, pending), disposed' = disposed
  PROVE  VoidInv'
<1>1. /\ LoadsLike
      /\ \A l \in Loads : loads'[l].voided = loads[l].voided /\ loads'[l].shared = loads[l].shared
  BY ForgetIsLike
<1>2. ASSUME NEW l \in Loads, InFlight(l), ~loads[l].forgotten
      PROVE  table.bumps[loads[l].key] < table'.bumps[loads[l].key]
  <2>1. loads[l].key \in Keys
    BY <1>2 DEF LoadInv, LoadsOK, LoadOK, InFlight
  <2>2. pending[loads[l].key] = l /\ l # None
    BY <1>2, CacheAssumption DEF LoadInv, PendingInv, Loads
  <2> QED BY <2>1, <2>2 DEF Raised
<1> QED BY <1>1, <1>2, ChangeKeepsVoid

LEMMA QuietKeepsVoid ==
  ASSUME LoadInv, CommitInv, UNCHANGED <<loads, disposed>>, Grows(table, table')
  PROVE  VoidInv'
<1>1. LoadsLike
  BY DEF LoadsLike, Like, LoadInv, LoadsOK
<1> QED BY <1>1, ChangeKeepsVoid

LEMMA StartKeepsVoid ==
  ASSUME LoadInv, CommitInv, NEW k \in Keys, NEW o, NEW kind \in {"sync", "async"}, NEW v, NEW l,
         Started(l, k, o, kind, v), Grows(table, table'), disposed' = disposed
  PROVE  VoidInv'
<1>1. /\ l \in Loads /\ loads[l].kind = "none" /\ loads'[l].kind = kind /\ loads'[l].key = k
      /\ loads'[l].s0 = table'.bumps[k] /\ ~loads'[l].voided /\ ~loads'[l].forgotten
      /\ (loads'[l].shared <=> InFlightOf(k) # {})
      /\ \A m \in Loads \ {l} : /\ loads'[m].kind = loads[m].kind /\ loads'[m].key = loads[m].key
                                /\ loads'[m].s0 = loads[m].s0
                                /\ loads'[m].voided = loads[m].voided
                                /\ loads'[m].forgotten = loads[m].forgotten
                                /\ m \in InFlightOf(k) => loads'[m].shared
                                /\ m \notin InFlightOf(k) => loads'[m].shared = loads[m].shared
  BY DEF Started, Like
<1>2. table'.bumps[k] \in Nat
  BY DEF Grows, TableOK
<1>3. ASSUME NEW x PROVE InFlightOf(x)' = IF x = k THEN InFlightOf(x) \cup {l} ELSE InFlightOf(x)
  BY <1>1 DEF InFlightOf, InFlight
<1> SUFFICES ASSUME ~disposed, NEW m \in Loads, InFlight(m)'
             PROVE  /\ loads'[m].s0 \in Nat
                    /\ ~loads'[m].shared =>
                         /\ InFlightOf(loads[m].key)' = {m}
                         /\ loads'[m].s0 <= table'.bumps[loads'[m].key]
                         /\ loads'[m].voided \/ loads'[m].forgotten
                              => loads'[m].s0 < table'.bumps[loads'[m].key]
  BY DEF VoidInv
<1>4. CASE m = l
  BY <1>1, <1>2, <1>3, <1>4
<1>5. CASE m # l
  <2>1. /\ InFlight(m) /\ loads'[m].key = loads[m].key /\ loads'[m].s0 = loads[m].s0
        /\ loads'[m].voided = loads[m].voided /\ loads'[m].forgotten = loads[m].forgotten
    BY <1>1, <1>5 DEF InFlight
  <2>2. loads[m].s0 \in Nat
    BY <2>1 DEF CommitInv, VoidInv
  <2>3. ASSUME ~loads'[m].shared
        PROVE  /\ InFlightOf(loads[m].key)' = {m} /\ loads[m].s0 <= table'.bumps[loads[m].key]
               /\ loads[m].voided \/ loads[m].forgotten => loads[m].s0 < table'.bumps[loads[m].key]
    <3>1. m \notin InFlightOf(k) /\ ~loads[m].shared
      BY <1>1, <1>5, <2>3
    <3>2. loads[m].key # k /\ loads[m].key \in Keys
      BY <2>1, <3>1 DEF InFlightOf, InFlight, LoadInv, LoadsOK, LoadOK
    <3>3. /\ InFlightOf(loads[m].key) = {m} /\ loads[m].s0 <= table.bumps[loads[m].key]
          /\ loads[m].voided \/ loads[m].forgotten => loads[m].s0 < table.bumps[loads[m].key]
      BY <2>1, <3>1 DEF CommitInv, VoidInv
    <3>4. /\ table.bumps[loads[m].key] \in Nat /\ table'.bumps[loads[m].key] \in Nat
          /\ table.bumps[loads[m].key] <= table'.bumps[loads[m].key]
      BY <3>2 DEF Grows, TableOK, CommitInv
    <3>5. InFlightOf(loads[m].key)' = {m}
      BY <1>1, <2>1, <3>2, <3>3 DEF InFlightOf, InFlight
    <3> QED BY <2>2, <3>3, <3>4, <3>5
  <2> QED BY <2>1, <2>2, <2>3
<1> QED BY <1>4, <1>5

\* The end of a load, which may reset the counter of its key.
LEMMA DoneKeepsVoid ==
  ASSUME LoadInv, CommitInv, NEW l \in Loads, InFlight(l), Done(l), pending' = Released(l),
         disposed' = disposed, TableOK(table'),
         \A k \in Keys \ {loads[l].key} : table.bumps[k] <= table'.bumps[k]
  PROVE  VoidInv'
<1>1. loads'[l].kind = "done" /\ \A m \in Loads \ {l} : loads'[m] = loads[m]
  BY DoneKeeps
<1> SUFFICES ASSUME ~disposed, NEW m \in Loads, InFlight(m)'
             PROVE  /\ loads'[m].s0 \in Nat
                    /\ ~loads'[m].shared =>
                         /\ InFlightOf(loads[m].key)' = {m}
                         /\ loads'[m].s0 <= table'.bumps[loads'[m].key]
                         /\ loads'[m].voided \/ loads'[m].forgotten
                              => loads'[m].s0 < table'.bumps[loads'[m].key]
  BY DEF VoidInv
<1>2. m # l /\ InFlight(m) /\ loads'[m] = loads[m]
  BY <1>1 DEF InFlight
<1>3. loads[m].s0 \in Nat
  BY <1>2 DEF CommitInv, VoidInv
<1>4. ASSUME ~loads[m].shared
      PROVE  /\ InFlightOf(loads[m].key)' = {m} /\ loads[m].s0 <= table'.bumps[loads[m].key]
             /\ loads[m].voided \/ loads[m].forgotten => loads[m].s0 < table'.bumps[loads[m].key]
  <2>1. /\ InFlightOf(loads[m].key) = {m} /\ loads[m].s0 <= table.bumps[loads[m].key]
        /\ loads[m].voided \/ loads[m].forgotten => loads[m].s0 < table.bumps[loads[m].key]
    BY <1>2, <1>4 DEF CommitInv, VoidInv
  <2>2. loads[m].key # loads[l].key
    BY <1>2, <2>1 DEF InFlightOf
  <2>3. loads[m].key \in Keys
    BY <1>2 DEF LoadInv, LoadsOK, LoadOK, InFlight
  <2>4. /\ table.bumps[loads[m].key] \in Nat /\ table'.bumps[loads[m].key] \in Nat
        /\ table.bumps[loads[m].key] <= table'.bumps[loads[m].key]
    BY <2>2, <2>3 DEF TableOK, CommitInv
  <2>5. InFlightOf(loads[m].key)' \subseteq InFlightOf(loads[m].key)
    BY <1>1 DEF InFlightOf, InFlight
  <2>6. m \in InFlightOf(loads[m].key)'
    BY <1>2 DEF InFlightOf
  <2>7. InFlightOf(loads[m].key)' = {m}
    BY <2>1, <2>5, <2>6
  <2> QED BY <1>3, <2>1, <2>4, <2>7
<1> QED BY <1>2, <1>3, <1>4

LEMMA ForgetBumpsKeeps ==
  ASSUME TableOK(table), NEW k \in Keys
  PROVE  /\ TableOK(ForgetBumps(k)) /\ ForgetBumps(k).entry = table.entry
         /\ \A x \in Keys \ {k} : ForgetBumps(k).bumps[x] = table.bumps[x]
<1>1. /\ DOMAIN ForgetBumps(k) = DOMAIN table /\ ForgetBumps(k).entry = table.entry
      /\ ForgetBumps(k).index = table.index
      /\ ForgetBumps(k).bumps = [table.bumps EXCEPT ![k] = 0]
  BY DEF ForgetBumps, TableOK
<1>2. /\ [table.bumps EXCEPT ![k] = 0] \in [Keys -> Nat]
      /\ \A x \in Keys \ {k} : [table.bumps EXCEPT ![k] = 0][x] = table.bumps[x]
  BY DEF TableOK
<1> QED BY <1>1, <1>2 DEF TableOK

LEMMA CommitNext ==
  ASSUME LoadInv, CommitInv, [Next]_vars
  PROVE  CommitInv'
<1>0. TableOK(table) /\ now \in 0..MaxTime
  BY DEF CommitInv
<1>1. CASE UNCHANGED vars
  BY <1>1, QuietKeepsVoid DEF vars, CommitInv, Grows, TableOK
<1>2. CASE Tick
  <2>1. VoidInv'
    <3>1. Grows(table, table')
      BY <1>0, <1>2 DEF Tick, Grows, TableOK
    <3> QED BY <1>2, <3>1, QuietKeepsVoid DEF Tick
  <2>2. now' \in 0..MaxTime /\ table' = table
    BY <1>0, <1>2, CacheAssumption DEF Tick
  <2> QED BY <1>0, <2>1, <2>2 DEF CommitInv, TableOK
<1>3. ASSUME Grows(table, table'), now' = now, VoidInv' PROVE CommitInv'
  <2>1. TableOK(table')
    BY <1>3 DEF Grows
  <2> QED BY <1>0, <1>3, <2>1 DEF CommitInv, TableOK
<1>4. ASSUME Grows(table, table'), UNCHANGED <<now, loads, disposed>> PROVE CommitInv'
  BY <1>3, <1>4, QuietKeepsVoid
<1>5. ASSUME NEW ks, Grows(table, table'), Raised(table, table', ks, pending), Void(ks),
             UNCHANGED <<now, disposed>>
      PROVE  CommitInv'
  BY <1>3, <1>5, VoidKeepsVoid
<1>6. ASSUME NEW ks, table' = remove(bump(table, ks, pending), ks, pending)
      PROVE  Grows(table, table') /\ Raised(table, table', ks, pending)
  <2> DEFINE bumped == bump(table, ks, pending)
  <2>1. Grows(table, bumped) /\ Raised(table, bumped, ks, pending)
    BY <1>0, BumpGrows
  <2> HIDE DEF bumped
  <2>2. Grows(bumped, remove(bumped, ks, pending))
    BY <2>1, RemoveGrows DEF Grows
  <2>3. Grows(table, remove(bumped, ks, pending)) /\ Raised(table, remove(bumped, ks, pending), ks, pending)
    BY <1>0, <2>1, <2>2, GrowsTwice
  <2> QED BY <1>6, <2>3 DEF bumped
<1>7. CASE Sweep
  BY <1>0, <1>4, <1>7, TrimGrows DEF Sweep
<1>8. CASE clear
  <2>1. Grows(table, table') /\ Raised(table, table', Keys, pending)
    BY <1>6, <1>8 DEF clear
  <2>2. VoidInv'
    BY <1>8, <2>1, ForgetKeepsVoid DEF clear
  <2> QED BY <1>3, <1>8, <2>1, <2>2 DEF clear
<1>9. CASE dispose
  <2> DEFINE t1 == remove(table, Keys, [k \in Keys |-> None])
  <2>1. Grows(table, t1)
    BY <1>0, RemoveGrows
  <2>2. table' = [t1 EXCEPT !.bumps = [k \in Keys |-> 0]]
    BY <1>9 DEF dispose
  <2> HIDE DEF t1
  <2>3. TableOK(t1)
    BY <2>1 DEF Grows
  <2>4. /\ DOMAIN table' = DOMAIN t1 /\ table'.entry = t1.entry /\ table'.index = t1.index
        /\ table'.bumps = [k \in Keys |-> 0]
    BY <2>2, <2>3 DEF TableOK
  <2>5. TableOK(table')
    BY <2>3, <2>4 DEF TableOK
  <2>6. VoidInv' /\ now' = now
    BY <1>9 DEF dispose, VoidInv
  <2> QED BY <1>0, <2>5, <2>6 DEF CommitInv, TableOK
<1>10. ASSUME NEW k \in Keys, get(k) PROVE CommitInv'
  <2>1. Grows(table, touch(table, k))
    BY <1>0, TouchGrows
  <2>2. Grows(table, dropIfExpired(table, k, pending))
    BY <1>0, DropIfExpiredGrows
  <2> QED BY <1>4, <1>10, <2>1, <2>2 DEF get
<1>11. ASSUME NEW k \in Keys, peek(k) PROVE CommitInv'
  <2>1. Grows(table, dropIfExpired(table, k, pending))
    BY <1>0, DropIfExpiredGrows
  <2> QED BY <1>4, <1>11, <2>1 DEF peek
<1>12. ASSUME NEW k \in Keys, getOrLoadWithoutLoad(k) PROVE CommitInv'
  <2>1. Grows(table, touch(table, k))
    BY <1>0, TouchGrows
  <2>2. Grows(table, dropIfExpired(table, k, pending))
    BY <1>0, DropIfExpiredGrows
  <2> QED BY <1>4, <1>12, <2>1, <2>2 DEF getOrLoadWithoutLoad
<1>13. ASSUME NEW k \in Keys, delete(k) PROVE CommitInv'
  <2>1. /\ Grows(table, remove(table, {k}, pending))
        /\ Raised(table, remove(table, {k}, pending), {x \in {k} : table.entry[x] # None}, pending)
    BY <1>0, RemoveGrows
  <2>2. Grows(table, bump(table, {k}, pending)) /\ Raised(table, bump(table, {k}, pending), {k}, pending)
    BY <1>0, BumpGrows
  <2>3. Grows(table, table') /\ Raised(table, table', {k}, pending)
    <3>1. CASE Has(table, k)
      <4>1. {x \in {k} : table.entry[x] # None} = {k}
        BY <3>1 DEF Has
      <4> QED BY <1>13, <2>1, <3>1, <4>1 DEF delete
    <3>2. CASE ~Has(table, k)
      BY <1>13, <2>2, <3>2 DEF delete
    <3> QED BY <3>1, <3>2
  <2> QED BY <1>5, <1>13, <2>3 DEF delete
<1>14. ASSUME NEW k \in Keys, NEW v \in Values, revalidate(k, v) PROVE CommitInv'
  <2>1. CASE expired(table.entry[k])
    <3>1. Grows(table, remove(table, {k}, pending))
      BY <1>0, RemoveGrows
    <3> QED BY <1>4, <1>14, <2>1, <3>1 DEF revalidate
  <2>2. CASE ~expired(table.entry[k])
    <3> DEFINE bumped == bump(table, {k}, pending)
               new == renewed(bumped, k, v)
    <3>1. /\ Grows(table, bumped) /\ Raised(table, bumped, {k}, pending)
          /\ bumped.entry[k] # None
      <4>1. table.entry[k] # None
        BY <1>14 DEF revalidate, Has
      <4> QED BY <1>0, <4>1, BumpGrows
    <3> HIDE DEF bumped
    <3>2. Grows(bumped, new)
      BY <1>0, <3>1, RenewedGrows DEF Grows
    <3> HIDE DEF new
    <3>3. Grows(new, touch(new, k))
      BY <3>2, TouchGrows DEF Grows
    <3>4. Grows(table, new) /\ Raised(table, new, {k}, pending)
      BY <1>0, <3>1, <3>2, GrowsTwice
    <3>5. Grows(table, touch(new, k)) /\ Raised(table, touch(new, k), {k}, pending)
      BY <1>0, <3>3, <3>4, GrowsTwice
    <3>6. table' = touch(new, k) /\ Void({k}) /\ UNCHANGED <<now, disposed>>
      BY <1>14, <2>2 DEF revalidate, new, bumped
    <3> QED BY <1>5, <3>5, <3>6
  <2> QED BY <2>1, <2>2
<1>15. ASSUME NEW k \in Keys, NEW v \in Values, NEW o \in Options, set(k, v, o) PROVE CommitInv'
  <2>1. /\ Grows(table, store(table, k, v, o, pending))
        /\ Raised(table, store(table, k, v, o, pending), {k}, pending)
    BY <1>0, StoreGrows
  <2> QED BY <1>5, <1>15, <2>1 DEF set
<1>16. ASSUME NEW t \in Tags, invalidateTag(t) PROVE CommitInv'
  <2> DEFINE ks == table.index[t]
  <2>1. /\ Grows(table, remove(table, ks, pending))
        /\ Raised(table, remove(table, ks, pending), {k \in ks : table.entry[k] # None}, pending)
    BY <1>0, RemoveGrows
  <2>2. {k \in ks : table.entry[k] # None} = ks
    BY <1>0 DEF TableOK
  <2>3. table' = remove(table, ks, pending) /\ Void(ks) /\ UNCHANGED <<now, disposed>>
    BY <1>16 DEF invalidateTag
  <2> HIDE DEF ks
  <2> QED BY <1>5, <2>1, <2>2, <2>3
<1>17. ASSUME NEW ks \in SUBSET Keys, invalidateWhere(ks) PROVE CommitInv'
  <2>1. Grows(table, table') /\ Raised(table, table', ks, pending)
    BY <1>6, <1>17 DEF invalidateWhere
  <2> QED BY <1>5, <1>17, <2>1 DEF invalidateWhere
<1>18. ASSUME NEW k \in Keys, NEW o \in Options, NEW kind \in {"sync", "async"}, NEW v,
              kind = "sync" => v \in Values, getOrLoad(k, o, kind, v)
       PROVE  CommitInv'
  <2>1. Grows(table, table') /\ startLoad(k, o, kind, v) /\ UNCHANGED <<now, disposed>>
    BY <1>0, <1>18, DropIfExpiredGrows DEF getOrLoad
  <2>2. PICK l : Started(l, k, o, kind, v)
    BY <1>18, <2>1, StartedLoad
  <2>3. VoidInv'
    BY <2>1, <2>2, StartKeepsVoid
  <2> QED BY <1>3, <2>1, <2>3
<1>19. ASSUME NEW l \in Loads, InFlight(l), Done(l), pending' = Released(l), UNCHANGED <<now, disposed>>,
              TableOK(table'),
              \A k \in Keys \ {loads[l].key} : table.bumps[k] <= table'.bumps[k]
       PROVE  CommitInv'
  <2>1. VoidInv'
    BY <1>19, DoneKeepsVoid
  <2> QED BY <1>0, <1>19, <2>1 DEF CommitInv, TableOK
<1>20. ASSUME NEW l \in Loads, CommitSync(l) PROVE CommitInv'
  <2> DEFINE r == loads[l]
  <2>1. r.kind = "sync" /\ r.key \in Keys /\ r.options \in Options /\ r.value \in Values
    BY <1>20 DEF CommitSync, LoadInv, LoadsOK, LoadOK
  <2>2. Grows(table, store(table, r.key, r.value, r.options, Released(l)))
    BY <1>0, <2>1, StoreGrows
  <2>3. Grows(table, table)
    BY <1>0 DEF Grows, TableOK
  <2>4. Grows(table, table')
    BY <1>20, <2>2, <2>3 DEF CommitSync
  <2>5. InFlight(l) /\ Done(l) /\ pending' = Released(l) /\ UNCHANGED <<now, disposed>>
    BY <1>20 DEF CommitSync, InFlight
  <2> QED BY <1>19, <2>4, <2>5 DEF Grows
<1>21. ASSUME NEW l \in Loads, Reject(l) PROVE CommitInv'
  <2>1. /\ InFlight(l) /\ Done(l) /\ pending' = Released(l) /\ UNCHANGED <<now, disposed>>
        /\ table' = ForgetBumps(loads[l].key)
    BY <1>21 DEF Reject, InFlight
  <2>2. loads[l].key \in Keys
    BY <2>1 DEF InFlight, LoadInv, LoadsOK, LoadOK
  <2>3. TableOK(table') /\ \A x \in Keys \ {loads[l].key} : table'.bumps[x] = table.bumps[x]
    BY <1>0, <2>1, <2>2, ForgetBumpsKeeps
  <2>4. \A x \in Keys : table.bumps[x] <= table.bumps[x]
    BY <1>0 DEF TableOK
  <2> QED BY <1>19, <2>1, <2>3, <2>4
<1>22. ASSUME NEW l \in Loads, NEW v \in Values, Resolve(l, v) PROVE CommitInv'
  <2> DEFINE r == loads[l]
             t1 == ForgetBumps(r.key)
  <2>1. /\ InFlight(l) /\ Done(l) /\ pending' = Released(l) /\ UNCHANGED <<now, disposed>>
        /\ table' = t1 \/ table' = store(t1, r.key, v, r.options, Released(l))
    BY <1>22 DEF Resolve, InFlight
  <2>2. r.key \in Keys /\ r.options \in Options
    BY <2>1 DEF InFlight, LoadInv, LoadsOK, LoadOK
  <2>3. TableOK(t1) /\ \A x \in Keys \ {r.key} : t1.bumps[x] = table.bumps[x]
    BY <1>0, <2>2, ForgetBumpsKeeps
  <2> HIDE DEF t1
  <2>4. Grows(t1, store(t1, r.key, v, r.options, Released(l)))
    BY <1>0, <2>2, <2>3, StoreGrows
  <2>5. Grows(t1, t1)
    BY <2>3 DEF Grows, TableOK
  <2>6. TableOK(table') /\ \A x \in Keys \ {r.key} : table.bumps[x] <= table'.bumps[x]
    BY <2>1, <2>3, <2>4, <2>5 DEF Grows
  <2> QED BY <1>19, <2>1, <2>6
<1> QED BY <1>1, <1>2, <1>7, <1>8, <1>9, <1>10, <1>11, <1>12, <1>13, <1>14, <1>15, <1>16, <1>17,
           <1>18, <1>20, <1>21, <1>22
        DEF Next

LEMMA CommitAlways == Spec => []CommitInv
<1>1. Init => CommitInv
  <2> SUFFICES ASSUME Init PROVE CommitInv
    OBVIOUS
  <2>1. VoidInv
    BY DEF Init, VoidInv, InFlight, Idle
  <2>2. TableOK(table)
    BY DEF Init, TableOK
  <2>3. now \in 0..MaxTime
    BY CacheAssumption DEF Init
  <2> QED BY <2>1, <2>2, <2>3 DEF CommitInv
<1>2. LoadInv /\ CommitInv /\ [Next]_vars => CommitInv'
  BY CommitNext
<1> QED BY <1>1, <1>2, LoadAlways, PTL DEF Spec

\* cache.ts:14-16, 206-233: a load whose key was changed or cleared after it
\* started commits nothing, unless clear let it run beside another load of the
\* key, whose end resets the counter they share.
THEOREM LateLoadsDoNotCommit == Spec => LateCommitIsVoid
<1> DEFINE Late == \A l \in Loads : Commits(l) =>
                     loads[l].shared \/ ~(loads[l].voided \/ loads[l].forgotten)
<1>1. ASSUME LoadInv, CommitInv, [Next]_vars PROVE [Late]_vars
  <2> SUFFICES ASSUME NEW l \in Loads, Commits(l), ~loads[l].shared,
                      loads[l].voided \/ loads[l].forgotten
               PROVE  FALSE
    OBVIOUS
  <2>0. LoadInv /\ CommitInv
    BY <1>1
  <2>1. /\ InFlight(l) /\ loads'[l].kind = "done" /\ loads'[l].kind # loads[l].kind
        /\ table'.entry[loads[l].key] # table.entry[loads[l].key]
    BY DEF Commits, InFlight
  <2>2. ~disposed => ~IsLive(l)
    <3>1. ASSUME ~disposed
          PROVE  loads[l].s0 \in Nat /\ loads[l].s0 < table.bumps[loads[l].key]
      BY <2>0, <2>1, <3>1 DEF CommitInv, VoidInv
    <3>2. loads[l].key \in Keys
      BY <2>0, <2>1 DEF InFlight, LoadInv, LoadsOK, LoadOK
    <3>3. table.bumps[loads[l].key] \in Nat
      BY <2>0, <3>2 DEF CommitInv, TableOK
    <3> QED BY <3>1, <3>3 DEF IsLive
  <2>3. ~LoadsLike /\ loads' # loads
    BY <2>1 DEF LoadsLike, Like
  <2>4. \A ks : ~Void(ks)
    BY <2>0, <2>3, VoidIsLike
  <2>5. ~Forget
    BY <2>0, <2>3, ForgetIsLike
  <2>6. ASSUME NEW k \in Keys, NEW o \in Options, NEW kind \in {"sync", "async"}, NEW v,
               kind = "sync" => v \in Values, getOrLoad(k, o, kind, v)
        PROVE  FALSE
    <3>1. PICK m : Started(m, k, o, kind, v)
      BY <2>0, <2>6, StartedLoad DEF getOrLoad
    <3> QED BY <2>1, <3>1 DEF Started, Like, InFlight
  <2>7. ASSUME NEW m \in Loads, InFlight(m), Done(m), pending' = Released(m) PROVE m = l
    BY <2>0, <2>1, <2>7, DoneKeeps
  <2>8. ASSUME CommitSync(l) PROVE FALSE
    BY <2>1, <2>2, <2>8 DEF CommitSync
  <2>9. ForgetBumps(loads[l].key).entry = table.entry
    BY <2>0 DEF ForgetBumps, CommitInv, TableOK
  <2>10. ASSUME NEW v \in Values, Resolve(l, v) PROVE FALSE
    BY <2>1, <2>2, <2>9, <2>10 DEF Resolve
  <2>11. ASSUME Reject(l) PROVE FALSE
    BY <2>1, <2>9, <2>11 DEF Reject
  <2>12. \E m \in Loads : CommitSync(m) \/ Reject(m) \/ \E v \in Values : Resolve(m, v)
    BY <1>1, <2>3, <2>4, <2>5, <2>6
       DEF Next, vars, Tick, Sweep, clear, dispose, get, peek, delete, getOrLoadWithoutLoad, revalidate,
           set, invalidateTag, invalidateWhere
  <2>13. PICK m \in Loads : CommitSync(m) \/ Reject(m) \/ \E v \in Values : Resolve(m, v)
    BY <2>12
  <2>14. m = l
    BY <2>7, <2>13 DEF CommitSync, Reject, Resolve, InFlight
  <2> QED BY <2>8, <2>10, <2>11, <2>13, <2>14
<1>2. [][Late]_vars => LateCommitIsVoid
  BY DEF LateCommitIsVoid
<1> QED BY <1>1, <1>2, LoadAlways, CommitAlways, PTL DEF Spec

\* cache.ts:130-158: whatever stores, overwrites, renews and removes entries keeps
\* the buckets of the tags, so an invalidation by tag misses no entry of the tag.
THEOREM BucketsAreExact == Spec => []TagsIndexed
<1>1. CommitInv => TagsIndexed
  BY DEF CommitInv, TableOK, TagsIndexed, CachedKeys, Has
<1> QED BY <1>1, CommitAlways, PTL
-------------------------------------------------------------------------
-----------------------------------------------------------------------------
(* The books, step by step. *)

Balanced == Books(table) /\ Len(table.order) <= MaxSize

\* The counters stay within their bound, and a load has a key as long as it matters.
CountersOK ==
  /\ table.bumps \in [Keys -> 0..MaxBumps]
  /\ \A l \in Loads : loads[l].key \in Keys \cup {None}

BookInv == Balanced /\ CountersOK

\* Removing entries, reading them and storing one keeps the balance.
LEMMA RemoveBalances ==
  ASSUME NEW tbl, Books(tbl), Len(tbl.order) <= MaxSize, NEW ks \in SUBSET Keys, NEW waiting
  PROVE  /\ Books(remove(tbl, ks, waiting)) /\ Len(remove(tbl, ks, waiting).order) <= MaxSize
         /\ Books(bump(tbl, ks, waiting)) /\ Len(bump(tbl, ks, waiting).order) <= MaxSize
<1>1. MaxSize \in Nat
  BY CacheAssumption
<1>2. Books(bump(tbl, ks, waiting)) /\ Len(bump(tbl, ks, waiting).order) <= MaxSize
  BY BumpBooks
<1> QED BY <1>1, <1>2, NoLonger

LEMMA ReadBalances ==
  ASSUME Balanced, NEW k \in Keys
  PROVE  /\ Books(dropIfExpired(table, k, pending))
         /\ Len(dropIfExpired(table, k, pending).order) <= MaxSize
         /\ Has(table, k) => Books(touch(table, k)) /\ Len(touch(table, k).order) <= MaxSize
<1>1. MaxSize \in Nat /\ Books(table) /\ Len(table.order) <= MaxSize
  BY CacheAssumption DEF Balanced
<1>2. {k} \in SUBSET Keys
  OBVIOUS
<1>3. /\ Books(dropIfExpired(table, k, pending))
      /\ Len(dropIfExpired(table, k, pending).order) <= MaxSize
  BY <1>1, <1>2, RemoveBalances DEF dropIfExpired
<1>4. ASSUME Has(table, k) PROVE Books(touch(table, k)) /\ Len(touch(table, k).order) <= MaxSize
  <2>1. /\ Books(touch(table, k)) /\ Len(touch(table, k).order) <= Len(table.order)
    BY <1>1, <1>4, TouchBooks DEF Has
  <2>2. touch(table, k).order \in Seq(Keys) /\ table.order \in Seq(Keys)
    BY <1>1, <2>1 DEF Books, OrderOK
  <2>3. Len(touch(table, k).order) \in Nat /\ Len(table.order) \in Nat
    BY <2>2
  <2> QED BY <1>1, <2>1, <2>3
<1> QED BY <1>3, <1>4

LEMMA ForgetBumpsBalances ==
  ASSUME Balanced, NEW k \in Keys
  PROVE  Books(ForgetBumps(k)) /\ Len(ForgetBumps(k).order) <= MaxSize
<1>1. /\ ForgetBumps(k).order = table.order /\ ForgetBumps(k).entry = table.entry
      /\ ForgetBumps(k).bytes = table.bytes
  BY DEF ForgetBumps, Balanced, Books, TableOK
<1>2. TableOK(ForgetBumps(k))
  BY ForgetBumpsKeeps DEF Balanced, Books
<1> QED BY <1>1, <1>2, BooksLike DEF Balanced

LEMMA BalancedNext ==
  ASSUME LoadInv, CommitInv, Balanced, [Next]_vars
  PROVE  Balanced'
<1>0. /\ Books(table) /\ Len(table.order) <= MaxSize /\ now \in 0..MaxTime
      /\ \A k \in Keys : {k} \in SUBSET Keys
  BY DEF Balanced, CommitInv
<1>1. CASE table' = table
  BY <1>0, <1>1 DEF Balanced
<1>2. ASSUME Books(table'), Len(table'.order) <= MaxSize PROVE Balanced'
  BY <1>2 DEF Balanced
<1>3. CASE Tick \/ UNCHANGED vars
  BY <1>1, <1>3 DEF Tick, vars
<1>4. CASE Sweep
  <2>1. {k \in Keys : Has(table, k) /\ expired(table.entry[k])} \in SUBSET Keys
    OBVIOUS
  <2> QED BY <1>0, <1>2, <1>4, <2>1, RemoveBalances DEF Sweep, sweepExpired
<1>5. ASSUME NEW ks \in SUBSET Keys, table' = remove(bump(table, ks, pending), ks, pending)
      PROVE  Balanced'
  <2>1. /\ Books(bump(table, ks, pending)) /\ Len(bump(table, ks, pending).order) <= MaxSize
    BY <1>0, RemoveBalances
  <2> QED BY <1>2, <1>5, <2>1, RemoveBalances
<1>6. CASE clear
  <2>1. Keys \in SUBSET Keys
    OBVIOUS
  <2> QED BY <1>5, <1>6, <2>1 DEF clear
<1>7. CASE dispose
  <2> DEFINE t1 == remove(table, Keys, [k \in Keys |-> None])
  <2>1. Books(t1) /\ Len(t1.order) <= MaxSize
    BY <1>0, RemoveBalances
  <2>2. table' = [t1 EXCEPT !.bumps = [k \in Keys |-> 0]]
    BY <1>7 DEF dispose
  <2> HIDE DEF t1
  <2>3. /\ DOMAIN table' = DOMAIN t1 /\ table'.order = t1.order /\ table'.entry = t1.entry
        /\ table'.index = t1.index /\ table'.bytes = t1.bytes /\ table'.bumps = [k \in Keys |-> 0]
    BY <2>1, <2>2 DEF Books, TableOK
  <2>4. TableOK(table')
    BY <2>1, <2>3 DEF Books, TableOK
  <2>5. Books(table')
    BY <2>1, <2>3, <2>4, BooksLike
  <2> QED BY <1>2, <2>1, <2>3, <2>5
<1>8. ASSUME NEW k \in Keys, get(k) \/ peek(k) \/ getOrLoadWithoutLoad(k) PROVE Balanced'
  <2>1. \/ table' = dropIfExpired(table, k, pending)
        \/ Has(table, k) /\ table' = touch(table, k)
    BY <1>8 DEF get, peek, getOrLoadWithoutLoad
  <2> QED BY <1>2, <2>1, ReadBalances
<1>9. ASSUME NEW k \in Keys, delete(k) PROVE Balanced'
  <2>1. table' = remove(table, {k}, pending) \/ table' = bump(table, {k}, pending)
    BY <1>9 DEF delete
  <2> QED BY <1>0, <1>2, <2>1, RemoveBalances
<1>10. ASSUME NEW k \in Keys, NEW v \in Values, revalidate(k, v) PROVE Balanced'
  <2>1. CASE expired(table.entry[k])
    BY <1>0, <1>2, <1>10, <2>1, RemoveBalances DEF revalidate
  <2>2. CASE ~expired(table.entry[k])
    <3> DEFINE bumped == bump(table, {k}, pending)
               new == renewed(bumped, k, v)
    <3>1. Books(bumped) /\ bumped.entry[k] # None /\ bumped.order = table.order
      BY <1>0, <1>10, BumpBooks DEF revalidate, Has
    <3> HIDE DEF bumped
    <3>2. Books(new) /\ new.order = table.order /\ new.entry[k] # None
      BY <1>0, <3>1, RenewedBooks
    <3> HIDE DEF new
    <3>3. Books(touch(new, k)) /\ Len(touch(new, k).order) <= Len(new.order)
      BY <3>2, TouchBooks
    <3>4. touch(new, k).order \in Seq(Keys) /\ new.order \in Seq(Keys) /\ MaxSize \in Nat
      BY <3>2, <3>3, CacheAssumption DEF Books, OrderOK
    <3>5. Len(touch(new, k).order) \in Nat /\ Len(new.order) \in Nat
      BY <3>4
    <3>6. Len(touch(new, k).order) <= MaxSize
      BY <1>0, <3>2, <3>3, <3>4, <3>5
    <3>7. table' = touch(new, k)
      BY <1>10, <2>2 DEF revalidate, new, bumped
    <3> QED BY <1>2, <3>3, <3>6, <3>7
  <2> QED BY <2>1, <2>2
<1>11. ASSUME NEW k \in Keys, NEW v \in Values, NEW o \in Options, set(k, v, o) PROVE Balanced'
  BY <1>0, <1>2, <1>11, StoreBooks DEF set
<1>12. ASSUME NEW t \in Tags, invalidateTag(t) PROVE Balanced'
  <2>1. table.index[t] \in SUBSET Keys
    BY <1>0 DEF Books, TableOK
  <2> QED BY <1>0, <1>2, <1>12, <2>1, RemoveBalances DEF invalidateTag
<1>13. ASSUME NEW ks \in SUBSET Keys, invalidateWhere(ks) PROVE Balanced'
  BY <1>5, <1>13 DEF invalidateWhere
<1>14. ASSUME NEW k \in Keys, NEW o, NEW kind, NEW v, getOrLoad(k, o, kind, v) PROVE Balanced'
  BY <1>2, <1>14, ReadBalances DEF getOrLoad
<1>15. ASSUME NEW l \in Loads, CommitSync(l) PROVE Balanced'
  <2> DEFINE r == loads[l]
  <2>1. r.key \in Keys /\ r.options \in Options /\ r.value \in Values
    BY <1>15 DEF CommitSync, LoadInv, LoadsOK, LoadOK
  <2>2. \/ table' = table
        \/ table' = store(table, r.key, r.value, r.options, Released(l))
    BY <1>15 DEF CommitSync
  <2> QED BY <1>0, <1>1, <1>2, <2>1, <2>2, StoreBooks
<1>16. ASSUME NEW l \in Loads, Reject(l) PROVE Balanced'
  <2>1. loads[l].key \in Keys /\ table' = ForgetBumps(loads[l].key)
    BY <1>16 DEF Reject, LoadInv, LoadsOK, LoadOK
  <2> QED BY <1>2, <2>1, ForgetBumpsBalances
<1>17. ASSUME NEW l \in Loads, NEW v \in Values, Resolve(l, v) PROVE Balanced'
  <2> DEFINE r == loads[l]
             t1 == ForgetBumps(r.key)
  <2>1. r.key \in Keys /\ r.options \in Options
    BY <1>17 DEF Resolve, LoadInv, LoadsOK, LoadOK
  <2>2. Books(t1) /\ Len(t1.order) <= MaxSize
    BY <2>1, ForgetBumpsBalances
  <2>3. table' = t1 \/ table' = store(t1, r.key, v, r.options, Released(l))
    BY <1>17 DEF Resolve
  <2> HIDE DEF t1
  <2> QED BY <1>0, <1>2, <2>1, <2>2, <2>3, StoreBooks
<1> QED BY <1>3, <1>4, <1>6, <1>7, <1>8, <1>9, <1>10, <1>11, <1>12, <1>13, <1>14, <1>15, <1>16, <1>17
        DEF Next

LEMMA CountersNext ==
  ASSUME LoadInv, CommitInv, CountersOK, [Next]_vars
  PROVE  CountersOK'
<1>1. table'.bumps \in [Keys -> 0..MaxBumps]
  <2>0. /\ table.bumps \in [Keys -> 0..MaxBumps] /\ TableOK(table) /\ MaxBumps \in Nat
    BY CacheAssumption DEF CountersOK, CommitInv
  <2>1. CASE UNCHANGED table
    BY <2>0, <2>1
  <2>2. CASE BumpsBounded
    <3>1. table'.bumps \in [Keys -> Nat]
      BY CommitNext DEF CommitInv, TableOK
    <3> QED BY <2>0, <2>2, <3>1 DEF BumpsBounded
  <2>3. CASE dispose
    <3> DEFINE t1 == remove(table, Keys, [k \in Keys |-> None])
    <3>1. table' = [t1 EXCEPT !.bumps = [k \in Keys |-> 0]]
      BY <2>3 DEF dispose
    <3>2. TableOK(t1)
      BY <2>0, RemoveGrows DEF Grows
    <3> HIDE DEF t1
    <3>3. table'.bumps = [k \in Keys |-> 0]
      BY <3>1, <3>2 DEF TableOK
    <3> QED BY <2>0, <3>3
  <2>4. ASSUME NEW l \in Loads, Reject(l) PROVE table'.bumps \in [Keys -> 0..MaxBumps]
    <3>1. table'.bumps = [table.bumps EXCEPT ![loads[l].key] = 0]
      BY <2>0, <2>4 DEF Reject, ForgetBumps, TableOK
    <3>2. table.bumps \in [Keys -> 0..MaxBumps] /\ 0 \in 0..MaxBumps
      BY <2>0
    <3> QED BY <3>1, <3>2
  <2> QED BY <2>1, <2>2, <2>3, <2>4, ZenonT(60)
          DEF Next, vars, Tick, Sweep, clear, get, peek, delete, getOrLoadWithoutLoad, revalidate,
              set, invalidateTag, invalidateWhere, getOrLoad, CommitSync, Resolve
<1>2. ASSUME NEW l \in Loads PROVE loads'[l].key \in Keys \cup {None}
  <2>0. \A m \in Loads : loads[m].key \in Keys \cup {None}
    BY DEF CountersOK
  <2>1. CASE UNCHANGED loads
    BY <2>0, <2>1
  <2>2. ASSUME LoadsLike PROVE loads'[l].key \in Keys \cup {None}
    BY <2>0, <2>2 DEF LoadsLike, Like
  <2>3. ASSUME NEW ks, Void(ks) PROVE LoadsLike
    BY <2>3, VoidIsLike
  <2>4. ASSUME Forget PROVE LoadsLike
    BY <2>4, ForgetIsLike
  <2>5. ASSUME NEW k \in Keys, NEW o \in Options, NEW kind \in {"sync", "async"}, NEW v,
               kind = "sync" => v \in Values, getOrLoad(k, o, kind, v)
        PROVE  loads'[l].key \in Keys \cup {None}
    <3>1. PICK m : Started(m, k, o, kind, v)
      BY <2>5, StartedLoad DEF getOrLoad
    <3> QED BY <2>0, <3>1 DEF Started, Like
  <2>6. ASSUME NEW m \in Loads, Done(m) PROVE loads'[l].key \in Keys \cup {None}
    <3>1. loads'[l] = IF l = m THEN [Idle EXCEPT !.kind = "done"] ELSE loads[l]
      BY <2>6 DEF Done, LoadInv, LoadsOK
    <3>2. [Idle EXCEPT !.kind = "done"].key = None
      BY DEF Idle
    <3> QED BY <2>0, <3>1, <3>2
  <2>7. CASE \E k \in Keys, o \in Options :
               getOrLoad(k, o, "async", 0) \/ \E v \in Values : getOrLoad(k, o, "sync", v)
    BY <2>5, <2>7
  <2>8. CASE \E m \in Loads : CommitSync(m) \/ Reject(m) \/ \E v \in Values : Resolve(m, v)
    BY <2>6, <2>8 DEF CommitSync, Reject, Resolve
  <2>9. CASE \/ UNCHANGED vars \/ Tick \/ Sweep \/ clear \/ dispose
             \/ \E k \in Keys : get(k) \/ peek(k) \/ delete(k) \/ getOrLoadWithoutLoad(k)
             \/ \E k \in Keys, v \in Values : revalidate(k, v) \/ \E o \in Options : set(k, v, o)
             \/ \E t \in Tags : invalidateTag(t)
             \/ \E ks \in SUBSET Keys : invalidateWhere(ks)
    <3>1. UNCHANGED loads \/ Forget \/ \E ks : Void(ks)
      BY <2>9 DEF vars, Tick, Sweep, clear, dispose, get, peek, delete, getOrLoadWithoutLoad,
                  revalidate, set, invalidateTag, invalidateWhere
    <3> QED BY <2>1, <2>2, <2>3, <2>4, <3>1
  <2> QED BY <2>7, <2>8, <2>9 DEF Next
<1> QED BY <1>1, <1>2 DEF CountersOK

LEMMA BookAlways == Spec => []BookInv
<1>1. Init => BookInv
  <2> SUFFICES ASSUME Init PROVE BookInv
    OBVIOUS
  <2>1. TableOK(table)
    BY DEF Init, TableOK
  <2>2. table.order = <<>> /\ table.bytes = 0 /\ \A k \in Keys : table.entry[k] = None
    BY DEF Init
  <2>3. Cached(table) = {}
    BY <2>2 DEF Cached
  <2>4. OrderOK(table)
    BY <2>2 DEF OrderOK, IsInjective
  <2>5. Balanced
    BY <2>1, <2>2, <2>3, <2>4, SizeOfNone, CacheAssumption DEF Balanced, Books
  <2>6. CountersOK
    BY CacheAssumption DEF Init, CountersOK, Idle
  <2> QED BY <2>5, <2>6 DEF BookInv
<1>2. LoadInv /\ CommitInv /\ BookInv /\ [Next]_vars => BookInv'
  BY BalancedNext, CountersNext DEF BookInv
<1> QED BY <1>1, <1>2, LoadAlways, CommitAlways, PTL DEF Spec

LEMMA PlainAlways == Spec => [](policy \in {"lru", "fifo"} /\ disposed \in BOOLEAN)
<1>1. Init => policy \in {"lru", "fifo"} /\ disposed \in BOOLEAN
  BY DEF Init
<1>2. policy \in {"lru", "fifo"} /\ disposed \in BOOLEAN /\ [Next]_vars
        => (policy \in {"lru", "fifo"} /\ disposed \in BOOLEAN)'
  BY DEF Next, vars, Tick, Sweep, clear, dispose, get, peek, delete, getOrLoadWithoutLoad, revalidate,
         set, invalidateTag, invalidateWhere, getOrLoad, startLoad, CommitSync, Reject, Resolve
<1> QED BY <1>1, <1>2, PTL DEF Spec

\* cache.ts:96-204: whatever stores, overwrites, renews, expires, evicts and removes
\* entries, the order holds every cached key once, the buckets of the tags and the
\* byte count are those of the entries, and there are at most maxSize of them.
THEOREM BooksBalance == Spec => []Bookkeeping
<1>1. ASSUME LoadInv, CommitInv, BookInv, policy \in {"lru", "fifo"} /\ disposed \in BOOLEAN
      PROVE  Bookkeeping
  <2>0. Books(table) /\ Len(table.order) <= MaxSize /\ CountersOK
    BY <1>1 DEF BookInv, Balanced
  <2>1. Cached(table) = CachedKeys
    BY DEF Cached, CachedKeys, Has
  <2>2. table.order \in Seq(Keys) /\ table.bytes \in Nat
    BY <2>0, BooksSizes DEF Books, OrderOK
  <2>3. table.entry \in [Keys -> Entry \cup {None}] /\ table.index \in [Tags -> SUBSET Keys]
    BY <2>0 DEF Books, TableOK
  <2>4. TypeOK
    BY <1>1, <2>0, <2>2, <2>3 DEF TypeOK, CountersOK, CommitInv, LoadInv, PendingInv
  <2>5. ToSet(table.order) = CachedKeys
    <3>1. ToSet(table.order) \subseteq Keys
      BY <2>2 DEF ToSet
    <3>2. \A k \in Keys : k \in ToSet(table.order) <=> table.entry[k] # None
      BY <2>0, <2>2 DEF ToSet, Books, OrderOK
    <3> QED BY <3>1, <3>2 DEF CachedKeys, Has
  <2>6. TagsIndexed
    BY <1>1 DEF CommitInv, TableOK, TagsIndexed, CachedKeys, Has
  <2>7. ViewsAgree /\ SizeBounded
    BY <2>0, <2>1, <2>5, <2>6 DEF ViewsAgree, SizeBounded, Books, OrderOK
  <2> QED BY <2>4, <2>7 DEF Bookkeeping
<1> QED BY <1>1, LoadAlways, CommitAlways, BookAlways, PlainAlways, PTL
====
