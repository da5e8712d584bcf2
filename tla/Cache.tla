-------------------------------- MODULE Cache --------------------------------
(***************************************************************************)
(* packages/cache/src/cache.ts: the cache that http, data, resource,       *)
(* components, expressions and router share.                               *)
(*                                                                         *)
(* The entries with their order, the tag index, the byte count and the     *)
(* generation counters are one record, table, so that an operation is a    *)
(* composition of the helpers of the code, each a function on tables.      *)
(* A value is a number, its size in bytes.  Loaders are user code: one     *)
(* that returns a promise settles it at any later time or never.           *)
(*                                                                         *)
(* Left out: the statistics, the onEvict callbacks and the registry; and a *)
(* loader does not call the cache before it returns.                       *)
(***************************************************************************)
EXTENDS Integers, Sequences, SequencesExt, FiniteSetsExt

CONSTANTS Keys, Tags, Values,
          Options,    \* the EntryOptions used: records of a ttl and tags
          MaxSize, MaxBytes, Swr,
          Never,      \* the ttl of an entry that does not expire
          None,
          MaxTime,    \* bound: the clock
          MaxLoads,   \* bound: loads started
          MaxBumps    \* bound: changes of one key while it is loading

ASSUME CacheAssumption ==
  /\ Values \subseteq Nat
  /\ \A o \in Options : o.ttl \in Nat \cup {Never} /\ o.tags \subseteq Tags
  /\ MaxSize \in Nat \ {0} /\ MaxBytes \in Nat /\ Swr \in Nat
  /\ MaxTime \in Nat /\ MaxLoads \in Nat /\ MaxBumps \in Nat
  /\ None \notin 1..MaxLoads

VARIABLES
  policy,    \* "lru" or "fifo"
  now,       \* clock()
  table,     \* entries, tagIndex, bytes and bumps
  pending,   \* the load each key waits for, or None
  loads,     \* the loads started, and what became of them
  disposed

vars == <<policy, now, table, pending, loads, disposed>>

Loads == 1..MaxLoads
Idle == [key |-> None, kind |-> "none", value |-> 0, options |-> None, s0 |-> 0,
         voided |-> FALSE, forgotten |-> FALSE, shared |-> FALSE]

Init ==
  /\ policy \in {"lru", "fifo"}
  /\ now = 0
  /\ table = [order |-> <<>>, entry |-> [k \in Keys |-> None], index |-> [t \in Tags |-> {}],
              bytes |-> 0, bumps |-> [k \in Keys |-> 0]]
  /\ pending = [k \in Keys |-> None]
  /\ loads = [l \in Loads |-> Idle]
  /\ disposed = FALSE
-----------------------------------------------------------------------------
(* The helpers of createCache, as functions on tables. *)

Has(tbl, k) == tbl.entry[k] # None

Age(e) == now - e.time
expired(e) == e.ttl # Never /\ Age(e) > e.ttl + Swr
staleWithin(e) == e.ttl # Never /\ Age(e) > e.ttl /\ Age(e) <= e.ttl + Swr

\* Changing keys that are loading voids the commits of those loads.
bump(tbl, ks, waiting) ==
  [tbl EXCEPT !.bumps = [k \in Keys |-> IF k \in ks /\ waiting[k] # None THEN @[k] + 1 ELSE @[k]]]

Size(tbl, ks) == MapThenSumSet(LAMBDA k : tbl.entry[k].value, ks)

untag(tbl, ks) ==
  [t \in Tags |-> {k \in tbl.index[t] : ~(k \in ks /\ t \in tbl.entry[k].tags)}]

without(order, ks) ==
  LET kept[n \in 0..Len(order)] ==
        IF n = 0 THEN <<>>
        ELSE IF order[n] \in ks THEN kept[n - 1] ELSE Append(kept[n - 1], order[n])
  IN kept[Len(order)]

emptied(tbl, ks) == [k \in Keys |-> IF k \in ks THEN None ELSE tbl.entry[k]]

\* The entries of ks leave the map, and give back their bytes.
dropped(tbl, ks, bytes) ==
  [order |-> without(tbl.order, ks), entry |-> emptied(tbl, ks), index |-> untag(tbl, ks),
   bytes |-> tbl.bytes - bytes, bumps |-> tbl.bumps]

\* Faulty variant: the bytes of a removed entry are not given back.
drop_KeepsBytes(tbl, ks) == dropped(tbl, ks, 0)

\* Faulty variant: both the caller and the helper give the bytes back.
drop_CountsTwice(tbl, ks) == dropped(tbl, ks, 2 * Size(tbl, ks))

\* The part that remove and store share.
drop(tbl, ks) == dropped(tbl, ks, Size(tbl, ks))

\* remove, for all entries of ks one after the other.
remove(tbl, ks, waiting) ==
  LET there == {k \in ks : Has(tbl, k)} IN drop(bump(tbl, there, waiting), there)

sweepExpired(tbl, waiting) == remove(tbl, {k \in Keys : Has(tbl, k) /\ expired(tbl.entry[k])}, waiting)

Oldest(tbl, n) == {tbl.order[i] : i \in 1..n}

\* Faulty variant: the bound is checked one entry too late.
trim_OffByOne(tbl, waiting) ==
  LET swept == sweepExpired(tbl, waiting)
  IN remove(swept, Oldest(swept, Len(swept.order) - (MaxSize + 1)), waiting)

\* The expired entries go, then the oldest while there are too many of them, or
\* too many bytes.
trim(tbl, waiting) ==
  LET swept == sweepExpired(tbl, waiting)
      fewer == remove(swept, Oldest(swept, Len(swept.order) - MaxSize), waiting)
      n == Len(fewer.order)
      lighter == {i \in 0..n : fewer.bytes - Size(fewer, Oldest(fewer, i)) <= MaxBytes}
  IN remove(fewer, Oldest(fewer, Min(lighter \cup {n})), waiting)

touch(tbl, k) ==
  IF policy = "lru" THEN [tbl EXCEPT !.order = Append(without(@, {k}), k)] ELSE tbl

added(tbl, k, e) ==
  [order |-> Append(tbl.order, k), entry |-> [tbl.entry EXCEPT ![k] = e],
   index |-> [t \in Tags |-> IF t \in e.tags THEN tbl.index[t] \cup {k} ELSE tbl.index[t]],
   bytes |-> tbl.bytes + e.value, bumps |-> tbl.bumps]

store(tbl, k, v, o, waiting) ==
  LET bumped == bump(tbl, {k}, waiting)
      cleared == IF Has(tbl, k) THEN drop(bumped, {k}) ELSE bumped
  IN trim(added(cleared, k, [value |-> v, time |-> now, ttl |-> o.ttl, tags |-> o.tags]), waiting)

\* An entry gets a new value and age, and keeps its place, its ttl and its tags.
renewed(tbl, k, v) ==
  LET e == tbl.entry[k] IN
  [order |-> tbl.order,
   entry |-> [tbl.entry EXCEPT ![k] = [value |-> v, time |-> now, ttl |-> e.ttl, tags |-> e.tags]],
   index |-> tbl.index, bytes |-> tbl.bytes - e.value + v, bumps |-> tbl.bumps]

\* What get, peek, has, getOrLoad and revalidate do first.
dropIfExpired(tbl, k, waiting) ==
  IF Has(tbl, k) /\ expired(tbl.entry[k]) THEN remove(tbl, {k}, waiting) ELSE tbl
-----------------------------------------------------------------------------
InFlight(l) == loads[l].kind \in {"sync", "async"}
InFlightOf(k) == {l \in Loads : InFlight(l) /\ loads[l].key = k}

\* For the properties: user code changes the keys ks, or clears the cache, while
\* these loads run.
Void(ks) ==
  loads' = [l \in Loads |-> IF InFlight(l) /\ loads[l].key \in ks
                            THEN [loads[l] EXCEPT !.voided = TRUE] ELSE loads[l]]

Forget ==
  loads' = [l \in Loads |-> IF InFlight(l) THEN [loads[l] EXCEPT !.forgotten = TRUE] ELSE loads[l]]

BumpsBounded == \A k \in Keys : table'.bumps[k] <= MaxBumps

Tick ==
  /\ now < MaxTime
  /\ now' = now + 1
  /\ UNCHANGED <<policy, table, pending, loads, disposed>>

get(k) ==
  /\ ~disposed
  /\ table' = IF Has(table, k) /\ ~expired(table.entry[k]) THEN touch(table, k)
              ELSE dropIfExpired(table, k, pending)
  /\ BumpsBounded
  /\ UNCHANGED <<policy, now, pending, loads, disposed>>

\* peek and has; isStale changes nothing.
peek(k) ==
  /\ table' = dropIfExpired(table, k, pending)
  /\ BumpsBounded
  /\ UNCHANGED <<policy, now, pending, loads, disposed>>

\* size, keys and stats sweep first.
Sweep ==
  /\ table' = sweepExpired(table, pending)
  /\ BumpsBounded
  /\ UNCHANGED <<policy, now, pending, loads, disposed>>

set(k, v, o) ==
  /\ ~disposed
  /\ table' = store(table, k, v, o, pending)
  /\ Void({k})
  /\ BumpsBounded
  /\ UNCHANGED <<policy, now, pending, disposed>>

delete(k) ==
  /\ table' = IF Has(table, k) THEN remove(table, {k}, pending) ELSE bump(table, {k}, pending)
  /\ Void({k})
  /\ BumpsBounded
  /\ UNCHANGED <<policy, now, pending, disposed>>

\* The counters of loads on their way stay, so that they do not commit.
clear ==
  /\ table' = remove(bump(table, Keys, pending), Keys, pending)
  /\ pending' = [k \in Keys |-> None]
  /\ Forget
  /\ BumpsBounded
  /\ UNCHANGED <<policy, now, disposed>>

revalidate(k, v) ==
  /\ ~disposed /\ Has(table, k)
  /\ IF expired(table.entry[k])
       THEN table' = remove(table, {k}, pending) /\ UNCHANGED loads
       ELSE /\ table' = touch(renewed(bump(table, {k}, pending), k, v), k)
            /\ Void({k})
  /\ BumpsBounded
  /\ UNCHANGED <<policy, now, pending, disposed>>

\* invalidate with a tag: the keys of its bucket.
invalidateTag(t) ==
  /\ ~disposed
  /\ table' = remove(table, table.index[t], pending)
  /\ Void(table.index[t])
  /\ BumpsBounded
  /\ UNCHANGED <<policy, now, pending, disposed>>

\* invalidate with a predicate that holds of the keys ks: a key that is loading
\* is bumped, and once more if it has an entry.
invalidateWhere(ks) ==
  /\ ~disposed
  /\ table' = remove(bump(table, ks, pending), ks, pending)
  /\ Void(ks)
  /\ BumpsBounded
  /\ UNCHANGED <<policy, now, pending, disposed>>

\* Once disposed, the only calls that are let through find nothing to do.
dispose ==
  /\ ~disposed
  /\ disposed' = TRUE
  /\ pending' = [k \in Keys |-> None]
  /\ table' = [remove(table, Keys, [k \in Keys |-> None]) EXCEPT !.bumps = [k \in Keys |-> 0]]
  /\ Forget
  /\ UNCHANGED <<policy, now>>
-----------------------------------------------------------------------------
(* Loading. *)

Unused == {l \in Loads : loads[l].kind = "none"}

\* startLoad with a loader that returned: v, or a promise.
startLoad(k, o, kind, v) ==
  LET l == CHOOSE m \in Unused : TRUE IN
  /\ Unused # {}
  /\ pending' = [pending EXCEPT ![k] = l]
  /\ loads' = [m \in Loads |->
       CASE m = l -> [key |-> k, kind |-> kind, value |-> v, options |-> o, s0 |-> table'.bumps[k],
                      voided |-> FALSE, forgotten |-> FALSE, shared |-> InFlightOf(k) # {}]
         [] m \in InFlightOf(k) -> [loads[m] EXCEPT !.shared = TRUE]
         [] OTHER -> loads[m]]

\* Faulty variant: a stale entry is revalidated once per read.
NeedsLoad_IfStale(k) ==
  IF Has(table, k) /\ ~expired(table.entry[k]) THEN staleWithin(table.entry[k])
  ELSE pending[k] = None

\* Is a load needed, for a fresh entry, a stale one, or none?
NeedsLoad(k) ==
  /\ pending[k] = None
  /\ Has(table, k) /\ ~expired(table.entry[k]) => staleWithin(table.entry[k])

\* Served from the entry or by the load on its way, or the loader threw.
getOrLoadWithoutLoad(k) ==
  /\ ~disposed
  /\ table' = IF Has(table, k) /\ ~expired(table.entry[k]) /\ ~staleWithin(table.entry[k])
              THEN touch(table, k) ELSE dropIfExpired(table, k, pending)
  /\ BumpsBounded
  /\ UNCHANGED <<policy, now, pending, loads, disposed>>

getOrLoad(k, o, kind, v) ==
  /\ ~disposed
  /\ NeedsLoad(k)
  /\ table' = dropIfExpired(table, k, pending)
  /\ startLoad(k, o, kind, v)
  /\ BumpsBounded
  /\ UNCHANGED <<policy, now, disposed>>

\* Faulty variant: a load that failed or committed stays the pending one.
Released_Never(l) == pending

Released(l) == [k \in Keys |-> IF pending[k] = l THEN None ELSE pending[k]]

\* Faulty variant: the commit does not ask whether the key was changed.
IsLive_Always(l) == TRUE

IsLive(l) == table.bumps[loads[l].key] = loads[l].s0

Done(l) == loads' = [loads EXCEPT ![l] = [Idle EXCEPT !.kind = "done"]]

\* The microtask of a loader that returned a value.
CommitSync(l) ==
  LET r == loads[l] IN
  /\ r.kind = "sync"
  /\ pending' = Released(l)
  /\ table' = IF ~disposed /\ IsLive(l) THEN store(table, r.key, r.value, r.options, Released(l))
              ELSE table
  /\ Done(l)
  /\ BumpsBounded
  /\ UNCHANGED <<policy, now, disposed>>

ForgetBumps(k) == [table EXCEPT !.bumps[k] = 0]

Resolve(l, v) ==
  LET r == loads[l] IN
  /\ r.kind = "async"
  /\ pending' = Released(l)
  /\ table' = IF ~disposed /\ IsLive(l)
              THEN store(ForgetBumps(r.key), r.key, v, r.options, Released(l))
              ELSE ForgetBumps(r.key)
  /\ Done(l)
  /\ BumpsBounded
  /\ UNCHANGED <<policy, now, disposed>>

Reject(l) ==
  /\ loads[l].kind = "async"
  /\ pending' = Released(l)
  /\ table' = ForgetBumps(loads[l].key)
  /\ Done(l)
  /\ UNCHANGED <<policy, now, disposed>>

Next ==
  \/ Tick \/ Sweep \/ clear \/ dispose
  \/ \E k \in Keys : get(k) \/ peek(k) \/ delete(k) \/ getOrLoadWithoutLoad(k)
  \/ \E k \in Keys, v \in Values : revalidate(k, v) \/ \E o \in Options : set(k, v, o)
  \/ \E t \in Tags : invalidateTag(t)
  \/ \E ks \in SUBSET Keys : invalidateWhere(ks)
  \/ \E k \in Keys, o \in Options :
       getOrLoad(k, o, "async", 0) \/ \E v \in Values : getOrLoad(k, o, "sync", v)
  \/ \E l \in Loads : CommitSync(l) \/ Reject(l) \/ \E v \in Values : Resolve(l, v)

Spec == Init /\ [][Next]_vars
-----------------------------------------------------------------------------
Entry == [value : Values, time : 0..MaxTime, ttl : {o.ttl : o \in Options}, tags : SUBSET Tags]

\* Every variable of the closure of createCache keeps its type.
TypeOK ==
  /\ policy \in {"lru", "fifo"} /\ now \in 0..MaxTime
  /\ table.order \in Seq(Keys)
  /\ table.entry \in [Keys -> Entry \cup {None}]
  /\ table.index \in [Tags -> SUBSET Keys]
  /\ table.bytes \in Nat
  /\ table.bumps \in [Keys -> 0..MaxBumps]
  /\ pending \in [Keys -> Loads \cup {None}]
  /\ \A l \in Loads : loads[l].key \in Keys \cup {None}
  /\ disposed \in BOOLEAN

\* A key that has an entry is told from one that has none.
ASSUME EntryAssumption == None \notin Entry

CachedKeys == {k \in Keys : Has(table, k)}

\* The bucket of a tag holds the keys whose entries have the tag.
TagsIndexed == \A t \in Tags : table.index[t] = {k \in CachedKeys : t \in table.entry[k].tags}

\* entries, tagIndex and bytes are three views of one thing, however entries
\* are stored, overwritten, expired, evicted, invalidated and revalidated.
ViewsAgree ==
  /\ IsInjective(table.order) /\ ToSet(table.order) = CachedKeys
  /\ TagsIndexed
  /\ table.bytes = Size(table, CachedKeys)

\* maxSize is a bound after every operation, not only after set.
SizeBounded == Len(table.order) <= MaxSize

\* The books of the cache balance after every operation: whatever removes an
\* entry corrects the order, the tag index and the byte count, once.
Bookkeeping == TypeOK /\ ViewsAgree /\ SizeBounded

\* packages/cache/README.md, one loader for any number of callers: a key has
\* one load on its way, unless clear made it forget an older one.
SingleFlight ==
  \A k \in Keys : Cardinality({l \in InFlightOf(k) : ~loads[l].forgotten}) <= 1

\* The load a key waits for is on its way, so no caller is handed a promise that
\* was settled long ago.
PendingIsInFlight == \A k \in Keys : pending[k] # None => pending[k] \in InFlightOf(k)

\* However synchronous and asynchronous loads, stale refreshes, changes and clear
\* share the one slot of a key, its callers wait for one load, which is running.
LoadsAreSingle == SingleFlight /\ PendingIsInFlight

Commits(l) ==
  LET k == loads[l].key IN
  InFlight(l) /\ loads'[l].kind = "done" /\ table'.entry[k] \notin {None, table.entry[k]}

\* A load does not commit if its key was set, deleted, invalidated, revalidated
\* or cleared after it started: the last write wins.  The loads that may still do
\* so are those that clear let run side by side with another load of their key.
LateCommitIsVoid ==
  [][\A l \in Loads : Commits(l) =>
        loads[l].shared \/ ~(loads[l].voided \/ loads[l].forgotten)]_vars
=============================================================================
