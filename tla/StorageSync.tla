---------------------------- MODULE StorageSync ----------------------------
(***************************************************************************)
(* packages/storage over localStorage: every tab has its own storage and   *)
(* one signal for each key (createStorageSignal), all share the records,   *)
(* and hear of each other's writes by storage events, later.  A record     *)
(* takes as much room as its value; when there is none the oldest record   *)
(* is evicted.                                                             *)
(***************************************************************************)
EXTENDS Integers, Sequences, SequencesExt

CONSTANTS
  Tabs, Keys,
  Values,     \* positive numbers: the room each takes
  Capacity,
  MaxEvents,  \* bound: events a tab has not heard
  None

VARIABLES
  records,  \* what is stored, oldest first
  signal,   \* the value of each tab's signal for each key, None for the initial one
  inbox,    \* the storage events on their way to each tab
  torn      \* the keys of which a tab was not told something it did or heard itself

vars == <<records, signal, inbox, torn>>

Record(k, v) == [key |-> k, value |-> v, live |-> TRUE]
Event(k, removed) == [key |-> k, removed |-> removed]

TypeOK ==
  /\ records \in Seq([key : Keys, value : Values, live : BOOLEAN])
  /\ signal \in [Tabs -> [Keys -> Values \cup {None}]]
  /\ inbox \in [Tabs -> Seq([key : Keys, removed : BOOLEAN])]
  /\ torn \in [Tabs -> SUBSET Keys]

Init ==
  /\ records = <<>> /\ signal = [t \in Tabs |-> [k \in Keys |-> None]]
  /\ inbox = [t \in Tabs |-> <<>>] /\ torn = [t \in Tabs |-> {}]

\* A key has one record at most.
Without(rs, k) ==
  IF \E i \in DOMAIN rs : rs[i].key = k THEN RemoveAt(rs, CHOOSE i \in DOMAIN rs : rs[i].key = k) ELSE rs
Room(rs) ==
  LET upTo[n \in 0..Len(rs)] == IF n = 0 THEN 0 ELSE upTo[n - 1] + rs[n].value
  IN upTo[Len(rs)]
Fits(rs, k, v) == Room(Without(rs, k)) + v <= Capacity
IsStored(k) == \E i \in DOMAIN records : records[i].key = k

\* readValue: an expired record reads as nothing.
Read(k) ==
  IF \E i \in DOMAIN records : records[i].key = k /\ records[i].live
  THEN (CHOOSE r \in Range(records) : r.key = k).value ELSE None

\* The browser tells the other tabs.
Tell(t, events) ==
  /\ \A u \in Tabs \ {t} : Len(inbox[u]) + Len(events) <= MaxEvents
  /\ inbox' = [u \in Tabs |-> IF u = t THEN inbox[u] ELSE inbox[u] \o events]

Shows(t, k, v) == signal' = [signal EXCEPT ![t][k] = v]
Torn(t, gone, fresh) == torn' = [torn EXCEPT ![t] = (@ \ gone) \cup fresh]

\* The set of a signal: a value it has already is not stored again.  If there is no room
\* the oldest record goes, unless it is the one to be written, and the write is tried once
\* more; the tab itself is told of neither, and its signal has the value already.
SetSignal(t, k, v) ==
  /\ v # signal[t][k] /\ Shows(t, k, v)
  /\ IF Fits(records, k, v)
     THEN /\ records' = Append(Without(records, k), Record(k, v))
          /\ Tell(t, <<Event(k, FALSE)>>) /\ Torn(t, {k}, {})
     ELSE IF records = <<>> \/ records[1].key = k
     THEN UNCHANGED <<records, inbox>> /\ Torn(t, {}, {k})
     ELSE LET rest == Tail(records)
              evicted == Event(records[1].key, TRUE)
          IN IF Fits(rest, k, v)
             THEN /\ records' = Append(Without(rest, k), Record(k, v))
                  /\ Tell(t, <<evicted, Event(k, FALSE)>>) /\ Torn(t, {k}, {evicted.key})
             ELSE records' = rest /\ Tell(t, <<evicted>>) /\ Torn(t, {}, {k, evicted.key})

\* Faulty variant: the tab's own listeners are not told.
removeQuietly(t, k) ==
  /\ IsStored(k) /\ records' = Without(records, k) /\ Tell(t, <<Event(k, TRUE)>>)
  /\ UNCHANGED <<signal, torn>>

\* storage.remove; clear does it for every key.
remove(t, k) ==
  /\ IsStored(k) /\ records' = Without(records, k) /\ Tell(t, <<Event(k, TRUE)>>)
  /\ Shows(t, k, None) /\ Torn(t, {k}, {})

\* get, has or keys find an expired record and purge it; nobody here is told.
Purge(t, k) ==
  /\ IsStored(k) /\ Read(k) = None
  /\ records' = Without(records, k) /\ Tell(t, <<Event(k, TRUE)>>)
  /\ UNCHANGED <<signal, torn>>

\* The time to live of a record is over: no signal hears of it.
Expire(k) ==
  /\ Read(k) # None
  /\ records' = [i \in DOMAIN records |-> IF records[i].key = k THEN [records[i] EXCEPT !.live = FALSE] ELSE records[i]]
  /\ torn' = [t \in Tabs |-> torn[t] \cup {k}]
  /\ UNCHANGED <<signal, inbox>>

\* What an event makes of a signal: a removal is believed, anything else is looked up.
Heard(e) == IF e.removed THEN None ELSE Read(e.key)

\* An event arrives.  A removal may be older than a value this tab has stored since.
Deliver(t) ==
  /\ inbox[t] # <<>> /\ inbox' = [inbox EXCEPT ![t] = Tail(@)]
  /\ LET e == Head(inbox[t])
     IN /\ Shows(t, e.key, Heard(e))
        /\ Torn(t, {e.key}, IF e.removed /\ Read(e.key) # None THEN {e.key} ELSE {})
  /\ UNCHANGED records

\* A tab is loaded anew: its signals start from what is stored.
Reload(t) ==
  /\ inbox' = [inbox EXCEPT ![t] = <<>>] /\ torn' = [torn EXCEPT ![t] = {}]
  /\ signal' = [signal EXCEPT ![t] = [k \in Keys |-> Read(k)]]
  /\ UNCHANGED records

Next ==
  \/ \E t \in Tabs, k \in Keys : remove(t, k) \/ Purge(t, k) \/ \E v \in Values : SetSignal(t, k, v)
  \/ \E k \in Keys : Expire(k)
  \/ \E t \in Tabs : Deliver(t) \/ Reload(t)

Spec == Init /\ [][Next]_vars

------------------------------------------------------------------------------
(* What is checked *)

\* A signal shows what is stored as soon as no event for its key is on its way, unless the
\* tab was not told: of a record it evicted, of a write that found no room, of one that
\* expired, or because an old removal arrived after its own write.
SignalsFollowStorage ==
  \A t \in Tabs, k \in Keys :
    (k \notin torn[t] /\ \A i \in DOMAIN inbox[t] : inbox[t][i].key # k) => signal[t][k] = Read(k)

\* One record for a key, and no more than there is room for, whatever is evicted.
RecordsFit ==
  /\ Room(records) <= Capacity
  /\ \A i, j \in DOMAIN records : records[i].key = records[j].key => i = j

\* What the tabs show follows what they share.
TabsAgree == SignalsFollowStorage /\ RecordsFit
=============================================================================
