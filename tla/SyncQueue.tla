------------------------------ MODULE SyncQueue ------------------------------
(***************************************************************************)
(* The background sync of packages/service-worker: mutations that fail go  *)
(* into a queue in IndexedDB and are sent again when the browser fires the *)
(* sync event, one event at a time, in a worker that may be stopped at any *)
(* moment.  A mutation is its IndexedDB key, given in the order of storing *)
(* them; a stored record keeps the retryCount it was stored with, 0.       *)
(***************************************************************************)
EXTENDS Integers

CONSTANTS
  Mutations,   \* 1..n, the mutations there are
  MaxCycles,   \* the constant 3 of the sync handler
  CyclesSeen,  \* bound: failed cycles counted for a mutation
  None

VARIABLES
  client,      \* what became of every mutation in handleMutation
  stored,      \* the store in IndexedDB
  registered,  \* whether the browser will fire sync
  sync,        \* the sync handler under way: the records it loaded that are left, and
               \* whether the first of them is being sent or removed; or None
  retryCount,  \* of the records in the memory of that handler
  cycles,      \* in how many sync cycles all attempts for a mutation failed
  accepted,    \* how often sync got an accepting answer for it
  cutOff       \* the mutations the worker was stopped for between that and the removal

vars == <<client, stored, registered, sync, retryCount, cycles, accepted, cutOff>>

Handlers == [left : SUBSET Mutations, step : {"sending", "removing"}]

TypeOK ==
  /\ client \in [Mutations -> {"new", "sending", "storing", "answered", "queued", "lost"}]
  /\ stored \subseteq Mutations /\ registered \in BOOLEAN
  /\ sync = None \/ sync \in Handlers
  /\ retryCount \in [Mutations -> 0..MaxCycles] /\ cycles \in [Mutations -> 0..CyclesSeen]
  /\ accepted \in [Mutations -> 0..2] /\ cutOff \subseteq Mutations

Init ==
  /\ client = [m \in Mutations |-> "new"]
  /\ stored = {} /\ registered = FALSE /\ sync = None
  /\ retryCount = [m \in Mutations |-> 0] /\ cycles = [m \in Mutations |-> 0]
  /\ accepted = [m \in Mutations |-> 0] /\ cutOff = {}

Client(m, from, to) == client[m] = from /\ client' = [client EXCEPT ![m] = to]
SyncStays == UNCHANGED <<sync, retryCount, cycles, accepted, cutOff>>

\* handleMutation: the fetch event of a mutation, and its answer when that is below 500.
Post(m) == Client(m, "new", "sending") /\ UNCHANGED <<stored, registered>> /\ SyncStays
PostAnswered(m) == Client(m, "sending", "answered") /\ UNCHANGED <<stored, registered>> /\ SyncStays
\* A status of 500 or more, or no answer.
PostFails(m) == Client(m, "sending", "storing") /\ UNCHANGED <<stored, registered>> /\ SyncStays

\* enqueueMutation; a failure of IndexedDB, or of registering, is not told to anybody.
Enqueue(m) ==
  /\ \A other \in Mutations : client[other] = "queued" => other < m
  /\ \/ Client(m, "storing", "queued") /\ stored' = stored \cup {m}
     \/ Client(m, "storing", "lost") /\ UNCHANGED stored
  /\ registered' \in {TRUE, registered}
  /\ SyncStays

\* loadQueue: the records that are there by the time they are read, or none of them after an
\* error of IndexedDB.
Loads == {stored, {}}

\* The browser fires sync, having taken the registration away.
SyncFires ==
  /\ registered /\ sync = None /\ registered' = FALSE
  /\ \E left \in Loads : sync' = [left |-> left, step |-> "sending"]
  /\ retryCount' = [m \in Mutations |-> 0]
  /\ UNCHANGED <<client, stored, cycles, accepted, cutOff>>

\* The records are sent one after the other, the oldest first.
Current == CHOOSE m \in sync.left : \A other \in sync.left : m <= other
Sending == sync # None /\ sync.left # {} /\ sync.step = "sending"

\* Faulty variant: an attempt that was accepted leaves the record to the next cycle.
AfterAcceptanceKept == [sync EXCEPT !.left = @ \ {Current}]

\* What the handler does after an accepted attempt: it awaits the removal of the record.
AfterAcceptance == [sync EXCEPT !.step = "removing"]

\* An attempt of retryWithBackoff is accepted.
RetrySucceeds ==
  /\ Sending /\ accepted[Current] < 2
  /\ accepted' = [accepted EXCEPT ![Current] = @ + 1]
  /\ sync' = AfterAcceptance
  /\ UNCHANGED <<client, stored, registered, retryCount, cycles, cutOff>>

\* All of them fail: the count grows in the copy in memory, and at MaxCycles the record is
\* removed, else it stays as it is in the store.
RetryFails ==
  /\ Sending /\ cycles[Current] < CyclesSeen
  /\ cycles' = [cycles EXCEPT ![Current] = @ + 1]
  /\ retryCount' = [retryCount EXCEPT ![Current] = @ + 1]
  /\ sync' = IF retryCount'[Current] >= MaxCycles THEN [sync EXCEPT !.step = "removing"]
             ELSE [sync EXCEPT !.left = @ \ {Current}]
  /\ UNCHANGED <<client, stored, registered, accepted, cutOff>>

\* An error of IndexedDB passes for success.
removeFromQueue ==
  /\ sync # None /\ sync.step = "removing"
  /\ stored' \in {stored \ {Current}, stored}
  /\ cutOff' = IF Current \in stored' THEN cutOff \cup {Current} ELSE cutOff
  /\ sync' = [left |-> sync.left \ {Current}, step |-> "sending"]
  /\ UNCHANGED <<client, registered, retryCount, cycles, accepted>>

\* Faulty variant: the queue is written back as this handler knows it, as saveQueue did.
SyncEndsRewriting ==
  /\ sync # None /\ sync.left = {} /\ sync' = None
  /\ stored' = {m \in stored : cycles[m] > 0}
  /\ UNCHANGED <<client, registered, retryCount, cycles, accepted, cutOff>>

\* The promise given to waitUntil is fulfilled, with records left or not.
SyncEnds ==
  /\ sync # None /\ sync.left = {} /\ sync' = None
  /\ UNCHANGED <<client, stored, registered, retryCount, cycles, accepted, cutOff>>

\* The browser stops the worker; an event that was not finished will be fired again.
WorkerStops ==
  /\ client' = [m \in Mutations |-> IF client[m] \in {"sending", "storing"} THEN "lost" ELSE client[m]]
  /\ sync' = None /\ registered' = (registered \/ sync # None)
  /\ cutOff' = IF sync # None /\ sync.step = "removing" THEN cutOff \cup {Current} ELSE cutOff
  /\ UNCHANGED <<stored, retryCount, cycles, accepted>>

Next ==
  \/ \E m \in Mutations : Post(m) \/ PostAnswered(m) \/ PostFails(m) \/ Enqueue(m)
  \/ SyncFires \/ RetrySucceeds \/ RetryFails \/ removeFromQueue \/ SyncEnds \/ WorkerStops

Spec == Init /\ [][Next]_vars

------------------------------------------------------------------------------
(* What is checked *)

\* A mutation that was stored leaves the store only when the server has accepted it: not
\* by a restart, by a failure, or by a sync that was running when it was stored.
KeptUntilAccepted == \A m \in Mutations : client[m] = "queued" => (m \in stored \/ accepted[m] > 0)

\* A mutation that was accepted is not sent again, unless the worker was stopped, or
\* IndexedDB failed, before its record was gone.
AcceptedOnce == \A m \in Mutations : accepted[m] > 1 => m \in cutOff

\* "After three failed sync cycles the mutation is dropped."
DroppedAfterMaxCycles ==
  \A m \in stored : cycles[m] >= MaxCycles => (sync # None /\ m \in sync.left)
=============================================================================
