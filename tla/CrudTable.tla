----------------------------- MODULE CrudTable -----------------------------
(***************************************************************************)
(* packages/crud over one Resource: the actions crudDelete, crudBulkDelete *)
(* and crudList, the fetch loop of a CrudEngine, and the page its table    *)
(* shows.  Every request of a Resource aborts the one before, so that one  *)
(* at a time is live; what was aborted is heard of in the microtasks that  *)
(* follow, before anything else happens.                                   *)
(*                                                                         *)
(* The server is external.  It answers a DELETE with 204, and whether it   *)
(* has carried out one that was aborted is settled when the abort is heard.*)
(***************************************************************************)
EXTENDS Integers, FiniteSets, Sequences, SequencesExt

CONSTANTS
  Items,        \* numbers: the ids, in the order of the list
  Matching,     \* the items that the filter lets pass
  PageSize,
  MaxAttempts,  \* maxRetries + 1
  MaxCalls      \* bound: requests

VARIABLES
  server,    \* the items there are
  rows,      \* resource.data
  failing,   \* whether resource.error is set
  calls,     \* the requests not settled yet
  made,
  bulk,      \* the last bulk delete: its items, those not settled, and those whose request
             \* the network failed or somebody else's request aborted
  attempt,   \* the attempt fetchWithRetry is at, 0 when it does not run
  filter,    \* whether rows are filtered
  descending, page,
  resetDue,  \* whether the effect that goes back to the first page is queued
  disposed,
  failed     \* whether a request has failed, not by an abort, since the last list

table == <<filter, descending, page, resetDue, disposed>>
vars == <<server, rows, failing, calls, made, bulk, attempt, table, failed>>

Call(id, kind, item, snapshot) ==
  [id |-> id, kind |-> kind, item |-> item, snapshot |-> snapshot, aborted |-> FALSE]
Calls == [id : 1..MaxCalls, kind : {"list", "loop", "delete", "bulk"}, item : Items \cup {0},
          snapshot : SUBSET Items, aborted : BOOLEAN]

TypeOK ==
  /\ {server, rows} \subseteq SUBSET Items /\ calls \subseteq Calls
  /\ made \in 0..MaxCalls /\ attempt \in 0..MaxAttempts
  /\ bulk \in [items : SUBSET Items, waiting : SUBSET Items, excused : SUBSET Items]
  /\ page \in 1..Cardinality(Items)
  /\ {failing, filter, descending, resetDue, disposed, failed} \subseteq BOOLEAN

Init ==
  /\ server = Items /\ rows = Items /\ failing = FALSE /\ calls = {} /\ made = 0
  /\ bulk = [items |-> {}, waiting |-> {}, excused |-> {}] /\ attempt = 0
  /\ filter = FALSE /\ descending = FALSE /\ page = 1 /\ resetDue = FALSE
  /\ disposed = FALSE /\ failed = FALSE

------------------------------------------------------------------------------
(* Requests *)

\* User code and answers come in tasks of their own.
Quiet == \A c \in calls : ~c.aborted
Aborted(set) == {[c EXCEPT !.aborted = TRUE] : c \in set}

\* Resource._request aborts the request before, if any.
Asks(others, kind, item, snapshot) ==
  /\ made < MaxCalls /\ made' = made + 1
  /\ calls' = Aborted(others) \cup {Call(made + 1, kind, item, snapshot)}

crudList ==
  /\ Quiet /\ Asks(calls, "list", 0, {})
  /\ UNCHANGED <<server, rows, failing, bulk, attempt, table, failed>>

\* The row goes at once.  A row that is being deleted is not there to be deleted again.
crudDelete(i) ==
  /\ Quiet /\ i \in rows /\ \A c \in calls : c.item # i
  /\ rows' = rows \ {i} /\ Asks(calls, "delete", i, rows)
  /\ UNCHANGED <<server, failing, bulk, attempt, table, failed>>

\* All requests are made in one go, so that only the last is not aborted.  Not followed
\* while a delete is under way, whose request one of these might join.
crudBulkDelete(S) ==
  /\ Quiet /\ bulk.waiting = {} /\ \A c \in calls : c.kind # "delete"
  /\ made + Cardinality(S) <= MaxCalls /\ made' = made + Cardinality(S)
  /\ LET ids == SetToSortSeq(S, <)
         all == {Call(made + n, "bulk", ids[n], {}) : n \in DOMAIN ids}
         last == Call(made + Len(ids), "bulk", ids[Len(ids)], {})
     IN calls' = Aborted(calls \cup (all \ {last})) \cup {last}
  /\ bulk' = [items |-> S, waiting |-> S, excused |-> {}]
  /\ UNCHANGED <<server, rows, failing, attempt, table, failed>>

\* fetchWithRetry, which render calls, one at a time.
fetchWithRetry ==
  /\ Quiet /\ ~disposed /\ attempt = 0 /\ attempt' = 1
  /\ Asks(calls, "loop", 0, {})
  /\ UNCHANGED <<server, rows, failing, bulk, table, failed>>

------------------------------------------------------------------------------
(* Answers *)

\* What comes after a request is settled: the loop tries again as long as there is an
\* error, whoever made it, and the actions list the server again.
LoopGoesOn(c) == c.kind = "loop" /\ failing' /\ ~disposed /\ attempt < MaxAttempts

\* Faulty variant: a delete that has succeeded is not followed by a list.
ListsAfterBulkOnly(c, ok) == c.kind = "bulk" /\ bulk'.waiting = {}

\* Whether the action that waited for the request lists the server again.
ListsAgain(c, ok) == (c.kind = "delete" /\ ok) \/ (c.kind = "bulk" /\ bulk'.waiting = {})

Goes(c, ok) ==
  /\ attempt' = IF c.kind # "loop" THEN attempt ELSE IF LoopGoesOn(c) THEN attempt + 1 ELSE 0
  /\ IF LoopGoesOn(c) THEN Asks(calls \ {c}, "loop", 0, {})
     ELSE IF ListsAgain(c, ok) THEN Asks(calls \ {c}, "list", 0, {})
     ELSE calls' = calls \ {c} /\ UNCHANGED made
  /\ UNCHANGED table

Settled(c, excused) ==
  bulk' = IF c.kind # "bulk" THEN bulk
          ELSE [bulk EXCEPT !.waiting = @ \ {c.item}, !.excused = IF excused THEN @ \cup {c.item} ELSE @]

Succeeds(c) ==
  /\ ~c.aborted /\ Quiet /\ Settled(c, FALSE)
  /\ IF c.kind \in {"list", "loop"}
     THEN rows' = server /\ failing' = FALSE /\ failed' = FALSE /\ UNCHANGED server
     ELSE server' = server \ {c.item} /\ UNCHANGED <<rows, failing, failed>>
  /\ Goes(c, TRUE)

\* rollbackWithMerge: all the snapshot held comes back, what is new stays.
RolledBack(c) == IF c.kind = "delete" THEN c.snapshot \cup rows ELSE rows

\* The server may have carried out a delete of which no answer came.
NoAnswer(c) ==
  /\ failing' = TRUE /\ rows' = RolledBack(c)
  /\ server' = server \/ server' = server \ {c.item}
  /\ Goes(c, FALSE)

Fails(c) == ~c.aborted /\ Quiet /\ Settled(c, TRUE) /\ failed' = TRUE /\ NoAnswer(c)

\* Whether the request that aborted this one is of the same bulk delete.
ByItsOwn(c) == \E d \in calls : d.kind = "bulk" /\ d.id = c.id + 1

\* Aborts are heard in the order of the requests.
HearsAbort(c) ==
  /\ c.aborted /\ \A d \in calls : d.aborted => c.id <= d.id
  /\ Settled(c, ~ByItsOwn(c)) /\ UNCHANGED failed /\ NoAnswer(c)

------------------------------------------------------------------------------
(* The table *)

totalPages == LET n == Cardinality(rows) IN IF n = 0 THEN 1 ELSE (n + PageSize - 1) \div PageSize

\* Faulty variant: the page is not corrected when rows have gone.
currentPageAsSet == page

currentViewPage == IF page > totalPages THEN totalPages ELSE page

Filtered == IF filter THEN rows \cap Matching ELSE rows
Sorted == SetToSortSeq(Filtered, LAMBDA i, j : IF descending THEN i > j ELSE i < j)
Slice(p) == SubSeq(Sorted, (p - 1) * PageSize + 1, IF p * PageSize < Len(Sorted) THEN p * PageSize ELSE Len(Sorted))
viewData == Slice(currentViewPage)

Turns(p) ==
  /\ page' = p
  /\ UNCHANGED <<server, rows, failing, calls, made, bulk, attempt, filter, descending, resetDue, disposed, failed>>
prevPage == Quiet /\ page > 1 /\ Turns(page - 1)
nextPage == Quiet /\ page < totalPages /\ Turns(page + 1)
gotoPage == Quiet /\ \E p \in 1..totalPages : Turns(p)

\* The filter or the search is set or cleared.
SetFilter ==
  /\ Quiet /\ filter' = ~filter /\ resetDue' = TRUE
  /\ UNCHANGED <<server, rows, failing, calls, made, bulk, attempt, descending, page, disposed, failed>>

\* The effect goes back to the first page.
EffectRuns ==
  /\ resetDue /\ resetDue' = FALSE /\ page' = 1
  /\ UNCHANGED <<server, rows, failing, calls, made, bulk, attempt, filter, descending, disposed, failed>>

Sort ==
  /\ Quiet /\ descending' = ~descending
  /\ UNCHANGED <<server, rows, failing, calls, made, bulk, attempt, filter, page, resetDue, disposed, failed>>

dispose ==
  /\ Quiet /\ ~disposed /\ disposed' = TRUE /\ resetDue' = FALSE
  /\ UNCHANGED <<server, rows, failing, calls, made, bulk, attempt, filter, descending, page, failed>>

Next ==
  \/ crudList \/ fetchWithRetry
  \/ \E i \in Items : crudDelete(i)
  \/ \E S \in SUBSET Items \ {{}} : crudBulkDelete(S)
  \/ \E c \in calls : Succeeds(c) \/ Fails(c) \/ HearsAbort(c)
  \/ prevPage \/ nextPage \/ gotoPage \/ Sort \/ EffectRuns \/ SetFilter \/ dispose

Spec == Init /\ [][Next]_vars

------------------------------------------------------------------------------
(* What is checked *)

\* When nothing is under way the rows are the server's, whatever was deleted, aborted and
\* rolled back, unless a request has failed since the last list.
SettledShowsServer == calls = {} /\ ~failed => rows = server

\* Without a filter the page shown has rows if there are any, though rows have gone; and
\* with one every row that passes is on exactly one of the pages one can turn to.
PagesShowRows ==
  /\ ~filter /\ rows # {} => viewData # <<>>
  /\ \A i \in Filtered : Cardinality({p \in 1..totalPages : i \in Range(Slice(p))}) = 1

\* "Deletes all of them together": a bulk delete that is over has left on the server
\* nothing but what the network failed or a request of somebody else aborted.
BulkDeletesAll == bulk.waiting = {} => bulk.items \cap server \subseteq bulk.excused
=============================================================================
