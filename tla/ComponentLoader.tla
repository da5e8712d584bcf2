-------------------------- MODULE ComponentLoader --------------------------
(***************************************************************************)
(* The asynchronous loader of packages/components, for one source:         *)
(* elements that show its template share one fetch, a template is cached,  *)
(* and so is a failure, for a while.  The fetch listens to the abort       *)
(* signal of the element that started it, and to nobody else's.            *)
(***************************************************************************)
EXTENDS Integers, FiniteSets

CONSTANTS
  Elements,   \* elements with this source, each processed once
  MaxFetches  \* bound: fetches

VARIABLES
  element,    \* what each element shows
  disposed,   \* the elements whose dispose function was called
  template,   \* whether templateCache has the template
  failure,    \* whether errorCache has a failure
  inflight,   \* the fetch whose promise is in inflightCache, or 0
  fetches,    \* the fetches under way, with those who wait for them
  made,
  cleared     \* whether the caches were cleared while a fetch was under way

vars == <<element, disposed, template, failure, inflight, fetches, made, cleared>>

Fetches == [id : 1..MaxFetches, starter : Elements, waiting : SUBSET Elements, aborted : BOOLEAN]

TypeOK ==
  /\ element \in [Elements -> {"new", "loading", "shown", "error"}] /\ disposed \subseteq Elements
  /\ {template, failure, cleared} \subseteq BOOLEAN
  /\ inflight \in 0..made /\ made \in 0..MaxFetches /\ fetches \subseteq Fetches

Init ==
  /\ element = [e \in Elements |-> "new"] /\ disposed = {}
  /\ template = FALSE /\ failure = FALSE /\ inflight = 0 /\ fetches = {} /\ made = 0
  /\ cleared = FALSE

Becomes(es, what) == element' = [e \in Elements |-> IF e \in es THEN what ELSE element[e]]

\* Faulty variant: a fetch under way is not looked for.
JoinsNobody == FALSE

\* Whether loadComponent finds a fetch to join.
Joins == inflight # 0

\* processAsyncComponent and loadComponent: a failure, a template, a fetch under way, in
\* this order, or else a new fetch.
processAsyncComponent(e) ==
  /\ element[e] = "new"
  /\ IF failure THEN Becomes({e}, "error") /\ UNCHANGED <<inflight, fetches, made>>
     ELSE IF template THEN Becomes({e}, "shown") /\ UNCHANGED <<inflight, fetches, made>>
     ELSE /\ Becomes({e}, "loading")
          /\ IF Joins
             THEN /\ fetches' = {IF f.id = inflight THEN [f EXCEPT !.waiting = @ \cup {e}] ELSE f : f \in fetches}
                  /\ UNCHANGED <<inflight, made>>
             ELSE /\ made < MaxFetches /\ made' = made + 1 /\ inflight' = made + 1
                  /\ fetches' = fetches \cup
                       {[id |-> made + 1, starter |-> e, waiting |-> {e}, aborted |-> FALSE]}
  /\ UNCHANGED <<disposed, template, failure, cleared>>

\* The template has come.  It goes to all who wait, disposed or not.
FetchSucceeds(f) ==
  /\ fetches' = fetches \ {f} /\ inflight' = 0
  /\ template' = TRUE /\ Becomes(f.waiting, "shown")
  /\ UNCHANGED <<disposed, failure, made, cleared>>

\* Faulty variant: a fetch that has failed stays in inflightCache.
FailsKept(f) == fetches' = fetches \ {f} /\ UNCHANGED inflight

\* The entry of the source goes, whichever fetch it is of.
Fails(f) == fetches' = fetches \ {f} /\ inflight' = 0

\* The network, a status, a document without template, the timeout, or the abort.
FetchFails(f) ==
  /\ Fails(f) /\ failure' = TRUE /\ Becomes(f.waiting, "error")
  /\ UNCHANGED <<disposed, template, made, cleared>>

\* The element goes: the fetch it started is aborted, for all who wait, unless the response
\* has begun, from when on nothing listens for the abort.
dispose(e) ==
  /\ element[e] # "new" /\ e \notin disposed /\ disposed' = disposed \cup {e}
  /\ fetches' \in {fetches, {IF f.starter = e THEN [f EXCEPT !.aborted = TRUE] ELSE f : f \in fetches}}
  /\ UNCHANGED <<element, template, failure, inflight, made, cleared>>

clearComponentCache ==
  /\ template' = FALSE /\ failure' = FALSE /\ inflight' = 0
  /\ cleared' = (cleared \/ fetches # {})
  /\ UNCHANGED <<element, disposed, fetches, made>>

\* Time passes: the failure is forgotten after 30 seconds, the template in its turn.
Expires ==
  /\ \/ failure /\ failure' = FALSE /\ UNCHANGED template
     \/ template /\ template' = FALSE /\ UNCHANGED failure
  /\ UNCHANGED <<element, disposed, inflight, fetches, made, cleared>>

Next ==
  \/ \E e \in Elements : processAsyncComponent(e) \/ dispose(e)
  \/ \E f \in fetches : (~f.aborted /\ FetchSucceeds(f)) \/ FetchFails(f)
  \/ clearComponentCache \/ Expires

Spec == Init /\ [][Next]_vars

------------------------------------------------------------------------------
(* What is checked *)

\* An element that shows "loading" waits for a fetch under way, over aborts, failures and
\* cleared caches: none is left waiting.
LoadingIsBacked == \A e \in Elements : element[e] = "loading" <=> \E f \in fetches : e \in f.waiting

\* Unless the caches were cleared during a fetch: one fetch at a time is under way, the one
\* that others can join, and no failure is remembered while the template is there.
OneFetchForAll ==
  ~cleared => /\ \A f \in fetches : f.id = inflight
              /\ ~(failure /\ template)
=============================================================================
