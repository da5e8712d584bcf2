---------------------------- MODULE DataHelpers -----------------------------
(***************************************************************************)
(* The code of packages/data in two parts with a state and a specification *)
(* each: zen-fetch (Spec), and the calls of createMutation and             *)
(* createInfiniteQuery (CallsSpec).                                        *)
(*                                                                         *)
(* The zen-fetch directive of packages/data: an effect follows a URL       *)
(* expression, numbers its fetches and shows the answer of the newest one. *)
(* A fetch is on the "net", or it "waits" out a 429.                       *)
(***************************************************************************)
EXTENDS Integers, FiniteSets, Sequences

CONSTANTS
  Urls,        \* values of the URL expression
  DirectUrls,  \* those shown without a fetch: in the fetch cache, or malformed
  MaxFetches,  \* bound: fetches of the directive
  MaxRetries,  \* MAX_RETRIES of performFetch, for 429
  None

VARIABLES
  url,        \* what the URL expression evaluates to
  scheduled,  \* whether the effect that watches it is queued
  fetchId,    \* currentFetchId
  evaluated,  \* the URL the effect last ran with, and whether it was fetched
  fetches,    \* the calls of performFetch that are under way
  shown,      \* fetchStateSignal: loading, and the URL its data or error is of
  disposed

vars == <<url, scheduled, fetchId, evaluated, fetches, shown, disposed>>

TypeOK ==
  /\ url \in Urls /\ scheduled \in BOOLEAN /\ disposed \in BOOLEAN
  /\ fetchId \in 0..MaxFetches + 1
  /\ evaluated \in [url : Urls \cup {None}, how : {"none", "fetch", "direct"}]
  /\ fetches \subseteq [id : 1..MaxFetches, url : Urls \ DirectUrls, tries : 0..MaxRetries,
                        where : {"net", "waits"}]
  /\ shown \in [loading : BOOLEAN, of : Urls \cup {None}]

Init ==
  /\ url \in Urls /\ scheduled = TRUE /\ disposed = FALSE
  /\ fetchId = 0 /\ evaluated = [url |-> None, how |-> "none"]
  /\ fetches = {} /\ shown = [loading |-> TRUE, of |-> None]

\* A signal the expression reads changes, which queues the effect.
UrlChanges(u) ==
  /\ u # url /\ ~disposed
  /\ url' = u /\ scheduled' = TRUE
  /\ UNCHANGED <<fetchId, evaluated, fetches, shown, disposed>>

\* The effect. A URL that is refused or cached is shown at once and returns before the
\* fetch under way is aborted or given up; an aborted fetch ends without a trace.
EffectRuns ==
  /\ scheduled /\ scheduled' = FALSE
  /\ IF url \in DirectUrls
     THEN /\ shown' = [loading |-> FALSE, of |-> url]
          /\ evaluated' = [url |-> url, how |-> "direct"]
          /\ UNCHANGED <<fetchId, fetches>>
     ELSE /\ fetchId < MaxFetches
          /\ fetchId' = fetchId + 1
          /\ fetches' = {f \in fetches : f.where = "waits" \/ f.tries > 0}
                          \cup {[id |-> fetchId + 1, url |-> url, tries |-> 0, where |-> "net"]}
          /\ shown' = [loading |-> TRUE, of |-> None]
          /\ evaluated' = [url |-> url, how |-> "fetch"]
  /\ UNCHANGED <<url, disposed>>

\* Faulty variant: no fetch is told apart from a later one.
IsCurrentAlways(f) == TRUE

IsCurrent(f) == f.id = fetchId

\* The answer, data or error, of a fetch arrives; only the newest one is shown.
Answered(f) ==
  /\ f \in fetches /\ f.where = "net"
  /\ fetches' = fetches \ {f}
  /\ shown' = IF IsCurrent(f) THEN [loading |-> FALSE, of |-> f.url] ELSE shown
  /\ UNCHANGED <<url, scheduled, fetchId, evaluated, disposed>>

\* Faulty variant: the retries of a 429 are not counted.
RateLimitedForever(f) ==
  /\ f \in fetches /\ f.where = "net"
  /\ fetches' = (fetches \ {f}) \cup {[f EXCEPT !.where = "waits"]}
  /\ UNCHANGED <<url, scheduled, fetchId, evaluated, shown, disposed>>

\* Status 429: the fetch waits and is then made again, with a controller of its own that
\* the directive does not know.
RateLimited(f) ==
  /\ f \in fetches /\ f.where = "net" /\ f.tries < MaxRetries
  /\ fetches' = (fetches \ {f}) \cup {[f EXCEPT !.where = "waits"]}
  /\ UNCHANGED <<url, scheduled, fetchId, evaluated, shown, disposed>>

WaitEnds(f) ==
  /\ f \in fetches /\ f.where = "waits"
  /\ IF IsCurrent(f)
     THEN /\ fetches' = (fetches \ {f}) \cup {[f EXCEPT !.where = "net", !.tries = @ + 1]}
          /\ shown' = [loading |-> TRUE, of |-> None]
     ELSE fetches' = fetches \ {f} /\ UNCHANGED shown
  /\ UNCHANGED <<url, scheduled, fetchId, evaluated, disposed>>

cleanup ==
  /\ ~disposed /\ disposed' = TRUE /\ scheduled' = FALSE
  /\ fetchId' = fetchId + 1
  /\ fetches' = {f \in fetches : f.where = "waits" \/ f.tries > 0}
  /\ UNCHANGED <<url, evaluated, shown>>

Next ==
  \/ \E u \in Urls : UrlChanges(u)
  \/ EffectRuns \/ cleanup
  \/ \E f \in fetches : Answered(f) \/ RateLimited(f) \/ WaitEnds(f)

Spec == Init /\ [][Next]_vars

------------------------------------------------------------------------------
(* What is checked *)

\* When nothing is under way the directive shows what belongs to the URL it evaluated
\* last, if that URL was fetched: neither an answer that waited out a 429 nor one that was
\* overtaken by a fetch for another URL is what remains.
SettledShowsUrl ==
  (fetches = {} /\ evaluated.how = "fetch" /\ ~disposed) =>
     shown = [loading |-> FALSE, of |-> evaluated.url]

\* While the directive shows that it is loading, the fetch that will end it is under way.
LoadingIsBacked == (shown.loading /\ ~scheduled /\ ~disposed) => \E f \in fetches : IsCurrent(f)

------------------------------------------------------------------------------
(***************************************************************************)
(* Second part, with a state of its own: createMutation and                *)
(* createInfiniteQuery of packages/data: signals shared by calls that      *)
(* overlap and are not numbered.                                           *)
(***************************************************************************)

CONSTANTS
  MaxCalls,  \* bound: calls of mutate and of fetchNextPage
  MaxPages   \* number of pages there are

VARIABLES
  mutations,   \* the calls of mutate whose fn is under way
  callbacks,   \* those whose callback is awaited, and which one it is
  mutation,    \* the signals of the mutation: loading, and whose data or error
  pages,       \* the pages shown
  next,        \* nextParam, or None
  queries,     \* the calls of fetchNextPage under way: their numbers and the pages asked for
  querying,    \* loading of the query
  overlapped,  \* whether two calls of fetchNextPage, or one and a reset, ever overlapped
  calls        \* how many calls were made

callsVars == <<mutations, callbacks, mutation, pages, next, queries, querying, overlapped, calls>>

CallsTypeOK ==
  /\ mutations \subseteq 1..MaxCalls /\ callbacks \subseteq (1..MaxCalls) \X {"onSuccess", "onError"}
  /\ mutation \in [loading : BOOLEAN, of : 0..MaxCalls]
  /\ pages \in Seq(0..MaxPages - 1) /\ next \in 0..MaxPages - 1 \cup {None}
  /\ queries \subseteq [call : 1..MaxCalls, page : 0..MaxPages - 1]
  /\ querying \in BOOLEAN /\ overlapped \in BOOLEAN /\ calls \in 0..MaxCalls

CallsInit ==
  /\ mutations = {} /\ callbacks = {} /\ mutation = [loading |-> FALSE, of |-> 0]
  /\ pages = <<>> /\ next = 0 /\ queries = {} /\ querying = FALSE
  /\ overlapped = FALSE /\ calls = 0

mutate ==
  /\ calls < MaxCalls /\ calls' = calls + 1
  /\ mutations' = mutations \cup {calls + 1}
  /\ mutation' = [mutation EXCEPT !.loading = TRUE]
  /\ UNCHANGED <<callbacks, pages, next, queries, querying, overlapped>>

\* fn has settled: its data or error is shown, and the callback for it is awaited.
MutationAnswers(c) ==
  /\ c \in mutations /\ mutations' = mutations \ {c}
  /\ \E callback \in {"onSuccess", "onError"} : callbacks' = callbacks \cup {<<c, callback>>}
  /\ mutation' = [mutation EXCEPT !.of = c]
  /\ UNCHANGED <<pages, next, queries, querying, overlapped, calls>>

\* What onSuccess throws ends in the same catch block as what fn throws.
OnSuccessThrows(c) ==
  /\ <<c, "onSuccess">> \in callbacks
  /\ callbacks' = (callbacks \ {<<c, "onSuccess">>}) \cup {<<c, "onError">>}
  /\ mutation' = [mutation EXCEPT !.of = c]
  /\ UNCHANGED <<mutations, pages, next, queries, querying, overlapped, calls>>

\* The callback has settled: the finally block ends loading, whoever else runs.
MutationSettles(c) ==
  /\ c \in callbacks /\ callbacks' = callbacks \ {c}
  /\ mutation' = [mutation EXCEPT !.loading = FALSE]
  /\ UNCHANGED <<mutations, pages, next, queries, querying, overlapped, calls>>

fetchNextPage ==
  /\ calls < MaxCalls /\ calls' = calls + 1
  /\ next # None
  /\ queries' = queries \cup {[call |-> calls + 1, page |-> next]} /\ querying' = TRUE
  /\ overlapped' = (overlapped \/ queries # {})
  /\ UNCHANGED <<mutations, callbacks, mutation, pages, next>>

\* Faulty variant: the parameter of the next call stays the same.
PageArrivesBlindly(p) ==
  /\ pages' = Append(pages, p)
  /\ UNCHANGED next

PageArrives(p) ==
  /\ pages' = Append(pages, p)
  /\ next' = IF p + 1 < MaxPages THEN p + 1 ELSE None

QuerySettles(q) ==
  /\ q \in queries /\ queries' = queries \ {q} /\ querying' = FALSE
  /\ PageArrives(q.page) \/ UNCHANGED <<pages, next>>
  /\ UNCHANGED <<mutations, callbacks, mutation, overlapped, calls>>

\* reset of the mutation; the calls under way go on.
resetMutation ==
  /\ mutation' = [loading |-> FALSE, of |-> 0]
  /\ UNCHANGED <<mutations, callbacks, pages, next, queries, querying, overlapped, calls>>

\* reset of the query; a page under way will be appended to the emptied list.
resetQuery ==
  /\ pages' = <<>> /\ next' = 0 /\ querying' = FALSE
  /\ overlapped' = (overlapped \/ queries # {})
  /\ UNCHANGED <<mutations, callbacks, mutation, queries, calls>>

CallsNext ==
  \/ mutate \/ fetchNextPage \/ resetMutation \/ resetQuery
  \/ \E c \in mutations : MutationAnswers(c)
  \/ \E c \in 1..MaxCalls : OnSuccessThrows(c)
  \/ \E c \in callbacks : MutationSettles(c)
  \/ \E q \in queries : QuerySettles(q)

CallsSpec == CallsInit /\ [][CallsNext]_callsVars

------------------------------------------------------------------------------
(* What is checked *)

\* While a helper shows that it is loading, a call that will end it is under way.
CallsAreBacked == (mutation.loading => mutations # {} \/ callbacks # {}) /\ (querying => queries # {})

\* Unless calls overlapped, the pages shown are the first ones, each once and in order,
\* whatever failures and resets lie between them.
PagesInSequence == overlapped \/ \A i \in DOMAIN pages : pages[i] = i - 1
=============================================================================
