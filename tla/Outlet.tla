------------------------------- MODULE Outlet -------------------------------
(***************************************************************************)
(* <zen-router> of packages/router (processRouter): an effect follows the  *)
(* route signal, fetches the page of the matching route unless the route   *)
(* cache has it, and shows what is answered under the number of the load.  *)
(***************************************************************************)
EXTENDS Integers, FiniteSets

CONSTANTS
  Sources,       \* the src of the routes; a path of the signal is named by the one it matches
  Parametric,    \* those whose route has parameters
  MaxLoads,      \* bound: loads of the outlet
  None           \* a path that no route matches

VARIABLES
  path,        \* what the path of the route signal matches: a source, or None
  params,      \* whether the signal holds the parameters of that path
  queued,      \* whether the effect is queued
  loadId,      \* currentLoadId
  fetches,     \* calls of fetchPage under way; 0 stands for the load of a prefetch
  cache,       \* routeCache: "absent", "fresh" or "stale" for every source
  prefetched,  \* prefetchedUrls
  content,     \* what the element shows
  cleaned

vars == <<path, params, queued, loadId, fetches, cache, prefetched, content, cleaned>>

Contents == [what : {"page", "error", "loading"}, of : Sources] \cup [what : {"404", "nothing"}, of : {None}]
Shows(what, src) == [what |-> what, of |-> src]

TypeOK ==
  /\ path \in Sources \cup {None} /\ params \in BOOLEAN /\ queued \in BOOLEAN
  /\ loadId \in 0..MaxLoads
  /\ fetches \subseteq [id : 0..MaxLoads, src : Sources, aborted : BOOLEAN, background : BOOLEAN]
  /\ cache \in [Sources -> {"absent", "fresh", "stale"}] /\ prefetched \subseteq Sources
  /\ content \in Contents /\ cleaned \in BOOLEAN

Init ==
  /\ path \in Sources \cup {None} /\ params \in BOOLEAN /\ queued = TRUE
  /\ loadId = 0 /\ fetches = {} /\ cache = [s \in Sources |-> "absent"] /\ prefetched = {}
  /\ content = Shows("nothing", None) /\ cleaned = FALSE

\* navigate and popstate set the signal, with empty parameters.
RouteChanges(p) ==
  /\ path' = p /\ params' = (p \notin Parametric) /\ queued' = ~cleaned
  /\ UNCHANGED <<loadId, fetches, cache, prefetched, content, cleaned>>

\* currentAbort.abort(): the fetch of the load before, if it is still under way.
Aborted(set) == {IF f.id = loadId /\ f.id # 0 THEN [f EXCEPT !.aborted = TRUE] ELSE f : f \in set}

Fetch(src, background) == [id |-> loadId + 1, src |-> src, aborted |-> FALSE, background |-> background]

\* Faulty variant: a page that is cached is shown without a load of its own.
LoadUncounted(src) ==
  IF cache[src] = "fresh"
  THEN content' = Shows("page", src) /\ UNCHANGED <<loadId, fetches>>
  ELSE /\ loadId < MaxLoads /\ loadId' = loadId + 1
       /\ content' = Shows(IF cache[src] = "absent" THEN "loading" ELSE "page", src)
       /\ fetches' = Aborted(fetches) \cup {Fetch(src, cache[src] = "stale")}

\* The matching route: a cached page is shown at once, and fetched again behind it if stale.
Load(src) ==
  /\ loadId < MaxLoads /\ loadId' = loadId + 1
  /\ content' = Shows(IF cache[src] = "absent" THEN "loading" ELSE "page", src)
  /\ fetches' = Aborted(fetches) \cup
       (IF cache[src] = "fresh" THEN {} ELSE {Fetch(src, cache[src] = "stale")})

\* The effect.  Parameters that are not in the signal are put there, which queues it again;
\* a path that matches nothing neither aborts the load before nor takes a number.
EffectRuns ==
  /\ queued
  /\ IF path # None /\ ~params
     THEN params' = TRUE /\ UNCHANGED <<queued, loadId, fetches, content>>
     ELSE /\ queued' = FALSE /\ UNCHANGED params
          /\ IF path = None THEN content' = Shows("404", None) /\ UNCHANGED <<loadId, fetches>>
             ELSE Load(path)
  /\ UNCHANGED <<path, cache, prefetched, cleaned>>

\* Faulty variant: an answer that is not ok empties the element.
RenderedIfOk(f, what) ==
  IF f.id # loadId \/ f.id = 0 THEN content ELSE Shows(IF what = "error" THEN "nothing" ELSE what, f.src)

\* What is shown when a load is answered: only the newest one, and in the background only
\* a page.
Rendered(f, what) ==
  IF f.id # loadId \/ f.id = 0 \/ (f.background /\ what = "error") THEN content ELSE Shows(what, f.src)

\* The page has arrived and goes into the cache, whoever still waits for it.
FetchSucceeds(f) ==
  /\ fetches' = fetches \ {f}
  /\ cache' = [cache EXCEPT ![f.src] = "fresh"]
  /\ content' = Rendered(f, "page")
  /\ UNCHANGED <<path, params, queued, loadId, prefetched, cleaned>>

\* A status, a network error, or the abort: all become an answer that is not ok.
FetchFails(f) ==
  /\ fetches' = fetches \ {f}
  /\ content' = Rendered(f, "error")
  /\ UNCHANGED <<path, params, queued, loadId, cache, prefetched, cleaned>>

\* prefetchRoute: the pointer is over a link; once per source.
prefetchRoute(src) ==
  /\ src \notin prefetched /\ prefetched' = prefetched \cup {src}
  /\ fetches' = fetches \cup {[id |-> 0, src |-> src, aborted |-> FALSE, background |-> TRUE]}
  /\ UNCHANGED <<path, params, queued, loadId, cache, content, cleaned>>

clearRouteCache ==
  /\ cache' = [s \in Sources |-> "absent"] /\ prefetched' = {}
  /\ UNCHANGED <<path, params, queued, loadId, fetches, content, cleaned>>

\* DEFAULT_STALE_TIME has passed, or other pages have pushed this one out.
GrowsOld(src, state) ==
  /\ cache[src] # "absent" /\ cache' = [cache EXCEPT ![src] = state]
  /\ UNCHANGED <<path, params, queued, loadId, fetches, prefetched, content, cleaned>>

cleanup ==
  /\ ~cleaned /\ cleaned' = TRUE /\ queued' = FALSE
  /\ fetches' = Aborted(fetches) /\ content' = Shows("nothing", None)
  /\ UNCHANGED <<path, params, loadId, cache, prefetched>>

Next ==
  \/ \E p \in Sources \cup {None} : RouteChanges(p)
  \/ EffectRuns \/ clearRouteCache \/ cleanup
  \/ \E f \in fetches : FetchSucceeds(f) \/ FetchFails(f)
  \/ \E s \in Sources : prefetchRoute(s) \/ GrowsOld(s, "stale") \/ GrowsOld(s, "absent")

Spec == Init /\ [][Next]_vars

------------------------------------------------------------------------------
(* What is checked *)

Settled == ~queued /\ ~cleaned /\ \A f \in fetches : f.id = 0

\* When nothing is queued or under way the outlet shows the route there is, its page or an
\* error: no answer to a load that was overtaken is what remains.
MatchIsShown == (Settled /\ path # None) => content \in {Shows("page", path), Shows("error", path)}

\* "Its response cannot overwrite the newer route's content": what is left in the outlet
\* belongs to the newest route, also when that is one that nothing matches.
NewestRouteIsShown == Settled => content.of = path
=============================================================================
