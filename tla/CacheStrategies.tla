--------------------------- MODULE CacheStrategies ---------------------------
(***************************************************************************)
(* The fetch event of packages/service-worker: a GET of one URL under one  *)
(* of the six strategies, over awaited lookups, answers that come late or  *)
(* never and a worker that is stopped or replaced, with the install and    *)
(* activate events that make and clean the versioned caches.               *)
(***************************************************************************)
EXTENDS Integers

CONSTANTS
  Requests,     \* 1..n, the fetch events
  Versions,     \* 1..n, the values of cacheVersion that are deployed
  MaxEdits      \* bound: how often the server's resource changes

VARIABLES
  strategy,     \* of the route of the URL
  named,        \* whether that route has a cacheName of its own
  active,       \* cacheVersion of the active worker, 0 after a kill switch worker
  waiting,      \* cacheVersion of the worker that was installed and waits, or 0
  cleaning,     \* the names that activate read and has not yet judged
  store,        \* the CacheStorage: the content for the URL, 0 if none, -1 if no such cache
  server,       \* the content the server has
  req,          \* the requests
  kept          \* the versions whose cache was once filled

vars == <<strategy, named, active, waiting, cleaning, store, server, req, kept>>

Strategies == {"cacheFirst", "networkFirst", "staleWhileRevalidate", "networkOnly",
               "cacheOnly", "cacheThenNetwork"}
Names == (Versions \X {"precache", "default", "route"}) \cup {<<0, "foreign">>}

\* versionedCacheName of what the fetch handler uses.
CacheName(v) == <<v, IF named THEN "route" ELSE "default">>

\* answer: what the page was given, the content or one of the words; asks: where the request
\* to the server is; body: what the server answered; had: the cache had the URL at the start.
NewRequest == [worker |-> 0, answer |-> "none", asks |-> "no", body |-> 0,
               had |-> FALSE, failed |-> FALSE]
Contents == 1..(MaxEdits + 1)
Words == {"none", "pending", "offline", "not ok", "from cache", "from network"}

TypeOK ==
  /\ strategy \in Strategies /\ named \in BOOLEAN
  /\ active \in Versions \cup {0} /\ waiting \in Versions \cup {0} /\ cleaning \subseteq Names
  /\ store \in [Names -> Contents \cup {-1, 0}] /\ server \in Contents
  /\ req \in [Requests -> [worker : Versions \cup {0}, answer : Words,
                           asks : {"no", "opening", "opened", "asked", "answered"},
                           body : Contents \cup {0}, had : BOOLEAN, failed : BOOLEAN]]
  /\ kept \subseteq Versions

\* The first version has been activated and has cached nothing yet; another application of
\* this origin has a cache too.
Init ==
  /\ strategy \in Strategies /\ named \in BOOLEAN
  /\ active = 1 /\ waiting = 0 /\ cleaning = {}
  /\ store = [n \in Names |-> IF n[1] = 0 THEN 0 ELSE -1]
  /\ server = 1 /\ kept = {}
  /\ req = [r \in Requests |-> NewRequest]

WorkersStay == UNCHANGED <<strategy, named, active, waiting, cleaning, server>>
StoreStays == UNCHANGED <<store, kept>>

\* The fetch event, up to caches.open; networkOnly asks the server at once.
FetchEvent(r) ==
  /\ req[r].answer = "none" /\ cleaning = {} /\ active # 0
  /\ \A q \in Requests : q < r => req[q].answer # "none"
  /\ req' = [req EXCEPT ![r] = [NewRequest EXCEPT !.worker = active, !.answer = "pending",
       !.asks = IF strategy = "networkOnly" THEN "asked" ELSE "opening",
       !.had = store[CacheName(active)] > 0]]
  /\ WorkersStay /\ StoreStays

\* open makes the cache if there is none; networkFirst then asks, the others look it up.
Opened(r) ==
  /\ req[r].asks = "opening"
  /\ LET name == CacheName(req[r].worker)
     IN store' = [store EXCEPT ![name] = IF @ = -1 THEN 0 ELSE @]
  /\ req' = [req EXCEPT ![r].asks = IF strategy = "networkFirst" THEN "asked" ELSE "opened"]
  /\ WorkersStay /\ UNCHANGED kept

\* cache.match: a hit is the answer, and for two of the strategies the question to the
\* server goes on without the page; a miss asks it, except for cacheOnly.
Matched(r) ==
  /\ req[r].asks = "opened"
  /\ LET hit == store[CacheName(req[r].worker)] > 0
     IN req' = [req EXCEPT ![r].answer = IF hit THEN "from cache"
                                         ELSE IF strategy = "cacheOnly" THEN "offline" ELSE @,
                           ![r].asks = IF strategy = "cacheOnly" \/ (hit /\ strategy = "cacheFirst")
                                       THEN "no" ELSE "asked"]
  /\ WorkersStay /\ StoreStays

\* The server handles the question.
ServerAnswers(r) ==
  /\ req[r].asks = "asked"
  /\ req' = [req EXCEPT ![r].asks = "answered", ![r].body = server]
  /\ WorkersStay /\ StoreStays

ServerEdits ==
  /\ server <= MaxEdits /\ server' = server + 1
  /\ UNCHANGED <<strategy, named, active, waiting, cleaning, req>> /\ StoreStays

\* The page is given an answer unless it has one.
Given(r, word) == IF req[r].answer = "pending" THEN word ELSE req[r].answer

\* A good answer is put into the cache while nobody waits for that: it may fail.
Arrives(r) ==
  /\ req[r].asks = "answered"
  /\ req' = [req EXCEPT ![r].asks = "no", ![r].answer = Given(r, "from network")]
  /\ LET name == CacheName(req[r].worker)
     IN \/ /\ strategy # "networkOnly"
           /\ store' = [store EXCEPT ![name] = req[r].body]
           /\ kept' = kept \cup {req[r].worker}
        \/ StoreStays
  /\ WorkersStay

ArrivesNotOk(r) ==
  /\ req[r].asks = "answered"
  /\ req' = [req EXCEPT ![r].asks = "no", ![r].answer = Given(r, "not ok")]
  /\ WorkersStay /\ StoreStays

\* Faulty variant: networkFirst without the cache behind it.
FallbackGone(r) == "offline"

\* What the catch blocks answer with.
Fallback(r) ==
  IF strategy = "networkFirst" /\ store[CacheName(req[r].worker)] > 0 THEN "from cache"
  ELSE "offline"

\* No answer: the network failed, or the controller of networkFirst was aborted by its timer.
NetworkFails(r) ==
  /\ req[r].asks \in {"asked", "answered"}
  /\ req[r].asks = "answered" => strategy = "networkFirst"
  /\ req' = [req EXCEPT ![r].asks = "no", ![r].failed = TRUE, ![r].answer = Given(r, Fallback(r))]
  /\ WorkersStay /\ StoreStays

\* The browser stops a worker that has nothing to answer: what goes on in the background ends.
WithoutBackground ==
  [r \in Requests |-> IF req[r].answer = "pending" THEN req[r] ELSE [req[r] EXCEPT !.asks = "no"]]
WorkerStops ==
  /\ \E r \in Requests : req[r].asks # "no"
  /\ \A r \in Requests : req[r].answer # "pending"
  /\ req' = WithoutBackground
  /\ WorkersStay /\ StoreStays

\* install of another worker, whose cacheVersion may be the same; a URL that cannot be
\* fetched does not fail it.
Install(v) ==
  /\ waiting = 0 /\ cleaning = {} /\ active # 0 /\ v >= active
  /\ waiting' = v
  /\ store' = [store EXCEPT ![<<v, "precache">>] = IF @ = -1 THEN 0 ELSE @]
  /\ UNCHANGED <<strategy, named, active, cleaning, server, req, kept>>

\* The browser activates it when the old one has nothing to answer (skipWaiting or not, which
\* is about pages), and activate reads the names of the caches there are.
Activates(v) ==
  /\ \A r \in Requests : req[r].answer # "pending"
  /\ active' = v /\ waiting' = 0
  /\ cleaning' = {n \in Names : store[n] # -1}
  /\ req' = WithoutBackground
  /\ UNCHANGED <<strategy, named, server, store, kept>>

\* setupKillSwitchSW: a worker that does not wait, deletes all caches and unregisters.
KillSwitch == active # 0 /\ cleaning = {} /\ Activates(0)

\* Faulty variant: the default cache is forgotten.
keepNamesOfRoutes(v) == {<<v, "precache">>, CacheName(v)} \ {<<v, "default">>}

keepNames(v) == IF v = 0 THEN {} ELSE {<<v, "precache">>, <<v, "default">>, CacheName(v)}

\* What is not to be kept is deleted; waitUntil keeps fetch events waiting for it.
Cleaned ==
  /\ cleaning # {} /\ cleaning' = {}
  /\ store' = [n \in Names |-> IF n \in cleaning \ keepNames(active) THEN -1 ELSE store[n]]
  /\ UNCHANGED <<strategy, named, active, waiting, server, req, kept>>

Next ==
  \/ \E r \in Requests : FetchEvent(r) \/ Opened(r) \/ Matched(r) \/ ServerAnswers(r)
                         \/ Arrives(r) \/ ArrivesNotOk(r) \/ NetworkFails(r)
  \/ ServerEdits \/ WorkerStops \/ (waiting # 0 /\ Activates(waiting)) \/ KillSwitch \/ Cleaned
  \/ \E v \in Versions : Install(v)

Spec == Init /\ [][Next]_vars

------------------------------------------------------------------------------
(* What is checked *)

\* Offline is said only by a strategy that has nothing else: whenever the cache had the URL
\* as the request came, the page gets it if the network does not answer.
OfflineMeansNothing ==
  \A r \in Requests :
    req[r].answer = "offline" /\ req[r].had => strategy = "networkOnly"

\* A page that is to have fresh data gets old ones only if the network failed it.
NetworkComesFirst ==
  \A r \in Requests :
    strategy = "networkFirst" /\ req[r].answer = "from cache" => req[r].failed

\* What the active version has cached survives updates of the worker, and nothing of an
\* earlier version is left once activate has ended.
UpdatesKeepCaches ==
  /\ active \in kept => store[CacheName(active)] > 0
  /\ cleaning = {} => \A n \in Names : store[n] # -1 => active # 0 /\ n[1] \in {active, waiting, 0}
=============================================================================
