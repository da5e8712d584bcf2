----------------------------- MODULE MCRequests -----------------------------
(***************************************************************************)
(* The packages that ask a server for something, wait for others or share  *)
(* state, each by itself.  createAsync has its own names (EXTENDS);        *)
(* they share no state, so one behaviour follows one of them (package) and *)
(* the states to explore are a sum, not a product: v1, v2, ... are the     *)
(* variables of that package.  A module with two parts declares variables  *)
(* twice: a behaviour follows one part, whose actions speak of no variable *)
(* of the other.  A name that two modules have stands for the same v.      *)
(***************************************************************************)
EXTENDS AsyncSignal

CONSTANTS
  None,
  Requests, Refetches, KeyOf, MaxAttempts, Intercepted, Caching,        \* http, and Requests of caches
  Urls, DirectUrls, MaxFetches, MaxRetries, MaxPageCalls, MaxPages,     \* data, and MaxFetches of components
  Mutations, MaxCycles, CyclesSeen, WorkerVersions, MaxEdits,           \* service-worker
  States, Accounts, MaxCalls,                                           \* auth-oauth, functional auth
  MaxRefreshes, MaxOverrides, Locales, Default, Rtl, Bundled,           \* feature-flags, i18n
  Paths, PageOf, MaxHistory, Guards, MaxWaiting, MaxCommits,            \* router
  ChainGuards, ChainWaiting, ChainCommits,
  Sources, Parametric, MaxLoads, Elements,                              \* outlet, components
  Children, Siblings, HasTimeout, InnerId, Promises, TrackTimeout, HasDelay, MaxGenerations  \* suspense

VARIABLES
  package,   \* the one this behaviour follows
  v1, v2, v3, v4, v5, v6, v7, v8, v9, v10, v11, v12, v13, v14

\* The variables that the package followed does not need.
Blank14 == v14 = "unused"
Blank13 == v13 = "unused" /\ Blank14
Blank12 == v12 = "unused" /\ Blank13
Blank11 == v11 = "unused" /\ Blank12
Blank10 == v10 = "unused" /\ Blank11
Blank9 == v9 = "unused" /\ Blank10
Blank8 == v8 = "unused" /\ Blank9
Blank7 == v7 = "unused" /\ Blank8
Blank6 == v6 = "unused" /\ Blank7
Blank5 == v5 = "unused" /\ Blank6
Blank4 == v4 = "unused" /\ Blank5
Blank3 == v3 = "unused" /\ Blank4
Blank2 == v2 = "unused" /\ Blank3
Blank1 == v1 = "unused" /\ Blank2
Rest14 == <<v14>>
Rest13 == <<v13, Rest14>>
Rest12 == <<v12, Rest13>>
Rest11 == <<v11, Rest12>>
Rest10 == <<v10, Rest11>>
Rest9 == <<v9, Rest10>>
Rest8 == <<v8, Rest9>>
Rest7 == <<v7, Rest8>>
Rest6 == <<v6, Rest7>>
Rest5 == <<v5, Rest6>>
Rest4 == <<v4, Rest5>>
Rest3 == <<v3, Rest4>>
Rest2 == <<v2, Rest3>>
Rest1 == <<v1, Rest2>>

\* Values for the model checker: requests of one URL, and paths with and without an anchor.
OneKey == [r \in Requests |-> 1]
PageOfPath == [p \in Paths |-> IF p = "b" THEN "b" ELSE "a"]

H == INSTANCE HttpRequests
  WITH phase <- v4, attempt <- v1, pending <- v2, aborted <- v3, callerAborted <- v5, cached <- v6,
       res <- v7

Z == INSTANCE DataHelpers
  WITH MaxCalls <- MaxPageCalls,
       url <- v3, scheduled <- v4, fetchId <- v5, evaluated <- v6, fetches <- v2, shown <- v7,
       disposed <- v1,
       mutations <- v1, callbacks <- v2, mutation <- v4, pages <- v5, next <- v6, queries <- v7,
       querying <- v8, overlapped <- v9, calls <- v3

S == INSTANCE SyncQueue
  WITH client <- v2, stored <- v1, registered <- v3, sync <- v4, retryCount <- v5, cycles <- v6,
       accepted <- v7, cutOff <- v8

O == INSTANCE AuthClients
  WITH login <- v1, pending <- v2, exchanged <- v3, tokens <- v4, user <- v5, claims <- v6,
       status <- v7, timers <- v8, renewTimer <- v9, calls <- v10, made <- v11, disposed <- v12,
       crossed <- v13, gaveUp <- v14,
       account <- v1, accountTokens <- v2, stored <- v3, loading <- v4, timer <- v5, initialized <- v6,
       requests <- v7, sent <- v8, mixed <- v9, halfCleared <- v10

G == INSTANCE Settings
  WITH data <- v2, override <- v4, overrides <- v5, refreshes <- v6, made <- v3, timer <- v7,
       disposed <- v1, unordered <- v8,
       locale <- v4, lastDir <- v5, page <- v6, stored <- v1, messages <- v7, available <- v8,
       loads <- v9, cleanups <- v10, i18nDisposed <- v11, calls <- v3, crossed <- v2

C == INSTANCE CacheStrategies
  WITH Versions <- WorkerVersions,
       strategy <- v2, named <- v3, active <- v4, waiting <- v1, cleaning <- v5, store <- v6,
       server <- v7, req <- v8, kept <- v9

\* Two navigations wait for one guard; one passes a chain of two, with view transitions.
N == INSTANCE Navigation
  WITH guards <- v3, entries <- v4, at <- v5, route <- v6, waiting <- v1, commits <- v7, crossed <- v2

V == INSTANCE Navigation
  WITH Guards <- ChainGuards, MaxWaiting <- ChainWaiting, MaxCommits <- ChainCommits,
       guards <- v3, entries <- v4, at <- v5, route <- v6, waiting <- v1, commits <- v7, crossed <- v2

T == INSTANCE Outlet
  WITH path <- v4, params <- v5, queued <- v3, loadId <- v6, fetches <- v2, cache <- v7,
       prefetched <- v8, content <- v9, cleaned <- v1

L == INSTANCE ComponentLoader
  WITH element <- v4, disposed <- v1, template <- v5, failure <- v6, inflight <- v7, fetches <- v2,
       made <- v3, cleared <- v8

B == INSTANCE Suspense
  WITH inner <- v2, outer <- v3, cleaned <- v1, released <- v4,
       ctx <- v2, tracked <- v5, generation <- v6, loading <- v7, phase <- v4, delaying <- v8,
       error <- v9, queued <- v3, ready <- v10, disposed <- v1

\* A field with a rule, and one that comes and goes and that the server judges; two steps of one field each.
F == INSTANCE Forms
  WITH Fields <- {"a", "b"}, Dynamic <- {"b"}, Values <- {0, 1}, Initial <- 0,
       SyncRejects <- {<<"a", 0>>}, AsyncRejects <- {<<"b", 1>>}, Confirms <- {}, MaxChecks <- 2,
       Steps <- {1, 2}, Good <- 0, Bad <- 1, MaxRuns <- 2, MaxCalls <- 3,
       present <- v1, value <- v2, verdict <- v3, flag <- v4, valid <- v5, submitting <- v6,
       timers <- v7, checks <- v8, mixed <- v9, handed <- v10,
       stepValue <- v1, error <- v2, outdated <- v3, runs <- v4, validating <- v5, currentStep <- v6,
       unseen <- v7, canGoNext <- v8, autoSave <- v9, saved <- v10, calls <- v11, refusedOnce <- v12

\* Two tabs and two keys, and room for both keys only with the smaller value.
K == INSTANCE StorageSync
  WITH Tabs <- {"t1", "t2"}, Keys <- {"k1", "k2"}, Values <- {1, 2}, Capacity <- 2, MaxEvents <- 2,
       records <- v1, signal <- v2, inbox <- v3, torn <- v4

\* A state of two objects, with three changes; two stores of one name.
W == INSTANCE Store
  WITH Root <- 1, MaxObjects <- 5, MaxSets <- 3, MaxLayers <- 2, MaxChanges <- 3, Subscribers <- {"a"},
       MaxStores <- 2, MaxDepth <- 2,
       field <- v1, made <- v2, sets <- v3, visiting <- v4, proxied <- v5, held <- v6, kept <- v7,
       changes <- v8, twice <- v9,
       stores <- v1, current <- v2, stored <- v3, refused <- v4, calls <- v5, mutations <- v6

\* Two requests of a server, one of them a stream, or two pages for two workers; room for one idle DOM.
P == INSTANCE ServerRender
  WITH Requests <- {1, 2}, Streams <- {2}, Workers <- {1, 2}, MaxPool <- 1, MaxPasses <- 2,
       als <- v1, serving <- v2, failOnError <- v3, stack <- v4, work <- v5, result <- v6,
       aborted <- v7, pool <- v8, doms <- v9, job <- v10, files <- v11

ASSUME RequestsAssumption ==
  /\ None \notin Nat \cup States \cup Accounts \cup S!Handlers
  /\ MaxFetches \in Nat /\ MaxCalls \in Nat
  /\ Mutations \subseteq Nat /\ MaxCycles \in Nat /\ MaxCycles >= 2
  /\ WorkerVersions \subseteq Nat \ {0} /\ 1 \in WorkerVersions
  /\ Bundled \cup {Default} \subseteq Locales /\ "none" \notin Locales
  /\ InnerId \notin Siblings /\ TrackTimeout \in BOOLEAN /\ HasDelay \in BOOLEAN

Start ==
  \/ package = "state" /\ Init /\ Blank1
  \/ /\ Init /\ immediate /\ keepPrevious
     /\ \/ package = "http" /\ H!Init /\ Blank8
        \/ package = "fetcher" /\ Z!Init /\ Blank8
        \/ package = "data" /\ Z!CallsInit /\ Blank10
        \/ package = "service-worker" /\ S!Init /\ Blank9
        \/ package = "auth-oauth" /\ O!Init
        \/ package = "functional auth" /\ O!FunctionalInit /\ Blank11
        \/ package = "feature-flags" /\ G!Init /\ Blank9
        \/ package = "i18n" /\ G!LocaleInit /\ Blank12
        \/ package = "service-worker caches" /\ C!Init /\ Blank10
        \/ package = "router, one guard" /\ N!Init /\ Blank8
        \/ package = "router, two guards" /\ V!Init /\ Blank8
        \/ package = "outlet" /\ T!Init /\ Blank10
        \/ package = "components" /\ L!Init /\ Blank9
        \/ package = "zen-suspense" /\ B!Init /\ Blank5
        \/ package = "createSuspense" /\ B!TrackInit /\ Blank11
        \/ package = "form" /\ F!Init /\ Blank11
        \/ package = "wizard" /\ F!WizardInit /\ Blank13
        \/ package = "storage" /\ K!Init /\ Blank5
        \/ package = "store" /\ W!Init /\ Blank10
        \/ package = "stores" /\ W!LifecycleInit /\ Blank7
        \/ package = "ssr" /\ P!Init /\ Blank12

Step ==
  /\ UNCHANGED package
  /\ \/ package = "state" /\ Next /\ UNCHANGED Rest1
     \/ /\ UNCHANGED vars
        /\ \/ package = "http" /\ H!Next /\ UNCHANGED Rest8
           \/ package = "fetcher" /\ Z!Next /\ UNCHANGED Rest8
           \/ package = "data" /\ Z!CallsNext /\ UNCHANGED Rest10
           \/ package = "service-worker" /\ S!Next /\ UNCHANGED Rest9
           \/ package = "auth-oauth" /\ O!Next
           \/ package = "functional auth" /\ O!FunctionalNext /\ UNCHANGED Rest11
           \/ package = "feature-flags" /\ G!Next /\ UNCHANGED Rest9
           \/ package = "i18n" /\ G!LocaleNext /\ UNCHANGED Rest12
           \/ package = "service-worker caches" /\ C!Next /\ UNCHANGED Rest10
           \/ package = "router, one guard" /\ N!Next /\ UNCHANGED Rest8
           \/ package = "router, two guards" /\ V!Next /\ UNCHANGED Rest8
           \/ package = "outlet" /\ T!Next /\ UNCHANGED Rest10
           \/ package = "components" /\ L!Next /\ UNCHANGED Rest9
           \/ package = "zen-suspense" /\ B!Next /\ UNCHANGED Rest5
           \/ package = "createSuspense" /\ B!TrackNext /\ UNCHANGED Rest11
           \/ package = "form" /\ F!Next /\ UNCHANGED Rest11
           \/ package = "wizard" /\ F!WizardNext /\ UNCHANGED Rest13
           \/ package = "storage" /\ K!Next /\ UNCHANGED Rest5
           \/ package = "store" /\ W!Next /\ UNCHANGED Rest10
           \/ package = "stores" /\ W!LifecycleNext /\ UNCHANGED Rest7
           \/ package = "ssr" /\ P!Next /\ UNCHANGED Rest12

RunSpec == Start /\ [][Step]_<<package, vars, Rest1>>

------------------------------------------------------------------------------
\* Every variable of these packages keeps its type.
AllTyped ==
  CASE package = "state" -> TypeOK
    [] package = "http" -> H!TypeOK
    [] package = "fetcher" -> Z!TypeOK
    [] package = "data" -> Z!CallsTypeOK
    [] package = "service-worker" -> S!TypeOK
    [] package = "auth-oauth" -> O!TypeOK
    [] package = "feature-flags" -> G!TypeOK
    [] package = "service-worker caches" -> C!TypeOK
    [] package = "functional auth" -> O!FunctionalTypeOK
    [] package = "i18n" -> G!LocaleTypeOK
    [] package = "router, one guard" -> N!TypeOK
    [] package = "router, two guards" -> V!TypeOK
    [] package = "outlet" -> T!TypeOK
    [] package = "components" -> L!TypeOK
    [] package = "zen-suspense" -> B!TypeOK
    [] package = "createSuspense" -> B!TrackTypeOK
    [] package = "form" -> F!TypeOK
    [] package = "wizard" -> F!WizardTypeOK
    [] package = "storage" -> K!TypeOK
    [] package = "store" -> W!TypeOK
    [] package = "stores" -> W!LifecycleTypeOK
    [] package = "ssr" -> P!TypeOK

\* What is said to come is coming.  A loading signal that is set belongs to a call that is
\* under way and will clear it: in http.resource after aborts and retries, in zen-fetch after
\* a 429 or a changed URL, in createMutation and createInfiniteQuery after resets and
\* overlapping calls; and the registry of pending requests names only attempts under way,
\* none of which follows one that was aborted.  Tokens that expire and flags that are polled are
\* fetched again, over failures and refreshes by hand: a timer is armed, or its request is
\* under way.  So it is with the flag of the functional sign-in.
PendingIsBacked ==
  /\ package = "http" => H!LoadingIsBacked /\ H!RegistryNamesRunning /\ H!NoAttemptAfterAbort
  /\ package = "fetcher" => Z!LoadingIsBacked
  /\ package = "data" => Z!CallsAreBacked
  /\ package = "auth-oauth" => O!RenewalIsComing
  /\ package = "feature-flags" => G!LoopIsAlive
  /\ package = "functional auth" => O!LoadingIsBacked

\* What is shown in the end is what there is: the answer to the newest URL, the first pages of
\* an infinite query in order, one sign-in, the newest override; user and tokens are of one
\* account, and a sign-out leaves nothing for the next visit; a page gets what the strategy of
\* its route prefers, from caches that survive an update of the worker; the page, its direction
\* and the stored choice follow the locale; and the route signal and the outlet show the page of
\* the location: no navigation, answer, traversal or view transition that came late is what remains.
ShownIsCurrent ==
  /\ package = "fetcher" => Z!SettledShowsUrl
  /\ package = "data" => Z!PagesInSequence
  /\ package = "auth-oauth" => O!SessionIsOne
  /\ package = "feature-flags" => G!NewestOverrideCounts
  /\ package = "functional auth" => O!OneAccount /\ O!SignedOutIsForgotten
  /\ package = "i18n" => G!PageFollowsLocale /\ G!ListIsComplete
  /\ package = "service-worker caches" => C!OfflineMeansNothing /\ C!NetworkComesFirst /\ C!UpdatesKeepCaches
  /\ package \in {"router, one guard", "router, two guards"} => N!SignalShowsLocation
  /\ package = "outlet" => T!MatchIsShown

\* What may count once is sent once: a queued mutation stays in IndexedDB until the server has
\* accepted it and goes out again only when the worker or IndexedDB failed in between, and
\* the state of a login is exchanged once though it may come back again.
SentOnce ==
  /\ package = "service-worker" => S!KeptUntilAccepted /\ S!AcceptedOnce
  /\ package = "auth-oauth" => O!StateIsSpentOnce

\* Fallback, content and onReady follow what a boundary waits for, through nesting, failures,
\* timeouts, delays and resets, and no element waits for a template that is not being fetched.
WaitingFollows ==
  /\ package = "zen-suspense" => B!TimeoutIsArmed /\ B!OuterWaitsForInner
  /\ package = "createSuspense" => B!IndicatorFollows /\ B!ReadyMeansSettled
  /\ package = "components" => L!LoadingIsBacked /\ L!OneFetchForAll

\* A form gives its handler what all rules accepted, and shows one verdict; a form of steps
\* shows the errors of its values, offers the next step accordingly and saves the last edit, and
\* a flag of it that is set belongs to a call that is under way and will clear it.
FormIsConsistent ==
  /\ package = "form" => F!HandlerGetsCheckedValues /\ F!ValidMeansAllValid
  /\ package = "wizard" => /\ F!WizardGetsCheckedValues /\ F!ErrorIsOfValue
                          /\ F!NextIsOffered /\ F!ChangesAreSaved /\ F!FlagsAreBacked

\* Who shares state sees the same: the tabs the records of one storage; what is read out of a
\* store tells of its changes, which the subscribers hear of and which the next store of that
\* name finds stored; and the requests of a server share nothing: a page is made of its own
\* request's registries and state, in a DOM nobody else uses.  Who waits for a page has a render
\* under way, and prerender ends with every page put down.
StateAgrees ==
  /\ package = "storage" => K!TabsAgree
  /\ package = "store" => W!ReadIsWatched
  /\ package = "stores" => W!StoredIsState /\ W!SubscribersHeard
  /\ package = "ssr" => /\ P!RequestsAreIsolated /\ P!DomsAreInOnePlace
                       /\ P!AnswersAreExpected /\ P!EveryPageIsPutDown

\* No navigation moves unless every guard there is has agreed to it.
GuardsAreAsked ==
  [][(package \in {"router, one guard", "router, two guards"} => N!AgreedMove)]_<<v1, v2, v3, v4, v5, v6, v7>>
=============================================================================
