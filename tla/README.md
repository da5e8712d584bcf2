# Zenith: specifications, model checking and proofs

TLA+ modules for the Zenith framework (`src/packages/`): what is modelled, what
TLC checks on small instances, and what TLAPS proves for every instance.
`PROJECT.json` maps each definition to the lines it is translated from, and lists
the runs, the faulty variants that each property must detect, the disagreements
found, the hazards of the code and the theorems.

Run a check with `tlc -workers 2 -config X.cfg M`, a proof with `tlapm M.tla`.

## 1. Inventory

Zenith is a browser framework of about fifty packages. Everything runs on one
JavaScript thread: nothing is preempted, but user code (effect bodies, loaders,
callbacks, cleanups) runs *inside* the framework's functions and may call any of
them, and every `await` lets any other code run before it continues. Those two
are the sources of interleaving throughout; a service worker that the browser
stops, other tabs, and requests a server handles at once are three more.

### The core

| component | state | operations | hard behaviour |
|---|---|---|---|
| **scheduler** `scheduler.ts` | `queue` (Map of tasks with priority, sequence, age), `isFlushing`, `flushPromise`, after-flush callbacks, disposal callbacks, adapter | `scheduleEffect`, `nextTick`, `afterFlush`, `flushSync`, `setEffectDisposal`, `configureScheduler`, `clearSchedulerInternal`, `flushQueue` | the two flags decide who is woken; flushes nest through bodies, callbacks and resets; the runaway guard; ageing |
| **state: reactive core** `signal.ts computed.ts effect.ts context.ts root.ts` | values, subscribers, per-effect cleanup queues, owner tree, the global context (owner, active effect, cleanup registration) | `get`, `set`, `effect`, `computed`, `createRoot`, `untrack`, `onCleanup`, disposal of each | nested bodies share one global context; bodies that throw or dispose themselves; readers scheduled before the computed they read |
| **state: createAsync** `async.ts` | three signals, `runVersion`, `activeController`, `disposed` | `refresh`, `abort`, `dispose`, re-run by the effect | answers in any order; the user function calls back before it returns its promise |
| **cache** `cache.ts` | `entries`, `tagIndex`, `bytes`, `pending`, `bumps` | `get`, `set`, `getOrLoad`, `delete`, `invalidate*`, `revalidate`, `clear`, `sweep`, `dispose` | loads overtaken by changes; three views of the entries; exact ages |
| **resource** `resource.ts` | a signal (data, loading, error, staleness), `_dedupeCache`, controllers, `_optimisticSnapshots`, `_mutationQueue` | `list`, `create`/`update`/`delete`, their optimistic forms, `enqueueMutation`, `invalidate`, `setData`, `reset`, `dispose`, auto refresh | dedupe against cancellation; retries that outlive their controller; overlapping optimistic changes that fail in any order |

They interact as follows. `Signal.set` schedules its subscribers with the
scheduler; the scheduler runs them in `flushQueue`; running an effect reads
signals and so re-subscribes it; a computed is a signal written by an inner
effect, so it is refreshed through the same queue; `createAsync` runs its
request inside an effect and reports through signals; `Resource` and the views
over it report through one signal; `http`, `data`, `components`, `router` and
`resource` share the cache.

What makes each correct: *scheduler*: no lost wake-up, no lost effect, every
flush ends, every queued effect is served. *Reactive core*: an effect has read
the present value of what it is subscribed to or is scheduled; disposal is final;
the context never outlives its body. *createAsync*: only the newest request is
shown; no spinner for nothing. *Cache*: its views agree, bounds hold, one loader
per key, the last write wins. *Resource*: only promises in flight are joined, no
trace of a failed optimistic change, the queue goes on, an old answer does not
replace a newer one.

### Packages that ask a server or keep what was answered

| component | hard behaviour | correct when |
|---|---|---|
| **http** | retries with backoff, timeouts, interceptors, one registry of controllers by key | what is registered can be cancelled and nothing aborted is sent again |
| **data** (zen-fetch, mutations, infinite query) | answers out of order, 429 retries, overlapping pages | the settled state is that of the newest URL |
| **service-worker** | workers stopped at any point, IndexedDB errors, sync events, six caching strategies over an update | a mutation is kept until accepted and sent once; a page gets what its strategy prefers |
| **auth, auth-oauth** | overlapping refreshes and sign-ins, timers, other tabs, answers after logout | tokens and user are of one session, renewals go on, a sign-out is final |
| **storage, store, i18n, feature-flags** | several tabs, evictions, proxies around state, cleanups in any order | what is read is what there is, and its changes are told |
| **form** | debounced and crossing checks, steps, autosave | the handler gets only what the rules accepted |
| **ssr** | overlapping requests, timeouts, a pool of DOMs, workers | a page is made of its own request's state in a DOM of its own |

### Packages a page is made of

| component | hard behaviour | correct when |
|---|---|---|
| **router** | guards awaited without a navigation token, redirects, Back and Forward, loads of an outlet | every guard agreed, the page shown is that of the location |
| **suspense, notifications, transition, components** | timeouts, delays, nesting, pausing timers, callbacks that call back, shared loads | what waits is shown waiting and comes to an end |
| **runtime, runtime-core, error-boundary, stateful, data-table, virtual-list, crud** | the walk binds while user code runs; rows, branches and windows follow signals; roots start and stop beside others | the document shows the state and what was bound is cleaned up |
| **events, actions** | delegation in two phases, debounce, throttle, once; a middleware chain | each event runs what its element is bound to, once |
| **expressions, jalali** | precedence, short circuits, closures; calendar breaks | the result is that of a plain definition |

`PROJECT.json` `components` lists every part of the repository, those left out
with the reason, and `hazards` the places where these behaviours bite.

## 2. Plan

Done: all modules of section 3, in the order of the tables above; the theorems of
section 5. Left for later:

1. Proofs about the packages of `MCApplication`: toasts and transitions, lists, the roots,
   buttons and boundaries of the page. Each needs an invariant of a dozen conjuncts; with them
   its properties can be composed as those of `MCRequests` are.
2. `Reactive` and `Scheduler` in one state space, for one signal and one effect.
   Now `Reactive` stands on the queue contract that `Scheduler` establishes.
3. Refinements beside `LatestRequest`: `Navigation` and the fetch of `DataHelpers`
   are expected to violate it, as section 7 says.

## 3. Modules and code

Names follow the code: an action has the name of the function it models. An
action is what one call does up to the point where foreign code can run (a body,
a callback, an `await`); what happens after that point is another action with
that point as its guard. Each module's header says what it abstracts.

A module may have two parts, each with its own variables, `Init` and `Next`: the
second part's have a prefix (`ChainInit`, `ChainNext`). Two packages share a
module when their state does not meet but their constants and kind do.

**`Scheduler`.** `queue` is the Map of `queueMap`; the sort of `flushQueue` is the
order of `eff` (effective priority) then `seq`. A call of `flushQueue` on the
JavaScript stack is a frame `frames[d]`, whose `pc` is the place in the function:
`loop` (the while test), `round` (iterating the sorted tasks), `body` (inside an
effect), `callbacks`/`callback` (the finally block). User actions are enabled when
the top of the stack is foreign code or the stack is empty, so a body or callback
may call `flushSync` or `clearSchedulerInternal`, as in the code. Errors thrown
by effects are caught by the code and are the return of the body. Time is a tick
that ages every task.

**`Reactive`.** `subs` and `cleanups` are `_subscribers` and `cleanupQueue`; `context`
holds the globals of `context.ts` (owner, active effect, registration); `stack`
holds the bodies that are running, with what their finally block restores. A
body makes any calls in any order and returns or throws. `seen` is a history
variable: what each tracked read of an effect returned. `Computed.get`
initialises lazily, as `computed.ts` does, and creates the inner effect under the
inner owner. `Untracking` says whether bodies call `untrack`.

**`AsyncSignal`, `LatestRequest`.** `execute` up to the call of the user function
pushes a running request; `fnReturns`/`fnThrows` end its synchronous part;
`Resolve`/`Reject`/`RejectAborted` are the three ends of the awaited promise.
Requests are numbered by `runVersion`, and a result is the number of its request.
The refinement maps `last` to `runVersion` and `current` to it while its outcome can
still be shown.

**`Cache`.** Entries, order, tag index, byte count and generation counters are one
record, so that each helper of the code (`drop`, `trim`, `store`, `bump`) is an
operator on it and an operation is their composition. `pending` and `loads` are
the promises on their way; a load that `clear` dropped from `pending` is `forgotten`
and may still settle.

**`Resource`.** A call is numbered; its record says who waits for it, which
controllers its fetch listens to, and how far it is. The chain
`_request` → `_executeWithRetry` → its caller is cut at its awaits:
`request`, then `Answer`/`Fail`/`AbortError`/`Retry`, then `Deliver`, then what the
waiting caller does (`Rollback`, `Finalize`, `QueueStep`, `JoinedReturns`). The
server is external.

**`HttpRequests`.** `phase[r]` is where a request is: its interceptors run, its attempt
is on the network, it waits to retry. The controller `<<r, n>>` is that of attempt
`n`; the retry is the call of `request()` from its own catch block, so it takes the
former controller's signal for its caller's. `pending` is the registry
`pendingRequests`, `res` the signals of `http.resource`.

**`SyncQueue`.** `stored` is the object store, `client` what the page does with a
mutation, `sync` the sync event under way with the records it read (`left`),
`retryCount` the copies in memory. The worker may be stopped and IndexedDB may fail
between any two steps. `accepted` and `cutOff` are histories.

**`CacheStrategies`.** One action per await of a fetch handler; `install`,
`activate` and the worker's end are actions beside them.

**`AuthSession`.** The class `Auth` in one tab. `calls` are its requests on their way;
one that `logout`, `dispose` or another tab overtook is marked, since its answer still
writes. A token is named by the request that brought it; `Undefined` is what `_doRefresh`
takes from an answer without one, and `SessionIsWhole` names it as its exception, since the
session is then shown as signed in (section 7). `secureLogout` clears at once (beacon) or
when its own fetch ends (`SecureLogoutAsks`, `SecureLogoutEnds`).

**`AuthClients`.** First `createOAuthClient`: `login` is what was done with each state,
`calls` the requests of the token endpoint, which end in two steps because the ID
token is verified between them (`phase = "verified"`). The scope holds `openid`, the
default (client.ts:78), so that each exchange brings an ID token. Second
(`Functional...`) `initAuth`, `login`, `register`, `refresh` and `logout` of the functional
interface, with what is stored for the next visit.

**`StorageSync`.** `records` is localStorage, `signal` the signals of each tab, `inbox`
the storage events it has not heard of.

**`Store`.** First the proxies of the state: references are raw objects with the
proxies around them. Second (`Lifecycle...`) the stores of one name with subscribers,
`before`/`after` callbacks and persistence.

**`Forms`.** First `FormStore`: rules at once, rules after a debounce under one generation,
`submit`. Second (`Wizard...`) the form of steps with its autosave.

**`Settings`.** First `createFlags`: polling, refreshes by hand, overrides with cleanups.
Second (`Locale...`) `createI18n`: `setLocale` over loads, the document and the storage.

**`DataHelpers`.** First zen-fetch. Second (`Calls...`) `createMutation` and
`createInfiniteQuery`.

**`ServerRender`.** `work[r]` is the render of a request, cut where it awaits; `stack` the
contexts used where there is no AsyncLocalStorage, `pool` and `doms` the DOMs.

**`Navigation`, `Outlet`.** `entries` and `at` are the browser's history; a navigation that
awaits a guard is a member of `waiting` and goes on with what it read before. The outlet
numbers its loads (`loadId`), as `processRouter` does.

**`Suspense`.** The context is a record with operators for its functions; two
specifications use it, nested `zen-suspense` and `createSuspense` (`Track...`).

**`Presentation`.** First toasts: `visible`, `queued`, a timer each. Second
(`Transition...`) the controller of transitions, whose callbacks call it back.

**`ComponentLoader`, `CrudTable`.** Elements that share a fetch; the actions of crud over
one `Resource`, of which only the request that is not aborted matters.

**`ForList`, `Conditions`, `Controls`, `DataViews`, `VirtualList`, `ZenRuntime`.** Directives
and elements of the runtime; a run of an effect is one action, since it is
synchronous, and ends in the middle where a binding may throw. Second parts:
`Chain...` (zen-else), `Input...` (zen-persist), `Table...` (data-table), `Repeat...`
(zen-virtual), `Boundary...` (zen-error-boundary).

**`EventDelegation`, `CoreApp`, `CoreDirectives`.** What calls back while it is called:
`stack` holds the calls that have not returned. Second parts: `Action...`
(ActionRegistry), `Memo...` (zen-memo).

**`Expressions`, `JalaliCalendar`.** Pure code as recursive operators, compared with a
plain definition over all trees up to a depth and over a range of years.

`MCReactive` and `MCCache` define the constants of their runs that a .cfg cannot (a
function, the option records, the symmetries of keys and of effects).

**`MCRequests`, `MCApplication`.** Many small instances in one run. `package` says which
one a behaviour follows, the variables `v1`, `v2`, ... are those of the instance, and
what it does not need stays "unused": the states are the *sum* of the instances'
states. A property is a conjunction over the packages. `MCRequests` extends
`AsyncSignal` and `MCApplication` extends `AuthSession`, whose own properties they
check as well. `MCRequests` has the packages that ask, wait or share state; its
CONSTANTS are theirs, with values in `MCRequests.cfg` and what the proofs need of them in
`RequestsAssumption`, and a name that two modules share stands for one `v`, so that
section 5 can compose the proofs.
In `MCApplication` the constants are given in the instances.

## 4. Runs

| run | instance | shows |
|---|---|---|
| `scheduler_adapter` | 2 effects, 2 priorities, adapter on and off, ageing | no lost wake-up (`FlushIsComing`), disposal known, priority only improves |
| `scheduler_nested` | 2 effects, 1 callback, flushes 2 deep, `FairSpec` | lock and promise flag are backed; what is dropped silently; every flush ends, every queued effect is served |
| `reactive_effects` | 1 signal, 2 symmetric effects, 1 root, 1 `onCleanup` function, 3 bodies deep | no lost update, every subscription has its cleanup, disposal complete, with the `onCleanup` functions of what it takes and no others |
| `reactive_computed` | 1 signal, 1 computed, 1 effect, untrack, cleanups | computed and readers catch up, context is clean |
| `cache` | 2 keys, room for 1, 2 loads, 4 clock values, symmetric keys | views agree, bounds, single flight, late commits void |
| `resource` | 2 calls, 1 retry, all mutations | dedupe, spinner, ghost patches, queue, overtaking |
| `requests` | 22 instances of packages that ask a server, wait for others or share state | createAsync and its refinement of `LatestRequest`; what is pending comes, what is shown is current, what counts once is sent once, guards are asked, boundaries wait for what there is, forms hand on what was checked, tabs, stores and renders agree on what they share |
| `application` | 23 instances of packages that a page is made of | sessions, lists, endings, results of pure code |

Four runs end in a violation. Each states what a document or comment says and the
code does not do; the entries under `findings` quote both.

| run | statement refuted | what happens |
|---|---|---|
| `reactive_nested` | `BodyIsTracked` | after an inner effect is created, the outer body is no longer tracked |
| `bulk_delete` | `BulkDeletesAll` | a bulk delete aborts its own requests |
| `sync_cycles` | `DroppedAfterMaxCycles` | a mutation that failed in three cycles is not dropped |
| `outlet_not_found` | `NewestRouteIsShown` | the page of an older route replaces the 404 page of a newer one |

Where the code keeps less than its comments say, the properties of the passing runs
state what it *does* keep: `SilentDropOnlyAfterCallbacks`, `LateCommitIsVoid`,
`OnlyRetriesOvertake`; `mixed`, `crossed`, `overtaken` and the like are histories of the
event after which a promise is not kept, named where they are set.

### Bounds, and why they are enough

Every bound is a CONSTANT named in a guard. *Scheduler*: two effects give every
order, merge and replacement; a flush nested in a flush is the deepest case whose
outcome differs; one microtask, since a second is created only after the flag that
guards it was released, and the bound 1 makes a second wait rather than vanish.
*Reactive*: an effect, another that it may own, dispose or notify, and a stack of
three bodies, so that a body runs inside a flush inside a body; one `onCleanup` function,
registered by any owner and left unregistered by the others. The effects differ in nothing
but their name, and only safety is checked with them, so exchanging them is a symmetry. *AsyncSignal*: the
newest request, one it replaced, one started by the user function. *Cache*: an eviction
needs two keys and room for one; a late commit needs two loads of one key; four clock
values reach fresh, stale and expired. *Resource*: two calls overlap in every pair of
kinds, one retry each; three would add a rollback over two others and take more than
five minutes. *The groups*: two operations that overlap and, where one may
outlast both, a third; one retry where retries differ only in number; one nesting
where a call is called back.

`CHECK_DEADLOCK FALSE` everywhere: each system may stop, when the bounds are used
up or nothing more is asked of it.

### Fairness

Only `scheduler_nested` needs it. Weak fairness of the promise job, of each step of
`flushQueue` and of the adapter's call: the event loop runs queued jobs, a
synchronous function runs on, and an adapter is required to call what it is handed.
Strong fairness, for each depth of the stack, of the return of user code: a body
makes finitely many calls; its return is disabled while a flush nested in it runs
and so is not continuously enabled. Nothing forces a user to call anything. What
other packages promise to happen in the end is stated as a safety property instead:
whoever waits is always waited for by a timer, a request or a job
(`LoadingIsBacked`, `RenewalIsComing`, `QueueIsServed` and so on).

## 5. Proofs

60 theorems in eight modules, for every value of the constants that satisfies the
modules' assumptions, the bounds included. `PROJECT.json` lists them with the
property each states.

**`SchedulerProofs`** (`SchedulerAssumption`). `TypeCorrect`: each step keeps every
variable's type, the frames of the stack included. `NoLostWakeUp` and `FlagsAreBacked`:
`LockIsHeldByAFlush`, `PromiseIsBacked` and `FlushIsComing` are inductive together with the
types, and only together: a flag may be left set only while a flush is in its
loop, that flush being the one that will clear it, and a queued effect counts on
the flag's owner to wake it. The case that needs care is a nested flush or a reset
that releases the lock of a flush still iterating; `EnterFlushLoops`, `TopLoops` and
`TopKept` say what a step at the top of the stack does to the existence of a looping
frame. `DisposalIsKnown` is inductive with the types. `PriorityOnlyImproves` compares tasks:
a merge takes the smaller priority, only time and ageing change the rest, and the
effective priority is monotone in both. `DropsAreAccountedFor` needs `StackShape`: below the
top each flush waits for an effect or a callback, and one that has run no callback and
was not cut short finds the queue empty when it clears it.

**`ReactiveProofs`** (`ReactiveAssumption`). `TypeCorrect` first. *Freshness*: `CatchUp`, the
conjunction of `NoStaleSubscriber` and the same for computeds, is inductive with the
types; "scheduled" includes the rounds of flushes on the stack, so that a step that
moves an effect from the queue to a round, or starts it, keeps the invariant
(`NoUpdateIsLost`, `AllCatchUp`). *Context*: `ContextIsClean` needs that what the finally block
of an `untrack` will restore is a body below it (`UntracksBacked`). *Subscriptions*: with
`~Untracking` there is no untrack frame, the active effect is the one that registers
cleanups, and a computed reads only its source; then every subscription has its cleanup
(`SubscriptionsEnd`). The hypothesis is needed: a computed first read inside an untrack
leaves what follows without a cleanup, see section 7. *Disposal*: `TreeInv` says that
disposed owners were born and have no parent, that an owner with a parent is born and
alive, and that a body in its first run was created. With `SubscriptionsEnd` it gives
`DisposalIsComplete`, an action property: whatever is disposed takes everything below
it, no subscription of it is left, its cleanups and no others run, and it stays disposed.

**`AsyncProofs`** (`AsyncAssumption`). `IInv` strengthens the properties with: what is on
the stack is running, once; versions are used in order; the controller is that of the
newest request, and is gone exactly when that request was aborted (the fact that makes
the `aborted` test of the code equal to "nobody replaced me"); before `createAsync`
returned only the first request exists; what is shown has settled. From it
`SpinnerIsBacked`, `OthersWereAborted`, `AnswersAreFresh`, and `ImplementsLatestRequest`: the
initial states map to initial states, and each action to `Begin`, `Succeed`, `Fail`,
`Cancel`, `Forget`, `Close` or a stutter. `ShownFollowsDependency` adds that the newest request
has read the present dependency while the effect is subscribed and not queued.

*The composition* (`RequestsAssumption`, in the second part of `AsyncProofs`): the run `requests`
follows one package of `MCRequests`, and seven of its properties are theorems of its
specification `RunSpec`: `PendingAlwaysBacked`, `ShownAlwaysCurrent`, `SentOnlyOnce`,
`WaitingAlwaysFollows`, `FormsStayConsistent`, `StateAlwaysAgrees`, `GuardsAlwaysAsked`.
`RequestProofs` and `SharedProofs` come in by INSTANCE with the variables `v1`, `v2`,
... (twice for `Navigation`, whose second instance has the constants of the chain). For
each package a lemma `...Runs` says that a behaviour of `RunSpec` that follows it is one
of its own specification, from `Start` and from `PackageSteps`: a step of `RunSpec`
stays with its package and is a step or a stutter of it, since the variables it does not
need stay as they are; and a lemma `...Keeps` says that it then has the properties
proved of that specification. The assumption asks that "none" is no number, state,
account or handler, that counts are numbers, that there are two sync cycles or more, and
that versions, locales and siblings are what the modules take them for.

**`CacheProofs`.** `LoadInv`: the slot a caller waits for and the loads know of each other,
and an unforgotten load on its way is the pending one of its key (`OneLoadPerKey`).
`CommitInv`: `TableOK`, the tag index holds exactly the entries with the tag, and `VoidInv`, the
counter of a key went up whenever it was changed during a load that is alone. Each
operation on the table is a composition of helpers that all "grow" it: they keep
`TableOK` and lower no counter. `clear` is the exception, and the reason for "alone"
(`LateLoadsDoNotCommit`). `BookInv`: the order holds each cached key once and no other, the
byte count is the sum of the sizes, and the table is no larger than `MaxSize`
(`BooksBalance`, the run's `Bookkeeping`). The sum is a recursive function on sets of keys;
that removing or adding a key changes it by that key's size, in whatever order it is taken,
is induction over data, done here with a least counterexample: a set of numbers that has no
least element is empty (`WellFoundedInduction`), and the lemma says of a set of numbers what an
induction would say of a predicate. Sums and rooms below are treated in the same way.

**`ResourceProofs`** (`ResourceAssumption`). One inductive invariant for all state
properties. `CallsAreCoherent`: only a joined call waits for another, and a waiting call
has no result. `DedupeIsOwn`: the stored promise is for the key it is stored under, so
that taking it out when it settles takes out no other. `PatchesAreOld`: a snapshot holds
only changes of calls before its own; hence the rollback of a call restores data
without its change, and without those of all newer calls whose snapshots it clears.
`RolledBackIsGone`: a call that lost its snapshot to an older rollback has already left no
trace, which is why its own rollback may do nothing. `OneAtATime` names the running
mutation of the queue instead of counting. `OnlyRetriesMayOvertake` needs the order of
answers: a first attempt that a controller can still stop is fetching only if it is the
last call (`OnlyLastFetchesFirst`); data and snapshots are from delivered calls only
(`DataIsDelivered`); one good answer at a time is on its way (`GoodIsAlone`), and while it
belongs to such a first attempt nothing shown or kept is newer (`GoodIsNewest`). `FromStep`
lists where a step can take its data from.

**`AuthProofs`.** `SessionIsSound`, with the undefined token of a refresh answered without
one as its stated exception, from `IdsAreOwn` (two requests never share a number),
`UsersHaveTokens` (a request for the user that nothing overtook finds a token) and
`RefreshIsOwn` (the refresh the class waits for is the one under way).

**`RequestProofs`.** *http* (no assumption): `AbortedBefore`, while the interceptors of an
attempt run only attempts before it can be aborted, with `HttpTypes` makes
`RegistryNamesRunning`, `NoAttemptAfterAbort` and `LoadingIsBacked` inductive. *Background sync*
(`SyncConstants`: mutations are numbers, at least two cycles, since with one the code
does drop): stored records and those being sent are of queued mutations
(`QueuedOnly`), the copies in memory count 0 failures as what is stored does
(`CountsAreStored`, the reason why nothing is ever dropped), a record is removed after it
was accepted, and what was accepted is being removed or will not be found again
(`SpentOnce`). That the next record exists uses the well-foundedness of `<`.
*Loader*: fetches have numbers of their own and no element waits for two (`FetchesAreApart`),
whoever is to join finds the fetch (`InflightIsThere`), and until the caches are cleared
nobody fetches what is there (`FetchedIsMissing`). *Router*: a navigation has asked the
guards in their order up to the one it waits for (`AskedInOrder`), and the last page that is
set, or that view transitions under way will set, is that of the location (`LastIsHere`).
Removing a guard moves the others; `SameRemoval`: taking out either of two elements comes to the same
only if they are equal. *Fetch* (zen-fetch): the fetch that counts is for the URL that was
evaluated (`FetchIsOfUrl`), and until it ends nothing is settled (`FetchedIsShown`). *Outlet*: the
same of loads, and "loading" waits for one in the foreground (`LoadIsOfPath`).
*Chosen* (`FlagsConstants`: "no override" is not a number; `LocaleConstants`: bundled and default
locales are locales, "none" is not one): overrides in force form a chain, each having found the
newest of those before it, as long as cleanups come in the opposite order; the loop of
refreshes is one timer or one refresh it started. *Strategy* (`VersionConstants`: versions count
from 1): who asks asks for the active version; a page that may be given what the cache had
finds it there, since only `activate` removes caches and spares the active version's;
what `activate` will not judge is of the active version or of the one that waits.
*Fallback* (`SuspenseConstants`: the inner boundary is none of the outer one's own
children; `SignalConstants`: the two options are set or not): the inner boundary is told
to the outer one from the moment it waits until it has settled, was cleaned up or the
outer one was reset (`NestInv`); the promises of the present generation of
`createSuspense` are those its context waits for (`TrackedAreWaitedFor`), and an idle phase shows nothing (`PhaseTypes`). *Calls* (`PageConstants`: "no next page" is not a
number): without overlap one query at a time is under way, which asks for the page
behind the last. *Form* (`FormConstants`: the initial value is a value, checks are counted;
`WizardConstants`: the good value is not the bad one, steps begin at 1): a check of the whole
form that began after the last edit has judged the values there are (`ChecksAreOfForm`), a
validation of the wizard refuses what is refused now but for the fields edited since it began
(`RunsAreOfValues`), and a timer that holds former values is one that an effect will set anew
(`FormerIsSeen`).

**`SharedProofs`.** What several share. *OAuth* and *functional sign-in* (`ClientConstants`:
the values that mean "none" are no states or accounts): exchanged states come from logins that
returned and are not pending (`StatesInv`); one exchange at a time is verified, showing its own
user unless it was overtaken (`VerifiedShows`); a refresh that nothing overtook began with the
tokens there are (`RefreshesAreCurrent`); `NothingMixed`, the user is that of the tokens, before
`initAuth` there are both or none, and a call that goes on from the tokens and is not late is of
those there are.
*Storage* (`StorageConstants`: values and the capacity are numbers, "none" is not a value):
`TabsAgree` is inductive with the types. Records have one entry per key (`Sound`); what a tab
shows for a key is what is found there, unless an event for the key waits in its inbox or the
code has told it nothing (`Shown`). Every write is a removal followed by an append, and evicting
until there is room a sequence of removals; `Room` is a sum over the records (`TabsStayInStep`).
*Stores of one name* (`LifecycleConstants`: the subscribers of the application are not the
store's own): only the store in the registry is not disposed and persist comes first among its
subscribers, once (`PersistComesFirst`); so long as persist waits to be told it is next and nobody
runs (`PersistIsNext`), which is why what is stored is the state whenever application code can look
(`StoredAndHeard`). *State of a store* (`StateConstants`: two objects and one visiting set at
least): a reference that announces nothing is of an object that was put in twice
(`BareOnesAreTwice`), for all that can be written, kept, copied, deleted, patched and reset; the
chain of wrappings is a recursive function (`ReadsAreWatched`).
*Server* (`RenderConstants`: requests are finitely many positive numbers, of which some are
streams; there is a worker): the contexts on the stack are those of the renders under way, the
newest on top, so that who reads the stores of another reads those of one that began later
(`Contexts`); every DOM is with one render, once in the pool, or closed (`DomsAccounted`), which
give `RendersAreApart`; who waits has a render that has not settled (`AnswersComing`), and between
two pages a worker has none, each page asked for being with one worker, written or failed
(`PagesAccounted`), which give `AnswersComeOnce`.

What is only model-checked, and why:

- `FlushTerminates`, `QueuedIsServed`: liveness under fairness and ENABLED are out of the
  prover's reach.
- `ListsAreSound` and `EndsAreTimed` are conjunctions over the packages that `application`
  follows, none of which has a theorem yet but the session.
- `AllTyped`: the packages' types are in their inductive invariants, in a stronger or weaker form.
- The toasts of `Presentation` and the orders of `CrudTable` filter and sort sequences:
  what `SelectSeq` and `SetToSortSeq` return is induction over data.
- `ResultsAreRight`: `Expressions` and `JalaliCalendar` are recursive.

## 6. Not modelled

*Packages*: permission (one sequential check), the parts of devtools, errors, logger,
schema, security, compiler, cli, editor tools, icons, theme and charts that are pure
functions, formatting or I/O. `PROJECT.json` has a reason for each.

*Scheduler*: error texts, the development reports. *Reactive*: `Computed.dispose`,
the owner option of user effects, the removal function of `onCleanup`, error
handlers, SSR's context provider, the runaway guard (it belongs to `Scheduler`).
*createAsync*: `onError`. *Cache*: statistics, `onEvict`, loaders that call the cache
before they return, the registry. *Resource*: `read(id)`, calls on a disposed
resource, rollback functions of queued mutations that throw, DOM callbacks.
*http*: realtime connections, other URLs than one per request. *CacheStrategies*: requests that
are not GET, other URLs, route matching. *AuthClients*: tokens without expiry or refresh
token in the functional part, its error signal, roles and route guards. *Store*: arrays,
raw references, actions and their listeners, migrations. *Forms*: field arrays, dirty
and touched, in the wizard also completed steps. *Settings*: translation, formats, plurals,
detection, regional locales. *ServerRender*: head, state and route in the page,
hydration, the template cache, sitemap. *Conditions*: zen-if over zen-for. *VirtualList*:
`renderItem` that throws, duplicate keys, horizontal lists; zen-virtual in tables.
*EventDelegation*: keys, custom modifiers, events that do not bubble, elements that are
removed; the metadata of actions. *CoreApp*: provide and inject, hydrate, focus helpers,
cleanups that call back. *CoreDirectives*: else branches, bindings of removed rows.
*ZenRuntime*: component, router and resource registries, options; nested error
boundaries. *Controls*: keyboard and labels; for zen-persist expiry, drivers, failing writes.
*DataViews*: texts, other filter operators, hidden columns, export, the virtual window.
*Expressions*: the lexer, numbers, the depth limit, `?.`, arithmetic, the validator.
*JalaliCalendar*: time zones, formatting, range errors.

## 7. Disagreements noticed while reading, without a run

- *Scheduler*: an effect scheduled by an after-flush callback is cleared unrun
  (scheduler.ts:336-359). A `nextTick` function runs in the order of the priorities of
  one round, not after all pending effects (scheduler.ts:380; docs/api/scheduler.md:146-147).
  The package's README gives `MAX_FLUSH_ITERATIONS` as 1000, the code 100.
- *Reactive*: a computed read right after `set` has the old value (computed.ts:72;
  docs/api/state.md:192-193). After an inner disposal a root no longer owns what is
  created (effect.ts:321; docs/api/state.md:268). An effect disposed while it runs can
  subscribe again (signal.ts:70 against 72-74). `untrack` restores `active` but not the
  registration, and so does the first read of a computed inside it (signal.ts:251-257):
  what the body reads afterwards is subscribed without a cleanup. A function returned by
  an effect body is ignored (docs/api/state.md:146). The comment effect.ts:248-253 says that
  after an error in a body the `onCleanup` functions are run; they are registered with the
  owner (context.ts:171-184) and run at its disposal only, while the queue drained there
  (effect.ts:254) holds the subscriptions: `DisposalIsFinal` says what the code does.
- *createAsync*: an AbortError of the user's own leaves `loading` set for good; a
  synchronous throw after `abort` still writes `error`; with `immediate: false`
  dependencies are never tracked before the first `refresh`, nor by it.
- *Cache*: `clear` resets a counter that a load of the same key still uses, so a load from
  before `clear` can commit after it (cache.ts:14-16, 270). Tag invalidation does not void a
  first load that will carry the tag; a synchronous loader leaves its counter behind;
  `revalidate` does not trim (371); `getOrLoad` after `delete` joins the load from before.
- *Resource*: a second identical call aborts the request it joins (resource.ts:685 against
  690-691). "Only the latest response wins" (680-684) does not hold for a request that
  waited for its retry, nor across `reset`. A rollback restores all its snapshot held and
  so removes newer changes (163-165, 606-611). After `dispose` an aborted optimistic call
  rolls old data back (379). The body of a mutation's answer replaces the list (731). A
  rollback function that throws twice leaves `_processing` set (657).
- *http*: a retry loses the caller's abort listener; `cancelRequest` wants the key
  "GET:url" and its documentation the URL. *data*: overlapping calls of an infinite query
  load a page twice; an old answer of zen-fetch overwrites the state of a malformed URL.
- *service-worker*: a request's body is consumed before it is cloned for the queue; the sync
  event is not registered again while mutations remain; a 4xx is sent again for ever;
  strategies put answers out of order into the cache; `activate` deletes the caches of other
  applications of the origin.
- *auth*: an answer of `_doRefresh` is not checked for a token (auth.ts:662-679), as those of
  `login` (302) and `verifyMfa` (1037) are: without one `isAuthenticated` is true, the token
  is undefined, and "undefined" is stored; `secureLogout` leaves stored tokens; an answer of `fetchUser` after `logout` sets
  `isAuthenticated` without a token; the finally block of an abandoned refresh clears a newer
  promise. Functional interface: automatic refresh happens once; a login that is not to be
  remembered leaves the former user's tokens stored; a failed refresh by hand clears the
  signals only. *auth-oauth*: overlapping refreshes; answers after `logout` restore tokens;
  renewal timers outlive `logout`.
- *storage*: an old removal event resets a newer value; refused writes leave signal and
  record different. *store*: an object put into the state a second time comes back
  unproxied (store.ts:311); disposing an old store deletes the registry entry of a newer one;
  an `after` callback that throws makes `onError` run too (668-672). *i18n*: loads of
  `setLocale` are applied in any order, also after `dispose`; `setLocale(current)` does not
  stop a load. *feature-flags*: overrides cleaned out of order restore old values; `dispose`
  during a timed refresh arms the loop again.
- *form*: answers after `reset` are applied; `submit` hands on values edited during the checks;
  a validator that throws leaves `validating` set; the wizard's `next` goes on from the step it
  was called in; what autosave had pending is lost at `dispose`.
- *ssr*: a render that timed out goes on and its DOM is never returned; without
  AsyncLocalStorage a request that awaited renders with the registries of a later one
  (dom-context.ts:17-19); the head is shared by concurrent requests; `prerender` with
  `failOnError` lets other workers go on before it throws.
- *router*: a guard that answers undefined does not block; removing a guard during a chain
  skips the next; after the cleanup an aborted load writes an error into the outlet.
- *notifications*: a ceiling given for one call lets later toasts overtake. *transition*: a
  call from `onBefore` leaves two runs. *components*: removing the first caller's element
  aborts everybody's load and caches the failure; a component in the slot of the same
  component is reported as circular. *crud*: `totalPages` ignores filters; the retry of a list
  aborts a user's delete; a rollback brings back rows deleted meanwhile.
- *runtime*: a zen-if interrupted while leaving doubles its children's effects (comment
  if.ts:20-23); a binding that throws while a zen-if mounts (if.ts:190-191) leaves it mounted
  and its effect out of the graph, and in an if-chain (walker.ts:447-449) what was bound
  before the error is ended by nobody; a zen-for row that threw leaks its effects; in an if-chain that starts false the
  else branch is bound twice, and a third branch is bound though not shown (comment
  walker.ts:381); after a processing that threw, the cloak style stays; a root stopped while it
  is processed loses its disposes; zen-virtual on a `<tr>` shows no row
  (virtual-repeat.ts:198-226). *runtime-core*: effects of removed rows live until the root
  unmounts; a binding that throws takes the zen-for around it out of the graph for good.
- *stateful*: the reset timer of one run sets "idle" while the next runs (stateful-button.ts:175-196);
  loading and error elements of zen-resource-view are never taken out (comment
  resource-view.ts:190-193). *data-table*: computeds are old until the flush, so `goToPage` and
  `selectAll` use former rows; `saveEditing` closes the cell edited meanwhile. *error-boundary*:
  nested boundaries all react to one error; recovery after cleanup mounts what nobody ends.
- *events, actions*: throttle's trailing call has the *first* suppressed event (comment
  timing-modifiers.ts:89); delegated events bypass the middleware; `.once` removes the first
  attribute of that event whatever its phase; an action unregistered during its chain runs.
- *expressions*: `(x, y) => e` is rejected (comment parser.ts:500; 507-517); the object of a
  method call is evaluated twice (evaluator.ts:174), so a chain of n methods 2^n times;
  `extractDependencies` skips `??`, arrays and arrow functions, and keeps one member of a path
  (comment extractor.ts:143-146; 72-85).
- *devtools-core*: a replay with redaction writes the redacted values into the signals.
