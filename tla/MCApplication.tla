--------------------------- MODULE MCApplication ----------------------------
(***************************************************************************)
(* The packages an application builds its session, pages, forms, lists and *)
(* messages with, each by itself.  The session has its own names (EXTENDS);*)
(* they share no state, so one behaviour follows one of them (package) and *)
(* the states to explore are a sum, not a product: v1, v2, ... are the     *)
(* variables of that package, in the order its module declares them.  A    *)
(* module with two parts declares variables twice: a behaviour follows one *)
(* part, whose actions speak of no variable of the other.                  *)
(***************************************************************************)
EXTENDS AuthSession

VARIABLES
  package,   \* the one this behaviour follows
  v1, v2, v3, v4, v5, v6, v7, v8, v9, v10, v11, v12, v13

\* The variables that the package followed does not need.
Blank13 == v13 = "unused"
Blank12 == v12 = "unused" /\ Blank13
Blank11 == v11 = "unused" /\ Blank12
Blank10 == v10 = "unused" /\ Blank11
Blank9 == v9 = "unused" /\ Blank10
Blank8 == v8 = "unused" /\ Blank9
Blank7 == v7 = "unused" /\ Blank8
Blank6 == v6 = "unused" /\ Blank7
Blank5 == v5 = "unused" /\ Blank6
Blank4 == v4 = "unused" /\ Blank5
Blank3 == v3 = "unused" /\ Blank4
Blank2 == v2 = "unused" /\ Blank3
Blank1 == v1 = "unused" /\ Blank2
Rest13 == <<v13>>
Rest12 == <<v12, Rest13>>
Rest11 == <<v11, Rest12>>
Rest10 == <<v10, Rest11>>
Rest9 == <<v9, Rest10>>
Rest8 == <<v8, Rest9>>
Rest7 == <<v7, Rest8>>
Rest6 == <<v6, Rest7>>
Rest5 == <<v5, Rest6>>
Rest4 == <<v4, Rest5>>
Rest3 == <<v3, Rest4>>
Rest2 == <<v2, Rest3>>
Rest1 == <<v1, Rest2>>

Paths == {"a", "a#x", "b"}
PageOf == [p \in Paths |-> IF p = "b" THEN "b" ELSE "a"]

\* What an element may be bound to.
On(ev, mods, action) == [ev |-> ev, plain |-> FALSE, mods |-> mods, action |-> action]
Plain(action) == [ev |-> "click", plain |-> TRUE, mods |-> {}, action |-> action]
AttributeLists ==
  {<<On("click", {"capture", "stop"}, "save"), On("click", {"once", "debounce"}, "save")>>,
   <<On("click", {"throttle", "self"}, "save"), On("key", {"once"}, "save")>>,
   <<On("key", {}, "save"), Plain("save")>>, <<On("key", {}, "open"), Plain("save")>>}

\* The keys of the rows of a zen-for.
RowLists == {<<>>, <<1, 2>>, <<2, 3>>, <<2, 2>>, <<3>>}

\* The rows of a table.
Cells(id, a, b) == [id |-> id, a |-> a, b |-> b]
RowTables == {<<>>, <<Cells(1, 1, 2), Cells(2, 2, 0), Cells(3, 1, 0)>>}

\* Five toasts; four runs of transitions, callbacks three deep.
T == INSTANCE Presentation
  WITH MaxToasts <- 5, Ceilings <- {0, 1, 2}, MaxRuns <- 4, MaxDepth <- 3,
       visible <- v1, queued <- v2, timer <- v3, ceiling <- v4, made <- v5,
       runs <- v1, active <- v2, classes <- v3, callbacks <- v4, disposed <- v5, reentered <- v6

\* Two pages of rows, one of them when the filter is set.
R == INSTANCE CrudTable
  WITH Items <- {1, 2, 3}, Matching <- {1, 3}, PageSize <- 2, MaxAttempts <- 2, MaxCalls <- 3,
       server <- v1, rows <- v2, failing <- v3, calls <- v4, made <- v5, bulk <- v6, attempt <- v7,
       filter <- v8, descending <- v9, page <- v10, resetDue <- v11, disposed <- v12, failed <- v13

\* Keys that are indices as well, and items without a key.
K == INSTANCE ForList
  WITH Keys <- {0, 2}, MaxLength <- 3,
       keyed <- v1, list <- v2, version <- v3, rows <- v4, dom <- v5, broken <- v6, disposed <- v7

I == INSTANCE Conditions
  WITH MaxMounts <- 4, Branches <- {1, 2, 3}, MaxChanges <- 3,
       condition <- v1, animated <- v2, rerun <- v3, isMounted <- v4, inDom <- v5, leaving <- v6,
       childDisposes <- v7, alive <- v8, mounts <- v9, interrupted <- v10, failed <- v11,
       disposed <- v12,
       hasElse <- v1, conditions <- v2, bound <- v3, read <- v4, chainRerun <- v5, activeIndex <- v6,
       chainInDom <- v7, own <- v8, outer <- v9, attributed <- v10, threw <- v11, changes <- v12

\* An element in another, and two dispatches, one of which may come from within an action.
D == INSTANCE EventDelegation
  WITH Elements <- {1, 2}, Templates <- AttributeLists, Events <- {"click", "key"}, MaxEvents <- 2,
       MaxChanges <- 1, MaxWrappers <- 2, MaxDepth <- 2, MaxHandlers <- 2, MaxMiddlewares <- 2,
       MaxExecutions <- 2,
       attributes <- v1, bindingCache <- v2, wrappers <- v3, timed <- v4, stack <- v5, listening <- v6,
       events <- v7, changes <- v8,
       entry <- v1, handlers <- v2, cleared <- v3, middlewares <- v4, executions <- v5, unusable <- v6

\* A root with two directives, and a root beside another one.
A == INSTANCE CoreApp
  WITH Roots <- {"r"}, Elements <- 2, Plugins <- {"p"}, MaxWalks <- 2, MaxDepth <- 2,
       disposed <- v1, mountedRoots <- v2, walks <- v3, live <- v4, held <- v5, handles <- v6,
       installedPlugins <- v7, running <- v8, kept <- v9, stack <- v10, cut <- v11, late <- v12

P == INSTANCE CoreApp
  WITH Roots <- {"r", "s"}, Elements <- 1, Plugins <- {"p"}, MaxWalks <- 2, MaxDepth <- 2,
       disposed <- v1, mountedRoots <- v2, walks <- v3, live <- v4, held <- v5, handles <- v6,
       installedPlugins <- v7, running <- v8, kept <- v9, stack <- v10, cut <- v11, late <- v12

H == INSTANCE CoreDirectives
  WITH Lists <- RowLists, Values <- {1, 2}, MaxChanges <- 4,
       cond <- v1, list <- v2, queue <- v3, ifEffect <- v4, forEffect <- v5, shown <- v6, rows <- v7,
       doubled <- v8, changes <- v9,
       named <- v1, other <- v2, memoQueue <- v3, memoUnchanged <- v4, prevDeps <- v5, text <- v6,
       memoFirst <- v7, outran <- v8, memoChanges <- v9

\* Two roots; two retries, and processing that reports up to two errors.
Q == INSTANCE ZenRuntime
  WITH Roots <- {"r", "s"}, MaxStarts <- 4, MaxDepth <- 2, Attempts <- 2, Children <- 2, MaxMounts <- 5,
       MaxErrors <- 4,
       starts <- v1, teardown <- v2, disposes <- v3, delegations <- v4, bound <- v5, stack <- v6,
       cloak <- v7, reload <- v8, actions <- v9, thrown <- v10, cut <- v11,
       b <- v1, listening <- v2, mounts <- v3, fired <- v4, resets <- v5, errors <- v6

F == INSTANCE Controls
  WITH MaxRuns <- 4, MaxBindings <- 2, Values <- {1, 2}, MaxTyped <- 4, MaxNotices <- 3,
       control <- v1, runs <- v2, shown <- v3, resetTimer <- v4, loading <- v5, applied <- v6,
       binding <- v7, attached <- v8, crossed <- v9,
       signal <- v1, stored <- v2, pending <- v3, timer <- v4, notices <- v5, inputAttached <- v6,
       debounced <- v7, typed <- v8, written <- v9, inputCrossed <- v10

\* Rows in any order; rows that are alike, and columns that are empty.
Z == INSTANCE DataViews
  WITH Lists <- {<<>>, <<1, 2>>, <<2, 3, 1>>, <<2, 2, 3>>}, MaxChanges <- 4, Tables <- RowTables,
       Sizes <- {1, 2}, Multi <- TRUE, MaxCalls <- 3,
       view <- v1, state <- v2, changes <- v3, due <- v4, alive <- v5, disposed <- v6, children <- v7,
       bound <- v8,
       data <- v1, sortState <- v2, columnFilters <- v3, globalSearch <- v4, currentPage <- v5,
       pageSize <- v6, selectedRows <- v7, editingCell <- v8, saving <- v9, cached <- v10, fresh <- v11,
       calls <- v12, passed <- v13

\* Items that are smaller and larger than the viewport, that go, change and change places.
V == INSTANCE VirtualList
  WITH Orders <- {<<>>, <<1, 2, 3>>, <<3, 2>>}, Changing <- 2, Sizes <- {3}, Estimate <- 2,
       Viewport <- 2, Resizings <- {2, 3}, Overscan <- 0,
       RowLists <- {<<>>, <<1, 2>>, <<1, 2, 3, 4, 5>>, <<5, 4, 3, 2, 1>>},
       fixed <- v1, items <- v2, rerun <- v3, frame <- v4, viewport <- v5, scroll <- v6,
       measurements <- v7, offsets <- v8, totalSize <- v9, known <- v10, rendered <- v11,
       disposed <- v12,
       dynamic <- v1, listed <- v2, due <- v3, top <- v4, event <- v5, heights <- v6, window <- v7,
       rows <- v8, spacers <- v9, followed <- v10, gone <- v11

\* Every operator within every other.
E == INSTANCE Expressions
  WITH MaxGrowth <- 2,
       expr <- v1, growth <- v2

\* The calendar's years up to 1640, with eleven of its breaks.
J == INSTANCE JalaliCalendar
  WITH FirstYear <- -61, LastYear <- 1640,
       year <- v1

Start ==
  \/ package = "auth" /\ Init /\ Blank1
  \/ /\ Init /\ stored = Nothing
     /\ \/ package = "notifications" /\ T!Init /\ Blank6
        \/ package = "transition" /\ T!TransitionInit /\ Blank7
        \/ package = "crud" /\ R!Init
        \/ package = "zen-for" /\ K!Init /\ Blank8
        \/ package = "zen-if" /\ I!Init /\ Blank13
        \/ package = "zen-if with else" /\ I!ChainInit /\ Blank13
        \/ package = "events" /\ D!Init /\ Blank9
        \/ package = "actions" /\ D!ActionInit /\ Blank7
        \/ package = "createApp, one root" /\ A!Init /\ Blank13
        \/ package = "createApp, two roots" /\ P!Init /\ Blank13
        \/ package = "runtime-core zen-if" /\ H!Init /\ Blank10
        \/ package = "runtime-core zen-memo" /\ H!MemoInit /\ Blank10
        \/ package = "Zen.start" /\ Q!Init /\ Blank12
        \/ package = "buttons" /\ F!Init /\ Blank10
        \/ package = "zen-persist" /\ F!InputInit /\ Blank11
        \/ package = "zen-error-boundary" /\ Q!BoundaryInit /\ Blank7
        \/ package = "stateful" /\ Z!Init /\ Blank9
        \/ package = "data-table" /\ Z!TableInit
        \/ package = "virtual-list" /\ V!Init /\ Blank13
        \/ package = "zen-virtual" /\ V!RepeatInit /\ Blank12
        \/ package = "expressions" /\ E!Init /\ Blank3
        \/ package = "jalali" /\ J!Init /\ Blank2

Step ==
  /\ UNCHANGED package
  /\ \/ package = "auth" /\ Next /\ UNCHANGED Rest1
     \/ /\ UNCHANGED vars
        /\ \/ package = "notifications" /\ T!Next /\ UNCHANGED Rest6
           \/ package = "transition" /\ T!TransitionNext /\ UNCHANGED Rest7
           \/ package = "crud" /\ R!Next
           \/ package = "zen-for" /\ K!Next /\ UNCHANGED Rest8
           \/ package = "zen-if" /\ I!Next /\ UNCHANGED Rest13
           \/ package = "zen-if with else" /\ I!ChainNext /\ UNCHANGED Rest13
           \/ package = "events" /\ D!Next /\ UNCHANGED Rest9
           \/ package = "actions" /\ D!ActionNext /\ UNCHANGED Rest7
           \/ package = "createApp, one root" /\ A!Next /\ UNCHANGED Rest13
           \/ package = "createApp, two roots" /\ P!Next /\ UNCHANGED Rest13
           \/ package = "runtime-core zen-if" /\ H!Next /\ UNCHANGED Rest10
           \/ package = "runtime-core zen-memo" /\ H!MemoNext /\ UNCHANGED Rest10
           \/ package = "Zen.start" /\ Q!Next /\ UNCHANGED Rest12
           \/ package = "buttons" /\ F!Next /\ UNCHANGED Rest10
           \/ package = "zen-persist" /\ F!InputNext /\ UNCHANGED Rest11
           \/ package = "zen-error-boundary" /\ Q!BoundaryNext /\ UNCHANGED Rest7
           \/ package = "stateful" /\ Z!Next /\ UNCHANGED Rest9
           \/ package = "data-table" /\ Z!TableNext
           \/ package = "virtual-list" /\ V!Next /\ UNCHANGED Rest13
           \/ package = "zen-virtual" /\ V!RepeatNext /\ UNCHANGED Rest12
           \/ package = "expressions" /\ E!Next /\ UNCHANGED Rest3
           \/ package = "jalali" /\ J!Next /\ UNCHANGED Rest2

RunSpec == Start /\ [][Step]_<<package, vars, Rest1>>

------------------------------------------------------------------------------
\* Every variable of these packages keeps its type.
AllTyped ==
  CASE package = "auth" -> TypeOK
    [] package = "notifications" -> T!TypeOK
    [] package = "transition" -> T!TransitionTypeOK
    [] package = "crud" -> R!TypeOK
    [] package = "zen-for" -> K!TypeOK
    [] package = "zen-if" -> I!TypeOK
    [] package = "zen-if with else" -> I!ChainTypeOK
    [] package = "events" -> D!TypeOK
    [] package = "actions" -> D!ActionTypeOK
    [] package = "virtual-list" -> V!TypeOK
    [] package = "zen-virtual" -> V!RepeatTypeOK
    [] package = "createApp, one root" -> A!TypeOK
    [] package = "createApp, two roots" -> P!TypeOK
    [] package = "runtime-core zen-if" -> H!TypeOK
    [] package = "runtime-core zen-memo" -> H!MemoTypeOK
    [] package = "Zen.start" -> Q!TypeOK
    [] package = "buttons" -> F!TypeOK
    [] package = "zen-persist" -> F!InputTypeOK
    [] package = "zen-error-boundary" -> Q!BoundaryTypeOK
    [] package = "stateful" -> Z!TypeOK
    [] package = "data-table" -> Z!TableTypeOK
    [] OTHER -> TRUE

\* A list shows what there is.  A table that nobody is asking a server for shows the server's
\* rows, whatever deletes, lists and retries aborted each other, and each row on one page; the
\* elements of zen-for and of a resource's view are the items in order, over runs that threw, in
\* both runtimes; a virtual list has every item in view in its place, and zen-virtual's spacers stand for the
\* rest; a data table has its rows in
\* order, each on one page, and is on one it has; a text shows the value zen-memo names; an input
\* shows what is stored; and a session's view has the part for that session.
ListsAreSound ==
  /\ package = "crud" => R!SettledShowsServer /\ R!PagesShowRows
  /\ package = "zen-for" => K!ListIsShown /\ K!ElementsHaveRows
  /\ package = "virtual-list" => V!WindowShowsItems /\ V!MeasuredItemsAreCurrent
  /\ package = "zen-virtual" => V!RowsAndSpacersFit /\ V!ViewportIsFilled
  /\ package = "runtime-core zen-if" => H!BranchFollows /\ H!RowsFollow
  /\ package = "runtime-core zen-memo" => H!NamedIsShown
  /\ package = "zen-persist" => F!InputShowsStored
  /\ package = "stateful" => Z!ViewFollowsSignal /\ Z!NothingIsLeftBehind
  /\ package = "data-table" => Z!RowsAreSorted /\ Z!PageAndSelectionExist

\* Toasts, transitions and elements come to their end: each toast has the timer that will end
\* it and waits in its turn, an element is in one transition at a time, an element with a
\* condition is there, with its children's effects, as long as the condition says, and no timer
\* runs an action for listeners that are gone.  What an app or a start of the runtime has bound
\* or installed will be cleaned up with it, whatever is called while the page is being bound,
\* and the page is not left hidden.  Elements that run an action say so until it has ended, and
\* a boundary shows its fallback behind the last retry and is silent once it is cleaned up.
EndsAreTimed ==
  /\ package = "notifications" => T!TimersMatchVisible /\ T!QueueIsServed
  /\ package = "transition" => T!RunsWillEnd /\ T!OneRunAtATime
  /\ package = "zen-if" => I!ElementFollowsCondition /\ I!NothingRunsAfterDispose
  /\ package = "zen-if with else" => I!ChainShowsFirst /\ I!ChainEndsAtStop
  /\ package = "events" => D!TimersCanBeCancelled
  /\ package = "createApp, one root" => A!BoundIsOwned /\ A!PluginsRunOnce
  /\ package = "createApp, two roots" => P!BoundIsOwned /\ P!PluginsRunOnce
  /\ package = "Zen.start" => Q!RunningIsKnown /\ Q!PageIsVisible
  /\ package = "buttons" => F!ButtonsComeBack /\ F!OneRunAtATime /\ F!UpdatesFollowOutcomes
  /\ package = "zen-error-boundary" => Q!FallbackComesLast /\ Q!CleanupIsFinal

\* What is computed is what a plain definition gives: the tree of an expression and the signals
\* it reads, the dates of the Jalali calendar, the binding of an element looked up before.
ResultsAreRight ==
  /\ package = "expressions" => E!ReadsWhatIsWritten /\ E!ReadsAreExtracted /\ E!ReadsInOrder
  /\ package = "events" => D!CacheFollowsAttributes
  /\ package = "actions" => D!RunsOnceBehindItsChain /\ D!NewestHandlerCounts
  /\ package = "jalali" => J!DaysAreCounted /\ J!MonthsAreAdded
=============================================================================
