----------------------------- MODULE Navigation -----------------------------
(***************************************************************************)
(* navigate(), its guards and the popstate listener of packages/router:    *)
(* the history of the browser, the route signal that is to show where it   *)
(* is, and navigations that wait for a guard while others come and go.     *)
(* The signal holds the page of a path, without query and anchor.          *)
(***************************************************************************)
EXTENDS Integers, Sequences, SequencesExt

CONSTANTS
  Paths, PageOf, \* paths as navigate takes them, and the page of each
  Guards,        \* guards that may be registered with beforeEach
  MaxHistory,    \* bound: entries of the history
  MaxWaiting,    \* bound: navigations waiting for a guard at once
  MaxCommits     \* bound: view transitions that are to begin

VARIABLES
  guards,    \* _guards
  entries,   \* the history of the browser
  at,        \* the index of the entry shown
  route,     \* the path of routeSignal
  waiting,   \* navigations that wait for a guard, in the order they began
  commits,   \* pages of commitRoute calls that wait for a view transition to begin
  crossed    \* whether the signal was set while such a call was waiting

vars == <<guards, entries, at, route, waiting, commits, crossed>>

Pages == {PageOf[p] : p \in Paths}
Here == entries[at]

\* A navigation: its target, the location it read when it was called, the guard it waits
\* for with the index of that guard when it was asked, the guards that agreed, and whether
\* a guard up to that index was taken out of the array.
Navigations == [to : Paths, from : Paths, index : Nat, asked : Guards, agreed : SUBSET Guards,
                shifted : BOOLEAN, replace : BOOLEAN, transition : BOOLEAN]

TypeOK ==
  /\ guards \in Seq(Guards) /\ IsInjective(guards)
  /\ entries \in Seq(Paths) /\ at \in 1..Len(entries) /\ route \in Pages
  /\ \A i \in DOMAIN waiting : waiting[i] \in Navigations
  /\ commits \in Seq(Pages) /\ crossed \in BOOLEAN

Init ==
  /\ guards = <<>> /\ waiting = <<>> /\ commits = <<>>
  /\ \E p \in Paths : entries = <<p>> /\ route = PageOf[p]
  /\ at = 1 /\ crossed = FALSE

\* replaceState or pushState, which drops the entries ahead.
HistoryTakes(n) ==
  IF n.replace THEN entries' = [entries EXCEPT ![at] = n.to] /\ UNCHANGED at
  ELSE at < MaxHistory /\ entries' = Append(SubSeq(entries, 1, at), n.to) /\ at' = at + 1

\* commitRoute and the popstate listener set the signal.
SignalBecomes(page) ==
  /\ route' = page
  /\ crossed' = (commits # <<>>)

\* Faulty variant: that only the anchor differs is compared with the location read first.
ArriveFromStale(n) ==
  /\ IF n.to = n.from THEN UNCHANGED <<entries, at, route, commits, crossed>>
     ELSE /\ HistoryTakes(n)
          /\ IF PageOf[n.to] = PageOf[n.from] THEN UNCHANGED <<route, commits, crossed>>
             ELSE IF n.transition
             THEN Len(commits) < MaxCommits /\ commits' = Append(commits, PageOf[n.to]) /\ UNCHANGED <<route, crossed>>
             ELSE SignalBecomes(PageOf[n.to]) /\ UNCHANGED commits

\* navigate() when every guard has agreed.  That the target is where it was called from is
\* compared with the location read before the guards, that only the anchor differs with
\* the location there is now.
Arrive(n) ==
  /\ IF n.to = n.from THEN UNCHANGED <<entries, at, route, commits, crossed>>
     ELSE /\ HistoryTakes(n)
          /\ IF PageOf[n.to] = PageOf[Here] THEN UNCHANGED <<route, commits, crossed>>
             ELSE IF n.transition
             THEN Len(commits) < MaxCommits /\ commits' = Append(commits, PageOf[n.to]) /\ UNCHANGED <<route, crossed>>
             ELSE SignalBecomes(PageOf[n.to]) /\ UNCHANGED commits

\* A navigation that begins, and asks the first guard if there is one.
Asking(to, replace, transition, guard) ==
  [to |-> to, from |-> Here, index |-> 1, asked |-> guard, agreed |-> {}, shifted |-> FALSE,
   replace |-> replace, transition |-> transition]

\* A call of navigate, up to its first await.
Begin(to, replace, transition, others) ==
  /\ IF guards = <<>> THEN Arrive(Asking(to, replace, transition, "nobody")) /\ waiting' = others
     ELSE /\ waiting' = Append(others, Asking(to, replace, transition, guards[1]))
          /\ UNCHANGED <<entries, at, route, commits, crossed>>
  /\ UNCHANGED guards

navigate(to, replace, transition) ==
  /\ Len(waiting) < MaxWaiting
  /\ Begin(to, replace, transition, waiting)

\* Faulty variant: the loop ends a guard too early.
HasNextButOne(n) == n.index + 1 < Len(guards)

\* Whether the loop over the array, as it is now, has a guard to ask after navigation n.
HasNext(n) == n.index < Len(guards)

\* The guard that navigation i waits for agrees, even if it was removed meanwhile.
GuardAgrees(i) ==
  /\ LET n == waiting[i]
     IN IF HasNext(n)
        THEN /\ waiting' = [waiting EXCEPT ![i] = [n EXCEPT !.index = @ + 1, !.agreed = @ \cup {n.asked},
                                                            !.asked = guards[n.index + 1]]]
             /\ UNCHANGED <<entries, at, route, commits, crossed>>
        ELSE Arrive(n) /\ waiting' = RemoveAt(waiting, i)
  /\ UNCHANGED guards

GuardBlocks(i) ==
  /\ waiting' = RemoveAt(waiting, i)
  /\ UNCHANGED <<guards, entries, at, route, commits, crossed>>

\* Another path: navigate calls itself, and reads the location again.
GuardRedirects(i, to) ==
  /\ to # waiting[i].to
  /\ Begin(to, TRUE, waiting[i].transition, RemoveAt(waiting, i))

\* The browser calls the commitRoute that was given to startViewTransition first.
TransitionBegins ==
  /\ commits # <<>>
  /\ route' = Head(commits) /\ commits' = Tail(commits)
  /\ UNCHANGED <<guards, entries, at, waiting, crossed>>

\* Back or forward: the entry is shown and popstate fires.
Traverse(i) ==
  /\ i # at /\ at' = i
  /\ SignalBecomes(PageOf[entries[i]])
  /\ UNCHANGED <<guards, entries, waiting, commits>>

beforeEach(g) ==
  /\ g \notin ToSet(guards) /\ guards' = Append(guards, g)
  /\ UNCHANGED <<entries, at, route, waiting, commits, crossed>>

\* The cleanup of beforeEach takes the guard out of the array the loops go through.
removeGuard(i) ==
  /\ guards' = RemoveAt(guards, i)
  /\ waiting' = [j \in DOMAIN waiting |-> [waiting[j] EXCEPT !.shifted = @ \/ i <= waiting[j].index]]
  /\ UNCHANGED <<entries, at, route, commits, crossed>>

\* navigate with or without viewTransition, as far as the bound lets one begin.
Transitions == {FALSE} \cup {t \in BOOLEAN : MaxCommits > 0}

Next ==
  \/ \E p \in Paths, r \in BOOLEAN, t \in Transitions : navigate(p, r, t)
  \/ \E i \in DOMAIN waiting : \/ GuardAgrees(i) \/ GuardBlocks(i)
                               \/ \E p \in Paths : GuardRedirects(i, p)
  \/ TransitionBegins
  \/ \E i \in DOMAIN entries : Traverse(i)
  \/ \E g \in Guards : beforeEach(g)
  \/ \E i \in DOMAIN guards : removeGuard(i)

Spec == Init /\ [][Next]_vars

------------------------------------------------------------------------------
(* What is checked *)

\* A navigation that leaves its guards and moves was agreed to by every guard there is,
\* those registered while it waited included, unless a guard it had passed was removed.
AgreedMove ==
  \A i \in DOMAIN waiting :
    (waiting' = RemoveAt(waiting, i) /\ <<entries, at>>' # <<entries, at>>) =>
      (waiting[i].shifted \/ ToSet(guards) \subseteq waiting[i].agreed \cup {waiting[i].asked})
EveryGuardAgreed == [][AgreedMove]_vars

\* The page of the route signal is the one of the location, whichever navigation came
\* last, once the view transitions have begun and none of them was overtaken.
SignalShowsLocation == (commits = <<>> /\ ~crossed) => route = PageOf[Here]
=============================================================================
