--------------------------- MODULE CoreDirectives ---------------------------
(***************************************************************************)
(* The directives of packages/runtime-core in two parts with a state and a *)
(* specification each: zen-if and zen-for (Spec), zen-memo and zen-text    *)
(* (MemoSpec).                                                             *)
(*                                                                         *)
(* zen-if with a zen-for in its branch, as packages/runtime-core binds     *)
(* them: effects that a flush runs in the order in which they were         *)
(* scheduled, rows that are made anew each time, and bindings that throw,  *)
(* after which the effect around them has lost its subscriptions.          *)
(***************************************************************************)
EXTENDS Integers, Sequences

CONSTANTS
  Lists,      \* the lists of keys there may be
  MaxChanges  \* bound: changes of signals

VARIABLES
  cond, list,  \* what zen-if and zen-for depend on
  queue,       \* the effects scheduled, in order
  ifEffect,    \* "live", "dead" after an error, "unbound" after one in bind, or "ended"
  forEffect,   \* that of the newest zen-for, "none" before there is one
  shown,       \* the element of the branch is in the document
  rows,        \* the nodes behind the anchor of the newest zen-for: key, and whether known to it
  doubled,     \* the list has had a key twice since that zen-for was bound
  changes

vars == <<cond, list, queue, ifEffect, forEffect, shown, rows, doubled, changes>>

Keys == UNION {{l[i] : i \in 1..Len(l)} : l \in Lists}
Node(k, known) == [key |-> k, known |-> known]
Unique(l) == \A i, j \in 1..Len(l) : l[i] = l[j] => i = j

TypeOK ==
  /\ cond \in BOOLEAN /\ list \in Lists /\ shown \in BOOLEAN /\ doubled \in BOOLEAN
  /\ Len(queue) <= 2 /\ \A i \in 1..Len(queue) : queue[i] \in {"if", "for"}
  /\ ifEffect \in {"live", "dead", "unbound", "ended"} /\ forEffect \in {"none", "live", "dead", "ended"}
  /\ \A i \in 1..Len(rows) : rows[i] \in [key : Keys, known : BOOLEAN]
  /\ changes \in 0..MaxChanges

Queued(e) == \E i \in 1..Len(queue) : queue[i] = e
Scheduled(e, state) == IF state # "live" \/ Queued(e) THEN queue ELSE Append(queue, e)
Without(e) == SelectSeq(queue, LAMBDA f : f # e)
OrphansOf(nodes) == SelectSeq(nodes, LAMBDA n : ~n.known)

\* Faulty variant: the node of a key that is still there is left where it was.
KeptWhere(nodes, n) == nodes

\* The first n items of the list are bound: the nodes their keys had are gone.
Taken(nodes, n) == SelectSeq(nodes, LAMBDA x : ~(x.known /\ \E i \in 1..n : list[i] = x.key))

\* A whole run: the rows no longer asked for go, and what was made goes behind the anchor.
\* Of two rows with one key only the later one is known from then on.
RunThrough(nodes) ==
  [i \in 1..Len(list) |-> Node(list[i], \A j \in (i + 1)..Len(list) : list[j] # list[i])]
  \o SelectSeq(Taken(nodes, Len(list)), LAMBDA x : ~x.known \/ \E i \in 1..Len(list) : list[i] = x.key)

\* A run of the effect of zen-for over these nodes, which the binding of an item may end.
ForRuns(nodes) ==
  \/ /\ rows' = RunThrough(nodes) /\ forEffect' = "live"
  \/ \E n \in 1..Len(list) : rows' = Taken(nodes, n) /\ forEffect' = "dead"

\* zen-for is bound anew with the branch, its effect runs at once.
Binds == ForRuns(<<>>) /\ doubled' = ~Unique(list)

\* The walk of mount; an error in a row is an error of zen-if, and of mount.
Init ==
  /\ cond \in BOOLEAN /\ list \in Lists /\ queue = <<>> /\ changes = 0
  /\ shown = cond /\ doubled = (cond /\ ~Unique(list))
  /\ IF ~cond
     THEN rows = <<>> /\ forEffect = "none" /\ ifEffect = "live"
     ELSE \/ /\ rows = RunThrough(<<>>) /\ forEffect = "live" /\ ifEffect = "live"
          \/ /\ list # <<>> /\ rows = <<>> /\ forEffect = "dead" /\ ifEffect = "unbound"

SetCond ==
  /\ changes < MaxChanges /\ changes' = changes + 1
  /\ cond' = ~cond /\ queue' = Scheduled("if", ifEffect)
  /\ UNCHANGED <<list, ifEffect, forEffect, shown, rows, doubled>>

SetList(l) ==
  /\ changes < MaxChanges /\ changes' = changes + 1
  /\ l # list /\ list' = l /\ queue' = Scheduled("for", forEffect)
  /\ UNCHANGED <<cond, ifEffect, forEffect, shown, rows, doubled>>

\* The effect of zen-if: nothing when the branch is the same, else the element goes, or comes
\* and is bound.  An older zen-for is not stopped, but works on an element that is gone.
IfRuns ==
  /\ queue # <<>> /\ Head(queue) = "if"
  /\ IF cond = shown
     THEN queue' = Tail(queue) /\ UNCHANGED <<shown, rows, forEffect, doubled, ifEffect>>
     ELSE IF ~cond
     THEN queue' = Tail(queue) /\ shown' = FALSE /\ UNCHANGED <<rows, forEffect, doubled, ifEffect>>
     ELSE /\ shown' = TRUE /\ Binds /\ queue' = SelectSeq(Tail(queue), LAMBDA f : f # "for")
          /\ ifEffect' = IF forEffect' = "dead" THEN "dead" ELSE "live"
  /\ UNCHANGED <<cond, list, changes>>

ForRunsAgain ==
  /\ queue # <<>> /\ Head(queue) = "for" /\ queue' = Tail(queue)
  /\ ForRuns(rows) /\ doubled' = (doubled \/ ~Unique(list))
  /\ UNCHANGED <<cond, list, shown, ifEffect, changes>>

\* The disposer of the walk: the rows that are known go, and the element of the branch; it has
\* nothing for a directive whose bind has thrown.
Unmount ==
  /\ ifEffect \notin {"ended", "unbound"} /\ ifEffect' = "ended"
  /\ forEffect' = IF forEffect = "none" THEN "none" ELSE "ended"
  /\ rows' = OrphansOf(rows) /\ shown' = FALSE /\ queue' = <<>>
  /\ UNCHANGED <<cond, list, doubled, changes>>

Next ==
  \/ SetCond \/ (\E l \in Lists : SetList(l)) \/ IfRuns \/ ForRunsAgain \/ Unmount

Spec == Init /\ [][Next]_vars

------------------------------------------------------------------------------
(* What is checked *)

\* Once the flush is over the branch is there exactly when its condition says so, over lists
\* that change and branches that come again, until a binding in it has thrown.
BranchFollows == ~Queued("if") /\ ifEffect = "live" => shown = cond

\* Then the rows are the items in order, also after errors elsewhere; nodes that are more than
\* that come from keys that were there twice.
RowsFollow ==
  ~Queued("for") /\ forEffect = "live" /\ shown =>
    /\ Len(rows) >= Len(list) /\ \A i \in 1..Len(list) : rows[i].key = list[i]
    /\ ~doubled => Len(rows) = Len(list)

------------------------------------------------------------------------------
(***************************************************************************)
(* Second part, with a state of its own: zen-memo beside zen-text (or zen- *)
(* html) on one element, as packages/ runtime-core binds them: two effects *)
(* that share a mark on the element. The text reads the signal that zen-   *)
(* memo names and another one.                                             *)
(***************************************************************************)

CONSTANT Values   \* of the signals

VARIABLES
  named, other,   \* the signals
  memoQueue,      \* the effects scheduled, in order
  memoUnchanged,  \* __zenMemoUnchanged of the element
  prevDeps,       \* what zen-memo saw last
  text,           \* what the element shows, <<named, other>>
  memoFirst,      \* of the two subscribers of named: which ran last comes last
  outran,         \* a run of the text came before that of zen-memo, and the text is not newer
  memoChanges

memoVars == <<named, other, memoQueue, memoUnchanged, prevDeps, text, memoFirst, outran, memoChanges>>

MemoTypeOK ==
  /\ {named, other, prevDeps} \subseteq Values /\ text \in Values \X Values
  /\ Len(memoQueue) <= 2 /\ \A i \in 1..Len(memoQueue) : memoQueue[i] \in {"memo", "text"}
  /\ {memoUnchanged, memoFirst, outran} \subseteq BOOLEAN /\ memoChanges \in 0..MaxChanges

\* Bound by priority: zen-memo first.
MemoInit ==
  /\ named \in Values /\ other \in Values /\ memoQueue = <<>> /\ memoChanges = 0
  /\ memoUnchanged = FALSE /\ prevDeps = named /\ text = <<named, other>>
  /\ memoFirst = TRUE /\ outran = FALSE

MemoQueued(e) == \E i \in 1..Len(memoQueue) : memoQueue[i] = e
With(q, e) == IF \E i \in 1..Len(q) : q[i] = e THEN q ELSE Append(q, e)

\* Its subscribers are those that read it, in the order in which they last did.
SetNamed(v) ==
  /\ memoChanges < MaxChanges /\ memoChanges' = memoChanges + 1
  /\ v # named /\ named' = v
  /\ memoQueue' = IF memoFirst THEN With(With(memoQueue, "memo"), "text")
                  ELSE With(With(memoQueue, "text"), "memo")
  /\ UNCHANGED <<other, memoUnchanged, prevDeps, text, memoFirst, outran>>

SetOther(v) ==
  /\ memoChanges < MaxChanges /\ memoChanges' = memoChanges + 1
  /\ v # other /\ other' = v /\ memoQueue' = With(memoQueue, "text")
  /\ UNCHANGED <<named, memoUnchanged, prevDeps, text, memoFirst, outran>>

\* Faulty variant: what was seen is kept from the first run.
SeenFirst == prevDeps

Seen == named

MemoRuns ==
  /\ memoQueue # <<>> /\ Head(memoQueue) = "memo" /\ memoQueue' = Tail(memoQueue)
  /\ memoUnchanged' = (prevDeps = named) /\ prevDeps' = Seen /\ memoFirst' = FALSE
  /\ UNCHANGED <<named, other, text, outran, memoChanges>>

TextRuns ==
  /\ memoQueue # <<>> /\ Head(memoQueue) = "text" /\ memoQueue' = Tail(memoQueue)
  /\ text' = IF memoUnchanged THEN text ELSE <<named, other>>
  /\ outran' = (MemoQueued("memo") \/ (outran /\ memoUnchanged)) /\ memoFirst' = TRUE
  /\ UNCHANGED <<named, other, memoUnchanged, prevDeps, memoChanges>>

MemoNext == (\E v \in Values : SetNamed(v) \/ SetOther(v)) \/ MemoRuns \/ TextRuns

MemoSpec == MemoInit /\ [][MemoNext]_memoVars

------------------------------------------------------------------------------
(* What is checked *)

\* After a flush the text shows the value that zen-memo names, whatever came in between and
\* whatever was skipped, unless the flush ran the text before zen-memo had looked.
NamedIsShown == memoQueue = <<>> /\ ~outran => text[1] = named
=============================================================================
