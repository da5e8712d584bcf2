------------------------------- MODULE CoreApp -------------------------------
(***************************************************************************)
(* createApp of packages/runtime-core: roots that are walked and bound,    *)
(* the disposer of each walk, plugins and the disposer of the app.  All of *)
(* it is synchronous; what makes it hard is that a directive, a mount hook *)
(* or a plugin calls the app again while it is being called (stack).       *)
(***************************************************************************)
EXTENDS Integers, Sequences

CONSTANTS
  Roots,
  Elements,    \* the number of elements with a directive under a root
  Plugins,
  MaxWalks,    \* bound: calls of mount
  MaxDepth     \* bound: calls within calls

VARIABLES
  disposed,
  mountedRoots,  \* the walk whose disposer is kept for a root, or 0
  walks,         \* each walk there was: its root, and whether its disposer has run
  live,          \* what was bound and not cleaned up: <<walk, element, what>>
  held,          \* those whose cleanup is in the disposer of their walk
  handles,       \* the walks whose cleanup was handed out and not called
  installedPlugins,
  running,       \* how often each plugin is installed and not cleaned up
  kept,          \* how many of its cleanups the app's disposer has
  stack,         \* the calls under way, the innermost last
  cut,           \* walks whose disposer ran while they were under way
  late           \* plugins whose install returned when the app was disposed

vars == <<disposed, mountedRoots, walks, live, held, handles, installedPlugins, running, kept,
          stack, cut, late>>
walkVars == <<mountedRoots, walks, live, held, handles, cut>>
pluginVars == <<installedPlugins, running, kept, late>>

Bindings == (1..MaxWalks) \X (1..Elements) \X {"bind", "hook"}

TypeOK ==
  /\ disposed \in BOOLEAN /\ mountedRoots \in [Roots -> 0..Len(walks)]
  /\ Len(walks) <= MaxWalks /\ \A w \in 1..Len(walks) : walks[w] \in [root : Roots, disposed : BOOLEAN]
  /\ live \subseteq Bindings /\ held \subseteq live /\ {handles, cut} \subseteq SUBSET (1..Len(walks))
  /\ {installedPlugins, late} \subseteq SUBSET Plugins
  /\ running \in [Plugins -> 0..2] /\ kept \in [Plugins -> 0..2]
  /\ Len(stack) <= MaxDepth
  /\ \A i \in 1..Len(stack) : stack[i].what \in {"bind", "hook", "install"}

Init ==
  /\ disposed = FALSE /\ mountedRoots = [r \in Roots |-> 0] /\ walks = <<>>
  /\ live = {} /\ held = {} /\ handles = {}
  /\ installedPlugins = {} /\ running = [p \in Plugins |-> 0] /\ kept = [p \in Plugins |-> 0]
  /\ stack = <<>> /\ cut = {} /\ late = {}

Under(w) == \E i \in 1..Len(stack) : stack[i].what # "install" /\ stack[i].id = w

\* The disposers of these walks run, each once: what they hold is cleaned up.
Disposed(W) ==
  /\ held' = {b \in held : b[1] \notin W} /\ live' = live \ (held \ held')
  /\ cut' = cut \cup {w \in W : ~walks[w].disposed /\ Under(w)}
DisposedWalks(W) == [w \in 1..Len(walks) |-> [walks[w] EXCEPT !.disposed = @ \/ w \in W]]

Calls(frame) == Len(stack) < MaxDepth /\ stack' = Append(stack, frame)

\* mount ends the walk this root has before it starts another; it does nothing once the app
\* is disposed.
mount(r) ==
  /\ ~disposed /\ Len(walks) < MaxWalks
  /\ LET former == {mountedRoots[r]} \ {0}
     IN Disposed(former) /\ walks' = Append(DisposedWalks(former), [root |-> r, disposed |-> FALSE])
  /\ mountedRoots' = [mountedRoots EXCEPT ![r] = Len(walks) + 1]
  /\ Calls([what |-> "bind", id |-> Len(walks) + 1, element |-> 1])
  /\ UNCHANGED <<disposed, handles, pluginVars>>

\* A cleanup given to a disposer that has run is dropped without being called.
Added(b) ==
  /\ live' = live \cup {b}
  /\ held' = IF walks[b[1]].disposed THEN held ELSE held \cup {b}

Top == stack[Len(stack)]
Outer == SubSeq(stack, 1, Len(stack) - 1)

\* The walk goes on with the next element; behind the last one mount returns its cleanup.
GoesOn ==
  IF Top.element < Elements
  THEN /\ stack' = Append(Outer, [Top EXCEPT !.what = "bind", !.element = @ + 1])
       /\ UNCHANGED handles
  ELSE stack' = Outer /\ handles' = handles \cup {Top.id}

\* bind returns; if it has called onMount, that callback is next.
BindReturns(hooked) ==
  /\ stack # <<>> /\ Top.what = "bind"
  /\ Added(<<Top.id, Top.element, "bind">>)
  /\ IF hooked THEN stack' = Append(Outer, [Top EXCEPT !.what = "hook"]) /\ UNCHANGED handles
     ELSE GoesOn
  /\ UNCHANGED <<disposed, mountedRoots, walks, cut, pluginVars>>

\* The callback returns a cleanup, or throws, which is reported and stops nothing.
HookReturns(cleanup) ==
  /\ stack # <<>> /\ Top.what = "hook"
  /\ IF cleanup THEN Added(<<Top.id, Top.element, "hook">>) ELSE UNCHANGED <<live, held>>
  /\ GoesOn
  /\ UNCHANGED <<disposed, mountedRoots, walks, cut, pluginVars>>

\* An error in bind leaves mount without a cleanup for the caller, who may catch it; so it is
\* with install.
Throws ==
  /\ stack # <<>> /\ Top.what # "hook"
  /\ stack' = Outer
  /\ UNCHANGED <<disposed, walkVars, pluginVars>>

\* Faulty variant: the root is forgotten whatever is mounted there by now.
ForgetsAny(w) == [mountedRoots EXCEPT ![walks[w].root] = 0]

Forgets(w) ==
  IF mountedRoots[walks[w].root] = w THEN [mountedRoots EXCEPT ![walks[w].root] = 0] ELSE mountedRoots

\* The cleanup that mount returned.
Cleanup(w) ==
  /\ w \in handles /\ handles' = handles \ {w}
  /\ Disposed({w}) /\ walks' = DisposedWalks({w}) /\ mountedRoots' = Forgets(w)
  /\ UNCHANGED <<disposed, stack, pluginVars>>

unmountAll ==
  LET all == {mountedRoots[r] : r \in Roots} \ {0}
  IN /\ Disposed(all) /\ walks' = DisposedWalks(all)
     /\ mountedRoots' = [r \in Roots |-> 0]

unmount == unmountAll /\ UNCHANGED <<disposed, handles, stack, pluginVars>>

dispose ==
  /\ ~disposed /\ disposed' = TRUE
  /\ unmountAll
  /\ running' = [p \in Plugins |-> running[p] - kept[p]] /\ kept' = [p \in Plugins |-> 0]
  /\ installedPlugins' = {}
  /\ UNCHANGED <<handles, stack, late>>

\* Faulty variant: the name is noted when install has returned.
NotedAfter(p) == installedPlugins

Noted(p) == installedPlugins \cup {p}

\* A plugin that is known is not installed again; dispose is not asked for.
use(p) ==
  /\ p \notin installedPlugins /\ installedPlugins' = Noted(p)
  /\ Calls([what |-> "install", id |-> p, element |-> 0])
  /\ UNCHANGED <<disposed, walkVars, running, kept, late>>

InstallReturns ==
  /\ stack # <<>> /\ Top.what = "install"
  /\ stack' = Outer /\ installedPlugins' = installedPlugins \cup ({Top.id} \ Noted(Top.id))
  /\ running[Top.id] < 2 /\ running' = [running EXCEPT ![Top.id] = @ + 1]
  /\ IF disposed THEN late' = late \cup {Top.id} /\ UNCHANGED kept
     ELSE kept' = [kept EXCEPT ![Top.id] = @ + 1] /\ UNCHANGED late
  /\ UNCHANGED <<disposed, walkVars>>

Next ==
  \/ \E r \in Roots : mount(r)
  \/ \E yes \in BOOLEAN : BindReturns(yes) \/ HookReturns(yes)
  \/ Throws \/ InstallReturns \/ unmount \/ dispose
  \/ \E w \in 1..MaxWalks : Cleanup(w)
  \/ \E p \in Plugins : use(p)

Spec == Init /\ [][Next]_vars

------------------------------------------------------------------------------
(* What is checked *)

\* Whatever is bound will be cleaned up: it belongs to the walk that its root is known to be
\* mounted with, of an app that is not disposed, unless that walk was disposed under its feet
\* by a directive or a hook of its own.
BoundIsOwned ==
  \A b \in live : b[1] \in cut \/ (~disposed /\ mountedRoots[walks[b[1]].root] = b[1])

\* A plugin runs once, however plugins install one another, and ends with the app unless its
\* install returned only then.
PluginsRunOnce ==
  \A p \in Plugins : IF disposed THEN running[p] > 0 => p \in late ELSE running[p] <= 1
=============================================================================
