----------------------------- MODULE Conditions -----------------------------
(***************************************************************************)
(* The directive zen-if of packages/runtime, by itself (Spec) and with     *)
(* zen-else-if and zen-else (ChainSpec), each with a state of its own.     *)
(*                                                                         *)
(* The directive zen-if: an effect over a condition that puts an element   *)
(* in and takes it out again, at once or after a leave transition, and     *)
(* starts and ends the effects of its children.  The transition itself is  *)
(* modelled in Presentation: here a leave ends, or is cancelled.           *)
(***************************************************************************)
EXTENDS Integers, FiniteSets

CONSTANT MaxMounts   \* bound: how often the children are started

VARIABLES
  condition,      \* what the expression gives; "throws" when it does not
  animated,       \* the element has an attribute zen-transition
  rerun,          \* the effect over the condition is scheduled
  isMounted,
  inDom,
  leaving,        \* cancelLeave: "none", "running", or "ended" before finished was handled
  childDisposes,  \* the mount whose children the directive would dispose, 0 for none
  alive,          \* mounts whose children's effects run
  mounts,         \* mounts so far
  interrupted,    \* mounts whose leave was cancelled by the next mount
  failed,         \* the mount in which manageChildren threw, 0 for none
  disposed

vars == <<condition, animated, rerun, isMounted, inDom, leaving, childDisposes, alive, mounts,
          interrupted, failed, disposed>>

Init ==
  /\ condition \in {"true", "false", "throws"} /\ animated \in BOOLEAN
  /\ rerun = TRUE   \* the effect runs at once
  /\ isMounted = FALSE /\ inDom = FALSE /\ leaving = "none"
  /\ childDisposes = 0 /\ alive = {} /\ mounts = 0 /\ interrupted = {} /\ failed = 0 /\ disposed = FALSE

\* The state the expression reads changes, or the attribute is bound to another value.
\* After an error in its body the effect is subscribed to nothing.
Change(c) ==
  /\ ~disposed /\ c # condition
  /\ condition' = c /\ rerun' = (failed = 0)
  /\ UNCHANGED <<animated, isMounted, inDom, leaving, childDisposes, alive, mounts, interrupted, failed, disposed>>
Animate ==
  /\ ~disposed /\ animated' = ~animated
  /\ UNCHANGED <<condition, rerun, isMounted, inDom, leaving, childDisposes, alive, mounts, interrupted, failed, disposed>>

\* The condition holds: a leave under way is cancelled, and the children start again.
\* Faulty variant: the leave goes on.
LeavesOn == leaving
LeaveAtMount == "none"

Mount ==
  /\ mounts < MaxMounts
  /\ leaving' = LeaveAtMount
  /\ isMounted' = TRUE /\ inDom' = TRUE
  /\ mounts' = mounts + 1 /\ childDisposes' = mounts + 1 /\ alive' = alive \cup {mounts + 1}
  /\ interrupted' = IF leaving # "none" THEN interrupted \cup {childDisposes} ELSE interrupted
  /\ UNCHANGED failed

\* The binding of a child throws: the element is in, childDisposes is what it was, and what
\* was bound before the error, if anything, is known to nobody.
MountThrows ==
  /\ mounts < MaxMounts
  /\ leaving' = LeaveAtMount
  /\ isMounted' = TRUE /\ inDom' = TRUE
  /\ mounts' = mounts + 1 /\ failed' = mounts + 1 /\ alive' \in {alive, alive \cup {mounts + 1}}
  /\ UNCHANGED <<childDisposes, interrupted>>

\* The condition does not hold: the element leaves, or goes at once.
Unmount ==
  /\ isMounted' = FALSE
  /\ IF animated
     THEN leaving' = "running" /\ UNCHANGED <<inDom, childDisposes, alive>>
     ELSE /\ inDom' = FALSE /\ alive' = alive \ {childDisposes} /\ childDisposes' = 0
          /\ UNCHANGED leaving
  /\ UNCHANGED <<mounts, interrupted, failed>>

Rerun ==
  /\ rerun /\ rerun' = FALSE
  /\ CASE condition = "true" /\ ~isMounted -> Mount \/ MountThrows
       [] condition = "false" /\ isMounted -> Unmount
       [] OTHER -> UNCHANGED <<isMounted, inDom, leaving, childDisposes, alive, mounts, interrupted, failed>>
  /\ UNCHANGED <<condition, animated, disposed>>

\* The transition of the leave ends, and then the callback of finished runs.
LeaveEnds ==
  /\ leaving = "running" /\ leaving' = "ended"
  /\ UNCHANGED <<condition, animated, rerun, isMounted, inDom, childDisposes, alive, mounts, interrupted, failed, disposed>>
Finished ==
  /\ leaving = "ended" /\ leaving' = "none"
  /\ inDom' = FALSE /\ alive' = alive \ {childDisposes} /\ childDisposes' = 0
  /\ UNCHANGED <<condition, animated, rerun, isMounted, mounts, interrupted, failed, disposed>>

\* The element itself stays where it is.
dispose ==
  /\ ~disposed /\ disposed' = TRUE /\ rerun' = FALSE
  /\ leaving' = "none" /\ alive' = alive \ {childDisposes} /\ childDisposes' = 0
  /\ UNCHANGED <<condition, animated, isMounted, inDom, mounts, interrupted, failed>>

Next ==
  \/ \E c \in {"true", "false", "throws"} : Change(c)
  \/ Animate \/ Rerun \/ LeaveEnds \/ Finished \/ dispose

Spec == Init /\ [][Next]_vars

------------------------------------------------------------------------------
\* The variables keep their types.
TypeOK ==
  /\ {rerun, isMounted, inDom, animated, disposed} \subseteq BOOLEAN
  /\ leaving \in {"none", "running", "ended"} /\ childDisposes \in 0..mounts
  /\ alive \subseteq 1..mounts /\ mounts \in 0..MaxMounts /\ failed \in 0..mounts

\* Once no run is due and no leave is under way, the element is there exactly as the last
\* condition that could be computed says, with the effects of its newest children, and no
\* effect of other children runs, except those whose leave was interrupted: until the
\* binding of a child throws, which ends it (if.ts:190-191 and effect.ts:254-261).
ElementFollowsCondition ==
  ~disposed /\ leaving = "none" /\ failed = 0 =>
    /\ inDom <=> isMounted
    /\ ~rerun /\ condition # "throws" => (inDom <=> condition = "true")
    /\ isMounted => mounts \in alive /\ childDisposes = mounts
    /\ alive \subseteq interrupted \cup (IF isMounted THEN {mounts} ELSE {})

\* After dispose no transition and no children are left, except those whose leave was
\* interrupted and what was bound before an error.
NothingRunsAfterDispose == disposed => leaving = "none" /\ alive \subseteq interrupted \cup {failed}

------------------------------------------------------------------------------
(***************************************************************************)
(* Second part, with a state of its own: zen-if with zen-else-if and zen-  *)
(* else: every element of the chain is replaced by a placeholder, and one  *)
(* effect over the conditions puts the first branch whose condition holds  *)
(* before its placeholder and binds its children.  The walk that came      *)
(* across the zen-if then goes on over the other elements of the chain,    *)
(* and binds those it does not know for part of it a second time.          *)
(***************************************************************************)

CONSTANTS
  Branches,   \* 1..n, n > 1
  MaxChanges  \* bound: changes of conditions

Conditions == {"true", "false", "throws"}
Last == CHOOSE n \in Branches : \A i \in Branches : i <= n

VARIABLES
  hasElse,      \* the last branch is a zen-else, whose condition always holds
  conditions,   \* of each branch
  bound,        \* "unbound", "bound" or "disposed"
  read,         \* branches whose condition the effect has read
  chainRerun,   \* the effect is scheduled
  activeIndex,  \* 0 for none
  chainInDom,   \* branches before their placeholders
  own,          \* branches with live bindings in their branchDisposes
  outer,        \* branches with live bindings in the disposes of the walk around the chain
  attributed,   \* branches that still have zen-else-if or zen-else
  threw,        \* the binding of a branch has thrown and activeIndex was not set
  changes

chainVars == <<hasElse, conditions, bound, read, chainRerun, activeIndex, chainInDom, own,
               outer, attributed, threw, changes>>

ChainInit ==
  /\ hasElse \in BOOLEAN
  /\ conditions \in {c \in [Branches -> Conditions] : hasElse => c[Last] = "true"}
  /\ bound = "unbound" /\ read = {} /\ chainRerun = FALSE /\ activeIndex = 0
  /\ chainInDom = Branches /\ own = {} /\ outer = {} /\ attributed = Branches \ {1}
  /\ threw = FALSE /\ changes = 0

\* The first branch whose condition holds; one that cannot be computed does not hold.
First(c) == {i \in Branches : c[i] = "true" /\ \A j \in 1..(i - 1) : c[j] # "true"}
newIndex(c) == IF First(c) = {} THEN 0 ELSE CHOOSE i \in First(c) : TRUE

\* The body of the effect, over what is in the document and bound: the active branch goes, and
\* another comes.  When its binding throws, activeIndex remains what it was, and what it had
\* bound so far is known to nobody.
\* Faulty variant: the effects of the branch that goes are left.
Leaves(s) == [s EXCEPT !.inDom = @ \ {activeIndex}]
Unmounted(s) == [s EXCEPT !.inDom = @ \ {activeIndex}, !.own = @ \ {activeIndex}]

Body(s, throws) ==
  LET i == newIndex(conditions)
      t == Unmounted(s)
  IN  IF i = activeIndex THEN s
      ELSE [t EXCEPT !.inDom = @ \cup ({i} \ {0}), !.own = IF throws THEN @ ELSE @ \cup ({i} \ {0}),
                     !.attributed = @ \ {i}, !.activeIndex = IF throws /\ i # 0 THEN @ ELSE i]

\* An error takes the effect out of what it reads.
Runs(s, throws) ==
  LET t == Body(s, throws)
      thrown == throws /\ newIndex(conditions) \notin {0, activeIndex}
  IN
  /\ chainInDom' = t.inDom /\ own' = t.own /\ attributed' = t.attributed /\ activeIndex' = t.activeIndex
  /\ threw' = (threw \/ thrown) /\ chainRerun' = FALSE
  /\ read' = IF thrown THEN {} ELSE IF First(conditions) = {} THEN Branches ELSE 1..newIndex(conditions)

Now == [inDom |-> chainInDom, own |-> own, attributed |-> attributed, activeIndex |-> activeIndex]

\* walk at the zen-if, and then at the elements behind it.  The next element is marked when it
\* still has its attribute, and is passed over; as it has been taken out, it has no sibling, so
\* the mark goes no further, and all others are bound with the surroundings.
Bind(throws) ==
  /\ bound = "unbound" /\ bound' = "bound"
  /\ Runs([Now EXCEPT !.inDom = {}], throws)
  /\ outer' = {i \in Branches \ {1} : ~(i = 2 /\ 2 \in attributed')}
  /\ UNCHANGED <<hasElse, conditions, changes>>

Set(i, c) ==
  /\ changes < MaxChanges /\ changes' = changes + 1
  /\ hasElse => i # Last
  /\ c # conditions[i]
  /\ conditions' = [conditions EXCEPT ![i] = c]
  /\ chainRerun' = (chainRerun \/ (bound = "bound" /\ i \in read))
  /\ UNCHANGED <<hasElse, bound, read, activeIndex, chainInDom, own, outer, attributed, threw>>

RunChain(throws) == chainRerun /\ Runs(Now, throws) /\ UNCHANGED <<hasElse, conditions, bound, outer, changes>>

\* The disposes of the walk around the chain run, that of the chain among them.
Stop ==
  /\ bound = "bound" /\ bound' = "disposed"
  /\ chainRerun' = FALSE /\ read' = {} /\ outer' = {}
  /\ chainInDom' = chainInDom \ {activeIndex} /\ own' = own \ {activeIndex} /\ activeIndex' = 0
  /\ UNCHANGED <<hasElse, conditions, attributed, threw, changes>>

ChainNext ==
  \/ \E throws \in BOOLEAN : Bind(throws) \/ RunChain(throws)
  \/ \E i \in Branches, c \in Conditions : Set(i, c)
  \/ Stop

ChainSpec == ChainInit /\ [][ChainNext]_chainVars

------------------------------------------------------------------------------
\* The variables keep their types.
ChainTypeOK ==
  /\ bound \in {"unbound", "bound", "disposed"} /\ activeIndex \in Branches \cup {0}
  /\ {hasElse, chainRerun, threw} \subseteq BOOLEAN /\ changes \in 0..MaxChanges
  /\ read \cup chainInDom \cup own \cup outer \cup attributed \subseteq Branches

\* Between runs the document has the first branch whose condition holds, and no other, and only
\* its children are bound by the chain, until the binding of a branch throws.
ChainShowsFirst ==
  bound = "bound" /\ ~chainRerun /\ ~threw =>
    chainInDom = First(conditions) /\ own = First(conditions)

\* After dispose nothing that the chain or the walk around it has bound in a branch reacts
\* any more, and no element of the chain is left.  What a branch had bound before a binding
\* threw is known to neither (walker.ts:447-449), and is not meant.
ChainEndsAtStop == bound = "disposed" => own \cup outer = {} /\ ~chainRerun /\ (~threw => chainInDom = {})
=============================================================================
