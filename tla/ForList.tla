------------------------------ MODULE ForList ------------------------------
(***************************************************************************)
(* The directive zen-for: an effect that keeps the elements after its      *)
(* placeholder in step with a list.  A run is synchronous, so it is one    *)
(* action; it may end in the middle, when an expression in the body of a   *)
(* new row throws.                                                         *)
(***************************************************************************)
EXTENDS Integers, SequencesExt

CONSTANTS
  Keys,       \* what zen-key computes, naturals: an index is a key as well
  MaxLength   \* items of a list

VARIABLES
  keyed,      \* FALSE: zen-static, the list is built anew by every run
  list,       \* the keys of the items, in order; NoKey where zen-key gives nothing
  version,    \* the items of two successive lists differ, though their keys do not
  rows,       \* itemsByKey (staticItems by position): [node, index, version] of each row
  dom,        \* the nodes after the placeholder; 0 is the sibling that is not a row
  broken,     \* the last run threw
  disposed

vars == <<keyed, list, version, rows, dom, broken, disposed>>

NoKey == -1
Nodes == 1..(2 * MaxLength)
\* An item whose key is its index is written with NoKey.
Lists == {l \in UNION {[1..n -> Keys \cup {NoKey}] : n \in 0..MaxLength} : \A i \in DOMAIN l : l[i] # i - 1}

Init ==
  /\ keyed \in BOOLEAN /\ list = <<>> /\ version = 0
  /\ rows = <<>> /\ dom = <<0>> /\ broken = FALSE /\ disposed = FALSE

computeKey(l, i) == IF l[i] = NoKey THEN i - 1 ELSE l[i]

Without(s, nodes) == SelectSeq(s, LAMBDA n : n \notin nodes)
NodesOf(f) == {f[k].node : k \in DOMAIN f}
NewNode(f) == CHOOSE n \in Nodes : n \notin NodesOf(f) /\ \A m \in Nodes : m < n => m \in NodesOf(f)

\* insertBefore(node, prev.nextSibling), where prev is 0 for the placeholder.
\* Faulty variant: a node that is already there stays where it is.
MoveAfterNew(s, node, prev) ==
  LET p == IF prev = 0 THEN 0 ELSE SelectInSeq(s, LAMBDA n : n = prev)
  IN IF node \in Range(s) THEN s ELSE InsertAt(s, p + 1, node)

MoveAfter(s, node, prev) ==
  LET next == s[IF prev = 0 THEN 1 ELSE 1 + SelectInSeq(s, LAMBDA n : n = prev)]
      rest == Without(s, {node})
  IN IF node = next THEN s ELSE InsertAt(rest, SelectInSeq(rest, LAMBDA n : n = next), node)

\* What a run has done when it has put the items before i in their place: mounting is the
\* first run, which collects the nodes in a fragment.
Place(l, mounting, done, i) ==
  LET key  == IF keyed THEN computeKey(l, i) ELSE i
      node == IF key \in DOMAIN done.rows THEN done.rows[key].node ELSE NewNode(done.rows)
      row  == [node |-> node, index |-> i - 1, version |-> 1 - version]
  IN [rows     |-> [k \in DOMAIN done.rows \cup {key} |-> IF k = key THEN row ELSE done.rows[k]],
      fragment |-> IF mounting THEN Append(Without(done.fragment, {node}), node) ELSE <<>>,
      dom      |-> IF mounting THEN done.dom ELSE MoveAfter(done.dom, node, done.prev),
      prev     |-> node]

Mounting == ~keyed \/ DOMAIN rows = {}
Started == [rows |-> IF keyed THEN rows ELSE <<>>, fragment |-> <<>>, prev |-> 0,
            dom |-> IF keyed THEN dom ELSE Without(dom, NodesOf(rows))]
Placed(l, n) ==
  LET placed[i \in 0..n] == IF i = 0 THEN Started ELSE Place(l, Mounting, placed[i - 1], i)
  IN placed[n]

KeysOf(l) == IF keyed THEN {computeKey(l, i) : i \in DOMAIN l} ELSE DOMAIN l

\* The rows whose keys the run did not meet go.
\* Faulty variant: the rows beyond the length of the list go.
SurvivingShort(f, l) == {k \in DOMAIN f : f[k].index < Len(l)}
Surviving(f, l) == {k \in DOMAIN f : k \in KeysOf(l)}

\* A run of the effect that comes to its end.
Update(l) ==
  LET done == Placed(l, Len(l))
      keep == Surviving(done.rows, l)
      gone == {done.rows[k].node : k \in DOMAIN done.rows \ keep}
  IN /\ ~disposed
     /\ list' = l /\ version' = 1 - version /\ broken' = FALSE
     /\ rows' = [k \in keep |-> done.rows[k]]
     /\ dom' = done.fragment \o Without(done.dom, gone)
     /\ UNCHANGED <<keyed, disposed>>

\* processChildren throws for item n, which is a new row: the rows before it were placed or
\* collected, the fragment is lost, and nothing is removed.
UpdateThrows(l, n) ==
  LET done == Placed(l, n - 1)
  IN /\ ~disposed
     /\ keyed => computeKey(l, n) \notin DOMAIN done.rows
     /\ list' = l /\ version' = 1 - version /\ broken' = TRUE
     /\ rows' = done.rows /\ dom' = done.dom
     /\ UNCHANGED <<keyed, disposed>>

dispose ==
  /\ ~disposed /\ disposed' = TRUE
  /\ rows' = <<>> /\ dom' = Without(dom, NodesOf(rows))
  /\ UNCHANGED <<keyed, list, version, broken>>

Next ==
  \/ \E l \in Lists : Update(l) \/ \E n \in DOMAIN l : UpdateThrows(l, n)
  \/ dispose

Spec == Init /\ [][Next]_vars

------------------------------------------------------------------------------
\* The variables keep their types.
TypeOK ==
  /\ keyed \in BOOLEAN /\ broken \in BOOLEAN /\ disposed \in BOOLEAN
  /\ list \in Lists /\ version \in {0, 1}
  /\ \A k \in DOMAIN rows : rows[k] \in [node : Nodes, index : 0..MaxLength, version : {0, 1}]
  /\ Range(dom) \subseteq Nodes \cup {0}

\* After a run that came to its end, also one that follows runs that threw, the page shows the
\* list: each key once, in the order of the last items that have them, with the index and the
\* value of that item, and then what followed the placeholder before.
LastOf(key) ==
  CHOOSE i \in DOMAIN list : /\ computeKey(list, i) = key
                             /\ \A j \in DOMAIN list : computeKey(list, j) = key => j <= i
ListIsShown ==
  ~broken /\ ~disposed =>
    LET shown == IF keyed THEN {LastOf(k) : k \in KeysOf(list)} ELSE DOMAIN list
        order == SetToSortSeq(shown, <)
        RowOf(i) == rows[IF keyed THEN computeKey(list, i) ELSE i]
    IN /\ DOMAIN rows = KeysOf(list)
       /\ dom = Append([n \in DOMAIN order |-> RowOf(order[n]).node], 0)
       /\ \A i \in shown : RowOf(i).index = i - 1 /\ RowOf(i).version = version

\* Whatever threw, no element is on the page that no row would take away again, no two rows
\* share an element, and dispose leaves only what was there before.
ElementsHaveRows ==
  /\ Last(dom) = 0 /\ IsInjective(dom) /\ Range(dom) \subseteq NodesOf(rows) \cup {0}
  /\ \A j, k \in DOMAIN rows : rows[j].node = rows[k].node => j = k
  /\ disposed => dom = <<0>>
=============================================================================
