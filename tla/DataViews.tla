----------------------------- MODULE DataViews ------------------------------
(***************************************************************************)
(* Elements that show data, in two parts with a state and a specification  *)
(* each: the views of packages/stateful (Spec) and the table of            *)
(* packages/data-table (TableSpec).                                        *)
(*                                                                         *)
(* zen-resource-view and zen-auth-view of packages/stateful: elements that *)
(* an effect fills with what a resource or a session says.  Binding a part *)
(* may throw, which ends the effect.                                       *)
(***************************************************************************)
EXTENDS Integers, Sequences, SequencesExt, FiniteSets

CONSTANTS
  Lists,      \* the lists of keys a resource may have
  MaxChanges  \* bound: changes of the signal

VARIABLES
  view,      \* "resource" or "auth"
  state,     \* the signal: [loading, error, fetched, data] or whether somebody is signed in
  changes,   \* changes of the signal, the value of its newest items
  due,       \* the effect will run
  alive,     \* it has not thrown and was not disposed
  disposed,
  children,  \* the child nodes, in order: [kind, key, value, retries]
  bound      \* the rows or the slot whose bindings run

vars == <<view, state, changes, due, alive, disposed, children, bound>>

Slots == {"authenticated", "guest"}
RowKeys == UNION {ToSet(l) : l \in Lists}

Node(kind, key, value, retries) == [kind |-> kind, key |-> key, value |-> value, retries |-> retries]
Row(key, value) == Node("row", key, value, FALSE)
IsRow(node) == node.kind = "row"
RowsOf(nodes) == SelectSeq(nodes, IsRow)

TypeOK ==
  /\ view \in {"resource", "auth"} /\ {due, alive, disposed} \subseteq BOOLEAN
  /\ changes \in 0..MaxChanges
  /\ IF view = "auth" THEN state \in BOOLEAN ELSE
     /\ {state.loading, state.error, state.fetched} \subseteq BOOLEAN /\ state.data \in Lists
  /\ \A i \in 1..Len(children) :
       /\ children[i].kind \in {"row", "loading", "error", "empty"} \cup Slots
       /\ children[i].key \in RowKeys \cup {0}
       /\ children[i].value \in 0..MaxChanges /\ children[i].retries \in BOOLEAN
  /\ bound \subseteq (IF view = "auth" THEN Slots ELSE RowKeys)

\* The effect runs for the first time when the element is bound.
Init ==
  /\ \/ view = "resource" /\ state = [loading |-> FALSE, error |-> FALSE, fetched |-> FALSE, data |-> <<>>]
     \/ view = "auth" /\ state = FALSE
  /\ changes = 0 /\ due = TRUE /\ alive = TRUE /\ disposed = FALSE /\ children = <<>> /\ bound = {}

SignalChanges ==
  /\ changes < MaxChanges /\ changes' = changes + 1 /\ due' = alive
  /\ \/ /\ view = "resource"
        /\ state' \in [loading : BOOLEAN, error : BOOLEAN, fetched : BOOLEAN, data : Lists]
        /\ ~state'.fetched => state'.data = <<>>
     \/ view = "auth" /\ state' \in BOOLEAN
  /\ UNCHANGED <<view, alive, disposed, children, bound>>

(* zen-resource-view *)

\* Faulty variant: the button of the slot before keeps its listener.
SlotAsItIs(nodes) == nodes

\* The button of an error that is over does nothing; the elements of a slot are never taken out.
clearSlot(nodes) == [i \in 1..Len(nodes) |-> [nodes[i] EXCEPT !.retries = FALSE]]

NotRow(node) == node.kind # "row"
clearItems(nodes) == SelectSeq(nodes, NotRow)

\* Faulty variant: a row that is there stays where it is.
PlaceNew(nodes, at, node) ==
  IF \E i \in 1..Len(nodes) : nodes[i].kind = "row" /\ nodes[i].key = node.key
    THEN [i \in 1..Len(nodes) |->
            IF nodes[i].kind = "row" /\ nodes[i].key = node.key THEN node ELSE nodes[i]]
    ELSE SubSeq(nodes, 1, at - 1) \o <<node>> \o SubSeq(nodes, at, Len(nodes))

Place(nodes, at, node) ==
  LET IsOther(x) == x.kind # "row" \/ x.key # node.key
      rest == SelectSeq(nodes, IsOther)
  IN SubSeq(rest, 1, at - 1) \o <<node>> \o SubSeq(rest, at, Len(rest))

\* Of items with one key the first is shown.
UsedKeys(list) ==
  LET IsFirst(i) == \A j \in 1..(i - 1) : list[j] # list[i]
      Kept[n \in 0..Len(list)] ==
        IF n = 0 THEN <<>> ELSE Kept[n - 1] \o (IF IsFirst(n) THEN <<list[n]>> ELSE <<>>)
  IN Kept[Len(list)]

\* Rows are taken over by key, made and moved to their places from the front; the rest goes last.
renderSuccess(nodes, list, value) ==
  LET keys == UsedKeys(list)
      placed[n \in 0..Len(keys)] == IF n = 0 THEN nodes ELSE Place(placed[n - 1], n, Row(keys[n], value))
      IsCurrent(node) == node.kind # "row" \/ node.key \in ToSet(list)
  IN SelectSeq(placed[Len(keys)], IsCurrent)

\* What the effect makes of the nodes.
Rendered(nodes) ==
  LET cleared == clearSlot(nodes)
      emptied == clearItems(cleared)
  IN IF state.loading /\ ~state.fetched THEN Append(emptied, Node("loading", 0, 0, FALSE))
     ELSE IF state.error THEN Append(emptied, Node("error", 0, 0, TRUE))
     ELSE IF state.data = <<>> THEN Append(emptied, Node("empty", 0, 0, FALSE))
     ELSE renderSuccess(cleared, state.data, changes)

KeysOf(nodes) == {nodes[i].key : i \in {j \in 1..Len(nodes) : IsRow(nodes[j])}}

ResourceEffect ==
  /\ view = "resource" /\ due /\ due' = FALSE
  /\ children' = Rendered(children) /\ bound' = KeysOf(children')
  /\ UNCHANGED <<view, state, changes, alive, disposed>>

\* Binding a new row throws: what was placed before stays, the row is not there, and what is not
\* in the list any more stays too.
ResourceEffectThrows ==
  /\ view = "resource" /\ due /\ due' = FALSE /\ alive' = FALSE
  /\ ~state.error /\ state.data # <<>>
  /\ \E n \in 1..Len(UsedKeys(state.data)) :
       LET keys == UsedKeys(state.data)
           placed[i \in 0..Len(keys)] ==
             IF i = 0 THEN clearSlot(children) ELSE Place(placed[i - 1], i, Row(keys[i], changes))
       IN keys[n] \notin KeysOf(children) /\ children' = placed[n - 1]
  /\ bound' = KeysOf(children')
  /\ UNCHANGED <<view, state, changes, disposed>>

(* zen-auth-view *)

SlotOf(signedIn) == IF signedIn THEN "authenticated" ELSE "guest"

\* Faulty variant: the other slot is left to the effects of its own.
KeepsEnded(slot) == bound \cup {slot}

EndsOther(slot) == {slot}

renderSlot(slot) ==
  IF slot \in bound THEN UNCHANGED <<children, bound>>
  ELSE children' = <<Node(slot, 0, 0, FALSE)>> /\ bound' = EndsOther(slot)

AuthEffect ==
  /\ view = "auth" /\ due /\ due' = FALSE /\ renderSlot(SlotOf(state))
  /\ UNCHANGED <<view, state, changes, alive, disposed>>

\* The element was emptied before the slot was bound.
AuthEffectThrows ==
  /\ view = "auth" /\ due /\ due' = FALSE /\ alive' = FALSE
  /\ SlotOf(state) \notin bound /\ children' = <<>> /\ bound' = {}
  /\ UNCHANGED <<view, state, changes, disposed>>

Dispose ==
  /\ ~disposed /\ disposed' = TRUE /\ alive' = FALSE /\ due' = FALSE /\ bound' = {}
  /\ children' = (IF view = "auth" THEN <<>> ELSE clearItems(clearSlot(children)))
  /\ UNCHANGED <<view, state, changes>>

Next ==
  \/ SignalChanges \/ ResourceEffect \/ ResourceEffectThrows \/ AuthEffect \/ AuthEffectThrows \/ Dispose

Spec == Init /\ [][Next]_vars

------------------------------------------------------------------------------
(* What is checked *)

\* When the effect has run, the rows are the items, each key once and in the list's order and
\* before anything else; a session's view has just the slot of the session, with its bindings.
ViewFollowsSignal ==
  alive /\ ~due =>
    /\ view = "resource" /\ ~state.error /\ state.fetched =>
         LET rows == RowsOf(children) keys == UsedKeys(state.data)
         IN /\ Len(rows) = Len(keys) /\ \A i \in 1..Len(keys) : rows[i] = Row(keys[i], changes)
            /\ \A i \in 1..Len(rows) : IsRow(children[i])
    /\ view = "auth" => /\ Len(children) = 1 /\ children[1].kind = SlotOf(state)
                        /\ bound = {SlotOf(state)}

\* A button retries only while the error is what the view is about, bindings run for the rows
\* there are, and none of either after the view was disposed, even if a part has thrown.
NothingIsLeftBehind ==
  /\ \A i \in 1..Len(children) : children[i].retries => i = Len(children) /\ ~disposed
  /\ alive /\ ~due /\ view = "resource" /\ ~state.error => \A i \in 1..Len(children) : ~children[i].retries
  /\ disposed => bound = {} /\ RowsOf(children) = <<>>

------------------------------------------------------------------------------
(***************************************************************************)
(* Second part, with a state of its own: createDataTable of packages/data- *)
(* table: rows, two columns to sort and filter by, pages, selection and    *)
(* the cell that is edited.  The filtered rows, the pages and their number *)
(* are computeds, which are as of the last flush, and the methods read     *)
(* them.                                                                   *)
(***************************************************************************)

CONSTANTS
  Tables,   \* the lists of rows [id, a, b] that setData is given; 0 is null
  Sizes,    \* page sizes
  Multi,    \* sorting.multiColumn
  MaxCalls  \* bound: calls of the methods

VARIABLES
  data, sortState, columnFilters, globalSearch, currentPage, pageSize, selectedRows,
  editingCell,  \* the row whose cell is edited, or 0
  saving,       \* calls of onSave under way
  cached,       \* the computeds: [filteredData, totalPages, pageData]
  fresh,        \* nothing has changed since they were computed
  calls,
  passed        \* what was set past the computeds: "page" and "selection"

tableVars == <<data, sortState, columnFilters, globalSearch, currentPage, pageSize, selectedRows,
          editingCell, saving, cached, fresh, calls, passed>>

Columns == {"a", "b"}
Rows == UNION {ToSet(t) : t \in Tables}
IdsOf(rows) == {rows[i].id : i \in 1..Len(rows)}
Cells == UNION {{r.a, r.b} : r \in Rows}

TableTypeOK ==
  /\ IdsOf(data) \subseteq IdsOf(SetToSeq(Rows)) /\ \A i \in 1..Len(data) : {data[i].a, data[i].b} \subseteq Cells
  /\ \A i \in 1..Len(sortState) : sortState[i].key \in Columns /\ sortState[i].direction \in {"asc", "desc"}
  /\ columnFilters \in [Columns -> Cells] /\ globalSearch \in Cells
  /\ currentPage \in Nat \ {0} /\ pageSize \in Sizes /\ selectedRows \subseteq IdsOf(SetToSeq(Rows))
  /\ {editingCell, saving, calls} \subseteq Nat /\ fresh \in BOOLEAN /\ passed \subseteq {"page", "selection"}
  /\ cached.totalPages \in Nat \ {0} /\ Len(cached.pageData) <= Len(cached.filteredData)

Value(row, key) == IF key = "a" THEN row.a ELSE row.b

\* Null comes first.
compareValues(x, y) == x - y

\* The first column that tells two rows apart decides.
Before(x, y) ==
  \E i \in 1..Len(sortState) :
    LET k == sortState[i].key
        c == compareValues(Value(x, k), Value(y, k))
    IN /\ IF sortState[i].direction = "asc" THEN c < 0 ELSE c > 0
       /\ \A j \in 1..(i - 1) : Value(x, sortState[j].key) = Value(y, sortState[j].key)

\* 0: nothing is looked for.
Passes(row) ==
  /\ globalSearch # 0 => globalSearch \in {row.a, row.b}
  /\ \A k \in Columns : columnFilters[k] # 0 => Value(row, k) = columnFilters[k]

\* Faulty variant: rows that are alike come in the other order.
InsertBehind(row, rows) ==
  LET n == Cardinality({i \in 1..Len(rows) : Before(rows[i], row)})
  IN InsertAt(rows, n + 1, row)

\* The sort is stable: behind the rows that come before it or are alike.
Insert(row, rows) ==
  LET n == Cardinality({i \in 1..Len(rows) : ~Before(row, rows[i])})
  IN InsertAt(rows, n + 1, row)

filteredData ==
  LET kept == SelectSeq(data, Passes)
      sorted[n \in 0..Len(kept)] == IF n = 0 THEN <<>> ELSE Insert(kept[n], sorted[n - 1])
  IN sorted[Len(kept)]

Above(n, m) == IF n > m THEN n ELSE m
Below(n, m) == IF n < m THEN n ELSE m

\* Faulty variant: no rows, no page.
PagesNeeded(n) == (n + pageSize - 1) \div pageSize

\* totalPages
Pages(n) == Above(1, (n + pageSize - 1) \div pageSize)

Page(rows, k) == SubSeq(rows, (k - 1) * pageSize + 1, Below(Len(rows), k * pageSize))

Computed ==
  [filteredData |-> filteredData, totalPages |-> Pages(Len(filteredData)),
   pageData |-> Page(filteredData, currentPage)]

TableInit ==
  /\ data \in Tables /\ sortState = <<>> /\ columnFilters = [k \in Columns |-> 0] /\ globalSearch = 0
  /\ currentPage = 1 /\ pageSize \in Sizes /\ selectedRows = {} /\ editingCell = 0 /\ saving = 0
  /\ cached = Computed /\ fresh = TRUE /\ calls = 0 /\ passed = {}

Flush ==
  /\ ~fresh /\ fresh' = TRUE /\ cached' = Computed
  /\ UNCHANGED <<data, sortState, columnFilters, globalSearch, currentPage, pageSize, selectedRows, editingCell,
                 saving, calls, passed>>

Call == calls < MaxCalls /\ calls' = calls + 1 /\ fresh' = FALSE /\ UNCHANGED <<cached, saving>>

\* The page is the first again; the selection stays, of rows that may be gone.
setData(t) ==
  /\ Call /\ data' = t /\ currentPage' = 1
  /\ passed' = (passed \ {"page"}) \cup {"selection"}
  /\ UNCHANGED <<sortState, columnFilters, globalSearch, pageSize, selectedRows, editingCell>>

\* Rows that go or change, and a search set in its signal, leave the page where it is.
Changed(id, v) == [i \in 1..Len(data) |-> IF data[i].id = id THEN [data[i] EXCEPT !.a = v] ELSE data[i]]

updateRow(id, v) ==
  /\ Call /\ data' = Changed(id, v) /\ passed' = passed \cup {"page"}
  /\ UNCHANGED <<sortState, columnFilters, globalSearch, currentPage, pageSize, selectedRows, editingCell>>

\* Faulty variant: the rows go, their keys stay selected.
StillSelected(id) == selectedRows

Deselected(id) == selectedRows \ {id}

removeRows(id) ==
  LET Stays(r) == r.id # id
  IN /\ Call /\ data' = SelectSeq(data, Stays) /\ selectedRows' = Deselected(id)
     /\ passed' = passed \cup {"page"}
     /\ UNCHANGED <<sortState, columnFilters, globalSearch, currentPage, pageSize, editingCell>>

appendRows(r) ==
  /\ r.id \notin IdsOf(data) /\ Call /\ data' = Append(data, r)
  /\ UNCHANGED <<sortState, columnFilters, globalSearch, currentPage, pageSize, selectedRows, editingCell, passed>>

\* Ascending, descending, not at all; without several columns, of this column alone.
Cycled(key) ==
  LET IsOther(s) == s.key # key
      rest == IF Multi THEN SelectSeq(sortState, IsOther) ELSE <<>>
      is(d) == \E i \in 1..Len(sortState) : sortState[i] = [key |-> key, direction |-> d]
  IN IF is("desc") THEN rest ELSE Append(rest, [key |-> key, direction |-> IF is("asc") THEN "desc" ELSE "asc"])

sort(key) ==
  /\ Call /\ sortState' = Cycled(key)
  /\ UNCHANGED <<data, columnFilters, globalSearch, currentPage, pageSize, selectedRows, editingCell, passed>>

setColumnFilter(key, v) ==
  /\ Call /\ columnFilters' = [columnFilters EXCEPT ![key] = v] /\ currentPage' = 1 /\ passed' = passed \ {"page"}
  /\ UNCHANGED <<data, sortState, globalSearch, pageSize, selectedRows, editingCell>>

Search(v) ==
  /\ Call /\ globalSearch' = v /\ passed' = passed \cup {"page"}
  /\ UNCHANGED <<data, sortState, columnFilters, currentPage, pageSize, selectedRows, editingCell>>

setPageSize(n) ==
  /\ Call /\ pageSize' = n /\ currentPage' = 1 /\ passed' = passed \ {"page"}
  /\ UNCHANGED <<data, sortState, columnFilters, globalSearch, selectedRows, editingCell>>

\* Between the first page and the last there was at the last flush.
goToPage(k) ==
  /\ Call /\ currentPage' = Above(1, Below(k, cached.totalPages))
  /\ passed' = IF fresh THEN passed \ {"page"} ELSE passed \cup {"page"}
  /\ UNCHANGED <<data, sortState, columnFilters, globalSearch, pageSize, selectedRows, editingCell>>

toggleRowSelection(id) ==
  /\ id \in IdsOf(data) /\ Call
  /\ selectedRows' = IF id \in selectedRows THEN selectedRows \ {id} ELSE selectedRows \cup {id}
  /\ UNCHANGED <<data, sortState, columnFilters, globalSearch, currentPage, pageSize, editingCell, passed>>

\* The rows of the page as it was at the last flush.
selectAll ==
  /\ Call /\ selectedRows' = IdsOf(cached.pageData)
  /\ passed' = IF fresh THEN passed \ {"selection"} ELSE passed \cup {"selection"}
  /\ UNCHANGED <<data, sortState, columnFilters, globalSearch, currentPage, pageSize, editingCell>>

startEditing(id) ==
  /\ Call /\ editingCell' = id
  /\ UNCHANGED <<data, sortState, columnFilters, globalSearch, currentPage, pageSize, selectedRows, passed>>

\* The row is changed at once; onSave is waited for if the row is there.
saveEditing(v) ==
  /\ editingCell # 0 /\ calls < MaxCalls /\ calls' = calls + 1 /\ fresh' = FALSE
  /\ data' = Changed(editingCell, v) /\ passed' = passed \cup {"page"}
  /\ IF editingCell \in IdsOf(data) THEN saving' = saving + 1 /\ UNCHANGED editingCell
     ELSE editingCell' = 0 /\ UNCHANGED saving
  /\ UNCHANGED <<sortState, columnFilters, globalSearch, currentPage, pageSize, selectedRows, cached>>

\* Whichever cell is edited by then.
Saved ==
  /\ saving > 0 /\ saving' = saving - 1 /\ editingCell' = 0
  /\ UNCHANGED <<data, sortState, columnFilters, globalSearch, currentPage, pageSize, selectedRows, cached, fresh,
                 calls, passed>>

TableNext ==
  \/ Flush \/ selectAll \/ Saved
  \/ \E t \in Tables : setData(t)
  \/ \E r \in Rows : appendRows(r) \/ removeRows(r.id) \/ toggleRowSelection(r.id) \/ startEditing(r.id)
  \/ \E v \in Cells : Search(v) \/ saveEditing(v)
  \/ \E r \in Rows, v \in Cells : updateRow(r.id, v)
  \/ \E k \in Columns : sort(k) \/ \E v \in Cells : setColumnFilter(k, v)
  \/ \E n \in Sizes : setPageSize(n)
  \/ \E k \in 1..3 : goToPage(k)

TableSpec == TableInit /\ [][TableNext]_tableVars

------------------------------------------------------------------------------
(* What is checked *)

\* After a flush the rows that pass are there once each, no row comes before one it belongs behind,
\* rows that are alike are in the order of the data, and each row is on one of the pages.
RowsAreSorted ==
  fresh =>
    LET rows == cached.filteredData
        at(r) == CHOOSE i \in 1..Len(data) : data[i] = r
    IN /\ ToSet(rows) = {r \in ToSet(data) : Passes(r)} /\ Len(rows) = Cardinality(ToSet(rows))
       /\ \A i, j \in 1..Len(rows) : i < j =>
            ~Before(rows[j], rows[i]) /\ (~Before(rows[i], rows[j]) => at(rows[i]) < at(rows[j]))
       /\ \A i \in 1..Len(rows) :
            Cardinality({k \in 1..cached.totalPages : rows[i] \in ToSet(Page(rows, k))}) = 1

\* The table is on a page it has, and only rows it has are selected, unless a method went by
\* computeds that were out of date or rows changed without a look at page and selection.
PageAndSelectionExist ==
  /\ fresh /\ "page" \notin passed => currentPage <= cached.totalPages
  /\ "selection" \notin passed => selectedRows \subseteq IdsOf(data)
=============================================================================
