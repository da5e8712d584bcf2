---------------------------- MODULE VirtualList ----------------------------
(***************************************************************************)
(* createVirtualList: of a long list only the items near the viewport are  *)
(* rendered, each at the sum of the sizes before it.  Sizes are estimated  *)
(* until an element has been measured.  And zen-virtual of the runtime,    *)
(* which makes the rows of its window anew whenever the window moves.      *)
(***************************************************************************)
EXTENDS Integers, FiniteSets, SequencesExt

CONSTANTS
  Orders,     \* the orders of items there are: sequences of what getItemKey computes, naturals
  Changing,   \* the key whose item may change
  Sizes,      \* what an element can measure
  Estimate,   \* the number given as itemSize
  Viewport,   \* clientHeight
  Resizings,  \* what clientHeight may become when the container of a createVirtualList is resized
  Overscan,
  RowLists    \* the lists of a zen-virtual

VARIABLES
  fixed,          \* itemSize is a number; FALSE: a function of the item
  items,          \* the signal: a sequence of items [key, value]
  rerun,          \* the effect over items is scheduled
  frame,          \* a frame was requested, by a scroll or a resize of the container
  viewport,       \* clientHeight of the container
  scroll,         \* scrollTop
  measurements,   \* key -> [size, item]: the measured size and measuredItems
  offsets,        \* where each item starts; empty when all sizes are the number
  totalSize,
  known,          \* lastListRef is items
  rendered,       \* key -> [index, value, offset] of each element
  disposed

vars == <<fixed, items, rerun, frame, viewport, scroll, measurements, offsets, totalSize, known, rendered, disposed>>

Keys == UNION {Range(o) : o \in Orders}
Item == [key : Keys, value : {0, 1}]
Lists == {[i \in DOMAIN o |-> [key |-> o[i], value |-> IF o[i] = Changing THEN v ELSE 0]] :
            o \in Orders, v \in {0, 1}}
Nothing == <<>>   \* the function with no key

Init ==
  /\ fixed \in BOOLEAN /\ items = <<>> /\ rerun = FALSE /\ frame = FALSE /\ viewport = Viewport /\ scroll = 0
  /\ measurements = Nothing /\ offsets = <<>> /\ totalSize = 0 /\ known = TRUE
  /\ rendered = Nothing /\ disposed = FALSE

Keep(f, S) == [k \in DOMAIN f \cap S |-> f[k]]

\* A measurement stays as long as its key is in the list with the item that was measured.
\* Faulty variant: it stays as long as the key does.
syncedByKey(m, list) == Keep(m, {list[i].key : i \in DOMAIN list})
synced(m, list) ==
  Keep(m, {k \in DOMAIN m : \E i \in DOMAIN list : list[i].key = k /\ list[i] = m[k].item})

AllEstimated(m) == fixed /\ DOMAIN m = {}
sizeAt(m, list, i) ==
  LET k == list[i].key
  IN IF k \in DOMAIN m THEN m[k].size ELSE IF fixed THEN Estimate ELSE k
Sum(m, list, n) ==
  LET sum[i \in 0..n] == IF i = 0 THEN 0 ELSE sum[i - 1] + sizeAt(m, list, i)
  IN sum[n]

\* rebuildOffsets: nothing happens when the list is the one before and no size has changed.
Rebuilt(m, dirty) ==
  IF known /\ ~dirty THEN [m |-> m, offsets |-> offsets, total |-> totalSize]
  ELSE LET now == synced(m, items)
       IN [m |-> now, total |-> Sum(now, items, Len(items)),
           offsets |-> IF AllEstimated(now) THEN <<>> ELSE [i \in DOMAIN items |-> Sum(now, items, i - 1)]]

offsetAt(r, i) == IF AllEstimated(r.m) THEN (i - 1) * Estimate ELSE r.offsets[i]

AtLeast0(n) == IF n < 0 THEN 0 ELSE n
AtMost(n, most) == IF n > most THEN most ELSE n

\* A binary search for the last item that starts at or before offset.
\* Faulty variant: the middle is rounded down, and an item that starts there is passed over.
findIndexEarlier(r, offset) ==
  LET search[low \in 1..Len(items), high \in 0..Len(items)] ==
        IF low >= high THEN low
        ELSE LET middle == (low + high) \div 2
             IN IF offsetAt(r, middle) < offset THEN search[middle + 1, high] ELSE search[low, middle]
  IN IF items = <<>> \/ offset <= 0 THEN 1 ELSE search[1, Len(items)]
findIndexAtOffset(r, offset) ==
  LET search[low \in 1..Len(items), high \in 1..Len(items)] ==
        IF low >= high THEN low
        ELSE LET middle == (low + high + 1) \div 2
             IN IF offsetAt(r, middle) <= offset THEN search[middle, high] ELSE search[low, middle - 1]
  IN IF items = <<>> \/ offset <= 0 THEN 1
     ELSE IF AllEstimated(r.m) THEN AtMost(1 + offset \div Estimate, Len(items))
     ELSE search[1, Len(items)]

\* update with the scroll position at: the browser moves it into the new size of the spacer
\* before it is read, then the window is computed and rendered.
update(m, dirty, at) ==
  LET r     == Rebuilt(m, dirty)
      top   == AtMost(AtLeast0(at), AtLeast0(r.total - viewport))
      first == AtLeast0(findIndexAtOffset(r, top) - 1 - Overscan) + 1
      end   == AtMost(findIndexAtOffset(r, top + viewport) + Overscan, Len(items))
  IN /\ measurements' = r.m /\ offsets' = r.offsets /\ totalSize' = r.total /\ known' = TRUE
     /\ scroll' = top
     /\ rendered' = [k \in {items[i].key : i \in first..end} |->
                       LET i == CHOOSE i \in first..end : items[i].key = k
                       IN [index |-> i, value |-> items[i].value, offset |-> offsetAt(r, i)]]

\* The application sets the list; the effect runs later.
SetItems(list) ==
  /\ items' = list /\ known' = FALSE /\ rerun' = TRUE
  /\ UNCHANGED <<fixed, viewport, frame, scroll, measurements, offsets, totalSize, rendered, disposed>>

Rerun ==
  /\ rerun /\ rerun' = FALSE /\ update(measurements, FALSE, scroll)
  /\ UNCHANGED <<fixed, items, viewport, frame, disposed>>

\* Effects run before the browser takes its next task: a scroll, a frame or a measurement.
Scroll(to) ==
  /\ ~rerun
  /\ scroll' = AtMost(to, AtLeast0(totalSize - viewport)) /\ frame' = TRUE
  /\ UNCHANGED <<fixed, items, viewport, rerun, measurements, offsets, totalSize, known, rendered, disposed>>
\* The container gets another height, and the browser keeps the scroll position within it.
ContainerResized(height) ==
  /\ ~rerun /\ height # viewport /\ viewport' = height /\ frame' = TRUE
  /\ scroll' = AtMost(scroll, AtLeast0(totalSize - height))
  /\ UNCHANGED <<fixed, items, rerun, measurements, offsets, totalSize, known, rendered, disposed>>
Frame ==
  /\ ~rerun /\ frame /\ frame' = FALSE /\ update(measurements, FALSE, scroll)
  /\ UNCHANGED <<fixed, items, viewport, rerun, disposed>>
Resized(k, size) ==
  /\ ~rerun /\ k \in DOMAIN rendered /\ rendered[k].index <= Len(items)
  /\ LET item == items[rendered[k].index]
     IN /\ item.key \in DOMAIN measurements => measurements[item.key].size # size
        /\ update((item.key :> [size |-> size, item |-> item]) @@ measurements, TRUE, scroll)
  /\ UNCHANGED <<fixed, items, viewport, rerun, frame, disposed>>

\* Methods, which may be called when the list was set and the effect has not run yet.
scrollToOffset(to) ==
  /\ update(measurements, FALSE, AtMost(AtLeast0(to), AtLeast0(totalSize - viewport)))
  /\ UNCHANGED <<fixed, items, viewport, rerun, frame, disposed>>
scrollToIndex(i, align) ==
  LET r  == Rebuilt(measurements, FALSE)
      to == offsetAt(r, i) - (IF align = "end" THEN viewport - sizeAt(r.m, items, i) ELSE 0)
  IN /\ update(measurements, FALSE, AtMost(AtLeast0(to), AtLeast0(r.total - viewport)))
     /\ UNCHANGED <<fixed, items, viewport, rerun, frame, disposed>>
invalidateMeasurements(ks) ==
  /\ update(Keep(measurements, Keys \ ks), TRUE, scroll)
  /\ UNCHANGED <<fixed, items, viewport, rerun, frame, disposed>>
remeasure(size) ==
  LET measured == {k \in DOMAIN rendered : rendered[k].index <= Len(items)}
  IN /\ update([k \in measured |-> [size |-> size[k], item |-> items[rendered[k].index]]], TRUE, scroll)
     /\ UNCHANGED <<fixed, items, viewport, rerun, frame, disposed>>

dispose ==
  /\ disposed' = TRUE /\ rerun' = FALSE /\ frame' = FALSE
  /\ rendered' = Nothing /\ measurements' = Nothing
  /\ UNCHANGED <<fixed, items, viewport, scroll, offsets, totalSize, known>>

Next ==
  /\ ~disposed
  /\ \/ \E list \in Lists : SetItems(list)
     \/ Rerun \/ Frame \/ dispose
     \/ \E height \in Resizings : ContainerResized(height)
     \/ \E to \in 0..totalSize : Scroll(to) \/ scrollToOffset(to)
     \/ \E k \in Keys, size \in Sizes : Resized(k, size)
     \/ \E i \in DOMAIN items, align \in {"start", "end"} : scrollToIndex(i, align)
     \/ \E ks \in {{k} : k \in Keys} \cup {Keys} : invalidateMeasurements(ks)
     \/ \E size \in [DOMAIN rendered -> Sizes] : remeasure(size)

Spec == Init /\ [][Next]_vars

------------------------------------------------------------------------------
\* The variables keep their types.
TypeOK ==
  /\ items \in Lists /\ viewport \in Resizings \cup {Viewport} /\ {fixed, rerun, frame, known, disposed} \subseteq BOOLEAN
  /\ scroll \in Nat /\ totalSize \in Nat /\ \A i \in DOMAIN offsets : offsets[i] \in Nat
  /\ \A k \in DOMAIN measurements : k \in Keys /\ measurements[k] \in [size : Sizes, item : Item]

Settled == ~rerun /\ ~frame /\ ~disposed

\* When nothing is due, every item that reaches into the viewport is rendered with its own
\* value, where the sizes before it end, and the spacer is as long as all sizes together:
\* after measurements, items that changed, came, went and moved, resizes of the container and
\* scrolls beyond an end.
WindowShowsItems ==
  Settled =>
    /\ totalSize = Sum(measurements, items, Len(items))
    /\ \A i \in DOMAIN items :
         LET from == Sum(measurements, items, i - 1)
             k    == items[i].key
         IN /\ from < scroll + viewport /\ Sum(measurements, items, i) > scroll => k \in DOMAIN rendered
            /\ k \in DOMAIN rendered => rendered[k] = [index |-> i, value |-> items[i].value, offset |-> from]
    /\ DOMAIN rendered \subseteq {items[i].key : i \in DOMAIN items}
    /\ rendered # Nothing \/ items = <<>>

\* A size that counts was measured on the element of an item that is still the same.
MeasuredItemsAreCurrent ==
  Settled => \A k \in DOMAIN measurements : \E i \in DOMAIN items : items[i].key = k /\ items[i] = measurements[k].item

------------------------------------------------------------------------------
(* zen-virtual outside of tables.  (In a table the rows are appended to the row taken out.) *)

VARIABLES
  dynamic,     \* zen-dynamic-heights
  listed,      \* the signal of the list, and currentItems once the effect has run
  due,         \* the effect over it is scheduled
  top,         \* scrollTop
  event,       \* a scroll event is due
  heights,     \* of the items, by their place in the list
  window,      \* currentStart, counted from 0, and currentEnd
  rows,        \* the elements in the content: index and item
  spacers,     \* the heights set for the elements above and below it
  followed,    \* a scroll event has been handled since the effect ran
  gone         \* disposed

repeatVars == <<dynamic, listed, due, top, event, heights, window, rows, spacers, followed, gone>>

RepeatInit ==
  /\ dynamic \in BOOLEAN /\ listed \in RowLists /\ due = TRUE /\ top = 0 /\ event = FALSE
  /\ heights = <<>> /\ window = [start |-> 0, end |-> 0] /\ rows = <<>>
  /\ spacers = [above |-> 0, below |-> 0] /\ followed = FALSE /\ gone = FALSE

\* The heights of the places from..to; Estimate without zen-dynamic-heights.
HeightOf(hs, from, to) ==
  LET sum[i \in 0..to] == IF i < from THEN 0 ELSE sum[i - 1] + IF dynamic THEN hs[i] ELSE Estimate
  IN IF to < from THEN 0 ELSE sum[to]

\* Faulty variant: there are no more rows than fit when the first one is whole.
FittingCount == (Viewport + Estimate - 1) \div Estimate
visibleCount == (Viewport + Estimate - 1) \div Estimate + 2

\* Faulty variant: the spacers are as high as unmeasured rows.
spacersUnmeasured(start, end, hs) ==
  [above |-> start * Estimate, below |-> (Len(listed) - end) * Estimate]
spacersAround(start, end, hs) ==
  [above |-> HeightOf(hs, 1, start), below |-> HeightOf(hs, end + 1, Len(listed))]

\* renderSlice: all rows go, and those of the slice are made.  The browser keeps the scroll
\* position within the content, and tells of it when it had to move.
Slice(start, end, hs) ==
  LET most == AtLeast0(HeightOf(hs, 1, Len(listed)) - Viewport)
  IN /\ rows' = [i \in 1..(end - start) |-> [index |-> start + i, item |-> listed[start + i]]]
     /\ spacers' = spacersAround(start, end, hs)
     /\ top' = AtMost(top, most)

\* Faulty variant: the window stays what the scroll event before had made it.
WindowKept(end) == IF followed THEN window ELSE [start |-> 0, end |-> end]

\* What the effect leaves in currentStart and currentEnd.
WindowReset(end) == [start |-> 0, end |-> end]

\* The effect: heights of another number are forgotten, and the first slice is rendered,
\* wherever the viewport is.
RepeatEffect ==
  LET hs  == IF Len(heights) # Len(listed) THEN [i \in DOMAIN listed |-> Estimate] ELSE heights
      end == AtMost(visibleCount, Len(listed))
  IN /\ due /\ due' = FALSE /\ heights' = hs /\ window' = WindowReset(end) /\ followed' = FALSE
     /\ Slice(0, end, hs) /\ event' = (event \/ top' # top)
     /\ UNCHANGED <<dynamic, listed, gone>>

SetList(l) ==
  /\ listed' = l /\ due' = TRUE
  /\ UNCHANGED <<dynamic, top, event, heights, window, rows, spacers, followed, gone>>

RepeatScroll(to) ==
  /\ ~due /\ to <= AtLeast0(HeightOf(heights, 1, Len(listed)) - Viewport) /\ to # top
  /\ top' = to /\ event' = TRUE
  /\ UNCHANGED <<dynamic, listed, due, heights, window, rows, spacers, followed, gone>>

\* The number of rows that end above the viewport.
StartAt ==
  IF ~dynamic THEN top \div Estimate
  ELSE Cardinality({i \in DOMAIN listed : HeightOf(heights, 1, i) < top})

onScroll ==
  LET start == StartAt
      end   == AtMost(start + visibleCount, Len(listed))
      moved == window # [start |-> start, end |-> end]
  IN /\ ~due /\ event /\ followed' = TRUE
     /\ IF listed = <<>> \/ ~moved THEN event' = FALSE /\ UNCHANGED <<top, window, rows, spacers>>
        ELSE window' = [start |-> start, end |-> end] /\ Slice(start, end, heights) /\ event' = (top' # top)
     /\ UNCHANGED <<dynamic, listed, due, heights, gone>>

\* The ResizeObserver tells of a row in the content.
RowMeasured(i, size) ==
  /\ ~due /\ dynamic /\ \E r \in DOMAIN rows : rows[r].index = i
  /\ heights[i] # size /\ heights' = [heights EXCEPT ![i] = size]
  /\ top' = AtMost(top, AtLeast0(HeightOf(heights', 1, Len(listed)) - Viewport))
  /\ event' = (event \/ top' # top)
  /\ UNCHANGED <<dynamic, listed, due, window, rows, spacers, followed, gone>>

RepeatDispose ==
  /\ gone' = TRUE /\ rows' = <<>> /\ due' = FALSE /\ event' = FALSE
  /\ UNCHANGED <<dynamic, listed, top, heights, window, spacers, followed>>

RepeatNext ==
  /\ ~gone
  /\ \/ \E l \in RowLists : SetList(l)
     \/ RepeatEffect \/ onScroll \/ RepeatDispose
     \/ \E to \in 0..(2 * Estimate * Len(listed)) : RepeatScroll(to)
     \/ \E i \in DOMAIN listed, size \in Sizes \cup {Estimate} : RowMeasured(i, size)

RepeatSpec == RepeatInit /\ [][RepeatNext]_repeatVars

RepeatTypeOK ==
  /\ {dynamic, due, event, followed, gone} \subseteq BOOLEAN /\ listed \in RowLists /\ top \in Nat
  /\ \A i \in DOMAIN heights : heights[i] \in Sizes \cup {Estimate}
  /\ window \in [start : Nat, end : Nat] /\ spacers \in [above : Nat, below : Nat]

\* Between lists, the rows in the page are the items of the window, in order, each once, and the
\* spacers stand for exactly the rows that are not there, whatever was measured meanwhile.
RowsAndSpacersFit ==
  ~due /\ ~gone =>
    /\ rows = [i \in 1..(window.end - window.start) |->
                 [index |-> window.start + i, item |-> listed[window.start + i]]]
    /\ spacers = [above |-> HeightOf(heights, 1, window.start),
                  below |-> HeightOf(heights, window.end + 1, Len(listed))]

\* When a scroll event was handled for this list and none is due, every item that reaches into
\* the viewport has its row, for rows that are at least as high as data-item-height says and
\* at most twice as high.
ViewportIsFilled ==
  followed /\ ~due /\ ~event /\ ~gone =>
    \A i \in DOMAIN listed :
      HeightOf(heights, 1, i - 1) < top + Viewport /\ HeightOf(heights, 1, i) > top
        => \E r \in DOMAIN rows : rows[r].index = i
=============================================================================
