--------------------------------- MODULE Heap ---------------------------------
(***************************************************************************)
(* The binary heap of heap.c and inlineheap.h: 'stack' holds the contained *)
(* indices, the element at C position p being stack[p + 1], and 'score'    *)
(* the score of every index, contained or not.  'pos' in the code is the   *)
(* inverse of 'stack'.  Scores are integers here, doubles in the code;     *)
(* what matters is that they are compared, added and scaled down by a      *)
(* monotone function that may make two of them equal.                      *)
(***************************************************************************)
EXTENDS Integers, Sequences, SequencesExt

HeapContains(h, idx) == idx \in ToSet(h.stack)

HEAP_PARENT(p) == p \div 2

HEAP_CHILD(p) == 2 * p

Pos(h, idx) == CHOOSE p \in DOMAIN h.stack : h.stack[p] = idx

ScoreAt(h, p) == h.score[h.stack[p]]

MaxHeap(h) == h.stack[1]

(***************************************************************************)
(* kissat_bubble_up: the elements on the way up to the first ancestor with *)
(* a score at least as large move one place down.                          *)
(***************************************************************************)
StopsUp(h, idx, p) == p = 1 \/ ScoreAt(h, HEAP_PARENT(p)) >= h.score[idx]

WayUp(h, idx) ==
  LET way[p \in DOMAIN h.stack] ==
        {p} \cup (IF StopsUp(h, idx, p) THEN {} ELSE way[HEAP_PARENT(p)])
  IN  way[Pos(h, idx)]

BubbleUp(h, idx) ==
  LET way == WayUp(h, idx)
  IN  [h EXCEPT !.stack = [p \in DOMAIN @ |->
         IF p \notin way THEN @[p]
         ELSE IF StopsUp(h, idx, p) THEN idx ELSE @[HEAP_PARENT(p)]]]

(* Mutant of LargerChild: the sibling is not looked at. *)
FirstChild(h, p) == HEAP_CHILD(p)

(* The child with the larger score; the first one if they are equal. *)
LargerChild(h, p) ==
  LET child   == HEAP_CHILD(p)
      sibling == child + 1
  IN  IF sibling <= Len(h.stack) /\ ScoreAt(h, sibling) > ScoreAt(h, child)
      THEN sibling ELSE child

(***************************************************************************)
(* kissat_bubble_down: the elements on the way down along the larger child *)
(* move one place up.                                                      *)
(***************************************************************************)
StopsDown(h, idx, p) ==
  \/ HEAP_CHILD(p) > Len(h.stack)
  \/ ScoreAt(h, LargerChild(h, p)) <= h.score[idx]

WayDown(h, idx) ==
  LET way[p \in DOMAIN h.stack] ==
        {p} \cup (IF StopsDown(h, idx, p) THEN {} ELSE way[LargerChild(h, p)])
  IN  way[Pos(h, idx)]

BubbleDown(h, idx) ==
  LET way == WayDown(h, idx)
  IN  [h EXCEPT !.stack = [p \in DOMAIN @ |->
         IF p \notin way THEN @[p]
         ELSE IF StopsDown(h, idx, p) THEN idx ELSE @[LargerChild(h, p)]]]

PushHeap(h, idx) == BubbleUp([h EXCEPT !.stack = Append(@, idx)], idx)

(* The last element takes the place of idx. *)
Replace(h, idx) ==
  LET last == Last(h.stack)
  IN  [h EXCEPT !.stack = [p \in 1..(Len(@) - 1) |->
                             IF @[p] = idx THEN last ELSE @[p]]]

(* Mutant of PopHeap: the element that takes the place only moves down. *)
PopHeapDownOnly(h, idx) ==
  IF Last(h.stack) = idx THEN Replace(h, idx)
  ELSE BubbleDown(Replace(h, idx), Last(h.stack))

(* kissat_pop_heap. *)
PopHeap(h, idx) ==
  IF Last(h.stack) = idx THEN Replace(h, idx)
  ELSE BubbleDown(BubbleUp(Replace(h, idx), Last(h.stack)), Last(h.stack))

(* kissat_pop_max_heap. *)
PopMaxHeap(h) ==
  IF Len(h.stack) = 1 THEN Replace(h, MaxHeap(h))
  ELSE BubbleDown(Replace(h, MaxHeap(h)), Last(h.stack))

(* Mutant of UpdateHeap: the element stays where it is. *)
UpdateHeapInPlace(h, idx, newScore) == [h EXCEPT !.score[idx] = newScore]

(* kissat_update_heap. *)
UpdateHeap(h, idx, newScore) ==
  LET updated == [h EXCEPT !.score[idx] = newScore]
  IN  IF ~HeapContains(h, idx) \/ newScore = h.score[idx] THEN updated
      ELSE IF newScore > h.score[idx] THEN BubbleUp(updated, idx)
      ELSE BubbleDown(updated, idx)

(* kissat_check_heap: no element twice, none larger than its parent. *)
HeapOrdered(h) ==
  /\ IsInjective(h.stack)
  /\ \A p \in 2..Len(h.stack) : ScoreAt(h, p) <= ScoreAt(h, HEAP_PARENT(p))

(* kissat_max_score_on_heap: over all indices, contained or not. *)
MaxScoreOnHeap(h) ==
  LET all == {h.score[v] : v \in DOMAIN h.score}
  IN  CHOOSE s \in all : \A t \in all : t <= s

(* kissat_rescale_heap with factor unit / rescale. *)
RescaleHeap(h, unit, rescale) ==
  [h EXCEPT !.score = [v \in DOMAIN @ |-> (@[v] * unit) \div rescale]]

(* compact_scores: a new heap without the scores of what is dropped, filled in
   the order of the old stack. *)
CompactHeap(h, dropped) ==
  LET empty == [stack |-> <<>>,
                score |-> [v \in DOMAIN h.score |->
                             IF v \in dropped THEN 0 ELSE h.score[v]]]
  IN  FoldLeft(PushHeap, empty, h.stack)
=============================================================================
