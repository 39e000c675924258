------------------------------ MODULE ScoreHeap ------------------------------
(***************************************************************************)
(* A heap in the hands of a user who may push, pop and rescore whatever is *)
(* allowed, as the decision heap and the schedules of the preprocessors    *)
(* do, on more elements than Decide can afford.                            *)
(***************************************************************************)
EXTENDS Heap

CONSTANTS
  Indices,    \* the indices that may be on the heap
  MaxScore    \* the largest score

ASSUME ScoreAssumption == MaxScore \in Nat

VARIABLE heap

Init == heap = [stack |-> <<>>, score |-> [i \in Indices |-> 0]]

Push(i) == ~HeapContains(heap, i) /\ heap' = PushHeap(heap, i)

Pop(i) == HeapContains(heap, i) /\ heap' = PopHeap(heap, i)

PopMax == heap.stack # <<>> /\ heap' = PopMaxHeap(heap)

Update(i, score) == heap' = UpdateHeap(heap, i, score)

(* The factor is 1 / 2. *)
Rescale == heap' = RescaleHeap(heap, 1, 2)

Next ==
  \/ \E i \in Indices : \/ Push(i)
                        \/ Pop(i)
                        \/ \E score \in 0..MaxScore : Update(i, score)
  \/ PopMax
  \/ Rescale

Spec == Init /\ [][Next]_heap

-----------------------------------------------------------------------------
(***************************************************************************)
(* AlwaysOrdered: no sequence of pushes, pops, changed and rescaled scores *)
(* leaves an element above a larger one (kissat_check_heap).  The element  *)
(* that kissat_pop_heap puts into the hole may have to move up.            *)
(***************************************************************************)
AlwaysOrdered == HeapOrdered(heap)

Contents(h) == ToSet(h.stack)

(***************************************************************************)
(* LosesOnlyTheMaximum: kissat_pop_max_heap takes exactly one element off  *)
(* the heap, and no other one has a larger score (CHECK_HEAP in decide.c). *)
(***************************************************************************)
LosesOnlyTheMaximum ==
  [][PopMax => \E i \in Contents(heap) :
                 /\ Contents(heap') = Contents(heap) \ {i}
                 /\ \A j \in Contents(heap) : heap.score[j] <= heap.score[i]]_heap

(* The indices are interchangeable for TLC. *)
Symmetry == Permutations(Indices)
=============================================================================
