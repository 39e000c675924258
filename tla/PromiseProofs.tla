----------------------------- MODULE PromiseProofs -----------------------------
(***************************************************************************)
(* What the score heap promises in the hands of any user (ScoreHeap).      *)
(***************************************************************************)
EXTENDS ScoreHeap, HeapProofs, TLAPS

-----------------------------------------------------------------------------
(***************************************************************************)
(* The heap stays ordered whatever its user does, for any indices and any  *)
(* scores.  HeapOrdered alone is inductive once the heap is known to hold  *)
(* indices only and every index to have a score.                           *)
(***************************************************************************)
(* The inductive invariant. *)
IInv == heap \in Heaps(Indices)

LEMMA Initially == Init => IInv
<1> SUFFICES ASSUME Init
             PROVE  IInv
  OBVIOUS
<1> DEFINE score == [i \in Indices |-> 0]
<1>1. score \in [Indices -> Nat]
  OBVIOUS
<1>2. heap = [stack |-> <<>>, score |-> score]
  BY DEF Init
<1> HIDE DEF score
<1> QED
  BY <1>1, <1>2, EmptyHeap DEF IInv

LEMMA Inductive == IInv /\ [Next]_heap => IInv'
<1> SUFFICES ASSUME IInv, [Next]_heap
             PROVE  IInv'
  OBVIOUS
<1> USE DEF IInv
<1>1. ASSUME NEW i \in Indices, Push(i)
      PROVE  IInv'
  BY <1>1, Pushed DEF Push
<1>2. ASSUME NEW i \in Indices, Pop(i)
      PROVE  IInv'
  BY <1>2, Popped DEF Pop
<1>3. ASSUME NEW i \in Indices, NEW score \in 0..MaxScore, Update(i, score)
      PROVE  IInv'
  <2>1. score \in Nat
    BY ScoreAssumption
  <2> QED
    BY <1>3, <2>1, Updated DEF Update
<1>4. CASE PopMax
  BY <1>4, PoppedMax DEF PopMax
<1>5. CASE Rescale
  <2>1. RescaleHeap(heap, 1, 2) \in Heaps(Indices)
    <3>1. 1 \in Nat /\ 2 \in Nat /\ 2 > 0
      OBVIOUS
    <3> QED
      BY ONLY <3>1, IInv, RescaledHeap DEF IInv
  <2> QED
    BY <1>5, <2>1 DEF Rescale
<1>6. CASE UNCHANGED heap
  BY <1>6
<1> QED
  BY <1>1, <1>2, <1>3, <1>4, <1>5, <1>6 DEF Next

LEMMA Invariant == Spec => []IInv
BY Initially, Inductive, PTL DEF Spec

(***************************************************************************)
(* No element of the heap is above a larger one (kissat_check_heap).       *)
(***************************************************************************)
THEOREM HeapStaysOrdered == Spec => []AlwaysOrdered
<1>1. IInv => AlwaysOrdered
  BY DEF IInv, AlwaysOrdered, Heaps
<1> QED
  BY <1>1, Invariant, PTL

(***************************************************************************)
(* kissat_pop_max_heap loses one element, and none is larger than that.    *)
(***************************************************************************)
THEOREM MaximumIsPopped == Spec => LosesOnlyTheMaximum
<1> DEFINE Largest == \E i \in Contents(heap) :
                        /\ Contents(heap') = Contents(heap) \ {i}
                        /\ \A j \in Contents(heap) : heap.score[j] <= heap.score[i]
<1>1. ASSUME IInv, PopMax
      PROVE  Largest
  <2> DEFINE max == MaxHeap(heap)
  <2>1. /\ max \in Contents(heap)
        /\ Contents(heap') = Contents(heap) \ {max}
        /\ \A j \in Contents(heap) : heap.score[j] <= heap.score[max]
    BY <1>1, PoppedMax DEF IInv, PopMax, Contents
  <2> HIDE DEF max
  <2> QED
    BY <2>1
<1>2. IInv => [PopMax => Largest]_heap
  BY <1>1
<1> QED
  BY <1>2, Invariant, PTL DEF LosesOnlyTheMaximum

=============================================================================
