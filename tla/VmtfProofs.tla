------------------------------ MODULE VmtfProofs ------------------------------
(***************************************************************************)
(* The move-to-front queue for any number of variables and stamps.         *)
(***************************************************************************)
EXTENDS Vmtf, FiniteSetTheorems, TLAPS

IInv == TypeOK /\ StampsOrder /\ SearchCached /\ SearchPointer

-----------------------------------------------------------------------------
(***************************************************************************)
(* The new stamps of kissat_reassign_queue_stamps are between 1 and the    *)
(* number of variables, and they keep the order.                           *)
(***************************************************************************)
LEMMA RankBounds ==
  ASSUME stamp \in [Vars -> Nat], NEW S \in SUBSET Vars, NEW u \in S
  PROVE  Rank(u, S) \in 1..Cardinality(S)
<1> DEFINE T == {w \in S : stamp[w] <= stamp[u]}
<1>1. IsFiniteSet(S) /\ Cardinality(S) \in Nat
  BY VarsAssumption, FS_Subset, FS_CardinalityType
<1>2. IsFiniteSet(T) /\ Cardinality(T) \in Nat /\ Cardinality(T) <= Cardinality(S)
  BY <1>1, FS_Subset, FS_CardinalityType
<1>3. u \in T
  OBVIOUS
<1>4. Cardinality(T) # 0
  BY <1>2, <1>3, FS_EmptySet
<1> QED
  BY <1>1, <1>2, <1>4 DEF Rank

LEMMA RankMonotone ==
  ASSUME stamp \in [Vars -> Nat], NEW S \in SUBSET Vars,
         NEW u \in S, NEW w \in S, stamp[u] < stamp[w]
  PROVE  Rank(u, S) < Rank(w, S)
<1> DEFINE T(x) == {y \in S : stamp[y] <= stamp[x]}
<1>1. IsFiniteSet(S)
  BY VarsAssumption, FS_Subset
<1>2. /\ IsFiniteSet(T(u)) /\ Cardinality(T(u)) \in Nat
      /\ IsFiniteSet(T(w)) /\ Cardinality(T(w)) \in Nat
  BY <1>1, FS_Subset, FS_CardinalityType
<1>3. T(u) \subseteq T(w) /\ w \in T(w) /\ w \notin T(u)
  OBVIOUS
<1>4. T(u) # T(w)
  BY <1>3
<1>5. Cardinality(T(u)) < Cardinality(T(w))
  BY <1>2, <1>3, <1>4, FS_Subset
<1> QED
  BY <1>5 DEF Rank

(***************************************************************************)
(* The fresh variables get stamps in the reverse order.                    *)
(***************************************************************************)
LEMMA RankFromLastBounds ==
  ASSUME stamp \in [Vars -> Nat], NEW S \in SUBSET Vars, NEW u \in S
  PROVE  RankFromLast(u, S) \in 1..Cardinality(S)
<1> DEFINE T == {w \in S : stamp[w] >= stamp[u]}
<1>1. IsFiniteSet(S) /\ Cardinality(S) \in Nat
  BY VarsAssumption, FS_Subset, FS_CardinalityType
<1>2. IsFiniteSet(T) /\ Cardinality(T) \in Nat /\ Cardinality(T) <= Cardinality(S)
  BY <1>1, FS_Subset, FS_CardinalityType
<1>3. u \in T
  OBVIOUS
<1>4. Cardinality(T) # 0
  BY <1>2, <1>3, FS_EmptySet
<1> QED
  BY <1>1, <1>2, <1>4 DEF RankFromLast

LEMMA RankFromLastMonotone ==
  ASSUME stamp \in [Vars -> Nat], NEW S \in SUBSET Vars,
         NEW u \in S, NEW w \in S, stamp[u] < stamp[w]
  PROVE  RankFromLast(w, S) < RankFromLast(u, S)
<1> DEFINE T(x) == {y \in S : stamp[y] >= stamp[x]}
<1>1. IsFiniteSet(S)
  BY VarsAssumption, FS_Subset
<1>2. /\ IsFiniteSet(T(u)) /\ Cardinality(T(u)) \in Nat
      /\ IsFiniteSet(T(w)) /\ Cardinality(T(w)) \in Nat
  BY <1>1, FS_Subset, FS_CardinalityType
<1>3. T(w) \subseteq T(u) /\ u \in T(u) /\ u \notin T(w)
  OBVIOUS
<1>4. T(u) # T(w)
  BY <1>3
<1>5. Cardinality(T(w)) < Cardinality(T(u))
  BY <1>2, <1>3, <1>4, FS_Subset
<1> QED
  BY <1>5 DEF RankFromLast

(***************************************************************************)
(* kissat_enqueue_links gives v the last stamp and keeps the order of the  *)
(* others, whether or not the stamps are used up.                          *)
(***************************************************************************)
LEMMA EnqueuedLast ==
  ASSUME TypeOK, StampsOrder, NEW v \in Vars, NEW at \in enqueued \cup {v},
         EnqueueLast(v, at)
  PROVE  /\ stamp' \in [Vars -> Nat]
         /\ last' \in 0..MaxStamp
         /\ stamp'[v] = last'
         /\ \A u \in enqueued \ {v} : stamp'[u] < last'
         /\ \A u, w \in enqueued \ {v} : stamp[u] < stamp[w] => stamp'[u] < stamp'[w]
         /\ search' = Position(at, stamp')
<1> DEFINE S == enqueued \ {v}
<1>1. S \in SUBSET Vars /\ stamp \in [Vars -> Nat] /\ last \in Nat /\ MaxStamp \in Nat
  BY StampAssumption DEF TypeOK
<1>2. IsFiniteSet(S) /\ Cardinality(S) \in Nat
  BY <1>1, VarsAssumption, FS_Subset, FS_CardinalityType
<1>3. search' = Position(at, stamp')
  BY DEF EnqueueLast
<1>4. CASE last # MaxStamp
  <2>1. stamp' = [stamp EXCEPT ![v] = last + 1] /\ last' = last + 1
    BY <1>4 DEF EnqueueLast
  <2>2. \A u \in S : stamp[u] <= last /\ stamp'[u] = stamp[u]
    BY <1>1, <2>1 DEF StampsOrder
  <2> QED
    BY <1>1, <1>3, <1>4, <2>1, <2>2 DEF TypeOK
<1>5. CASE last = MaxStamp
  <2>1. stamp' = Restamped(v, S) /\ last' = Cardinality(S) + 1
    BY <1>5 DEF EnqueueLast
  <2>2. \A u \in S : Rank(u, S) \in 1..Cardinality(S)
    BY <1>1, RankBounds
  <2>3. /\ stamp'[v] = Cardinality(S) + 1
        /\ \A u \in S : stamp'[u] = Rank(u, S)
        /\ stamp' \in [Vars -> Nat]
    <3> HIDE DEF S
    <3>1. stamp' = [u \in Vars |-> IF u = v THEN Cardinality(S) + 1
                                 ELSE IF u \in S THEN Rank(u, S) ELSE stamp[u]]
      BY <2>1 DEF Restamped
    <3>2. v \notin S
      BY DEF S
    <3>3. \A u \in S : Rank(u, S) \in Nat
      BY <1>2, <2>2
    <3>4. Cardinality(S) + 1 \in Nat
      BY <1>2
    <3> DEFINE f(u) == IF u = v THEN Cardinality(S) + 1
                       ELSE IF u \in S THEN Rank(u, S) ELSE stamp[u]
    <3>5. \A u \in Vars : f(u) \in Nat
      BY <1>1, <3>3, <3>4
    <3> QED
      BY <1>1, <3>1, <3>2, <3>5
  <2>4. \A u, w \in S : stamp[u] < stamp[w] => stamp'[u] < stamp'[w]
    BY <1>1, <2>3, RankMonotone
  <2>5. Cardinality(S) + 1 <= MaxStamp
    <3>1. S \subseteq Vars /\ v \in Vars \ S
      BY <1>1
    <3>2. Cardinality(S) < Cardinality(Vars) /\ Cardinality(Vars) \in Nat
      BY <3>1, VarsAssumption, FS_Subset, FS_CardinalityType
    <3> QED
      BY <1>1, <1>2, <3>2, StampAssumption
  <2>6. last' \in 0..MaxStamp /\ stamp'[v] = last'
    BY <1>1, <1>2, <2>1, <2>3, <2>5
  <2>7. \A u \in S : stamp'[u] < last'
    <3> HIDE DEF S
    <3> QED
      BY <1>2, <2>1, <2>2, <2>3
  <2> QED
    BY <1>3, <2>3, <2>4, <2>6, <2>7
<1> QED
  BY <1>4, <1>5

(***************************************************************************)
(* What EnqueuedLast means for the order of the whole queue.               *)
(***************************************************************************)
LEMMA StampsOrderKept ==
  ASSUME TypeOK, StampsOrder, NEW v \in Vars, NEW at \in enqueued \cup {v},
         EnqueueLast(v, at), enqueued' = enqueued \cup {v}
  PROVE  StampsOrder'
<1> DEFINE S == enqueued \ {v}
<1>1. /\ stamp' \in [Vars -> Nat] /\ last' \in Nat
      /\ stamp'[v] = last'
      /\ \A u \in S : stamp'[u] < last'
      /\ \A u, w \in S : stamp[u] < stamp[w] => stamp'[u] < stamp'[w]
  BY EnqueuedLast, StampAssumption
<1>2. S \subseteq Vars /\ stamp \in [Vars -> Nat]
  BY DEF TypeOK
<1>3. \A u \in enqueued' : u \in S \/ u = v
  OBVIOUS
<1>4. \A u \in enqueued' : stamp'[u] <= last'
  BY <1>1, <1>2, <1>3
<1>5. ASSUME NEW u \in enqueued', NEW w \in enqueued', stamp'[u] = stamp'[w]
      PROVE  u = w
  <2>1. CASE u \in S /\ w \in S
    <3>1. stamp[u] = stamp[w]
      BY <1>1, <1>2, <1>5, <2>1
    <3> QED
      BY <2>1, <3>1 DEF StampsOrder
  <2>2. CASE u = v \/ w = v
    BY <1>1, <1>2, <1>3, <1>5, <2>2
  <2> QED
    BY <1>3, <2>1, <2>2
<1> QED
  BY <1>4, <1>5 DEF StampsOrder

(***************************************************************************)
(* Unbumping gives the created variables the first stamps and keeps the    *)
(* order of the others (adjust_scores_and_phases_of_fresh_variables).      *)
(***************************************************************************)
LEMMA UnbumpedStamps ==
  ASSUME TypeOK, StampsOrder, Unbump
  PROVE  /\ stamp' \in [Vars -> Nat]
         /\ last' \in 0..MaxStamp
         /\ \A u \in enqueued : stamp'[u] <= last'
         /\ \A u, w \in enqueued : stamp'[u] = stamp'[w] => u = w
         /\ \A u, w \in enqueued \ created :
              stamp[u] < stamp[w] => stamp'[u] < stamp'[w]
         /\ \A u \in created, w \in enqueued \ created : stamp'[u] < stamp'[w]
<1> DEFINE C == created
           O == enqueued \ created
<1>1. /\ C \in SUBSET Vars /\ O \in SUBSET Vars /\ enqueued \in SUBSET Vars
      /\ C \subseteq enqueued
      /\ stamp \in [Vars -> Nat] /\ MaxStamp \in Nat
  BY StampAssumption DEF TypeOK
<1>2. /\ IsFiniteSet(C) /\ Cardinality(C) \in Nat
      /\ IsFiniteSet(O) /\ Cardinality(O) \in Nat
      /\ IsFiniteSet(enqueued) /\ Cardinality(enqueued) \in Nat
      /\ Cardinality(Vars) \in Nat /\ Cardinality(enqueued) <= Cardinality(Vars)
  BY <1>1, VarsAssumption, FS_Subset, FS_CardinalityType
<1>3. Cardinality(enqueued) = Cardinality(C) + Cardinality(O)
  <2>1. C \cup O = enqueued /\ C \cap O = {}
    BY <1>1
  <2>2. Cardinality(C \cup O)
          = Cardinality(C) + Cardinality(O) - Cardinality(C \cap O)
    BY <1>2, FS_Union
  <2> QED
    BY <1>2, <2>1, <2>2, FS_EmptySet
<1>4. last' = Cardinality(enqueued) /\ last' \in 0..MaxStamp
  <2>1. last' = Cardinality(enqueued)
    BY DEF Unbump
  <2> QED
    BY <1>1, <1>2, <2>1, StampAssumption
<1>5. \A u \in C : RankFromLast(u, C) \in 1..Cardinality(C)
  BY <1>1, RankFromLastBounds
<1>6. \A u \in O : Rank(u, O) \in 1..Cardinality(O)
  BY <1>1, RankBounds
<1>7. \A u, w \in C : stamp[u] < stamp[w] => RankFromLast(w, C) < RankFromLast(u, C)
  BY <1>1, RankFromLastMonotone
<1>8. \A u, w \in O : stamp[u] < stamp[w] => Rank(u, O) < Rank(w, O)
  BY <1>1, RankMonotone
<1>9. stamp' = [u \in Vars |-> IF u \in C THEN RankFromLast(u, C)
                             ELSE IF u \in O THEN Cardinality(C) + Rank(u, O)
                             ELSE stamp[u]]
  BY DEF Unbump, Unbumped
<1>10. /\ \A u \in enqueued : u \in C \/ u \in O
       /\ \A u \in O : u \notin C
       /\ \A u, w \in enqueued : u # w => stamp[u] # stamp[w]
  BY DEF StampsOrder
<1> HIDE DEF C, O
<1>11. /\ \A u \in C : stamp'[u] = RankFromLast(u, C)
       /\ \A u \in O : stamp'[u] = Cardinality(C) + Rank(u, O)
  BY <1>1, <1>9, <1>10
<1>12. stamp' \in [Vars -> Nat]
  <2> DEFINE f(u) == IF u \in C THEN RankFromLast(u, C)
                     ELSE IF u \in O THEN Cardinality(C) + Rank(u, O)
                     ELSE stamp[u]
  <2>1. \A u \in Vars : f(u) \in Nat
    BY <1>1, <1>2, <1>5, <1>6
  <2> QED
    BY <1>9, <2>1
<1>13. ASSUME NEW u \in enqueued
       PROVE  stamp'[u] <= last'
  <2>1. CASE u \in C
    BY <1>2, <1>3, <1>4, <1>5, <1>11, <2>1
  <2>2. CASE u \in O
    BY <1>2, <1>3, <1>4, <1>6, <1>11, <2>2
  <2> QED
    BY <1>10, <2>1, <2>2
<1>14. ASSUME NEW u \in enqueued, NEW w \in enqueued, u # w
       PROVE  stamp'[u] # stamp'[w]
  <2>1. /\ u \in Vars /\ w \in Vars
        /\ stamp[u] \in Nat /\ stamp[w] \in Nat
        /\ stamp[u] < stamp[w] \/ stamp[w] < stamp[u]
    BY <1>1, <1>10, <1>14
  <2>2. CASE u \in C /\ w \in C
    BY <1>2, <1>5, <1>7, <1>11, <2>1, <2>2
  <2>3. CASE u \in O /\ w \in O
    BY <1>2, <1>6, <1>8, <1>11, <2>1, <2>3
  <2>4. CASE u \in C /\ w \in O
    BY <1>2, <1>5, <1>6, <1>11, <2>4
  <2>5. CASE u \in O /\ w \in C
    BY <1>2, <1>5, <1>6, <1>11, <2>5
  <2> QED
    BY <1>10, <2>2, <2>3, <2>4, <2>5
<1>15. \A u, w \in O : stamp[u] < stamp[w] => stamp'[u] < stamp'[w]
  BY <1>2, <1>6, <1>8, <1>11
<1>16. \A u \in C, w \in O : stamp'[u] < stamp'[w]
  BY <1>2, <1>5, <1>6, <1>11
<1> QED
  BY <1>4, <1>12, <1>13, <1>14, <1>15, <1>16 DEF C, O

-----------------------------------------------------------------------------
(***************************************************************************)
(* One lemma per action: it preserves the inductive invariant.             *)
(***************************************************************************)
LEMMA ActivateStep ==
  ASSUME IInv, NEW v \in Vars, Activate(v)
  PROVE  IInv'
<1> USE DEF IInv
<1>1. EnqueueLast(v, v) /\ v \in fresh /\ v \notin enqueued
  BY DEF Activate, TypeOK
<1>2. /\ stamp' \in [Vars -> Nat] /\ last' \in 0..MaxStamp
      /\ stamp'[v] = last'
      /\ \A u \in enqueued \ {v} : stamp'[u] < last'
      /\ search' = Position(v, stamp')
  BY <1>1, EnqueuedLast
<1>3. StampsOrder'
  BY <1>1, StampsOrderKept DEF Activate
<1>4. TypeOK'
  BY <1>1, <1>2 DEF TypeOK, Activate, Position
<1>5. SearchCached'
  BY <1>2 DEF SearchCached, Activate, Position
<1>6. SearchPointer'
  <2>1. \A u \in enqueued' : stamp'[u] <= last'
    BY <1>3 DEF StampsOrder
  <2>2. search'.stamp = last'
    BY <1>2 DEF Position
  <2> QED
    BY <2>1, <2>2 DEF SearchPointer, Unassigned
<1> QED
  BY <1>3, <1>4, <1>5, <1>6

(***************************************************************************)
(* The next position, or the previous one if there is none: in focused     *)
(* mode what is unassigned was not behind v, and is not behind it.         *)
(***************************************************************************)
LEMMA DeactivateStep ==
  ASSUME IInv, NEW v \in Vars, Deactivate(v)
  PROVE  IInv'
<1> USE DEF IInv
<1>1. StampsOrder'
  BY DEF StampsOrder, Deactivate
<1>2. v \in enqueued /\ v \notin assigned /\ enqueued' = enqueued \ {v}
      /\ enqueued \subseteq Vars /\ stamp \in [Vars -> Nat] /\ stamp' = stamp
      /\ stable' = stable /\ assigned' = assigned
  BY DEF Deactivate, TypeOK, Unassigned
<1>3. CASE search.idx # v /\ UNCHANGED search
  <2>1. search.idx \in enqueued'
    BY <1>2, <1>3 DEF SearchCached
  <2>2. SearchCached'
    BY <1>2, <1>3, <2>1 DEF SearchCached
  <2>3. TypeOK'
    BY <1>2, <1>3 DEF TypeOK, Deactivate
  <2>4. SearchPointer'
    BY <1>2, <1>3 DEF SearchPointer, Unassigned
  <2> QED
    BY <1>1, <2>2, <2>3, <2>4
<1>4. CASE enqueued = {v} /\ search' = [idx |-> DISCONNECT, stamp |-> 0]
  <2>1. enqueued' = {}
    BY <1>2, <1>4
  <2>2. SearchCached' /\ SearchPointer'
    BY <1>4, <2>1 DEF SearchCached, SearchPointer, Unassigned
  <2>3. TypeOK'
    BY <1>4, <1>2 DEF TypeOK, Deactivate
  <2> QED
    BY <1>1, <2>2, <2>3
<1>5. ASSUME NEW u \in enqueued, SuccessorOf(v, u), search' = Position(u, stamp),
             search.idx = v
      PROVE  IInv'
  <2>1. stamp[u] # stamp[v] /\ stamp[u] \in Nat /\ stamp[v] \in Nat
    BY <1>2, <1>5 DEF SuccessorOf, IsFirstOf, IsLastOf, After, Before
  <2>2. u \in enqueued' /\ u \in Vars
    BY <1>2, <2>1
  <2>3. SearchCached'
    BY <1>2, <1>5, <2>2 DEF SearchCached, Position
  <2>4. TypeOK'
    BY <1>2, <1>5, <2>1, <2>2 DEF TypeOK, Deactivate, Position
  <2>5. ASSUME ~stable, NEW w \in enqueued \ {v}, w \notin assigned
        PROVE  stamp[w] <= stamp[u]
    <3>1. stamp[w] <= stamp[v]
      BY <1>2, <1>5, <2>5 DEF SearchPointer, SearchCached, Unassigned
    <3>2. CASE u \in After(v)
      BY <1>2, <2>1, <2>5, <3>1, <3>2 DEF After
    <3>3. CASE IsLastOf(u, Before(v))
      <4>1. stamp[w] # stamp[v]
        BY <1>2, <2>5 DEF StampsOrder
      <4> QED
        BY <1>2, <2>1, <2>5, <3>1, <3>3, <4>1 DEF IsLastOf, Before
    <3> QED
      BY <1>5, <3>2, <3>3 DEF SuccessorOf, IsFirstOf
  <2>6. SearchPointer'
    BY <1>2, <1>5, <2>5 DEF SearchPointer, Unassigned, Position
  <2> QED
    BY <1>1, <2>3, <2>4, <2>6
<1> QED
  BY <1>3, <1>4, <1>5 DEF Deactivate

LEMMA MoveToFrontStep ==
  ASSUME IInv, NEW v \in Vars, MoveToFront(v)
  PROVE  IInv'
<1> USE DEF IInv
<1>1. /\ v \in enqueued /\ enqueued \subseteq Vars
      /\ stamp \in [Vars -> Nat] /\ last \in Nat
      /\ UNCHANGED <<fresh, enqueued, created, assigned, stable>>
  BY StampAssumption DEF MoveToFront, TypeOK
<1>2. search.idx \in enqueued /\ search.stamp = stamp[search.idx]
  BY <1>1 DEF SearchCached
<1>3. ASSUME NEW at \in enqueued, EnqueueLast(v, at),
             \/ at = v /\ v \notin assigned
             \/ at # v /\ v \in assigned
                /\ (~stable => \A w \in Unassigned : stamp[w] <= stamp[at])
      PROVE  IInv'
  <2>1. /\ stamp' \in [Vars -> Nat] /\ last' \in 0..MaxStamp
        /\ stamp'[v] = last'
        /\ \A u \in enqueued \ {v} : stamp'[u] < last'
        /\ \A u, w \in enqueued \ {v} : stamp[u] < stamp[w] => stamp'[u] < stamp'[w]
        /\ search' = Position(at, stamp')
    BY <1>1, <1>3, EnqueuedLast
  <2>2. StampsOrder'
    BY <1>1, <1>3, StampsOrderKept
  <2>3. TypeOK'
    BY <1>1, <1>3, <2>1 DEF TypeOK, Position
  <2>4. SearchCached'
    BY <1>1, <1>3, <2>1 DEF SearchCached, Position
  <2>5. ASSUME ~stable, NEW w \in Unassigned
        PROVE  stamp'[w] <= stamp'[at]
    <3>1. w \in enqueued /\ stamp'[w] \in Nat /\ stamp'[at] \in Nat /\ last' \in Nat
      BY <1>1, <2>1, <2>5 DEF Unassigned
    <3>2. CASE at = v
      BY <2>1, <3>1, <3>2
    <3>3. CASE at # v
      <4>1. w # v /\ stamp[w] <= stamp[at]
        BY <1>3, <2>5, <3>3 DEF Unassigned
      <4>2. CASE w = at
        BY <3>1, <4>2
      <4>3. CASE w # at
        <5>1. stamp[w] # stamp[at]
          BY <1>3, <3>1, <4>3 DEF StampsOrder
        <5>2. stamp[w] < stamp[at]
          BY <1>1, <1>3, <3>1, <4>1, <5>1
        <5> QED
          BY <2>1, <3>1, <3>3, <4>1, <5>2
      <4> QED
        BY <4>2, <4>3
    <3> QED
      BY <3>2, <3>3
  <2>6. SearchPointer'
    BY <1>1, <2>1, <2>5 DEF SearchPointer, Unassigned, Position
  <2> QED
    BY <2>2, <2>3, <2>4, <2>6
<1>4. CASE v \notin assigned /\ EnqueueLast(v, v)
  BY <1>1, <1>3, <1>4
<1>5. CASE v \in assigned /\ search.idx # v /\ EnqueueLast(v, search.idx)
  <2>1. ~stable => \A w \in Unassigned : stamp[w] <= stamp[search.idx]
    BY <1>2 DEF SearchPointer
  <2> QED
    BY <1>2, <1>3, <1>5, <2>1
<1>6. ASSUME v \in assigned, search.idx = v, NEW u \in enqueued,
             PredecessorOf(v, u), EnqueueLast(v, u)
      PROVE  IInv'
  <2>1. u # v /\ stamp[u] \in Nat /\ stamp[v] \in Nat
    BY <1>1, <1>6 DEF PredecessorOf, IsFirstOf, IsLastOf, After, Before
  <2>2. ASSUME ~stable, NEW w \in Unassigned
        PROVE  stamp[w] <= stamp[u]
    <3>1. w \in enqueued /\ w # v /\ stamp[w] \in Nat /\ stamp[w] <= stamp[v]
      BY <1>1, <1>2, <1>6, <2>2 DEF SearchPointer, Unassigned
    <3>2. stamp[w] < stamp[v]
      BY <1>1, <2>1, <3>1 DEF StampsOrder
    <3>3. w \in Before(v)
      BY <3>1, <3>2 DEF Before
    <3> QED
      BY <1>6, <3>3 DEF PredecessorOf, IsLastOf
  <2> QED
    BY <1>3, <1>6, <2>1, <2>2
<1> QED
  BY <1>4, <1>5, <1>6 DEF MoveToFront

(***************************************************************************)
(* After unbumping, the cached position is the last variable.              *)
(***************************************************************************)
LEMMA UnbumpStep ==
  ASSUME IInv, Unbump
  PROVE  IInv'
<1> USE DEF IInv
<1>1. /\ stamp' \in [Vars -> Nat] /\ last' \in 0..MaxStamp
      /\ \A u \in enqueued : stamp'[u] <= last'
      /\ \A u, w \in enqueued : stamp'[u] = stamp'[w] => u = w
  BY UnbumpedStamps
<1>2. /\ enqueued # {} /\ enqueued \subseteq Vars
      /\ created' = {}
      /\ UNCHANGED <<fresh, enqueued, assigned, stable>>
  BY DEF Unbump, TypeOK
<1>3. PICK u \in enqueued : stamp'[u] = last' /\ search' = Position(u, stamp')
  BY DEF Unbump
<1>4. StampsOrder'
  BY <1>1, <1>2 DEF StampsOrder
<1>5. TypeOK'
  BY <1>1, <1>2, <1>3 DEF TypeOK, Position
<1>6. SearchCached' /\ SearchPointer'
  BY <1>1, <1>2, <1>3 DEF SearchCached, SearchPointer, Position, Unassigned
<1> QED
  BY <1>4, <1>5, <1>6

(***************************************************************************)
(* Compaction keeps the order of all variables, and the cached position    *)
(* does not move towards the front of the queue (compact_queue).           *)
(***************************************************************************)
LEMMA CompactedStamps ==
  ASSUME TypeOK, Compact
  PROVE  /\ stamp' \in [Vars -> Nat]
         /\ last' \in 0..MaxStamp
         /\ \A u \in enqueued : stamp'[u] <= last'
         /\ \A u, w \in enqueued : stamp[u] < stamp[w] => stamp'[u] < stamp'[w]
<1>1. enqueued \in SUBSET Vars /\ stamp \in [Vars -> Nat] /\ MaxStamp \in Nat
  BY StampAssumption DEF TypeOK
<1>2. /\ Cardinality(enqueued) \in Nat /\ Cardinality(Vars) \in Nat
      /\ Cardinality(enqueued) <= Cardinality(Vars)
  BY <1>1, VarsAssumption, FS_Subset, FS_CardinalityType
<1>3. \A u \in enqueued : Rank(u, enqueued) \in 1..Cardinality(enqueued)
  BY <1>1, RankBounds
<1>4. \A u, w \in enqueued :
        stamp[u] < stamp[w] => Rank(u, enqueued) < Rank(w, enqueued)
  BY <1>1, RankMonotone
<1>5. /\ stamp' = [u \in Vars |-> IF u \in enqueued THEN Rank(u, enqueued) ELSE stamp[u]]
      /\ last' = Cardinality(enqueued)
  BY DEF Compact
<1>6. \A u \in enqueued : stamp'[u] = Rank(u, enqueued)
  BY <1>1, <1>5
<1>7. stamp' \in [Vars -> Nat]
  <2> DEFINE f(u) == IF u \in enqueued THEN Rank(u, enqueued) ELSE stamp[u]
  <2>1. \A u \in Vars : f(u) \in Nat
    BY <1>1, <1>3
  <2> QED
    BY <1>5, <2>1
<1>8. last' \in 0..MaxStamp
  BY <1>1, <1>2, <1>5, StampAssumption
<1> QED
  BY <1>2, <1>3, <1>4, <1>5, <1>6, <1>7, <1>8

LEMMA CompactStep ==
  ASSUME IInv, Compact
  PROVE  IInv'
<1> USE DEF IInv
<1>1. /\ stamp' \in [Vars -> Nat] /\ last' \in 0..MaxStamp
      /\ \A u \in enqueued : stamp'[u] <= last'
      /\ \A u, w \in enqueued : stamp[u] < stamp[w] => stamp'[u] < stamp'[w]
  BY CompactedStamps
<1>2. /\ enqueued \subseteq Vars /\ stamp \in [Vars -> Nat]
      /\ UNCHANGED <<fresh, enqueued, created, assigned, stable>>
  BY DEF Compact, TypeOK
<1>3. ASSUME NEW u \in enqueued, NEW w \in enqueued, stamp'[u] = stamp'[w]
      PROVE  u = w
  <2>1. stamp[u] \in Nat /\ stamp[w] \in Nat /\ stamp'[u] \in Nat
    BY <1>1, <1>2
  <2>2. stamp[u] = stamp[w]
    BY <1>1, <1>3, <2>1
  <2> QED
    BY <2>2 DEF StampsOrder
<1>4. StampsOrder'
  BY <1>1, <1>2, <1>3 DEF StampsOrder
<1>5. CASE enqueued = {} /\ UNCHANGED search
  BY <1>1, <1>2, <1>4, <1>5 DEF TypeOK, SearchCached, SearchPointer, Unassigned
<1>6. ASSUME NEW u \in enqueued, stamp[u] >= search.stamp, search' = Position(u, stamp')
      PROVE  IInv'
  <2>1. TypeOK'
    BY <1>1, <1>2, <1>6 DEF TypeOK, Position
  <2>2. SearchCached'
    BY <1>2, <1>6 DEF SearchCached, Position
  <2>3. ASSUME ~stable, NEW w \in Unassigned
        PROVE  stamp'[w] <= stamp'[u]
    <3>1. /\ w \in enqueued /\ stamp[w] \in Nat /\ stamp[u] \in Nat
          /\ search.stamp \in Nat /\ stamp'[w] \in Nat /\ stamp'[u] \in Nat
      BY <1>1, <1>2, <2>3 DEF TypeOK, Unassigned
    <3>2. stamp[w] <= stamp[u]
      BY <1>6, <2>3, <3>1 DEF SearchPointer
    <3>3. stamp[w] < stamp[u] \/ w = u
      BY <3>1, <3>2 DEF StampsOrder
    <3> QED
      BY <1>1, <3>1, <3>3
  <2>4. SearchPointer'
    BY <1>2, <1>6, <2>3 DEF SearchPointer, Position, Unassigned
  <2> QED
    BY <1>4, <2>1, <2>2, <2>4
<1> QED
  BY <1>5, <1>6 DEF Compact

(***************************************************************************)
(* Walking to the last unassigned variable keeps the cached position       *)
(* sound, and assigning more variables does.                               *)
(***************************************************************************)
LEMMA WalkStep ==
  ASSUME IInv, Walks(search'), UNCHANGED <<fresh, enqueued, created, stamp, last, stable>>,
         assigned \subseteq assigned', assigned' \subseteq enqueued
  PROVE  IInv'
<1> USE DEF IInv
<1>1. StampsOrder'
  BY DEF StampsOrder
<1>2. CASE search' = search
  BY <1>1, <1>2 DEF TypeOK, SearchCached, SearchPointer, Unassigned
<1>3. ASSUME NEW u \in Unassigned, IsLastOf(u, Unassigned), search' = Position(u, stamp)
      PROVE  IInv'
  <2>1. u \in enqueued /\ u \in Vars /\ stamp[u] \in Nat
    BY <1>3 DEF Unassigned, TypeOK
  <2>2. TypeOK'
    BY <1>3, <2>1 DEF TypeOK, Position
  <2>3. SearchCached'
    BY <1>3, <2>1 DEF SearchCached, Position
  <2>4. SearchPointer'
    BY <1>3 DEF SearchPointer, Position, IsLastOf, Unassigned
  <2> QED
    BY <1>1, <2>2, <2>3, <2>4
<1> QED
  BY <1>2, <1>3 DEF Walks

(***************************************************************************)
(* Backtracking: what is unassigned is at most as late as the latest of    *)
(* what gets unassigned, or as the old position.                           *)
(***************************************************************************)
LEMMA UnassignStep ==
  ASSUME IInv, NEW S \in SUBSET assigned, Unassign(S)
  PROVE  IInv'
<1> USE DEF IInv
<1> DEFINE later == {u \in S : stamp[u] > search.stamp}
<1>1. /\ enqueued \subseteq Vars /\ assigned \subseteq enqueued
      /\ stamp \in [Vars -> Nat] /\ search.stamp \in Nat
      /\ assigned' = assigned \ S
      /\ UNCHANGED <<fresh, enqueued, created, stamp, last, stable>>
  BY DEF TypeOK, Unassign
<1>2. StampsOrder'
  BY <1>1 DEF StampsOrder
<1>3. \A w \in Unassigned' : w \in Unassigned \/ w \in S
  BY <1>1 DEF Unassigned
<1>4. CASE (stable \/ later = {}) /\ UNCHANGED search
  <2>1. TypeOK' /\ SearchCached'
    BY <1>1, <1>4 DEF TypeOK, SearchCached
  <2>2. ASSUME ~stable, NEW w \in Unassigned'
        PROVE  stamp[w] <= search.stamp
    <3>1. CASE w \in Unassigned
      BY <2>2, <3>1 DEF SearchPointer
    <3>2. CASE w \in S
      BY <1>1, <1>4, <2>2, <3>2
    <3> QED
      BY <1>3, <3>1, <3>2
  <2>3. SearchPointer'
    BY <1>1, <1>4, <2>2 DEF SearchPointer
  <2> QED
    BY <1>2, <2>1, <2>3
<1>5. ASSUME ~stable, NEW u \in later, IsLastOf(u, later), search' = Position(u, stamp)
      PROVE  IInv'
  <2>1. u \in enqueued /\ stamp[u] \in Nat /\ stamp[u] > search.stamp
    BY <1>1, <1>5
  <2>2. TypeOK' /\ SearchCached'
    BY <1>1, <1>5, <2>1 DEF TypeOK, SearchCached, Position
  <2>3. ASSUME NEW w \in Unassigned'
        PROVE  stamp[w] <= stamp[u]
    <3>1. w \in Vars /\ stamp[w] \in Nat
      BY <1>1, <2>3 DEF Unassigned
    <3>2. CASE w \in later
      BY <1>5, <3>2 DEF IsLastOf
    <3>3. CASE w \notin later
      <4>1. stamp[w] <= search.stamp
        BY <1>1, <1>3, <1>5, <2>3, <3>1, <3>3 DEF SearchPointer
      <4> QED
        BY <1>1, <2>1, <3>1, <4>1
    <3> QED
      BY <3>2, <3>3
  <2>4. SearchPointer'
    BY <1>1, <1>5, <2>3 DEF SearchPointer, Position
  <2> QED
    BY <1>2, <2>2, <2>4
<1> QED
  BY <1>4, <1>5 DEF Unassign

(***************************************************************************)
(* kissat_reset_search_of_queue starts again behind everything.            *)
(***************************************************************************)
LEMMA SwitchStep ==
  ASSUME IInv, SwitchToStable \/ SwitchToFocused
  PROVE  IInv'
<1> USE DEF IInv
<1>1. CASE SwitchToStable
  BY <1>1 DEF SwitchToStable, TypeOK, StampsOrder, SearchCached, SearchPointer,
              Unassigned
<1>2. CASE SwitchToFocused
  <2>1. PICK u \in enqueued : IsLastOf(u, enqueued) /\ search' = Position(u, stamp)
    BY <1>2 DEF SwitchToFocused
  <2>2. TypeOK' /\ StampsOrder'
    BY <1>2, <2>1 DEF SwitchToFocused, TypeOK, StampsOrder, Position
  <2>3. SearchCached' /\ SearchPointer'
    BY <1>2, <2>1 DEF SwitchToFocused, SearchCached, SearchPointer, Position,
                      IsLastOf, Unassigned
  <2> QED
    BY <2>2, <2>3
<1> QED
  BY <1>1, <1>2

-----------------------------------------------------------------------------
LEMMA InitIInv == Init => IInv
<1> SUFFICES ASSUME Init PROVE IInv
  OBVIOUS
<1> USE DEF Init
<1>1. stamp \in [Vars -> Nat] /\ last \in 0..MaxStamp
  BY StampAssumption
<1>2. search \in [idx : Vars \cup {DISCONNECT}, stamp : Nat]
  OBVIOUS
<1>3. TypeOK
  BY <1>1, <1>2 DEF TypeOK
<1>4. StampsOrder /\ SearchCached /\ SearchPointer
  BY DEF StampsOrder, SearchCached, SearchPointer, Unassigned
<1> QED
  BY <1>3, <1>4 DEF IInv

LEMMA NextIInv == IInv /\ [Next]_vmtfVars => IInv'
<1> SUFFICES ASSUME IInv, [Next]_vmtfVars
             PROVE  IInv'
  OBVIOUS
<1>1. ASSUME NEW v \in Vars, Activate(v)
      PROVE  IInv'
  BY <1>1, ActivateStep
<1>2. ASSUME NEW v \in Vars, Deactivate(v)
      PROVE  IInv'
  BY <1>2, DeactivateStep
<1>3. ASSUME NEW v \in Vars, MoveToFront(v)
      PROVE  IInv'
  BY <1>3, MoveToFrontStep
<1>4. ASSUME NEW v \in Vars, Assign(v)
      PROVE  IInv'
  <2>1. assigned \subseteq assigned' /\ assigned' \subseteq enqueued
    BY <1>4 DEF IInv, TypeOK, Assign, Unassigned
  <2> QED
    BY <1>4, <2>1, WalkStep DEF Assign
<1>5. CASE Look
  BY <1>5, WalkStep DEF IInv, TypeOK, Look
<1>6. ASSUME NEW S \in SUBSET assigned, Unassign(S)
      PROVE  IInv'
  BY <1>6, UnassignStep
<1>7. CASE SwitchToStable \/ SwitchToFocused
  BY <1>7, SwitchStep
<1>8. CASE Unbump
  BY <1>8, UnbumpStep
<1>9. CASE Compact
  BY <1>9, CompactStep
<1>10. CASE UNCHANGED vmtfVars
  BY <1>10 DEF vmtfVars, IInv, TypeOK, StampsOrder, SearchCached, SearchPointer,
              Unassigned
<1> QED
  BY <1>1, <1>2, <1>3, <1>4, <1>5, <1>6, <1>7, <1>8, <1>9, <1>10 DEF Next

LEMMA Invariance == Spec => []IInv
  BY InitIInv, NextIInv, PTL DEF Spec

(***************************************************************************)
(* The state of the queue has its types; in particular no stamp exceeds    *)
(* UINT_MAX and only variables of the queue are assigned (queue.h).        *)
(***************************************************************************)
THEOREM TypeCorrect == Spec => []TypeOK
  BY Invariance, PTL DEF IInv

(***************************************************************************)
(* The stamps order the queue totally even after they were used up and     *)
(* reassigned (kissat_enqueue_links, kissat_reassign_queue_stamps).        *)
(***************************************************************************)
THEOREM StampsCorrect == Spec => []StampsOrder
  BY Invariance, PTL DEF IInv

(***************************************************************************)
(* The cached position and its stamp agree, the check that                 *)
(* add_unassigned_variable_back_to_queue relies on.                        *)
(***************************************************************************)
THEOREM CacheCorrect == Spec => []SearchCached
  BY Invariance, PTL DEF IInv

(***************************************************************************)
(* In focused mode last_enqueued_unassigned_variable never passes over an  *)
(* unassigned variable (decide.c).                                         *)
(***************************************************************************)
THEOREM SearchCorrect == Spec => []SearchPointer
  BY Invariance, PTL DEF IInv

-----------------------------------------------------------------------------
LEMMA OvertakeStep ==
  ASSUME IInv, [Next]_vmtfVars, NEW u \in enqueued \cap enqueued',
         NEW w \in enqueued \cap enqueued', Overtakes(u, w)
  PROVE  stamp'[u] = last' \/ w \in created
<1> USE DEF IInv
<1>1. /\ stamp \in [Vars -> Nat] /\ u \in Vars /\ w \in Vars
      /\ stamp[u] < stamp[w] /\ stamp'[w] < stamp'[u]
  BY DEF TypeOK, Overtakes
<1>2. ASSUME NEW v \in Vars, NEW at \in enqueued \cup {v}, EnqueueLast(v, at)
      PROVE  stamp'[u] = last'
  <2>1. /\ stamp' \in [Vars -> Nat] /\ last' \in Nat
        /\ stamp'[v] = last'
        /\ \A x \in enqueued \ {v} : stamp'[x] < last'
        /\ \A x, y \in enqueued \ {v} : stamp[x] < stamp[y] => stamp'[x] < stamp'[y]
    BY <1>2, EnqueuedLast, StampAssumption
  <2>2. CASE u = v
    BY <2>1, <2>2
  <2>3. CASE u # v /\ w = v
    BY <1>1, <2>1, <2>3
  <2>4. CASE u # v /\ w # v
    BY <1>1, <2>1, <2>4
  <2> QED
    BY <2>2, <2>3, <2>4
<1>3. CASE UNCHANGED stamp
  BY <1>1, <1>3
<1>4. ASSUME NEW v \in Vars, Activate(v)
      PROVE  stamp'[u] = last'
  BY <1>2, <1>4 DEF Activate
<1>5. ASSUME NEW v \in Vars, MoveToFront(v)
      PROVE  stamp'[u] = last'
  <2>1. v \in enqueued /\ search.idx \in enqueued
    BY <1>5 DEF MoveToFront, SearchCached
  <2> QED
    BY <1>2, <1>5, <2>1 DEF MoveToFront
<1>6. CASE Unbump
  <2>1. ASSUME u \in created, w \notin created
        PROVE  FALSE
    BY <1>1, <1>6, <2>1, UnbumpedStamps
  <2>2. CASE u \notin created /\ w \notin created
    <3>1. stamp'[u] < stamp'[w] /\ stamp' \in [Vars -> Nat]
      BY <1>1, <1>6, <2>2, UnbumpedStamps
    <3> QED
      BY <1>1, <3>1
  <2> QED
    BY <2>1, <2>2
<1>7. CASE Compact
  <2>1. /\ stamp'[u] < stamp'[w] /\ stamp' \in [Vars -> Nat]
    BY <1>1, <1>7, CompactedStamps
  <2> QED
    BY <1>1, <2>1
<1>8. CASE UNCHANGED vmtfVars
  BY <1>3, <1>8 DEF vmtfVars
<1> QED
  BY <1>3, <1>4, <1>5, <1>6, <1>7, <1>8
     DEF Next, Deactivate, Assign, Look, Unassign, SwitchToStable, SwitchToFocused

(***************************************************************************)
(* Bumping in the order of the stamps is a stable partition of the queue,  *)
(* whether or not the stamps are reassigned in the middle of it (bump.c).  *)
(***************************************************************************)
THEOREM BumpingCorrect == Spec => OnlyLastOvertakes
<1>1. IInv /\ [Next]_vmtfVars =>
        [\A u, w \in enqueued \cap enqueued' :
           Overtakes(u, w) => stamp'[u] = last' \/ w \in created]_vmtfVars
  BY OvertakeStep
<1> QED
  BY <1>1, Invariance, PTL DEF Spec, OnlyLastOvertakes
=============================================================================
