------------------------------ MODULE HeapProofs ------------------------------
(***************************************************************************)
(* What the operations of the heap keep, for any elements and any scores.  *)
(***************************************************************************)
EXTENDS Heap, FiniteSetTheorems, TLAPS

(* Induction over the natural numbers. *)
LEMMA Counting ==
  \A P : 0 \in P /\ (\A n \in Nat : n \in P => n + 1 \in P) => Nat \subseteq P
<1> SUFFICES ASSUME NEW P, 0 \in P, \A n \in Nat : n \in P => n + 1 \in P,
                    ~ (Nat \subseteq P)
             PROVE  FALSE
  OBVIOUS
<1> DEFINE R == OpToRel(<, Nat)
           T == Nat \ P
<1>1. \A m, n \in Nat : <<m, n>> \in R <=> m < n
  BY Zenon DEF OpToRel
<1>2. PICK n \in T : \A m \in T : ~ (<<m, n>> \in R)
  <2>1. IsWellFoundedOn(R, Nat) /\ T \subseteq Nat /\ T # {}
    BY NatLessThanWellFounded
  <2> HIDE DEF R, T
  <2> QED
    BY <2>1, WFMin
<1>3. n \in Nat /\ n \notin P /\ \A m \in Nat : m < n => m \in P
  <2> HIDE DEF R
  <2> QED
    BY <1>1, <1>2
<1>4. n - 1 \in Nat /\ n - 1 < n /\ (n - 1) + 1 = n
  BY <1>3
<1> QED
  BY <1>3, <1>4

(* What pushing one element after another keeps. *)
PushAll == INSTANCE RecursionTheorems WITH Op <- PushHeap

LEMMA PushAllCounting == PushAll!NatInduction
BY Counting DEF PushAll!NatInduction

-----------------------------------------------------------------------------
(***************************************************************************)
(* A way leads from 'start' along 'next' to the first element of 'stop'.   *)
(***************************************************************************)
IsWay(D, stop, next, rank, start, way) ==
  /\ way \subseteq D
  /\ start \in way
  /\ \E end \in way : /\ end \in stop
                      /\ \A p \in way : rank[end] <= rank[p]
                      /\ \A p \in way : p # end => p \notin stop
  /\ \A p \in way : rank[p] <= rank[start]
  /\ \A p \in way \ stop : next[p] \in way /\ next[p] # start
  /\ \A q \in way : q # start => \E p \in way \ stop : next[p] = q
  /\ \A p, q \in way \ stop : next[p] = next[q] => p = q

(* 'next' leads from whatever is not in 'stop' to an element of smaller rank. *)
Descends(D, stop, next, N, rank) ==
  /\ next \in [D -> D]
  /\ N \in Nat
  /\ rank \in [D -> 0..N]
  /\ \A p \in D \ stop : rank[next[p]] < rank[p]

(* The equation of the recursive functions WayUp and WayDown. *)
WayFrom(f, stop, next, p) == {p} \cup (IF p \in stop THEN {} ELSE f[next[p]])

LEMMA WayExists ==
  ASSUME NEW D, NEW stop, NEW next, NEW N, NEW rank, Descends(D, stop, next, N, rank)
  PROVE  \E f \in [D -> SUBSET D] : \A p \in D : f[p] = WayFrom(f, stop, next, p)
<1> USE DEF Descends
<1> DEFINE Step == [f \in [D -> SUBSET D] |-> [p \in D |-> WayFrom(f, stop, next, p)]]
<1>1. Step \in [[D -> SUBSET D] -> [D -> SUBSET D]]
  <2> SUFFICES ASSUME NEW f \in [D -> SUBSET D], NEW p \in D
               PROVE  WayFrom(f, stop, next, p) \in SUBSET D
    OBVIOUS
  <2> QED
    BY DEF WayFrom
<1>2. ASSUME NEW f \in [D -> SUBSET D], NEW g \in [D -> SUBSET D], NEW p \in D,
             \A q \in D : rank[q] < rank[p] => f[q] = g[q]
      PROVE  Step[f][p] = Step[g][p]
  <2>1. p \notin stop => f[next[p]] = g[next[p]]
    BY <1>2
  <2>2. WayFrom(f, stop, next, p) = WayFrom(g, stop, next, p)
    BY <2>1 DEF WayFrom
  <2> QED
    BY <2>2
<1>3. PushAll!Recursive(D, SUBSET D, N, rank, Step)
  <2> HIDE DEF Step
  <2> QED
    BY <1>1, <1>2 DEF PushAll!Recursive
<1>4. PICK f \in [D -> SUBSET D] : f = Step[f]
  <2> HIDE DEF Step
  <2> QED
    BY <1>3, PushAllCounting, PushAll!RankRecursion
<1>5. \A p \in D : f[p] = WayFrom(f, stop, next, p)
  BY <1>4
<1> QED
  BY <1>5

LEMMA WayFacts ==
  ASSUME NEW D, NEW stop, NEW next, NEW N, NEW rank, Descends(D, stop, next, N, rank),
         NEW f, \A p \in D : f[p] = WayFrom(f, stop, next, p)
  PROVE  \A p \in D : IsWay(D, stop, next, rank, p, f[p])
<1> USE DEF Descends
<1> DEFINE P == {p \in D : IsWay(D, stop, next, rank, p, f[p])}
<1>0. rank \in [D -> Nat]
  OBVIOUS
<1>1. ASSUME NEW p \in D, \A q \in D : rank[q] < rank[p] => q \in P
      PROVE  p \in P
  <2>1. CASE p \in stop
    <3>1. f[p] = {p}
      BY <2>1 DEF WayFrom
    <3> QED
      BY <2>1, <3>1 DEF IsWay
  <2>2. CASE p \notin stop
    <3> DEFINE n == next[p]
    <3>1. n \in D /\ rank[n] < rank[p] /\ rank[n] \in Nat /\ rank[p] \in Nat
      BY <2>2
    <3>2. IsWay(D, stop, next, rank, n, f[n])
      BY <1>1, <3>1
    <3>3. f[p] = {p} \cup f[n]
      BY <2>2 DEF WayFrom
    <3> HIDE DEF n
    <3>4. f[n] \subseteq D /\ \A q \in f[n] : rank[q] <= rank[n] /\ rank[q] \in Nat
      BY <3>2 DEF IsWay
    <3>5. p \notin f[n]
      BY <3>1, <3>4
    <3>6. \A q \in f[p] : rank[q] <= rank[p]
      BY <3>1, <3>3, <3>4
    <3>7. \A q \in f[n] \ stop : next[q] # n /\ next[q] \in f[n]
      BY <3>2 DEF IsWay
    <3>8. next[p] = n
      BY DEF n
    <3>9. \E end \in f[p] : /\ end \in stop
                           /\ \A q \in f[p] : rank[end] <= rank[q]
                           /\ \A r \in f[p] : r # end => r \notin stop
      <4>1. PICK end \in f[n] : /\ end \in stop
                                /\ \A q \in f[n] : rank[end] <= rank[q]
                                /\ \A r \in f[n] : r # end => r \notin stop
        BY <3>2 DEF IsWay
      <4>2. rank[end] <= rank[p]
        BY <3>1, <3>4
      <4> QED
        BY <2>2, <3>3, <4>1, <4>2
    <3>10. \A q \in f[p] : q # p => \E r \in f[p] \ stop : next[r] = q
      BY <2>2, <3>2, <3>3, <3>8 DEF IsWay
    <3>11. \A q \in f[p] \ stop : next[q] \in f[p] /\ next[q] # p
      BY <3>2, <3>3, <3>5, <3>7, <3>8 DEF IsWay
    <3>12. \A q, r \in f[p] \ stop : next[q] = next[r] => q = r
      BY <3>2, <3>3, <3>7, <3>8 DEF IsWay
    <3>13. f[p] \subseteq D /\ p \in f[p]
      BY <3>3, <3>4
    <3> QED
      BY <3>6, <3>9, <3>10, <3>11, <3>12, <3>13 DEF IsWay
  <2> QED
    BY <2>1, <2>2
<1>2. D \subseteq P
  <2> HIDE DEF P
  <2> QED
    BY <1>0, <1>1, PushAllCounting, PushAll!RankInduction
<1> QED
  BY <1>2

(***************************************************************************)
(* The elements of a sequence on a way move one place towards its start,   *)
(* the first one to its end: none gets lost and none appears twice.        *)
(***************************************************************************)
Moves(s, t, D, stop, next, start, way) ==
  /\ DOMAIN s = D
  /\ DOMAIN t = D
  /\ next \in [D -> D]
  /\ \A p \in D : t[p] = IF p \notin way THEN s[p]
                         ELSE IF p \in stop THEN s[start] ELSE s[next[p]]

LEMMA MovedAlong ==
  ASSUME NEW D, NEW stop, NEW next, NEW rank, NEW start, NEW way, NEW s, NEW t,
         IsWay(D, stop, next, rank, start, way),
         Moves(s, t, D, stop, next, start, way),
         IsInjective(s)
  PROVE  IsInjective(t) /\ ToSet(t) = ToSet(s)
<1> USE DEF Moves
<1> DEFINE from == [p \in D |-> IF p \notin way THEN p
                                ELSE IF p \in stop THEN start ELSE next[p]]
<1>1. from \in [D -> D] /\ \A p \in D : t[p] = s[from[p]]
  BY DEF IsWay
<1>2. \A p, q \in D : from[p] = from[q] => p = q
  BY DEF IsWay
<1>3. ASSUME NEW q \in D
      PROVE  \E p \in D : from[p] = q
  <2>1. CASE q \notin way
    BY <2>1
  <2>2. CASE q = start
    BY <2>2 DEF IsWay
  <2>3. CASE q \in way /\ q # start
    BY <2>3 DEF IsWay
  <2> QED
    BY <2>1, <2>2, <2>3
<1> HIDE DEF from
<1>4. IsInjective(t)
  BY <1>1, <1>2 DEF IsInjective
<1>5. ToSet(t) = ToSet(s)
  BY <1>1, <1>3 DEF ToSet
<1> QED
  BY <1>4, <1>5

-----------------------------------------------------------------------------
(* The heaps with elements of X, none of them twice. *)
HeapsOver(X) ==
  {h \in [stack : Seq(X), score : [X -> Nat]] : IsInjective(h.stack)}

LEMMA HeapType ==
  ASSUME NEW X, NEW h \in HeapsOver(X)
  PROVE  /\ h.stack \in Seq(X)
         /\ h.score \in [X -> Nat]
         /\ Len(h.stack) \in Nat
         /\ DOMAIN h.stack = 1..Len(h.stack)
         /\ IsInjective(h.stack)
         /\ \A p \in 1..Len(h.stack) : h.stack[p] \in X /\ ScoreAt(h, p) \in Nat
BY DEF HeapsOver, ScoreAt

LEMMA PosOf ==
  ASSUME NEW X, NEW h \in HeapsOver(X), NEW idx, HeapContains(h, idx)
  PROVE  Pos(h, idx) \in 1..Len(h.stack) /\ h.stack[Pos(h, idx)] = idx
<1>1. \E p \in DOMAIN h.stack : h.stack[p] = idx
  BY DEF HeapContains, ToSet
<1> QED
  BY <1>1, HeapType DEF Pos

(* Positions and their parents and children. *)
LEMMA Parents ==
  ASSUME NEW p \in Nat, p > 1
  PROVE  /\ HEAP_PARENT(p) \in Nat
         /\ 1 <= HEAP_PARENT(p)
         /\ HEAP_PARENT(p) < p
         /\ p = HEAP_CHILD(HEAP_PARENT(p)) \/ p = HEAP_CHILD(HEAP_PARENT(p)) + 1
BY DEF HEAP_PARENT, HEAP_CHILD

LEMMA Children ==
  ASSUME NEW p \in Nat, p > 0
  PROVE  /\ HEAP_CHILD(p) \in Nat
         /\ p < HEAP_CHILD(p)
         /\ HEAP_PARENT(HEAP_CHILD(p)) = p
         /\ HEAP_PARENT(HEAP_CHILD(p) + 1) = p
BY DEF HEAP_PARENT, HEAP_CHILD

LEMMA LargerChildOf ==
  ASSUME NEW X, NEW h \in HeapsOver(X), NEW p \in 1..Len(h.stack),
         HEAP_CHILD(p) <= Len(h.stack)
  PROVE  /\ LargerChild(h, p) \in 1..Len(h.stack)
         /\ p < LargerChild(h, p)
         /\ HEAP_PARENT(LargerChild(h, p)) = p
         /\ \A q \in 2..Len(h.stack) :
              HEAP_PARENT(q) = p => ScoreAt(h, q) <= ScoreAt(h, LargerChild(h, p))
<1>1. Len(h.stack) \in Nat /\ p \in Nat /\ p > 0
  BY HeapType
<1>2. \A q \in 1..Len(h.stack) : ScoreAt(h, q) \in Nat
  BY HeapType
<1>3. /\ HEAP_CHILD(p) \in 1..Len(h.stack)
      /\ p < HEAP_CHILD(p)
      /\ HEAP_PARENT(HEAP_CHILD(p)) = p
      /\ HEAP_PARENT(HEAP_CHILD(p) + 1) = p
  BY <1>1, Children
<1>4. \A q \in 2..Len(h.stack) :
        HEAP_PARENT(q) = p => q = HEAP_CHILD(p) \/ q = HEAP_CHILD(p) + 1
  BY <1>1, Parents
<1> QED
  BY <1>1, <1>2, <1>3, <1>4 DEF LargerChild

-----------------------------------------------------------------------------
(* The way up from where idx is. *)
LEMMA WayUpFacts ==
  ASSUME NEW X, NEW h \in HeapsOver(X), NEW idx, HeapContains(h, idx)
  PROVE  LET D == 1..Len(h.stack)
         IN  IsWay(D, {p \in D : StopsUp(h, idx, p)},
                   [p \in D |-> IF p = 1 THEN p ELSE HEAP_PARENT(p)],
                   [p \in D |-> p], Pos(h, idx), WayUp(h, idx))
<1> DEFINE N == Len(h.stack)
           D == 1..N
           stop == {p \in D : StopsUp(h, idx, p)}
           next == [p \in D |-> IF p = 1 THEN p ELSE HEAP_PARENT(p)]
           rank == [p \in D |-> p]
<1>1. N \in Nat /\ DOMAIN h.stack = D
  BY HeapType
<1>2. \A p \in D : p # 1 => HEAP_PARENT(p) \in D /\ HEAP_PARENT(p) < p
  BY <1>1, Parents
<1>3. rank \in [D -> 0..N]
  BY <1>1
<1>4. next \in [D -> D]
  BY <1>2
<1>5. \A p \in D \ stop : next[p] = HEAP_PARENT(p) /\ rank[next[p]] < rank[p]
  BY <1>2, <1>4 DEF StopsUp
<1> HIDE DEF N, D, stop, next, rank
<1>55. Descends(D, stop, next, N, rank)
  BY <1>1, <1>3, <1>4, <1>5 DEF Descends
<1>6. PICK f \in [D -> SUBSET D] : \A p \in D : f[p] = WayFrom(f, stop, next, p)
  BY <1>55, WayExists
<1> DEFINE equation(w) ==
      w = [p \in DOMAIN h.stack |->
             {p} \cup (IF StopsUp(h, idx, p) THEN {} ELSE w[HEAP_PARENT(p)])]
<1>7. ASSUME NEW w
      PROVE  equation(w) <=> w = [p \in D |-> WayFrom(w, stop, next, p)]
  <2>1. \A p \in D : WayFrom(w, stop, next, p)
                       = {p} \cup (IF StopsUp(h, idx, p) THEN {} ELSE w[HEAP_PARENT(p)])
    BY <1>5 DEF WayFrom, stop
  <2> QED
    BY <1>1, <2>1
<1>8. \E w : equation(w)
  <2> HIDE DEF equation
  <2>1. f = [p \in D |-> WayFrom(f, stop, next, p)]
    BY <1>6
  <2> QED
    BY <1>7, <2>1
<1> DEFINE w == CHOOSE w : equation(w)
<1>9. \A p \in D : w[p] = WayFrom(w, stop, next, p)
  <2>1. equation(w)
    BY <1>8
  <2> HIDE DEF equation, w
  <2> QED
    BY <1>7, <2>1
<1>10. WayUp(h, idx) = w[Pos(h, idx)]
  BY DEF WayUp
<1>11. Pos(h, idx) \in D
  BY PosOf DEF D, N
<1> HIDE DEF w
<1>12. IsWay(D, stop, next, rank, Pos(h, idx), w[Pos(h, idx)])
  BY <1>55, <1>9, <1>11, WayFacts
<1> QED
  BY <1>10, <1>12 DEF D, N, stop, next, rank

(* The way down from where idx is. *)
LEMMA WayDownFacts ==
  ASSUME NEW X, NEW h \in HeapsOver(X), NEW idx, HeapContains(h, idx)
  PROVE  LET D == 1..Len(h.stack)
         IN  IsWay(D, {p \in D : StopsDown(h, idx, p)},
                   [p \in D |-> IF HEAP_CHILD(p) > Len(h.stack) THEN p
                                ELSE LargerChild(h, p)],
                   [p \in D |-> Len(h.stack) - p], Pos(h, idx), WayDown(h, idx))
<1> DEFINE N == Len(h.stack)
           D == 1..N
           stop == {p \in D : StopsDown(h, idx, p)}
           next == [p \in D |-> IF HEAP_CHILD(p) > Len(h.stack) THEN p
                                ELSE LargerChild(h, p)]
           rank == [p \in D |-> N - p]
<1>1. N \in Nat /\ DOMAIN h.stack = D
  BY HeapType
<1>2. \A p \in D : HEAP_CHILD(p) \in Nat
  BY <1>1 DEF HEAP_CHILD
<1>3. \A p \in D : ~ (HEAP_CHILD(p) > N) => LargerChild(h, p) \in D /\ p < LargerChild(h, p)
  BY <1>1, <1>2, LargerChildOf
<1>4. \A p \in D \ stop : /\ next[p] = LargerChild(h, p)
                          /\ rank[next[p]] < rank[p]
  BY <1>1, <1>3 DEF StopsDown
<1>5. Descends(D, stop, next, N, rank)
  <2>1. rank \in [D -> 0..N]
    BY <1>1
  <2>2. next \in [D -> D]
    BY <1>3
  <2> HIDE DEF N, D, stop, next, rank
  <2> QED
    BY <1>1, <1>4, <2>1, <2>2 DEF Descends
<1> HIDE DEF N, D, stop, next, rank
<1>6. PICK f \in [D -> SUBSET D] : \A p \in D : f[p] = WayFrom(f, stop, next, p)
  BY <1>5, WayExists
<1> DEFINE equation(w) ==
      w = [p \in DOMAIN h.stack |->
             {p} \cup (IF StopsDown(h, idx, p) THEN {} ELSE w[LargerChild(h, p)])]
<1>7. ASSUME NEW w
      PROVE  equation(w) <=> w = [p \in D |-> WayFrom(w, stop, next, p)]
  <2>1. \A p \in D : WayFrom(w, stop, next, p)
                     = {p} \cup (IF StopsDown(h, idx, p) THEN {} ELSE w[LargerChild(h, p)])
    BY <1>4 DEF WayFrom, stop
  <2> QED
    BY <1>1, <2>1
<1>8. \E w : equation(w)
  <2> HIDE DEF equation
  <2>1. f = [p \in D |-> WayFrom(f, stop, next, p)]
    BY <1>6
  <2> QED
    BY <1>7, <2>1
<1> DEFINE w == CHOOSE w : equation(w)
<1>9. \A p \in D : w[p] = WayFrom(w, stop, next, p)
  <2>1. equation(w)
    BY <1>8
  <2> HIDE DEF equation, w
  <2> QED
    BY <1>7, <2>1
<1>10. WayDown(h, idx) = w[Pos(h, idx)]
  BY DEF WayDown
<1>11. Pos(h, idx) \in D
  BY PosOf DEF D, N
<1> HIDE DEF w
<1>12. IsWay(D, stop, next, rank, Pos(h, idx), w[Pos(h, idx)])
  BY <1>5, <1>9, <1>11, WayFacts
<1> QED
  BY <1>10, <1>12 DEF D, N, stop, next, rank

-----------------------------------------------------------------------------
(***************************************************************************)
(* The order of a heap but for the element at one position, which may be   *)
(* larger than the one above it or smaller than the ones below it: those   *)
(* below it are still not larger than the one above it.                    *)
(***************************************************************************)
OrderedAround(h, at) ==
  \A p \in 2..Len(h.stack) :
    /\ p # at /\ HEAP_PARENT(p) # at => ScoreAt(h, p) <= ScoreAt(h, HEAP_PARENT(p))
    /\ at # 1 /\ HEAP_PARENT(p) = at => ScoreAt(h, p) <= ScoreAt(h, HEAP_PARENT(at))

NotAboveParent(h, at) == at # 1 => ScoreAt(h, at) <= ScoreAt(h, HEAP_PARENT(at))

NotBelowChildren(h, at) ==
  \A p \in 2..Len(h.stack) : HEAP_PARENT(p) = at => ScoreAt(h, p) <= ScoreAt(h, at)

LEMMA OrderedEverywhere ==
  ASSUME NEW X, NEW h \in HeapsOver(X), NEW at \in 1..Len(h.stack)
  PROVE  HeapOrdered(h) <=> /\ OrderedAround(h, at)
                            /\ NotAboveParent(h, at)
                            /\ NotBelowChildren(h, at)
<1>1. Len(h.stack) \in Nat /\ IsInjective(h.stack)
  BY HeapType
<1>2. \A p \in 2..Len(h.stack) :
        /\ ScoreAt(h, p) \in Nat
        /\ ScoreAt(h, HEAP_PARENT(p)) \in Nat
        /\ HEAP_PARENT(p) \in 1..Len(h.stack)
  BY <1>1, Parents, HeapType
<1>3. ASSUME HeapOrdered(h)
      PROVE  /\ OrderedAround(h, at)
             /\ NotAboveParent(h, at)
             /\ NotBelowChildren(h, at)
  <2>1. \A p \in 2..Len(h.stack) : ScoreAt(h, p) <= ScoreAt(h, HEAP_PARENT(p))
    BY <1>3 DEF HeapOrdered
  <2>2. at # 1 => at \in 2..Len(h.stack)
    BY <1>1
  <2>3. ASSUME NEW p \in 2..Len(h.stack), at # 1, HEAP_PARENT(p) = at
        PROVE  ScoreAt(h, p) <= ScoreAt(h, HEAP_PARENT(at))
    BY <1>2, <2>1, <2>2, <2>3
  <2> QED
    BY <2>1, <2>2, <2>3 DEF OrderedAround, NotAboveParent, NotBelowChildren
<1>4. ASSUME OrderedAround(h, at), NotAboveParent(h, at), NotBelowChildren(h, at)
      PROVE  HeapOrdered(h)
  BY <1>1, <1>4 DEF HeapOrdered, OrderedAround, NotAboveParent, NotBelowChildren
<1> QED
  BY <1>3, <1>4

(* Only the stack changes. *)
LEMMA WithStack ==
  ASSUME NEW X, NEW h \in HeapsOver(X), NEW T
  PROVE  [h EXCEPT !.stack = T] = [stack |-> T, score |-> h.score]
BY DEF HeapsOver

(***************************************************************************)
(* The element that moves up ends below one at least as large.             *)
(***************************************************************************)
LEMMA BubbledUp ==
  ASSUME NEW X, NEW h \in HeapsOver(X), NEW idx, HeapContains(h, idx),
         OrderedAround(h, Pos(h, idx))
  PROVE  LET g == BubbleUp(h, idx)
         IN  /\ g \in HeapsOver(X)
             /\ g.score = h.score
             /\ Len(g.stack) = Len(h.stack)
             /\ ToSet(g.stack) = ToSet(h.stack)
             /\ OrderedAround(g, Pos(g, idx))
             /\ NotAboveParent(g, Pos(g, idx))
             /\ NotBelowChildren(h, Pos(h, idx)) => NotBelowChildren(g, Pos(g, idx))
<1> DEFINE N == Len(h.stack)
           D == 1..N
           S == h.stack
           start == Pos(h, idx)
           way == WayUp(h, idx)
           stop == {p \in D : StopsUp(h, idx, p)}
           next == [p \in D |-> IF p = 1 THEN p ELSE HEAP_PARENT(p)]
           rank == [p \in D |-> p]
           g == BubbleUp(h, idx)
           score == h.score[idx]
<1>1. /\ N \in Nat /\ DOMAIN S = D /\ S \in Seq(X) /\ IsInjective(S)
      /\ h.score \in [X -> Nat]
      /\ \A p \in D : S[p] \in X /\ ScoreAt(h, p) \in Nat
  BY HeapType
<1>2. start \in D /\ S[start] = idx /\ idx \in X /\ ScoreAt(h, start) = score
  BY <1>1, PosOf DEF ScoreAt
<1>3. IsWay(D, stop, next, rank, start, way)
  BY WayUpFacts
<1>4. \A p \in D : p # 1 => /\ HEAP_PARENT(p) \in D
                            /\ HEAP_PARENT(p) < p
                            /\ next[p] = HEAP_PARENT(p)
  BY <1>1, Parents, SMTT(20)
<1>5. \A p \in D : p \notin stop => p # 1 /\ next[p] = HEAP_PARENT(p)
  BY <1>4 DEF StopsUp
<1>6. next \in [D -> D]
  BY <1>4
<1>7. /\ g.score = h.score
      /\ g = [stack |-> g.stack, score |-> h.score]
      /\ DOMAIN g.stack = D
      /\ g.stack \in [D -> X]
      /\ \A p \in D : g.stack[p] = IF p \notin way THEN S[p]
                                   ELSE IF p \in stop THEN idx ELSE S[next[p]]
  <2> DEFINE T == [p \in D |-> IF p \notin way THEN S[p]
                               ELSE IF StopsUp(h, idx, p) THEN idx ELSE S[HEAP_PARENT(p)]]
  <2>1. g = [h EXCEPT !.stack = T]
    BY <1>1 DEF BubbleUp
  <2>2. \A p \in D : T[p] = IF p \notin way THEN S[p]
                                   ELSE IF p \in stop THEN idx ELSE S[next[p]]
    BY <1>5
  <2>3. T \in [D -> X]
    BY <1>1, <1>2, <1>4 DEF StopsUp
  <2> HIDE DEF T
  <2>4. g = [stack |-> T, score |-> h.score]
    <3> HIDE DEF g
    <3> QED
      BY <2>1, WithStack
  <2> HIDE DEF g, S, D, way, stop, next
  <2> QED
    BY <2>2, <2>3, <2>4
<1>8. /\ g \in HeapsOver(X)
      /\ Len(g.stack) = N
      /\ ToSet(g.stack) = ToSet(S)
  <2>1. S[start] = idx
    BY <1>2
  <2>2. IsInjective(g.stack) /\ ToSet(g.stack) = ToSet(S)
    <3>1. \A p \in D : g.stack[p] = IF p \notin way THEN S[p]
                                   ELSE IF p \in stop THEN S[start] ELSE S[next[p]]
      BY <1>7, <2>1
    <3> DEFINE T == g.stack
    <3>2. DOMAIN S = D /\ IsInjective(S) /\ DOMAIN T = D
      BY <1>1, <1>7
    <3> HIDE DEF D, S, start, way, stop, next, rank, T
    <3>3. Moves(S, T, D, stop, next, start, way)
      BY <1>6, <3>1, <3>2 DEF Moves, T
    <3>4. IsInjective(T) /\ ToSet(T) = ToSet(S)
      BY <1>3, <3>2, <3>3, MovedAlong
    <3> QED
      BY <3>4 DEF T
  <2>3. g.stack \in Seq(X) /\ Len(g.stack) = N
    <3> DEFINE T == g.stack
    <3>1. T \in [1..N -> X] /\ N \in Nat
      BY <1>1, <1>7
    <3> HIDE DEF T
    <3>2. T \in Seq(X) /\ Len(T) = N
      BY <3>1, PushAll!FunctionIsSeq
    <3> QED
      BY <3>2 DEF T
  <2> HIDE DEF g
  <2> QED
    BY <1>1, <1>7, <2>2, <2>3 DEF HeapsOver
<1>9. PICK end \in way : /\ end \in stop
                         /\ \A p \in way : rank[end] <= rank[p]
                         /\ \A p \in way : p # end => p \notin stop
  BY <1>3 DEF IsWay
<1>10. \A p \in way : end <= p /\ p <= start /\ p \in D
  BY <1>3, <1>9 DEF IsWay
<1>11. \A p \in way : p # end => /\ p # 1
                                  /\ HEAP_PARENT(p) \in way
                                  /\ HEAP_PARENT(p) # start
                                  /\ ScoreAt(h, HEAP_PARENT(p)) < score
  <2> SUFFICES ASSUME NEW p \in way, p # end
               PROVE  /\ p # 1
                      /\ HEAP_PARENT(p) \in way
                      /\ HEAP_PARENT(p) # start
                      /\ ScoreAt(h, HEAP_PARENT(p)) < score
    OBVIOUS
  <2>1. p \in D /\ p \notin stop
    BY <1>9, <1>10
  <2>2. p # 1 /\ next[p] = HEAP_PARENT(p)
    BY <1>5, <2>1
  <2>3. next[p] \in way /\ next[p] # start
    <3> HIDE DEF way, stop, next, start
    <3> QED
      BY <1>3, <2>1 DEF IsWay
  <2>4. ~ (ScoreAt(h, HEAP_PARENT(p)) >= score)
    BY <2>1 DEF StopsUp
  <2>5. ScoreAt(h, HEAP_PARENT(p)) \in Nat /\ score \in Nat
    BY <1>1, <1>2, <1>4, <2>1, <2>2
  <2> QED
    BY <2>2, <2>3, <2>4, <2>5
<1>12. \A p \in way : p # start => \E q \in way : q # end /\ HEAP_PARENT(q) = p
  <2>1. \A p \in way : p # start => \E q \in way \ stop : next[q] = p
    <3> HIDE DEF way, stop, next, start
    <3> QED
      BY <1>3 DEF IsWay
  <2> QED
    BY <1>5, <1>9, <1>10, <2>1
<1>13. end \in D /\ Pos(g, idx) = end
  <2>1. end \in D /\ g.stack[end] = idx
    BY <1>7, <1>9, <1>10
  <2>2. HeapContains(g, idx)
    BY <1>7, <2>1 DEF HeapContains, ToSet
  <2>3. Pos(g, idx) \in D /\ g.stack[Pos(g, idx)] = idx
    <3> HIDE DEF g
    <3> QED
      BY <1>8, <2>2, PosOf
  <2>4. IsInjective(g.stack)
    BY <1>8 DEF HeapsOver
  <2> HIDE DEF g
  <2> QED
    BY <1>7, <2>1, <2>3, <2>4 DEF IsInjective
<1>14. \A p \in D : ScoreAt(g, p) = IF p \notin way THEN ScoreAt(h, p)
                                     ELSE IF p = end THEN score
                                     ELSE ScoreAt(h, HEAP_PARENT(p))
  <2> HIDE DEF g, way, next
  <2> QED
    BY <1>2, <1>5, <1>7, <1>9 DEF ScoreAt
<1> HIDE DEF g, way, stop, next, rank, start, score, S
<1>15. ASSUME NEW p \in 2..N
       PROVE  p \in D /\ HEAP_PARENT(p) \in D /\ HEAP_PARENT(p) < p
  BY <1>1, <1>4
<1>16. \A p \in D : ScoreAt(h, p) \in Nat
  BY <1>1
<1>17. score \in Nat /\ ScoreAt(h, start) = score /\ start \in way /\ start \in D
  BY <1>1, <1>2, <1>3 DEF IsWay, score
<1>18. \A p \in 2..N :
         /\ p # start /\ HEAP_PARENT(p) # start => ScoreAt(h, p) <= ScoreAt(h, HEAP_PARENT(p))
         /\ start # 1 /\ HEAP_PARENT(p) = start => ScoreAt(h, p) <= ScoreAt(h, HEAP_PARENT(start))
  BY DEF OrderedAround, N, start
<1>19. end # 1 => HEAP_PARENT(end) \in D /\ HEAP_PARENT(end) < end /\ ScoreAt(h, HEAP_PARENT(end)) >= score
  BY <1>1, <1>4, <1>9, <1>13 DEF stop, StopsUp, score
<1>20. end # 1 => HEAP_PARENT(end) \notin way
  BY <1>10, <1>13, <1>19
<1>21. end # start => ScoreAt(h, end) < score
  BY <1>11, <1>12
<1>22. NotAboveParent(g, end)
  BY <1>13, <1>14, <1>19, <1>20 DEF NotAboveParent
<1>23. OrderedAround(g, end)
  <2>1. ASSUME NEW p \in 2..N, p # end, HEAP_PARENT(p) # end
        PROVE  ScoreAt(g, p) <= ScoreAt(g, HEAP_PARENT(p))
    <3> DEFINE q == HEAP_PARENT(p)
    <3>0. p \in D /\ q \in D /\ q < p /\ p # 1 /\ q # end
      BY <1>15, <2>1
    <3>1. q \in way => q # 1 /\ HEAP_PARENT(q) \in D /\ ScoreAt(g, q) = ScoreAt(h, HEAP_PARENT(q))
      BY <1>4, <1>11, <1>14, <3>0
    <3>2. CASE p \in way
      <4>1. q \in way /\ q # start /\ HEAP_PARENT(q) # start /\ ScoreAt(g, p) = ScoreAt(h, q)
        BY <1>11, <1>14, <2>1, <3>0, <3>2
      <4>2. q \in 2..N
        BY <1>1, <3>0, <3>1, <4>1
      <4> QED
        BY <1>18, <3>1, <4>1, <4>2
    <3>3. CASE p \notin way /\ q \notin way
      BY <1>14, <1>17, <1>18, <3>0, <3>3
    <3>4. CASE p \notin way /\ q \in way
      <4>1. ScoreAt(g, p) = ScoreAt(h, p) /\ p # start
        BY <1>14, <1>17, <3>0, <3>4
      <4>2. CASE q = start
        BY <1>18, <3>1, <3>4, <4>1, <4>2
      <4>3. CASE q # start
        <5>1. ScoreAt(h, p) <= ScoreAt(h, q)
          BY <1>18, <4>1, <4>3
        <5>2. q \in 2..N /\ HEAP_PARENT(q) # start
          BY <1>1, <1>11, <3>0, <3>1, <3>4
        <5>3. ScoreAt(h, q) <= ScoreAt(h, HEAP_PARENT(q))
          BY <1>18, <4>3, <5>2
        <5> QED
          BY <1>16, <3>0, <3>1, <3>4, <4>1, <5>1, <5>3
      <4> QED
        BY <4>2, <4>3
    <3> QED
      BY <3>2, <3>3, <3>4
  <2>2. ASSUME NEW p \in 2..N, end # 1, HEAP_PARENT(p) = end
        PROVE  ScoreAt(g, p) <= ScoreAt(g, HEAP_PARENT(end))
    <3>0. p \in D /\ end < p /\ p # end
      BY <1>13, <1>15, <2>2
    <3>1. ScoreAt(g, HEAP_PARENT(end)) = ScoreAt(h, HEAP_PARENT(end))
      BY <1>14, <1>19, <1>20, <2>2
    <3>2. end # start => ScoreAt(h, end) <= ScoreAt(h, HEAP_PARENT(end))
      BY <1>16, <1>13, <1>17, <1>19, <1>21, <2>2
    <3>3. CASE p \in way
      <4>1. ScoreAt(g, p) = ScoreAt(h, end) /\ end # start
        BY <1>11, <1>14, <2>2, <3>0, <3>3
      <4> QED
        BY <3>1, <3>2, <4>1
    <3>4. CASE p \notin way
      <4>1. ScoreAt(g, p) = ScoreAt(h, p) /\ p # start
        BY <1>14, <1>17, <3>0, <3>4
      <4>2. CASE end = start
        BY <1>18, <2>2, <3>1, <4>1, <4>2
      <4>3. CASE end # start
        <5>1. ScoreAt(h, p) <= ScoreAt(h, end)
          BY <1>18, <2>2, <4>1, <4>3
        <5> QED
          BY <1>13, <1>16, <1>19, <2>2, <3>0, <3>1, <3>2, <4>1, <4>3, <5>1
      <4> QED
        BY <4>2, <4>3
    <3> QED
      BY <3>3, <3>4
  <2> QED
    BY <1>8, <2>1, <2>2 DEF OrderedAround
<1>24. ASSUME NotBelowChildren(h, start)
       PROVE  NotBelowChildren(g, end)
  <2> SUFFICES ASSUME NEW p \in 2..N, HEAP_PARENT(p) = end
               PROVE  ScoreAt(g, p) <= ScoreAt(g, end)
    BY <1>8 DEF NotBelowChildren
  <2>0. p \in D /\ end < p /\ p # end
    BY <1>13, <1>15
  <2>1. ScoreAt(g, end) = score
    BY <1>13, <1>14
  <2>2. CASE p \in way
    BY <1>11, <1>14, <1>21, <2>0, <2>1, <2>2, <1>16, <1>13, <1>17
  <2>3. CASE p \notin way /\ end = start
    BY <1>14, <1>17, <1>24, <2>0, <2>1, <2>3 DEF NotBelowChildren, N
  <2>4. CASE p \notin way /\ end # start
    <3>1. ScoreAt(h, p) <= ScoreAt(h, end)
      BY <1>17, <1>18, <2>4
    <3> QED
      BY <1>13, <1>14, <1>16, <1>17, <1>21, <2>0, <2>1, <2>4, <3>1
  <2> QED
    BY <2>2, <2>3, <2>4
<1> QED
  BY <1>7, <1>8, <1>13, <1>22, <1>23, <1>24 DEF g, N, S, start

(***************************************************************************)
(* The element that moves down ends above none that is larger.             *)
(***************************************************************************)
LEMMA BubbledDown ==
  ASSUME NEW X, NEW h \in HeapsOver(X), NEW idx, HeapContains(h, idx),
         OrderedAround(h, Pos(h, idx)), NotAboveParent(h, Pos(h, idx))
  PROVE  LET g == BubbleDown(h, idx)
         IN  /\ g \in HeapsOver(X)
             /\ g.score = h.score
             /\ Len(g.stack) = Len(h.stack)
             /\ ToSet(g.stack) = ToSet(h.stack)
             /\ HeapOrdered(g)
<1> DEFINE N == Len(h.stack)
           D == 1..N
           S == h.stack
           start == Pos(h, idx)
           way == WayDown(h, idx)
           stop == {p \in D : StopsDown(h, idx, p)}
           next == [p \in D |-> IF HEAP_CHILD(p) > Len(h.stack) THEN p
                                ELSE LargerChild(h, p)]
           rank == [p \in D |-> Len(h.stack) - p]
           g == BubbleDown(h, idx)
           score == h.score[idx]
<1>1. /\ N \in Nat /\ DOMAIN S = D /\ S \in Seq(X) /\ IsInjective(S)
      /\ h.score \in [X -> Nat]
      /\ \A p \in D : S[p] \in X /\ ScoreAt(h, p) \in Nat
  BY HeapType
<1>2. start \in D /\ S[start] = idx /\ idx \in X /\ ScoreAt(h, start) = score
  BY <1>1, PosOf DEF ScoreAt
<1>3. IsWay(D, stop, next, rank, start, way)
  BY WayDownFacts
<1>4. \A p \in D : HEAP_CHILD(p) \in Nat
  BY <1>1 DEF HEAP_CHILD
<1>5. \A p \in D : ~ (HEAP_CHILD(p) > N) =>
        /\ LargerChild(h, p) \in D
        /\ p < LargerChild(h, p)
        /\ HEAP_PARENT(LargerChild(h, p)) = p
        /\ next[p] = LargerChild(h, p)
        /\ \A q \in 2..N : HEAP_PARENT(q) = p => ScoreAt(h, q) <= ScoreAt(h, LargerChild(h, p))
  BY <1>1, <1>4, LargerChildOf
<1>6. \A p \in D : p \notin stop => ~ (HEAP_CHILD(p) > N) /\ next[p] = LargerChild(h, p)
  BY <1>5 DEF StopsDown
<1>7. next \in [D -> D]
  BY <1>5
<1>8. /\ g.score = h.score
      /\ g = [stack |-> g.stack, score |-> h.score]
      /\ DOMAIN g.stack = D
      /\ g.stack \in [D -> X]
      /\ \A p \in D : g.stack[p] = IF p \notin way THEN S[p]
                                   ELSE IF p \in stop THEN idx ELSE S[next[p]]
  <2> DEFINE T == [p \in D |-> IF p \notin way THEN S[p]
                               ELSE IF StopsDown(h, idx, p) THEN idx ELSE S[LargerChild(h, p)]]
  <2>1. g = [h EXCEPT !.stack = T]
    BY <1>1 DEF BubbleDown
  <2>2. \A p \in D : T[p] = IF p \notin way THEN S[p]
                                   ELSE IF p \in stop THEN idx ELSE S[next[p]]
    BY <1>6
  <2>3. T \in [D -> X]
    BY <1>1, <1>2, <1>5, <1>6
  <2> HIDE DEF T
  <2>4. g = [stack |-> T, score |-> h.score]
    <3> HIDE DEF g
    <3> QED
      BY <2>1, WithStack
  <2> HIDE DEF g, S, D, way, stop, next
  <2> QED
    BY <2>2, <2>3, <2>4
<1>9. /\ g \in HeapsOver(X)
      /\ Len(g.stack) = N
      /\ ToSet(g.stack) = ToSet(S)
  <2>1. S[start] = idx
    BY <1>2
  <2>2. IsInjective(g.stack) /\ ToSet(g.stack) = ToSet(S)
    <3>1. \A p \in D : g.stack[p] = IF p \notin way THEN S[p]
                                   ELSE IF p \in stop THEN S[start] ELSE S[next[p]]
      BY <1>8, <2>1
    <3> DEFINE T == g.stack
    <3>2. DOMAIN S = D /\ IsInjective(S) /\ DOMAIN T = D
      BY <1>1, <1>8
    <3> HIDE DEF D, S, start, way, stop, next, rank, T
    <3>3. Moves(S, T, D, stop, next, start, way)
      BY <1>7, <3>1, <3>2 DEF Moves, T
    <3>4. IsInjective(T) /\ ToSet(T) = ToSet(S)
      BY <1>3, <3>2, <3>3, MovedAlong
    <3> QED
      BY <3>4 DEF T
  <2>3. g.stack \in Seq(X) /\ Len(g.stack) = N
    <3> DEFINE T == g.stack
    <3>1. T \in [1..N -> X] /\ N \in Nat
      BY <1>1, <1>8
    <3> HIDE DEF T
    <3>2. T \in Seq(X) /\ Len(T) = N
      BY <3>1, PushAll!FunctionIsSeq
    <3> QED
      BY <3>2 DEF T
  <2> HIDE DEF g
  <2> QED
    BY <1>1, <1>8, <2>2, <2>3 DEF HeapsOver
<1>10. PICK end \in way : /\ end \in stop
                          /\ \A p \in way : rank[end] <= rank[p]
                          /\ \A p \in way : p # end => p \notin stop
  BY <1>3 DEF IsWay
<1>11. \A p \in way : start <= p /\ p <= end /\ p \in D
  <2>1. way \subseteq D /\ \A p \in way : rank[p] <= rank[start]
    BY <1>3 DEF IsWay
  <2>2. \A p \in D : rank[p] = N - p /\ p \in Nat
    OBVIOUS
  <2>3. start \in D /\ end \in D
    BY <1>2, <1>10, <2>1
  <2> HIDE DEF rank, way, start, D
  <2>4. ASSUME NEW p \in way
        PROVE  start <= p /\ p <= end /\ p \in D
    <3>1. p \in D /\ rank[p] <= rank[start] /\ rank[end] <= rank[p]
      BY <1>10, <2>1, <2>4
    <3>2. N - p <= N - start /\ N - end <= N - p
      BY <2>2, <2>3, <3>1
    <3>3. p \in Nat /\ start \in Nat /\ end \in Nat /\ N \in Nat
      BY <1>1, <2>2, <2>3, <3>1
    <3> HIDE DEF N
    <3> QED
      BY <3>1, <3>2, <3>3
  <2> QED
    BY <2>4
<1>12. \A p \in way : p # end => /\ LargerChild(h, p) \in way
                                  /\ LargerChild(h, p) # start
                                  /\ score < ScoreAt(h, LargerChild(h, p))
  <2> SUFFICES ASSUME NEW p \in way, p # end
               PROVE  /\ LargerChild(h, p) \in way
                      /\ LargerChild(h, p) # start
                      /\ score < ScoreAt(h, LargerChild(h, p))
    OBVIOUS
  <2>1. p \in D /\ p \notin stop
    BY <1>10, <1>11
  <2>2. next[p] = LargerChild(h, p) /\ LargerChild(h, p) \in D
    BY <1>5, <1>6, <2>1
  <2>3. next[p] \in way /\ next[p] # start
    <3> HIDE DEF way, stop, next, start
    <3> QED
      BY <1>3, <2>1 DEF IsWay
  <2>4. ~ (ScoreAt(h, LargerChild(h, p)) <= score)
    BY <2>1 DEF StopsDown
  <2>5. ScoreAt(h, LargerChild(h, p)) \in Nat /\ score \in Nat
    BY <1>1, <1>2, <2>2
  <2> QED
    BY <2>2, <2>3, <2>4, <2>5
<1>13. \A p \in way : p # start => \E q \in way : q # end /\ LargerChild(h, q) = p
  <2>1. \A p \in way : p # start => \E q \in way \ stop : next[q] = p
    <3> HIDE DEF way, stop, next, start
    <3> QED
      BY <1>3 DEF IsWay
  <2> QED
    BY <1>6, <1>10, <1>11, <2>1
<1>14. \A p \in D : ScoreAt(g, p) = IF p \notin way THEN ScoreAt(h, p)
                                     ELSE IF p = end THEN score
                                     ELSE ScoreAt(h, LargerChild(h, p))
  <2> HIDE DEF g, way, next
  <2> QED
    BY <1>2, <1>6, <1>8, <1>10 DEF ScoreAt
<1>15. \A p \in D : p # end /\ p \in way => ~ (HEAP_CHILD(p) > N)
  BY <1>6, <1>10
<1>16. HEAP_CHILD(end) > N \/ ScoreAt(h, LargerChild(h, end)) <= score
  BY <1>10 DEF StopsDown
<1> HIDE DEF g, way, stop, next, rank, start, score, S
<1>17. ASSUME NEW p \in 2..N
       PROVE  /\ p \in D /\ HEAP_PARENT(p) \in D /\ HEAP_PARENT(p) < p
              /\ HEAP_CHILD(HEAP_PARENT(p)) <= p
  <2>1. p \in D /\ HEAP_PARENT(p) \in D /\ HEAP_PARENT(p) < p
    BY <1>1, Parents
  <2>2. HEAP_CHILD(HEAP_PARENT(p)) <= p
    BY <1>1 DEF HEAP_PARENT, HEAP_CHILD
  <2> QED
    BY <2>1, <2>2
<1>18. \A p \in D : ScoreAt(h, p) \in Nat
  BY <1>1
<1>19. score \in Nat /\ ScoreAt(h, start) = score /\ start \in way /\ start \in D /\ end \in D
  BY <1>1, <1>2, <1>3, <1>11 DEF IsWay, score
<1>20. \A p \in 2..N :
         /\ p # start /\ HEAP_PARENT(p) # start => ScoreAt(h, p) <= ScoreAt(h, HEAP_PARENT(p))
         /\ start # 1 /\ HEAP_PARENT(p) = start => ScoreAt(h, p) <= ScoreAt(h, HEAP_PARENT(start))
  BY DEF OrderedAround, N, start
<1>21. start # 1 => score <= ScoreAt(h, HEAP_PARENT(start))
  BY <1>19 DEF NotAboveParent, start
<1>22. ASSUME NEW p \in 2..N
       PROVE  ScoreAt(g, p) <= ScoreAt(g, HEAP_PARENT(p))
  <2> DEFINE q == HEAP_PARENT(p)
  <2>0. p \in D /\ q \in D /\ q < p /\ p # 1 /\ HEAP_CHILD(q) <= p /\ HEAP_CHILD(q) \in Nat
    BY <1>4, <1>17
  <2>1. CASE q \in way /\ q # end
    <3> DEFINE c == LargerChild(h, q)
    <3>1. /\ ScoreAt(g, q) = ScoreAt(h, c) /\ c \in D /\ HEAP_PARENT(c) = q /\ c # start
          /\ c \in way /\ score < ScoreAt(h, c) /\ ScoreAt(h, p) <= ScoreAt(h, c) /\ q < c
      BY <1>5, <1>12, <1>14, <1>15, <2>0, <2>1
    <3>2. CASE p \in way
      <4>1. p # start
        BY <1>11, <1>19, <2>0, <2>1
      <4>2. PICK r \in way : r # end /\ LargerChild(h, r) = p
        BY <1>13, <3>2, <4>1
      <4>3. r = q
        BY <1>5, <1>11, <1>15, <4>2
      <4>4. p = c
        BY <4>2, <4>3
      <4>5. CASE p = end
        BY <1>14, <1>18, <1>19, <2>0, <3>1, <3>2, <4>5
      <4>6. CASE p # end
        <5> DEFINE d == LargerChild(h, p)
        <5>1. ScoreAt(g, p) = ScoreAt(h, d) /\ d \in D /\ HEAP_PARENT(d) = p /\ d # start /\ p < d
          BY <1>5, <1>12, <1>14, <1>15, <2>0, <3>2, <4>6
        <5>2. d \in 2..N
          BY <1>1, <2>0, <5>1
        <5>3. ScoreAt(h, d) <= ScoreAt(h, p)
          BY <1>20, <4>1, <5>1, <5>2
        <5> QED
          BY <3>1, <4>4, <5>1, <5>3
      <4> QED
        BY <4>5, <4>6
    <3>3. CASE p \notin way
      BY <1>14, <2>0, <3>1, <3>3
    <3> QED
      BY <3>2, <3>3
  <2>2. CASE q = end
    <3>1. p \notin way /\ end \in way
      BY <1>11, <2>0, <2>2, <1>1, <1>10
    <3>2. ~ (HEAP_CHILD(end) > N)
      BY <1>1, <2>0, <2>2
    <3>3. ScoreAt(h, p) <= ScoreAt(h, LargerChild(h, end)) /\ LargerChild(h, end) \in D
      BY <1>5, <2>0, <2>2, <3>2
    <3> QED
      BY <1>14, <1>16, <1>18, <1>19, <2>0, <2>2, <3>1, <3>2, <3>3
  <2>3. CASE q \notin way
    <3>1. ScoreAt(g, q) = ScoreAt(h, q) /\ q # start
      BY <1>14, <1>19, <2>0, <2>3
    <3>2. CASE p \in way
      <4>1. p = start
        <5>1. ASSUME p # start
              PROVE  FALSE
          <6>1. PICK r \in way : r # end /\ LargerChild(h, r) = p
            BY <1>13, <3>2, <5>1
          <6>2. r = q
            BY <1>5, <1>11, <1>15, <6>1
          <6> QED
            BY <2>3, <6>2
        <5> QED
          BY <5>1
      <4>2. CASE start = end
        BY <1>14, <1>19, <1>21, <2>0, <3>1, <4>1, <4>2
      <4>3. CASE start # end
        <5> DEFINE d == LargerChild(h, p)
        <5>1. ScoreAt(g, p) = ScoreAt(h, d) /\ d \in D /\ HEAP_PARENT(d) = p /\ p < d
          BY <1>5, <1>12, <1>14, <1>15, <2>0, <3>2, <4>1, <4>3
        <5>2. d \in 2..N
          BY <1>1, <2>0, <5>1
        <5> QED
          BY <1>20, <2>0, <3>1, <4>1, <5>1, <5>2
      <4> QED
        BY <4>2, <4>3
    <3>3. CASE p \notin way
      BY <1>14, <1>19, <1>20, <2>0, <3>1, <3>3
    <3> QED
      BY <3>2, <3>3
  <2> QED
    BY <2>1, <2>2, <2>3
<1>23. HeapOrdered(g)
  BY <1>9, <1>22 DEF HeapOrdered, HeapsOver
<1> QED
  BY <1>8, <1>9, <1>23 DEF g, N, S

-----------------------------------------------------------------------------
(* The heaps that kissat_check_heap accepts. *)
Heaps(X) == {h \in HeapsOver(X) : HeapOrdered(h)}

LEMMA EmptyHeap ==
  ASSUME NEW X, NEW score \in [X -> Nat]
  PROVE  /\ [stack |-> <<>>, score |-> score] \in Heaps(X)
         /\ ToSet(<<>>) = {}
BY DEF Heaps, HeapsOver, HeapOrdered, IsInjective, ToSet

(* No element is larger than the first one. *)
LEMMA RootIsMaximum ==
  ASSUME NEW X, NEW h \in Heaps(X), NEW p \in 1..Len(h.stack)
  PROVE  ScoreAt(h, p) <= ScoreAt(h, 1)
<1> DEFINE D == 1..Len(h.stack)
           P == {q \in D : ScoreAt(h, q) <= ScoreAt(h, 1)}
           rank == [q \in D |-> q]
<1>1. /\ Len(h.stack) \in Nat
      /\ \A q \in D : ScoreAt(h, q) \in Nat
  <2>1. h \in HeapsOver(X)
    BY DEF Heaps
  <2> QED
    BY <2>1, HeapType
<1>2. ASSUME NEW q \in D, \A r \in D : rank[r] < rank[q] => r \in P
      PROVE  q \in P
  <2>1. CASE q = 1
    BY <1>1, <2>1
  <2>2. CASE q # 1
    <3>1. q \in 2..Len(h.stack) /\ HEAP_PARENT(q) \in D /\ HEAP_PARENT(q) < q
      BY <1>1, <2>2, Parents
    <3>2. ScoreAt(h, q) <= ScoreAt(h, HEAP_PARENT(q))
      BY <3>1 DEF Heaps, HeapOrdered
    <3>3. ScoreAt(h, HEAP_PARENT(q)) <= ScoreAt(h, 1)
      BY <1>2, <3>1
    <3>4. 1 \in D
      BY <1>1
    <3> QED
      BY <1>1, <3>1, <3>2, <3>3, <3>4
  <2> QED
    BY <2>1, <2>2
<1>3. rank \in [D -> Nat]
  OBVIOUS
<1>4. D \subseteq P
  <2> HIDE DEF P, rank, D
  <2> QED
    BY <1>2, <1>3, PushAllCounting, PushAll!RankInduction
<1> QED
  BY <1>4

LEMMA Pushed ==
  ASSUME NEW X, NEW h \in Heaps(X), NEW idx \in X, ~HeapContains(h, idx)
  PROVE  LET g == PushHeap(h, idx)
         IN  /\ g \in Heaps(X)
             /\ g.score = h.score
             /\ ToSet(g.stack) = ToSet(h.stack) \cup {idx}
<1> DEFINE N == Len(h.stack)
           T == Append(h.stack, idx)
           f == [h EXCEPT !.stack = T]
           g == BubbleUp(f, idx)
<1>1. h \in HeapsOver(X)
  BY DEF Heaps
<1>2. /\ N \in Nat
      /\ h.stack \in Seq(X)
      /\ h.score \in [X -> Nat]
      /\ IsInjective(h.stack)
      /\ DOMAIN h.stack = 1..N
  BY <1>1, HeapType
<1>3. /\ T \in Seq(X)
      /\ Len(T) = N + 1
      /\ DOMAIN T = 1..(N + 1)
      /\ \A p \in 1..N : T[p] = h.stack[p]
      /\ T[N + 1] = idx
  BY <1>2
<1>4. \A p \in 1..N : h.stack[p] # idx
  BY <1>2 DEF HeapContains, ToSet
<1>5. IsInjective(T) /\ ToSet(T) = ToSet(h.stack) \cup {idx}
  <2> HIDE DEF T, N
  <2>0. \A p \in 1..(N + 1) : p \in 1..N \/ p = N + 1
    BY <1>2
  <2>1. IsInjective(T)
    <3>1. \A p, q \in 1..N : h.stack[p] = h.stack[q] => p = q
      BY <1>2 DEF IsInjective
    <3>2. ASSUME NEW p \in 1..(N + 1), NEW q \in 1..(N + 1), T[p] = T[q]
          PROVE  p = q
      BY <1>3, <1>4, <2>0, <3>1, <3>2
    <3> QED
      BY <1>3, <3>2 DEF IsInjective
  <2>2. ToSet(T) = ToSet(h.stack) \cup {idx}
    <3>1. N + 1 \in 1..(N + 1) /\ 1..N \subseteq 1..(N + 1)
      BY <1>2
    <3>2. ToSet(h.stack) = {h.stack[p] : p \in 1..N}
      BY <1>2 DEF ToSet
    <3>3. ToSet(T) = {T[p] : p \in 1..(N + 1)}
      BY <1>3 DEF ToSet
    <3> QED
      BY <1>3, <2>0, <3>1, <3>2, <3>3
  <2> QED
    BY <2>1, <2>2
<1> HIDE DEF T, N
<1>6. f = [stack |-> T, score |-> h.score]
  BY <1>1, WithStack
<1> HIDE DEF f
<1>7. f \in HeapsOver(X) /\ f.stack = T /\ f.score = h.score
  BY <1>2, <1>3, <1>5, <1>6 DEF HeapsOver
<1>8. HeapContains(f, idx)
  BY <1>5, <1>7 DEF HeapContains
<1>9. Pos(f, idx) = N + 1
  <2>1. Pos(f, idx) \in 1..(N + 1) /\ f.stack[Pos(f, idx)] = idx
    BY <1>3, <1>7, <1>8, PosOf
  <2> QED
    BY <1>2, <1>3, <1>4, <1>7, <2>1
<1>10. /\ OrderedAround(f, N + 1)
       /\ NotBelowChildren(f, N + 1)
  <2>1. ASSUME NEW p \in 2..(N + 1)
        PROVE  /\ HEAP_PARENT(p) \in 1..(N + 1)
               /\ HEAP_PARENT(p) # N + 1
               /\ p # N + 1 => ScoreAt(f, p) <= ScoreAt(f, HEAP_PARENT(p))
    <3>1. HEAP_PARENT(p) \in 1..(N + 1) /\ HEAP_PARENT(p) < p
      BY <1>2, Parents
    <3>2. ASSUME p # N + 1
          PROVE  ScoreAt(f, p) <= ScoreAt(f, HEAP_PARENT(p))
      <4>1. p \in 2..N /\ HEAP_PARENT(p) \in 1..N /\ p \in 1..N
        BY <1>2, <3>1, <3>2
      <4>2. ScoreAt(h, p) <= ScoreAt(h, HEAP_PARENT(p))
        BY <4>1 DEF Heaps, HeapOrdered, N
      <4> QED
        BY <1>3, <1>7, <4>1, <4>2 DEF ScoreAt
    <3> QED
      BY <1>2, <3>1, <3>2
  <2> QED
    BY <1>3, <1>7, <2>1 DEF OrderedAround, NotBelowChildren
<1>11. /\ g \in HeapsOver(X)
       /\ g.score = h.score
       /\ Len(g.stack) = N + 1
       /\ ToSet(g.stack) = ToSet(T)
       /\ OrderedAround(g, Pos(g, idx))
       /\ NotAboveParent(g, Pos(g, idx))
       /\ NotBelowChildren(g, Pos(g, idx))
  BY <1>3, <1>7, <1>8, <1>9, <1>10, BubbledUp
<1>12. PushHeap(h, idx) = g
  BY DEF PushHeap, f, T
<1> HIDE DEF g
<1>13. HeapContains(g, idx)
  BY <1>5, <1>11 DEF HeapContains
<1>14. Pos(g, idx) \in 1..Len(g.stack)
  BY <1>11, <1>13, PosOf
<1>15. HeapOrdered(g)
  BY <1>11, <1>14, OrderedEverywhere
<1> QED
  BY <1>5, <1>11, <1>12, <1>15 DEF Heaps

(* The last element in the place of idx may be too large or too small there. *)
LEMMA Replaced ==
  ASSUME NEW X, NEW h \in Heaps(X), NEW idx, HeapContains(h, idx)
  PROVE  LET g    == Replace(h, idx)
             last == Last(h.stack)
         IN  /\ g \in HeapsOver(X)
             /\ g.score = h.score
             /\ Len(g.stack) = Len(h.stack) - 1
             /\ ToSet(g.stack) = ToSet(h.stack) \ {idx}
             /\ last = idx => g \in Heaps(X)
             /\ last # idx => /\ HeapContains(g, last)
                              /\ Pos(g, last) = Pos(h, idx)
                              /\ OrderedAround(g, Pos(h, idx))
<1> DEFINE N == Len(h.stack)
           S == h.stack
           last == Last(S)
           at == Pos(h, idx)
           T == [p \in 1..(N - 1) |-> IF S[p] = idx THEN last ELSE S[p]]
           g == Replace(h, idx)
<1>1. h \in HeapsOver(X)
  BY DEF Heaps
<1>2. /\ N \in Nat
      /\ h.score \in [X -> Nat]
      /\ DOMAIN S = 1..N
      /\ \A p \in 1..N : S[p] \in X /\ ScoreAt(h, p) \in Nat
      /\ \A p, q \in 1..N : S[p] = S[q] => p = q
  BY <1>1, HeapType DEF IsInjective
<1>3. at \in 1..N /\ S[at] = idx
  BY <1>1, PosOf
<1>4. N > 0 /\ last = S[N] /\ N - 1 \in Nat
  BY <1>2, <1>3 DEF Last
<1>5. /\ T \in [1..(N - 1) -> X]
      /\ \A p \in 1..(N - 1) : p \in 1..N /\ p # N /\ T[p] = IF p = at THEN last ELSE S[p]
  BY <1>2, <1>3, <1>4, SMTT(20)
<1>6. T \in Seq(X) /\ Len(T) = N - 1 /\ DOMAIN T = 1..(N - 1)
  <2> HIDE DEF T, N
  <2> QED
    BY <1>4, <1>5, PushAll!FunctionIsSeq
<1>7. g = [stack |-> T, score |-> h.score]
  <2>1. g = [h EXCEPT !.stack = T]
    BY DEF Replace
  <2> HIDE DEF T, g
  <2> QED
    BY <1>1, <2>1, WithStack
<1> HIDE DEF T, S, N, last, at, g
<1>8. IsInjective(T)
  <2> SUFFICES ASSUME NEW p \in 1..(N - 1), NEW q \in 1..(N - 1), T[p] = T[q]
               PROVE  p = q
    BY <1>6 DEF IsInjective
  <2>1. p \in 1..N /\ q \in 1..N /\ N \in 1..N /\ p # N /\ q # N
    BY <1>4, <1>5, <1>2
  <2> QED
    BY <1>2, <1>3, <1>4, <1>5, <2>1
<1>9. ToSet(T) = ToSet(S) \ {idx}
  <2>1. ToSet(S) = {S[p] : p \in 1..N} /\ ToSet(T) = {T[p] : p \in 1..(N - 1)}
    BY <1>2, <1>6 DEF ToSet
  <2>2. ASSUME NEW p \in 1..N, S[p] # idx
        PROVE  \E q \in 1..(N - 1) : T[q] = S[p]
    <3>1. CASE p = N
      <4>1. at \in 1..(N - 1)
        BY <1>2, <1>3, <1>4, <2>2, <3>1
      <4> QED
        BY <1>4, <1>5, <3>1, <4>1
    <3>2. CASE p # N
      <4>1. p \in 1..(N - 1) /\ p # at
        BY <1>2, <1>3, <2>2, <3>2
      <4> QED
        BY <1>5, <4>1
    <3> QED
      BY <3>1, <3>2
  <2>3. ASSUME NEW q \in 1..(N - 1)
        PROVE  T[q] # idx /\ \E p \in 1..N : T[q] = S[p]
    <3>1. N \in 1..N /\ q \in 1..N /\ q # N
      BY <1>2, <1>4
    <3>2. CASE q = at
      BY <1>2, <1>3, <1>4, <1>5, <3>1, <3>2
    <3>3. CASE q # at
      BY <1>2, <1>3, <1>5, <3>1, <3>3
    <3> QED
      BY <3>2, <3>3
  <2> QED
    BY <2>1, <2>2, <2>3
<1>10. /\ g \in HeapsOver(X)
       /\ g.score = h.score
       /\ g.stack = T
       /\ Len(g.stack) = N - 1
  BY <1>2, <1>6, <1>7, <1>8 DEF HeapsOver
<1>11. \A p \in 2..N : ScoreAt(h, p) <= ScoreAt(h, HEAP_PARENT(p))
  BY DEF Heaps, HeapOrdered, N
<1>12. \A p \in 1..(N - 1) : p # at => ScoreAt(g, p) = ScoreAt(h, p)
  BY <1>5, <1>10 DEF ScoreAt, S
<1>13. ASSUME NEW p \in 2..(N - 1)
       PROVE  /\ p \in 1..(N - 1) /\ p \in 2..N /\ p \in 1..N /\ p # 1
              /\ HEAP_PARENT(p) \in 1..(N - 1)
              /\ HEAP_PARENT(p) \in 1..N
              /\ HEAP_PARENT(p) < p
  <2>1. p \in Nat /\ p > 1 /\ p <= N - 1
    BY <1>2
  <2>2. HEAP_PARENT(p) \in Nat /\ 1 <= HEAP_PARENT(p) /\ HEAP_PARENT(p) < p
    BY <2>1, Parents
  <2> QED
    BY <1>2, <2>1, <2>2
<1>14. ASSUME last = idx
       PROVE  g \in Heaps(X)
  <2>1. at = N
    <3>1. N \in 1..N
      BY <1>2, <1>4
    <3> QED
      BY <1>2, <1>3, <1>4, <1>14, <3>1
  <2>2. ASSUME NEW p \in 2..(N - 1)
        PROVE  ScoreAt(g, p) <= ScoreAt(g, HEAP_PARENT(p))
    <3>1. p # at /\ HEAP_PARENT(p) # at
      BY <1>2, <1>13, <2>1
    <3>2. /\ ScoreAt(g, p) = ScoreAt(h, p)
          /\ ScoreAt(g, HEAP_PARENT(p)) = ScoreAt(h, HEAP_PARENT(p))
      BY <1>12, <1>13, <3>1
    <3>3. ScoreAt(h, p) <= ScoreAt(h, HEAP_PARENT(p))
      BY <1>11, <1>13
    <3> QED
      BY <3>2, <3>3
  <2> QED
    BY <1>8, <1>10, <2>2 DEF Heaps, HeapOrdered
<1>15. ASSUME last # idx
       PROVE  /\ HeapContains(g, last)
              /\ Pos(g, last) = at
              /\ OrderedAround(g, at)
  <2>1. at \in 1..(N - 1)
    BY <1>2, <1>3, <1>4, <1>15
  <2>2. HeapContains(g, last)
    BY <1>5, <1>6, <1>10, <2>1 DEF HeapContains, ToSet
  <2>3. Pos(g, last) = at
    <3>1. Pos(g, last) \in 1..(N - 1) /\ T[Pos(g, last)] = last
      BY <1>10, <2>2, PosOf
    <3> QED
      BY <1>5, <1>6, <1>8, <2>1, <3>1 DEF IsInjective
  <2>4. ASSUME NEW p \in 2..(N - 1), p # at, HEAP_PARENT(p) # at
        PROVE  ScoreAt(g, p) <= ScoreAt(g, HEAP_PARENT(p))
    BY <1>11, <1>12, <1>13, <2>4
  <2>5. ASSUME NEW p \in 2..(N - 1), at # 1, HEAP_PARENT(p) = at
        PROVE  ScoreAt(g, p) <= ScoreAt(g, HEAP_PARENT(at))
    <3>1. at \in 2..N /\ at \in 2..(N - 1)
      BY <1>2, <2>1, <2>5
    <3>2. HEAP_PARENT(at) \in 1..(N - 1) /\ HEAP_PARENT(at) # at /\ HEAP_PARENT(at) \in 1..N
      BY <1>2, <1>13, <3>1
    <3>3. ScoreAt(h, p) <= ScoreAt(h, at) /\ ScoreAt(h, at) <= ScoreAt(h, HEAP_PARENT(at))
      BY <1>11, <1>13, <2>5, <3>1
    <3>4. p # at
      BY <1>2, <1>13, <2>5
    <3>5. /\ ScoreAt(h, p) \in Nat /\ ScoreAt(h, at) \in Nat /\ ScoreAt(h, HEAP_PARENT(at)) \in Nat
      BY <1>2, <1>13, <2>1, <1>3, <3>2
    <3> QED
      BY <1>12, <1>13, <3>2, <3>3, <3>4, <3>5
  <2> QED
    BY <1>10, <2>2, <2>3, <2>4, <2>5 DEF OrderedAround
<1> QED
  BY <1>9, <1>10, <1>14, <1>15 DEF N, S, last, at, g

(* kissat_pop_heap takes off what it is told to. *)
LEMMA Popped ==
  ASSUME NEW X, NEW h \in Heaps(X), NEW idx, HeapContains(h, idx)
  PROVE  LET g == PopHeap(h, idx)
         IN  /\ g \in Heaps(X)
             /\ g.score = h.score
             /\ ToSet(g.stack) = ToSet(h.stack) \ {idx}
<1> DEFINE last == Last(h.stack)
           f == Replace(h, idx)
           u == BubbleUp(f, last)
           g == BubbleDown(u, last)
<1>1. CASE last = idx
  <2>1. PopHeap(h, idx) = f
    BY <1>1 DEF PopHeap
  <2>2. /\ f \in Heaps(X)
        /\ f.score = h.score
        /\ ToSet(f.stack) = ToSet(h.stack) \ {idx}
    BY <1>1, Replaced
  <2> QED
    BY <2>1, <2>2
<1>2. CASE last # idx
  <2>1. PopHeap(h, idx) = g
    BY <1>2 DEF PopHeap
  <2>2. /\ f \in HeapsOver(X)
        /\ f.score = h.score
        /\ ToSet(f.stack) = ToSet(h.stack) \ {idx}
        /\ HeapContains(f, last)
        /\ OrderedAround(f, Pos(f, last))
    BY <1>2, Replaced
  <2> HIDE DEF f, last
  <2>3. /\ u \in HeapsOver(X)
        /\ u.score = f.score
        /\ ToSet(u.stack) = ToSet(f.stack)
        /\ OrderedAround(u, Pos(u, last))
        /\ NotAboveParent(u, Pos(u, last))
    BY <2>2, BubbledUp
  <2> HIDE DEF u
  <2>4. HeapContains(u, last)
    BY <2>2, <2>3 DEF HeapContains
  <2>5. /\ g \in HeapsOver(X)
        /\ g.score = u.score
        /\ ToSet(g.stack) = ToSet(u.stack)
        /\ HeapOrdered(g)
    BY <2>3, <2>4, BubbledDown
  <2> HIDE DEF g
  <2> QED
    BY <2>1, <2>2, <2>3, <2>5 DEF Heaps
<1> QED
  BY <1>1, <1>2

(* kissat_pop_max_heap takes off one that no other one exceeds. *)
LEMMA PoppedMax ==
  ASSUME NEW X, NEW h \in Heaps(X), h.stack # <<>>
  PROVE  LET g   == PopMaxHeap(h)
             max == MaxHeap(h)
         IN  /\ g \in Heaps(X)
             /\ g.score = h.score
             /\ max \in ToSet(h.stack)
             /\ ToSet(g.stack) = ToSet(h.stack) \ {max}
             /\ \A j \in ToSet(h.stack) : h.score[j] <= h.score[max]
<1> DEFINE N == Len(h.stack)
           max == MaxHeap(h)
           last == Last(h.stack)
           f == Replace(h, max)
           g == BubbleDown(f, last)
<1>1. h \in HeapsOver(X)
  BY DEF Heaps
<1>2. /\ N \in Nat
      /\ h.stack \in Seq(X)
      /\ DOMAIN h.stack = 1..N
      /\ IsInjective(h.stack)
  BY <1>1, HeapType
<1>3. N > 0 /\ 1 \in 1..N /\ max = h.stack[1] /\ last = h.stack[N]
  BY <1>2 DEF MaxHeap, Last
<1>4. HeapContains(h, max) /\ max \in ToSet(h.stack)
  BY <1>2, <1>3 DEF HeapContains, ToSet
<1>5. Pos(h, max) = 1
  <2>1. Pos(h, max) \in 1..N /\ h.stack[Pos(h, max)] = max
    BY <1>1, <1>4, PosOf
  <2> QED
    BY <1>2, <1>3, <2>1 DEF IsInjective
<1>6. \A j \in ToSet(h.stack) : h.score[j] <= h.score[max]
  <2> SUFFICES ASSUME NEW p \in 1..N
               PROVE  h.score[h.stack[p]] <= h.score[max]
    BY <1>2 DEF ToSet
  <2>1. ScoreAt(h, p) <= ScoreAt(h, 1)
    BY RootIsMaximum
  <2> QED
    BY <1>3, <2>1 DEF ScoreAt
<1>7. CASE N = 1
  <2>1. PopMaxHeap(h) = f /\ last = max
    BY <1>3, <1>7 DEF PopMaxHeap
  <2>2. /\ f \in Heaps(X)
        /\ f.score = h.score
        /\ ToSet(f.stack) = ToSet(h.stack) \ {max}
    <3> HIDE DEF max
    <3> QED
      BY <1>4, <2>1, Replaced
  <2> QED
    BY <1>4, <1>6, <2>1, <2>2
<1>8. CASE N # 1
  <2>1. PopMaxHeap(h) = g
    BY <1>8 DEF PopMaxHeap
  <2>2. last # max
    <3>1. N \in 1..N
      BY <1>2, <1>3
    <3> QED
      BY <1>2, <1>3, <1>8, <3>1 DEF IsInjective
  <2> HIDE DEF max
  <2>3. /\ f \in HeapsOver(X)
        /\ f.score = h.score
        /\ ToSet(f.stack) = ToSet(h.stack) \ {max}
        /\ HeapContains(f, last)
        /\ Pos(f, last) = 1
        /\ OrderedAround(f, Pos(f, last))
    BY <1>4, <1>5, <2>2, Replaced
  <2> HIDE DEF f, last
  <2>4. NotAboveParent(f, Pos(f, last))
    BY <2>3 DEF NotAboveParent
  <2>5. /\ g \in HeapsOver(X)
        /\ g.score = f.score
        /\ ToSet(g.stack) = ToSet(f.stack)
        /\ HeapOrdered(g)
    BY <2>3, <2>4, BubbledDown
  <2> HIDE DEF g
  <2> QED
    BY <1>4, <1>6, <2>1, <2>3, <2>5 DEF Heaps, max
<1> QED
  BY <1>7, <1>8

LEMMA WithScore ==
  ASSUME NEW X, NEW h \in HeapsOver(X), NEW idx \in X, NEW n \in Nat
  PROVE  [h EXCEPT !.score[idx] = n]
           = [stack |-> h.stack, score |-> [h.score EXCEPT ![idx] = n]]
<1> DEFINE score == [h.score EXCEPT ![idx] = n]
<1>1. [h EXCEPT !.score[idx] = n] = [h EXCEPT !.score = score]
  OBVIOUS
<1> HIDE DEF score
<1>2. [h EXCEPT !.score = score] = [stack |-> h.stack, score |-> score]
  BY DEF HeapsOver
<1> QED
  BY <1>1, <1>2 DEF score

(* kissat_update_heap. *)
LEMMA Updated ==
  ASSUME NEW X, NEW h \in Heaps(X), NEW idx \in X, NEW n \in Nat
  PROVE  LET g == UpdateHeap(h, idx, n)
         IN  /\ g \in Heaps(X)
             /\ g.score = [h.score EXCEPT ![idx] = n]
             /\ ToSet(g.stack) = ToSet(h.stack)
<1> DEFINE f == [h EXCEPT !.score[idx] = n]
           N == Len(h.stack)
           at == Pos(h, idx)
<1>1. h \in HeapsOver(X)
  BY DEF Heaps
<1>2. /\ N \in Nat
      /\ h.stack \in Seq(X)
      /\ h.score \in [X -> Nat]
      /\ DOMAIN h.stack = 1..N
      /\ \A p \in 1..N : h.stack[p] \in X /\ ScoreAt(h, p) \in Nat
      /\ \A p, q \in 1..N : h.stack[p] = h.stack[q] => p = q
      /\ \A p \in 2..N : ScoreAt(h, p) <= ScoreAt(h, HEAP_PARENT(p))
  BY <1>1, HeapType, SMTT(20) DEF IsInjective, Heaps, HeapOrdered
<1>3. /\ f.stack = h.stack
      /\ f.score = [h.score EXCEPT ![idx] = n]
      /\ f \in HeapsOver(X)
  <2>1. f = [stack |-> h.stack, score |-> [h.score EXCEPT ![idx] = n]]
    BY <1>1, WithScore
  <2> HIDE DEF f
  <2> QED
    BY <1>1, <1>2, <2>1 DEF HeapsOver
<1> HIDE DEF f
<1>4. \A p \in 1..N : h.stack[p] # idx => ScoreAt(f, p) = ScoreAt(h, p)
  BY <1>2, <1>3 DEF ScoreAt
<1>5. ASSUME NEW p \in 2..N
      PROVE  /\ p \in 1..N
             /\ p # 1
             /\ HEAP_PARENT(p) \in 1..N
             /\ HEAP_PARENT(p) < p
  BY <1>2, Parents, SMTT(20)
<1>6. CASE ~HeapContains(h, idx) \/ n = h.score[idx]
  <2>1. UpdateHeap(h, idx, n) = f
    BY <1>6 DEF UpdateHeap, f
  <2>2. \A p \in 1..N : ScoreAt(f, p) = ScoreAt(h, p)
    BY <1>2, <1>3, <1>6 DEF ScoreAt, HeapContains, ToSet
  <2>3. HeapOrdered(f)
    <3>1. \A p \in 2..N : ScoreAt(f, p) <= ScoreAt(f, HEAP_PARENT(p))
      BY <1>2, <1>5, <2>2
    <3> QED
      BY <1>3, <3>1 DEF HeapOrdered, HeapsOver
  <2> QED
    BY <1>3, <2>1, <2>3 DEF Heaps
<1>7. CASE HeapContains(h, idx) /\ n # h.score[idx]
  <2>1. at \in 1..N /\ h.stack[at] = idx
    BY <1>1, <1>7, PosOf
  <2>2. HeapContains(f, idx) /\ Pos(f, idx) = at
    BY <1>3, <1>7 DEF HeapContains, Pos
  <2>3. /\ \A p \in 1..N : p # at => ScoreAt(f, p) = ScoreAt(h, p)
        /\ ScoreAt(f, at) = n
        /\ ScoreAt(h, at) = h.score[idx]
    BY <1>2, <1>3, <1>4, <2>1 DEF ScoreAt
  <2> HIDE DEF at
  <2>4. OrderedAround(f, at)
    <3>1. ASSUME NEW p \in 2..N, p # at, HEAP_PARENT(p) # at
          PROVE  ScoreAt(f, p) <= ScoreAt(f, HEAP_PARENT(p))
      BY <1>2, <1>5, <2>3, <3>1
    <3>2. ASSUME NEW p \in 2..N, at # 1, HEAP_PARENT(p) = at
          PROVE  ScoreAt(f, p) <= ScoreAt(f, HEAP_PARENT(at))
      <4>1. at \in 2..N
        BY <1>2, <2>1, <3>2
      <4>2. HEAP_PARENT(at) \in 1..N /\ HEAP_PARENT(at) # at /\ p # at /\ p \in 1..N
        BY <1>2, <1>5, <3>2, <4>1
      <4>3. ScoreAt(h, p) <= ScoreAt(h, at) /\ ScoreAt(h, at) <= ScoreAt(h, HEAP_PARENT(at))
        BY <1>2, <3>2, <4>1
      <4>4. ScoreAt(h, p) <= ScoreAt(h, HEAP_PARENT(at))
        BY <1>2, <2>1, <4>2, <4>3
      <4> QED
        BY <2>3, <4>2, <4>4
    <3> QED
      BY <1>3, <3>1, <3>2 DEF OrderedAround
  <2>5. CASE n > h.score[idx]
    <3> DEFINE g == BubbleUp(f, idx)
    <3>1. UpdateHeap(h, idx, n) = g
      BY <1>7, <2>5 DEF UpdateHeap, f
    <3>2. NotBelowChildren(f, at)
      <4> SUFFICES ASSUME NEW p \in 2..N, HEAP_PARENT(p) = at
                   PROVE  ScoreAt(f, p) <= ScoreAt(f, at)
        BY <1>3 DEF NotBelowChildren
      <4>1. ScoreAt(h, p) <= ScoreAt(h, at) /\ p \in 1..N /\ p # at
        BY <1>2, <1>5
      <4> QED
        BY <1>2, <2>1, <2>3, <2>5, <4>1
    <3>3. /\ g \in HeapsOver(X)
          /\ g.score = f.score
          /\ ToSet(g.stack) = ToSet(f.stack)
          /\ OrderedAround(g, Pos(g, idx))
          /\ NotAboveParent(g, Pos(g, idx))
          /\ NotBelowChildren(g, Pos(g, idx))
      BY <1>3, <2>2, <2>4, <3>2, BubbledUp
    <3> HIDE DEF g
    <3>4. HeapContains(g, idx)
      BY <2>2, <3>3 DEF HeapContains
    <3>5. Pos(g, idx) \in 1..Len(g.stack)
      BY <3>3, <3>4, PosOf
    <3>6. HeapOrdered(g)
      BY <3>3, <3>5, OrderedEverywhere
    <3> QED
      BY <1>3, <3>1, <3>3, <3>6 DEF Heaps
  <2>6. CASE ~ (n > h.score[idx])
    <3> DEFINE g == BubbleDown(f, idx)
    <3>1. UpdateHeap(h, idx, n) = g
      BY <1>7, <2>6 DEF UpdateHeap, f
    <3>2. NotAboveParent(f, at)
      <4> SUFFICES ASSUME at # 1
                   PROVE  ScoreAt(f, at) <= ScoreAt(f, HEAP_PARENT(at))
        BY DEF NotAboveParent
      <4>1. at \in 2..N
        BY <1>2, <2>1
      <4>2. HEAP_PARENT(at) \in 1..N /\ HEAP_PARENT(at) # at
        BY <1>2, <1>5, <4>1
      <4>3. ScoreAt(h, at) <= ScoreAt(h, HEAP_PARENT(at)) /\ h.score[idx] \in Nat
        BY <1>2, <4>1
      <4> QED
        BY <1>2, <2>1, <2>3, <2>6, <4>2, <4>3
    <3>3. /\ g \in HeapsOver(X)
          /\ g.score = f.score
          /\ ToSet(g.stack) = ToSet(f.stack)
          /\ HeapOrdered(g)
      BY <1>3, <2>2, <2>4, <3>2, BubbledDown
    <3> HIDE DEF g
    <3> QED
      BY <1>3, <3>1, <3>3 DEF Heaps
  <2> QED
    BY <2>5, <2>6
<1> QED
  BY <1>6, <1>7

-----------------------------------------------------------------------------
(* Scaling down keeps the order, though it may make scores equal. *)
LEMMA DivMonotone ==
  ASSUME NEW a \in Nat, NEW b \in Nat, NEW d \in Nat, d > 0, a <= b
  PROVE  a \div d \in Nat /\ a \div d <= b \div d
<1> DEFINE x == a \div d
           y == b \div d
<1>1. x \in Nat /\ y \in Nat
  OBVIOUS
<1>2. d * x <= a /\ b < d * y + d
  OBVIOUS
<1> HIDE DEF x, y
<1>3. ASSUME x > y
      PROVE  FALSE
  <2>1. (y + 1) * d <= x * d
    BY <1>1, <1>3
  <2>2. (y + 1) * d = d * y + d /\ x * d = d * x
    BY <1>1
  <2>3. d * x \in Nat /\ d * y \in Nat
    BY <1>1
  <2> QED
    BY <1>2, <2>1, <2>2, <2>3
<1> QED
  BY <1>1, <1>3 DEF x, y

(* kissat_rescale_heap does not have to move anything. *)
LEMMA RescaledHeap ==
  ASSUME NEW X, NEW h \in Heaps(X), NEW unit \in Nat, NEW rescale \in Nat, rescale > 0
  PROVE  LET g == RescaleHeap(h, unit, rescale)
         IN  /\ g \in Heaps(X)
             /\ g.score = [v \in X |-> (h.score[v] * unit) \div rescale]
             /\ g.stack = h.stack
<1> DEFINE score == [v \in X |-> (h.score[v] * unit) \div rescale]
           g == RescaleHeap(h, unit, rescale)
<1>1. h \in HeapsOver(X)
  BY DEF Heaps
<1>2. /\ Len(h.stack) \in Nat
      /\ h.stack \in Seq(X)
      /\ h.score \in [X -> Nat]
      /\ \A p \in 1..Len(h.stack) : h.stack[p] \in X
  BY <1>1, HeapType
<1>3. \A v \in X : h.score[v] * unit \in Nat
  BY <1>2
<1>4. ASSUME NEW u \in X, NEW v \in X, h.score[u] <= h.score[v]
      PROVE  score[u] <= score[v]
  <2>1. h.score[u] \in Nat /\ h.score[v] \in Nat
    BY <1>2
  <2>2. h.score[u] * unit <= h.score[v] * unit
    BY <1>4, <2>1
  <2> QED
    BY <1>3, <2>2, DivMonotone
<1>5. score \in [X -> Nat]
  <2> SUFFICES ASSUME NEW v \in X
               PROVE  (h.score[v] * unit) \div rescale \in Nat
    OBVIOUS
  <2> QED
    BY <1>3, DivMonotone
<1>6. g = [stack |-> h.stack, score |-> score]
  <2>1. g = [h EXCEPT !.score = score]
    BY <1>2 DEF RescaleHeap
  <2> HIDE DEF score, g
  <2> QED
    BY <1>1, <2>1 DEF HeapsOver
<1> HIDE DEF score
<1>7. \A p \in 2..Len(h.stack) : score[h.stack[p]] <= score[h.stack[HEAP_PARENT(p)]]
  <2> SUFFICES ASSUME NEW p \in 2..Len(h.stack)
               PROVE  score[h.stack[p]] <= score[h.stack[HEAP_PARENT(p)]]
    OBVIOUS
  <2>1. p \in 1..Len(h.stack) /\ HEAP_PARENT(p) \in 1..Len(h.stack)
    BY <1>2, Parents
  <2>2. h.score[h.stack[p]] <= h.score[h.stack[HEAP_PARENT(p)]]
    BY DEF Heaps, HeapOrdered, ScoreAt
  <2> QED
    BY <1>2, <1>4, <2>1, <2>2
<1>8. g.stack = h.stack /\ g.score = score
  BY <1>6
<1> HIDE DEF g
<1>9. g \in HeapsOver(X) /\ HeapOrdered(g)
  BY <1>1, <1>2, <1>5, <1>6, <1>7, <1>8 DEF HeapsOver, HeapOrdered, ScoreAt
<1> QED
  BY <1>8, <1>9 DEF g, score, Heaps

(***************************************************************************)
(* Pushing one after another all elements of a sequence that are not there *)
(* yet (compact_scores, kissat_update_scores).                             *)
(***************************************************************************)
LEMMA PushedAll ==
  ASSUME NEW X, NEW h \in Heaps(X), NEW seq \in Seq(X), IsInjective(seq),
         ToSet(seq) \cap ToSet(h.stack) = {}
  PROVE  LET g == FoldLeft(PushHeap, h, seq)
         IN  /\ g \in Heaps(X)
             /\ g.score = h.score
             /\ ToSet(g.stack) = ToSet(h.stack) \cup ToSet(seq)
<1> DEFINE N == Len(seq)
           Inv == [i \in 0..N |-> {g \in Heaps(X) :
                     /\ g.score = h.score
                     /\ ToSet(g.stack) = ToSet(h.stack) \cup {seq[j] : j \in 1..i}}]
<1>1. N \in Nat /\ DOMAIN seq = 1..N /\ \A i \in 1..N : seq[i] \in X
  OBVIOUS
<1>2. h \in Inv[0]
  <2>1. {seq[j] : j \in 1..0} = {}
    OBVIOUS
  <2> QED
    BY <1>1, <2>1
<1>3. ASSUME NEW i \in 1..N, NEW g, g \in Inv[i - 1]
      PROVE  PushHeap(g, seq[i]) \in Inv[i]
  <2>1. i - 1 \in 0..N /\ i \in 0..N
    BY <1>1
  <2>2. /\ g \in Heaps(X)
        /\ g.score = h.score
        /\ ToSet(g.stack) = ToSet(h.stack) \cup {seq[j] : j \in 1..(i - 1)}
    BY <1>3, <2>1
  <2>3. seq[i] \in ToSet(seq)
    BY <1>1 DEF ToSet
  <2>4. \A j \in 1..(i - 1) : j \in 1..N /\ j # i
    BY <1>1
  <2>5. \A j \in 1..(i - 1) : seq[j] # seq[i]
    BY <1>1, <2>4 DEF IsInjective
  <2>6. ~HeapContains(g, seq[i])
    BY <2>2, <2>3, <2>5 DEF HeapContains
  <2>7. /\ PushHeap(g, seq[i]) \in Heaps(X)
        /\ PushHeap(g, seq[i]).score = g.score
        /\ ToSet(PushHeap(g, seq[i]).stack) = ToSet(g.stack) \cup {seq[i]}
    <3> DEFINE e == seq[i]
    <3>1. e \in X /\ g \in Heaps(X) /\ ~HeapContains(g, e)
      BY <1>1, <2>2, <2>6
    <3> HIDE DEF e, Inv, N
    <3>2. LET f == PushHeap(g, e)
          IN  /\ f \in Heaps(X)
              /\ f.score = g.score
              /\ ToSet(f.stack) = ToSet(g.stack) \cup {e}
      BY ONLY <3>1, Pushed
    <3> QED
      BY ONLY <3>2 DEF e
  <2>8. {seq[j] : j \in 1..i} = {seq[j] : j \in 1..(i - 1)} \cup {seq[i]}
    <3>1. \A j \in 1..i : j \in 1..(i - 1) \/ j = i
      BY <1>1
    <3>2. i \in 1..i /\ \A j \in 1..(i - 1) : j \in 1..i
      BY <1>1
    <3> QED
      BY <3>1, <3>2
  <2> QED
    BY <2>1, <2>2, <2>7, <2>8
<1>4. PushAll!KeepsLeft(Inv, h, seq)
  <2> HIDE DEF Inv
  <2> QED
    BY <1>2, <1>3 DEF PushAll!KeepsLeft
<1>5. PushAll!FoldedLeft(h, seq) \in Inv[N]
  <2> HIDE DEF Inv
  <2> QED
    BY <1>4, PushAllCounting, PushAll!FoldLeftInduction
<1>6. PushAll!FoldedLeft(h, seq) = FoldLeft(PushHeap, h, seq)
  BY DEF PushAll!FoldedLeft, FoldLeft, MapThenFoldSet,
         PushAll!MapThenFoldSet, Max, PushAll!Largest
<1>7. ToSet(seq) = {seq[j] : j \in 1..N}
  BY <1>1 DEF ToSet
<1> QED
  BY <1>1, <1>5, <1>6, <1>7

LEMMA Compacted ==
  ASSUME NEW X, NEW h \in Heaps(X), NEW dropped
  PROVE  LET g == CompactHeap(h, dropped)
         IN  /\ g \in Heaps(X)
             /\ g.score = [v \in X |-> IF v \in dropped THEN 0 ELSE h.score[v]]
             /\ ToSet(g.stack) = ToSet(h.stack)
<1> DEFINE score == [v \in X |-> IF v \in dropped THEN 0 ELSE h.score[v]]
           empty == [stack |-> <<>>, score |-> score]
<1>1. /\ h.stack \in Seq(X)
      /\ h.score \in [X -> Nat]
      /\ IsInjective(h.stack)
  <2>1. h \in HeapsOver(X)
    BY DEF Heaps
  <2> QED
    BY <2>1, HeapType
<1>2. CompactHeap(h, dropped) = FoldLeft(PushHeap, empty, h.stack)
  <2>1. DOMAIN h.score = X
    BY <1>1
  <2> QED
    BY <2>1 DEF CompactHeap
<1>3. score \in [X -> Nat]
  BY <1>1
<1> HIDE DEF score
<1>4. empty \in Heaps(X) /\ ToSet(empty.stack) = {} /\ empty.score = score
  BY <1>3, EmptyHeap
<1> HIDE DEF empty
<1>5. LET g == FoldLeft(PushHeap, empty, h.stack)
      IN  /\ g \in Heaps(X)
          /\ g.score = empty.score
          /\ ToSet(g.stack) = ToSet(empty.stack) \cup ToSet(h.stack)
  <2> DEFINE S == h.stack
  <2>1. S \in Seq(X) /\ IsInjective(S) /\ ToSet(S) \cap ToSet(empty.stack) = {}
    BY <1>1, <1>4
  <2> HIDE DEF S
  <2>2. LET g == FoldLeft(PushHeap, empty, S)
        IN  /\ g \in Heaps(X)
            /\ g.score = empty.score
            /\ ToSet(g.stack) = ToSet(empty.stack) \cup ToSet(S)
    BY ONLY <1>4, <2>1, PushedAll, ZenonT(40)
  <2> QED
    BY ONLY <2>2 DEF S
<1> QED
  BY <1>2, <1>4, <1>5 DEF score
=============================================================================
