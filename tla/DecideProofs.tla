----------------------------- MODULE DecideProofs -----------------------------
(***************************************************************************)
(* Decisions are the best ones for any number of variables and stamps, any *)
(* scores and any options: the queue and the heap survive everything the   *)
(* rest of the solver does with variables.                                 *)
(***************************************************************************)
EXTENDS Decide, HeapProofs, SequenceTheorems, TLAPS

-----------------------------------------------------------------------------
(***************************************************************************)
(* What the operations of the queue do to the sequence of its elements and *)
(* to their stamps.                                                        *)
(***************************************************************************)
(* What adding one variable after another back keeps. *)
AddBack == INSTANCE RecursionTheorems WITH Op <- AddBackToQueue

LEMMA AddBackCounting == AddBack!NatInduction
BY Counting DEF AddBack!NatInduction

Elements == Vars \cup {DISCONNECT}

Links == [prev : Elements, next : Elements, stamp : 0..MaxStamp]

Queues == [links : [Vars -> Links], first : Elements, last : Elements,
           stamp : 0..MaxStamp, search : [idx : Elements, stamp : 0..MaxStamp]]

PrevOf(q, v) == q.links[v].prev

NextOf(q, v) == q.links[v].next

StampOf(q, v) == q.links[v].stamp

(* Only links and ends differ. *)
SameStamps(q, r) ==
  /\ r.stamp = q.stamp
  /\ r.search = q.search
  /\ \A v \in Vars : StampOf(r, v) = StampOf(q, v)

LEMMA QueueType ==
  ASSUME NEW q \in Queues
  PROVE  /\ q.first \in Elements /\ q.last \in Elements /\ q.stamp \in 0..MaxStamp
         /\ q.search.idx \in Elements /\ q.search.stamp \in 0..MaxStamp
         /\ q.search = [idx |-> q.search.idx, stamp |-> q.search.stamp]
         /\ \A v \in Vars : /\ PrevOf(q, v) \in Elements
                            /\ NextOf(q, v) \in Elements
                            /\ StampOf(q, v) \in 0..MaxStamp
BY DEF Queues, Links, PrevOf, NextOf, StampOf

LEMMA StampType ==
  ASSUME NEW q \in Queues, NEW v \in Vars
  PROVE  StampOf(q, v) \in Nat
<1>1. StampOf(q, v) \in 0..MaxStamp
  BY QueueType
<1> QED
  BY <1>1, MaxStampAssumption

(* One assignment to the queue. *)
LEMMA WithNext ==
  ASSUME NEW q \in Queues, NEW v \in Vars, NEW w \in Elements
  PROVE  LET r == [q EXCEPT !.links[v].next = w]
         IN  /\ r \in Queues
             /\ SameStamps(q, r)
             /\ r.first = q.first /\ r.last = q.last
             /\ \A u \in Vars : /\ PrevOf(r, u) = PrevOf(q, u)
                                /\ NextOf(r, u) = IF u = v THEN w ELSE NextOf(q, u)
BY DEF Queues, Links, NextOf, PrevOf, StampOf, SameStamps

LEMMA WithPrev ==
  ASSUME NEW q \in Queues, NEW v \in Vars, NEW w \in Elements
  PROVE  LET r == [q EXCEPT !.links[v].prev = w]
         IN  /\ r \in Queues
             /\ SameStamps(q, r)
             /\ r.first = q.first /\ r.last = q.last
             /\ \A u \in Vars : /\ NextOf(r, u) = NextOf(q, u)
                                /\ PrevOf(r, u) = IF u = v THEN w ELSE PrevOf(q, u)
BY DEF Queues, Links, NextOf, PrevOf, StampOf, SameStamps

LEMMA WithFirst ==
  ASSUME NEW q \in Queues, NEW w \in Elements
  PROVE  LET r == [q EXCEPT !.first = w]
         IN  /\ r \in Queues
             /\ SameStamps(q, r)
             /\ r.first = w /\ r.last = q.last
             /\ \A u \in Vars : PrevOf(r, u) = PrevOf(q, u) /\ NextOf(r, u) = NextOf(q, u)
BY DEF Queues, Links, NextOf, PrevOf, StampOf, SameStamps

LEMMA WithLast ==
  ASSUME NEW q \in Queues, NEW w \in Elements
  PROVE  LET r == [q EXCEPT !.last = w]
         IN  /\ r \in Queues
             /\ SameStamps(q, r)
             /\ r.first = q.first /\ r.last = w
             /\ \A u \in Vars : PrevOf(r, u) = PrevOf(q, u) /\ NextOf(r, u) = NextOf(q, u)
BY DEF Queues, Links, NextOf, PrevOf, StampOf, SameStamps

LEMMA WithSearch ==
  ASSUME NEW q \in Queues, NEW v \in Vars
  PROVE  LET r == UpdateQueue(q, v)
         IN  /\ r \in Queues
             /\ r.search = [idx |-> v, stamp |-> StampOf(q, v)]
             /\ r.first = q.first /\ r.last = q.last /\ r.stamp = q.stamp
             /\ r.links = q.links
BY DEF Queues, Links, StampOf, UpdateQueue, Elements

(* kissat_dequeue_links. *)
LEMMA DequeuedLinks ==
  ASSUME NEW q \in Queues, NEW idx \in Vars
  PROVE  LET r    == DequeueLinks(q, idx)
             prev == PrevOf(q, idx)
             next == NextOf(q, idx)
         IN  /\ r \in Queues
             /\ SameStamps(q, r)
             /\ r.first = IF prev = DISCONNECT THEN next ELSE q.first
             /\ r.last = IF next = DISCONNECT THEN prev ELSE q.last
             /\ \A u \in Vars :
                  /\ PrevOf(r, u) = IF u = next THEN prev
                                    ELSE IF u = idx THEN DISCONNECT ELSE PrevOf(q, u)
                  /\ NextOf(r, u) = IF u = prev THEN next
                                    ELSE IF u = idx THEN DISCONNECT ELSE NextOf(q, u)
<1> DEFINE prev == PrevOf(q, idx)
           next == NextOf(q, idx)
           alone == [q EXCEPT !.links[idx].prev = DISCONNECT]
           cut == [alone EXCEPT !.links[idx].next = DISCONNECT]
           left == IF prev = DISCONNECT THEN [cut EXCEPT !.first = next]
                   ELSE [cut EXCEPT !.links[prev].next = next]
           r == IF next = DISCONNECT THEN [left EXCEPT !.last = prev]
                ELSE [left EXCEPT !.links[next].prev = prev]
<1>1. DequeueLinks(q, idx) = r
  BY DEF DequeueLinks, DISCONNECTED, PrevOf, NextOf
<1>2. /\ DISCONNECT \in Elements
      /\ prev \in Elements
      /\ next \in Elements
      /\ prev # DISCONNECT => prev \in Vars
      /\ next # DISCONNECT => next \in Vars
  BY QueueType DEF Elements
<1> HIDE DEF prev, next
<1>3. /\ alone \in Queues
      /\ SameStamps(q, alone)
      /\ alone.first = q.first /\ alone.last = q.last
      /\ \A u \in Vars : /\ NextOf(alone, u) = NextOf(q, u)
                         /\ PrevOf(alone, u) = IF u = idx THEN DISCONNECT ELSE PrevOf(q, u)
  BY <1>2, WithPrev
<1> HIDE DEF alone
<1>4. /\ cut \in Queues
      /\ SameStamps(alone, cut)
      /\ cut.first = alone.first /\ cut.last = alone.last
      /\ \A u \in Vars : /\ PrevOf(cut, u) = PrevOf(alone, u)
                         /\ NextOf(cut, u) = IF u = idx THEN DISCONNECT ELSE NextOf(alone, u)
  BY <1>2, <1>3, WithNext
<1> HIDE DEF cut
<1>5. /\ left \in Queues
      /\ SameStamps(cut, left)
      /\ left.first = IF prev = DISCONNECT THEN next ELSE cut.first
      /\ left.last = cut.last
      /\ \A u \in Vars : /\ PrevOf(left, u) = PrevOf(cut, u)
                         /\ NextOf(left, u) = IF u = prev THEN next ELSE NextOf(cut, u)
  <2>1. CASE prev = DISCONNECT
    <3>1. \A u \in Vars : u # prev
      BY <2>1, QueueVarsAssumption
    <3> DEFINE f == [cut EXCEPT !.first = next]
    <3>2. left = f
      BY <2>1
    <3>3. /\ f \in Queues
          /\ SameStamps(cut, f)
          /\ f.first = next /\ f.last = cut.last
          /\ \A u \in Vars : PrevOf(f, u) = PrevOf(cut, u) /\ NextOf(f, u) = NextOf(cut, u)
      BY <1>2, <1>4, WithFirst
    <3> HIDE DEF f, left
    <3> QED
      BY <2>1, <3>1, <3>2, <3>3
  <2>2. CASE prev # DISCONNECT
    <3> DEFINE f == [cut EXCEPT !.links[prev].next = next]
    <3>2. left = f
      BY <2>2
    <3>3. /\ f \in Queues
          /\ SameStamps(cut, f)
          /\ f.first = cut.first /\ f.last = cut.last
          /\ \A u \in Vars : /\ PrevOf(f, u) = PrevOf(cut, u)
                             /\ NextOf(f, u) = IF u = prev THEN next ELSE NextOf(cut, u)
      <4>1. cut \in Queues /\ prev \in Vars /\ next \in Elements
        BY <1>2, <1>4, <2>2
      <4> QED
        BY ONLY <4>1, WithNext
    <3> HIDE DEF f, left
    <3> QED
      BY <2>2, <3>2, <3>3
  <2> QED
    BY <2>1, <2>2
<1> HIDE DEF left
<1>6. /\ r \in Queues
      /\ SameStamps(left, r)
      /\ r.first = left.first
      /\ r.last = IF next = DISCONNECT THEN prev ELSE left.last
      /\ \A u \in Vars : /\ NextOf(r, u) = NextOf(left, u)
                         /\ PrevOf(r, u) = IF u = next THEN prev ELSE PrevOf(left, u)
  <2>1. CASE next = DISCONNECT
    <3>1. \A u \in Vars : u # next
      BY <2>1, QueueVarsAssumption
    <3> DEFINE f == [left EXCEPT !.last = prev]
    <3>2. r = f
      BY <2>1
    <3>3. /\ f \in Queues
          /\ SameStamps(left, f)
          /\ f.first = left.first /\ f.last = prev
          /\ \A u \in Vars : PrevOf(f, u) = PrevOf(left, u) /\ NextOf(f, u) = NextOf(left, u)
      BY <1>2, <1>5, WithLast
    <3> HIDE DEF f, r
    <3> QED
      BY <2>1, <3>1, <3>2, <3>3
  <2>2. CASE next # DISCONNECT
    <3> DEFINE f == [left EXCEPT !.links[next].prev = prev]
    <3>2. r = f
      BY <2>2
    <3>3. /\ f \in Queues
          /\ SameStamps(left, f)
          /\ f.first = left.first /\ f.last = left.last
          /\ \A u \in Vars : /\ NextOf(f, u) = NextOf(left, u)
                             /\ PrevOf(f, u) = IF u = next THEN prev ELSE PrevOf(left, u)
      <4>1. left \in Queues /\ next \in Vars /\ prev \in Elements
        BY <1>2, <1>5, <2>2
      <4> QED
        BY ONLY <4>1, WithPrev
    <3> HIDE DEF f, r
    <3> QED
      BY <2>2, <3>2, <3>3
  <2> QED
    BY <2>1, <2>2
<1> HIDE DEF r
<1> QED
  BY <1>1, <1>3, <1>4, <1>5, <1>6 DEF prev, next, SameStamps

-----------------------------------------------------------------------------
(***************************************************************************)
(* The links lead through the elements of s, from first to last and back,  *)
(* and to nothing else (kissat_check_queue).                               *)
(***************************************************************************)
At(s, i) == IF i \in 1..Len(s) THEN s[i] ELSE DISCONNECT

Linked(q, s) ==
  /\ s \in Seq(Vars)
  /\ IsInjective(s)
  /\ q.first = At(s, 1)
  /\ q.last = At(s, Len(s))
  /\ \A i \in 1..Len(s) : /\ PrevOf(q, s[i]) = At(s, i - 1)
                          /\ NextOf(q, s[i]) = At(s, i + 1)
  /\ \A v \in Vars \ ToSet(s) : PrevOf(q, v) = DISCONNECT /\ NextOf(q, v) = DISCONNECT

LEMMA SeqFacts ==
  ASSUME NEW s \in Seq(Vars)
  PROVE  /\ Len(s) \in Nat
         /\ DOMAIN s = 1..Len(s)
         /\ \A i \in 1..Len(s) : s[i] \in Vars /\ s[i] \in ToSet(s)
         /\ \A v \in ToSet(s) : v \in Vars /\ \E i \in 1..Len(s) : s[i] = v
         /\ IsInjective(s) => \A i, j \in 1..Len(s) : s[i] = s[j] => i = j
BY DEF ToSet, IsInjective

(* Where v is in s, counted from 1. *)
Index(s, v) == CHOOSE i \in 1..Len(s) : s[i] = v

LEMMA IndexOf ==
  ASSUME NEW s \in Seq(Vars), NEW v \in ToSet(s)
  PROVE  Index(s, v) \in 1..Len(s) /\ s[Index(s, v)] = v
<1>1. \E i \in 1..Len(s) : s[i] = v
  BY SeqFacts
<1> QED
  BY <1>1 DEF Index

(***************************************************************************)
(* Order follows the links: whatever is linked as s has the order s.       *)
(***************************************************************************)
LEMMA OrderOf ==
  ASSUME NEW q \in Queues, NEW s, Linked(q, s)
  PROVE  Order(q) = s
<1> DEFINE N == Len(s)
           M == N + 1
           T == Seq(Vars)
           after(f, v) == IF v = DISCONNECT THEN <<>> ELSE <<v>> \o f[NextOf(q, v)]
           Step == [f \in [Elements -> T] |-> [v \in Elements |-> after(f, v)]]
           rank == [v \in Elements |-> IF v \in ToSet(s) THEN N + 1 - Index(s, v)
                                       ELSE IF v = DISCONNECT THEN 0 ELSE 1]
<1>0. s \in Seq(Vars) /\ IsInjective(s)
  BY DEF Linked
<1>1. /\ N \in Nat
      /\ \A i \in 1..N : s[i] \in Vars /\ s[i] \in ToSet(s)
      /\ \A v \in ToSet(s) : v \in Vars
      /\ \A i, j \in 1..N : s[i] = s[j] => i = j
  BY <1>0, SeqFacts
<1>2. \A v \in ToSet(s) : Index(s, v) \in 1..N /\ s[Index(s, v)] = v
  BY <1>0, IndexOf
<1>3. /\ DISCONNECT \notin Vars /\ Elements = Vars \cup {DISCONNECT}
      /\ \A v \in Vars : NextOf(q, v) \in Elements
  BY QueueVarsAssumption, QueueType DEF Elements
<1>4. rank \in [Elements -> 0..M]
  BY <1>1, <1>2
<1>5. ASSUME NEW v \in Elements, v # DISCONNECT
      PROVE  rank[NextOf(q, v)] < rank[v]
  <2>1. v \in Vars
    BY <1>3, <1>5
  <2>2. CASE v \notin ToSet(s)
    <3>1. NextOf(q, v) = DISCONNECT
      BY <2>1, <2>2 DEF Linked
    <3> QED
      BY <1>1, <1>3, <1>5, <2>2, <3>1
  <2>3. CASE v \in ToSet(s)
    <3> DEFINE i == Index(s, v)
    <3>1. i \in 1..N /\ s[i] = v
      BY <1>2, <2>3
    <3>2. rank[v] = N + 1 - i
      BY <2>3
    <3> HIDE DEF i
    <3>3. NextOf(q, v) = At(s, i + 1)
      BY <3>1 DEF Linked
    <3>4. CASE i = N
      <4>1. NextOf(q, v) = DISCONNECT
        BY <1>1, <3>3, <3>4 DEF At
      <4> QED
        BY <1>1, <1>3, <3>1, <3>2, <4>1
    <3>5. CASE i # N
      <4>1. i + 1 \in 1..N /\ NextOf(q, v) = s[i + 1]
        BY <1>1, <3>1, <3>3, <3>5 DEF At
      <4>2. Index(s, s[i + 1]) = i + 1
        BY <1>1, <1>2, <4>1
      <4>3. rank[s[i + 1]] = N + 1 - (i + 1)
        BY <1>1, <1>3, <4>1, <4>2
      <4> QED
        BY <1>1, <3>1, <3>2, <4>1, <4>3
    <3> QED
      BY <3>4, <3>5
  <2> QED
    BY <2>2, <2>3
<1> HIDE DEF rank
<1>6. ASSUME NEW f \in [Elements -> T], NEW v \in Elements
      PROVE  after(f, v) \in T
  <2>1. CASE v = DISCONNECT
    BY <2>1
  <2>2. CASE v # DISCONNECT
    <3>1. v \in Vars /\ NextOf(q, v) \in Elements
      BY <1>3, <2>2
    <3>2. <<v>> \in T /\ f[NextOf(q, v)] \in T
      BY <3>1
    <3> QED
      BY <2>2, <3>2, ConcatProperties
  <2> QED
    BY <2>1, <2>2
<1>7. ASSUME NEW f \in [Elements -> T], NEW g \in [Elements -> T], NEW v \in Elements,
             \A w \in Elements : rank[w] < rank[v] => f[w] = g[w]
      PROVE  after(f, v) = after(g, v)
  <2>1. CASE v = DISCONNECT
    BY <2>1
  <2>2. CASE v # DISCONNECT
    <3>1. NextOf(q, v) \in Elements
      BY <1>3, <2>2
    <3>2. f[NextOf(q, v)] = g[NextOf(q, v)]
      BY <1>5, <1>7, <2>2, <3>1
    <3> QED
      BY <2>2, <3>2
  <2> QED
    BY <2>1, <2>2
<1> HIDE DEF T
<1>8. AddBack!Recursive(Elements, T, M, rank, Step)
  <2>1. T # {}
    <3>1. <<>> \in T
      BY DEF T
    <3> QED
      BY <3>1
  <2>2. Step \in [[Elements -> T] -> [Elements -> T]]
    <3> HIDE DEF after
    <3> QED
      BY <1>6
  <2>3. \A f, g \in [Elements -> T], v \in Elements :
          (\A w \in Elements : rank[w] < rank[v] => f[w] = g[w])
            => Step[f][v] = Step[g][v]
    <3> HIDE DEF after
    <3> QED
      BY <1>7
  <2>4. M \in Nat
    BY <1>1
  <2> HIDE DEF Step, M
  <2> QED
    BY <1>4, <2>1, <2>2, <2>3, <2>4 DEF AddBack!Recursive
<1>9. \E f : f = [v \in Elements |-> after(f, v)]
  <2>1. PICK f \in [Elements -> T] : f = Step[f]
    <3> HIDE DEF Step, M
    <3> QED
      BY <1>8, AddBackCounting, AddBack!RankRecursion
  <2>2. Step[f] = [v \in Elements |-> after(f, v)]
    <3> HIDE DEF after
    <3> QED
      OBVIOUS
  <2> QED
    BY <2>1, <2>2
<1> DEFINE from == CHOOSE f : f = [v \in Elements |-> after(f, v)]
<1>10. from = [v \in Elements |-> after(from, v)]
  <2> HIDE DEF after
  <2> QED
    BY <1>9
<1>11. Order(q) = from[q.first]
  BY DEF Order, DISCONNECTED, NextOf, Elements
<1> HIDE DEF from
<1>12. \A v \in Elements : from[v] = after(from, v)
  <2> HIDE DEF after
  <2> QED
    BY <1>10
<1> DEFINE P == {n \in Nat : n <= N => from[At(s, N + 1 - n)] = SubSeq(s, N + 1 - n, N)}
<1>13. 0 \in P
  <2>1. At(s, N + 1) = DISCONNECT
    BY <1>1 DEF At
  <2>2. SubSeq(s, N + 1, N) = <<>>
    BY <1>1, SubSeqEmpty
  <2>3. from[DISCONNECT] = <<>>
    BY <1>3, <1>12
  <2>4. N + 1 - 0 = N + 1
    BY <1>1
  <2>5. from[At(s, N + 1 - 0)] = SubSeq(s, N + 1 - 0, N)
    BY <2>1, <2>2, <2>3, <2>4
  <2> QED
    BY <2>5
<1>14. ASSUME NEW n \in Nat, n \in P
       PROVE  n + 1 \in P
  <2> SUFFICES ASSUME n + 1 <= N
               PROVE  from[At(s, N - n)] = SubSeq(s, N - n, N)
    BY <1>1
  <2> DEFINE i == N - n
  <2>1. i \in 1..N /\ N \in i..N /\ N + 1 - n = i + 1
    BY <1>1
  <2>2. from[At(s, i + 1)] = SubSeq(s, i + 1, N)
    BY <1>1, <1>14, <2>1
  <2> HIDE DEF i
  <2>3. At(s, i) = s[i] /\ s[i] \in Elements /\ s[i] # DISCONNECT
    BY <1>1, <1>3, <2>1 DEF At
  <2>4. NextOf(q, s[i]) = At(s, i + 1)
    BY <2>1 DEF Linked
  <2>5. from[s[i]] = <<s[i]>> \o SubSeq(s, i + 1, N)
    BY <1>12, <2>2, <2>3, <2>4
  <2>6. SubSeq(s, i, N) = <<s[i]>> \o SubSeq(s, i + 1, N)
    BY <1>0, <2>1, SubSeqRecursiveFirst
  <2> QED
    BY <2>3, <2>5, <2>6 DEF i
<1>15. N \in P
  <2> HIDE DEF P
  <2>1. Nat \subseteq P
    BY <1>13, <1>14, AddBackCounting, AddBack!SetInduction
  <2> QED
    BY <1>1, <2>1
<1>16. from[At(s, 1)] = SubSeq(s, 1, N)
  <2>1. N + 1 - N = 1
    BY <1>1
  <2> QED
    BY <1>1, <1>15, <2>1
<1>17. SubSeq(s, 1, N) = s
  BY <1>0, SubSeqFull
<1> QED
  BY <1>11, <1>16, <1>17 DEF Linked

-----------------------------------------------------------------------------
(* The sequence has as many elements as it has places. *)
LEMMA Counted ==
  ASSUME NEW s \in Seq(Vars), IsInjective(s), NEW i \in 0..Len(s)
  PROVE  LET firsts == {s[j] : j \in 1..i}
         IN  IsFiniteSet(firsts) /\ Cardinality(firsts) = i
<1> DEFINE firsts == {s[j] : j \in 1..i}
           f == [j \in 1..i |-> s[j]]
<1>1. i \in Nat /\ \A j \in 1..i : j \in 1..Len(s)
  BY SeqFacts
<1>2. \A j, k \in 1..i : f[j] = f[k] => j = k
  BY <1>1, SeqFacts
<1>3. f \in Bijection(1..i, firsts)
  <2>1. f \in [1..i -> firsts]
    OBVIOUS
  <2>2. \A w \in firsts : \E j \in 1..i : f[j] = w
    OBVIOUS
  <2> HIDE DEF f, firsts
  <2> QED
    BY <1>2, <2>1, <2>2 DEF Bijection, Injection, Surjection, IsInjective
<1>4. ExistsBijection(1..i, firsts)
  <2> HIDE DEF f, firsts
  <2> QED
    BY <1>3 DEF ExistsBijection
<1>5. IsFiniteSet(1..i) /\ Cardinality(1..i) = i
  BY <1>1, FS_Interval
<1> HIDE DEF firsts
<1> QED
  BY <1>4, <1>5, FS_Bijection DEF firsts

LEMMA LengthBound ==
  ASSUME NEW s \in Seq(Vars), IsInjective(s)
  PROVE  /\ IsFiniteSet(ToSet(s))
         /\ Len(s) = Cardinality(ToSet(s))
         /\ Len(s) <= Cardinality(Vars)
         /\ Len(s) \in 0..MaxStamp
<1> DEFINE N == Len(s)
<1>1. N \in Nat /\ N \in 0..N /\ DOMAIN s = 1..N
  BY SeqFacts
<1>2. ToSet(s) = {s[j] : j \in 1..N}
  BY <1>1 DEF ToSet
<1>3. IsFiniteSet(ToSet(s)) /\ Cardinality(ToSet(s)) = N
  BY <1>1, <1>2, Counted
<1>4. ToSet(s) \in SUBSET Vars
  BY SeqFacts
<1>5. Cardinality(ToSet(s)) <= Cardinality(Vars) /\ Cardinality(Vars) \in Nat
  BY <1>4, QueueVarsAssumption, FS_Subset, FS_CardinalityType
<1> QED
  BY <1>1, <1>3, <1>5, MaxStampAssumption

(* s without its element at place k. *)
WithoutAt(s, k) == [i \in 1..(Len(s) - 1) |-> IF i < k THEN s[i] ELSE s[i + 1]]

LEMMA WithoutFacts ==
  ASSUME NEW s \in Seq(Vars), IsInjective(s), NEW k \in 1..Len(s)
  PROVE  LET t == WithoutAt(s, k)
         IN  /\ t \in Seq(Vars)
             /\ IsInjective(t)
             /\ Len(t) = Len(s) - 1
             /\ ToSet(t) = ToSet(s) \ {s[k]}
             /\ \A i \in 1..Len(t) : t[i] = IF i < k THEN s[i] ELSE s[i + 1]
<1> DEFINE N == Len(s)
           t == WithoutAt(s, k)
<1>1. /\ N \in Nat /\ N - 1 \in Nat
      /\ DOMAIN s = 1..N
      /\ \A i \in 1..N : s[i] \in Vars
      /\ \A i, j \in 1..N : s[i] = s[j] => i = j
  BY SeqFacts
<1>2. \A i \in 1..(N - 1) : i \in 1..N /\ i + 1 \in 1..N
  BY <1>1
<1>3. t \in [1..(N - 1) -> Vars]
  BY <1>1, <1>2 DEF WithoutAt
<1>4. \A i \in 1..(N - 1) : t[i] = IF i < k THEN s[i] ELSE s[i + 1]
  BY DEF WithoutAt
<1> HIDE DEF t
<1>5. t \in Seq(Vars) /\ Len(t) = N - 1 /\ DOMAIN t = 1..(N - 1)
  <2> DEFINE n == N - 1
  <2>1. t \in [1..n -> Vars] /\ n \in Nat
    BY <1>1, <1>3
  <2> HIDE DEF n, N
  <2>2. t \in Seq(Vars) /\ Len(t) = n
    BY <2>1, AddBack!FunctionIsSeq
  <2>3. DOMAIN t = 1..n
    BY <2>1
  <2> QED
    BY <2>2, <2>3 DEF n
<1>6. IsInjective(t)
  <2> SUFFICES ASSUME NEW i \in 1..(N - 1), NEW j \in 1..(N - 1), t[i] = t[j]
               PROVE  i = j
    BY <1>5 DEF IsInjective
  <2> DEFINE old(x) == IF x < k THEN x ELSE x + 1
  <2>1. old(i) \in 1..N /\ old(j) \in 1..N
    BY <1>1, <1>2
  <2>2. s[old(i)] = s[old(j)]
    BY <1>4
  <2>3. old(i) = old(j)
    <3> HIDE DEF old
    <3> QED
      BY <1>1, <2>1, <2>2
  <2> QED
    BY <1>1, <2>3
<1>7. ASSUME NEW v
      PROVE  v \in ToSet(t) <=> v \in ToSet(s) /\ v # s[k]
  <2>1. ASSUME v \in ToSet(t)
        PROVE  v \in ToSet(s) /\ v # s[k]
    <3>1. PICK i \in 1..(N - 1) : t[i] = v
      BY <1>5, <2>1 DEF ToSet
    <3> DEFINE old == IF i < k THEN i ELSE i + 1
    <3>2. old \in 1..N /\ old # k
      BY <1>1, <1>2
    <3>3. v = s[old]
      BY <1>4, <3>1
    <3> HIDE DEF old
    <3>4. k \in 1..N
      OBVIOUS
    <3>5. v # s[k]
      BY <1>1, <3>2, <3>3, <3>4
    <3>6. v \in ToSet(s)
      BY <1>1, <3>2, <3>3 DEF ToSet
    <3> QED
      BY <3>5, <3>6
  <2>2. ASSUME v \in ToSet(s), v # s[k]
        PROVE  v \in ToSet(t)
    <3>1. PICK i \in 1..N : s[i] = v
      BY <1>1, <2>2 DEF ToSet
    <3>2. CASE i < k
      <4>1. i \in 1..(N - 1) /\ t[i] = v
        BY <1>1, <1>4, <3>1, <3>2
      <4> QED
        BY <1>5, <4>1 DEF ToSet
    <3>3. CASE i > k
      <4>1. i - 1 \in 1..(N - 1) /\ ~(i - 1 < k) /\ (i - 1) + 1 = i
        BY <1>1, <3>3
      <4>2. t[i - 1] = v
        BY <1>4, <3>1, <4>1
      <4> QED
        BY <1>5, <4>1, <4>2 DEF ToSet
    <3> QED
      BY <2>2, <3>1, <3>2, <3>3
  <2> QED
    BY <2>1, <2>2
<1>8. ToSet(t) = ToSet(s) \ {s[k]}
  BY <1>7
<1> QED
  BY <1>4, <1>5, <1>6, <1>8 DEF t

(***************************************************************************)
(* kissat_dequeue_links takes its variable out of the sequence.            *)
(***************************************************************************)
LEMMA DequeuedFrom ==
  ASSUME NEW q \in Queues, NEW s, Linked(q, s), NEW idx \in ToSet(s)
  PROVE  LET r == DequeueLinks(q, idx)
             t == WithoutAt(s, Index(s, idx))
         IN  /\ r \in Queues
             /\ SameStamps(q, r)
             /\ Linked(r, t)
             /\ ToSet(t) = ToSet(s) \ {idx}
<1> DEFINE N == Len(s)
           k == Index(s, idx)
           t == WithoutAt(s, k)
           r == DequeueLinks(q, idx)
           prev == PrevOf(q, idx)
           next == NextOf(q, idx)
<1>0. s \in Seq(Vars) /\ IsInjective(s)
  BY DEF Linked
<1>1. /\ N \in Nat
      /\ \A i \in 1..N : s[i] \in Vars /\ s[i] \in ToSet(s)
      /\ \A i, j \in 1..N : s[i] = s[j] => i = j
      /\ idx \in Vars
  BY <1>0, SeqFacts
<1>2. k \in 1..N /\ s[k] = idx
  BY <1>0, IndexOf
<1>3. DISCONNECT \notin Vars
  BY QueueVarsAssumption
<1>4. /\ q.first = At(s, 1) /\ q.last = At(s, N)
      /\ \A i \in 1..N : PrevOf(q, s[i]) = At(s, i - 1) /\ NextOf(q, s[i]) = At(s, i + 1)
      /\ \A v \in Vars \ ToSet(s) : PrevOf(q, v) = DISCONNECT /\ NextOf(q, v) = DISCONNECT
  BY DEF Linked
<1>5. prev = At(s, k - 1) /\ next = At(s, k + 1)
  BY <1>2, <1>4
<1>6. /\ r \in Queues
      /\ SameStamps(q, r)
      /\ r.first = IF prev = DISCONNECT THEN next ELSE q.first
      /\ r.last = IF next = DISCONNECT THEN prev ELSE q.last
      /\ \A u \in Vars :
           /\ PrevOf(r, u) = IF u = next THEN prev
                             ELSE IF u = idx THEN DISCONNECT ELSE PrevOf(q, u)
           /\ NextOf(r, u) = IF u = prev THEN next
                             ELSE IF u = idx THEN DISCONNECT ELSE NextOf(q, u)
  BY <1>1, DequeuedLinks
<1> HIDE DEF k, r
<1>7. /\ t \in Seq(Vars) /\ IsInjective(t) /\ Len(t) = N - 1
      /\ ToSet(t) = ToSet(s) \ {idx}
      /\ \A i \in 1..(N - 1) : t[i] = IF i < k THEN s[i] ELSE s[i + 1]
  BY <1>0, <1>2, WithoutFacts
<1> HIDE DEF t, prev, next
<1>8. /\ prev = DISCONNECT <=> k = 1
      /\ next = DISCONNECT <=> k = N
      /\ k # 1 => prev = s[k - 1]
      /\ k # N => next = s[k + 1]
  BY <1>1, <1>2, <1>3, <1>5 DEF At
<1>9. r.first = At(t, 1)
  <2>1. CASE k = 1
    BY <1>1, <1>2, <1>5, <1>6, <1>7, <1>8, <2>1 DEF At
  <2>2. CASE k # 1
    BY <1>1, <1>2, <1>4, <1>6, <1>7, <1>8, <2>2 DEF At
  <2> QED
    BY <2>1, <2>2
<1>10. r.last = At(t, N - 1)
  <2>1. CASE k = N
    BY <1>1, <1>2, <1>5, <1>6, <1>7, <1>8, <2>1 DEF At
  <2>2. CASE k # N
    BY <1>1, <1>2, <1>4, <1>6, <1>7, <1>8, <2>2 DEF At
  <2> QED
    BY <2>1, <2>2
<1>11. ASSUME NEW i \in 1..(N - 1)
       PROVE  PrevOf(r, t[i]) = At(t, i - 1) /\ NextOf(r, t[i]) = At(t, i + 1)
  <2>1. CASE i < k
    <3>1. i \in 1..N /\ t[i] = s[i] /\ s[i] # idx /\ s[i] # next
      BY <1>1, <1>2, <1>3, <1>7, <1>8, <2>1
    <3>2. PrevOf(r, t[i]) = At(t, i - 1)
      <4>1. PrevOf(r, t[i]) = At(s, i - 1)
        BY <1>1, <1>4, <1>6, <3>1
      <4>2. At(s, i - 1) = At(t, i - 1)
        BY <1>1, <1>2, <1>7, <2>1, <3>1 DEF At
      <4> QED
        BY <4>1, <4>2
    <3>3. NextOf(r, t[i]) = At(t, i + 1)
      <4>1. CASE i + 1 = k
        <5>1. s[i] = prev
          BY <1>1, <1>2, <1>8, <3>1, <4>1
        <5>2. NextOf(r, t[i]) = At(s, k + 1)
          BY <1>1, <1>5, <1>6, <3>1, <5>1
        <5>3. At(s, k + 1) = At(t, i + 1)
          BY <1>1, <1>2, <1>7, <3>1, <4>1 DEF At
        <5> QED
          BY <5>2, <5>3
      <4>2. CASE i + 1 # k
        <5>1. s[i] # prev
          BY <1>1, <1>2, <1>3, <1>8, <3>1, <4>2
        <5>2. NextOf(r, t[i]) = At(s, i + 1)
          BY <1>1, <1>4, <1>6, <3>1, <5>1
        <5>3. At(s, i + 1) = At(t, i + 1)
          BY <1>1, <1>2, <1>7, <2>1, <4>2 DEF At
        <5> QED
          BY <5>2, <5>3
      <4> QED
        BY <4>1, <4>2
    <3> QED
      BY <3>2, <3>3
  <2>2. CASE ~(i < k)
    <3> DEFINE j == i + 1
    <3>1. j \in 1..N /\ t[i] = s[j] /\ s[j] # idx /\ s[j] # prev
      BY <1>1, <1>2, <1>3, <1>7, <1>8, <2>2
    <3>2. NextOf(r, t[i]) = At(t, i + 1)
      <4>1. NextOf(r, t[i]) = At(s, j + 1)
        BY <1>1, <1>4, <1>6, <3>1
      <4>2. At(s, j + 1) = At(t, i + 1)
        BY <1>1, <1>2, <1>7, <2>2 DEF At
      <4> QED
        BY <4>1, <4>2
    <3>3. PrevOf(r, t[i]) = At(t, i - 1)
      <4>1. CASE i = k
        <5>1. s[j] = next
          BY <1>1, <1>2, <1>8, <3>1, <4>1
        <5>2. PrevOf(r, t[i]) = At(s, k - 1)
          BY <1>1, <1>5, <1>6, <3>1, <5>1
        <5>3. At(s, k - 1) = At(t, i - 1)
          BY <1>1, <1>2, <1>7, <4>1 DEF At
        <5> QED
          BY <5>2, <5>3
      <4>2. CASE i # k
        <5>1. s[j] # next
          BY <1>1, <1>2, <1>3, <1>8, <3>1, <4>2
        <5>2. PrevOf(r, t[i]) = At(s, j - 1)
          BY <1>1, <1>4, <1>6, <3>1, <5>1
        <5>3. At(s, j - 1) = At(t, i - 1)
          BY <1>1, <1>2, <1>7, <2>2, <4>2 DEF At
        <5> QED
          BY <5>2, <5>3
      <4> QED
        BY <4>1, <4>2
    <3> QED
      BY <3>2, <3>3
  <2> QED
    BY <2>1, <2>2
<1>12. ASSUME NEW v \in Vars \ ToSet(t)
       PROVE  PrevOf(r, v) = DISCONNECT /\ NextOf(r, v) = DISCONNECT
  <2>1. CASE v = idx
    <3>1. idx # prev /\ idx # next
      BY <1>1, <1>2, <1>3, <1>8
    <3> QED
      BY <1>1, <1>6, <2>1, <3>1
  <2>2. CASE v # idx
    <3>1. v \notin ToSet(s)
      BY <1>7, <2>2
    <3>2. v # prev /\ v # next
      BY <1>1, <1>2, <1>3, <1>8, <3>1
    <3> QED
      BY <1>4, <1>6, <2>2, <3>1, <3>2
  <2> QED
    BY <2>1, <2>2
<1>13. Linked(r, t)
  BY <1>7, <1>9, <1>10, <1>11, <1>12 DEF Linked
<1> QED
  BY <1>6, <1>7, <1>13 DEF k, r, t

-----------------------------------------------------------------------------
LEMMA SameLinks ==
  ASSUME NEW q, NEW r, NEW s, Linked(q, s), r.first = q.first, r.last = q.last,
         \A v \in Vars : PrevOf(r, v) = PrevOf(q, v) /\ NextOf(r, v) = NextOf(q, v)
  PROVE  Linked(r, s)
<1>1. s \in Seq(Vars)
  BY DEF Linked
<1>2. \A i \in 1..Len(s) : s[i] \in Vars
  BY <1>1, SeqFacts
<1> QED
  BY <1>2 DEF Linked

LEMMA Restamp ==
  ASSUME NEW q \in Queues, NEW n, NEW links
  PROVE  [q EXCEPT !.stamp = n, !.links = links]
           = [links |-> links, first |-> q.first, last |-> q.last,
              stamp |-> n, search |-> q.search]
<1> DEFINE a == [q EXCEPT !.stamp = n]
<1>1. [q EXCEPT !.stamp = n, !.links = links] = [a EXCEPT !.links = links]
  OBVIOUS
<1>2. a = [links |-> q.links, first |-> q.first, last |-> q.last,
           stamp |-> n, search |-> q.search]
  BY DEF Queues
<1> HIDE DEF a
<1>3. [a EXCEPT !.links = links]
        = [links |-> links, first |-> q.first, last |-> q.last,
           stamp |-> n, search |-> q.search]
  BY <1>2
<1> QED
  BY <1>1, <1>3

(***************************************************************************)
(* kissat_reassign_queue_stamps: the stamps become the places.             *)
(***************************************************************************)
LEMMA StampsReassigned ==
  ASSUME NEW q \in Queues, NEW s, Linked(q, s)
  PROVE  LET r == ReassignStamps(q)
         IN  /\ r \in Queues
             /\ Linked(r, s)
             /\ r.first = q.first /\ r.last = q.last
             /\ r.stamp = Len(s)
             /\ \A i \in 1..Len(s) : StampOf(r, s[i]) = i
             /\ \A v \in Vars \ ToSet(s) : StampOf(r, v) = StampOf(q, v)
             /\ r.search = IF q.search.idx = DISCONNECT THEN q.search
                           ELSE [idx   |-> q.search.idx,
                                 stamp |-> StampOf(r, q.search.idx)]
<1> DEFINE N == Len(s)
           r == ReassignStamps(q)
           new(v) == [q.links[v] EXCEPT !.stamp = Index(s, v)]
           links == [v \in Vars |-> IF v \in ToSet(s) THEN new(v) ELSE q.links[v]]
           restamped == [q EXCEPT !.stamp = N, !.links = links]
<1>0. s \in Seq(Vars) /\ IsInjective(s)
  BY DEF Linked
<1>1. /\ N \in 0..MaxStamp
      /\ DOMAIN s = 1..N
      /\ \A i \in 1..N : s[i] \in Vars /\ s[i] \in ToSet(s)
      /\ \A i, j \in 1..N : s[i] = s[j] => i = j
      /\ \A v \in ToSet(s) : v \in Vars
  BY <1>0, SeqFacts, LengthBound
<1>2. \A v \in ToSet(s) : Index(s, v) \in 1..N /\ s[Index(s, v)] = v
  BY <1>0, IndexOf
<1>3. Order(q) = s
  BY OrderOf
<1>4. restamped = [q EXCEPT
        !.stamp = Len(Order(q)),
        !.links = [v \in Vars |->
                     IF v \in ToSet(Order(q))
                     THEN [@[v] EXCEPT !.stamp =
                             CHOOSE i \in DOMAIN Order(q) : Order(q)[i] = v]
                     ELSE @[v]]]
  BY <1>1, <1>3 DEF Index
<1>5. r = IF q.search.idx = DISCONNECT THEN restamped
          ELSE UpdateQueue(restamped, q.search.idx)
  <2>1. restamped.search.idx = q.search.idx
    BY DEF Queues
  <2> HIDE DEF restamped
  <2> QED
    BY <1>4, <2>1 DEF ReassignStamps, DISCONNECTED
<1>6. ASSUME NEW v \in ToSet(s)
      PROVE  /\ new(v) \in Links
             /\ new(v).prev = q.links[v].prev
             /\ new(v).next = q.links[v].next
             /\ new(v).stamp = Index(s, v)
  <2>1. q.links[v] \in Links
    BY <1>1, <1>6 DEF Queues
  <2>2. Index(s, v) \in 0..MaxStamp
    BY <1>1, <1>2, <1>6, MaxStampAssumption
  <2> QED
    BY <2>1, <2>2 DEF Links
<1> HIDE DEF new
<1>7. /\ links \in [Vars -> Links]
      /\ \A v \in Vars : links[v].prev = q.links[v].prev /\ links[v].next = q.links[v].next
      /\ \A v \in ToSet(s) : links[v].stamp = Index(s, v)
      /\ \A v \in Vars \ ToSet(s) : links[v] = q.links[v]
  BY <1>1, <1>6 DEF Queues
<1> HIDE DEF links
<1>8. restamped = [links |-> links, first |-> q.first, last |-> q.last,
                   stamp |-> N, search |-> q.search]
  BY Restamp
<1> HIDE DEF restamped
<1>9. restamped \in Queues
  BY <1>1, <1>7, <1>8 DEF Queues
<1>10. /\ r \in Queues
       /\ r.links = links
       /\ r.first = q.first /\ r.last = q.last /\ r.stamp = N
       /\ r.search = IF q.search.idx = DISCONNECT THEN q.search
                     ELSE [idx   |-> q.search.idx,
                           stamp |-> StampOf(restamped, q.search.idx)]
  <2>1. CASE q.search.idx = DISCONNECT
    BY <1>5, <1>8, <1>9, <2>1
  <2>2. CASE q.search.idx # DISCONNECT
    <3>1. q.search.idx \in Vars
      BY <2>2, QueueType DEF Elements
    <3> DEFINE u == UpdateQueue(restamped, q.search.idx)
    <3>2. /\ u \in Queues
          /\ u.search = [idx |-> q.search.idx, stamp |-> StampOf(restamped, q.search.idx)]
          /\ u.first = restamped.first /\ u.last = restamped.last
          /\ u.stamp = restamped.stamp
          /\ u.links = restamped.links
      BY <1>9, <3>1, WithSearch
    <3>3. r = u
      BY <1>5, <2>2
    <3> HIDE DEF u, r
    <3> QED
      BY <1>8, <2>2, <3>2, <3>3
  <2> QED
    BY <2>1, <2>2
<1> HIDE DEF r
<1>11. StampOf(restamped, q.search.idx) = StampOf(r, q.search.idx)
  BY <1>8, <1>10 DEF StampOf
<1>12. \A v \in Vars : PrevOf(r, v) = PrevOf(q, v) /\ NextOf(r, v) = NextOf(q, v)
  BY <1>7, <1>10 DEF PrevOf, NextOf
<1>13. Linked(r, s)
  BY <1>10, <1>12, SameLinks
<1>14. /\ \A i \in 1..N : StampOf(r, s[i]) = i
       /\ \A v \in Vars \ ToSet(s) : StampOf(r, v) = StampOf(q, v)
  BY <1>1, <1>2, <1>7, <1>10 DEF StampOf
<1> QED
  BY <1>10, <1>11, <1>13, <1>14 DEF r

LEMMA AppendFacts ==
  ASSUME NEW s \in Seq(Vars), IsInjective(s), NEW idx \in Vars, idx \notin ToSet(s)
  PROVE  LET t == Append(s, idx)
         IN  /\ t \in Seq(Vars)
             /\ IsInjective(t)
             /\ Len(t) = Len(s) + 1
             /\ ToSet(t) = ToSet(s) \cup {idx}
             /\ \A i \in 1..Len(s) : t[i] = s[i]
             /\ t[Len(s) + 1] = idx
<1> DEFINE N == Len(s)
           t == Append(s, idx)
<1>1. /\ t \in Seq(Vars)
      /\ Len(t) = N + 1
      /\ \A i \in 1..N : t[i] = s[i]
      /\ t[N + 1] = idx
  BY AppendProperties
<1> HIDE DEF t
<1>2. /\ N \in Nat
      /\ DOMAIN s = 1..N
      /\ DOMAIN t = 1..(N + 1)
      /\ \A i \in 1..N : s[i] \in ToSet(s)
      /\ \A i, j \in 1..N : s[i] = s[j] => i = j
  BY <1>1, SeqFacts
<1>3. \A i \in 1..(N + 1) : i \in 1..N \/ i = N + 1
  BY <1>2
<1>4. IsInjective(t)
  BY <1>1, <1>2, <1>3 DEF IsInjective
<1>5. ToSet(t) = ToSet(s) \cup {idx}
  <2>1. \A i \in 1..N : i \in 1..(N + 1)
    BY <1>2
  <2>2. N + 1 \in 1..(N + 1)
    BY <1>2
  <2> QED
    BY <1>1, <1>2, <1>3, <2>1, <2>2 DEF ToSet
<1> QED
  BY <1>1, <1>4, <1>5 DEF t

(* The first half of kissat_enqueue_links. *)
LinkLast(q, idx) ==
  LET tail == IF DISCONNECTED(q.last) THEN [q EXCEPT !.first = idx]
              ELSE [q EXCEPT !.links[q.last].next = idx]
  IN  [tail EXCEPT !.links[idx].prev = q.last, !.last = idx]

LEMMA LinkedLast ==
  ASSUME NEW q \in Queues, NEW s, Linked(q, s), NEW idx \in Vars, idx \notin ToSet(s)
  PROVE  LET r == LinkLast(q, idx)
         IN  /\ r \in Queues
             /\ SameStamps(q, r)
             /\ Linked(r, Append(s, idx))
<1> DEFINE N == Len(s)
           t == Append(s, idx)
           last == q.last
           tail == IF last = DISCONNECT THEN [q EXCEPT !.first = idx]
                   ELSE [q EXCEPT !.links[last].next = idx]
           back == [tail EXCEPT !.links[idx].prev = last]
           r == [back EXCEPT !.last = idx]
<1>0. s \in Seq(Vars) /\ IsInjective(s)
  BY DEF Linked
<1>1. /\ N \in Nat
      /\ \A i \in 1..N : s[i] \in Vars /\ s[i] \in ToSet(s)
      /\ \A i, j \in 1..N : s[i] = s[j] => i = j
  BY <1>0, SeqFacts
<1>2. /\ last \in Elements
      /\ idx \in Elements
      /\ last # DISCONNECT => last \in Vars
      /\ DISCONNECT \notin Vars
  BY QueueType, QueueVarsAssumption DEF Elements
<1>3. /\ q.first = At(s, 1) /\ last = At(s, N)
      /\ \A i \in 1..N : PrevOf(q, s[i]) = At(s, i - 1) /\ NextOf(q, s[i]) = At(s, i + 1)
      /\ \A v \in Vars \ ToSet(s) : PrevOf(q, v) = DISCONNECT /\ NextOf(q, v) = DISCONNECT
  BY DEF Linked
<1>4. LinkLast(q, idx) = r
  BY DEF LinkLast, DISCONNECTED
<1> HIDE DEF last
<1>5. /\ tail \in Queues
      /\ SameStamps(q, tail)
      /\ tail.first = IF last = DISCONNECT THEN idx ELSE q.first
      /\ \A u \in Vars : /\ PrevOf(tail, u) = PrevOf(q, u)
                         /\ NextOf(tail, u) = IF u = last THEN idx ELSE NextOf(q, u)
  <2>1. CASE last = DISCONNECT
    <3> DEFINE f == [q EXCEPT !.first = idx]
    <3>1. \A u \in Vars : u # last
      BY <1>2, <2>1
    <3>2. tail = f
      BY <2>1
    <3>3. /\ f \in Queues
          /\ SameStamps(q, f)
          /\ f.first = idx
          /\ \A u \in Vars : PrevOf(f, u) = PrevOf(q, u) /\ NextOf(f, u) = NextOf(q, u)
      BY <1>2, WithFirst
    <3> HIDE DEF f, tail
    <3> QED
      BY <2>1, <3>1, <3>2, <3>3
  <2>2. CASE last # DISCONNECT
    <3> DEFINE f == [q EXCEPT !.links[last].next = idx]
    <3>1. tail = f
      BY <2>2
    <3>2. /\ f \in Queues
          /\ SameStamps(q, f)
          /\ f.first = q.first
          /\ \A u \in Vars : /\ PrevOf(f, u) = PrevOf(q, u)
                             /\ NextOf(f, u) = IF u = last THEN idx ELSE NextOf(q, u)
      <4>1. last \in Vars /\ idx \in Elements
        BY <1>2, <2>2
      <4> QED
        BY <4>1, WithNext
    <3> HIDE DEF f, tail
    <3> QED
      BY <2>2, <3>1, <3>2
  <2> QED
    BY <2>1, <2>2
<1> HIDE DEF tail
<1>6. /\ back \in Queues
      /\ SameStamps(tail, back)
      /\ back.first = tail.first
      /\ \A u \in Vars : /\ NextOf(back, u) = NextOf(tail, u)
                         /\ PrevOf(back, u) = IF u = idx THEN last ELSE PrevOf(tail, u)
  BY <1>2, <1>5, WithPrev
<1> HIDE DEF back
<1>7. /\ r \in Queues
      /\ SameStamps(back, r)
      /\ r.first = back.first /\ r.last = idx
      /\ \A u \in Vars : PrevOf(r, u) = PrevOf(back, u) /\ NextOf(r, u) = NextOf(back, u)
  BY <1>2, <1>6, WithLast
<1> HIDE DEF r
<1>8. /\ r.first = IF last = DISCONNECT THEN idx ELSE q.first
      /\ r.last = idx
      /\ \A u \in Vars : /\ NextOf(r, u) = IF u = last THEN idx ELSE NextOf(q, u)
                         /\ PrevOf(r, u) = IF u = idx THEN last ELSE PrevOf(q, u)
  BY <1>5, <1>6, <1>7
<1>9. SameStamps(q, r)
  BY <1>5, <1>6, <1>7 DEF SameStamps
<1>10. /\ t \in Seq(Vars) /\ IsInjective(t) /\ Len(t) = N + 1
       /\ ToSet(t) = ToSet(s) \cup {idx}
       /\ \A i \in 1..N : t[i] = s[i]
       /\ t[N + 1] = idx
  BY <1>0, AppendFacts
<1> HIDE DEF t
<1>11. /\ last = DISCONNECT <=> N = 0
       /\ N # 0 => last = s[N]
  BY <1>1, <1>2, <1>3 DEF At
<1>12. r.first = At(t, 1) /\ r.last = At(t, N + 1)
  BY <1>1, <1>3, <1>8, <1>10, <1>11 DEF At
<1>13. ASSUME NEW i \in 1..(N + 1)
       PROVE  PrevOf(r, t[i]) = At(t, i - 1) /\ NextOf(r, t[i]) = At(t, i + 1)
  <2>1. CASE i = N + 1
    <3>1. t[i] = idx /\ idx # last
      BY <1>1, <1>2, <1>10, <1>11, <2>1
    <3>2. PrevOf(r, t[i]) = last /\ NextOf(r, t[i]) = DISCONNECT
      BY <1>3, <1>8, <3>1
    <3>3. At(t, i + 1) = DISCONNECT
      BY <1>1, <1>10, <2>1 DEF At
    <3>4. At(t, i - 1) = last
      BY <1>1, <1>3, <1>10, <2>1 DEF At
    <3> QED
      BY <3>2, <3>3, <3>4
  <2>2. CASE i # N + 1
    <3>1. i \in 1..N /\ t[i] = s[i] /\ s[i] # idx /\ s[i] \in Vars
      BY <1>1, <1>10, <2>2
    <3>2. PrevOf(r, t[i]) = At(s, i - 1)
      BY <1>3, <1>8, <3>1
    <3>3. At(s, i - 1) = At(t, i - 1)
      BY <1>1, <1>10, <3>1 DEF At
    <3>4. CASE i = N
      <4>1. s[i] = last
        BY <1>1, <1>11, <3>1, <3>4
      <4>2. NextOf(r, t[i]) = idx
        BY <1>8, <3>1, <4>1
      <4> QED
        BY <1>1, <1>10, <3>2, <3>3, <3>4, <4>2 DEF At
    <3>5. CASE i # N
      <4>1. s[i] # last
        BY <1>1, <1>11, <3>1, <3>5
      <4>2. NextOf(r, t[i]) = At(s, i + 1)
        BY <1>3, <1>8, <3>1, <4>1
      <4>3. At(s, i + 1) = At(t, i + 1)
        BY <1>1, <1>10, <3>1, <3>5 DEF At
      <4> QED
        BY <3>2, <3>3, <4>2, <4>3
    <3> QED
      BY <3>4, <3>5
  <2> QED
    BY <2>1, <2>2
<1>14. ASSUME NEW v \in Vars \ ToSet(t)
       PROVE  PrevOf(r, v) = DISCONNECT /\ NextOf(r, v) = DISCONNECT
  <2>1. v \notin ToSet(s) /\ v # idx
    BY <1>10
  <2>2. v # last
    BY <1>1, <1>2, <1>11, <2>1
  <2> QED
    BY <1>3, <1>8, <2>1, <2>2
<1>15. Linked(r, t)
  BY <1>10, <1>12, <1>13, <1>14 DEF Linked
<1> QED
  BY <1>4, <1>7, <1>9, <1>15 DEF t

-----------------------------------------------------------------------------
(***************************************************************************)
(* The stamps increase along the links, up to the stamp given last.        *)
(***************************************************************************)
Increasing(q, s) ==
  /\ \A i, j \in 1..Len(s) : i < j => StampOf(q, s[i]) < StampOf(q, s[j])
  /\ \A i \in 1..Len(s) : StampOf(q, s[i]) <= q.stamp

Stamped(q, v, n) == [q EXCEPT !.stamp = n, !.links[v].stamp = n]

LEMMA WithStamp ==
  ASSUME NEW q \in Queues, NEW v \in Vars, NEW n \in 0..MaxStamp
  PROVE  LET r == Stamped(q, v, n)
         IN  /\ r \in Queues
             /\ r.first = q.first /\ r.last = q.last
             /\ r.stamp = n /\ r.search = q.search
             /\ \A u \in Vars : /\ PrevOf(r, u) = PrevOf(q, u)
                                /\ NextOf(r, u) = NextOf(q, u)
                                /\ StampOf(r, u) = IF u = v THEN n ELSE StampOf(q, u)
<1> DEFINE link == [q.links[v] EXCEPT !.stamp = n]
           links == [q.links EXCEPT ![v] = link]
           r == Stamped(q, v, n)
<1>1. r = [q EXCEPT !.stamp = n, !.links = links]
  BY DEF Stamped
<1>2. /\ q.links \in [Vars -> Links]
      /\ q.links[v] \in Links
  BY DEF Queues
<1>3. /\ link \in Links
      /\ link.prev = q.links[v].prev /\ link.next = q.links[v].next /\ link.stamp = n
  BY <1>2 DEF Links
<1> HIDE DEF link
<1>4. /\ links \in [Vars -> Links]
      /\ \A u \in Vars : links[u] = IF u = v THEN link ELSE q.links[u]
  BY <1>2, <1>3
<1> HIDE DEF links, r
<1>5. r = [links |-> links, first |-> q.first, last |-> q.last,
           stamp |-> n, search |-> q.search]
  BY <1>1, Restamp
<1>6. r \in Queues
  BY <1>4, <1>5 DEF Queues
<1>7. r.links = links
  BY <1>5
<1>8. \A u \in Vars : /\ PrevOf(r, u) = PrevOf(q, u)
                      /\ NextOf(r, u) = NextOf(q, u)
                      /\ StampOf(r, u) = IF u = v THEN n ELSE StampOf(q, u)
  BY <1>3, <1>4, <1>7 DEF PrevOf, NextOf, StampOf
<1> QED
  BY <1>5, <1>6, <1>8 DEF r

(***************************************************************************)
(* kissat_enqueue_links puts its variable last and gives it the largest    *)
(* stamp, also if the stamps were used up.                                 *)
(***************************************************************************)
LEMMA EnqueuedLinks ==
  ASSUME NEW q \in Queues, NEW s, Linked(q, s), Increasing(q, s),
         NEW idx \in Vars, idx \notin ToSet(s)
  PROVE  LET r == EnqueueLinks(q, idx)
             t == Append(s, idx)
             full == q.stamp = MaxStamp
         IN  /\ r \in Queues
             /\ Linked(r, t)
             /\ Increasing(r, t)
             /\ r.stamp = IF full THEN Len(s) + 1 ELSE q.stamp + 1
             /\ StampOf(r, idx) = r.stamp
             /\ \A v \in Vars \ {idx} :
                  StampOf(r, v) = IF full /\ v \in ToSet(s) THEN Index(s, v)
                                  ELSE StampOf(q, v)
             /\ r.search = IF full /\ q.search.idx # DISCONNECT
                           THEN [idx   |-> q.search.idx,
                                 stamp |-> StampOf(r, q.search.idx)]
                           ELSE q.search
<1> DEFINE N == Len(s)
           t == Append(s, idx)
           linked == LinkLast(q, idx)
           r == EnqueueLinks(q, idx)
<1>0. s \in Seq(Vars) /\ IsInjective(s)
  BY DEF Linked
<1>1. /\ N \in Nat
      /\ \A i \in 1..N : s[i] \in Vars /\ s[i] \in ToSet(s)
  BY <1>0, SeqFacts
<1>2. \A v \in ToSet(s) : Index(s, v) \in 1..N /\ s[Index(s, v)] = v
  BY <1>0, IndexOf
<1>3. /\ t \in Seq(Vars) /\ IsInjective(t) /\ Len(t) = N + 1
      /\ ToSet(t) = ToSet(s) \cup {idx}
      /\ \A i \in 1..N : t[i] = s[i]
      /\ t[N + 1] = idx
  BY <1>0, AppendFacts
<1> HIDE DEF t
<1>4. /\ linked \in Queues
      /\ SameStamps(q, linked)
      /\ Linked(linked, t)
  BY LinkedLast DEF t
<1>5. EnqueueLinks(q, idx)
        = IF q.stamp = MaxStamp THEN ReassignStamps(linked)
          ELSE [linked EXCEPT !.stamp = q.stamp + 1, !.links[idx].stamp = q.stamp + 1]
  <2>1. linked.stamp = q.stamp
    BY <1>4 DEF SameStamps
  <2>2. EnqueueLinks(q, idx)
          = IF q.stamp = MaxStamp THEN ReassignStamps(linked)
            ELSE [linked EXCEPT !.stamp = linked.stamp + 1, !.links[idx].stamp = q.stamp + 1]
    BY DEF EnqueueLinks, LinkLast
  <2> HIDE DEF linked
  <2> QED
    BY <2>1, <2>2
<1> HIDE DEF linked
<1>6. CASE q.stamp = MaxStamp
  <2> DEFINE f == ReassignStamps(linked)
  <2>1. r = f
    BY <1>5, <1>6
  <2>2. /\ f \in Queues
        /\ Linked(f, t)
        /\ f.stamp = Len(t)
        /\ \A i \in 1..Len(t) : StampOf(f, t[i]) = i
        /\ \A v \in Vars \ ToSet(t) : StampOf(f, v) = StampOf(linked, v)
        /\ f.search = IF linked.search.idx = DISCONNECT THEN linked.search
                      ELSE [idx   |-> linked.search.idx,
                            stamp |-> StampOf(f, linked.search.idx)]
    BY <1>4, StampsReassigned
  <2> HIDE DEF f, r
  <2>3. \A i \in 1..(N + 1) : StampOf(r, t[i]) = i
    BY <1>3, <2>1, <2>2
  <2>4. r.stamp = N + 1
    BY <1>3, <2>1, <2>2
  <2>5. N + 1 \in 1..(N + 1) /\ \A i \in 1..N : i \in 1..(N + 1)
    BY <1>1
  <2>6. StampOf(r, idx) = N + 1
    BY <1>3, <2>3, <2>5
  <2>7. Increasing(r, t)
    BY <1>1, <1>3, <2>3, <2>4 DEF Increasing
  <2>8. ASSUME NEW v \in Vars \ {idx}
        PROVE  StampOf(r, v) = IF v \in ToSet(s) THEN Index(s, v) ELSE StampOf(q, v)
    <3>1. CASE v \in ToSet(s)
      BY <1>2, <1>3, <2>3, <2>5, <3>1
    <3>2. CASE v \notin ToSet(s)
      <4>1. v \notin ToSet(t)
        BY <1>3, <2>8, <3>2
      <4> QED
        BY <1>4, <2>1, <2>2, <3>2, <4>1 DEF SameStamps
    <3> QED
      BY <3>1, <3>2
  <2>9. r.search = IF q.search.idx # DISCONNECT
                   THEN [idx |-> q.search.idx, stamp |-> StampOf(r, q.search.idx)]
                   ELSE q.search
    BY <1>4, <2>1, <2>2 DEF SameStamps
  <2> QED
    BY <1>6, <2>1, <2>2, <2>4, <2>6, <2>7, <2>8, <2>9 DEF t, r
<1>7. CASE q.stamp # MaxStamp
  <2> DEFINE n == q.stamp + 1
             f == Stamped(linked, idx, n)
  <2>1. r = f
    BY <1>5, <1>7 DEF Stamped
  <2>2. n \in 0..MaxStamp /\ q.stamp \in Nat
    <3>1. q.stamp \in 0..MaxStamp
      BY QueueType
    <3> QED
      BY <1>7, <3>1, MaxStampAssumption
  <2> HIDE DEF n
  <2>3. /\ f \in Queues
        /\ f.first = linked.first /\ f.last = linked.last
        /\ f.stamp = n /\ f.search = linked.search
        /\ \A u \in Vars : /\ PrevOf(f, u) = PrevOf(linked, u)
                           /\ NextOf(f, u) = NextOf(linked, u)
                           /\ StampOf(f, u) = IF u = idx THEN n ELSE StampOf(linked, u)
    <3>1. linked \in Queues /\ n \in 0..MaxStamp
      BY <1>4, <2>2
    <3> QED
      BY ONLY <3>1, idx \in Vars, WithStamp
  <2> HIDE DEF f, r
  <2>4. Linked(r, t)
    BY <1>4, <2>1, <2>3, SameLinks
  <2>5. \A u \in Vars : StampOf(r, u) = IF u = idx THEN n ELSE StampOf(q, u)
    BY <1>4, <2>1, <2>3 DEF SameStamps
  <2>6. \A i \in 1..N : /\ StampOf(r, t[i]) = StampOf(q, s[i])
                        /\ StampOf(q, s[i]) \in Nat
                        /\ StampOf(q, s[i]) <= q.stamp
    <3>1. \A i \in 1..N : s[i] # idx /\ StampOf(q, s[i]) \in 0..MaxStamp
      BY <1>1, QueueType
    <3> QED
      BY <1>1, <1>3, <2>5, <3>1 DEF Increasing
  <2>7. Increasing(r, t)
    <3>1. \A i \in 1..(N + 1) : i \in 1..N \/ i = N + 1
      BY <1>1
    <3>2. StampOf(r, t[N + 1]) = n /\ n = q.stamp + 1
      BY <1>3, <2>5 DEF n
    <3>3. r.stamp = n
      BY <2>1, <2>3
    <3>4. \A i \in 1..(N + 1) : StampOf(r, t[i]) <= r.stamp
      BY <2>2, <2>6, <3>1, <3>2, <3>3
    <3>5. ASSUME NEW i \in 1..(N + 1), NEW j \in 1..(N + 1), i < j
          PROVE  StampOf(r, t[i]) < StampOf(r, t[j])
      <4>1. i \in 1..N
        BY <1>1, <3>5
      <4>2. CASE j = N + 1
        BY <2>2, <2>6, <3>2, <4>1, <4>2
      <4>3. CASE j \in 1..N
        BY <2>6, <3>5, <4>1, <4>3 DEF Increasing
      <4> QED
        BY <3>1, <4>2, <4>3
    <3> QED
      BY <1>3, <3>4, <3>5 DEF Increasing
  <2>8. r.stamp = q.stamp + 1 /\ r.search = q.search
    BY <1>4, <2>1, <2>3 DEF SameStamps, n
  <2> QED
    BY <1>7, <2>1, <2>3, <2>4, <2>5, <2>7, <2>8 DEF t, r, n
<1> QED
  BY <1>6, <1>7 DEF r

-----------------------------------------------------------------------------
(* The sequence with idx in front. *)
LEMMA PrependFacts ==
  ASSUME NEW s \in Seq(Vars), IsInjective(s), NEW idx \in Vars, idx \notin ToSet(s)
  PROVE  LET t == <<idx>> \o s
         IN  /\ t \in Seq(Vars)
             /\ IsInjective(t)
             /\ Len(t) = Len(s) + 1
             /\ ToSet(t) = ToSet(s) \cup {idx}
             /\ t[1] = idx
             /\ \A i \in 1..Len(s) : t[i + 1] = s[i]
<1> DEFINE N == Len(s)
           t == <<idx>> \o s
<1>1. N \in Nat /\ <<idx>> \in Seq(Vars) /\ Len(<<idx>>) = 1 /\ <<idx>>[1] = idx
  BY SeqFacts
<1>2. /\ t \in Seq(Vars)
      /\ Len(t) = 1 + N
      /\ \A i \in 1..(1 + N) : t[i] = IF i <= 1 THEN <<idx>>[i] ELSE s[i - 1]
  BY <1>1, ConcatProperties
<1> HIDE DEF t
<1>3. t[1] = idx /\ Len(t) = N + 1
  BY <1>1, <1>2
<1>4. \A i \in 1..N : t[i + 1] = s[i]
  <2> SUFFICES ASSUME NEW i \in 1..N
               PROVE  t[i + 1] = s[i]
    OBVIOUS
  <2>1. i + 1 \in 1..(1 + N) /\ ~(i + 1 <= 1) /\ (i + 1) - 1 = i
    BY <1>1
  <2>2. t[i + 1] = s[(i + 1) - 1]
    BY <1>2, <2>1
  <2> QED
    BY <2>1, <2>2
<1>5. /\ DOMAIN s = 1..N
      /\ DOMAIN t = 1..(N + 1)
      /\ \A i \in 1..N : s[i] \in ToSet(s)
      /\ \A i, j \in 1..N : s[i] = s[j] => i = j
  BY <1>2, <1>3, SeqFacts
<1>6. \A i \in 1..(N + 1) : i = 1 \/ (i - 1 \in 1..N /\ t[i] = s[i - 1])
  <2> SUFFICES ASSUME NEW i \in 1..(N + 1), i # 1
               PROVE  i - 1 \in 1..N /\ t[i] = s[i - 1]
    OBVIOUS
  <2>1. i - 1 \in 1..N /\ (i - 1) + 1 = i
    BY <1>1
  <2>2. t[(i - 1) + 1] = s[i - 1]
    BY <1>4, <2>1
  <2> QED
    BY <2>1, <2>2
<1>7. IsInjective(t)
  <2> SUFFICES ASSUME NEW i \in 1..(N + 1), NEW j \in 1..(N + 1), t[i] = t[j]
               PROVE  i = j
    BY <1>5 DEF IsInjective
  <2>1. CASE i = 1 \/ j = 1
    BY <1>3, <1>5, <1>6, <2>1
  <2>2. CASE i # 1 /\ j # 1
    <3>1. i - 1 = j - 1
      BY <1>5, <1>6, <2>2
    <3> QED
      BY <1>1, <3>1
  <2> QED
    BY <2>1, <2>2
<1>8. ToSet(t) = ToSet(s) \cup {idx}
  <2>1. \A i \in 1..N : i + 1 \in 1..(N + 1)
    BY <1>1
  <2>2. 1 \in 1..(N + 1)
    BY <1>1
  <2>3. ASSUME NEW v \in ToSet(t)
        PROVE  v \in ToSet(s) \cup {idx}
    BY <1>3, <1>5, <1>6, <2>3 DEF ToSet
  <2>4. ASSUME NEW v \in ToSet(s) \cup {idx}
        PROVE  v \in ToSet(t)
    <3>1. CASE v = idx
      BY <1>3, <1>5, <2>2, <3>1 DEF ToSet
    <3>2. CASE v \in ToSet(s)
      <4>1. PICK i \in 1..N : s[i] = v
        BY <1>5, <3>2 DEF ToSet
      <4>2. t[i + 1] = v /\ i + 1 \in 1..(N + 1)
        BY <1>4, <2>1, <4>1
      <4> QED
        BY <1>5, <4>2 DEF ToSet
    <3> QED
      BY <3>1, <3>2
  <2> QED
    BY <2>3, <2>4
<1> QED
  BY <1>2, <1>3, <1>4, <1>7, <1>8 DEF t

(* A variable out of the list becomes its first one. *)
LEMMA LinkedFirst ==
  ASSUME NEW q \in Queues, NEW s, Linked(q, s), NEW idx \in Vars, idx \notin ToSet(s)
  PROVE  LET r == PutFirst(q, idx)
         IN  /\ r \in Queues
             /\ SameStamps(q, r)
             /\ Linked(r, <<idx>> \o s)
<1> DEFINE N == Len(s)
           t == <<idx>> \o s
           first == q.first
           head == IF first = DISCONNECT THEN [q EXCEPT !.last = idx]
                   ELSE [q EXCEPT !.links[first].prev = idx]
           forth == [head EXCEPT !.links[idx].next = first]
           r == [forth EXCEPT !.first = idx]
<1>0. s \in Seq(Vars) /\ IsInjective(s)
  BY DEF Linked
<1>1. /\ N \in Nat
      /\ \A i \in 1..N : s[i] \in Vars /\ s[i] \in ToSet(s)
      /\ \A i, j \in 1..N : s[i] = s[j] => i = j
  BY <1>0, SeqFacts
<1>2. /\ first \in Elements
      /\ idx \in Elements
      /\ first # DISCONNECT => first \in Vars
      /\ DISCONNECT \notin Vars
  BY QueueType, QueueVarsAssumption DEF Elements
<1>3. /\ first = At(s, 1) /\ q.last = At(s, N)
      /\ \A i \in 1..N : PrevOf(q, s[i]) = At(s, i - 1) /\ NextOf(q, s[i]) = At(s, i + 1)
      /\ \A v \in Vars \ ToSet(s) : PrevOf(q, v) = DISCONNECT /\ NextOf(q, v) = DISCONNECT
  BY DEF Linked
<1>4. PutFirst(q, idx) = r
  BY DEF PutFirst, DISCONNECTED
<1> HIDE DEF first
<1>5. /\ head \in Queues
      /\ SameStamps(q, head)
      /\ head.last = IF first = DISCONNECT THEN idx ELSE q.last
      /\ \A u \in Vars : /\ NextOf(head, u) = NextOf(q, u)
                         /\ PrevOf(head, u) = IF u = first THEN idx ELSE PrevOf(q, u)
  <2>1. CASE first = DISCONNECT
    <3> DEFINE f == [q EXCEPT !.last = idx]
    <3>1. \A u \in Vars : u # first
      BY <1>2, <2>1
    <3>2. head = f
      BY <2>1
    <3>3. /\ f \in Queues
          /\ SameStamps(q, f)
          /\ f.last = idx
          /\ \A u \in Vars : PrevOf(f, u) = PrevOf(q, u) /\ NextOf(f, u) = NextOf(q, u)
      BY <1>2, WithLast
    <3> HIDE DEF f, head
    <3> QED
      BY <2>1, <3>1, <3>2, <3>3
  <2>2. CASE first # DISCONNECT
    <3> DEFINE f == [q EXCEPT !.links[first].prev = idx]
    <3>1. head = f
      BY <2>2
    <3>2. /\ f \in Queues
          /\ SameStamps(q, f)
          /\ f.last = q.last
          /\ \A u \in Vars : /\ NextOf(f, u) = NextOf(q, u)
                             /\ PrevOf(f, u) = IF u = first THEN idx ELSE PrevOf(q, u)
      <4>1. first \in Vars /\ idx \in Elements
        BY <1>2, <2>2
      <4> QED
        BY <4>1, WithPrev
    <3> HIDE DEF f, head
    <3> QED
      BY <2>2, <3>1, <3>2
  <2> QED
    BY <2>1, <2>2
<1> HIDE DEF head
<1>6. /\ forth \in Queues
      /\ SameStamps(head, forth)
      /\ forth.last = head.last
      /\ \A u \in Vars : /\ PrevOf(forth, u) = PrevOf(head, u)
                         /\ NextOf(forth, u) = IF u = idx THEN first ELSE NextOf(head, u)
  BY <1>2, <1>5, WithNext
<1> HIDE DEF forth
<1>7. /\ r \in Queues
      /\ SameStamps(forth, r)
      /\ r.first = idx /\ r.last = forth.last
      /\ \A u \in Vars : PrevOf(r, u) = PrevOf(forth, u) /\ NextOf(r, u) = NextOf(forth, u)
  BY <1>2, <1>6, WithFirst
<1> HIDE DEF r
<1>8. /\ r.first = idx
      /\ r.last = IF first = DISCONNECT THEN idx ELSE q.last
      /\ \A u \in Vars : /\ PrevOf(r, u) = IF u = first THEN idx ELSE PrevOf(q, u)
                         /\ NextOf(r, u) = IF u = idx THEN first ELSE NextOf(q, u)
  BY <1>5, <1>6, <1>7
<1>9. SameStamps(q, r)
  BY <1>5, <1>6, <1>7 DEF SameStamps
<1>10. /\ t \in Seq(Vars) /\ IsInjective(t) /\ Len(t) = N + 1
       /\ ToSet(t) = ToSet(s) \cup {idx}
       /\ t[1] = idx
       /\ \A i \in 1..N : t[i + 1] = s[i]
  BY <1>0, PrependFacts
<1> HIDE DEF t
<1>11. /\ first = DISCONNECT <=> N = 0
       /\ N # 0 => first = s[1]
  BY <1>1, <1>2, <1>3 DEF At
<1>12. \A i \in 0..N : At(t, i + 1) = IF i = 0 THEN idx ELSE At(s, i)
  BY <1>1, <1>10 DEF At
<1>13. At(t, N + 2) = DISCONNECT /\ At(s, N + 1) = DISCONNECT
  BY <1>1, <1>10 DEF At
<1>14. r.first = At(t, 1) /\ r.last = At(t, N + 1)
  <2>1. 0 \in 0..N /\ N \in 0..N /\ 0 + 1 = 1
    BY <1>1
  <2>2. At(t, 1) = idx /\ At(t, N + 1) = IF N = 0 THEN idx ELSE At(s, N)
    BY <1>12, <2>1
  <2> QED
    BY <1>3, <1>8, <1>11, <2>2
<1>15. PrevOf(r, idx) = DISCONNECT /\ NextOf(r, idx) = At(t, 2)
  <2>1. idx # first
    BY <1>1, <1>2, <1>11
  <2>2. At(t, 2) = first
    <3>1. CASE N = 0
      BY <1>11, <1>13, <3>1
    <3>2. CASE N # 0
      <4>1. 1 \in 1..N /\ 1 \in 0..N /\ 1 + 1 = 2
        BY <1>1, <3>2
      <4> QED
        BY <1>3, <1>12, <4>1
    <3> QED
      BY <3>1, <3>2
  <2> QED
    BY <1>3, <1>8, <2>1, <2>2
<1>16. ASSUME NEW i \in 1..N
       PROVE  PrevOf(r, s[i]) = At(t, i) /\ NextOf(r, s[i]) = At(t, i + 2)
  <2>1. s[i] \in Vars /\ s[i] # idx
    BY <1>1
  <2>2. NextOf(r, s[i]) = At(t, i + 2)
    <3>1. NextOf(r, s[i]) = At(s, i + 1)
      BY <1>3, <1>8, <2>1
    <3>2. At(s, i + 1) = At(t, i + 2)
      BY <1>1, <1>10 DEF At
    <3> QED
      BY <3>1, <3>2
  <2>3. CASE i = 1
    <3>1. s[i] = first
      BY <1>1, <1>11, <2>3
    <3>2. At(t, i) = idx
      BY <1>1, <1>10, <2>3 DEF At
    <3> QED
      BY <1>8, <2>1, <2>2, <3>1, <3>2
  <2>4. CASE i # 1
    <3>1. s[i] # first
      BY <1>1, <1>11, <2>4
    <3>2. PrevOf(r, s[i]) = At(s, i - 1)
      BY <1>3, <1>8, <2>1, <3>1
    <3>3. i - 1 \in 0..N /\ i - 1 # 0 /\ (i - 1) + 1 = i
      BY <1>1, <2>4
    <3>4. At(t, i) = At(s, i - 1)
      BY <1>12, <3>3
    <3> QED
      BY <2>2, <3>2, <3>4
  <2> QED
    BY <2>3, <2>4
<1>17. ASSUME NEW i \in 1..(N + 1)
       PROVE  PrevOf(r, t[i]) = At(t, i - 1) /\ NextOf(r, t[i]) = At(t, i + 1)
  <2>1. CASE i = 1
    <3>1. At(t, 0) = DISCONNECT
      BY DEF At
    <3> QED
      BY <1>10, <1>15, <2>1, <3>1
  <2>2. CASE i # 1
    <3> DEFINE j == i - 1
    <3>1. j \in 1..N /\ i = j + 1 /\ i + 1 = j + 2
      BY <1>1, <2>2
    <3>2. t[i] = s[j]
      BY <1>10, <3>1
    <3> HIDE DEF j
    <3>3. PrevOf(r, s[j]) = At(t, j) /\ NextOf(r, s[j]) = At(t, j + 2)
      BY <1>16, <3>1
    <3> QED
      BY <3>1, <3>2, <3>3 DEF j
  <2> QED
    BY <2>1, <2>2
<1>18. ASSUME NEW v \in Vars \ ToSet(t)
       PROVE  PrevOf(r, v) = DISCONNECT /\ NextOf(r, v) = DISCONNECT
  <2>1. v \notin ToSet(s) /\ v # idx
    BY <1>10
  <2>2. v # first
    BY <1>1, <1>2, <1>11, <2>1
  <2> QED
    BY <1>3, <1>8, <2>1, <2>2
<1>19. Linked(r, t)
  BY <1>10, <1>14, <1>17, <1>18 DEF Linked
<1> QED
  BY <1>4, <1>7, <1>9, <1>19 DEF t

-----------------------------------------------------------------------------
(* Places are ranks: how many elements have no larger stamp ... *)
LEMMA RankOf ==
  ASSUME NEW q \in Queues, NEW s \in Seq(Vars), IsInjective(s), Increasing(q, s),
         NEW i \in 1..Len(s)
  PROVE  Cardinality({v \in ToSet(s) : StampOf(q, v) <= StampOf(q, s[i])}) = i
<1> DEFINE N == Len(s)
           firsts == {s[j] : j \in 1..i}
<1>1. /\ N \in Nat /\ i \in 0..N
      /\ \A j \in 1..i : j \in 1..N
      /\ \A j \in 1..N : s[j] \in Vars /\ s[j] \in ToSet(s)
      /\ \A v \in ToSet(s) : \E j \in 1..N : s[j] = v
  BY SeqFacts
<1>2. \A j \in 1..N : StampOf(q, s[j]) \in Nat
  BY <1>1, StampType
<1>3. ASSUME NEW j \in 1..N
      PROVE  StampOf(q, s[j]) <= StampOf(q, s[i]) <=> j \in 1..i
  BY <1>1, <1>2 DEF Increasing
<1>4. {v \in ToSet(s) : StampOf(q, v) <= StampOf(q, s[i])} = firsts
  <2>1. ASSUME NEW v \in ToSet(s), StampOf(q, v) <= StampOf(q, s[i])
        PROVE  v \in firsts
    <3>1. PICK j \in 1..N : s[j] = v
      BY <1>1
    <3>2. j \in 1..i
      BY <1>3, <2>1, <3>1
    <3> QED
      BY <3>1, <3>2
  <2>2. ASSUME NEW v \in firsts
        PROVE  v \in ToSet(s) /\ StampOf(q, v) <= StampOf(q, s[i])
    BY <1>1, <1>3
  <2> QED
    BY <2>1, <2>2
<1>5. Cardinality(firsts) = i
  BY <1>1, Counted
<1> QED
  BY <1>4, <1>5

(* ... and how many have no smaller one. *)
LEMMA RankFromLastOf ==
  ASSUME NEW q \in Queues, NEW s \in Seq(Vars), IsInjective(s), Increasing(q, s),
         NEW i \in 1..Len(s)
  PROVE  Cardinality({v \in ToSet(s) : StampOf(q, v) >= StampOf(q, s[i])})
           = Len(s) + 1 - i
<1> DEFINE N == Len(s)
           before == {s[j] : j \in 1..(i - 1)}
           S == ToSet(s)
           behind == {v \in S : StampOf(q, v) >= StampOf(q, s[i])}
<1>1. /\ N \in Nat /\ i - 1 \in 0..N
      /\ \A j \in 1..(i - 1) : j \in 1..N
      /\ \A j \in 1..N : s[j] \in Vars /\ s[j] \in S
      /\ \A v \in S : \E j \in 1..N : s[j] = v
      /\ \A j, k \in 1..N : s[j] = s[k] => j = k
  BY SeqFacts
<1>2. \A j \in 1..N : StampOf(q, s[j]) \in Nat
  BY <1>1, StampType
<1>3. ASSUME NEW j \in 1..N
      PROVE  StampOf(q, s[j]) >= StampOf(q, s[i]) <=> j \notin 1..(i - 1)
  BY <1>1, <1>2, SMTT(20) DEF Increasing
<1>4. behind = S \ before
  <2>1. ASSUME NEW v \in S
        PROVE  StampOf(q, v) >= StampOf(q, s[i]) <=> v \notin before
    <3>1. PICK j \in 1..N : s[j] = v
      BY <1>1
    <3>2. v \in before <=> j \in 1..(i - 1)
      BY <1>1, <3>1
    <3> QED
      BY <1>3, <3>1, <3>2
  <2> HIDE DEF before, S
  <2> QED
    BY <2>1
<1>5. IsFiniteSet(before) /\ Cardinality(before) = i - 1
  BY <1>1, Counted
<1>6. before \subseteq S
  BY <1>1
<1>7. IsFiniteSet(S) /\ Cardinality(S) = N
  BY LengthBound
<1> HIDE DEF before, S, behind
<1>8. Cardinality(behind) = Cardinality(S) - Cardinality(before)
  <2>1. S \cap before = before
    BY <1>6
  <2>2. Cardinality(S \ before) = Cardinality(S) - Cardinality(S \cap before)
    BY <1>7, FS_Difference
  <2> QED
    BY <1>4, <2>1, <2>2
<1>9. Cardinality(behind) = N + 1 - i
  BY <1>1, <1>5, <1>7, <1>8
<1> QED
  BY <1>9 DEF behind, S

-----------------------------------------------------------------------------
(***************************************************************************)
(* Among keeps the elements of S in their order.                           *)
(***************************************************************************)
AmongStep(f, seq, S, i) ==
  IF i = 0 THEN <<>> ELSE IF seq[i] \in S THEN Append(f[i - 1], seq[i]) ELSE f[i - 1]

(* t is the part of s before place i that Among has kept. *)
Kept(t, s, S, i) ==
  /\ t \in Seq(Vars)
  /\ ToSet(t) = {s[j] : j \in 1..i} \cap S
  /\ \E at \in [1..Len(t) -> 1..i] :
       /\ \A k \in 1..Len(t) : t[k] = s[at[k]]
       /\ \A k, l \in 1..Len(t) : k < l => at[k] < at[l]

LEMMA KeptNone ==
  ASSUME NEW s \in Seq(Vars), NEW S
  PROVE  Kept(<<>>, s, S, 0)
<1>1. <<>> \in Seq(Vars) /\ Len(<<>>) = 0 /\ ToSet(<<>>) = {}
  BY DEF ToSet
<1>2. {s[j] : j \in 1..0} = {}
  OBVIOUS
<1> DEFINE at == [k \in 1..0 |-> 1]
<1>3. at \in [1..0 -> 1..0] /\ 1..0 = {}
  OBVIOUS
<1> HIDE DEF at
<1> QED
  BY <1>1, <1>2, <1>3 DEF Kept

LEMMA KeptOneMore ==
  ASSUME NEW s \in Seq(Vars), NEW S, NEW i \in 1..Len(s), NEW t, Kept(t, s, S, i - 1)
  PROVE  Kept(IF s[i] \in S THEN Append(t, s[i]) ELSE t, s, S, i)
<1>1. /\ t \in Seq(Vars)
      /\ ToSet(t) = {s[j] : j \in 1..(i - 1)} \cap S
  BY DEF Kept
<1>2. PICK at \in [1..Len(t) -> 1..(i - 1)] :
             /\ \A k \in 1..Len(t) : t[k] = s[at[k]]
             /\ \A k, l \in 1..Len(t) : k < l => at[k] < at[l]
  BY DEF Kept
<1>3. /\ Len(s) \in Nat /\ Len(t) \in Nat /\ s[i] \in Vars
      /\ DOMAIN t = 1..Len(t)
  BY <1>1, SeqFacts
<1>4. i \in Int /\ 1..(i - 1) \subseteq 1..i /\ i \in 1..i
  BY <1>3
<1>5. {s[j] : j \in 1..i} = {s[j] : j \in 1..(i - 1)} \cup {s[i]}
  <2>1. \A j \in 1..i : j \in 1..(i - 1) \/ j = i
    BY <1>3
  <2> QED
    BY <1>4, <2>1
<1>6. CASE s[i] \notin S
  <2>1. ToSet(t) = {s[j] : j \in 1..i} \cap S
    BY <1>1, <1>5, <1>6
  <2>2. at \in [1..Len(t) -> 1..i]
    BY <1>4
  <2> QED
    BY <1>1, <1>2, <1>6, <2>1, <2>2 DEF Kept
<1>7. CASE s[i] \in S
  <2> DEFINE u == Append(t, s[i])
             to == [k \in 1..(Len(t) + 1) |-> IF k = Len(t) + 1 THEN i ELSE at[k]]
  <2>1. /\ u \in Seq(Vars) /\ Len(u) = Len(t) + 1
        /\ \A k \in 1..Len(t) : u[k] = t[k]
        /\ u[Len(t) + 1] = s[i]
    BY <1>1, <1>3, AppendProperties
  <2>2. ToSet(u) = ToSet(t) \cup {s[i]}
    <3>1. DOMAIN u = 1..(Len(t) + 1)
      BY <1>3, <2>1
    <3>2. \A k \in 1..(Len(t) + 1) : k \in 1..Len(t) \/ k = Len(t) + 1
      BY <1>3
    <3>3. \A k \in 1..Len(t) : k \in 1..(Len(t) + 1)
      BY <1>3
    <3>4. Len(t) + 1 \in 1..(Len(t) + 1)
      BY <1>3
    <3> HIDE DEF u
    <3> QED
      BY <1>3, <2>1, <3>1, <3>2, <3>3, <3>4 DEF ToSet
  <2>3. ToSet(u) = {s[j] : j \in 1..i} \cap S
    BY <1>1, <1>5, <1>7, <2>2
  <2>4. \A k \in 1..(Len(t) + 1) : k # Len(t) + 1 => k \in 1..Len(t) /\ at[k] \in 1..(i - 1)
    BY <1>3
  <2>5. to \in [1..(Len(t) + 1) -> 1..i]
    BY <1>4, <2>4
  <2>6. \A k \in 1..(Len(t) + 1) : u[k] = s[to[k]]
    <3> HIDE DEF u
    <3> QED
      BY <1>2, <2>1, <2>4
  <2>7. \A k, l \in 1..(Len(t) + 1) : k < l => to[k] < to[l]
    <3> SUFFICES ASSUME NEW k \in 1..(Len(t) + 1), NEW l \in 1..(Len(t) + 1), k < l
                 PROVE  to[k] < to[l]
      OBVIOUS
    <3>1. k # Len(t) + 1 /\ k \in 1..Len(t) /\ to[k] = at[k] /\ at[k] \in 1..(i - 1)
      BY <1>3, <2>4
    <3>2. CASE l = Len(t) + 1
      BY <1>3, <3>1, <3>2
    <3>3. CASE l # Len(t) + 1
      BY <1>2, <2>4, <3>1, <3>3
    <3> QED
      BY <3>2, <3>3
  <2> HIDE DEF u, to
  <2>8. Kept(u, s, S, i)
    BY <2>1, <2>3, <2>5, <2>6, <2>7 DEF Kept
  <2> QED
    BY <1>7, <2>8 DEF u
<1> QED
  BY <1>6, <1>7

LEMMA AmongKeeps ==
  ASSUME NEW s \in Seq(Vars), NEW S
  PROVE  Kept(Among(s, S), s, S, Len(s))
<1> DEFINE N == Len(s)
           T == Seq(Vars)
           Step == [i \in 1..N |-> [u \in T |-> IF s[i] \in S THEN Append(u, s[i]) ELSE u]]
           equation(f) == f = [i \in 0..N |-> AmongStep(f, s, S, i)]
<1>1. N \in Nat /\ \A i \in 1..N : s[i] \in Vars
  BY SeqFacts
<1>2. AddBack!Iterates(T, N, <<>>, Step)
  <2>1. \A i \in 1..N, u \in T : Append(u, s[i]) \in T
    BY <1>1, AppendProperties
  <2>2. Step \in [1..N -> [T -> T]]
    BY <2>1
  <2>3. <<>> \in T
    OBVIOUS
  <2> HIDE DEF Step, T, N
  <2> QED
    BY <1>1, <2>2, <2>3 DEF AddBack!Iterates
<1>3. PICK f \in [0..N -> T] : f = [i \in 0..N |-> AddBack!IterateStep(Step, f, i, <<>>)]
  <2> HIDE DEF Step, T, N
  <2> QED
    BY <1>2, AddBackCounting, AddBack!Iteration
<1>4. \A i \in 0..N : AddBack!IterateStep(Step, f, i, <<>>) = AmongStep(f, s, S, i)
  <2> SUFFICES ASSUME NEW i \in 0..N, i # 0
               PROVE  Step[i][f[i - 1]] = AmongStep(f, s, S, i)
    BY DEF AddBack!IterateStep, AmongStep
  <2>1. i \in 1..N /\ i - 1 \in 0..N
    BY <1>1
  <2>2. f[i - 1] \in T
    BY <1>3, <2>1
  <2> QED
    BY <2>1, <2>2 DEF AmongStep
<1>5. equation(f)
  <2> HIDE DEF Step
  <2> QED
    BY <1>3, <1>4
<1> DEFINE g == CHOOSE h : equation(h)
<1>6. equation(g)
  <2> HIDE DEF equation
  <2> QED
    BY <1>5
<1>7. Among(s, S) = g[N]
  BY DEF Among, AmongStep
<1> HIDE DEF g
<1> DEFINE P == {i \in Nat : i <= N => Kept(g[i], s, S, i)}
<1>8. \A i \in 0..N : g[i] = AmongStep(g, s, S, i)
  BY <1>6
<1>9. 0 \in P
  <2>1. 0 \in 0..N
    BY <1>1
  <2>2. g[0] = <<>>
    BY <1>8, <2>1 DEF AmongStep
  <2> QED
    BY <2>2, KeptNone
<1>10. ASSUME NEW i \in Nat, i \in P
       PROVE  i + 1 \in P
  <2> SUFFICES ASSUME i + 1 <= N
               PROVE  Kept(g[i + 1], s, S, i + 1)
    OBVIOUS
  <2>1. i + 1 \in 0..N /\ i + 1 \in 1..Len(s) /\ i + 1 # 0 /\ (i + 1) - 1 = i
    BY <1>1
  <2>2. g[i + 1] = IF s[i + 1] \in S THEN Append(g[i], s[i + 1]) ELSE g[i]
    BY <1>8, <2>1 DEF AmongStep
  <2>3. Kept(g[i], s, S, (i + 1) - 1)
    BY <1>1, <1>10, <2>1
  <2> HIDE DEF N, P
  <2>4. Kept(IF s[i + 1] \in S THEN Append(g[i], s[i + 1]) ELSE g[i], s, S, i + 1)
    BY <2>1, <2>3, KeptOneMore
  <2> QED
    BY <2>2, <2>4
<1>11. N \in P
  <2> HIDE DEF P
  <2>1. Nat \subseteq P
    BY <1>9, <1>10, AddBackCounting, AddBack!SetInduction
  <2> QED
    BY <1>1, <2>1
<1> QED
  BY <1>1, <1>7, <1>11

LEMMA AmongFacts ==
  ASSUME NEW s \in Seq(Vars), NEW S
  PROVE  LET t == Among(s, S)
         IN  /\ t \in Seq(Vars)
             /\ ToSet(t) = ToSet(s) \cap S
             /\ IsInjective(s) => IsInjective(t)
             /\ \A k, l \in 1..Len(t) : k < l =>
                  \E i, j \in 1..Len(s) : i < j /\ t[k] = s[i] /\ t[l] = s[j]
<1> DEFINE t == Among(s, S)
<1>1. Kept(t, s, S, Len(s))
  BY AmongKeeps
<1> HIDE DEF t
<1>2. t \in Seq(Vars) /\ ToSet(t) = {s[j] : j \in 1..Len(s)} \cap S
  BY <1>1 DEF Kept
<1>3. PICK at \in [1..Len(t) -> 1..Len(s)] :
             /\ \A k \in 1..Len(t) : t[k] = s[at[k]]
             /\ \A k, l \in 1..Len(t) : k < l => at[k] < at[l]
  BY <1>1 DEF Kept
<1>4. Len(s) \in Nat /\ Len(t) \in Nat /\ DOMAIN s = 1..Len(s) /\ DOMAIN t = 1..Len(t)
  BY <1>2, SeqFacts
<1>5. ToSet(t) = ToSet(s) \cap S
  BY <1>2, <1>4 DEF ToSet
<1>6. ASSUME IsInjective(s)
      PROVE  IsInjective(t)
  <2> SUFFICES ASSUME NEW k \in 1..Len(t), NEW l \in 1..Len(t), t[k] = t[l], k # l
               PROVE  FALSE
    BY <1>4 DEF IsInjective
  <2>1. s[at[k]] = s[at[l]] /\ at[k] \in 1..Len(s) /\ at[l] \in 1..Len(s)
    BY <1>3
  <2>2. at[k] = at[l]
    BY <1>4, <1>6, <2>1 DEF IsInjective
  <2>3. k < l \/ l < k
    BY <1>4
  <2>4. at[k] < at[l] \/ at[l] < at[k]
    BY <1>3, <2>3
  <2> QED
    BY <1>4, <2>1, <2>2, <2>4
<1>7. ASSUME NEW k \in 1..Len(t), NEW l \in 1..Len(t), k < l
      PROVE  \E i, j \in 1..Len(s) : i < j /\ t[k] = s[i] /\ t[l] = s[j]
  <2>1. /\ at[k] \in 1..Len(s) /\ at[l] \in 1..Len(s) /\ at[k] < at[l]
        /\ t[k] = s[at[k]] /\ t[l] = s[at[l]]
    BY <1>3, <1>7
  <2> QED
    BY <2>1
<1> QED
  BY <1>2, <1>5, <1>6, <1>7 DEF t

-----------------------------------------------------------------------------
(***************************************************************************)
(* The walk of last_enqueued_unassigned_variable: it stops at the first    *)
(* variable that is not assigned, if there is one before where it starts.  *)
(***************************************************************************)
WalkStep(f, q, assigned, v) == IF v \notin assigned THEN v ELSE f[PrevOf(q, v)]

(* v is where the walk from place i stops. *)
StopsAt(v, s, assigned, i) ==
  \E j \in 1..i : /\ v = s[j]
                  /\ s[j] \notin assigned
                  /\ \A k \in 1..i : j < k => s[k] \in assigned

LEMMA LastUnassigned ==
  ASSUME NEW q \in Queues, NEW s, Linked(q, s), NEW assigned \in SUBSET Vars,
         NEW i \in 1..Len(s), q.search.idx = s[i],
         \E j \in 1..i : s[j] \notin assigned
  PROVE  StopsAt(LastEnqueuedUnassigned(q, assigned), s, assigned, i)
<1> DEFINE N == Len(s)
           M == N + 1
           Step == [f \in [Elements -> Elements] |->
                      [v \in Elements |-> WalkStep(f, q, assigned, v)]]
           rank == [v \in Elements |-> IF v \in ToSet(s) THEN Index(s, v)
                                       ELSE IF v = DISCONNECT THEN 0 ELSE 1]
           equation(f) == f = [v \in Elements |-> WalkStep(f, q, assigned, v)]
<1>0. s \in Seq(Vars) /\ IsInjective(s)
  BY DEF Linked
<1>1. /\ N \in Nat
      /\ \A j \in 1..N : s[j] \in Vars /\ s[j] \in ToSet(s)
      /\ \A v \in ToSet(s) : v \in Vars
      /\ \A j, k \in 1..N : s[j] = s[k] => j = k
  BY <1>0, SeqFacts
<1>2. \A v \in ToSet(s) : Index(s, v) \in 1..N /\ s[Index(s, v)] = v
  BY <1>0, IndexOf
<1>3. /\ DISCONNECT \notin Vars /\ Elements = Vars \cup {DISCONNECT}
      /\ \A v \in Vars : PrevOf(q, v) \in Elements
  BY QueueVarsAssumption, QueueType DEF Elements
<1>4. rank \in [Elements -> 0..M]
  BY <1>1, <1>2
<1>5. ASSUME NEW v \in Vars
      PROVE  rank[PrevOf(q, v)] < rank[v]
  <2>1. v \in Elements /\ v # DISCONNECT
    BY <1>3
  <2>2. CASE v \notin ToSet(s)
    <3>1. PrevOf(q, v) = DISCONNECT
      BY <2>2 DEF Linked
    <3> QED
      BY <1>1, <1>3, <2>1, <2>2, <3>1
  <2>3. CASE v \in ToSet(s)
    <3> DEFINE j == Index(s, v)
    <3>1. j \in 1..N /\ s[j] = v
      BY <1>2, <2>3
    <3>2. rank[v] = j
      BY <2>1, <2>3
    <3> HIDE DEF j
    <3>3. PrevOf(q, v) = At(s, j - 1)
      BY <3>1 DEF Linked
    <3>4. CASE j = 1
      <4>1. PrevOf(q, v) = DISCONNECT
        BY <1>1, <3>3, <3>4 DEF At
      <4> QED
        BY <1>1, <1>3, <3>1, <3>2, <4>1
    <3>5. CASE j # 1
      <4>1. j - 1 \in 1..N /\ PrevOf(q, v) = s[j - 1]
        BY <1>1, <3>1, <3>3, <3>5 DEF At
      <4>2. Index(s, s[j - 1]) = j - 1
        BY <1>1, <1>2, <4>1
      <4>3. rank[s[j - 1]] = j - 1
        BY <1>1, <1>3, <4>1, <4>2
      <4> QED
        BY <1>1, <3>1, <3>2, <4>1, <4>3
    <3> QED
      BY <3>4, <3>5
  <2> QED
    BY <2>2, <2>3
<1> HIDE DEF rank
<1>6. ASSUME NEW f \in [Elements -> Elements], NEW v \in Elements
      PROVE  WalkStep(f, q, assigned, v) \in Elements
  <2>1. CASE v \notin assigned
    BY <2>1 DEF WalkStep
  <2>2. CASE v \in assigned
    <3>1. PrevOf(q, v) \in Elements
      BY <1>3, <2>2
    <3> QED
      BY <2>2, <3>1 DEF WalkStep
  <2> QED
    BY <2>1, <2>2
<1>7. ASSUME NEW f \in [Elements -> Elements], NEW g \in [Elements -> Elements],
             NEW v \in Elements, \A w \in Elements : rank[w] < rank[v] => f[w] = g[w]
      PROVE  WalkStep(f, q, assigned, v) = WalkStep(g, q, assigned, v)
  <2>1. CASE v \notin assigned
    BY <2>1 DEF WalkStep
  <2>2. CASE v \in assigned
    <3>1. PrevOf(q, v) \in Elements
      BY <1>3, <2>2
    <3>2. f[PrevOf(q, v)] = g[PrevOf(q, v)]
      BY <1>5, <1>7, <2>2, <3>1
    <3> QED
      BY <2>2, <3>2 DEF WalkStep
  <2> QED
    BY <2>1, <2>2
<1>8. AddBack!Recursive(Elements, Elements, M, rank, Step)
  <2>1. Elements # {}
    BY <1>3
  <2>2. Step \in [[Elements -> Elements] -> [Elements -> Elements]]
    BY <1>6
  <2>3. \A f, g \in [Elements -> Elements], v \in Elements :
          (\A w \in Elements : rank[w] < rank[v] => f[w] = g[w]) => Step[f][v] = Step[g][v]
    BY <1>7
  <2>4. M \in Nat
    BY <1>1
  <2> HIDE DEF Step, M
  <2> QED
    BY <1>4, <2>1, <2>2, <2>3, <2>4 DEF AddBack!Recursive
<1>9. PICK f \in [Elements -> Elements] : f = Step[f]
  <2> HIDE DEF Step, M
  <2> QED
    BY <1>8, AddBackCounting, AddBack!RankRecursion
<1>10. equation(f)
  BY <1>9
<1> DEFINE g == CHOOSE h : equation(h)
<1>11. equation(g)
  <2> HIDE DEF equation
  <2> QED
    BY <1>10
<1>12. LastEnqueuedUnassigned(q, assigned) = g[q.search.idx]
  BY DEF LastEnqueuedUnassigned, WalkStep, Elements, PrevOf
<1> HIDE DEF g
<1> DEFINE P == {n \in Nat : n \in 1..N /\ (\E j \in 1..n : s[j] \notin assigned)
                             => StopsAt(g[s[n]], s, assigned, n)}
<1>13. \A v \in Elements : g[v] = WalkStep(g, q, assigned, v)
  BY <1>11
<1>14. 0 \in P
  OBVIOUS
<1>15. ASSUME NEW n \in Nat, n \in P
       PROVE  n + 1 \in P
  <2> SUFFICES ASSUME n + 1 \in 1..N, \E j \in 1..(n + 1) : s[j] \notin assigned
               PROVE  StopsAt(g[s[n + 1]], s, assigned, n + 1)
    OBVIOUS
  <2>1. s[n + 1] \in Vars /\ s[n + 1] \in Elements
    BY <1>1, <1>3
  <2>2. CASE s[n + 1] \notin assigned
    <3>1. g[s[n + 1]] = s[n + 1]
      BY <1>13, <2>1, <2>2 DEF WalkStep
    <3>2. n + 1 \in 1..(n + 1) /\ \A k \in 1..(n + 1) : ~(n + 1 < k)
      OBVIOUS
    <3> QED
      BY <2>2, <3>1, <3>2 DEF StopsAt
  <2>3. CASE s[n + 1] \in assigned
    <3>1. PICK j \in 1..(n + 1) : s[j] \notin assigned
      OBVIOUS
    <3>2. j \in 1..n /\ n \in 1..N
      BY <1>1, <2>3, <3>1
    <3>3. StopsAt(g[s[n]], s, assigned, n)
      BY <1>15, <3>1, <3>2
    <3>4. PrevOf(q, s[n + 1]) = s[n]
      <4>1. PrevOf(q, s[n + 1]) = At(s, (n + 1) - 1)
        BY DEF Linked
      <4> QED
        BY <3>2, <4>1 DEF At
    <3>5. g[s[n + 1]] = g[s[n]]
      BY <1>13, <2>1, <2>3, <3>4 DEF WalkStep
    <3>6. PICK m \in 1..n : /\ g[s[n]] = s[m]
                            /\ s[m] \notin assigned
                            /\ \A k \in 1..n : m < k => s[k] \in assigned
      BY <3>3 DEF StopsAt
    <3>7. m \in 1..(n + 1) /\ \A k \in 1..(n + 1) : m < k => s[k] \in assigned
      <4>1. \A k \in 1..(n + 1) : k \in 1..n \/ k = n + 1
        OBVIOUS
      <4> QED
        BY <2>3, <3>6, <4>1
    <3> QED
      BY <3>5, <3>6, <3>7 DEF StopsAt
  <2> QED
    BY <2>2, <2>3
<1>16. i \in P
  <2> HIDE DEF P
  <2>1. Nat \subseteq P
    BY <1>14, <1>15, AddBackCounting, AddBack!SetInduction
  <2> QED
    BY <1>1, <2>1
<1> QED
  BY <1>12, <1>16

(***************************************************************************)
(* In stamps: if nothing unassigned is stamped later than the cached       *)
(* position, then the walk from there finds the last unassigned variable.  *)
(***************************************************************************)
LEMMA LastUnassignedStamped ==
  ASSUME NEW q \in Queues, NEW s, Linked(q, s), Increasing(q, s),
         NEW assigned \in SUBSET Vars,
         q.search.idx \in ToSet(s),
         \A u \in ToSet(s) \ assigned : StampOf(q, u) <= StampOf(q, q.search.idx),
         ToSet(s) \ assigned # {}
  PROVE  LET v == LastEnqueuedUnassigned(q, assigned)
         IN  /\ v \in ToSet(s) \ assigned
             /\ \A u \in ToSet(s) \ assigned : StampOf(q, u) <= StampOf(q, v)
<1> DEFINE v == LastEnqueuedUnassigned(q, assigned)
           i == Index(s, q.search.idx)
<1>0. s \in Seq(Vars) /\ IsInjective(s)
  BY DEF Linked
<1>1. /\ Len(s) \in Nat
      /\ \A j \in 1..Len(s) : s[j] \in Vars /\ s[j] \in ToSet(s)
      /\ \A u \in ToSet(s) : u \in Vars /\ \E j \in 1..Len(s) : s[j] = u
  BY <1>0, SeqFacts
<1>2. i \in 1..Len(s) /\ s[i] = q.search.idx
  BY <1>0, IndexOf
<1> HIDE DEF i
<1>3. ASSUME NEW u \in ToSet(s) \ assigned
      PROVE  \E j \in 1..i : s[j] = u
  <2>1. PICK j \in 1..Len(s) : s[j] = u
    BY <1>1
  <2>2. StampOf(q, s[j]) <= StampOf(q, s[i])
    BY <1>2, <2>1
  <2>3. ~ (i < j)
    <3> SUFFICES ASSUME i < j
                 PROVE  FALSE
      OBVIOUS
    <3>1. StampOf(q, s[i]) < StampOf(q, s[j])
      BY <1>2 DEF Increasing
    <3>2. StampOf(q, s[i]) \in Nat /\ StampOf(q, s[j]) \in Nat
      BY <1>1, <1>2, StampType
    <3> QED
      BY <2>2, <3>1, <3>2
  <2>4. j \in 1..i
    BY <1>1, <1>2, <2>3
  <2> QED
    BY <2>1, <2>4
<1>4. \E j \in 1..i : s[j] \notin assigned
  BY <1>3
<1>5. StopsAt(v, s, assigned, i)
  BY <1>2, <1>4, LastUnassigned
<1> HIDE DEF v
<1>6. PICK j \in 1..i : /\ v = s[j]
                        /\ s[j] \notin assigned
                        /\ \A k \in 1..i : j < k => s[k] \in assigned
  BY <1>5 DEF StopsAt
<1>7. j \in 1..Len(s) /\ \A k \in 1..i : k \in 1..Len(s)
  BY <1>1, <1>2
<1>8. v \in ToSet(s) \ assigned
  BY <1>1, <1>6, <1>7
<1>9. ASSUME NEW u \in ToSet(s) \ assigned
      PROVE  StampOf(q, u) <= StampOf(q, v)
  <2>1. PICK k \in 1..i : s[k] = u
    BY <1>3
  <2>2. ~ (j < k)
    BY <1>6, <2>1
  <2>3. StampOf(q, u) \in Nat /\ StampOf(q, v) \in Nat
    BY <1>1, <1>8, StampType
  <2>4. CASE k < j
    <3>1. StampOf(q, s[k]) < StampOf(q, s[j])
      BY <1>7, <2>4 DEF Increasing
    <3> QED
      BY <1>6, <2>1, <2>3, <3>1
  <2>5. CASE k = j
    BY <1>6, <2>1, <2>3, <2>5
  <2> QED
    BY <1>2, <1>7, <2>2, <2>4, <2>5
<1> QED
  BY <1>8, <1>9 DEF v

(***************************************************************************)
(* The neighbours in the list are the neighbours by stamps.                *)
(***************************************************************************)
LEMMA NextNeighbour ==
  ASSUME NEW q \in Queues, NEW s, Linked(q, s), Increasing(q, s), NEW v \in ToSet(s)
  PROVE  LET next == NextOf(q, v)
         IN  /\ next = DISCONNECT =>
                  \A u \in ToSet(s) : StampOf(q, u) <= StampOf(q, v)
             /\ next # DISCONNECT =>
                  /\ next \in ToSet(s)
                  /\ StampOf(q, v) < StampOf(q, next)
                  /\ \A u \in ToSet(s) : StampOf(q, v) < StampOf(q, u) =>
                                           StampOf(q, next) <= StampOf(q, u)
<1> DEFINE i == Index(s, v)
           next == NextOf(q, v)
<1>0. s \in Seq(Vars) /\ IsInjective(s)
  BY DEF Linked
<1>1. /\ Len(s) \in Nat
      /\ \A j \in 1..Len(s) : s[j] \in Vars /\ s[j] \in ToSet(s)
      /\ \A u \in ToSet(s) : u \in Vars /\ \E j \in 1..Len(s) : s[j] = u
  BY <1>0, SeqFacts
<1>2. i \in 1..Len(s) /\ s[i] = v
  BY <1>0, IndexOf
<1> HIDE DEF i
<1>3. next = At(s, i + 1)
  BY <1>2 DEF Linked
<1>4. \A j \in 1..Len(s) : StampOf(q, s[j]) \in Nat
  BY <1>1, StampType
<1>5. \A j, k \in 1..Len(s) : j < k => StampOf(q, s[j]) < StampOf(q, s[k])
  BY DEF Increasing
<1> HIDE DEF next
<1>6. CASE i = Len(s)
  <2>1. next = DISCONNECT
    BY <1>1, <1>3, <1>6 DEF At
  <2>2. \A j \in 1..Len(s) : j < i \/ j = i
    BY <1>1, <1>6
  <2>3. \A j \in 1..Len(s) : StampOf(q, s[j]) <= StampOf(q, s[i])
    BY <1>2, <1>4, <1>5, <2>2
  <2> QED
    BY <1>1, <1>2, <2>1, <2>3 DEF next
<1>7. CASE i # Len(s)
  <2>1. i + 1 \in 1..Len(s) /\ next = s[i + 1]
    BY <1>1, <1>2, <1>3, <1>7 DEF At
  <2>2. next # DISCONNECT /\ next \in ToSet(s)
    BY <1>1, <2>1, QueueVarsAssumption
  <2>3. StampOf(q, s[i]) < StampOf(q, s[i + 1])
    BY <1>2, <1>5, <2>1
  <2>4. ASSUME NEW j \in 1..Len(s), StampOf(q, s[i]) < StampOf(q, s[j])
        PROVE  StampOf(q, s[i + 1]) <= StampOf(q, s[j])
    <3>1. ~ (j < i) /\ j # i
      BY <1>2, <1>4, <1>5, <2>4
    <3>2. i + 1 < j \/ j = i + 1
      BY <1>2, <3>1
    <3> QED
      BY <1>4, <1>5, <2>1, <3>2
  <2> QED
    BY <1>1, <1>2, <2>1, <2>2, <2>3, <2>4 DEF next
<1> QED
  BY <1>6, <1>7

LEMMA PrevNeighbour ==
  ASSUME NEW q \in Queues, NEW s, Linked(q, s), Increasing(q, s), NEW v \in ToSet(s)
  PROVE  LET prev == PrevOf(q, v)
         IN  /\ prev = DISCONNECT =>
                  \A u \in ToSet(s) : StampOf(q, v) <= StampOf(q, u)
             /\ prev # DISCONNECT =>
                  /\ prev \in ToSet(s)
                  /\ StampOf(q, prev) < StampOf(q, v)
                  /\ \A u \in ToSet(s) : StampOf(q, u) < StampOf(q, v) =>
                                           StampOf(q, u) <= StampOf(q, prev)
<1> DEFINE i == Index(s, v)
           prev == PrevOf(q, v)
<1>0. s \in Seq(Vars) /\ IsInjective(s)
  BY DEF Linked
<1>1. /\ Len(s) \in Nat
      /\ \A j \in 1..Len(s) : s[j] \in Vars /\ s[j] \in ToSet(s)
      /\ \A u \in ToSet(s) : u \in Vars /\ \E j \in 1..Len(s) : s[j] = u
  BY <1>0, SeqFacts
<1>2. i \in 1..Len(s) /\ s[i] = v
  BY <1>0, IndexOf
<1> HIDE DEF i
<1>3. prev = At(s, i - 1)
  BY <1>2 DEF Linked
<1>4. \A j \in 1..Len(s) : StampOf(q, s[j]) \in Nat
  BY <1>1, StampType
<1>5. \A j, k \in 1..Len(s) : j < k => StampOf(q, s[j]) < StampOf(q, s[k])
  BY DEF Increasing
<1> HIDE DEF prev
<1>6. CASE i = 1
  <2>1. prev = DISCONNECT
    BY <1>1, <1>3, <1>6 DEF At
  <2>2. \A j \in 1..Len(s) : i < j \/ j = i
    BY <1>1, <1>6
  <2>3. \A j \in 1..Len(s) : StampOf(q, s[i]) <= StampOf(q, s[j])
    BY <1>2, <1>4, <1>5, <2>2
  <2> QED
    BY <1>1, <1>2, <2>1, <2>3 DEF prev
<1>7. CASE i # 1
  <2>1. i - 1 \in 1..Len(s) /\ prev = s[i - 1]
    BY <1>1, <1>2, <1>3, <1>7 DEF At
  <2>2. prev # DISCONNECT /\ prev \in ToSet(s)
    BY <1>1, <2>1, QueueVarsAssumption
  <2>3. StampOf(q, s[i - 1]) < StampOf(q, s[i])
    BY <1>2, <1>5, <2>1
  <2>4. ASSUME NEW j \in 1..Len(s), StampOf(q, s[j]) < StampOf(q, s[i])
        PROVE  StampOf(q, s[j]) <= StampOf(q, s[i - 1])
    <3>1. ~ (i < j) /\ j # i
      BY <1>2, <1>4, <1>5, <2>4
    <3>2. j < i - 1 \/ j = i - 1
      BY <1>2, <3>1
    <3> QED
      BY <1>4, <1>5, <2>1, <3>2
  <2> QED
    BY <1>1, <1>2, <2>1, <2>2, <2>3, <2>4 DEF prev
<1> QED
  BY <1>6, <1>7

-----------------------------------------------------------------------------
(***************************************************************************)
(* A queue is the set of its elements and their stamps: the links lead     *)
(* through exactly the elements of S, in the order of the stamps.          *)
(***************************************************************************)
Ordered(q, S) ==
  /\ q \in Queues
  /\ \E s : Linked(q, s) /\ Increasing(q, s) /\ ToSet(s) = S

LEMMA OrderedType ==
  ASSUME NEW q, NEW S, Ordered(q, S)
  PROVE  q \in Queues /\ S \in SUBSET Vars
<1>1. PICK s : Linked(q, s) /\ Increasing(q, s) /\ ToSet(s) = S
  BY DEF Ordered
<1>2. s \in Seq(Vars)
  BY <1>1 DEF Linked
<1> QED
  BY <1>1, <1>2, SeqFacts DEF Ordered

(* The order of the list is the order of the stamps. *)
LEMMA OrderedSequence ==
  ASSUME NEW q, NEW S, Ordered(q, S)
  PROVE  /\ Linked(q, Order(q))
         /\ Increasing(q, Order(q))
         /\ ToSet(Order(q)) = S
<1>1. PICK s : Linked(q, s) /\ Increasing(q, s) /\ ToSet(s) = S
  BY DEF Ordered
<1>2. Order(q) = s
  BY <1>1, OrderOf DEF Ordered
<1> QED
  BY <1>1, <1>2

(* Stamps are bounded and differ. *)
LEMMA OrderedStamps ==
  ASSUME NEW q, NEW S, Ordered(q, S)
  PROVE  /\ \A u \in S : StampOf(q, u) \in Nat /\ StampOf(q, u) <= q.stamp
         /\ \A u, v \in S : StampOf(q, u) = StampOf(q, v) => u = v
<1>1. PICK s : Linked(q, s) /\ Increasing(q, s) /\ ToSet(s) = S
  BY DEF Ordered
<1>2. q \in Queues /\ s \in Seq(Vars)
  BY <1>1 DEF Ordered, Linked
<1>3. /\ Len(s) \in Nat
      /\ \A j \in 1..Len(s) : s[j] \in Vars
      /\ \A u \in S : u \in Vars /\ \E j \in 1..Len(s) : s[j] = u
  BY <1>1, <1>2, SeqFacts
<1>4. \A u \in S : StampOf(q, u) \in Nat /\ StampOf(q, u) <= q.stamp
  BY <1>1, <1>2, <1>3, StampType DEF Increasing
<1>5. ASSUME NEW u \in S, NEW v \in S, StampOf(q, u) = StampOf(q, v)
      PROVE  u = v
  <2>1. PICK i \in 1..Len(s) : s[i] = u
    BY <1>3
  <2>2. PICK j \in 1..Len(s) : s[j] = v
    BY <1>3
  <2>3. /\ i < j => StampOf(q, s[i]) < StampOf(q, s[j])
        /\ j < i => StampOf(q, s[j]) < StampOf(q, s[i])
    BY <1>1 DEF Increasing
  <2>4. StampOf(q, u) \in Nat
    BY <1>4
  <2>5. i = j
    BY <1>3, <1>5, <2>1, <2>2, <2>3, <2>4
  <2> QED
    BY <2>1, <2>2, <2>5
<1> QED
  BY <1>4, <1>5

(* The last element has the last stamp; there is one unless S is empty. *)
LEMMA OrderedEnds ==
  ASSUME NEW q, NEW S, Ordered(q, S)
  PROVE  /\ S = {} => q.first = DISCONNECT /\ q.last = DISCONNECT
         /\ S # {} => /\ q.first # DISCONNECT
                      /\ q.last \in S
                      /\ \A u \in S : StampOf(q, u) <= StampOf(q, q.last)
<1>1. PICK s : Linked(q, s) /\ Increasing(q, s) /\ ToSet(s) = S
  BY DEF Ordered
<1>2. q \in Queues /\ s \in Seq(Vars)
  BY <1>1 DEF Ordered, Linked
<1>3. /\ Len(s) \in Nat
      /\ \A j \in 1..Len(s) : s[j] \in Vars /\ s[j] \in S
      /\ \A u \in S : u \in Vars /\ \E j \in 1..Len(s) : s[j] = u
  BY <1>1, <1>2, SeqFacts
<1>4. q.first = At(s, 1) /\ q.last = At(s, Len(s))
  BY <1>1 DEF Linked
<1>5. CASE Len(s) = 0
  <2>1. S = {}
    BY <1>3, <1>5
  <2> QED
    BY <1>4, <1>5, <2>1 DEF At
<1>6. CASE Len(s) # 0
  <2>1. 1 \in 1..Len(s) /\ Len(s) \in 1..Len(s)
    BY <1>3, <1>6
  <2>2. q.first = s[1] /\ q.last = s[Len(s)]
    BY <1>4, <2>1 DEF At
  <2>3. S # {} /\ q.first # DISCONNECT /\ q.last \in S
    BY <1>3, <2>1, <2>2, QueueVarsAssumption
  <2>4. \A j \in 1..Len(s) : j < Len(s) => StampOf(q, s[j]) < StampOf(q, s[Len(s)])
    BY <1>1, <2>1 DEF Increasing
  <2>5. \A j \in 1..Len(s) : StampOf(q, s[j]) \in Nat /\ (j < Len(s) \/ j = Len(s))
    BY <1>2, <1>3, StampType
  <2>6. \A j \in 1..Len(s) : StampOf(q, s[j]) <= StampOf(q, s[Len(s)])
    BY <2>1, <2>4, <2>5
  <2> QED
    BY <1>3, <2>2, <2>3, <2>6
<1> QED
  BY <1>5, <1>6

(* The cached position is no part of that. *)
LEMMA OrderedSearch ==
  ASSUME NEW q, NEW S, Ordered(q, S), NEW v \in Vars
  PROVE  LET r == UpdateQueue(q, v)
         IN  /\ Ordered(r, S)
             /\ r.links = q.links /\ r.stamp = q.stamp
             /\ r.first = q.first /\ r.last = q.last
             /\ r.search = [idx |-> v, stamp |-> StampOf(q, v)]
<1> DEFINE r == UpdateQueue(q, v)
<1>1. PICK s : Linked(q, s) /\ Increasing(q, s) /\ ToSet(s) = S
  BY DEF Ordered
<1>2. q \in Queues
  BY DEF Ordered
<1>3. /\ r \in Queues
      /\ r.search = [idx |-> v, stamp |-> StampOf(q, v)]
      /\ r.first = q.first /\ r.last = q.last /\ r.stamp = q.stamp
      /\ r.links = q.links
  BY <1>2, WithSearch
<1> HIDE DEF r
<1>4. /\ \A u \in Vars : PrevOf(r, u) = PrevOf(q, u) /\ NextOf(r, u) = NextOf(q, u)
      /\ \A u : StampOf(r, u) = StampOf(q, u)
  BY <1>3 DEF PrevOf, NextOf, StampOf
<1>5. Linked(r, s)
  BY <1>1, <1>3, <1>4, SameLinks
<1>6. Increasing(r, s)
  BY <1>1, <1>3, <1>4 DEF Increasing
<1>7. Ordered(r, S)
  BY <1>1, <1>3, <1>5, <1>6 DEF Ordered
<1> QED
  BY <1>3, <1>7 DEF r

(***************************************************************************)
(* kissat_dequeue_links.                                                   *)
(***************************************************************************)
LEMMA OrderedDequeue ==
  ASSUME NEW q, NEW S, Ordered(q, S), NEW idx \in S
  PROVE  LET r == DequeueLinks(q, idx)
         IN  Ordered(r, S \ {idx}) /\ SameStamps(q, r)
<1> DEFINE r == DequeueLinks(q, idx)
<1>1. PICK s : Linked(q, s) /\ Increasing(q, s) /\ ToSet(s) = S
  BY DEF Ordered
<1>2. q \in Queues /\ s \in Seq(Vars) /\ IsInjective(s)
  BY <1>1 DEF Ordered, Linked
<1> DEFINE k == Index(s, idx)
           t == WithoutAt(s, k)
<1>3. k \in 1..Len(s)
  BY <1>1, <1>2, IndexOf
<1>4. r \in Queues /\ SameStamps(q, r) /\ Linked(r, t) /\ ToSet(t) = S \ {idx}
  BY <1>1, <1>2, DequeuedFrom
<1> HIDE DEF r, k
<1>5. /\ Len(t) = Len(s) - 1
      /\ \A i \in 1..Len(t) : t[i] = IF i < k THEN s[i] ELSE s[i + 1]
  BY <1>2, <1>3, WithoutFacts
<1> HIDE DEF t
<1>6. Len(s) \in Nat /\ \A i \in 1..Len(s) : s[i] \in Vars
  BY <1>2, SeqFacts
<1>7. \A i \in 1..Len(s) : StampOf(r, s[i]) = StampOf(q, s[i])
  BY <1>4, <1>6 DEF SameStamps
<1> DEFINE at == [i \in 1..Len(t) |-> IF i < k THEN i ELSE i + 1]
<1>8. \A i \in 1..Len(t) : at[i] \in 1..Len(s) /\ t[i] = s[at[i]]
  BY <1>3, <1>5, <1>6
<1>9. \A i, j \in 1..Len(t) : i < j => at[i] < at[j]
  BY <1>3, <1>5, <1>6
<1>10. Increasing(r, t)
  <2> HIDE DEF at
  <2>1. \A i, j \in 1..Len(t) : i < j => StampOf(r, t[i]) < StampOf(r, t[j])
    BY <1>1, <1>7, <1>8, <1>9 DEF Increasing
  <2>2. \A i \in 1..Len(t) : StampOf(r, t[i]) <= r.stamp
    BY <1>1, <1>4, <1>7, <1>8 DEF Increasing, SameStamps
  <2> QED
    BY <2>1, <2>2 DEF Increasing
<1> QED
  BY <1>4, <1>10 DEF Ordered, r

(* The place of v in the order of the stamps of S. *)
RankIn(q, S, v) == Cardinality({u \in S : StampOf(q, u) <= StampOf(q, v)})

LEMMA RankIndex ==
  ASSUME NEW q \in Queues, NEW s, Linked(q, s), Increasing(q, s), NEW v \in ToSet(s)
  PROVE  RankIn(q, ToSet(s), v) = Index(s, v)
<1> DEFINE i == Index(s, v)
<1>1. s \in Seq(Vars) /\ IsInjective(s)
  BY DEF Linked
<1>2. i \in 1..Len(s) /\ s[i] = v
  BY <1>1, IndexOf
<1> HIDE DEF i
<1>3. Cardinality({u \in ToSet(s) : StampOf(q, u) <= StampOf(q, s[i])}) = i
  BY <1>1, <1>2, RankOf
<1> QED
  BY <1>2, <1>3 DEF RankIn, i

(***************************************************************************)
(* kissat_enqueue_links.                                                   *)
(***************************************************************************)
LEMMA OrderedEnqueue ==
  ASSUME NEW q, NEW S, Ordered(q, S), NEW idx \in Vars, idx \notin S
  PROVE  LET r    == EnqueueLinks(q, idx)
             full == q.stamp = MaxStamp
         IN  /\ Ordered(r, S \cup {idx})
             /\ r.stamp = IF full THEN Cardinality(S) + 1 ELSE q.stamp + 1
             /\ StampOf(r, idx) = r.stamp
             /\ \A v \in Vars \ {idx} :
                  StampOf(r, v) = IF full /\ v \in S THEN RankIn(q, S, v)
                                  ELSE StampOf(q, v)
             /\ r.search = IF full /\ q.search.idx # DISCONNECT
                           THEN [idx   |-> q.search.idx,
                                 stamp |-> StampOf(r, q.search.idx)]
                           ELSE q.search
<1> DEFINE r    == EnqueueLinks(q, idx)
           full == q.stamp = MaxStamp
<1>1. PICK s : Linked(q, s) /\ Increasing(q, s) /\ ToSet(s) = S
  BY DEF Ordered
<1>2. q \in Queues /\ s \in Seq(Vars) /\ IsInjective(s)
  BY <1>1 DEF Ordered, Linked
<1> DEFINE t == Append(s, idx)
<1>3. /\ r \in Queues
      /\ Linked(r, t)
      /\ Increasing(r, t)
      /\ r.stamp = IF full THEN Len(s) + 1 ELSE q.stamp + 1
      /\ StampOf(r, idx) = r.stamp
      /\ \A v \in Vars \ {idx} :
           StampOf(r, v) = IF full /\ v \in ToSet(s) THEN Index(s, v)
                           ELSE StampOf(q, v)
      /\ r.search = IF full /\ q.search.idx # DISCONNECT
                    THEN [idx   |-> q.search.idx,
                          stamp |-> StampOf(r, q.search.idx)]
                    ELSE q.search
  BY <1>1, <1>2, EnqueuedLinks
<1> HIDE DEF r
<1>4. ToSet(t) = S \cup {idx}
  BY <1>1, <1>2, AppendFacts
<1> HIDE DEF t
<1>5. Ordered(r, S \cup {idx})
  BY <1>3, <1>4 DEF Ordered
<1>6. Len(s) = Cardinality(S)
  BY <1>1, <1>2, LengthBound
<1>7. \A v \in S : RankIn(q, S, v) = Index(s, v)
  BY <1>1, <1>2, RankIndex
<1> QED
  BY <1>1, <1>3, <1>5, <1>6, <1>7 DEF r

(***************************************************************************)
(* kissat_reassign_queue_stamps.                                           *)
(***************************************************************************)
LEMMA OrderedRestamp ==
  ASSUME NEW q, NEW S, Ordered(q, S)
  PROVE  LET r == ReassignStamps(q)
         IN  /\ Ordered(r, S)
             /\ r.first = q.first /\ r.last = q.last
             /\ r.stamp = Cardinality(S)
             /\ \A v \in S : StampOf(r, v) = RankIn(q, S, v)
             /\ \A v \in Vars \ S : StampOf(r, v) = StampOf(q, v)
             /\ r.search = IF q.search.idx = DISCONNECT THEN q.search
                           ELSE [idx   |-> q.search.idx,
                                 stamp |-> StampOf(r, q.search.idx)]
<1> DEFINE r == ReassignStamps(q)
<1>1. PICK s : Linked(q, s) /\ Increasing(q, s) /\ ToSet(s) = S
  BY DEF Ordered
<1>2. q \in Queues /\ s \in Seq(Vars) /\ IsInjective(s)
  BY <1>1 DEF Ordered, Linked
<1>3. /\ r \in Queues
      /\ Linked(r, s)
      /\ r.first = q.first /\ r.last = q.last
      /\ r.stamp = Len(s)
      /\ \A i \in 1..Len(s) : StampOf(r, s[i]) = i
      /\ \A v \in Vars \ ToSet(s) : StampOf(r, v) = StampOf(q, v)
      /\ r.search = IF q.search.idx = DISCONNECT THEN q.search
                    ELSE [idx   |-> q.search.idx,
                          stamp |-> StampOf(r, q.search.idx)]
  BY <1>1, <1>2, StampsReassigned
<1> HIDE DEF r
<1>4. Len(s) \in Nat /\ Len(s) = Cardinality(S)
  BY <1>1, <1>2, LengthBound, SeqFacts
<1>5. Increasing(r, s)
  BY <1>3, <1>4 DEF Increasing
<1>6. \A v \in S : RankIn(q, S, v) = Index(s, v)
  BY <1>1, <1>2, RankIndex
<1>7. \A v \in S : Index(s, v) \in 1..Len(s) /\ s[Index(s, v)] = v
  BY <1>1, <1>2, IndexOf
<1>8. \A v \in S : StampOf(r, v) = RankIn(q, S, v)
  BY <1>3, <1>6, <1>7
<1> QED
  BY <1>1, <1>3, <1>4, <1>5, <1>8 DEF Ordered, r

-----------------------------------------------------------------------------
(***************************************************************************)
(* add_unassigned_variable_back_to_queue, for all a backtrack unassigns:   *)
(* the cached position moves to the last of those stamped later than it.   *)
(***************************************************************************)
(* The queue after adding back the variables of S. *)
AddedBack(q, p, S) ==
  \/ p = q /\ \A u \in S : StampOf(q, u) <= q.search.stamp
  \/ \E v \in S : /\ p = UpdateQueue(q, v)
                  /\ StampOf(q, v) > q.search.stamp
                  /\ \A u \in S : StampOf(q, u) <= StampOf(q, v)

LEMMA AddedBackOne ==
  ASSUME NEW q \in Queues, NEW S \in SUBSET Vars, NEW p, AddedBack(q, p, S),
         NEW v \in Vars
  PROVE  AddedBack(q, AddBackToQueue(p, v), S \cup {v})
<1>1. /\ q.search.stamp \in Nat
      /\ \A u \in Vars : StampOf(q, u) \in Nat
  <2>1. q.search.stamp \in 0..MaxStamp
    BY QueueType
  <2>2. \A u \in Vars : StampOf(q, u) \in Nat
    BY StampType
  <2> QED
    BY <2>1, <2>2
<1>2. CASE p = q /\ \A u \in S : StampOf(q, u) <= q.search.stamp
  <2>1. CASE StampOf(q, v) > q.search.stamp
    <3>1. AddBackToQueue(p, v) = UpdateQueue(q, v)
      BY <1>2, <2>1 DEF AddBackToQueue, StampOf
    <3>2. \A u \in S \cup {v} : StampOf(q, u) <= StampOf(q, v)
      BY <1>1, <1>2, <2>1
    <3> QED
      BY <2>1, <3>1, <3>2 DEF AddedBack
  <2>2. CASE ~ (StampOf(q, v) > q.search.stamp)
    <3>1. AddBackToQueue(p, v) = q
      BY <1>2, <2>2 DEF AddBackToQueue, StampOf
    <3>2. \A u \in S \cup {v} : StampOf(q, u) <= q.search.stamp
      BY <1>1, <1>2, <2>2
    <3> QED
      BY <3>1, <3>2 DEF AddedBack
  <2> QED
    BY <2>1, <2>2
<1>3. ASSUME NEW w \in S, p = UpdateQueue(q, w), StampOf(q, w) > q.search.stamp,
             \A u \in S : StampOf(q, u) <= StampOf(q, w)
      PROVE  AddedBack(q, AddBackToQueue(p, v), S \cup {v})
  <2>1. /\ p.search = [idx |-> w, stamp |-> StampOf(q, w)]
        /\ p.links = q.links
    BY <1>3, WithSearch
  <2>2. p.search.stamp = StampOf(q, w) /\ StampOf(p, v) = StampOf(q, v)
    BY <2>1 DEF StampOf
  <2>3. CASE StampOf(q, v) > StampOf(q, w)
    <3>1. AddBackToQueue(p, v) = UpdateQueue(p, v)
      BY <2>2, <2>3 DEF AddBackToQueue, StampOf
    <3>2. UpdateQueue(p, v) = UpdateQueue(q, v)
      BY <1>3 DEF UpdateQueue, Queues
    <3>3. \A u \in S \cup {v} : StampOf(q, u) <= StampOf(q, v)
      BY <1>1, <1>3, <2>3
    <3>4. StampOf(q, v) > q.search.stamp
      BY <1>1, <1>3, <2>3
    <3> QED
      BY <3>1, <3>2, <3>3, <3>4 DEF AddedBack
  <2>4. CASE ~ (StampOf(q, v) > StampOf(q, w))
    <3>1. AddBackToQueue(p, v) = p
      BY <2>2, <2>4 DEF AddBackToQueue, StampOf
    <3>2. \A u \in S \cup {v} : StampOf(q, u) <= StampOf(q, w)
      BY <1>1, <1>3, <2>4
    <3> QED
      BY <1>3, <3>1, <3>2 DEF AddedBack
  <2> QED
    BY <2>3, <2>4
<1> QED
  BY <1>2, <1>3 DEF AddedBack

(* The elements of s before place i, in steps of one. *)
LEMMA FirstsFacts ==
  ASSUME NEW s \in Seq(Vars), NEW i \in 1..Len(s)
  PROVE  /\ {s[j] : j \in 1..i} = {s[j] : j \in 1..(i - 1)} \cup {s[i]}
         /\ {s[j] : j \in 1..(i - 1)} \in SUBSET Vars
         /\ s[i] \in Vars
         /\ IsInjective(s) => s[i] \notin {s[j] : j \in 1..(i - 1)}
<1>1. /\ Len(s) \in Nat /\ \A j \in 1..Len(s) : s[j] \in Vars
      /\ IsInjective(s) => \A j, k \in 1..Len(s) : s[j] = s[k] => j = k
  BY SeqFacts
<1>2. \A j \in 1..i : j \in 1..(i - 1) \/ j = i
  BY <1>1
<1>3. i \in 1..i /\ \A j \in 1..(i - 1) : j \in 1..i /\ j \in 1..Len(s) /\ j # i
  BY <1>1
<1> QED
  BY <1>1, <1>2, <1>3

LEMMA AllAddedBack ==
  ASSUME NEW q \in Queues, NEW seq \in Seq(Vars)
  PROVE  AddedBack(q, FoldLeft(AddBackToQueue, q, seq), ToSet(seq))
<1> DEFINE N == Len(seq)
           Firsts(i) == {seq[j] : j \in 1..i}
           Inv == [i \in 0..N |-> {p \in Queues : AddedBack(q, p, Firsts(i))}]
<1>1. N \in Nat /\ DOMAIN seq = 1..N /\ \A i \in 1..N : seq[i] \in Vars
  BY SeqFacts
<1>2. q \in Inv[0]
  <2>1. Firsts(0) = {} /\ 0 \in 0..N
    BY <1>1
  <2>2. AddedBack(q, q, {})
    BY DEF AddedBack
  <2> HIDE DEF Firsts
  <2> QED
    BY <2>1, <2>2
<1>3. ASSUME NEW i \in 1..N, NEW p, p \in Inv[i - 1]
      PROVE  AddBackToQueue(p, seq[i]) \in Inv[i]
  <2>1. i - 1 \in 0..N /\ i \in 0..N
    BY <1>1
  <2>2. p \in Queues /\ AddedBack(q, p, Firsts(i - 1))
    BY <1>3, <2>1
  <2>3. /\ Firsts(i) = Firsts(i - 1) \cup {seq[i]}
        /\ Firsts(i - 1) \in SUBSET Vars
        /\ seq[i] \in Vars
    BY FirstsFacts
  <2> HIDE DEF Firsts, N
  <2>4. AddedBack(q, AddBackToQueue(p, seq[i]), Firsts(i - 1) \cup {seq[i]})
    BY <2>2, <2>3, AddedBackOne
  <2>5. AddBackToQueue(p, seq[i]) \in Queues
    BY <2>2, <2>3, WithSearch DEF AddBackToQueue
  <2> QED
    BY <2>1, <2>3, <2>4, <2>5
<1>4. AddBack!KeepsLeft(Inv, q, seq)
  <2> HIDE DEF Inv
  <2> QED
    BY <1>2, <1>3 DEF AddBack!KeepsLeft
<1>5. AddBack!FoldedLeft(q, seq) \in Inv[N]
  <2> HIDE DEF Inv
  <2> QED
    BY <1>4, AddBackCounting, AddBack!FoldLeftInduction
<1>6. AddBack!FoldedLeft(q, seq) = FoldLeft(AddBackToQueue, q, seq)
  BY DEF AddBack!FoldedLeft, FoldLeft, MapThenFoldSet,
         AddBack!MapThenFoldSet, Max, AddBack!Largest
<1>7. ToSet(seq) = Firsts(N)
  BY <1>1 DEF ToSet
<1>8. N \in 0..N
  BY <1>1
<1> HIDE DEF Firsts, N
<1> QED
  BY <1>5, <1>6, <1>7, <1>8

-----------------------------------------------------------------------------
(***************************************************************************)
(* adjust_scores_and_phases_of_fresh_variables: all fresh variables leave  *)
(* the queue ...                                                           *)
(***************************************************************************)
DequeueAll == INSTANCE RecursionTheorems WITH Op <- DequeueLinks

LEMMA DequeueAllCounting == DequeueAll!NatInduction
BY Counting DEF DequeueAll!NatInduction

LEMMA SameStampsTransitive ==
  ASSUME NEW p, NEW q, NEW r, SameStamps(p, q), SameStamps(q, r)
  PROVE  SameStamps(p, r)
BY DEF SameStamps

LEMMA AllDequeued ==
  ASSUME NEW q, NEW S, Ordered(q, S),
         NEW seq \in Seq(Vars), IsInjective(seq), ToSet(seq) \subseteq S
  PROVE  LET r == FoldLeft(DequeueLinks, q, seq)
         IN  Ordered(r, S \ ToSet(seq)) /\ SameStamps(q, r)
<1> DEFINE N == Len(seq)
           Firsts(i) == {seq[j] : j \in 1..i}
           Inv == [i \in 0..N |-> {p \in Queues : /\ Ordered(p, S \ Firsts(i))
                                                  /\ SameStamps(q, p)}]
<1>1. N \in Nat /\ DOMAIN seq = 1..N /\ \A i \in 1..N : seq[i] \in ToSet(seq)
  BY SeqFacts
<1>2. q \in Inv[0]
  <2>1. Firsts(0) = {} /\ 0 \in 0..N
    BY <1>1
  <2>2. S \ {} = S /\ q \in Queues /\ SameStamps(q, q)
    BY DEF Ordered, SameStamps
  <2> HIDE DEF Firsts
  <2> QED
    BY <2>1, <2>2
<1>3. ASSUME NEW i \in 1..N, NEW p, p \in Inv[i - 1]
      PROVE  DequeueLinks(p, seq[i]) \in Inv[i]
  <2>1. i - 1 \in 0..N /\ i \in 0..N
    BY <1>1
  <2>2. Ordered(p, S \ Firsts(i - 1)) /\ SameStamps(q, p)
    BY <1>3, <2>1
  <2>3. /\ Firsts(i) = Firsts(i - 1) \cup {seq[i]}
        /\ seq[i] \notin Firsts(i - 1)
    BY FirstsFacts
  <2>4. seq[i] \in S
    BY <1>1
  <2> HIDE DEF Firsts, N
  <2> DEFINE R == S \ Firsts(i - 1)
             v == seq[i]
             r == DequeueLinks(p, v)
  <2>5. v \in R
    BY <2>3, <2>4
  <2>6. R \ {v} = S \ Firsts(i)
    BY <2>3
  <2>7. Ordered(p, R)
    BY <2>2
  <2> HIDE DEF R, v
  <2>8. Ordered(r, R \ {v}) /\ SameStamps(p, r)
    BY ONLY <2>5, <2>7, OrderedDequeue
  <2>9. SameStamps(q, r)
    BY <2>2, <2>8, SameStampsTransitive
  <2>10. r \in Queues /\ Ordered(r, S \ Firsts(i))
    BY <2>6, <2>8 DEF Ordered
  <2> QED
    BY <2>1, <2>9, <2>10 DEF v
<1>4. DequeueAll!KeepsLeft(Inv, q, seq)
  <2> HIDE DEF Inv
  <2> QED
    BY <1>2, <1>3 DEF DequeueAll!KeepsLeft
<1>5. DequeueAll!FoldedLeft(q, seq) \in Inv[N]
  <2> HIDE DEF Inv
  <2> QED
    BY <1>4, DequeueAllCounting, DequeueAll!FoldLeftInduction
<1>6. DequeueAll!FoldedLeft(q, seq) = FoldLeft(DequeueLinks, q, seq)
  BY DEF DequeueAll!FoldedLeft, FoldLeft, MapThenFoldSet,
         DequeueAll!MapThenFoldSet, Max, DequeueAll!Largest
<1>7. ToSet(seq) = Firsts(N)
  BY <1>1 DEF ToSet
<1>8. N \in 0..N
  BY <1>1
<1> HIDE DEF Firsts, N
<1> QED
  BY <1>5, <1>6, <1>7, <1>8

(***************************************************************************)
(* ... and go before everything else, the last one first.                  *)
(***************************************************************************)
PutAllFirst == INSTANCE RecursionTheorems WITH Op <- PutFirst

LEMMA PutAllFirstCounting == PutAllFirst!NatInduction
BY Counting DEF PutAllFirst!NatInduction

(* w is t with the first i elements of seq in front, in the reverse order. *)
InFront(w, seq, i, t) ==
  /\ Len(w) = i + Len(t)
  /\ \A j \in 1..i : w[j] = seq[i + 1 - j]
  /\ \A j \in 1..Len(t) : w[i + j] = t[j]
  /\ ToSet(w) = ToSet(t) \cup {seq[j] : j \in 1..i}

LEMMA OneMoreInFront ==
  ASSUME NEW t \in Seq(Vars), NEW seq \in Seq(Vars), NEW i \in 1..Len(seq),
         NEW w \in Seq(Vars), IsInjective(w), InFront(w, seq, i - 1, t),
         seq[i] \notin ToSet(w)
  PROVE  InFront(<<seq[i]>> \o w, seq, i, t)
<1> DEFINE v == seq[i]
           x == <<v>> \o w
<1>1. /\ Len(t) \in Nat /\ Len(w) \in Nat /\ Len(seq) \in Nat /\ v \in Vars
  BY SeqFacts
<1>2. /\ Len(w) = (i - 1) + Len(t)
      /\ \A j \in 1..(i - 1) : w[j] = seq[(i - 1) + 1 - j]
      /\ \A j \in 1..Len(t) : w[(i - 1) + j] = t[j]
      /\ ToSet(w) = ToSet(t) \cup {seq[j] : j \in 1..(i - 1)}
  BY DEF InFront
<1>3. {seq[j] : j \in 1..i} = {seq[j] : j \in 1..(i - 1)} \cup {v}
  BY FirstsFacts
<1> HIDE DEF v
<1>4. v \notin ToSet(w)
  BY DEF v
<1>5. /\ Len(x) = Len(w) + 1
      /\ ToSet(x) = ToSet(w) \cup {v}
      /\ x[1] = v
      /\ \A j \in 1..Len(w) : x[j + 1] = w[j]
  BY ONLY <1>1, <1>4, w \in Seq(Vars), IsInjective(w), PrependFacts
<1> HIDE DEF x
<1>6. Len(x) = i + Len(t)
  BY <1>1, <1>2, <1>5
<1>7. ASSUME NEW j \in 1..i
      PROVE  x[j] = seq[i + 1 - j]
  <2>1. CASE j = 1
    BY <1>1, <1>5, <2>1 DEF v
  <2>2. CASE j # 1
    <3>1. j - 1 \in 1..(i - 1) /\ j - 1 \in 1..Len(w) /\ (j - 1) + 1 = j
      BY <1>1, <1>2, <2>2
    <3>2. x[j] = w[j - 1]
      BY <1>5, <3>1
    <3>3. (i - 1) + 1 - (j - 1) = i + 1 - j
      BY <1>1
    <3> QED
      BY <1>2, <3>1, <3>2, <3>3
  <2> QED
    BY <2>1, <2>2
<1>8. ASSUME NEW j \in 1..Len(t)
      PROVE  x[i + j] = t[j]
  <2>1. (i - 1) + j \in 1..Len(w) /\ (i - 1) + j + 1 = i + j
    BY <1>1, <1>2
  <2>2. x[i + j] = w[(i - 1) + j]
    BY <1>5, <2>1
  <2> QED
    BY <1>2, <2>2
<1>9. ToSet(x) = ToSet(t) \cup {seq[j] : j \in 1..i}
  BY <1>2, <1>3, <1>5
<1> QED
  BY <1>6, <1>7, <1>8, <1>9 DEF InFront, x, v

LEMMA AllPutFirst ==
  ASSUME NEW q \in Queues, NEW t, Linked(q, t),
         NEW seq \in Seq(Vars), IsInjective(seq), ToSet(seq) \cap ToSet(t) = {}
  PROVE  LET r == FoldLeft(PutFirst, q, seq)
         IN  /\ r \in Queues
             /\ SameStamps(q, r)
             /\ \E w : Linked(r, w) /\ InFront(w, seq, Len(seq), t)
<1> DEFINE N == Len(seq)
           Inv == [i \in 0..N |->
                     {p \in Queues : /\ SameStamps(q, p)
                                     /\ \E w : Linked(p, w) /\ InFront(w, seq, i, t)}]
<1>0. t \in Seq(Vars)
  BY DEF Linked
<1>1. /\ N \in Nat /\ DOMAIN seq = 1..N
      /\ \A i \in 1..N : seq[i] \in ToSet(seq) /\ seq[i] \in Vars
      /\ Len(t) \in Nat
  BY <1>0, SeqFacts
<1>2. q \in Inv[0]
  <2>1. InFront(t, seq, 0, t)
    <3>1. \A j \in 1..Len(t) : 0 + j = j
      OBVIOUS
    <3>2. {seq[j] : j \in 1..0} = {}
      OBVIOUS
    <3> QED
      BY <1>1, <3>1, <3>2 DEF InFront
  <2>2. SameStamps(q, q) /\ 0 \in 0..N
    BY <1>1 DEF SameStamps
  <2> QED
    BY <2>1, <2>2
<1>3. ASSUME NEW i \in 1..N, NEW p, p \in Inv[i - 1]
      PROVE  PutFirst(p, seq[i]) \in Inv[i]
  <2>1. i - 1 \in 0..N /\ i \in 0..N
    BY <1>1
  <2>2. p \in Queues /\ SameStamps(q, p)
    BY <1>3, <2>1
  <2>3. PICK w : Linked(p, w) /\ InFront(w, seq, i - 1, t)
    BY <1>3, <2>1
  <2>4. w \in Seq(Vars) /\ IsInjective(w) /\ ToSet(w) = ToSet(t) \cup {seq[j] : j \in 1..(i - 1)}
    BY <2>3 DEF Linked, InFront
  <2> DEFINE v == seq[i]
             r == PutFirst(p, v)
             x == <<v>> \o w
  <2>5. v \in Vars /\ v \notin ToSet(w)
    <3>1. v \notin {seq[j] : j \in 1..(i - 1)}
      BY FirstsFacts
    <3>2. v \in Vars /\ v \notin ToSet(t)
      BY <1>1
    <3> QED
      BY <2>4, <3>1, <3>2
  <2>6. InFront(x, seq, i, t)
    BY <1>0, <2>3, <2>4, <2>5, OneMoreInFront
  <2> HIDE DEF v, N, Inv
  <2>7. r \in Queues /\ SameStamps(p, r) /\ Linked(r, x)
    BY ONLY <2>2, <2>3, <2>5, LinkedFirst
  <2>8. SameStamps(q, r)
    BY <2>2, <2>7, SameStampsTransitive
  <2> HIDE DEF x, r
  <2>9. \E y : Linked(r, y) /\ InFront(y, seq, i, t)
    BY <2>6, <2>7
  <2> QED
    BY <2>1, <2>7, <2>8, <2>9 DEF Inv, v, r
<1>4. PutAllFirst!KeepsLeft(Inv, q, seq)
  <2> HIDE DEF Inv
  <2> QED
    BY <1>2, <1>3 DEF PutAllFirst!KeepsLeft
<1>5. PutAllFirst!FoldedLeft(q, seq) \in Inv[N]
  <2> HIDE DEF Inv
  <2> QED
    BY <1>4, PutAllFirstCounting, PutAllFirst!FoldLeftInduction
<1>6. PutAllFirst!FoldedLeft(q, seq) = FoldLeft(PutFirst, q, seq)
  BY DEF PutAllFirst!FoldedLeft, FoldLeft, MapThenFoldSet,
         PutAllFirst!MapThenFoldSet, Max, PutAllFirst!Largest
<1>7. N \in 0..N
  BY <1>1
<1> QED
  BY <1>5, <1>6, <1>7

RankFromLastIn(q, S, v) == Cardinality({u \in S : StampOf(q, u) >= StampOf(q, v)})

(* What Among keeps of the order of the queue increases as well. *)
LEMMA IncreasingAmong ==
  ASSUME NEW q \in Queues, NEW s \in Seq(Vars), Increasing(q, s), NEW F
  PROVE  Increasing(q, Among(s, F))
<1> DEFINE t == Among(s, F)
<1>1. /\ t \in Seq(Vars)
      /\ ToSet(t) = ToSet(s) \cap F
      /\ \A k, l \in 1..Len(t) : k < l =>
           \E i, j \in 1..Len(s) : i < j /\ t[k] = s[i] /\ t[l] = s[j]
  BY AmongFacts
<1> HIDE DEF t
<1>2. \A k, l \in 1..Len(t) : k < l => StampOf(q, t[k]) < StampOf(q, t[l])
  <2> SUFFICES ASSUME NEW k \in 1..Len(t), NEW l \in 1..Len(t), k < l
               PROVE  StampOf(q, t[k]) < StampOf(q, t[l])
    OBVIOUS
  <2>1. PICK i, j \in 1..Len(s) : i < j /\ t[k] = s[i] /\ t[l] = s[j]
    BY <1>1
  <2>2. StampOf(q, s[i]) < StampOf(q, s[j])
    BY <2>1 DEF Increasing
  <2> QED
    BY <2>1, <2>2
<1>3. \A k \in 1..Len(t) : StampOf(q, t[k]) <= q.stamp
  <2> SUFFICES ASSUME NEW k \in 1..Len(t)
               PROVE  StampOf(q, t[k]) <= q.stamp
    OBVIOUS
  <2>1. t[k] \in ToSet(t)
    BY <1>1, SeqFacts
  <2>2. t[k] \in ToSet(s)
    BY <1>1, <2>1
  <2>3. PICK i \in 1..Len(s) : s[i] = t[k]
    BY <2>2, SeqFacts
  <2> QED
    BY <2>3 DEF Increasing
<1> QED
  BY <1>2, <1>3 DEF Increasing, t

LEMMA OrderedUnbump ==
  ASSUME NEW q, NEW S, Ordered(q, S), S # {}, NEW F \in SUBSET S
  PROVE  LET r == UnbumpFresh(q, Among(Order(q), F))
         IN  /\ Ordered(r, S)
             /\ r.stamp = Cardinality(S)
             /\ \A v \in F : StampOf(r, v) = RankFromLastIn(q, F, v)
             /\ \A v \in S \ F : StampOf(r, v) = Cardinality(F) + RankIn(q, S \ F, v)
             /\ \A v \in Vars \ S : StampOf(r, v) = StampOf(q, v)
             /\ \E u \in S : /\ StampOf(r, u) = r.stamp
                             /\ r.search = [idx |-> u, stamp |-> StampOf(r, u)]
<1> DEFINE s     == Order(q)
           fresh == Among(s, F)
           n     == Len(fresh)
           d     == FoldLeft(DequeueLinks, q, fresh)
           p     == FoldLeft(PutFirst, d, fresh)
           r0    == ReassignStamps(p)
           r     == UpdateQueue(r0, r0.last)
<1>1. q \in Queues /\ Linked(q, s) /\ Increasing(q, s) /\ ToSet(s) = S
  BY OrderedSequence DEF Ordered
<1> HIDE DEF s
<1>2. s \in Seq(Vars) /\ IsInjective(s) /\ S \cap F = F /\ S \in SUBSET Vars
  BY <1>1, OrderedType DEF Linked
<1>3. fresh \in Seq(Vars) /\ IsInjective(fresh) /\ ToSet(fresh) = F
  BY <1>1, <1>2, AmongFacts
<1>4. Increasing(q, fresh)
  BY <1>1, <1>2, IncreasingAmong
<1> HIDE DEF fresh
<1>5. Ordered(d, S \ F) /\ SameStamps(q, d)
  BY <1>3, AllDequeued
<1> HIDE DEF d
<1>6. PICK t : Linked(d, t) /\ Increasing(d, t) /\ ToSet(t) = S \ F
  BY <1>5 DEF Ordered
<1>7. d \in Queues /\ t \in Seq(Vars) /\ IsInjective(t)
  BY <1>5, <1>6 DEF Ordered, Linked
<1>8. p \in Queues /\ SameStamps(d, p) /\ \E w : Linked(p, w) /\ InFront(w, fresh, n, t)
  <2>1. ToSet(fresh) \cap ToSet(t) = {}
    BY <1>3, <1>6
  <2> QED
    BY <1>3, <1>6, <1>7, <2>1, AllPutFirst
<1> HIDE DEF p
<1>9. PICK w : Linked(p, w) /\ InFront(w, fresh, n, t)
  BY <1>8
<1>10. w \in Seq(Vars) /\ IsInjective(w)
  BY <1>9 DEF Linked
<1>11. /\ Len(w) = n + Len(t)
       /\ \A j \in 1..n : w[j] = fresh[n + 1 - j]
       /\ \A j \in 1..Len(t) : w[n + j] = t[j]
       /\ ToSet(w) = ToSet(t) \cup {fresh[j] : j \in 1..n}
  BY <1>9 DEF InFront
<1>12. /\ n \in Nat /\ Len(t) \in Nat /\ Len(w) \in Nat
       /\ DOMAIN fresh = 1..n
  BY <1>3, <1>7, <1>10, SeqFacts
<1>13. ToSet(w) = S
  <2>1. {fresh[j] : j \in 1..n} = F
    BY <1>3, <1>12 DEF ToSet
  <2> QED
    BY <1>6, <1>11, <2>1
<1>14. /\ r0 \in Queues
       /\ Linked(r0, w)
       /\ r0.last = p.last
       /\ r0.stamp = Len(w)
       /\ \A i \in 1..Len(w) : StampOf(r0, w[i]) = i
       /\ \A v \in Vars \ S : StampOf(r0, v) = StampOf(p, v)
  BY <1>8, <1>9, <1>13, StampsReassigned
<1> HIDE DEF r0
<1>15. Increasing(r0, w)
  BY <1>12, <1>14 DEF Increasing
<1>16. Ordered(r0, S)
  BY <1>13, <1>14, <1>15 DEF Ordered
<1>17. r0.last \in S /\ r0.last \in Vars
  BY <1>2, <1>16, OrderedEnds
<1>18. /\ Ordered(r, S)
       /\ r.links = r0.links /\ r.stamp = r0.stamp
       /\ r.search = [idx |-> r0.last, stamp |-> StampOf(r0, r0.last)]
  BY <1>16, <1>17, OrderedSearch
<1> HIDE DEF r
<1>19. \A v : StampOf(r, v) = StampOf(r0, v)
  BY <1>18 DEF StampOf
<1>20. Len(w) = Cardinality(S) /\ n = Cardinality(F)
  BY <1>3, <1>10, <1>13, LengthBound
<1>21. ASSUME NEW v \in F
       PROVE  StampOf(r0, v) = RankFromLastIn(q, F, v)
  <2>1. PICK j \in 1..n : fresh[j] = v
    BY <1>3, <1>12, SeqFacts
  <2>2. n + 1 - j \in 1..n /\ n + 1 - j \in 1..Len(w) /\ n + 1 - (n + 1 - j) = j
    BY <1>11, <1>12
  <2>3. w[n + 1 - j] = v
    BY <1>11, <2>1, <2>2
  <2>4. StampOf(r0, v) = n + 1 - j
    BY <1>14, <2>2, <2>3
  <2>5. Cardinality({u \in ToSet(fresh) : StampOf(q, u) >= StampOf(q, fresh[j])}) = n + 1 - j
    BY <1>1, <1>3, <1>4, RankFromLastOf
  <2> QED
    BY <1>3, <2>1, <2>4, <2>5 DEF RankFromLastIn
<1>22. ASSUME NEW v \in S \ F
       PROVE  StampOf(r0, v) = Cardinality(F) + RankIn(q, S \ F, v)
  <2>1. PICK j \in 1..Len(t) : t[j] = v
    BY <1>6, <1>7, SeqFacts
  <2>2. n + j \in 1..Len(w)
    BY <1>11, <1>12
  <2>3. StampOf(r0, v) = n + j
    BY <1>11, <1>14, <2>1, <2>2
  <2>4. Cardinality({u \in ToSet(t) : StampOf(d, u) <= StampOf(d, t[j])}) = j
    BY <1>6, <1>7, RankOf
  <2>5. \A u \in S : StampOf(d, u) = StampOf(q, u)
    BY <1>2, <1>5 DEF SameStamps
  <2>6. {u \in ToSet(t) : StampOf(d, u) <= StampOf(d, t[j])}
          = {u \in S \ F : StampOf(q, u) <= StampOf(q, v)}
    BY <1>6, <2>1, <2>5
  <2> QED
    BY <1>20, <2>3, <2>4, <2>6 DEF RankIn
<1>23. \A v \in Vars \ S : StampOf(r0, v) = StampOf(q, v)
  BY <1>5, <1>8, <1>14 DEF SameStamps
<1>24. StampOf(r0, r0.last) = r0.stamp
  <2>1. r0.last = At(w, Len(w))
    BY <1>14 DEF Linked
  <2>2. Len(w) \in 1..Len(w)
    <3>1. r0.last # DISCONNECT
      BY <1>17, QueueVarsAssumption
    <3> QED
      BY <1>12, <2>1, <3>1 DEF At
  <2> QED
    BY <1>14, <2>1, <2>2 DEF At
<1>25. r = UnbumpFresh(q, Among(Order(q), F))
  BY DEF r, r0, p, d, fresh, s, UnbumpFresh
<1> QED
  BY <1>14, <1>17, <1>18, <1>19, <1>20, <1>21, <1>22, <1>23, <1>24, <1>25

-----------------------------------------------------------------------------
(* What pushing one variable after another back keeps. *)
PushBackAll == INSTANCE RecursionTheorems WITH Op <- PushBack

LEMMA PushBackAllCounting == PushBackAll!NatInduction
BY Counting DEF PushBackAll!NatInduction

-----------------------------------------------------------------------------
(***************************************************************************)
(* What the actions do to the heap.                                        *)
(***************************************************************************)
(* Backtracking puts everything unassigned back. *)
LEMMA AllPushedBack ==
  ASSUME NEW h \in Heaps(Vars), NEW seq \in Seq(Vars)
  PROVE  LET g == FoldLeft(PushBack, h, seq)
         IN  /\ g \in Heaps(Vars)
             /\ g.score = h.score
             /\ ToSet(g.stack) = ToSet(h.stack) \cup ToSet(seq)
<1> DEFINE N == Len(seq)
           Firsts(i) == {seq[j] : j \in 1..i}
           Inv == [i \in 0..N |-> {g \in Heaps(Vars) :
                     /\ g.score = h.score
                     /\ ToSet(g.stack) = ToSet(h.stack) \cup Firsts(i)}]
<1>1. N \in Nat /\ DOMAIN seq = 1..N /\ \A i \in 1..N : seq[i] \in Vars
  BY SeqFacts
<1>2. h \in Inv[0]
  <2>1. Firsts(0) = {} /\ 0 \in 0..N
    BY <1>1
  <2> HIDE DEF Firsts
  <2> QED
    BY <2>1
<1>3. ASSUME NEW i \in 1..N, NEW g, g \in Inv[i - 1]
      PROVE  PushBack(g, seq[i]) \in Inv[i]
  <2> DEFINE v == seq[i]
             r == PushBack(g, v)
  <2>1. i - 1 \in 0..N /\ i \in 0..N
    BY <1>1
  <2>2. /\ g \in Heaps(Vars)
        /\ g.score = h.score
        /\ ToSet(g.stack) = ToSet(h.stack) \cup Firsts(i - 1)
    BY <1>3, <2>1
  <2>3. Firsts(i) = Firsts(i - 1) \cup {v} /\ v \in Vars
    BY FirstsFacts
  <2> HIDE DEF v, Firsts, N
  <2>4. /\ r \in Heaps(Vars)
        /\ r.score = g.score
        /\ ToSet(r.stack) = ToSet(g.stack) \cup {v}
    <3>1. CASE HeapContains(g, v)
      BY <2>2, <3>1 DEF PushBack, HeapContains
    <3>2. CASE ~HeapContains(g, v)
      <4>1. r = PushHeap(g, v)
        BY <3>2 DEF PushBack
      <4>2. LET p == PushHeap(g, v)
            IN  /\ p \in Heaps(Vars)
                /\ p.score = g.score
                /\ ToSet(p.stack) = ToSet(g.stack) \cup {v}
        BY ONLY <2>2, <2>3, <3>2, Pushed
      <4> QED
        BY ONLY <4>1, <4>2
    <3> QED
      BY <3>1, <3>2
  <2> HIDE DEF r
  <2>5. r \in Inv[i]
    BY <2>1, <2>2, <2>3, <2>4
  <2> QED
    BY <2>5 DEF r, v
<1>4. PushBackAll!KeepsLeft(Inv, h, seq)
  <2> HIDE DEF Inv
  <2> QED
    BY <1>2, <1>3 DEF PushBackAll!KeepsLeft
<1>5. PushBackAll!FoldedLeft(h, seq) \in Inv[N]
  <2> HIDE DEF Inv
  <2> QED
    BY <1>4, PushBackAllCounting, PushBackAll!FoldLeftInduction
<1>6. PushBackAll!FoldedLeft(h, seq) = FoldLeft(PushBack, h, seq)
  BY DEF PushBackAll!FoldedLeft, FoldLeft, MapThenFoldSet,
         PushBackAll!MapThenFoldSet, Max, PushBackAll!Largest
<1>7. ToSet(seq) = Firsts(N) /\ N \in 0..N
  BY <1>1 DEF ToSet
<1> HIDE DEF Firsts, N
<1> QED
  BY <1>5, <1>6, <1>7

ResetAll == INSTANCE RecursionTheorems WITH Op <- ResetScore

LEMMA ResetAllCounting == ResetAll!NatInduction
BY Counting DEF ResetAll!NatInduction

(* The scores of fresh variables are reset. *)
LEMMA AllReset ==
  ASSUME NEW h \in Heaps(Vars), NEW seq \in Seq(Vars)
  PROVE  LET g == FoldLeft(ResetScore, h, seq)
         IN  /\ g \in Heaps(Vars)
             /\ \A v \in Vars : g.score[v] <= h.score[v]
             /\ ToSet(g.stack) = ToSet(h.stack)
<1> DEFINE N == Len(seq)
           Inv == [i \in 0..N |-> {g \in Heaps(Vars) :
                     /\ \A v \in Vars : g.score[v] <= h.score[v]
                     /\ ToSet(g.stack) = ToSet(h.stack)}]
<1>1. N \in Nat /\ \A i \in 1..N : seq[i] \in Vars
  BY SeqFacts
<1>2. \A g \in Heaps(Vars), v \in Vars : g.score[v] \in Nat /\ g.score \in [Vars -> Nat]
  BY DEF Heaps, HeapsOver
<1>3. h \in Inv[0]
  <2>1. 0 \in 0..N
    BY <1>1
  <2>2. \A v \in Vars : h.score[v] <= h.score[v]
    BY <1>2
  <2> QED
    BY <2>1, <2>2
<1>4. ASSUME NEW i \in 1..N, NEW g, g \in Inv[i - 1]
      PROVE  ResetScore(g, seq[i]) \in Inv[i]
  <2> DEFINE v == seq[i]
             r == UpdateHeap(g, v, 0)
  <2>1. i - 1 \in 0..N /\ i \in 0..N /\ v \in Vars /\ 0 \in Nat
    BY <1>1
  <2>2. /\ g \in Heaps(Vars)
        /\ \A u \in Vars : g.score[u] <= h.score[u]
        /\ ToSet(g.stack) = ToSet(h.stack)
    BY <1>4, <2>1
  <2> HIDE DEF v, N
  <2>3. /\ r \in Heaps(Vars)
        /\ r.score = [g.score EXCEPT ![v] = 0]
        /\ ToSet(r.stack) = ToSet(g.stack)
    BY <2>1, <2>2, Updated
  <2> HIDE DEF r
  <2>4. \A u \in Vars : r.score[u] <= h.score[u]
    BY <1>2, <2>1, <2>2, <2>3
  <2>5. r \in Inv[i]
    BY <2>1, <2>2, <2>3, <2>4
  <2> QED
    BY <2>5 DEF r, v, ResetScore
<1>5. ResetAll!KeepsLeft(Inv, h, seq)
  <2> HIDE DEF Inv
  <2> QED
    BY <1>3, <1>4 DEF ResetAll!KeepsLeft
<1>6. ResetAll!FoldedLeft(h, seq) \in Inv[N]
  <2> HIDE DEF Inv
  <2> QED
    BY <1>5, ResetAllCounting, ResetAll!FoldLeftInduction
<1>7. ResetAll!FoldedLeft(h, seq) = FoldLeft(ResetScore, h, seq)
  BY DEF ResetAll!FoldedLeft, FoldLeft, MapThenFoldSet,
         ResetAll!MapThenFoldSet, Max, ResetAll!Largest
<1>8. N \in 0..N
  BY <1>1
<1> QED
  BY <1>6, <1>7, <1>8

(***************************************************************************)
(* kissat_update_scores completes the heap.                                *)
(***************************************************************************)
LEMMA HeapCompleted ==
  ASSUME NEW h \in Heaps(Vars), NEW g \in UpdatedScores(h)
  PROVE  /\ g \in Heaps(Vars)
         /\ g.score = h.score
         /\ ToSet(g.stack) = ToSet(h.stack) \cup Active
<1> DEFINE S == {v \in Active : ~HeapContains(h, v)}
<1>1. PICK seq \in SetToSeqs(S) : g = FoldLeft(PushHeap, h, seq)
  BY DEF UpdatedScores
<1>2. S \subseteq Vars /\ IsFiniteSet(S)
  <2>1. S \subseteq Vars
    BY DEF Active
  <2> QED
    BY <2>1, QueueVarsAssumption, FS_Subset
<1>3. Active = (ToSet(h.stack) \cap Active) \cup S /\ S \cap ToSet(h.stack) = {}
  BY DEF HeapContains
<1> HIDE DEF S
<1>4. Cardinality(S) \in Nat
  BY <1>2, FS_CardinalityType
<1>5. /\ seq \in [1..Cardinality(S) -> S]
      /\ \A i, j \in 1..Cardinality(S) : i # j => seq[i] # seq[j]
  BY <1>1 DEF SetToSeqs
<1>6. seq \in Seq(S) /\ Len(seq) = Cardinality(S)
  BY <1>4, <1>5, PushBackAll!FunctionIsSeq
<1>7. seq \in Seq(Vars)
  BY <1>2, <1>6
<1>8. IsInjective(seq)
  <2>1. DOMAIN seq = 1..Cardinality(S)
    BY <1>5
  <2> QED
    BY <1>5, <2>1 DEF IsInjective
<1>9. ToSet(seq) \subseteq S
  BY <1>6 DEF ToSet
<1>10. ToSet(seq) = S
  <2>1. Cardinality(ToSet(seq)) = Cardinality(S)
    BY <1>6, <1>7, <1>8, LengthBound
  <2> QED
    BY <1>2, <1>9, <2>1, FS_Subset
<1>11. ToSet(seq) \cap ToSet(h.stack) = {}
  BY <1>3, <1>10
<1>12. /\ g \in Heaps(Vars)
       /\ g.score = h.score
       /\ ToSet(g.stack) = ToSet(h.stack) \cup ToSet(seq)
  BY <1>1, <1>7, <1>8, <1>11, PushedAll
<1> QED
  BY <1>3, <1>10, <1>12

(***************************************************************************)
(* largest_score_unassigned_variable: what is taken off the heap is        *)
(* assigned, and what is first on it then is not.                          *)
(***************************************************************************)
Skip(g) == IF g.stack # <<>> /\ MaxHeap(g) \in Assigned THEN PopMaxHeap(g) ELSE g

SkipStep(f, h, i) == IF i = 0 THEN h ELSE Skip(f[i - 1])

(* g is h without some assigned elements. *)
Skipped(g, h) ==
  /\ g \in Heaps(Vars)
  /\ g.score = h.score
  /\ ToSet(g.stack) \subseteq ToSet(h.stack)
  /\ ToSet(h.stack) \ Assigned \subseteq ToSet(g.stack)

LEMMA NotEmptyHeap ==
  ASSUME NEW g \in Heaps(Vars), ToSet(g.stack) # {}
  PROVE  g.stack # <<>> /\ MaxHeap(g) \in ToSet(g.stack)
<1>1. g.stack \in Seq(Vars)
  BY DEF Heaps, HeapsOver
<1>2. g.stack # <<>>
  BY DEF ToSet
<1>3. 1 \in 1..Len(g.stack)
  BY <1>1, <1>2
<1> QED
  BY <1>1, <1>2, <1>3, SeqFacts DEF MaxHeap

LEMMA SkippedOne ==
  ASSUME NEW h \in Heaps(Vars), NEW g, Skipped(g, h), ToSet(h.stack) \ Assigned # {}
  PROVE  /\ Skipped(Skip(g), h)
         /\ MaxHeap(g) \in Assigned =>
              Cardinality(ToSet(Skip(g).stack)) + 1 = Cardinality(ToSet(g.stack))
         /\ MaxHeap(g) \notin Assigned => Skip(g) = g
<1>1. g \in Heaps(Vars) /\ ToSet(g.stack) # {}
  BY DEF Skipped
<1>2. g.stack # <<>> /\ MaxHeap(g) \in ToSet(g.stack)
  BY <1>1, NotEmptyHeap
<1>3. CASE MaxHeap(g) \notin Assigned
  BY <1>3 DEF Skip
<1>4. CASE MaxHeap(g) \in Assigned
  <2> DEFINE r == PopMaxHeap(g)
             max == MaxHeap(g)
  <2>1. Skip(g) = r
    BY <1>2, <1>4 DEF Skip
  <2>2. /\ r \in Heaps(Vars)
        /\ r.score = g.score
        /\ max \in ToSet(g.stack)
        /\ ToSet(r.stack) = ToSet(g.stack) \ {max}
    BY <1>1, <1>2, PoppedMax
  <2> HIDE DEF r
  <2>3. Skipped(r, h)
    BY <1>4, <2>2 DEF Skipped
  <2>4. IsFiniteSet(ToSet(g.stack))
    <3>1. g.stack \in Seq(Vars) /\ IsInjective(g.stack)
      BY <1>1 DEF Heaps, HeapsOver
    <3> QED
      BY <3>1, LengthBound
  <2> HIDE DEF max
  <2>5. /\ Cardinality(ToSet(g.stack)) \in Nat
        /\ Cardinality(ToSet(r.stack)) = Cardinality(ToSet(g.stack)) - 1
    BY <2>2, <2>4, FS_CardinalityType, FS_RemoveElement
  <2> QED
    BY <1>4, <2>1, <2>3, <2>5
<1> QED
  BY <1>3, <1>4

LEMMA PoppedAssigned ==
  ASSUME NEW h \in Heaps(Vars), ToSet(h.stack) \ Assigned # {}
  PROVE  LET g == PopAssigned(h)
         IN  /\ Skipped(g, h)
             /\ MaxHeap(g) \in ToSet(g.stack) \ Assigned
<1> DEFINE N == Len(h.stack)
           T == Heaps(Vars)
           Step == [i \in 1..N |-> [g \in T |-> Skip(g)]]
           equation(f) == f = [i \in 0..N |-> SkipStep(f, h, i)]
<1>1. N \in Nat /\ h.stack \in Seq(Vars) /\ IsInjective(h.stack)
  BY DEF Heaps, HeapsOver
<1>2. PushBackAll!Iterates(T, N, h, Step)
  <2>1. \A g \in T : Skip(g) \in T
    BY PoppedMax DEF Skip
  <2>2. Step \in [1..N -> [T -> T]]
    BY <2>1
  <2> HIDE DEF Step, N
  <2> QED
    BY <1>1, <2>2 DEF PushBackAll!Iterates
<1>3. PICK f \in [0..N -> T] : f = [i \in 0..N |-> PushBackAll!IterateStep(Step, f, i, h)]
  <2> HIDE DEF Step, T, N
  <2> QED
    BY <1>2, PushBackAllCounting, PushBackAll!Iteration
<1>4. \A i \in 0..N : PushBackAll!IterateStep(Step, f, i, h) = SkipStep(f, h, i)
  <2> SUFFICES ASSUME NEW i \in 0..N, i # 0
               PROVE  Step[i][f[i - 1]] = SkipStep(f, h, i)
    BY DEF PushBackAll!IterateStep, SkipStep
  <2>1. i \in 1..N /\ i - 1 \in 0..N
    BY <1>1
  <2>2. f[i - 1] \in T
    BY <1>3, <2>1
  <2> QED
    BY <2>1, <2>2 DEF SkipStep
<1>5. equation(f)
  <2> HIDE DEF Step
  <2> QED
    BY <1>3, <1>4
<1> DEFINE a == CHOOSE g : equation(g)
<1>6. equation(a)
  <2> HIDE DEF equation
  <2> QED
    BY <1>5
<1>7. PopAssigned(h) = a[N]
  BY DEF PopAssigned, SkipStep, Skip
<1> HIDE DEF a
<1>8. \A i \in 0..N : a[i] = SkipStep(a, h, i)
  BY <1>6
<1> DEFINE Few(g, i) == Cardinality(ToSet(g.stack)) + i <= N
           P == {i \in Nat : i <= N => /\ Skipped(a[i], h)
                                       /\ MaxHeap(a[i]) \in Assigned => Few(a[i], i)}
<1>9. 0 \in P
  <2>1. a[0] = h
    BY <1>1, <1>8 DEF SkipStep
  <2>2. Skipped(h, h)
    BY DEF Skipped
  <2>3. Cardinality(ToSet(h.stack)) = N
    BY <1>1, LengthBound
  <2> QED
    BY <1>1, <2>1, <2>2, <2>3
<1>10. ASSUME NEW i \in Nat, i \in P
       PROVE  i + 1 \in P
  <2> SUFFICES ASSUME i + 1 <= N
               PROVE  /\ Skipped(a[i + 1], h)
                      /\ MaxHeap(a[i + 1]) \in Assigned => Few(a[i + 1], i + 1)
    OBVIOUS
  <2>1. i + 1 \in 0..N /\ i + 1 # 0 /\ (i + 1) - 1 = i /\ i <= N
    BY <1>1
  <2>2. a[i + 1] = Skip(a[i])
    BY <1>8, <2>1 DEF SkipStep
  <2>3. Skipped(a[i], h) /\ (MaxHeap(a[i]) \in Assigned => Few(a[i], i))
    BY <1>10, <2>1
  <2> HIDE DEF P
  <2>4. /\ Skipped(a[i + 1], h)
        /\ MaxHeap(a[i]) \in Assigned =>
             Cardinality(ToSet(a[i + 1].stack)) + 1 = Cardinality(ToSet(a[i].stack))
        /\ MaxHeap(a[i]) \notin Assigned => a[i + 1] = a[i]
    BY <2>2, <2>3, SkippedOne
  <2>5. Cardinality(ToSet(a[i + 1].stack)) \in Nat
    <3>1. a[i + 1].stack \in Seq(Vars)
      BY <2>4 DEF Skipped, Heaps, HeapsOver
    <3>2. IsFiniteSet(ToSet(a[i + 1].stack))
      <4>1. IsInjective(a[i + 1].stack)
        BY <2>4 DEF Skipped, Heaps, HeapsOver
      <4> QED
        BY <3>1, <4>1, LengthBound
    <3> QED
      BY <3>2, FS_CardinalityType
  <2> QED
    BY <1>1, <2>3, <2>4, <2>5
<1>11. N \in P
  <2> HIDE DEF P
  <2>1. Nat \subseteq P
    BY <1>9, <1>10, PushBackAllCounting, PushBackAll!SetInduction
  <2> QED
    BY <1>1, <2>1
<1> DEFINE g == a[N]
<1>12. /\ Skipped(g, h)
       /\ MaxHeap(g) \in Assigned => Few(g, N)
  BY <1>1, <1>11
<1> HIDE DEF g
<1>13. g \in Heaps(Vars) /\ ToSet(g.stack) # {}
  BY <1>12 DEF Skipped
<1>14. MaxHeap(g) \in ToSet(g.stack)
  BY <1>13, NotEmptyHeap
<1>15. /\ IsFiniteSet(ToSet(g.stack))
       /\ Cardinality(ToSet(g.stack)) \in Nat
       /\ Cardinality(ToSet(g.stack)) # 0
  <2>1. g.stack \in Seq(Vars) /\ IsInjective(g.stack)
    BY <1>13 DEF Heaps, HeapsOver
  <2>2. IsFiniteSet(ToSet(g.stack))
    BY <2>1, LengthBound
  <2> QED
    BY <1>13, <2>2, FS_CardinalityType, FS_EmptySet
<1>16. MaxHeap(g) \notin Assigned
  BY <1>1, <1>12, <1>15
<1> QED
  BY <1>7, <1>12, <1>14, <1>16 DEF g

-----------------------------------------------------------------------------
(***************************************************************************)
(* Rescaling (kissat_rescale_heap, rescale_scores) leaves no score above   *)
(* the score 1.0.                                                          *)
(***************************************************************************)
LEMMA ScaledDown ==
  ASSUME NEW a \in Nat, NEW u \in Nat, NEW r \in Nat, r > 0, a <= r
  PROVE  (a * u) \div r \in Nat /\ (a * u) \div r <= u
<1>1. a * u \in Nat /\ r * u \in Nat /\ a * u <= r * u
  OBVIOUS
<1>2. (r * u) \div r = u
  OBVIOUS
<1> QED
  BY <1>1, <1>2, DivMonotone

Bounded(h, bound) == \A v \in Vars : h.score[v] <= bound

LEMMA MaxScoreOf ==
  ASSUME NEW h \in Heaps(Vars), NEW B \in Nat, Bounded(h, B), Vars # {}
  PROVE  MaxScoreOnHeap(h) \in Nat /\ Bounded(h, MaxScoreOnHeap(h))
<1> DEFINE all == {h.score[v] : v \in DOMAIN h.score}
           gaps == {B - n : n \in all}
<1>1. h.score \in [Vars -> Nat] /\ DOMAIN h.score = Vars
  BY DEF Heaps, HeapsOver
<1>2. \A n \in all : n \in Nat /\ n <= B
  BY <1>1 DEF Bounded
<1>3. all # {}
  BY <1>1
<1> HIDE DEF all
<1>4. gaps \in SUBSET Nat /\ gaps # {}
  BY <1>2, <1>3
<1>5. PICK gap \in gaps : \A m \in gaps : gap <= m
  <2> HIDE DEF gaps
  <2> QED
    BY <1>4, PushBackAllCounting, PushBackAll!SmallestElement
<1>6. PICK s \in all : gap = B - s
  OBVIOUS
<1>7. \A t \in all : t <= s
  <2> SUFFICES ASSUME NEW t \in all
               PROVE  t <= s
    OBVIOUS
  <2>1. B - t \in gaps
    OBVIOUS
  <2>2. gap <= B - t
    BY <1>5, <2>1
  <2> QED
    BY <1>2, <1>6, <2>2
<1>8. MaxScoreOnHeap(h) = CHOOSE n \in all : \A t \in all : t <= n
  BY DEF MaxScoreOnHeap, all
<1>9. MaxScoreOnHeap(h) \in all /\ \A t \in all : t <= MaxScoreOnHeap(h)
  BY <1>6, <1>7, <1>8
<1> QED
  BY <1>1, <1>2, <1>9 DEF Bounded, all

LEMMA RescaledFacts ==
  ASSUME NEW h \in Heaps(Vars), NEW B \in Nat, Bounded(h, B), Vars # {},
         NEW inc \in Nat \ {0}
  PROVE  LET r == Rescaled(h, inc)
         IN  /\ r.heap \in Heaps(Vars)
             /\ r.heap.stack = h.stack
             /\ Bounded(r.heap, Unit)
             /\ r.inc \in 1..MaxScore
<1> DEFINE m == MaxScoreOnHeap(h)
           rescale == Larger(m, inc)
           g == RescaleHeap(h, Unit, rescale)
           n == (inc * Unit) \div rescale
<1>1. m \in Nat /\ Bounded(h, m)
  BY MaxScoreOf
<1>2. h.score \in [Vars -> Nat]
  BY DEF Heaps, HeapsOver
<1>3. Unit \in Nat /\ Unit > 0 /\ MaxScore \in Nat /\ Unit <= MaxScore
  BY ScoresAssumption
<1> HIDE DEF m
<1>4. rescale \in Nat /\ rescale > 0 /\ inc <= rescale /\ m <= rescale
  BY <1>1 DEF Larger
<1>5. Rescaled(h, inc) = [heap |-> g, inc |-> Larger(1, n)]
  BY DEF Rescaled, m
<1> HIDE DEF rescale
<1>6. /\ g \in Heaps(Vars)
      /\ g.score = [v \in Vars |-> (h.score[v] * Unit) \div rescale]
      /\ g.stack = h.stack
  BY <1>3, <1>4, RescaledHeap
<1> HIDE DEF g
<1>7. Bounded(g, Unit)
  <2> SUFFICES ASSUME NEW v \in Vars
               PROVE  g.score[v] <= Unit
    BY DEF Bounded
  <2> DEFINE x == h.score[v]
  <2>1. x \in Nat /\ x <= rescale
    BY <1>1, <1>2, <1>4 DEF Bounded
  <2>2. g.score[v] = (x * Unit) \div rescale
    BY <1>6
  <2> HIDE DEF x
  <2> QED
    BY <1>3, <1>4, <2>1, <2>2, ScaledDown
<1>8. n \in Nat /\ n <= Unit
  BY <1>3, <1>4, ScaledDown
<1> HIDE DEF n
<1>9. Larger(1, n) \in 1..MaxScore
  BY <1>3, <1>8 DEF Larger
<1> QED
  BY <1>5, <1>6, <1>7, <1>9

(* kissat_bump_analyzed, for one variable ... *)
LEMMA BumpedFacts ==
  ASSUME NEW h \in Heaps(Vars), Bounded(h, 2 * MaxScore), NEW inc \in 1..MaxScore,
         NEW v \in Vars
  PROVE  LET r == BumpedScore(h, inc, v)
         IN  /\ r.heap \in Heaps(Vars)
             /\ Bounded(r.heap, 2 * MaxScore)
             /\ r.inc \in 1..MaxScore
             /\ ToSet(r.heap.stack) = ToSet(h.stack)
<1> DEFINE n == h.score[v] + inc
           g == UpdateHeap(h, v, n)
           r == BumpedScore(h, inc, v)
<1>1. h.score \in [Vars -> Nat]
  BY DEF Heaps, HeapsOver
<1>2. /\ Unit \in Nat /\ MaxScore \in Nat /\ Unit <= MaxScore
      /\ 3 * MaxScore \in Nat /\ inc \in Nat \ {0}
  BY ScoresAssumption
<1>3. n \in Nat /\ n <= 3 * MaxScore
  BY <1>1, <1>2 DEF Bounded
<1>4. r = RescaledIf(n > MaxScore, g, inc)
  BY DEF BumpedScore
<1> HIDE DEF n, r
<1>5. /\ g \in Heaps(Vars)
      /\ g.score = [h.score EXCEPT ![v] = n]
      /\ ToSet(g.stack) = ToSet(h.stack)
  BY <1>3, Updated
<1> HIDE DEF g
<1>6. CASE n > MaxScore
  <2>1. Bounded(g, 3 * MaxScore)
    BY <1>1, <1>2, <1>3, <1>5 DEF Bounded
  <2>2. r = Rescaled(g, inc)
    BY <1>4, <1>6 DEF RescaledIf
  <2>3. /\ r.heap \in Heaps(Vars)
        /\ r.heap.stack = g.stack
        /\ Bounded(r.heap, Unit)
        /\ r.inc \in 1..MaxScore
    BY <1>2, <1>5, <2>1, <2>2, RescaledFacts
  <2>4. r.heap.score \in [Vars -> Nat]
    BY <2>3 DEF Heaps, HeapsOver
  <2>5. Bounded(r.heap, 2 * MaxScore)
    BY <1>2, <2>3, <2>4 DEF Bounded
  <2> QED
    BY <1>5, <2>3, <2>5 DEF r
<1>7. CASE ~ (n > MaxScore)
  <2>1. r = [heap |-> g, inc |-> inc]
    BY <1>4, <1>7 DEF RescaledIf
  <2>2. Bounded(g, 2 * MaxScore)
    BY <1>1, <1>2, <1>3, <1>5, <1>7 DEF Bounded
  <2> QED
    BY <1>5, <2>1, <2>2 DEF r
<1> QED
  BY <1>6, <1>7

(* ... and for the increment in the end. *)
LEMMA IncrementFacts ==
  ASSUME NEW h \in Heaps(Vars), Bounded(h, 2 * MaxScore), NEW inc \in 1..MaxScore,
         Vars # {}
  PROVE  LET r == BumpedIncrement(h, inc)
         IN  /\ r.heap \in Heaps(Vars)
             /\ Bounded(r.heap, 2 * MaxScore)
             /\ r.inc \in 1..MaxScore
             /\ ToSet(r.heap.stack) = ToSet(h.stack)
<1> DEFINE r == BumpedIncrement(h, inc)
<1>1. h.score \in [Vars -> Nat]
  BY DEF Heaps, HeapsOver
<1>2. /\ Unit \in Nat /\ MaxScore \in Nat /\ Unit <= MaxScore
      /\ 2 * MaxScore \in Nat /\ 2 * inc \in Nat \ {0}
  BY ScoresAssumption
<1>3. r = RescaledIf(2 * inc > MaxScore, h, 2 * inc)
  BY DEF BumpedIncrement
<1> HIDE DEF r
<1>4. CASE 2 * inc > MaxScore
  <2>1. r = Rescaled(h, 2 * inc)
    BY <1>3, <1>4 DEF RescaledIf
  <2>2. /\ r.heap \in Heaps(Vars)
        /\ r.heap.stack = h.stack
        /\ Bounded(r.heap, Unit)
        /\ r.inc \in 1..MaxScore
    BY <1>2, <2>1, RescaledFacts
  <2>3. r.heap.score \in [Vars -> Nat]
    BY <2>2 DEF Heaps, HeapsOver
  <2>4. Bounded(r.heap, 2 * MaxScore)
    BY <1>2, <2>2, <2>3 DEF Bounded
  <2> QED
    BY <2>2, <2>4 DEF r
<1>5. CASE ~ (2 * inc > MaxScore)
  <2>1. r = [heap |-> h, inc |-> 2 * inc]
    BY <1>3, <1>5 DEF RescaledIf
  <2>2. 2 * inc \in 1..MaxScore
    BY <1>2, <1>5
  <2> QED
    BY <2>1, <2>2 DEF r
<1> QED
  BY <1>4, <1>5

-----------------------------------------------------------------------------
(***************************************************************************)
(* The state of the variables and of the loop, without queue and heap.     *)
(***************************************************************************)
StateTypes ==
  /\ stable \in BOOLEAN
  /\ flags \in [Vars -> {"new", "active", "fixed", "eliminated", "dropped"}]
  /\ lev \in [Vars -> {UNASSIGNED} \cup Nat]
  /\ trail \in Seq(Vars)
  /\ decisions \in Seq(Vars)
  /\ pc \in {"parse", "search", "restart", "bump", "reorder", "factor"}
  /\ pending \subseteq Active

(* Fixed variables have level 0, those on the trail are active. *)
Levels ==
  /\ \A v \in Vars : /\ lev[v] <= level
                     /\ lev[v] = 0 <=> flags[v] = "fixed"
                     /\ lev[v] > 0 <=> v \in ToSet(trail)
                     /\ lev[v] > 0 => ACTIVE(v)
  /\ \A l \in 1..level : lev[decisions[l]] = l

Phases ==
  /\ pc = "parse" => ~stable
  /\ pc = "factor" => level = 0 /\ Active # {}
  /\ pc \in {"bump", "reorder"} => pending # {}
  /\ pending # {} => pc \in {"bump", "reorder", "factor"}
  /\ reuse \in 0..level
  /\ pc # "restart" => reuse = 0

State == StateTypes /\ Levels /\ Phases

LEMMA StateInitially == Init => State
<1> SUFFICES ASSUME Init
             PROVE  State
  OBVIOUS
<1>1. ToSet(<<>>) = {} /\ Len(<<>>) = 0
  BY DEF ToSet
<1>2. StateTypes
  <2>1. flags \in [Vars -> {"new", "active", "fixed", "eliminated", "dropped"}]
    BY DEF Init
  <2>2. lev \in [Vars -> {UNASSIGNED} \cup Nat]
    BY DEF Init
  <2>3. trail \in Seq(Vars) /\ decisions \in Seq(Vars)
    BY DEF Init
  <2>4. stable = FALSE /\ pc = "parse" /\ pending = {}
    BY DEF Init
  <2> QED
    BY <2>1, <2>2, <2>3, <2>4 DEF StateTypes
<1>3. Levels
  BY <1>1 DEF Init, Levels, UNASSIGNED, level, ACTIVE
<1>4. Phases
  BY <1>1 DEF Init, Phases, level
<1> QED
  BY <1>2, <1>3, <1>4 DEF State

(* kissat_backtrack_without_updating_phases. *)
LEMMA BacktrackedState ==
  ASSUME State, NEW newLevel \in 0..level, BacktrackTo(newLevel), UNCHANGED flags
  PROVE  /\ lev' \in [Vars -> {UNASSIGNED} \cup Nat]
         /\ trail' \in Seq(Vars)
         /\ decisions' \in Seq(Vars)
         /\ level' = newLevel
         /\ Levels'
<1> DEFINE kept == {v \in Vars : Keeps(newLevel, v)}
<1>1. /\ lev \in [Vars -> {UNASSIGNED} \cup Nat]
      /\ trail \in Seq(Vars) /\ decisions \in Seq(Vars)
      /\ Levels
  BY DEF State, StateTypes
<1>2. level \in Nat /\ newLevel \in Nat /\ newLevel <= level /\ level = Len(decisions)
  BY <1>1 DEF level
<1>3. /\ lev' = [v \in Vars |-> IF v \in kept THEN lev[v] ELSE UNASSIGNED]
      /\ trail' = Among(trail, kept)
      /\ decisions' = SubSeq(decisions, 1, newLevel)
  BY DEF BacktrackTo
<1>4. \A v \in Vars : v \in kept <=> lev[v] <= newLevel
  BY DEF Keeps
<1> HIDE DEF kept
<1>5. trail' \in Seq(Vars) /\ ToSet(trail') = ToSet(trail) \cap kept
  BY <1>1, <1>3, AmongFacts
<1>6. /\ decisions' \in Seq(Vars)
      /\ Len(decisions') = newLevel
      /\ \A l \in 1..newLevel : decisions'[l] = decisions[l]
  BY <1>1, <1>2, <1>3, SubSeqProperties
<1>7. level' = newLevel
  BY <1>6 DEF level
<1>8. lev' \in [Vars -> {UNASSIGNED} \cup Nat]
  BY <1>1, <1>3
<1>9. \A v \in Vars : v \notin kept => lev'[v] = -1
  BY <1>3 DEF UNASSIGNED
<1>10. \A v \in Vars : v \in kept => lev'[v] = lev[v] /\ lev[v] <= newLevel
  BY <1>3, <1>4
<1>11. ASSUME NEW v \in Vars
       PROVE  /\ lev'[v] <= newLevel
              /\ lev'[v] = 0 <=> flags'[v] = "fixed"
              /\ lev'[v] > 0 <=> v \in ToSet(trail')
              /\ lev'[v] > 0 => ACTIVE(v)'
  <2>1. /\ lev[v] = 0 <=> flags[v] = "fixed"
        /\ lev[v] > 0 <=> v \in ToSet(trail)
        /\ lev[v] > 0 => ACTIVE(v)
        /\ lev[v] \in {-1} \cup Nat
    BY <1>1 DEF Levels, UNASSIGNED
  <2>2. ACTIVE(v)' = ACTIVE(v) /\ flags' = flags
    BY DEF ACTIVE
  <2>3. CASE v \in kept
    BY <1>5, <1>10, <2>1, <2>2, <2>3
  <2>4. CASE v \notin kept
    <3>1. lev'[v] = -1 /\ v \notin ToSet(trail')
      BY <1>5, <1>9, <2>4
    <3>2. lev[v] > 0
      BY <1>2, <1>4, <2>1, <2>4
    <3>3. flags'[v] # "fixed"
      BY <2>1, <2>2, <3>2
    <3> QED
      BY <1>2, <3>1, <3>3
  <2> QED
    BY <2>3, <2>4
<1>12. ASSUME NEW l \in 1..newLevel
       PROVE  lev'[decisions'[l]] = l
  <2>1. l \in 1..Len(decisions) /\ decisions[l] \in Vars
    BY <1>1, <1>2
  <2>2. lev[decisions[l]] = l
    BY <1>1, <1>2, <2>1 DEF Levels
  <2>3. decisions[l] \in kept
    BY <1>2, <1>4, <2>1, <2>2
  <2> QED
    BY <1>6, <1>10, <2>1, <2>2, <2>3
<1>13. Levels'
  BY <1>7, <1>11, <1>12 DEF Levels
<1> QED
  BY <1>5, <1>6, <1>7, <1>8, <1>13

LEMMA AppendToSet ==
  ASSUME NEW s \in Seq(Vars), NEW v \in Vars
  PROVE  Append(s, v) \in Seq(Vars) /\ ToSet(Append(s, v)) = ToSet(s) \cup {v}
<1> DEFINE t == Append(s, v)
<1>1. /\ t \in Seq(Vars) /\ Len(t) = Len(s) + 1 /\ Len(s) \in Nat
      /\ \A i \in 1..Len(s) : t[i] = s[i]
      /\ t[Len(s) + 1] = v
  BY AppendProperties
<1> HIDE DEF t
<1>2. DOMAIN t = 1..(Len(s) + 1) /\ DOMAIN s = 1..Len(s)
  BY <1>1, SeqFacts
<1>3. /\ \A i \in 1..(Len(s) + 1) : i \in 1..Len(s) \/ i = Len(s) + 1
      /\ \A i \in 1..Len(s) : i \in 1..(Len(s) + 1)
      /\ Len(s) + 1 \in 1..(Len(s) + 1)
  BY <1>1
<1> QED
  BY <1>1, <1>2, <1>3 DEF ToSet, t

LEMMA StateUnchanged ==
  ASSUME State, UNCHANGED <<flags, stable, lev, trail, decisions, pc, pending, reuse>>
  PROVE  State'
BY DEF State, StateTypes, Levels, Phases, Active, ACTIVE, level

LEMMA ReuseLevel ==
  ASSUME State, NEW v \in Vars, ReuseTrail(v)
  PROVE  reuse' \in 0..level
<1> DEFINE rank(u) == IF stable THEN scores'.score[u] ELSE queue'.links[u].stamp
           below == {l \in 1..level : rank(decisions[l]) <= rank(v)}
<1>1. reuse' = IF below = {} THEN level
               ELSE (CHOOSE l \in below : \A k \in below : l <= k) - 1
  BY DEF ReuseTrail
<1>2. level \in Nat
  BY DEF State, StateTypes, level
<1>3. below \in SUBSET (1..level)
  OBVIOUS
<1> HIDE DEF below
<1>4. CASE below = {}
  BY <1>1, <1>2, <1>4
<1>5. CASE below # {}
  <2>1. below \in SUBSET Nat
    BY <1>2, <1>3
  <2>2. \E l \in below : \A k \in below : l <= k
    BY <1>5, <2>1, PushBackAllCounting, PushBackAll!SmallestElement
  <2>3. PICK l \in below : reuse' = l - 1
    BY <1>1, <1>5, <2>2
  <2> QED
    BY <1>2, <1>3, <2>3
<1> QED
  BY <1>4, <1>5

LEMMA StateInductive ==
  ASSUME State, [Next]_vars, \A v \in Vars : MakeDecision(v) => v \in Unassigned
  PROVE  State'
<1>1. /\ StateTypes /\ Levels /\ Phases
      /\ level \in Nat /\ level = Len(decisions)
      /\ stable \in BOOLEAN
      /\ flags \in [Vars -> {"new", "active", "fixed", "eliminated", "dropped"}]
      /\ lev \in [Vars -> {-1} \cup Nat]
      /\ trail \in Seq(Vars) /\ decisions \in Seq(Vars)
      /\ pending \subseteq Active
      /\ pc \in {"parse", "search", "restart", "bump", "reorder", "factor"}
  BY DEF State, StateTypes, level, UNASSIGNED
<1>2. /\ \A v \in Vars : lev[v] <= level
      /\ \A v \in Vars : lev[v] = 0 <=> flags[v] = "fixed"
      /\ \A v \in Vars : lev[v] > 0 <=> v \in ToSet(trail)
      /\ \A v \in Vars : lev[v] > 0 => flags[v] = "active"
      /\ \A l \in 1..level : lev[decisions[l]] = l
  BY <1>1 DEF Levels, ACTIVE
<1>3. /\ Active = {v \in Vars : flags[v] = "active"}
      /\ Active' = {v \in Vars : flags'[v] = "active"}
      /\ Assigned = {v \in Vars : lev[v] # -1}
      /\ Unassigned = Active \ Assigned
  BY DEF Active, ACTIVE, Assigned, Unassigned, UNASSIGNED
<1>4. /\ pc = "parse" => ~stable
      /\ pc = "factor" => level = 0 /\ Active # {}
      /\ pc \in {"bump", "reorder"} => pending # {}
      /\ pending # {} => pc \in {"bump", "reorder", "factor"}
      /\ reuse \in 0..level
      /\ pc # "restart" => reuse = 0
  BY <1>1 DEF Phases
<1>5. ASSUME NEW v \in Vars, Activate(v)
      PROVE  State'
  <2>1. /\ pc \in {"parse", "factor"} /\ flags[v] = "new"
        /\ flags' = [flags EXCEPT ![v] = "active"]
        /\ pending' = IF pc = "factor" THEN pending \cup {v} ELSE pending
        /\ stable' = stable /\ lev' = lev /\ trail' = trail
        /\ decisions' = decisions /\ pc' = pc /\ reuse' = reuse
    BY <1>5 DEF Activate, modeVars, assignVars
  <2>2. Active' = Active \cup {v} /\ level' = level
    BY <1>1, <1>3, <2>1 DEF level
  <2>3. StateTypes'
    <3>1. flags' \in [Vars -> {"new", "active", "fixed", "eliminated", "dropped"}]
      BY <1>1, <2>1
    <3>2. pending' \subseteq Active'
      BY <1>1, <2>1, <2>2
    <3> QED
      BY <1>1, <2>1, <3>1, <3>2 DEF StateTypes, UNASSIGNED
  <2>4. Levels'
    <3>1. \A u \in Vars : u # v => flags'[u] = flags[u]
      BY <1>1, <2>1
    <3>2. flags'[v] = "active" /\ lev[v] # 0
      BY <1>1, <1>2, <2>1
    <3>3. \A u \in Vars : /\ lev[u] = 0 <=> flags'[u] = "fixed"
                          /\ lev[u] > 0 => flags'[u] = "active"
      BY <1>2, <3>1, <3>2
    <3> QED
      BY <1>2, <2>1, <2>2, <3>3 DEF Levels, ACTIVE
  <2>5. Phases'
    BY <1>4, <2>1, <2>2 DEF Phases
  <2> QED
    BY <2>3, <2>4, <2>5 DEF State
<1>6. ASSUME NEW v \in Vars, Fix(v)
      PROVE  State'
  <2>1. /\ pc \in {"parse", "search"} /\ v \in Unassigned
        /\ flags' = [flags EXCEPT ![v] = "fixed"]
        /\ lev' = [lev EXCEPT ![v] = 0]
        /\ stable' = stable /\ trail' = trail
        /\ decisions' = decisions /\ pc' = pc /\ pending' = pending /\ reuse' = reuse
    BY <1>6 DEF Fix, modeVars, loopVars
  <2>2. /\ flags[v] = "active" /\ lev[v] = -1 /\ level' = level
        /\ Active' = Active \ {v} /\ pending = {}
    BY <1>1, <1>3, <1>4, <2>1 DEF level
  <2>3. StateTypes'
    <3>1. flags' \in [Vars -> {"new", "active", "fixed", "eliminated", "dropped"}]
      BY <1>1, <2>1
    <3>2. lev' \in [Vars -> {-1} \cup Nat]
      BY <1>1, <2>1
    <3>3. pending' \subseteq Active'
      BY <2>1, <2>2
    <3> QED
      BY <1>1, <2>1, <3>1, <3>2, <3>3 DEF StateTypes, UNASSIGNED
  <2>4. Levels'
    <3>1. \A u \in Vars : u # v => flags'[u] = flags[u] /\ lev'[u] = lev[u]
      BY <1>1, <2>1
    <3>2. flags'[v] = "fixed" /\ lev'[v] = 0 /\ v \notin ToSet(trail)
      BY <1>1, <1>2, <2>1, <2>2
    <3>3. ASSUME NEW u \in Vars
          PROVE  /\ lev'[u] <= level
                 /\ lev'[u] = 0 <=> flags'[u] = "fixed"
                 /\ lev'[u] > 0 <=> u \in ToSet(trail)
                 /\ lev'[u] > 0 => flags'[u] = "active"
      <4>1. CASE u = v
        BY <1>1, <3>2, <4>1
      <4>2. CASE u # v
        BY <1>2, <3>1, <4>2
      <4> QED
        BY <4>1, <4>2
    <3>4. ASSUME NEW l \in 1..level
          PROVE  lev'[decisions[l]] = l
      <4>1. lev[decisions[l]] = l /\ decisions[l] \in Vars /\ decisions[l] # v
        BY <1>1, <1>2, <2>2
      <4> QED
        BY <3>1, <4>1
    <3> QED
      BY <2>1, <2>2, <3>3, <3>4 DEF Levels, ACTIVE
  <2>5. Phases'
    BY <1>4, <2>1, <2>2 DEF Phases
  <2> QED
    BY <2>3, <2>4, <2>5 DEF State
<1>7. ASSUME NEW v \in Vars, Eliminate(v)
      PROVE  State'
  <2>1. /\ pc = "search" /\ v \in Unassigned
        /\ flags' = [flags EXCEPT ![v] = "eliminated"]
        /\ lev' = lev /\ stable' = stable /\ trail' = trail
        /\ decisions' = decisions /\ pc' = pc /\ pending' = pending /\ reuse' = reuse
    BY <1>7 DEF Eliminate, modeVars, assignVars, loopVars, Searching
  <2>2. /\ flags[v] = "active" /\ lev[v] = -1 /\ level' = level
        /\ Active' = Active \ {v} /\ pending = {}
    BY <1>1, <1>3, <1>4, <2>1 DEF level
  <2>3. StateTypes'
    <3>1. flags' \in [Vars -> {"new", "active", "fixed", "eliminated", "dropped"}]
      BY <1>1, <2>1
    <3>2. pending' \subseteq Active'
      BY <2>1, <2>2
    <3> QED
      BY <1>1, <2>1, <3>1, <3>2 DEF StateTypes, UNASSIGNED
  <2>4. Levels'
    <3>1. \A u \in Vars : u # v => flags'[u] = flags[u]
      BY <1>1, <2>1
    <3>2. flags'[v] = "eliminated"
      BY <1>1, <2>1
    <3>3. \A u \in Vars : /\ lev[u] = 0 <=> flags'[u] = "fixed"
                          /\ lev[u] > 0 => flags'[u] = "active"
      BY <1>2, <2>2, <3>1, <3>2
    <3> QED
      BY <1>2, <2>1, <2>2, <3>3 DEF Levels, ACTIVE
  <2>5. Phases'
    BY <1>4, <2>1, <2>2 DEF Phases
  <2> QED
    BY <2>3, <2>4, <2>5 DEF State
<1>8. ASSUME NEW v \in Vars, MakeDecision(v)
      PROVE  State'
  <2>1. /\ pc = "search" /\ v \in Unassigned
        /\ decisions' = Append(decisions, v)
        /\ lev' = [lev EXCEPT ![v] = level + 1]
        /\ trail' = Append(trail, v)
        /\ flags' = flags /\ stable' = stable
        /\ pc' = pc /\ pending' = pending /\ reuse' = reuse
    BY <1>8 DEF MakeDecision, modeVars, loopVars, Searching
  <2>2. flags[v] = "active" /\ lev[v] = -1 /\ Active' = Active /\ pending = {}
    BY <1>1, <1>3, <1>4, <2>1
  <2>3. /\ decisions' \in Seq(Vars) /\ level' = level + 1
        /\ \A l \in 1..level : decisions'[l] = decisions[l]
        /\ decisions'[level + 1] = v
    <3>1. Len(decisions') = Len(decisions) + 1
      BY <1>1, <2>1, AppendProperties
    <3> QED
      BY <1>1, <2>1, <3>1, AppendProperties DEF level
  <2>4. trail' \in Seq(Vars) /\ ToSet(trail') = ToSet(trail) \cup {v}
    BY <1>1, <2>1, AppendToSet
  <2>5. lev' \in [Vars -> {-1} \cup Nat]
    BY <1>1, <2>1
  <2>6. StateTypes'
    BY <1>1, <2>1, <2>2, <2>3, <2>4, <2>5 DEF StateTypes, UNASSIGNED
  <2>7. Levels'
    <3>1. lev'[v] = level + 1 /\ \A u \in Vars : u # v => lev'[u] = lev[u]
      BY <1>1, <2>1
    <3>2. ASSUME NEW u \in Vars
          PROVE  /\ lev'[u] <= level + 1
                 /\ lev'[u] = 0 <=> flags[u] = "fixed"
                 /\ lev'[u] > 0 <=> u \in ToSet(trail')
                 /\ lev'[u] > 0 => flags[u] = "active"
      <4>1. CASE u = v
        BY <1>1, <2>2, <2>4, <3>1, <4>1
      <4>2. CASE u # v
        <5>1. lev[u] <= level + 1
          BY <1>1, <1>2
        <5> QED
          BY <1>2, <2>4, <3>1, <4>2, <5>1
      <4> QED
        BY <4>1, <4>2
    <3>3. ASSUME NEW l \in 1..(level + 1)
          PROVE  lev'[decisions'[l]] = l
      <4>1. CASE l = level + 1
        BY <2>3, <3>1, <4>1
      <4>2. CASE l # level + 1
        <5>1. l \in 1..level
          BY <1>1, <4>2
        <5>2. lev[decisions[l]] = l /\ decisions[l] \in Vars /\ decisions[l] # v
          BY <1>1, <1>2, <2>2, <5>1
        <5> QED
          BY <2>3, <3>1, <5>1, <5>2
      <4> QED
        BY <4>1, <4>2
    <3> QED
      BY <2>1, <2>3, <3>2, <3>3 DEF Levels, ACTIVE
  <2>8. Phases'
    BY <1>1, <1>4, <2>1, <2>2, <2>3 DEF Phases
  <2> QED
    BY <2>6, <2>7, <2>8 DEF State
<1>9. ASSUME NEW v \in Vars, NEW l \in 1..level, Imply(v, l)
      PROVE  State'
  <2>1. /\ pc = "search" /\ v \in Unassigned
        /\ lev' = [lev EXCEPT ![v] = l]
        /\ trail' = Append(trail, v)
        /\ flags' = flags /\ stable' = stable /\ decisions' = decisions
        /\ pc' = pc /\ pending' = pending /\ reuse' = reuse
    BY <1>9 DEF Imply, modeVars, loopVars, Searching
  <2>2. /\ flags[v] = "active" /\ lev[v] = -1 /\ Active' = Active
        /\ level' = level /\ pending = {}
    BY <1>1, <1>3, <1>4, <2>1 DEF level
  <2>3. trail' \in Seq(Vars) /\ ToSet(trail') = ToSet(trail) \cup {v}
    BY <1>1, <2>1, AppendToSet
  <2>4. lev' \in [Vars -> {-1} \cup Nat]
    BY <1>1, <2>1
  <2>5. StateTypes'
    BY <1>1, <2>1, <2>2, <2>3, <2>4 DEF StateTypes, UNASSIGNED
  <2>6. Levels'
    <3>1. lev'[v] = l /\ \A u \in Vars : u # v => lev'[u] = lev[u]
      BY <1>1, <2>1
    <3>2. ASSUME NEW u \in Vars
          PROVE  /\ lev'[u] <= level
                 /\ lev'[u] = 0 <=> flags[u] = "fixed"
                 /\ lev'[u] > 0 <=> u \in ToSet(trail')
                 /\ lev'[u] > 0 => flags[u] = "active"
      <4>1. CASE u = v
        BY <1>1, <2>2, <2>3, <3>1, <4>1
      <4>2. CASE u # v
        BY <1>2, <2>3, <3>1, <4>2
      <4> QED
        BY <4>1, <4>2
    <3>3. ASSUME NEW k \in 1..level
          PROVE  lev'[decisions[k]] = k
      <4>1. lev[decisions[k]] = k /\ decisions[k] \in Vars /\ decisions[k] # v
        BY <1>1, <1>2, <2>2
      <4> QED
        BY <3>1, <4>1
    <3> QED
      BY <2>1, <2>2, <3>2, <3>3 DEF Levels, ACTIVE
  <2>7. Phases'
    BY <1>1, <1>4, <2>1, <2>2 DEF Phases
  <2> QED
    BY <2>5, <2>6, <2>7 DEF State
<1>10. ASSUME NEW v \in Vars, ReuseTrail(v)
       PROVE  State'
  <2>1. /\ pc = "search" /\ pc' = "restart"
        /\ flags' = flags /\ stable' = stable /\ lev' = lev /\ trail' = trail
        /\ decisions' = decisions /\ pending' = pending
    BY <1>10 DEF ReuseTrail, modeVars, assignVars, Searching
  <2>2. reuse' \in 0..level
    BY <1>10, ReuseLevel
  <2>3. level' = level /\ Active' = Active /\ pending = {}
    BY <1>3, <1>4, <2>1 DEF level
  <2>4. StateTypes'
    BY <1>1, <2>1, <2>3 DEF StateTypes, UNASSIGNED
  <2>5. Levels'
    BY <1>2, <2>1, <2>3 DEF Levels, ACTIVE
  <2>6. Phases'
    BY <1>4, <2>1, <2>2, <2>3 DEF Phases
  <2> QED
    BY <2>4, <2>5, <2>6 DEF State
<1>11. ASSUME NEW v \in Vars, Adjust(v)
       PROVE  State'
  <2>1. /\ pc \in {"bump", "reorder"} /\ v \in pending
        /\ pending' = pending \ {v}
        /\ pc' = IF pending = {v} THEN "search" ELSE pc
        /\ flags' = flags /\ stable' = stable /\ lev' = lev /\ trail' = trail
        /\ decisions' = decisions /\ reuse' = reuse
    BY <1>11 DEF Adjust, assignVars, BumpQueue, BumpScores, ReorderQueue, ReorderScores
  <2>2. level' = level /\ Active' = Active
    BY <1>3, <2>1 DEF level
  <2>3. StateTypes'
    BY <1>1, <2>1, <2>2 DEF StateTypes, UNASSIGNED
  <2>4. Levels'
    BY <1>2, <2>1, <2>2 DEF Levels, ACTIVE
  <2>5. Phases'
    <3>1. CASE pending = {v}
      BY <1>4, <2>1, <2>2, <3>1 DEF Phases
    <3>2. CASE pending # {v}
      <4>1. pending' # {}
        BY <2>1, <3>2
      <4> QED
        BY <1>4, <2>1, <2>2, <3>2, <4>1 DEF Phases
    <3> QED
      BY <3>1, <3>2
  <2> QED
    BY <2>3, <2>4, <2>5 DEF State
<1>12. CASE Compact
  <2>1. PICK dropped \in Droppable \ {{}} :
          /\ flags' = [v \in Vars |-> IF v \in dropped THEN "dropped" ELSE flags[v]]
          /\ lev' = [v \in Vars |-> IF v \in dropped THEN UNASSIGNED ELSE lev[v]]
    BY <1>12 DEF Compact
  <2>2. /\ pc = "search"
        /\ stable' = stable /\ trail' = trail /\ decisions' = decisions
        /\ pc' = pc /\ pending' = pending /\ reuse' = reuse
    BY <1>12 DEF Compact, modeVars, loopVars, Searching
  <2>3. \A v \in dropped : v \in Vars /\ flags[v] \in {"eliminated", "fixed"}
    BY DEF Droppable
  <2>4. level' = level /\ Active' = Active /\ pending = {}
    BY <1>1, <1>3, <1>4, <2>1, <2>2, <2>3 DEF level
  <2>5. StateTypes'
    <3>1. flags' \in [Vars -> {"new", "active", "fixed", "eliminated", "dropped"}]
      BY <1>1, <2>1
    <3>2. lev' \in [Vars -> {-1} \cup Nat]
      BY <1>1, <2>1 DEF UNASSIGNED
    <3> QED
      BY <1>1, <2>2, <2>4, <3>1, <3>2 DEF StateTypes, UNASSIGNED
  <2>6. Levels'
    <3>1. \A u \in Vars : u \notin dropped => flags'[u] = flags[u] /\ lev'[u] = lev[u]
      BY <2>1
    <3>2. \A u \in Vars : u \in dropped => flags'[u] = "dropped" /\ lev'[u] = -1
      BY <2>1 DEF UNASSIGNED
    <3>3. ASSUME NEW u \in Vars
          PROVE  /\ lev'[u] <= level
                 /\ lev'[u] = 0 <=> flags'[u] = "fixed"
                 /\ lev'[u] > 0 <=> u \in ToSet(trail)
                 /\ lev'[u] > 0 => flags'[u] = "active"
      <4>1. CASE u \in dropped
        <5>1. u \notin ToSet(trail)
          BY <1>2, <2>3, <4>1
        <5> QED
          BY <1>1, <3>2, <4>1, <5>1
      <4>2. CASE u \notin dropped
        BY <1>2, <3>1, <4>2
      <4> QED
        BY <4>1, <4>2
    <3>4. ASSUME NEW k \in 1..level
          PROVE  lev'[decisions[k]] = k
      <4>1. lev[decisions[k]] = k /\ decisions[k] \in Vars
        BY <1>1, <1>2
      <4>2. flags[decisions[k]] = "active"
        BY <1>1, <1>2, <4>1
      <4>3. decisions[k] \notin dropped
        BY <2>3, <4>2
      <4> QED
        BY <3>1, <4>1, <4>3
    <3> QED
      BY <2>2, <2>4, <3>3, <3>4 DEF Levels, ACTIVE
  <2>7. Phases'
    BY <1>4, <2>2, <2>4 DEF Phases
  <2> QED
    BY <2>5, <2>6, <2>7 DEF State
<1>13. CASE StartSearch
  <2>1. /\ pc = "parse" /\ pc' = "search" /\ stable' = (Stable = 2)
        /\ flags' = flags /\ lev' = lev /\ trail' = trail
        /\ decisions' = decisions /\ pending' = pending /\ reuse' = reuse
    BY <1>13 DEF StartSearch, assignVars
  <2>2. stable' \in BOOLEAN
    BY <2>1
  <2>3. level' = level /\ Active' = Active /\ pending = {}
    BY <1>3, <1>4, <2>1 DEF level
  <2>4. StateTypes'
    BY <1>1, <2>1, <2>2, <2>3 DEF StateTypes, UNASSIGNED
  <2>5. Levels'
    BY <1>2, <2>1, <2>3 DEF Levels, ACTIVE
  <2>6. Phases'
    BY <1>4, <2>1, <2>3 DEF Phases
  <2> QED
    BY <2>4, <2>5, <2>6 DEF State
<1>14. CASE SwitchSearchMode
  <2>1. /\ pc = "search" /\ pc' = pc /\ stable' = ~stable
        /\ flags' = flags /\ lev' = lev /\ trail' = trail
        /\ decisions' = decisions /\ pending' = pending /\ reuse' = reuse
    BY <1>14 DEF SwitchSearchMode, assignVars, loopVars, Searching
  <2>2. stable' \in BOOLEAN
    BY <2>1
  <2>3. level' = level /\ Active' = Active /\ pending = {}
    BY <1>3, <1>4, <2>1 DEF level
  <2>4. StateTypes'
    BY <1>1, <2>1, <2>2, <2>3 DEF StateTypes, UNASSIGNED
  <2>5. Levels'
    BY <1>2, <2>1, <2>3 DEF Levels, ACTIVE
  <2>6. Phases'
    BY <1>4, <2>1, <2>3 DEF Phases
  <2> QED
    BY <2>4, <2>5, <2>6 DEF State
<1>15. ASSUME NEW newLevel \in 0..(level - 1), Backtrack(newLevel)
       PROVE  State'
  <2>1. /\ pc = "search" /\ BacktrackTo(newLevel)
        /\ flags' = flags /\ stable' = stable
        /\ pc' = pc /\ pending' = pending /\ reuse' = reuse
    BY <1>15 DEF Backtrack, modeVars, loopVars, Searching
  <2>2. newLevel \in 0..level
    BY <1>1
  <2>3. /\ lev' \in [Vars -> {UNASSIGNED} \cup Nat]
        /\ trail' \in Seq(Vars)
        /\ decisions' \in Seq(Vars)
        /\ level' = newLevel
        /\ Levels'
    BY <2>1, <2>2, BacktrackedState
  <2>4. Active' = Active /\ pending = {}
    BY <1>3, <1>4, <2>1
  <2>5. StateTypes'
    BY <1>1, <2>1, <2>3, <2>4 DEF StateTypes
  <2>6. Phases'
    BY <1>4, <2>1, <2>2, <2>3, <2>4 DEF Phases
  <2> QED
    BY <2>3, <2>5, <2>6 DEF State
<1>16. CASE Restart
  <2>1. /\ pc = "restart" /\ BacktrackTo(reuse)
        /\ flags' = flags /\ stable' = stable
        /\ pc' = "search" /\ pending' = pending /\ reuse' = 0
    BY <1>16 DEF Restart, modeVars
  <2>2. /\ lev' \in [Vars -> {UNASSIGNED} \cup Nat]
        /\ trail' \in Seq(Vars)
        /\ decisions' \in Seq(Vars)
        /\ level' = reuse
        /\ Levels'
    BY <1>4, <2>1, BacktrackedState
  <2>3. Active' = Active /\ pending = {} /\ 0 \in 0..reuse
    BY <1>1, <1>3, <1>4, <2>1
  <2>4. StateTypes'
    BY <1>1, <2>1, <2>2, <2>3 DEF StateTypes
  <2>5. Phases'
    BY <1>4, <2>1, <2>2, <2>3 DEF Phases
  <2> QED
    BY <2>2, <2>4, <2>5 DEF State
<1>17. CASE StartBumping
  <2>1. /\ pc = "search" /\ pc' = "bump"
        /\ pending' \subseteq Active /\ pending' # {}
        /\ flags' = flags /\ stable' = stable /\ lev' = lev /\ trail' = trail
        /\ decisions' = decisions /\ reuse' = reuse
    BY <1>17 DEF StartBumping, modeVars, assignVars, Searching
  <2>2. level' = level /\ Active' = Active
    BY <1>3, <2>1 DEF level
  <2>3. StateTypes'
    BY <1>1, <2>1, <2>2 DEF StateTypes, UNASSIGNED
  <2>4. Levels'
    BY <1>2, <2>1, <2>2 DEF Levels, ACTIVE
  <2>5. Phases'
    BY <1>4, <2>1, <2>2 DEF Phases
  <2> QED
    BY <2>3, <2>4, <2>5 DEF State
<1>18. CASE StartReordering
  <2>1. /\ pc = "search" /\ pc' = "reorder"
        /\ pending' = Active /\ Active # {}
        /\ flags' = flags /\ stable' = stable /\ lev' = lev /\ trail' = trail
        /\ decisions' = decisions /\ reuse' = reuse
    BY <1>18 DEF StartReordering, assignVars, Searching
  <2>2. level' = level /\ Active' = Active
    BY <1>3, <2>1 DEF level
  <2>3. StateTypes'
    BY <1>1, <2>1, <2>2 DEF StateTypes, UNASSIGNED
  <2>4. Levels'
    BY <1>2, <2>1, <2>2 DEF Levels, ACTIVE
  <2>5. Phases'
    BY <1>4, <2>1, <2>2 DEF Phases
  <2> QED
    BY <2>3, <2>4, <2>5 DEF State
<1>19. CASE StartFactoring
  <2>1. /\ pc = "search" /\ pc' = "factor" /\ level = 0 /\ Active # {}
        /\ flags' = flags /\ stable' = stable /\ lev' = lev /\ trail' = trail
        /\ decisions' = decisions /\ pending' = pending /\ reuse' = reuse
    BY <1>19 DEF StartFactoring, modeVars, assignVars, Searching
  <2>2. level' = level /\ Active' = Active
    BY <1>3, <2>1 DEF level
  <2>3. StateTypes'
    BY <1>1, <2>1, <2>2 DEF StateTypes, UNASSIGNED
  <2>4. Levels'
    BY <1>2, <2>1, <2>2 DEF Levels, ACTIVE
  <2>5. Phases'
    BY <1>4, <2>1, <2>2 DEF Phases
  <2> QED
    BY <2>3, <2>4, <2>5 DEF State
<1>20. CASE FinishFactoring
  <2>1. /\ pc = "factor" /\ pc' = "search" /\ pending' = {}
        /\ flags' = flags /\ stable' = stable /\ lev' = lev /\ trail' = trail
        /\ decisions' = decisions /\ reuse' = reuse
    BY <1>20 DEF FinishFactoring, modeVars, assignVars
  <2>2. level' = level /\ Active' = Active
    BY <1>3, <2>1 DEF level
  <2>3. StateTypes'
    BY <1>1, <2>1, <2>2 DEF StateTypes, UNASSIGNED
  <2>4. Levels'
    BY <1>2, <2>1, <2>2 DEF Levels, ACTIVE
  <2>5. Phases'
    BY <1>4, <2>1, <2>2 DEF Phases
  <2> QED
    BY <2>3, <2>4, <2>5 DEF State
<1>21. CASE Satisfied \/ UNCHANGED vars
  BY <1>21, StateUnchanged DEF Satisfied, vars, modeVars, assignVars, loopVars
<1> QED
  BY <1>5, <1>6, <1>7, <1>8, <1>9, <1>10, <1>11, <1>12, <1>13, <1>14, <1>15, <1>16,
     <1>17, <1>18, <1>19, <1>20, <1>21 DEF Next

-----------------------------------------------------------------------------
(***************************************************************************)
(* The heap is ordered and complete, and its scores are bounded: while     *)
(* reordering adds to scores, those still to come are not above 1.0.       *)
(***************************************************************************)
Scores ==
  /\ scores \in Heaps(Vars)
  /\ Bounded(scores, 2 * MaxScore)
  /\ scinc \in 1..MaxScore
  /\ pc = "reorder" /\ stable => \A v \in pending : scores.score[v] <= Unit
  /\ HeapComplete

LEMMA ScoresInitially == Init => Scores
<1> SUFFICES ASSUME Init
             PROVE  Scores
  OBVIOUS
<1> DEFINE score == [v \in Vars |-> 0]
<1>1. score \in [Vars -> Nat]
  OBVIOUS
<1>2. scores = [stack |-> <<>>, score |-> score] /\ scinc = Unit /\ pc = "parse"
  BY DEF Init
<1>3. stable = FALSE
  BY DEF Init
<1>4. scores \in Heaps(Vars) /\ ToSet(<<>>) = {}
  <2> HIDE DEF score
  <2> QED
    BY <1>1, <1>2, EmptyHeap
<1>5. Bounded(scores, 2 * MaxScore)
  BY <1>2, ScoresAssumption DEF Bounded
<1>6. HeapComplete
  BY <1>2, <1>3, <1>4 DEF HeapComplete
<1> QED
  BY <1>2, <1>4, <1>5, <1>6, ScoresAssumption DEF Scores

LEMMA BoundedUpdate ==
  ASSUME NEW h \in Heaps(Vars), NEW g \in Heaps(Vars), NEW B \in Nat, Bounded(h, B),
         NEW v \in Vars, NEW n \in Nat, n <= B, g.score = [h.score EXCEPT ![v] = n]
  PROVE  Bounded(g, B)
<1>1. h.score \in [Vars -> Nat]
  BY DEF Heaps, HeapsOver
<1> QED
  BY <1>1 DEF Bounded

(* activate_literal. *)
LEMMA ActivatedScores ==
  ASSUME State, Scores, NEW v \in Vars, Activate(v)
  PROVE  /\ scores' \in Heaps(Vars)
         /\ Bounded(scores', 2 * MaxScore)
         /\ ToSet(scores'.stack) = ToSet(scores.stack) \cup (IF stable THEN {v} ELSE {})
<1> DEFINE started == {u \in Vars : flags[u] # "new"}
           activated == Cardinality(started) + 1
           n == Unit - Unit \div activated
           scored == UpdateHeap(scores, v, n)
<1>1. scores' = IF stable THEN PushHeap(scored, v) ELSE scored
  BY DEF Activate
<1>2. /\ scores \in Heaps(Vars) /\ Bounded(scores, 2 * MaxScore)
      /\ ToSet(scores.stack) \subseteq Active
  BY DEF Scores, HeapComplete
<1>3. /\ Unit \in Nat /\ MaxScore \in Nat /\ Unit <= MaxScore /\ 2 * MaxScore \in Nat
      /\ Unit <= 2 * MaxScore
  BY ScoresAssumption
<1>4. activated \in Nat /\ activated > 0
  <2>1. IsFiniteSet(started)
    BY QueueVarsAssumption, FS_Subset
  <2> HIDE DEF started
  <2> QED
    BY <2>1, FS_CardinalityType
<1> HIDE DEF activated
<1>5. (1 * Unit) \div activated \in Nat /\ (1 * Unit) \div activated <= Unit
  BY <1>3, <1>4, ScaledDown
<1>6. n \in Nat /\ n <= Unit
  BY <1>3, <1>5
<1> HIDE DEF n
<1>7. /\ scored \in Heaps(Vars)
      /\ scored.score = [scores.score EXCEPT ![v] = n]
      /\ ToSet(scored.stack) = ToSet(scores.stack)
  BY <1>2, <1>6, Updated
<1> HIDE DEF scored
<1>8. Bounded(scored, 2 * MaxScore)
  <2>1. n <= 2 * MaxScore
    BY <1>3, <1>6
  <2> QED
    BY <1>2, <1>3, <1>6, <1>7, <2>1, BoundedUpdate
<1>9. ~HeapContains(scored, v)
  <2>1. v \notin Active
    BY DEF Activate, Active, ACTIVE
  <2> QED
    BY <1>2, <1>7, <2>1 DEF HeapContains
<1>10. CASE stable
  <2> DEFINE r == PushHeap(scored, v)
  <2>1. /\ r \in Heaps(Vars)
        /\ r.score = scored.score
        /\ ToSet(r.stack) = ToSet(scored.stack) \cup {v}
    BY <1>7, <1>9, Pushed
  <2>2. scores' = r
    BY <1>1, <1>10
  <2> HIDE DEF r
  <2> QED
    BY <1>7, <1>8, <1>10, <2>1, <2>2 DEF Bounded
<1>11. CASE ~stable
  BY <1>1, <1>7, <1>8, <1>11
<1> QED
  BY <1>10, <1>11

(* deactivate_variable. *)
LEMMA DeactivatedScores ==
  ASSUME Scores, NEW v \in Vars, Deactivate(v)
  PROVE  /\ scores' \in Heaps(Vars)
         /\ Bounded(scores', 2 * MaxScore)
         /\ ToSet(scores'.stack) = ToSet(scores.stack) \ {v}
<1>1. /\ scores \in Heaps(Vars) /\ Bounded(scores, 2 * MaxScore)
      /\ scores' = IF HeapContains(scores, v) THEN PopHeap(scores, v) ELSE scores
  BY DEF Scores, Deactivate
<1>2. CASE HeapContains(scores, v)
  <2>1. LET g == PopHeap(scores, v)
        IN  /\ g \in Heaps(Vars)
            /\ g.score = scores.score
            /\ ToSet(g.stack) = ToSet(scores.stack) \ {v}
    BY <1>1, <1>2, Popped
  <2>2. scores' = PopHeap(scores, v)
    BY <1>1, <1>2
  <2> QED
    BY <1>1, <2>1, <2>2 DEF Bounded
<1>3. CASE ~HeapContains(scores, v)
  BY <1>1, <1>3 DEF HeapContains
<1> QED
  BY <1>2, <1>3

(***************************************************************************)
(* The heap after looking for the next decision: it lost assigned elements *)
(* only.  In stable mode v, the first one on it then, is the best one.     *)
(***************************************************************************)
LEMMA DecisionScores ==
  ASSUME State, Scores, Unassigned # {}, NEW v, NextDecisionVariable(v)
  PROVE  /\ scores' \in Heaps(Vars)
         /\ Bounded(scores', 2 * MaxScore)
         /\ scores'.score = scores.score
         /\ ToSet(scores'.stack) \subseteq ToSet(scores.stack)
         /\ stable => Unassigned \subseteq ToSet(scores'.stack)
         /\ stable /\ NextByHeuristic(v) =>
              /\ v \in Unassigned
              /\ \A u \in Unassigned : scores.score[u] <= scores.score[v]
<1>1. /\ scores \in Heaps(Vars) /\ Bounded(scores, 2 * MaxScore)
      /\ ToSet(scores.stack) \subseteq Active
      /\ stable => Unassigned \subseteq ToSet(scores.stack)
  BY DEF Scores, HeapComplete
<1>2. CASE scores' = scores /\ ~ (stable /\ NextByHeuristic(v))
  BY <1>1, <1>2
<1>3. CASE stable /\ NextByHeuristic(v)
  <2> DEFINE g == PopAssigned(scores)
  <2>1. scores' = g /\ v = MaxHeap(g)
    BY <1>3 DEF NextByHeuristic
  <2>2. ToSet(scores.stack) \ Assigned # {}
    BY <1>1, <1>3 DEF Unassigned
  <2>3. /\ Skipped(g, scores)
        /\ MaxHeap(g) \in ToSet(g.stack) \ Assigned
    BY <1>1, <2>2, PoppedAssigned
  <2> HIDE DEF g
  <2>4. /\ g \in Heaps(Vars)
        /\ g.score = scores.score
        /\ ToSet(g.stack) \subseteq ToSet(scores.stack)
        /\ ToSet(scores.stack) \ Assigned \subseteq ToSet(g.stack)
    BY <2>3 DEF Skipped
  <2>5. Unassigned \subseteq ToSet(g.stack)
    BY <1>1, <1>3, <2>4 DEF Unassigned
  <2>6. v \in Unassigned
    BY <1>1, <2>1, <2>3, <2>4 DEF Unassigned
  <2>7. \A u \in ToSet(g.stack) : g.score[u] <= g.score[v]
    <3>1. g.stack # <<>>
      BY <2>3, <2>4, NotEmptyHeap
    <3> QED
      BY <2>1, <2>4, <3>1, PoppedMax
  <2>8. Bounded(g, 2 * MaxScore)
    BY <1>1, <2>4 DEF Bounded
  <2> QED
    BY <2>1, <2>4, <2>5, <2>6, <2>7, <2>8
<1>4. scores' = scores \/ (stable /\ NextByHeuristic(v))
  BY DEF NextDecisionVariable, NextAtRandom, NextByHeuristic
<1> QED
  BY <1>2, <1>3, <1>4

(* kissat_backtrack_without_updating_phases. *)
LEMMA BacktrackedScores ==
  ASSUME State, Scores, NEW newLevel \in 0..level, BacktrackTo(newLevel),
         UNCHANGED <<flags, stable>>
  PROVE  /\ scores' \in Heaps(Vars)
         /\ Bounded(scores', 2 * MaxScore)
         /\ HeapComplete'
<1> DEFINE kept == {v \in Vars : Keeps(newLevel, v)}
           unassigned == Among(trail, Vars \ kept)
<1>1. /\ scores \in Heaps(Vars) /\ Bounded(scores, 2 * MaxScore)
      /\ ToSet(scores.stack) \subseteq Active
      /\ stable => Unassigned \subseteq ToSet(scores.stack)
  BY DEF Scores, HeapComplete
<1>2. /\ lev' = [v \in Vars |-> IF v \in kept THEN lev[v] ELSE UNASSIGNED]
      /\ scores' = IF stable THEN FoldLeft(PushBack, scores, unassigned) ELSE scores
  BY DEF BacktrackTo
<1>3. /\ trail \in Seq(Vars)
      /\ newLevel \in Nat
      /\ \A v \in Vars : lev[v] \in {-1} \cup Nat
      /\ \A v \in Vars : lev[v] > 0 <=> v \in ToSet(trail)
      /\ \A v \in Vars : lev[v] > 0 => v \in Active
      /\ \A v \in Vars : v \in kept <=> lev[v] <= newLevel
  BY DEF State, StateTypes, Levels, Active, UNASSIGNED, Keeps, level
<1>4. Active' = Active
  BY DEF Active, ACTIVE
<1> HIDE DEF kept
<1>5. unassigned \in Seq(Vars) /\ ToSet(unassigned) = ToSet(trail) \cap (Vars \ kept)
  BY <1>3, AmongFacts
<1>6. ToSet(unassigned) \subseteq Active
  BY <1>3, <1>5
<1>7. \A v \in Vars : v \notin kept => v \in ToSet(unassigned)
  <2>1. \A v \in Vars : v \notin kept => lev[v] > 0
    BY <1>3
  <2> HIDE DEF unassigned
  <2> QED
    BY <1>3, <1>5, <2>1
<1>8. Unassigned' \subseteq Unassigned \cup ToSet(unassigned)
  <2> SUFFICES ASSUME NEW v \in Active, lev'[v] = UNASSIGNED
               PROVE  v \in Unassigned \cup ToSet(unassigned)
    BY <1>4 DEF Unassigned, Assigned, Active
  <2>1. v \in Vars
    BY DEF Active
  <2>2. CASE v \in kept
    <3>1. lev[v] = UNASSIGNED
      BY <1>2, <2>1, <2>2
    <3> QED
      BY <2>1, <3>1 DEF Unassigned, Assigned
  <2>3. CASE v \notin kept
    BY <1>7, <2>1, <2>3
  <2> QED
    BY <2>2, <2>3
<1> HIDE DEF unassigned
<1>9. CASE stable
  <2> DEFINE g == FoldLeft(PushBack, scores, unassigned)
  <2>1. /\ g \in Heaps(Vars)
        /\ g.score = scores.score
        /\ ToSet(g.stack) = ToSet(scores.stack) \cup ToSet(unassigned)
    BY <1>1, <1>5, AllPushedBack
  <2>2. scores' = g
    BY <1>2, <1>9
  <2> HIDE DEF g
  <2>3. Bounded(scores', 2 * MaxScore)
    BY <1>1, <2>1, <2>2 DEF Bounded
  <2>4. HeapComplete'
    BY <1>1, <1>4, <1>6, <1>8, <1>9, <2>1, <2>2 DEF HeapComplete
  <2> QED
    BY <2>1, <2>2, <2>3, <2>4
<1>10. CASE ~stable
  <2>1. scores' = scores
    BY <1>2, <1>10
  <2> QED
    BY <1>1, <1>4, <1>10, <2>1 DEF HeapComplete
<1> QED
  BY <1>9, <1>10

LEMMA ScoresInductive ==
  ASSUME State, Scores, Ordered(queue, Active), [Next]_vars,
         \A v \in Vars : MakeDecision(v) => v \in Unassigned
  PROVE  Scores'
<1>1. /\ scores \in Heaps(Vars) /\ Bounded(scores, 2 * MaxScore)
      /\ scinc \in 1..MaxScore
      /\ pc = "reorder" /\ stable => \A v \in pending : scores.score[v] <= Unit
      /\ ToSet(scores.stack) \subseteq Active
      /\ stable => Unassigned \subseteq ToSet(scores.stack)
  BY DEF Scores, HeapComplete
<1>2. /\ stable \in BOOLEAN /\ pending \subseteq Active /\ Active \subseteq Vars
      /\ flags \in [Vars -> {"new", "active", "fixed", "eliminated", "dropped"}]
      /\ lev \in [Vars -> {UNASSIGNED} \cup Nat]
  BY DEF State, StateTypes, Active
<1>3. /\ Active = {v \in Vars : flags[v] = "active"}
      /\ Active' = {v \in Vars : flags'[v] = "active"}
      /\ Unassigned = {v \in Active : lev[v] = UNASSIGNED}
      /\ Unassigned' = {v \in Active' : lev'[v] = UNASSIGNED}
  BY DEF Active, ACTIVE, Unassigned, Assigned
<1>4. /\ Unit \in Nat \ {0} /\ MaxScore \in Nat /\ Unit <= MaxScore
      /\ 2 * MaxScore \in Nat
      /\ scores.score \in [Vars -> Nat]
  BY <1>1, ScoresAssumption DEF Heaps, HeapsOver
<1>5. /\ pc = "parse" => ~stable
      /\ pc \in {"bump", "reorder"} => pending # {}
  BY DEF State, Phases
<1>6. ASSUME NEW v \in Vars, Activate(v)
      PROVE  Scores'
  <2>1. /\ pc \in {"parse", "factor"} /\ flags[v] = "new"
        /\ flags' = [flags EXCEPT ![v] = "active"]
        /\ stable' = stable /\ scinc' = scinc /\ lev' = lev /\ pc' = pc
    BY <1>6 DEF Activate, modeVars, assignVars
  <2>2. /\ scores' \in Heaps(Vars)
        /\ Bounded(scores', 2 * MaxScore)
        /\ ToSet(scores'.stack) = ToSet(scores.stack) \cup (IF stable THEN {v} ELSE {})
    BY <1>6, ActivatedScores
  <2>3. Active' = Active \cup {v}
    BY <1>2, <1>3, <2>1
  <2>4. Unassigned' \subseteq Unassigned \cup {v}
    BY <1>3, <2>1, <2>3
  <2>5. HeapComplete'
    BY <1>1, <2>1, <2>2, <2>3, <2>4 DEF HeapComplete
  <2> QED
    BY <1>1, <2>1, <2>2, <2>5 DEF Scores
<1>7. ASSUME NEW v \in Vars, Fix(v) \/ Eliminate(v)
      PROVE  Scores'
  <2>1. /\ pc \in {"parse", "search"} /\ v \in Unassigned /\ Deactivate(v)
        /\ stable' = stable /\ scinc' = scinc /\ pc' = pc
        /\ flags' = [flags EXCEPT ![v] = "fixed"] \/ flags' = [flags EXCEPT ![v] = "eliminated"]
        /\ lev' = [lev EXCEPT ![v] = 0] \/ lev' = lev
    BY <1>7 DEF Fix, Eliminate, modeVars, loopVars, assignVars, Searching
  <2>2. /\ scores' \in Heaps(Vars)
        /\ Bounded(scores', 2 * MaxScore)
        /\ ToSet(scores'.stack) = ToSet(scores.stack) \ {v}
    BY <2>1, DeactivatedScores
  <2>3. \A u \in Vars : u # v => flags'[u] = flags[u] /\ lev'[u] = lev[u]
    BY <1>2, <2>1
  <2>4. flags'[v] # "active"
    BY <1>2, <2>1
  <2>5. Active' = Active \ {v} /\ Unassigned' = Unassigned \ {v}
    BY <1>3, <2>3, <2>4
  <2>6. HeapComplete'
    BY <1>1, <2>1, <2>2, <2>5 DEF HeapComplete
  <2> QED
    BY <1>1, <2>1, <2>2, <2>6 DEF Scores
<1>8. ASSUME NEW v \in Vars, MakeDecision(v)
      PROVE  Scores'
  <2>1. /\ pc = "search" /\ v \in Unassigned /\ Unassigned # {} /\ NextDecisionVariable(v)
        /\ lev' = [lev EXCEPT ![v] = level + 1]
        /\ flags' = flags /\ stable' = stable /\ scinc' = scinc /\ pc' = pc
    BY <1>8 DEF MakeDecision, modeVars, loopVars, Searching
  <2>2. /\ scores' \in Heaps(Vars)
        /\ Bounded(scores', 2 * MaxScore)
        /\ ToSet(scores'.stack) \subseteq ToSet(scores.stack)
        /\ stable => Unassigned \subseteq ToSet(scores'.stack)
    BY <2>1, DecisionScores
  <2>3. level + 1 # UNASSIGNED
    BY DEF State, StateTypes, level, UNASSIGNED
  <2>4. Active' = Active /\ Unassigned' \subseteq Unassigned
    BY <1>2, <1>3, <2>1, <2>3
  <2>5. HeapComplete'
    BY <1>1, <2>1, <2>2, <2>4 DEF HeapComplete
  <2> QED
    BY <1>1, <2>1, <2>2, <2>5 DEF Scores
<1>9. ASSUME NEW v \in Vars, NEW l \in 1..level, Imply(v, l)
      PROVE  Scores'
  <2>1. /\ pc = "search" /\ v \in Unassigned
        /\ lev' = [lev EXCEPT ![v] = l]
        /\ flags' = flags /\ stable' = stable /\ scinc' = scinc /\ pc' = pc
        /\ scores' = scores
    BY <1>9 DEF Imply, modeVars, loopVars, Searching
  <2>2. l # UNASSIGNED
    BY DEF State, StateTypes, level, UNASSIGNED
  <2>3. Active' = Active /\ Unassigned' \subseteq Unassigned
    BY <1>2, <1>3, <2>1, <2>2
  <2>4. HeapComplete'
    BY <1>1, <2>1, <2>3 DEF HeapComplete
  <2> QED
    BY <1>1, <2>1, <2>4 DEF Scores
<1>10. ASSUME NEW v \in Vars, ReuseTrail(v)
       PROVE  Scores'
  <2>1. /\ Unassigned # {} /\ NextDecisionVariable(v)
        /\ lev' = lev /\ flags' = flags /\ stable' = stable /\ scinc' = scinc
        /\ pc' = "restart"
    BY <1>10 DEF ReuseTrail, modeVars, assignVars
  <2>2. /\ scores' \in Heaps(Vars)
        /\ Bounded(scores', 2 * MaxScore)
        /\ ToSet(scores'.stack) \subseteq ToSet(scores.stack)
        /\ stable => Unassigned \subseteq ToSet(scores'.stack)
    BY <2>1, DecisionScores
  <2>3. Active' = Active /\ Unassigned' = Unassigned
    BY <1>3, <2>1
  <2>4. HeapComplete'
    BY <1>1, <2>1, <2>2, <2>3 DEF HeapComplete
  <2> QED
    BY <1>1, <2>1, <2>2, <2>4 DEF Scores
<1>11. ASSUME NEW v \in Vars, Adjust(v)
       PROVE  Scores'
  <2>1. /\ pending' = pending \ {v}
        /\ pc' = IF pending = {v} THEN "search" ELSE pc
        /\ flags' = flags /\ stable' = stable /\ lev' = lev
    BY <1>11 DEF Adjust, assignVars
  <2>2. Active' = Active /\ Unassigned' = Unassigned
    BY <1>3, <2>1
  <2>3. CASE BumpQueue(v) \/ ReorderQueue(v)
    <3>1. scores' = scores /\ scinc' = scinc /\ ~stable
      BY <2>3 DEF BumpQueue, ReorderQueue
    <3>2. HeapComplete'
      BY <1>1, <2>1, <2>2, <3>1 DEF HeapComplete
    <3> QED
      BY <1>1, <2>1, <3>1, <3>2 DEF Scores
  <2>4. CASE BumpScores(v)
    <3> DEFINE bumped == BumpedScore(scores, scinc, v)
               final == BumpedIncrement(bumped.heap, bumped.inc)
               last == IF pending = {v} THEN final ELSE bumped
    <3>1. pc = "bump" /\ scores' = last.heap /\ scinc' = last.inc
      BY <2>4 DEF BumpScores
    <3>2. /\ bumped.heap \in Heaps(Vars)
          /\ Bounded(bumped.heap, 2 * MaxScore)
          /\ bumped.inc \in 1..MaxScore
          /\ ToSet(bumped.heap.stack) = ToSet(scores.stack)
      BY <1>1, BumpedFacts
    <3> HIDE DEF bumped
    <3>3. /\ final.heap \in Heaps(Vars)
          /\ Bounded(final.heap, 2 * MaxScore)
          /\ final.inc \in 1..MaxScore
          /\ ToSet(final.heap.stack) = ToSet(bumped.heap.stack)
      BY <3>2, IncrementFacts
    <3> HIDE DEF final
    <3>4. /\ scores' \in Heaps(Vars)
          /\ Bounded(scores', 2 * MaxScore)
          /\ scinc' \in 1..MaxScore
          /\ ToSet(scores'.stack) = ToSet(scores.stack)
      <4>1. CASE pending = {v}
        BY <3>1, <3>2, <3>3, <4>1
      <4>2. CASE pending # {v}
        BY <3>1, <3>2, <4>2
      <4> QED
        BY <4>1, <4>2
    <3>5. pc' # "reorder"
      BY <2>1, <3>1
    <3> HIDE DEF last
    <3>6. HeapComplete'
      BY <1>1, <2>1, <2>2, <3>4 DEF HeapComplete
    <3> QED
      BY <3>4, <3>5, <3>6 DEF Scores
  <2>5. CASE ReorderScores(v)
    <3>1. /\ pc = "reorder" /\ stable /\ v \in pending /\ scinc' = scinc
          /\ \E weight \in {0, Unit} :
               scores' = UpdateHeap(scores, v, scores.score[v] + weight)
      BY <2>5 DEF ReorderScores
    <3>2. PICK weight \in {0, Unit} : scores' = UpdateHeap(scores, v, scores.score[v] + weight)
      BY <3>1
    <3> DEFINE n == scores.score[v] + weight
    <3>3. n \in Nat /\ n <= 2 * MaxScore
      BY <1>1, <1>4, <3>1
    <3> HIDE DEF n
    <3>4. /\ scores' \in Heaps(Vars)
          /\ scores'.score = [scores.score EXCEPT ![v] = n]
          /\ ToSet(scores'.stack) = ToSet(scores.stack)
      <4>1. LET g == UpdateHeap(scores, v, n)
            IN  /\ g \in Heaps(Vars)
                /\ g.score = [scores.score EXCEPT ![v] = n]
                /\ ToSet(g.stack) = ToSet(scores.stack)
        BY <1>1, <3>3, Updated
      <4>2. scores' = UpdateHeap(scores, v, n)
        BY <3>2 DEF n
      <4> QED
        BY <4>1, <4>2
    <3>5. Bounded(scores', 2 * MaxScore)
      BY <1>1, <1>4, <3>3, <3>4, BoundedUpdate
    <3>6. \A u \in pending' : scores'.score[u] <= Unit
      BY <1>1, <1>2, <1>4, <2>1, <3>1, <3>4
    <3>7. HeapComplete'
      BY <1>1, <2>1, <2>2, <3>4 DEF HeapComplete
    <3> QED
      BY <1>1, <3>1, <3>4, <3>5, <3>6, <3>7 DEF Scores
  <2> QED
    BY <1>11, <2>3, <2>4, <2>5 DEF Adjust
<1>12. CASE Compact
  <2>1. PICK dropped \in Droppable \ {{}} :
          /\ flags' = [v \in Vars |-> IF v \in dropped THEN "dropped" ELSE flags[v]]
          /\ lev' = [v \in Vars |-> IF v \in dropped THEN UNASSIGNED ELSE lev[v]]
          /\ scores' = CompactHeap(scores, dropped)
    BY <1>12 DEF Compact
  <2>2. pc = "search" /\ pc' = pc /\ stable' = stable /\ scinc' = scinc
    BY <1>12 DEF Compact, modeVars, loopVars, Searching
  <2>3. \A v \in dropped : flags[v] \in {"eliminated", "fixed"}
    BY DEF Droppable
  <2>4. Active' = Active
    BY <1>2, <1>3, <2>1, <2>3
  <2>5. Unassigned' = Unassigned
    BY <1>3, <2>1, <2>3, <2>4
  <2>6. /\ scores' \in Heaps(Vars)
        /\ scores'.score = [v \in Vars |-> IF v \in dropped THEN 0 ELSE scores.score[v]]
        /\ ToSet(scores'.stack) = ToSet(scores.stack)
    <3>1. LET g == CompactHeap(scores, dropped)
          IN  /\ g \in Heaps(Vars)
              /\ g.score = [v \in Vars |-> IF v \in dropped THEN 0 ELSE scores.score[v]]
              /\ ToSet(g.stack) = ToSet(scores.stack)
      BY <1>1, Compacted
    <3> QED
      BY <2>1, <3>1
  <2>7. Bounded(scores', 2 * MaxScore)
    BY <1>1, <1>4, <2>6 DEF Bounded
  <2>8. HeapComplete'
    BY <1>1, <2>2, <2>4, <2>5, <2>6 DEF HeapComplete
  <2> QED
    BY <1>1, <2>2, <2>6, <2>7, <2>8 DEF Scores
<1>13. CASE StartSearch \/ SwitchSearchMode
  <2>1. /\ pc' = "search" /\ scinc' = scinc
        /\ flags' = flags /\ lev' = lev
        /\ \/ scores' = scores /\ (stable' => stable)
           \/ scores' \in UpdatedScores(scores)
    <3>1. CASE StartSearch
      BY <3>1 DEF StartSearch, assignVars
    <3>2. CASE SwitchSearchMode
      BY <1>2, <3>2 DEF SwitchSearchMode, assignVars, loopVars, Searching
    <3> QED
      BY <1>13, <3>1, <3>2
  <2>2. Active' = Active /\ Unassigned' = Unassigned /\ Unassigned \subseteq Active
    BY <1>3, <2>1
  <2>3. CASE scores' = scores /\ (stable' => stable)
    <3>1. HeapComplete'
      BY <1>1, <2>2, <2>3 DEF HeapComplete
    <3> QED
      BY <1>1, <2>1, <2>3, <3>1 DEF Scores
  <2>4. CASE scores' \in UpdatedScores(scores)
    <3>1. /\ scores' \in Heaps(Vars)
          /\ scores'.score = scores.score
          /\ ToSet(scores'.stack) = ToSet(scores.stack) \cup Active
      BY <1>1, <2>4, HeapCompleted
    <3>2. Bounded(scores', 2 * MaxScore)
      BY <1>1, <3>1 DEF Bounded
    <3>3. HeapComplete'
      BY <1>1, <2>2, <3>1 DEF HeapComplete
    <3> QED
      BY <1>1, <2>1, <3>1, <3>2, <3>3 DEF Scores
  <2> QED
    BY <2>1, <2>3, <2>4
<1>14. ASSUME NEW newLevel \in 0..level, BacktrackTo(newLevel), pc' = "search",
              UNCHANGED <<flags, modeVars>>
       PROVE  Scores'
  <2>1. flags' = flags /\ stable' = stable /\ scinc' = scinc
    BY <1>14 DEF modeVars
  <2>2. /\ scores' \in Heaps(Vars)
        /\ Bounded(scores', 2 * MaxScore)
        /\ HeapComplete'
    BY <1>14, <2>1, BacktrackedScores
  <2> QED
    BY <1>1, <1>14, <2>1, <2>2 DEF Scores
<1>15. ASSUME NEW newLevel \in 0..(level - 1), Backtrack(newLevel)
       PROVE  Scores'
  <2>1. newLevel \in 0..level
    BY DEF State, StateTypes, level
  <2> QED
    BY <1>14, <1>15, <2>1 DEF Backtrack, loopVars, Searching
<1>16. CASE Restart
  <2>1. reuse \in 0..level
    BY DEF State, Phases
  <2> QED
    BY <1>14, <1>16, <2>1 DEF Restart
<1>17. CASE StartReordering
  <2>1. /\ Active # {} /\ pending' = Active /\ pc' = "reorder"
        /\ LET rescaled == RescaledIf(stable, scores, scinc)
           IN  scores' = rescaled.heap /\ scinc' = rescaled.inc
        /\ flags' = flags /\ lev' = lev /\ stable' = stable
    BY <1>17 DEF StartReordering, assignVars
  <2>2. Active' = Active /\ Unassigned' = Unassigned
    BY <1>3, <2>1
  <2>3. CASE stable
    <3> DEFINE r == Rescaled(scores, scinc)
    <3>1. scores' = r.heap /\ scinc' = r.inc
      BY <2>1, <2>3 DEF RescaledIf
    <3>2. scinc \in Nat \ {0} /\ Vars # {}
      BY <1>1, <1>2, <1>4, <2>1
    <3>3. /\ r.heap \in Heaps(Vars)
          /\ r.heap.stack = scores.stack
          /\ Bounded(r.heap, Unit)
          /\ r.inc \in 1..MaxScore
      BY <1>1, <1>4, <3>2, RescaledFacts
    <3> HIDE DEF r
    <3>4. r.heap.score \in [Vars -> Nat]
      BY <3>3 DEF Heaps, HeapsOver
    <3>5. Bounded(scores', 2 * MaxScore)
      BY <1>4, <3>1, <3>3, <3>4 DEF Bounded
    <3>6. \A v \in pending' : scores'.score[v] <= Unit
      BY <1>2, <2>1, <3>1, <3>3 DEF Bounded
    <3>7. HeapComplete'
      BY <1>1, <2>1, <2>2, <3>1, <3>3 DEF HeapComplete
    <3> QED
      BY <3>1, <3>3, <3>5, <3>6, <3>7 DEF Scores
  <2>4. CASE ~stable
    <3>1. scores' = scores /\ scinc' = scinc
      BY <2>1, <2>4 DEF RescaledIf
    <3>2. HeapComplete'
      BY <1>1, <2>1, <2>2, <3>1 DEF HeapComplete
    <3> QED
      BY <1>1, <2>1, <2>4, <3>1, <3>2 DEF Scores
  <2> QED
    BY <2>3, <2>4
<1>18. CASE FinishFactoring
  <2> DEFINE fresh == Among(Order(queue), pending)
             seq == Reverse(fresh)
  <2>1. /\ scores' = FoldLeft(ResetScore, scores, seq)
        /\ pc' = "search"
        /\ flags' = flags /\ lev' = lev /\ stable' = stable /\ scinc' = scinc
    BY <1>18 DEF FinishFactoring, modeVars, assignVars
  <2>2. Active' = Active /\ Unassigned' = Unassigned
    BY <1>3, <2>1
  <2>3. seq \in Seq(Vars)
    <3>1. Order(queue) \in Seq(Vars)
      BY OrderedSequence DEF Linked
    <3>2. fresh \in Seq(Vars)
      BY <3>1, AmongFacts
    <3> HIDE DEF fresh
    <3> QED
      BY <3>2 DEF Reverse
  <2> HIDE DEF seq
  <2>4. /\ scores' \in Heaps(Vars)
        /\ \A v \in Vars : scores'.score[v] <= scores.score[v]
        /\ ToSet(scores'.stack) = ToSet(scores.stack)
    BY <1>1, <2>1, <2>3, AllReset
  <2>5. Bounded(scores', 2 * MaxScore)
    <3>1. scores'.score \in [Vars -> Nat]
      BY <2>4 DEF Heaps, HeapsOver
    <3>2. ASSUME NEW v \in Vars
          PROVE  scores'.score[v] <= 2 * MaxScore
      <4>1. scores'.score[v] \in Nat /\ scores.score[v] \in Nat /\ scores.score[v] <= 2 * MaxScore
        BY <1>1, <1>4, <3>1 DEF Bounded
      <4> QED
        BY <1>4, <2>4, <4>1
    <3> QED
      BY <3>2 DEF Bounded
  <2>6. HeapComplete'
    BY <1>1, <2>1, <2>2, <2>4 DEF HeapComplete
  <2> QED
    BY <1>1, <2>1, <2>4, <2>5, <2>6 DEF Scores
<1>19. CASE StartBumping \/ StartFactoring \/ Satisfied \/ UNCHANGED vars
  <2>1. /\ scores' = scores /\ scinc' = scinc /\ stable' = stable
        /\ flags' = flags /\ lev' = lev
        /\ pc' # "reorder" \/ (pc' = pc /\ pending' = pending)
    BY <1>19 DEF StartBumping, StartFactoring, Satisfied, vars, modeVars, assignVars,
         loopVars
  <2>2. Active' = Active /\ Unassigned' = Unassigned
    BY <1>3, <2>1
  <2>3. HeapComplete'
    BY <1>1, <2>1, <2>2 DEF HeapComplete
  <2> QED
    BY <1>1, <2>1, <2>3 DEF Scores
<1> QED
  BY <1>6, <1>7, <1>8, <1>9, <1>10, <1>11, <1>12, <1>13, <1>15, <1>16, <1>17, <1>18,
     <1>19 DEF Next

-----------------------------------------------------------------------------
(***************************************************************************)
(* The queue keeps what Vmtf promises: the same substitution as Abstract,  *)
(* and the theorems about Vmtf with it.                                    *)
(***************************************************************************)
Promise == INSTANCE VmtfProofs WITH
  fresh    <- Fresh,
  created  <- Created,
  enqueued <- Active,
  assigned <- Valued,
  stamp    <- Stamps,
  last     <- queue.stamp,
  search   <- queue.search

LEMMA SameCardinality ==
  ASSUME NEW S
  PROVE  Promise!Cardinality(S) = Cardinality(S)
BY DEF Promise!Cardinality, Cardinality

LEMMA AbstractFacts ==
  ASSUME State, Ordered(queue, Active)
  PROVE  /\ Active \in SUBSET Vars /\ queue \in Queues
         /\ Stamps \in [Vars -> Nat]
         /\ \A v \in Vars : Stamps[v] = StampOf(queue, v)
         /\ Fresh \in SUBSET Vars /\ Active \subseteq Vars \ Fresh
         /\ Created \subseteq Active /\ Valued \subseteq Active
         /\ Unassigned = Active \ Valued
<1>1. Active \in SUBSET Vars /\ queue \in Queues
  BY OrderedType
<1>2. \A v \in Vars : StampOf(queue, v) \in Nat
  BY <1>1, StampType
<1>3. Stamps \in [Vars -> Nat] /\ \A v \in Vars : Stamps[v] = StampOf(queue, v)
  BY <1>2 DEF Stamps, StampOf
<1>4. /\ Fresh \in SUBSET Vars /\ Active \subseteq Vars \ Fresh
      /\ Valued \subseteq Active
      /\ Unassigned = Active \ Valued
  BY <1>1 DEF Fresh, Active, ACTIVE, Valued, Unassigned
<1>5. Created \subseteq Active
  BY DEF State, StateTypes, Created
<1> QED
  BY <1>1, <1>3, <1>4, <1>5

LEMMA PromiseInvariant ==
  ASSUME State, Ordered(queue, Active), SearchSound
  PROVE  Promise!IInv
<1>1. /\ Active \in SUBSET Vars /\ queue \in Queues
      /\ Stamps \in [Vars -> Nat]
      /\ \A v \in Vars : Stamps[v] = StampOf(queue, v)
      /\ Fresh \in SUBSET Vars /\ Active \subseteq Vars \ Fresh
      /\ Created \subseteq Active /\ Valued \subseteq Active
      /\ Unassigned = Active \ Valued
  BY AbstractFacts
<1>2. /\ queue.stamp \in 0..MaxStamp
      /\ queue.search.idx \in Elements /\ queue.search.stamp \in 0..MaxStamp
      /\ queue.search = [idx |-> queue.search.idx, stamp |-> queue.search.stamp]
  BY <1>1, QueueType
<1>3. stable \in BOOLEAN /\ queue.search.stamp \in Nat
  BY <1>2, MaxStampAssumption DEF State, StateTypes
<1>4. queue.search \in [idx : Vars \cup {DISCONNECT}, stamp : Nat]
  BY <1>2, <1>3 DEF Elements
<1>5. Promise!TypeOK
  BY <1>1, <1>2, <1>3, <1>4 DEF Promise!TypeOK
<1>6. Promise!StampsOrder
  BY <1>1, OrderedStamps DEF Promise!StampsOrder
<1>7. Promise!SearchCached
  BY <1>1 DEF Promise!SearchCached, SearchSound, StampOf
<1>8. Promise!SearchPointer
  <2>1. Active = {} => Unassigned = {}
    BY DEF Unassigned
  <2> QED
    BY <1>1, <2>1 DEF Promise!SearchPointer, Promise!Unassigned, SearchSound, StampOf
<1> QED
  BY <1>5, <1>6, <1>7, <1>8 DEF Promise!IInv

LEMMA PromiseKept ==
  ASSUME Promise!IInv'
  PROVE  SearchSound'
<1>1. /\ Active' \subseteq Vars
      /\ \A v \in Vars : Stamps'[v] = queue'.links[v].stamp
      /\ Unassigned' = Active' \ Valued' /\ Unassigned' \subseteq Active'
  BY DEF Active, Stamps, Unassigned, Valued
<1>2. Promise!SearchCached' /\ Promise!SearchPointer'
  BY DEF Promise!IInv
<1>3. /\ Active' = {} => queue'.search.idx = DISCONNECT
      /\ Active' # {} => /\ queue'.search.idx \in Active'
                         /\ queue'.search.stamp = queue'.links[queue'.search.idx].stamp
  BY <1>1, <1>2 DEF Promise!SearchCached
<1>4. ~stable' => \A v \in Unassigned' : queue'.links[v].stamp <= queue'.search.stamp
  BY <1>1, <1>2 DEF Promise!SearchPointer, Promise!Unassigned
<1> QED
  BY <1>3, <1>4 DEF SearchSound

(***************************************************************************)
(* Enqueuing v into the list without it.                                   *)
(***************************************************************************)
LEMMA MappedEnqueue ==
  ASSUME State, Ordered(queue, Active), NEW v \in Vars, NEW at \in Vars,
         NEW p, Ordered(p, Active \ {v}), p.stamp = queue.stamp,
         \A u \in Vars : StampOf(p, u) = StampOf(queue, u),
         queue'.links = EnqueueLinks(p, v).links,
         queue'.stamp = EnqueueLinks(p, v).stamp,
         queue'.search = [idx |-> at, stamp |-> StampOf(queue', at)]
  PROVE  Promise!EnqueueLast(v, at)
<1> DEFINE S == Active \ {v}
           r == EnqueueLinks(p, v)
           full == queue.stamp = MaxStamp
<1>1. /\ r.stamp = IF full THEN Cardinality(S) + 1 ELSE queue.stamp + 1
      /\ StampOf(r, v) = r.stamp
      /\ \A u \in Vars \ {v} : StampOf(r, u) = IF full /\ u \in S THEN RankIn(p, S, u)
                                               ELSE StampOf(p, u)
  <2>1. v \notin S
    OBVIOUS
  <2> HIDE DEF S
  <2>2. LET t == EnqueueLinks(p, v)
            f == p.stamp = MaxStamp
        IN  /\ t.stamp = IF f THEN Cardinality(S) + 1 ELSE p.stamp + 1
            /\ StampOf(t, v) = t.stamp
            /\ \A u \in Vars \ {v} : StampOf(t, u) = IF f /\ u \in S THEN RankIn(p, S, u)
                                                     ELSE StampOf(p, u)
    <3>1. Ordered(p, S)
      BY DEF S
    <3> QED
      BY ONLY <2>1, <3>1, v \in Vars, OrderedEnqueue
  <2> QED
    BY <2>2
<1>2. /\ Active \in SUBSET Vars
      /\ \A u \in Vars : Stamps[u] = StampOf(queue, u)
      /\ Stamps \in [Vars -> Nat]
  BY AbstractFacts
<1>3. /\ \A u \in Vars : Stamps'[u] = StampOf(r, u) /\ Stamps'[u] = StampOf(queue', u)
      /\ Stamps' = [u \in Vars |-> StampOf(r, u)]
  BY DEF Stamps, StampOf
<1> HIDE DEF r
<1>4. \A u \in S : RankIn(p, S, u) = Promise!Rank(u, S)
  <2> SUFFICES ASSUME NEW u \in S
               PROVE  RankIn(p, S, u) = Promise!Rank(u, S)
    OBVIOUS
  <2>1. {w \in S : StampOf(p, w) <= StampOf(p, u)} = {w \in S : Stamps[w] <= Stamps[u]}
    BY <1>2
  <2> QED
    BY <2>1, SameCardinality DEF RankIn, Promise!Rank
<1>5. queue'.search = Promise!Position(at, Stamps')
  BY <1>3 DEF Promise!Position
<1>6. CASE full
  <2>1. queue'.stamp = Cardinality(S) + 1
    BY <1>1, <1>6 DEF r
  <2>2. Stamps' = Promise!Restamped(v, S)
    <3>1. v \notin S
      OBVIOUS
    <3> HIDE DEF S
    <3>2. \A u \in Vars : StampOf(r, u) = IF u = v THEN Cardinality(S) + 1
                          ELSE IF u \in S THEN Promise!Rank(u, S) ELSE Stamps[u]
      BY <1>1, <1>2, <1>4, <1>6, <3>1
    <3> QED
      BY <1>3, <3>2, SameCardinality DEF Promise!Restamped
  <2> QED
    BY <1>5, <1>6, <2>1, <2>2, SameCardinality DEF Promise!EnqueueLast
<1>7. CASE ~full
  <2>1. queue'.stamp = queue.stamp + 1
    BY <1>1, <1>7 DEF r
  <2>2. \A u \in Vars : StampOf(r, u) = IF u = v THEN queue.stamp + 1 ELSE Stamps[u]
    BY <1>1, <1>2, <1>7
  <2>3. Stamps' = [Stamps EXCEPT ![v] = queue.stamp + 1]
    BY <1>2, <1>3, <2>2
  <2> QED
    BY <1>5, <1>7, <2>1, <2>3 DEF Promise!EnqueueLast
<1> QED
  BY <1>6, <1>7

(* A variable that is not active yet has no value. *)
LEMMA MappedActivate ==
  ASSUME State, Ordered(queue, Active), NEW v \in Vars, Activate(v)
  PROVE  Ordered(queue', Active') /\ Promise!Activate(v)
<1> DEFINE r == EnqueueLinks(queue, v)
<1>1. /\ pc \in {"parse", "factor"} /\ flags[v] = "new"
      /\ flags' = [flags EXCEPT ![v] = "active"]
      /\ queue' = Enqueue(queue, v, Assigned)
      /\ pending' = IF pc = "factor" THEN pending \cup {v} ELSE pending
      /\ stable' = stable /\ lev' = lev /\ pc' = pc
  BY DEF Activate, modeVars, assignVars
<1>2. /\ flags \in [Vars -> {"new", "active", "fixed", "eliminated", "dropped"}]
      /\ v \notin Assigned /\ v \notin Active
  BY <1>1 DEF State, StateTypes, Levels, ACTIVE, Assigned, UNASSIGNED, Active
<1>3. Active' = Active \cup {v} /\ Fresh' = Fresh \ {v} /\ v \in Fresh
  BY <1>1, <1>2 DEF Active, ACTIVE, Fresh
<1>4. Valued' = Valued /\ Created' \in {Created, Created \cup {v}}
  BY <1>1, <1>2, <1>3 DEF Valued, Assigned, Created
<1>5. Ordered(r, Active \cup {v})
  BY <1>2, OrderedEnqueue
<1>6. queue' = UpdateQueue(r, v)
  BY <1>1, <1>2 DEF Enqueue
<1> HIDE DEF r
<1>7. /\ Ordered(queue', Active')
      /\ queue'.links = r.links /\ queue'.stamp = r.stamp
      /\ queue'.search = [idx |-> v, stamp |-> StampOf(r, v)]
  BY <1>3, <1>5, <1>6, OrderedSearch
<1>8. StampOf(queue', v) = StampOf(r, v)
  BY <1>7 DEF StampOf
<1>9. Promise!EnqueueLast(v, v)
  <2>1. Active \ {v} = Active
    BY <1>2
  <2> QED
    BY <1>7, <1>8, <2>1, MappedEnqueue DEF r
<1> QED
  BY <1>1, <1>3, <1>4, <1>7, <1>9 DEF Promise!Activate

(***************************************************************************)
(* The neighbours in the list are the neighbours in the order of stamps.   *)
(***************************************************************************)
LEMMA MappedNext ==
  ASSUME State, Ordered(queue, Active), NEW v \in Active
  PROVE  LET next == NextOf(queue, v)
         IN  /\ next = DISCONNECT => Promise!After(v) = {}
             /\ next # DISCONNECT => /\ next \in Active
                                     /\ Promise!IsFirstOf(next, Promise!After(v))
<1> DEFINE next == NextOf(queue, v)
<1>1. /\ Active \in SUBSET Vars /\ queue \in Queues
      /\ Stamps \in [Vars -> Nat]
      /\ \A u \in Vars : Stamps[u] = StampOf(queue, u)
  BY AbstractFacts
<1>2. /\ Linked(queue, Order(queue)) /\ Increasing(queue, Order(queue))
      /\ ToSet(Order(queue)) = Active
  BY OrderedSequence
<1>3. /\ next = DISCONNECT => \A u \in Active : StampOf(queue, u) <= StampOf(queue, v)
      /\ next # DISCONNECT =>
           /\ next \in Active
           /\ StampOf(queue, v) < StampOf(queue, next)
           /\ \A u \in Active : StampOf(queue, v) < StampOf(queue, u) =>
                                  StampOf(queue, next) <= StampOf(queue, u)
  BY <1>1, <1>2, NextNeighbour
<1> HIDE DEF next
<1>4. \A u \in Active : Stamps[u] \in Nat /\ Stamps[u] = StampOf(queue, u) /\ u \in Vars
  BY <1>1
<1>5. CASE next = DISCONNECT
  BY <1>3, <1>4, <1>5 DEF Promise!After, next
<1>6. CASE next # DISCONNECT
  BY <1>3, <1>4, <1>6 DEF Promise!After, Promise!IsFirstOf, next
<1> QED
  BY <1>5, <1>6

LEMMA MappedPrev ==
  ASSUME State, Ordered(queue, Active), NEW v \in Active
  PROVE  LET prev == PrevOf(queue, v)
         IN  /\ prev = DISCONNECT => Promise!Before(v) = {}
             /\ prev # DISCONNECT => /\ prev \in Active
                                     /\ Promise!IsLastOf(prev, Promise!Before(v))
<1> DEFINE prev == PrevOf(queue, v)
<1>1. /\ Active \in SUBSET Vars /\ queue \in Queues
      /\ Stamps \in [Vars -> Nat]
      /\ \A u \in Vars : Stamps[u] = StampOf(queue, u)
  BY AbstractFacts
<1>2. /\ Linked(queue, Order(queue)) /\ Increasing(queue, Order(queue))
      /\ ToSet(Order(queue)) = Active
  BY OrderedSequence
<1>3. /\ prev = DISCONNECT => \A u \in Active : StampOf(queue, v) <= StampOf(queue, u)
      /\ prev # DISCONNECT =>
           /\ prev \in Active
           /\ StampOf(queue, prev) < StampOf(queue, v)
           /\ \A u \in Active : StampOf(queue, u) < StampOf(queue, v) =>
                                  StampOf(queue, u) <= StampOf(queue, prev)
  BY <1>1, <1>2, PrevNeighbour
<1> HIDE DEF prev
<1>4. \A u \in Active : Stamps[u] \in Nat /\ Stamps[u] = StampOf(queue, u) /\ u \in Vars
  BY <1>1
<1>5. CASE prev = DISCONNECT
  BY <1>3, <1>4, <1>5 DEF Promise!Before, prev
<1>6. CASE prev # DISCONNECT
  BY <1>3, <1>4, <1>6 DEF Promise!Before, Promise!IsLastOf, prev
<1> QED
  BY <1>5, <1>6

(* Nothing but v is in the queue if nothing is before or after it. *)
LEMMA Alone ==
  ASSUME State, Ordered(queue, Active), NEW v \in Active,
         Promise!Before(v) = {}, Promise!After(v) = {}
  PROVE  Active = {v}
<1>1. /\ Active \in SUBSET Vars
      /\ Stamps \in [Vars -> Nat]
      /\ \A u \in Vars : Stamps[u] = StampOf(queue, u)
  BY AbstractFacts
<1>2. \A u \in Active : Stamps[u] = Stamps[v] => u = v
  BY <1>1, OrderedStamps
<1>3. \A u \in Active : ~(Stamps[u] < Stamps[v]) /\ ~(Stamps[v] < Stamps[u])
  BY DEF Promise!Before, Promise!After
<1>4. \A u \in Active : Stamps[u] \in Nat
  BY <1>1
<1> QED
  BY <1>2, <1>3, <1>4

(* A queue without a cached position. *)
LEMMA WithoutSearch ==
  ASSUME NEW q, NEW S, Ordered(q, S)
  PROVE  LET r == [q EXCEPT !.search = [idx |-> DISCONNECT, stamp |-> 0]]
         IN  /\ Ordered(r, S)
             /\ r.links = q.links /\ r.stamp = q.stamp
             /\ r.search = [idx |-> DISCONNECT, stamp |-> 0]
<1> DEFINE r == [q EXCEPT !.search = [idx |-> DISCONNECT, stamp |-> 0]]
<1>1. q \in Queues
  BY OrderedType
<1>2. /\ r \in Queues
      /\ r.links = q.links /\ r.stamp = q.stamp /\ r.first = q.first /\ r.last = q.last
      /\ r.search = [idx |-> DISCONNECT, stamp |-> 0]
  BY <1>1, MaxStampAssumption DEF Queues, Elements
<1>3. PICK s : Linked(q, s) /\ Increasing(q, s) /\ ToSet(s) = S
  BY DEF Ordered
<1> HIDE DEF r
<1>4. \A v \in Vars : PrevOf(r, v) = PrevOf(q, v) /\ NextOf(r, v) = NextOf(q, v)
  BY <1>2 DEF PrevOf, NextOf
<1>5. Linked(r, s)
  BY <1>2, <1>3, <1>4, SameLinks
<1>6. Increasing(r, s)
  BY <1>2, <1>3 DEF Increasing, StampOf
<1>7. Ordered(r, S)
  BY <1>2, <1>3, <1>5, <1>6 DEF Ordered
<1> QED
  BY <1>2, <1>7 DEF r

LEMMA MappedDeactivate ==
  ASSUME State, Ordered(queue, Active), NEW v \in Vars, Fix(v) \/ Eliminate(v)
  PROVE  Ordered(queue', Active') /\ Promise!Deactivate(v)
<1> DEFINE p == SearchWithout(queue, v)
<1>1. /\ pc \in {"parse", "search"} /\ v \in Unassigned
      /\ queue' = Dequeue(queue, v)
      /\ stable' = stable /\ pc' = pc
      /\ flags' = [flags EXCEPT ![v] = "fixed"] \/ flags' = [flags EXCEPT ![v] = "eliminated"]
      /\ lev' = [lev EXCEPT ![v] = 0] \/ lev' = lev
  BY DEF Fix, Eliminate, Deactivate, modeVars, loopVars, assignVars, Searching
<1>2. /\ flags \in [Vars -> {"new", "active", "fixed", "eliminated", "dropped"}]
      /\ lev \in [Vars -> {UNASSIGNED} \cup Nat]
      /\ v \in Active /\ v \notin Assigned /\ flags[v] = "active"
  BY <1>1 DEF State, StateTypes, Unassigned, Active, ACTIVE
<1>3. \A u \in Vars : u # v => flags'[u] = flags[u] /\ lev'[u] = lev[u]
  BY <1>1, <1>2
<1>4. flags'[v] # "active" /\ flags'[v] # "new"
  BY <1>1, <1>2
<1>5. Active' = Active \ {v} /\ Fresh' = Fresh
  BY <1>2, <1>3, <1>4 DEF Active, ACTIVE, Fresh
<1>6. Valued' = Valued
  BY <1>2, <1>3, <1>5 DEF Valued, Assigned, Active
<1>7. Created = {} /\ Created' = {}
  BY <1>1 DEF Created
<1>8. /\ Ordered(p, Active)
      /\ p.links = queue.links /\ p.stamp = queue.stamp
      /\ \/ queue.search.idx # v /\ p.search = queue.search
         \/ /\ queue.search.idx = v
            /\ Active = {v}
            /\ p.search = [idx |-> DISCONNECT, stamp |-> 0]
         \/ /\ queue.search.idx = v
            /\ \E u \in Active : /\ Promise!SuccessorOf(v, u)
                                 /\ p.search = [idx |-> u, stamp |-> StampOf(queue, u)]
  <2> DEFINE prev == PrevOf(queue, v)
             next == NextOf(queue, v)
  <2>1. p = IF queue.search.idx # v THEN queue
            ELSE IF next # DISCONNECT THEN UpdateQueue(queue, next)
            ELSE IF prev # DISCONNECT THEN UpdateQueue(queue, prev)
            ELSE [queue EXCEPT !.search = [idx |-> DISCONNECT, stamp |-> 0]]
    BY DEF SearchWithout, NextOf, PrevOf, DISCONNECTED
  <2>2. /\ next = DISCONNECT => Promise!After(v) = {}
        /\ next # DISCONNECT => next \in Active /\ Promise!IsFirstOf(next, Promise!After(v))
    BY <1>2, MappedNext
  <2>3. /\ prev = DISCONNECT => Promise!Before(v) = {}
        /\ prev # DISCONNECT => prev \in Active /\ Promise!IsLastOf(prev, Promise!Before(v))
    BY <1>2, MappedPrev
  <2>4. Active \in SUBSET Vars
    BY AbstractFacts
  <2> HIDE DEF p, prev, next
  <2>5. CASE queue.search.idx # v
    BY <2>1, <2>5
  <2>6. ASSUME queue.search.idx = v, NEW u \in Active, p = UpdateQueue(queue, u),
               Promise!SuccessorOf(v, u)
        PROVE  /\ Ordered(p, Active)
               /\ p.links = queue.links /\ p.stamp = queue.stamp
               /\ \E w \in Active : /\ Promise!SuccessorOf(v, w)
                                    /\ p.search = [idx |-> w, stamp |-> StampOf(queue, w)]
    <3>1. /\ Ordered(p, Active)
          /\ p.links = queue.links /\ p.stamp = queue.stamp
          /\ p.search = [idx |-> u, stamp |-> StampOf(queue, u)]
      BY <2>4, <2>6, OrderedSearch
    <3> QED
      BY <2>6, <3>1
  <2>7. CASE queue.search.idx = v /\ next # DISCONNECT
    <3>1. Promise!SuccessorOf(v, next)
      BY <2>2, <2>7 DEF Promise!SuccessorOf
    <3>2. p = UpdateQueue(queue, next)
      BY <2>1, <2>7
    <3> QED
      BY <2>2, <2>6, <2>7, <3>1, <3>2
  <2>8. CASE queue.search.idx = v /\ next = DISCONNECT /\ prev # DISCONNECT
    <3>1. Promise!SuccessorOf(v, prev)
      BY <2>2, <2>3, <2>8 DEF Promise!SuccessorOf
    <3>2. p = UpdateQueue(queue, prev)
      BY <2>1, <2>8
    <3> QED
      BY <2>3, <2>6, <2>8, <3>1, <3>2
  <2>9. CASE queue.search.idx = v /\ next = DISCONNECT /\ prev = DISCONNECT
    <3>1. Active = {v}
      BY <1>2, <2>2, <2>3, <2>9, Alone
    <3>2. p = [queue EXCEPT !.search = [idx |-> DISCONNECT, stamp |-> 0]]
      BY <2>1, <2>9
    <3> QED
      BY <2>9, <3>1, <3>2, WithoutSearch
  <2> QED
    BY <2>5, <2>7, <2>8, <2>9
<1>9. queue' = DequeueLinks(p, v)
  BY <1>1 DEF Dequeue
<1> HIDE DEF p
<1>10. Ordered(queue', Active') /\ SameStamps(p, queue')
  BY <1>2, <1>5, <1>8, <1>9, OrderedDequeue
<1>11. queue'.stamp = queue.stamp /\ queue'.search = p.search
  BY <1>8, <1>10 DEF SameStamps
<1>12. Stamps' = Stamps
  BY <1>8, <1>10 DEF SameStamps, Stamps, StampOf
<1>13. v \in Promise!Unassigned \ Created
  BY <1>2, <1>7 DEF Promise!Unassigned, Valued
<1>14. \A u \in Active : [idx |-> u, stamp |-> StampOf(queue, u)] = Promise!Position(u, Stamps)
  BY AbstractFacts DEF Promise!Position
<1> QED
  BY <1>1, <1>5, <1>6, <1>7, <1>8, <1>10, <1>11, <1>12, <1>13, <1>14
     DEF Promise!Deactivate

(* kissat_move_to_front, of the last variable or of another one. *)
LEMMA MappedMove ==
  ASSUME State, Ordered(queue, Active), SearchSound, NEW v \in Active,
         queue' = MoveToFront(queue, v, Assigned), v # queue.last,
         UNCHANGED <<flags, lev, stable>>, Created' = Created
  PROVE  Ordered(queue', Active') /\ Promise!MoveToFront(v)
<1> DEFINE prev == PrevOf(queue, v)
           next == NextOf(queue, v)
           w == IF prev = DISCONNECT THEN next ELSE prev
           at == IF v \notin Assigned THEN v
                 ELSE IF queue.search.idx = v THEN w ELSE queue.search.idx
           p == IF v \in Assigned /\ queue.search.idx = v THEN UpdateQueue(queue, w)
                ELSE queue
           d == DequeueLinks(p, v)
           m == EnqueueLinks(d, v)
<1>1. /\ Active \in SUBSET Vars /\ queue \in Queues
      /\ Stamps \in [Vars -> Nat]
      /\ \A u \in Vars : Stamps[u] = StampOf(queue, u)
  BY AbstractFacts
<1>2. queue' = IF v \in Assigned THEN m ELSE UpdateQueue(m, v)
  BY DEF MoveToFront, PrevOf, NextOf, DISCONNECTED
<1>3. Active' = Active /\ Fresh' = Fresh /\ Valued' = Valued /\ v \in Vars
  BY <1>1 DEF Active, ACTIVE, Fresh, Valued, Assigned
<1>4. Promise!After(v) # {}
  <2>1. /\ queue.last \in Active
        /\ StampOf(queue, v) <= StampOf(queue, queue.last)
        /\ StampOf(queue, v) # StampOf(queue, queue.last)
    BY OrderedEnds, OrderedStamps
  <2>2. StampOf(queue, v) \in Nat /\ StampOf(queue, queue.last) \in Nat
    BY <2>1, OrderedStamps
  <2>3. queue.last \in Promise!After(v)
    BY <1>1, <2>1, <2>2 DEF Promise!After
  <2> QED
    BY <2>3
<1>5. w \in Active /\ w \in Vars /\ w # v /\ Promise!PredecessorOf(v, w)
  <2>1. /\ next = DISCONNECT => Promise!After(v) = {}
        /\ next # DISCONNECT => next \in Active /\ Promise!IsFirstOf(next, Promise!After(v))
    BY MappedNext
  <2>2. /\ prev = DISCONNECT => Promise!Before(v) = {}
        /\ prev # DISCONNECT => prev \in Active /\ Promise!IsLastOf(prev, Promise!Before(v))
    BY MappedPrev
  <2> HIDE DEF next, prev
  <2>3. v \notin Promise!Before(v) /\ v \notin Promise!After(v)
    BY <1>1, <1>3 DEF Promise!Before, Promise!After
  <2>4. CASE prev = DISCONNECT
    BY <1>1, <1>4, <2>1, <2>2, <2>3, <2>4 DEF Promise!PredecessorOf, Promise!IsFirstOf
  <2>5. CASE prev # DISCONNECT
    BY <1>1, <2>2, <2>3, <2>5 DEF Promise!PredecessorOf, Promise!IsLastOf
  <2> QED
    BY <2>4, <2>5
<1>6. queue.search.idx \in Active /\ queue.search.stamp = StampOf(queue, queue.search.idx)
  BY DEF SearchSound, StampOf
<1> HIDE DEF w, prev, next
<1>7. /\ Ordered(p, Active) /\ p.links = queue.links /\ p.stamp = queue.stamp
      /\ v \in Assigned => p.search = [idx |-> at, stamp |-> StampOf(queue, at)]
  <2>1. CASE v \in Assigned /\ queue.search.idx = v
    <3>1. p = UpdateQueue(queue, w) /\ at = w
      BY <2>1
    <3> HIDE DEF p, at
    <3>2. LET r == UpdateQueue(queue, w)
          IN  /\ Ordered(r, Active) /\ r.links = queue.links /\ r.stamp = queue.stamp
              /\ r.search = [idx |-> w, stamp |-> StampOf(queue, w)]
      BY <1>5, OrderedSearch
    <3> QED
      BY <3>1, <3>2
  <2>2. CASE ~(v \in Assigned /\ queue.search.idx = v)
    <3>1. p = queue /\ (v \in Assigned => at = queue.search.idx)
      BY <2>2
    <3> HIDE DEF p, at
    <3> QED
      BY <1>1, <1>6, <3>1, QueueType
  <2> QED
    BY <2>1, <2>2
<1>8. at \in Active /\ at \in Vars /\ (v \in Assigned => at # v)
  BY <1>1, <1>5, <1>6
<1> HIDE DEF p
<1>10. Ordered(d, Active \ {v}) /\ SameStamps(p, d)
  BY <1>7, OrderedDequeue
<1>11. d.stamp = queue.stamp /\ d.search = p.search
       /\ \A u \in Vars : StampOf(d, u) = StampOf(queue, u)
  BY <1>7, <1>10 DEF SameStamps, StampOf
<1> HIDE DEF d
<1>12. /\ Ordered(m, (Active \ {v}) \cup {v})
       /\ m.search = IF d.stamp = MaxStamp /\ d.search.idx # DISCONNECT
                     THEN [idx   |-> d.search.idx,
                           stamp |-> StampOf(m, d.search.idx)]
                     ELSE d.search
       /\ \A u \in Vars \ {v} :
             StampOf(m, u) = IF d.stamp = MaxStamp /\ u \in Active \ {v}
                             THEN RankIn(d, Active \ {v}, u) ELSE StampOf(d, u)
  BY <1>3, <1>10, OrderedEnqueue
<1>13. (Active \ {v}) \cup {v} = Active
  OBVIOUS
<1> HIDE DEF m
<1>14. LET r == UpdateQueue(m, v)
       IN  /\ Ordered(r, Active) /\ r.links = m.links /\ r.stamp = m.stamp
           /\ r.search = [idx |-> v, stamp |-> StampOf(m, v)]
  BY <1>3, <1>12, <1>13, OrderedSearch
<1>15. /\ Ordered(queue', Active')
       /\ queue'.links = m.links /\ queue'.stamp = m.stamp
       /\ v \notin Assigned => queue'.search = [idx |-> v, stamp |-> StampOf(m, v)]
  <2>1. CASE v \in Assigned
    BY <1>2, <1>3, <1>12, <1>13, <2>1
  <2>2. CASE v \notin Assigned
    BY <1>2, <1>3, <1>14, <2>2
  <2> QED
    BY <2>1, <2>2
<1>16. \A u \in Vars : StampOf(queue', u) = StampOf(m, u)
  BY <1>15 DEF StampOf
<1>17. queue'.search = [idx |-> at, stamp |-> StampOf(queue', at)]
  <2>1. CASE v \in Assigned
    <3>1. queue' = m /\ d.search = [idx |-> at, stamp |-> StampOf(queue, at)]
      BY <1>2, <1>7, <1>11, <2>1
    <3>2. at # DISCONNECT /\ at # v
      BY <1>8, <2>1, QueueVarsAssumption
    <3>3. CASE d.stamp = MaxStamp
      BY <1>12, <3>1, <3>2, <3>3
    <3>4. CASE d.stamp # MaxStamp
      <4>1. StampOf(m, at) = StampOf(queue, at)
        BY <1>8, <1>11, <1>12, <3>2, <3>4
      <4> QED
        BY <1>12, <3>1, <3>4, <4>1
    <3> QED
      BY <3>3, <3>4
  <2>2. CASE v \notin Assigned
    <3>1. at = v
      BY <2>2
    <3> HIDE DEF at
    <3> QED
      BY <1>3, <1>15, <1>16, <2>2, <3>1
  <2> QED
    BY <2>1, <2>2
<1>18. Promise!EnqueueLast(v, at)
  <2> HIDE DEF at
  <2> QED
    BY <1>3, <1>8, <1>10, <1>11, <1>15, <1>17, MappedEnqueue DEF m
<1>19. v \in Assigned <=> v \in Valued
  BY DEF Valued
<1> QED
  BY <1>3, <1>4, <1>5, <1>15, <1>18, <1>19 DEF Promise!MoveToFront

(* What compact_queue may find behind the old position. *)
LEMMA MappedCompact ==
  ASSUME State, Ordered(queue, Active), SearchSound, Compact
  PROVE  Ordered(queue', Active') /\ Promise!Compact
<1> DEFINE r == ReassignStamps(queue)
<1>1. /\ Active \in SUBSET Vars /\ queue \in Queues
      /\ Stamps \in [Vars -> Nat]
      /\ \A u \in Vars : Stamps[u] = StampOf(queue, u)
  BY AbstractFacts
<1>2. PICK dropped \in Droppable \ {{}} :
          /\ flags' = [v \in Vars |-> IF v \in dropped THEN "dropped" ELSE flags[v]]
          /\ lev' = [v \in Vars |-> IF v \in dropped THEN UNASSIGNED ELSE lev[v]]
  BY DEF Compact
<1>3. /\ pc = "search" /\ pc' = pc /\ stable' = stable
      /\ queue' \in CompactedQueues(queue)
  BY DEF Compact, modeVars, loopVars, Searching
<1>4. \A v \in dropped : flags[v] \in {"eliminated", "fixed"}
  BY DEF Droppable
<1>5. Active' = Active /\ Fresh' = Fresh
  BY <1>2, <1>4 DEF Active, ACTIVE, Fresh
<1>6. Valued' = Valued /\ Created = {} /\ Created' = {}
  BY <1>1, <1>2, <1>3, <1>4, <1>5 DEF Valued, Assigned, Active, ACTIVE, Created
<1>7. /\ Ordered(r, Active)
      /\ r.first = queue.first /\ r.last = queue.last
      /\ r.stamp = Cardinality(Active)
      /\ \A v \in Active : StampOf(r, v) = RankIn(queue, Active, v)
      /\ \A v \in Vars \ Active : StampOf(r, v) = StampOf(queue, v)
      /\ queue.search.idx = DISCONNECT => r.search = queue.search
  <2>1. LET p == ReassignStamps(queue)
        IN  /\ Ordered(p, Active)
            /\ p.first = queue.first /\ p.last = queue.last
            /\ p.stamp = Cardinality(Active)
            /\ \A v \in Active : StampOf(p, v) = RankIn(queue, Active, v)
            /\ \A v \in Vars \ Active : StampOf(p, v) = StampOf(queue, v)
            /\ p.search = IF queue.search.idx = DISCONNECT THEN queue.search
                          ELSE [idx   |-> queue.search.idx,
                                stamp |-> StampOf(p, queue.search.idx)]
    BY OrderedRestamp
  <2> QED
    BY <2>1
<1> HIDE DEF r
<1>8. \A u \in Active : RankIn(queue, Active, u) = Promise!Rank(u, Active)
  <2> SUFFICES ASSUME NEW u \in Active
               PROVE  RankIn(queue, Active, u) = Promise!Rank(u, Active)
    OBVIOUS
  <2>1. {w \in Active : StampOf(queue, w) <= StampOf(queue, u)}
          = {w \in Active : Stamps[w] <= Stamps[u]}
    BY <1>1
  <2> QED
    BY <2>1, SameCardinality DEF RankIn, Promise!Rank
<1>9. ASSUME queue'.links = r.links, queue'.stamp = r.stamp
      PROVE  /\ Stamps' = [u \in Vars |-> IF u \in Active THEN Promise!Rank(u, Active)
                                          ELSE Stamps[u]]
             /\ \A u \in Vars : Stamps'[u] = StampOf(r, u)
             /\ queue'.stamp = Promise!Cardinality(Active)
  <2>1. /\ Stamps' = [u \in Vars |-> StampOf(r, u)]
        /\ \A u \in Vars : Stamps'[u] = StampOf(r, u)
    BY <1>9 DEF Stamps, StampOf
  <2>2. \A u \in Vars : StampOf(r, u) = IF u \in Active THEN Promise!Rank(u, Active)
                                        ELSE Stamps[u]
    BY <1>1, <1>7, <1>8
  <2> QED
    BY <1>7, <1>9, <2>1, <2>2, SameCardinality
<1>10. CASE Active = {}
  <2>1. queue.first = DISCONNECT /\ queue.search.idx = DISCONNECT
    BY <1>10, OrderedEnds DEF SearchSound
  <2>2. queue' = r
    BY <1>3, <2>1 DEF CompactedQueues, DISCONNECTED, r
  <2>3. queue'.search = queue.search
    BY <1>7, <2>1, <2>2
  <2> QED
    BY <1>3, <1>5, <1>6, <1>7, <1>9, <1>10, <2>2, <2>3 DEF Promise!Compact
<1>11. CASE Active # {}
  <2>1. queue.first # DISCONNECT
    BY <1>11, OrderedEnds
  <2>2. PICK v \in {u \in ToSet(Order(queue)) : queue.links[u].stamp >= queue.search.stamp} :
          queue' = UpdateQueue(r, v)
    BY <1>3, <2>1 DEF CompactedQueues, DISCONNECTED, r
  <2>3. v \in Active /\ v \in Vars /\ Stamps[v] >= queue.search.stamp
    BY <1>1, <2>2, OrderedSequence DEF StampOf
  <2>4. LET p == UpdateQueue(r, v)
        IN  /\ Ordered(p, Active) /\ p.links = r.links /\ p.stamp = r.stamp
            /\ p.search = [idx |-> v, stamp |-> StampOf(r, v)]
    BY <1>7, <2>3, OrderedSearch
  <2>5. /\ Ordered(queue', Active) /\ queue'.links = r.links /\ queue'.stamp = r.stamp
        /\ queue'.search = [idx |-> v, stamp |-> StampOf(r, v)]
    BY <2>2, <2>4
  <2>6. queue'.search = Promise!Position(v, Stamps')
    BY <1>9, <2>3, <2>5 DEF Promise!Position
  <2> QED
    BY <1>3, <1>5, <1>6, <1>9, <1>11, <2>3, <2>5, <2>6 DEF Promise!Compact
<1> QED
  BY <1>10, <1>11

(***************************************************************************)
(* Decisions move the cached position to the decision.                     *)
(***************************************************************************)
LEMMA MappedDecision ==
  ASSUME State, Scores, Ordered(queue, Active), SearchSound, Unassigned # {},
         NEW v, NextDecisionVariable(v)
  PROVE  /\ Ordered(queue', Active) /\ queue'.links = queue.links
         /\ queue'.stamp = queue.stamp
         /\ v \in Unassigned
         /\ Promise!Walks(queue'.search)
         /\ NextByHeuristic(v) => BestDecision(v)
<1>1. /\ Active \in SUBSET Vars /\ queue \in Queues
      /\ Stamps \in [Vars -> Nat]
      /\ \A u \in Vars : Stamps[u] = StampOf(queue, u)
      /\ Unassigned = Active \ Valued
  BY AbstractFacts
<1>2. CASE NextAtRandom(v) /\ ~NextByHeuristic(v)
  BY <1>2 DEF NextAtRandom, Promise!Walks
<1>3. CASE NextByHeuristic(v) /\ stable
  <2>1. v \in Unassigned /\ \A u \in Unassigned : scores.score[u] <= scores.score[v]
    BY <1>3, DecisionScores
  <2>2. queue' = queue
    BY <1>3 DEF NextByHeuristic
  <2> QED
    BY <1>3, <2>1, <2>2 DEF BestDecision, Promise!Walks
<1>4. CASE NextByHeuristic(v) /\ ~stable
  <2> DEFINE s == Order(queue)
             assigned == Assigned
             w == LastEnqueuedUnassigned(queue, assigned)
  <2>1. Linked(queue, s) /\ Increasing(queue, s) /\ ToSet(s) = Active
    BY OrderedSequence
  <2>2. Active # {} /\ assigned \in SUBSET Vars /\ Active \ assigned = Unassigned
    BY DEF Unassigned, Assigned
  <2>3. queue.search.idx \in Active /\ queue.search.stamp = StampOf(queue, queue.search.idx)
        /\ \A u \in Unassigned : StampOf(queue, u) <= queue.search.stamp
    BY <1>4, <2>2 DEF SearchSound, StampOf
  <2>4. queue' = UpdateQueue(queue, w) /\ v = queue'.search.idx
    BY <1>4 DEF NextByHeuristic, SearchLastEnqueuedUnassigned
  <2> HIDE DEF s, assigned
  <2>5. w \in Unassigned /\ \A u \in Unassigned : StampOf(queue, u) <= StampOf(queue, w)
    BY <1>1, <2>1, <2>2, <2>3, LastUnassignedStamped
  <2> HIDE DEF w
  <2>6. LET r == UpdateQueue(queue, w)
        IN  /\ Ordered(r, Active) /\ r.links = queue.links /\ r.stamp = queue.stamp
            /\ r.search = [idx |-> w, stamp |-> StampOf(queue, w)]
    BY <1>1, <2>5, OrderedSearch
  <2>7. /\ Ordered(queue', Active) /\ queue'.links = queue.links
        /\ queue'.stamp = queue.stamp
        /\ queue'.search = [idx |-> w, stamp |-> StampOf(queue, w)] /\ v = w
    BY <2>4, <2>6
  <2>8. Promise!IsLastOf(w, Unassigned) /\ queue'.search = Promise!Position(w, Stamps)
    BY <1>1, <2>5, <2>7 DEF Promise!IsLastOf, Promise!Position
  <2>9. Promise!Walks(queue'.search)
    BY <1>1, <1>4, <2>8 DEF Promise!Walks, Promise!Unassigned, Promise!IsLastOf
  <2>10. BestDecision(v)
    BY <1>4, <2>5, <2>7 DEF BestDecision, StampOf
  <2> QED
    BY <2>5, <2>7, <2>9, <2>10
<1> QED
  BY <1>2, <1>3, <1>4 DEF NextDecisionVariable

LEMMA MappedMakeDecision ==
  ASSUME State, Scores, Ordered(queue, Active), SearchSound,
         NEW v \in Vars, MakeDecision(v)
  PROVE  Ordered(queue', Active') /\ Promise!Assign(v)
<1>1. /\ Unassigned # {} /\ NextDecisionVariable(v) /\ pc' = pc /\ pending' = pending
      /\ lev' = [lev EXCEPT ![v] = level + 1] /\ flags' = flags /\ stable' = stable
  BY DEF MakeDecision, modeVars, loopVars
<1>2. /\ Ordered(queue', Active) /\ queue'.links = queue.links
      /\ queue'.stamp = queue.stamp
      /\ v \in Unassigned
      /\ Promise!Walks(queue'.search)
  BY <1>1, MappedDecision
<1>3. level + 1 # UNASSIGNED /\ lev \in [Vars -> {UNASSIGNED} \cup Nat]
  BY DEF State, StateTypes, level, UNASSIGNED
<1>4. /\ Active' = Active /\ Fresh' = Fresh /\ Created' = Created /\ Stamps' = Stamps
      /\ v \in Active
  BY <1>1, <1>2 DEF Active, ACTIVE, Fresh, Created, Stamps, Unassigned
<1>5. Valued' = Valued \cup {v}
  BY <1>1, <1>2, <1>3, <1>4 DEF Valued, Assigned
<1>6. Unassigned = Promise!Unassigned
  BY AbstractFacts DEF Promise!Unassigned
<1> QED
  BY <1>1, <1>2, <1>4, <1>5, <1>6 DEF Promise!Assign

LEMMA MappedImply ==
  ASSUME State, Ordered(queue, Active), NEW v \in Vars, NEW l \in 1..level, Imply(v, l)
  PROVE  Ordered(queue', Active') /\ Promise!Assign(v)
<1>1. /\ v \in Unassigned /\ pc' = pc /\ pending' = pending
      /\ lev' = [lev EXCEPT ![v] = l] /\ flags' = flags /\ stable' = stable
      /\ queue' = queue
  BY DEF Imply, modeVars, loopVars
<1>2. l # UNASSIGNED /\ lev \in [Vars -> {UNASSIGNED} \cup Nat]
  BY DEF State, StateTypes, level, UNASSIGNED
<1>3. /\ Active' = Active /\ Fresh' = Fresh /\ Created' = Created /\ Stamps' = Stamps
      /\ v \in Active
  BY <1>1 DEF Active, ACTIVE, Fresh, Created, Stamps, Unassigned
<1>4. Valued' = Valued \cup {v}
  BY <1>1, <1>2, <1>3 DEF Valued, Assigned
<1>5. Unassigned = Promise!Unassigned
  BY AbstractFacts DEF Promise!Unassigned
<1> QED
  BY <1>1, <1>3, <1>4, <1>5 DEF Promise!Assign, Promise!Walks

LEMMA MappedReuse ==
  ASSUME State, Scores, Ordered(queue, Active), SearchSound,
         NEW v \in Vars, ReuseTrail(v)
  PROVE  Ordered(queue', Active') /\ Promise!Look
<1>1. /\ Unassigned # {} /\ NextDecisionVariable(v) /\ pc = "search" /\ pc' = "restart"
      /\ lev' = lev /\ flags' = flags /\ stable' = stable
  BY DEF ReuseTrail, modeVars, assignVars, Searching
<1>2. /\ Ordered(queue', Active) /\ queue'.links = queue.links
      /\ queue'.stamp = queue.stamp
      /\ Promise!Walks(queue'.search)
  BY <1>1, MappedDecision
<1>3. /\ Active' = Active /\ Fresh' = Fresh /\ Created' = Created /\ Stamps' = Stamps
      /\ Valued' = Valued
  BY <1>1, <1>2 DEF Active, ACTIVE, Fresh, Created, Stamps, Valued, Assigned
<1> QED
  BY <1>1, <1>2, <1>3 DEF Promise!Look

(***************************************************************************)
(* Both modes.                                                             *)
(***************************************************************************)
LEMMA MappedSwitch ==
  ASSUME State, Ordered(queue, Active), SwitchSearchMode
  PROVE  /\ Ordered(queue', Active')
         /\ Promise!SwitchToStable \/ Promise!SwitchToFocused
<1>1. /\ Unassigned # {} /\ stable' = ~stable
      /\ queue' = IF stable THEN UpdateQueue(queue, queue.last) ELSE queue
      /\ flags' = flags /\ lev' = lev /\ pc' = pc /\ pending' = pending
  BY DEF SwitchSearchMode, assignVars, loopVars, ResetSearchOfQueue
<1>2. /\ Active' = Active /\ Fresh' = Fresh /\ Created' = Created /\ Valued' = Valued
      /\ Active # {} /\ stable \in BOOLEAN
  BY <1>1 DEF Active, ACTIVE, Fresh, Created, Valued, Assigned, Unassigned, State, StateTypes
<1>3. /\ Active \in SUBSET Vars
      /\ \A u \in Vars : Stamps[u] = StampOf(queue, u)
  BY AbstractFacts
<1>4. CASE ~stable
  <2>1. queue' = queue /\ Stamps' = Stamps
    BY <1>1, <1>4 DEF Stamps
  <2> QED
    BY <1>1, <1>2, <1>4, <2>1 DEF Promise!SwitchToStable
<1>5. CASE stable
  <2>1. /\ queue.last \in Active
        /\ \A u \in Active : StampOf(queue, u) <= StampOf(queue, queue.last)
    BY <1>2, OrderedEnds
  <2>2. LET r == UpdateQueue(queue, queue.last)
        IN  /\ Ordered(r, Active) /\ r.links = queue.links /\ r.stamp = queue.stamp
            /\ r.search = [idx |-> queue.last, stamp |-> StampOf(queue, queue.last)]
    BY <1>3, <2>1, OrderedSearch
  <2>3. /\ Ordered(queue', Active) /\ queue'.links = queue.links
        /\ queue'.stamp = queue.stamp
        /\ queue'.search = [idx |-> queue.last, stamp |-> StampOf(queue, queue.last)]
    BY <1>1, <1>5, <2>2
  <2>4. Stamps' = Stamps
    BY <2>3 DEF Stamps
  <2>5. /\ Promise!IsLastOf(queue.last, Active)
        /\ queue'.search = Promise!Position(queue.last, Stamps)
    BY <1>3, <2>1, <2>3 DEF Promise!IsLastOf, Promise!Position
  <2> QED
    BY <1>1, <1>2, <1>5, <2>1, <2>3, <2>4, <2>5 DEF Promise!SwitchToFocused
<1> QED
  BY <1>4, <1>5

LEMMA MappedStart ==
  ASSUME State, Ordered(queue, Active), StartSearch
  PROVE  /\ Ordered(queue', Active')
         /\ Promise!SwitchToStable \/ UNCHANGED Promise!vmtfVars
<1>1. /\ pc = "parse" /\ pc' = "search" /\ stable' = (Stable = 2) /\ ~stable
      /\ queue' = queue /\ flags' = flags /\ lev' = lev
  BY DEF StartSearch, assignVars, State, Phases
<1>2. /\ Active' = Active /\ Fresh' = Fresh /\ Created' = Created /\ Valued' = Valued
      /\ Stamps' = Stamps /\ stable \in BOOLEAN
  BY <1>1 DEF Active, ACTIVE, Fresh, Created, Valued, Assigned, Stamps, State, StateTypes
<1>3. CASE Stable = 2
  BY <1>1, <1>2, <1>3 DEF Promise!SwitchToStable
<1>4. CASE Stable # 2
  BY <1>1, <1>2, <1>4 DEF Promise!vmtfVars
<1> QED
  BY <1>3, <1>4

(***************************************************************************)
(* Backtracking and restarts.                                              *)
(***************************************************************************)
LEMMA MappedBacktrack ==
  ASSUME State, Ordered(queue, Active), NEW newLevel \in 0..level, BacktrackTo(newLevel),
         UNCHANGED <<flags, stable>>, Created' = Created
  PROVE  /\ Ordered(queue', Active')
         /\ \E S \in SUBSET Valued : Promise!Unassign(S)
<1> DEFINE kept == {v \in Vars : Keeps(newLevel, v)}
           seq == Among(trail, Vars \ kept)
           S == {v \in Vars : lev[v] > newLevel}
<1>1. /\ Active \in SUBSET Vars /\ queue \in Queues
      /\ Stamps \in [Vars -> Nat]
      /\ \A u \in Vars : Stamps[u] = StampOf(queue, u)
      /\ Valued \subseteq Active
  BY AbstractFacts
<1>2. /\ lev \in [Vars -> {UNASSIGNED} \cup Nat] /\ trail \in Seq(Vars)
      /\ newLevel \in Nat /\ stable \in BOOLEAN
      /\ \A v \in Vars : lev[v] > 0 => v \in ToSet(trail) /\ v \in Active
  BY DEF State, StateTypes, Levels, level, Active
<1>3. S \subseteq Active /\ S \subseteq Valued /\ S = Vars \ kept /\ S \subseteq ToSet(trail)
  <2>1. \A v \in Vars : lev[v] \in Int
    BY <1>2 DEF UNASSIGNED
  <2>2. \A v \in S : lev[v] > 0 /\ lev[v] # UNASSIGNED
    BY <1>2, <2>1 DEF UNASSIGNED
  <2> QED
    BY <1>2, <2>1, <2>2 DEF Keeps, Valued, Assigned
<1>4. seq \in Seq(Vars) /\ ToSet(seq) = S
  <2> HIDE DEF kept, S
  <2>1. seq \in Seq(Vars) /\ ToSet(seq) = ToSet(trail) \cap (Vars \ kept)
    BY <1>2, AmongFacts
  <2> QED
    BY <1>3, <2>1
<1>5. /\ lev' = [v \in Vars |-> IF v \in kept THEN lev[v] ELSE UNASSIGNED]
      /\ queue' = IF stable THEN queue ELSE FoldLeft(AddBackToQueue, queue, seq)
  BY DEF BacktrackTo
<1> HIDE DEF seq
<1>6. Active' = Active /\ Fresh' = Fresh
  BY DEF Active, ACTIVE, Fresh
<1>7. Valued' = Valued \ S
  <2> HIDE DEF kept, S
  <2> QED
    BY <1>1, <1>3, <1>5, <1>6 DEF Valued, Assigned
<1> HIDE DEF S, kept
<1>8. CASE stable
  <2>1. queue' = queue /\ Stamps' = Stamps
    BY <1>5, <1>8 DEF Stamps
  <2> QED
    BY <1>3, <1>6, <1>7, <1>8, <2>1 DEF Promise!Unassign
<1>9. CASE ~stable
  <2> DEFINE later == {u \in S : Stamps[u] > queue.search.stamp}
  <2>1. AddedBack(queue, queue', S)
    BY <1>1, <1>4, <1>5, <1>9, AllAddedBack
  <2>2. queue.search.stamp \in Nat /\ \A u \in S : Stamps[u] \in Nat /\ Stamps[u] = StampOf(queue, u)
    <3>1. queue.search.stamp \in 0..MaxStamp
      BY <1>1, QueueType
    <3> QED
      BY <1>1, <1>3, <3>1, MaxStampAssumption
  <2>3. CASE queue' = queue /\ \A u \in S : StampOf(queue, u) <= queue.search.stamp
    <3>1. later = {} /\ Stamps' = Stamps
      BY <2>2, <2>3 DEF Stamps
    <3> QED
      BY <1>3, <1>6, <1>7, <2>3, <3>1 DEF Promise!Unassign
  <2>4. ASSUME NEW v \in S, queue' = UpdateQueue(queue, v),
               StampOf(queue, v) > queue.search.stamp,
               \A u \in S : StampOf(queue, u) <= StampOf(queue, v)
        PROVE  /\ Ordered(queue', Active')
               /\ \E T \in SUBSET Valued : Promise!Unassign(T)
    <3>1. LET r == UpdateQueue(queue, v)
          IN  /\ Ordered(r, Active) /\ r.links = queue.links /\ r.stamp = queue.stamp
              /\ r.search = [idx |-> v, stamp |-> StampOf(queue, v)]
      BY <1>1, <1>3, OrderedSearch
    <3>2. /\ Ordered(queue', Active) /\ queue'.links = queue.links
          /\ queue'.stamp = queue.stamp
          /\ queue'.search = [idx |-> v, stamp |-> StampOf(queue, v)]
      BY <2>4, <3>1
    <3>3. Stamps' = Stamps
      BY <3>2 DEF Stamps
    <3>4. v \in later /\ Promise!IsLastOf(v, later) /\ queue'.search = Promise!Position(v, Stamps)
      BY <2>2, <2>4, <3>2 DEF Promise!IsLastOf, Promise!Position
    <3> QED
      BY <1>3, <1>6, <1>7, <1>9, <3>2, <3>3, <3>4 DEF Promise!Unassign
  <2> QED
    BY <2>1, <2>3, <2>4 DEF AddedBack
<1> QED
  BY <1>8, <1>9

(* The end of a factorization, on the root level. *)
LEMMA MappedUnbump ==
  ASSUME State, Ordered(queue, Active), FinishFactoring
  PROVE  Ordered(queue', Active') /\ Promise!Unbump
<1> DEFINE r == UnbumpFresh(queue, Among(Order(queue), pending))
           others == Active \ pending
<1>1. /\ Active \in SUBSET Vars /\ queue \in Queues
      /\ Stamps \in [Vars -> Nat]
      /\ \A u \in Vars : Stamps[u] = StampOf(queue, u)
      /\ pending \in SUBSET Active
  BY AbstractFacts DEF State, StateTypes
<1>2. /\ pc = "factor" /\ pc' = "search" /\ pending' = {}
      /\ flags' = flags /\ lev' = lev /\ stable' = stable
      /\ queue' = r
  BY DEF FinishFactoring, modeVars, assignVars
<1>3. level = 0 /\ Active # {}
  BY <1>2 DEF State, Phases
<1>4. Valued = {}
  <2>1. \A v \in Vars : /\ lev[v] \in {UNASSIGNED} \cup Nat /\ lev[v] <= 0
                        /\ lev[v] = 0 => flags[v] = "fixed"
    BY <1>3 DEF State, StateTypes, Levels
  <2>2. \A v \in Active : lev[v] = UNASSIGNED
    BY <2>1 DEF Active, ACTIVE
  <2> QED
    BY <2>2 DEF Valued, Assigned
<1>5. /\ Active' = Active /\ Fresh' = Fresh /\ Valued' = Valued
      /\ Created = pending /\ Created' = {}
  BY <1>2 DEF Active, ACTIVE, Fresh, Valued, Assigned, Created
<1>6. /\ Ordered(r, Active)
      /\ r.stamp = Cardinality(Active)
      /\ \A v \in pending : StampOf(r, v) = RankFromLastIn(queue, pending, v)
      /\ \A v \in others : StampOf(r, v) = Cardinality(pending) + RankIn(queue, others, v)
      /\ \A v \in Vars \ Active : StampOf(r, v) = StampOf(queue, v)
      /\ \E u \in Active : /\ StampOf(r, u) = r.stamp
                           /\ r.search = [idx |-> u, stamp |-> StampOf(r, u)]
  BY <1>1, <1>3, OrderedUnbump
<1> HIDE DEF r
<1>7. \A u \in others : RankIn(queue, others, u) = Promise!Rank(u, others)
  <2> SUFFICES ASSUME NEW u \in others
               PROVE  RankIn(queue, others, u) = Promise!Rank(u, others)
    OBVIOUS
  <2>1. {w \in others : StampOf(queue, w) <= StampOf(queue, u)}
          = {w \in others : Stamps[w] <= Stamps[u]}
    BY <1>1
  <2> QED
    BY <2>1, SameCardinality DEF RankIn, Promise!Rank
<1>8. \A u \in pending :
        RankFromLastIn(queue, pending, u) = Promise!RankFromLast(u, pending)
  <2> SUFFICES ASSUME NEW u \in pending
               PROVE  RankFromLastIn(queue, pending, u) = Promise!RankFromLast(u, pending)
    OBVIOUS
  <2>1. {w \in pending : StampOf(queue, w) >= StampOf(queue, u)}
          = {w \in pending : Stamps[w] >= Stamps[u]}
    BY <1>1
  <2> QED
    BY <2>1, SameCardinality DEF RankFromLastIn, Promise!RankFromLast
<1>9. /\ Stamps' = [u \in Vars |-> StampOf(r, u)]
      /\ \A u \in Vars : Stamps'[u] = StampOf(r, u)
  BY <1>2 DEF Stamps, StampOf
<1>10. Stamps' = Promise!Unbumped
  <2> HIDE DEF others
  <2>1. \A u \in Vars : StampOf(r, u) =
          IF u \in pending THEN Promise!RankFromLast(u, pending)
          ELSE IF u \in others THEN Cardinality(pending) + Promise!Rank(u, others)
          ELSE Stamps[u]
    <3>1. \A u \in Vars : u \in Active => u \in pending \/ u \in others
      BY DEF others
    <3>2. \A u \in pending : u \in Active
      BY <1>1
    <3> QED
      BY <1>1, <1>6, <1>7, <1>8, <3>1, <3>2
  <2> QED
    BY <1>5, <1>9, <2>1, SameCardinality DEF Promise!Unbumped, others
<1>11. queue'.stamp = Promise!Cardinality(Active)
  BY <1>2, <1>6, SameCardinality
<1>12. \E u \in Active : Stamps'[u] = queue'.stamp /\ queue'.search = Promise!Position(u, Stamps')
  BY <1>1, <1>2, <1>6, <1>9 DEF Promise!Position
<1> QED
  BY <1>2, <1>3, <1>4, <1>5, <1>6, <1>10, <1>11, <1>12 DEF Promise!Unbump

(***************************************************************************)
(* Bumping and reordering.                                                 *)
(***************************************************************************)
LEMMA MappedAdjust ==
  ASSUME State, Ordered(queue, Active), SearchSound, NEW v \in Vars, Adjust(v)
  PROVE  /\ Ordered(queue', Active')
         /\ Promise!MoveToFront(v) \/ UNCHANGED Promise!vmtfVars
<1>1. /\ flags' = flags /\ stable' = stable /\ lev' = lev
      /\ pc \in {"bump", "reorder"} /\ pc' \in {pc, "search"} /\ v \in pending
  BY DEF Adjust, assignVars, BumpQueue, BumpScores, ReorderQueue, ReorderScores
<1>2. /\ Active' = Active /\ Fresh' = Fresh /\ Valued' = Valued
      /\ Created = {} /\ Created' = {} /\ v \in Active
  BY <1>1 DEF Active, ACTIVE, Fresh, Valued, Assigned, Created, State, StateTypes
<1>3. CASE queue' = queue
  BY <1>1, <1>2, <1>3 DEF Promise!vmtfVars, Stamps
<1>4. CASE queue' = MoveToFront(queue, v, Assigned) /\ v # queue.last
  BY <1>1, <1>2, <1>4, MappedMove
<1>5. CASE queue' = MoveToFront(queue, v, Assigned) /\ v = queue.last
  <2>1. queue' = queue
    BY <1>5 DEF MoveToFront
  <2> QED
    BY <1>3, <2>1
<1> QED
  BY <1>3, <1>4, <1>5 DEF Adjust, BumpQueue, BumpScores, ReorderQueue, ReorderScores

-----------------------------------------------------------------------------
(***************************************************************************)
(* The inductive invariant.                                                *)
(***************************************************************************)
IInv == State /\ Scores /\ Ordered(queue, Active) /\ SearchSound

LEMMA QueueInitially ==
  ASSUME Init
  PROVE  /\ Ordered(queue, Active) /\ SearchSound
         /\ Promise!Init
<1>1. queue = InitQueue /\ stable = FALSE /\ pc = "parse" /\ pending = {}
      /\ flags = [v \in Vars |-> "new"] /\ lev = [v \in Vars |-> UNASSIGNED]
  BY DEF Init
<1>2. Active = {} /\ Fresh = Vars /\ Created = {} /\ Valued = {} /\ Unassigned = {}
  BY <1>1 DEF Active, ACTIVE, Fresh, Created, Valued, Unassigned
<1>3. queue \in Queues
  BY <1>1, MaxStampAssumption DEF Queues, Links, Elements, InitQueue, Detached
<1>4. Linked(queue, <<>>) /\ ToSet(<<>>) = {}
  BY <1>1 DEF Linked, At, InitQueue, Detached, IsInjective, ToSet, PrevOf, NextOf
<1>5. Increasing(queue, <<>>)
  BY DEF Increasing
<1>6. Ordered(queue, Active)
  BY <1>2, <1>3, <1>4, <1>5 DEF Ordered
<1>7. SearchSound
  BY <1>1, <1>2 DEF SearchSound, InitQueue
<1>8. Stamps = [v \in Vars |-> 0]
  BY <1>1 DEF Stamps, InitQueue, Detached
<1>9. Promise!Init
  BY <1>1, <1>2, <1>8 DEF Promise!Init, InitQueue
<1> QED
  BY <1>6, <1>7, <1>9

(***************************************************************************)
(* Every step is a step of Vmtf or does not touch what it describes.       *)
(***************************************************************************)
LEMMA MappedNextStep ==
  ASSUME IInv, [Next]_vars
  PROVE  /\ Ordered(queue', Active')
         /\ [Promise!Next]_(Promise!vmtfVars)
<1> USE DEF IInv
<1>1. ASSUME NEW v \in Vars, Activate(v)
      PROVE  Ordered(queue', Active') /\ [Promise!Next]_(Promise!vmtfVars)
  BY <1>1, MappedActivate DEF Promise!Next
<1>2. ASSUME NEW v \in Vars, Fix(v) \/ Eliminate(v)
      PROVE  Ordered(queue', Active') /\ [Promise!Next]_(Promise!vmtfVars)
  BY <1>2, MappedDeactivate DEF Promise!Next
<1>3. ASSUME NEW v \in Vars, MakeDecision(v)
      PROVE  Ordered(queue', Active') /\ [Promise!Next]_(Promise!vmtfVars)
  BY <1>3, MappedMakeDecision DEF Promise!Next
<1>4. ASSUME NEW v \in Vars, NEW l \in 1..level, Imply(v, l)
      PROVE  Ordered(queue', Active') /\ [Promise!Next]_(Promise!vmtfVars)
  BY <1>4, MappedImply DEF Promise!Next
<1>5. ASSUME NEW v \in Vars, ReuseTrail(v)
      PROVE  Ordered(queue', Active') /\ [Promise!Next]_(Promise!vmtfVars)
  BY <1>5, MappedReuse DEF Promise!Next
<1>6. ASSUME NEW v \in Vars, Adjust(v)
      PROVE  Ordered(queue', Active') /\ [Promise!Next]_(Promise!vmtfVars)
  BY <1>6, MappedAdjust DEF Promise!Next
<1>7. CASE Compact
  BY <1>7, MappedCompact DEF Promise!Next
<1>8. CASE StartSearch
  BY <1>8, MappedStart DEF Promise!Next
<1>9. CASE SwitchSearchMode
  BY <1>9, MappedSwitch DEF Promise!Next
<1>10. ASSUME NEW newLevel \in 0..level, BacktrackTo(newLevel),
              UNCHANGED <<flags, stable>>, Created' = Created
       PROVE  Ordered(queue', Active') /\ [Promise!Next]_(Promise!vmtfVars)
  BY <1>10, MappedBacktrack DEF Promise!Next
<1>11. ASSUME NEW newLevel \in 0..(level - 1), Backtrack(newLevel)
       PROVE  Ordered(queue', Active') /\ [Promise!Next]_(Promise!vmtfVars)
  <2>1. newLevel \in 0..level
    BY DEF State, StateTypes, level
  <2>2. UNCHANGED <<flags, stable>> /\ Created' = Created /\ BacktrackTo(newLevel)
    BY <1>11 DEF Backtrack, loopVars, modeVars, Created
  <2> QED
    BY <1>10, <2>1, <2>2
<1>12. CASE Restart
  <2>1. reuse \in 0..level
    BY DEF State, Phases
  <2>2. UNCHANGED <<flags, stable>> /\ Created' = Created /\ BacktrackTo(reuse)
    BY <1>12 DEF Restart, modeVars, Created
  <2> QED
    BY <1>10, <2>1, <2>2
<1>13. CASE FinishFactoring
  BY <1>13, MappedUnbump DEF Promise!Next
<1>14. CASE StartBumping \/ StartReordering \/ StartFactoring \/ Satisfied \/ UNCHANGED vars
  <2>1. /\ queue' = queue /\ flags' = flags /\ lev' = lev /\ stable' = stable
        /\ \/ pc' = pc /\ pending' = pending
           \/ pc = "search" /\ pc' # "factor"
           \/ pc = "search" /\ pending' = pending
    BY <1>14 DEF StartBumping, StartReordering, StartFactoring, Satisfied, vars, modeVars,
         assignVars, loopVars, Searching
  <2>2. pc = "search" => pending = {}
    BY DEF State, Phases
  <2>3. Created' = Created
    BY <2>1, <2>2 DEF Created
  <2>4. Active' = Active /\ Fresh' = Fresh /\ Valued' = Valued /\ Stamps' = Stamps
    BY <2>1 DEF Active, ACTIVE, Fresh, Valued, Assigned, Stamps
  <2> QED
    BY <2>1, <2>3, <2>4 DEF Promise!vmtfVars
<1> QED
  BY <1>1, <1>2, <1>3, <1>4, <1>5, <1>6, <1>7, <1>8, <1>9, <1>11, <1>12, <1>13,
     <1>14 DEF Next

LEMMA DecidedUnassigned ==
  ASSUME IInv, NEW v \in Vars, MakeDecision(v)
  PROVE  /\ v \in Unassigned
         /\ NextByHeuristic(v) => BestDecision(v)
BY MappedDecision DEF IInv, MakeDecision

LEMMA InitIInv == Init => IInv
  BY StateInitially, ScoresInitially, QueueInitially DEF IInv

LEMMA NextIInv == IInv /\ [Next]_vars => IInv'
<1> SUFFICES ASSUME IInv, [Next]_vars
             PROVE  IInv'
  OBVIOUS
<1>1. State /\ Scores /\ Ordered(queue, Active) /\ SearchSound
  BY DEF IInv
<1>2. \A v \in Vars : MakeDecision(v) => v \in Unassigned
  BY DecidedUnassigned
<1>3. State'
  BY <1>1, <1>2, StateInductive
<1>4. Scores'
  BY <1>1, <1>2, ScoresInductive
<1>5. Ordered(queue', Active') /\ [Promise!Next]_(Promise!vmtfVars)
  BY MappedNextStep
<1>6. Promise!IInv
  BY <1>1, PromiseInvariant
<1>7. Promise!IInv'
  <2>1. MaxStamp \in Nat /\ Promise!Cardinality(Vars) <= MaxStamp
    BY MaxStampAssumption, SameCardinality
  <2>2. Promise!IsFiniteSet(Vars) /\ DISCONNECT \notin Vars
    BY QueueVarsAssumption DEF Promise!IsFiniteSet, IsFiniteSet
  <2> QED
    BY <1>5, <1>6, <2>1, <2>2, Promise!NextIInv
<1>8. SearchSound'
  BY <1>7, PromiseKept
<1> QED
  BY <1>3, <1>4, <1>5, <1>8 DEF IInv

LEMMA Invariance == Spec => []IInv
  BY InitIInv, NextIInv, PTL DEF Spec

-----------------------------------------------------------------------------
(***************************************************************************)
(* The types of the solver's variables, among them that no score goes      *)
(* beyond twice MAX_SCORE before it is rescaled (bump.c), and the levels.  *)
(***************************************************************************)
THEOREM TypeCorrect == Spec => []TypeOK
<1>1. IInv => TypeOK
  <2> SUFFICES ASSUME IInv
               PROVE  TypeOK
    OBVIOUS
  <2>1. State /\ Scores /\ queue \in Queues
    BY OrderedType DEF IInv
  <2>2. queue.links \in [Vars -> [prev : Vars \cup {DISCONNECT},
                                  next : Vars \cup {DISCONNECT},
                                  stamp : 0..MaxStamp]]
    BY <2>1 DEF Queues, Links, Elements
  <2>3. /\ {queue.first, queue.last, queue.search.idx} \subseteq Vars \cup {DISCONNECT}
        /\ {queue.stamp, queue.search.stamp} \subseteq 0..MaxStamp
    BY <2>1, QueueType DEF Elements
  <2>4. scores.score \in [Vars -> 0..(2 * MaxScore)] /\ scinc \in 1..MaxScore
    <3>1. /\ scores.score \in [Vars -> Nat] /\ Bounded(scores, 2 * MaxScore)
          /\ scinc \in 1..MaxScore
      BY <2>1 DEF Scores, Heaps, HeapsOver
    <3>2. \A v \in Vars : scores.score[v] \in 0..(2 * MaxScore)
      BY <3>1, ScoresAssumption DEF Bounded
    <3> QED
      BY <3>1, <3>2
  <2>5. \A v \in Vars : /\ lev[v] \in {UNASSIGNED} \cup 0..level
                        /\ lev[v] = 0 <=> flags[v] = "fixed"
                        /\ lev[v] > 0 <=> v \in ToSet(trail)
    <3>1. \A v \in Vars : lev[v] \in {UNASSIGNED} \cup Nat /\ lev[v] <= level
      BY <2>1 DEF State, StateTypes, Levels
    <3>2. level \in Nat
      BY <2>1 DEF State, StateTypes, level
    <3> QED
      BY <2>1, <3>1, <3>2 DEF State, Levels
  <2>6. /\ stable \in BOOLEAN
        /\ flags \in [Vars -> {"new", "active", "fixed", "eliminated", "dropped"}]
        /\ \A l \in 1..level : lev[decisions[l]] = l
        /\ pc \in {"parse", "search", "restart", "bump", "reorder", "factor"}
        /\ pending \subseteq Active
        /\ pc \in {"bump", "reorder"} => pending # {}
        /\ pending # {} => pc \in {"bump", "reorder", "factor"}
        /\ reuse \in 0..level
    BY <2>1 DEF State, StateTypes, Levels, Phases
  <2> QED
    BY <2>2, <2>3, <2>4, <2>5, <2>6 DEF TypeOK
<1> QED
  BY <1>1, Invariance, PTL

(***************************************************************************)
(* The list is always linked in both directions through exactly the active *)
(* variables, in the order of the stamps (kissat_check_queue).             *)
(***************************************************************************)
THEOREM QueueCorrect == Spec => []QueueLinked
<1>1. IInv => QueueLinked
  <2> SUFFICES ASSUME IInv
               PROVE  QueueLinked
    OBVIOUS
  <2> DEFINE s == Order(queue)
  <2>1. Linked(queue, s) /\ Increasing(queue, s) /\ ToSet(s) = Active
    BY OrderedSequence DEF IInv
  <2> HIDE DEF s
  <2>2. s \in Seq(Vars) /\ Len(s) \in Nat /\ DOMAIN s = 1..Len(s)
    BY <2>1 DEF Linked
  <2>3. Len(s) = Cardinality(Active)
    BY <2>1, LengthBound DEF Linked
  <2>4. queue.last = IF s = <<>> THEN DISCONNECT ELSE Last(s)
    BY <2>1, <2>2 DEF Linked, At, Last
  <2>5. ASSUME NEW i \in DOMAIN s
        PROVE  /\ queue.links[s[i]].prev = IF i = 1 THEN DISCONNECT ELSE s[i - 1]
               /\ queue.links[s[i]].stamp <= queue.stamp
               /\ \A j \in 1..(i - 1) : queue.links[s[j]].stamp < queue.links[s[i]].stamp
    BY <2>1, <2>2 DEF Linked, Increasing, At, PrevOf, StampOf
  <2> QED
    BY <2>1, <2>3, <2>4, <2>5 DEF QueueLinked, s
<1> QED
  BY <1>1, Invariance, PTL

(***************************************************************************)
(* The cached position never has an unassigned variable behind it in       *)
(* focused mode, in whatever order modes, bumping, inprocessing and        *)
(* compaction follow each other (kissat_check_queue).                      *)
(***************************************************************************)
THEOREM SearchCorrect == Spec => []SearchSound
  BY Invariance, PTL DEF IInv

(***************************************************************************)
(* kissat_max_heap finds every candidate of stable mode, although focused  *)
(* mode does not put unassigned variables back (kissat_update_scores).     *)
(***************************************************************************)
THEOREM HeapCorrect == Spec => []HeapComplete
<1>1. IInv => HeapComplete
  BY DEF IInv, Scores
<1> QED
  BY <1>1, Invariance, PTL

(***************************************************************************)
(* No decision is worse than another unassigned variable (decide.c).       *)
(***************************************************************************)
LEMMA LongerByDecision ==
  ASSUME IInv, [Next]_vars, NEW v \in Vars, decisions' = Append(decisions, v)
  PROVE  MakeDecision(v)
<1>1. decisions \in Seq(Vars)
  BY DEF IInv, State, StateTypes
<1>2. Len(decisions') = Len(decisions) + 1 /\ decisions'[Len(decisions) + 1] = v
      /\ Len(decisions) \in Nat
  BY <1>1
<1>3. decisions' # decisions
  BY <1>2
<1>4. ASSUME NEW newLevel \in 0..level, BacktrackTo(newLevel)
      PROVE  FALSE
  <2>1. decisions' = SubSeq(decisions, 1, newLevel)
    BY <1>4 DEF BacktrackTo
  <2>2. newLevel \in Nat /\ newLevel <= Len(decisions)
    BY <1>2 DEF level
  <2>3. Len(decisions') = newLevel
    BY <1>1, <2>1, <2>2
  <2> QED
    BY <1>2, <2>2, <2>3
<1>5. ASSUME NEW newLevel \in 0..(level - 1), Backtrack(newLevel)
      PROVE  FALSE
  BY <1>2, <1>4, <1>5 DEF Backtrack, level
<1>6. ~Restart
  BY <1>4 DEF Restart, IInv, State, Phases
<1>7. ASSUME NEW w \in Vars, MakeDecision(w)
      PROVE  w = v
  BY <1>1, <1>2, <1>7 DEF MakeDecision
<1>8. ASSUME NEW w \in Vars, ~MakeDecision(w)
      PROVE  ~(Activate(w) \/ Fix(w) \/ Eliminate(w) \/ ReuseTrail(w) \/ Adjust(w)
               \/ \E l \in 1..level : Imply(w, l))
  BY <1>3 DEF Activate, Fix, Eliminate, ReuseTrail, Adjust, Imply, assignVars
<1>9. ~(Compact \/ StartSearch \/ SwitchSearchMode \/ StartBumping \/ StartReordering
        \/ StartFactoring \/ FinishFactoring \/ Satisfied \/ UNCHANGED vars)
  BY <1>3 DEF Compact, StartSearch, SwitchSearchMode, StartBumping, StartReordering,
     StartFactoring, FinishFactoring, Satisfied, vars, assignVars
<1> QED
  BY <1>5, <1>6, <1>7, <1>8, <1>9 DEF Next

THEOREM DecisionsBest == Spec => DecidesBest
<1>1. IInv /\ [Next]_vars =>
        [~Randec => \A v \in Vars : decisions' = Append(decisions, v) => BestDecision(v)]_vars
  <2> SUFFICES ASSUME IInv, [Next]_vars, ~Randec, NEW v \in Vars,
                      decisions' = Append(decisions, v)
               PROVE  BestDecision(v)
    OBVIOUS
  <2>1. MakeDecision(v)
    BY LongerByDecision
  <2>2. NextByHeuristic(v)
    BY <2>1 DEF MakeDecision, NextDecisionVariable, NextAtRandom
  <2> QED
    BY <2>1, <2>2, DecidedUnassigned
<1> QED
  BY <1>1, Invariance, PTL DEF Spec, DecidesBest

(***************************************************************************)
(* The linked list with its cached position implements the abstract queue: *)
(* every step of the solver is a step of Vmtf or leaves it alone.          *)
(***************************************************************************)
LEMMA SameOperators ==
  /\ Promise!Unassigned = Abstract!Unassigned
  /\ Promise!vmtfVars = Abstract!vmtfVars
  /\ \A v, f : Promise!Position(v, f) = Abstract!Position(v, f)
  /\ \A v, S : /\ Promise!IsLastOf(v, S) <=> Abstract!IsLastOf(v, S)
               /\ Promise!IsFirstOf(v, S) <=> Abstract!IsFirstOf(v, S)
               /\ Promise!Rank(v, S) = Abstract!Rank(v, S)
               /\ Promise!RankFromLast(v, S) = Abstract!RankFromLast(v, S)
  /\ \A v : Promise!Before(v) = Abstract!Before(v) /\ Promise!After(v) = Abstract!After(v)
  /\ \A S : Promise!Cardinality(S) = Abstract!Cardinality(S)
<1>1. \A S : Promise!Cardinality(S) = Abstract!Cardinality(S)
  BY DEF Promise!Cardinality, Abstract!Cardinality
<1>2. \A v, S : /\ Promise!Rank(v, S) = Abstract!Rank(v, S)
                /\ Promise!RankFromLast(v, S) = Abstract!RankFromLast(v, S)
  BY <1>1 DEF Promise!Rank, Abstract!Rank, Promise!RankFromLast, Abstract!RankFromLast
<1> QED
  BY <1>1, <1>2 DEF Promise!Unassigned, Abstract!Unassigned, Promise!vmtfVars,
     Abstract!vmtfVars, Promise!Position, Abstract!Position, Promise!IsLastOf,
     Abstract!IsLastOf, Promise!IsFirstOf, Abstract!IsFirstOf, Promise!Before,
     Abstract!Before, Promise!After, Abstract!After

LEMMA SameEnqueue ==
  ASSUME NEW v, NEW at, Promise!EnqueueLast(v, at)
  PROVE  Abstract!EnqueueLast(v, at)
<1>1. \A S : Promise!Restamped(v, S) = Abstract!Restamped(v, S)
  BY SameOperators DEF Promise!Restamped, Abstract!Restamped
<1> QED
  BY <1>1, SameOperators DEF Promise!EnqueueLast, Abstract!EnqueueLast

LEMMA SamePromise ==
  /\ Promise!Init => Abstract!Init
  /\ [Promise!Next]_(Promise!vmtfVars) => [Abstract!Next]_(Abstract!vmtfVars)
<1>1. Promise!Init => Abstract!Init
  BY DEF Promise!Init, Abstract!Init
<1>2. ASSUME NEW v \in Vars, Promise!Activate(v)
      PROVE  Abstract!Activate(v)
  BY <1>2, SameEnqueue DEF Promise!Activate, Abstract!Activate
<1>3. ASSUME NEW v \in Vars, Promise!Deactivate(v)
      PROVE  Abstract!Deactivate(v)
  BY <1>3, SameOperators DEF Promise!Deactivate, Abstract!Deactivate,
     Promise!SuccessorOf, Abstract!SuccessorOf
<1>4. ASSUME NEW v \in Vars, Promise!MoveToFront(v)
      PROVE  Abstract!MoveToFront(v)
  <2>1. \A u : Promise!PredecessorOf(v, u) => Abstract!PredecessorOf(v, u)
    BY SameOperators DEF Promise!PredecessorOf, Abstract!PredecessorOf
  <2> QED
    BY <1>4, <2>1, SameOperators, SameEnqueue DEF Promise!MoveToFront, Abstract!MoveToFront
<1>5. ASSUME NEW v \in Vars, Promise!Assign(v)
      PROVE  Abstract!Assign(v)
  BY <1>5, SameOperators DEF Promise!Assign, Abstract!Assign, Promise!Walks, Abstract!Walks
<1>6. ASSUME Promise!Unbump
      PROVE  Abstract!Unbump
  <2>1. Promise!Unbumped = Abstract!Unbumped
    BY SameOperators DEF Promise!Unbumped, Abstract!Unbumped
  <2> QED
    BY <1>6, <2>1, SameOperators DEF Promise!Unbump, Abstract!Unbump
<1>7. ASSUME Promise!Compact
      PROVE  Abstract!Compact
  BY <1>7, SameOperators DEF Promise!Compact, Abstract!Compact
<1>8. ASSUME Promise!Look
      PROVE  Abstract!Look
  BY <1>8, SameOperators DEF Promise!Look, Abstract!Look, Promise!Walks, Abstract!Walks
<1>9. ASSUME NEW S \in SUBSET Valued, Promise!Unassign(S)
      PROVE  Abstract!Unassign(S)
  BY <1>9, SameOperators DEF Promise!Unassign, Abstract!Unassign
<1>10. ASSUME Promise!SwitchToStable \/ Promise!SwitchToFocused
       PROVE  Abstract!SwitchToStable \/ Abstract!SwitchToFocused
  BY <1>10, SameOperators DEF Promise!SwitchToStable, Abstract!SwitchToStable,
     Promise!SwitchToFocused, Abstract!SwitchToFocused
<1>11. Promise!Next => Abstract!Next
  BY <1>2, <1>3, <1>4, <1>5, <1>6, <1>7, <1>8, <1>9, <1>10
     DEF Promise!Next, Abstract!Next
<1>12. UNCHANGED Promise!vmtfVars => UNCHANGED Abstract!vmtfVars
  BY DEF Promise!vmtfVars, Abstract!vmtfVars
<1> QED
  BY <1>1, <1>11, <1>12

THEOREM VmtfImplemented == Spec => ImplementsVmtf
<1>1. Init => Abstract!Init
  BY QueueInitially, SamePromise
<1>2. IInv /\ [Next]_vars => [Abstract!Next]_(Abstract!vmtfVars)
  BY MappedNextStep, SamePromise
<1> QED
  BY <1>1, <1>2, Invariance, PTL DEF Spec, ImplementsVmtf, Abstract!Spec
=============================================================================
