-------------------------- MODULE RecursionTheorems --------------------------
(***************************************************************************)
(* Induction and recursion in a form the provers can instantiate: what is  *)
(* proved by induction is a set, what a recursive definition computes from *)
(* its own values is a function, and what is folded over a sequence or a   *)
(* set is Op.  A proof uses an instance of this module that puts an        *)
(* operator of the model for Op; the lemmas on induction and recursion do  *)
(* not depend on which.  The provers carry the definitions of every        *)
(* instance along in every step, so this module keeps to the smallest      *)
(* libraries; what it takes from larger ones, induction itself and the     *)
(* size of a finite set, are hypotheses that its user proves.              *)
(***************************************************************************)
EXTENDS Integers, Sequences, Folds, TLAPS

CONSTANT Op(_, _)

-----------------------------------------------------------------------------
(* Induction and recursion. *)

NatInduction ==
  \A P : 0 \in P /\ (\A n \in Nat : n \in P => n + 1 \in P) => Nat \subseteq P

(* Induction over the natural numbers. *)
LEMMA SetInduction ==
  ASSUME NatInduction, NEW P, 0 \in P, \A n \in Nat : n \in P => n + 1 \in P
  PROVE  Nat \subseteq P
BY DEF NatInduction

(* A set of natural numbers that is not empty has a smallest element. *)
LEMMA SmallestElement ==
  ASSUME NatInduction, NEW T \in SUBSET Nat, T # {}
  PROVE  \E n \in T : \A m \in T : n <= m
<1> SUFFICES ASSUME \A n \in T : \E m \in T : m < n
             PROVE  FALSE
  OBVIOUS
<1> DEFINE P == {n \in Nat : \A m \in T : n <= m}
<1>1. 0 \in P
  OBVIOUS
<1>2. ASSUME NEW n \in Nat, n \in P
      PROVE  n + 1 \in P
  <2>1. n \notin T
    BY <1>2
  <2>2. \A m \in T : n <= m /\ n # m
    BY <1>2, <2>1
  <2> QED
    BY <2>2
<1>3. Nat \subseteq P
  <2> HIDE DEF P
  <2> QED
    BY <1>1, <1>2, SetInduction
<1>4. PICK t \in T : TRUE
  OBVIOUS
<1>5. t + 1 \in P
  <2>1. t + 1 \in Nat
    OBVIOUS
  <2> HIDE DEF P
  <2> QED
    BY <1>3, <2>1
<1> QED
  BY <1>5

(* Induction over a rank. *)
LEMMA RankInduction ==
  ASSUME NatInduction, NEW S, NEW rank \in [S -> Nat], NEW P,
         \A x \in S : (\A y \in S : rank[y] < rank[x] => y \in P) => x \in P
  PROVE  S \subseteq P
<1> DEFINE T == {rank[x] : x \in S \ P}
<1> SUFFICES ASSUME T # {} PROVE FALSE
  OBVIOUS
<1>1. T \in SUBSET Nat
  OBVIOUS
<1>2. PICK n \in T : \A m \in T : n <= m
  <2> HIDE DEF T
  <2> QED
    BY <1>1, SmallestElement
<1>3. PICK x \in S \ P : rank[x] = n
  OBVIOUS
<1>4. ASSUME NEW y \in S, rank[y] < rank[x], y \notin P
      PROVE  FALSE
  <2>1. rank[y] \in T /\ rank[y] \in Nat /\ rank[x] \in Nat
    BY <1>4
  <2>2. rank[x] <= rank[y]
    <3> HIDE DEF T
    <3> QED
      BY <1>2, <1>3, <2>1
  <2> QED
    BY <1>4, <2>1, <2>2
<1> QED
  BY <1>3, <1>4

(***************************************************************************)
(* Step[f] is a function computed from f such that Step[f][x] depends on   *)
(* the values of f at elements of smaller rank only: it has a fixpoint,    *)
(* the recursive function whose equation it is.                            *)
(***************************************************************************)
Recursive(S, T, N, rank, Step) ==
  /\ T # {}
  /\ N \in Nat
  /\ rank \in [S -> 0..N]
  /\ Step \in [[S -> T] -> [S -> T]]
  /\ \A f, g \in [S -> T], x \in S :
       (\A y \in S : rank[y] < rank[x] => f[y] = g[y]) => Step[f][x] = Step[g][x]

LEMMA RankRecursion ==
  ASSUME NatInduction, NEW S, NEW T, NEW N, NEW rank, NEW Step,
         Recursive(S, T, N, rank, Step)
  PROVE  \E f \in [S -> T] : f = Step[f]
<1> USE DEF Recursive
<1> DEFINE Upto(f, n) == \A x \in S : rank[x] < n => f[x] = Step[f][x]
           P == {n \in Nat : \E f \in [S -> T] : Upto(f, n)}
<1>1. 0 \in P
  <2>1. PICK t \in T : TRUE
    OBVIOUS
  <2>2. [x \in S |-> t] \in [S -> T] /\ Upto([x \in S |-> t], 0)
    OBVIOUS
  <2> QED
    BY <2>2
<1>2. ASSUME NEW n \in Nat, n \in P
      PROVE  n + 1 \in P
  <2>1. PICK f \in [S -> T] : Upto(f, n)
    BY <1>2
  <2> DEFINE g == [x \in S |-> Step[f][x]]
  <2>2. g \in [S -> T]
    OBVIOUS
  <2>3. ASSUME NEW x \in S, rank[x] < n + 1
        PROVE  g[x] = Step[g][x]
    <3>1. \A y \in S : rank[y] < rank[x] => f[y] = g[y]
      BY <2>1, <2>3
    <3>2. Step[f][x] = Step[g][x]
      <4> HIDE DEF g
      <4> QED
        BY <2>2, <3>1
    <3> QED
      BY <3>2
  <2> HIDE DEF g
  <2> QED
    BY <2>2, <2>3
<1>3. N + 1 \in P
  <2> HIDE DEF P
  <2> QED
    BY <1>1, <1>2, SetInduction
<1>4. PICK f \in [S -> T] : Upto(f, N + 1)
  BY <1>3
<1> QED
  BY <1>4

(* A function on the first numbers is a sequence. *)
LEMMA FunctionIsSeq ==
  ASSUME NEW X, NEW n \in Nat, NEW f \in [1..n -> X]
  PROVE  f \in Seq(X) /\ Len(f) = n
OBVIOUS

(***************************************************************************)
(* A recursive function on the first numbers that steps from one value to  *)
(* the next one.                                                           *)
(***************************************************************************)
Iterates(T, N, base, Step) ==
  N \in Nat /\ base \in T /\ Step \in [1..N -> [T -> T]]

IterateStep(Step, f, i, base) == IF i = 0 THEN base ELSE Step[i][f[i - 1]]

LEMMA Iteration ==
  ASSUME NatInduction, NEW T, NEW N, NEW base, NEW Step, Iterates(T, N, base, Step)
  PROVE  \E f \in [0..N -> T] : f = [i \in 0..N |-> IterateStep(Step, f, i, base)]
<1> USE DEF Iterates
<1> DEFINE D == 0..N
           Next == [f \in [D -> T] |-> [i \in D |-> IterateStep(Step, f, i, base)]]
           rank == [i \in D |-> i]
<1>1. ASSUME NEW f \in [D -> T], NEW i \in D
      PROVE  IterateStep(Step, f, i, base) \in T
  <2>1. CASE i = 0
    BY <2>1 DEF IterateStep
  <2>2. CASE i # 0
    <3>1. i \in 1..N /\ i - 1 \in D
      BY <2>2
    <3>2. Step[i] \in [T -> T] /\ f[i - 1] \in T
      BY <3>1
    <3> QED
      BY <2>2, <3>2 DEF IterateStep
  <2> QED
    BY <2>1, <2>2
<1>2. ASSUME NEW f \in [D -> T], NEW g \in [D -> T], NEW i \in D,
             \A j \in D : rank[j] < rank[i] => f[j] = g[j]
      PROVE  IterateStep(Step, f, i, base) = IterateStep(Step, g, i, base)
  <2>1. CASE i = 0
    BY <2>1 DEF IterateStep
  <2>2. CASE i # 0
    <3>1. i - 1 \in D /\ rank[i - 1] < rank[i]
      BY <2>2
    <3>2. f[i - 1] = g[i - 1]
      BY <1>2, <3>1
    <3> QED
      BY <3>2 DEF IterateStep
  <2> QED
    BY <2>1, <2>2
<1>3. Recursive(D, T, N, rank, Next)
  <2>1. Next \in [[D -> T] -> [D -> T]]
    BY <1>1
  <2>2. \A f, g \in [D -> T], i \in D :
          (\A j \in D : rank[j] < rank[i] => f[j] = g[j]) => Next[f][i] = Next[g][i]
    BY <1>2
  <2>3. rank \in [D -> 0..N]
    OBVIOUS
  <2> HIDE DEF Next, rank, D
  <2> QED
    BY <2>1, <2>2, <2>3 DEF Recursive
<1>4. PICK f \in [D -> T] : f = Next[f]
  <2> HIDE DEF Next, rank, D
  <2> QED
    BY <1>3, RankRecursion
<1> QED
  BY <1>4

-----------------------------------------------------------------------------
(* Folding over a sequence, element by element. *)

Largest(S) == CHOOSE x \in S : \A y \in S : x >= y

(* What FoldLeft of SequencesExt stands for. *)
FoldedLeft(base, seq) ==
  MapThenFoldSet(LAMBDA x, y : Op(y, x), base, LAMBDA i : seq[i],
                 LAMBDA S : Largest(S), DOMAIN seq)

(* Inv[i] holds the results that folding may have after i elements. *)
KeepsLeft(Inv, base, seq) ==
  /\ base \in Inv[0]
  /\ \A i \in 1..Len(seq) : \A x \in Inv[i - 1] : Op(x, seq[i]) \in Inv[i]

LEMMA LargestOf ==
  ASSUME NatInduction, NEW n \in Nat, NEW s \in SUBSET (1..n), s # {}
  PROVE  Largest(s) \in s /\ \A y \in s : y <= Largest(s)
<1> DEFINE T == {n - y : y \in s}
<1>0. \A y \in s : y \in Nat /\ y <= n /\ n - y \in Nat
  OBVIOUS
<1>1. T \in SUBSET Nat /\ T # {}
  BY <1>0
<1>2. PICK m \in T : \A k \in T : m <= k
  <2> HIDE DEF T
  <2> QED
    BY <1>1, SmallestElement
<1>3. PICK x \in s : m = n - x
  OBVIOUS
<1>4. \A y \in s : x >= y
  <2>1. \A y \in s : n - y \in T
    OBVIOUS
  <2>2. \A y \in s : n - x <= n - y
    BY <1>2, <1>3, <2>1
  <2> QED
    BY <1>0, <2>2
<1>5. Largest(s) \in s /\ \A y \in s : Largest(s) >= y
  BY <1>4 DEF Largest
<1>6. \A y \in s : y \in Int
  OBVIOUS
<1> QED
  BY <1>5, <1>6

LEMMA FoldLeftInduction ==
  ASSUME NatInduction, NEW E, NEW seq \in Seq(E), NEW base, NEW Inv,
         KeepsLeft(Inv, base, seq)
  PROVE  FoldedLeft(base, seq) \in Inv[Len(seq)]
<1> DEFINE N == Len(seq)
           D == 1..N
           value(f, s) == IF s = {} THEN base ELSE Op(f[s \ {Largest(s)}], seq[Largest(s)])
           rank(s) == IF s = {} THEN 0 ELSE Largest(s)
           Upto(f, n) == \A s \in SUBSET D : rank(s) < n => f[s] = value(f, s)
           P == {n \in Nat : \E f : Upto(f, n)}
<1>1. N \in Nat /\ DOMAIN seq = D
  OBVIOUS
<1>2. \A s \in SUBSET D : s # {} => /\ Largest(s) \in s
                                    /\ s \ {Largest(s)} \in SUBSET D
                                    /\ rank(s \ {Largest(s)}) < rank(s)
  <2> SUFFICES ASSUME NEW s \in SUBSET D, s # {}
               PROVE  /\ Largest(s) \in s
                      /\ s \ {Largest(s)} \in SUBSET D
                      /\ rank(s \ {Largest(s)}) < rank(s)
    OBVIOUS
  <2> DEFINE x == Largest(s)
             r == s \ {x}
             m == Largest(r)
  <2>1. x \in s /\ \A y \in s : y <= x
    BY <1>1, LargestOf
  <2>2. r # {} => m \in r
    BY <1>1, LargestOf
  <2>3. \A y \in s : y \in Nat /\ y > 0 /\ y <= N
    BY <1>1
  <2> HIDE DEF m, x
  <2>4. ASSUME r # {}
        PROVE  m < x
    <3>1. m \in s /\ m # x
      BY <2>2, <2>4
    <3> HIDE DEF r
    <3> QED
      BY <2>1, <2>3, <3>1
  <2>5. x > 0 /\ r \in SUBSET D
    BY <2>1, <2>3
  <2> HIDE DEF r
  <2>6. rank(r) < x
    BY <2>4, <2>5 DEF m
  <2>7. rank(s) = x
    BY DEF x
  <2> QED
    BY <2>1, <2>5, <2>6, <2>7 DEF x, r
<1>3. \A s \in SUBSET D : rank(s) \in 0..N
  <2> SUFFICES ASSUME NEW s \in SUBSET D, s # {}
               PROVE  Largest(s) \in 0..N
    BY <1>1
  <2>1. \A y \in s : y \in 0..N
    BY <1>1
  <2>2. Largest(s) \in s
    BY <1>2
  <2> QED
    BY <2>1, <2>2
<1> HIDE DEF rank, D
<1>4. 0 \in P
  BY <1>1, <1>3
<1>5. ASSUME NEW n \in Nat, n \in P
      PROVE  n + 1 \in P
  <2>1. PICK f : Upto(f, n)
    BY <1>5
  <2> DEFINE g == [s \in SUBSET D |-> value(f, s)]
  <2>2. ASSUME NEW s \in SUBSET D, rank(s) < n + 1
        PROVE  g[s] = value(g, s)
    <3>1. CASE s = {}
      BY <3>1
    <3>2. CASE s # {}
      <4> DEFINE r == s \ {Largest(s)}
      <4>1. r \in SUBSET D /\ rank(r) < n
        BY <1>1, <1>2, <1>3, <2>2, <3>2
      <4>2. f[r] = g[r]
        <5> HIDE DEF r
        <5> QED
          BY <2>1, <4>1
      <4>3. value(f, s) = value(g, s)
        <5> HIDE DEF g
        <5> QED
          BY <3>2, <4>2
      <4>4. g[s] = value(f, s)
        BY <2>2
      <4> QED
        BY <4>3, <4>4
    <3> QED
      BY <3>1, <3>2
  <2>3. Upto(g, n + 1)
    <3> HIDE DEF g
    <3> QED
      BY <2>2
  <2>4. \E f_1 : Upto(f_1, n + 1)
    <3> HIDE DEF g, Upto
    <3> QED
      BY <2>3
  <2> QED
    <3> HIDE DEF Upto
    <3> QED
      BY <2>4
<1>6. N + 1 \in P
  <2> HIDE DEF P
  <2>1. Nat \subseteq P
    BY <1>4, <1>5, SetInduction
  <2> QED
    BY <1>1, <2>1
<1> DEFINE equation(f) == f = [s \in SUBSET D |-> value(f, s)]
<1>7. \E f : equation(f)
  <2>1. PICK f : Upto(f, N + 1)
    BY <1>6
  <2> DEFINE g == [s \in SUBSET D |-> value(f, s)]
  <2>2. ASSUME NEW s \in SUBSET D
        PROVE  f[s] = g[s]
    <3>1. rank(s) < N + 1
      BY <1>1, <1>3
    <3>2. f[s] = value(f, s)
      BY <2>1, <3>1
    <3>3. g[s] = value(f, s)
      OBVIOUS
    <3> QED
      BY <3>2, <3>3
  <2>3. ASSUME NEW s \in SUBSET D
        PROVE  g[s] = value(g, s)
    <3>1. CASE s = {}
      BY <3>1
    <3>2. CASE s # {}
      <4>1. f[s \ {Largest(s)}] = g[s \ {Largest(s)}]
        <5> HIDE DEF g
        <5> QED
          BY <1>2, <2>2, <3>2
      <4> QED
        BY <3>2, <4>1
    <3> QED
      BY <3>1, <3>2
  <2>4. equation(g)
    <3>1. g = [s \in SUBSET D |-> g[s]]
      OBVIOUS
    <3> HIDE DEF g
    <3> QED
      BY <2>3, <3>1
  <2> QED
    BY <2>4
<1> DEFINE iter == CHOOSE f : equation(f)
<1>8. FoldedLeft(base, seq) = iter[D]
  BY <1>1 DEF FoldedLeft, MapThenFoldSet
<1>9. \A s \in SUBSET D : iter[s] = value(iter, s)
  <2>1. equation(iter)
    BY <1>7
  <2> HIDE DEF iter
  <2> QED
    BY <2>1
<1> HIDE DEF iter
<1> DEFINE Q == {i \in Nat : i <= N => iter[1..i] \in Inv[i]}
<1>10. 0 \in Q
  <2>1. 1..0 = {} /\ {} \in SUBSET D
    OBVIOUS
  <2> QED
    BY <1>9, <2>1 DEF KeepsLeft
<1>11. ASSUME NEW i \in Nat, i \in Q
       PROVE  i + 1 \in Q
  <2> SUFFICES ASSUME i + 1 <= N
               PROVE  iter[1..(i + 1)] \in Inv[i + 1]
    OBVIOUS
  <2>1. iter[1..i] \in Inv[i]
    BY <1>1, <1>11
  <2>2. 1..(i + 1) \in SUBSET D /\ 1..(i + 1) # {} /\ i + 1 \in 1..(i + 1)
    <3>1. i + 1 \in Nat /\ 1 <= i + 1 /\ i + 1 <= N /\ N \in Nat
      BY <1>1
    <3>2. ASSUME NEW x \in 1..(i + 1)
          PROVE  x \in D
      BY <3>1 DEF D
    <3>3. i + 1 \in 1..(i + 1)
      BY <3>1
    <3> QED
      BY <3>2, <3>3
  <2>3. Largest(1..(i + 1)) = i + 1
    <3>1. /\ Largest(1..(i + 1)) \in 1..(i + 1)
          /\ \A y \in 1..(i + 1) : y <= Largest(1..(i + 1))
      <4>1. i + 1 \in Nat /\ 1..(i + 1) \in SUBSET (1..(i + 1))
        OBVIOUS
      <4> QED
        BY <2>2, <4>1, LargestOf
    <3> QED
      BY <2>2, <3>1
  <2>4. (1..(i + 1)) \ {i + 1} = 1..i
    OBVIOUS
  <2>5. iter[1..(i + 1)] = Op(iter[1..i], seq[i + 1])
    BY <1>9, <2>2, <2>3, <2>4
  <2>6. i + 1 \in 1..N /\ (i + 1) - 1 = i
    BY <1>1
  <2> QED
    BY <2>1, <2>5, <2>6 DEF KeepsLeft
<1>12. N \in Q
  <2> HIDE DEF Q
  <2>1. Nat \subseteq Q
    BY <1>10, <1>11, SetInduction
  <2> QED
    BY <1>1, <2>1
<1> QED
  BY <1>1, <1>8, <1>12 DEF D

(***************************************************************************)
(* Folding over a finite set: the results stay in Inv.                     *)
(***************************************************************************)
(* What FoldSet of FiniteSetsExt stands for. *)
FoldedSet(base, S) ==
  MapThenFoldSet(Op, base, LAMBDA x : x, LAMBDA s : CHOOSE x \in s : TRUE, S)

(* The size of every subset of S, which is finite. *)
Sizes(size, S) ==
  /\ size \in [SUBSET S -> Nat]
  /\ \A s \in SUBSET S : size[s] <= size[S]
  /\ \A s \in SUBSET S : \A x \in s : size[s \ {x}] < size[s]

KeepsSet(Inv, base, S) ==
  /\ base \in Inv
  /\ \A x \in S : \A a \in Inv : Op(x, a) \in Inv

LEMMA FoldSetInduction ==
  ASSUME NatInduction, NEW S, NEW size, Sizes(size, S), NEW Inv, NEW base,
         KeepsSet(Inv, base, S)
  PROVE  FoldedSet(base, S) \in Inv
<1> USE DEF KeepsSet
<1> DEFINE D == SUBSET S
           N == size[S]
           pick(s) == CHOOSE x \in s : TRUE
           value(f, s) == IF s = {} THEN base ELSE Op(pick(s), f[s \ {pick(s)}])
           rank == size
           Step == [f \in [D -> Inv] |-> [s \in D |-> value(f, s)]]
           equation(f) == f = [s \in D |-> value(f, s)]
<1>1. \A s \in D : s # {} => pick(s) \in s /\ pick(s) \in S /\ s \ {pick(s)} \in D
  OBVIOUS
<1>2. N \in Nat /\ rank \in [D -> 0..N]
  <2>1. size \in [D -> Nat] /\ S \in D /\ \A s \in D : size[s] <= size[S]
    BY DEF Sizes
  <2> HIDE DEF D
  <2> QED
    BY <2>1
<1>3. \A s \in D : s # {} => rank[s \ {pick(s)}] < rank[s]
  BY <1>1 DEF Sizes
<1> HIDE DEF pick
<1>4. ASSUME NEW f \in [D -> Inv], NEW s \in D
      PROVE  value(f, s) \in Inv
  BY <1>1
<1>5. ASSUME NEW f \in [D -> Inv], NEW g \in [D -> Inv], NEW s \in D,
             \A t \in D : rank[t] < rank[s] => f[t] = g[t]
      PROVE  value(f, s) = value(g, s)
  <2> HIDE DEF rank
  <2> QED
    BY <1>1, <1>3, <1>5
<1>6. Recursive(D, Inv, N, rank, Step)
  <2>1. Step \in [[D -> Inv] -> [D -> Inv]]
    BY <1>4
  <2>2. \A f, g \in [D -> Inv] : \A s \in D :
          (\A t \in D : rank[t] < rank[s] => f[t] = g[t]) => Step[f][s] = Step[g][s]
    <3> HIDE DEF value, rank
    <3> QED
      BY <1>5
  <2> HIDE DEF Step, rank, N, D
  <2> QED
    BY <1>2, <2>1, <2>2 DEF Recursive
<1>7. PICK g \in [D -> Inv] : g = Step[g]
  <2> HIDE DEF Step, rank, N, D
  <2> QED
    BY <1>6, RankRecursion
<1>8. equation(g)
  BY <1>7
<1> DEFINE iter == CHOOSE f : equation(f)
<1>9. FoldedSet(base, S) = iter[S]
  BY DEF FoldedSet, MapThenFoldSet, pick
<1>10. \A s \in D : iter[s] = value(iter, s)
  <2>1. equation(iter)
    BY <1>8
  <2> HIDE DEF iter
  <2> QED
    BY <2>1
<1> HIDE DEF iter
<1> DEFINE P == {s \in D : iter[s] \in Inv}
<1>11. ASSUME NEW s \in D, \A t \in D : rank[t] < rank[s] => t \in P
       PROVE  s \in P
  <2>1. CASE s = {}
    BY <1>10, <2>1
  <2>2. CASE s # {}
    <3>1. s \ {pick(s)} \in P
      <4> HIDE DEF P, rank
      <4> QED
        BY <1>1, <1>3, <1>11, <2>2
    <3>2. iter[s] = Op(pick(s), iter[s \ {pick(s)}])
      BY <1>10, <2>2
    <3>3. iter[s \ {pick(s)}] \in Inv
      BY <3>1
    <3> DEFINE y == iter[s \ {pick(s)}]
    <3> HIDE DEF y
    <3>4. Op(pick(s), y) \in Inv
      BY <1>1, <2>2, <3>3 DEF y
    <3> QED
      BY <3>2, <3>4 DEF y
  <2> QED
    BY <2>1, <2>2
<1>12. D \subseteq P
  <2>1. rank \in [D -> Nat]
    BY <1>2
  <2> HIDE DEF P, rank, D
  <2> QED
    BY <1>11, <2>1, RankInduction
<1> QED
  BY <1>9, <1>12
=============================================================================
