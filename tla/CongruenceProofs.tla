--------------------------- MODULE CongruenceProofs ---------------------------
(***************************************************************************)
(* Congruence closure keeps the meaning of the clauses, for every formula. *)
(*                                                                         *)
(* F is a set of models, those of the formula the procedure began with.    *)
(* An operator of Closure keeps what is true in all of F: each clause,     *)
(* literal, merge and gate it adds is a consequence of what was there.     *)
(*                                                                         *)
(* The second part is about the closure itself: no gate is lost by the     *)
(* occurrences, and it is complete when nothing is left to propagate.      *)
(***************************************************************************)
EXTENDS Congruence, FiniteSetTheorems, TLAPS

(* Induction over the natural numbers. *)
LEMMA Counting ==
  \A P : 0 \in P /\ (\A n \in Nat : n \in P => n + 1 \in P) => Nat \subseteq P
<1> SUFFICES ASSUME NEW P, 0 \in P, \A n \in Nat : n \in P => n + 1 \in P,
                    ~ (Nat \subseteq P)
             PROVE  FALSE
  OBVIOUS
<1> DEFINE R == OpToRel(<, Nat)
           T == Nat \ P
<1>1. \A m, n \in Nat : <<m, n>> \in R <=> m < n
  BY Zenon DEF OpToRel
<1>2. PICK n \in T : \A m \in T : ~ (<<m, n>> \in R)
  <2>1. IsWellFoundedOn(R, Nat) /\ T \subseteq Nat /\ T # {}
    BY NatLessThanWellFounded
  <2> HIDE DEF R, T
  <2> QED
    BY <2>1, WFMin
<1>3. n \in Nat /\ n \notin P /\ \A m \in Nat : m < n => m \in P
  <2> HIDE DEF R
  <2> QED
    BY <1>1, <1>2
<1>4. n - 1 \in Nat /\ n - 1 < n /\ (n - 1) + 1 = n
  BY <1>3
<1> QED
  BY <1>3, <1>4

(* What strengthening one clause after another keeps. *)
AllStrengthen == INSTANCE RecursionTheorems WITH Op <- WithOneOf

LEMMA AllStrengthenCounting == AllStrengthen!NatInduction
BY Counting DEF AllStrengthen!NatInduction

-----------------------------------------------------------------------------
(* Literals and models. *)

LEMMA LitFacts ==
  ASSUME NEW l \in LITS
  PROVE  /\ l \in Int /\ l # 0
         /\ NOT(l) \in LITS /\ NOT(NOT(l)) = l /\ NOT(l) # l
         /\ IDX(l) \in Vars /\ IDX(l) \in LITS /\ IDX(NOT(l)) = IDX(l)
         /\ l = IDX(l) \/ l = NOT(IDX(l))
         /\ NEGATED(l) => l = NOT(IDX(l))
         /\ ~NEGATED(l) => l = IDX(l)
         /\ ~NEGATED(l) => NEGATED(NOT(l))
         /\ NEGATED(l) => ~NEGATED(NOT(l))
BY VarsAssumption DEF LITS, NOT, IDX, NEGATED

LEMMA VarFacts ==
  ASSUME NEW v \in Vars
  PROVE  v \in LITS /\ IDX(v) = v /\ ~NEGATED(v) /\ NOT(v) \in LITS /\ NOT(v) # v
BY VarsAssumption DEF LITS, NOT, IDX, NEGATED

LEMMA SameIndex ==
  ASSUME NEW k \in LITS, NEW l \in LITS, IDX(k) = IDX(l)
  PROVE  k = l \/ k = NOT(l)
BY VarsAssumption DEF LITS, NOT, IDX

LEMMA ModelFacts ==
  ASSUME NEW M \in Models
  PROVE  M \subseteq LITS /\ \A l \in LITS : NOT(l) \in M <=> l \notin M
<1>1. PICK P \in SUBSET Vars : M = P \cup {NOT(v) : v \in Vars \ P}
  BY DEF Models
<1>2. M \subseteq LITS
  BY <1>1, VarFacts
<1>3. ASSUME NEW v \in Vars
      PROVE  (v \in M <=> v \in P) /\ (NOT(v) \in M <=> v \notin P)
  <2>1. \A u \in Vars : u \in Int /\ u > 0 /\ v \in Int /\ v > 0
    BY VarsAssumption
  <2>2. v \in M <=> v \in P
    BY <1>1, <2>1 DEF NOT
  <2>3. NOT(v) \in M <=> \E u \in Vars \ P : NOT(v) = NOT(u)
    BY <1>1, <2>1 DEF NOT
  <2>4. \A u \in Vars : NOT(v) = NOT(u) => u = v
    BY <2>1 DEF NOT
  <2> QED
    BY <2>2, <2>3, <2>4
<1>4. ASSUME NEW l \in LITS
      PROVE  NOT(l) \in M <=> l \notin M
  BY <1>3, VarsAssumption, VarFacts DEF LITS, NOT
<1> QED
  BY <1>2, <1>4

LEMMA LitsFinite == IsFiniteSet(LITS) /\ \A S \in SUBSET LITS : IsFiniteSet(S)
<1> DEFINE negate == [v \in Vars |-> -v]
           negative == {-v : v \in Vars}
<1>1. IsFiniteSet(negative)
  <2>1. negate \in Surjection(Vars, negative)
    BY DEF Surjection
  <2> HIDE DEF negate, negative
  <2> QED
    BY <2>1, FiniteVarsAssumption, FS_Surjection
<1>2. IsFiniteSet(LITS)
  BY <1>1, FiniteVarsAssumption, FS_Union DEF LITS
<1> QED
  BY <1>2, FS_Subset

(* The order of the literals is total, and negation keeps it between
   different variables. *)
LEMMA OrderFacts ==
  ASSUME NEW k \in LITS, NEW l \in LITS
  PROVE  /\ LitIndex(k) \in Nat
         /\ k # l => LessLit(k, l) \/ LessLit(l, k)
         /\ ~ (LessLit(k, l) /\ LessLit(l, k))
         /\ ~ LessLit(k, k)
         /\ LessLit(k, l) /\ k # NOT(l) => LessLit(NOT(k), NOT(l))
BY VarsAssumption DEF LITS, NOT, IDX, LitIndex, LessLit

LEMMA OrderTransitive ==
  ASSUME NEW k \in LITS, NEW l \in LITS, NEW m \in LITS, LessLit(k, l), LessLit(l, m)
  PROVE  LessLit(k, m)
BY OrderFacts DEF LessLit

(* A sorted set has the elements of the set. *)
LEMMA SortedLits ==
  ASSUME NEW S \in SUBSET LITS
  PROVE  /\ SortLits(S) \in Seq(LITS)
         /\ Len(SortLits(S)) = Cardinality(S)
         /\ ToSet(SortLits(S)) = S
<1> DEFINE below(l) == {k \in S : LessLit(k, l)}
           place == [l \in S |-> Cardinality(below(l))]
           n == Cardinality(S)
<1>1. n \in Nat /\ IsFiniteSet(S)
  BY LitsFinite, FS_CardinalityType
<1>2. ASSUME NEW l \in S
      PROVE  Cardinality(below(l)) \in 0..(n - 1)
  <2>1. IsFiniteSet(S \ {l}) /\ Cardinality(S \ {l}) = n - 1
    BY <1>1, FS_RemoveElement
  <2>2. below(l) \subseteq S \ {l}
    BY OrderFacts
  <2>3. IsFiniteSet(below(l)) /\ Cardinality(below(l)) <= n - 1
    <3> HIDE DEF below, n
    <3> QED
      BY <2>1, <2>2, FS_Subset
  <2>4. Cardinality(below(l)) \in Nat
    BY <2>3, FS_CardinalityType
  <2> QED
    BY <1>1, <2>3, <2>4
<1>3. ASSUME NEW k \in S, NEW l \in S, LessLit(k, l)
      PROVE  Cardinality(below(k)) < Cardinality(below(l))
  <2>1. k \in below(l) /\ k \notin below(k) /\ below(k) \subseteq below(l) \ {k}
    BY <1>3, OrderFacts, OrderTransitive
  <2>2. IsFiniteSet(below(l))
    BY LitsFinite
  <2>3. IsFiniteSet(below(l) \ {k}) /\ Cardinality(below(l) \ {k}) = Cardinality(below(l)) - 1
    <3> HIDE DEF below
    <3> QED
      BY <2>1, <2>2, FS_RemoveElement
  <2>4. Cardinality(below(k)) <= Cardinality(below(l)) - 1
    <3> HIDE DEF below
    <3> QED
      BY <2>1, <2>3, FS_Subset
  <2> QED
    BY <1>1, <1>2, <2>4
<1>4. \A k, l \in S : place[k] = place[l] => k = l
  <2> SUFFICES ASSUME NEW k \in S, NEW l \in S, k # l
               PROVE  Cardinality(below(k)) # Cardinality(below(l))
    OBVIOUS
  <2>1. LessLit(k, l) \/ LessLit(l, k)
    BY OrderFacts
  <2>2. Cardinality(below(k)) \in Int /\ Cardinality(below(l)) \in Int
    BY <1>1, <1>2
  <2>3. \/ Cardinality(below(k)) < Cardinality(below(l))
        \/ Cardinality(below(l)) < Cardinality(below(k))
    BY <1>3, <2>1
  <2> HIDE DEF below
  <2> QED
    BY <2>2, <2>3
<1>5. place \in Surjection(S, 0..(n - 1))
  <2>1. place \in [S -> 0..(n - 1)]
    BY <1>2
  <2>2. place \in Injection(S, 0..(n - 1))
    BY <1>4, <2>1 DEF Injection, IsInjective
  <2>3. IsFiniteSet(0..(n - 1)) /\ Cardinality(0..(n - 1)) = n
    <3> HIDE DEF n
    <3>1. 0 \in Int /\ n - 1 \in Int
      BY <1>1
    <3> QED
      BY <1>1, <3>1, FS_Interval
  <2> HIDE DEF place
  <2> QED
    BY <2>2, <2>3, FS_Injection
<1>6. \A i \in 1..n : \E l \in S : Cardinality(below(l)) = i - 1
  <2> SUFFICES ASSUME NEW i \in 1..n
               PROVE  \E l \in S : place[l] = i - 1
    OBVIOUS
  <2>1. i - 1 \in 0..(n - 1)
    BY <1>1
  <2> HIDE DEF place
  <2> QED
    BY <1>5, <2>1 DEF Surjection
<1> DEFINE sorted == SortLits(S)
<1>7. /\ DOMAIN sorted = 1..n
      /\ \A i \in 1..n : sorted[i] \in S /\ Cardinality(below(sorted[i])) = i - 1
  <2>1. sorted = [i \in 1..n |-> CHOOSE l \in S : Cardinality(below(l)) = i - 1]
    BY DEF SortLits
  <2> HIDE DEF sorted, below
  <2> QED
    BY <1>6, <2>1
<1>8. sorted \in Seq(LITS) /\ Len(sorted) = n
  <2>1. sorted \in [1..n -> LITS]
    BY <1>7 DEF SortLits
  <2> HIDE DEF sorted, n
  <2> QED
    BY <1>1, <2>1, AllStrengthen!FunctionIsSeq
<1>9. ASSUME NEW l \in S
      PROVE  \E i \in 1..n : sorted[i] = l
  <2> DEFINE i == Cardinality(below(l)) + 1
  <2>1. i \in 1..n
    BY <1>1, <1>2
  <2>2. sorted[i] \in S /\ place[sorted[i]] = place[l]
    <3>1. Cardinality(below(l)) \in 0..(n - 1)
      BY <1>2
    <3> HIDE DEF sorted, below, n
    <3> QED
      BY <1>1, <1>7, <2>1, <3>1
  <2> HIDE DEF sorted, i, place
  <2> QED
    BY <1>4, <2>1, <2>2
<1>10. ToSet(sorted) = S
  <2> HIDE DEF sorted, n
  <2> QED
    BY <1>7, <1>9 DEF ToSet
<1> QED
  BY <1>8, <1>10

-----------------------------------------------------------------------------
(* Representatives. *)

ReprOK(r) ==
  /\ r \in [LITS -> LITS]
  /\ \A l \in LITS : r[l] = l \/ LessLit(r[l], l)
  /\ \A l \in LITS : r[NOT(l)] = NOT(r[l])

Forced(F, l) == \A M \in F : l \in M

Equivalent(F, k, l) == \A M \in F : k \in M <=> l \in M

Merged(F, r) == \A l \in LITS : Equivalent(F, l, r[l])

FindEquation(r, find) == find = [l \in LITS |-> IF r[l] = l THEN l ELSE find[r[l]]]

(* How many literals are smaller. *)
RankOf(l) == Cardinality({k \in LITS : LessLit(k, l)})

LEMMA RankFacts ==
  ASSUME NEW k \in LITS, NEW l \in LITS
  PROVE  /\ RankOf(l) \in 0..Cardinality(LITS)
         /\ LessLit(k, l) => RankOf(k) < RankOf(l)
<1> DEFINE below(m) == {j \in LITS : LessLit(j, m)}
<1>1. \A S \in SUBSET LITS : Cardinality(S) \in 0..Cardinality(LITS)
  BY LitsFinite, FS_CardinalityType, FS_Subset
<1>2. ASSUME LessLit(k, l)
      PROVE  Cardinality(below(k)) < Cardinality(below(l))
  <2>1. k \in below(l) /\ below(k) \subseteq below(l) \ {k}
    BY <1>2, OrderFacts, OrderTransitive
  <2>2. IsFiniteSet(below(l)) /\ Cardinality(below(l)) \in Nat
    BY LitsFinite, FS_CardinalityType
  <2>3. IsFiniteSet(below(l) \ {k}) /\ Cardinality(below(l) \ {k}) = Cardinality(below(l)) - 1
    <3> HIDE DEF below
    <3> QED
      BY <2>1, <2>2, FS_RemoveElement
  <2>4. Cardinality(below(k)) <= Cardinality(below(l)) - 1 /\ Cardinality(below(k)) \in Nat
    <3>1. Cardinality(below(k)) \in Nat
      BY LitsFinite, FS_CardinalityType
    <3> HIDE DEF below
    <3> QED
      BY <2>1, <2>3, <3>1, FS_Subset
  <2> QED
    BY <2>2, <2>4
<1> QED
  BY <1>1, <1>2 DEF RankOf

(* find_repr satisfies its equation, since a representative is smaller. *)
LEMMA FindReprDefined ==
  ASSUME NEW c, ReprOK(c.repr), NEW l \in LITS
  PROVE  /\ FindRepr(c, l) = IF c.repr[l] = l THEN l ELSE FindRepr(c, c.repr[l])
         /\ FindRepr(c, l) \in LITS
<1> DEFINE r == c.repr
           N == Cardinality(LITS)
           Step == [f \in [LITS -> LITS] |-> [k \in LITS |-> IF r[k] = k THEN k ELSE f[r[k]]]]
           rank == [k \in LITS |-> RankOf(k)]
<1>1. r \in [LITS -> LITS] /\ \A k \in LITS : r[k] # k => RankOf(r[k]) < RankOf(k)
  BY RankFacts DEF ReprOK
<1> HIDE DEF r
<1>2. AllStrengthen!Recursive(LITS, LITS, N, rank, Step)
  <2>1. N \in Nat
    BY LitsFinite, FS_CardinalityType
  <2>2. rank \in [LITS -> 0..N]
    BY RankFacts
  <2>3. Step \in [[LITS -> LITS] -> [LITS -> LITS]]
    BY <1>1
  <2>4. ASSUME NEW f \in [LITS -> LITS], NEW g \in [LITS -> LITS], NEW k \in LITS,
               \A j \in LITS : rank[j] < rank[k] => f[j] = g[j]
        PROVE  Step[f][k] = Step[g][k]
    BY <1>1, <2>4
  <2> HIDE DEF N, rank, Step
  <2> QED
    BY <2>1, <2>2, <2>3, <2>4 DEF AllStrengthen!Recursive
<1>3. PICK g \in [LITS -> LITS] : g = Step[g]
  <2> HIDE DEF N, rank, Step
  <2> QED
    BY <1>2, AllStrengthenCounting, AllStrengthen!RankRecursion
<1>4. FindEquation(r, g)
  BY <1>3 DEF FindEquation
<1> DEFINE find == CHOOSE f : FindEquation(r, f)
<1>5. FindEquation(r, find)
  BY <1>4
<1>6. \A k \in LITS : FindRepr(c, k) = find[k]
  BY DEF FindRepr, FindEquation, r
<1>7. \A k \in LITS : find[k] = IF r[k] = k THEN k ELSE find[r[k]]
  <2> HIDE DEF find
  <2> QED
    BY <1>5 DEF FindEquation
<1> HIDE DEF find
<1> DEFINE P == {k \in LITS : find[k] \in LITS}
<1>8. LITS \subseteq P
  <2>1. ASSUME NEW x \in LITS, \A y \in LITS : rank[y] < rank[x] => y \in P
        PROVE  x \in P
    BY <1>1, <1>7, <2>1
  <2>2. rank \in [LITS -> Nat]
    BY RankFacts
  <2> HIDE DEF P, rank
  <2> QED
    BY <2>1, <2>2, AllStrengthenCounting, AllStrengthen!RankInduction
<1> QED
  BY <1>1, <1>6, <1>7, <1>8 DEF r

(* A representative is equivalent where all merges are. *)
LEMMA FindReprFacts ==
  ASSUME NEW c, ReprOK(c.repr), NEW F, Merged(F, c.repr), NEW l \in LITS
  PROVE  FindRepr(c, l) \in LITS /\ Equivalent(F, l, FindRepr(c, l))
<1> DEFINE P == {k \in LITS : Equivalent(F, k, FindRepr(c, k))}
           rank == [k \in LITS |-> RankOf(k)]
<1>1. \A k \in LITS : c.repr[k] \in LITS /\ (c.repr[k] # k => RankOf(c.repr[k]) < RankOf(k))
  BY RankFacts DEF ReprOK
<1>2. ASSUME NEW x \in LITS, \A y \in LITS : rank[y] < rank[x] => y \in P
      PROVE  x \in P
  <2>1. CASE c.repr[x] = x
    BY <2>1, FindReprDefined DEF Equivalent
  <2>2. CASE c.repr[x] # x
    <3>1. c.repr[x] \in P
      BY <1>1, <1>2, <2>2
    <3>2. FindRepr(c, x) = FindRepr(c, c.repr[x])
      BY <2>2, FindReprDefined
    <3> QED
      BY <3>1, <3>2 DEF Merged, Equivalent
  <2> QED
    BY <2>1, <2>2
<1>3. rank \in [LITS -> Nat]
  BY RankFacts
<1>4. LITS \subseteq P
  <2> HIDE DEF P, rank
  <2> QED
    BY <1>2, <1>3, AllStrengthenCounting, AllStrengthen!RankInduction
<1> QED
  BY <1>4, FindReprDefined

-----------------------------------------------------------------------------
(* Propagation on the root level. *)

ImpliedLits(Cs, G) ==
  {l \in LITS \ G : \E C \in Cs : l \in C /\ \A k \in C \ {l} : NOT(k) \in G}

ClosureEquation(Cs, f) ==
  f = [G \in SUBSET LITS |-> IF ImpliedLits(Cs, G) = {} THEN G
                             ELSE f[G \cup ImpliedLits(Cs, G)]]

SatisfiesAll(M, Cs) == \A C \in Cs : Satisfies(M, C)

LEMMA ImpliedLitsHold ==
  ASSUME NEW Cs \in SUBSET (SUBSET LITS), NEW G \in SUBSET LITS,
         NEW M \in Models, SatisfiesAll(M, Cs), G \subseteq M
  PROVE  ImpliedLits(Cs, G) \subseteq M
<1> SUFFICES ASSUME NEW l \in LITS, NEW C \in Cs, l \in C,
                    \A k \in C \ {l} : NOT(k) \in G
             PROVE  l \in M
  BY DEF ImpliedLits
<1>1. PICK k \in C : k \in M
  BY DEF SatisfiesAll, Satisfies
<1>2. CASE k # l
  <2>1. NOT(k) \in M /\ k \in LITS
    BY <1>2
  <2> QED
    BY <1>1, <2>1, ModelFacts
<1> QED
  BY <1>1, <1>2

(* Propagation ends, since each step adds literals. *)
LEMMA ImplicationsFacts ==
  ASSUME NEW Cs \in SUBSET (SUBSET LITS), NEW G \in SUBSET LITS
  PROVE  /\ Implications(Cs, G) \in SUBSET LITS
         /\ G \subseteq Implications(Cs, G)
         /\ ImpliedLits(Cs, Implications(Cs, G)) = {}
         /\ \A M \in Models : SatisfiesAll(M, Cs) /\ G \subseteq M
                                => Implications(Cs, G) \subseteq M
<1> DEFINE S == SUBSET LITS
           N == Cardinality(LITS)
           new(H) == ImpliedLits(Cs, H)
           Step == [f \in [S -> S] |->
                      [H \in S |-> IF new(H) = {} THEN H ELSE f[H \cup new(H)]]]
           rank == [H \in S |-> N - Cardinality(H)]
<1>1. N \in Nat /\ \A H \in S : Cardinality(H) \in 0..N
  BY LitsFinite, FS_CardinalityType, FS_Subset
<1>2. rank \in [S -> 0..N]
  <2> HIDE DEF N
  <2>1. \A H \in S : N - Cardinality(H) \in 0..N
    BY <1>1
  <2> QED
    BY <2>1
<1>3. \A H \in S : new(H) \in S /\ new(H) \cap H = {}
  BY DEF ImpliedLits
<1> HIDE DEF new
<1>4. ASSUME NEW H \in S, new(H) # {}
      PROVE  H \cup new(H) \in S /\ rank[H \cup new(H)] < rank[H]
  <2>1. H \cup new(H) \in S /\ H \subseteq H \cup new(H) /\ H # H \cup new(H)
    BY <1>3, <1>4
  <2>2. IsFiniteSet(H \cup new(H))
    BY <2>1, LitsFinite
  <2>3. Cardinality(H) <= Cardinality(H \cup new(H)) /\ Cardinality(H) # Cardinality(H \cup new(H))
    BY <2>1, <2>2, FS_Subset
  <2> HIDE DEF N
  <2>4. N - Cardinality(H \cup new(H)) < N - Cardinality(H)
    BY <1>1, <2>1, <2>3
  <2> QED
    BY <2>1, <2>4
<1>5. AllStrengthen!Recursive(S, S, N, rank, Step)
  <2>1. Step \in [[S -> S] -> [S -> S]]
    BY <1>3
  <2>2. ASSUME NEW f \in [S -> S], NEW g \in [S -> S], NEW H \in S,
               \A K \in S : rank[K] < rank[H] => f[K] = g[K]
        PROVE  Step[f][H] = Step[g][H]
    <3> HIDE DEF rank
    <3> QED
      BY <1>4, <2>2
  <2>3. S # {}
    OBVIOUS
  <2> HIDE DEF N, rank, Step, S
  <2> QED
    BY <1>1, <1>2, <2>1, <2>2, <2>3 DEF AllStrengthen!Recursive
<1>6. PICK g \in [S -> S] : g = Step[g]
  <2> HIDE DEF N, rank, Step, S
  <2> QED
    BY <1>5, AllStrengthenCounting, AllStrengthen!RankRecursion
<1>7. ClosureEquation(Cs, g)
  BY <1>6 DEF ClosureEquation, new
<1> DEFINE f == CHOOSE h : ClosureEquation(Cs, h)
<1>8. ClosureEquation(Cs, f)
  BY <1>7
<1>9. Implications(Cs, G) = f[G]
  BY DEF Implications, ClosureEquation, ImpliedLits
<1>10. \A H \in S : f[H] = IF new(H) = {} THEN H ELSE f[H \cup new(H)]
  <2> HIDE DEF f
  <2> QED
    BY <1>8 DEF ClosureEquation, new
<1> HIDE DEF f
<1> DEFINE right(H) == /\ f[H] \in S
                       /\ H \subseteq f[H]
                       /\ new(f[H]) = {}
                       /\ \A M \in Models : SatisfiesAll(M, Cs) /\ H \subseteq M => f[H] \subseteq M
           P == {H \in S : right(H)}
<1>11. ASSUME NEW H \in S, \A K \in S : rank[K] < rank[H] => K \in P
       PROVE  H \in P
  <2>1. CASE new(H) = {}
    <3>1. f[H] = H
      BY <1>10, <2>1
    <3>2. new(f[H]) = {}
      BY <2>1, <3>1
    <3> QED
      BY <3>1, <3>2
  <2>2. CASE new(H) # {}
    <3> DEFINE K == H \cup new(H)
    <3>1. K \in S /\ rank[K] < rank[H]
      BY <1>4, <2>2
    <3>2. f[H] = f[K]
      BY <1>10, <2>2
    <3>3. K \in P
      <4> HIDE DEF P, rank, K
      <4> QED
        BY <1>11, <3>1
    <3>4. \A M \in Models : SatisfiesAll(M, Cs) /\ H \subseteq M => K \subseteq M
      BY ImpliedLitsHold DEF new
    <3>5. f[K] \in S /\ K \subseteq f[K] /\ new(f[K]) = {}
          /\ \A M \in Models : SatisfiesAll(M, Cs) /\ K \subseteq M => f[K] \subseteq M
      BY <3>3
    <3>6. H \subseteq K
      OBVIOUS
    <3> HIDE DEF K
    <3>7. right(H)
      BY <3>2, <3>4, <3>5, <3>6
    <3> QED
      BY <3>7
  <2> QED
    BY <2>1, <2>2
<1>12. S \subseteq P
  <2>1. rank \in [S -> Nat]
    BY <1>1, <1>2
  <2> HIDE DEF P, rank, S
  <2> QED
    BY <1>11, <2>1, AllStrengthenCounting, AllStrengthen!RankInduction
<1>13. right(G)
  BY <1>12
<1>14. ImpliedLits(Cs, f[G]) = {}
  BY <1>13 DEF new
<1> QED
  BY <1>9, <1>13, <1>14

(* A conflict leaves no model. *)
LEMMA ConflictFacts ==
  ASSUME NEW Cs \in SUBSET (SUBSET LITS), NEW G \in SUBSET LITS, Conflicting(Cs, G),
         NEW M \in Models, SatisfiesAll(M, Cs), G \subseteq M
  PROVE  FALSE
<1>1. CASE \E l \in G : NOT(l) \in G
  BY <1>1, ModelFacts
<1>2. CASE \E C \in Cs : \A l \in C : NOT(l) \in G
  <2>1. PICK C \in Cs : \A l \in C : NOT(l) \in M
    BY <1>2
  <2>2. PICK l \in C : l \in M
    BY DEF SatisfiesAll, Satisfies
  <2> QED
    BY <2>1, <2>2, ModelFacts
<1> QED
  BY <1>1, <1>2 DEF Conflicting

-----------------------------------------------------------------------------
(***************************************************************************)
(* The state of the closure.  Shape(c) are the types that the meaning of   *)
(* c rests on: representatives are smaller, no clause is tautological, and *)
(* an if-then-else has inputs with different variables.                    *)
(***************************************************************************)
IsClosure(c) ==
  c = [irredundant  |-> c.irredundant,
       redundant    |-> c.redundant,
       fixed        |-> c.fixed,
       units        |-> c.units,
       inconsistent |-> c.inconsistent,
       repr         |-> c.repr,
       schedule     |-> c.schedule,
       gates        |-> c.gates,
       occurrences  |-> c.occurrences]

ProperClause(C) == C \in SUBSET LITS /\ \A l \in C : NOT(l) \notin C

ProperClauses(Cs) == \A C \in Cs : ProperClause(C)

DifferentInputs(rhs) ==
  /\ Len(rhs) = 3
  /\ IDX(rhs[1]) # IDX(rhs[2]) /\ IDX(rhs[1]) # IDX(rhs[3]) /\ IDX(rhs[2]) # IDX(rhs[3])

GateOK(gate) ==
  /\ gate.tag \in {"and", "xor", "ite"}
  /\ gate.lhs \in LITS
  /\ gate.rhs \in Seq(LITS)
  /\ gate.tag = "ite" => DifferentInputs(gate.rhs)

Entry(gate, isGarbage) ==
  [tag |-> gate.tag, lhs |-> gate.lhs, rhs |-> gate.rhs, garbage |-> isGarbage]

EntryOK(entry) ==
  /\ entry = Entry(entry, entry.garbage)
  /\ entry.garbage \in BOOLEAN
  /\ GateOK(entry)

GatesOK(gates) ==
  /\ gates = [g \in DOMAIN gates |-> gates[g]]
  /\ \A g \in DOMAIN gates : EntryOK(gates[g])

(* The literals in the schedule were merged with smaller ones. *)
ScheduleOK(r, s) == s \in Seq(LITS) /\ \A i \in 1..Len(s) : r[s[i]] # s[i]

Shape(c) ==
  /\ IsClosure(c)
  /\ ProperClauses(c.irredundant) /\ ProperClauses(c.redundant)
  /\ c.fixed \in SUBSET LITS
  /\ c.units \subseteq c.fixed
  /\ c.inconsistent \in BOOLEAN
  /\ ReprOK(c.repr)
  /\ ScheduleOK(c.repr, c.schedule)
  /\ GatesOK(c.gates)
  /\ c.occurrences \in [LITS -> SUBSET DOMAIN c.gates]

(* What c says is true in all models of F, and there are none if c is
   inconsistent. *)
HoldGates(F, gates) ==
  \A g \in DOMAIN gates : ~gates[g].garbage => \A M \in F : GateHolds(M, gates[g])

SatisfyAll(F, Cs) == \A M \in F : SatisfiesAll(M, Cs)

SatisfyLits(F, lits) == \A M \in F : lits \subseteq M

Consequences(F, c) ==
  /\ c.inconsistent => F = {}
  /\ SatisfyAll(F, c.irredundant) /\ SatisfyAll(F, c.redundant)
  /\ SatisfyLits(F, c.fixed)
  /\ Merged(F, c.repr)
  /\ HoldGates(F, c.gates)

Sane(F, c) == Shape(c) /\ Consequences(F, c)

(* The irredundant binary clauses and the units say that merged literals are
   equivalent. *)
CoreModels(c) ==
  {M \in Models : /\ c.fixed \subseteq M
                  /\ \A C \in c.irredundant : Cardinality(C) = 2 => Satisfies(M, C)}

Committed(c) == c.inconsistent \/ Merged(CoreModels(c), c.repr)

(* Until clauses are removed there are ever more of them. *)
Extends(c, d) ==
  /\ c.irredundant \subseteq d.irredundant
  /\ c.fixed \subseteq d.fixed
  /\ c.inconsistent => d.inconsistent
  /\ DOMAIN c.gates \subseteq DOMAIN d.gates
  /\ \A l \in LITS : c.occurrences[l] \subseteq d.occurrences[l]

(* A literal that leads to an if-then-else is an input of it, or still will
   be, but for a literal of the variable v that is being replaced. *)
InputVars(gate) == {IDX(k) : k \in ToSet(gate.rhs)}

LiveIte(gate) == gate.tag = "ite" /\ ~gate.garbage

Follows(v, c, d) ==
  \A l \in LITS : \A g \in d.occurrences[l] :
    LiveIte(d.gates[g]) =>
      \/ /\ g \in c.occurrences[l] /\ LiveIte(c.gates[g])
         /\ InputVars(c.gates[g]) \ {v} \subseteq InputVars(d.gates[g])
      \/ IDX(l) \in InputVars(d.gates[g]) \ {v}

Keeps(F, v, c, d) ==
  /\ Sane(F, d)
  /\ Extends(c, d)
  /\ Follows(v, c, d)
  /\ Committed(c) => Committed(d)

LEMMA FollowsTransitive ==
  ASSUME NEW v, NEW c, NEW d, NEW e, Follows(v, c, d), Follows(v, d, e)
  PROVE  Follows(v, c, e)
<1> SUFFICES ASSUME NEW l \in LITS, NEW g \in e.occurrences[l], LiveIte(e.gates[g])
             PROVE  \/ /\ g \in c.occurrences[l] /\ LiveIte(c.gates[g])
                       /\ InputVars(c.gates[g]) \ {v} \subseteq InputVars(e.gates[g])
                    \/ IDX(l) \in InputVars(e.gates[g]) \ {v}
  BY DEF Follows
<1>1. CASE IDX(l) \in InputVars(e.gates[g]) \ {v}
  BY <1>1
<1>2. CASE /\ g \in d.occurrences[l] /\ LiveIte(d.gates[g])
           /\ InputVars(d.gates[g]) \ {v} \subseteq InputVars(e.gates[g])
  <2>1. \/ /\ g \in c.occurrences[l] /\ LiveIte(c.gates[g])
           /\ InputVars(c.gates[g]) \ {v} \subseteq InputVars(d.gates[g])
        \/ IDX(l) \in InputVars(d.gates[g]) \ {v}
    BY <1>2 DEF Follows
  <2> QED
    BY <1>2, <2>1
<1> QED
  BY <1>1, <1>2 DEF Follows

LEMMA KeepsTransitive ==
  ASSUME NEW F, NEW v, NEW c, NEW d, NEW e, Keeps(F, v, c, d), Keeps(F, v, d, e)
  PROVE  Keeps(F, v, c, e)
<1>1. Extends(c, e)
  BY DEF Keeps, Extends
<1>2. Follows(v, c, e)
  BY FollowsTransitive DEF Keeps
<1> QED
  BY <1>1, <1>2 DEF Keeps

LEMMA FollowsSame ==
  ASSUME NEW v, NEW c, NEW d, d.gates = c.gates, d.occurrences = c.occurrences
  PROVE  Follows(v, c, d)
BY DEF Follows

LEMMA KeepsItself ==
  ASSUME NEW F, NEW v, NEW c, Sane(F, c)
  PROVE  Keeps(F, v, c, c)
BY FollowsSame DEF Keeps, Extends

LEMMA CoreGrows ==
  ASSUME NEW c, NEW d, Extends(c, d)
  PROVE  CoreModels(d) \subseteq CoreModels(c)
BY DEF CoreModels, Extends

LEMMA StaysCommitted ==
  ASSUME NEW c, NEW d, Extends(c, d), d.repr = c.repr
  PROVE  Committed(c) => Committed(d)
<1>1. CASE c.inconsistent
  BY <1>1 DEF Extends, Committed
<1>2. CASE Merged(CoreModels(c), c.repr)
  <2>1. Merged(CoreModels(d), d.repr)
    BY <1>2, CoreGrows DEF Merged, Equivalent
  <2> QED
    BY <2>1 DEF Committed
<1> QED
  BY <1>1, <1>2 DEF Committed

-----------------------------------------------------------------------------
(* Changes of one field. *)

SameClauses(c, d) == d.irredundant = c.irredundant /\ d.redundant = c.redundant

SameValues(c, d) ==
  d.fixed = c.fixed /\ d.units = c.units /\ d.inconsistent = c.inconsistent

SameMerges(c, d) == d.repr = c.repr /\ d.schedule = c.schedule

SameGates(c, d) == d.gates = c.gates /\ d.occurrences = c.occurrences

SetIrredundant(c, x) == [c EXCEPT !.irredundant = x]
SetRedundant(c, x) == [c EXCEPT !.redundant = x]
SetFixed(c, x) == [c EXCEPT !.fixed = x]
SetUnits(c, x) == [c EXCEPT !.units = x]
SetInconsistent(c, x) == [c EXCEPT !.inconsistent = x]
SetRepr(c, x) == [c EXCEPT !.repr = x]
SetSchedule(c, x) == [c EXCEPT !.schedule = x]
SetGates(c, x) == [c EXCEPT !.gates = x]
SetOccurrences(c, x) == [c EXCEPT !.occurrences = x]

LEMMA SetIrredundantFacts ==
  ASSUME NEW c, IsClosure(c), NEW x
  PROVE  /\ IsClosure(SetIrredundant(c, x))
         /\ SameValues(c, SetIrredundant(c, x)) /\ SameMerges(c, SetIrredundant(c, x))
         /\ SameGates(c, SetIrredundant(c, x))
         /\ SetIrredundant(c, x).irredundant = x
         /\ SetIrredundant(c, x).redundant = c.redundant
BY DEF IsClosure, SetIrredundant, SameValues, SameMerges, SameGates

LEMMA SetRedundantFacts ==
  ASSUME NEW c, IsClosure(c), NEW x
  PROVE  /\ IsClosure(SetRedundant(c, x))
         /\ SameValues(c, SetRedundant(c, x)) /\ SameMerges(c, SetRedundant(c, x))
         /\ SameGates(c, SetRedundant(c, x))
         /\ SetRedundant(c, x).redundant = x
         /\ SetRedundant(c, x).irredundant = c.irredundant
BY DEF IsClosure, SetRedundant, SameValues, SameMerges, SameGates

LEMMA SetFixedFacts ==
  ASSUME NEW c, IsClosure(c), NEW x
  PROVE  /\ IsClosure(SetFixed(c, x))
         /\ SameClauses(c, SetFixed(c, x)) /\ SameMerges(c, SetFixed(c, x))
         /\ SameGates(c, SetFixed(c, x))
         /\ SetFixed(c, x).fixed = x
         /\ SetFixed(c, x).units = c.units
         /\ SetFixed(c, x).inconsistent = c.inconsistent
BY DEF IsClosure, SetFixed, SameClauses, SameMerges, SameGates

LEMMA SetUnitsFacts ==
  ASSUME NEW c, IsClosure(c), NEW x
  PROVE  /\ IsClosure(SetUnits(c, x))
         /\ SameClauses(c, SetUnits(c, x)) /\ SameMerges(c, SetUnits(c, x))
         /\ SameGates(c, SetUnits(c, x))
         /\ SetUnits(c, x).units = x
         /\ SetUnits(c, x).fixed = c.fixed
         /\ SetUnits(c, x).inconsistent = c.inconsistent
BY DEF IsClosure, SetUnits, SameClauses, SameMerges, SameGates

LEMMA SetInconsistentFacts ==
  ASSUME NEW c, IsClosure(c), NEW x
  PROVE  /\ IsClosure(SetInconsistent(c, x))
         /\ SameClauses(c, SetInconsistent(c, x)) /\ SameMerges(c, SetInconsistent(c, x))
         /\ SameGates(c, SetInconsistent(c, x))
         /\ SetInconsistent(c, x).inconsistent = x
         /\ SetInconsistent(c, x).fixed = c.fixed
         /\ SetInconsistent(c, x).units = c.units
BY DEF IsClosure, SetInconsistent, SameClauses, SameMerges, SameGates

LEMMA SetReprFacts ==
  ASSUME NEW c, IsClosure(c), NEW x
  PROVE  /\ IsClosure(SetRepr(c, x))
         /\ SameClauses(c, SetRepr(c, x)) /\ SameValues(c, SetRepr(c, x))
         /\ SameGates(c, SetRepr(c, x))
         /\ SetRepr(c, x).repr = x
         /\ SetRepr(c, x).schedule = c.schedule
BY DEF IsClosure, SetRepr, SameClauses, SameValues, SameGates

LEMMA SetScheduleFacts ==
  ASSUME NEW c, IsClosure(c), NEW x
  PROVE  /\ IsClosure(SetSchedule(c, x))
         /\ SameClauses(c, SetSchedule(c, x)) /\ SameValues(c, SetSchedule(c, x))
         /\ SameGates(c, SetSchedule(c, x))
         /\ SetSchedule(c, x).schedule = x
         /\ SetSchedule(c, x).repr = c.repr
BY DEF IsClosure, SetSchedule, SameClauses, SameValues, SameGates

LEMMA SetGatesFacts ==
  ASSUME NEW c, IsClosure(c), NEW x
  PROVE  /\ IsClosure(SetGates(c, x))
         /\ SameClauses(c, SetGates(c, x)) /\ SameValues(c, SetGates(c, x))
         /\ SameMerges(c, SetGates(c, x))
         /\ SetGates(c, x).gates = x
         /\ SetGates(c, x).occurrences = c.occurrences
BY DEF IsClosure, SetGates, SameClauses, SameValues, SameMerges

LEMMA SetOccurrencesFacts ==
  ASSUME NEW c, IsClosure(c), NEW x
  PROVE  /\ IsClosure(SetOccurrences(c, x))
         /\ SameClauses(c, SetOccurrences(c, x)) /\ SameValues(c, SetOccurrences(c, x))
         /\ SameMerges(c, SetOccurrences(c, x))
         /\ SetOccurrences(c, x).occurrences = x
         /\ SetOccurrences(c, x).gates = c.gates
BY DEF IsClosure, SetOccurrences, SameClauses, SameValues, SameMerges

-----------------------------------------------------------------------------
(* Units and binary clauses. *)

(* d is c with more units and clauses. *)
Adds(F, v, c, d) ==
  Sane(F, d) /\ Extends(c, d) /\ Follows(v, c, d) /\ d.repr = c.repr

LEMMA AddsKeeps ==
  ASSUME NEW F, NEW v, NEW c, NEW d, Adds(F, v, c, d)
  PROVE  Keeps(F, v, c, d)
BY StaysCommitted DEF Adds, Keeps

LEMMA AddsItself ==
  ASSUME NEW F, NEW v, NEW c, Sane(F, c)
  PROVE  Adds(F, v, c, c)
BY FollowsSame DEF Adds, Extends

LEMMA AddsTransitive ==
  ASSUME NEW F, NEW v, NEW c, NEW d, NEW e, Adds(F, v, c, d), Adds(F, v, d, e)
  PROVE  Adds(F, v, c, e)
<1>1. Follows(v, c, e)
  BY FollowsTransitive DEF Adds
<1> QED
  BY <1>1 DEF Adds, Extends

(* There is no model left. *)
LEMMA BecomesInconsistent ==
  ASSUME NEW F, NEW v, NEW c, Sane(F, c), NEW x \in BOOLEAN, c.inconsistent => x, x => F = {}
  PROVE  Adds(F, v, c, SetInconsistent(c, x))
<1> DEFINE d == SetInconsistent(c, x)
<1>1. IsClosure(c)
  BY DEF Sane, Shape
<1>2. /\ IsClosure(d) /\ SameClauses(c, d) /\ SameMerges(c, d) /\ SameGates(c, d)
      /\ d.fixed = c.fixed /\ d.units = c.units /\ d.inconsistent = x
  BY <1>1, SetInconsistentFacts
<1> HIDE DEF d
<1>3. Shape(d)
  BY <1>2 DEF Sane, Shape, SameClauses, SameMerges, SameGates
<1>4. Consequences(F, d)
  BY <1>2 DEF Sane, Consequences, SameClauses, SameMerges, SameGates
<1>5. Extends(c, d) /\ Follows(v, c, d) /\ d.repr = c.repr
  BY <1>2, FollowsSame DEF Extends, SameClauses, SameMerges, SameGates
<1> QED
  BY <1>3, <1>4, <1>5 DEF Adds, Sane, d

(* More literals become true. *)
LEMMA BecomesFixed ==
  ASSUME NEW F, NEW v, NEW c, Sane(F, c), NEW x \in SUBSET LITS, c.fixed \subseteq x, SatisfyLits(F, x)
  PROVE  Adds(F, v, c, SetFixed(c, x))
<1> DEFINE d == SetFixed(c, x)
<1>1. IsClosure(c)
  BY DEF Sane, Shape
<1>2. /\ IsClosure(d) /\ SameClauses(c, d) /\ SameMerges(c, d) /\ SameGates(c, d)
      /\ d.inconsistent = c.inconsistent /\ d.units = c.units /\ d.fixed = x
  BY <1>1, SetFixedFacts
<1> HIDE DEF d
<1>3. Shape(d)
  BY <1>2 DEF Sane, Shape, SameClauses, SameMerges, SameGates
<1>4. Consequences(F, d)
  BY <1>2 DEF Sane, Consequences, SameClauses, SameMerges, SameGates
<1>5. Extends(c, d) /\ Follows(v, c, d) /\ d.repr = c.repr
  BY <1>2, FollowsSame DEF Extends, SameClauses, SameMerges, SameGates
<1> QED
  BY <1>3, <1>4, <1>5 DEF Adds, Sane, d

(* More or fewer of them are still to be propagated. *)
LEMMA GetsUnits ==
  ASSUME NEW F, NEW v, NEW c, Sane(F, c), NEW x \in SUBSET c.fixed
  PROVE  Adds(F, v, c, SetUnits(c, x))
<1> DEFINE d == SetUnits(c, x)
<1>1. IsClosure(c)
  BY DEF Sane, Shape
<1>2. /\ IsClosure(d) /\ SameClauses(c, d) /\ SameMerges(c, d) /\ SameGates(c, d)
      /\ d.inconsistent = c.inconsistent /\ d.fixed = c.fixed /\ d.units = x
  BY <1>1, SetUnitsFacts
<1> HIDE DEF d
<1>3. Shape(d)
  BY <1>2 DEF Sane, Shape, SameClauses, SameMerges, SameGates
<1>4. Consequences(F, d)
  BY <1>2 DEF Sane, Consequences, SameClauses, SameMerges, SameGates
<1>5. Extends(c, d) /\ Follows(v, c, d) /\ d.repr = c.repr
  BY <1>2, FollowsSame DEF Extends, SameClauses, SameMerges, SameGates
<1> QED
  BY <1>3, <1>4, <1>5 DEF Adds, Sane, d

(* Clauses are added. *)
LEMMA GetsClauses ==
  ASSUME NEW F, NEW v, NEW c, Sane(F, c), NEW x, c.irredundant \subseteq x,
         ProperClauses(x), SatisfyAll(F, x)
  PROVE  Adds(F, v, c, SetIrredundant(c, x))
<1> DEFINE d == SetIrredundant(c, x)
<1>1. IsClosure(c)
  BY DEF Sane, Shape
<1>2. /\ IsClosure(d) /\ SameValues(c, d) /\ SameMerges(c, d) /\ SameGates(c, d)
      /\ d.redundant = c.redundant /\ d.irredundant = x
  BY <1>1, SetIrredundantFacts
<1> HIDE DEF d
<1>3. Shape(d)
  BY <1>2 DEF Sane, Shape, SameValues, SameMerges, SameGates
<1>4. Consequences(F, d)
  BY <1>2 DEF Sane, Consequences, SameValues, SameMerges, SameGates
<1>5. Extends(c, d) /\ Follows(v, c, d) /\ d.repr = c.repr
  BY <1>2, FollowsSame DEF Extends, SameValues, SameMerges, SameGates
<1> QED
  BY <1>3, <1>4, <1>5 DEF Adds, Sane, d

(* Literals are scheduled or taken from the schedule. *)
LEMMA GetsScheduled ==
  ASSUME NEW F, NEW v, NEW c, Sane(F, c), NEW x, ScheduleOK(c.repr, x)
  PROVE  Adds(F, v, c, SetSchedule(c, x))
<1> DEFINE d == SetSchedule(c, x)
<1>1. IsClosure(c)
  BY DEF Sane, Shape
<1>2. /\ IsClosure(d) /\ SameValues(c, d) /\ SameClauses(c, d) /\ SameGates(c, d)
      /\ d.repr = c.repr /\ d.schedule = x
  BY <1>1, SetScheduleFacts
<1> HIDE DEF d
<1>3. Shape(d)
  BY <1>2 DEF Sane, Shape, SameValues, SameClauses, SameGates
<1>4. Consequences(F, d)
  BY <1>2 DEF Sane, Consequences, SameValues, SameClauses, SameGates
<1>5. Extends(c, d) /\ Follows(v, c, d) /\ d.repr = c.repr
  BY <1>2, FollowsSame DEF Extends, SameValues, SameClauses, SameGates
<1> QED
  BY <1>3, <1>4, <1>5 DEF Adds, Sane, d

(* A literal that is true in all models is learned, or no model is left. *)
Learned(F, v, c, d, unit) == Adds(F, v, c, d) /\ (d.inconsistent \/ unit \in d.fixed)

LEMMA LearnUnitAdds ==
  ASSUME NEW F \in SUBSET Models, NEW v, NEW c, Sane(F, c), NEW unit \in LITS, Forced(F, unit)
  PROVE  Learned(F, v, c, LearnUnit(c, unit), unit)
<1> DEFINE d == LearnUnit(c, unit)
           Cs == c.irredundant \cup c.redundant
           G == c.fixed \cup {unit}
           I == Implications(Cs, G)
           U == c.units \cup (I \ c.fixed)
<1>1. /\ Cs \in SUBSET (SUBSET LITS) /\ G \in SUBSET LITS /\ c.units \in SUBSET c.fixed
      /\ IsClosure(c) /\ c.fixed \in SUBSET LITS
  BY DEF Sane, Shape, ProperClauses, ProperClause
<1>2. \A M \in F : M \in Models /\ SatisfiesAll(M, Cs) /\ G \subseteq M
  BY DEF Sane, Consequences, SatisfyAll, SatisfiesAll, SatisfyLits, Forced
<1>3. I \in SUBSET LITS /\ G \subseteq I /\ SatisfyLits(F, I)
  <2> HIDE DEF Cs, G
  <2> QED
    BY <1>1, <1>2, ImplicationsFacts DEF SatisfyLits
<1>4. unit \in I /\ c.fixed \subseteq I /\ U \in SUBSET I
  <2> HIDE DEF I
  <2> QED
    BY <1>1, <1>3
<1>5. d = IF IsTrue(c, unit) THEN c
          ELSE IF IsFalse(c, unit) \/ Conflicting(Cs, I) THEN SetInconsistent(c, TRUE)
          ELSE SetUnits(SetFixed(c, I), U)
  <2> HIDE DEF I
  <2>1. SetUnits(SetFixed(c, I), U) = [c EXCEPT !.fixed = I, !.units = U]
    BY DEF SetUnits, SetFixed
  <2>2. SetUnits(SetFixed(c, I), U) = [c EXCEPT !.fixed = I, !.units = @ \cup (I \ c.fixed)]
    BY <2>1
  <2> QED
    BY <2>2 DEF LearnUnit, SetInconsistent, I
<1>6. CASE IsTrue(c, unit)
  BY <1>5, <1>6, AddsItself DEF Learned, IsTrue
<1>7. CASE ~IsTrue(c, unit) /\ (IsFalse(c, unit) \/ Conflicting(Cs, I))
  <2>1. d = SetInconsistent(c, TRUE)
    BY <1>5, <1>7
  <2>2. F = {}
    <3> SUFFICES ASSUME NEW M \in F
                 PROVE  FALSE
      OBVIOUS
    <3>1. M \in Models /\ SatisfiesAll(M, Cs) /\ I \subseteq M /\ unit \in M /\ c.fixed \subseteq M
      BY <1>2, <1>3 DEF SatisfyLits, G
    <3>2. CASE IsFalse(c, unit)
      BY <3>1, <3>2, ModelFacts DEF IsFalse
    <3>3. CASE Conflicting(Cs, I)
      <4> HIDE DEF I, Cs
      <4> QED
        BY <1>1, <1>3, <3>1, <3>3, ConflictFacts
    <3> QED
      BY <1>7, <3>2, <3>3
  <2>3. Adds(F, v, c, SetInconsistent(c, TRUE))
    BY <2>2, BecomesInconsistent
  <2>4. SetInconsistent(c, TRUE).inconsistent
    BY <1>1, SetInconsistentFacts
  <2> QED
    BY <2>1, <2>3, <2>4 DEF Learned
<1>8. CASE ~IsTrue(c, unit) /\ ~ (IsFalse(c, unit) \/ Conflicting(Cs, I))
  <2> DEFINE e == SetFixed(c, I)
             f == SetUnits(e, U)
  <2> HIDE DEF I, U
  <2>1. d = f
    BY <1>5, <1>8
  <2>2. Adds(F, v, c, e) /\ IsClosure(e) /\ e.fixed = I
    BY <1>1, <1>3, <1>4, BecomesFixed, SetFixedFacts
  <2> HIDE DEF e
  <2>3. Adds(F, v, e, f) /\ f.fixed = I
    BY <1>4, <2>2, GetsUnits, SetUnitsFacts DEF Adds
  <2> HIDE DEF f, d
  <2>4. Adds(F, v, c, f)
    BY <2>2, <2>3, AddsTransitive
  <2> QED
    BY <1>4, <2>1, <2>3, <2>4 DEF Learned, d
<1> QED
  BY <1>6, <1>7, <1>8

LEMMA PairSize ==
  ASSUME NEW a, NEW b, a # b
  PROVE  Cardinality({a, b}) = 2
<1>1. IsFiniteSet({a}) /\ Cardinality({a}) = 1
  BY FS_Singleton
<1>2. Cardinality({a} \cup {b}) = Cardinality({a}) + 1
  BY <1>1, FS_AddElement
<1>3. {a} \cup {b} = {a, b}
  OBVIOUS
<1> QED
  BY <1>1, <1>2, <1>3

(* The clauses of d say that one of a and b is true. *)
Covered(d, a, b) == d.inconsistent \/ \A M \in CoreModels(d) : a \in M \/ b \in M

LEMMA StaysCovered ==
  ASSUME NEW c, NEW d, Extends(c, d), NEW a, NEW b, Covered(c, a, b)
  PROVE  Covered(d, a, b)
<1>1. CoreModels(d) \subseteq CoreModels(c)
  BY CoreGrows
<1> QED
  BY <1>1 DEF Covered, Extends

LEMMA FixedCovers ==
  ASSUME NEW d, NEW a, NEW b, d.inconsistent \/ a \in d.fixed \/ b \in d.fixed
  PROVE  Covered(d, a, b)
BY DEF Covered, CoreModels

LEMMA AddBinaryAdds ==
  ASSUME NEW F \in SUBSET Models, NEW v, NEW c, Sane(F, c), NEW a \in LITS, NEW b \in LITS,
         \A M \in F : a \in M \/ b \in M
  PROVE  /\ Adds(F, v, c, AddBinary(c, a, b))
         /\ Covered(AddBinary(c, a, b), a, b)
<1> DEFINE d == AddBinary(c, a, b)
           unchanged == c.inconsistent \/ a = NOT(b) \/ IsTrue(c, a) \/ IsTrue(c, b)
           first == a = b \/ (~IsFalse(c, a) /\ IsFalse(c, b))
           second == IsFalse(c, a) /\ ~IsFalse(c, b)
           Cs == c.irredundant \cup {{a, b}}
<1>1. d = IF unchanged THEN c ELSE IF first THEN LearnUnit(c, a)
          ELSE IF second THEN LearnUnit(c, b) ELSE SetIrredundant(c, Cs)
  BY DEF AddBinary, SetIrredundant
<1>2. \A M \in F : M \in Models /\ \A l \in c.fixed : l \in M
  BY DEF Sane, Consequences, SatisfyLits
<1>3. CASE unchanged
  <2>1. d = c
    BY <1>1, <1>3
  <2>2. Covered(c, a, b)
    <3>1. CASE c.inconsistent \/ a \in c.fixed \/ b \in c.fixed
      BY <3>1, FixedCovers
    <3>2. CASE a = NOT(b)
      <4>1. \A M \in CoreModels(c) : a \in M \/ b \in M
        BY <3>2, ModelFacts DEF CoreModels
      <4> QED
        BY <4>1 DEF Covered
    <3> QED
      BY <1>3, <3>1, <3>2 DEF IsTrue
  <2> HIDE DEF d
  <2> QED
    BY <2>1, <2>2, AddsItself DEF d
<1>4. CASE ~unchanged /\ first
  <2>1. d = LearnUnit(c, a)
    BY <1>1, <1>4
  <2>2. Forced(F, a)
    BY <1>2, <1>4, ModelFacts DEF Forced, IsFalse
  <2>3. Learned(F, v, c, LearnUnit(c, a), a)
    BY <2>2, LearnUnitAdds
  <2> HIDE DEF d
  <2> QED
    BY <2>1, <2>3, FixedCovers DEF Learned, d
<1>5. CASE ~unchanged /\ ~first /\ second
  <2>1. d = LearnUnit(c, b)
    BY <1>1, <1>5
  <2>2. Forced(F, b)
    BY <1>2, <1>5, ModelFacts DEF Forced, IsFalse
  <2>3. Learned(F, v, c, LearnUnit(c, b), b)
    BY <2>2, LearnUnitAdds
  <2> HIDE DEF d
  <2> QED
    BY <2>1, <2>3, FixedCovers DEF Learned, d
<1>6. CASE ~unchanged /\ ~first /\ ~second
  <2>1. d = SetIrredundant(c, Cs)
    BY <1>1, <1>6
  <2>2. ProperClauses(Cs)
    <3>1. ProperClause({a, b})
      BY <1>6, LitFacts DEF ProperClause
    <3> QED
      BY <3>1 DEF Sane, Shape, ProperClauses
  <2>3. SatisfyAll(F, Cs)
    BY DEF Sane, Consequences, SatisfyAll, SatisfiesAll, Satisfies
  <2>4. Adds(F, v, c, SetIrredundant(c, Cs)) /\ SetIrredundant(c, Cs).irredundant = Cs
    <3>1. IsClosure(c) /\ c.irredundant \subseteq Cs
      BY DEF Sane, Shape
    <3> HIDE DEF Cs
    <3> QED
      BY <2>2, <2>3, <3>1, GetsClauses, SetIrredundantFacts
  <2>5. Cardinality({a, b}) = 2
    <3>1. a # b
      BY <1>6
    <3> QED
      BY <3>1, PairSize
  <2>6. \A M \in CoreModels(d) : a \in M \/ b \in M
    <3>1. {a, b} \in d.irredundant
      BY <2>1, <2>4
    <3> HIDE DEF d
    <3> QED
      BY <2>5, <3>1 DEF CoreModels, Satisfies
  <2> HIDE DEF d
  <2> QED
    BY <2>1, <2>4, <2>6 DEF Covered, d
<1> QED
  BY <1>3, <1>4, <1>5, <1>6

LEMMA ScheduleAdds ==
  ASSUME NEW F, NEW v, NEW c, Sane(F, c), NEW l \in LITS, c.repr[l] # l
  PROVE  Adds(F, v, c, Schedule(c, l))
<1>1. ScheduleOK(c.repr, c.schedule)
  BY DEF Sane, Shape
<1>2. ScheduleOK(c.repr, Append(c.schedule, l))
  <2> DEFINE s == c.schedule
             t == Append(s, l)
  <2>1. s \in Seq(LITS) /\ \A i \in 1..Len(s) : c.repr[s[i]] # s[i]
    BY <1>1 DEF ScheduleOK
  <2> HIDE DEF s
  <2>2. /\ t \in Seq(LITS) /\ Len(t) = Len(s) + 1
        /\ \A i \in 1..Len(t) : t[i] = IF i \in 1..Len(s) THEN s[i] ELSE l
    BY <2>1
  <2> HIDE DEF t
  <2>3. \A i \in 1..Len(t) : c.repr[t[i]] # t[i]
    BY <2>1, <2>2
  <2> QED
    BY <2>2, <2>3 DEF ScheduleOK, t, s
<1>3. Schedule(c, l) = c \/ Schedule(c, l) = SetSchedule(c, Append(c.schedule, l))
  BY DEF Schedule, SetSchedule
<1>4. Adds(F, v, c, SetSchedule(c, Append(c.schedule, l)))
  BY <1>2, GetsScheduled
<1> QED
  BY <1>3, <1>4, AddsItself

-----------------------------------------------------------------------------
(* Merging literals. *)

LEMMA EquivalentFacts ==
  ASSUME NEW F, NEW k, NEW l, Equivalent(F, k, l)
  PROVE  /\ Equivalent(F, l, k)
         /\ Forced(F, k) <=> Forced(F, l)
BY DEF Equivalent, Forced

LEMMA EquivalentTransitive ==
  ASSUME NEW F, NEW k, NEW l, NEW m, Equivalent(F, k, l), Equivalent(F, l, m)
  PROVE  Equivalent(F, k, m)
BY DEF Equivalent

LEMMA EquivalentNegations ==
  ASSUME NEW F \in SUBSET Models, NEW k \in LITS, NEW l \in LITS, Equivalent(F, k, l)
  PROVE  Equivalent(F, NOT(k), NOT(l))
BY ModelFacts DEF Equivalent

Redirected(r, smaller, larger) ==
  [r EXCEPT ![larger] = smaller, ![NOT(larger)] = NOT(smaller)]

LEMMA RedirectedFacts ==
  ASSUME NEW r, ReprOK(r), NEW smaller \in LITS, NEW larger \in LITS,
         LessLit(smaller, larger), smaller # NOT(larger)
  PROVE  /\ ReprOK(Redirected(r, smaller, larger))
         /\ Redirected(r, smaller, larger)[larger] # larger
         /\ \A s : ScheduleOK(r, s) => ScheduleOK(Redirected(r, smaller, larger), s)
         /\ \A F \in SUBSET Models : Merged(F, r) /\ Equivalent(F, smaller, larger)
              => Merged(F, Redirected(r, smaller, larger))
<1> DEFINE s == Redirected(r, smaller, larger)
<1>1. /\ NOT(smaller) \in LITS /\ NOT(larger) \in LITS /\ NOT(larger) # larger
      /\ NOT(NOT(larger)) = larger /\ NOT(NOT(smaller)) = smaller
      /\ \A l \in LITS : NOT(l) = larger => l = NOT(larger)
      /\ \A l \in LITS : NOT(l) = NOT(larger) => l = larger
      /\ \A l \in LITS : NOT(l) \in LITS
  BY LitFacts
<1>2. s \in [LITS -> LITS] /\ \A l \in LITS :
         s[l] = IF l = larger THEN smaller ELSE IF l = NOT(larger) THEN NOT(smaller) ELSE r[l]
  BY <1>1 DEF Redirected, ReprOK
<1>3. LessLit(NOT(smaller), NOT(larger))
  BY OrderFacts
<1>4. ReprOK(s)
  <2> HIDE DEF s
  <2>1. \A l \in LITS : s[l] = l \/ LessLit(s[l], l)
    BY <1>2, <1>3 DEF ReprOK
  <2>2. \A l \in LITS : s[NOT(l)] = NOT(s[l])
    BY <1>1, <1>2 DEF ReprOK
  <2> QED
    BY <1>2, <2>1, <2>2 DEF ReprOK
<1>5. ASSUME NEW F \in SUBSET Models, Merged(F, r), Equivalent(F, smaller, larger)
      PROVE  Merged(F, s)
  <2>1. Equivalent(F, larger, smaller) /\ Equivalent(F, NOT(larger), NOT(smaller))
    BY <1>5, EquivalentFacts, EquivalentNegations
  <2> HIDE DEF s
  <2> QED
    BY <1>2, <1>5, <2>1 DEF Merged
<1>6. s[larger] # larger /\ \A l \in LITS : r[l] # l => s[l] # l
  <2>1. smaller # larger /\ NOT(smaller) # NOT(larger)
    BY <1>1, OrderFacts
  <2> HIDE DEF s
  <2> QED
    BY <1>1, <1>2, <2>1
<1>7. ASSUME NEW q, ScheduleOK(r, q)
      PROVE  ScheduleOK(s, q)
  <2>1. q \in Seq(LITS) /\ \A i \in 1..Len(q) : q[i] \in LITS /\ r[q[i]] # q[i]
    BY <1>7 DEF ScheduleOK
  <2> HIDE DEF s
  <2> QED
    BY <1>6, <2>1 DEF ScheduleOK
<1> QED
  BY <1>4, <1>5, <1>6, <1>7

LEMMA UnionKeeps ==
  ASSUME NEW F \in SUBSET Models, NEW v, NEW c, Sane(F, c),
         NEW smaller \in LITS, NEW larger \in LITS,
         LessLit(smaller, larger), smaller # NOT(larger), Equivalent(F, smaller, larger)
  PROVE  Keeps(F, v, c, Union(c, smaller, larger))
<1> DEFINE r == Redirected(c.repr, smaller, larger)
           united == SetRepr(c, r)
           forth == AddBinary(united, NOT(larger), smaller)
           back == AddBinary(forth, larger, NOT(smaller))
           d == Schedule(back, larger)
<1>1. Union(c, smaller, larger) = d
  BY DEF Union, SetRepr, Redirected
<1>2. IsClosure(c) /\ ReprOK(c.repr) /\ ScheduleOK(c.repr, c.schedule) /\ Merged(F, c.repr)
  BY DEF Sane, Shape, Consequences
<1>3. ReprOK(r) /\ ScheduleOK(r, c.schedule) /\ Merged(F, r) /\ r[larger] # larger
  BY <1>2, RedirectedFacts
<1>4. /\ IsClosure(united) /\ SameClauses(c, united) /\ SameValues(c, united)
      /\ SameGates(c, united) /\ united.repr = r /\ united.schedule = c.schedule
  <2> HIDE DEF r
  <2> QED
    BY <1>2, SetReprFacts
<1>5. Sane(F, united) /\ Extends(c, united) /\ Follows(v, c, united)
  <2> HIDE DEF united, r
  <2>1. Shape(united)
    BY <1>3, <1>4 DEF Sane, Shape, SameClauses, SameValues, SameGates
  <2>2. Consequences(F, united)
    BY <1>3, <1>4 DEF Sane, Consequences, SameClauses, SameValues, SameGates
  <2>3. Extends(c, united) /\ Follows(v, c, united)
    BY <1>4, FollowsSame DEF Extends, SameClauses, SameValues, SameGates
  <2> QED
    BY <2>1, <2>2, <2>3 DEF Sane
<1> HIDE DEF united
<1>6. NOT(larger) \in LITS /\ NOT(smaller) \in LITS
  BY LitFacts
<1>7. \A M \in F : /\ NOT(larger) \in M \/ smaller \in M
                   /\ larger \in M \/ NOT(smaller) \in M
  BY ModelFacts DEF Equivalent
<1>8. Adds(F, v, united, forth) /\ Covered(forth, NOT(larger), smaller)
  BY <1>5, <1>6, <1>7, AddBinaryAdds
<1> HIDE DEF forth
<1>9. Adds(F, v, forth, back) /\ Covered(back, larger, NOT(smaller))
  BY <1>6, <1>7, <1>8, AddBinaryAdds DEF Adds
<1> HIDE DEF back
<1>10. Adds(F, v, back, d)
  <2>1. Sane(F, back) /\ back.repr[larger] # larger
    BY <1>3, <1>4, <1>8, <1>9 DEF Adds
  <2> QED
    BY <2>1, ScheduleAdds
<1> HIDE DEF d
<1>14. Follows(v, c, d)
  BY <1>5, <1>8, <1>9, <1>10, FollowsTransitive DEF Adds
<1>11. Sane(F, d) /\ Extends(c, d) /\ d.repr = r
  BY <1>4, <1>5, <1>8, <1>9, <1>10 DEF Adds, Extends
<1>12. Covered(d, NOT(larger), smaller) /\ Covered(d, larger, NOT(smaller))
  BY <1>8, <1>9, <1>10, StaysCovered DEF Adds
<1>13. Committed(c) => Committed(d)
  <2>1. CASE c.inconsistent \/ d.inconsistent
    BY <1>11, <2>1 DEF Extends, Committed
  <2>2. CASE Merged(CoreModels(c), c.repr) /\ ~d.inconsistent
    <3> DEFINE K == CoreModels(d)
    <3>1. K \in SUBSET Models /\ K \subseteq CoreModels(c)
      BY <1>11, CoreGrows DEF CoreModels
    <3>2. \A M \in K : /\ NOT(larger) \in M \/ smaller \in M
                       /\ larger \in M \/ NOT(smaller) \in M
      BY <1>12, <2>2 DEF Covered
    <3> HIDE DEF K
    <3>3. Merged(K, c.repr)
      BY <2>2, <3>1 DEF Merged, Equivalent
    <3>4. Equivalent(K, smaller, larger)
      BY <3>1, <3>2, ModelFacts DEF Equivalent
    <3>5. Merged(K, r)
      BY <1>2, <3>1, <3>3, <3>4, RedirectedFacts
    <3> QED
      BY <1>11, <3>5 DEF Committed, K
  <2> QED
    BY <2>1, <2>2 DEF Committed
<1> QED
  BY <1>1, <1>11, <1>13, <1>14 DEF Keeps

LEMMA MergeKeeps ==
  ASSUME NEW F \in SUBSET Models, NEW v, NEW c, Sane(F, c),
         NEW lit \in LITS, NEW other \in LITS, Equivalent(F, lit, other)
  PROVE  Keeps(F, v, c, Merge(c, lit, other))
<1> DEFINE p == FindRepr(c, lit)
           q == FindRepr(c, other)
           smaller == IF LessLit(p, q) THEN p ELSE q
           larger  == IF smaller = p THEN q ELSE p
           differ == IsTrue(c, lit) # IsTrue(c, other)
           fixed == c.fixed \cup {smaller}
           lost == SetInconsistent(c, c.inconsistent \/ differ)
           failed == SetInconsistent(SetFixed(c, fixed), TRUE)
           d == Merge(c, lit, other)
<1>1. /\ IsClosure(c) /\ ReprOK(c.repr) /\ Merged(F, c.repr) /\ c.inconsistent \in BOOLEAN
      /\ c.inconsistent => F = {}
      /\ c.fixed \in SUBSET LITS
      /\ \A M \in F : M \in Models /\ \A l \in c.fixed : l \in M
  BY DEF Sane, Shape, Consequences, SatisfyLits
<1>2. /\ p \in LITS /\ q \in LITS
      /\ Equivalent(F, lit, p) /\ Equivalent(F, other, q)
  BY <1>1, FindReprFacts
<1> HIDE DEF p, q
<1>3. Equivalent(F, p, q)
  BY <1>2, EquivalentFacts, EquivalentTransitive
<1>4. d = IF p = q THEN c
          ELSE IF Valued(c, lit) /\ Valued(c, other) THEN lost
          ELSE IF Valued(c, lit)
          THEN LearnUnit(c, IF IsTrue(c, lit) THEN other ELSE NOT(other))
          ELSE IF Valued(c, other)
          THEN LearnUnit(c, IF IsTrue(c, other) THEN lit ELSE NOT(lit))
          ELSE IF p = NOT(q) THEN failed
          ELSE Union(c, smaller, larger)
  <2>1. lost = [c EXCEPT !.inconsistent = @ \/ IsTrue(c, lit) # IsTrue(c, other)]
    BY DEF SetInconsistent
  <2>2. failed = [c EXCEPT !.fixed = @ \cup {smaller}, !.inconsistent = TRUE]
    BY DEF SetInconsistent, SetFixed
  <2> HIDE DEF lost, failed
  <2> QED
    BY <2>1, <2>2 DEF Merge, p, q
<1>5. \A k, l \in LITS : Equivalent(F, k, l) /\ Valued(c, k)
         => Forced(F, IF IsTrue(c, k) THEN l ELSE NOT(l))
  BY <1>1, ModelFacts DEF Equivalent, Valued, IsTrue, IsFalse, Forced
<1>6. Equivalent(F, other, lit)
  BY EquivalentFacts
<1>7. CASE p = q
  BY <1>4, <1>7, KeepsItself
<1>8. CASE p # q /\ Valued(c, lit) /\ Valued(c, other)
  <2>1. differ => F = {}
    <3> SUFFICES ASSUME NEW M \in F
                 PROVE  ~differ
      OBVIOUS
    <3> QED
      BY <1>1, <1>8, ModelFacts DEF Equivalent, Valued, IsTrue, IsFalse
  <2> HIDE DEF differ
  <2>2. Adds(F, v, c, lost)
    BY <1>1, <2>1, BecomesInconsistent
  <2> QED
    BY <1>4, <1>8, <2>2, AddsKeeps
<1>9. CASE p # q /\ Valued(c, lit) /\ ~Valued(c, other)
  <2> DEFINE unit == IF IsTrue(c, lit) THEN other ELSE NOT(other)
  <2>1. unit \in LITS /\ Forced(F, unit)
    BY <1>5, <1>9, LitFacts
  <2>2. d = LearnUnit(c, unit)
    BY <1>4, <1>9
  <2> HIDE DEF unit
  <2>3. Adds(F, v, c, LearnUnit(c, unit))
    BY <2>1, LearnUnitAdds DEF Learned
  <2> QED
    BY <2>2, <2>3, AddsKeeps
<1>10. CASE p # q /\ ~Valued(c, lit) /\ Valued(c, other)
  <2> DEFINE unit == IF IsTrue(c, other) THEN lit ELSE NOT(lit)
  <2>1. unit \in LITS /\ Forced(F, unit)
    BY <1>5, <1>6, <1>10, LitFacts
  <2>2. d = LearnUnit(c, unit)
    BY <1>4, <1>10
  <2> HIDE DEF unit
  <2>3. Adds(F, v, c, LearnUnit(c, unit))
    BY <2>1, LearnUnitAdds DEF Learned
  <2> QED
    BY <2>2, <2>3, AddsKeeps
<1>11. smaller \in LITS /\ larger \in LITS
  BY <1>2
<1>12. CASE p # q /\ ~Valued(c, lit) /\ ~Valued(c, other) /\ p = NOT(q)
  <2>1. d = failed
    BY <1>4, <1>12
  <2>2. F = {}
    <3>1. \A M \in F : q \in M <=> q \notin M
      BY <1>1, <1>2, <1>3, <1>12, ModelFacts DEF Equivalent
    <3> QED
      BY <3>1
  <2>3. fixed \in SUBSET LITS /\ c.fixed \subseteq fixed /\ SatisfyLits(F, fixed)
    BY <1>1, <1>11, <2>2 DEF SatisfyLits
  <2> HIDE DEF fixed
  <2>4. Adds(F, v, c, SetFixed(c, fixed))
    BY <2>3, BecomesFixed
  <2>5. Adds(F, v, SetFixed(c, fixed), failed)
    <3>1. Sane(F, SetFixed(c, fixed))
      BY <2>4 DEF Adds
    <3> QED
      BY <2>2, <3>1, BecomesInconsistent
  <2> HIDE DEF failed
  <2> QED
    BY <2>1, <2>4, <2>5, AddsTransitive, AddsKeeps
<1>13. CASE p # q /\ ~Valued(c, lit) /\ ~Valued(c, other) /\ p # NOT(q)
  <2>1. d = Union(c, smaller, larger)
    BY <1>4, <1>13
  <2>2. LessLit(smaller, larger) /\ smaller # NOT(larger) /\ Equivalent(F, smaller, larger)
    BY <1>2, <1>3, <1>13, OrderFacts, EquivalentFacts, LitFacts
  <2> HIDE DEF smaller, larger
  <2> QED
    BY <1>11, <2>1, <2>2, UnionKeeps
<1> HIDE DEF d
<1> QED
  BY <1>7, <1>8, <1>9, <1>10, <1>12, <1>13 DEF d

-----------------------------------------------------------------------------
(* Gates. *)

Implied(F, gate) == \A M \in F : GateHolds(M, gate)

IteHolds(F, lhs, cond, t, e) ==
  \A M \in F : lhs \in M <=> IF cond \in M THEN t \in M ELSE e \in M

AndHolds(F, lhs, S) == \A M \in F : lhs \in M <=> S \subseteq M

XorHolds(F, lhs, S) == \A M \in F : lhs \in M <=> Parity(S \cap M)

LEMMA GateMeaning ==
  ASSUME NEW M, NEW gate
  PROVE  /\ gate.tag = "and" => (GateHolds(M, gate) <=> (gate.lhs \in M <=> ToSet(gate.rhs) \subseteq M))
         /\ gate.tag = "xor" => (GateHolds(M, gate) <=> (gate.lhs \in M <=> Parity(ToSet(gate.rhs) \cap M)))
         /\ gate.tag = "ite" =>
              (GateHolds(M, gate) <=>
                 (gate.lhs \in M <=> IF gate.rhs[1] \in M THEN gate.rhs[2] \in M
                                     ELSE gate.rhs[3] \in M))
BY DEF GateHolds

LEMMA GateFields ==
  ASSUME NEW tag, NEW lhs, NEW rhs
  PROVE  /\ Gate(tag, lhs, rhs).tag = tag
         /\ Gate(tag, lhs, rhs).lhs = lhs
         /\ Gate(tag, lhs, rhs).rhs = rhs
BY DEF Gate

LEMMA EntryFacts ==
  ASSUME NEW gate, NEW b \in BOOLEAN
  PROVE  /\ Entry(gate, b).garbage = b
         /\ Entry(gate, b).tag = gate.tag
         /\ Entry(gate, b).lhs = gate.lhs
         /\ Entry(gate, b).rhs = gate.rhs
         /\ GateOK(gate) => EntryOK(Entry(gate, b))
         /\ \A M : GateHolds(M, Entry(gate, b)) <=> GateHolds(M, gate)
<1>1. /\ Entry(gate, b).garbage = b
      /\ Entry(gate, b).tag = gate.tag
      /\ Entry(gate, b).lhs = gate.lhs
      /\ Entry(gate, b).rhs = gate.rhs
  BY DEF Entry
<1>2. Entry(Entry(gate, b), b) = Entry(gate, b)
  BY DEF Entry
<1> DEFINE e == Entry(gate, b)
<1> HIDE DEF e
<1>3. GateOK(gate) => EntryOK(e)
  BY <1>1, <1>2 DEF EntryOK, GateOK, e
<1>4. \A M : GateHolds(M, e) <=> GateHolds(M, gate)
  BY <1>1 DEF GateHolds, e
<1> QED
  BY <1>1, <1>3, <1>4 DEF e

LEMMA EntryMarked ==
  ASSUME NEW entry, EntryOK(entry)
  PROVE  [entry EXCEPT !.garbage = TRUE] = Entry(entry, TRUE)
<1> DEFINE new == [entry EXCEPT !.garbage = TRUE]
<1>1. entry = [tag |-> entry.tag, lhs |-> entry.lhs, rhs |-> entry.rhs, garbage |-> entry.garbage]
  BY DEF EntryOK, Entry
<1>2. DOMAIN entry = {"tag", "lhs", "rhs", "garbage"}
  BY <1>1
<1>3. /\ DOMAIN new = {"tag", "lhs", "rhs", "garbage"}
      /\ new.tag = entry.tag /\ new.lhs = entry.lhs /\ new.rhs = entry.rhs /\ new.garbage = TRUE
  BY <1>2
<1>4. new = [x \in DOMAIN new |-> new[x]]
  OBVIOUS
<1> HIDE DEF new
<1>5. new = [tag |-> entry.tag, lhs |-> entry.lhs, rhs |-> entry.rhs, garbage |-> TRUE]
  BY <1>3, <1>4
<1> QED
  BY <1>5 DEF Entry, new

(* Two gates of one function of the same inputs. *)
LEMMA SameFunction ==
  ASSUME NEW F, NEW gate, NEW other, gate.tag \in {"and", "xor", "ite"},
         gate.tag = other.tag, gate.rhs = other.rhs, Implied(F, gate), Implied(F, other)
  PROVE  Equivalent(F, gate.lhs, other.lhs)
<1> SUFFICES ASSUME NEW M \in F
             PROVE  gate.lhs \in M <=> other.lhs \in M
  BY DEF Equivalent
<1>1. GateHolds(M, gate) /\ GateHolds(M, other)
  BY DEF Implied
<1> QED
  BY <1>1, GateMeaning

LEMMA InputsAreVars ==
  ASSUME NEW gate, GateOK(gate)
  PROVE  ToSet(gate.rhs) \subseteq LITS /\ InputVars(gate) \subseteq Vars
<1>1. ToSet(gate.rhs) \subseteq LITS
  BY DEF GateOK, ToSet
<1> QED
  BY <1>1, LitFacts DEF InputVars

(* The gates of a closure. *)
LEMMA GateOfClosure ==
  ASSUME NEW F, NEW c, Sane(F, c), NEW g \in DOMAIN c.gates
  PROVE  /\ EntryOK(c.gates[g]) /\ GateOK(c.gates[g])
         /\ c.gates[g].lhs \in LITS
         /\ c.gates[g].rhs \in Seq(LITS)
         /\ c.gates[g].garbage \in BOOLEAN
         /\ ~c.gates[g].garbage => Implied(F, c.gates[g])
         /\ g \in Live(c) <=> ~c.gates[g].garbage
BY DEF Sane, Shape, Consequences, GatesOK, HoldGates, EntryOK, GateOK, Implied, Live

(* The gate g becomes another one. *)
Replaces(v, c, g, entry) ==
  LiveIte(entry) /\ g \in DOMAIN c.gates =>
    LiveIte(c.gates[g]) /\ InputVars(c.gates[g]) \ {v} \subseteq InputVars(entry)

LEMMA GateChanges ==
  ASSUME NEW F, NEW v, NEW c, Sane(F, c), NEW g, NEW entry, EntryOK(entry),
         ~entry.garbage => Implied(F, entry), Replaces(v, c, g, entry), NEW gates,
         gates = [h \in DOMAIN c.gates \cup {g} |-> IF h = g THEN entry ELSE c.gates[h]]
  PROVE  Adds(F, v, c, SetGates(c, gates))
<1> DEFINE d == SetGates(c, gates)
<1>1. IsClosure(c)
  BY DEF Sane, Shape
<1>2. /\ IsClosure(d) /\ SameClauses(c, d) /\ SameValues(c, d) /\ SameMerges(c, d)
      /\ d.gates = gates /\ d.occurrences = c.occurrences
  BY <1>1, SetGatesFacts
<1> HIDE DEF d
<1>3. DOMAIN gates = DOMAIN c.gates \cup {g}
  OBVIOUS
<1>4. gates = [h \in DOMAIN gates |-> gates[h]]
  OBVIOUS
<1>5. \A h \in DOMAIN gates : EntryOK(gates[h])
  BY DEF Sane, Shape, GatesOK
<1>6. HoldGates(F, gates)
  BY DEF Sane, Consequences, HoldGates, Implied
<1>7. c.occurrences \in [LITS -> SUBSET DOMAIN gates]
  BY <1>3 DEF Sane, Shape
<1>8. GatesOK(gates)
  BY <1>4, <1>5 DEF GatesOK
<1>9. Shape(d)
  BY <1>2, <1>7, <1>8 DEF Sane, Shape, SameClauses, SameValues, SameMerges
<1>10. Consequences(F, d)
  BY <1>2, <1>6 DEF Sane, Consequences, SameClauses, SameValues, SameMerges
<1>11. Extends(c, d) /\ d.repr = c.repr
  BY <1>2, <1>3 DEF Extends, SameClauses, SameValues, SameMerges
<1>12. Follows(v, c, d)
  <2>1. \A l \in LITS : c.occurrences[l] \subseteq DOMAIN c.gates
    BY DEF Sane, Shape
  <2>2. \A h \in DOMAIN c.gates : gates[h] = IF h = g THEN entry ELSE c.gates[h]
    OBVIOUS
  <2> HIDE DEF d
  <2> QED
    BY <1>2, <2>1, <2>2 DEF Follows, Replaces
<1> QED
  BY <1>9, <1>10, <1>11, <1>12 DEF Adds, Sane, d

LEMMA MarkGarbageAdds ==
  ASSUME NEW F, NEW v, NEW c, Sane(F, c), NEW g \in DOMAIN c.gates
  PROVE  /\ Adds(F, v, c, MarkGarbage(c, g))
         /\ Adds(F, v, c, [c EXCEPT !.gates[g].garbage = TRUE])
<1> DEFINE entry == Entry(c.gates[g], TRUE)
           gates == [h \in DOMAIN c.gates \cup {g} |-> IF h = g THEN entry ELSE c.gates[h]]
           marked == [c EXCEPT !.gates[g].garbage = TRUE]
<1>1. EntryOK(c.gates[g]) /\ GateOK(c.gates[g])
  BY GateOfClosure
<1>2. EntryOK(entry) /\ entry.garbage = TRUE /\ Replaces(v, c, g, entry)
  <2>1. EntryOK(entry) /\ entry.garbage = TRUE
    BY <1>1, EntryFacts
  <2> QED
    BY <2>1 DEF Replaces, LiveIte
<1>3. [c.gates[g] EXCEPT !.garbage = TRUE] = entry
  BY <1>1, EntryMarked
<1>4. c.gates = [h \in DOMAIN c.gates |-> c.gates[h]]
  BY DEF Sane, Shape, GatesOK
<1>5. [c.gates EXCEPT ![g].garbage = TRUE] = gates
  BY <1>3, <1>4
<1>6. marked = SetGates(c, gates)
  <2>1. marked = SetGates(c, [c.gates EXCEPT ![g].garbage = TRUE])
    BY DEF SetGates
  <2> HIDE DEF marked
  <2> QED
    BY <1>5, <2>1
<1> HIDE DEF entry, marked
<1>7. Adds(F, v, c, SetGates(c, gates))
  BY <1>2, GateChanges
<1>8. Adds(F, v, c, marked)
  BY <1>6, <1>7
<1>9. MarkGarbage(c, g) = c \/ MarkGarbage(c, g) = marked
  BY DEF MarkGarbage, marked
<1> QED
  BY <1>8, <1>9, AddsItself DEF marked

LEMMA ConnectAdds ==
  ASSUME NEW F, NEW v, NEW c, Sane(F, c), NEW g \in DOMAIN c.gates, NEW lits,
         LiveIte(c.gates[g]) => \A l \in lits : IDX(l) \in InputVars(c.gates[g]) \ {v}
  PROVE  Adds(F, v, c, Connect(c, lits, g))
<1> DEFINE os == [l \in LITS |-> IF l \in lits THEN c.occurrences[l] \cup {g} ELSE c.occurrences[l]]
           d == SetOccurrences(c, os)
<1>1. Connect(c, lits, g) = d
  BY DEF Connect, SetOccurrences
<1>2. IsClosure(c) /\ os \in [LITS -> SUBSET DOMAIN c.gates]
  BY DEF Sane, Shape
<1>7. \A l \in LITS : c.occurrences[l] \subseteq os[l]
  OBVIOUS
<1>8. \A l \in LITS : \A h \in os[l] : h \in c.occurrences[l] \/ (l \in lits /\ h = g)
  OBVIOUS
<1> HIDE DEF os
<1>3. /\ IsClosure(d) /\ SameClauses(c, d) /\ SameValues(c, d) /\ SameMerges(c, d)
      /\ d.occurrences = os /\ d.gates = c.gates
  BY <1>2, SetOccurrencesFacts
<1> HIDE DEF d
<1>4. Shape(d)
  BY <1>2, <1>3 DEF Sane, Shape, SameClauses, SameValues, SameMerges
<1>5. Consequences(F, d)
  BY <1>3 DEF Sane, Consequences, SameClauses, SameValues, SameMerges
<1>6. Extends(c, d) /\ d.repr = c.repr
  BY <1>3, <1>7 DEF Extends, SameClauses, SameValues, SameMerges
<1>9. Follows(v, c, d)
  BY <1>3, <1>8 DEF Follows
<1> QED
  BY <1>1, <1>4, <1>5, <1>6, <1>9 DEF Adds, Sane

LEMMA GarbageAfter ==
  ASSUME NEW F, NEW v, NEW c, NEW d, Keeps(F, v, c, d), NEW g \in DOMAIN c.gates
  PROVE  Keeps(F, v, c, MarkGarbage(d, g))
<1>1. Sane(F, d) /\ g \in DOMAIN d.gates
  BY DEF Keeps, Extends
<1>2. Adds(F, v, d, MarkGarbage(d, g))
  BY <1>1, MarkGarbageAdds
<1> QED
  BY <1>2, AddsKeeps, KeepsTransitive

(* A gate that the hash table has already. *)
LEMMA MatchMerges ==
  ASSUME NEW F \in SUBSET Models, NEW c, Sane(F, c),
         NEW gate, GateOK(gate), Implied(F, gate), NEW except,
         Matching(c, gate, except) # {}
  PROVE  LET h == CHOOSE x \in Matching(c, gate, except) : TRUE
         IN  /\ c.gates[h].lhs \in LITS
             /\ Equivalent(F, c.gates[h].lhs, gate.lhs)
             /\ Equivalent(F, gate.lhs, c.gates[h].lhs)
<1> DEFINE h == CHOOSE x \in Matching(c, gate, except) : TRUE
<1>1. h \in Matching(c, gate, except)
  OBVIOUS
<1> HIDE DEF h
<1>2. h \in Live(c) /\ c.gates[h].tag = gate.tag /\ c.gates[h].rhs = gate.rhs
  BY <1>1 DEF Matching
<1>3. h \in DOMAIN c.gates
  BY <1>2 DEF Live
<1>4. c.gates[h].lhs \in LITS /\ Implied(F, c.gates[h])
  BY <1>2, <1>3, GateOfClosure
<1>5. Equivalent(F, gate.lhs, c.gates[h].lhs)
  BY <1>2, <1>4, SameFunction DEF GateOK
<1>6. Equivalent(F, c.gates[h].lhs, gate.lhs)
  BY <1>5, EquivalentFacts
<1> QED
  BY <1>4, <1>5, <1>6 DEF h

(* No gate has changed since it was found. *)
Original(c) ==
  \A g \in DOMAIN c.gates :
    ~c.gates[g].garbage /\ c.gates[g].tag = g.tag /\ c.gates[g].rhs = g.rhs

LEMMA NewGateKeeps ==
  ASSUME NEW F \in SUBSET Models, NEW v, NEW c, Sane(F, c),
         NEW gate, GateOK(gate), Implied(F, gate), Original(c),
         gate.tag = "ite" => v \notin InputVars(gate)
  PROVE  Keeps(F, v, c, NewGate(c, gate))
<1> DEFINE same == Matching(c, gate, NoGate)
           h == CHOOSE x \in same : TRUE
           entry == Entry(gate, FALSE)
           gates == [g \in DOMAIN c.gates \cup {gate} |-> IF g = gate THEN entry ELSE c.gates[g]]
           d == SetGates(c, gates)
<1>1. NewGate(c, gate) = IF same # {} THEN Merge(c, c.gates[h].lhs, gate.lhs)
                         ELSE Connect(d, ToSet(gate.rhs), gate)
  BY DEF NewGate, Entry, SetGates
<1>2. CASE same # {}
  <2>1. LET x == CHOOSE x \in Matching(c, gate, NoGate) : TRUE
        IN  /\ c.gates[x].lhs \in LITS
            /\ Equivalent(F, c.gates[x].lhs, gate.lhs)
            /\ Equivalent(F, gate.lhs, c.gates[x].lhs)
    BY <1>2, MatchMerges
  <2>2. c.gates[h].lhs \in LITS /\ Equivalent(F, c.gates[h].lhs, gate.lhs)
    BY <2>1
  <2> HIDE DEF h
  <2>3. gate.lhs \in LITS
    BY DEF GateOK
  <2> QED
    BY <1>1, <1>2, <2>2, <2>3, MergeKeeps
<1>3. CASE same = {}
  <2>1. EntryOK(entry) /\ Implied(F, entry) /\ entry.tag = gate.tag /\ entry.rhs = gate.rhs
    BY EntryFacts DEF Implied
  <2> HIDE DEF entry
  <2>5. gate \notin DOMAIN c.gates
    <3>1. gate # NoGate
      <4>1. NoGate.tag = "none"
        BY DEF NoGate, Gate
      <4> QED
        BY <4>1 DEF GateOK
    <3> QED
      BY <1>3, <3>1 DEF Matching, Live, Original
  <2>2. Adds(F, v, c, d)
    <3>1. Replaces(v, c, gate, entry)
      BY <2>5 DEF Replaces
    <3> QED
      BY <2>1, <3>1, GateChanges
  <2>3. gate \in DOMAIN d.gates /\ d.gates[gate] = entry
    <3>1. d.gates = gates
      <4>1. IsClosure(c)
        BY DEF Sane, Shape
      <4> HIDE DEF gates
      <4> QED
        BY <4>1, SetGatesFacts
    <3> HIDE DEF d
    <3> QED
      BY <3>1
  <2> HIDE DEF d
  <2>6. LiveIte(d.gates[gate]) => \A l \in ToSet(gate.rhs) : IDX(l) \in InputVars(d.gates[gate]) \ {v}
    BY <2>1, <2>3 DEF LiveIte, InputVars
  <2>4. Adds(F, v, d, Connect(d, ToSet(gate.rhs), gate))
    <3>1. Sane(F, d)
      BY <2>2 DEF Adds
    <3> QED
      BY <2>3, <2>6, <3>1, ConnectAdds
  <2> QED
    BY <1>1, <1>3, <2>2, <2>4, AddsTransitive, AddsKeeps
<1> QED
  BY <1>2, <1>3

(* gate is old with another variable for v. *)
Substitutes(v, old, gate) ==
  /\ LiveIte(old)
  /\ InputVars(old) \ {v} \subseteq InputVars(gate)
  /\ v \notin InputVars(gate)

LEMMA ReindexKeeps ==
  ASSUME NEW F \in SUBSET Models, NEW v, NEW c, Sane(F, c), NEW g \in DOMAIN c.gates,
         NEW gate, GateOK(gate), Implied(F, gate), NEW dst,
         gate.tag = "ite" => Substitutes(v, c.gates[g], gate)
  PROVE  /\ Keeps(F, v, c, Reindex(c, g, gate, dst))
         /\ Matching(c, gate, g) = {} => Adds(F, v, c, Reindex(c, g, gate, dst))
<1> DEFINE same == Matching(c, gate, g)
           h == CHOOSE x \in same : TRUE
           entry == Entry(gate, FALSE)
           gates == [x \in DOMAIN c.gates \cup {g} |-> IF x = g THEN entry ELSE c.gates[x]]
           d == SetGates(c, gates)
           lits == ToSet(gate.rhs) \ (ToSet(c.gates[g].rhs) \cup {dst})
<1>1. gates = [c.gates EXCEPT ![g] = entry]
  <2>1. c.gates = [x \in DOMAIN c.gates |-> c.gates[x]]
    BY DEF Sane, Shape, GatesOK
  <2> HIDE DEF entry
  <2> QED
    BY <2>1
<1>2. Reindex(c, g, gate, dst)
        = IF same = {} THEN Connect(d, lits, g)
          ELSE MarkGarbage(Merge(c, gate.lhs, c.gates[h].lhs), g)
  <2>1. d = [c EXCEPT !.gates[g] = entry]
    <3>1. d = [c EXCEPT !.gates = [c.gates EXCEPT ![g] = entry]]
      <4> HIDE DEF gates
      <4> QED
        BY <1>1 DEF SetGates
    <3> HIDE DEF d, entry
    <3> QED
      BY <3>1
  <2> HIDE DEF d
  <2> QED
    BY <2>1 DEF Reindex, Entry
<1>3. CASE same # {}
  <2>1. LET x == CHOOSE x \in Matching(c, gate, g) : TRUE
        IN  /\ c.gates[x].lhs \in LITS
            /\ Equivalent(F, c.gates[x].lhs, gate.lhs)
            /\ Equivalent(F, gate.lhs, c.gates[x].lhs)
    BY <1>3, MatchMerges
  <2>2. c.gates[h].lhs \in LITS /\ Equivalent(F, gate.lhs, c.gates[h].lhs)
    BY <2>1
  <2> HIDE DEF h
  <2>3. gate.lhs \in LITS
    BY DEF GateOK
  <2>4. Keeps(F, v, c, Merge(c, gate.lhs, c.gates[h].lhs))
    BY <2>2, <2>3, MergeKeeps
  <2> QED
    BY <1>2, <1>3, <2>4, GarbageAfter
<1>4. CASE same = {}
  <2>1. EntryOK(entry) /\ Implied(F, entry) /\ entry.tag = gate.tag /\ entry.rhs = gate.rhs
    BY EntryFacts DEF Implied
  <2> HIDE DEF entry
  <2>2. Adds(F, v, c, d)
    <3>1. Replaces(v, c, g, entry)
      BY <2>1 DEF Replaces, Substitutes, LiveIte, InputVars
    <3> QED
      BY <2>1, <3>1, GateChanges
  <2>3. g \in DOMAIN d.gates /\ d.gates[g] = entry
    <3>1. d.gates = gates
      <4>1. IsClosure(c)
        BY DEF Sane, Shape
      <4> HIDE DEF gates
      <4> QED
        BY <4>1, SetGatesFacts
    <3> HIDE DEF d
    <3> QED
      BY <3>1
  <2> HIDE DEF d
  <2>5. LiveIte(d.gates[g]) => \A l \in lits : IDX(l) \in InputVars(d.gates[g]) \ {v}
    BY <2>1, <2>3 DEF LiveIte, InputVars, Substitutes
  <2> HIDE DEF lits
  <2>4. Adds(F, v, d, Connect(d, lits, g))
    <3>1. Sane(F, d)
      BY <2>2 DEF Adds
    <3> QED
      BY <2>3, <2>5, <3>1, ConnectAdds
  <2> HIDE DEF lits
  <2> QED
    BY <1>2, <1>4, <2>2, <2>4, AddsTransitive, AddsKeeps
<1> QED
  BY <1>3, <1>4

LEMMA NormalizedIteFacts ==
  ASSUME NEW F \in SUBSET Models,
         NEW lhs \in LITS, NEW cond \in LITS, NEW t \in LITS, NEW e \in LITS,
         IDX(cond) # IDX(t), IDX(cond) # IDX(e), IDX(t) # IDX(e),
         IteHolds(F, lhs, cond, t, e)
  PROVE  /\ GateOK(NormalizedIte(lhs, cond, t, e))
         /\ Implied(F, NormalizedIte(lhs, cond, t, e))
<1> DEFINE p == IF NEGATED(cond) THEN e ELSE t
           n == IF NEGATED(cond) THEN t ELSE e
           v == STRIP(cond)
           out == IF NEGATED(p) THEN NOT(lhs) ELSE lhs
           r == IF NEGATED(p) THEN <<v, NOT(p), NOT(n)>> ELSE <<v, p, n>>
           gate == NormalizedIte(lhs, cond, t, e)
<1>1. gate = Gate("ite", out, r)
  BY DEF NormalizedIte
<1>2. gate.tag = "ite" /\ gate.lhs = out /\ gate.rhs = r
  BY <1>1, GateFields
<1>3. /\ v \in LITS /\ p \in LITS /\ n \in LITS /\ out \in LITS
      /\ NOT(p) \in LITS /\ NOT(n) \in LITS
      /\ IDX(v) = IDX(cond) /\ IDX(NOT(p)) = IDX(p) /\ IDX(NOT(n)) = IDX(n)
      /\ cond = IF NEGATED(cond) THEN NOT(v) ELSE v
  BY LitFacts, VarFacts DEF STRIP
<1>4. IDX(v) # IDX(p) /\ IDX(v) # IDX(n) /\ IDX(p) # IDX(n)
  BY <1>3
<1>5. ASSUME NEW M \in F
      PROVE  lhs \in M <=> IF v \in M THEN p \in M ELSE n \in M
  <2>1. NEGATED(cond) => (cond \in M <=> v \notin M)
    BY <1>3, ModelFacts
  <2>2. ~NEGATED(cond) => cond = v
    BY <1>3
  <2> HIDE DEF v
  <2> QED
    BY <2>1, <2>2 DEF IteHolds
<1> HIDE DEF v, p, n
<1>6. GateOK(gate)
  <2>1. r \in Seq(LITS) /\ DifferentInputs(r)
    BY <1>3, <1>4 DEF DifferentInputs
  <2> HIDE DEF r, out, gate
  <2> QED
    BY <1>2, <1>3, <2>1 DEF GateOK
<1>7. ASSUME NEW M \in F
      PROVE  out \in M <=> IF r[1] \in M THEN r[2] \in M ELSE r[3] \in M
  <2>1. \A l \in LITS : NOT(l) \in M <=> l \notin M
    BY ModelFacts
  <2> QED
    BY <1>3, <1>5, <2>1
<1>8. Implied(F, gate)
  <2> HIDE DEF r, out, gate
  <2> QED
    BY <1>2, <1>7, GateMeaning DEF Implied
<1> QED
  BY <1>6, <1>8

(* What is known of an if-then-else that was found in the clauses. *)
IteFound(F, ite) ==
  /\ ite = <<ite[1], ite[2], ite[3], ite[4]>>
  /\ ite[1] \in LITS /\ ite[2] \in LITS /\ ite[3] \in LITS /\ ite[4] \in LITS
  /\ IDX(ite[2]) # IDX(ite[3]) /\ IDX(ite[2]) # IDX(ite[4])
  /\ IteHolds(F, ite[1], ite[2], ite[3], ite[4])

LEMMA NewIteKeeps ==
  ASSUME NEW F \in SUBSET Models, NEW v, NEW c, Sane(F, c), NEW ite, IteFound(F, ite),
         Original(c), v \notin Vars
  PROVE  Keeps(F, v, c, NewIte(c, ite[1], ite[2], ite[3], ite[4]))
<1> DEFINE lhs == ite[1]
           cond == ite[2]
           t == ite[3]
           e == ite[4]
<1>1. /\ lhs \in LITS /\ cond \in LITS /\ t \in LITS /\ e \in LITS
      /\ IDX(cond) # IDX(t) /\ IDX(cond) # IDX(e) /\ IteHolds(F, lhs, cond, t, e)
  BY DEF IteFound
<1> HIDE DEF lhs, cond, t, e
<1>2. CASE e = NOT(t)
  <2>1. NewIte(c, lhs, cond, t, e) = c
    BY <1>2 DEF NewIte
  <2> QED
    BY <2>1, KeepsItself DEF lhs, cond, t, e
<1>3. CASE e # NOT(t) /\ e = t
  <2>1. NewIte(c, lhs, cond, t, e) = Merge(c, lhs, t)
    BY <1>3 DEF NewIte
  <2>2. Equivalent(F, lhs, t)
    BY <1>1, <1>3 DEF Equivalent, IteHolds
  <2>3. Keeps(F, v, c, Merge(c, lhs, t))
    BY <1>1, <2>2, MergeKeeps
  <2> QED
    BY <2>1, <2>3 DEF lhs, cond, t, e
<1>4. CASE e # NOT(t) /\ e # t
  <2>1. NewIte(c, lhs, cond, t, e) = NewGate(c, NormalizedIte(lhs, cond, t, e))
    BY <1>4 DEF NewIte
  <2>2. IDX(t) # IDX(e)
    BY <1>1, <1>4, SameIndex
  <2>3. GateOK(NormalizedIte(lhs, cond, t, e)) /\ Implied(F, NormalizedIte(lhs, cond, t, e))
    BY <1>1, <2>2, NormalizedIteFacts
  <2>4. Keeps(F, v, c, NewGate(c, NormalizedIte(lhs, cond, t, e)))
    <3>1. v \notin InputVars(NormalizedIte(lhs, cond, t, e))
      BY <2>3, InputsAreVars
    <3> QED
      BY <2>3, <3>1, NewGateKeeps
  <2> QED
    BY <2>1, <2>4 DEF lhs, cond, t, e
<1> QED
  BY <1>2, <1>3, <1>4

-----------------------------------------------------------------------------
(* A gate gets other inputs. *)

LEMMA OneElement ==
  ASSUME NEW s \in Seq(LITS), Len(s) = 1
  PROVE  ToSet(s) = {s[1]} /\ s[1] \in LITS
<1>1. DOMAIN s = 1..Len(s) /\ 1 \in 1..Len(s)
  OBVIOUS
<1>2. \A i \in 1..1 : i = 1
  OBVIOUS
<1>3. s[1] \in LITS
  BY <1>1
<1> QED
  BY <1>1, <1>2, <1>3 DEF ToSet

LEMMA UpdateUnaryKeeps ==
  ASSUME NEW F \in SUBSET Models, NEW v, NEW c, Sane(F, c), NEW g \in DOMAIN c.gates,
         NEW lhs \in LITS, NEW lit \in LITS, Equivalent(F, lhs, lit)
  PROVE  Keeps(F, v, c, UpdateUnary(c, g, lhs, lit))
<1> DEFINE d == IF IsTrue(c, lhs) THEN LearnUnit(c, lit)
                ELSE IF IsFalse(c, lhs) THEN LearnUnit(c, NOT(lit))
                ELSE Merge(c, lhs, lit)
<1>1. UpdateUnary(c, g, lhs, lit) = MarkGarbage(d, g)
  BY DEF UpdateUnary
<1>2. \A M \in F : M \in Models /\ \A l \in c.fixed : l \in M
  BY DEF Sane, Consequences, SatisfyLits
<1>3. IsTrue(c, lhs) => Forced(F, lit)
  BY <1>2 DEF IsTrue, Forced, Equivalent
<1>4. IsFalse(c, lhs) => Forced(F, NOT(lit))
  BY <1>2, ModelFacts DEF IsFalse, Forced, Equivalent
<1>5. NOT(lit) \in LITS
  BY LitFacts
<1>6. IsTrue(c, lhs) => Keeps(F, v, c, LearnUnit(c, lit))
  BY <1>3, LearnUnitAdds, AddsKeeps DEF Learned
<1>7. IsFalse(c, lhs) => Keeps(F, v, c, LearnUnit(c, NOT(lit)))
  BY <1>4, <1>5, LearnUnitAdds, AddsKeeps DEF Learned
<1>8. Keeps(F, v, c, Merge(c, lhs, lit))
  BY MergeKeeps
<1>9. Keeps(F, v, c, d)
  BY <1>6, <1>7, <1>8
<1> HIDE DEF d
<1> QED
  BY <1>1, <1>9, GarbageAfter

LEMMA UpdateAndKeeps ==
  ASSUME NEW F \in SUBSET Models, NEW v, NEW c, Sane(F, c), NEW g \in DOMAIN c.gates,
         NEW rhs \in Seq(LITS), NEW contradiction, NEW dst,
         contradiction => Forced(F, NOT(c.gates[g].lhs)),
         ~contradiction => AndHolds(F, c.gates[g].lhs, ToSet(rhs))
  PROVE  Keeps(F, v, c, UpdateAnd(c, g, rhs, contradiction, dst))
<1> DEFINE lhs == c.gates[g].lhs
           gate == Gate("and", lhs, rhs)
           d == UpdateAnd(c, g, rhs, contradiction, dst)
<1>1. lhs \in LITS /\ NOT(lhs) \in LITS
  BY GateOfClosure, LitFacts
<1>2. CASE contradiction
  <2>1. Keeps(F, v, c, LearnUnit(c, NOT(lhs)))
    BY <1>1, <1>2, LearnUnitAdds, AddsKeeps DEF Learned
  <2>2. d = MarkGarbage(LearnUnit(c, NOT(lhs)), g)
    BY <1>2 DEF UpdateAnd
  <2> QED
    BY <2>1, <2>2, GarbageAfter
<1>3. CASE ~contradiction /\ Len(rhs) = 1
  <2>1. ToSet(rhs) = {rhs[1]} /\ rhs[1] \in LITS
    BY <1>3, OneElement
  <2>2. Equivalent(F, lhs, rhs[1])
    BY <1>3, <2>1 DEF Equivalent, AndHolds
  <2>3. d = UpdateUnary(c, g, lhs, rhs[1])
    BY <1>3 DEF UpdateAnd
  <2> QED
    BY <1>1, <2>1, <2>2, <2>3, UpdateUnaryKeeps
<1>4. CASE ~contradiction /\ Len(rhs) # 1
  <2>1. gate.tag = "and" /\ gate.lhs = lhs /\ gate.rhs = rhs
    BY GateFields
  <2>2. d = Reindex(c, g, gate, dst)
    BY <1>4 DEF UpdateAnd
  <2> HIDE DEF gate
  <2>3. GateOK(gate)
    BY <1>1, <2>1 DEF GateOK
  <2>4. Implied(F, gate)
    BY <1>4, <2>1, GateMeaning DEF Implied, AndHolds
  <2> QED
    BY <2>1, <2>2, <2>3, <2>4, ReindexKeeps
<1> QED
  BY <1>2, <1>3, <1>4

-----------------------------------------------------------------------------
(* Parity. *)

LEMMA ParityFacts ==
  /\ ~Parity({})
  /\ \A x : Parity({x})
  /\ \A x, y : x # y => ~Parity({x, y})
  /\ \A S : Parity(S) \in BOOLEAN
<1>1. Cardinality({}) = 0 /\ \A x : Cardinality({x}) = 1
  BY FS_EmptySet, FS_Singleton
<1>2. \A x, y : x # y => Cardinality({x, y}) = 2
  BY PairSize
<1>3. 0 % 2 = 0 /\ 1 % 2 = 1 /\ 2 % 2 = 0
  OBVIOUS
<1>4. ~Parity({})
  BY <1>1, <1>3 DEF Parity
<1>5. ASSUME NEW x
      PROVE  Parity({x})
  BY <1>1, <1>3 DEF Parity
<1>6. ASSUME NEW x, NEW y, x # y
      PROVE  ~Parity({x, y})
  <2>1. Cardinality({x, y}) = 2
    BY <1>2, <1>6
  <2> QED
    BY <1>3, <2>1 DEF Parity
<1>7. \A S : Parity(S) \in BOOLEAN
  BY Zenon DEF Parity
<1> QED
  BY <1>4, <1>5, <1>6, <1>7

LEMMA ParityOfSum ==
  ASSUME NEW m \in Nat, NEW n \in Nat
  PROVE  (m + n) % 2 = 1 <=> ((m % 2 = 1) # (n % 2 = 1))
OBVIOUS

LEMMA ParityOfUnion ==
  ASSUME NEW S \in SUBSET LITS, NEW T \in SUBSET LITS, S \cap T = {}
  PROVE  Parity(S \cup T) <=> (Parity(S) # Parity(T))
<1>1. IsFiniteSet(S) /\ IsFiniteSet(T) /\ IsFiniteSet(S \cap T)
  BY LitsFinite
<1>2. Cardinality(S) \in Nat /\ Cardinality(T) \in Nat /\ Cardinality(S \cap T) = 0
  BY <1>1, FS_CardinalityType, FS_EmptySet
<1>3. Cardinality(S \cup T) = Cardinality(S) + Cardinality(T) - Cardinality(S \cap T)
  BY <1>1, FS_Union
<1>4. Cardinality(S \cup T) = Cardinality(S) + Cardinality(T)
  BY <1>2, <1>3
<1> QED
  BY <1>2, <1>4, ParityOfSum DEF Parity

LEMMA UpdateXorKeeps ==
  ASSUME NEW F \in SUBSET Models, NEW v, NEW c, Sane(F, c), NEW g \in DOMAIN c.gates,
         NEW lhs \in LITS, NEW S \in SUBSET LITS, NEW dst, XorHolds(F, lhs, S)
  PROVE  Keeps(F, v, c, UpdateXor(c, g, lhs, SortLits(S), dst))
<1> DEFINE rhs == SortLits(S)
           gate == Gate("xor", lhs, rhs)
           d == UpdateXor(c, g, lhs, rhs, dst)
<1>1. rhs \in Seq(LITS) /\ ToSet(rhs) = S
  BY SortedLits
<1> HIDE DEF rhs
<1>2. NOT(lhs) \in LITS /\ \A M \in F : NOT(lhs) \in M <=> lhs \notin M
  BY LitFacts, ModelFacts
<1>3. CASE Len(rhs) = 0
  <2>1. S = {}
    BY <1>1, <1>3 DEF ToSet
  <2>2. Forced(F, NOT(lhs))
    BY <1>2, <2>1, ParityFacts DEF Forced, XorHolds
  <2>3. Keeps(F, v, c, LearnUnit(c, NOT(lhs)))
    BY <1>2, <2>2, LearnUnitAdds, AddsKeeps DEF Learned
  <2>4. d = MarkGarbage(LearnUnit(c, NOT(lhs)), g)
    BY <1>3 DEF UpdateXor
  <2> QED
    BY <2>3, <2>4, GarbageAfter DEF rhs
<1>4. CASE Len(rhs) = 1
  <2>1. S = {rhs[1]} /\ rhs[1] \in LITS
    BY <1>1, <1>4, OneElement
  <2>2. \A M \in F : Parity(S \cap M) <=> rhs[1] \in M
    <3> TAKE M \in F
    <3>1. rhs[1] \in M => S \cap M = {rhs[1]}
      BY <2>1
    <3>2. rhs[1] \notin M => S \cap M = {}
      BY <2>1
    <3> QED
      BY <3>1, <3>2, ParityFacts
  <2>3. Equivalent(F, lhs, rhs[1])
    BY <2>2 DEF Equivalent, XorHolds
  <2>4. d = UpdateUnary(c, g, lhs, rhs[1])
    BY <1>4 DEF UpdateXor
  <2>5. Keeps(F, v, c, UpdateUnary(c, g, lhs, rhs[1]))
    BY <2>1, <2>3, UpdateUnaryKeeps
  <2> QED
    BY <2>4, <2>5 DEF rhs
<1>5. CASE Len(rhs) # 0 /\ Len(rhs) # 1
  <2>1. gate.tag = "xor" /\ gate.lhs = lhs /\ gate.rhs = rhs
    BY GateFields
  <2>2. d = Reindex(c, g, gate, dst)
    BY <1>5 DEF UpdateXor
  <2> HIDE DEF gate
  <2>3. GateOK(gate)
    BY <1>1, <2>1 DEF GateOK
  <2>4. Implied(F, gate)
    BY <1>1, <2>1, GateMeaning DEF Implied, XorHolds
  <2>5. Keeps(F, v, c, Reindex(c, g, gate, dst))
    BY <2>1, <2>3, <2>4, ReindexKeeps
  <2> QED
    BY <2>2, <2>5 DEF rhs
<1> QED
  BY <1>3, <1>4, <1>5

-----------------------------------------------------------------------------
(* Inputs that have got a value are left out. *)

LEMMA ValuesHold ==
  ASSUME NEW F \in SUBSET Models, NEW c, Sane(F, c), NEW M \in F, NEW l \in LITS
  PROVE  /\ IsTrue(c, l) => l \in M
         /\ IsFalse(c, l) => l \notin M
         /\ NOT(l) \in M <=> l \notin M
<1>1. c.fixed \subseteq M /\ M \in Models
  BY DEF Sane, Consequences, SatisfyLits
<1> QED
  BY <1>1, ModelFacts DEF IsTrue, IsFalse

UnvaluedIn(c, S) == {l \in S : ~Valued(c, l)}

TrueIn(c, S) == {l \in S : IsTrue(c, l)}

AnyFalse(c, S) == \E l \in S : IsFalse(c, l)

LEMMA AndInputs ==
  ASSUME NEW F \in SUBSET Models, NEW c, Sane(F, c), NEW S \in SUBSET LITS, NEW lhs \in LITS,
         AndHolds(F, lhs, S)
  PROVE  /\ AnyFalse(c, S) => Forced(F, NOT(lhs))
         /\ ~AnyFalse(c, S) => AndHolds(F, lhs, UnvaluedIn(c, S))
<1>1. AnyFalse(c, S) => Forced(F, NOT(lhs))
  BY ValuesHold DEF Forced, AnyFalse, AndHolds
<1>2. ~AnyFalse(c, S) => \A M \in F : S \subseteq M <=> UnvaluedIn(c, S) \subseteq M
  BY ValuesHold DEF Valued, AnyFalse, UnvaluedIn
<1> QED
  BY <1>1, <1>2 DEF AndHolds

(* lhs is the parity of S, or the opposite of it. *)
FlippedXor(F, lhs, S, flip) == \A M \in F : lhs \in M <=> (Parity(S \cap M) # flip)

LEMMA XorInputs ==
  ASSUME NEW F \in SUBSET Models, NEW c, Sane(F, c), NEW S \in SUBSET LITS, NEW lhs \in LITS,
         NEW flip \in BOOLEAN, FlippedXor(F, lhs, S, flip),
         NEW odd \in BOOLEAN, odd <=> (Parity(TrueIn(c, S)) # flip)
  PROVE  /\ FlippedIf(odd, lhs) \in LITS
         /\ XorHolds(F, FlippedIf(odd, lhs), UnvaluedIn(c, S))
<1> DEFINE U == UnvaluedIn(c, S)
           T == TrueIn(c, S)
<1>1. FlippedIf(odd, lhs) \in LITS
  BY LitFacts DEF FlippedIf
<1>2. ASSUME NEW M \in F
      PROVE  FlippedIf(odd, lhs) \in M <=> Parity(U \cap M)
  <2>1. S \cap M = (U \cap M) \cup T /\ (U \cap M) \cap T = {}
    BY ValuesHold DEF Valued, UnvaluedIn, TrueIn
  <2>2. U \cap M \in SUBSET LITS /\ T \in SUBSET LITS
    BY DEF UnvaluedIn, TrueIn
  <2>3. FlippedIf(odd, lhs) \in M <=> (odd # (lhs \in M))
    BY ValuesHold DEF FlippedIf
  <2>4. Parity(S \cap M) <=> (Parity(U \cap M) # Parity(T))
    BY <2>1, <2>2, ParityOfUnion
  <2>5. lhs \in M <=> (Parity(S \cap M) # flip)
    BY DEF FlippedXor
  <2>6. Parity(S \cap M) \in BOOLEAN /\ Parity(U \cap M) \in BOOLEAN /\ Parity(T) \in BOOLEAN
    BY ParityFacts
  <2> HIDE DEF U, T
  <2> QED
    BY <2>3, <2>4, <2>5, <2>6 DEF T
<1> QED
  BY <1>1, <1>2 DEF XorHolds

LEMMA UnvaluedFacts ==
  ASSUME NEW c, NEW S \in SUBSET LITS
  PROVE  /\ UnvaluedIn(c, S) \in SUBSET LITS
         /\ SortLits(UnvaluedIn(c, S)) \in Seq(LITS)
         /\ ToSet(SortLits(UnvaluedIn(c, S))) = UnvaluedIn(c, S)
<1>1. UnvaluedIn(c, S) \in SUBSET LITS
  BY DEF UnvaluedIn
<1> QED
  BY <1>1, SortedLits

LEMMA GateInputs ==
  ASSUME NEW F, NEW c, Sane(F, c), NEW g \in DOMAIN c.gates, ~c.gates[g].garbage
  PROVE  /\ c.gates[g].lhs \in LITS
         /\ ToSet(c.gates[g].rhs) \in SUBSET LITS
         /\ c.gates[g].tag = "and" => AndHolds(F, c.gates[g].lhs, ToSet(c.gates[g].rhs))
         /\ c.gates[g].tag = "xor" => XorHolds(F, c.gates[g].lhs, ToSet(c.gates[g].rhs))
<1>1. c.gates[g].lhs \in LITS /\ c.gates[g].rhs \in Seq(LITS) /\ Implied(F, c.gates[g])
  BY GateOfClosure
<1>2. ToSet(c.gates[g].rhs) \in SUBSET LITS
  BY <1>1 DEF ToSet
<1>3. c.gates[g].tag = "and" => AndHolds(F, c.gates[g].lhs, ToSet(c.gates[g].rhs))
  BY <1>1, GateMeaning DEF Implied, AndHolds
<1>4. c.gates[g].tag = "xor" => XorHolds(F, c.gates[g].lhs, ToSet(c.gates[g].rhs))
  BY <1>1, GateMeaning DEF Implied, XorHolds
<1> QED
  BY <1>1, <1>2, <1>3, <1>4

LEMMA SimplifyAndKeeps ==
  ASSUME NEW F \in SUBSET Models, NEW v, NEW c, Sane(F, c), NEW g \in DOMAIN c.gates,
         ~c.gates[g].garbage, c.gates[g].tag = "and"
  PROVE  Keeps(F, v, c, SimplifyAnd(c, g))
<1> DEFINE lhs == c.gates[g].lhs
           S == ToSet(c.gates[g].rhs)
           rhs == SortLits(UnvaluedIn(c, S))
<1>1. lhs \in LITS /\ S \in SUBSET LITS /\ AndHolds(F, lhs, S)
  BY GateInputs
<1>2. rhs \in Seq(LITS) /\ ToSet(rhs) = UnvaluedIn(c, S)
  BY <1>1, UnvaluedFacts
<1>3. /\ AnyFalse(c, S) => Forced(F, NOT(lhs))
      /\ ~AnyFalse(c, S) => AndHolds(F, lhs, ToSet(rhs))
  BY <1>1, <1>2, AndInputs
<1>4. SimplifyAnd(c, g) = IF IsTrue(c, lhs) THEN [c EXCEPT !.gates[g].garbage = TRUE]
                          ELSE UpdateAnd(c, g, rhs, AnyFalse(c, S), NoLit)
  BY DEF SimplifyAnd, Unvalued, UnvaluedIn, AnyFalse
<1> HIDE DEF rhs, S
<1>5. Keeps(F, v, c, UpdateAnd(c, g, rhs, AnyFalse(c, S), NoLit))
  BY <1>2, <1>3, UpdateAndKeeps
<1>6. Keeps(F, v, c, [c EXCEPT !.gates[g].garbage = TRUE])
  BY MarkGarbageAdds, AddsKeeps
<1> QED
  BY <1>4, <1>5, <1>6

LEMMA SimplifyXorKeeps ==
  ASSUME NEW F \in SUBSET Models, NEW v, NEW c, Sane(F, c), NEW g \in DOMAIN c.gates,
         ~c.gates[g].garbage, c.gates[g].tag = "xor"
  PROVE  Keeps(F, v, c, SimplifyXor(c, g))
<1> DEFINE S == ToSet(c.gates[g].rhs)
           U == UnvaluedIn(c, S)
           odd == Parity(TrueIn(c, S))
           lhs == FlippedIf(odd, c.gates[g].lhs)
<1>1. c.gates[g].lhs \in LITS /\ S \in SUBSET LITS /\ XorHolds(F, c.gates[g].lhs, S)
  BY GateInputs
<1>2. FlippedXor(F, c.gates[g].lhs, S, FALSE)
  <2>1. \A T : Parity(T) \in BOOLEAN
    BY ParityFacts
  <2> HIDE DEF S
  <2> QED
    BY <1>1, <2>1 DEF XorHolds, FlippedXor
<1>3. odd \in BOOLEAN /\ (odd <=> (Parity(TrueIn(c, S)) # FALSE))
  BY ParityFacts
<1>4. U \in SUBSET LITS
  BY <1>1, UnvaluedFacts
<1>5. SimplifyXor(c, g) = UpdateXor(c, g, lhs, SortLits(U), NoLit)
  BY DEF SimplifyXor, Unvalued, UnvaluedIn, TrueIn
<1>6. lhs \in LITS /\ XorHolds(F, lhs, U)
  <2> HIDE DEF S, odd
  <2> QED
    BY <1>1, <1>2, <1>3, XorInputs
<1> HIDE DEF lhs, U
<1>7. Keeps(F, v, c, UpdateXor(c, g, lhs, SortLits(U), NoLit))
  BY <1>4, <1>6, UpdateXorKeeps
<1> QED
  BY <1>5, <1>7

LEMMA AndGateFacts ==
  ASSUME NEW F, NEW lhs \in LITS, NEW S \in SUBSET LITS, AndHolds(F, lhs, S)
  PROVE  /\ GateOK(Gate("and", lhs, SortLits(S)))
         /\ Implied(F, Gate("and", lhs, SortLits(S)))
         /\ Gate("and", lhs, SortLits(S)).tag = "and"
<1> DEFINE gate == Gate("and", lhs, SortLits(S))
<1>1. gate.tag = "and" /\ gate.lhs = lhs /\ gate.rhs = SortLits(S)
  BY GateFields
<1>2. SortLits(S) \in Seq(LITS) /\ ToSet(SortLits(S)) = S
  BY SortedLits
<1> HIDE DEF gate
<1>3. GateOK(gate)
  BY <1>1, <1>2 DEF GateOK
<1>4. Implied(F, gate)
  BY <1>1, <1>2, GateMeaning DEF Implied, AndHolds
<1> QED
  BY <1>1, <1>3, <1>4 DEF gate

LEMMA IteInputs ==
  ASSUME NEW F, NEW c, Sane(F, c), NEW g \in DOMAIN c.gates, LiveIte(c.gates[g])
  PROVE  LET lhs == c.gates[g].lhs
             r   == c.gates[g].rhs
         IN  /\ lhs \in LITS /\ r[1] \in LITS /\ r[2] \in LITS /\ r[3] \in LITS
             /\ IDX(r[1]) # IDX(r[2]) /\ IDX(r[1]) # IDX(r[3]) /\ IDX(r[2]) # IDX(r[3])
             /\ IteHolds(F, lhs, r[1], r[2], r[3])
             /\ ToSet(r) = {r[1], r[2], r[3]}
             /\ InputVars(c.gates[g]) = {IDX(r[1]), IDX(r[2]), IDX(r[3])}
<1> DEFINE gate == c.gates[g]
           r == gate.rhs
<1>1. GateOK(gate) /\ Implied(F, gate) /\ gate.tag = "ite"
  BY GateOfClosure DEF LiveIte
<1> HIDE DEF gate
<1>2. gate.lhs \in LITS /\ r \in Seq(LITS) /\ DifferentInputs(r)
  BY <1>1 DEF GateOK
<1>3. Len(r) = 3 /\ IDX(r[1]) # IDX(r[2]) /\ IDX(r[1]) # IDX(r[3]) /\ IDX(r[2]) # IDX(r[3])
  BY <1>2 DEF DifferentInputs
<1>4. DOMAIN r = 1..3 /\ r[1] \in LITS /\ r[2] \in LITS /\ r[3] \in LITS
  BY <1>2, <1>3
<1>5. \A i \in 1..3 : i = 1 \/ i = 2 \/ i = 3
  OBVIOUS
<1>6. 1 \in 1..3 /\ 2 \in 1..3 /\ 3 \in 1..3
  OBVIOUS
<1>7. ToSet(r) = {r[1], r[2], r[3]}
  <2> HIDE DEF r
  <2> QED
    BY <1>4, <1>5, <1>6 DEF ToSet
<1>8. InputVars(gate) = {IDX(r[1]), IDX(r[2]), IDX(r[3])}
  BY <1>7 DEF InputVars
<1>9. IteHolds(F, gate.lhs, r[1], r[2], r[3])
  BY <1>1, GateMeaning DEF Implied, IteHolds
<1> QED
  BY <1>2, <1>3, <1>4, <1>7, <1>8, <1>9 DEF gate

(* An if-then-else with one constant branch. *)
LEMMA ConstantBranchFacts ==
  ASSUME NEW F \in SUBSET Models, NEW c, Sane(F, c),
         NEW lhs \in LITS, NEW cond \in LITS, NEW t \in LITS, NEW e \in LITS,
         IteHolds(F, lhs, cond, t, e), Valued(c, t) \/ Valued(c, e)
  PROVE  LET gate == ConstantBranch(c, lhs, cond, t, e)
         IN  GateOK(gate) /\ Implied(F, gate) /\ gate.tag = "and"
<1> DEFINE gate == ConstantBranch(c, lhs, cond, t, e)
<1>1. /\ NOT(lhs) \in LITS /\ NOT(cond) \in LITS /\ NOT(t) \in LITS /\ NOT(e) \in LITS
  BY LitFacts
<1>2. \A M \in F : /\ lhs \in M <=> IF cond \in M THEN t \in M ELSE e \in M
                   /\ NOT(lhs) \in M <=> lhs \notin M
                   /\ NOT(cond) \in M <=> cond \notin M
                   /\ NOT(t) \in M <=> t \notin M
                   /\ NOT(e) \in M <=> e \notin M
                   /\ IsTrue(c, t) => t \in M
                   /\ IsFalse(c, t) => t \notin M
                   /\ IsTrue(c, e) => e \in M
                   /\ IsFalse(c, e) => e \notin M
  BY ValuesHold DEF IteHolds
<1>3. CASE IsTrue(c, t)
  <2>1. gate = Gate("and", NOT(lhs), SortLits({NOT(cond), NOT(e)}))
    BY <1>3 DEF ConstantBranch
  <2>2. AndHolds(F, NOT(lhs), {NOT(cond), NOT(e)})
    BY <1>2, <1>3 DEF AndHolds
  <2> QED
    BY <1>1, <2>1, <2>2, AndGateFacts
<1>4. CASE ~IsTrue(c, t) /\ IsFalse(c, t)
  <2>1. gate = Gate("and", lhs, SortLits({NOT(cond), e}))
    BY <1>4 DEF ConstantBranch
  <2>2. AndHolds(F, lhs, {NOT(cond), e})
    BY <1>2, <1>4 DEF AndHolds
  <2> QED
    BY <1>1, <2>1, <2>2, AndGateFacts
<1>5. CASE ~IsTrue(c, t) /\ ~IsFalse(c, t) /\ IsTrue(c, e)
  <2>1. gate = Gate("and", NOT(lhs), SortLits({NOT(t), cond}))
    BY <1>5 DEF ConstantBranch
  <2>2. AndHolds(F, NOT(lhs), {NOT(t), cond})
    BY <1>2, <1>5 DEF AndHolds
  <2> QED
    BY <1>1, <2>1, <2>2, AndGateFacts
<1>6. CASE ~IsTrue(c, t) /\ ~IsFalse(c, t) /\ ~IsTrue(c, e)
  <2>1. gate = Gate("and", lhs, SortLits({cond, t}))
    BY <1>6 DEF ConstantBranch
  <2>2. AndHolds(F, lhs, {cond, t})
    BY <1>2, <1>6 DEF AndHolds, Valued
  <2> QED
    BY <1>1, <2>1, <2>2, AndGateFacts
<1> QED
  BY <1>3, <1>4, <1>5, <1>6

(* The gate is simplified since one of its inputs has got a value. *)
SomeInputValued(c, g) ==
  LiveIte(c.gates[g]) => \E l \in ToSet(c.gates[g].rhs) : Valued(c, l)

LEMMA SimplifyIteKeeps ==
  ASSUME NEW F \in SUBSET Models, NEW v, NEW c, Sane(F, c), NEW g \in DOMAIN c.gates,
         LiveIte(c.gates[g]), SomeInputValued(c, g)
  PROVE  Keeps(F, v, c, SimplifyIte(c, g))
<1> DEFINE lhs == c.gates[g].lhs
           cond == c.gates[g].rhs[1]
           t == c.gates[g].rhs[2]
           e == c.gates[g].rhs[3]
           gate == ConstantBranch(c, lhs, cond, t, e)
           unit == FlippedIf(IsFalse(c, t), lhs)
           other == FlippedIf(IsFalse(c, t), cond)
           d == SimplifyIte(c, g)
<1>1. LET r == c.gates[g].rhs
      IN  /\ lhs \in LITS /\ r[1] \in LITS /\ r[2] \in LITS /\ r[3] \in LITS
          /\ IDX(r[1]) # IDX(r[2]) /\ IDX(r[1]) # IDX(r[3]) /\ IDX(r[2]) # IDX(r[3])
          /\ IteHolds(F, lhs, r[1], r[2], r[3])
          /\ ToSet(r) = {r[1], r[2], r[3]}
          /\ InputVars(c.gates[g]) = {IDX(r[1]), IDX(r[2]), IDX(r[3])}
  BY IteInputs
<1>2. lhs \in LITS /\ cond \in LITS /\ t \in LITS /\ e \in LITS
  BY <1>1
<1>3. IteHolds(F, lhs, cond, t, e)
  BY <1>1
<1>4. Valued(c, cond) \/ Valued(c, t) \/ Valued(c, e)
  BY <1>1 DEF SomeInputValued
<1>5. d = IF IsTrue(c, cond) THEN MarkGarbage(Merge(c, lhs, t), g)
          ELSE IF IsFalse(c, cond) THEN MarkGarbage(Merge(c, lhs, e), g)
          ELSE IF Valued(c, t) /\ Valued(c, e)
          THEN MarkGarbage(IF IsTrue(c, t) = IsTrue(c, e) THEN LearnUnit(c, unit)
                           ELSE Merge(c, lhs, other), g)
          ELSE Reindex(c, g, gate, NoLit)
  BY DEF SimplifyIte
<1> HIDE DEF lhs, cond, t, e, d
<1>6. \A M \in F : /\ lhs \in M <=> IF cond \in M THEN t \in M ELSE e \in M
                   /\ NOT(lhs) \in M <=> lhs \notin M
                   /\ NOT(cond) \in M <=> cond \notin M
                   /\ IsTrue(c, cond) => cond \in M
                   /\ IsFalse(c, cond) => cond \notin M
                   /\ IsTrue(c, t) => t \in M
                   /\ IsFalse(c, t) => t \notin M
                   /\ IsTrue(c, e) => e \in M
                   /\ IsFalse(c, e) => e \notin M
  BY <1>2, <1>3, ValuesHold DEF IteHolds
<1>7. CASE IsTrue(c, cond)
  <2>1. Equivalent(F, lhs, t)
    BY <1>6, <1>7 DEF Equivalent
  <2>2. Keeps(F, v, c, Merge(c, lhs, t))
    BY <1>2, <2>1, MergeKeeps
  <2> QED
    BY <1>5, <1>7, <2>2, GarbageAfter DEF d
<1>8. CASE ~IsTrue(c, cond) /\ IsFalse(c, cond)
  <2>1. Equivalent(F, lhs, e)
    BY <1>6, <1>8 DEF Equivalent
  <2>2. Keeps(F, v, c, Merge(c, lhs, e))
    BY <1>2, <2>1, MergeKeeps
  <2> QED
    BY <1>5, <1>8, <2>2, GarbageAfter DEF d
<1>9. CASE ~Valued(c, cond) /\ Valued(c, t) /\ Valued(c, e) /\ IsTrue(c, t) = IsTrue(c, e)
  <2>1. unit \in LITS /\ Forced(F, unit)
    BY <1>2, <1>6, <1>9, LitFacts DEF Forced, FlippedIf, Valued
  <2>2. Keeps(F, v, c, LearnUnit(c, unit))
    BY <2>1, LearnUnitAdds, AddsKeeps DEF Learned
  <2>3. d = MarkGarbage(LearnUnit(c, unit), g)
    BY <1>5, <1>9 DEF Valued
  <2> QED
    BY <2>2, <2>3, GarbageAfter DEF d
<1>10. CASE ~Valued(c, cond) /\ Valued(c, t) /\ Valued(c, e) /\ IsTrue(c, t) # IsTrue(c, e)
  <2>1. other \in LITS
    BY <1>2, LitFacts DEF FlippedIf
  <2>6. IsTrue(c, t) <=> ~IsTrue(c, e)
    BY <1>10 DEF IsTrue
  <2>4. \A M \in F : lhs \in M <=> other \in M
    <3> TAKE M \in F
    <3>1. CASE IsFalse(c, t)
      <4>1. t \notin M /\ e \in M /\ other = NOT(cond)
        BY <1>6, <1>10, <2>6, <3>1 DEF FlippedIf, Valued
      <4> QED
        BY <1>6, <4>1
    <3>2. CASE ~IsFalse(c, t)
      <4>1. t \in M /\ e \notin M /\ other = cond
        BY <1>6, <1>10, <2>6, <3>2 DEF FlippedIf, Valued
      <4> QED
        BY <1>6, <4>1
    <3> QED
      BY <3>1, <3>2
  <2>5. Equivalent(F, lhs, other)
    BY <2>4 DEF Equivalent
  <2> HIDE DEF other
  <2>2. Keeps(F, v, c, Merge(c, lhs, other))
    BY <1>2, <2>1, <2>5, MergeKeeps
  <2>3. d = MarkGarbage(Merge(c, lhs, other), g)
    BY <1>5, <1>10 DEF Valued
  <2> QED
    BY <2>2, <2>3, GarbageAfter DEF d
<1>11. CASE ~Valued(c, cond) /\ ~ (Valued(c, t) /\ Valued(c, e))
  <2>1. LET x == ConstantBranch(c, lhs, cond, t, e)
        IN  GateOK(x) /\ Implied(F, x) /\ x.tag = "and"
    BY <1>2, <1>3, <1>4, <1>11, ConstantBranchFacts
  <2>2. GateOK(gate) /\ Implied(F, gate) /\ gate.tag = "and"
    BY <2>1
  <2>3. d = Reindex(c, g, gate, NoLit)
    BY <1>5, <1>11 DEF Valued
  <2> HIDE DEF gate
  <2>4. Keeps(F, v, c, Reindex(c, g, gate, NoLit))
    BY <2>2, ReindexKeeps
  <2> QED
    BY <2>3, <2>4 DEF d
<1> QED
  BY <1>7, <1>8, <1>9, <1>10, <1>11 DEF Valued

LEMMA SimplifyGateKeeps ==
  ASSUME NEW F \in SUBSET Models, NEW v, NEW c, Sane(F, c), NEW g \in DOMAIN c.gates,
         SomeInputValued(c, g)
  PROVE  Keeps(F, v, c, SimplifyGate(c, g))
<1> DEFINE gate == c.gates[g]
<1>1. gate.tag \in {"and", "xor", "ite"} /\ gate.garbage \in BOOLEAN
  BY GateOfClosure DEF GateOK
<1>2. CASE gate.garbage
  <2>1. SimplifyGate(c, g) = c
    BY <1>2 DEF SimplifyGate
  <2> QED
    BY <2>1, KeepsItself
<1>3. CASE ~gate.garbage /\ gate.tag = "and"
  <2>1. SimplifyGate(c, g) = SimplifyAnd(c, g)
    BY <1>3 DEF SimplifyGate
  <2> QED
    BY <1>3, <2>1, SimplifyAndKeeps
<1>4. CASE ~gate.garbage /\ gate.tag = "xor"
  <2>1. SimplifyGate(c, g) = SimplifyXor(c, g)
    BY <1>4 DEF SimplifyGate
  <2> QED
    BY <1>4, <2>1, SimplifyXorKeeps
<1>5. CASE ~gate.garbage /\ gate.tag = "ite"
  <2>1. SimplifyGate(c, g) = SimplifyIte(c, g)
    BY <1>5 DEF SimplifyGate
  <2>2. LiveIte(gate)
    BY <1>5 DEF LiveIte
  <2> QED
    BY <2>1, <2>2, SimplifyIteKeeps
<1> QED
  BY <1>1, <1>2, <1>3, <1>4, <1>5

-----------------------------------------------------------------------------
(* An input is replaced by an equivalent literal. *)

LEMMA RewriteAndKeeps ==
  ASSUME NEW F \in SUBSET Models, NEW v, NEW c, Sane(F, c), NEW g \in DOMAIN c.gates,
         ~c.gates[g].garbage, c.gates[g].tag = "and",
         NEW src \in LITS, NEW dst \in LITS, Equivalent(F, src, dst)
  PROVE  Keeps(F, v, c, RewriteAnd(c, g, dst, src))
<1> DEFINE lhs == c.gates[g].lhs
           R == ToSet(c.gates[g].rhs)
           S == Replace(R, src, dst)
           rhs == SortLits(UnvaluedIn(c, S))
           contradiction == \/ NOT(lhs) \in S
                            \/ {dst, NOT(dst)} \subseteq S
                            \/ AnyFalse(c, S)
<1>1. lhs \in LITS /\ R \in SUBSET LITS /\ AndHolds(F, lhs, R)
  BY GateInputs
<1>2. RewriteAnd(c, g, dst, src)
        = IF IsTrue(c, lhs) THEN [c EXCEPT !.gates[g].garbage = TRUE]
          ELSE IF src \notin R THEN c ELSE UpdateAnd(c, g, rhs, contradiction, dst)
  BY DEF RewriteAnd, UnvaluedIn, AnyFalse
<1> HIDE DEF R
<1>3. S \in SUBSET LITS
  BY <1>1 DEF Replace
<1>4. rhs \in Seq(LITS) /\ ToSet(rhs) = UnvaluedIn(c, S)
  BY <1>3, UnvaluedFacts
<1>5. src \in R => AndHolds(F, lhs, S)
  BY <1>1 DEF AndHolds, Replace, Equivalent
<1>6. src \in R => (contradiction => Forced(F, NOT(lhs)))
  <2> SUFFICES ASSUME src \in R, contradiction, NEW M \in F
               PROVE  NOT(lhs) \in M
    BY DEF Forced
  <2>1. \A l \in LITS : NOT(l) \in M <=> l \notin M
    BY ValuesHold
  <2>2. CASE NOT(lhs) \in S \/ {dst, NOT(dst)} \subseteq S
    BY <1>1, <1>3, <1>5, <2>1, <2>2 DEF AndHolds
  <2>3. CASE AnyFalse(c, S)
    <3> HIDE DEF S
    <3>1. Forced(F, NOT(lhs))
      BY <1>1, <1>3, <1>5, <2>3, AndInputs
    <3> QED
      BY <3>1 DEF Forced
  <2> QED
    BY <2>2, <2>3
<1>7. src \in R => (~contradiction => AndHolds(F, lhs, ToSet(rhs)))
  <2> HIDE DEF S
  <2> QED
    BY <1>1, <1>3, <1>4, <1>5, AndInputs
<1> HIDE DEF rhs, contradiction
<1>8. src \in R => Keeps(F, v, c, UpdateAnd(c, g, rhs, contradiction, dst))
  BY <1>4, <1>6, <1>7, UpdateAndKeeps
<1>9. Keeps(F, v, c, [c EXCEPT !.gates[g].garbage = TRUE])
  BY MarkGarbageAdds, AddsKeeps
<1> QED
  BY <1>2, <1>8, <1>9, KeepsItself

LEMMA ParityWith ==
  ASSUME NEW T \in SUBSET LITS, NEW x \in LITS, x \notin T, NEW M
  PROVE  Parity((T \cup {x}) \cap M) <=> (Parity(T \cap M) # (x \in M))
<1>1. CASE x \in M
  <2>1. (T \cup {x}) \cap M = (T \cap M) \cup {x} /\ (T \cap M) \cap {x} = {}
    BY <1>1
  <2>2. T \cap M \in SUBSET LITS /\ {x} \in SUBSET LITS
    OBVIOUS
  <2>3. Parity((T \cap M) \cup {x}) <=> (Parity(T \cap M) # Parity({x}))
    BY <2>1, <2>2, ParityOfUnion
  <2>4. Parity({x}) /\ Parity({x}) \in BOOLEAN /\ Parity(T \cap M) \in BOOLEAN
    BY ParityFacts
  <2> QED
    BY <1>1, <2>1, <2>3, <2>4
<1>2. CASE x \notin M
  <2>1. (T \cup {x}) \cap M = T \cap M
    BY <1>2
  <2>2. Parity(T \cap M) \in BOOLEAN
    BY ParityFacts
  <2> QED
    BY <1>2, <2>1, <2>2
<1> QED
  BY <1>1, <1>2

LEMMA SignOfLit ==
  ASSUME NEW F \in SUBSET Models, NEW M \in F, NEW l \in LITS
  PROVE  /\ l \in M <=> ((STRIP(l) \in M) # NEGATED(l))
         /\ NEGATED(l) \in BOOLEAN /\ STRIP(l) \in LITS /\ STRIP(l) = IDX(l)
<1>1. NEGATED(l) \in BOOLEAN /\ STRIP(l) \in LITS /\ STRIP(l) = IDX(l)
  BY LitFacts DEF NEGATED, STRIP
<1>2. CASE NEGATED(l)
  <2>1. l = NOT(STRIP(l))
    BY <1>1, <1>2, LitFacts
  <2>2. l \in M <=> STRIP(l) \notin M
    BY <1>1, <2>1, ModelFacts
  <2> QED
    BY <1>1, <1>2, <2>2
<1>3. CASE ~NEGATED(l)
  <2>1. l = STRIP(l)
    BY <1>1, <1>3, LitFacts
  <2> QED
    BY <1>1, <1>3, <2>1
<1> QED
  BY <1>1, <1>2, <1>3

(* The variable of dst is added to a parity, or cancels out. *)
Toggled(R, src, x) ==
  LET rest == R \ {src}
  IN  IF x \in rest THEN rest \ {x} ELSE rest \cup {x}

LEMMA ToggledParity ==
  ASSUME NEW F \in SUBSET Models, NEW lhs, NEW R \in SUBSET LITS, XorHolds(F, lhs, R),
         NEW src \in R, NEW dst \in LITS, Equivalent(F, src, dst)
  PROVE  /\ Toggled(R, src, STRIP(dst)) \in SUBSET LITS
         /\ FlippedXor(F, lhs, Toggled(R, src, STRIP(dst)), NEGATED(dst))
<1> DEFINE rest == R \ {src}
           x == STRIP(dst)
           S == Toggled(R, src, x)
<1>1. x \in LITS /\ rest \in SUBSET LITS
  BY LitFacts DEF STRIP
<1>2. S \in SUBSET LITS
  BY <1>1 DEF Toggled
<1>3. ASSUME NEW M \in F
      PROVE  lhs \in M <=> (Parity(S \cap M) # NEGATED(dst))
  <2>1. Parity(R \cap M) <=> (Parity(rest \cap M) # (src \in M))
    <3>1. R = rest \cup {src} /\ src \notin rest /\ src \in LITS
      OBVIOUS
    <3> HIDE DEF rest
    <3> QED
      BY <1>1, <3>1, ParityWith
  <2>2. Parity(S \cap M) <=> (Parity(rest \cap M) # (x \in M))
    <3>1. CASE x \in rest
      <4>1. S = rest \ {x} /\ rest = S \cup {x} /\ x \notin S
        BY <3>1 DEF Toggled
      <4> HIDE DEF S, rest, x
      <4>2. Parity(rest \cap M) <=> (Parity(S \cap M) # (x \in M))
        BY <1>1, <1>2, <4>1, ParityWith
      <4>3. Parity(rest \cap M) \in BOOLEAN /\ Parity(S \cap M) \in BOOLEAN
        BY ParityFacts
      <4> QED
        BY <4>2, <4>3
    <3>2. CASE x \notin rest
      <4>1. S = rest \cup {x}
        BY <3>2 DEF Toggled
      <4> HIDE DEF S, rest, x
      <4> QED
        BY <1>1, <3>2, <4>1, ParityWith
    <3> QED
      BY <3>1, <3>2
  <2>3. dst \in M <=> ((x \in M) # NEGATED(dst))
    BY SignOfLit
  <2>4. (src \in M <=> dst \in M) /\ (lhs \in M <=> Parity(R \cap M))
    BY DEF Equivalent, XorHolds
  <2>5. /\ Parity(R \cap M) \in BOOLEAN /\ Parity(S \cap M) \in BOOLEAN
        /\ Parity(rest \cap M) \in BOOLEAN /\ NEGATED(dst) \in BOOLEAN
    BY ParityFacts, SignOfLit
  <2> HIDE DEF S, rest, x
  <2> QED
    BY <2>1, <2>2, <2>3, <2>4, <2>5 DEF S, x
<1> QED
  BY <1>2, <1>3 DEF FlippedXor

LEMMA RewriteXorKeeps ==
  ASSUME NEW F \in SUBSET Models, NEW v, NEW c, Sane(F, c), NEW g \in DOMAIN c.gates,
         ~c.gates[g].garbage, c.gates[g].tag = "xor",
         NEW src \in LITS, NEW dst \in LITS, Equivalent(F, src, dst)
  PROVE  Keeps(F, v, c, RewriteXor(c, g, dst, src))
<1> DEFINE lhs == c.gates[g].lhs
           R == ToSet(c.gates[g].rhs)
           S == Toggled(R, src, STRIP(dst))
           U == UnvaluedIn(c, S)
           flip == Parity(TrueIn(c, S)) # NEGATED(dst)
           newLhs == FlippedIf(flip, lhs)
<1>1. lhs \in LITS /\ R \in SUBSET LITS /\ XorHolds(F, lhs, R)
  BY GateInputs
<1>2. RewriteXor(c, g, dst, src)
        = IF dst \in {lhs, NOT(lhs)} THEN [c EXCEPT !.gates[g].garbage = TRUE]
          ELSE IF src \notin R THEN c ELSE UpdateXor(c, g, newLhs, SortLits(U), dst)
  BY DEF RewriteXor, UnvaluedIn, TrueIn, Toggled
<1> HIDE DEF R
<1>3. src \in R => Keeps(F, v, c, UpdateXor(c, g, newLhs, SortLits(U), dst))
  <2> SUFFICES ASSUME src \in R
               PROVE  Keeps(F, v, c, UpdateXor(c, g, newLhs, SortLits(U), dst))
    OBVIOUS
  <2>1. S \in SUBSET LITS /\ FlippedXor(F, lhs, S, NEGATED(dst))
    BY <1>1, ToggledParity
  <2>2. NEGATED(dst) \in BOOLEAN /\ flip \in BOOLEAN
    BY DEF NEGATED
  <2>3. U \in SUBSET LITS
    BY <2>1, UnvaluedFacts
  <2>4. newLhs \in LITS /\ XorHolds(F, newLhs, U)
    <3>1. flip <=> (Parity(TrueIn(c, S)) # NEGATED(dst))
      OBVIOUS
    <3> HIDE DEF S, flip
    <3> QED
      BY <1>1, <2>1, <2>2, <3>1, XorInputs
  <2> HIDE DEF newLhs, U
  <2> QED
    BY <2>3, <2>4, UpdateXorKeeps
<1>4. Keeps(F, v, c, [c EXCEPT !.gates[g].garbage = TRUE])
  BY MarkGarbageAdds, AddsKeeps
<1> HIDE DEF newLhs, U
<1> QED
  BY <1>2, <1>3, <1>4, KeepsItself

LEMMA XorGateFacts ==
  ASSUME NEW F \in SUBSET Models, NEW lhs \in LITS, NEW k \in LITS, NEW l \in LITS,
         IDX(k) # IDX(l), \A M \in F : lhs \in M <=> ((k \in M) # (l \in M))
  PROVE  GateOK(XorGate(lhs, k, l)) /\ Implied(F, XorGate(lhs, k, l)) /\ XorGate(lhs, k, l).tag = "xor"
<1> DEFINE x == STRIP(k)
           y == STRIP(l)
           out == FlippedIf(NEGATED(k) # NEGATED(l), lhs)
           gate == XorGate(lhs, k, l)
<1>1. x \in LITS /\ y \in LITS /\ x # y /\ out \in LITS
  BY LitFacts DEF STRIP, FlippedIf
<1>2. gate.tag = "xor" /\ gate.lhs = out /\ gate.rhs = SortLits({x, y})
  BY GateFields DEF XorGate
<1>3. SortLits({x, y}) \in Seq(LITS) /\ ToSet(SortLits({x, y})) = {x, y}
  BY <1>1, SortedLits
<1>4. ASSUME NEW M \in F
      PROVE  out \in M <=> Parity({x, y} \cap M)
  <2>1. /\ k \in M <=> ((x \in M) # NEGATED(k))
        /\ l \in M <=> ((y \in M) # NEGATED(l))
        /\ NEGATED(k) \in BOOLEAN /\ NEGATED(l) \in BOOLEAN
    BY SignOfLit
  <2>2. Parity(({x} \cup {y}) \cap M) <=> (Parity({x} \cap M) # (y \in M))
    <3>1. {x} \in SUBSET LITS /\ y \notin {x}
      BY <1>1
    <3> HIDE DEF x, y
    <3> QED
      BY <1>1, <3>1, ParityWith
  <2>3. Parity(({} \cup {x}) \cap M) <=> (Parity({} \cap M) # (x \in M))
    <3> HIDE DEF x
    <3> QED
      BY <1>1, ParityWith
  <2>4. {} \cup {x} = {x} /\ {x} \cup {y} = {x, y} /\ {} \cap M = {}
    OBVIOUS
  <2>5. ~Parity({}) /\ Parity({}) \in BOOLEAN /\ Parity({x, y} \cap M) \in BOOLEAN /\ Parity({x} \cap M) \in BOOLEAN
    BY ParityFacts
  <2>6. Parity({x, y} \cap M) <=> ((x \in M) # (y \in M))
    BY <2>2, <2>3, <2>4, <2>5
  <2>7. out \in M <=> ((lhs \in M) # (NEGATED(k) # NEGATED(l)))
    <3>1. NOT(lhs) \in M <=> lhs \notin M
      BY ModelFacts
    <3> QED
      BY <2>1, <3>1 DEF FlippedIf
  <2>8. lhs \in M <=> ((k \in M) # (l \in M))
    OBVIOUS
  <2> HIDE DEF x, y, out
  <2> QED
    BY <2>1, <2>5, <2>6, <2>7, <2>8
<1> HIDE DEF gate, x, y, out
<1>5. GateOK(gate)
  BY <1>1, <1>2, <1>3 DEF GateOK
<1>6. Implied(F, gate)
  BY <1>2, <1>3, <1>4, GateMeaning DEF Implied
<1> QED
  BY <1>2, <1>5, <1>6 DEF gate

(* The gate is a parity, or a conjunction of two literals. *)
Smaller(F, gate) ==
  /\ GateOK(gate) /\ Implied(F, gate)
  /\ gate.tag \in {"and", "xor"}
  /\ gate.tag = "and" => Len(gate.rhs) = 2

LEMMA SmallerAnd ==
  ASSUME NEW F, NEW lhs \in LITS, NEW k \in LITS, NEW l \in LITS, k # l,
         \A M \in F : lhs \in M <=> (k \in M /\ l \in M)
  PROVE  Smaller(F, Gate("and", lhs, SortLits({k, l})))
<1> DEFINE gate == Gate("and", lhs, SortLits({k, l}))
<1>1. AndHolds(F, lhs, {k, l})
  BY DEF AndHolds
<1>2. GateOK(gate) /\ Implied(F, gate) /\ gate.tag = "and"
  BY <1>1, AndGateFacts
<1>3. gate.rhs = SortLits({k, l})
  BY GateFields
<1>4. Len(SortLits({k, l})) = 2
  <2>1. {k, l} \in SUBSET LITS /\ Cardinality({k, l}) = 2
    BY PairSize
  <2> QED
    BY <2>1, SortedLits
<1> HIDE DEF gate
<1>5. Smaller(F, gate)
  BY <1>2, <1>3, <1>4 DEF Smaller
<1> QED
  BY <1>5 DEF gate

LEMMA SmallerXor ==
  ASSUME NEW F \in SUBSET Models, NEW lhs \in LITS, NEW k \in LITS, NEW l \in LITS,
         IDX(k) # IDX(l), \A M \in F : lhs \in M <=> ((k \in M) # (l \in M))
  PROVE  Smaller(F, XorGate(lhs, k, l))
<1> DEFINE gate == XorGate(lhs, k, l)
<1>1. GateOK(gate) /\ Implied(F, gate) /\ gate.tag = "xor"
  BY XorGateFacts
<1> HIDE DEF gate
<1>2. Smaller(F, gate)
  BY <1>1 DEF Smaller
<1> QED
  BY <1>2 DEF gate

LEMMA DegenerateFacts ==
  ASSUME NEW F \in SUBSET Models,
         NEW lhs \in LITS, NEW cond \in LITS, NEW t \in LITS, NEW e \in LITS,
         IDX(cond) # IDX(t), IDX(cond) # IDX(e), IDX(t) # IDX(e),
         IteHolds(F, lhs, cond, t, e),
         NEW src \in {cond, t, e}, NEW dst \in LITS, Equivalent(F, src, dst),
         IDX(dst) \in {IDX(l) : l \in {cond, t, e} \ {src}}, {src, dst} # {t, e}
  PROVE  Smaller(F, Degenerate(lhs, cond, t, e, dst, src))
<1> DEFINE gate == Degenerate(lhs, cond, t, e, dst, src)
           and(l, k, m) == Gate("and", l, SortLits({k, m}))
<1>1. /\ NOT(lhs) \in LITS /\ NOT(cond) \in LITS /\ NOT(t) \in LITS /\ NOT(e) \in LITS
      /\ IDX(NOT(cond)) = IDX(cond) /\ IDX(NOT(t)) = IDX(t) /\ IDX(NOT(e)) = IDX(e)
      /\ \A l \in LITS : NOT(NOT(l)) = l
  BY LitFacts
<1>2. \A M \in F : /\ lhs \in M <=> IF cond \in M THEN t \in M ELSE e \in M
                   /\ src \in M <=> dst \in M
                   /\ NOT(lhs) \in M <=> lhs \notin M
                   /\ NOT(cond) \in M <=> cond \notin M
                   /\ NOT(t) \in M <=> t \notin M
                   /\ NOT(e) \in M <=> e \notin M
  BY ModelFacts DEF IteHolds, Equivalent
<1>3. /\ cond # t /\ cond # e /\ t # e
      /\ NOT(t) # NOT(e) /\ NOT(cond) # NOT(e) /\ NOT(cond) # e /\ cond # NOT(t)
  BY <1>1
<1>4. \E l \in {cond, t, e} \ {src} : dst = l \/ dst = NOT(l)
  BY SameIndex
<1>5. gate = IF src = cond /\ dst \in {t, NOT(e)} THEN and(NOT(lhs), NOT(t), NOT(e))
             ELSE IF src = cond THEN and(lhs, t, e)
             ELSE IF src = t /\ dst = cond THEN and(NOT(lhs), NOT(cond), NOT(e))
             ELSE IF src = t /\ dst = NOT(cond) THEN and(lhs, NOT(cond), e)
             ELSE IF src = t THEN XorGate(lhs, cond, e)
             ELSE IF dst = cond THEN and(lhs, cond, t)
             ELSE IF dst = NOT(cond) THEN and(NOT(lhs), cond, NOT(t))
             ELSE XorGate(NOT(lhs), cond, t)
  BY DEF Degenerate
<1> HIDE DEF gate
<1> SUFFICES Smaller(F, gate)
  BY DEF gate
<1>6. CASE src = cond /\ dst \in {t, NOT(e)}
  <2>1. gate = and(NOT(lhs), NOT(t), NOT(e))
    BY <1>5, <1>6
  <2>2. \A M \in F : NOT(lhs) \in M <=> (NOT(t) \in M /\ NOT(e) \in M)
    BY <1>2, <1>6
  <2> QED
    BY <1>1, <1>3, <2>1, <2>2, SmallerAnd
<1>7. CASE src = cond /\ dst \notin {t, NOT(e)}
  <2>1. gate = and(lhs, t, e) /\ (dst = NOT(t) \/ dst = e)
    BY <1>1, <1>4, <1>5, <1>7
  <2>2. \A M \in F : lhs \in M <=> (t \in M /\ e \in M)
    BY <1>2, <1>7, <2>1
  <2> QED
    BY <1>1, <1>3, <2>1, <2>2, SmallerAnd
<1>8. CASE src = t /\ dst = cond
  <2>1. gate = and(NOT(lhs), NOT(cond), NOT(e))
    BY <1>3, <1>5, <1>8
  <2>2. \A M \in F : NOT(lhs) \in M <=> (NOT(cond) \in M /\ NOT(e) \in M)
    BY <1>2, <1>8
  <2> QED
    BY <1>1, <1>3, <2>1, <2>2, SmallerAnd
<1>9. CASE src = t /\ dst = NOT(cond)
  <2>1. gate = and(lhs, NOT(cond), e)
    BY <1>1, <1>3, <1>5, <1>9, LitFacts
  <2>2. \A M \in F : lhs \in M <=> (NOT(cond) \in M /\ e \in M)
    BY <1>2, <1>9
  <2> QED
    BY <1>1, <1>3, <2>1, <2>2, SmallerAnd
<1>10. CASE src = t /\ dst # cond /\ dst # NOT(cond)
  <2>1. gate = XorGate(lhs, cond, e) /\ dst = NOT(e)
    BY <1>3, <1>4, <1>5, <1>10
  <2>2. \A M \in F : lhs \in M <=> ((cond \in M) # (e \in M))
    BY <1>2, <1>10, <2>1
  <2> QED
    BY <2>1, <2>2, SmallerXor
<1>11. CASE src = e /\ dst = cond
  <2>1. gate = and(lhs, cond, t)
    BY <1>3, <1>5, <1>11
  <2>2. \A M \in F : lhs \in M <=> (cond \in M /\ t \in M)
    BY <1>2, <1>11
  <2> QED
    BY <1>1, <1>3, <2>1, <2>2, SmallerAnd
<1>12. CASE src = e /\ dst = NOT(cond)
  <2>1. gate = and(NOT(lhs), cond, NOT(t))
    BY <1>1, <1>3, <1>5, <1>12, LitFacts
  <2>2. \A M \in F : NOT(lhs) \in M <=> (cond \in M /\ NOT(t) \in M)
    BY <1>2, <1>12
  <2> QED
    BY <1>1, <1>3, <2>1, <2>2, SmallerAnd
<1>13. CASE src = e /\ dst # cond /\ dst # NOT(cond)
  <2>1. gate = XorGate(NOT(lhs), cond, t) /\ dst = NOT(t)
    BY <1>3, <1>4, <1>5, <1>13
  <2>2. \A M \in F : NOT(lhs) \in M <=> ((cond \in M) # (t \in M))
    BY <1>2, <1>13, <2>1
  <2> QED
    BY <1>1, <2>1, <2>2, SmallerXor
<1> QED
  BY <1>6, <1>7, <1>8, <1>9, <1>10, <1>11, <1>12, <1>13

LEMMA AddBinariesOfAdds ==
  ASSUME NEW F \in SUBSET Models, NEW v, NEW c, Sane(F, c),
         NEW gate, GateOK(gate), Implied(F, gate), gate.tag = "and", Len(gate.rhs) = 2
  PROVE  Adds(F, v, c, AddBinariesOf(c, gate))
<1> DEFINE out == NOT(gate.lhs)
           k == gate.rhs[1]
           l == gate.rhs[2]
           d == AddBinary(c, out, k)
<1>1. gate.lhs \in LITS /\ gate.rhs \in Seq(LITS)
  BY DEF GateOK
<1>2. DOMAIN gate.rhs = 1..2 /\ 1 \in 1..2 /\ 2 \in 1..2
  BY <1>1
<1>3. k \in LITS /\ l \in LITS /\ k \in ToSet(gate.rhs) /\ l \in ToSet(gate.rhs) /\ out \in LITS
  BY <1>1, <1>2, LitFacts DEF ToSet
<1>4. \A M \in F : (out \in M \/ k \in M) /\ (out \in M \/ l \in M)
  <2> TAKE M \in F
  <2>1. gate.lhs \in M <=> ToSet(gate.rhs) \subseteq M
    BY GateMeaning DEF Implied
  <2>2. out \in M <=> gate.lhs \notin M
    BY <1>1, ModelFacts
  <2> HIDE DEF out, k, l
  <2> QED
    BY <1>3, <2>1, <2>2
<1>5. AddBinariesOf(c, gate) = AddBinary(d, out, l)
  BY DEF AddBinariesOf
<1> HIDE DEF out, k, l
<1>6. Adds(F, v, c, d)
  BY <1>3, <1>4, AddBinaryAdds
<1>7. Sane(F, d)
  BY <1>6 DEF Adds
<1> HIDE DEF d
<1>8. Adds(F, v, d, AddBinary(d, out, l))
  BY <1>3, <1>4, <1>7, AddBinaryAdds
<1> QED
  BY <1>5, <1>6, <1>8, AddsTransitive

LEMMA NormalizedIteInputs ==
  ASSUME NEW lhs \in LITS, NEW cond \in LITS, NEW t \in LITS, NEW e \in LITS
  PROVE  /\ InputVars(NormalizedIte(lhs, cond, t, e)) = {IDX(cond), IDX(t), IDX(e)}
         /\ NormalizedIte(lhs, cond, t, e).tag = "ite"
<1> DEFINE p == IF NEGATED(cond) THEN e ELSE t
           n == IF NEGATED(cond) THEN t ELSE e
           x == STRIP(cond)
           r == IF NEGATED(p) THEN <<x, NOT(p), NOT(n)>> ELSE <<x, p, n>>
           gate == NormalizedIte(lhs, cond, t, e)
<1>1. gate.tag = "ite" /\ gate.rhs = r
  BY GateFields DEF NormalizedIte
<1>2. /\ {IDX(p), IDX(n)} = {IDX(t), IDX(e)}
      /\ IDX(x) = IDX(cond) /\ IDX(NOT(p)) = IDX(p) /\ IDX(NOT(n)) = IDX(n)
  BY LitFacts, VarFacts DEF STRIP
<1>3. ToSet(r) = IF NEGATED(p) THEN {x, NOT(p), NOT(n)} ELSE {x, p, n}
  <2>1. \A a, b, d : ToSet(<<a, b, d>>) = {a, b, d}
    <3> TAKE a, b, d
    <3>1. DOMAIN <<a, b, d>> = 1..3 /\ \A i \in 1..3 : i = 1 \/ i = 2 \/ i = 3
      OBVIOUS
    <3>2. 1 \in 1..3 /\ 2 \in 1..3 /\ 3 \in 1..3
      OBVIOUS
    <3> QED
      BY <3>1, <3>2 DEF ToSet
  <2> HIDE DEF p, n, x
  <2> QED
    BY <2>1
<1>4. InputVars(gate) = {IDX(x), IDX(p), IDX(n)}
  <2> HIDE DEF p, n, x, r, gate
  <2> QED
    BY <1>1, <1>2, <1>3 DEF InputVars
<1> HIDE DEF p, n, x, gate
<1> QED
  BY <1>1, <1>2, <1>4 DEF gate

LEMMA RewriteIteKeeps ==
  ASSUME NEW F \in SUBSET Models, NEW c, Sane(F, c), NEW g \in DOMAIN c.gates,
         LiveIte(c.gates[g]),
         NEW src \in LITS, NEW dst \in LITS, Equivalent(F, src, dst), IDX(src) # IDX(dst)
  PROVE  Keeps(F, IDX(src), c, RewriteIte(c, g, dst, src))
<1> DEFINE lhs == c.gates[g].lhs
           cond == c.gates[g].rhs[1]
           t == c.gates[g].rhs[2]
           e == c.gates[g].rhs[3]
           R == ToSet(c.gates[g].rhs)
           new(l) == IF l = src THEN dst ELSE l
           others == {IDX(l) : l \in R \ {src}}
           turned == Degenerate(lhs, cond, t, e, dst, src)
           normal == NormalizedIte(lhs, new(cond), new(t), new(e))
           put == Reindex(c, g, turned, dst)
           d == RewriteIte(c, g, dst, src)
           v == IDX(src)
<1>1. LET r == c.gates[g].rhs
      IN  /\ lhs \in LITS /\ r[1] \in LITS /\ r[2] \in LITS /\ r[3] \in LITS
          /\ IDX(r[1]) # IDX(r[2]) /\ IDX(r[1]) # IDX(r[3]) /\ IDX(r[2]) # IDX(r[3])
          /\ IteHolds(F, lhs, r[1], r[2], r[3])
          /\ ToSet(r) = {r[1], r[2], r[3]}
          /\ InputVars(c.gates[g]) = {IDX(r[1]), IDX(r[2]), IDX(r[3])}
  BY IteInputs
<1>2. /\ lhs \in LITS /\ cond \in LITS /\ t \in LITS /\ e \in LITS
      /\ IDX(cond) # IDX(t) /\ IDX(cond) # IDX(e) /\ IDX(t) # IDX(e)
      /\ IteHolds(F, lhs, cond, t, e)
      /\ R = {cond, t, e}
      /\ InputVars(c.gates[g]) = {IDX(cond), IDX(t), IDX(e)}
  BY <1>1
<1>3. d = IF src \notin R THEN c
          ELSE IF IDX(dst) \notin others THEN Reindex(c, g, normal, dst)
          ELSE IF {src, dst} = {t, e} THEN MarkGarbage(Merge(c, lhs, dst), g)
          ELSE IF Matching(c, turned, g) = {} /\ turned.tag = "and"
          THEN AddBinariesOf(put, turned) ELSE put
  BY DEF RewriteIte
<1> HIDE DEF lhs, cond, t, e, R, d
<1>4. CASE src \notin R
  BY <1>3, <1>4, KeepsItself DEF d
<1>5. CASE src \in R /\ IDX(dst) \notin others
  <2>1. /\ new(cond) \in LITS /\ new(t) \in LITS /\ new(e) \in LITS
        /\ \A l \in R : IDX(new(l)) = IF l = src THEN IDX(dst) ELSE IDX(l)
    BY <1>2
  <2>2. \A l \in R : l # src => IDX(dst) # IDX(l)
    BY <1>5
  <2>3. IDX(new(cond)) # IDX(new(t)) /\ IDX(new(cond)) # IDX(new(e)) /\ IDX(new(t)) # IDX(new(e))
    <3> HIDE DEF new
    <3> QED
      BY <1>2, <2>1, <2>2
  <2>4. IteHolds(F, lhs, new(cond), new(t), new(e))
    <3>1. \A M \in F : \A l \in R : new(l) \in M <=> l \in M
      BY DEF Equivalent
    <3> HIDE DEF new
    <3> QED
      BY <1>2, <3>1 DEF IteHolds
  <2>5. {IDX(new(cond)), IDX(new(t)), IDX(new(e))} = {IDX(dst)} \cup ({IDX(cond), IDX(t), IDX(e)} \ {v})
    <3> HIDE DEF new
    <3> QED
      BY <1>2, <1>5, <2>1
  <2> HIDE DEF new
  <2>6. /\ GateOK(normal) /\ Implied(F, normal)
        /\ InputVars(normal) = {IDX(new(cond)), IDX(new(t)), IDX(new(e))}
        /\ normal.tag = "ite"
    <3> DEFINE a == new(cond)
               b == new(t)
               n == new(e)
    <3>1. /\ a \in LITS /\ b \in LITS /\ n \in LITS
          /\ IDX(a) # IDX(b) /\ IDX(a) # IDX(n) /\ IDX(b) # IDX(n)
          /\ IteHolds(F, lhs, a, b, n)
      BY <1>2, <2>1, <2>3, <2>4
    <3> HIDE DEF a, b, n
    <3>2. GateOK(NormalizedIte(lhs, a, b, n)) /\ Implied(F, NormalizedIte(lhs, a, b, n))
      BY <1>2, <3>1, NormalizedIteFacts
    <3>3. /\ InputVars(NormalizedIte(lhs, a, b, n)) = {IDX(a), IDX(b), IDX(n)}
          /\ NormalizedIte(lhs, a, b, n).tag = "ite"
      BY <1>2, <3>1, NormalizedIteInputs
    <3> QED
      BY <3>2, <3>3 DEF a, b, n
  <2> HIDE DEF normal
  <2>8. Substitutes(v, c.gates[g], normal)
    BY <1>2, <2>5, <2>6 DEF Substitutes
  <2>9. Keeps(F, v, c, Reindex(c, g, normal, dst))
    BY <2>6, <2>8, ReindexKeeps
  <2> QED
    BY <1>3, <1>5, <2>9 DEF d
<1>6. CASE src \in R /\ IDX(dst) \in others /\ {src, dst} = {t, e}
  <2>1. Equivalent(F, lhs, dst)
    BY <1>2, <1>6 DEF IteHolds, Equivalent
  <2>2. Keeps(F, v, c, Merge(c, lhs, dst))
    BY <1>2, <2>1, MergeKeeps
  <2>3. d = MarkGarbage(Merge(c, lhs, dst), g)
    BY <1>3, <1>6
  <2> QED
    BY <2>2, <2>3, GarbageAfter DEF d
<1>7. CASE src \in R /\ IDX(dst) \in others /\ {src, dst} # {t, e}
  <2>1. Smaller(F, turned)
    BY <1>2, <1>7, DegenerateFacts
  <2>2. d = IF Matching(c, turned, g) = {} /\ turned.tag = "and"
            THEN AddBinariesOf(put, turned) ELSE put
    BY <1>3, <1>7
  <2> HIDE DEF turned
  <2>3. GateOK(turned) /\ Implied(F, turned) /\ turned.tag # "ite"
    BY <2>1 DEF Smaller
  <2>4. /\ Keeps(F, v, c, put)
        /\ Matching(c, turned, g) = {} => Adds(F, v, c, put)
    BY <2>3, ReindexKeeps
  <2> HIDE DEF put
  <2>5. CASE Matching(c, turned, g) = {} /\ turned.tag = "and"
    <3>1. Sane(F, put) /\ Len(turned.rhs) = 2
      BY <2>1, <2>4, <2>5 DEF Adds, Smaller
    <3>2. Adds(F, v, put, AddBinariesOf(put, turned))
      BY <2>3, <2>5, <3>1, AddBinariesOfAdds
    <3>3. Keeps(F, v, c, AddBinariesOf(put, turned))
      BY <2>4, <3>2, AddsKeeps, KeepsTransitive
    <3> QED
      BY <2>2, <2>5, <3>3 DEF d
  <2> QED
    BY <2>2, <2>4, <2>5 DEF d
<1> QED
  BY <1>4, <1>5, <1>6, <1>7

LEMMA RewriteGateKeeps ==
  ASSUME NEW F \in SUBSET Models, NEW c, Sane(F, c), NEW g \in DOMAIN c.gates,
         NEW src \in LITS, NEW dst \in LITS, Equivalent(F, src, dst), IDX(src) # IDX(dst)
  PROVE  Keeps(F, IDX(src), c, RewriteGate(c, g, dst, src))
<1> DEFINE gate == c.gates[g]
           v == IDX(src)
           done == CASE gate.garbage -> c
                     [] ~gate.garbage /\ gate.tag = "and" -> RewriteAnd(c, g, dst, src)
                     [] ~gate.garbage /\ gate.tag = "xor" -> RewriteXor(c, g, dst, src)
                     [] ~gate.garbage /\ gate.tag = "ite" -> RewriteIte(c, g, dst, src)
           after == done.gates[g]
<1>1. gate.tag \in {"and", "xor", "ite"} /\ gate.garbage \in BOOLEAN
  BY GateOfClosure DEF GateOK
<1>3. Keeps(F, v, c, done)
  <2>2. CASE gate.garbage
    <3>1. done = c
      BY <2>2
    <3> HIDE DEF done
    <3> QED
      BY <3>1, KeepsItself
  <2>3. CASE ~gate.garbage /\ gate.tag = "and"
    <3>1. done = RewriteAnd(c, g, dst, src)
      BY <2>3
    <3> HIDE DEF done
    <3> QED
      BY <2>3, <3>1, RewriteAndKeeps
  <2>4. CASE ~gate.garbage /\ gate.tag = "xor"
    <3>1. done = RewriteXor(c, g, dst, src)
      BY <2>4
    <3> HIDE DEF done
    <3> QED
      BY <2>4, <3>1, RewriteXorKeeps
  <2>5. CASE ~gate.garbage /\ gate.tag = "ite"
    <3>1. done = RewriteIte(c, g, dst, src)
      BY <2>5
    <3>2. LiveIte(c.gates[g])
      BY <2>5 DEF LiveIte
    <3> HIDE DEF done
    <3> QED
      BY <3>1, <3>2, RewriteIteKeeps
  <2> HIDE DEF done
  <2> QED
    BY <1>1, <2>2, <2>3, <2>4, <2>5
<1>4. RewriteGate(c, g, dst, src)
        = IF done.inconsistent \/ after.garbage \/ dst \notin ToSet(after.rhs) THEN done
          ELSE Connect(done, {dst}, g)
  BY DEF RewriteGate
<1> HIDE DEF done
<1>5. Sane(F, done) /\ g \in DOMAIN done.gates
  BY <1>3 DEF Keeps, Extends
<1>6. dst \in ToSet(after.rhs) => Keeps(F, v, c, Connect(done, {dst}, g))
  <2> SUFFICES ASSUME dst \in ToSet(after.rhs)
               PROVE  Keeps(F, v, c, Connect(done, {dst}, g))
    OBVIOUS
  <2>1. LiveIte(after) => \A l \in {dst} : IDX(l) \in InputVars(after) \ {v}
    BY DEF InputVars
  <2>2. Adds(F, v, done, Connect(done, {dst}, g))
    BY <1>5, <2>1, ConnectAdds
  <2> QED
    BY <1>3, <2>2, AddsKeeps, KeepsTransitive
<1> QED
  BY <1>3, <1>4, <1>6

-----------------------------------------------------------------------------
(***************************************************************************)
(* The invariant.  Originals are the models of what the procedure started  *)
(* with, and Faithful says that clauses are only lost when they are        *)
(* implied by what is left.                                                *)
(***************************************************************************)
Originals == ModelsOf(problem.original)

FaithfulTo(F, c) == c.inconsistent \/ ModelsOf(Formula(c)) \subseteq F

(* A literal leads only to the if-then-else gates that it is an input of,
   but for those of X that are being replaced; those of Y lead to none. *)
Lead(c, X, Y) ==
  \A l \in LITS : \A g \in c.occurrences[l] :
    LiveIte(c.gates[g]) => l \in X \/ (l \notin Y /\ IDX(l) \in InputVars(c.gates[g]))

Both(l, a, b) == <<<<l, a>>, <<NOT(l), b>>>>

Second(l, b) == <<<<NOT(l), b>>>>

Simplifying(c, w) ==
  \E l \in LITS : /\ Valued(c, l)
                  /\ w \in {Both(l, NoLit, NoLit), Second(l, NoLit)}

Rewriting(F, c, w) ==
  \E l, d \in LITS :
    /\ Equivalent(F, l, d) /\ IDX(l) # IDX(d)
    /\ \/ w = Both(l, d, NOT(d)) /\ Lead(c, {l, NOT(l)}, {})
       \/ w = Second(l, NOT(d)) /\ Lead(c, {NOT(l)}, {l})

AndOrXor(F, gate) == GateOK(gate) /\ Implied(F, gate) /\ gate.tag # "ite"

(* A candidate or connected clause. *)
IsStored(c, C) ==
  /\ C = Candidate(C.lits, C.redundant) /\ C.redundant \in BOOLEAN
  /\ ~C.redundant => C.lits \in c.irredundant /\ Cardinality(C.lits) > 2

ConnectedClauses == {p[2] : p \in connected}

GatesFound ==
  /\ pc \in {"binaries", "ands", "xors", "ites"} => Original(closure)
  /\ pc \in {"ands", "xors"} => \A gate \in todo : AndOrXor(Originals, gate)
  /\ pc = "ites" => \A ite \in todo : IteFound(Originals, ite)

OccurrencesLead ==
  /\ pc \notin {"rewrite", "subsume", "done"} => Lead(closure, {}, {})
  /\ pc = "simplify" => Simplifying(closure, work)
  /\ pc = "rewrite" => Rewriting(Originals, closure, work)
  /\ pc \in {"simplify", "rewrite"} => todo \subseteq closure.occurrences[work[1][1]]

ClausesStored ==
  /\ pc \notin {"subsume", "done"} => connected = {}
  /\ pc = "subsume" =>
       /\ ~closure.inconsistent
       /\ \A C \in todo \cup ConnectedClauses : IsStored(closure, C)
       /\ todo \cap ConnectedClauses = {}

Inv ==
  /\ problem \in Problems
  /\ Sane(Originals, closure)
  /\ Committed(closure)
  /\ FaithfulTo(Originals, closure)
  /\ GatesFound
  /\ OccurrencesLead
  /\ ClausesStored

-----------------------------------------------------------------------------
(* What an operator of Closure keeps of the invariant. *)

LEMMA NoLitFacts == NoLit \notin Vars /\ \A l \in LITS : IDX(l) # NoLit
<1>1. NoLit \notin Vars
  BY VarsAssumption DEF NoLit
<1> QED
  BY <1>1, LitFacts

LEMMA FaithfulStays ==
  ASSUME NEW F, NEW c, NEW d, Extends(c, d), FaithfulTo(F, c)
  PROVE  FaithfulTo(F, d)
<1>1. Formula(c) \subseteq Formula(d)
  BY DEF Extends, Formula
<1>2. ModelsOf(Formula(d)) \subseteq ModelsOf(Formula(c))
  BY <1>1 DEF ModelsOf
<1> QED
  BY <1>2 DEF FaithfulTo, Extends

LEMMA LeadStays ==
  ASSUME NEW v, NEW c, NEW d, Follows(v, c, d), NEW X, NEW Y, Lead(c, X, Y),
         \A l \in LITS : IDX(l) = v => l \in X \/ l \in Y,
         \A l \in Y : IDX(l) = v
  PROVE  Lead(d, X, Y)
<1> SUFFICES ASSUME NEW l \in LITS, NEW g \in d.occurrences[l], LiveIte(d.gates[g]), l \notin X
             PROVE  l \notin Y /\ IDX(l) \in InputVars(d.gates[g])
  BY DEF Lead
<1>1. CASE IDX(l) \in InputVars(d.gates[g]) \ {v}
  BY <1>1
<1>2. CASE /\ g \in c.occurrences[l] /\ LiveIte(c.gates[g])
           /\ InputVars(c.gates[g]) \ {v} \subseteq InputVars(d.gates[g])
  <2>1. l \notin Y /\ IDX(l) \in InputVars(c.gates[g])
    BY <1>2 DEF Lead
  <2>2. IDX(l) # v
    BY <2>1
  <2> QED
    BY <1>2, <2>1, <2>2
<1> QED
  BY <1>1, <1>2 DEF Follows

LEMMA LeadWithout ==
  ASSUME NEW c, NEW d, Follows(NoLit, c, d), Lead(c, {}, {})
  PROVE  Lead(d, {}, {})
BY NoLitFacts, LeadStays

(* An operator that learns units, adds clauses or merges literals does not
   change gates. *)
LeavesGates(c, d) == IsClosure(d) /\ SameGates(c, d)

LEMMA LearnUnitLeavesGates ==
  ASSUME NEW c, IsClosure(c), NEW unit
  PROVE  LeavesGates(c, LearnUnit(c, unit))
<1> DEFINE Cs == c.irredundant \cup c.redundant
           I == Implications(Cs, c.fixed \cup {unit})
           U == c.units \cup (I \ c.fixed)
           d == LearnUnit(c, unit)
           e == SetFixed(c, I)
<1> HIDE DEF I
<1>1. SetUnits(e, U) = [c EXCEPT !.fixed = I, !.units = U]
  BY DEF SetUnits, SetFixed
<1>2. SetUnits(e, U) = [c EXCEPT !.fixed = I, !.units = @ \cup (I \ c.fixed)]
  BY <1>1
<1>3. d = IF IsTrue(c, unit) THEN c
          ELSE IF IsFalse(c, unit) \/ Conflicting(Cs, I) THEN SetInconsistent(c, TRUE)
          ELSE SetUnits(e, U)
  BY <1>2 DEF LearnUnit, SetInconsistent, I
<1> HIDE DEF U, d
<1>4. LeavesGates(c, c) /\ LeavesGates(c, SetInconsistent(c, TRUE))
  BY SetInconsistentFacts DEF LeavesGates, SameGates
<1>5. IsClosure(e) /\ SameGates(c, e)
  BY SetFixedFacts
<1> HIDE DEF e
<1>6. LeavesGates(c, SetUnits(e, U))
  BY <1>5, SetUnitsFacts DEF LeavesGates, SameGates
<1>7. LeavesGates(c, d)
  BY <1>3, <1>4, <1>6
<1> QED
  BY <1>7 DEF d

LEMMA AddBinaryLeavesGates ==
  ASSUME NEW c, IsClosure(c), NEW a, NEW b
  PROVE  LeavesGates(c, AddBinary(c, a, b))
<1>1. \/ AddBinary(c, a, b) = c
      \/ AddBinary(c, a, b) = LearnUnit(c, a)
      \/ AddBinary(c, a, b) = LearnUnit(c, b)
      \/ AddBinary(c, a, b) = SetIrredundant(c, c.irredundant \cup {{a, b}})
  BY DEF AddBinary, SetIrredundant
<1>2. LeavesGates(c, SetIrredundant(c, c.irredundant \cup {{a, b}}))
  BY SetIrredundantFacts DEF LeavesGates
<1>3. LeavesGates(c, c)
  BY DEF LeavesGates, SameGates
<1> QED
  BY <1>1, <1>2, <1>3, LearnUnitLeavesGates

LEMMA UnionLeavesGates ==
  ASSUME NEW c, IsClosure(c), NEW smaller, NEW larger
  PROVE  LeavesGates(c, Union(c, smaller, larger))
<1> DEFINE r == Redirected(c.repr, smaller, larger)
           united == SetRepr(c, r)
           forth == AddBinary(united, NOT(larger), smaller)
           back == AddBinary(forth, larger, NOT(smaller))
           d == Schedule(back, larger)
<1>1. Union(c, smaller, larger) = d
  BY DEF Union, SetRepr, Redirected
<1> HIDE DEF r
<1>2. LeavesGates(c, united)
  BY SetReprFacts DEF LeavesGates
<1> HIDE DEF united
<1>3. LeavesGates(united, forth)
  BY <1>2, AddBinaryLeavesGates DEF LeavesGates
<1> HIDE DEF forth
<1>4. LeavesGates(forth, back)
  BY <1>3, AddBinaryLeavesGates DEF LeavesGates
<1> HIDE DEF back
<1>5. LeavesGates(back, d)
  <2>1. d = back \/ d = SetSchedule(back, Append(back.schedule, larger))
    BY DEF Schedule, SetSchedule
  <2>2. IsClosure(back)
    BY <1>4 DEF LeavesGates
  <2> HIDE DEF d
  <2> QED
    BY <2>1, <2>2, SetScheduleFacts DEF LeavesGates, SameGates
<1> HIDE DEF d
<1>6. LeavesGates(c, d)
  BY <1>2, <1>3, <1>4, <1>5 DEF LeavesGates, SameGates
<1> QED
  BY <1>1, <1>6

LEMMA MergeLeavesGates ==
  ASSUME NEW c, IsClosure(c), NEW lit, NEW other
  PROVE  LeavesGates(c, Merge(c, lit, other))
<1> DEFINE p == FindRepr(c, lit)
           q == FindRepr(c, other)
           smaller == IF LessLit(p, q) THEN p ELSE q
           larger  == IF smaller = p THEN q ELSE p
           differ == IsTrue(c, lit) # IsTrue(c, other)
           fixed == c.fixed \cup {smaller}
           lost == SetInconsistent(c, c.inconsistent \/ differ)
           failed == SetInconsistent(SetFixed(c, fixed), TRUE)
           d == Merge(c, lit, other)
<1> HIDE DEF p, q
<1>1. \/ d = c
      \/ d = lost
      \/ d = LearnUnit(c, other) \/ d = LearnUnit(c, NOT(other))
      \/ d = LearnUnit(c, lit) \/ d = LearnUnit(c, NOT(lit))
      \/ d = failed
      \/ d = Union(c, smaller, larger)
  <2>1. lost = [c EXCEPT !.inconsistent = @ \/ IsTrue(c, lit) # IsTrue(c, other)]
    BY DEF SetInconsistent
  <2>2. failed = [c EXCEPT !.fixed = @ \cup {smaller}, !.inconsistent = TRUE]
    BY DEF SetInconsistent, SetFixed
  <2> HIDE DEF lost, failed
  <2> QED
    BY <2>1, <2>2 DEF Merge, p, q
<1> HIDE DEF d, smaller, larger
<1>2. LeavesGates(c, c)
  BY DEF LeavesGates, SameGates
<1>3. LeavesGates(c, lost)
  <2> HIDE DEF differ
  <2> QED
    BY SetInconsistentFacts DEF LeavesGates
<1>4. LeavesGates(c, failed)
  <2> DEFINE e == SetFixed(c, fixed)
  <2>1. IsClosure(e) /\ SameGates(c, e)
    BY SetFixedFacts
  <2> HIDE DEF e
  <2>2. LeavesGates(c, SetInconsistent(e, TRUE))
    BY <2>1, SetInconsistentFacts DEF LeavesGates, SameGates
  <2> QED
    BY <2>2 DEF e
<1> HIDE DEF lost, failed
<1>5. LeavesGates(c, d)
  BY <1>1, <1>2, <1>3, <1>4, LearnUnitLeavesGates, UnionLeavesGates
<1> QED
  BY <1>5 DEF d

LEMMA NewGateOriginal ==
  ASSUME NEW c, IsClosure(c), Original(c), NEW gate
  PROVE  Original(NewGate(c, gate))
<1> DEFINE same == Matching(c, gate, NoGate)
           h == CHOOSE x \in same : TRUE
           entry == Entry(gate, FALSE)
           gates == [g \in DOMAIN c.gates \cup {gate} |-> IF g = gate THEN entry ELSE c.gates[g]]
           d == SetGates(c, gates)
           os == [l \in LITS |-> IF l \in ToSet(gate.rhs) THEN d.occurrences[l] \cup {gate}
                                 ELSE d.occurrences[l]]
<1>1. \/ NewGate(c, gate) = Merge(c, c.gates[h].lhs, gate.lhs)
      \/ NewGate(c, gate) = SetOccurrences(d, os)
  BY DEF NewGate, Entry, SetGates, Connect, SetOccurrences
<1> HIDE DEF h
<1>2. Original(Merge(c, c.gates[h].lhs, gate.lhs))
  <2>1. LeavesGates(c, Merge(c, c.gates[h].lhs, gate.lhs))
    BY MergeLeavesGates
  <2> QED
    BY <2>1 DEF Original, LeavesGates, SameGates
<1>3. Original(SetOccurrences(d, os))
  <2>1. entry.garbage = FALSE /\ entry.tag = gate.tag /\ entry.rhs = gate.rhs
    BY DEF Entry
  <2> HIDE DEF entry
  <2>2. \A g \in DOMAIN gates : ~gates[g].garbage /\ gates[g].tag = g.tag /\ gates[g].rhs = g.rhs
    BY <2>1 DEF Original
  <2> HIDE DEF gates
  <2>3. IsClosure(d) /\ d.gates = gates
    BY SetGatesFacts
  <2> HIDE DEF d, os
  <2>4. SetOccurrences(d, os).gates = gates
    BY <2>3, SetOccurrencesFacts
  <2> QED
    BY <2>2, <2>4 DEF Original
<1> HIDE DEF d, os
<1> QED
  BY <1>1, <1>2, <1>3

LEMMA NewIteOriginal ==
  ASSUME NEW c, IsClosure(c), Original(c), NEW lhs, NEW cond, NEW t, NEW e
  PROVE  Original(NewIte(c, lhs, cond, t, e))
<1>1. \/ NewIte(c, lhs, cond, t, e) = c
      \/ NewIte(c, lhs, cond, t, e) = Merge(c, lhs, t)
      \/ NewIte(c, lhs, cond, t, e) = NewGate(c, NormalizedIte(lhs, cond, t, e))
  BY DEF NewIte
<1>2. Original(Merge(c, lhs, t))
  <2>1. LeavesGates(c, Merge(c, lhs, t))
    BY MergeLeavesGates
  <2> QED
    BY <2>1 DEF Original, LeavesGates, SameGates
<1> QED
  BY <1>1, <1>2, NewGateOriginal

-----------------------------------------------------------------------------
(* Representatives are their own, and have other variables. *)

LEMMA FindReprFixed ==
  ASSUME NEW c, ReprOK(c.repr), NEW l \in LITS
  PROVE  /\ c.repr[FindRepr(c, l)] = FindRepr(c, l)
         /\ FindRepr(c, l) = l \/ LessLit(FindRepr(c, l), l)
<1> DEFINE P == {k \in LITS : /\ c.repr[FindRepr(c, k)] = FindRepr(c, k)
                              /\ FindRepr(c, k) = k \/ LessLit(FindRepr(c, k), k)}
           rank == [k \in LITS |-> RankOf(k)]
<1>1. \A k \in LITS : /\ c.repr[k] \in LITS
                      /\ c.repr[k] = k \/ LessLit(c.repr[k], k)
                      /\ c.repr[k] # k => RankOf(c.repr[k]) < RankOf(k)
  BY RankFacts DEF ReprOK
<1>2. ASSUME NEW x \in LITS, \A y \in LITS : rank[y] < rank[x] => y \in P
      PROVE  x \in P
  <2>1. CASE c.repr[x] = x
    BY <2>1, FindReprDefined
  <2>2. CASE c.repr[x] # x
    <3>1. c.repr[x] \in P
      BY <1>1, <1>2, <2>2
    <3>2. FindRepr(c, x) = FindRepr(c, c.repr[x]) /\ FindRepr(c, x) \in LITS
      BY <2>2, FindReprDefined
    <3>3. LessLit(c.repr[x], x)
      BY <1>1, <2>2
    <3>4. LessLit(FindRepr(c, x), x)
      BY <1>1, <3>1, <3>2, <3>3, OrderTransitive
    <3> QED
      BY <3>1, <3>2, <3>4
  <2> QED
    BY <2>1, <2>2
<1>3. rank \in [LITS -> Nat]
  BY RankFacts
<1>4. LITS \subseteq P
  <2> HIDE DEF P, rank
  <2> QED
    BY <1>2, <1>3, AllStrengthenCounting, AllStrengthen!RankInduction
<1> QED
  BY <1>4

LEMMA OtherVariable ==
  ASSUME NEW c, ReprOK(c.repr), NEW l \in LITS, c.repr[l] # l
  PROVE  IDX(FindRepr(c, l)) # IDX(l)
<1> DEFINE m == FindRepr(c, l)
<1>1. m \in LITS /\ c.repr[m] = m
  BY FindReprDefined, FindReprFixed
<1> HIDE DEF m
<1>2. m # l
  BY <1>1
<1>3. m # NOT(l)
  <2> SUFFICES ASSUME m = NOT(l)
               PROVE  FALSE
    OBVIOUS
  <2>1. NOT(c.repr[l]) = NOT(l) /\ c.repr[l] \in LITS
    BY <1>1 DEF ReprOK
  <2>2. NOT(NOT(c.repr[l])) = c.repr[l] /\ NOT(NOT(l)) = l
    BY <2>1, LitFacts
  <2> QED
    BY <2>1, <2>2
<1> QED
  BY <1>1, <1>2, <1>3, SameIndex DEF m

-----------------------------------------------------------------------------
(* What extraction finds in the clauses. *)

SetHolds(F, C) == \A M \in F : Satisfies(M, C)

LEMMA ClauseFacts ==
  ASSUME NEW F, NEW c, Sane(F, c), NEW C \in c.irredundant
  PROVE  ProperClause(C) /\ SetHolds(F, C)
BY DEF Sane, Shape, Consequences, ProperClauses, SatisfyAll, SatisfiesAll, SetHolds

LEMMA OpenFacts ==
  ASSUME NEW F \in SUBSET Models, NEW c, Sane(F, c), NEW C \in OpenClauses(c)
  PROVE  ProperClause(C) /\ SetHolds(F, C)
<1>1. PICK D \in c.irredundant : D \cap c.fixed = {} /\ C = {l \in D : ~Valued(c, l)}
  BY DEF OpenClauses
<1>2. ProperClause(D) /\ SetHolds(F, D)
  BY ClauseFacts
<1>3. ProperClause(C)
  BY <1>1, <1>2 DEF ProperClause
<1>4. ASSUME NEW M \in F
      PROVE  Satisfies(M, C)
  <2>1. PICK l \in D : l \in M
    BY <1>2 DEF SetHolds, Satisfies
  <2>2. l \in LITS /\ ~IsTrue(c, l)
    BY <1>1, <1>2 DEF ProperClause, IsTrue
  <2>3. ~IsFalse(c, l)
    BY <2>1, <2>2, ValuesHold
  <2> QED
    BY <1>1, <2>1, <2>2, <2>3 DEF Valued, Satisfies
<1> QED
  BY <1>3, <1>4 DEF SetHolds

Negations(S) == {NOT(l) : l \in S}

LEMMA AndGatesFound ==
  ASSUME NEW F \in SUBSET Models, NEW c, Sane(F, c), NEW gate \in AndGates(c)
  PROVE  AndOrXor(F, gate)
<1>0. PICK C \in OpenOfSize(c, 3) : \E l \in C :
        /\ ImpliesOthers(c, l, C)
        /\ gate = Gate("and", l, SortLits(Negations(C \ {l})))
  BY DEF AndGates, Negations
<1>1. PICK lhs \in C :
        /\ ImpliesOthers(c, lhs, C)
        /\ gate = Gate("and", lhs, SortLits(Negations(C \ {lhs})))
  BY <1>0
<1>2. C \in OpenClauses(c)
  BY DEF OpenOfSize
<1>3. ProperClause(C) /\ SetHolds(F, C)
  BY <1>2, OpenFacts
<1> DEFINE S == Negations(C \ {lhs})
<1>4. lhs \in LITS /\ S \in SUBSET LITS
  BY <1>3, LitFacts DEF ProperClause, Negations
<1>5. ASSUME NEW M \in F
      PROVE  lhs \in M <=> S \subseteq M
  <2>1. \A l \in LITS : NOT(l) \in M <=> l \notin M
    BY ModelFacts
  <2>2. ASSUME lhs \in M, NEW l \in C \ {lhs}
        PROVE  NOT(l) \in M
    <3>1. {NOT(lhs), NOT(l)} \in c.irredundant
      BY <1>1 DEF ImpliesOthers, IsBinary
    <3>2. SetHolds(F, {NOT(lhs), NOT(l)})
      BY <3>1, ClauseFacts
    <3> QED
      BY <1>4, <2>1, <2>2, <3>2 DEF SetHolds, Satisfies
  <2>3. ASSUME S \subseteq M
        PROVE  lhs \in M
    <3>1. PICK l \in C : l \in M
      BY <1>3 DEF SetHolds, Satisfies
    <3>2. l # lhs => NOT(l) \in M
      BY <2>3 DEF Negations
    <3> QED
      BY <1>3, <2>1, <3>1, <3>2 DEF ProperClause
  <2> QED
    BY <2>2, <2>3 DEF Negations
<1>6. AndHolds(F, lhs, S)
  BY <1>5 DEF AndHolds
<1> HIDE DEF S
<1>7. GateOK(gate) /\ Implied(F, gate) /\ gate.tag = "and"
  BY <1>1, <1>4, <1>6, AndGateFacts DEF S
<1> QED
  BY <1>7 DEF AndOrXor

LEMMA NegationsSize ==
  ASSUME NEW S \in SUBSET LITS
  PROVE  Cardinality(Negations(S)) = Cardinality(S)
<1> DEFINE negate == [l \in S |-> NOT(l)]
           T == Negations(S)
<1>1. negate \in Surjection(S, T)
  BY DEF Surjection, Negations
<1>2. \A k, l \in S : NOT(k) = NOT(l) => k = l
  BY LitFacts
<1>3. negate \in Injection(S, T)
  BY <1>1, <1>2 DEF Injection, IsInjective, Surjection
<1> HIDE DEF negate, T
<1>4. Cardinality(T) = Cardinality(S)
  BY <1>1, <1>3, LitsFinite, FS_Surjection
<1> QED
  BY <1>4 DEF T

VarsOf(C) == {IDX(l) : l \in C}

NegatedIn(C) == {l \in C : NEGATED(l)}

(* How many literals of a clause are true depends on the values of the
   variables and on the signs. *)
LEMMA SignedParity ==
  ASSUME NEW M \in Models, NEW C, ProperClause(C)
  PROVE  Parity(C \cap M) <=> (Parity(VarsOf(C) \cap M) # Parity(NegatedIn(C)))
<1> DEFINE N == NegatedIn(C)
           P == C \ N
           Q == Negations(N)
<1>1. C \in SUBSET LITS /\ \A l \in C : NOT(l) \notin C
  BY DEF ProperClause
<1>2. \A l \in C : l \in LITS /\ (NOT(l) \in M <=> l \notin M) /\ NOT(l) \in LITS /\ NOT(NOT(l)) = l
  BY <1>1, LitFacts, ModelFacts
<1>3. /\ N \in SUBSET LITS /\ P \in SUBSET LITS /\ Q \in SUBSET LITS
      /\ C = P \cup N /\ P \cap N = {}
  BY <1>1, <1>2 DEF NegatedIn, Negations
<1>4. VarsOf(C) = P \cup Q
  <2>1. \A l \in N : IDX(l) = NOT(l)
    BY <1>2, LitFacts DEF NegatedIn
  <2>2. \A l \in P : IDX(l) = l
    BY <1>2, LitFacts DEF NegatedIn
  <2> HIDE DEF N, P
  <2> QED
    BY <1>3, <2>1, <2>2 DEF VarsOf, Negations
<1>5. P \cap Q = {}
  <2> HIDE DEF N, P
  <2> QED
    BY <1>1, <1>2, <1>3 DEF Negations
<1>6. Q \cap M = Negations(N \ M)
  <2> HIDE DEF N, P
  <2> QED
    BY <1>2, <1>3 DEF Negations
<1> HIDE DEF N, P, Q
<1>7. Parity(C \cap M) <=> (Parity(P \cap M) # Parity(N \cap M))
  <2>1. C \cap M = (P \cap M) \cup (N \cap M) /\ (P \cap M) \cap (N \cap M) = {}
        /\ P \cap M \in SUBSET LITS /\ N \cap M \in SUBSET LITS
    BY <1>3
  <2> QED
    BY <2>1, ParityOfUnion
<1>8. Parity(VarsOf(C) \cap M) <=> (Parity(P \cap M) # Parity(Q \cap M))
  <2>1. VarsOf(C) \cap M = (P \cap M) \cup (Q \cap M) /\ (P \cap M) \cap (Q \cap M) = {}
        /\ P \cap M \in SUBSET LITS /\ Q \cap M \in SUBSET LITS
    BY <1>3, <1>4, <1>5
  <2> QED
    BY <2>1, ParityOfUnion
<1>9. Parity(Q \cap M) <=> Parity(N \ M)
  <2>1. N \ M \in SUBSET LITS
    BY <1>3
  <2>2. Cardinality(Q \cap M) = Cardinality(N \ M)
    BY <1>6, <2>1, NegationsSize
  <2> QED
    BY <2>2 DEF Parity
<1>10. Parity(N) <=> (Parity(N \cap M) # Parity(N \ M))
  <2>1. N = (N \cap M) \cup (N \ M) /\ (N \cap M) \cap (N \ M) = {}
        /\ N \cap M \in SUBSET LITS /\ N \ M \in SUBSET LITS
    BY <1>3
  <2> QED
    BY <2>1, ParityOfUnion
<1>11. /\ Parity(C \cap M) \in BOOLEAN /\ Parity(VarsOf(C) \cap M) \in BOOLEAN
       /\ Parity(N) \in BOOLEAN /\ Parity(P \cap M) \in BOOLEAN /\ Parity(N \cap M) \in BOOLEAN
       /\ Parity(Q \cap M) \in BOOLEAN /\ Parity(N \ M) \in BOOLEAN
  BY ParityFacts
<1>12. Parity(C \cap M) <=> (Parity(VarsOf(C) \cap M) # Parity(N))
  BY <1>7, <1>8, <1>9, <1>10, <1>11
<1> QED
  BY <1>12 DEF N

(* All side clauses hold, so an odd number of literals is true. *)
LEMMA SideClausesOdd ==
  ASSUME NEW F \in SUBSET Models, NEW C, ProperClause(C),
         \A D \in SideClauses(C) : SetHolds(F, D), NEW M \in F
  PROVE  Parity(C \cap M)
<1> SUFFICES ASSUME ~Parity(C \cap M)
             PROVE  FALSE
  OBVIOUS
<1> DEFINE S == C \cap M
           D == (C \ S) \cup {NOT(l) : l \in S}
<1>1. D \in SideClauses(C)
  BY DEF SideClauses
<1>2. PICK l \in D : l \in M
  BY <1>1 DEF SetHolds, Satisfies
<1>3. CASE l \in C \ S
  BY <1>2, <1>3
<1>4. CASE l \in {NOT(k) : k \in S}
  <2>1. PICK k \in S : l = NOT(k)
    BY <1>4
  <2>2. k \in LITS /\ k \in M
    BY DEF ProperClause
  <2> QED
    BY <1>2, <2>1, <2>2, ModelFacts
<1> QED
  BY <1>2, <1>3, <1>4

LEMMA XorGatesFound ==
  ASSUME NEW F \in SUBSET Models, NEW c, Sane(F, c), NEW gate \in XorGates(c)
  PROVE  AndOrXor(F, gate)
<1>0. PICK C \in XorCandidates(c) :
        /\ SideClauses(C) \subseteq XorCandidates(c)
        /\ \E u \in VarsOf(C) :
             gate = Gate("xor", FlippedIf(~Parity(NegatedIn(C)), u), SortLits(VarsOf(C) \ {u}))
  BY DEF XorGates, VarsOf, NegatedIn
<1>1. PICK x \in VarsOf(C) :
        /\ SideClauses(C) \subseteq XorCandidates(c)
        /\ gate = Gate("xor", FlippedIf(~Parity(NegatedIn(C)), x), SortLits(VarsOf(C) \ {x}))
  BY <1>0
<1>2. C \in OpenClauses(c) /\ SideClauses(C) \subseteq OpenClauses(c)
  BY <1>1 DEF XorCandidates, OpenOfSize
<1>3. ProperClause(C) /\ \A D \in SideClauses(C) : SetHolds(F, D)
  BY <1>1, <1>2, OpenFacts
<1> DEFINE flip == ~Parity(NegatedIn(C))
           rest == VarsOf(C) \ {x}
           lhs == FlippedIf(flip, x)
           rhs == SortLits(rest)
<1>4. x \in LITS /\ rest \in SUBSET LITS /\ VarsOf(C) = rest \cup {x} /\ x \notin rest
  BY <1>3, LitFacts DEF ProperClause, VarsOf
<1>5. lhs \in LITS
  BY <1>4, LitFacts DEF FlippedIf
<1>6. ASSUME NEW M \in F
      PROVE  lhs \in M <=> Parity(rest \cap M)
  <2>1. Parity(C \cap M)
    BY <1>3, SideClausesOdd
  <2>2. Parity(C \cap M) <=> (Parity(VarsOf(C) \cap M) # Parity(NegatedIn(C)))
    BY <1>3, SignedParity
  <2>3. Parity(VarsOf(C) \cap M) <=> (Parity(rest \cap M) # (x \in M))
    BY <1>4, ParityWith
  <2>4. lhs \in M <=> (flip # (x \in M))
    <3>1. NOT(x) \in M <=> x \notin M
      BY <1>4, ModelFacts
    <3> QED
      BY <3>1 DEF FlippedIf
  <2>5. /\ Parity(C \cap M) \in BOOLEAN /\ Parity(VarsOf(C) \cap M) \in BOOLEAN
        /\ Parity(NegatedIn(C)) \in BOOLEAN /\ Parity(rest \cap M) \in BOOLEAN
    BY ParityFacts
  <2> HIDE DEF rest, lhs
  <2> QED
    BY <2>1, <2>2, <2>3, <2>4, <2>5
<1>7. gate.tag = "xor" /\ gate.lhs = lhs /\ gate.rhs = rhs
  BY <1>1, GateFields
<1>8. rhs \in Seq(LITS) /\ ToSet(rhs) = rest
  BY <1>4, SortedLits
<1> HIDE DEF lhs, rhs, rest
<1>9. GateOK(gate)
  BY <1>5, <1>7, <1>8 DEF GateOK
<1>10. Implied(F, gate)
  BY <1>6, <1>7, <1>8, GateMeaning DEF Implied
<1> QED
  BY <1>7, <1>9, <1>10 DEF AndOrXor

(* A pair is equivalent when the literal is false. *)
LEMMA ConditionalFacts ==
  ASSUME NEW F \in SUBSET Models, NEW c, Sane(F, c), NEW lit \in LITS,
         NEW p \in ConditionalEquivalences(c, lit)
  PROVE  /\ p[1] \in LITS /\ p[2] \in LITS /\ IDX(p[2]) # IDX(lit)
         /\ \A M \in F : lit \notin M => (p[1] \in M <=> p[2] \in M)
<1>1. /\ p[1] \in Vars /\ p[2] \in LITS
      /\ {p[1], NOT(p[2])} \in BinariesUnder(c, lit)
      /\ {NOT(p[1]), p[2]} \in BinariesUnder(c, lit)
  BY DEF ConditionalEquivalences
<1>2. p[1] \in LITS /\ NOT(p[1]) \in LITS /\ NOT(p[2]) \in LITS
  BY <1>1, VarFacts, LitFacts
<1>3. PICK C \in TernaryClauses(c) : lit \in C /\ {p[1], NOT(p[2])} = C \ {lit}
  BY <1>1 DEF BinariesUnder
<1>4. PICK D \in TernaryClauses(c) : lit \in D /\ {NOT(p[1]), p[2]} = D \ {lit}
  BY <1>1 DEF BinariesUnder
<1>5. ProperClause(C) /\ SetHolds(F, C) /\ SetHolds(F, D)
  BY OpenFacts DEF TernaryClauses
<1>6. IDX(p[2]) # IDX(lit)
  <2> SUFFICES ASSUME IDX(p[2]) = IDX(lit)
               PROVE  FALSE
    OBVIOUS
  <2>1. p[2] = lit \/ p[2] = NOT(lit)
    BY <1>1, SameIndex
  <2>2. NOT(p[2]) # lit /\ NOT(p[2]) \in C
    BY <1>3
  <2>3. NOT(NOT(lit)) = lit
    BY LitFacts
  <2>4. NOT(lit) \in C
    BY <2>1, <2>2, <2>3
  <2> QED
    BY <1>3, <1>5, <2>4 DEF ProperClause
<1>7. ASSUME NEW M \in F, lit \notin M
      PROVE  p[1] \in M <=> p[2] \in M
  <2>1. (p[1] \in M \/ NOT(p[2]) \in M) /\ (NOT(p[1]) \in M \/ p[2] \in M)
    <3>1. (\E l \in C : l \in M) /\ (\E l \in D : l \in M)
      BY <1>5 DEF SetHolds, Satisfies
    <3>2. (\E l \in {p[1], NOT(p[2])} : l \in M) /\ (\E l \in {NOT(p[1]), p[2]} : l \in M)
      BY <1>3, <1>4, <1>7, <3>1
    <3> QED
      BY <3>2
  <2>2. (NOT(p[1]) \in M <=> p[1] \notin M) /\ (NOT(p[2]) \in M <=> p[2] \notin M)
    BY <1>1, <1>2, ModelFacts
  <2> QED
    BY <2>1, <2>2
<1> QED
  BY <1>1, <1>2, <1>6, <1>7

LEMMA IteGatesFound ==
  ASSUME NEW F \in SUBSET Models, NEW c, Sane(F, c), NEW ite \in IteGates(c)
  PROVE  IteFound(F, ite)
<1>1. PICK cond \in Vars :
        \E p \in ConditionalEquivalences(c, NOT(cond)) :
          \E q \in ConditionalEquivalences(c, cond) :
            q[1] = p[1] /\ ite = <<p[1], cond, p[2], q[2]>>
  BY DEF IteGates
<1>2. PICK p \in ConditionalEquivalences(c, NOT(cond)),
           q \in ConditionalEquivalences(c, cond) :
        q[1] = p[1] /\ ite = <<p[1], cond, p[2], q[2]>>
  BY <1>1
<1>3. cond \in LITS /\ NOT(cond) \in LITS /\ IDX(NOT(cond)) = IDX(cond)
  BY VarFacts, LitFacts
<1>4. /\ p[1] \in LITS /\ p[2] \in LITS /\ IDX(p[2]) # IDX(cond)
      /\ \A M \in F : NOT(cond) \notin M => (p[1] \in M <=> p[2] \in M)
  BY <1>3, ConditionalFacts
<1>5. /\ q[2] \in LITS /\ IDX(q[2]) # IDX(cond)
      /\ \A M \in F : cond \notin M => (p[1] \in M <=> q[2] \in M)
  BY <1>2, <1>3, ConditionalFacts
<1>6. ite = <<ite[1], ite[2], ite[3], ite[4]>>
      /\ ite[1] = p[1] /\ ite[2] = cond /\ ite[3] = p[2] /\ ite[4] = q[2]
  BY <1>2
<1>7. IteHolds(F, p[1], cond, p[2], q[2])
  BY <1>3, <1>4, <1>5, ModelFacts DEF IteHolds
<1> QED
  BY <1>3, <1>4, <1>5, <1>6, <1>7 DEF IteFound

(* A binary clause that strengthens a ternary one. *)
Strengthening(c, B) == \E C \in UnassignedTernary(c) : B \in Strengthened(c, C)

LEMMA ExtractedFacts ==
  ASSUME NEW c, ProperClauses(c.irredundant), NEW E \in ExtractedBinaries(c), NEW B \in E
  PROVE  Strengthening(c, B)
<1> DEFINE S == {Strengthened(c, C) : C \in UnassignedTernary(c)} \ {{}}
           Good == {D \in SUBSET LITS : Strengthening(c, D)}
           Results == SUBSET (SUBSET Good)
<1>1. \A C \in UnassignedTernary(c) : C \in SUBSET LITS
  BY DEF UnassignedTernary, ProperClauses, ProperClause
<1>2. S \subseteq SUBSET Good
  BY <1>1 DEF Strengthened, Strengthening
<1>3. IsFiniteSet(S)
  <2>1. IsFiniteSet(SUBSET LITS)
    BY LitsFinite, FS_SUBSET
  <2>2. IsFiniteSet(SUBSET (SUBSET LITS))
    BY <2>1, FS_SUBSET
  <2>3. S \in SUBSET (SUBSET (SUBSET LITS))
    BY <1>2
  <2> HIDE DEF S
  <2> QED
    BY <2>2, <2>3, FS_Subset
<1>4. {{}} \in Results
  OBVIOUS
<1>5. \A binaries \in S : \A choices \in Results : WithOneOf(binaries, choices) \in Results
  <2> HIDE DEF S, Good
  <2> QED
    BY <1>2 DEF WithOneOf
<1> HIDE DEF Results
<1>7. ExtractedBinaries(c) = AllStrengthen!FoldedSet({{}}, S)
  BY DEF ExtractedBinaries, AllStrengthen!FoldedSet, FoldSet,
         MapThenFoldSet, AllStrengthen!MapThenFoldSet
<1> HIDE DEF S
<1>8. AllStrengthen!KeepsSet(Results, {{}}, S)
  BY <1>4, <1>5 DEF AllStrengthen!KeepsSet
<1>9. AllStrengthen!Sizes([s \in SUBSET S |-> Cardinality(s)], S)
  <2>1. \A s \in SUBSET S : Cardinality(s) \in Nat /\ Cardinality(s) <= Cardinality(S)
    BY <1>3, FS_Subset, FS_CardinalityType
  <2>2. \A s \in SUBSET S : \A x \in s : Cardinality(s \ {x}) < Cardinality(s)
    <3> SUFFICES ASSUME NEW s \in SUBSET S, NEW x \in s
                 PROVE  Cardinality(s \ {x}) < Cardinality(s)
      OBVIOUS
    <3>1. Cardinality(s \ {x}) = Cardinality(s) - 1 /\ Cardinality(s) \in Nat
      BY <1>3, FS_Subset, FS_RemoveElement, FS_CardinalityType
    <3> QED
      BY <3>1
  <2>3. \A s \in SUBSET S : \A x \in s : s \ {x} \in SUBSET S
    OBVIOUS
  <2> QED
    BY <2>1, <2>2, <2>3 DEF AllStrengthen!Sizes
<1>6. AllStrengthen!FoldedSet({{}}, S) \in Results
  BY <1>8, <1>9, AllStrengthenCounting, AllStrengthen!FoldSetInduction
<1> QED
  BY <1>6, <1>7 DEF Results

LEMMA StrengtheningFacts ==
  ASSUME NEW F \in SUBSET Models, NEW c, Sane(F, c), NEW B, Strengthening(c, B)
  PROVE  ProperClause(B) /\ SetHolds(F, B)
<1>0. PICK C \in UnassignedTernary(c) : \E x \in Pivots(c, C) : B = C \ {x}
  BY DEF Strengthening, Strengthened
<1>1. PICK pivot \in Pivots(c, C) : B = C \ {pivot}
  BY <1>0
<1>2. PICK k \in C \ {pivot} : {NOT(pivot), k} \in c.irredundant
  BY DEF Pivots, IsBinary
<1>3. C \in c.irredundant /\ pivot \in C
  BY DEF UnassignedTernary, Pivots
<1>4. ProperClause(C) /\ SetHolds(F, C) /\ SetHolds(F, {NOT(pivot), k})
  BY <1>2, <1>3, ClauseFacts
<1>5. ASSUME NEW M \in F
      PROVE  Satisfies(M, B)
  <2>1. NOT(pivot) \in M <=> pivot \notin M
    BY <1>3, <1>4, ModelFacts DEF ProperClause
  <2>2. PICK l \in C : l \in M
    BY <1>4 DEF SetHolds, Satisfies
  <2>3. NOT(pivot) \in M \/ k \in M
    BY <1>4 DEF SetHolds, Satisfies
  <2> QED
    BY <1>1, <1>2, <2>1, <2>2, <2>3 DEF Satisfies
<1> QED
  BY <1>1, <1>4, <1>5 DEF ProperClause, SetHolds

-----------------------------------------------------------------------------
(* The invariant holds in the beginning. *)

LEMMA OriginalModels == Originals \in SUBSET Models
BY DEF Originals, ModelsOf

(* A clause of a propagated formula is large or one of its units. *)
LEMMA SmallClauses ==
  ASSUME NEW Cs \in SUBSET (SUBSET LITS), NEW F, ~Conflicting(Cs, F),
         NEW C \in Cs, ~ (Cardinality(C) > 1)
  PROVE  \E l \in LITS : C = {l}
<1>1. C \subseteq LITS /\ IsFiniteSet(C)
  BY LitsFinite
<1>2. C # {}
  BY DEF Conflicting
<1>3. Cardinality(C) \in Nat /\ Cardinality(C) # 0
  BY <1>1, <1>2, FS_CardinalityType, FS_EmptySet
<1>4. Cardinality(C) = 1
  BY <1>3
<1>5. PICK l : C = {l}
  BY <1>1, <1>4, FS_Singleton
<1> QED
  BY <1>1, <1>5

LEMMA InitInv == Init => Inv
<1> SUFFICES ASSUME Init PROVE Inv
  OBVIOUS
<1> DEFINE O == problem.original
           L == problem.learned
           units == {l \in LITS : {l} \in O}
           fixed == Implications(O, units)
           c == closure
<1>1. /\ problem \in Problems /\ c = InitClosure(problem)
      /\ pc = "binaries" /\ connected = {}
  BY DEF Init
<1>2. /\ O \cup L \subseteq SUBSET LITS
      /\ \A C \in O \cup L : \A l \in C : NOT(l) \notin C
      /\ \A C \in L : Entails(O, C)
      /\ ~Conflicting(O, fixed)
  BY <1>1, ProblemsAssumption
<1>3. /\ IsClosure(c)
      /\ c.irredundant = {C \in O : Cardinality(C) > 1}
      /\ c.redundant = L
      /\ c.fixed = fixed /\ c.units = {} /\ c.inconsistent = FALSE
      /\ c.repr = [l \in LITS |-> l] /\ c.schedule = <<>>
      /\ c.gates = [g \in {} |-> NoGate] /\ c.occurrences = [l \in LITS |-> {}]
  BY <1>1 DEF InitClosure, IsClosure
<1> HIDE DEF c
<1>4. /\ fixed \in SUBSET LITS /\ units \subseteq fixed
      /\ \A M \in Models : SatisfiesAll(M, O) /\ units \subseteq M => fixed \subseteq M
  <2> HIDE DEF fixed, O, L
  <2>1. O \in SUBSET (SUBSET LITS) /\ units \in SUBSET LITS
    BY <1>2
  <2> HIDE DEF units
  <2> QED
    BY <2>1, ImplicationsFacts DEF fixed
<1> HIDE DEF fixed
<1>5. Shape(c)
  <2>1. ProperClauses(c.irredundant) /\ ProperClauses(c.redundant)
    BY <1>2, <1>3 DEF ProperClauses, ProperClause
  <2>2. ReprOK(c.repr)
    BY <1>3, LitFacts DEF ReprOK
  <2>3. ScheduleOK(c.repr, c.schedule)
    BY <1>3 DEF ScheduleOK
  <2>4. GatesOK(c.gates)
    BY <1>3 DEF GatesOK
  <2>5. c.occurrences \in [LITS -> SUBSET DOMAIN c.gates]
    BY <1>3
  <2> QED
    BY <1>3, <1>4, <2>1, <2>2, <2>3, <2>4, <2>5 DEF Shape
<1>6. \A M \in Originals : M \in Models /\ SatisfiesAll(M, O)
  BY DEF Originals, ModelsOf, SatisfiesAll
<1>7. Consequences(Originals, c)
  <2>1. SatisfyAll(Originals, c.irredundant)
    BY <1>3, <1>6 DEF SatisfyAll, SatisfiesAll
  <2>2. SatisfyAll(Originals, c.redundant)
    BY <1>2, <1>3 DEF SatisfyAll, SatisfiesAll, Entails, Originals
  <2>3. \A M \in Originals : units \subseteq M
    <3> SUFFICES ASSUME NEW M \in Originals, NEW l \in units PROVE l \in M
      OBVIOUS
    <3>1. Satisfies(M, {l})
      BY <1>6 DEF SatisfiesAll
    <3> QED
      BY <3>1 DEF Satisfies
  <2>4. SatisfyLits(Originals, c.fixed)
    BY <1>3, <1>4, <1>6, <2>3 DEF SatisfyLits
  <2>5. Merged(Originals, c.repr)
    BY <1>3 DEF Merged, Equivalent
  <2>6. HoldGates(Originals, c.gates)
    BY <1>3 DEF HoldGates
  <2> QED
    BY <1>3, <2>1, <2>2, <2>4, <2>5, <2>6 DEF Consequences
<1>8. Committed(c)
  BY <1>3 DEF Committed, Merged, Equivalent
<1>9. FaithfulTo(Originals, c)
  <2>1. ASSUME NEW M \in ModelsOf(Formula(c)), NEW C \in O
        PROVE  Satisfies(M, C)
    <3>1. \A D \in Formula(c) : Satisfies(M, D)
      BY DEF ModelsOf
    <3>2. CASE Cardinality(C) > 1
      BY <1>3, <3>1, <3>2 DEF Formula
    <3>3. CASE ~ (Cardinality(C) > 1)
      <4>1. PICK l \in LITS : C = {l}
        BY <1>2, <3>3, SmallClauses
      <4>2. l \in c.fixed
        BY <1>3, <1>4, <4>1
      <4> QED
        BY <3>1, <4>1, <4>2 DEF Formula
    <3> QED
      BY <3>2, <3>3
  <2> QED
    BY <2>1 DEF FaithfulTo, Originals, ModelsOf
<1>10. GatesFound
  BY <1>1, <1>3 DEF GatesFound, Original, c
<1>11. OccurrencesLead
  BY <1>1, <1>3 DEF OccurrencesLead, Lead, c
<1>12. ClausesStored
  BY <1>1 DEF ClausesStored
<1> QED
  BY <1>1, <1>5, <1>7, <1>8, <1>9, <1>10, <1>11, <1>12 DEF Inv, Sane, c

-----------------------------------------------------------------------------
(* Every step keeps the invariant. *)

LEMMA StutterInv ==
  ASSUME Inv, UNCHANGED <<problem, closure, pc, todo, work, connected>>
  PROVE  Inv'
BY DEF Inv, GatesFound, OccurrencesLead, ClausesStored, Originals, ConnectedClauses

LEMMA StopInv ==
  ASSUME Inv, UNCHANGED <<problem, closure>>, pc' = "done"
  PROVE  Inv'
BY DEF Inv, GatesFound, OccurrencesLead, ClausesStored, Originals

(* What an operator that Keeps the state gives for the next state. *)
LEMMA KeptInv ==
  ASSUME Inv, problem' = problem, NEW v, Keeps(Originals, v, closure, closure'),
         GatesFound', OccurrencesLead', ClausesStored'
  PROVE  Inv'
<1>1. Originals' = Originals /\ problem' \in Problems
  BY DEF Originals, Inv
<1>2. Sane(Originals, closure') /\ Committed(closure') /\ Extends(closure, closure')
  BY DEF Keeps, Inv
<1>3. FaithfulTo(Originals, closure')
  BY <1>2, FaithfulStays DEF Inv
<1> QED
  BY <1>1, <1>2, <1>3 DEF Inv

(* Fewer clauses. *)
Loses(c, d) ==
  /\ IsClosure(d)
  /\ d.irredundant \subseteq c.irredundant /\ d.redundant \subseteq c.redundant
  /\ SameValues(c, d) /\ SameMerges(c, d) /\ SameGates(c, d)

LEMMA LosesSane ==
  ASSUME NEW F, NEW c, Sane(F, c), NEW d, Loses(c, d)
  PROVE  Sane(F, d)
<1>1. Shape(d)
  BY DEF Sane, Shape, Loses, SameValues, SameMerges, SameGates, ProperClauses
<1>2. Consequences(F, d)
  BY DEF Sane, Consequences, Loses, SameValues, SameMerges, SameGates, SatisfyAll, SatisfiesAll
<1> QED
  BY <1>1, <1>2 DEF Sane

LEMMA LosesCommitted ==
  ASSUME NEW c, NEW d, Loses(c, d), Committed(c),
         \A C \in c.irredundant \ d.irredundant : Cardinality(C) = 2 => C \cap c.fixed # {}
  PROVE  Committed(d)
<1>1. CoreModels(d) \subseteq CoreModels(c)
  BY DEF CoreModels, Loses, SameValues, Satisfies
<1> QED
  BY <1>1 DEF Committed, Loses, SameValues, SameMerges, Merged, Equivalent

LEMMA FixedInModels ==
  ASSUME NEW c, NEW M \in ModelsOf(Formula(c))
  PROVE  /\ M \in Models /\ c.fixed \subseteq M
         /\ \A C \in c.irredundant : Satisfies(M, C)
<1>1. M \in Models /\ \A C \in Formula(c) : Satisfies(M, C)
  BY DEF ModelsOf
<1>2. ASSUME NEW l \in c.fixed PROVE l \in M
  <2>1. Satisfies(M, {l})
    BY <1>1 DEF Formula
  <2> QED
    BY <2>1 DEF Satisfies
<1>3. \A C \in c.irredundant : Satisfies(M, C)
  BY <1>1 DEF Formula
<1> QED
  BY <1>1, <1>2, <1>3

LEMMA LosesFaithful ==
  ASSUME NEW F, NEW c, NEW d, Loses(c, d), FaithfulTo(F, c),
         \A C \in c.irredundant \ d.irredundant :
           \A M \in ModelsOf(Formula(d)) : Satisfies(M, C)
  PROVE  FaithfulTo(F, d)
<1>1. ASSUME NEW M \in ModelsOf(Formula(d)) PROVE M \in ModelsOf(Formula(c))
  <2>1. \A C \in c.irredundant : Satisfies(M, C)
    BY FixedInModels
  <2>2. M \in Models /\ \A C \in Formula(d) : Satisfies(M, C)
    BY DEF ModelsOf
  <2>3. \A C \in Formula(c) : Satisfies(M, C)
    BY <2>1, <2>2 DEF Formula, Loses, SameValues
  <2> QED
    BY <2>2, <2>3 DEF ModelsOf
<1> QED
  BY <1>1 DEF FaithfulTo, Loses, SameValues

LEMMA DenseModeFacts ==
  ASSUME NEW c, IsClosure(c)
  PROVE  /\ Loses(c, DenseMode(c))
         /\ \A C \in c.irredundant \ DenseMode(c).irredundant : C \cap c.fixed # {}
<1> DEFINE x == {C \in c.irredundant : Cardinality(C) > 2 \/ C \cap c.fixed = {}}
<1>1. DenseMode(c) = SetIrredundant(c, x)
  BY DEF DenseMode, SetIrredundant
<1>2. x \subseteq c.irredundant /\ \A C \in c.irredundant \ x : C \cap c.fixed # {}
  OBVIOUS
<1> HIDE DEF x
<1> QED
  BY <1>1, <1>2, SetIrredundantFacts DEF Loses

LEMMA LeadSame ==
  ASSUME NEW c, NEW d, SameGates(c, d), NEW X, NEW Y, Lead(c, X, Y)
  PROVE  Lead(d, X, Y)
BY DEF Lead, SameGates

LEMMA ExtractBinariesInv ==
  ASSUME Inv, ExtractBinaries
  PROVE  Inv'
<1> DEFINE F == Originals
           dense == DenseMode(closure)
<1>1. PICK E \in ExtractedBinaries(dense) :
        /\ closure' = SetIrredundant(dense, dense.irredundant \cup E)
        /\ todo' = AndGates(SetIrredundant(dense, dense.irredundant \cup E))
  BY DEF ExtractBinaries, SetIrredundant
<1> DEFINE x == dense.irredundant \cup E
           c == SetIrredundant(dense, x)
<1>2. /\ pc = "binaries" /\ pc' = "ands" /\ problem' = problem /\ connected' = connected
  BY DEF ExtractBinaries
<1>3. /\ Sane(F, closure) /\ Committed(closure) /\ FaithfulTo(F, closure)
      /\ IsClosure(closure) /\ F \in SUBSET Models
  BY OriginalModels DEF Inv, Sane, Shape
<1>4. Loses(closure, dense) /\ \A C \in closure.irredundant \ dense.irredundant : C \cap closure.fixed # {}
  BY <1>3, DenseModeFacts
<1> HIDE DEF dense
<1>5. Sane(F, dense) /\ Committed(dense)
  BY <1>3, <1>4, LosesSane, LosesCommitted
<1>6. FaithfulTo(F, dense)
  <2>1. ASSUME NEW C \in closure.irredundant \ dense.irredundant, NEW M \in ModelsOf(Formula(dense))
        PROVE  Satisfies(M, C)
    <3>1. closure.fixed \subseteq M
      BY <1>4, FixedInModels DEF Loses, SameValues
    <3> QED
      BY <1>4, <3>1 DEF Satisfies
  <2> QED
    BY <1>3, <1>4, <2>1, LosesFaithful
<1>7. ProperClauses(x) /\ SatisfyAll(F, x)
  <2>1. ProperClauses(dense.irredundant)
    BY <1>5 DEF Sane, Shape
  <2>2. \A B \in E : Strengthening(dense, B)
    BY <2>1, ExtractedFacts
  <2>3. \A B \in E : ProperClause(B) /\ SetHolds(F, B)
    BY <1>3, <1>5, <2>2, StrengtheningFacts
  <2>4. \A C \in dense.irredundant : ProperClause(C) /\ SetHolds(F, C)
    BY <1>5, ClauseFacts
  <2> QED
    BY <2>3, <2>4 DEF ProperClauses, SatisfyAll, SatisfiesAll, SetHolds
<1>8. Adds(F, NoLit, dense, c)
  <2>1. dense.irredundant \subseteq x
    OBVIOUS
  <2> HIDE DEF x
  <2> QED
    BY <1>5, <1>7, <2>1, GetsClauses
<1>9. Sane(F, c) /\ Extends(dense, c) /\ SameGates(dense, c) /\ (Committed(dense) => Committed(c))
  <2>1. IsClosure(dense)
    BY <1>5 DEF Sane, Shape
  <2>2. SameGates(dense, c)
    BY <2>1, SetIrredundantFacts
  <2> HIDE DEF c
  <2> QED
    BY <1>8, <2>2, AddsKeeps DEF Keeps
<1>10. closure' = c /\ todo' = AndGates(c)
  BY <1>1
<1> HIDE DEF c
<1>11. FaithfulTo(F, c) /\ Committed(c)
  BY <1>5, <1>6, <1>9, FaithfulStays
<1>12. SameGates(closure, c)
  BY <1>4, <1>9 DEF Loses, SameGates
<1>13. Original(c) /\ Lead(c, {}, {})
  <2>1. Original(closure) /\ Lead(closure, {}, {})
    BY <1>2 DEF Inv, GatesFound, OccurrencesLead
  <2> QED
    BY <1>12, <2>1, LeadSame DEF Original, SameGates
<1>14. \A gate \in AndGates(c) : AndOrXor(F, gate)
  BY <1>3, <1>9, AndGatesFound
<1>15. F = Originals' /\ problem' \in Problems /\ connected = {}
  BY <1>2 DEF Originals, Inv, ClausesStored
<1> HIDE DEF F
<1>16. GatesFound' /\ OccurrencesLead' /\ ClausesStored'
  BY <1>2, <1>10, <1>13, <1>14, <1>15 DEF GatesFound, OccurrencesLead, ClausesStored
<1> QED
  BY <1>9, <1>10, <1>11, <1>15, <1>16 DEF Inv

LEMMA ExtractGateInv ==
  ASSUME Inv, pc \in {"ands", "xors"}, UNCHANGED <<problem, pc, connected>>,
         NEW gate \in todo, closure' = NewGate(closure, gate), todo' = todo \ {gate}
  PROVE  Inv'
<1> DEFINE d == NewGate(closure, gate)
<1>1. /\ Original(closure) /\ Lead(closure, {}, {}) /\ connected = {}
      /\ \A other \in todo : AndOrXor(Originals, other)
      /\ Sane(Originals, closure)
  BY DEF Inv, GatesFound, OccurrencesLead, ClausesStored
<1>2. IsClosure(closure) /\ GateOK(gate) /\ Implied(Originals, gate) /\ gate.tag # "ite"
  BY <1>1 DEF Sane, Shape, AndOrXor
<1>3. Keeps(Originals, NoLit, closure, d)
  BY <1>1, <1>2, OriginalModels, NewGateKeeps
<1>4. Original(d)
  BY <1>1, <1>2, NewGateOriginal
<1> HIDE DEF d
<1>5. Lead(d, {}, {})
  BY <1>1, <1>3, LeadWithout DEF Keeps
<1>6. closure' = d /\ Originals' = Originals
  BY DEF d, Originals
<1>7. GatesFound' /\ OccurrencesLead' /\ ClausesStored'
  BY <1>1, <1>4, <1>5, <1>6 DEF GatesFound, OccurrencesLead, ClausesStored
<1> QED
  BY <1>3, <1>6, <1>7, KeptInv

LEMMA ExtractIteInv ==
  ASSUME Inv, ExtractIte
  PROVE  Inv'
<1>1. PICK ite \in todo : /\ closure' = NewIte(closure, ite[1], ite[2], ite[3], ite[4])
                          /\ todo' = todo \ {ite}
  BY DEF ExtractIte, Ready
<1> DEFINE d == NewIte(closure, ite[1], ite[2], ite[3], ite[4])
<1>2. /\ pc = "ites" /\ pc' = pc /\ problem' = problem /\ connected' = connected
  BY DEF ExtractIte
<1>3. /\ Original(closure) /\ Lead(closure, {}, {}) /\ connected = {}
      /\ \A other \in todo : IteFound(Originals, other)
      /\ Sane(Originals, closure)
  BY <1>2 DEF Inv, GatesFound, OccurrencesLead, ClausesStored
<1>4. IsClosure(closure)
  BY <1>3 DEF Sane, Shape
<1>5. Keeps(Originals, NoLit, closure, d)
  BY <1>3, NoLitFacts, OriginalModels, NewIteKeeps
<1>6. Original(d)
  BY <1>3, <1>4, NewIteOriginal
<1>7. closure' = d /\ Originals' = Originals
  BY <1>1, <1>2 DEF Originals
<1> HIDE DEF d
<1>8. Lead(d, {}, {})
  BY <1>3, <1>5, LeadWithout DEF Keeps
<1>9. GatesFound' /\ OccurrencesLead' /\ ClausesStored'
  BY <1>1, <1>2, <1>3, <1>6, <1>7, <1>8 DEF GatesFound, OccurrencesLead, ClausesStored
<1> QED
  BY <1>2, <1>5, <1>7, <1>9, KeptInv

LEMMA EndExtractionInv ==
  ASSUME Inv, EndExtraction
  PROVE  Inv'
<1>1. /\ pc \in {"ands", "xors", "ites"} /\ UNCHANGED <<problem, closure, connected>>
      /\ \/ pc' = "done"
         \/ pc' = "xors" /\ todo' = XorGates(closure)
         \/ pc' = "ites" /\ todo' = IteGates(closure)
         \/ pc' = "units"
  BY DEF EndExtraction, Stop
<1>2. CASE pc' = "done"
  BY <1>1, <1>2, StopInv
<1>3. CASE pc' # "done"
  <2>1. /\ Original(closure) /\ Lead(closure, {}, {}) /\ connected = {}
        /\ Sane(Originals, closure)
    BY <1>1 DEF Inv, GatesFound, OccurrencesLead, ClausesStored
  <2>2. \A gate \in XorGates(closure) : AndOrXor(Originals, gate)
    BY <2>1, OriginalModels, XorGatesFound
  <2>3. \A ite \in IteGates(closure) : IteFound(Originals, ite)
    BY <2>1, OriginalModels, IteGatesFound
  <2>4. Originals' = Originals
    BY <1>1 DEF Originals
  <2>5. GatesFound' /\ OccurrencesLead' /\ ClausesStored'
    BY <1>1, <1>3, <2>1, <2>2, <2>3, <2>4 DEF GatesFound, OccurrencesLead, ClausesStored
  <2>6. Keeps(Originals, NoLit, closure, closure')
    BY <1>1, <2>1, KeepsItself
  <2> QED
    BY <1>1, <2>5, <2>6, KeptInv
<1> QED
  BY <1>2, <1>3

(* The phases in which nothing is known of what is left to do. *)
Plain == {"units", "equivalences", "merge", "propagate"}

LEMMA PlainInv ==
  ASSUME Inv, pc \in Plain, pc' \in Plain, UNCHANGED <<problem, connected>>,
         Keeps(Originals, NoLit, closure, closure')
  PROVE  Inv'
<1>1. Lead(closure, {}, {}) /\ connected = {}
  BY DEF Inv, OccurrencesLead, ClausesStored, Plain
<1>2. Lead(closure', {}, {})
  BY <1>1, LeadWithout DEF Keeps
<1>3. GatesFound' /\ OccurrencesLead' /\ ClausesStored'
  BY <1>1, <1>2 DEF GatesFound, OccurrencesLead, ClausesStored, Plain
<1> QED
  BY <1>3, KeptInv

LEMMA NextVariableInv ==
  ASSUME Inv, pc \in Plain, NEW phase \in Plain, NEW next, NextVariable(phase, next),
         UNCHANGED <<problem, connected>>
  PROVE  Inv'
<1>1. closure' = closure /\ pc' \in Plain \cup {"done"}
  BY DEF NextVariable, Stop
<1>2. Keeps(Originals, NoLit, closure, closure')
  BY <1>1, KeepsItself DEF Inv
<1> QED
  BY <1>1, <1>2, StopInv, PlainInv

(* A binary clause holds, and its literals are literals. *)
LEMMA BinaryHolds ==
  ASSUME NEW F \in SUBSET Models, NEW c, Sane(F, c), NEW k, NEW l, {k, l} \in c.irredundant
  PROVE  k \in LITS /\ l \in LITS /\ \A M \in F : k \in M \/ l \in M
<1>1. ProperClause({k, l}) /\ SetHolds(F, {k, l})
  BY ClauseFacts
<1>2. k \in LITS /\ l \in LITS
  BY <1>1 DEF ProperClause
<1>3. \A M \in F : k \in M \/ l \in M
  BY <1>1 DEF SetHolds, Satisfies
<1> QED
  BY <1>2, <1>3

LEMMA FindUnitsInv ==
  ASSUME Inv, FindUnits
  PROVE  Inv'
<1>1. /\ pc = "units" /\ pc \in Plain /\ UNCHANGED <<problem, connected>>
      /\ \/ \E unit \in UnitOf(First) : closure' = LearnUnit(closure, unit) /\ pc' = pc
         \/ NextVariable("equivalences", Vars)
  BY DEF FindUnits, Plain
<1>2. CASE NextVariable("equivalences", Vars)
  <2>1. "equivalences" \in Plain
    BY DEF Plain
  <2> QED
    BY <1>1, <1>2, <2>1, NextVariableInv
<1>3. ASSUME NEW unit \in UnitOf(First), closure' = LearnUnit(closure, unit), pc' = pc
      PROVE  Inv'
  <2>1. PICK k \in LITS : /\ {unit, k} \in closure.irredundant
                          /\ {unit, NOT(k)} \in closure.irredundant
    BY <1>3 DEF UnitOf, HasBinary
  <2>2. Sane(Originals, closure)
    BY DEF Inv
  <2>3. /\ unit \in LITS /\ \A M \in Originals : unit \in M \/ k \in M
        /\ \A M \in Originals : unit \in M \/ NOT(k) \in M
    BY <2>1, <2>2, OriginalModels, BinaryHolds
  <2>4. Forced(Originals, unit)
    BY <2>3, OriginalModels, ModelFacts DEF Forced
  <2>5. Keeps(Originals, NoLit, closure, LearnUnit(closure, unit))
    BY <2>2, <2>3, <2>4, OriginalModels, LearnUnitAdds, AddsKeeps DEF Learned
  <2> QED
    BY <1>1, <1>3, <2>5, PlainInv
<1> QED
  BY <1>1, <1>2, <1>3

LEMMA FindEquivalencesInv ==
  ASSUME Inv, FindEquivalences
  PROVE  Inv'
<1>1. /\ pc \in Plain /\ UNCHANGED <<problem, connected>>
      /\ \/ \E other \in EquivalentTo(First) : closure' = Merge(closure, First, other) /\ pc' = pc
         \/ NextVariable("merge", {})
  BY DEF FindEquivalences, Plain
<1>2. CASE NextVariable("merge", {})
  <2>1. "merge" \in Plain
    BY DEF Plain
  <2> QED
    BY <1>1, <1>2, <2>1, NextVariableInv
<1>3. ASSUME NEW other \in EquivalentTo(First),
             closure' = Merge(closure, First, other), pc' = pc
      PROVE  Inv'
  <2> DEFINE v == First
  <2>1. {v, NOT(other)} \in closure.irredundant /\ {NOT(v), other} \in closure.irredundant
    BY <1>3 DEF EquivalentTo, HasBinary
  <2>2. Sane(Originals, closure)
    BY DEF Inv
  <2> HIDE DEF v
  <2>3. /\ v \in LITS /\ other \in LITS
        /\ \A M \in Originals : v \in M \/ NOT(other) \in M
        /\ \A M \in Originals : NOT(v) \in M \/ other \in M
    BY <2>1, <2>2, OriginalModels, BinaryHolds
  <2>4. Equivalent(Originals, v, other)
    BY <2>3, OriginalModels, ModelFacts DEF Equivalent
  <2>5. Keeps(Originals, NoLit, closure, Merge(closure, v, other))
    BY <2>2, <2>3, <2>4, OriginalModels, MergeKeeps
  <2> QED
    BY <1>1, <1>3, <2>5, PlainInv DEF v
<1> QED
  BY <1>1, <1>2, <1>3

LEMMA ContinueInv ==
  ASSUME Inv, Continue
  PROVE  Inv'
<1>1. /\ pc \in Plain /\ pc' \in Plain \cup {"done"} /\ UNCHANGED <<problem, closure, connected>>
  BY DEF Continue, Stop, Plain
<1>2. Keeps(Originals, NoLit, closure, closure')
  BY <1>1, KeepsItself DEF Inv
<1> QED
  BY <1>1, <1>2, StopInv, PlainInv

LEMMA WorkFacts ==
  ASSUME NEW l, NEW a, NEW b
  PROVE  /\ Both(l, a, b)[1][1] = l /\ Both(l, a, b)[1][2] = a
         /\ Len(Both(l, a, b)) = 2 /\ Tail(Both(l, a, b)) = Second(l, b)
         /\ Second(l, b)[1][1] = NOT(l) /\ Second(l, b)[1][2] = b
         /\ Len(Second(l, b)) = 1
BY DEF Both, Second

LEMMA SecondFacts ==
  ASSUME NEW l, NEW b
  PROVE  Second(l, b)[1][1] = NOT(l) /\ Len(Second(l, b)) = 1
BY DEF Second

LEMMA PropagateUnitInv ==
  ASSUME Inv, PropagateUnit
  PROVE  Inv'
<1>1. /\ pc = "propagate" /\ UNCHANGED <<problem, connected>> /\ pc' = "simplify"
      /\ \E lit \in closure.units :
           /\ closure' = SetUnits(closure, closure.units \ {lit})
           /\ work' = Both(lit, NoLit, NoLit)
           /\ todo' = closure.occurrences[Both(lit, NoLit, NoLit)[1][1]]
  BY DEF PropagateUnit, Busy, Ready, SetUnits, Both
<1>2. PICK lit \in closure.units :
        /\ closure' = SetUnits(closure, closure.units \ {lit})
        /\ work' = Both(lit, NoLit, NoLit)
        /\ todo' = closure.occurrences[Both(lit, NoLit, NoLit)[1][1]]
  BY <1>1
<1> DEFINE x == closure.units \ {lit}
           d == SetUnits(closure, x)
<1>3. Sane(Originals, closure) /\ Lead(closure, {}, {}) /\ connected = {}
  BY <1>1 DEF Inv, OccurrencesLead, ClausesStored
<1>4. IsClosure(closure) /\ x \in SUBSET closure.fixed /\ lit \in closure.fixed /\ lit \in LITS
  BY <1>3 DEF Sane, Shape
<1>5. closure' = d
  BY <1>2
<1> HIDE DEF x
<1>6. SameGates(closure, d) /\ d.fixed = closure.fixed
  BY <1>4, SetUnitsFacts
<1>7. Keeps(Originals, NoLit, closure, d)
  BY <1>3, <1>4, GetsUnits, AddsKeeps
<1> HIDE DEF d
<1>8. Lead(d, {}, {})
  BY <1>3, <1>6, LeadSame
<1>9. Simplifying(d, work')
  BY <1>2, <1>4, <1>6 DEF Simplifying, Valued, IsTrue
<1>10. todo' \subseteq d.occurrences[work'[1][1]]
  BY <1>2, <1>6 DEF SameGates
<1>11. GatesFound' /\ OccurrencesLead' /\ ClausesStored'
  BY <1>1, <1>3, <1>5, <1>8, <1>9, <1>10 DEF GatesFound, OccurrencesLead, ClausesStored
<1> QED
  BY <1>1, <1>5, <1>7, <1>11, KeptInv

LEMMA PropagateEquivalenceInv ==
  ASSUME Inv, PropagateEquivalence
  PROVE  Inv'
<1> DEFINE lit == Head(closure.schedule)
           dst == FindRepr(closure, lit)
           rest == Tail(closure.schedule)
           d == SetSchedule(closure, rest)
<1>1. /\ pc = "propagate" /\ pc \in Plain /\ UNCHANGED <<problem, connected>>
      /\ closure' = d /\ closure.schedule # <<>>
      /\ \/ pc' = "merge"
         \/ /\ pc' = "rewrite" /\ work' = Both(lit, dst, NOT(dst))
            /\ todo' = closure.occurrences[Both(lit, dst, NOT(dst))[1][1]]
  BY DEF PropagateEquivalence, Busy, SetSchedule, Both, Plain
<1>2. Sane(Originals, closure) /\ Lead(closure, {}, {}) /\ connected = {}
  BY <1>1 DEF Inv, OccurrencesLead, ClausesStored
<1>3. /\ IsClosure(closure) /\ ReprOK(closure.repr)
      /\ Merged(Originals, closure.repr) /\ ScheduleOK(closure.repr, closure.schedule)
  BY <1>2 DEF Sane, Shape, Consequences
<1>4. /\ lit \in LITS /\ closure.repr[lit] # lit /\ ScheduleOK(closure.repr, rest)
  <2> DEFINE s == closure.schedule
  <2>1. s \in Seq(LITS) /\ s # <<>> /\ \A i \in 1..Len(s) : closure.repr[s[i]] # s[i]
    BY <1>1, <1>3 DEF ScheduleOK
  <2> HIDE DEF s
  <2>2. /\ 1 \in 1..Len(s) /\ Head(s) = s[1] /\ Head(s) \in LITS
        /\ Tail(s) \in Seq(LITS) /\ Len(Tail(s)) = Len(s) - 1
        /\ \A i \in 1..Len(Tail(s)) : Tail(s)[i] = s[i + 1] /\ i + 1 \in 1..Len(s)
    BY <2>1
  <2> QED
    BY <2>1, <2>2 DEF ScheduleOK, s
<1> HIDE DEF lit, rest
<1>5. SameGates(closure, d)
  BY <1>3, SetScheduleFacts
<1>6. Keeps(Originals, NoLit, closure, d)
  BY <1>2, <1>4, GetsScheduled, AddsKeeps
<1>7. dst \in LITS /\ Equivalent(Originals, lit, dst) /\ IDX(dst) # IDX(lit)
  BY <1>3, <1>4, FindReprFacts, OtherVariable
<1> HIDE DEF dst, d
<1>8. CASE pc' = "merge"
  <2>1. pc' \in Plain
    BY <1>8 DEF Plain
  <2> QED
    BY <1>1, <1>6, <2>1, PlainInv
<1>9. CASE /\ pc' = "rewrite" /\ work' = Both(lit, dst, NOT(dst))
           /\ todo' = closure.occurrences[Both(lit, dst, NOT(dst))[1][1]]
  <2>1. Lead(d, {lit, NOT(lit)}, {})
    <3>1. Lead(d, {}, {})
      BY <1>2, <1>5, LeadSame
    <3> QED
      BY <3>1 DEF Lead
  <2>2. Rewriting(Originals, d, work')
    BY <1>4, <1>7, <1>9, <2>1 DEF Rewriting
  <2>3. todo' \subseteq d.occurrences[work'[1][1]]
    BY <1>5, <1>9 DEF SameGates
  <2>4. Originals' = Originals
    BY <1>1 DEF Originals
  <2>5. GatesFound' /\ OccurrencesLead' /\ ClausesStored'
    BY <1>1, <1>2, <1>9, <2>2, <2>3, <2>4 DEF GatesFound, OccurrencesLead, ClausesStored
  <2> QED
    BY <1>1, <1>6, <2>5, KeptInv
<1> QED
  BY <1>1, <1>8, <1>9

(* Both literals of a variable have values or none. *)
LEMMA ValuedNegation ==
  ASSUME NEW c, NEW k \in LITS, NEW l \in LITS, IDX(k) = IDX(l), Valued(c, k)
  PROVE  Valued(c, l)
BY SameIndex, LitFacts DEF Valued, IsTrue, IsFalse

LEMMA SimplifyOneInv ==
  ASSUME Inv, SimplifyOne
  PROVE  Inv'
<1> DEFINE k == work[1][1]
<1>1. /\ pc = "simplify" /\ UNCHANGED <<problem, connected, pc, work>>
      /\ \E g \in todo : closure' = SimplifyGate(closure, g) /\ todo' = todo \ {g}
  BY DEF SimplifyOne, Ready
<1>2. PICK g \in todo : closure' = SimplifyGate(closure, g) /\ todo' = todo \ {g}
  BY <1>1
<1>3. /\ Sane(Originals, closure) /\ Lead(closure, {}, {}) /\ connected = {}
      /\ Simplifying(closure, work) /\ todo \subseteq closure.occurrences[k]
  BY <1>1 DEF Inv, OccurrencesLead, ClausesStored
<1>4. k \in LITS /\ Valued(closure, k)
  <2>1. PICK l \in LITS : /\ Valued(closure, l)
                          /\ work \in {Both(l, NoLit, NoLit), Second(l, NoLit)}
    BY <1>3 DEF Simplifying
  <2>2. k = l \/ k = NOT(l)
    BY <2>1, WorkFacts
  <2> QED
    BY <2>1, <2>2, LitFacts, ValuedNegation
<1> HIDE DEF k
<1>5. g \in closure.occurrences[k] /\ g \in DOMAIN closure.gates
  BY <1>3, <1>4 DEF Sane, Shape
<1>6. SomeInputValued(closure, g)
  <2> SUFFICES ASSUME LiveIte(closure.gates[g])
               PROVE  \E l \in ToSet(closure.gates[g].rhs) : Valued(closure, l)
    BY DEF SomeInputValued
  <2>1. IDX(k) \in InputVars(closure.gates[g])
    BY <1>3, <1>4, <1>5 DEF Lead
  <2>2. PICK l \in ToSet(closure.gates[g].rhs) : IDX(k) = IDX(l)
    BY <2>1 DEF InputVars
  <2>3. l \in LITS
    BY <1>3, <1>5, <2>2, GateInputs DEF LiveIte
  <2> QED
    BY <1>4, <2>2, <2>3, ValuedNegation
<1>7. Keeps(Originals, NoLit, closure, closure')
  BY <1>2, <1>3, <1>5, <1>6, OriginalModels, SimplifyGateKeeps
<1>8. Extends(closure, closure') /\ Lead(closure', {}, {})
  BY <1>3, <1>7, LeadWithout DEF Keeps
<1>9. Simplifying(closure', work)
  BY <1>3, <1>8 DEF Simplifying, Valued, IsTrue, IsFalse, Extends
<1>10. todo' \subseteq closure'.occurrences[k]
  BY <1>2, <1>3, <1>4, <1>8 DEF Extends
<1>11. GatesFound' /\ OccurrencesLead' /\ ClausesStored'
  BY <1>1, <1>3, <1>8, <1>9, <1>10 DEF GatesFound, OccurrencesLead, ClausesStored, k
<1> QED
  BY <1>1, <1>7, <1>11, KeptInv

LEMMA RewriteOneInv ==
  ASSUME Inv, RewriteOne
  PROVE  Inv'
<1> DEFINE F == Originals
           src == work[1][1]
           dst == work[1][2]
<1>1. /\ pc = "rewrite" /\ UNCHANGED <<problem, connected, pc, work>>
      /\ \E g \in todo : closure' = RewriteGate(closure, g, dst, src) /\ todo' = todo \ {g}
  BY DEF RewriteOne, Ready
<1>2. PICK g \in todo : closure' = RewriteGate(closure, g, dst, src) /\ todo' = todo \ {g}
  BY <1>1
<1>3. /\ Sane(F, closure) /\ connected = {}
      /\ Rewriting(F, closure, work) /\ todo \subseteq closure.occurrences[src]
  BY <1>1 DEF Inv, OccurrencesLead, ClausesStored
<1>4. PICK l \in LITS, d \in LITS :
        /\ Equivalent(F, l, d) /\ IDX(l) # IDX(d)
        /\ \/ work = Both(l, d, NOT(d)) /\ Lead(closure, {l, NOT(l)}, {})
           \/ work = Second(l, NOT(d)) /\ Lead(closure, {NOT(l)}, {l})
  BY <1>3 DEF Rewriting
<1>5. /\ NOT(l) \in LITS /\ NOT(d) \in LITS /\ IDX(NOT(l)) = IDX(l) /\ IDX(NOT(d)) = IDX(d)
      /\ Equivalent(F, NOT(l), NOT(d))
  BY <1>4, LitFacts, OriginalModels, EquivalentNegations
<1>6. \/ src = l /\ dst = d
      \/ src = NOT(l) /\ dst = NOT(d)
  BY <1>4, WorkFacts
<1> HIDE DEF src, dst
<1>7. /\ src \in LITS /\ dst \in LITS /\ Equivalent(F, src, dst)
      /\ IDX(src) # IDX(dst) /\ IDX(src) = IDX(l)
  BY <1>4, <1>5, <1>6
<1>8. g \in DOMAIN closure.gates
  BY <1>3, <1>7 DEF Sane, Shape
<1>9. Keeps(F, IDX(l), closure, closure')
  BY <1>2, <1>3, <1>7, <1>8, OriginalModels, RewriteGateKeeps
<1>10. Extends(closure, closure') /\ Follows(IDX(l), closure, closure')
  BY <1>9 DEF Keeps
<1>11. \A k \in LITS : IDX(k) = IDX(l) => k = l \/ k = NOT(l)
  BY SameIndex
<1>12. \/ work = Both(l, d, NOT(d)) /\ Lead(closure', {l, NOT(l)}, {})
       \/ work = Second(l, NOT(d)) /\ Lead(closure', {NOT(l)}, {l})
  <2>1. Lead(closure, {l, NOT(l)}, {}) => Lead(closure', {l, NOT(l)}, {})
    BY <1>10, <1>11, LeadStays
  <2>2. Lead(closure, {NOT(l)}, {l}) => Lead(closure', {NOT(l)}, {l})
    BY <1>10, <1>11, LeadStays
  <2> QED
    BY <1>4, <2>1, <2>2
<1>13. Rewriting(F, closure', work)
  BY <1>4, <1>12 DEF Rewriting
<1>14. todo' \subseteq closure'.occurrences[src]
  BY <1>2, <1>3, <1>7, <1>10 DEF Extends
<1>15. F = Originals'
  BY <1>1 DEF Originals
<1>16. GatesFound' /\ OccurrencesLead' /\ ClausesStored'
  BY <1>1, <1>3, <1>13, <1>14, <1>15 DEF GatesFound, OccurrencesLead, ClausesStored, src
<1> QED
  BY <1>1, <1>9, <1>16, KeptInv

(* Occurrences of a literal are released. *)
Released(c, k) == [c.occurrences EXCEPT ![k] = {}]

LEMMA ReleasedFacts ==
  ASSUME NEW F, NEW c, Sane(F, c), Committed(c), FaithfulTo(F, c), NEW k \in LITS,
         NEW d, d = SetOccurrences(c, Released(c, k))
  PROVE  /\ Sane(F, d) /\ Committed(d) /\ FaithfulTo(F, d)
         /\ SameValues(c, d) /\ d.gates = c.gates
         /\ d.occurrences[k] = {}
         /\ \A l \in LITS \ {k} : d.occurrences[l] = c.occurrences[l]
<1>1. IsClosure(c) /\ c.occurrences \in [LITS -> SUBSET DOMAIN c.gates]
  BY DEF Sane, Shape
<1>2. /\ Released(c, k) \in [LITS -> SUBSET DOMAIN c.gates]
      /\ Released(c, k)[k] = {}
      /\ \A l \in LITS \ {k} : Released(c, k)[l] = c.occurrences[l]
  BY <1>1 DEF Released
<1>3. /\ IsClosure(d) /\ SameClauses(c, d) /\ SameValues(c, d) /\ SameMerges(c, d)
      /\ d.gates = c.gates /\ d.occurrences = Released(c, k)
  BY <1>1, SetOccurrencesFacts
<1>4. Shape(d)
  BY <1>2, <1>3 DEF Sane, Shape, SameClauses, SameValues, SameMerges
<1>5. Consequences(F, d)
  BY <1>3 DEF Sane, Consequences, SameClauses, SameValues, SameMerges
<1>6. CoreModels(d) = CoreModels(c) /\ Formula(d) = Formula(c)
  BY <1>3 DEF CoreModels, Formula, SameClauses, SameValues
<1>7. Committed(d) /\ FaithfulTo(F, d)
  BY <1>3, <1>6 DEF Committed, FaithfulTo, SameValues, SameMerges
<1> QED
  BY <1>2, <1>3, <1>4, <1>5, <1>7 DEF Sane

LEMMA ReleaseOccurrencesInv ==
  ASSUME Inv, ReleaseOccurrences
  PROVE  Inv'
<1> DEFINE F == Originals
           k == work[1][1]
           d == SetOccurrences(closure, Released(closure, k))
<1>1. /\ pc \in {"simplify", "rewrite"} /\ UNCHANGED <<problem, connected>>
      /\ closure' = d
      /\ IF Len(work) > 1
         THEN /\ pc' = pc /\ work' = Tail(work)
              /\ todo' = closure.occurrences[Tail(work)[1][1]]
         ELSE pc' = IF pc = "simplify" THEN "propagate" ELSE "merge"
  BY DEF ReleaseOccurrences, Busy, SetOccurrences, Released
<1>2. /\ Sane(F, closure) /\ Committed(closure) /\ FaithfulTo(F, closure)
      /\ connected = {} /\ problem \in Problems
      /\ pc = "simplify" => Simplifying(closure, work) /\ Lead(closure, {}, {})
      /\ pc = "rewrite" => Rewriting(F, closure, work)
  BY <1>1 DEF Inv, OccurrencesLead, ClausesStored
<1>3. \E l \in LITS : \E a, b : work \in {Both(l, a, b), Second(l, b)}
  BY <1>1, <1>2 DEF Simplifying, Rewriting
<1>4. k \in LITS
  BY <1>3, WorkFacts, LitFacts
<1> HIDE DEF k
<1>5. /\ Sane(F, d) /\ Committed(d) /\ FaithfulTo(F, d)
      /\ SameValues(closure, d) /\ d.gates = closure.gates
      /\ d.occurrences[k] = {}
      /\ \A m \in LITS \ {k} : d.occurrences[m] = closure.occurrences[m]
  BY <1>2, <1>4, ReleasedFacts
<1> HIDE DEF d
<1>6. \A X, Y : Lead(closure, X, Y) => Lead(d, X, Y)
  <2> SUFFICES ASSUME NEW X, NEW Y, Lead(closure, X, Y), NEW l \in LITS, NEW g \in d.occurrences[l],
                      LiveIte(d.gates[g])
               PROVE  l \in X \/ (l \notin Y /\ IDX(l) \in InputVars(d.gates[g]))
    BY DEF Lead
  <2>1. g \in closure.occurrences[l] /\ LiveIte(closure.gates[g])
    BY <1>5
  <2> QED
    BY <1>5, <2>1 DEF Lead
<1>7. F = Originals' /\ problem' \in Problems
  BY <1>1, <1>2 DEF Originals
<1>8. GatesFound' /\ ClausesStored'
  BY <1>1, <1>2 DEF GatesFound, ClausesStored
<1>9. OccurrencesLead'
  <2>1. CASE pc = "simplify"
    <3>1. PICK l \in LITS : /\ Valued(closure, l)
                            /\ work \in {Both(l, NoLit, NoLit), Second(l, NoLit)}
      BY <1>2, <2>1 DEF Simplifying
    <3>2. Valued(d, l) /\ Lead(d, {}, {}) /\ NOT(l) \in LITS /\ NOT(l) # l
      BY <1>2, <1>5, <1>6, <2>1, <3>1, LitFacts DEF Valued, IsTrue, IsFalse, SameValues
    <3>3. CASE work = Both(l, NoLit, NoLit)
      <4>1. /\ pc' = "simplify" /\ work' = Second(l, NoLit) /\ k = l
            /\ todo' = closure.occurrences[NOT(l)] /\ work'[1][1] = NOT(l)
        BY <1>1, <2>1, <3>3, WorkFacts DEF k
      <4>2. todo' \subseteq d.occurrences[work'[1][1]]
        BY <1>5, <3>2, <4>1
      <4>3. Simplifying(d, work')
        BY <3>2, <4>1 DEF Simplifying
      <4> QED
        BY <1>1, <3>2, <4>1, <4>2, <4>3 DEF OccurrencesLead
    <3>4. CASE work = Second(l, NoLit)
      <4>1. pc' = "propagate"
        BY <1>1, <2>1, <3>4, SecondFacts
      <4> QED
        BY <1>1, <3>2, <4>1 DEF OccurrencesLead
    <3> QED
      BY <3>1, <3>3, <3>4
  <2>2. CASE pc = "rewrite"
    <3>1. PICK l \in LITS, e \in LITS :
            /\ Equivalent(F, l, e) /\ IDX(l) # IDX(e)
            /\ \/ work = Both(l, e, NOT(e)) /\ Lead(closure, {l, NOT(l)}, {})
               \/ work = Second(l, NOT(e)) /\ Lead(closure, {NOT(l)}, {l})
      BY <1>2, <2>2 DEF Rewriting
    <3>2. NOT(l) \in LITS /\ NOT(l) # l
      BY LitFacts
    <3>3. CASE work = Both(l, e, NOT(e)) /\ Lead(closure, {l, NOT(l)}, {})
      <4>1. /\ pc' = "rewrite" /\ work' = Second(l, NOT(e)) /\ k = l
            /\ todo' = closure.occurrences[NOT(l)] /\ work'[1][1] = NOT(l)
        BY <1>1, <2>2, <3>3, WorkFacts DEF k
      <4>2. todo' \subseteq d.occurrences[work'[1][1]]
        BY <1>5, <3>2, <4>1
      <4>3. Lead(d, {l, NOT(l)}, {})
        BY <1>6, <3>3
      <4>4. Lead(d, {NOT(l)}, {l})
        BY <1>5, <4>1, <4>3 DEF Lead
      <4>5. Rewriting(F, d, work')
        BY <3>1, <4>1, <4>4 DEF Rewriting
      <4> HIDE DEF F
      <4> QED
        BY <1>1, <1>7, <4>1, <4>2, <4>5 DEF OccurrencesLead
    <3>4. CASE work = Second(l, NOT(e)) /\ Lead(closure, {NOT(l)}, {l})
      <4>1. pc' = "merge" /\ k = NOT(l)
        BY <1>1, <2>2, <3>4, SecondFacts DEF k
      <4>2. Lead(d, {NOT(l)}, {l})
        BY <1>6, <3>4
      <4>3. Lead(d, {}, {})
        BY <1>5, <4>1, <4>2 DEF Lead
      <4> QED
        BY <1>1, <4>1, <4>3 DEF OccurrencesLead
    <3> QED
      BY <3>1, <3>3, <3>4
  <2> QED
    BY <1>1, <2>1, <2>2
<1> HIDE DEF F
<1> QED
  BY <1>1, <1>5, <1>7, <1>8, <1>9 DEF Inv

(* Clauses are removed whose literals are, after merging, complementary or
   include those of a clause that stays. *)
LEMMA MergedInModels ==
  ASSUME NEW F, NEW d, Sane(F, d), Committed(d), ~d.inconsistent,
         NEW M \in ModelsOf(Formula(d)), NEW k \in LITS
  PROVE  k \in M <=> FindRepr(d, k) \in M
<1> DEFINE K == CoreModels(d)
<1>1. M \in K
  BY FixedInModels DEF CoreModels
<1>2. ReprOK(d.repr) /\ Merged(K, d.repr)
  BY DEF Sane, Shape, Committed
<1> HIDE DEF K
<1>3. Equivalent(K, k, FindRepr(d, k))
  BY <1>2, FindReprFacts
<1> QED
  BY <1>1, <1>3 DEF Equivalent

LEMMA SameRepr ==
  ASSUME NEW c, NEW d, d.repr = c.repr, NEW l
  PROVE  FindRepr(d, l) = FindRepr(c, l)
BY DEF FindRepr

LEMMA EndPropagationInv ==
  ASSUME Inv, EndPropagation
  PROVE  Inv'
<1> DEFINE F == Originals
           dense == DenseMode(closure)
           x == {C \in dense.irredundant : Cardinality(C) = 2 \/ ~Removable(C)}
<1>1. /\ pc = "propagate" /\ ~closure.inconsistent /\ UNCHANGED <<problem, connected>>
      /\ \/ pc' = "done" /\ closure' = closure
         \/ /\ pc' = "subsume"
            /\ \E before \in SUBSET closure.redundant :
                 /\ closure' = [dense EXCEPT !.irredundant = x,
                                  !.redundant = {C \in @ : C \in before => ~Removable(C)}]
                 /\ todo' = Candidates(closure.irredundant, FALSE) \cup Candidates(before, TRUE)
  BY DEF EndPropagation, Stop
<1>2. CASE pc' = "done" /\ closure' = closure
  BY <1>1, <1>2, StopInv
<1>3. CASE pc' # "done"
  <2>1. PICK before \in SUBSET closure.redundant :
          /\ closure' = [dense EXCEPT !.irredundant = x,
                           !.redundant = {C \in @ : C \in before => ~Removable(C)}]
          /\ todo' = Candidates(closure.irredundant, FALSE) \cup Candidates(before, TRUE)
    BY <1>1, <1>3
  <2> DEFINE y == {C \in dense.redundant : C \in before => ~Removable(C)}
             e == SetIrredundant(dense, x)
             d == SetRedundant(e, y)
  <2>2. /\ Sane(F, closure) /\ Committed(closure) /\ FaithfulTo(F, closure)
        /\ IsClosure(closure) /\ connected = {} /\ problem \in Problems
    BY <1>1 DEF Inv, Sane, Shape, ClausesStored
  <2>3. closure' = d
    BY <2>1 DEF SetIrredundant, SetRedundant
  <2>4. /\ Loses(closure, dense)
        /\ \A C \in closure.irredundant \ dense.irredundant : C \cap closure.fixed # {}
    BY <2>2, DenseModeFacts
  <2>5. \A C \in closure.irredundant : Cardinality(C) > 2 => C \in dense.irredundant
    BY DEF DenseMode
  <2>6. x \subseteq dense.irredundant /\ y \subseteq dense.redundant
    OBVIOUS
  <2>7. \A C \in dense.irredundant \ x : Cardinality(C) # 2 /\ Removable(C)
    OBVIOUS
  <2>8. \A C \in dense.irredundant : ~Removable(C) => C \in x
    OBVIOUS
  <2> HIDE DEF x, y, dense
  <2>9. Loses(closure, d) /\ d.irredundant = x
    <3>1. IsClosure(dense)
      BY <2>4 DEF Loses
    <3>2. /\ IsClosure(e) /\ e.irredundant = x /\ e.redundant = dense.redundant
          /\ SameValues(dense, e) /\ SameMerges(dense, e) /\ SameGates(dense, e)
      BY <3>1, SetIrredundantFacts
    <3> HIDE DEF e
    <3>3. /\ IsClosure(d) /\ d.irredundant = x /\ d.redundant = y
          /\ SameValues(e, d) /\ SameMerges(e, d) /\ SameGates(e, d)
      BY <3>2, SetRedundantFacts
    <3> HIDE DEF d
    <3> QED
      BY <2>4, <2>6, <3>2, <3>3 DEF Loses, SameValues, SameMerges, SameGates
  <2> HIDE DEF d
  <2>10. \A C \in closure.irredundant \ d.irredundant :
           C \cap closure.fixed # {} \/ (Cardinality(C) # 2 /\ Removable(C))
    BY <2>4, <2>7, <2>9
  <2>11. Sane(F, d) /\ Committed(d)
    BY <2>2, <2>9, <2>10, LosesSane, LosesCommitted
  <2>12. d.fixed = closure.fixed /\ d.repr = closure.repr /\ ~d.inconsistent
    BY <1>1, <2>9 DEF Loses, SameValues, SameMerges
  <2>13. FaithfulTo(F, d)
    <3>1. ASSUME NEW C \in closure.irredundant \ d.irredundant, NEW M \in ModelsOf(Formula(d))
          PROVE  Satisfies(M, C)
      <4>1. CASE C \cap closure.fixed # {}
        BY <2>12, <4>1, FixedInModels DEF Satisfies
      <4>2. CASE C \cap closure.fixed = {}
        <5>1. PICK l \in Represented(C) : NOT(l) \in Represented(C)
          BY <2>10, <4>2 DEF Removable
        <5>2. PICK k \in C : FindRepr(closure, k) = l
          BY <5>1 DEF Represented
        <5>3. PICK m \in C : FindRepr(closure, m) = NOT(l)
          BY <5>1 DEF Represented
        <5>4. k \in LITS /\ m \in LITS
          BY <2>2, ClauseFacts DEF ProperClause
        <5>5. (k \in M <=> l \in M) /\ (m \in M <=> NOT(l) \in M)
          BY <2>11, <2>12, <5>2, <5>3, <5>4, MergedInModels, SameRepr
        <5>6. l \in LITS
          BY <2>2, <5>2, <5>4, FindReprFacts DEF Sane, Shape, Consequences
        <5>7. l \in M \/ NOT(l) \in M
          BY <5>6, FixedInModels, ModelFacts
        <5> QED
          BY <5>5, <5>7 DEF Satisfies
      <4> QED
        BY <4>1, <4>2
    <3> QED
      BY <2>2, <2>9, <3>1, LosesFaithful
  <2>14. \A C \in todo' : IsStored(d, C)
    <3> SUFFICES ASSUME NEW C \in todo' PROVE IsStored(d, C)
      OBVIOUS
    <3>1. CASE C \in Candidates(closure.irredundant, FALSE)
      <4>1. PICK D \in closure.irredundant :
              C = Candidate(D, FALSE) /\ Cardinality(D) > 2 /\ ~Removable(D)
        BY <3>1 DEF Candidates
      <4>2. C.lits = D /\ C.redundant = FALSE
        BY <4>1 DEF Candidate
      <4>3. D \in d.irredundant
        BY <2>5, <2>8, <2>9, <4>1
      <4> QED
        BY <4>1, <4>2, <4>3 DEF IsStored
    <3>2. CASE C \in Candidates(before, TRUE)
      <4>1. PICK D : C = Candidate(D, TRUE)
        BY <3>2 DEF Candidates
      <4>2. C.lits = D /\ C.redundant = TRUE
        BY <4>1 DEF Candidate
      <4> QED
        BY <4>1, <4>2 DEF IsStored
    <3> QED
      BY <2>1, <3>1, <3>2
  <2>15. F = Originals' /\ problem' \in Problems /\ pc' = "subsume"
    BY <1>1, <1>3, <2>2 DEF Originals
  <2>16. ConnectedClauses' = {}
    BY <1>1, <2>2 DEF ConnectedClauses
  <2>17. GatesFound' /\ OccurrencesLead' /\ ClausesStored'
    BY <2>3, <2>12, <2>14, <2>15, <2>16 DEF GatesFound, OccurrencesLead, ClausesStored
  <2> HIDE DEF F
  <2> QED
    BY <2>3, <2>11, <2>13, <2>15, <2>17 DEF Inv
<1> QED
  BY <1>1, <1>2, <1>3

LEMMA SubsumedHolds ==
  ASSUME NEW F \in SUBSET Models, NEW c, Sane(F, c), ~c.inconsistent,
         NEW d, Sane(F, d), Committed(d), d.fixed = c.fixed, d.repr = c.repr, ~d.inconsistent,
         NEW C \in c.irredundant, NEW D \in d.irredundant, ProperClause(C), c = closure,
         Represented(D) \subseteq Represented(C),
         NEW M \in ModelsOf(Formula(d))
  PROVE  Satisfies(M, C)
<1>1. Satisfies(M, D) /\ d.fixed \subseteq M /\ M \in Models
  BY FixedInModels
<1>2. PICK k \in D : k \in M
  BY <1>1 DEF Satisfies
<1>3. k \in LITS
  BY ClauseFacts DEF ProperClause
<1>4. ~IsFalse(c, k)
  BY <1>1, <1>2, <1>3, ModelFacts DEF IsFalse
<1>5. FindRepr(c, k) \in Represented(C)
  BY <1>4 DEF Represented
<1>6. PICK m \in C : FindRepr(c, m) = FindRepr(c, k)
  BY <1>5 DEF Represented
<1>7. m \in LITS
  BY DEF ProperClause
<1>8. m \in M <=> k \in M
  BY <1>3, <1>6, <1>7, MergedInModels, SameRepr
<1> QED
  BY <1>2, <1>8 DEF Satisfies

LEMMA StoredElsewhere ==
  ASSUME NEW c, NEW C, NEW D, IsStored(c, C), IsStored(c, D), C # D,
         ~C.redundant, ~D.redundant
  PROVE  C.lits # D.lits
<1>1. C.redundant = FALSE /\ D.redundant = FALSE
  BY DEF IsStored
<1> QED
  BY <1>1 DEF IsStored

LEMMA RemoveClauseInv ==
  ASSUME Inv, pc = "subsume", UNCHANGED <<problem, pc, connected>>,
         NEW C \in todo, todo' = todo \ {C}, Subsuming(C) # {}, RemoveClause(C)
  PROVE  Inv'
<1> DEFINE F == Originals
           y == closure.redundant \ {C.lits}
           x == closure.irredundant \ {C.lits}
           d == closure'
<1>1. /\ Sane(F, closure) /\ Committed(closure) /\ FaithfulTo(F, closure)
      /\ IsClosure(closure) /\ problem \in Problems /\ ~closure.inconsistent
      /\ \A D \in todo \cup ConnectedClauses : IsStored(closure, D)
      /\ todo \cap ConnectedClauses = {}
  BY DEF Inv, Sane, Shape, ClausesStored
<1>2. PICK D \in ConnectedClauses : /\ D.redundant => C.redundant
                                    /\ Represented(D.lits) \subseteq Represented(C.lits)
  BY DEF Subsuming, Connected, ConnectedClauses
<1>3. d = IF C.redundant THEN SetRedundant(closure, y) ELSE SetIrredundant(closure, x)
  BY DEF RemoveClause, SetRedundant, SetIrredundant
<1>4. /\ Loses(closure, d)
      /\ C.redundant => d.irredundant = closure.irredundant
      /\ ~C.redundant => d.irredundant = x
  <2>1. x \subseteq closure.irredundant /\ y \subseteq closure.redundant
    OBVIOUS
  <2> HIDE DEF x, y, d
  <2>2. CASE C.redundant
    BY <1>1, <1>3, <2>1, <2>2, SetRedundantFacts DEF Loses
  <2>3. CASE ~C.redundant
    BY <1>1, <1>3, <2>1, <2>3, SetIrredundantFacts DEF Loses
  <2> QED
    BY <2>2, <2>3
<1>5. IsStored(closure, C) /\ IsStored(closure, D) /\ C # D
  BY <1>1
<1> HIDE DEF d
<1>6. \A E \in closure.irredundant \ d.irredundant :
        ~C.redundant /\ E = C.lits /\ Cardinality(E) > 2
  BY <1>4, <1>5 DEF IsStored
<1>7. Sane(F, d) /\ Committed(d)
  <2>1. \A E \in closure.irredundant \ d.irredundant : Cardinality(E) # 2
    BY <1>6
  <2> QED
    BY <1>1, <1>4, <2>1, LosesSane, LosesCommitted
<1>8. d.fixed = closure.fixed /\ d.repr = closure.repr /\ ~d.inconsistent
  BY <1>1, <1>4 DEF Loses, SameValues, SameMerges
<1>9. ASSUME NEW E \in todo \cup ConnectedClauses, E # C
      PROVE  IsStored(d, E)
  <2>1. IsStored(closure, E)
    BY <1>1
  <2>2. ~E.redundant /\ ~C.redundant => E.lits # C.lits
    BY <1>5, <1>9, <2>1, StoredElsewhere
  <2> QED
    BY <1>4, <2>1, <2>2 DEF IsStored
<1>10. FaithfulTo(F, d)
  <2>1. ASSUME NEW E \in closure.irredundant \ d.irredundant, NEW M \in ModelsOf(Formula(d))
        PROVE  Satisfies(M, E)
    <3>1. ~C.redundant /\ E = C.lits
      BY <1>6
    <3>2. ~D.redundant /\ IsStored(d, D)
      BY <1>2, <1>5, <1>9, <3>1
    <3>3. D.lits \in d.irredundant
      BY <3>2 DEF IsStored
    <3>4. ProperClause(E)
      BY <1>1, ClauseFacts
    <3> QED
      BY <1>1, <1>2, <1>7, <1>8, <3>1, <3>3, <3>4, OriginalModels, SubsumedHolds
  <2> QED
    BY <1>1, <1>4, <2>1, LosesFaithful
<1>11. /\ F = Originals' /\ problem' \in Problems
       /\ ConnectedClauses' = ConnectedClauses /\ todo' = todo \ {C}
  BY <1>1 DEF Originals, ConnectedClauses
<1>12. GatesFound' /\ OccurrencesLead'
  BY DEF GatesFound, OccurrencesLead
<1>13. ClausesStored'
  BY <1>1, <1>5, <1>8, <1>9, <1>11 DEF ClausesStored, d
<1> HIDE DEF F
<1> QED
  BY <1>7, <1>10, <1>11, <1>12, <1>13 DEF Inv, d

LEMMA ConnectClauseInv ==
  ASSUME Inv, pc = "subsume", UNCHANGED <<problem, pc, closure>>,
         NEW C \in todo, todo' = todo \ {C}, NEW l, connected' = connected \cup {<<l, C>>}
  PROVE  Inv'
<1>1. ConnectedClauses' = ConnectedClauses \cup {C}
  <2>1. <<l, C>>[2] = C
    OBVIOUS
  <2> DEFINE p == <<l, C>>
  <2> HIDE DEF p
  <2>2. connected' = connected \cup {p} /\ p[2] = C
    BY <2>1 DEF p
  <2> QED
    BY <2>2 DEF ConnectedClauses
<1>2. ClausesStored'
  BY <1>1 DEF Inv, ClausesStored
<1>3. GatesFound' /\ OccurrencesLead'
  BY DEF GatesFound, OccurrencesLead
<1> QED
  BY <1>2, <1>3 DEF Inv, Originals

LEMMA ForwardSubsumeInv ==
  ASSUME Inv, ForwardSubsume
  PROVE  Inv'
<1>1. /\ pc = "subsume" /\ UNCHANGED <<problem, pc>>
      /\ \E C \in todo : /\ todo' = todo \ {C}
                         /\ \/ /\ Subsuming(C) # {} /\ RemoveClause(C)
                               /\ connected' = connected
                            \/ /\ \E l \in LeastOccurring(C) : connected' = connected \cup {<<l, C>>}
                               /\ closure' = closure
  BY DEF ForwardSubsume, Ready, Smallest
<1> QED
  BY <1>1, RemoveClauseInv, ConnectClauseInv

LEMMA NextInv ==
  ASSUME Inv, [Next]_vars
  PROVE  Inv'
<1>1. CASE UNCHANGED vars
  BY <1>1, StutterInv DEF vars
<1>2. CASE Terminate
  BY <1>2, StutterInv DEF Terminate
<1>3. CASE ExtractBinaries
  BY <1>3, ExtractBinariesInv
<1>4. CASE ExtractAnd
  BY <1>4, ExtractGateInv DEF ExtractAnd, Ready
<1>5. CASE ExtractXor
  BY <1>5, ExtractGateInv DEF ExtractXor, Ready
<1>6. CASE ExtractIte
  BY <1>6, ExtractIteInv
<1>7. CASE EndExtraction
  BY <1>7, EndExtractionInv
<1>8. CASE FindUnits
  BY <1>8, FindUnitsInv
<1>9. CASE FindEquivalences
  BY <1>9, FindEquivalencesInv
<1>10. CASE Continue
  BY <1>10, ContinueInv
<1>11. CASE PropagateUnit
  BY <1>11, PropagateUnitInv
<1>12. CASE PropagateEquivalence
  BY <1>12, PropagateEquivalenceInv
<1>13. CASE SimplifyOne
  BY <1>13, SimplifyOneInv
<1>14. CASE RewriteOne
  BY <1>14, RewriteOneInv
<1>15. CASE ReleaseOccurrences
  BY <1>15, ReleaseOccurrencesInv
<1>16. CASE Inconsistent
  BY <1>16, StopInv DEF Inconsistent, Stop
<1>17. CASE EndPropagation
  BY <1>17, EndPropagationInv
<1>18. CASE ForwardSubsume
  BY <1>18, ForwardSubsumeInv
<1>19. CASE EndSubsumption
  BY <1>19, StopInv DEF EndSubsumption, Stop
<1>20. CASE Done
  BY <1>20, StutterInv DEF Done, vars
<1> QED
  BY <1>1, <1>2, <1>3, <1>4, <1>5, <1>6, <1>7, <1>8, <1>9, <1>10, <1>11, <1>12, <1>13, <1>14,
     <1>15, <1>16, <1>17, <1>18, <1>19, <1>20 DEF Next

-----------------------------------------------------------------------------
(***************************************************************************)
(* Everything that the clauses, the representatives and the gates say is a *)
(* consequence of the original formula, merged literals are equivalent by  *)
(* the binary clauses and units alone, and no clause is lost that is not   *)
(* implied by what is left.                                                *)
(***************************************************************************)
THEOREM InvariantHolds == Spec => []Inv
BY InitInv, NextInv, PTL DEF Spec

(***************************************************************************)
(* kissat_congruence replaces the formula by an equivalent one, through    *)
(* extracted binary clauses, units, merges and the removal of clauses that *)
(* are subsumed only modulo the merges, and derives the empty clause only  *)
(* if the formula is unsatisfiable.                                        *)
(***************************************************************************)
THEOREM FormulaStaysEquivalent == Spec => []ClausesEquivalent
<1>1. ASSUME Inv PROVE ClausesEquivalent
  <2>1. /\ Sane(Originals, closure) /\ FaithfulTo(Originals, closure)
        /\ Originals \in SUBSET Models
    BY OriginalModels, <1>1 DEF Inv
  <2>2. CASE closure.inconsistent
    <3>1. Originals = {}
      BY <2>1, <2>2 DEF Sane, Consequences
    <3> QED
      BY <2>2, <3>1 DEF ClausesEquivalent, Satisfiable, Originals
  <2>3. CASE ~closure.inconsistent
    <3>1. ModelsOf(Formula(closure)) \subseteq Originals
      BY <2>1, <2>3 DEF FaithfulTo
    <3>2. ASSUME NEW M \in Originals PROVE M \in ModelsOf(Formula(closure))
      <4>1. M \in Models /\ closure.fixed \subseteq M
        BY <2>1 DEF Sane, Consequences, SatisfyLits
      <4>2. \A C \in closure.irredundant : Satisfies(M, C)
        BY <2>1 DEF Sane, Consequences, SatisfyAll, SatisfiesAll
      <4>3. \A C \in Formula(closure) : Satisfies(M, C)
        BY <4>1, <4>2 DEF Formula, Satisfies
      <4> QED
        BY <4>1, <4>3 DEF ModelsOf
    <3>3. ModelsOf(Formula(closure)) = Originals
      BY <3>1, <3>2
    <3> QED
      BY <2>3, <3>3 DEF ClausesEquivalent, Originals
  <2> QED
    BY <2>2, <2>3
<1> QED
  BY <1>1, InvariantHolds, PTL

(***************************************************************************)
(* Every gate that is not garbage and every merge of two literals follows  *)
(* from the original formula, after any sequence of simplifications and    *)
(* rewrites of the gates.                                                  *)
(***************************************************************************)
THEOREM GatesStayImplied == Spec => []GatesImplied
<1>1. ASSUME Inv PROVE GatesImplied
  <2>1. Merged(Originals, closure.repr) /\ HoldGates(Originals, closure.gates)
    BY <1>1 DEF Inv, Sane, Consequences
  <2>2. ASSUME NEW M \in Originals
        PROVE  /\ \A g \in Live(closure) : GateHolds(M, closure.gates[g])
               /\ \A l \in LITS : l \in M <=> closure.repr[l] \in M
    BY <2>1 DEF Merged, Equivalent, HoldGates, Live
  <2> QED
    BY <2>2 DEF GatesImplied, Originals
<1> QED
  BY <1>1, InvariantHolds, PTL

-----------------------------------------------------------------------------
(***************************************************************************)
(* Congruence closure is complete: when nothing is left to propagate, the  *)
(* gates have unassigned representatives as inputs and no two of them are  *)
(* the same function of the same inputs.  This rests on the occurrences    *)
(* and the schedule, and on unit propagation, which lets no conjunction    *)
(* lose all of its inputs: the state is looked at from every set of        *)
(* literals that is closed under propagation in the irredundant clauses.   *)
(***************************************************************************)

(* What unit propagation knows. *)

(* No literal of the clause is left to be assigned by it. *)
Upholds(G, C) == \A l \in C : (\A k \in C \ {l} : NOT(k) \in G) => l \in G

Contradicts(G) == \E l \in G : NOT(l) \in G

(* The sets of literals that unit propagation may end with. *)
Propagated(c) ==
  {G \in SUBSET LITS : /\ c.fixed \subseteq G
                       /\ ~Contradicts(G)
                       /\ \A C \in c.irredundant : Upholds(G, C)}

(* The root level is propagated, and so are merged literals. *)
UpWell(c) == c.fixed \in Propagated(c) /\ Merged(Propagated(c), c.repr)

Ternary(G, a, b, k) ==
  /\ NOT(a) \in G /\ NOT(b) \in G => k \in G
  /\ NOT(a) \in G /\ NOT(k) \in G => b \in G
  /\ NOT(b) \in G /\ NOT(k) \in G => a \in G

AndUpheld(G, lhs, S) == S \subseteq G => lhs \in G

IteUpheld(G, lhs, cond, t, e) ==
  /\ Ternary(G, NOT(cond), NOT(t), lhs) /\ Ternary(G, NOT(cond), t, NOT(lhs))
  /\ Ternary(G, cond, NOT(e), lhs) /\ Ternary(G, cond, e, NOT(lhs))

(* What propagation in the clauses knows about a gate. *)
GateUpheld(c, gate) ==
  \A G \in Propagated(c) :
    /\ gate.tag = "and" => AndUpheld(G, gate.lhs, ToSet(gate.rhs))
    /\ gate.tag = "ite" => IteUpheld(G, gate.lhs, gate.rhs[1], gate.rhs[2], gate.rhs[3])

-----------------------------------------------------------------------------
(* What is still to be done. *)

SchedVars(c) == {IDX(k) : k \in ToSet(c.schedule)}

(* A literal that has a value or was merged will be replaced. *)
Pend(c, k) ==
  /\ Valued(c, k) => k \in c.units \/ NOT(k) \in c.units
  /\ c.repr[k] # k => IDX(k) \in SchedVars(c)

AllScheduled(c) == \A l \in LITS : c.repr[l] # l => IDX(l) \in SchedVars(c)

SameInputs(entry, gate) == entry.tag = gate.tag /\ entry.rhs = gate.rhs

Unique(c) == \A g, h \in Live(c) : SameInputs(c.gates[g], c.gates[h]) => g = h

(* The inputs of a gate lead to it, and those that are not of the variable
   x, which is being replaced, are replaced later if they have to be. *)
Fine(c, x, g) ==
  /\ GateUpheld(c, c.gates[g])
  /\ \A k \in ToSet(c.gates[g].rhs) : g \in c.occurrences[k] /\ (IDX(k) = x \/ Pend(c, k))

AllFine(c, x) == \A g \in Live(c) : Fine(c, x, g)

AllNormalized(c) == \A g \in DOMAIN c.gates : Normalized(c.gates[g])

(* A gate that was found and not added yet. *)
FoundFine(c, gate) ==
  /\ Normalized(gate)
  /\ GateUpheld(c, gate)
  /\ \A k \in ToSet(gate.rhs) : Pend(c, k)

IteFoundFine(c, ite) ==
  /\ \A G \in Propagated(c) : IteUpheld(G, ite[1], ite[2], ite[3], ite[4])
  /\ \A i \in {2, 3, 4} : Pend(c, ite[i])

-----------------------------------------------------------------------------
(* The invariant. *)

Phases == {"binaries", "ands", "xors", "ites", "units", "equivalences",
           "merge", "propagate", "simplify", "rewrite", "subsume", "done"}

Extracting == {"binaries", "ands", "xors", "ites", "units", "equivalences"}

Replacing == {"simplify", "rewrite"}

Closing(phase, c) == phase \notin {"subsume", "done"} /\ ~c.inconsistent

Replaced(phase, w) == IF phase \in Replacing THEN IDX(w[1][1]) ELSE NoLit

(* The gates that are still to be looked at are all with the literal that is
   being replaced, and none has its negation if that was replaced before. *)
StageFine(c, w, gates) ==
  \A g \in Live(c) : \A k \in ToSet(c.gates[g].rhs) :
    /\ k = w[1][1] => g \in gates
    /\ Len(w) = 1 => k # NOT(w[1][1])

RewritingFine(c, src, dst) ==
  /\ dst \in LITS /\ IDX(src) # IDX(dst)
  /\ Pend(c, dst)
  /\ Equivalent(Propagated(c), src, dst)
  /\ Equivalent(Propagated(c), NOT(src), NOT(dst))

WorkFine(phase, c, w) ==
  \E l \in LITS :
    /\ phase = "simplify" =>
         Valued(c, l) /\ w \in {Both(l, NoLit, NoLit), Second(l, NoLit)}
    /\ phase = "rewrite" =>
         \E d \in LITS : /\ RewritingFine(c, l, d)
                         /\ w \in {Both(l, d, NOT(d)), Second(l, NOT(d))}

ClosureFine(phase, c, found, w) ==
  /\ UpWell(c)
  /\ Unique(c)
  /\ AllFine(c, Replaced(phase, w))
  /\ phase \in Extracting => AllScheduled(c)
  /\ phase \in {"ands", "xors"} => \A gate \in found : FoundFine(c, gate)
  /\ phase = "ites" => \A ite \in found : IteFoundFine(c, ite)
  /\ phase \in Replacing => WorkFine(phase, c, w) /\ StageFine(c, w, found)

Complete ==
  /\ terminated \in BOOLEAN /\ pc \in Phases
  /\ AllNormalized(closure)
  /\ Closing(pc, closure) => ClosureFine(pc, closure, todo, work)

-----------------------------------------------------------------------------
(* Normal forms. *)

LEMMA SortedOnce ==
  ASSUME NEW S \in SUBSET LITS
  PROVE  \A i, j \in 1..Len(SortLits(S)) : i # j => SortLits(S)[i] # SortLits(S)[j]
<1> DEFINE s == SortLits(S)
           n == Cardinality(S)
<1>1. s \in Seq(LITS) /\ Len(s) = n /\ ToSet(s) = S
  BY SortedLits
<1>2. n \in Nat /\ IsFiniteSet(S)
  BY LitsFinite, FS_CardinalityType
<1> HIDE DEF s
<1>3. s \in Surjection(1..n, S)
  <2>1. s \in [1..n -> S]
    BY <1>1 DEF ToSet
  <2>2. \A x \in S : \E i \in 1..n : s[i] = x
    BY <1>1 DEF ToSet
  <2> HIDE DEF n
  <2> QED
    BY <2>1, <2>2 DEF Surjection
<1>4. IsFiniteSet(1..n) /\ Cardinality(1..n) = n
  <2> HIDE DEF n
  <2>1. 1 \in Int /\ n \in Int
    BY <1>2
  <2> QED
    BY <1>2, <2>1, FS_Interval
<1>5. s \in Injection(1..n, S)
  BY <1>3, <1>4, FS_SurjSameCardinalityImpliesInj
<1> HIDE DEF n
<1>6. \A i, j \in 1..n : i # j => s[i] # s[j]
  BY <1>5 DEF Injection, IsInjective
<1> QED
  BY <1>1, <1>6 DEF s

DifferentVars(S) == \A k, l \in S : k # l => IDX(k) # IDX(l)

LEMMA SortedNormal ==
  ASSUME NEW S \in SUBSET LITS, DifferentVars(S), Len(SortLits(S)) > 1, NEW lhs
  PROVE  /\ Normalized(Gate("and", lhs, SortLits(S)))
         /\ S \subseteq Vars => Normalized(Gate("xor", lhs, SortLits(S)))
<1> DEFINE s == SortLits(S)
<1>1. s \in Seq(LITS) /\ ToSet(s) = S /\ \A i, j \in 1..Len(s) : i # j => s[i] # s[j]
  BY SortedLits, SortedOnce
<1>2. s = SortLits(ToSet(s)) /\ Len(s) > 1
  BY <1>1
<1> HIDE DEF s
<1>3. \A i, j \in 1..Len(s) : i # j => IDX(s[i]) # IDX(s[j])
  <2>1. \A i \in 1..Len(s) : s[i] \in S
    BY <1>1 DEF ToSet
  <2> QED
    BY <1>1, <2>1 DEF DifferentVars
<1> DEFINE gate(tag) == Gate(tag, lhs, s)
<1>6. \A tag : gate(tag).tag = tag /\ gate(tag).rhs = s
  BY GateFields
<1> HIDE DEF gate
<1>4. Normalized(gate("and"))
  <2>1. gate("and").tag = "and" /\ gate("and").rhs = s
    BY <1>6
  <2> QED
    BY <1>2, <1>3, <2>1 DEF Normalized
<1>5. S \subseteq Vars => Normalized(gate("xor"))
  <2>1. gate("xor").tag = "xor" /\ gate("xor").rhs = s
    BY <1>6
  <2> QED
    BY <1>1, <1>2, <1>3, <2>1 DEF Normalized
<1> QED
  BY <1>4, <1>5 DEF s, gate

LEMMA NormalOfSame ==
  ASSUME NEW gate, NEW other, SameInputs(gate, other), Normalized(gate)
  PROVE  Normalized(other)
BY DEF SameInputs, Normalized

LEMMA IteNormal ==
  ASSUME NEW lhs \in LITS, NEW cond \in LITS, NEW t \in LITS, NEW e \in LITS,
         IDX(cond) # IDX(t), IDX(cond) # IDX(e), IDX(t) # IDX(e)
  PROVE  /\ Normalized(NormalizedIte(lhs, cond, t, e))
         /\ NormalizedIte(lhs, cond, t, e).tag = "ite"
         /\ ToSet(NormalizedIte(lhs, cond, t, e).rhs) \subseteq LITS
         /\ \A k \in ToSet(NormalizedIte(lhs, cond, t, e).rhs) : IDX(k) \in {IDX(cond), IDX(t), IDX(e)}
<1> DEFINE gate == NormalizedIte(lhs, cond, t, e)
<1> DEFINE fits(u, a, b, d) ==
             /\ gate = Gate("ite", u, <<a, b, d>>)
             /\ a > 0 /\ b > 0 /\ IDX(a) = IDX(cond)
             /\ {IDX(b), IDX(d)} = {IDX(t), IDX(e)}
             /\ IDX(a) # IDX(b) /\ IDX(a) # IDX(d) /\ IDX(b) # IDX(d)
<1>1. \E u \in LITS, a \in LITS, b \in LITS, d \in LITS : fits(u, a, b, d)
  <2> DEFINE x == IF NEGATED(cond) THEN e ELSE t
             y == IF NEGATED(cond) THEN t ELSE e
  <2>1. x \in LITS /\ y \in LITS /\ {IDX(x), IDX(y)} = {IDX(t), IDX(e)} /\ IDX(x) # IDX(y)
        /\ IDX(cond) # IDX(x) /\ IDX(cond) # IDX(y)
    OBVIOUS
  <2>2. gate = IF NEGATED(x) THEN Gate("ite", NOT(lhs), <<STRIP(cond), NOT(x), NOT(y)>>)
               ELSE Gate("ite", lhs, <<STRIP(cond), x, y>>)
    BY DEF NormalizedIte
  <2> HIDE DEF x, y, gate
  <2>3. STRIP(cond) \in LITS /\ STRIP(cond) > 0 /\ IDX(STRIP(cond)) = IDX(cond)
    BY LitFacts, VarFacts, VarsAssumption DEF STRIP
  <2>4. CASE NEGATED(x)
    <3>1. NOT(x) \in LITS /\ NOT(x) > 0 /\ IDX(NOT(x)) = IDX(x)
          /\ NOT(y) \in LITS /\ IDX(NOT(y)) = IDX(y) /\ NOT(lhs) \in LITS
      BY <2>1, <2>4, LitFacts DEF NEGATED, NOT
    <3>2. {IDX(NOT(x)), IDX(NOT(y))} = {IDX(t), IDX(e)}
      BY <2>1, <3>1
    <3>3. gate = Gate("ite", NOT(lhs), <<STRIP(cond), NOT(x), NOT(y)>>)
      BY <2>2, <2>4
    <3>4. fits(NOT(lhs), STRIP(cond), NOT(x), NOT(y))
      BY <2>1, <2>3, <3>1, <3>2, <3>3
    <3> HIDE DEF fits
    <3> QED
      BY <2>3, <3>1, <3>4
  <2>5. CASE ~NEGATED(x)
    <3>1. x > 0
      BY <2>1, <2>5, LitFacts DEF NEGATED
    <3>2. gate = Gate("ite", lhs, <<STRIP(cond), x, y>>)
      BY <2>2, <2>5
    <3>3. fits(lhs, STRIP(cond), x, y)
      BY <2>1, <2>3, <3>1, <3>2
    <3> HIDE DEF fits
    <3> QED
      BY <2>1, <2>3, <3>3
  <2> QED
    BY <2>4, <2>5
<1> HIDE DEF gate
<1> HIDE DEF fits
<1>7. PICK u \in LITS, a \in LITS, b \in LITS, d \in LITS : fits(u, a, b, d)
  BY <1>1
<1>2. /\ gate = Gate("ite", u, <<a, b, d>>)
      /\ a > 0 /\ b > 0 /\ IDX(a) = IDX(cond)
      /\ {IDX(b), IDX(d)} = {IDX(t), IDX(e)}
      /\ IDX(a) # IDX(b) /\ IDX(a) # IDX(d) /\ IDX(b) # IDX(d)
  BY <1>7 DEF fits
<1>3. gate.tag = "ite" /\ gate.rhs = <<a, b, d>>
  BY <1>2, GateFields
<1>4. Len(gate.rhs) = 3 /\ gate.rhs[1] = a /\ gate.rhs[2] = b /\ gate.rhs[3] = d
  BY <1>3
<1>5. ToSet(gate.rhs) = {a, b, d}
  BY <1>3 DEF ToSet
<1>6. Normalized(gate)
  <2>2. IDX(a) # IDX(b) /\ IDX(a) # IDX(d) /\ IDX(b) # IDX(d)
    BY <1>2
  <2>3. \A i \in 1..3 : i = 1 \/ i = 2 \/ i = 3
    OBVIOUS
  <2>1. \A i, j \in 1..3 : i # j => IDX(gate.rhs[i]) # IDX(gate.rhs[j])
    <3> SUFFICES ASSUME NEW i \in 1..3, NEW j \in 1..3, i # j
                 PROVE  IDX(gate.rhs[i]) # IDX(gate.rhs[j])
      OBVIOUS
    <3> HIDE DEF gate
    <3>1. CASE i = 1
      BY <1>4, <2>2, <2>3, <3>1
    <3>2. CASE i = 2
      BY <1>4, <2>2, <2>3, <3>2
    <3>3. CASE i = 3
      BY <1>4, <2>2, <2>3, <3>3
    <3> QED
      BY <2>3, <3>1, <3>2, <3>3
  <2>4. gate.tag = "ite" /\ Len(gate.rhs) = 3 /\ gate.rhs[1] > 0 /\ gate.rhs[2] > 0
    BY <1>2, <1>3, <1>4
  <2> HIDE DEF gate
  <2> QED
    BY <2>1, <2>4 DEF Normalized
<1> QED
  BY <1>2, <1>3, <1>5, <1>6 DEF gate

-----------------------------------------------------------------------------
(* Propagation in more clauses leaves fewer sets. *)

LEMMA PropagatedGrows ==
  ASSUME NEW c, NEW d, c.irredundant \subseteq d.irredundant, c.fixed \subseteq d.fixed
  PROVE  Propagated(d) \subseteq Propagated(c)
BY DEF Propagated

LEMMA PropagatedFacts ==
  ASSUME NEW c, NEW G \in Propagated(c)
  PROVE  /\ G \in SUBSET LITS /\ c.fixed \subseteq G
         /\ \A l \in LITS : ~ (l \in G /\ NOT(l) \in G)
         /\ \A C \in c.irredundant : Upholds(G, C)
BY DEF Propagated, Contradicts

LEMMA MergedGrows ==
  ASSUME NEW F, NEW H, H \subseteq F
  PROVE  /\ \A r : Merged(F, r) => Merged(H, r)
         /\ \A k, l : Equivalent(F, k, l) => Equivalent(H, k, l)
BY DEF Merged, Equivalent

LEMMA UpheldGrows ==
  ASSUME NEW c, NEW d, Propagated(d) \subseteq Propagated(c)
  PROVE  \A gate : GateUpheld(c, gate) => GateUpheld(d, gate)
BY DEF GateUpheld

(* The literals that propagation adds are those of a closed set. *)
LEMMA ImplicationsUphold ==
  ASSUME NEW Cs \in SUBSET (SUBSET LITS), NEW G \in SUBSET LITS
  PROVE  \A C \in Cs : Upholds(Implications(Cs, G), C)
<1> DEFINE I == Implications(Cs, G)
<1>1. ImpliedLits(Cs, I) = {}
  BY ImplicationsFacts
<1> HIDE DEF I
<1> QED
  BY <1>1 DEF Upholds, ImpliedLits, I

-----------------------------------------------------------------------------
(* Learning and merging advance the closure. *)

Progress(c, d) ==
  /\ UpWell(d)
  /\ c.units \subseteq d.units
  /\ d.fixed \ c.fixed \subseteq d.units
  /\ SchedVars(c) \subseteq SchedVars(d)
  /\ \A l \in LITS : d.repr[l] # l => c.repr[l] # l \/ IDX(l) \in SchedVars(d)

Advances(c, d) == Extends(c, d) /\ (~d.inconsistent => Progress(c, d))

Healthy(c) == c.inconsistent \/ UpWell(c)

LEMMA AdvancesItself ==
  ASSUME NEW c, Healthy(c)
  PROVE  Advances(c, c)
BY DEF Advances, Extends, Progress, Healthy

LEMMA AdvancesTransitive ==
  ASSUME NEW c, NEW d, NEW e, Advances(c, d), Advances(d, e)
  PROVE  Advances(c, e)
<1>1. Extends(c, e)
  BY DEF Advances, Extends
<1>2. ASSUME ~e.inconsistent
      PROVE  Progress(c, e)
  <2>1. ~d.inconsistent
    BY <1>2 DEF Advances, Extends
  <2>2. Progress(c, d) /\ Progress(d, e)
    BY <1>2, <2>1 DEF Advances
  <2>3. e.fixed \ c.fixed \subseteq e.units
    BY <2>2 DEF Progress
  <2>4. \A l \in LITS : e.repr[l] # l => c.repr[l] # l \/ IDX(l) \in SchedVars(e)
    BY <2>2 DEF Progress
  <2> QED
    BY <2>2, <2>3, <2>4 DEF Progress
<1> QED
  BY <1>1, <1>2 DEF Advances

LEMMA StaysHealthy ==
  ASSUME NEW c, NEW d, Advances(c, d)
  PROVE  Healthy(d)
BY DEF Advances, Progress, Healthy

LEMMA PendStays ==
  ASSUME NEW c, NEW d, Advances(c, d), ~d.inconsistent, NEW k \in LITS, Pend(c, k)
  PROVE  Pend(d, k)
<1>1. Progress(c, d) /\ c.fixed \subseteq d.fixed
  BY DEF Advances, Extends
<1>2. ASSUME Valued(d, k)
      PROVE  k \in d.units \/ NOT(k) \in d.units
  <2>1. CASE Valued(c, k)
    BY <1>1, <2>1 DEF Pend, Progress
  <2>2. CASE ~Valued(c, k)
    BY <1>1, <1>2, <2>2 DEF Progress, Valued, IsTrue, IsFalse
  <2> QED
    BY <2>1, <2>2
<1>3. ASSUME d.repr[k] # k
      PROVE  IDX(k) \in SchedVars(d)
  BY <1>1, <1>3 DEF Pend, Progress
<1> QED
  BY <1>2, <1>3 DEF Pend

LEMMA PendNegated ==
  ASSUME NEW c, ReprOK(c.repr), NEW k \in LITS, Pend(c, k)
  PROVE  Pend(c, NOT(k))
<1>1. NOT(k) \in LITS /\ NOT(NOT(k)) = k /\ IDX(NOT(k)) = IDX(k)
  BY LitFacts
<1>2. c.repr[NOT(k)] = NOT(c.repr[k])
  BY DEF ReprOK
<1> QED
  BY <1>1, <1>2 DEF Pend, Valued, IsTrue, IsFalse

LEMMA UpheldStays ==
  ASSUME NEW c, NEW d, Advances(c, d)
  PROVE  /\ Propagated(d) \subseteq Propagated(c)
         /\ \A gate : GateUpheld(c, gate) => GateUpheld(d, gate)
<1>1. Propagated(d) \subseteq Propagated(c)
  BY PropagatedGrows DEF Advances, Extends
<1> QED
  BY <1>1, UpheldGrows

(* A literal that is learned is propagated; nothing is merged. *)
LEMMA LearnUnitAdvances ==
  ASSUME NEW c, Shape(c), Healthy(c), NEW unit \in LITS
  PROVE  /\ Advances(c, LearnUnit(c, unit))
         /\ LearnUnit(c, unit).inconsistent \/ unit \in LearnUnit(c, unit).fixed
<1> DEFINE d == LearnUnit(c, unit)
           Cs == c.irredundant \cup c.redundant
           G == c.fixed \cup {unit}
           I == Implications(Cs, G)
           U == c.units \cup (I \ c.fixed)
<1>1. /\ Cs \in SUBSET (SUBSET LITS) /\ G \in SUBSET LITS
      /\ IsClosure(c) /\ c.fixed \in SUBSET LITS
  BY DEF Shape, ProperClauses, ProperClause
<1>2. I \in SUBSET LITS /\ G \subseteq I /\ \A C \in Cs : Upholds(I, C)
  <2> HIDE DEF Cs, G
  <2> QED
    BY <1>1, ImplicationsFacts, ImplicationsUphold
<1>3. unit \in I /\ c.fixed \subseteq I
  <2> HIDE DEF I
  <2> QED
    BY <1>2
<1>4. d = IF IsTrue(c, unit) THEN c
          ELSE IF IsFalse(c, unit) \/ Conflicting(Cs, I) THEN SetInconsistent(c, TRUE)
          ELSE SetUnits(SetFixed(c, I), U)
  <2> HIDE DEF I
  <2>1. SetUnits(SetFixed(c, I), U) = [c EXCEPT !.fixed = I, !.units = U]
    BY DEF SetUnits, SetFixed
  <2>2. SetUnits(SetFixed(c, I), U) = [c EXCEPT !.fixed = I, !.units = @ \cup (I \ c.fixed)]
    BY <2>1
  <2> QED
    BY <2>2 DEF LearnUnit, SetInconsistent, I
<1>5. CASE IsTrue(c, unit)
  BY <1>4, <1>5, AdvancesItself DEF IsTrue
<1>6. CASE ~IsTrue(c, unit) /\ (IsFalse(c, unit) \/ Conflicting(Cs, I))
  <2>1. d = SetInconsistent(c, TRUE)
    BY <1>4, <1>6
  <2> HIDE DEF d
  <2>2. d.inconsistent /\ SameClauses(c, d) /\ SameGates(c, d) /\ d.fixed = c.fixed
    BY <1>1, <2>1, SetInconsistentFacts
  <2>3. Advances(c, d) /\ d.inconsistent
    BY <2>2 DEF Advances, Extends, SameClauses, SameGates
  <2> QED
    BY <2>3 DEF d
<1>7. CASE ~IsTrue(c, unit) /\ ~ (IsFalse(c, unit) \/ Conflicting(Cs, I))
  <2> DEFINE e == SetFixed(c, I)
             f == SetUnits(e, U)
  <2>0. ~Contradicts(I)
    BY <1>7 DEF Conflicting, Contradicts
  <2>10. U = c.units \cup (I \ c.fixed)
    OBVIOUS
  <2>11. c.irredundant \subseteq Cs
    OBVIOUS
  <2> HIDE DEF I, U, Cs
  <2>1. d = f
    BY <1>4, <1>7
  <2>2. /\ IsClosure(e) /\ e.fixed = I /\ SameClauses(c, e) /\ SameMerges(c, e)
        /\ SameGates(c, e) /\ e.inconsistent = c.inconsistent
    BY <1>1, SetFixedFacts
  <2> HIDE DEF e
  <2>3. /\ f.fixed = I /\ f.units = U /\ SameClauses(e, f) /\ SameMerges(e, f)
        /\ SameGates(e, f) /\ f.inconsistent = e.inconsistent
    BY <2>2, SetUnitsFacts
  <2> HIDE DEF f, d
  <2>4. /\ d.fixed = I /\ d.units = U /\ d.irredundant = c.irredundant
        /\ d.repr = c.repr /\ d.schedule = c.schedule /\ d.inconsistent = c.inconsistent
        /\ d.gates = c.gates /\ d.occurrences = c.occurrences
    BY <2>1, <2>2, <2>3 DEF SameClauses, SameMerges, SameGates
  <2>5. Extends(c, d)
    BY <1>3, <2>4 DEF Extends
  <2>6. ASSUME ~d.inconsistent
        PROVE  Progress(c, d)
    <3>1. I \in Propagated(d)
      BY <1>2, <2>0, <2>4, <2>11 DEF Propagated
    <3>2. Propagated(d) \subseteq Propagated(c)
      BY <2>5, PropagatedGrows DEF Extends
    <3>3. Merged(Propagated(c), c.repr)
      BY <2>4, <2>6 DEF Healthy, UpWell
    <3>4. UpWell(d)
      BY <2>4, <3>1, <3>2, <3>3, MergedGrows DEF UpWell
    <3>5. SchedVars(d) = SchedVars(c)
      BY <2>4 DEF SchedVars
    <3> QED
      BY <2>4, <2>10, <3>4, <3>5 DEF Progress
  <2>7. Advances(c, d) /\ unit \in d.fixed
    BY <1>3, <2>4, <2>5, <2>6 DEF Advances
  <2> QED
    BY <2>7 DEF d
<1> QED
  BY <1>5, <1>6, <1>7

(* A binary clause, not both of whose literals are false. *)
LEMMA AddBinaryAdvances ==
  ASSUME NEW c, Shape(c), Healthy(c), NEW a \in LITS, NEW b \in LITS,
         ~c.inconsistent => ~ (IsFalse(c, a) /\ IsFalse(c, b))
  PROVE  Advances(c, AddBinary(c, a, b))
<1> DEFINE d == AddBinary(c, a, b)
           unchanged == c.inconsistent \/ a = NOT(b) \/ IsTrue(c, a) \/ IsTrue(c, b)
           first == a = b \/ (~IsFalse(c, a) /\ IsFalse(c, b))
           second == IsFalse(c, a) /\ ~IsFalse(c, b)
           Cs == c.irredundant \cup {{a, b}}
<1>1. d = IF unchanged THEN c ELSE IF first THEN LearnUnit(c, a)
          ELSE IF second THEN LearnUnit(c, b) ELSE SetIrredundant(c, Cs)
  BY DEF AddBinary, SetIrredundant
<1>2. CASE unchanged
  BY <1>1, <1>2, AdvancesItself
<1>3. CASE ~unchanged /\ (first \/ second)
  BY <1>1, <1>3, LearnUnitAdvances
<1>4. CASE ~unchanged /\ ~first /\ ~second
  <2>1. d = SetIrredundant(c, Cs)
    BY <1>1, <1>4
  <2>2. ~IsFalse(c, a) /\ ~IsFalse(c, b) /\ ~c.inconsistent /\ a # b
    BY <1>4
  <2>3. IsClosure(c) /\ c.irredundant \subseteq Cs
    BY DEF Shape
  <2>4. Cs = c.irredundant \cup {{a, b}}
    OBVIOUS
  <2> HIDE DEF d, Cs
  <2>5. /\ d.irredundant = Cs /\ SameValues(c, d) /\ SameMerges(c, d) /\ SameGates(c, d)
    BY <2>1, <2>3, SetIrredundantFacts
  <2>6. Extends(c, d)
    BY <2>3, <2>5 DEF Extends, SameValues, SameMerges, SameGates
  <2>7. UpWell(c)
    BY <2>2 DEF Healthy
  <2>8. Upholds(c.fixed, {a, b})
    BY <2>2 DEF Upholds, IsFalse
  <2>9. d.fixed \in Propagated(d)
    BY <2>4, <2>5, <2>7, <2>8 DEF UpWell, Propagated, SameValues
  <2>10. UpWell(d)
    <3>1. Propagated(d) \subseteq Propagated(c)
      BY <2>6, PropagatedGrows DEF Extends
    <3> QED
      BY <2>5, <2>7, <2>9, <3>1, MergedGrows DEF UpWell, SameMerges
  <2>11. Progress(c, d)
    BY <2>5, <2>10 DEF Progress, SameValues, SameMerges, SchedVars
  <2> QED
    BY <2>6, <2>11 DEF Advances, d
<1> QED
  BY <1>2, <1>3, <1>4

LEMMA SchedVarsOfSeq ==
  ASSUME NEW c, c.schedule \in Seq(LITS), NEW l \in LITS
  PROVE  /\ IDX(l) \in SchedVars(c) <=> \E k \in ToSet(c.schedule) : IDX(k) = IDX(l)
         /\ ToSet(Append(c.schedule, l)) = ToSet(c.schedule) \cup {l}
<1>1. IDX(l) \in SchedVars(c) <=> \E k \in ToSet(c.schedule) : IDX(k) = IDX(l)
  BY DEF SchedVars
<1> DEFINE s == c.schedule
           t == Append(s, l)
<1>2. s \in Seq(LITS)
  OBVIOUS
<1> HIDE DEF s
<1>3. /\ t \in Seq(LITS) /\ Len(t) = Len(s) + 1 /\ t[Len(s) + 1] = l
      /\ \A i \in 1..Len(s) : t[i] = s[i]
  BY <1>2
<1> HIDE DEF t
<1>4. Len(s) \in Nat
  BY <1>2
<1>5. ToSet(t) = ToSet(s) \cup {l}
  <2>1. ToSet(t) = {t[i] : i \in 1..Len(t)} /\ ToSet(s) = {s[i] : i \in 1..Len(s)}
    BY <1>2, <1>3 DEF ToSet
  <2>2. \A i : i \in 1..Len(t) <=> i \in 1..Len(s) \/ i = Len(s) + 1
    BY <1>3, <1>4
  <2> QED
    BY <1>3, <2>1, <2>2
<1> QED
  BY <1>1, <1>5 DEF s, t

(* FindRepr does not change what is propagated. *)
LEMMA FindReprUpheld ==
  ASSUME NEW c, Shape(c), UpWell(c), NEW l \in LITS
  PROVE  /\ FindRepr(c, l) \in LITS
         /\ Equivalent(Propagated(c), l, FindRepr(c, l))
         /\ Equivalent(Propagated(c), NOT(l), NOT(FindRepr(c, l)))
         /\ Valued(c, l) <=> Valued(c, FindRepr(c, l))
         /\ IsTrue(c, l) <=> IsTrue(c, FindRepr(c, l))
<1> DEFINE F == Propagated(c)
           N == {{NOT(k) : k \in G} : G \in F}
           r == FindRepr(c, l)
<1>1. ReprOK(c.repr) /\ Merged(F, c.repr) /\ c.fixed \in F
  BY DEF Shape, UpWell
<1>2. r \in LITS /\ Equivalent(F, l, r)
  BY <1>1, FindReprFacts
<1>3. \A G \in F : G \in SUBSET LITS
  BY PropagatedFacts
<1>4. \A G \in F : \A k \in LITS : k \in {NOT(m) : m \in G} <=> NOT(k) \in G
  BY <1>3, LitFacts
<1>5. Merged(N, c.repr)
  <2> SUFFICES ASSUME NEW k \in LITS, NEW G \in F
               PROVE  k \in {NOT(m) : m \in G} <=> c.repr[k] \in {NOT(m) : m \in G}
    BY DEF Merged, Equivalent
  <2>1. c.repr[k] \in LITS /\ c.repr[NOT(k)] = NOT(c.repr[k]) /\ NOT(k) \in LITS
    BY <1>1, LitFacts DEF ReprOK
  <2>2. NOT(k) \in G <=> c.repr[NOT(k)] \in G
    BY <1>1, <2>1 DEF Merged, Equivalent
  <2> QED
    BY <1>4, <2>1, <2>2
<1>6. Equivalent(N, l, r)
  <2> HIDE DEF N
  <2> QED
    BY <1>1, <1>5, FindReprFacts
<1>7. Equivalent(F, NOT(l), NOT(r))
  BY <1>2, <1>4, <1>6 DEF Equivalent
<1>8. l \in c.fixed <=> r \in c.fixed
  BY <1>1, <1>2 DEF Equivalent
<1>9. NOT(l) \in c.fixed <=> NOT(r) \in c.fixed
  BY <1>1, <1>7 DEF Equivalent
<1> QED
  BY <1>2, <1>7, <1>8, <1>9 DEF Valued, IsTrue, IsFalse

(* Two representatives without values are merged. *)
LEMMA UnionAdvances ==
  ASSUME NEW c, Shape(c), UpWell(c), ~c.inconsistent,
         NEW smaller \in LITS, NEW larger \in LITS,
         LessLit(smaller, larger), smaller # NOT(larger),
         ~Valued(c, smaller), ~Valued(c, larger)
  PROVE  Advances(c, Union(c, smaller, larger))
<1> DEFINE r == Redirected(c.repr, smaller, larger)
           united == SetRepr(c, r)
           forth == AddBinary(united, NOT(larger), smaller)
           back == AddBinary(forth, larger, NOT(smaller))
           d == Schedule(back, larger)
           new == {{NOT(larger), smaller}, {larger, NOT(smaller)}}
<1>1. Union(c, smaller, larger) = d
  BY DEF Union, SetRepr, Redirected
<1>2. IsClosure(c) /\ ReprOK(c.repr) /\ c.schedule \in Seq(LITS)
  BY DEF Shape, ScheduleOK
<1>3. /\ NOT(smaller) \in LITS /\ NOT(larger) \in LITS
      /\ NOT(NOT(larger)) = larger /\ NOT(NOT(smaller)) = smaller
      /\ smaller # larger /\ NOT(smaller) # larger /\ NOT(larger) # larger
      /\ IDX(NOT(larger)) = IDX(larger)
  BY LitFacts, OrderFacts
<1>4. /\ r \in [LITS -> LITS]
      /\ \A l \in LITS : r[l] = IF l = larger THEN smaller
                                ELSE IF l = NOT(larger) THEN NOT(smaller) ELSE c.repr[l]
  BY <1>2, <1>3 DEF Redirected, ReprOK
<1> HIDE DEF r
<1>5. /\ IsClosure(united) /\ SameClauses(c, united) /\ SameValues(c, united)
      /\ SameGates(c, united) /\ united.repr = r /\ united.schedule = c.schedule
  BY <1>2, SetReprFacts
<1> HIDE DEF united
<1>6. /\ ~IsTrue(united, smaller) /\ ~IsFalse(united, smaller)
      /\ ~IsTrue(united, larger) /\ ~IsFalse(united, larger)
      /\ ~IsTrue(united, NOT(smaller)) /\ ~IsFalse(united, NOT(smaller))
      /\ ~IsTrue(united, NOT(larger)) /\ ~IsFalse(united, NOT(larger))
      /\ ~united.inconsistent
  BY <1>3, <1>5 DEF Valued, IsTrue, IsFalse, SameValues
<1>7. forth = SetIrredundant(united, united.irredundant \cup {{NOT(larger), smaller}})
  BY <1>3, <1>6 DEF AddBinary, SetIrredundant
<1> HIDE DEF forth
<1>8. /\ IsClosure(forth) /\ SameValues(united, forth) /\ SameMerges(united, forth)
      /\ SameGates(united, forth)
      /\ forth.irredundant = united.irredundant \cup {{NOT(larger), smaller}}
  BY <1>5, <1>7, SetIrredundantFacts
<1>9. back = SetIrredundant(forth, forth.irredundant \cup {{larger, NOT(smaller)}})
  BY <1>3, <1>6, <1>8 DEF AddBinary, SetIrredundant, SameValues, IsTrue, IsFalse
<1> HIDE DEF back
<1>10. /\ IsClosure(back) /\ SameValues(forth, back) /\ SameMerges(forth, back)
       /\ SameGates(forth, back)
       /\ back.irredundant = forth.irredundant \cup {{larger, NOT(smaller)}}
  BY <1>8, <1>9, SetIrredundantFacts
<1>11. /\ SameValues(c, back) /\ SameGates(c, back)
       /\ back.repr = r /\ back.schedule = c.schedule
       /\ back.irredundant = c.irredundant \cup new
  BY <1>5, <1>8, <1>10 DEF SameValues, SameGates, SameMerges, SameClauses
<1>12. /\ SameValues(c, d) /\ SameGates(c, d) /\ d.repr = r
       /\ d.irredundant = c.irredundant \cup new
       /\ SchedVars(c) \subseteq SchedVars(d) /\ IDX(larger) \in SchedVars(d)
  <2> DEFINE sched == Append(back.schedule, larger)
  <2>1. back.schedule \in Seq(LITS)
    BY <1>2, <1>11
  <2>2. SchedVars(c) = SchedVars(back)
    BY <1>11 DEF SchedVars
  <2>3. CASE \E k \in ToSet(back.schedule) : IDX(k) = IDX(larger)
    <3>1. d = back
      BY <2>3 DEF Schedule
    <3> QED
      BY <1>11, <2>1, <2>2, <2>3, <3>1, SchedVarsOfSeq
  <2>4. CASE ~ \E k \in ToSet(back.schedule) : IDX(k) = IDX(larger)
    <3>1. d = SetSchedule(back, sched)
      BY <2>4 DEF Schedule, SetSchedule
    <3>2. ToSet(sched) = ToSet(back.schedule) \cup {larger}
      BY <2>1, SchedVarsOfSeq
    <3> HIDE DEF sched, d
    <3>3. /\ SameClauses(back, d) /\ SameValues(back, d) /\ SameGates(back, d)
          /\ d.schedule = sched /\ d.repr = back.repr
      BY <1>10, <3>1, SetScheduleFacts
    <3>4. SchedVars(back) \subseteq SchedVars(d) /\ IDX(larger) \in SchedVars(d)
      BY <3>2, <3>3 DEF SchedVars
    <3> QED
      BY <1>11, <2>2, <3>3, <3>4 DEF SameClauses, SameValues, SameGates
  <2> QED
    BY <2>3, <2>4
<1> HIDE DEF d
<1>13. Extends(c, d)
  BY <1>12 DEF Extends, SameValues, SameGates
<1>14. Propagated(d) \subseteq Propagated(c)
  BY <1>13, PropagatedGrows DEF Extends
<1>15. d.fixed \in Propagated(d)
  <2>1. c.fixed \in Propagated(c) /\ d.fixed = c.fixed
    BY <1>12 DEF UpWell, SameValues
  <2>2. \A C \in new : Upholds(c.fixed, C)
    BY <1>3 DEF Upholds, Valued, IsTrue, IsFalse
  <2> HIDE DEF new
  <2> QED
    BY <1>12, <2>1, <2>2 DEF Propagated
<1>16. Merged(Propagated(d), d.repr)
  <2> SUFFICES ASSUME NEW l \in LITS, NEW G \in Propagated(d)
               PROVE  l \in G <=> r[l] \in G
    BY <1>12 DEF Merged, Equivalent
  <2>1. G \in Propagated(c) /\ Upholds(G, {NOT(larger), smaller}) /\ Upholds(G, {larger, NOT(smaller)})
    BY <1>12, <1>14 DEF Propagated
  <2>2. larger \in G <=> smaller \in G
    BY <1>3, <2>1 DEF Upholds
  <2>3. NOT(larger) \in G <=> NOT(smaller) \in G
    BY <1>3, <2>1 DEF Upholds
  <2>4. l \in G <=> c.repr[l] \in G
    BY <2>1 DEF UpWell, Merged, Equivalent
  <2> QED
    BY <1>4, <2>2, <2>3, <2>4
<1>17. \A l \in LITS : d.repr[l] # l => c.repr[l] # l \/ IDX(l) \in SchedVars(d)
  BY <1>3, <1>4, <1>12
<1>18. Progress(c, d)
  BY <1>12, <1>15, <1>16, <1>17 DEF Progress, UpWell, SameValues
<1> QED
  BY <1>1, <1>13, <1>18 DEF Advances

(* Merging any two literals advances the closure. *)
LEMMA MergeAdvances ==
  ASSUME NEW c, Shape(c), Healthy(c), NEW lit \in LITS, NEW other \in LITS
  PROVE  ~c.inconsistent => Advances(c, Merge(c, lit, other))
<1> SUFFICES ASSUME ~c.inconsistent
             PROVE  Advances(c, Merge(c, lit, other))
  OBVIOUS
<1> DEFINE p == FindRepr(c, lit)
           q == FindRepr(c, other)
           smaller == IF LessLit(p, q) THEN p ELSE q
           larger  == IF smaller = p THEN q ELSE p
           differ == IsTrue(c, lit) # IsTrue(c, other)
           fixed == c.fixed \cup {smaller}
           lost == SetInconsistent(c, c.inconsistent \/ differ)
           failed == SetInconsistent(SetFixed(c, fixed), TRUE)
           d == Merge(c, lit, other)
<1>1. IsClosure(c) /\ ReprOK(c.repr) /\ UpWell(c)
  BY DEF Shape, Healthy
<1>2. /\ p \in LITS /\ q \in LITS
      /\ Valued(c, lit) <=> Valued(c, p)
      /\ Valued(c, other) <=> Valued(c, q)
  BY <1>1, FindReprUpheld
<1> HIDE DEF p, q
<1>3. d = IF p = q THEN c
          ELSE IF Valued(c, lit) /\ Valued(c, other) THEN lost
          ELSE IF Valued(c, lit)
          THEN LearnUnit(c, IF IsTrue(c, lit) THEN other ELSE NOT(other))
          ELSE IF Valued(c, other)
          THEN LearnUnit(c, IF IsTrue(c, other) THEN lit ELSE NOT(lit))
          ELSE IF p = NOT(q) THEN failed
          ELSE Union(c, smaller, larger)
  <2>1. lost = [c EXCEPT !.inconsistent = @ \/ IsTrue(c, lit) # IsTrue(c, other)]
    BY DEF SetInconsistent
  <2>2. failed = [c EXCEPT !.fixed = @ \cup {smaller}, !.inconsistent = TRUE]
    BY DEF SetInconsistent, SetFixed
  <2> HIDE DEF lost, failed
  <2> QED
    BY <2>1, <2>2 DEF Merge, p, q
<1>4. NOT(lit) \in LITS /\ NOT(other) \in LITS
  BY LitFacts
<1>5. Advances(c, lost)
  <2> HIDE DEF differ
  <2>1. /\ SameClauses(c, lost) /\ SameMerges(c, lost) /\ SameGates(c, lost)
        /\ lost.fixed = c.fixed /\ lost.units = c.units
    BY <1>1, SetInconsistentFacts
  <2> HIDE DEF lost
  <2>2. Extends(c, lost)
    BY <2>1 DEF Extends, SameClauses, SameGates
  <2>3. UpWell(lost) /\ SchedVars(lost) = SchedVars(c)
    <3>1. Propagated(lost) = Propagated(c)
      BY <2>1 DEF Propagated, SameClauses
    <3> QED
      BY <1>1, <2>1, <3>1 DEF UpWell, SchedVars, SameMerges
  <2> QED
    BY <2>1, <2>2, <2>3 DEF Advances, Progress, SameMerges
<1>6. Advances(c, failed)
  <2> DEFINE e == SetFixed(c, fixed)
  <2>1. c.fixed \subseteq fixed
    OBVIOUS
  <2> HIDE DEF fixed
  <2>2. /\ IsClosure(e) /\ SameClauses(c, e) /\ SameGates(c, e) /\ e.fixed = fixed
    BY <1>1, SetFixedFacts
  <2> HIDE DEF e
  <2>3. /\ SameClauses(e, SetInconsistent(e, TRUE)) /\ SameGates(e, SetInconsistent(e, TRUE))
        /\ SetInconsistent(e, TRUE).fixed = fixed /\ SetInconsistent(e, TRUE).inconsistent
    BY <2>2, SetInconsistentFacts
  <2>4. Advances(c, SetInconsistent(e, TRUE))
    BY <2>1, <2>2, <2>3 DEF Advances, Extends, SameClauses, SameGates
  <2> QED
    BY <2>4 DEF e
<1>7. CASE p # q /\ ~Valued(c, lit) /\ ~Valued(c, other) /\ p # NOT(q)
  <2>1. /\ smaller \in LITS /\ larger \in LITS /\ LessLit(smaller, larger)
        /\ smaller # NOT(larger) /\ ~Valued(c, smaller) /\ ~Valued(c, larger)
    BY <1>2, <1>7, OrderFacts, LitFacts
  <2>2. d = Union(c, smaller, larger)
    BY <1>3, <1>7
  <2> HIDE DEF smaller, larger
  <2> QED
    BY <1>1, <2>1, <2>2, UnionAdvances
<1> HIDE DEF lost, failed, smaller, larger
<1>8. CASE ~ (p # q /\ ~Valued(c, lit) /\ ~Valued(c, other) /\ p # NOT(q))
  BY <1>3, <1>4, <1>5, <1>6, <1>8, AdvancesItself, LearnUnitAdvances
<1> QED
  BY <1>7, <1>8

-----------------------------------------------------------------------------
(* Changing a gate. *)

LEMMA GatesAdvance ==
  ASSUME NEW c, IsClosure(c), Healthy(c), NEW x, DOMAIN c.gates \subseteq DOMAIN x
  PROVE  Advances(c, SetGates(c, x))
<1> DEFINE d == SetGates(c, x)
<1>1. /\ SameClauses(c, d) /\ SameValues(c, d) /\ SameMerges(c, d)
      /\ d.gates = x /\ d.occurrences = c.occurrences
  BY SetGatesFacts
<1> HIDE DEF d
<1>2. Extends(c, d)
  BY <1>1 DEF Extends, SameClauses, SameValues
<1>3. Propagated(d) = Propagated(c)
  BY <1>1 DEF Propagated, SameClauses, SameValues
<1>4. ~d.inconsistent => Progress(c, d)
  BY <1>1, <1>3 DEF Progress, UpWell, Healthy, SchedVars, SameValues, SameMerges
<1> QED
  BY <1>2, <1>4 DEF Advances, d

LEMMA OccurrencesAdvance ==
  ASSUME NEW c, IsClosure(c), Healthy(c), NEW x, \A l \in LITS : c.occurrences[l] \subseteq x[l]
  PROVE  Advances(c, SetOccurrences(c, x))
<1> DEFINE d == SetOccurrences(c, x)
<1>1. /\ SameClauses(c, d) /\ SameValues(c, d) /\ SameMerges(c, d)
      /\ d.gates = c.gates /\ d.occurrences = x
  BY SetOccurrencesFacts
<1> HIDE DEF d
<1>2. Extends(c, d)
  BY <1>1 DEF Extends, SameClauses, SameValues
<1>3. Propagated(d) = Propagated(c)
  BY <1>1 DEF Propagated, SameClauses, SameValues
<1>4. ~d.inconsistent => Progress(c, d)
  BY <1>1, <1>3 DEF Progress, UpWell, Healthy, SchedVars, SameValues, SameMerges
<1> QED
  BY <1>2, <1>4 DEF Advances, d

WithEntry(c, g, entry) ==
  [h \in DOMAIN c.gates |-> IF h = g THEN entry ELSE c.gates[h]]

LEMMA MarkedForm ==
  ASSUME NEW c, GatesOK(c.gates), NEW g \in DOMAIN c.gates
  PROVE  [c EXCEPT !.gates[g].garbage = TRUE]
           = SetGates(c, WithEntry(c, g, Entry(c.gates[g], TRUE)))
<1> DEFINE entry == Entry(c.gates[g], TRUE)
<1>1. [c.gates[g] EXCEPT !.garbage = TRUE] = entry
  BY EntryMarked DEF GatesOK
<1> HIDE DEF entry
<1>2. c.gates = [h \in DOMAIN c.gates |-> c.gates[h]]
  BY DEF GatesOK
<1>3. [c.gates EXCEPT ![g].garbage = TRUE] = WithEntry(c, g, entry)
  BY <1>1, <1>2 DEF WithEntry
<1>4. [c EXCEPT !.gates[g].garbage = TRUE] = SetGates(c, [c.gates EXCEPT ![g].garbage = TRUE])
  BY DEF SetGates
<1> QED
  BY <1>3, <1>4 DEF entry

(* The gate g of c, an input src of which is replaced or got a value, is
   garbage in d, or its new inputs are as they should be.  It is connected
   to dst by the caller. *)
InputSettled(c, g, src, dst, d, k) ==
  /\ k \in LITS
  /\ k = dst \/ g \in d.occurrences[k]
  /\ k \in ToSet(c.gates[g].rhs) \ {src} \/ (IDX(k) # IDX(src) /\ Pend(d, k))

Settled(c, g, src, dst, d) ==
  /\ GateUpheld(d, d.gates[g])
  /\ \A h \in Live(c) \ {g} : ~SameInputs(c.gates[h], d.gates[g])
  /\ \A k \in ToSet(d.gates[g].rhs) : InputSettled(c, g, src, dst, d, k)

Updates(c, g, src, dst, d) ==
  /\ Advances(c, d)
  /\ DOMAIN d.gates = DOMAIN c.gates
  /\ \A h \in DOMAIN c.gates \ {g} : d.gates[h] = c.gates[h]
  /\ Normalized(d.gates[g])
  /\ ~d.inconsistent /\ ~d.gates[g].garbage => Settled(c, g, src, dst, d)

LEMMA UpdatesAfter ==
  ASSUME NEW c, NEW g, NEW src, NEW dst, NEW d, Updates(c, g, src, dst, d),
         NEW e, Advances(d, e), SameGates(d, e)
  PROVE  Updates(c, g, src, dst, e)
<1>1. Advances(c, e)
  BY AdvancesTransitive DEF Updates
<1>2. ASSUME ~e.inconsistent, ~e.gates[g].garbage
      PROVE  Settled(c, g, src, dst, e)
  <2>1. ~d.inconsistent /\ e.gates = d.gates /\ e.occurrences = d.occurrences
    BY <1>2 DEF Advances, Extends, SameGates
  <2>2. Settled(c, g, src, dst, d)
    BY <1>2, <2>1 DEF Updates
  <2>3. GateUpheld(e, e.gates[g])
    BY <2>1, <2>2, UpheldStays DEF Settled
  <2>4. ASSUME NEW k \in ToSet(e.gates[g].rhs)
        PROVE  InputSettled(c, g, src, dst, e, k)
    <3>1. InputSettled(c, g, src, dst, d, k)
      BY <2>1, <2>2 DEF Settled
    <3>2. k \in LITS /\ (Pend(d, k) => Pend(e, k))
      BY <1>2, <3>1, PendStays DEF InputSettled
    <3> QED
      BY <2>1, <3>1, <3>2 DEF InputSettled
  <2> QED
    BY <2>1, <2>2, <2>3, <2>4 DEF Settled
<1> QED
  BY <1>1, <1>2 DEF Updates, SameGates

LEMMA MarkedUpdates ==
  ASSUME NEW c, Shape(c), NEW g \in DOMAIN c.gates, Normalized(c.gates[g]),
         NEW e, Advances(c, e), LeavesGates(c, e), NEW src, NEW dst
  PROVE  /\ Updates(c, g, src, dst, MarkGarbage(e, g))
         /\ Updates(c, g, src, dst, [e EXCEPT !.gates[g].garbage = TRUE])
<1> DEFINE entry == Entry(e.gates[g], TRUE)
           d == [e EXCEPT !.gates[g].garbage = TRUE]
<1>1. IsClosure(e) /\ e.gates = c.gates /\ GatesOK(e.gates)
  BY DEF LeavesGates, SameGates, Shape
<1>2. d = SetGates(e, WithEntry(e, g, entry))
  BY <1>1, MarkedForm
<1>3. entry.garbage = TRUE /\ Normalized(entry)
  <2>1. entry.garbage = TRUE /\ entry.tag = c.gates[g].tag /\ entry.rhs = c.gates[g].rhs
    BY <1>1, EntryFacts
  <2> HIDE DEF entry
  <2> QED
    BY <2>1, NormalOfSame DEF SameInputs
<1> HIDE DEF d, entry
<1>4. d.gates = WithEntry(e, g, entry) /\ Advances(e, d)
  <2>1. Healthy(e) /\ DOMAIN e.gates \subseteq DOMAIN WithEntry(e, g, entry)
    BY StaysHealthy DEF WithEntry
  <2> QED
    BY <1>1, <1>2, <2>1, SetGatesFacts, GatesAdvance
<1>5. Updates(c, g, src, dst, d)
  <2>1. Advances(c, d)
    BY <1>4, AdvancesTransitive
  <2>2. /\ DOMAIN d.gates = DOMAIN c.gates /\ d.gates[g] = entry
        /\ \A h \in DOMAIN c.gates \ {g} : d.gates[h] = c.gates[h]
    BY <1>1, <1>4 DEF WithEntry
  <2> QED
    BY <1>3, <2>1, <2>2 DEF Updates
<1>6. CASE e.inconsistent
  <2>1. MarkGarbage(e, g) = e
    BY <1>6 DEF MarkGarbage
  <2>2. Updates(c, g, src, dst, e)
    BY <1>1, <1>6 DEF Updates
  <2> QED
    BY <1>5, <2>1, <2>2 DEF d
<1>7. CASE ~e.inconsistent
  <2>1. MarkGarbage(e, g) = d
    BY <1>7 DEF MarkGarbage, d
  <2> QED
    BY <1>5, <2>1 DEF d
<1> QED
  BY <1>6, <1>7

(* The inputs of a gate lead to it. *)
Leading(c, g) == \A k \in ToSet(c.gates[g].rhs) : g \in c.occurrences[k]

(* What may take the place of gate g. *)
FitsFor(c, g, src, gate) ==
  /\ GateOK(gate) /\ Normalized(gate) /\ GateUpheld(c, gate)
  /\ \A k \in ToSet(gate.rhs) :
       k \in ToSet(c.gates[g].rhs) \ {src} \/ (IDX(k) # IDX(src) /\ Pend(c, k))

LEMMA ReindexUpdates ==
  ASSUME NEW c, Shape(c), UpWell(c), ~c.inconsistent,
         NEW g \in DOMAIN c.gates, Normalized(c.gates[g]), Leading(c, g),
         NEW src, NEW dst, NEW gate, FitsFor(c, g, src, gate)
  PROVE  Updates(c, g, src, dst, Reindex(c, g, gate, dst))
<1> DEFINE same == Matching(c, gate, g)
           h == CHOOSE x \in same : TRUE
           entry == Entry(gate, FALSE)
           e == SetGates(c, WithEntry(c, g, entry))
           lits == ToSet(gate.rhs) \ (ToSet(c.gates[g].rhs) \cup {dst})
           os == [l \in LITS |-> IF l \in lits THEN e.occurrences[l] \cup {g} ELSE e.occurrences[l]]
           d == SetOccurrences(e, os)
<1>1. WithEntry(c, g, entry) = [c.gates EXCEPT ![g] = entry]
  <2>1. c.gates = [x \in DOMAIN c.gates |-> c.gates[x]]
    BY DEF Shape, GatesOK
  <2> HIDE DEF entry
  <2> QED
    BY <2>1 DEF WithEntry
<1>2. Reindex(c, g, gate, dst)
        = IF same = {} THEN d
          ELSE MarkGarbage(Merge(c, gate.lhs, c.gates[h].lhs), g)
  <2>1. e = [c EXCEPT !.gates[g] = entry]
    <3>1. e = [c EXCEPT !.gates = [c.gates EXCEPT ![g] = entry]]
      BY <1>1 DEF SetGates
    <3> HIDE DEF e, entry
    <3> QED
      BY <3>1
  <2> HIDE DEF e
  <2>2. Reindex(c, g, gate, dst)
        = IF same = {} THEN Connect(e, lits, g)
          ELSE MarkGarbage(Merge(c, gate.lhs, c.gates[h].lhs), g)
    BY <2>1 DEF Reindex, Entry
  <2>3. Connect(e, lits, g) = d
    BY DEF Connect, SetOccurrences
  <2> QED
    BY <2>2, <2>3
<1>3. IsClosure(c) /\ Healthy(c) /\ gate.lhs \in LITS
  BY DEF Shape, Healthy, FitsFor, GateOK
<1>4. CASE same # {}
  <2>1. h \in DOMAIN c.gates
    BY <1>4 DEF Matching, Live
  <2> HIDE DEF h
  <2>2. c.gates[h].lhs \in LITS
    BY <2>1 DEF Shape, GatesOK, EntryOK, GateOK
  <2>3. Advances(c, Merge(c, gate.lhs, c.gates[h].lhs))
    BY <1>3, <2>2, MergeAdvances
  <2>4. LeavesGates(c, Merge(c, gate.lhs, c.gates[h].lhs))
    BY <1>3, MergeLeavesGates
  <2> QED
    BY <1>2, <1>4, <2>3, <2>4, MarkedUpdates
<1>5. CASE same = {}
  <2>1. entry.tag = gate.tag /\ entry.rhs = gate.rhs /\ entry.lhs = gate.lhs
    BY EntryFacts
  <2> HIDE DEF entry
  <2>2. e.gates = WithEntry(c, g, entry) /\ e.occurrences = c.occurrences /\ IsClosure(e)
    BY <1>3, SetGatesFacts
  <2>3. Advances(c, e)
    <3>1. DOMAIN c.gates \subseteq DOMAIN WithEntry(c, g, entry)
      BY DEF WithEntry
    <3> QED
      BY <1>3, <3>1, GatesAdvance
  <2> HIDE DEF e
  <2>4. \A l \in LITS : e.occurrences[l] \subseteq os[l]
    OBVIOUS
  <2>5. \A l \in LITS : os[l] = IF l \in lits THEN c.occurrences[l] \cup {g} ELSE c.occurrences[l]
    BY <2>2
  <2>6. lits = ToSet(gate.rhs) \ (ToSet(c.gates[g].rhs) \cup {dst})
    OBVIOUS
  <2> HIDE DEF os, lits
  <2>7. d.gates = e.gates /\ d.occurrences = os /\ Advances(e, d)
    BY <2>2, <2>3, <2>4, SetOccurrencesFacts, OccurrencesAdvance, StaysHealthy
  <2> HIDE DEF d
  <2>8. Advances(c, d)
    BY <2>3, <2>7, AdvancesTransitive
  <2>9. /\ DOMAIN d.gates = DOMAIN c.gates /\ d.gates[g] = entry
        /\ \A x \in DOMAIN c.gates \ {g} : d.gates[x] = c.gates[x]
    BY <2>2, <2>7 DEF WithEntry
  <2>10. Normalized(d.gates[g])
    BY <2>1, <2>9, NormalOfSame DEF FitsFor, SameInputs
  <2>11. ASSUME ~d.inconsistent
         PROVE  Settled(c, g, src, dst, d)
    <3>1. GateUpheld(d, d.gates[g])
      <4>1. GateUpheld(d, gate)
        BY <2>8, UpheldStays DEF FitsFor
      <4> QED
        BY <2>1, <2>9, <4>1 DEF GateUpheld
    <3>2. \A x \in Live(c) \ {g} : ~SameInputs(c.gates[x], d.gates[g])
      BY <1>5, <2>1, <2>9 DEF Matching, SameInputs
    <3>3. ASSUME NEW k \in ToSet(d.gates[g].rhs)
          PROVE  InputSettled(c, g, src, dst, d, k)
      <4>1. k \in ToSet(gate.rhs) /\ k \in LITS
        BY <2>1, <2>9, InputsAreVars DEF FitsFor
      <4>2. k = dst \/ g \in d.occurrences[k]
        BY <2>5, <2>6, <2>7, <4>1 DEF Leading
      <4>3. k \in ToSet(c.gates[g].rhs) \ {src} \/ (IDX(k) # IDX(src) /\ Pend(d, k))
        BY <2>8, <2>11, <4>1, PendStays DEF FitsFor
      <4> QED
        BY <4>1, <4>2, <4>3 DEF InputSettled
    <3> QED
      BY <3>1, <3>2, <3>3 DEF Settled
  <2> QED
    BY <1>2, <1>5, <2>8, <2>9, <2>10, <2>11 DEF Updates
<1> QED
  BY <1>4, <1>5

-----------------------------------------------------------------------------
(* Updates of conjunctions and parities. *)

(* A gate that is simplified or rewritten. *)
Given(c, g) ==
  /\ Shape(c) /\ UpWell(c) /\ ~c.inconsistent
  /\ g \in Live(c)
  /\ Normalized(c.gates[g]) /\ Leading(c, g) /\ GateUpheld(c, c.gates[g])

NewInputs(c, g, src, S) ==
  \A k \in S : k \in ToSet(c.gates[g].rhs) \ {src} \/ (IDX(k) # IDX(src) /\ Pend(c, k))

LEMMA GivenFacts ==
  ASSUME NEW c, NEW g, Given(c, g)
  PROVE  /\ g \in DOMAIN c.gates /\ ~c.gates[g].garbage
         /\ IsClosure(c) /\ ReprOK(c.repr) /\ Healthy(c)
         /\ c.fixed \in Propagated(c)
         /\ GateOK(c.gates[g]) /\ c.gates[g].lhs \in LITS /\ NOT(c.gates[g].lhs) \in LITS
         /\ ToSet(c.gates[g].rhs) \in SUBSET LITS
         /\ c.gates[g].tag \in {"and", "xor", "ite"}
<1>1. g \in DOMAIN c.gates /\ ~c.gates[g].garbage
  BY DEF Given, Live
<1>2. GateOK(c.gates[g])
  BY <1>1 DEF Given, Shape, GatesOK, EntryOK
<1>3. ToSet(c.gates[g].rhs) \subseteq LITS
  BY <1>2, InputsAreVars
<1>4. c.gates[g].lhs \in LITS /\ NOT(c.gates[g].lhs) \in LITS
  BY <1>2, LitFacts DEF GateOK
<1> QED
  BY <1>1, <1>2, <1>3, <1>4 DEF Given, Shape, Healthy, UpWell, GateOK

LEMMA LearnedUpdates ==
  ASSUME NEW c, NEW g, Given(c, g), NEW src, NEW dst, NEW unit \in LITS
  PROVE  Updates(c, g, src, dst, MarkGarbage(LearnUnit(c, unit), g))
<1>1. Shape(c) /\ Healthy(c) /\ IsClosure(c) /\ g \in DOMAIN c.gates /\ Normalized(c.gates[g])
  BY GivenFacts DEF Given
<1> QED
  BY <1>1, LearnUnitAdvances, LearnUnitLeavesGates, MarkedUpdates

LEMMA MergedUpdates ==
  ASSUME NEW c, NEW g, Given(c, g), NEW src, NEW dst, NEW lit \in LITS, NEW other \in LITS
  PROVE  Updates(c, g, src, dst, MarkGarbage(Merge(c, lit, other), g))
<1>1. /\ Shape(c) /\ Healthy(c) /\ IsClosure(c) /\ ~c.inconsistent
      /\ g \in DOMAIN c.gates /\ Normalized(c.gates[g])
  BY GivenFacts DEF Given
<1> QED
  BY <1>1, MergeAdvances, MergeLeavesGates, MarkedUpdates

LEMMA GarbageUpdates ==
  ASSUME NEW c, NEW g, Given(c, g), NEW src, NEW dst
  PROVE  Updates(c, g, src, dst, [c EXCEPT !.gates[g].garbage = TRUE])
<1>1. /\ Shape(c) /\ Healthy(c) /\ IsClosure(c)
      /\ g \in DOMAIN c.gates /\ Normalized(c.gates[g])
  BY GivenFacts DEF Given
<1>2. Advances(c, c) /\ LeavesGates(c, c)
  BY <1>1, AdvancesItself DEF LeavesGates, SameGates
<1> QED
  BY <1>1, <1>2, MarkedUpdates

LEMMA UpdateUnaryUpdates ==
  ASSUME NEW c, NEW g, Given(c, g), NEW src, NEW dst, NEW lhs \in LITS, NEW lit \in LITS
  PROVE  Updates(c, g, src, dst, UpdateUnary(c, g, lhs, lit))
<1>1. NOT(lit) \in LITS
  BY LitFacts
<1>2. CASE IsTrue(c, lhs)
  BY <1>2, LearnedUpdates DEF UpdateUnary
<1>3. CASE ~IsTrue(c, lhs) /\ IsFalse(c, lhs)
  BY <1>1, <1>3, LearnedUpdates DEF UpdateUnary
<1>4. CASE ~IsTrue(c, lhs) /\ ~IsFalse(c, lhs)
  BY <1>4, MergedUpdates DEF UpdateUnary
<1> QED
  BY <1>2, <1>3, <1>4

LEMMA SortedGate ==
  ASSUME NEW tag \in {"and", "xor"}, NEW lhs \in LITS, NEW S \in SUBSET LITS
  PROVE  LET gate == Gate(tag, lhs, SortLits(S))
         IN  /\ GateOK(gate) /\ gate.tag = tag /\ gate.lhs = lhs /\ ToSet(gate.rhs) = S
             /\ gate.rhs = SortLits(S)
<1> DEFINE gate == Gate(tag, lhs, SortLits(S))
<1>1. gate.tag = tag /\ gate.lhs = lhs /\ gate.rhs = SortLits(S)
  BY GateFields
<1> HIDE DEF gate
<1>2. gate.rhs \in Seq(LITS) /\ ToSet(gate.rhs) = S
  BY <1>1, SortedLits
<1> QED
  BY <1>1, <1>2 DEF GateOK, gate

LEMMA SortedSizes ==
  ASSUME NEW S \in SUBSET LITS
  PROVE  /\ Len(SortLits(S)) \in Nat
         /\ Len(SortLits(S)) = 0 <=> S = {}
         /\ Len(SortLits(S)) = 1 => SortLits(S)[1] \in LITS
         /\ S # {} /\ Len(SortLits(S)) # 1 => Len(SortLits(S)) > 1
<1>1. SortLits(S) \in Seq(LITS) /\ Len(SortLits(S)) = Cardinality(S)
  BY SortedLits
<1>2. Cardinality(S) \in Nat /\ (Cardinality(S) = 0 <=> S = {})
  BY LitsFinite, FS_CardinalityType, FS_EmptySet
<1>3. Len(SortLits(S)) = 1 => SortLits(S)[1] \in LITS
  BY <1>1, OneElement
<1>4. \A n \in Nat : n # 0 /\ n # 1 => n > 1
  OBVIOUS
<1> QED
  BY <1>1, <1>2, <1>3, <1>4

LEMMA UpdateAndUpdates ==
  ASSUME NEW c, NEW g, Given(c, g), NEW src, NEW dst,
         NEW S \in SUBSET LITS, NEW contradiction,
         ~contradiction => /\ S # {} /\ DifferentVars(S) /\ NewInputs(c, g, src, S)
                           /\ \A G \in Propagated(c) : AndUpheld(G, c.gates[g].lhs, S)
  PROVE  Updates(c, g, src, dst, UpdateAnd(c, g, SortLits(S), contradiction, dst))
<1> DEFINE lhs == c.gates[g].lhs
           rhs == SortLits(S)
           gate == Gate("and", lhs, rhs)
<1>1. lhs \in LITS /\ NOT(lhs) \in LITS /\ g \in DOMAIN c.gates
  BY GivenFacts
<1>2. UpdateAnd(c, g, rhs, contradiction, dst)
        = IF contradiction THEN MarkGarbage(LearnUnit(c, NOT(lhs)), g)
          ELSE IF Len(rhs) = 1 THEN UpdateUnary(c, g, lhs, rhs[1])
          ELSE Reindex(c, g, gate, dst)
  BY DEF UpdateAnd
<1>3. CASE contradiction
  BY <1>1, <1>2, <1>3, LearnedUpdates
<1>4. CASE ~contradiction /\ Len(rhs) = 1
  BY <1>1, <1>2, <1>4, SortedSizes, UpdateUnaryUpdates
<1>5. CASE ~contradiction /\ Len(rhs) # 1
  <2>1. Len(rhs) > 1
    BY <1>5, SortedSizes
  <2>2. /\ GateOK(gate) /\ gate.tag = "and" /\ gate.lhs = lhs /\ ToSet(gate.rhs) = S
    BY <1>1, SortedGate
  <2>3. Normalized(gate)
    BY <1>5, <2>1, SortedNormal
  <2> HIDE DEF gate
  <2>4. GateUpheld(c, gate)
    BY <1>5, <2>2 DEF GateUpheld
  <2>5. FitsFor(c, g, src, gate)
    BY <1>5, <2>2, <2>3, <2>4 DEF FitsFor, NewInputs
  <2>6. Updates(c, g, src, dst, Reindex(c, g, gate, dst))
    BY <1>1, <2>5, ReindexUpdates DEF Given
  <2> QED
    BY <1>2, <1>5, <2>6
<1> QED
  BY <1>3, <1>4, <1>5

LEMMA UpdateXorUpdates ==
  ASSUME NEW c, NEW g, Given(c, g), NEW src, NEW dst, NEW lhs \in LITS,
         NEW S \in SUBSET Vars, NewInputs(c, g, src, S)
  PROVE  Updates(c, g, src, dst, UpdateXor(c, g, lhs, SortLits(S), dst))
<1> DEFINE rhs == SortLits(S)
           gate == Gate("xor", lhs, rhs)
           old == c.gates[g].lhs
<1>1. old \in LITS /\ NOT(old) \in LITS /\ g \in DOMAIN c.gates /\ NOT(lhs) \in LITS
  BY GivenFacts, LitFacts
<1>2. UpdateXor(c, g, lhs, rhs, dst)
        = IF Len(rhs) = 0 THEN MarkGarbage(LearnUnit(c, NOT(lhs)), g)
          ELSE IF Len(rhs) = 1 THEN UpdateUnary(c, g, lhs, rhs[1])
          ELSE Reindex(c, g, gate, dst)
  BY DEF UpdateXor
<1>6. S \in SUBSET LITS /\ DifferentVars(S)
  BY VarFacts DEF DifferentVars
<1>3. CASE Len(rhs) = 0
  BY <1>1, <1>2, <1>3, LearnedUpdates
<1>4. CASE Len(rhs) # 0 /\ Len(rhs) = 1
  BY <1>1, <1>2, <1>4, <1>6, SortedSizes, UpdateUnaryUpdates
<1>5. CASE Len(rhs) # 0 /\ Len(rhs) # 1
  <2>1. Len(rhs) > 1
    BY <1>5, <1>6, SortedSizes
  <2>2. /\ GateOK(gate) /\ gate.tag = "xor" /\ gate.lhs = lhs /\ ToSet(gate.rhs) = S
    BY <1>1, <1>6, SortedGate
  <2>3. Normalized(gate)
    BY <1>6, <2>1, SortedNormal
  <2> HIDE DEF gate
  <2>4. GateUpheld(c, gate)
    BY <2>2 DEF GateUpheld
  <2>5. FitsFor(c, g, src, gate)
    BY <2>2, <2>3, <2>4 DEF FitsFor, NewInputs
  <2>6. Updates(c, g, src, dst, Reindex(c, g, gate, dst))
    BY <1>1, <2>5, ReindexUpdates DEF Given
  <2> QED
    BY <1>2, <1>5, <2>6
<1> QED
  BY <1>3, <1>4, <1>5

-----------------------------------------------------------------------------
(* Simplifying a gate: the literal src got a value. *)

LEMMA NormalInputs ==
  ASSUME NEW gate, GateOK(gate), Normalized(gate)
  PROVE  /\ DifferentVars(ToSet(gate.rhs))
         /\ gate.tag = "xor" => ToSet(gate.rhs) \subseteq Vars
<1>1. \A i, j \in 1..Len(gate.rhs) : i # j => IDX(gate.rhs[i]) # IDX(gate.rhs[j])
  BY DEF Normalized
<1>2. \A k \in ToSet(gate.rhs) : \E i \in 1..Len(gate.rhs) : k = gate.rhs[i]
  BY DEF GateOK, ToSet
<1>3. DifferentVars(ToSet(gate.rhs))
  <2> SUFFICES ASSUME NEW k \in ToSet(gate.rhs), NEW l \in ToSet(gate.rhs), k # l
               PROVE  IDX(k) # IDX(l)
    BY DEF DifferentVars
  <2>1. PICK i \in 1..Len(gate.rhs) : k = gate.rhs[i]
    BY <1>2
  <2>2. PICK j \in 1..Len(gate.rhs) : l = gate.rhs[j]
    BY <1>2
  <2> QED
    BY <1>1, <2>1, <2>2
<1> QED
  BY <1>3 DEF Normalized

LEMMA DifferentSubset ==
  ASSUME NEW S, NEW T \in SUBSET S, DifferentVars(S)
  PROVE  DifferentVars(T)
BY DEF DifferentVars

LEMMA SimplifyAndUpdates ==
  ASSUME NEW c, NEW g, Given(c, g), c.gates[g].tag = "and", NEW src \in LITS, Valued(c, src)
  PROVE  Updates(c, g, src, NoLit, SimplifyAnd(c, g))
<1> DEFINE lhs == c.gates[g].lhs
           R == ToSet(c.gates[g].rhs)
           S == UnvaluedIn(c, R)
           contradiction == \E l \in R : IsFalse(c, l)
<1>1. SimplifyAnd(c, g)
        = IF IsTrue(c, lhs) THEN [c EXCEPT !.gates[g].garbage = TRUE]
          ELSE UpdateAnd(c, g, SortLits(S), contradiction, NoLit)
  BY DEF SimplifyAnd, Unvalued, UnvaluedIn
<1>2. CASE IsTrue(c, lhs)
  BY <1>1, <1>2, GarbageUpdates
<1>3. CASE ~IsTrue(c, lhs)
  <2>1. R \in SUBSET LITS /\ c.fixed \in Propagated(c)
    BY GivenFacts
  <2>2. S \in SUBSET R /\ S \in SUBSET LITS
    BY <2>1 DEF UnvaluedIn
  <2>3. ASSUME ~contradiction, NEW G \in Propagated(c), S \subseteq G
        PROVE  lhs \in G
    <3>1. \A k \in R : k \in S \/ k \in c.fixed
      BY <2>3 DEF UnvaluedIn, Valued, IsTrue
    <3>2. R \subseteq G
      BY <2>3, <3>1, PropagatedFacts
    <3> QED
      BY <2>3, <3>2 DEF Given, GateUpheld, AndUpheld
  <2>4. ~contradiction => S # {}
    BY <1>3, <2>1, <2>3 DEF IsTrue
  <2>5. DifferentVars(S)
    BY <2>2, GivenFacts, NormalInputs, DifferentSubset DEF Given
  <2>6. NewInputs(c, g, src, S)
    BY DEF NewInputs, UnvaluedIn
  <2>7. ~contradiction => \A G \in Propagated(c) : AndUpheld(G, lhs, S)
    BY <2>3 DEF AndUpheld
  <2> HIDE DEF S, contradiction
  <2>8. Updates(c, g, src, NoLit, UpdateAnd(c, g, SortLits(S), contradiction, NoLit))
    BY <2>2, <2>4, <2>5, <2>6, <2>7, UpdateAndUpdates
  <2> QED
    BY <1>1, <1>3, <2>8
<1> QED
  BY <1>2, <1>3

LEMMA SimplifyXorUpdates ==
  ASSUME NEW c, NEW g, Given(c, g), c.gates[g].tag = "xor", NEW src \in LITS, Valued(c, src)
  PROVE  Updates(c, g, src, NoLit, SimplifyXor(c, g))
<1> DEFINE R == ToSet(c.gates[g].rhs)
           S == UnvaluedIn(c, R)
           lhs == FlippedIf(Parity({l \in R : IsTrue(c, l)}), c.gates[g].lhs)
<1>1. SimplifyXor(c, g) = UpdateXor(c, g, lhs, SortLits(S), NoLit)
  BY DEF SimplifyXor, Unvalued, UnvaluedIn
<1>2. lhs \in LITS
  BY GivenFacts DEF FlippedIf
<1>3. S \in SUBSET Vars
  BY GivenFacts, NormalInputs DEF Given, UnvaluedIn
<1>4. NewInputs(c, g, src, S)
  BY DEF NewInputs, UnvaluedIn
<1> HIDE DEF S, lhs
<1> QED
  BY <1>1, <1>2, <1>3, <1>4, UpdateXorUpdates

(* If-then-else. *)
IteRules(G, l, nl, b, nb, t, nt, e, ne) ==
  /\ (b \in G /\ t \in G => l \in G) /\ (nb \in G /\ e \in G => l \in G)
  /\ (b \in G /\ nt \in G => nl \in G) /\ (nb \in G /\ ne \in G => nl \in G)
  /\ (b \in G /\ l \in G => t \in G) /\ (b \in G /\ nl \in G => nt \in G)
  /\ (nb \in G /\ l \in G => e \in G) /\ (nb \in G /\ nl \in G => ne \in G)
  /\ (t \in G /\ nl \in G => nb \in G) /\ (nt \in G /\ l \in G => nb \in G)
  /\ (e \in G /\ nl \in G => b \in G) /\ (ne \in G /\ l \in G => b \in G)

LEMMA IteMeaning ==
  ASSUME NEW G, NEW lhs \in LITS, NEW cond \in LITS, NEW t \in LITS, NEW e \in LITS
  PROVE  IteUpheld(G, lhs, cond, t, e)
           <=> IteRules(G, lhs, NOT(lhs), cond, NOT(cond), t, NOT(t), e, NOT(e))
<1>1. /\ NOT(NOT(lhs)) = lhs /\ NOT(NOT(cond)) = cond
      /\ NOT(NOT(t)) = t /\ NOT(NOT(e)) = e
  BY LitFacts
<1> QED
  BY <1>1 DEF IteUpheld, Ternary, IteRules

LEMMA IteParts ==
  ASSUME NEW c, NEW g, Given(c, g), c.gates[g].tag = "ite"
  PROVE  LET lhs == c.gates[g].lhs
             r   == c.gates[g].rhs
         IN  /\ lhs \in LITS /\ r[1] \in LITS /\ r[2] \in LITS /\ r[3] \in LITS
             /\ IDX(r[1]) # IDX(r[2]) /\ IDX(r[1]) # IDX(r[3]) /\ IDX(r[2]) # IDX(r[3])
             /\ ToSet(r) = {r[1], r[2], r[3]}
             /\ \A G \in Propagated(c) : IteUpheld(G, lhs, r[1], r[2], r[3])
<1> DEFINE r == c.gates[g].rhs
<1>1. GateOK(c.gates[g]) /\ c.gates[g].lhs \in LITS
  BY GivenFacts
<1>2. r \in Seq(LITS) /\ Len(r) = 3 /\ DifferentInputs(r)
  BY <1>1 DEF GateOK, DifferentInputs
<1>3. \A G \in Propagated(c) : IteUpheld(G, c.gates[g].lhs, r[1], r[2], r[3])
  BY DEF Given, GateUpheld
<1>7. r \in Seq(LITS)
  BY <1>2
<1> HIDE DEF r
<1>4. r[1] \in LITS /\ r[2] \in LITS /\ r[3] \in LITS
  <2>1. \A i \in 1..Len(r) : r[i] \in LITS
    BY <1>7
  <2>2. 1 \in 1..Len(r) /\ 2 \in 1..Len(r) /\ 3 \in 1..Len(r)
    <3>1. Len(r) = 3
      BY <1>2
    <3> QED
      BY <3>1
  <2> QED
    BY <2>1, <2>2
<1>5. ToSet(r) = {r[1], r[2], r[3]}
  <2>1. 1..3 = {1, 2, 3}
    OBVIOUS
  <2> QED
    BY <1>2, <2>1 DEF ToSet
<1>6. IDX(r[1]) # IDX(r[2]) /\ IDX(r[1]) # IDX(r[3]) /\ IDX(r[2]) # IDX(r[3])
  BY <1>2 DEF DifferentInputs
<1> QED
  BY <1>1, <1>3, <1>4, <1>5, <1>6 DEF r

LEMMA PairFits ==
  ASSUME NEW c, NEW g, Given(c, g), NEW src, NEW lhs \in LITS, NEW x \in LITS, NEW y \in LITS,
         IDX(x) # IDX(y), NewInputs(c, g, src, {x, y}),
         \A G \in Propagated(c) : x \in G /\ y \in G => lhs \in G
  PROVE  /\ FitsFor(c, g, src, Gate("and", lhs, SortLits({x, y})))
         /\ Gate("and", lhs, SortLits({x, y})).tag = "and"
         /\ Gate("and", lhs, SortLits({x, y})).lhs = lhs
         /\ Len(SortLits({x, y})) = 2
         /\ ToSet(Gate("and", lhs, SortLits({x, y})).rhs) = {x, y}
<1> DEFINE S == {x, y}
           gate == Gate("and", lhs, SortLits(S))
<1>1. S \in SUBSET LITS /\ DifferentVars(S) /\ x # y
  BY DEF DifferentVars
<1>2. Len(SortLits(S)) = 2
  BY <1>1, SortedLits, PairSize
<1> HIDE DEF S
<1>3. Normalized(gate)
  <2>1. Len(SortLits(S)) > 1
    BY <1>2
  <2> QED
    BY <1>1, <2>1, SortedNormal
<1>4. GateOK(gate) /\ gate.tag = "and" /\ gate.lhs = lhs /\ ToSet(gate.rhs) = S
  BY <1>1, SortedGate
<1> HIDE DEF gate
<1>5. GateUpheld(c, gate)
  BY <1>4 DEF GateUpheld, AndUpheld, S
<1>6. FitsFor(c, g, src, gate)
  BY <1>3, <1>4, <1>5 DEF FitsFor, NewInputs, S
<1> QED
  BY <1>2, <1>4, <1>6 DEF gate, S

(* The inputs of g that are not of the variable of src. *)
Pending(c, g, src) == \A k \in ToSet(c.gates[g].rhs) : IDX(k) = IDX(src) \/ Pend(c, k)

LEMMA OtherInputs ==
  ASSUME NEW c, NEW g, Given(c, g), NEW src \in LITS, Pending(c, g, src),
         NEW k \in ToSet(c.gates[g].rhs), IDX(k) # IDX(src), NEW m \in LITS, IDX(m) = IDX(k)
  PROVE  IDX(m) # IDX(src) /\ Pend(c, m)
<1>1. k \in LITS /\ ReprOK(c.repr)
  BY GivenFacts
<1>2. Pend(c, k)
  BY DEF Pending
<1>3. m = k \/ m = NOT(k)
  BY <1>1, SameIndex
<1> QED
  BY <1>1, <1>2, <1>3, PendNegated

LEMMA ConstantBranchFits ==
  ASSUME NEW c, NEW g, Given(c, g), c.gates[g].tag = "ite",
         NEW src \in LITS, Valued(c, src), Pending(c, g, src)
  PROVE  LET lhs  == c.gates[g].lhs
             cond == c.gates[g].rhs[1]
             t    == c.gates[g].rhs[2]
             e    == c.gates[g].rhs[3]
         IN  ~Valued(c, cond) /\ ~ (Valued(c, t) /\ Valued(c, e)) /\ (Valued(c, t) \/ Valued(c, e))
               => FitsFor(c, g, src, ConstantBranch(c, lhs, cond, t, e))
<1> DEFINE lhs  == c.gates[g].lhs
           cond == c.gates[g].rhs[1]
           t    == c.gates[g].rhs[2]
           e    == c.gates[g].rhs[3]
           R    == ToSet(c.gates[g].rhs)
           gate == ConstantBranch(c, lhs, cond, t, e)
<1> SUFFICES ASSUME ~Valued(c, cond), ~ (Valued(c, t) /\ Valued(c, e)), Valued(c, t) \/ Valued(c, e)
             PROVE  FitsFor(c, g, src, gate)
  OBVIOUS
<1>1. /\ lhs \in LITS /\ cond \in LITS /\ t \in LITS /\ e \in LITS
      /\ IDX(cond) # IDX(t) /\ IDX(cond) # IDX(e) /\ IDX(t) # IDX(e)
      /\ R = {cond, t, e}
      /\ \A G \in Propagated(c) : IteUpheld(G, lhs, cond, t, e)
  BY IteParts
<1>2. gate = IF IsTrue(c, t) THEN Gate("and", NOT(lhs), SortLits({NOT(cond), NOT(e)}))
             ELSE IF IsFalse(c, t) THEN Gate("and", lhs, SortLits({NOT(cond), e}))
             ELSE IF IsTrue(c, e) THEN Gate("and", NOT(lhs), SortLits({NOT(t), cond}))
             ELSE Gate("and", lhs, SortLits({cond, t}))
  BY DEF ConstantBranch
<1>3. ASSUME NEW k \in R, ~Valued(c, k), NEW m \in LITS, IDX(m) = IDX(k)
      PROVE  IDX(m) # IDX(src) /\ Pend(c, m)
  <2>1. k \in LITS
    BY <1>1
  <2>2. IDX(k) # IDX(src)
    BY <1>3, <2>1, ValuedNegation
  <2> QED
    BY <1>3, <2>2, OtherInputs
<1> HIDE DEF gate, lhs, cond, t, e, R
<1>4. \A l \in {lhs, cond, t, e} : NOT(l) \in LITS /\ IDX(NOT(l)) = IDX(l)
  BY <1>1, LitFacts
<1>5. \A G \in Propagated(c) : IteRules(G, lhs, NOT(lhs), cond, NOT(cond), t, NOT(t), e, NOT(e))
  BY <1>1, IteMeaning
<1>6. \A x, y \in LITS :
        (\E k, m \in R : /\ ~Valued(c, k) /\ ~Valued(c, m) /\ IDX(x) = IDX(k) /\ IDX(y) = IDX(m))
          => NewInputs(c, g, src, {x, y})
  BY <1>3 DEF NewInputs
<1>7. CASE IsTrue(c, t)
  <2>1. ~Valued(c, e)
    BY <1>7 DEF Valued
  <2>2. NewInputs(c, g, src, {NOT(cond), NOT(e)})
    BY <1>1, <1>4, <1>6, <2>1
  <2>3. \A G \in Propagated(c) : NOT(cond) \in G /\ NOT(e) \in G => NOT(lhs) \in G
    BY <1>5 DEF IteRules
  <2>4. FitsFor(c, g, src, Gate("and", NOT(lhs), SortLits({NOT(cond), NOT(e)})))
    BY <1>1, <1>4, <2>2, <2>3, PairFits
  <2> QED
    BY <1>2, <1>7, <2>4
<1>8. CASE ~IsTrue(c, t) /\ IsFalse(c, t)
  <2>1. ~Valued(c, e)
    BY <1>8 DEF Valued
  <2>2. NewInputs(c, g, src, {NOT(cond), e})
    BY <1>1, <1>4, <1>6, <2>1
  <2>3. \A G \in Propagated(c) : NOT(cond) \in G /\ e \in G => lhs \in G
    BY <1>5 DEF IteRules
  <2>4. FitsFor(c, g, src, Gate("and", lhs, SortLits({NOT(cond), e})))
    BY <1>1, <1>4, <2>2, <2>3, PairFits
  <2> QED
    BY <1>2, <1>8, <2>4
<1>9. CASE ~IsTrue(c, t) /\ ~IsFalse(c, t) /\ IsTrue(c, e)
  <2>1. ~Valued(c, t)
    BY <1>9 DEF Valued
  <2>2. NewInputs(c, g, src, {NOT(t), cond})
    BY <1>1, <1>4, <1>6, <2>1
  <2>3. \A G \in Propagated(c) : NOT(t) \in G /\ cond \in G => NOT(lhs) \in G
    BY <1>5 DEF IteRules
  <2>4. FitsFor(c, g, src, Gate("and", NOT(lhs), SortLits({NOT(t), cond})))
    BY <1>1, <1>4, <2>2, <2>3, PairFits
  <2> QED
    BY <1>2, <1>9, <2>4
<1>10. CASE ~IsTrue(c, t) /\ ~IsFalse(c, t) /\ ~IsTrue(c, e)
  <2>1. ~Valued(c, t)
    BY <1>10 DEF Valued
  <2>2. NewInputs(c, g, src, {cond, t})
    BY <1>1, <1>4, <1>6, <2>1
  <2>3. \A G \in Propagated(c) : cond \in G /\ t \in G => lhs \in G
    BY <1>5 DEF IteRules
  <2>4. FitsFor(c, g, src, Gate("and", lhs, SortLits({cond, t})))
    BY <1>1, <1>4, <2>2, <2>3, PairFits
  <2> QED
    BY <1>2, <1>10, <2>4
<1> QED
  BY <1>7, <1>8, <1>9, <1>10

LEMMA SimplifyIteUpdates ==
  ASSUME NEW c, NEW g, Given(c, g), c.gates[g].tag = "ite", SomeInputValued(c, g),
         NEW src \in LITS, Valued(c, src), Pending(c, g, src)
  PROVE  Updates(c, g, src, NoLit, SimplifyIte(c, g))
<1> DEFINE lhs  == c.gates[g].lhs
           cond == c.gates[g].rhs[1]
           t    == c.gates[g].rhs[2]
           e    == c.gates[g].rhs[3]
           gate == ConstantBranch(c, lhs, cond, t, e)
           unit == FlippedIf(IsFalse(c, t), lhs)
           other == FlippedIf(IsFalse(c, t), cond)
           d == SimplifyIte(c, g)
<1>1. /\ lhs \in LITS /\ cond \in LITS /\ t \in LITS /\ e \in LITS
      /\ ToSet(c.gates[g].rhs) = {cond, t, e}
  BY IteParts
<1>2. d = IF IsTrue(c, cond) THEN MarkGarbage(Merge(c, lhs, t), g)
          ELSE IF IsFalse(c, cond) THEN MarkGarbage(Merge(c, lhs, e), g)
          ELSE IF Valued(c, t) /\ Valued(c, e)
          THEN IF IsTrue(c, t) = IsTrue(c, e) THEN MarkGarbage(LearnUnit(c, unit), g)
               ELSE MarkGarbage(Merge(c, lhs, other), g)
          ELSE Reindex(c, g, gate, NoLit)
  BY DEF SimplifyIte
<1>3. unit \in LITS /\ other \in LITS
  BY <1>1, LitFacts DEF FlippedIf
<1>4. Valued(c, cond) \/ Valued(c, t) \/ Valued(c, e)
  BY <1>1, GivenFacts DEF SomeInputValued, LiveIte
<1>5. ~Valued(c, cond) /\ ~ (Valued(c, t) /\ Valued(c, e)) => FitsFor(c, g, src, gate)
  BY <1>4, ConstantBranchFits
<1>6. ~Valued(c, cond) /\ ~ (Valued(c, t) /\ Valued(c, e))
        => Updates(c, g, src, NoLit, Reindex(c, g, gate, NoLit))
  <2> HIDE DEF gate
  <2> QED
    BY <1>5, GivenFacts, ReindexUpdates DEF Given
<1> HIDE DEF d, gate, unit, other
<1>7. Updates(c, g, src, NoLit, d)
  BY <1>1, <1>2, <1>3, <1>6, LearnedUpdates, MergedUpdates DEF Valued
<1> QED
  BY <1>7 DEF d

LEMMA UpdatesItself ==
  ASSUME NEW c, NEW g, Given(c, g), Unique(c), NEW src \in LITS, src \notin ToSet(c.gates[g].rhs), NEW dst
  PROVE  Updates(c, g, src, dst, c)
<1>1. g \in DOMAIN c.gates /\ Advances(c, c) /\ ToSet(c.gates[g].rhs) \in SUBSET LITS
  BY GivenFacts, AdvancesItself
<1>2. \A h \in Live(c) \ {g} : ~SameInputs(c.gates[h], c.gates[g])
  BY DEF Unique, Given
<1>3. \A k \in ToSet(c.gates[g].rhs) : InputSettled(c, g, src, dst, c, k)
  BY <1>1 DEF InputSettled, Given, Leading
<1> QED
  BY <1>1, <1>2, <1>3 DEF Updates, Settled, Given

LEMMA SimplifyGateUpdates ==
  ASSUME NEW c, NEW g, Given(c, g), SomeInputValued(c, g),
         NEW src \in LITS, Valued(c, src), Pending(c, g, src)
  PROVE  Updates(c, g, src, NoLit, SimplifyGate(c, g))
<1>1. ~c.gates[g].garbage /\ c.gates[g].tag \in {"and", "xor", "ite"}
  BY GivenFacts
<1>2. CASE c.gates[g].tag = "and"
  <2>1. SimplifyGate(c, g) = SimplifyAnd(c, g)
    BY <1>1, <1>2 DEF SimplifyGate
  <2> QED
    BY <1>2, <2>1, SimplifyAndUpdates
<1>3. CASE c.gates[g].tag = "xor"
  <2>1. SimplifyGate(c, g) = SimplifyXor(c, g)
    BY <1>1, <1>3 DEF SimplifyGate
  <2> QED
    BY <1>3, <2>1, SimplifyXorUpdates
<1>4. CASE c.gates[g].tag = "ite"
  <2>1. SimplifyGate(c, g) = SimplifyIte(c, g)
    BY <1>1, <1>4 DEF SimplifyGate
  <2> QED
    BY <1>4, <2>1, SimplifyIteUpdates
<1> QED
  BY <1>1, <1>2, <1>3, <1>4

-----------------------------------------------------------------------------
(* Rewriting a gate: the literal src is replaced by dst. *)

LEMMA RewriteAndUpdates ==
  ASSUME NEW c, NEW g, Given(c, g), Unique(c), c.gates[g].tag = "and",
         NEW src \in LITS, NEW dst, RewritingFine(c, src, dst)
  PROVE  Updates(c, g, src, dst, RewriteAnd(c, g, dst, src))
<1> DEFINE lhs == c.gates[g].lhs
           R == ToSet(c.gates[g].rhs)
           N == Replace(R, src, dst)
           S == UnvaluedIn(c, N)
           contradiction == \/ NOT(lhs) \in N
                            \/ {dst, NOT(dst)} \subseteq N
                            \/ \E l \in N : IsFalse(c, l)
           d == RewriteAnd(c, g, dst, src)
<1>1. /\ IsTrue(c, lhs) => d = [c EXCEPT !.gates[g].garbage = TRUE]
      /\ ~IsTrue(c, lhs) /\ src \notin R => d = c
      /\ ~IsTrue(c, lhs) /\ src \in R => d = UpdateAnd(c, g, SortLits(S), contradiction, dst)
  BY DEF RewriteAnd, UnvaluedIn
<1>2. CASE IsTrue(c, lhs)
  <2>1. d = [c EXCEPT !.gates[g].garbage = TRUE]
    BY <1>1, <1>2
  <2>2. Updates(c, g, src, dst, [c EXCEPT !.gates[g].garbage = TRUE])
    BY GarbageUpdates
  <2> QED
    BY <2>1, <2>2
<1>3. CASE ~IsTrue(c, lhs) /\ src \notin R
  <2>1. d = c
    BY <1>1, <1>3
  <2>2. Updates(c, g, src, dst, c)
    BY <1>3, UpdatesItself
  <2> QED
    BY <2>1, <2>2
<1>4. CASE ~IsTrue(c, lhs) /\ src \in R
  <2>1. /\ R \in SUBSET LITS /\ c.fixed \in Propagated(c)
        /\ dst \in LITS /\ IDX(src) # IDX(dst) /\ Pend(c, dst)
        /\ \A G \in Propagated(c) : src \in G <=> dst \in G
    BY GivenFacts DEF RewritingFine, Equivalent
  <2>2. S \in SUBSET N /\ N \in SUBSET LITS /\ S \in SUBSET LITS /\ dst \in N
        /\ \A k \in N : k = dst \/ k \in R \ {src}
    BY <2>1 DEF UnvaluedIn, Replace
  <2>3. ASSUME ~contradiction, NEW G \in Propagated(c), S \subseteq G
        PROVE  lhs \in G
    <3>1. \A k \in N : k \in S \/ k \in c.fixed
      BY <2>3 DEF UnvaluedIn, Valued, IsTrue
    <3>2. N \subseteq G
      BY <2>3, <3>1, PropagatedFacts
    <3>3. R \subseteq G
      BY <2>1, <2>2, <3>2 DEF Replace
    <3> QED
      BY <1>4, <3>3 DEF Given, GateUpheld, AndUpheld
  <2>4. ~contradiction => S # {}
    BY <1>4, <2>1, <2>3 DEF IsTrue
  <2>5. ~contradiction => DifferentVars(S)
    <3> SUFFICES ASSUME ~contradiction, NEW k \in S, NEW l \in S, k # l
                 PROVE  IDX(k) # IDX(l)
      BY DEF DifferentVars
    <3>1. DifferentVars(R)
      BY GivenFacts, NormalInputs DEF Given
    <3>2. k \in N /\ l \in N /\ k \in LITS /\ l \in LITS
      BY <2>2
    <3>3. CASE k = dst
      BY <2>1, <2>2, <3>2, <3>3, SameIndex, LitFacts
    <3>4. CASE l = dst
      BY <2>1, <2>2, <3>2, <3>4, SameIndex, LitFacts
    <3>5. CASE k # dst /\ l # dst
      BY <2>2, <3>1, <3>2, <3>5 DEF DifferentVars
    <3> QED
      BY <3>3, <3>4, <3>5
  <2>6. NewInputs(c, g, src, S)
    BY <2>1, <2>2 DEF NewInputs
  <2>7. ~contradiction => \A G \in Propagated(c) : AndUpheld(G, lhs, S)
    BY <2>3 DEF AndUpheld
  <2> HIDE DEF S, N, contradiction
  <2>8. Updates(c, g, src, dst, UpdateAnd(c, g, SortLits(S), contradiction, dst))
    BY <2>2, <2>4, <2>5, <2>6, <2>7, UpdateAndUpdates
  <2> QED
    BY <1>1, <1>4, <2>8
<1> QED
  BY <1>2, <1>3, <1>4

LEMMA RewriteXorUpdates ==
  ASSUME NEW c, NEW g, Given(c, g), Unique(c), c.gates[g].tag = "xor",
         NEW src \in LITS, NEW dst, RewritingFine(c, src, dst)
  PROVE  Updates(c, g, src, dst, RewriteXor(c, g, dst, src))
<1> DEFINE old == c.gates[g].lhs
           R == ToSet(c.gates[g].rhs)
           N == Toggled(R, src, STRIP(dst))
           flip == Parity({l \in N : IsTrue(c, l)}) # NEGATED(dst)
           lhs == FlippedIf(flip, old)
           S == UnvaluedIn(c, N)
           d == RewriteXor(c, g, dst, src)
<1>1. /\ dst \in {old, NOT(old)} => d = [c EXCEPT !.gates[g].garbage = TRUE]
      /\ dst \notin {old, NOT(old)} /\ src \notin R => d = c
      /\ dst \notin {old, NOT(old)} /\ src \in R => d = UpdateXor(c, g, lhs, SortLits(S), dst)
  BY DEF RewriteXor, UnvaluedIn, Toggled
<1>2. CASE dst \in {old, NOT(old)}
  <2>1. d = [c EXCEPT !.gates[g].garbage = TRUE]
    BY <1>1, <1>2
  <2>2. Updates(c, g, src, dst, [c EXCEPT !.gates[g].garbage = TRUE])
    BY GarbageUpdates
  <2> QED
    BY <2>1, <2>2
<1>3. CASE dst \notin {old, NOT(old)} /\ src \notin R
  <2>1. d = c
    BY <1>1, <1>3
  <2>2. Updates(c, g, src, dst, c)
    BY <1>3, UpdatesItself
  <2> QED
    BY <2>1, <2>2
<1>4. CASE dst \notin {old, NOT(old)} /\ src \in R
  <2>1. lhs \in LITS
    BY GivenFacts DEF FlippedIf
  <2>2. /\ dst \in LITS /\ IDX(src) # IDX(dst) /\ Pend(c, dst) /\ ReprOK(c.repr)
        /\ R \subseteq Vars
    BY GivenFacts, NormalInputs DEF RewritingFine, Given
  <2>3. STRIP(dst) \in Vars /\ STRIP(dst) \in LITS /\ IDX(STRIP(dst)) = IDX(dst)
    BY <2>2, LitFacts, VarFacts DEF STRIP
  <2>4. Pend(c, STRIP(dst))
    BY <2>2, <2>3, SameIndex, PendNegated
  <2>5. \A k \in N : k = STRIP(dst) \/ k \in R \ {src}
    BY DEF Toggled
  <2>6. S \in SUBSET N /\ S \in SUBSET Vars
    BY <2>2, <2>3, <2>5 DEF UnvaluedIn
  <2>7. NewInputs(c, g, src, S)
    BY <2>2, <2>3, <2>4, <2>5, <2>6 DEF NewInputs
  <2> HIDE DEF S, N, lhs
  <2>8. Updates(c, g, src, dst, UpdateXor(c, g, lhs, SortLits(S), dst))
    BY <2>1, <2>6, <2>7, UpdateXorUpdates
  <2> QED
    BY <1>1, <1>4, <2>8
<1> QED
  BY <1>2, <1>3, <1>4

(* The normal form of an if-then-else propagates as the gate does. *)
LEMMA NormalizedUpheld ==
  ASSUME NEW c, NEW lhs \in LITS, NEW cond \in LITS, NEW t \in LITS, NEW e \in LITS,
         \A G \in Propagated(c) : IteUpheld(G, lhs, cond, t, e)
  PROVE  GateUpheld(c, NormalizedIte(lhs, cond, t, e))
<1> DEFINE gate == NormalizedIte(lhs, cond, t, e)
           holds(l, b, x, y) == \A G \in Propagated(c) : IteUpheld(G, l, b, x, y)
<1>1. \A l, b, x, y \in LITS : holds(l, b, x, y) =>
        /\ holds(l, NOT(b), y, x)
        /\ holds(NOT(l), b, NOT(x), NOT(y))
  <2> SUFFICES ASSUME NEW l \in LITS, NEW b \in LITS, NEW x \in LITS, NEW y \in LITS,
                      NEW G \in Propagated(c), IteUpheld(G, l, b, x, y)
               PROVE  IteUpheld(G, l, NOT(b), y, x) /\ IteUpheld(G, NOT(l), b, NOT(x), NOT(y))
    OBVIOUS
  <2>1. \A k \in {l, b, x, y} : NOT(k) \in LITS /\ NOT(NOT(k)) = k
    BY LitFacts
  <2>2. IteRules(G, l, NOT(l), b, NOT(b), x, NOT(x), y, NOT(y))
    BY IteMeaning
  <2>3. IteUpheld(G, l, NOT(b), y, x)
          <=> IteRules(G, l, NOT(l), NOT(b), NOT(NOT(b)), y, NOT(y), x, NOT(x))
    BY <2>1, IteMeaning
  <2>4. IteUpheld(G, NOT(l), b, NOT(x), NOT(y))
          <=> IteRules(G, NOT(l), NOT(NOT(l)), b, NOT(b), NOT(x), NOT(NOT(x)), NOT(y), NOT(NOT(y)))
    BY <2>1, IteMeaning
  <2> QED
    BY <2>1, <2>2, <2>3, <2>4 DEF IteRules
<1> HIDE DEF holds
<1>2. holds(lhs, cond, t, e)
  BY DEF holds
<1> DEFINE x == IF NEGATED(cond) THEN e ELSE t
           y == IF NEGATED(cond) THEN t ELSE e
<1>3. x \in LITS /\ y \in LITS /\ NOT(x) \in LITS /\ NOT(y) \in LITS
      /\ STRIP(cond) \in LITS /\ NOT(lhs) \in LITS
  BY LitFacts DEF STRIP
<1>4. holds(lhs, STRIP(cond), x, y)
  <2>1. NEGATED(cond) => STRIP(cond) = NOT(cond)
    BY LitFacts DEF STRIP
  <2>2. ~NEGATED(cond) => STRIP(cond) = cond
    BY LitFacts DEF STRIP
  <2> QED
    BY <1>1, <1>2, <2>1, <2>2
<1>5. gate = IF NEGATED(x) THEN Gate("ite", NOT(lhs), <<STRIP(cond), NOT(x), NOT(y)>>)
             ELSE Gate("ite", lhs, <<STRIP(cond), x, y>>)
  BY DEF NormalizedIte
<1> HIDE DEF x, y, gate
<1>6. holds(NOT(lhs), STRIP(cond), NOT(x), NOT(y))
  BY <1>1, <1>3, <1>4
<1>7. /\ gate.tag = "ite"
      /\ holds(gate.lhs, gate.rhs[1], gate.rhs[2], gate.rhs[3])
  <2>1. CASE NEGATED(x)
    <3>1. /\ gate.tag = "ite" /\ gate.lhs = NOT(lhs) /\ gate.rhs[1] = STRIP(cond)
          /\ gate.rhs[2] = NOT(x) /\ gate.rhs[3] = NOT(y)
      BY <1>5, <2>1, GateFields
    <3> QED
      BY <1>6, <3>1
  <2>2. CASE ~NEGATED(x)
    <3>1. /\ gate.tag = "ite" /\ gate.lhs = lhs /\ gate.rhs[1] = STRIP(cond)
          /\ gate.rhs[2] = x /\ gate.rhs[3] = y
      BY <1>5, <2>2, GateFields
    <3> QED
      BY <1>4, <3>1
  <2> QED
    BY <2>1, <2>2
<1> QED
  BY <1>7 DEF GateUpheld, holds, gate

LEMMA NormalizedOK ==
  ASSUME NEW lhs \in LITS, NEW cond \in LITS, NEW t \in LITS, NEW e \in LITS,
         IDX(cond) # IDX(t), IDX(cond) # IDX(e), IDX(t) # IDX(e)
  PROVE  GateOK(NormalizedIte(lhs, cond, t, e))
<1>1. {} \in SUBSET Models /\ IteHolds({}, lhs, cond, t, e)
  BY DEF IteHolds
<1> QED
  BY <1>1, NormalizedIteFacts

(* What an if-then-else turns into propagates as the gate does, and the
   binary clauses of a conjunction are not falsified. *)
Turned(c, g, src, gate) ==
  /\ FitsFor(c, g, src, gate)
  /\ gate.tag \in {"and", "xor"}
  /\ gate.tag = "and" =>
       /\ Len(gate.rhs) = 2
       /\ \A G \in Propagated(c) : \A k \in ToSet(gate.rhs) : ~ (gate.lhs \in G /\ NOT(k) \in G)

LEMMA PairTurned ==
  ASSUME NEW c, NEW g, Given(c, g), NEW src, NEW lhs \in LITS, NEW x \in LITS, NEW y \in LITS,
         IDX(x) # IDX(y), NewInputs(c, g, src, {x, y}),
         \A G \in Propagated(c) : /\ x \in G /\ y \in G => lhs \in G
                                  /\ ~ (lhs \in G /\ NOT(x) \in G)
                                  /\ ~ (lhs \in G /\ NOT(y) \in G)
  PROVE  Turned(c, g, src, Gate("and", lhs, SortLits({x, y})))
<1> DEFINE s == SortLits({x, y})
           gate == Gate("and", lhs, s)
<1>3. \A G \in Propagated(c) : x \in G /\ y \in G => lhs \in G
  OBVIOUS
<1>1. FitsFor(c, g, src, gate) /\ Len(s) = 2 /\ ToSet(gate.rhs) = {x, y}
  <2>1. Len(s) = 2
    BY <1>3, PairFits
  <2>2. FitsFor(c, g, src, gate)
    BY <1>3, PairFits
  <2>3. {x, y} \in SUBSET LITS
    OBVIOUS
  <2>4. \A S \in SUBSET LITS : ToSet(SortLits(S)) = S
    BY SortedLits
  <2> QED
    BY <2>1, <2>2, <2>3, <2>4, GateFields
<1>2. gate.tag = "and" /\ gate.lhs = lhs /\ gate.rhs = s
  BY GateFields
<1> HIDE DEF gate, s
<1>4. Turned(c, g, src, gate)
  BY <1>1, <1>2 DEF Turned
<1> QED
  BY <1>4 DEF gate, s

LEMMA XorTurned ==
  ASSUME NEW c, NEW g, Given(c, g), NEW src, NEW lhs \in LITS, NEW x \in LITS, NEW y \in LITS,
         IDX(x) # IDX(y), NewInputs(c, g, src, {STRIP(x), STRIP(y)})
  PROVE  Turned(c, g, src, XorGate(lhs, x, y))
<1> DEFINE S == {STRIP(x), STRIP(y)}
           l == FlippedIf(NEGATED(x) # NEGATED(y), lhs)
           gate == Gate("xor", l, SortLits(S))
<1>1. /\ STRIP(x) \in Vars /\ STRIP(y) \in Vars /\ STRIP(x) # STRIP(y)
      /\ STRIP(x) \in LITS /\ STRIP(y) \in LITS
      /\ IDX(STRIP(x)) = STRIP(x) /\ IDX(STRIP(y)) = STRIP(y)
  BY LitFacts, VarFacts DEF STRIP
<1>2. S \in SUBSET LITS /\ S \subseteq Vars /\ DifferentVars(S)
  BY <1>1 DEF DifferentVars
<1>3. Len(SortLits(S)) = 2
  BY <1>1, <1>2, SortedLits, PairSize
<1>4. l \in LITS
  BY LitFacts DEF FlippedIf
<1>5. gate = XorGate(lhs, x, y)
  BY DEF XorGate
<1> HIDE DEF S, l
<1>6. GateOK(gate) /\ gate.tag = "xor" /\ ToSet(gate.rhs) = S
  BY <1>2, <1>4, SortedGate
<1>7. Normalized(gate)
  <2>1. Len(SortLits(S)) > 1
    BY <1>3
  <2> QED
    BY <1>2, <2>1, SortedNormal
<1> HIDE DEF gate
<1>8. GateUpheld(c, gate)
  BY <1>6 DEF GateUpheld
<1>9. Turned(c, g, src, gate)
  BY <1>6, <1>7, <1>8 DEF Turned, FitsFor, NewInputs, S
<1> QED
  BY <1>5, <1>9

LEMMA DegenerateTurned ==
  ASSUME NEW c, NEW g, Given(c, g), c.gates[g].tag = "ite",
         NEW src \in ToSet(c.gates[g].rhs), Pending(c, g, src),
         NEW dst, RewritingFine(c, src, dst),
         IDX(dst) \in {IDX(l) : l \in ToSet(c.gates[g].rhs) \ {src}},
         {src, dst} # {c.gates[g].rhs[2], c.gates[g].rhs[3]}
  PROVE  Turned(c, g, src, Degenerate(c.gates[g].lhs, c.gates[g].rhs[1], c.gates[g].rhs[2],
                                      c.gates[g].rhs[3], dst, src))
<1> DEFINE lhs  == c.gates[g].lhs
           cond == c.gates[g].rhs[1]
           t    == c.gates[g].rhs[2]
           e    == c.gates[g].rhs[3]
           R    == ToSet(c.gates[g].rhs)
           gate == Degenerate(lhs, cond, t, e, dst, src)
           and(l, k, m) == Gate("and", l, SortLits({k, m}))
<1>1. /\ lhs \in LITS /\ cond \in LITS /\ t \in LITS /\ e \in LITS
      /\ IDX(cond) # IDX(t) /\ IDX(cond) # IDX(e) /\ IDX(t) # IDX(e)
      /\ R = {cond, t, e}
      /\ \A G \in Propagated(c) : IteUpheld(G, lhs, cond, t, e)
  BY IteParts
<1>2. gate = IF src = cond /\ dst \in {t, NOT(e)} THEN and(NOT(lhs), NOT(t), NOT(e))
             ELSE IF src = cond THEN and(lhs, t, e)
             ELSE IF src = t /\ dst = cond THEN and(NOT(lhs), NOT(cond), NOT(e))
             ELSE IF src = t /\ dst = NOT(cond) THEN and(lhs, NOT(cond), e)
             ELSE IF src = t THEN XorGate(lhs, cond, e)
             ELSE IF dst = cond THEN and(lhs, cond, t)
             ELSE IF dst = NOT(cond) THEN and(NOT(lhs), cond, NOT(t))
             ELSE XorGate(NOT(lhs), cond, t)
  BY DEF Degenerate
<1>3. dst \in LITS /\ src \in LITS
  BY <1>1 DEF RewritingFine
<1>4. ASSUME NEW k \in R, k # src, NEW m \in LITS, IDX(m) = IDX(k)
      PROVE  IDX(m) # IDX(src) /\ Pend(c, m)
  <2>1. k \in LITS /\ IDX(k) # IDX(src)
    BY <1>1, <1>4
  <2> QED
    BY <1>3, <1>4, <2>1, OtherInputs
<1>5. \A x, y \in LITS :
        (\E k, m \in R : k # src /\ m # src /\ IDX(x) = IDX(k) /\ IDX(y) = IDX(m))
          => NewInputs(c, g, src, {x, y})
  BY <1>4 DEF NewInputs
<1>6. \E l \in R \ {src} : dst = l \/ dst = NOT(l)
  BY <1>1, <1>3, SameIndex
<1>7. {src, dst} # {t, e} /\ src \in R
  OBVIOUS
<1>8. /\ NOT(lhs) \in LITS /\ NOT(cond) \in LITS /\ NOT(t) \in LITS /\ NOT(e) \in LITS
      /\ IDX(NOT(cond)) = IDX(cond) /\ IDX(NOT(t)) = IDX(t) /\ IDX(NOT(e)) = IDX(e)
      /\ STRIP(cond) \in LITS /\ STRIP(t) \in LITS /\ STRIP(e) \in LITS
      /\ IDX(STRIP(cond)) = IDX(cond) /\ IDX(STRIP(t)) = IDX(t) /\ IDX(STRIP(e)) = IDX(e)
      /\ NOT(NOT(lhs)) = lhs /\ NOT(NOT(cond)) = cond /\ NOT(NOT(t)) = t /\ NOT(NOT(e)) = e
      /\ cond # NOT(cond)
  BY <1>1, LitFacts, VarFacts DEF STRIP
<1>9. \A G \in Propagated(c) :
        /\ IteRules(G, lhs, NOT(lhs), cond, NOT(cond), t, NOT(t), e, NOT(e))
        /\ src \in G <=> dst \in G
        /\ NOT(src) \in G <=> NOT(dst) \in G
        /\ ~ (lhs \in G /\ NOT(lhs) \in G) /\ ~ (cond \in G /\ NOT(cond) \in G)
        /\ ~ (t \in G /\ NOT(t) \in G) /\ ~ (e \in G /\ NOT(e) \in G)
  BY <1>1, IteMeaning, PropagatedFacts DEF RewritingFine, Equivalent
<1> HIDE DEF gate, lhs, cond, t, e, R
<1> SUFFICES Turned(c, g, src, gate)
  BY DEF gate, lhs, cond, t, e
<1>10. CASE src = cond
  <2>1. CASE dst \in {t, NOT(e)}
    <3>1. gate = and(NOT(lhs), NOT(t), NOT(e))
      BY <1>2, <1>10, <2>1
    <3>2. NewInputs(c, g, src, {NOT(t), NOT(e)})
      BY <1>1, <1>5, <1>8, <1>10
    <3>3. \A G \in Propagated(c) : /\ NOT(t) \in G /\ NOT(e) \in G => NOT(lhs) \in G
                                   /\ ~ (NOT(lhs) \in G /\ t \in G)
                                   /\ ~ (NOT(lhs) \in G /\ e \in G)
      BY <1>8, <1>9, <1>10, <2>1 DEF IteRules
    <3> QED
      BY <1>1, <1>8, <3>1, <3>2, <3>3, PairTurned
  <2>2. CASE dst \in {NOT(t), e}
    <3>1. gate = and(lhs, t, e)
      BY <1>1, <1>2, <1>8, <1>10, <2>2, LitFacts
    <3>2. NewInputs(c, g, src, {t, e})
      BY <1>1, <1>5, <1>10
    <3>3. \A G \in Propagated(c) : /\ t \in G /\ e \in G => lhs \in G
                                   /\ ~ (lhs \in G /\ NOT(t) \in G)
                                   /\ ~ (lhs \in G /\ NOT(e) \in G)
      BY <1>8, <1>9, <1>10, <2>2 DEF IteRules
    <3> QED
      BY <1>1, <3>1, <3>2, <3>3, PairTurned
  <2> QED
    BY <1>1, <1>6, <1>10, <2>1, <2>2
<1>11. CASE src = t
  <2>1. CASE dst = cond
    <3>1. gate = and(NOT(lhs), NOT(cond), NOT(e))
      BY <1>1, <1>2, <1>11, <2>1
    <3>2. NewInputs(c, g, src, {NOT(cond), NOT(e)})
      BY <1>1, <1>5, <1>8, <1>11
    <3>3. \A G \in Propagated(c) : /\ NOT(cond) \in G /\ NOT(e) \in G => NOT(lhs) \in G
                                   /\ ~ (NOT(lhs) \in G /\ cond \in G)
                                   /\ ~ (NOT(lhs) \in G /\ e \in G)
      BY <1>8, <1>9, <1>11, <2>1 DEF IteRules
    <3> QED
      BY <1>1, <1>8, <3>1, <3>2, <3>3, PairTurned
  <2>2. CASE dst = NOT(cond)
    <3>1. gate = and(lhs, NOT(cond), e)
      BY <1>1, <1>2, <1>8, <1>11, <2>2
    <3>2. NewInputs(c, g, src, {NOT(cond), e})
      BY <1>1, <1>5, <1>8, <1>11
    <3>3. \A G \in Propagated(c) : /\ NOT(cond) \in G /\ e \in G => lhs \in G
                                   /\ ~ (lhs \in G /\ cond \in G)
                                   /\ ~ (lhs \in G /\ NOT(e) \in G)
      BY <1>8, <1>9, <1>11, <2>2 DEF IteRules
    <3> QED
      BY <1>1, <1>8, <3>1, <3>2, <3>3, PairTurned
  <2>3. CASE dst # cond /\ dst # NOT(cond)
    <3>1. gate = XorGate(lhs, cond, e)
      BY <1>1, <1>2, <1>11, <2>3
    <3>2. NewInputs(c, g, src, {STRIP(cond), STRIP(e)})
      BY <1>1, <1>5, <1>8, <1>11
    <3> QED
      BY <1>1, <3>1, <3>2, XorTurned
  <2> QED
    BY <2>1, <2>2, <2>3
<1>12. CASE src = e
  <2>1. CASE dst = cond
    <3>1. gate = and(lhs, cond, t)
      BY <1>1, <1>2, <1>12, <2>1
    <3>2. NewInputs(c, g, src, {cond, t})
      BY <1>1, <1>5, <1>12
    <3>3. \A G \in Propagated(c) : /\ cond \in G /\ t \in G => lhs \in G
                                   /\ ~ (lhs \in G /\ NOT(cond) \in G)
                                   /\ ~ (lhs \in G /\ NOT(t) \in G)
      BY <1>8, <1>9, <1>12, <2>1 DEF IteRules
    <3> QED
      BY <1>1, <3>1, <3>2, <3>3, PairTurned
  <2>2. CASE dst = NOT(cond)
    <3>1. gate = and(NOT(lhs), cond, NOT(t))
      BY <1>1, <1>2, <1>8, <1>12, <2>2
    <3>2. NewInputs(c, g, src, {cond, NOT(t)})
      BY <1>1, <1>5, <1>8, <1>12
    <3>3. \A G \in Propagated(c) : /\ cond \in G /\ NOT(t) \in G => NOT(lhs) \in G
                                   /\ ~ (NOT(lhs) \in G /\ NOT(cond) \in G)
                                   /\ ~ (NOT(lhs) \in G /\ t \in G)
      BY <1>8, <1>9, <1>12, <2>2 DEF IteRules
    <3> QED
      BY <1>1, <1>8, <3>1, <3>2, <3>3, PairTurned
  <2>3. CASE dst # cond /\ dst # NOT(cond)
    <3>1. gate = XorGate(NOT(lhs), cond, t)
      BY <1>1, <1>2, <1>12, <2>3
    <3>2. NewInputs(c, g, src, {STRIP(cond), STRIP(t)})
      BY <1>1, <1>5, <1>8, <1>12
    <3> QED
      BY <1>1, <1>8, <3>1, <3>2, XorTurned
  <2> QED
    BY <2>1, <2>2, <2>3
<1> QED
  BY <1>1, <1>7, <1>10, <1>11, <1>12

(* The binary clauses of the conjunction are added afterwards. *)
LEMMA BinariesUpdate ==
  ASSUME NEW c, NEW g, Given(c, g), NEW src, NEW dst, NEW gate, Turned(c, g, src, gate),
         gate.tag = "and",
         NEW d, Shape(d), Updates(c, g, src, dst, d)
  PROVE  Updates(c, g, src, dst, AddBinariesOf(d, gate))
<1> DEFINE lhs == gate.lhs
           x == gate.rhs[1]
           y == gate.rhs[2]
           e == AddBinary(d, NOT(lhs), x)
           f == AddBinary(e, NOT(lhs), y)
<1>1. /\ lhs \in LITS /\ x \in LITS /\ y \in LITS /\ NOT(lhs) \in LITS /\ NOT(NOT(lhs)) = lhs
      /\ x \in ToSet(gate.rhs) /\ y \in ToSet(gate.rhs)
  <2>1. gate.rhs \in Seq(LITS) /\ Len(gate.rhs) = 2 /\ gate.lhs \in LITS
    BY DEF Turned, FitsFor, GateOK
  <2>2. x \in ToSet(gate.rhs) /\ y \in ToSet(gate.rhs) /\ x \in LITS /\ y \in LITS
    BY <2>1 DEF ToSet
  <2> QED
    BY <2>1, <2>2, LitFacts
<1>2. f = AddBinariesOf(d, gate)
  BY DEF AddBinariesOf
<1> HIDE DEF lhs, x, y
<1>3. \A b : Advances(c, b) /\ ~b.inconsistent =>
        ~ (IsFalse(b, NOT(lhs)) /\ IsFalse(b, x)) /\ ~ (IsFalse(b, NOT(lhs)) /\ IsFalse(b, y))
  <2> SUFFICES ASSUME NEW b, Advances(c, b), ~b.inconsistent
               PROVE  ~ (IsFalse(b, NOT(lhs)) /\ IsFalse(b, x)) /\ ~ (IsFalse(b, NOT(lhs)) /\ IsFalse(b, y))
    OBVIOUS
  <2>1. b.fixed \in Propagated(b)
    BY DEF Advances, Progress, UpWell
  <2>2. b.fixed \in Propagated(c)
    BY <2>1, UpheldStays
  <2> QED
    BY <1>1, <2>2 DEF Turned, IsFalse, lhs
<1>4. Advances(c, d) /\ Healthy(d)
  BY StaysHealthy DEF Updates
<1>5. Advances(d, e)
  BY <1>1, <1>3, <1>4, AddBinaryAdvances
<1>6. Sane({}, d) /\ {} \in SUBSET Models
  BY DEF Sane, Consequences, SatisfyAll, SatisfyLits, Merged, Equivalent, HoldGates
<1>7. Sane({}, e)
  BY <1>1, <1>6, AddBinaryAdds DEF Adds
<1>8. Shape(e) /\ Healthy(e) /\ Advances(c, e) /\ IsClosure(d) /\ IsClosure(e)
  BY <1>4, <1>5, <1>7, StaysHealthy, AdvancesTransitive DEF Sane, Shape
<1>9. SameGates(d, e) /\ SameGates(e, f)
  BY <1>8, AddBinaryLeavesGates DEF LeavesGates
<1> HIDE DEF e
<1>10. Advances(e, f)
  BY <1>1, <1>3, <1>8, AddBinaryAdvances
<1> HIDE DEF f
<1>11. Advances(d, f) /\ SameGates(d, f)
  BY <1>5, <1>9, <1>10, AdvancesTransitive DEF SameGates
<1> QED
  BY <1>2, <1>11, UpdatesAfter

LEMMA RewriteIteUpdates ==
  ASSUME NEW c, NEW g, Given(c, g), Unique(c), c.gates[g].tag = "ite",
         NEW src \in LITS, Pending(c, g, src), NEW dst, RewritingFine(c, src, dst)
  PROVE  Updates(c, g, src, dst, RewriteIte(c, g, dst, src))
<1> DEFINE lhs == c.gates[g].lhs
           cond == c.gates[g].rhs[1]
           t == c.gates[g].rhs[2]
           e == c.gates[g].rhs[3]
           R == ToSet(c.gates[g].rhs)
           new(l) == IF l = src THEN dst ELSE l
           others == {IDX(l) : l \in R \ {src}}
           turned == Degenerate(lhs, cond, t, e, dst, src)
           normal == NormalizedIte(lhs, new(cond), new(t), new(e))
           put == Reindex(c, g, turned, dst)
           d == RewriteIte(c, g, dst, src)
<1>1. /\ lhs \in LITS /\ cond \in LITS /\ t \in LITS /\ e \in LITS
      /\ IDX(cond) # IDX(t) /\ IDX(cond) # IDX(e) /\ IDX(t) # IDX(e)
      /\ R = {cond, t, e}
      /\ \A G \in Propagated(c) : IteUpheld(G, lhs, cond, t, e)
  BY IteParts
<1>2. /\ dst \in LITS /\ IDX(src) # IDX(dst) /\ Pend(c, dst)
      /\ \A G \in Propagated(c) : (src \in G <=> dst \in G) /\ (NOT(src) \in G <=> NOT(dst) \in G)
      /\ g \in DOMAIN c.gates /\ Shape(c) /\ UpWell(c) /\ ~c.inconsistent
      /\ Normalized(c.gates[g]) /\ Leading(c, g) /\ ReprOK(c.repr)
  BY GivenFacts DEF RewritingFine, Equivalent, Given
<1>3. d = IF src \notin R THEN c
          ELSE IF IDX(dst) \notin others THEN Reindex(c, g, normal, dst)
          ELSE IF {src, dst} = {t, e} THEN MarkGarbage(Merge(c, lhs, dst), g)
          ELSE IF Matching(c, turned, g) = {} /\ turned.tag = "and"
          THEN AddBinariesOf(put, turned) ELSE put
  BY DEF RewriteIte
<1>4. src \in R /\ IDX(dst) \in others /\ {src, dst} # {t, e} => Turned(c, g, src, turned)
  BY DegenerateTurned
<1>5. src \notin R => Updates(c, g, src, dst, c)
  BY UpdatesItself
<1>6. Updates(c, g, src, dst, MarkGarbage(Merge(c, lhs, dst), g))
  BY <1>1, <1>2, MergedUpdates
<1>7. \A k \in R : \A m \in LITS : IDX(m) = IDX(k) /\ IDX(k) # IDX(src) => IDX(m) # IDX(src) /\ Pend(c, m)
  BY OtherInputs
<1>8. FitsFor(c, g, src, turned) => Updates(c, g, src, dst, put)
  <2> HIDE DEF turned
  <2> QED
    BY <1>2, ReindexUpdates
<1>9. FitsFor(c, g, src, normal) => Updates(c, g, src, dst, Reindex(c, g, normal, dst))
  <2> HIDE DEF normal
  <2> QED
    BY <1>2, ReindexUpdates
<1>10. ToSet(c.gates[g].rhs) = R
  OBVIOUS
<1>11. GateOK(turned) /\ turned.tag # "ite" => Shape(put)
  <2>1. Sane({}, c) /\ {} \in SUBSET Models
    BY <1>2 DEF Sane, Consequences, SatisfyAll, SatisfyLits, Merged, Equivalent, HoldGates
  <2>2. \A gate : Implied({}, gate)
    BY DEF Implied
  <2> HIDE DEF turned
  <2>3. ASSUME GateOK(turned), turned.tag # "ite"
        PROVE  Keeps({}, NoLit, c, put)
    BY <1>2, <2>1, <2>2, <2>3, ReindexKeeps
  <2> QED
    BY <2>3 DEF Keeps, Sane
<1> HIDE DEF lhs, cond, t, e, R, d
<1> SUFFICES Updates(c, g, src, dst, d)
  BY DEF d
<1>12. CASE src \notin R
  BY <1>3, <1>5, <1>12
<1>13. CASE src \in R /\ IDX(dst) \notin others
  <2>1. /\ new(cond) \in LITS /\ new(t) \in LITS /\ new(e) \in LITS
        /\ \A l \in R : IDX(new(l)) = IF l = src THEN IDX(dst) ELSE IDX(l)
    BY <1>1, <1>2
  <2>2. \A l \in R : l # src => IDX(dst) # IDX(l)
    BY <1>13
  <2>3. IDX(new(cond)) # IDX(new(t)) /\ IDX(new(cond)) # IDX(new(e)) /\ IDX(new(t)) # IDX(new(e))
    <3> HIDE DEF new
    <3> QED
      BY <1>1, <2>1, <2>2
  <2>4. \A G \in Propagated(c) : IteUpheld(G, lhs, new(cond), new(t), new(e))
    <3>1. \A G \in Propagated(c) : \A l \in R :
            (new(l) \in G <=> l \in G) /\ (NOT(new(l)) \in G <=> NOT(l) \in G)
      BY <1>2
    <3> HIDE DEF new
    <3>2. \A G \in Propagated(c) :
             IteRules(G, lhs, NOT(lhs), cond, NOT(cond), t, NOT(t), e, NOT(e))
      BY <1>1, IteMeaning
    <3>3. \A G \in Propagated(c) :
             IteRules(G, lhs, NOT(lhs), new(cond), NOT(new(cond)), new(t), NOT(new(t)), new(e), NOT(new(e)))
      BY <1>1, <3>1, <3>2 DEF IteRules
    <3> QED
      BY <1>1, <2>1, <3>3, IteMeaning
  <2>5. \A k \in {IDX(new(cond)), IDX(new(t)), IDX(new(e))} :
           k = IDX(dst) \/ \E l \in R : k = IDX(l) /\ IDX(l) # IDX(src)
    <3> HIDE DEF new
    <3> QED
      BY <1>1, <1>13, <2>1
  <2> DEFINE a == new(cond)
             b == new(t)
             n == new(e)
  <2>6. /\ a \in LITS /\ b \in LITS /\ n \in LITS
        /\ IDX(a) # IDX(b) /\ IDX(a) # IDX(n) /\ IDX(b) # IDX(n)
        /\ \A G \in Propagated(c) : IteUpheld(G, lhs, a, b, n)
        /\ normal = NormalizedIte(lhs, a, b, n)
        /\ \A k \in {IDX(a), IDX(b), IDX(n)} :
             k = IDX(dst) \/ \E l \in R : k = IDX(l) /\ IDX(l) # IDX(src)
    BY <2>1, <2>3, <2>4, <2>5
  <2> HIDE DEF a, b, n, normal
  <2>7. /\ GateOK(normal) /\ Normalized(normal) /\ GateUpheld(c, normal)
        /\ ToSet(normal.rhs) \subseteq LITS
        /\ \A k \in ToSet(normal.rhs) : IDX(k) \in {IDX(a), IDX(b), IDX(n)}
    BY <1>1, <2>6, NormalizedOK, IteNormal, NormalizedUpheld
  <2>8. ASSUME NEW k \in ToSet(normal.rhs)
        PROVE  IDX(k) # IDX(src) /\ Pend(c, k)
    <3>1. k \in LITS
      BY <2>7
    <3>2. IDX(k) = IDX(dst) \/ \E l \in R : IDX(k) = IDX(l) /\ IDX(l) # IDX(src)
      BY <2>6, <2>7
    <3>3. CASE IDX(k) = IDX(dst)
      BY <1>2, <3>1, <3>3, SameIndex, PendNegated
    <3>4. CASE \E l \in R : IDX(k) = IDX(l) /\ IDX(l) # IDX(src)
      BY <1>7, <3>1, <3>4
    <3> QED
      BY <3>2, <3>3, <3>4
  <2>9. FitsFor(c, g, src, normal)
    BY <2>7, <2>8 DEF FitsFor
  <2> QED
    BY <1>3, <1>9, <1>13, <2>9
<1>14. CASE src \in R /\ IDX(dst) \in others /\ {src, dst} = {t, e}
  <2>1. d = MarkGarbage(Merge(c, lhs, dst), g)
    BY <1>3, <1>14
  <2> QED
    BY <1>6, <2>1
<1>15. CASE src \in R /\ IDX(dst) \in others /\ {src, dst} # {t, e}
  <2>1. Turned(c, g, src, turned)
    BY <1>4, <1>15
  <2>2. d = IF Matching(c, turned, g) = {} /\ turned.tag = "and"
            THEN AddBinariesOf(put, turned) ELSE put
    BY <1>3, <1>15
  <2> HIDE DEF turned, put
  <2>3. Updates(c, g, src, dst, put) /\ Shape(put)
    BY <1>8, <1>11, <2>1 DEF Turned, FitsFor
  <2>4. turned.tag = "and" => Updates(c, g, src, dst, AddBinariesOf(put, turned))
    BY <2>1, <2>3, BinariesUpdate
  <2> QED
    BY <2>2, <2>3, <2>4
<1> QED
  BY <1>12, <1>13, <1>14, <1>15

LEMMA ConnectUpdates ==
  ASSUME NEW c, NEW g \in DOMAIN c.gates, NEW src, NEW dst \in LITS,
         NEW d, Updates(c, g, src, dst, d), IsClosure(d)
  PROVE  /\ Updates(c, g, src, dst, Connect(d, {dst}, g))
         /\ Updates(c, g, src, NoLit, Connect(d, {dst}, g))
<1> DEFINE os == [l \in LITS |-> IF l \in {dst} THEN d.occurrences[l] \cup {g} ELSE d.occurrences[l]]
           e == SetOccurrences(d, os)
<1>1. e = Connect(d, {dst}, g)
  BY DEF Connect, SetOccurrences
<1>2. \A l \in LITS : d.occurrences[l] \subseteq os[l]
  OBVIOUS
<1>3. g \in os[dst]
  OBVIOUS
<1> HIDE DEF os
<1>4. e.gates = d.gates /\ e.occurrences = os
  BY SetOccurrencesFacts
<1>5. Healthy(d)
  BY StaysHealthy DEF Updates
<1>6. Advances(d, e)
  BY <1>2, <1>5, OccurrencesAdvance
<1> HIDE DEF e
<1>7. Advances(c, e)
  BY <1>6, AdvancesTransitive DEF Updates
<1>8. ASSUME ~e.inconsistent, ~e.gates[g].garbage
      PROVE  /\ GateUpheld(e, e.gates[g])
             /\ \A h \in Live(c) \ {g} : ~SameInputs(c.gates[h], e.gates[g])
             /\ \A k \in ToSet(e.gates[g].rhs) :
                  InputSettled(c, g, src, dst, e, k) /\ InputSettled(c, g, src, NoLit, e, k)
  <2>1. ~d.inconsistent
    BY <1>6, <1>8 DEF Advances, Extends
  <2>2. Settled(c, g, src, dst, d)
    BY <1>4, <1>8, <2>1 DEF Updates
  <2>3. GateUpheld(e, e.gates[g])
    BY <1>4, <1>6, <2>2, UpheldStays DEF Settled
  <2>4. ASSUME NEW k \in ToSet(e.gates[g].rhs)
        PROVE  InputSettled(c, g, src, dst, e, k) /\ InputSettled(c, g, src, NoLit, e, k)
    <3>1. InputSettled(c, g, src, dst, d, k)
      BY <1>4, <2>2 DEF Settled
    <3>2. g \in e.occurrences[k]
      BY <1>2, <1>3, <1>4, <3>1 DEF InputSettled
    <3>3. Pend(d, k) => Pend(e, k)
      BY <1>6, <1>8, <3>1, PendStays DEF InputSettled
    <3> QED
      BY <3>1, <3>2, <3>3 DEF InputSettled
  <2> QED
    BY <1>4, <2>2, <2>3, <2>4 DEF Settled
<1>9. Updates(c, g, src, dst, e) /\ Updates(c, g, src, NoLit, e)
  BY <1>4, <1>7, <1>8 DEF Updates, Settled
<1> QED
  BY <1>1, <1>9

LEMMA RewriteGateUpdates ==
  ASSUME NEW c, NEW g, Given(c, g), Unique(c),
         NEW src \in LITS, Pending(c, g, src), NEW dst, RewritingFine(c, src, dst)
  PROVE  Updates(c, g, src, NoLit, RewriteGate(c, g, dst, src))
<1> DEFINE gate == c.gates[g]
           done == CASE gate.garbage -> c
                     [] ~gate.garbage /\ gate.tag = "and" -> RewriteAnd(c, g, dst, src)
                     [] ~gate.garbage /\ gate.tag = "xor" -> RewriteXor(c, g, dst, src)
                     [] ~gate.garbage /\ gate.tag = "ite" -> RewriteIte(c, g, dst, src)
           after == done.gates[g]
<1>1. gate.tag \in {"and", "xor", "ite"} /\ ~gate.garbage /\ g \in DOMAIN c.gates
  BY GivenFacts
<1>2. dst \in LITS
  BY DEF RewritingFine
<1>3. Sane({}, c) /\ {} \in SUBSET Models /\ Equivalent({}, src, dst)
  BY DEF Given, Sane, Consequences, SatisfyAll, SatisfyLits, Merged, Equivalent, HoldGates
<1>4. Updates(c, g, src, dst, done) /\ IsClosure(done)
  <2>1. CASE gate.tag = "and"
    <3>1. done = RewriteAnd(c, g, dst, src)
      BY <1>1, <2>1
    <3> HIDE DEF done
    <3>2. Keeps({}, NoLit, c, RewriteAnd(c, g, dst, src))
      BY <1>1, <1>2, <1>3, <2>1, RewriteAndKeeps
    <3> QED
      BY <2>1, <3>1, <3>2, RewriteAndUpdates DEF Keeps, Sane, Shape
  <2>2. CASE gate.tag = "xor"
    <3>1. done = RewriteXor(c, g, dst, src)
      BY <1>1, <2>2
    <3> HIDE DEF done
    <3>2. Keeps({}, NoLit, c, RewriteXor(c, g, dst, src))
      BY <1>1, <1>2, <1>3, <2>2, RewriteXorKeeps
    <3> QED
      BY <2>2, <3>1, <3>2, RewriteXorUpdates DEF Keeps, Sane, Shape
  <2>3. CASE gate.tag = "ite"
    <3>1. done = RewriteIte(c, g, dst, src)
      BY <1>1, <2>3
    <3> HIDE DEF done
    <3>2. LiveIte(c.gates[g]) /\ IDX(src) # IDX(dst)
      BY <1>1, <2>3 DEF LiveIte, RewritingFine
    <3>3. Keeps({}, IDX(src), c, RewriteIte(c, g, dst, src))
      BY <1>1, <1>2, <1>3, <3>2, RewriteIteKeeps
    <3> QED
      BY <2>3, <3>1, <3>3, RewriteIteUpdates DEF Keeps, Sane, Shape
  <2> HIDE DEF done
  <2> QED
    BY <1>1, <2>1, <2>2, <2>3
<1>5. RewriteGate(c, g, dst, src)
        = IF done.inconsistent \/ after.garbage \/ dst \notin ToSet(after.rhs) THEN done
          ELSE Connect(done, {dst}, g)
  BY DEF RewriteGate
<1> HIDE DEF done
<1>6. done.inconsistent \/ after.garbage \/ dst \notin ToSet(after.rhs)
        => Updates(c, g, src, NoLit, done)
  <2> SUFFICES ASSUME dst \notin ToSet(after.rhs), ~done.inconsistent, ~after.garbage
               PROVE  \A k \in ToSet(after.rhs) : InputSettled(c, g, src, NoLit, done, k)
    BY <1>4 DEF Updates, Settled
  <2>1. Settled(c, g, src, dst, done)
    BY <1>4 DEF Updates
  <2> QED
    BY <2>1 DEF Settled, InputSettled
<1> QED
  BY <1>1, <1>2, <1>4, <1>5, <1>6, ConnectUpdates

-----------------------------------------------------------------------------
(* What one gate that is updated means for all. *)

LEMMA GivenIn ==
  ASSUME NEW c, Shape(c), UpWell(c), ~c.inconsistent, AllNormalized(c),
         NEW x, AllFine(c, x), NEW g \in Live(c)
  PROVE  /\ Given(c, g)
         /\ \A k \in ToSet(c.gates[g].rhs) : IDX(k) = x \/ Pend(c, k)
BY DEF Given, AllNormalized, AllFine, Fine, Leading, Live

LEMMA UpdatedGates ==
  ASSUME NEW c, NEW g, Given(c, g), NEW src \in LITS, AllFine(c, IDX(src)), Unique(c), AllNormalized(c),
         NEW d, Updates(c, g, src, NoLit, d), ~d.inconsistent,
         NEW w, w[1][1] = src, NEW gates, StageFine(c, w, gates)
  PROVE  /\ UpWell(d) /\ AllFine(d, IDX(src)) /\ Unique(d)
         /\ StageFine(d, w, gates \ {g})
<1> DEFINE x == IDX(src)
<1>1. /\ Advances(c, d) /\ Progress(c, d) /\ Extends(c, d)
      /\ DOMAIN d.gates = DOMAIN c.gates
      /\ \A h \in DOMAIN c.gates \ {g} : d.gates[h] = c.gates[h]
  BY DEF Updates, Advances
<1>2. ~d.gates[g].garbage => Settled(c, g, src, NoLit, d)
  BY DEF Updates
<1>3. \A h \in Live(d) : h # g => h \in Live(c) /\ d.gates[h] = c.gates[h]
  BY <1>1 DEF Live
<1>4. \A h \in DOMAIN c.gates : ToSet(c.gates[h].rhs) \subseteq LITS
  BY InputsAreVars DEF Given, Shape, GatesOK, EntryOK
<1>5. ASSUME NEW h \in Live(d), h # g
      PROVE  Fine(d, x, h)
  <2>1. Fine(c, x, h) /\ ToSet(c.gates[h].rhs) \subseteq LITS /\ d.gates[h] = c.gates[h]
    BY <1>3, <1>4, <1>5 DEF AllFine, Live
  <2>2. GateUpheld(d, d.gates[h])
    BY <1>1, <2>1, UpheldStays DEF Fine
  <2>3. \A k \in ToSet(c.gates[h].rhs) : Pend(c, k) => Pend(d, k)
    BY <1>1, <2>1, PendStays
  <2> QED
    BY <1>1, <2>1, <2>2, <2>3 DEF Fine, Extends
<1>6. ASSUME g \in Live(d)
      PROVE  Fine(d, x, g)
  <2>1. Settled(c, g, src, NoLit, d)
    BY <1>2, <1>6 DEF Live
  <2>2. ASSUME NEW k \in ToSet(d.gates[g].rhs)
        PROVE  g \in d.occurrences[k] /\ (IDX(k) = x \/ Pend(d, k))
    <3>1. InputSettled(c, g, src, NoLit, d, k)
      BY <2>1 DEF Settled
    <3>2. k # NoLit /\ k \in LITS
      BY <3>1, NoLitFacts, LitFacts DEF InputSettled, NoLit
    <3>3. k \in ToSet(c.gates[g].rhs) => IDX(k) = x \/ Pend(c, k)
      BY DEF AllFine, Fine, Given
    <3> QED
      BY <1>1, <3>1, <3>2, <3>3, PendStays DEF InputSettled
  <2> QED
    BY <2>1, <2>2 DEF Fine, Settled
<1>7. AllFine(d, x)
  BY <1>5, <1>6 DEF AllFine
<1>8. Unique(d)
  <2> SUFFICES ASSUME NEW h \in Live(d), NEW m \in Live(d), h # m
               PROVE  ~SameInputs(d.gates[h], d.gates[m])
    BY DEF Unique
  <2>1. g \in Live(d) => \A n \in Live(c) \ {g} : ~SameInputs(c.gates[n], d.gates[g])
    BY <1>2 DEF Settled, Live
  <2>2. CASE h # g /\ m # g
    BY <1>3, <2>2 DEF Unique
  <2>3. CASE h = g
    BY <1>3, <2>1, <2>3 DEF SameInputs
  <2>4. CASE m = g
    BY <1>3, <2>1, <2>4 DEF SameInputs
  <2> QED
    BY <2>2, <2>3, <2>4
<1>9. StageFine(d, w, gates \ {g})
  <2> SUFFICES ASSUME NEW h \in Live(d), NEW k \in ToSet(d.gates[h].rhs)
               PROVE  /\ k = src => h \in gates \ {g}
                      /\ Len(w) = 1 => k # NOT(src)
    BY DEF StageFine
  <2>1. CASE h # g
    BY <1>3, <2>1 DEF StageFine
  <2>2. CASE h = g
    <3>1. InputSettled(c, g, src, NoLit, d, k) /\ g \in Live(c)
      BY <1>2, <2>2 DEF Settled, Live, Given
    <3>2. CASE k \in ToSet(c.gates[g].rhs) \ {src}
      BY <2>2, <3>1, <3>2 DEF StageFine
    <3>3. CASE IDX(k) # IDX(src)
      BY <2>2, <3>3, LitFacts
    <3> QED
      BY <3>1, <3>2, <3>3 DEF InputSettled
  <2> QED
    BY <2>1, <2>2
<1> QED
  BY <1>1, <1>7, <1>8, <1>9 DEF Progress

LEMMA UpdatedNormalized ==
  ASSUME NEW c, AllNormalized(c), NEW g, NEW src, NEW dst, NEW d, Updates(c, g, src, dst, d)
  PROVE  AllNormalized(d)
BY DEF Updates, AllNormalized

LEMMA WorkStays ==
  ASSUME NEW c, NEW d, Advances(c, d), ~d.inconsistent, NEW phase, NEW w, WorkFine(phase, c, w)
  PROVE  WorkFine(phase, d, w)
<1>1. c.fixed \subseteq d.fixed
  BY DEF Advances, Extends
<1>2. \A l : Valued(c, l) => Valued(d, l)
  BY <1>1 DEF Valued, IsTrue, IsFalse
<1>3. ASSUME NEW l \in LITS, NEW k \in LITS, RewritingFine(c, l, k)
      PROVE  RewritingFine(d, l, k)
  <2>1. Pend(d, k)
    BY <1>3, PendStays DEF RewritingFine
  <2>2. Propagated(d) \subseteq Propagated(c)
    BY UpheldStays
  <2> QED
    BY <1>3, <2>1, <2>2, MergedGrows DEF RewritingFine
<1> QED
  BY <1>2, <1>3 DEF WorkFine

-----------------------------------------------------------------------------
(* Learning and merging leave the gates as they are, and a gate that was
   found is added as it should be. *)

Orderly(c, x) ==
  /\ Shape(c) /\ UpWell(c) /\ ~c.inconsistent
  /\ AllNormalized(c) /\ AllFine(c, x) /\ Unique(c)

Built(c, d, x) ==
  /\ Advances(c, d)
  /\ AllNormalized(d)
  /\ ~d.inconsistent => AllFine(d, x) /\ Unique(d)

LEMMA SameGatesBuilt ==
  ASSUME NEW c, NEW x, Orderly(c, x), NEW d, Advances(c, d), SameGates(c, d)
  PROVE  Built(c, d, x)
<1>1. d.gates = c.gates /\ d.occurrences = c.occurrences /\ Live(d) = Live(c)
  BY DEF SameGates, Live
<1>2. AllNormalized(d)
  BY <1>1 DEF AllNormalized, Orderly
<1>3. ASSUME ~d.inconsistent, NEW g \in Live(d)
      PROVE  Fine(d, x, g)
  <2>1. Fine(c, x, g) /\ g \in DOMAIN c.gates
    BY <1>1, <1>3 DEF Orderly, AllFine, Live
  <2>2. ToSet(c.gates[g].rhs) \subseteq LITS
    BY <2>1, InputsAreVars DEF Orderly, Shape, GatesOK, EntryOK
  <2>3. \A k \in ToSet(c.gates[g].rhs) : Pend(c, k) => Pend(d, k)
    BY <1>3, <2>2, PendStays
  <2>4. GateUpheld(d, d.gates[g])
    BY <1>1, <2>1, UpheldStays DEF Fine
  <2> QED
    BY <1>1, <2>1, <2>3, <2>4 DEF Fine
<1>4. Unique(d)
  BY <1>1 DEF Unique, Orderly
<1> QED
  BY <1>2, <1>3, <1>4 DEF Built, AllFine

LEMMA LearnedBuilt ==
  ASSUME NEW c, NEW x, Orderly(c, x), NEW unit \in LITS
  PROVE  Built(c, LearnUnit(c, unit), x)
<1>1. Advances(c, LearnUnit(c, unit))
  BY LearnUnitAdvances DEF Orderly, Healthy
<1>2. SameGates(c, LearnUnit(c, unit))
  BY LearnUnitLeavesGates DEF Orderly, Shape, LeavesGates
<1> QED
  BY <1>1, <1>2, SameGatesBuilt

LEMMA MergedBuilt ==
  ASSUME NEW c, NEW x, Orderly(c, x), NEW lit \in LITS, NEW other \in LITS
  PROVE  Built(c, Merge(c, lit, other), x)
<1>1. Advances(c, Merge(c, lit, other))
  BY MergeAdvances DEF Orderly, Healthy
<1>2. SameGates(c, Merge(c, lit, other))
  BY MergeLeavesGates DEF Orderly, Shape, LeavesGates
<1> QED
  BY <1>1, <1>2, SameGatesBuilt

LEMMA NewGateBuilt ==
  ASSUME NEW c, NEW x, Orderly(c, x), Original(c), NEW gate, GateOK(gate), FoundFine(c, gate)
  PROVE  Built(c, NewGate(c, gate), x)
<1> DEFINE same == Matching(c, gate, NoGate)
           h == CHOOSE y \in same : TRUE
           entry == Entry(gate, FALSE)
           gates == [g \in DOMAIN c.gates \cup {gate} |-> IF g = gate THEN entry ELSE c.gates[g]]
           e == SetGates(c, gates)
           lits == ToSet(gate.rhs)
           os == [l \in LITS |-> IF l \in lits THEN e.occurrences[l] \cup {gate} ELSE e.occurrences[l]]
           d == SetOccurrences(e, os)
<1>1. NewGate(c, gate) = IF same # {} THEN Merge(c, c.gates[h].lhs, gate.lhs) ELSE d
  BY DEF NewGate, Entry, SetGates, Connect, SetOccurrences
<1>2. /\ Shape(c) /\ IsClosure(c) /\ Healthy(c) /\ gate.lhs \in LITS /\ lits \subseteq LITS
      /\ \A k \in lits : Pend(c, k)
  BY InputsAreVars DEF Orderly, Shape, Healthy, GateOK, FoundFine
<1>3. CASE same # {}
  <2>1. h \in DOMAIN c.gates
    BY <1>3 DEF Matching, Live
  <2> HIDE DEF h
  <2>2. c.gates[h].lhs \in LITS
    BY <1>2, <2>1 DEF Shape, GatesOK, EntryOK, GateOK
  <2> QED
    BY <1>1, <1>2, <1>3, <2>2, MergedBuilt
<1>4. CASE same = {}
  <2>1. /\ entry.tag = gate.tag /\ entry.rhs = gate.rhs /\ entry.lhs = gate.lhs
        /\ entry.garbage = FALSE
    BY EntryFacts
  <2> HIDE DEF entry
  <2>2. gate \notin DOMAIN c.gates
    <3>1. gate # NoGate
      <4>1. NoGate.tag = "none"
        BY DEF NoGate, Gate
      <4> QED
        BY <4>1 DEF GateOK
    <3> QED
      BY <1>4, <3>1 DEF Matching, Live, Original
  <2>3. \A g \in DOMAIN c.gates : ~SameInputs(c.gates[g], gate)
    <3>1. ASSUME NEW g \in DOMAIN c.gates, SameInputs(c.gates[g], gate)
          PROVE  FALSE
      <4>1. g # NoGate
        <5>1. NoGate.tag = "none"
          BY DEF NoGate, Gate
        <5> QED
          BY <3>1, <5>1 DEF GateOK, SameInputs, Original
      <4> QED
        BY <1>4, <3>1, <4>1 DEF Matching, Live, Original, SameInputs
    <3> QED
      BY <3>1
  <2>4. e.gates = gates /\ e.occurrences = c.occurrences /\ IsClosure(e)
    BY <1>2, SetGatesFacts
  <2>5. Advances(c, e)
    <3>1. DOMAIN c.gates \subseteq DOMAIN gates
      OBVIOUS
    <3> HIDE DEF gates
    <3> QED
      BY <1>2, <3>1, GatesAdvance
  <2> HIDE DEF e
  <2>6. /\ \A l \in LITS : e.occurrences[l] \subseteq os[l]
        /\ \A l \in lits : gate \in os[l]
    BY <1>2
  <2> HIDE DEF os
  <2>7. d.gates = gates /\ d.occurrences = os /\ Advances(e, d)
    BY <2>4, <2>5, <2>6, SetOccurrencesFacts, OccurrencesAdvance, StaysHealthy
  <2> HIDE DEF d
  <2>8. Advances(c, d)
    BY <2>5, <2>7, AdvancesTransitive
  <2>9. /\ DOMAIN d.gates = DOMAIN c.gates \cup {gate} /\ d.gates[gate] = entry
        /\ \A g \in DOMAIN c.gates : d.gates[g] = c.gates[g]
    BY <2>2, <2>7
  <2> HIDE DEF gates, lits
  <2>10. AllNormalized(d)
    <3>1. Normalized(entry)
      BY <2>1, NormalOfSame DEF FoundFine, SameInputs
    <3> QED
      BY <2>9, <3>1 DEF AllNormalized, Orderly
  <2>11. ASSUME ~d.inconsistent, NEW g \in Live(d)
         PROVE  Fine(d, x, g)
    <3>1. CASE g = gate
      <4>1. GateUpheld(d, gate)
        BY <2>8, UpheldStays DEF FoundFine
      <4>2. GateUpheld(d, d.gates[g])
        BY <2>1, <2>9, <3>1, <4>1 DEF GateUpheld
      <4>3. \A k \in lits : Pend(d, k) /\ g \in d.occurrences[k]
        BY <1>2, <2>6, <2>7, <2>8, <2>11, <3>1, PendStays
      <4> QED
        BY <2>1, <2>9, <3>1, <4>2, <4>3 DEF Fine, lits
    <3>2. CASE g # gate
      <4>1. g \in Live(c) /\ d.gates[g] = c.gates[g]
        BY <2>9, <2>11, <3>2 DEF Live
      <4>2. Fine(c, x, g) /\ ToSet(c.gates[g].rhs) \subseteq LITS
        BY <4>1, InputsAreVars DEF Orderly, Shape, GatesOK, EntryOK, AllFine, Live
      <4>3. \A k \in ToSet(c.gates[g].rhs) : Pend(c, k) => Pend(d, k)
        BY <2>8, <2>11, <4>2, PendStays
      <4>4. GateUpheld(d, d.gates[g])
        BY <2>8, <4>1, <4>2, UpheldStays DEF Fine
      <4> QED
        BY <2>8, <4>1, <4>2, <4>3, <4>4 DEF Fine, Advances, Extends
    <3> QED
      BY <3>1, <3>2
  <2>12. Unique(d)
    <3> SUFFICES ASSUME NEW a \in Live(d), NEW b \in Live(d), a # b
                 PROVE  ~SameInputs(d.gates[a], d.gates[b])
      BY DEF Unique
    <3>1. \A g \in Live(d) : g # gate => g \in Live(c) /\ g \in DOMAIN c.gates /\ d.gates[g] = c.gates[g]
      BY <2>9 DEF Live
    <3>2. CASE a # gate /\ b # gate
      BY <3>1, <3>2 DEF Unique, Orderly
    <3>3. CASE a = gate
      BY <2>1, <2>3, <2>9, <3>1, <3>3 DEF SameInputs
    <3>4. CASE b = gate
      BY <2>1, <2>3, <2>9, <3>1, <3>4 DEF SameInputs
    <3> QED
      BY <3>2, <3>3, <3>4
  <2> QED
    BY <1>1, <1>4, <2>8, <2>10, <2>11, <2>12 DEF Built, AllFine
<1> QED
  BY <1>3, <1>4

LEMMA NewIteBuilt ==
  ASSUME NEW c, NEW x, Orderly(c, x), Original(c), NEW F, NEW ite, IteFound(F, ite), IteFoundFine(c, ite)
  PROVE  Built(c, NewIte(c, ite[1], ite[2], ite[3], ite[4]), x)
<1> DEFINE lhs == ite[1]
           cond == ite[2]
           t == ite[3]
           e == ite[4]
<1>1. /\ lhs \in LITS /\ cond \in LITS /\ t \in LITS /\ e \in LITS
      /\ IDX(cond) # IDX(t) /\ IDX(cond) # IDX(e)
      /\ \A G \in Propagated(c) : IteUpheld(G, lhs, cond, t, e)
      /\ Pend(c, cond) /\ Pend(c, t) /\ Pend(c, e)
  BY DEF IteFound, IteFoundFine
<1> HIDE DEF lhs, cond, t, e
<1> SUFFICES Built(c, NewIte(c, lhs, cond, t, e), x)
  BY DEF lhs, cond, t, e
<1>2. CASE e = NOT(t)
  <2>1. NewIte(c, lhs, cond, t, e) = c
    BY <1>2 DEF NewIte
  <2> QED
    BY <2>1, AdvancesItself DEF Built, Orderly, Healthy
<1>3. CASE e # NOT(t) /\ e = t
  <2>1. NewIte(c, lhs, cond, t, e) = Merge(c, lhs, t)
    BY <1>3 DEF NewIte
  <2> QED
    BY <1>1, <2>1, MergedBuilt
<1>4. CASE e # NOT(t) /\ e # t
  <2> DEFINE gate == NormalizedIte(lhs, cond, t, e)
  <2>1. NewIte(c, lhs, cond, t, e) = NewGate(c, gate)
    BY <1>4 DEF NewIte
  <2>2. IDX(t) # IDX(e)
    BY <1>1, <1>4, SameIndex
  <2>3. /\ GateOK(gate) /\ Normalized(gate) /\ GateUpheld(c, gate)
        /\ ToSet(gate.rhs) \subseteq LITS
        /\ \A k \in ToSet(gate.rhs) : IDX(k) \in {IDX(cond), IDX(t), IDX(e)}
    BY <1>1, <2>2, NormalizedOK, IteNormal, NormalizedUpheld
  <2> HIDE DEF gate
  <2>4. ReprOK(c.repr)
    BY DEF Orderly, Shape
  <2>5. \A k, m \in LITS : IDX(k) = IDX(m) /\ Pend(c, m) => Pend(c, k)
    BY <2>4, SameIndex, PendNegated
  <2>6. FoundFine(c, gate)
    BY <1>1, <2>3, <2>5 DEF FoundFine
  <2> QED
    BY <2>1, <2>3, <2>6, NewGateBuilt
<1> QED
  BY <1>2, <1>3, <1>4

LEMMA FoundStays ==
  ASSUME NEW c, NEW d, Advances(c, d), ~d.inconsistent
  PROVE  /\ \A gate : GateOK(gate) /\ FoundFine(c, gate) => FoundFine(d, gate)
         /\ \A F, ite : IteFound(F, ite) /\ IteFoundFine(c, ite) => IteFoundFine(d, ite)
         /\ AllScheduled(c) => AllScheduled(d)
<1>1. ASSUME NEW gate, GateOK(gate), FoundFine(c, gate)
      PROVE  FoundFine(d, gate)
  <2>1. \A k \in ToSet(gate.rhs) : k \in LITS
    BY <1>1, InputsAreVars
  <2> QED
    BY <1>1, <2>1, UpheldStays, PendStays DEF FoundFine
<1>2. ASSUME NEW F, NEW ite, IteFound(F, ite), IteFoundFine(c, ite)
      PROVE  IteFoundFine(d, ite)
  <2>1. \A i \in {2, 3, 4} : ite[i] \in LITS
    BY <1>2 DEF IteFound
  <2> QED
    BY <1>2, <2>1, UpheldStays, PendStays DEF IteFoundFine
<1>3. AllScheduled(c) => AllScheduled(d)
  <2>1. Progress(c, d)
    BY DEF Advances
  <2> QED
    BY <2>1 DEF AllScheduled, Progress
<1> QED
  BY <1>1, <1>2, <1>3

-----------------------------------------------------------------------------
(* The gates that the searches find are as they should be. *)

LEMMA OpenUpheld ==
  ASSUME NEW c, Shape(c), NEW C \in OpenClauses(c)
  PROVE  /\ ProperClause(C)
         /\ \A l \in C : l \in LITS /\ ~Valued(c, l)
         /\ \A G \in Propagated(c) : Upholds(G, C)
<1>1. PICK D \in c.irredundant : D \cap c.fixed = {} /\ C = {l \in D : ~Valued(c, l)}
  BY DEF OpenClauses
<1>2. ProperClause(D)
  BY DEF Shape, ProperClauses
<1>3. ProperClause(C)
  BY <1>1, <1>2 DEF ProperClause
<1>4. ASSUME NEW G \in Propagated(c), NEW l \in C, \A k \in C \ {l} : NOT(k) \in G
      PROVE  l \in G
  <2>1. \A k \in D \ {l} : NOT(k) \in G
    <3> SUFFICES ASSUME NEW k \in D \ {l}, k \notin C
                 PROVE  NOT(k) \in G
      BY <1>4
    <3>1. Valued(c, k) /\ ~IsTrue(c, k)
      BY <1>1 DEF IsTrue
    <3> QED
      BY <3>1, PropagatedFacts DEF Valued, IsFalse
  <2>2. Upholds(G, D)
    BY PropagatedFacts
  <2> QED
    BY <1>1, <1>4, <2>1, <2>2 DEF Upholds
<1> QED
  BY <1>1, <1>3, <1>4 DEF Upholds, ProperClause

LEMMA OpenPends ==
  ASSUME NEW c, Shape(c), AllScheduled(c), NEW C \in OpenClauses(c), NEW l \in C,
         NEW k \in LITS, IDX(k) = IDX(l)
  PROVE  Pend(c, k)
<1>1. l \in LITS /\ ~Valued(c, l)
  BY OpenUpheld
<1>2. Pend(c, l)
  BY <1>1 DEF Pend, AllScheduled
<1> QED
  BY <1>1, <1>2, SameIndex, PendNegated DEF Shape

LEMMA AndGatesFine ==
  ASSUME NEW c, Shape(c), AllScheduled(c), NEW gate \in AndGates(c)
  PROVE  FoundFine(c, gate)
<1>0. PICK C \in OpenOfSize(c, 3) : \E l \in C :
        gate = Gate("and", l, SortLits(Negations(C \ {l})))
  BY DEF AndGates, Negations
<1>1. PICK lhs \in C : gate = Gate("and", lhs, SortLits(Negations(C \ {lhs})))
  BY <1>0
<1>2. C \in OpenClauses(c) /\ Cardinality(C) >= 3
  BY DEF OpenOfSize
<1>3. ProperClause(C) /\ \A G \in Propagated(c) : Upholds(G, C)
  BY <1>2, OpenUpheld
<1> DEFINE rest == C \ {lhs}
           S == Negations(rest)
<1>4. lhs \in LITS /\ C \in SUBSET LITS /\ rest \in SUBSET LITS
  BY <1>3 DEF ProperClause
<1>5. \A l \in rest : l \in LITS /\ NOT(l) \in LITS /\ IDX(NOT(l)) = IDX(l) /\ NOT(NOT(l)) = l
  BY <1>4, LitFacts
<1>6. S \in SUBSET LITS /\ \A k \in S : \E l \in rest : k = NOT(l)
  BY <1>5 DEF Negations
<1>7. DifferentVars(S)
  <2> SUFFICES ASSUME NEW k \in S, NEW m \in S, IDX(k) = IDX(m)
               PROVE  k = m
    BY DEF DifferentVars
  <2>1. PICK a \in rest : k = NOT(a)
    BY <1>6
  <2>2. PICK b \in rest : m = NOT(b)
    BY <1>6
  <2>3. IDX(a) = IDX(b) /\ a \in C /\ b \in C /\ a \in LITS /\ b \in LITS
    BY <1>5, <2>1, <2>2
  <2>4. a = b \/ a = NOT(b)
    BY <2>3, SameIndex
  <2> QED
    BY <1>3, <2>1, <2>2, <2>3, <2>4 DEF ProperClause
<1>8. Len(SortLits(S)) > 1
  <2>1. IsFiniteSet(C)
    BY <1>4, LitsFinite
  <2>2. Cardinality(rest) = Cardinality(C) - 1 /\ Cardinality(C) \in Nat
    BY <2>1, FS_RemoveElement, FS_CardinalityType
  <2>3. Cardinality(S) = Cardinality(rest)
    BY <1>4, NegationsSize
  <2>4. Len(SortLits(S)) = Cardinality(S)
    BY <1>6, SortedLits
  <2> QED
    BY <1>2, <2>2, <2>3, <2>4
<1>9. \A k \in S : Pend(c, k)
  <2> SUFFICES ASSUME NEW k \in S
               PROVE  Pend(c, k)
    OBVIOUS
  <2>1. PICK l \in rest : k = NOT(l)
    BY <1>6
  <2>2. l \in C /\ k \in LITS /\ IDX(k) = IDX(l)
    BY <1>5, <2>1
  <2> QED
    BY <1>2, <2>2, OpenPends
<1>10. \A G \in Propagated(c) : AndUpheld(G, lhs, S)
  <2> SUFFICES ASSUME NEW G \in Propagated(c), S \subseteq G
               PROVE  lhs \in G
    BY DEF AndUpheld
  <2>1. \A l \in C \ {lhs} : NOT(l) \in G
    BY DEF Negations
  <2> QED
    BY <1>3, <2>1 DEF Upholds
<1> HIDE DEF S
<1>11. Normalized(gate)
  BY <1>1, <1>6, <1>7, <1>8, SortedNormal DEF S
<1>12. gate = Gate("and", lhs, SortLits(S))
  BY <1>1 DEF S
<1>13. gate.tag = "and" /\ gate.lhs = lhs /\ ToSet(gate.rhs) = S
  BY <1>6, <1>12, SortedLits, GateFields
<1> QED
  BY <1>9, <1>10, <1>11, <1>13 DEF FoundFine, GateUpheld

LEMMA VarsSize ==
  ASSUME NEW C, ProperClause(C)
  PROVE  Cardinality(VarsOf(C)) = Cardinality(C) /\ IsFiniteSet(VarsOf(C))
<1>1. C \in SUBSET LITS
  BY DEF ProperClause
<1>2. IsFiniteSet(C)
  BY <1>1, LitsFinite
<1> DEFINE f == [l \in C |-> IDX(l)]
<1>3. f \in Bijection(C, VarsOf(C))
  <2>1. f \in [C -> VarsOf(C)]
    BY DEF VarsOf
  <2>2. \A k, l \in C : f[k] = f[l] => k = l
    <3> SUFFICES ASSUME NEW k \in C, NEW l \in C, IDX(k) = IDX(l)
                 PROVE  k = l
      OBVIOUS
    <3>1. k \in LITS /\ l \in LITS
      BY <1>1
    <3>2. k = l \/ k = NOT(l)
      BY <3>1, SameIndex
    <3> QED
      BY <3>2 DEF ProperClause
  <2>3. \A v \in VarsOf(C) : \E l \in C : f[l] = v
    BY DEF VarsOf
  <2> HIDE DEF f
  <2> QED
    BY <2>1, <2>2, <2>3 DEF Bijection, Injection, Surjection, IsInjective
<1> HIDE DEF f
<1>4. ExistsBijection(C, VarsOf(C))
  BY <1>3 DEF ExistsBijection
<1> QED
  BY <1>2, <1>4, FS_Bijection

LEMMA XorGatesFine ==
  ASSUME NEW c, Shape(c), AllScheduled(c), NEW gate \in XorGates(c)
  PROVE  FoundFine(c, gate)
<1>0. PICK C \in XorCandidates(c) : \E u \in VarsOf(C) : \E lhs :
        gate = Gate("xor", lhs, SortLits(VarsOf(C) \ {u}))
  BY DEF XorGates, VarsOf
<1>1. PICK x \in VarsOf(C) : \E lhs : gate = Gate("xor", lhs, SortLits(VarsOf(C) \ {x}))
  BY <1>0
<1>1a. PICK lhs : gate = Gate("xor", lhs, SortLits(VarsOf(C) \ {x}))
  BY <1>1
<1>2. C \in OpenClauses(c) /\ Cardinality(C) >= 3
  BY DEF XorCandidates, OpenOfSize
<1>3. ProperClause(C)
  BY <1>2, OpenUpheld
<1> DEFINE S == VarsOf(C) \ {x}
<1>4. \A l \in C : l \in LITS /\ IDX(l) \in Vars /\ IDX(l) \in LITS /\ IDX(IDX(l)) = IDX(l)
  BY <1>3, LitFacts, VarFacts DEF ProperClause
<1>5. /\ S \in SUBSET LITS /\ S \subseteq Vars
      /\ \A k \in S : IDX(k) = k /\ \E l \in C : IDX(l) = k
  BY <1>4 DEF VarsOf
<1>6. DifferentVars(S)
  BY <1>5 DEF DifferentVars
<1>7. Len(SortLits(S)) > 1
  <2>1. IsFiniteSet(VarsOf(C)) /\ Cardinality(VarsOf(C)) = Cardinality(C)
    BY <1>3, VarsSize
  <2>2. Cardinality(S) = Cardinality(VarsOf(C)) - 1 /\ Cardinality(VarsOf(C)) \in Nat
    BY <2>1, FS_RemoveElement, FS_CardinalityType
  <2>3. Len(SortLits(S)) = Cardinality(S)
    BY <1>5, SortedLits
  <2> QED
    BY <1>2, <2>1, <2>2, <2>3
<1>8. \A k \in S : Pend(c, k)
  BY <1>2, <1>5, OpenPends
<1>9. gate = Gate("xor", lhs, SortLits(S))
  BY <1>1a
<1> HIDE DEF S
<1>10. Normalized(gate)
  BY <1>5, <1>6, <1>7, <1>9, SortedNormal
<1>11. gate.tag = "xor" /\ ToSet(gate.rhs) = S
  BY <1>5, <1>9, SortedLits, GateFields
<1> QED
  BY <1>8, <1>10, <1>11 DEF FoundFine, GateUpheld

LEMMA ConditionalUpheld ==
  ASSUME NEW c, Shape(c), AllScheduled(c), NEW lit \in LITS, NEW p \in ConditionalEquivalences(c, lit)
  PROVE  /\ \A G \in Propagated(c) : Ternary(G, lit, NOT(p[2]), p[1]) /\ Ternary(G, lit, p[2], NOT(p[1]))
         /\ \A k \in LITS : IDX(k) = IDX(lit) \/ IDX(k) = IDX(p[2]) => Pend(c, k)
<1>1. /\ p[1] \in Vars /\ p[2] \in LITS
      /\ {p[1], NOT(p[2])} \in BinariesUnder(c, lit)
      /\ {NOT(p[1]), p[2]} \in BinariesUnder(c, lit)
  BY DEF ConditionalEquivalences
<1>2. PICK C \in TernaryClauses(c) : lit \in C /\ {p[1], NOT(p[2])} = C \ {lit}
  BY <1>1 DEF BinariesUnder
<1>3. PICK D \in TernaryClauses(c) : lit \in D /\ {NOT(p[1]), p[2]} = D \ {lit}
  BY <1>1 DEF BinariesUnder
<1>4. C \in OpenClauses(c) /\ D \in OpenClauses(c)
  BY DEF TernaryClauses
<1>5. \A G \in Propagated(c) : Upholds(G, C) /\ Upholds(G, D)
  BY <1>4, OpenUpheld
<1>6. C = {lit, NOT(p[2]), p[1]} /\ D = {lit, p[2], NOT(p[1])}
  BY <1>2, <1>3
<1>7. \A G, a, b, k : Upholds(G, {a, b, k}) => Ternary(G, a, b, k)
  BY DEF Upholds, Ternary
<1>8. lit \in C /\ p[2] \in D
  BY <1>6
<1> QED
  BY <1>4, <1>5, <1>6, <1>7, <1>8, OpenPends

LEMMA IteGatesFine ==
  ASSUME NEW c, Shape(c), AllScheduled(c), NEW ite \in IteGates(c)
  PROVE  IteFoundFine(c, ite)
<1>1. PICK cond \in Vars :
        \E p \in ConditionalEquivalences(c, NOT(cond)) :
          \E q \in ConditionalEquivalences(c, cond) :
            q[1] = p[1] /\ ite = <<p[1], cond, p[2], q[2]>>
  BY DEF IteGates
<1>2. PICK p \in ConditionalEquivalences(c, NOT(cond)),
           q \in ConditionalEquivalences(c, cond) :
        q[1] = p[1] /\ ite = <<p[1], cond, p[2], q[2]>>
  BY <1>1
<1>3. cond \in LITS /\ NOT(cond) \in LITS /\ p[2] \in LITS /\ q[2] \in LITS
  BY VarFacts, LitFacts DEF ConditionalEquivalences
<1>4. /\ \A G \in Propagated(c) : /\ Ternary(G, NOT(cond), NOT(p[2]), p[1])
                                  /\ Ternary(G, NOT(cond), p[2], NOT(p[1]))
      /\ Pend(c, p[2])
  BY <1>3, ConditionalUpheld
<1>5. /\ \A G \in Propagated(c) : /\ Ternary(G, cond, NOT(q[2]), q[1])
                                  /\ Ternary(G, cond, q[2], NOT(q[1]))
      /\ Pend(c, cond) /\ Pend(c, q[2])
  BY <1>3, ConditionalUpheld
<1>6. ite[1] = p[1] /\ ite[2] = cond /\ ite[3] = p[2] /\ ite[4] = q[2]
  BY <1>2
<1> QED
  BY <1>2, <1>4, <1>5, <1>6 DEF IteFoundFine, IteUpheld

-----------------------------------------------------------------------------
(* The closure is complete in the beginning, and every step that does not  *)
(* replace literals in gates keeps it so.                                  *)

(* Nothing is known that depends on the gates or the values having changed. *)
LEMMA ViewStays ==
  ASSUME NEW c, GatesOK(c.gates), NEW x, AllFine(c, x), Unique(c),
         NEW d, SameGates(c, d), Propagated(d) \subseteq Propagated(c),
         NEW y, \A k \in LITS : IDX(k) = x \/ Pend(c, k) => IDX(k) = y \/ Pend(d, k)
  PROVE  AllFine(d, y) /\ Unique(d)
<1>1. d.gates = c.gates /\ d.occurrences = c.occurrences /\ Live(d) = Live(c)
  BY DEF SameGates, Live
<1>2. Unique(d)
  BY <1>1 DEF Unique
<1>3. ASSUME NEW g \in Live(c) PROVE Fine(d, y, g)
  <2>1. Fine(c, x, g)
    BY <1>3 DEF AllFine
  <2>2. GateUpheld(d, d.gates[g])
    BY <1>1, <2>1, UpheldGrows DEF Fine
  <2>3. ASSUME NEW k \in ToSet(c.gates[g].rhs)
        PROVE  g \in d.occurrences[k] /\ (IDX(k) = y \/ Pend(d, k))
    <3>1. GateOK(c.gates[g])
      BY DEF Live, GatesOK, EntryOK
    <3>2. ToSet(c.gates[g].rhs) \in SUBSET LITS
      BY <3>1 DEF GateOK, ToSet
    <3>3. g \in c.occurrences[k] /\ (IDX(k) = x \/ Pend(c, k))
      BY <2>1 DEF Fine
    <3> QED
      BY <1>1, <3>2, <3>3
  <2> QED
    BY <1>1, <2>2, <2>3 DEF Fine
<1> QED
  BY <1>1, <1>2, <1>3 DEF AllFine

(* What the invariants say of a closure that is still being computed. *)
LEMMA OrderlyNow ==
  ASSUME Inv, Complete, pc \notin {"subsume", "done"}, ~closure.inconsistent
  PROVE  Orderly(closure, Replaced(pc, work)) /\ Healthy(closure)
<1>1. Shape(closure)
  BY DEF Inv, Sane
<1>2. ClosureFine(pc, closure, todo, work) /\ AllNormalized(closure)
  BY DEF Complete, Closing
<1> QED
  BY <1>1, <1>2 DEF Orderly, ClosureFine, Healthy

LEMMA InitComplete == Init => Complete
<1> SUFFICES ASSUME Init PROVE Complete
  OBVIOUS
<1> DEFINE O == problem.original
           units == {l \in LITS : {l} \in O}
           fixed == Implications(O, units)
           c == closure
<1>1. /\ problem \in Problems /\ c = InitClosure(problem)
      /\ pc = "binaries" /\ terminated = FALSE
  BY DEF Init
<1>2. /\ O \subseteq SUBSET LITS
      /\ ~Conflicting(O, fixed)
  BY <1>1, ProblemsAssumption
<1>3. /\ c.irredundant = {C \in O : Cardinality(C) > 1}
      /\ c.fixed = fixed /\ c.units = {} /\ c.inconsistent = FALSE
      /\ c.repr = [l \in LITS |-> l] /\ c.schedule = <<>>
      /\ c.gates = [g \in {} |-> NoGate]
  BY <1>1 DEF InitClosure
<1> HIDE DEF c
<1>4. fixed \in SUBSET LITS /\ \A C \in O : Upholds(fixed, C)
  <2>1. O \in SUBSET (SUBSET LITS) /\ units \in SUBSET LITS
    BY <1>2
  <2> HIDE DEF units, O
  <2> QED
    BY <2>1, ImplicationsFacts, ImplicationsUphold
<1> HIDE DEF fixed
<1>5. ~Contradicts(fixed)
  BY <1>2 DEF Contradicts, Conflicting
<1>6. c.fixed \in Propagated(c)
  BY <1>3, <1>4, <1>5 DEF Propagated
<1>7. Merged(Propagated(c), c.repr)
  BY <1>3 DEF Merged, Equivalent
<1>8. Live(c) = {} /\ AllNormalized(c)
  BY <1>3 DEF Live, AllNormalized
<1>9. AllScheduled(c)
  BY <1>3 DEF AllScheduled
<1>10. ClosureFine(pc, c, todo, work)
  BY <1>1, <1>6, <1>7, <1>8, <1>9 DEF ClosureFine, UpWell, Unique, AllFine, Replacing
<1> QED
  BY <1>1, <1>8, <1>10 DEF Complete, Phases, c

LEMMA StutterComplete ==
  ASSUME Complete, UNCHANGED <<closure, pc, todo, work>>, terminated' \in BOOLEAN
  PROVE  Complete'
BY DEF Complete

LEMMA StopComplete ==
  ASSUME Complete, closure' = closure, pc' = "done", terminated' \in BOOLEAN
  PROVE  Complete'
BY DEF Complete, Closing, Phases

(* An operator that does not replace literals in gates. *)
LEMMA BuiltComplete ==
  ASSUME Inv, Complete, terminated' = terminated,
         pc \notin Replacing \cup {"subsume", "done"}, ~closure.inconsistent,
         pc' \in Phases \ Replacing, pc' \in Extracting => pc \in Extracting,
         Built(closure, closure', NoLit),
         ~closure'.inconsistent /\ pc' \in {"ands", "xors"} => \A gate \in todo' : FoundFine(closure', gate),
         ~closure'.inconsistent /\ pc' = "ites" => \A ite \in todo' : IteFoundFine(closure', ite)
  PROVE  Complete'
<1>1. terminated \in BOOLEAN /\ AllNormalized(closure')
  BY DEF Complete, Built
<1>2. ASSUME ~closure'.inconsistent
      PROVE  ClosureFine(pc', closure', todo', work')
  <2>1. UpWell(closure') /\ Unique(closure') /\ AllFine(closure', NoLit)
    BY <1>2 DEF Built, Advances, Progress
  <2>2. Replaced(pc', work') = NoLit
    BY DEF Replaced
  <2>3. pc' \in Extracting => AllScheduled(closure')
    BY <1>2, FoundStays DEF Built, Complete, Closing, ClosureFine
  <2> QED
    BY <1>2, <2>1, <2>2, <2>3 DEF ClosureFine
<1> QED
  BY <1>1, <1>2 DEF Complete, Closing

(* The closure stays as it is in the next phase. *)
LEMMA UnchangedBuilt ==
  ASSUME NEW c, NEW x, Orderly(c, x)
  PROVE  Built(c, c, x)
<1>1. Healthy(c) /\ SameGates(c, c)
  BY DEF Orderly, Healthy, SameGates
<1> QED
  BY <1>1, AdvancesItself, SameGatesBuilt

LEMMA PlainOrderly ==
  ASSUME Inv, Complete, pc \notin Replacing \cup {"subsume", "done"}, ~closure.inconsistent
  PROVE  Orderly(closure, NoLit)
BY OrderlyNow DEF Replaced

LEMMA ExtractGateComplete ==
  ASSUME Inv, Complete, pc \in {"ands", "xors"}, ~closure.inconsistent,
         UNCHANGED <<pc, terminated>>,
         NEW gate \in todo, closure' = NewGate(closure, gate), todo' = todo \ {gate}
  PROVE  Complete'
<1> DEFINE d == NewGate(closure, gate)
<1>1. /\ Original(closure)
      /\ \A other \in todo : GateOK(other) /\ FoundFine(closure, other)
  BY DEF Inv, GatesFound, AndOrXor, Complete, Closing, ClosureFine
<1>2. Orderly(closure, NoLit)
  BY PlainOrderly DEF Replacing
<1>3. Built(closure, d, NoLit)
  BY <1>1, <1>2, NewGateBuilt
<1>4. closure' = d
  OBVIOUS
<1> HIDE DEF d
<1>5. ~d.inconsistent => \A other \in todo' : FoundFine(d, other)
  BY <1>1, <1>3, FoundStays DEF Built
<1>6. pc' \in Phases \ Replacing /\ pc \notin Replacing \cup {"subsume", "done"} /\ pc' # "ites"
  BY DEF Phases, Replacing
<1> QED
  BY <1>3, <1>4, <1>5, <1>6, BuiltComplete

LEMMA ExtractIteComplete ==
  ASSUME Inv, Complete, ExtractIte
  PROVE  Complete'
<1>1. PICK ite \in todo : /\ closure' = NewIte(closure, ite[1], ite[2], ite[3], ite[4])
                          /\ todo' = todo \ {ite}
  BY DEF ExtractIte, Ready
<1> DEFINE d == NewIte(closure, ite[1], ite[2], ite[3], ite[4])
<1>2. pc = "ites" /\ pc' = pc /\ terminated' = terminated /\ ~closure.inconsistent
  BY DEF ExtractIte
<1>3. /\ Original(closure)
      /\ \A other \in todo : IteFound(Originals, other) /\ IteFoundFine(closure, other)
  BY <1>2 DEF Inv, GatesFound, Complete, Closing, ClosureFine
<1>4. Orderly(closure, NoLit)
  BY <1>2, PlainOrderly DEF Replacing
<1>5. Built(closure, d, NoLit)
  BY <1>3, <1>4, NewIteBuilt
<1>6. closure' = d
  BY <1>1
<1> HIDE DEF d
<1>7. ~d.inconsistent => \A other \in todo' : IteFoundFine(d, other)
  BY <1>1, <1>3, <1>5, FoundStays DEF Built
<1>8. pc' \in Phases \ Replacing /\ pc \notin Replacing \cup {"subsume", "done"}
      /\ pc' \notin {"ands", "xors"}
  BY <1>2 DEF Phases, Replacing
<1> QED
  BY <1>2, <1>5, <1>6, <1>7, <1>8, BuiltComplete

LEMMA EndExtractionComplete ==
  ASSUME Inv, Complete, EndExtraction
  PROVE  Complete'
<1>1. /\ pc \in {"ands", "xors", "ites"} /\ UNCHANGED <<closure, terminated>>
      /\ \/ pc' = "done"
         \/ /\ ~closure.inconsistent
            /\ \/ pc' = "xors" /\ todo' = XorGates(closure)
               \/ pc' = "ites" /\ todo' = IteGates(closure)
               \/ pc' = "units"
  BY DEF EndExtraction, Stop
<1>2. CASE pc' = "done"
  BY <1>1, <1>2, StopComplete DEF Complete
<1>3. CASE pc' # "done"
  <2>1. pc \notin Replacing \cup {"subsume", "done"} /\ pc \in Extracting /\ ~closure.inconsistent
    BY <1>1, <1>3 DEF Replacing, Extracting
  <2>2. Orderly(closure, NoLit)
    BY <2>1, PlainOrderly
  <2>3. Shape(closure) /\ AllScheduled(closure)
    BY <2>1, <2>2 DEF Orderly, Complete, Closing, ClosureFine
  <2>4. \A gate \in XorGates(closure) : FoundFine(closure, gate)
    BY <2>3, XorGatesFine
  <2>5. \A ite \in IteGates(closure) : IteFoundFine(closure, ite)
    BY <2>3, IteGatesFine
  <2>6. Built(closure, closure, NoLit)
    BY <2>2, UnchangedBuilt
  <2>7. pc' \in Phases \ Replacing /\ pc' # "ands"
    BY <1>1, <1>3 DEF Phases, Replacing
  <2> QED
    BY <1>1, <1>3, <2>1, <2>4, <2>5, <2>6, <2>7, BuiltComplete
<1> QED
  BY <1>2, <1>3

(* The phases after the gates were found in which no literal is replaced. *)
LEMMA PlainComplete ==
  ASSUME Inv, Complete, terminated' = terminated, ~closure.inconsistent,
         pc \in Plain, pc' \in Plain, pc' \in Extracting => pc \in Extracting,
         Built(closure, closure', NoLit)
  PROVE  Complete'
<1>1. pc \notin Replacing \cup {"subsume", "done"} /\ pc' \in Phases \ Replacing
      /\ pc' \notin {"ands", "xors"} /\ pc' # "ites"
  BY DEF Plain, Phases, Replacing
<1> QED
  BY <1>1, BuiltComplete

LEMMA PlainNow ==
  ASSUME Inv, Complete, pc \in Plain, ~closure.inconsistent
  PROVE  Orderly(closure, NoLit) /\ Built(closure, closure, NoLit)
BY PlainOrderly, UnchangedBuilt DEF Plain, Replacing

LEMMA NextVariableComplete ==
  ASSUME Inv, Complete, terminated' = terminated, ~closure.inconsistent, pc \in Plain,
         pc \in Extracting, NEW phase \in Plain, NEW next, NextVariable(phase, next)
  PROVE  Complete'
<1>1. closure' = closure /\ pc' \in Plain \cup {"done"}
  BY DEF NextVariable, Stop
<1> QED
  BY <1>1, PlainNow, PlainComplete, StopComplete DEF Complete

LEMMA FindUnitsComplete ==
  ASSUME Inv, Complete, FindUnits
  PROVE  Complete'
<1>1. /\ pc \in Plain /\ pc \in Extracting /\ terminated' = terminated /\ ~closure.inconsistent
      /\ \/ \E unit \in UnitOf(First) : closure' = LearnUnit(closure, unit) /\ pc' = pc
         \/ NextVariable("equivalences", Vars)
  BY DEF FindUnits, Plain, Extracting
<1>2. CASE NextVariable("equivalences", Vars)
  <2>1. "equivalences" \in Plain
    BY DEF Plain
  <2> QED
    BY <1>1, <1>2, <2>1, NextVariableComplete
<1>3. ASSUME NEW unit \in UnitOf(First), closure' = LearnUnit(closure, unit), pc' = pc
      PROVE  Complete'
  <2>1. PICK k \in LITS : {unit, k} \in closure.irredundant
    BY <1>3 DEF UnitOf, HasBinary
  <2>2. unit \in LITS
    BY <2>1, OriginalModels, BinaryHolds DEF Inv
  <2>3. Built(closure, LearnUnit(closure, unit), NoLit)
    BY <1>1, <2>2, PlainNow, LearnedBuilt
  <2> QED
    BY <1>1, <1>3, <2>3, PlainComplete
<1> QED
  BY <1>1, <1>2, <1>3

LEMMA FindEquivalencesComplete ==
  ASSUME Inv, Complete, FindEquivalences
  PROVE  Complete'
<1>1. /\ pc \in Plain /\ pc \in Extracting /\ terminated' = terminated /\ ~closure.inconsistent
      /\ \/ \E other \in EquivalentTo(First) : closure' = Merge(closure, First, other) /\ pc' = pc
         \/ NextVariable("merge", {})
  BY DEF FindEquivalences, Plain, Extracting
<1>2. CASE NextVariable("merge", {})
  <2>1. "merge" \in Plain
    BY DEF Plain
  <2> QED
    BY <1>1, <1>2, <2>1, NextVariableComplete
<1>3. ASSUME NEW other \in EquivalentTo(First),
             closure' = Merge(closure, First, other), pc' = pc
      PROVE  Complete'
  <2> DEFINE v == First
  <2>1. {v, NOT(other)} \in closure.irredundant /\ {NOT(v), other} \in closure.irredundant
    BY <1>3 DEF EquivalentTo, HasBinary
  <2> HIDE DEF v
  <2>2. v \in LITS /\ other \in LITS
    BY <2>1, OriginalModels, BinaryHolds DEF Inv
  <2>3. Built(closure, Merge(closure, v, other), NoLit)
    BY <1>1, <2>2, PlainNow, MergedBuilt
  <2> QED
    BY <1>1, <1>3, <2>3, PlainComplete DEF v
<1> QED
  BY <1>1, <1>2, <1>3

LEMMA ContinueComplete ==
  ASSUME Inv, Complete, Continue
  PROVE  Complete'
<1>1. /\ pc \in Plain /\ pc' \in {"propagate", "done"} /\ UNCHANGED <<closure, terminated>>
      /\ ~closure.inconsistent
  BY DEF Continue, Stop, Plain
<1>2. pc' = "propagate" => pc' \in Plain /\ pc' \notin Extracting
  BY DEF Plain, Extracting
<1> QED
  BY <1>1, <1>2, PlainNow, PlainComplete, StopComplete DEF Complete

-----------------------------------------------------------------------------
(* Extraction of binary clauses. *)

(* Propagation knows no less after satisfied clauses were removed. *)
LEMMA DenseUpheld ==
  ASSUME NEW c, NEW d, Loses(c, d), \A C \in c.irredundant \ d.irredundant : C \cap c.fixed # {}
  PROVE  Propagated(d) \subseteq Propagated(c)
<1> SUFFICES ASSUME NEW G \in Propagated(d) PROVE G \in Propagated(c)
  OBVIOUS
<1>1. /\ G \in SUBSET LITS /\ d.fixed \subseteq G
      /\ \A l \in LITS : ~ (l \in G /\ NOT(l) \in G)
      /\ \A C \in d.irredundant : Upholds(G, C)
  BY PropagatedFacts
<1>2. c.fixed \subseteq G
  BY <1>1 DEF Loses, SameValues
<1>3. ASSUME NEW C \in c.irredundant PROVE Upholds(G, C)
  <2>1. CASE C \in d.irredundant
    BY <1>1, <2>1
  <2>2. CASE C \notin d.irredundant
    <3>1. PICK t \in C : t \in c.fixed
      BY <2>2
    <3>2. t \in G /\ NOT(t) \notin G
      BY <1>1, <1>2, <3>1
    <3> QED
      BY <3>2 DEF Upholds
  <2> QED
    BY <2>1, <2>2
<1>4. ~Contradicts(G)
  BY DEF Propagated
<1> QED
  BY <1>1, <1>2, <1>3, <1>4 DEF Propagated

(* A binary clause from a ternary one without values has no value. *)
LEMMA StrengtheningUpheld ==
  ASSUME NEW c, NEW B, Strengthening(c, B)
  PROVE  Upholds(c.fixed, B)
<1>1. PICK C \in UnassignedTernary(c) : \E x \in Pivots(c, C) : B = C \ {x}
  BY DEF Strengthening, Strengthened
<1>2. PICK pivot \in Pivots(c, C) : B = C \ {pivot}
  BY <1>1
<1>3. Cardinality(C) = 3 /\ \A l \in C : NOT(l) \notin c.fixed
  BY DEF UnassignedTernary, Valued, IsFalse
<1>4. ASSUME NEW l \in B PROVE \E k \in B \ {l} : NOT(k) \notin c.fixed
  <2>1. l # pivot
    BY <1>2
  <2>2. Cardinality({pivot, l}) = 2 /\ IsFiniteSet({pivot, l})
    <3>1. IsFiniteSet({pivot}) /\ {pivot, l} = {pivot} \cup {l}
      BY FS_Singleton
    <3>2. IsFiniteSet({pivot} \cup {l})
      BY <3>1, FS_AddElement
    <3> QED
      BY <2>1, <3>1, <3>2, PairSize
  <2>3. ~ (C \subseteq {pivot, l})
    <3>1. C \subseteq {pivot, l} => Cardinality(C) <= 2
      BY <2>2, FS_Subset
    <3> QED
      BY <1>3, <3>1
  <2> QED
    BY <1>2, <1>3, <2>3
<1> QED
  BY <1>4 DEF Upholds

LEMMA ExtractBinariesComplete ==
  ASSUME Inv, Inv', Complete, ExtractBinaries
  PROVE  Complete'
<1> DEFINE dense == DenseMode(closure)
<1>1. PICK E \in ExtractedBinaries(dense) :
        /\ closure' = SetIrredundant(dense, dense.irredundant \cup E)
        /\ todo' = AndGates(SetIrredundant(dense, dense.irredundant \cup E))
  BY DEF ExtractBinaries, SetIrredundant
<1> DEFINE x == dense.irredundant \cup E
           c == SetIrredundant(dense, x)
<1>2. pc = "binaries" /\ pc' = "ands" /\ terminated' = terminated
  BY DEF ExtractBinaries
<1>3. Shape(closure) /\ IsClosure(closure)
  BY DEF Inv, Sane, Shape
<1>4. Loses(closure, dense) /\ \A C \in closure.irredundant \ dense.irredundant : C \cap closure.fixed # {}
  BY <1>3, DenseModeFacts
<1> HIDE DEF dense
<1>5. IsClosure(dense) /\ ProperClauses(dense.irredundant)
  BY <1>3, <1>4 DEF Loses, Shape, ProperClauses
<1>6. \A B \in E : Upholds(dense.fixed, B)
  BY <1>5, ExtractedFacts, StrengtheningUpheld
<1>7. /\ c.irredundant = x /\ c.fixed = closure.fixed /\ c.units = closure.units
      /\ c.repr = closure.repr /\ c.schedule = closure.schedule
      /\ SameGates(closure, c) /\ c.inconsistent = closure.inconsistent
  <2>1. /\ c.irredundant = x /\ SameValues(dense, c) /\ SameMerges(dense, c) /\ SameGates(dense, c)
    BY <1>5, SetIrredundantFacts
  <2> HIDE DEF c
  <2> QED
    BY <1>4, <2>1 DEF Loses, SameValues, SameMerges, SameGates
<1>8. closure' = c /\ todo' = AndGates(c)
  BY <1>1
<1>9. AllNormalized(closure')
  BY <1>7, <1>8 DEF Complete, AllNormalized, SameGates
<1>10. ASSUME ~closure'.inconsistent
       PROVE  ClosureFine(pc', closure', todo', work')
  <2> HIDE DEF c
  <2>1. ~closure.inconsistent
    BY <1>7, <1>8, <1>10
  <2>2. Orderly(closure, NoLit) /\ AllScheduled(closure)
    BY <1>2, <2>1, PlainOrderly DEF Replacing, Complete, Closing, ClosureFine, Extracting
  <2>3. Propagated(c) \subseteq Propagated(closure)
    <3>1. Propagated(dense) \subseteq Propagated(closure)
      BY <1>4, DenseUpheld
    <3>2. Propagated(c) \subseteq Propagated(dense)
      BY <1>4, <1>7, PropagatedGrows DEF Loses, SameValues
    <3> QED
      BY <3>1, <3>2
  <2>4. UpWell(c)
    <3>1. closure.fixed \in Propagated(closure) /\ Merged(Propagated(closure), closure.repr)
      BY <2>2 DEF Orderly, UpWell
    <3>2. \A C \in dense.irredundant : Upholds(closure.fixed, C)
      BY <1>4, <3>1, PropagatedFacts DEF Loses
    <3>3. \A C \in x : Upholds(closure.fixed, C)
      BY <1>4, <1>6, <3>2 DEF Loses, SameValues
    <3>4. c.fixed \in Propagated(c)
      BY <1>7, <3>1, <3>3 DEF Propagated
    <3>5. Merged(Propagated(c), c.repr)
      BY <1>7, <2>3, <3>1, MergedGrows
    <3> QED
      BY <3>4, <3>5 DEF UpWell
  <2>5. \A k \in LITS : Pend(closure, k) => Pend(c, k)
    BY <1>7 DEF Pend, Valued, IsTrue, IsFalse, SchedVars
  <2>6. AllScheduled(c)
    BY <1>7, <2>2 DEF AllScheduled, SchedVars
  <2>7. AllFine(c, NoLit) /\ Unique(c)
    BY <1>3, <1>7, <2>2, <2>3, <2>5, ViewStays DEF Orderly, Shape
  <2>8. Shape(c)
    BY <1>8 DEF Inv, Sane
  <2>9. \A gate \in AndGates(c) : FoundFine(c, gate)
    BY <2>6, <2>8, AndGatesFine
  <2>10. Replaced(pc', work') = NoLit /\ pc' # "ites" /\ pc' \notin Replacing
    BY <1>2 DEF Replaced, Replacing
  <2> QED
    BY <1>8, <2>4, <2>6, <2>7, <2>9, <2>10 DEF ClosureFine
<1>11. terminated' \in BOOLEAN /\ pc' \in Phases
  BY <1>2 DEF Complete, Phases
<1> QED
  BY <1>9, <1>10, <1>11 DEF Complete, Closing

-----------------------------------------------------------------------------
(* What is replaced next. *)

LEMMA PropagateUnitComplete ==
  ASSUME Inv, Complete, PropagateUnit
  PROVE  Complete'
<1>1. /\ pc = "propagate" /\ terminated' = terminated /\ pc' = "simplify" /\ ~closure.inconsistent
      /\ \E lit \in closure.units :
           /\ closure' = SetUnits(closure, closure.units \ {lit})
           /\ work' = Both(lit, NoLit, NoLit)
           /\ todo' = closure.occurrences[Both(lit, NoLit, NoLit)[1][1]]
  BY DEF PropagateUnit, Busy, Ready, SetUnits, Both
<1>2. PICK lit \in closure.units :
        /\ closure' = SetUnits(closure, closure.units \ {lit})
        /\ work' = Both(lit, NoLit, NoLit)
        /\ todo' = closure.occurrences[Both(lit, NoLit, NoLit)[1][1]]
  BY <1>1
<1> DEFINE x == closure.units \ {lit}
           d == SetUnits(closure, x)
<1>3. Orderly(closure, NoLit)
  BY <1>1, PlainOrderly DEF Replacing
<1>4. IsClosure(closure) /\ lit \in closure.fixed /\ lit \in LITS /\ GatesOK(closure.gates)
  BY <1>3 DEF Orderly, Shape
<1>5. /\ SameGates(closure, d) /\ SameClauses(closure, d) /\ SameMerges(closure, d)
      /\ d.fixed = closure.fixed /\ d.units = x /\ d.inconsistent = closure.inconsistent
  BY <1>4, SetUnitsFacts
<1>6. closure' = d
  BY <1>2
<1> HIDE DEF d
<1>7. Propagated(d) = Propagated(closure) /\ UpWell(d)
  BY <1>3, <1>5 DEF Propagated, UpWell, Orderly, SameClauses, SameMerges
<1>8. ASSUME NEW k \in LITS, IDX(k) = NoLit \/ Pend(closure, k)
      PROVE  IDX(k) = IDX(lit) \/ Pend(d, k)
  <2>1. Pend(closure, k)
    BY <1>8, NoLitFacts
  <2>2. k = lit \/ NOT(k) = lit => IDX(k) = IDX(lit)
    BY LitFacts
  <2> QED
    BY <1>5, <2>1, <2>2 DEF Pend, Valued, IsTrue, IsFalse, SchedVars, SameMerges
<1>9. AllFine(d, IDX(lit)) /\ Unique(d)
  BY <1>3, <1>4, <1>5, <1>7, <1>8, ViewStays DEF Orderly
<1>10. /\ work'[1][1] = lit /\ Len(work') = 2 /\ todo' = d.occurrences[lit]
  BY <1>2, <1>5, WorkFacts DEF SameGates
<1>11. StageFine(d, work', todo')
  BY <1>9, <1>10 DEF StageFine, AllFine, Fine
<1>12. WorkFine("simplify", d, work')
  BY <1>2, <1>4, <1>5 DEF WorkFine, Valued, IsTrue
<1>13. ClosureFine(pc', d, todo', work')
  BY <1>1, <1>7, <1>9, <1>10, <1>11, <1>12 DEF ClosureFine, Replaced, Replacing, Extracting
<1>14. AllNormalized(d)
  BY <1>3, <1>5 DEF Orderly, AllNormalized, SameGates
<1> QED
  BY <1>1, <1>6, <1>13, <1>14 DEF Complete, Phases

LEMMA PropagateEquivalenceComplete ==
  ASSUME Inv, Complete, PropagateEquivalence
  PROVE  Complete'
<1> DEFINE lit == Head(closure.schedule)
           dst == FindRepr(closure, lit)
           rest == Tail(closure.schedule)
           d == SetSchedule(closure, rest)
<1>1. /\ pc = "propagate" /\ terminated' = terminated /\ ~closure.inconsistent
      /\ closure' = d /\ closure.schedule # <<>> /\ closure.units = {}
      /\ \/ pc' = "merge" /\ Valued(closure, lit)
         \/ /\ pc' = "rewrite" /\ work' = Both(lit, dst, NOT(dst)) /\ ~Valued(closure, lit)
            /\ todo' = closure.occurrences[Both(lit, dst, NOT(dst))[1][1]]
  BY DEF PropagateEquivalence, Busy, SetSchedule, Both
<1>2. Orderly(closure, NoLit)
  BY <1>1, PlainOrderly DEF Replacing
<1>3. /\ Shape(closure) /\ UpWell(closure) /\ IsClosure(closure) /\ ReprOK(closure.repr)
      /\ ScheduleOK(closure.repr, closure.schedule) /\ GatesOK(closure.gates)
  BY <1>2 DEF Orderly, Shape
<1>4. /\ lit \in LITS /\ closure.repr[lit] # lit
      /\ ToSet(closure.schedule) = {lit} \cup ToSet(rest)
  <2> DEFINE s == closure.schedule
  <2>1. s \in Seq(LITS) /\ s # <<>> /\ \A i \in 1..Len(s) : closure.repr[s[i]] # s[i]
    BY <1>1, <1>3 DEF ScheduleOK
  <2> HIDE DEF s
  <2>2. /\ 1 \in 1..Len(s) /\ Head(s) = s[1] /\ Head(s) \in LITS
        /\ Tail(s) \in Seq(LITS) /\ Len(Tail(s)) = Len(s) - 1 /\ Len(s) \in Nat
        /\ \A i \in 1..Len(Tail(s)) : Tail(s)[i] = s[i + 1] /\ i + 1 \in 1..Len(s)
    BY <2>1
  <2>3. ASSUME NEW i \in 2..Len(s) PROVE \E j \in 1..Len(Tail(s)) : s[i] = Tail(s)[j]
    <3>1. i - 1 \in 1..Len(Tail(s)) /\ (i - 1) + 1 = i
      BY <2>2
    <3> QED
      BY <2>2, <3>1
  <2>4. \A i \in 1..Len(s) : i = 1 \/ i \in 2..Len(s)
    BY <2>2
  <2>5. DOMAIN s = 1..Len(s) /\ DOMAIN Tail(s) = 1..Len(Tail(s))
    BY <2>1, <2>2
  <2>6. ToSet(s) = {s[i] : i \in 1..Len(s)} /\ ToSet(Tail(s)) = {Tail(s)[i] : i \in 1..Len(Tail(s))}
    BY <2>5 DEF ToSet
  <2>7. ToSet(s) \subseteq {Head(s)} \cup ToSet(Tail(s))
    BY <2>2, <2>3, <2>4, <2>6
  <2>8. {Head(s)} \cup ToSet(Tail(s)) \subseteq ToSet(s)
    BY <2>2, <2>6
  <2> QED
    BY <2>1, <2>2, <2>7, <2>8 DEF s
<1> HIDE DEF lit, rest
<1>5. /\ SameGates(closure, d) /\ SameClauses(closure, d) /\ SameValues(closure, d)
      /\ d.repr = closure.repr /\ d.schedule = rest
  BY <1>3, SetScheduleFacts
<1> HIDE DEF d
<1>6. Propagated(d) = Propagated(closure) /\ UpWell(d)
  BY <1>3, <1>5 DEF Propagated, UpWell, SameClauses, SameValues
<1>7. SchedVars(closure) = {IDX(lit)} \cup SchedVars(d)
  BY <1>4, <1>5 DEF SchedVars
<1>8. ASSUME NEW k \in LITS, Pend(closure, k)
      PROVE  IDX(k) = IDX(lit) \/ Pend(d, k)
  BY <1>5, <1>7, <1>8 DEF Pend, Valued, IsTrue, IsFalse, SameValues
<1>9. AllNormalized(d)
  BY <1>2, <1>5 DEF Orderly, AllNormalized, SameGates
<1>10. CASE pc' = "merge" /\ Valued(closure, lit)
  <2>1. ASSUME NEW k \in LITS, IDX(k) = NoLit \/ Pend(closure, k)
        PROVE  IDX(k) = NoLit \/ Pend(d, k)
    <3>1. Pend(closure, k)
      BY <2>1, NoLitFacts
    <3>2. ~Valued(closure, k)
      BY <1>1, <3>1 DEF Pend
    <3>3. IDX(k) # IDX(lit)
      BY <1>4, <1>10, <3>2, ValuedNegation
    <3> QED
      BY <1>8, <3>1, <3>3
  <2>2. AllFine(d, NoLit) /\ Unique(d)
    BY <1>2, <1>3, <1>5, <1>6, <2>1, ViewStays DEF Orderly
  <2>3. ClosureFine(pc', d, todo', work')
    BY <1>6, <1>10, <2>2 DEF ClosureFine, Replaced, Replacing, Extracting
  <2> QED
    BY <1>1, <1>9, <1>10, <2>3 DEF Complete, Phases
<1>11. CASE /\ pc' = "rewrite" /\ work' = Both(lit, dst, NOT(dst)) /\ ~Valued(closure, lit)
            /\ todo' = closure.occurrences[Both(lit, dst, NOT(dst))[1][1]]
  <2>1. /\ dst \in LITS /\ IDX(dst) # IDX(lit) /\ closure.repr[dst] = dst
        /\ Equivalent(Propagated(closure), lit, dst)
        /\ Equivalent(Propagated(closure), NOT(lit), NOT(dst))
        /\ ~Valued(closure, dst)
    BY <1>3, <1>4, <1>11, FindReprUpheld, FindReprFixed, OtherVariable
  <2> HIDE DEF dst
  <2>2. RewritingFine(d, lit, dst)
    <3>1. Pend(d, dst)
      BY <1>5, <2>1 DEF Pend, Valued, IsTrue, IsFalse, SameValues
    <3> QED
      BY <1>6, <2>1, <3>1 DEF RewritingFine
  <2>3. AllFine(d, IDX(lit)) /\ Unique(d)
    <3>1. \A k \in LITS : IDX(k) = NoLit \/ Pend(closure, k) => IDX(k) = IDX(lit) \/ Pend(d, k)
      BY <1>8, NoLitFacts
    <3> QED
      BY <1>2, <1>3, <1>5, <1>6, <3>1, ViewStays DEF Orderly
  <2>4. /\ work'[1][1] = lit /\ Len(work') = 2 /\ todo' = d.occurrences[lit]
    BY <1>5, <1>11, WorkFacts DEF SameGates
  <2>5. StageFine(d, work', todo')
    BY <2>3, <2>4 DEF StageFine, AllFine, Fine
  <2>6. WorkFine("rewrite", d, work')
    BY <1>4, <1>11, <2>1, <2>2 DEF WorkFine
  <2>7. ClosureFine(pc', d, todo', work')
    BY <1>6, <1>11, <2>3, <2>4, <2>5, <2>6 DEF ClosureFine, Replaced, Replacing, Extracting
  <2> QED
    BY <1>1, <1>9, <1>11, <2>7 DEF Complete, Phases
<1> QED
  BY <1>1, <1>10, <1>11

-----------------------------------------------------------------------------
(* One gate is simplified or rewritten. *)

(* The gate is as it should be after the update, or was garbage before. *)
LEMMA ReplacedComplete ==
  ASSUME Inv, Complete, pc \in Replacing, ~closure.inconsistent, UNCHANGED <<pc, work, terminated>>,
         work[1][1] \in LITS,
         NEW g \in todo, todo' = todo \ {g},
         \/ g \notin Live(closure) /\ closure' = closure
         \/ Given(closure, g) /\ Updates(closure, g, work[1][1], NoLit, closure')
  PROVE  Complete'
<1> DEFINE src == work[1][1]
<1>1. /\ ClosureFine(pc, closure, todo, work) /\ AllNormalized(closure)
      /\ Replaced(pc, work) = IDX(src) /\ pc \notin Extracting
      /\ pc \notin {"ands", "xors"} /\ pc # "ites"
  BY DEF Complete, Closing, Replacing, Replaced, Extracting
<1>2. /\ UpWell(closure) /\ Unique(closure) /\ AllFine(closure, IDX(src))
      /\ WorkFine(pc, closure, work) /\ StageFine(closure, work, todo)
  BY <1>1 DEF ClosureFine
<1>3. CASE g \notin Live(closure) /\ closure' = closure
  <2>1. StageFine(closure, work, todo')
    BY <1>2, <1>3 DEF StageFine
  <2>2. ClosureFine(pc, closure, todo', work)
    BY <1>1, <1>2, <2>1 DEF ClosureFine
  <2> QED
    BY <1>1, <1>3, <2>2 DEF Complete
<1>4. CASE Given(closure, g) /\ Updates(closure, g, src, NoLit, closure')
  <2> HIDE DEF src
  <2>1. AllNormalized(closure')
    BY <1>1, <1>4, UpdatedNormalized
  <2>2. ASSUME ~closure'.inconsistent
        PROVE  ClosureFine(pc, closure', todo', work)
    <3>1. /\ UpWell(closure') /\ AllFine(closure', IDX(src)) /\ Unique(closure')
          /\ StageFine(closure', work, todo')
      BY <1>1, <1>2, <1>4, <2>2, UpdatedGates DEF src
    <3>2. WorkFine(pc, closure', work)
      BY <1>2, <1>4, <2>2, WorkStays DEF Updates
    <3> QED
      BY <1>1, <3>1, <3>2 DEF ClosureFine
  <2> QED
    BY <2>1, <2>2 DEF Complete, Closing
<1> QED
  BY <1>3, <1>4 DEF src

(* What is known of a gate that is to be looked at. *)
LEMMA GateNow ==
  ASSUME Inv, Complete, pc \in Replacing, ~closure.inconsistent, work[1][1] \in LITS,
         NEW g \in Live(closure)
  PROVE  Given(closure, g) /\ Unique(closure) /\ Pending(closure, g, work[1][1])
<1>1. pc \notin {"subsume", "done"} /\ Replaced(pc, work) = IDX(work[1][1])
  BY DEF Replacing, Replaced
<1>2. Orderly(closure, IDX(work[1][1]))
  BY <1>1, OrderlyNow
<1> QED
  BY <1>2, GivenIn DEF Orderly, Pending

LEMMA SimplifyOneComplete ==
  ASSUME Inv, Complete, SimplifyOne
  PROVE  Complete'
<1> DEFINE k == work[1][1]
<1>1. /\ pc = "simplify" /\ pc \in Replacing /\ UNCHANGED <<pc, work, terminated>>
      /\ ~closure.inconsistent
      /\ \E g \in todo : closure' = SimplifyGate(closure, g) /\ todo' = todo \ {g}
  BY DEF SimplifyOne, Ready, Replacing
<1>2. PICK g \in todo : closure' = SimplifyGate(closure, g) /\ todo' = todo \ {g}
  BY <1>1
<1>3. /\ Sane(Originals, closure) /\ Lead(closure, {}, {})
      /\ Simplifying(closure, work) /\ todo \subseteq closure.occurrences[k]
  BY <1>1 DEF Inv, OccurrencesLead
<1>4. k \in LITS /\ Valued(closure, k)
  <2>1. PICK l \in LITS : /\ Valued(closure, l)
                          /\ work \in {Both(l, NoLit, NoLit), Second(l, NoLit)}
    BY <1>3 DEF Simplifying
  <2>2. k = l \/ k = NOT(l)
    BY <2>1, WorkFacts
  <2> QED
    BY <2>1, <2>2, LitFacts, ValuedNegation
<1>5. g \in closure.occurrences[k] /\ g \in DOMAIN closure.gates
  BY <1>3, <1>4 DEF Sane, Shape
<1>6. CASE g \notin Live(closure)
  <2>1. closure.gates[g].garbage
    BY <1>5, <1>6 DEF Live
  <2>2. closure' = closure
    BY <1>2, <2>1 DEF SimplifyGate
  <2> QED
    BY <1>1, <1>2, <1>4, <1>6, <2>2, ReplacedComplete
<1>7. CASE g \in Live(closure)
  <2>1. Given(closure, g) /\ Pending(closure, g, k)
    BY <1>1, <1>4, <1>7, GateNow
  <2> HIDE DEF k
  <2>2. SomeInputValued(closure, g)
    <3> SUFFICES ASSUME LiveIte(closure.gates[g])
                 PROVE  \E l \in ToSet(closure.gates[g].rhs) : Valued(closure, l)
      BY DEF SomeInputValued
    <3>1. IDX(k) \in InputVars(closure.gates[g])
      BY <1>3, <1>4, <1>5 DEF Lead
    <3>2. PICK l \in ToSet(closure.gates[g].rhs) : IDX(k) = IDX(l)
      BY <3>1 DEF InputVars
    <3>3. l \in LITS
      BY <1>3, <1>5, <3>2, GateInputs DEF LiveIte
    <3> QED
      BY <1>4, <3>2, <3>3, ValuedNegation
  <2>3. Updates(closure, g, k, NoLit, closure')
    BY <1>2, <1>4, <2>1, <2>2, SimplifyGateUpdates
  <2> QED
    BY <1>1, <1>2, <1>4, <2>1, <2>3, ReplacedComplete DEF k
<1> QED
  BY <1>6, <1>7

LEMMA RewriteOneComplete ==
  ASSUME Inv, Complete, RewriteOne
  PROVE  Complete'
<1> DEFINE src == work[1][1]
           dst == work[1][2]
<1>1. /\ pc = "rewrite" /\ pc \in Replacing /\ UNCHANGED <<pc, work, terminated>>
      /\ ~closure.inconsistent
      /\ \E g \in todo : closure' = RewriteGate(closure, g, dst, src) /\ todo' = todo \ {g}
  BY DEF RewriteOne, Ready, Replacing
<1>2. PICK g \in todo : closure' = RewriteGate(closure, g, dst, src) /\ todo' = todo \ {g}
  BY <1>1
<1>3. /\ Shape(closure) /\ ReprOK(closure.repr) /\ todo \subseteq closure.occurrences[src]
  BY <1>1 DEF Inv, Sane, Shape, OccurrencesLead
<1>4. WorkFine(pc, closure, work)
  BY <1>1 DEF Complete, Closing, ClosureFine
<1>5. PICK l \in LITS, d \in LITS : /\ RewritingFine(closure, l, d)
                                    /\ work \in {Both(l, d, NOT(d)), Second(l, NOT(d))}
  BY <1>1, <1>4 DEF WorkFine
<1>6. RewritingFine(closure, NOT(l), NOT(d)) /\ NOT(l) \in LITS /\ NOT(d) \in LITS
  <2>1. /\ NOT(l) \in LITS /\ NOT(d) \in LITS /\ IDX(NOT(l)) = IDX(l) /\ IDX(NOT(d)) = IDX(d)
        /\ NOT(NOT(l)) = l /\ NOT(NOT(d)) = d
    BY LitFacts
  <2>2. Pend(closure, NOT(d))
    BY <1>3, <1>5, PendNegated DEF RewritingFine
  <2> QED
    BY <1>5, <2>1, <2>2 DEF RewritingFine
<1>7. \/ src = l /\ dst = d
      \/ src = NOT(l) /\ dst = NOT(d)
  BY <1>5, WorkFacts
<1>8. src \in LITS /\ RewritingFine(closure, src, dst)
  BY <1>5, <1>6, <1>7
<1>9. g \in DOMAIN closure.gates
  BY <1>3, <1>8 DEF Shape
<1>10. CASE g \notin Live(closure)
  <2>1. closure.gates[g].garbage
    BY <1>9, <1>10 DEF Live
  <2>2. closure' = closure
    BY <1>2, <2>1 DEF RewriteGate
  <2> QED
    BY <1>1, <1>2, <1>8, <1>10, <2>2, ReplacedComplete
<1>11. CASE g \in Live(closure)
  <2>1. Given(closure, g) /\ Unique(closure) /\ Pending(closure, g, src)
    BY <1>1, <1>8, <1>11, GateNow
  <2> HIDE DEF src, dst
  <2>2. Updates(closure, g, src, NoLit, closure')
    BY <1>2, <1>8, <2>1, RewriteGateUpdates
  <2> QED
    BY <1>1, <1>2, <1>8, <2>1, <2>2, ReplacedComplete DEF src
<1> QED
  BY <1>10, <1>11

-----------------------------------------------------------------------------
(* The gates of a literal are done. *)

LEMMA WorkForm ==
  ASSUME Complete, pc \in Replacing, ~closure.inconsistent
  PROVE  \E l \in LITS : \E a, b : /\ work \in {Both(l, a, b), Second(l, b)}
                                   /\ WorkFine(pc, closure, Second(l, b))
<1>1. WorkFine(pc, closure, work) /\ pc \in {"simplify", "rewrite"}
  BY DEF Complete, Closing, ClosureFine, Replacing
<1>2. PICK l \in LITS :
        /\ pc = "simplify" =>
             Valued(closure, l) /\ work \in {Both(l, NoLit, NoLit), Second(l, NoLit)}
        /\ pc = "rewrite" =>
             \E d \in LITS : /\ RewritingFine(closure, l, d)
                             /\ work \in {Both(l, d, NOT(d)), Second(l, NOT(d))}
  BY <1>1 DEF WorkFine
<1>3. CASE pc = "simplify"
  <2>1. WorkFine(pc, closure, Second(l, NoLit))
    BY <1>2, <1>3 DEF WorkFine
  <2> QED
    BY <1>2, <1>3, <2>1
<1>4. CASE pc = "rewrite"
  <2>1. PICK d \in LITS : /\ RewritingFine(closure, l, d)
                          /\ work \in {Both(l, d, NOT(d)), Second(l, NOT(d))}
    BY <1>2, <1>4
  <2>2. WorkFine(pc, closure, Second(l, NOT(d)))
    BY <1>4, <2>1 DEF WorkFine
  <2> QED
    BY <2>1, <2>2
<1> QED
  BY <1>1, <1>3, <1>4

LEMMA ReleaseOccurrencesComplete ==
  ASSUME Inv, Complete, ReleaseOccurrences
  PROVE  Complete'
<1> DEFINE k == work[1][1]
           d == SetOccurrences(closure, Released(closure, k))
<1>1. /\ pc \in Replacing /\ pc \in {"simplify", "rewrite"} /\ terminated' = terminated
      /\ closure' = d /\ ~closure.inconsistent /\ todo = {}
      /\ IF Len(work) > 1
         THEN /\ pc' = pc /\ work' = Tail(work)
              /\ todo' = closure.occurrences[Tail(work)[1][1]]
         ELSE pc' = IF pc = "simplify" THEN "propagate" ELSE "merge"
  BY DEF ReleaseOccurrences, Busy, SetOccurrences, Released, Replacing
<1>2. PICK l \in LITS : \E a, b : /\ work \in {Both(l, a, b), Second(l, b)}
                                  /\ WorkFine(pc, closure, Second(l, b))
  BY <1>1, WorkForm
<1>3. PICK a, b : /\ work \in {Both(l, a, b), Second(l, b)}
                  /\ WorkFine(pc, closure, Second(l, b))
  BY <1>2
<1>4. /\ NOT(l) \in LITS /\ NOT(l) # l /\ IDX(NOT(l)) = IDX(l) /\ NOT(NOT(l)) = l
      /\ \A m \in LITS : IDX(m) = IDX(l) => m = l \/ m = NOT(l)
  BY LitFacts, SameIndex
<1>5. k \in LITS /\ IDX(k) = IDX(l)
  <2>1. k = l \/ k = NOT(l)
    <3>1. CASE work = Both(l, a, b)
      BY <3>1, WorkFacts
    <3>2. CASE work = Second(l, b)
      BY <3>2, SecondFacts
    <3> QED
      BY <1>3, <3>1, <3>2
  <2> QED
    BY <1>4, <2>1
<1>6. /\ Orderly(closure, IDX(l)) /\ StageFine(closure, work, {})
  <2>1. pc \notin {"subsume", "done"} /\ Replaced(pc, work) = IDX(k)
    BY <1>1 DEF Replacing, Replaced
  <2>2. StageFine(closure, work, {})
    BY <1>1 DEF Complete, Closing, ClosureFine, Replacing
  <2> QED
    BY <1>1, <1>5, <2>1, <2>2, OrderlyNow
<1>7. IsClosure(closure) /\ GatesOK(closure.gates) /\ closure.occurrences \in [LITS -> SUBSET DOMAIN closure.gates]
  BY <1>6 DEF Orderly, Shape
<1>8. ASSUME NEW g \in Live(closure) PROVE k \notin ToSet(closure.gates[g].rhs)
  BY <1>6 DEF StageFine
<1> HIDE DEF k
<1>9. /\ SameClauses(closure, d) /\ SameValues(closure, d) /\ SameMerges(closure, d)
      /\ d.gates = closure.gates
      /\ \A m \in LITS \ {k} : d.occurrences[m] = closure.occurrences[m]
  BY <1>5, <1>7, SetOccurrencesFacts DEF Released
<1> HIDE DEF d
<1>10. Propagated(d) = Propagated(closure) /\ UpWell(d) /\ Live(d) = Live(closure)
  BY <1>6, <1>9 DEF Propagated, UpWell, Orderly, SameClauses, SameValues, SameMerges, Live
<1>11. \A m \in LITS : Pend(closure, m) => Pend(d, m)
  BY <1>9 DEF Pend, Valued, IsTrue, IsFalse, SchedVars, SameValues, SameMerges
<1>12. Unique(d) /\ AllNormalized(d)
  BY <1>6, <1>9, <1>10 DEF Orderly, Unique, AllNormalized
<1>13. ASSUME NEW g \in Live(closure)
       PROVE  /\ GateUpheld(d, d.gates[g])
              /\ \A m \in ToSet(d.gates[g].rhs) :
                   m \in LITS /\ m # k /\ g \in d.occurrences[m] /\ (IDX(m) = IDX(l) \/ Pend(d, m))
  <2>1. Fine(closure, IDX(l), g)
    BY <1>6 DEF Orderly, AllFine
  <2>2. GateUpheld(d, d.gates[g])
    BY <1>9, <1>10, <2>1, UpheldGrows DEF Fine
  <2>3. ToSet(closure.gates[g].rhs) \in SUBSET LITS
    <3>1. GateOK(closure.gates[g])
      BY <1>7 DEF Live, GatesOK, EntryOK
    <3> QED
      BY <3>1 DEF GateOK, ToSet
  <2> QED
    BY <1>8, <1>9, <1>11, <2>1, <2>2, <2>3 DEF Fine
<1>14. CASE work = Both(l, a, b)
  <2>1. /\ pc' = pc /\ work' = Second(l, b) /\ k = l
        /\ todo' = closure.occurrences[NOT(l)] /\ work'[1][1] = NOT(l) /\ Len(work') = 1
    BY <1>1, <1>14, WorkFacts DEF k
  <2>2. todo' = d.occurrences[NOT(l)]
    BY <1>4, <1>9, <2>1
  <2>3. AllFine(d, IDX(l))
    BY <1>10, <1>13 DEF AllFine, Fine
  <2>4. StageFine(d, work', todo')
    BY <1>4, <1>10, <1>13, <2>1, <2>2 DEF StageFine
  <2>5. WorkFine(pc, d, work')
    BY <1>3, <1>9, <1>10, <1>11, <2>1
       DEF WorkFine, RewritingFine, Valued, IsTrue, IsFalse, SameValues
  <2>6. Replaced(pc', work') = IDX(l) /\ pc' \notin Extracting /\ pc' \notin {"ands", "xors", "ites"}
    BY <1>1, <1>4, <2>1 DEF Replaced, Extracting, Replacing
  <2>7. ClosureFine(pc', d, todo', work')
    BY <1>10, <1>12, <2>1, <2>3, <2>4, <2>5, <2>6 DEF ClosureFine
  <2> QED
    BY <1>1, <1>12, <2>1, <2>7 DEF Complete, Closing
<1>15. CASE work = Second(l, b)
  <2>1. /\ pc' \in {"propagate", "merge"} /\ k = NOT(l) /\ Len(work) = 1
    BY <1>1, <1>15, SecondFacts DEF k
  <2>2. ASSUME NEW g \in Live(closure), NEW m \in ToSet(d.gates[g].rhs)
        PROVE  IDX(m) # IDX(l)
    <3>1. m # NOT(l) /\ m \in LITS
      BY <1>13, <2>1
    <3>2. m # l
      BY <1>4, <1>6, <1>9, <2>1 DEF StageFine, k
    <3> QED
      BY <1>4, <3>1, <3>2
  <2>3. AllFine(d, NoLit)
    BY <1>10, <1>13, <2>2 DEF AllFine, Fine
  <2>4. ClosureFine(pc', d, todo', work')
    BY <1>10, <1>12, <2>1, <2>3 DEF ClosureFine, Replaced, Replacing, Extracting
  <2> QED
    BY <1>1, <1>12, <2>1, <2>4 DEF Complete, Phases
<1> QED
  BY <1>3, <1>14, <1>15

-----------------------------------------------------------------------------
(* Clauses are removed, gates are not used any more. *)

LEMMA RemovalComplete ==
  ASSUME Complete, pc' \in {"subsume", "done"}, terminated' = terminated,
         closure'.gates = closure.gates
  PROVE  Complete'
BY DEF Complete, Closing, Phases, AllNormalized

LEMMA EndPropagationComplete ==
  ASSUME Inv, Complete, EndPropagation
  PROVE  Complete'
<1> DEFINE dense == DenseMode(closure)
           x == {C \in dense.irredundant : Cardinality(C) = 2 \/ ~Removable(C)}
<1>1. /\ terminated' = terminated
      /\ \/ pc' = "done" /\ closure' = closure
         \/ /\ pc' = "subsume"
            /\ \E before \in SUBSET closure.redundant :
                 /\ closure' = [dense EXCEPT !.irredundant = x,
                                  !.redundant = {C \in @ : C \in before => ~Removable(C)}]
                 /\ todo' = Candidates(closure.irredundant, FALSE) \cup Candidates(before, TRUE)
  BY DEF EndPropagation, Stop
<1>2. CASE pc' = "done" /\ closure' = closure
  BY <1>1, <1>2, RemovalComplete
<1>3. CASE pc' # "done"
  <2>1. PICK before \in SUBSET closure.redundant :
          closure' = [dense EXCEPT !.irredundant = x,
                        !.redundant = {C \in @ : C \in before => ~Removable(C)}]
    BY <1>1, <1>3
  <2> DEFINE y == {C \in dense.redundant : C \in before => ~Removable(C)}
             e == SetIrredundant(dense, x)
  <2>2. closure' = SetRedundant(e, y)
    BY <2>1 DEF SetIrredundant, SetRedundant
  <2>3. IsClosure(closure)
    BY DEF Inv, Sane, Shape
  <2>4. IsClosure(dense) /\ dense.gates = closure.gates
    BY <2>3, DenseModeFacts DEF Loses, SameGates
  <2> HIDE DEF x, y, dense
  <2>5. IsClosure(e) /\ e.gates = dense.gates
    BY <2>4, SetIrredundantFacts DEF SameGates
  <2> HIDE DEF e
  <2>6. closure'.gates = closure.gates
    BY <2>2, <2>4, <2>5, SetRedundantFacts DEF SameGates
  <2> QED
    BY <1>1, <1>3, <2>6, RemovalComplete
<1> QED
  BY <1>1, <1>2, <1>3

LEMMA ForwardSubsumeComplete ==
  ASSUME Inv, Complete, ForwardSubsume
  PROVE  Complete'
<1>1. /\ pc' \in {"subsume", "done"} /\ terminated' = terminated
      /\ \/ closure' = closure
         \/ \E x : closure' = SetRedundant(closure, x)
         \/ \E x : closure' = SetIrredundant(closure, x)
  BY DEF ForwardSubsume, RemoveClause, SetRedundant, SetIrredundant
<1>2. IsClosure(closure)
  BY DEF Inv, Sane, Shape
<1>3. closure'.gates = closure.gates
  BY <1>1, <1>2, SetRedundantFacts, SetIrredundantFacts DEF SameGates
<1> QED
  BY <1>1, <1>3, RemovalComplete

LEMMA NextComplete ==
  ASSUME Inv, Inv', Complete, [Next]_vars
  PROVE  Complete'
<1>1. CASE UNCHANGED vars
  BY <1>1, StutterComplete DEF vars, Complete
<1>2. CASE Terminate
  BY <1>2, StutterComplete DEF Terminate
<1>3. CASE ExtractBinaries
  BY <1>3, ExtractBinariesComplete
<1>4. CASE ExtractAnd
  BY <1>4, ExtractGateComplete DEF ExtractAnd, Ready
<1>5. CASE ExtractXor
  BY <1>5, ExtractGateComplete DEF ExtractXor, Ready
<1>6. CASE ExtractIte
  BY <1>6, ExtractIteComplete
<1>7. CASE EndExtraction
  BY <1>7, EndExtractionComplete
<1>8. CASE FindUnits
  BY <1>8, FindUnitsComplete
<1>9. CASE FindEquivalences
  BY <1>9, FindEquivalencesComplete
<1>10. CASE Continue
  BY <1>10, ContinueComplete
<1>11. CASE PropagateUnit
  BY <1>11, PropagateUnitComplete
<1>12. CASE PropagateEquivalence
  BY <1>12, PropagateEquivalenceComplete
<1>13. CASE SimplifyOne
  BY <1>13, SimplifyOneComplete
<1>14. CASE RewriteOne
  BY <1>14, RewriteOneComplete
<1>15. CASE ReleaseOccurrences
  BY <1>15, ReleaseOccurrencesComplete
<1>16. CASE Inconsistent
  BY <1>16, StopComplete DEF Inconsistent, Stop, Complete
<1>17. CASE EndPropagation
  BY <1>17, EndPropagationComplete
<1>18. CASE ForwardSubsume
  BY <1>18, ForwardSubsumeComplete
<1>19. CASE EndSubsumption
  BY <1>19, StopComplete DEF EndSubsumption, Stop, Complete
<1>20. CASE Done
  BY <1>20, StutterComplete DEF Done, vars, Complete
<1> QED
  BY <1>1, <1>2, <1>3, <1>4, <1>5, <1>6, <1>7, <1>8, <1>9, <1>10, <1>11, <1>12, <1>13, <1>14,
     <1>15, <1>16, <1>17, <1>18, <1>19, <1>20 DEF Next

-----------------------------------------------------------------------------
(***************************************************************************)
(* In every phase of the closure the inputs of a gate lead to it through   *)
(* the occurrences, those that have a value or were merged are still to be *)
(* propagated, and the hash table has no two gates with the same inputs.   *)
(***************************************************************************)
THEOREM ClosureStaysFine == Spec => [](Inv /\ Complete)
<1>1. Init => Inv /\ Complete
  BY InitInv, InitComplete
<1>2. Inv /\ Complete /\ [Next]_vars => (Inv /\ Complete)'
  BY NextInv, NextComplete
<1> QED
  BY <1>1, <1>2, PTL DEF Spec

(***************************************************************************)
(* Representatives are smaller and respect negation, and every gate that   *)
(* is not garbage is normalized: its inputs are of different variables, at *)
(* least two, and in the order in which they are hashed, however often it  *)
(* was simplified and rewritten.                                           *)
(***************************************************************************)
THEOREM GatesStayNormalized == Spec => []TypeOK
<1>1. ASSUME Inv, Complete PROVE TypeOK
  <2>1. /\ problem \in Problems /\ terminated \in BOOLEAN /\ pc \in Phases
        /\ AllNormalized(closure) /\ Shape(closure)
    BY <1>1 DEF Inv, Complete, Sane
  <2>2. \A l \in LITS : /\ closure.repr[l] = l \/ LessLit(closure.repr[l], l)
                        /\ closure.repr[NOT(l)] = NOT(closure.repr[l])
                        /\ closure.occurrences[l] \subseteq DOMAIN closure.gates
    BY <2>1 DEF Shape, ReprOK
  <2>3. \A g \in Live(closure) : Normalized(closure.gates[g])
    BY <2>1 DEF AllNormalized, Live
  <2> QED
    BY <2>1, <2>2, <2>3 DEF TypeOK, Phases, Shape
<1> QED
  BY <1>1, ClosureStaysFine, PTL

(***************************************************************************)
(* When propagate_units_and_equivalences has nothing left to propagate, no *)
(* gate has an input with a value or a literal that was merged into        *)
(* another, and no two gates are the same function of the same inputs: the *)
(* occurrences that are released and reconnected never lose a gate.        *)
(***************************************************************************)
THEOREM ClosureIsComplete == Spec => []ClosureComplete
<1>1. ASSUME Inv, Complete PROVE ClosureComplete
  <2> SUFFICES ASSUME pc = "propagate", closure.units = {}, closure.schedule = <<>>,
                      ~closure.inconsistent
               PROVE  /\ \A g \in Live(closure) : \A l \in ToSet(closure.gates[g].rhs) :
                           ~Valued(closure, l) /\ closure.repr[l] = l
                      /\ \A g, h \in Live(closure) :
                           (/\ closure.gates[g].tag = closure.gates[h].tag
                            /\ closure.gates[g].rhs = closure.gates[h].rhs) => g = h
    BY DEF ClosureComplete
  <2>1. Orderly(closure, NoLit)
    BY <1>1, PlainOrderly DEF Replacing
  <2>2. \A g, h \in Live(closure) :
          (/\ closure.gates[g].tag = closure.gates[h].tag
           /\ closure.gates[g].rhs = closure.gates[h].rhs) => g = h
    BY <2>1 DEF Orderly, Unique, SameInputs
  <2>3. ASSUME NEW g \in Live(closure), NEW l \in ToSet(closure.gates[g].rhs)
        PROVE  ~Valued(closure, l) /\ closure.repr[l] = l
    <3>1. Given(closure, g) /\ (IDX(l) = NoLit \/ Pend(closure, l))
      BY <2>1, GivenIn DEF Orderly
    <3>2. l \in LITS
      BY <3>1, GivenFacts
    <3>3. Pend(closure, l)
      BY <3>1, <3>2, NoLitFacts
    <3>4. SchedVars(closure) = {}
      BY DEF SchedVars, ToSet
    <3> QED
      BY <3>3, <3>4 DEF Pend
  <2> QED
    BY <2>2, <2>3
<1> QED
  BY <1>1, ClosureStaysFine, PTL
=============================================================================
