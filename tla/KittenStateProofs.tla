--------------------------- MODULE KittenStateProofs ---------------------------
(***************************************************************************)
(* What holds of the state of the embedded solver between any two steps,   *)
(* and how everything it does but analyzing conflicts and answering keeps  *)
(* it: adding, assigning, unassigning and propagating, and the calls of    *)
(* its users that change its clauses, its watches or its values.           *)
(***************************************************************************)
EXTENDS KittenSolver, SequenceTheorems, FiniteSetTheorems, TLAPS

(* With an empty clause of the user, the reference to the clause that makes
   the solver inconsistent does not survive shrinking. *)
NonEmptyProblems == \A p \in Problems : \A n \in DOMAIN p.clauses : p.clauses[n] # <<>>

-----------------------------------------------------------------------------
(* The inductive invariant: what holds between any two steps. *)

Klauses == [id : Nat, lits : Seq(LITS), learned : BOOLEAN,
            antecedents : SUBSET Nat, core : BOOLEAN]

Watchers == [ref : Nat, blit : LITS]

Kittens ==
  [status : {0, 10, 20, 21}, antecedents : BOOLEAN, learned : BOOLEAN,
   klauses : Seq(Klauses), endOriginal : Nat, units : Seq(Nat),
   watches : [LITS -> Seq(Watchers)], values : SUBSET LITS, level : Nat,
   levelOf : [Vars -> Nat], reason : [Vars -> Nat], trail : Seq(LITS),
   propagated : Nat, phases : SUBSET Vars, queue : Seq(Vars),
   search : Vars \cup {0}, assumptions : Seq(LITS), failed : SUBSET LITS,
   failing : Nat, inconsistent : Nat, core : SUBSET Nat]

Refs(k) == 1..Len(k.klauses)

Knows(k) == ToSet(k.queue)

Large(k, ref) == Len(Klause(k, ref).lits) > 1

Falsified(k, C) == \A l \in C : IsFalse(k, l)

(* A variable occurs once in a clause, and is known. *)
ClausesWell(k) ==
  \A ref \in Refs(k) :
    LET lits == Klause(k, ref).lits
    IN  /\ \A i, j \in 1..Len(lits) : IDX(lits[i]) = IDX(lits[j]) => i = j
        /\ \A i \in 1..Len(lits) : IDX(lits[i]) \in Knows(k)
        /\ lits = <<>> => k.inconsistent # INVALID

(* Unit clauses are listed, larger ones are watched by their first two
   literals; blocking literals are other literals of the clause. *)
UnitsListed(k, n) == ToSet(k.units) = {ref \in 1..n : Len(Klause(k, ref).lits) = 1}

WatchedRefs(k, n, l) ==
  {ref \in 1..n : /\ Large(k, ref)
                  /\ l \in {Klause(k, ref).lits[1], Klause(k, ref).lits[2]}}

WatchListOf(k, refs, l, watches) ==
  /\ {watches[i].ref : i \in 1..Len(watches)} = refs
  /\ \A i, j \in 1..Len(watches) : watches[i].ref = watches[j].ref => i = j
  /\ \A i \in 1..Len(watches) : watches[i].blit \in Lits(k, watches[i].ref) \ {l}

Watched(k, n) == \A l \in LITS : WatchListOf(k, WatchedRefs(k, n, l), l, k.watches[l])

(* No unassigned variable is behind the one where decisions start to look. *)
QueueWell(k) ==
  /\ \A i, j \in 1..Len(k.queue) : k.queue[i] = k.queue[j] => i = j
  /\ k.queue # <<>> =>
       \E p \in 1..Len(k.queue) :
         /\ k.queue[p] = k.search
         /\ \A i \in 1..Len(k.queue) : k.queue[i] \in Unassigned(k) => i <= p

(* A true literal is on the trail, if it was not flipped, or in a unit clause. *)
ValuesWell(k) ==
  \A l \in k.values :
    /\ IDX(l) \in Knows(k)
    /\ NOT(l) \notin k.values
    /\ \/ l \in ToSet(k.trail)
       \/ NOT(l) \in ToSet(k.trail)
       \/ \E ref \in Refs(k) : Klause(k, ref).lits = <<l>>

KnownWell(k) ==
  /\ \A l \in ToSet(k.trail) : IDX(l) \in Knows(k)
  /\ \A l \in ToSet(k.assumptions) : IDX(l) \in Knows(k)

(* Derivations. *)
SatisfiesAll(k, M, refs) == \A ref \in refs : Satisfies(M, Lits(k, ref))

Follows(k, refs, C) == \A M \in Models : SatisfiesAll(k, M, refs) => Satisfies(M, C)

Derived(k) ==
  /\ k.endOriginal <= Len(k.klauses)
  /\ \A ref \in Refs(k) :
       LET c == Klause(k, ref)
       IN  IF c.learned
           THEN /\ k.learned
                /\ Follows(k, Originals(k), Lits(k, ref))
                /\ k.antecedents => /\ c.antecedents \subseteq 1 .. ref - 1
                                    /\ Follows(k, c.antecedents, Lits(k, ref))
           ELSE ref <= k.endOriginal /\ c.antecedents = {}

FromUser(k, p, g) ==
  \A ref \in Originals(k) :
    Klause(k, ref).id \in 1..g /\ Lits(k, ref) = ToSet(p.clauses[Klause(k, ref).id])

Refuted(k, refs) == \A M \in Models : k.failed \subseteq M => ~SatisfiesAll(k, M, refs)

Root(k) == IF k.inconsistent # INVALID THEN k.inconsistent ELSE k.failing

RootSet(k) == IF Root(k) = INVALID THEN {} ELSE {Root(k)}

InconsistentWell(k) ==
  k.inconsistent # INVALID =>
    /\ k.inconsistent \in Refs(k)
    /\ k.queue # <<>>
    /\ \A M \in Models : ~SatisfiesAll(k, M, Originals(k))
    /\ k.antecedents => Lits(k, k.inconsistent) = {}

FailedWell(k) ==
  /\ k.failed \subseteq ToSet(k.assumptions)
  /\ k.assumptions = <<>> => k.failing = INVALID
  /\ k.status \notin {20, 21} => k.failed = {} /\ k.failing = INVALID

Clausal(k) ==
  /\ ClausesWell(k)
  /\ UnitsListed(k, Len(k.klauses))
  /\ Derived(k)
  /\ InconsistentWell(k)

(* All but the watch lists, of which one may be being visited. *)
Orderly(k) ==
  /\ Clausal(k)
  /\ QueueWell(k)
  /\ ValuesWell(k)
  /\ KnownWell(k)
  /\ FailedWell(k)

Static(k) == Orderly(k) /\ Watched(k, Len(k.klauses))

(* Between calls. *)
FoundIn(k) == ToSet(k.trail) \cup {l \in k.values : k.levelOf[IDX(l)] = 0}

CoreOriginals(k) == {ref \in Originals(k) : Klause(k, ref).core}

Answered(k) ==
  /\ k.status = 10 =>
       /\ \A v \in Knows(k) : v \in k.values \/ NOT(v) \in k.values
       /\ \A l \in k.values : \/ k.levelOf[IDX(l)] = 0
                              \/ l \in ToSet(k.trail) \/ NOT(l) \in ToSet(k.trail)
       /\ \A ref \in Originals(k) : Lits(k, ref) \cap FoundIn(k) # {}
       /\ ToSet(k.assumptions) \subseteq FoundIn(k)
  /\ k.status \in {20, 21} => Refuted(k, Originals(k))
  /\ k.status = 20 /\ k.antecedents =>
       RootSet(k) \subseteq Refs(k) /\ Refuted(k, RootSet(k))
  /\ k.status = 21 => k.antecedents /\ Refuted(k, CoreOriginals(k))
  /\ k.inconsistent # INVALID => k.failed = {} /\ k.failing = INVALID

(* Before units are assigned. *)
Cleared(k) == k.values = {} /\ k.trail = <<>> /\ k.level = 0 /\ k.propagated = 0

(* During search. *)
Pending(k, n, l) == \E j \in n + 1 .. Len(k.trail) : k.trail[j] = l

TrailWell(k) ==
  /\ k.propagated <= Len(k.trail)
  /\ \A i \in 1..Len(k.trail) : k.trail[i] \in k.values
  /\ \A i, j \in 1..Len(k.trail) : k.trail[i] = k.trail[j] => i = j
  /\ \A i, j \in 1..Len(k.trail) :
       i <= j => k.levelOf[IDX(k.trail[i])] <= k.levelOf[IDX(k.trail[j])]
  /\ \A i \in 1..Len(k.trail) : k.levelOf[IDX(k.trail[i])] <= k.level
  /\ \A i \in k.propagated + 1 .. Len(k.trail) : k.levelOf[IDX(k.trail[i])] = k.level

(* A root-level literal has a unit clause as reason; all others are on the trail. *)
ValuesExplained(k) ==
  /\ \A l \in k.values :
       IF k.levelOf[IDX(l)] = 0
       THEN /\ k.reason[IDX(l)] \in Refs(k)
            /\ Klause(k, k.reason[IDX(l)]).lits = <<l>>
       ELSE l \in ToSet(k.trail)
  /\ \A ref \in Refs(k) : \A l \in LITS :
       Klause(k, ref).lits = <<l>> => l \in k.values /\ k.levelOf[IDX(l)] = 0

(* Decisions come first on their level, and up to a certain level are assumptions;
   other literals are implied by earlier ones. *)
Before(k, i, l) ==
  IsFalse(k, l) /\ (k.levelOf[IDX(l)] = 0 \/ \E j \in 1 .. i - 1 : k.trail[j] = NOT(l))

ReasonWell(k, i) ==
  LET lit == k.trail[i]
      ref == k.reason[IDX(lit)]
  IN  IF ref = INVALID
      THEN /\ \A j \in 1 .. i - 1 : k.levelOf[IDX(k.trail[j])] < k.levelOf[IDX(lit)]
           /\ k.levelOf[IDX(lit)] <= Len(k.assumptions) => lit \in ToSet(k.assumptions)
      ELSE /\ ref \in Refs(k)
           /\ lit \in Lits(k, ref)
           /\ \A l \in Lits(k, ref) \ {lit} : Before(k, i, l)

ReasonsWell(k) ==
  \A i \in 1..Len(k.trail) : k.levelOf[IDX(k.trail[i])] > 0 => ReasonWell(k, i)

AssumptionsTrue(k) ==
  \A i \in 1..Len(k.assumptions) :
    i <= k.level => IsTrue(k, k.assumptions[i]) /\ k.levelOf[IDX(k.assumptions[i])] <= i

(* A watched literal that is false and was propagated is excused by a true
   literal of the clause, at its level or before. *)
Excused(k, ref, l) ==
  \E t \in Lits(k, ref) : IsTrue(k, t) /\ k.levelOf[IDX(t)] <= k.levelOf[IDX(l)]

WatchExcused(k, n, bad, ref, l) ==
  /\ IsFalse(k, l)
  /\ ~Pending(k, n, NOT(l))
  /\ bad = INVALID \/ k.levelOf[IDX(l)] < k.level
  => Excused(k, ref, l)

WatchesExcused(k, bad) ==
  \A ref \in Refs(k) :
    Large(k, ref) => /\ WatchExcused(k, k.propagated, bad, ref, Klause(k, ref).lits[1])
                     /\ WatchExcused(k, k.propagated, bad, ref, Klause(k, ref).lits[2])

ConflictWell(k, bad) ==
  bad # INVALID =>
    /\ bad \in Refs(k)
    /\ Falsified(k, Lits(k, bad))
    /\ \E l \in Lits(k, bad) : k.levelOf[IDX(l)] = k.level

Explained(k) ==
  /\ k.status = 0
  /\ k.inconsistent = INVALID
  /\ TrailWell(k)
  /\ ValuesExplained(k)
  /\ ReasonsWell(k)
  /\ AssumptionsTrue(k)

Searching(k, bad) ==
  /\ Explained(k)
  /\ WatchesExcused(k, bad)
  /\ ConflictWell(k, bad)

Consistent(p, g, k, place, bad) ==
  /\ p \in Problems
  /\ g \in 0..Len(p.clauses)
  /\ k \in Kittens
  /\ place \in {"user", "units", "propagate", "decide"}
  /\ bad \in Nat
  /\ Static(k)
  /\ FromUser(k, p, g)
  /\ place = "user" => Answered(k)
  /\ place = "units" => Cleared(k) /\ k.status = 0
  /\ place \in {"propagate", "decide"} => Searching(k, bad)
  /\ place = "decide" => k.propagated = Len(k.trail)
  /\ place # "propagate" => bad = INVALID

IInv == Consistent(problem, given, kitten, pc, conflict)
-----------------------------------------------------------------------------
(* Literals and models. *)

LEMMA LitFacts ==
  ASSUME NEW l \in LITS
  PROVE  /\ l \in Int /\ l # 0
         /\ NOT(l) \in LITS /\ NOT(NOT(l)) = l /\ NOT(l) # l
         /\ IDX(l) \in Vars /\ IDX(l) \in LITS /\ IDX(NOT(l)) = IDX(l)
         /\ l = IDX(l) \/ l = NOT(IDX(l))
BY VarsAssumption DEF LITS, NOT, IDX

LEMMA VarFacts ==
  ASSUME NEW v \in Vars
  PROVE  v \in LITS /\ IDX(v) = v /\ IDX(NOT(v)) = v /\ NOT(v) \in LITS /\ NOT(v) # v
BY VarsAssumption DEF LITS, NOT, IDX

LEMMA SameIndex ==
  ASSUME NEW k \in LITS, NEW l \in LITS, IDX(k) = IDX(l)
  PROVE  k = l \/ k = NOT(l)
BY VarsAssumption DEF LITS, NOT, IDX

LEMMA ModelFacts ==
  ASSUME NEW M \in Models
  PROVE  M \subseteq LITS /\ \A l \in LITS : NOT(l) \in M <=> l \notin M
<1>1. PICK P \in SUBSET Vars : M = P \cup {NOT(v) : v \in Vars \ P}
  BY DEF Models
<1>2. M \subseteq LITS
  BY <1>1, VarFacts
<1>3. ASSUME NEW v \in Vars
      PROVE  (v \in M <=> v \in P) /\ (NOT(v) \in M <=> v \notin P)
  <2>1. \A u \in Vars : u \in Int /\ u > 0 /\ v \in Int /\ v > 0
    BY VarsAssumption
  <2>2. v \in M <=> v \in P
    BY <1>1, <2>1 DEF NOT
  <2>3. NOT(v) \in M <=> \E u \in Vars \ P : NOT(v) = NOT(u)
    BY <1>1, <2>1 DEF NOT
  <2>4. \A u \in Vars : NOT(v) = NOT(u) => u = v
    BY <2>1 DEF NOT
  <2> QED
    BY <2>2, <2>3, <2>4
<1>4. ASSUME NEW l \in LITS
      PROVE  NOT(l) \in M <=> l \notin M
  BY <1>3, VarsAssumption, VarFacts DEF LITS, NOT
<1> QED
  BY <1>2, <1>4

-----------------------------------------------------------------------------
(* Numbers. *)

LEMMA Counting ==
  \A P : 0 \in P /\ (\A n \in Nat : n \in P => n + 1 \in P) => Nat \subseteq P
<1> SUFFICES ASSUME NEW P, 0 \in P, \A n \in Nat : n \in P => n + 1 \in P,
                    ~ (Nat \subseteq P)
             PROVE  FALSE
  OBVIOUS
<1> DEFINE R == OpToRel(<, Nat)
           T == Nat \ P
<1>1. \A m, n \in Nat : <<m, n>> \in R <=> m < n
  BY Zenon DEF OpToRel
<1>2. PICK n \in T : \A m \in T : ~ (<<m, n>> \in R)
  <2>1. IsWellFoundedOn(R, Nat) /\ T \subseteq Nat /\ T # {}
    BY NatLessThanWellFounded
  <2> HIDE DEF R, T
  <2> QED
    BY <2>1, WFMin
<1>3. n \in Nat /\ n \notin P /\ \A m \in Nat : m < n => m \in P
  <2> HIDE DEF R
  <2> QED
    BY <1>1, <1>2
<1>4. n - 1 \in Nat /\ n - 1 < n /\ (n - 1) + 1 = n
  BY <1>3
<1> QED
  BY <1>3, <1>4

(* Folds: what every step keeps holds at the end. *)

Importing == INSTANCE RecursionTheorems WITH Op <- Import

LEMMA ImportingInduction ==
  ASSUME NEW E, NEW seq \in Seq(E), NEW base, NEW Inv,
         base \in Inv[0],
         \A i \in 1..Len(seq) : \A s \in Inv[i - 1] : Import(s, seq[i]) \in Inv[i]
  PROVE  FoldLeft(Import, base, seq) \in Inv[Len(seq)]
<1>1. Importing!KeepsLeft(Inv, base, seq)
  BY DEF Importing!KeepsLeft
<1>2. Importing!FoldedLeft(base, seq) \in Inv[Len(seq)]
  <2>1. Importing!NatInduction
    BY Counting DEF Importing!NatInduction
  <2> QED
    BY <1>1, <2>1, Importing!FoldLeftInduction
<1>3. Importing!FoldedLeft(base, seq) = FoldLeft(Import, base, seq)
  BY DEF Importing!FoldedLeft, FoldLeft, MapThenFoldSet, Importing!MapThenFoldSet,
         Max, Importing!Largest
<1> QED
  BY <1>2, <1>3

Propagating == INSTANCE RecursionTheorems WITH Op <- PropagateWatch

LEMMA PropagatingInduction ==
  ASSUME NEW E, NEW seq \in Seq(E), NEW base, NEW Inv,
         base \in Inv[0],
         \A i \in 1..Len(seq) : \A s \in Inv[i - 1] : PropagateWatch(s, seq[i]) \in Inv[i]
  PROVE  FoldLeft(PropagateWatch, base, seq) \in Inv[Len(seq)]
<1>1. Propagating!KeepsLeft(Inv, base, seq)
  BY DEF Propagating!KeepsLeft
<1>2. Propagating!FoldedLeft(base, seq) \in Inv[Len(seq)]
  <2>1. Propagating!NatInduction
    BY Counting DEF Propagating!NatInduction
  <2> QED
    BY <1>1, <2>1, Propagating!FoldLeftInduction
<1>3. Propagating!FoldedLeft(base, seq) = FoldLeft(PropagateWatch, base, seq)
  BY DEF Propagating!FoldedLeft, FoldLeft, MapThenFoldSet, Propagating!MapThenFoldSet,
         Max, Propagating!Largest
<1> QED
  BY <1>2, <1>3

Analyzing == INSTANCE RecursionTheorems WITH Op <- AnalyzeLiteral

LEMMA AnalyzingInduction ==
  ASSUME NEW E, NEW seq \in Seq(E), NEW base, NEW Inv,
         base \in Inv[0],
         \A i \in 1..Len(seq) : \A s \in Inv[i - 1] : AnalyzeLiteral(s, seq[i]) \in Inv[i]
  PROVE  FoldLeft(AnalyzeLiteral, base, seq) \in Inv[Len(seq)]
<1>1. Analyzing!KeepsLeft(Inv, base, seq)
  BY DEF Analyzing!KeepsLeft
<1>2. Analyzing!FoldedLeft(base, seq) \in Inv[Len(seq)]
  <2>1. Analyzing!NatInduction
    BY Counting DEF Analyzing!NatInduction
  <2> QED
    BY <1>1, <2>1, Analyzing!FoldLeftInduction
<1>3. Analyzing!FoldedLeft(base, seq) = FoldLeft(AnalyzeLiteral, base, seq)
  BY DEF Analyzing!FoldedLeft, FoldLeft, MapThenFoldSet, Analyzing!MapThenFoldSet,
         Max, Analyzing!Largest
<1> QED
  BY <1>2, <1>3

Resolving == INSTANCE RecursionTheorems WITH Op <- AnalyzeAssigned

LEMMA ResolvingInduction ==
  ASSUME NEW E, NEW seq \in Seq(E), NEW base, NEW Inv,
         base \in Inv[0],
         \A i \in 1..Len(seq) : \A s \in Inv[i - 1] : AnalyzeAssigned(s, seq[i]) \in Inv[i]
  PROVE  FoldLeft(AnalyzeAssigned, base, seq) \in Inv[Len(seq)]
<1>1. Resolving!KeepsLeft(Inv, base, seq)
  BY DEF Resolving!KeepsLeft
<1>2. Resolving!FoldedLeft(base, seq) \in Inv[Len(seq)]
  <2>1. Resolving!NatInduction
    BY Counting DEF Resolving!NatInduction
  <2> QED
    BY <1>1, <2>1, Resolving!FoldLeftInduction
<1>3. Resolving!FoldedLeft(base, seq) = FoldLeft(AnalyzeAssigned, base, seq)
  BY DEF Resolving!FoldedLeft, FoldLeft, MapThenFoldSet, Resolving!MapThenFoldSet,
         Max, Resolving!Largest
<1> QED
  BY <1>2, <1>3

Bumping == INSTANCE RecursionTheorems WITH Op <- MoveToFront

LEMMA BumpingInduction ==
  ASSUME NEW E, NEW seq \in Seq(E), NEW base, NEW Inv,
         base \in Inv[0],
         \A i \in 1..Len(seq) : \A s \in Inv[i - 1] : MoveToFront(s, seq[i]) \in Inv[i]
  PROVE  FoldLeft(MoveToFront, base, seq) \in Inv[Len(seq)]
<1>1. Bumping!KeepsLeft(Inv, base, seq)
  BY DEF Bumping!KeepsLeft
<1>2. Bumping!FoldedLeft(base, seq) \in Inv[Len(seq)]
  <2>1. Bumping!NatInduction
    BY Counting DEF Bumping!NatInduction
  <2> QED
    BY <1>1, <2>1, Bumping!FoldLeftInduction
<1>3. Bumping!FoldedLeft(base, seq) = FoldLeft(MoveToFront, base, seq)
  BY DEF Bumping!FoldedLeft, FoldLeft, MapThenFoldSet, Bumping!MapThenFoldSet,
         Max, Bumping!Largest
<1> QED
  BY <1>2, <1>3

Tracing == INSTANCE RecursionTheorems WITH Op <- TraceAssigned

LEMMA TracingInduction ==
  ASSUME NEW E, NEW seq \in Seq(E), NEW base, NEW Inv,
         base \in Inv[0],
         \A i \in 1..Len(seq) : \A s \in Inv[i - 1] : TraceAssigned(s, seq[i]) \in Inv[i]
  PROVE  FoldLeft(TraceAssigned, base, seq) \in Inv[Len(seq)]
<1>1. Tracing!KeepsLeft(Inv, base, seq)
  BY DEF Tracing!KeepsLeft
<1>2. Tracing!FoldedLeft(base, seq) \in Inv[Len(seq)]
  <2>1. Tracing!NatInduction
    BY Counting DEF Tracing!NatInduction
  <2> QED
    BY <1>1, <2>1, Tracing!FoldLeftInduction
<1>3. Tracing!FoldedLeft(base, seq) = FoldLeft(TraceAssigned, base, seq)
  BY DEF Tracing!FoldedLeft, FoldLeft, MapThenFoldSet, Tracing!MapThenFoldSet,
         Max, Tracing!Largest
<1> QED
  BY <1>2, <1>3

Reasoning == INSTANCE RecursionTheorems WITH Op <- Reasons

LEMMA ReasoningInduction ==
  ASSUME NEW E, NEW seq \in Seq(E), NEW base, NEW Inv,
         base \in Inv[0],
         \A i \in 1..Len(seq) : \A s \in Inv[i - 1] : Reasons(s, seq[i]) \in Inv[i]
  PROVE  FoldLeft(Reasons, base, seq) \in Inv[Len(seq)]
<1>1. Reasoning!KeepsLeft(Inv, base, seq)
  BY DEF Reasoning!KeepsLeft
<1>2. Reasoning!FoldedLeft(base, seq) \in Inv[Len(seq)]
  <2>1. Reasoning!NatInduction
    BY Counting DEF Reasoning!NatInduction
  <2> QED
    BY <1>1, <2>1, Reasoning!FoldLeftInduction
<1>3. Reasoning!FoldedLeft(base, seq) = FoldLeft(Reasons, base, seq)
  BY DEF Reasoning!FoldedLeft, FoldLeft, MapThenFoldSet, Reasoning!MapThenFoldSet,
         Max, Reasoning!Largest
<1> QED
  BY <1>2, <1>3

Flipping == INSTANCE RecursionTheorems WITH Op <- FlipWatch

LEMMA FlippingInduction ==
  ASSUME NEW E, NEW seq \in Seq(E), NEW base, NEW Inv,
         base \in Inv[0],
         \A i \in 1..Len(seq) : \A s \in Inv[i - 1] : FlipWatch(s, seq[i]) \in Inv[i]
  PROVE  FoldLeft(FlipWatch, base, seq) \in Inv[Len(seq)]
<1>1. Flipping!KeepsLeft(Inv, base, seq)
  BY DEF Flipping!KeepsLeft
<1>2. Flipping!FoldedLeft(base, seq) \in Inv[Len(seq)]
  <2>1. Flipping!NatInduction
    BY Counting DEF Flipping!NatInduction
  <2> QED
    BY <1>1, <2>1, Flipping!FoldLeftInduction
<1>3. Flipping!FoldedLeft(base, seq) = FoldLeft(FlipWatch, base, seq)
  BY DEF Flipping!FoldedLeft, FoldLeft, MapThenFoldSet, Flipping!MapThenFoldSet,
         Max, Flipping!Largest
<1> QED
  BY <1>2, <1>3

Coring == INSTANCE RecursionTheorems WITH Op <- AddAntecedents

LEMMA CoringInduction ==
  ASSUME NEW E, NEW seq \in Seq(E), NEW base, NEW Inv,
         base \in Inv[0],
         \A i \in 1..Len(seq) : \A s \in Inv[i - 1] : AddAntecedents(s, seq[i]) \in Inv[i]
  PROVE  FoldLeft(AddAntecedents, base, seq) \in Inv[Len(seq)]
<1>1. Coring!KeepsLeft(Inv, base, seq)
  BY DEF Coring!KeepsLeft
<1>2. Coring!FoldedLeft(base, seq) \in Inv[Len(seq)]
  <2>1. Coring!NatInduction
    BY Counting DEF Coring!NatInduction
  <2> QED
    BY <1>1, <2>1, Coring!FoldLeftInduction
<1>3. Coring!FoldedLeft(base, seq) = FoldLeft(AddAntecedents, base, seq)
  BY DEF Coring!FoldedLeft, FoldLeft, MapThenFoldSet, Coring!MapThenFoldSet,
         Max, Coring!Largest
<1> QED
  BY <1>2, <1>3

Keeping == INSTANCE RecursionTheorems WITH Op <- KeepKlause

LEMMA KeepingInduction ==
  ASSUME NEW E, NEW seq \in Seq(E), NEW base, NEW Inv,
         base \in Inv[0],
         \A i \in 1..Len(seq) : \A s \in Inv[i - 1] : KeepKlause(s, seq[i]) \in Inv[i]
  PROVE  FoldLeft(KeepKlause, base, seq) \in Inv[Len(seq)]
<1>1. Keeping!KeepsLeft(Inv, base, seq)
  BY DEF Keeping!KeepsLeft
<1>2. Keeping!FoldedLeft(base, seq) \in Inv[Len(seq)]
  <2>1. Keeping!NatInduction
    BY Counting DEF Keeping!NatInduction
  <2> QED
    BY <1>1, <2>1, Keeping!FoldLeftInduction
<1>3. Keeping!FoldedLeft(base, seq) = FoldLeft(KeepKlause, base, seq)
  BY DEF Keeping!FoldedLeft, FoldLeft, MapThenFoldSet, Keeping!MapThenFoldSet,
         Max, Keeping!Largest
<1> QED
  BY <1>2, <1>3

Connecting == INSTANCE RecursionTheorems WITH Op <- Connect

LEMMA ConnectingInduction ==
  ASSUME NEW E, NEW seq \in Seq(E), NEW base, NEW Inv,
         base \in Inv[0],
         \A i \in 1..Len(seq) : \A s \in Inv[i - 1] : Connect(s, seq[i]) \in Inv[i]
  PROVE  FoldLeft(Connect, base, seq) \in Inv[Len(seq)]
<1>1. Connecting!KeepsLeft(Inv, base, seq)
  BY DEF Connecting!KeepsLeft
<1>2. Connecting!FoldedLeft(base, seq) \in Inv[Len(seq)]
  <2>1. Connecting!NatInduction
    BY Counting DEF Connecting!NatInduction
  <2> QED
    BY <1>1, <2>1, Connecting!FoldLeftInduction
<1>3. Connecting!FoldedLeft(base, seq) = FoldLeft(Connect, base, seq)
  BY DEF Connecting!FoldedLeft, FoldLeft, MapThenFoldSet, Connecting!MapThenFoldSet,
         Max, Connecting!Largest
<1> QED
  BY <1>2, <1>3

AssigningUnits == INSTANCE RecursionTheorems WITH Op <- AssignUnit

LEMMA AssigningUnitsInduction ==
  ASSUME NEW E, NEW seq \in Seq(E), NEW base, NEW Inv,
         base \in Inv[0],
         \A i \in 1..Len(seq) : \A s \in Inv[i - 1] : AssignUnit(s, seq[i]) \in Inv[i]
  PROVE  FoldLeft(AssignUnit, base, seq) \in Inv[Len(seq)]
<1>1. AssigningUnits!KeepsLeft(Inv, base, seq)
  BY DEF AssigningUnits!KeepsLeft
<1>2. AssigningUnits!FoldedLeft(base, seq) \in Inv[Len(seq)]
  <2>1. AssigningUnits!NatInduction
    BY Counting DEF AssigningUnits!NatInduction
  <2> QED
    BY <1>1, <2>1, AssigningUnits!FoldLeftInduction
<1>3. AssigningUnits!FoldedLeft(base, seq) = FoldLeft(AssignUnit, base, seq)
  BY DEF AssigningUnits!FoldedLeft, FoldLeft, MapThenFoldSet, AssigningUnits!MapThenFoldSet,
         Max, AssigningUnits!Largest
<1> QED
  BY <1>2, <1>3

(* Numbers: some are the first and the last of their set. *)
LEMMA LastOf ==
  ASSUME NEW n \in Nat, NEW S \in SUBSET (1..n), S # {}
  PROVE  /\ Max(S) \in S /\ \A y \in S : y <= Max(S)
         /\ \E x \in S : \A y \in S : y <= x
<1>1. Importing!Largest(S) \in S /\ \A y \in S : y <= Importing!Largest(S)
  <2>1. Importing!NatInduction
    BY Counting DEF Importing!NatInduction
  <2> QED
    BY <2>1, Importing!LargestOf
<1>2. Importing!Largest(S) = Max(S)
  BY DEF Max, Importing!Largest
<1> QED
  BY <1>1, <1>2

LEMMA FirstOf ==
  ASSUME NEW S \in SUBSET Nat, S # {}
  PROVE  /\ Min(S) \in S /\ \A y \in S : Min(S) <= y
         /\ \E x \in S : \A y \in S : x <= y
<1>1. PICK x \in S : \A y \in S : x <= y
  <2>1. Importing!NatInduction
    BY Counting DEF Importing!NatInduction
  <2> QED
    BY <2>1, Importing!SmallestElement
<1>2. Min(S) \in S /\ \A y \in S : Min(S) <= y
  BY <1>1 DEF Min
<1> QED
  BY <1>1, <1>2

LEMMA CountInduction ==
  ASSUME NEW P, 0 \in P, \A n \in Nat : n \in P => n + 1 \in P
  PROVE  Nat \subseteq P
BY Counting

-----------------------------------------------------------------------------
(* Clauses and their watches. *)

LEMMA KlauseType ==
  ASSUME NEW k \in Kittens, NEW ref \in Refs(k)
  PROVE  /\ Klause(k, ref) \in Klauses
         /\ Klause(k, ref).lits \in Seq(LITS)
         /\ Len(Klause(k, ref).lits) \in Nat
         /\ \A i \in 1..Len(Klause(k, ref).lits) : Klause(k, ref).lits[i] \in LITS
         /\ Lits(k, ref) = {Klause(k, ref).lits[i] : i \in 1..Len(Klause(k, ref).lits)}
         /\ Lits(k, ref) \subseteq LITS
<1>1. Klause(k, ref) \in Klauses
  BY DEF Kittens, Refs, Klause
<1>2. Klause(k, ref).lits \in Seq(LITS)
  BY <1>1 DEF Klauses
<1> QED
  BY <1>1, <1>2 DEF Lits, ToSet

LEMMA SetOfSeq ==
  ASSUME NEW S, NEW s \in Seq(S)
  PROVE  ToSet(s) = {s[i] : i \in 1..Len(s)} /\ ToSet(s) \subseteq S
BY DEF ToSet

LEMMA SetOfAppend ==
  ASSUME NEW S, NEW s \in Seq(S), NEW e \in S
  PROVE  Append(s, e) \in Seq(S) /\ ToSet(Append(s, e)) = ToSet(s) \cup {e}
<1>1. /\ Append(s, e) \in Seq(S)
      /\ Len(Append(s, e)) = Len(s) + 1
      /\ Append(s, e)[Len(s) + 1] = e
      /\ \A i \in 1..Len(s) : Append(s, e)[i] = s[i]
      /\ Len(s) \in Nat
  BY AppendProperties
<1> DEFINE t == Append(s, e)
<1> HIDE DEF t
<1>2. \A i \in 1..Len(t) : i \in 1..Len(s) \/ i = Len(s) + 1
  BY <1>1 DEF t
<1>3. \A i \in 1..Len(s) : i \in 1..Len(t)
  BY <1>1 DEF t
<1>4. Len(s) + 1 \in 1..Len(t)
  BY <1>1 DEF t
<1>5. ToSet(t) = {t[i] : i \in 1..Len(t)} /\ ToSet(s) = {s[i] : i \in 1..Len(s)}
  BY <1>1, SetOfSeq DEF t
<1>6. ToSet(t) = ToSet(s) \cup {e}
  BY <1>1, <1>2, <1>3, <1>4, <1>5 DEF t
<1> QED
  BY <1>1, <1>6 DEF t

LEMMA AppendWatch ==
  ASSUME NEW k, NEW refs, NEW l, NEW watches \in Seq(Watchers), NEW w \in Watchers,
         WatchListOf(k, refs, l, watches), w.ref \notin refs,
         w.blit \in Lits(k, w.ref) \ {l}
  PROVE  WatchListOf(k, refs \cup {w.ref}, l, Append(watches, w))
<1> DEFINE t == Append(watches, w)
           n == Len(watches)
<1>1. /\ n \in Nat /\ Len(t) = n + 1 /\ t[n + 1] = w
      /\ \A i \in 1..n : t[i] = watches[i]
  BY AppendProperties
<1> HIDE DEF t, n
<1>2. \A i \in 1..Len(t) : i \in 1..n \/ i = n + 1
  BY <1>1
<1>3. \A i \in 1..n : i \in 1..Len(t)
  BY <1>1
<1>4. n + 1 \in 1..Len(t)
  BY <1>1
<1>5. /\ {watches[i].ref : i \in 1..n} = refs
      /\ \A i, j \in 1..n : watches[i].ref = watches[j].ref => i = j
      /\ \A i \in 1..n : watches[i].blit \in Lits(k, watches[i].ref) \ {l}
  BY DEF WatchListOf, n
<1>6. {t[i].ref : i \in 1..Len(t)} = refs \cup {w.ref}
  BY <1>1, <1>2, <1>3, <1>4, <1>5
<1>7. \A i, j \in 1..Len(t) : t[i].ref = t[j].ref => i = j
  BY <1>1, <1>2, <1>5
<1>8. \A i \in 1..Len(t) : t[i].blit \in Lits(k, t[i].ref) \ {l}
  BY <1>1, <1>2, <1>5
<1> QED
  BY <1>6, <1>7, <1>8 DEF WatchListOf, t

(* The list of a literal does not depend on more than the literals of the clauses. *)
LEMMA WatchListFrame ==
  ASSUME NEW j, NEW k, NEW refs, NEW l, NEW watches, WatchListOf(j, refs, l, watches),
         \A ref \in refs : Lits(k, ref) = Lits(j, ref)
  PROVE  WatchListOf(k, refs, l, watches)
BY DEF WatchListOf

WatchOf(k, ref, i) == [ref |-> ref, blit |-> Klause(k, ref).lits[3 - i]]

(* Nothing but what the clauses are recorded in differs. *)
SameSearch(k, c) ==
  /\ c.status = k.status /\ c.antecedents = k.antecedents
  /\ c.values = k.values /\ c.level = k.level /\ c.levelOf = k.levelOf
  /\ c.reason = k.reason /\ c.trail = k.trail /\ c.propagated = k.propagated
  /\ c.phases = k.phases /\ c.queue = k.queue /\ c.search = k.search
  /\ c.assumptions = k.assumptions /\ c.failed = k.failed /\ c.failing = k.failing
  /\ c.core = k.core

SameKlauses(k, c) ==
  c.klauses = k.klauses /\ c.learned = k.learned /\ c.endOriginal = k.endOriginal

LEMMA WatchFields ==
  ASSUME NEW k \in Kittens, NEW ref \in Refs(k), Large(k, ref), NEW i \in {1, 2}
  PROVE  /\ Klause(k, ref).lits[i] \in LITS
         /\ WatchOf(k, ref, i) \in Watchers
         /\ Watch(k, ref, i) \in Kittens
         /\ SameSearch(k, Watch(k, ref, i))
         /\ SameKlauses(k, Watch(k, ref, i))
         /\ Watch(k, ref, i).units = k.units
         /\ Watch(k, ref, i).inconsistent = k.inconsistent
         /\ \A l \in LITS : Watch(k, ref, i).watches[l] =
              IF l = Klause(k, ref).lits[i] THEN Append(k.watches[l], WatchOf(k, ref, i))
                                            ELSE k.watches[l]
<1> DEFINE lit == Klause(k, ref).lits[i]
           w   == WatchOf(k, ref, i)
           c   == Watch(k, ref, i)
<1>1. i \in 1..Len(Klause(k, ref).lits) /\ 3 - i \in 1..Len(Klause(k, ref).lits)
  BY KlauseType DEF Large
<1>2. lit \in LITS /\ Klause(k, ref).lits[3 - i] \in LITS /\ ref \in Nat
  BY <1>1, KlauseType DEF Refs
<1>3. w \in Watchers
  BY <1>2 DEF WatchOf, Watchers
<1>4. c = [k EXCEPT !.watches[lit] = Append(@, w)]
  BY DEF Watch, WatchOf
<1> HIDE DEF lit, w, c
<1>5. k.watches \in [LITS -> Seq(Watchers)]
  BY DEF Kittens
<1>6. [k.watches EXCEPT ![lit] = Append(@, w)] \in [LITS -> Seq(Watchers)]
  BY <1>2, <1>3, <1>5
<1>7. c = [k EXCEPT !.watches = [k.watches EXCEPT ![lit] = Append(@, w)]]
  BY <1>4
<1>8. c \in Kittens
  BY <1>6, <1>7 DEF Kittens
<1>9. c.watches = [k.watches EXCEPT ![lit] = Append(@, w)]
  BY <1>7 DEF Kittens
<1>10. /\ SameSearch(k, c) /\ SameKlauses(k, c)
       /\ c.units = k.units /\ c.inconsistent = k.inconsistent
  BY <1>7 DEF Kittens, SameSearch, SameKlauses
<1> QED
  BY <1>2, <1>3, <1>5, <1>8, <1>9, <1>10 DEF lit, w, c

(* Connecting the next clause. *)
ConnectedTo(k, ref, c) ==
  /\ c \in Kittens
  /\ SameSearch(k, c)
  /\ SameKlauses(k, c)
  /\ c.inconsistent = IF Klause(k, ref).lits = <<>> /\ k.inconsistent = INVALID
                      THEN ref ELSE k.inconsistent
  /\ UnitsListed(c, ref)
  /\ (Watched(k, ref - 1) => Watched(c, ref))
  /\ ~Large(k, ref) => c.watches = k.watches

LEMMA UnitsNext ==
  ASSUME NEW k, NEW ref \in Nat \ {0}
  PROVE  {r \in 1..ref : Len(Klause(k, r).lits) = 1} =
           IF Len(Klause(k, ref).lits) = 1
           THEN {r \in 1 .. ref - 1 : Len(Klause(k, r).lits) = 1} \cup {ref}
           ELSE {r \in 1 .. ref - 1 : Len(Klause(k, r).lits) = 1}
<1>1. 1..ref = (1 .. ref - 1) \cup {ref}
  OBVIOUS
<1> QED
  BY <1>1

LEMMA WatchedNext ==
  ASSUME NEW k, NEW ref \in Nat \ {0}, NEW l
  PROVE  /\ ref \notin WatchedRefs(k, ref - 1, l)
         /\ WatchedRefs(k, ref, l) =
              IF Large(k, ref) /\ l \in {Klause(k, ref).lits[1], Klause(k, ref).lits[2]}
              THEN WatchedRefs(k, ref - 1, l) \cup {ref} ELSE WatchedRefs(k, ref - 1, l)
<1>1. 1..ref = (1 .. ref - 1) \cup {ref} /\ ref \notin 1 .. ref - 1
  OBVIOUS
<1> QED
  BY <1>1 DEF WatchedRefs

LEMMA WatchedFrame ==
  ASSUME NEW k, NEW c, NEW n, c.klauses = k.klauses, c.watches = k.watches, Watched(k, n)
  PROVE  Watched(c, n)
BY DEF Watched, WatchListOf, WatchedRefs, Large, Lits, Klause

LEMMA ConnectSmall ==
  ASSUME NEW k \in Kittens, NEW ref \in Refs(k), UnitsListed(k, ref - 1), ~Large(k, ref)
  PROVE  ConnectedTo(k, ref, Connect(k, ref))
<1> DEFINE lits == Klause(k, ref).lits
           c    == Connect(k, ref)
<1>1. /\ lits \in Seq(LITS) /\ Len(lits) \in Nat /\ ref \in Nat \ {0}
      /\ lits = <<>> <=> Len(lits) = 0
  BY KlauseType, EmptySeq DEF Refs
<1>2. Len(lits) = 0 \/ Len(lits) = 1
  <2>1. ~ (Len(lits) > 1)
    BY DEF Large
  <2>2. Len(lits) \in Nat
    BY <1>1
  <2>3. \A n \in Nat : ~ (n > 1) => n = 0 \/ n = 1
    OBVIOUS
  <2> HIDE DEF lits
  <2> QED
    BY <2>1, <2>2, <2>3
<1>3. \A l \in LITS : WatchedRefs(k, ref, l) = WatchedRefs(k, ref - 1, l)
  BY <1>1, WatchedNext
<1>4. Watched(k, ref - 1) => Watched(k, ref)
  BY <1>3 DEF Watched
<1>5. CASE Len(lits) = 0
  <2>1. c = IF k.inconsistent = INVALID THEN [k EXCEPT !.inconsistent = ref] ELSE k
    BY <1>5 DEF Connect
  <2> HIDE DEF c
  <2>2. /\ c \in Kittens /\ SameSearch(k, c) /\ SameKlauses(k, c)
        /\ c.units = k.units /\ c.watches = k.watches
        /\ c.inconsistent = IF k.inconsistent = INVALID THEN ref ELSE k.inconsistent
    <3>1. CASE k.inconsistent = INVALID
      <4>1. c = [k EXCEPT !.inconsistent = ref]
        BY <2>1, <3>1
      <4> QED
        BY <1>1, <3>1, <4>1 DEF Kittens, SameSearch, SameKlauses
    <3>2. CASE k.inconsistent # INVALID
      BY <2>1, <3>2 DEF SameSearch, SameKlauses
    <3> QED
      BY <3>1, <3>2
  <2>3. ToSet(c.units) = {r \in 1..ref : Len(Klause(k, r).lits) = 1}
    <3>1. Len(Klause(k, ref).lits) # 1
      BY <1>5
    <3> QED
      BY <1>1, <2>2, <3>1, UnitsNext DEF UnitsListed
  <2>4. UnitsListed(c, ref)
    BY <2>2, <2>3 DEF UnitsListed, Klause, SameKlauses
  <2>5. Watched(k, ref - 1) => Watched(c, ref)
    BY <1>4, <2>2, WatchedFrame DEF SameKlauses
  <2> QED
    BY <1>1, <1>5, <2>2, <2>4, <2>5 DEF c, ConnectedTo
<1>6. CASE Len(lits) = 1
  <2>1. c = [k EXCEPT !.units = Append(@, ref)]
    BY <1>6 DEF Connect
  <2>2. k.units \in Seq(Nat)
    BY DEF Kittens
  <2> HIDE DEF c
  <2>3. /\ c \in Kittens /\ SameSearch(k, c) /\ SameKlauses(k, c)
        /\ c.units = Append(k.units, ref) /\ c.watches = k.watches
        /\ c.inconsistent = k.inconsistent
    <3> DEFINE units == Append(k.units, ref)
    <3>1. units \in Seq(Nat)
      BY <1>1, <2>2
    <3>2. c = [k EXCEPT !.units = units]
      BY <2>1
    <3> HIDE DEF units
    <3>3. c \in Kittens
      BY <3>1, <3>2 DEF Kittens
    <3> QED
      BY <3>2, <3>3 DEF Kittens, SameSearch, SameKlauses, units
  <2>4. ToSet(c.units) = ToSet(k.units) \cup {ref}
    BY <1>1, <2>2, <2>3, SetOfAppend
  <2>5. ToSet(c.units) = {r \in 1..ref : Len(Klause(k, r).lits) = 1}
    BY <1>1, <1>6, <2>4, UnitsNext DEF UnitsListed
  <2>6. UnitsListed(c, ref)
    BY <2>3, <2>5 DEF UnitsListed, Klause, SameKlauses
  <2>7. Watched(k, ref - 1) => Watched(c, ref)
    BY <1>4, <2>3, WatchedFrame DEF SameKlauses
  <2> QED
    BY <1>1, <1>6, <2>3, <2>6, <2>7 DEF c, ConnectedTo
<1> QED
  BY <1>2, <1>5, <1>6

LEMMA ConnectLarge ==
  ASSUME NEW k \in Kittens, NEW ref \in Refs(k), UnitsListed(k, ref - 1),
         Large(k, ref), Klause(k, ref).lits[1] # Klause(k, ref).lits[2]
  PROVE  ConnectedTo(k, ref, Connect(k, ref))
<1> DEFINE lits == Klause(k, ref).lits
           c    == Connect(k, ref)
           w1   == Watch(k, ref, 1)
           a    == lits[1]
           b    == lits[2]
<1>1. Len(lits) \in Nat /\ Len(lits) > 1 /\ ref \in Nat \ {0} /\ lits # <<>>
  BY KlauseType, EmptySeq DEF Refs, Large
<1>2. c = Watch(w1, ref, 2)
  BY <1>1 DEF Connect
<1>3. /\ a \in LITS /\ WatchOf(k, ref, 1) \in Watchers
      /\ w1 \in Kittens /\ SameSearch(k, w1) /\ SameKlauses(k, w1)
      /\ w1.units = k.units /\ w1.inconsistent = k.inconsistent
      /\ \A l \in LITS : w1.watches[l] =
           IF l = a THEN Append(k.watches[l], WatchOf(k, ref, 1)) ELSE k.watches[l]
  BY WatchFields
<1> HIDE DEF w1
<1>4. Klause(w1, ref) = Klause(k, ref) /\ ref \in Refs(w1) /\ Large(w1, ref)
  BY <1>3 DEF Klause, Refs, Large, SameKlauses
<1>5. /\ b \in LITS /\ WatchOf(w1, ref, 2) \in Watchers
      /\ c \in Kittens /\ SameSearch(w1, c) /\ SameKlauses(w1, c)
      /\ c.units = w1.units /\ c.inconsistent = w1.inconsistent
      /\ \A l \in LITS : c.watches[l] =
           IF l = b THEN Append(w1.watches[l], WatchOf(w1, ref, 2)) ELSE w1.watches[l]
  BY <1>2, <1>3, <1>4, WatchFields
<1> HIDE DEF c
<1>6. SameSearch(k, c) /\ SameKlauses(k, c) /\ c.units = k.units /\ c.inconsistent = k.inconsistent
  BY <1>3, <1>5 DEF SameSearch, SameKlauses
<1>7. {a, b} \subseteq Lits(k, ref)
  <2>1. 1 \in 1..Len(lits) /\ 2 \in 1..Len(lits)
    BY <1>1
  <2> QED
    BY <2>1, KlauseType
<1> DEFINE wa == [ref |-> ref, blit |-> b]
           wb == [ref |-> ref, blit |-> a]
<1>8. WatchOf(k, ref, 1) = wa /\ WatchOf(w1, ref, 2) = wb
  BY <1>4 DEF WatchOf
<1>9. wa \in Watchers /\ wa.ref = ref /\ wa.blit = b /\ wb \in Watchers /\ wb.ref = ref /\ wb.blit = a
  BY <1>3, <1>5, <1>8
<1> HIDE DEF wa, wb
<1>10. ASSUME Watched(k, ref - 1), NEW l \in LITS
       PROVE  WatchListOf(k, WatchedRefs(k, ref, l), l, c.watches[l])
  <2>1. WatchListOf(k, WatchedRefs(k, ref - 1, l), l, k.watches[l]) /\ k.watches[l] \in Seq(Watchers)
    BY <1>10 DEF Watched, Kittens
  <2>2. /\ ref \notin WatchedRefs(k, ref - 1, l)
        /\ WatchedRefs(k, ref, l) = IF l \in {a, b} THEN WatchedRefs(k, ref - 1, l) \cup {ref}
                                                    ELSE WatchedRefs(k, ref - 1, l)
    BY <1>1, WatchedNext
  <2>3. CASE l = a
    <3>1. WatchListOf(k, WatchedRefs(k, ref - 1, l) \cup {wa.ref}, l, Append(k.watches[l], wa))
      BY <1>7, <1>9, <2>1, <2>2, <2>3, AppendWatch
    <3> QED
      BY <1>3, <1>5, <1>8, <1>9, <2>2, <2>3, <3>1
  <2>4. CASE l = b
    <3>1. WatchListOf(k, WatchedRefs(k, ref - 1, l) \cup {wb.ref}, l, Append(k.watches[l], wb))
      BY <1>7, <1>9, <2>1, <2>2, <2>4, AppendWatch
    <3> QED
      BY <1>3, <1>5, <1>8, <1>9, <2>2, <2>4, <3>1
  <2>5. CASE l \notin {a, b}
    BY <1>3, <1>5, <2>1, <2>2, <2>5
  <2> QED
    BY <2>3, <2>4, <2>5
<1>11. Watched(k, ref - 1) => Watched(c, ref)
  BY <1>6, <1>10 DEF Watched, WatchListOf, WatchedRefs, Large, Lits, Klause, SameKlauses
<1>12. ToSet(c.units) = {r \in 1..ref : Len(Klause(k, r).lits) = 1}
  BY <1>1, <1>6, UnitsNext DEF UnitsListed
<1>13. UnitsListed(c, ref)
  BY <1>6, <1>12 DEF UnitsListed, Klause, SameKlauses
<1> QED
  BY <1>1, <1>5, <1>6, <1>11, <1>13 DEF c, ConnectedTo

LEMMA ConnectWell ==
  ASSUME NEW k \in Kittens, NEW ref \in Refs(k), UnitsListed(k, ref - 1),
         \A i, j \in 1..Len(Klause(k, ref).lits) :
           IDX(Klause(k, ref).lits[i]) = IDX(Klause(k, ref).lits[j]) => i = j
  PROVE  ConnectedTo(k, ref, Connect(k, ref))
<1>1. CASE Large(k, ref)
  <2>1. 1 \in 1..Len(Klause(k, ref).lits) /\ 2 \in 1..Len(Klause(k, ref).lits)
    BY <1>1, KlauseType DEF Large
  <2>2. Klause(k, ref).lits[1] # Klause(k, ref).lits[2]
    BY <2>1
  <2> QED
    BY <1>1, <2>2, ConnectLarge
<1> QED
  BY <1>1, ConnectSmall

-----------------------------------------------------------------------------
(* What follows from clauses, and adding clauses. *)

LEMMA SatisfiesFrame ==
  ASSUME NEW k, NEW c, NEW refs, NEW M, \A ref \in refs : Lits(c, ref) = Lits(k, ref)
  PROVE  SatisfiesAll(c, M, refs) <=> SatisfiesAll(k, M, refs)
BY DEF SatisfiesAll

LEMMA FollowsFrame ==
  ASSUME NEW k, NEW c, NEW refs, NEW C, \A ref \in refs : Lits(c, ref) = Lits(k, ref),
         Follows(k, refs, C)
  PROVE  Follows(c, refs, C)
BY SatisfiesFrame DEF Follows

LEMMA OriginalsImply ==
  ASSUME NEW k, Derived(k), NEW refs \in SUBSET Refs(k), NEW M \in Models,
         SatisfiesAll(k, M, Originals(k))
  PROVE  SatisfiesAll(k, M, refs)
<1> SUFFICES ASSUME NEW ref \in refs
             PROVE  Satisfies(M, Lits(k, ref))
  BY DEF SatisfiesAll
<1>1. CASE Klause(k, ref).learned
  BY <1>1 DEF Derived, Follows
<1>2. CASE ~Klause(k, ref).learned
  <2>1. ref \in Nat /\ ref >= 1 /\ ref <= k.endOriginal
    BY <1>2 DEF Derived, Refs
  <2>2. ref \in Originals(k)
    BY <1>2, <2>1 DEF Originals, Derived, Refs
  <2> QED
    BY <2>2 DEF SatisfiesAll
<1> QED
  BY <1>1, <1>2

(* k has become c by connecting one more clause. *)
Grown(k, klause, c) ==
  /\ c \in Kittens
  /\ SameSearch(k, c)
  /\ c.klauses = Append(k.klauses, klause)
  /\ c.inconsistent = IF klause.lits = <<>> /\ k.inconsistent = INVALID
                      THEN Len(k.klauses) + 1 ELSE k.inconsistent
  /\ UnitsListed(c, Len(k.klauses) + 1)
  /\ (Watched(k, Len(k.klauses)) => Watched(c, Len(k.klauses) + 1))
  /\ Len(klause.lits) <= 1 => c.watches = k.watches

GrownWith(k, klause, learned, endOriginal, c) ==
  Grown(k, klause, c) /\ c.learned = learned /\ c.endOriginal = endOriginal

DistinctLits(lits) == \A i, j \in 1..Len(lits) : IDX(lits[i]) = IDX(lits[j]) => i = j

LEMMA GrownKlauses ==
  ASSUME NEW k \in Kittens, NEW klause \in Klauses, NEW c, c.klauses = Append(k.klauses, klause)
  PROVE  /\ Len(k.klauses) \in Nat
         /\ Len(c.klauses) = Len(k.klauses) + 1
         /\ Refs(c) = Refs(k) \cup {Len(k.klauses) + 1}
         /\ Len(k.klauses) + 1 \notin Refs(k)
         /\ \A ref \in Refs(k) : ref \in Nat /\ ref <= Len(k.klauses) /\ ref >= 1
         /\ \A ref \in Refs(k) : Klause(c, ref) = Klause(k, ref) /\ Lits(c, ref) = Lits(k, ref)
         /\ Klause(c, Len(k.klauses) + 1) = klause
         /\ Lits(c, Len(k.klauses) + 1) = ToSet(klause.lits)
<1>1. k.klauses \in Seq(Klauses)
  BY DEF Kittens
<1>2. /\ Len(k.klauses) \in Nat
      /\ Len(c.klauses) = Len(k.klauses) + 1
      /\ c.klauses[Len(k.klauses) + 1] = klause
      /\ \A i \in 1..Len(k.klauses) : c.klauses[i] = k.klauses[i]
  BY <1>1, AppendProperties
<1>3. \A n \in Nat : 1 .. n + 1 = (1..n) \cup {n + 1} /\ n + 1 \notin 1..n
  OBVIOUS
<1> QED
  BY <1>2, <1>3 DEF Refs, Klause, Lits

LEMMA AddedWell ==
  ASSUME NEW k \in Kittens, UnitsListed(k, Len(k.klauses)),
         NEW klause \in Klauses, DistinctLits(klause.lits),
         NEW b \in Kittens, SameSearch(k, b), b.klauses = Append(k.klauses, klause),
         b.units = k.units, b.watches = k.watches, b.inconsistent = k.inconsistent
  PROVE  /\ Grown(k, klause, Connect(b, Len(b.klauses)))
         /\ Connect(b, Len(b.klauses)).learned = b.learned
         /\ Connect(b, Len(b.klauses)).endOriginal = b.endOriginal
<1> DEFINE n == Len(k.klauses)
           ref == Len(b.klauses)
           c == Connect(b, ref)
<1>1. /\ n \in Nat /\ ref = n + 1 /\ Refs(b) = Refs(k) \cup {n + 1}
      /\ \A r \in Refs(k) : Klause(b, r) = Klause(k, r) /\ Lits(b, r) = Lits(k, r)
      /\ Klause(b, n + 1) = klause
  BY GrownKlauses
<1>2. Refs(k) = 1..n /\ ref - 1 = n /\ ref \in Refs(b)
  BY <1>1 DEF Refs
<1> HIDE DEF n, ref
<1>3. UnitsListed(b, ref - 1)
  <2>1. {r \in 1..n : Len(Klause(b, r).lits) = 1} = {r \in 1..n : Len(Klause(k, r).lits) = 1}
    BY <1>1, <1>2
  <2> QED
    BY <1>2, <2>1 DEF UnitsListed, n
<1>4. ASSUME Watched(k, n)
      PROVE  Watched(b, ref - 1)
  <2>1. \A l \in LITS : WatchedRefs(b, n, l) = WatchedRefs(k, n, l)
    BY <1>1, <1>2 DEF WatchedRefs, Large
  <2>2. ASSUME NEW l \in LITS
        PROVE  WatchListOf(b, WatchedRefs(k, n, l), l, b.watches[l])
    <3>1. WatchListOf(k, WatchedRefs(k, n, l), l, b.watches[l])
      BY <1>4 DEF Watched
    <3>2. \A r \in WatchedRefs(k, n, l) : Lits(b, r) = Lits(k, r)
      BY <1>1, <1>2 DEF WatchedRefs
    <3> QED
      BY <3>1, <3>2, WatchListFrame
  <2> QED
    BY <1>2, <2>1, <2>2 DEF Watched
<1>5. ConnectedTo(b, ref, c)
  <2>1. DistinctLits(Klause(b, ref).lits)
    BY <1>1
  <2> QED
    BY <1>2, <1>3, <2>1, ConnectWell DEF DistinctLits
<1> HIDE DEF c
<1>6. SameSearch(k, c)
  BY <1>5 DEF ConnectedTo, SameSearch
<1>7. Len(klause.lits) <= 1 => c.watches = k.watches
  <2>1. Len(klause.lits) \in Nat
    BY DEF Klauses
  <2>2. Len(klause.lits) <= 1 => ~Large(b, ref)
    BY <1>1, <2>1 DEF Large
  <2> QED
    BY <1>5, <2>2 DEF ConnectedTo
<1>8. Grown(k, klause, c)
  BY <1>1, <1>4, <1>5, <1>6, <1>7 DEF ConnectedTo, Grown, SameKlauses, n
<1> QED
  BY <1>5, <1>8 DEF ConnectedTo, SameKlauses, c, ref

LEMMA NewLearnedGrown ==
  ASSUME NEW k \in Kittens, UnitsListed(k, Len(k.klauses)),
         NEW lits \in Seq(LITS), DistinctLits(lits), NEW resolved \in SUBSET Nat
  PROVE  \E klause \in Klauses :
           /\ klause.learned /\ klause.lits = lits
           /\ klause.antecedents = IF k.antecedents THEN resolved ELSE {}
           /\ GrownWith(k, klause, TRUE, k.endOriginal, NewLearned(k, lits, resolved))
<1> DEFINE antecedents == IF k.antecedents THEN resolved ELSE {}
           klause == [id |-> 0, lits |-> lits, learned |-> TRUE,
                      antecedents |-> antecedents, core |-> FALSE]
           klauses == Append(k.klauses, klause)
           b == [k EXCEPT !.klauses = klauses, !.learned = TRUE]
<1>1. antecedents \in SUBSET Nat
  OBVIOUS
<1>2. NewLearned(k, lits, resolved) = Connect(b, Len(b.klauses))
  BY DEF NewLearned
<1> HIDE DEF antecedents
<1>3. /\ klause \in Klauses /\ klause.learned /\ klause.lits = lits
      /\ klause.antecedents = antecedents
  BY <1>1 DEF Klauses
<1> HIDE DEF klause
<1>4. klauses \in Seq(Klauses)
  BY <1>3, AppendProperties DEF Kittens
<1> HIDE DEF klauses
<1>5. b \in Kittens
  BY <1>4 DEF Kittens
<1>6. /\ b.klauses = klauses /\ b.learned = TRUE /\ b.endOriginal = k.endOriginal
      /\ SameSearch(k, b)
      /\ b.units = k.units /\ b.watches = k.watches /\ b.inconsistent = k.inconsistent
  BY <1>4 DEF Kittens, SameSearch
<1> HIDE DEF b
<1>7. /\ Grown(k, klause, Connect(b, Len(b.klauses)))
      /\ Connect(b, Len(b.klauses)).learned = b.learned
      /\ Connect(b, Len(b.klauses)).endOriginal = b.endOriginal
  BY <1>3, <1>5, <1>6, AddedWell DEF klauses
<1> QED
  BY <1>2, <1>3, <1>6, <1>7 DEF antecedents, GrownWith

LEMMA NewOriginalGrown ==
  ASSUME NEW k \in Kittens, UnitsListed(k, Len(k.klauses)),
         NEW lits \in Seq(LITS), DistinctLits(lits), NEW id \in Nat
  PROVE  \E klause \in Klauses :
           /\ klause.learned = FALSE /\ klause.lits = lits
           /\ klause.antecedents = {} /\ klause.id = id
           /\ GrownWith(k, klause, k.learned, Len(k.klauses) + 1, NewOriginal(k, id, lits))
<1> DEFINE klause == [id |-> id, lits |-> lits, learned |-> FALSE,
                      antecedents |-> {}, core |-> FALSE]
           klauses == Append(k.klauses, klause)
           b == [k EXCEPT !.klauses = klauses]
           c == Connect(b, Len(b.klauses))
<1>1. /\ klause \in Klauses /\ klause.learned = FALSE /\ klause.lits = lits
      /\ klause.antecedents = {} /\ klause.id = id
  BY DEF Klauses
<1>2. NewOriginal(k, id, lits) = [c EXCEPT !.endOriginal = Len(b.klauses)]
  BY DEF NewOriginal
<1> HIDE DEF klause
<1>3. klauses \in Seq(Klauses)
  BY <1>1, AppendProperties DEF Kittens
<1> HIDE DEF klauses
<1>4. b \in Kittens
  BY <1>3 DEF Kittens
<1>5. /\ b.klauses = klauses /\ b.learned = k.learned
      /\ SameSearch(k, b)
      /\ b.units = k.units /\ b.watches = k.watches /\ b.inconsistent = k.inconsistent
  BY <1>3 DEF Kittens, SameSearch
<1> HIDE DEF b
<1>6. Grown(k, klause, c) /\ c.learned = b.learned
  BY <1>1, <1>4, <1>5, AddedWell DEF klauses
<1>7. Len(b.klauses) = Len(k.klauses) + 1 /\ Len(b.klauses) \in Nat
  BY <1>1, <1>5, GrownKlauses DEF klauses
<1> HIDE DEF c
<1> DEFINE n == Len(b.klauses)
           d == [c EXCEPT !.endOriginal = n]
<1> HIDE DEF n
<1>8. c \in Kittens /\ n \in Nat
  BY <1>6, <1>7 DEF Grown, n
<1>9. /\ d \in Kittens /\ SameSearch(c, d) /\ d.klauses = c.klauses
      /\ d.learned = c.learned /\ d.endOriginal = n
      /\ d.units = c.units /\ d.watches = c.watches /\ d.inconsistent = c.inconsistent
  BY <1>8 DEF Kittens, SameSearch
<1> HIDE DEF d
<1>10. SameSearch(k, d)
  BY <1>6, <1>9 DEF SameSearch, Grown
<1>11. UnitsListed(d, Len(k.klauses) + 1)
  BY <1>6, <1>9 DEF Grown, UnitsListed, Klause
<1>12. Watched(k, Len(k.klauses)) => Watched(d, Len(k.klauses) + 1)
  BY <1>6, <1>9, WatchedFrame DEF Grown
<1>13. Grown(k, klause, d)
  BY <1>6, <1>9, <1>10, <1>11, <1>12 DEF Grown, WatchListOf
<1> QED
  BY <1>1, <1>2, <1>5, <1>6, <1>7, <1>9, <1>13 DEF d, n, GrownWith

-----------------------------------------------------------------------------
(* The static part of the invariant is kept when a clause is added. *)

LEMMA QueueFrame ==
  ASSUME NEW k, NEW c, c.queue = k.queue, c.search = k.search, k.values \subseteq c.values,
         QueueWell(k)
  PROVE  QueueWell(c)
BY DEF QueueWell, Unassigned, IsTrue, IsFalse

LEMMA KnownFrame ==
  ASSUME NEW k, NEW c, c.queue = k.queue, c.trail = k.trail, c.assumptions = k.assumptions,
         KnownWell(k)
  PROVE  KnownWell(c)
BY DEF KnownWell, Knows

(* c has the clauses of k and one more with the literals lits. *)
Longer(k, lits, c) ==
  /\ c \in Kittens
  /\ SameSearch(k, c)
  /\ Len(k.klauses) \in Nat
  /\ Len(c.klauses) = Len(k.klauses) + 1
  /\ Refs(c) = Refs(k) \cup {Len(k.klauses) + 1}
  /\ Len(k.klauses) + 1 \notin Refs(k)
  /\ \A ref \in Refs(k) : Klause(c, ref) = Klause(k, ref) /\ Lits(c, ref) = Lits(k, ref)
  /\ Klause(c, Len(k.klauses) + 1).lits = lits
  /\ Lits(c, Len(k.klauses) + 1) = ToSet(lits)
  /\ Len(lits) <= 1 => c.watches = k.watches
  /\ c.inconsistent = IF lits = <<>> /\ k.inconsistent = INVALID
                      THEN Len(k.klauses) + 1 ELSE k.inconsistent
  /\ (Watched(k, Len(k.klauses)) => Watched(c, Len(c.klauses)))

LEMMA GrownLonger ==
  ASSUME NEW k \in Kittens, NEW klause \in Klauses, NEW c, Grown(k, klause, c)
  PROVE  Longer(k, klause.lits, c)
<1>1. c.klauses = Append(k.klauses, klause)
  BY DEF Grown
<1> QED
  BY <1>1, GrownKlauses DEF Grown, Longer

(* What does not depend on how the clause was derived. *)
LEMMA GrownOrderly ==
  ASSUME NEW k \in Kittens, Orderly(k), NEW klause \in Klauses, NEW c, Grown(k, klause, c),
         DistinctLits(klause.lits),
         \A i \in 1..Len(klause.lits) : IDX(klause.lits[i]) \in Knows(k)
  PROVE  /\ ClausesWell(c) /\ UnitsListed(c, Len(c.klauses))
         /\ QueueWell(c) /\ ValuesWell(c) /\ KnownWell(c) /\ FailedWell(c)
<1> DEFINE n == Len(k.klauses)
<1>1. /\ Longer(k, klause.lits, c) /\ SameSearch(k, c) /\ c.klauses = Append(k.klauses, klause)
      /\ UnitsListed(c, n + 1)
  BY GrownLonger DEF Grown
<1>2. /\ n \in Nat /\ Len(c.klauses) = n + 1 /\ Refs(c) = Refs(k) \cup {n + 1}
      /\ n + 1 \notin Refs(k)
      /\ \A ref \in Refs(k) : Klause(c, ref) = Klause(k, ref) /\ Lits(c, ref) = Lits(k, ref)
      /\ Klause(c, n + 1).lits = klause.lits
      /\ c.inconsistent = IF klause.lits = <<>> /\ k.inconsistent = INVALID
                          THEN n + 1 ELSE k.inconsistent
  BY <1>1 DEF Longer
<1> HIDE DEF n
<1>3. ClausesWell(c)
  <2> SUFFICES ASSUME NEW ref \in Refs(c)
               PROVE  LET lits == Klause(c, ref).lits
                      IN  /\ \A i, j \in 1..Len(lits) : IDX(lits[i]) = IDX(lits[j]) => i = j
                          /\ \A i \in 1..Len(lits) : IDX(lits[i]) \in Knows(c)
                          /\ lits = <<>> => c.inconsistent # INVALID
    BY DEF ClausesWell
  <2>1. Knows(c) = Knows(k)
    BY <1>1 DEF Knows, SameSearch
  <2>2. CASE ref = n + 1
    BY <1>2, <2>1, <2>2 DEF DistinctLits, INVALID
  <2>3. CASE ref \in Refs(k)
    <3>1. k.inconsistent # INVALID => c.inconsistent # INVALID
      BY <1>2
    <3> QED
      BY <1>2, <2>1, <2>3, <3>1 DEF Orderly, Clausal, ClausesWell
  <2> QED
    BY <1>2, <2>2, <2>3
<1>4. QueueWell(c) /\ KnownWell(c)
  BY <1>1, QueueFrame, KnownFrame DEF SameSearch, Orderly
<1>5. ValuesWell(c)
  <2> SUFFICES ASSUME NEW l \in c.values
               PROVE  /\ IDX(l) \in Knows(c)
                      /\ NOT(l) \notin c.values
                      /\ \/ l \in ToSet(c.trail)
                         \/ NOT(l) \in ToSet(c.trail)
                         \/ \E ref \in Refs(c) : Klause(c, ref).lits = <<l>>
    BY DEF ValuesWell
  <2>1. c.values = k.values /\ c.trail = k.trail /\ Knows(c) = Knows(k)
    BY <1>1 DEF SameSearch, Knows
  <2>2. /\ IDX(l) \in Knows(k)
        /\ NOT(l) \notin k.values
        /\ \/ l \in ToSet(k.trail)
           \/ NOT(l) \in ToSet(k.trail)
           \/ \E ref \in Refs(k) : Klause(k, ref).lits = <<l>>
    BY <2>1 DEF Orderly, ValuesWell
  <2>3. \A ref \in Refs(k) : ref \in Refs(c) /\ Klause(c, ref) = Klause(k, ref)
    BY <1>2
  <2> QED
    BY <2>1, <2>2, <2>3
<1>6. FailedWell(c)
  BY <1>1 DEF Orderly, FailedWell, SameSearch
<1> QED
  BY <1>1, <1>2, <1>3, <1>4, <1>5, <1>6

LEMMA GrownLearned ==
  ASSUME NEW k \in Kittens, Orderly(k), NEW lits \in Seq(LITS), DistinctLits(lits),
         \A i \in 1..Len(lits) : IDX(lits[i]) \in Knows(k),
         NEW resolved \in SUBSET Refs(k), Follows(k, resolved, ToSet(lits)),
         lits = <<>> => k.queue # <<>>,
         NEW klause \in Klauses, klause.learned, klause.lits = lits,
         klause.antecedents = IF k.antecedents THEN resolved ELSE {},
         NEW c, GrownWith(k, klause, TRUE, k.endOriginal, c)
  PROVE  Longer(k, lits, c) /\ Originals(c) = Originals(k) /\ Orderly(c)
<1> DEFINE n == Len(k.klauses)
<1>2. Grown(k, klause, c) /\ c.learned = TRUE /\ c.endOriginal = k.endOriginal
  BY DEF GrownWith
<1>3. /\ ClausesWell(c) /\ UnitsListed(c, Len(c.klauses))
      /\ QueueWell(c) /\ ValuesWell(c) /\ KnownWell(c) /\ FailedWell(c)
  BY <1>2, GrownOrderly
<1>4. Longer(k, lits, c) /\ SameSearch(k, c)
  BY <1>2, GrownLonger DEF Grown
<1>5. /\ n \in Nat /\ Len(c.klauses) = n + 1 /\ Refs(c) = Refs(k) \cup {n + 1}
      /\ n + 1 \notin Refs(k)
      /\ \A ref \in Refs(k) : Klause(c, ref) = Klause(k, ref) /\ Lits(c, ref) = Lits(k, ref)
      /\ Klause(c, n + 1) = klause /\ Lits(c, n + 1) = ToSet(lits)
      /\ c.inconsistent = IF lits = <<>> /\ k.inconsistent = INVALID
                          THEN n + 1 ELSE k.inconsistent
  BY <1>2, <1>4, GrownKlauses DEF Longer, Grown
<1> HIDE DEF n
<1>6. c.antecedents = k.antecedents /\ c.queue = k.queue
  BY <1>4 DEF SameSearch
<1>7. k.endOriginal \in Nat /\ k.endOriginal <= n
  BY DEF Orderly, Clausal, Derived, Kittens, n
<1>8. Refs(k) = 1..n
  BY DEF Refs, n
<1>9. Originals(c) = Originals(k) /\ Originals(k) \subseteq Refs(k)
  <2>1. \A ref \in 1..k.endOriginal : ref \in Refs(k)
    BY <1>5, <1>7, <1>8
  <2> QED
    BY <1>2, <1>5, <2>1 DEF Originals
<1>10. ASSUME NEW M \in Models
       PROVE  /\ SatisfiesAll(c, M, Originals(c)) => SatisfiesAll(k, M, Originals(k))
              /\ SatisfiesAll(c, M, Originals(c)) => Satisfies(M, ToSet(lits))
  <2>1. SatisfiesAll(c, M, Originals(c)) => SatisfiesAll(k, M, Originals(k))
    BY <1>5, <1>9, SatisfiesFrame
  <2>2. SatisfiesAll(k, M, Originals(k)) => SatisfiesAll(k, M, resolved)
    BY OriginalsImply DEF Orderly, Clausal
  <2> QED
    BY <2>1, <2>2 DEF Follows
<1>11. Derived(c)
  <2>1. c.endOriginal <= Len(c.klauses)
    BY <1>2, <1>5, <1>7
  <2>2. ASSUME NEW ref \in Refs(k)
        PROVE  LET d == Klause(c, ref)
               IN  IF d.learned
                   THEN /\ c.learned
                        /\ Follows(c, Originals(c), Lits(c, ref))
                        /\ c.antecedents => /\ d.antecedents \subseteq 1 .. ref - 1
                                            /\ Follows(c, d.antecedents, Lits(c, ref))
                   ELSE ref <= c.endOriginal /\ d.antecedents = {}
    <3> DEFINE d == Klause(k, ref)
    <3>1. Klause(c, ref) = d /\ Lits(c, ref) = Lits(k, ref)
      BY <1>5
    <3>2. IF d.learned
          THEN /\ Follows(k, Originals(k), Lits(k, ref))
               /\ k.antecedents => /\ d.antecedents \subseteq 1 .. ref - 1
                                   /\ Follows(k, d.antecedents, Lits(k, ref))
          ELSE ref <= k.endOriginal /\ d.antecedents = {}
      BY DEF Orderly, Clausal, Derived
    <3> HIDE DEF d
    <3>3. CASE d.learned
      <4>1. Follows(c, Originals(c), Lits(c, ref))
        BY <1>5, <1>9, <3>1, <3>2, <3>3, FollowsFrame
      <4>2. ASSUME k.antecedents
            PROVE  d.antecedents \subseteq 1 .. ref - 1 /\ Follows(c, d.antecedents, Lits(c, ref))
        <5>1. d.antecedents \subseteq 1 .. ref - 1 /\ Follows(k, d.antecedents, Lits(c, ref))
          BY <3>1, <3>2, <3>3, <4>2
        <5>2. \A r \in 1 .. ref - 1 : r \in Refs(k)
          BY <1>5, <1>8
        <5>3. \A r \in d.antecedents : Lits(c, r) = Lits(k, r)
          BY <1>5, <5>1, <5>2
        <5> QED
          BY <5>1, <5>3, FollowsFrame
      <4> QED
        BY <1>2, <1>6, <3>1, <3>3, <4>1, <4>2
    <3>4. CASE ~d.learned
      BY <1>2, <3>1, <3>2, <3>4
    <3> QED
      BY <3>3, <3>4
  <2>3. /\ Follows(c, Originals(c), Lits(c, n + 1))
        /\ c.antecedents => /\ klause.antecedents \subseteq 1 .. (n + 1) - 1
                            /\ Follows(c, klause.antecedents, Lits(c, n + 1))
    <3>1. Follows(c, Originals(c), Lits(c, n + 1))
      BY <1>5, <1>10 DEF Follows
    <3>2. Follows(c, resolved, Lits(c, n + 1))
      BY <1>5, FollowsFrame
    <3>3. (n + 1) - 1 = n
      BY <1>5
    <3> QED
      BY <1>2, <1>6, <1>8, <3>1, <3>2, <3>3
  <2> QED
    BY <1>2, <1>5, <2>1, <2>2, <2>3 DEF Derived
<1>12. InconsistentWell(c)
  <2> SUFFICES ASSUME c.inconsistent # INVALID
               PROVE  /\ c.inconsistent \in Refs(c)
                      /\ c.queue # <<>>
                      /\ \A M \in Models : ~SatisfiesAll(c, M, Originals(c))
                      /\ c.antecedents => Lits(c, c.inconsistent) = {}
    BY DEF InconsistentWell
  <2>1. CASE k.inconsistent # INVALID
    <3>1. /\ k.inconsistent \in Refs(k) /\ k.queue # <<>>
          /\ \A M \in Models : ~SatisfiesAll(k, M, Originals(k))
          /\ k.antecedents => Lits(k, k.inconsistent) = {}
      BY <2>1 DEF Orderly, Clausal, InconsistentWell
    <3>2. c.inconsistent = k.inconsistent
      BY <1>5, <2>1
    <3> QED
      BY <1>5, <1>6, <1>10, <3>1, <3>2
  <2>2. CASE k.inconsistent = INVALID
    <3>1. lits = <<>> /\ c.inconsistent = n + 1
      BY <1>5, <2>2
    <3>2. ToSet(lits) = {}
      BY <3>1 DEF ToSet
    <3>3. \A M \in Models : ~SatisfiesAll(c, M, Originals(c))
      BY <1>10, <3>2 DEF Satisfies
    <3> QED
      BY <1>5, <1>6, <3>1, <3>2, <3>3
  <2> QED
    BY <2>1, <2>2
<1>13. Orderly(c)
  BY <1>3, <1>11, <1>12 DEF Orderly, Clausal
<1> QED
  BY <1>4, <1>9, <1>13

LEMMA LearnedOrderly ==
  ASSUME NEW k \in Kittens, Orderly(k), NEW lits \in Seq(LITS), DistinctLits(lits),
         \A i \in 1..Len(lits) : IDX(lits[i]) \in Knows(k),
         NEW resolved \in SUBSET Refs(k), Follows(k, resolved, ToSet(lits)),
         lits = <<>> => k.queue # <<>>
  PROVE  /\ Longer(k, lits, NewLearned(k, lits, resolved))
         /\ Originals(NewLearned(k, lits, resolved)) = Originals(k)
         /\ Orderly(NewLearned(k, lits, resolved))
<1> DEFINE c == NewLearned(k, lits, resolved)
<1>1. resolved \in SUBSET Nat
  BY DEF Refs
<1>2. UnitsListed(k, Len(k.klauses))
  BY DEF Orderly, Clausal
<1>3. PICK klause \in Klauses :
        /\ klause.learned /\ klause.lits = lits
        /\ klause.antecedents = IF k.antecedents THEN resolved ELSE {}
        /\ GrownWith(k, klause, TRUE, k.endOriginal, c)
  BY <1>1, <1>2, NewLearnedGrown
<1> HIDE DEF c
<1>4. Longer(k, lits, c) /\ Originals(c) = Originals(k) /\ Orderly(c)
  BY <1>3, GrownLearned
<1> QED
  BY <1>4 DEF c

LEMMA LearnedStatic ==
  ASSUME NEW k \in Kittens, Static(k), NEW lits \in Seq(LITS), DistinctLits(lits),
         \A i \in 1..Len(lits) : IDX(lits[i]) \in Knows(k),
         NEW resolved \in SUBSET Refs(k), Follows(k, resolved, ToSet(lits)),
         lits = <<>> => k.queue # <<>>
  PROVE  /\ Longer(k, lits, NewLearned(k, lits, resolved))
         /\ Originals(NewLearned(k, lits, resolved)) = Originals(k)
         /\ Static(NewLearned(k, lits, resolved))
BY LearnedOrderly DEF Static, Longer

LEMMA OriginalOrderly ==
  ASSUME NEW k \in Kittens, Orderly(k), NEW lits \in Seq(LITS), DistinctLits(lits),
         \A i \in 1..Len(lits) : IDX(lits[i]) \in Knows(k), lits # <<>>, NEW id \in Nat
  PROVE  /\ Longer(k, lits, NewOriginal(k, id, lits))
         /\ Originals(NewOriginal(k, id, lits)) = Originals(k) \cup {Len(k.klauses) + 1}
         /\ Klause(NewOriginal(k, id, lits), Len(k.klauses) + 1).id = id
         /\ Orderly(NewOriginal(k, id, lits))
<1> DEFINE c == NewOriginal(k, id, lits)
           n == Len(k.klauses)
<1>1. UnitsListed(k, Len(k.klauses))
  BY DEF Orderly, Clausal
<1>2. PICK klause \in Klauses :
        /\ klause.learned = FALSE /\ klause.lits = lits
        /\ klause.antecedents = {} /\ klause.id = id
        /\ Grown(k, klause, c)
        /\ c.learned = k.learned /\ c.endOriginal = n + 1
  <2>1. PICK klause \in Klauses :
          /\ klause.learned = FALSE /\ klause.lits = lits
          /\ klause.antecedents = {} /\ klause.id = id
          /\ GrownWith(k, klause, k.learned, n + 1, c)
    BY <1>1, NewOriginalGrown
  <2> QED
    BY <2>1 DEF GrownWith
<1> HIDE DEF c
<1>3. /\ ClausesWell(c) /\ UnitsListed(c, Len(c.klauses))
      /\ QueueWell(c) /\ ValuesWell(c) /\ KnownWell(c) /\ FailedWell(c)
  BY <1>2, GrownOrderly
<1>4. Longer(k, lits, c) /\ SameSearch(k, c)
  BY <1>2, GrownLonger DEF Grown
<1>5. /\ n \in Nat /\ Len(c.klauses) = n + 1 /\ Refs(c) = Refs(k) \cup {n + 1}
      /\ n + 1 \notin Refs(k)
      /\ \A ref \in Refs(k) : Klause(c, ref) = Klause(k, ref) /\ Lits(c, ref) = Lits(k, ref)
      /\ Klause(c, n + 1) = klause /\ Lits(c, n + 1) = ToSet(lits)
      /\ c.inconsistent = k.inconsistent
  BY <1>2, <1>4, GrownKlauses DEF Longer, Grown
<1> HIDE DEF n
<1>6. c.antecedents = k.antecedents /\ c.queue = k.queue
  BY <1>4 DEF SameSearch
<1>7. k.endOriginal \in Nat /\ k.endOriginal <= n
  BY DEF Orderly, Clausal, Derived, Kittens, n
<1>8. Refs(k) = 1..n /\ 1 .. n + 1 = Refs(c)
  BY <1>5 DEF Refs, n
<1>9. Originals(c) = Originals(k) \cup {n + 1} /\ Originals(k) \subseteq Refs(k)
  <2>1. \A ref \in 1..k.endOriginal : ref \in Refs(k)
    BY <1>5, <1>7, <1>8
  <2>2. \A ref \in Refs(k) : ~Klause(k, ref).learned => ref <= k.endOriginal /\ ref \in 1..k.endOriginal
    BY <1>7, <1>8 DEF Orderly, Clausal, Derived
  <2>3. Originals(c) = {ref \in Refs(c) : ~Klause(c, ref).learned}
    BY <1>2, <1>8 DEF Originals
  <2>4. Originals(k) = {ref \in Refs(k) : ~Klause(k, ref).learned}
    BY <2>1, <2>2 DEF Originals
  <2> QED
    BY <1>2, <1>5, <2>3, <2>4
<1>10. ASSUME NEW M \in Models
       PROVE  SatisfiesAll(c, M, Originals(c)) => SatisfiesAll(k, M, Originals(k))
  <2>1. SatisfiesAll(c, M, Originals(c)) => SatisfiesAll(c, M, Originals(k))
    BY <1>9 DEF SatisfiesAll
  <2> QED
    BY <1>5, <1>9, <2>1, SatisfiesFrame
<1>11. Derived(c)
  <2>1. c.endOriginal <= Len(c.klauses)
    BY <1>2, <1>5, <1>7
  <2>2. ASSUME NEW ref \in Refs(k)
        PROVE  LET d == Klause(c, ref)
               IN  IF d.learned
                   THEN /\ c.learned
                        /\ Follows(c, Originals(c), Lits(c, ref))
                        /\ c.antecedents => /\ d.antecedents \subseteq 1 .. ref - 1
                                            /\ Follows(c, d.antecedents, Lits(c, ref))
                   ELSE ref <= c.endOriginal /\ d.antecedents = {}
    <3> DEFINE d == Klause(k, ref)
    <3>1. Klause(c, ref) = d /\ Lits(c, ref) = Lits(k, ref)
      BY <1>5
    <3>2. IF d.learned
          THEN /\ k.learned
               /\ Follows(k, Originals(k), Lits(k, ref))
               /\ k.antecedents => /\ d.antecedents \subseteq 1 .. ref - 1
                                   /\ Follows(k, d.antecedents, Lits(k, ref))
          ELSE ref <= k.endOriginal /\ d.antecedents = {}
      BY DEF Orderly, Clausal, Derived
    <3> HIDE DEF d
    <3>3. CASE d.learned
      <4>1. Follows(c, Originals(c), Lits(c, ref))
        BY <1>10, <3>1, <3>2, <3>3 DEF Follows
      <4>2. ASSUME k.antecedents
            PROVE  d.antecedents \subseteq 1 .. ref - 1 /\ Follows(c, d.antecedents, Lits(c, ref))
        <5>1. d.antecedents \subseteq 1 .. ref - 1 /\ Follows(k, d.antecedents, Lits(c, ref))
          BY <3>1, <3>2, <3>3, <4>2
        <5>2. \A r \in 1 .. ref - 1 : r \in Refs(k)
          BY <1>5, <1>8
        <5>3. \A r \in d.antecedents : Lits(c, r) = Lits(k, r)
          BY <1>5, <5>1, <5>2
        <5> QED
          BY <5>1, <5>3, FollowsFrame
      <4> QED
        BY <1>2, <1>6, <3>1, <3>2, <3>3, <4>1, <4>2
    <3>4. CASE ~d.learned
      <4>1. ref <= n + 1
        BY <1>5, <1>8
      <4> QED
        BY <1>2, <3>1, <3>2, <3>4, <4>1
    <3> QED
      BY <3>3, <3>4
  <2> QED
    BY <1>2, <1>5, <2>1, <2>2 DEF Derived
<1>12. InconsistentWell(c)
  <2> SUFFICES ASSUME c.inconsistent # INVALID
               PROVE  /\ c.inconsistent \in Refs(c)
                      /\ c.queue # <<>>
                      /\ \A M \in Models : ~SatisfiesAll(c, M, Originals(c))
                      /\ c.antecedents => Lits(c, c.inconsistent) = {}
    BY DEF InconsistentWell
  <2>1. /\ k.inconsistent \in Refs(k) /\ k.queue # <<>>
        /\ \A M \in Models : ~SatisfiesAll(k, M, Originals(k))
        /\ k.antecedents => Lits(k, k.inconsistent) = {}
    BY <1>5 DEF Orderly, Clausal, InconsistentWell
  <2> QED
    BY <1>5, <1>6, <1>10, <2>1
<1>13. Orderly(c)
  BY <1>3, <1>11, <1>12 DEF Orderly, Clausal
<1> QED
  BY <1>2, <1>4, <1>5, <1>9, <1>13 DEF c, n

LEMMA OriginalStatic ==
  ASSUME NEW k \in Kittens, Static(k), NEW lits \in Seq(LITS), DistinctLits(lits),
         \A i \in 1..Len(lits) : IDX(lits[i]) \in Knows(k), lits # <<>>, NEW id \in Nat
  PROVE  /\ Longer(k, lits, NewOriginal(k, id, lits))
         /\ Originals(NewOriginal(k, id, lits)) = Originals(k) \cup {Len(k.klauses) + 1}
         /\ Klause(NewOriginal(k, id, lits), Len(k.klauses) + 1).id = id
         /\ Static(NewOriginal(k, id, lits))
BY OriginalOrderly DEF Static, Longer

-----------------------------------------------------------------------------
(* Assigning a literal. *)

LEMMA ClausalFrame ==
  ASSUME NEW k, NEW c, Clausal(k), c.klauses = k.klauses, c.queue = k.queue,
         c.inconsistent = k.inconsistent, c.units = k.units,
         c.endOriginal = k.endOriginal, c.learned = k.learned, c.antecedents = k.antecedents
  PROVE  Clausal(c)
<1>1. ClausesWell(c) /\ UnitsListed(c, Len(c.klauses))
  BY DEF Clausal, ClausesWell, UnitsListed, Refs, Klause, Knows
<1>3. Derived(c)
  BY DEF Clausal, Derived, Follows, SatisfiesAll, Originals, Refs, Klause, Lits
<1>4. InconsistentWell(c)
  BY DEF Clausal, InconsistentWell, SatisfiesAll, Originals, Refs, Klause, Lits
<1> QED
  BY <1>1, <1>3, <1>4 DEF Clausal

(* The clauses of k are clauses of a, and others are units of lit. *)
WithUnits(k, lit, a) ==
  /\ Refs(k) \subseteq Refs(a)
  /\ \A ref \in Refs(k) : Klause(a, ref) = Klause(k, ref) /\ Lits(a, ref) = Lits(k, ref)
  /\ \A ref \in Refs(a) \ Refs(k) : Klause(a, ref).lits = <<lit>>
  /\ Originals(a) = Originals(k)
  /\ a.inconsistent = k.inconsistent
  /\ a.watches = k.watches
  /\ (Watched(k, Len(k.klauses)) => Watched(a, Len(a.klauses)))

AssignedTo(k, lit, reason, a) ==
  /\ a \in Kittens
  /\ WithUnits(k, lit, a)
  /\ a.status = k.status /\ a.level = k.level /\ a.propagated = k.propagated
  /\ a.queue = k.queue /\ a.search = k.search /\ a.assumptions = k.assumptions
  /\ a.antecedents = k.antecedents /\ a.failed = k.failed /\ a.failing = k.failing
  /\ a.values = k.values \cup {lit}
  /\ a.trail = Append(k.trail, lit)
  /\ a.levelOf = [k.levelOf EXCEPT ![IDX(lit)] = k.level]
  /\ \A v \in Vars \ {IDX(lit)} : a.reason[v] = k.reason[v]
  /\ IF k.level = 0 THEN a.reason[IDX(lit)] \in Refs(a) /\ Klause(a, a.reason[IDX(lit)]).lits = <<lit>>
                    ELSE a.reason[IDX(lit)] = reason
  /\ k.level > 0 => Refs(a) = Refs(k)

AssignAssumption(k, lit, reason) ==
  /\ Orderly(k)
  /\ IDX(lit) \in Knows(k)
  /\ ~IsFalse(k, lit)
  /\ reason = INVALID => k.level > 0
  /\ reason # INVALID => reason \in Refs(k) /\ lit \in Lits(k, reason)
  /\ k.level = 0 => \A l \in Lits(k, reason) \ {lit} :
       k.reason[IDX(l)] \in Refs(k) /\ Klause(k, k.reason[IDX(l)]).lits = <<NOT(l)>>

(* The assignment itself. *)
WithValue(known, lit, level, r) ==
  [known EXCEPT
    !.values     = @ \cup {lit},
    !.phases     = IF lit > 0 THEN @ \ {IDX(lit)} ELSE @ \cup {IDX(lit)},
    !.trail      = Append(@, lit),
    !.levelOf[IDX(lit)] = level,
    !.reason[IDX(lit)]  = r]

AssignedFields(k, known, lit, r, a) ==
  /\ a.klauses = known.klauses /\ a.endOriginal = known.endOriginal
  /\ a.learned = known.learned /\ a.units = known.units
  /\ a.watches = known.watches /\ a.inconsistent = known.inconsistent
  /\ a.status = k.status /\ a.level = k.level /\ a.propagated = k.propagated
  /\ a.queue = k.queue /\ a.search = k.search /\ a.assumptions = k.assumptions
  /\ a.antecedents = k.antecedents /\ a.failed = k.failed /\ a.failing = k.failing
  /\ a.values = k.values \cup {lit}
  /\ a.trail = Append(k.trail, lit)
  /\ a.levelOf = [k.levelOf EXCEPT ![IDX(lit)] = k.level]
  /\ a.reason = [k.reason EXCEPT ![IDX(lit)] = r]

LEMMA AssignFields ==
  ASSUME NEW k \in Kittens, NEW lit \in LITS,
         NEW known \in Kittens, SameSearch(k, known),
         NEW r \in Nat, NEW a, a = WithValue(known, lit, k.level, r)
  PROVE  a \in Kittens /\ AssignedFields(k, known, lit, r, a)
<1> DEFINE v == IDX(lit)
           values == known.values \cup {lit}
           phases == IF lit > 0 THEN known.phases \ {v} ELSE known.phases \cup {v}
           trail == Append(known.trail, lit)
           levelOf == [known.levelOf EXCEPT ![v] = k.level]
           reasons == [known.reason EXCEPT ![v] = r]
<1>1. v \in Vars
  BY LitFacts
<1>2. /\ values \in SUBSET LITS /\ phases \in SUBSET Vars /\ trail \in Seq(LITS)
      /\ levelOf \in [Vars -> Nat] /\ reasons \in [Vars -> Nat]
  <2>1. /\ known.values \in SUBSET LITS /\ known.phases \in SUBSET Vars
        /\ known.trail \in Seq(LITS) /\ known.levelOf \in [Vars -> Nat]
        /\ known.reason \in [Vars -> Nat] /\ k.level \in Nat
    BY DEF Kittens
  <2> HIDE DEF v
  <2>2. trail \in Seq(LITS)
    BY <2>1, AppendProperties
  <2> QED
    BY <1>1, <2>1, <2>2
<1>3. a = [known EXCEPT !.values = values, !.phases = phases, !.trail = trail,
                        !.levelOf = levelOf, !.reason = reasons]
  BY DEF WithValue
<1>4. /\ known.values = k.values /\ known.trail = k.trail /\ known.levelOf = k.levelOf
      /\ known.reason = k.reason
  BY DEF SameSearch
<1> HIDE DEF values, phases, trail, levelOf, reasons
<1>5. a \in Kittens
  <2> DEFINE b == [known EXCEPT !.values = values, !.phases = phases]
             c == [b EXCEPT !.trail = trail, !.levelOf = levelOf]
  <2>1. b \in Kittens
    BY <1>2 DEF Kittens
  <2>2. a = [c EXCEPT !.reason = reasons]
    BY <1>3
  <2> HIDE DEF b
  <2>3. c \in Kittens
    BY <1>2, <2>1 DEF Kittens
  <2> HIDE DEF c
  <2> QED
    BY <1>2, <2>2, <2>3 DEF Kittens
<1>6. /\ a.klauses = known.klauses /\ a.endOriginal = known.endOriginal
      /\ a.learned = known.learned /\ a.units = known.units
      /\ a.watches = known.watches /\ a.inconsistent = known.inconsistent
      /\ a.status = known.status /\ a.level = known.level /\ a.propagated = known.propagated
      /\ a.queue = known.queue /\ a.search = known.search /\ a.assumptions = known.assumptions
      /\ a.antecedents = known.antecedents /\ a.failed = known.failed /\ a.failing = known.failing
      /\ a.values = values /\ a.trail = trail /\ a.levelOf = levelOf /\ a.reason = reasons
  BY <1>3 DEF Kittens
<1> QED
  BY <1>4, <1>5, <1>6 DEF AssignedFields, values, trail, levelOf, reasons, v, SameSearch

LEMMA UnitLits ==
  ASSUME NEW k, NEW ref, NEW l, Klause(k, ref).lits = <<l>>
  PROVE  Lits(k, ref) = {l}
<1>1. DOMAIN <<l>> = 1..1 /\ <<l>>[1] = l
  OBVIOUS
<1> QED
  BY <1>1 DEF Lits, ToSet

(* The unit learned on the root level. *)
LEMMA RootUnit ==
  ASSUME NEW k \in Kittens, NEW lit \in LITS, NEW reason \in Refs(k),
         AssignAssumption(k, lit, reason), k.level = 0,
         NEW resolved, resolved = {k.reason[IDX(l)] : l \in Lits(k, reason) \ {lit}} \cup {reason}
  PROVE  /\ Longer(k, <<lit>>, NewLearned(k, <<lit>>, resolved))
         /\ Originals(NewLearned(k, <<lit>>, resolved)) = Originals(k)
         /\ Orderly(NewLearned(k, <<lit>>, resolved))
<1>1. /\ Orderly(k) /\ IDX(lit) \in Knows(k)
      /\ \A l \in Lits(k, reason) \ {lit} :
           k.reason[IDX(l)] \in Refs(k) /\ Klause(k, k.reason[IDX(l)]).lits = <<NOT(l)>>
  BY DEF AssignAssumption
<1>2. <<lit>> \in Seq(LITS) /\ Len(<<lit>>) = 1 /\ <<lit>>[1] = lit /\ <<lit>> # <<>>
  OBVIOUS
<1>3. DistinctLits(<<lit>>)
  <2>1. \A i, j \in 1..1 : i = j
    OBVIOUS
  <2> QED
    BY <1>2, <2>1 DEF DistinctLits
<1>4. \A i \in 1..Len(<<lit>>) : IDX(<<lit>>[i]) \in Knows(k)
  <2>1. \A i \in 1..1 : i = 1
    OBVIOUS
  <2> QED
    BY <1>1, <1>2, <2>1
<1>5. resolved \in SUBSET Refs(k)
  BY <1>1
<1>6. ToSet(<<lit>>) = {lit}
  <2>1. DOMAIN <<lit>> = 1..1
    OBVIOUS
  <2> QED
    BY <1>2, <2>1 DEF ToSet
<1>7. Follows(k, resolved, {lit})
  <2> SUFFICES ASSUME NEW M \in Models, SatisfiesAll(k, M, resolved)
               PROVE  lit \in M
    BY DEF Follows, Satisfies
  <2>1. PICK l \in Lits(k, reason) : l \in M
    BY DEF SatisfiesAll, Satisfies
  <2>2. ASSUME l # lit
        PROVE  FALSE
    <3>1. k.reason[IDX(l)] \in resolved /\ Klause(k, k.reason[IDX(l)]).lits = <<NOT(l)>>
      BY <1>1, <2>2
    <3>2. NOT(l) \in M
      BY <3>1, UnitLits DEF SatisfiesAll, Satisfies
    <3> QED
      BY <2>1, <3>2, ModelFacts, KlauseType
  <2> QED
    BY <2>1, <2>2
<1> QED
  BY <1>1, <1>2, <1>3, <1>4, <1>5, <1>6, <1>7, LearnedOrderly

LEMMA AssignEffect ==
  ASSUME NEW k \in Kittens, NEW lit \in LITS, NEW reason \in Nat,
         AssignAssumption(k, lit, reason)
  PROVE  /\ AssignedTo(k, lit, reason, Assign(k, lit, reason))
         /\ Clausal(Assign(k, lit, reason))
<1> DEFINE a == Assign(k, lit, reason)
           resolved == {k.reason[IDX(l)] : l \in Lits(k, reason) \ {lit}} \cup {reason}
           isUnit == k.level = 0 /\ Len(Klause(k, reason).lits) > 1
           known == IF isUnit THEN NewLearned(k, <<lit>>, resolved) ELSE k
           r == IF isUnit THEN Len(known.klauses) ELSE reason
<1>1. a = WithValue(known, lit, k.level, r)
  BY DEF Assign, WithValue
<1> HIDE DEF a, resolved
<1>2. Orderly(k) /\ k.level \in Nat
  BY DEF AssignAssumption, Kittens
<1>3. IDX(lit) \in Vars /\ k.reason \in [Vars -> Nat]
  BY LitFacts DEF Kittens
<1>4. CASE isUnit
  <2>1. reason \in Refs(k)
    BY <1>4 DEF AssignAssumption, INVALID
  <2>2. known = NewLearned(k, <<lit>>, resolved) /\ r = Len(known.klauses)
    BY <1>4
  <2>3. Longer(k, <<lit>>, known) /\ Originals(known) = Originals(k) /\ Orderly(known)
    BY <1>4, <2>1, <2>2, RootUnit DEF resolved
  <2> HIDE DEF known
  <2>4. /\ known \in Kittens /\ SameSearch(k, known) /\ Len(k.klauses) \in Nat
        /\ r = Len(k.klauses) + 1 /\ r \in Nat
        /\ Refs(known) = Refs(k) \cup {Len(k.klauses) + 1}
        /\ Len(k.klauses) + 1 \notin Refs(k)
        /\ \A ref \in Refs(k) : Klause(known, ref) = Klause(k, ref) /\ Lits(known, ref) = Lits(k, ref)
        /\ Klause(known, Len(k.klauses) + 1).lits = <<lit>>
        /\ known.inconsistent = k.inconsistent /\ known.watches = k.watches
    <3>1. Len(<<lit>>) = 1 /\ <<lit>> # <<>>
      OBVIOUS
    <3> QED
      BY <2>2, <2>3, <3>1 DEF Longer
  <2> HIDE DEF r, isUnit
  <2>5. /\ a \in Kittens
        /\ a.klauses = known.klauses /\ a.endOriginal = known.endOriginal
        /\ a.learned = known.learned /\ a.units = known.units
        /\ a.watches = known.watches /\ a.inconsistent = known.inconsistent
        /\ a.status = k.status /\ a.level = k.level /\ a.propagated = k.propagated
        /\ a.queue = k.queue /\ a.search = k.search /\ a.assumptions = k.assumptions
        /\ a.antecedents = k.antecedents /\ a.failed = k.failed /\ a.failing = k.failing
        /\ a.values = k.values \cup {lit}
        /\ a.trail = Append(k.trail, lit)
        /\ a.levelOf = [k.levelOf EXCEPT ![IDX(lit)] = k.level]
        /\ a.reason = [k.reason EXCEPT ![IDX(lit)] = r]
    <3>1. a \in Kittens /\ AssignedFields(k, known, lit, r, a)
      BY <1>1, <2>4, AssignFields
    <3> QED
      BY <3>1 DEF AssignedFields
  <2>6. WithUnits(k, lit, a)
    <3>1. /\ Refs(a) = Refs(known) /\ Originals(a) = Originals(known)
          /\ \A ref : Klause(a, ref) = Klause(known, ref) /\ Lits(a, ref) = Lits(known, ref)
      BY <2>5 DEF Refs, Originals, Klause, Lits
    <3>2. Watched(k, Len(k.klauses)) => Watched(known, Len(known.klauses))
      BY <2>3 DEF Longer
    <3>3. Watched(k, Len(k.klauses)) => Watched(a, Len(a.klauses))
      BY <2>5, <3>2, WatchedFrame
    <3> QED
      BY <2>3, <2>4, <2>5, <3>1, <3>3 DEF WithUnits
  <2>7. a.reason[IDX(lit)] \in Refs(a) /\ Klause(a, a.reason[IDX(lit)]).lits = <<lit>>
    BY <1>3, <2>4, <2>5 DEF Refs, Klause
  <2>8. AssignedTo(k, lit, reason, a)
    BY <1>3, <1>4, <2>5, <2>6, <2>7 DEF AssignedTo, isUnit
  <2>9. a.queue = known.queue /\ a.antecedents = known.antecedents
    BY <2>4, <2>5 DEF SameSearch
  <2>10. Clausal(a)
    BY <2>3, <2>5, <2>9, ClausalFrame DEF Orderly
  <2> QED
    BY <2>8, <2>10 DEF a
<1>5. CASE ~isUnit
  <2>1. known = k /\ r = reason
    BY <1>5
  <2>2. SameSearch(k, k)
    BY DEF SameSearch
  <2>3. k.level = 0 => reason \in Refs(k) /\ Klause(k, reason).lits = <<lit>>
    <3> SUFFICES ASSUME k.level = 0
                 PROVE  reason \in Refs(k) /\ Klause(k, reason).lits = <<lit>>
      OBVIOUS
    <3> DEFINE lits == Klause(k, reason).lits
    <3>1. reason \in Refs(k) /\ lit \in Lits(k, reason)
      BY DEF AssignAssumption, INVALID
    <3>2. ~ (Len(lits) > 1)
      BY <1>5
    <3>3. /\ lits \in Seq(LITS) /\ Len(lits) \in Nat
          /\ Lits(k, reason) = {lits[i] : i \in 1..Len(lits)}
      BY <3>1, KlauseType
    <3> HIDE DEF lits
    <3>4. PICK i \in 1..Len(lits) : lits[i] = lit
      BY <3>1, <3>3
    <3>5. \A n \in Nat : ~ (n > 1) /\ i \in 1..n => n = 1 /\ i = 1
      OBVIOUS
    <3>6. Len(lits) = 1 /\ lits[1] = lit
      BY <3>2, <3>3, <3>4, <3>5
    <3>7. lits = <<lit>>
      BY <3>3, <3>6
    <3> QED
      BY <3>1, <3>7 DEF lits
  <2> HIDE DEF known, r, isUnit
  <2>4. /\ a \in Kittens
        /\ a.klauses = k.klauses /\ a.endOriginal = k.endOriginal
        /\ a.learned = k.learned /\ a.units = k.units
        /\ a.watches = k.watches /\ a.inconsistent = k.inconsistent
        /\ a.status = k.status /\ a.level = k.level /\ a.propagated = k.propagated
        /\ a.queue = k.queue /\ a.search = k.search /\ a.assumptions = k.assumptions
        /\ a.antecedents = k.antecedents /\ a.failed = k.failed /\ a.failing = k.failing
        /\ a.values = k.values \cup {lit}
        /\ a.trail = Append(k.trail, lit)
        /\ a.levelOf = [k.levelOf EXCEPT ![IDX(lit)] = k.level]
        /\ a.reason = [k.reason EXCEPT ![IDX(lit)] = reason]
    <3>1. a \in Kittens /\ AssignedFields(k, k, lit, reason, a)
      BY <1>1, <2>1, <2>2, AssignFields
    <3> QED
      BY <3>1 DEF AssignedFields
  <2>5. /\ Refs(a) = Refs(k) /\ Originals(a) = Originals(k)
        /\ \A ref : Klause(a, ref) = Klause(k, ref) /\ Lits(a, ref) = Lits(k, ref)
    BY <2>4 DEF Refs, Originals, Klause, Lits
  <2>6. WithUnits(k, lit, a)
    <3>1. Watched(k, Len(k.klauses)) => Watched(a, Len(a.klauses))
      BY <2>4, WatchedFrame
    <3> QED
      BY <2>4, <2>5, <3>1 DEF WithUnits
  <2>7. AssignedTo(k, lit, reason, a)
    BY <1>3, <2>3, <2>4, <2>5, <2>6 DEF AssignedTo
  <2>8. Clausal(a)
    BY <1>2, <2>4, ClausalFrame DEF Orderly
  <2> QED
    BY <2>7, <2>8 DEF a
<1> QED
  BY <1>4, <1>5

LEMMA AssignOrderly ==
  ASSUME NEW k \in Kittens, NEW lit \in LITS, NEW reason \in Nat,
         AssignAssumption(k, lit, reason)
  PROVE  Orderly(Assign(k, lit, reason))
<1> DEFINE a == Assign(k, lit, reason)
<1>1. AssignedTo(k, lit, reason, a) /\ Clausal(a)
  BY AssignEffect
<1>2. Orderly(k) /\ IDX(lit) \in Knows(k) /\ NOT(lit) \notin k.values
  BY DEF AssignAssumption, IsFalse
<1> HIDE DEF a
<1>3. /\ a.status = k.status /\ a.queue = k.queue /\ a.search = k.search
      /\ a.assumptions = k.assumptions
      /\ a.failed = k.failed /\ a.failing = k.failing
      /\ a.values = k.values \cup {lit} /\ a.trail = Append(k.trail, lit)
      /\ \A ref \in Refs(k) : ref \in Refs(a) /\ Klause(a, ref) = Klause(k, ref)
  BY <1>1 DEF AssignedTo, WithUnits
<1>4. ToSet(a.trail) = ToSet(k.trail) \cup {lit}
  BY <1>3, SetOfAppend DEF Kittens
<1>5. QueueWell(a)
  BY <1>2, <1>3, QueueFrame DEF Orderly
<1>6. KnownWell(a)
  BY <1>2, <1>3, <1>4 DEF Orderly, KnownWell, Knows
<1>7. FailedWell(a)
  BY <1>2, <1>3 DEF Orderly, FailedWell
<1>8. ValuesWell(a)
  <2> SUFFICES ASSUME NEW l \in a.values
               PROVE  /\ IDX(l) \in Knows(a)
                      /\ NOT(l) \notin a.values
                      /\ \/ l \in ToSet(a.trail)
                         \/ NOT(l) \in ToSet(a.trail)
                         \/ \E ref \in Refs(a) : Klause(a, ref).lits = <<l>>
    BY DEF ValuesWell
  <2>1. Knows(a) = Knows(k)
    BY <1>3 DEF Knows
  <2>2. l \in LITS /\ NOT(NOT(l)) = l /\ NOT(lit) # lit
    BY <1>3, LitFacts DEF Kittens
  <2>3. CASE l = lit
    BY <1>2, <1>3, <1>4, <2>1, <2>2, <2>3
  <2>4. CASE l \in k.values
    <3>1. /\ IDX(l) \in Knows(k)
          /\ NOT(l) \notin k.values
          /\ \/ l \in ToSet(k.trail)
             \/ NOT(l) \in ToSet(k.trail)
             \/ \E ref \in Refs(k) : Klause(k, ref).lits = <<l>>
      BY <1>2, <2>4 DEF Orderly, ValuesWell
    <3>2. NOT(l) # lit
      BY <1>2, <2>2, <2>4
    <3> QED
      BY <1>3, <1>4, <2>1, <3>1, <3>2
  <2> QED
    BY <1>3, <2>3, <2>4
<1> QED
  BY <1>1, <1>5, <1>6, <1>7, <1>8 DEF Orderly, a

LEMMA AssignStatic ==
  ASSUME NEW k \in Kittens, Static(k), NEW lit \in LITS, NEW reason \in Nat,
         AssignAssumption(k, lit, reason)
  PROVE  /\ AssignedTo(k, lit, reason, Assign(k, lit, reason))
         /\ Static(Assign(k, lit, reason))
<1> DEFINE a == Assign(k, lit, reason)
<1>1. AssignedTo(k, lit, reason, a)
  BY AssignEffect
<1>2. Orderly(a)
  BY AssignOrderly
<1>3. Watched(a, Len(a.klauses))
  BY <1>1 DEF Static, AssignedTo, WithUnits
<1> QED
  BY <1>1, <1>2, <1>3 DEF Static

-----------------------------------------------------------------------------
(* Unassigning literals. *)

(* Nothing but the values, the trail and the level differs. *)
OnlySearched(k, c) ==
  /\ c.status = k.status /\ c.antecedents = k.antecedents /\ c.learned = k.learned
  /\ c.klauses = k.klauses /\ c.endOriginal = k.endOriginal /\ c.units = k.units
  /\ c.watches = k.watches /\ c.queue = k.queue /\ c.assumptions = k.assumptions
  /\ c.failed = k.failed /\ c.failing = k.failing /\ c.inconsistent = k.inconsistent
  /\ c.core = k.core /\ c.levelOf = k.levelOf /\ c.reason = k.reason

LEMMA OnlySearchedFrame ==
  ASSUME NEW k, NEW c, OnlySearched(k, c)
  PROVE  /\ Refs(c) = Refs(k) /\ Originals(c) = Originals(k) /\ Knows(c) = Knows(k)
         /\ \A ref : Klause(c, ref) = Klause(k, ref) /\ Lits(c, ref) = Lits(k, ref)
BY DEF OnlySearched, Refs, Originals, Klause, Lits, Knows

LEMMA StampIs ==
  ASSUME NEW k, QueueWell(k), NEW i \in 1..Len(k.queue)
  PROVE  Stamp(k, k.queue[i]) = i
BY DEF QueueWell, Stamp

LEMMA UnassignEffect ==
  ASSUME NEW k \in Kittens, QueueWell(k), NEW lits \in SUBSET LITS,
         \A l \in lits : IDX(l) \in Knows(k)
  PROVE  /\ Unassign(k, lits) \in Kittens
         /\ OnlySearched(k, Unassign(k, lits))
         /\ Unassign(k, lits).trail = k.trail
         /\ Unassign(k, lits).values = k.values \ (lits \cup {NOT(l) : l \in lits})
         /\ QueueWell(Unassign(k, lits))
<1> DEFINE behind == {i \in 1..Len(k.queue) : k.queue[i] \in {IDX(l) : l \in lits}}
           latest == CHOOSE i \in behind : \A j \in behind : j <= i
           values == k.values \ (lits \cup {NOT(l) : l \in lits})
           search == IF lits # {} /\ latest > Stamp(k, k.search) THEN k.queue[latest] ELSE k.search
           u == Unassign(k, lits)
<1>1. u = [k EXCEPT !.values = values, !.search = search]
  BY DEF Unassign
<1>2. /\ k.queue \in Seq(Vars) /\ k.search \in Vars \cup {0} /\ k.values \in SUBSET LITS
      /\ Len(k.queue) \in Nat /\ ToSet(k.queue) = {k.queue[i] : i \in 1..Len(k.queue)}
      /\ \A i \in 1..Len(k.queue) : k.queue[i] \in Vars
  <2>1. k.queue \in Seq(Vars) /\ k.search \in Vars \cup {0} /\ k.values \in SUBSET LITS
    BY DEF Kittens
  <2> QED
    BY <2>1, SetOfSeq, ElementOfSeq, LenProperties
<1>3. ASSUME lits # {}
      PROVE  latest \in behind /\ \A j \in behind : j <= latest
  <2>1. PICK l \in lits : IDX(l) \in {k.queue[i] : i \in 1..Len(k.queue)}
    BY <1>2, <1>3 DEF Knows
  <2>2. behind # {} /\ behind \in SUBSET (1..Len(k.queue))
    BY <2>1
  <2> HIDE DEF behind
  <2> QED
    BY <1>2, <2>2, LastOf
<1>4. values \in SUBSET LITS /\ search \in Vars \cup {0}
  <2>1. values \in SUBSET LITS
    BY <1>2
  <2>2. lits # {} => k.queue[latest] \in Vars
    <3> HIDE DEF latest
    <3> QED
      BY <1>2, <1>3
  <2> HIDE DEF latest
  <2> QED
    BY <1>2, <2>1, <2>2
<1>5. ASSUME k.queue # <<>>
      PROVE  \E p \in 1..Len(k.queue) :
               /\ k.queue[p] = search
               /\ \A i \in 1..Len(k.queue) :
                    ~(k.queue[i] \in values) /\ ~(NOT(k.queue[i]) \in values) => i <= p
  <2>1. PICK p \in 1..Len(k.queue) :
          /\ k.queue[p] = k.search
          /\ \A i \in 1..Len(k.queue) : k.queue[i] \in Unassigned(k) => i <= p
    BY <1>5 DEF QueueWell
  <2>2. Stamp(k, k.search) = p
    BY <2>1, StampIs
  <2>3. ASSUME NEW i \in 1..Len(k.queue), ~(k.queue[i] \in values), ~(NOT(k.queue[i]) \in values)
        PROVE  k.queue[i] \in Unassigned(k) \/ (lits # {} /\ i \in behind)
    <3> DEFINE v == k.queue[i]
    <3>1. v \in Vars /\ v \in ToSet(k.queue)
      BY <1>2
    <3>2. v \in LITS /\ IDX(v) = v /\ IDX(NOT(v)) = v
      BY <3>1, VarFacts
    <3>3. CASE v \in k.values \/ NOT(v) \in k.values
      <4>1. PICK l \in lits : v = l \/ v = NOT(l) \/ NOT(v) = l \/ NOT(v) = NOT(l)
        BY <2>3, <3>3
      <4>2. IDX(l) = v
        BY <3>2, <4>1, LitFacts
      <4> QED
        BY <4>2
    <3>4. CASE ~(v \in k.values) /\ ~(NOT(v) \in k.values)
      BY <3>1, <3>4 DEF Unassigned, IsTrue, IsFalse
    <3> QED
      BY <3>3, <3>4
  <2>4. CASE lits # {} /\ latest > p
    <3>1. latest \in 1..Len(k.queue) /\ search = k.queue[latest]
      BY <1>3, <2>2, <2>4
    <3>2. ASSUME NEW i \in 1..Len(k.queue),
                 ~(k.queue[i] \in values), ~(NOT(k.queue[i]) \in values)
          PROVE  i <= latest
      <4> HIDE DEF latest, behind, values
      <4> QED
        BY <1>2, <1>3, <2>1, <2>3, <2>4, <3>1, <3>2
    <3> HIDE DEF latest, values, search
    <3> QED
      BY <3>1, <3>2
  <2>5. CASE ~(lits # {} /\ latest > p)
    <3>1. search = k.queue[p]
      BY <2>1, <2>2, <2>5
    <3>2. ASSUME NEW i \in 1..Len(k.queue),
                 ~(k.queue[i] \in values), ~(NOT(k.queue[i]) \in values)
          PROVE  i <= p
      <4>1. lits # {} => latest \in 1..Len(k.queue)
        BY <1>3
      <4> HIDE DEF latest, behind, values
      <4> QED
        BY <1>2, <1>3, <2>1, <2>3, <2>5, <3>2, <4>1
    <3> HIDE DEF latest, values, search
    <3> QED
      BY <3>1, <3>2
  <2> QED
    BY <2>4, <2>5
<1> HIDE DEF values, search, u
<1>6. u \in Kittens /\ u.values = values /\ u.search = search /\ u.queue = k.queue
  BY <1>1, <1>4 DEF Kittens
<1>7. OnlySearched(k, u) /\ u.trail = k.trail
  BY <1>1 DEF OnlySearched, Kittens
<1>8. QueueWell(u)
  <2>1. \A v : v \in Unassigned(u) => ~(v \in values) /\ ~(NOT(v) \in values)
    BY <1>6 DEF Unassigned, IsTrue, IsFalse
  <2> QED
    BY <1>5, <1>6, <2>1 DEF QueueWell
<1> QED
  BY <1>6, <1>7, <1>8 DEF u, values

(* Dropping all values. *)
LEMMA CompletelyBacktrackEffect ==
  ASSUME NEW k \in Kittens, Static(k)
  PROVE  /\ CompletelyBacktrack(k) \in Kittens
         /\ OnlySearched(k, CompletelyBacktrack(k))
         /\ Cleared(CompletelyBacktrack(k))
         /\ Static(CompletelyBacktrack(k))
<1> DEFINE units  == {Klause(k, k.units[i]).lits[1] : i \in 1..Len(k.units)}
           undone == ToSet(k.trail) \cup (units \cap k.values)
           u == Unassign(k, undone)
           c == CompletelyBacktrack(k)
<1>1. c = [u EXCEPT !.trail = <<>>, !.propagated = 0, !.level = 0]
  BY DEF CompletelyBacktrack
<1>2. /\ QueueWell(k) /\ ValuesWell(k) /\ KnownWell(k) /\ FailedWell(k)
      /\ Clausal(k) /\ UnitsListed(k, Len(k.klauses))
  BY DEF Static, Orderly, Clausal
<1>3. k.values \in SUBSET LITS /\ k.trail \in Seq(LITS) /\ k.units \in Seq(Nat)
  BY DEF Kittens
<1>4. undone \in SUBSET LITS /\ \A l \in undone : IDX(l) \in Knows(k)
  <2>1. ToSet(k.trail) \subseteq LITS
    BY <1>3, SetOfSeq
  <2> QED
    BY <1>2, <1>3, <2>1 DEF KnownWell, ValuesWell
<1>5. \A l \in k.values : l \in undone \/ \E m \in undone : l = NOT(m)
  <2> SUFFICES ASSUME NEW l \in k.values
               PROVE  l \in undone \/ \E m \in undone : l = NOT(m)
    OBVIOUS
  <2>1. l \in LITS /\ NOT(NOT(l)) = l
    BY <1>3, LitFacts
  <2>2. CASE l \in ToSet(k.trail) \/ NOT(l) \in ToSet(k.trail)
    BY <2>1, <2>2
  <2>3. ASSUME NEW ref \in Refs(k), Klause(k, ref).lits = <<l>>
        PROVE  l \in undone
    <3>1. Len(Klause(k, ref).lits) = 1 /\ Klause(k, ref).lits[1] = l
      BY <2>3
    <3>2. ref \in ToSet(k.units)
      BY <1>2, <3>1 DEF UnitsListed, Refs
    <3>3. PICK i \in 1..Len(k.units) : k.units[i] = ref
      BY <1>3, <3>2, SetOfSeq
    <3>4. l \in units
      BY <3>1, <3>3
    <3> QED
      BY <3>4
  <2> QED
    BY <1>2, <2>2, <2>3 DEF ValuesWell
<1> HIDE DEF undone, u, c
<1>6. /\ u \in Kittens /\ OnlySearched(k, u) /\ QueueWell(u)
      /\ u.values = k.values \ (undone \cup {NOT(l) : l \in undone})
  BY <1>2, <1>4, UnassignEffect DEF u
<1>7. u.values = {}
  <2> SUFFICES ASSUME NEW x \in u.values
               PROVE  FALSE
    OBVIOUS
  <2>1. /\ x \in k.values /\ x \notin undone
        /\ \A m \in undone : x # NOT(m)
    BY <1>6, Zenon
  <2> QED
    BY <1>5, <2>1
<1>8. c \in Kittens
  <2>1. <<>> \in Seq(LITS) /\ 0 \in Nat
    OBVIOUS
  <2>2. u \in Kittens
    BY <1>6
  <2> QED
    BY <1>1, <2>1, <2>2 DEF Kittens
<1>9. /\ OnlySearched(u, c) /\ c.values = u.values /\ c.search = u.search
      /\ c.trail = <<>> /\ c.propagated = 0 /\ c.level = 0
  BY <1>1, <1>6 DEF Kittens, OnlySearched
<1>10. OnlySearched(k, c)
  BY <1>6, <1>9 DEF OnlySearched
<1>11. Clausal(c)
  BY <1>2, <1>10, ClausalFrame DEF OnlySearched
<1>12. QueueWell(c)
  BY <1>6, <1>9, QueueFrame DEF OnlySearched
<1>13. ToSet(c.trail) = {}
  BY <1>9 DEF ToSet
<1>14. ValuesWell(c) /\ KnownWell(c) /\ FailedWell(c)
  BY <1>2, <1>7, <1>9, <1>10, <1>13 DEF ValuesWell, KnownWell, FailedWell, OnlySearched, Knows
<1> QED
  <2>1. Watched(c, Len(c.klauses))
    BY <1>10, WatchedFrame DEF OnlySearched, Static
  <2> QED
    BY <1>7, <1>8, <1>9, <1>10, <1>11, <1>12, <1>14, <2>1 DEF Cleared, Static, Orderly, c

(* Going back to a level that was reached before. *)
LEMMA BacktrackSize ==
  ASSUME NEW k \in Kittens, TrailWell(k), NEW jump \in Nat,
         jump = 0 \/ \E i \in 1..Len(k.trail) : k.levelOf[IDX(k.trail[i])] = jump,
         NEW size \in 0..Len(k.trail), size # 0 => k.levelOf[IDX(k.trail[size])] = jump,
         \A j \in 1..Len(k.trail) : k.levelOf[IDX(k.trail[j])] = jump => j <= size
  PROVE  /\ size \in 0..Len(k.trail)
         /\ \A i \in 1..Len(k.trail) : i <= size <=> k.levelOf[IDX(k.trail[i])] <= jump
<1>1. Len(k.trail) \in Nat /\ k.levelOf \in [Vars -> Nat]
      /\ \A i \in 1..Len(k.trail) : k.levelOf[IDX(k.trail[i])] \in Nat
  <2>1. k.trail \in Seq(LITS) /\ k.levelOf \in [Vars -> Nat]
    BY DEF Kittens
  <2> QED
    BY <2>1, LitFacts, ElementOfSeq, LenProperties
<1>2. CASE size = 0
  <2>1. jump = 0 /\ \A i \in 1..Len(k.trail) : k.levelOf[IDX(k.trail[i])] # jump
    BY <1>1, <1>2
  <2> QED
    BY <1>1, <1>2, <2>1
<1>3. CASE size # 0
  <2>1. size \in 1..Len(k.trail) /\ k.levelOf[IDX(k.trail[size])] = jump
    BY <1>3
  <2>2. ASSUME NEW i \in 1..Len(k.trail), i <= size
        PROVE  k.levelOf[IDX(k.trail[i])] <= jump
    BY <2>1, <2>2 DEF TrailWell
  <2>3. ASSUME NEW i \in 1..Len(k.trail), k.levelOf[IDX(k.trail[i])] <= jump, ~(i <= size)
        PROVE  FALSE
    <3>1. jump <= k.levelOf[IDX(k.trail[i])]
      <4>1. size <= i
        BY <1>1, <2>1, <2>3
      <4> QED
        BY <2>1, <4>1 DEF TrailWell
    <3>2. k.levelOf[IDX(k.trail[i])] = jump
      BY <1>1, <2>3, <3>1
    <3> QED
      BY <2>3, <3>2
  <2> QED
    BY <1>1, <2>1, <2>2, <2>3
<1> QED
  BY <1>2, <1>3

BackAt(k, jump, c) ==
  /\ c \in Kittens
  /\ OnlySearched(k, c)
  /\ c.level = jump
  /\ c.propagated = Len(c.trail)
  /\ c.values = {l \in k.values : k.levelOf[IDX(l)] <= jump}
  /\ Len(c.trail) <= Len(k.trail)
  /\ \A i \in 1..Len(c.trail) : c.trail[i] = k.trail[i]
  /\ \A i \in 1..Len(k.trail) : i <= Len(c.trail) <=> k.levelOf[IDX(k.trail[i])] <= jump

LEMMA BacktrackEffect ==
  ASSUME NEW k \in Kittens, Static(k), TrailWell(k), NEW jump \in Nat,
         \A l \in k.values : k.levelOf[IDX(l)] # 0 => l \in ToSet(k.trail),
         jump = 0 \/ \E i \in 1..Len(k.trail) : k.levelOf[IDX(k.trail[i])] = jump
  PROVE  BackAt(k, jump, Backtrack(k, jump)) /\ Static(Backtrack(k, jump))
<1> DEFINE onJump == {i \in 1..Len(k.trail) : k.levelOf[IDX(k.trail[i])] = jump}
           size   == CHOOSE i \in onJump \cup {0} : \A j \in onJump : j <= i
           undone == {k.trail[i] : i \in size + 1 .. Len(k.trail)}
           u == Unassign(k, undone)
           c == Backtrack(k, jump)
<1>1. c = [u EXCEPT !.trail = SubSeq(@, 1, size), !.propagated = size, !.level = jump]
  BY DEF Backtrack
<1>2. /\ size \in 0..Len(k.trail)
      /\ \A i \in 1..Len(k.trail) : i <= size <=> k.levelOf[IDX(k.trail[i])] <= jump
  <2>1. Len(k.trail) \in Nat /\ onJump \in SUBSET (1..Len(k.trail))
    BY LenProperties DEF Kittens
  <2>2. \E i \in onJump \cup {0} : \A j \in onJump : j <= i
    <3>1. CASE onJump = {}
      BY <3>1
    <3>2. CASE onJump # {}
      <4> HIDE DEF onJump
      <4> QED
        BY <2>1, <3>2, LastOf
    <3> QED
      BY <3>1, <3>2
  <2>3. size \in onJump \cup {0} /\ \A j \in onJump : j <= size
    <3> HIDE DEF onJump
    <3> QED
      BY <2>2
  <2>4. /\ size \in 0..Len(k.trail)
        /\ size # 0 => k.levelOf[IDX(k.trail[size])] = jump
        /\ \A j \in 1..Len(k.trail) : k.levelOf[IDX(k.trail[j])] = jump => j <= size
    <3> HIDE DEF size
    <3> QED
      BY <2>1, <2>3
  <2> HIDE DEF size, onJump
  <2> QED
    BY <2>4, BacktrackSize
<1> HIDE DEF size
<1>3. /\ QueueWell(k) /\ ValuesWell(k) /\ KnownWell(k) /\ FailedWell(k) /\ Clausal(k)
  BY DEF Static, Orderly
<1>4. /\ k.values \in SUBSET LITS /\ k.trail \in Seq(LITS) /\ Len(k.trail) \in Nat
      /\ ToSet(k.trail) = {k.trail[i] : i \in 1..Len(k.trail)}
      /\ \A i \in 1..Len(k.trail) : k.trail[i] \in LITS
  <2>1. k.values \in SUBSET LITS /\ k.trail \in Seq(LITS)
    BY DEF Kittens
  <2> QED
    BY <2>1, SetOfSeq, LenProperties, ElementOfSeq
<1>5. \A l \in undone : \E i \in 1..Len(k.trail) : i > size /\ k.trail[i] = l
  BY <1>2, <1>4
<1>6. undone \in SUBSET LITS /\ \A l \in undone : IDX(l) \in Knows(k)
  BY <1>3, <1>4, <1>5 DEF KnownWell
<1>7. \A i \in 1..Len(k.trail) : i > size => k.trail[i] \in undone
  BY <1>2, <1>4
<1> HIDE DEF undone, u, c
<1>8. /\ u \in Kittens /\ OnlySearched(k, u) /\ QueueWell(u) /\ u.trail = k.trail
      /\ u.values = k.values \ (undone \cup {NOT(l) : l \in undone})
  BY <1>3, <1>6, UnassignEffect DEF u
<1>9. u.values = {l \in k.values : k.levelOf[IDX(l)] <= jump}
  <2>1. ASSUME NEW l \in k.values, l \in undone \cup {NOT(m) : m \in undone}
        PROVE  ~(k.levelOf[IDX(l)] <= jump)
    <3>1. PICK m \in undone : l = m \/ l = NOT(m)
      BY <2>1
    <3>2. PICK i \in 1..Len(k.trail) : i > size /\ k.trail[i] = m
      BY <1>5
    <3>3. IDX(l) = IDX(m)
      BY <1>6, <3>1, LitFacts
    <3>4. ~(i <= size)
      BY <1>2, <1>4, <3>2
    <3> QED
      BY <1>2, <3>2, <3>3, <3>4
  <2>2. ASSUME NEW l \in k.values, ~(k.levelOf[IDX(l)] <= jump)
        PROVE  l \in undone
    <3>1. k.levelOf[IDX(l)] # 0
      BY <2>2
    <3>2. PICK i \in 1..Len(k.trail) : k.trail[i] = l
      BY <1>4, <3>1
    <3>3. i > size
      BY <1>2, <1>4, <2>2, <3>2
    <3> QED
      BY <1>7, <3>2, <3>3
  <2> QED
    BY <1>8, <2>1, <2>2
<1>10. /\ SubSeq(k.trail, 1, size) \in Seq(LITS) /\ Len(SubSeq(k.trail, 1, size)) = size
       /\ \A i \in 1..size : SubSeq(k.trail, 1, size)[i] = k.trail[i]
  <2>1. \A i \in 1..size : i \in 1..Len(k.trail)
    BY <1>2, <1>4
  <2> QED
    BY <1>2, <1>4, <2>1, SubSeqProperties
<1>11. c \in Kittens
  <2>1. c = [u EXCEPT !.trail = SubSeq(k.trail, 1, size), !.propagated = size, !.level = jump]
    BY <1>1, <1>8
  <2>2. size \in Nat
    BY <1>2, <1>4
  <2> QED
    BY <1>8, <1>10, <2>1, <2>2 DEF Kittens
<1>12. /\ OnlySearched(u, c) /\ c.values = u.values /\ c.search = u.search
       /\ c.trail = SubSeq(k.trail, 1, size) /\ c.propagated = size /\ c.level = jump
  BY <1>1, <1>8 DEF Kittens, OnlySearched
<1>13. OnlySearched(k, c)
  BY <1>8, <1>12 DEF OnlySearched
<1>14. BackAt(k, jump, c)
  BY <1>2, <1>4, <1>9, <1>10, <1>11, <1>12, <1>13 DEF BackAt
<1>15. Clausal(c)
  BY <1>3, <1>13, ClausalFrame DEF OnlySearched
<1>16. QueueWell(c)
  <2>1. c.queue = u.queue /\ c.search = u.search /\ u.values \subseteq c.values
    BY <1>12 DEF OnlySearched
  <2>2. QueueWell(u)
    BY <1>8
  <2> QED
    BY <2>1, <2>2, QueueFrame
<1>17. ToSet(c.trail) = {c.trail[i] : i \in 1..Len(c.trail)}
  <2>1. c.trail \in Seq(LITS)
    BY <1>11 DEF Kittens
  <2> QED
    BY <2>1, SetOfSeq
<1>18. ToSet(c.trail) \subseteq ToSet(k.trail)
  BY <1>4, <1>14, <1>17 DEF BackAt
<1>19. KnownWell(c) /\ FailedWell(c)
  BY <1>3, <1>13, <1>18 DEF KnownWell, FailedWell, OnlySearched, Knows
<1>20. ValuesWell(c)
  <2> SUFFICES ASSUME NEW l \in c.values
               PROVE  /\ IDX(l) \in Knows(c)
                      /\ NOT(l) \notin c.values
                      /\ \/ l \in ToSet(c.trail)
                         \/ \E ref \in Refs(c) : Klause(c, ref).lits = <<l>>
    BY DEF ValuesWell
  <2>1. /\ l \in k.values /\ k.levelOf[IDX(l)] <= jump
        /\ c.values \subseteq k.values
    BY <1>14 DEF BackAt
  <2>2. /\ IDX(l) \in Knows(k) /\ NOT(l) \notin k.values
        /\ \/ l \in ToSet(k.trail)
           \/ NOT(l) \in ToSet(k.trail)
           \/ \E ref \in Refs(k) : Klause(k, ref).lits = <<l>>
    BY <1>3, <2>1 DEF ValuesWell
  <2>3. NOT(l) \notin ToSet(k.trail)
    BY <1>4, <2>2 DEF TrailWell
  <2>4. ASSUME NEW i \in 1..Len(k.trail), k.trail[i] = l
        PROVE  l \in ToSet(c.trail)
    <3>1. i <= Len(c.trail)
      BY <1>14, <2>1, <2>4 DEF BackAt
    <3>2. i \in 1..Len(c.trail) /\ c.trail[i] = l
      BY <1>10, <1>12, <2>4, <3>1
    <3> QED
      BY <1>17, <3>2
  <2>5. Knows(c) = Knows(k) /\ Refs(c) = Refs(k) /\ \A ref : Klause(c, ref) = Klause(k, ref)
    BY <1>13, OnlySearchedFrame
  <2> QED
    BY <1>4, <2>1, <2>2, <2>3, <2>4, <2>5
<1> QED
  <2>1. Watched(c, Len(c.klauses))
    BY <1>13, WatchedFrame DEF OnlySearched, Static
  <2> QED
    BY <1>14, <1>15, <1>16, <1>19, <1>20, <2>1 DEF Static, Orderly, c

-----------------------------------------------------------------------------
(* The decision queue. *)

(* Nothing but the queue and the search variable differs. *)
OnlyQueued(k, c) ==
  /\ c.status = k.status /\ c.antecedents = k.antecedents /\ c.learned = k.learned
  /\ c.klauses = k.klauses /\ c.endOriginal = k.endOriginal /\ c.units = k.units
  /\ c.watches = k.watches /\ c.values = k.values /\ c.level = k.level
  /\ c.levelOf = k.levelOf /\ c.reason = k.reason /\ c.trail = k.trail
  /\ c.propagated = k.propagated /\ c.phases = k.phases
  /\ c.assumptions = k.assumptions /\ c.failed = k.failed /\ c.failing = k.failing
  /\ c.inconsistent = k.inconsistent /\ c.core = k.core

LEMMA QueueType ==
  ASSUME NEW k \in Kittens
  PROVE  /\ k.queue \in Seq(Vars) /\ Len(k.queue) \in Nat
         /\ Knows(k) = {k.queue[i] : i \in 1..Len(k.queue)}
         /\ \A i \in 1..Len(k.queue) : k.queue[i] \in Vars
         /\ k.queue # <<>> <=> Len(k.queue) > 0
         /\ k.queue # <<>> => Len(k.queue) \in 1..Len(k.queue)
<1>1. k.queue \in Seq(Vars)
  BY DEF Kittens
<1>2. Len(k.queue) \in Nat /\ (k.queue # <<>> <=> Len(k.queue) > 0)
  BY <1>1, EmptySeq, LenProperties
<1> QED
  BY <1>1, <1>2, SetOfSeq, ElementOfSeq DEF Knows

LEMMA ClausalKnows ==
  ASSUME NEW k \in Kittens, NEW c \in Kittens, Clausal(k), OnlyQueued(k, c), Knows(k) \subseteq Knows(c)
  PROVE  Clausal(c)
<1>1. /\ c.klauses = k.klauses /\ c.units = k.units /\ c.watches = k.watches
      /\ c.endOriginal = k.endOriginal /\ c.learned = k.learned
      /\ c.antecedents = k.antecedents /\ c.inconsistent = k.inconsistent
  BY DEF OnlyQueued
<1>2. ClausesWell(c) /\ UnitsListed(c, Len(c.klauses))
  BY <1>1 DEF Clausal, ClausesWell, UnitsListed, Refs, Klause
<1>4. Derived(c)
  BY <1>1 DEF Clausal, Derived, Follows, SatisfiesAll, Originals, Refs, Klause, Lits
<1>5. k.queue # <<>> => c.queue # <<>>
  <2> SUFFICES ASSUME k.queue # <<>>
               PROVE  c.queue # <<>>
    OBVIOUS
  <2>1. k.queue[Len(k.queue)] \in Knows(k)
    BY QueueType
  <2>2. PICK i \in 1..Len(c.queue) : c.queue[i] = k.queue[Len(k.queue)]
    BY <2>1, QueueType
  <2> QED
    BY <2>2, QueueType
<1>6. InconsistentWell(c)
  BY <1>1, <1>5 DEF Clausal, InconsistentWell, SatisfiesAll, Originals, Refs, Klause, Lits
<1> QED
  BY <1>2, <1>4, <1>6 DEF Clausal

LEMMA StaticKnows ==
  ASSUME NEW k \in Kittens, NEW c \in Kittens, Static(k), OnlyQueued(k, c),
         Knows(k) \subseteq Knows(c), QueueWell(c)
  PROVE  Static(c)
<1>1. Clausal(c)
  BY ClausalKnows DEF Static, Orderly
<1>2. /\ c.klauses = k.klauses /\ c.values = k.values /\ c.trail = k.trail
      /\ c.assumptions = k.assumptions /\ c.failed = k.failed /\ c.failing = k.failing
      /\ c.status = k.status
  BY DEF OnlyQueued
<1>3. ValuesWell(c)
  BY <1>2 DEF Static, Orderly, ValuesWell, Refs, Klause
<1>4. KnownWell(c) /\ FailedWell(c)
  BY <1>2 DEF Static, Orderly, KnownWell, FailedWell
<1>5. Watched(c, Len(c.klauses))
  BY WatchedFrame DEF OnlyQueued, Static
<1> QED
  BY <1>1, <1>3, <1>4, <1>5 DEF Static, Orderly

(* The search variable set to the last one. *)
LEMMA SearchLastEffect ==
  ASSUME NEW k \in Kittens, k.queue # <<>>,
         \A i, j \in 1..Len(k.queue) : k.queue[i] = k.queue[j] => i = j
  PROVE  /\ SearchLast(k) \in Kittens /\ OnlyQueued(k, SearchLast(k))
         /\ SearchLast(k).queue = k.queue /\ QueueWell(SearchLast(k))
<1> DEFINE c == SearchLast(k)
           n == Len(k.queue)
<1>1. n \in 1..n /\ k.queue[n] \in Vars
  BY QueueType
<1>2. c = [k EXCEPT !.search = k.queue[n]]
  BY DEF SearchLast, Last
<1> HIDE DEF c
<1>3. c \in Kittens
  BY <1>1, <1>2 DEF Kittens
<1>4. c.queue = k.queue /\ c.search = k.queue[n] /\ OnlyQueued(k, c)
  BY <1>2 DEF Kittens, OnlyQueued
<1>5. \A i \in 1..n : i <= n
  BY <1>1
<1>6. QueueWell(c)
  BY <1>1, <1>4, <1>5 DEF QueueWell
<1> QED
  BY <1>3, <1>4, <1>6 DEF c

LEMMA EnqueueEffect ==
  ASSUME NEW k \in Kittens, NEW v \in Vars
  PROVE  /\ Enqueue(k, v) \in Kittens /\ OnlyQueued(k, Enqueue(k, v))
         /\ Enqueue(k, v).queue = Append(k.queue, v) /\ Enqueue(k, v).search = k.search
<1> DEFINE q == Append(k.queue, v)
           c == Enqueue(k, v)
<1>1. q \in Seq(Vars)
  BY QueueType, AppendProperties
<1>2. c = [k EXCEPT !.queue = q]
  BY DEF Enqueue
<1> HIDE DEF q, c
<1>3. c \in Kittens
  BY <1>1, <1>2 DEF Kittens
<1>4. OnlyQueued(k, c) /\ c.queue = q /\ c.search = k.search
  BY <1>2 DEF Kittens, OnlyQueued
<1> QED
  BY <1>3, <1>4 DEF c, q

(* A variable seen for the first time. *)
LEMMA ImportEffect ==
  ASSUME NEW k \in Kittens, Static(k), NEW lit \in LITS
  PROVE  /\ Import(k, lit) \in Kittens /\ OnlyQueued(k, Import(k, lit))
         /\ Knows(Import(k, lit)) = Knows(k) \cup {IDX(lit)}
         /\ Static(Import(k, lit))
<1> DEFINE v == IDX(lit)
           e == Enqueue(k, v)
           n == Len(k.queue)
<1>1. v \in Vars
  BY LitFacts
<1>2. CASE v \in Knows(k)
  <2>1. Import(k, lit) = k
    BY <1>2 DEF Import, Knows
  <2> QED
    BY <1>2, <2>1 DEF OnlyQueued
<1>3. CASE v \notin Knows(k)
  <2>1. /\ e \in Kittens /\ OnlyQueued(k, e) /\ e.queue = Append(k.queue, v)
    BY <1>1, EnqueueEffect
  <2>2. Import(k, lit) = SearchLast(e)
    BY <1>3 DEF Import, Knows
  <2> HIDE DEF v, e
  <2>3. /\ n \in Nat /\ Len(e.queue) = n + 1 /\ e.queue[n + 1] = v
        /\ \A i \in 1..n : e.queue[i] = k.queue[i] /\ k.queue[i] # v
        /\ e.queue # <<>>
    BY <1>1, <1>3, <2>1, QueueType, AppendProperties
  <2>4. \A i, j \in 1..Len(e.queue) : e.queue[i] = e.queue[j] => i = j
    <3>1. \A i \in 1 .. n + 1 : i = n + 1 \/ i \in 1..n
      BY <2>3
    <3>2. \A i, j \in 1..n : k.queue[i] = k.queue[j] => i = j
      BY DEF Static, Orderly, QueueWell
    <3> QED
      BY <2>3, <3>1, <3>2
  <2>5. /\ SearchLast(e) \in Kittens /\ OnlyQueued(e, SearchLast(e))
        /\ SearchLast(e).queue = e.queue /\ QueueWell(SearchLast(e))
    BY <2>1, <2>3, <2>4, SearchLastEffect
  <2>6. OnlyQueued(k, SearchLast(e))
    BY <2>1, <2>5 DEF OnlyQueued
  <2>7. Knows(SearchLast(e)) = Knows(k) \cup {v}
    BY <1>1, <2>1, <2>5, QueueType, SetOfAppend DEF Knows
  <2>8. Static(SearchLast(e))
    BY <2>5, <2>6, <2>7, StaticKnows
  <2> QED
    BY <2>2, <2>5, <2>6, <2>7, <2>8 DEF v
<1> QED
  BY <1>2, <1>3

LEMMA ImportAllEffect ==
  ASSUME NEW k \in Kittens, Static(k), NEW lits \in Seq(LITS)
  PROVE  /\ FoldLeft(Import, k, lits) \in Kittens /\ OnlyQueued(k, FoldLeft(Import, k, lits))
         /\ Knows(k) \subseteq Knows(FoldLeft(Import, k, lits))
         /\ \A i \in 1..Len(lits) : IDX(lits[i]) \in Knows(FoldLeft(Import, k, lits))
         /\ Static(FoldLeft(Import, k, lits))
<1> DEFINE Inv == [n \in 0..Len(lits) |->
                    {c \in Kittens : /\ OnlyQueued(k, c) /\ Static(c)
                                     /\ Knows(k) \subseteq Knows(c)
                                     /\ \A i \in 1..n : IDX(lits[i]) \in Knows(c)}]
<1>1. Len(lits) \in Nat /\ \A i \in 1..Len(lits) : lits[i] \in LITS
  BY ElementOfSeq, LenProperties
<1>2. k \in Inv[0]
  BY <1>1 DEF OnlyQueued
<1>3. ASSUME NEW n \in 1..Len(lits), NEW c \in Inv[n - 1]
      PROVE  Import(c, lits[n]) \in Inv[n]
  <2> DEFINE d == Import(c, lits[n])
  <2>1. n - 1 \in 0..Len(lits) /\ n \in 0..Len(lits) /\ \A i \in 1..n : i = n \/ i \in 1 .. n - 1
    BY <1>1
  <2>2. /\ c \in Kittens /\ OnlyQueued(k, c) /\ Static(c) /\ Knows(k) \subseteq Knows(c)
        /\ \A i \in 1 .. n - 1 : IDX(lits[i]) \in Knows(c)
    BY <2>1
  <2>3. /\ d \in Kittens /\ OnlyQueued(c, d) /\ Static(d)
        /\ Knows(d) = Knows(c) \cup {IDX(lits[n])}
    BY <1>1, <2>2, ImportEffect
  <2> HIDE DEF d
  <2>4. OnlyQueued(k, d)
    BY <2>2, <2>3 DEF OnlyQueued
  <2>5. \A i \in 1..n : IDX(lits[i]) \in Knows(d)
    BY <2>1, <2>2, <2>3
  <2> QED
    BY <2>1, <2>2, <2>3, <2>4, <2>5 DEF d
<1>4. FoldLeft(Import, k, lits) \in Inv[Len(lits)]
  <2> HIDE DEF Inv
  <2> QED
    BY <1>2, <1>3, ImportingInduction
<1> QED
  BY <1>1, <1>4

(* Moving a variable to the end. *)
LEMMA RemovedAt ==
  ASSUME NEW S, NEW s \in Seq(S), NEW p \in 1..Len(s)
  PROVE  /\ RemoveAt(s, p) \in Seq(S) /\ Len(RemoveAt(s, p)) = Len(s) - 1
         /\ \A i \in 1 .. Len(s) - 1 : RemoveAt(s, p)[i] = IF i < p THEN s[i] ELSE s[i + 1]
<1> DEFINE a == SubSeq(s, 1, p - 1)
           b == SubSeq(s, p + 1, Len(s))
<1>1. Len(s) \in Nat /\ \A i \in 1..Len(s) : s[i] \in S
  BY LenProperties, ElementOfSeq
<1>2. /\ a \in Seq(S) /\ Len(a) = p - 1
      /\ \A i \in 1 .. p - 1 : a[i] = s[i]
  <2>1. \A i \in 1 .. p - 1 : s[i] \in S
    BY <1>1
  <2>2. \A i \in 1 .. (p - 1) - 1 + 1 : a[i] = s[1 + i - 1]
    BY <1>1, <2>1, SubSeqProperties
  <2>3. a \in Seq(S) /\ Len(a) = IF 1 <= p - 1 THEN p - 1 - 1 + 1 ELSE 0
    BY <1>1, <2>1, SubSeqProperties
  <2> HIDE DEF a
  <2> QED
    BY <1>1, <2>2, <2>3
<1>3. /\ b \in Seq(S) /\ Len(b) = Len(s) - p
      /\ \A i \in 1 .. Len(s) - p : b[i] = s[p + i]
  <2>1. \A i \in p + 1 .. Len(s) : s[i] \in S
    BY <1>1
  <2>2. \A i \in 1 .. Len(s) - (p + 1) + 1 : b[i] = s[p + 1 + i - 1]
    BY <1>1, <2>1, SubSeqProperties
  <2>3. b \in Seq(S) /\ Len(b) = IF p + 1 <= Len(s) THEN Len(s) - (p + 1) + 1 ELSE 0
    BY <1>1, <2>1, SubSeqProperties
  <2> HIDE DEF b
  <2> QED
    BY <1>1, <2>2, <2>3
<1>4. RemoveAt(s, p) = a \o b
  BY DEF RemoveAt
<1> HIDE DEF a, b
<1>5. /\ a \o b \in Seq(S) /\ Len(a \o b) = Len(s) - 1
      /\ \A i \in 1 .. Len(s) - 1 : (a \o b)[i] = IF i <= p - 1 THEN a[i] ELSE b[i - (p - 1)]
  BY <1>1, <1>2, <1>3, ConcatProperties
<1>6. ASSUME NEW i \in 1 .. Len(s) - 1
      PROVE  (a \o b)[i] = IF i < p THEN s[i] ELSE s[i + 1]
  <2>1. CASE i <= p - 1
    <3>1. i \in 1 .. p - 1 /\ i < p
      BY <1>1, <2>1
    <3> QED
      BY <1>2, <1>5, <3>1
  <2>2. CASE ~(i <= p - 1)
    <3>1. /\ i - (p - 1) \in 1 .. Len(s) - p /\ ~(i < p)
          /\ p + (i - (p - 1)) = i + 1
      BY <1>1, <2>2
    <3>2. b[i - (p - 1)] = s[p + (i - (p - 1))]
      BY <1>3, <3>1
    <3> QED
      BY <1>5, <2>2, <3>1, <3>2
  <2> QED
    BY <2>1, <2>2
<1> QED
  BY <1>4, <1>5, <1>6

LEMMA MoveToFrontEffect ==
  ASSUME NEW k \in Kittens, QueueWell(k), NEW v \in Knows(k), v \notin Unassigned(k)
  PROVE  /\ MoveToFront(k, v) \in Kittens /\ OnlyQueued(k, MoveToFront(k, v))
         /\ Knows(MoveToFront(k, v)) = Knows(k)
         /\ QueueWell(MoveToFront(k, v))
<1>1. CASE v = Last(k.queue)
  BY <1>1 DEF MoveToFront, OnlyQueued
<1>2. CASE v # Last(k.queue)
  <2> DEFINE n == Len(k.queue)
             s == Stamp(k, v)
             q == RemoveAt(k.queue, s)
             d == Dequeue(k, v)
             c == Enqueue(d, v)
  <2>1. /\ n \in Nat /\ k.queue \in Seq(Vars) /\ v \in Vars
        /\ \A i, j \in 1..n : k.queue[i] = k.queue[j] => i = j
    BY QueueType DEF QueueWell
  <2>2. s \in 1..n /\ k.queue[s] = v
    <3>1. PICK i \in 1..n : k.queue[i] = v
      BY QueueType
    <3> QED
      BY <3>1, StampIs
  <2> HIDE DEF s
  <2>3. /\ q \in Seq(Vars) /\ Len(q) = n - 1
        /\ \A i \in 1 .. n - 1 : q[i] = IF i < s THEN k.queue[i] ELSE k.queue[i + 1]
    BY <2>1, <2>2, RemovedAt
  <2>4. d = [k EXCEPT !.queue = q]
    BY DEF Dequeue, s
  <2> HIDE DEF q, d
  <2>5. d \in Kittens
    BY <2>3, <2>4 DEF Kittens
  <2>6. OnlyQueued(k, d) /\ d.queue = q /\ d.search = k.search
    BY <2>4 DEF Kittens, OnlyQueued
  <2>7. /\ c \in Kittens /\ OnlyQueued(d, c) /\ c.queue = Append(q, v) /\ c.search = k.search
    BY <2>1, <2>5, <2>6, EnqueueEffect
  <2> HIDE DEF c
  <2>8. OnlyQueued(k, c)
    BY <2>6, <2>7 DEF OnlyQueued
  <2>9. /\ Len(c.queue) = n
        /\ \A i \in 1..n : c.queue[i] = IF i = n THEN v ELSE IF i < s THEN k.queue[i] ELSE k.queue[i + 1]
    <3>1. n - 1 + 1 = n /\ \A i \in 1..n : i = n \/ i \in 1 .. n - 1
      BY <2>1
    <3> QED
      BY <2>1, <2>3, <2>7, <3>1, AppendProperties
  \* Where an element was before, and where it is now.
  <2> DEFINE old(i) == IF i = n THEN s ELSE IF i < s THEN i ELSE i + 1
             new(i) == IF i = s THEN n ELSE IF i < s THEN i ELSE i - 1
  <2>10. \A i \in 1..n : old(i) \in 1..n /\ c.queue[i] = k.queue[old(i)]
    BY <2>1, <2>2, <2>9
  <2>11. \A i \in 1..n : new(i) \in 1..n /\ old(new(i)) = i /\ new(old(i)) = i
    BY <2>1, <2>2
  <2>12. \A i, j \in 1..n : i <= j /\ i # s => new(i) <= new(j)
    BY <2>1, <2>2
  <2> HIDE DEF old, new
  <2>13. Knows(c) = Knows(k)
    <3>1. Knows(c) = {c.queue[i] : i \in 1..n}
      BY <2>7, <2>9, QueueType
    <3>2. Knows(k) = {k.queue[i] : i \in 1..n}
      BY QueueType
    <3>3. ASSUME NEW x \in Knows(c)
          PROVE  x \in Knows(k)
      <4>1. PICK i \in 1..n : x = c.queue[i]
        BY <3>1
      <4> QED
        BY <2>10, <3>2, <4>1
    <3>4. ASSUME NEW x \in Knows(k)
          PROVE  x \in Knows(c)
      <4>1. PICK i \in 1..n : x = k.queue[i]
        BY <3>2
      <4>2. new(i) \in 1..n /\ x = c.queue[new(i)]
        BY <2>10, <2>11, <4>1
      <4> QED
        BY <3>1, <4>2
    <3> QED
      BY <3>3, <3>4
  <2>14. \A i, j \in 1..n : c.queue[i] = c.queue[j] => i = j
    BY <2>1, <2>10, <2>11
  <2>15. PICK p \in 1..n : /\ k.queue[p] = k.search
                           /\ \A i \in 1..n : k.queue[i] \in Unassigned(k) => i <= p
    <3>1. k.queue # <<>>
      BY QueueType
    <3> QED
      BY <3>1 DEF QueueWell
  <2>16. c.queue[new(p)] = c.search /\ new(p) \in 1..n
    BY <2>7, <2>10, <2>11, <2>15
  <2>17. Unassigned(c) = Unassigned(k)
    BY <2>8, <2>13 DEF Unassigned, Knows, IsTrue, IsFalse, OnlyQueued
  <2>18. ASSUME NEW i \in 1..n, c.queue[i] \in Unassigned(c)
         PROVE  i <= new(p)
    <3>1. old(i) \in 1..n /\ k.queue[old(i)] \in Unassigned(k) /\ old(i) # s
      BY <2>2, <2>10, <2>17, <2>18
    <3> QED
      BY <2>11, <2>12, <2>15, <3>1
  <2>19. QueueWell(c)
    BY <2>9, <2>14, <2>16, <2>18 DEF QueueWell
  <2>20. MoveToFront(k, v) = c
    BY <1>2 DEF MoveToFront, c, d
  <2> QED
    BY <2>7, <2>8, <2>13, <2>19, <2>20
<1> QED
  BY <1>1, <1>2

LEMMA BumpEffect ==
  ASSUME NEW k \in Kittens, Static(k), NEW analyzed \in Seq(Vars),
         \A i \in 1..Len(analyzed) : analyzed[i] \in Knows(k) /\ analyzed[i] \notin Unassigned(k)
  PROVE  /\ Bump(k, analyzed) \in Kittens /\ OnlyQueued(k, Bump(k, analyzed))
         /\ Knows(Bump(k, analyzed)) = Knows(k)
         /\ Static(Bump(k, analyzed))
<1> DEFINE I == {c \in Kittens : OnlyQueued(k, c) /\ Knows(c) = Knows(k) /\ QueueWell(c)}
           Inv == [n \in 0..Len(analyzed) |-> I]
<1>1. Len(analyzed) \in Nat
  BY LenProperties
<1>2. k \in Inv[0]
  BY <1>1 DEF OnlyQueued, Static, Orderly
<1>3. ASSUME NEW n \in 1..Len(analyzed), NEW c \in Inv[n - 1]
      PROVE  MoveToFront(c, analyzed[n]) \in Inv[n]
  <2> DEFINE d == MoveToFront(c, analyzed[n])
  <2>1. n - 1 \in 0..Len(analyzed) /\ n \in 0..Len(analyzed)
    BY <1>1
  <2>2. c \in Kittens /\ OnlyQueued(k, c) /\ Knows(c) = Knows(k) /\ QueueWell(c)
    BY <2>1
  <2>3. analyzed[n] \in Knows(c) /\ analyzed[n] \notin Unassigned(c)
    BY <2>2 DEF Unassigned, Knows, IsTrue, IsFalse, OnlyQueued
  <2>4. /\ d \in Kittens /\ OnlyQueued(c, d) /\ Knows(d) = Knows(c) /\ QueueWell(d)
    BY <2>2, <2>3, MoveToFrontEffect
  <2> HIDE DEF d
  <2>5. OnlyQueued(k, d)
    BY <2>2, <2>4 DEF OnlyQueued
  <2> QED
    BY <2>1, <2>2, <2>4, <2>5 DEF d
<1>4. FoldLeft(MoveToFront, k, analyzed) \in Inv[Len(analyzed)]
  <2> HIDE DEF Inv
  <2> QED
    BY <1>2, <1>3, BumpingInduction
<1>5. Bump(k, analyzed) \in I
  <2>1. Len(analyzed) \in 0..Len(analyzed)
    BY <1>1
  <2> QED
    BY <1>4, <2>1 DEF Bump
<1>6. Static(Bump(k, analyzed))
  BY <1>5, StaticKnows
<1> QED
  BY <1>5, <1>6

-----------------------------------------------------------------------------
(* Taking back an answer. *)

SameButCore(a, b) ==
  a.id = b.id /\ a.lits = b.lits /\ a.antecedents = b.antecedents /\ (a.learned <=> b.learned)

OnlyMarked(k, c) ==
  Len(c.klauses) = Len(k.klauses) /\ \A ref \in Refs(k) : SameButCore(Klause(k, ref), Klause(c, ref))

(* What the formula is, but for the flags of the core. *)
SameFormula(k, c) ==
  /\ OnlyMarked(k, c)
  /\ c.antecedents = k.antecedents /\ c.learned = k.learned
  /\ c.endOriginal = k.endOriginal /\ c.units = k.units
  /\ c.watches = k.watches /\ c.queue = k.queue /\ c.inconsistent = k.inconsistent

LEMMA MarkedKlauses ==
  ASSUME NEW k \in Kittens, NEW F, F \subseteq Nat,
         NEW c \in Kittens, c.klauses = [i \in 1..Len(k.klauses) |-> [k.klauses[i] EXCEPT !.core = i \in F]]
  PROVE  OnlyMarked(k, c) /\ \A ref \in Refs(k) : Klause(c, ref).core <=> ref \in F
<1>1. Len(k.klauses) \in Nat /\ Len(c.klauses) = Len(k.klauses)
  BY LenProperties DEF Kittens
<1>2. ASSUME NEW ref \in Refs(k)
      PROVE  SameButCore(Klause(k, ref), Klause(c, ref)) /\ (Klause(c, ref).core <=> ref \in F)
  <2>1. Klause(k, ref) \in Klauses /\ Klause(c, ref) = [Klause(k, ref) EXCEPT !.core = ref \in F]
    BY KlauseType DEF Refs, Klause
  <2> QED
    BY <2>1 DEF Klauses, SameButCore
<1> QED
  BY <1>1, <1>2 DEF OnlyMarked

LEMMA MarkedFrame ==
  ASSUME NEW k \in Kittens, NEW c \in Kittens, OnlyMarked(k, c), c.endOriginal = k.endOriginal,
         k.endOriginal <= Len(k.klauses)
  PROVE  /\ Refs(c) = Refs(k) /\ Originals(c) = Originals(k) /\ Originals(k) \subseteq Refs(k)
         /\ \A ref \in Refs(k) : Klause(c, ref).lits = Klause(k, ref).lits /\ Lits(c, ref) = Lits(k, ref)
<1>1. Refs(c) = Refs(k)
  BY DEF OnlyMarked, Refs
<1>2. \A ref \in Refs(k) : Klause(c, ref).lits = Klause(k, ref).lits /\ Lits(c, ref) = Lits(k, ref)
  BY DEF OnlyMarked, SameButCore, Lits
<1>3. k.endOriginal \in Nat /\ Len(k.klauses) \in Nat
  BY LenProperties DEF Kittens
<1>4. Originals(k) \subseteq Refs(k)
  BY <1>3 DEF Originals, Refs
<1>5. 1..k.endOriginal \subseteq Refs(k)
  BY <1>3 DEF Refs
<1>6. Originals(c) = Originals(k)
  BY <1>5 DEF OnlyMarked, SameButCore, Originals
<1> QED
  BY <1>1, <1>2, <1>4, <1>6

LEMMA MarkedWatched ==
  ASSUME NEW k \in Kittens, NEW c \in Kittens, Watched(k, Len(k.klauses)), SameFormula(k, c),
         k.endOriginal <= Len(k.klauses)
  PROVE  Watched(c, Len(c.klauses))
<1>1. /\ Refs(c) = Refs(k)
      /\ \A ref \in Refs(k) : Klause(c, ref).lits = Klause(k, ref).lits /\ Lits(c, ref) = Lits(k, ref)
  BY MarkedFrame DEF SameFormula
<1>2. Len(c.klauses) = Len(k.klauses) /\ Len(k.klauses) \in Nat /\ c.watches = k.watches
  BY LenProperties DEF SameFormula, OnlyMarked, Kittens
<1>3. Watched(c, Len(c.klauses))
  <2> SUFFICES ASSUME NEW l \in LITS
               PROVE  WatchListOf(c, WatchedRefs(c, Len(c.klauses), l), l, c.watches[l])
    BY DEF Watched
  <2>1. WatchListOf(k, WatchedRefs(k, Len(k.klauses), l), l, k.watches[l])
    BY DEF Watched
  <2>2. WatchedRefs(c, Len(c.klauses), l) = WatchedRefs(k, Len(k.klauses), l)
    BY <1>1, <1>2 DEF WatchedRefs, Large, Refs
  <2>3. WatchedRefs(k, Len(k.klauses), l) \subseteq Refs(k)
    BY DEF WatchedRefs, Refs
  <2>4. \A ref \in WatchedRefs(k, Len(k.klauses), l) : Lits(c, ref) = Lits(k, ref)
    BY <1>1, <2>3
  <2>5. WatchListOf(c, WatchedRefs(k, Len(k.klauses), l), l, k.watches[l])
    BY <2>1, <2>4, WatchListFrame
  <2> QED
    BY <1>2, <2>2, <2>5
<1> QED
  BY <1>3

LEMMA MarkedClausal ==
  ASSUME NEW k \in Kittens, NEW c \in Kittens, Clausal(k), SameFormula(k, c)
  PROVE  Clausal(c)
<1>1. /\ Refs(c) = Refs(k) /\ Originals(c) = Originals(k) /\ Originals(k) \subseteq Refs(k)
      /\ \A ref \in Refs(k) : Klause(c, ref).lits = Klause(k, ref).lits /\ Lits(c, ref) = Lits(k, ref)
  BY MarkedFrame DEF Clausal, Derived, SameFormula
<1>2. /\ Len(c.klauses) = Len(k.klauses) /\ Len(k.klauses) \in Nat
      /\ c.units = k.units /\ c.watches = k.watches /\ c.queue = k.queue
      /\ c.inconsistent = k.inconsistent /\ c.endOriginal = k.endOriginal
      /\ c.learned = k.learned /\ c.antecedents = k.antecedents
  BY LenProperties DEF SameFormula, OnlyMarked, Kittens
<1>3. ClausesWell(c)
  BY <1>1, <1>2 DEF Clausal, ClausesWell, Knows
<1>4. UnitsListed(c, Len(c.klauses))
  BY <1>1, <1>2 DEF Clausal, UnitsListed, Refs
<1>6. Derived(c)
  <2> SUFFICES ASSUME NEW ref \in Refs(c)
               PROVE  IF Klause(c, ref).learned
                      THEN /\ c.learned
                           /\ Follows(c, Originals(c), Lits(c, ref))
                           /\ c.antecedents => /\ Klause(c, ref).antecedents \subseteq 1 .. ref - 1
                                               /\ Follows(c, Klause(c, ref).antecedents, Lits(c, ref))
                      ELSE ref <= c.endOriginal /\ Klause(c, ref).antecedents = {}
    BY <1>2 DEF Clausal, Derived
  <2>1. /\ Klause(c, ref).antecedents = Klause(k, ref).antecedents
        /\ Klause(c, ref).learned <=> Klause(k, ref).learned
        /\ Lits(c, ref) = Lits(k, ref) /\ ref \in Refs(k)
    BY <1>1 DEF SameFormula, OnlyMarked, SameButCore
  <2>2. CASE ~Klause(k, ref).learned
    BY <1>2, <2>1, <2>2 DEF Clausal, Derived
  <2>3. CASE Klause(k, ref).learned
    <3>1. /\ k.learned
          /\ Follows(k, Originals(k), Lits(k, ref))
          /\ k.antecedents => /\ Klause(k, ref).antecedents \subseteq 1 .. ref - 1
                              /\ Follows(k, Klause(k, ref).antecedents, Lits(k, ref))
      BY <2>1, <2>3 DEF Clausal, Derived
    <3>2. Follows(c, Originals(c), Lits(c, ref))
      BY <1>1, <2>1, <3>1, FollowsFrame
    <3>3. 1 .. ref - 1 \subseteq Refs(k)
      BY <1>2, <2>1 DEF Refs
    <3>4. ASSUME k.antecedents
          PROVE  Follows(c, Klause(k, ref).antecedents, Lits(k, ref))
      <4>1. \A r \in Klause(k, ref).antecedents : Lits(c, r) = Lits(k, r)
        BY <1>1, <3>1, <3>3, <3>4
      <4> QED
        BY <3>1, <3>4, <4>1, FollowsFrame
    <3> QED
      BY <1>2, <2>1, <2>3, <3>1, <3>2, <3>4
  <2> QED
    BY <2>2, <2>3
<1>7. InconsistentWell(c)
  <2>1. \A M : SatisfiesAll(c, M, Originals(c)) <=> SatisfiesAll(k, M, Originals(k))
    BY <1>1, SatisfiesFrame
  <2> QED
    BY <1>1, <1>2, <2>1 DEF Clausal, InconsistentWell
<1> QED
  BY <1>3, <1>4, <1>6, <1>7 DEF Clausal

(* Without assumptions, values and answer: what the code calls reset. *)
Fresh(k, c) ==
  /\ c \in Kittens
  /\ SameFormula(k, c)
  /\ Cleared(c)
  /\ Static(c)
  /\ c.status = 0
  /\ c.assumptions = <<>>

LEMMA ResetIncrementalEffect ==
  ASSUME NEW k \in Kittens, Static(k)
  PROVE  Fresh(k, ResetIncremental(k))
<1> DEFINE undone == CompletelyBacktrack(k)
           free   == IF k.assumptions # <<>> THEN ResetAssumptions(undone) ELSE undone
           whole  == IF k.status = 21 THEN ResetCore(free) ELSE free
           c      == ResetIncremental(k)
<1>1. /\ undone \in Kittens /\ OnlySearched(k, undone) /\ Cleared(undone) /\ Static(undone)
  BY CompletelyBacktrackEffect
<1>2. c = [whole EXCEPT !.status = 0]
  BY DEF ResetIncremental
<1> HIDE DEF undone
<1>3. /\ free \in Kittens /\ free.assumptions = <<>> /\ free.failed = {} /\ free.failing = INVALID
      /\ Cleared(free)
      /\ free.search = undone.search /\ free.queue = undone.queue
      /\ free.klauses = undone.klauses /\ free.antecedents = undone.antecedents
      /\ free.learned = undone.learned /\ free.endOriginal = undone.endOriginal
      /\ free.units = undone.units /\ free.watches = undone.watches
      /\ free.inconsistent = undone.inconsistent
  <2>1. CASE k.assumptions # <<>>
    <3> DEFINE failed == undone.failed \ ToSet(undone.assumptions)
    <3>1. failed = {}
      BY <1>1 DEF Static, Orderly, FailedWell
    <3>2. free = [undone EXCEPT !.assumptions = <<>>, !.failed = failed, !.failing = INVALID]
      BY <2>1 DEF ResetAssumptions
    <3>3. <<>> \in Seq(LITS) /\ {} \in SUBSET LITS /\ INVALID \in Nat
      BY DEF INVALID
    <3> HIDE DEF failed, free
    <3>4. free \in Kittens
      BY <1>1, <3>1, <3>2, <3>3 DEF Kittens
    <3> QED
      BY <1>1, <3>1, <3>2, <3>4 DEF Kittens, Cleared
  <2>2. CASE k.assumptions = <<>>
    <3>1. free = undone /\ undone.assumptions = <<>>
      BY <1>1, <2>2 DEF OnlySearched
    <3>2. ToSet(<<>>) = {}
      BY DEF ToSet
    <3>3. undone.failed = {} /\ undone.failing = INVALID
      BY <1>1, <3>1, <3>2 DEF Static, Orderly, FailedWell
    <3> QED
      BY <1>1, <3>1, <3>3
  <2> QED
    BY <2>1, <2>2
<1> HIDE DEF free
<1>4. /\ whole \in Kittens /\ OnlyMarked(free, whole)
      /\ whole.assumptions = free.assumptions /\ whole.failed = free.failed
      /\ whole.failing = free.failing /\ Cleared(whole)
      /\ whole.search = free.search /\ whole.queue = free.queue
      /\ whole.antecedents = free.antecedents
      /\ whole.learned = free.learned /\ whole.endOriginal = free.endOriginal
      /\ whole.units = free.units /\ whole.watches = free.watches
      /\ whole.inconsistent = free.inconsistent
  <2>1. CASE k.status # 21
    <3>1. whole = free
      BY <2>1
    <3> QED
      BY <1>3, <3>1 DEF OnlyMarked, SameButCore
  <2>2. CASE k.status = 21
    <3> DEFINE klauses == [i \in 1..Len(free.klauses) |-> [free.klauses[i] EXCEPT !.core = FALSE]]
    <3>1. whole = [free EXCEPT !.klauses = klauses, !.core = {}]
      BY <2>2 DEF ResetCore
    <3>2. klauses \in Seq(Klauses)
      <4>1. Len(free.klauses) \in Nat
        BY <1>3, LenProperties DEF Kittens
      <4>2. \A i \in 1..Len(free.klauses) : [free.klauses[i] EXCEPT !.core = FALSE] \in Klauses
        <5>1. \A i \in 1..Len(free.klauses) : free.klauses[i] \in Klauses
          BY <1>3, ElementOfSeq DEF Kittens
        <5> QED
          BY <5>1 DEF Klauses
      <4> QED
        BY <4>1, <4>2, IsASeq
    <3>3. Len(klauses) = Len(free.klauses)
          /\ \A ref \in 1..Len(free.klauses) : klauses[ref] = [free.klauses[ref] EXCEPT !.core = FALSE]
      <4>1. free.klauses \in Seq(Klauses)
        BY <1>3 DEF Kittens
      <4>2. Len(free.klauses) \in Nat
        BY <4>1, LenProperties
      <4> QED
        BY <4>2
    <3> HIDE DEF klauses, whole
    <3>4. whole \in Kittens /\ whole.klauses = klauses
      BY <1>3, <3>1, <3>2 DEF Kittens
    <3>5. OnlyMarked(free, whole)
      <4>1. ASSUME NEW ref \in Refs(free)
            PROVE  SameButCore(Klause(free, ref), Klause(whole, ref))
        <5>1. Klause(free, ref) \in Klauses
          BY <1>3, KlauseType
        <5>2. Klause(whole, ref) = [Klause(free, ref) EXCEPT !.core = FALSE]
          BY <3>3, <3>4 DEF Refs, Klause
        <5> QED
          BY <5>1, <5>2 DEF Klauses, SameButCore
      <4> QED
        BY <3>3, <3>4, <4>1 DEF OnlyMarked
    <3> QED
      BY <1>3, <3>1, <3>4, <3>5 DEF Kittens, Cleared
  <2> QED
    BY <2>1, <2>2
<1> HIDE DEF whole, c
<1>5. c \in Kittens
  BY <1>2, <1>4 DEF Kittens
<1>6. /\ c.klauses = whole.klauses
      /\ c.assumptions = whole.assumptions /\ c.failed = whole.failed
      /\ c.failing = whole.failing /\ Cleared(c) /\ c.status = 0
      /\ c.search = whole.search /\ c.queue = whole.queue
      /\ c.antecedents = whole.antecedents
      /\ c.learned = whole.learned /\ c.endOriginal = whole.endOriginal
      /\ c.units = whole.units /\ c.watches = whole.watches
      /\ c.inconsistent = whole.inconsistent /\ c.values = {} /\ c.trail = <<>>
  BY <1>2, <1>4 DEF Kittens, Cleared
<1>7. SameFormula(undone, c)
  <2>1. OnlyMarked(undone, c)
    BY <1>3, <1>4, <1>6 DEF OnlyMarked, Refs, Klause
  <2> QED
    BY <1>3, <1>4, <1>6, <2>1 DEF SameFormula
<1>8. SameFormula(k, c)
  <2>1. OnlyMarked(k, c)
    BY <1>1, <1>7 DEF SameFormula, OnlyMarked, OnlySearched, Refs, Klause
  <2> QED
    BY <1>1, <1>7, <2>1 DEF SameFormula, OnlySearched
<1>9. Clausal(c)
  BY <1>1, <1>5, <1>7, MarkedClausal DEF Static, Orderly
<1>10. QueueWell(c)
  <2>1. c.queue = undone.queue /\ c.search = undone.search /\ undone.values = {}
    BY <1>1, <1>3, <1>4, <1>6 DEF Cleared
  <2> QED
    BY <1>1, <2>1, QueueFrame DEF Static, Orderly
<1>11. ToSet(<<>>) = {}
  BY DEF ToSet
<1>12. ValuesWell(c) /\ KnownWell(c) /\ FailedWell(c)
  BY <1>3, <1>4, <1>6, <1>11 DEF ValuesWell, KnownWell, FailedWell
<1> QED
  <2>1. Watched(undone, Len(undone.klauses)) /\ undone.endOriginal <= Len(undone.klauses)
    BY <1>1 DEF Static, Orderly, Clausal, Derived
  <2>2. Watched(c, Len(c.klauses))
    BY <1>1, <1>5, <1>7, <2>1, MarkedWatched
  <2> QED
    BY <1>3, <1>4, <1>5, <1>6, <1>8, <1>9, <1>10, <1>12, <2>2 DEF Fresh, Static, Orderly, c

LEMMA ReusedEffect ==
  ASSUME NEW k \in Kittens, Static(k)
  PROVE  /\ Reused(k) \in Kittens /\ Static(Reused(k)) /\ SameFormula(k, Reused(k))
         /\ Reused(k).status = 0
<1>1. CASE k.status # 0
  BY <1>1, ResetIncrementalEffect DEF Reused, Fresh
<1>2. CASE k.status = 0
  <2>1. Reused(k) = k
    BY <1>2 DEF Reused
  <2>2. SameFormula(k, k)
    BY DEF SameFormula, OnlyMarked, SameButCore
  <2> QED
    BY <1>2, <2>1, <2>2
<1> QED
  BY <1>1, <1>2

(* What came from the user. *)
LEMMA MarkedFromUser ==
  ASSUME NEW k \in Kittens, NEW c \in Kittens, Derived(k), SameFormula(k, c),
         NEW p, NEW g, FromUser(k, p, g)
  PROVE  FromUser(c, p, g)
<1>1. /\ Originals(c) = Originals(k) /\ Originals(k) \subseteq Refs(k)
      /\ \A ref \in Refs(k) : Lits(c, ref) = Lits(k, ref)
  BY MarkedFrame DEF Derived, SameFormula
<1>2. \A ref \in Refs(k) : Klause(c, ref).id = Klause(k, ref).id
  BY DEF SameFormula, OnlyMarked, SameButCore
<1> QED
  BY <1>1, <1>2 DEF FromUser

-----------------------------------------------------------------------------
(* Calls of the user that only change the formula, assumptions and phases. *)

LEMMA EmptiedWell ==
  /\ Emptied \in Kittens /\ Static(Emptied) /\ Emptied.status = 0
  /\ Originals(Emptied) = {}
<1>1. /\ <<>> \in Seq(Klauses) /\ <<>> \in Seq(Nat) /\ <<>> \in Seq(Watchers)
      /\ <<>> \in Seq(LITS) /\ <<>> \in Seq(Vars)
  OBVIOUS
<1>2. [l \in LITS |-> <<>>] \in [LITS -> Seq(Watchers)]
  BY <1>1
<1>3. Emptied \in Kittens
  BY <1>1, <1>2 DEF Emptied, Kittens, INVALID
<1>4. /\ Emptied.klauses = <<>> /\ Emptied.units = <<>> /\ Emptied.endOriginal = 0
      /\ Emptied.inconsistent = INVALID /\ Emptied.queue = <<>> /\ Emptied.values = {}
      /\ Emptied.trail = <<>> /\ Emptied.assumptions = <<>> /\ Emptied.failed = {}
      /\ Emptied.failing = INVALID /\ Emptied.status = 0
      /\ Emptied.watches = [l \in LITS |-> <<>>]
  BY DEF Emptied
<1>5. ToSet(<<>>) = {} /\ Len(<<>>) = 0 /\ 1..0 = {}
  BY DEF ToSet
<1>6. Refs(Emptied) = {} /\ Originals(Emptied) = {}
  BY <1>4, <1>5 DEF Refs, Originals
<1>7. ClausesWell(Emptied) /\ UnitsListed(Emptied, Len(Emptied.klauses))
  BY <1>4, <1>5, <1>6 DEF ClausesWell, UnitsListed
<1>8. Watched(Emptied, Len(Emptied.klauses))
  <2> SUFFICES ASSUME NEW l \in LITS
               PROVE  WatchListOf(Emptied, WatchedRefs(Emptied, Len(Emptied.klauses), l), l,
                                  Emptied.watches[l])
    BY DEF Watched
  <2>1. Emptied.watches[l] = <<>> /\ WatchedRefs(Emptied, Len(Emptied.klauses), l) = {}
    BY <1>4, <1>5 DEF WatchedRefs
  <2> QED
    BY <1>5, <2>1 DEF WatchListOf
<1>9. Derived(Emptied) /\ InconsistentWell(Emptied)
  BY <1>4, <1>5, <1>6 DEF Derived, InconsistentWell
<1>10. QueueWell(Emptied) /\ ValuesWell(Emptied) /\ KnownWell(Emptied) /\ FailedWell(Emptied)
  BY <1>4, <1>5 DEF QueueWell, ValuesWell, KnownWell, FailedWell
<1> QED
  BY <1>3, <1>4, <1>6, <1>7, <1>8, <1>9, <1>10 DEF Static, Orderly, Clausal

(* As long as nothing was learned, antecedents can be asked for. *)
LEMMA TrackEffect ==
  ASSUME NEW k \in Kittens, Static(k), ~k.learned, k.inconsistent = INVALID, NEW g, NEW p,
         FromUser(k, p, g)
  PROVE  /\ [k EXCEPT !.antecedents = TRUE] \in Kittens
         /\ [k EXCEPT !.antecedents = TRUE].status = k.status
         /\ Static([k EXCEPT !.antecedents = TRUE])
         /\ FromUser([k EXCEPT !.antecedents = TRUE], p, g)
<1> DEFINE c == [k EXCEPT !.antecedents = TRUE]
<1>1. c \in Kittens
  BY DEF Kittens
<1>2. /\ c.status = k.status /\ c.learned = k.learned
      /\ c.klauses = k.klauses /\ c.endOriginal = k.endOriginal /\ c.units = k.units
      /\ c.watches = k.watches /\ c.values = k.values /\ c.trail = k.trail
      /\ c.queue = k.queue /\ c.search = k.search
      /\ c.assumptions = k.assumptions /\ c.failed = k.failed /\ c.failing = k.failing
      /\ c.inconsistent = k.inconsistent
  BY DEF Kittens
<1> HIDE DEF c
<1>3. /\ Refs(c) = Refs(k) /\ Originals(c) = Originals(k) /\ Knows(c) = Knows(k)
      /\ \A ref : Klause(c, ref) = Klause(k, ref) /\ Lits(c, ref) = Lits(k, ref)
  BY <1>2 DEF Refs, Originals, Knows, Klause, Lits
<1>4. ClausesWell(c) /\ UnitsListed(c, Len(c.klauses))
  BY <1>2, <1>3 DEF Static, Orderly, Clausal, ClausesWell, UnitsListed
<1>5. Watched(c, Len(c.klauses))
  BY <1>2, WatchedFrame DEF Static, Orderly, Clausal
<1>6. Derived(c) /\ InconsistentWell(c)
  BY <1>2, <1>3 DEF Static, Orderly, Clausal, Derived, InconsistentWell
<1>7. QueueWell(c)
  BY <1>2, QueueFrame DEF Static, Orderly
<1>8. ValuesWell(c) /\ KnownWell(c) /\ FailedWell(c)
  BY <1>2, <1>3 DEF Static, Orderly, ValuesWell, KnownWell, FailedWell
<1>9. FromUser(c, p, g)
  BY <1>3 DEF FromUser
<1> QED
  BY <1>1, <1>2, <1>4, <1>5, <1>6, <1>7, <1>8, <1>9 DEF c, Static, Orderly, Clausal

(* Another clause. *)
LEMMA AddClauseEffect ==
  ASSUME NEW k \in Kittens, Static(k), NEW lits \in Seq(LITS), DistinctLits(lits), lits # <<>>,
         NEW p, NEW g \in Nat, FromUser(k, p, g), lits = p.clauses[g + 1],
         NEW c, c = NewOriginal(FoldLeft(Import, Reused(k), lits), g + 1, lits)
  PROVE  c \in Kittens /\ Static(c) /\ c.status = 0 /\ FromUser(c, p, g + 1)
<1> DEFINE r == Reused(k)
           s == FoldLeft(Import, r, lits)
           new == Len(s.klauses) + 1
<1>1. r \in Kittens /\ Static(r) /\ SameFormula(k, r) /\ r.status = 0
  BY ReusedEffect
<1> HIDE DEF r
<1>2. /\ s \in Kittens /\ OnlyQueued(r, s) /\ Static(s)
      /\ \A i \in 1..Len(lits) : IDX(lits[i]) \in Knows(s)
  BY <1>1, ImportAllEffect
<1> HIDE DEF s
<1>3. FromUser(s, p, g)
  <2>1. FromUser(r, p, g)
    BY <1>1, MarkedFromUser DEF Static, Orderly, Clausal
  <2>2. Originals(s) = Originals(r) /\ \A ref : Klause(s, ref) = Klause(r, ref) /\ Lits(s, ref) = Lits(r, ref)
    BY <1>2 DEF OnlyQueued, Originals, Klause, Lits
  <2> QED
    BY <2>1, <2>2 DEF FromUser
<1>4. /\ Longer(s, lits, c)
      /\ Originals(c) = Originals(s) \cup {new}
      /\ Klause(c, new).id = g + 1
      /\ Static(c)
  <2>1. c = NewOriginal(s, g + 1, lits) /\ g + 1 \in Nat
    BY DEF s, r
  <2> QED
    BY <1>2, <2>1, OriginalStatic
<1> HIDE DEF new
<1>5. c \in Kittens /\ c.status = 0
  BY <1>1, <1>2, <1>4 DEF Longer, SameSearch, OnlyQueued
<1>6. FromUser(c, p, g + 1)
  <2> SUFFICES ASSUME NEW ref \in Originals(c)
               PROVE  /\ Klause(c, ref).id \in 1 .. g + 1
                      /\ Lits(c, ref) = ToSet(p.clauses[Klause(c, ref).id])
    BY DEF FromUser
  <2>1. CASE ref = new
    BY <1>4, <2>1 DEF Longer, new
  <2>2. CASE ref \in Originals(s)
    <3>1. ref \in Refs(s)
      <4>1. s.endOriginal <= Len(s.klauses) /\ s.endOriginal \in Nat /\ Len(s.klauses) \in Nat
        BY <1>2, <1>4 DEF Static, Orderly, Clausal, Derived, Kittens, Longer
      <4> QED
        BY <2>2, <4>1 DEF Originals, Refs
    <3>2. Klause(c, ref) = Klause(s, ref) /\ Lits(c, ref) = Lits(s, ref)
      BY <1>4, <3>1 DEF Longer
    <3>3. Klause(s, ref).id \in 1..g /\ Lits(s, ref) = ToSet(p.clauses[Klause(s, ref).id])
      BY <1>3, <2>2 DEF FromUser
    <3> QED
      BY <3>2, <3>3
  <2> QED
    BY <1>4, <2>1, <2>2
<1> QED
  BY <1>4, <1>5, <1>6

(* Another assumption. *)
WithAssumption(k, lit) == [Import(Reused(k), lit) EXCEPT !.assumptions = Append(@, lit)]

LEMMA AssumeEffect ==
  ASSUME NEW k \in Kittens, Static(k), NEW lit \in LITS, NEW p, NEW g, FromUser(k, p, g),
         NEW c, c = WithAssumption(k, lit)
  PROVE  c \in Kittens /\ Static(c) /\ c.status = 0 /\ FromUser(c, p, g)
<1> DEFINE r == Reused(k)
           s == Import(r, lit)
           a == Append(s.assumptions, lit)
<1>1. r \in Kittens /\ Static(r) /\ SameFormula(k, r) /\ r.status = 0
  BY ReusedEffect
<1> HIDE DEF r
<1>2. /\ s \in Kittens /\ OnlyQueued(r, s) /\ Static(s) /\ IDX(lit) \in Knows(s)
  BY <1>1, ImportEffect
<1>3. c = [s EXCEPT !.assumptions = a]
  BY DEF r, s, WithAssumption
<1> HIDE DEF s
<1>4. a \in Seq(LITS) /\ a # <<>> /\ ToSet(a) = ToSet(s.assumptions) \cup {lit}
  <2>1. s.assumptions \in Seq(LITS)
    BY <1>2 DEF Kittens
  <2> QED
    BY <2>1, AppendProperties, SetOfAppend
<1> HIDE DEF a
<1>5. c \in Kittens
  BY <1>2, <1>3, <1>4 DEF Kittens
<1>6. /\ c.status = s.status /\ c.learned = s.learned /\ c.antecedents = s.antecedents
      /\ c.klauses = s.klauses /\ c.endOriginal = s.endOriginal /\ c.units = s.units
      /\ c.watches = s.watches /\ c.values = s.values /\ c.trail = s.trail
      /\ c.queue = s.queue /\ c.search = s.search
      /\ c.assumptions = a /\ c.failed = s.failed /\ c.failing = s.failing
      /\ c.inconsistent = s.inconsistent
  BY <1>2, <1>3 DEF Kittens
<1>7. c.status = 0
  BY <1>1, <1>2, <1>6 DEF OnlyQueued
<1>8. Clausal(c)
  BY <1>2, <1>6, ClausalFrame DEF Static, Orderly
<1>9. QueueWell(c)
  BY <1>2, <1>6, QueueFrame DEF Static, Orderly
<1>10. ValuesWell(c)
  BY <1>2, <1>6 DEF Static, Orderly, ValuesWell, Refs, Klause, Knows
<1>11. KnownWell(c) /\ FailedWell(c)
  BY <1>2, <1>4, <1>6, <1>7 DEF Static, Orderly, KnownWell, FailedWell, Knows
<1>12. FromUser(c, p, g)
  <2>1. FromUser(r, p, g)
    BY <1>1, MarkedFromUser DEF Static, Orderly, Clausal
  <2>2. Originals(c) = Originals(r) /\ \A ref : Klause(c, ref) = Klause(r, ref) /\ Lits(c, ref) = Lits(r, ref)
    BY <1>2, <1>6 DEF OnlyQueued, Originals, Klause, Lits
  <2> QED
    BY <2>1, <2>2 DEF FromUser
<1> QED
  <2>1. Watched(c, Len(c.klauses))
    BY <1>2, <1>6, WatchedFrame DEF Static
  <2> QED
    BY <1>5, <1>7, <1>8, <1>9, <1>10, <1>11, <1>12, <2>1 DEF Static, Orderly

(* Other phases. *)
LEMMA PhasesEffect ==
  ASSUME NEW k \in Kittens, Static(k), Answered(k), NEW P \in SUBSET Vars, NEW p, NEW g,
         FromUser(k, p, g),
         NEW c, c = [k EXCEPT !.phases = P]
  PROVE  c \in Kittens /\ Static(c) /\ Answered(c) /\ FromUser(c, p, g)
<1>1. c \in Kittens
  BY DEF Kittens
<1>2. OnlySearched(k, c) /\ c.values = k.values /\ c.trail = k.trail /\ c.search = k.search
  BY DEF Kittens, OnlySearched
<1>3. /\ Refs(c) = Refs(k) /\ Originals(c) = Originals(k) /\ Knows(c) = Knows(k)
      /\ \A ref : Klause(c, ref) = Klause(k, ref) /\ Lits(c, ref) = Lits(k, ref)
  BY <1>2, OnlySearchedFrame
<1>4. Clausal(c)
  BY <1>2, ClausalFrame DEF OnlySearched, Static, Orderly
<1>5. QueueWell(c)
  BY <1>2, QueueFrame DEF OnlySearched, Static, Orderly
<1>6. ValuesWell(c) /\ KnownWell(c) /\ FailedWell(c)
  BY <1>2, <1>3 DEF OnlySearched, Static, Orderly, ValuesWell, KnownWell, FailedWell
<1>7. FromUser(c, p, g)
  BY <1>3 DEF FromUser
<1>8. /\ FoundIn(c) = FoundIn(k) /\ CoreOriginals(c) = CoreOriginals(k)
      /\ RootSet(c) = RootSet(k)
      /\ \A refs : Refuted(c, refs) <=> Refuted(k, refs)
  BY <1>2, <1>3 DEF FoundIn, CoreOriginals, RootSet, Root, Refuted, SatisfiesAll, OnlySearched
<1>9. Answered(c)
  BY <1>2, <1>3, <1>8 DEF Answered, OnlySearched
<1> QED
  <2>1. Watched(c, Len(c.klauses))
    BY <1>2, WatchedFrame DEF OnlySearched, Static
  <2> QED
    BY <1>1, <1>4, <1>5, <1>6, <1>7, <1>9, <2>1 DEF Static, Orderly

-----------------------------------------------------------------------------
(* Shuffling. *)

LEMMA PermutedDistinct ==
  ASSUME NEW S, NEW s \in Seq(S), NEW t \in Seq(S), Len(t) = Len(s), ToSet(t) = ToSet(s),
         \A i, j \in 1..Len(s) : s[i] = s[j] => i = j
  PROVE  \A i, j \in 1..Len(t) : t[i] = t[j] => i = j
<1> DEFINE n == Len(s)
           D == 1..n
           T == ToSet(s)
<1>1. n \in Nat /\ T = {s[i] : i \in D} /\ T = {t[i] : i \in D}
  BY SetOfSeq, LenProperties
<1>2. IsFiniteSet(D)
  BY <1>1, FS_Interval
<1>3. s \in [D -> T] /\ t \in [D -> T]
  <2>1. s \in [D -> S] /\ t \in [D -> S]
    BY LenProperties
  <2> HIDE DEF T
  <2>2. \A i \in D : s[i] \in T /\ t[i] \in T
    BY <1>1
  <2> HIDE DEF D
  <2> QED
    BY <2>1, <2>2
<1> HIDE DEF D, T, n
<1>4. s \in Surjection(D, T) /\ t \in Surjection(D, T) /\ s \in Injection(D, T)
  <2>1. \A i, j \in D : s[i] = s[j] => i = j
    BY DEF D, n
  <2>2. \A x \in T : (\E i \in D : s[i] = x) /\ (\E i \in D : t[i] = x)
    BY <1>1
  <2> QED
    BY <1>3, <2>1, <2>2 DEF Surjection, Injection, IsInjective
<1>5. Cardinality(T) = Cardinality(D)
  BY <1>2, <1>4, FS_Surjection
<1>6. t \in Injection(D, T)
  BY <1>2, <1>4, <1>5, FS_Surjection
<1>7. \A i, j \in D : t[i] = t[j] => i = j
  BY <1>6 DEF Injection, IsInjective
<1> QED
  BY <1>7 DEF D, n

LEMMA Reversed ==
  ASSUME NEW S, NEW s \in Seq(S)
  PROVE  /\ Reverse(s) \in Seq(S) /\ Len(Reverse(s)) = Len(s) /\ Len(s) \in Nat
         /\ \A i \in 1..Len(s) : Len(s) - i + 1 \in 1..Len(s) /\ Reverse(s)[i] = s[Len(s) - i + 1]
<1>1. Len(s) \in Nat /\ \A i \in 1..Len(s) : s[i] \in S
  BY LenProperties, ElementOfSeq
<1>2. \A i \in 1..Len(s) : (Len(s) - i) + 1 \in 1..Len(s)
  BY <1>1
<1>3. \A i \in 1..Len(s) : s[(Len(s) - i) + 1] \in S
  BY <1>1, <1>2
<1>4. Reverse(s) \in Seq(S)
  BY <1>1, <1>3, IsASeq DEF Reverse
<1> QED
  BY <1>1, <1>2, <1>4 DEF Reverse

LEMMA ReversedWatchList ==
  ASSUME NEW k, NEW refs, NEW l, NEW watches \in Seq(Watchers), WatchListOf(k, refs, l, watches)
  PROVE  WatchListOf(k, refs, l, Reverse(watches))
<1> DEFINE n == Len(watches)
           w == Reverse(watches)
           other(i) == n - i + 1
<1>1. /\ n \in Nat /\ Len(w) = n
      /\ \A i \in 1..n : other(i) \in 1..n /\ w[i] = watches[other(i)] /\ other(other(i)) = i
  BY Reversed
<1>2. /\ refs = {watches[i].ref : i \in 1..n}
      /\ \A i, j \in 1..n : watches[i].ref = watches[j].ref => i = j
      /\ \A i \in 1..n : watches[i].blit \in Lits(k, watches[i].ref) \ {l}
  BY DEF WatchListOf
<1> HIDE DEF n, w, other
<1>3. {w[i].ref : i \in 1..n} = refs
  <2>1. ASSUME NEW i \in 1..n
        PROVE  w[i].ref \in refs
    BY <1>1, <1>2
  <2>2. ASSUME NEW r \in refs
        PROVE  r \in {w[i].ref : i \in 1..n}
    <3>1. PICK i \in 1..n : r = watches[i].ref
      BY <1>2
    <3>2. other(i) \in 1..n /\ w[other(i)] = watches[i]
      BY <1>1
    <3> QED
      BY <3>1, <3>2
  <2> QED
    BY <2>1, <2>2
<1>4. \A i, j \in 1..n : w[i].ref = w[j].ref => i = j
  <2> SUFFICES ASSUME NEW i \in 1..n, NEW j \in 1..n, w[i].ref = w[j].ref
               PROVE  i = j
    OBVIOUS
  <2>1. other(i) = other(j)
    BY <1>1, <1>2
  <2> QED
    BY <1>1, <2>1
<1>5. \A i \in 1..n : w[i].blit \in Lits(k, w[i].ref) \ {l}
  BY <1>1, <1>2
<1> QED
  BY <1>1, <1>3, <1>4, <1>5 DEF WatchListOf, n, w

Reordered(k, queue, units, watches) ==
  SearchLast([k EXCEPT !.queue = queue, !.units = units, !.watches = watches])

LEMMA ShuffleEffect ==
  ASSUME NEW k \in Kittens, Static(k), k.status = 0, k.queue # <<>>,
         NEW p, NEW g, FromUser(k, p, g),
         NEW queue \in Shuffled(k.queue), NEW units \in Shuffled(k.units),
         NEW watches \in {[l \in LITS |-> Reverse(k.watches[l])], k.watches},
         NEW c, c = Reordered(k, queue, units, watches)
  PROVE  c \in Kittens /\ Static(c) /\ c.status = 0 /\ FromUser(c, p, g)
<1> DEFINE b == [k EXCEPT !.queue = queue, !.units = units, !.watches = watches]
<1>1. /\ k.queue \in Seq(Vars) /\ k.units \in Seq(Nat) /\ k.watches \in [LITS -> Seq(Watchers)]
      /\ ToSet(k.queue) \subseteq Vars /\ ToSet(k.units) \subseteq Nat
      /\ \A i, j \in 1..Len(k.queue) : k.queue[i] = k.queue[j] => i = j
  <2>1. /\ k.queue \in Seq(Vars) /\ k.units \in Seq(Nat) /\ k.watches \in [LITS -> Seq(Watchers)]
    BY DEF Kittens
  <2> QED
    BY <2>1, SetOfSeq DEF Static, Orderly, QueueWell
<1>2. /\ queue \in Seq(Vars) /\ Len(queue) = Len(k.queue) /\ ToSet(queue) = ToSet(k.queue)
      /\ units \in Seq(Nat) /\ ToSet(units) = ToSet(k.units)
  <2>1. Seq(ToSet(k.queue)) \subseteq Seq(Vars) /\ Seq(ToSet(k.units)) \subseteq Seq(Nat)
    BY <1>1, SeqMonotonic
  <2> QED
    BY <2>1 DEF Shuffled
<1>3. \A i, j \in 1..Len(queue) : queue[i] = queue[j] => i = j
  <2>1. /\ k.queue \in Seq(Vars) /\ queue \in Seq(Vars)
        /\ Len(queue) = Len(k.queue) /\ ToSet(queue) = ToSet(k.queue)
    BY <1>1, <1>2
  <2>2. \A i, j \in 1..Len(k.queue) : k.queue[i] = k.queue[j] => i = j
    BY <1>1
  <2> HIDE DEF b
  <2> QED
    BY <2>1, <2>2, PermutedDistinct
<1>4. /\ watches \in [LITS -> Seq(Watchers)]
      /\ \A l \in LITS : watches[l] = k.watches[l] \/ watches[l] = Reverse(k.watches[l])
  <2>1. \A l \in LITS : Reverse(k.watches[l]) \in Seq(Watchers)
    BY <1>1, Reversed
  <2> QED
    BY <1>1, <2>1
<1>5. b \in Kittens
  BY <1>2, <1>4 DEF Kittens
<1>6. /\ b.status = k.status /\ b.learned = k.learned /\ b.antecedents = k.antecedents
      /\ b.klauses = k.klauses /\ b.endOriginal = k.endOriginal /\ b.units = units
      /\ b.watches = watches /\ b.values = k.values /\ b.trail = k.trail
      /\ b.queue = queue /\ b.assumptions = k.assumptions /\ b.failed = k.failed
      /\ b.failing = k.failing /\ b.inconsistent = k.inconsistent
  BY DEF Kittens
<1>7. c = SearchLast(b)
  BY DEF Reordered
<1> HIDE DEF b
<1>8. queue # <<>>
  <2>1. Len(queue) > 0
    BY <1>2, QueueType
  <2> QED
    BY <1>2, <2>1, EmptySeq
<1>9. /\ c \in Kittens /\ OnlyQueued(b, c) /\ c.queue = b.queue /\ QueueWell(c)
  BY <1>3, <1>5, <1>6, <1>7, <1>8, SearchLastEffect
<1>10. /\ c.status = k.status /\ c.learned = k.learned /\ c.antecedents = k.antecedents
       /\ c.klauses = k.klauses /\ c.endOriginal = k.endOriginal /\ c.units = units
       /\ c.watches = watches /\ c.values = k.values /\ c.trail = k.trail
       /\ c.queue = queue /\ c.assumptions = k.assumptions /\ c.failed = k.failed
       /\ c.failing = k.failing /\ c.inconsistent = k.inconsistent
  BY <1>6, <1>9 DEF OnlyQueued
<1> HIDE DEF b
<1>11. /\ Refs(c) = Refs(k) /\ Originals(c) = Originals(k) /\ Knows(c) = Knows(k)
       /\ \A ref : Klause(c, ref) = Klause(k, ref) /\ Lits(c, ref) = Lits(k, ref)
  BY <1>2, <1>10 DEF Refs, Originals, Knows, Klause, Lits
<1>12. ClausesWell(c) /\ Derived(c) /\ InconsistentWell(c)
  BY <1>8, <1>10, <1>11 DEF Static, Orderly, Clausal, ClausesWell, Derived, InconsistentWell, Follows, SatisfiesAll
<1>13. UnitsListed(c, Len(c.klauses))
  BY <1>2, <1>10, <1>11 DEF Static, Orderly, Clausal, UnitsListed
<1>14. Watched(c, Len(c.klauses))
  <2> SUFFICES ASSUME NEW l \in LITS
               PROVE  WatchListOf(c, WatchedRefs(c, Len(c.klauses), l), l, c.watches[l])
    BY DEF Watched
  <2> DEFINE refs == WatchedRefs(k, Len(k.klauses), l)
  <2>1. WatchedRefs(c, Len(c.klauses), l) = refs
    BY <1>10 DEF WatchedRefs, Large, Klause
  <2> HIDE DEF refs
  <2>2. WatchListOf(k, refs, l, k.watches[l]) /\ k.watches[l] \in Seq(Watchers)
    BY <1>1 DEF refs, Static, Orderly, Clausal, Watched
  <2>3. WatchListOf(k, refs, l, watches[l])
    BY <1>4, <2>2, ReversedWatchList
  <2>4. \A ref \in refs : Lits(c, ref) = Lits(k, ref)
    BY <1>11
  <2>5. WatchListOf(c, refs, l, watches[l])
    BY <2>3, <2>4, WatchListFrame
  <2> QED
    BY <1>10, <2>1, <2>5
<1>15. ValuesWell(c) /\ KnownWell(c) /\ FailedWell(c)
  <2>1. /\ c.status = k.status /\ c.values = k.values /\ c.trail = k.trail
        /\ c.assumptions = k.assumptions /\ c.failed = k.failed /\ c.failing = k.failing
    BY <1>10
  <2>2. ValuesWell(k) /\ KnownWell(k) /\ FailedWell(k)
    BY DEF Static, Orderly
  <2>3. ValuesWell(c)
    BY <1>11, <2>1, <2>2 DEF ValuesWell
  <2> QED
    BY <1>11, <2>1, <2>2, <2>3 DEF KnownWell, FailedWell
<1>16. FromUser(c, p, g)
  BY <1>11 DEF FromUser
<1> QED
  BY <1>9, <1>10, <1>12, <1>13, <1>14, <1>15, <1>16 DEF Static, Orderly, Clausal

-----------------------------------------------------------------------------
(* The core. *)

(* Everything that a clause of the set was derived from is in it too. *)
ClosedDown(k, refs, n) == \A ref \in refs : ref > n => Klause(k, ref).antecedents \subseteq refs

LEMMA AntecedentsOlder ==
  ASSUME NEW k \in Kittens, Derived(k), k.antecedents, NEW ref \in Refs(k)
  PROVE  Klause(k, ref).antecedents \subseteq 1 .. ref - 1
BY DEF Derived

LEMMA CoreOfClosed ==
  ASSUME NEW k \in Kittens, Derived(k), k.antecedents, NEW root \in Refs(k)
  PROVE  /\ root \in CoreOf(k, root) /\ CoreOf(k, root) \subseteq Refs(k)
         /\ ClosedDown(k, CoreOf(k, root), 0)
<1> DEFINE n == Len(k.klauses)
           up == [i \in 1..n |-> i]
           down == Reverse(up)
           States(j) == {s \in [kit : {k}, needed : SUBSET Refs(k)] :
                           root \in s.needed /\ ClosedDown(k, s.needed, n - j)}
           Inv == [j \in 0..n |-> States(j)]
           base == [kit |-> k, needed |-> {root}]
<1>1. n \in Nat
  BY LenProperties DEF Kittens
<1>2. up \in Seq(Nat) /\ Len(up) = n
  BY <1>1, IsASeq
<1>3. \A i \in 1..n : up[i] = i
  OBVIOUS
<1> HIDE DEF up
<1>4. /\ down \in Seq(Nat) /\ Len(down) = n
      /\ \A j \in 1..n : n - j + 1 \in 1..n /\ down[j] = n - j + 1
  <2>1. /\ down \in Seq(Nat) /\ Len(down) = n
        /\ \A j \in 1..n : n - j + 1 \in 1..n /\ down[j] = up[n - j + 1]
    BY <1>2, Reversed
  <2> HIDE DEF down
  <2> QED
    BY <1>3, <2>1
<1> HIDE DEF down
<1>5. base \in Inv[0]
  <2>1. base.needed = {root} /\ base \in [kit : {k}, needed : SUBSET Refs(k)]
    OBVIOUS
  <2>2. ClosedDown(k, base.needed, n - 0)
    BY <1>1, <2>1 DEF ClosedDown, Refs
  <2> QED
    BY <1>1, <2>1, <2>2
<1>6. ASSUME NEW j \in 1..n, NEW s \in Inv[j - 1]
      PROVE  AddAntecedents(s, down[j]) \in Inv[j]
  <2> DEFINE ref == down[j]
             old == s.needed
             new == IF ref \in old THEN old \cup Klause(k, ref).antecedents ELSE old
  <2>1. j - 1 \in 0..n /\ j \in 0..n /\ ref = n - (j - 1) /\ ref \in 1..n /\ ref \in Refs(k)
    BY <1>1, <1>4 DEF Refs
  <2>2. /\ s \in [kit : {k}, needed : SUBSET Refs(k)] /\ s.kit = k /\ old \in SUBSET Refs(k)
        /\ root \in old /\ ClosedDown(k, old, ref)
    BY <2>1
  <2>3. Klause(k, ref).antecedents \subseteq 1 .. ref - 1
    BY <2>1, AntecedentsOlder
  <2>4. AddAntecedents(s, ref) = [s EXCEPT !.needed = new]
    <3>1. s = [s EXCEPT !.needed = s.needed]
      BY <2>2
    <3> QED
      BY <2>2, <3>1 DEF AddAntecedents
  <2> HIDE DEF ref
  <2>5. 1 .. ref - 1 \subseteq Refs(k)
    BY <1>1, <2>1 DEF Refs
  <2>6. new \in SUBSET Refs(k) /\ root \in new
    BY <2>2, <2>3, <2>5
  <2>7. ClosedDown(k, new, n - j)
    <3> SUFFICES ASSUME NEW r \in new, r > n - j
                 PROVE  Klause(k, r).antecedents \subseteq new
      BY DEF ClosedDown
    <3>1. r \in Nat /\ (r > ref \/ r = ref)
      <4>1. r \in Refs(k)
        BY <2>6
      <4>2. r \in Nat
        BY <1>1, <4>1 DEF Refs
      <4> HIDE DEF new
      <4> QED
        BY <1>1, <2>1, <4>2
    <3>2. CASE r = ref
      <4>1. ref \in old
        BY <2>1, <2>3, <3>2
      <4> QED
        BY <3>2, <4>1
    <3>3. CASE r > ref
      <4>1. r \in old
        BY <2>1, <2>3, <3>1, <3>3
      <4> QED
        BY <2>2, <3>3, <4>1 DEF ClosedDown
    <3> QED
      BY <3>1, <3>2, <3>3
  <2> HIDE DEF new
  <2>8. [s EXCEPT !.needed = new] \in States(j)
    BY <2>2, <2>6, <2>7
  <2>9. Inv[j] = States(j)
    BY <2>1
  <2> QED
    BY <2>4, <2>8, <2>9 DEF ref
<1>7. FoldLeft(AddAntecedents, base, down) \in Inv[n]
  <2> HIDE DEF Inv, base
  <2> QED
    BY <1>4, <1>5, <1>6, CoringInduction
<1>8. CoreOf(k, root) = FoldLeft(AddAntecedents, base, down).needed
  BY DEF CoreOf, base, down, up
<1>9. Inv[n] = States(n) /\ n - n = 0
  BY <1>1
<1> QED
  BY <1>7, <1>8, <1>9

(* The originals of a closed set imply all of it. *)
LEMMA ClosedImplied ==
  ASSUME NEW k \in Kittens, Derived(k), k.antecedents, NEW needed \in SUBSET Refs(k),
         ClosedDown(k, needed, 0), NEW M \in Models,
         SatisfiesAll(k, M, Originals(k) \cap needed)
  PROVE  SatisfiesAll(k, M, needed)
<1> DEFINE Bad == {ref \in needed : ~Satisfies(M, Lits(k, ref))}
<1> SUFFICES ASSUME Bad # {} PROVE FALSE
  BY DEF SatisfiesAll
<1>1. Refs(k) \subseteq Nat /\ Bad \subseteq needed
  BY DEF Refs
<1>2. PICK ref \in Bad : \A r \in Bad : ref <= r
  <2>1. Bad \in SUBSET Nat
    BY <1>1
  <2> HIDE DEF Bad
  <2> QED
    BY <2>1, FirstOf
<1>3. ref \in Refs(k) /\ ref \in needed /\ ref \in Nat /\ ref > 0
  BY <1>1, <1>2 DEF Refs
<1>4. CASE ~Klause(k, ref).learned
  <2>1. ref <= k.endOriginal /\ k.endOriginal \in Nat
    BY <1>3, <1>4 DEF Derived, Kittens
  <2>2. ref \in Originals(k)
    BY <1>3, <1>4, <2>1 DEF Originals
  <2> QED
    BY <1>2, <1>3, <2>2 DEF SatisfiesAll
<1>5. CASE Klause(k, ref).learned
  <2>1. Klause(k, ref).antecedents \subseteq 1 .. ref - 1 /\ Follows(k, Klause(k, ref).antecedents, Lits(k, ref))
    BY <1>3, <1>5 DEF Derived
  <2>2. Klause(k, ref).antecedents \subseteq needed
    BY <1>3 DEF ClosedDown
  <2>3. \A r \in Klause(k, ref).antecedents : r \notin Bad
    BY <1>2, <1>3, <2>1
  <2>4. SatisfiesAll(k, M, Klause(k, ref).antecedents)
    BY <2>2, <2>3 DEF SatisfiesAll
  <2> QED
    BY <1>2, <2>1, <2>4 DEF Follows
<1> QED
  BY <1>4, <1>5

LEMMA ComputeCoreEffect ==
  ASSUME NEW k \in Kittens, Static(k), Answered(k), k.status = 20, k.antecedents,
         NEW p, NEW g, FromUser(k, p, g)
  PROVE  /\ ComputeClausalCore(k) \in Kittens /\ Static(ComputeClausalCore(k))
         /\ Answered(ComputeClausalCore(k)) /\ FromUser(ComputeClausalCore(k), p, g)
<1> DEFINE root   == Root(k)
           needed == IF root = INVALID THEN {} ELSE CoreOf(k, root)
           klauses == [i \in 1..Len(k.klauses) |-> [k.klauses[i] EXCEPT !.core = i \in needed]]
           c      == ComputeClausalCore(k)
<1>1. c = [k EXCEPT !.klauses = klauses, !.core = needed, !.status = 21]
  BY DEF ComputeClausalCore, Root
<1>2. Derived(k) /\ Clausal(k)
  BY DEF Static, Orderly, Clausal
<1>3. needed \in SUBSET Refs(k) /\ RootSet(k) \subseteq needed /\ ClosedDown(k, needed, 0)
  <2>1. CASE root = INVALID
    BY <2>1 DEF RootSet, ClosedDown
  <2>2. CASE root # INVALID
    <3>1. RootSet(k) = {root} /\ needed = CoreOf(k, root)
      BY <2>2 DEF RootSet
    <3>2. root \in Refs(k)
      BY <3>1 DEF Answered
    <3> QED
      BY <1>2, <3>1, <3>2, CoreOfClosed
  <2> QED
    BY <2>1, <2>2
<1> HIDE DEF needed, c
<1>4. /\ needed \in SUBSET Nat /\ Len(k.klauses) \in Nat
      /\ \A i \in 1..Len(k.klauses) : k.klauses[i] \in Klauses
  <2>1. k.klauses \in Seq(Klauses)
    BY DEF Kittens
  <2> QED
    BY <1>3, <2>1, LenProperties, ElementOfSeq DEF Refs
<1>5. klauses \in Seq(Klauses)
  <2>0. \A x \in Klauses, b \in BOOLEAN : [x EXCEPT !.core = b] \in Klauses
    BY DEF Klauses
  <2>1. ASSUME NEW i \in 1..Len(k.klauses)
        PROVE  [k.klauses[i] EXCEPT !.core = i \in needed] \in Klauses
    <3>1. (i \in needed) \in BOOLEAN
      OBVIOUS
    <3>2. k.klauses[i] \in Klauses
      BY <1>4
    <3> QED
      BY <2>0, <3>1, <3>2, Zenon
  <2> QED
    BY <1>4, <2>1, IsASeq
<1>6. c \in Kittens /\ c.klauses = klauses
  <2> HIDE DEF klauses
  <2> QED
    BY <1>1, <1>4, <1>5 DEF Kittens
<1>7. OnlyMarked(k, c) /\ \A ref \in Refs(k) : Klause(c, ref).core <=> ref \in needed
  <2>1. c.klauses = [i \in 1..Len(k.klauses) |-> [k.klauses[i] EXCEPT !.core = i \in needed]]
    BY <1>6
  <2> HIDE DEF klauses
  <2> QED
    BY <1>4, <1>6, <2>1, MarkedKlauses
<1> HIDE DEF klauses
<1>8. /\ c.status = 21 /\ c.learned = k.learned /\ c.antecedents = k.antecedents
      /\ c.endOriginal = k.endOriginal /\ c.units = k.units
      /\ c.watches = k.watches /\ c.values = k.values /\ c.trail = k.trail
      /\ c.queue = k.queue /\ c.search = k.search
      /\ c.assumptions = k.assumptions /\ c.failed = k.failed /\ c.failing = k.failing
      /\ c.inconsistent = k.inconsistent
  BY <1>1 DEF Kittens
<1>9. SameFormula(k, c)
  BY <1>7, <1>8 DEF SameFormula
<1>10. /\ Refs(c) = Refs(k) /\ Originals(c) = Originals(k) /\ Originals(k) \subseteq Refs(k)
       /\ \A ref \in Refs(k) : Klause(c, ref).lits = Klause(k, ref).lits /\ Lits(c, ref) = Lits(k, ref)
  BY <1>2, <1>6, <1>7, <1>8, MarkedFrame DEF Derived
<1>11. Clausal(c)
  BY <1>2, <1>6, <1>9, MarkedClausal
<1>12. QueueWell(c)
  <2>1. c.queue = k.queue /\ c.search = k.search /\ k.values \subseteq c.values /\ QueueWell(k)
    BY <1>8 DEF Static, Orderly
  <2> QED
    BY <2>1, QueueFrame
<1>13. ValuesWell(c) /\ KnownWell(c) /\ FailedWell(c)
  <2>1. ValuesWell(c)
    BY <1>8, <1>10 DEF Static, Orderly, ValuesWell, Knows
  <2> QED
    BY <1>8, <2>1 DEF Static, Orderly, KnownWell, FailedWell, Knows
<1>14. FromUser(c, p, g)
  BY <1>2, <1>6, <1>9, MarkedFromUser
<1>15. CoreOriginals(c) = Originals(k) \cap needed
  BY <1>7, <1>10 DEF CoreOriginals
<1>16. Refuted(c, CoreOriginals(c))
  <2> SUFFICES ASSUME NEW M \in Models, c.failed \subseteq M, SatisfiesAll(c, M, CoreOriginals(c))
               PROVE  FALSE
    BY DEF Refuted
  <2>1. SatisfiesAll(k, M, Originals(k) \cap needed)
    BY <1>3, <1>10, <1>15, SatisfiesFrame
  <2>2. SatisfiesAll(k, M, needed)
    BY <1>2, <1>3, <2>1, ClosedImplied
  <2>3. SatisfiesAll(k, M, RootSet(k))
    BY <1>3, <2>2 DEF SatisfiesAll
  <2> QED
    BY <1>8, <2>3 DEF Answered, Refuted
<1>17. Refuted(c, Originals(c))
  <2>1. \A M : SatisfiesAll(c, M, Originals(c)) <=> SatisfiesAll(k, M, Originals(k))
    BY <1>10, SatisfiesFrame
  <2> QED
    BY <1>8, <1>10, <2>1 DEF Answered, Refuted
<1>18. Answered(c)
  BY <1>8, <1>16, <1>17 DEF Answered
<1> QED
  <2>1. Watched(c, Len(c.klauses))
    BY <1>2, <1>6, <1>9, MarkedWatched DEF Static, Derived
  <2> QED
    BY <1>6, <1>11, <1>12, <1>13, <1>14, <1>18, <2>1 DEF Static, Orderly, c

-----------------------------------------------------------------------------
(* Shrinking to the core. *)

LEMMA KeptRefsAre ==
  ASSUME NEW k \in Kittens, Derived(k)
  PROVE  KeptRefs(k) \in Seq(Nat) /\ ToSet(KeptRefs(k)) = CoreOriginals(k)
<1> DEFINE n == k.endOriginal
           up == [i \in 1..n |-> i]
           Core(j) == {ref \in 1..j : ~Klause(k, ref).learned /\ Klause(k, ref).core}
           States(j) == {s \in [kit : {k}, refs : Seq(Nat)] : ToSet(s.refs) = Core(j)}
           Inv == [j \in 0..n |-> States(j)]
           base == [kit |-> k, refs |-> <<>>]
<1>1. n \in Nat
  BY DEF Kittens
<1>2. up \in Seq(Nat) /\ Len(up) = n /\ \A i \in 1..n : up[i] = i
  <2>1. up \in Seq(Nat) /\ Len(up) = n
    BY <1>1, IsASeq
  <2> QED
    BY <2>1
<1> HIDE DEF up
<1>3. base \in Inv[0]
  <2>1. base.refs = <<>> /\ base \in [kit : {k}, refs : Seq(Nat)]
    OBVIOUS
  <2>2. ToSet(base.refs) = {} /\ Core(0) = {}
    BY <2>1 DEF ToSet
  <2> HIDE DEF Core, base
  <2>3. base \in States(0)
    BY <2>1, <2>2
  <2> QED
    BY <1>1, <2>3
<1>4. ASSUME NEW j \in 1..n, NEW s \in Inv[j - 1]
      PROVE  KeepKlause(s, up[j]) \in Inv[j]
  <2>1. j - 1 \in 0..n /\ j \in 0..n /\ up[j] = j /\ j \in Nat
    BY <1>1, <1>2
  <2>2. s \in [kit : {k}, refs : Seq(Nat)] /\ s.kit = k /\ s.refs \in Seq(Nat) /\ ToSet(s.refs) = Core(j - 1)
    BY <2>1
  <2>3. \A ref \in 1..j : ref = j \/ ref \in 1 .. j - 1
    BY <2>1
  <2>4. 1 .. j - 1 \subseteq 1..j /\ j \in 1..j
    BY <2>1
  <2>5. CASE ~Klause(k, j).learned /\ Klause(k, j).core
    <3> DEFINE refs == Append(s.refs, j)
    <3>1. KeepKlause(s, j) = [s EXCEPT !.refs = refs]
      BY <2>2, <2>5 DEF KeepKlause
    <3>2. refs \in Seq(Nat) /\ ToSet(refs) = Core(j - 1) \cup {j}
      BY <2>1, <2>2, SetOfAppend
    <3>3. Core(j) = Core(j - 1) \cup {j}
      BY <2>3, <2>4, <2>5
    <3> HIDE DEF refs, Core
    <3>4. [s EXCEPT !.refs = refs] \in States(j)
      BY <2>2, <3>2, <3>3
    <3> QED
      BY <2>1, <3>1, <3>4
  <2>6. CASE ~(~Klause(k, j).learned /\ Klause(k, j).core)
    <3>1. KeepKlause(s, j) = s
      BY <2>2, <2>6 DEF KeepKlause
    <3>2. Core(j) = Core(j - 1)
      BY <2>3, <2>4, <2>6
    <3> HIDE DEF Core
    <3> QED
      BY <2>1, <2>2, <3>1, <3>2
  <2> QED
    BY <2>5, <2>6
<1>5. FoldLeft(KeepKlause, base, up) \in Inv[n]
  <2> HIDE DEF Inv, base
  <2> QED
    BY <1>2, <1>3, <1>4, KeepingInduction
<1>6. KeptRefs(k) = FoldLeft(KeepKlause, base, up).refs
  BY DEF KeptRefs, base, up
<1>7. Inv[n] = States(n)
  BY <1>1
<1>8. Core(n) = CoreOriginals(k)
  BY DEF CoreOriginals, Originals
<1> HIDE DEF Core
<1> QED
  BY <1>5, <1>6, <1>7, <1>8

(* All clauses connected again. *)
LEMMA ReconnectEffect ==
  ASSUME NEW k \in Kittens, UnitsListed(k, 0), Watched(k, 0),
         \A ref \in Refs(k) : DistinctLits(Klause(k, ref).lits)
  PROVE  /\ Reconnect(k) \in Kittens /\ SameSearch(k, Reconnect(k)) /\ SameKlauses(k, Reconnect(k))
         /\ UnitsListed(Reconnect(k), Len(k.klauses)) /\ Watched(Reconnect(k), Len(k.klauses))
<1> DEFINE n == Len(k.klauses)
           up == [i \in DOMAIN k.klauses |-> i]
           States(j) == {s \in Kittens : SameSearch(k, s) /\ SameKlauses(k, s)
                                         /\ UnitsListed(s, j) /\ Watched(s, j)}
           Inv == [j \in 0..n |-> States(j)]
<1>1. n \in Nat /\ DOMAIN k.klauses = 1..n
  BY LenProperties DEF Kittens
<1>2. up \in Seq(Nat) /\ Len(up) = n /\ \A i \in 1..n : up[i] = i
  <2>1. up = [i \in 1..n |-> i]
    BY <1>1
  <2>2. up \in Seq(Nat) /\ Len(up) = n
    BY <1>1, <2>1, IsASeq
  <2> QED
    BY <2>1, <2>2
<1> HIDE DEF up
<1>3. k \in Inv[0]
  <2>1. SameSearch(k, k) /\ SameKlauses(k, k)
    BY DEF SameSearch, SameKlauses
  <2> QED
    BY <1>1, <2>1
<1>4. ASSUME NEW j \in 1..n, NEW s \in Inv[j - 1]
      PROVE  Connect(s, up[j]) \in Inv[j]
  <2> DEFINE c == Connect(s, j)
  <2>1. j - 1 \in 0..n /\ j \in 0..n /\ up[j] = j
    BY <1>1, <1>2
  <2>2. /\ s \in Kittens /\ SameSearch(k, s) /\ SameKlauses(k, s)
        /\ UnitsListed(s, j - 1) /\ Watched(s, j - 1)
    BY <2>1
  <2>3. j \in Refs(s) /\ DistinctLits(Klause(s, j).lits)
    BY <2>2 DEF SameKlauses, Refs, Klause
  <2>4. ConnectedTo(s, j, c)
    BY <2>2, <2>3, ConnectWell DEF DistinctLits
  <2> HIDE DEF c
  <2>5. c \in States(j)
    BY <2>2, <2>4 DEF ConnectedTo, SameSearch, SameKlauses
  <2> QED
    BY <2>1, <2>5 DEF c
<1>5. FoldLeft(Connect, k, up) \in Inv[n]
  <2> HIDE DEF Inv
  <2> QED
    BY <1>2, <1>3, <1>4, ConnectingInduction
<1>6. Reconnect(k) = FoldLeft(Connect, k, up)
  BY DEF Reconnect, FoldLeftDomain, up
<1>7. Inv[n] = States(n)
  BY <1>1
<1> QED
  BY <1>5, <1>6, <1>7

LEMMA ShrinkEffect ==
  ASSUME NEW k \in Kittens, Static(k), Answered(k), k.status = 21, k.inconsistent # INVALID,
         \A ref \in Originals(k) : Klause(k, ref).lits # <<>>,
         NEW p, NEW g, FromUser(k, p, g)
  PROVE  /\ ShrinkToClausalCore(k) \in Kittens /\ Static(ShrinkToClausalCore(k))
         /\ ShrinkToClausalCore(k).status = 0
         /\ FromUser(ShrinkToClausalCore(k), p, g)
<1> DEFINE refs  == KeptRefs(k)
           n     == Len(refs)
           moved == [i \in 1..n |-> [Klause(k, refs[i]) EXCEPT !.core = FALSE]]
           none  == [l \in LITS |-> <<>>]
           s     == SearchLast(k)
           b     == [s EXCEPT !.klauses = moved, !.endOriginal = Len(moved), !.units = <<>>,
                       !.watches = none, !.values = {}, !.trail = <<>>,
                       !.propagated = 0, !.level = 0, !.core = {}, !.status = 0]
           r     == Reconnect(b)
           c     == ShrinkToClausalCore(k)
<1>1. /\ Clausal(k) /\ Derived(k) /\ ClausesWell(k) /\ InconsistentWell(k) /\ KnownWell(k)
      /\ \A i, j \in 1..Len(k.queue) : k.queue[i] = k.queue[j] => i = j
  BY DEF Static, Orderly, Clausal, QueueWell
<1>2. k.queue # <<>> /\ k.inconsistent \in Refs(k) /\ k.failed = {} /\ k.failing = INVALID
  BY <1>1 DEF InconsistentWell, Answered
<1>3. /\ s \in Kittens /\ OnlyQueued(k, s) /\ s.queue = k.queue /\ QueueWell(s)
  BY <1>1, <1>2, SearchLastEffect
<1>4. KeptInconsistent(k) = INVALID
  <2>1. Klause(k, k.inconsistent).learned \/ Klause(k, k.inconsistent).lits # <<>>
    <3> SUFFICES ASSUME ~Klause(k, k.inconsistent).learned
                 PROVE  Klause(k, k.inconsistent).lits # <<>>
      OBVIOUS
    <3>1. k.inconsistent <= k.endOriginal /\ k.endOriginal \in Nat
      BY <1>1, <1>2 DEF Derived, Kittens
    <3>2. k.inconsistent \in Originals(k)
      BY <1>2, <3>1 DEF Originals, Refs
    <3> QED
      BY <3>2
  <2> QED
    BY <2>1 DEF KeptInconsistent
<1>5. c = [r EXCEPT !.inconsistent = INVALID]
  BY <1>4 DEF ShrinkToClausalCore
<1>6. /\ refs \in Seq(Nat) /\ n \in Nat
      /\ \A i \in 1..n : refs[i] \in CoreOriginals(k)
  <2>1. refs \in Seq(Nat) /\ ToSet(refs) = CoreOriginals(k)
    BY <1>1, KeptRefsAre
  <2> HIDE DEF refs
  <2> QED
    BY <2>1, SetOfSeq, LenProperties
<1> HIDE DEF refs
<1>7. \A i \in 1..n : /\ refs[i] \in Refs(k) /\ refs[i] \in Originals(k)
                      /\ ~Klause(k, refs[i]).learned
                      /\ Klause(k, refs[i]).antecedents = {}
                      /\ Klause(k, refs[i]) \in Klauses
  <2>1. k.endOriginal \in Nat /\ Len(k.klauses) \in Nat /\ k.endOriginal <= Len(k.klauses)
    BY <1>1, LenProperties DEF Kittens, Derived
  <2>2. \A ref \in CoreOriginals(k) : ref \in Refs(k) /\ ref \in Originals(k) /\ ~Klause(k, ref).learned
    BY <2>1 DEF CoreOriginals, Originals, Refs
  <2>3. \A ref \in CoreOriginals(k) : Klause(k, ref).antecedents = {}
    BY <1>1, <2>2 DEF Derived
  <2>4. \A ref \in CoreOriginals(k) : Klause(k, ref) \in Klauses
    BY <2>2, KlauseType
  <2> QED
    BY <1>6, <2>2, <2>3, <2>4
<1>8. /\ moved \in Seq(Klauses) /\ Len(moved) = n
      /\ \A i \in 1..n : /\ moved[i].lits = Klause(k, refs[i]).lits
                         /\ moved[i].id = Klause(k, refs[i]).id
                         /\ ~moved[i].learned /\ moved[i].antecedents = {}
  <2>1. \A i \in 1..n : [Klause(k, refs[i]) EXCEPT !.core = FALSE] \in Klauses
    <3>1. \A x \in Klauses : [x EXCEPT !.core = FALSE] \in Klauses
      BY DEF Klauses
    <3> QED
      BY <1>7, <3>1
  <2>2. moved \in Seq(Klauses) /\ Len(moved) = n
    BY <1>6, <2>1, IsASeq
  <2>3. ASSUME NEW i \in 1..n
        PROVE  /\ moved[i].lits = Klause(k, refs[i]).lits
               /\ moved[i].id = Klause(k, refs[i]).id
               /\ ~moved[i].learned /\ moved[i].antecedents = {}
    <3>1. moved[i] = [Klause(k, refs[i]) EXCEPT !.core = FALSE]
      OBVIOUS
    <3> HIDE DEF moved
    <3> QED
      BY <1>7, <3>1 DEF Klauses
  <2> HIDE DEF moved
  <2> QED
    BY <2>2, <2>3
<1>9. none \in [LITS -> Seq(Watchers)] /\ \A l \in LITS : none[l] = <<>>
  OBVIOUS
<1>10. <<>> \in Seq(Nat) /\ <<>> \in Seq(LITS)
  OBVIOUS
<1> HIDE DEF moved, none, s
<1>11. b \in Kittens
  <2> DEFINE b1 == [s EXCEPT !.klauses = moved, !.endOriginal = Len(moved), !.units = <<>>, !.watches = none]
             b2 == [b1 EXCEPT !.values = {}, !.trail = <<>>, !.propagated = 0]
  <2>1. b1 \in Kittens
    BY <1>3, <1>6, <1>8, <1>9, <1>10 DEF Kittens
  <2>2. b = [b2 EXCEPT !.level = 0, !.core = {}, !.status = 0]
    OBVIOUS
  <2> HIDE DEF b1
  <2>3. b2 \in Kittens
    BY <1>10, <2>1 DEF Kittens
  <2> HIDE DEF b2, b
  <2>4. 0 \in {0, 10, 20, 21} /\ 0 \in Nat /\ {} \in SUBSET Nat
    OBVIOUS
  <2> QED
    BY <2>2, <2>3, <2>4 DEF Kittens
<1>12. /\ b.klauses = moved /\ b.endOriginal = n /\ b.units = <<>> /\ b.watches = none
       /\ b.values = {} /\ b.trail = <<>> /\ b.status = 0 /\ b.learned = s.learned
       /\ b.antecedents = s.antecedents /\ b.queue = s.queue /\ b.search = s.search
       /\ b.assumptions = s.assumptions /\ b.failed = s.failed /\ b.failing = s.failing
  BY <1>3, <1>8 DEF Kittens
<1> HIDE DEF b
<1>13. /\ Refs(b) = 1..n /\ \A i \in 1..n : Klause(b, i) = moved[i]
  BY <1>8, <1>12 DEF Refs, Klause
<1>14. UnitsListed(b, 0) /\ Watched(b, 0)
  <2>1. 1..0 = {} /\ ToSet(<<>>) = {} /\ Len(<<>>) = 0
    BY DEF ToSet
  <2>2. UnitsListed(b, 0)
    BY <1>12, <2>1 DEF UnitsListed
  <2>3. \A l \in LITS : WatchListOf(b, {}, l, <<>>)
    BY <2>1 DEF WatchListOf
  <2>4. \A l \in LITS : WatchedRefs(b, 0, l) = {}
    BY <2>1 DEF WatchedRefs
  <2> QED
    BY <1>9, <1>12, <2>2, <2>3, <2>4 DEF Watched
<1>15. \A ref \in Refs(b) : /\ Klause(b, ref).lits = Klause(k, refs[ref]).lits
                            /\ DistinctLits(Klause(b, ref).lits)
                            /\ Klause(b, ref).lits # <<>>
                            /\ \A i \in 1..Len(Klause(b, ref).lits) : IDX(Klause(b, ref).lits[i]) \in Knows(k)
  <2> SUFFICES ASSUME NEW ref \in Refs(b)
               PROVE  /\ Klause(b, ref).lits = Klause(k, refs[ref]).lits
                      /\ DistinctLits(Klause(b, ref).lits)
                      /\ Klause(b, ref).lits # <<>>
                      /\ \A i \in 1..Len(Klause(b, ref).lits) : IDX(Klause(b, ref).lits[i]) \in Knows(k)
    OBVIOUS
  <2>1. /\ ref \in 1..n /\ Klause(b, ref).lits = Klause(k, refs[ref]).lits
        /\ refs[ref] \in Refs(k) /\ Klause(k, refs[ref]).lits # <<>>
    BY <1>7, <1>8, <1>13
  <2> QED
    BY <1>1, <2>1 DEF ClausesWell, DistinctLits
<1>16. /\ r \in Kittens /\ SameSearch(b, r) /\ SameKlauses(b, r)
       /\ UnitsListed(r, n) /\ Watched(r, n)
  <2>1. Len(b.klauses) = n
    BY <1>8, <1>12
  <2> QED
    BY <1>11, <1>14, <1>15, <2>1, ReconnectEffect
<1> HIDE DEF r, c
<1>17. c \in Kittens
  BY <1>5, <1>16 DEF Kittens, INVALID
<1>18. /\ c.klauses = r.klauses /\ c.endOriginal = r.endOriginal /\ c.units = r.units
       /\ c.watches = r.watches /\ c.values = r.values /\ c.trail = r.trail /\ c.status = r.status
       /\ c.learned = r.learned /\ c.antecedents = r.antecedents /\ c.queue = r.queue
       /\ c.search = r.search /\ c.assumptions = r.assumptions /\ c.failed = r.failed
       /\ c.failing = r.failing /\ c.inconsistent = INVALID
  BY <1>5, <1>16 DEF Kittens
<1>19. /\ c.klauses = moved /\ c.endOriginal = n /\ c.values = {} /\ c.trail = <<>>
       /\ c.status = 0 /\ c.queue = k.queue /\ c.search = s.search
       /\ c.assumptions = k.assumptions /\ c.failed = {} /\ c.failing = INVALID
  BY <1>2, <1>3, <1>12, <1>16, <1>18 DEF SameSearch, SameKlauses, OnlyQueued
<1>20. /\ Len(c.klauses) = n /\ Refs(c) = 1..n
       /\ \A ref \in Refs(c) : /\ Klause(c, ref) = Klause(b, ref) /\ Klause(c, ref) = moved[ref]
                               /\ ref \in Refs(b)
  BY <1>8, <1>12, <1>13, <1>19 DEF Refs, Klause
<1>21. ClausesWell(c)
  BY <1>15, <1>19, <1>20 DEF ClausesWell, DistinctLits, Knows
<1>22. UnitsListed(c, Len(c.klauses))
  BY <1>16, <1>18, <1>20 DEF UnitsListed, Klause
<1>23. Watched(c, Len(c.klauses))
  BY <1>16, <1>18, <1>20, WatchedFrame
<1>24. Derived(c)
  <2>1. \A ref \in Refs(c) : ~Klause(c, ref).learned /\ Klause(c, ref).antecedents = {} /\ ref <= c.endOriginal
    BY <1>6, <1>8, <1>19, <1>20
  <2> QED
    BY <1>6, <1>19, <1>20, <2>1 DEF Derived
<1>25. InconsistentWell(c) /\ QueueWell(c)
  <2>1. \A i \in 1..Len(k.queue) : i <= Len(k.queue)
    BY QueueType
  <2>2. s.search = k.queue[Len(k.queue)]
    <3>1. s = [k EXCEPT !.search = k.queue[Len(k.queue)]]
      BY DEF s, SearchLast, Last
    <3> QED
      BY <3>1 DEF Kittens
  <2>3. Len(k.queue) \in 1..Len(k.queue)
    BY <1>2, QueueType
  <2> QED
    BY <1>1, <1>18, <1>19, <2>1, <2>2, <2>3 DEF InconsistentWell, QueueWell
<1>26. ValuesWell(c) /\ KnownWell(c) /\ FailedWell(c)
  <2>1. ToSet(<<>>) = {}
    BY DEF ToSet
  <2> QED
    BY <1>1, <1>19, <2>1 DEF ValuesWell, KnownWell, FailedWell, Knows
<1>27. FromUser(c, p, g)
  <2> SUFFICES ASSUME NEW ref \in Originals(c)
               PROVE  /\ Klause(c, ref).id \in 1..g
                      /\ Lits(c, ref) = ToSet(p.clauses[Klause(c, ref).id])
    BY DEF FromUser
  <2>1. ref \in 1..n
    BY <1>19 DEF Originals
  <2>2. /\ Klause(c, ref).id = Klause(k, refs[ref]).id
        /\ Klause(c, ref).lits = Klause(k, refs[ref]).lits
        /\ refs[ref] \in Originals(k)
    BY <1>7, <1>8, <1>20, <2>1
  <2>3. Lits(c, ref) = Lits(k, refs[ref])
    BY <2>2 DEF Lits
  <2> QED
    BY <2>2, <2>3 DEF FromUser
<1> QED
  BY <1>17, <1>19, <1>21, <1>22, <1>23, <1>24, <1>25, <1>26, <1>27 DEF Static, Orderly, Clausal, c

-----------------------------------------------------------------------------
(* Watching another literal. *)

(* The clauses of c are those of k, with literals in another order. *)
Permuted(k, c) ==
  /\ Len(c.klauses) = Len(k.klauses)
  /\ \A ref \in Refs(k) :
       /\ Klause(c, ref).id = Klause(k, ref).id
       /\ Klause(c, ref).antecedents = Klause(k, ref).antecedents
       /\ (Klause(c, ref).learned <=> Klause(k, ref).learned)
       /\ (Klause(c, ref).core <=> Klause(k, ref).core)
       /\ Lits(c, ref) = Lits(k, ref)
       /\ Len(Klause(c, ref).lits) = Len(Klause(k, ref).lits)
       /\ DistinctLits(Klause(k, ref).lits) => DistinctLits(Klause(c, ref).lits)
       /\ ~Large(k, ref) => Klause(c, ref).lits = Klause(k, ref).lits

(* Nothing but the clauses and the watch lists differs. *)
OnlyRewatched(k, c) ==
  /\ c.status = k.status /\ c.antecedents = k.antecedents /\ c.learned = k.learned
  /\ c.endOriginal = k.endOriginal /\ c.units = k.units /\ c.values = k.values
  /\ c.level = k.level /\ c.levelOf = k.levelOf /\ c.reason = k.reason
  /\ c.trail = k.trail /\ c.propagated = k.propagated /\ c.phases = k.phases
  /\ c.queue = k.queue /\ c.search = k.search /\ c.assumptions = k.assumptions
  /\ c.failed = k.failed /\ c.failing = k.failing /\ c.inconsistent = k.inconsistent
  /\ c.core = k.core

Rewatched(k, c) == c \in Kittens /\ Permuted(k, c) /\ OnlyRewatched(k, c)

LEMMA RewatchedFrame ==
  ASSUME NEW k \in Kittens, NEW c, Rewatched(k, c), Derived(k)
  PROVE  /\ Refs(c) = Refs(k) /\ Originals(c) = Originals(k) /\ Originals(k) \subseteq Refs(k)
         /\ Knows(c) = Knows(k) /\ Unassigned(c) = Unassigned(k) /\ FoundIn(c) = FoundIn(k)
         /\ \A ref \in Refs(k) : Lits(c, ref) = Lits(k, ref)
<1>1. Refs(c) = Refs(k) /\ \A ref \in Refs(k) : Lits(c, ref) = Lits(k, ref)
  BY DEF Rewatched, Permuted, Refs
<1>2. k.endOriginal \in Nat /\ Len(k.klauses) \in Nat /\ k.endOriginal <= Len(k.klauses)
  BY LenProperties DEF Derived, Kittens
<1>3. \A ref \in 1..k.endOriginal : ref \in Refs(k)
  BY <1>2 DEF Refs
<1>4. Originals(c) = Originals(k) /\ Originals(k) \subseteq Refs(k)
  BY <1>3 DEF Originals, Rewatched, Permuted, OnlyRewatched
<1>5. Knows(c) = Knows(k) /\ Unassigned(c) = Unassigned(k) /\ FoundIn(c) = FoundIn(k)
  BY DEF Rewatched, OnlyRewatched, Knows, Unassigned, IsTrue, IsFalse, FoundIn
<1> QED
  BY <1>1, <1>4, <1>5

LEMMA RewatchedClausal ==
  ASSUME NEW k \in Kittens, NEW c, Rewatched(k, c), Clausal(k)
  PROVE  Clausal(c)
<1>1. /\ Refs(c) = Refs(k) /\ Originals(c) = Originals(k) /\ Originals(k) \subseteq Refs(k)
      /\ Knows(c) = Knows(k)
      /\ \A ref \in Refs(k) : Lits(c, ref) = Lits(k, ref)
  BY RewatchedFrame DEF Clausal
<1>2. /\ Len(c.klauses) = Len(k.klauses) /\ c.units = k.units /\ c.queue = k.queue
      /\ c.inconsistent = k.inconsistent /\ c.endOriginal = k.endOriginal
      /\ c.learned = k.learned /\ c.antecedents = k.antecedents /\ c \in Kittens
  BY DEF Rewatched, Permuted, OnlyRewatched
<1>3. \A ref \in Refs(k) :
        /\ Klause(c, ref).antecedents = Klause(k, ref).antecedents
        /\ (Klause(c, ref).learned <=> Klause(k, ref).learned)
        /\ Len(Klause(c, ref).lits) = Len(Klause(k, ref).lits)
        /\ DistinctLits(Klause(k, ref).lits) => DistinctLits(Klause(c, ref).lits)
        /\ ~Large(k, ref) => Klause(c, ref).lits = Klause(k, ref).lits
  BY DEF Rewatched, Permuted
<1>4. ClausesWell(c)
  <2> SUFFICES ASSUME NEW ref \in Refs(c)
               PROVE  LET lits == Klause(c, ref).lits
                      IN  /\ \A i, j \in 1..Len(lits) : IDX(lits[i]) = IDX(lits[j]) => i = j
                          /\ \A i \in 1..Len(lits) : IDX(lits[i]) \in Knows(c)
                          /\ lits = <<>> => c.inconsistent # INVALID
    BY DEF ClausesWell
  <2> DEFINE lits == Klause(k, ref).lits
             perm == Klause(c, ref).lits
  <2>1. /\ \A i, j \in 1..Len(lits) : IDX(lits[i]) = IDX(lits[j]) => i = j
        /\ \A i \in 1..Len(lits) : IDX(lits[i]) \in Knows(k)
        /\ lits = <<>> => k.inconsistent # INVALID
    BY <1>1 DEF Clausal, ClausesWell
  <2>2. /\ lits \in Seq(LITS) /\ perm \in Seq(LITS)
        /\ Lits(k, ref) = {lits[i] : i \in 1..Len(lits)}
        /\ Lits(c, ref) = {perm[i] : i \in 1..Len(perm)}
    BY <1>1, <1>2, KlauseType
  <2>3. Len(perm) = Len(lits) /\ (DistinctLits(lits) => DistinctLits(perm)) /\ Lits(c, ref) = Lits(k, ref)
    BY <1>1, <1>3
  <2> HIDE DEF lits, perm
  <2>4. \A i, j \in 1..Len(perm) : IDX(perm[i]) = IDX(perm[j]) => i = j
    BY <2>1, <2>3 DEF DistinctLits
  <2>5. \A i \in 1..Len(perm) : IDX(perm[i]) \in Knows(c)
    <3> SUFFICES ASSUME NEW i \in 1..Len(perm)
                 PROVE  IDX(perm[i]) \in Knows(c)
      OBVIOUS
    <3>1. perm[i] \in Lits(k, ref)
      BY <2>2, <2>3
    <3>2. PICK j \in 1..Len(lits) : lits[j] = perm[i]
      BY <2>2, <3>1
    <3> QED
      BY <1>1, <2>1, <3>2
  <2>6. perm = <<>> => c.inconsistent # INVALID
    BY <1>2, <2>1, <2>2, <2>3, EmptySeq
  <2> QED
    BY <2>4, <2>5, <2>6 DEF perm
<1>5. UnitsListed(c, Len(c.klauses))
  <2>1. {ref \in 1..Len(k.klauses) : Len(Klause(c, ref).lits) = 1}
          = {ref \in 1..Len(k.klauses) : Len(Klause(k, ref).lits) = 1}
    BY <1>3 DEF Refs
  <2> QED
    BY <1>2, <2>1 DEF Clausal, UnitsListed
<1>6. \A refs \in SUBSET Refs(k) : \A C : Follows(k, refs, C) => Follows(c, refs, C)
  BY <1>1, FollowsFrame
<1>7. Derived(c)
  <2> SUFFICES ASSUME NEW ref \in Refs(c)
               PROVE  IF Klause(c, ref).learned
                      THEN /\ c.learned
                           /\ Follows(c, Originals(c), Lits(c, ref))
                           /\ c.antecedents => /\ Klause(c, ref).antecedents \subseteq 1 .. ref - 1
                                               /\ Follows(c, Klause(c, ref).antecedents, Lits(c, ref))
                      ELSE ref <= c.endOriginal /\ Klause(c, ref).antecedents = {}
    BY <1>2 DEF Derived, Clausal
  <2>1. IF Klause(k, ref).learned
        THEN /\ k.learned
             /\ Follows(k, Originals(k), Lits(k, ref))
             /\ k.antecedents => /\ Klause(k, ref).antecedents \subseteq 1 .. ref - 1
                                 /\ Follows(k, Klause(k, ref).antecedents, Lits(k, ref))
        ELSE ref <= k.endOriginal /\ Klause(k, ref).antecedents = {}
    BY <1>1 DEF Derived, Clausal
  <2>2. 1 .. ref - 1 \subseteq Refs(k)
    BY <1>1, LenProperties DEF Refs, Kittens
  <2>3. CASE Klause(k, ref).learned
    <3>1. Klause(c, ref).learned
      BY <1>1, <1>3, <2>3
    <3>2. c.learned
      BY <1>2, <2>1, <2>3
    <3>3. Follows(c, Originals(c), Lits(c, ref))
      BY <1>1, <1>6, <2>1, <2>3
    <3>4. c.antecedents => /\ Klause(c, ref).antecedents \subseteq 1 .. ref - 1
                           /\ Follows(c, Klause(c, ref).antecedents, Lits(c, ref))
      BY <1>1, <1>2, <1>3, <1>6, <2>1, <2>2, <2>3
    <3> QED
      BY <3>1, <3>2, <3>3, <3>4
  <2>4. CASE ~Klause(k, ref).learned
    BY <1>1, <1>2, <1>3, <2>1, <2>4
  <2> QED
    BY <2>3, <2>4
<1>8. InconsistentWell(c)
  <2>1. \A M : SatisfiesAll(c, M, Originals(k)) <=> SatisfiesAll(k, M, Originals(k))
    BY <1>1, SatisfiesFrame
  <2> QED
    BY <1>1, <1>2, <2>1 DEF Clausal, InconsistentWell
<1> QED
  BY <1>4, <1>5, <1>7, <1>8 DEF Clausal

LEMMA RewatchedOrderly ==
  ASSUME NEW k \in Kittens, NEW c, Rewatched(k, c), Orderly(k)
  PROVE  Orderly(c)
<1>1. Clausal(c)
  BY RewatchedClausal DEF Orderly
<1>2. Refs(c) = Refs(k) /\ Knows(c) = Knows(k) /\ Unassigned(c) = Unassigned(k)
  BY RewatchedFrame DEF Orderly, Clausal
<1>3. /\ c.queue = k.queue /\ c.search = k.search /\ c.values = k.values /\ c.trail = k.trail
      /\ c.assumptions = k.assumptions /\ c.failed = k.failed /\ c.failing = k.failing
      /\ c.status = k.status
      /\ \A ref \in Refs(k) : ~Large(k, ref) => Klause(c, ref).lits = Klause(k, ref).lits
  BY DEF Rewatched, OnlyRewatched, Permuted
<1>4. QueueWell(c) /\ KnownWell(c) /\ FailedWell(c)
  BY <1>2, <1>3 DEF Orderly, QueueWell, KnownWell, FailedWell
<1>5. \A ref \in Refs(k) : \A l : Klause(k, ref).lits = <<l>> => Klause(c, ref).lits = <<l>>
  <2> SUFFICES ASSUME NEW ref \in Refs(k), NEW l, Klause(k, ref).lits = <<l>>
               PROVE  ~Large(k, ref)
    BY <1>3
  <2>1. Len(<<l>>) = 1
    OBVIOUS
  <2> QED
    BY <2>1 DEF Large
<1>6. ValuesWell(c)
  BY <1>2, <1>3, <1>5 DEF Orderly, ValuesWell
<1> QED
  BY <1>1, <1>4, <1>6 DEF Orderly

LEMMA RewatchedFromUser ==
  ASSUME NEW k \in Kittens, NEW c, Rewatched(k, c), Derived(k), NEW p, NEW g, FromUser(k, p, g)
  PROVE  FromUser(c, p, g)
BY RewatchedFrame DEF FromUser, Rewatched, Permuted

LEMMA RewatchedTrans ==
  ASSUME NEW k, NEW b, NEW c, Rewatched(k, b), Rewatched(b, c)
  PROVE  Rewatched(k, c)
<1>1. OnlyRewatched(k, c)
  BY DEF Rewatched, OnlyRewatched
<1>2. Refs(b) = Refs(k) /\ Len(c.klauses) = Len(k.klauses)
  BY DEF Rewatched, Permuted, Refs
<1>3. \A ref \in Refs(k) : Large(b, ref) <=> Large(k, ref)
  BY DEF Rewatched, Permuted, Large
<1>4. Permuted(k, c)
  BY <1>2, <1>3 DEF Rewatched, Permuted
<1> QED
  BY <1>1, <1>4 DEF Rewatched

-----------------------------------------------------------------------------
(* Visiting the watches of a literal. *)

(* The watches in kept were visited, those of the clauses rest were not. *)
Visiting(k, lit, kept, rest) ==
  /\ \A l \in LITS \ {lit} : WatchListOf(k, WatchedRefs(k, Len(k.klauses), l), l, k.watches[l])
  /\ rest \subseteq WatchedRefs(k, Len(k.klauses), lit)
  /\ WatchListOf(k, WatchedRefs(k, Len(k.klauses), lit) \ rest, lit, kept)

(* The clauses whose watches come after the first j of the list. *)
RestOf(list, j) == {list[i].ref : i \in j + 1 .. Len(list)}

LEMMA RestNext ==
  ASSUME NEW list \in Seq(Watchers), NEW j \in 1..Len(list),
         \A i1, i2 \in 1..Len(list) : list[i1].ref = list[i2].ref => i1 = i2
  PROVE  /\ list[j] \in Watchers /\ list[j].ref \in RestOf(list, j - 1)
         /\ RestOf(list, j) = RestOf(list, j - 1) \ {list[j].ref}
<1>1. Len(list) \in Nat /\ j \in Nat /\ list[j] \in Watchers /\ (j - 1) + 1 = j
  BY LenProperties
<1>2. \A i \in j .. Len(list) : i = j \/ i \in j + 1 .. Len(list)
  BY <1>1
<1>3. \A i \in j + 1 .. Len(list) : i \in j .. Len(list) /\ i # j /\ i \in 1..Len(list)
  BY <1>1
<1>4. RestOf(list, j - 1) = {list[i].ref : i \in j .. Len(list)}
  BY <1>1 DEF RestOf
<1>5. list[j].ref \in RestOf(list, j - 1)
  BY <1>1, <1>4
<1>6. ASSUME NEW x \in RestOf(list, j)
      PROVE  x \in RestOf(list, j - 1) \ {list[j].ref}
  <2>1. PICK i \in j + 1 .. Len(list) : list[i].ref = x
    BY DEF RestOf
  <2> QED
    BY <1>3, <1>4, <2>1
<1>7. ASSUME NEW x \in RestOf(list, j - 1) \ {list[j].ref}
      PROVE  x \in RestOf(list, j)
  <2>1. PICK i \in j .. Len(list) : list[i].ref = x
    BY <1>4
  <2> QED
    BY <1>2, <2>1 DEF RestOf
<1> QED
  BY <1>1, <1>5, <1>6, <1>7

LEMMA RestEnds ==
  ASSUME NEW list \in Seq(Watchers)
  PROVE  /\ RestOf(list, 0) = {list[i].ref : i \in 1..Len(list)}
         /\ RestOf(list, Len(list)) = {}
<1>1. Len(list) \in Nat /\ 0 + 1 = 1
  BY LenProperties
<1>2. Len(list) + 1 .. Len(list) = {}
  BY <1>1
<1> QED
  BY <1>1, <1>2 DEF RestOf

LEMMA VisitFirst ==
  ASSUME NEW k \in Kittens, Watched(k, Len(k.klauses)), NEW lit \in LITS
  PROVE  /\ Visiting(k, lit, <<>>, RestOf(k.watches[lit], 0))
         /\ k.watches[lit] \in Seq(Watchers)
         /\ \A i \in 1..Len(k.watches[lit]) :
              k.watches[lit][i].ref \in WatchedRefs(k, Len(k.klauses), lit)
         /\ \A i, j \in 1..Len(k.watches[lit]) :
              k.watches[lit][i].ref = k.watches[lit][j].ref => i = j
         /\ \A i \in 1..Len(k.watches[lit]) :
              k.watches[lit][i].blit \in Lits(k, k.watches[lit][i].ref) \ {lit}
<1>1. k.watches[lit] \in Seq(Watchers)
  BY DEF Kittens
<1>2. \A l \in LITS : WatchListOf(k, WatchedRefs(k, Len(k.klauses), l), l, k.watches[l])
  BY DEF Watched
<1>3. WatchListOf(k, {}, lit, <<>>)
  BY DEF WatchListOf
<1>4. RestOf(k.watches[lit], 0) = WatchedRefs(k, Len(k.klauses), lit)
  BY <1>1, <1>2, RestEnds DEF WatchListOf
<1>5. Visiting(k, lit, <<>>, RestOf(k.watches[lit], 0))
  <2>1. WatchedRefs(k, Len(k.klauses), lit) \ RestOf(k.watches[lit], 0) = {}
    BY <1>4
  <2> QED
    BY <1>2, <1>3, <1>4, <2>1 DEF Visiting
<1> QED
  BY <1>1, <1>2, <1>5 DEF WatchListOf

(* A watch is kept, perhaps with another blocking literal. *)
LEMMA VisitKeep ==
  ASSUME NEW k, NEW lit, NEW kept \in Seq(Watchers), NEW rest, Visiting(k, lit, kept, rest),
         NEW w \in Watchers, w.ref \in rest, w.blit \in Lits(k, w.ref) \ {lit}
  PROVE  Visiting(k, lit, Append(kept, w), rest \ {w.ref})
<1> DEFINE all == WatchedRefs(k, Len(k.klauses), lit)
<1>1. WatchListOf(k, (all \ rest) \cup {w.ref}, lit, Append(kept, w))
  BY AppendWatch DEF Visiting
<1>2. (all \ rest) \cup {w.ref} = all \ (rest \ {w.ref})
  BY DEF Visiting
<1> QED
  BY <1>1, <1>2 DEF Visiting

LEMMA VisitDone ==
  ASSUME NEW k \in Kittens, NEW lit \in LITS, NEW kept \in Seq(Watchers), Visiting(k, lit, kept, {}),
         NEW c, c.klauses = k.klauses, c.watches = [k.watches EXCEPT ![lit] = kept]
  PROVE  Watched(c, Len(c.klauses))
<1>1. \A l \in LITS : c.watches[l] = IF l = lit THEN kept ELSE k.watches[l]
  BY DEF Kittens
<1>2. \A l \in LITS : WatchListOf(k, WatchedRefs(k, Len(k.klauses), l), l, c.watches[l])
  BY <1>1 DEF Visiting
<1> QED
  BY <1>2 DEF Watched, WatchListOf, WatchedRefs, Large, Lits, Klause

(* The watched literals of a clause change places with another one. *)
SwapOf(lits, lit, other, r, perm) ==
  /\ lit \in {lits[1], lits[2]}
  /\ other = IF lits[1] = lit THEN lits[2] ELSE lits[1]
  /\ perm = [lits EXCEPT ![1] = other, ![2] = lits[r], ![r] = lit]

LEMMA Swapped ==
  ASSUME NEW lits \in Seq(LITS), DistinctLits(lits), NEW r \in 3..Len(lits),
         NEW lit, NEW other, NEW perm, SwapOf(lits, lit, other, r, perm)
  PROVE  /\ perm \in Seq(LITS) /\ Len(perm) = Len(lits) /\ ToSet(perm) = ToSet(lits)
         /\ DistinctLits(perm) /\ perm[1] = other /\ perm[2] = lits[r]
         /\ {perm[1], perm[2]} = ({lits[1], lits[2]} \ {lit}) \cup {lits[r]}
<1> DEFINE n == Len(lits)
           o == IF lits[1] = lit THEN 2 ELSE 1
           P(i) == IF i = 1 THEN o ELSE IF i = 2 THEN r ELSE IF i = r THEN 3 - o ELSE i
<1>1. n \in Nat /\ r \in Nat /\ r > 2 /\ r <= n /\ DOMAIN lits = 1..n
  BY LenProperties
<1>2. 1 \in 1..n /\ 2 \in 1..n /\ r \in 1..n
  BY <1>1
<1>3. \A i \in 1..n : lits[i] \in LITS
  BY <1>1
<1>4. \A i, j \in 1..n : lits[i] = lits[j] => i = j
  BY DEF DistinctLits
<1>5. lits[1] # lits[2] /\ lits[1] # lits[r] /\ lits[2] # lits[r]
  BY <1>1, <1>2, <1>4
<1>6. o \in {1, 2} /\ 3 - o \in {1, 2} /\ 3 - o # o /\ lits[o] = other /\ lits[3 - o] = lit
  BY <1>5 DEF SwapOf
<1>7. \A i \in 1..n : P(i) \in 1..n /\ perm[i] = lits[P(i)]
  BY <1>1, <1>2, <1>6 DEF SwapOf
<1>8. perm \in [1..n -> LITS]
  BY <1>1, <1>2, <1>3, <1>6 DEF SwapOf
<1>9. \A i, j \in 1..n : P(i) = P(j) => i = j
  BY <1>1, <1>6
<1>10. \A j \in 1..n : \E i \in 1..n : P(i) = j
  <2> SUFFICES ASSUME NEW j \in 1..n
               PROVE  \E i \in 1..n : P(i) = j
    OBVIOUS
  <2>1. CASE j = o
    BY <1>2, <2>1
  <2>2. CASE j = 3 - o
    <3>1. P(r) = j
      BY <1>1, <2>2
    <3> QED
      BY <1>2, <3>1
  <2>3. CASE j = r
    BY <1>2, <2>3
  <2>4. CASE j # r /\ j # o /\ j # 3 - o
    <3>1. j # 1 /\ j # 2
      BY <1>6, <2>4
    <3> QED
      BY <2>4, <3>1
  <2> QED
    BY <2>1, <2>2, <2>3, <2>4
<1> HIDE DEF P, o
<1>11. perm \in Seq(LITS) /\ Len(perm) = n /\ DOMAIN perm = 1..n
  <2>1. perm \in Seq(LITS)
    BY <1>1, <1>8 DEF Seq
  <2>2. DOMAIN perm = 1..n
    BY <1>8
  <2> QED
    BY <1>1, <2>1, <2>2, LenProperties
<1> HIDE DEF n
<1>12. ToSet(perm) = {perm[i] : i \in 1..n} /\ ToSet(lits) = {lits[i] : i \in 1..n}
  <2>1. DOMAIN lits = 1..n
    BY <1>1 DEF n
  <2> QED
    BY <1>11, <2>1 DEF ToSet
<1>13. ToSet(perm) = ToSet(lits)
  <2>1. \A i \in 1..n : perm[i] \in {lits[j] : j \in 1..n}
    BY <1>7
  <2>2. ASSUME NEW j \in 1..n
        PROVE  lits[j] \in {perm[i] : i \in 1..n}
    <3>1. PICK i \in 1..n : P(i) = j
      BY <1>10
    <3>2. perm[i] = lits[j]
      BY <1>7, <3>1
    <3> QED
      BY <3>2
  <2>3. {perm[i] : i \in 1..n} = {lits[i] : i \in 1..n}
    BY <2>1, <2>2, Zenon
  <2> QED
    BY <1>12, <2>3
<1>14. DistinctLits(perm)
  <2> SUFFICES ASSUME NEW i \in 1..n, NEW j \in 1..n, IDX(perm[i]) = IDX(perm[j])
               PROVE  i = j
    BY <1>11 DEF DistinctLits
  <2>1. P(i) \in 1..n /\ P(j) \in 1..n /\ IDX(lits[P(i)]) = IDX(lits[P(j)])
    BY <1>7
  <2>2. P(i) = P(j)
    BY <2>1 DEF DistinctLits, n
  <2> QED
    BY <1>9, <2>2
<1>15. perm[1] = other /\ perm[2] = lits[r]
  BY <1>2, <1>6, <1>7 DEF P
<1> QED
  BY <1>5, <1>11, <1>13, <1>14, <1>15 DEF n, SwapOf

-----------------------------------------------------------------------------
(* Replacing a watch. *)

LEMMA ReplaceEffect ==
  ASSUME NEW k \in Kittens, Orderly(k), NEW lit \in LITS, NEW kept \in Seq(Watchers), NEW rest,
         Visiting(k, lit, kept, rest), NEW ref \in rest, NEW r \in 3..Len(Klause(k, ref).lits)
  PROVE  LET c == Replace(k, lit, ref, r)
         IN  /\ Rewatched(k, c) /\ Visiting(c, lit, kept, rest \ {ref})
             /\ \A q \in Refs(k) \ {ref} : Klause(c, q) = Klause(k, q)
             /\ Klause(c, ref).lits[1] = OtherWatch(k, lit, ref)
             /\ Klause(c, ref).lits[2] = Klause(k, ref).lits[r]
<1> DEFINE lits == Klause(k, ref).lits
           other == OtherWatch(k, lit, ref)
           perm == [lits EXCEPT ![1] = other, ![2] = lits[r], ![r] = lit]
           k1 == [k EXCEPT !.klauses[ref].lits = perm]
           c == Replace(k, lit, ref, r)
           n == Len(k.klauses)
<1>1. c = Watch(k1, ref, 2)
  BY DEF Replace
<1>2. ref \in Refs(k) /\ Large(k, ref) /\ lit \in {lits[1], lits[2]} /\ Refs(k) = 1..n
  BY DEF Visiting, WatchedRefs, Refs
<1>3. /\ lits \in Seq(LITS) /\ DistinctLits(lits) /\ Klause(k, ref) \in Klauses
      /\ Len(lits) \in Nat /\ Len(lits) > 1 /\ lits[1] \in LITS /\ lits[2] \in LITS
  <2>1. /\ lits \in Seq(LITS) /\ Klause(k, ref) \in Klauses /\ Len(lits) \in Nat
        /\ \A i \in 1..Len(lits) : lits[i] \in LITS
    BY <1>2, KlauseType
  <2>2. DistinctLits(lits) /\ Len(lits) > 1
    BY <1>2 DEF Orderly, Clausal, ClausesWell, DistinctLits, Large
  <2>3. 1 \in 1..Len(lits) /\ 2 \in 1..Len(lits)
    BY <2>1, <2>2
  <2> QED
    BY <2>1, <2>2, <2>3
<1>4. /\ perm \in Seq(LITS) /\ Len(perm) = Len(lits) /\ ToSet(perm) = ToSet(lits)
      /\ DistinctLits(perm) /\ perm[1] = other /\ perm[2] = lits[r]
      /\ {perm[1], perm[2]} = ({lits[1], lits[2]} \ {lit}) \cup {lits[r]}
  <2>1. other = IF lits[1] = lit THEN lits[2] ELSE lits[1]
    BY DEF OtherWatch
  <2>2. SwapOf(lits, lit, other, r, perm)
    BY <1>2, <2>1 DEF SwapOf
  <2>3. r \in 3..Len(lits)
    OBVIOUS
  <2> HIDE DEF other, perm, lits
  <2>4. lits \in Seq(LITS) /\ DistinctLits(lits)
    BY <1>3
  <2>5. perm \in Seq(LITS)
    BY <2>2, <2>3, <2>4, Swapped
  <2>6. Len(perm) = Len(lits) /\ DistinctLits(perm) /\ ToSet(perm) = ToSet(lits)
    BY <2>2, <2>3, <2>4, Swapped
  <2>7. perm[1] = other /\ perm[2] = lits[r]
    BY <2>2, <2>3, <2>4, Swapped
  <2>8. {perm[1], perm[2]} = ({lits[1], lits[2]} \ {lit}) \cup {lits[r]}
    <3>1. 1 \in 1..Len(lits) /\ 2 \in 1..Len(lits)
      BY <1>3
    <3>2. lits[1] # lits[2]
      BY <2>4, <3>1 DEF DistinctLits
    <3> QED
      BY <1>2, <2>1, <2>7, <3>2
  <2> QED
    BY <2>5, <2>6, <2>7, <2>8
<1>5. /\ lits[r] \notin {lits[1], lits[2]} /\ lits[r] # lit /\ perm[1] # perm[2] /\ lits[r] \in LITS
      /\ {perm[1], perm[2]} \subseteq ToSet(lits)
  <2>1. r \in 1..Len(lits) /\ 1 \in 1..Len(lits) /\ 2 \in 1..Len(lits) /\ r # 1 /\ r # 2
    BY <1>3
  <2>2. lits[r] # lits[1] /\ lits[r] # lits[2] /\ lits[r] \in LITS
    BY <1>3, <2>1 DEF DistinctLits
  <2>3. perm[1] # perm[2]
    BY <1>3, <1>4, <2>1 DEF DistinctLits
  <2> HIDE DEF lits, perm
  <2>4. ToSet(perm) = {perm[i] : i \in 1..Len(perm)}
    BY <1>4, SetOfSeq
  <2> QED
    BY <1>2, <1>4, <2>1, <2>2, <2>3, <2>4
<1> HIDE DEF perm, lits
<1> DEFINE klause == [Klause(k, ref) EXCEPT !.lits = perm]
           klauses == [k.klauses EXCEPT ![ref] = klause]
<1>6. /\ klause \in Klauses /\ klause.lits = perm /\ klause.id = Klause(k, ref).id
      /\ klause.antecedents = Klause(k, ref).antecedents
      /\ (klause.learned <=> Klause(k, ref).learned) /\ (klause.core <=> Klause(k, ref).core)
  BY <1>3, <1>4 DEF Klauses
<1>7. k1 = [k EXCEPT !.klauses = klauses]
  BY <1>2 DEF Kittens, Klause, Refs
<1> HIDE DEF klause, k1
<1>8. /\ klauses \in Seq(Klauses) /\ Len(klauses) = n
      /\ klauses[ref] = klause /\ \A q \in 1..n : q # ref => klauses[q] = k.klauses[q]
  <2>1. k.klauses \in Seq(Klauses) /\ DOMAIN k.klauses = 1..n
    BY LenProperties DEF Kittens
  <2> QED
    BY <1>2, <1>6, <2>1, ExceptSeq
<1> HIDE DEF klauses
<1>9. k1 \in Kittens
  BY <1>7, <1>8 DEF Kittens
<1>10. OnlyRewatched(k, k1) /\ k1.klauses = klauses /\ k1.watches = k.watches
  BY <1>7, <1>8 DEF OnlyRewatched, Kittens
<1>11. /\ ref \in Refs(k1) /\ Large(k1, ref) /\ Klause(k1, ref) = klause
       /\ \A q \in 1..n : q # ref => Klause(k1, q) = Klause(k, q)
  BY <1>2, <1>3, <1>4, <1>6, <1>8, <1>10 DEF Refs, Large, Klause
<1>12. /\ WatchOf(k1, ref, 2) \in Watchers
       /\ c \in Kittens
       /\ SameSearch(k1, c)
       /\ SameKlauses(k1, c)
       /\ c.units = k1.units
       /\ c.inconsistent = k1.inconsistent
       /\ \A l \in LITS : c.watches[l] =
            IF l = Klause(k1, ref).lits[2] THEN Append(k1.watches[l], WatchOf(k1, ref, 2))
                                           ELSE k1.watches[l]
  BY <1>1, <1>9, <1>11, WatchFields
<1> HIDE DEF c
<1> DEFINE w == WatchOf(k1, ref, 2)
<1>13. w \in Watchers /\ w.ref = ref /\ w.blit = perm[1]
  BY <1>6, <1>11, <1>12 DEF WatchOf
<1> HIDE DEF w
<1>14. \A l \in LITS : c.watches[l] = IF l = lits[r] THEN Append(k.watches[l], w) ELSE k.watches[l]
  BY <1>4, <1>6, <1>10, <1>11, <1>12 DEF w
<1>15. OnlyRewatched(k, c) /\ c.klauses = klauses
  BY <1>10, <1>12 DEF OnlyRewatched, SameSearch, SameKlauses
<1>16. /\ Klause(c, ref) = klause /\ Len(c.klauses) = n
       /\ \A q \in 1..n : q # ref => Klause(c, q) = Klause(k, q)
  BY <1>8, <1>15 DEF Klause
<1>17. \A q \in 1..n : Lits(c, q) = Lits(k, q)
  <2>1. Lits(c, ref) = Lits(k, ref)
    BY <1>4, <1>6, <1>16 DEF Lits, lits
  <2> QED
    BY <1>16, <2>1 DEF Lits
<1>18. Rewatched(k, c)
  <2>1. ASSUME NEW q \in Refs(k)
        PROVE  /\ Klause(c, q).id = Klause(k, q).id
               /\ Klause(c, q).antecedents = Klause(k, q).antecedents
               /\ (Klause(c, q).learned <=> Klause(k, q).learned)
               /\ (Klause(c, q).core <=> Klause(k, q).core)
               /\ Lits(c, q) = Lits(k, q)
               /\ Len(Klause(c, q).lits) = Len(Klause(k, q).lits)
               /\ DistinctLits(Klause(k, q).lits) => DistinctLits(Klause(c, q).lits)
               /\ ~Large(k, q) => Klause(c, q).lits = Klause(k, q).lits
    <3>1. CASE q = ref
      BY <1>2, <1>4, <1>6, <1>16, <1>17, <3>1 DEF lits
    <3>2. CASE q # ref
      BY <1>2, <1>16, <1>17, <3>2
    <3> QED
      BY <3>1, <3>2
  <2>2. Permuted(k, c)
    BY <1>16, <2>1 DEF Permuted
  <2> QED
    BY <1>12, <1>15, <2>2 DEF Rewatched
<1>19. ASSUME NEW l \in LITS
       PROVE  WatchedRefs(c, n, l) = IF l = lits[r] THEN WatchedRefs(k, n, l) \cup {ref}
                                     ELSE IF l = lit THEN WatchedRefs(k, n, l) \ {ref}
                                     ELSE WatchedRefs(k, n, l)
  <2>1. \A q \in 1..n : q # ref => (q \in WatchedRefs(c, n, l) <=> q \in WatchedRefs(k, n, l))
    BY <1>16 DEF WatchedRefs, Large
  <2>2. ref \in WatchedRefs(c, n, l) <=> l \in {perm[1], perm[2]}
    BY <1>2, <1>3, <1>4, <1>6, <1>16 DEF WatchedRefs, Large
  <2>3. ref \in WatchedRefs(k, n, l) <=> l \in {lits[1], lits[2]}
    BY <1>2 DEF WatchedRefs, lits
  <2>4. WatchedRefs(c, n, l) \subseteq 1..n /\ WatchedRefs(k, n, l) \subseteq 1..n
    BY DEF WatchedRefs
  <2>5. l \in {perm[1], perm[2]} <=> (l = lits[r] \/ (l \in {lits[1], lits[2]} /\ l # lit))
    BY <1>4
  <2>6. \A q \in WatchedRefs(c, n, l) \cup WatchedRefs(k, n, l) : q = ref \/ (q \in 1..n /\ q # ref)
    BY <2>4
  <2>7. CASE l = lits[r]
    <3>1. ref \in WatchedRefs(c, n, l)
      BY <2>2, <2>5, <2>7
    <3> QED
      BY <2>1, <2>6, <2>7, <3>1
  <2>8. CASE l = lit
    <3>1. ref \notin WatchedRefs(c, n, l) /\ l # lits[r]
      BY <1>5, <2>2, <2>5, <2>8
    <3> QED
      BY <2>1, <2>6, <2>8, <3>1
  <2>9. CASE l # lits[r] /\ l # lit
    <3>1. ref \in WatchedRefs(c, n, l) <=> ref \in WatchedRefs(k, n, l)
      BY <2>2, <2>3, <2>5, <2>9
    <3>2. \A q : q \in WatchedRefs(c, n, l) <=> q \in WatchedRefs(k, n, l)
      BY <2>1, <2>6, <3>1
    <3> QED
      BY <2>9, <3>2
  <2> QED
    BY <2>7, <2>8, <2>9
<1>20. ASSUME NEW l \in LITS \ {lit}
       PROVE  WatchListOf(c, WatchedRefs(c, n, l), l, c.watches[l])
  <2>1. WatchListOf(k, WatchedRefs(k, n, l), l, k.watches[l])
    BY DEF Visiting
  <2>2. WatchListOf(c, WatchedRefs(k, n, l), l, k.watches[l])
    BY <1>17, <2>1, WatchListFrame DEF WatchedRefs
  <2>3. k.watches[l] \in Seq(Watchers)
    BY DEF Kittens
  <2>4. CASE l = lits[r]
    <3>1. ref \notin WatchedRefs(k, n, l)
      BY <1>5, <2>4 DEF WatchedRefs, lits
    <3>2. w.blit \in Lits(c, w.ref) \ {l}
      BY <1>2, <1>4, <1>5, <1>13, <1>17, <2>4 DEF Lits, lits
    <3>3. WatchListOf(c, WatchedRefs(k, n, l) \cup {w.ref}, l, Append(k.watches[l], w))
      BY <1>13, <2>2, <2>3, <3>1, <3>2, AppendWatch
    <3> QED
      BY <1>13, <1>14, <1>19, <2>4, <3>3
  <2>5. CASE l # lits[r]
    BY <1>14, <1>19, <2>2, <2>5
  <2> QED
    BY <2>4, <2>5
<1>21. WatchedRefs(c, n, lit) = WatchedRefs(k, n, lit) \ {ref}
  BY <1>5, <1>19
<1>22. WatchListOf(c, WatchedRefs(k, n, lit) \ rest, lit, kept)
  <2>1. WatchListOf(k, WatchedRefs(k, n, lit) \ rest, lit, kept)
    BY DEF Visiting
  <2> QED
    BY <1>17, <2>1, WatchListFrame DEF WatchedRefs
<1>23. Visiting(c, lit, kept, rest \ {ref})
  <2>1. WatchedRefs(c, n, lit) \ (rest \ {ref}) = WatchedRefs(k, n, lit) \ rest
    BY <1>21
  <2>2. rest \ {ref} \subseteq WatchedRefs(c, n, lit)
    BY <1>21 DEF Visiting
  <2> QED
    BY <1>16, <1>20, <1>22, <2>1, <2>2 DEF Visiting
<1> QED
  BY <1>2, <1>4, <1>6, <1>16, <1>18, <1>23 DEF c, lits

-----------------------------------------------------------------------------
(* Flipping a literal. *)

(* The replacement watch that is looked for. *)
LEMMA FirstTrue ==
  ASSUME NEW k, NEW ref, NEW r, r = FirstAfterWatches(k, ref, LAMBDA l : IsTrue(k, l)),
         r # 0, Len(Klause(k, ref).lits) \in Nat
  PROVE  r \in 3..Len(Klause(k, ref).lits) /\ IsTrue(k, Klause(k, ref).lits[r])
<1> DEFINE lits == Klause(k, ref).lits
           I == {i \in 3..Len(lits) : IsTrue(k, lits[i])}
<1>1. r = IF I # {} THEN Min(I) ELSE 0
  BY DEF FirstAfterWatches, SelectInSubSeq
<1>2. I \in SUBSET Nat
  OBVIOUS
<1>3. I # {} => Min(I) \in I
  BY <1>2, FirstOf
<1> QED
  BY <1>1, <1>3

LEMMA FirstFree ==
  ASSUME NEW k, NEW ref, NEW r, r = FirstAfterWatches(k, ref, LAMBDA l : ~IsFalse(k, l)),
         Len(Klause(k, ref).lits) \in Nat
  PROVE  /\ r # 0 => r \in 3..Len(Klause(k, ref).lits) /\ ~IsFalse(k, Klause(k, ref).lits[r])
         /\ r = 0 => \A i \in 3..Len(Klause(k, ref).lits) : IsFalse(k, Klause(k, ref).lits[i])
<1> DEFINE lits == Klause(k, ref).lits
           I == {i \in 3..Len(lits) : ~IsFalse(k, lits[i])}
<1>1. r = IF I # {} THEN Min(I) ELSE 0
  BY DEF FirstAfterWatches, SelectInSubSeq
<1>2. I \in SUBSET Nat /\ 0 \notin I
  OBVIOUS
<1>3. I # {} => Min(I) \in I
  BY <1>2, FirstOf
<1> QED
  BY <1>1, <1>2, <1>3

FlipState(k, lit, list, j, s) ==
  /\ s \in [kit : Kittens, lit : {lit}, kept : Seq(Watchers), blocked : BOOLEAN]
  /\ Rewatched(k, s.kit)
  /\ Visiting(s.kit, lit, s.kept, RestOf(list, j))

LEMMA FlipWatchEffect ==
  ASSUME NEW k \in Kittens, Static(k), NEW lit \in LITS, NEW list, list = k.watches[lit],
         NEW j \in 1..Len(list), NEW s, FlipState(k, lit, list, j - 1, s)
  PROVE  FlipState(k, lit, list, j, FlipWatch(s, list[j]))
<1> DEFINE watch == list[j]
           kit == s.kit
           ref == watch.ref
           r == FirstAfterWatches(kit, ref, LAMBDA l : IsTrue(kit, l))
<1>1. /\ list \in Seq(Watchers) /\ watch \in Watchers
      /\ \A i1, i2 \in 1..Len(list) : list[i1].ref = list[i2].ref => i1 = i2
      /\ watch.blit \in Lits(k, ref) \ {lit}
      /\ ref \in WatchedRefs(k, Len(k.klauses), lit)
  <2>1. /\ list \in Seq(Watchers)
        /\ \A i \in 1..Len(list) : list[i].ref \in WatchedRefs(k, Len(k.klauses), lit)
        /\ \A i1, i2 \in 1..Len(list) : list[i1].ref = list[i2].ref => i1 = i2
        /\ \A i \in 1..Len(list) : list[i].blit \in Lits(k, list[i].ref) \ {lit}
    BY VisitFirst DEF Static
  <2> QED
    BY <2>1
<1>2. /\ ref \in RestOf(list, j - 1)
      /\ RestOf(list, j) = RestOf(list, j - 1) \ {ref}
  BY <1>1, RestNext
<1>3. /\ kit \in Kittens /\ Orderly(kit) /\ s.lit = lit /\ s.kept \in Seq(Watchers)
      /\ Rewatched(k, kit) /\ Visiting(kit, lit, s.kept, RestOf(list, j - 1))
      /\ s \in [kit : Kittens, lit : {lit}, kept : Seq(Watchers), blocked : BOOLEAN]
  BY RewatchedOrderly DEF FlipState, Static
<1>4. ref \in Refs(k) /\ ref \in Refs(kit) /\ watch.blit \in Lits(kit, ref) \ {lit}
  BY <1>1, <1>3, RewatchedFrame DEF WatchedRefs, Refs, Static, Orderly, Clausal
<1> HIDE DEF watch, kit, r
<1> DEFINE kept == Append(s.kept, watch)
           keep == [s EXCEPT !.kept = kept]
<1>5. kept \in Seq(Watchers) /\ Visiting(kit, lit, kept, RestOf(list, j))
  BY <1>1, <1>2, <1>3, <1>4, VisitKeep, AppendProperties
<1> HIDE DEF kept
<1>6. FlipState(k, lit, list, j, keep) /\ FlipState(k, lit, list, j, [keep EXCEPT !.blocked = TRUE])
  BY <1>3, <1>5 DEF FlipState, kit
<1>7. ASSUME r # 0
      PROVE  FlipState(k, lit, list, j, [s EXCEPT !.kit = Replace(kit, lit, ref, r)])
  <2>1. r \in 3..Len(Klause(kit, ref).lits)
    <3>1. Len(Klause(kit, ref).lits) \in Nat
      BY <1>3, <1>4, KlauseType
    <3> QED
      BY <1>7, <3>1, FirstTrue DEF r
  <2> DEFINE c == Replace(kit, lit, ref, r)
  <2>2. Rewatched(kit, c) /\ Visiting(c, lit, s.kept, RestOf(list, j))
    <3> DEFINE rest == RestOf(list, j - 1)
    <3>1. ref \in rest /\ RestOf(list, j) = rest \ {ref} /\ Visiting(kit, lit, s.kept, rest)
      BY <1>2, <1>3
    <3> HIDE DEF rest, ref
    <3>2. Rewatched(kit, c) /\ Visiting(c, lit, s.kept, rest \ {ref})
      BY <1>3, <2>1, <3>1, ReplaceEffect
    <3> QED
      BY <3>1, <3>2
  <2> HIDE DEF c
  <2>3. Rewatched(k, c) /\ c \in Kittens
    BY <1>3, <2>2, RewatchedTrans DEF Rewatched
  <2> QED
    BY <1>3, <2>2, <2>3 DEF FlipState, c
<1>8. FlipWatch(s, watch) \in {keep, [keep EXCEPT !.blocked = TRUE]} \/
      (r # 0 /\ FlipWatch(s, watch) = [s EXCEPT !.kit = Replace(kit, lit, ref, r)])
  BY <1>3 DEF FlipWatch, kit, kept, r
<1> QED
  BY <1>6, <1>7, <1>8 DEF watch

LEMMA FlipFold ==
  ASSUME NEW k \in Kittens, Static(k), NEW lit \in LITS
  PROVE  LET s == FoldLeft(FlipWatch, [kit |-> k, lit |-> lit, kept |-> <<>>, blocked |-> FALSE],
                           k.watches[lit])
         IN  FlipState(k, lit, k.watches[lit], Len(k.watches[lit]), s)
<1> DEFINE list == k.watches[lit]
           n == Len(list)
           States(j) == {s \in [kit : Kittens, lit : {lit}, kept : Seq(Watchers), blocked : BOOLEAN] :
                           FlipState(k, lit, list, j, s)}
           Inv == [j \in 0..n |-> States(j)]
           base == [kit |-> k, lit |-> lit, kept |-> <<>>, blocked |-> FALSE]
<1>1. list \in Seq(Watchers) /\ n \in Nat
  BY LenProperties DEF Kittens
<1>2. base \in Inv[0]
  <2>1. Rewatched(k, k)
    BY DEF Rewatched, Permuted, OnlyRewatched
  <2>2. Visiting(k, lit, <<>>, RestOf(list, 0))
    BY VisitFirst DEF Static
  <2>3. base \in [kit : Kittens, lit : {lit}, kept : Seq(Watchers), blocked : BOOLEAN]
    OBVIOUS
  <2>4. FlipState(k, lit, list, 0, base)
    BY <2>1, <2>2, <2>3 DEF FlipState
  <2> HIDE DEF base
  <2>5. base \in States(0)
    BY <2>3, <2>4
  <2> QED
    BY <1>1, <2>5
<1>3. ASSUME NEW j \in 1..n, NEW s \in Inv[j - 1]
      PROVE  FlipWatch(s, list[j]) \in Inv[j]
  <2>1. j - 1 \in 0..n /\ j \in 0..n
    BY <1>1
  <2>2. FlipState(k, lit, list, j - 1, s)
    BY <2>1
  <2>3. FlipState(k, lit, list, j, FlipWatch(s, list[j]))
    BY <2>2, FlipWatchEffect
  <2>4. FlipWatch(s, list[j]) \in States(j)
    BY <2>3 DEF FlipState
  <2> QED
    BY <2>1, <2>4
<1> HIDE DEF Inv, base, n, list
<1>4. FoldLeft(FlipWatch, base, list) \in Inv[n]
  BY <1>1, <1>2, <1>3, FlippingInduction DEF n
<1>5. FlipState(k, lit, list, n, FoldLeft(FlipWatch, base, list))
  BY <1>1, <1>4 DEF Inv
<1> QED
  BY <1>5 DEF base, n, list

-----------------------------------------------------------------------------
(* The model after flipping. *)

LEMMA FlipVisited ==
  ASSUME NEW k \in Kittens, Static(k), NEW lit \in LITS, NEW s,
         FlipState(k, lit, k.watches[lit], Len(k.watches[lit]), s)
  PROVE  LET v == [s.kit EXCEPT !.watches[lit] = s.kept]
         IN  Rewatched(k, v) /\ Static(v)
<1> DEFINE watches == [s.kit.watches EXCEPT ![lit] = s.kept]
           v == [s.kit EXCEPT !.watches[lit] = s.kept]
           kit == s.kit
<1>1. /\ kit \in Kittens /\ Rewatched(k, kit) /\ s.kept \in Seq(Watchers)
      /\ Visiting(kit, lit, s.kept, RestOf(k.watches[lit], Len(k.watches[lit])))
  BY DEF FlipState
<1>2. Visiting(kit, lit, s.kept, {})
  <2>1. k.watches[lit] \in Seq(Watchers)
    BY DEF Kittens
  <2> QED
    BY <1>1, <2>1, RestEnds
<1>3. v = [kit EXCEPT !.watches = watches] /\ watches \in [LITS -> Seq(Watchers)]
  BY <1>1 DEF Kittens
<1> HIDE DEF v, kit
<1>4. v \in Kittens
  <2> HIDE DEF watches
  <2> QED
    BY <1>1, <1>3 DEF Kittens
<1>5. OnlyRewatched(kit, v) /\ v.klauses = kit.klauses /\ v.watches = watches
  BY <1>1, <1>3 DEF OnlyRewatched, Kittens
<1>6. Rewatched(kit, v)
  <2>1. Permuted(kit, v)
    BY <1>5 DEF Permuted, Klause, Lits
  <2> QED
    BY <1>4, <1>5, <2>1 DEF Rewatched
<1>7. Rewatched(k, v)
  BY <1>1, <1>6, RewatchedTrans
<1>8. Watched(v, Len(v.klauses))
  BY <1>1, <1>2, <1>5, VisitDone DEF kit
<1>9. Orderly(v)
  BY <1>7, RewatchedOrderly DEF Static
<1> QED
  BY <1>7, <1>8, <1>9 DEF Static, v, kit

(* Flipping a literal of the model that is not on the root level. *)
LEMMA FlipEffect ==
  ASSUME NEW k \in Kittens, Static(k), Answered(k), k.status = 10,
         NEW l \in LITS, IDX(l) \in Knows(k), k.levelOf[IDX(l)] > 0,
         NEW p, NEW g, FromUser(k, p, g)
  PROVE  /\ Flip(k, l) \in Kittens /\ Static(Flip(k, l)) /\ Answered(Flip(k, l))
         /\ FromUser(Flip(k, l), p, g)
<1> DEFINE lit == IF IsTrue(k, l) THEN l ELSE NOT(l)
           s == FoldLeft(FlipWatch, [kit |-> k, lit |-> lit, kept |-> <<>>, blocked |-> FALSE],
                         k.watches[lit])
           v == [s.kit EXCEPT !.watches[lit] = s.kept]
           values == (v.values \ {lit}) \cup {NOT(lit)}
           c == Flip(k, l)
<1>1. c = IF s.blocked THEN v ELSE [v EXCEPT !.values = values]
  BY DEF Flip
<1>2. lit \in LITS /\ NOT(lit) \in LITS /\ NOT(NOT(lit)) = lit /\ IDX(lit) = IDX(l) /\ IDX(NOT(lit)) = IDX(l)
      /\ lit # NOT(lit)
  BY LitFacts
<1>3. lit \in k.values
  <2>1. IDX(l) \in k.values \/ NOT(IDX(l)) \in k.values
    BY DEF Answered
  <2> QED
    BY <2>1, LitFacts DEF IsTrue
<1> HIDE DEF c, lit
<1>4. FlipState(k, lit, k.watches[lit], Len(k.watches[lit]), s)
  BY <1>2, FlipFold
<1> HIDE DEF s
<1>5. Rewatched(k, v) /\ Static(v)
  BY <1>2, <1>4, FlipVisited
<1> HIDE DEF v
<1>6. /\ v \in Kittens /\ v.values = k.values /\ v.levelOf = k.levelOf /\ v.trail = k.trail
      /\ v.status = 10 /\ v.assumptions = k.assumptions /\ v.inconsistent = k.inconsistent
      /\ v.failed = k.failed /\ v.failing = k.failing /\ v.queue = k.queue
  BY <1>5 DEF Rewatched, OnlyRewatched
<1>7. FromUser(v, p, g)
  BY <1>5, RewatchedFromUser DEF Static, Orderly, Clausal
<1>8. /\ Knows(v) = Knows(k) /\ FoundIn(v) = FoundIn(k) /\ Originals(v) = Originals(k)
      /\ Refs(v) = Refs(k) /\ Originals(k) \subseteq Refs(k)
      /\ \A ref \in Refs(k) : Lits(v, ref) = Lits(k, ref)
  BY <1>5, RewatchedFrame DEF Static, Orderly, Clausal
<1>9. Answered(v)
  BY <1>6, <1>8 DEF Answered
<1>10. CASE s.blocked
  BY <1>1, <1>5, <1>6, <1>7, <1>9, <1>10 DEF c
<1>11. CASE ~s.blocked
  <2>1. c = [v EXCEPT !.values = values] /\ values \in SUBSET LITS
    BY <1>1, <1>2, <1>6, <1>11 DEF Kittens
  <2>2. \A x : x \in values <=> (x \in k.values /\ x # lit) \/ x = NOT(lit)
    BY <1>6
  <2> HIDE DEF values
  <2>3. c \in Kittens /\ c.values = values /\ OnlySearched(v, c) /\ c.trail = v.trail /\ c.search = v.search
    BY <1>6, <2>1 DEF Kittens, OnlySearched
  <2>4. /\ Refs(c) = Refs(v) /\ Originals(c) = Originals(v) /\ Knows(c) = Knows(v)
        /\ \A ref : Klause(c, ref) = Klause(v, ref) /\ Lits(c, ref) = Lits(v, ref)
    BY <2>3, OnlySearchedFrame
  <2>5. Clausal(c) /\ Watched(c, Len(c.klauses))
    BY <1>5, <2>3, ClausalFrame, WatchedFrame DEF OnlySearched, Static, Orderly
  <2>6. \A w \in LITS : (IsTrue(c, w) \/ IsFalse(c, w)) <=> (IsTrue(v, w) \/ IsFalse(v, w))
    <3>1. \A w \in LITS : NOT(w) = lit <=> w = NOT(lit)
      BY <1>2, LitFacts
    <3>2. \A w \in LITS : NOT(w) = NOT(lit) <=> w = lit
      BY <1>2, LitFacts
    <3> QED
      BY <1>2, <1>3, <1>6, <2>2, <2>3, <3>1, <3>2 DEF IsTrue, IsFalse
  <2>7. QueueWell(c)
    <3>1. \A w \in Knows(v) : w \in LITS
      BY <1>6, QueueType, VarFacts
    <3>2. Unassigned(c) = Unassigned(v)
      BY <2>4, <2>6, <3>1 DEF Unassigned, Knows
    <3>3. c.queue = v.queue
      BY <2>3 DEF OnlySearched
    <3> QED
      BY <1>5, <2>3, <3>2, <3>3 DEF QueueWell, Static, Orderly
  <2>8. KnownWell(c) /\ FailedWell(c)
    BY <1>5, <2>3, <2>4 DEF OnlySearched, Static, Orderly, KnownWell, FailedWell
  <2>9. lit \in ToSet(k.trail) \/ NOT(lit) \in ToSet(k.trail)
    BY <1>2, <1>3 DEF Answered
  <2>10. ValuesWell(c)
    <3> SUFFICES ASSUME NEW w \in c.values
                 PROVE  /\ IDX(w) \in Knows(c)
                        /\ NOT(w) \notin c.values
                        /\ \/ w \in ToSet(c.trail)
                           \/ NOT(w) \in ToSet(c.trail)
                           \/ \E ref \in Refs(c) : Klause(c, ref).lits = <<w>>
      BY DEF ValuesWell
    <3>1. \A x \in k.values :
            /\ IDX(x) \in Knows(v)
            /\ NOT(x) \notin k.values
            /\ \/ x \in ToSet(v.trail)
               \/ NOT(x) \in ToSet(v.trail)
               \/ \E ref \in Refs(v) : Klause(v, ref).lits = <<x>>
      BY <1>5, <1>6 DEF Static, Orderly, ValuesWell
    <3>2. CASE w = NOT(lit)
      BY <1>2, <1>3, <1>6, <2>2, <2>3, <2>4, <2>9, <3>1, <3>2
    <3>3. CASE w \in k.values /\ w # lit
      <4>1. w \in LITS /\ (NOT(w) = NOT(lit) => w = lit)
        <5>1. w \in LITS
          BY <3>3 DEF Kittens
        <5> QED
          BY <1>2, <5>1, LitFacts
      <4>2. NOT(w) \notin c.values
        BY <2>2, <2>3, <3>1, <3>3, <4>1
      <4> QED
        BY <2>3, <2>4, <3>1, <3>3, <4>2
    <3> QED
      BY <2>2, <2>3, <3>2, <3>3
  <2>11. FromUser(c, p, g)
    BY <1>7, <2>4 DEF FromUser
  <2>12. FoundIn(c) = FoundIn(v)
    <3>1. c.levelOf = k.levelOf /\ c.trail = v.trail
      BY <1>6, <2>3 DEF OnlySearched
    <3>2. k.levelOf[IDX(lit)] # 0 /\ k.levelOf[IDX(NOT(lit))] # 0
      BY <1>2
    <3>3. {x \in c.values : k.levelOf[IDX(x)] = 0} = {x \in k.values : k.levelOf[IDX(x)] = 0}
      BY <2>2, <2>3, <3>2
    <3> QED
      BY <1>6, <3>1, <3>3 DEF FoundIn
  <2>13. Answered(c)
    <3>1. \A x \in Knows(c) : x \in c.values \/ NOT(x) \in c.values
      <4>1. \A x \in Knows(v) : x \in LITS /\ (IsTrue(v, x) \/ IsFalse(v, x))
        BY <1>6, <1>9, QueueType, VarFacts DEF Answered, IsTrue, IsFalse
      <4> QED
        BY <2>4, <2>6, <4>1 DEF IsTrue, IsFalse
    <3>2. \A x \in c.values : \/ c.levelOf[IDX(x)] = 0
                              \/ x \in ToSet(c.trail) \/ NOT(x) \in ToSet(c.trail)
      <4>1. \A x \in v.values : \/ v.levelOf[IDX(x)] = 0
                                \/ x \in ToSet(v.trail) \/ NOT(x) \in ToSet(v.trail)
        BY <1>6, <1>9 DEF Answered
      <4>2. c.levelOf = v.levelOf
        BY <2>3 DEF OnlySearched
      <4> QED
        BY <1>2, <1>6, <2>2, <2>3, <2>9, <4>1, <4>2
    <3>3. /\ \A ref \in Originals(c) : Lits(c, ref) \cap FoundIn(c) # {}
          /\ ToSet(c.assumptions) \subseteq FoundIn(c)
      BY <1>6, <1>9, <2>3, <2>4, <2>12 DEF Answered, OnlySearched
    <3>4. c.status = 10 /\ (c.inconsistent # INVALID => c.failed = {} /\ c.failing = INVALID)
      BY <1>6, <1>9, <2>3 DEF Answered, OnlySearched
    <3> QED
      BY <3>1, <3>2, <3>3, <3>4 DEF Answered
  <2> QED
    BY <2>3, <2>5, <2>7, <2>8, <2>10, <2>11, <2>13 DEF Static, Orderly, c
<1> QED
  BY <1>10, <1>11

-----------------------------------------------------------------------------
(* What holds during search is kept when a literal is assigned. *)

NowAssigned(k, lit, reason, a) ==
  /\ AssignedTo(k, lit, reason, a)
  /\ lit \notin k.values
  /\ NOT(lit) \notin k.values

(* Levels, reasons and places on the trail of what was assigned before do not change. *)
LEMMA AssignedKeeps ==
  ASSUME NEW k \in Kittens, NEW lit \in LITS, NEW reason, NEW a, NowAssigned(k, lit, reason, a)
  PROVE  /\ \A l \in k.values : /\ IDX(l) # IDX(lit) /\ l \in a.values
                                /\ a.levelOf[IDX(l)] = k.levelOf[IDX(l)]
                                /\ a.reason[IDX(l)] = k.reason[IDX(l)]
         /\ \A l \in LITS : IsFalse(k, l) =>
              /\ IsFalse(a, l) /\ a.levelOf[IDX(l)] = k.levelOf[IDX(l)]
              /\ a.reason[IDX(l)] = k.reason[IDX(l)]
         /\ a.levelOf[IDX(lit)] = k.level
         /\ Len(k.trail) \in Nat /\ Len(a.trail) = Len(k.trail) + 1
         /\ \A i \in 1..Len(k.trail) : a.trail[i] = k.trail[i] /\ i \in 1..Len(a.trail)
         /\ a.trail[Len(k.trail) + 1] = lit
         /\ \A i \in 1..Len(a.trail) : i \in 1..Len(k.trail) \/ i = Len(k.trail) + 1
         /\ ToSet(a.trail) = ToSet(k.trail) \cup {lit}
<1>1. /\ a.values = k.values \cup {lit} /\ a.trail = Append(k.trail, lit)
      /\ a.levelOf = [k.levelOf EXCEPT ![IDX(lit)] = k.level]
      /\ \A v \in Vars \ {IDX(lit)} : a.reason[v] = k.reason[v]
      /\ lit \notin k.values /\ NOT(lit) \notin k.values
  BY DEF NowAssigned, AssignedTo
<1>2. k.levelOf \in [Vars -> Nat] /\ k.trail \in Seq(LITS) /\ IDX(lit) \in Vars /\ k.values \subseteq LITS
  BY LitFacts DEF Kittens
<1>3. \A l \in k.values : IDX(l) \in Vars /\ IDX(l) # IDX(lit)
  BY <1>1, <1>2, LitFacts, SameIndex
<1>4. \A l \in k.values : /\ l \in a.values /\ a.levelOf[IDX(l)] = k.levelOf[IDX(l)]
                          /\ a.reason[IDX(l)] = k.reason[IDX(l)]
  BY <1>1, <1>2, <1>3
<1>5. \A l \in LITS : IsFalse(k, l) =>
        /\ IsFalse(a, l) /\ a.levelOf[IDX(l)] = k.levelOf[IDX(l)]
        /\ a.reason[IDX(l)] = k.reason[IDX(l)]
  <2> SUFFICES ASSUME NEW l \in LITS, NOT(l) \in k.values
               PROVE  /\ NOT(l) \in a.values /\ a.levelOf[IDX(l)] = k.levelOf[IDX(l)]
                      /\ a.reason[IDX(l)] = k.reason[IDX(l)]
    BY DEF IsFalse
  <2>1. IDX(NOT(l)) = IDX(l)
    BY LitFacts
  <2> QED
    BY <1>4, <2>1
<1>6. /\ Len(k.trail) \in Nat /\ Len(a.trail) = Len(k.trail) + 1
      /\ \A i \in 1..Len(k.trail) : a.trail[i] = k.trail[i]
      /\ a.trail[Len(k.trail) + 1] = lit
  BY <1>1, <1>2, AppendProperties
<1>7. \A n \in Nat : \A i \in 1 .. n + 1 : i \in 1..n \/ i = n + 1
  OBVIOUS
<1>8. \A n \in Nat : \A i \in 1 .. n : i \in 1..n + 1
  OBVIOUS
<1>9. ToSet(a.trail) = ToSet(k.trail) \cup {lit}
  BY <1>1, <1>2, SetOfAppend
<1> QED
  BY <1>1, <1>2, <1>3, <1>4, <1>5, <1>6, <1>7, <1>8, <1>9

LEMMA AssignedTrail ==
  ASSUME NEW k \in Kittens, NEW lit \in LITS, NEW reason, NEW a, NowAssigned(k, lit, reason, a),
         TrailWell(k)
  PROVE  TrailWell(a)
<1>1. /\ \A l \in k.values : /\ IDX(l) # IDX(lit) /\ l \in a.values
                             /\ a.levelOf[IDX(l)] = k.levelOf[IDX(l)]
      /\ a.levelOf[IDX(lit)] = k.level
      /\ Len(k.trail) \in Nat /\ Len(a.trail) = Len(k.trail) + 1
      /\ \A i \in 1..Len(k.trail) : a.trail[i] = k.trail[i]
      /\ a.trail[Len(k.trail) + 1] = lit
      /\ \A i \in 1..Len(a.trail) : i \in 1..Len(k.trail) \/ i = Len(k.trail) + 1
  BY AssignedKeeps
<1>2. a.level = k.level /\ a.propagated = k.propagated /\ lit \in a.values /\ k.level \in Nat
      /\ k.propagated \in Nat /\ lit \notin k.values
  BY DEF NowAssigned, AssignedTo, Kittens
<1> DEFINE n == Len(k.trail)
           L(i) == a.levelOf[IDX(a.trail[i])]
           K(i) == k.levelOf[IDX(k.trail[i])]
<1>3. \A i \in 1..n : L(i) = K(i) /\ a.trail[i] = k.trail[i] /\ k.trail[i] \in k.values
  BY <1>1 DEF TrailWell
<1>4. L(n + 1) = k.level
  BY <1>1
<1>5. /\ k.propagated <= n
      /\ \A i, j \in 1..n : k.trail[i] = k.trail[j] => i = j
      /\ \A i, j \in 1..n : i <= j => K(i) <= K(j)
      /\ \A i \in 1..n : K(i) <= k.level
      /\ \A i \in k.propagated + 1 .. n : K(i) = k.level
  BY DEF TrailWell
<1>6. n \in Nat /\ Len(a.trail) = n + 1 /\ a.trail[n + 1] = lit
      /\ \A i \in 1..Len(a.trail) : i \in 1..n \/ i = n + 1
  BY <1>1
<1> HIDE DEF n, L, K
<1>7. k.propagated <= Len(a.trail)
  BY <1>2, <1>5, <1>6
<1>8. \A i \in 1..Len(a.trail) : a.trail[i] \in a.values
  BY <1>1, <1>2, <1>3, <1>6
<1>9. \A i, j \in 1..Len(a.trail) : a.trail[i] = a.trail[j] => i = j
  BY <1>2, <1>3, <1>5, <1>6
<1>10. \A i \in 1..Len(a.trail) : L(i) <= k.level
  BY <1>2, <1>3, <1>4, <1>5, <1>6
<1>11. \A i, j \in 1..Len(a.trail) : i <= j => L(i) <= L(j)
  <2> SUFFICES ASSUME NEW i \in 1..Len(a.trail), NEW j \in 1..Len(a.trail), i <= j
               PROVE  L(i) <= L(j)
    OBVIOUS
  <2>1. CASE j = n + 1
    BY <1>4, <1>10, <2>1
  <2>2. CASE j \in 1..n
    <3>1. i \in 1..n
      BY <1>6, <2>2
    <3> QED
      BY <1>3, <1>5, <2>2, <3>1
  <2> QED
    BY <1>6, <2>1, <2>2
<1>12. \A i \in k.propagated + 1 .. Len(a.trail) : L(i) = k.level
  <2> SUFFICES ASSUME NEW i \in k.propagated + 1 .. n + 1
               PROVE  L(i) = k.level
    BY <1>6
  <2>1. i = n + 1 \/ (i \in 1..n /\ i \in k.propagated + 1 .. n)
    BY <1>2, <1>6
  <2> QED
    BY <1>3, <1>4, <1>5, <2>1
<1> QED
  BY <1>2, <1>7, <1>8, <1>9, <1>10, <1>11, <1>12 DEF TrailWell, L

(* A unit clause of the literal itself may be new. *)
ExplainedBut(k, lit) ==
  /\ \A l \in k.values :
       IF k.levelOf[IDX(l)] = 0
       THEN /\ k.reason[IDX(l)] \in Refs(k)
            /\ Klause(k, k.reason[IDX(l)]).lits = <<l>>
       ELSE l \in ToSet(k.trail)
  /\ \A ref \in Refs(k) : \A l \in LITS :
       Klause(k, ref).lits = <<l>> =>
         (l \in k.values /\ k.levelOf[IDX(l)] = 0) \/ (l = lit /\ k.level = 0)

LEMMA AssignedValuesBut ==
  ASSUME NEW k \in Kittens, NEW lit \in LITS, NEW reason, NEW a, NowAssigned(k, lit, reason, a),
         ExplainedBut(k, lit)
  PROVE  ValuesExplained(a)
<1>1. /\ \A l \in k.values : /\ IDX(l) # IDX(lit) /\ l \in a.values
                             /\ a.levelOf[IDX(l)] = k.levelOf[IDX(l)]
                             /\ a.reason[IDX(l)] = k.reason[IDX(l)]
      /\ a.levelOf[IDX(lit)] = k.level
      /\ ToSet(a.trail) = ToSet(k.trail) \cup {lit}
  BY AssignedKeeps
<1>2. /\ a.values = k.values \cup {lit} /\ Refs(k) \subseteq Refs(a)
      /\ \A ref \in Refs(k) : Klause(a, ref) = Klause(k, ref)
      /\ \A ref \in Refs(a) \ Refs(k) : Klause(a, ref).lits = <<lit>>
      /\ k.level = 0 => a.reason[IDX(lit)] \in Refs(a) /\ Klause(a, a.reason[IDX(lit)]).lits = <<lit>>
      /\ k.level > 0 => Refs(a) = Refs(k)
      /\ k.level \in Nat
  BY DEF NowAssigned, AssignedTo, WithUnits, Kittens
<1>3. ASSUME NEW l \in a.values
      PROVE  IF a.levelOf[IDX(l)] = 0
             THEN /\ a.reason[IDX(l)] \in Refs(a)
                  /\ Klause(a, a.reason[IDX(l)]).lits = <<l>>
             ELSE l \in ToSet(a.trail)
  <2>1. CASE l = lit
    BY <1>1, <1>2, <2>1
  <2>2. CASE l \in k.values
    <3>1. IF k.levelOf[IDX(l)] = 0
          THEN /\ k.reason[IDX(l)] \in Refs(k)
               /\ Klause(k, k.reason[IDX(l)]).lits = <<l>>
          ELSE l \in ToSet(k.trail)
      BY <2>2 DEF ExplainedBut
    <3> QED
      BY <1>1, <1>2, <2>2, <3>1
  <2> QED
    BY <1>2, <2>1, <2>2
<1>4. ASSUME NEW ref \in Refs(a), NEW l \in LITS, Klause(a, ref).lits = <<l>>
      PROVE  l \in a.values /\ a.levelOf[IDX(l)] = 0
  <2>1. CASE ref \in Refs(k)
    <3>1. Klause(k, ref).lits = <<l>>
      BY <1>2, <1>4, <2>1
    <3>2. (l \in k.values /\ k.levelOf[IDX(l)] = 0) \/ (l = lit /\ k.level = 0)
      BY <2>1, <3>1 DEF ExplainedBut
    <3> QED
      BY <1>1, <1>2, <3>2
  <2>2. CASE ref \notin Refs(k)
    <3>1. k.level = 0
      BY <1>2, <2>2
    <3>2. <<l>> = <<lit>>
      BY <1>2, <1>4, <2>2
    <3>3. \A x : <<x>>[1] = x
      OBVIOUS
    <3>4. l = lit
      BY <3>2, <3>3
    <3> QED
      BY <1>1, <1>2, <3>1, <3>4
  <2> QED
    BY <2>1, <2>2
<1> QED
  BY <1>3, <1>4 DEF ValuesExplained

LEMMA AssignedValues ==
  ASSUME NEW k \in Kittens, NEW lit \in LITS, NEW reason, NEW a, NowAssigned(k, lit, reason, a),
         ValuesExplained(k)
  PROVE  ValuesExplained(a)
<1>1. ExplainedBut(k, lit)
  BY DEF ExplainedBut, ValuesExplained
<1> QED
  BY <1>1, AssignedValuesBut

(* Reasons: those of the other literals stay good. *)
ReasonFor(k, lit, reason) ==
  IF reason = INVALID
  THEN /\ \A j \in 1..Len(k.trail) : k.levelOf[IDX(k.trail[j])] < k.level
       /\ k.level <= Len(k.assumptions) => lit \in ToSet(k.assumptions)
  ELSE /\ reason \in Refs(k)
       /\ lit \in Lits(k, reason)
       /\ \A l \in Lits(k, reason) \ {lit} : Before(k, Len(k.trail) + 1, l)

LEMMA AssignedReasons ==
  ASSUME NEW k \in Kittens, NEW lit \in LITS, NEW reason \in Nat, NEW a, NowAssigned(k, lit, reason, a),
         TrailWell(k), ReasonsWell(k), k.level > 0 => ReasonFor(k, lit, reason)
  PROVE  ReasonsWell(a)
<1>1. /\ \A l \in k.values : /\ a.levelOf[IDX(l)] = k.levelOf[IDX(l)]
                             /\ a.reason[IDX(l)] = k.reason[IDX(l)]
      /\ \A l \in LITS : IsFalse(k, l) => /\ IsFalse(a, l)
                                          /\ a.levelOf[IDX(l)] = k.levelOf[IDX(l)]
      /\ a.levelOf[IDX(lit)] = k.level
      /\ Len(k.trail) \in Nat /\ Len(a.trail) = Len(k.trail) + 1
      /\ \A i \in 1..Len(k.trail) : a.trail[i] = k.trail[i]
      /\ a.trail[Len(k.trail) + 1] = lit
      /\ \A i \in 1..Len(a.trail) : i \in 1..Len(k.trail) \/ i = Len(k.trail) + 1
  BY AssignedKeeps
<1>2. /\ a.assumptions = k.assumptions /\ Refs(k) \subseteq Refs(a)
      /\ \A ref \in Refs(k) : Klause(a, ref) = Klause(k, ref) /\ Lits(a, ref) = Lits(k, ref)
      /\ k.level > 0 => a.reason[IDX(lit)] = reason
      /\ k.level \in Nat
  BY DEF NowAssigned, AssignedTo, WithUnits, Kittens
<1>3. \A i \in 1..Len(k.trail) : k.trail[i] \in k.values
  BY DEF TrailWell
<1>4. ASSUME NEW i \in 1 .. Len(k.trail) + 1, NEW l \in LITS, Before(k, i, l)
      PROVE  Before(a, i, l)
  <2>1. IsFalse(k, l) /\ (k.levelOf[IDX(l)] = 0 \/ \E j \in 1 .. i - 1 : k.trail[j] = NOT(l))
    BY <1>4 DEF Before
  <2>2. \A j \in 1 .. i - 1 : j \in 1..Len(k.trail)
    BY <1>1
  <2>3. IsFalse(a, l) /\ (a.levelOf[IDX(l)] = 0 \/ \E j \in 1 .. i - 1 : a.trail[j] = NOT(l))
    BY <1>1, <2>1, <2>2
  <2> QED
    BY <2>3 DEF Before
<1>5. ASSUME NEW i \in 1..Len(a.trail), a.levelOf[IDX(a.trail[i])] > 0
      PROVE  ReasonWell(a, i)
  <2>1. CASE i \in 1..Len(k.trail)
    <3> DEFINE x == k.trail[i]
               ref == k.reason[IDX(x)]
    <3>1. a.trail[i] = x /\ x \in k.values /\ a.reason[IDX(x)] = ref /\ a.levelOf[IDX(x)] = k.levelOf[IDX(x)]
      BY <1>1, <1>3, <2>1
    <3>2. ReasonWell(k, i)
      BY <1>5, <2>1, <3>1 DEF ReasonsWell
    <3>3. \A j \in 1 .. i - 1 : j \in 1..Len(k.trail)
      BY <1>1, <2>1
    <3>4. CASE ref = INVALID
      <4>1. /\ \A j \in 1 .. i - 1 : k.levelOf[IDX(k.trail[j])] < k.levelOf[IDX(x)]
            /\ k.levelOf[IDX(x)] <= Len(k.assumptions) => x \in ToSet(k.assumptions)
        BY <3>2, <3>4 DEF ReasonWell
      <4>2. \A j \in 1 .. i - 1 : a.levelOf[IDX(a.trail[j])] < a.levelOf[IDX(x)]
        BY <1>1, <1>3, <3>1, <3>3, <4>1
      <4>3. a.levelOf[IDX(x)] <= Len(a.assumptions) => x \in ToSet(a.assumptions)
        BY <1>2, <3>1, <4>1
      <4> QED
        BY <3>1, <3>4, <4>2, <4>3 DEF ReasonWell
    <3>5. CASE ref # INVALID
      <4>1. /\ ref \in Refs(k)
            /\ x \in Lits(k, ref)
            /\ \A l \in Lits(k, ref) \ {x} : Before(k, i, l)
        BY <3>2, <3>5 DEF ReasonWell
      <4>2. Lits(k, ref) \subseteq LITS /\ i \in 1 .. Len(k.trail) + 1
        BY <1>1, <2>1, <4>1, KlauseType
      <4>3. /\ ref \in Refs(a) /\ Lits(a, ref) = Lits(k, ref)
            /\ \A l \in Lits(k, ref) \ {x} : Before(a, i, l)
        BY <1>2, <1>4, <4>1, <4>2
      <4> QED
        BY <3>1, <3>5, <4>1, <4>3 DEF ReasonWell
    <3> QED
      BY <3>4, <3>5
  <2>2. CASE i = Len(k.trail) + 1
    <3>1. a.trail[i] = lit /\ a.levelOf[IDX(lit)] = k.level /\ k.level > 0 /\ a.reason[IDX(lit)] = reason
      BY <1>1, <1>2, <1>5, <2>2
    <3>2. ReasonFor(k, lit, reason)
      BY <3>1
    <3>3. \A j \in 1 .. i - 1 : j \in 1..Len(k.trail)
      BY <1>1, <2>2
    <3>4. CASE reason = INVALID
      <4>1. \A j \in 1 .. i - 1 : a.levelOf[IDX(a.trail[j])] < a.levelOf[IDX(lit)]
        BY <1>1, <1>3, <3>1, <3>2, <3>3, <3>4 DEF ReasonFor
      <4>2. a.levelOf[IDX(lit)] <= Len(a.assumptions) => lit \in ToSet(a.assumptions)
        BY <1>2, <3>1, <3>2, <3>4 DEF ReasonFor
      <4> QED
        BY <3>1, <3>4, <4>1, <4>2 DEF ReasonWell
    <3>5. CASE reason # INVALID
      <4>1. /\ reason \in Refs(k)
            /\ lit \in Lits(k, reason)
            /\ \A l \in Lits(k, reason) \ {lit} : Before(k, i, l)
        BY <2>2, <3>2, <3>5 DEF ReasonFor
      <4>2. Lits(k, reason) \subseteq LITS /\ i \in 1 .. Len(k.trail) + 1
        BY <1>1, <2>2, <4>1, KlauseType
      <4>3. /\ reason \in Refs(a) /\ Lits(a, reason) = Lits(k, reason)
            /\ \A l \in Lits(k, reason) \ {lit} : Before(a, i, l)
        BY <1>2, <1>4, <4>1, <4>2
      <4> QED
        BY <3>1, <3>5, <4>1, <4>3 DEF ReasonWell
    <3> QED
      BY <3>4, <3>5
  <2> QED
    BY <1>1, <2>1, <2>2
<1> QED
  BY <1>5 DEF ReasonsWell

(* Watches: the literal that became false is going to be propagated. *)
LEMMA AssignedExcuses ==
  ASSUME NEW k \in Kittens, NEW lit \in LITS, NEW reason, NEW a, NowAssigned(k, lit, reason, a),
         NEW n \in Nat, n <= Len(k.trail), NEW bad, NEW ref \in Refs(k), NEW l \in LITS,
         WatchExcused(k, n, bad, ref, l)
  PROVE  WatchExcused(a, n, bad, ref, l)
<1>1. /\ \A x \in k.values : /\ a.levelOf[IDX(x)] = k.levelOf[IDX(x)] /\ x \in a.values
      /\ \A x \in LITS : IsFalse(k, x) => a.levelOf[IDX(x)] = k.levelOf[IDX(x)]
      /\ Len(k.trail) \in Nat /\ Len(a.trail) = Len(k.trail) + 1
      /\ \A i \in 1..Len(k.trail) : a.trail[i] = k.trail[i]
      /\ a.trail[Len(k.trail) + 1] = lit
  BY AssignedKeeps
<1>2. a.level = k.level /\ a.values = k.values \cup {lit} /\ Lits(a, ref) = Lits(k, ref)
  BY DEF NowAssigned, AssignedTo, WithUnits
<1> SUFFICES ASSUME IsFalse(a, l), ~Pending(a, n, NOT(l)), bad = INVALID \/ a.levelOf[IDX(l)] < a.level
             PROVE  Excused(a, ref, l)
  BY DEF WatchExcused
<1>3. NOT(l) # lit
  <2>1. Len(k.trail) + 1 \in n + 1 .. Len(a.trail)
    BY <1>1
  <2> QED
    BY <1>1, <2>1 DEF Pending
<1>4. IsFalse(k, l)
  BY <1>2, <1>3 DEF IsFalse
<1>5. ~Pending(k, n, NOT(l))
  <2>1. \A j \in n + 1 .. Len(k.trail) : j \in n + 1 .. Len(a.trail) /\ j \in 1..Len(k.trail)
    BY <1>1
  <2> QED
    BY <1>1, <2>1 DEF Pending
<1>6. Excused(k, ref, l) /\ a.levelOf[IDX(l)] = k.levelOf[IDX(l)]
  BY <1>1, <1>2, <1>4, <1>5 DEF WatchExcused
<1> QED
  BY <1>1, <1>2, <1>6 DEF Excused, IsTrue

-----------------------------------------------------------------------------
(* Answers, and inconsistency. *)

LEMMA StatusFrame ==
  ASSUME NEW k \in Kittens, Static(k), NEW s \in {0, 10, 20, 21},
         s \notin {20, 21} => k.failed = {} /\ k.failing = INVALID,
         NEW p, NEW g, FromUser(k, p, g),
         NEW c, c = [k EXCEPT !.status = s]
  PROVE  /\ c \in Kittens /\ Static(c) /\ FromUser(c, p, g) /\ c.status = s
         /\ c.failed = k.failed /\ c.failing = k.failing /\ c.inconsistent = k.inconsistent
         /\ c.antecedents = k.antecedents /\ c.values = k.values /\ c.trail = k.trail
         /\ c.levelOf = k.levelOf /\ c.assumptions = k.assumptions
         /\ Refs(c) = Refs(k) /\ Originals(c) = Originals(k) /\ Knows(c) = Knows(k)
         /\ \A ref : Klause(c, ref) = Klause(k, ref) /\ Lits(c, ref) = Lits(k, ref)
         /\ \A refs : Refuted(c, refs) <=> Refuted(k, refs)
<1>1. c \in Kittens
  BY DEF Kittens
<1>2. /\ c.status = s /\ c.learned = k.learned /\ c.antecedents = k.antecedents
      /\ c.klauses = k.klauses /\ c.endOriginal = k.endOriginal /\ c.units = k.units
      /\ c.watches = k.watches /\ c.values = k.values /\ c.trail = k.trail
      /\ c.queue = k.queue /\ c.search = k.search /\ c.levelOf = k.levelOf
      /\ c.assumptions = k.assumptions /\ c.failed = k.failed /\ c.failing = k.failing
      /\ c.inconsistent = k.inconsistent
  BY DEF Kittens
<1>3. /\ Refs(c) = Refs(k) /\ Originals(c) = Originals(k) /\ Knows(c) = Knows(k)
      /\ \A ref : Klause(c, ref) = Klause(k, ref) /\ Lits(c, ref) = Lits(k, ref)
  BY <1>2 DEF Refs, Originals, Knows, Klause, Lits
<1>4. Clausal(c)
  BY <1>2, ClausalFrame DEF Static, Orderly
<1>5. Watched(c, Len(c.klauses))
  BY <1>2, WatchedFrame DEF Static
<1>6. QueueWell(c)
  BY <1>2, QueueFrame DEF Static, Orderly
<1>7. ValuesWell(c) /\ KnownWell(c)
  BY <1>2, <1>3 DEF Static, Orderly, ValuesWell, KnownWell
<1>8. FailedWell(c)
  BY <1>2 DEF Static, Orderly, FailedWell
<1>9. FromUser(c, p, g)
  BY <1>3 DEF FromUser
<1>10. \A refs : Refuted(c, refs) <=> Refuted(k, refs)
  BY <1>2, <1>3 DEF Refuted, SatisfiesAll
<1>11. Static(c)
  BY <1>4, <1>5, <1>6, <1>7, <1>8 DEF Static, Orderly
<1> QED
  BY <1>1, <1>2, <1>3, <1>9, <1>10, <1>11

LEMMA AnswerInconsistent ==
  ASSUME NEW k \in Kittens, Static(k), k.status = 0, k.inconsistent # INVALID,
         NEW p, NEW g, FromUser(k, p, g),
         NEW c, c = [k EXCEPT !.status = 20]
  PROVE  c \in Kittens /\ Static(c) /\ Answered(c) /\ FromUser(c, p, g)
<1>1. /\ c \in Kittens /\ Static(c) /\ FromUser(c, p, g) /\ c.status = 20
      /\ c.failed = k.failed /\ c.failing = k.failing /\ c.inconsistent = k.inconsistent
      /\ c.antecedents = k.antecedents
      /\ Refs(c) = Refs(k) /\ Originals(c) = Originals(k)
      /\ \A ref : Klause(c, ref) = Klause(k, ref) /\ Lits(c, ref) = Lits(k, ref)
      /\ \A refs : Refuted(c, refs) <=> Refuted(k, refs)
  BY StatusFrame
<1>2. /\ k.inconsistent \in Refs(k)
      /\ \A M \in Models : ~SatisfiesAll(k, M, Originals(k))
      /\ k.antecedents => Lits(k, k.inconsistent) = {}
  BY DEF Static, Orderly, Clausal, InconsistentWell
<1>3. k.failed = {} /\ k.failing = INVALID
  BY DEF Static, Orderly, FailedWell
<1>4. Refuted(k, Originals(k))
  BY <1>2 DEF Refuted
<1>5. RootSet(c) = {k.inconsistent}
  BY <1>1 DEF RootSet, Root
<1>6. k.antecedents => Refuted(k, {k.inconsistent})
  BY <1>2 DEF Refuted, SatisfiesAll, Satisfies
<1>7. c.status = 20 /\ c.antecedents => RootSet(c) \subseteq Refs(c) /\ Refuted(c, RootSet(c))
  BY <1>1, <1>2, <1>5, <1>6
<1>8. Answered(c)
  BY <1>1, <1>3, <1>4, <1>7 DEF Answered
<1> QED
  BY <1>1, <1>8

(* A clause is false because of unit clauses. *)
RootFalse(k, ref) ==
  \A l \in Lits(k, ref) :
    k.reason[IDX(l)] \in Refs(k) /\ Klause(k, k.reason[IDX(l)]).lits = <<NOT(l)>>

LEMMA RootRefutes ==
  ASSUME NEW k \in Kittens, NEW ref \in Refs(k), RootFalse(k, ref),
         NEW refs, ref \in refs, \A l \in Lits(k, ref) : k.reason[IDX(l)] \in refs
  PROVE  \A M \in Models : ~SatisfiesAll(k, M, refs)
<1> SUFFICES ASSUME NEW M \in Models, SatisfiesAll(k, M, refs)
             PROVE  FALSE
  OBVIOUS
<1>1. PICK l \in Lits(k, ref) : l \in M
  BY DEF SatisfiesAll, Satisfies
<1>2. k.reason[IDX(l)] \in refs /\ Klause(k, k.reason[IDX(l)]).lits = <<NOT(l)>>
  BY DEF RootFalse
<1>3. Lits(k, k.reason[IDX(l)]) = {NOT(l)}
  BY <1>2, UnitLits
<1>4. NOT(l) \in M
  BY <1>2, <1>3 DEF SatisfiesAll, Satisfies
<1>5. l \in LITS
  BY KlauseType
<1> QED
  BY <1>1, <1>4, <1>5, ModelFacts

(* The literals of a clause are not more than the variables in the queue. *)
LEMMA ClauseFits ==
  ASSUME NEW k \in Kittens, ClausesWell(k), NEW ref \in Refs(k)
  PROVE  Len(Klause(k, ref).lits) <= Len(k.queue)
<1> DEFINE lits == Klause(k, ref).lits
           n == Len(lits)
           m == Len(k.queue)
           pos == [i \in 1..n |-> CHOOSE q \in 1..m : k.queue[q] = IDX(lits[i])]
<1>1. n \in Nat /\ m \in Nat
  BY KlauseType, QueueType
<1>2. \A i \in 1..n : \E q \in 1..m : k.queue[q] = IDX(lits[i])
  <2>1. \A i \in 1..n : IDX(lits[i]) \in Knows(k)
    BY DEF ClausesWell
  <2>2. Knows(k) = {k.queue[q] : q \in 1..m}
    BY QueueType
  <2> QED
    BY <2>1, <2>2
<1>3. \A i \in 1..n : pos[i] \in 1..m /\ k.queue[pos[i]] = IDX(lits[i])
  BY <1>2
<1>4. \A i, j \in 1..n : IDX(lits[i]) = IDX(lits[j]) => i = j
  BY DEF ClausesWell
<1>5. DOMAIN pos = 1..n /\ pos \in [1..n -> 1..m]
  BY <1>3
<1> HIDE DEF pos
<1>6. pos \in Injection(1..n, 1..m)
  BY <1>3, <1>4, <1>5 DEF Injection, IsInjective
<1>7. Cardinality(1..n) <= Cardinality(1..m)
  BY <1>1, <1>6, FS_Injection, FS_Interval
<1>8. Cardinality(1..n) = n /\ Cardinality(1..m) = m
  <2>1. ASSUME NEW x \in Nat PROVE Cardinality(1..x) = x
    <3>1. Cardinality(1..x) = IF 1 > x THEN 0 ELSE x - 1 + 1
      <4>1. 1 \in Int /\ x \in Int
        OBVIOUS
      <4> QED
        BY <4>1, FS_Interval
    <3> QED
      BY <3>1
  <2> QED
    BY <1>1, <2>1
<1> QED
  BY <1>7, <1>8

LEMMA NoneToSeq ==
  ASSUME NEW S, NEW s \in Seq(S)
  PROVE  s \o SetToSeq({}) = s
<1>1. Cardinality({}) = 0
  BY FS_EmptySet
<1>2. 1..0 = {}
  OBVIOUS
<1>3. \E f \in [1..Cardinality({}) -> {}] : IsInjective(f)
  <2>1. [x \in {} |-> x] \in [1..Cardinality({}) -> {}]
    BY <1>1, <1>2
  <2>2. IsInjective([x \in {} |-> x])
    BY DEF IsInjective
  <2> QED
    BY <2>1, <2>2
<1>4. SetToSeq({}) \in [1..0 -> {}]
  BY <1>1, <1>3, Zenon DEF SetToSeq
<1>5. SetToSeq({}) = <<>>
  BY <1>2, <1>4
<1> QED
  BY <1>5, ConcatProperties

(* The clauses that the derivation of the empty clause needs. *)
ReasonsState(k, ref, lits, j, s) ==
  /\ s \in [kit : {k}, analyzed : Seq(Vars), resolved : SUBSET Refs(k)]
  /\ Len(s.analyzed) = Len(lits)
  /\ \A i \in 1..Len(lits) : s.analyzed[i] = IDX(lits[i])
  /\ ref \in s.resolved
  /\ \A i \in 1..Len(lits) : i <= j => k.reason[IDX(lits[i])] \in s.resolved

LEMMA ReasonsEffect ==
  ASSUME NEW k \in Kittens, NEW ref \in Refs(k), RootFalse(k, ref),
         NEW lits, lits = Klause(k, ref).lits,
         NEW j \in Nat \ {0}, NEW s, ReasonsState(k, ref, lits, j - 1, s)
  PROVE  ReasonsState(k, ref, lits, j, Reasons(s, j))
<1>1. /\ lits \in Seq(LITS) /\ Len(lits) \in Nat
      /\ \A i \in 1..Len(lits) : lits[i] \in LITS /\ lits[i] \in Lits(k, ref)
  <2>1. /\ Klause(k, ref).lits \in Seq(LITS) /\ Len(Klause(k, ref).lits) \in Nat
        /\ \A i \in 1..Len(Klause(k, ref).lits) : Klause(k, ref).lits[i] \in LITS
        /\ Lits(k, ref) = {Klause(k, ref).lits[i] : i \in 1..Len(Klause(k, ref).lits)}
    BY KlauseType
  <2> QED
    BY <2>1
<1>2. /\ s.kit = k /\ s.analyzed \in Seq(Vars) /\ s.resolved \subseteq Refs(k)
      /\ s \in [kit : {k}, analyzed : Seq(Vars), resolved : SUBSET Refs(k)]
      /\ Len(s.analyzed) = Len(lits)
      /\ \A i \in 1..Len(lits) : s.analyzed[i] = IDX(lits[i])
      /\ ref \in s.resolved
      /\ \A i \in 1..Len(lits) : i <= j - 1 => k.reason[IDX(lits[i])] \in s.resolved
  BY DEF ReasonsState
<1>3. CASE j > Len(s.analyzed)
  <2>1. Reasons(s, j) = s
    BY <1>3 DEF Reasons
  <2>2. \A i \in 1..Len(lits) : i <= j => i <= j - 1
    BY <1>1, <1>2, <1>3
  <2> QED
    BY <1>2, <2>1, <2>2 DEF ReasonsState
<1>4. CASE ~(j > Len(s.analyzed))
  <2> DEFINE r == k.reason[s.analyzed[j]]
             new == {IDX(l) : l \in Lits(k, r)} \ ToSet(s.analyzed)
             grown == s.analyzed \o SetToSeq(new)
             c == [s EXCEPT !.analyzed = grown, !.resolved = @ \cup {r}]
  <2>1. j \in 1..Len(lits) /\ s.analyzed[j] = IDX(lits[j])
    BY <1>1, <1>2, <1>4
  <2>2. r \in Refs(k) /\ Lits(k, r) = {NOT(lits[j])} /\ r = k.reason[IDX(lits[j])]
    <3>1. k.reason[IDX(lits[j])] \in Refs(k) /\ Klause(k, k.reason[IDX(lits[j])]).lits = <<NOT(lits[j])>>
      BY <1>1, <2>1 DEF RootFalse
    <3> QED
      BY <2>1, <3>1, UnitLits
  <2>3. new = {}
    <3>1. IDX(NOT(lits[j])) = IDX(lits[j])
      BY <1>1, <2>1, LitFacts
    <3>2. IDX(lits[j]) \in ToSet(s.analyzed)
      BY <1>2, <2>1, SetOfSeq
    <3> QED
      BY <2>2, <3>1, <3>2
  <2> HIDE DEF new
  <2>4. grown = s.analyzed
    BY <1>2, <2>3, NoneToSeq
  <2>5. Reasons(s, j) = c
    BY <1>2, <1>4 DEF Reasons, new
  <2> HIDE DEF grown, r
  <2>6. /\ c.kit = k /\ c.analyzed = s.analyzed /\ c.resolved = s.resolved \cup {r}
        /\ c \in [kit : {k}, analyzed : Seq(Vars), resolved : SUBSET Refs(k)]
    BY <1>2, <2>2, <2>4
  <2>7. \A i \in 1..Len(lits) : i <= j => i <= j - 1 \/ i = j
    BY <1>1
  <2>8. \A i \in 1..Len(lits) : i <= j => k.reason[IDX(lits[i])] \in c.resolved
    BY <1>2, <2>2, <2>6, <2>7
  <2> HIDE DEF c
  <2>9. ReasonsState(k, ref, lits, j, c)
    BY <1>2, <2>6, <2>8 DEF ReasonsState
  <2> QED
    BY <2>5, <2>9
<1> QED
  BY <1>3, <1>4

LEMMA ReasonsFold ==
  ASSUME NEW k \in Kittens, NEW ref \in Refs(k), ClausesWell(k), RootFalse(k, ref)
  PROVE  LET lits == Klause(k, ref).lits
             s == FoldLeftDomain(Reasons,
                    [kit |-> k, analyzed |-> [i \in 1..Len(lits) |-> IDX(lits[i])],
                     resolved |-> {ref}], k.queue)
         IN  /\ s.resolved \subseteq Refs(k)
             /\ ref \in s.resolved
             /\ \A l \in Lits(k, ref) : k.reason[IDX(l)] \in s.resolved
<1> DEFINE lits == Klause(k, ref).lits
           m == Len(k.queue)
           up == [i \in DOMAIN k.queue |-> i]
           first == [i \in 1..Len(lits) |-> IDX(lits[i])]
           base == [kit |-> k, analyzed |-> first, resolved |-> {ref}]
           States(j) == {s \in [kit : {k}, analyzed : Seq(Vars), resolved : SUBSET Refs(k)] :
                           ReasonsState(k, ref, lits, j, s)}
           Inv == [j \in 0..m |-> States(j)]
<1>1. /\ m \in Nat /\ DOMAIN k.queue = 1..m
      /\ lits \in Seq(LITS) /\ Len(lits) \in Nat /\ \A i \in 1..Len(lits) : lits[i] \in LITS
      /\ Lits(k, ref) = {lits[i] : i \in 1..Len(lits)}
      /\ Len(lits) <= m
  BY KlauseType, QueueType, ClauseFits
<1>2. up \in Seq(Nat) /\ Len(up) = m /\ \A i \in 1..m : up[i] = i
  <2>1. up = [i \in 1..m |-> i]
    BY <1>1
  <2>2. up \in Seq(Nat) /\ Len(up) = m
    BY <1>1, <2>1, IsASeq
  <2> QED
    BY <2>1, <2>2
<1> HIDE DEF up, lits
<1>3. base \in Inv[0]
  <2>1. \A i \in 1..Len(lits) : IDX(lits[i]) \in Vars
    BY <1>1, LitFacts
  <2>2. first \in Seq(Vars) /\ Len(first) = Len(lits) /\ \A i \in 1..Len(lits) : first[i] = IDX(lits[i])
    BY <1>1, <2>1, IsASeq
  <2> HIDE DEF first
  <2>3. /\ base \in [kit : {k}, analyzed : Seq(Vars), resolved : SUBSET Refs(k)]
        /\ base.analyzed = first /\ base.resolved = {ref}
    BY <2>2
  <2> HIDE DEF base
  <2>4. \A i \in 1..Len(lits) : ~(i <= 0)
    BY <1>1
  <2>5. ReasonsState(k, ref, lits, 0, base)
    BY <2>2, <2>3, <2>4 DEF ReasonsState
  <2>6. base \in States(0)
    BY <2>3, <2>5
  <2> QED
    BY <1>1, <2>6
<1>4. ASSUME NEW j \in 1..m, NEW s \in Inv[j - 1]
      PROVE  Reasons(s, up[j]) \in Inv[j]
  <2>1. j - 1 \in 0..m /\ j \in 0..m /\ up[j] = j /\ j \in Nat \ {0}
    BY <1>1, <1>2
  <2>2. ReasonsState(k, ref, lits, j - 1, s)
    BY <2>1
  <2>3. ReasonsState(k, ref, lits, j, Reasons(s, j))
    BY <2>1, <2>2, ReasonsEffect DEF lits
  <2>4. Reasons(s, j) \in States(j)
    BY <2>3 DEF ReasonsState
  <2> QED
    BY <2>1, <2>4
<1> HIDE DEF Inv, base, m
<1>5. FoldLeft(Reasons, base, up) \in Inv[m]
  BY <1>2, <1>3, <1>4, ReasoningInduction
<1>6. ReasonsState(k, ref, lits, m, FoldLeft(Reasons, base, up))
  BY <1>1, <1>5 DEF Inv
<1>7. FoldLeftDomain(Reasons, base, k.queue) = FoldLeft(Reasons, base, up)
  BY DEF FoldLeftDomain, up
<1> DEFINE s == FoldLeftDomain(Reasons, base, k.queue)
<1>8. /\ s.resolved \subseteq Refs(k) /\ ref \in s.resolved
      /\ \A i \in 1..Len(lits) : k.reason[IDX(lits[i])] \in s.resolved
  <2>1. /\ s \in [kit : {k}, analyzed : Seq(Vars), resolved : SUBSET Refs(k)]
        /\ ref \in s.resolved
        /\ \A i \in 1..Len(lits) : i <= m => k.reason[IDX(lits[i])] \in s.resolved
    BY <1>6, <1>7 DEF ReasonsState
  <2>2. \A i \in 1..Len(lits) : i <= m
    BY <1>1
  <2> QED
    BY <2>1, <2>2
<1>9. \A l \in Lits(k, ref) : k.reason[IDX(l)] \in s.resolved
  BY <1>1, <1>8
<1> QED
  BY <1>8, <1>9 DEF base, first, lits

LEMMA InconsistentEffect ==
  ASSUME NEW k \in Kittens, Static(k), k.inconsistent = INVALID,
         NEW ref \in Refs(k), Klause(k, ref).lits # <<>>, RootFalse(k, ref),
         NEW p, NEW g, FromUser(k, p, g)
  PROVE  /\ Inconsistent(k, ref) \in Kittens /\ Static(Inconsistent(k, ref))
         /\ Inconsistent(k, ref).inconsistent # INVALID
         /\ Inconsistent(k, ref).status = k.status
         /\ FromUser(Inconsistent(k, ref), p, g)
<1>1. k.queue # <<>>
  <2>1. /\ Len(Klause(k, ref).lits) \in Nat /\ Klause(k, ref).lits \in Seq(LITS)
        /\ k.queue \in Seq(Vars)
    BY KlauseType, QueueType
  <2>2. Len(Klause(k, ref).lits) <= Len(k.queue)
    BY ClauseFits DEF Static, Orderly, Clausal
  <2>3. Len(Klause(k, ref).lits) # 0
    BY <2>1
  <2> QED
    BY <2>1, <2>2, <2>3
<1>2. Derived(k) /\ Clausal(k)
  BY DEF Static, Orderly, Clausal
<1>3. CASE k.antecedents
  <2> DEFINE s == FoldLeftDomain(Reasons,
                    [kit |-> k, analyzed |-> [i \in 1..Len(Klause(k, ref).lits) |-> IDX(Klause(k, ref).lits[i])],
                     resolved |-> {ref}], k.queue)
             resolved == s.resolved
             c == NewLearned(k, <<>>, resolved)
  <2>1. /\ resolved \subseteq Refs(k) /\ ref \in resolved
        /\ \A l \in Lits(k, ref) : k.reason[IDX(l)] \in resolved
    BY <1>2, ReasonsFold DEF Clausal
  <2>2. Inconsistent(k, ref) = c
    BY <1>3 DEF Inconsistent
  <2> HIDE DEF resolved
  <2>3. \A M \in Models : ~SatisfiesAll(k, M, resolved)
    BY <2>1, RootRefutes
  <2>4. Follows(k, resolved, ToSet(<<>>))
    BY <2>3 DEF Follows
  <2>5. <<>> \in Seq(LITS) /\ DistinctLits(<<>>) /\ \A i \in 1..Len(<<>>) : IDX(<<>>[i]) \in Knows(k)
    BY DEF DistinctLits
  <2>6. Longer(k, <<>>, c) /\ Originals(c) = Originals(k) /\ Static(c)
    BY <1>1, <2>1, <2>4, <2>5, LearnedStatic
  <2> HIDE DEF c
  <2>7. c \in Kittens /\ c.status = k.status /\ c.inconsistent = Len(k.klauses) + 1 /\ Len(k.klauses) \in Nat
        /\ \A q \in Refs(k) : Klause(c, q) = Klause(k, q) /\ Lits(c, q) = Lits(k, q)
    BY <2>6 DEF Longer, SameSearch
  <2>8. FromUser(c, p, g)
    <3>1. Originals(k) \subseteq Refs(k)
      BY <1>2 DEF Derived, Originals, Refs, Kittens
    <3> QED
      BY <2>6, <2>7, <3>1 DEF FromUser
  <2> QED
    BY <2>2, <2>6, <2>7, <2>8 DEF INVALID
<1>4. CASE ~k.antecedents
  <2> DEFINE c == [k EXCEPT !.inconsistent = ref]
  <2>1. Inconsistent(k, ref) = c
    BY <1>4 DEF Inconsistent
  <2>0. c \in Kittens
    <3>1. ref \in Nat
      BY DEF Refs
    <3> QED
      BY <3>1 DEF Kittens
  <2>2. /\ c \in Kittens
        /\ c.status = k.status /\ c.learned = k.learned /\ c.antecedents = k.antecedents
        /\ c.klauses = k.klauses /\ c.endOriginal = k.endOriginal /\ c.units = k.units
        /\ c.watches = k.watches /\ c.values = k.values /\ c.trail = k.trail
        /\ c.queue = k.queue /\ c.search = k.search /\ c.levelOf = k.levelOf
        /\ c.assumptions = k.assumptions /\ c.failed = k.failed /\ c.failing = k.failing
        /\ c.inconsistent = ref
    BY <2>0 DEF Kittens
  <2> HIDE DEF c
  <2>3. /\ Refs(c) = Refs(k) /\ Originals(c) = Originals(k) /\ Knows(c) = Knows(k)
        /\ \A q : Klause(c, q) = Klause(k, q) /\ Lits(c, q) = Lits(k, q)
    BY <2>2 DEF Refs, Originals, Knows, Klause, Lits
  <2>4. ref # INVALID
    BY DEF Refs, INVALID
  <2>5. ClausesWell(c) /\ UnitsListed(c, Len(c.klauses))
    BY <1>2, <2>2, <2>3, <2>4 DEF Clausal, ClausesWell, UnitsListed
  <2>6. Derived(c)
    BY <1>2, <2>2, <2>3 DEF Derived, Follows, SatisfiesAll
  <2>7. \A M \in Models : ~SatisfiesAll(k, M, Originals(k))
    <3>1. \A M \in Models : ~SatisfiesAll(k, M, Refs(k))
      BY RootRefutes DEF RootFalse
    <3>2. \A M \in Models : SatisfiesAll(k, M, Originals(k)) => SatisfiesAll(k, M, Refs(k))
      BY <1>2, OriginalsImply
    <3> QED
      BY <3>1, <3>2
  <2>8. InconsistentWell(c)
    BY <1>1, <1>4, <2>2, <2>3, <2>7 DEF InconsistentWell, SatisfiesAll
  <2>9. Watched(c, Len(c.klauses))
    BY <2>2, WatchedFrame DEF Static
  <2>10. QueueWell(c)
    BY <2>2, QueueFrame DEF Static, Orderly
  <2>11. ValuesWell(c) /\ KnownWell(c)
    BY <2>2, <2>3 DEF Static, Orderly, ValuesWell, KnownWell
  <2>12. FailedWell(c)
    BY <2>2 DEF Static, Orderly, FailedWell
  <2>13. FromUser(c, p, g)
    BY <2>3 DEF FromUser
  <2>14. Static(c)
    BY <2>5, <2>6, <2>8, <2>9, <2>10, <2>11, <2>12 DEF Static, Orderly, Clausal
  <2> QED
    BY <2>1, <2>2, <2>4, <2>13, <2>14
<1> QED
  BY <1>3, <1>4 DEF Kittens

-----------------------------------------------------------------------------
(* Assigning the unit clauses. *)

RootAssigned(k) ==
  \A l \in k.values :
    /\ k.levelOf[IDX(l)] = 0
    /\ l \in ToSet(k.trail)
    /\ k.reason[IDX(l)] \in Refs(k)
    /\ Klause(k, k.reason[IDX(l)]).lits = <<l>>

UnitsState(k, j, s) ==
  /\ s \in [kit : Kittens, conflict : Nat]
  /\ Static(s.kit)
  /\ s.kit.klauses = k.klauses /\ s.kit.endOriginal = k.endOriginal
  /\ s.kit.status = 0 /\ s.kit.inconsistent = INVALID
  /\ s.kit.level = 0 /\ s.kit.propagated = 0
  /\ TrailWell(s.kit)
  /\ RootAssigned(s.kit)
  /\ IF s.conflict = INVALID
     THEN \A i \in 1..Len(k.units) : i <= j => Klause(k, k.units[i]).lits[1] \in s.kit.values
     ELSE /\ s.conflict \in Refs(k)
          /\ \E l \in LITS : Klause(k, s.conflict).lits = <<l>> /\ IsFalse(s.kit, l)

LEMMA ListedUnit ==
  ASSUME NEW k \in Kittens, Static(k), NEW i \in 1..Len(k.units)
  PROVE  /\ k.units[i] \in Refs(k)
         /\ Klause(k, k.units[i]).lits[1] \in LITS
         /\ Klause(k, k.units[i]).lits = <<Klause(k, k.units[i]).lits[1]>>
         /\ IDX(Klause(k, k.units[i]).lits[1]) \in Knows(k)
<1>1. k.units \in Seq(Nat) /\ k.units[i] \in ToSet(k.units)
  BY SetOfSeq DEF Kittens
<1>2. k.units[i] \in Refs(k) /\ Len(Klause(k, k.units[i]).lits) = 1
  BY <1>1 DEF Static, Orderly, Clausal, UnitsListed, Refs
<1>3. Klause(k, k.units[i]).lits \in Seq(LITS)
  BY <1>2, KlauseType
<1>4. Klause(k, k.units[i]).lits = <<Klause(k, k.units[i]).lits[1]>> /\ Klause(k, k.units[i]).lits[1] \in LITS
  BY <1>2, <1>3
<1>5. 1 \in 1..Len(Klause(k, k.units[i]).lits)
  BY <1>2
<1>6. IDX(Klause(k, k.units[i]).lits[1]) \in Knows(k)
  BY <1>2, <1>5 DEF Static, Orderly, Clausal, ClausesWell
<1> QED
  BY <1>2, <1>4, <1>6

LEMMA UnitReason ==
  ASSUME NEW k \in Kittens, NEW lit, NEW ref, Len(Klause(k, ref).lits) = 1
  PROVE  /\ Assign(k, lit, ref).klauses = k.klauses
         /\ Assign(k, lit, ref).endOriginal = k.endOriginal
         /\ Assign(k, lit, ref).reason = [k.reason EXCEPT ![IDX(lit)] = ref]
<1>1. ~(k.level = 0 /\ Len(Klause(k, ref).lits) > 1)
  OBVIOUS
<1>2. Assign(k, lit, ref) = [k EXCEPT
        !.values     = @ \cup {lit},
        !.phases     = IF lit > 0 THEN @ \ {IDX(lit)} ELSE @ \cup {IDX(lit)},
        !.trail      = Append(@, lit),
        !.levelOf[IDX(lit)] = k.level,
        !.reason[IDX(lit)]  = ref]
  BY <1>1 DEF Assign
<1> QED
  BY <1>2 DEF Kittens

LEMMA AssignUnitEffect ==
  ASSUME NEW k \in Kittens, Static(k), NEW j \in 1..Len(k.units), NEW s, UnitsState(k, j - 1, s)
  PROVE  UnitsState(k, j, AssignUnit(s, k.units[j]))
<1> DEFINE kit == s.kit
           ref == k.units[j]
           unit == Klause(k, ref).lits[1]
           a == Assign(kit, unit, ref)
<1>1. /\ s \in [kit : Kittens, conflict : Nat] /\ kit \in Kittens /\ s.conflict \in Nat
      /\ Static(kit)
      /\ kit.klauses = k.klauses /\ kit.endOriginal = k.endOriginal
      /\ kit.status = 0 /\ kit.inconsistent = INVALID
      /\ kit.level = 0 /\ kit.propagated = 0
      /\ TrailWell(kit)
      /\ RootAssigned(kit)
      /\ s.conflict = INVALID =>
           \A i \in 1..Len(k.units) : i <= j - 1 => Klause(k, k.units[i]).lits[1] \in kit.values
      /\ s.conflict # INVALID =>
           /\ s.conflict \in Refs(k)
           /\ \E l \in LITS : Klause(k, s.conflict).lits = <<l>> /\ IsFalse(kit, l)
  BY DEF UnitsState
<1>2. /\ ref \in Refs(k) /\ unit \in LITS
      /\ Klause(k, ref).lits = <<unit>> /\ IDX(unit) \in Knows(k)
  BY ListedUnit
<1>3. /\ Refs(kit) = Refs(k) /\ \A q : Klause(kit, q) = Klause(k, q) /\ Lits(kit, q) = Lits(k, q)
  BY <1>1 DEF Refs, Klause, Lits
<1>4. k.units \in Seq(Nat) /\ Len(k.units) \in Nat
  BY DEF Kittens
<1>5. \A i \in 1..Len(k.units) : i <= j => i <= j - 1 \/ i = j
  BY <1>4
<1> HIDE DEF kit, ref, unit
<1>6. CASE s.conflict # INVALID
  <2>1. AssignUnit(s, ref) = s
    BY <1>6 DEF AssignUnit
  <2> QED
    BY <1>1, <1>6, <2>1 DEF UnitsState, kit, ref
<1>7. CASE s.conflict = INVALID /\ IsTrue(kit, unit)
  <2>0. Klause(s.kit, ref).lits[1] = unit /\ IsTrue(s.kit, unit) /\ ~IsFalse(s.kit, unit)
    BY <1>1, <1>3, <1>7 DEF kit, unit, Static, Orderly, ValuesWell, IsTrue, IsFalse
  <2>1. AssignUnit(s, ref) = s
    BY <2>0 DEF AssignUnit
  <2>2. \A i \in 1..Len(k.units) : i <= j => Klause(k, k.units[i]).lits[1] \in kit.values
    BY <1>1, <1>5, <1>7 DEF IsTrue, unit, ref
  <2> QED
    BY <1>1, <1>7, <2>1, <2>2 DEF UnitsState, kit, ref
<1>8. CASE s.conflict = INVALID /\ ~IsTrue(kit, unit) /\ IsFalse(kit, unit)
  <2> DEFINE c == [s EXCEPT !.conflict = ref]
  <2>1. AssignUnit(s, ref) = c
    BY <1>3, <1>8 DEF AssignUnit, kit, unit
  <2>2. ref \in Nat /\ ref # INVALID
    BY <1>2 DEF Refs, INVALID
  <2>3. c \in [kit : Kittens, conflict : Nat] /\ c.kit = kit /\ c.conflict = ref
    BY <1>1, <2>2 DEF kit
  <2> HIDE DEF c
  <2>4. UnitsState(k, j, c)
    BY <1>1, <1>2, <1>8, <2>2, <2>3 DEF UnitsState
  <2> QED
    BY <2>1, <2>4 DEF ref
<1>9. CASE s.conflict = INVALID /\ ~IsTrue(kit, unit) /\ ~IsFalse(kit, unit)
  <2> DEFINE c == [s EXCEPT !.kit = a]
  <2>1. AssignUnit(s, ref) = c
    BY <1>3, <1>9 DEF AssignUnit, kit, unit
  <2>2. ref \in Nat /\ ref # INVALID /\ Lits(kit, ref) = {unit} /\ Len(Klause(kit, ref).lits) = 1
    <3>1. ref \in Nat /\ ref # INVALID
      BY <1>2 DEF Refs, INVALID
    <3>2. Klause(kit, ref).lits = <<unit>>
      BY <1>2, <1>3
    <3>3. Lits(kit, ref) = {unit}
      BY <3>2, UnitLits
    <3>4. Len(<<unit>>) = 1
      OBVIOUS
    <3> QED
      BY <3>1, <3>2, <3>3, <3>4
  <2>3. IDX(unit) \in Knows(kit)
    BY <1>1, <1>2, <1>3, <2>2 DEF Static, Orderly, Clausal, ClausesWell
  <2>4. AssignAssumption(kit, unit, ref)
    BY <1>1, <1>2, <1>3, <1>9, <2>2, <2>3 DEF AssignAssumption, Static
  <2>5. AssignedTo(kit, unit, ref, a) /\ Static(a)
    BY <1>1, <1>2, <2>2, <2>4, AssignStatic
  <2>6. NowAssigned(kit, unit, ref, a)
    BY <1>9, <2>5 DEF NowAssigned, IsTrue, IsFalse
  <2>7. /\ a.klauses = kit.klauses /\ a.endOriginal = kit.endOriginal
        /\ a.reason = [kit.reason EXCEPT ![IDX(unit)] = ref]
    <3>1. kit \in Kittens /\ Len(Klause(kit, ref).lits) = 1
      BY <1>1, <2>2
    <3> QED
      BY <3>1, UnitReason
  <2> HIDE DEF a
  <2>8. TrailWell(a)
    BY <1>1, <1>2, <2>6, AssignedTrail
  <2>9. /\ a \in Kittens /\ a.values = kit.values \cup {unit}
        /\ a.status = 0 /\ a.inconsistent = INVALID /\ a.level = 0 /\ a.propagated = 0
    BY <1>1, <2>5 DEF AssignedTo, WithUnits
  <2>10. /\ Refs(a) = Refs(k) /\ \A q : Klause(a, q) = Klause(k, q)
    BY <1>1, <2>7 DEF Refs, Klause
  <2>11. RootAssigned(a)
    <3>1. /\ \A l \in kit.values : /\ a.levelOf[IDX(l)] = kit.levelOf[IDX(l)]
                                   /\ a.reason[IDX(l)] = kit.reason[IDX(l)]
          /\ a.levelOf[IDX(unit)] = kit.level
          /\ ToSet(a.trail) = ToSet(kit.trail) \cup {unit}
      <4>1. kit \in Kittens /\ unit \in LITS /\ NowAssigned(kit, unit, ref, a)
        BY <1>1, <1>2, <2>6
      <4> HIDE DEF a
      <4> QED
        BY <4>1, AssignedKeeps
    <3>2. a.reason[IDX(unit)] = ref
      BY <1>1, <1>2, <2>7, LitFacts DEF Kittens
    <3> SUFFICES ASSUME NEW l \in a.values
                 PROVE  /\ a.levelOf[IDX(l)] = 0
                        /\ l \in ToSet(a.trail)
                        /\ a.reason[IDX(l)] \in Refs(a)
                        /\ Klause(a, a.reason[IDX(l)]).lits = <<l>>
      BY DEF RootAssigned
    <3>3. CASE l = unit
      BY <1>1, <1>2, <2>10, <3>1, <3>2, <3>3
    <3>4. CASE l \in kit.values
      BY <1>1, <1>3, <2>10, <3>1, <3>4 DEF RootAssigned
    <3> QED
      BY <2>9, <3>3, <3>4
  <2>12. c \in [kit : Kittens, conflict : Nat] /\ c.kit = a /\ c.conflict = s.conflict
    BY <1>1, <2>9
  <2> HIDE DEF c
  <2>13. \A i \in 1..Len(k.units) : i <= j => Klause(k, k.units[i]).lits[1] \in a.values
    BY <1>1, <1>5, <1>9, <2>9 DEF unit, ref
  <2>14. UnitsState(k, j, c)
    BY <1>1, <1>9, <2>5, <2>7, <2>8, <2>9, <2>11, <2>12, <2>13 DEF UnitsState
  <2> QED
    BY <2>1, <2>14 DEF ref
<1> QED
  BY <1>6, <1>7, <1>8, <1>9

LEMMA UnitsFold ==
  ASSUME NEW k \in Kittens, Static(k), Cleared(k), k.status = 0, k.inconsistent = INVALID
  PROVE  UnitsState(k, Len(k.units), FoldLeft(AssignUnit, [kit |-> k, conflict |-> INVALID], k.units))
<1> DEFINE list == k.units
           n == Len(list)
           States(j) == {s \in [kit : Kittens, conflict : Nat] : UnitsState(k, j, s)}
           Inv == [j \in 0..n |-> States(j)]
           base == [kit |-> k, conflict |-> INVALID]
<1>1. list \in Seq(Nat) /\ n \in Nat
  BY LenProperties DEF Kittens
<1>2. base \in Inv[0]
  <2>1. base \in [kit : Kittens, conflict : Nat] /\ base.kit = k /\ base.conflict = INVALID
    BY DEF INVALID
  <2>2. TrailWell(k)
    <3>1. Len(k.trail) = 0 /\ k.propagated = 0
      BY DEF Cleared
    <3> QED
      BY <3>1 DEF TrailWell
  <2>3. RootAssigned(k)
    BY DEF RootAssigned, Cleared
  <2>4. \A i \in 1..Len(k.units) : ~(i <= 0)
    OBVIOUS
  <2> HIDE DEF base
  <2>5. UnitsState(k, 0, base)
    BY <2>1, <2>2, <2>3, <2>4 DEF UnitsState, Cleared
  <2>6. base \in States(0)
    BY <2>1, <2>5
  <2> QED
    BY <1>1, <2>6
<1>3. ASSUME NEW j \in 1..n, NEW s \in Inv[j - 1]
      PROVE  AssignUnit(s, list[j]) \in Inv[j]
  <2>1. j - 1 \in 0..n /\ j \in 0..n
    BY <1>1
  <2>2. UnitsState(k, j - 1, s)
    BY <2>1
  <2>3. UnitsState(k, j, AssignUnit(s, list[j]))
    BY <2>2, AssignUnitEffect
  <2>4. AssignUnit(s, list[j]) \in States(j)
    BY <2>3 DEF UnitsState
  <2> QED
    BY <2>1, <2>4
<1> HIDE DEF Inv, base, n, list
<1>4. FoldLeft(AssignUnit, base, list) \in Inv[n]
  BY <1>1, <1>2, <1>3, AssigningUnitsInduction DEF n
<1>5. UnitsState(k, n, FoldLeft(AssignUnit, base, list))
  BY <1>1, <1>4 DEF Inv
<1> QED
  BY <1>5 DEF base, n, list

(* When no unit is false, search begins. *)
LEMMA UnitsSearching ==
  ASSUME NEW k \in Kittens, Static(k), NEW s, UnitsState(k, Len(k.units), s), s.conflict = INVALID,
         NEW p, NEW g, FromUser(k, p, g)
  PROVE  /\ s.kit \in Kittens /\ Static(s.kit) /\ FromUser(s.kit, p, g)
         /\ Searching(s.kit, INVALID)
<1> DEFINE c == s.kit
<1>1. /\ c \in Kittens /\ Static(c)
      /\ c.klauses = k.klauses /\ c.endOriginal = k.endOriginal
      /\ c.status = 0 /\ c.inconsistent = INVALID
      /\ c.level = 0 /\ c.propagated = 0
      /\ TrailWell(c) /\ RootAssigned(c)
      /\ \A i \in 1..Len(k.units) : i <= Len(k.units) => Klause(k, k.units[i]).lits[1] \in c.values
  BY DEF UnitsState
<1> HIDE DEF c
<1>2. /\ Refs(c) = Refs(k) /\ Originals(c) = Originals(k)
      /\ \A q : Klause(c, q) = Klause(k, q) /\ Lits(c, q) = Lits(k, q)
  BY <1>1 DEF Refs, Klause, Lits, Originals
<1>3. FromUser(c, p, g)
  BY <1>2 DEF FromUser
<1>4. ValuesExplained(c)
  <2>1. \A l \in c.values : /\ c.levelOf[IDX(l)] = 0
                            /\ c.reason[IDX(l)] \in Refs(c)
                            /\ Klause(c, c.reason[IDX(l)]).lits = <<l>>
    BY <1>1 DEF RootAssigned
  <2>2. ASSUME NEW ref \in Refs(c), NEW l \in LITS, Klause(c, ref).lits = <<l>>
        PROVE  l \in c.values /\ c.levelOf[IDX(l)] = 0
    <3>1. ref \in Refs(k) /\ Len(Klause(k, ref).lits) = 1 /\ Klause(k, ref).lits[1] = l
      <4>1. Klause(k, ref).lits = <<l>> /\ ref \in Refs(k)
        BY <1>2, <2>2
      <4>2. Len(<<l>>) = 1 /\ <<l>>[1] = l
        OBVIOUS
      <4> QED
        BY <4>1, <4>2
    <3>2. ref \in ToSet(k.units)
      BY <3>1 DEF Static, Orderly, Clausal, UnitsListed, Refs
    <3>3. k.units \in Seq(Nat) /\ Len(k.units) \in Nat
      BY DEF Kittens
    <3>4. PICK i \in 1..Len(k.units) : k.units[i] = ref
      BY <3>2, <3>3, SetOfSeq
    <3>5. l \in c.values
      BY <1>1, <3>1, <3>3, <3>4
    <3> QED
      BY <2>1, <3>5
  <2> QED
    BY <2>1, <2>2 DEF ValuesExplained
<1>5. ReasonsWell(c)
  <2>1. \A i \in 1..Len(c.trail) : c.levelOf[IDX(c.trail[i])] = 0
    BY <1>1 DEF TrailWell, RootAssigned
  <2> QED
    BY <2>1 DEF ReasonsWell
<1>6. AssumptionsTrue(c)
  <2>1. \A i \in 1..Len(c.assumptions) : ~(i <= 0)
    OBVIOUS
  <2> QED
    BY <1>1, <2>1 DEF AssumptionsTrue
<1>7. \A l \in LITS : IsFalse(c, l) => Pending(c, 0, NOT(l))
  <2> SUFFICES ASSUME NEW l \in LITS, NOT(l) \in c.values
               PROVE  Pending(c, 0, NOT(l))
    BY DEF IsFalse
  <2>1. NOT(l) \in ToSet(c.trail) /\ c.trail \in Seq(LITS) /\ Len(c.trail) \in Nat
    BY <1>1 DEF RootAssigned, Kittens
  <2>2. PICK i \in 1..Len(c.trail) : c.trail[i] = NOT(l)
    BY <2>1, SetOfSeq
  <2>3. i \in 0 + 1 .. Len(c.trail)
    OBVIOUS
  <2> QED
    BY <2>2, <2>3 DEF Pending
<1>8. WatchesExcused(c, INVALID)
  <2> SUFFICES ASSUME NEW ref \in Refs(c), Large(c, ref), NEW i \in {1, 2}
               PROVE  WatchExcused(c, c.propagated, INVALID, ref, Klause(c, ref).lits[i])
    BY DEF WatchesExcused
  <2>1. Klause(c, ref).lits[i] \in LITS
    BY <1>1, WatchFields
  <2> QED
    BY <1>1, <1>7, <2>1 DEF WatchExcused
<1>9. ConflictWell(c, INVALID)
  BY DEF ConflictWell
<1> QED
  BY <1>1, <1>3, <1>4, <1>5, <1>6, <1>8, <1>9 DEF Searching, Explained, c

(* Otherwise the clauses are refuted. *)
LEMMA UnitsRefuted ==
  ASSUME NEW k \in Kittens, Static(k), NEW s, UnitsState(k, Len(k.units), s), s.conflict # INVALID,
         NEW p, NEW g, FromUser(k, p, g),
         NEW c, c = [Inconsistent(s.kit, s.conflict) EXCEPT !.status = 20]
  PROVE  c \in Kittens /\ Static(c) /\ Answered(c) /\ FromUser(c, p, g)
<1> DEFINE kit == s.kit
           ref == s.conflict
           d == Inconsistent(kit, ref)
<1>1. /\ kit \in Kittens /\ Static(kit)
      /\ kit.klauses = k.klauses /\ kit.endOriginal = k.endOriginal
      /\ kit.status = 0 /\ kit.inconsistent = INVALID
      /\ RootAssigned(kit)
      /\ ref \in Refs(k)
      /\ \E l \in LITS : Klause(k, ref).lits = <<l>> /\ IsFalse(kit, l)
  BY DEF UnitsState
<1> HIDE DEF kit, ref
<1>2. /\ Refs(kit) = Refs(k) /\ Originals(kit) = Originals(k)
      /\ \A q : Klause(kit, q) = Klause(k, q) /\ Lits(kit, q) = Lits(k, q)
  BY <1>1 DEF Refs, Klause, Lits, Originals
<1>3. FromUser(kit, p, g)
  BY <1>2 DEF FromUser
<1>4. PICK l \in LITS : Klause(k, ref).lits = <<l>> /\ IsFalse(kit, l)
  BY <1>1
<1>5. Lits(kit, ref) = {l} /\ Klause(kit, ref).lits # <<>>
  <2>1. Lits(k, ref) = {l}
    BY <1>4, UnitLits
  <2>2. Klause(kit, ref).lits = <<l>> /\ Lits(kit, ref) = {l}
    BY <1>2, <1>4, <2>1
  <2>3. <<l>> # <<>>
    OBVIOUS
  <2> QED
    BY <2>2, <2>3
<1>6. RootFalse(kit, ref)
  <2>1. IDX(NOT(l)) = IDX(l)
    BY LitFacts
  <2> QED
    BY <1>1, <1>4, <1>5, <2>1 DEF RootFalse, RootAssigned, IsFalse
<1>7. d \in Kittens /\ Static(d) /\ d.inconsistent # INVALID /\ d.status = 0 /\ FromUser(d, p, g)
  BY <1>1, <1>2, <1>3, <1>5, <1>6, InconsistentEffect
<1> HIDE DEF d
<1> QED
  BY <1>7, AnswerInconsistent DEF d, kit, ref

-----------------------------------------------------------------------------
(* What explains the values is kept by propagation. *)

LEMMA OriginalsAreRefs ==
  ASSUME NEW k \in Kittens, Derived(k)
  PROVE  Originals(k) \subseteq Refs(k)
<1>1. k.endOriginal \in Nat /\ Len(k.klauses) \in Nat /\ k.endOriginal <= Len(k.klauses)
  BY DEF Derived, Kittens
<1> QED
  BY <1>1 DEF Originals, Refs

LEMMA UnitNotLarge ==
  ASSUME NEW k, NEW ref, NEW l, Klause(k, ref).lits = <<l>>
  PROVE  ~Large(k, ref)
<1>1. Len(<<l>>) = 1
  OBVIOUS
<1>2. Len(Klause(k, ref).lits) = 1
  BY <1>1
<1> QED
  BY <1>2 DEF Large

LEMMA LevelBound ==
  ASSUME NEW k \in Kittens, Explained(k), NEW l \in k.values
  PROVE  /\ l \in LITS /\ k.levelOf[IDX(l)] \in Nat /\ k.levelOf[IDX(l)] <= k.level
         /\ k.level \in Nat
         /\ k.levelOf[IDX(l)] > 0 => \E i \in 1..Len(k.trail) : k.trail[i] = l
         /\ k.levelOf[IDX(l)] = 0 => /\ k.reason[IDX(l)] \in Refs(k)
                                     /\ Klause(k, k.reason[IDX(l)]).lits = <<l>>
<1>1. l \in LITS /\ k.level \in Nat /\ k.trail \in Seq(LITS)
  BY DEF Kittens
<1>2. k.levelOf[IDX(l)] \in Nat
  BY <1>1, LitFacts DEF Kittens
<1>3. k.levelOf[IDX(l)] > 0 => \E i \in 1..Len(k.trail) : k.trail[i] = l
  <2> SUFFICES ASSUME k.levelOf[IDX(l)] > 0
               PROVE  \E i \in 1..Len(k.trail) : k.trail[i] = l
    OBVIOUS
  <2>1. l \in ToSet(k.trail)
    BY <1>2 DEF Explained, ValuesExplained
  <2> QED
    BY <1>1, <2>1, SetOfSeq
<1>4. k.levelOf[IDX(l)] <= k.level
  <2>1. CASE k.levelOf[IDX(l)] = 0
    BY <1>1, <2>1
  <2>2. CASE k.levelOf[IDX(l)] > 0
    BY <1>3, <2>2 DEF Explained, TrailWell
  <2> QED
    BY <1>2, <2>1, <2>2
<1>5. k.levelOf[IDX(l)] = 0 => /\ k.reason[IDX(l)] \in Refs(k)
                               /\ Klause(k, k.reason[IDX(l)]).lits = <<l>>
  BY DEF Explained, ValuesExplained
<1> QED
  BY <1>1, <1>2, <1>3, <1>4, <1>5

(* The same for false literals. *)
LEMMA FalseBound ==
  ASSUME NEW k \in Kittens, Explained(k), NEW l \in LITS, IsFalse(k, l)
  PROVE  /\ k.levelOf[IDX(l)] \in Nat /\ k.levelOf[IDX(l)] <= k.level
         /\ k.level \in Nat
         /\ k.levelOf[IDX(l)] > 0 => \E i \in 1..Len(k.trail) : k.trail[i] = NOT(l)
         /\ k.levelOf[IDX(l)] = 0 => /\ k.reason[IDX(l)] \in Refs(k)
                                     /\ Klause(k, k.reason[IDX(l)]).lits = <<NOT(l)>>
<1>1. NOT(l) \in k.values /\ IDX(NOT(l)) = IDX(l)
  BY LitFacts DEF IsFalse
<1> QED
  BY <1>1, LevelBound

LEMMA RewatchedExplained ==
  ASSUME NEW k \in Kittens, NEW c, Rewatched(k, c), Derived(k), Explained(k)
  PROVE  Explained(c)
<1>1. /\ c \in Kittens /\ Refs(c) = Refs(k)
      /\ \A ref \in Refs(k) : Lits(c, ref) = Lits(k, ref)
  BY RewatchedFrame DEF Rewatched
<1>2. /\ c.status = k.status /\ c.values = k.values
      /\ c.level = k.level /\ c.levelOf = k.levelOf /\ c.reason = k.reason
      /\ c.trail = k.trail /\ c.propagated = k.propagated
      /\ c.assumptions = k.assumptions /\ c.inconsistent = k.inconsistent
  BY DEF Rewatched, OnlyRewatched
<1>3. \A ref \in Refs(k) : /\ Len(Klause(c, ref).lits) = Len(Klause(k, ref).lits)
                           /\ ~Large(k, ref) => Klause(c, ref).lits = Klause(k, ref).lits
  BY DEF Rewatched, Permuted
<1>4. \A ref \in Refs(k) : \A l : Klause(c, ref).lits = <<l>> <=> Klause(k, ref).lits = <<l>>
  <2> SUFFICES ASSUME NEW ref \in Refs(k), NEW l,
                      Klause(c, ref).lits = <<l>> \/ Klause(k, ref).lits = <<l>>
               PROVE  Klause(c, ref).lits = Klause(k, ref).lits
    OBVIOUS
  <2>1. ~Large(c, ref) \/ ~Large(k, ref)
    BY UnitNotLarge
  <2>2. ~Large(k, ref)
    <3>1. Len(Klause(c, ref).lits) = Len(Klause(k, ref).lits)
      BY <1>3
    <3> QED
      BY <2>1, <3>1 DEF Large
  <2> QED
    BY <1>3, <2>2
<1>5. TrailWell(c)
  BY <1>2 DEF Explained, TrailWell
<1>6. ValuesExplained(c)
  BY <1>1, <1>2, <1>4 DEF Explained, ValuesExplained
<1>7. \A i, l : Before(c, i, l) <=> Before(k, i, l)
  BY <1>2 DEF Before, IsFalse
<1>8. \A i \in 1..Len(k.trail) : ReasonWell(k, i) => ReasonWell(c, i)
  BY <1>1, <1>2, <1>7 DEF ReasonWell
<1>9. ReasonsWell(c)
  BY <1>2, <1>8 DEF Explained, ReasonsWell
<1>10. AssumptionsTrue(c)
  BY <1>2 DEF Explained, AssumptionsTrue, IsTrue
<1> QED
  BY <1>2, <1>5, <1>6, <1>9, <1>10 DEF Explained

LEMMA RewatchedExcuses ==
  ASSUME NEW k \in Kittens, NEW c, Rewatched(k, c), Derived(k),
         NEW n, NEW bad, NEW ref \in Refs(k), NEW l, WatchExcused(k, n, bad, ref, l)
  PROVE  WatchExcused(c, n, bad, ref, l)
<1>1. Lits(c, ref) = Lits(k, ref)
  BY RewatchedFrame
<1>2. c.values = k.values /\ c.level = k.level /\ c.levelOf = k.levelOf /\ c.trail = k.trail
  BY DEF Rewatched, OnlyRewatched
<1> QED
  BY <1>1, <1>2 DEF WatchExcused, Excused, Pending, IsTrue, IsFalse

LEMMA AssignedExplained ==
  ASSUME NEW k \in Kittens, NEW lit \in LITS, NEW reason \in Nat, NEW a, NowAssigned(k, lit, reason, a),
         Explained(k), k.level > 0 => ReasonFor(k, lit, reason)
  PROVE  Explained(a)
<1>1. TrailWell(a)
  BY AssignedTrail DEF Explained
<1>2. ValuesExplained(a)
  BY AssignedValues DEF Explained
<1>3. ReasonsWell(a)
  BY AssignedReasons DEF Explained
<1>4. AssumptionsTrue(a)
  <2>1. /\ \A l \in k.values : l \in a.values /\ a.levelOf[IDX(l)] = k.levelOf[IDX(l)]
    BY AssignedKeeps
  <2>2. a.assumptions = k.assumptions /\ a.level = k.level
    BY DEF NowAssigned, AssignedTo
  <2> QED
    BY <2>1, <2>2 DEF Explained, AssumptionsTrue, IsTrue
<1>5. a.status = 0 /\ a.inconsistent = INVALID
  BY DEF Explained, NowAssigned, AssignedTo, WithUnits
<1> QED
  BY <1>1, <1>2, <1>3, <1>4, <1>5 DEF Explained

LEMMA AssignedVisiting ==
  ASSUME NEW k \in Kittens, NEW lit, NEW reason, NEW a, AssignedTo(k, lit, reason, a),
         NEW x, NEW kept, NEW rest, Visiting(k, x, kept, rest)
  PROVE  Visiting(a, x, kept, rest)
<1>1. /\ Refs(k) \subseteq Refs(a)
      /\ \A ref \in Refs(k) : Klause(a, ref) = Klause(k, ref) /\ Lits(a, ref) = Lits(k, ref)
      /\ \A ref \in Refs(a) \ Refs(k) : Klause(a, ref).lits = <<lit>>
      /\ a.watches = k.watches
  BY DEF AssignedTo, WithUnits
<1>2. \A ref \in Refs(a) : Large(a, ref) <=> (ref \in Refs(k) /\ Large(k, ref))
  <2>1. \A ref \in Refs(a) \ Refs(k) : ~Large(a, ref)
    BY <1>1, UnitNotLarge
  <2>2. \A ref \in Refs(k) : Large(a, ref) <=> Large(k, ref)
    BY <1>1 DEF Large
  <2> QED
    BY <1>1, <2>1, <2>2
<1>3. \A l : WatchedRefs(a, Len(a.klauses), l) = WatchedRefs(k, Len(k.klauses), l)
  BY <1>1, <1>2 DEF WatchedRefs, Refs
<1>4. \A l : WatchedRefs(k, Len(k.klauses), l) \subseteq Refs(k)
  BY DEF WatchedRefs, Refs
<1>5. ASSUME NEW refs \in SUBSET Refs(k), NEW l, NEW watches, WatchListOf(k, refs, l, watches)
      PROVE  WatchListOf(a, refs, l, watches)
  <2>1. \A ref \in refs : Lits(a, ref) = Lits(k, ref)
    BY <1>1
  <2> QED
    BY <1>5, <2>1, WatchListFrame
<1>6. ASSUME NEW l \in LITS \ {x}
      PROVE  WatchListOf(a, WatchedRefs(a, Len(a.klauses), l), l, a.watches[l])
  BY <1>1, <1>3, <1>4, <1>5 DEF Visiting
<1>7. WatchListOf(a, WatchedRefs(k, Len(k.klauses), x) \ rest, x, kept)
  BY <1>4, <1>5 DEF Visiting
<1> QED
  BY <1>3, <1>6, <1>7 DEF Visiting

(* A clause that is false on the root level. *)
LEMMA RootConflictEffect ==
  ASSUME NEW k \in Kittens, Static(k), NEW bad, bad # INVALID, Searching(k, bad), k.level = 0,
         NEW p, NEW g, FromUser(k, p, g),
         NEW c, c = [Inconsistent(k, bad) EXCEPT !.status = 20]
  PROVE  c \in Kittens /\ Static(c) /\ Answered(c) /\ FromUser(c, p, g)
<1> DEFINE d == Inconsistent(k, bad)
<1>1. /\ Explained(k) /\ k.status = 0 /\ k.inconsistent = INVALID
      /\ bad \in Refs(k) /\ Falsified(k, Lits(k, bad)) /\ Lits(k, bad) # {}
  BY DEF Searching, Explained, ConflictWell
<1>2. Klause(k, bad).lits # <<>>
  BY <1>1 DEF Lits, ToSet
<1>3. RootFalse(k, bad)
  <2> SUFFICES ASSUME NEW l \in Lits(k, bad)
               PROVE  k.reason[IDX(l)] \in Refs(k) /\ Klause(k, k.reason[IDX(l)]).lits = <<NOT(l)>>
    BY DEF RootFalse
  <2>1. l \in LITS /\ IsFalse(k, l)
    BY <1>1, KlauseType DEF Falsified
  <2>2. k.levelOf[IDX(l)] \in Nat /\ k.levelOf[IDX(l)] <= k.level
    BY <1>1, <2>1, FalseBound
  <2>3. k.levelOf[IDX(l)] = 0
    BY <2>2
  <2> QED
    BY <1>1, <2>1, <2>3, FalseBound
<1>4. d \in Kittens /\ Static(d) /\ d.inconsistent # INVALID /\ d.status = 0 /\ FromUser(d, p, g)
  BY <1>1, <1>2, <1>3, InconsistentEffect
<1> HIDE DEF d
<1> QED
  BY <1>4, AnswerInconsistent DEF d

-----------------------------------------------------------------------------
(* Propagating a literal: one watch after the other. *)

VisitExcuses(k, n, bad, lit, rest) ==
  \A ref \in Refs(k) : Large(k, ref) =>
    \A i \in {1, 2} : \/ Klause(k, ref).lits[i] = lit /\ ref \in rest
                      \/ WatchExcused(k, n, bad, ref, Klause(k, ref).lits[i])

(* The clauses of k are still there, and those of the user are the same. *)
Continues(k, p, g, c) ==
  /\ Orderly(c)
  /\ Explained(c)
  /\ c.level = k.level /\ c.propagated = k.propagated
  /\ k.propagated + 1 <= Len(c.trail)
  /\ Refs(k) \subseteq Refs(c)
  /\ \A ref \in Refs(k) : Lits(c, ref) = Lits(k, ref)
  /\ FromUser(c, p, g)

PropagateStates(lit) == [kit : Kittens, lit : {lit}, kept : Seq(Watchers), conflict : Nat]

PropagateState(k, p, g, lit, list, j, s) ==
  /\ s \in PropagateStates(lit)
  /\ Continues(k, p, g, s.kit)
  /\ IsFalse(s.kit, lit) /\ s.kit.levelOf[IDX(lit)] = s.kit.level
  /\ Visiting(s.kit, lit, s.kept, RestOf(list, j))
  /\ VisitExcuses(s.kit, k.propagated + 1, s.conflict, lit, RestOf(list, j))
  /\ ConflictWell(s.kit, s.conflict)

(* The clause of the watch that is visited next. *)
VisitedFacts(kit, lit, ref, w, other) ==
  /\ w \in Watchers /\ w.ref = ref /\ w.blit \in Lits(kit, ref) \ {lit}
  /\ ref \in Refs(kit) /\ ref # INVALID /\ Large(kit, ref)
  /\ Len(Klause(kit, ref).lits) \in Nat
  /\ lit \in Lits(kit, ref)
  /\ other \in LITS /\ other \in Lits(kit, ref) \ {lit}
  /\ \E i \in {1, 2} : other = Klause(kit, ref).lits[i]
  /\ \A l \in Lits(kit, ref) :
       l = lit \/ l = other \/ \E i \in 3..Len(Klause(kit, ref).lits) : Klause(kit, ref).lits[i] = l

LEMMA VisitedWatch ==
  ASSUME NEW k \in Kittens, Static(k), NEW lit \in LITS, NEW list, list = k.watches[lit],
         NEW j \in 1..Len(list), NEW p, NEW g, NEW s, PropagateState(k, p, g, lit, list, j - 1, s)
  PROVE  /\ VisitedFacts(s.kit, lit, list[j].ref, list[j], OtherWatch(s.kit, lit, list[j].ref))
         /\ list[j].ref \in RestOf(list, j - 1)
         /\ RestOf(list, j) = RestOf(list, j - 1) \ {list[j].ref}
<1> DEFINE watch == list[j]
           kit == s.kit
           ref == watch.ref
           lits == Klause(kit, ref).lits
           other == OtherWatch(kit, lit, ref)
<1>1. /\ list \in Seq(Watchers) /\ watch \in Watchers
      /\ \A i1, i2 \in 1..Len(list) : list[i1].ref = list[i2].ref => i1 = i2
      /\ watch.blit \in Lits(k, ref) \ {lit}
      /\ ref \in WatchedRefs(k, Len(k.klauses), lit)
  <2>1. /\ list \in Seq(Watchers)
        /\ \A i \in 1..Len(list) : list[i].ref \in WatchedRefs(k, Len(k.klauses), lit)
        /\ \A i1, i2 \in 1..Len(list) : list[i1].ref = list[i2].ref => i1 = i2
        /\ \A i \in 1..Len(list) : list[i].blit \in Lits(k, list[i].ref) \ {lit}
    BY VisitFirst DEF Static
  <2> QED
    BY <2>1
<1>2. ref \in RestOf(list, j - 1) /\ RestOf(list, j) = RestOf(list, j - 1) \ {ref}
  BY <1>1, RestNext
<1>3. /\ kit \in Kittens /\ Orderly(kit) /\ Refs(k) \subseteq Refs(kit)
      /\ \A q \in Refs(k) : Lits(kit, q) = Lits(k, q)
      /\ Visiting(kit, lit, s.kept, RestOf(list, j - 1))
  BY DEF PropagateState, Continues, PropagateStates
<1>4. ref \in Refs(kit) /\ watch.blit \in Lits(kit, ref) \ {lit}
  BY <1>1, <1>3 DEF WatchedRefs, Refs
<1>5. Large(kit, ref) /\ lit \in {lits[1], lits[2]}
  <2>1. ref \in WatchedRefs(kit, Len(kit.klauses), lit)
    BY <1>2, <1>3 DEF Visiting
  <2> QED
    BY <2>1 DEF WatchedRefs
<1>6. /\ lits \in Seq(LITS) /\ Len(lits) \in Nat
      /\ \A i \in 1..Len(lits) : lits[i] \in LITS
      /\ Lits(kit, ref) = {lits[i] : i \in 1..Len(lits)}
  BY <1>3, <1>4, KlauseType
<1>7. 1 \in 1..Len(lits) /\ 2 \in 1..Len(lits)
  BY <1>5, <1>6 DEF Large
<1>8. lits[1] # lits[2]
  BY <1>3, <1>4, <1>7 DEF Orderly, Clausal, ClausesWell
<1>9. ref # INVALID
  BY <1>4 DEF Refs, INVALID
<1>10. other = IF lits[1] = lit THEN lits[2] ELSE lits[1]
  BY DEF OtherWatch
<1> HIDE DEF lits, other, kit
<1>11. other \in LITS /\ other \in Lits(kit, ref) /\ other # lit /\ lit \in Lits(kit, ref)
  BY <1>5, <1>6, <1>7, <1>8, <1>10
<1>12. \E i \in {1, 2} : other = lits[i]
  BY <1>10
<1>13. \A l \in Lits(kit, ref) : l = lit \/ l = other \/ \E i \in 3..Len(lits) : lits[i] = l
  <2> SUFFICES ASSUME NEW i \in 1..Len(lits)
               PROVE  lits[i] = lit \/ lits[i] = other \/ i \in 3..Len(lits)
    BY <1>6
  <2>1. i = 1 \/ i = 2 \/ i \in 3..Len(lits)
    BY <1>6
  <2> QED
    BY <1>5, <1>10, <2>1
<1>14. VisitedFacts(kit, lit, ref, watch, other)
  BY <1>1, <1>4, <1>5, <1>6, <1>9, <1>11, <1>12, <1>13 DEF VisitedFacts, lits
<1> QED
  BY <1>2, <1>14 DEF kit, other

(* The watch is kept: its literal is excused, or there is a conflict. *)
LEMMA PropagateKeep ==
  ASSUME NEW k \in Kittens, NEW lit \in LITS, NEW list, NEW j, NEW p, NEW g, NEW s,
         PropagateState(k, p, g, lit, list, j - 1, s),
         NEW w \in Watchers, NEW other, VisitedFacts(s.kit, lit, w.ref, w, other),
         w.ref \in RestOf(list, j - 1),
         RestOf(list, j) = RestOf(list, j - 1) \ {w.ref},
         NEW bad \in Nat, ConflictWell(s.kit, bad), bad # INVALID \/ bad = s.conflict,
         bad # INVALID \/ Excused(s.kit, w.ref, lit)
  PROVE  PropagateState(k, p, g, lit, list, j, [s EXCEPT !.kept = Append(@, w), !.conflict = bad])
<1> DEFINE kit == s.kit
           kept == Append(s.kept, w)
           n == k.propagated + 1
           c == [s EXCEPT !.kept = kept, !.conflict = bad]
<1>1. /\ s \in PropagateStates(lit) /\ kit \in Kittens /\ s.kept \in Seq(Watchers)
      /\ Continues(k, p, g, kit)
      /\ IsFalse(kit, lit) /\ kit.levelOf[IDX(lit)] = kit.level /\ kit.level \in Nat
      /\ Visiting(kit, lit, s.kept, RestOf(list, j - 1))
      /\ VisitExcuses(kit, n, s.conflict, lit, RestOf(list, j - 1))
  BY DEF PropagateState, PropagateStates, Kittens
<1>2. w.blit \in Lits(kit, w.ref) \ {lit}
  BY DEF VisitedFacts
<1>3. kept \in Seq(Watchers) /\ Visiting(kit, lit, kept, RestOf(list, j))
  BY <1>1, <1>2, VisitKeep, AppendProperties
<1> HIDE DEF kit, kept, n
<1>4. VisitExcuses(kit, n, bad, lit, RestOf(list, j))
  <2> SUFFICES ASSUME NEW ref \in Refs(kit), Large(kit, ref), NEW i \in {1, 2},
                      NEW l, l = Klause(kit, ref).lits[i], ~(l = lit /\ ref \in RestOf(list, j))
               PROVE  WatchExcused(kit, n, bad, ref, l)
    BY DEF VisitExcuses
  <2>1. CASE l = lit /\ ref = w.ref
    <3>1. ~(kit.levelOf[IDX(lit)] < kit.level)
      BY <1>1
    <3> QED
      BY <2>1, <3>1 DEF WatchExcused, kit
  <2>2. CASE ~(l = lit /\ ref = w.ref)
    <3>1. WatchExcused(kit, n, s.conflict, ref, l)
      BY <1>1, <2>2 DEF VisitExcuses
    <3> QED
      BY <3>1 DEF WatchExcused
  <2> QED
    BY <2>1, <2>2
<1>5. c \in PropagateStates(lit) /\ c.kit = kit /\ c.kept = kept /\ c.conflict = bad
  BY <1>1, <1>3 DEF PropagateStates, kit
<1> HIDE DEF c
<1>6. PropagateState(k, p, g, lit, list, j, c)
  BY <1>1, <1>3, <1>4, <1>5 DEF PropagateState, n, kit
<1> QED
  BY <1>6 DEF c, kept

(* A literal is assigned. *)
LEMMA PropagateAssign ==
  ASSUME NEW k \in Kittens, NEW lit \in LITS, NEW list, NEW j, NEW p, NEW g, NEW s,
         PropagateState(k, p, g, lit, list, j, s), s.conflict = INVALID,
         NEW other \in LITS, NEW ref \in Nat, NEW a, NowAssigned(s.kit, other, ref, a),
         s.kit.level > 0 => ReasonFor(s.kit, other, ref),
         Orderly(a)
  PROVE  PropagateState(k, p, g, lit, list, j, [s EXCEPT !.kit = a])
<1> DEFINE kit == s.kit
           n == k.propagated + 1
           c == [s EXCEPT !.kit = a]
<1>1. /\ s \in PropagateStates(lit) /\ kit \in Kittens /\ s.kept \in Seq(Watchers)
      /\ Orderly(kit) /\ Explained(kit)
      /\ kit.level = k.level /\ kit.propagated = k.propagated
      /\ k.propagated + 1 <= Len(kit.trail)
      /\ Refs(k) \subseteq Refs(kit)
      /\ \A q \in Refs(k) : Lits(kit, q) = Lits(k, q)
      /\ FromUser(kit, p, g)
      /\ IsFalse(kit, lit) /\ kit.levelOf[IDX(lit)] = kit.level
      /\ Visiting(kit, lit, s.kept, RestOf(list, j))
      /\ VisitExcuses(kit, n, INVALID, lit, RestOf(list, j))
  BY DEF PropagateState, PropagateStates, Continues
<1> HIDE DEF kit, n
<1>2. AssignedTo(kit, other, ref, a) /\ NowAssigned(kit, other, ref, a)
  BY DEF NowAssigned, kit
<1>3. /\ a \in Kittens /\ a.level = kit.level /\ a.propagated = kit.propagated
      /\ Refs(kit) \subseteq Refs(a)
      /\ \A q \in Refs(kit) : Klause(a, q) = Klause(kit, q) /\ Lits(a, q) = Lits(kit, q)
      /\ \A q \in Refs(a) \ Refs(kit) : Klause(a, q).lits = <<other>>
      /\ Originals(a) = Originals(kit)
  BY <1>2 DEF AssignedTo, WithUnits
<1>4. Explained(a)
  BY <1>1, <1>2, AssignedExplained DEF kit
<1>5. /\ \A l \in LITS : IsFalse(kit, l) =>
           IsFalse(a, l) /\ a.levelOf[IDX(l)] = kit.levelOf[IDX(l)]
      /\ Len(kit.trail) \in Nat /\ Len(a.trail) = Len(kit.trail) + 1
  BY <1>1, <1>2, AssignedKeeps
<1>6. n \in Nat /\ n <= Len(kit.trail) /\ n <= Len(a.trail)
  <2>1. k.propagated \in Nat
    BY DEF Kittens
  <2> QED
    BY <1>1, <1>5, <2>1 DEF n
<1>7. FromUser(a, p, g)
  <2>1. Originals(kit) \subseteq Refs(kit)
    BY <1>1, OriginalsAreRefs DEF Orderly, Clausal
  <2> QED
    BY <1>1, <1>3, <2>1 DEF FromUser
<1>8. Continues(k, p, g, a)
  BY <1>1, <1>3, <1>4, <1>6, <1>7 DEF Continues, n
<1>9. Visiting(a, lit, s.kept, RestOf(list, j))
  BY <1>1, <1>2, AssignedVisiting
<1>10. VisitExcuses(a, n, INVALID, lit, RestOf(list, j))
  <2> SUFFICES ASSUME NEW q \in Refs(a), Large(a, q), NEW i \in {1, 2},
                      NEW l, l = Klause(a, q).lits[i], ~(l = lit /\ q \in RestOf(list, j))
               PROVE  WatchExcused(a, n, INVALID, q, l)
    BY DEF VisitExcuses
  <2>1. q \in Refs(kit)
    BY <1>3, UnitNotLarge
  <2>2. Klause(a, q) = Klause(kit, q) /\ Large(kit, q)
    BY <1>3, <2>1 DEF Large
  <2>3. l \in LITS
    BY <1>1, <2>1, <2>2, WatchFields
  <2>4. WatchExcused(kit, n, INVALID, q, l)
    BY <1>1, <2>1, <2>2 DEF VisitExcuses
  <2> QED
    BY <1>1, <1>2, <1>6, <2>1, <2>3, <2>4, AssignedExcuses
<1>11. c \in PropagateStates(lit) /\ c.kit = a /\ c.kept = s.kept /\ c.conflict = INVALID
  BY <1>1, <1>3 DEF PropagateStates
<1> HIDE DEF c
<1>12. PropagateState(k, p, g, lit, list, j, c)
  BY <1>1, <1>3, <1>5, <1>8, <1>9, <1>10, <1>11 DEF PropagateState, n, ConflictWell
<1> QED
  BY <1>12 DEF c

(* Another literal is watched. *)
LEMMA PropagateReplace ==
  ASSUME NEW k \in Kittens, NEW lit \in LITS, NEW list, NEW j, NEW p, NEW g, NEW s,
         PropagateState(k, p, g, lit, list, j - 1, s), s.conflict = INVALID,
         NEW ref, NEW w, VisitedFacts(s.kit, lit, ref, w, OtherWatch(s.kit, lit, ref)),
         ref \in RestOf(list, j - 1),
         RestOf(list, j) = RestOf(list, j - 1) \ {ref},
         NEW r \in 3..Len(Klause(s.kit, ref).lits), ~IsFalse(s.kit, Klause(s.kit, ref).lits[r])
  PROVE  PropagateState(k, p, g, lit, list, j, [s EXCEPT !.kit = Replace(s.kit, lit, ref, r)])
<1> DEFINE kit == s.kit
           n == k.propagated + 1
           a == Replace(kit, lit, ref, r)
           other == OtherWatch(kit, lit, ref)
           c == [s EXCEPT !.kit = a]
<1>1. /\ s \in PropagateStates(lit) /\ kit \in Kittens /\ s.kept \in Seq(Watchers)
      /\ Orderly(kit) /\ Explained(kit)
      /\ kit.level = k.level /\ kit.propagated = k.propagated
      /\ k.propagated + 1 <= Len(kit.trail)
      /\ Refs(k) \subseteq Refs(kit)
      /\ \A q \in Refs(k) : Lits(kit, q) = Lits(k, q)
      /\ FromUser(kit, p, g)
      /\ IsFalse(kit, lit) /\ kit.levelOf[IDX(lit)] = kit.level
      /\ Visiting(kit, lit, s.kept, RestOf(list, j - 1))
      /\ VisitExcuses(kit, n, INVALID, lit, RestOf(list, j - 1))
  BY DEF PropagateState, PropagateStates, Continues
<1>2. /\ ref \in Refs(kit) /\ Large(kit, ref) /\ other # lit
      /\ \E i \in {1, 2} : other = Klause(kit, ref).lits[i]
  BY DEF VisitedFacts
<1> HIDE DEF kit, n
<1>3. /\ Rewatched(kit, a) /\ Visiting(a, lit, s.kept, RestOf(list, j))
      /\ \A q \in Refs(kit) \ {ref} : Klause(a, q) = Klause(kit, q)
      /\ Klause(a, ref).lits[1] = other
      /\ Klause(a, ref).lits[2] = Klause(kit, ref).lits[r]
  <2> DEFINE rest == RestOf(list, j - 1)
  <2>1. /\ ref \in rest /\ RestOf(list, j) = rest \ {ref} /\ Visiting(kit, lit, s.kept, rest)
        /\ r \in 3..Len(Klause(kit, ref).lits)
    BY <1>1 DEF kit
  <2> HIDE DEF rest
  <2>2. /\ Rewatched(kit, a) /\ Visiting(a, lit, s.kept, rest \ {ref})
        /\ \A q \in Refs(kit) \ {ref} : Klause(a, q) = Klause(kit, q)
        /\ Klause(a, ref).lits[1] = other
        /\ Klause(a, ref).lits[2] = Klause(kit, ref).lits[r]
    BY <1>1, <2>1, ReplaceEffect
  <2> QED
    BY <2>1, <2>2
<1> HIDE DEF a, other
<1>4. Derived(kit)
  BY <1>1 DEF Orderly, Clausal
<1>5. Orderly(a) /\ Explained(a) /\ FromUser(a, p, g)
  BY <1>1, <1>3, <1>4, RewatchedOrderly, RewatchedExplained, RewatchedFromUser
<1>6. /\ a \in Kittens /\ Refs(a) = Refs(kit)
      /\ \A q \in Refs(kit) : Lits(a, q) = Lits(kit, q)
      /\ a.level = kit.level /\ a.propagated = kit.propagated /\ a.trail = kit.trail
      /\ a.values = kit.values /\ a.levelOf = kit.levelOf
  <2>1. a \in Kittens /\ Refs(a) = Refs(kit) /\ \A q \in Refs(kit) : Lits(a, q) = Lits(kit, q)
    BY <1>1, <1>3, <1>4, RewatchedFrame DEF Rewatched
  <2> QED
    BY <1>3, <2>1 DEF Rewatched, OnlyRewatched
<1>7. Continues(k, p, g, a)
  BY <1>1, <1>5, <1>6 DEF Continues
<1>8. VisitExcuses(a, n, INVALID, lit, RestOf(list, j))
  <2> SUFFICES ASSUME NEW q \in Refs(a), Large(a, q), NEW i \in {1, 2},
                      NEW l, l = Klause(a, q).lits[i], ~(l = lit /\ q \in RestOf(list, j))
               PROVE  WatchExcused(a, n, INVALID, q, l)
    BY DEF VisitExcuses
  <2>1. CASE q # ref
    <3>1. q \in Refs(kit) /\ Klause(a, q) = Klause(kit, q) /\ Large(kit, q)
      BY <1>3, <1>6, <2>1 DEF Large
    <3>2. ~(l = lit /\ q \in RestOf(list, j - 1))
      BY <2>1
    <3>3. WatchExcused(kit, n, INVALID, q, l)
      BY <1>1, <3>1, <3>2 DEF VisitExcuses
    <3> QED
      BY <1>1, <1>3, <1>4, <3>1, <3>3, RewatchedExcuses
  <2>2. CASE q = ref /\ i = 1
    <3>1. WatchExcused(kit, n, INVALID, ref, other)
      BY <1>1, <1>2 DEF VisitExcuses
    <3> QED
      BY <1>1, <1>2, <1>3, <1>4, <2>2, <3>1, RewatchedExcuses
  <2>3. CASE q = ref /\ i = 2
    <3>1. ~IsFalse(a, l)
      BY <1>3, <1>6, <2>3 DEF IsFalse, kit
    <3> QED
      BY <3>1 DEF WatchExcused
  <2> QED
    BY <2>1, <2>2, <2>3
<1>9. c \in PropagateStates(lit) /\ c.kit = a /\ c.kept = s.kept /\ c.conflict = INVALID
  BY <1>1, <1>6 DEF PropagateStates
<1> HIDE DEF c
<1>10. IsFalse(a, lit) /\ a.levelOf[IDX(lit)] = a.level
  BY <1>1, <1>6 DEF IsFalse
<1>11. PropagateState(k, p, g, lit, list, j, c)
  BY <1>3, <1>6, <1>7, <1>8, <1>9, <1>10 DEF PropagateState, n, ConflictWell
<1> QED
  BY <1>11 DEF c, a, kit

-----------------------------------------------------------------------------
(* What propagation does with a watch. *)

LEMMA VisitedAssumption ==
  ASSUME NEW k \in Kittens, Orderly(k), Explained(k), NEW lit \in LITS, NEW ref, NEW w, NEW other,
         VisitedFacts(k, lit, ref, w, other), IsFalse(k, lit), ~IsFalse(k, other),
         \A i \in 3..Len(Klause(k, ref).lits) : IsFalse(k, Klause(k, ref).lits[i])
  PROVE  AssignAssumption(k, other, ref) /\ ReasonFor(k, other, ref)
<1>1. /\ ref \in Refs(k) /\ ref # INVALID /\ other \in LITS /\ other \in Lits(k, ref)
      /\ \A l \in Lits(k, ref) :
           l = lit \/ l = other \/ \E i \in 3..Len(Klause(k, ref).lits) : Klause(k, ref).lits[i] = l
  BY DEF VisitedFacts
<1>2. Lits(k, ref) \subseteq LITS
  BY <1>1, KlauseType
<1>3. \A l \in Lits(k, ref) \ {other} : IsFalse(k, l) /\ l \in LITS
  BY <1>1, <1>2
<1>4. IDX(other) \in Knows(k)
  <2>1. Lits(k, ref) = {Klause(k, ref).lits[i] : i \in 1..Len(Klause(k, ref).lits)}
    BY <1>1, KlauseType
  <2>2. PICK i \in 1..Len(Klause(k, ref).lits) : Klause(k, ref).lits[i] = other
    BY <1>1, <2>1
  <2>3. IDX(Klause(k, ref).lits[i]) \in Knows(k)
    BY <1>1 DEF Orderly, Clausal, ClausesWell
  <2> QED
    BY <2>2, <2>3
<1>5. ASSUME NEW l \in Lits(k, ref) \ {other}
      PROVE  Before(k, Len(k.trail) + 1, l)
  <2>1. IsFalse(k, l) /\ l \in LITS
    BY <1>3
  <2>2. k.levelOf[IDX(l)] \in Nat
        /\ (k.levelOf[IDX(l)] > 0 => \E i \in 1..Len(k.trail) : k.trail[i] = NOT(l))
    BY <2>1, FalseBound
  <2>3. k.levelOf[IDX(l)] = 0 \/ k.levelOf[IDX(l)] > 0
    BY <2>2
  <2>4. Len(k.trail) \in Nat
    BY DEF Kittens
  <2>5. \A i \in 1..Len(k.trail) : i \in 1 .. (Len(k.trail) + 1) - 1
    BY <2>4
  <2> QED
    BY <2>1, <2>2, <2>3, <2>5 DEF Before
<1>6. ASSUME k.level = 0, NEW l \in Lits(k, ref) \ {other}
      PROVE  k.reason[IDX(l)] \in Refs(k) /\ Klause(k, k.reason[IDX(l)]).lits = <<NOT(l)>>
  <2>1. IsFalse(k, l) /\ l \in LITS
    BY <1>3
  <2>2. k.levelOf[IDX(l)] \in Nat /\ k.levelOf[IDX(l)] <= k.level
    BY <2>1, FalseBound
  <2>3. k.levelOf[IDX(l)] = 0
    BY <1>6, <2>2
  <2> QED
    BY <2>1, <2>3, FalseBound
<1>7. AssignAssumption(k, other, ref)
  BY <1>1, <1>4, <1>6 DEF AssignAssumption
<1>8. ReasonFor(k, other, ref)
  BY <1>1, <1>5 DEF ReasonFor
<1> QED
  BY <1>7, <1>8

LEMMA PropagateImplied ==
  ASSUME NEW k \in Kittens, NEW lit \in LITS, NEW list, NEW j, NEW p, NEW g, NEW s,
         PropagateState(k, p, g, lit, list, j - 1, s), s.conflict = INVALID,
         NEW w \in Watchers, NEW other, VisitedFacts(s.kit, lit, w.ref, w, other),
         w.ref \in RestOf(list, j - 1),
         RestOf(list, j) = RestOf(list, j - 1) \ {w.ref},
         ~IsFalse(s.kit, other), ~IsTrue(s.kit, other),
         \A i \in 3..Len(Klause(s.kit, w.ref).lits) : IsFalse(s.kit, Klause(s.kit, w.ref).lits[i])
  PROVE  PropagateState(k, p, g, lit, list, j,
           [s EXCEPT !.kept = Append(@, w), !.kit = Assign(s.kit, other, w.ref)])
<1> DEFINE kit == s.kit
           ref == w.ref
           a == Assign(kit, other, ref)
           s1 == [s EXCEPT !.kit = a]
           s2 == [s1 EXCEPT !.kept = Append(@, w), !.conflict = INVALID]
<1>1. /\ s \in PropagateStates(lit) /\ kit \in Kittens /\ Orderly(kit) /\ Explained(kit)
      /\ IsFalse(kit, lit) /\ kit.levelOf[IDX(lit)] = kit.level
  BY DEF PropagateState, PropagateStates, Continues
<1>2. ref \in Nat /\ other \in LITS /\ ref \in Refs(kit) /\ VisitedFacts(kit, lit, ref, w, other)
      /\ other \in Lits(kit, ref)
  BY DEF VisitedFacts, Watchers
<1> HIDE DEF kit, ref
<1>3. AssignAssumption(kit, other, ref) /\ ReasonFor(kit, other, ref)
  BY <1>1, <1>2, VisitedAssumption DEF kit, ref
<1>4. AssignedTo(kit, other, ref, a) /\ Orderly(a)
  BY <1>1, <1>2, <1>3, AssignEffect, AssignOrderly
<1> HIDE DEF a
<1>5. NowAssigned(kit, other, ref, a)
  BY <1>4 DEF NowAssigned, IsTrue, IsFalse, kit
<1>6. PropagateState(k, p, g, lit, list, j - 1, s1)
  <2> DEFINE i == j - 1
  <2>1. PropagateState(k, p, g, lit, list, i, s)
    OBVIOUS
  <2> HIDE DEF i
  <2>2. PropagateState(k, p, g, lit, list, i, s1)
    BY <1>1, <1>2, <1>3, <1>4, <1>5, <2>1, PropagateAssign DEF kit
  <2> QED
    BY <2>2 DEF i
<1>7. /\ Refs(kit) \subseteq Refs(a) /\ Klause(a, ref) = Klause(kit, ref) /\ Lits(a, ref) = Lits(kit, ref)
  BY <1>2, <1>4 DEF AssignedTo, WithUnits
<1>8. VisitedFacts(a, lit, ref, w, other)
  BY <1>2, <1>7 DEF VisitedFacts, Large
<1>9. Excused(a, ref, lit)
  <2>1. /\ a.levelOf[IDX(other)] = kit.level
        /\ a.levelOf[IDX(lit)] = kit.levelOf[IDX(lit)]
    BY <1>1, <1>2, <1>5, AssignedKeeps
  <2>2. other \in a.values /\ kit.level \in Nat
    BY <1>1, <1>4 DEF AssignedTo, Kittens
  <2> QED
    BY <1>1, <1>2, <1>7, <2>1, <2>2 DEF Excused, IsTrue
<1>10. /\ s1 \in PropagateStates(lit) /\ s1.kit = a /\ s1.conflict = INVALID
       /\ s2 = [s EXCEPT !.kept = Append(@, w), !.kit = a]
  <2>1. a \in Kittens
    BY <1>4 DEF AssignedTo
  <2> QED
    BY <1>1, <2>1 DEF PropagateStates
<1> HIDE DEF s1
<1>11. PropagateState(k, p, g, lit, list, j, s2)
  <2>1. INVALID \in Nat /\ ConflictWell(s1.kit, INVALID)
    BY DEF INVALID, ConflictWell
  <2> QED
    BY <1>6, <1>8, <1>9, <1>10, <2>1, PropagateKeep DEF ref
<1> QED
  BY <1>10, <1>11 DEF a, kit, ref

LEMMA PropagateWatchEffect ==
  ASSUME NEW k \in Kittens, Static(k), NEW lit \in LITS, NEW list, list = k.watches[lit],
         NEW j \in 1..Len(list), NEW p, NEW g, NEW s, PropagateState(k, p, g, lit, list, j - 1, s)
  PROVE  PropagateState(k, p, g, lit, list, j, PropagateWatch(s, list[j]))
<1> DEFINE watch == list[j]
           kit == s.kit
           ref == watch.ref
           other == OtherWatch(kit, lit, ref)
           keep == [s EXCEPT !.kept = Append(@, watch)]
           r == FirstAfterWatches(kit, ref, LAMBDA l : ~IsFalse(kit, l))
<1>1. /\ s \in PropagateStates(lit) /\ kit \in Kittens /\ Orderly(kit) /\ Explained(kit)
      /\ IsFalse(kit, lit) /\ kit.levelOf[IDX(lit)] = kit.level /\ s.lit = lit
      /\ ConflictWell(kit, s.conflict) /\ s.conflict \in Nat /\ s.kept \in Seq(Watchers)
  BY DEF PropagateState, PropagateStates, Continues
<1>2. /\ VisitedFacts(kit, lit, ref, watch, other)
      /\ ref \in RestOf(list, j - 1)
      /\ RestOf(list, j) = RestOf(list, j - 1) \ {ref}
  <2>1. VisitedFacts(kit, lit, ref, watch, other)
    BY VisitedWatch
  <2>2. ref \in RestOf(list, j - 1)
    BY VisitedWatch
  <2>3. RestOf(list, j) = RestOf(list, j - 1) \ {ref}
    <3>1. /\ list \in Seq(Watchers)
          /\ \A i1, i2 \in 1..Len(list) : list[i1].ref = list[i2].ref => i1 = i2
      BY VisitFirst DEF Static
    <3> QED
      BY <3>1, RestNext
  <2> QED
    BY <2>1, <2>2, <2>3
<1>3. /\ watch \in Watchers /\ watch.blit \in Lits(kit, ref) \ {lit}
      /\ ref \in Refs(kit) /\ ref # INVALID /\ ref \in Nat /\ lit \in Lits(kit, ref)
      /\ Len(Klause(kit, ref).lits) \in Nat
      /\ other \in LITS /\ other \in Lits(kit, ref) \ {lit}
      /\ \A l \in Lits(kit, ref) :
           l = lit \/ l = other \/ \E i \in 3..Len(Klause(kit, ref).lits) : Klause(kit, ref).lits[i] = l
  BY <1>2 DEF VisitedFacts, Watchers
<1>4. ~(IsTrue(kit, other) /\ IsFalse(kit, other))
  BY <1>1 DEF Orderly, ValuesWell, IsTrue, IsFalse
<1>5. ASSUME NEW l \in Lits(kit, ref), IsTrue(kit, l) PROVE Excused(kit, ref, lit)
  <2>1. kit.levelOf[IDX(l)] <= kit.level
    BY <1>1, <1>5, LevelBound DEF IsTrue
  <2> QED
    BY <1>1, <1>5, <2>1 DEF Excused
<1> HIDE DEF kit, watch, other, r
<1>6. /\ r # 0 => r \in 3..Len(Klause(kit, ref).lits) /\ ~IsFalse(kit, Klause(kit, ref).lits[r])
      /\ r = 0 => \A i \in 3..Len(Klause(kit, ref).lits) : IsFalse(kit, Klause(kit, ref).lits[i])
  <2>1. r = FirstAfterWatches(kit, ref, LAMBDA l : ~IsFalse(kit, l))
    BY DEF r
  <2>2. Len(Klause(kit, ref).lits) \in Nat
    BY <1>3
  <2> HIDE DEF ref
  <2> QED
    BY <2>1, <2>2, FirstFree
<1>7. CASE s.conflict # INVALID \/ IsTrue(kit, watch.blit)
  <2>1. PropagateWatch(s, watch) = keep
    BY <1>7 DEF PropagateWatch, kit
  <2>2. s.conflict # INVALID \/ Excused(kit, ref, lit)
    BY <1>3, <1>5, <1>7
  <2>3. PropagateState(k, p, g, lit, list, j, [s EXCEPT !.kept = Append(@, watch), !.conflict = s.conflict])
    BY <1>1, <1>2, <1>3, <2>2, PropagateKeep DEF kit
  <2>4. keep = [s EXCEPT !.kept = Append(@, watch), !.conflict = s.conflict]
    BY <1>1 DEF PropagateStates
  <2> QED
    BY <2>1, <2>3, <2>4 DEF watch
<1>8. CASE s.conflict = INVALID /\ ~IsTrue(kit, watch.blit) /\ IsTrue(kit, other)
  <2> DEFINE w == [watch EXCEPT !.blit = other]
  <2>1. PropagateWatch(s, watch) = [keep EXCEPT !.kept[Len(keep.kept)].blit = other]
    BY <1>1, <1>4, <1>8 DEF PropagateWatch, kit, other
  <2>2. w \in Watchers /\ w.ref = ref /\ w.blit = other
    BY <1>3 DEF Watchers
  <2> HIDE DEF w
  <2>3. VisitedFacts(kit, lit, w.ref, w, other)
    BY <1>2, <1>3, <2>2 DEF VisitedFacts
  <2>4. Excused(kit, w.ref, lit)
    BY <1>3, <1>5, <1>8, <2>2
  <2>5. INVALID \in Nat /\ ConflictWell(kit, INVALID)
    BY DEF INVALID, ConflictWell
  <2>6. PropagateState(k, p, g, lit, list, j, [s EXCEPT !.kept = Append(@, w), !.conflict = INVALID])
    BY <1>1, <1>2, <1>8, <2>2, <2>3, <2>4, <2>5, PropagateKeep DEF kit
  <2>7. [keep EXCEPT !.kept[Len(keep.kept)].blit = other]
          = [s EXCEPT !.kept = Append(@, w), !.conflict = INVALID]
    <3> DEFINE kept == Append(s.kept, watch)
    <3>1. /\ kept \in Seq(Watchers) /\ Len(s.kept) \in Nat /\ Len(kept) = Len(s.kept) + 1
          /\ kept[Len(kept)] = watch
      BY <1>1, <1>3, AppendProperties
    <3>2. keep.kept = kept
      BY <1>1 DEF PropagateStates
    <3>3. [kept EXCEPT ![Len(kept)].blit = other] = Append(s.kept, w)
      <4> DEFINE x == [kept EXCEPT ![Len(kept)].blit = other]
      <4>1. \A i \in 1..Len(kept) : x[i] = IF i = Len(kept) THEN w ELSE kept[i]
        <5>1. DOMAIN kept = 1..Len(kept) /\ Len(kept) \in 1..Len(kept)
          BY <3>1
        <5>2. [kept[Len(kept)] EXCEPT !.blit = other] = w
          BY <3>1 DEF w
        <5> HIDE DEF kept
        <5> QED
          BY <5>1, <5>2
      <4>2. x \in Seq(Watchers) /\ Len(x) = Len(kept)
        BY <2>2, <3>1 DEF w
      <4>3. Append(s.kept, w) \in Seq(Watchers) /\ Len(Append(s.kept, w)) = Len(kept)
        BY <1>1, <2>2, <3>1, AppendProperties
      <4>4. \A i \in 1..Len(kept) : Append(s.kept, w)[i] = IF i = Len(kept) THEN w ELSE kept[i]
        BY <1>1, <1>3, <2>2, <3>1, AppendProperties
      <4> DEFINE y == Append(s.kept, w)
      <4>5. Len(x) = Len(y) /\ \A i \in 1..Len(x) : x[i] = y[i]
        BY <4>1, <4>2, <4>3, <4>4
      <4>6. x \in Seq(Watchers) /\ y \in Seq(Watchers)
        BY <4>2, <4>3
      <4> HIDE DEF x, y
      <4>7. x = y
        BY <4>5, <4>6, SeqEqual
      <4> QED
        BY <4>7 DEF x, y
    <3>4. [keep EXCEPT !.kept[Len(keep.kept)].blit = other]
            = [s EXCEPT !.kept = [kept EXCEPT ![Len(kept)].blit = other]]
      BY <1>1, <3>2 DEF PropagateStates
    <3> HIDE DEF kept
    <3> QED
      BY <1>1, <1>8, <3>3, <3>4 DEF PropagateStates
  <2> QED
    BY <2>1, <2>6, <2>7 DEF watch
<1>9. CASE s.conflict = INVALID /\ ~IsTrue(kit, watch.blit) /\ ~IsTrue(kit, other) /\ r # 0
  <2>1. PropagateWatch(s, watch) = [s EXCEPT !.kit = Replace(kit, lit, ref, r)]
    BY <1>1, <1>4, <1>9 DEF PropagateWatch, kit, other, r
  <2>2. r \in 3..Len(Klause(kit, ref).lits) /\ ~IsFalse(kit, Klause(kit, ref).lits[r])
    BY <1>6, <1>9
  <2>3. VisitedFacts(kit, lit, ref, watch, OtherWatch(kit, lit, ref))
    BY <1>2 DEF other
  <2> HIDE DEF ref
  <2>4. PropagateState(k, p, g, lit, list, j, [s EXCEPT !.kit = Replace(kit, lit, ref, r)])
    BY <1>2, <1>9, <2>2, <2>3, PropagateReplace DEF kit
  <2> QED
    BY <2>1, <2>4 DEF watch, ref
<1>10. CASE s.conflict = INVALID /\ ~IsTrue(kit, watch.blit) /\ ~IsTrue(kit, other) /\ r = 0
            /\ IsFalse(kit, other)
  <2>1. PropagateWatch(s, watch) = [keep EXCEPT !.conflict = ref]
    BY <1>1, <1>4, <1>10 DEF PropagateWatch, kit, other, r
  <2>2. Falsified(kit, Lits(kit, ref))
    BY <1>1, <1>3, <1>6, <1>10 DEF Falsified
  <2>3. ConflictWell(kit, ref)
    BY <1>1, <1>3, <2>2 DEF ConflictWell
  <2>4. PropagateState(k, p, g, lit, list, j, [s EXCEPT !.kept = Append(@, watch), !.conflict = ref])
    BY <1>1, <1>2, <1>3, <2>3, PropagateKeep DEF kit
  <2>5. [keep EXCEPT !.conflict = ref] = [s EXCEPT !.kept = Append(@, watch), !.conflict = ref]
    BY <1>1 DEF PropagateStates
  <2> QED
    BY <2>1, <2>4, <2>5 DEF watch
<1>11. CASE s.conflict = INVALID /\ ~IsTrue(kit, watch.blit) /\ ~IsTrue(kit, other) /\ r = 0
            /\ ~IsFalse(kit, other)
  <2>1. PropagateWatch(s, watch) = [keep EXCEPT !.kit = Assign(kit, other, ref)]
    BY <1>1, <1>4, <1>11 DEF PropagateWatch, kit, other, r
  <2>2. \A i \in 3..Len(Klause(kit, ref).lits) : IsFalse(kit, Klause(kit, ref).lits[i])
    BY <1>6, <1>11
  <2>3. PropagateState(k, p, g, lit, list, j,
          [s EXCEPT !.kept = Append(@, watch), !.kit = Assign(kit, other, ref)])
    BY <1>1, <1>2, <1>3, <1>11, <2>2, PropagateImplied DEF kit
  <2>4. [keep EXCEPT !.kit = Assign(kit, other, ref)]
          = [s EXCEPT !.kept = Append(@, watch), !.kit = Assign(kit, other, ref)]
    BY <1>1 DEF PropagateStates
  <2> QED
    BY <2>1, <2>3, <2>4 DEF watch
<1> QED
  BY <1>7, <1>8, <1>9, <1>10, <1>11

-----------------------------------------------------------------------------
(* Propagating a literal: all its watches. *)

LEMMA PropagateFirst ==
  ASSUME NEW k \in Kittens, Static(k), Searching(k, INVALID), k.propagated < Len(k.trail),
         NEW p, NEW g, FromUser(k, p, g),
         NEW lit, lit = NOT(k.trail[k.propagated + 1])
  PROVE  /\ lit \in LITS
         /\ PropagateState(k, p, g, lit, k.watches[lit], 0,
              [kit |-> k, lit |-> lit, kept |-> <<>>, conflict |-> INVALID])
<1> DEFINE n == k.propagated + 1
           x == k.trail[n]
           list == k.watches[lit]
           s == [kit |-> k, lit |-> lit, kept |-> <<>>, conflict |-> INVALID]
<1>1. /\ k.propagated \in Nat /\ Len(k.trail) \in Nat /\ k.trail \in Seq(LITS)
  BY DEF Kittens
<1>2. n \in 1..Len(k.trail) /\ n <= Len(k.trail)
  BY <1>1
<1>3. x \in LITS /\ x \in k.values /\ k.levelOf[IDX(x)] = k.level
  <2>1. n \in k.propagated + 1 .. Len(k.trail)
    BY <1>1
  <2> QED
    BY <1>1, <1>2, <2>1 DEF Searching, Explained, TrailWell
<1>4. lit \in LITS /\ NOT(lit) = x /\ IDX(lit) = IDX(x)
  BY <1>3, LitFacts
<1>5. IsFalse(k, lit) /\ k.levelOf[IDX(lit)] = k.level
  BY <1>3, <1>4 DEF IsFalse
<1>6. Continues(k, p, g, k)
  BY <1>2 DEF Continues, Static, Searching
<1>7. Visiting(k, lit, <<>>, RestOf(list, 0)) /\ list \in Seq(Watchers)
  BY <1>4, VisitFirst DEF Static
<1>8. RestOf(list, 0) = WatchedRefs(k, Len(k.klauses), lit)
  <2>1. RestOf(list, 0) = {list[i].ref : i \in 1..Len(list)}
    BY <1>7, RestEnds
  <2> QED
    BY <1>4, <2>1 DEF Static, Watched, WatchListOf
<1>9. VisitExcuses(k, n, INVALID, lit, RestOf(list, 0))
  <2> SUFFICES ASSUME NEW ref \in Refs(k), Large(k, ref), NEW i \in {1, 2},
                      NEW l, l = Klause(k, ref).lits[i], ~(l = lit /\ ref \in RestOf(list, 0))
               PROVE  WatchExcused(k, n, INVALID, ref, l)
    BY DEF VisitExcuses
  <2>1. ref \in WatchedRefs(k, Len(k.klauses), l)
    BY DEF WatchedRefs, Refs
  <2>2. l # lit /\ l \in LITS
    BY <1>8, <2>1, WatchFields
  <2>3. NOT(l) # x
    BY <1>4, <2>2, LitFacts
  <2>4. WatchExcused(k, k.propagated, INVALID, ref, l)
    BY DEF Searching, WatchesExcused
  <2>5. Pending(k, k.propagated, NOT(l)) => Pending(k, n, NOT(l))
    <3> SUFFICES ASSUME NEW j \in k.propagated + 1 .. Len(k.trail), k.trail[j] = NOT(l)
                 PROVE  \E q \in n + 1 .. Len(k.trail) : k.trail[q] = NOT(l)
      BY DEF Pending
    <3>1. j # n
      BY <2>3
    <3>2. j \in n + 1 .. Len(k.trail)
      BY <1>1, <3>1
    <3> QED
      BY <3>2
  <2> QED
    BY <2>4, <2>5 DEF WatchExcused
<1>10. s \in PropagateStates(lit) /\ s.kit = k /\ s.kept = <<>> /\ s.conflict = INVALID
  BY DEF PropagateStates, INVALID
<1> HIDE DEF s, list
<1>11. PropagateState(k, p, g, lit, list, 0, s)
  BY <1>5, <1>6, <1>7, <1>9, <1>10 DEF PropagateState, ConflictWell
<1> QED
  BY <1>4, <1>11 DEF s, list

LEMMA PropagateFold ==
  ASSUME NEW k \in Kittens, Static(k), NEW lit \in LITS, NEW p, NEW g,
         NEW base, PropagateState(k, p, g, lit, k.watches[lit], 0, base)
  PROVE  PropagateState(k, p, g, lit, k.watches[lit], Len(k.watches[lit]),
                        FoldLeft(PropagateWatch, base, k.watches[lit]))
<1> DEFINE list == k.watches[lit]
           n == Len(list)
           States(j) == {s \in PropagateStates(lit) : PropagateState(k, p, g, lit, list, j, s)}
           Inv == [j \in 0..n |-> States(j)]
<1>1. list \in Seq(Watchers) /\ n \in Nat
  BY LenProperties DEF Kittens
<1>2. base \in Inv[0]
  <2>1. base \in States(0)
    BY DEF PropagateState
  <2> QED
    BY <1>1, <2>1
<1>3. ASSUME NEW j \in 1..n, NEW s \in Inv[j - 1]
      PROVE  PropagateWatch(s, list[j]) \in Inv[j]
  <2>1. j - 1 \in 0..n /\ j \in 0..n
    BY <1>1
  <2>2. PropagateState(k, p, g, lit, list, j - 1, s)
    BY <2>1
  <2>3. PropagateState(k, p, g, lit, list, j, PropagateWatch(s, list[j]))
    BY <2>2, PropagateWatchEffect
  <2>4. PropagateWatch(s, list[j]) \in States(j)
    BY <2>3 DEF PropagateState
  <2> QED
    BY <2>1, <2>4
<1> HIDE DEF Inv, n, list
<1>4. FoldLeft(PropagateWatch, base, list) \in Inv[n]
  BY <1>1, <1>2, <1>3, PropagatingInduction DEF n
<1>5. PropagateState(k, p, g, lit, list, n, FoldLeft(PropagateWatch, base, list))
  BY <1>1, <1>4 DEF Inv
<1> QED
  BY <1>5 DEF n, list

(* Nothing but the watches and how far propagation is differs. *)
OnlyVisited(k, c) ==
  /\ c.status = k.status /\ c.antecedents = k.antecedents /\ c.learned = k.learned
  /\ c.klauses = k.klauses /\ c.endOriginal = k.endOriginal /\ c.units = k.units
  /\ c.values = k.values /\ c.level = k.level /\ c.levelOf = k.levelOf /\ c.reason = k.reason
  /\ c.trail = k.trail /\ c.queue = k.queue /\ c.search = k.search
  /\ c.assumptions = k.assumptions /\ c.failed = k.failed /\ c.failing = k.failing
  /\ c.inconsistent = k.inconsistent

LEMMA OnlyVisitedFrame ==
  ASSUME NEW k, NEW c, OnlyVisited(k, c), Orderly(k), NEW p, NEW g, FromUser(k, p, g)
  PROVE  /\ Orderly(c) /\ FromUser(c, p, g)
         /\ Refs(c) = Refs(k)
         /\ \A ref : Klause(c, ref) = Klause(k, ref) /\ Lits(c, ref) = Lits(k, ref)
<1>1. /\ c.status = k.status /\ c.antecedents = k.antecedents /\ c.learned = k.learned
      /\ c.klauses = k.klauses /\ c.endOriginal = k.endOriginal /\ c.units = k.units
      /\ c.values = k.values /\ c.trail = k.trail /\ c.queue = k.queue /\ c.search = k.search
      /\ c.assumptions = k.assumptions /\ c.failed = k.failed /\ c.failing = k.failing
      /\ c.inconsistent = k.inconsistent
  BY DEF OnlyVisited
<1>2. /\ Refs(c) = Refs(k) /\ Originals(c) = Originals(k) /\ Knows(c) = Knows(k)
      /\ \A ref : Klause(c, ref) = Klause(k, ref) /\ Lits(c, ref) = Lits(k, ref)
  BY <1>1 DEF Refs, Originals, Knows, Klause, Lits
<1>3. Clausal(c)
  BY <1>1, ClausalFrame DEF Orderly
<1>4. QueueWell(c)
  BY <1>1, QueueFrame DEF Orderly
<1>5. ValuesWell(c) /\ KnownWell(c) /\ FailedWell(c)
  BY <1>1, <1>2 DEF Orderly, ValuesWell, KnownWell, FailedWell
<1>6. FromUser(c, p, g)
  BY <1>2 DEF FromUser
<1> QED
  BY <1>2, <1>3, <1>4, <1>5, <1>6 DEF Orderly

LEMMA OnlyVisitedExplained ==
  ASSUME NEW k, NEW c, OnlyVisited(k, c), Explained(k), TrailWell(c)
  PROVE  Explained(c)
<1>1. /\ c.status = k.status /\ c.klauses = k.klauses
      /\ c.values = k.values /\ c.level = k.level /\ c.levelOf = k.levelOf /\ c.reason = k.reason
      /\ c.trail = k.trail /\ c.assumptions = k.assumptions /\ c.inconsistent = k.inconsistent
  BY DEF OnlyVisited
<1>2. /\ Refs(c) = Refs(k)
      /\ \A ref : Klause(c, ref) = Klause(k, ref) /\ Lits(c, ref) = Lits(k, ref)
  BY <1>1 DEF Refs, Klause, Lits
<1>3. ValuesExplained(c)
  BY <1>1, <1>2 DEF Explained, ValuesExplained
<1>4. \A i, l : Before(c, i, l) <=> Before(k, i, l)
  BY <1>1 DEF Before, IsFalse
<1>5. \A i : ReasonWell(k, i) => ReasonWell(c, i)
  BY <1>1, <1>2, <1>4 DEF ReasonWell
<1>6. ReasonsWell(c)
  BY <1>1, <1>5 DEF Explained, ReasonsWell
<1>7. AssumptionsTrue(c)
  BY <1>1 DEF Explained, AssumptionsTrue, IsTrue
<1> QED
  BY <1>1, <1>3, <1>6, <1>7 DEF Explained

LEMMA VisitedFields ==
  ASSUME NEW k \in Kittens, NEW lit, NEW kept \in Seq(Watchers)
  PROVE  LET c == [k EXCEPT !.watches[lit] = kept, !.propagated = @ + 1]
         IN  /\ c \in Kittens /\ OnlyVisited(k, c)
             /\ c.watches = [k.watches EXCEPT ![lit] = kept] /\ c.propagated = k.propagated + 1
<1> DEFINE c == [k EXCEPT !.watches[lit] = kept, !.propagated = @ + 1]
           w == [k.watches EXCEPT ![lit] = kept]
           n == k.propagated + 1
<1>1. w \in [LITS -> Seq(Watchers)] /\ n \in Nat
  <2>1. k.watches \in [LITS -> Seq(Watchers)] /\ k.propagated \in Nat
    BY DEF Kittens
  <2>2. w \in [LITS -> Seq(Watchers)]
    BY <2>1
  <2>3. n \in Nat
    BY <2>1
  <2> QED
    BY <2>2, <2>3
<1>2. c = [k EXCEPT !.watches = w, !.propagated = n]
  BY DEF Kittens
<1> HIDE DEF w, n, c
<1>3. c \in Kittens /\ OnlyVisited(k, c) /\ c.watches = w /\ c.propagated = n
  BY <1>1, <1>2 DEF Kittens, OnlyVisited
<1> QED
  BY <1>3 DEF w, n, c

(* The literal counts as propagated when all its watches were visited. *)
LEMMA PropagateDone ==
  ASSUME NEW k \in Kittens, NEW lit \in LITS, NEW p, NEW g, NEW list \in Seq(Watchers), NEW s,
         PropagateState(k, p, g, lit, list, Len(list), s),
         NEW kit, kit = s.kit,
         NEW c \in Kittens, OnlyVisited(kit, c),
         c.watches = [kit.watches EXCEPT ![lit] = s.kept], c.propagated = kit.propagated + 1
  PROVE  /\ Static(c) /\ FromUser(c, p, g) /\ Searching(c, s.conflict)
<1>1. /\ kit \in Kittens /\ s.kept \in Seq(Watchers) /\ s.conflict \in Nat
      /\ Orderly(kit) /\ Explained(kit)
      /\ kit.propagated = k.propagated
      /\ k.propagated + 1 <= Len(kit.trail)
      /\ FromUser(kit, p, g)
      /\ Visiting(kit, lit, s.kept, RestOf(list, Len(list)))
      /\ VisitExcuses(kit, k.propagated + 1, s.conflict, lit, RestOf(list, Len(list)))
      /\ ConflictWell(kit, s.conflict)
  BY DEF PropagateState, PropagateStates, Continues
<1>2. RestOf(list, Len(list)) = {}
  BY RestEnds
<1>3. /\ Orderly(c) /\ FromUser(c, p, g)
      /\ Refs(c) = Refs(kit)
      /\ \A ref : Klause(c, ref) = Klause(kit, ref) /\ Lits(c, ref) = Lits(kit, ref)
  BY <1>1, OnlyVisitedFrame
<1>4. /\ c.klauses = kit.klauses /\ c.values = kit.values
      /\ c.level = kit.level /\ c.levelOf = kit.levelOf
      /\ c.trail = kit.trail /\ c.propagated = k.propagated + 1
  BY <1>1 DEF OnlyVisited
<1>5. Watched(c, Len(c.klauses))
  <2>1. Visiting(kit, lit, s.kept, {})
    BY <1>1, <1>2
  <2> QED
    BY <1>1, <1>4, <2>1, VisitDone
<1>6. TrailWell(c)
  <2>1. k.propagated \in Nat /\ Len(kit.trail) \in Nat
    <3>1. \A x \in Kittens : x.propagated \in Nat /\ Len(x.trail) \in Nat
      BY DEF Kittens
    <3> QED
      BY <1>1, <3>1
  <2>2. \A i \in (k.propagated + 1) + 1 .. Len(kit.trail) : i \in k.propagated + 1 .. Len(kit.trail)
    BY <2>1
  <2>3. TrailWell(kit)
    BY <1>1 DEF Explained
  <2> QED
    BY <1>1, <1>4, <2>1, <2>2, <2>3 DEF TrailWell
<1>7. Explained(c)
  BY <1>1, <1>6, OnlyVisitedExplained
<1>8. WatchesExcused(c, s.conflict)
  <2> SUFFICES ASSUME NEW ref \in Refs(kit), Large(kit, ref), NEW i \in {1, 2}
               PROVE  WatchExcused(c, k.propagated + 1, s.conflict, ref, Klause(kit, ref).lits[i])
    BY <1>3, <1>4 DEF WatchesExcused, Large
  <2>1. WatchExcused(kit, k.propagated + 1, s.conflict, ref, Klause(kit, ref).lits[i])
    BY <1>1, <1>2 DEF VisitExcuses
  <2> QED
    BY <1>3, <1>4, <2>1 DEF WatchExcused, Excused, Pending, IsTrue, IsFalse
<1>9. ConflictWell(c, s.conflict)
  BY <1>1, <1>3, <1>4 DEF ConflictWell, Falsified, IsFalse
<1> QED
  BY <1>3, <1>5, <1>7, <1>8, <1>9 DEF Searching, Static

LEMMA PropagateEffect ==
  ASSUME NEW k \in Kittens, Static(k), Searching(k, INVALID), k.propagated < Len(k.trail),
         NEW p, NEW g, FromUser(k, p, g), NEW s, s = PropagateLiteral(k)
  PROVE  /\ s.kit \in Kittens /\ Static(s.kit) /\ FromUser(s.kit, p, g)
         /\ Searching(s.kit, s.conflict) /\ s.conflict \in Nat
<1> DEFINE lit == NOT(k.trail[k.propagated + 1])
           list == k.watches[lit]
           base == [kit |-> k, lit |-> lit, kept |-> <<>>, conflict |-> INVALID]
           f == FoldLeft(PropagateWatch, base, list)
           c == [f.kit EXCEPT !.watches[lit] = f.kept, !.propagated = @ + 1]
<1>1. lit \in LITS /\ PropagateState(k, p, g, lit, list, 0, base)
  BY PropagateFirst
<1>2. s = [kit |-> c, conflict |-> f.conflict]
  BY DEF PropagateLiteral
<1>3. list \in Seq(Watchers)
  BY <1>1 DEF Kittens
<1> HIDE DEF lit, base
<1>4. PropagateState(k, p, g, lit, list, Len(list), f)
  BY <1>1, PropagateFold
<1> HIDE DEF f, list
<1>5. f.kit \in Kittens /\ f.kept \in Seq(Watchers) /\ f.conflict \in Nat
  BY <1>4 DEF PropagateState, PropagateStates
<1>6. /\ c \in Kittens /\ OnlyVisited(f.kit, c)
      /\ c.watches = [f.kit.watches EXCEPT ![lit] = f.kept] /\ c.propagated = f.kit.propagated + 1
  <2> DEFINE kit == f.kit
             kept == f.kept
             d == [kit EXCEPT !.watches[lit] = kept, !.propagated = @ + 1]
  <2>1. kit \in Kittens /\ kept \in Seq(Watchers)
    BY <1>5
  <2> HIDE DEF kit, kept
  <2>2. /\ d \in Kittens /\ OnlyVisited(kit, d)
        /\ d.watches = [kit.watches EXCEPT ![lit] = kept] /\ d.propagated = kit.propagated + 1
    BY <2>1, VisitedFields
  <2> QED
    BY <2>2 DEF kit, kept
<1> HIDE DEF c
<1>7. /\ Static(c) /\ FromUser(c, p, g) /\ Searching(c, f.conflict)
  BY <1>1, <1>3, <1>4, <1>6, PropagateDone
<1> QED
  BY <1>2, <1>5, <1>6, <1>7
=============================================================================
