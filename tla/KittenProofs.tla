----------------------------- MODULE KittenProofs -----------------------------
(***************************************************************************)
(* The embedded solver is right about every problem whose clauses are not  *)
(* empty, whatever is asked of it: its answers, the derivations behind     *)
(* them and its propagation.  The invariant is that of KittenStateProofs;  *)
(* here are the decisions, the analysis of conflicts and of assumptions    *)
(* that fail, the answers, and the theorems.                               *)
(***************************************************************************)
EXTENDS KittenStateProofs

-----------------------------------------------------------------------------
(* Levels that are raised, and a trail that is flushed. *)

(* Nothing but the level and where decisions start to look differs. *)
Relevelled(k, c) ==
  /\ OnlySearched(k, c)
  /\ c.values = k.values /\ c.trail = k.trail /\ c.propagated = k.propagated

LEMMA RelevelledFrame ==
  ASSUME NEW k, NEW c, Relevelled(k, c), Static(k), QueueWell(c),
         NEW p, NEW g, FromUser(k, p, g)
  PROVE  /\ Static(c) /\ FromUser(c, p, g)
         /\ ValuesExplained(k) => ValuesExplained(c)
         /\ ReasonsWell(k) => ReasonsWell(c)
         /\ WatchesExcused(k, INVALID) => WatchesExcused(c, INVALID)
<1>1. /\ c.status = k.status /\ c.antecedents = k.antecedents /\ c.learned = k.learned
      /\ c.klauses = k.klauses /\ c.endOriginal = k.endOriginal /\ c.units = k.units
      /\ c.watches = k.watches /\ c.queue = k.queue /\ c.assumptions = k.assumptions
      /\ c.failed = k.failed /\ c.failing = k.failing /\ c.inconsistent = k.inconsistent
      /\ c.levelOf = k.levelOf /\ c.reason = k.reason
      /\ c.values = k.values /\ c.trail = k.trail /\ c.propagated = k.propagated
  BY DEF Relevelled, OnlySearched
<1>2. /\ Refs(c) = Refs(k) /\ Originals(c) = Originals(k) /\ Knows(c) = Knows(k)
      /\ \A ref : Klause(c, ref) = Klause(k, ref) /\ Lits(c, ref) = Lits(k, ref)
  BY <1>1 DEF Refs, Originals, Knows, Klause, Lits
<1>3. Clausal(c)
  BY <1>1, ClausalFrame DEF Static, Orderly
<1>4. Watched(c, Len(c.klauses))
  BY <1>1, WatchedFrame DEF Static
<1>5. ValuesWell(c) /\ KnownWell(c) /\ FailedWell(c)
  BY <1>1, <1>2 DEF Static, Orderly, ValuesWell, KnownWell, FailedWell
<1>6. FromUser(c, p, g)
  BY <1>2 DEF FromUser
<1>7. ASSUME ValuesExplained(k) PROVE ValuesExplained(c)
  BY <1>1, <1>2, <1>7 DEF ValuesExplained
<1>8. ASSUME ReasonsWell(k) PROVE ReasonsWell(c)
  <2>1. \A i, l : Before(c, i, l) <=> Before(k, i, l)
    BY <1>1 DEF Before, IsFalse
  <2>2. \A i : ReasonWell(k, i) => ReasonWell(c, i)
    BY <1>1, <1>2, <2>1 DEF ReasonWell
  <2> QED
    BY <1>1, <1>8, <2>2 DEF ReasonsWell
<1>9. ASSUME WatchesExcused(k, INVALID) PROVE WatchesExcused(c, INVALID)
  <2>1. \A ref, l : WatchExcused(k, k.propagated, INVALID, ref, l) => WatchExcused(c, c.propagated, INVALID, ref, l)
    BY <1>1, <1>2 DEF WatchExcused, Excused, Pending, IsTrue, IsFalse
  <2> QED
    BY <1>2, <1>9, <2>1 DEF WatchesExcused, Large
<1> QED
  BY <1>3, <1>4, <1>5, <1>6, <1>7, <1>8, <1>9 DEF Static, Orderly

(* Search has come to an end: everything was propagated. *)
Quiet(k, p, g) ==
  /\ k \in Kittens /\ Static(k) /\ FromUser(k, p, g)
  /\ Searching(k, INVALID)
  /\ k.propagated = Len(k.trail)

LEMMA FlushedEffect ==
  ASSUME NEW k, NEW p, NEW g, Quiet(k, p, g)
  PROVE  Quiet(Flushed(k), p, g)
<1> DEFINE c == [k EXCEPT !.trail = <<>>, !.propagated = 0]
<1> SUFFICES ASSUME k.level = 0
             PROVE  Quiet(c, p, g)
  BY DEF Flushed
<1>1. /\ k \in Kittens /\ Static(k) /\ FromUser(k, p, g) /\ Explained(k)
      /\ WatchesExcused(k, INVALID) /\ k.propagated = Len(k.trail)
  BY DEF Quiet, Searching
<1>2. c \in Kittens /\ OnlySearched(k, c) /\ c.values = k.values /\ c.level = k.level
      /\ c.trail = <<>> /\ c.propagated = 0 /\ c.search = k.search
  <2>1. c \in Kittens
    <3>1. \A t \in Seq(LITS) : \A n \in Nat : [k EXCEPT !.trail = t, !.propagated = n] \in Kittens
      BY <1>1 DEF Kittens
    <3>2. <<>> \in Seq(LITS) /\ 0 \in Nat
      OBVIOUS
    <3> DEFINE t == <<>>
               n == 0
    <3>3. t \in Seq(LITS) /\ n \in Nat
      BY <3>2
    <3> HIDE DEF t, n
    <3>4. [k EXCEPT !.trail = t, !.propagated = n] \in Kittens
      BY <3>1, <3>3
    <3> QED
      BY <3>4 DEF t, n
  <2>2. OnlySearched(k, c)
    BY <1>1 DEF Kittens, OnlySearched
  <2> QED
    BY <1>1, <2>1, <2>2 DEF Kittens
<1> HIDE DEF c
<1>3. /\ Refs(c) = Refs(k) /\ Originals(c) = Originals(k) /\ Knows(c) = Knows(k)
      /\ \A ref : Klause(c, ref) = Klause(k, ref) /\ Lits(c, ref) = Lits(k, ref)
  BY <1>2, OnlySearchedFrame
<1>4. /\ c.status = k.status /\ c.queue = k.queue /\ c.assumptions = k.assumptions
      /\ c.failed = k.failed /\ c.failing = k.failing /\ c.inconsistent = k.inconsistent
      /\ c.levelOf = k.levelOf /\ c.reason = k.reason
      /\ c.klauses = k.klauses /\ c.watches = k.watches
      /\ Len(c.trail) = 0 /\ ToSet(c.trail) = {}
  <2>1. Len(<<>>) = 0 /\ ToSet(<<>>) = {}
    BY DEF ToSet
  <2> QED
    BY <1>2, <2>1 DEF OnlySearched
<1>5. \A l \in k.values : /\ k.levelOf[IDX(l)] = 0
                          /\ k.reason[IDX(l)] \in Refs(k)
                          /\ Klause(k, k.reason[IDX(l)]).lits = <<l>>
  <2> SUFFICES ASSUME NEW l \in k.values
               PROVE  /\ k.levelOf[IDX(l)] = 0
                      /\ k.reason[IDX(l)] \in Refs(k)
                      /\ Klause(k, k.reason[IDX(l)]).lits = <<l>>
    OBVIOUS
  <2>1. k.levelOf[IDX(l)] \in Nat /\ k.levelOf[IDX(l)] <= k.level
    BY <1>1, LevelBound
  <2>2. k.levelOf[IDX(l)] = 0
    BY <2>1
  <2> QED
    BY <1>1, <2>2, LevelBound
<1>6. Clausal(c)
  BY <1>1, <1>2, ClausalFrame DEF OnlySearched, Static, Orderly
<1>7. Watched(c, Len(c.klauses))
  BY <1>1, <1>4, WatchedFrame DEF Static
<1>8. QueueWell(c)
  BY <1>1, <1>2, <1>4, QueueFrame DEF Static, Orderly
<1>9. ValuesWell(c)
  BY <1>1, <1>2, <1>3, <1>5 DEF Static, Orderly, ValuesWell
<1>10. KnownWell(c) /\ FailedWell(c)
  BY <1>1, <1>3, <1>4 DEF Static, Orderly, KnownWell, FailedWell
<1>11. Static(c)
  BY <1>6, <1>7, <1>8, <1>9, <1>10 DEF Static, Orderly
<1>12. FromUser(c, p, g)
  BY <1>1, <1>3 DEF FromUser
<1>13. TrailWell(c)
  BY <1>2, <1>4 DEF TrailWell
<1>14. ValuesExplained(c)
  <2>1. \A l \in c.values : IF c.levelOf[IDX(l)] = 0
                            THEN /\ c.reason[IDX(l)] \in Refs(c)
                                 /\ Klause(c, c.reason[IDX(l)]).lits = <<l>>
                            ELSE l \in ToSet(c.trail)
    BY <1>2, <1>3, <1>4, <1>5
  <2>2. \A ref \in Refs(k) : \A l \in LITS :
          Klause(k, ref).lits = <<l>> => l \in k.values /\ k.levelOf[IDX(l)] = 0
    BY <1>1 DEF Explained, ValuesExplained
  <2>3. \A ref \in Refs(c) : \A l \in LITS :
          Klause(c, ref).lits = <<l>> => l \in c.values /\ c.levelOf[IDX(l)] = 0
    BY <1>2, <1>3, <1>4, <2>2
  <2> QED
    BY <2>1, <2>3 DEF ValuesExplained
<1>15. ReasonsWell(c)
  BY <1>4 DEF ReasonsWell
<1>16. AssumptionsTrue(c)
  BY <1>1, <1>2, <1>4 DEF Explained, AssumptionsTrue, IsTrue
<1>17. \A l : ~Pending(c, 0, l) /\ ~Pending(k, k.propagated, l)
  BY <1>1, <1>4 DEF Pending, Kittens
<1>18. WatchesExcused(c, INVALID)
  <2> SUFFICES ASSUME NEW ref \in Refs(k), Large(k, ref), NEW i \in {1, 2}
               PROVE  WatchExcused(c, 0, INVALID, ref, Klause(k, ref).lits[i])
    BY <1>2, <1>3 DEF WatchesExcused, Large
  <2>1. WatchExcused(k, k.propagated, INVALID, ref, Klause(k, ref).lits[i])
    BY <1>1 DEF WatchesExcused
  <2> QED
    BY <1>2, <1>3, <1>4, <1>17, <2>1 DEF WatchExcused, Excused, IsTrue, IsFalse
<1>19. ConflictWell(c, INVALID)
  BY DEF ConflictWell
<1> QED
  BY <1>1, <1>2, <1>4, <1>11, <1>12, <1>13, <1>14, <1>15, <1>16, <1>18, <1>19
     DEF Quiet, Searching, Explained

(* The first assumption that is not true. *)
LEMMA AssumingLevel ==
  ASSUME NEW k \in Kittens
  PROVE  /\ Assuming(k) = [k EXCEPT !.level = Assuming(k).level]
         /\ Assuming(k).level \in Nat /\ k.level <= Assuming(k).level
         /\ \A i \in 1..Len(k.assumptions) :
              k.level < i /\ i <= Assuming(k).level => IsTrue(k, k.assumptions[i])
         /\ Assuming(k).level < Len(k.assumptions) =>
              ~IsTrue(k, k.assumptions[Assuming(k).level + 1])
<1> DEFINE n == Len(k.assumptions)
           I == {i \in k.level + 1 .. n : ~IsTrue(k, k.assumptions[i])}
           next == SelectInSubSeq(k.assumptions, k.level + 1, n, LAMBDA a : ~IsTrue(k, a))
           m == IF next # 0 THEN next - 1 ELSE IF k.level < n THEN n ELSE k.level
<1>1. k.level \in Nat /\ n \in Nat
  BY DEF Kittens
<1>2. next = IF I # {} THEN Min(I) ELSE 0
  BY DEF SelectInSubSeq
<1>3. I \in SUBSET Nat
  BY <1>1
<1>4. I # {} => Min(I) \in I /\ \A y \in I : Min(I) <= y
  BY <1>3, FirstOf
<1>5. Assuming(k) = [k EXCEPT !.level = m]
  BY DEF Assuming
<1> HIDE DEF next
<1>6. Assuming(k).level = m
  BY <1>5 DEF Kittens
<1>7. CASE I = {}
  <2>1. next = 0
    BY <1>2, <1>7
  <2>2. \A i \in k.level + 1 .. n : IsTrue(k, k.assumptions[i])
    BY <1>7
  <2>3. \A i \in 1..n : k.level < i => i \in k.level + 1 .. n
    BY <1>1
  <2> QED
    BY <1>1, <1>5, <1>6, <2>1, <2>2, <2>3
<1>8. CASE I # {}
  <2>1. next \in I /\ \A y \in I : next <= y
    BY <1>2, <1>4, <1>8
  <2>2. next \in k.level + 1 .. n /\ ~IsTrue(k, k.assumptions[next])
    BY <2>1
  <2>3. \A i \in k.level + 1 .. n : i < next => IsTrue(k, k.assumptions[i])
    <3> SUFFICES ASSUME NEW i \in k.level + 1 .. n, i < next, ~IsTrue(k, k.assumptions[i])
                 PROVE  FALSE
      OBVIOUS
    <3>1. i \in I
      OBVIOUS
    <3>2. next <= i
      BY <2>1, <3>1
    <3> HIDE DEF I
    <3> QED
      BY <1>1, <2>2, <3>2
  <2>4. \A i \in 1..n : k.level < i => i \in k.level + 1 .. n
    BY <1>1
  <2>5. next \in Nat /\ next # 0 /\ m = next - 1 /\ m + 1 = next
    BY <1>1, <2>2
  <2> HIDE DEF I, m
  <2> QED
    BY <1>1, <1>5, <1>6, <2>2, <2>3, <2>4, <2>5
<1> QED
  BY <1>7, <1>8

LEMMA AssumingEffect ==
  ASSUME NEW k, NEW p, NEW g, Quiet(k, p, g)
  PROVE  /\ Quiet(Assuming(k), p, g)
         /\ Assuming(k).level < Len(Assuming(k).assumptions) =>
              ~IsTrue(Assuming(k), Assuming(k).assumptions[Assuming(k).level + 1])
<1> DEFINE c == Assuming(k)
<1>1. /\ k \in Kittens /\ Static(k) /\ FromUser(k, p, g) /\ Explained(k)
      /\ WatchesExcused(k, INVALID) /\ k.propagated = Len(k.trail)
  BY DEF Quiet, Searching
<1>2. /\ c = [k EXCEPT !.level = c.level]
      /\ c.level \in Nat /\ k.level <= c.level
      /\ \A i \in 1..Len(k.assumptions) :
           k.level < i /\ i <= c.level => IsTrue(k, k.assumptions[i])
      /\ c.level < Len(k.assumptions) => ~IsTrue(k, k.assumptions[c.level + 1])
  BY <1>1, AssumingLevel
<1> HIDE DEF c
<1> DEFINE m == c.level
<1>3. /\ c \in Kittens /\ Relevelled(k, c) /\ c.search = k.search
  <2>1. c = [k EXCEPT !.level = m] /\ m \in Nat
    BY <1>2
  <2> HIDE DEF m
  <2> QED
    BY <1>1, <2>1 DEF Kittens, Relevelled, OnlySearched
<1>4. /\ c.values = k.values /\ c.trail = k.trail /\ c.propagated = k.propagated
      /\ c.levelOf = k.levelOf /\ c.assumptions = k.assumptions /\ c.status = k.status
      /\ c.inconsistent = k.inconsistent /\ c.queue = k.queue
  BY <1>3 DEF Relevelled, OnlySearched
<1>5. QueueWell(c)
  BY <1>1, <1>3, <1>4, QueueFrame DEF Static, Orderly
<1>6. Static(c) /\ FromUser(c, p, g) /\ ValuesExplained(c) /\ ReasonsWell(c) /\ WatchesExcused(c, INVALID)
  BY <1>1, <1>3, <1>5, RelevelledFrame DEF Explained
<1>7. k.level \in Nat /\ Len(k.trail) \in Nat /\ k.levelOf \in [Vars -> Nat] /\ k.values \subseteq LITS
  BY <1>1 DEF Kittens
<1>8. TrailWell(c)
  <2>1. \A i \in 1..Len(k.trail) : k.levelOf[IDX(k.trail[i])] \in Nat /\ k.levelOf[IDX(k.trail[i])] <= k.level
    BY <1>1, LevelBound DEF Explained, TrailWell
  <2>2. \A i \in 1..Len(k.trail) : k.levelOf[IDX(k.trail[i])] <= c.level
    BY <1>2, <1>7, <2>1
  <2>3. \A i \in c.propagated + 1 .. Len(c.trail) : FALSE
    BY <1>1, <1>4, <1>7
  <2> QED
    BY <1>1, <1>4, <2>2, <2>3 DEF Explained, TrailWell
<1>9. AssumptionsTrue(c)
  <2> SUFFICES ASSUME NEW i \in 1..Len(k.assumptions), i <= c.level
               PROVE  IsTrue(k, k.assumptions[i]) /\ k.levelOf[IDX(k.assumptions[i])] <= i
    BY <1>4 DEF AssumptionsTrue, IsTrue
  <2>1. CASE i <= k.level
    BY <1>1, <2>1 DEF Explained, AssumptionsTrue
  <2>2. CASE k.level < i
    <3>1. IsTrue(k, k.assumptions[i])
      BY <1>2, <2>2
    <3>2. /\ k.levelOf[IDX(k.assumptions[i])] \in Nat
          /\ k.levelOf[IDX(k.assumptions[i])] <= k.level
      BY <1>1, <3>1, LevelBound DEF IsTrue
    <3> QED
      BY <1>7, <2>2, <3>1, <3>2
  <2> QED
    BY <1>7, <2>1, <2>2
<1>10. ConflictWell(c, INVALID)
  BY DEF ConflictWell
<1>11. Quiet(c, p, g)
  BY <1>1, <1>3, <1>4, <1>6, <1>8, <1>9, <1>10 DEF Quiet, Searching, Explained
<1>12. c.level < Len(c.assumptions) => ~IsTrue(c, c.assumptions[c.level + 1])
  BY <1>2, <1>4 DEF IsTrue
<1> QED
  BY <1>11, <1>12 DEF c

-----------------------------------------------------------------------------
(* Answers when everything was propagated. *)

LEMMA QuietFacts ==
  ASSUME NEW k, NEW p, NEW g, Quiet(k, p, g)
  PROVE  /\ k \in Kittens /\ Static(k) /\ FromUser(k, p, g) /\ Explained(k)
         /\ WatchesExcused(k, INVALID) /\ k.status = 0 /\ k.inconsistent = INVALID
         /\ k.failed = {} /\ k.failing = INVALID
         /\ Originals(k) \subseteq Refs(k)
         /\ k.level \in Nat /\ Len(k.trail) \in Nat /\ Len(k.assumptions) \in Nat
         /\ k.values \subseteq LITS /\ k.levelOf \in [Vars -> Nat]
         /\ \A i \in 1..Len(k.assumptions) : k.assumptions[i] \in LITS
<1>1. k \in Kittens /\ Static(k) /\ FromUser(k, p, g) /\ Explained(k) /\ WatchesExcused(k, INVALID)
  BY DEF Quiet, Searching
<1>2. k.status = 0 /\ k.inconsistent = INVALID
  BY <1>1 DEF Explained
<1>3. k.failed = {} /\ k.failing = INVALID
  BY <1>1, <1>2 DEF Static, Orderly, FailedWell
<1>4. Originals(k) \subseteq Refs(k)
  BY <1>1, OriginalsAreRefs DEF Static, Orderly, Clausal
<1>5. /\ k.level \in Nat /\ k.trail \in Seq(LITS) /\ k.assumptions \in Seq(LITS)
      /\ k.values \subseteq LITS /\ k.levelOf \in [Vars -> Nat]
  BY <1>1 DEF Kittens
<1> QED
  BY <1>1, <1>2, <1>3, <1>4, <1>5

(* A clause without a true literal has two that are not false. *)
LEMMA QuietWatches ==
  ASSUME NEW k, NEW p, NEW g, Quiet(k, p, g), NEW ref \in Refs(k), Lits(k, ref) \cap k.values = {}
  PROVE  /\ Large(k, ref)
         /\ \A i \in {1, 2} : Klause(k, ref).lits[i] \in Lits(k, ref)
                              /\ ~IsFalse(k, Klause(k, ref).lits[i])
         /\ Klause(k, ref).lits[1] # Klause(k, ref).lits[2]
<1> DEFINE lits == Klause(k, ref).lits
<1>1. /\ k \in Kittens /\ Static(k) /\ Explained(k) /\ WatchesExcused(k, INVALID)
      /\ k.inconsistent = INVALID /\ Len(k.trail) \in Nat
  BY QuietFacts
<1>2. /\ lits \in Seq(LITS) /\ Len(lits) \in Nat
      /\ \A i \in 1..Len(lits) : lits[i] \in LITS
      /\ Lits(k, ref) = {lits[i] : i \in 1..Len(lits)}
  BY <1>1, KlauseType
<1>3. lits # <<>> /\ \A i, j \in 1..Len(lits) : IDX(lits[i]) = IDX(lits[j]) => i = j
  BY <1>1 DEF Static, Orderly, Clausal, ClausesWell
<1>4. Len(lits) # 0
  BY <1>2, <1>3
<1>5. Len(lits) # 1
  <2> SUFFICES ASSUME Len(lits) = 1
               PROVE  FALSE
    OBVIOUS
  <2>1. lits = <<lits[1]>> /\ lits[1] \in LITS
    BY <1>2
  <2> DEFINE l == lits[1]
  <2>2. l \in k.values
    <3>1. \A r \in Refs(k) : \A x \in LITS : Klause(k, r).lits = <<x>> => x \in k.values
      BY <1>1 DEF Explained, ValuesExplained
    <3> QED
      BY <2>1, <3>1
  <2>3. l \in Lits(k, ref)
    BY <1>2
  <2> HIDE DEF l, lits
  <2> QED
    BY <2>2, <2>3
<1>6. Large(k, ref)
  <2>1. Len(lits) \in Nat
    BY <1>2
  <2>2. Len(lits) > 1
    <3> DEFINE n == Len(lits)
    <3>1. n \in Nat /\ n # 0 /\ n # 1
      BY <1>4, <1>5, <2>1
    <3> HIDE DEF n
    <3>2. n > 1
      BY <3>1
    <3> QED
      BY <3>2 DEF n
  <2> QED
    BY <2>2 DEF Large
<1>7. \A i \in {1, 2} : i \in 1..Len(lits) /\ lits[i] \in Lits(k, ref)
  <2>1. \A i \in {1, 2} : i \in 1..Len(lits)
    BY <1>2, <1>6 DEF Large
  <2> HIDE DEF lits
  <2> QED
    BY <1>2, <2>1
<1>8. \A l : ~Pending(k, k.propagated, l)
  BY <1>1 DEF Pending, Quiet
<1>9. \A i \in {1, 2} : ~IsFalse(k, lits[i])
  <2> SUFFICES ASSUME NEW i \in {1, 2}, IsFalse(k, lits[i])
               PROVE  FALSE
    OBVIOUS
  <2>1. WatchExcused(k, k.propagated, INVALID, ref, lits[i])
    BY <1>1, <1>6 DEF WatchesExcused
  <2>2. Excused(k, ref, lits[i])
    BY <1>8, <2>1 DEF WatchExcused
  <2> QED
    BY <2>2 DEF Excused, IsTrue
<1>10. lits[1] # lits[2]
  <2>1. 1 \in 1..Len(lits) /\ 2 \in 1..Len(lits) /\ 1 # 2
    BY <1>7
  <2> HIDE DEF lits
  <2> QED
    BY <1>3, <2>1
<1> QED
  BY <1>6, <1>7, <1>9, <1>10

LEMMA FiniteRange ==
  ASSUME NEW S, NEW s \in Seq(S)
  PROVE  IsFiniteSet(ToSet(s))
<1> DEFINE n == Len(s)
           D == 1..n
           T == ToSet(s)
<1>1. n \in Nat /\ T = {s[i] : i \in D}
  BY SetOfSeq, LenProperties
<1>2. IsFiniteSet(D)
  BY <1>1, FS_Interval
<1>3. s \in [D -> S]
  BY LenProperties
<1> HIDE DEF D, T, n
<1>4. \A i \in D : s[i] \in T
  BY <1>1
<1>5. s \in Surjection(D, T)
  <2>1. s \in [D -> T]
    BY <1>3, <1>4
  <2>2. \A x \in T : \E i \in D : s[i] = x
    BY <1>1
  <2> QED
    BY <2>1, <2>2 DEF Surjection
<1>6. IsFiniteSet(T)
  BY <1>2, <1>5, FS_Surjection
<1> QED
  BY <1>6 DEF T

LEMMA TwoElements ==
  ASSUME NEW S, IsFiniteSet(S), NEW a \in S, NEW b \in S, a # b
  PROVE  Cardinality(S) > 1
<1>1. IsFiniteSet({a, b}) /\ Cardinality({a, b}) = 2
  <2>1. IsFiniteSet({a}) /\ Cardinality({a}) = 1
    BY FS_Singleton
  <2>2. IsFiniteSet({a} \cup {b}) /\ Cardinality({a} \cup {b}) = 2
    <3>1. IsFiniteSet({a}) /\ b \notin {a}
      BY <2>1
    <3> DEFINE A == {a}
    <3>2. Cardinality(A) = 1
      BY <2>1
    <3> HIDE DEF A
    <3>3. IsFiniteSet(A \cup {b}) /\ Cardinality(A \cup {b}) = 1 + 1
      BY <3>1, <3>2, FS_AddElement DEF A
    <3> QED
      BY <3>3 DEF A
  <2>3. {a} \cup {b} = {a, b}
    OBVIOUS
  <2> QED
    BY <2>2, <2>3
<1>2. {a, b} \subseteq S
  OBVIOUS
<1>3. Cardinality({a, b}) <= Cardinality(S) /\ Cardinality(S) \in Nat
  BY <1>2, FS_Subset, FS_CardinalityType
<1> QED
  BY <1>1, <1>3

LEMMA QuietComplete ==
  ASSUME NEW k, NEW p, NEW g, Quiet(k, p, g)
  PROVE  /\ \A ref \in Refs(k) : \/ Lits(k, ref) \cap k.values # {}
                                 \/ Cardinality({l \in Lits(k, ref) : ~IsFalse(k, l)}) > 1
         /\ \A v \in Unassigned(k) : Stamp(k, v) <= Stamp(k, k.search)
<1>1. k \in Kittens /\ Static(k)
  BY QuietFacts
<1>2. ASSUME NEW ref \in Refs(k), Lits(k, ref) \cap k.values = {}
      PROVE  Cardinality({l \in Lits(k, ref) : ~IsFalse(k, l)}) > 1
  <2> DEFINE S == {l \in Lits(k, ref) : ~IsFalse(k, l)}
             a == Klause(k, ref).lits[1]
             b == Klause(k, ref).lits[2]
  <2>1. a \in Lits(k, ref) /\ b \in Lits(k, ref) /\ ~IsFalse(k, a) /\ ~IsFalse(k, b) /\ a # b
    BY <1>2, QuietWatches
  <2>2. a \in S /\ b \in S
    BY <2>1
  <2>3. IsFiniteSet(Lits(k, ref))
    <3>1. Klause(k, ref).lits \in Seq(LITS)
      BY <1>1, KlauseType
    <3> QED
      BY <3>1, FiniteRange DEF Lits
  <2>4. IsFiniteSet(S)
    BY <2>3, FS_Subset
  <2> HIDE DEF S, a, b
  <2> QED
    BY <2>1, <2>2, <2>4, TwoElements DEF S
<1>3. ASSUME NEW v \in Unassigned(k) PROVE Stamp(k, v) <= Stamp(k, k.search)
  <2>1. PICK i \in 1..Len(k.queue) : k.queue[i] = v
    BY <1>1, <1>3, QueueType DEF Unassigned, Knows
  <2>2. k.queue # <<>>
    BY <1>1, <2>1, QueueType
  <2>3. PICK s \in 1..Len(k.queue) :
          /\ k.queue[s] = k.search
          /\ \A j \in 1..Len(k.queue) : k.queue[j] \in Unassigned(k) => j <= s
    BY <1>1, <2>2 DEF Static, Orderly, QueueWell
  <2>4. Stamp(k, v) = i /\ Stamp(k, k.search) = s
    BY <1>1, <2>1, <2>3, StampIs DEF Static, Orderly
  <2>5. i <= s
    BY <1>3, <2>1, <2>3
  <2> QED
    BY <2>4, <2>5
<1> QED
  BY <1>2, <1>3

(* Without unassigned variables all clauses are true. *)
LEMMA QuietModel ==
  ASSUME NEW k, NEW p, NEW g, Quiet(k, p, g), Unassigned(k) = {}
  PROVE  /\ \A v \in Knows(k) : v \in k.values \/ NOT(v) \in k.values
         /\ \A ref \in Refs(k) : Lits(k, ref) \cap k.values # {}
         /\ \A i \in 1..Len(k.assumptions) :
              IsTrue(k, k.assumptions[i]) \/ IsFalse(k, k.assumptions[i])
<1>1. k \in Kittens /\ Static(k)
  BY QuietFacts
<1>2. \A v \in Knows(k) : v \in k.values \/ NOT(v) \in k.values
  BY DEF Unassigned, Knows, IsTrue, IsFalse
<1>3. \A l \in LITS : IDX(l) \in Knows(k) => IsTrue(k, l) \/ IsFalse(k, l)
  BY <1>2, LitFacts DEF IsTrue, IsFalse
<1>4. ASSUME NEW ref \in Refs(k), Lits(k, ref) \cap k.values = {} PROVE FALSE
  <2> DEFINE a == Klause(k, ref).lits[1]
  <2>1. a \in Lits(k, ref) /\ ~IsFalse(k, a) /\ Large(k, ref)
    BY <1>4, QuietWatches
  <2>2. a \in LITS /\ IDX(a) \in Knows(k)
    <3>1. Len(Klause(k, ref).lits) \in Nat /\ Klause(k, ref).lits \in Seq(LITS)
      BY <1>1, KlauseType
    <3>2. 1 \in 1..Len(Klause(k, ref).lits)
      BY <2>1, <3>1 DEF Large
    <3> QED
      BY <1>1, <3>1, <3>2 DEF Static, Orderly, Clausal, ClausesWell
  <2>3. IsTrue(k, a)
    BY <1>3, <2>1, <2>2
  <2> QED
    BY <1>4, <2>1, <2>3 DEF IsTrue
<1>5. \A i \in 1..Len(k.assumptions) : IsTrue(k, k.assumptions[i]) \/ IsFalse(k, k.assumptions[i])
  <2>1. \A i \in 1..Len(k.assumptions) : k.assumptions[i] \in ToSet(k.assumptions) /\ k.assumptions[i] \in LITS
    <3>1. k.assumptions \in Seq(LITS)
      BY <1>1 DEF Kittens
    <3> QED
      BY <3>1, SetOfSeq
  <2> QED
    BY <1>1, <1>3, <2>1 DEF Static, Orderly, KnownWell
<1> QED
  BY <1>2, <1>4, <1>5

(* Satisfied. *)
LEMMA AnswerSatisfied ==
  ASSUME NEW k, NEW p, NEW g, Quiet(k, p, g), Unassigned(k) = {},
         \A i \in 1..Len(k.assumptions) : i <= k.level,
         NEW c, c = [k EXCEPT !.status = 10]
  PROVE  c \in Kittens /\ Static(c) /\ Answered(c) /\ FromUser(c, p, g)
<1>1. /\ k \in Kittens /\ Static(k) /\ FromUser(k, p, g) /\ Explained(k)
      /\ k.inconsistent = INVALID /\ k.failed = {} /\ k.failing = INVALID
      /\ Originals(k) \subseteq Refs(k)
  BY QuietFacts
<1>2. /\ c \in Kittens /\ Static(c) /\ FromUser(c, p, g) /\ c.status = 10
      /\ c.inconsistent = k.inconsistent
      /\ c.values = k.values /\ c.trail = k.trail
      /\ c.levelOf = k.levelOf /\ c.assumptions = k.assumptions
      /\ Originals(c) = Originals(k) /\ Knows(c) = Knows(k)
      /\ \A ref : Lits(c, ref) = Lits(k, ref)
  <2>1. 10 \in {0, 10, 20, 21} /\ 10 \notin {20, 21}
    OBVIOUS
  <2> QED
    BY <1>1, <2>1, StatusFrame
<1>3. \A l \in k.values : k.levelOf[IDX(l)] = 0 \/ l \in ToSet(k.trail)
  BY <1>1 DEF Explained, ValuesExplained
<1>4. k.values \subseteq FoundIn(c)
  BY <1>2, <1>3 DEF FoundIn
<1>5. \A ref \in Originals(c) : Lits(c, ref) \cap FoundIn(c) # {}
  <2>1. \A ref \in Refs(k) : Lits(k, ref) \cap k.values # {}
    BY QuietModel
  <2>2. \A ref \in Originals(k) : Lits(k, ref) \cap FoundIn(c) # {}
    BY <1>1, <1>4, <2>1
  <2> QED
    BY <1>2, <2>2
<1>6. ToSet(c.assumptions) \subseteq FoundIn(c)
  <2>1. \A i \in 1..Len(k.assumptions) : k.assumptions[i] \in k.values
    BY <1>1 DEF Explained, AssumptionsTrue, IsTrue
  <2>2. k.assumptions \in Seq(LITS)
    BY <1>1 DEF Kittens
  <2>3. ToSet(k.assumptions) = {k.assumptions[i] : i \in 1..Len(k.assumptions)}
    BY <2>2, SetOfSeq
  <2> QED
    BY <1>2, <1>4, <2>1, <2>3
<1>7. \A v \in Knows(c) : v \in c.values \/ NOT(v) \in c.values
  BY <1>2, QuietModel
<1>8. \A l \in c.values : c.levelOf[IDX(l)] = 0 \/ l \in ToSet(c.trail) \/ NOT(l) \in ToSet(c.trail)
  BY <1>2, <1>3
<1> QED
  BY <1>1, <1>2, <1>5, <1>6, <1>7, <1>8 DEF Answered

(* Given up: the assumptions are dropped. *)
LEMMA AnswerUnknown ==
  ASSUME NEW k, NEW p, NEW g, Quiet(k, p, g),
         NEW free, free = IF k.assumptions # <<>> THEN ResetAssumptions(k) ELSE k,
         NEW c, c = [free EXCEPT !.status = 0]
  PROVE  c \in Kittens /\ Static(c) /\ Answered(c) /\ FromUser(c, p, g)
<1>1. /\ k \in Kittens /\ Static(k) /\ FromUser(k, p, g)
      /\ k.status = 0 /\ k.inconsistent = INVALID /\ k.failed = {} /\ k.failing = INVALID
  BY QuietFacts
<1>2. /\ free \in Kittens /\ Static(free) /\ FromUser(free, p, g)
      /\ free.failed = {} /\ free.failing = INVALID /\ free.inconsistent = INVALID
  <2>1. CASE k.assumptions = <<>>
    BY <1>1, <2>1
  <2>2. CASE k.assumptions # <<>>
    <3>1. free = [k EXCEPT !.assumptions = <<>>, !.failed = @ \ ToSet(k.assumptions), !.failing = INVALID]
      BY <2>2 DEF ResetAssumptions
    <3> DEFINE as == <<>>
               fs == k.failed \ ToSet(k.assumptions)
    <3>2. as \in Seq(LITS) /\ ToSet(as) = {} /\ fs = {} /\ fs \in SUBSET LITS
      BY <1>1 DEF ToSet
    <3>3. free = [k EXCEPT !.assumptions = as, !.failed = fs, !.failing = INVALID]
      BY <3>1
    <3> HIDE DEF as, fs
    <3>4. /\ free \in Kittens /\ TRUE
      BY <1>1, <3>2, <3>3 DEF Kittens, INVALID, OnlySearched
    <3>5. /\ free.status = k.status /\ free.antecedents = k.antecedents /\ free.learned = k.learned
          /\ free.klauses = k.klauses /\ free.endOriginal = k.endOriginal /\ free.units = k.units
          /\ free.watches = k.watches /\ free.queue = k.queue /\ free.search = k.search
          /\ free.inconsistent = k.inconsistent /\ free.values = k.values /\ free.trail = k.trail
          /\ free.assumptions = as /\ free.failed = fs /\ free.failing = INVALID
      BY <1>1, <3>3 DEF Kittens
    <3>6. /\ Refs(free) = Refs(k) /\ Originals(free) = Originals(k) /\ Knows(free) = Knows(k)
          /\ \A ref : Klause(free, ref) = Klause(k, ref) /\ Lits(free, ref) = Lits(k, ref)
      BY <3>5 DEF Refs, Originals, Knows, Klause, Lits
    <3>7. Clausal(free)
      BY <1>1, <3>5, ClausalFrame DEF Static, Orderly
    <3>8. Watched(free, Len(free.klauses))
      BY <1>1, <3>5, WatchedFrame DEF Static
    <3>9. QueueWell(free)
      BY <1>1, <3>5, QueueFrame DEF Static, Orderly
    <3>10. ValuesWell(free) /\ KnownWell(free) /\ FailedWell(free)
      BY <1>1, <3>2, <3>5, <3>6 DEF Static, Orderly, ValuesWell, KnownWell, FailedWell
    <3>11. FromUser(free, p, g)
      BY <1>1, <3>6 DEF FromUser
    <3> QED
      BY <1>1, <3>2, <3>4, <3>5, <3>7, <3>8, <3>9, <3>10, <3>11 DEF Static, Orderly
  <2> QED
    BY <2>1, <2>2
<1>3. /\ c \in Kittens /\ Static(c) /\ FromUser(c, p, g) /\ c.status = 0
      /\ c.inconsistent = INVALID
  <2>1. 0 \in {0, 10, 20, 21} /\ 0 \notin {20, 21}
    OBVIOUS
  <2> QED
    BY <1>2, <2>1, StatusFrame
<1> QED
  BY <1>3 DEF Answered

-----------------------------------------------------------------------------
(* Deciding. *)

(* Watches after assigning, of all clauses but one perhaps. *)
LEMMA AssignedWatches ==
  ASSUME NEW k \in Kittens, NEW lit \in LITS, NEW reason, NEW a, NowAssigned(k, lit, reason, a),
         k.propagated <= Len(k.trail), NEW new,
         \A ref \in Refs(k) : ref # new /\ Large(k, ref) =>
           \A i \in {1, 2} : WatchExcused(k, k.propagated, INVALID, ref, Klause(k, ref).lits[i]),
         new \in Refs(k) /\ Large(k, new) =>
           \A i \in {1, 2} : WatchExcused(a, k.propagated, INVALID, new, Klause(k, new).lits[i])
  PROVE  WatchesExcused(a, INVALID)
<1>1. /\ a.propagated = k.propagated
      /\ \A q \in Refs(k) : Klause(a, q) = Klause(k, q)
      /\ \A q \in Refs(a) \ Refs(k) : Klause(a, q).lits = <<lit>>
  BY DEF NowAssigned, AssignedTo, WithUnits
<1>2. k.propagated \in Nat
  BY DEF Kittens
<1> SUFFICES ASSUME NEW q \in Refs(a), Large(a, q), NEW i \in {1, 2},
                    NEW l, l = Klause(a, q).lits[i]
             PROVE  WatchExcused(a, k.propagated, INVALID, q, l)
  BY <1>1 DEF WatchesExcused
<1>3. q \in Refs(k)
  BY <1>1, UnitNotLarge
<1>4. Klause(a, q) = Klause(k, q) /\ Large(k, q)
  BY <1>1, <1>3 DEF Large
<1>5. CASE q = new
  BY <1>3, <1>4, <1>5
<1>6. CASE q # new
  <2>1. l \in LITS
    BY <1>3, <1>4, WatchFields
  <2>2. WatchExcused(k, k.propagated, INVALID, q, l)
    BY <1>3, <1>4, <1>6
  <2> QED
    BY <1>2, <1>3, <2>1, <2>2, AssignedExcuses
<1> QED
  BY <1>5, <1>6

LEMMA AssignedFromUser ==
  ASSUME NEW k \in Kittens, Derived(k), NEW lit, NEW reason, NEW a, AssignedTo(k, lit, reason, a),
         NEW p, NEW g, FromUser(k, p, g)
  PROVE  FromUser(a, p, g)
<1>1. Originals(k) \subseteq Refs(k)
  BY OriginalsAreRefs
<1>2. /\ \A q \in Refs(k) : Klause(a, q) = Klause(k, q) /\ Lits(a, q) = Lits(k, q)
      /\ Originals(a) = Originals(k)
  BY DEF AssignedTo, WithUnits
<1> QED
  BY <1>1, <1>2 DEF FromUser

(* k on a new level is r, and a decision is made there. *)
LEMMA DecideEffect ==
  ASSUME NEW k, NEW p, NEW g, Quiet(k, p, g),
         NEW r \in Kittens, Relevelled(k, r), r.level = k.level + 1, QueueWell(r),
         NEW lit \in LITS, IDX(lit) \in Knows(k), ~IsTrue(k, lit), ~IsFalse(k, lit),
         r.level <= Len(k.assumptions) => lit = k.assumptions[r.level],
         NEW a, a = Assign(r, lit, INVALID)
  PROVE  a \in Kittens /\ Static(a) /\ FromUser(a, p, g) /\ Searching(a, INVALID)
<1>1. /\ k \in Kittens /\ Static(k) /\ FromUser(k, p, g) /\ Explained(k)
      /\ WatchesExcused(k, INVALID) /\ k.status = 0 /\ k.inconsistent = INVALID
      /\ k.level \in Nat /\ Len(k.trail) \in Nat /\ Len(k.assumptions) \in Nat
      /\ k.values \subseteq LITS /\ k.levelOf \in [Vars -> Nat]
  BY QuietFacts
<1>2. /\ Static(r) /\ FromUser(r, p, g) /\ ValuesExplained(r) /\ ReasonsWell(r)
      /\ WatchesExcused(r, INVALID)
  BY <1>1, RelevelledFrame DEF Explained
<1>3. /\ r.values = k.values /\ r.trail = k.trail /\ r.propagated = k.propagated
      /\ r.levelOf = k.levelOf /\ r.assumptions = k.assumptions /\ r.status = k.status
      /\ r.inconsistent = k.inconsistent /\ r.queue = k.queue
      /\ k.propagated = Len(k.trail)
  BY DEF Relevelled, OnlySearched, Quiet
<1>4. r.level \in Nat /\ r.level > 0 /\ r.level # 0
  BY <1>1
<1>5. AssignAssumption(r, lit, INVALID)
  BY <1>2, <1>3, <1>4 DEF AssignAssumption, Static, Knows, IsFalse
<1>6. AssignedTo(r, lit, INVALID, a) /\ Static(a)
  <2>1. INVALID \in Nat
    BY DEF INVALID
  <2> QED
    BY <1>2, <1>5, <2>1, AssignStatic
<1>7. NowAssigned(r, lit, INVALID, a)
  BY <1>3, <1>6 DEF NowAssigned, IsTrue, IsFalse
<1>8. \A i \in 1..Len(k.trail) : /\ k.levelOf[IDX(k.trail[i])] \in Nat
                                 /\ k.levelOf[IDX(k.trail[i])] <= k.level
  BY <1>1, LevelBound DEF Explained, TrailWell
<1>9. TrailWell(r)
  <2>1. \A i \in 1..Len(k.trail) : k.levelOf[IDX(k.trail[i])] <= r.level
    BY <1>1, <1>8
  <2>2. \A i \in r.propagated + 1 .. Len(r.trail) : FALSE
    BY <1>1, <1>3
  <2> QED
    BY <1>1, <1>3, <2>1, <2>2 DEF Explained, TrailWell
<1>10. ReasonFor(r, lit, INVALID)
  <2>1. \A i \in 1..Len(r.trail) : r.levelOf[IDX(r.trail[i])] < r.level
    BY <1>1, <1>3, <1>8
  <2>2. ASSUME r.level <= Len(r.assumptions) PROVE lit \in ToSet(r.assumptions)
    <3>1. r.level \in 1..Len(k.assumptions) /\ lit = k.assumptions[r.level]
      BY <1>1, <1>3, <1>4, <2>2
    <3>2. k.assumptions \in Seq(LITS)
      BY <1>1 DEF Kittens
    <3> QED
      BY <1>3, <3>1, <3>2, SetOfSeq
  <2> QED
    BY <2>1, <2>2 DEF ReasonFor
<1>11. TrailWell(a)
  BY <1>7, <1>9, AssignedTrail
<1>12. ValuesExplained(a)
  BY <1>2, <1>7, AssignedValues
<1>13. ReasonsWell(a)
  BY <1>2, <1>7, <1>9, <1>10, AssignedReasons DEF INVALID
<1>14. AssumptionsTrue(a)
  <2>1. a.assumptions = k.assumptions /\ a.level = r.level /\ a.values = k.values \cup {lit}
    BY <1>3, <1>6 DEF AssignedTo
  <2>2. /\ \A l \in k.values : l \in a.values /\ a.levelOf[IDX(l)] = k.levelOf[IDX(l)]
        /\ a.levelOf[IDX(lit)] = r.level
    BY <1>3, <1>7, AssignedKeeps
  <2> SUFFICES ASSUME NEW i \in 1..Len(k.assumptions), i <= r.level
               PROVE  k.assumptions[i] \in a.values /\ a.levelOf[IDX(k.assumptions[i])] <= i
    BY <2>1 DEF AssumptionsTrue, IsTrue
  <2>3. CASE i <= k.level
    BY <1>1, <2>2, <2>3 DEF Explained, AssumptionsTrue, IsTrue
  <2>4. CASE i = r.level
    <3>1. k.assumptions[i] = lit
      BY <1>1, <1>4, <2>4
    <3> QED
      BY <1>4, <2>1, <2>2, <2>4, <3>1
  <2>5. i <= k.level \/ i = r.level
    BY <1>1
  <2> QED
    BY <2>3, <2>4, <2>5
<1>15. a.status = 0 /\ a.inconsistent = INVALID
  BY <1>1, <1>3, <1>6 DEF AssignedTo, WithUnits
<1>16. WatchesExcused(a, INVALID)
  <2>1. 0 \notin Refs(r)
    BY DEF Refs
  <2>2. r.propagated <= Len(r.trail)
    BY <1>1, <1>3
  <2>3. \A ref \in Refs(r) : ref # 0 /\ Large(r, ref) =>
          \A i \in {1, 2} : WatchExcused(r, r.propagated, INVALID, ref, Klause(r, ref).lits[i])
    BY <1>2 DEF WatchesExcused
  <2> QED
    BY <1>7, <2>1, <2>2, <2>3, AssignedWatches
<1>17. FromUser(a, p, g)
  BY <1>2, <1>6, AssignedFromUser DEF Static, Orderly, Clausal
<1>18. ConflictWell(a, INVALID)
  BY DEF ConflictWell
<1>19. a \in Kittens
  BY <1>6 DEF AssignedTo
<1> QED
  BY <1>6, <1>11, <1>12, <1>13, <1>14, <1>15, <1>16, <1>17, <1>18, <1>19 DEF Searching, Explained

(* The last unassigned variable at or before the search variable. *)
LEMMA NextVariableIs ==
  ASSUME NEW k \in Kittens, QueueWell(k), Unassigned(k) # {}
  PROVE  /\ NextVariable(k) \in Unassigned(k) /\ NextVariable(k) \in Vars
         /\ \E q \in 1..Len(k.queue) :
              /\ k.queue[q] = NextVariable(k)
              /\ \A i \in 1..Len(k.queue) : k.queue[i] \in Unassigned(k) => i <= q
<1> DEFINE n == Stamp(k, k.search)
           I == {i \in 1..n : k.queue[i] \in Unassigned(k)}
           q == SelectLastInSubSeq(k.queue, 1, n, LAMBDA v : v \in Unassigned(k))
<1>1. /\ k.queue \in Seq(Vars) /\ Len(k.queue) \in Nat
      /\ Knows(k) = {k.queue[i] : i \in 1..Len(k.queue)}
      /\ \A i \in 1..Len(k.queue) : k.queue[i] \in Vars
  BY QueueType
<1>2. PICK i0 \in 1..Len(k.queue) : k.queue[i0] \in Unassigned(k)
  BY <1>1 DEF Unassigned, Knows
<1>3. k.queue # <<>>
  BY <1>1, <1>2
<1>4. PICK s \in 1..Len(k.queue) :
        /\ k.queue[s] = k.search
        /\ \A i \in 1..Len(k.queue) : k.queue[i] \in Unassigned(k) => i <= s
  BY <1>3 DEF QueueWell
<1>5. n = s
  BY <1>4, StampIs
<1>6. n \in Nat /\ n <= Len(k.queue) /\ n \in 1..Len(k.queue)
  BY <1>1, <1>4, <1>5
<1>7. i0 \in I
  BY <1>1, <1>2, <1>4, <1>5
<1>8. Max(I) \in I /\ \A y \in I : y <= Max(I)
  <2>1. I \in SUBSET (1..n) /\ I # {}
    BY <1>7
  <2> HIDE DEF I, n
  <2> QED
    BY <1>6, <2>1, LastOf
<1>9. q = Max(I)
  <2>1. q = IF I # {} THEN Max(I) ELSE 0
    BY DEF SelectLastInSubSeq
  <2> QED
    BY <1>7, <2>1
<1>10. NextVariable(k) = k.queue[q]
  BY DEF NextVariable
<1> HIDE DEF q, n
<1>11. q \in 1..n /\ k.queue[q] \in Unassigned(k)
  BY <1>8, <1>9
<1>12. q \in 1..Len(k.queue)
  BY <1>6, <1>11
<1>13. ASSUME NEW i \in 1..Len(k.queue), k.queue[i] \in Unassigned(k) PROVE i <= q
  <2>1. i <= n
    BY <1>4, <1>5, <1>13
  <2>2. i \in I
    BY <1>6, <1>13, <2>1
  <2> QED
    BY <1>8, <1>9, <2>2
<1> QED
  BY <1>1, <1>10, <1>11, <1>12, <1>13

LEMMA DecideLiteralEffect ==
  ASSUME NEW k, NEW p, NEW g, Quiet(k, p, g),
         k.level < Len(k.assumptions) =>
           ~IsTrue(k, k.assumptions[k.level + 1]) /\ ~IsFalse(k, k.assumptions[k.level + 1]),
         Unassigned(k) # {},
         NEW a, a = DecideLiteral(k)
  PROVE  a \in Kittens /\ Static(a) /\ FromUser(a, p, g) /\ Searching(a, INVALID)
<1>1. /\ k \in Kittens /\ Static(k) /\ Explained(k)
      /\ k.level \in Nat /\ Len(k.assumptions) \in Nat
      /\ \A i \in 1..Len(k.assumptions) : k.assumptions[i] \in LITS
  BY QuietFacts
<1> DEFINE v == NextVariable(k)
           m == k.level + 1
           raised == [k EXCEPT !.level = m]
           searched == [raised EXCEPT !.search = v]
<1>2. m \in Nat
  BY <1>1
<1>3. QueueWell(k)
  BY <1>1 DEF Static, Orderly
<1>4. CASE k.level < Len(k.assumptions)
  <2> DEFINE lit == k.assumptions[m]
  <2>1. m \in 1..Len(k.assumptions) /\ m <= Len(k.assumptions)
    BY <1>1, <1>4
  <2>2. a = Assign(raised, lit, INVALID)
    <3>1. NextAssumption(k) = {lit}
      BY <1>4 DEF NextAssumption
    <3>2. (CHOOSE x \in NextAssumption(k) : TRUE) = lit
      BY <3>1
    <3>3. raised = [k EXCEPT !.level = @ + 1]
      OBVIOUS
    <3> HIDE DEF lit, raised
    <3> QED
      BY <3>1, <3>2, <3>3 DEF DecideLiteral
  <2>3. lit \in LITS /\ ~IsTrue(k, lit) /\ ~IsFalse(k, lit)
    BY <1>1, <1>4, <2>1
  <2>4. IDX(lit) \in Knows(k)
    <3>1. k.assumptions \in Seq(LITS)
      BY <1>1 DEF Kittens
    <3>2. lit \in ToSet(k.assumptions)
      BY <2>1, <3>1, SetOfSeq
    <3> HIDE DEF lit
    <3> QED
      BY <1>1, <3>2 DEF Static, Orderly, KnownWell
  <2> HIDE DEF m
  <2>5. raised \in Kittens /\ Relevelled(k, raised) /\ raised.level = m /\ raised.search = k.search
        /\ raised.queue = k.queue /\ raised.values = k.values
    BY <1>1, <1>2 DEF Kittens, Relevelled, OnlySearched
  <2> HIDE DEF raised
  <2>6. QueueWell(raised)
    BY <1>3, <2>5, QueueFrame
  <2>7. raised.level = k.level + 1 /\ (raised.level <= Len(k.assumptions) => lit = k.assumptions[raised.level])
    BY <2>5 DEF m
  <2> HIDE DEF lit
  <2> QED
    BY <2>2, <2>3, <2>4, <2>5, <2>6, <2>7, DecideEffect
<1>5. CASE ~(k.level < Len(k.assumptions))
  <2> DEFINE lit == IF v \in k.phases THEN NOT(v) ELSE v
  <2>1. a = Assign(searched, lit, INVALID)
    <3>1. NextAssumption(k) = {}
      BY <1>5 DEF NextAssumption
    <3>2. raised = [k EXCEPT !.level = @ + 1]
      OBVIOUS
    <3> HIDE DEF raised
    <3> QED
      BY <3>1, <3>2 DEF DecideLiteral
  <2>2. /\ v \in Unassigned(k) /\ v \in Vars
        /\ \E q \in 1..Len(k.queue) :
             /\ k.queue[q] = v
             /\ \A i \in 1..Len(k.queue) : k.queue[i] \in Unassigned(k) => i <= q
    BY <1>1, <1>3, NextVariableIs
  <2> HIDE DEF v
  <2>3. lit \in LITS /\ IDX(lit) = v /\ ~IsTrue(k, lit) /\ ~IsFalse(k, lit) /\ IDX(lit) \in Knows(k)
    <3>1. v \in LITS /\ NOT(v) \in LITS /\ IDX(v) = v /\ IDX(NOT(v)) = v /\ NOT(NOT(v)) = v
      BY <2>2, VarFacts, LitFacts
    <3>2. v \in Knows(k) /\ ~IsTrue(k, v) /\ ~IsFalse(k, v)
      BY <2>2 DEF Unassigned, Knows
    <3>3. ~IsTrue(k, NOT(v)) /\ ~IsFalse(k, NOT(v))
      BY <3>1, <3>2 DEF IsTrue, IsFalse
    <3> QED
      BY <3>1, <3>2, <3>3
  <2> HIDE DEF m, lit
  <2>4. /\ searched \in Kittens /\ Relevelled(k, searched) /\ searched.level = m
        /\ searched.search = v /\ searched.queue = k.queue /\ searched.values = k.values
    BY <1>1, <1>2, <2>2 DEF Kittens, Relevelled, OnlySearched
  <2> HIDE DEF searched
  <2>5. QueueWell(searched)
    <3>1. Unassigned(searched) = Unassigned(k)
      BY <2>4 DEF Unassigned, IsTrue, IsFalse
    <3> QED
      BY <1>3, <2>2, <2>4, <3>1 DEF QueueWell
  <2>6. searched.level = k.level + 1 /\ (searched.level <= Len(k.assumptions) => lit = k.assumptions[searched.level])
    BY <1>1, <1>5, <2>4 DEF m
  <2> QED
    BY <2>1, <2>3, <2>4, <2>5, <2>6, DecideEffect
<1> QED
  BY <1>4, <1>5

-----------------------------------------------------------------------------
(* Failed assumptions: going back from a false one to the decisions. *)

LEMMA TrailDistinct ==
  ASSUME NEW k \in Kittens, Static(k), Explained(k)
  PROVE  /\ Len(k.trail) \in Nat
         /\ \A i \in 1..Len(k.trail) : /\ k.trail[i] \in LITS /\ k.trail[i] \in k.values
                                       /\ IDX(k.trail[i]) \in Knows(k)
         /\ \A i, j \in 1..Len(k.trail) : IDX(k.trail[i]) = IDX(k.trail[j]) => i = j
<1>1. k.trail \in Seq(LITS)
  BY DEF Kittens
<1>2. Len(k.trail) \in Nat /\ \A i \in 1..Len(k.trail) : k.trail[i] \in LITS
  BY <1>1
<1>3. \A i \in 1..Len(k.trail) : k.trail[i] \in k.values
  BY DEF Explained, TrailWell
<1>4. \A l \in k.values : IDX(l) \in Knows(k) /\ NOT(l) \notin k.values
  BY DEF Static, Orderly, ValuesWell
<1>5. ASSUME NEW i \in 1..Len(k.trail), NEW j \in 1..Len(k.trail), IDX(k.trail[i]) = IDX(k.trail[j])
      PROVE  i = j
  <2>1. k.trail[i] = k.trail[j] \/ k.trail[i] = NOT(k.trail[j])
    BY <1>2, <1>5, SameIndex
  <2>2. k.trail[i] = k.trail[j]
    BY <1>3, <1>4, <2>1
  <2> QED
    BY <2>2 DEF Explained, TrailWell
<1> QED
  BY <1>2, <1>3, <1>4, <1>5

(* A seen literal, not on the root level, that the model makes false. *)
Blamed(k, seen, q, M) ==
  IDX(k.trail[q]) \in seen /\ k.levelOf[IDX(k.trail[q])] > 0 /\ k.trail[q] \notin M

TraceStates(k) == [kit : {k}, seen : SUBSET Vars, klause : Seq(LITS), resolved : SUBSET Refs(k)]

(* The first m literals of the trail were not reached yet. *)
TraceKlause(k, f, m, klause) ==
  /\ klause \in Seq(LITS)
  /\ Len(klause) >= 1 /\ klause[1] = NOT(f)
  /\ \A i \in 1..Len(klause) : i > 1 =>
       \E q \in 1..Len(k.trail) :
         q > m /\ klause[i] = NOT(k.trail[q]) /\ k.reason[IDX(k.trail[q])] = INVALID
  /\ DistinctLits(klause)

TraceState(k, f, m, s) ==
  /\ s \in TraceStates(k)
  /\ TraceKlause(k, f, m, s.klause)
  /\ \A v \in s.seen : k.levelOf[v] = 0 => k.reason[v] \in s.resolved
  /\ \A M \in Models : SatisfiesAll(k, M, s.resolved) /\ ToSet(s.klause) \cap M = {} =>
       \E q \in 1..Len(k.trail) : q <= m /\ Blamed(k, s.seen, q, M)

LEMMA TraceKlauseFrame ==
  ASSUME NEW k \in Kittens, NEW f, NEW m \in 1..Len(k.trail), NEW klause, TraceKlause(k, f, m, klause)
  PROVE  TraceKlause(k, f, m - 1, klause)
<1>1. Len(k.trail) \in Nat
  BY DEF Kittens
<1>2. \A q \in 1..Len(k.trail) : q > m => q > m - 1
  BY <1>1
<1> QED
  BY <1>2 DEF TraceKlause

(* A literal that was not seen. *)
LEMMA TraceSkip ==
  ASSUME NEW k \in Kittens, NEW f, NEW m \in 1..Len(k.trail), NEW s, TraceState(k, f, m, s),
         IDX(k.trail[m]) \notin s.seen
  PROVE  TraceState(k, f, m - 1, s)
<1>1. Len(k.trail) \in Nat
  BY DEF Kittens
<1>2. TraceKlause(k, f, m - 1, s.klause)
  BY TraceKlauseFrame DEF TraceState
<1>3. ASSUME NEW M \in Models, SatisfiesAll(k, M, s.resolved) /\ ToSet(s.klause) \cap M = {}
      PROVE  \E q \in 1..Len(k.trail) : q <= m - 1 /\ Blamed(k, s.seen, q, M)
  <2>1. PICK q \in 1..Len(k.trail) : q <= m /\ Blamed(k, s.seen, q, M)
    BY <1>3 DEF TraceState
  <2>2. q # m
    BY <2>1 DEF Blamed
  <2>3. q <= m - 1
    BY <1>1, <2>1, <2>2
  <2> QED
    BY <2>1, <2>3
<1> QED
  BY <1>2, <1>3 DEF TraceState

(* A decision. *)
LEMMA TraceDecision ==
  ASSUME NEW k \in Kittens, Static(k), Explained(k), NEW f \in LITS, k.reason[IDX(f)] # INVALID,
         NEW m \in 1..Len(k.trail), NEW s, TraceState(k, f, m, s),
         NEW lit, lit = k.trail[m], k.reason[IDX(lit)] = INVALID
  PROVE  TraceState(k, f, m - 1, [s EXCEPT !.klause = Append(@, NOT(lit))])
<1> DEFINE klause == Append(s.klause, NOT(lit))
           c == [s EXCEPT !.klause = klause]
           n == Len(s.klause)
<1>1. /\ Len(k.trail) \in Nat
      /\ \A i \in 1..Len(k.trail) : k.trail[i] \in LITS
      /\ \A i, j \in 1..Len(k.trail) : IDX(k.trail[i]) = IDX(k.trail[j]) => i = j
  BY TrailDistinct
<1>2. /\ s \in TraceStates(k) /\ s.klause \in Seq(LITS) /\ n \in Nat /\ n >= 1 /\ s.klause[1] = NOT(f)
      /\ DistinctLits(s.klause)
      /\ \A i \in 1..n : i > 1 =>
           \E q \in 1..Len(k.trail) :
             q > m /\ s.klause[i] = NOT(k.trail[q]) /\ k.reason[IDX(k.trail[q])] = INVALID
  BY DEF TraceState, TraceKlause
<1>3. lit \in LITS /\ NOT(lit) \in LITS /\ IDX(NOT(lit)) = IDX(lit) /\ NOT(NOT(lit)) = lit
  BY <1>1, LitFacts
<1>4. /\ klause \in Seq(LITS) /\ Len(klause) = n + 1 /\ ToSet(klause) = ToSet(s.klause) \cup {NOT(lit)}
      /\ \A i \in 1..n : klause[i] = s.klause[i]
      /\ klause[n + 1] = NOT(lit)
  BY <1>2, <1>3, SetOfAppend
<1>5. \A i \in 1 .. n + 1 : i \in 1..n \/ i = n + 1
  BY <1>2
<1>6. c \in TraceStates(k) /\ c.klause = klause /\ c.seen = s.seen /\ c.resolved = s.resolved
  BY <1>2, <1>4 DEF TraceStates
<1> HIDE DEF c, klause
<1>7. \A i \in 1..n : IDX(s.klause[i]) # IDX(lit)
  <2> SUFFICES ASSUME NEW i \in 1..n, IDX(s.klause[i]) = IDX(lit)
               PROVE  FALSE
    OBVIOUS
  <2>1. CASE i = 1
    <3>1. IDX(s.klause[i]) = IDX(f)
      BY <1>2, <2>1, LitFacts
    <3> QED
      BY <3>1
  <2>2. CASE i > 1
    <3>1. PICK q \in 1..Len(k.trail) : q > m /\ s.klause[i] = NOT(k.trail[q])
      BY <1>2, <2>2
    <3>2. IDX(k.trail[q]) = IDX(k.trail[m])
      BY <1>1, <3>1, LitFacts
    <3> QED
      BY <1>1, <3>1, <3>2
  <2> QED
    BY <1>2, <2>1, <2>2
<1>8. DistinctLits(klause)
  <2> HIDE DEF n
  <2> SUFFICES ASSUME NEW i \in 1 .. n + 1, NEW j \in 1 .. n + 1, IDX(klause[i]) = IDX(klause[j])
               PROVE  i = j
    BY <1>4 DEF DistinctLits
  <2>1. CASE i \in 1..n /\ j \in 1..n
    BY <1>2, <1>4, <2>1 DEF DistinctLits, n
  <2>2. CASE i \in 1..n /\ j = n + 1
    BY <1>3, <1>4, <1>7, <2>2
  <2>3. CASE i = n + 1 /\ j \in 1..n
    BY <1>3, <1>4, <1>7, <2>3
  <2> QED
    BY <1>5, <2>1, <2>2, <2>3
<1>9. TraceKlause(k, f, m - 1, klause)
  <2>1. ASSUME NEW i \in 1 .. n + 1, i > 1
        PROVE  \E q \in 1..Len(k.trail) :
                 q > m - 1 /\ klause[i] = NOT(k.trail[q]) /\ k.reason[IDX(k.trail[q])] = INVALID
    <3>1. CASE i \in 1..n
      <4>1. PICK q \in 1..Len(k.trail) :
              q > m /\ s.klause[i] = NOT(k.trail[q]) /\ k.reason[IDX(k.trail[q])] = INVALID
        BY <1>2, <2>1, <3>1
      <4>2. q > m - 1
        BY <1>1, <4>1
      <4> QED
        BY <1>4, <3>1, <4>1, <4>2
    <3>2. CASE i = n + 1
      <4>1. m > m - 1
        BY <1>1
      <4> QED
        BY <1>4, <3>2, <4>1
    <3> QED
      BY <1>5, <2>1, <3>1, <3>2
  <2>2. Len(klause) >= 1 /\ klause[1] = NOT(f)
    <3>1. 1 \in 1..n
      BY <1>2
    <3> QED
      BY <1>2, <1>4, <3>1
  <2> HIDE DEF n
  <2> QED
    BY <1>4, <1>8, <2>1, <2>2 DEF TraceKlause
<1>10. ASSUME NEW M \in Models, SatisfiesAll(k, M, s.resolved) /\ ToSet(klause) \cap M = {}
       PROVE  \E q \in 1..Len(k.trail) : q <= m - 1 /\ Blamed(k, s.seen, q, M)
  <2>1. ToSet(s.klause) \cap M = {} /\ NOT(lit) \notin M
    BY <1>4, <1>10
  <2>2. PICK q \in 1..Len(k.trail) : q <= m /\ Blamed(k, s.seen, q, M)
    BY <1>10, <2>1 DEF TraceState
  <2>3. lit \in M
    BY <1>3, <2>1, ModelFacts
  <2>4. q # m
    BY <2>2, <2>3 DEF Blamed
  <2>5. q <= m - 1
    BY <1>1, <2>2, <2>4
  <2> QED
    BY <2>2, <2>5
<1>11. \A v \in c.seen : k.levelOf[v] = 0 => k.reason[v] \in c.resolved
  BY <1>6 DEF TraceState
<1>12. TraceState(k, f, m - 1, c)
  BY <1>6, <1>9, <1>10, <1>11 DEF TraceState
<1> QED
  BY <1>12 DEF c, klause

(* A literal with a reason. *)
LEMMA TraceResolved ==
  ASSUME NEW k \in Kittens, Static(k), Explained(k), NEW f,
         NEW m \in 1..Len(k.trail), NEW s, TraceState(k, f, m, s),
         NEW lit, lit = k.trail[m], IDX(lit) \in s.seen, k.reason[IDX(lit)] # INVALID
  PROVE  TraceState(k, f, m - 1, TraceReason(s, lit))
<1> DEFINE ref == k.reason[IDX(lit)]
           others == {IDX(l) : l \in Lits(k, ref)} \ s.seen
           roots == {k.reason[v] : v \in {u \in others : k.levelOf[u] = 0}}
           seen == s.seen \cup others
           resolved == s.resolved \cup {ref} \cup roots
           c == [s EXCEPT !.seen = seen, !.resolved = resolved]
<1>1. /\ Len(k.trail) \in Nat /\ \A i \in 1..Len(k.trail) : k.trail[i] \in LITS
      /\ lit \in LITS /\ lit \in k.values
  BY TrailDistinct
<1>2. /\ s \in TraceStates(k) /\ s.kit = k /\ s.seen \subseteq Vars /\ s.resolved \subseteq Refs(k)
      /\ \A v \in s.seen : k.levelOf[v] = 0 => k.reason[v] \in s.resolved
  BY DEF TraceState, TraceStates
<1>3. c = TraceReason(s, lit)
  BY <1>2 DEF TraceReason
<1> HIDE DEF ref
<1>4. /\ ref \in Refs(k) /\ lit \in Lits(k, ref)
      /\ \A l \in Lits(k, ref) \ {lit} : Before(k, m, l)
      /\ k.levelOf[IDX(lit)] = 0 => Lits(k, ref) = {lit}
  <2>1. k.levelOf[IDX(lit)] \in Nat
    BY <1>1, LevelBound
  <2>2. CASE k.levelOf[IDX(lit)] = 0
    <3>1. ref \in Refs(k) /\ Klause(k, ref).lits = <<lit>>
      BY <1>1, <2>2, LevelBound DEF ref
    <3>2. Lits(k, ref) = {lit}
      BY <3>1, UnitLits
    <3> QED
      BY <3>1, <3>2
  <2>3. CASE k.levelOf[IDX(lit)] > 0
    <3>1. ReasonWell(k, m)
      BY <2>3 DEF Explained, ReasonsWell
    <3> QED
      BY <2>3, <3>1 DEF ReasonWell, ref
  <2> QED
    BY <2>1, <2>2, <2>3
<1>5. Lits(k, ref) \subseteq LITS
  BY <1>4, KlauseType
<1>6. others \subseteq Vars /\ seen \subseteq Vars
  BY <1>2, <1>5, LitFacts
<1>7. ASSUME NEW l \in Lits(k, ref), l # lit
      PROVE  /\ l \in LITS /\ IDX(l) \in seen /\ IsFalse(k, l)
             /\ k.levelOf[IDX(l)] \in Nat
             /\ k.levelOf[IDX(l)] = 0 =>
                  k.reason[IDX(l)] \in Refs(k) /\ Klause(k, k.reason[IDX(l)]).lits = <<NOT(l)>>
             /\ k.levelOf[IDX(l)] > 0 => \E j \in 1 .. m - 1 : k.trail[j] = NOT(l)
  <2>1. l \in LITS /\ IDX(l) \in seen
    BY <1>5
  <2>2. Before(k, m, l)
    BY <1>4, <1>7
  <2>3. IsFalse(k, l)
    BY <2>2 DEF Before
  <2>4. /\ k.levelOf[IDX(l)] \in Nat
        /\ k.levelOf[IDX(l)] = 0 =>
             k.reason[IDX(l)] \in Refs(k) /\ Klause(k, k.reason[IDX(l)]).lits = <<NOT(l)>>
    BY <2>1, <2>3, FalseBound
  <2>5. k.levelOf[IDX(l)] > 0 => \E j \in 1 .. m - 1 : k.trail[j] = NOT(l)
    BY <2>2 DEF Before
  <2> QED
    BY <2>1, <2>3, <2>4, <2>5
<1>8. roots \subseteq Refs(k)
  <2> SUFFICES ASSUME NEW v \in others, k.levelOf[v] = 0
               PROVE  k.reason[v] \in Refs(k)
    OBVIOUS
  <2>1. PICK l \in Lits(k, ref) : v = IDX(l)
    OBVIOUS
  <2>2. l # lit
    BY <2>1
  <2> HIDE DEF others, seen
  <2> QED
    BY <1>7, <2>1, <2>2
<1>9. resolved \subseteq Refs(k)
  <2> HIDE DEF roots
  <2> QED
    BY <1>2, <1>4, <1>8
<1>10. \A v \in seen : k.levelOf[v] = 0 => k.reason[v] \in resolved
  <2> SUFFICES ASSUME NEW v \in seen, k.levelOf[v] = 0
               PROVE  k.reason[v] \in resolved
    OBVIOUS
  <2>1. CASE v \in s.seen
    BY <1>2, <2>1
  <2>2. CASE v \in others
    <3>1. k.reason[v] \in roots
      BY <2>2
    <3> QED
      BY <3>1
  <2> QED
    BY <2>1, <2>2
<1>11. /\ s.seen \subseteq seen /\ s.resolved \subseteq resolved /\ ref \in resolved
  OBVIOUS
<1> HIDE DEF seen, resolved, others, roots
<1>12. c \in TraceStates(k) /\ c.klause = s.klause /\ c.seen = seen /\ c.resolved = resolved
  BY <1>2, <1>6, <1>9 DEF TraceStates
<1> HIDE DEF c
<1>13. TraceKlause(k, f, m - 1, c.klause)
  BY <1>12, TraceKlauseFrame DEF TraceState
<1>14. ASSUME NEW M \in Models, SatisfiesAll(k, M, resolved) /\ ToSet(s.klause) \cap M = {}
       PROVE  \E q \in 1..Len(k.trail) : q <= m - 1 /\ Blamed(k, seen, q, M)
  <2>1. SatisfiesAll(k, M, s.resolved)
    BY <1>11, <1>14 DEF SatisfiesAll
  <2>2. PICK q \in 1..Len(k.trail) : q <= m /\ Blamed(k, s.seen, q, M)
    BY <1>14, <2>1 DEF TraceState
  <2>3. CASE q # m
    <3>1. q <= m - 1
      BY <1>1, <2>2, <2>3
    <3>2. Blamed(k, seen, q, M)
      BY <1>11, <2>2 DEF Blamed
    <3> QED
      BY <3>1, <3>2
  <2>4. CASE q = m
    <3>1. lit \notin M
      BY <2>2, <2>4 DEF Blamed
    <3>2. PICK l \in Lits(k, ref) : l \in M
      <4>1. Satisfies(M, Lits(k, ref))
        BY <1>11, <1>14 DEF SatisfiesAll
      <4> QED
        BY <4>1 DEF Satisfies
    <3>3. l # lit
      BY <3>1, <3>2
    <3>4. NOT(l) \notin M
      BY <1>7, <3>2, <3>3, ModelFacts
    <3>5. k.levelOf[IDX(l)] # 0
      <4> SUFFICES ASSUME k.levelOf[IDX(l)] = 0
                   PROVE  FALSE
        OBVIOUS
      <4>1. k.reason[IDX(l)] \in resolved
        BY <1>7, <1>10, <3>3
      <4>2. Satisfies(M, Lits(k, k.reason[IDX(l)]))
        BY <1>14, <4>1 DEF SatisfiesAll
      <4>3. Lits(k, k.reason[IDX(l)]) = {NOT(l)}
        <5>1. Klause(k, k.reason[IDX(l)]).lits = <<NOT(l)>>
          BY <1>7, <3>3
        <5> QED
          BY <5>1, UnitLits
      <4> QED
        BY <3>4, <4>2, <4>3 DEF Satisfies
    <3>6. PICK j \in 1 .. m - 1 : k.trail[j] = NOT(l)
      BY <1>7, <3>3, <3>5
    <3>7. j \in 1..Len(k.trail) /\ j <= m - 1
      BY <1>1
    <3>8. IDX(k.trail[j]) = IDX(l)
      BY <1>7, <3>3, <3>6, LitFacts
    <3>9. Blamed(k, seen, j, M)
      BY <1>7, <3>3, <3>4, <3>5, <3>6, <3>8 DEF Blamed
    <3> QED
      BY <3>7, <3>9
  <2> QED
    BY <2>3, <2>4
<1>15. TraceState(k, f, m - 1, c)
  BY <1>10, <1>12, <1>13, <1>14 DEF TraceState
<1> QED
  BY <1>3, <1>15

LEMMA TraceStep ==
  ASSUME NEW k \in Kittens, Static(k), Explained(k), NEW f \in LITS, k.reason[IDX(f)] # INVALID,
         NEW m \in 1..Len(k.trail), NEW s, TraceState(k, f, m, s)
  PROVE  TraceState(k, f, m - 1, TraceAssigned(s, k.trail[m]))
<1> DEFINE lit == k.trail[m]
<1>1. s.kit = k
  BY DEF TraceState, TraceStates
<1>2. CASE IDX(lit) \notin s.seen
  <2>1. TraceAssigned(s, lit) = s
    BY <1>2 DEF TraceAssigned
  <2> QED
    BY <1>2, <2>1, TraceSkip
<1>3. CASE IDX(lit) \in s.seen /\ k.reason[IDX(lit)] = INVALID
  <2>1. TraceAssigned(s, lit) = [s EXCEPT !.klause = Append(@, NOT(lit))]
    BY <1>1, <1>3 DEF TraceAssigned
  <2> HIDE DEF lit
  <2>2. TraceState(k, f, m - 1, [s EXCEPT !.klause = Append(@, NOT(lit))])
    BY <1>3, TraceDecision DEF lit
  <2>3. TraceState(k, f, m - 1, TraceAssigned(s, lit))
    BY <2>1, <2>2
  <2> QED
    BY <2>3 DEF lit
<1>4. CASE IDX(lit) \in s.seen /\ k.reason[IDX(lit)] # INVALID
  <2>1. TraceAssigned(s, lit) = TraceReason(s, lit)
    BY <1>1, <1>4 DEF TraceAssigned
  <2> QED
    BY <1>4, <2>1, TraceResolved
<1> QED
  BY <1>2, <1>3, <1>4

LEMMA TraceFold ==
  ASSUME NEW k \in Kittens, Static(k), Explained(k), NEW f \in LITS, IsFalse(k, f),
         k.levelOf[IDX(f)] > 0, k.reason[IDX(f)] # INVALID
  PROVE  TraceState(k, f, 0, TraceFailed(k, f))
<1> DEFINE trail == k.trail
           n == Len(k.trail)
           base == [kit |-> k, seen |-> {IDX(f)}, klause |-> <<NOT(f)>>, resolved |-> {}]
           States(j) == {s \in TraceStates(k) : TraceState(k, f, n - j, s)}
           Inv == [j \in 0..n |-> States(j)]
<1>1. trail \in Seq(LITS) /\ n \in Nat
  BY DEF Kittens
<1>2. /\ Reverse(trail) \in Seq(LITS) /\ Len(Reverse(trail)) = n
      /\ \A i \in 1..n : n - i + 1 \in 1..n /\ Reverse(trail)[i] = trail[n - i + 1]
  BY <1>1, Reversed
<1>3. TraceState(k, f, n, base)
  <2>1. NOT(f) \in LITS /\ IDX(f) \in Vars /\ IDX(NOT(f)) = IDX(f)
    BY LitFacts
  <2> DEFINE klause == <<NOT(f)>>
  <2>2. klause \in Seq(LITS) /\ Len(klause) = 1 /\ klause[1] = NOT(f) /\ ToSet(klause) = {NOT(f)}
    BY <2>1 DEF ToSet
  <2> HIDE DEF klause
  <2>3. TraceKlause(k, f, n, klause)
    BY <2>2 DEF TraceKlause, DistinctLits
  <2>4. base \in TraceStates(k)
    BY <2>1, <2>2 DEF TraceStates, klause
  <2>5. ASSUME NEW M \in Models, ToSet(klause) \cap M = {}
        PROVE  \E q \in 1..n : q <= n /\ Blamed(k, {IDX(f)}, q, M)
    <3>1. PICK q \in 1..n : k.trail[q] = NOT(f)
      BY FalseBound
    <3>2. q <= n
      BY <1>1
    <3>3. Blamed(k, {IDX(f)}, q, M)
      BY <2>1, <2>2, <2>5, <3>1 DEF Blamed
    <3> QED
      BY <3>2, <3>3
  <2>6. \A v \in {IDX(f)} : k.levelOf[v] = 0 => k.reason[v] \in {}
    OBVIOUS
  <2>7. base.klause = klause /\ base.seen = {IDX(f)} /\ base.resolved = {}
    BY DEF klause
  <2> HIDE DEF base
  <2> QED
    BY <2>3, <2>4, <2>5, <2>6, <2>7 DEF TraceState
<1>4. base \in Inv[0]
  <2>1. n - 0 = n /\ base \in TraceStates(k) /\ 0 \in 0..n
    BY <1>1, <1>3 DEF TraceState
  <2> HIDE DEF base
  <2> QED
    BY <1>3, <2>1
<1>5. ASSUME NEW i \in 1..n, NEW s \in Inv[i - 1]
      PROVE  TraceAssigned(s, Reverse(trail)[i]) \in Inv[i]
  <2> DEFINE m == n - i + 1
  <2>1. /\ i - 1 \in 0..n /\ i \in 0..n /\ n - (i - 1) = m /\ m - 1 = n - i
        /\ m \in 1..n /\ Reverse(trail)[i] = trail[m]
    BY <1>1, <1>2
  <2>2. s \in States(i - 1)
    BY <2>1
  <2>3. TraceState(k, f, m, s)
    BY <2>1, <2>2
  <2> HIDE DEF m
  <2>4. TraceState(k, f, m - 1, TraceAssigned(s, trail[m]))
    BY <2>1, <2>3, TraceStep
  <2>5. TraceState(k, f, n - i, TraceAssigned(s, Reverse(trail)[i]))
    BY <2>1, <2>4
  <2>6. TraceAssigned(s, Reverse(trail)[i]) \in TraceStates(k)
    BY <2>5 DEF TraceState
  <2>7. TraceAssigned(s, Reverse(trail)[i]) \in States(i)
    BY <2>5, <2>6
  <2> HIDE DEF States
  <2> QED
    BY <2>1, <2>7
<1> HIDE DEF Inv, base
<1>6. FoldLeft(TraceAssigned, base, Reverse(trail)) \in Inv[Len(Reverse(trail))]
  BY <1>2, <1>4, <1>5, TracingInduction
<1>7. FoldLeft(TraceAssigned, base, Reverse(trail)) \in States(n)
  <2>1. n \in 0..n
    BY <1>1
  <2> QED
    BY <1>2, <1>6, <2>1 DEF Inv
<1>8. TraceState(k, f, 0, FoldLeft(TraceAssigned, base, Reverse(trail)))
  <2>1. n - n = 0
    BY <1>1
  <2> QED
    BY <1>7, <2>1
<1> QED
  BY <1>8 DEF TraceFailed, base

(* The clause that was traced, over failed assumptions only. *)
LEMMA TracedClause ==
  ASSUME NEW k, NEW p, NEW g, Quiet(k, p, g), k.level <= Len(k.assumptions),
         NEW f \in LITS, f \in ToSet(k.assumptions), IsFalse(k, f),
         k.levelOf[IDX(f)] # 0, k.reason[IDX(f)] # INVALID,
         NEW s, s = TraceFailed(k, f)
  PROVE  /\ s.klause \in Seq(LITS) /\ DistinctLits(s.klause) /\ s.klause # <<>>
         /\ s.klause[1] = NOT(f) /\ 1 \in 1..Len(s.klause)
         /\ \A i \in 1..Len(s.klause) :
              NOT(s.klause[i]) \in ToSet(k.assumptions) /\ IDX(s.klause[i]) \in Knows(k)
         /\ s.resolved \in SUBSET Refs(k)
         /\ Follows(k, s.resolved, ToSet(s.klause))
<1>1. /\ k \in Kittens /\ Static(k) /\ Explained(k) /\ k.level \in Nat
      /\ Len(k.assumptions) \in Nat /\ k.levelOf \in [Vars -> Nat] /\ k.values \subseteq LITS
  BY QuietFacts
<1>2. k.levelOf[IDX(f)] > 0
  BY <1>1, LitFacts
<1>3. TraceState(k, f, 0, s)
  BY <1>1, <1>2, TraceFold
<1>4. /\ s \in TraceStates(k) /\ s.klause \in Seq(LITS) /\ Len(s.klause) \in Nat
      /\ Len(s.klause) >= 1 /\ s.klause[1] = NOT(f)
      /\ DistinctLits(s.klause) /\ s.resolved \in SUBSET Refs(k)
  BY <1>3 DEF TraceState, TraceKlause, TraceStates
<1>5. /\ Len(k.trail) \in Nat
      /\ \A i \in 1..Len(k.trail) : /\ k.trail[i] \in LITS /\ k.trail[i] \in k.values
                                    /\ IDX(k.trail[i]) \in Knows(k)
  BY <1>1, TrailDistinct
<1>6. ASSUME NEW i \in 1..Len(s.klause)
      PROVE  NOT(s.klause[i]) \in ToSet(k.assumptions) /\ IDX(s.klause[i]) \in Knows(k)
  <2>1. CASE i = 1
    <3>1. NOT(s.klause[i]) = f /\ IDX(s.klause[i]) = IDX(f)
      BY <1>4, <2>1, LitFacts
    <3>2. IDX(f) \in Knows(k)
      BY <1>1 DEF Static, Orderly, KnownWell
    <3> QED
      BY <3>1, <3>2
  <2>2. CASE i > 1
    <3>1. PICK q \in 1..Len(k.trail) :
            s.klause[i] = NOT(k.trail[q]) /\ k.reason[IDX(k.trail[q])] = INVALID
      BY <1>3, <2>2 DEF TraceState, TraceKlause
    <3> DEFINE l == k.trail[q]
    <3>2. NOT(s.klause[i]) = l /\ IDX(s.klause[i]) = IDX(l) /\ l \in LITS /\ l \in k.values
      BY <1>5, <3>1, LitFacts
    <3>3. /\ k.levelOf[IDX(l)] \in Nat /\ k.levelOf[IDX(l)] <= k.level
          /\ k.levelOf[IDX(l)] = 0 => k.reason[IDX(l)] \in Refs(k)
      BY <1>1, <1>5, LevelBound
    <3>4. k.levelOf[IDX(l)] # 0
      <4>1. INVALID \notin Refs(k)
        BY DEF INVALID, Refs
      <4> QED
        BY <3>1, <3>3, <4>1
    <3>5. ReasonWell(k, q)
      <4>1. k.levelOf[IDX(l)] > 0
        BY <3>3, <3>4
      <4> QED
        BY <1>1, <4>1 DEF Explained, ReasonsWell
    <3>6. k.levelOf[IDX(l)] <= Len(k.assumptions)
      BY <1>1, <3>3
    <3>7. l \in ToSet(k.assumptions)
      BY <3>1, <3>5, <3>6 DEF ReasonWell
    <3>8. IDX(l) \in Knows(k)
      BY <1>5
    <3> QED
      BY <3>2, <3>7, <3>8
  <2> QED
    BY <1>4, <2>1, <2>2
<1>7. Follows(k, s.resolved, ToSet(s.klause))
  <2> SUFFICES ASSUME NEW M \in Models, SatisfiesAll(k, M, s.resolved), ToSet(s.klause) \cap M = {}
               PROVE  FALSE
    BY DEF Follows, Satisfies
  <2>1. PICK q \in 1..Len(k.trail) : q <= 0
    BY <1>3 DEF TraceState
  <2> QED
    BY <1>5, <2>1
<1>8. s.klause # <<>> /\ 1 \in 1..Len(s.klause)
  BY <1>4
<1> QED
  BY <1>4, <1>6, <1>7, <1>8

-----------------------------------------------------------------------------
(* Failed assumptions: the answer. *)

(* Nothing but the answer and what failed differs. *)
OnlyAnswered(k, c) ==
  /\ c.antecedents = k.antecedents /\ c.learned = k.learned
  /\ c.klauses = k.klauses /\ c.endOriginal = k.endOriginal /\ c.units = k.units
  /\ c.watches = k.watches /\ c.values = k.values /\ c.trail = k.trail
  /\ c.queue = k.queue /\ c.search = k.search /\ c.assumptions = k.assumptions
  /\ c.inconsistent = k.inconsistent

LEMMA AnsweredFrame ==
  ASSUME NEW k, Static(k), NEW c, OnlyAnswered(k, c), FailedWell(c)
  PROVE  /\ Static(c)
         /\ Refs(c) = Refs(k) /\ Originals(c) = Originals(k)
         /\ \A ref : Klause(c, ref) = Klause(k, ref) /\ Lits(c, ref) = Lits(k, ref)
         /\ \A p, g : FromUser(k, p, g) => FromUser(c, p, g)
<1>1. /\ c.antecedents = k.antecedents /\ c.learned = k.learned
      /\ c.klauses = k.klauses /\ c.endOriginal = k.endOriginal /\ c.units = k.units
      /\ c.watches = k.watches /\ c.values = k.values /\ c.trail = k.trail
      /\ c.queue = k.queue /\ c.search = k.search /\ c.assumptions = k.assumptions
      /\ c.inconsistent = k.inconsistent
  BY DEF OnlyAnswered
<1>2. /\ Refs(c) = Refs(k) /\ Originals(c) = Originals(k) /\ Knows(c) = Knows(k)
      /\ \A ref : Klause(c, ref) = Klause(k, ref) /\ Lits(c, ref) = Lits(k, ref)
  BY <1>1 DEF Refs, Originals, Knows, Klause, Lits
<1>3. Clausal(c)
  BY <1>1, ClausalFrame DEF Static, Orderly
<1>4. Watched(c, Len(c.klauses))
  BY <1>1, WatchedFrame DEF Static
<1>5. QueueWell(c)
  BY <1>1, QueueFrame DEF Static, Orderly
<1>6. ValuesWell(c) /\ KnownWell(c)
  BY <1>1, <1>2 DEF Static, Orderly, ValuesWell, KnownWell
<1>7. \A p, g : FromUser(k, p, g) => FromUser(c, p, g)
  BY <1>2 DEF FromUser
<1> QED
  BY <1>2, <1>3, <1>4, <1>5, <1>6, <1>7 DEF Static, Orderly

(* The assumption that failed is one of them. *)
LEMMA EarliestIs ==
  ASSUME NEW k \in Kittens, NEW is \in SUBSET (DOMAIN k.assumptions), is # {}
  PROVE  \E i \in is : i \in 1..Len(k.assumptions) /\ Earliest(k, is) = k.assumptions[i]
<1>1. k.assumptions \in Seq(LITS)
  BY DEF Kittens
<1>2. Len(k.assumptions) \in Nat /\ DOMAIN k.assumptions = 1..Len(k.assumptions)
  BY <1>1
<1>3. is \in SUBSET Nat
  BY <1>2
<1>4. \E x \in is : \A y \in is : x <= y
  BY <1>3, FirstOf
<1>5. (CHOOSE i \in is : \A j \in is : i <= j) \in is
  BY <1>4
<1> QED
  BY <1>2, <1>5 DEF Earliest

Refuting(k) == [k EXCEPT !.status = 20]

FailedWith(k, failed, failing) ==
  [k EXCEPT !.failed = failed, !.failing = failing, !.status = 20]

LEMMA FailedFields ==
  ASSUME NEW k \in Kittens, NEW failed \in SUBSET LITS, NEW failing \in Nat
  PROVE  /\ FailedWith(k, failed, failing) \in Kittens
         /\ OnlyAnswered(k, FailedWith(k, failed, failing))
         /\ FailedWith(k, failed, failing).status = 20
         /\ FailedWith(k, failed, failing).failed = failed
         /\ FailedWith(k, failed, failing).failing = failing
BY DEF Kittens, OnlyAnswered, FailedWith

LEMMA FailedIs ==
  ASSUME NEW k, k \in Kittens, NEW failed, failed \in SUBSET LITS,
         NEW failing, failing \in Nat, NEW c, c = FailedWith(k, failed, failing)
  PROVE  /\ c \in Kittens /\ OnlyAnswered(k, c)
         /\ c.status = 20 /\ c.failed = failed /\ c.failing = failing
BY FailedFields

LEMMA FailedAnswer ==
  ASSUME NEW k, NEW p, NEW g, Quiet(k, p, g), k.assumptions # <<>>,
         NEW failed \in SUBSET LITS, failed \subseteq ToSet(k.assumptions),
         NEW failing \in Nat, failing # INVALID => failing \in Refs(k),
         \A M \in Models : failed \subseteq M =>
           failing # INVALID /\ ~Satisfies(M, Lits(k, failing)),
         NEW c \in Kittens, OnlyAnswered(k, c),
         c.status = 20, c.failed = failed, c.failing = failing
  PROVE  c \in Kittens /\ Static(c) /\ Answered(c) /\ FromUser(c, p, g)
<1>1. k \in Kittens /\ Static(k) /\ FromUser(k, p, g) /\ k.inconsistent = INVALID
  BY QuietFacts
<1>2. /\ c \in Kittens /\ OnlyAnswered(k, c)
      /\ c.status = 20 /\ c.failed = failed /\ c.failing = failing
  OBVIOUS
<1>3. c.assumptions = k.assumptions /\ c.inconsistent = INVALID
  BY <1>1, <1>2 DEF OnlyAnswered
<1>4. FailedWell(c)
  BY <1>2, <1>3 DEF FailedWell
<1>5. /\ Static(c) /\ FromUser(c, p, g)
      /\ Refs(c) = Refs(k) /\ Originals(c) = Originals(k)
      /\ \A ref : Lits(c, ref) = Lits(k, ref)
  BY <1>1, <1>2, <1>4, AnsweredFrame
<1>6. RootSet(c) = IF failing = INVALID THEN {} ELSE {failing}
  BY <1>2, <1>3 DEF RootSet, Root
<1>7. RootSet(c) \subseteq Refs(c)
  BY <1>5, <1>6
<1>8. Refuted(c, RootSet(c))
  <2> SUFFICES ASSUME NEW M \in Models, failed \subseteq M
               PROVE  ~SatisfiesAll(c, M, RootSet(c))
    BY <1>2 DEF Refuted
  <2>1. failing \in RootSet(c) /\ ~Satisfies(M, Lits(c, failing))
    BY <1>5, <1>6
  <2> QED
    BY <2>1 DEF SatisfiesAll
<1>9. Refuted(c, Originals(c))
  <2> SUFFICES ASSUME NEW M \in Models, failed \subseteq M, SatisfiesAll(c, M, Originals(c))
               PROVE  FALSE
    BY <1>2 DEF Refuted
  <2>1. failing \in Refs(c) /\ ~Satisfies(M, Lits(c, failing))
    BY <1>5
  <2>2. SatisfiesAll(c, M, {failing})
    BY <1>5, <2>1, OriginalsImply DEF Static, Orderly, Clausal
  <2> QED
    BY <2>1, <2>2 DEF SatisfiesAll
<1> QED
  BY <1>2, <1>3, <1>5, <1>7, <1>8, <1>9 DEF Answered

(* An assumption that is false on the root level. *)
LEMMA FailingUnit ==
  ASSUME NEW k, NEW p, NEW g, Quiet(k, p, g), FailedUnits(k) # {},
         NEW c, c = Refuting(Failing(k))
  PROVE  c \in Kittens /\ Static(c) /\ Answered(c) /\ FromUser(c, p, g)
<1>1. /\ k \in Kittens /\ Static(k) /\ Explained(k) /\ k.failed = {}
      /\ \A i \in 1..Len(k.assumptions) : k.assumptions[i] \in LITS
  BY QuietFacts
<1> DEFINE f == Earliest(k, FailedUnits(k))
           ref == k.reason[IDX(f)]
           failed == k.failed \cup {f}
<1>2. c = [k EXCEPT !.failed = failed, !.failing = ref, !.status = 20]
  BY DEF Failing, Refuting
<1>3. PICK i \in FailedUnits(k) : i \in 1..Len(k.assumptions) /\ f = k.assumptions[i]
  BY <1>1, EarliestIs DEF FailedUnits, FalseAssumptions
<1> HIDE DEF f
<1>4. f \in LITS /\ IsFalse(k, f) /\ k.levelOf[IDX(f)] = 0
  BY <1>1, <1>3 DEF FailedUnits, FalseAssumptions
<1>5. f \in ToSet(k.assumptions) /\ k.assumptions # <<>>
  <2>1. k.assumptions \in Seq(LITS)
    BY <1>1 DEF Kittens
  <2> QED
    BY <1>3, <2>1, SetOfSeq
<1>6. ref \in Refs(k) /\ Klause(k, ref).lits = <<NOT(f)>>
  BY <1>1, <1>4, FalseBound
<1>7. Lits(k, ref) = {NOT(f)}
  BY <1>6, UnitLits
<1> HIDE DEF ref
<1>8. failed = {f}
  BY <1>1
<1>9. ref \in Nat /\ ref # INVALID
  BY <1>6 DEF Refs, INVALID
<1> HIDE DEF failed
<1>10. failed \in SUBSET LITS /\ failed \subseteq ToSet(k.assumptions)
  BY <1>4, <1>5, <1>8
<1>11. \A M \in Models : failed \subseteq M => ref # INVALID /\ ~Satisfies(M, Lits(k, ref))
  BY <1>4, <1>7, <1>8, <1>9, ModelFacts DEF Satisfies
<1>12. /\ c \in Kittens /\ OnlyAnswered(k, c)
       /\ c.status = 20 /\ c.failed = failed /\ c.failing = ref
  <2>1. c = FailedWith(k, failed, ref)
    BY <1>2 DEF FailedWith
  <2>2. k \in Kittens /\ failed \in SUBSET LITS /\ ref \in Nat
    BY <1>1, <1>9, <1>10
  <2> QED
    BY <2>1, <2>2, FailedIs
<1> QED
  BY <1>5, <1>6, <1>9, <1>10, <1>11, <1>12, FailedAnswer

(* Two assumptions that clash. *)
LEMMA FailingClashing ==
  ASSUME NEW k, NEW p, NEW g, Quiet(k, p, g), k.level <= Len(k.assumptions),
         FailedUnits(k) = {}, FailedClashing(k) # {},
         NEW c, c = Refuting(Failing(k))
  PROVE  c \in Kittens /\ Static(c) /\ Answered(c) /\ FromUser(c, p, g)
<1>1. /\ k \in Kittens /\ Static(k) /\ Explained(k) /\ k.failed = {} /\ k.failing = INVALID
      /\ k.level \in Nat /\ Len(k.assumptions) \in Nat
      /\ \A i \in 1..Len(k.assumptions) : k.assumptions[i] \in LITS
  BY QuietFacts
<1> DEFINE f == Earliest(k, FailedClashing(k))
           failed == k.failed \cup {f, NOT(f)}
<1>2. c = [k EXCEPT !.failed = failed, !.failing = INVALID, !.status = 20]
  <2>1. c = [[k EXCEPT !.failed = failed] EXCEPT !.status = 20]
    BY DEF Failing, Refuting
  <2> HIDE DEF failed
  <2> QED
    BY <1>1, <2>1 DEF Kittens
<1>3. PICK i \in FailedClashing(k) : i \in 1..Len(k.assumptions) /\ f = k.assumptions[i]
  BY <1>1, EarliestIs DEF FailedClashing, FalseAssumptions
<1> HIDE DEF f
<1>4. f \in LITS /\ IsFalse(k, f) /\ k.reason[IDX(f)] = INVALID
  BY <1>1, <1>3 DEF FailedClashing, FalseAssumptions
<1>5. f \in ToSet(k.assumptions) /\ k.assumptions # <<>>
  <2>1. k.assumptions \in Seq(LITS)
    BY <1>1 DEF Kittens
  <2> QED
    BY <1>3, <2>1, SetOfSeq
<1>6. NOT(f) \in LITS /\ NOT(f) \in ToSet(k.assumptions)
  <2>1. INVALID \notin Refs(k)
    BY DEF INVALID, Refs
  <2>2. /\ k.levelOf[IDX(f)] \in Nat /\ k.levelOf[IDX(f)] <= k.level
        /\ k.levelOf[IDX(f)] # 0
    BY <1>1, <1>4, <2>1, FalseBound
  <2>3. PICK q \in 1..Len(k.trail) : k.trail[q] = NOT(f)
    BY <1>1, <1>4, <2>2, FalseBound
  <2>4. IDX(NOT(f)) = IDX(f) /\ NOT(f) \in LITS
    BY <1>4, LitFacts
  <2>5. ReasonWell(k, q)
    BY <1>1, <2>2, <2>3, <2>4 DEF Explained, ReasonsWell
  <2>6. k.levelOf[IDX(f)] <= Len(k.assumptions)
    BY <1>1, <2>2
  <2> QED
    BY <1>4, <2>3, <2>4, <2>5, <2>6 DEF ReasonWell
<1>7. failed = {f, NOT(f)}
  BY <1>1
<1> HIDE DEF failed
<1>8. failed \in SUBSET LITS /\ failed \subseteq ToSet(k.assumptions)
  BY <1>4, <1>5, <1>6, <1>7
<1>9. INVALID \in Nat
  BY DEF INVALID
<1>10. \A M \in Models : failed \subseteq M => INVALID # INVALID /\ ~Satisfies(M, Lits(k, INVALID))
  BY <1>4, <1>7, ModelFacts
<1>11. /\ c \in Kittens /\ OnlyAnswered(k, c)
       /\ c.status = 20 /\ c.failed = failed /\ c.failing = INVALID
  <2>1. c = FailedWith(k, failed, INVALID)
    BY <1>2 DEF FailedWith
  <2>2. k \in Kittens /\ failed \in SUBSET LITS /\ INVALID \in Nat
    BY <1>1, <1>8, <1>9
  <2> QED
    BY <2>1, <2>2, FailedIs
<1> QED
  BY <1>5, <1>8, <1>9, <1>10, <1>11, FailedAnswer

(* The clause over failed assumptions is learned. *)
WithFailed(k, failed) == [k EXCEPT !.failed = failed]
FailedBy(new)         == [[new EXCEPT !.failing = Len(new.klauses)] EXCEPT !.status = 20]

LEMMA FailingLearned ==
  ASSUME NEW k, NEW p, NEW g, Quiet(k, p, g), k.assumptions # <<>>,
         NEW failed \in SUBSET LITS, failed \subseteq ToSet(k.assumptions),
         NEW klause \in Seq(LITS), DistinctLits(klause), klause # <<>>,
         \A i \in 1..Len(klause) : IDX(klause[i]) \in Knows(k),
         NEW resolved \in SUBSET Refs(k), Follows(k, resolved, ToSet(klause)),
         \A M \in Models : failed \subseteq M => ~Satisfies(M, ToSet(klause)),
         NEW new, new = NewLearned(WithFailed(k, failed), klause, resolved),
         NEW c, c = FailedBy(new)
  PROVE  c \in Kittens /\ Static(c) /\ Answered(c) /\ FromUser(c, p, g)
<1>1. k \in Kittens /\ Static(k) /\ FromUser(k, p, g) /\ k.inconsistent = INVALID
      /\ k.failing = INVALID
  BY QuietFacts
<1> DEFINE m == [k EXCEPT !.failed = failed]
           m20 == [k EXCEPT !.failed = failed, !.failing = INVALID, !.status = 20]
           n20 == [new EXCEPT !.status = 20]
<1>2. m \in Kittens /\ m.antecedents = k.antecedents /\ m.klauses = k.klauses /\ m.units = k.units
      /\ m.endOriginal = k.endOriginal
  BY <1>1 DEF Kittens
<1>3. /\ m20 \in Kittens /\ OnlyAnswered(k, m20)
      /\ m20.status = 20 /\ m20.failed = failed /\ m20.failing = INVALID
  BY <1>1 DEF INVALID, Kittens, OnlyAnswered
<1>4. m20 = [m EXCEPT !.status = 20]
  BY <1>1 DEF Kittens
<1> HIDE DEF m, m20
<1>5. Static(m20) /\ FromUser(m20, p, g) /\ Refs(m20) = Refs(k) /\ Originals(m20) = Originals(k)
      /\ \A ref : Lits(m20, ref) = Lits(k, ref) /\ Klause(m20, ref) = Klause(k, ref)
  <2>1. FailedWell(m20)
    BY <1>3 DEF FailedWell, OnlyAnswered
  <2> QED
    BY <1>1, <1>3, <2>1, AnsweredFrame
<1>6. PICK d \in Klauses :
        /\ d.learned /\ d.lits = klause
        /\ d.antecedents = IF m.antecedents THEN resolved ELSE {}
        /\ GrownWith(m, d, TRUE, m.endOriginal, new)
  <2>1. UnitsListed(m, Len(m.klauses))
    BY <1>1, <1>2 DEF Static, Orderly, Clausal, UnitsListed, Klause
  <2>2. resolved \in SUBSET Nat
    BY DEF Refs
  <2>3. new = NewLearned(m, klause, resolved)
    BY DEF m, WithFailed
  <2>4. \E d \in Klauses :
          /\ d.learned /\ d.lits = klause
          /\ d.antecedents = IF m.antecedents THEN resolved ELSE {}
          /\ GrownWith(m, d, TRUE, m.endOriginal, NewLearned(m, klause, resolved))
    BY <1>2, <2>1, <2>2, NewLearnedGrown
  <2> QED
    BY <2>3, <2>4
<1>7. /\ new \in Kittens /\ SameSearch(m, new)
      /\ new.klauses = Append(m.klauses, d)
      /\ new.inconsistent = IF d.lits = <<>> /\ m.inconsistent = INVALID
                            THEN Len(m.klauses) + 1 ELSE m.inconsistent
      /\ UnitsListed(new, Len(m.klauses) + 1)
      /\ Watched(m, Len(m.klauses)) => Watched(new, Len(m.klauses) + 1)
      /\ Len(d.lits) <= 1 => new.watches = m.watches
      /\ new.learned = TRUE /\ new.endOriginal = m.endOriginal
  BY <1>6 DEF GrownWith, Grown
<1>8. /\ m20.status = 20 /\ m20.antecedents = m.antecedents /\ m20.learned = m.learned
      /\ m20.klauses = m.klauses /\ m20.endOriginal = m.endOriginal /\ m20.units = m.units
      /\ m20.watches = m.watches /\ m20.values = m.values /\ m20.level = m.level
      /\ m20.levelOf = m.levelOf /\ m20.reason = m.reason /\ m20.trail = m.trail
      /\ m20.propagated = m.propagated /\ m20.phases = m.phases /\ m20.queue = m.queue
      /\ m20.search = m.search /\ m20.assumptions = m.assumptions /\ m20.failed = m.failed
      /\ m20.failing = m.failing /\ m20.inconsistent = m.inconsistent /\ m20.core = m.core
  BY <1>2, <1>4 DEF Kittens
<1>9. /\ n20 \in Kittens
      /\ n20.status = 20 /\ n20.antecedents = new.antecedents /\ n20.learned = new.learned
      /\ n20.klauses = new.klauses /\ n20.endOriginal = new.endOriginal /\ n20.units = new.units
      /\ n20.watches = new.watches /\ n20.values = new.values /\ n20.level = new.level
      /\ n20.levelOf = new.levelOf /\ n20.reason = new.reason /\ n20.trail = new.trail
      /\ n20.propagated = new.propagated /\ n20.phases = new.phases /\ n20.queue = new.queue
      /\ n20.search = new.search /\ n20.assumptions = new.assumptions /\ n20.failed = new.failed
      /\ n20.failing = new.failing /\ n20.inconsistent = new.inconsistent /\ n20.core = new.core
  BY <1>7 DEF Kittens
<1> HIDE DEF n20
<1>10. SameSearch(m20, n20)
  BY <1>7, <1>8, <1>9 DEF SameSearch
<1>11. UnitsListed(n20, Len(m20.klauses) + 1)
  BY <1>7, <1>8, <1>9 DEF UnitsListed, Klause
<1>12. Watched(m20, Len(m20.klauses)) => Watched(n20, Len(m20.klauses) + 1)
  <2>1. Watched(m20, Len(m20.klauses)) => Watched(m, Len(m.klauses))
    BY <1>8, WatchedFrame
  <2>2. Watched(new, Len(m.klauses) + 1) => Watched(n20, Len(m.klauses) + 1)
    BY <1>9, WatchedFrame
  <2> QED
    BY <1>7, <1>8, <2>1, <2>2
<1>13. GrownWith(m20, d, TRUE, m20.endOriginal, n20)
  BY <1>7, <1>8, <1>9, <1>10, <1>11, <1>12 DEF GrownWith, Grown
<1>14. Longer(m20, klause, n20) /\ Originals(n20) = Originals(m20) /\ Orderly(n20)
  <2>1. /\ Orderly(m20) /\ resolved \in SUBSET Refs(m20)
        /\ \A i \in 1..Len(klause) : IDX(klause[i]) \in Knows(m20)
    BY <1>3, <1>5 DEF Static, OnlyAnswered, Knows
  <2>2. Follows(m20, resolved, ToSet(klause))
    BY <1>5, FollowsFrame
  <2>3. d.antecedents = IF m20.antecedents THEN resolved ELSE {}
    BY <1>6, <1>8
  <2> QED
    BY <1>3, <1>6, <1>13, <2>1, <2>2, <2>3, GrownLearned
<1> DEFINE ref == Len(k.klauses) + 1
<1>15. /\ Len(k.klauses) \in Nat /\ Len(n20.klauses) = ref /\ Refs(n20) = Refs(k) \cup {ref}
       /\ ref \in Nat /\ ref # INVALID /\ Lits(n20, ref) = ToSet(klause)
       /\ \A r \in Refs(k) : Klause(n20, r) = Klause(k, r) /\ Lits(n20, r) = Lits(k, r)
       /\ Watched(n20, Len(n20.klauses))
       /\ n20.inconsistent = INVALID
  <2>1. m20.klauses = k.klauses /\ m20.inconsistent = INVALID
    BY <1>1, <1>3 DEF OnlyAnswered
  <2>2. /\ Len(m20.klauses) \in Nat
        /\ Len(n20.klauses) = Len(m20.klauses) + 1
        /\ Refs(n20) = Refs(m20) \cup {Len(m20.klauses) + 1}
        /\ \A r \in Refs(m20) : Klause(n20, r) = Klause(m20, r) /\ Lits(n20, r) = Lits(m20, r)
        /\ Lits(n20, Len(m20.klauses) + 1) = ToSet(klause)
        /\ n20.inconsistent = IF klause = <<>> /\ m20.inconsistent = INVALID
                              THEN Len(m20.klauses) + 1 ELSE m20.inconsistent
        /\ (Watched(m20, Len(m20.klauses)) => Watched(n20, Len(n20.klauses)))
    BY <1>14 DEF Longer
  <2> QED
    BY <1>5, <2>1, <2>2 DEF Static, INVALID
<1>16. Static(n20)
  BY <1>14, <1>15 DEF Static
<1>17. /\ c \in Kittens /\ OnlyAnswered(n20, c) /\ c.status = 20
       /\ c.failed = n20.failed /\ c.failing = ref
  <2>1. Len(new.klauses) = ref
    BY <1>9, <1>15
  <2>2. ref \in Nat
    BY <1>15
  <2> HIDE DEF ref
  <2>3. c = [[new EXCEPT !.failing = ref] EXCEPT !.status = 20]
    BY <2>1 DEF FailedBy
  <2>4. c \in Kittens /\ c.failing = ref /\ c.status = 20
    <3>1. [[new EXCEPT !.failing = ref] EXCEPT !.status = 20] \in Kittens
      BY <1>7, <2>2 DEF Kittens
    <3> QED
      BY <1>7, <2>3, <3>1 DEF Kittens
  <2>5. /\ c.antecedents = new.antecedents /\ c.learned = new.learned
        /\ c.klauses = new.klauses /\ c.endOriginal = new.endOriginal /\ c.units = new.units
        /\ c.watches = new.watches /\ c.values = new.values /\ c.trail = new.trail
        /\ c.queue = new.queue /\ c.search = new.search /\ c.assumptions = new.assumptions
        /\ c.inconsistent = new.inconsistent /\ c.failed = new.failed
    BY <1>7, <2>3 DEF Kittens
  <2>6. OnlyAnswered(n20, c) /\ c.failed = n20.failed
    BY <1>9, <2>5 DEF OnlyAnswered
  <2> QED
    BY <2>4, <2>6
<1>18. c.failed = failed /\ c.assumptions = k.assumptions /\ c.inconsistent = INVALID
  <2>1. n20.failed = failed
    BY <1>3, <1>10 DEF SameSearch
  <2>2. n20.assumptions = k.assumptions
    BY <1>3, <1>10 DEF SameSearch, OnlyAnswered
  <2> QED
    BY <1>15, <1>17, <2>1, <2>2 DEF OnlyAnswered
<1>19. FailedWell(c)
  BY <1>17, <1>18 DEF FailedWell
<1>20. /\ Static(c) /\ Refs(c) = Refs(n20) /\ Originals(c) = Originals(n20)
       /\ \A r : Klause(c, r) = Klause(n20, r) /\ Lits(c, r) = Lits(n20, r)
  BY <1>16, <1>17, <1>19, AnsweredFrame
<1>21. Originals(c) = Originals(k) /\ Originals(k) \subseteq Refs(k)
  BY <1>5, <1>14, <1>20, QuietFacts
<1>22. FromUser(c, p, g)
  BY <1>1, <1>15, <1>20, <1>21 DEF FromUser
<1>23. ref \in Refs(c) /\ Lits(c, ref) = ToSet(klause) /\ RootSet(c) = {ref}
  BY <1>15, <1>17, <1>18, <1>20 DEF RootSet, Root
<1> HIDE DEF ref
<1>24. Refuted(c, RootSet(c))
  BY <1>18, <1>23 DEF Refuted, SatisfiesAll
<1>25. Refuted(c, Originals(c))
  <2> SUFFICES ASSUME NEW M \in Models, failed \subseteq M, SatisfiesAll(c, M, Originals(c))
               PROVE  FALSE
    BY <1>18 DEF Refuted
  <2>1. SatisfiesAll(c, M, {ref})
    BY <1>20, <1>23, OriginalsImply DEF Static, Orderly, Clausal
  <2> QED
    BY <1>23, <2>1 DEF SatisfiesAll
<1> QED
  BY <1>17, <1>18, <1>20, <1>22, <1>23, <1>24, <1>25 DEF Answered

(* An assumption that others imply to be false. *)
LEMMA FailingTraced ==
  ASSUME NEW k, NEW p, NEW g, Quiet(k, p, g), k.level <= Len(k.assumptions),
         FailedUnits(k) = {}, FailedClashing(k) = {}, FalseAssumptions(k) # {},
         NEW c, c = Refuting(Failing(k))
  PROVE  c \in Kittens /\ Static(c) /\ Answered(c) /\ FromUser(c, p, g)
<1>1. /\ k \in Kittens /\ Static(k) /\ Explained(k) /\ k.failed = {} /\ k.failing = INVALID
      /\ \A i \in 1..Len(k.assumptions) : k.assumptions[i] \in LITS
  BY QuietFacts
<1> DEFINE f == Earliest(k, FalseAssumptions(k))
           s == TraceFailed(k, f)
           failed == k.failed \cup {f} \cup {NOT(s.klause[i]) : i \in 1..Len(s.klause)}
           marked == [k EXCEPT !.failed = failed]
           new == NewLearned(marked, s.klause, s.resolved)
           one == [marked EXCEPT !.failing = CHOOSE ref \in s.resolved : TRUE]
<1>2. Failing(k) = IF Cardinality(s.resolved) = 1 THEN one
                   ELSE [new EXCEPT !.failing = Len(new.klauses)]
  BY DEF Failing, Refuting
<1>3. PICK i \in FalseAssumptions(k) : i \in 1..Len(k.assumptions) /\ f = k.assumptions[i]
  BY <1>1, EarliestIs DEF FalseAssumptions
<1> HIDE DEF f
<1>4. f \in LITS /\ IsFalse(k, f) /\ k.levelOf[IDX(f)] # 0 /\ k.reason[IDX(f)] # INVALID
  BY <1>1, <1>3 DEF FailedUnits, FailedClashing, FalseAssumptions
<1>5. f \in ToSet(k.assumptions) /\ k.assumptions # <<>>
  <2>1. k.assumptions \in Seq(LITS)
    BY <1>1 DEF Kittens
  <2> QED
    BY <1>3, <2>1, SetOfSeq
<1>6. /\ s.klause \in Seq(LITS) /\ DistinctLits(s.klause) /\ s.klause # <<>>
      /\ s.klause[1] = NOT(f) /\ 1 \in 1..Len(s.klause)
      /\ \A j \in 1..Len(s.klause) :
           NOT(s.klause[j]) \in ToSet(k.assumptions) /\ IDX(s.klause[j]) \in Knows(k)
      /\ s.resolved \in SUBSET Refs(k)
      /\ Follows(k, s.resolved, ToSet(s.klause))
  BY <1>4, <1>5, TracedClause
<1> HIDE DEF s
<1>7. failed \subseteq ToSet(k.assumptions) /\ \A j \in 1..Len(s.klause) : NOT(s.klause[j]) \in failed
  BY <1>1, <1>5, <1>6
<1>8. failed \in SUBSET LITS
  <2>1. k.assumptions \in Seq(LITS)
    BY <1>1 DEF Kittens
  <2>2. ToSet(k.assumptions) \subseteq LITS
    BY <2>1, SetOfSeq
  <2> HIDE DEF failed
  <2> QED
    BY <1>7, <2>2
<1> HIDE DEF failed
<1>9. ASSUME NEW M \in Models, failed \subseteq M PROVE ~Satisfies(M, ToSet(s.klause))
  <2> SUFFICES ASSUME NEW l \in ToSet(s.klause), l \in M
               PROVE  FALSE
    BY DEF Satisfies
  <2>1. PICK j \in 1..Len(s.klause) : l = s.klause[j]
    BY <1>6, SetOfSeq
  <2>2. NOT(l) \in M /\ l \in LITS
    BY <1>6, <1>7, <1>9, <2>1, SetOfSeq
  <2> QED
    BY <2>2, ModelFacts
<1>10. CASE Cardinality(s.resolved) = 1
  <2> DEFINE ref == CHOOSE r \in s.resolved : TRUE
  <2>1. IsFiniteSet(s.resolved)
    <3>1. Len(k.klauses) \in Nat
      BY <1>1 DEF Kittens
    <3> DEFINE n == Len(k.klauses)
    <3>2. IsFiniteSet(1..n)
      <4>1. n \in Int /\ 1 \in Int
        BY <3>1
      <4> HIDE DEF n
      <4> QED
        BY <4>1, FS_Interval
    <3>3. IsFiniteSet(Refs(k))
      BY <3>2 DEF Refs
    <3> QED
      BY <1>6, <3>3, FS_Subset
  <2>2. \E x : s.resolved = {x}
    BY <1>10, <2>1, FS_Singleton
  <2>3. s.resolved = {ref}
    BY <2>2
  <2>4. c = [[marked EXCEPT !.failing = ref] EXCEPT !.status = 20]
    BY <1>2, <1>10 DEF Refuting
  <2> HIDE DEF ref
  <2>5. ref \in Refs(k) /\ ref \in Nat /\ ref # INVALID
    BY <1>6, <2>3 DEF Refs, INVALID
  <2>6. c = [k EXCEPT !.failed = failed, !.failing = ref, !.status = 20]
    BY <1>1, <2>4 DEF Kittens
  <2>7. \A M \in Models : failed \subseteq M => ref # INVALID /\ ~Satisfies(M, Lits(k, ref))
    <3> SUFFICES ASSUME NEW M \in Models, failed \subseteq M, Satisfies(M, Lits(k, ref))
                 PROVE  FALSE
      BY <2>5
    <3>1. SatisfiesAll(k, M, s.resolved)
      BY <2>3 DEF SatisfiesAll
    <3> QED
      BY <1>6, <1>9, <3>1 DEF Follows
  <2>8. /\ c \in Kittens /\ OnlyAnswered(k, c)
        /\ c.status = 20 /\ c.failed = failed /\ c.failing = ref
    <3>1. c = FailedWith(k, failed, ref)
      BY <2>6 DEF FailedWith
    <3>2. k \in Kittens /\ failed \in SUBSET LITS /\ ref \in Nat
      BY <1>1, <1>8, <2>5
    <3> QED
      BY <3>1, <3>2, FailedIs
  <2> QED
    BY <1>5, <1>7, <1>8, <2>5, <2>7, <2>8, FailedAnswer
<1>11. CASE Cardinality(s.resolved) # 1
  <2>1. c = FailedBy(new)
    BY <1>2, <1>11 DEF FailedBy, Refuting
  <2>2. new = NewLearned(WithFailed(k, failed), s.klause, s.resolved)
    BY DEF WithFailed
  <2> HIDE DEF new
  <2> DEFINE klause == s.klause
             resolved == s.resolved
  <2>3. /\ klause \in Seq(LITS) /\ DistinctLits(klause) /\ klause # <<>>
        /\ \A j \in 1..Len(klause) : IDX(klause[j]) \in Knows(k)
        /\ resolved \in SUBSET Refs(k)
        /\ Follows(k, resolved, ToSet(klause))
    BY <1>6
  <2>4. \A M \in Models : failed \subseteq M => ~Satisfies(M, ToSet(klause))
    BY <1>9
  <2>5. new = NewLearned(WithFailed(k, failed), klause, resolved)
    BY <2>2
  <2> HIDE DEF klause, resolved
  <2> QED
    BY <1>5, <1>7, <1>8, <2>1, <2>3, <2>4, <2>5, FailingLearned
<1> QED
  BY <1>10, <1>11

LEMMA FailingEffect ==
  ASSUME NEW k, NEW p, NEW g, Quiet(k, p, g), k.level < Len(k.assumptions),
         IsFalse(k, k.assumptions[k.level + 1]),
         NEW c, c = Refuting(Failing(k))
  PROVE  c \in Kittens /\ Static(c) /\ Answered(c) /\ FromUser(c, p, g)
<1>1. k \in Kittens /\ k.level \in Nat /\ Len(k.assumptions) \in Nat
  BY QuietFacts
<1>2. k.level <= Len(k.assumptions)
  BY <1>1
<1>3. FalseAssumptions(k) # {}
  <2>1. k.level + 1 \in 1..Len(k.assumptions)
    BY <1>1
  <2>2. DOMAIN k.assumptions = 1..Len(k.assumptions)
    BY <1>1 DEF Kittens
  <2> QED
    BY <2>1, <2>2 DEF FalseAssumptions
<1> QED
  BY <1>2, <1>3, FailingUnit, FailingClashing, FailingTraced

-----------------------------------------------------------------------------
(* Conflict analysis: the literals of the clauses that are resolved. *)

(* A clause with a place for the UIP. *)
Places == Seq(LITS \cup {0})

AnalyzeStates(k) ==
  [kit : {k}, analyzed : Seq(Vars), klause : Places, jump : Nat, open : Nat,
   resolved : SUBSET Refs(k), uip : LITS \cup {0}]

(* After the place for the UIP the clause has the literals seen on lower
   levels, and one of the highest such level is the first. *)
KlauseGathered(k, A, klause, jump) ==
  /\ klause \in Places /\ Len(klause) \in Nat
  /\ Len(klause) >= 1 /\ klause[1] = 0
  /\ jump \in Nat /\ jump < k.level
  /\ \A i \in 2..Len(klause) :
       /\ klause[i] \in LITS /\ IsFalse(k, klause[i]) /\ IDX(klause[i]) \in A
       /\ k.levelOf[IDX(klause[i])] <= jump
  /\ \A i, j \in 2..Len(klause) : IDX(klause[i]) = IDX(klause[j]) => i = j
  /\ IF Len(klause) > 1 THEN k.levelOf[IDX(klause[2])] = jump ELSE jump = 0
  /\ \A v \in A : v \in Knows(k) /\ v \notin Unassigned(k)
  /\ \A v \in A : k.levelOf[v] < k.level => \E i \in 2..Len(klause) : IDX(klause[i]) = v

Includes(klause, c) ==
  \A i \in 2..Len(klause) : \E j \in 2..Len(c) : c[j] = klause[i]

(* A false literal. *)
LEMMA FalseVariable ==
  ASSUME NEW k \in Kittens, Static(k), NEW lit \in LITS, IsFalse(k, lit)
  PROVE  IDX(lit) \in Vars /\ IDX(lit) \in Knows(k) /\ IDX(lit) \notin Unassigned(k)
<1>1. NOT(lit) \in k.values /\ NOT(lit) \in LITS /\ IDX(NOT(lit)) = IDX(lit) /\ IDX(lit) \in Vars
      /\ NOT(NOT(lit)) = lit /\ (lit = IDX(lit) \/ lit = NOT(IDX(lit)))
  BY LitFacts DEF IsFalse
<1>2. IDX(lit) \in Knows(k)
  BY <1>1 DEF Static, Orderly, ValuesWell
<1>3. NOT(NOT(IDX(lit))) = IDX(lit)
  BY <1>1, LitFacts, VarFacts
<1>4. IDX(lit) \in k.values \/ NOT(IDX(lit)) \in k.values
  BY <1>1, <1>3
<1> QED
  BY <1>1, <1>2, <1>4 DEF Unassigned, IsTrue, IsFalse

(* The literal lit is added to the clause at p, where others move. *)
Placed(klause, n, lit, c, p, g) ==
  /\ c \in Places /\ Len(c) = n + 1 /\ c[1] = 0
  /\ p \in 2 .. n + 1 /\ c[p] = lit
  /\ \A i \in 2 .. n + 1 : i # p => g[i] \in 2..n /\ c[i] = klause[g[i]]
  /\ \A i, j \in 2 .. n + 1 : i # p /\ j # p /\ g[i] = g[j] => i = j
  /\ \A i \in 2..n : \E j \in 2 .. n + 1 : c[j] = klause[i]

LEMMA KlausePlaced ==
  ASSUME NEW k \in Kittens, NEW A, NEW klause, NEW jump, KlauseGathered(k, A, klause, jump),
         NEW lit \in LITS, IsFalse(k, lit), IDX(lit) \notin A, Static(k),
         NEW c, NEW p, NEW g, Placed(klause, Len(klause), lit, c, p, g),
         NEW top \in Nat, jump <= top, top < k.level,
         k.levelOf[IDX(lit)] <= top, k.levelOf[IDX(c[2])] = top
  PROVE  KlauseGathered(k, A \cup {IDX(lit)}, c, top) /\ Includes(klause, c)
<1> DEFINE n == Len(klause)
<1>0. /\ c \in Places /\ Len(c) = n + 1 /\ c[1] = 0
      /\ p \in 2 .. n + 1 /\ c[p] = lit
      /\ \A i \in 2 .. n + 1 : i # p => g[i] \in 2..n /\ c[i] = klause[g[i]]
      /\ \A i, j \in 2 .. n + 1 : i # p /\ j # p /\ g[i] = g[j] => i = j
      /\ \A i \in 2..n : \E j \in 2 .. n + 1 : c[j] = klause[i]
  BY DEF Placed, Places
<1>00. /\ IDX(lit) \in Vars /\ IDX(lit) \in Knows(k) /\ IDX(lit) \notin Unassigned(k)
      /\ \A v \in Vars : k.levelOf[v] \in Nat
  BY FalseVariable DEF Kittens
<1>1. /\ n \in Nat /\ n >= 1 /\ jump \in Nat
      /\ \A i \in 2..n : /\ klause[i] \in LITS /\ IsFalse(k, klause[i]) /\ IDX(klause[i]) \in A
                         /\ k.levelOf[IDX(klause[i])] <= jump
      /\ \A i, j \in 2..n : IDX(klause[i]) = IDX(klause[j]) => i = j
      /\ \A v \in A : v \in Knows(k) /\ v \notin Unassigned(k)
      /\ \A v \in A : k.levelOf[v] < k.level => \E i \in 2..n : IDX(klause[i]) = v
  BY DEF KlauseGathered, Places
<1>000. n = Len(klause)
  OBVIOUS
<1> HIDE DEF n
<1>2. ASSUME NEW i \in 2 .. n + 1
      PROVE  /\ c[i] \in LITS /\ IsFalse(k, c[i]) /\ IDX(c[i]) \in A \cup {IDX(lit)}
             /\ k.levelOf[IDX(c[i])] <= top
  <2>1. CASE i = p
    BY <1>0, <2>1
  <2>2. CASE i # p
    <3>1. g[i] \in 2..n /\ c[i] = klause[g[i]]
      BY <1>0, <2>2
    <3>2. /\ c[i] \in LITS /\ IsFalse(k, c[i]) /\ IDX(c[i]) \in A
          /\ k.levelOf[IDX(c[i])] <= jump
      BY <1>1, <3>1
    <3>3. k.levelOf[IDX(c[i])] \in Nat
      BY <1>00, <3>2, LitFacts
    <3> QED
      BY <1>1, <3>2, <3>3
  <2> QED
    BY <2>1, <2>2
<1>3. ASSUME NEW i \in 2 .. n + 1, NEW j \in 2 .. n + 1, IDX(c[i]) = IDX(c[j])
      PROVE  i = j
  <2>1. \A q \in 2 .. n + 1 : q # p => IDX(c[q]) \in A
    BY <1>1, <1>0
  <2>2. CASE i # p /\ j # p
    <3>1. g[i] \in 2..n /\ g[j] \in 2..n /\ IDX(klause[g[i]]) = IDX(klause[g[j]])
      BY <1>3, <1>0, <2>2
    <3>2. g[i] = g[j]
      BY <1>1, <3>1
    <3> QED
      BY <1>0, <2>2, <3>2
  <2> QED
    BY <1>3, <1>0, <2>1, <2>2
<1>4. ASSUME NEW v \in A \cup {IDX(lit)}
      PROVE  /\ v \in Knows(k) /\ v \notin Unassigned(k)
             /\ k.levelOf[v] < k.level => \E i \in 2 .. n + 1 : IDX(c[i]) = v
  <2>1. CASE v = IDX(lit)
    BY <1>0, <1>00, <2>1
  <2>2. CASE v \in A
    <3>1. ASSUME k.levelOf[v] < k.level
          PROVE  \E i \in 2 .. n + 1 : IDX(c[i]) = v
      <4>1. PICK i \in 2..n : IDX(klause[i]) = v
        BY <1>1, <2>2, <3>1
      <4>2. PICK j \in 2 .. n + 1 : c[j] = klause[i]
        BY <1>0
      <4> QED
        BY <4>1, <4>2
    <3> QED
      BY <1>1, <2>2, <3>1
  <2> QED
    BY <2>1, <2>2
<1>5. n + 1 \in Nat /\ n + 1 > 1
  BY <1>1
<1>6. Includes(klause, c)
  BY <1>000, <1>0 DEF Includes
<1>7. IF n + 1 > 1 THEN k.levelOf[IDX(c[2])] = top ELSE top = 0
  BY <1>5
<1>8. Len(c) = n + 1 /\ c \in Places /\ c[1] = 0 /\ n + 1 >= 1
  BY <1>5, <1>0
<1> QED
  BY <1>2, <1>3, <1>4, <1>5, <1>6, <1>7, <1>8 DEF KlauseGathered, Places

LEMMA KlauseLower ==
  ASSUME NEW k \in Kittens, Static(k), NEW A, NEW klause, NEW jump, KlauseGathered(k, A, klause, jump),
         NEW lit \in LITS, IsFalse(k, lit), IDX(lit) \notin A, k.levelOf[IDX(lit)] <= jump,
         NEW c, c = Append(klause, lit)
  PROVE  KlauseGathered(k, A \cup {IDX(lit)}, c, jump) /\ Includes(klause, c)
<1> DEFINE n == Len(klause)
           g == [i \in 2 .. n + 1 |-> i]
<1>1. /\ klause \in Places /\ n \in Nat /\ n >= 1 /\ klause[1] = 0
      /\ jump \in Nat /\ jump < k.level
      /\ n > 1 => k.levelOf[IDX(klause[2])] = jump
      /\ ~(n > 1) => jump = 0
  BY DEF KlauseGathered, Places
<1>2. /\ IDX(lit) \in Vars /\ IDX(lit) \in Knows(k) /\ IDX(lit) \notin Unassigned(k)
      /\ \A v \in Vars : k.levelOf[v] \in Nat
  BY FalseVariable DEF Kittens
<1>3. /\ c \in Places /\ Len(c) = n + 1 /\ c[n + 1] = lit
      /\ \A i \in 1..n : c[i] = klause[i]
  BY <1>1 DEF Places
<1>4. \A i \in 2 .. n + 1 : i # n + 1 => i \in 2..n /\ i \in 1..n
  BY <1>1
<1>5. \A i \in 2 .. n + 1 : i # n + 1 => g[i] \in 2..n /\ c[i] = klause[g[i]]
  BY <1>3, <1>4
<1>6. \A i, j \in 2 .. n + 1 : i # n + 1 /\ j # n + 1 /\ g[i] = g[j] => i = j
  OBVIOUS
<1>7. \A i \in 2..n : \E j \in 2 .. n + 1 : c[j] = klause[i]
  <2>1. \A i \in 2..n : i \in 1..n /\ i \in 2 .. n + 1
    BY <1>1
  <2> QED
    BY <1>3, <2>1
<1>8. c[1] = 0 /\ n + 1 \in 2 .. n + 1
  BY <1>1, <1>3
<1>9. k.levelOf[IDX(lit)] \in Nat
  BY <1>2
<1>10. k.levelOf[IDX(c[2])] = jump
  <2>1. CASE n > 1
    <3>1. 2 \in 1..n
      BY <1>1, <2>1
    <3> QED
      BY <1>1, <1>3, <2>1, <3>1
  <2>2. CASE n = 1
    <3>1. c[2] = lit /\ jump = 0
      BY <1>1, <1>3, <2>2
    <3> QED
      BY <1>9, <3>1
  <2>3. n > 1 \/ n = 1
    <3>1. n \in Nat /\ n >= 1
      BY <1>1
    <3> HIDE DEF n
    <3> QED
      BY <3>1
  <2> QED
    BY <2>1, <2>2, <2>3
<1>11. jump <= jump
  BY <1>1
<1> HIDE DEF n, g
<1>12. Placed(klause, n, lit, c, n + 1, g)
  BY <1>3, <1>5, <1>6, <1>7, <1>8 DEF Placed, Places
<1>13. Placed(klause, Len(klause), lit, c, n + 1, g)
  BY <1>12 DEF n
<1>14. jump \in Nat /\ jump < k.level
  BY <1>1
<1> QED
  BY <1>10, <1>11, <1>13, <1>14, KlausePlaced

LEMMA KlauseHigher ==
  ASSUME NEW k \in Kittens, Static(k), NEW A, NEW klause, NEW jump, KlauseGathered(k, A, klause, jump),
         NEW lit \in LITS, IsFalse(k, lit), IDX(lit) \notin A, k.levelOf[IDX(lit)] > jump,
         k.levelOf[IDX(lit)] < k.level,
         NEW c, c = IF Len(klause) > 1 THEN Append([klause EXCEPT ![2] = lit], klause[2])
                    ELSE Append(klause, lit)
  PROVE  KlauseGathered(k, A \cup {IDX(lit)}, c, k.levelOf[IDX(lit)]) /\ Includes(klause, c)
<1> DEFINE n == Len(klause)
           g == [i \in 2 .. n + 1 |-> IF i = n + 1 THEN 2 ELSE i]
           top == k.levelOf[IDX(lit)]
<1>1. /\ klause \in Places /\ n \in Nat /\ n >= 1 /\ klause[1] = 0
      /\ jump \in Nat /\ jump < k.level
  BY DEF KlauseGathered, Places
<1>2. /\ IDX(lit) \in Vars /\ IDX(lit) \in Knows(k) /\ IDX(lit) \notin Unassigned(k)
      /\ \A v \in Vars : k.levelOf[v] \in Nat
  BY FalseVariable DEF Kittens
<1>3. /\ c \in Places /\ Len(c) = n + 1 /\ c[2] = lit /\ c[1] = klause[1]
      /\ \A i \in 3..n : c[i] = klause[i]
      /\ n > 1 => c[n + 1] = klause[2]
  <2>1. CASE n > 1
    <3> DEFINE changed == [klause EXCEPT ![2] = lit]
    <3>1. 2 \in 1..n /\ klause[2] \in LITS \cup {0} /\ 1 \in 1..n /\ \A i \in 3..n : i \in 1..n
      BY <1>1, <2>1 DEF Places
    <3>2. changed \in Places /\ Len(changed) = n
      BY <1>1, <3>1 DEF Places
    <3>3. changed[2] = lit /\ changed[1] = klause[1] /\ \A i \in 3..n : changed[i] = klause[i]
      BY <1>1, <3>1 DEF Places
    <3>4. c = Append(changed, klause[2])
      BY <2>1
    <3> HIDE DEF changed
    <3> DEFINE e == klause[2]
               E == LITS \cup {0}
    <3>0. e \in E /\ changed \in Seq(E) /\ Len(changed) = n /\ c = Append(changed, e)
      BY <3>1, <3>2, <3>4 DEF Places
    <3> HIDE DEF e, E
    <3>5. \A i \in 1..n : c[i] = changed[i]
      BY <1>1, <3>0
    <3>6. c \in Seq(E) /\ Len(c) = n + 1 /\ c[n + 1] = e
      <4>1. Append(changed, e) \in Seq(E) /\ Len(Append(changed, e)) = Len(changed) + 1
            /\ Append(changed, e)[Len(changed) + 1] = e
        BY <3>0, AppendProperties
      <4> QED
        BY <3>0, <4>1
    <3> USE DEF e, E, Places
    <3> QED
      BY <3>1, <3>3, <3>5, <3>6
  <2>2. CASE n = 1
    <3>1. c = Append(klause, lit)
      BY <2>2
    <3>2. c \in Places /\ Len(c) = n + 1 /\ c[n + 1] = lit /\ c[1] = klause[1]
      BY <1>1, <3>1 DEF Places
    <3> QED
      BY <2>2, <3>2
  <2>3. n > 1 \/ n = 1
    <3>1. n \in Nat /\ n >= 1
      BY <1>1
    <3> HIDE DEF n
    <3> QED
      BY <3>1
  <2> QED
    BY <2>1, <2>2, <2>3
<1>4. \A i \in 2 .. n + 1 : i # 2 => n > 1 /\ (i = n + 1 \/ i \in 3..n)
  BY <1>1
<1>5. ASSUME NEW i \in 2 .. n + 1, i # 2 PROVE g[i] \in 2..n /\ c[i] = klause[g[i]]
  <2>1. CASE i = n + 1
    <3>1. g[i] = 2 /\ 2 \in 2..n
      BY <1>1, <1>4, <1>5, <2>1
    <3> QED
      BY <1>3, <1>4, <1>5, <2>1, <3>1
  <2>2. CASE i # n + 1
    <3>1. i \in 3..n /\ i \in 2..n
      BY <1>1, <1>4, <1>5, <2>2
    <3>2. g[i] = i
      BY <2>2
    <3> QED
      BY <1>3, <3>1, <3>2
  <2> QED
    BY <2>1, <2>2
<1>6. \A i, j \in 2 .. n + 1 : i # 2 /\ j # 2 /\ g[i] = g[j] => i = j
  OBVIOUS
<1>7. ASSUME NEW i \in 2..n PROVE \E j \in 2 .. n + 1 : c[j] = klause[i]
  <2>1. CASE i = 2
    <3>1. n > 1 /\ n + 1 \in 2 .. n + 1
      BY <1>1, <2>1
    <3> QED
      BY <1>3, <2>1, <3>1
  <2>2. CASE i # 2
    <3>1. i \in 3..n /\ i \in 2 .. n + 1
      BY <1>1, <2>2
    <3> QED
      BY <1>3, <3>1
  <2> QED
    BY <2>1, <2>2
<1>8. c[1] = 0 /\ 2 \in 2 .. n + 1 /\ jump <= top /\ top \in Nat /\ top < k.level
      /\ top <= top /\ k.levelOf[IDX(c[2])] = top
  BY <1>1, <1>2, <1>3
<1> HIDE DEF n, g, top
<1>9. Placed(klause, n, lit, c, 2, g)
  BY <1>3, <1>5, <1>6, <1>7, <1>8 DEF Placed, Places
<1>10. Placed(klause, Len(klause), lit, c, 2, g)
  BY <1>9 DEF n
<1>11. k.levelOf[IDX(lit)] <= top
  BY <1>8 DEF top
<1>12. jump <= top /\ top \in Nat /\ top < k.level
      /\ k.levelOf[IDX(c[2])] = top
  BY <1>8
<1>13. KlauseGathered(k, A \cup {IDX(lit)}, c, top) /\ Includes(klause, c)
  BY <1>10, <1>11, <1>12, KlausePlaced
<1> QED
  BY <1>13 DEF top

LEMMA KlauseCurrent ==
  ASSUME NEW k \in Kittens, Static(k), NEW A, NEW klause, NEW jump, KlauseGathered(k, A, klause, jump),
         NEW lit \in LITS, IsFalse(k, lit), k.levelOf[IDX(lit)] = k.level
  PROVE  KlauseGathered(k, A \cup {IDX(lit)}, klause, jump) /\ Includes(klause, klause)
<1>1. IDX(lit) \in Knows(k) /\ IDX(lit) \notin Unassigned(k)
  BY FalseVariable
<1>2. ~(k.levelOf[IDX(lit)] < k.level)
  BY DEF Kittens
<1> QED
  BY <1>1, <1>2 DEF KlauseGathered, Includes

-----------------------------------------------------------------------------
(* Conflict analysis: the literals that are open. *)

(* The seen ones of the current level among the first n of the trail. *)
Current(k, A, n) ==
  {q \in 1..n : IDX(k.trail[q]) \in A /\ k.levelOf[IDX(k.trail[q])] = k.level}

LEMMA CurrentFinite ==
  ASSUME NEW k, NEW A, NEW n \in Nat
  PROVE  IsFiniteSet(Current(k, A, n)) /\ Cardinality(Current(k, A, n)) \in Nat
<1>1. IsFiniteSet(1..n)
  <2>1. n \in Int /\ 1 \in Int
    OBVIOUS
  <2> QED
    BY <2>1, FS_Interval
<1>2. Current(k, A, n) \subseteq 1..n
  BY DEF Current
<1>3. IsFiniteSet(Current(k, A, n))
  BY <1>1, <1>2, FS_Subset
<1> QED
  BY <1>3, FS_CardinalityType

LEMMA CurrentGrows ==
  ASSUME NEW k \in Kittens, Static(k), Explained(k), NEW A, NEW n \in 0..Len(k.trail),
         NEW q \in 1..n, NEW v, v = IDX(k.trail[q]), v \notin A, k.levelOf[v] = k.level
  PROVE  Cardinality(Current(k, A \cup {v}, n)) = Cardinality(Current(k, A, n)) + 1
<1>1. /\ Len(k.trail) \in Nat
      /\ \A i, j \in 1..Len(k.trail) : IDX(k.trail[i]) = IDX(k.trail[j]) => i = j
  BY TrailDistinct
<1>2. n \in Nat /\ \A i \in 1..n : i \in 1..Len(k.trail)
  BY <1>1
<1>3. q \notin Current(k, A, n)
  BY DEF Current
<1>4. Current(k, A \cup {v}, n) = Current(k, A, n) \cup {q}
  <2>1. \A i \in 1..n : IDX(k.trail[i]) = v => i = q
    BY <1>1, <1>2
  <2> QED
    BY <2>1 DEF Current
<1>5. IsFiniteSet(Current(k, A, n))
  BY <1>2, CurrentFinite
<1>6. Cardinality(Current(k, A, n) \cup {q}) = Cardinality(Current(k, A, n)) + 1
  BY <1>3, <1>5, FS_AddElement
<1> QED
  BY <1>4, <1>6

LEMMA CurrentSame ==
  ASSUME NEW k, NEW A, NEW n, NEW v, k.levelOf[v] # k.level
  PROVE  Current(k, A \cup {v}, n) = Current(k, A, n)
BY DEF Current

(* The last one is passed. *)
LEMMA CurrentPassed ==
  ASSUME NEW k, NEW A, NEW m \in Nat \ {0}
  PROVE  IF m \in Current(k, A, m)
         THEN Cardinality(Current(k, A, m - 1)) = Cardinality(Current(k, A, m)) - 1
         ELSE Current(k, A, m - 1) = Current(k, A, m)
<1>1. m - 1 \in Nat /\ m \notin 1 .. m - 1 /\ \A q : q \in 1..m <=> q \in 1 .. m - 1 \/ q = m
  OBVIOUS
<1>2. CASE m \in Current(k, A, m)
  <2>1. Current(k, A, m) = Current(k, A, m - 1) \cup {m} /\ m \notin Current(k, A, m - 1)
    BY <1>1, <1>2 DEF Current
  <2>2. IsFiniteSet(Current(k, A, m - 1)) /\ Cardinality(Current(k, A, m - 1)) \in Nat
    BY <1>1, CurrentFinite
  <2>3. Cardinality(Current(k, A, m - 1) \cup {m}) = Cardinality(Current(k, A, m - 1)) + 1
    BY <2>1, <2>2, FS_AddElement
  <2> QED
    BY <1>2, <2>1, <2>2, <2>3
<1>3. CASE m \notin Current(k, A, m)
  BY <1>1, <1>3 DEF Current
<1> QED
  BY <1>2, <1>3

Gathered(k, n, s) ==
  /\ s \in AnalyzeStates(k)
  /\ s.open = Cardinality(Current(k, ToSet(s.analyzed), n))
  /\ KlauseGathered(k, ToSet(s.analyzed), s.klause, s.jump)

More(s, c) ==
  /\ ToSet(s.analyzed) \subseteq ToSet(c.analyzed)
  /\ Includes(s.klause, c.klause)
  /\ c.resolved = s.resolved /\ c.uip = s.uip
  /\ s.open <= c.open

(* What the literals of a clause that is resolved are like. *)
Ready(k, A, n, l) ==
  \/ IDX(l) \in A
  \/ IsFalse(k, l) /\ (k.levelOf[IDX(l)] = k.level => \E q \in 1..n : k.trail[q] = NOT(l))

WithSeen(s, v, klause, jump, open) ==
  [s EXCEPT !.analyzed = Append(@, v), !.klause = klause, !.jump = jump, !.open = open]

SeenFields(k, s, v, klause, jump, open, c) ==
  /\ c \in AnalyzeStates(k) /\ c.klause = klause /\ c.jump = jump /\ c.open = open
  /\ c.resolved = s.resolved /\ c.uip = s.uip
  /\ ToSet(c.analyzed) = ToSet(s.analyzed) \cup {v}

LEMMA WithSeenFields ==
  ASSUME NEW k, NEW s \in AnalyzeStates(k), NEW v \in Vars,
         NEW klause \in Places, NEW jump \in Nat, NEW open \in Nat,
         NEW c, c = WithSeen(s, v, klause, jump, open)
  PROVE  SeenFields(k, s, v, klause, jump, open, c)
<1>1. /\ s.analyzed \in Seq(Vars) /\ s.resolved \in SUBSET Refs(k) /\ s.uip \in LITS \cup {0}
      /\ s.kit \in {k}
  BY DEF AnalyzeStates
<1>2. Append(s.analyzed, v) \in Seq(Vars) /\ ToSet(Append(s.analyzed, v)) = ToSet(s.analyzed) \cup {v}
  BY <1>1, SetOfAppend
<1> DEFINE analyzed == Append(s.analyzed, v)
<1>3. c = [s EXCEPT !.analyzed = analyzed, !.klause = klause, !.jump = jump, !.open = open]
  BY DEF WithSeen
<1>4. analyzed \in Seq(Vars) /\ ToSet(analyzed) = ToSet(s.analyzed) \cup {v}
  BY <1>2
<1> HIDE DEF analyzed
<1>5. /\ c.klause = klause /\ c.jump = jump /\ c.open = open
      /\ c.resolved = s.resolved /\ c.uip = s.uip /\ c.analyzed = analyzed
  BY <1>3 DEF AnalyzeStates
<1>6. c \in AnalyzeStates(k)
  BY <1>3, <1>4 DEF AnalyzeStates
<1> QED
  BY <1>4, <1>5, <1>6 DEF SeenFields

LEMMA GatherLiteral ==
  ASSUME NEW k \in Kittens, Static(k), Explained(k), NEW n \in 0..Len(k.trail),
         NEW s, Gathered(k, n, s), NEW lit \in LITS, Ready(k, ToSet(s.analyzed), n, lit),
         NEW c, c = AnalyzeLiteral(s, lit)
  PROVE  Gathered(k, n, c) /\ More(s, c) /\ IDX(lit) \in ToSet(c.analyzed)
<1> DEFINE v == IDX(lit)
           A == ToSet(s.analyzed)
           level == k.levelOf[v]
<1>1. /\ s \in AnalyzeStates(k) /\ s.kit = k
      /\ s.open = Cardinality(Current(k, A, n)) /\ s.open \in Nat
      /\ s.jump \in Nat /\ s.klause \in Places
      /\ KlauseGathered(k, A, s.klause, s.jump)
  BY DEF Gathered, AnalyzeStates
<1>2. k.level \in Nat /\ v \in Vars
  BY LitFacts DEF Kittens
<1>3. CASE v \in A
  <2>1. c = s
    BY <1>3 DEF AnalyzeLiteral
  <2>2. Includes(s.klause, s.klause)
    BY DEF Includes
  <2>3. s.open <= s.open
    BY <1>1
  <2> QED
    BY <1>3, <2>1, <2>2, <2>3 DEF More
<1>4. CASE v \notin A
  <2>1. /\ IsFalse(k, lit)
        /\ level = k.level => \E q \in 1..n : k.trail[q] = NOT(lit)
    BY <1>4 DEF Ready
  <2>2. level \in Nat /\ level <= k.level
    BY <2>1, FalseBound
  <2>3. CASE level = k.level
    <3>1. c = WithSeen(s, v, s.klause, s.jump, s.open + 1)
      <4>1. c = [[s EXCEPT !.analyzed = Append(@, v)] EXCEPT !.open = @ + 1]
        <5>1. ~(level < k.level)
          BY <1>2, <2>3
        <5> QED
          BY <1>1, <1>4, <2>3, <5>1 DEF AnalyzeLiteral
      <4> QED
        BY <1>1, <4>1 DEF WithSeen, AnalyzeStates
    <3>2. s.open + 1 \in Nat /\ s.open <= s.open + 1
      BY <1>1
    <3> DEFINE open == s.open + 1
    <3> HIDE DEF open
    <3>3. /\ c \in AnalyzeStates(k) /\ c.klause = s.klause /\ c.jump = s.jump /\ c.open = open
          /\ c.resolved = s.resolved /\ c.uip = s.uip /\ ToSet(c.analyzed) = A \cup {v}
      <4>1. c = WithSeen(s, v, s.klause, s.jump, open) /\ open \in Nat
        BY <3>1, <3>2 DEF open
      <4> DEFINE klause == s.klause
                 jump == s.jump
      <4>2. s \in AnalyzeStates(k) /\ klause \in Places /\ jump \in Nat
            /\ c = WithSeen(s, v, klause, jump, open)
        BY <1>1, <4>1
      <4> HIDE DEF klause, jump, v
      <4>3. SeenFields(k, s, v, klause, jump, open, c)
        BY <1>2, <4>1, <4>2, WithSeenFields
      <4> QED
        BY <4>3 DEF SeenFields, klause, jump
    <3>4. PICK q \in 1..n : k.trail[q] = NOT(lit)
      BY <2>1, <2>3
    <3>5. IDX(k.trail[q]) = v
      BY <3>4, LitFacts
    <3>6. Cardinality(Current(k, A \cup {v}, n)) = Cardinality(Current(k, A, n)) + 1
      BY <1>4, <2>3, <3>5, CurrentGrows
    <3>7. KlauseGathered(k, A \cup {v}, s.klause, s.jump) /\ Includes(s.klause, s.klause)
      BY <1>1, <2>1, <2>3, KlauseCurrent
    <3>8. Gathered(k, n, c)
      <4>1. c.open = Cardinality(Current(k, A \cup {v}, n))
        BY <1>1, <3>3, <3>6 DEF open
      <4> HIDE DEF A, v
      <4> QED
        BY <3>3, <3>7, <4>1 DEF Gathered
    <3>9. More(s, c)
      BY <3>2, <3>3, <3>7 DEF More, open
    <3> QED
      BY <3>3, <3>8, <3>9
  <2>4. CASE level < k.level
    <3>1. Current(k, A \cup {v}, n) = Current(k, A, n)
      <4>1. k.levelOf[v] # k.level
        BY <2>2, <2>4
      <4> QED
        BY <4>1, CurrentSame
    <3>2. PICK klause, jump :
            /\ c = WithSeen(s, v, klause, jump, s.open)
            /\ KlauseGathered(k, A \cup {v}, klause, jump) /\ Includes(s.klause, klause)
      <4>1. CASE level > s.jump
        <5> DEFINE klause == IF Len(s.klause) > 1 THEN Append([s.klause EXCEPT ![2] = lit], s.klause[2])
                             ELSE Append(s.klause, lit)
        <5>1. c = [[s EXCEPT !.analyzed = Append(@, v)] EXCEPT !.jump = level, !.klause = klause]
          BY <1>1, <1>4, <2>2, <2>4, <4>1 DEF AnalyzeLiteral
        <5>2. KlauseGathered(k, A \cup {v}, klause, level) /\ Includes(s.klause, klause)
          BY <1>1, <1>4, <2>1, <2>4, <4>1, KlauseHigher
        <5> HIDE DEF klause
        <5>3. c = WithSeen(s, v, klause, level, s.open)
          BY <1>1, <5>1 DEF WithSeen, AnalyzeStates
        <5> QED
          BY <5>2, <5>3
      <4>2. CASE ~(level > s.jump)
        <5> DEFINE klause == Append(s.klause, lit)
        <5>1. c = [[s EXCEPT !.analyzed = Append(@, v)] EXCEPT !.klause = klause]
          BY <1>1, <1>4, <2>2, <2>4, <4>2 DEF AnalyzeLiteral
        <5>2. level <= s.jump
          BY <1>1, <2>2, <4>2
        <5>3. KlauseGathered(k, A \cup {v}, klause, s.jump) /\ Includes(s.klause, klause)
          BY <1>1, <1>4, <2>1, <5>2, KlauseLower
        <5> HIDE DEF klause
        <5>4. c = WithSeen(s, v, klause, s.jump, s.open)
          BY <1>1, <5>1 DEF WithSeen, AnalyzeStates
        <5> QED
          BY <5>3, <5>4
      <4> QED
        BY <4>1, <4>2
    <3>3. klause \in Places /\ jump \in Nat
      BY <3>2 DEF KlauseGathered
    <3>4. /\ c \in AnalyzeStates(k) /\ c.klause = klause /\ c.jump = jump /\ c.open = s.open
          /\ c.resolved = s.resolved /\ c.uip = s.uip /\ ToSet(c.analyzed) = A \cup {v}
      <4> DEFINE open == s.open
      <4>1. s \in AnalyzeStates(k) /\ open \in Nat /\ c = WithSeen(s, v, klause, jump, open)
        BY <1>1, <3>2
      <4> HIDE DEF open, v
      <4>2. SeenFields(k, s, v, klause, jump, open, c)
        BY <1>2, <3>3, <4>1, WithSeenFields
      <4> QED
        BY <4>2 DEF SeenFields, open
    <3>5. Gathered(k, n, c)
      <4> HIDE DEF A, v
      <4> QED
        BY <1>1, <3>1, <3>2, <3>4 DEF Gathered
    <3>6. More(s, c)
      <4>1. s.open <= s.open
        BY <1>1
      <4> QED
        BY <3>2, <3>4, <4>1 DEF More
    <3> QED
      BY <3>4, <3>5, <3>6
  <2> QED
    BY <1>2, <2>2, <2>3, <2>4
<1> QED
  BY <1>3, <1>4

(* All literals of a clause. *)
LEMMA GatherFold ==
  ASSUME NEW k \in Kittens, Static(k), Explained(k), NEW n \in 0..Len(k.trail),
         NEW base, Gathered(k, n, base), NEW lits \in Seq(LITS),
         \A i \in 1..Len(lits) : Ready(k, ToSet(base.analyzed), n, lits[i]),
         NEW c, c = FoldLeft(AnalyzeLiteral, base, lits)
  PROVE  Gathered(k, n, c) /\ More(base, c) /\ \A i \in 1..Len(lits) : IDX(lits[i]) \in ToSet(c.analyzed)
<1> DEFINE len == Len(lits)
           State(j, s) == /\ Gathered(k, n, s) /\ More(base, s)
                          /\ \A i \in 1..len : i <= j => IDX(lits[i]) \in ToSet(s.analyzed)
           States(j) == {s \in AnalyzeStates(k) : State(j, s)}
           Inv == [j \in 0..len |-> States(j)]
<1>1. len \in Nat /\ \A i \in 1..len : lits[i] \in LITS
  OBVIOUS
<1>2. base \in Inv[0]
  <2>1. base \in AnalyzeStates(k) /\ base.open \in Nat
    BY DEF Gathered, AnalyzeStates
  <2>2. More(base, base)
    BY <2>1 DEF More, Includes
  <2>3. State(0, base)
    BY <1>1, <2>2
  <2>4. 0 \in 0..len
    BY <1>1
  <2> HIDE DEF State
  <2> QED
    BY <2>1, <2>3, <2>4
<1>3. ASSUME NEW j \in 1..len, NEW s \in Inv[j - 1]
      PROVE  AnalyzeLiteral(s, lits[j]) \in Inv[j]
  <2>1. j - 1 \in 0..len /\ j \in 0..len /\ \A i \in 1..len : i <= j => i <= j - 1 \/ i = j
    BY <1>1
  <2>2. State(j - 1, s)
    <3> HIDE DEF State
    <3> QED
      BY <2>1
  <2> DEFINE d == AnalyzeLiteral(s, lits[j])
  <2>3. Ready(k, ToSet(s.analyzed), n, lits[j])
    <3>1. ToSet(base.analyzed) \subseteq ToSet(s.analyzed)
      BY <2>2 DEF More
    <3>2. Ready(k, ToSet(base.analyzed), n, lits[j])
      OBVIOUS
    <3> QED
      BY <3>1, <3>2 DEF Ready
  <2>4. Gathered(k, n, d) /\ More(s, d) /\ IDX(lits[j]) \in ToSet(d.analyzed)
    BY <1>1, <2>2, <2>3, GatherLiteral
  <2> HIDE DEF d
  <2>5. More(base, d)
    <3>1. base.open \in Nat /\ s.open \in Nat /\ d.open \in Nat
      BY <2>2, <2>4 DEF Gathered, AnalyzeStates
    <3>2. base.open <= s.open /\ s.open <= d.open
      BY <2>2, <2>4 DEF More
    <3>3. base.open <= d.open
      BY <3>1, <3>2
    <3>4. Includes(base.klause, d.klause)
      <4>1. Includes(base.klause, s.klause) /\ Includes(s.klause, d.klause)
        BY <2>2, <2>4 DEF More
      <4> QED
        BY <4>1 DEF Includes
    <3> QED
      BY <2>2, <2>4, <3>3, <3>4 DEF More
  <2>6. \A i \in 1..len : i <= j => IDX(lits[i]) \in ToSet(d.analyzed)
    BY <2>1, <2>2, <2>4 DEF More
  <2>7. State(j, d) /\ d \in AnalyzeStates(k)
    BY <2>4, <2>5, <2>6 DEF Gathered
  <2> HIDE DEF State
  <2>8. d \in Inv[j]
    BY <2>1, <2>7
  <2> QED
    BY <2>8 DEF d
<1> HIDE DEF Inv
<1>4. c \in Inv[len]
  BY <1>2, <1>3, AnalyzingInduction
<1>5. State(len, c)
  <2>1. len \in 0..len
    BY <1>1
  <2> HIDE DEF State
  <2> QED
    BY <1>4, <2>1 DEF Inv
<1> QED
  BY <1>1, <1>5

-----------------------------------------------------------------------------
(* Conflict analysis: going back to the first unique implication point. *)

(* The literals of a clause were added to what was seen. *)
Resolved(k, n, s, ref, c) ==
  /\ Gathered(k, n, c)
  /\ ToSet(s.analyzed) \subseteq ToSet(c.analyzed)
  /\ Includes(s.klause, c.klause)
  /\ c.resolved = s.resolved \cup {ref} /\ c.uip = s.uip
  /\ s.open <= c.open
  /\ \A l \in Lits(k, ref) : IDX(l) \in ToSet(c.analyzed)

LEMMA ResolveReason ==
  ASSUME NEW k \in Kittens, Static(k), Explained(k), NEW n \in 0..Len(k.trail),
         NEW s, Gathered(k, n, s), NEW ref \in Refs(k),
         \A l \in Lits(k, ref) : Ready(k, ToSet(s.analyzed), n, l)
  PROVE  Resolved(k, n, s, ref, AnalyzeReason(s, ref))
<1> DEFINE lits == Klause(k, ref).lits
           base == [s EXCEPT !.resolved = @ \cup {ref}]
           c == AnalyzeReason(s, ref)
<1>1. /\ lits \in Seq(LITS) /\ Lits(k, ref) = {lits[i] : i \in 1..Len(lits)}
  BY KlauseType
<1>2. s \in AnalyzeStates(k) /\ s.kit = k /\ s.resolved \in SUBSET Refs(k)
  BY DEF Gathered, AnalyzeStates
<1>3. c = FoldLeft(AnalyzeLiteral, base, lits)
  BY <1>2 DEF AnalyzeReason
<1>4. /\ base \in AnalyzeStates(k) /\ base.analyzed = s.analyzed /\ base.klause = s.klause
      /\ base.jump = s.jump /\ base.open = s.open /\ base.uip = s.uip
      /\ base.resolved = s.resolved \cup {ref}
  BY <1>2 DEF AnalyzeStates
<1> HIDE DEF base, c
<1>5. Gathered(k, n, base)
  BY <1>4 DEF Gathered
<1>6. \A i \in 1..Len(lits) : Ready(k, ToSet(base.analyzed), n, lits[i])
  BY <1>1, <1>4
<1> HIDE DEF lits
<1>7. Gathered(k, n, c) /\ More(base, c) /\ \A i \in 1..Len(lits) : IDX(lits[i]) \in ToSet(c.analyzed)
  BY <1>1, <1>3, <1>5, <1>6, GatherFold
<1>8. \A l \in Lits(k, ref) : IDX(l) \in ToSet(c.analyzed)
  BY <1>1, <1>7
<1>9. Resolved(k, n, s, ref, c)
  BY <1>4, <1>7, <1>8 DEF More, Resolved
<1> QED
  BY <1>9 DEF c

(* The model makes the literals of the clause false that were seen on lower levels. *)
Dropped(klause, M) == \A i \in 2..Len(klause) : klause[i] \notin M

LEMMA DroppedLess ==
  ASSUME NEW klause, NEW c, Includes(klause, c), NEW M, Dropped(c, M)
  PROVE  Dropped(klause, M)
BY DEF Includes, Dropped

LEMMA DroppedLevel ==
  ASSUME NEW k \in Kittens, Static(k), Explained(k), NEW A, NEW klause, NEW jump,
         KlauseGathered(k, A, klause, jump), NEW M \in Models, Dropped(klause, M),
         NEW l \in LITS, l \in M, IsFalse(k, l), IDX(l) \in A
  PROVE  k.levelOf[IDX(l)] = k.level
<1>1. k.levelOf[IDX(l)] \in Nat /\ k.levelOf[IDX(l)] <= k.level /\ k.level \in Nat
  BY FalseBound
<1>2. ASSUME k.levelOf[IDX(l)] < k.level PROVE FALSE
  <2>1. PICK i \in 2..Len(klause) : IDX(klause[i]) = IDX(l)
    BY <1>2 DEF KlauseGathered
  <2>2. klause[i] \in LITS /\ IsFalse(k, klause[i]) /\ klause[i] \notin M
    BY <2>1 DEF KlauseGathered, Dropped
  <2>3. klause[i] = NOT(l)
    BY <2>1, <2>2, SameIndex
  <2>4. l \in k.values /\ NOT(l) \in k.values
    BY <2>2, <2>3, LitFacts DEF IsFalse
  <2> QED
    BY <2>4 DEF Static, Orderly, ValuesWell
<1> QED
  BY <1>1, <1>2

(* One of the open literals is false if the clauses are true, and the literals
   that were seen on lower levels are false. *)
OneOpen(k, A, m, klause, resolved) ==
  \A M \in Models : SatisfiesAll(k, M, resolved) /\ Dropped(klause, M) =>
    \E q \in Current(k, A, m) : k.trail[q] \notin M

Unique(k, uip, klause, resolved) ==
  /\ \E q \in 1..Len(k.trail) : uip = k.trail[q]
  /\ k.levelOf[IDX(uip)] = k.level
  /\ \A M \in Models : SatisfiesAll(k, M, resolved) /\ Dropped(klause, M) => uip \notin M

AnalyzeState(k, m, s) ==
  /\ s \in AnalyzeStates(k)
  /\ KlauseGathered(k, ToSet(s.analyzed), s.klause, s.jump)
  /\ IF s.uip = 0
     THEN /\ Gathered(k, m, s) /\ s.open > 0
          /\ OneOpen(k, ToSet(s.analyzed), m, s.klause, s.resolved)
     ELSE Unique(k, s.uip, s.klause, s.resolved)

(* The clause that is false. *)
LEMMA AnalyzeFirst ==
  ASSUME NEW k \in Kittens, Static(k), NEW bad, Searching(k, bad), bad # INVALID, k.level > 0,
         NEW base, base = [kit |-> k, analyzed |-> <<>>, klause |-> << 0 >>, jump |-> 0,
                           open |-> 0, resolved |-> {}, uip |-> 0]
  PROVE  AnalyzeState(k, Len(k.trail), AnalyzeReason(base, bad))
<1> DEFINE n == Len(k.trail)
           c == AnalyzeReason(base, bad)
<1>1. /\ Explained(k) /\ bad \in Refs(k) /\ Falsified(k, Lits(k, bad))
      /\ \E l \in Lits(k, bad) : k.levelOf[IDX(l)] = k.level
  BY DEF Searching, ConflictWell
<1>2. n \in Nat /\ k.level \in Nat
  BY DEF Kittens
<1>3. Gathered(k, n, base)
  <2>1. base \in AnalyzeStates(k)
    <3>1. <<0>> \in Places /\ <<>> \in Seq(Vars)
      BY DEF Places
    <3> QED
      BY <3>1 DEF AnalyzeStates
  <2>2. base.open = Cardinality(Current(k, ToSet(base.analyzed), n))
    <3>1. ToSet(base.analyzed) = {}
      BY DEF ToSet
    <3>2. Current(k, {}, n) = {}
      BY DEF Current
    <3>3. Cardinality(Current(k, ToSet(base.analyzed), n)) = 0
      BY <3>1, <3>2, FS_EmptySet
    <3> QED
      BY <3>3
  <2>3. KlauseGathered(k, ToSet(base.analyzed), base.klause, base.jump)
    <3>1. ToSet(base.analyzed) = {} /\ base.klause = <<0>> /\ base.jump = 0
      BY DEF ToSet
    <3> DEFINE klause == <<0>>
    <3>2. klause \in Places /\ Len(klause) = 1 /\ klause[1] = 0
      BY DEF Places
    <3> HIDE DEF klause
    <3>3. \A i : i \notin 2..1
      OBVIOUS
    <3>4. KlauseGathered(k, {}, klause, 0)
      BY <1>2, <3>2, <3>3 DEF KlauseGathered
    <3> QED
      BY <3>1, <3>4 DEF klause
  <2> QED
    BY <2>1, <2>2, <2>3 DEF Gathered
<1>4. ASSUME NEW l \in Lits(k, bad)
      PROVE  /\ l \in LITS /\ IsFalse(k, l)
             /\ k.levelOf[IDX(l)] = k.level => \E q \in 1..n : k.trail[q] = NOT(l)
  <2>1. l \in LITS /\ IsFalse(k, l)
    BY <1>1, KlauseType DEF Falsified
  <2> QED
    BY <1>1, <1>2, <2>1, FalseBound
<1>5. Resolved(k, n, base, bad, c)
  <2>1. \A l \in Lits(k, bad) : Ready(k, ToSet(base.analyzed), n, l)
    BY <1>4 DEF Ready
  <2>2. n \in 0..Len(k.trail)
    BY <1>2
  <2> QED
    BY <1>1, <1>3, <2>1, <2>2, ResolveReason
<1>6. /\ Gathered(k, n, c) /\ c \in AnalyzeStates(k) /\ c.open \in Nat
      /\ KlauseGathered(k, ToSet(c.analyzed), c.klause, c.jump)
      /\ c.open = Cardinality(Current(k, ToSet(c.analyzed), n))
      /\ \A l \in Lits(k, bad) : IDX(l) \in ToSet(c.analyzed)
      /\ c.uip = 0 /\ bad \in c.resolved
  BY <1>5 DEF Resolved, Gathered, AnalyzeStates
<1> HIDE DEF c
<1>7. ASSUME NEW l \in Lits(k, bad), k.levelOf[IDX(l)] = k.level
      PROVE  \E q \in Current(k, ToSet(c.analyzed), n) : k.trail[q] = NOT(l)
  <2>1. PICK q \in 1..n : k.trail[q] = NOT(l)
    BY <1>4, <1>7
  <2>2. IDX(k.trail[q]) = IDX(l)
    BY <1>4, <2>1, LitFacts
  <2>3. q \in Current(k, ToSet(c.analyzed), n)
    BY <1>6, <1>7, <2>2 DEF Current
  <2> QED
    BY <2>1, <2>3
<1>8. c.open > 0
  <2>1. Current(k, ToSet(c.analyzed), n) # {}
    BY <1>1, <1>7
  <2>2. IsFiniteSet(Current(k, ToSet(c.analyzed), n))
    BY <1>2, CurrentFinite
  <2>3. c.open # 0
    BY <1>6, <2>1, <2>2, FS_EmptySet
  <2> QED
    BY <1>6, <2>3
<1>9. OneOpen(k, ToSet(c.analyzed), n, c.klause, c.resolved)
  <2> SUFFICES ASSUME NEW M \in Models, SatisfiesAll(k, M, c.resolved), Dropped(c.klause, M)
               PROVE  \E q \in Current(k, ToSet(c.analyzed), n) : k.trail[q] \notin M
    BY DEF OneOpen
  <2>1. PICK l \in Lits(k, bad) : l \in M
    BY <1>6 DEF SatisfiesAll, Satisfies
  <2>2. k.levelOf[IDX(l)] = k.level
    BY <1>1, <1>4, <1>6, <2>1, DroppedLevel
  <2>3. NOT(l) \notin M
    BY <1>4, <2>1, ModelFacts
  <2> QED
    BY <1>7, <2>2, <2>3
<1>10. AnalyzeState(k, n, c)
  BY <1>6, <1>8, <1>9 DEF AnalyzeState
<1> QED
  BY <1>10 DEF c

(* A literal of the current level is reached on the trail as long as one is open. *)
LEMMA OpenLevel ==
  ASSUME NEW k \in Kittens, Static(k), Explained(k), NEW m \in 1..Len(k.trail), NEW A,
         Current(k, A, m) # {}, IDX(k.trail[m]) \in A
  PROVE  k.levelOf[IDX(k.trail[m])] = k.level /\ m \in Current(k, A, m)
<1>1. /\ Len(k.trail) \in Nat
      /\ \A i \in 1..Len(k.trail) : k.trail[i] \in LITS /\ k.trail[i] \in k.values
  BY TrailDistinct
<1>2. PICK q \in 1..m : k.levelOf[IDX(k.trail[q])] = k.level
  BY DEF Current
<1>3. q \in 1..Len(k.trail) /\ q <= m
  BY <1>1
<1>4. k.levelOf[IDX(k.trail[q])] <= k.levelOf[IDX(k.trail[m])]
  BY <1>3 DEF Explained, TrailWell
<1>5. /\ k.levelOf[IDX(k.trail[m])] \in Nat /\ k.levelOf[IDX(k.trail[m])] <= k.level
      /\ k.level \in Nat
  BY <1>1, LevelBound
<1>6. k.levelOf[IDX(k.trail[m])] = k.level
  BY <1>2, <1>4, <1>5
<1>7. m \in 1..m
  BY <1>1
<1> QED
  BY <1>6, <1>7 DEF Current

LEMMA AnalyzeSkip ==
  ASSUME NEW k \in Kittens, NEW m \in 1..Len(k.trail), NEW s, AnalyzeState(k, m, s),
         s.uip # 0 \/ IDX(k.trail[m]) \notin ToSet(s.analyzed)
  PROVE  AnalyzeState(k, m - 1, s)
<1>1. CASE s.uip # 0
  BY <1>1 DEF AnalyzeState
<1>2. CASE s.uip = 0
  <2>1. m \notin Current(k, ToSet(s.analyzed), m)
    BY <1>2 DEF Current
  <2>2. m \in Nat \ {0}
    BY DEF Kittens
  <2>3. Current(k, ToSet(s.analyzed), m - 1) = Current(k, ToSet(s.analyzed), m)
    BY <2>1, <2>2, CurrentPassed
  <2>4. Gathered(k, m - 1, s)
    BY <1>2, <2>3 DEF AnalyzeState, Gathered
  <2>5. OneOpen(k, ToSet(s.analyzed), m - 1, s.klause, s.resolved)
    BY <1>2, <2>3 DEF AnalyzeState, OneOpen
  <2> QED
    BY <1>2, <2>4, <2>5 DEF AnalyzeState
<1> QED
  BY <1>1, <1>2

(* The last open literal. *)
LEMMA AnalyzeFound ==
  ASSUME NEW k \in Kittens, Static(k), Explained(k),
         NEW m \in 1..Len(k.trail), NEW s, AnalyzeState(k, m, s), s.uip = 0, s.open = 1,
         NEW lit, lit = k.trail[m], IDX(lit) \in ToSet(s.analyzed)
  PROVE  AnalyzeState(k, m - 1, [s EXCEPT !.uip = lit])
<1> DEFINE A == ToSet(s.analyzed)
           c == [s EXCEPT !.uip = lit]
<1>1. /\ s \in AnalyzeStates(k) /\ KlauseGathered(k, A, s.klause, s.jump)
      /\ s.open = Cardinality(Current(k, A, m))
      /\ OneOpen(k, A, m, s.klause, s.resolved)
  BY DEF AnalyzeState, Gathered
<1>2. Len(k.trail) \in Nat /\ lit \in LITS
  BY TrailDistinct
<1>3. m \in Nat \ {0} /\ m - 1 \in Nat
  BY <1>2
<1>4. /\ IsFiniteSet(Current(k, A, m - 1)) /\ IsFiniteSet(Current(k, A, m))
      /\ Cardinality(Current(k, A, m - 1)) \in Nat
  BY <1>3, CurrentFinite
<1>5. Current(k, A, m) # {}
  BY <1>1, <1>4, FS_EmptySet
<1>6. k.levelOf[IDX(lit)] = k.level /\ m \in Current(k, A, m)
  BY <1>5, OpenLevel
<1>7. Cardinality(Current(k, A, m - 1)) = 1 - 1
  BY <1>1, <1>3, <1>6, CurrentPassed
<1>8. Current(k, A, m - 1) = {}
  BY <1>4, <1>7, FS_EmptySet
<1>9. ASSUME NEW M \in Models, SatisfiesAll(k, M, s.resolved), Dropped(s.klause, M)
      PROVE  lit \notin M
  <2>1. PICK q \in Current(k, A, m) : k.trail[q] \notin M
    BY <1>1, <1>9 DEF OneOpen
  <2>2. q \in Current(k, A, m - 1) \/ q = m
    BY <1>3 DEF Current
  <2> QED
    BY <1>8, <2>1, <2>2
<1>10. /\ c \in AnalyzeStates(k) /\ c.analyzed = s.analyzed /\ c.klause = s.klause
       /\ c.jump = s.jump /\ c.uip = lit /\ c.resolved = s.resolved
  BY <1>1, <1>2 DEF AnalyzeStates
<1> HIDE DEF c
<1>11. Unique(k, c.uip, c.klause, c.resolved)
  BY <1>6, <1>9, <1>10 DEF Unique
<1>12. c.uip # 0
  BY <1>2, <1>10, LitFacts
<1>13. AnalyzeState(k, m - 1, c)
  BY <1>1, <1>10, <1>11, <1>12 DEF AnalyzeState
<1> QED
  BY <1>13 DEF c

(* A literal that is resolved with its reason. *)
LEMMA AnalyzeResolved ==
  ASSUME NEW k \in Kittens, Static(k), Explained(k), k.level > 0,
         NEW m \in 1..Len(k.trail), NEW s, AnalyzeState(k, m, s), s.uip = 0, s.open # 1,
         NEW lit, lit = k.trail[m], IDX(lit) \in ToSet(s.analyzed)
  PROVE  AnalyzeState(k, m - 1, AnalyzeReason([s EXCEPT !.open = @ - 1], k.reason[IDX(lit)]))
<1> DEFINE A == ToSet(s.analyzed)
           ref == k.reason[IDX(lit)]
           b == [s EXCEPT !.open = @ - 1]
           c == AnalyzeReason(b, ref)
<1>1. /\ s \in AnalyzeStates(k) /\ KlauseGathered(k, A, s.klause, s.jump)
      /\ s.open = Cardinality(Current(k, A, m)) /\ s.open \in Nat /\ s.open > 0
      /\ OneOpen(k, A, m, s.klause, s.resolved)
  BY DEF AnalyzeState, Gathered, AnalyzeStates
<1>2. Len(k.trail) \in Nat /\ lit \in LITS /\ k.level \in Nat
  BY TrailDistinct DEF Kittens
<1>3. m \in Nat \ {0} /\ m - 1 \in Nat /\ m - 1 \in 0..Len(k.trail)
  BY <1>2
<1>4. /\ IsFiniteSet(Current(k, A, m - 1)) /\ IsFiniteSet(Current(k, A, m))
      /\ Cardinality(Current(k, A, m - 1)) \in Nat
  BY <1>3, CurrentFinite
<1>5. Current(k, A, m) # {}
  <2>1. s.open # 0
    BY <1>1
  <2> QED
    BY <1>1, <1>4, <2>1, FS_EmptySet
<1>6. k.levelOf[IDX(lit)] = k.level /\ m \in Current(k, A, m)
  BY <1>5, OpenLevel
<1>7. Cardinality(Current(k, A, m - 1)) = s.open - 1
  BY <1>1, <1>3, <1>6, CurrentPassed
<1>8. s.open - 1 \in Nat /\ s.open - 1 > 0
  BY <1>1
<1>9. PICK j \in 1 .. m - 1 : k.levelOf[IDX(k.trail[j])] = k.level
  <2>1. Current(k, A, m - 1) # {}
    BY <1>4, <1>7, <1>8, FS_EmptySet
  <2> QED
    BY <2>1 DEF Current
<1> HIDE DEF ref
<1>10. /\ ref \in Refs(k) /\ lit \in Lits(k, ref)
       /\ \A l \in Lits(k, ref) \ {lit} : Before(k, m, l)
  <2>1. ReasonWell(k, m)
    BY <1>2, <1>6 DEF Explained, ReasonsWell
  <2>2. ref # INVALID
    BY <1>2, <1>6, <1>9, <2>1 DEF ReasonWell, ref
  <2> QED
    BY <2>1, <2>2 DEF ReasonWell, ref
<1>11. ASSUME NEW l \in Lits(k, ref), l # lit
       PROVE  /\ l \in LITS /\ IsFalse(k, l)
              /\ k.levelOf[IDX(l)] = k.level => \E q \in 1 .. m - 1 : k.trail[q] = NOT(l)
  <2>1. l \in LITS /\ Before(k, m, l)
    BY <1>10, <1>11, KlauseType
  <2> QED
    BY <1>2, <2>1 DEF Before
<1>12. Gathered(k, m - 1, b) /\ b.analyzed = s.analyzed /\ b.klause = s.klause
       /\ b.resolved = s.resolved /\ b.uip = 0 /\ b.open = s.open - 1
  <2>1. /\ b \in AnalyzeStates(k) /\ b.analyzed = s.analyzed /\ b.klause = s.klause
        /\ b.resolved = s.resolved /\ b.uip = 0 /\ b.open = s.open - 1 /\ b.jump = s.jump
    BY <1>1, <1>8 DEF AnalyzeStates
  <2> QED
    BY <1>1, <1>7, <2>1 DEF Gathered
<1> HIDE DEF b
<1>13. Resolved(k, m - 1, b, ref, c)
  <2>1. \A l \in Lits(k, ref) : Ready(k, ToSet(b.analyzed), m - 1, l)
    BY <1>11, <1>12 DEF Ready
  <2> QED
    BY <1>3, <1>10, <1>12, <2>1, ResolveReason
<1> HIDE DEF c
<1>14. /\ Gathered(k, m - 1, c) /\ c \in AnalyzeStates(k)
       /\ KlauseGathered(k, ToSet(c.analyzed), c.klause, c.jump)
       /\ A \subseteq ToSet(c.analyzed) /\ Includes(s.klause, c.klause)
       /\ c.resolved = s.resolved \cup {ref} /\ c.uip = 0
       /\ \A l \in Lits(k, ref) : IDX(l) \in ToSet(c.analyzed)
  BY <1>12, <1>13 DEF Resolved, Gathered
<1>15. c.open > 0
  <2>1. b.open <= c.open /\ c.open \in Nat
    BY <1>13, <1>14 DEF Resolved, AnalyzeStates
  <2> QED
    BY <1>8, <1>12, <2>1
<1>16. OneOpen(k, ToSet(c.analyzed), m - 1, c.klause, c.resolved)
  <2> SUFFICES ASSUME NEW M \in Models, SatisfiesAll(k, M, c.resolved), Dropped(c.klause, M)
               PROVE  \E q \in Current(k, ToSet(c.analyzed), m - 1) : k.trail[q] \notin M
    BY DEF OneOpen
  <2>1. SatisfiesAll(k, M, s.resolved) /\ Satisfies(M, Lits(k, ref)) /\ Dropped(s.klause, M)
    BY <1>14, DroppedLess DEF SatisfiesAll
  <2>2. PICK q \in Current(k, A, m) : k.trail[q] \notin M
    BY <1>1, <2>1 DEF OneOpen
  <2>3. CASE q # m
    <3>1. q \in 1 .. m - 1
      BY <1>3, <2>3 DEF Current
    <3>2. q \in Current(k, ToSet(c.analyzed), m - 1)
      BY <1>14, <2>2, <3>1 DEF Current
    <3> QED
      BY <2>2, <3>2
  <2>4. CASE q = m
    <3>1. PICK l \in Lits(k, ref) : l \in M
      BY <2>1 DEF Satisfies
    <3>2. l # lit
      BY <2>2, <2>4, <3>1
    <3>3. l \in LITS /\ IsFalse(k, l)
      BY <1>11, <3>2
    <3>4. k.levelOf[IDX(l)] = k.level
      BY <1>14, <3>1, <3>3, DroppedLevel
    <3>5. PICK i \in 1 .. m - 1 : k.trail[i] = NOT(l)
      BY <1>11, <3>2, <3>4
    <3>6. NOT(l) \notin M /\ IDX(NOT(l)) = IDX(l)
      BY <3>1, <3>3, ModelFacts, LitFacts
    <3>7. i \in Current(k, ToSet(c.analyzed), m - 1)
      BY <1>14, <3>4, <3>5, <3>6 DEF Current
    <3> QED
      BY <3>5, <3>6, <3>7
  <2> QED
    BY <2>3, <2>4
<1>17. AnalyzeState(k, m - 1, c)
  BY <1>14, <1>15, <1>16 DEF AnalyzeState
<1> QED
  BY <1>17 DEF b, c, ref

LEMMA AnalyzeStep ==
  ASSUME NEW k \in Kittens, Static(k), Explained(k), k.level > 0,
         NEW m \in 1..Len(k.trail), NEW s, AnalyzeState(k, m, s)
  PROVE  AnalyzeState(k, m - 1, AnalyzeAssigned(s, k.trail[m]))
<1> DEFINE lit == k.trail[m]
           c == AnalyzeAssigned(s, lit)
<1>1. s.kit = k
  BY DEF AnalyzeState, AnalyzeStates
<1>2. CASE s.uip # 0 \/ IDX(lit) \notin ToSet(s.analyzed)
  <2>1. c = s
    BY <1>2 DEF AnalyzeAssigned
  <2> QED
    BY <1>2, <2>1, AnalyzeSkip
<1>3. CASE s.uip = 0 /\ IDX(lit) \in ToSet(s.analyzed) /\ s.open = 1
  <2>1. c = [s EXCEPT !.uip = lit]
    BY <1>3 DEF AnalyzeAssigned
  <2> QED
    BY <1>3, <2>1, AnalyzeFound
<1>4. CASE s.uip = 0 /\ IDX(lit) \in ToSet(s.analyzed) /\ s.open # 1
  <2>1. c = AnalyzeReason([s EXCEPT !.open = @ - 1], k.reason[IDX(lit)])
    BY <1>1, <1>4 DEF AnalyzeAssigned
  <2> QED
    BY <1>4, <2>1, AnalyzeResolved
<1> QED
  BY <1>2, <1>3, <1>4

-----------------------------------------------------------------------------
(* Conflict analysis: the clause that is learned. *)

LEMMA AnalyzeFold ==
  ASSUME NEW k \in Kittens, Static(k), NEW bad, Searching(k, bad), bad # INVALID, k.level > 0
  PROVE  AnalyzeState(k, 0, FirstUIP(k, bad))
<1> DEFINE trail == k.trail
           n == Len(k.trail)
           start == [kit |-> k, analyzed |-> <<>>, klause |-> <<0>>, jump |-> 0,
                     open |-> 0, resolved |-> {}, uip |-> 0]
           base == AnalyzeReason(start, bad)
           States(j) == {s \in AnalyzeStates(k) : AnalyzeState(k, n - j, s)}
           Inv == [j \in 0..n |-> States(j)]
<1>1. trail \in Seq(LITS) /\ n \in Nat /\ Explained(k)
  BY DEF Kittens, Searching
<1>2. /\ Reverse(trail) \in Seq(LITS) /\ Len(Reverse(trail)) = n
      /\ \A i \in 1..n : n - i + 1 \in 1..n /\ Reverse(trail)[i] = trail[n - i + 1]
  BY <1>1, Reversed
<1>3. AnalyzeState(k, n, base)
  BY AnalyzeFirst
<1>4. base \in Inv[0]
  <2> HIDE DEF base
  <2>1. n - 0 = n /\ base \in AnalyzeStates(k) /\ 0 \in 0..n
    BY <1>1, <1>3 DEF AnalyzeState
  <2> QED
    BY <1>3, <2>1
<1>5. ASSUME NEW i \in 1..n, NEW s \in Inv[i - 1]
      PROVE  AnalyzeAssigned(s, Reverse(trail)[i]) \in Inv[i]
  <2> DEFINE m == n - i + 1
  <2>1. /\ i - 1 \in 0..n /\ i \in 0..n /\ n - (i - 1) = m /\ m - 1 = n - i
        /\ m \in 1..n /\ Reverse(trail)[i] = trail[m]
    BY <1>1, <1>2
  <2>2. s \in States(i - 1)
    BY <2>1
  <2>3. AnalyzeState(k, m, s)
    BY <2>1, <2>2
  <2> HIDE DEF m
  <2>4. AnalyzeState(k, m - 1, AnalyzeAssigned(s, trail[m]))
    BY <1>1, <2>1, <2>3, AnalyzeStep
  <2>5. AnalyzeState(k, n - i, AnalyzeAssigned(s, Reverse(trail)[i]))
    BY <2>1, <2>4
  <2>6. AnalyzeAssigned(s, Reverse(trail)[i]) \in AnalyzeStates(k)
    BY <2>5 DEF AnalyzeState
  <2>7. AnalyzeAssigned(s, Reverse(trail)[i]) \in States(i)
    BY <2>5, <2>6
  <2> HIDE DEF States
  <2> QED
    BY <2>1, <2>7
<1> HIDE DEF Inv, base
<1>6. FoldLeft(AnalyzeAssigned, base, Reverse(trail)) \in Inv[Len(Reverse(trail))]
  BY <1>2, <1>4, <1>5, ResolvingInduction
<1>7. FoldLeft(AnalyzeAssigned, base, Reverse(trail)) \in States(n)
  <2>1. n \in 0..n
    BY <1>1
  <2> QED
    BY <1>2, <1>6, <2>1 DEF Inv
<1>8. AnalyzeState(k, 0, FoldLeft(AnalyzeAssigned, base, Reverse(trail)))
  <2>1. n - n = 0
    BY <1>1
  <2> QED
    BY <1>7, <2>1
<1> QED
  BY <1>8 DEF FirstUIP, base

(* The clause with the negated UIP in its place. *)
Learnable(k, resolved, uip, jump, klause) ==
  /\ klause \in Seq(LITS) /\ DistinctLits(klause) /\ klause # <<>> /\ Len(klause) \in Nat
  /\ \A i \in 1..Len(klause) : IDX(klause[i]) \in Knows(k)
  /\ resolved \in SUBSET Refs(k)
  /\ Follows(k, resolved, ToSet(klause))
  /\ uip \in k.values /\ k.levelOf[IDX(uip)] = k.level
  /\ klause[1] = NOT(uip) /\ jump \in Nat /\ jump < k.level
  /\ \A i \in 2..Len(klause) : IsFalse(k, klause[i]) /\ k.levelOf[IDX(klause[i])] <= jump
  /\ IF Len(klause) > 1 THEN k.levelOf[IDX(klause[2])] = jump ELSE jump = 0

LEMMA UipLearnable ==
  ASSUME NEW k \in Kittens, Static(k), NEW bad, Searching(k, bad), bad # INVALID, k.level > 0,
         NEW s, s = FirstUIP(k, bad)
  PROVE  /\ Learnable(k, s.resolved, s.uip, s.jump, [s.klause EXCEPT ![1] = NOT(s.uip)])
         /\ s.analyzed \in Seq(Vars)
         /\ \A i \in 1..Len(s.analyzed) :
              s.analyzed[i] \in Knows(k) /\ s.analyzed[i] \notin Unassigned(k)
<1> DEFINE n == Len(s.klause)
           uip == s.uip
           klause == [s.klause EXCEPT ![1] = NOT(uip)]
<1>1. /\ Explained(k) /\ k.level \in Nat
  BY DEF Searching, Kittens
<1>2. AnalyzeState(k, 0, s)
  BY AnalyzeFold
<1>3. /\ s \in AnalyzeStates(k) /\ s.analyzed \in Seq(Vars) /\ s.resolved \in SUBSET Refs(k)
      /\ KlauseGathered(k, ToSet(s.analyzed), s.klause, s.jump)
  BY <1>2 DEF AnalyzeState, AnalyzeStates
<1>4. Unique(k, uip, s.klause, s.resolved)
  <2>1. CASE s.uip = 0
    <3>1. s.open = Cardinality(Current(k, ToSet(s.analyzed), 0)) /\ s.open > 0
      BY <1>2, <2>1 DEF AnalyzeState, Gathered
    <3>2. Current(k, ToSet(s.analyzed), 0) = {}
      BY DEF Current
    <3>3. s.open = 0
      BY <3>1, <3>2, FS_EmptySet
    <3> QED
      BY <3>1, <3>3
  <2>2. CASE s.uip # 0
    BY <1>2, <2>2 DEF AnalyzeState
  <2> QED
    BY <2>1, <2>2
<1>5. /\ uip \in LITS /\ uip \in k.values /\ IDX(uip) \in Knows(k)
      /\ k.levelOf[IDX(uip)] = k.level
      /\ NOT(uip) \in LITS /\ IDX(NOT(uip)) = IDX(uip)
  <2>1. PICK q \in 1..Len(k.trail) : uip = k.trail[q]
    BY <1>4 DEF Unique
  <2>2. uip \in LITS /\ uip \in k.values /\ IDX(uip) \in Knows(k)
    BY <1>1, <2>1, TrailDistinct
  <2> QED
    BY <1>4, <2>2, LitFacts DEF Unique
<1>6. /\ s.klause \in Seq(LITS \cup {0}) /\ n \in Nat /\ n >= 1
      /\ s.jump \in Nat /\ s.jump < k.level
      /\ \A i \in 2..n : /\ s.klause[i] \in LITS /\ IsFalse(k, s.klause[i])
                         /\ IDX(s.klause[i]) \in ToSet(s.analyzed)
                         /\ k.levelOf[IDX(s.klause[i])] <= s.jump
      /\ \A i, j \in 2..n : IDX(s.klause[i]) = IDX(s.klause[j]) => i = j
      /\ IF n > 1 THEN k.levelOf[IDX(s.klause[2])] = s.jump ELSE s.jump = 0
      /\ \A v \in ToSet(s.analyzed) : v \in Knows(k) /\ v \notin Unassigned(k)
  BY <1>3 DEF KlauseGathered, Places
<1>7. \A i \in 1..Len(s.analyzed) :
        s.analyzed[i] \in Knows(k) /\ s.analyzed[i] \notin Unassigned(k)
  BY <1>3, <1>6, SetOfSeq
<1>8. \A i \in 1..n : i = 1 \/ i \in 2..n
  BY <1>6
<1>9. /\ klause[1] = NOT(uip) /\ \A i \in 2..n : klause[i] = s.klause[i]
      /\ Len(klause) = n /\ DOMAIN klause = 1..n
  BY <1>6
<1> HIDE DEF klause, n, uip
<1>10. \A i \in 1..n : klause[i] \in LITS /\ IDX(klause[i]) \in Knows(k)
  BY <1>5, <1>6, <1>8, <1>9
<1>11. klause \in Seq(LITS) /\ klause # <<>>
  <2>1. klause = [i \in 1..n |-> klause[i]]
    BY <1>9 DEF klause
  <2>2. [i \in 1..n |-> klause[i]] \in Seq(LITS)
    BY <1>6, <1>10, IsASeq
  <2>3. klause \in Seq(LITS)
    BY <2>1, <2>2
  <2> QED
    BY <1>6, <1>9, <2>3
<1>12. DistinctLits(klause)
  <2>1. \A i \in 2..n : IDX(klause[i]) # IDX(uip)
    <3> SUFFICES ASSUME NEW i \in 2..n, IDX(klause[i]) = IDX(uip) PROVE FALSE
      OBVIOUS
    <3>1. k.levelOf[IDX(uip)] <= s.jump
      BY <1>6, <1>9
    <3> QED
      BY <1>1, <1>5, <1>6, <3>1
  <2> SUFFICES ASSUME NEW i \in 1..n, NEW j \in 1..n, IDX(klause[i]) = IDX(klause[j])
               PROVE  i = j
    BY <1>9 DEF DistinctLits
  <2>2. CASE i = 1 /\ j \in 2..n
    BY <1>5, <1>9, <2>1, <2>2
  <2>3. CASE i \in 2..n /\ j = 1
    BY <1>5, <1>9, <2>1, <2>3
  <2>4. CASE i \in 2..n /\ j \in 2..n
    BY <1>6, <1>9, <2>4
  <2> QED
    BY <1>8, <2>2, <2>3, <2>4
<1>13. Follows(k, s.resolved, ToSet(klause))
  <2> SUFFICES ASSUME NEW M \in Models, SatisfiesAll(k, M, s.resolved), ToSet(klause) \cap M = {}
               PROVE  FALSE
    BY DEF Follows, Satisfies
  <2>1. ToSet(klause) = {klause[i] : i \in 1..n}
    BY <1>9, <1>11, SetOfSeq
  <2>2. Dropped(s.klause, M)
    <3>1. \A i \in 2..n : i \in 1..n
      BY <1>6
    <3>2. \A i \in 2..n : s.klause[i] \notin M
      BY <1>9, <2>1, <3>1
    <3> QED
      BY <3>2 DEF Dropped, n
  <2>3. uip \notin M
    BY <1>4, <2>2 DEF Unique
  <2>4. NOT(uip) \notin M
    <3>1. 1 \in 1..n
      BY <1>6
    <3> QED
      BY <1>9, <2>1, <3>1
  <2> QED
    BY <1>5, <2>3, <2>4, ModelFacts
<1>14. /\ \A i \in 2..n : IsFalse(k, klause[i]) /\ k.levelOf[IDX(klause[i])] <= s.jump
       /\ IF n > 1 THEN k.levelOf[IDX(klause[2])] = s.jump ELSE s.jump = 0
  <2>1. n > 1 => 2 \in 2..n
    BY <1>6
  <2> QED
    BY <1>6, <1>9, <2>1
<1>15. Learnable(k, s.resolved, uip, s.jump, klause)
  BY <1>3, <1>5, <1>6, <1>9, <1>10, <1>11, <1>12, <1>13, <1>14 DEF Learnable
<1> QED
  BY <1>3, <1>7, <1>15 DEF klause, uip

-----------------------------------------------------------------------------
(* Conflict analysis: search goes on after the learned clause. *)

(* t is k with one more clause, after going back to the jump level. *)
BackLearned(k, p, g, jump, klause, new, t) ==
  /\ t \in Kittens /\ Static(t) /\ FromUser(t, p, g)
  /\ t.status = k.status /\ t.inconsistent = k.inconsistent
  /\ t.assumptions = k.assumptions /\ t.levelOf = k.levelOf /\ t.reason = k.reason
  /\ t.level = jump /\ t.propagated = Len(t.trail)
  /\ Knows(t) = Knows(k)
  /\ new \notin Refs(k) /\ new \in Nat
  /\ Refs(t) = Refs(k) \cup {new}
  /\ \A ref \in Refs(k) : Klause(t, ref) = Klause(k, ref) /\ Lits(t, ref) = Lits(k, ref)
  /\ Klause(t, new).lits = klause /\ Lits(t, new) = ToSet(klause)
  /\ \A l : l \in t.values <=> l \in k.values /\ k.levelOf[IDX(l)] <= jump
  /\ Len(t.trail) <= Len(k.trail)
  /\ \A i \in 1..Len(t.trail) : t.trail[i] = k.trail[i]
  /\ \A i \in 1..Len(k.trail) : i <= Len(t.trail) <=> k.levelOf[IDX(k.trail[i])] <= jump

LEMMA LearnedBack ==
  ASSUME NEW k \in Kittens, Static(k), NEW bad, Searching(k, bad), NEW p, NEW g, FromUser(k, p, g),
         NEW analyzed \in Seq(Vars),
         \A i \in 1..Len(analyzed) : analyzed[i] \in Knows(k) /\ analyzed[i] \notin Unassigned(k),
         NEW resolved, NEW uip, NEW jump, NEW klause, Learnable(k, resolved, uip, jump, klause),
         NEW c, c = NewLearned(Bump(k, analyzed), klause, resolved)
  PROVE  BackLearned(k, p, g, jump, klause, Len(c.klauses), Backtrack(c, jump))
<1> DEFINE b == Bump(k, analyzed)
           t == Backtrack(c, jump)
           new == Len(c.klauses)
<1>1. /\ Explained(k) /\ TrailWell(k) /\ ValuesExplained(k) /\ k.inconsistent = INVALID
  BY DEF Searching, Explained
<1>2. b \in Kittens /\ OnlyQueued(k, b) /\ Knows(b) = Knows(k) /\ Static(b)
  BY BumpEffect
<1> HIDE DEF b
<1>3. /\ b.status = k.status /\ b.antecedents = k.antecedents /\ b.klauses = k.klauses
      /\ b.endOriginal = k.endOriginal /\ b.values = k.values /\ b.level = k.level
      /\ b.levelOf = k.levelOf /\ b.reason = k.reason /\ b.trail = k.trail
      /\ b.propagated = k.propagated /\ b.assumptions = k.assumptions
      /\ b.inconsistent = k.inconsistent
  BY <1>2 DEF OnlyQueued
<1>4. /\ Refs(b) = Refs(k) /\ Originals(b) = Originals(k)
      /\ \A ref : Klause(b, ref) = Klause(k, ref) /\ Lits(b, ref) = Lits(k, ref)
  BY <1>3 DEF Refs, Originals, Klause, Lits
<1>5. /\ klause \in Seq(LITS) /\ DistinctLits(klause) /\ klause # <<>>
      /\ \A i \in 1..Len(klause) : IDX(klause[i]) \in Knows(k)
      /\ resolved \in SUBSET Refs(k) /\ Follows(k, resolved, ToSet(klause))
      /\ jump \in Nat
  BY DEF Learnable
<1>6. /\ \A i \in 1..Len(klause) : IDX(klause[i]) \in Knows(b)
      /\ resolved \in SUBSET Refs(b) /\ Follows(b, resolved, ToSet(klause))
  <2>1. Follows(b, resolved, ToSet(klause))
    BY <1>4, <1>5, FollowsFrame
  <2> QED
    BY <1>2, <1>4, <1>5, <2>1
<1>7. Longer(b, klause, c) /\ Originals(c) = Originals(b) /\ Static(c)
  <2>1. c = NewLearned(b, klause, resolved)
    BY DEF b
  <2>2. /\ Longer(b, klause, NewLearned(b, klause, resolved))
        /\ Originals(NewLearned(b, klause, resolved)) = Originals(b)
        /\ Static(NewLearned(b, klause, resolved))
    BY <1>2, <1>5, <1>6, LearnedStatic
  <2> QED
    BY <2>1, <2>2
<1>8. /\ c \in Kittens /\ c.status = k.status /\ c.antecedents = k.antecedents
      /\ c.values = k.values /\ c.level = k.level /\ c.levelOf = k.levelOf
      /\ c.reason = k.reason /\ c.trail = k.trail /\ c.propagated = k.propagated
      /\ c.assumptions = k.assumptions /\ c.queue = b.queue
      /\ c.inconsistent = k.inconsistent
  BY <1>3, <1>5, <1>7 DEF Longer, SameSearch
<1>9. /\ new \in Nat /\ new \notin Refs(k) /\ Refs(c) = Refs(k) \cup {new}
      /\ \A ref \in Refs(k) : Klause(c, ref) = Klause(k, ref) /\ Lits(c, ref) = Lits(k, ref)
      /\ Klause(c, new).lits = klause /\ Lits(c, new) = ToSet(klause)
  <2>1. new = Len(b.klauses) + 1 /\ Len(b.klauses) \in Nat
    BY <1>7 DEF Longer
  <2> QED
    BY <1>4, <1>7, <2>1 DEF Longer
<1>10. FromUser(c, p, g)
  <2>1. Originals(k) \subseteq Refs(k)
    BY OriginalsAreRefs DEF Static, Orderly, Clausal
  <2> QED
    BY <1>4, <1>7, <1>9, <2>1 DEF FromUser
<1>11. TrailWell(c)
  BY <1>1, <1>8 DEF TrailWell
<1>12. \A l \in c.values : c.levelOf[IDX(l)] # 0 => l \in ToSet(c.trail)
  BY <1>1, <1>8 DEF ValuesExplained
<1>13. jump = 0 \/ \E i \in 1..Len(c.trail) : c.levelOf[IDX(c.trail[i])] = jump
  <2> SUFFICES ASSUME jump # 0
               PROVE  \E i \in 1..Len(c.trail) : c.levelOf[IDX(c.trail[i])] = jump
    OBVIOUS
  <2>1. Len(klause) > 1 /\ k.levelOf[IDX(klause[2])] = jump /\ Len(klause) \in Nat
    BY DEF Learnable
  <2>2. 2 \in 1..Len(klause) /\ 2 \in 2..Len(klause)
    BY <2>1
  <2> DEFINE l == klause[2]
  <2>3. l \in LITS /\ IsFalse(k, l) /\ k.levelOf[IDX(l)] > 0
    <3>1. klause[2] \in LITS
      BY <1>5, <2>2
    <3>2. IsFalse(k, klause[2])
      BY <2>2 DEF Learnable
    <3> QED
      BY <1>5, <2>1, <3>1, <3>2
  <2> HIDE DEF l
  <2>4. PICK i \in 1..Len(k.trail) : k.trail[i] = NOT(l)
    BY <1>1, <2>3, FalseBound
  <2>5. IDX(k.trail[i]) = IDX(l)
    BY <2>3, <2>4, LitFacts
  <2> QED
    BY <1>8, <2>1, <2>5 DEF l
<1>14. BackAt(c, jump, t) /\ Static(t)
  BY <1>5, <1>7, <1>8, <1>11, <1>12, <1>13, BacktrackEffect
<1> HIDE DEF t, new
<1>15. /\ t \in Kittens /\ OnlySearched(c, t) /\ t.level = jump /\ t.propagated = Len(t.trail)
       /\ t.values = {l \in c.values : c.levelOf[IDX(l)] <= jump}
       /\ Len(t.trail) <= Len(k.trail)
       /\ \A i \in 1..Len(t.trail) : t.trail[i] = k.trail[i]
       /\ \A i \in 1..Len(k.trail) : i <= Len(t.trail) <=> k.levelOf[IDX(k.trail[i])] <= jump
  BY <1>8, <1>14 DEF BackAt
<1>16. /\ Refs(t) = Refs(c) /\ Originals(t) = Originals(c) /\ Knows(t) = Knows(c)
       /\ \A ref : Klause(t, ref) = Klause(c, ref) /\ Lits(t, ref) = Lits(c, ref)
  BY <1>15, OnlySearchedFrame
<1>17. FromUser(t, p, g)
  BY <1>10, <1>16 DEF FromUser
<1>18. \A l : l \in t.values <=> l \in k.values /\ k.levelOf[IDX(l)] <= jump
  BY <1>8, <1>15
<1>19. /\ t.status = k.status /\ t.inconsistent = k.inconsistent
       /\ t.assumptions = k.assumptions /\ t.levelOf = k.levelOf /\ t.reason = k.reason
  BY <1>8, <1>15 DEF OnlySearched
<1>20. Knows(t) = Knows(k)
  <2>1. Knows(c) = Knows(b)
    BY <1>8 DEF Knows
  <2> QED
    BY <1>2, <1>16, <2>1
<1>21. /\ Refs(t) = Refs(k) \cup {new}
       /\ \A ref \in Refs(k) : Klause(t, ref) = Klause(k, ref) /\ Lits(t, ref) = Lits(k, ref)
       /\ Klause(t, new).lits = klause /\ Lits(t, new) = ToSet(klause)
  BY <1>9, <1>16
<1>22. BackLearned(k, p, g, jump, klause, new, t)
  BY <1>9, <1>14, <1>15, <1>17, <1>18, <1>19, <1>20, <1>21 DEF BackLearned
<1> QED
  BY <1>22 DEF t, new

(* What is left of the search on the jump level, but for the learned clause. *)
LEMMA LearnedExplained ==
  ASSUME NEW k \in Kittens, Static(k), NEW bad, Searching(k, bad), NEW p, NEW g,
         NEW resolved, NEW uip, NEW jump, NEW klause, Learnable(k, resolved, uip, jump, klause),
         NEW new, NEW t, BackLearned(k, p, g, jump, klause, new, t),
         NEW lit, lit = NOT(uip)
  PROVE  /\ TrailWell(t) /\ ExplainedBut(t, lit) /\ ReasonsWell(t) /\ AssumptionsTrue(t)
         /\ lit \in LITS /\ lit \notin t.values /\ NOT(lit) \notin t.values
<1>1. /\ Explained(k) /\ TrailWell(k) /\ ValuesExplained(k) /\ ReasonsWell(k) /\ AssumptionsTrue(k)
  BY DEF Searching, Explained
<1>2. /\ t.levelOf = k.levelOf /\ t.reason = k.reason /\ t.assumptions = k.assumptions
      /\ t.level = jump /\ t.propagated = Len(t.trail)
      /\ Refs(t) = Refs(k) \cup {new}
      /\ \A ref \in Refs(k) : Klause(t, ref) = Klause(k, ref) /\ Lits(t, ref) = Lits(k, ref)
      /\ Klause(t, new).lits = klause
      /\ \A l : l \in t.values <=> l \in k.values /\ k.levelOf[IDX(l)] <= jump
      /\ Len(t.trail) <= Len(k.trail)
      /\ \A i \in 1..Len(t.trail) : t.trail[i] = k.trail[i]
      /\ \A i \in 1..Len(k.trail) : i <= Len(t.trail) <=> k.levelOf[IDX(k.trail[i])] <= jump
      /\ t.trail \in Seq(LITS)
  BY DEF BackLearned, Kittens
<1>3. /\ uip \in k.values /\ k.levelOf[IDX(uip)] = k.level /\ klause[1] = NOT(uip)
      /\ jump \in Nat /\ jump < k.level /\ Len(klause) \in Nat
      /\ IF Len(klause) > 1 THEN k.levelOf[IDX(klause[2])] = jump ELSE jump = 0
      /\ k.level \in Nat
  BY DEF Learnable, Kittens
<1>4. Len(t.trail) \in Nat /\ Len(k.trail) \in Nat /\ \A i \in 1..Len(t.trail) : i \in 1..Len(k.trail)
  BY <1>2 DEF Kittens
<1>5. /\ uip \in LITS /\ lit \in LITS /\ NOT(lit) = uip /\ IDX(lit) = IDX(uip)
  BY <1>1, <1>3, LevelBound, LitFacts
<1>6. lit \notin t.values /\ NOT(lit) \notin t.values
  <2>1. lit \notin k.values
    BY <1>3 DEF Static, Orderly, ValuesWell
  <2>2. ~(k.levelOf[IDX(uip)] <= jump)
    BY <1>3
  <2> QED
    BY <1>2, <1>5, <2>1, <2>2
<1>7. \A i \in 1..Len(t.trail) : k.levelOf[IDX(k.trail[i])] <= jump /\ t.trail[i] = k.trail[i]
  BY <1>2, <1>4
<1>8. TrailWell(t)
  <2>1. \A i \in 1..Len(t.trail) : t.trail[i] \in t.values
    BY <1>1, <1>2, <1>4, <1>7 DEF TrailWell
  <2>2. /\ \A i, j \in 1..Len(t.trail) : t.trail[i] = t.trail[j] => i = j
        /\ \A i, j \in 1..Len(t.trail) :
             i <= j => t.levelOf[IDX(t.trail[i])] <= t.levelOf[IDX(t.trail[j])]
    BY <1>1, <1>2, <1>4, <1>7 DEF TrailWell
  <2>3. t.propagated <= Len(t.trail) /\ \A i : i \notin t.propagated + 1 .. Len(t.trail)
    BY <1>2, <1>4
  <2>4. \A i \in 1..Len(t.trail) : t.levelOf[IDX(t.trail[i])] <= t.level
    BY <1>2, <1>7
  <2> QED
    BY <2>1, <2>2, <2>3, <2>4 DEF TrailWell
<1>9. ASSUME NEW l \in k.values, k.levelOf[IDX(l)] # 0, k.levelOf[IDX(l)] <= jump
      PROVE  \E i \in 1..Len(t.trail) : t.trail[i] = l /\ k.trail[i] = l
  <2>1. k.levelOf[IDX(l)] > 0
    BY <1>1, <1>9, LevelBound
  <2>2. PICK i \in 1..Len(k.trail) : k.trail[i] = l
    BY <1>1, <2>1, LevelBound
  <2>3. i <= Len(t.trail)
    BY <1>2, <1>9, <2>2
  <2>4. i \in 1..Len(t.trail)
    BY <1>4, <2>3
  <2> QED
    BY <1>2, <2>2, <2>4
<1>10. ExplainedBut(t, lit)
  <2>1. ASSUME NEW l \in t.values
        PROVE  IF t.levelOf[IDX(l)] = 0
               THEN /\ t.reason[IDX(l)] \in Refs(t)
                    /\ Klause(t, t.reason[IDX(l)]).lits = <<l>>
               ELSE l \in ToSet(t.trail)
    <3>1. l \in k.values /\ k.levelOf[IDX(l)] <= jump
      BY <1>2, <2>1
    <3>2. CASE k.levelOf[IDX(l)] = 0
      <4>1. k.reason[IDX(l)] \in Refs(k) /\ Klause(k, k.reason[IDX(l)]).lits = <<l>>
        BY <1>1, <3>1, <3>2, LevelBound
      <4> QED
        BY <1>2, <3>2, <4>1
    <3>3. CASE k.levelOf[IDX(l)] # 0
      <4>1. PICK i \in 1..Len(t.trail) : t.trail[i] = l
        BY <1>9, <3>1, <3>3
      <4>2. l \in ToSet(t.trail)
        BY <1>2, <4>1, SetOfSeq
      <4> QED
        BY <1>2, <3>3, <4>2
    <3> QED
      BY <3>2, <3>3
  <2>2. ASSUME NEW ref \in Refs(t), NEW l \in LITS, Klause(t, ref).lits = <<l>>
        PROVE  (l \in t.values /\ t.levelOf[IDX(l)] = 0) \/ (l = lit /\ t.level = 0)
    <3>1. CASE ref \in Refs(k)
      <4>1. Klause(k, ref).lits = <<l>>
        BY <1>2, <2>2, <3>1
      <4>2. l \in k.values /\ k.levelOf[IDX(l)] = 0
        BY <1>1, <3>1, <4>1 DEF ValuesExplained
      <4>3. 0 <= jump
        BY <1>3
      <4> QED
        BY <1>2, <4>2, <4>3
    <3>2. CASE ref = new
      <4>1. klause = <<l>>
        BY <1>2, <2>2, <3>2
      <4>2. Len(<<l>>) = 1 /\ <<l>>[1] = l
        OBVIOUS
      <4>3. Len(klause) = 1 /\ klause[1] = l
        BY <4>1, <4>2
      <4>4. ~(Len(klause) > 1)
        BY <4>3
      <4> QED
        BY <1>2, <1>3, <4>3, <4>4
    <3> QED
      BY <1>2, <3>1, <3>2
  <2> QED
    BY <2>1, <2>2 DEF ExplainedBut
<1>11. ReasonsWell(t)
  <2> SUFFICES ASSUME NEW i \in 1..Len(t.trail), t.levelOf[IDX(t.trail[i])] > 0
               PROVE  ReasonWell(t, i)
    BY DEF ReasonsWell
  <2> DEFINE x == k.trail[i]
             ref == k.reason[IDX(x)]
  <2>1. i \in 1..Len(k.trail) /\ t.trail[i] = x /\ k.levelOf[IDX(x)] <= jump
        /\ k.levelOf[IDX(x)] > 0
    BY <1>2, <1>4, <1>7
  <2>2. ReasonWell(k, i)
    BY <1>1, <2>1 DEF ReasonsWell
  <2>3. \A j \in 1 .. i - 1 : j \in 1..Len(t.trail)
    BY <1>4
  <2>4. CASE ref = INVALID
    <3>1. /\ \A j \in 1 .. i - 1 : k.levelOf[IDX(k.trail[j])] < k.levelOf[IDX(x)]
          /\ k.levelOf[IDX(x)] <= Len(k.assumptions) => x \in ToSet(k.assumptions)
      BY <2>2, <2>4 DEF ReasonWell
    <3>2. \A j \in 1 .. i - 1 : t.levelOf[IDX(t.trail[j])] < t.levelOf[IDX(t.trail[i])]
      BY <1>2, <1>7, <2>1, <2>3, <3>1
    <3> QED
      BY <1>2, <2>1, <2>4, <3>1, <3>2 DEF ReasonWell
  <2>5. CASE ref # INVALID
    <3>1. ref \in Refs(k) /\ x \in Lits(k, ref) /\ \A l \in Lits(k, ref) \ {x} : Before(k, i, l)
      BY <2>2, <2>5 DEF ReasonWell
    <3>2. ASSUME NEW l \in Lits(k, ref) \ {x} PROVE Before(t, i, l)
      <4>1. Before(k, i, l) /\ l \in LITS /\ IDX(NOT(l)) = IDX(l)
        BY <3>1, KlauseType, LitFacts
      <4>2. NOT(l) \in k.values
        BY <4>1 DEF Before, IsFalse
      <4>3. CASE k.levelOf[IDX(l)] = 0
        <5>1. 0 <= jump
          BY <1>3
        <5>2. NOT(l) \in t.values
          BY <1>2, <4>1, <4>2, <4>3, <5>1
        <5> QED
          BY <1>2, <4>3, <5>2 DEF Before, IsFalse
      <4>4. CASE k.levelOf[IDX(l)] # 0
        <5>1. PICK j \in 1 .. i - 1 : k.trail[j] = NOT(l)
          BY <4>1, <4>4 DEF Before
        <5>2. k.levelOf[IDX(l)] <= jump /\ t.trail[j] = NOT(l)
          BY <1>7, <2>3, <4>1, <5>1
        <5>3. NOT(l) \in t.values
          BY <1>2, <4>1, <4>2, <5>2
        <5> QED
          BY <5>2, <5>3 DEF Before, IsFalse
      <4> QED
        BY <4>3, <4>4
    <3>3. ref \in Refs(t) /\ Lits(t, ref) = Lits(k, ref) /\ t.reason[IDX(t.trail[i])] = ref
      BY <1>2, <2>1, <3>1
    <3> HIDE DEF ref, x
    <3> QED
      BY <2>1, <2>5, <3>1, <3>2, <3>3 DEF ReasonWell
  <2> QED
    BY <2>4, <2>5
<1>12. AssumptionsTrue(t)
  <2> SUFFICES ASSUME NEW i \in 1..Len(k.assumptions), i <= jump
               PROVE  IsTrue(t, k.assumptions[i]) /\ t.levelOf[IDX(k.assumptions[i])] <= i
    BY <1>2 DEF AssumptionsTrue
  <2>1. i <= k.level /\ i \in Nat
    BY <1>3 DEF Kittens
  <2>2. IsTrue(k, k.assumptions[i]) /\ k.levelOf[IDX(k.assumptions[i])] <= i
    BY <1>1, <2>1 DEF AssumptionsTrue
  <2>3. k.levelOf[IDX(k.assumptions[i])] \in Nat
    BY <1>1, <2>2, LevelBound DEF IsTrue
  <2>4. k.levelOf[IDX(k.assumptions[i])] <= jump
    BY <1>3, <2>1, <2>2, <2>3
  <2> QED
    BY <1>2, <2>2, <2>4 DEF IsTrue
<1> QED
  BY <1>5, <1>6, <1>8, <1>10, <1>11, <1>12

-----------------------------------------------------------------------------
(* Conflict analysis: the negated UIP is assigned. *)

(* The literals of the learned clause other than the negated UIP. *)
OthersFalse(t, new, lit) ==
  /\ lit \in Lits(t, new)
  /\ \A l \in Lits(t, new) \ {lit} :
       /\ l \in LITS /\ Before(t, Len(t.trail) + 1, l)
       /\ t.level = 0 => t.reason[IDX(l)] \in Refs(t)
                         /\ Klause(t, t.reason[IDX(l)]).lits = <<NOT(l)>>

LEMMA LearnedOthers ==
  ASSUME NEW k \in Kittens, Static(k), NEW bad, Searching(k, bad), NEW p, NEW g,
         NEW resolved, NEW uip, NEW jump, NEW klause, Learnable(k, resolved, uip, jump, klause),
         NEW new, NEW t, BackLearned(k, p, g, jump, klause, new, t),
         NEW lit, lit = NOT(uip)
  PROVE  OthersFalse(t, new, lit)
<1>1. Explained(k) /\ TrailWell(k)
  BY DEF Searching, Explained
<1>2. /\ t.levelOf = k.levelOf /\ t.reason = k.reason /\ t.level = jump
      /\ Refs(t) = Refs(k) \cup {new}
      /\ \A ref \in Refs(k) : Klause(t, ref) = Klause(k, ref)
      /\ Lits(t, new) = ToSet(klause)
      /\ \A l : l \in t.values <=> l \in k.values /\ k.levelOf[IDX(l)] <= jump
      /\ \A i \in 1..Len(t.trail) : t.trail[i] = k.trail[i]
      /\ \A i \in 1..Len(k.trail) : i <= Len(t.trail) <=> k.levelOf[IDX(k.trail[i])] <= jump
      /\ t.trail \in Seq(LITS) /\ Len(t.trail) \in Nat
  BY DEF BackLearned, Kittens
<1>3. /\ klause \in Seq(LITS) /\ klause # <<>> /\ Len(klause) \in Nat /\ klause[1] = lit
      /\ \A i \in 2..Len(klause) : IsFalse(k, klause[i]) /\ k.levelOf[IDX(klause[i])] <= jump
      /\ jump \in Nat
  BY DEF Learnable
<1>4. Lits(t, new) = {klause[i] : i \in 1..Len(klause)}
  BY <1>2, <1>3, SetOfSeq
<1>5. lit \in Lits(t, new)
  <2>1. 1 \in 1..Len(klause)
    BY <1>3
  <2> QED
    BY <1>3, <1>4, <2>1
<1>6. ASSUME NEW l \in Lits(t, new) \ {lit}
      PROVE  /\ l \in LITS /\ Before(t, Len(t.trail) + 1, l)
             /\ t.level = 0 => t.reason[IDX(l)] \in Refs(t)
                               /\ Klause(t, t.reason[IDX(l)]).lits = <<NOT(l)>>
  <2>1. PICK i \in 1..Len(klause) : klause[i] = l
    BY <1>4
  <2>2. i \in 2..Len(klause)
    BY <1>3, <2>1
  <2>3. l \in LITS /\ IsFalse(k, l) /\ k.levelOf[IDX(l)] <= jump
    BY <1>3, <2>1, <2>2
  <2>4. IDX(NOT(l)) = IDX(l)
    BY <2>3, LitFacts
  <2>5. IsFalse(t, l)
    BY <1>2, <2>3, <2>4 DEF IsFalse
  <2>6. k.levelOf[IDX(l)] \in Nat
        /\ (k.levelOf[IDX(l)] > 0 => \E j \in 1..Len(k.trail) : k.trail[j] = NOT(l))
        /\ (k.levelOf[IDX(l)] = 0 => k.reason[IDX(l)] \in Refs(k)
                                     /\ Klause(k, k.reason[IDX(l)]).lits = <<NOT(l)>>)
    BY <1>1, <2>3, FalseBound
  <2>7. Before(t, Len(t.trail) + 1, l)
    <3>1. CASE k.levelOf[IDX(l)] = 0
      BY <1>2, <2>5, <3>1 DEF Before
    <3>2. CASE k.levelOf[IDX(l)] > 0
      <4>1. PICK j \in 1..Len(k.trail) : k.trail[j] = NOT(l)
        BY <2>6, <3>2
      <4>2. j <= Len(t.trail)
        BY <1>2, <2>3, <2>4, <4>1
      <4>3. j \in 1..Len(t.trail) /\ j \in 1 .. (Len(t.trail) + 1) - 1
        BY <1>2, <4>2
      <4>4. t.trail[j] = NOT(l)
        BY <1>2, <4>1, <4>3
      <4> QED
        BY <2>5, <4>3, <4>4 DEF Before
    <3> QED
      BY <2>6, <3>1, <3>2
  <2>8. ASSUME t.level = 0
        PROVE  t.reason[IDX(l)] \in Refs(t) /\ Klause(t, t.reason[IDX(l)]).lits = <<NOT(l)>>
    <3>1. k.levelOf[IDX(l)] = 0
      BY <1>2, <2>3, <2>6, <2>8
    <3> QED
      BY <1>2, <2>6, <3>1
  <2> QED
    BY <2>3, <2>7, <2>8
<1> QED
  BY <1>5, <1>6 DEF OthersFalse

(* Watches that search had before it went back. *)
LEMMA LearnedExcuses ==
  ASSUME NEW k \in Kittens, Static(k), NEW bad, Searching(k, bad), NEW p, NEW g,
         NEW resolved, NEW uip, NEW jump, NEW klause, Learnable(k, resolved, uip, jump, klause),
         NEW new, NEW t, BackLearned(k, p, g, jump, klause, new, t),
         NEW ref \in Refs(k), Large(k, ref), NEW i \in {1, 2}
  PROVE  WatchExcused(t, t.propagated, INVALID, ref, Klause(k, ref).lits[i])
<1> DEFINE l == Klause(k, ref).lits[i]
<1>1. /\ Explained(k) /\ TrailWell(k) /\ WatchesExcused(k, bad)
  BY DEF Searching, Explained
<1>2. /\ t.levelOf = k.levelOf
      /\ Lits(t, ref) = Lits(k, ref)
      /\ \A x : x \in t.values <=> x \in k.values /\ k.levelOf[IDX(x)] <= jump
  BY DEF BackLearned
<1>3. jump \in Nat /\ jump < k.level /\ k.level \in Nat
  BY DEF Learnable, Kittens
<1>4. l \in LITS
  BY WatchFields
<1>5. WatchExcused(k, k.propagated, bad, ref, l)
  BY <1>1 DEF WatchesExcused
<1> HIDE DEF l
<1> SUFFICES ASSUME IsFalse(t, l) PROVE Excused(t, ref, l)
  BY DEF WatchExcused, l
<1>6. IsFalse(k, l) /\ k.levelOf[IDX(l)] <= jump /\ IDX(NOT(l)) = IDX(l)
  BY <1>2, <1>4, LitFacts DEF IsFalse
<1>7. k.levelOf[IDX(l)] \in Nat /\ k.levelOf[IDX(l)] < k.level
  <2>1. k.levelOf[IDX(l)] \in Nat
    BY <1>1, <1>4, <1>6, FalseBound
  <2> QED
    BY <1>3, <1>6, <2>1
<1>8. ~Pending(k, k.propagated, NOT(l))
  <2> SUFFICES ASSUME NEW j \in k.propagated + 1 .. Len(k.trail), k.trail[j] = NOT(l)
               PROVE  FALSE
    BY DEF Pending
  <2>1. k.levelOf[IDX(k.trail[j])] = k.level
    BY <1>1 DEF TrailWell
  <2> QED
    BY <1>6, <1>7, <2>1
<1>9. Excused(k, ref, l)
  BY <1>5, <1>6, <1>7, <1>8 DEF WatchExcused
<1>10. PICK x \in Lits(k, ref) : IsTrue(k, x) /\ k.levelOf[IDX(x)] <= k.levelOf[IDX(l)]
  BY <1>9 DEF Excused
<1>11. k.levelOf[IDX(x)] \in Nat
  BY <1>1, <1>10, LevelBound DEF IsTrue
<1>12. k.levelOf[IDX(x)] <= jump
  BY <1>3, <1>6, <1>7, <1>10, <1>11
<1> QED
  BY <1>2, <1>10, <1>12 DEF Excused, IsTrue

LEMMA LearnedSearching ==
  ASSUME NEW k \in Kittens, Static(k), NEW bad, Searching(k, bad), NEW p, NEW g,
         NEW resolved, NEW uip, NEW jump, NEW klause, Learnable(k, resolved, uip, jump, klause),
         NEW new, NEW t, BackLearned(k, p, g, jump, klause, new, t),
         NEW lit, lit = NOT(uip), NEW a, a = Assign(t, lit, new)
  PROVE  a \in Kittens /\ Static(a) /\ FromUser(a, p, g) /\ Searching(a, INVALID)
<1>1. /\ TrailWell(t) /\ ExplainedBut(t, lit) /\ ReasonsWell(t) /\ AssumptionsTrue(t)
      /\ lit \in LITS /\ lit \notin t.values /\ NOT(lit) \notin t.values
  BY LearnedExplained
<1>2. /\ t \in Kittens /\ Static(t) /\ FromUser(t, p, g)
      /\ t.status = k.status /\ t.inconsistent = k.inconsistent
      /\ t.levelOf = k.levelOf /\ t.level = jump /\ t.propagated = Len(t.trail)
      /\ Refs(t) = Refs(k) \cup {new}
      /\ \A ref \in Refs(k) : Klause(t, ref) = Klause(k, ref)
      /\ Klause(t, new).lits = klause
      /\ Knows(t) = Knows(k)
  BY DEF BackLearned
<1>3. /\ klause \in Seq(LITS) /\ DistinctLits(klause) /\ klause # <<>> /\ Len(klause) \in Nat
      /\ klause[1] = lit /\ IDX(klause[1]) \in Knows(k) /\ jump \in Nat
      /\ Len(klause) > 1 => k.levelOf[IDX(klause[2])] = jump
  <2>1. /\ klause \in Seq(LITS) /\ DistinctLits(klause) /\ klause # <<>> /\ Len(klause) \in Nat
        /\ klause[1] = lit /\ jump \in Nat
        /\ Len(klause) > 1 => k.levelOf[IDX(klause[2])] = jump
    BY DEF Learnable
  <2>2. 1 \in 1..Len(klause)
    BY <2>1
  <2> QED
    BY <2>1, <2>2 DEF Learnable
<1>4. new \in Refs(t) /\ new \in Nat /\ new # INVALID
  BY <1>2 DEF Refs, INVALID
<1>5. /\ lit \in Lits(t, new)
      /\ \A l \in Lits(t, new) \ {lit} :
           /\ l \in LITS /\ Before(t, Len(t.trail) + 1, l)
           /\ t.level = 0 => t.reason[IDX(l)] \in Refs(t)
                             /\ Klause(t, t.reason[IDX(l)]).lits = <<NOT(l)>>
  <2>1. OthersFalse(t, new, lit)
    BY LearnedOthers
  <2> QED
    BY <2>1 DEF OthersFalse
<1>6. AssignAssumption(t, lit, new)
  BY <1>1, <1>2, <1>3, <1>4, <1>5 DEF AssignAssumption, Static, IsFalse
<1>7. AssignedTo(t, lit, new, a) /\ Static(a)
  BY <1>1, <1>2, <1>4, <1>6, AssignStatic
<1>8. NowAssigned(t, lit, new, a)
  BY <1>1, <1>7 DEF NowAssigned
<1>9. FromUser(a, p, g)
  BY <1>2, <1>7, AssignedFromUser DEF Static, Orderly, Clausal
<1>10. Explained(a)
  <2>1. a.status = 0 /\ a.inconsistent = INVALID
    BY <1>2, <1>7 DEF AssignedTo, WithUnits, Searching, Explained
  <2>2. TrailWell(a)
    BY <1>1, <1>2, <1>8, AssignedTrail
  <2>3. ValuesExplained(a)
    BY <1>1, <1>2, <1>8, AssignedValuesBut
  <2>4. ReasonFor(t, lit, new)
    BY <1>4, <1>5 DEF ReasonFor
  <2>5. ReasonsWell(a)
    BY <1>1, <1>2, <1>4, <1>8, <2>4, AssignedReasons
  <2>6. AssumptionsTrue(a)
    <3>1. a.assumptions = t.assumptions /\ a.level = t.level
      BY <1>7 DEF AssignedTo
    <3>2. \A l \in t.values : l \in a.values /\ a.levelOf[IDX(l)] = t.levelOf[IDX(l)]
      BY <1>1, <1>2, <1>8, AssignedKeeps
    <3> QED
      BY <1>1, <3>1, <3>2 DEF AssumptionsTrue, IsTrue
  <2> QED
    BY <2>1, <2>2, <2>3, <2>5, <2>6 DEF Explained
<1>11. WatchesExcused(a, INVALID)
  <2>1. t.propagated <= Len(t.trail)
    BY <1>1 DEF TrailWell
  <2>2. ASSUME NEW ref \in Refs(t), ref # new, Large(t, ref), NEW i \in {1, 2}
        PROVE  WatchExcused(t, t.propagated, INVALID, ref, Klause(t, ref).lits[i])
    <3>1. ref \in Refs(k) /\ Klause(t, ref) = Klause(k, ref)
      BY <1>2, <2>2
    <3>2. Large(k, ref)
      BY <2>2, <3>1 DEF Large
    <3>3. WatchExcused(t, t.propagated, INVALID, ref, Klause(k, ref).lits[i])
      BY <2>2, <3>1, <3>2, LearnedExcuses
    <3> QED
      BY <3>1, <3>3
  <2>3. ASSUME Large(t, new), NEW i \in {1, 2}
        PROVE  WatchExcused(a, t.propagated, INVALID, new, Klause(t, new).lits[i])
    <3>1. Len(klause) > 1
      BY <1>2, <2>3 DEF Large
    <3>2. a.values = t.values \cup {lit} /\ Lits(a, new) = Lits(t, new)
      BY <1>4, <1>7 DEF AssignedTo, WithUnits
    <3>3. CASE i = 1
      <4>1. Klause(t, new).lits[i] = lit
        BY <1>2, <1>3, <3>3
      <4>2. NOT(lit) # lit
        BY <1>1, LitFacts
      <4>3. ~IsFalse(a, lit)
        BY <1>1, <3>2, <4>2 DEF IsFalse
      <4> QED
        BY <4>1, <4>3 DEF WatchExcused
    <3>4. CASE i = 2
      <4> DEFINE l == klause[2]
      <4>1. Klause(t, new).lits[i] = l /\ k.levelOf[IDX(l)] = jump
        BY <1>2, <1>3, <3>1, <3>4
      <4>2. 1 \in 1..Len(klause) /\ 2 \in 1..Len(klause)
        BY <1>3, <3>1
      <4>3. l # lit /\ l \in LITS
        BY <1>3, <4>2 DEF DistinctLits
      <4>4. l \in Lits(t, new)
        <5>1. l \in ToSet(klause)
          BY <1>3, <4>2, SetOfSeq
        <5> QED
          BY <5>1 DEF BackLearned
      <4> HIDE DEF l
      <4>5. IsFalse(t, l)
        BY <1>5, <4>3, <4>4 DEF Before
      <4>6. a.levelOf[IDX(l)] = jump /\ a.levelOf[IDX(lit)] = jump
        BY <1>1, <1>2, <1>8, <4>1, <4>3, <4>5, AssignedKeeps
      <4>7. lit \in Lits(a, new) /\ lit \in a.values
        BY <1>5, <3>2
      <4>8. Excused(a, new, l)
        BY <1>3, <4>6, <4>7 DEF Excused, IsTrue
      <4> QED
        BY <4>1, <4>8 DEF WatchExcused
    <3> QED
      BY <3>3, <3>4
  <2> QED
    BY <1>1, <1>2, <1>8, <2>1, <2>2, <2>3, AssignedWatches
<1>12. ConflictWell(a, INVALID)
  BY DEF ConflictWell
<1> QED
  BY <1>7, <1>9, <1>10, <1>11, <1>12 DEF Searching, AssignedTo

(* Analyzing a conflict above the root level. *)
LEMMA AnalyzeEffect ==
  ASSUME NEW k \in Kittens, Static(k), NEW bad, Searching(k, bad), bad # INVALID, k.level > 0,
         NEW p, NEW g, FromUser(k, p, g)
  PROVE  /\ Analyze(k, bad) \in Kittens /\ Static(Analyze(k, bad))
         /\ FromUser(Analyze(k, bad), p, g) /\ Searching(Analyze(k, bad), INVALID)
<1> DEFINE s == FirstUIP(k, bad)
           klause == [s.klause EXCEPT ![1] = NOT(s.uip)]
           c == NewLearned(Bump(k, s.analyzed), klause, s.resolved)
           new == Len(c.klauses)
           t == Backtrack(c, s.jump)
           a == Assign(t, NOT(s.uip), new)
<1>1. /\ Learnable(k, s.resolved, s.uip, s.jump, klause)
      /\ s.analyzed \in Seq(Vars)
      /\ \A i \in 1..Len(s.analyzed) :
           s.analyzed[i] \in Knows(k) /\ s.analyzed[i] \notin Unassigned(k)
  BY UipLearnable
<1>2. Analyze(k, bad) = a
  BY DEF Analyze
<1> HIDE DEF s, klause
<1>3. BackLearned(k, p, g, s.jump, klause, new, t)
  <2> HIDE DEF c
  <2>1. c = NewLearned(Bump(k, s.analyzed), klause, s.resolved)
    BY DEF c
  <2> QED
    BY <1>1, <2>1, LearnedBack
<1> HIDE DEF t, new
<1>4. a \in Kittens /\ Static(a) /\ FromUser(a, p, g) /\ Searching(a, INVALID)
  <2> DEFINE lit == NOT(s.uip)
  <2>1. lit = NOT(s.uip) /\ a = Assign(t, lit, new)
    OBVIOUS
  <2> HIDE DEF lit, a
  <2> QED
    BY <1>1, <1>3, <2>1, LearnedSearching
<1> QED
  BY <1>2, <1>4

-----------------------------------------------------------------------------
(* Every step keeps the invariant: the calls of the user. *)

LEMMA Unanswered ==
  ASSUME NEW k, Static(k), k.status = 0
  PROVE  Answered(k)
BY DEF Answered, Static, Orderly, FailedWell

LEMMA GivenClauses ==
  ASSUME NonEmptyProblems, NEW p \in Problems
  PROVE  /\ Len(p.clauses) \in Nat
         /\ \A n \in 1..Len(p.clauses) :
              /\ p.clauses[n] \in Seq(LITS) /\ DistinctLits(p.clauses[n])
              /\ p.clauses[n] # <<>>
         /\ p.assumable \subseteq LITS
<1>1. p.clauses \in Seq(Seq(LITS)) /\ p.assumable \subseteq LITS
  BY ProblemsAssumption
<1>2. Len(p.clauses) \in Nat /\ DOMAIN p.clauses = 1..Len(p.clauses)
  BY <1>1
<1>3. ASSUME NEW n \in 1..Len(p.clauses)
      PROVE  /\ p.clauses[n] \in Seq(LITS) /\ DistinctLits(p.clauses[n])
             /\ p.clauses[n] # <<>>
  <2>1. p.clauses[n] \in Seq(LITS)
    BY <1>1
  <2>2. DOMAIN p.clauses[n] = 1..Len(p.clauses[n])
    BY <2>1
  <2>3. DistinctLits(p.clauses[n])
    BY <1>2, <2>2, ProblemsAssumption DEF DistinctLits
  <2>4. p.clauses[n] # <<>>
    BY <1>2 DEF NonEmptyProblems
  <2> QED
    BY <2>1, <2>3, <2>4
<1> QED
  BY <1>1, <1>2, <1>3

(* What a call of the user has to keep. *)
Served(p, g, k) == k \in Kittens /\ Static(k) /\ Answered(k) /\ FromUser(k, p, g)

LEMMA UserFacts ==
  ASSUME IInv, pc = "user"
  PROVE  /\ Served(problem, given, kitten) /\ conflict = INVALID
         /\ problem \in Problems /\ given \in 0..Len(problem.clauses)
BY DEF IInv, Consistent, Served

LEMMA UserKept ==
  ASSUME IInv, pc = "user", pc' = "user", problem' = problem, conflict' = conflict,
         given' \in 0..Len(problem.clauses), Served(problem, given', kitten')
  PROVE  IInv'
<1>1. Consistent(problem', given', kitten', pc', conflict')
  BY UserFacts DEF Consistent, Served, INVALID
<1> QED
  BY <1>1 DEF IInv

LEMMA ClearStep ==
  ASSUME NonEmptyProblems, IInv, Clear
  PROVE  IInv'
<1>1. /\ pc = "user" /\ pc' = pc /\ problem' = problem /\ conflict' = conflict
      /\ given' = 0 /\ kitten' = Emptied
  BY DEF Clear, User
<1>2. /\ Emptied \in Kittens /\ Static(Emptied) /\ Emptied.status = 0
      /\ Originals(Emptied) = {}
  BY EmptiedWell
<1>3. Served(problem, 0, Emptied)
  BY <1>2, Unanswered DEF Served, FromUser
<1>4. 0 \in 0..Len(problem.clauses)
  BY <1>1, UserFacts, GivenClauses
<1> QED
  BY <1>1, <1>3, <1>4, UserKept

LEMMA TrackStep ==
  ASSUME IInv, TrackAntecedents
  PROVE  IInv'
<1>1. /\ pc = "user" /\ pc' = pc /\ problem' = problem /\ conflict' = conflict
      /\ given' = given /\ kitten' = [kitten EXCEPT !.antecedents = TRUE]
      /\ kitten.status = 0 /\ ~kitten.learned /\ kitten.inconsistent = INVALID
  BY DEF TrackAntecedents, User
<1>2. Served(problem, given, kitten) /\ given \in 0..Len(problem.clauses)
  BY <1>1, UserFacts
<1>3. Served(problem, given, kitten')
  <2> DEFINE c == [kitten EXCEPT !.antecedents = TRUE]
  <2>1. /\ kitten \in Kittens /\ Static(kitten) /\ FromUser(kitten, problem, given)
    BY <1>2 DEF Served
  <2>2. c \in Kittens
    BY <1>1, <2>1, TrackEffect
  <2>3. Static(c)
    BY <1>1, <2>1, TrackEffect
  <2>4. FromUser(c, problem, given)
    BY <1>1, <2>1, TrackEffect
  <2>5. c.status = 0
    BY <1>1, <2>1 DEF Kittens
  <2> HIDE DEF c
  <2>6. Served(problem, given, c)
    BY <2>2, <2>3, <2>4, <2>5, Unanswered DEF Served
  <2> QED
    BY <1>1, <2>6 DEF c
<1> QED
  BY <1>1, <1>2, <1>3, UserKept

LEMMA AddClauseStep ==
  ASSUME NonEmptyProblems, IInv, AddClause
  PROVE  IInv'
<1> DEFINE lits == problem.clauses[given + 1]
<1>1. /\ pc = "user" /\ pc' = pc /\ problem' = problem /\ conflict' = conflict
      /\ given' = given + 1 /\ given < Len(problem.clauses)
      /\ kitten' = NewOriginal(FoldLeft(Import, Reused(kitten), lits), given + 1, lits)
  BY DEF AddClause, User
<1>2. /\ Served(problem, given, kitten) /\ given \in 0..Len(problem.clauses)
      /\ problem \in Problems
  BY <1>1, UserFacts
<1>3. Len(problem.clauses) \in Nat
  BY <1>2, GivenClauses
<1>4. given \in Nat /\ given + 1 \in 1..Len(problem.clauses)
  BY <1>1, <1>2, <1>3
<1>5. lits \in Seq(LITS) /\ DistinctLits(lits) /\ lits # <<>>
  BY <1>2, <1>4, GivenClauses
<1>6. Served(problem, given + 1, kitten')
  <2>1. lits = problem.clauses[given + 1]
    OBVIOUS
  <2> HIDE DEF lits
  <2>2. kitten \in Kittens /\ Static(kitten) /\ FromUser(kitten, problem, given)
    BY <1>2 DEF Served
  <2>3. /\ kitten' \in Kittens /\ Static(kitten') /\ kitten'.status = 0
        /\ FromUser(kitten', problem, given + 1)
    BY <1>1, <1>4, <1>5, <2>1, <2>2, AddClauseEffect
  <2> QED
    BY <2>3, Unanswered DEF Served
<1>7. given + 1 \in 0..Len(problem.clauses)
  BY <1>4
<1> QED
  BY <1>1, <1>6, <1>7, UserKept

LEMMA AssumeStep ==
  ASSUME NonEmptyProblems, IInv, NEW lit \in LITS, Assume(lit)
  PROVE  IInv'
<1>1. /\ pc = "user" /\ pc' = pc /\ problem' = problem /\ conflict' = conflict
      /\ given' = given
      /\ kitten' = WithAssumption(kitten, lit)
  BY DEF Assume, User, WithAssumption
<1>2. Served(problem, given, kitten) /\ given \in 0..Len(problem.clauses)
  BY <1>1, UserFacts
<1>3. kitten \in Kittens /\ Static(kitten) /\ FromUser(kitten, problem, given)
  BY <1>2 DEF Served
<1>4. /\ kitten' \in Kittens /\ Static(kitten') /\ kitten'.status = 0
      /\ FromUser(kitten', problem, given)
  BY <1>1, <1>3, AssumeEffect
<1>5. Served(problem, given, kitten')
  BY <1>4, Unanswered DEF Served
<1> QED
  BY <1>1, <1>2, <1>5, UserKept

LEMMA PhasesStep ==
  ASSUME IInv, RandomizePhases \/ FlipPhases
  PROVE  IInv'
<1>1. /\ pc = "user" /\ pc' = pc /\ problem' = problem /\ conflict' = conflict
      /\ given' = given
  BY DEF RandomizePhases, FlipPhases, User
<1>2. Served(problem, given, kitten) /\ given \in 0..Len(problem.clauses)
  BY <1>1, UserFacts
<1>3. \E P \in SUBSET Vars : kitten' = [kitten EXCEPT !.phases = P]
  <2>1. CASE RandomizePhases
    BY <2>1, PhasesAssumption DEF RandomizePhases
  <2>2. CASE FlipPhases
    <3>1. kitten' = [kitten EXCEPT !.phases = Vars \ @]
      BY <2>2 DEF FlipPhases
    <3>2. Vars \ kitten.phases \in SUBSET Vars
      OBVIOUS
    <3> QED
      BY <3>1, <3>2
  <2> QED
    BY <2>1, <2>2
<1>4. PICK P \in SUBSET Vars : kitten' = [kitten EXCEPT !.phases = P]
  BY <1>3
<1>5. Served(problem, given, kitten')
  <2>1. /\ kitten \in Kittens /\ Static(kitten) /\ Answered(kitten)
        /\ FromUser(kitten, problem, given)
    BY <1>2 DEF Served
  <2>2. /\ kitten' \in Kittens /\ Static(kitten') /\ Answered(kitten')
        /\ FromUser(kitten', problem, given)
    BY <1>4, <2>1, PhasesEffect
  <2> QED
    BY <2>2 DEF Served
<1> QED
  BY <1>1, <1>2, <1>5, UserKept

LEMMA ShuffleStep ==
  ASSUME IInv, ShuffleClauses
  PROVE  IInv'
<1>1. /\ pc = "user" /\ pc' = pc /\ problem' = problem /\ conflict' = conflict
      /\ given' = given /\ kitten.status = 0 /\ kitten.queue # <<>>
  BY DEF ShuffleClauses, User
<1>2. Served(problem, given, kitten) /\ given \in 0..Len(problem.clauses)
  BY <1>1, UserFacts
<1>3. PICK queue \in Shuffled(kitten.queue), units \in Shuffled(kitten.units),
           watches \in {[l \in LITS |-> Reverse(kitten.watches[l])], kitten.watches} :
        kitten' = Reordered(kitten, queue, units, watches)
  BY DEF ShuffleClauses, Reordered
<1>4. kitten \in Kittens /\ Static(kitten) /\ FromUser(kitten, problem, given)
  BY <1>2 DEF Served
<1>5. /\ kitten' \in Kittens /\ Static(kitten') /\ kitten'.status = 0
      /\ FromUser(kitten', problem, given)
  BY <1>1, <1>3, <1>4, ShuffleEffect
<1>6. Served(problem, given, kitten')
  BY <1>5, Unanswered DEF Served
<1> QED
  BY <1>1, <1>2, <1>6, UserKept

LEMMA FlipStep ==
  ASSUME IInv, NEW lit \in LITS, FlipLiteral(lit)
  PROVE  IInv'
<1>1. /\ pc = "user" /\ pc' = pc /\ problem' = problem /\ conflict' = conflict
      /\ given' = given /\ kitten.status = 10 /\ IDX(lit) \in Knows(kitten)
      /\ kitten.levelOf[IDX(lit)] > 0 /\ kitten' = Flip(kitten, lit)
  BY DEF FlipLiteral, User, Knows
<1>2. Served(problem, given, kitten) /\ given \in 0..Len(problem.clauses)
  BY <1>1, UserFacts
<1>3. Served(problem, given, kitten')
  <2>1. /\ kitten \in Kittens /\ Static(kitten) /\ Answered(kitten)
        /\ FromUser(kitten, problem, given)
    BY <1>2 DEF Served
  <2>2. Flip(kitten, lit) \in Kittens /\ Static(Flip(kitten, lit))
        /\ Answered(Flip(kitten, lit)) /\ FromUser(Flip(kitten, lit), problem, given)
    BY <1>1, <2>1, FlipEffect
  <2> QED
    BY <1>1, <2>2 DEF Served
<1> QED
  BY <1>1, <1>2, <1>3, UserKept

LEMMA ComputeCoreStep ==
  ASSUME IInv, ComputeCore
  PROVE  IInv'
<1>1. /\ pc = "user" /\ pc' = pc /\ problem' = problem /\ conflict' = conflict
      /\ given' = given /\ kitten.status = 20 /\ kitten.antecedents
      /\ kitten' = ComputeClausalCore(kitten)
  BY DEF ComputeCore, User
<1>2. Served(problem, given, kitten) /\ given \in 0..Len(problem.clauses)
  BY <1>1, UserFacts
<1>3. Served(problem, given, kitten')
  <2> DEFINE c == ComputeClausalCore(kitten)
  <2>1. /\ kitten \in Kittens /\ Static(kitten) /\ Answered(kitten)
        /\ FromUser(kitten, problem, given)
    BY <1>2 DEF Served
  <2>2. c \in Kittens /\ Static(c) /\ Answered(c) /\ FromUser(c, problem, given)
    BY <1>1, <2>1, ComputeCoreEffect
  <2> QED
    BY <1>1, <2>2 DEF Served
<1> QED
  BY <1>1, <1>2, <1>3, UserKept

LEMMA ShrinkStep ==
  ASSUME NonEmptyProblems, IInv, Shrink
  PROVE  IInv'
<1>1. /\ pc = "user" /\ pc' = pc /\ problem' = problem /\ conflict' = conflict
      /\ given' = given /\ kitten.status = 21 /\ kitten.inconsistent # INVALID
      /\ kitten' = ShrinkToClausalCore(kitten)
  BY DEF Shrink, User
<1>2. /\ Served(problem, given, kitten) /\ given \in 0..Len(problem.clauses)
      /\ problem \in Problems
  BY <1>1, UserFacts
<1>3. /\ kitten \in Kittens /\ Static(kitten) /\ Answered(kitten)
      /\ FromUser(kitten, problem, given)
  BY <1>2 DEF Served
<1>4. ASSUME NEW ref \in Originals(kitten)
      PROVE  Klause(kitten, ref).lits # <<>>
  <2> DEFINE id == Klause(kitten, ref).id
  <2>1. id \in 1..given /\ Lits(kitten, ref) = ToSet(problem.clauses[id])
    BY <1>3 DEF FromUser
  <2>2. id \in 1..Len(problem.clauses)
    BY <1>2, <2>1, GivenClauses
  <2> HIDE DEF id
  <2>3. problem.clauses[id] \in Seq(LITS) /\ problem.clauses[id] # <<>>
    BY <1>2, <2>2, GivenClauses
  <2>4. ToSet(problem.clauses[id]) # {}
    <3> DEFINE s == problem.clauses[id]
    <3>1. s \in Seq(LITS) /\ s # <<>>
      BY <2>3
    <3> HIDE DEF s
    <3>2. 1 \in 1..Len(s) /\ ToSet(s) = {s[i] : i \in 1..Len(s)}
      BY <3>1, SetOfSeq
    <3>3. s[1] \in ToSet(s)
      BY <3>2
    <3> QED
      BY <3>3 DEF s
  <2>5. Klause(kitten, ref).lits = <<>> => Lits(kitten, ref) = {}
    BY DEF Lits, ToSet
  <2> QED
    BY <2>1, <2>4, <2>5
<1>5. Served(problem, given, kitten')
  <2> DEFINE c == ShrinkToClausalCore(kitten)
  <2>1. c \in Kittens /\ Static(c) /\ c.status = 0 /\ FromUser(c, problem, given)
    BY <1>1, <1>3, <1>4, ShrinkEffect
  <2> HIDE DEF c
  <2>2. Answered(c)
    BY <2>1, Unanswered
  <2> QED
    BY <1>1, <2>1, <2>2 DEF Served, c
<1> QED
  BY <1>1, <1>2, <1>5, UserKept

-----------------------------------------------------------------------------
(* Every step keeps the invariant: solving. *)

LEMMA SolvingFacts ==
  ASSUME IInv
  PROVE  /\ kitten \in Kittens /\ Static(kitten) /\ FromUser(kitten, problem, given)
         /\ problem \in Problems /\ given \in 0..Len(problem.clauses) /\ conflict \in Nat
         /\ pc = "units" => Cleared(kitten) /\ kitten.status = 0
         /\ pc \in {"propagate", "decide"} => Searching(kitten, conflict)
         /\ pc = "decide" => kitten.propagated = Len(kitten.trail)
         /\ pc # "propagate" => conflict = INVALID
BY DEF IInv, Consistent

(* An answer. *)
LEMMA Answering ==
  ASSUME IInv, problem' = problem, given' = given, pc' = "user", conflict' = INVALID,
         kitten' \in Kittens, Static(kitten'), Answered(kitten'),
         FromUser(kitten', problem, given)
  PROVE  IInv'
<1>1. Consistent(problem', given', kitten', pc', conflict')
  BY SolvingFacts DEF Consistent, INVALID
<1> QED
  BY <1>1 DEF IInv

(* Search goes on. *)
LEMMA GoesOn ==
  ASSUME IInv, problem' = problem, given' = given, pc' = "propagate", conflict' \in Nat,
         kitten' \in Kittens, Static(kitten'), Searching(kitten', conflict'),
         FromUser(kitten', problem, given)
  PROVE  IInv'
<1>1. Consistent(problem', given', kitten', pc', conflict')
  BY SolvingFacts DEF Consistent
<1> QED
  BY <1>1 DEF IInv

LEMMA SolveStep ==
  ASSUME IInv, Solve
  PROVE  IInv'
<1>1. /\ pc = "user" /\ pc' = "units" /\ problem' = problem /\ given' = given
      /\ conflict' = conflict
      /\ kitten' = IF kitten.status # 0 THEN ResetIncremental(kitten)
                   ELSE CompletelyBacktrack(kitten)
  BY DEF Solve
<1>2. /\ kitten \in Kittens /\ Static(kitten) /\ FromUser(kitten, problem, given)
      /\ problem \in Problems /\ given \in 0..Len(problem.clauses) /\ conflict = INVALID
  BY <1>1, SolvingFacts
<1>3. /\ kitten' \in Kittens /\ Static(kitten') /\ Cleared(kitten') /\ kitten'.status = 0
      /\ FromUser(kitten', problem, given)
  <2>1. CASE kitten.status # 0
    <3>1. Fresh(kitten, ResetIncremental(kitten))
      BY <1>2, ResetIncrementalEffect
    <3>2. kitten' = ResetIncremental(kitten)
      BY <1>1, <2>1
    <3>3. /\ kitten' \in Kittens /\ Static(kitten') /\ Cleared(kitten') /\ kitten'.status = 0
          /\ SameFormula(kitten, kitten')
      BY <3>1, <3>2 DEF Fresh
    <3>4. FromUser(kitten', problem, given)
      BY <1>2, <3>3, MarkedFromUser DEF Static, Orderly, Clausal
    <3> QED
      BY <3>3, <3>4
  <2>2. CASE kitten.status = 0
    <3>1. kitten' = CompletelyBacktrack(kitten)
      BY <1>1, <2>2
    <3>2. /\ kitten' \in Kittens /\ OnlySearched(kitten, kitten') /\ Cleared(kitten')
          /\ Static(kitten')
      BY <1>2, <3>1, CompletelyBacktrackEffect
    <3>3. kitten'.status = 0
      BY <2>2, <3>2 DEF OnlySearched
    <3>4. /\ Originals(kitten') = Originals(kitten)
          /\ \A ref : Klause(kitten', ref) = Klause(kitten, ref)
                      /\ Lits(kitten', ref) = Lits(kitten, ref)
      BY <3>2, OnlySearchedFrame
    <3>5. FromUser(kitten', problem, given)
      BY <1>2, <3>4 DEF FromUser
    <3> QED
      BY <3>2, <3>3, <3>5
  <2> QED
    BY <2>1, <2>2
<1>4. Consistent(problem', given', kitten', pc', conflict')
  BY <1>1, <1>2, <1>3 DEF Consistent, INVALID
<1> QED
  BY <1>4 DEF IInv

(* The last status, with the answer. *)
Concluded(k, res) == [k EXCEPT !.status = res]

LEMMA ConcludedAnswer ==
  ASSUME NEW k, NEW res, res # 0, Answer(k, res)
  PROVE  kitten' = Concluded(k, res) /\ pc' = "user" /\ conflict' = INVALID
BY DEF Answer, Concluded

LEMMA UnitsStep ==
  ASSUME IInv, PropagateUnits
  PROVE  IInv'
<1> DEFINE base == [kit |-> kitten, conflict |-> INVALID]
           s == FoldLeft(AssignUnit, base, kitten.units)
<1>1. /\ pc = "units" /\ problem' = problem /\ given' = given
      /\ IF kitten.inconsistent # INVALID THEN Answer(kitten, 20)
         ELSE IF s.conflict # INVALID THEN Answer(Inconsistent(s.kit, s.conflict), 20)
              ELSE kitten' = s.kit /\ pc' = "propagate" /\ conflict' = conflict
  BY DEF PropagateUnits, Solving
<1>2. /\ kitten \in Kittens /\ Static(kitten) /\ FromUser(kitten, problem, given)
      /\ Cleared(kitten) /\ kitten.status = 0 /\ conflict = INVALID
  BY <1>1, SolvingFacts
<1> HIDE DEF s, base
<1>3. CASE kitten.inconsistent # INVALID
  <2>1. kitten' = Concluded(kitten, 20) /\ pc' = "user" /\ conflict' = INVALID
    BY <1>1, <1>3, ConcludedAnswer
  <2>2. kitten' = [kitten EXCEPT !.status = 20]
    BY <2>1 DEF Concluded
  <2>3. /\ kitten' \in Kittens /\ Static(kitten') /\ Answered(kitten')
        /\ FromUser(kitten', problem, given)
    BY <1>2, <1>3, <2>2, AnswerInconsistent
  <2> QED
    BY <1>1, <2>1, <2>3, Answering
<1>4. CASE kitten.inconsistent = INVALID
  <2>1. UnitsState(kitten, Len(kitten.units), s)
    BY <1>2, <1>4, UnitsFold DEF s, base
  <2>2. CASE s.conflict # INVALID
    <3>1. kitten' = Concluded(Inconsistent(s.kit, s.conflict), 20) /\ pc' = "user"
          /\ conflict' = INVALID
      BY <1>1, <1>4, <2>2, ConcludedAnswer
    <3>2. kitten' = [Inconsistent(s.kit, s.conflict) EXCEPT !.status = 20]
      BY <3>1 DEF Concluded
    <3>3. /\ kitten' \in Kittens /\ Static(kitten') /\ Answered(kitten')
          /\ FromUser(kitten', problem, given)
      BY <1>2, <2>1, <2>2, <3>2, UnitsRefuted
    <3> QED
      BY <1>1, <3>1, <3>3, Answering
  <2>3. CASE s.conflict = INVALID
    <3>1. kitten' = s.kit /\ pc' = "propagate" /\ conflict' = INVALID
      BY <1>1, <1>2, <1>4, <2>3
    <3>2. /\ kitten' \in Kittens /\ Static(kitten') /\ FromUser(kitten', problem, given)
          /\ Searching(kitten', INVALID)
      BY <1>2, <2>1, <2>3, <3>1, UnitsSearching
    <3> QED
      BY <1>1, <3>1, <3>2, GoesOn DEF INVALID
  <2> QED
    BY <2>2, <2>3
<1> QED
  BY <1>3, <1>4

LEMMA PropagateStep ==
  ASSUME IInv, Propagate
  PROVE  IInv'
<1> DEFINE s == PropagateLiteral(kitten)
<1>1. /\ pc = "propagate" /\ pc' = "propagate" /\ problem' = problem /\ given' = given
      /\ conflict = INVALID /\ kitten.propagated < Len(kitten.trail)
      /\ kitten' = s.kit /\ conflict' = s.conflict
  BY DEF Propagate, Solving
<1>2. /\ kitten \in Kittens /\ Static(kitten) /\ FromUser(kitten, problem, given)
      /\ Searching(kitten, INVALID)
  BY <1>1, SolvingFacts
<1>3. /\ s.kit \in Kittens /\ Static(s.kit) /\ FromUser(s.kit, problem, given)
      /\ Searching(s.kit, s.conflict) /\ s.conflict \in Nat
  BY <1>1, <1>2, PropagateEffect
<1> HIDE DEF s
<1> QED
  BY <1>1, <1>3, GoesOn

LEMMA ConflictStep ==
  ASSUME IInv, AnalyzeConflict
  PROVE  IInv'
<1> DEFINE a == Analyze(kitten, conflict)
<1>1. /\ pc = "propagate" /\ pc' = "propagate" /\ problem' = problem /\ given' = given
      /\ conflict # INVALID /\ kitten.level > 0
      /\ kitten' = a /\ conflict' = INVALID
  BY DEF AnalyzeConflict, Solving
<1>2. /\ kitten \in Kittens /\ Static(kitten) /\ FromUser(kitten, problem, given)
      /\ Searching(kitten, conflict)
  BY <1>1, SolvingFacts
<1>3. /\ a \in Kittens /\ Static(a) /\ FromUser(a, problem, given)
      /\ Searching(a, INVALID) /\ INVALID \in Nat
  BY <1>1, <1>2, AnalyzeEffect DEF INVALID
<1> HIDE DEF a
<1> QED
  BY <1>1, <1>3, GoesOn

LEMMA RootConflictStep ==
  ASSUME IInv, RootConflict
  PROVE  IInv'
<1>1. /\ pc = "propagate" /\ problem' = problem /\ given' = given
      /\ conflict # INVALID /\ kitten.level = 0 /\ Answer(Inconsistent(kitten, conflict), 20)
  BY DEF RootConflict, Solving
<1>2. /\ kitten \in Kittens /\ Static(kitten) /\ FromUser(kitten, problem, given)
      /\ Searching(kitten, conflict)
  BY <1>1, SolvingFacts
<1>3. /\ kitten' = Concluded(Inconsistent(kitten, conflict), 20) /\ pc' = "user"
      /\ conflict' = INVALID
  BY <1>1, ConcludedAnswer
<1>4. kitten' = [Inconsistent(kitten, conflict) EXCEPT !.status = 20]
  BY <1>3 DEF Concluded
<1>5. /\ kitten' \in Kittens /\ Static(kitten') /\ Answered(kitten')
      /\ FromUser(kitten', problem, given)
  BY <1>1, <1>2, <1>4, RootConflictEffect
<1> QED
  BY <1>1, <1>3, <1>5, Answering

LEMMA PropagatedStep ==
  ASSUME IInv, Propagated
  PROVE  IInv'
<1>1. /\ pc = "propagate" /\ pc' = "decide" /\ problem' = problem /\ given' = given
      /\ conflict = INVALID /\ kitten.propagated = Len(kitten.trail)
      /\ kitten' = kitten /\ conflict' = conflict
  BY DEF Propagated, Solving
<1>2. Consistent(problem', given', kitten', pc', conflict')
  BY <1>1, SolvingFacts DEF Consistent
<1> QED
  BY <1>2 DEF IInv

(* Everything was propagated: an answer, or a decision. *)
LEMMA DecideStep ==
  ASSUME IInv, Decide
  PROVE  IInv'
<1> DEFINE k == Assuming(Flushed(kitten))
<1>1. /\ pc = "decide" /\ problem' = problem /\ given' = given
      /\ \/ /\ \E a \in NextAssumption(k) : IsFalse(k, a)
            /\ Answer(Failing(k), 20)
         \/ /\ \A a \in NextAssumption(k) : ~IsFalse(k, a)
            /\ Unassigned(k) = {}
            /\ Answer(k, 10)
         \/ /\ \A a \in NextAssumption(k) : ~IsFalse(k, a)
            /\ Unassigned(k) # {}
            /\ \/ Answer(k, 0)
               \/ kitten' = DecideLiteral(k) /\ pc' = "propagate" /\ conflict' = conflict
  BY DEF Decide, Solving
<1>2. Quiet(kitten, problem, given) /\ conflict = INVALID
  BY <1>1, SolvingFacts DEF Quiet
<1>3. /\ Quiet(k, problem, given)
      /\ k.level < Len(k.assumptions) => ~IsTrue(k, k.assumptions[k.level + 1])
  BY <1>2, FlushedEffect, AssumingEffect
<1> HIDE DEF k
<1>4. k.level < Len(k.assumptions) => NextAssumption(k) = {k.assumptions[k.level + 1]}
  BY DEF NextAssumption
<1>5. CASE (\E a \in NextAssumption(k) : IsFalse(k, a)) /\ Answer(Failing(k), 20)
  <2>1. k.level < Len(k.assumptions) /\ IsFalse(k, k.assumptions[k.level + 1])
    BY <1>5 DEF NextAssumption
  <2>2. kitten' = Concluded(Failing(k), 20) /\ pc' = "user" /\ conflict' = INVALID
    BY <1>5, ConcludedAnswer
  <2>3. kitten' = Refuting(Failing(k))
    BY <2>2 DEF Concluded, Refuting
  <2>4. /\ kitten' \in Kittens /\ Static(kitten') /\ Answered(kitten')
        /\ FromUser(kitten', problem, given)
    BY <1>3, <2>1, <2>3, FailingEffect
  <2> QED
    BY <1>1, <2>2, <2>4, Answering
<1>6. ASSUME \A a \in NextAssumption(k) : ~IsFalse(k, a)
      PROVE  k.level < Len(k.assumptions) =>
               ~IsTrue(k, k.assumptions[k.level + 1]) /\ ~IsFalse(k, k.assumptions[k.level + 1])
  BY <1>3, <1>4, <1>6
<1>7. CASE /\ \A a \in NextAssumption(k) : ~IsFalse(k, a)
           /\ Unassigned(k) = {}
           /\ Answer(k, 10)
  <2>1. \A i \in 1..Len(k.assumptions) : i <= k.level
    <3>1. ~(k.level < Len(k.assumptions))
      <4> SUFFICES ASSUME k.level < Len(k.assumptions) PROVE FALSE
        OBVIOUS
      <4>1. k.level \in Nat /\ Len(k.assumptions) \in Nat
        BY <1>3, QuietFacts
      <4>2. k.level + 1 \in 1..Len(k.assumptions)
        BY <4>1
      <4>3. IsTrue(k, k.assumptions[k.level + 1]) \/ IsFalse(k, k.assumptions[k.level + 1])
        BY <1>3, <1>7, <4>2, QuietModel
      <4> QED
        BY <1>6, <1>7, <4>3
    <3>2. k.level \in Nat /\ Len(k.assumptions) \in Nat
      BY <1>3, QuietFacts
    <3> QED
      BY <3>1, <3>2
  <2>2. kitten' = Concluded(k, 10) /\ pc' = "user" /\ conflict' = INVALID
    BY <1>7, ConcludedAnswer
  <2>3. kitten' = [k EXCEPT !.status = 10]
    BY <2>2 DEF Concluded
  <2>4. /\ kitten' \in Kittens /\ Static(kitten') /\ Answered(kitten')
        /\ FromUser(kitten', problem, given)
    BY <1>3, <1>7, <2>1, <2>3, AnswerSatisfied
  <2> QED
    BY <1>1, <2>2, <2>4, Answering
<1>8. CASE Answer(k, 0)
  <2> DEFINE free == IF k.assumptions # <<>> THEN ResetAssumptions(k) ELSE k
  <2>1. kitten' = [free EXCEPT !.status = 0] /\ pc' = "user" /\ conflict' = INVALID
    BY <1>8 DEF Answer
  <2>2. free = IF k.assumptions # <<>> THEN ResetAssumptions(k) ELSE k
    OBVIOUS
  <2> HIDE DEF free
  <2>3. /\ kitten' \in Kittens /\ Static(kitten') /\ Answered(kitten')
        /\ FromUser(kitten', problem, given)
    BY <1>3, <2>1, <2>2, AnswerUnknown
  <2> QED
    BY <1>1, <2>1, <2>3, Answering
<1>9. CASE /\ \A a \in NextAssumption(k) : ~IsFalse(k, a)
           /\ Unassigned(k) # {}
           /\ kitten' = DecideLiteral(k) /\ pc' = "propagate" /\ conflict' = conflict
  <2>1. /\ kitten' \in Kittens /\ Static(kitten') /\ FromUser(kitten', problem, given)
        /\ Searching(kitten', INVALID)
    BY <1>3, <1>6, <1>9, DecideLiteralEffect
  <2> QED
    BY <1>1, <1>2, <1>9, <2>1, GoesOn DEF INVALID
<1> QED
  BY <1>1, <1>5, <1>7, <1>8, <1>9

-----------------------------------------------------------------------------
(* The invariant of all behaviors. *)

LEMMA StartsConsistent ==
  ASSUME NonEmptyProblems, Init
  PROVE  IInv
<1>1. /\ problem \in Problems /\ given = 0 /\ kitten = Emptied /\ pc = "user"
      /\ conflict = INVALID
  BY DEF Init
<1>2. /\ Emptied \in Kittens /\ Static(Emptied) /\ Emptied.status = 0
      /\ Originals(Emptied) = {}
  BY EmptiedWell
<1>3. 0 \in 0..Len(problem.clauses)
  BY <1>1, GivenClauses
<1>4. Answered(Emptied)
  BY <1>2, Unanswered
<1>5. FromUser(Emptied, problem, 0)
  BY <1>2 DEF FromUser
<1>6. Consistent(problem, 0, Emptied, "user", INVALID)
  BY <1>1, <1>2, <1>3, <1>4, <1>5 DEF Consistent, INVALID
<1> QED
  BY <1>1, <1>6 DEF IInv

LEMMA StepsConsistent ==
  ASSUME NonEmptyProblems, IInv, [Next]_vars
  PROVE  IInv'
<1>1. CASE Clear
  BY <1>1, ClearStep
<1>2. CASE TrackAntecedents
  BY <1>2, TrackStep
<1>3. CASE AddClause
  BY <1>3, AddClauseStep
<1>4. ASSUME NEW lit \in LITS, Assume(lit)
      PROVE  IInv'
  BY <1>4, AssumeStep
<1>5. ASSUME NEW lit \in LITS, FlipLiteral(lit)
      PROVE  IInv'
  BY <1>5, FlipStep
<1>6. CASE RandomizePhases \/ FlipPhases
  BY <1>6, PhasesStep
<1>7. CASE ShuffleClauses
  BY <1>7, ShuffleStep
<1>8. CASE ComputeCore
  BY <1>8, ComputeCoreStep
<1>9. CASE Shrink
  BY <1>9, ShrinkStep
<1>10. CASE Solve
  BY <1>10, SolveStep
<1>11. CASE PropagateUnits
  BY <1>11, UnitsStep
<1>12. CASE Propagate
  BY <1>12, PropagateStep
<1>13. CASE AnalyzeConflict
  BY <1>13, ConflictStep
<1>14. CASE RootConflict
  BY <1>14, RootConflictStep
<1>15. CASE Propagated
  BY <1>15, PropagatedStep
<1>16. CASE Decide
  BY <1>16, DecideStep
<1>17. CASE UNCHANGED vars
  BY <1>17 DEF vars, IInv
<1> QED
  BY <1>1, <1>2, <1>3, <1>4, <1>5, <1>6, <1>7, <1>8, <1>9, <1>10, <1>11, <1>12, <1>13,
     <1>14, <1>15, <1>16, <1>17 DEF Next

(* The invariant that the promises follow from holds always: nothing that the
   users of the embedded solver ask of it breaks its lists. *)
THEOREM Consistency ==
  ASSUME NonEmptyProblems
  PROVE  Spec => []IInv
<1>1. Init => IInv
  BY StartsConsistent
<1>2. IInv /\ [Next]_vars => IInv'
  BY StepsConsistent
<1> QED
  BY <1>1, <1>2, PTL DEF Spec

-----------------------------------------------------------------------------
(* What follows for the users. *)

LEMMA ChainsFollow ==
  ASSUME IInv
  PROVE  ChainsImplied
<1>1. Derived(kitten)
  BY SolvingFacts DEF Static, Orderly, Clausal
<1> SUFFICES ASSUME NEW ref \in 1..Len(kitten.klauses), Klause(kitten, ref).learned
             PROVE  Entails(ClausesOf(IF kitten.antecedents THEN Klause(kitten, ref).antecedents
                                      ELSE Originals(kitten)), ToSet(Klause(kitten, ref).lits))
  BY DEF ChainsImplied
<1> DEFINE refs == IF kitten.antecedents THEN Klause(kitten, ref).antecedents
                   ELSE Originals(kitten)
<1>2. Follows(kitten, refs, Lits(kitten, ref))
  BY <1>1 DEF Derived, Refs
<1> HIDE DEF refs
<1>3. \A M \in ModelsOf(ClausesOf(refs)) : M \in Models /\ SatisfiesAll(kitten, M, refs)
  BY DEF ModelsOf, ClausesOf, SatisfiesAll
<1>4. Entails(ClausesOf(refs), Lits(kitten, ref))
  BY <1>2, <1>3 DEF Entails, Follows
<1> QED
  BY <1>4 DEF refs, Lits

(* Clauses of the user that are among those with certain ids. *)
LEMMA GivenRefuted ==
  ASSUME IInv, NEW refs \in SUBSET Originals(kitten), Refuted(kitten, refs),
         NEW ids, \A ref \in refs : Klause(kitten, ref).id \in ids
  PROVE  ~Satisfiable(Given(ids) \cup Assumed(kitten.failed))
<1> SUFFICES ASSUME NEW M \in Models,
                    \A C \in Given(ids) \cup Assumed(kitten.failed) : Satisfies(M, C)
             PROVE  FALSE
  BY DEF Satisfiable, ModelsOf
<1>1. FromUser(kitten, problem, given)
  BY SolvingFacts
<1>2. kitten.failed \subseteq M
  <2> SUFFICES ASSUME NEW l \in kitten.failed PROVE l \in M
    OBVIOUS
  <2>1. Satisfies(M, {l})
    BY DEF Assumed
  <2> QED
    BY <2>1 DEF Satisfies
<1>3. SatisfiesAll(kitten, M, refs)
  <2> SUFFICES ASSUME NEW ref \in refs PROVE Satisfies(M, Lits(kitten, ref))
    BY DEF SatisfiesAll
  <2>1. Lits(kitten, ref) = ToSet(problem.clauses[Klause(kitten, ref).id])
    BY <1>1 DEF FromUser
  <2>2. Lits(kitten, ref) \in Given(ids)
    BY <2>1 DEF Given
  <2> QED
    BY <2>2
<1> QED
  BY <1>2, <1>3 DEF Refuted

LEMMA AnswersFollow ==
  ASSUME IInv
  PROVE  AnswersRight
<1> SUFFICES ASSUME pc = "user"
             PROVE  /\ kitten.status = 10 =>
                         /\ \A v \in Known : (v \in kitten.values) # (NOT(v) \in kitten.values)
                         /\ \A C \in ClausesOf(Originals(kitten)) : C \cap Found # {}
                         /\ ToSet(kitten.assumptions) \subseteq Found
                    /\ kitten.status \in {20, 21} =>
                         /\ kitten.failed \subseteq ToSet(kitten.assumptions)
                         /\ ~Satisfiable(Given(1..given) \cup Assumed(kitten.failed))
                    /\ kitten.status = 21 =>
                         ~Satisfiable(Given(CoreIds(kitten)) \cup Assumed(kitten.failed))
  BY DEF AnswersRight
<1>1. /\ Static(kitten) /\ Answered(kitten) /\ FromUser(kitten, problem, given)
  BY DEF IInv, Consistent
<1>2. ASSUME kitten.status = 10
      PROVE  /\ \A v \in Known : (v \in kitten.values) # (NOT(v) \in kitten.values)
             /\ \A C \in ClausesOf(Originals(kitten)) : C \cap Found # {}
             /\ ToSet(kitten.assumptions) \subseteq Found
  <2>1. Found = FoundIn(kitten)
    BY DEF Found, FoundIn
  <2>2. /\ \A v \in Knows(kitten) : v \in kitten.values \/ NOT(v) \in kitten.values
        /\ \A ref \in Originals(kitten) : Lits(kitten, ref) \cap FoundIn(kitten) # {}
        /\ ToSet(kitten.assumptions) \subseteq FoundIn(kitten)
    BY <1>1, <1>2 DEF Answered
  <2>3. \A l \in kitten.values : NOT(l) \notin kitten.values
    BY <1>1 DEF Static, Orderly, ValuesWell
  <2>4. ASSUME NEW v \in Known
        PROVE  (v \in kitten.values) # (NOT(v) \in kitten.values)
    <3>1. v \in kitten.values <=> ~(NOT(v) \in kitten.values)
      BY <2>2, <2>3 DEF Known, Knows
    <3> QED
      BY <3>1
  <2>5. \A C \in ClausesOf(Originals(kitten)) : C \cap Found # {}
    BY <2>1, <2>2 DEF ClausesOf
  <2> QED
    BY <2>1, <2>2, <2>4, <2>5
<1>3. ASSUME kitten.status \in {20, 21}
      PROVE  /\ kitten.failed \subseteq ToSet(kitten.assumptions)
             /\ ~Satisfiable(Given(1..given) \cup Assumed(kitten.failed))
  <2>1. kitten.failed \subseteq ToSet(kitten.assumptions)
    BY <1>1 DEF Static, Orderly, FailedWell
  <2>2. Refuted(kitten, Originals(kitten))
    BY <1>1, <1>3 DEF Answered
  <2>3. \A ref \in Originals(kitten) : Klause(kitten, ref).id \in 1..given
    BY <1>1 DEF FromUser
  <2> QED
    BY <2>1, <2>2, <2>3, GivenRefuted
<1>4. ASSUME kitten.status = 21
      PROVE  ~Satisfiable(Given(CoreIds(kitten)) \cup Assumed(kitten.failed))
  <2>1. Refuted(kitten, CoreOriginals(kitten))
    BY <1>1, <1>4 DEF Answered
  <2>2. CoreOriginals(kitten) \in SUBSET Originals(kitten)
    BY DEF CoreOriginals
  <2>3. \A ref \in CoreOriginals(kitten) : Klause(kitten, ref).id \in CoreIds(kitten)
    BY DEF CoreOriginals, CoreIds
  <2> QED
    BY <2>1, <2>2, <2>3, GivenRefuted
<1> QED
  BY <1>2, <1>3, <1>4

LEMMA NothingIsMissed ==
  ASSUME IInv
  PROVE  NothingMissed
<1> SUFFICES ASSUME pc = "decide"
             PROVE  /\ \A C \in ClausesOf(1..Len(kitten.klauses)) :
                         \/ C \cap kitten.values # {}
                         \/ Cardinality({l \in C : ~IsFalse(kitten, l)}) > 1
                    /\ \A v \in Unassigned(kitten) : Stamp(kitten, v) <= Stamp(kitten, kitten.search)
  BY DEF NothingMissed
<1>1. Quiet(kitten, problem, given)
  BY SolvingFacts DEF Quiet
<1>2. \A ref \in Refs(kitten) :
        \/ Lits(kitten, ref) \cap kitten.values # {}
        \/ Cardinality({l \in Lits(kitten, ref) : ~IsFalse(kitten, l)}) > 1
  BY <1>1, QuietComplete
<1>3. \A v \in Unassigned(kitten) : Stamp(kitten, v) <= Stamp(kitten, kitten.search)
  BY <1>1, QuietComplete
<1>4. ASSUME NEW C \in ClausesOf(1..Len(kitten.klauses))
      PROVE  \/ C \cap kitten.values # {}
             \/ Cardinality({l \in C : ~IsFalse(kitten, l)}) > 1
  <2>1. PICK ref \in Refs(kitten) : C = Lits(kitten, ref)
    BY DEF ClausesOf, Refs
  <2> QED
    BY <1>2, <2>1
<1> QED
  BY <1>3, <1>4

(* Every learned clause is a consequence of its antecedents while these are
   tracked, and otherwise of the clauses of the user: cores can be trusted,
   and what kitten_trace_core writes is a derivation. *)
THEOREM ChainsAlwaysImplied ==
  ASSUME NonEmptyProblems
  PROVE  Spec => []ChainsImplied
<1>1. IInv => ChainsImplied
  BY ChainsFollow
<1> QED
  BY <1>1, Consistency, PTL

(* Every answer of kitten_solve and kitten_compute_clausal_core is right about
   the clauses that the user gave and the assumptions that failed, whatever
   was solved, flipped, shrunk, shuffled or given up before. *)
THEOREM AnswersAlwaysRight ==
  ASSUME NonEmptyProblems
  PROVE  Spec => []AnswersRight
<1>1. IInv => AnswersRight
  BY AnswersFollow
<1> QED
  BY <1>1, Consistency, PTL

(* When the solver decides, its watches have missed no unit and no conflict, and
   no unassigned variable is behind the place where the search for one starts. *)
THEOREM NothingEverMissed ==
  ASSUME NonEmptyProblems
  PROVE  Spec => []NothingMissed
<1>1. IInv => NothingMissed
  BY NothingIsMissed
<1> QED
  BY <1>1, Consistency, PTL
=============================================================================
