------------------------------- MODULE Analyze -------------------------------
(***************************************************************************)
(* Conflict analysis (analyze.c, deduce.c, learn.c, strengthen.c), one     *)
(* action per turn of its loops: a conflict with a single literal on its   *)
(* level becomes a driving clause at once; one on level 1 is a failed      *)
(* literal and yields units; any other is resolved with reasons until one  *)
(* literal of the current level is left, unless a resolvent turns out to   *)
(* strengthen the reason it comes from.  What is left is minimized and     *)
(* learned.  Bumping, which only reads 'analyzed', is left out.            *)
(***************************************************************************)
EXTENDS Minimize

CONSTANTS
  Minimizing,     \* option 'minimize'
  Otfs,           \* option 'otfs'
  EagerSubsume    \* option 'eagersubsume': how many learned clauses to retry

ASSUME AnalyzeAssumption ==
  Minimizing \in BOOLEAN /\ Otfs \in BOOLEAN /\ EagerSubsume \in 0..4

VARIABLES
  analyzed,      \* variables seen in this analysis
  resolvent,     \* literals of the current resolvent above the root level
  resolved,      \* how many reasons have been resolved
  cursor,        \* trail position (from 1) the analysis has come down to
  units,         \* units a failed literal has produced so far
  lastLearned,   \* references of the last learned large clauses
  firstReducible,   \* no redundant clause comes before it; 0 if there is none
  lastIrredundant,  \* no irredundant clause comes after it; 0 if unknown
  sinceRestart,  \* was there a conflict since the last restart?
  result         \* 0, 10 (satisfiable) or 20 (unsatisfiable)

analyzeVars == <<analyzed, resolvent, resolved, cursor, units>>

arenaVars == <<lastLearned, firstReducible, lastIrredundant>>

RootLits(lits) == OnLevel(lits, 0)

ConflictSet == ToSet(ConflictLits)

ConflictLevel == HighestLevel(ConflictSet)

(* Literals on the highest level of the conflict: more than one? *)
SeveralOnConflictLevel ==
  Cardinality(OnLevel(ConflictSet, ConflictLevel)) > 1

(* Back to the search loop with everything of the analysis reset. *)
AnalysisDone ==
  /\ conflict' = NoConflict
  /\ pc' = "propagate"
  /\ analyzed' = {}
  /\ resolvent' = {}
  /\ resolved' = 0
  /\ cursor' = 0
  /\ units' = <<>>
  /\ sinceRestart' = TRUE

-----------------------------------------------------------------------------
(***************************************************************************)
(* one_literal_on_conflict_level also moves literals of the highest levels *)
(* to the two watched positions of a large conflict clause.                *)
(***************************************************************************)
HighestFrom(lits, i) ==
  LET positions == i..Len(lits)
      top == HighestLevel({lits[j] : j \in positions})
  IN  IF LEVEL(lits[i]) = top THEN i
      ELSE CHOOSE j \in positions :
             LEVEL(lits[j]) = top /\ \A k \in i..(j - 1) : LEVEL(lits[k]) < top

Swapped(lits, i, j) == [lits EXCEPT ![i] = lits[j], ![j] = lits[i]]

(* Mutant of MoveHighestTo: the old watch is not removed. *)
MoveHighestToKeepingWatch(i, st, ref) ==
  LET j    == HighestFrom(st.lits, i)
      lits == Swapped(st.lits, i, j)
  IN  [lits |-> lits,
       watches |-> IF j > 2
                   THEN WithWatch(st.watches, lits[i], lits[3 - i], ref)
                   ELSE st.watches]

(* State of the clause and of the watch lists after position i is done. *)
MoveHighestTo(i, st, ref) ==
  LET j    == HighestFrom(st.lits, i)
      lits == Swapped(st.lits, i, j)
  IN  [lits |-> lits,
       watches |->
         IF j > 2
         THEN WithWatch(WithoutWatch(st.watches, st.lits[i], ref),
                        lits[i], lits[3 - i], ref)
         ELSE st.watches]

RewatchConflict ==
  IF conflict.ref = BINARY THEN UNCHANGED <<clauses, watches>>
  ELSE LET ref    == conflict.ref
           before == [lits |-> clauses[ref].lits, watches |-> watches]
           after  == MoveHighestTo(2, MoveHighestTo(1, before, ref), ref)
       IN  /\ clauses' = [clauses EXCEPT ![ref].lits = after.lits]
           /\ watches' = after.watches

ConflictReason(forced) ==
  IF conflict.ref = BINARY
  THEN Binary(JumpedReason(CHOOSE l \in ConflictSet : l # forced))
  ELSE Large(conflict.ref)

Analyzing == pc = "analyze"

AnalyzeRoot ==
  /\ Analyzing
  /\ level = 0 \/ ConflictLevel = 0
  /\ result' = 20
  /\ pc' = "done"
  /\ UNCHANGED <<trailVars, watchVars, analyzeVars, arenaVars, sinceRestart>>

AnalyzeForced ==
  LET forced   == CHOOSE l \in ConflictSet : LEVEL(l) = ConflictLevel
      jump     == HighestLevel(ConflictSet \ {forced})
      newLevel == DetermineNewLevel(ConflictLevel, jump)
  IN
  /\ Analyzing
  /\ ConflictLevel > 0
  /\ ~SeveralOnConflictLevel
  /\ RewatchConflict
  /\ BacktrackAndAssign(newLevel,
       <<Assignment(forced, jump, ConflictReason(forced))>>)
  /\ AnalysisDone
  /\ UNCHANGED <<unvisited, arenaVars, result>>

AnalyzeSeveral ==
  /\ Analyzing
  /\ ConflictLevel > 0
  /\ SeveralOnConflictLevel
  /\ RewatchConflict
  /\ Backtrack(ConflictLevel)
  /\ pc' = IF ConflictLevel = 1 THEN "failed" ELSE "deduce"
  /\ LET above == ConflictSet \ RootLits(ConflictSet)
     IN  /\ analyzed' = {IDX(l) : l \in above}
         /\ resolvent' = above
  /\ resolved' = 0
  /\ cursor' = Len(KeptTrail(ConflictLevel)) + 1
  /\ UNCHANGED <<unvisited, conflict, units, arenaVars, sinceRestart, result>>

-----------------------------------------------------------------------------
(***************************************************************************)
(* Walking down the trail: the next analyzed literal of the current level. *)
(***************************************************************************)
NextCursor ==
  LET below == {i \in 1..(cursor - 1) : /\ IDX(trail[i]) \in analyzed
                                        /\ LEVEL(trail[i]) = level}
  IN  CHOOSE i \in below : \A j \in below : j <= i

Uip == trail[NextCursor]

Unresolved == Cardinality(OnLevel(resolvent, level))

(* The reason literals above the root level, and those seen first here. *)
Antecedent == LET lits == ReasonLits(Uip) IN lits \ RootLits(lits)

NewLits == {l \in Antecedent : IDX(l) \notin analyzed}

Resolvent == (resolvent \ {NOT(Uip)}) \cup NewLits

-----------------------------------------------------------------------------
(***************************************************************************)
(* analyze_failed_literal: on level 1 every dominator on the way to the    *)
(* decision is learned as a unit, and the negated decision last.           *)
(***************************************************************************)
NotFailed == NOT(frames[1].decision)

Dominators == IF Unresolved = 1 THEN Append(units, NOT(Uip)) ELSE units

LearnUnits(lits) ==
  /\ BacktrackAndAssign(0, [i \in DOMAIN lits |-> Assignment(lits[i], 0, UNIT)])
  /\ AnalysisDone
  /\ UNCHANGED <<clauses, watches, unvisited, arenaVars, result>>

FailedInConflict ==
  /\ pc = "failed"
  /\ NotFailed \in resolvent
  /\ LearnUnits(<<NotFailed>>)

ResolvesFailed ==
  /\ pc = "failed"
  /\ NotFailed \notin resolvent

FailedInReason ==
  /\ ResolvesFailed
  /\ NotFailed \in ReasonLits(Uip)
  /\ LearnUnits(Append(Dominators, NotFailed))

ResolveFailed ==
  /\ ResolvesFailed
  /\ NotFailed \notin ReasonLits(Uip)
  /\ units' = Dominators
  /\ analyzed' = analyzed \cup {IDX(l) : l \in NewLits}
  /\ resolvent' = Resolvent
  /\ cursor' = NextCursor
  /\ UNCHANGED <<trailVars, watchVars, resolved, arenaVars, sinceRestart,
                 result, pc>>

-----------------------------------------------------------------------------
(***************************************************************************)
(* kissat_deduce_first_uip_clause.                                         *)
(***************************************************************************)
Deducing == pc = "deduce" /\ Unresolved > 1

(* The resolvent is smaller than the reason it was resolved with. *)
Strengthens ==
  /\ Otfs
  /\ Cardinality(Antecedent) + 1 > 2
  /\ Cardinality(Resolvent) < Cardinality(Antecedent) + 1

ResolveReason ==
  /\ Deducing
  /\ ~Strengthens
  /\ analyzed' = analyzed \cup {IDX(l) : l \in NewLits}
  /\ resolvent' = Resolvent
  /\ resolved' = resolved + 1
  /\ cursor' = NextCursor
  /\ UNCHANGED <<trailVars, watchVars, units, arenaVars, sinceRestart,
                 result, pc>>

(* Mutant of StrengthenToBinary: literals false on the root level stay. *)
StrengthenToBinaryWithRootLits(c, ref) ==
  LET pair == SelectSeq(c.lits, LAMBDA l : l # Uip)
  IN  [clauses |-> [clauses EXCEPT ![ref].garbage = TRUE],
       watches |-> WithoutWatch(
                     WithoutWatch(
                       WithWatchedPair(watches, pair[1], pair[2], BINARY),
                       c.lits[1], ref),
                     c.lits[2], ref),
       conflict |-> BinaryConflict(pair[1], pair[2])]

(* binary_on_the_fly_strengthen. *)
StrengthenToBinary(c, ref) ==
  LET pair   == SelectSeq(c.lits, LAMBDA l : l # Uip /\ LEVEL(l) > 0)
      first  == pair[1]
      second == pair[2]
  IN  [clauses |-> [clauses EXCEPT ![ref].garbage = TRUE],
       watches |-> WithoutWatch(
                     WithoutWatch(
                       WithWatchedPair(watches, first, second, BINARY),
                       c.lits[1], ref),
                     c.lits[2], ref),
       conflict |-> BinaryConflict(first, second)]

(* large_on_the_fly_strengthen: the other watched literal stays even if it
   is false on the root level. *)
StrengthenLarge(c, ref) ==
  LET other == IF c.lits[1] = Uip THEN c.lits[2] ELSE c.lits[1]
      rest  == SelectSeq(SubSeq(c.lits, 3, Len(c.lits)), LAMBDA l : LEVEL(l) > 0)
      short == <<other>> \o rest
      lits  == Swapped(short, 2, HighestFrom(short, 2))
      moved == WithWatch(WithoutWatch(watches, Uip, ref), lits[2], other, ref)
  IN  [clauses |-> [clauses EXCEPT ![ref].lits = lits],
       watches |-> [moved EXCEPT ![other] =
                      [i \in DOMAIN @ |-> IF @[i].ref = ref
                                          THEN Watch(lits[2], ref) ELSE @[i]]],
       conflict |-> LargeConflict(ref)]

(* Mutant of Subsumed: the strengthened clause stays redundant in the place
   of an irredundant one. *)
SubsumedStaysRedundant(st) ==
  IF /\ resolved = 0
     /\ Cardinality(Resolvent) < Cardinality(ConflictSet \ RootLits(ConflictSet))
  THEN [st.clauses EXCEPT ![conflict.ref].garbage = TRUE]
  ELSE st.clauses

(* kissat_on_the_fly_subsume: the first resolvent also subsumes the conflict,
   and the strengthened clause takes its place as an irredundant one. *)
Subsumed(st) ==
  IF /\ resolved = 0
     /\ Cardinality(Resolvent) < Cardinality(ConflictSet \ RootLits(ConflictSet))
  THEN LET gone == conflict.ref
           kept == st.conflict.ref
           swept == [st.clauses EXCEPT ![gone].garbage = TRUE]
       IN  IF kept # BINARY /\ ~swept[gone].redundant
           THEN [swept EXCEPT ![kept].redundant = FALSE]
           ELSE swept
  ELSE st.clauses

(* Mutant of LastAtLeast: the clause is only marked as irredundant. *)
LastAsBefore(ref) == lastIrredundant

(* kissat_update_last_irredundant. *)
LastAtLeast(ref) ==
  IF lastIrredundant = 0 \/ ref > lastIrredundant THEN ref ELSE lastIrredundant

Strengthen ==
  /\ Deducing
  /\ Strengthens
  /\ LET ref == REASON(Uip).ref
         c   == clauses[ref]
         st  == IF Cardinality(Antecedent) + 1 = 3
                THEN StrengthenToBinary(c, ref) ELSE StrengthenLarge(c, ref)
         after == Subsumed(st)
         turned == clauses[ref].redundant /\ ~after[ref].redundant
     IN  /\ clauses' = after
         /\ lastIrredundant' = IF turned THEN LastAtLeast(ref)
                               ELSE lastIrredundant
         /\ watches' = st.watches
         /\ conflict' = st.conflict
  /\ pc' = "analyze"
  /\ analyzed' = {}
  /\ resolvent' = {}
  /\ resolved' = 0
  /\ cursor' = 0
  /\ UNCHANGED <<trailVars, unvisited, units, lastLearned, firstReducible,
                 sinceRestart, result>>

-----------------------------------------------------------------------------
(***************************************************************************)
(* kissat_learn_clause: assert the negated first unique implication point  *)
(* C = {NotUip} \cup lower literals, after backtracking.                   *)
(***************************************************************************)
Deduced == pc = "deduce" /\ Unresolved = 1

NotUip == NOT(Uip)

LowerLits == resolvent \ {NotUip}

(* Mutant of Minimal: the literal that replaces a block is forgotten. *)
MinimalOnly(deduced) ==
  [lits |-> deduced \cap MinimizedAndShrunken(deduced, Uip).lits, uips |-> {}]

Minimal(deduced) == MinimizedAndShrunken(deduced, Uip)

MinimizeAndShrink ==
  /\ Deduced
  /\ Minimizing
  /\ LET minimal == Minimal(LowerLits)
     IN  /\ resolvent' = {NotUip} \cup minimal.lits
         /\ analyzed' = analyzed \cup minimal.uips
  /\ pc' = "learn"
  /\ UNCHANGED <<trailVars, watchVars, resolved, cursor, units, arenaVars,
                 sinceRestart, result>>

Learning == pc = "learn" \/ (Deduced /\ ~Minimizing)

(* eagerly_subsume_last_learned. *)
EagerlySubsumed ==
  {r \in ToSet(lastLearned) :
     /\ ~clauses[r].garbage
     /\ clauses[r].redundant
     /\ Len(clauses[r].lits) > Cardinality(resolvent)
     /\ resolvent \subseteq ToSet(clauses[r].lits)}

WithoutSubsumed == [r \in DOMAIN clauses |->
                      IF r \in EagerlySubsumed
                      THEN [clauses[r] EXCEPT !.garbage = TRUE] ELSE clauses[r]]

(* insert_last_learned drops the oldest one when there is no room. *)
Remember(refs) ==
  LET all == refs \o SelectSeq(lastLearned, LAMBDA r : r \notin EagerlySubsumed)
  IN  lastLearned' = IF Len(all) > EagerSubsume
                     THEN SubSeq(all, 1, EagerSubsume) ELSE all

LearnAndAssign(jump, reason) ==
  /\ BacktrackAndAssign(DetermineNewLevel(level, jump),
                        <<Assignment(NotUip, jump, reason)>>)
  /\ AnalysisDone
  /\ UNCHANGED <<unvisited, result>>

LearnUnit ==
  /\ Learning
  /\ LowerLits = {}
  /\ LearnAndAssign(0, UNIT)
  /\ clauses' = WithoutSubsumed
  /\ Remember(<<>>)
  /\ UNCHANGED <<watches, firstReducible, lastIrredundant>>

LearnBinary ==
  /\ Learning
  /\ \E other \in LowerLits :
       /\ LowerLits = {other}
       /\ LearnAndAssign(LEVEL(other), Binary(JumpedReason(other)))
       /\ watches' = WithWatchedPair(watches, NotUip, other, BINARY)
  /\ clauses' = WithoutSubsumed
  /\ Remember(<<>>)
  /\ UNCHANGED <<firstReducible, lastIrredundant>>

(* learn_reference watches a literal of the jump level besides NotUip. *)
LearnLarge ==
  LET ref  == Len(clauses) + 1
      jump == HighestLevel(LowerLits)
  IN
  /\ Learning
  /\ Cardinality(LowerLits) > 1
  /\ LearnAndAssign(jump, Large(ref))
  /\ LET other == CHOOSE l \in LowerLits : LEVEL(l) = jump
         lits  == <<NotUip, other>> \o SetToSeq(LowerLits \ {other})
     IN  /\ clauses' = Append(WithoutSubsumed, Clause(lits, TRUE))
         /\ watches' = WithWatchedPair(watches, NotUip, other, ref)
  /\ Remember(<<ref>>)
  /\ firstReducible' = IF firstReducible = 0 THEN ref ELSE firstReducible
  /\ UNCHANGED lastIrredundant

AnalyzeStep ==
  \/ AnalyzeRoot
  \/ AnalyzeForced
  \/ AnalyzeSeveral
  \/ FailedInConflict
  \/ FailedInReason
  \/ ResolveFailed
  \/ ResolveReason
  \/ Strengthen
  \/ MinimizeAndShrink
  \/ LearnUnit
  \/ LearnBinary
  \/ LearnLarge
=============================================================================
