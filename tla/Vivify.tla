-------------------------------- MODULE Vivify --------------------------------
(***************************************************************************)
(* Vivification (vivify.c), on the watches, levels and reasons of search:  *)
(* the negations of the literals of a candidate clause are assumed one     *)
(* after the other and propagated, over all clauses but the candidate.  A  *)
(* conflict, or a literal of the candidate that is implied, shows that     *)
(* the candidate is subsumed, redundant, or can be shrunken.  Assumptions  *)
(* are kept for the next candidate as far as they are the same.            *)
(*                                                                         *)
(* The three tiers of redundant clauses are one here, the order in which   *)
(* candidates are tried is left open, and so is when limits are hit.       *)
(* Glue is left out.                                                       *)
(***************************************************************************)
EXTENDS Reduce

VARIABLES
  vivifier,        \* what the current round is doing
  vivifications    \* how often kissat_vivify was called

vivifyVars == <<candidate, vivifier, vivifications>>

(* Phases: "idle"; "start", until the trail is flushed; "next" candidate;
   "assume" its literals; "instantiate" the last one, "instantiated". *)
Vivifier(phase, redundant, schedule) ==
  [phase |-> phase, redundant |-> redundant, schedule |-> schedule,
   counts |-> [lit \in LITS |-> 0], sorted |-> <<>>, index |-> 0, from |-> 0]

IdleVivifier == Vivifier("idle", FALSE, {})

InitVivify ==
  /\ candidate = 0
  /\ vivifier = IdleVivifier
  /\ vivifications = 0

InPhase(phase) == vivifier.phase = phase

Vivifying == ~InPhase("idle")

(* Nothing left to propagate and no conflict, or a conflict above the root
   level, which search does not analyze. *)
Quiet == pc = "loop"

Clashing == pc = "analyze"

Settled == conflict' = NoConflict /\ pc' = "loop"

vivifyRest == <<unvisited, analyzeVars, reduceVars, sinceRestart, result>>

-----------------------------------------------------------------------------
(***************************************************************************)
(* kissat_vivify, from kissat_probe, which goes back to the root level,    *)
(* propagates and flushes the trail.                                       *)
(***************************************************************************)
VivifyStart ==
  /\ vivifications' = vivifications + 1
  /\ \E redundant \in BOOLEAN : vivifier' = Vivifier("start", redundant, {})
  /\ Backtrack(0)
  /\ pc' = "propagate"
  /\ UNCHANGED <<watchVars, arenaVars, vivifyRest, candidate>>

(***************************************************************************)
(* schedule_vivification_candidates counts literals and simplifies the     *)
(* clauses to schedule.  Their literals are sorted, those with the most    *)
(* occurrences first, if they are redundant.                               *)
(***************************************************************************)
Tried(redundant) ==
  {r \in DOMAIN clauses : ~clauses[r].garbage /\ clauses[r].redundant = redundant}

RootSatisfied(ref) == \E l \in ToSet(clauses[ref].lits) : RootTrue(l)

Simplified(ref) ==
  IF RootSatisfied(ref) \/ BecomesBinary(ref)
  THEN [clauses[ref] EXCEPT !.garbage = TRUE]
  ELSE [clauses[ref] EXCEPT !.lits = Stripped(ref)]

CountsOf(arena) ==
  [lit \in LITS |->
     Cardinality({r \in DOMAIN arena :
                    ~arena[r].garbage /\ lit \in ToSet(arena[r].lits)})]

MoreOccurrences(counts, a, b) ==
  \/ counts[a] > counts[b]
  \/ counts[a] = counts[b] /\ Number(a) > Number(b)

ByOccurrences(counts, lits) ==
  SortSeq(lits, LAMBDA a, b : MoreOccurrences(counts, a, b))

(* kissat_flush_large_watches, which drops duplicated binary clauses. *)
BinaryWatchesOnce(ws) ==
  FoldLeft(LAMBDA kept, w : IF w.ref # BINARY \/ w \in ToSet(kept) THEN kept
                            ELSE Append(kept, w),
           <<>>, ws)

(* kissat_watch_large_clauses. *)
Watchable(arena, ref) ==
  IF arena[ref].garbage THEN arena[ref]
  ELSE [arena[ref] EXCEPT !.lits = SortedLits(@)]

WatchLarge(ws, arena) ==
  FoldLeftDomain(LAMBDA st, r : IF arena[r].garbage THEN st
                                ELSE WithWatchedPair(st, arena[r].lits[1],
                                                     arena[r].lits[2], r),
                 ws, arena)

VivifyRound ==
  /\ InPhase("start") /\ Quiet
  /\ LET tried == Tried(vivifier.redundant)
         simplified == [r \in DOMAIN clauses |->
                          IF r \in tried THEN Simplified(r) ELSE clauses[r]]
         counts == CountsOf(simplified)
         schedule == {r \in tried : ~simplified[r].garbage}
         sorted == [r \in DOMAIN clauses |->
                      IF r \in schedule /\ vivifier.redundant
                      THEN [simplified[r] EXCEPT
                              !.lits = ByOccurrences(counts, @)]
                      ELSE simplified[r]]
         pairs == {r \in tried : ~RootSatisfied(r) /\ BecomesBinary(r)}
         arena == [r \in DOMAIN clauses |-> Watchable(sorted, r)]
         sparse == FoldLeft(LAMBDA ws, r : WithWatchedPair(ws, Stripped(r)[1],
                                                           Stripped(r)[2], BINARY),
                            [lit \in LITS |-> BinaryWatchesOnce(watches[lit])],
                            SetToSeq(pairs))
     IN  /\ clauses' = arena
         /\ watches' = WatchLarge(sparse, arena)
         /\ vivifier' = [Vivifier("next", vivifier.redundant, schedule)
                          EXCEPT !.counts = counts]
  /\ UNCHANGED <<trailVars, conflict, pc, arenaVars, vivifyRest, candidate,
                 vivifications>>

(* The schedule is empty or a limit is hit.  The irredundant clauses come
   last. *)
VivifyRoundEnd ==
  /\ InPhase("next") /\ Quiet
  /\ Backtrack(0)
  /\ \/ /\ vivifier.redundant
        /\ vivifier' = Vivifier("start", FALSE, {})
        /\ UNCHANGED pc
     \/ vivifier' = IdleVivifier /\ pc' = "propagate"
  /\ UNCHANGED <<watchVars, arenaVars, vivifyRest, candidate, vivifications>>

-----------------------------------------------------------------------------
(***************************************************************************)
(* vivify_clause.  If the candidate is the reason of one of its literals,  *)
(* that level goes; then so do the levels from the first one on whose      *)
(* decision is not the negation of the literal in its place.               *)
(***************************************************************************)
(* Mutant of LevelBelowForced: the candidate stays a reason. *)
LevelBelowForcedKept(ref) == level

LevelBelowForced(ref) ==
  LET forced == {l \in ToSet(clauses[ref].lits) :
                   values[l] > 0 /\ REASON(l) = Large(ref)}
  IN  IF forced = {} THEN level ELSE HighestLevel(forced) - 1

Reused(sorted, bound) ==
  Max({k \in 0..bound : /\ k <= Len(sorted)
                        /\ \A i \in 1..k : frames[i].decision = NOT(sorted[i])})

VivifyCandidate ==
  /\ InPhase("next") /\ Quiet
  /\ \E ref \in vivifier.schedule :
       LET left   == [vivifier EXCEPT !.schedule = @ \ {ref}]
           sorted == ByOccurrences(vivifier.counts, Stripped(ref))
           reused == Reused(sorted, LevelBelowForced(ref))
       IN  \/ /\ RootSatisfied(ref)
              /\ clauses' = [clauses EXCEPT ![ref].garbage = TRUE]
              /\ vivifier' = left
              /\ UNCHANGED <<trailVars, candidate>>
           \/ /\ ~RootSatisfied(ref)
              /\ Len(sorted) = 2
              /\ vivifier' = left
              /\ UNCHANGED <<trailVars, clauses, candidate>>
           \/ /\ ~RootSatisfied(ref)
              /\ Len(sorted) > 2
              /\ candidate' = ref
              /\ Backtrack(reused)
              /\ vivifier' = [left EXCEPT !.phase = "assume", !.sorted = sorted,
                                          !.index = reused,
                                          !.from = Len(KeptTrail(reused))]
              /\ UNCHANGED clauses
  /\ UNCHANGED <<watches, conflict, pc, arenaVars, vivifyRest, vivifications>>

(* A literal of the candidate is true that was propagated just now. *)
JustImplied ==
  \E j \in (vivifier.from + 1)..Len(trail) : trail[j] \in ToSet(vivifier.sorted)

Open == {i \in (vivifier.index + 1)..Len(vivifier.sorted) :
           values[vivifier.sorted[i]] >= 0}

NextOpen == vivifier.sorted[Min(Open)]

(* The loop over the sorted literals skips false ones and ends at a true
   one, after a conflict, or when a literal has just been implied. *)
Assuming ==
  InPhase("assume") /\ Quiet /\ ~JustImplied /\ Open # {} /\ values[NextOpen] = 0

Assumed == InPhase("assume") /\ (Clashing \/ (Quiet /\ ~Assuming))

VivifyAssume ==
  /\ Assuming
  /\ PushDecision(NOT(NextOpen))
  /\ vivifier' = [vivifier EXCEPT !.index = Min(Open), !.from = propagate]
  /\ pc' = "propagate"
  /\ UNCHANGED <<watchVars, arenaVars, vivifyRest, candidate, vivifications>>

(* The one among the true literals that comes first on the trail; 0 if there
   is none, or a conflict. *)
Implied ==
  LET true == SelectSeq(trail, LAMBDA l : l \in ToSet(vivifier.sorted))
  IN  IF Clashing \/ true = <<>> THEN 0 ELSE Head(true)

-----------------------------------------------------------------------------
(***************************************************************************)
(* vivify_deduce goes from the conflict, the candidate or the implied      *)
(* literal through the reasons, breadth first, to decisions.               *)
(***************************************************************************)
AboveRoot(lits) == SelectSeq(lits, LAMBDA l : LEVEL(l) > 0)

StartOfAnalysis ==
  IF Implied # 0 THEN <<NOT(Implied)>>
  ELSE AboveRoot(IF Clashing THEN ConflictLits ELSE clauses[candidate].lits)

HasReason(lit) == REASON(lit) # DECISION

VivifyAnalyzed ==
  LET walk[i \in Nat, stack \in Seq(LITS)] ==
        IF i > Len(stack) THEN stack
        ELSE LET lit == NOT(stack[i])
                 others == IF HasReason(lit) THEN AboveRoot(OtherLits(lit)) ELSE <<>>
             IN  walk[i + 1, stack \o SelectSeq(others, LAMBDA l : l \notin ToSet(stack))]
  IN  walk[1, StartOfAnalysis]

(* What is learned: the implied literal and the negated decisions. *)
VivifyLearned ==
  (IF Implied # 0 THEN <<Implied>> ELSE <<>>)
    \o SelectSeq(VivifyAnalyzed, LAMBDA l : ~HasReason(NOT(l)))

(* Only literals of the candidate: a conflict, or the first such reason. *)
WithinCandidate(lits) == lits \subseteq ToSet(vivifier.sorted)

SubsumingReasons ==
  SelectSeq(VivifyAnalyzed, LAMBDA l : /\ HasReason(NOT(l))
                                       /\ WithinCandidate({NOT(l)} \cup ReasonLits(NOT(l))))

ConflictSubsumes == Clashing /\ Implied = 0 /\ WithinCandidate(ToSet(AboveRoot(ConflictLits)))

Subsumes == ConflictSubsumes \/ SubsumingReasons # <<>>

ReferenceOf(reason) == IF reason.kind = "large" THEN reason.ref ELSE BINARY

SubsumingClause ==
  IF ConflictSubsumes THEN conflict.ref
  ELSE ReferenceOf(REASON(NOT(Head(SubsumingReasons))))

(* Mutant of UsesRedundant: only the conflict is looked at. *)
UsesRedundantConflict == Clashing /\ conflict.ref # BINARY /\ clauses[conflict.ref].redundant

UsesRedundant ==
  LET refs == {ReferenceOf(REASON(NOT(l))) : l \in ToSet(VivifyAnalyzed)}
                \cup (IF Clashing THEN {conflict.ref}
                      ELSE IF Implied = 0 THEN {candidate} ELSE {})
  IN  \E r \in refs \ {BINARY} : clauses[r].redundant

(* vivify_shrinkable: the candidate has a literal that was not needed. *)
NotNeeded(lit) ==
  \/ values[lit] = 0
  \/ values[lit] > 0 /\ lit # Implied
  \/ values[lit] < 0 /\ (lit \notin ToSet(VivifyAnalyzed) \/ HasReason(NOT(lit)))

Shrinkable ==
  /\ Len(VivifyLearned) < Len(vivifier.sorted)
  /\ \E lit \in ToSet(vivifier.sorted) : NotNeeded(lit)

-----------------------------------------------------------------------------
(***************************************************************************)
(* Watching a vivified clause, after backtracking to newLevel: twice       *)
(* swap_first_literal_with_best_watch, in whose loop an inner 'value'      *)
(* hides the one the loop condition reads.                                 *)
(***************************************************************************)
ValueAt(lit, newLevel) == IF LEVEL(lit) > newLevel THEN 0 ELSE values[lit]

SwapBestTo(i, lits, newLevel) ==
  LET step(best, j) ==
        IF ValueAt(lits[j], newLevel) >= 0 THEN [best EXCEPT !.at = j]
        ELSE IF LEVEL(lits[j]) > best.level THEN [at |-> j, level |-> LEVEL(lits[j])]
        ELSE best
      best == FoldLeft(step, [at |-> i, level |-> LEVEL(lits[i])],
                       [k \in 1..(Len(lits) - i) |-> i + k])
  IN  IF ValueAt(lits[i], newLevel) >= 0 THEN lits ELSE Swapped(lits, i, best.at)

BestWatched(lits, newLevel) == SwapBestTo(2, SwapBestTo(1, lits, newLevel), newLevel)

Unwatched(ref) ==
  LET lits == clauses[ref].lits
  IN  WithoutWatch(WithoutWatch(watches, lits[1], ref), lits[2], ref)

(* Mutant of ReestablishedLevel: the watches are trusted. *)
ReestablishedLevelTrusted(lits, newLevel) == newLevel

(* reestablish_watch_invariant_for_candidate: a false watch needs a true one
   that is not assigned later, or its level goes. *)
ReestablishedLevel(lits, newLevel) ==
  LET false == {l \in {lits[1], lits[2]} : ValueAt(l, newLevel) < 0}
      broken == {l \in false :
                   ~ \E k \in {lits[1], lits[2]} :
                       /\ ValueAt(k, newLevel) > 0
                       /\ LEVEL(l) >= LEVEL(k)}
      levels == {LEVEL(l) : l \in broken}
  IN  IF levels = {} THEN newLevel ELSE Min(levels) - 1

(* After a conflict on the level of the last assumption that level goes. *)
AfterConflict(newLevel) ==
  IF Clashing /\ newLevel = level THEN newLevel - 1 ELSE newLevel

(* The end of vivify_clause, with the candidate as garbage or watched. *)
VivifiedAt(newLevel) ==
  /\ Backtrack(newLevel)
  /\ Settled
  /\ vivifier' = [vivifier EXCEPT !.phase = "next", !.sorted = <<>>,
                                  !.index = 0, !.from = 0]
  /\ candidate' = 0
  /\ UNCHANGED <<vivifyRest, lastLearned, firstReducible, vivifications>>

Discard == clauses' = [clauses EXCEPT ![candidate].garbage = TRUE]

-----------------------------------------------------------------------------
(***************************************************************************)
(* What becomes of the candidate.                                          *)
(***************************************************************************)
IsCandidateRedundant == clauses[candidate].redundant

(* Mutant of Promotes: the subsuming clause stays redundant. *)
PromotesNever(ref) == FALSE

Promotes(ref) == ref # BINARY /\ clauses[ref].redundant /\ ~IsCandidateRedundant

VivifySubsumed ==
  /\ Assumed
  /\ Subsumes
  /\ LET ref == SubsumingClause
         dropped == [clauses EXCEPT ![candidate].garbage = TRUE]
     IN  IF Promotes(ref)
         THEN /\ clauses' = [dropped EXCEPT ![ref].redundant = FALSE]
              /\ lastIrredundant' = LastAtLeast(ref)
         ELSE clauses' = dropped /\ UNCHANGED lastIrredundant
  /\ VivifiedAt(AfterConflict(level))
  /\ UNCHANGED watches

Shrinks == Assumed /\ ~Subsumes /\ Shrinkable

VivifyUnit ==
  /\ Shrinks
  /\ Len(VivifyLearned) = 1
  /\ BacktrackAndAssign(0, <<Assignment(VivifyLearned[1], 0, UNIT)>>)
  /\ Discard
  /\ conflict' = NoConflict
  /\ pc' = "propagate"
  /\ vivifier' = [vivifier EXCEPT !.phase = "next", !.sorted = <<>>,
                                  !.index = 0, !.from = 0]
  /\ candidate' = 0
  /\ UNCHANGED <<watches, arenaVars, vivifyRest, vivifications>>

VivifyBinary ==
  /\ Shrinks
  /\ Len(VivifyLearned) = 2
  /\ Discard
  /\ watches' = WithWatchedPair(watches, VivifyLearned[1], VivifyLearned[2], BINARY)
  /\ VivifiedAt(0)
  /\ UNCHANGED lastIrredundant

(* A large clause, after backtracking to newLevel. *)
Rewatch(lits, newLevel) ==
  LET best == BestWatched(lits, newLevel)
  IN  /\ clauses' = [clauses EXCEPT ![candidate].lits = best]
      /\ watches' = WithWatchedPair(Unwatched(candidate), best[1], best[2], candidate)
      /\ VivifiedAt(ReestablishedLevel(best, AfterConflict(newLevel)))
      /\ UNCHANGED lastIrredundant

VivifyLarge ==
  /\ Shrinks
  /\ Len(VivifyLearned) > 2
  /\ Rewatch(VivifyLearned, IF Implied = 0 THEN Len(VivifyLearned) - 2 ELSE level)

(* Implied by the others, or an asymmetric tautology. *)
Superfluous ==
  \/ Implied # 0 /\ IsCandidateRedundant
  \/ (Clashing \/ Implied # 0) /\ ~IsCandidateRedundant /\ ~UsesRedundant

VivifyImplied ==
  /\ Assumed /\ ~Subsumes /\ ~Shrinkable
  /\ Superfluous
  /\ Discard
  /\ VivifiedAt(AfterConflict(level))
  /\ UNCHANGED <<watches, lastIrredundant>>

VivifyNothing ==
  /\ Assumed /\ ~Subsumes /\ ~Shrinkable
  /\ ~Superfluous
  /\ Implied # 0
  /\ VivifiedAt(ReestablishedLevel(clauses[candidate].lits, level))
  /\ UNCHANGED <<clauses, watches, lastIrredundant>>

-----------------------------------------------------------------------------
(***************************************************************************)
(* Instantiation: if the last literal is assumed instead of its negation   *)
(* and there is a conflict, it is removed from the candidate.              *)
(***************************************************************************)
Instantiated == Last(vivifier.sorted)

VivifyRetry ==
  /\ Assumed /\ ~Subsumes /\ ~Shrinkable
  /\ ~Superfluous
  /\ Implied = 0
  /\ Backtrack(level - 1)
  /\ Settled
  /\ vivifier' = [vivifier EXCEPT !.phase = "instantiate"]
  /\ UNCHANGED <<clauses, watches, arenaVars, vivifyRest, candidate, vivifications>>

VivifyInstantiate ==
  /\ InPhase("instantiate") /\ Quiet
  /\ PushDecision(Instantiated)
  /\ vivifier' = [vivifier EXCEPT !.phase = "instantiated"]
  /\ pc' = "propagate"
  /\ UNCHANGED <<watchVars, arenaVars, vivifyRest, candidate, vivifications>>

WithoutInstantiated ==
  SelectSeq(clauses[candidate].lits, LAMBDA l : l # Instantiated /\ ~RootFalse(l))

VivifyStrengthenBinary ==
  /\ InPhase("instantiated") /\ Clashing
  /\ level = 3
  /\ Discard
  /\ watches' = WithWatchedPair(watches, WithoutInstantiated[1],
                                WithoutInstantiated[2], BINARY)
  /\ VivifiedAt(0)
  /\ UNCHANGED lastIrredundant

VivifyStrengthenLarge ==
  /\ InPhase("instantiated") /\ Clashing
  /\ level > 3
  /\ Rewatch(WithoutInstantiated, level - 2)

VivifyFails ==
  /\ InPhase("instantiated") /\ Quiet
  /\ VivifiedAt(ReestablishedLevel(clauses[candidate].lits, level - 2))
  /\ UNCHANGED <<clauses, watches, lastIrredundant>>

VivifyStep ==
  \/ VivifyRound \/ VivifyRoundEnd \/ VivifyCandidate \/ VivifyAssume
  \/ VivifySubsumed \/ VivifyUnit \/ VivifyBinary \/ VivifyLarge
  \/ VivifyImplied \/ VivifyNothing
  \/ VivifyRetry \/ VivifyInstantiate
  \/ VivifyStrengthenBinary \/ VivifyStrengthenLarge \/ VivifyFails
=============================================================================
