---------------------------- MODULE FastElimination ----------------------------
(***************************************************************************)
(* Fast variable elimination during preprocessing (fastel.c): no gates, no *)
(* stored resolvents; clauses are strengthened while resolvents are only   *)
(* counted, and resolvents are added while the clauses they come from are  *)
(* still there.  Deleted binary clauses of an eliminated variable stay on  *)
(* the lists of their other literals until the end.                        *)
(***************************************************************************)
EXTENDS Forward

CONSTANTS
  FastOccurrences,   \* option fasteloccs
  FastLimit,         \* option fastelim
  FastSubsumption    \* option fastelsub

ASSUME FastAssumption ==
  /\ FastOccurrences \in Nat
  /\ FastLimit \in Nat
  /\ FastSubsumption \in BOOLEAN

-----------------------------------------------------------------------------
(***************************************************************************)
(* flush_occurrences counts the clauses of a literal and may remove ones   *)
(* that another clause subsumes (fast_forward_subsumed finds some of       *)
(* these).                                                                 *)
(***************************************************************************)
CountedOccurrences(lit) ==
  IF \E C \in Occurrences(lit) : Cardinality(C) > ClauseLimit
  THEN FastOccurrences + 1
  ELSE Cardinality(Occurrences(lit) \ SatisfiedBinaries(lit))

FastSubsumed(C) ==
  \E D \in irredundant \ {C} :
    /\ Cardinality(D) <= Cardinality(C)
    /\ ~SatisfiedClause(D)
    /\ Open(D) \subseteq Open(C)

FastSubsume ==
  /\ pc = "fast"
  /\ FastSubsumption
  /\ \E C \in irredundant :
       /\ IsLargeClause(C)
       /\ FastSubsumed(C)
       /\ \E l \in C : IDX(l) \in Scheduled
       /\ ReplaceClauses({C}, {})
  /\ UNCHANGED <<pc, redundant, leftover, valueVars, eliminated, extensionVars,
                 resolveVars, forwardVars>>

(***************************************************************************)
(* try_to_fast_eliminate.  Any scheduled variable may have been gathered   *)
(* as candidate at the beginning of the round, with other counts.          *)
(***************************************************************************)
Few(pos, neg) == pos + neg <= FastOccurrences

FlushedLeftover(v) == {C \in leftover : v \notin {IDX(l) : l \in C}}

StartFast ==
  /\ pc = "fast"
  /\ \E v \in Scheduled :
       LET pos == CountedOccurrences(v)
           neg == CountedOccurrences(NOT(v))
       IN  /\ candidate' = v
           /\ leftover' = FlushedLeftover(v)
           /\ IF ~Few(pos, neg)
              THEN pc' = "fastflush" /\ UNCHANGED passes
              ELSE /\ pc' = IF pos * neg <= FastLimit THEN "resolvefast" ELSE "count"
                   /\ passes' = <<Pass(v, Occurrences(v), Occurrences(NOT(v)))>>
  /\ UNCHANGED <<irredundant, redundant, valueVars, flagVars, extensionVars,
                 limit, first, seconds, resolvents, resolved, forwardVars>>

-----------------------------------------------------------------------------
FastFrame == UNCHANGED <<redundant, leftover, eliminated, extensionVars,
                         candidate, limit, resolvents, forwardVars>>

InPairs == pc \in {"count", "resolvefast"}

(* The next first antecedent, to be paired with all second ones. *)
NextFastFirst ==
  /\ InPairs
  /\ seconds = {}
  /\ \E C \in Head(passes).from :
       /\ passes' = [passes EXCEPT ![1].from = @ \ {C}]
       /\ first' = C
       /\ seconds' = Head(passes).against
  /\ UNCHANGED <<pc, irredundant, valueVars, eliminate, resolved>>
  /\ FastFrame

(***************************************************************************)
(* A pair without resolvent: a clause is garbage, satisfied, or the        *)
(* resolvent tautological.  Which of the satisfied large clauses become    *)
(* garbage depends on the sizes and the order of the literals.             *)
(***************************************************************************)
Void(D) ==
  \/ {first, D} \ irredundant # {}
  \/ SatisfiedClause(first) \/ SatisfiedClause(D)
  \/ Tautological(Resolvent(D))

SkipFastPair ==
  /\ InPairs
  /\ \E D \in seconds :
       /\ TakeSecond(D)
       /\ Void(D)
       /\ \E gone \in SUBSET (SatisfiedLarge \cap {first, D}) :
            ReplaceClauses(gone, {})
  /\ UNCHANGED <<pc, passes, first, valueVars, resolved>>
  /\ FastFrame

(***************************************************************************)
(* can_fast_resolve_binary_large does not look at the resolvent unless the *)
(* other literal of the binary clause is in the large one, too.            *)
(***************************************************************************)
OtherOf(C) == C \ {Pivot, NOT(Pivot)}

OnlyCounted(D) ==
  /\ pc = "count"
  /\ IsBinaryClause(first) # IsBinaryClause(D)
  /\ ~(OtherOf(first) \subseteq D \/ OtherOf(D) \subseteq first)

(***************************************************************************)
(* Resolvents of no or one literal are learned at once.  Only where such a *)
(* unit strengthens a large clause with a binary one, the former goes.     *)
(***************************************************************************)
StrengthenedToUnit(D) ==
  IF pc = "count" /\ IsBinaryClause(first) # IsBinaryClause(D)
  THEN {C \in {first, D} : IsLargeClause(C)} ELSE {}

FastUnit ==
  /\ InPairs
  /\ \E D \in seconds :
       LET R == Resolvent(D) IN
       /\ ~Void(D)
       /\ ~OnlyCounted(D)
       /\ Cardinality(R) < 2
       /\ TakeSecond(D)
       /\ ReplaceClauses(StrengthenedToUnit(D), {})
       /\ IF R = {} THEN inconsistent' = TRUE /\ UNCHANGED <<fixed, pending>>
          ELSE LearnUnits(R) /\ UNCHANGED inconsistent
  /\ pc' = IF inconsistent' THEN "unsat" ELSE pc
  /\ UNCHANGED <<passes, first, resolved>>
  /\ FastFrame

(* Mutant of Strengthened: sizes are not compared, nor literals. *)
StrengthenedAny(R, C, D) == {E \in {C, D} : IsLargeClause(E)}

(***************************************************************************)
(* resolvents_limited.  A resolvent smaller than a large antecedent that   *)
(* contains it replaces it and is not counted.                             *)
(***************************************************************************)
Strengthened(R, C, D) ==
  {E \in {C, D} : /\ IsLargeClause(E)
                  /\ R \subseteq E
                  /\ Cardinality(R) < Cardinality(E)}

CountPair ==
  /\ pc = "count"
  /\ \E D \in seconds :
       LET R == Resolvent(D)
           stronger == IF OnlyCounted(D) THEN {} ELSE Strengthened(R, first, D)
       IN  /\ ~Void(D)
           /\ OnlyCounted(D) \/ Cardinality(R) > 1
           /\ resolved' = resolved + (IF stronger = {} THEN 1 ELSE 0)
           /\ TakeSecond(D)
           /\ ReplaceClauses(stronger, IF stronger = {} THEN {} ELSE {R})
           /\ pc' = IF resolved' > FastLimit THEN "fastflush" ELSE pc
  /\ UNCHANGED <<passes, first, valueVars>>
  /\ FastFrame

(* Few resolvents: all pairs once more. *)
EndCount ==
  /\ pc = "count"
  /\ seconds = {}
  /\ Head(passes).from = {}
  /\ pc' = "resolvefast"
  /\ passes' = <<Pass(candidate, Occurrences(candidate), Occurrences(NOT(candidate)))>>
  /\ UNCHANGED <<irredundant, valueVars, eliminate, first, seconds, resolved>>
  /\ FastFrame

-----------------------------------------------------------------------------
(***************************************************************************)
(* do_fast_eliminate: a resolvent is added at once.  In the end the        *)
(* variable is marked as eliminated and the clauses of both its literals   *)
(* are pushed.                                                             *)
(***************************************************************************)
FastResolvePair ==
  /\ pc = "resolvefast"
  /\ \E D \in seconds :
       /\ ~Void(D)
       /\ Cardinality(Resolvent(D)) > 1
       /\ TakeSecond(D)
       /\ irredundant' = irredundant \cup {Resolvent(D)}
  /\ UNCHANGED <<pc, valueVars, eliminate, passes, first, resolved>>
  /\ FastFrame

(* Mutant of FastWeakened: only the clauses of the positive literal. *)
FastWeakenedPositive(lit) ==
  IF lit < 0 THEN <<>> ELSE WeakenedClauses(lit, Unsatisfied(Occurrences(lit)))

FastWeakened(lit) == WeakenedClauses(lit, Unsatisfied(Occurrences(lit)))

DoFastEliminate ==
  /\ pc = "resolvefast"
  /\ seconds = {}
  /\ Head(passes).from = {}
  /\ LET gone == OccurrencesOf(candidate)
     IN  /\ ReplaceClauses(gone, {})
         /\ leftover' = leftover \cup {C \in gone : IsBinaryClause(C)}
  /\ MarkEliminated(candidate)
  /\ extend' = extend \o FastWeakened(candidate) \o FastWeakened(NOT(candidate))
  /\ pc' = "fastflush"
  /\ UNCHANGED <<redundant, valueVars, ivalues, evalues, remaining,
                 resolveVars, forwardVars>>

(***************************************************************************)
(* Back in the loop over the candidates: the flag of the candidate is      *)
(* reset, and units are flushed.                                           *)
(***************************************************************************)
FastFlush ==
  /\ pc = "fastflush"
  /\ FlushUnits(ConnectedLists, eliminate \ {candidate})
  /\ pc' = IF inconsistent' THEN "unsat" ELSE "fast"
  /\ ResetResolve
  /\ UNCHANGED <<redundant, leftover, eliminated, extensionVars, forwardVars>>

(***************************************************************************)
(* The end, after the limit on rounds too: deleted binary clauses leave    *)
(* the occurrence lists, and all variables may be eliminated again.        *)
(***************************************************************************)
EndFast ==
  /\ pc = "fast"
  /\ leftover' = {}
  /\ eliminate' = Variables
  /\ pc' = "resume"
  /\ UNCHANGED <<irredundant, redundant, valueVars, eliminated, extensionVars,
                 resolveVars, forwardVars>>

FastEliminate ==
  \/ FastSubsume \/ StartFast
  \/ NextFastFirst \/ SkipFastPair \/ FastUnit \/ CountPair \/ EndCount
  \/ FastResolvePair \/ DoFastEliminate \/ FastFlush \/ EndFast
=============================================================================
