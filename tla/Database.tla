------------------------------- MODULE Database -------------------------------
(***************************************************************************)
(* The clause database as inprocessing sees it: on the root level, with    *)
(* full occurrence lists instead of watches (dense mode), or back with     *)
(* watches (sparse mode).  A clause is a set of literals, the occurrence   *)
(* list of a literal the set of the irredundant clauses that contain it.   *)
(* A clause that is marked garbage has left the set: every procedure skips *)
(* garbage clauses where it meets them.                                    *)
(***************************************************************************)
EXTENDS Literals, FiniteSets, SequencesExt

VARIABLES
  problem,       \* the original clauses and the options, which stay as they are
  irredundant,   \* binary clauses and large irredundant ones
  redundant,     \* large redundant clauses
  leftover,      \* deleted binary clauses still on an occurrence list
  fixed,         \* the literals that are true on the root level
  pending,       \* the fixed literals that are still to be propagated
  inconsistent,  \* the empty clause was derived
  eliminate,     \* variables whose flag 'eliminate' is set
  eliminated,    \* the eliminated variables, in the order of elimination
  introduced     \* the variables added by factorization

clauseVars == <<irredundant, redundant, leftover>>
valueVars  == <<fixed, pending, inconsistent>>
flagVars   == <<eliminate, eliminated>>

IsTrue(l)  == l \in fixed
IsFalse(l) == NOT(l) \in fixed

SatisfiedClause(C) == C \cap fixed # {}

(* The literals of C that have no value, if C is not satisfied. *)
Open(C) == {l \in C : ~IsFalse(l)}

IsBinaryClause(C) == Cardinality(C) = 2
IsLargeClause(C)  == Cardinality(C) > 2

Tautological(C) == \E l \in C : NOT(l) \in C

VariablesOf(Cs) == {IDX(l) : l \in UNION Cs}

Eliminated == ToSet(eliminated)
FixedVariables == {IDX(l) : l \in fixed}
Variables == VariablesOf(problem.original) \cup introduced

Active == Variables \ (Eliminated \cup FixedVariables)

Occurrences(l) == {C \in irredundant : l \in C}

-----------------------------------------------------------------------------
(***************************************************************************)
(* kissat_mark_removed_literal: the variables of removed clauses become    *)
(* candidates for elimination again, except for fixed ones.                *)
(***************************************************************************)
RemovedVariables(removed) == VariablesOf(removed) \ FixedVariables

ReplaceClauses(removed, added) ==
  /\ irredundant' = (irredundant \ removed) \cup added
  /\ eliminate' = eliminate \cup RemovedVariables(removed)

(* kissat_learned_unit, without propagating it. *)
LearnUnits(units) ==
  /\ fixed' = fixed \cup units
  /\ pending' = pending \cup units

(* kissat_mark_eliminated_variable. *)
MarkEliminated(v) == eliminated' = Append(eliminated, v)

-----------------------------------------------------------------------------
(***************************************************************************)
(* Root-level propagation (kissat_dense_propagate).  lists[l] are the      *)
(* clauses on the occurrence list of l.  Propagating the true literals P   *)
(* under the assignment F visits only the clauses on the lists of their    *)
(* negations.                                                              *)
(***************************************************************************)
FullLists(S) == [l \in LITS |-> {C \in S : l \in C}]

ConnectedLists == FullLists(irredundant \cup leftover)

Visited(P, lists) == UNION {lists[NOT(p)] : p \in P}

(* Mutant of MayAssign: eliminated variables are assigned like any other. *)
MayAlwaysAssign(l) == TRUE

(* Propagation assigns no eliminated variable. *)
MayAssign(l) == IDX(l) \notin Eliminated

Forced(F, P, lists) ==
  {l \in LITS \ F :
    /\ MayAssign(l)
    /\ \E C \in Visited(P, lists) : /\ l \in C
                                    /\ C \cap F = {}
                                    /\ \A k \in C \ {l} : NOT(k) \in F}

Closure(F, P, lists) ==
  LET closure[G \in SUBSET LITS, Q \in SUBSET LITS] ==
        LET new == Forced(G, Q, lists)
        IN  IF new = {} THEN G ELSE closure[G \cup new, new]
  IN  closure[F, P]

Consistent(F) == \A l \in F : NOT(l) \notin F

Conflicting(F, P, lists) ==
  \/ ~Consistent(F)
  \/ \E C \in Visited(P, lists) : \A l \in C : NOT(l) \in F

(* Propagate the literals P, of which some may be new units. *)
PropagateFrom(P, lists) ==
  LET F == Closure(fixed \cup P, P, lists)
  IN  IF Conflicting(F, P \cup (F \ fixed), lists)
      THEN /\ inconsistent' = TRUE
           /\ UNCHANGED <<fixed, pending>>
      ELSE /\ fixed' = F
           /\ pending' = {}
           /\ UNCHANGED inconsistent

(* Mutant of SatisfiedBy: satisfied clauses stay. *)
SatisfiedByNone(units, lists) == {}

(***************************************************************************)
(* kissat_flush_units_while_connected: propagate the pending units and     *)
(* mark the large clauses on their lists, now satisfied, as garbage.  In   *)
(* the end 'flagged' are the variables with flag 'eliminate' and those of  *)
(* the garbage that are not fixed.                                         *)
(***************************************************************************)
SatisfiedBy(units, lists) ==
  {C \in UNION {lists[l] : l \in units} : IsLargeClause(C)}

FlushUnits(lists, flagged) ==
  /\ PropagateFrom(pending, lists)
  /\ LET removed == SatisfiedBy(pending \cup (fixed' \ fixed), lists)
     IN  IF inconsistent'
         THEN UNCHANGED irredundant /\ eliminate' = flagged
         ELSE /\ irredundant' = irredundant \ removed
              /\ eliminate' = flagged \cup
                                (VariablesOf(removed) \ {IDX(l) : l \in fixed'})

(***************************************************************************)
(* kissat_connect_irredundant_large_clauses connects the clauses that are  *)
(* not satisfied, the others become garbage.                               *)
(***************************************************************************)
SatisfiedLarge == {C \in irredundant : IsLargeClause(C) /\ SatisfiedClause(C)}

ConnectLargeClauses == ReplaceClauses(SatisfiedLarge, {})

(* Mutant of Collected: clauses with eliminated variables stay. *)
CollectedSatisfied(C) == SatisfiedClause(C)

(***************************************************************************)
(* kissat_resume_sparse_mode after elimination: large clauses, redundant   *)
(* ones included, that are satisfied or contain an eliminated variable are *)
(* collected, the others are watched, and since redundant clauses were not *)
(* connected all units are propagated again.                               *)
(***************************************************************************)
Collected(C) == SatisfiedClause(C) \/ \E l \in C : IDX(l) \in Eliminated

(* Mutant of ResetPropagate: only what is still pending. *)
ResetPropagateNot == pending

(* kissat_reset_propagate. *)
ResetPropagate == fixed

ResumeSparseMode ==
  LET large == {C \in irredundant : IsLargeClause(C) /\ Collected(C)}
      kept  == irredundant \ large
      redundantKept == {C \in redundant : ~Collected(C)}
  IN  IF inconsistent
      THEN UNCHANGED <<clauseVars, valueVars, eliminate>>
      ELSE /\ irredundant' = kept
           /\ redundant' = redundantKept
           /\ leftover' = {}
           /\ eliminate' = eliminate \cup RemovedVariables(large)
           /\ PropagateFrom(ResetPropagate, FullLists(kept \cup redundantKept))
=============================================================================
