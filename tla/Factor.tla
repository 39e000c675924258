-------------------------------- MODULE Factor --------------------------------
(***************************************************************************)
(* Bounded variable addition (factor.c).  Literals, the factors, that      *)
(* occur in clauses which are otherwise the same, the quotients, are       *)
(* replaced by a fresh variable: the clauses of every factor with every    *)
(* quotient by one clause for each factor and one for each quotient.  Only *)
(* some of the large clauses are connected in the meantime.                *)
(***************************************************************************)
EXTENDS Substitute

CONSTANT FactorSize   \* option factorsize

VARIABLES
  connectable,  \* the large clauses that are connected
  initial       \* the variables there were when factorization began

factorVars == <<connectable, initial>>

-----------------------------------------------------------------------------
(***************************************************************************)
(* connect_clauses_to_factor: a large clause is connected if its literals  *)
(* occur at least twice, first in binary clauses and large ones of limited *)
(* size, then in those that are left, in two rounds and once more.         *)
(***************************************************************************)
BinaryCount(l) ==
  Cardinality({C \in Binary : l \in C /\ IDX(SmallestLiteral(C)) \in Active})

OccursTwice(Cs) ==
  {C \in Cs : \A l \in C : BinaryCount(l) + Cardinality({D \in Cs : l \in D}) > 1}

CandidateClauses ==
  OccursTwice(OccursTwice(OccursTwice(
    {C \in irredundant : IsLargeClause(C) /\ Cardinality(C) <= FactorSize})))

(* kissat_factor: entering dense mode and connecting clauses. *)
StartFactorization ==
  /\ connectable' = CandidateClauses
  /\ initial' = Variables

-----------------------------------------------------------------------------
Connected == Binary \cup connectable

(* Mutant of Quotients: clauses that are matched for one factor. *)
QuotientsOfOne(factors) ==
  UNION {{C \ {f} : C \in {D \in Connected : f \in D}} : f \in factors}

(***************************************************************************)
(* The clauses of one factor, without it, that are matched for all factors *)
(* (first_factor and factorize_next).                                      *)
(***************************************************************************)
Quotients(factors) ==
  LET f == CHOOSE f \in factors : TRUE
  IN  {Q \in {C \ {f} : C \in {D \in Connected : f \in D}} :
         \A g \in factors : g \notin Q /\ Q \cup {g} \in Connected}

(* next_factor: only literals that were there before, though the comparison
   lets the first fresh one pass. *)
FirstFresh ==
  {v \in introduced \ initial : \A u \in introduced \ initial : v <= u}

NextFactors == {l \in ActiveLiterals : IDX(l) \in initial \/ l \in FirstFresh}

(* What best_quotient compares with the bound: clauses before and after. *)
Reduction(factors, quotients) ==
  Cardinality(factors) * Cardinality(quotients)
    - (Cardinality(factors) + Cardinality(quotients))

(* kissat_fresh_literal: there is a next variable as long as there are any. *)
FreshVariables ==
  {v \in Vars \ Variables : \A u \in Vars \ Variables : v <= u}

(***************************************************************************)
(* apply_factoring.  Which factors have the most common quotients and pay  *)
(* off most is left open: any that pay off may be chosen.                  *)
(***************************************************************************)
ApplyFactoring(factors, quotients, fresh) ==
  LET dividers == {{fresh, f} : f \in factors}
      factored == {{NOT(fresh)} \cup Q : Q \in quotients}
      removed  == {Q \cup {f} : Q \in quotients, f \in factors}
  IN  /\ irredundant' = (irredundant \ removed) \cup dividers \cup factored
      /\ connectable' = (connectable \ removed) \cup {C \in factored : IsLargeClause(C)}
      /\ eliminate' = eliminate \cup RemovedVariables(removed) \cup {fresh}
      /\ introduced' = introduced \cup {fresh}

(* An iteration of the loop in run_factorization that finds something. *)
Factorize ==
  /\ pc = "factor"
  /\ \E f \in ActiveLiterals : \E others \in SUBSET (NextFactors \ {f}) :
       LET factors   == {f} \cup others
           quotients == Quotients(factors)
       IN  /\ Reduction(factors, quotients) > Bound
           /\ \E fresh \in FreshVariables : ApplyFactoring(factors, quotients, fresh)
  /\ UNCHANGED <<pc, redundant, leftover, valueVars, eliminated, initial>>

(* It ends when nothing is scheduled, variables run out, or a limit is hit;
   all large clauses are watched again. *)
EndFactorize ==
  /\ pc = "factor"
  /\ connectable' = {} /\ initial' = {}
  /\ PropagateFrom(ResetPropagate, FullLists(irredundant \cup redundant))
  /\ pc' = IF inconsistent' THEN "unsat" ELSE "top"
  /\ UNCHANGED <<clauseVars, flagVars, introduced>>

FactorVariables == Factorize \/ EndFactorize
=============================================================================
