------------------------------ MODULE Substitute ------------------------------
(***************************************************************************)
(* Equivalent literal substitution (substitute.c): the literals on a cycle *)
(* of the binary implication graph are replaced by one of them, the        *)
(* representative, and their variables become eliminated.  It runs with    *)
(* watches; a round drops the large ones, and later propagation sees only  *)
(* binary clauses until all clauses are watched and propagated again.      *)
(***************************************************************************)
EXTENDS Resolve

VARIABLES
  watched,      \* whether large clauses are watched
  repr,         \* the representative of each literal
  substituted,  \* variables that are going to be eliminated by the round
  before        \* the active variables at the beginning of the round

substituteVars == <<watched, repr, substituted, before>>

NoSubstitution == [l \in LITS |-> l]

Binary == {C \in irredundant : IsBinaryClause(C)}

WatchedLists ==
  FullLists(IF watched THEN irredundant \cup redundant ELSE Binary)

(***************************************************************************)
(* assign_and_propagate_units, over the given lists.                       *)
(***************************************************************************)
AssignAndPropagate(units, lists) ==
  IF units \subseteq fixed THEN UNCHANGED valueVars
  ELSE PropagateFrom(units \ fixed, lists)

-----------------------------------------------------------------------------
(***************************************************************************)
(* determine_representatives.  The literals are searched in the order of   *)
(* their internal numbers, and the smallest literal of a component is its  *)
(* representative.                                                         *)
(***************************************************************************)
ActiveLiterals == {l \in LITS : IDX(l) \in Active}

Implied(l) ==
  {k \in ActiveLiterals : {NOT(l), k} \in irredundant}

Reach(l) ==
  LET reach[S \in SUBSET LITS] ==
        LET T == S \cup UNION {Implied(k) : k \in S}
        IN  IF T = S THEN S ELSE reach[T]
  IN  reach[{l}]

Reaches == [l \in ActiveLiterals |-> Reach(l)]

(* Mutant of Component: implied literals are taken to be equivalent. *)
ComponentReached(reach, l) == reach[l]

Component(reach, l) == {k \in reach[l] : l \in reach[k]}

SmallestLiteral(S) == CHOOSE l \in S : \A k \in S : Number(l) <= Number(k)

Representatives(reach) ==
  [l \in LITS |-> IF l \in ActiveLiterals THEN SmallestLiteral(Component(reach, l)) ELSE l]

ClashingLiterals(reach) == \E l \in ActiveLiterals : NOT(l) \in Component(reach, l)

(***************************************************************************)
(* A root of the search fails if its search reaches a literal and its      *)
(* negation that no earlier root reached.                                  *)
(***************************************************************************)
Fresh(reach, root) ==
  reach[root] \ UNION {reach[l] : l \in {k \in ActiveLiterals : Number(k) < Number(root)}}

FailedUnits(reach) ==
  {NOT(root) : root \in
     {l \in ActiveLiterals :
        /\ l \in Fresh(reach, l)
        /\ \E k \in Fresh(reach, l) : NOT(k) \in Fresh(reach, l)}}

(* Variables with another representative, after units were propagated. *)
Replaced(representative, actives) ==
  {v \in actives : representative[v] # v}

DetermineRepresentatives ==
  /\ pc = "substitute"
  /\ \E reach \in {Reaches} :
       IF ClashingLiterals(reach)
       THEN /\ inconsistent' = TRUE
            /\ UNCHANGED <<fixed, pending, repr>>
       ELSE /\ AssignAndPropagate(FailedUnits(reach), WatchedLists)
            /\ repr' = Representatives(reach)
  /\ substituted' = Replaced(repr', Active \ {IDX(l) : l \in fixed'})
  /\ before' = Active
  /\ pc' = IF inconsistent' THEN "unsat" ELSE "subst_binaries"
  /\ UNCHANGED <<clauseVars, flagVars, extensionVars, resolveVars, watched>>

-----------------------------------------------------------------------------
(***************************************************************************)
(* substitute_binaries.  A clause becomes a tautology, or a unit, or its   *)
(* literals are replaced by their representatives.  Large watches go.      *)
(***************************************************************************)
Image(C) == {repr[l] : l \in C}

SubstituteBinaries ==
  /\ pc = "subst_binaries"
  /\ LET units == UNION {Image(C) : C \in {B \in Binary : Cardinality(Image(B)) = 1}}
         gone  == {C \in Binary : Tautological(Image(C)) \/ Cardinality(Image(C)) = 1}
         kept  == {Image(C) : C \in Binary \ gone}
     IN  /\ irredundant' = (irredundant \ Binary) \cup kept
         /\ AssignAndPropagate(units, FullLists(kept))
         /\ eliminate' = eliminate \cup (VariablesOf(gone) \ {IDX(l) : l \in fixed'})
  /\ watched' = FALSE
  /\ pc' = IF inconsistent' THEN "unsat" ELSE "subst_clauses"
  /\ UNCHANGED <<redundant, leftover, eliminated, extensionVars, resolveVars,
                 repr, substituted, before>>

(***************************************************************************)
(* substitute_clauses, of large clauses, redundant ones included.  A       *)
(* clause shrunken to two literals becomes a binary clause, and those are  *)
(* all irredundant.                                                        *)
(***************************************************************************)
SatisfiedImage(C) == SatisfiedClause(C) \/ SatisfiedClause(Image(C))

(* Mutant of Simplified: false literals go, no literal is replaced. *)
SimplifiedOnly(C) == Open(C)

Simplified(C) == {repr[l] : l \in Open(C)} \ {NOT(l) : l \in fixed}

SubstituteClauses ==
  /\ pc = "subst_clauses"
  /\ LET large == {C \in irredundant : IsLargeClause(C)}
         gone  == {C \in large \cup redundant :
                     SatisfiedImage(C) \/ Tautological(Simplified(C))}
         irr   == {Simplified(C) : C \in large \ gone}
         red   == {Simplified(C) : C \in redundant \ gone}
         small == {C \in irr \cup red : Cardinality(C) < 3}
         lists == FullLists(Binary \cup {C \in small : IsBinaryClause(C)})
     IN  IF {} \in small
         THEN /\ inconsistent' = TRUE
              /\ UNCHANGED <<irredundant, redundant, fixed, pending, eliminate>>
         ELSE /\ irredundant' = Binary \cup {C \in irr \cup red : IsBinaryClause(C)}
                                       \cup {C \in irr : IsLargeClause(C)}
              /\ redundant' = {C \in red : IsLargeClause(C)}
              /\ AssignAndPropagate(UNION {C \in small : Cardinality(C) = 1}, lists)
              /\ eliminate' = eliminate \cup
                   (VariablesOf({C \in large : C \in gone \/ Cardinality(Simplified(C)) < 3})
                      \ {IDX(l) : l \in fixed'})
  /\ pc' = IF inconsistent' THEN "unsat" ELSE "subst_remove"
  /\ UNCHANGED <<leftover, eliminated, extensionVars, resolveVars, substituteVars>>

-----------------------------------------------------------------------------
(* Mutant of Equivalence: the two checks of the value are swapped. *)
EquivalenceSwapped(lit, other) ==
  IF problem.incremental \/ IsTrue(other) \/ IsFalse(other)
  THEN (IF IsFalse(other) THEN <<>> ELSE <<Weakened(NOT(lit), {NOT(lit), other})>>)
       \o (IF IsTrue(other) THEN <<>> ELSE <<Weakened(lit, {lit, NOT(other)})>>)
  ELSE <<Weakened(NOT(lit), {NOT(lit), other}), WeakenedUnit(lit)>>

(***************************************************************************)
(* remove_representative_equivalences for the next variable.  If the       *)
(* representative got a value meanwhile, only one of the two implications  *)
(* of the equivalence is pushed, as a unit; else one implication and a     *)
(* unit for the opposite value.                                            *)
(***************************************************************************)
Equivalence(lit, other) ==
  IF problem.incremental \/ IsTrue(other) \/ IsFalse(other)
  THEN (IF IsTrue(other) THEN <<>> ELSE <<Weakened(NOT(lit), {NOT(lit), other})>>)
       \o (IF IsFalse(other) THEN <<>> ELSE <<Weakened(lit, {lit, NOT(other)})>>)
  ELSE <<Weakened(NOT(lit), {NOT(lit), other}), WeakenedUnit(lit)>>

RemoveEquivalence ==
  /\ pc = "subst_remove"
  /\ \E v \in substituted :
       /\ \A w \in substituted : v <= w
       /\ substituted' = substituted \ {v}
       /\ MarkEliminated(v)
       /\ extend' = extend \o Equivalence(v, repr[v])
  /\ UNCHANGED <<pc, clauseVars, valueVars, eliminate, ivalues, evalues,
                 remaining, resolveVars, watched, repr, before>>

(* Mutant of RoundRemoved: another round anyway. *)
RoundAgain == TRUE

RoundRemoved == Active # before

(***************************************************************************)
(* The end of a round.  Another one follows if this one removed variables  *)
(* and no limit was hit, else all clauses are watched and propagated.      *)
(***************************************************************************)
EndRound ==
  /\ pc = "subst_remove"
  /\ substituted = {}
  /\ repr' = NoSubstitution /\ before' = {}
  /\ \/ pc' = "substitute"
        /\ RoundRemoved
        /\ UNCHANGED <<valueVars, watched>>
     \/ /\ watched' = TRUE
        /\ PropagateFrom(ResetPropagate, FullLists(irredundant \cup redundant))
        /\ pc' = IF inconsistent' THEN "unsat" ELSE "top"
  /\ UNCHANGED <<clauseVars, flagVars, extensionVars, resolveVars, substituted>>

Substitute ==
  \/ DetermineRepresentatives \/ SubstituteBinaries \/ SubstituteClauses
  \/ RemoveEquivalence \/ EndRound
=============================================================================
