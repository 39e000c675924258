--------------------------------- MODULE Sweep ---------------------------------
(***************************************************************************)
(* Sweeping (sweep.c) for backbone literals and equivalent literals: the   *)
(* clauses around a variable, its environment, are copied into the         *)
(* embedded solver.  One of its models gives the candidates, further ones  *)
(* refine them, and what it refutes is learned.  Equivalent literals are   *)
(* substituted at once in the irredundant clauses, which are connected by  *)
(* all their literals; units are propagated after each variable.           *)
(***************************************************************************)
EXTENDS Substitute

VARIABLES
  toSweep,        \* the variables that are scheduled
  environment,    \* the copied clauses
  backbone,       \* literals that may be true in all models of them
  partition,      \* classes of literals that may be equivalent
  reprs,          \* the representative of each literal (sweep_repr)
  substitutions   \* pairs of a literal and the one to be put in its place

environmentVars == <<environment, backbone, partition, substitutions>>

sweepVars == <<toSweep, reprs, environmentVars>>

NoSweep ==
  /\ toSweep = {} /\ reprs = NoSubstitution
  /\ environment = {} /\ backbone = {} /\ partition = {} /\ substitutions = <<>>

IsRepresentative(l) == reprs[l] = l

-----------------------------------------------------------------------------
(* init_sweeper and schedule_sweeping: variables that occur in both signs. *)
Schedulable(v) == Occurrences(v) # {} /\ Occurrences(NOT(v)) # {}

StartSweeping ==
  /\ ConnectLargeClauses
  /\ toSweep' = {v \in Active : Schedulable(v)'}
  /\ UNCHANGED <<reprs, environmentVars>>

(***************************************************************************)
(* The environment of v: the clauses that contain v, and if the depth is   *)
(* larger those with the variables found this way.  Binary clauses with a  *)
(* literal that was replaced are not copied, nor are satisfied clauses and *)
(* false literals.                                                         *)
(***************************************************************************)
MaxDepth == 2

ClausesWith(V) == {C \in irredundant : \E l \in C : IDX(l) \in V}

Copyable(C) ==
  /\ ~SatisfiedClause(C)
  /\ IsBinaryClause(C) => \A l \in C : IsRepresentative(l)

Copied(V) == {Open(C) : C \in {B \in ClausesWith(V) : Copyable(B)}}

Found(v, copied) == {v} \cup {IDX(l) : l \in {k \in UNION copied : IsRepresentative(k)}}

Traversed(v, depth) ==
  LET traversed[d \in 1..depth] ==
        IF d = 1 THEN {v} ELSE Found(v, Copied(traversed[d - 1]))
  IN  traversed[depth]

(***************************************************************************)
(* sweep_variable.  Without a model the empty clause is derived, else the  *)
(* literals that are true in a model are the candidates.  Satisfied large  *)
(* clauses met on the way are garbage.                                     *)
(***************************************************************************)
SweepVariable ==
  /\ pc = "sweep"
  /\ \E v \in toSweep, depth \in 1..MaxDepth :
       /\ v \in Active /\ IsRepresentative(v)
       /\ toSweep' = toSweep \ {v}
       /\ LET traversed == Traversed(v, depth)
              copied    == Copied(traversed)
          IN  /\ ReplaceClauses(ClausesWith(traversed) \cap SatisfiedLarge, {})
              /\ environment' = copied
              /\ IF ModelsOf(copied) = {}
                 THEN /\ inconsistent' = TRUE
                      /\ pc' = "unsat"
                      /\ UNCHANGED <<backbone, partition>>
                 ELSE /\ \E M \in ModelsOf(copied) :
                           backbone' = {l \in M : IDX(l) \in Found(v, copied)}
                      /\ partition' = {backbone'}
                      /\ pc' = "sweep_variable"
                      /\ UNCHANGED inconsistent
  /\ UNCHANGED <<redundant, leftover, fixed, pending, eliminated, reprs, substitutions>>

-----------------------------------------------------------------------------
(***************************************************************************)
(* sweep_refine: a model of the environment splits the classes; literals   *)
(* with a value and literals that were replaced are dropped.               *)
(***************************************************************************)
Sweeping == pc = "sweep_variable" /\ substitutions = <<>>

NoSingletons(classes) == {class \in classes : Cardinality(class) > 1}

Candidates(class) == {l \in class : IDX(l) \in Active /\ IsRepresentative(l)}

Refined(M) ==
  NoSingletons(UNION {{Candidates(class) \cap M, Candidates(class) \ M} : class \in partition})

Refine(M) ==
  /\ backbone' = {l \in backbone : IDX(l) \in Active} \cap M
  /\ partition' = Refined(M)

(***************************************************************************)
(* save_core and add_core: lemmas of the core that are unit under the      *)
(* root-level values are learned.  Which lemmas there are is left open:    *)
(* besides the refuted literal at most one other is learned.  A lemma may  *)
(* be empty when units of clauses that were not copied contradict it.      *)
(***************************************************************************)
WithFixed(Cs) == Cs \cup {{l} : l \in fixed}

CoreUnits ==
  {l \in UNION environment : /\ {l, NOT(l)} \cap fixed = {}
                             /\ Entails(WithFixed(environment), {l})}

AddCore(refuted) ==
  \/ /\ \E units \in {refuted} \cup {refuted \cup {l} : l \in CoreUnits} :
          Consistent(units) /\ LearnUnits(units)
     /\ UNCHANGED <<pc, inconsistent>>
  \/ /\ ~Satisfiable(WithFixed(environment))
     /\ inconsistent' = TRUE
     /\ pc' = "unsat"
     /\ UNCHANGED <<fixed, pending>>

(***************************************************************************)
(* sweep_backbone_candidate, and flip_backbone_literals.  A candidate is   *)
(* dropped if it has a value, if the embedded solver has it as a unit      *)
(* already, or if it is flipped, which KittenSolver!FormulaSatisfied       *)
(* shows may be wrong; a model refutes it; else it is learned.             *)
(***************************************************************************)
DropBackbone ==
  /\ Sweeping
  /\ \E lit \in backbone : backbone' = backbone \ {lit}
  /\ UNCHANGED <<pc, clauseVars, valueVars, flagVars, toSweep, reprs, environment,
                 partition, substitutions>>

RefineBackbone ==
  /\ Sweeping
  /\ \E lit \in backbone, M \in ModelsOf(environment) :
       IDX(lit) \in Active /\ lit \notin M /\ Refine(M)
  /\ UNCHANGED <<pc, clauseVars, valueVars, flagVars, toSweep, reprs, environment,
                 substitutions>>

LearnBackbone ==
  /\ Sweeping
  /\ \E lit \in backbone :
       /\ IDX(lit) \in Active
       /\ Entails(environment, {lit})
       /\ backbone' = backbone \ {lit}
       /\ AddCore({lit})
  /\ UNCHANGED <<clauseVars, flagVars, toSweep, reprs, environment, partition,
                 substitutions>>

-----------------------------------------------------------------------------
(***************************************************************************)
(* sweep_equivalence_candidates, and flip_partition_literals, for two      *)
(* literals of a class: one of them is dropped if its value is flipped, or *)
(* a model in which they differ refines the partition.                     *)
(***************************************************************************)
(* sweep_remove: a class of one literal is dropped. *)
Removed(class, lit) == NoSingletons((partition \ {class}) \cup {class \ {lit}})

DropEquivalence ==
  /\ Sweeping
  /\ backbone = {}
  /\ \E class \in partition : \E lit \in class :
       partition' = Removed(class, lit)
  /\ UNCHANGED <<pc, clauseVars, valueVars, flagVars, toSweep, reprs, environment,
                 backbone, substitutions>>

RefineEquivalence ==
  /\ Sweeping
  /\ backbone = {}
  /\ \E class \in partition, M \in ModelsOf(environment) :
       class \cap M \notin {{}, class} /\ Refine(M)
  /\ UNCHANGED <<pc, clauseVars, valueVars, flagVars, toSweep, reprs, environment,
                 substitutions>>

(* Mutant of Equivalent: the second implication is not checked. *)
ImpliesOnly(lit, other) == Entails(environment, {lit, NOT(other)})

Equivalent(lit, other) ==
  Entails(environment, {lit, NOT(other)}) /\ Entails(environment, {NOT(lit), other})

(* Mutant of EquivalenceClauses: substitution is taken to be enough. *)
NoEquivalenceClauses(lit, other) == {}

EquivalenceClauses(lit, other) == {{lit, NOT(other)}, {NOT(lit), other}}

(* Mutant of Substitutions: the negation is left alone. *)
SubstituteOnly(lit, other) == << <<other, lit>> >>

Substitutions(lit, other) == << <<other, lit>>, <<NOT(other), NOT(lit)>> >>

(***************************************************************************)
(* Both implications are refuted: they are added, and the literal with the *)
(* smaller number represents the other one, which is to be replaced.       *)
(***************************************************************************)
MergeEquivalent ==
  /\ Sweeping
  /\ backbone = {}
  /\ \E class \in partition : \E lit, other \in class :
       /\ Number(lit) < Number(other)
       /\ Equivalent(lit, other)
       /\ AddCore({})
       /\ irredundant' = irredundant \cup EquivalenceClauses(lit, other)
       /\ reprs' = [l \in LITS |-> CASE reprs[l] = other      -> lit
                                     [] reprs[l] = NOT(other) -> NOT(lit)
                                     [] OTHER                 -> reprs[l]]
       /\ partition' = Removed(class, other)
       /\ substitutions' = Substitutions(lit, other)
  /\ UNCHANGED <<redundant, leftover, flagVars, toSweep, environment, backbone>>

-----------------------------------------------------------------------------
(***************************************************************************)
(* substitute_connected_clauses for the clauses with the literal l, in any *)
(* order.  One in which only the representative r would be left ends it:   *)
(* l or r is a unit then, or becomes one by propagation.                   *)
(***************************************************************************)
Put(C, l, r) == (Open(C) \ {l}) \cup {r}

Ends(C, l, r) == ~SatisfiedClause(C) /\ Put(C, l, r) = {r}

UnitOf(C, l, r) ==
  IF IsLargeClause(C) THEN {r} ELSE IF r \in C THEN {l} ELSE {}

(* Satisfied and tautological large clauses are garbage, binary ones stay. *)
Dropped(C, l, r) == SatisfiedClause(C) \/ NOT(r) \in C

SubstituteIn(visited, l, r) ==
  LET dropped   == {C \in visited : Dropped(C, l, r)}
      garbage   == {C \in dropped : IsLargeClause(C)}
      rewritten == visited \ dropped
  IN  /\ irredundant' = (irredundant \ (garbage \cup rewritten))
                           \cup {Put(C, l, r) : C \in rewritten}
      /\ eliminate' = eliminate \cup RemovedVariables(garbage)

SubstituteConnectedClauses(l, r) ==
  LET ending == {C \in Occurrences(l) : Ends(C, l, r)}
      others == Occurrences(l) \ ending
  IN  IF {IDX(l), IDX(r)} \cap FixedVariables # {}
      THEN UNCHANGED <<irredundant, eliminate, fixed, pending>>
      ELSE \/ /\ ending = {}
              /\ SubstituteIn(others, l, r)
              /\ UNCHANGED <<fixed, pending>>
           \/ \E C \in ending, visited \in SUBSET others :
                /\ SubstituteIn(visited, l, r)
                /\ LearnUnits(UnitOf(C, l, r))

(* After both literals were replaced the representative is scheduled. *)
SubstituteNext ==
  /\ pc = "sweep_variable"
  /\ substitutions # <<>>
  /\ substitutions' = Tail(substitutions)
  /\ \E l, r \in LITS :
       /\ Head(substitutions) = <<l, r>>
       /\ SubstituteConnectedClauses(l, r)
       /\ toSweep' = IF substitutions' = <<>> /\ IDX(r) \notin {IDX(k) : k \in fixed'}
                     THEN toSweep \cup {IDX(r)}
                     ELSE toSweep
  /\ UNCHANGED <<pc, redundant, leftover, inconsistent, eliminated, reprs, environment,
                 backbone, partition>>

-----------------------------------------------------------------------------
(* Mutant of PropagateUnits: it is left to the end of sweeping. *)
PropagateNothing == UNCHANGED valueVars

PropagateUnits == PropagateFrom(pending, ConnectedLists)

(***************************************************************************)
(* All candidates were tried or a limit is hit: clear_sweeper, and         *)
(* kissat_dense_propagate.                                                 *)
(***************************************************************************)
EndSweepVariable ==
  /\ Sweeping
  /\ environment' = {} /\ backbone' = {} /\ partition' = {}
  /\ PropagateUnits
  /\ pc' = IF inconsistent' THEN "unsat" ELSE "sweep"
  /\ UNCHANGED <<clauseVars, flagVars, toSweep, reprs, substitutions>>

(* release_sweeper: all clauses are watched and propagated again. *)
EndSweeping ==
  /\ pc = "sweep"
  /\ toSweep' = {} /\ reprs' = NoSubstitution
  /\ PropagateFrom(ResetPropagate, FullLists(irredundant \cup redundant))
  /\ pc' = IF inconsistent' THEN "unsat" ELSE "top"
  /\ UNCHANGED <<clauseVars, flagVars, environmentVars>>

SweepVariables ==
  \/ SweepVariable \/ DropBackbone \/ RefineBackbone \/ LearnBackbone
  \/ DropEquivalence \/ RefineEquivalence \/ MergeEquivalent
  \/ SubstituteNext \/ EndSweepVariable \/ EndSweeping
=============================================================================
