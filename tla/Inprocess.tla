------------------------------- MODULE Inprocess -------------------------------
(***************************************************************************)
(* The procedures that remove clauses and variables between periods of     *)
(* search, composed: fast elimination during preprocessing, elimination    *)
(* with forward subsumption, substitution, and in the end the extension of *)
(* a model of what is left to one of the original formula.  Search itself  *)
(* is reduced to what these procedures see of it: clauses it may learn and *)
(* the model it finds.                                                     *)
(***************************************************************************)
EXTENDS FastElimination, Factor, Backbone, Sweep

CONSTANTS
  Problems   \* original clauses, clauses search may learn, and options

Procedures ==
  {"fast", "eliminate", "substitute", "factor", "transitive", "backbone",
   "sweep"}

ASSUME ProblemsAssumption ==
  \A p \in Problems :
    /\ \A C \in p.original \cup p.learnable :
         C \subseteq LITS /\ ~Tautological(C)
    /\ \A C \in p.original : Cardinality(C) > 1
    /\ {} \notin p.learnable
    /\ p.procedures \subseteq Procedures
    /\ p.gates \subseteq GateKinds
    /\ {p.forward, p.incremental} \subseteq BOOLEAN
    /\ p.rounds \in Nat \ {0}

VARIABLES
  round,      \* rounds of elimination begun
  todo        \* the procedures that have still to run

probingVars == <<introduced, factorVars, backboneVars, sweepVars>>

controlVars == <<problem, round, todo, probingVars>>

vars == <<pc, clauseVars, valueVars, flagVars, extensionVars, resolveVars,
          forwardVars, substituteVars, controlVars>>

Init ==
  /\ pc = "top"
  /\ problem \in Problems
  /\ introduced = {} /\ connectable = {} /\ initial = {} /\ NoBackbone /\ NoSweep
  /\ irredundant = problem.original /\ redundant = {} /\ leftover = {}
  /\ fixed = {} /\ pending = {} /\ inconsistent = FALSE
  /\ eliminate = Variables /\ eliminated = <<>>
  /\ extend = <<>> /\ ivalues = {} /\ evalues = {} /\ remaining = 0
  /\ NoResolve
  /\ scheduled = {} /\ connected = {} /\ saved = {}
  /\ watched = TRUE /\ repr = NoSubstitution /\ substituted = {} /\ before = {}
  /\ round = 0 /\ todo = problem.procedures

-----------------------------------------------------------------------------
(***************************************************************************)
(* Search: it learns a clause that follows from the clauses it has, over   *)
(* active variables; units are propagated, binary clauses are irredundant, *)
(* and preprocessing is over.                                              *)
(***************************************************************************)
SearchClauses == irredundant \cup redundant \cup {{l} : l \in fixed}

Learn ==
  /\ pc = "top"
  /\ \E C \in problem.learnable \ (irredundant \cup redundant) :
       /\ \A l \in C : IDX(l) \in Active
       /\ Entails(SearchClauses, C)
       /\ IF Cardinality(C) = 1
          THEN /\ PropagateFrom(C, FullLists(irredundant \cup redundant))
               /\ UNCHANGED <<irredundant, redundant>>
          ELSE /\ irredundant' = irredundant \cup (IF IsBinaryClause(C) THEN {C} ELSE {})
               /\ redundant' = redundant \cup (IF IsBinaryClause(C) THEN {} ELSE {C})
               /\ UNCHANGED valueVars
  /\ pc' = IF inconsistent' THEN "unsat" ELSE pc
  /\ todo' = todo \ {"fast"}
  /\ UNCHANGED <<leftover, flagVars, extensionVars, resolveVars, forwardVars,
                 substituteVars, problem, round, probingVars>>

(* Search finds a model, or there is none. *)
Solve ==
  /\ pc = "top"
  /\ \E M \in ModelsOf(SearchClauses) :
       ivalues' = {l \in M : IDX(l) \in Variables \ Eliminated}
  /\ remaining' = Len(extend)
  /\ pc' = "extend"
  /\ UNCHANGED <<clauseVars, valueVars, flagVars, extend, evalues, resolveVars,
                 forwardVars, substituteVars, controlVars>>

Refute ==
  /\ pc = "top"
  /\ ~Satisfiable(SearchClauses)
  /\ inconsistent' = TRUE
  /\ pc' = "unsat"
  /\ UNCHANGED <<clauseVars, fixed, pending, flagVars, extensionVars,
                 resolveVars, forwardVars, substituteVars, controlVars>>

-----------------------------------------------------------------------------
(***************************************************************************)
(* kissat_extend.                                                          *)
(***************************************************************************)
Extend ==
  /\ pc = "extend"
  /\ ExtendClause
  /\ UNCHANGED <<pc, clauseVars, valueVars, flagVars, resolveVars, forwardVars,
                 substituteVars, controlVars>>

EndExtend ==
  /\ pc = "extend"
  /\ remaining = 0
  /\ pc' = "done"
  /\ UNCHANGED <<clauseVars, valueVars, flagVars, extensionVars, resolveVars,
                 forwardVars, substituteVars, controlVars>>

-----------------------------------------------------------------------------
(***************************************************************************)
(* kissat_eliminate: rounds of forward subsumption and elimination.        *)
(***************************************************************************)
BeginRound ==
  /\ round' = round + 1
  /\ IF problem.forward
     THEN /\ StartForward
          /\ pc' = "binaries"
          /\ UNCHANGED <<irredundant, eliminate>>
     ELSE /\ ConnectLargeClauses
          /\ pc' = "flush"
          /\ UNCHANGED forwardVars

BeginEliminate ==
  /\ pc = "top"
  /\ "eliminate" \in todo
  /\ todo' = todo \ {"eliminate", "fast"}
  /\ BeginRound
  /\ UNCHANGED <<redundant, leftover, valueVars, eliminated, extensionVars,
                 resolveVars, substituteVars, problem, probingVars>>

(* kissat_flush_units_while_connected in the loops of eliminate_variables. *)
Flush ==
  /\ pc = "flush"
  /\ IF inconsistent THEN UNCHANGED <<irredundant, valueVars, eliminate>>
     ELSE FlushUnits(ConnectedLists, eliminate)
  /\ pc' = IF inconsistent' THEN "unsat" ELSE "schedule"
  /\ UNCHANGED <<redundant, leftover, eliminated, extensionVars, resolveVars,
                 forwardVars, substituteVars, controlVars>>

(***************************************************************************)
(* A round ends when the schedule is empty or a limit is hit.  After the   *)
(* last one set_next_elimination_bound lets all variables be tried again,  *)
(* leaves the flags alone if the bound is maximal, or drops them if        *)
(* variables are left in the schedule.                                     *)
(***************************************************************************)
EndEliminateRound ==
  /\ pc = "schedule"
  /\ \/ /\ round < problem.rounds
        /\ BeginRound
     \/ /\ pc' = "resume"
        /\ round' = 0
        /\ \E flags \in {eliminate, Variables, {}} : eliminate' = flags
        /\ UNCHANGED <<irredundant, forwardVars>>
  /\ UNCHANGED <<redundant, leftover, valueVars, eliminated, extensionVars,
                 resolveVars, substituteVars, problem, todo, probingVars>>

Resume ==
  /\ pc = "resume"
  /\ ResumeSparseMode
  /\ pc' = IF inconsistent' THEN "unsat" ELSE "top"
  /\ UNCHANGED <<eliminated, extensionVars, resolveVars, forwardVars,
                 substituteVars, controlVars>>

-----------------------------------------------------------------------------
(* Fast elimination belongs to preprocessing: it comes before anything is
   learned or eliminated otherwise. *)
BeginFast ==
  /\ pc = "top"
  /\ "fast" \in todo
  /\ todo' = todo \ {"fast"}
  /\ ConnectLargeClauses
  /\ pc' = "fast"
  /\ UNCHANGED <<redundant, leftover, valueVars, eliminated, extensionVars,
                 resolveVars, forwardVars, substituteVars, problem, round,
                 probingVars>>

BeginSubstitute ==
  /\ pc = "top"
  /\ "substitute" \in todo
  /\ todo' = todo \ {"substitute"}
  /\ pc' = "substitute"
  /\ UNCHANGED <<clauseVars, valueVars, flagVars, extensionVars, resolveVars,
                 forwardVars, substituteVars, problem, round, probingVars>>

BeginTransitive ==
  /\ pc = "top"
  /\ "transitive" \in todo
  /\ todo' = todo \ {"transitive"}
  /\ pc' = "transitive"
  /\ UNCHANGED <<clauseVars, valueVars, flagVars, extensionVars, resolveVars,
                 forwardVars, substituteVars, problem, round, probingVars>>

BeginBackbone ==
  /\ pc = "top"
  /\ "backbone" \in todo
  /\ todo' = todo \ {"backbone"}
  /\ pc' = "backbone"
  /\ UNCHANGED <<clauseVars, valueVars, flagVars, extensionVars, resolveVars,
                 forwardVars, substituteVars, problem, round, probingVars>>

BeginFactor ==
  /\ pc = "top"
  /\ "factor" \in todo
  /\ todo' = todo \ {"factor"}
  /\ StartFactorization
  /\ pc' = "factor"
  /\ UNCHANGED <<clauseVars, valueVars, flagVars, extensionVars, resolveVars,
                 forwardVars, substituteVars, problem, round, introduced, backboneVars,
                 sweepVars>>

BeginSweep ==
  /\ pc = "top"
  /\ "sweep" \in todo
  /\ todo' = todo \ {"sweep"}
  /\ StartSweeping
  /\ pc' = "sweep"
  /\ UNCHANGED <<redundant, leftover, valueVars, eliminated, extensionVars,
                 resolveVars, forwardVars, substituteVars, problem, round, introduced,
                 factorVars, backboneVars>>

Finished == pc \in {"done", "unsat"} /\ UNCHANGED vars

Next ==
  \/ Learn \/ Solve \/ Refute \/ Extend \/ EndExtend
  \/ BeginEliminate \/ Flush \/ EndEliminateRound \/ Resume
  \/ BeginFast \/ BeginSubstitute
  \/ BeginTransitive \/ BeginBackbone \/ BeginFactor \/ BeginSweep
  \/ (EliminateVariable /\ UNCHANGED <<forwardVars, substituteVars, controlVars>>)
  \/ (ForwardSubsume /\ UNCHANGED <<substituteVars, controlVars>>)
  \/ (FastEliminate /\ UNCHANGED <<substituteVars, controlVars>>)
  \/ (Substitute /\ UNCHANGED <<forwardVars, controlVars>>)
  \/ (BinaryProbing /\ UNCHANGED <<extensionVars, resolveVars, forwardVars, substituteVars,
                                    problem, round, todo, introduced, factorVars, sweepVars>>)
  \/ (FactorVariables /\ UNCHANGED <<extensionVars, resolveVars, forwardVars, substituteVars,
                                      problem, round, todo, backboneVars, sweepVars>>)
  \/ (SweepVariables /\ UNCHANGED <<extensionVars, resolveVars, forwardVars, substituteVars,
                                     problem, round, todo, introduced, factorVars,
                                     backboneVars>>)
  \/ Finished

Spec == Init /\ [][Next]_vars

(* A single thread runs all of this, so some step is taken if one can be. *)
FairSpec == Spec /\ WF_vars(Next)

-----------------------------------------------------------------------------
(* What removing clauses and variables must not break. *)

OriginalModels == ModelsOf(problem.original)

(***************************************************************************)
(* The clauses left between the procedures are satisfiable if the original *)
(* ones were, and the empty clause is derived only if they were not.       *)
(* Resolution with gates, units found over incomplete lists, failed        *)
(* literals, strengthening and fresh variables all have to respect this.   *)
(* The units that compute_backbone finds while other literals are assumed  *)
(* hold without them, and one that fails as well is a refutation           *)
(* (assert (solver->inconsistent) at its end).                             *)
(***************************************************************************)
Equisatisfiable ==
  /\ pc = "top" => (Satisfiable(SearchClauses) <=> OriginalModels # {})
  /\ inconsistent \/ UnitFails => OriginalModels = {}
  /\ \A u \in ToSet(units) : Entails(SearchClauses, {u})

(***************************************************************************)
(* kissat_extend turns any model of the clauses that are left into a model *)
(* of the original ones, whichever procedures removed clauses and          *)
(* variables and in whichever order.                                       *)
(***************************************************************************)
Reconstructs ==
  pc = "done" => \A C \in problem.original : C \cap (ivalues \cup evalues) # {}

(***************************************************************************)
(* Redundant clauses may be dropped at any time: they follow from the      *)
(* irredundant ones.  This would fail if a redundant clause survived the   *)
(* elimination of one of its variables.                                    *)
(***************************************************************************)
RedundantImplied ==
  pc = "top" =>
    \A C \in redundant : Entails(irredundant \cup {{l} : l \in fixed}, C)

(***************************************************************************)
(* Search never meets an eliminated variable again: no clause has one (the *)
(* assertion of resume_watching_irredundant_binaries), no root-level value *)
(* is one (that of kissat_mark_eliminated_variable).  While sweeping goes   *)
(* on nothing but the equivalence itself is left of a literal that was     *)
(* replaced, although substitute_connected_clauses may end half way: what  *)
(* it leaves is satisfied, or has a unit after propagation.                *)
(***************************************************************************)
ReplacedGone ==
  \A l \in ActiveLiterals : \A C \in Occurrences(l) :
    IsRepresentative(l) \/ SatisfiedClause(C) \/ NOT(reprs[l]) \in C

NoEliminatedLeft ==
  /\ pc = "top" => VariablesOf(irredundant \cup redundant) \cap Eliminated = {}
  /\ FixedVariables \cap Eliminated = {}
  /\ pc = "sweep" => ReplacedGone

(***************************************************************************)
(* Back in search (kissat_trail_flushed), and where a variable is going to *)
(* be eliminated, all units have been propagated: no clause is unit or     *)
(* false.  Units are derived while only some of the clauses are on the     *)
(* occurrence or watch lists.  The literals compute_backbone has assumed   *)
(* are propagated over the binary clauses, which makes every conflict one  *)
(* of the literal that is tried.                                           *)
(***************************************************************************)
Propagated(Cs) ==
  \A C \in Cs : SatisfiedClause(C) \/ Cardinality(Open(C)) > 1

PropagationComplete ==
  /\ pc = "top" => Propagated(irredundant \cup redundant)
  /\ pc \in {"schedule", "fast", "sweep"} => pending = {} /\ Propagated(irredundant)
  /\ pc = "backbone" =>
       \A C \in Binary : \A l \in C :
         NOT(l) \in Assumed => (C \ {l}) \subseteq Assumed \cup fixed

(***************************************************************************)
(* Where occurrences are counted no large clause is satisfied.  The loop   *)
(* of flush_occurrences over the literals of a clause relies on it: for a  *)
(* satisfied clause its 'continue' would go on with the next literal, drop *)
(* the watch, and look at the garbage clause once more.                    *)
(***************************************************************************)
NoSatisfiedLarge == pc \in {"schedule", "fast"} => SatisfiedLarge = {}

(***************************************************************************)
(* A clause on the extension stack has no variable that was eliminated     *)
(* before its witness: kissat_extend, which goes backwards, would flip a   *)
(* literal other clauses it has been through depend on.                    *)
(***************************************************************************)
StackOrder ==
  pc \in {"top", "extend"} =>
    \A i \in DOMAIN extend :
      /\ IDX(extend[i].blocking) \in Eliminated
      /\ \A l \in extend[i].clause :
           IDX(l) \in Eliminated =>
             Position(IDX(extend[i].blocking)) <= Position(IDX(l))

-----------------------------------------------------------------------------
(* A procedure that was begun comes back to search, or refutes the formula. *)
ProcedureEnds == (pc # "top") ~> (pc \in {"top", "done", "unsat"})
=============================================================================
