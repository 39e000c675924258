----------------------------- MODULE MCInprocess -----------------------------
EXTENDS Inprocess

Options(procedures, gates, forward, incremental, rounds, learnable) ==
  [procedures |-> procedures, gates |-> gates, forward |-> forward,
   incremental |-> incremental, rounds |-> rounds, learnable |-> learnable]

With(options, formulas) == {options @@ [original |-> F] : F \in formulas}

SyntacticKinds == GateKinds \ {"definition"}

(***************************************************************************)
(* Elimination.  4 is the conjunction of 1 and 2, or "if 1 then 2 else 3", *)
(* with all four clauses or one of them shorter.                           *)
(***************************************************************************)
AndGateOf4 == { {-4, 1}, {-4, 2}, {4, -1, -2} }

IteGateOf4 == { {-1, -2, 4}, {-1, 2, -4}, {1, -3, 4}, {1, 3, -4} }

ShortenedIteGateOf4 == { {-1, -2, 4}, {-1, -4}, {1, -3, 4}, {1, 3, -4} }

Others == { {4, 3, 5}, {-4, -3, 5}, {1, 3, -5}, {2, -5} }

(* Binary clauses that make 1 and 2 true, or 1 true and 3 false. *)
Force1And2 == { {1, 5}, {1, -5}, {2, 5}, {2, -5} }

Force1AndNot3 == { {1, 2}, {1, -2}, {-3, 2}, {-3, -2} }

EliminateFormulas ==
  { AndGateOf4 \cup Others, IteGateOf4 \cup Others,
    ShortenedIteGateOf4 \cup Force1And2,
    Force1AndNot3 \cup { {-1, 3, 4, 5}, {-1, 3, 4, -5} } }

EliminateLearnable == { {1, 3, 4}, {2, 3, 5}, {-1, 3, 4}, {-3} }

(* Forward subsumption: units from pairs of binary clauses, strengthening. *)
ForwardFormulas ==
  { { {1, 2, 3}, {-1, -2, 3}, {-2, -3}, {2, -3}, {-2, 4}, {-2, -4} },
    { {-4, -2}, {-4, 3}, {-3, 2}, {1, 2}, {3, 4}, {-4, -2, 1}, {-3, 1, 4}, {-3, 2, 4} },
    { {1, 2, 3}, {1, 2, 3, 4}, {-1, 2, 4}, {-1, -2}, {3, -4}, {-2, -3, 4} } }

ForwardLearnable == { {1, 3, 4}, {-1, 2, 3}, {3, 4} }

(* Fast elimination: a deleted binary clause, an unsatisfiable formula with
   clauses to strengthen, a mixed one. *)
FastFormulas ==
  { { {1, 2}, {-1, 4, 5}, {-2, 3}, {-2, -3}, {-4, -5, 3} },
    { {-4, -3}, {-4, 3}, {2, 3}, {-4, -2, 3}, {-3, -2, 1}, {-3, -2, 4},
      {-3, -1, 2}, {-3, 1, 2}, {-2, -1, 3}, {-2, 3, 4} },
    { {-5, -4}, {-2, 4}, {-2, 5}, {-5, -4, 1}, {-5, -2, 1}, {-1, 2, 5},
      {-5, -4, -2, 3}, {-4, -3, -2, 5}, {-4, -2, 1, 3}, {-1, 3, 4, 5} } }

(* Substitution: a failed literal and a unit from an equivalence that makes
   another clause unit, equivalences whose representative gets a value, two
   rounds, a clashing component. *)
SubstituteFormulas ==
  { { {-3, 4}, {3, -4}, {3, 4, 1}, {-1, 2}, {-1, -2}, {-4, -2}, {-4, 2, 5} },
    { {-5, -4}, {-5, -3}, {-4, -3}, {-3, 2}, {-3, 4}, {2, 3}, {3, 4},
      {-5, -1, 4}, {-5, -4, -1, 3}, {-1, 3, 4, 5} },
    { {-5, -4}, {-5, -3}, {-4, -3}, {-3, 4}, {-1, 5}, {1, 2}, {1, 3},
      {-4, 3, 5}, {-5, -3, 2, 4}, {-5, -2, 1, 4} },
    { {1, -2}, {-1, 2}, {-1, 3, 4}, {2, -3, 4}, {-2, -4, 5}, {1, 2, -5} },
    { {1, -2}, {2, -1}, {1, 2}, {-1, -2} } }

SubstituteLearnable == { {1, 2, 3}, {-1, 2, 3}, {1, 4, 5}, {-2, 3, 4} }

(* All procedures, in any order. *)
MixedFormulas ==
  { { {1, -2}, {-1, 2}, {-1, 3, 4}, {2, -3, -4}, {1, 3, -4} },
    { {1, 2, 3}, {-1, -2, 3}, {-2, -3}, {2, -3}, {-2, 4}, {-2, -4} } }

(* Factorization: 5 is free to become the fresh variable, which is then
   eliminated, or turns out to be equivalent to -3. *)
FactorFormulas ==
  { { {1, 3, 4}, {1, -3, 4}, {1, 3, -4}, {2, 3, 4}, {2, -3, 4}, {2, 3, -4}, {-1, -3} },
    { {1, 3}, {1, 4}, {1, -3, -4}, {2, 3}, {2, 4}, {2, -3, -4}, {-2, -4, 3} } }

FactorEquivalence ==
  { { {1, 3}, {1, 4}, {1, -3, -4}, {2, 3}, {2, 4}, {2, -3, -4}, {-1, -3} } }

FactorLearnable == { {1, 2, 4}, {3, 4, 5} }

(* Binary clauses: one implied by others, failed literals with an implication
   point below them, a unit that fails as well. *)
BinaryFormulas ==
  { { {-1, 2}, {-2, 3}, {-1, 3}, {-1, 4}, {-4, -3}, {-5, 1}, {1, 2, 5}, {1, -2, 3, 4} },
    { {-1, 2}, {-2, 3}, {-2, 4}, {-4, -3}, {2, 3, 5}, {-5, 1}, {2, 4}, {2, -4} } }

BinaryLearnable == { {-3, 5}, {1, 3, 4} }

(* Sweeping: units and equivalences, with clauses that were not copied, which
   end a substitution or, in the second formula, refute the environment. *)
SweepFormulas ==
  { { {-3, -1, 2}, {-3, 1, 2}, {-2, -1}, {-2, 1, 3}, {2, 3} },
    { {-3, -1}, {-3, 1}, {-2, -1}, {-1, 3}, {1, 4}, {2, 3}, {-3, -1, 4}, {-2, 1, 3},
      {1, 2, 4} } }

SweepElimination ==
  { { {-3, -2}, {-2, 3}, {-1, 3}, {-3, -2, -1}, {-3, -1, 2}, {-3, 1, 2}, {-2, -1, 3} } }

SweepLearnable == { {1, 2, 3}, {1, -2, 3} }

SubstituteProblems ==
  With(Options({"substitute"}, {}, FALSE, FALSE, 1, SubstituteLearnable),
       SubstituteFormulas)

Instances ==
  With(Options({"eliminate"}, SyntacticKinds, FALSE, FALSE, 1, EliminateLearnable),
       EliminateFormulas)
  \cup
  With(Options({"eliminate"}, GateKinds, TRUE, FALSE, 2, ForwardLearnable),
       ForwardFormulas)
  \cup
  With(Options({"fast"}, {}, FALSE, FALSE, 1, ForwardLearnable), FastFormulas)
  \cup
  With(Options({"fast", "eliminate", "substitute"}, SyntacticKinds, TRUE, TRUE, 1,
               ForwardLearnable),
       MixedFormulas)
  \cup
  With(Options({"transitive", "backbone"}, {}, FALSE, FALSE, 1, BinaryLearnable),
       BinaryFormulas)
  \cup
  With(Options({"factor", "eliminate"}, SyntacticKinds, FALSE, FALSE, 1, FactorLearnable),
       FactorFormulas)
  \cup
  With(Options({"factor", "substitute"}, {}, FALSE, FALSE, 1, FactorLearnable),
       FactorEquivalence)
  \cup
  With(Options({"sweep", "substitute"}, {}, FALSE, FALSE, 1, SweepLearnable), SweepFormulas)
  \cup
  With(Options({"sweep", "eliminate"}, SyntacticKinds, FALSE, FALSE, 1, SweepLearnable),
       SweepElimination)
  \cup
  SubstituteProblems
=============================================================================
