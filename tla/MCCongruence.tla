----------------------------- MODULE MCCongruence -----------------------------
EXTENDS Congruence

AndClauses(lhs, S) == {{lhs} \cup {NOT(l) : l \in S}} \cup {{NOT(lhs), l} : l \in S}

XorClauses(lhs, k, l) ==
  {{NOT(lhs), k, l}, {NOT(lhs), NOT(k), NOT(l)}, {lhs, NOT(k), l}, {lhs, k, NOT(l)}}

IteClauses(lhs, c, t, e) ==
  {{NOT(lhs), NOT(c), t}, {lhs, NOT(c), NOT(t)}, {NOT(lhs), c, e}, {lhs, c, NOT(e)}}

Problem(original, learned) == [original |-> original, learned |-> learned]

(* Two of the set, so that each can be overtaken. *)
MCEligible(S) ==
  LET first == CHOOSE x \in S : TRUE
  IN  {first} \cup (IF S = {first} THEN {} ELSE {CHOOSE x \in S \ {first} : TRUE})

MCVars == 1..6

(* Small formulas full of gates: nested conjunctions; a parity that is its
   own negation; if-then-else gates that are each other's negation, or have
   two constant branches after a unit; those a random search found in which
   gates degenerate, clash and get units; a redundant clause that is the same
   as an irredundant one after a merge; and a unit that leads to a conflict. *)
MCProblems == {
  Problem(AndClauses(4, {1, 2}) \cup AndClauses(5, {1, 2}) \cup AndClauses(6, {4, 3}), {}),
  Problem(XorClauses(3, 1, 2) \cup XorClauses(-3, 1, 2), {}),
  Problem(IteClauses(4, 1, 2, 3) \cup IteClauses(-4, 1, 5, 3) \cup {{2, -5}, {-2, 5}}, {}),
  Problem(IteClauses(4, 1, 2, 3) \cup {{5, 6}, {5, -6}, {-5, 2}, {-5, 3}}, {}),
  Problem(IteClauses(4, 1, 2, 3) \cup {{5, 6}, {5, -6}, {-5, 2}, {-5, -3}}, {}),
  Problem(IteClauses(-3, -5, 1, 2) \cup AndClauses(-1, {-3, -6}) \cup XorClauses(5, -1, -6)
            \cup {{-1, 4}, {2, -5, -6}}, {}),
  Problem(XorClauses(-6, -5, -1) \cup XorClauses(6, -2, -5), {}),
  Problem(IteClauses(-6, -3, -1, -2) \cup IteClauses(-3, -1, 5, 2) \cup IteClauses(4, -2, 3, -1)
            \cup {{1, 3}, {1, -2}, {1, 3, -6}}, {}),
  Problem(IteClauses(-3, 2, -5, 4) \cup XorClauses(3, 4, 2) \cup XorClauses(-6, 1, -3)
            \cup {{-1, -2}, {4, -6}, {3, 5, -6}}, {{-1, 4, -6}, {2, -5, 6}}),
  Problem(IteClauses(2, -6, 1, 4) \cup IteClauses(5, -6, 4, 2) \cup AndClauses(5, {-6, 2, -3})
            \cup IteClauses(-4, 5, -3, 2) \cup {{3, -4, -5}}, {{2, 4, -5, -6}, {2, 4, 6}}),
  Problem(AndClauses(-2, {-6, -3}) \cup IteClauses(5, 1, -2, 6) \cup XorClauses(2, -3, 6), {}),
  Problem(AndClauses(-5, {-1, -4}) \cup IteClauses(-2, -5, -6, -4) \cup IteClauses(4, 5, 1, 2)
            \cup {{4, -5}}, {{1, 4, -6}, {-1, 2, -5}}),
  Problem(AndClauses(-2, {-6, 5}) \cup AndClauses(-5, {2, -3}) \cup IteClauses(3, 5, -6, 1)
            \cup {{-3, 6}, {-1, 3, 5}}, {}),
  Problem(AndClauses(-3, {-5, -6, 4}) \cup AndClauses(-2, {-6, -1}) \cup IteClauses(-6, -3, 1, 5)
            \cup {{-1, 5}, {-2, -6}, {-1, 4, -6}}, {{2, -5, -6}, {-2, 4, -6}}),
  Problem(AndClauses(2, {1, 3}) \cup AndClauses(5, {1, 3}) \cup {{2, 4, 6}}, {{4, 5, 6}}),
  Problem(AndClauses(4, {1, 2}) \cup {{5, 6}, {5, -6}, {-5, 3}, {-5, -3}}, {}) }
=============================================================================
