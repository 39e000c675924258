---------------------------- MODULE GateExtraction ----------------------------
(***************************************************************************)
(* Which gates congruence closure finds in the irredundant clauses: the    *)
(* result of the three searches of congruence.c, not their marking and     *)
(* counting.  Limits on the number of inputs are left out.                 *)
(***************************************************************************)
EXTENDS Closure

(* The unassigned literals of the large clauses that are not satisfied. *)
OpenClauses(c) ==
  {{l \in C : ~Valued(c, l)} :
     C \in {D \in c.irredundant : Cardinality(D) > 2 /\ D \cap c.fixed = {}}}

OpenOfSize(c, n) == {C \in OpenClauses(c) : Cardinality(C) >= n}

-----------------------------------------------------------------------------
(***************************************************************************)
(* extract_binaries: a ternary clause is strengthened by a binary clause   *)
(* that differs in the sign of one literal.  Only binary clauses that were *)
(* there before are used.                                                  *)
(***************************************************************************)
UnassignedTernary(c) ==
  {C \in c.irredundant : Cardinality(C) = 3 /\ \A l \in C : ~Valued(c, l)}

(* The hash table of binary clauses. *)
IsBinary(c, k, l) == {k, l} \in c.irredundant

Pivots(c, C) == {l \in C : \E k \in C \ {l} : IsBinary(c, NOT(l), k)}

(* Which of the possible pivots is found first depends on the order of the
   literals in the clause. *)
WithOneOf(binaries, choices) == {S \cup {C} : S \in choices, C \in binaries}

Strengthened(c, C) == {C \ {pivot} : pivot \in Pivots(c, C)}

ExtractedBinaries(c) ==
  FoldSet(WithOneOf, {{}}, {Strengthened(c, C) : C \in UnassignedTernary(c)} \ {{}})

-----------------------------------------------------------------------------
(***************************************************************************)
(* Conjunctions: a literal of the base clause implies the negations of all *)
(* the others (find_first_and_gate, find_remaining_and_gate).              *)
(***************************************************************************)
ImpliesOthers(c, lhs, C) == \A l \in C \ {lhs} : IsBinary(c, NOT(lhs), NOT(l))

(* extract_and_gates_with_base_clause. *)
AndGates(c) ==
  UNION {{Gate("and", lhs, SortLits({NOT(l) : l \in C \ {lhs}})) :
            lhs \in {l \in C : ImpliesOthers(c, l, C)}} : C \in OpenOfSize(c, 3)}

(* Mutant of SideClauses: any flipped signs. *)
AllSideClauses(C) == {(C \ S) \cup {NOT(l) : l \in S} : S \in {{l} : l \in C} \cup {{}}}

(* The clauses of the same variables with an even number of signs flipped
   (inc_lits and parity_lits). *)
SideClauses(C) ==
  {(C \ S) \cup {NOT(l) : l \in S} : S \in {T \in SUBSET C : ~Parity(T)}}

(* Candidates are clauses without any value: a false literal is counted in
   no clause, and the first counting round drops the clauses it is in. *)
XorCandidates(c) == OpenOfSize(c, 3) \cap c.irredundant

(***************************************************************************)
(* Parities (extract_xor_gates_with_base_clause,                           *)
(* find_large_xor_side_clause): all side clauses are there.  Every         *)
(* variable is defined by the others.                                      *)
(***************************************************************************)
XorGates(c) ==
  LET bases == {C \in XorCandidates(c) : SideClauses(C) \subseteq XorCandidates(c)}
      sum(C) == Parity({l \in C : NEGATED(l)})
      variables(C) == {IDX(l) : l \in C}
  IN  UNION {{Gate("xor", FlippedIf(~sum(C), v), SortLits(variables(C) \ {v})) :
                v \in variables(C)} : C \in bases}

(***************************************************************************)
(* If-then-else gates.  ConditionalEquivalences(c, lit) are the pairs of a *)
(* variable and a literal that are equivalent when lit is false, from two  *)
(* ternary clauses (extract_condeq_pairs and search_condeq).               *)
(***************************************************************************)
TernaryClauses(c) == {C \in OpenClauses(c) : Cardinality(C) = 3}

(* copy_conditional_equivalences. *)
BinariesUnder(c, lit) == {C \ {lit} : C \in {D \in TernaryClauses(c) : lit \in D}}

ConditionalEquivalences(c, lit) ==
  LET others == BinariesUnder(c, lit)
  IN  {p \in Vars \X LITS : /\ p[1] # IDX(p[2])
                            /\ {p[1], NOT(p[2])} \in others
                            /\ {NOT(p[1]), p[2]} \in others}

(* extract_ite_gates_of_variable and merge_condeq: <<lhs, cond, then, else>>. *)
IteGates(c) ==
  LET same(p, cond) == {q \in ConditionalEquivalences(c, cond) : q[1] = p[1]}
  IN  UNION {UNION {{<<p[1], cond, p[2], q[2]>> : q \in same(p, cond)} :
                      p \in ConditionalEquivalences(c, NOT(cond))} : cond \in Vars}
=============================================================================
