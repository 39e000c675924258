------------------------------- MODULE Closure -------------------------------
(***************************************************************************)
(* The state of congruence closure (struct closure in congruence.c) and    *)
(* what happens to one gate.  A gate says that its left-hand side is the   *)
(* conjunction, the parity or the if-then-else of its right-hand side.     *)
(* Gates with the same right-hand side have equivalent left-hand sides,    *)
(* which are merged; a merged literal is then replaced by its              *)
(* representative in all right-hand sides, which may make more gates the   *)
(* same, produce units, or turn an if-then-else into a simpler gate.       *)
(*                                                                         *)
(* Everything lives in one record c:                                       *)
(*   irredundant, redundant   the clauses                                  *)
(*   fixed                    the literals that are true on the root level *)
(*   units                    those not yet simplified away in the gates   *)
(*   inconsistent             the empty clause was derived                 *)
(*   repr, schedule           representatives, merged literals in order    *)
(*   gates, occurrences       the gates, and for a literal those to visit  *)
(* The identity of a gate is the gate as it was first found.  The hash     *)
(* table holds exactly the gates that are not garbage, under their         *)
(* current right-hand side.                                                *)
(***************************************************************************)
EXTENDS Literals, FiniteSets, SequencesExt

ASSUME FiniteVarsAssumption == IsFiniteSet(Vars)

LitIndex(l) == 2 * IDX(l) + (IF l < 0 THEN 1 ELSE 0)

STRIP(l) == IDX(l)

NEGATED(l) == l < 0

LessLit(k, l) == LitIndex(k) < LitIndex(l)

(* sort_lits: the i-th literal is the one with i - 1 smaller ones. *)
SortLits(S) ==
  [i \in 1..Cardinality(S) |->
     CHOOSE l \in S : Cardinality({k \in S : LessLit(k, l)}) = i - 1]

IsTrue(c, l)  == l \in c.fixed
IsFalse(c, l) == NOT(l) \in c.fixed
Valued(c, l)  == IsTrue(c, l) \/ IsFalse(c, l)

(* find_repr. *)
FindRepr(c, lit) ==
  LET find[l \in LITS] == IF c.repr[l] = l THEN l ELSE find[c.repr[l]]
  IN  find[lit]

-----------------------------------------------------------------------------
(***************************************************************************)
(* Units and binary clauses.                                               *)
(***************************************************************************)
(* What kissat_probing_propagate makes true on the root level. *)
Implications(Cs, F) ==
  LET closure[G \in SUBSET LITS] ==
        LET new == {l \in LITS \ G :
                      \E C \in Cs : l \in C /\ \A k \in C \ {l} : NOT(k) \in G}
        IN  IF new = {} THEN G ELSE closure[G \cup new]
  IN  closure[F]

Conflicting(Cs, F) ==
  \/ \E l \in F : NOT(l) \in F
  \/ \E C \in Cs : \A l \in C : NOT(l) \in F

(* learn_congruence_unit. *)
LearnUnit(c, unit) ==
  LET Cs == c.irredundant \cup c.redundant
      F  == Implications(Cs, c.fixed \cup {unit})
  IN  IF IsTrue(c, unit) THEN c
      ELSE IF IsFalse(c, unit) \/ Conflicting(Cs, F)
      THEN [c EXCEPT !.inconsistent = TRUE]
      ELSE [c EXCEPT !.fixed = F, !.units = @ \cup (F \ c.fixed)]

(* add_binary_clause. *)
AddBinary(c, a, b) ==
  IF c.inconsistent \/ a = NOT(b) \/ IsTrue(c, a) \/ IsTrue(c, b) THEN c
  ELSE IF a = b \/ (~IsFalse(c, a) /\ IsFalse(c, b)) THEN LearnUnit(c, a)
  ELSE IF IsFalse(c, a) /\ ~IsFalse(c, b) THEN LearnUnit(c, b)
  ELSE [c EXCEPT !.irredundant = @ \cup {{a, b}}]

(* schedule_literal. *)
Schedule(c, l) ==
  IF \E k \in ToSet(c.schedule) : IDX(k) = IDX(l) THEN c
  ELSE [c EXCEPT !.schedule = Append(@, l)]

(* Mutant of Union: the equivalence is not added to the clauses. *)
UnionOnly(c, smaller, larger) ==
  Schedule([c EXCEPT !.repr[larger] = smaller,
                     !.repr[NOT(larger)] = NOT(smaller)], larger)

(* merge_literals of two representatives without values ... *)
Union(c, smaller, larger) ==
  LET united == [c EXCEPT !.repr[larger] = smaller,
                          !.repr[NOT(larger)] = NOT(smaller)]
      forth == AddBinary(united, NOT(larger), smaller)
  IN  Schedule(AddBinary(forth, larger, NOT(smaller)), larger)

(* ... and of any two literals. *)
Merge(c, lit, other) ==
  LET litRepr   == FindRepr(c, lit)
      otherRepr == FindRepr(c, other)
      smaller == IF LessLit(litRepr, otherRepr) THEN litRepr ELSE otherRepr
      larger  == IF smaller = litRepr THEN otherRepr ELSE litRepr
  IN  IF litRepr = otherRepr THEN c
      ELSE IF Valued(c, lit) /\ Valued(c, other)
      THEN [c EXCEPT !.inconsistent = @ \/ IsTrue(c, lit) # IsTrue(c, other)]
      ELSE IF Valued(c, lit)
      THEN LearnUnit(c, IF IsTrue(c, lit) THEN other ELSE NOT(other))
      ELSE IF Valued(c, other)
      THEN LearnUnit(c, IF IsTrue(c, other) THEN lit ELSE NOT(lit))
      ELSE IF litRepr = NOT(otherRepr)
      THEN [c EXCEPT !.fixed = @ \cup {smaller}, !.inconsistent = TRUE]
      ELSE Union(c, smaller, larger)

-----------------------------------------------------------------------------
(***************************************************************************)
(* Gates and the hash table.                                               *)
(***************************************************************************)
Gate(tag, lhs, rhs) == [tag |-> tag, lhs |-> lhs, rhs |-> rhs]

NoGate == Gate("none", 0, <<>>)

Live(c) == {g \in DOMAIN c.gates : ~c.gates[g].garbage}

(* find_gate. *)
Matching(c, gate, except) ==
  {h \in Live(c) \ {except} : /\ c.gates[h].tag = gate.tag
                              /\ c.gates[h].rhs = gate.rhs}

(* mark_gate_as_garbage, at the end of an update. *)
MarkGarbage(c, g) ==
  IF c.inconsistent THEN c ELSE [c EXCEPT !.gates[g].garbage = TRUE]

(* connect_occurrence. *)
Connect(c, lits, g) ==
  [c EXCEPT !.occurrences =
     [l \in LITS |-> IF l \in lits THEN @[l] \cup {g} ELSE @[l]]]

(* new_and_gate, new_xor_gate and the end of new_ite_gate. *)
NewGate(c, gate) ==
  LET same == Matching(c, gate, NoGate)
      live == [tag |-> gate.tag, lhs |-> gate.lhs, rhs |-> gate.rhs,
               garbage |-> FALSE]
      added == [g \in DOMAIN c.gates \cup {gate} |->
                  IF g = gate THEN live ELSE c.gates[g]]
  IN  IF same # {}
      THEN Merge(c, c.gates[CHOOSE h \in same : TRUE].lhs, gate.lhs)
      ELSE Connect([c EXCEPT !.gates = added], ToSet(gate.rhs), gate)

(* normalize_ite_lits. *)
NormalizedIte(lhs, cond, thenLit, elseLit) ==
  LET t == IF NEGATED(cond) THEN elseLit ELSE thenLit
      e == IF NEGATED(cond) THEN thenLit ELSE elseLit
  IN  IF NEGATED(t) THEN Gate("ite", NOT(lhs), <<STRIP(cond), NOT(t), NOT(e)>>)
      ELSE Gate("ite", lhs, <<STRIP(cond), t, e>>)

(* new_ite_gate. *)
NewIte(c, lhs, cond, thenLit, elseLit) ==
  IF elseLit = NOT(thenLit) THEN c
  ELSE IF elseLit = thenLit THEN Merge(c, lhs, thenLit)
  ELSE NewGate(c, NormalizedIte(lhs, cond, thenLit, elseLit))

(***************************************************************************)
(* A gate g gets another right-hand side: it is merged with a gate that    *)
(* has this right-hand side already and becomes garbage, or it is put      *)
(* under its new right-hand side and connected to the literals that are    *)
(* new in it, except for dst, which the caller connects.                   *)
(***************************************************************************)
Reindex(c, g, gate, dst) ==
  LET same == Matching(c, gate, g)
      old  == ToSet(c.gates[g].rhs)
      set  == [c EXCEPT !.gates[g] = [tag |-> gate.tag, lhs |-> gate.lhs,
                                      rhs |-> gate.rhs, garbage |-> FALSE]]
  IN  IF same = {} THEN Connect(set, ToSet(gate.rhs) \ (old \cup {dst}), g)
      ELSE MarkGarbage(Merge(c, gate.lhs, c.gates[CHOOSE h \in same : TRUE].lhs), g)

(* A gate with one input: its sides are equivalent. *)
UpdateUnary(c, g, lhs, lit) ==
  MarkGarbage(IF IsTrue(c, lhs) THEN LearnUnit(c, lit)
              ELSE IF IsFalse(c, lhs) THEN LearnUnit(c, NOT(lit))
              ELSE Merge(c, lhs, lit), g)

(* update_and_gate. *)
UpdateAnd(c, g, rhs, contradiction, dst) ==
  LET lhs == c.gates[g].lhs
  IN  IF contradiction THEN MarkGarbage(LearnUnit(c, NOT(lhs)), g)
      ELSE IF Len(rhs) = 1 THEN UpdateUnary(c, g, lhs, rhs[1])
      ELSE Reindex(c, g, Gate("and", lhs, rhs), dst)

(* update_xor_gate. *)
UpdateXor(c, g, lhs, rhs, dst) ==
  IF Len(rhs) = 0 THEN MarkGarbage(LearnUnit(c, NOT(lhs)), g)
  ELSE IF Len(rhs) = 1 THEN UpdateUnary(c, g, lhs, rhs[1])
  ELSE Reindex(c, g, Gate("xor", lhs, rhs), dst)

-----------------------------------------------------------------------------
(***************************************************************************)
(* A literal of the right-hand side has got a value.                       *)
(***************************************************************************)
NoLit == 0

(* The inputs of conjunctions and parities are sorted. *)
Unvalued(c, rhs) == SortLits({l \in ToSet(rhs) : ~Valued(c, l)})

Parity(S) == Cardinality(S) % 2 = 1

FlippedIf(condition, lhs) == IF condition THEN NOT(lhs) ELSE lhs

(* simplify_and_gate. *)
SimplifyAnd(c, g) ==
  LET gate == c.gates[g]
  IN  IF IsTrue(c, gate.lhs) THEN [c EXCEPT !.gates[g].garbage = TRUE]
      ELSE UpdateAnd(c, g, Unvalued(c, gate.rhs),
                     \E l \in ToSet(gate.rhs) : IsFalse(c, l), NoLit)

(* simplify_xor_gate. *)
SimplifyXor(c, g) ==
  LET gate == c.gates[g]
  IN  UpdateXor(c, g,
        FlippedIf(Parity({l \in ToSet(gate.rhs) : IsTrue(c, l)}), gate.lhs),
        Unvalued(c, gate.rhs), NoLit)

(* An if-then-else with a constant branch is a conjunction. *)
ConstantBranch(c, lhs, cond, t, e) ==
  IF IsTrue(c, t) THEN Gate("and", NOT(lhs), SortLits({NOT(cond), NOT(e)}))
  ELSE IF IsFalse(c, t) THEN Gate("and", lhs, SortLits({NOT(cond), e}))
  ELSE IF IsTrue(c, e) THEN Gate("and", NOT(lhs), SortLits({NOT(t), cond}))
  ELSE Gate("and", lhs, SortLits({cond, t}))

(* simplify_ite_gate. *)
SimplifyIte(c, g) ==
  LET lhs  == c.gates[g].lhs
      cond == c.gates[g].rhs[1]
      t    == c.gates[g].rhs[2]
      e    == c.gates[g].rhs[3]
  IN  IF IsTrue(c, cond) THEN MarkGarbage(Merge(c, lhs, t), g)
      ELSE IF IsFalse(c, cond) THEN MarkGarbage(Merge(c, lhs, e), g)
      ELSE IF Valued(c, t) /\ Valued(c, e)
      THEN MarkGarbage(
             IF IsTrue(c, t) = IsTrue(c, e)
             THEN LearnUnit(c, FlippedIf(IsFalse(c, t), lhs))
             ELSE Merge(c, lhs, FlippedIf(IsFalse(c, t), cond)), g)
      ELSE Reindex(c, g, ConstantBranch(c, lhs, cond, t, e), NoLit)

(* simplify_gate. *)
SimplifyGate(c, g) ==
  LET gate == c.gates[g]
  IN  CASE gate.garbage     -> c
        [] ~gate.garbage /\ gate.tag = "and" -> SimplifyAnd(c, g)
        [] ~gate.garbage /\ gate.tag = "xor" -> SimplifyXor(c, g)
        [] ~gate.garbage /\ gate.tag = "ite" -> SimplifyIte(c, g)

-----------------------------------------------------------------------------
(***************************************************************************)
(* The literal src of the right-hand side is replaced by dst.              *)
(***************************************************************************)
Replace(S, src, dst) == (S \ {src}) \cup {dst}

(* Mutant of RewriteAnd: complementary inputs are not noticed. *)
RewriteAndOnly(c, g, dst, src) ==
  LET gate == c.gates[g]
      S    == Replace(ToSet(gate.rhs), src, dst)
  IN  IF src \notin ToSet(gate.rhs) THEN c
      ELSE UpdateAnd(c, g, SortLits({l \in S : ~Valued(c, l)}), FALSE, dst)

(* rewrite_and_gate. *)
RewriteAnd(c, g, dst, src) ==
  LET gate == c.gates[g]
      S    == Replace(ToSet(gate.rhs), src, dst)
      contradiction == \/ NOT(gate.lhs) \in S
                       \/ {dst, NOT(dst)} \subseteq S
                       \/ \E l \in S : IsFalse(c, l)
  IN  CASE IsTrue(c, gate.lhs) -> [c EXCEPT !.gates[g].garbage = TRUE]
        [] ~IsTrue(c, gate.lhs) /\ src \notin ToSet(gate.rhs) -> c
        [] OTHER -> UpdateAnd(c, g, SortLits({l \in S : ~Valued(c, l)}),
                              contradiction, dst)

(* rewrite_xor_gate: inputs are positive, the same input twice cancels out. *)
RewriteXor(c, g, dst, src) ==
  LET gate == c.gates[g]
      rest == ToSet(gate.rhs) \ {src}
      S    == IF STRIP(dst) \in rest THEN rest \ {STRIP(dst)}
              ELSE rest \cup {STRIP(dst)}
      flip == Parity({l \in S : IsTrue(c, l)}) # NEGATED(dst)
  IN  CASE dst \in {gate.lhs, NOT(gate.lhs)} -> [c EXCEPT !.gates[g].garbage = TRUE]
        [] dst \notin {gate.lhs, NOT(gate.lhs)} /\ src \notin ToSet(gate.rhs) -> c
        [] OTHER -> UpdateXor(c, g, FlippedIf(flip, gate.lhs),
                              SortLits({l \in S : ~Valued(c, l)}), dst)

(* A parity of two literals of any sign. *)
XorGate(lhs, k, l) ==
  Gate("xor", FlippedIf(NEGATED(k) # NEGATED(l), lhs), SortLits({STRIP(k), STRIP(l)}))

(* What an if-then-else turns into when one of its inputs is replaced by a
   literal of the variable of another one: both literals or neither true, a
   conjunction of two literals, their parity, or just one of them. *)
Degenerate(lhs, cond, t, e, dst, src) ==
  LET and(l, S) == Gate("and", l, SortLits(S))
  IN  IF src = cond /\ dst \in {t, NOT(e)} THEN and(NOT(lhs), {NOT(t), NOT(e)})
      ELSE IF src = cond                  THEN and(lhs, {t, e})
      ELSE IF src = t /\ dst = cond       THEN and(NOT(lhs), {NOT(cond), NOT(e)})
      ELSE IF src = t /\ dst = NOT(cond)  THEN and(lhs, {NOT(cond), e})
      ELSE IF src = t                     THEN XorGate(lhs, cond, e)
      ELSE IF dst = cond                  THEN and(lhs, {cond, t})
      ELSE IF dst = NOT(cond)             THEN and(NOT(lhs), {cond, NOT(t)})
      ELSE XorGate(NOT(lhs), cond, t)

(* The binary clauses of a conjunction that was an if-then-else. *)
AddBinariesOf(c, gate) ==
  AddBinary(AddBinary(c, NOT(gate.lhs), gate.rhs[1]), NOT(gate.lhs), gate.rhs[2])

(* Mutant of RewriteIte: negations that normalization brings in are not
   connected. *)
RewriteIteUnconnected(c, g, dst, src) ==
  LET gate == c.gates[g]
      lhs  == gate.lhs
      cond == gate.rhs[1]
      t    == gate.rhs[2]
      e    == gate.rhs[3]
      new(l) == IF l = src THEN dst ELSE l
      turned == Degenerate(lhs, cond, t, e, dst, src)
      bare(d) == [d EXCEPT !.occurrences = c.occurrences]
  IN  IF src \notin ToSet(gate.rhs) THEN c
      ELSE IF IDX(dst) \notin {IDX(l) : l \in ToSet(gate.rhs) \ {src}}
      THEN bare(Reindex(c, g, NormalizedIte(lhs, new(cond), new(t), new(e)), dst))
      ELSE IF {src, dst} = {t, e} THEN MarkGarbage(Merge(c, lhs, dst), g)
      ELSE bare(Reindex(c, g, turned, dst))

(* rewrite_ite_gate. *)
RewriteIte(c, g, dst, src) ==
  LET gate == c.gates[g]
      lhs  == gate.lhs
      cond == gate.rhs[1]
      t    == gate.rhs[2]
      e    == gate.rhs[3]
      new(l) == IF l = src THEN dst ELSE l
      turned == Degenerate(lhs, cond, t, e, dst, src)
      put    == Reindex(c, g, turned, dst)
  IN  IF src \notin ToSet(gate.rhs) THEN c
      ELSE IF IDX(dst) \notin {IDX(l) : l \in ToSet(gate.rhs) \ {src}}
      THEN Reindex(c, g, NormalizedIte(lhs, new(cond), new(t), new(e)), dst)
      ELSE IF {src, dst} = {t, e} THEN MarkGarbage(Merge(c, lhs, dst), g)
      ELSE IF Matching(c, turned, g) = {} /\ turned.tag = "and"
      THEN AddBinariesOf(put, turned) ELSE put

(* rewrite_gate, and connecting the gate to dst (in rewrite_gates). *)
RewriteGate(c, g, dst, src) ==
  LET gate == c.gates[g]
      done == CASE gate.garbage -> c
                [] ~gate.garbage /\ gate.tag = "and" -> RewriteAnd(c, g, dst, src)
                [] ~gate.garbage /\ gate.tag = "xor" -> RewriteXor(c, g, dst, src)
                [] ~gate.garbage /\ gate.tag = "ite" -> RewriteIte(c, g, dst, src)
      after == done.gates[g]
  IN  IF done.inconsistent \/ after.garbage \/ dst \notin ToSet(after.rhs) THEN done
      ELSE Connect(done, {dst}, g)
=============================================================================
