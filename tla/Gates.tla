--------------------------------- MODULE Gates ---------------------------------
(***************************************************************************)
(* Gate extraction for variable elimination (kissat_find_gates).  A gate   *)
(* splits off clauses with lit and clauses with its negation that define   *)
(* the variable; then only resolvents of a gate clause with a clause that  *)
(* is not one are needed, unless 'resolve' says that the gate clauses have *)
(* to be resolved with each other too.                                     *)
(***************************************************************************)
EXTENDS Database

(* The options equivalences, ands, ifthenelse and definitions. *)
GateKinds == {"equivalence", "and", "ite", "definition"}

(* Mutant of Gate: gate clauses are never resolved with each other. *)
GateOnly(pos, neg, resolve) == [pos |-> pos, neg |-> neg, resolve |-> FALSE]

Gate(pos, neg, resolve) == [pos |-> pos, neg |-> neg, resolve |-> resolve]

NoGate == Gate({}, {}, TRUE)

SwapSides(gates) == {Gate(g.neg, g.pos, g.resolve) : g \in gates}

(* The other literals of the binary clauses of lit. *)
Binaries(lit) ==
  {l \in LITS : l # lit /\ {lit, l} \in irredundant}

LargeOccurrences(lit) == {C \in Occurrences(lit) : IsLargeClause(C)}

(* lit is equivalent to l. *)
EquivalenceGates(lit) ==
  {Gate({{lit, NOT(l)}}, {{NOT(lit), l}}, FALSE) :
     l \in {k \in Binaries(NOT(lit)) : NOT(k) \in Binaries(lit)}}

(***************************************************************************)
(* The negation of lit is a conjunction: a large clause of NOT(lit), the   *)
(* base, all of whose other literals without value occur negated in binary *)
(* clauses of lit, of which there are at least two.                        *)
(***************************************************************************)
AndBases(lit) ==
  {C \in LargeOccurrences(NOT(lit)) :
     /\ ~SatisfiedClause(C)
     /\ \A l \in Open(C) \ {NOT(lit)} : NOT(l) \in Binaries(lit)}

AndGate(lit, base) ==
  Gate({{lit, NOT(l)} : l \in Open(base) \ {NOT(lit)}}, {base}, FALSE)

AndGates(lit) ==
  IF Cardinality(Binaries(lit)) < 2 THEN {}
  ELSE {AndGate(lit, base) : base \in AndBases(lit)}

(***************************************************************************)
(* An if-then-else gate: two clauses of lit that are ternary but for false *)
(* literals, with opposite conditions b, and two clauses of NOT(lit) that  *)
(* match the negated branches and may be shorter.  If they are, they do    *)
(* not only define the variable: resolve becomes TRUE.                     *)
(***************************************************************************)
Ternary(lit, l, k) ==
  {C \in LargeOccurrences(lit) :
     ~SatisfiedClause(C) /\ Open(C) = {lit, l, k} /\ Cardinality(Open(C)) = 3}

Matching(lit, l, k) ==
  {C \in Occurrences(lit) :
     ~SatisfiedClause(C) /\ Open(C) \subseteq {lit, l, k}}

Shortened(C) == Cardinality(Open(C)) < 3

Branches == {b \in LITS \X LITS \X LITS : IDX(b[2]) # IDX(b[3])}

IfThenElseGates(lit) ==
  UNION {LET b == br[1]
             c1 == br[2]
             c2 == br[3]
         IN {Gate({quad[1], quad[2]}, {quad[3], quad[4]},
                  Shortened(quad[3]) \/ Shortened(quad[4])) :
               quad \in Ternary(lit, b, c1) \X Ternary(lit, NOT(b), c2)
                         \X Matching(NOT(lit), b, NOT(c1))
                         \X Matching(NOT(lit), NOT(b), NOT(c2))} :
         br \in Branches}

(***************************************************************************)
(* A definition (kissat_find_definition): clauses of lit and of NOT(lit)   *)
(* that are unsatisfiable once the two literals are taken out of them.     *)
(* Which of these cores is found is up to the embedded solver, which does  *)
(* not know the root-level values.                                         *)
(***************************************************************************)
Without(l, Cs) == {C \ {l} : C \in Cs}

DefinitionGates(lit) ==
  LET cores ==
        {core \in SUBSET (Occurrences(lit) \cup Occurrences(NOT(lit))) :
           ~Satisfiable(Without(lit, Without(NOT(lit), core)))}
  IN  {Gate({C \in core : lit \in C}, {C \in core : NOT(lit) \in C}, TRUE) :
         core \in cores}

-----------------------------------------------------------------------------
(***************************************************************************)
(* kissat_find_gates takes a gate of the first kind there is.  The         *)
(* searches for an if-then-else gate and for a definition may reach their  *)
(* limits and find none.                                                   *)
(***************************************************************************)
Enabled(kind, gates) == IF kind \in problem.gates THEN gates ELSE {}

SyntacticGates(lit) ==
  << Enabled("equivalence", EquivalenceGates(lit)),
     Enabled("and", AndGates(lit)),
     Enabled("and", SwapSides(AndGates(NOT(lit)))) >>

LimitedGates(lit) ==
  {NoGate} \cup
  Enabled("ite", IfThenElseGates(lit) \cup SwapSides(IfThenElseGates(NOT(lit)))) \cup
  Enabled("definition", DefinitionGates(lit))

FindGates(lit) ==
  LET kinds == SyntacticGates(lit)
      found == {i \in DOMAIN kinds : kinds[i] # {}}
  IN  IF found # {} THEN kinds[Min(found)] ELSE LimitedGates(lit)
=============================================================================
