------------------------------ MODULE Congruence ------------------------------
(***************************************************************************)
(* kissat_congruence: extract gates, find units and equivalences among the *)
(* binary clauses, propagate both through the gates until nothing is left, *)
(* and remove the clauses that have become instances of others.            *)
(*                                                                         *)
(* Gates found in one search, units, and gates with the same input are     *)
(* taken in an order that depends on where clauses are in memory and on    *)
(* hash values: Eligible(S) are those of S that may be next.  TERMINATED   *)
(* may become true at any time and then stays true.                        *)
(***************************************************************************)
EXTENDS GateExtraction

CONSTANTS
  Problems,     \* [original |-> clauses, learned |-> redundant large clauses]
  Eligible(_)   \* a nonempty subset of a nonempty set

(* Learned clauses are implied by the original ones, no clause is
   tautological, and the root level is propagated without a conflict. *)
ASSUME ProblemsAssumption ==
  \A p \in Problems :
    /\ p.original \cup p.learned \subseteq SUBSET LITS
    /\ \A C \in p.original \cup p.learned : \A l \in C : NOT(l) \notin C
    /\ \A C \in p.learned : Entails(p.original, C)
    /\ LET units == {l \in LITS : {l} \in p.original}
       IN  ~Conflicting(p.original, Implications(p.original, units))

VARIABLES
  problem,     \* what the procedure started with
  closure,     \* see Closure
  terminated,  \* the termination flag
  pc,          \* the phase
  todo,        \* what is left to do in the phase
  work,        \* the literals to simplify or rewrite with their new literals
  rewritten,   \* an equivalence was propagated
  connected    \* literals with the clauses connected to them

vars == <<problem, closure, terminated, pc, todo, work, rewritten, connected>>

Ready(S) == S \cap Eligible(S)

(* init_closure, on a propagated root level. *)
InitClosure(p) ==
  LET units == {l \in LITS : {l} \in p.original}
      F     == Implications(p.original, units)
  IN  [irredundant  |-> {C \in p.original : Cardinality(C) > 1},
       redundant    |-> p.learned,
       fixed        |-> F,
       units        |-> {},
       inconsistent |-> FALSE,
       repr         |-> [l \in LITS |-> l],
       schedule     |-> <<>>,
       gates        |-> [g \in {} |-> NoGate],
       occurrences  |-> [l \in LITS |-> {}]]

Init ==
  /\ problem \in Problems
  /\ closure = InitClosure(problem)
  /\ terminated = FALSE
  /\ pc = "binaries"
  /\ todo = {}
  /\ work = <<>>
  /\ rewritten = FALSE
  /\ connected = {}

Terminate ==
  /\ ~terminated
  /\ pc # "done"
  /\ terminated' = TRUE
  /\ UNCHANGED <<problem, closure, pc, todo, work, rewritten, connected>>

Stop ==
  /\ pc' = "done"
  /\ todo' = {}

-----------------------------------------------------------------------------
(***************************************************************************)
(* extract_gates.                                                          *)
(***************************************************************************)
(* kissat_enter_dense_mode: satisfied binary clauses go. *)
DenseMode(c) ==
  [c EXCEPT !.irredundant =
     {C \in @ : Cardinality(C) > 2 \/ C \cap c.fixed = {}}]

ExtractBinaries ==
  /\ pc = "binaries"
  /\ \E extracted \in ExtractedBinaries(DenseMode(closure)) :
       LET dense == DenseMode(closure)
           c     == [dense EXCEPT !.irredundant = @ \cup extracted]
       IN  closure' = c /\ todo' = AndGates(c)
  /\ pc' = "ands"
  /\ UNCHANGED <<problem, terminated, work, rewritten, connected>>

(* extract_and_gates: new_and_gate on what was found. *)
ExtractAnd ==
  /\ pc = "ands"
  /\ ~closure.inconsistent
  /\ todo # {}
  /\ \E gate \in Ready(todo) :
       /\ closure' = NewGate(closure, gate)
       /\ todo' = todo \ {gate}
  /\ UNCHANGED <<problem, terminated, pc, work, rewritten, connected>>

(* extract_xor_gates. *)
ExtractXor ==
  /\ pc = "xors"
  /\ ~closure.inconsistent
  /\ todo # {}
  /\ \E gate \in Ready(todo) :
       /\ closure' = NewGate(closure, gate)
       /\ todo' = todo \ {gate}
  /\ UNCHANGED <<problem, terminated, pc, work, rewritten, connected>>

(* extract_ite_gates. *)
ExtractIte ==
  /\ pc = "ites"
  /\ ~closure.inconsistent
  /\ todo # {}
  /\ \E ite \in Ready(todo) :
       /\ closure' = NewIte(closure, ite[1], ite[2], ite[3], ite[4])
       /\ todo' = todo \ {ite}
  /\ UNCHANGED <<problem, terminated, pc, work, rewritten, connected>>

(* One search is over or stopped, the next begins. *)
EndExtraction ==
  /\ pc \in {"ands", "xors", "ites"}
  /\ todo = {} \/ terminated \/ closure.inconsistent
  /\ IF terminated \/ closure.inconsistent THEN Stop
     ELSE CASE pc = "ands" -> pc' = "xors" /\ todo' = XorGates(closure)
            [] pc = "xors" -> pc' = "ites" /\ todo' = IteGates(closure)
            [] pc = "ites" -> pc' = "units" /\ todo' = Vars
  /\ UNCHANGED <<problem, closure, terminated, work, rewritten, connected>>

-----------------------------------------------------------------------------
(***************************************************************************)
(* find_units and find_equivalences go through the variables once; a       *)
(* variable with a find is looked at again.                                *)
(***************************************************************************)
Unassigned(v) == ~Valued(closure, v)

HasBinary(k, l) == {k, l} \in closure.irredundant

First == CHOOSE v \in todo : \A u \in todo : v <= u

(* Both signs of a variable, the positive one first. *)
UnitOf(v) ==
  LET units == {l \in {v, NOT(v)} : \E k \in LITS : HasBinary(l, k) /\ HasBinary(l, NOT(k))}
  IN  units \cap (IF v \in units THEN {v} ELSE {NOT(v)})

NextVariable(phase, next) ==
  /\ IF todo # {First} THEN todo' = todo \ {First} /\ UNCHANGED pc
     ELSE IF terminated THEN Stop
     ELSE todo' = next /\ pc' = phase
  /\ UNCHANGED closure

FindUnits ==
  /\ pc = "units"
  /\ ~closure.inconsistent
  /\ IF Unassigned(First) /\ UnitOf(First) # {}
     THEN /\ \E unit \in UnitOf(First) : closure' = LearnUnit(closure, unit)
          /\ UNCHANGED <<pc, todo>>
     ELSE NextVariable("equivalences", Vars)
  /\ UNCHANGED <<problem, terminated, work, rewritten, connected>>

(* Mutant of EquivalentTo: pairs that are merged already are found again. *)
EquivalentToAny(v) ==
  {l \in LITS : /\ LessLit(v, NOT(l)) /\ LessLit(NOT(v), l)
                /\ HasBinary(v, NOT(l)) /\ HasBinary(NOT(v), l)}

(* The literals that v is equivalent to by two binary clauses, and not yet
   merged with. *)
EquivalentTo(v) ==
  {l \in LITS : /\ LessLit(v, NOT(l)) /\ LessLit(NOT(v), l)
                /\ HasBinary(v, NOT(l)) /\ HasBinary(NOT(v), l)
                /\ FindRepr(closure, v) # FindRepr(closure, l)}

FindEquivalences ==
  /\ pc = "equivalences"
  /\ ~closure.inconsistent
  /\ IF Unassigned(First) /\ EquivalentTo(First) # {}
     THEN /\ \E other \in EquivalentTo(First) : closure' = Merge(closure, First, other)
          /\ UNCHANGED <<pc, todo>>
     ELSE NextVariable("merge", {})
  /\ UNCHANGED <<problem, terminated, work, rewritten, connected>>

-----------------------------------------------------------------------------
(***************************************************************************)
(* propagate_units_and_equivalences.  While gates are simplified or        *)
(* rewritten work has the literals still to be done, the current one       *)
(* first, with the literals they are replaced by, and todo the gates of    *)
(* the current one.  The termination flag is only looked at in "merge",    *)
(* before all units and one equivalence.                                   *)
(***************************************************************************)
Continue ==
  /\ pc = "merge"
  /\ ~closure.inconsistent
  /\ IF terminated THEN Stop ELSE pc' = "propagate" /\ UNCHANGED todo
  /\ UNCHANGED <<problem, closure, terminated, work, rewritten, connected>>

Busy(newPc, pairs) ==
  /\ pc' = newPc
  /\ work' = pairs
  /\ todo' = closure.occurrences[pairs[1][1]]

(* simplify_gates of a literal that got a value. *)
PropagateUnit ==
  /\ pc = "propagate"
  /\ ~closure.inconsistent
  /\ closure.units # {}
  /\ \E lit \in Ready(closure.units) :
       /\ closure' = [closure EXCEPT !.units = @ \ {lit}]
       /\ Busy("simplify", <<<<lit, NoLit>>, <<NOT(lit), NoLit>>>>)
  /\ UNCHANGED <<problem, terminated, rewritten, connected>>

(* propagate_equivalence. *)
PropagateEquivalence ==
  /\ pc = "propagate"
  /\ ~closure.inconsistent
  /\ closure.units = {}
  /\ closure.schedule # <<>>
  /\ closure' = [closure EXCEPT !.schedule = Tail(@)]
  /\ rewritten' = TRUE
  /\ LET lit == Head(closure.schedule)
         dst == FindRepr(closure, lit)
     IN  IF Valued(closure, lit) THEN pc' = "merge" /\ UNCHANGED <<work, todo>>
         ELSE Busy("rewrite", <<<<lit, dst>>, <<NOT(lit), NOT(dst)>>>>)
  /\ UNCHANGED <<problem, terminated, connected>>

SimplifyOne ==
  /\ pc = "simplify"
  /\ ~closure.inconsistent
  /\ todo # {}
  /\ \E g \in Ready(todo) : /\ closure' = SimplifyGate(closure, g)
                               /\ todo' = todo \ {g}
  /\ UNCHANGED <<problem, terminated, pc, work, rewritten, connected>>

RewriteOne ==
  /\ pc = "rewrite"
  /\ ~closure.inconsistent
  /\ todo # {}
  /\ \E g \in Ready(todo) :
       /\ closure' = RewriteGate(closure, g, work[1][2], work[1][1])
       /\ todo' = todo \ {g}
  /\ UNCHANGED <<problem, terminated, pc, work, rewritten, connected>>

(* The gates of one literal are done, its occurrences are released. *)
ReleaseOccurrences ==
  /\ pc \in {"simplify", "rewrite"}
  /\ ~closure.inconsistent
  /\ todo = {}
  /\ closure' = [closure EXCEPT !.occurrences[work[1][1]] = {}]
  /\ IF Len(work) > 1 THEN Busy(pc, Tail(work))
     ELSE /\ pc' = IF pc = "simplify" THEN "propagate" ELSE "merge"
          /\ work' = <<>>
          /\ UNCHANGED todo
  /\ UNCHANGED <<problem, terminated, rewritten, connected>>

Inconsistent ==
  /\ pc \in {"units", "equivalences", "merge", "propagate", "simplify", "rewrite"}
  /\ closure.inconsistent
  /\ Stop
  /\ UNCHANGED <<problem, closure, terminated, work, rewritten, connected>>

-----------------------------------------------------------------------------
(***************************************************************************)
(* forward_subsume_matching_clauses.  Clauses are compared after replacing *)
(* their literals by representatives.  todo are the candidates.            *)
(***************************************************************************)
Represented(C) == {FindRepr(closure, l) : l \in {k \in C : ~IsFalse(closure, k)}}

Matchable ==
  UNION {{v, IDX(FindRepr(closure, v))} :
           v \in {u \in Vars : Unassigned(u) /\ FindRepr(closure, u) # u}}

Removable(C) ==
  \/ C \cap closure.fixed # {}
  \/ \E l \in Represented(C) : NOT(l) \in Represented(C)

Candidate(C, isRedundant) == [lits |-> C, redundant |-> isRedundant]

Candidates(Cs, isRedundant) ==
  {Candidate(C, isRedundant) : C \in {D \in Cs :
     Cardinality(D) > 2 /\ ~Removable(D) /\
     \E l \in D : ~IsFalse(closure, l) /\ IDX(l) \in Matchable}}

(* Nothing is left to propagate.  Of the redundant clauses only those that
   are stored before the last irredundant one are considered. *)
EndPropagation ==
  /\ pc = "propagate"
  /\ ~closure.inconsistent
  /\ closure.units = {}
  /\ closure.schedule = <<>>
  /\ IF terminated \/ ~rewritten THEN Stop /\ UNCHANGED closure
     ELSE \E before \in SUBSET closure.redundant :
            /\ closure' = [DenseMode(closure) EXCEPT
                 !.irredundant = {C \in @ : Cardinality(C) = 2 \/ ~Removable(C)},
                 !.redundant   = {C \in @ : C \in before => ~Removable(C)}]
            /\ todo' = Candidates(closure.irredundant, FALSE)
                         \cup Candidates(before, TRUE)
            /\ pc' = "subsume"
  /\ UNCHANGED <<problem, terminated, work, rewritten, connected>>

Smallest ==
  {C \in todo : \A D \in todo : Cardinality(Represented(C.lits))
                                  <= Cardinality(Represented(D.lits))}

Connected(l) == {p[2] : p \in {q \in connected : q[1] = l}}

(* Mutant of Subsuming: an irredundant clause is subsumed by a redundant one. *)
SubsumingAny(C) ==
  {D \in UNION {Connected(FindRepr(closure, l)) : l \in C.lits} :
     Represented(D.lits) \subseteq Represented(C.lits)}

(* The connected clauses that subsume C. *)
Subsuming(C) ==
  {D \in UNION {Connected(FindRepr(closure, l)) : l \in C.lits} :
     /\ D.redundant => C.redundant
     /\ Represented(D.lits) \subseteq Represented(C.lits)}

LeastOccurring(C) ==
  LET reprs    == {FindRepr(closure, l) : l \in C.lits}
      count(l) == Cardinality(Connected(l))
  IN  {l \in reprs : \A k \in reprs : count(l) <= count(k)}

RemoveClause(C) ==
  closure' = IF C.redundant THEN [closure EXCEPT !.redundant = @ \ {C.lits}]
             ELSE [closure EXCEPT !.irredundant = @ \ {C.lits}]

(* find_subsuming_clause. *)
ForwardSubsume ==
  /\ pc = "subsume"
  /\ ~terminated
  /\ todo # {}
  /\ \E C \in Ready(Smallest) :
       /\ IF Subsuming(C) # {} THEN RemoveClause(C) /\ UNCHANGED connected
          ELSE /\ \E l \in LeastOccurring(C) : connected' = connected \cup {<<l, C>>}
               /\ UNCHANGED closure
       /\ todo' = todo \ {C}
  /\ UNCHANGED <<problem, terminated, pc, work, rewritten>>

EndSubsumption ==
  /\ pc = "subsume"
  /\ terminated \/ todo = {}
  /\ Stop
  /\ UNCHANGED <<problem, closure, terminated, work, rewritten, connected>>

-----------------------------------------------------------------------------
Done == pc = "done" /\ UNCHANGED vars

Next ==
  \/ Terminate
  \/ ExtractBinaries \/ ExtractAnd \/ ExtractXor \/ ExtractIte \/ EndExtraction
  \/ FindUnits \/ FindEquivalences
  \/ Continue \/ PropagateUnit \/ PropagateEquivalence
  \/ SimplifyOne \/ RewriteOne \/ ReleaseOccurrences \/ Inconsistent
  \/ EndPropagation \/ ForwardSubsume \/ EndSubsumption
  \/ Done

Spec == Init /\ [][Next]_vars

(* The procedure runs in one thread, which takes a step whenever it can. *)
FairSpec == Spec /\ WF_vars(Next)

-----------------------------------------------------------------------------
(* What congruence closure must keep true. *)

Formula(c) == c.irredundant \cup {{l} : l \in c.fixed}

(* M agrees with what the gate says. *)
GateHolds(M, gate) ==
  LET rhs == gate.rhs
  IN  (gate.lhs \in M) <=>
        CASE gate.tag = "and" -> ToSet(rhs) \subseteq M
          [] gate.tag = "xor" -> Parity(ToSet(rhs) \cap M)
          [] gate.tag = "ite" -> IF rhs[1] \in M THEN rhs[2] \in M ELSE rhs[3] \in M

(* The inputs of a gate, in the order in which it is hashed: the gates of
   one function of the same inputs must be found under one entry. *)
Normalized(gate) ==
  LET rhs == gate.rhs
  IN  /\ Len(rhs) > 1
      /\ \A i, j \in 1..Len(rhs) : i # j => IDX(rhs[i]) # IDX(rhs[j])
      /\ CASE gate.tag = "and" -> rhs = SortLits(ToSet(rhs))
           [] gate.tag = "xor" -> rhs = SortLits(ToSet(rhs)) /\ ToSet(rhs) \subseteq Vars
           [] gate.tag = "ite" -> Len(rhs) = 3 /\ rhs[1] > 0 /\ rhs[2] > 0

(***************************************************************************)
(* The state is well-formed: representatives have smaller indices and      *)
(* respect negation, gates are normalized, and a gate is among the         *)
(* occurrences only of literals.                                           *)
(***************************************************************************)
TypeOK ==
  /\ problem \in Problems
  /\ terminated \in BOOLEAN
  /\ pc \in {"binaries", "ands", "xors", "ites", "units", "equivalences",
             "merge", "propagate", "simplify", "rewrite", "subsume", "done"}
  /\ closure.fixed \subseteq LITS
  /\ closure.units \subseteq closure.fixed
  /\ \A l \in LITS : /\ closure.repr[l] = l \/ LessLit(closure.repr[l], l)
                     /\ closure.repr[NOT(l)] = NOT(closure.repr[l])
                     /\ closure.occurrences[l] \subseteq DOMAIN closure.gates
  /\ \A g \in Live(closure) : Normalized(closure.gates[g])

(***************************************************************************)
(* The clauses never gain or lose a model: binary clauses that extraction  *)
(* derives, units, the clauses of merged literals, and the removal of      *)
(* clauses that are only subsumed after replacing literals all leave the   *)
(* formula equivalent, and it is unsatisfiable when the empty clause was   *)
(* derived.  A redundant clause must not replace an irredundant one.       *)
(***************************************************************************)
ClausesEquivalent ==
  IF closure.inconsistent THEN ~Satisfiable(problem.original)
  ELSE ModelsOf(Formula(closure)) = ModelsOf(problem.original)

(***************************************************************************)
(* Every gate and every merge is a consequence of the formula, whatever    *)
(* was rewritten, simplified and normalized in whatever order.             *)
(***************************************************************************)
GatesImplied ==
  ~closure.inconsistent =>
    \A M \in ModelsOf(problem.original) :
      /\ \A g \in Live(closure) : GateHolds(M, closure.gates[g])
      /\ \A l \in LITS : l \in M <=> closure.repr[l] \in M

(***************************************************************************)
(* The closure is complete: once nothing is left to propagate, gates have  *)
(* unassigned representatives as inputs, and no two of them are the same   *)
(* function of the same inputs (their left-hand sides would not have been  *)
(* merged).  The occurrences lead to every gate that a merged or assigned  *)
(* literal is in.                                                          *)
(***************************************************************************)
ClosureComplete ==
  (pc = "propagate" /\ closure.units = {} /\ closure.schedule = <<>>
     /\ ~closure.inconsistent) =>
    /\ \A g \in Live(closure) : \A l \in ToSet(closure.gates[g].rhs) :
         ~Valued(closure, l) /\ closure.repr[l] = l
    /\ \A g, h \in Live(closure) :
         (/\ closure.gates[g].tag = closure.gates[h].tag
          /\ closure.gates[g].rhs = closure.gates[h].rhs) => g = h

(***************************************************************************)
(* Congruence closure ends, although every step of it may schedule units   *)
(* and literals and reconnect gates.                                       *)
(***************************************************************************)
ClosureEnds == <>(pc = "done")
=============================================================================
