------------------------------- MODULE Minimize -------------------------------
(***************************************************************************)
(* Minimizing and shrinking the first UIP clause (minimize.c, shrink.c)    *)
(* along the reasons on the trail, before it is learned.  A literal goes   *)
(* if its reason leads back to other literals of the clause only; all      *)
(* literals of one level are replaced by a single one if that level has    *)
(* one through which all ways to them go.                                  *)
(*                                                                         *)
(* Verdicts are cached: 'removable' variables are implied by the literals  *)
(* of the clause, 'poisoned' ones were found not to be.  Both survive from *)
(* one literal to the next, while literals leave the clause.  'minimizing' *)
(* holds when kissat_minimize_clause asks, and not when shrinking does.    *)
(***************************************************************************)
EXTENDS Watching

CONSTANTS
  Shrinking,        \* option 'shrink': 0 to 3
  MinimizeDepth     \* option 'minimizedepth': limit on the recursion

ASSUME MinimizeAssumption == Shrinking \in 0..3 /\ MinimizeDepth \in Nat \ {0}

Marks == [removable : SUBSET Vars, poisoned : SUBSET Vars]

Queries == [lit : LITS, depth : Nat, chain : BOOLEAN, marks : Marks]

OnLevel(lits, k) == {l \in lits : LEVEL(l) = k}

(* The literals of the reason besides the assigned one, in their order. *)
OtherLits(lit) ==
  LET r == REASON(lit)
  IN  IF r.kind = "large"
      THEN SelectSeq(clauses[r.ref].lits, LAMBDA l : IDX(l) # IDX(lit))
      ELSE <<r.other>>

(* minimized_index: TRUE or FALSE at once, or the reason has to be tried.
   frame.used counts the literals the deduced clause has on a level. *)
RemovableAtOnce(q) ==
  \/ LEVEL(q.lit) = 0
  \/ IDX(q.lit) \in q.marks.removable /\ (q.depth > 0 \/ q.chain)

KeptAtOnce(q, deduced, minimizing) ==
  \/ REASON(q.lit) = DECISION
  \/ IDX(q.lit) \in q.marks.poisoned
  \/ /\ minimizing \/ (q.depth = 0 /\ ~q.chain)
     /\ Cardinality(OnLevel(deduced, LEVEL(q.lit))) < 2

(* Mutant of Marked: what was looked at counts as removable. *)
MarkedRemovable(answer, lit) ==
  [answer EXCEPT !.marks.removable = @ \cup {IDX(lit)}]

(* kissat_push_removable and kissat_push_poisoned, on the way back. *)
Marked(answer, lit) ==
  [answer EXCEPT
     !.marks.removable = IF answer.holds THEN @ \cup {IDX(lit)} ELSE @,
     !.marks.poisoned  = IF answer.holds THEN @ ELSE @ \cup {IDX(lit)}]

Answer(holds, marks) == [holds |-> holds, marks |-> marks]

(***************************************************************************)
(* minimize_literal, minimize_reference and minimize_binary: is a literal  *)
(* implied by the clause, and the marks afterwards.  Binary reasons are    *)
(* followed in a loop, which neither counts as recursion nor looks at the  *)
(* depth: these are the queries with 'chain'.  The query itself is marked  *)
(* unless it is a literal of the clause, at depth 0.                       *)
(***************************************************************************)
Minimized(deduced, minimizing) ==
  LET minimized[q \in Queries] ==
        IF ~q.chain /\ q.depth >= MinimizeDepth THEN Answer(FALSE, q.marks)
        ELSE IF RemovableAtOnce(q) THEN Answer(TRUE, q.marks)
        ELSE IF KeptAtOnce(q, deduced, minimizing) THEN Answer(FALSE, q.marks)
        ELSE LET chain == REASON(q.lit).kind = "binary"
                 deeper == IF chain THEN q.depth
                           ELSE IF q.chain THEN q.depth + 2 ELSE q.depth + 1
                 result ==
                   FoldLeft(LAMBDA r, other :
                              IF r.holds
                              THEN minimized[[lit   |-> other,
                                              depth |-> deeper,
                                              chain |-> chain,
                                              marks |-> r.marks]]
                              ELSE r,
                            Answer(TRUE, q.marks), OtherLits(q.lit))
             IN  IF q.depth = 0 /\ ~q.chain THEN result
                 ELSE Marked(result, q.lit)
  IN  minimized

(* Mutant of InClause: the singleton frame is not looked at, and the literal
   counts as removable because it is one of the clause. *)
InClauseAsAnyOther(lit, marks) ==
  [lit |-> lit, depth |-> 1, chain |-> FALSE, marks |-> marks]

InClause(lit, marks) ==
  [lit |-> lit, depth |-> 0, chain |-> FALSE, marks |-> marks]

OutsideClause(lit, marks) ==
  [lit |-> lit, depth |-> 1, chain |-> FALSE, marks |-> marks]

(* Literals of the clause that are tried one after the other: the loop of
   kissat_minimize_clause and minimize_block. *)
MinimizedLits(lits, deduced, minimizing, marks) ==
  FoldLeft(LAMBDA st, lit :
             LET answer == Minimized(deduced, minimizing)[InClause(lit, st.marks)]
             IN  [lits  |-> IF answer.holds THEN st.lits \ {lit} ELSE st.lits,
                  marks |-> answer.marks],
           [lits |-> lits, marks |-> marks], SetToSeq(lits))

(* kissat_minimize_clause: the clause below the conflict level, with all its
   variables marked; left to shrinking if that is done with full effort. *)
MinimizeClause(deduced, uip) ==
  LET marks == [removable |-> {IDX(l) : l \in deduced \cup {uip}},
                poisoned  |-> {}]
      st    == MinimizedLits(deduced, deduced, TRUE, marks)
  IN  IF Shrinking > 2 THEN [lits |-> deduced, marks |-> marks]
      ELSE [st EXCEPT !.marks.poisoned = {}]

-----------------------------------------------------------------------------
(***************************************************************************)
(* shrink_literal for the level that is being shrunken: a literal of that  *)
(* level becomes shrinkable, one below has to be implied by the clause.    *)
(***************************************************************************)
ShrinkLiteral(st, lit, k, deduced) ==
  LET idx == IDX(lit)
  IN  IF LEVEL(lit) = 0 \/ idx \in st.shrinkable THEN st
      ELSE IF LEVEL(lit) = k
      THEN [st EXCEPT !.shrinkable = @ \cup {idx}, !.open = @ + 1]
      ELSE IF idx \in st.marks.removable THEN st
      ELSE IF Shrinking < 3 THEN [st EXCEPT !.failed = TRUE]
      ELSE LET answer == Minimized(deduced, FALSE)[OutsideClause(lit, st.marks)]
           IN  [st EXCEPT !.marks = answer.marks, !.failed = ~answer.holds]

(* shrink_along_reason: large reasons are used only with shrink > 1, and a
   binary one never fails. *)
ShrinkAlong(st, uip, k, deduced) ==
  LET resolved == [st EXCEPT !.open = @ - 1]
  IN  IF REASON(uip).kind = "binary"
      THEN [ShrinkLiteral(resolved, REASON(uip).other, k, deduced)
              EXCEPT !.failed = FALSE]
      ELSE IF Shrinking < 2 THEN [resolved EXCEPT !.failed = TRUE]
      ELSE FoldLeft(LAMBDA s, other : IF s.failed THEN s
                                      ELSE ShrinkLiteral(s, other, k, deduced),
                    resolved, OtherLits(uip))

(* Mutant of ShrinkStep: it stops with two literals left. *)
ShrinkStepOneOff(st, lit, k, deduced) ==
  IF st.failed \/ st.uip # 0 \/ IDX(lit) \notin st.shrinkable THEN st
  ELSE IF st.open <= 2 THEN [st EXCEPT !.uip = lit]
  ELSE ShrinkAlong(st, lit, k, deduced)

(* shrink_block goes down the trail until a single shrinkable literal, the
   unique implication point of the block, is left. *)
ShrinkStep(st, lit, k, deduced) ==
  IF st.failed \/ st.uip # 0 \/ IDX(lit) \notin st.shrinkable THEN st
  ELSE IF st.open = 1 THEN [st EXCEPT !.uip = lit]
  ELSE ShrinkAlong(st, lit, k, deduced)

ShrinkBlock(block, k, deduced, marks) ==
  LET start == [open |-> Cardinality(block), shrinkable |-> {IDX(l) : l \in block},
                marks |-> marks, uip |-> 0, failed |-> FALSE]
  IN  FoldLeft(LAMBDA st, lit : ShrinkStep(st, lit, k, deduced),
               start, Reverse(trail))

(* minimize_and_shrink_block: all the literals of the block become one, or
   else they are minimized. *)
ShrinkLevel(st, k, deduced) ==
  LET block == OnLevel(st.lits, k)
      shrunken == ShrinkBlock(block, k, deduced, st.marks)
      minimized == MinimizedLits(block, deduced, FALSE, shrunken.marks)
  IN  IF Cardinality(block) < 2 THEN st
      ELSE IF shrunken.failed
      THEN [st EXCEPT !.lits = (@ \ block) \cup minimized.lits,
                      !.marks = minimized.marks]
      ELSE [lits  |-> (st.lits \ block) \cup {NOT(shrunken.uip)},
            marks |-> [shrunken.marks EXCEPT
                         !.removable = @ \cup shrunken.shrinkable],
            uips  |-> st.uips \cup {IDX(shrunken.uip)}]

(* kissat_shrink_clause: block by block, the lowest level first.  'uips' are
   the variables that become analyzed this way. *)
ShrinkClause(st, deduced) ==
  FoldLeftDomain(LAMBDA s, k : ShrinkLevel(s, k, deduced),
                 [lits |-> st.lits, marks |-> st.marks, uips |-> {}], frames)

(***************************************************************************)
(* What analyze.c does with the deduced literals below the conflict level. *)
(***************************************************************************)
MinimizedAndShrunken(deduced, uip) ==
  LET st == MinimizeClause(deduced, uip)
  IN  IF Shrinking = 0 THEN [lits |-> st.lits, marks |-> st.marks, uips |-> {}]
      ELSE ShrinkClause(st, deduced)
=============================================================================
