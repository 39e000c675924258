---------------------------- MODULE KittenSolver ----------------------------
(***************************************************************************)
(* The embedded solver and the code that uses it (definition.c, sweep.c,   *)
(* its stand-alone main): clauses are added one after the other, and in    *)
(* between and afterwards the solver is asked to solve, under assumptions  *)
(* or not, the model is changed, a core is computed, the formula is shrunk *)
(* to it, shuffled and solved again.  One action per call, except that     *)
(* solving goes on in steps.  A call to solve may run out of ticks, or be  *)
(* terminated, wherever the code looks for that.                           *)
(***************************************************************************)
EXTENDS KittenAnalysis

CONSTANTS
  Problems,   \* [clauses |-> a sequence, atLeast |-> how many of them are
              \*  added before solving, assumable |-> literals]
  Orders(_),  \* some sequences, of which the permutations of the argument are tried
  Phases,     \* sets of variables that randomizing may leave with phase 1
  MaxSolves,  \* calls to solve
  MaxCalls    \* calls that assume, flip, clear, or change phases or the order

(* A variable occurs once in a clause: the code aborts otherwise. *)
ASSUME ProblemsAssumption ==
  \A p \in Problems :
    /\ p.clauses \in Seq(Seq(LITS))
    /\ \A n \in DOMAIN p.clauses : \A i, j \in DOMAIN p.clauses[n] :
         IDX(p.clauses[n][i]) = IDX(p.clauses[n][j]) => i = j
    /\ p.assumable \subseteq LITS

ASSUME PhasesAssumption == Phases \subseteq SUBSET Vars

VARIABLES
  problem,
  given,     \* how many of its clauses were added
  kitten,    \* see Kitten
  pc,        \* "user", or the place in kitten_solve
  conflict,  \* the false clause found by propagation
  solves, calls

vars == <<problem, given, kitten, pc, conflict, solves, calls>>

Init ==
  /\ problem \in Problems
  /\ given = 0
  /\ kitten = Emptied
  /\ pc = "user"
  /\ conflict = INVALID
  /\ solves = 0
  /\ calls = 0

User(Guard) ==
  /\ pc = "user"
  /\ Guard
  /\ UNCHANGED <<problem, pc, conflict, solves>>

Call == calls < MaxCalls /\ calls' = calls + 1

Clear ==
  /\ User(given > 0)
  /\ Call
  /\ given' = 0
  /\ kitten' = Emptied

(* No user does this after a refutation.  If only units that clash had been
   needed for it, nothing would have been learned, and the code would not
   notice. *)
TrackAntecedents ==
  /\ User(kitten.status = 0 /\ ~kitten.learned /\ kitten.inconsistent = INVALID)
  /\ ~kitten.antecedents
  /\ kitten' = [kitten EXCEPT !.antecedents = TRUE]
  /\ UNCHANGED <<given, calls>>

AddClause ==
  /\ User(given < Len(problem.clauses))
  /\ LET lits == problem.clauses[given + 1]
         seen == FoldLeft(Import, Reused(kitten), lits)
     IN  kitten' = NewOriginal(seen, given + 1, lits)
  /\ given' = given + 1
  /\ UNCHANGED calls

Assume(lit) ==
  /\ User(lit \in problem.assumable)
  /\ Call
  /\ kitten' = [Import(Reused(kitten), lit) EXCEPT !.assumptions = Append(@, lit)]
  /\ UNCHANGED given

RandomizePhases ==
  /\ User(solves > 0)
  /\ Call
  /\ \E P \in Phases : kitten' = [kitten EXCEPT !.phases = P]
  /\ UNCHANGED given

FlipPhases ==
  /\ User(solves > 0)
  /\ Call
  /\ kitten' = [kitten EXCEPT !.phases = Vars \ @]
  /\ UNCHANGED given

Shuffled(s) == {t \in Orders(s) : t \in Seq(ToSet(s)) /\ Len(t) = Len(s) /\ ToSet(t) = ToSet(s)}

ShuffleClauses ==
  /\ User(kitten.status = 0 /\ solves > 0 /\ kitten.queue # <<>>)
  /\ Call
  /\ \E queue \in Shuffled(kitten.queue), units \in Shuffled(kitten.units) :
     \E watches \in {[l \in LITS |-> Reverse(kitten.watches[l])], kitten.watches} :
       kitten' = SearchLast([kitten EXCEPT !.queue = queue, !.units = units,
                                           !.watches = watches])
  /\ UNCHANGED given

FlipLiteral(lit) ==
  /\ User(kitten.status = 10)
  /\ Call
  /\ IDX(lit) \in ToSet(kitten.queue)
  /\ kitten.levelOf[IDX(lit)] > 0
  /\ kitten' = Flip(kitten, lit)
  /\ UNCHANGED given

ComputeCore ==
  /\ User(kitten.status = 20 /\ kitten.antecedents)
  /\ kitten' = ComputeClausalCore(kitten)
  /\ UNCHANGED <<given, calls>>

Shrink ==
  /\ User(kitten.status = 21 /\ kitten.inconsistent # INVALID)
  /\ kitten' = ShrinkToClausalCore(kitten)
  /\ UNCHANGED <<given, calls>>

(***************************************************************************)
(* kitten_solve.                                                           *)
(***************************************************************************)
Solving(place) ==
  /\ pc = place
  /\ UNCHANGED <<problem, given, solves, calls>>

Answer(k, res) ==
  LET free == IF res = 0 /\ k.assumptions # <<>> THEN ResetAssumptions(k) ELSE k
  IN  /\ kitten' = [free EXCEPT !.status = res]
      /\ pc' = "user"
      /\ conflict' = INVALID

Solve ==
  /\ pc = "user"
  /\ given >= problem.atLeast
  /\ solves < MaxSolves
  /\ kitten' = IF kitten.status # 0 THEN ResetIncremental(kitten)
               ELSE CompletelyBacktrack(kitten)
  /\ pc' = "units"
  /\ solves' = solves + 1
  /\ UNCHANGED <<problem, given, conflict, calls>>

(* Unit clauses in their order, up to one that is false. *)
AssignUnit(s, ref) ==
  LET unit == Klause(s.kit, ref).lits[1]
  IN  CASE s.conflict # INVALID \/ IsTrue(s.kit, unit) -> s
        [] s.conflict = INVALID /\ IsFalse(s.kit, unit) -> [s EXCEPT !.conflict = ref]
        [] OTHER -> [s EXCEPT !.kit = Assign(s.kit, unit, ref)]

PropagateUnits ==
  /\ Solving("units")
  /\ IF kitten.inconsistent # INVALID THEN Answer(kitten, 20)
     ELSE LET s == FoldLeft(AssignUnit, [kit |-> kitten, conflict |-> INVALID], kitten.units)
          IN  IF s.conflict # INVALID THEN Answer(Inconsistent(s.kit, s.conflict), 20)
              ELSE /\ kitten' = s.kit
                   /\ pc' = "propagate"
                   /\ UNCHANGED conflict

Propagate ==
  /\ Solving("propagate")
  /\ conflict = INVALID
  /\ kitten.propagated < Len(kitten.trail)
  /\ LET s == PropagateLiteral(kitten)
     IN  kitten' = s.kit /\ conflict' = s.conflict
  /\ UNCHANGED pc

AnalyzeConflict ==
  /\ Solving("propagate")
  /\ conflict # INVALID
  /\ kitten.level > 0
  /\ kitten' = Analyze(kitten, conflict)
  /\ conflict' = INVALID
  /\ UNCHANGED pc

RootConflict ==
  /\ Solving("propagate")
  /\ conflict # INVALID
  /\ kitten.level = 0
  /\ Answer(Inconsistent(kitten, conflict), 20)

Propagated ==
  /\ Solving("propagate")
  /\ conflict = INVALID
  /\ kitten.propagated = Len(kitten.trail)
  /\ pc' = "decide"
  /\ UNCHANGED <<kitten, conflict>>

(* Levels for assumptions that are true already; then the first assumption
   that is not, or none. *)
Flushed(k) == IF k.level = 0 THEN [k EXCEPT !.trail = <<>>, !.propagated = 0] ELSE k

Assuming(k) ==
  LET next == SelectInSubSeq(k.assumptions, k.level + 1, Len(k.assumptions),
                             LAMBDA a : ~IsTrue(k, a))
  IN  [k EXCEPT !.level = IF next # 0 THEN next - 1 ELSE IF @ < Len(k.assumptions)
                                                      THEN Len(k.assumptions) ELSE @]

NextAssumption(k) ==
  IF k.level < Len(k.assumptions) THEN {k.assumptions[k.level + 1]} ELSE {}

(* The last unassigned variable at or before the search variable. *)
NextVariable(k) ==
  k.queue[SelectLastInSubSeq(k.queue, 1, Stamp(k, k.search), LAMBDA v : v \in Unassigned(k))]

DecideLiteral(k) ==
  LET v      == NextVariable(k)
      raised == [k EXCEPT !.level = @ + 1]
  IN  IF NextAssumption(k) # {}
      THEN Assign(raised, CHOOSE a \in NextAssumption(k) : TRUE, INVALID)
      ELSE Assign([raised EXCEPT !.search = v], IF v \in k.phases THEN NOT(v) ELSE v, INVALID)

Decide ==
  /\ Solving("decide")
  /\ LET k == Assuming(Flushed(kitten))
     IN  \/ /\ \E a \in NextAssumption(k) : IsFalse(k, a)
            /\ Answer(Failing(k), 20)
         \/ /\ \A a \in NextAssumption(k) : ~IsFalse(k, a)
            /\ Unassigned(k) = {}
            /\ Answer(k, 10)
         \/ /\ \A a \in NextAssumption(k) : ~IsFalse(k, a)
            /\ Unassigned(k) # {}
            /\ \/ Answer(k, 0)
               \/ /\ kitten' = DecideLiteral(k)
                  /\ pc' = "propagate"
                  /\ UNCHANGED conflict

Next ==
  \/ Clear \/ TrackAntecedents \/ AddClause
  \/ \E lit \in LITS : Assume(lit) \/ FlipLiteral(lit)
  \/ RandomizePhases \/ FlipPhases \/ ShuffleClauses
  \/ ComputeCore \/ Shrink
  \/ Solve
  \/ PropagateUnits \/ Propagate \/ AnalyzeConflict \/ RootConflict
  \/ Propagated \/ Decide

Spec == Init /\ [][Next]_vars

-----------------------------------------------------------------------------
(* What the users of the embedded solver rely on, and what its search relies on
   itself. *)

ClausesOf(refs) == {Lits(kitten, ref) : ref \in refs}
Given(ids)      == {ToSet(problem.clauses[i]) : i \in ids}
Assumed(lits)   == {{l} : l \in lits}
Known           == ToSet(kitten.queue)

(* The model that was found, before literals were flipped: flipping leaves
   the trail alone. *)
Found == ToSet(kitten.trail) \cup {l \in kitten.values : kitten.levelOf[IDX(l)] = 0}

(***************************************************************************)
(* Answers hold for the clauses that the user gave, whatever was solved,   *)
(* flipped, shrunk, shuffled or given up before.  10: every known variable *)
(* has a value, and the model that was found makes all clauses and         *)
(* assumptions true.  20: the given clauses contradict the failed          *)
(* assumptions, which are among the assumptions.  21: so do the clauses    *)
(* with the ids of the core.                                               *)
(***************************************************************************)
AnswersRight ==
  pc = "user" =>
    /\ kitten.status = 10 =>
         /\ \A v \in Known : (v \in kitten.values) # (NOT(v) \in kitten.values)
         /\ \A C \in ClausesOf(Originals(kitten)) : C \cap Found # {}
         /\ ToSet(kitten.assumptions) \subseteq Found
    /\ kitten.status \in {20, 21} =>
         /\ kitten.failed \subseteq ToSet(kitten.assumptions)
         /\ ~Satisfiable(Given(1..given) \cup Assumed(kitten.failed))
    /\ kitten.status = 21 =>
         ~Satisfiable(Given(CoreIds(kitten)) \cup Assumed(kitten.failed))

(***************************************************************************)
(* A learned clause follows from its antecedents when they are tracked, so *)
(* the clauses of a core are a derivation, and from the original clauses   *)
(* in any case.                                                            *)
(***************************************************************************)
ChainsImplied ==
  \A ref \in 1..Len(kitten.klauses) :
    LET c == Klause(kitten, ref)
    IN  c.learned => Entails(ClausesOf(IF kitten.antecedents THEN c.antecedents
                                       ELSE Originals(kitten)), ToSet(c.lits))

(***************************************************************************)
(* When propagation is done no clause is false and none is unit without    *)
(* its literal being true, although watches are left where they are when   *)
(* literals are flipped, a model is dropped or a limit was hit; and no     *)
(* unassigned variable is behind the one where decisions start to look.    *)
(***************************************************************************)
NothingMissed ==
  pc = "decide" =>
    /\ \A C \in ClausesOf(1..Len(kitten.klauses)) :
         \/ C \cap kitten.values # {}
         \/ Cardinality({l \in C : ~IsFalse(kitten, l)}) > 1
    /\ \A v \in Unassigned(kitten) : Stamp(kitten, v) <= Stamp(kitten, kitten.search)

(***************************************************************************)
(* "formula satisfied" (status_to_string): in status 10 the values that    *)
(* kitten_value gives satisfy the formula.                                 *)
(***************************************************************************)
FormulaSatisfied ==
  pc = "user" /\ kitten.status = 10 =>
    \A C \in ClausesOf(Originals(kitten)) : C \cap kitten.values # {}

(***************************************************************************)
(* assert (res < END_STACK (kitten->klauses)) in dereference_klause: the   *)
(* clause that makes the solver inconsistent is one of its clauses.        *)
(***************************************************************************)
InconsistentKept == kitten.inconsistent \in {INVALID} \cup 1..Len(kitten.klauses)
=============================================================================
