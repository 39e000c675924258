-------------------------------- MODULE Lucky --------------------------------
(***************************************************************************)
(* Lucky phases (lucky.c), tried before the search begins: all variables   *)
(* true, all false, and four walks over the variables in the order of      *)
(* their external names or against it, which assume each one false, or     *)
(* true, and propagate.  A walk turns the assumption around that led to a  *)
(* conflict, once; if it was the only one its analysis gives a unit.       *)
(*                                                                         *)
(* The first two attempts ignore conflicts: the clauses are looked through *)
(* before.  The functions of the four walks differ in order and sign only. *)
(* kissat_lucky is called twice; what preprocessing does in between is the *)
(* subject of Inprocess.                                                   *)
(***************************************************************************)
EXTENDS Vivify

VARIABLES
  original,    \* the formula to solve
  lucky        \* what the current call of kissat_lucky is doing

luckyVars == <<original, lucky>>

Original == {ToSet(original[i]) : i \in DOMAIN original}

(* Only variables that occur have been imported. *)
Active == {IDX(lit) : lit \in UNION Original}

-----------------------------------------------------------------------------
InOrder == SelectSeq([v \in 1..Max(Vars) |-> v], LAMBDA v : v \in Active)

(* Attempts 1 and 2 set all variables alike, 3 to 6 are the walks. *)
AssumesTrue(attempt) == attempt \in {1, 4, 6}

Try(calls, attempt) ==
  [calls   |-> calls,      \* calls of kissat_lucky, with this one
   attempt |-> attempt,
   phase   |-> IF attempt < 3 THEN "check" ELSE "walk",
   todo    |-> IF attempt < 5 THEN InOrder ELSE Reverse(InOrder),
   flip    |-> 0]          \* the assumption to be made the other way round

Unlucky == [Try(0, 6) EXCEPT !.phase = "idle", !.todo = <<>>]

StartOfLuck(calls) == IF calls = 0 THEN Unlucky ELSE Try(calls, 1)

NextAttempt ==
  IF lucky.attempt < 6 THEN Try(lucky.calls, lucky.attempt + 1)
  ELSE StartOfLuck(lucky.calls - 1)

InAttempt(phases) == lucky.phase \in phases

TryingLuck == ~InAttempt({"idle"})

luckyRest ==
  <<clauses, watches, unvisited, analyzeVars, arenaVars, reduceVars, vivifyVars,
    original>>

-----------------------------------------------------------------------------
(***************************************************************************)
(* no_all_negative_clauses and no_all_positive_clauses: each irredundant   *)
(* clause has a literal that the attempt makes true and that is not false. *)
(***************************************************************************)
Suits(lit) == (lit > 0) <=> AssumesTrue(lucky.attempt)

Irredundants ==
  {r \in DOMAIN clauses : /\ ~clauses[r].garbage /\ ~clauses[r].redundant
                          /\ lastIrredundant \in {0} \cup r..Len(clauses)}

(* Mutant of AllUnsuited: binary clauses are not looked at. *)
AllUnsuitedLarge ==
  \E r \in Irredundants : \A l \in ToSet(clauses[r].lits) :
    ~(Suits(l) /\ values[l] >= 0)

AllUnsuited ==
  \/ \E r \in Irredundants : \A l \in ToSet(clauses[r].lits) :
       ~(Suits(l) /\ values[l] >= 0)
  \/ \E l \in LITS : \E w \in ToSet(watches[l]) :
       /\ w.ref = BINARY
       /\ \A k \in {l, w.blocking} : ~Suits(k) /\ values[k] = 0

LuckyCheck ==
  /\ InAttempt({"check"}) /\ Quiet
  /\ lucky' = IF AllUnsuited THEN NextAttempt ELSE [lucky EXCEPT !.phase = "uniform"]
  /\ UNCHANGED <<luckyRest, trailVars, conflict, pc, sinceRestart, result>>

-----------------------------------------------------------------------------
(***************************************************************************)
(* The loops over the variables: the next one without a value is assumed   *)
(* and propagated, until all of them have a value.                         *)
(***************************************************************************)
OpenPositions == {i \in DOMAIN lucky.todo : values[lucky.todo[i]] = 0}

GoesOn ==
  \/ InAttempt({"uniform", "walk", "flipped"}) /\ Quiet
  \/ InAttempt({"uniform"}) /\ Clashing

LuckyAssume ==
  /\ GoesOn
  /\ OpenPositions # {}
  /\ LET next == Min(OpenPositions)
         v    == lucky.todo[next]
     IN  /\ PushDecision(IF AssumesTrue(lucky.attempt) THEN v ELSE NOT(v))
         /\ lucky' = [lucky EXCEPT !.todo = SubSeq(@, next + 1, Len(@)),
                                   !.phase = IF @ = "flipped" THEN "walk" ELSE @]
  /\ conflict' = NoConflict
  /\ pc' = "propagate"
  /\ UNCHANGED <<luckyRest, sinceRestart, result>>

LuckySucceeds ==
  /\ GoesOn
  /\ OpenPositions = {}
  /\ result' = 10
  /\ conflict' = NoConflict
  /\ pc' = "done"
  /\ UNCHANGED <<luckyRest, trailVars, lucky, sinceRestart>>

(* A conflict that does not depend on the last assumption alone. *)
LuckyBacktrack ==
  /\ InAttempt({"walk"}) /\ Clashing
  /\ level > 1
  /\ lucky' = [lucky EXCEPT !.phase = "flip", !.flip = NOT(frames[level].decision)]
  /\ Backtrack(level - 1)
  /\ conflict' = NoConflict
  /\ pc' = "lucky"
  /\ UNCHANGED <<luckyRest, sinceRestart, result>>

LuckyFlip ==
  /\ InAttempt({"flip"})
  /\ lucky' = [lucky EXCEPT !.phase = "flipped", !.flip = 0]
  /\ PushDecision(lucky.flip)
  /\ pc' = "propagate"
  /\ UNCHANGED <<luckyRest, conflict, sinceRestart, result>>

(* The other way round there is a conflict as well: the next attempt begins,
   on the root level and without any propagation, or the search, which sets
   the limit on restarts. *)
LuckyFails ==
  /\ InAttempt({"flipped"}) /\ Clashing
  /\ lucky' = NextAttempt
  /\ Backtrack(0)
  /\ conflict' = NoConflict
  /\ pc' = "loop"
  /\ sinceRestart' = FALSE
  /\ UNCHANGED <<luckyRest, result>>

LuckyStep ==
  \/ LuckyCheck \/ LuckyAssume \/ LuckySucceeds
  \/ LuckyBacktrack \/ LuckyFlip \/ LuckyFails
=============================================================================
