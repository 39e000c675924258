-------------------------------- MODULE Trail --------------------------------
(***************************************************************************)
(* The assignment of the solver: values, decision levels, reasons, the     *)
(* trail and its decision frames, as assigning (assign.c, inlineassign.h)  *)
(* and backtracking (backtrack.c) change them.  Backtracking may be        *)
(* chronological: it can leave the conflict literal assigned on a level    *)
(* far below the current one, so the levels along the trail are not        *)
(* sorted, and a backtrack keeps, out of order, the literals it finds      *)
(* above the cut whose level is low enough.                                *)
(***************************************************************************)
EXTENDS Literals, Sequences

CONSTANT ChronoLevels    \* option 'chronolevels': longest accepted backjump

ASSUME ChronoAssumption == ChronoLevels \in Nat

VARIABLES
  values,      \* -1, 0 or 1 for each literal
  assigned,    \* level and reason of each variable
  trail,       \* the assigned literals that are not flushed yet, in order
  frames,      \* decision and trail height of each open decision level
  propagate,   \* how many trail literals are propagated
  unflushed    \* how many root-level literals are still on the trail

trailVars == <<values, assigned, trail, frames, propagate, unflushed>>

level == Len(frames)

LEVEL(lit) == assigned[IDX(lit)].level

REASON(lit) == assigned[IDX(lit)].reason

-----------------------------------------------------------------------------
(***************************************************************************)
(* Reasons: a large clause by reference, a binary clause by its other      *)
(* literal, or one of the two reserved values.  The entry of an unassigned *)
(* variable is dead (each reader tests 'values' first) and kept at Unused. *)
(***************************************************************************)
DECISION == [kind |-> "decision"]

UNIT == [kind |-> "unit"]

Binary(other) == [kind |-> "binary", other |-> other]

Large(ref) == [kind |-> "large", ref |-> ref]

Unused == [level |-> 0, reason |-> UNIT]

Assignment(lit, lev, reason) == [lit |-> lit, level |-> lev, reason |-> reason]

(* kissat_assign turns every root-level reason into UNIT_REASON. *)
AssignedAs(a) == [level  |-> a.level,
                  reason |-> IF a.level = 0 THEN UNIT ELSE a.reason]

(* kissat_assign_binary and kissat_fast_binary_assign with 'jumpreasons':
   the reason of the reason, if that is binary too. *)
JumpedReason(other) ==
  IF REASON(other).kind = "binary" THEN REASON(other).other ELSE other

(* The highest level of some literals, as kissat_assignment_level and
   one_literal_on_conflict_level compute it. *)
HighestLevel(lits) ==
  IF lits = {} THEN 0
  ELSE CHOOSE k \in {LEVEL(l) : l \in lits} : \A l \in lits : LEVEL(l) <= k

-----------------------------------------------------------------------------
(***************************************************************************)
(* kissat_backtrack_without_updating_phases followed by the assignments    *)
(* 'news' that its caller makes.  Several backtracks in a row, as in       *)
(* kissat_backtrack_after_conflict, come to the last and deepest one.      *)
(***************************************************************************)
(* Mutant of KeptTrail: nothing above the cut is kept. *)
KeptTrailOnlyBelowCut(newLevel) ==
  IF newLevel = level THEN trail
  ELSE SubSeq(trail, 1, frames[newLevel + 1].trail)

KeptTrail(newLevel) ==
  IF newLevel = level THEN trail
  ELSE LET cut == frames[newLevel + 1].trail
       IN  SubSeq(trail, 1, cut)
             \o SelectSeq(SubSeq(trail, cut + 1, Len(trail)),
                          LAMBDA lit : LEVEL(lit) <= newLevel)

(* Mutants of ResumeAt: the position is not reset, or is set to the end of
   the trail. *)
ResumeWhereItWas(newLevel) == propagate

ResumeAtEnd(newLevel) == IF newLevel = level THEN propagate
                         ELSE Len(KeptTrail(newLevel))

(* Propagation resumes where the first removed level began, so that it also
   visits the literals that were kept out of order. *)
ResumeAt(newLevel) == IF newLevel = level THEN propagate
                      ELSE frames[newLevel + 1].trail

(* Mutant of Unassigns: all that is above the cut, whatever its level. *)
UnassignsAboveCut(newLevel, lit) ==
  \/ LEVEL(lit) > newLevel
  \/ /\ newLevel < level
     /\ {lit, NOT(lit)} \cap {trail[i] : i \in
            (frames[newLevel + 1].trail + 1)..Len(trail)} # {}

Unassigns(newLevel, lit) == LEVEL(lit) > newLevel

BacktrackAndAssign(newLevel, news) ==
  LET isNew(lit) == \E i \in DOMAIN news : news[i].lit = lit
  IN  /\ frames' = SubSeq(frames, 1, newLevel)
      /\ propagate' = ResumeAt(newLevel)
      /\ trail' = KeptTrail(newLevel) \o [i \in DOMAIN news |-> news[i].lit]
      /\ values' = [lit \in LITS |->
                      CASE isNew(lit)               -> 1
                        [] isNew(NOT(lit))          -> -1
                        [] Unassigns(newLevel, lit) -> 0
                        [] OTHER                    -> values[lit]]
      /\ assigned' = [v \in Vars |->
                        IF isNew(v) \/ isNew(NOT(v))
                        THEN AssignedAs(news[CHOOSE i \in DOMAIN news :
                                               IDX(news[i].lit) = v])
                        ELSE IF Unassigns(newLevel, v) THEN Unused
                        ELSE assigned[v]]
      /\ unflushed' = unflushed + Len(SelectSeq(news, LAMBDA a : a.level = 0))

(* kissat_assign on its own. *)
Assign(lit, lev, reason) ==
  /\ values' = [values EXCEPT ![lit] = 1, ![NOT(lit)] = -1]
  /\ assigned' = [assigned EXCEPT ![IDX(lit)] =
                    AssignedAs(Assignment(lit, lev, reason))]
  /\ trail' = Append(trail, lit)
  /\ unflushed' = IF lev = 0 THEN unflushed + 1 ELSE unflushed
  /\ UNCHANGED <<frames, propagate>>

Backtrack(newLevel) == BacktrackAndAssign(newLevel, <<>>)

(* kissat_determine_new_level: a backjump over more than 'chronolevels'
   levels is replaced by a backtrack over one. *)
DetermineNewLevel(lev, jump) ==
  IF (lev - 1) - jump > ChronoLevels THEN lev - 1 ELSE jump

(* kissat_push_frame and kissat_assign_decision. *)
PushDecision(lit) ==
  /\ frames' = Append(frames, [decision |-> lit, trail |-> Len(trail)])
  /\ trail' = Append(trail, lit)
  /\ values' = [values EXCEPT ![lit] = 1, ![NOT(lit)] = -1]
  /\ assigned' = [assigned EXCEPT ![IDX(lit)] =
                    [level |-> level + 1, reason |-> DECISION]]
  /\ UNCHANGED <<propagate, unflushed>>

(* kissat_flush_trail: root-level literals keep their value and leave the
   trail. *)
FlushTrail ==
  /\ trail' = <<>>
  /\ propagate' = 0
  /\ unflushed' = 0
  /\ UNCHANGED <<values, assigned, frames>>

InitTrail ==
  /\ values = [lit \in LITS |-> 0]
  /\ assigned = [v \in Vars |-> Unused]
  /\ trail = <<>>
  /\ frames = <<>>
  /\ propagate = 0
  /\ unflushed = 0
=============================================================================
