------------------------------ MODULE Watching ------------------------------
(***************************************************************************)
(* Clauses, watch lists and the propagation of one trail literal, watch by *)
(* watch (proplit.h, which propsearch.c and, for vivification, proprobe.c  *)
(* include).  A binary clause exists only as the two entries in the watch  *)
(* lists of its literals.  A large clause is watched by its first two      *)
(* literals; each of these two watches also caches a blocking literal,     *)
(* some other literal of the clause.                                       *)
(*                                                                         *)
(* The position 'searched' from which the code looks for a replacement     *)
(* watch only decides which of the candidates is found; here it is any of  *)
(* them.  New watches go straight to their lists: the code first collects  *)
(* them in 'delayed' because pushing may move the list it iterates over.   *)
(***************************************************************************)
EXTENDS Trail, SequencesExt

CONSTANT BigBig    \* classification.bigbig: jump reasons during propagation

ASSUME BigBigAssumption == BigBig \in BOOLEAN

VARIABLES
  clauses,    \* the arena: sequence of large clauses
  watches,    \* watch list of each literal
  unvisited,  \* rest of the watch list that is being visited
  conflict,   \* the conflicting clause, or NoConflict
  candidate,  \* clause ignored by the propagation of vivification, or 0
  pc          \* where the search loop is

watchVars == <<clauses, watches, unvisited, conflict>>

BINARY == 0    \* in place of the reference of a large clause

Clause(lits, redundant) ==
  [lits |-> lits, redundant |-> redundant, garbage |-> FALSE]

Watch(blocking, ref) == [blocking |-> blocking, ref |-> ref]

NoConflict == [ref |-> BINARY, lits |-> <<>>]

(* kissat_binary_conflict fills in solver->conflict. *)
BinaryConflict(a, b) == [ref |-> BINARY, lits |-> <<a, b>>]

LargeConflict(ref) == [ref |-> ref, lits |-> <<>>]

ConflictLits == IF conflict.ref = BINARY THEN conflict.lits
                ELSE clauses[conflict.ref].lits

(* The other literals of the reason clause of an assigned literal. *)
ReasonLits(lit) ==
  LET r == REASON(lit)
  IN  CASE r.kind = "binary" -> {r.other}
        [] r.kind = "large"  -> ToSet(clauses[r.ref].lits) \ {lit}
        [] OTHER             -> {}

(* kissat_watch_blocking, kissat_watch_binary, kissat_unwatch_blocking, as
   functions of the watch lists they change. *)
WithWatch(ws, lit, blocking, ref) ==
  [ws EXCEPT ![lit] = Append(@, Watch(blocking, ref))]

WithWatchedPair(ws, a, b, ref) ==
  WithWatch(WithWatch(ws, a, b, ref), b, a, ref)

WithoutWatch(ws, lit, ref) ==
  [ws EXCEPT ![lit] = SelectSeq(@, LAMBDA w : w.ref # ref)]

-----------------------------------------------------------------------------
(***************************************************************************)
(* search_propagate takes the next literal off the trail and visits the    *)
(* watch list of its negation.                                             *)
(***************************************************************************)
Propagating == pc = "propagate" /\ conflict = NoConflict

NotLit == NOT(trail[propagate])    \* the literal whose watches are visited

PropagateNext ==
  /\ Propagating
  /\ unvisited = <<>>
  /\ propagate < Len(trail)
  /\ propagate' = propagate + 1
  /\ LET notLit == NOT(trail[propagate + 1])
     IN  /\ unvisited' = watches[notLit]
         /\ watches' = [watches EXCEPT ![notLit] = <<>>]
  /\ UNCHANGED <<values, assigned, trail, frames, unflushed, clauses,
                 conflict, pc>>

Head1 == Head(unvisited)

Visiting == Propagating /\ unvisited # <<>>

(* Each visit takes one watch off the rest and keeps these in its place. *)
Keep(ws) == /\ watches' = [watches EXCEPT ![NotLit] = @ \o ws]
            /\ unvisited' = Tail(unvisited)

(* Leaving the loop at a conflict keeps all the watches not visited yet. *)
KeepAll(found) ==
  /\ watches' = [watches EXCEPT ![NotLit] = @ \o unvisited]
  /\ unvisited' = <<>>
  /\ conflict' = found
  /\ pc' = "analyze"
  /\ UNCHANGED <<trailVars, clauses>>

(* Mutant of Blocked: an unassigned blocking literal is enough. *)
BlockedUnlessFalse(w) == values[w.blocking] >= 0

Blocked(w) == values[w.blocking] > 0

VisitBlocked ==
  /\ Visiting
  /\ Blocked(Head1)
  /\ Keep(<<Head1>>)
  /\ UNCHANGED <<trailVars, clauses, conflict, pc>>

VisitBinary ==
  /\ Visiting
  /\ Head1.ref = BINARY
  /\ \/ /\ values[Head1.blocking] < 0
        /\ KeepAll(BinaryConflict(NotLit, Head1.blocking))
     \/ /\ values[Head1.blocking] = 0
        /\ Assign(Head1.blocking, LEVEL(NotLit),
                  Binary(IF BigBig THEN JumpedReason(NotLit) ELSE NotLit))
        /\ Keep(<<Head1>>)
        /\ UNCHANGED <<clauses, conflict, pc>>

(* The first two literals of the clause without the visited one. *)
OtherWatch(lits) == IF lits[1] = NotLit THEN lits[2] ELSE lits[1]

VisitingLarge ==
  /\ Visiting
  /\ Head1.ref # BINARY
  /\ ~Blocked(Head1)

VisitGarbage ==
  /\ VisitingLarge
  /\ clauses[Head1.ref].garbage
  /\ Keep(<<>>)
  /\ UNCHANGED <<trailVars, clauses, conflict, pc>>

(* Mutant of AssignmentLevel: the current level. *)
AssignmentOnCurrentLevel(lit, ref) == level

(* kissat_assignment_level: with chronological backtracking this can be lower
   than the current level. *)
AssignmentLevel(lit, ref) == HighestLevel(ToSet(clauses[ref].lits) \ {lit})

(* With PROBING_PROPAGATION, the clause that is about to be vivified. *)
Ignored(ref) == ref = candidate

Replacements(lits) == {r \in 3..Len(lits) : values[lits[r]] >= 0}

VisitLarge ==
  LET ref   == Head1.ref
      lits  == clauses[ref].lits
      other == OtherWatch(lits)
  IN
  /\ VisitingLarge
  /\ ~clauses[ref].garbage
  /\ \/ /\ values[other] > 0
        /\ Keep(<<Watch(other, ref)>>)
        /\ UNCHANGED <<trailVars, clauses, conflict, pc>>
     \/ /\ values[other] <= 0
        /\ \E r \in Replacements(lits) :
             /\ clauses' = [clauses EXCEPT ![ref].lits =
                              [@ EXCEPT ![1] = other, ![2] = lits[r],
                                        ![r] = NotLit]]
             /\ watches' = WithWatch(watches, lits[r], other, ref)
        /\ unvisited' = Tail(unvisited)
        /\ UNCHANGED <<trailVars, conflict, pc>>
     \/ /\ values[other] <= 0
        /\ Replacements(lits) = {}
        /\ Ignored(ref)
        /\ Keep(<<Head1>>)
        /\ UNCHANGED <<trailVars, clauses, conflict, pc>>
     \/ /\ values[other] < 0
        /\ Replacements(lits) = {}
        /\ ~Ignored(ref)
        /\ KeepAll(LargeConflict(ref))
     \/ /\ values[other] = 0
        /\ Replacements(lits) = {}
        /\ ~Ignored(ref)
        /\ Assign(other, AssignmentLevel(other, ref), Large(ref))
        /\ Keep(<<Head1>>)
        /\ UNCHANGED <<clauses, conflict, pc>>

(* Propagation is complete: at the root level the trail is flushed. *)
PropagateDone ==
  /\ Propagating
  /\ unvisited = <<>>
  /\ propagate = Len(trail)
  /\ pc' = "loop"
  /\ IF level = 0 /\ unflushed > 0 THEN FlushTrail ELSE UNCHANGED trailVars
  /\ UNCHANGED watchVars

PropagateStep ==
  \/ PropagateNext
  \/ VisitBlocked
  \/ VisitBinary
  \/ VisitGarbage
  \/ VisitLarge
  \/ PropagateDone
=============================================================================
