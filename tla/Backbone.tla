------------------------------- MODULE Backbone -------------------------------
(***************************************************************************)
(* Two procedures that look only at binary clauses, on the root level and  *)
(* with watches: transitive reduction (transitive.c), and the search for   *)
(* literals that are implied by their own negation (backbone.c).  The      *)
(* latter keeps the literals it has tried without a conflict assigned, on  *)
(* a level each, and tries the next one under their assumption.            *)
(***************************************************************************)
EXTENDS Substitute

VARIABLES
  assumed,   \* the trail above the root level, of literals with their reasons
  position,  \* how much of it is propagated
  kept,      \* its length before the literal that is tried
  units      \* the units found in this round, in order

backboneVars == <<assumed, position, kept, units>>

NoBackbone == assumed = <<>> /\ position = 0 /\ kept = 0 /\ units = <<>>

AllWatched == FullLists(irredundant \cup redundant)

ImpliedByBinary(l) == {k \in LITS : {NOT(l), k} \in irredundant}

-----------------------------------------------------------------------------
(***************************************************************************)
(* transitive_reduce propagates the negation of src without the clause     *)
(* src \/ dst on the list of src, until it finds that dst is implied, or    *)
(* the negation of a literal it has assigned.  These are the literals it   *)
(* assigns among those of A.                                               *)
(***************************************************************************)
ImpliedOtherwise(l, src, dst) ==
  ImpliedByBinary(l) \ (IF l = NOT(src) THEN {dst} ELSE {})

MetWithin(A, src, dst) ==
  LET met[S \in SUBSET LITS] ==
        LET T == S \cup ((UNION {ImpliedOtherwise(l, src, dst) : l \in S} \cap A) \ fixed)
        IN  IF T = S THEN S ELSE met[T]
  IN  met[{NOT(src)} \cap A]

(* Mutant of Meets: what is met after the negation of a literal counts. *)
MeetsAnyhow(src, dst) ==
  \E l \in MetWithin(LITS \ {dst}, src, dst) : dst \in ImpliedOtherwise(l, src, dst)

(* On the way to dst no literal is met together with its negation. *)
Meets(src, dst) ==
  \E M \in Models : \E l \in MetWithin(M \ {dst}, src, dst) :
    dst \in ImpliedOtherwise(l, src, dst)

(* The clause is removed if dst is met, src is a unit if another literal is
   met with its negation; which comes first depends on the order of watches. *)
TransitiveReduce ==
  /\ pc = "transitive"
  /\ \E src, dst \in ActiveLiterals :
       /\ {src, dst} \in Binary
       /\ Number(src) < Number(dst)
       /\ \/ /\ Meets(src, dst)
             /\ ReplaceClauses({{src, dst}}, {})
             /\ UNCHANGED valueVars
          \/ /\ ~Consistent(MetWithin(LITS \ {dst}, src, dst))
             /\ PropagateFrom({src}, AllWatched)
             /\ UNCHANGED <<irredundant, eliminate>>
  /\ pc' = IF inconsistent' THEN "unsat" ELSE pc
  /\ UNCHANGED <<redundant, leftover, eliminated, backboneVars>>

(* All literals were tried, or a limit was hit. *)
EndTransitive ==
  /\ pc = "transitive"
  /\ pc' = "top"
  /\ UNCHANGED <<clauseVars, valueVars, flagVars, backboneVars>>

-----------------------------------------------------------------------------
(***************************************************************************)
(* compute_backbone: a literal without a value is assumed.                 *)
(***************************************************************************)
Assumed == {a.lit : a \in ToSet(assumed)}

BackboneAssign(trail, lit, reason) == Append(trail, [lit |-> lit, reason |-> reason])

BackboneProbe ==
  /\ pc = "backbone"
  /\ \E probe \in ActiveLiterals :
       /\ {probe, NOT(probe)} \cap Assumed = {}
       /\ assumed' = BackboneAssign(assumed, probe, 0)
  /\ kept' = Len(assumed)
  /\ pc' = "bb_propagate"
  /\ UNCHANGED <<clauseVars, valueVars, flagVars, position, units>>

(***************************************************************************)
(* backbone_propagate_literal for the next literal: the literals it        *)
(* implies without a value get it as their reason, in any order.           *)
(***************************************************************************)
NewlyImplied(lit) == ImpliedByBinary(lit) \ (Assumed \cup fixed)

BackboneConflict(lit) == {k \in ImpliedByBinary(lit) : NOT(k) \in Assumed \cup fixed}

BackbonePropagate ==
  /\ pc \in {"bb_propagate", "bb_forced"}
  /\ position < Len(assumed)
  /\ LET lit == assumed[position + 1].lit
     IN  /\ BackboneConflict(lit) = {}
         /\ \E order \in SetToSeqs(NewlyImplied(lit)) :
              assumed' = assumed \o [i \in DOMAIN order |-> [lit |-> order[i], reason |-> lit]]
  /\ position' = position + 1
  /\ UNCHANGED <<pc, clauseVars, valueVars, flagVars, kept, units>>

(* Everything is propagated without a conflict. *)
BackbonePropagated ==
  /\ pc \in {"bb_propagate", "bb_forced"}
  /\ position = Len(assumed)
  /\ pc' = "backbone"
  /\ UNCHANGED <<clauseVars, valueVars, flagVars, backboneVars>>

-----------------------------------------------------------------------------
(* Mutant of BackboneUip: the literal propagated last. *)
BackboneUipLast(conflict) == assumed[position + 1].lit

(***************************************************************************)
(* backbone_analyze goes back over the trail from the two literals of the  *)
(* conflict, from reason to reason, until a reason was met already.        *)
(***************************************************************************)
BackboneUip(conflict) ==
  LET uip[i \in 0..Len(assumed), analyzed \in SUBSET Vars] ==
        IF i = 0 THEN 0
        ELSE LET a == assumed[i]
             IN  IF IDX(a.lit) \notin analyzed THEN uip[i - 1, analyzed]
                 ELSE IF IDX(a.reason) \in analyzed THEN a.reason
                 ELSE IF a.reason = 0 THEN 0
                 ELSE uip[i - 1, analyzed \cup {IDX(a.reason)}]
  IN  uip[Len(assumed), {IDX(l) : l \in conflict}]

(* The literal tried failed: its assignments are undone, and the negation
   of the first unique implication point holds, also without assumptions. *)
BackboneFail ==
  /\ pc = "bb_propagate"
  /\ position < Len(assumed)
  /\ LET lit == assumed[position + 1].lit
     IN  \E other \in BackboneConflict(lit) :
           LET unit == NOT(BackboneUip({NOT(lit), other}))
           IN  /\ assumed' = BackboneAssign(SubSeq(assumed, 1, kept), unit, 0)
               /\ units' = Append(units, unit)
  /\ position' = kept
  /\ pc' = "bb_forced"
  /\ UNCHANGED <<clauseVars, valueVars, flagVars, kept>>

(* The unit fails as well: it is learned, which has to refute the formula. *)
UnitFails ==
  /\ pc = "bb_forced"
  /\ position < Len(assumed)
  /\ BackboneConflict(assumed[position + 1].lit) # {}

BackboneInconsistent ==
  /\ UnitFails
  /\ PropagateFrom({units[Len(units)]}, AllWatched)
  /\ assumed' = <<>> /\ position' = 0 /\ kept' = 0 /\ units' = <<>>
  /\ pc' = IF inconsistent' THEN "unsat" ELSE "top"
  /\ UNCHANGED <<clauseVars, flagVars>>

(***************************************************************************)
(* A round ends when all candidates were tried or a limit is hit: the      *)
(* units of the round are learned and propagated over all clauses.         *)
(***************************************************************************)
EndBackboneRound ==
  /\ pc = "backbone"
  /\ assumed' = <<>> /\ position' = 0 /\ kept' = 0 /\ units' = <<>>
  /\ IF units = <<>> THEN UNCHANGED valueVars
     ELSE PropagateFrom(ToSet(units), AllWatched)
  /\ \/ pc' = IF inconsistent' THEN "unsat" ELSE "top"
     \/ units # <<>> /\ ~inconsistent' /\ pc' = "backbone"
  /\ UNCHANGED <<clauseVars, flagVars>>

BinaryProbing ==
  \/ TransitiveReduce \/ EndTransitive
  \/ BackboneProbe \/ BackbonePropagate \/ BackbonePropagated
  \/ BackboneFail \/ BackboneInconsistent \/ EndBackboneRound
=============================================================================
