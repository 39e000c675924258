-------------------------------- MODULE Forward --------------------------------
(***************************************************************************)
(* Forward subsumption during elimination (forward.c).  Large clauses are  *)
(* taken by size; each is tried against the binary clauses and the large   *)
(* ones connected so far, and then connected by a single literal.  So      *)
(* units found meanwhile are propagated over incomplete occurrence lists   *)
(* and have to be propagated again at the end.                             *)
(***************************************************************************)
EXTENDS Resolve

VARIABLES
  scheduled,   \* large clauses still to be checked for being subsumed
  connected,   \* pairs of a large clause and the literal it is connected by
  saved        \* the fixed literals propagated before

forwardVars == <<scheduled, connected, saved>>

BinaryClauses == {C \in irredundant : IsBinaryClause(C)}

ForwardLists ==
  [l \in LITS |-> {C \in BinaryClauses \cup leftover : l \in C} \cup
                  {C \in irredundant : <<C, l>> \in connected}]

(* kissat_forward_subsume_during_elimination, called without large clauses
   on the occurrence lists. *)
StartForward ==
  /\ scheduled' = {C \in irredundant : IsLargeClause(C) /\ ~SatisfiedClause(C)}
  /\ connected' = {}
  /\ saved' = fixed

-----------------------------------------------------------------------------
(***************************************************************************)
(* Two binary clauses of a literal with opposite other literals make it a  *)
(* unit (remove_all_duplicated_binary_clauses).  The search looks only at  *)
(* variables in recently added clauses.                                    *)
(***************************************************************************)
HyperUnaryUnits == {l \in LITS : \E k \in Binaries(l) : NOT(k) \in Binaries(l)}

RemoveDuplicatedBinaries ==
  /\ pc = "binaries"
  /\ \E units \in SUBSET HyperUnaryUnits :
       IF \E l \in units : IsFalse(l) \/ NOT(l) \in units
       THEN inconsistent' = TRUE /\ UNCHANGED <<fixed, pending>>
       ELSE PropagateFrom(pending \cup (units \ fixed), ForwardLists)
  /\ pc' = IF inconsistent' THEN "unsat" ELSE "forward"
  /\ UNCHANGED <<clauseVars, flagVars, extensionVars, resolveVars, forwardVars>>

-----------------------------------------------------------------------------
(***************************************************************************)
(* Clauses found through the occurrence lists of the literals of C, with   *)
(* its false literals taken out (marked literals): binary clauses through  *)
(* a literal of C, large ones through a literal or its negation.           *)
(***************************************************************************)
BinaryPartners(O) == {D \in BinaryClauses : D \cap O # {}}

LargePartners(C, O) ==
  {D \in irredundant \ {C} :
     /\ ~SatisfiedClause(D)
     /\ \E l \in O : <<D, l>> \in connected \/ <<D, NOT(l)>> \in connected}

Partners(C, O) == BinaryPartners(O) \cup LargePartners(C, O)

Subsumes(D, O) == Open(D) \subseteq O

(* Mutant of Removable: D may have another literal. *)
RemovableLoose(D, O) ==
  {l \in O : NOT(l) \in D /\ Cardinality(Open(D) \ (O \cup {NOT(l)})) < 2}

(* Literals of O that resolution with D removes. *)
Removable(D, O) ==
  {l \in O : NOT(l) \in D /\ Open(D) \ {NOT(l)} \subseteq O \ {l}}

Smallest(Cs) == {C \in Cs : \A D \in Cs : Cardinality(C) <= Cardinality(D)}

ForwardFrame ==
  UNCHANGED <<redundant, leftover, eliminated, extensionVars, resolveVars, saved>>

(* c becomes garbage and a unit is learned and flushed. *)
LearnForwardUnit(C, l) ==
  LET F == Closure(fixed \cup {l}, {l}, ForwardLists)
      units == F \ fixed
      removed == {C} \cup {D \in UNION {ForwardLists[u] : u \in units} :
                             IsLargeClause(D)}
  IN  /\ PropagateFrom({l}, ForwardLists)
      /\ IF inconsistent' THEN UNCHANGED <<irredundant, eliminate>>
         ELSE ReplaceClauses(removed, {})
      /\ UNCHANGED connected

(* connect_subsuming: by the literal with the fewest occurrences, and only
   if its variables were in added clauses and these are not too many. *)
ListSize(l) == Cardinality(ForwardLists[l])

ConnectSubsuming(C) ==
  \/ UNCHANGED connected
  \/ \E l \in Open(C) :
       /\ \A k \in Open(C) : ListSize(l) <= ListSize(k)
       /\ connected' = connected \cup {<<C, l>>}

(* What is left of C if forward subsumption makes it O.  Only the variable
   of the removed literal is marked for elimination. *)
Shrink(C, O) ==
  /\ irredundant' = (irredundant \ {C}) \cup {O}
  /\ eliminate' = eliminate \cup RemovedVariables({C \ O})
  /\ IF IsLargeClause(O) THEN ConnectSubsuming(O) ELSE UNCHANGED connected
  /\ UNCHANGED valueVars

(***************************************************************************)
(* forward_subsumed_clause for the next clause.                            *)
(***************************************************************************)
ForwardClause ==
  /\ pc = "forward"
  /\ \E C \in Smallest(scheduled) :
       LET O == Open(C) IN
       /\ scheduled' = scheduled \ {C}
       /\ \/ /\ C \notin irredundant
             /\ UNCHANGED <<irredundant, eliminate, valueVars, connected>>
          \/ /\ C \in irredundant /\ SatisfiedClause(C)
             /\ ReplaceClauses({C}, {})
             /\ UNCHANGED <<valueVars, connected>>
          \/ /\ C \in irredundant /\ ~SatisfiedClause(C)
             /\ \/ /\ O = {}
                   /\ inconsistent' = TRUE
                   /\ UNCHANGED <<irredundant, eliminate, fixed, pending, connected>>
                \/ \E l \in O : O = {l} /\ LearnForwardUnit(C, l)
                \/ /\ \E D \in Partners(C, O) : Subsumes(D, O)
                   /\ ReplaceClauses({C}, {})
                   /\ UNCHANGED <<valueVars, connected>>
                \/ \E D \in Partners(C, O) : \E l \in Removable(D, O) :
                     /\ Cardinality(O) > 1
                     /\ IF Cardinality(O) = 2
                        THEN \E k \in O \ {l} : LearnForwardUnit(C, k)
                        ELSE Shrink(C, O \ {l})
                \/ /\ Cardinality(O) > 1
                   /\ ConnectSubsuming(C)
                   /\ UNCHANGED <<irredundant, eliminate, valueVars>>
  /\ pc' = IF inconsistent' THEN "unsat" ELSE "forward"
  /\ ForwardFrame

(* Mutant of RestoredPropagate: what was propagated stays propagated. *)
RestoredNothing == pending

(***************************************************************************)
(* Back in eliminate_variables, possibly before all clauses were checked:  *)
(* connect the large clauses by all their literals and start propagation   *)
(* where it was before.                                                    *)
(***************************************************************************)
RestoredPropagate == fixed \ saved

EndForward ==
  /\ pc = "forward"
  /\ ConnectLargeClauses
  /\ pending' = RestoredPropagate
  /\ pc' = "flush"
  /\ scheduled' = {} /\ connected' = {} /\ saved' = {}
  /\ UNCHANGED <<redundant, leftover, fixed, inconsistent, eliminated,
                 extensionVars, resolveVars>>

ForwardSubsume == RemoveDuplicatedBinaries \/ ForwardClause \/ EndForward
=============================================================================
