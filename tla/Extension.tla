------------------------------ MODULE Extension ------------------------------
(***************************************************************************)
(* The extension stack: clauses removed from the database, each with a     *)
(* witness literal that may be flipped to satisfy it (weaken.c), and the   *)
(* way back from a model of the clauses that are left to a model of the    *)
(* original ones (kissat_extend).                                          *)
(***************************************************************************)
EXTENDS Database

VARIABLES
  extend,     \* sequence of pushed clauses with their witness literals
  ivalues,    \* internal literals the search made true
  evalues,    \* literals of eliminated variables made true
  remaining   \* how much of extend kissat_extend has still to visit

extensionVars == <<extend, ivalues, evalues, remaining>>

(***************************************************************************)
(* kissat_weaken_clause pushes the witness and then the other literals of  *)
(* the clause, except for those that are false.                            *)
(***************************************************************************)
Weakened(lit, C) ==
  [blocking |-> lit, clause |-> {lit} \cup {l \in C : ~IsFalse(l)}]

WeakenedUnit(lit) == [blocking |-> lit, clause |-> {lit}]

WeakenedClauses(lit, Cs) ==
  [i \in 1..Cardinality(Cs) |-> Weakened(lit, SetToSeq(Cs)[i])]

-----------------------------------------------------------------------------
(* The position of an eliminated variable, which import keeps. *)
Position(v) == CHOOSE i \in DOMAIN eliminated : eliminated[i] = v

LatestFirst(l, k) == Position(IDX(l)) >= Position(IDX(k))

(***************************************************************************)
(* One iteration of the loop of kissat_extend: the clause pushed last of   *)
(* those that remain is satisfied, or an eliminated literal without a      *)
(* value satisfies it, the one eliminated last, or else the witness does,  *)
(* whose value may have to be flipped.                                     *)
(***************************************************************************)
Unvalued(C) ==
  {l \in C : /\ IDX(l) \in Eliminated
             /\ l \notin evalues
             /\ NOT(l) \notin evalues}

ExtendAssign(l) == evalues' = (evalues \ {NOT(l)}) \cup {l}

(* Mutant of NextExtension: from the first clause to the last. *)
NextExtensionForward == extend[Len(extend) - remaining + 1]

(* The clause kissat_extend visits next. *)
NextExtension == extend[remaining]

ExtendClause ==
  /\ remaining > 0
  /\ remaining' = remaining - 1
  /\ LET e == NextExtension
         candidates == Unvalued(e.clause)
     IN  IF e.clause \cap (ivalues \cup evalues) # {}
         THEN UNCHANGED evalues
         ELSE IF candidates = {}
              THEN ExtendAssign(e.blocking)
              ELSE \E l \in candidates :
                     /\ \A k \in candidates : LatestFirst(l, k)
                     /\ ExtendAssign(l)
  /\ UNCHANGED <<extend, ivalues>>
=============================================================================
