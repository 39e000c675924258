------------------------------ MODULE Literals ------------------------------
(***************************************************************************)
(* Literals, clauses and what it means for a clause to follow from a       *)
(* formula.  A variable is a positive number, a literal is a variable or   *)
(* its negative, which is the DIMACS view of src/src/literal.h (there a    *)
(* literal is 2 * index + sign and NOT flips the last bit).  A clause is a *)
(* set of literals, a formula a set of clauses.                            *)
(***************************************************************************)
EXTENDS Integers

CONSTANT Vars

ASSUME VarsAssumption == Vars \subseteq Nat \ {0}

NOT(lit) == -lit

IDX(lit) == IF lit > 0 THEN lit ELSE -lit

(* The internal number of a literal. *)
Number(lit) == 2 * IDX(lit) + (IF lit < 0 THEN 1 ELSE 0)

LITS == Vars \cup {-v : v \in Vars}

(***************************************************************************)
(* A total assignment is the set of the literals it makes true.            *)
(***************************************************************************)
Models == {P \cup {NOT(v) : v \in Vars \ P} : P \in SUBSET Vars}

Satisfies(M, C) == C \cap M # {}

ModelsOf(F) == {M \in Models : \A C \in F : Satisfies(M, C)}

Satisfiable(F) == ModelsOf(F) # {}

(***************************************************************************)
(* Entails(F, C): every total assignment that satisfies F satisfies C.     *)
(***************************************************************************)
Entails(F, C) == \A M \in ModelsOf(F) : Satisfies(M, C)
=============================================================================
