----------------------------- MODULE Satisfiability -----------------------------
(***************************************************************************)
(* What a satisfiability solver promises.  It keeps a database of clauses  *)
(* and an assignment under construction; it may rewrite the database as    *)
(* long as the models stay the same, and it may answer 10 when its         *)
(* assignment is a model of the formula, 20 when the formula has none      *)
(* (kissat.h).  It may also stop without an answer.                        *)
(***************************************************************************)
EXTENDS Literals

VARIABLES
  formula,   \* the clauses to satisfy
  database,  \* the clauses kept instead
  model,     \* the literals the solver assigns to true
  answer     \* 0, 10 or 20

satVars == <<formula, database, model, answer>>

Init ==
  /\ database = formula
  /\ answer = 0

Rewrite ==
  /\ answer = 0
  /\ ModelsOf(database') = ModelsOf(database)
  /\ UNCHANGED <<formula, answer>>

AnswerSatisfiable ==
  /\ answer = 0
  /\ model \in ModelsOf(formula)
  /\ answer' = 10
  /\ UNCHANGED <<formula, database, model>>

AnswerUnsatisfiable ==
  /\ answer = 0
  /\ ModelsOf(database) = {}
  /\ answer' = 20
  /\ UNCHANGED <<formula, database, model>>

Next == Rewrite \/ AnswerSatisfiable \/ AnswerUnsatisfiable

Spec == Init /\ [][Next]_satVars

(***************************************************************************)
(* AnswerRight: an answer 10 comes with a model of the formula and an      *)
(* answer 20 means that it has none.                                       *)
(***************************************************************************)
AnswerRight ==
  /\ answer = 10 => model \in ModelsOf(formula)
  /\ answer = 20 => ~Satisfiable(formula)
=============================================================================
