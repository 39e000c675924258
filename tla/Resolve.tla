-------------------------------- MODULE Resolve --------------------------------
(***************************************************************************)
(* Elimination of one variable: count occurrences, find a gate, generate   *)
(* the resolvents one pair of clauses at a time, connect them, push the    *)
(* clauses of the variable on the extension stack (eliminate_variable and  *)
(* what it calls in resolve.c).                                            *)
(***************************************************************************)
EXTENDS Extension, Gates

CONSTANTS
  OccurrenceLimit,   \* option eliminateocclim
  ClauseLimit,       \* option eliminateclslim
  Bound              \* resolvents allowed beyond the clauses removed

ASSUME LimitsAssumption ==
  /\ OccurrenceLimit \in Nat
  /\ ClauseLimit \in Nat \ {0}
  /\ Bound \in Nat

VARIABLES
  pc,          \* what inprocessing does next
  candidate,   \* the literal with fewer occurrences of the variable tried
  limit,       \* how many resolvents are allowed
  passes,      \* sets of clauses that are still to be resolved
  first,       \* the first antecedent
  seconds,     \* the second antecedents still to be resolved with it
  resolvents,  \* the resolvents generated
  resolved     \* their number, units included

resolveVars == <<candidate, limit, passes, first, seconds, resolvents, resolved>>

NoResolve ==
  /\ candidate = 0 /\ limit = 0 /\ passes = <<>> /\ first = {}
  /\ seconds = {} /\ resolvents = <<>> /\ resolved = 0

ResetResolve ==
  /\ candidate' = 0 /\ limit' = 0 /\ passes' = <<>> /\ first' = {}
  /\ seconds' = {} /\ resolvents' = <<>> /\ resolved' = 0

(* The elimination failed: what was learned on the way stays. *)
Fail == pc' = "flush" /\ ResetResolve

-----------------------------------------------------------------------------
(***************************************************************************)
(* occurrences_literal drops satisfied binary clauses; a literal in a      *)
(* clause that is too long counts as having too many occurrences.          *)
(***************************************************************************)
TooMany == OccurrenceLimit + 1

SatisfiedBinaries(lit) ==
  {C \in Occurrences(lit) : IsBinaryClause(C) /\ SatisfiedClause(C)}

OccurrencesLiteral(lit) ==
  IF \E C \in Occurrences(lit) : Cardinality(C) > ClauseLimit THEN TooMany
  ELSE Cardinality(Occurrences(lit) \ SatisfiedBinaries(lit))

(***************************************************************************)
(* The beginning of kissat_generate_resolvents for a scheduled variable,   *)
(* whose flag 'eliminate' was set.                                         *)
(***************************************************************************)
Scheduled == eliminate \cap Active

StartElimination ==
  /\ pc = "schedule"
  /\ \E v \in Scheduled :
       LET pos  == OccurrencesLiteral(v)
           neg  == OccurrencesLiteral(NOT(v))
           gone == SatisfiedBinaries(v) \cup SatisfiedBinaries(NOT(v))
           lit  == IF pos > neg THEN NOT(v) ELSE v
           pure == 0 \in {pos, neg}
       IN  /\ irredundant' = irredundant \ gone
           /\ eliminate' = (eliminate \ {v}) \cup RemovedVariables(gone)
           /\ IF ~pure /\ pos + neg > OccurrenceLimit
              THEN Fail
              ELSE /\ pc' = IF pure THEN "connect" ELSE "gates"
                   /\ candidate' = lit
                   /\ limit' = IF pure THEN pos + neg ELSE pos + neg + Bound
                   /\ UNCHANGED <<passes, first, seconds, resolvents, resolved>>
  /\ UNCHANGED <<redundant, leftover, valueVars, eliminated, extensionVars>>

(***************************************************************************)
(* The second half of kissat_generate_resolvents up to the loops over      *)
(* pairs.  A core of a definition with clauses of only one of the literals *)
(* makes the other one a unit, and elimination fails.                      *)
(***************************************************************************)
Pass(lit, from, against) == [lit |-> lit, from |-> from, against |-> against]

Passes(lit, g) ==
  LET pos == Occurrences(lit)
      neg == Occurrences(NOT(lit))
  IN  IF g = NoGate THEN <<Pass(lit, pos, neg)>>
      ELSE <<Pass(lit, g.pos, neg \ g.neg), Pass(NOT(lit), g.neg, pos \ g.pos)>>
           \o (IF g.resolve THEN <<Pass(lit, g.pos, g.neg)>> ELSE <<>>)

OneSided(g) == g # NoGate /\ {} \in {g.pos, g.neg}

FindGate ==
  /\ pc = "gates"
  /\ \E g \in FindGates(candidate) :
       IF OneSided(g)
       THEN /\ LearnUnits({IF g.pos = {} THEN NOT(candidate) ELSE candidate})
            /\ Fail
       ELSE /\ passes' = Passes(candidate, g)
            /\ pc' = "resolve"
            /\ UNCHANGED <<fixed, pending, candidate, limit, first, seconds,
                           resolvents, resolved>>
  /\ UNCHANGED <<clauseVars, inconsistent, flagVars, extensionVars>>

-----------------------------------------------------------------------------
(* What the loops over pairs of clauses leave alone. *)
ResolveFrame == UNCHANGED <<redundant, leftover, eliminated, extensionVars,
                            candidate, limit>>

Garbage(C) == C \notin irredundant

DropIfLarge(C) ==
  IF IsLargeClause(C) /\ SatisfiedClause(C) THEN ReplaceClauses({C}, {})
  ELSE UNCHANGED <<irredundant, eliminate>>

(* The outer loop of generate_resolvents: the next first antecedent. *)
NextFirst ==
  /\ pc = "resolve"
  /\ seconds = {}
  /\ passes # <<>>
  /\ IF Head(passes).from = {}
     THEN /\ passes' = Tail(passes)
          /\ UNCHANGED <<first, seconds, irredundant, eliminate>>
     ELSE \E C \in Head(passes).from :
            /\ passes' = [passes EXCEPT ![1].from = @ \ {C}]
            /\ IF Garbage(C) \/ SatisfiedClause(C)
               THEN UNCHANGED <<first, seconds>>
               ELSE first' = C /\ seconds' = Head(passes).against
            /\ IF Garbage(C) THEN UNCHANGED <<irredundant, eliminate>>
               ELSE DropIfLarge(C)
  /\ UNCHANGED <<pc, valueVars, resolvents, resolved>>
  /\ ResolveFrame

(* All passes are done. *)
EndResolve ==
  /\ pc = "resolve"
  /\ seconds = {}
  /\ passes = <<>>
  /\ pc' = "connect"
  /\ first' = {}
  /\ UNCHANGED <<irredundant, valueVars, eliminate, passes, seconds,
                 resolvents, resolved>>
  /\ ResolveFrame

-----------------------------------------------------------------------------
(* The inner loop of generate_resolvents, for the second antecedent D. *)
Pivot == Head(passes).lit

Resolvent(D) == (Open(first) \ {Pivot}) \cup (Open(D) \ {NOT(Pivot)})

Clashing(D) ==
  \E l \in Open(D) \ {NOT(Pivot)} : NOT(l) \in first \ {Pivot}

Skipped(D) == Garbage(D) \/ Clashing(D)

TakeSecond(D) == seconds' = seconds \ {D}

SkipPair ==
  /\ pc = "resolve"
  /\ \E D \in seconds :
       /\ TakeSecond(D)
       /\ \/ /\ Skipped(D)
             /\ UNCHANGED <<irredundant, eliminate>>
          \/ /\ ~Garbage(D)
             /\ SatisfiedClause(D)
             /\ DropIfLarge(D)
  /\ UNCHANGED <<pc, valueVars, passes, first, resolvents, resolved>>
  /\ ResolveFrame

Resolvable(D) == ~Skipped(D) /\ ~SatisfiedClause(D)

(* A resolvent is stored, or a unit is learned at once; a unit that is in
   the first antecedent satisfies it. *)
ResolvePair ==
  /\ pc = "resolve"
  /\ \E D \in seconds :
       LET R == Resolvent(D) IN
       /\ Resolvable(D)
       /\ resolved < limit
       /\ Cardinality(R) \in 1..ClauseLimit
       /\ resolved' = resolved + 1
       /\ IF Cardinality(R) = 1
          THEN /\ LearnUnits(R)
               /\ IF R \subseteq first THEN seconds' = {} ELSE TakeSecond(D)
               /\ UNCHANGED resolvents
          ELSE /\ resolvents' = Append(resolvents, R)
               /\ TakeSecond(D)
               /\ UNCHANGED <<fixed, pending>>
  /\ UNCHANGED <<pc, irredundant, inconsistent, eliminate, passes, first>>
  /\ ResolveFrame

(* A limit is exceeded, or the empty clause was resolved. *)
ResolveFails ==
  /\ pc = "resolve"
  /\ \E D \in seconds :
       /\ Resolvable(D)
       /\ \/ resolved = limit
          \/ Cardinality(Resolvent(D)) \notin 1..ClauseLimit
       /\ inconsistent' = (resolved < limit /\ Resolvent(D) = {})
  /\ Fail
  /\ UNCHANGED <<clauseVars, fixed, pending, flagVars, extensionVars>>

-----------------------------------------------------------------------------
(***************************************************************************)
(* connect_resolvents: resolvents are simplified once more, with the units *)
(* learned after them.                                                     *)
(***************************************************************************)
ConnectResolvent ==
  /\ pc = "connect"
  /\ resolvents # <<>>
  /\ LET R == Head(resolvents)
         O == Open(R)
     IN  \/ /\ SatisfiedClause(R)
            /\ resolvents' = Tail(resolvents)
            /\ UNCHANGED <<pc, irredundant, valueVars>>
         \/ /\ ~SatisfiedClause(R) /\ O = {}
            /\ inconsistent' = TRUE
            /\ resolvents' = <<>>
            /\ pc' = "mark"
            /\ UNCHANGED <<irredundant, fixed, pending>>
         \/ /\ ~SatisfiedClause(R) /\ Cardinality(O) = 1
            /\ LearnUnits(O)
            /\ resolvents' = Tail(resolvents)
            /\ UNCHANGED <<pc, irredundant, inconsistent>>
         \/ /\ ~SatisfiedClause(R) /\ Cardinality(O) > 1
            /\ irredundant' = irredundant \cup {O}
            /\ resolvents' = Tail(resolvents)
            /\ UNCHANGED <<pc, valueVars>>
  /\ UNCHANGED <<eliminate, passes, first, seconds, resolved>>
  /\ ResolveFrame

(***************************************************************************)
(* weaken_clauses: the clauses of the candidate are pushed with it as      *)
(* witness.  Those of its negation need not be pushed, the negation as a   *)
(* unit does it, if there were any clauses: it is pushed last and thus     *)
(* visited first, and makes the candidate false.                           *)
(***************************************************************************)
(* Mutant of OccurrencesOf: clauses with the negation are forgotten. *)
OccurrencesOfOne(lit) == Occurrences(lit)

OccurrencesOf(lit) == Occurrences(lit) \cup Occurrences(NOT(lit))

Unsatisfied(Cs) == {C \in Cs : ~SatisfiedClause(C)}

(* Mutant of WeakenedSides: the unit is pushed first. *)
WeakenedUnitFirst(lit) ==
  (IF limit > 0 THEN <<WeakenedUnit(NOT(lit))>> ELSE <<>>) \o
    WeakenedClauses(lit, Unsatisfied(Occurrences(lit)))

WeakenedSides(lit) ==
  WeakenedClauses(lit, Unsatisfied(Occurrences(lit))) \o
    (IF problem.incremental
     THEN WeakenedClauses(NOT(lit), Unsatisfied(Occurrences(NOT(lit))))
     ELSE IF limit > 0 THEN <<WeakenedUnit(NOT(lit))>> ELSE <<>>)

WeakenClauses ==
  /\ pc = "connect"
  /\ resolvents = <<>>
  /\ extend' = extend \o WeakenedSides(candidate)
  /\ ReplaceClauses(OccurrencesOf(candidate), {})
  /\ pc' = "mark"
  /\ UNCHANGED <<redundant, leftover, valueVars, eliminated, ivalues, evalues,
                 remaining, resolveVars>>

(* The end of weaken_clauses, which flushes units unless the empty clause
   was resolved, and of eliminate_variable. *)
MarkVariable ==
  /\ pc = "mark"
  /\ IF inconsistent THEN UNCHANGED <<irredundant, valueVars, eliminate>>
     ELSE FlushUnits(ConnectedLists, eliminate)
  /\ MarkEliminated(IDX(candidate))
  /\ ResetResolve
  /\ pc' = "flush"
  /\ UNCHANGED <<redundant, leftover, extensionVars>>

EliminateVariable ==
  \/ StartElimination \/ FindGate
  \/ NextFirst \/ SkipPair \/ ResolvePair \/ ResolveFails \/ EndResolve
  \/ ConnectResolvent \/ WeakenClauses \/ MarkVariable
=============================================================================
