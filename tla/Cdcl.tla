--------------------------------- MODULE Cdcl ---------------------------------
(***************************************************************************)
(* The search loop of search.c over propagation (Watching), conflict       *)
(* analysis (Analyze), reduction (Reduce), vivification (Vivify) and the   *)
(* lucky phases before it begins (Lucky).                                  *)
(* Which variable is decided, with which phase, and how much of the trail  *)
(* a restart reuses is heuristic and left open here; the formula is one of *)
(* Formulas, a sequence of clauses of at least two literals each, in the   *)
(* order in which they were added.                                         *)
(***************************************************************************)
EXTENDS Lucky

CONSTANTS
  Formulas,       \* the formulas to solve
  Preferred(_),   \* of a formula: sets of literals, those decided first first
  Vivifications(_),  \* of a formula: bound on the number of vivifications
  LuckyCalls(_)      \* of a formula: how often kissat_lucky is called

ASSUME VivificationsAssumption == \A f \in Formulas : Vivifications(f) \in Nat

ASSUME LuckyAssumption == \A f \in Formulas : LuckyCalls(f) \in 0..2

ASSUME PreferredAssumption ==
  \A f \in Formulas : Preferred(f) \in Seq(SUBSET LITS)

ASSUME FormulasAssumption ==
  \A f \in Formulas : \A i \in DOMAIN f :
    /\ Len(f[i]) > 1
    /\ ToSet(f[i]) \subseteq LITS
    /\ \A j, k \in DOMAIN f[i] : j # k => IDX(f[i][j]) # IDX(f[i][k])

vars == <<trailVars, watchVars, pc, analyzeVars, arenaVars, sinceRestart,
          result, reduceVars, vivifyVars, luckyVars>>

(***************************************************************************)
(* kissat_new_original_clause watches binary clauses and the first two     *)
(* literals of large ones, in the order of the clauses.                    *)
(***************************************************************************)
IsLarge(c) == Len(c) > 2

ConnectClause(f, ws, i) ==
  LET ref == IF IsLarge(f[i]) THEN Len(SelectSeq(SubSeq(f, 1, i), IsLarge))
             ELSE BINARY
  IN  WithWatchedPair(ws, f[i][1], f[i][2], ref)

Init ==
  /\ original \in Formulas
  /\ InitTrail
  /\ LET large == SelectSeq(original, IsLarge)
     IN  clauses = [i \in DOMAIN large |-> Clause(large[i], FALSE)]
  /\ watches = FoldLeftDomain(LAMBDA ws, i : ConnectClause(original, ws, i),
                              [lit \in LITS |-> <<>>], original)
  /\ unvisited = <<>>
  /\ conflict = NoConflict
  /\ pc = "propagate"
  /\ analyzed = {}
  /\ resolvent = {}
  /\ resolved = 0
  /\ cursor = 0
  /\ units = <<>>
  /\ lastLearned = <<>>
  /\ firstReducible = 0
  /\ lastIrredundant = Len(clauses)
  /\ sinceRestart = FALSE
  /\ result = 0
  /\ reductions = 0
  /\ flushing = Idle
  /\ InitVivify
  /\ lucky = StartOfLuck(LuckyCalls(original))

-----------------------------------------------------------------------------
(***************************************************************************)
(* The branches of kissat_search after propagation without a conflict.     *)
(***************************************************************************)
Unassigned == {lit \in LITS : values[lit] = 0 /\ IDX(lit) \in Active}

Looping == pc = "loop" /\ flushing = Idle /\ ~Vivifying /\ ~TryingLuck

LoopVars == <<watchVars, analyzeVars, arenaVars, reduceVars, vivifyVars, luckyVars>>

Satisfied ==
  /\ Looping
  /\ Unassigned = {}
  /\ result' = 10
  /\ pc' = "done"
  /\ UNCHANGED <<LoopVars, trailVars, sinceRestart>>

(* Termination was requested or a conflict or decision limit is hit. *)
GiveUp ==
  /\ Looping
  /\ Unassigned # {}
  /\ pc' = "done"
  /\ UNCHANGED <<LoopVars, trailVars, sinceRestart, result>>

(* A reduction that had to flush the trail goes on where it was. *)
Reduce ==
  /\ \/ Looping /\ Unassigned # {} /\ Reducing /\ ReduceStep
     \/ pc = "loop" /\ ReduceFlushed
  /\ UNCHANGED <<unvisited, conflict, analyzeVars, sinceRestart, result,
                 vivifyVars, luckyVars>>

(* kissat_probing; when, and what else is tried then, is left open. *)
Vivify ==
  /\ \/ /\ Looping /\ Unassigned # {}
        /\ vivifications < Vivifications(original)
        /\ VivifyStart
     \/ VivifyStep
  /\ UNCHANGED luckyVars

(* Mutant of Restarting: also without a conflict since the last restart. *)
RestartingAnyTime == level > 0

(* kissat_restarting waits for a conflict; kissat_restart keeps the levels
   of the decisions that rank above the next one. *)
Restarting == level > 0 /\ sinceRestart

Restart ==
  /\ Looping
  /\ Unassigned # {}
  /\ Restarting
  /\ \E newLevel \in 0..level : Backtrack(newLevel)
  /\ sinceRestart' = FALSE
  /\ pc' = "propagate"
  /\ UNCHANGED <<LoopVars, result>>

(* The decision heuristic, left open except for what is preferred. *)
Candidates ==
  LET preferred == Preferred(original)
      ranks == {i \in DOMAIN preferred : Unassigned \cap preferred[i] # {}}
  IN  IF ranks = {} THEN Unassigned ELSE Unassigned \cap preferred[Min(ranks)]

Decide ==
  /\ Looping
  /\ \E lit \in Candidates : PushDecision(lit)
  /\ pc' = "propagate"
  /\ UNCHANGED <<LoopVars, sinceRestart, result>>

Propagate ==
  /\ PropagateStep
  /\ UNCHANGED <<analyzeVars, arenaVars, sinceRestart, result, reduceVars,
                 vivifyVars, luckyVars>>

(* During vivification only a conflict on the root level ends up here, and
   during a lucky walk one that depends on a single assumption. *)
AnalyzeConflict ==
  /\ flushing = Idle
  /\ Vivifying => level = 0
  /\ TryingLuck => InAttempt({"walk"}) /\ level < 2
  /\ AnalyzeStep
  /\ UNCHANGED <<reduceVars, vivifyVars, luckyVars>>

SearchStep ==
  \/ Propagate
  \/ AnalyzeConflict
  \/ Satisfied
  \/ Restart
  \/ Decide
  \/ Reduce
  \/ Vivify
  \/ LuckyStep

(* kissat_search has returned. *)
Finished == pc = "done" /\ UNCHANGED vars

Next == SearchStep \/ GiveUp \/ Finished

Spec == Init /\ [][Next]_vars

(* The loop runs until it has a result; nobody has to stop it. *)
FairSpec == Spec /\ WF_vars(SearchStep)

-----------------------------------------------------------------------------
(* What the search loop keeps true: its trail, its reasons, its watches, the
   completeness of propagation, the meaning of its clauses, and that it ends. *)

References == DOMAIN clauses

Alive == {r \in References : ~clauses[r].garbage}

LitsOf(ref) == ToSet(clauses[ref].lits)

BinaryClauses ==
  {{lit, w.blocking} : <<lit, w>> \in
     UNION {{<<lit, w>> : w \in {v \in ToSet(watches[lit] \o
                IF propagate > 0 /\ lit = NotLit THEN unvisited ELSE <<>>) :
                                   v.ref = BINARY}} : lit \in LITS}}

RootUnits == {{lit} : lit \in {l \in LITS : values[l] > 0 /\ LEVEL(l) = 0}}

(* The clauses the solver works with at the moment. *)
Database == {LitsOf(r) : r \in Alive} \cup BinaryClauses \cup RootUnits

Irredundant ==
  {LitsOf(r) : r \in {a \in Alive : /\ ~clauses[a].redundant
                                    /\ lastIrredundant \in {0} \cup a..Len(clauses)}}
    \cup BinaryClauses \cup RootUnits

-----------------------------------------------------------------------------
(***************************************************************************)
(* TypeOK: the type of every variable, with no redundant clause before the *)
(* place from which reduce.c looks for them, and no garbage among the      *)
(* clauses that are still to be vivified (vivify.c:1305).                  *)
(***************************************************************************)
Reasons == {DECISION, UNIT} \cup {Binary(lit) : lit \in LITS}
                            \cup {Large(r) : r \in References}

WatchOK(w) == w.blocking \in LITS /\ w.ref \in {BINARY} \cup References

TypeOK ==
  /\ values \in [LITS -> {-1, 0, 1}]
  /\ DOMAIN assigned = Vars
  /\ \A v \in Vars : assigned[v].level \in 0..level
                     /\ assigned[v].reason \in Reasons
  /\ ToSet(trail) \subseteq LITS
  /\ \A i \in DOMAIN frames : /\ frames[i].decision \in LITS
                              /\ frames[i].trail \in 0..Len(trail)
  /\ propagate \in 0..Len(trail)
  /\ unflushed \in 0..Cardinality(Vars)
  /\ \A r \in References : LitsOf(r) \subseteq LITS /\ Len(clauses[r].lits) > 2
  /\ \A lit \in LITS : \A w \in ToSet(watches[lit]) : WatchOK(w)
  /\ \A w \in ToSet(unvisited) : WatchOK(w)
  /\ ToSet(ConflictLits) \subseteq LITS
  /\ analyzed \subseteq Vars
  /\ resolvent \subseteq LITS
  /\ cursor \in 0..(Len(trail) + 1)
  /\ ToSet(units) \subseteq LITS
  /\ ToSet(lastLearned) \subseteq References /\ Len(lastLearned) <= EagerSubsume
  /\ {firstReducible, lastIrredundant} \subseteq 0..Len(clauses)
  /\ \A r \in Alive : clauses[r].redundant => firstReducible \in 1..r
  /\ reductions \in 0..MaxReductions
  /\ flushing \in {Reduction(s, c) : s \in 0..Len(clauses), c \in BOOLEAN}
  /\ candidate \in {0} \cup Alive
  /\ vivifier.phase \in {"idle", "start", "next", "assume", "instantiate",
                         "instantiated"}
  /\ vivifier.schedule \subseteq Alive
  /\ ToSet(vivifier.sorted) \subseteq LITS
  /\ vivifications \in 0..Vivifications(original)
  /\ lucky.phase \in {"idle", "check", "uniform", "walk", "flip", "flipped"}
  /\ ToSet(lucky.todo) \subseteq Active
  /\ lucky.flip \in {0} \cup LITS
  /\ pc \in {"propagate", "analyze", "failed", "deduce", "learn", "loop",
             "lucky", "done"}
  /\ result \in {0, 10, 20}

-----------------------------------------------------------------------------
(***************************************************************************)
(* TrailConsistent: however far a backtrack goes and whatever literals it  *)
(* keeps out of order, the literals above the root level with a value are  *)
(* exactly those on the trail, once each; the frame of a level points at   *)
(* the decision of that level; and 'unflushed' counts the root-level       *)
(* literals on the trail, which kissat_flush_trail asserts before it       *)
(* empties it.                                                             *)
(***************************************************************************)
TrailConsistent ==
  /\ \A i, j \in DOMAIN trail : i # j => trail[i] # trail[j]
  /\ \A lit \in LITS : values[lit] = -values[NOT(lit)]
  /\ \A lit \in ToSet(trail) : values[lit] > 0
  /\ \A lit \in LITS : values[lit] > 0 /\ LEVEL(lit) > 0 => lit \in ToSet(trail)
  /\ \A k \in 1..level :
       LET lit == frames[k].decision
       IN  /\ trail[frames[k].trail + 1] = lit
           /\ LEVEL(lit) = k
           /\ REASON(lit) = DECISION
  /\ unflushed = Cardinality(OnLevel(ToSet(trail), 0))

(***************************************************************************)
(* ReasonsJustify: after every backtrack, out-of-order assignment and on-  *)
(* the-fly strengthening, whenever the search goes on, the reason of an    *)
(* assigned literal is a clause that still exists and contains it, its     *)
(* other literals are false, the highest of their levels is the literal's  *)
(* level, and those not flushed come earlier on the trail.  analyze.c and  *)
(* deduce.c walk down the trail relying on this.                           *)
(***************************************************************************)
Position(lit) == CHOOSE i \in DOMAIN trail : trail[i] = lit

Justified(lit) ==
  /\ REASON(lit).kind = "large" =>
       REASON(lit).ref \in Alive /\ lit \in LitsOf(REASON(lit).ref)
  /\ \A other \in ReasonLits(lit) :
       /\ values[other] < 0
       /\ LEVEL(other) > 0 => Position(NOT(other)) < Position(lit)
  /\ LEVEL(lit) = HighestLevel(ReasonLits(lit))

ReasonsJustify ==
  pc \in {"propagate", "loop"} =>
    \A lit \in ToSet(trail) :
      LEVEL(lit) > 0 /\ REASON(lit) # DECISION => Justified(lit)

(***************************************************************************)
(* WatchesMatch: moving watches during propagation, rewatching a conflict  *)
(* (analyze.c), strengthening on the fly (strengthen.c) and collecting     *)
(* garbage (collect.c), where clauses change their references, leave every *)
(* large clause that is not garbage watched exactly by its first two       *)
(* literals, once each, with a blocking literal of the clause, and every   *)
(* binary clause watched from both sides.  Only a clause that is satisfied *)
(* on the root level may lack the watches of fixed literals, which         *)
(* flush_watched_clauses_by_literal drops.                                 *)
(***************************************************************************)
Watched(lit) == IF propagate > 0 /\ lit = NotLit
                THEN watches[lit] \o unvisited ELSE watches[lit]

WatchesOf(lit, ref) == SelectSeq(Watched(lit), LAMBDA w : w.ref = ref)

BinaryWatches(lit, other) ==
  SelectSeq(Watched(lit), LAMBDA w : w = Watch(other, BINARY))

WatchesMatch ==
  /\ \A r \in Alive : \A lit \in LITS :
       LET ws == WatchesOf(lit, r)
       IN  IF lit \in {clauses[r].lits[1], clauses[r].lits[2]}
           THEN \/ /\ Len(ws) = 1
                   /\ ws[1].blocking \in LitsOf(r) \ {lit}
                \/ /\ ws = <<>>
                   /\ RootTrue(lit) \/ RootFalse(lit)
                   /\ \E l \in LitsOf(r) : RootTrue(l)
           ELSE ws = <<>>
  /\ \A a, b \in LITS : Len(BinaryWatches(a, b)) = Len(BinaryWatches(b, a))

(***************************************************************************)
(* PropagationComplete: when propagation finds no conflict, no clause is   *)
(* falsified or down to one unassigned literal, also after a chronological *)
(* backtrack has put literals of low levels at the end of the trail and    *)
(* although blocking literals and watches were left alone by the           *)
(* backtracks.  That is also so when vivification, which ignores one       *)
(* clause at a time, keeps its assumptions for the next candidate.         *)
(* Therefore the propagation after a backtrack that is only there to flush *)
(* the trail finds no conflict, which backtrack.c asserts.                 *)
(***************************************************************************)
Considered ==
  {LitsOf(r) : r \in Alive \ {candidate}} \cup BinaryClauses

PropagationComplete ==
  /\ pc = "loop" =>
       \A C \in Considered :
         \/ \E lit \in C : values[lit] > 0
         \/ \E a, b \in C : a # b /\ values[a] = 0 /\ values[b] = 0
  /\ flushing # Idle \/ InPhase("start") => conflict = NoConflict

(***************************************************************************)
(* ConflictFalsified: what conflict analysis is given, or goes on with     *)
(* after on-the-fly strengthening, is an alive clause whose literals are   *)
(* all false (analyze.c:34, deduce.c:92), and the current resolvent is     *)
(* false and follows from the formula together with the root-level units.  *)
(***************************************************************************)
ConflictFalsified ==
  /\ pc \in {"analyze", "failed", "deduce", "learn"} =>
       /\ \A lit \in ConflictSet : values[lit] < 0
       /\ conflict.ref # BINARY => conflict.ref \in Alive
  /\ pc \in {"failed", "deduce", "learn"} =>
       /\ \A lit \in resolvent : values[lit] < 0
       /\ Unresolved > 0
       /\ Entails(Original \cup RootUnits, resolvent)

(***************************************************************************)
(* IrredundantSuffices: the clauses that reduce.c must not delete, that is *)
(* the irredundant ones, the binary ones and the root-level units, have    *)
(* the same models as the formula: no strengthening or subsumption drops   *)
(* an original clause in favour of one that may be thrown away later, and  *)
(* all of them are before the place where those who go through the         *)
(* irredundant clauses (watch.c:173, forward.c:132, walk.c:284) stop.      *)
(***************************************************************************)
IrredundantSuffices == ModelsOf(Irredundant) = ModelsOf(Original)

-----------------------------------------------------------------------------
(***************************************************************************)
(* RootForever: no backtrack, restart or analysis ever takes back or flips *)
(* a value that was assigned on the root level.                            *)
(***************************************************************************)
RootStays == \A lit \in LITS :
               values[lit] # 0 /\ LEVEL(lit) = 0 =>
                 values'[lit] = values[lit] /\ assigned'[IDX(lit)].level = 0

RootForever == [][RootStays]_vars

(***************************************************************************)
(* LearnedIsNew: a learned clause is never one the database already        *)
(* contains, nor weaker than one; this is why the search ends.             *)
(***************************************************************************)
Learns == LearnUnit \/ LearnBinary \/ LearnLarge

LearnedIsNew ==
  [][Learns => \A C \in Database : ~(C \subseteq resolvent)]_vars

(***************************************************************************)
(* Implements: the search is a sequence of changes that keep the models of *)
(* the clause database, ended by an answer that is right (module           *)
(* Satisfiability): 10 only with a model, 20 only without any.  Variables  *)
(* that do not occur have any value.                                       *)
(***************************************************************************)
Assigned == {lit \in LITS : values[lit] > 0} \cup (Vars \ Active)

Abstract == INSTANCE Satisfiability
              WITH formula <- Original, database <- Database,
                   model <- Assigned, answer <- result

Implements == Abstract!Spec

(***************************************************************************)
(* Terminates: if nobody stops it, the search comes to an answer.          *)
(***************************************************************************)
Terminates == <>(pc = "done")
=============================================================================
