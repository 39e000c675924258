-------------------------------- MODULE Decide --------------------------------
(***************************************************************************)
(* Which variable is decided next.  In focused mode it is the last         *)
(* unassigned one of the queue, in stable mode the unassigned one with the *)
(* largest score; both structures are changed by whatever assigns,         *)
(* unassigns, activates, fixes, eliminates, bumps or reorders variables,   *)
(* but each mode keeps only its own one up to date.  Propagation, analysis *)
(* and their clauses are left open here (module Cdcl has them): any active *)
(* variable may be implied on any open level, any assigned ones analyzed.  *)
(***************************************************************************)
EXTENDS Queue, Heap

CONSTANTS
  Stable,      \* option 'stable': 0 focused, 1 switching, 2 stable
  Randec,      \* option 'randec': random decisions
  Reordering,  \* option 'reorder'
  Unit,        \* the score 1.0
  MaxScore     \* MAX_SCORE

ASSUME OptionsAssumption ==
  Stable \in 0..2 /\ Randec \in BOOLEAN /\ Reordering \in BOOLEAN

ASSUME ScoresAssumption == Unit \in Nat \ {0} /\ MaxScore \in Nat /\ Unit <= MaxScore

VARIABLES
  queue,      \* the queue of the focused mode
  scores,     \* the heap of the stable mode
  scinc,      \* the score increment of a bumped variable
  stable,     \* whether the solver is in stable mode
  flags,      \* the state of each variable
  lev,        \* the decision level of each assigned variable, or UNASSIGNED
  trail,      \* the variables assigned above the root level, in order
  decisions,  \* the decision of each open level
  pc,         \* "parse", "search", "restart", "bump", "reorder" or "factor"
  pending,    \* the variables still to be bumped or reordered, or the fresh
              \* ones of the factorization under way
  reuse       \* the level to which the restart under way goes back

modeVars == <<scinc, stable>>
assignVars == <<lev, trail, decisions>>
loopVars == <<pc, pending, reuse>>
vars == <<queue, scores, flags, modeVars, assignVars, loopVars>>

UNASSIGNED == -1

ACTIVE(v) == flags[v] = "active"

Active == {v \in Vars : ACTIVE(v)}

Assigned == {v \in Vars : lev[v] # UNASSIGNED}

Unassigned == Active \ Assigned

level == Len(decisions)

Searching == pc = "search"

Larger(a, b) == IF a >= b THEN a ELSE b

Init ==
  /\ queue = InitQueue
  /\ scores = [stack |-> <<>>, score |-> [v \in Vars |-> 0]]
  /\ scinc = Unit
  /\ stable = FALSE
  /\ flags = [v \in Vars |-> "new"]
  /\ lev = [v \in Vars |-> UNASSIGNED]
  /\ trail = <<>>
  /\ decisions = <<>>
  /\ pc = "parse"
  /\ pending = {}
  /\ reuse = 0

-----------------------------------------------------------------------------
(***************************************************************************)
(* Variables come and go (flags.c).                                        *)
(***************************************************************************)
(* activate_literal, for a variable of the formula or a fresh one; the
   scores of the first variables are 0, 1/2, 2/3, ... *)
Activate(v) ==
  /\ pc \in {"parse", "factor"}
  /\ flags[v] = "new"
  /\ flags' = [flags EXCEPT ![v] = "active"]
  /\ queue' = Enqueue(queue, v, Assigned)
  /\ LET activated == Cardinality({u \in Vars : flags[u] # "new"}) + 1
         scored == UpdateHeap(scores, v, Unit - Unit \div activated)
     IN  scores' = IF stable THEN PushHeap(scored, v) ELSE scored
  /\ pending' = IF pc = "factor" THEN pending \cup {v} ELSE pending
  /\ UNCHANGED <<modeVars, assignVars, pc, reuse>>

(* deactivate_variable. *)
Deactivate(v) ==
  /\ queue' = Dequeue(queue, v)
  /\ scores' = IF HeapContains(scores, v) THEN PopHeap(scores, v) ELSE scores

(* kissat_assign on the root level and kissat_mark_fixed_literal. *)
Fix(v) ==
  /\ pc \in {"parse", "search"}
  /\ v \in Unassigned
  /\ flags' = [flags EXCEPT ![v] = "fixed"]
  /\ lev' = [lev EXCEPT ![v] = 0]
  /\ Deactivate(v)
  /\ UNCHANGED <<modeVars, trail, decisions, loopVars>>

(* kissat_mark_eliminated_variable, on the root level during inprocessing. *)
Eliminate(v) ==
  /\ Searching
  /\ level = 0
  /\ v \in Unassigned
  /\ flags' = [flags EXCEPT ![v] = "eliminated"]
  /\ Deactivate(v)
  /\ UNCHANGED <<modeVars, assignVars, loopVars>>

(* Eliminated variables disappear, and all fixed ones but one, which then
   stands for all of them. *)
Droppable ==
  LET eliminated == {v \in Vars : flags[v] = "eliminated"}
      fixed      == {v \in Vars : flags[v] = "fixed"}
  IN  {eliminated \cup (fixed \ {v}) : v \in fixed}
        \cup (IF fixed = {} THEN {eliminated} ELSE {})

(* kissat_finalize_compacting, at the end of a reduction.  The models do not
   renumber variables: which cached positions are possible afterwards depends
   on the order of their indices, which is any order. *)
Compact ==
  /\ Searching
  /\ \E dropped \in Droppable \ {{}} :
       /\ flags' = [v \in Vars |-> IF v \in dropped THEN "dropped" ELSE flags[v]]
       /\ lev' = [v \in Vars |-> IF v \in dropped THEN UNASSIGNED ELSE lev[v]]
       /\ scores' = CompactHeap(scores, dropped)
  /\ queue' \in CompactedQueues(queue)
  /\ UNCHANGED <<modeVars, trail, decisions, loopVars>>

-----------------------------------------------------------------------------
(***************************************************************************)
(* Modes (search.c, mode.c).                                               *)
(***************************************************************************)
(* Mutant of UpdatedScores: nothing is added. *)
KeptScores(h) == {h}

(* kissat_update_scores: what focused mode took off the heap or never put
   there, in the order of the variable indices, which is any order. *)
UpdatedScores(h) ==
  {FoldLeft(PushHeap, h, missing) :
     missing \in SetToSeqs({v \in Active : ~HeapContains(h, v)})}

StartSearch ==
  /\ pc = "parse"
  /\ stable' = (Stable = 2)
  /\ scores' \in (IF Stable = 2 THEN UpdatedScores(scores) ELSE {scores})
  /\ pc' = "search"
  /\ UNCHANGED <<queue, scinc, flags, assignVars, pending, reuse>>

(* kissat_search switches only if a variable is unassigned. *)
SwitchSearchMode ==
  /\ Searching
  /\ Stable = 1
  /\ Unassigned # {}
  /\ stable' = ~stable
  /\ queue' = IF stable THEN ResetSearchOfQueue(queue) ELSE queue
  /\ scores' \in (IF stable THEN {scores} ELSE UpdatedScores(scores))
  /\ UNCHANGED <<scinc, flags, assignVars, loopVars>>

-----------------------------------------------------------------------------
(***************************************************************************)
(* Decisions (decide.c).  Looking for the next decision variable moves the *)
(* cached position of the queue or takes assigned variables off the heap.  *)
(***************************************************************************)
(* largest_score_unassigned_variable. *)
PopAssigned(h) ==
  LET skip(g) == IF g.stack # <<>> /\ MaxHeap(g) \in Assigned THEN PopMaxHeap(g) ELSE g
      after[i \in 0..Len(h.stack)] == IF i = 0 THEN h ELSE skip(after[i - 1])
  IN  after[Len(h.stack)]

NextByHeuristic(v) ==
  IF stable
  THEN /\ scores' = PopAssigned(scores)
       /\ v = MaxHeap(scores')
       /\ UNCHANGED queue
  ELSE /\ queue' = SearchLastEnqueuedUnassigned(queue, Assigned)
       /\ v = queue'.search.idx
       /\ UNCHANGED scores

(* next_random_decision. *)
NextAtRandom(v) ==
  /\ Randec
  /\ v \in Unassigned
  /\ UNCHANGED <<queue, scores>>

NextDecisionVariable(v) == NextAtRandom(v) \/ NextByHeuristic(v)

MakeDecision(v) ==
  /\ Searching
  /\ Unassigned # {}
  /\ NextDecisionVariable(v)
  /\ decisions' = Append(decisions, v)
  /\ lev' = [lev EXCEPT ![v] = level + 1]
  /\ trail' = Append(trail, v)
  /\ UNCHANGED <<flags, modeVars, loopVars>>

(* kissat_assign above the root level; with chronological backtracking the
   level may be below the current one. *)
Imply(v, l) ==
  /\ Searching
  /\ v \in Unassigned
  /\ l \in 1..level
  /\ lev' = [lev EXCEPT ![v] = l]
  /\ trail' = Append(trail, v)
  /\ UNCHANGED <<queue, scores, flags, modeVars, decisions, loopVars>>

(* Mutant of Keeps: off by one. *)
KeepsBelow(newLevel, v) == lev[v] < newLevel

(* The trail is not sorted by levels: what a backtrack keeps may come after
   what it unassigns. *)
Keeps(newLevel, v) == lev[v] <= newLevel

(* add_unassigned_variable_back_to_heap. *)
PushBack(h, v) == IF HeapContains(h, v) THEN h ELSE PushHeap(h, v)

(* kissat_backtrack_without_updating_phases. *)
BacktrackTo(newLevel) ==
  LET kept == {v \in Vars : Keeps(newLevel, v)}
      unassigned == Among(trail, Vars \ kept)
  IN  /\ lev' = [v \in Vars |-> IF v \in kept THEN lev[v] ELSE UNASSIGNED]
      /\ trail' = Among(trail, kept)
      /\ decisions' = SubSeq(decisions, 1, newLevel)
      /\ queue' = IF stable THEN queue
                   ELSE FoldLeft(AddBackToQueue, queue, unassigned)
      /\ scores' = IF stable THEN FoldLeft(PushBack, scores, unassigned)
                    ELSE scores

Backtrack(newLevel) ==
  /\ Searching
  /\ newLevel \in 0..(level - 1)
  /\ BacktrackTo(newLevel)
  /\ UNCHANGED <<flags, modeVars, loopVars>>

(* reuse_trail: keep the levels whose decisions rank above the next one. *)
ReuseTrail(v) ==
  /\ Searching
  /\ level > 0
  /\ Unassigned # {}
  /\ NextDecisionVariable(v)
  /\ LET rank(u) == IF stable THEN scores'.score[u] ELSE queue'.links[u].stamp
         below == {l \in 1..level : rank(decisions[l]) <= rank(v)}
     IN  reuse' = IF below = {} THEN level
                  ELSE (CHOOSE l \in below : \A k \in below : l <= k) - 1
  /\ pc' = "restart"
  /\ UNCHANGED <<flags, modeVars, assignVars, pending>>

(* The second half of kissat_restart. *)
Restart ==
  /\ pc = "restart"
  /\ BacktrackTo(reuse)
  /\ reuse' = 0
  /\ pc' = "search"
  /\ UNCHANGED <<flags, modeVars, pending>>

-----------------------------------------------------------------------------
(***************************************************************************)
(* Bumping (bump.c) and reordering (reorder.c), one variable per step.     *)
(***************************************************************************)
Rescaled(h, inc) ==
  LET rescale == Larger(MaxScoreOnHeap(h), inc)
  IN  [heap |-> RescaleHeap(h, Unit, rescale),
       inc  |-> Larger(1, (inc * Unit) \div rescale)]

RescaledIf(condition, h, inc) ==
  IF condition THEN Rescaled(h, inc) ELSE [heap |-> h, inc |-> inc]

(* kissat_bump_score_increment; the factor 1 / (1 - decay) is 2 here. *)
BumpedIncrement(h, inc) == RescaledIf(2 * inc > MaxScore, h, 2 * inc)

(* bump_analyzed_variable_score. *)
BumpedScore(h, inc, v) ==
  LET newScore == h.score[v] + inc
  IN  RescaledIf(newScore > MaxScore, UpdateHeap(h, v, newScore), inc)

(* kissat_bump_analyzed is called at the end of an analysis. *)
StartBumping ==
  /\ Searching
  /\ \E analyzed \in (SUBSET {v \in Active : lev[v] > 0}) \ {{}} : pending' = analyzed
  /\ pc' = "bump"
  /\ UNCHANGED <<queue, scores, flags, modeVars, assignVars, reuse>>

(* move_analyzed_variables_to_front_of_queue goes through the analyzed
   variables in the order of their stamps. *)
BumpQueue(v) ==
  /\ pc = "bump"
  /\ ~stable
  /\ v \in pending
  /\ \A u \in pending : queue.links[v].stamp <= queue.links[u].stamp
  /\ queue' = MoveToFront(queue, v, Assigned)
  /\ UNCHANGED <<scores, scinc>>

(* bump_analyzed_variable_scores; analysis met them in any order. *)
BumpScores(v) ==
  /\ pc = "bump"
  /\ stable
  /\ v \in pending
  /\ LET bumped == BumpedScore(scores, scinc, v)
         last   == IF pending = {v} THEN BumpedIncrement(bumped.heap, bumped.inc)
                   ELSE bumped
     IN  scores' = last.heap /\ scinc' = last.inc
  /\ UNCHANGED queue

(* kissat_reorder, on the root level; in stable mode scores are rescaled. *)
StartReordering ==
  /\ Searching
  /\ Reordering
  /\ level = 0
  /\ Active # {}
  /\ pending' = Active
  /\ LET rescaled == RescaledIf(stable, scores, scinc)
     IN  scores' = rescaled.heap /\ scinc' = rescaled.inc
  /\ pc' = "reorder"
  /\ UNCHANGED <<queue, flags, stable, assignVars, reuse>>

(* reorder_focused; the weights of the formula give any order. *)
ReorderQueue(v) ==
  /\ pc = "reorder"
  /\ ~stable
  /\ v \in pending
  /\ queue' = MoveToFront(queue, v, Assigned)
  /\ UNCHANGED <<scores, scinc>>

(* reorder_stable, with weights 0 or 1. *)
ReorderScores(v) ==
  /\ pc = "reorder"
  /\ stable
  /\ v \in pending
  /\ \E weight \in {0, Unit} :
       scores' = UpdateHeap(scores, v, scores.score[v] + weight)
  /\ UNCHANGED <<queue, scinc>>

Adjust(v) ==
  /\ BumpQueue(v) \/ BumpScores(v) \/ ReorderQueue(v) \/ ReorderScores(v)
  /\ pending' = pending \ {v}
  /\ pc' = IF pending = {v} THEN "search" ELSE pc
  /\ UNCHANGED <<flags, stable, assignVars, reuse>>

-----------------------------------------------------------------------------
(***************************************************************************)
(* Factorization introduces fresh variables (factor.c).  They are the last *)
(* and the best ones when they are activated, and are unbumped at its end. *)
(***************************************************************************)
StartFactoring ==
  /\ Searching
  /\ level = 0
  /\ Active # {}
  /\ pc' = "factor"
  /\ UNCHANGED <<queue, scores, flags, modeVars, assignVars, pending, reuse>>

ResetScore(h, v) == UpdateHeap(h, v, 0)

(* adjust_scores_and_phases_of_fresh_variables, also if there are none; the
   scores are reset from the last fresh variable to the first one. *)
FinishFactoring ==
  /\ pc = "factor"
  /\ LET fresh == Among(Order(queue), pending)
     IN  /\ scores' = FoldLeft(ResetScore, scores, Reverse(fresh))
         /\ queue' = UnbumpFresh(queue, fresh)
  /\ pending' = {}
  /\ pc' = "search"
  /\ UNCHANGED <<flags, modeVars, assignVars, reuse>>

-----------------------------------------------------------------------------
(* Every variable has a value: kissat_search is done if it wants to. *)
Satisfied == Searching /\ Unassigned = {} /\ UNCHANGED vars

Next ==
  \/ \E v \in Vars : \/ Activate(v) \/ Fix(v) \/ Eliminate(v)
                     \/ MakeDecision(v) \/ ReuseTrail(v) \/ Adjust(v)
                     \/ \E l \in 1..level : Imply(v, l)
  \/ Compact
  \/ StartSearch
  \/ SwitchSearchMode
  \/ \E newLevel \in 0..(level - 1) : Backtrack(newLevel)
  \/ Restart
  \/ StartBumping
  \/ StartReordering
  \/ StartFactoring
  \/ FinishFactoring
  \/ Satisfied

Spec == Init /\ [][Next]_vars

-----------------------------------------------------------------------------
(* What has to hold of the queue and of the heap whatever the rest of the solver
   does with them. *)

(***************************************************************************)
(* TypeOK: the variables have the types their declarations say; a variable *)
(* has a level iff it is fixed or on the trail, and decisions are made one *)
(* per level.                                                              *)
(***************************************************************************)
TypeOK ==
  /\ queue.links \in [Vars -> [prev : Vars \cup {DISCONNECT},
                               next : Vars \cup {DISCONNECT},
                               stamp : 0..MaxStamp]]
  /\ {queue.first, queue.last, queue.search.idx} \subseteq Vars \cup {DISCONNECT}
  /\ {queue.stamp, queue.search.stamp} \subseteq 0..MaxStamp
  /\ scores.score \in [Vars -> 0..(2 * MaxScore)]
  /\ scinc \in 1..MaxScore
  /\ stable \in BOOLEAN
  /\ flags \in [Vars -> {"new", "active", "fixed", "eliminated", "dropped"}]
  /\ \A v \in Vars :
       /\ lev[v] \in {UNASSIGNED} \cup 0..level
       /\ lev[v] = 0 <=> flags[v] = "fixed"
       /\ lev[v] > 0 <=> v \in ToSet(trail)
  /\ \A l \in 1..level : lev[decisions[l]] = l
  /\ pc \in {"parse", "search", "restart", "bump", "reorder", "factor"}
  /\ pending \subseteq Active
  /\ pc \in {"bump", "reorder"} => pending # {}
  /\ pending # {} => pc \in {"bump", "reorder", "factor"}
  /\ reuse \in 0..level

(***************************************************************************)
(* QueueLinked: the links lead from first to last through exactly the      *)
(* active variables and back, and the stamps increase along them up to the *)
(* stamp given last, also after the stamps were used up                    *)
(* (kissat_check_queue, kissat_enqueue_links, kissat_dequeue_links).       *)
(***************************************************************************)
QueueLinked ==
  LET order == Order(queue)
  IN  /\ Len(order) = Cardinality(Active)
      /\ ToSet(order) = Active
      /\ queue.last = (IF order = <<>> THEN DISCONNECT ELSE Last(order))
      /\ \A i \in DOMAIN order :
           /\ queue.links[order[i]].prev =
                (IF i = 1 THEN DISCONNECT ELSE order[i - 1])
           /\ queue.links[order[i]].stamp <= queue.stamp
           /\ \A j \in 1..(i - 1) :
                queue.links[order[j]].stamp < queue.links[order[i]].stamp

(***************************************************************************)
(* SearchSound: the cached position is in the queue, with its stamp, as    *)
(* long as the queue is not empty, and in focused mode everything behind   *)
(* it is assigned (kissat_check_queue).                                    *)
(***************************************************************************)
SearchSound ==
  IF Active = {} THEN queue.search.idx = DISCONNECT
  ELSE /\ queue.search.idx \in Active
       /\ queue.search.stamp = queue.links[queue.search.idx].stamp
       /\ ~stable => \A v \in Unassigned :
                       queue.links[v].stamp <= queue.search.stamp

(***************************************************************************)
(* HeapComplete: during stable search every active unassigned variable is  *)
(* on the heap, so that kissat_max_heap finds it, and nothing that is not  *)
(* active ever is, in either mode (largest_score_unassigned_variable,      *)
(* kissat_update_scores, deactivate_variable).                             *)
(***************************************************************************)
HeapComplete ==
  /\ ToSet(scores.stack) \subseteq Active
  /\ stable => Unassigned \subseteq ToSet(scores.stack)

(***************************************************************************)
(* DecidesBest: without random decisions the solver decides an unassigned  *)
(* variable with the last stamp in focused mode and with the largest score *)
(* in stable mode, no matter which variables other modes, bumping and      *)
(* restarts left aside (CHECK_QUEUE and CHECK_HEAP in decide.c).           *)
(***************************************************************************)
BestDecision(v) ==
  /\ v \in Unassigned
  /\ \A u \in Unassigned :
       IF stable THEN scores.score[u] <= scores.score[v]
       ELSE queue.links[u].stamp <= queue.links[v].stamp

DecidesBest ==
  [][~Randec => \A v \in Vars : decisions' = Append(decisions, v) => BestDecision(v)]_vars

(***************************************************************************)
(* ImplementsVmtf: the links, the wrap-around of the stamps, the cached    *)
(* position and the way fresh variables of a factorization are put first   *)
(* implement the abstract queue of Vmtf step by step.                      *)
(***************************************************************************)
Fresh == {v \in Vars : flags[v] = "new"}

Created == IF pc = "factor" THEN pending ELSE {}

Valued == Active \cap Assigned

Stamps == [v \in Vars |-> queue.links[v].stamp]

Abstract == INSTANCE Vmtf WITH
  fresh    <- Fresh,
  created  <- Created,
  enqueued <- Active,
  assigned <- Valued,
  stamp    <- Stamps,
  last     <- queue.stamp,
  search   <- queue.search

ImplementsVmtf == Abstract!Spec
=============================================================================
