--------------------------------- MODULE Vmtf ---------------------------------
(***************************************************************************)
(* What the move-to-front queue promises, without its links: variables     *)
(* ordered by stamps and the cached search position.  In focused mode no   *)
(* unassigned variable may be stamped later than that position, or it is   *)
(* never decided again; in stable mode the position is not maintained.     *)
(***************************************************************************)
EXTENDS Integers, FiniteSets, TLC

CONSTANTS
  Vars,        \* the variables
  MaxStamp,    \* the largest stamp, UINT_MAX in the code
  DISCONNECT   \* no variable

ASSUME VarsAssumption == IsFiniteSet(Vars) /\ DISCONNECT \notin Vars

ASSUME StampAssumption == MaxStamp \in Nat /\ Cardinality(Vars) <= MaxStamp

VARIABLES
  fresh,      \* the variables not activated yet
  enqueued,   \* the active variables
  created,    \* those of them that the factorization under way introduced
  assigned,   \* those of them that have a value
  stamp,      \* the stamp of each variable
  last,       \* the stamp given last
  search,     \* the cached position: a variable and its stamp
  stable      \* whether the solver is in stable mode

vmtfVars == <<fresh, enqueued, created, assigned, stamp, last, search, stable>>

Unassigned == enqueued \ assigned

Position(v, stamps) == [idx |-> v, stamp |-> stamps[v]]

(* v is the one of S with the largest stamp. *)
IsLastOf(v, S) == v \in S /\ \A u \in S : stamp[u] <= stamp[v]

(* v is the one of S with the smallest stamp. *)
IsFirstOf(v, S) == v \in S /\ \A u \in S : stamp[v] <= stamp[u]

Before(v) == {u \in enqueued : stamp[u] < stamp[v]}

After(v) == {u \in enqueued : stamp[v] < stamp[u]}

Init ==
  /\ fresh = Vars
  /\ enqueued = {}
  /\ created = {}
  /\ assigned = {}
  /\ stamp = [v \in Vars |-> 0]
  /\ last = 0
  /\ search = [idx |-> DISCONNECT, stamp |-> 0]
  /\ stable = FALSE

-----------------------------------------------------------------------------
(***************************************************************************)
(* v gets the last stamp.  When the stamps are used up, all enqueued       *)
(* variables get new ones, 1, 2, ..., in the same order.  The cached       *)
(* position is 'at' afterwards.                                            *)
(***************************************************************************)
(* The position of v in S, counted from the last one (in Rank's place, a
   mutant that reverses the order) ... *)
RankFromLast(v, S) == Cardinality({u \in S : stamp[u] >= stamp[v]})

(* ... and from the first one. *)
Rank(v, S) == Cardinality({u \in S : stamp[u] <= stamp[v]})

(* Mutant of Restamped: v gets the stamp of the one before it. *)
RestampedTight(v, S) ==
  [u \in Vars |-> IF u = v THEN Cardinality(S)
                  ELSE IF u \in S THEN Rank(u, S)
                  ELSE stamp[u]]

Restamped(v, S) ==
  [u \in Vars |-> IF u = v THEN Cardinality(S) + 1
                  ELSE IF u \in S THEN Rank(u, S)
                  ELSE stamp[u]]

(* Mutants of EnqueueLast: stamps are never reassigned, or the cached
   position keeps its old stamp. *)
EnqueueLastUnchecked(v, at) ==
  /\ stamp' = [stamp EXCEPT ![v] = last + 1]
  /\ last' = last + 1
  /\ search' = Position(at, stamp')

EnqueueLastStale(v, at) ==
  LET S == enqueued \ {v}
  IN  /\ IF last = MaxStamp
         THEN stamp' = Restamped(v, S) /\ last' = Cardinality(S) + 1
         ELSE stamp' = [stamp EXCEPT ![v] = last + 1] /\ last' = last + 1
      /\ search' = Position(at, IF at = v THEN stamp' ELSE stamp)

EnqueueLast(v, at) ==
  LET S == enqueued \ {v}
  IN  /\ IF last = MaxStamp
         THEN stamp' = Restamped(v, S) /\ last' = Cardinality(S) + 1
         ELSE stamp' = [stamp EXCEPT ![v] = last + 1] /\ last' = last + 1
      /\ search' = Position(at, stamp')

Activate(v) ==
  /\ v \in fresh
  /\ fresh' = fresh \ {v}
  /\ enqueued' = enqueued \cup {v}
  /\ created' \in {created, created \cup {v}}
  /\ EnqueueLast(v, v)
  /\ UNCHANGED <<assigned, stable>>

(* Where the search goes when v leaves it for good ... *)
SuccessorOf(v, u) ==
  \/ IsFirstOf(u, After(v))
  \/ After(v) = {} /\ IsLastOf(u, Before(v))

(* ... and when v, which is assigned, moves behind it. *)
PredecessorOf(v, u) ==
  \/ IsLastOf(u, Before(v))
  \/ Before(v) = {} /\ IsFirstOf(u, After(v))

(* v is fixed or eliminated. *)
Deactivate(v) ==
  /\ v \in Unassigned \ created
  /\ enqueued' = enqueued \ {v}
  /\ \/ search.idx # v /\ UNCHANGED search
     \/ /\ search.idx = v
        /\ enqueued = {v}
        /\ search' = [idx |-> DISCONNECT, stamp |-> 0]
     \/ /\ search.idx = v
        /\ \E u \in enqueued : SuccessorOf(v, u) /\ search' = Position(u, stamp)
  /\ UNCHANGED <<fresh, created, assigned, stamp, last, stable>>

MoveToFront(v) ==
  /\ v \in enqueued
  /\ After(v) # {}
  /\ \/ v \notin assigned /\ EnqueueLast(v, v)
     \/ v \in assigned /\ search.idx # v /\ EnqueueLast(v, search.idx)
     \/ /\ v \in assigned
        /\ search.idx = v
        /\ \E u \in enqueued : PredecessorOf(v, u) /\ EnqueueLast(v, u)
  /\ UNCHANGED <<fresh, enqueued, created, assigned, stable>>

Unbumped ==
  LET others == enqueued \ created
  IN  [u \in Vars |-> IF u \in created THEN RankFromLast(u, created)
                      ELSE IF u \in others THEN Cardinality(created) + Rank(u, others)
                      ELSE stamp[u]]

(* What the factorization introduced goes before everything else, in reverse
   order, and the search starts again behind everything. *)
Unbump ==
  /\ enqueued # {}
  /\ assigned = {}
  /\ created' = {}
  /\ stamp' = Unbumped
  /\ last' = Cardinality(enqueued)
  /\ \E u \in enqueued : stamp'[u] = last' /\ search' = Position(u, stamp')
  /\ UNCHANGED <<fresh, enqueued, assigned, stable>>

(* The stamps are made 1, 2, ... again, and the cached position may be taken
   for a later one. *)
Compact ==
  /\ stamp' = [u \in Vars |-> IF u \in enqueued THEN Rank(u, enqueued) ELSE stamp[u]]
  /\ last' = Cardinality(enqueued)
  /\ \/ enqueued = {} /\ UNCHANGED search
     \/ \E u \in enqueued : stamp[u] >= search.stamp /\ search' = Position(u, stamp')
  /\ UNCHANGED <<fresh, enqueued, created, assigned, stable>>

-----------------------------------------------------------------------------
(* The search looks for the last unassigned variable, or does not look. *)
Walks(from) ==
  \/ from = search
  \/ /\ ~stable
     /\ \E u \in Unassigned : IsLastOf(u, Unassigned) /\ from = Position(u, stamp)

Assign(v) ==
  /\ v \in Unassigned
  /\ assigned' = assigned \cup {v}
  /\ Walks(search')
  /\ UNCHANGED <<fresh, enqueued, created, stamp, last, stable>>

Look ==
  /\ Walks(search')
  /\ UNCHANGED <<fresh, enqueued, created, assigned, stamp, last, stable>>

(* Backtracking moves the cached position behind all it unassigns. *)
Unassign(S) ==
  /\ assigned' = assigned \ S
  /\ LET later == {u \in S : stamp[u] > search.stamp}
     IN  \/ (stable \/ later = {}) /\ UNCHANGED search
         \/ /\ ~stable
            /\ \E u \in later : IsLastOf(u, later) /\ search' = Position(u, stamp)
  /\ UNCHANGED <<fresh, enqueued, created, stamp, last, stable>>

SwitchToStable ==
  /\ ~stable
  /\ stable' = TRUE
  /\ UNCHANGED <<fresh, enqueued, created, assigned, stamp, last, search>>

(* Mutant of SwitchToFocused: the cached position is not reset. *)
SwitchToFocusedCached ==
  /\ stable
  /\ enqueued # {}
  /\ stable' = FALSE
  /\ UNCHANGED <<fresh, enqueued, created, assigned, stamp, last, search>>

SwitchToFocused ==
  /\ stable
  /\ stable' = FALSE
  /\ \E u \in enqueued : IsLastOf(u, enqueued) /\ search' = Position(u, stamp)
  /\ UNCHANGED <<fresh, enqueued, created, assigned, stamp, last>>

Next ==
  \/ \E v \in Vars : Activate(v) \/ Deactivate(v) \/ MoveToFront(v) \/ Assign(v)
  \/ Unbump
  \/ Compact
  \/ Look
  \/ \E S \in SUBSET assigned : Unassign(S)
  \/ SwitchToStable
  \/ SwitchToFocused

Spec == Init /\ [][Next]_vmtfVars

-----------------------------------------------------------------------------
(***************************************************************************)
(* TypeOK: the types of the variables; no stamp is beyond MaxStamp, fresh  *)
(* variables are not in the queue and only variables of the queue count    *)
(* as assigned.                                                            *)
(***************************************************************************)
TypeOK ==
  /\ fresh \subseteq Vars
  /\ enqueued \subseteq Vars \ fresh
  /\ created \subseteq enqueued
  /\ assigned \subseteq enqueued
  /\ stamp \in [Vars -> Nat]
  /\ last \in 0..MaxStamp
  /\ search \in [idx : Vars \cup {DISCONNECT}, stamp : Nat]
  /\ stable \in BOOLEAN

(***************************************************************************)
(* StampsOrder: the stamps order the queue, and none is later than the one *)
(* given last (kissat_check_queue).                                        *)
(***************************************************************************)
StampsOrder ==
  /\ \A u \in enqueued : stamp[u] <= last
  /\ \A u, v \in enqueued : stamp[u] = stamp[v] => u = v

(***************************************************************************)
(* SearchCached: the cached position is an element of the queue with its   *)
(* stamp, unless the queue is empty.                                       *)
(***************************************************************************)
SearchCached ==
  IF enqueued = {} THEN search.idx = DISCONNECT
  ELSE search.idx \in enqueued /\ search.stamp = stamp[search.idx]

(***************************************************************************)
(* SearchPointer: in focused mode nothing unassigned is stamped later than *)
(* the cached position, so the walk of last_enqueued_unassigned_variable   *)
(* towards the front of the queue meets every candidate.                   *)
(***************************************************************************)
SearchPointer ==
  ~stable => \A u \in Unassigned : stamp[u] <= search.stamp

(***************************************************************************)
(* OnlyLastOvertakes: whatever overtakes another variable becomes the last *)
(* one, unless the other one was just created by a factorization.  So      *)
(* bumping in the order of the stamps keeps that order among the bumped    *)
(* and among the others, also when stamps are reassigned meanwhile         *)
(* (move_analyzed_variables_to_front_of_queue), and unbumping does among   *)
(* the old variables (adjust_scores_and_phases_of_fresh_variables).        *)
(***************************************************************************)
Overtakes(u, w) == stamp[u] < stamp[w] /\ stamp'[w] < stamp'[u]

OnlyLastOvertakes ==
  [][\A u, w \in enqueued \cap enqueued' :
       Overtakes(u, w) => stamp'[u] = last' \/ w \in created]_vmtfVars

(* The variables are interchangeable for TLC. *)
Symmetry == Permutations(Vars)
=============================================================================
