-------------------------------- MODULE Reduce --------------------------------
(***************************************************************************)
(* Reducing the clause database during search (reduce.c) and the garbage   *)
(* collection that follows (collect.c).  Reduction throws redundant large  *)
(* clauses away, except reasons.  Collection goes through the arena from   *)
(* 'start' on: it drops garbage and satisfied clauses, removes false       *)
(* literals, turns what has become binary into watches, puts irredundant   *)
(* clauses before redundant ones, redirects the reasons and watches the    *)
(* rest anew.  Clauses before 'start' stay what and where they are.        *)
(*                                                                         *)
(* Which redundant clauses are the least useful ones is left open (glue,   *)
(* usage, tiers, the reduced fraction).  A reference is the number of a    *)
(* clause, not a memory address.  Compaction (compact.c), which also       *)
(* renames variables, is here collection from the first clause on.         *)
(***************************************************************************)
EXTENDS Analyze

CONSTANT MaxReductions    \* bound on the number of reductions

ASSUME MaxReductionsAssumption == MaxReductions \in Nat

VARIABLES
  reductions,    \* how many there were
  flushing       \* a reduction that waits for the trail to be flushed, or Idle

reduceVars == <<reductions, flushing>>

Reduction(start, compact) == [start |-> start, compact |-> compact]

Idle == Reduction(0, FALSE)

RootTrue(lit) == values[lit] > 0 /\ LEVEL(lit) = 0

RootFalse(lit) == values[lit] < 0 /\ LEVEL(lit) = 0

-----------------------------------------------------------------------------
(***************************************************************************)
(* collect_reducibles, after kissat_mark_reason_clauses.                   *)
(***************************************************************************)
IsReason(ref) == \E lit \in ToSet(trail) : REASON(lit) = Large(ref)

(* Mutant of Reducible: reasons are not protected. *)
ReducibleReasons(start) ==
  {r \in start..Len(clauses) : clauses[r].redundant /\ ~clauses[r].garbage}

Reducible(start) ==
  {r \in start..Len(clauses) :
     clauses[r].redundant /\ ~clauses[r].garbage /\ ~IsReason(r)}

FirstRedundant(start) ==
  LET redundant == {r \in start..Len(clauses) : clauses[r].redundant}
  IN  IF redundant = {} THEN 0 ELSE Min(redundant)

-----------------------------------------------------------------------------
(***************************************************************************)
(* kissat_sort_literals (sort.c) moves the two best literals to the front: *)
(* unassigned ones, then true ones of a low level, then false ones of a    *)
(* high level.  After a first one that is not false any true one will do.  *)
(***************************************************************************)
Better(a, b) ==
  CASE values[a] > 0 /\ values[b] < 0 -> TRUE
    [] values[a] < 0 /\ values[b] < 0 -> LEVEL(a) > LEVEL(b)
    [] values[a] > 0 /\ values[b] > 0 -> LEVEL(a) < LEVEL(b)
    [] OTHER                          -> FALSE

MoveBestTo(i, lits, satisfiedIsEnough) ==
  LET positions == i..Len(lits)
      ideal == {j \in positions : \/ values[lits[j]] = 0
                                  \/ values[lits[j]] > 0 /\ satisfiedIsEnough}
      best == IF ideal # {} THEN Min(ideal)
              ELSE CHOOSE j \in positions :
                     /\ \A k \in positions : ~Better(lits[k], lits[j])
                     /\ \A k \in i..(j - 1) : Better(lits[j], lits[k])
  IN  Swapped(lits, i, best)

SortedLits(lits) ==
  LET first == MoveBestTo(1, lits, FALSE)
  IN  MoveBestTo(2, first, values[first[1]] >= 0)

-----------------------------------------------------------------------------
(***************************************************************************)
(* sparse_sweep_garbage_clauses and move_redundant_clauses_to_the_end: the *)
(* references from 'start' on that survive, in their old order.            *)
(***************************************************************************)
Stripped(ref) == SelectSeq(clauses[ref].lits, LAMBDA l : ~RootFalse(l))

Surviving(start, gone) ==
  SelectSeq([i \in 1..(Len(clauses) - start + 1) |-> start + i - 1],
            LAMBDA r : /\ ~clauses[r].garbage
                       /\ r \notin gone
                       /\ \A l \in ToSet(clauses[r].lits) : ~RootTrue(l))

BecomesBinary(ref) == Len(Stripped(ref)) = 2

IsRedundant(ref) == clauses[ref].redundant

Remaining(survivors) ==
  LET large == SelectSeq(survivors, LAMBDA r : ~BecomesBinary(r))
  IN  SelectSeq(large, LAMBDA r : ~IsRedundant(r))
        \o SelectSeq(large, IsRedundant)

(* Mutant of Redirected: the reason of a literal keeps its reference. *)
NotRedirected(reason, lit, start, survivors) == reason

(* update_large_reason, or a binary reason.  The reason of a literal that
   is not among the survivors would dangle. *)
Redirected(reason, lit, start, survivors) ==
  LET moved == Remaining(survivors)
  IN  IF reason.kind # "large" \/ reason.ref \notin ToSet(survivors) THEN reason
      ELSE IF BecomesBinary(reason.ref)
      THEN Binary(CHOOSE l \in ToSet(Stripped(reason.ref)) : IDX(l) # lit)
      ELSE Large(start - 1 +
                   (CHOOSE i \in DOMAIN moved : moved[i] = reason.ref))

(* flush_watched_clauses_by_literal: what is satisfied, watched by a fixed
   literal or about to be watched anew goes. *)
FlushedWatches(start) ==
  [lit \in LITS |->
     SelectSeq(watches[lit],
               LAMBDA w : IF w.ref = BINARY
                          THEN ~RootTrue(lit) /\ ~RootTrue(w.blocking)
                          ELSE ~RootTrue(lit) /\ ~RootFalse(lit)
                               /\ w.ref < start)]

(* The clauses that have become binary are watched during the sweep,
   rewatch_clauses watches the large ones. *)
Rewatched(start, survivors, after) ==
  LET pairs == SelectSeq(survivors, BecomesBinary)
      sparse == FoldLeft(LAMBDA ws, r : WithWatchedPair(ws, Stripped(r)[1],
                                                       Stripped(r)[2], BINARY),
                         FlushedWatches(start), pairs)
  IN  FoldLeft(LAMBDA ws, r : WithWatchedPair(ws, after[r].lits[1],
                                              after[r].lits[2], r),
               sparse, [i \in 1..(Len(after) - start + 1) |-> start + i - 1])

(* Where users of the irredundant clauses may stop; 0 if they may not stop.
   An old one from 'start' on that is gone, or is none any more, is replaced
   by an upper bound, the beginning of the sweep. *)
LastIrredundant(start, remaining) ==
  LET irredundant == SelectSeq(remaining, LAMBDA r : ~IsRedundant(r))
  IN  IF irredundant # <<>> THEN start - 1 + Len(irredundant)
      ELSE IF start = 1 THEN 0
      ELSE IF lastIrredundant < start THEN lastIrredundant
      ELSE IF remaining = <<>> THEN 0
      ELSE start

(* kissat_sparse_collect. *)
SparseCollect(start, gone) ==
  LET survivors == Surviving(start, gone)
      remaining == Remaining(survivors)
      irredundant == SelectSeq(remaining, LAMBDA r : ~IsRedundant(r))
      after == SubSeq(clauses, 1, start - 1)
                 \o [i \in DOMAIN remaining |->
                       Clause(SortedLits(Stripped(remaining[i])),
                              IsRedundant(remaining[i]))]
  IN
  /\ clauses' = after
  /\ watches' = Rewatched(start, survivors, after)
  /\ assigned' = [v \in Vars |->
                    [assigned[v] EXCEPT
                       !.reason = Redirected(@, v, start, survivors)]]
  /\ firstReducible' = IF Len(irredundant) = Len(remaining) THEN 0
                       ELSE start + Len(irredundant)
  /\ lastIrredundant' = LastIrredundant(start, remaining)
  /\ lastLearned' = <<>>
  /\ UNCHANGED <<values, trail, frames, propagate, unflushed>>

-----------------------------------------------------------------------------
(***************************************************************************)
(* kissat_reduce.  If literals on the root level have not been flushed     *)
(* yet, it first backtracks, propagates and flushes the trail, and expects *)
(* no conflict; otherwise the trail stays and its reasons are kept.        *)
(***************************************************************************)
(* kissat_reducing; the number of conflicts it waits for is left open. *)
Reducing ==
  /\ reductions < MaxReductions
  /\ \E r \in DOMAIN clauses : clauses[r].redundant /\ ~clauses[r].garbage

(* kissat_compacting wants a share of fixed variables. *)
Compacting == {FALSE} \cup {TRUE : v \in {u \in Vars : values[u] # 0
                                                       /\ LEVEL(u) = 0}}

Reductions == {Reduction(IF c THEN 1 ELSE firstReducible, c) : c \in Compacting}

ReduceClauses(reduction) ==
  LET start == reduction.start
      reducible == Reducible(start)
  IN
  /\ reductions' = reductions + 1
  /\ flushing' = Idle
  /\ pc' = "propagate"
  /\ \/ /\ reduction.compact \/ reducible # {}
        /\ \E gone \in SUBSET reducible : SparseCollect(start, gone)
     \/ /\ ~reduction.compact
        /\ firstReducible' = FirstRedundant(start)
        /\ UNCHANGED <<trailVars, clauses, watches, lastLearned,
                       lastIrredundant>>

ReduceFlush(reduction) ==
  /\ unflushed > 0
  /\ Backtrack(0)
  /\ flushing' = reduction
  /\ pc' = "propagate"
  /\ UNCHANGED <<clauses, watches, arenaVars, reductions>>

ReduceAtOnce(reduction) ==
  /\ unflushed = 0
  /\ ReduceClauses(reduction)

ReduceStep ==
  \E reduction \in Reductions :
    reduction.start # 0 /\ (ReduceFlush(reduction) \/ ReduceAtOnce(reduction))

ReduceFlushed == flushing # Idle /\ ReduceClauses(flushing)
=============================================================================
