-------------------------------- MODULE Queue --------------------------------
(***************************************************************************)
(* The variable move-to-front queue of queue.c and inlinequeue.h: a doubly *)
(* linked list of variables, each with the stamp of the moment it was      *)
(* enqueued, and 'search', a cached position from which the next decision  *)
(* variable is looked for towards the front of the list.  The operators    *)
(* are functions of a queue; 'assigned' is the set of variables that have  *)
(* a value.                                                                *)
(***************************************************************************)
EXTENDS Integers, Sequences, FiniteSets, SequencesExt

CONSTANTS
  Vars,         \* the variables
  DISCONNECT,   \* no variable
  MaxStamp      \* the largest stamp, UINT_MAX in the code

ASSUME QueueVarsAssumption == IsFiniteSet(Vars) /\ DISCONNECT \notin Vars

(* There are fewer variables than stamps (EXTERNAL_MAX_VAR in literal.h). *)
ASSUME MaxStampAssumption == MaxStamp \in Nat /\ Cardinality(Vars) <= MaxStamp

DISCONNECTED(idx) == idx = DISCONNECT

Detached == [prev |-> DISCONNECT, next |-> DISCONNECT, stamp |-> 0]

(* kissat_init_queue. *)
InitQueue == [links  |-> [v \in Vars |-> Detached],
              first  |-> DISCONNECT,
              last   |-> DISCONNECT,
              stamp  |-> 0,
              search |-> [idx |-> DISCONNECT, stamp |-> 0]]

(* The variables of the queue from first to last. *)
Order(q) ==
  LET from[v \in Vars \cup {DISCONNECT}] ==
        IF DISCONNECTED(v) THEN <<>> ELSE <<v>> \o from[q.links[v].next]
  IN  from[q.first]

(* The elements of seq that are in S, in their order. *)
Among(seq, S) ==
  LET kept[i \in 0..Len(seq)] ==
        IF i = 0 THEN <<>>
        ELSE IF seq[i] \in S THEN Append(kept[i - 1], seq[i]) ELSE kept[i - 1]
  IN  kept[Len(seq)]

(* kissat_update_queue. *)
UpdateQueue(q, idx) ==
  [q EXCEPT !.search = [idx |-> idx, stamp |-> q.links[idx].stamp]]

(* kissat_reassign_queue_stamps: stamps 1, 2, ... in the order of the list. *)
ReassignStamps(q) ==
  LET order     == Order(q)
      restamped == [q EXCEPT
        !.stamp = Len(order),
        !.links = [v \in Vars |->
                     IF v \in ToSet(order)
                     THEN [@[v] EXCEPT !.stamp =
                             CHOOSE i \in DOMAIN order : order[i] = v]
                     ELSE @[v]]]
  IN  IF DISCONNECTED(q.search.idx) THEN restamped
      ELSE UpdateQueue(restamped, q.search.idx)

(* kissat_dequeue_links. *)
DequeueLinks(q, idx) ==
  LET prev == q.links[idx].prev
      next == q.links[idx].next
      cut  == [q EXCEPT !.links[idx].prev = DISCONNECT,
                        !.links[idx].next = DISCONNECT]
      left == IF DISCONNECTED(prev) THEN [cut EXCEPT !.first = next]
              ELSE [cut EXCEPT !.links[prev].next = next]
  IN  IF DISCONNECTED(next) THEN [left EXCEPT !.last = prev]
      ELSE [left EXCEPT !.links[next].prev = prev]

(* Mutant of EnqueueLinks: the stamp wraps around. *)
EnqueueLinksWrapping(q, idx) ==
  LET tail == IF DISCONNECTED(q.last) THEN [q EXCEPT !.first = idx]
              ELSE [q EXCEPT !.links[q.last].next = idx]
      stamp == (q.stamp + 1) % (MaxStamp + 1)
  IN  [tail EXCEPT !.links[idx].prev = q.last, !.last = idx,
                   !.stamp = stamp, !.links[idx].stamp = stamp]

(* kissat_enqueue_links. *)
EnqueueLinks(q, idx) ==
  LET tail == IF DISCONNECTED(q.last) THEN [q EXCEPT !.first = idx]
              ELSE [q EXCEPT !.links[q.last].next = idx]
      linked == [tail EXCEPT !.links[idx].prev = q.last, !.last = idx]
  IN  IF q.stamp = MaxStamp THEN ReassignStamps(linked)
      ELSE [linked EXCEPT !.stamp = @ + 1, !.links[idx].stamp = q.stamp + 1]

(* kissat_enqueue. *)
Enqueue(q, idx, assigned) ==
  LET enqueued == EnqueueLinks(q, idx)
  IN  IF idx \in assigned THEN enqueued ELSE UpdateQueue(enqueued, idx)

(* The first half of kissat_dequeue: the cached position leaves idx. *)
SearchWithout(q, idx) ==
  LET prev == q.links[idx].prev
      next == q.links[idx].next
  IN  IF q.search.idx # idx THEN q
      ELSE IF ~DISCONNECTED(next) THEN UpdateQueue(q, next)
      ELSE IF ~DISCONNECTED(prev) THEN UpdateQueue(q, prev)
      ELSE [q EXCEPT !.search = [idx |-> DISCONNECT, stamp |-> 0]]

(* kissat_dequeue. *)
Dequeue(q, idx) == DequeueLinks(SearchWithout(q, idx), idx)

(* Mutant of MoveToFront: the cached position does not follow an unassigned
   variable. *)
MoveToFrontOnly(q, idx, assigned) ==
  IF idx = q.last THEN q
  ELSE EnqueueLinks(DequeueLinks(SearchWithout(q, idx), idx), idx)

(* kissat_move_to_front: an assigned variable must not take the cached
   position along, an unassigned one becomes the cached position. *)
MoveToFront(q, idx, assigned) ==
  IF idx = q.last THEN q
  ELSE LET prev  == q.links[idx].prev
           kept  == IF idx \in assigned /\ q.search.idx = idx
                    THEN UpdateQueue(q, IF DISCONNECTED(prev)
                                        THEN q.links[idx].next ELSE prev)
                    ELSE q
           moved == EnqueueLinks(DequeueLinks(kept, idx), idx)
       IN  IF idx \in assigned THEN moved ELSE UpdateQueue(moved, idx)

(* last_enqueued_unassigned_variable: the variable ... *)
LastEnqueuedUnassigned(q, assigned) ==
  LET from[v \in Vars \cup {DISCONNECT}] ==
        IF v \notin assigned THEN v ELSE from[q.links[v].prev]
  IN  from[q.search.idx]

(* ... and the queue that remembers it. *)
SearchLastEnqueuedUnassigned(q, assigned) ==
  UpdateQueue(q, LastEnqueuedUnassigned(q, assigned))

(* Mutant of AddBackToQueue: the cached position is not moved. *)
LeaveQueue(q, idx) == q

(* add_unassigned_variable_back_to_queue. *)
AddBackToQueue(q, idx) ==
  IF q.links[idx].stamp > q.search.stamp THEN UpdateQueue(q, idx) ELSE q

(* A variable out of the list becomes its first one. *)
PutFirst(q, idx) ==
  LET head == IF DISCONNECTED(q.first) THEN [q EXCEPT !.last = idx]
              ELSE [q EXCEPT !.links[q.first].prev = idx]
  IN  [head EXCEPT !.links[idx].next = q.first, !.first = idx]

(* Mutants of UnbumpFresh: the stamps are not reassigned, or the cached
   position is not reset. *)
UnbumpFreshUnstamped(q, fresh) ==
  LET dequeued == FoldLeft(DequeueLinks, q, fresh)
      first == FoldLeft(PutFirst, dequeued, fresh)
  IN  UpdateQueue(first, first.last)

UnbumpFreshCached(q, fresh) ==
  LET dequeued == FoldLeft(DequeueLinks, q, fresh)
  IN  ReassignStamps(FoldLeft(PutFirst, dequeued, fresh))

(* adjust_scores_and_phases_of_fresh_variables: all fresh variables leave the
   list, without touching the cached position, and go in front of it. *)
UnbumpFresh(q, fresh) ==
  LET dequeued == FoldLeft(DequeueLinks, q, fresh)
      stamped  == ReassignStamps(FoldLeft(PutFirst, dequeued, fresh))
  IN  UpdateQueue(stamped, stamped.last)

(* compact_queue: stamps as above.  An element whose old index is the new one
   of the cached position is taken for it in turn, so that the cached position
   may end up at any element behind the one where it was. *)
CompactedQueues(q) ==
  LET behind == {v \in ToSet(Order(q)) : q.links[v].stamp >= q.search.stamp}
  IN  IF DISCONNECTED(q.first) THEN {ReassignStamps(q)}
      ELSE {UpdateQueue(ReassignStamps(q), v) : v \in behind}

(* Mutant of ResetSearchOfQueue: the cached position is kept. *)
KeepSearchOfQueue(q) == q

(* kissat_reset_search_of_queue. *)
ResetSearchOfQueue(q) == UpdateQueue(q, q.last)
=============================================================================
