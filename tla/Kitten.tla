------------------------------- MODULE Kitten -------------------------------
(***************************************************************************)
(* The data of the embedded solver (kitten.c) and what its functions do to *)
(* it.  Clauses are never deleted before the formula is shrunk to a core,  *)
(* so a reference is a position in the sequence of clauses.  A clause is   *)
(* [id, lits, learned, antecedents, core]: its first two literals are the  *)
(* watched ones, and antecedents are the references it was derived from.   *)
(*                                                                         *)
(* The solver knows a variable from the moment it first occurs; its place  *)
(* in the decision queue stands for its internal index, its link and its   *)
(* stamp.  Zero stands for no clause.                                      *)
(***************************************************************************)
EXTENDS Literals, SequencesExt

INVALID == 0

Emptied ==
  [status       |-> 0,
   antecedents  |-> FALSE,    \* whether they are tracked
   learned      |-> FALSE,    \* whether anything was learned
   klauses      |-> <<>>,
   endOriginal  |-> 0,        \* no original clause is after this position
   units        |-> <<>>,     \* references of unit clauses
   watches      |-> [l \in LITS |-> <<>>],
   values       |-> {},       \* the true literals
   level        |-> 0,
   levelOf      |-> [v \in Vars |-> 0],
   reason       |-> [v \in Vars |-> INVALID],
   trail        |-> <<>>,
   propagated   |-> 0,
   phases       |-> {},       \* the variables with phase 1, decided false
   queue        |-> <<>>,
   search       |-> 0,        \* where decisions start to look
   assumptions  |-> <<>>,
   failed       |-> {},
   failing      |-> INVALID,
   inconsistent |-> INVALID,
   core         |-> {}]

IsTrue(k, l)  == l \in k.values
IsFalse(k, l) == NOT(l) \in k.values
Unassigned(k) == {v \in ToSet(k.queue) : ~IsTrue(k, v) /\ ~IsFalse(k, v)}

Klause(k, ref) == k.klauses[ref]
Lits(k, ref)   == ToSet(Klause(k, ref).lits)
Originals(k)   == {ref \in 1..k.endOriginal : ~Klause(k, ref).learned}

(***************************************************************************)
(* The decision queue.  The search variable is kept by name, so moving     *)
(* others does not change it.                                              *)
(***************************************************************************)
Stamp(k, v) == CHOOSE i \in 1..Len(k.queue) : k.queue[i] = v

Enqueue(k, v)     == [k EXCEPT !.queue = Append(@, v)]
Dequeue(k, v)     == [k EXCEPT !.queue = RemoveAt(@, Stamp(k, v))]
MoveToFront(k, v) == IF v = Last(k.queue) THEN k ELSE Enqueue(Dequeue(k, v), v)
SearchLast(k)     == [k EXCEPT !.search = Last(k.queue)]

(* A variable is enqueued when it is seen for the first time. *)
Import(k, lit) ==
  IF IDX(lit) \in ToSet(k.queue) THEN k ELSE SearchLast(Enqueue(k, IDX(lit)))

(***************************************************************************)
(* Clauses.                                                                *)
(***************************************************************************)
Watch(k, ref, i) ==
  LET lits == Klause(k, ref).lits
  IN  [k EXCEPT !.watches[lits[i]] =
         Append(@, [ref |-> ref, blit |-> lits[3 - i]])]

Connect(k, ref) ==
  CASE Len(Klause(k, ref).lits) = 0 ->
         IF k.inconsistent = INVALID THEN [k EXCEPT !.inconsistent = ref] ELSE k
    [] Len(Klause(k, ref).lits) = 1 -> [k EXCEPT !.units = Append(@, ref)]
    [] OTHER -> Watch(Watch(k, ref, 1), ref, 2)

NewOriginal(k, id, lits) ==
  LET added == [k EXCEPT !.klauses = Append(@,
                 [id |-> id, lits |-> lits, learned |-> FALSE,
                  antecedents |-> {}, core |-> FALSE])]
      ref   == Len(added.klauses)
  IN  [Connect(added, ref) EXCEPT !.endOriginal = ref]

NewLearned(k, lits, resolved) ==
  LET added == [k EXCEPT
                 !.klauses = Append(@,
                   [id |-> 0, lits |-> lits, learned |-> TRUE,
                    antecedents |-> IF k.antecedents THEN resolved ELSE {},
                    core |-> FALSE]),
                 !.learned = TRUE]
  IN  Connect(added, Len(added.klauses))

(***************************************************************************)
(* Assigning.  A literal implied on the root level is learned as a unit,   *)
(* which is its reason, so the trail can be dropped there.                 *)
(***************************************************************************)
(* Mutant of Assign: the unit learned on the root level forgets the units
   that made its literal true. *)
AssignForgettingUnits(k, lit, reason) ==
  LET v      == IDX(lit)
      isUnit == k.level = 0 /\ Len(Klause(k, reason).lits) > 1
      known  == IF isUnit THEN NewLearned(k, <<lit>>, {reason}) ELSE k
  IN  [known EXCEPT
        !.values     = @ \cup {lit},
        !.phases     = IF lit > 0 THEN @ \ {v} ELSE @ \cup {v},
        !.trail      = Append(@, lit),
        !.levelOf[v] = k.level,
        !.reason[v]  = IF isUnit THEN Len(known.klauses) ELSE reason]

Assign(k, lit, reason) ==
  LET v      == IDX(lit)
      isUnit == k.level = 0 /\ Len(Klause(k, reason).lits) > 1
      others == {k.reason[IDX(l)] : l \in Lits(k, reason) \ {lit}}
      known  == IF isUnit THEN NewLearned(k, <<lit>>, others \cup {reason}) ELSE k
  IN  [known EXCEPT
        !.values     = @ \cup {lit},
        !.phases     = IF lit > 0 THEN @ \ {v} ELSE @ \cup {v},
        !.trail      = Append(@, lit),
        !.levelOf[v] = k.level,
        !.reason[v]  = IF isUnit THEN Len(known.klauses) ELSE reason]

(* Mutant of Unassign: the search variable stays. *)
UnassignOnly(k, lits) == [k EXCEPT !.values = @ \ (lits \cup {NOT(l) : l \in lits})]

(* Variables in the queue behind the search variable have to be assigned. *)
Unassign(k, lits) ==
  LET behind == {i \in 1..Len(k.queue) : k.queue[i] \in {IDX(l) : l \in lits}}
      latest == CHOOSE i \in behind : \A j \in behind : j <= i
  IN  [k EXCEPT !.values = @ \ (lits \cup {NOT(l) : l \in lits}),
                !.search = IF lits # {} /\ latest > Stamp(k, @)
                           THEN k.queue[latest] ELSE @]

Backtrack(k, jump) ==
  LET onJump == {i \in 1..Len(k.trail) : k.levelOf[IDX(k.trail[i])] = jump}
      size   == CHOOSE i \in onJump \cup {0} : \A j \in onJump : j <= i
      undone == {k.trail[i] : i \in size + 1 .. Len(k.trail)}
  IN  [Unassign(k, undone) EXCEPT !.trail = SubSeq(@, 1, size),
                                  !.propagated = size,
                                  !.level = jump]

(* Root-level literals are on the trail or only in the unit clauses. *)
CompletelyBacktrack(k) ==
  LET units  == {Klause(k, k.units[i]).lits[1] : i \in 1..Len(k.units)}
      undone == ToSet(k.trail) \cup (units \cap k.values)
  IN  [Unassign(k, undone) EXCEPT !.trail = <<>>, !.propagated = 0, !.level = 0]

(***************************************************************************)
(* Looking for a literal to watch instead of lit.  The blocking literal is *)
(* any other literal of the clause, once watched with it.                  *)
(***************************************************************************)
OtherWatch(k, lit, ref) ==
  LET lits == Klause(k, ref).lits IN IF lits[1] = lit THEN lits[2] ELSE lits[1]

Replace(k, lit, ref, r) ==
  LET lits == Klause(k, ref).lits
      k1   == [k EXCEPT !.klauses[ref].lits =
                 [lits EXCEPT ![1] = OtherWatch(k, lit, ref), ![2] = lits[r], ![r] = lit]]
  IN  Watch(k1, ref, 2)

FirstAfterWatches(k, ref, P(_)) ==
  SelectInSubSeq(Klause(k, ref).lits, 3, Len(Klause(k, ref).lits), P)

(* One watch of a literal that has become false; s is
   [kit, lit, kept, conflict], the watches kept and the clause that is false. *)
PropagateWatch(s, watch) ==
  LET k     == s.kit
      lit   == s.lit
      ref   == watch.ref
      keep  == [s EXCEPT !.kept = Append(@, watch)]
      other == OtherWatch(k, lit, ref)
      r     == FirstAfterWatches(k, ref, LAMBDA l : ~IsFalse(k, l))
  IN  CASE s.conflict # INVALID \/ IsTrue(k, watch.blit) -> keep
        [] OTHER ->
           CASE IsTrue(k, other) ->
                  [keep EXCEPT !.kept[Len(keep.kept)].blit = other]
             [] ~IsTrue(k, other) /\ r # 0 -> [s EXCEPT !.kit = Replace(k, lit, ref, r)]
             [] IsFalse(k, other) /\ r = 0 -> [keep EXCEPT !.conflict = ref]
             [] OTHER -> [keep EXCEPT !.kit = Assign(k, other, ref)]

PropagateLiteral(k) ==
  LET lit == NOT(k.trail[k.propagated + 1])
      s   == FoldLeft(PropagateWatch,
                      [kit |-> k, lit |-> lit, kept |-> <<>>, conflict |-> INVALID],
                      k.watches[lit])
  IN  [kit |-> [s.kit EXCEPT !.watches[lit] = s.kept, !.propagated = @ + 1],
       conflict |-> s.conflict]
=============================================================================
