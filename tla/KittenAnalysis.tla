---------------------------- MODULE KittenAnalysis ----------------------------
(***************************************************************************)
(* What the embedded solver (kitten.c) concludes from clauses that became  *)
(* false: learned clauses, failed assumptions, inconsistency, and cores of *)
(* all three; also flipping of literals of a model.                        *)
(***************************************************************************)
EXTENDS Kitten

(***************************************************************************)
(* First unique implication point.  The state s of the analysis has the    *)
(* solver, the variables seen, in order, the learned clause with a place   *)
(* for the UIP, the jump level, the number of open literals, and the       *)
(* clauses resolved.                                                       *)
(***************************************************************************)
AnalyzeLiteral(s, lit) ==
  LET k     == s.kit
      v     == IDX(lit)
      level == k.levelOf[v]
      seen  == [s EXCEPT !.analyzed = Append(@, v)]
  IN  CASE v \in ToSet(s.analyzed) -> s
        [] v \notin ToSet(s.analyzed) /\ level = k.level -> [seen EXCEPT !.open = @ + 1]
        [] v \notin ToSet(s.analyzed) /\ level < k.level ->
             IF level > s.jump
             THEN [seen EXCEPT
                    !.jump   = level,
                    !.klause = IF Len(@) > 1 THEN Append([@ EXCEPT ![2] = lit], @[2])
                               ELSE Append(@, lit)]
             ELSE [seen EXCEPT !.klause = Append(@, lit)]

AnalyzeReason(s, ref) ==
  FoldLeft(AnalyzeLiteral, [s EXCEPT !.resolved = @ \cup {ref}], Klause(s.kit, ref).lits)

(* Going back on the trail: the literal is the UIP if it is the last one
   open, otherwise it is resolved with its reason. *)
AnalyzeAssigned(s, lit) ==
  CASE s.uip # 0 \/ IDX(lit) \notin ToSet(s.analyzed) -> s
    [] s.uip = 0 /\ IDX(lit) \in ToSet(s.analyzed) /\ s.open = 1 -> [s EXCEPT !.uip = lit]
    [] OTHER -> AnalyzeReason([s EXCEPT !.open = @ - 1], s.kit.reason[IDX(lit)])

FirstUIP(k, conflict) ==
  FoldLeft(AnalyzeAssigned,
           AnalyzeReason([kit |-> k, analyzed |-> <<>>, klause |-> <<0>>, jump |-> 0,
                          open |-> 0, resolved |-> {}, uip |-> 0], conflict),
           Reverse(k.trail))

Bump(k, analyzed) == FoldLeft(MoveToFront, k, analyzed)

Analyze(k, conflict) ==
  LET s       == FirstUIP(k, conflict)
      learned == NewLearned(Bump(k, s.analyzed), [s.klause EXCEPT ![1] = NOT(s.uip)],
                            s.resolved)
      ref     == Len(learned.klauses)
  IN  Assign(Backtrack(learned, s.jump), NOT(s.uip), ref)

(***************************************************************************)
(* Failed assumptions.  A false assumption is wrong on the root level, or  *)
(* the negation of another one, or else its reasons lead to assumptions.   *)
(***************************************************************************)
FalseAssumptions(k) == {i \in DOMAIN k.assumptions : IsFalse(k, k.assumptions[i])}
FailedUnits(k)      == {i \in FalseAssumptions(k) : k.levelOf[IDX(k.assumptions[i])] = 0}
FailedClashing(k)   == {i \in FalseAssumptions(k) : k.reason[IDX(k.assumptions[i])] = INVALID}
Earliest(k, is)     == k.assumptions[CHOOSE i \in is : \A j \in is : i <= j]

(* Mutant of TraceReason: the root level is left out. *)
TraceReasonAboveRoot(s, lit) ==
  LET ref    == s.kit.reason[IDX(lit)]
      others == {IDX(l) : l \in Lits(s.kit, ref)} \ s.seen
  IN  [s EXCEPT !.seen = @ \cup others, !.resolved = @ \cup {ref}]

(* The seen literals go back to decisions, which are assumptions; those of
   the root level are left to their unit reasons. *)
TraceReason(s, lit) ==
  LET k      == s.kit
      ref    == k.reason[IDX(lit)]
      others == {IDX(l) : l \in Lits(k, ref)} \ s.seen
  IN  [s EXCEPT !.seen     = @ \cup others,
                !.resolved = @ \cup {ref} \cup
                  {k.reason[v] : v \in {u \in others : k.levelOf[u] = 0}}]

TraceAssigned(s, lit) ==
  CASE IDX(lit) \notin s.seen -> s
    [] IDX(lit) \in s.seen /\ s.kit.reason[IDX(lit)] = INVALID ->
         [s EXCEPT !.klause = Append(@, NOT(lit))]
    [] OTHER -> TraceReason(s, lit)

TraceFailed(k, failed) ==
  FoldLeft(TraceAssigned,
           [kit |-> k, seen |-> {IDX(failed)}, klause |-> <<NOT(failed)>>, resolved |-> {}],
           Reverse(k.trail))

Failing(k) ==
  LET units    == FailedUnits(k)
      clashing == FailedClashing(k)
      failed   == Earliest(k, FalseAssumptions(k))
      s        == TraceFailed(k, failed)
      marked   == [k EXCEPT !.failed = @ \cup {failed} \cup
                     {NOT(s.klause[i]) : i \in 1..Len(s.klause)}]
      new      == NewLearned(marked, s.klause, s.resolved)
  IN  CASE units # {} ->
             [k EXCEPT !.failed  = @ \cup {Earliest(k, units)},
                       !.failing = k.reason[IDX(Earliest(k, units))]]
        [] units = {} /\ clashing # {} ->
             [k EXCEPT !.failed = @ \cup {Earliest(k, clashing), NOT(Earliest(k, clashing))}]
        [] OTHER ->
             IF Cardinality(s.resolved) = 1
             THEN [marked EXCEPT !.failing = CHOOSE ref \in s.resolved : TRUE]
             ELSE [new EXCEPT !.failing = Len(new.klauses)]

(***************************************************************************)
(* A clause is false on the root level.  If cores are asked for, the empty *)
(* clause is learned from it and the reasons of its literals, breadth      *)
(* first; the reasons are units by then.                                   *)
(***************************************************************************)
Reasons(s, i) ==
  IF i > Len(s.analyzed) THEN s
  ELSE LET ref == s.kit.reason[s.analyzed[i]]
           new == {IDX(l) : l \in Lits(s.kit, ref)} \ ToSet(s.analyzed)
       IN  [s EXCEPT !.analyzed = @ \o SetToSeq(new), !.resolved = @ \cup {ref}]

Inconsistent(k, ref) ==
  LET lits == Klause(k, ref).lits
      s0   == [kit |-> k, analyzed |-> [i \in 1..Len(lits) |-> IDX(lits[i])],
               resolved |-> {ref}]
      s    == FoldLeftDomain(Reasons, s0, k.queue)
  IN  IF ~k.antecedents THEN [k EXCEPT !.inconsistent = ref]
      ELSE NewLearned(k, <<>>, s.resolved)

(***************************************************************************)
(* Flipping a literal of a model: every clause it is watched in must be    *)
(* true otherwise, and is then watched by a true literal.                  *)
(***************************************************************************)
FlipWatch(s, watch) ==
  LET k     == s.kit
      lit   == s.lit
      ref   == watch.ref
      keep  == [s EXCEPT !.kept = Append(@, watch)]
      r     == FirstAfterWatches(k, ref, LAMBDA l : IsTrue(k, l))
  IN  CASE s.blocked \/ IsTrue(k, watch.blit) \/ IsTrue(k, OtherWatch(k, lit, ref)) -> keep
        [] OTHER -> IF r # 0 THEN [s EXCEPT !.kit = Replace(k, lit, ref, r)]
                    ELSE [keep EXCEPT !.blocked = TRUE]

Flip(k, l) ==
  LET lit     == IF IsTrue(k, l) THEN l ELSE NOT(l)
      s       == FoldLeft(FlipWatch, [kit |-> k, lit |-> lit, kept |-> <<>>, blocked |-> FALSE],
                          k.watches[lit])
      visited == [s.kit EXCEPT !.watches[lit] = s.kept]
  IN  IF s.blocked THEN visited
      ELSE [visited EXCEPT !.values = (@ \ {lit}) \cup {NOT(lit)}]

(***************************************************************************)
(* The core: the clauses the empty clause, or the clause over failed       *)
(* assumptions, was derived from.  Antecedents are older than what is      *)
(* derived from them, so one pass from new to old reaches all.             *)
(***************************************************************************)
AddAntecedents(s, ref) ==
  IF ref \in s.needed THEN [s EXCEPT !.needed = @ \cup Klause(s.kit, ref).antecedents] ELSE s

CoreOf(k, root) ==
  FoldLeft(AddAntecedents, [kit |-> k, needed |-> {root}],
           Reverse([i \in 1..Len(k.klauses) |-> i])).needed

ComputeClausalCore(k) ==
  LET root   == IF k.inconsistent # INVALID THEN k.inconsistent ELSE k.failing
      needed == IF root = INVALID THEN {} ELSE CoreOf(k, root)
  IN  [k EXCEPT !.klauses = [i \in 1..Len(@) |-> [@[i] EXCEPT !.core = i \in needed]],
                !.core    = needed,
                !.status  = 21]

(* What kitten_traverse_core_ids goes over. *)
CoreIds(k) == {Klause(k, ref).id : ref \in {r \in Originals(k) : Klause(k, r).core}}

(***************************************************************************)
(* Only the original clauses of the core stay, moved to the front; all     *)
(* that was learned and assigned is forgotten.  An empty original clause   *)
(* keeps the reference it had.                                             *)
(***************************************************************************)
KeepKlause(s, ref) ==
  IF ~Klause(s.kit, ref).learned /\ Klause(s.kit, ref).core
  THEN [s EXCEPT !.refs = Append(@, ref)] ELSE s

KeptRefs(k) ==
  FoldLeft(KeepKlause, [kit |-> k, refs |-> <<>>], [i \in 1..k.endOriginal |-> i]).refs

KeptInconsistent(k) ==
  LET c == Klause(k, k.inconsistent)
  IN  IF c.learned \/ c.lits # <<>> THEN INVALID ELSE k.inconsistent

Reconnect(k) == FoldLeftDomain(Connect, k, k.klauses)

ShrinkToClausalCore(k) ==
  LET refs  == KeptRefs(k)
      moved == [i \in 1..Len(refs) |-> [Klause(k, refs[i]) EXCEPT !.core = FALSE]]
  IN  [Reconnect([SearchLast(k) EXCEPT
         !.klauses = moved,
         !.endOriginal = Len(moved),
         !.units = <<>>,
         !.watches = [l \in LITS |-> <<>>],
         !.values = {}, !.trail = <<>>, !.propagated = 0, !.level = 0,
         !.core = {}, !.status = 0])
       EXCEPT !.inconsistent = KeptInconsistent(k)]

(***************************************************************************)
(* A new clause or assumption, or another call to solve, takes back the    *)
(* last answer.                                                            *)
(***************************************************************************)
(* Mutant of ResetAssumptions: failed assumptions stay marked. *)
ResetAssumptionsOnly(k) == [k EXCEPT !.assumptions = <<>>, !.failing = INVALID]

ResetAssumptions(k) ==
  [k EXCEPT !.assumptions = <<>>, !.failed = @ \ ToSet(k.assumptions), !.failing = INVALID]

ResetCore(k) ==
  [k EXCEPT !.klauses = [i \in 1..Len(@) |-> [@[i] EXCEPT !.core = FALSE]], !.core = {}]

ResetIncremental(k) ==
  LET undone == CompletelyBacktrack(k)
      free   == IF k.assumptions # <<>> THEN ResetAssumptions(undone) ELSE undone
      whole  == IF k.status = 21 THEN ResetCore(free) ELSE free
  IN  [whole EXCEPT !.status = 0]

Reused(k) == IF k.status # 0 THEN ResetIncremental(k) ELSE k
=============================================================================
