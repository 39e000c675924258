# Kissat in TLA+

Kissat is a CDCL SAT solver in C (`src/src`, 205 files).  It is one sequential
program: what makes it hard is not concurrency but the amount of shared,
cached and lazily repaired state that its procedures hand to each other.
Trail, watch lists, reasons, decision queue, score heap and extension stack
are each changed by many procedures and each is *allowed* to be partly out of
date at times.  This directory models that state and the procedures that
change it, checks the models with TLC on small instances, and proves the
properties that do not depend on the size of the instance with TLAPS.

## Inventory

| Component | State | Operations | Talks to | What has to hold |
|---|---|---|---|---|
| Literals, clauses, watches (`literal.h`, `clause.c`, `watch.h`, `inline.h`) | arena of large clauses, watch lists with binary clauses inlined and blocking literals | new, connect, garbage, watch, unwatch | everything | each live large clause is watched by exactly its first two literals |
| Trail (`assign.c`, `backtrack.c`, `trail.c`, `frames.h`) | values, level and reason of variables, trail, frames, propagation position | assign, decide, backtrack, flush | propagation, analysis, decisions | literals above the root level are on the trail once; root values are for ever |
| Propagation (`propsearch.c`, `proplit.h`) | the watch list being visited | visit a watch | trail, watches | nothing is missed: no unit or false clause is left |
| Conflict analysis (`analyze.c`, `deduce.c`, `strengthen.c`, `learn.c`) | analyzed variables, resolvent, last learned clauses | force, resolve, strengthen, subsume, learn | trail, watches, database | conflicts are false and implied; what is learned is implied and new |
| Minimization, shrinking (`minimize.c`, `shrink.c`) | poisoned / removable / shrinkable marks | remove literals | analysis | the smaller clause is still implied |
| Search loop (`search.c`, `restart.c`) | result | loop, restart, stop | all of the above | answers are right; it ends |
| Decisions (`decide.c`, `queue.c`, `heap.c`, `bump.c`, `mode.c`, `reorder.c`) | VMTF queue, score heap, mode | bump, move to front, push, pop, switch, reuse trail, reorder | trail, flags | the next decision is an unassigned variable and the best one |
| Reduction and collection (`reduce.c`, `collect.c`, `trail.c`) | arena, reason marks, cached bounds into the arena | delete, move, redirect | reasons, watches | no reason or watch refers to a clause that is gone |
| Vivification (`vivify.c`) | candidate schedule, assumptions kept from the last candidate | assume, analyze, shrink, strengthen, subsume, promote, instantiate | trail, watches, database | learned clauses are implied; the trail is fit for search when it ends |
| Dense mode (`dense.c`, `propdense.c`, `watch.c`, `flags.c`) | full occurrence lists, root-level trail, flags of variables | connect, propagate, flush, resume watching | all inprocessing | after resuming nothing is left to propagate and no clause has an eliminated variable |
| Elimination (`eliminate.c`, `resolve.c`, `gates.c`, `ands.c`, `equivalences.c`, `ifthenelse.c`, `definition.c`) | gates, antecedents, resolvents, schedule | find a gate, resolve, connect, weaken | dense mode, extension stack, embedded solver | satisfiability is kept, also if it fails half way |
| Forward subsumption (`forward.c`) | candidates, one-literal connections | subsume, strengthen | elimination | clauses removed are implied; units found on the way are propagated everywhere |
| Fast elimination (`fastel.c`) | candidates, leftovers of binary clauses | count, strengthen, resolve, delete | dense mode, extension stack | as for elimination |
| Substitution (`substitute.c`) | representatives, binary implication graph | find components, substitute, push equivalences | watches, extension stack | satisfiability is kept, the stack stays right, rounds end |
| Congruence closure (`congruence.c`) | gates, their hash table, representatives, schedules of units and merged literals | extract, merge, simplify, rewrite, subsume | watches, then substitution | clauses keep their models; equal gates are merged at the end |
| Sweeping (`sweep.c`) | environment in the embedded solver, backbone candidates, partition, representatives | refine, refute, merge, substitute | embedded solver, dense lists, then substitution | satisfiability is kept although literals are replaced in lists that are being changed |
| Bounded variable addition (`factor.c`) | quotients, factors, fresh variables | match, introduce, remove | dense lists, decisions, extension | satisfiability is kept; fresh variables do not disturb the queue |
| Backbone, transitive reduction (`backbone.c`, `transitive.c`) | a trail of its own kind, units of a round | probe, remove | binary clauses | units are implied, and all are learned |
| Model extension (`weaken.c`, `extend.c`) | extension stack, values of eliminated variables | push, extend | import | the extended model satisfies the input |
| Embedded solver (`kitten.c`) | its own small CDCL with assumptions, status, cores | add, assume, solve, flip, core, shrink | sweeping, definitions | its answers, failed literals and cores are right |
| Lucky phases (`lucky.c`) | assumptions of the current walk | check, assume in order, flip, fail | trail, analysis, search | satisfying and refuting answers are right; the root level is left propagated |
| Local search (`walk.c`, `warmup.c`) | flips, break scores | flip, save best | saved phases | the saved assignment is the best one seen |
| Limits (`mode.c`, `kimits.c`, `reluctant.c`, `averages.c`, `tiers.c`, `rephase.c`) | counters | tick | search loop | everything scheduled happens again |
| Import, compaction (`import.c`, `compact.c`, `resize.c`) | external to internal maps | import, renumber | extension | maps stay inverse of each other |
| Proofs, checker (`proof.c`, `check.c`) | clause hash table | add, delete | database | lines mirror the changes |
| Input, output (`parse.c`, `file.c`, `application.c`, `options.c`, ...) | | | | not modelled |

There are no threads.  The only asynchronous event is the termination flag
(`terminate.h`), set by a signal handler and read at the loop heads.

## Modules

Search, one specification:

- `Literals` - literals, clauses as sets, satisfiability and entailment by
  enumeration of the total assignments.
- `Trail` - `values`, `assigned` (level, reason), `trail`, `frames`,
  `propagate`, `unflushed`.  `BacktrackAndAssign` is
  `kissat_backtrack_without_updating_phases` together with the assignments its
  caller makes; `KeptTrail` are the literals kept out of order.
- `Watching` - `clauses`, `watches`, and one action per branch of
  `PROPAGATE_LITERAL` for the watch at the head of `unvisited`.  The same
  actions serve vivification, which ignores the candidate clause.
- `Minimize` - what `kissat_minimize_clause` and `kissat_shrink_clause` make
  of the deduced clause, with the `removable` and `poisoned` verdicts that are
  cached from one literal to the next.
- `Analyze` - `kissat_analyze`: `AnalyzeForced` (one literal on the conflict
  level), the failed literal actions (conflict on level 1), resolution one
  reason per step, `Strengthen` (on-the-fly strengthening and subsumption) and
  `LearnUnit`, `LearnBinary`, `LearnLarge`.
- `Reduce` - `kissat_reduce` and the sparse collection: which clauses may go,
  flushing the trail, new binary clauses from stripped ones, moving clauses
  and redirecting reasons, the cached bounds `first_reducible` and
  `last_irredundant`, watching anew.
- `Vivify` - `kissat_vivify`: from one candidate to the next with reused
  assumptions, propagation, the analysis of `vivify_deduce`, and one action
  for everything that may become of a candidate.
- `Lucky` - `kissat_lucky`: the check of the clauses before all variables are set
  alike, and the four walks over the variables, one assumption per step.
- `Cdcl` - the loop of `kissat_search` and the specification `Spec`;
  `FairSpec` adds weak fairness of the loop body: it is a C loop, it runs
  until it returns; and the properties.  `MCCdcl` - formulas for TLC.
- `Satisfiability` - the abstract specification of a SAT solver: a clause
  database rewritten into ones with the same models, then the answer.
  Its guards say what a right answer is, so nothing is proved about it: what
  counts is that `Cdcl` implements it (property `Implements`).

`Trail`, `Watching`, `Minimize`, `Analyze`, `Reduce`, `Vivify`, `Lucky`, `Cdcl`
each
EXTEND the one before: they share one trail and one set of watch lists, and
what one leaves behind is what the next one starts from.

Decisions:

- `Queue` - the linked list with stamps and cached search position, as
  functions of a queue, with the fresh variables of `factor.c` that are put
  first.
- `Heap` - the binary heap, as functions of a heap; `ScoreHeap` drives it
  alone with arbitrary operations.
- `Decide` - which procedures touch the two structures and when, in focused
  and in stable mode.  Clauses are left out: any variable may be implied on
  any open level, as chronological backtracking allows, and any set of
  assigned variables may be analyzed.  Its last part are the properties.
  `MCDecide` - symmetry for TLC.
- `Vmtf` - the abstract queue: stamps only, no links.  `Decide` implements it
  (`ImplementsVmtf`).

Proofs (each state machine ends with its properties; theorems about it are in a
module of their own):

- `VmtfProofs` - the abstract queue.
- `PromiseProofs` - the heap in the hands of any user (`ScoreHeap`).
- `RecursionTheorems` - what a function defined by recursion along a rank, and
  a fold over a sequence or a set, are: the lemmas the others rest on.  Its
  instances put an operator of the model for the one that is folded.  The
  provers look through the definitions of every instance in every step, so it
  keeps to small libraries; induction itself is a hypothesis (`NatInduction`)
  that each user proves once (`Counting`).
- `HeapProofs` - the operators of `Heap`.
- `DecideProofs` - the operators of `Queue` on a linked list, the invariants of
  `Decide`, its decisions, and that it implements `Vmtf`.
- `CongruenceProofs` - the operators of `Closure` and `GateExtraction`, the
  meaning of clauses and gates in `Congruence`, and that no gate is lost.
- `KittenStateProofs` - the invariant of the embedded solver, and what keeps it:
  lists, clauses, assigning, propagating, and the calls of its users.
  `KittenProofs` - decisions, analysis, answers, and the theorems.

Inprocessing (all on the root level; a state machine with `pc`, since the
procedures are sequential and only their inner loops interleave with flushing
and propagation):

- `Database` - clauses as sets of literals, root-level values, flags
  `eliminate` and `eliminated`.  `PropagateFrom` is `kissat_dense_propagate`
  over explicit occurrence lists, because several procedures propagate over
  lists that are incomplete; `FlushUnits`, `ConnectLargeClauses` and
  `ResumeSparseMode` are the functions of those names.  `problem` holds the
  original clauses and the options.
- `Extension` - the stack `extend` and `kissat_extend`, one pushed clause per
  step.
- `Gates` - `kissat_find_gates`: equivalences, conjunctions, if-then-else,
  and definitions as any unsatisfiable core.
- `Resolve` - `eliminate_variable`: `StartElimination` counts, `FindGate`,
  one step per pair of clauses, `ConnectResolvent`, `WeakenClauses`,
  `MarkVariable`.
- `Forward` - `kissat_forward_subsume_during_elimination`, one clause per step.
- `FastElimination` - `kissat_fast_variable_elimination`, one pair per step.
- `Substitute` - `kissat_substitute`, one action per pass over the clauses.
- `Factor` - `kissat_factor`: which large clauses are connected, a step per
  fresh variable with the clauses it brings and those it replaces.
- `Backbone` - `kissat_transitive_reduction`, and `kissat_binary_clauses_backbone`
  one probe per step with the literals that stay assigned above.
- `Sweep` - `kissat_sweep`: one action to copy an environment and one per
  outcome of a call to the embedded solver; `SubstituteNext` is
  `substitute_connected_clauses` with its early exits.
- `Inprocess` - rounds, scheduling, and search reduced to `Learn`, `Solve`
  and `Refute`; `Spec`, and `FairSpec` with weak fairness of the one thread;
  and the properties.  `MCInprocess` - formulas for TLC.

`Inprocess` EXTENDS the modules of all procedures, since they work on the same
clauses, flags and extension stack.

Congruence closure:

- `Closure` - one record `c` with clauses, units, representatives, gates and
  their occurrences, and what happens to a gate when one of its inputs gets a
  value or is replaced.
- `GateExtraction` - which gates there are in the clauses.
- `Congruence` - `kissat_congruence`, one action per gate, unit or merged
  literal that is processed, and the properties.  `MCCongruence` - formulas.

What the closure hands on, binary clauses that make merged literals
equivalent, is what `Substitute` starts from.

Embedded solver:

- `Kitten` - its data: clauses with antecedents, watches, queue, values,
  assumptions, in one record `k`.
- `KittenAnalysis` - learning, failed assumptions, cores, flipping.
- `KittenSolver` - one action per call of the interface; solving goes on in
  steps and may be given up where the code looks for limits; and the
  properties.  `MCKitten` - problems.

`Gates` and `Sweep` use the embedded solver through what `AnswersRight` says
of it: any core, any model.

## What is abstracted

Search:

- A clause reference is an index into `clauses`; moving clauses in memory is
  renumbering.  Compaction is collection from the first clause on and renames
  no variables; what it does to queue and heap is the action `Compact` of
  `Decide`.
- Values of unassigned variables' `assigned` entries are dead in the code and
  fixed in the model.
- `searched` (where the search for a replacement watch begins) becomes a free
  choice among the replacements; `delayed` watches are pushed at once.
- Saved phases, glue, `used`, ticks, averages are left out; a restart may
  happen after any conflict (`sinceRestart`), with any number of levels
  reused, which covers both restart policies.  A reduction may happen
  whenever the loop comes around and there are redundant clauses, and may
  select any of them that are no reasons.
- Options: `jumpreasons = 1`; `chronolevels`, `minimize`, `shrink`,
  `minimizedepth`, `otfs`, `eagersubsume` and `classification.bigbig` are
  CONSTANTS.
- Lucky phases: the two calls follow each other; what preprocessing does in
  between is the subject of `Inprocess`.
- Vivification: the three tiers of redundant clauses are one, candidates come
  in any order, a round may end after any of them, and literals are counted
  when the candidates of a round have been simplified.

Decisions:

- In `Decide` scores are integers, the decay factor is 2, reorder weights are
  0 or 1, the order of variable indices is any order, root-level literals are
  not on `trail`, and after the start variables are activated on the root
  level only.

Inprocessing:

- In `Database` a clause is a set: duplicates of a clause are one clause, and
  a satisfied binary clause that is dropped from the list of one literal is
  dropped altogether.  The order of watch lists is a free choice of the next
  pair.
- The schedule of elimination is the set of variables with flag `eliminate`,
  tried in any order, and a round may stop at any time, which covers the
  effort limits.  The bound on additional clauses is a constant; what
  `set_next_elimination_bound` does to the flags is one of three outcomes.
- The candidates of fast elimination, of forward subsumption and of the
  connection of a clause by one literal are over-approximated where they
  depend on counts, ages and limits.
- Which core the embedded solver finds for a definition is a free choice
  among all unsatisfiable ones.  The search for it and the one for an
  if-then-else gate may give up, as they do at their limits (`definitionticks`,
  `eliminateocclim`): the steps are not counted, so `LimitedGates` has the
  gates of both searches and the possibility of none.
- The flags that schedule variables for elimination are set for the variables
  of clauses that become garbage, and for the removed literal alone where
  forward subsumption strengthens a clause.
- Each procedure of `problem.procedures` runs at most once; fast elimination
  before anything is learned or eliminated otherwise.
- Components of the binary implication graph are defined by reachability; the
  depth-first search that computes them is abstracted, but not which roots
  count as failed literals.
- Factoring: any factors that pay off may be tried, not those with the best
  counts and scores; the flags `factor` and the counts are left out.
- Backbone: literals are tried in any order; the candidate flags and limits
  are left out, and so is the option to watch large clauses after binary ones.
- Sweeping: the embedded solver answers with any model that there is; its
  cores yield, besides what is refuted, at most one more unit or the empty
  clause.  Candidates may be dropped at any time, which covers limits and
  flips that are accepted wrongly (see the findings).  An environment is
  complete up to depth 1 or 2, the limits on its size are not hit.  The
  schedule that is kept from one call to the next is left out.  Binary
  clauses rewritten in place do not mark variables for elimination, only
  clauses that become garbage do.

Congruence closure: the counts of occurrences that prune the search for
parities are left out where they cannot prune one; clauses with false literals,
which they do prune, are no candidates (`XorCandidates`).  Hash tables are replaced by a search among the gates that
are in the table, chains of proof lines, delays and limits are left out, and so
is code that is not compiled (`INDEX_BINARY_CLAUSES`, `INDEX_LARGE_CLAUSES`,
and all that is for `MERGE_CONDITIONAL_EQUIVALENCES` undefined).  Everything
that depends on addresses or hash values is taken in an order that the
constant `Eligible` leaves open.

Embedded solver: the hash table of external literals is the order of their
first occurrence, random numbers are choices, and ticks may run out at every
point where they are looked at.

## Runs

| Run | Question | Bounds and why they are enough |
|---|---|---|
| `cdcl_trail` | Does chronological backtracking keep trail, reasons and watches consistent, through reduction, vivification and lucky phases? | ten formulas over five to nine variables with decisions guided by `Preferred`, one for each of: re-watching of conflicts, literals kept out of order that must be propagated again, levels below the current one, collection that flushes the trail, that moves reasons and that turns clauses into binary ones, shrinking, a poisoned variable met again, instantiation, reused assumptions, root-level literals found by vivification.  `ChronoLevels = 0` makes every long backjump chronological.  Seven more formulas are made for lucky phases: each attempt succeeds on one, and flips and failed assumptions occur |
| `cdcl_answers` | Are conflicts, learned clauses and answers right, and does the search end? | five formulas over five variables that reach learning of large clauses, reason jumping, eager subsumption, strengthening to binary and large clauses, a redundant clause that takes the place of an irredundant one, and one promoted by vivification, and the seven for lucky phases.  Without minimization, so that more is left to subsume |
| `decide_focused` | Is the list a list and does it implement `Vmtf`? | four variables, four stamps: stamps are reassigned several times on every long path, and a fresh variable finds old stamps |
| `decide_modes` | Are decisions the best ones across mode switches, restarts, reordering, compaction and fresh variables? | three variables, no random decisions (`decide_focused` has them), `MaxScore = 2`, so rescaling happens after two bumps |
| `heap` | Is the heap right on its own? | six elements: the smallest size at which the element that fills a hole has to move up is six |
| `vmtf` | Do the proved invariants hold, and are they not vacuous? | four variables, six stamps |
| `inproc` | Do elimination, forward subsumption, fast elimination, substitution, factoring, transitive reduction, backbone probing and sweeping keep satisfiability and the way back to a model, and is the database fit for search afterwards? | 25 formulas over three to five variables, chosen among some hundred random ones so that each interleaving that the hazards name is reached: gates of every kind and with shortened clauses, units that satisfy clauses about to be resolved, limits hit half way, strengthening, leftovers, failed literals, representatives with values, a fresh variable that is eliminated or substituted again, lists that are left half way by sweeping.  Two rounds with forward subsumption; several procedures one after the other |
| `inproc_ends` | Do the rounds of substitution end? | the five formulas made for substitution |
| `congruence` | Is congruence closure sound and complete, and does it end? | sixteen formulas over six variables with AND, XOR and if-then-else gates, signs that have to be normalized, gates that degenerate when inputs become equal, opposite or fixed, and clauses that are only subsumed modulo representatives; terminated at any point |
| `kitten` | Are answers, failed assumptions and cores of the embedded solver right? | five problems over four variables, three calls to solve and three other calls in between: a core can be shrunk to, shuffled and solved again |
| `kitten_flip` | Does a model stay one when flips are accepted? (no) | a problem of four clauses, three flips |
| `kitten_shrink` | Does the solver stay fit for use when shrunk to an empty clause? (no) | three clauses |

Symmetry under permutation of variables is used where no module orders them.
Deadlock is checked everywhere except in the runs of the embedded solver, whose
user may call nothing more when the bounds `MaxSolves` and `MaxCalls` are used
up; the end of the others is an explicit stuttering action such as `Finished`
or `Satisfied`.

Other bounds: `LuckyCalls` (none, or the two calls one after the other),
`MaxReductions = 1`, `Vivifications` (at most one per formula),
`MaxStamp` (where the code has `UINT_MAX`, so that reassignment happens),
`MaxScore` (`1e150`), `OccurrenceLimit`, `ClauseLimit`, `FastOccurrences` and
`FactorSize` (options), `Vars` as the largest variable that factoring may
introduce (`EXTERNAL_MAX_VAR`), and `MaxDepth` of `Sweep`.

Fairness: only `FairSpec` has any, weak fairness of the loop body, since
nothing but the termination flag can stop the loop.  Termination of the search
then rests on `LearnedIsNew` and on restarts being separated by conflicts;
reductions and vivification are bounded.  `FairSpec` of `Inprocess` and of
`Congruence` is weak fairness of the only thread as well: the rounds of
substitution end since each one after the first removed a variable, congruence
closure since every merge leaves one representative less.

## What is proved

All theorems hold for every finite set of variables (or indices), every maximum
score, every maximum stamp that is at least the number of variables and, for
congruence closure, every set of formulas that satisfies `ProblemsAssumption`:
no clause is tautological, learned clauses are implied, and the root level can
be propagated without a conflict, all of which the solver establishes before
(the parser drops tautologies, `kissat_congruence` starts on a propagated root
level and not when a conflict was found there).

**The abstract queue** (`VmtfProofs`).  `Vmtf!Spec` implies `TypeOK`,
`StampsOrder` (stamps are different), `SearchCached` (the cached position is
current), `SearchPointer` (in focused mode nothing unassigned is behind it) and
the action property `OnlyLastOvertakes`.  The inductive invariant `IInv` is
their conjunction: `SearchPointer` alone is not inductive, since moving an
assigned variable off the cached position relies on stamps being different and
on the cached stamp being current.  The lemma about reassigned stamps
(`RankMonotone`) carries the wrap-around.

**Recursion and folds** (`RecursionTheorems`).  The models define functions by
recursion - the order of the queue from link to link, the way of an element up
or down the heap, the representative of a literal, what is implied on the root
level - and fold over sequences and sets.  Both are proved to be what their
equations say: a function that is defined along a rank in the natural numbers
exists and satisfies its equation (`RankRecursion`), and what holds for the
results of folding so far holds for the whole (`FoldLeftInduction`,
`FoldSetInduction`).  The rest of the
proofs only uses those equations, and induction in the form of a set of natural
numbers that holds 0 and is closed under successor.

**The heap** (`HeapProofs`, `PromiseProofs`).  Bubbling up repairs a heap
whose only element out of order is too large for its parent, bubbling down one
whose only such element is too small for its children; the proofs are about
the set of positions on the way of the element, which is a path along which
elements move by one.  So every operation of `Heap` turns an ordered heap
without duplicates into one, and puts on it, takes off it and rescores exactly
what it says.  It follows that every behaviour of `ScoreHeap` keeps the heap
ordered (`AlwaysOrdered`) and loses nothing but a maximum when a maximum is
popped (`LosesOnlyTheMaximum`).  What `kissat_pop_heap` does with the last
element, bubble it up and then down, is where both halves are needed.

**The queue** (`DecideProofs`).  `Ordered(q, S)` says that there is a sequence of
exactly the members of `S` along which the links of `q` lead from `first` to
`last` and back (`Linked`), and along which the stamps increase up to the one
given last (`Increasing`).  Each operator of `Queue` keeps it - dequeuing,
enqueuing with reassigned stamps, moving to front, putting fresh variables
first, compaction - and the recursive `Order` lists that sequence.

**Decisions** (`DecideProofs`).  The inductive invariant of `Decide` is

    IInv == State /\ Scores /\ Ordered(queue, Active) /\ SearchSound

`State` are the types, that exactly the variables on the trail have levels above
0 and the fixed ones level 0, that each open level has its decision, and which
phases of the loop have variables pending.  `Scores` says that the heap is
ordered, without duplicates and of active variables in *both* modes, and in
stable mode has all unassigned ones: a mode that neglects its heap must not
leave it broken for the next one.  `SearchSound` is not inductive without
`Ordered`: that backtracking restores the cached position rests on stamps being
different, and that a variable may be taken out of both structures rests on
`State`.  There is a lemma for each action and each part.  Consequences:

- `TypeCorrect`, `QueueCorrect`, `SearchCorrect`, `HeapCorrect`: the invariants
  `TypeOK`, `QueueLinked`, `SearchSound` and `HeapComplete` of the runs.
- `DecisionsBest`: every decision takes an unassigned variable with the last
  stamp or the largest score (`DecidesBest`).  In stable mode this is because
  popping assigned variables off the heap ends at an unassigned maximum, in
  focused mode since walking back from the cached position meets every
  unassigned variable.
- `VmtfImplemented`: `Decide!Spec` implements `Vmtf!Spec`
  (`ImplementsVmtf`).  Every action of `Decide` is an action of `Vmtf` or a
  stutter under the refinement mapping, which forgets the links and keeps
  stamps, assigned variables and cached position.  That `SearchSound` is
  inductive is not proved once more for the linked list: `VmtfProofs` is
  instantiated with the refinement mapping, and `NextIInv` of the abstract
  queue carries it over each step.

**Congruence closure** (`CongruenceProofs`).  With `F` the set of models of the
original formula, `Sane(F, c)` says that everything in the closure `c` is a
consequence: clauses, root-level literals, merges and gates hold in all of `F`,
and `F` is empty if `c` is inconsistent.  Each operator of `Closure` keeps it,
and so does each gate that `GateExtraction` finds, for conjunctions and
parities of any size.  Three things more are needed to make this inductive and
to get the other direction, that no model is gained:

    Inv == Sane(Originals, closure) /\ Committed(closure)
             /\ FaithfulTo(Originals, closure)
             /\ GatesFound /\ OccurrencesLead /\ ClausesStored

- `Committed`: the irredundant binary clauses and the units *alone* say that
  merged literals are equivalent.  Subsumption modulo representatives is sound
  only for that reason, because it removes large clauses that the merges may
  have come from.  `FaithfulTo` is what it keeps: every clause that is gone is
  implied by those left.
- `OccurrencesLead`: a gate on the occurrence list of a literal has that
  literal's variable among its inputs if it is an if-then-else.  This is a
  hidden assumption of `rewrite_ite_gate` and of `simplify_ite_gate`, whose last
  case takes for granted that some input has a value (and asserts it); while a
  literal is being replaced the lists of both its signs are ahead of the gates.
- `ClausesStored`: an irredundant candidate is still there, and no candidate is
  connected, so that no clause is removed by itself.

Consequences are `FormulaStaysEquivalent` (`ClausesEquivalent`) and
`GatesStayImplied` (`GatesImplied`).  `Eligible`, which stands for orders that
depend on addresses and hashing, is arbitrary in these theorems.

The other question is whether the closure finds everything.  The invariant is
`Inv /\ Complete` (`ClosureStaysFine`), and TLC checked `Complete` on the
formulas of the run `congruence` before it was proved.  Until clauses are
removed it says:

- `UpWell`: the root level is propagated, and every set of literals that
  propagation may end with agrees on merged literals.  This is about
  *propagation*, not about models, and it is what the code relies on: a
  conjunction whose inputs all became true has a true left-hand side by then, so
  that `skip_and_gate` drops it, because its clauses or those of the gates it
  came from have propagated it (`GateUpheld`).  Otherwise `update_and_gate`,
  which distinguishes one input from more, would keep a conjunction of none.
- `AllFine`: every gate is on the occurrence list of each of its inputs, and an
  input that has a value or was merged is among the units or the scheduled
  literals (`Pend`), unless it is of the variable that is being replaced.
- `Unique`: no two gates are the same function of the same inputs.
- `StageFine`: while the literals of a variable are replaced, the gates still to
  be visited are all that have the current one as input, and none has its
  negation once that was replaced.  `WorkFine` is what is known of the
  replacement: it has no value that is not pending and propagation agrees.
- `AllNormalized`: all gates, also garbage, have at least two inputs of different
  variables in hashing order, parities of variables only, and conditions and
  then-branches that are positive.

Each operator on a gate is shown to be an update of it (`Updates`): nothing else
changes, nothing scheduled is forgotten, and the gate is garbage or `Settled`
afterwards.  The cases that matter are those in which the gate changes its
kind, in particular an if-then-else that degenerates to a conjunction or a
parity.  Consequences are `GatesStayNormalized` (`TypeOK`) and
`ClosureIsComplete` (`ClosureComplete`).

**Embedded solver** (`KittenStateProofs`, `KittenProofs`).  For every set of
problems without empty clauses, any variables, any number of calls and any
orders in which clauses are shuffled: `AnswersAlwaysRight`
(`AnswersRight`: models, failed assumptions and cores), `ChainsAlwaysImplied`
(`ChainsImplied`: each learned clause follows from its antecedents, which come
before it) and `NothingEverMissed` (`NothingMissed`: propagation leaves no
clause false or unit).  `Consistency` is the inductive invariant they follow
from, which TLC checked first.  Its parts are

- `Static`, between any two steps: clauses without repeated variables, unit
  clauses exactly on their list, watch lists that consist of exactly the first
  two literals of each larger clause with blocking literals of that clause, the
  queue with nothing unassigned behind the search variable, values that are
  consistent, `Derived` (what a learned clause follows from), a core root that
  is a clause, failed assumptions that are assumptions;
- `FromUser`: the original clauses are the user's, by their ids;
- `Answered`, while the user has the turn: what the status says is true of the
  *original* clauses, also after later calls have flipped, cleared, shrunk or
  shuffled;
- `Searching`, while solving: levels increase along the trail (`TrailWell`),
  root-level values have unit clauses as reasons and are nowhere else
  (`ValuesExplained`), decisions below the number of assumptions are
  assumptions and every other literal is implied by earlier ones
  (`ReasonsWell`), `AssumptionsTrue`, the current conflict is false with a
  literal of the current level (`ConflictWell`), and `WatchesExcused`: a watched
  literal that is false and was propagated is excused by a true literal of its
  clause that was assigned *no later*, except on the current level while there
  is a conflict.  `NothingMissed` itself is not inductive: that it survives
  backtracking rests on the level of the excuse.

The steps that took most are those of conflict analysis, where the invariant is
about the inside of the loop over the trail: the clause gathered so far, the
literals that are open, and the fact that what was resolved implies the clause
(`FirstUIP`, going through the trail backwards), the search for the decisions
behind a failed assumption (`TraceFailed`), and the visit of a watch list, whose
watches are partly moved to other lists while it is being read
(`PropagateWatch`).  The set of watch lists is described by the *set* of clauses
each literal has to watch, which makes their order irrelevant.
The hypothesis `NonEmptyProblems` is needed: with an empty clause of the user
`InconsistentKept` fails after shrinking, which is the finding `kitten_shrink`.
`Shuffled` restricts the permutations `Orders` of a configuration to
sequences of the same elements, so nothing is assumed of `Orders`.

**Only model-checked.**  The invariants of `Cdcl` and `Inprocess`, and that
`Cdcl` implements `Satisfiability`: their proofs have yet to be written.  Those
of `Cdcl` can follow the pattern of the embedded solver, but its trail is not
ordered by levels, since backtracking is chronological, and its watches are
visited one step at a time.  Termination of the search, of substitution and of
congruence closure: liveness under fairness is beyond the prover.

## Findings

Both are in the embedded solver, and neither makes the answers of Kissat wrong.

- `kitten_flip` (`kitten.c:1787`): flipping a literal skips a clause whose
  blocking literal is true and leaves the clause watched by the flipped
  literal.  A later flip of the blocking literal does not see that clause, so
  three accepted flips turn a model of (-1 2) (-2 -3 4) (-3 -4 1) (-4 -2) into
  an assignment that falsifies one of them, while the status stays 10,
  "formula satisfied".  Sweeping uses flips only to drop candidates.
- `kitten_shrink` (`kitten.c:2129`): after shrinking to the core {empty
  clause}, `inconsistent` keeps its old reference, as the place where it is
  updated is reached only for reference 0, where `INVALID` is meant.

## Observations

The models are of the code as it is.  Places worth knowing of, where nothing
wrong follows:

- `fastel.c:861` gathers candidates with `not_lit = LIT (pivot)`, so both
  counts are of the positive literal.  Only the choice of candidates is
  affected, since `try_to_fast_eliminate` counts again.
- `fastel.c:124-130`: the `continue` for a satisfied large clause continues
  the loop over its literals.  `NoSatisfiedLarge` shows that no satisfied
  large clause is there when occurrences are counted.
- `eliminate.c:466` declares `last_round_eliminated` once more inside the
  loop, so that `complete` at line 544 depends on `remain` only.  The model
  allows every outcome for the flags.
- `vivify.c:680` declares `value` once more in
  `swap_first_literal_with_best_watch`; watches that are chosen badly are
  repaired by `reestablish_watch_invariant_for_candidate`, which instantiation
  needs in any case.
- `factor.c`: `next > initial` lets the first fresh literal through as well,
  and `next_factor` may count too little, as marks of an earlier match stay.
- `congruence.c`: subsumption looks at the occurrences of a literal that may
  be false, `rewrite_xor_gate` drops a gate whose left-hand side is the new
  literal even if the old one is no input, and units and equivalences among
  binary clauses are searched in one pass only.  All of it misses some
  simplification.
- `sweep.c`: replacing a literal leaves its list midway when a unit is found;
  what stays there is satisfied or removed by the propagation that follows.
  A backbone candidate that is fixed in the embedded solver is dropped and not
  learned.
- `reduce.c`: the cached `last_irredundant` falls back to an upper bound when
  its clause is gone.
- `compact.c`: `compact_queue` compares the search position with old indices
  after it was renamed, so the position may move on to later variables.  It
  never moves towards the front, which would lose decisions.
- `kitten.c`: `kitten_track_antecedents` (line 678) may be called after a
  refutation that learned nothing, as when the clauses 1 and -1 clash while
  units are assigned.  `inconsistent` then stays at a clause that is not empty
  and has no derivation, the next call to solve answers 20 at once, and the core
  is that clause alone.  All callers (`definition.c:104`, `sweep.c:103`,
  `kitten.c:2793`) track from the start, so the model takes it for a
  precondition; the proof of `AnswersRight` needs it.
- `kitten.c`: literals of the root level stay in learned clauses, assumptions
  stay registered after shrinking, and in a debug build solving again after a
  root-level conflict fails an assertion about levels in backtracking.

## Not modelled

- Local search: it only chooses assignments that are saved as phases.
- The maps between external and internal literals (import, the renumbering
  part of compaction): models identify them, so that the extension stack holds
  the literals of the clauses.
- Limits, averages, rephasing, reluctant doubling: where they decide that
  something happens, the models leave it open, which is more than they allow.
- Proofs and the checker, parsing, files, options, statistics, memory: input
  and output, or no state that a property is about.

## Plan

1. Core search and decisions (done).
2. Elimination, forward subsumption, fast elimination, substitution and model
   extension (done).
3. Reduction, collection, minimization, shrinking, vivification and lucky
   phases on the trail of `Cdcl` (done).
4. Congruence closure, sweeping, bounded variable addition, transitive
   reduction and backbone, the embedded solver (done).
5. Proofs: heap, queue, decisions and the refinement of `Vmtf` by the linked
   list, the meaning of clauses and gates in `Congruence` and that the closure
   is complete, answers, chains and propagation of the embedded solver (done);
   the meaning
   of clauses in the search, soundness of resolution, of pushing clauses and of
   extending a model, for any set of variables (next).
6. Import and renumbering together with model extension, the flip log of local
   search, reluctant doubling.
