------------------------------- MODULE MCCdcl -------------------------------
(***************************************************************************)
(* Small formulas for Cdcl.  Between them they reach every branch of       *)
(* propagation and conflict analysis.                                      *)
(***************************************************************************)
EXTENDS Cdcl

(* Units learned while decisions stay: propagation has to visit again what a
   backtrack keeps. *)
Resume5 ==
  << <<-1, -3, 5>>, <<-1, -4, 5>>, <<-4, 1, -3>>, <<-5, -2, -4>>, <<2, -4>>,
     <<-2, 3, -5>>, <<-2, -1, -4>>, <<-3, 5, 2>>, <<-4, 3, 5>>, <<-1, 4, -3>>,
     <<-3, -4, 2>> >>

(* Conflicts in clauses that are not watched by their highest literals. *)
Rewatch5 ==
  << <<-5, -4, -1>>, <<-1, 3, 4, 2>>, <<3, -5, 1, 4>>, <<-1, -4, 5>>,
     <<-3, -1, -5, 4>>, <<1, 5, -3, -2>>, <<5, 3, -2, 1>>, <<5, 1, -3>>,
     <<-4, 3, 5, -2>>, <<-4, -1, -3, 5>>, <<-3, -5, 1>>, <<-1, 5, 2, 3>>,
     <<-5, 2, 4, -3>> >>

(* Literals assigned on a level below the current one. *)
Sparse5 ==
  << <<-5, -2, 1, 3>>, <<1, -3, 2>>, <<2, 5, 1>>, <<-2, -1, -4>>, <<2, -5, -3>>,
     <<5, -4, -1>>, <<-5, 1, -4>>, <<-4, 1>>, <<-1, 4, -2>>, <<-4, 2, -5>>,
     <<3, -1>> >>

(* Large clauses are learned, eagerly subsumed, and reasons are jumped. *)
Mixed5 ==
  << <<-5, 4, 3>>, <<-4, 2, 5>>, <<2, 1>>, <<-5, 4, 1>>, <<4, 5, -3>>,
     <<2, -4, -1, -3>>, <<4, -3, 2>>, <<5, 2, -3>>, <<-1, 5, -2>>,
     <<-5, -1, -2, -4>>, <<-3, -5, 2, -4>>, <<-5, 3, -1, 4>>, <<-5, -4, 3>>,
     <<-4, -5, 2>>, <<1, -3, 4, -5>>, <<-5, -1, -3, -4>>, <<-2, -5, -3>>,
     <<-3, -1>>, <<1, -2, 5>>, <<-5, 2, -3>>, <<1, 4, -2>>, <<5, 3>> >>

(* A learned clause is strengthened and takes the place of the last one. *)
Redundant5 == << <<-1, -3, 5>>, <<-2, 4, -3, -5>>, <<-1, -2, -3, -4>> >>

(* 3 is a failed literal; then 1 and 2 strengthen the long clause. *)
Failed5 == << <<-3, 4>>, <<-3, -4>>, <<3, -2, -1, 5>>, <<-2, -5>> >>

(* Two literals of one level are replaced by one that implies both, with the
   help of a literal of a lower level that is implied by the clause. *)
Shrunken9 ==
  << <<5, -1>>, <<6, -2, -5>>, <<7, -6>>, <<8, -6, -5>>, <<9, -3, -7, -1>>,
     <<-9, -3, -8>> >>

(* Two literals that can not be shrunken, nor minimized: the second one for
   the reason that was found with the first. *)
Poisoned9 ==
  << <<4, -1, -2>>, <<5, -1, -2>>, <<6, -4>>, <<7, -4, -5>>, <<-3, -7, 8>>,
     <<-3, -6, 9>>, <<-8, -9>> >>

(* A unit is learned while decisions stay and a large clause was learned
   before; on the root level that clause loses a literal while it is a
   reason. *)
Flushed7 ==
  << <<-3, 4>>, <<-3, 5>>, <<-4, -5, -1, 6>>, <<-6, 7>>, <<-6, -7>>,
     <<2, -3, -7>> >>

(* Redundant5, after another clause has been learned: an irredundant clause
   comes after a redundant one. *)
Moved9 ==
  Redundant5 \o << <<-8, 9>>, <<-9, -6, -7, -8>> >>

(* 1, 2, 3 is learned with the help of the second clause and then, as a
   redundant clause, subsumes it. *)
Promoted5 == << <<1, 3, 5>>, <<3, 4, 1, 2>>, <<2, -4, -5>> >>

(* 1, 2, 4 is learned with the help of the first clause and then implies it
   together with the last one. *)
Circular5 == << <<1, 2, 3>>, <<-3, 4, 5, 2>>, <<-3, 4, -5>>, <<-4, 3>> >>

Vivified5 == {Promoted5, Circular5}

(* Vivification yields a binary clause, a large one after a conflict, and one
   by instantiation that has to be unassigned to be watched. *)
Instantiated6 ==
  << <<-1, -5, 6>>, <<-2, -1>>, <<-4, -3, 2, 6>>, <<1, 2>>, <<-5, -2>>,
     <<2, -6>>, <<-4, 1, 5>> >>

(* Candidates that are reasons on the reused trail, subsumed, implied, or
   shrunken due to an implied literal. *)
Reused6 ==
  << <<-1, -3>>, <<-6, -5, -1>>, <<2, 6, -3>>, <<-6, 3, -5, -4>>, <<-1, -4>>,
     <<-3, 6>>, <<3, 1>> >>

(* A unit satisfies the next candidate or leaves only two of its literals. *)
Fixed6 ==
  << <<-2, -6>>, <<-3, -6>>, <<-3, -4, 5>>, <<2, 3>>, <<6, -2>>, <<-6, -5, 1>>,
     <<2, 4, 5, 3>> >>

Vivified6 == {Instantiated6, Reused6, Fixed6}

(* Lucky phases: all true, all false; two failed literals; all walks fail
   but the last, which refutes the formula; the second walk succeeds after
   the first has failed; all fail twice, the second formula with a unit left
   from the first time. *)
AllTrue3  == << <<1, -2, 3>>, <<-1, 2>>, <<-1, -2, 3>> >>
AllFalse3 == << <<-1, 2, -3>>, <<1, -2>>, <<-1, -3>> >>
Walked3   == << <<-2, -1, -3>>, <<2, -3>>, <<1, 3>>, <<-3, -2, 1>>, <<3, -1, 2>> >>
Refuted3  ==
  << <<1, -3, 2>>, <<-1, -2, 3>>, <<3, -1, 2>>, <<-2, -3>>, <<1, 3, 2>>,
     <<1, 3, -2>>, <<2, -3, -1>> >>
Walked5   ==
  << <<-4, -2, -1>>, <<5, -4, 1>>, <<-5, 3>>, <<-5, -4, 3>>, <<3, 1, 5>>,
     <<4, 3, -5>>, <<-3, 1, -5>>, <<3, 2>>, <<5, -3>> >>
Unlucky3  ==
  << <<3, -2, -1>>, <<-2, -3, -1>>, <<-3, 1, 2>>, <<1, 2, 3>>, <<-1, -3, 2>>,
     <<1, -3, -2>>, <<-1, 2, 3>>, <<-2, 3, 1>> >>
Unlucky5  ==
  << <<-1, -3, -5>>, <<-5, -2, -3>>, <<5, 3, -1>>, <<-1, 5>>, <<-3, -2, 5>>,
     <<-5, 4, 1, 2>>, <<-2, -1>>, <<3, -5, 4>>, <<3, 4>>, <<3, -4>>,
     <<-4, -1, 2>>, <<-3, 4, -2>>, <<-3, 5, 4>>, <<-4, -3>> >>

Luckies == {AllTrue3, AllFalse3, Walked3, Refuted3, Walked5, Unlucky3, Unlucky5}

Deduced9 == {Shrunken9, Poisoned9}
Trails == {Resume5, Rewatch5, Sparse5, Flushed7, Moved9} \cup Deduced9 \cup Vivified6
            \cup Luckies
Answers == {Mixed5, Redundant5, Failed5} \cup Vivified5 \cup Luckies

(* What is decided first: in cdcl_trail what leads to the cases above; in
   cdcl_answers 1, then 2, 3 or -4; then any. *)
Guided(f) ==
  CASE f \in Deduced9 -> << {1}, {2}, {3}, {4}, {5}, {6}, {7} >>
    [] f = Flushed7   -> << {1}, {6, -6}, {3}, {2}, {4}, {5}, {7} >>
    [] f = Moved9     -> << {6}, {7}, {8}, {1}, {-4, 2}, {3}, {9}, {5} >>
    [] OTHER          -> << {2, 3, 4}, {1} >>

Falsify4(f) ==
  CASE f = Promoted5 -> << {-1}, {-2}, {-3}, {4}, {5} >>
    [] f = Circular5 -> << {-4}, {-1}, {-2}, {3}, {5} >>
    [] OTHER         -> << {1}, {2, 3, -4} >>

VivifiedOnce(f) == IF f \in Vivified5 \cup Vivified6 THEN 1 ELSE 0

LuckyTwice(f) == IF f \in Luckies THEN 2 ELSE 0
=============================================================================
