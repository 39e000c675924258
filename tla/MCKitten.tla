------------------------------- MODULE MCKitten -------------------------------
(***************************************************************************)
(* Small problems for the embedded solver.                                 *)
(***************************************************************************)
EXTENDS KittenSolver

(* An inconsistent environment, and a clause that is not needed for that. *)
Definition == [clauses |-> << <<1, 2>>, <<1>>, <<-1, 3>>, <<2, 3>>, <<-1, -2>>, <<2, -3>> >>,
               atLeast |-> 5, assumable |-> {}]

(* All clauses over three variables. *)
Conflicts == [clauses |-> << <<1, 2, 3>>, <<1, 2, -3>>, <<1, -2, 3>>, <<1, -2, -3>>,
                             <<-1, 2, 3>>, <<-1, 2, -3>>, <<-1, -2, 3>>, <<-1, -2, -3>> >>,
              atLeast |-> 7, assumable |-> {}]

(* Assumptions that are implied, clash, or fail together. *)
Assumptions == [clauses |-> << <<-1, 2>>, <<-2, -3, 4>>, <<-3, -4, 1>>, <<-4, -2>> >>,
                atLeast |-> 3, assumable |-> {1, 3, -3}]

Chain == [clauses |-> << <<1, 2, 3, 4>>, <<-1, 3, 4>>, <<-2, -3, 1>>, <<-4, 2, -1>> >>,
          atLeast |-> 3, assumable |-> {-3, -4}]

(* Assumptions that fail on the root level, or with its help. *)
Units == [clauses |-> << <<1>>, <<-1, -2, 3>>, <<-3, -4>> >>,
          atLeast |-> 3, assumable |-> {-1, 2, 4}]

(* With an empty clause, as test_kitten_assumption_one_clause adds one. *)
Empty == [clauses |-> << <<1, 2>>, <<>>, <<-1>> >>, atLeast |-> 3, assumable |-> {}]

MCProblems    == {Definition, Conflicts, Assumptions, Chain, Units}
FlipProblems  == {Assumptions}
EmptyProblems == {Empty}

MCOrders(s) == {s, Reverse(s)}
MCPhases    == {{}, {2, 3}}
=============================================================================
