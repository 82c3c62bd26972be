----------------------------- MODULE Assignments -----------------------------
(***************************************************************************)
(* What ASSIGNMENT holds for a variable, in the solvers fast.c, basic.c    *)
(* and loop.c of src/labs/24-sat-smt-symex/sat-lab-monday/code.            *)
(***************************************************************************)
EXTENDS Cnf

UNASSIGNED == -1
FALSE_     == 0
TRUE_      == 1
=============================================================================
