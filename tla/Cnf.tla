-------------------------------- MODULE Cnf --------------------------------
(***************************************************************************)
(* Formulas in conjunctive normal form over the variables 1 .. NVars, as   *)
(* the DIMACS inputs of the solvers in src/labs/24-sat-smt-symex give      *)
(* them: a literal is a nonzero integer, -l its negation, a clause a set   *)
(* of literals and a formula a set of clauses.                             *)
(***************************************************************************)
EXTENDS Integers

CONSTANT NVars

ASSUME NVarsAssumption == NVars \in Nat \ {0}

Var     == 1 .. NVars
Literal == (-NVars .. NVars) \ {0}
VarOf(l) == IF l < 0 THEN -l ELSE l

(* A model is a set of literals that contains exactly one of l and -l.     *)
Models == {M \in SUBSET Literal : \A l \in Literal : l \in M <=> -l \notin M}

Satisfies(M, formula) == \A C \in formula : C \cap M # {}
Unsatisfiable(formula) == \A M \in Models : ~Satisfies(M, formula)
=============================================================================
