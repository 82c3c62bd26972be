----------------------------- MODULE MCLoopSat -----------------------------
(* LoopSat over the formulas of module SatInputs; loop.c ignores empty       *)
(* clauses, which these are without.                                         *)
EXTENDS LoopSat, SatInputs

MCInputs == {input \in AllInputs : <<>> \notin Range(input)}
=============================================================================
