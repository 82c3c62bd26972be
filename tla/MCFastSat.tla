----------------------------- MODULE MCFastSat -----------------------------
(* FastSat over the formulas of module SatInputs, with or without opposite   *)
(* unit clauses.                                                             *)
EXTENDS FastSat, SatInputs

CONSTANT OppositeUnits

MCInputs == {input \in AllInputs : OppositeUnits = HasOppositeUnits(input)}
=============================================================================
