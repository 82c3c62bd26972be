----------------------------- MODULE MCBasicSat -----------------------------
(* BasicSat over the formulas of module SatInputs.                           *)
EXTENDS BasicSat, SatInputs
=============================================================================
