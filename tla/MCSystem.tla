------------------------------ MODULE MCSystem ------------------------------
(* An instance of System for TLC: what programs print are an innocent line,
   the start of the exit string, and nearly all of it. *)
EXTENDS System

MCPrints == {<<"x", "nl">>, <<"D">>, <<"D", "O", "N", "E", "!", "!", "!", "x">>}
=============================================================================
