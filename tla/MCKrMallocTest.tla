--------------------------- MODULE MCKrMallocTest ---------------------------
(* KrMalloc, and the allocator as 1-malloc/2-test-malloc.c watches it.      *)
EXTENDS KrMalloc, TLC

VARIABLE p0   \* size |-> the first block of that size an all-free heap gave

TestInit == Init /\ p0 = [n \in {} |-> 0]

Granted == DOMAIN live' \ DOMAIN live
FromAllFree == live = <<>> /\ Granted # {}

TestNext == Next /\ p0' = IF FromAllFree THEN p0 @@ (nbytes :> Granted) ELSE p0

TestSpec == TestInit /\ [][TestNext]_<<vars, p0>>

(* "reallocates same: makes sure that the base pointer is the same each     *)
(* time (so all got freed)": a size asked of an all-free heap gets the      *)
(* block it got before.                                                     *)
SameBase ==
  [][FromAllFree /\ nbytes \in DOMAIN p0 => Granted = p0[nbytes]]_<<vars, p0>>
=============================================================================
