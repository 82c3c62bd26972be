----------------------------- MODULE Allocator -----------------------------
(***************************************************************************)
(* What malloc and free promise: every block lies in the heap, has the     *)
(* bytes that were asked for, and shares none of them with another block.  *)
(***************************************************************************)
EXTENDS Naturals

CONSTANTS Heap,      \* the bytes blocks may be made of
          Requests   \* the sizes clients ask for

VARIABLE held        \* first byte of each block |-> its size

Bytes(b) == b .. b + held[b] - 1

Init == held = [b \in {} |-> 0]

Grant(b, n) ==
  /\ b .. b + n - 1 \subseteq Heap
  /\ \A a \in DOMAIN held : (b .. b + n - 1) \cap Bytes(a) = {}
  /\ held' = [a \in DOMAIN held \cup {b} |-> IF a = b THEN n ELSE held[a]]

Release(b) == held' = [a \in DOMAIN held \ {b} |-> held[a]]

Next == \/ \E b \in Heap, n \in Requests : Grant(b, n)
        \/ \E b \in DOMAIN held : Release(b)

Spec == Init /\ [][Next]_held
=============================================================================
