----------------------------- MODULE FifoQueue -----------------------------
(***************************************************************************)
(* What libpi/libc/circular.h promises its clients ("simple circular FIFO  *)
(* Q", "returns 0 if full", "non-destructively peek"): a bounded queue of  *)
(* elements with one producer and one consumer.  contents is the queue,    *)
(* oldest element first; pending is what the producer has asked to push    *)
(* and is not yet in; got is the element most recently handed to the       *)
(* consumer by a pop or a peek.                                            *)
(***************************************************************************)
EXTENDS Naturals, Sequences

CONSTANTS Elem,     \* the set of queue elements (cqe_t)
          Zero,     \* the element cqe_mk() makes
          Capacity  \* how many elements the queue can hold

VARIABLES contents, pending, got

vars == <<contents, pending, got>>

Init == contents = <<>> /\ pending = <<>> /\ got = Zero

Ask == /\ pending = <<>> /\ pending' \in Seq(Elem)
       /\ UNCHANGED <<contents, got>>

Push == /\ pending # <<>> /\ Len(contents) < Capacity
        /\ contents' = Append(contents, Head(pending))
        /\ pending' = Tail(pending)
        /\ UNCHANGED got

(* The push returns 0.                                                     *)
Refuse == /\ pending # <<>> /\ Len(contents) = Capacity
          /\ pending' = <<>>
          /\ UNCHANGED <<contents, got>>

Pop == /\ contents # <<>>
       /\ got' = Head(contents)
       /\ contents' = Tail(contents)
       /\ UNCHANGED pending

Peek == /\ contents # <<>>
        /\ got' = Head(contents)
        /\ UNCHANGED <<contents, pending>>

Next == Ask \/ Push \/ Refuse \/ Pop \/ Peek

Spec == Init /\ [][Next]_vars
=============================================================================
