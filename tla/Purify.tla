------------------------------- MODULE Purify -------------------------------
(* The Purify checker, a client of memory tracing
   (src/labs/11-memcheck-trap/code/checker-purify.c).  The checking allocator it
   calls is not in the repository in the form it needs (libpi/include/ckalloc.h):
   it hands out a block that is not allocated and panics on a bad free. *)
EXTENDS Memtrace

CONSTANT Block     \* blocks, each named by the address of its data; the other
                   \* heap addresses are headers, red zones or never allocated

ASSUME BlockAssumption == Block \subseteq Heap

VARIABLE blocks

PurifyInit == blocks = [b \in Block |-> "unused"]

PurifyReset == blocks' = [b \in Block |-> "unused"]

Alloced == {b \in Block : blocks[b] = "alloced"}

\* ck_ptr_is_alloced
Legal(a) == a[1] \in Alloced

purify_init == InitChecker("purify") /\ UNCHANGED blocks

\* purify_alloc_raw and purify_free_raw up to the call of the allocator, which
\* reads and writes the headers of the heap.
EnterAllocator ==
  /\ Running /\ Inited
  /\ memtrace_trap_disable
  /\ cpu' \in {"ckalloc", "ckfree"}
  /\ UNCHANGED <<client, mode, brk, pending, blocks>>

\* The allocator touches the heap: a trap here would be reported as an error of
\* the program.
TouchesHeap == IF trap THEN "broken" ELSE "run"

\* mutant: trapping is not turned on after the allocator.
LeaveAllocator_untraced ==
  /\ cpu' = TouchesHeap
  /\ UNCHANGED <<client, mode, trap, brk, pending>>

LeaveAllocator ==
  /\ memtrace_trap_enable
  /\ cpu' = TouchesHeap
  /\ UNCHANGED <<client, mode, brk, pending>>

\* The rest of purify_alloc_raw.  With every block in use sbrk panics.
AllocReturns ==
  /\ cpu = "ckalloc"
  /\ \/ \E b \in Block \ Alloced :
          blocks' = [blocks EXCEPT ![b] = "alloced"] /\ LeaveAllocator
     \/ Alloced = Block /\ Panic /\ UNCHANGED blocks

\* The rest of purify_free_raw, for any address the program passes.
FreeReturns == \E p \in Heap :
  /\ cpu = "ckfree"
  /\ IF p \in Alloced
     THEN blocks' = [blocks EXCEPT ![p] = "freed"] /\ LeaveAllocator
     ELSE Panic /\ UNCHANGED blocks

\* The error report, purify_error, ends in panic or clean_reboot on every path.
purify_handler ==
  /\ IF \A a \in pending : Legal(a) THEN HandlerReturns(1) ELSE HandlerReports
  /\ UNCHANGED blocks

\* A program under Purify uses purify.h only.
PurifyProgram ==
  \/ purify_init
  \/ EnterAllocator
  \/ ((\E a \in Access : Issue(a)) \/ Return) /\ UNCHANGED blocks

PurifyRuntime ==
  \/ AllocReturns \/ FreeReturns \/ purify_handler
  \/ Machine /\ UNCHANGED blocks
-----------------------------------------------------------------------------
PurifyTypeOK == blocks \in [Block -> {"unused", "alloced", "freed"}]

(* Once purify_init has run, no load or store of an address outside the allocated
   blocks is carried out: not after a free, not through the re-arming that follows
   a stepped access or a call of the allocator (checker-purify.c:1-4).  An access
   is its fault address: of a word that straddles the end of a block the handler
   sees the first byte only (checker-purify.c:128-139), and so does this. *)
NoIllegalAccess ==
  [][client = "purify" /\ client' = "purify" /\ pending # {} /\ pending' = {}
       => \A a \in pending : Legal(a)]_<<mtVars, blocks>>
=============================================================================
