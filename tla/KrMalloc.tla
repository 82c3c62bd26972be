----------------------------- MODULE KrMalloc ------------------------------
(***************************************************************************)
(* The K&R allocator of labs/5-malloc+gc/1-malloc/kr-malloc.c.  Memory is  *)
(* counted in header-sized units: the sentinel base is unit 0, the heap is *)
(* units 1 .. HEAP, above it as in the memory map of the Pi.  The words of *)
(* a unit that is not a header are not modelled; every turn of the two     *)
(* list loops is a step, so that a list that is not closed, or a loop that *)
(* misses its exit, shows.  kr_malloc(0) and kr_free(0) change nothing.    *)
(***************************************************************************)
EXTENDS Integers

CONSTANTS
  HEAP,      \* heap_end - heap_start, in units: 8192 in the code
  Unit,      \* sizeof(union header): 8 bytes
  Word,      \* values an unsigned can take: 2^32
  Requests   \* the nbytes clients ask for

ASSUME HeapAssumption == HEAP \in Nat /\ Unit \in Nat \ {0}
ASSUME WordAssumption == Word \in Nat /\ Word % Unit = 0 /\ Word > HEAP * Unit
(* No request wraps the arithmetic of kr_malloc; one may be negative as    *)
(* the long my_sbrk takes.                                                 *)
ASSUME RequestsAssumption ==
  \A n \in Requests : n \in Nat \ {0} /\ n + 2 * Unit <= Word

VARIABLES
  ptr, size,          \* the headers, s.ptr and s.size
  freep, heap_ptr,    \* statics of kr_malloc and of my_sbrk
  pc,                 \* "idle", the loop of "malloc" or of "free", or "morecore":
                      \*   the loop of kr_free as my_morecore calls it
  nbytes, prevp, p,   \* kr_malloc's argument and locals
  bp, q,              \* kr_free's locals bp and p
  live                \* the client's blocks: header |-> bytes asked for

vars == <<ptr, size, freep, heap_ptr, pc, nbytes, prevp, p, bp, q, live>>

Base == 0
NULL == -1
Addr == 0 .. HEAP

Units_payload(n) == ((n + Unit - 1) % Word) \div Unit   \* mutant
Units(n) == ((n + Unit - 1) % Word) \div Unit + 1
nunits   == Units(nbytes)

Init ==
  /\ ptr = [a \in Addr |-> Base] /\ size = [a \in Addr |-> 0]
  /\ freep = NULL /\ heap_ptr = 1
  /\ pc = "idle" /\ nbytes = 0 /\ prevp = Base /\ p = Base /\ bp = Base /\ q = Base
  /\ live = [b \in {} |-> 0]

(* base is static and zero, so it already points to itself, and freep is   *)
(* the only word the first call's initialisation changes.                  *)
Start == IF freep = NULL THEN Base ELSE freep

CallMalloc(n) ==
  /\ pc = "idle"
  /\ pc' = "malloc" /\ nbytes' = n
  /\ freep' = Start /\ prevp' = Start /\ p' = ptr[Start]
  /\ UNCHANGED <<ptr, size, heap_ptr, bp, q, live>>

Fits == pc = "malloc" /\ size[p] >= nunits

(* The locals of a call end with it.                                       *)
Return == /\ pc' = "idle" /\ nbytes' = 0
          /\ prevp' = Base /\ p' = Base /\ bp' = Base /\ q' = Base

Grant(b) == live' = [a \in DOMAIN live \cup {b} |-> IF a = b THEN nbytes ELSE live[a]]

FitExact_kept == /\ Fits /\ size[p] = nunits   \* mutant
                 /\ freep' = prevp /\ Grant(p) /\ Return
                 /\ UNCHANGED <<ptr, size, heap_ptr>>
FitExact ==
  /\ Fits /\ size[p] = nunits
  /\ ptr' = [ptr EXCEPT ![prevp] = ptr[p]]
  /\ freep' = prevp /\ Grant(p) /\ Return
  /\ UNCHANGED <<size, heap_ptr>>

(* A larger block gives its tail away.                                     *)
FitSplit ==
  /\ Fits /\ size[p] > nunits
  /\ LET rest == size[p] - nunits
     IN  /\ size' = [size EXCEPT ![p] = rest, ![p + rest] = nunits]
         /\ Grant(p + rest)
  /\ freep' = prevp /\ Return
  /\ UNCHANGED <<ptr, heap_ptr>>

WrappedAround_early == prevp = freep   \* mutant
WrappedAround == p = freep

NextBlock ==
  /\ pc = "malloc" /\ size[p] < nunits /\ ~WrappedAround
  /\ prevp' = p /\ p' = ptr[p]
  /\ UNCHANGED <<ptr, size, freep, heap_ptr, pc, nbytes, bp, q, live>>

(* my_sbrk: the increment is a long, the product wraps.                    *)
increment == (nunits * Unit) % Word
HeapHas_one_more(inc) == heap_ptr + inc \div Unit <= HEAP + 2   \* mutant
HeapHas(inc) == inc < Word \div 2 /\ heap_ptr + inc \div Unit <= HEAP + 1

Exhausted == pc = "malloc" /\ size[p] < nunits /\ WrappedAround

my_morecore ==
  /\ Exhausted /\ HeapHas(increment)
  /\ heap_ptr' = heap_ptr + increment \div Unit
  /\ size' = [size EXCEPT ![heap_ptr] = nunits]
  /\ pc' = "morecore" /\ bp' = heap_ptr /\ q' = freep
  /\ UNCHANGED <<ptr, freep, nbytes, prevp, p, live>>

(* kr_malloc returns 0.                                                    *)
OutOfMemory ==
  /\ Exhausted /\ ~HeapHas(increment)
  /\ Return
  /\ UNCHANGED <<ptr, size, freep, heap_ptr, live>>

(* Clients free the blocks they hold, once.                                *)
CallFree(b) ==
  /\ pc = "idle"
  /\ pc' = "free" /\ bp' = b /\ q' = Start /\ freep' = Start
  /\ live' = [a \in DOMAIN live \ {b} |-> live[a]]
  /\ UNCHANGED <<ptr, size, heap_ptr, nbytes, prevp, p>>

Inserting == pc \in {"free", "morecore"}

Between_only == bp > q /\ bp < ptr[q]   \* mutant
(* bp belongs after q: between q and its successor, or past either end.    *)
Between == \/ bp > q /\ bp < ptr[q]
           \/ q >= ptr[q] /\ (bp > q \/ bp < ptr[q])

Walk ==
  /\ Inserting /\ ~Between
  /\ q' = ptr[q]
  /\ UNCHANGED <<ptr, size, freep, heap_ptr, pc, nbytes, prevp, p, bp, live>>

TouchesNext_never == FALSE   \* mutant
TouchesNext == bp + size[bp] = ptr[q]
TouchesPrev == q + size[q] = bp

(* Coalesce up, then down; my_morecore then returns freep to the loop of   *)
(* kr_malloc, which goes on at the block after it.                         *)
Link ==
  /\ Inserting /\ Between
  /\ LET next  == IF TouchesNext THEN ptr[ptr[q]] ELSE ptr[q]
         merged == size[bp] + (IF TouchesNext THEN size[ptr[q]] ELSE 0)
     IN  /\ ptr'  = [ptr EXCEPT ![bp] = next,
                                ![q]  = IF TouchesPrev THEN next ELSE bp]
         /\ size' = [size EXCEPT ![bp] = merged,
                                 ![q]  = IF TouchesPrev THEN @ + merged ELSE @]
  /\ freep' = q
  /\ \/ pc = "free" /\ Return
     \/ /\ pc = "morecore" /\ pc' = "malloc" /\ prevp' = q /\ p' = ptr'[q]
        /\ bp' = Base /\ q' = Base /\ UNCHANGED nbytes
  /\ UNCHANGED <<heap_ptr, live>>

Step == FitExact \/ FitSplit \/ NextBlock \/ my_morecore \/ OutOfMemory \/ Walk \/ Link

Next == \/ \E n \in Requests : CallMalloc(n)
        \/ \E b \in DOMAIN live : CallFree(b)
        \/ Step

Spec     == Init /\ [][Next]_vars
FairSpec == Spec /\ WF_vars(Step)
-----------------------------------------------------------------------------
(* The headers the list from base goes through.                            *)
HeadersFrom(links) ==
  LET reached[k \in Nat] == IF k = 0 THEN {Base}
                            ELSE reached[k - 1] \cup {links[a] : a \in reached[k - 1]}
  IN  reached[HEAP + 1]
FreeList == HeadersFrom(ptr)

Extent(b)  == b .. b + size[b] - 1
InTransit  == IF Inserting THEN {bp} ELSE {}
Allotted   == (FreeList \ {Base}) \cup InTransit \cup DOMAIN live

(* The fields hold what the declarations say, and no header is outside     *)
(* the heap my_sbrk has handed out.                                        *)
TypeOK ==
  /\ ptr \in [Addr -> Addr] /\ size \in [Addr -> 0 .. HEAP]
  /\ freep \in Addr \cup {NULL} /\ heap_ptr \in 1 .. HEAP + 1
  /\ pc \in {"idle", "malloc", "free", "morecore"} /\ nbytes \in Requests \cup {0}
  /\ {prevp, p, bp, q} \subseteq Addr
  /\ DOMAIN live \subseteq 1 .. HEAP /\ \A b \in DOMAIN live : live[b] \in Requests

(* The blocks the clients hold, the free blocks and the block on its way   *)
(* into the list tile the heap: between calls and in the middle of them,   *)
(* no unit is lost and none belongs to two blocks.                         *)
Tiled ==
  /\ UNION {Extent(b) : b \in Allotted} = 1 .. heap_ptr - 1
  /\ \A a, b \in Allotted : a # b => Extent(a) \cap Extent(b) = {}

(* kr_free keeps the list in address order and merges all it can: between  *)
(* calls every block points to the next free one up, the last to base, and *)
(* two free blocks never touch.                                            *)
Coalesced ==
  pc = "idle" =>
    \A a \in FreeList :
      LET above == {b \in FreeList : b > a}
      IN  /\ IF above = {} THEN ptr[a] = Base
             ELSE ptr[a] \in above /\ \A b \in above : ptr[a] <= b
          /\ a # Base => a + size[a] \notin FreeList

(* The next-fit search starts anywhere in the list and its bounds move     *)
(* with freep; still it asks for more memory, or gives up, only when no    *)
(* free block could have served.                                           *)
GivesUpRightly ==
  [][my_morecore \/ OutOfMemory => \A a \in FreeList : size[a] < nunits]_vars

(* Both list loops end, whatever the order of calls was.                   *)
CallsReturn == pc # "idle" ~> pc = "idle"

(* kr-malloc.c keeps the promises of malloc.  A block is the bytes from    *)
(* the unit after its header.                                              *)
firstByte(b) == (b + 1) * Unit
held == [a \in {firstByte(b) : b \in DOMAIN live} |-> live[a \div Unit - 1]]

Abstract == INSTANCE Allocator WITH Heap <- Unit .. (HEAP + 1) * Unit - 1
AllocatorSpec == Abstract!Spec
=============================================================================
