------------------------------- MODULE Eraser -------------------------------
(* The trivial Eraser checker (src/labs/11-memcheck-trap/code/checker-eraser.c)
   and the thread stubs its tests call it through (tests-eraser/fake-thread.h).
   It keeps one word of shadow state and one lock per thread. *)
EXTENDS Memtrace, FiniteSets

CONSTANTS
  MAXTHREADS,
  Lock,
  word          \* the one allocation it is made for

ASSUME EraserAssumption ==
  MAXTHREADS \in Nat /\ MAXTHREADS > 1 /\ word \in Heap

ThreadId == 0 .. MAXTHREADS - 1   \* 0: no thread yet

VARIABLES
  shadow,        \* state.state
  lockset,       \* the set of at most one lock each thread holds
  cur_thread_id,
  candidates,    \* history: the locks held at every access so far
  used           \* history: the locks held at some access

erVars == <<shadow, lockset, cur_thread_id, candidates, used>>
history == <<candidates, used>>

EraserInit ==
  /\ shadow = "INVALID"
  /\ lockset = [t \in ThreadId |-> {}]
  /\ cur_thread_id = 0
  /\ candidates = Lock /\ used = {}

EraserReset ==
  /\ shadow' = "INVALID"
  /\ lockset' = [t \in ThreadId |-> {}]
  /\ cur_thread_id' = 0
  /\ candidates' = Lock /\ used' = {}

eraser_init == InitChecker("eraser") /\ UNCHANGED erVars

\* A call of the checker that leaves the tracing alone, or panics when Bad.
Call(Bad, Effect) ==
  /\ Running
  /\ UNCHANGED history
  /\ IF Bad THEN Panic /\ UNCHANGED <<shadow, lockset, cur_thread_id>>
     ELSE Effect /\ UNCHANGED mtVars

\* mutant: off by one in the assertion on tid.
set_thread_id_off_by_one == \E tid \in 0 .. MAXTHREADS :
  Call(tid = 0 \/ tid > MAXTHREADS,
       cur_thread_id' = tid /\ UNCHANGED <<shadow, lockset>>)

\* Programs pass no negative tid: both assertions would let it through, as an
\* index in front of lockset.
eraser_set_thread_id == \E tid \in 0 .. MAXTHREADS :
  Call(tid = 0 \/ tid >= MAXTHREADS,
       cur_thread_id' = tid /\ UNCHANGED <<shadow, lockset>>)

eraser_lock == \E l \in Lock :
  Call(lockset[cur_thread_id] # {},
       /\ lockset' = [lockset EXCEPT ![cur_thread_id] = {l}]
       /\ UNCHANGED <<shadow, cur_thread_id>>)

eraser_unlock == \E l \in Lock :
  Call(lockset[cur_thread_id] # {l},
       /\ lockset' = [lockset EXCEPT ![cur_thread_id] = {}]
       /\ UNCHANGED <<shadow, cur_thread_id>>)

eraser_mark_free ==
  /\ Running
  /\ shadow' = "FREED"
  /\ UNCHANGED <<mtVars, lockset, cur_thread_id, history>>

\* alloc of fake-thread.h: tracing is off while kmalloc clears the block.
EnterAlloc ==
  /\ Running
  /\ IF ~Inited THEN Panic
     ELSE memtrace_trap_disable /\ cpu' = "kmalloc"
          /\ UNCHANGED <<client, mode, brk, pending>>
  /\ UNCHANGED erVars

\* kmalloc, eraser_mark_alloc (one allocation only) and memtrace_on.
LeaveAlloc ==
  /\ cpu = "kmalloc"
  /\ UNCHANGED <<lockset, cur_thread_id, history>>
  /\ IF trap \/ shadow # "INVALID"
     THEN /\ cpu' = IF trap THEN "broken" ELSE "panic"
          /\ UNCHANGED <<client, mode, trap, brk, pending, shadow>>
     ELSE /\ shadow' = "VIRGIN"
          /\ TurnOn /\ cpu' = "run"
          /\ UNCHANGED <<client, mode, pending>>

\* mutant: a lock of any thread will do.
ls_intersect_any_thread == \E t \in ThreadId : lockset[t] # {}

\* ls_intersect: any lock will do.
ls_intersect == lockset[cur_thread_id] # {}

\* eraser_handler with shadow_check_ld or shadow_check_st, which do the same.
eraser_handler ==
  /\ cpu = "handler"
  /\ UNCHANGED erVars
  /\ IF cur_thread_id = 0 THEN Panic
     ELSE IF ls_intersect THEN HandlerReturns(1) ELSE HandlerReports

\* The access is carried out; the history notes the locks held.
ExecuteNoted ==
  /\ Execute
  /\ UNCHANGED <<shadow, lockset, cur_thread_id>>
  /\ IF Inited
     THEN /\ candidates' = candidates \cap lockset[cur_thread_id]
          /\ used' = used \cup lockset[cur_thread_id]
     ELSE UNCHANGED history

EraserProgram ==
  \/ eraser_init \/ eraser_set_thread_id
  \/ eraser_lock \/ eraser_unlock \/ eraser_mark_free \/ EnterAlloc
  \/ ((\E op \in {"ld", "st"} : Issue(<<word, op>>)) \/ Return) /\ UNCHANGED erVars

EraserRuntime ==
  \/ LeaveAlloc \/ eraser_handler
  \/ ExecuteNoted
  \/ (data_abort_memtrace \/ prefetch_abort_memtrace) /\ UNCHANGED erVars
-----------------------------------------------------------------------------
EraserTypeOK ==
  /\ shadow \in {"INVALID", "VIRGIN", "FREED"}
  /\ lockset \in [ThreadId -> {{}} \cup {{l} : l \in Lock}]
  /\ cur_thread_id \in ThreadId
  /\ candidates \subseteq Lock /\ used \subseteq Lock

(* What "if we hold any lock assume we're ok" (checker-eraser.c:109) is worth
   against Eraser's lock sets: once eraser_init has run, every access that is
   carried out has a lock in common with all those before it, unless the program
   makes accesses under different locks.  A program with a single lock never
   makes an unprotected access. *)
MissesOnlyMixedLocks == candidates = {} => Cardinality(used) > 1
=============================================================================
