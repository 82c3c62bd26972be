------------------------------ MODULE Memtrace ------------------------------
(* Memory tracing by domain faults and single stepping
   (src/labs/11-memcheck-trap/code/memtrace.c).

   The heap lies in a domain of its own.  While the domain register denies it
   (trap), a load or store of the heap raises a data abort: the handler allows
   the domain, asks the client, sets a mismatch breakpoint on the faulting
   instruction and resumes it in user mode, where mismatches are taken.  The
   instruction after it raises a prefetch abort, whose handler goes back to
   super mode, clears the breakpoint and denies the domain again.

   The processor (which aborts are taken when) is modelled from how the code
   uses it: a data abort iff the domain is denied, a mismatch only in user mode
   (breakpoint.h:7-12). *)
EXTENDS Naturals

CONSTANTS
  Heap,       \* addresses of the traced megabyte
  Returns     \* what the handler of a client of its own may return

ASSUME ReturnsAssumption == Returns \subseteq {0, 1}

Access == Heap \X {"ld", "st"}

VARIABLES
  client,     \* client_handler: "NULL" or whose it is; once set, the MMU is on
  mode,       \* processor mode of the program: "SUPER" or "USER"
  trap,       \* the domain register denies the heap (trap_heap_access)
  brk,        \* mismatch breakpoint 0 is set
  pending,    \* {} or {the load or store being executed}
  cpu         \* "run", "handler" (in client_handler), "ckalloc", "ckfree",
              \* "kmalloc" (in a checker's allocation) or how the program ended:
              \* "done"; "panic", a misuse; "error", reported by the client;
              \* "broken", a failure inside the tracing itself

mtVars == <<client, mode, trap, brk, pending, cpu>>

Ends == {"done", "panic", "error", "broken"}

MemtraceInit ==
  /\ client = "NULL" /\ mode = "SUPER" /\ trap = FALSE /\ brk = FALSE
  /\ pending = {} /\ cpu = "run"

\* The Pi restarts.
MemtraceReset ==
  /\ client' = "NULL" /\ mode' = "SUPER" /\ trap' = FALSE /\ brk' = FALSE
  /\ pending' = {} /\ cpu' = "run"

\* The next instruction takes the mismatch abort.
AtMismatch == mode = "USER" /\ brk /\ pending = {}

\* The program executes its own code, between two heap accesses.
Running == cpu = "run" /\ pending = {} /\ ~AtMismatch

\* The program reaches a load or store of the heap.
Issue(a) ==
  /\ Running
  /\ pending' = {a}
  /\ UNCHANGED <<client, mode, trap, brk, cpu>>

Inited == client # "NULL"

Traps == Inited /\ trap

\* An access the domain register allows is carried out.
Execute ==
  /\ cpu = "run" /\ pending # {} /\ ~Traps
  /\ pending' = {}
  /\ UNCHANGED <<client, mode, trap, brk, cpu>>

memtrace_trap_enable == trap' = TRUE

memtrace_trap_disable == trap' = FALSE

\* mutant: trapping stays on in the handler.
data_abort_still_trapping ==
  /\ cpu = "run" /\ pending # {} /\ Traps
  /\ cpu' = IF mode = "SUPER" THEN "handler" ELSE "broken"
  /\ UNCHANGED <<client, mode, trap, brk, pending>>

data_abort_memtrace ==
  /\ cpu = "run" /\ pending # {} /\ Traps
  /\ memtrace_trap_disable
  /\ cpu' = IF mode = "SUPER" THEN "handler" ELSE "broken"
  /\ UNCHANGED <<client, mode, brk, pending>>

\* client_handler returns ret.  It reads the heap (the headers of the blocks):
\* were trapping on, that would be a data abort outside super mode.
HandlerReturns(ret) ==
  /\ cpu = "handler"
  /\ cpu' = IF trap THEN "broken" ELSE "run"
  /\ brk' = (ret = 1 \/ brk)
  /\ mode' = IF ret = 1 THEN "USER" ELSE mode
  /\ UNCHANGED <<client, trap, pending>>

\* client_handler reports an error: panic or clean_reboot.
HandlerReports ==
  /\ cpu = "handler"
  /\ cpu' = IF trap THEN "broken" ELSE "error"
  /\ UNCHANGED <<client, mode, trap, brk, pending>>

\* mutant: trapping is not enabled again.
prefetch_abort_no_rearm ==
  /\ cpu = "run" /\ AtMismatch
  /\ mode' = "SUPER"
  /\ brk' = FALSE
  /\ UNCHANGED <<client, trap, pending, cpu>>

prefetch_abort_memtrace ==
  /\ cpu = "run" /\ AtMismatch
  /\ mode' = "SUPER"
  /\ brk' = FALSE
  /\ memtrace_trap_enable
  /\ UNCHANGED <<client, pending, cpu>>

Panic == cpu' = "panic" /\ UNCHANGED <<client, mode, trap, brk, pending>>

\* memtrace_init: the MMU is turned on with every domain allowed.
memtrace_init ==
  /\ Running
  /\ IF Inited THEN Panic
     ELSE client' = "own" /\ trap' = FALSE /\ UNCHANGED <<mode, brk, pending, cpu>>

\* The body of memtrace_on, for the checkers that call it in a step of theirs.
TurnOn == brk' = FALSE /\ memtrace_trap_enable

\* memtrace_init_default, then memtrace_on.
InitChecker(checker) ==
  /\ Running
  /\ IF Inited THEN Panic
     ELSE client' = checker /\ TurnOn /\ UNCHANGED <<mode, pending, cpu>>

memtrace_on ==
  /\ Running
  /\ IF ~Inited THEN Panic
     ELSE IF mode # "SUPER"
     THEN cpu' = "broken" /\ UNCHANGED <<client, mode, trap, brk, pending>>
     ELSE TurnOn /\ UNCHANGED <<client, mode, pending, cpu>>

memtrace_off ==
  /\ Running
  /\ IF ~Inited THEN Panic
     ELSE memtrace_trap_disable /\ UNCHANGED <<client, mode, brk, pending, cpu>>

\* The program calls memtrace_trap_enable or memtrace_trap_disable itself, as
\* the tests do; before memtrace_init that has no effect on the heap.
SetTrap ==
  /\ Running /\ Inited
  /\ memtrace_trap_enable \/ memtrace_trap_disable
  /\ UNCHANGED <<client, mode, brk, pending, cpu>>

\* notmain returns.
Return ==
  /\ Running
  /\ cpu' = "done"
  /\ UNCHANGED <<client, mode, trap, brk, pending>>

\* Steps the processor takes by itself.
Machine == Execute \/ data_abort_memtrace \/ prefetch_abort_memtrace

Program == (\E a \in Access : Issue(a)) \/ memtrace_on \/ memtrace_off \/ SetTrap
           \/ Return

\* A client of its own, as in tests/.
PlainProgram == memtrace_init \/ Program
PlainRuntime == Machine \/ \E ret \in Returns : HandlerReturns(ret)
-----------------------------------------------------------------------------
MemtraceTypeOK ==
  /\ client \in {"NULL", "own", "purify", "eraser"}
  /\ trap \in BOOLEAN /\ brk \in BOOLEAN
  /\ mode \in {"SUPER", "USER"}
  /\ \E a \in Access : pending \in {{}, {a}}
  /\ cpu \in {"run", "handler", "ckalloc", "ckfree", "kmalloc"} \cup Ends

(* No assertion of the two abort handlers fails, the client never faults on the
   heap it inspects, and memtrace_on is never reached in user mode
   (memtrace.c:68-69, 101-105, 125): the domain register, the mode and the
   breakpoint agree whatever the program and the client do. *)
NeverBroken == cpu # "broken"

(* For the refinement: tracing is on from the abort to the re-arming although the
   domain is allowed in between; the report of an access lasts until the program
   goes on. *)
Stepping == mode = "USER" /\ brk
Asked == pending # {} /\ cpu \in {"handler", "error", "panic"}
Armed == Inited /\ (trap \/ Stepping \/ Asked)
ReportStage == IF Stepping THEN "resume" ELSE IF Asked THEN "asked" ELSE "none"
=============================================================================
