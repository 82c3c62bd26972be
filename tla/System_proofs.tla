---------------------------- MODULE System_proofs ----------------------------
(* Proofs about the Pi and its host, for every heap, every set of blocks, of
   threads and of locks, and whatever the line, the power and the user do: the
   tracing never fails (NeverBroken) and keeps its promise to clients that resume
   every access (TracedSafety), Purify lets no illegal access through, and the
   trivial Eraser misses only what its comment admits; a host reports success only
   if its image was started and leaves only if the program has ended, and over an
   undisturbed line it fails exactly when the drain takes the request for the
   code. *)
EXTENDS System, FiniteSetTheorems, SequenceTheorems, WellFoundedInduction, TLAPS

-----------------------------------------------------------------------------
(* What the line does to the programs: nothing. *)

\* Between a boot and a reboot, messages leave the program running.
LEMMA BootKeepsRunning ==
  ASSUME PiSerial \/ HostSerial \/ Outside
  PROVE  UNCHANGED <<prog, progVars>> /\ (pi = "run" => pi' = "run")
<1> USE DEF PiFrame, HostFrame, Send, Goto
<1>1. CASE PiSerial
  <2>1. pi = "run" => pi' = "run"
    BY <1>1 DEF PiSerial, PiAsks, PiAnswers, PiGetsInfo, PiGetsCode, PiDiscards
  <2> QED
    BY <1>1, <2>1 DEF PiSerial
<1>2. CASE HostSerial
  <2>1. UNCHANGED pi
    BY <1>2 DEF HostSerial, HostStep, simple_boot, Answers, Discards, Drains, GetsRequest,
       GetsCksum, GetsResult, ShowsString, ShowsRest, ReadFails, pi_echo, tty_gone,
       PiprogSends, PiprogResult, PiprogGone
  <2> QED
    BY <1>2, <2>1 DEF HostSerial
<1>3. CASE Outside
  BY <1>3 DEF Outside, PiPrints, PowerOn, HostStarts
<1> QED
  BY <1>1, <1>2, <1>3

\* The four programs and what they run on, without the line.
RunningStep ==
  /\ pi = "run" /\ UNCHANGED <<prog, pi>>
  /\ \/ prog = "hello" /\ Return /\ UNCHANGED <<blocks, erVars>>
     \/ prog = "plain" /\ (PlainProgram \/ PlainRuntime) /\ UNCHANGED <<blocks, erVars>>
     \/ prog = "purify" /\ (PurifyProgram \/ PurifyRuntime) /\ UNCHANGED erVars
     \/ prog = "eraser" /\ (EraserProgram \/ EraserRuntime) /\ UNCHANGED blocks

\* Every step is one of a program, a restart of the Pi, or leaves the programs alone.
LEMMA Steps ==
  ASSUME [SysNext]_sysVars
  PROVE  \/ RunningStep
         \/ Reset /\ pi' # "run"
         \/ UNCHANGED <<prog, progVars>> /\ (pi = "run" => pi' = "run")
<1>1. CASE ProgramStep \/ Runtime
  BY <1>1 DEF ProgramStep, Runtime, RunningStep, Runs, bootVars
<1>2. CASE HelloPrints
  BY <1>2 DEF HelloPrints, RunPrints
<1>3. CASE Reboot \/ PowerFails
  BY <1>3 DEF Reboot, PowerFails, clean_reboot, PowerOff
<1>4. CASE PiSerial \/ HostSerial \/ Outside
  BY <1>4, BootKeepsRunning
<1>5. CASE UNCHANGED sysVars
  BY <1>5 DEF sysVars, bootVars
<1> QED
  BY <1>1, <1>2, <1>3, <1>4, <1>5 DEF SysNext
-----------------------------------------------------------------------------
(* The machine *)

(* The mode, the breakpoint, the domain register and the place of execution
   agree: user mode is single stepping with tracing suspended, a handler and an
   allocator run in super mode with tracing suspended, and nothing is left of a
   program once the Pi has restarted. *)
MachineInv ==
  /\ cpu # "broken"
  /\ mode = "USER" => Inited /\ brk /\ ~trap /\ cpu = "run"
  /\ cpu = "handler" => Inited /\ ~trap /\ mode = "SUPER" /\ pending # {}
  /\ cpu \in {"ckalloc", "ckfree", "kmalloc"} => ~trap /\ mode = "SUPER" /\ pending = {}
  /\ pi # "run" => MemtraceInit
  /\ mode \in {"SUPER", "USER"} /\ trap \in BOOLEAN /\ brk \in BOOLEAN

LEMMA MachineStep ==
  ASSUME MachineInv, [SysNext]_sysVars
  PROVE  MachineInv'
<1> USE DEF MachineInv, mtVars, Inited
<1>1. CASE RunningStep
  <2> USE DEF Running, AtMismatch, TurnOn, memtrace_trap_enable, memtrace_trap_disable
  <2>1. CASE prog = "hello" /\ Return
    BY <1>1, <2>1 DEF RunningStep, Return
  <2>2. CASE (\E a \in Access : Issue(a)) \/ (\E op \in {"ld", "st"} : Issue(<<word, op>>))
    BY <1>1, <2>2 DEF RunningStep, Issue
  <2>3. CASE Machine \/ ExecuteNoted
    <3>1. CASE Execute
      BY <1>1, <3>1 DEF RunningStep, Execute
    <3>2. CASE data_abort_memtrace
      BY <1>1, <3>2 DEF RunningStep, Traps, data_abort_memtrace
    <3>3. CASE prefetch_abort_memtrace
      BY <1>1, <3>3 DEF RunningStep, prefetch_abort_memtrace
    <3> QED
      BY <2>3, <3>1, <3>2, <3>3 DEF Machine, ExecuteNoted
  <2>4. CASE \/ memtrace_init \/ memtrace_on \/ memtrace_off \/ SetTrap \/ Return
             \/ purify_init \/ eraser_init
    BY <1>1, <2>4 DEF RunningStep, memtrace_init, memtrace_on, memtrace_off, SetTrap, Return,
       purify_init, eraser_init, InitChecker, Panic
  <2>5. CASE (\E ret \in Returns : HandlerReturns(ret)) \/ purify_handler \/ eraser_handler
    BY <1>1, <2>5 DEF RunningStep, HandlerReturns, purify_handler, HandlerReports,
       eraser_handler, Panic
  <2>6. CASE EnterAllocator \/ AllocReturns \/ FreeReturns
    BY <1>1, <2>6 DEF RunningStep, EnterAllocator, AllocReturns, FreeReturns, LeaveAllocator,
       TouchesHeap, Panic
  <2>7. CASE eraser_set_thread_id \/ eraser_lock \/ eraser_unlock \/ eraser_mark_free
    BY <1>1, <2>7 DEF RunningStep, eraser_set_thread_id, eraser_lock, eraser_unlock,
       eraser_mark_free, Call, Panic
  <2>8. CASE EnterAlloc \/ LeaveAlloc
    BY <1>1, <2>8 DEF RunningStep, EnterAlloc, LeaveAlloc, Panic
  <2> QED
    BY <1>1, <2>1, <2>2, <2>3, <2>4, <2>5, <2>6, <2>7, <2>8
       DEF RunningStep, PlainProgram, PlainRuntime, Program, Machine, PurifyProgram,
           PurifyRuntime, EraserProgram, EraserRuntime
<1>2. CASE Reset /\ pi' # "run"
  BY <1>2 DEF Reset, MemtraceReset, MemtraceInit
<1>3. CASE UNCHANGED <<prog, progVars>> /\ (pi = "run" => pi' = "run")
  BY <1>3 DEF progVars, MemtraceInit
<1> QED
  BY <1>1, <1>2, <1>3, Steps

LEMMA MachineInvariance == SysSpec => []MachineInv
<1>1. SysInit => MachineInv
  BY DEF SysInit, ProgInit, MemtraceInit, MachineInv, Inited
<1>2. MachineInv /\ [SysNext]_sysVars => MachineInv'
  BY MachineStep
<1> QED
  BY <1>1, <1>2, PTL DEF SysSpec

(* No assertion of the two abort handlers fails, no handler and no allocator
   traps on its own accesses, and memtrace_on is never reached in user mode,
   whatever the program does and however its boots and reboots go. *)
THEOREM NeverBreaks == SysSpec => []NeverBroken
<1>1. MachineInv => NeverBroken
  BY DEF MachineInv, NeverBroken
<1> QED
  BY <1>1, MachineInvariance, PTL
-----------------------------------------------------------------------------
(* Refinement of TracedMemory *)

LEMMA ResetRefines ==
  ASSUME Reset, pi' # "run"
  PROVE  Traced!Restart
BY DEF Reset, MemtraceReset, Traced!Restart, Armed, Inited, ReportStage, Stepping, Asked,
       ProgramEnded, Ends

\* Nothing that happens on the line is seen, but the start of a program.
LEMMA LineRefines ==
  ASSUME MachineInv, UNCHANGED <<prog, progVars>>, pi = "run" => pi' = "run"
  PROVE  [Traced!TMNext]_Traced!tmVars
<1> USE DEF progVars, mtVars, Armed, Inited, ReportStage, Stepping, Asked, ProgramEnded, Ends
<1>1. CASE pi = "run" \/ pi' # "run"
  BY <1>1 DEF Traced!tmVars
<1>2. CASE pi # "run" /\ pi' = "run"
  BY <1>2 DEF MachineInv, MemtraceInit, Traced!TMNext, Traced!Run
<1> QED
  BY <1>1, <1>2

\* A step between two accesses, by a program or by what it called: it may turn
\* tracing on or off, or else end the program.
Aside ==
  /\ pi = "run" /\ pi' = "run"
  /\ pending = {} /\ pending' = {}
  /\ ~Stepping /\ ~Stepping'
  /\ cpu \notin Ends
  /\ cpu' \in Ends => UNCHANGED <<client, trap>>

LEMMA AsideRefines ==
  ASSUME Aside
  PROVE  [Traced!TMNext]_Traced!tmVars
<1> USE DEF Aside, Armed, Inited, ReportStage, Asked, ProgramEnded
<1>1. CASE cpu' \in Ends
  BY <1>1 DEF Traced!TMNext, Traced!End
<1>2. CASE cpu' \notin Ends
  BY <1>2 DEF Traced!TMNext, Traced!Switch
<1> QED
  BY <1>1, <1>2

(* While a program runs, each of its steps and each step of the runtime is the
   one of the promise it stands for. *)
LEMMA RunningRefines ==
  ASSUME 0 \notin Returns, MachineInv, RunningStep
  PROVE  [Traced!TMNext]_Traced!tmVars
<1>0. pi = "run" /\ pi' = "run"
  BY DEF RunningStep
<1> USE DEF MachineInv, Inited, Stepping, Ends
<1>1. ASSUME NEW a \in Access, Issue(a) PROVE [Traced!TMNext]_Traced!tmVars
  BY <1>0, <1>1 DEF Issue, Running, AtMismatch, Armed, ReportStage, Asked, ProgramEnded,
     Traced!TMNext, Traced!Issue
<1>2. CASE Machine
  <2> USE DEF Armed, ReportStage, Asked, ProgramEnded, Traced!TMNext, Traced!Settle
  <2>1. CASE Execute
    BY <1>0, <2>1 DEF Execute, Traps, Traced!Perform
  <2>2. CASE data_abort_memtrace
    BY <1>0, <2>2 DEF data_abort_memtrace, memtrace_trap_disable, Traps, Traced!Report
  <2>3. CASE prefetch_abort_memtrace
    BY <1>0, <2>3 DEF prefetch_abort_memtrace, memtrace_trap_enable, AtMismatch,
       Traced!GoOn
  <2> QED
    BY <1>2, <2>1, <2>2, <2>3 DEF Machine
<1>3. CASE HandlerReturns(1) \/ HandlerReports \/ (cpu = "handler" /\ Panic)
  <2> USE DEF Armed, ReportStage, Asked, ProgramEnded
  <2>1. CASE HandlerReturns(1)
    BY <1>0, <2>1 DEF HandlerReturns, Traced!TMNext, Traced!Settle, Traced!Resume
  <2>2. CASE HandlerReports \/ (cpu = "handler" /\ Panic)
    BY <1>0, <2>2 DEF HandlerReports, Panic, Traced!TMNext, Traced!Settle, Traced!Refuse
  <2> QED
    BY <1>3, <2>1, <2>2
<1>4. CASE \/ memtrace_init \/ memtrace_on \/ memtrace_off \/ SetTrap \/ Return
           \/ purify_init \/ eraser_init \/ EnterAllocator \/ EnterAlloc
  BY <1>0, <1>4, AsideRefines
     DEF Aside, Running, AtMismatch, memtrace_init, memtrace_on, memtrace_off, SetTrap,
         Return, purify_init, eraser_init, EnterAllocator, EnterAlloc, InitChecker, TurnOn,
         memtrace_trap_enable, memtrace_trap_disable, Panic
<1>5. CASE \/ eraser_set_thread_id \/ eraser_lock \/ eraser_unlock \/ eraser_mark_free
  BY <1>0, <1>5, AsideRefines
     DEF Aside, Running, AtMismatch, eraser_set_thread_id, eraser_lock, eraser_unlock,
         eraser_mark_free, Call, Panic, mtVars
<1>6. CASE AllocReturns \/ FreeReturns \/ LeaveAlloc
  BY <1>0, <1>6, AsideRefines
     DEF Aside, AllocReturns, FreeReturns, LeaveAlloc, LeaveAllocator, TouchesHeap, TurnOn,
         memtrace_trap_enable, Panic
<1>7. purify_handler => HandlerReturns(1) \/ HandlerReports
  BY DEF purify_handler
<1>8. eraser_handler => HandlerReturns(1) \/ HandlerReports \/ (cpu = "handler" /\ Panic)
  BY DEF eraser_handler
<1>9. ExecuteNoted => Machine
  BY DEF ExecuteNoted, Machine
<1>10. \A op \in {"ld", "st"} : <<word, op>> \in Access
  BY EraserAssumption DEF Access
<1>11. (\E ret \in Returns : HandlerReturns(ret)) => HandlerReturns(1)
  BY ReturnsAssumption
<1> HIDE DEF MachineInv, Inited, Stepping, Ends
<1>12. CASE prog \in {"hello", "plain"}
  BY <1>1, <1>2, <1>3, <1>4, <1>11, <1>12 DEF RunningStep, PlainProgram, PlainRuntime, Program
<1>13. CASE prog = "purify"
  BY <1>1, <1>2, <1>3, <1>4, <1>6, <1>7, <1>13 DEF RunningStep, PurifyProgram, PurifyRuntime
<1>14. CASE prog = "eraser"
  BY <1>1, <1>2, <1>3, <1>4, <1>5, <1>6, <1>8, <1>9, <1>10, <1>14
     DEF RunningStep, EraserProgram, EraserRuntime, Machine
<1> QED
  BY <1>12, <1>13, <1>14 DEF RunningStep

(* The traced system keeps the promise of memory tracing, but for its fairness,
   for clients whose handler never returns 0: no access is carried out while
   tracing is on unless it was reported, none is reported twice, and tracing is on
   when the program goes on (memtrace.c:62-120). *)
THEOREM TracingIsSound ==
  ASSUME 0 \notin Returns
  PROVE  SysSpec => TracedSafety
<1>1. SysInit => Traced!Start
  BY DEF SysInit, BootInit, ProgInit, MemtraceInit, Traced!Start, Armed, ReportStage, Inited,
     Stepping, Asked, ProgramEnded, Ends
<1>2. MachineInv /\ [SysNext]_sysVars => [Traced!TMNext]_Traced!tmVars
  BY Steps, RunningRefines, ResetRefines, LineRefines DEF Traced!TMNext
<1> QED
  BY <1>1, <1>2, MachineInvariance, PTL DEF SysSpec, TracedSafety, Traced!TMSafety

-----------------------------------------------------------------------------
(* Types *)

ProgTypeOK == MemtraceTypeOK /\ PurifyTypeOK /\ EraserTypeOK /\ prog \in Programs

LEMMA ProgTypeInit == SysInit => ProgTypeOK
<1> SUFFICES ASSUME SysInit PROVE ProgTypeOK
  OBVIOUS
<1>1. PICK a : a \in Access
  <2>1. <<word, "ld">> \in Access
    BY EraserAssumption DEF Access
  <2> QED
    BY <2>1
<1>2. MemtraceTypeOK
  BY <1>1 DEF SysInit, ProgInit, MemtraceInit, MemtraceTypeOK
<1>3. 0 \in ThreadId
  BY EraserAssumption DEF ThreadId
<1> QED
  BY <1>2, <1>3 DEF SysInit, ProgInit, PurifyInit, PurifyTypeOK, EraserInit, EraserTypeOK,
     ProgTypeOK

LEMMA ProgTypeStep ==
  ASSUME ProgTypeOK, [SysNext]_sysVars
  PROVE  ProgTypeOK'
<1>1. MemtraceTypeOK'
  <2> USE DEF ProgTypeOK, MemtraceTypeOK, Ends, mtVars
  <2>0. \A op \in {"ld", "st"} : <<word, op>> \in Access
    BY EraserAssumption DEF Access
  <2>1. CASE RunningStep
    <3> USE DEF memtrace_trap_enable, memtrace_trap_disable, TurnOn, Panic
    <3>1. ASSUME NEW a \in Access, Issue(a) PROVE MemtraceTypeOK'
      BY <3>1 DEF Issue
    <3>2. CASE \/ memtrace_init \/ memtrace_on \/ memtrace_off \/ SetTrap \/ Return
               \/ purify_init \/ eraser_init
      BY <3>2 DEF memtrace_init, memtrace_on, memtrace_off, SetTrap, Return, purify_init,
         eraser_init, InitChecker
    <3>3. CASE Machine \/ ExecuteNoted
      BY <3>3 DEF Machine, ExecuteNoted, Execute, data_abort_memtrace, prefetch_abort_memtrace
    <3>4. CASE (\E ret \in Returns : HandlerReturns(ret)) \/ purify_handler \/ eraser_handler
      BY <3>4 DEF HandlerReturns, HandlerReports, purify_handler, eraser_handler
    <3>5. CASE EnterAllocator \/ AllocReturns \/ FreeReturns \/ EnterAlloc \/ LeaveAlloc
      BY <3>5 DEF EnterAllocator, AllocReturns, FreeReturns, LeaveAllocator, TouchesHeap,
         EnterAlloc, LeaveAlloc
    <3>6. CASE eraser_set_thread_id \/ eraser_lock \/ eraser_unlock \/ eraser_mark_free
      BY <3>6 DEF eraser_set_thread_id, eraser_lock, eraser_unlock, eraser_mark_free, Call
    <3> QED
      BY <2>0, <2>1, <3>1, <3>2, <3>3, <3>4, <3>5, <3>6
         DEF RunningStep, PlainProgram, PlainRuntime, Program, Machine, PurifyProgram,
             PurifyRuntime, EraserProgram, EraserRuntime
  <2>2. CASE Reset
    BY <2>2 DEF Reset, MemtraceReset
  <2>3. CASE UNCHANGED progVars
    BY <2>3 DEF progVars
  <2> QED
    BY <2>1, <2>2, <2>3, Steps
<1>2. PurifyTypeOK'
  <2> USE DEF ProgTypeOK, PurifyTypeOK
  <2>1. CASE RunningStep
    BY <2>1 DEF RunningStep, PurifyProgram, PurifyRuntime, purify_init, EnterAllocator,
       AllocReturns, FreeReturns, purify_handler
  <2>2. CASE Reset
    BY <2>2 DEF Reset, PurifyReset
  <2> QED
    BY <2>1, <2>2, Steps DEF progVars
<1>3. EraserTypeOK'
  <2> USE DEF ProgTypeOK, EraserTypeOK, erVars, history
  <2>1. CASE RunningStep /\ UNCHANGED erVars
    BY <2>1
  <2>0. \A tid \in 0 .. MAXTHREADS : ~(tid = 0 \/ tid >= MAXTHREADS) => tid \in ThreadId
    BY EraserAssumption DEF ThreadId
  <2>2. CASE eraser_set_thread_id \/ eraser_lock \/ eraser_unlock \/ eraser_mark_free
    BY <2>0, <2>2 DEF eraser_set_thread_id, eraser_lock, eraser_unlock, eraser_mark_free, Call
  <2>3. CASE EnterAlloc \/ LeaveAlloc \/ eraser_init \/ eraser_handler
    BY <2>3 DEF EnterAlloc, LeaveAlloc, eraser_init, eraser_handler
  <2>4. CASE ExecuteNoted
    <3>1. lockset[cur_thread_id] \subseteq Lock
      OBVIOUS
    <3> QED
      BY <2>4, <3>1 DEF ExecuteNoted
  <2>5. CASE Reset
    <3>1. 0 \in ThreadId
      BY EraserAssumption DEF ThreadId
    <3> QED
      BY <2>5, <3>1 DEF Reset, EraserReset
  <2> QED
    BY <2>1, <2>2, <2>3, <2>4, <2>5, Steps
       DEF RunningStep, EraserProgram, EraserRuntime, progVars
<1>4. prog' \in Programs
  BY Steps DEF RunningStep, Reset, ProgTypeOK
<1> QED
  BY <1>1, <1>2, <1>3, <1>4 DEF ProgTypeOK

LEMMA ProgTypes == SysSpec => []ProgTypeOK
BY ProgTypeInit, ProgTypeStep, PTL DEF SysSpec

-----------------------------------------------------------------------------
(* The checkers *)

(* A checker's program runs with tracing on except while an access it has
   judged is being stepped: under Purify that access is legal and stays so,
   under Eraser the thread holds a lock and keeps it. *)
CheckerInv ==
  /\ Inited => client = IF prog = "plain" THEN "own" ELSE prog
  /\ client \in {"purify", "eraser"} /\ cpu = "run" /\ mode = "SUPER" => trap
  /\ client = "purify" /\ mode = "USER" => \A a \in pending : Legal(a)
  /\ client = "eraser" /\ mode = "USER" /\ pending # {} => lockset[cur_thread_id] # {}

LEMMA CheckerStep ==
  ASSUME MachineInv, CheckerInv, [SysNext]_sysVars
  PROVE  CheckerInv'
<1> USE DEF CheckerInv, MachineInv, Inited
<1>1. CASE RunningStep /\ prog = "hello"
  BY <1>1 DEF RunningStep, Return
<1>2. CASE RunningStep /\ prog = "plain"
  <2>1. client' \in {client, "own"} /\ UNCHANGED prog
    BY <1>2 DEF RunningStep, PlainProgram, PlainRuntime, Program, Machine, Issue, Execute,
       data_abort_memtrace, prefetch_abort_memtrace, HandlerReturns, memtrace_init,
       memtrace_on, memtrace_off, SetTrap, Return, Panic
  <2> QED
    BY <1>2, <2>1
<1>3. CASE RunningStep /\ prog = "purify"
  <2> USE DEF memtrace_trap_enable, memtrace_trap_disable
  <2>0. client # "eraser" /\ UNCHANGED prog
    BY <1>3 DEF RunningStep
  <2>1. CASE purify_init
    BY <1>3, <2>0, <2>1 DEF purify_init, InitChecker, Running, AtMismatch, TurnOn, Panic
  <2>2. CASE EnterAllocator
    BY <1>3, <2>0, <2>2 DEF EnterAllocator, Running, AtMismatch
  <2>3. CASE ((\E a \in Access : Issue(a)) \/ Return) /\ UNCHANGED blocks
    BY <1>3, <2>0, <2>3 DEF Issue, Return, Running, AtMismatch
  <2>4. CASE AllocReturns \/ FreeReturns
    BY <1>3, <2>0, <2>4 DEF AllocReturns, FreeReturns, LeaveAllocator, Panic
  <2>5. CASE purify_handler
    BY <1>3, <2>0, <2>5 DEF purify_handler, HandlerReturns, HandlerReports, Legal, Alloced
  <2>6. CASE Machine /\ UNCHANGED blocks
    BY <1>3, <2>0, <2>6 DEF Machine, Execute, data_abort_memtrace, prefetch_abort_memtrace,
       Legal, Alloced
  <2> QED
    BY <1>3, <2>1, <2>2, <2>3, <2>4, <2>5, <2>6
       DEF RunningStep, PurifyProgram, PurifyRuntime
<1>4. CASE RunningStep /\ prog = "eraser"
  <2> USE DEF memtrace_trap_enable, memtrace_trap_disable, erVars
  <2>0. client # "purify" /\ UNCHANGED prog
    BY <1>4 DEF RunningStep
  <2>1. CASE eraser_init \/ EnterAlloc \/ LeaveAlloc
    BY <1>4, <2>0, <2>1 DEF eraser_init, EnterAlloc, LeaveAlloc, InitChecker, Running,
       AtMismatch, TurnOn, Panic
  <2>2. CASE eraser_set_thread_id \/ eraser_lock \/ eraser_unlock \/ eraser_mark_free
    BY <1>4, <2>0, <2>2 DEF eraser_set_thread_id, eraser_lock, eraser_unlock,
       eraser_mark_free, Call, Running, AtMismatch, Panic, mtVars
  <2>3. CASE ((\E op \in {"ld", "st"} : Issue(<<word, op>>)) \/ Return) /\ UNCHANGED erVars
    BY <1>4, <2>0, <2>3 DEF Issue, Return, Running, AtMismatch
  <2>4. CASE eraser_handler
    BY <1>4, <2>0, <2>4 DEF eraser_handler, HandlerReturns, HandlerReports, ls_intersect,
       Panic
  <2>5. CASE ExecuteNoted
    BY <1>4, <2>0, <2>5 DEF ExecuteNoted, Execute
  <2>6. CASE (data_abort_memtrace \/ prefetch_abort_memtrace) /\ UNCHANGED erVars
    BY <1>4, <2>0, <2>6 DEF data_abort_memtrace, prefetch_abort_memtrace
  <2> QED
    BY <1>4, <2>1, <2>2, <2>3, <2>4, <2>5, <2>6
       DEF RunningStep, EraserProgram, EraserRuntime
<1>5. CASE Reset /\ pi' # "run"
  BY <1>5 DEF Reset, MemtraceReset
<1>6. CASE UNCHANGED <<prog, progVars>> /\ (pi = "run" => pi' = "run")
  BY <1>6 DEF progVars, mtVars, erVars, Legal, Alloced
<1> QED
  BY <1>1, <1>2, <1>3, <1>4, <1>5, <1>6, Steps DEF RunningStep

LEMMA CheckerInvariance == SysSpec => []CheckerInv
<1>1. SysInit => CheckerInv
  BY DEF SysInit, ProgInit, MemtraceInit, CheckerInv, Inited
<1>2. MachineInv /\ CheckerInv /\ [SysNext]_sysVars => CheckerInv'
  BY CheckerStep
<1> QED
  BY <1>1, <1>2, MachineInvariance, PTL DEF SysSpec

(* Under Purify no load or store of an address outside the allocated blocks is
   carried out, for every heap and every sequence of calls
   (checker-purify.c:1-4). *)
THEOREM PurifyIsSound == SysSpec => NoIllegalAccess
<1> DEFINE Sound == client = "purify" /\ client' = "purify" /\ pending # {} /\ pending' = {}
                      => \A a \in pending : Legal(a)
<1>1. ASSUME MachineInv, CheckerInv, [SysNext]_sysVars PROVE [Sound]_<<mtVars, blocks>>
  <2> SUFFICES ASSUME client = "purify", client' = "purify", pending # {}, pending' = {}
               PROVE  \A a \in pending : Legal(a)
    OBVIOUS
  <2>1. CASE RunningStep
    <3>1. prog = "purify"
      BY <1>1 DEF CheckerInv, Inited
    <3>2. cpu = "run" /\ ~Traps
      BY <1>1, <2>1, <3>1 DEF RunningStep, PurifyProgram, PurifyRuntime, purify_init,
         InitChecker, EnterAllocator, Issue, Return, Running, AllocReturns, FreeReturns,
         LeaveAllocator, purify_handler, HandlerReturns, HandlerReports, Machine, Execute,
         data_abort_memtrace, prefetch_abort_memtrace, Panic
    <3> QED
      BY <1>1, <3>2 DEF CheckerInv, MachineInv, Traps, Inited
  <2>2. CASE Reset
    BY <2>2 DEF Reset, MemtraceReset
  <2>3. CASE UNCHANGED <<prog, progVars>>
    BY <2>3 DEF progVars, mtVars
  <2> QED
    BY <1>1, <2>1, <2>2, <2>3, Steps
<1> QED
  BY <1>1, MachineInvariance, CheckerInvariance, PTL DEF SysSpec, NoIllegalAccess

(* The history of the locks: no access has been made without one, and while all
   were made under the same lock that lock is still a candidate. *)
HistoryInv ==
  /\ IsFiniteSet(used)
  /\ used = {} => candidates = Lock
  /\ \A l \in Lock : used = {l} => candidates = {l}

LEMMA HistoryStep ==
  ASSUME MachineInv, CheckerInv, ProgTypeOK, HistoryInv, [SysNext]_sysVars
  PROVE  HistoryInv'
<1>1. CASE UNCHANGED history
  BY <1>1 DEF HistoryInv, history
<1>2. CASE RunningStep /\ prog = "eraser" /\ ExecuteNoted /\ Inited
  <2>1. client = "eraser" /\ mode = "USER" /\ pending # {}
    BY <1>2 DEF CheckerInv, MachineInv, ExecuteNoted, Execute, Traps
  <2>2. PICK l \in Lock : lockset[cur_thread_id] = {l}
    BY <2>1 DEF CheckerInv, ProgTypeOK, EraserTypeOK
  <2>3. candidates' = candidates \cap {l} /\ used' = used \cup {l}
    BY <1>2, <2>2 DEF ExecuteNoted
  <2>4. IsFiniteSet(used')
    BY <2>3, FS_AddElement DEF HistoryInv
  <2>5. ASSUME NEW k \in Lock, used' = {k} PROVE candidates' = {k}
    BY <2>3, <2>5 DEF HistoryInv
  <2> QED
    BY <2>3, <2>4, <2>5 DEF HistoryInv
<1>3. CASE Reset
  BY <1>3, FS_EmptySet DEF Reset, EraserReset, HistoryInv
<1>4. CASE RunningStep
  BY <1>1, <1>2, <1>4
     DEF RunningStep, EraserProgram, EraserRuntime, eraser_init, eraser_set_thread_id,
         eraser_lock, eraser_unlock, eraser_mark_free, Call, EnterAlloc, LeaveAlloc,
         eraser_handler, ExecuteNoted, erVars, history
<1> QED
  BY <1>1, <1>3, <1>4, Steps DEF progVars, erVars, history

(* The trivial Eraser lets an unprotected access pass only if the program makes
   accesses under different locks, for any number of threads and of locks; with
   no lock at all there is no candidate to begin with. *)
THEOREM EraserMisses ==
  ASSUME Lock # {}
  PROVE  SysSpec => []MissesOnlyMixedLocks
<1>1. SysInit => HistoryInv
  BY FS_EmptySet DEF SysInit, ProgInit, EraserInit, HistoryInv
<1>2. MachineInv /\ CheckerInv /\ ProgTypeOK /\ HistoryInv /\ [SysNext]_sysVars => HistoryInv'
  BY HistoryStep
<1>3. ProgTypeOK /\ HistoryInv => MissesOnlyMixedLocks
  <2> SUFFICES ASSUME ProgTypeOK, HistoryInv, candidates = {} PROVE Cardinality(used) > 1
    BY DEF MissesOnlyMixedLocks
  <2>1. used # {} /\ \A l : used # {l}
    BY DEF HistoryInv, ProgTypeOK, EraserTypeOK
  <2>2. Cardinality(used) \in Nat /\ Cardinality(used) # 0 /\ Cardinality(used) # 1
    BY <2>1, FS_CardinalityType, FS_EmptySet, FS_Singleton DEF HistoryInv
  <2> QED
    BY <2>2
<1> QED
  BY <1>1, <1>2, <1>3, MachineInvariance, CheckerInvariance, ProgTypes, PTL DEF SysSpec
-----------------------------------------------------------------------------
(* The line *)

\* What the Pi, the host and the programs send.
Sent == {"GET_PROG_INFO", "GET_CODE", "BOOT_SUCCESS", "BOOT_ERROR", "BAD_CODE_ADDR",
         "BAD_CODE_CKSUM", "PRINT_STRING", "1", "x", "PUT_PROG_INFO", "ARMBASE", "n",
         "PUT_CODE", "bytes", "D", "O", "N", "E", "!", "nl"}
Word == Sent \cup Crcs \cup UNION {ToSet(s) : s \in Prints}
Byte == Word \X (0 .. 4)

LEMMA Words == Sent \subseteq Word /\ Crcs \subseteq Word /\ Prints \subseteq Seq(Word)
<1>1. Sent \subseteq Word /\ Crcs \subseteq Word
  BY DEF Word
<1>2. ASSUME NEW s \in Prints PROVE s \in Seq(Word)
  <2>1. s \in Seq(ToSet(s)) /\ ToSet(s) \subseteq Word
    BY PrintsAssumption DEF Word
  <2> QED
    BY <2>1, SeqMonotonic
<1> QED
  BY <1>1, <1>2

LEMMA Tuples ==
  ASSUME NEW S, NEW a \in S, NEW b \in S, NEW c \in S, NEW d \in S
  PROVE  /\ <<a>> \in Seq(S) /\ <<a, b>> \in Seq(S) /\ <<a, b, c>> \in Seq(S)
         /\ <<a, b, c, d>> \in Seq(S)
OBVIOUS

LineTypeOK ==
  /\ toHost \in Seq(Byte) /\ toPi \in Seq(Word) /\ crc \in Crcs
  /\ printed \in Seq(Word)

\* The words and characters that are sent.
LEMMA SentTypes ==
  /\ \A w \in Word : Bytes(w) \in Seq(Byte) /\ Len(Bytes(w)) = 4
  /\ \A s \in Seq(Word) : Chars(s) \in Seq(Byte) /\ Len(Chars(s)) = Len(s)
<1>1. ASSUME NEW n \in Nat, NEW f \in [1 .. n -> Byte] PROVE f \in Seq(Byte) /\ Len(f) = n
  <2>1. f \in Seq(Byte)
    BY SeqDef
  <2> QED
    BY <2>1, LenProperties
<1>2. ASSUME NEW w \in Word PROVE Bytes(w) \in Seq(Byte) /\ Len(Bytes(w)) = 4
  <2>1. \A i \in 1 .. 4 : <<w, i>> \in Byte
    <3>1. \A i \in 1 .. 4 : i \in 0 .. 4
      OBVIOUS
    <3> QED
      BY <3>1 DEF Byte
  <2>2. Bytes(w) \in [1 .. 4 -> Byte] /\ 4 \in Nat
    BY <2>1, Zenon DEF Bytes
  <2> QED
    BY <1>1, <2>2
<1>3. ASSUME NEW s \in Seq(Word) PROVE Chars(s) \in Seq(Byte) /\ Len(Chars(s)) = Len(s)
  <2>1. \A i \in 1 .. Len(s) : s[i] \in Word
    BY ElementOfSeq
  <2>2. Chars(s) \in [1 .. Len(s) -> Byte]
    BY <2>1 DEF Chars, Byte
  <2> QED
    BY <1>1, <2>2, LenProperties
<1> QED
  BY <1>2, <1>3

LEMMA ExitTypes == exit_string \in Seq(Word) /\ Len(exit_string) = 8
BY Words DEF exit_string, Sent

\* What reading n bytes leaves.
LEMMA DropIs ==
  ASSUME LineTypeOK, NEW n \in 0 .. Len(toHost)
  PROVE  /\ Drop(n) \in Seq(Byte) /\ Len(Drop(n)) = Len(toHost) - n
         /\ \A k \in 1 .. Len(toHost) - n : Drop(n)[k] = toHost[k + n]
<1>1. Len(toHost) \in Nat /\ \A i \in n + 1 .. Len(toHost) : toHost[i] \in Byte
  BY LenProperties, ElementOfSeq DEF LineTypeOK
<1>2. n + 1 \in Int /\ Len(toHost) \in Int
  BY <1>1
<1> QED
  BY <1>1, <1>2, SubSeqProperties DEF Drop

\* The host reads from the front of the line.
LEMMA HostReads ==
  ASSUME LineTypeOK, HostStep
  PROVE  \E n \in 0 .. Len(toHost) : toHost' = Drop(n)
<1> USE DEF Goto, Has
<1>0. Len(toHost) \in Nat
  BY LenProperties DEF LineTypeOK
<1>1. toHost = Drop(0) /\ <<>> = Drop(Len(toHost))
  BY <1>0, SubSeqFull, SubSeqEmpty DEF LineTypeOK, Drop
<1>2. CASE Answers \/ GetsRequest \/ GetsCksum \/ GetsResult \/ Discards
  BY <1>0, <1>2 DEF Answers, GetsRequest, GetsCksum, GetsResult, Discards, OpIs, OpIsNot, Op
<1>3. CASE Drains \/ ShowsString \/ ShowsRest \/ ReadFails
  BY <1>0, <1>1, <1>3 DEF Drains, ShowsString, ShowsRest, ReadFails, StringLength
<1>4. CASE pi_echo \/ tty_gone
  <2>1. UNCHANGED toHost \/ \E n \in 1 .. Len(toHost) : ReadsUpTo(n, pos)
    BY <1>4 DEF pi_echo, tty_gone
  <2>2. ASSUME NEW n \in 1 .. Len(toHost), ReadsUpTo(n, pos) PROVE toHost' = Drop(n)
    BY <2>2, Zenon DEF ReadsUpTo
  <2> QED
    BY <1>0, <1>1, <2>1, <2>2
<1>5. CASE PiprogSends \/ PiprogResult \/ PiprogGone
  BY <1>0, <1>1, <1>5 DEF PiprogSends, CheckUint, PiprogResult, PiprogGone
<1> QED
  BY <1>2, <1>3, <1>4, <1>5 DEF HostStep, simple_boot

\* What the host answers.
LEMMA HostSends ==
  ASSUME HostStep
  PROVE  \/ UNCHANGED toPi
         \/ toPi' = toPi \o <<"PUT_PROG_INFO", "ARMBASE", "n", crc>>
         \/ toPi' = toPi \o <<"PUT_PROG_INFO">>
         \/ toPi' = toPi \o <<"ARMBASE", "n", crc>>
         \/ host = "step3" /\ host' = "step5" /\ toPi' = toPi \o <<"PUT_CODE", "bytes">>
<1>1. CASE simple_boot \/ ReadFails
  BY <1>1 DEF simple_boot, Answers, Discards, Drains, GetsRequest, GetsCksum, GetsResult,
     ShowsString, ShowsRest, ReadFails, Goto
<1>2. CASE pi_echo \/ tty_gone
  BY <1>2 DEF pi_echo, tty_gone
<1>3. CASE PiprogSends \/ PiprogResult \/ PiprogGone
  BY <1>3 DEF PiprogSends, PiprogResult, PiprogGone, CheckUint, PutUint, Goto
<1> QED
  BY <1>1, <1>2, <1>3 DEF HostStep

LEMMA HostFrames == HostStep => HostFrame
BY DEF HostStep, simple_boot, Answers, Discards, Drains, GetsRequest, GetsCksum, GetsResult,
   ShowsString, ShowsRest, ReadFails, pi_echo, tty_gone, PiprogSends, PiprogResult, PiprogGone

\* The steps of the line within those of the system.
BootStep ==
  \/ PiAsks \/ PiAnswers \/ PiPrints \/ (\E s \in Prints : RunPrints(s)) \/ clean_reboot
  \/ PowerOff \/ PowerOn \/ HostStep \/ HostStarts

LEMMA BootSteps == [SysNext]_sysVars => [BootStep]_bootVars
BY DEF SysNext, sysVars, ProgramStep, Runtime, Runs, HelloPrints, Reboot, PowerFails, PiSerial,
   HostSerial, Outside, BootStep

\* Two words in a row.
LEMMA Concatenated ==
  ASSUME NEW a \in Seq(Byte), NEW b \in Seq(Byte)
  PROVE  /\ a \o b \in Seq(Byte) /\ Len(a \o b) = Len(a) + Len(b)
         /\ Len(a) \in Nat /\ Len(b) \in Nat
         /\ \A k \in 1 .. Len(a) + Len(b) : (a \o b)[k] = IF k <= Len(a) THEN a[k] ELSE b[k - Len(a)]
BY ConcatProperties, LenProperties

LEMMA TwoWords ==
  ASSUME NEW v \in Word, NEW w \in Word
  PROVE  /\ Bytes(v) \o Bytes(w) \in Seq(Byte)
         /\ Len(Bytes(v) \o Bytes(w)) = 8
         /\ \A k \in 1 .. 8 :
              (Bytes(v) \o Bytes(w))[k] = IF k <= 4 THEN <<v, k>> ELSE <<w, k - 4>>
<1> DEFINE a == Bytes(v)
           b == Bytes(w)
<1>1. a \in Seq(Byte) /\ b \in Seq(Byte) /\ Len(a) = 4 /\ Len(b) = 4
  BY SentTypes
<1>2. \A k \in 1 .. 4 : a[k] = <<v, k>> /\ b[k] = <<w, k>>
  BY Zenon DEF Bytes
<1> HIDE DEF a, b
<1>3. /\ a \o b \in Seq(Byte) /\ Len(a \o b) = Len(a) + Len(b)
      /\ \A k \in 1 .. Len(a) + Len(b) : (a \o b)[k] = IF k <= Len(a) THEN a[k] ELSE b[k - Len(a)]
  BY <1>1, Concatenated
<1>4. ASSUME NEW k \in 1 .. 8 PROVE (a \o b)[k] = IF k <= 4 THEN <<v, k>> ELSE <<w, k - 4>>
  <2>1. k \in 1 .. Len(a) + Len(b)
    BY <1>1
  <2>2. (a \o b)[k] = IF k <= Len(a) THEN a[k] ELSE b[k - Len(a)]
    BY <1>3, <2>1
  <2>3. k <= 4 => k \in 1 .. 4
    OBVIOUS
  <2>4. ~(k <= 4) => k - 4 \in 1 .. 4
    OBVIOUS
  <2> QED
    BY <1>1, <1>2, <2>2, <2>3, <2>4
<1>5. Len(a \o b) = 8
  BY <1>1, <1>3
<1> QED
  BY <1>3, <1>4, <1>5 DEF a, b

\* What is sent comes last.
LEMMA SendIs ==
  ASSUME LineTypeOK, NEW m \in Seq(Byte), Send(m)
  PROVE  /\ toHost' \in Seq(Byte) /\ Len(toHost') = Len(toHost) + Len(m)
         /\ Len(toHost) \in Nat /\ Len(m) \in Nat
         /\ DOMAIN toHost = 1 .. Len(toHost) /\ DOMAIN toHost' = 1 .. Len(toHost')
         /\ \A k \in 1 .. Len(toHost) + Len(m) :
              toHost'[k] = IF k <= Len(toHost) THEN toHost[k] ELSE m[k - Len(toHost)]
<1>1. toHost \in Seq(Byte) /\ toHost' = toHost \o m
  BY DEF LineTypeOK, Send
<1>2. /\ toHost \o m \in Seq(Byte) /\ Len(toHost \o m) = Len(toHost) + Len(m)
      /\ \A k \in 1 .. Len(toHost) + Len(m) :
           (toHost \o m)[k] = IF k <= Len(toHost) THEN toHost[k] ELSE m[k - Len(toHost)]
  BY <1>1, ConcatProperties
<1>3. Len(toHost) \in Nat /\ Len(m) \in Nat /\ DOMAIN toHost = 1 .. Len(toHost)
  BY <1>1, LenProperties
<1>4. toHost' \in Seq(Byte) /\ DOMAIN toHost' = 1 .. Len(toHost')
  BY <1>1, <1>2, LenProperties
<1> QED
  BY <1>1, <1>2, <1>3, <1>4

\* What the host sends comes last, too, and what the Pi reads comes off the front.
LEMMA WordsTypes ==
  ASSUME NEW s \in Seq(Word)
  PROVE  /\ \A ws \in Seq(Word) : s \o ws \in Seq(Word)
         /\ \A n \in Nat : n <= Len(s) => /\ SubSeq(s, n + 1, Len(s)) \in Seq(Word)
                                          /\ \A k \in DOMAIN SubSeq(s, n + 1, Len(s)) :
                                               /\ k + n \in DOMAIN s
                                               /\ SubSeq(s, n + 1, Len(s))[k] = s[k + n]
         /\ s # <<>> => Tail(s) = SubSeq(s, 2, Len(s)) /\ Len(s) >= 1
<1>1. \A ws \in Seq(Word) : s \o ws \in Seq(Word)
  BY ConcatProperties
<1>2. ASSUME NEW n \in Nat, n <= Len(s)
      PROVE  /\ SubSeq(s, n + 1, Len(s)) \in Seq(Word)
             /\ \A k \in DOMAIN SubSeq(s, n + 1, Len(s)) :
                  k + n \in DOMAIN s /\ SubSeq(s, n + 1, Len(s))[k] = s[k + n]
  <2>1. PICK z \in Nat : z = Len(s) /\ n <= z /\ DOMAIN s = 1 .. z
    BY <1>2, LenProperties
  <2>2. \A i \in n + 1 .. z : s[i] \in Word
    BY <2>1, ElementOfSeq
  <2>3. /\ SubSeq(s, n + 1, z) \in Seq(Word)
        /\ Len(SubSeq(s, n + 1, z)) = IF n + 1 <= z THEN z - (n + 1) + 1 ELSE 0
        /\ \A i \in 1 .. z - (n + 1) + 1 : SubSeq(s, n + 1, z)[i] = s[n + 1 + i - 1]
    BY <2>2, SubSeqProperties
  <2>4. DOMAIN SubSeq(s, n + 1, z) = 1 .. z - n
    BY <2>1, <2>3, LenProperties
  <2>5. \A k \in 1 .. z - n : k + n \in 1 .. z /\ SubSeq(s, n + 1, z)[k] = s[k + n]
    BY <2>1, <2>3
  <2> QED
    BY <2>1, <2>3, <2>4, <2>5
<1>3. s # <<>> => Tail(s) = SubSeq(s, 2, Len(s)) /\ Len(s) >= 1
  BY TailIsSubSeq, EmptySeq
<1> QED
  BY <1>1, <1>2, <1>3

LEMMA LineTypeStep ==
  ASSUME LineTypeOK, [SysNext]_sysVars
  PROVE  LineTypeOK'
<1>0. ASSUME NEW m \in Seq(Byte), Send(m) PROVE toHost' \in Seq(Byte)
  BY <1>0, SendIs
<1>t. /\ toHost \in Seq(Byte) /\ toPi \in Seq(Word) /\ crc \in Crcs /\ crc \in Word
      /\ printed \in Seq(Word) /\ <<>> \in Seq(Word) /\ <<>> \in Seq(Byte)
  BY EmptySeq, Words DEF LineTypeOK
<1>c. UNCHANGED crc
  BY BootSteps, HostFrames DEF BootStep, bootVars, PiAsks, PiAnswers, PiGetsInfo, PiGetsCode,
     PiDiscards, PiPrints, RunPrints, clean_reboot, PowerOff, PowerOn, PiFrame, HostStarts,
     HostFrame
<1>1. CASE PiAsks \/ PiPrints
  <2>1. \A m : Send(m) /\ m \in Seq(Byte) => LineTypeOK'
    BY <1>0, <1>1, <1>t, <1>c DEF PiAsks, PiPrints, PiFrame, LineTypeOK
  <2>2. Bytes("GET_PROG_INFO") \in Seq(Byte)
    BY SentTypes, Words DEF Sent
  <2>3. Bytes("PRINT_STRING") \o Bytes("1") \in Seq(Byte)
    BY TwoWords, Words DEF Sent
  <2>4. Chars(<<"x">>) \in Seq(Byte)
    BY Tuples, SentTypes, Words DEF Sent
  <2>5. (Bytes("PRINT_STRING") \o Bytes("1")) \o Chars(<<"x">>) \in Seq(Byte)
    BY <2>3, <2>4, Concatenated
  <2> QED
    BY <1>1, <2>1, <2>2, <2>5 DEF PiAsks, PiPrints
<1>2. CASE PiGetsInfo
  <2>1. toPi[4] \in Word /\ SubSeq(toPi, 4 + 1, Len(toPi)) \in Seq(Word)
    <3>1. Len(toPi) >= 4 /\ 4 \in Nat /\ Len(toPi) \in Nat
      BY <1>2, <1>t, LenProperties DEF PiGetsInfo
    <3> QED
      BY <1>t, <3>1, WordsTypes, ElementOfSeq
  <2>2. \E v, w \in Word : Send(Bytes(v) \o Bytes(w))
    BY <1>2, <2>1, Words DEF PiGetsInfo, Refuse, Sent
  <2>3. toHost' \in Seq(Byte)
    BY <1>0, <2>2, TwoWords
  <2> QED
    BY <1>2, <1>t, <1>c, <2>1, <2>3 DEF PiGetsInfo, PiFrame, LineTypeOK
<1>3. CASE PiGetsCode
  <2>1. SubSeq(toPi, 2 + 1, Len(toPi)) \in Seq(Word)
    <3>1. Len(toPi) >= 2 /\ 2 \in Nat
      BY <1>3 DEF PiGetsCode
    <3> QED
      BY <1>t, <3>1, WordsTypes
  <2>2. toHost' \in Seq(Byte)
    <3>1. Bytes("BOOT_SUCCESS") \in Seq(Byte)
      BY SentTypes, Words DEF Sent
    <3>2. Bytes("BOOT_ERROR") \o Bytes("BAD_CODE_CKSUM") \in Seq(Byte)
      BY TwoWords, Words DEF Sent
    <3> QED
      BY <1>0, <1>3, <3>1, <3>2 DEF PiGetsCode, Refuse
  <2> QED
    BY <1>3, <1>t, <1>c, <2>1, <2>2 DEF PiGetsCode, LineTypeOK
<1>4. CASE PiDiscards
  <2>1. Tail(toPi) \in Seq(Word)
    BY <1>4, <1>t, HeadTailProperties DEF PiDiscards
  <2> QED
    BY <1>4, <1>t, <1>c, <2>1 DEF PiDiscards, PiFrame, LineTypeOK
<1>5. CASE \E s \in Prints : RunPrints(s)
  <2>1. PICK s \in Prints : RunPrints(s)
    BY <1>5
  <2>2. s \in Seq(Word)
    BY Words
  <2>3. toHost' \in Seq(Byte)
    BY <1>0, <2>1, <2>2, SentTypes DEF RunPrints
  <2> QED
    BY <1>t, <1>c, <2>1, <2>2, <2>3, WordsTypes DEF RunPrints, LineTypeOK
<1>6. CASE clean_reboot
  <2>1. exit_string \in Seq(Word)
    BY ExitTypes
  <2>2. toHost' \in Seq(Byte)
    BY <1>0, <1>6, <2>1, SentTypes DEF clean_reboot
  <2> QED
    BY <1>6, <1>t, <1>c, <2>2 DEF clean_reboot, PiFrame, LineTypeOK
<1>7. CASE PowerOff \/ PowerOn
  BY <1>7, <1>t, <1>c DEF PowerOff, PowerOn, PiFrame, LineTypeOK
<1>8. CASE HostStep
  <2>1. toHost' \in Seq(Byte)
    BY <1>8, HostReads, DropIs
  <2>2. /\ <<"PUT_PROG_INFO", "ARMBASE", "n", crc>> \in Seq(Word)
        /\ <<"PUT_PROG_INFO">> \in Seq(Word) /\ <<"ARMBASE", "n", crc>> \in Seq(Word)
        /\ <<"PUT_CODE", "bytes">> \in Seq(Word)
    BY <1>t, Tuples, Words DEF Sent
  <2>3. toPi' \in Seq(Word)
    BY <1>8, <1>t, <2>2, HostSends, WordsTypes
  <2> QED
    BY <1>8, <1>t, <1>c, <2>1, <2>3, HostFrames DEF HostFrame, LineTypeOK
<1>9. CASE HostStarts
  <2>1. PICK k \in 0 .. 3 : Has(k) /\ toHost' = Drop(k)
    BY <1>9 DEF HostStarts
  <2>2. k \in 0 .. Len(toHost)
    BY <1>t, <2>1, LenProperties DEF Has
  <2>3. toHost' \in Seq(Byte)
    BY <2>1, <2>2, DropIs
  <2> QED
    BY <1>9, <1>t, <1>c, <2>3 DEF HostStarts, LineTypeOK
<1>10. CASE UNCHANGED bootVars
  BY <1>10, <1>t DEF bootVars, LineTypeOK
<1> QED
  BY <1>1, <1>2, <1>3, <1>4, <1>5, <1>6, <1>7, <1>8, <1>9, <1>10, BootSteps DEF BootStep, PiAnswers

(* What is on the line.  The Pi falls silent once it has sent a GET_CODE, so
   nothing follows one and its checksum; it goes on only when a PUT_CODE reaches
   it, and that is on its way only while the host waits for the result in front of
   an empty line.  So the result the host reads is the answer to what it sent. *)
LineInv ==
  /\ \A k \in DOMAIN toHost : toHost[k] = <<"GET_CODE", 1>> =>
       Len(toHost) - k <= 7 /\ pi \in {"code", "off"}
  /\ \A k \in DOMAIN toPi : toPi[k] = "PUT_CODE" =>
       \/ pi = "off"
       \/ /\ pi = "code" /\ host = "step5" /\ toHost = <<>>
          /\ k = Len(toPi) - 1
  /\ host = "step3" => Len(toHost) <= 4 /\ pi \in {"code", "off"}
  /\ host = "step5" =>
       \/ started
       \/ toHost = <<>> /\ pi \in {"code", "off"}
       \/ Has(4) /\ \A k \in 1 .. 4 : toHost[k] = <<"BOOT_ERROR", k>>

\* The Pi sends something else than a GET_CODE while it is not waiting for code.
LEMMA PiSends ==
  ASSUME LineTypeOK, LineInv, NEW m \in Seq(Byte), Send(m),
         \A k \in 1 .. Len(m) : m[k] # <<"GET_CODE", 1>>,
         pi \in {"ask", "run"}, pi' \in {"ask", "run"}, UNCHANGED <<host, started>>,
         toPi' \in Seq(Word), \A k \in DOMAIN toPi' : toPi'[k] # "PUT_CODE"
  PROVE  LineInv'
<1>1. /\ Len(toHost') = Len(toHost) + Len(m) /\ Len(toHost) \in Nat /\ Len(m) \in Nat
      /\ DOMAIN toHost = 1 .. Len(toHost) /\ DOMAIN toHost' = 1 .. Len(toHost')
      /\ \A k \in 1 .. Len(toHost) + Len(m) :
           toHost'[k] = IF k <= Len(toHost) THEN toHost[k] ELSE m[k - Len(toHost)]
  BY SendIs
<1>2. /\ \A k \in DOMAIN toHost : toHost[k] # <<"GET_CODE", 1>>
      /\ host # "step3"
      /\ host = "step5" =>
           \/ started
           \/ Len(toHost) >= 4 /\ \A k \in 1 .. 4 : toHost[k] = <<"BOOT_ERROR", k>>
  BY DEF LineInv, Has
<1>3. \A k \in DOMAIN toHost' : toHost'[k] # <<"GET_CODE", 1>>
  <2> SUFFICES ASSUME NEW k \in DOMAIN toHost' PROVE toHost'[k] # <<"GET_CODE", 1>>
    OBVIOUS
  <2>1. k \in 1 .. Len(toHost) + Len(m)
    BY <1>1
  <2>2. CASE k <= Len(toHost)
    <3>1. k \in DOMAIN toHost /\ toHost'[k] = toHost[k]
      BY <1>1, <2>1, <2>2
    <3> QED
      BY <1>2, <3>1
  <2>3. CASE ~(k <= Len(toHost))
    <3>1. k - Len(toHost) \in 1 .. Len(m)
      BY <1>1, <2>1, <2>3
    <3> QED
      BY <1>1, <2>1, <2>3, <3>1
  <2> QED
    BY <2>2, <2>3
<1>4. Len(toHost) >= 4 /\ (\A k \in 1 .. 4 : toHost[k] = <<"BOOT_ERROR", k>>) =>
        Len(toHost') >= 4 /\ \A k \in 1 .. 4 : toHost'[k] = <<"BOOT_ERROR", k>>
  BY <1>1
<1> QED
  BY <1>2, <1>3, <1>4 DEF LineInv, Has

\* None of what the Pi sends, save the GET_CODE itself, looks like one.
LEMMA NoCodeIn ==
  /\ \A w \in Word : w # "GET_CODE" =>
       \A k \in 1 .. 4 : Bytes(w)[k] # <<"GET_CODE", 1>>
  /\ \A s \in Seq(Word) : \A k \in 1 .. Len(s) : Chars(s)[k] # <<"GET_CODE", 1>>
<1>1. ASSUME NEW w \in Word, w # "GET_CODE", NEW k \in 1 .. 4
      PROVE  Bytes(w)[k] # <<"GET_CODE", 1>>
  <2>1. Bytes(w)[k] = <<w, k>>
    BY Zenon DEF Bytes
  <2> QED
    BY <1>1, <2>1
<1>2. ASSUME NEW s \in Seq(Word), NEW k \in 1 .. Len(s)
      PROVE  Chars(s)[k] # <<"GET_CODE", 1>>
  <2>1. Chars(s)[k] = <<s[k], 0>>
    BY Zenon DEF Chars
  <2> QED
    BY <2>1
<1> QED
  BY <1>1, <1>2

LEMMA PiGetsInfoLine ==
  ASSUME LineTypeOK, LineInv, PiGetsInfo
  PROVE  LineInv'
<1>1. /\ pi = "ask" /\ Len(toPi) >= 4 /\ UNCHANGED <<host, started>>
      /\ toPi \in Seq(Word) /\ toPi' = SubSeq(toPi, 4 + 1, Len(toPi))
  BY DEF PiGetsInfo, PiFrame, LineTypeOK
<1>2. /\ \A k \in DOMAIN toHost : toHost[k] # <<"GET_CODE", 1>>
      /\ \A k \in DOMAIN toPi : toPi[k] # "PUT_CODE"
      /\ host # "step3"
      /\ host = "step5" =>
           started \/ (Len(toHost) >= 4 /\ \A k \in 1 .. 4 : toHost[k] = <<"BOOT_ERROR", k>>)
  BY <1>1 DEF LineInv, Has
<1>3. \A k \in DOMAIN toPi' : toPi'[k] # "PUT_CODE"
  <2>1. 4 \in Nat
    OBVIOUS
  <2> QED
    BY <1>1, <1>2, <2>1, WordsTypes
<1>4. CASE Refuse("BAD_CODE_ADDR")
  <2> DEFINE m == Bytes("BOOT_ERROR") \o Bytes("BAD_CODE_ADDR")
  <2>1. /\ m \in Seq(Byte) /\ Len(m) = 8
        /\ \A k \in 1 .. 8 : m[k] = IF k <= 4 THEN <<"BOOT_ERROR", k>> ELSE <<"BAD_CODE_ADDR", k - 4>>
    <3>1. "BOOT_ERROR" \in Word /\ "BAD_CODE_ADDR" \in Word
      BY Words DEF Sent
    <3> QED
      BY <3>1, TwoWords, Zenon
  <2>2. Send(m) /\ pi' = "ask"
    BY <1>4 DEF Refuse
  <2> HIDE DEF m
  <2>3. \A k \in 1 .. Len(m) : m[k] # <<"GET_CODE", 1>>
    BY <2>1
  <2>4. toPi' \in Seq(Word)
    <3>1. 4 \in Nat
      OBVIOUS
    <3> QED
      BY <1>1, <3>1, WordsTypes
  <2> QED
    BY <1>1, <1>3, <2>1, <2>2, <2>3, <2>4, PiSends
<1>5. CASE Send(Bytes("GET_CODE") \o Bytes(toPi[4])) /\ pi' = "code"
  <2>1. toPi[4] \in Word
    <3>1. 4 \in 1 .. Len(toPi)
      BY <1>1, LenProperties
    <3> QED
      BY <1>1, <3>1, ElementOfSeq
  <2> DEFINE m == Bytes("GET_CODE") \o Bytes(toPi[4])
  <2>2. m \in Seq(Byte) /\ Len(m) = 8
    BY <2>1, TwoWords, Words DEF Sent
  <2>3. Send(m)
    BY <1>5
  <2> HIDE DEF m
  <2>4. /\ Len(toHost') = Len(toHost) + 8 /\ Len(toHost) \in Nat
        /\ DOMAIN toHost = 1 .. Len(toHost) /\ DOMAIN toHost' = 1 .. Len(toHost')
        /\ \A k \in 1 .. Len(toHost) + 8 :
             toHost'[k] = IF k <= Len(toHost) THEN toHost[k] ELSE m[k - Len(toHost)]
    BY <2>2, <2>3, SendIs
  <2>5. ASSUME NEW k \in DOMAIN toHost', toHost'[k] = <<"GET_CODE", 1>>
        PROVE  Len(toHost') - k <= 7
    BY <1>2, <2>4, <2>5
  <2>6. Len(toHost) >= 4 /\ (\A k \in 1 .. 4 : toHost[k] = <<"BOOT_ERROR", k>>) =>
          Len(toHost') >= 4 /\ \A k \in 1 .. 4 : toHost'[k] = <<"BOOT_ERROR", k>>
    BY <2>4
  <2> QED
    BY <1>1, <1>2, <1>3, <1>5, <2>5, <2>6 DEF LineInv, Has
<1> QED
  BY <1>4, <1>5 DEF PiGetsInfo

LEMMA PiGetsCodeLine ==
  ASSUME LineTypeOK, LineInv, PiGetsCode
  PROVE  LineInv'
<1>1. /\ pi = "code" /\ Len(toPi) >= 2 /\ toPi[1] = "PUT_CODE" /\ UNCHANGED host
      /\ toPi \in Seq(Word) /\ toPi' = SubSeq(toPi, 2 + 1, Len(toPi))
  BY DEF PiGetsCode, LineTypeOK
<1>2. 1 \in DOMAIN toPi /\ 2 \in Nat
  BY <1>1, LenProperties
<1>3. /\ host = "step5" /\ toHost = <<>>
      /\ \A j \in DOMAIN toPi : toPi[j] = "PUT_CODE" => j = 1
  BY <1>1, <1>2 DEF LineInv
<1>4. \A k \in DOMAIN toPi' : toPi'[k] # "PUT_CODE"
  <2>1. \A k \in DOMAIN toPi' : k + 2 \in DOMAIN toPi /\ toPi'[k] = toPi[k + 2]
    BY <1>1, <1>2, WordsTypes
  <2>2. \A k \in DOMAIN toPi' : k \in Nat /\ k >= 1
    BY <1>1, <1>2, WordsTypes, LenProperties
  <2> QED
    BY <1>3, <2>1, <2>2
<1>5. ASSUME NEW m \in Seq(Byte), Send(m)
      PROVE  /\ DOMAIN toHost' = 1 .. Len(m) /\ Len(m) \in Nat /\ Len(toHost') = Len(m)
             /\ \A k \in 1 .. Len(m) : toHost'[k] = m[k]
  <2>1. toHost' = m
    BY <1>3, <1>5, ConcatEmptySeq DEF Send
  <2> QED
    BY <2>1, LenProperties
<1>6. CASE Send(Bytes("BOOT_SUCCESS")) /\ pi' = "run" /\ started' = TRUE
  <2>1. /\ Bytes("BOOT_SUCCESS") \in Seq(Byte) /\ Len(Bytes("BOOT_SUCCESS")) = 4
        /\ \A k \in 1 .. 4 : Bytes("BOOT_SUCCESS")[k] # <<"GET_CODE", 1>>
    BY SentTypes, NoCodeIn, Words DEF Sent
  <2>2. \A k \in DOMAIN toHost' : toHost'[k] # <<"GET_CODE", 1>>
    BY <1>5, <1>6, <2>1
  <2> QED
    BY <1>1, <1>3, <1>4, <1>6, <2>2 DEF LineInv
<1>7. CASE Refuse("BAD_CODE_CKSUM")
  <2> DEFINE m == Bytes("BOOT_ERROR") \o Bytes("BAD_CODE_CKSUM")
  <2>1. /\ m \in Seq(Byte) /\ Len(m) = 8
        /\ \A k \in 1 .. 8 : m[k] = IF k <= 4 THEN <<"BOOT_ERROR", k>> ELSE <<"BAD_CODE_CKSUM", k - 4>>
    <3>1. "BOOT_ERROR" \in Word /\ "BAD_CODE_CKSUM" \in Word
      BY Words DEF Sent
    <3> QED
      BY <3>1, TwoWords, Zenon
  <2>2. Send(m) /\ pi' = "ask"
    BY <1>7 DEF Refuse
  <2> HIDE DEF m
  <2>3. /\ DOMAIN toHost' = 1 .. 8 /\ Len(toHost') = 8
        /\ \A k \in 1 .. 8 : toHost'[k] = m[k]
    BY <1>5, <2>1, <2>2
  <2>4. \A k \in DOMAIN toHost' : toHost'[k] # <<"GET_CODE", 1>>
    BY <2>1, <2>3
  <2>5. Len(toHost') >= 4 /\ \A k \in 1 .. 4 : toHost'[k] = <<"BOOT_ERROR", k>>
    BY <2>1, <2>3
  <2> QED
    BY <1>1, <1>3, <1>4, <2>2, <2>4, <2>5 DEF LineInv, Has
<1> QED
  BY <1>6, <1>7 DEF PiGetsCode

LEMMA PiDiscardsLine ==
  ASSUME LineTypeOK, LineInv, PiDiscards
  PROVE  LineInv'
<1>1. /\ toPi \in Seq(Word) /\ toPi # <<>> /\ toPi' = Tail(toPi)
      /\ UNCHANGED <<toHost, pi, host, started>>
  BY DEF PiDiscards, PiFrame, LineTypeOK
<1>2. /\ toPi' = SubSeq(toPi, 1 + 1, Len(toPi)) /\ 1 <= Len(toPi) /\ 1 \in Nat
  BY <1>1, WordsTypes
<1>3. \A k \in DOMAIN toPi' : k + 1 \in DOMAIN toPi /\ toPi'[k] = toPi[k + 1]
  BY <1>1, <1>2, WordsTypes
<1>4. \A k \in DOMAIN toPi' : k \in Nat
  BY <1>1, <1>2, WordsTypes, LenProperties
<1> QED
  BY <1>1, <1>3, <1>4 DEF LineInv, Has

\* The program prints; the program or the power ends.
LEMMA PiEndsLine ==
  ASSUME LineTypeOK, LineTypeOK',
         LineInv, (\E s \in Prints : RunPrints(s)) \/ clean_reboot \/ PowerOff \/ PowerOn
  PROVE  LineInv'
<1>1. CASE \E s \in Prints : RunPrints(s)
  <2>1. PICK s \in Seq(Word) : RunPrints(s)
    BY <1>1, Words
  <2>2. Chars(s) \in Seq(Byte) /\ \A k \in 1 .. Len(Chars(s)) : Chars(s)[k] # <<"GET_CODE", 1>>
    BY SentTypes, NoCodeIn
  <2>3. /\ pi \in {"ask", "run"} /\ pi' \in {"ask", "run"} /\ UNCHANGED <<host, started>>
        /\ Send(Chars(s)) /\ UNCHANGED toPi /\ pi = "run"
    BY <2>1 DEF RunPrints
  <2>4. toPi' \in Seq(Word) /\ \A k \in DOMAIN toPi' : toPi'[k] # "PUT_CODE"
    BY <2>3 DEF LineInv, LineTypeOK
  <2> QED
    BY <2>2, <2>3, <2>4, PiSends
<1>2. CASE clean_reboot
  <2>1. /\ Chars(exit_string) \in Seq(Byte)
        /\ \A k \in 1 .. Len(Chars(exit_string)) : Chars(exit_string)[k] # <<"GET_CODE", 1>>
    BY SentTypes, NoCodeIn, ExitTypes
  <2>2. /\ pi \in {"ask", "run"} /\ pi' \in {"ask", "run"} /\ UNCHANGED <<host, started>>
        /\ Send(Chars(exit_string)) /\ toPi' = <<>>
    BY <1>2 DEF clean_reboot, PiFrame
  <2>3. toPi' \in Seq(Word) /\ \A k \in DOMAIN toPi' : toPi'[k] # "PUT_CODE"
    BY <2>2, EmptySeq
  <2> QED
    BY <2>1, <2>2, <2>3, PiSends
<1>3. CASE PowerOff \/ PowerOn
  <2>1. \A k \in DOMAIN <<>> : FALSE
    OBVIOUS
  <2> QED
    BY <1>3, <2>1 DEF PowerOff, PowerOn, PiFrame, LineInv, Has, HostEnded
<1> QED
  BY <1>1, <1>2, <1>3

LEMMA PiAsksLine ==
  ASSUME LineTypeOK, LineInv, PiAsks \/ PiPrints
  PROVE  LineInv'
<1>1. /\ pi \in {"ask", "run"} /\ pi' \in {"ask", "run"} /\ UNCHANGED <<host, started>>
      /\ UNCHANGED toPi /\ toPi' = <<>>
  BY DEF PiAsks, PiPrints, PiFrame
<1>2. toPi' \in Seq(Word) /\ \A k \in DOMAIN toPi' : toPi'[k] # "PUT_CODE"
  BY <1>1, EmptySeq
<1>3. CASE PiAsks
  <2>1. /\ Bytes("GET_PROG_INFO") \in Seq(Byte) /\ Len(Bytes("GET_PROG_INFO")) = 4
        /\ \A k \in 1 .. 4 : Bytes("GET_PROG_INFO")[k] # <<"GET_CODE", 1>>
    BY SentTypes, NoCodeIn, Words DEF Sent
  <2>2. Send(Bytes("GET_PROG_INFO"))
    BY <1>3 DEF PiAsks
  <2> QED
    BY <1>1, <1>2, <2>1, <2>2, PiSends
<1>4. CASE PiPrints
  <2> DEFINE a == Bytes("PRINT_STRING") \o Bytes("1")
             b == Chars(<<"x">>)
  <2>1. /\ a \in Seq(Byte) /\ Len(a) = 8
        /\ \A k \in 1 .. 8 : a[k] = IF k <= 4 THEN <<"PRINT_STRING", k>> ELSE <<"1", k - 4>>
    <3>1. "PRINT_STRING" \in Word /\ "1" \in Word
      BY Words DEF Sent
    <3> QED
      BY <3>1, TwoWords, Zenon
  <2>2. b \in Seq(Byte) /\ \A k \in 1 .. Len(b) : b[k] # <<"GET_CODE", 1>>
    <3>1. <<"x">> \in Seq(Word)
      BY Tuples, Words DEF Sent
    <3> QED
      BY <3>1, SentTypes, NoCodeIn
  <2>3. Send(a \o b)
    BY <1>4 DEF PiPrints
  <2> HIDE DEF a, b
  <2>4. /\ a \o b \in Seq(Byte) /\ Len(a \o b) = Len(a) + Len(b) /\ Len(b) \in Nat
        /\ \A k \in 1 .. Len(a) + Len(b) :
             (a \o b)[k] = IF k <= Len(a) THEN a[k] ELSE b[k - Len(a)]
    BY <2>1, <2>2, Concatenated
  <2>5. \A k \in 1 .. Len(a \o b) : (a \o b)[k] # <<"GET_CODE", 1>>
    BY <2>1, <2>2, <2>4
  <2> QED
    BY <1>1, <1>2, <2>3, <2>4, <2>5, PiSends
<1> QED
  BY <1>3, <1>4

\* The word at the front of the line.
LEMMA WordIs ==
  /\ \A w : WordAt(0) = w /\ w # "junk" => \A k \in 1 .. 4 : toHost[k] = <<w, k>>
  /\ \A w : (\A k \in 1 .. 4 : toHost[k] = <<w, k>>) => WordAt(0) = w
<1>1. ASSUME NEW w, WordAt(0) = w, w # "junk", NEW k \in 1 .. 4 PROVE toHost[k] = <<w, k>>
  <2>1. PICK i \in 0 .. 3 : k = 0 + 1 + i /\ k = i + 1
    OBVIOUS
  <2>2. toHost[0 + 1][1] = w
    BY <1>1 DEF WordAt
  <2>3. toHost[0 + 1 + i] = <<toHost[0 + 1][1], i + 1>>
    BY <1>1 DEF WordAt
  <2> QED
    BY <2>1, <2>2, <2>3
<1>2. ASSUME NEW w, \A k \in 1 .. 4 : toHost[k] = <<w, k>> PROVE WordAt(0) = w
  <2>1. toHost[0 + 1][1] = w
    BY <1>2
  <2>2. ASSUME NEW i \in 0 .. 3 PROVE toHost[0 + 1 + i] = <<toHost[0 + 1][1], i + 1>>
    <3>1. 0 + 1 + i \in 1 .. 4 /\ 0 + 1 + i = i + 1
      OBVIOUS
    <3> QED
      BY <1>2, <2>1, <3>1
  <2> QED
    BY <2>1, <2>2 DEF WordAt
<1> QED
  BY <1>1, <1>2

\* How the host comes to wait for the checksum and for the result.
LEMMA HostGetsThere ==
  ASSUME HostStep
  PROVE  /\ host' = "step3" /\ host # "step3" =>
              Has(4) /\ WordAt(0) = "GET_CODE" /\ toHost' = Drop(4)
         /\ host' = "step5" /\ host # "step5" =>
              host = "step3" /\ Has(4) /\ toHost' = Drop(4)
         /\ host' = "step5" /\ host = "step5" => Has(4) /\ WordAt(0) = "PRINT_STRING"
         /\ host = "step5" =>
              Has(4) \/ pi = "off" \/ (pi = "code" /\ toPi = <<>>) \/ pi = "run"
         /\ host = "step5" /\ host' \in {"echo", "listen"} => Has(4) /\ WordAt(0) # "BOOT_ERROR"
         /\ host' \in {"echo", "listen"} => host \in {"step5", "echo", "listen"}
<1> USE DEF Goto
<1>1. CASE Answers \/ Discards \/ Drains \/ GetsRequest \/ GetsCksum \/ GetsResult
  BY <1>1 DEF Answers, Discards, Drains, GetsRequest, GetsCksum, GetsResult, OpIs, OpIsNot, Op
<1>2. CASE ShowsString \/ ShowsRest \/ ReadFails
  BY <1>2 DEF ShowsString, ShowsRest, ReadFails, Quiet, OpIs, Op, GetsOp
<1>3. CASE pi_echo \/ tty_gone
  BY <1>3 DEF pi_echo, tty_gone
<1>4. CASE PiprogSends \/ PiprogResult \/ PiprogGone
  BY <1>4 DEF PiprogSends, CheckUint, PiprogResult, PiprogGone
<1> QED
  BY <1>1, <1>2, <1>3, <1>4 DEF HostStep, simple_boot

LEMMA HostLine ==
  ASSUME "PUT_CODE" \notin Crcs, LineTypeOK, LineTypeOK', LineInv, HostStep
  PROVE  LineInv'
<1>1. PICK n \in 0 .. Len(toHost) : toHost' = Drop(n)
  BY HostReads
<1>2. /\ Len(toHost) \in Nat /\ DOMAIN toHost = 1 .. Len(toHost)
      /\ Len(toHost') = Len(toHost) - n /\ DOMAIN toHost' = 1 .. Len(toHost')
      /\ \A k \in 1 .. Len(toHost) - n : toHost'[k] = toHost[k + n]
  BY <1>1, DropIs, LenProperties DEF LineTypeOK
<1>3. UNCHANGED <<pi, started>>
  BY HostFrames DEF HostFrame
<1>4. ASSUME NEW k \in DOMAIN toHost', toHost'[k] = <<"GET_CODE", 1>>
      PROVE  Len(toHost') - k <= 7 /\ pi' \in {"code", "off"}
  <2>1. k + n \in DOMAIN toHost /\ toHost[k + n] = <<"GET_CODE", 1>>
    BY <1>2, <1>4
  <2>2. Len(toHost) - (k + n) <= 7 /\ pi \in {"code", "off"}
    BY <2>1 DEF LineInv
  <2> QED
    BY <1>2, <1>3, <2>2
<1>5. host = "step5" /\ toHost = <<>> /\ pi = "code" => toPi = <<>>
  BY HostGetsThere, EmptySeq DEF Has
<1>6. \A k \in DOMAIN toPi : toPi[k] = "PUT_CODE" => pi = "off"
  <2>1. toPi = <<>> => DOMAIN toPi = {}
    OBVIOUS
  <2> QED
    BY <1>5, <2>1 DEF LineInv
<1>7. host = "step3" /\ Has(4) => Len(Drop(4)) = 0 /\ pi \in {"code", "off"}
  <2>1. host = "step3" /\ Has(4) => Len(toHost) = 4 /\ pi \in {"code", "off"}
    BY <1>2 DEF LineInv, Has
  <2>2. Len(toHost) = 4 => Len(Drop(4)) = Len(toHost) - 4
    BY DropIs
  <2> QED
    BY <2>1, <2>2
<1>8. host' = "step5" /\ host # "step5" => toHost' = <<>> /\ pi' \in {"code", "off"}
  <2>1. Len(toHost') = 0 => toHost' = <<>>
    BY EmptySeq DEF LineTypeOK
  <2> QED
    BY <1>3, <1>7, <2>1, HostGetsThere
<1>9. ASSUME NEW k \in DOMAIN toPi', toPi'[k] = "PUT_CODE", pi' # "off"
      PROVE  /\ pi' = "code" /\ host' = "step5" /\ toHost' = <<>>
             /\ k = Len(toPi') - 1
  <2>1. \A j \in DOMAIN toPi : toPi[j] # "PUT_CODE"
    BY <1>3, <1>6, <1>9
  <2>2. ASSUME NEW ws \in Seq(Word), toPi' = toPi \o ws
        PROVE  /\ Len(toPi) \in Nat /\ DOMAIN toPi' = 1 .. Len(toPi) + Len(ws)
               /\ \A j \in DOMAIN toPi' : toPi'[j] = "PUT_CODE" =>
                    ~(j <= Len(toPi)) /\ toPi'[j] = ws[j - Len(toPi)]
    <3>1. /\ Len(toPi) \in Nat /\ DOMAIN toPi = 1 .. Len(toPi) /\ Len(ws) \in Nat
          /\ Len(toPi') = Len(toPi) + Len(ws) /\ DOMAIN toPi' = 1 .. Len(toPi')
          /\ \A j \in 1 .. Len(toPi) + Len(ws) :
               toPi'[j] = IF j <= Len(toPi) THEN toPi[j] ELSE ws[j - Len(toPi)]
      <4>1. toPi \in Seq(Word) /\ toPi' \in Seq(Word)
        BY DEF LineTypeOK
      <4>2. /\ Len(toPi \o ws) = Len(toPi) + Len(ws)
            /\ \A j \in 1 .. Len(toPi) + Len(ws) :
                 (toPi \o ws)[j] = IF j <= Len(toPi) THEN toPi[j] ELSE ws[j - Len(toPi)]
        BY <4>1, ConcatProperties
      <4> QED
        BY <2>2, <4>1, <4>2, LenProperties
    <3> QED
      BY <2>1, <3>1
  <2>3. crc \in Word /\ crc # "PUT_CODE"
    BY Words DEF LineTypeOK
  <2>4. CASE UNCHANGED toPi
    BY <1>9, <2>1, <2>4
  <2>5. CASE \/ toPi' = toPi \o <<"PUT_PROG_INFO">>
             \/ toPi' = toPi \o <<"ARMBASE", "n", crc>>
             \/ toPi' = toPi \o <<"PUT_PROG_INFO", "ARMBASE", "n", crc>>
    <3>1. PICK ws \in Seq(Word) : /\ toPi' = toPi \o ws
                                  /\ \A j \in 1 .. Len(ws) : ws[j] # "PUT_CODE"
      <4>1. /\ <<"PUT_PROG_INFO">> \in Seq(Word) /\ <<"ARMBASE", "n", crc>> \in Seq(Word)
            /\ <<"PUT_PROG_INFO", "ARMBASE", "n", crc>> \in Seq(Word)
        BY <2>3, Tuples, Words DEF Sent
      <4>2. /\ \A j \in 1 .. 1 : <<"PUT_PROG_INFO">>[j] # "PUT_CODE"
            /\ \A j \in 1 .. 3 : <<"ARMBASE", "n", crc>>[j] # "PUT_CODE"
            /\ \A j \in 1 .. 4 : <<"PUT_PROG_INFO", "ARMBASE", "n", crc>>[j] # "PUT_CODE"
        BY <2>3
      <4> QED
        BY <2>5, <4>1, <4>2
    <3>2. /\ Len(toPi) \in Nat /\ k \in 1 .. Len(toPi) + Len(ws) /\ Len(ws) \in Nat
          /\ ~(k <= Len(toPi)) /\ toPi'[k] = ws[k - Len(toPi)]
      BY <1>9, <2>2, <3>1, LenProperties
    <3>3. k - Len(toPi) \in 1 .. Len(ws)
      BY <3>2
    <3> QED
      BY <1>9, <3>1, <3>2, <3>3
  <2>6. CASE host = "step3" /\ host' = "step5" /\ toPi' = toPi \o <<"PUT_CODE", "bytes">>
    <3>1. <<"PUT_CODE", "bytes">> \in Seq(Word)
      BY Tuples, Words DEF Sent
    <3>2. PICK ws \in Seq(Word) : ws = <<"PUT_CODE", "bytes">>
      BY <3>1
    <3>3. Len(ws) = 2 /\ ws[2] # "PUT_CODE"
      BY <3>2
    <3>4. /\ Len(toPi) \in Nat /\ DOMAIN toPi' = 1 .. Len(toPi) + 2
          /\ \A j \in DOMAIN toPi' : toPi'[j] = "PUT_CODE" =>
               ~(j <= Len(toPi)) /\ toPi'[j] = ws[j - Len(toPi)]
      BY <2>2, <2>6, <3>2, <3>3
    <3>5. \A j \in DOMAIN toPi' : toPi'[j] = "PUT_CODE" => j = Len(toPi) + 1
      <4> SUFFICES ASSUME NEW j \in DOMAIN toPi', toPi'[j] = "PUT_CODE"
                   PROVE  j = Len(toPi) + 1
        OBVIOUS
      <4>1. j - Len(toPi) \in {1, 2} /\ ws[j - Len(toPi)] = "PUT_CODE"
        BY <3>4
      <4> QED
        BY <3>3, <3>4, <4>1
    <3>6. Len(toPi') = Len(toPi) + 2
      BY <3>4, LenProperties DEF LineTypeOK
    <3> QED
      BY <1>3, <1>8, <1>9, <2>6, <3>4, <3>5, <3>6
  <2> QED
    BY <2>4, <2>5, <2>6, HostSends
<1>10. host' = "step3" => Len(toHost') <= 4 /\ pi' \in {"code", "off"}
  <2>1. CASE host = "step3"
    BY <1>2, <1>3, <2>1 DEF LineInv
  <2>2. CASE host' = "step3" /\ host # "step3"
    <3>1. Has(4) /\ WordAt(0) = "GET_CODE" /\ toHost' = Drop(4)
      BY <2>2, HostGetsThere
    <3>2. 1 \in DOMAIN toHost /\ toHost[1] = <<"GET_CODE", 1>>
      BY <1>2, <3>1, WordIs DEF Has
    <3>3. Len(toHost) - 1 <= 7 /\ pi \in {"code", "off"}
      BY <3>2 DEF LineInv
    <3>4. Len(Drop(4)) = Len(toHost) - 4
      <4>1. 4 \in 0 .. Len(toHost)
        BY <1>2, <3>1 DEF Has
      <4> QED
        BY <4>1, DropIs
    <3> QED
      BY <1>2, <1>3, <3>1, <3>3, <3>4
  <2> QED
    BY <2>1, <2>2
<1>11. host = "step5" /\ host' = "step5" => started'
  <2>1. SUFFICES ASSUME host = "step5", host' = "step5" PROVE started
    BY <1>3
  <2>2. Has(4) /\ WordAt(0) = "PRINT_STRING"
    BY <2>1, HostGetsThere
  <2>3. (\A k \in 1 .. 4 : toHost[k] = <<"BOOT_ERROR", k>>) => WordAt(0) = "BOOT_ERROR"
    BY WordIs
  <2>4. toHost # <<>>
    BY <2>2, EmptySeq DEF Has
  <2> QED
    BY <2>1, <2>2, <2>3, <2>4 DEF LineInv
<1> QED
  BY <1>4, <1>8, <1>9, <1>10, <1>11 DEF LineInv, Has

LEMMA HostStartsLine ==
  ASSUME LineTypeOK, LineTypeOK', LineInv, HostStarts
  PROVE  LineInv'
<1>1. PICK n \in 0 .. 3 : Has(n) /\ toHost' = Drop(n)
  BY DEF HostStarts
<1>2. n \in 0 .. Len(toHost) /\ Len(toHost) \in Nat /\ DOMAIN toHost = 1 .. Len(toHost)
  <2>1. Len(toHost) \in Nat /\ DOMAIN toHost = 1 .. Len(toHost)
    BY LenProperties DEF LineTypeOK
  <2> QED
    BY <1>1, <2>1 DEF Has
<1>3. /\ Len(toHost') = Len(toHost) - n /\ DOMAIN toHost' = 1 .. Len(toHost')
      /\ \A k \in 1 .. Len(toHost) - n : toHost'[k] = toHost[k + n]
  <2>1. DOMAIN toHost' = 1 .. Len(toHost')
    BY LenProperties, Zenon DEF LineTypeOK
  <2>2. /\ Len(Drop(n)) = Len(toHost) - n
        /\ \A k \in 1 .. Len(toHost) - n : Drop(n)[k] = toHost[k + n]
    BY <1>2, DropIs, Zenon
  <2> QED
    BY <1>1, <2>1, <2>2, Zenon
<1>4. UNCHANGED <<pi, toPi>> /\ host' = "step0" /\ host \in HostEnded /\ pi # "off"
  BY DEF HostStarts
<1>5. ASSUME NEW k \in DOMAIN toHost', toHost'[k] = <<"GET_CODE", 1>>
      PROVE  Len(toHost') - k <= 7 /\ pi' \in {"code", "off"}
  <2>1. k + n \in DOMAIN toHost /\ toHost[k + n] = <<"GET_CODE", 1>>
    <3>1. k \in 1 .. Len(toHost) - n /\ k + n \in 1 .. Len(toHost)
      BY <1>2, <1>3
    <3> QED
      BY <1>2, <1>3, <1>5, <3>1
  <2>2. Len(toHost) - (k + n) <= 7 /\ pi \in {"code", "off"}
    BY <2>1 DEF LineInv
  <2> QED
    BY <1>2, <1>3, <1>4, <2>2
<1>6. \A k \in DOMAIN toPi : toPi[k] # "PUT_CODE"
  BY <1>4 DEF LineInv, HostEnded
<1> QED
  BY <1>4, <1>5, <1>6 DEF LineInv

LEMMA LineInit == SysInit => LineTypeOK /\ LineInv
<1> SUFFICES ASSUME SysInit PROVE LineTypeOK /\ LineInv
  OBVIOUS
<1>1. /\ crc \in Crcs /\ toPi = <<>> /\ printed = <<>> /\ host = "step0"
      /\ \E k \in 1 .. 5 : toHost = SubSeq(Bytes("GET_PROG_INFO"), k, 4)
  BY DEF SysInit, BootInit
<1>2. PICK k \in 1 .. 5 : toHost = SubSeq(Bytes("GET_PROG_INFO"), k, 4)
  BY <1>1
<1>3. PICK b : b = Bytes("GET_PROG_INFO")
  OBVIOUS
<1>4. b \in Seq(Byte) /\ Len(b) = 4 /\ \A i \in 1 .. 4 : b[i] # <<"GET_CODE", 1>>
  BY <1>3, SentTypes, NoCodeIn, Words DEF Sent
<1>5. \A i \in k .. 4 : b[i] \in Byte
  BY <1>4, ElementOfSeq
<1>6. /\ toHost \in Seq(Byte) /\ Len(toHost) = (IF k <= 4 THEN 4 - k + 1 ELSE 0)
      /\ \A i \in 1 .. 4 - k + 1 : toHost[i] = b[k + i - 1]
  BY <1>2, <1>3, <1>5, SubSeqProperties
<1>7. \A i \in DOMAIN toHost : toHost[i] # <<"GET_CODE", 1>>
  <2>1. DOMAIN toHost = 1 .. 4 - k + 1
    BY <1>6, LenProperties
  <2> QED
    BY <1>4, <1>6, <2>1
<1>8. <<>> \in Seq(Word) /\ DOMAIN toPi = {}
  BY <1>1, EmptySeq
<1> QED
  BY <1>1, <1>6, <1>7, <1>8 DEF LineTypeOK, LineInv

LEMMA LineStep ==
  ASSUME "PUT_CODE" \notin Crcs, LineTypeOK, LineInv, [SysNext]_sysVars
  PROVE  LineInv'
<1>1. LineTypeOK'
  BY LineTypeStep
<1>2. CASE BootStep
  BY <1>1, <1>2, PiAsksLine, PiGetsInfoLine, PiGetsCodeLine, PiDiscardsLine, PiEndsLine, HostLine,
     HostStartsLine DEF BootStep, PiAnswers
<1>3. CASE UNCHANGED bootVars
  BY <1>3 DEF bootVars, LineInv, Has
<1> QED
  BY <1>2, <1>3, BootSteps

LEMMA LineInvariance ==
  ASSUME "PUT_CODE" \notin Crcs
  PROVE  SysSpec => [](LineTypeOK /\ LineInv)
<1>1. LineTypeOK /\ LineInv /\ [SysNext]_sysVars => (LineTypeOK /\ LineInv)'
  BY LineTypeStep, LineStep
<1> QED
  BY <1>1, LineInit, PTL DEF SysSpec

(* A host program reports success only if the Pi started the image it sent, in
   this very run (simple-boot.c:76, piprog.go:161-166): whatever the line holds
   when it connects, and for any number of runs, faults and prints.  A checksum equal
   to PUT_CODE is excluded: the Pi could take it for one. *)
THEOREM SuccessIsReal ==
  ASSUME "PUT_CODE" \notin Crcs
  PROVE  SysSpec => SuccessMeansStarted
<1> DEFINE Real == host \notin {"echo", "listen"} /\ host' \in {"echo", "listen"} => started
<1>1. ASSUME LineTypeOK, LineInv, [SysNext]_sysVars PROVE [Real]_bootVars
  <2> SUFFICES ASSUME host \notin {"echo", "listen"}, host' \in {"echo", "listen"} PROVE started
    OBVIOUS
  <2>1. HostStep
    BY <1>1, BootSteps DEF BootStep, bootVars, PiAsks, PiAnswers, PiGetsInfo, PiGetsCode,
       PiDiscards, PiPrints, RunPrints, clean_reboot, PowerOff, PowerOn, PiFrame, HostStarts
  <2>2. host = "step5" /\ Has(4) /\ WordAt(0) # "BOOT_ERROR"
    BY <2>1, HostGetsThere
  <2>3. ~ \A k \in 1 .. 4 : toHost[k] = <<"BOOT_ERROR", k>>
    BY <2>2, WordIs
  <2>4. toHost # <<>>
    BY <2>2, EmptySeq DEF Has
  <2> QED
    BY <1>1, <2>2, <2>3, <2>4 DEF LineInv
<1> QED
  BY <1>1, LineInvariance, PTL DEF SysSpec, SuccessMeansStarted
-----------------------------------------------------------------------------
(* The end of the output *)

(* Once the Pi has started the image of this run of the host, nothing is on its
   way to the Pi, and nothing more will be while this run lasts. *)
StartedInv ==
  /\ started => toPi = <<>> /\ pi # "code" /\ host \notin {"step0", "rest", "step2", "step3"}
  /\ host \in {"echo", "listen"} => started
  /\ pi = "run" => started /\ host \in {"step5", "echo", "listen"}
  /\ host \notin {"echo", "exit"} => pos = 0

\* While the image runs, the host waits with an untouched line or shows a rest of the output.
EchoInv ==
  pi = "run" =>
    /\ host = "step5" =>
         /\ Len(toHost) = 4 + Len(printed)
         /\ \A k \in 1 .. 4 : toHost[k] = <<"BOOT_SUCCESS", k>>
         /\ \A k \in 1 .. Len(printed) : toHost[k + 4] = <<printed[k], 0>>
    /\ host = "echo" => \E n \in 0 .. Len(printed) :
         /\ Len(toHost) = Len(printed) - n
         /\ \A k \in 1 .. Len(toHost) : toHost[k] = <<printed[n + k], 0>>
         /\ pos \in 0 .. 7 /\ pos <= n
         /\ \A i \in 1 .. pos : printed[n - pos + i] = exit_string[i]

\* The exit string is somewhere in q.
Says(q) == \E n \in 0 .. Len(q) - 8 : \A i \in 1 .. 8 : q[n + i] = exit_string[i]

\* A set of naturals with 0 that is closed under successor has them all.
LEMMA SetInduction ==
  ASSUME NEW T \in SUBSET Nat, 0 \in T, \A n \in T : n + 1 \in T
  PROVE  T = Nat
<1> DEFINE U == Nat \ T
<1> SUFFICES ASSUME U # {} PROVE FALSE
  OBVIOUS
<1>1. PICK x \in U : \A y \in U : ~ <<y, x>> \in OpToRel(<, Nat)
  BY NatLessThanWellFounded, WFMin, U \subseteq Nat
<1>2. x # 0 /\ x \in Nat
  BY <1>1
<1>3. x - 1 \in Nat /\ x - 1 < x
  BY <1>2
<1>4. x - 1 \notin U
  BY <1>1, <1>3 DEF OpToRel
<1>5. (x - 1) + 1 = x
  BY <1>2
<1> QED
  BY <1>1, <1>3, <1>4, <1>5

\* pi_done counts the characters of the exit string seen in a row.
LEMMA PiDoneIs ==
  ASSUME NEW c, NEW p \in 0 .. 8
  PROVE  /\ pi_done(c)[p] \in 0 .. 8
         /\ pi_done(c)[p] = IF p = 8 THEN p
                            ELSE IF c = <<exit_string[p + 1], 0>> THEN p + 1 ELSE 0
<1>1. Len(exit_string) = 8
  BY ExitTypes
<1>2. p \in 0 .. Len(exit_string)
  BY <1>1
<1>3. pi_done(c)[p] = IF p = Len(exit_string) THEN p
                      ELSE IF c = <<exit_string[p + 1], 0>> THEN p + 1 ELSE 0
  BY <1>2, Zenon DEF pi_done
<1> QED
  BY <1>1, <1>3

\* What Seen is after each character, by its definition, which a function satisfies.
LEMMA SeenIs ==
  ASSUME NEW n \in Nat, NEW from \in 0 .. 8
  PROVE  /\ Seen(n, from)[0] = from
         /\ \A i \in 1 .. n : Seen(n, from)[i] = pi_done(toHost[i])[Seen(n, from)[i - 1]]
<1> DEFINE Step(f, m) ==
             f = [i \in 0 .. m |-> IF i = 0 THEN from ELSE pi_done(toHost[i])[f[i - 1]]]
           T == {m \in Nat : \E f : Step(f, m)}
<1>1. 0 \in T
  <2>1. Step([i \in 0 .. 0 |-> from], 0)
    OBVIOUS
  <2> QED
    BY <2>1
<1>2. ASSUME NEW m \in T PROVE m + 1 \in T
  <2>1. PICK f : Step(f, m)
    OBVIOUS
  <2>2. m \in Nat /\ m + 1 \in Nat
    OBVIOUS
  <2> DEFINE g == [i \in 0 .. m + 1 |->
                     IF i = 0 THEN from ELSE IF i = m + 1 THEN pi_done(toHost[m + 1])[f[m]] ELSE f[i]]
  <2>3. \A i \in 0 .. m : g[i] = f[i]
    BY <2>1, <2>2
  <2>4. ASSUME NEW i \in 0 .. m + 1, i # 0 PROVE g[i] = pi_done(toHost[i])[g[i - 1]]
    <3>1. i - 1 \in 0 .. m /\ g[i - 1] = f[i - 1]
      BY <2>2, <2>3, <2>4
    <3>2. CASE i = m + 1
      <4>1. g[i] = pi_done(toHost[m + 1])[f[m]] /\ i - 1 = m
        BY <2>2, <3>2
      <4> QED
        BY <3>1, <3>2, <4>1
    <3>3. CASE i # m + 1
      <4>0. i \in 0 .. m
        BY <2>2, <3>3
      <4>1. i \in 0 .. m /\ g[i] = f[i]
        BY <2>3, <4>0
      <4>2. f[i] = pi_done(toHost[i])[f[i - 1]]
        BY <2>1, <2>4, <4>1
      <4> QED
        BY <3>1, <4>1, <4>2
    <3> QED
      BY <3>2, <3>3
  <2>5. g[0] = from /\ 0 \in 0 .. m + 1
    BY <2>2
  <2>6. g = [i \in 0 .. m + 1 |-> g[i]]
    OBVIOUS
  <2> HIDE DEF g
  <2>7. Step(g, m + 1)
    BY <2>4, <2>5, <2>6
  <2> QED
    BY <2>2, <2>7
<1>3. T \in SUBSET Nat
  OBVIOUS
<1>4. \E f : Step(f, n)
  <2> HIDE DEF T
  <2>1. T = Nat
    BY <1>1, <1>2, <1>3, SetInduction
  <2>2. n \in T
    BY <2>1
  <2> QED
    BY <2>2 DEF T
<1>5. Seen(n, from) = CHOOSE f : Step(f, n)
  BY Zenon DEF Seen
<1> DEFINE seen == CHOOSE f : Step(f, n)
<1>6. Step(seen, n)
  BY <1>4, Zenon
<1> HIDE DEF seen
<1>7. 0 \in 0 .. n /\ \A i \in 1 .. n : i \in 0 .. n /\ i # 0
  OBVIOUS
<1>8. seen[0] = from /\ \A i \in 1 .. n : seen[i] = pi_done(toHost[i])[seen[i - 1]]
  BY <1>6, <1>7
<1> QED
  BY <1>5, <1>8 DEF seen

\* What a running program makes the host do.
LEMMA HostRuns ==
  ASSUME StartedInv, EchoInv, HostStep, pi = "run", LineTypeOK
  PROVE  /\ UNCHANGED toPi
         /\ \/ /\ host = "step5" /\ host' \in {"echo", "listen"}
               /\ toHost' = Drop(4) /\ UNCHANGED pos
            \/ host = "echo" /\ pi_echo
            \/ host = "listen" /\ host' = "listen" /\ UNCHANGED pos
<1>1. host \in {"step5", "echo", "listen"} /\ started /\ Len(toHost) \in Nat /\ Len(printed) \in Nat
  BY LenProperties DEF StartedInv, LineTypeOK
<1>2. host = "step5" => Has(4) /\ WordAt(0) = "BOOT_SUCCESS" /\ Op = "BOOT_SUCCESS"
  <2>1. host = "step5" => Has(4) /\ \A k \in 1 .. 4 : toHost[k] = <<"BOOT_SUCCESS", k>>
    BY <1>1 DEF EchoInv, Has
  <2> QED
    BY <2>1, WordIs DEF Op
<1> USE DEF Goto
<1>3. CASE Answers \/ Discards \/ Drains \/ GetsRequest \/ GetsCksum \/ GetsResult
  BY <1>1, <1>2, <1>3 DEF Answers, Discards, Drains, GetsRequest, GetsCksum, GetsResult
<1>4. CASE ShowsString \/ ShowsRest \/ ReadFails
  BY <1>1, <1>2, <1>4 DEF ShowsString, ShowsRest, ReadFails, Blocked, OpIs, OpIsNot, GetsOp
<1>5. CASE pi_echo \/ tty_gone
  BY <1>5 DEF pi_echo, tty_gone
<1>6. CASE PiprogSends \/ PiprogResult \/ PiprogGone
  BY <1>1, <1>2, <1>6 DEF PiprogSends, PiprogResult, PiprogGone, CheckUint, PutUint
<1> QED
  BY <1>3, <1>4, <1>5, <1>6 DEF HostStep, simple_boot

\* A host that has been heard sends nothing more.
LEMMA HostAfter ==
  ASSUME HostStep
  PROVE  /\ host \notin {"step0", "rest", "step2", "step3"} =>
              UNCHANGED toPi /\ host' \notin {"step0", "rest", "step2", "step3"}
         /\ host' \notin {"echo", "exit"} => UNCHANGED pos
         /\ host' \in {"echo", "exit"} /\ host \notin {"echo", "exit"} => UNCHANGED pos
         /\ host' \notin {"echo", "exit"} => host \notin {"echo", "exit"}
<1> USE DEF Goto
<1>1. CASE Answers \/ Discards \/ Drains \/ GetsRequest \/ GetsCksum \/ GetsResult
  BY <1>1 DEF Answers, Discards, Drains, GetsRequest, GetsCksum, GetsResult
<1>2. CASE ShowsString \/ ShowsRest \/ ReadFails
  BY <1>2 DEF ShowsString, ShowsRest, ReadFails, Blocked, OpIs, OpIsNot, GetsOp
<1>3. CASE pi_echo \/ tty_gone
  BY <1>3 DEF pi_echo, tty_gone
<1>4. CASE PiprogSends \/ PiprogResult \/ PiprogGone
  BY <1>4 DEF PiprogSends, PiprogResult, PiprogGone, CheckUint, PutUint
<1> QED
  BY <1>1, <1>2, <1>3, <1>4 DEF HostStep, simple_boot

\* The host shows some of the output: the last characters it has seen are the
\* start of the exit string that pos says, and the output does not have it all.
LEMMA EchoReads ==
  ASSUME LineTypeOK, EchoInv, pi = "run", host = "echo", pi_echo, ~Says(printed)
  PROVE  host' = "echo" /\ EchoInv'
<1>1. PICK n \in 1 .. Len(toHost) : ReadsUpTo(n, pos)
  BY DEF pi_echo
<1>2. PICK o \in 0 .. Len(printed) :
        /\ Len(toHost) = Len(printed) - o
        /\ \A k \in 1 .. Len(toHost) : toHost[k] = <<printed[o + k], 0>>
        /\ pos \in 0 .. 7 /\ pos <= o
        /\ \A i \in 1 .. pos : printed[o - pos + i] = exit_string[i]
  BY DEF EchoInv
<1>3. PICK L \in Nat : L = Len(printed) /\ o <= L /\ Len(toHost) = L - o /\ n \in 1 .. L - o
  BY <1>2, LenProperties DEF LineTypeOK
<1>4. UNCHANGED <<pi, printed>>
  BY DEF pi_echo, HostFrame
<1>5. PICK seen : /\ seen = Seen(n, pos) /\ seen[0] = pos
                  /\ \A i \in 1 .. n : seen[i] = pi_done(toHost[i])[seen[i - 1]]
  <2>1. n \in Nat /\ pos \in 0 .. 8
    BY <1>2, <1>3
  <2>2. /\ Seen(n, pos)[0] = pos
        /\ \A i \in 1 .. n : Seen(n, pos)[i] = pi_done(toHost[i])[Seen(n, pos)[i - 1]]
    BY <2>1, SeenIs
  <2> QED
    BY <2>2, Zenon
<1> DEFINE Matches(p, m) == /\ p \in 0 .. 7 /\ p <= m
                            /\ \A i \in 1 .. p : printed[m - p + i] = exit_string[i]
           T == {i \in Nat : i <= n => Matches(seen[i], o + i)}
<1>6. 0 \in T
  <2>1. Matches(pos, o)
    BY <1>2
  <2>2. o + 0 = o
    BY <1>3
  <2> QED
    BY <1>5, <2>1, <2>2
<1>7. ASSUME NEW i \in T PROVE i + 1 \in T
  <2>1. SUFFICES ASSUME i + 1 <= n PROVE Matches(seen[i + 1], o + (i + 1))
    OBVIOUS
  <2>2. i \in Nat /\ i + 1 \in 1 .. n /\ (i + 1) - 1 = i /\ i + 1 \in 1 .. Len(toHost)
    BY <1>3, <2>1
  <2>3. Matches(seen[i], o + i)
    BY <2>1, <2>2
  <2>4. PICK p \in 0 .. 7 : p = seen[i] /\ Matches(p, o + i)
    BY <2>3
  <2>m. /\ p <= o + i /\ o \in Nat
        /\ \A j \in 1 .. p : printed[(o + i) - p + j] = exit_string[j]
    BY <1>3, <2>4
  <2>5. PICK q : q = seen[i + 1] /\ q = pi_done(toHost[i + 1])[p]
    BY <1>5, <2>2, <2>4
  <2>6. toHost[i + 1] = <<printed[o + (i + 1)], 0>>
    BY <1>2, <2>2
  <2>7. CASE q = 0
    BY <1>3, <2>2, <2>5, <2>7
  <2>8. CASE q = p + 1 /\ toHost[i + 1] = <<exit_string[p + 1], 0>>
    <3>1. printed[o + (i + 1)] = exit_string[p + 1]
      BY <2>6, <2>8
    <3>2. \A j \in 1 .. q : printed[(o + (i + 1)) - q + j] = exit_string[j]
      <4> SUFFICES ASSUME NEW j \in 1 .. q
                   PROVE  printed[(o + (i + 1)) - q + j] = exit_string[j]
        OBVIOUS
      <4>1. (o + (i + 1)) - q + j = (o + i) - p + j /\ (j # p + 1 => j \in 1 .. p)
        <5>1. q = p + 1 /\ q \in Nat /\ j \in 1 .. p + 1
          BY <2>8
        <5>2. (o + (i + 1)) - (p + 1) + j = (o + i) - p + j
          BY <2>2, <2>m, <5>1
        <5> QED
          BY <5>1, <5>2
      <4>2. j = p + 1 => (o + i) - p + j = o + (i + 1)
        BY <2>2, <2>m
      <4>3. CASE j = p + 1
        <5>1. printed[o + (i + 1)] = exit_string[j]
          BY <3>1, <4>3
        <5>2. (o + (i + 1)) - q + j = o + (i + 1)
          BY <4>1, <4>2, <4>3, Zenon
        <5> QED
          BY <5>1, <5>2, Zenon
      <4>4. CASE j # p + 1
        <5>1. printed[(o + i) - p + j] = exit_string[j]
          BY <2>m, <4>1, <4>4
        <5> QED
          BY <4>1, <5>1, Zenon
      <4> QED
        BY <4>3, <4>4
    <3>3. q # 8
      <4>1. SUFFICES ASSUME q = 8 PROVE Says(printed)
        OBVIOUS
      <4>2. PICK m \in 0 .. L - 8 : m = (o + (i + 1)) - 8
        <5>1. p = 7 /\ 7 <= o + i
          BY <2>m, <2>8, <4>1
        <5> QED
          BY <1>3, <2>2, <5>1
      <4>3. \A j \in 1 .. 8 : printed[m + j] = exit_string[j]
        <5> SUFFICES ASSUME NEW j \in 1 .. 8 PROVE printed[m + j] = exit_string[j]
          OBVIOUS
        <5>1. (o + (i + 1)) - q + j = m + j /\ j \in 1 .. q
          BY <2>2, <2>m, <4>1, <4>2
        <5>2. printed[(o + (i + 1)) - q + j] = exit_string[j]
          BY <3>2, <5>1
        <5> QED
          BY <5>1, <5>2, Zenon
      <4> QED
        BY <1>3, <4>2, <4>3 DEF Says
    <3>4. q \in 0 .. 7 /\ q <= o + (i + 1)
      BY <2>2, <2>m, <2>8, <3>3
    <3>5. Matches(q, o + (i + 1))
      BY <3>2, <3>4, Zenon
    <3> HIDE DEF Matches
    <3> QED
      BY <2>5, <3>5
  <2>9. p \in 0 .. 8 /\ p # 8
    OBVIOUS
  <2> HIDE DEF Matches
  <2> QED
    BY <2>5, <2>7, <2>8, <2>9, PiDoneIs
<1>8. Matches(seen[n], o + n)
  <2>1. T = Nat
    <3>1. T \in SUBSET Nat
      OBVIOUS
    <3> HIDE DEF T
    <3> QED
      BY <1>6, <1>7, <3>1, SetInduction
  <2>2. n \in T /\ n <= n
    BY <1>3, <2>1
  <2> QED
    BY <2>2
<1>9. pos' = seen[n]
  BY <1>1, <1>5, Zenon DEF ReadsUpTo
<1>10. host' = "echo"
  BY <1>8, <1>9, ExitTypes DEF pi_echo
<1>11. /\ Len(toHost') = L - (o + n)
       /\ \A k \in 1 .. Len(toHost') : toHost'[k] = <<printed[(o + n) + k], 0>>
  <2>1. n \in 0 .. Len(toHost)
    BY <1>3
  <2>2. toHost' = Drop(n)
    BY <1>1, Zenon DEF ReadsUpTo
  <2>3. /\ Len(toHost') = Len(toHost) - n
        /\ \A k \in 1 .. Len(toHost) - n : toHost'[k] = toHost[k + n]
    BY <2>1, <2>2, DropIs
  <2>4. ASSUME NEW k \in 1 .. Len(toHost) - n PROVE toHost'[k] = <<printed[(o + n) + k], 0>>
    <3>1. k + n \in 1 .. Len(toHost) /\ o + (k + n) = (o + n) + k
      BY <1>3
    <3> QED
      BY <1>2, <2>3, <3>1
  <2> QED
    BY <1>3, <2>3, <2>4
<1>12. o + n \in 0 .. L
  BY <1>3
<1> QED
  BY <1>3, <1>4, <1>8, <1>9, <1>10, <1>11, <1>12 DEF EchoInv

LEMMA StartedStep ==
  ASSUME LineTypeOK, LineInv, StartedInv, EchoInv, pi = "run" => ~Says(printed), BootStep
  PROVE  StartedInv'
<1>1. CASE PiAsks \/ PiPrints \/ (\E s \in Prints : RunPrints(s))
  BY <1>1 DEF PiAsks, PiPrints, RunPrints, PiFrame, StartedInv
<1>2. CASE PiGetsInfo
  <2>1. toPi # <<>>
    BY <1>2, EmptySeq DEF PiGetsInfo
  <2> QED
    BY <1>2, <2>1 DEF PiGetsInfo, Refuse, PiFrame, StartedInv
<1>3. CASE PiGetsCode
  <2>1. /\ pi = "code" /\ Len(toPi) >= 2 /\ toPi[1] = "PUT_CODE" /\ UNCHANGED <<host, pos>>
        /\ toPi \in Seq(Word) /\ toPi' = SubSeq(toPi, 3, Len(toPi))
    BY <1>3 DEF PiGetsCode, LineTypeOK
  <2>2. host = "step5" /\ Len(toPi) = 2
    <3>1. 1 \in DOMAIN toPi /\ Len(toPi) \in Nat
      BY <2>1, LenProperties
    <3>2. host = "step5" /\ 1 = Len(toPi) - 1
      BY <2>1, <3>1 DEF LineInv
    <3> QED
      BY <3>1, <3>2
  <2>3. toPi' = <<>>
    BY <2>1, <2>2, SubSeqEmpty
  <2>4. \/ pi' = "run" /\ started' = TRUE
        \/ pi' = "ask" /\ UNCHANGED started
    BY <1>3 DEF PiGetsCode, Refuse
  <2> QED
    BY <2>1, <2>2, <2>3, <2>4 DEF StartedInv
<1>4. CASE PiDiscards
  BY <1>4 DEF PiDiscards, PiFrame, StartedInv
<1>5. CASE clean_reboot \/ PowerOff \/ PowerOn
  BY <1>5 DEF clean_reboot, PowerOff, PowerOn, PiFrame, StartedInv
<1>6. CASE HostStep
  <2>1. UNCHANGED <<pi, started>>
    BY <1>6, HostFrames DEF HostFrame
  <2>2. pi = "run" => host' \in {"step5", "echo", "listen"}
    BY <1>6, HostRuns, EchoReads
  <2>3. host' \in {"echo", "listen"} => started
    <3>1. host' \in {"echo", "listen"} /\ host \notin {"echo", "listen"} =>
            host = "step5" /\ Has(4) /\ WordAt(0) # "BOOT_ERROR"
      BY <1>6, HostGetsThere
    <3>2. (\A k \in 1 .. 4 : toHost[k] = <<"BOOT_ERROR", k>>) => WordAt(0) = "BOOT_ERROR"
      BY WordIs
    <3>3. Has(4) => toHost # <<>>
      BY EmptySeq DEF Has
    <3> QED
      BY <3>1, <3>2, <3>3 DEF LineInv, StartedInv
  <2> QED
    BY <1>6, <2>1, <2>2, <2>3, HostAfter DEF StartedInv
<1>7. CASE HostStarts
  BY <1>7 DEF HostStarts, StartedInv, HostEnded
<1> QED
  BY <1>1, <1>2, <1>3, <1>4, <1>5, <1>6, <1>7 DEF BootStep, PiAnswers

\* Outside the host's reads, the line of a running program only gets longer.
LEMMA EchoStep ==
  ASSUME LineTypeOK, LineTypeOK', LineInv, StartedInv, EchoInv,
         pi = "run" => ~Says(printed), BootStep
  PROVE  EchoInv'
<1> SUFFICES ASSUME pi' = "run" PROVE EchoInv'
  BY DEF EchoInv
<1>1. CASE PiGetsCode
  <2>1. /\ pi = "code" /\ UNCHANGED host
        /\ Send(Bytes("BOOT_SUCCESS")) /\ printed' = <<>>
    BY <1>1 DEF PiGetsCode, Refuse
  <2>2. host = "step5" /\ toHost = <<>>
    <3>1. 1 \in DOMAIN toPi /\ toPi[1] = "PUT_CODE"
      BY <1>1, LenProperties DEF PiGetsCode, LineTypeOK
    <3> QED
      BY <2>1, <3>1 DEF LineInv
  <2>3. Bytes("BOOT_SUCCESS") \in Seq(Byte) /\ Len(Bytes("BOOT_SUCCESS")) = 4
    BY SentTypes, Words DEF Sent
  <2>4. toHost' = Bytes("BOOT_SUCCESS")
    BY <2>1, <2>2, <2>3, ConcatEmptySeq DEF Send
  <2>5. \A k \in 1 .. 4 : Bytes("BOOT_SUCCESS")[k] = <<"BOOT_SUCCESS", k>>
    BY Zenon DEF Bytes
  <2>6. Len(printed') = 0
    BY <2>1, EmptySeq
  <2> QED
    BY <2>1, <2>2, <2>3, <2>4, <2>5, <2>6 DEF EchoInv
<1>2. CASE \E s \in Prints : RunPrints(s)
  <2>1. PICK s \in Seq(Word) : RunPrints(s)
    BY <1>2, Words
  <2>2. /\ pi = "run" /\ UNCHANGED <<host, pos>> /\ Send(Chars(s)) /\ printed' = printed \o s
    BY <2>1 DEF RunPrints
  <2>3. /\ Chars(s) \in Seq(Byte) /\ Len(Chars(s)) = Len(s)
        /\ \A k \in 1 .. Len(s) : Chars(s)[k] = <<s[k], 0>>
    <3>1. \A k \in 1 .. Len(s) : Chars(s)[k] = <<s[k], 0>>
      BY Zenon DEF Chars
    <3> QED
      BY <3>1, SentTypes
  <2>4. PICK l \in Nat, z \in Nat, h \in Nat : l = Len(s) /\ z = Len(printed) /\ h = Len(toHost)
    BY LenProperties DEF LineTypeOK
  <2>5. /\ Len(printed') = z + l
        /\ \A k \in 1 .. z + l : printed'[k] = IF k <= z THEN printed[k] ELSE s[k - z]
    <3>1. printed \in Seq(Word)
      BY DEF LineTypeOK
    <3> QED
      BY <2>2, <2>4, <3>1, ConcatProperties
  <2>6. /\ Len(toHost') = h + l
        /\ \A k \in 1 .. h + l : toHost'[k] = IF k <= h THEN toHost[k] ELSE Chars(s)[k - h]
    BY <2>2, <2>3, <2>4, SendIs
  <2>7. \A k \in h + 1 .. h + l : toHost'[k] = <<s[k - h], 0>>
    <3> SUFFICES ASSUME NEW k \in h + 1 .. h + l PROVE toHost'[k] = <<s[k - h], 0>>
      OBVIOUS
    <3>1. k - h \in 1 .. l /\ k \in 1 .. h + l /\ ~(k <= h)
      BY <2>4
    <3> QED
      BY <2>3, <2>4, <2>6, <3>1
  \* What was so of the first characters is so of all of them.
  <2>8. ASSUME NEW d \in Nat, NEW e \in Nat, h = d + z - e, e <= z,
               \A k \in 1 .. z - e : toHost[k + d] = <<printed[e + k], 0>>
        PROVE  \A k \in 1 .. z + l - e : toHost'[k + d] = <<printed'[e + k], 0>>
    <3> SUFFICES ASSUME NEW k \in 1 .. z + l - e
                 PROVE  toHost'[k + d] = <<printed'[e + k], 0>>
      OBVIOUS
    <3>1. PICK i \in 1 .. h + l, j \in 1 .. z + l : i = k + d /\ j = e + k /\ i - h = j - z
      <4>1. k + d \in 1 .. h + l /\ e + k \in 1 .. z + l /\ (k + d) - h = (e + k) - z
        BY <2>4, <2>8
      <4> QED
        BY <4>1, Zenon
    <3>2. CASE k <= z - e
      <4>1. k \in 1 .. z - e /\ j <= z /\ i <= h
        BY <2>4, <2>8, <3>1, <3>2
      <4>2. toHost'[i] = toHost[i] /\ printed'[j] = printed[j]
        BY <2>5, <2>6, <3>1, <4>1
      <4>3. toHost[k + d] = <<printed[e + k], 0>>
        BY <2>8, <4>1, Zenon
      <4> QED
        BY <3>1, <4>2, <4>3
    <3>3. CASE ~(k <= z - e)
      <4>1. PICK m : m = i - h /\ m = j - z
        BY <3>1, Zenon
      <4>2. i \in h + 1 .. h + l /\ ~(j <= z)
        BY <2>4, <2>8, <3>1, <3>3
      <4>3. toHost'[i] = <<s[m], 0>>
        BY <2>7, <4>1, <4>2
      <4>4. printed'[j] = s[m]
        BY <2>5, <3>1, <4>1, <4>2
      <4> QED
        BY <3>1, <4>3, <4>4
    <3> QED
      BY <3>2, <3>3
  <2>9. CASE host = "step5"
    <3>1. /\ h = 4 + z /\ \A k \in 1 .. 4 : toHost[k] = <<"BOOT_SUCCESS", k>>
          /\ \A k \in 1 .. z : toHost[k + 4] = <<printed[k], 0>>
      BY <2>2, <2>4, <2>9 DEF EchoInv
    <3>2. /\ Len(toHost') = 4 + Len(printed')
          /\ \A k \in 1 .. 4 : toHost'[k] = <<"BOOT_SUCCESS", k>>
      BY <2>4, <2>5, <2>6, <3>1
    <3>3. \A k \in 1 .. z + l - 0 : toHost'[k + 4] = <<printed'[0 + k], 0>>
      <4>1. h = 4 + z - 0 /\ 0 <= z /\ 0 \in Nat /\ 4 \in Nat
        BY <2>4, <3>1
      <4>2. \A k \in 1 .. z - 0 : toHost[k + 4] = <<printed[0 + k], 0>>
        BY <2>4, <3>1
      <4> QED
        BY <2>8, <4>1, <4>2
    <3>4. \A k \in 1 .. Len(printed') : toHost'[k + 4] = <<printed'[k], 0>>
      <4> SUFFICES ASSUME NEW k \in 1 .. Len(printed') PROVE toHost'[k + 4] = <<printed'[k], 0>>
        OBVIOUS
      <4>1. k \in 1 .. z + l - 0 /\ 0 + k = k
        BY <2>4, <2>5
      <4>2. toHost'[k + 4] = <<printed'[0 + k], 0>>
        BY <3>3, <4>1
      <4> QED
        BY <4>1, <4>2
    <3> QED
      BY <2>2, <2>9, <3>2, <3>4 DEF EchoInv
  <2>10. CASE host = "echo"
    <3>1. PICK e \in 0 .. z :
            /\ h = z - e /\ \A k \in 1 .. h : toHost[k] = <<printed[e + k], 0>>
            /\ pos \in 0 .. 7 /\ pos <= e
            /\ \A i \in 1 .. pos : printed[e - pos + i] = exit_string[i]
      BY <2>2, <2>4, <2>10 DEF EchoInv
    <3>2. \A k \in 1 .. z + l - e : toHost'[k + 0] = <<printed'[e + k], 0>>
      <4>1. e \in Nat /\ 0 \in Nat /\ h = 0 + z - e /\ e <= z
        BY <2>4, <3>1
      <4>2. \A k \in 1 .. z - e : toHost[k + 0] = <<printed[e + k], 0>>
        BY <3>1
      <4> QED
        BY <2>8, <4>1, <4>2
    <3>3. /\ Len(toHost') = Len(printed') - e /\ e \in 0 .. Len(printed')
          /\ Len(toHost') = z + l - e
      BY <2>4, <2>5, <2>6, <3>1
    <3>4. \A k \in 1 .. Len(toHost') : toHost'[k] = <<printed'[e + k], 0>>
      <4> SUFFICES ASSUME NEW k \in 1 .. z + l - e PROVE toHost'[k] = <<printed'[e + k], 0>>
        BY <3>3
      <4>1. k + 0 = k
        OBVIOUS
      <4>2. toHost'[k + 0] = <<printed'[e + k], 0>>
        BY <3>2
      <4> QED
        BY <4>1, <4>2
    <3>5. \A i \in 1 .. pos : printed'[e - pos + i] = exit_string[i]
      <4> SUFFICES ASSUME NEW i \in 1 .. pos PROVE printed'[e - pos + i] = exit_string[i]
        OBVIOUS
      <4>1. e - pos + i \in 1 .. z + l /\ e - pos + i <= z
        BY <2>4, <3>1
      <4> QED
        BY <2>5, <3>1, <4>1
    <3> QED
      BY <2>2, <2>10, <3>1, <3>3, <3>4, <3>5 DEF EchoInv
  <2> QED
    BY <2>2, <2>9, <2>10 DEF EchoInv
<1>3. CASE HostStep
  <2>1. UNCHANGED <<pi, printed>> /\ pi = "run"
    BY <1>3, HostFrames DEF HostFrame
  <2>2. CASE host = "step5" /\ host' \in {"echo", "listen"} /\ toHost' = Drop(4) /\ UNCHANGED pos
    <3>1. PICK z \in Nat : /\ z = Len(printed) /\ Len(toHost) = 4 + z
                           /\ \A k \in 1 .. z : toHost[k + 4] = <<printed[k], 0>>
      BY <2>1, <2>2, LenProperties DEF EchoInv, LineTypeOK
    <3>2. /\ Len(toHost') = z
          /\ \A k \in 1 .. z : toHost'[k] = toHost[k + 4]
      <4>1. 4 \in 0 .. Len(toHost) /\ Len(toHost) - 4 = z
        BY <3>1
      <4> QED
        BY <2>2, <4>1, DropIs
    <3>3. \A k \in 1 .. z : toHost'[k] = <<printed[0 + k], 0>>
      <4> SUFFICES ASSUME NEW k \in 1 .. z PROVE toHost'[k] = <<printed[0 + k], 0>>
        OBVIOUS
      <4>1. 0 + k = k
        OBVIOUS
      <4> QED
        BY <3>1, <3>2, <4>1
    <3>4. pos = 0
      BY <2>2 DEF StartedInv
    <3>5. 0 \in 0 .. z /\ z = z - 0 /\ pos \in 0 .. 7 /\ pos <= 0 /\ 1 .. pos = {}
      BY <3>1, <3>4
    <3> QED
      BY <2>1, <2>2, <3>1, <3>2, <3>3, <3>5 DEF EchoInv
  <2> QED
    BY <1>3, <2>1, <2>2, HostRuns, EchoReads DEF EchoInv
<1>4. CASE PiAsks \/ PiPrints \/ PiGetsInfo \/ PiDiscards \/ clean_reboot \/ PowerOff \/ PowerOn
           \/ HostStarts
  BY <1>4 DEF PiAsks, PiPrints, PiGetsInfo, Refuse, PiDiscards, clean_reboot, PowerOff, PowerOn,
     PiFrame, HostStarts, HostEnded, StartedInv
<1> QED
  BY <1>1, <1>2, <1>3, <1>4 DEF BootStep, PiAnswers

(* pi_echo leaves only when the program has ended or the tty is gone, however the
   output is cut into reads and however close to the exit string it comes
   (pi-echo.c:8-24, 64, 76-79): if what a program prints never adds up to something
   with the exit string in it, for Outputs stands for all that it can print. *)
THEOREM ExitIsReal ==
  ASSUME "PUT_CODE" \notin Crcs,
         NEW Outputs, <<>> \in Outputs, \A q \in Outputs, s \in Prints : q \o s \in Outputs,
         \A q \in Outputs : ~Says(q)
  PROVE  SysSpec => ExitMeansEnded
<1> DEFINE Honest == pi = "run" => printed \in Outputs
           Inv == LineTypeOK /\ LineInv /\ StartedInv /\ EchoInv /\ Honest
           Real == host = "echo" /\ host' = "exit" => pi # "run"
<1>1. SysInit => Inv
  <2>1. SysInit => pi = "ask" /\ ~started /\ host = "step0" /\ pos = 0
    BY DEF SysInit, BootInit
  <2> QED
    BY <2>1, LineInit DEF StartedInv, EchoInv
<1>2. ASSUME Inv, [SysNext]_sysVars PROVE Inv'
  <2>1. LineTypeOK' /\ LineInv'
    BY <1>2, LineTypeStep, LineStep
  <2>2. CASE BootStep
    <3>1. StartedInv' /\ EchoInv'
      BY <1>2, <2>1, <2>2, StartedStep, EchoStep
    <3>2. Honest'
      <4>1. CASE PiGetsCode
        BY <4>1 DEF PiGetsCode
      <4>2. CASE \E s \in Prints : RunPrints(s)
        BY <1>2, <4>2 DEF RunPrints
      <4>3. CASE HostStep
        BY <1>2, <4>3, HostFrames DEF HostFrame
      <4>4. CASE PiAsks \/ PiPrints \/ PiGetsInfo \/ PiDiscards \/ clean_reboot \/ PowerOff
                   \/ PowerOn \/ HostStarts
        BY <1>2, <4>4 DEF PiAsks, PiPrints, PiGetsInfo, Refuse, PiDiscards, clean_reboot,
           PowerOff, PowerOn, PiFrame, HostStarts
      <4> QED
        BY <2>2, <4>1, <4>2, <4>3, <4>4 DEF BootStep, PiAnswers
    <3> QED
      BY <2>1, <3>1, <3>2
  <2>3. CASE UNCHANGED bootVars
    BY <1>2, <2>1, <2>3 DEF bootVars, StartedInv, EchoInv
  <2> QED
    BY <1>2, <2>2, <2>3, BootSteps
<1>3. ASSUME Inv, [SysNext]_sysVars PROVE [Real]_bootVars
  <2> SUFFICES ASSUME host = "echo", host' = "exit", pi = "run" PROVE FALSE
    OBVIOUS
  <2>1. HostStep
    BY <1>3, BootSteps DEF BootStep, bootVars, PiAsks, PiAnswers, PiGetsInfo, PiGetsCode,
       PiDiscards, PiPrints, RunPrints, clean_reboot, PowerOff, PowerOn, PiFrame, HostStarts
  <2>2. pi_echo /\ ~Says(printed)
    BY <1>3, <2>1, HostRuns
  <2> QED
    BY <1>3, <2>2, EchoReads
<1> QED
  <2> HIDE DEF Inv
  <2>1. SysSpec => []Inv
    BY <1>1, <1>2, PTL DEF SysSpec
  <2> QED
    BY <1>3, <2>1, PTL DEF SysSpec, ExitMeansEnded
-----------------------------------------------------------------------------
(* The bounds *)

\* How many words a run of the host has sent by the time it is at h.
Answered(h) ==
  IF h = "step0" THEN 0 ELSE IF h = "rest" THEN 1 ELSE IF h \in {"step2", "step3"} THEN 4 ELSE 6

FewWords == Len(toPi) <= 6 * (hosts - 1) + Answered(host)

BoundsInv ==
  /\ tool \in {"simple_boot", "piprog"} /\ host \in HostStates /\ pos \in 0 .. 8
  /\ pi \in {"off", "ask", "code", "run"}
  /\ faults \in 0 .. MAXFAULTS /\ hosts \in 1 .. MAXHOSTS /\ prints \in 0 .. MAXPRINTS
  /\ odd \in BOOLEAN /\ started \in BOOLEAN
  /\ FewWords

\* However many characters are read, pos stays within the exit string.
LEMMA SeenRange ==
  ASSUME NEW n \in Nat, NEW from \in 0 .. 8
  PROVE  Seen(n, from)[n] \in 0 .. 8
<1>1. PICK seen : /\ seen = Seen(n, from) /\ seen[0] = from
                  /\ \A i \in 1 .. n : seen[i] = pi_done(toHost[i])[seen[i - 1]]
  <2>1. /\ Seen(n, from)[0] = from
        /\ \A i \in 1 .. n : Seen(n, from)[i] = pi_done(toHost[i])[Seen(n, from)[i - 1]]
    BY SeenIs
  <2> QED
    BY <2>1, Zenon
<1> DEFINE T == {i \in Nat : i <= n => seen[i] \in 0 .. 8}
<1>2. 0 \in T
  BY <1>1
<1>3. ASSUME NEW i \in T PROVE i + 1 \in T
  <2>1. SUFFICES ASSUME i + 1 <= n PROVE seen[i + 1] \in 0 .. 8
    OBVIOUS
  <2>2. i + 1 \in 1 .. n /\ (i + 1) - 1 = i /\ seen[i] \in 0 .. 8
    BY <2>1
  <2>3. seen[i + 1] = pi_done(toHost[i + 1])[seen[i]]
    BY <1>1, <2>2
  <2> QED
    BY <2>2, <2>3, PiDoneIs
<1>4. T = Nat
  <2>1. T \in SUBSET Nat
    OBVIOUS
  <2> HIDE DEF T
  <2> QED
    BY <1>2, <1>3, <2>1, SetInduction
<1>5. n \in T /\ n <= n
  BY <1>4
<1> QED
  BY <1>1, <1>5

\* No run of the host sends more than six words.
LEMMA HostCounts ==
  ASSUME BoundsInv, HostStep
  PROVE  /\ host' \in HostStates
         /\ \/ UNCHANGED toPi /\ Answered(host) <= Answered(host')
            \/ /\ toPi' = toPi \o <<"PUT_PROG_INFO", "ARMBASE", "n", crc>>
               /\ host = "step0" /\ host' = "step2"
            \/ toPi' = toPi \o <<"PUT_PROG_INFO">> /\ host = "step0" /\ host' = "rest"
            \/ toPi' = toPi \o <<"ARMBASE", "n", crc>> /\ host = "rest" /\ host' = "step2"
            \/ toPi' = toPi \o <<"PUT_CODE", "bytes">> /\ host = "step3" /\ host' = "step5"
<1>0. host \in HostStates
  BY DEF BoundsInv
<1> USE DEF HostStates, Goto, Answered
<1>1. CASE Answers \/ Discards \/ Drains \/ GetsRequest \/ GetsCksum \/ GetsResult
  <2>1. CASE Answers \/ Discards \/ Drains
    BY <1>0, <2>1 DEF Answers, Discards, Drains
  <2>2. CASE GetsRequest \/ GetsCksum \/ GetsResult
    BY <1>0, <2>2 DEF GetsRequest, GetsCksum, GetsResult
  <2> QED
    BY <1>1, <2>1, <2>2
<1>2. CASE ShowsString \/ ShowsRest \/ ReadFails
  BY <1>0, <1>2 DEF ShowsString, ShowsRest, ReadFails, Blocked, OpIs, OpIsNot, GetsOp
<1>3. CASE pi_echo \/ tty_gone
  BY <1>0, <1>3 DEF pi_echo, tty_gone
<1>4. CASE PiprogSends \/ PiprogResult \/ PiprogGone
  <2>1. CASE PiprogSends
    BY <2>1 DEF PiprogSends, CheckUint, PutUint
  <2>2. CASE PiprogResult \/ PiprogGone
    BY <2>2 DEF PiprogResult, PiprogGone
  <2> QED
    BY <1>4, <2>1, <2>2
<1> QED
  BY <1>1, <1>2, <1>3, <1>4 DEF HostStep, simple_boot

LEMMA BoundsStep ==
  ASSUME LineTypeOK, BoundsInv, BootStep
  PROVE  BoundsInv'
<1>0. Len(toPi) \in Nat /\ toPi \in Seq(Word)
  BY LenProperties DEF LineTypeOK
<1>1. CASE PiAsks \/ PiPrints \/ (\E s \in Prints : RunPrints(s))
  <2>1. UNCHANGED <<tool, host, pos, pi, faults, hosts, started, toPi>>
    BY <1>1 DEF PiAsks, PiPrints, RunPrints, PiFrame
  <2>2. odd \in BOOLEAN /\ prints \in 0 .. MAXPRINTS
    BY DEF BoundsInv
  <2>3. odd' \in BOOLEAN
    BY <1>1, <2>2 DEF PiAsks, PiPrints, RunPrints
  <2>4. UNCHANGED prints \/ (prints < MAXPRINTS /\ prints' = prints + 1)
    BY <1>1 DEF PiAsks, PiPrints, RunPrints
  <2>5. prints' \in 0 .. MAXPRINTS
    BY <2>2, <2>4, BoundsAssumption
  <2> QED
    BY <2>1, <2>3, <2>5 DEF BoundsInv, FewWords
<1>2. CASE PiGetsInfo \/ PiGetsCode \/ PiDiscards
  <2>1. UNCHANGED <<tool, host, pos, hosts, prints, odd>>
    BY <1>2 DEF PiGetsInfo, PiGetsCode, PiDiscards, PiFrame
  <2>2. /\ pi' \in {"off", "ask", "code", "run"} /\ started' \in BOOLEAN
        /\ faults' \in 0 .. MAXFAULTS
    <3>1. /\ pi \in {"off", "ask", "code", "run"} /\ started \in BOOLEAN
          /\ faults \in 0 .. MAXFAULTS
      BY DEF BoundsInv
    <3>2. faults < MAXFAULTS => faults + 1 \in 0 .. MAXFAULTS
      BY <3>1, BoundsAssumption
    <3> QED
      BY <1>2, <3>1, <3>2 DEF PiGetsInfo, PiGetsCode, PiDiscards, PiFrame, Refuse
  <2>3. Len(toPi') <= Len(toPi)
    <3>1. PICK m \in Nat, z \in Nat : /\ z = Len(toPi) /\ m <= z
                                      /\ toPi' = SubSeq(toPi, m + 1, z)
      <4>1. CASE PiGetsInfo
        <5>1. 4 \in Nat /\ 4 <= Len(toPi) /\ toPi' = SubSeq(toPi, 4 + 1, Len(toPi))
          BY <1>0, <4>1 DEF PiGetsInfo
        <5> QED
          BY <1>0, <5>1
      <4>2. CASE PiGetsCode
        <5>1. 2 \in Nat /\ 2 <= Len(toPi) /\ toPi' = SubSeq(toPi, 2 + 1, Len(toPi))
          BY <1>0, <4>2 DEF PiGetsCode
        <5> QED
          BY <1>0, <5>1
      <4>3. CASE PiDiscards
        <5>1. 1 \in Nat /\ 1 <= Len(toPi) /\ toPi' = SubSeq(toPi, 1 + 1, Len(toPi))
          BY <1>0, <4>3, WordsTypes DEF PiDiscards
        <5> QED
          BY <1>0, <5>1
      <4> QED
        BY <1>2, <4>1, <4>2, <4>3
    <3>2. \A i \in m + 1 .. z : toPi[i] \in Word
      BY <1>0, <3>1, ElementOfSeq
    <3>3. Len(SubSeq(toPi, m + 1, z)) = IF m + 1 <= z THEN z - (m + 1) + 1 ELSE 0
      BY <3>1, <3>2, SubSeqProperties
    <3> QED
      BY <3>1, <3>3
  <2>4. Len(toPi') \in Nat
    BY <1>2, LineTypeStep, LenProperties DEF LineTypeOK
  <2>5. Answered(host) \in Nat /\ hosts - 1 \in Nat
    BY BoundsAssumption DEF Answered, BoundsInv
  <2> QED
    BY <1>0, <2>1, <2>2, <2>3, <2>4, <2>5 DEF BoundsInv, FewWords
<1>3. CASE clean_reboot \/ PowerOff \/ PowerOn
  <2>1. /\ toPi' = <<>> /\ UNCHANGED <<tool, host, pos, hosts, prints, odd, started>>
        /\ pi' \in {"off", "ask", "code", "run"} /\ faults' \in 0 .. MAXFAULTS
    BY <1>3, BoundsAssumption DEF clean_reboot, PowerOff, PowerOn, PiFrame, BoundsInv
  <2>2. Len(toPi') = 0
    BY <2>1, EmptySeq
  <2>3. Answered(host) \in Nat /\ hosts - 1 \in Nat
    BY BoundsAssumption DEF Answered, BoundsInv
  <2> QED
    BY <1>0, <2>1, <2>2, <2>3 DEF BoundsInv, FewWords
<1>4. CASE HostStep
  <2>1. UNCHANGED <<tool, pi, faults, hosts, prints, started>>
    BY <1>4, HostFrames DEF HostFrame
  <2>2. odd' \in BOOLEAN
    BY <1>4 DEF HostStep, simple_boot, Answers, Discards, Drains, GetsRequest, GetsCksum,
       GetsResult, ShowsString, ShowsRest, ReadFails, pi_echo, tty_gone, PiprogSends,
       PiprogResult, PiprogGone, BoundsInv
  <2>3. pos' \in 0 .. 8
    <3>1. CASE pi_echo
      <4>1. PICK n \in 1 .. Len(toHost) : ReadsUpTo(n, pos)
        BY <3>1 DEF pi_echo
      <4>2. n \in Nat /\ pos \in 0 .. 8
        BY LenProperties DEF BoundsInv, LineTypeOK
      <4>3. pos' = Seen(n, pos)[n]
        BY <4>1, Zenon DEF ReadsUpTo
      <4> QED
        BY <4>2, <4>3, SeenRange
    <3>2. CASE ~pi_echo
      BY <1>4, <3>2 DEF HostStep, simple_boot, Answers, Discards, Drains, GetsRequest,
         GetsCksum, GetsResult, ShowsString, ShowsRest, ReadFails, tty_gone, PiprogSends,
         PiprogResult, PiprogGone, BoundsInv
    <3> QED
      BY <3>1, <3>2
  <2>4. host' \in HostStates
    BY <1>4, HostCounts
  <2>5. Len(toPi') <= 6 * (hosts' - 1) + Answered(host')
    <3>1. ASSUME NEW ws \in Seq(Word), toPi' = toPi \o ws
          PROVE  Len(toPi') = Len(toPi) + Len(ws)
      BY <1>0, <3>1, ConcatProperties
    <3>2. crc \in Word
      BY Words DEF LineTypeOK
    <3>3. /\ <<"PUT_PROG_INFO", "ARMBASE", "n", crc>> \in Seq(Word)
          /\ <<"PUT_PROG_INFO">> \in Seq(Word) /\ <<"ARMBASE", "n", crc>> \in Seq(Word)
          /\ <<"PUT_CODE", "bytes">> \in Seq(Word)
      BY <3>2, Tuples, Words DEF Sent
    <3>4. \/ UNCHANGED toPi /\ Answered(host) <= Answered(host')
          \/ Len(toPi') = Len(toPi) + 4 /\ host = "step0" /\ host' = "step2"
          \/ Len(toPi') = Len(toPi) + 1 /\ host = "step0" /\ host' = "rest"
          \/ Len(toPi') = Len(toPi) + 3 /\ host = "rest" /\ host' = "step2"
          \/ Len(toPi') = Len(toPi) + 2 /\ host = "step3" /\ host' = "step5"
      BY <1>4, <3>1, <3>3, HostCounts
    <3>5. Answered(host) \in Nat /\ Answered(host') \in Nat /\ hosts \in Nat
      BY BoundsAssumption DEF Answered, BoundsInv
    <3> QED
      BY <1>0, <2>1, <3>4, <3>5 DEF BoundsInv, FewWords, Answered
  <2> QED
    BY <2>1, <2>2, <2>3, <2>4, <2>5 DEF BoundsInv, FewWords
<1>5. CASE HostStarts
  <2>1. /\ host \in {"exit", "panic"} /\ hosts < MAXHOSTS /\ hosts' = hosts + 1
        /\ host' = "step0" /\ pos' = 0 /\ started' = FALSE
        /\ UNCHANGED <<tool, toPi, pi, faults, prints, odd>>
    BY <1>5 DEF HostStarts, HostEnded
  <2>2. hosts \in 1 .. MAXHOSTS /\ Len(toPi) <= 6 * (hosts - 1) + 6
    BY <2>1 DEF BoundsInv, FewWords, Answered
  <2>3. hosts' \in 1 .. MAXHOSTS /\ Len(toPi') <= 6 * (hosts' - 1) + 0
    BY <1>0, <2>1, <2>2, BoundsAssumption
  <2>4. Answered(host') = 0
    BY <2>1 DEF Answered
  <2>5. FewWords'
    BY <2>3, <2>4 DEF FewWords
  <2>6. pos' \in 0 .. 8 /\ host' \in HostStates
    BY <2>1 DEF HostStates
  <2>7. started' \in BOOLEAN
    BY <2>1, Zenon
  <2> QED
    BY <2>1, <2>3, <2>5, <2>6, <2>7 DEF BoundsInv
<1> QED
  BY <1>1, <1>2, <1>3, <1>4, <1>5 DEF BootStep, PiAnswers

LEMMA BoundsInit == SysInit => BoundsInv
<1> SUFFICES ASSUME SysInit PROVE BoundsInv
  OBVIOUS
<1>1. Len(toPi) = 0
  BY EmptySeq DEF SysInit, BootInit
<1>2. /\ host = "step0" /\ pos = 0 /\ pi = "ask" /\ faults = 0 /\ hosts = 1 /\ prints = 0
      /\ odd = FALSE /\ started = FALSE /\ tool \in {"simple_boot", "piprog"}
  BY DEF SysInit, BootInit
<1>3. 0 \in 0 .. MAXFAULTS /\ 1 \in 1 .. MAXHOSTS /\ 0 \in 0 .. MAXPRINTS
  BY BoundsAssumption
<1>4. FewWords
  BY <1>1, <1>2 DEF FewWords, Answered
<1>5. pos \in 0 .. 8 /\ host \in HostStates
  BY <1>2 DEF HostStates
<1>6. started \in BOOLEAN /\ odd \in BOOLEAN
  BY <1>2, Zenon
<1> QED
  BY <1>2, <1>3, <1>4, <1>5, <1>6 DEF BoundsInv

(* The states of the Pi, its host and the programs are those the modules name; in
   particular no host leaves more than six words on its way to the Pi, and
   pi_done's pos never runs past the exit string (pi-echo.c:8-24). *)
THEOREM SysTypes == SysSpec => []SysTypeOK
<1>1. SysInit => LineTypeOK /\ BoundsInv
  BY BoundsInit, LineInit
<1>2. LineTypeOK /\ BoundsInv /\ [SysNext]_sysVars => (LineTypeOK /\ BoundsInv)'
  <2> SUFFICES ASSUME LineTypeOK, BoundsInv, [SysNext]_sysVars PROVE LineTypeOK' /\ BoundsInv'
    OBVIOUS
  <2>1. CASE BootStep
    BY <2>1, LineTypeStep, BoundsStep
  <2>2. CASE UNCHANGED bootVars
    BY <2>2, LineTypeStep DEF bootVars, BoundsInv, FewWords
  <2> QED
    BY <2>1, <2>2, BootSteps
<1>3. LineTypeOK /\ BoundsInv /\ ProgTypeOK => SysTypeOK
  <2> SUFFICES ASSUME LineTypeOK, BoundsInv PROVE BootTypeOK
    BY DEF SysTypeOK, ProgTypeOK
  <2>1. \A b \in ToSet(toHost) : b[2] \in 0 .. 4
    <3> SUFFICES ASSUME NEW b \in ToSet(toHost) PROVE b[2] \in 0 .. 4
      OBVIOUS
    <3>1. PICK i \in DOMAIN toHost : b = toHost[i]
      BY DEF ToSet
    <3>2. b \in Word \X (0 .. 4)
      BY <3>1, LenProperties, ElementOfSeq DEF LineTypeOK, Byte
    <3> QED
      BY <3>2
  <2>2. Len(toPi) <= 6 * MAXHOSTS
    <3>1. PICK a \in 0 .. 6 : a = Answered(host)
      BY DEF Answered
    <3>2. Len(toPi) \in Nat
      BY LenProperties DEF LineTypeOK
    <3> QED
      BY <3>1, <3>2, BoundsAssumption DEF BoundsInv, FewWords
  <2> QED
    BY <2>1, <2>2, ExitTypes DEF BootTypeOK, BoundsInv, LineTypeOK
<1> QED
  BY <1>1, <1>2, <1>3, ProgTypes, PTL DEF SysSpec
-----------------------------------------------------------------------------
(* The undisturbed line *)

\* The last bytes on the line, from the one at from on, are requests, the last one whole.
Requests(from) == \A k \in from .. Len(toHost) :
  toHost[k] = <<"GET_PROG_INFO", 4 - ((Len(toHost) - k) % 4)>>

\* The line holds whole words, and an odd number of extra requests is an odd number of words.
Parity == Len(toHost) % 4 = 0 /\ (odd <=> Len(toHost) % 8 = 4)

(* The states of an undisturbed boot and of the runs of the host after it, in
   their order. *)
Asking == host \in {"step0", "exit"} /\ pi = "ask" /\ toPi = <<>> /\ Requests(1)

Answered4 ==
  /\ host = "step2" /\ pi = "ask" /\ toPi = <<"PUT_PROG_INFO", "ARMBASE", "n", crc>>
  /\ Requests(1) /\ Parity

\* The last two words are GET_CODE and the checksum, or the drain took the first of them.
WantsCode ==
  /\ host = "step2" /\ pi = "code" /\ toPi = <<>> /\ Parity /\ Len(toHost) >= 4
  /\ \A k \in 1 .. 4 : toHost[Len(toHost) - 4 + k] = <<crc, k>>
  /\ Len(toHost) >= 8 => \A k \in 1 .. 4 : toHost[Len(toHost) - 8 + k] = <<"GET_CODE", k>>
  /\ \A k \in 1 .. Len(toHost) - 8 :
       toHost[k] = <<"GET_PROG_INFO", 4 - ((Len(toHost) - k) % 4)>>

Checking ==
  /\ host = "step3" /\ pi = "code" /\ toPi = <<>>
  /\ Len(toHost) = 4 /\ \A k \in 1 .. 4 : toHost[k] = <<crc, k>>

Sending == host = "step5" /\ pi = "code" /\ toPi = <<"PUT_CODE", "bytes">> /\ toHost = <<>>

Booted ==
  /\ host = "step5" /\ pi = "run" /\ toPi = <<>>
  /\ Len(toHost) = 4 /\ \A k \in 1 .. 4 : toHost[k] = <<"BOOT_SUCCESS", k>>

Silent == host = "echo" /\ pi = "run" /\ toPi = <<>> /\ toHost = <<>> /\ pos = 0

Over ==
  /\ host = "step5" /\ pi = "ask" /\ toPi = <<>>
  /\ Len(toHost) >= 12 /\ Requests(13)
  /\ \A k \in 1 .. 4 : toHost[k] = <<"BOOT_SUCCESS", k>>
  /\ \A k \in 1 .. 8 : toHost[k + 4] = <<exit_string[k], 0>>

Leaving ==
  /\ host = "echo" /\ pi = "ask" /\ toPi = <<>>
  /\ pos \in 0 .. 7 /\ Len(toHost) >= 8 - pos /\ Requests(9 - pos)
  /\ \A k \in 1 .. 8 - pos : toHost[k] = <<exit_string[k + pos], 0>>

\* The boot failed: the Pi waits for code for ever.
Deaf == host \in {"step0", "panic"} /\ pi = "code" /\ toPi = <<>> /\ toHost = <<>>

Undisturbed == tool = "simple_boot" /\ faults = 0 /\ prints = 0

Phase == \/ Asking \/ Answered4 \/ WantsCode \/ Checking \/ Sending \/ Booted \/ Silent
         \/ Over \/ Leaving \/ Deaf

BootInv == Undisturbed => Phase /\ (host \notin {"echo", "exit"} => pos = 0)

\* One more request keeps the requests at the end.
LEMMA RequestsGrow ==
  ASSUME LineTypeOK, Send(Bytes("GET_PROG_INFO"))
  PROVE  /\ Len(toHost') = Len(toHost) + 4 /\ Len(toHost) \in Nat
         /\ \A k \in 1 .. Len(toHost) : toHost'[k] = toHost[k]
         /\ \A from \in Nat \ {0} : Requests(from) => Requests(from)'
<1>1. PICK m : m = Bytes("GET_PROG_INFO")
  OBVIOUS
<1>2. m \in Seq(Byte) /\ Len(m) = 4 /\ \A k \in 1 .. 4 : m[k] = <<"GET_PROG_INFO", k>>
  <2>1. "GET_PROG_INFO" \in Word
    BY Words DEF Sent
  <2>2. \A k \in 1 .. 4 : Bytes("GET_PROG_INFO")[k] = <<"GET_PROG_INFO", k>>
    BY Zenon DEF Bytes
  <2> QED
    BY <1>1, <2>1, <2>2, SentTypes
<1>3. PICK z \in Nat : z = Len(toHost)
  BY LenProperties DEF LineTypeOK
<1>4. /\ Len(toHost') = z + 4
      /\ \A k \in 1 .. z + 4 : toHost'[k] = IF k <= z THEN toHost[k] ELSE m[k - z]
  BY <1>1, <1>2, <1>3, SendIs
<1>5. ASSUME NEW from \in Nat \ {0}, Requests(from), NEW k \in from .. z + 4
      PROVE  toHost'[k] = <<"GET_PROG_INFO", 4 - (((z + 4) - k) % 4)>>
  <2>1. CASE k <= z
    <3>1. toHost[k] = <<"GET_PROG_INFO", 4 - ((z - k) % 4)>>
      BY <1>3, <1>5, <2>1 DEF Requests
    <3>2. ((z + 4) - k) % 4 = (z - k) % 4
      BY <2>1
    <3> QED
      BY <1>4, <2>1, <3>1, <3>2
  <2>2. CASE ~(k <= z)
    <3>1. k - z \in 1 .. 4 /\ 4 - (((z + 4) - k) % 4) = k - z
      BY <2>2
    <3> QED
      BY <1>2, <1>4, <2>2, <3>1
  <2> QED
    BY <2>1, <2>2
<1>6. ASSUME NEW from \in Nat \ {0}, Requests(from) PROVE Requests(from)'
  BY <1>4, <1>5, <1>6 DEF Requests
<1> QED
  BY <1>3, <1>4, <1>6

\* So does reading from the front.
LEMMA RequestsDrop ==
  ASSUME LineTypeOK, NEW n \in 0 .. Len(toHost), toHost' = Drop(n),
         NEW from \in Nat, Requests(from), NEW to \in Nat \ {0}, to + n >= from
  PROVE  Requests(to)'
<1>1. PICK z \in Nat : z = Len(toHost) /\ n <= z
  BY LenProperties DEF LineTypeOK
<1>2. Len(toHost') = z - n /\ \A k \in 1 .. z - n : toHost'[k] = toHost[k + n]
  BY <1>1, DropIs
<1>3. ASSUME NEW k \in to .. z - n
      PROVE  toHost'[k] = <<"GET_PROG_INFO", 4 - (((z - n) - k) % 4)>>
  <2>1. k + n \in from .. z /\ k \in 1 .. z - n /\ z - (k + n) = (z - n) - k
    BY <1>1
  <2>2. toHost[k + n] = <<"GET_PROG_INFO", 4 - ((z - (k + n)) % 4)>>
    BY <1>1, <2>1 DEF Requests
  <2> QED
    BY <1>2, <2>1, <2>2
<1> QED
  BY <1>2, <1>3 DEF Requests

\* As many whole requests follow the first word as the line has words left.
LEMMA ExtrasAre ==
  ASSUME LineTypeOK, Requests(1), Len(toHost) % 4 = 0, Len(toHost) >= 4
  PROVE  \E m \in Nat : Len(toHost) = 4 * m + 4 /\ ExtraOnLine = m
<1>1. PICK z \in Nat : z = Len(toHost) /\ z % 4 = 0 /\ z >= 4
  BY LenProperties DEF LineTypeOK
<1>2. PICK m \in Nat : z = 4 * m + 4
  <2>1. PICK m : m = (z - 4) \div 4
    OBVIOUS
  <2>2. m \in Nat /\ z = 4 * m + 4
    BY <1>1, <2>1
  <2> QED
    BY <2>2
<1> DEFINE S == {k \in 5 .. Len(toHost) : toHost[k] = <<"GET_PROG_INFO", 4>>}
           f == [j \in 1 .. m |-> 4 * j + 4]
<1>3. \A k \in 5 .. z : k \in S <=> k % 4 = 0
  <2> SUFFICES ASSUME NEW k \in 5 .. z PROVE k \in S <=> k % 4 = 0
    OBVIOUS
  <2>1. toHost[k] = <<"GET_PROG_INFO", 4 - ((z - k) % 4)>>
    BY <1>1 DEF Requests
  <2>2. 4 - ((z - k) % 4) = 4 <=> k % 4 = 0
    BY <1>2
  <2> QED
    BY <1>1, <2>1, <2>2
<1>4. S \subseteq 5 .. z
  BY <1>1
<1> HIDE DEF S
<1>5. f \in Bijection(1 .. m, S)
  <2>1. f \in [1 .. m -> S]
    <3> SUFFICES ASSUME NEW j \in 1 .. m PROVE 4 * j + 4 \in S
      OBVIOUS
    <3>1. 4 * j + 4 \in 5 .. z /\ (4 * j + 4) % 4 = 0
      BY <1>2
    <3> QED
      BY <1>3, <3>1
  <2>2. \A i, j \in 1 .. m : f[i] = f[j] => i = j
    OBVIOUS
  <2>3. ASSUME NEW k \in S PROVE \E j \in 1 .. m : f[j] = k
    <3>1. k \in 5 .. z /\ k % 4 = 0
      BY <1>3, <1>4
    <3>2. PICK j : j = (k - 4) \div 4
      OBVIOUS
    <3>3. j \in 1 .. m /\ 4 * j + 4 = k
      BY <1>2, <3>1, <3>2
    <3> QED
      BY <3>3
  <2> HIDE DEF f
  <2> QED
    BY <2>1, <2>2, <2>3 DEF Bijection, Injection, Surjection, IsInjective
<1>6. IsFiniteSet(1 .. m) /\ Cardinality(1 .. m) = m
  <2>1. 1 \in Int /\ m \in Int
    OBVIOUS
  <2>2. /\ IsFiniteSet(1 .. m)
        /\ Cardinality(1 .. m) = IF 1 > m THEN 0 ELSE m - 1 + 1
    BY <2>1, FS_Interval
  <2> QED
    BY <2>2
<1>7. Cardinality(S) = m
  BY <1>5, <1>6, FS_Bijection DEF ExistsBijection
<1>8. ExtraOnLine = Cardinality(S)
  BY DEF ExtraOnLine, S
<1> QED
  BY <1>1, <1>2, <1>7, <1>8

\* The Pi asks: after a start, or for the next program.
LEMMA AsksBoot ==
  ASSUME LineTypeOK, Phase, PiAsks
  PROVE  Phase'
<1>1. /\ pi = "ask" /\ toPi = <<>> /\ UNCHANGED <<host, pi, toPi, pos>>
      /\ Send(Bytes("GET_PROG_INFO"))
  BY DEF PiAsks, PiFrame
<1>2. /\ Len(toHost') = Len(toHost) + 4 /\ Len(toHost) \in Nat
      /\ \A k \in 1 .. Len(toHost) : toHost'[k] = toHost[k]
      /\ \A from \in Nat \ {0} : Requests(from) => Requests(from)'
  BY <1>1, RequestsGrow
<1>3. toPi # <<"PUT_PROG_INFO", "ARMBASE", "n", crc>>
  BY <1>1
<1>4. CASE Asking
  <2>1. Asking'
    <3>1. 1 \in Nat \ {0}
      OBVIOUS
    <3>2. Requests(1)'
      BY <1>2, <1>4, <3>1 DEF Asking
    <3> QED
      BY <1>1, <1>4, <3>2 DEF Asking
  <2> QED
    BY <2>1 DEF Phase
<1>5. CASE Over
  <2>1. Requests(13)'
    <3>1. 13 \in Nat \ {0}
      OBVIOUS
    <3> QED
      BY <1>2, <1>5, <3>1 DEF Over
  <2>2. \A k \in 1 .. 12 : toHost'[k] = toHost[k]
    <3>1. Len(toHost) >= 12
      BY <1>5 DEF Over
    <3> QED
      BY <1>2, <3>1
  <2>3. /\ \A k \in 1 .. 4 : toHost'[k] = <<"BOOT_SUCCESS", k>>
        /\ \A k \in 1 .. 8 : toHost'[k + 4] = <<exit_string[k], 0>>
    <3>1. \A k \in 1 .. 8 : k + 4 \in 1 .. 12
      OBVIOUS
    <3>2. \A k \in 1 .. 4 : k \in 1 .. 12
      OBVIOUS
    <3> QED
      BY <1>5, <2>2, <3>1, <3>2 DEF Over
  <2>4. Len(toHost') >= 12
    BY <1>2, <1>5 DEF Over
  <2>5. Over'
    BY <1>1, <1>5, <2>1, <2>3, <2>4 DEF Over
  <2> QED
    BY <2>5 DEF Phase
<1>6. CASE Leaving
  <2>1. PICK p \in 0 .. 7 : p = pos /\ p = pos'
    BY <1>1, <1>6 DEF Leaving
  <2>2. 9 - p \in Nat \ {0} /\ Requests(9 - p) /\ Len(toHost) >= 8 - p
    <3>1. Requests(9 - pos) /\ Len(toHost) >= 8 - pos
      BY <1>6 DEF Leaving
    <3>2. 9 - p \in Nat \ {0}
      OBVIOUS
    <3>3. Requests(9 - p) /\ Len(toHost) >= 8 - p
      BY <2>1, <3>1, Zenon
    <3> QED
      BY <3>2, <3>3
  <2>3. Requests(9 - pos)'
    <3>1. Requests(9 - p)'
      BY <1>2, <2>2
    <3> QED
      BY <2>1, <3>1 DEF Requests
  <2>4. \A k \in 1 .. 8 - p : toHost'[k] = <<exit_string[k + p], 0>>
    <3>1. \A k \in 1 .. 8 - p : k \in 1 .. Len(toHost)
      <4>1. Len(toHost) \in Nat /\ Len(toHost) >= 8 - p
        BY <1>2, <2>2
      <4> QED
        BY <4>1
    <3>2. \A k \in 1 .. 8 - p : toHost[k] = <<exit_string[k + p], 0>>
      BY <1>6, <2>1 DEF Leaving
    <3> QED
      BY <1>2, <3>1, <3>2
  <2>5. Len(toHost') >= 8 - p
    BY <1>2, <2>1, <2>2
  <2>6. Leaving'
    BY <1>1, <1>6, <2>1, <2>3, <2>4, <2>5 DEF Leaving
  <2> QED
    BY <2>6 DEF Phase
<1> QED
  BY <1>1, <1>3, <1>4, <1>5, <1>6
     DEF Phase, Answered4, WantsCode, Checking, Sending, Booted, Silent, Deaf

\* The Pi takes what it is told, and asks for the code with the checksum it was told.
LEMMA GetsInfoBoot ==
  ASSUME LineTypeOK, Phase, PiGetsInfo, faults = 0, faults' = 0
  PROVE  Phase'
<1>1. /\ pi = "ask" /\ Len(toPi) >= 4 /\ UNCHANGED <<host, crc, odd>>
      /\ toPi' = SubSeq(toPi, 5, Len(toPi))
      /\ Send(Bytes("GET_CODE") \o Bytes(toPi[4])) /\ pi' = "code"
  BY DEF PiGetsInfo, Refuse, PiFrame
<1>2. toPi # <<>>
  BY <1>1, EmptySeq
<1>3. Answered4
  BY <1>1, <1>2 DEF Phase, Asking, WantsCode, Checking, Sending, Booted, Silent, Over, Leaving,
     Deaf
<1>4. Len(toPi) = 4 /\ toPi[4] = crc /\ toPi' = <<>>
  <2>1. Len(<<"PUT_PROG_INFO", "ARMBASE", "n", crc>>) = 4
    OBVIOUS
  <2>2. Len(toPi) = 4 /\ toPi[4] = crc
    BY <1>3, <2>1 DEF Answered4
  <2> QED
    BY <1>1, <2>2, SubSeqEmpty
<1> DEFINE m == Bytes("GET_CODE") \o Bytes(crc)
<1>5. /\ m \in Seq(Byte) /\ Len(m) = 8
      /\ \A k \in 1 .. 8 : m[k] = IF k <= 4 THEN <<"GET_CODE", k>> ELSE <<crc, k - 4>>
  <2>1. "GET_CODE" \in Word /\ crc \in Word
    BY Words DEF Sent, LineTypeOK
  <2> QED
    BY <2>1, TwoWords, Zenon
<1>6. Send(m)
  BY <1>1, <1>4
<1> HIDE DEF m
<1>7. PICK z \in Nat : z = Len(toHost)
  BY LenProperties DEF LineTypeOK
<1>8. /\ Len(toHost') = z + 8
      /\ \A k \in 1 .. z + 8 : toHost'[k] = IF k <= z THEN toHost[k] ELSE m[k - z]
  BY <1>5, <1>6, <1>7, SendIs
<1>9. Parity'
  <2>1. z % 4 = 0 /\ (odd <=> z % 8 = 4)
    BY <1>3, <1>7 DEF Answered4, Parity
  <2>2. (z + 8) % 4 = 0 /\ (z % 8 = 4 <=> (z + 8) % 8 = 4)
    BY <2>1
  <2> QED
    BY <1>1, <1>8, <2>1, <2>2 DEF Parity
<1>10. \A k \in 1 .. 4 : toHost'[z + 4 + k] = <<crc, k>> /\ toHost'[z + k] = <<"GET_CODE", k>>
  <2> SUFFICES ASSUME NEW k \in 1 .. 4
               PROVE  toHost'[z + 4 + k] = <<crc, k>> /\ toHost'[z + k] = <<"GET_CODE", k>>
    OBVIOUS
  <2>1. /\ z + 4 + k \in 1 .. z + 8 /\ ~(z + 4 + k <= z) /\ (z + 4 + k) - z = k + 4
        /\ z + k \in 1 .. z + 8 /\ ~(z + k <= z) /\ (z + k) - z = k
    OBVIOUS
  <2>2. toHost'[z + 4 + k] = m[k + 4] /\ toHost'[z + k] = m[k]
    BY <1>8, <2>1
  <2>3. k + 4 \in 1 .. 8 /\ ~(k + 4 <= 4) /\ (k + 4) - 4 = k /\ k \in 1 .. 8 /\ k <= 4
    OBVIOUS
  <2> QED
    BY <1>5, <2>2, <2>3
<1>11. \A k \in 1 .. z : toHost'[k] = <<"GET_PROG_INFO", 4 - (((z + 8) - k) % 4)>>
  <2> SUFFICES ASSUME NEW k \in 1 .. z
               PROVE  toHost'[k] = <<"GET_PROG_INFO", 4 - (((z + 8) - k) % 4)>>
    OBVIOUS
  <2>1. toHost[k] = <<"GET_PROG_INFO", 4 - ((z - k) % 4)>>
    BY <1>3, <1>7 DEF Answered4, Requests
  <2>2. ((z + 8) - k) % 4 = (z - k) % 4 /\ k \in 1 .. z + 8 /\ k <= z
    OBVIOUS
  <2> QED
    BY <1>8, <2>1, <2>2
<1>12. WantsCode'
  <2>1. (z + 8) - 4 = z + 4 /\ (z + 8) - 8 = z
    OBVIOUS
  <2>2. Len(toHost') - 4 = z + 4 /\ Len(toHost') - 8 = z
    BY <1>8, <2>1
  <2>3. Len(toHost') >= 4 /\ host' = "step2" /\ pi' = "code" /\ toPi' = <<>> /\ crc' = crc
    BY <1>1, <1>3, <1>4, <1>8 DEF Answered4
  <2> QED
    BY <1>8, <1>9, <1>10, <1>11, <2>2, <2>3 DEF WantsCode
<1> QED
  BY <1>12 DEF Phase

\* The Pi takes the code and starts it.
LEMMA GetsCodeBoot ==
  ASSUME LineTypeOK, Phase, PiGetsCode, faults = 0, faults' = 0
  PROVE  Phase'
<1>1. /\ pi = "code" /\ Len(toPi) >= 2 /\ UNCHANGED host
      /\ toPi' = SubSeq(toPi, 3, Len(toPi))
      /\ Send(Bytes("BOOT_SUCCESS")) /\ pi' = "run"
  BY DEF PiGetsCode, Refuse
<1>2. toPi # <<>>
  BY <1>1, EmptySeq
<1>3. Sending
  BY <1>1, <1>2 DEF Phase, Asking, Answered4, WantsCode, Checking, Booted, Silent, Over, Leaving,
     Deaf
<1>4. toPi' = <<>>
  <2>1. Len(<<"PUT_CODE", "bytes">>) = 2
    OBVIOUS
  <2>2. Len(toPi) = 2
    BY <1>3, <2>1 DEF Sending
  <2> QED
    BY <1>1, <2>2, SubSeqEmpty
<1>5. Bytes("BOOT_SUCCESS") \in Seq(Byte) /\ Len(Bytes("BOOT_SUCCESS")) = 4
  BY SentTypes, Words DEF Sent
<1>6. toHost' = Bytes("BOOT_SUCCESS")
  BY <1>1, <1>3, <1>5, ConcatEmptySeq DEF Send, Sending
<1>7. \A k \in 1 .. 4 : Bytes("BOOT_SUCCESS")[k] = <<"BOOT_SUCCESS", k>>
  BY Zenon DEF Bytes
<1>8. Booted'
  BY <1>1, <1>3, <1>4, <1>5, <1>6, <1>7 DEF Booted, Sending
<1> QED
  BY <1>8 DEF Phase

\* The program ends.
LEMMA RebootBoot ==
  ASSUME LineTypeOK, Phase, clean_reboot
  PROVE  Phase'
<1>1. /\ pi = "run" /\ UNCHANGED <<host, pos>> /\ Send(Chars(exit_string))
      /\ pi' = "ask" /\ toPi' = <<>>
  BY DEF clean_reboot, PiFrame
<1>2. PICK m : m = Chars(exit_string)
  OBVIOUS
<1>3. m \in Seq(Byte) /\ Len(m) = 8 /\ \A k \in 1 .. 8 : m[k] = <<exit_string[k], 0>>
  <2>1. \A k \in 1 .. Len(exit_string) : Chars(exit_string)[k] = <<exit_string[k], 0>>
    BY Zenon DEF Chars
  <2> QED
    BY <1>2, <2>1, ExitTypes, SentTypes
<1>4. CASE Booted
  <2>1. /\ Len(toHost') = 12
        /\ \A k \in 1 .. 12 : toHost'[k] = IF k <= 4 THEN toHost[k] ELSE m[k - 4]
    <3>1. Len(toHost) = 4 /\ Send(m)
      BY <1>1, <1>2, <1>4 DEF Booted
    <3>2. /\ Len(toHost') = Len(toHost) + Len(m)
          /\ \A k \in 1 .. Len(toHost) + Len(m) :
               toHost'[k] = IF k <= Len(toHost) THEN toHost[k] ELSE m[k - Len(toHost)]
      BY <1>3, <3>1, SendIs
    <3>3. Len(toHost) + Len(m) = 12
      BY <1>3, <3>1
    <3> QED
      BY <3>1, <3>2, <3>3
  <2>2. \A k \in 1 .. 4 : toHost'[k] = <<"BOOT_SUCCESS", k>>
    <3>1. \A k \in 1 .. 4 : k \in 1 .. 12 /\ k <= 4
      OBVIOUS
    <3> QED
      BY <1>4, <2>1, <3>1 DEF Booted
  <2>3. \A k \in 1 .. 8 : toHost'[k + 4] = <<exit_string[k], 0>>
    <3>1. \A k \in 1 .. 8 : k + 4 \in 1 .. 12 /\ ~(k + 4 <= 4) /\ (k + 4) - 4 = k
      OBVIOUS
    <3> QED
      BY <1>3, <2>1, <3>1
  <2>4. Requests(13)'
    BY <2>1 DEF Requests
  <2>5. Over'
    BY <1>1, <1>4, <2>1, <2>2, <2>3, <2>4 DEF Over, Booted
  <2> QED
    BY <2>5 DEF Phase
<1>5. CASE Silent
  <2>1. toHost' = m
    BY <1>1, <1>2, <1>3, <1>5, ConcatEmptySeq DEF Send, Silent
  <2>2. pos = 0 /\ pos' = 0 /\ Len(toHost') = 8
    BY <1>1, <1>3, <1>5, <2>1 DEF Silent
  <2>3. \A k \in 1 .. 8 - pos' : toHost'[k] = <<exit_string[k + pos'], 0>>
    <3>1. \A k \in 1 .. 8 : k + 0 = k
      OBVIOUS
    <3> QED
      BY <1>3, <2>1, <2>2, <3>1
  <2>4. Requests(9 - pos)'
    BY <2>2 DEF Requests
  <2>5. Leaving'
    BY <1>1, <1>5, <2>2, <2>3, <2>4 DEF Leaving, Silent
  <2> QED
    BY <2>5 DEF Phase
<1> QED
  BY <1>1, <1>4, <1>5
     DEF Phase, Asking, Answered4, WantsCode, Checking, Sending, Over, Leaving, Deaf

\* The first word on the line, as the host sees it.
LEMMA OpIsWord ==
  /\ \A w : (\A k \in 1 .. 4 : toHost[k] = <<w, k>>) /\ Has(4) => Op = w
  /\ \A w : Op = w /\ w \notin {"none", "junk"} => Has(4) /\ \A k \in 1 .. 4 : toHost[k] = <<w, k>>
  /\ ~Has(4) => Op = "none"
BY WordIs DEF Op

\* The steps of simple_boot where an undisturbed boot can be.
LEMMA SimpleBootSteps ==
  ASSUME HostStep, tool = "simple_boot", host \notin {"rest", "listen", "ck_eq32"}
  PROVE  \/ Answers \/ Discards \/ Drains \/ GetsRequest \/ GetsCksum \/ GetsResult
         \/ ShowsString \/ ReadFails \/ pi_echo \/ tty_gone
BY DEF HostStep, simple_boot, ShowsRest, PiprogSends, PiprogResult, PiprogGone, CheckUint

LEMMA HostAsking ==
  ASSUME LineTypeOK, tool = "simple_boot", Asking, HostStep
  PROVE  Phase'
<1>1. PICK z \in Nat : z = Len(toHost)
  BY LenProperties DEF LineTypeOK
<1>2. /\ host \in {"step0", "exit"} /\ pi = "ask" /\ toPi = <<>> /\ Requests(1)
      /\ \A k \in 1 .. z : toHost[k] = <<"GET_PROG_INFO", 4 - ((z - k) % 4)>>
  BY <1>1 DEF Asking, Requests
<1>3. Op # "PRINT_STRING"
  <2> SUFFICES ASSUME Op = "PRINT_STRING" PROVE FALSE
    OBVIOUS
  <2>1. Has(4) /\ toHost[1] = <<"PRINT_STRING", 1>>
    BY OpIsWord
  <2>2. 1 \in 1 .. z
    BY <1>1, <2>1 DEF Has
  <2> QED
    BY <1>2, <2>1, <2>2
<1>4. Answers \/ Discards
  BY <1>2, <1>3, SimpleBootSteps DEF Drains, GetsRequest, GetsCksum, GetsResult, ShowsString,
     ReadFails, Quiet, pi_echo, tty_gone, OpIs
<1>5. CASE Discards
  <2>1. /\ host = "step0" /\ host' = "step0" /\ toHost' = Drop(5) /\ 5 \in 0 .. Len(toHost)
        /\ UNCHANGED <<toPi, pi>>
    BY <1>1, <1>5 DEF Discards, Goto, Has, HostFrame
  <2>2. 1 \in Nat \ {0} /\ 1 + 5 >= 1
    OBVIOUS
  <2>3. Requests(1)'
    BY <1>2, <2>1, <2>2, RequestsDrop
  <2>4. Asking'
    BY <1>2, <2>1, <2>3 DEF Asking
  <2> QED
    BY <2>4 DEF Phase
<1>6. CASE Answers
  <2>1. /\ host' = "step2" /\ toHost' = Drop(4) /\ Op = "GET_PROG_INFO"
        /\ toPi' = toPi \o <<"PUT_PROG_INFO", "ARMBASE", "n", crc>>
        /\ UNCHANGED <<pi, crc>> /\ odd' = (ExtraOnLine % 2 = 1)
    BY <1>6 DEF Answers, Goto, OpIs, HostFrame
  <2>2. z >= 4 /\ toHost[4] = <<"GET_PROG_INFO", 4>>
    BY <1>1, <2>1, OpIsWord DEF Has
  <2>3. z % 4 = 0
    <3>1. 4 - ((z - 4) % 4) = 4
      <4>1. 4 \in 1 .. z
        BY <2>2
      <4> QED
        BY <1>2, <2>2, <4>1
    <3> QED
      BY <2>2, <3>1
  <2>4. PICK m \in Nat : z = 4 * m + 4 /\ ExtraOnLine = m
    BY <1>1, <1>2, <2>2, <2>3, ExtrasAre
  <2>5. Len(toHost') = 4 * m
    <3>1. 4 \in 0 .. Len(toHost)
      BY <1>1, <2>2
    <3> QED
      BY <1>1, <2>1, <2>4, <3>1, DropIs
  <2>6. Parity'
    <3>1. (4 * m) % 4 = 0 /\ (m % 2 = 1 <=> (4 * m) % 8 = 4)
      OBVIOUS
    <3>2. odd' <=> m % 2 = 1
      BY <2>1, <2>4, Zenon
    <3> QED
      BY <2>5, <3>1, <3>2 DEF Parity
  <2>7. Requests(1)'
    <3>1. 1 \in Nat \ {0} /\ 1 + 4 >= 1 /\ 4 \in 0 .. Len(toHost)
      BY <1>1, <2>2
    <3> QED
      BY <1>2, <2>1, <3>1, RequestsDrop
  <2>8. toPi' = <<"PUT_PROG_INFO", "ARMBASE", "n", crc>>
    <3>1. crc \in Word
      BY Words DEF LineTypeOK
    <3>2. <<"PUT_PROG_INFO", "ARMBASE", "n", crc>> \in Seq(Word)
      BY <3>1, Tuples, Words DEF Sent
    <3> QED
      BY <1>2, <2>1, <3>2, ConcatEmptySeq
  <2>9. Answered4'
    BY <1>2, <2>1, <2>6, <2>7, <2>8 DEF Answered4
  <2> QED
    BY <2>9 DEF Phase
<1> QED
  BY <1>4, <1>5, <1>6

LEMMA HostAnswered ==
  ASSUME LineTypeOK, tool = "simple_boot", Answered4, HostStep
  PROVE  Phase' /\ host' = "step2"
<1>1. PICK z \in Nat : z = Len(toHost)
  BY LenProperties DEF LineTypeOK
<1>2. /\ host = "step2" /\ pi = "ask" /\ Requests(1) /\ z % 4 = 0 /\ (odd <=> z % 8 = 4)
      /\ toPi = <<"PUT_PROG_INFO", "ARMBASE", "n", crc>>
      /\ \A k \in 1 .. z : toHost[k] = <<"GET_PROG_INFO", 4 - ((z - k) % 4)>>
  BY <1>1 DEF Answered4, Requests, Parity
<1>3. Op \in {"none", "GET_PROG_INFO"}
  <2>1. CASE ~Has(4)
    BY <2>1, OpIsWord
  <2>2. CASE Has(4)
    <3>1. ASSUME NEW k \in 1 .. 4 PROVE toHost[k] = <<"GET_PROG_INFO", k>>
      <4>1. k \in 1 .. z /\ 4 - ((z - k) % 4) = k
        <5>1. z >= 4 /\ z % 4 = 0
          BY <1>1, <1>2, <2>2 DEF Has
        <5> QED
          BY <5>1
      <4> QED
        BY <1>2, <4>1
    <3> QED
      BY <2>2, <3>1, OpIsWord
  <2> QED
    BY <2>1, <2>2
<1>4. Drains
  BY <1>2, <1>3, SimpleBootSteps DEF Answers, Discards, GetsRequest, GetsCksum, GetsResult,
     ShowsString, ReadFails, Quiet, pi_echo, tty_gone, OpIs, OpIsNot
<1>5. /\ host' = "step2" /\ toHost' = Drop(8) /\ 8 \in 0 .. Len(toHost)
      /\ UNCHANGED <<toPi, pi, crc, odd>>
  BY <1>1, <1>4 DEF Drains, Goto, Has, HostFrame
<1>6. Len(toHost') = z - 8
  BY <1>1, <1>5, DropIs
<1>7. Parity'
  <2>1. (z - 8) % 4 = 0 /\ (z % 8 = 4 <=> (z - 8) % 8 = 4)
    BY <1>2
  <2> QED
    BY <1>2, <1>5, <1>6, <2>1 DEF Parity
<1>8. Requests(1)'
  <2>1. 1 \in Nat \ {0} /\ 1 + 8 >= 1
    OBVIOUS
  <2> QED
    BY <1>2, <1>5, <2>1, RequestsDrop
<1>9. Answered4'
  BY <1>2, <1>5, <1>7, <1>8 DEF Answered4
<1> QED
  BY <1>5, <1>9 DEF Phase

\* The drain takes two words at a time: it finds the GET_CODE, or takes it.
LEMMA HostWantsCode ==
  ASSUME "GET_CODE" \notin Crcs, LineTypeOK, tool = "simple_boot", WantsCode, HostStep
  PROVE  /\ Phase'
         /\ host' \in {"step3", "panic"} => (host' = "panic" <=> odd)
<1>1. PICK z \in Nat : z = Len(toHost)
  BY LenProperties DEF LineTypeOK
<1>2. /\ host = "step2" /\ pi = "code" /\ toPi = <<>> /\ z >= 4 /\ z % 4 = 0 /\ (odd <=> z % 8 = 4)
      /\ \A k \in 1 .. 4 : toHost[z - 4 + k] = <<crc, k>>
      /\ z >= 8 => \A k \in 1 .. 4 : toHost[z - 8 + k] = <<"GET_CODE", k>>
      /\ \A k \in 1 .. z - 8 : toHost[k] = <<"GET_PROG_INFO", 4 - ((z - k) % 4)>>
  BY <1>1 DEF WantsCode, Parity
<1>3. crc # "GET_CODE"
  BY DEF LineTypeOK
<1>4. \/ Drains \/ GetsRequest \/ ShowsString \/ ReadFails
  BY <1>2, SimpleBootSteps DEF Answers, Discards, GetsCksum, GetsResult, pi_echo, tty_gone
<1>5. UNCHANGED <<pi, crc, toPi, odd>>
  BY <1>4, HostFrames DEF HostFrame, Drains, GetsRequest, ShowsString, ReadFails
<1>6. CASE z = 4
  <2>1. Op = crc
    <3>1. \A k \in 1 .. 4 : z - 4 + k = k
      BY <1>6
    <3>2. \A k \in 1 .. 4 : toHost[k] = <<crc, k>>
      BY <1>2, <3>1
    <3> QED
      BY <1>1, <1>6, <3>2, OpIsWord DEF Has
  <2>2. ~Has(8) /\ ~Has(9)
    BY <1>1, <1>6 DEF Has
  <2>3. host' = "panic" /\ (toHost' = <<>> \/ toHost' = Drop(4))
    BY <1>3, <1>4, <2>1, <2>2 DEF Drains, GetsRequest, ShowsString, StringLength, ReadFails, Goto
  <2>4. toHost' = <<>>
    <3>1. 4 \in 0 .. Len(toHost) /\ Len(toHost) - 4 = 0
      BY <1>1, <1>6
    <3>2. Drop(4) \in Seq(Byte) /\ Len(Drop(4)) = 0
      BY <3>1, DropIs
    <3> QED
      BY <2>3, <3>2, EmptySeq
  <2>5. odd
    BY <1>2, <1>6
  <2>6. Deaf'
    BY <1>2, <1>5, <2>3, <2>4 DEF Deaf
  <2> QED
    BY <2>3, <2>5, <2>6 DEF Phase
<1>7. CASE z = 8
  <2>1. Op = "GET_CODE"
    <3>1. \A k \in 1 .. 4 : z - 8 + k = k
      BY <1>7
    <3>2. \A k \in 1 .. 4 : toHost[k] = <<"GET_CODE", k>>
      BY <1>2, <1>7, <3>1
    <3> QED
      BY <1>1, <1>7, <3>2, OpIsWord DEF Has
  <2>2. Has(4)
    BY <1>1, <1>7 DEF Has
  <2>3. host' = "step3" /\ toHost' = Drop(4)
    BY <1>2, <1>4, <2>1, <2>2 DEF Drains, GetsRequest, ShowsString, ReadFails, Blocked, OpIs,
       OpIsNot, Goto
  <2>4. Len(toHost') = 4 /\ \A k \in 1 .. 4 : toHost'[k] = toHost[k + 4]
    <3>1. 4 \in 0 .. Len(toHost) /\ Len(toHost) - 4 = 4
      BY <1>1, <1>7
    <3> QED
      BY <2>3, <3>1, DropIs
  <2>5. \A k \in 1 .. 4 : toHost'[k] = <<crc, k>>
    <3>1. \A k \in 1 .. 4 : z - 4 + k = k + 4
      BY <1>7
    <3> QED
      BY <1>2, <2>4, <3>1
  <2>6. ~odd
    BY <1>2, <1>7
  <2>7. Checking'
    BY <1>2, <1>5, <2>3, <2>4, <2>5 DEF Checking
  <2> QED
    BY <2>3, <2>6, <2>7 DEF Phase
<1>8. CASE z >= 12
  <2>1. Op = "GET_PROG_INFO"
    <3>1. ASSUME NEW k \in 1 .. 4 PROVE toHost[k] = <<"GET_PROG_INFO", k>>
      <4>1. k \in 1 .. z - 8 /\ 4 - ((z - k) % 4) = k
        <5>1. z >= 12 /\ z % 4 = 0
          BY <1>2, <1>8
        <5> QED
          BY <5>1
      <4> QED
        BY <1>2, <4>1
    <3> QED
      BY <1>1, <1>8, <3>1, OpIsWord DEF Has
  <2>2. Has(4) /\ Has(8)
    BY <1>1, <1>8 DEF Has
  <2>3. host' = "step2" /\ toHost' = Drop(8)
    BY <1>2, <1>4, <2>1, <2>2 DEF Drains, GetsRequest, ShowsString, ReadFails, Blocked, OpIs,
       OpIsNot, Goto
  <2>4. Len(toHost') = z - 8 /\ \A k \in 1 .. z - 8 : toHost'[k] = toHost[k + 8]
    <3>1. 8 \in 0 .. Len(toHost)
      BY <1>1, <1>8
    <3> QED
      BY <1>1, <2>3, <3>1, DropIs
  <2>5. Parity' /\ Len(toHost') >= 4
    <3>1. z % 4 = 0 /\ z >= 12
      BY <1>2, <1>8
    <3>2. (z - 8) % 4 = 0 /\ (z % 8 = 4 <=> (z - 8) % 8 = 4) /\ z - 8 >= 4
      BY <3>1
    <3> QED
      BY <1>2, <1>5, <2>4, <3>2 DEF Parity
  <2>6. \A k \in 1 .. 4 : toHost'[(z - 8) - 4 + k] = <<crc, k>>
    <3> SUFFICES ASSUME NEW k \in 1 .. 4 PROVE toHost'[(z - 8) - 4 + k] = <<crc, k>>
      OBVIOUS
    <3>1. (z - 8) - 4 + k \in 1 .. z - 8 /\ ((z - 8) - 4 + k) + 8 = z - 4 + k
      BY <1>8
    <3> QED
      BY <1>2, <2>4, <3>1
  <2>7. z - 8 >= 8 => \A k \in 1 .. 4 : toHost'[(z - 8) - 8 + k] = <<"GET_CODE", k>>
    <3> SUFFICES ASSUME z - 8 >= 8, NEW k \in 1 .. 4
                 PROVE  toHost'[(z - 8) - 8 + k] = <<"GET_CODE", k>>
      OBVIOUS
    <3>1. (z - 8) - 8 + k \in 1 .. z - 8 /\ ((z - 8) - 8 + k) + 8 = z - 8 + k /\ z >= 8
      BY <1>8
    <3> QED
      BY <1>2, <2>4, <3>1
  <2>8. \A k \in 1 .. (z - 8) - 8 :
          toHost'[k] = <<"GET_PROG_INFO", 4 - (((z - 8) - k) % 4)>>
    <3> SUFFICES ASSUME NEW k \in 1 .. (z - 8) - 8
                 PROVE  toHost'[k] = <<"GET_PROG_INFO", 4 - (((z - 8) - k) % 4)>>
      OBVIOUS
    <3>1. k + 8 \in 1 .. z - 8 /\ k \in 1 .. z - 8 /\ z - (k + 8) = (z - 8) - k
      BY <1>8
    <3> QED
      BY <1>2, <2>4, <3>1
  <2>9. WantsCode'
    BY <1>2, <1>5, <2>3, <2>4, <2>5, <2>6, <2>7, <2>8 DEF WantsCode
  <2> QED
    BY <2>3, <2>9 DEF Phase
<1>9. z = 4 \/ z = 8 \/ z >= 12
  <2>1. z >= 4 /\ z % 4 = 0
    BY <1>2
  <2> QED
    BY <2>1
<1> QED
  BY <1>6, <1>7, <1>8, <1>9

LEMMA HostChecking ==
  ASSUME LineTypeOK, tool = "simple_boot", Checking, HostStep
  PROVE  Phase'
<1>1. /\ host = "step3" /\ pi = "code" /\ toPi = <<>> /\ Len(toHost) = 4
      /\ \A k \in 1 .. 4 : toHost[k] = <<crc, k>>
  BY DEF Checking
<1>2. Op = crc /\ Has(4) /\ ~Has(8) /\ ~Has(9)
  BY <1>1, OpIsWord DEF Has
<1>3. \/ GetsCksum \/ ShowsString \/ ReadFails
  BY <1>1, SimpleBootSteps DEF Answers, Discards, Drains, GetsRequest, GetsResult, pi_echo,
     tty_gone
<1>4. UNCHANGED pi
  BY HostFrames DEF HostFrame
<1>5. Drop(4) = <<>>
  <2>1. 4 \in 0 .. Len(toHost) /\ Len(toHost) - 4 = 0
    BY <1>1
  <2>2. Drop(4) \in Seq(Byte) /\ Len(Drop(4)) = 0
    BY <2>1, DropIs
  <2> QED
    BY <2>2, EmptySeq
<1>6. CASE GetsCksum
  <2>1. host' = "step5" /\ toHost' = <<>> /\ toPi' = toPi \o <<"PUT_CODE", "bytes">>
    BY <1>2, <1>5, <1>6 DEF GetsCksum, Goto
  <2>2. <<"PUT_CODE", "bytes">> \in Seq(Word)
    BY Tuples, Words DEF Sent
  <2>3. toPi' = <<"PUT_CODE", "bytes">>
    BY <1>1, <2>1, <2>2, ConcatEmptySeq
  <2> QED
    BY <1>1, <1>4, <2>1, <2>3 DEF Sending, Phase
<1>7. CASE ShowsString
  BY <1>2, <1>7 DEF ShowsString, StringLength
<1>8. CASE ReadFails
  BY <1>1, <1>4, <1>8 DEF ReadFails, Deaf, Phase
<1> QED
  BY <1>3, <1>6, <1>7, <1>8

\* The host has sent the code: it reads the result once there is one.
LEMMA HostWaits ==
  ASSUME LineTypeOK, tool = "simple_boot", pos = 0, Sending \/ Booted \/ Over, HostStep
  PROVE  Phase'
<1>1. host = "step5"
  BY DEF Sending, Booted, Over
<1>2. GetsResult \/ ShowsString \/ ReadFails
  BY <1>1, SimpleBootSteps DEF Answers, Discards, Drains, GetsRequest, GetsCksum, pi_echo, tty_gone
<1>3. UNCHANGED pi
  BY HostFrames DEF HostFrame
<1>4. CASE Sending
  <2>1. Op = "none"
    BY <1>4, OpIsWord, EmptySeq DEF Sending, Has
  <2>2. toPi # <<>> /\ pi = "code"
    BY <1>4 DEF Sending
  <2> QED
    BY <1>2, <2>1, <2>2 DEF GetsResult, ShowsString, ReadFails, Quiet, OpIs, OpIsNot
<1>5. PICK z \in Nat : z = Len(toHost)
  BY LenProperties DEF LineTypeOK
<1>6. CASE Booted \/ Over
  <2>1. Has(4) /\ Op = "BOOT_SUCCESS"
    <3>1. /\ Len(toHost) = 4 \/ Len(toHost) >= 12
          /\ \A k \in 1 .. 4 : toHost[k] = <<"BOOT_SUCCESS", k>>
      BY <1>6 DEF Booted, Over
    <3>2. Has(4)
      BY <1>5, <3>1 DEF Has
    <3> QED
      BY <3>1, <3>2, OpIsWord
  <2>2. host' = "echo" /\ toHost' = Drop(4) /\ UNCHANGED <<toPi, pos>>
    BY <1>1, <1>2, <2>1 DEF GetsResult, ShowsString, ReadFails, Blocked, OpIs, OpIsNot, Goto
  <2>3. 4 \in 0 .. Len(toHost)
    BY <1>5, <2>1 DEF Has
  <2>4. /\ Drop(4) \in Seq(Byte) /\ Len(Drop(4)) = z - 4
        /\ \A k \in 1 .. z - 4 : Drop(4)[k] = toHost[k + 4]
    BY <1>5, <2>3, DropIs
  <2>5. CASE Booted
    <3>1. toHost' = <<>>
      BY <1>5, <2>2, <2>4, <2>5, EmptySeq DEF Booted
    <3> QED
      BY <1>3, <2>2, <2>5, <3>1 DEF Booted, Silent, Phase
  <2>6. CASE Over
    <3>1. Requests(9)'
      <4>1. 9 \in Nat \ {0} /\ 13 \in Nat /\ 9 + 4 >= 13
        OBVIOUS
      <4> QED
        BY <2>2, <2>3, <2>6, <4>1, RequestsDrop DEF Over
    <3>2. z >= 12 /\ Len(toHost') = z - 4
      BY <1>5, <2>2, <2>4, <2>6 DEF Over
    <3>3. \A k \in 1 .. 8 : toHost'[k] = <<exit_string[k + 0], 0>>
      <4>1. \A k \in 1 .. 8 : k \in 1 .. z - 4 /\ k + 0 = k
        BY <3>2
      <4> QED
        BY <2>2, <2>4, <2>6, <4>1 DEF Over
    <3>4. pos' = 0 /\ 8 - pos' = 8 /\ 9 - pos' = 9
      BY <2>2
    <3>5. Leaving'
      <4>1. Requests(9 - pos)'
        BY <3>1, <3>4 DEF Requests
      <4>2. pos' \in 0 .. 7 /\ Len(toHost') >= 8 - pos'
        BY <3>2, <3>4
      <4>3. \A k \in 1 .. 8 - pos' : toHost'[k] = <<exit_string[k + pos'], 0>>
        BY <3>3, <3>4
      <4> QED
        BY <1>3, <2>2, <2>6, <4>1, <4>2, <4>3 DEF Leaving, Over
    <3> QED
      BY <3>5 DEF Phase
  <2> QED
    BY <1>6, <2>5, <2>6
<1> QED
  BY <1>4, <1>6

\* The exit string is all the program said: pi_done follows it to its end.
LEMMA HostLeaving ==
  ASSUME LineTypeOK, tool = "simple_boot", Leaving, HostStep
  PROVE  Phase'
<1>1. PICK z \in Nat, p \in 0 .. 7 : z = Len(toHost) /\ p = pos /\ z >= 8 - p
  BY LenProperties DEF LineTypeOK, Leaving
<1>2. /\ host = "echo" /\ pi = "ask" /\ toPi = <<>>
      /\ \A k \in 1 .. 8 - p : toHost[k] = <<exit_string[k + p], 0>>
  BY <1>1 DEF Leaving
<1>3. Requests(9 - p)
  BY <1>1, Zenon DEF Leaving
<1>4. pi_echo
  BY <1>2, SimpleBootSteps DEF Answers, Discards, Drains, GetsRequest, GetsCksum, GetsResult,
     ShowsString, ReadFails, Quiet, OpIs, GetsOp, tty_gone
<1>5. PICK n \in 1 .. z : ReadsUpTo(n, p)
  BY <1>1, <1>4, Zenon DEF pi_echo
<1>6. PICK seen : /\ seen = Seen(n, p) /\ seen[0] = p
                  /\ \A i \in 1 .. n : seen[i] = pi_done(toHost[i])[seen[i - 1]]
  <2>1. n \in Nat /\ p \in 0 .. 8
    OBVIOUS
  <2>2. /\ Seen(n, p)[0] = p
        /\ \A i \in 1 .. n : Seen(n, p)[i] = pi_done(toHost[i])[Seen(n, p)[i - 1]]
    BY <2>1, SeenIs
  <2> QED
    BY <2>2, Zenon
<1> DEFINE upTo(i) == IF p + i <= 8 THEN p + i ELSE 8
           T == {i \in Nat : i <= n => seen[i] = upTo(i)}
<1>7. 0 \in T
  BY <1>6
<1>8. ASSUME NEW i \in T PROVE i + 1 \in T
  <2>1. SUFFICES ASSUME i + 1 <= n PROVE seen[i + 1] = upTo(i + 1)
    OBVIOUS
  <2>2. i \in Nat /\ i + 1 \in 1 .. n /\ (i + 1) - 1 = i /\ seen[i] = upTo(i)
    BY <2>1
  <2>3. PICK q \in 0 .. 8 : q = upTo(i)
    BY <2>2
  <2>4. seen[i + 1] = pi_done(toHost[i + 1])[q]
    BY <1>6, <2>2, <2>3
  <2>5. pi_done(toHost[i + 1])[q] =
          IF q = 8 THEN q ELSE IF toHost[i + 1] = <<exit_string[q + 1], 0>> THEN q + 1 ELSE 0
    BY PiDoneIs
  <2>6. CASE q = 8
    <3>1. upTo(i + 1) = 8
      BY <2>2, <2>3, <2>6
    <3> QED
      BY <2>4, <2>5, <2>6, <3>1
  <2>7. CASE q # 8
    <3>1. /\ q = p + i /\ i + 1 \in 1 .. 8 - p /\ (i + 1) + p = q + 1
          /\ upTo(i + 1) = q + 1
      BY <2>2, <2>3, <2>7
    <3>2. toHost[i + 1] = <<exit_string[(i + 1) + p], 0>>
      BY <1>2, <3>1
    <3> QED
      BY <2>4, <2>5, <2>7, <3>1, <3>2
  <2> QED
    BY <2>6, <2>7
<1>9. pos' = upTo(n)
  <2>1. T = Nat
    <3>1. T \in SUBSET Nat
      OBVIOUS
    <3> HIDE DEF T
    <3> QED
      BY <1>7, <1>8, <3>1, SetInduction
  <2>2. n \in T /\ n <= n
    BY <2>1
  <2>3. pos' = seen[n]
    BY <1>5, <1>6, Zenon DEF ReadsUpTo
  <2> QED
    BY <2>2, <2>3
<1>10. /\ toHost' = Drop(n) /\ n \in 0 .. Len(toHost) /\ Len(toHost') = z - n
       /\ \A k \in 1 .. z - n : toHost'[k] = toHost[k + n]
  <2>1. toHost' = Drop(n)
    BY <1>5, Zenon DEF ReadsUpTo
  <2>2. n \in 0 .. Len(toHost)
    BY <1>1
  <2> QED
    BY <1>1, <2>1, <2>2, DropIs
<1>11. /\ host' = IF pos' = 8 THEN "exit" ELSE "echo"
       /\ UNCHANGED <<pi, toPi>>
  BY <1>4, ExitTypes DEF pi_echo, HostFrame
<1>12. CASE p + n < 8
  <2>1. pos' = p + n /\ pos' \in 0 .. 7 /\ 8 - (p + n) = (8 - p) - n
    BY <1>9, <1>12
  <2>2. Requests(9 - (p + n))'
    <3>1. 9 - (p + n) \in Nat \ {0} /\ 9 - p \in Nat /\ (9 - (p + n)) + n >= 9 - p
      BY <1>12
    <3> QED
      BY <1>3, <1>10, <3>1, RequestsDrop
  <2>3. Requests(9 - pos)'
    BY <2>1, <2>2 DEF Requests
  <2>4. \A k \in 1 .. 8 - pos' : toHost'[k] = <<exit_string[k + pos'], 0>>
    <3> SUFFICES ASSUME NEW k \in 1 .. 8 - (p + n)
                 PROVE  toHost'[k] = <<exit_string[k + (p + n)], 0>>
      BY <2>1
    <3>1. k \in 1 .. z - n /\ k + n \in 1 .. 8 - p /\ (k + n) + p = k + (p + n)
      BY <1>1, <1>12
    <3> QED
      BY <1>2, <1>10, <3>1
  <2>5. Len(toHost') >= 8 - pos'
    BY <1>1, <1>10, <2>1
  <2>6. Leaving'
    <3>1. host' = "echo" /\ pi' = "ask" /\ toPi' = <<>>
      BY <1>2, <1>11, <2>1
    <3>2. pos' \in 0 .. 7
      BY <2>1
    <3> QED
      BY <2>3, <2>4, <2>5, <3>1, <3>2, Zenon DEF Leaving
  <2> QED
    BY <2>6 DEF Phase
<1>13. CASE ~(p + n < 8)
  <2>1. pos' = 8
    BY <1>9, <1>13
  <2>2. Requests(1)'
    <3>1. 1 \in Nat \ {0} /\ 9 - p \in Nat /\ 1 + n >= 9 - p
      BY <1>13
    <3> QED
      BY <1>3, <1>10, <3>1, RequestsDrop
  <2>3. Asking'
    BY <1>2, <1>11, <2>1, <2>2 DEF Asking
  <2> QED
    BY <2>3 DEF Phase
<1> QED
  BY <1>12, <1>13

LEMMA HostBoot ==
  ASSUME "GET_CODE" \notin Crcs, LineTypeOK, tool = "simple_boot", Phase,
         host \notin {"echo", "exit"} => pos = 0, HostStep
  PROVE  Phase'
<1>1. CASE Sending \/ Booted \/ Over
  <2>1. pos = 0
    BY <1>1 DEF Sending, Booted, Over
  <2> QED
    BY <1>1, <2>1, HostWaits
<1>2. CASE Silent
  <2>1. Len(toHost) = 0
    BY <1>2, EmptySeq DEF Silent
  <2>2. ~pi_echo
    BY <2>1 DEF pi_echo
  <2> QED
    BY <1>2, <2>2, SimpleBootSteps DEF Silent, Answers, Discards, Drains, GetsRequest, GetsCksum,
       GetsResult, ShowsString, ReadFails, Blocked, OpIs, OpIsNot, GetsOp, tty_gone
<1>3. CASE Deaf
  <2>1. Op = "none"
    BY <1>3, OpIsWord, EmptySeq DEF Deaf, Has
  <2>2. ReadFails
    BY <1>3, <2>1, SimpleBootSteps DEF Deaf, Answers, Discards, Drains, GetsRequest, GetsCksum,
       GetsResult, ShowsString, OpIs, OpIsNot, pi_echo, tty_gone
  <2>3. Deaf'
    BY <1>3, <2>2 DEF ReadFails, Deaf, HostFrame
  <2> QED
    BY <2>3 DEF Phase
<1> QED
  BY <1>1, <1>2, <1>3, HostAsking, HostAnswered, HostWantsCode, HostChecking, HostLeaving DEF Phase

\* The next run of the host finds the requests of the Pi, cut anywhere, or nothing.
LEMMA StartsBoot ==
  ASSUME LineTypeOK, Phase, HostStarts
  PROVE  Phase'
<1>1. /\ host \in {"exit", "panic"} /\ host' = "step0" /\ UNCHANGED <<pi, toPi>>
  BY DEF HostStarts, HostEnded
<1>2. PICK n \in 0 .. 3 : Has(n) /\ toHost' = Drop(n)
  BY DEF HostStarts
<1>3. n \in 0 .. Len(toHost)
  BY <1>2, LenProperties DEF Has, LineTypeOK
<1>4. CASE Asking
  <2>1. 1 \in Nat \ {0} /\ 1 + n >= 1
    OBVIOUS
  <2>2. Requests(1)'
    BY <1>2, <1>3, <1>4, <2>1, RequestsDrop DEF Asking
  <2> QED
    BY <1>1, <1>4, <2>2 DEF Asking, Phase
<1>5. CASE Deaf
  <2>1. Len(toHost) = 0
    BY <1>5, EmptySeq DEF Deaf
  <2>2. toHost' \in Seq(Byte) /\ Len(toHost') = 0
    BY <1>2, <1>3, <2>1, DropIs
  <2>3. toHost' = <<>>
    BY <2>2, EmptySeq
  <2> QED
    BY <1>1, <1>5, <2>3 DEF Deaf, Phase
<1> QED
  BY <1>1, <1>4, <1>5
     DEF Phase, Answered4, WantsCode, Checking, Sending, Booted, Silent, Over, Leaving

LEMMA BootInvStep ==
  ASSUME "GET_CODE" \notin Crcs, LineTypeOK, BoundsInv, BootInv, BootStep
  PROVE  BootInv'
<1> SUFFICES ASSUME Undisturbed'
             PROVE  Phase' /\ (host' \notin {"echo", "exit"} => pos' = 0)
  BY DEF BootInv
<1>1. tool = "simple_boot" /\ faults' = 0 /\ prints' = 0
  BY HostFrames DEF Undisturbed, BootStep, PiAsks, PiAnswers, PiGetsInfo, PiGetsCode, PiDiscards,
     PiPrints, RunPrints, clean_reboot, PowerOff, PowerOn, PiFrame, HostStarts, HostFrame
<1>2. faults = 0 /\ prints = 0
  <2>1. faults \in Nat /\ prints \in Nat
    BY DEF BoundsInv
  <2>2. \/ faults' = faults
        \/ faults' = faults + 1
    BY HostFrames DEF BootStep, PiAsks, PiAnswers, PiGetsInfo, PiGetsCode, PiDiscards, Refuse,
       PiPrints, RunPrints, clean_reboot, PowerOff, PowerOn, HostStarts, HostFrame
  <2>3. \/ prints' = prints
        \/ prints' = prints + 1
    BY HostFrames DEF BootStep, PiAsks, PiAnswers, PiGetsInfo, PiGetsCode, PiDiscards, PiFrame,
       PiPrints, RunPrints, clean_reboot, PowerOff, PowerOn, HostStarts, HostFrame
  <2> QED
    BY <1>1, <2>1, <2>2, <2>3
<1>3. Phase /\ (host \notin {"echo", "exit"} => pos = 0)
  BY <1>1, <1>2 DEF BootInv, Undisturbed
<1>4. host' \notin {"echo", "exit"} => pos' = 0
  <2>1. CASE HostStep
    BY <1>3, <2>1, HostAfter
  <2>2. CASE HostStarts
    BY <2>2 DEF HostStarts
  <2> QED
    BY <1>3, <2>1, <2>2 DEF BootStep, PiAsks, PiAnswers, PiGetsInfo, PiGetsCode, PiDiscards,
       PiPrints, RunPrints, clean_reboot, PowerOff, PowerOn, PiFrame
<1>5. CASE PiDiscards
  <2>1. toPi # <<>>
    BY <1>5 DEF PiDiscards
  <2>2. Answered4 \/ Sending
    BY <1>3, <2>1 DEF Phase, Asking, WantsCode, Checking, Booted, Silent, Over, Leaving, Deaf
  <2>3. Head(<<"PUT_PROG_INFO", "ARMBASE", "n", crc>>) = "PUT_PROG_INFO"
    OBVIOUS
  <2>4. Head(<<"PUT_CODE", "bytes">>) = "PUT_CODE"
    OBVIOUS
  <2> QED
    BY <1>5, <2>2, <2>3, <2>4 DEF PiDiscards, Answered4, Sending
<1>6. CASE PiPrints \/ (\E s \in Prints : RunPrints(s)) \/ PowerOff
  BY <1>1, <1>2, <1>6 DEF PiPrints, RunPrints, PowerOff
<1>7. CASE PowerOn
  BY <1>3, <1>7 DEF PowerOn, Phase, Asking, Answered4, WantsCode, Checking, Sending, Booted,
     Silent, Over, Leaving, Deaf
<1> QED
  BY <1>1, <1>2, <1>3, <1>4, <1>5, <1>6, <1>7, AsksBoot, GetsInfoBoot, GetsCodeBoot, RebootBoot,
     HostBoot, StartsBoot DEF BootStep, PiAnswers

LEMMA BootInvInit == SysInit => BootInv
<1> SUFFICES ASSUME SysInit PROVE Asking /\ pos = 0
  BY DEF BootInv, Phase
<1>1. /\ host = "step0" /\ pi = "ask" /\ toPi = <<>> /\ pos = 0
      /\ \E k \in 1 .. 5 : toHost = SubSeq(Bytes("GET_PROG_INFO"), k, 4)
  BY DEF SysInit, BootInit
<1>2. PICK k \in 1 .. 5 : toHost = SubSeq(Bytes("GET_PROG_INFO"), k, 4)
  BY <1>1
<1>3. PICK b : b = Bytes("GET_PROG_INFO")
  OBVIOUS
<1>4. b \in Seq(Byte) /\ Len(b) = 4 /\ \A i \in 1 .. 4 : b[i] = <<"GET_PROG_INFO", i>>
  <2>1. \A i \in 1 .. 4 : Bytes("GET_PROG_INFO")[i] = <<"GET_PROG_INFO", i>>
    BY Zenon DEF Bytes
  <2> QED
    BY <1>3, <2>1, SentTypes, Words DEF Sent
<1>5. \A i \in k .. 4 : b[i] \in Byte
  BY <1>4, ElementOfSeq
<1>6. /\ Len(toHost) = (IF k <= 4 THEN 4 - k + 1 ELSE 0)
      /\ \A i \in 1 .. 4 - k + 1 : toHost[i] = b[k + i - 1]
  BY <1>2, <1>3, <1>5, SubSeqProperties
<1>7. Requests(1)
  <2>1. ASSUME NEW i \in 1 .. 4 - k + 1
        PROVE  toHost[i] = <<"GET_PROG_INFO", 4 - (((4 - k + 1) - i) % 4)>>
    <3>1. k + i - 1 \in 1 .. 4 /\ 4 - (((4 - k + 1) - i) % 4) = k + i - 1
      OBVIOUS
    <3> QED
      BY <1>4, <1>6, <3>1
  <2>2. Len(toHost) = 4 - k + 1
    BY <1>6
  <2> QED
    BY <2>1, <2>2 DEF Requests
<1> QED
  BY <1>1, <1>7 DEF Asking

(* Over an undisturbed line simple_boot gives up on the answer exactly when an odd
   number of requests followed the one it answered (simple-boot.c:57-59), however
   many there are and however often the host is run.  A checksum equal to GET_CODE
   is excluded: the host would take it for the request. *)
THEOREM DrainTakesPairs ==
  ASSUME "GET_CODE" \notin Crcs
  PROVE  SysSpec => OddExtrasFail
<1> DEFINE Inv == LineTypeOK /\ BoundsInv /\ BootInv
           Fails == host = "step2" /\ tool = "simple_boot" /\ faults = 0 /\ prints = 0
                      /\ host' \in {"step3", "panic"}
                    => (host' = "panic" <=> odd)
<1>1. SysInit => Inv
  BY LineInit, BoundsInit, BootInvInit
<1>2. ASSUME Inv, [SysNext]_sysVars PROVE Inv'
  <2>1. CASE BootStep
    BY <1>2, <2>1, LineTypeStep, BoundsStep, BootInvStep
  <2>2. CASE UNCHANGED bootVars
    <3>1. \A k \in Nat : Requests(k)' <=> Requests(k)
      BY <2>2 DEF bootVars, Requests
    <3>2. /\ Asking' <=> Asking
          /\ Answered4' <=> Answered4
          /\ Over' <=> Over
          /\ Deaf' <=> Deaf
          /\ Silent' <=> Silent
      BY <2>2, <3>1 DEF bootVars, Asking, Answered4, Over, Deaf, Silent, Parity
    <3>3. /\ WantsCode' <=> WantsCode
          /\ Checking' <=> Checking
          /\ Sending' <=> Sending
          /\ Booted' <=> Booted
      BY <2>2 DEF bootVars, WantsCode, Checking, Sending, Booted, Parity
    <3>4. Leaving => Leaving'
      BY <2>2, <3>1 DEF bootVars, Leaving
    <3>5. BootInv'
      BY <1>2, <2>2, <3>2, <3>3, <3>4 DEF bootVars, BootInv, Undisturbed, Phase
    <3> QED
      BY <1>2, <2>2, <3>5, LineTypeStep DEF bootVars, BoundsInv, FewWords
  <2> QED
    BY <1>2, <2>1, <2>2, BootSteps
<1>3. ASSUME Inv, [SysNext]_sysVars PROVE [Fails]_bootVars
  <2> SUFFICES ASSUME host = "step2", tool = "simple_boot", faults = 0, prints = 0,
                      host' \in {"step3", "panic"}
               PROVE  host' = "panic" <=> odd
    OBVIOUS
  <2>1. HostStep
    BY <1>3, BootSteps DEF BootStep, bootVars, PiAsks, PiAnswers, PiGetsInfo, PiGetsCode,
       PiDiscards, PiPrints, RunPrints, clean_reboot, PowerOff, PowerOn, PiFrame, HostStarts,
       HostEnded
  <2>2. Answered4 \/ WantsCode
    BY <1>3 DEF BootInv, Undisturbed, Phase, Asking, Checking, Sending, Booted, Silent, Over,
       Leaving, Deaf
  <2>3. ~Answered4
    BY <1>3, <2>1, HostAnswered
  <2> QED
    BY <1>3, <2>1, <2>2, <2>3, HostWantsCode
<1> QED
  <2> HIDE DEF Inv
  <2>1. SysSpec => []Inv
    BY <1>1, <1>2, PTL DEF SysSpec
  <2> QED
    BY <1>3, <2>1, PTL DEF SysSpec, OddExtrasFail

=============================================================================
