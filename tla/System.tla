------------------------------- MODULE System -------------------------------
(* The Pi on its serial line: the host boots a program (`Boot`); the program runs
   alone, or traced by a client of its own (`Memtrace`), by Purify or by Eraser;
   when it ends, or a checker or an assertion ends it, clean_reboot tells the host
   and the bootloader runs again.  Cutting the power ends everything on the Pi. *)
EXTENDS Boot, Purify, Eraser

CONSTANT Programs   \* subset of {"hello", "plain", "purify", "eraser"}

VARIABLE prog       \* the program the host boots

progVars == <<mtVars, blocks, erVars>>
sysVars == <<prog, bootVars, progVars>>

ProgInit == MemtraceInit /\ PurifyInit /\ EraserInit

(* To keep the product of the parts small, the line is noisy, the power fails and
   the host program is one or the other only for the program that does nothing
   but print; the traced ones are booted over a clean line. *)
Noisy == prog = "hello"

SysInit ==
  /\ prog \in Programs
  /\ BootInit
  /\ ~Noisy => tool = "simple_boot" /\ crc = "crc" /\ toHost = <<>>
  /\ ProgInit

Runs(p) == prog = p /\ pi = "run" /\ UNCHANGED <<prog, bootVars>>

ProgramStep ==
  \/ Runs("hello") /\ Return /\ UNCHANGED <<blocks, erVars>>
  \/ Runs("plain") /\ PlainProgram /\ UNCHANGED <<blocks, erVars>>
  \/ Runs("purify") /\ PurifyProgram /\ UNCHANGED erVars
  \/ Runs("eraser") /\ EraserProgram /\ UNCHANGED blocks

\* What the processor and the checkers do about an access or a call.
Runtime ==
  \/ Runs("plain") /\ PlainRuntime /\ UNCHANGED <<blocks, erVars>>
  \/ Runs("purify") /\ PurifyRuntime /\ UNCHANGED erVars
  \/ Runs("eraser") /\ EraserRuntime /\ UNCHANGED blocks

HelloPrints ==
  /\ prog = "hello" /\ Running
  /\ \E s \in Prints : RunPrints(s)
  /\ UNCHANGED <<prog, progVars>>

Reset == MemtraceReset /\ PurifyReset /\ EraserReset /\ UNCHANGED prog

Reboot == pi = "run" /\ cpu \in Ends /\ clean_reboot /\ Reset

PowerFails == Noisy /\ PowerOff /\ Reset

PiSerial ==
  /\ ((Noisy \/ toHost = <<>>) /\ PiAsks) \/ PiAnswers
  /\ UNCHANGED <<prog, progVars>>

HostSerial == HostStep /\ UNCHANGED <<prog, progVars>>

Outside ==
  /\ Noisy
  /\ PiPrints \/ PowerOn \/ HostStarts
  /\ UNCHANGED <<prog, progVars>>

SysNext ==
  \/ ProgramStep \/ Runtime \/ HelloPrints \/ Reboot \/ PowerFails
  \/ PiSerial \/ HostSerial \/ Outside

SysSpec == SysInit /\ [][SysNext]_sysVars

\* The processor, the Pi's bootloader and the host program keep running; nothing
\* is assumed of the program, the power or the user.
FairSysSpec ==
  /\ SysSpec
  /\ WF_sysVars(Runtime) /\ WF_sysVars(Reboot)
  /\ WF_sysVars(PiSerial) /\ WF_sysVars(HostSerial)
-----------------------------------------------------------------------------
SysTypeOK ==
  /\ MemtraceTypeOK /\ PurifyTypeOK /\ EraserTypeOK /\ BootTypeOK
  /\ prog \in Programs

\* No program runs, or it has ended.
ProgramEnded == pi # "run" \/ cpu \in Ends

Traced == INSTANCE TracedMemory
  WITH on <- Armed, report <- ReportStage, ended <- ProgramEnded

(* What memory tracing may never do (memtrace.c:62-120, memtrace.h:16-30): carry
   out an access while tracing is on that was not reported, or that the client
   has declined; report one twice; let the program go on after one with tracing
   off.  It holds for clients whose handler returns 1; one that returns 0 to have
   the instruction skipped has it carried out, untraced. *)
TracedSafety == Traced!TMSafety

(* The traced system implements TracedMemory: it never does what TracedSafety
   excludes, and every access is settled, for clients whose handler returns 1. *)
TracedSpec == Traced!TMSpec

(* However a program ends (it returns, an assertion fails, a handler or a checker
   stops it at an access, the power is cut), simple_boot's host that booted it
   exits, wherever it is by then; unless the output stopped amid something like
   the exit string, which pi_done then misses (clean-reboot.c:4-9,
   pi-echo.c:15-17). *)
HostHearsOfEnd ==
  (/\ tool = "simple_boot" /\ started /\ host \in {"step5", "echo"}
   /\ ProgramEnded /\ ~Ambiguous)
  ~> (host = "exit")
=============================================================================
