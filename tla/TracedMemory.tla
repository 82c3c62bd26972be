---------------------------- MODULE TracedMemory ----------------------------
(* What memory tracing promises its client (memtrace.h:16-30, memtrace.c:1-9,
   checker-purify.c:122-126): while tracing is on, every load and store is
   reported exactly once, before anything else happens to it.  The client's
   answer decides: the instruction is resumed and carried out, or it is skipped;
   either way tracing is still on when the program goes on.  Or the client ends
   the program.  `Memtrace` implements this module for clients that resume. *)
CONSTANT Access

VARIABLES
  on,        \* accesses are traced
  pending,   \* the set of at most one access that is to be carried out
  report,    \* "none"; "asked": the client has seen the pending access;
             \* "resume": it has answered so, and the program has yet to go on
  ended      \* no program runs, or it has ended

tmVars == <<on, pending, report, ended>>

Start == on = FALSE /\ pending = {} /\ report = "none" /\ ended = TRUE

Issue == \E a \in Access :
  /\ ~ended /\ pending = {} /\ report = "none"
  /\ pending' = {a}
  /\ UNCHANGED <<on, report, ended>>

Report ==
  /\ ~ended /\ pending # {} /\ on /\ report = "none"
  /\ report' = "asked"
  /\ UNCHANGED <<on, pending, ended>>

\* The client's handler returns 1.
Resume ==
  /\ ~ended /\ report = "asked"
  /\ report' = "resume"
  /\ UNCHANGED <<on, pending, ended>>

\* It returns 0: the program goes on behind the access, which is not carried out.
Skip ==
  /\ ~ended /\ report = "asked"
  /\ pending' = {} /\ report' = "none"
  /\ UNCHANGED <<on, ended>>

Refuse ==
  /\ ~ended /\ report = "asked"
  /\ ended' = TRUE
  /\ UNCHANGED <<on, pending, report>>

Perform ==
  /\ ~ended /\ pending # {} /\ (on => report = "resume")
  /\ pending' = {}
  /\ UNCHANGED <<on, report, ended>>

\* The program goes on after an access that was resumed and carried out.
GoOn ==
  /\ ~ended /\ report = "resume" /\ pending = {}
  /\ report' = "none"
  /\ UNCHANGED <<on, pending, ended>>

\* The program switches tracing on or off between accesses.
Switch ==
  /\ ~ended /\ pending = {} /\ report = "none"
  /\ on' \in BOOLEAN
  /\ UNCHANGED <<pending, report, ended>>

End ==
  /\ ~ended /\ pending = {} /\ report = "none"
  /\ ended' = TRUE
  /\ UNCHANGED <<on, pending, report>>

\* The machine restarts, at any time, and a program is started on it.
Restart == on' = FALSE /\ pending' = {} /\ report' = "none" /\ ended' = TRUE

Run ==
  /\ ended /\ ~on /\ pending = {} /\ report = "none"
  /\ ended' = FALSE
  /\ UNCHANGED <<on, pending, report>>

Settle == Report \/ Resume \/ Skip \/ Refuse \/ Perform \/ GoOn

TMNext == Issue \/ Settle \/ Switch \/ End \/ Restart \/ Run

\* What never happens, and with it what must: an access is settled.
TMSafety == Start /\ [][TMNext]_tmVars

TMSpec == TMSafety /\ WF_tmVars(Settle)
=============================================================================
