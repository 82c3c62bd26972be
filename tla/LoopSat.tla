------------------------------ MODULE LoopSat ------------------------------
(***************************************************************************)
(* The benchmark solver                                                    *)
(* src/labs/24-sat-smt-symex/sat-lab-monday/code/loop.c, which solves one  *)
(* input many times in one process and starts bcp over after every         *)
(* implication.                                                            *)
(***************************************************************************)
EXTENDS ZeroCounters

CONSTANT Runs   \* bound: 100000 in main

ASSUME RunsAssumption == Runs \in Nat \ {0}

VARIABLES pc, i,    \* where the solver is; bcp's position
          answers   \* what was printed so far, one answer per run

vars == <<cvars, pc, i, answers>>

Init == InitCounters /\ pc = "bcp" /\ i = 1 /\ answers = <<>>

Answer(what) == answers' = Append(answers, what) /\ pc' = "printed"

-----------------------------------------------------------------------------
(* bcp *)

Scanning   == pc = "bcp" /\ i <= N_CLAUSES
LooksUnit_never == FALSE   \* mutant
LooksUnit  == n_zeros[i] + 1 = Len(CLAUSES[i])
foundTrue  == \E l \in Range(CLAUSES[i]) : is_lit_true(l)
forced_lit == LET j == SelectInSeq(CLAUSES[i], Unassigned)
              IN  IF j = 0 THEN 0 ELSE CLAUSES[i][j]

(* A clause that only looks unit because its count is too low, and has no   *)
(* unassigned literal, is passed over: "conflict or satisfied".             *)
BcpSkip ==
  /\ Scanning /\ (~LooksUnit \/ foundTrue \/ forced_lit = 0)
  /\ i' = i + 1
  /\ UNCHANGED <<cvars, pc, answers>>

BcpForce ==
  /\ Scanning /\ LooksUnit /\ ~foundTrue /\ forced_lit # 0
  /\ set_literal(ASSIGNMENT, DECISION_STACK, n_zeros, forced_lit, "IMPLIED")
  /\ pc' = IF Completed(n_zeros, forced_lit) = {} THEN "bcp" ELSE "conflict"
  /\ i' = 1
  /\ UNCHANGED <<CLAUSES, answers>>

BcpDone ==
  /\ pc = "bcp" /\ i > N_CLAUSES
  /\ pc' = "decide"
  /\ UNCHANGED <<cvars, i, answers>>

-----------------------------------------------------------------------------
decide ==
  /\ pc = "decide"
  /\ LET free == {v \in Var : ASSIGNMENT[v] = UNASSIGNED}
     IN  IF free = {}
           THEN Answer("SAT") /\ UNCHANGED <<n_zeros, ASSIGNMENT, DECISION_STACK, i>>
           ELSE /\ \E v \in free :
                     /\ \A u \in free : v <= u
                     /\ set_literal(ASSIGNMENT, DECISION_STACK, n_zeros, -v, "TRIED_ONE_WAY")
                     /\ pc' = IF Completed(n_zeros, -v) = {} THEN "bcp" ELSE "abort"
                /\ i' = 1 /\ UNCHANGED answers
  /\ UNCHANGED CLAUSES

(* new_val is computed from ASSIGNMENT after unset_latest_assignment, and so *)
(* is never the other value, as the comment at loop.c:199 has it.  The first *)
(* bcp of a run has no decision to flip.                                     *)
resolveConflict ==
  /\ pc = "conflict"
  /\ LET k == LastOpen
     IN  IF k = 0
           THEN /\ ASSIGNMENT' = UnsetAssignment(1) /\ DECISION_STACK' = <<>>
                /\ n_zeros' = UnsetZeros(1)
                /\ Answer("UNSAT")
           ELSE LET var     == DECISION_STACK[k].var
                    new_val == UnsetAssignment(k)[var] = FALSE_
                    l       == IF new_val THEN var ELSE -var
                IN  /\ set_literal(UnsetAssignment(k), SubSeq(DECISION_STACK, 1, k - 1),
                                   UnsetZeros(k), l, "TRIED_BOTH_WAYS")
                    /\ IF Completed(UnsetZeros(k), l) = {}
                         THEN pc' = "bcp" /\ UNCHANGED answers
                         ELSE Answer("UNSAT")
  /\ i' = 1
  /\ UNCHANGED CLAUSES

NextRun_keeps_counts ==   \* mutant
  /\ pc = "printed" /\ Len(answers) < Runs
  /\ ASSIGNMENT' = [v \in Var |-> UNASSIGNED] /\ DECISION_STACK' = <<>>
  /\ pc' = "bcp" /\ i' = 1
  /\ UNCHANGED <<CLAUSES, n_zeros, answers>>
(* main resets the assignment, the stack and the counts for the next run.   *)
NextRun ==
  /\ pc = "printed" /\ Len(answers) < Runs
  /\ ASSIGNMENT' = [v \in Var |-> UNASSIGNED]
  /\ DECISION_STACK' = <<>>
  /\ n_zeros' = [c \in DOMAIN CLAUSES |-> 0]
  /\ pc' = "bcp" /\ i' = 1
  /\ UNCHANGED <<CLAUSES, answers>>

Next == BcpSkip \/ BcpForce \/ BcpDone \/ decide \/ resolveConflict \/ NextRun

(* One thread runs the program.                                             *)
Spec == Init /\ [][Next]_vars /\ WF_vars(Next)

-----------------------------------------------------------------------------
TypeOK == /\ CountersTypeOK
          /\ pc \in {"bcp", "conflict", "decide", "abort", "printed"}
          /\ i \in 1 .. N_CLAUSES + 1
          /\ answers \in Seq({"SAT", "UNSAT"}) /\ Len(answers) <= Runs

(* What main resets is all a run leaves behind: every run prints what the   *)
(* first one did (loop.c:272-283).                                          *)
SameAnswer == \A r \in DOMAIN answers : answers[r] = answers[1]

(* "Conflict during decide() should not happen if BCP was complete!", the   *)
(* assertion loop.c:142.                                                    *)
DecideAssert == pc # "abort"

(* A printed SAT comes with a satisfying assignment, although flips repeat  *)
(* the value that led to the conflict and counts lag from then on.          *)
SatSound ==
  pc = "printed" /\ Last(answers) = "SAT"
    => \A C \in formula : \E l \in C : is_lit_true(l)

(* Every run ends. *)
AllRunsAnswer == <>(Len(answers) = Runs)
=============================================================================
