------------------------------ MODULE BasicSat ------------------------------
(***************************************************************************)
(* The counting solver                                                     *)
(* src/labs/24-sat-smt-symex/sat-lab-monday/code/basic.c, one step per     *)
(* clause that bcp looks at.  resolveConflict calls bcp and itself until   *)
(* bcp succeeds, and so does its caller: the model goes back to bcp, whose *)
(* repetition with nothing left to imply changes nothing.                  *)
(***************************************************************************)
EXTENDS ZeroCounters

VARIABLES pc, i, changed,  \* where the solver is; bcp's locals
          answer           \* what was printed, or "none"

vars == <<cvars, pc, i, changed, answer>>

Init == /\ InitCounters
        /\ pc = "bcp" /\ i = 1 /\ changed = FALSE /\ answer = "none"

StartBcp == pc' = "bcp" /\ i' = 1 /\ changed' = FALSE

-----------------------------------------------------------------------------
(* bcp *)

Scanning    == pc = "bcp" /\ i <= N_CLAUSES
LooksUnit   == n_zeros[i] + 1 = Len(CLAUSES[i])
Satisfied(c) == \E l \in Range(CLAUSES[c]) : is_lit_true(l)
forced_lit  == LET j == SelectInSeq(CLAUSES[i], Unassigned)
               IN  IF j = 0 THEN 0 ELSE CLAUSES[i][j]

BcpSkip ==
  /\ Scanning /\ (~LooksUnit \/ Satisfied(i))
  /\ i' = i + 1
  /\ UNCHANGED <<cvars, pc, changed, answer>>

BcpAllFalse ==
  /\ Scanning /\ LooksUnit /\ ~Satisfied(i) /\ forced_lit = 0
  /\ pc' = "conflict"
  /\ UNCHANGED <<cvars, i, changed, answer>>

BcpForce ==
  /\ Scanning /\ LooksUnit /\ ~Satisfied(i) /\ forced_lit # 0
  /\ set_literal(ASSIGNMENT, DECISION_STACK, n_zeros, forced_lit, "IMPLIED")
  /\ IF Completed(n_zeros, forced_lit) = {}
       THEN i' = i + 1 /\ changed' = TRUE /\ UNCHANGED pc
       ELSE pc' = "conflict" /\ UNCHANGED <<i, changed>>
  /\ UNCHANGED <<CLAUSES, answer>>

BcpRoundEnds ==
  /\ pc = "bcp" /\ i > N_CLAUSES
  /\ IF changed THEN StartBcp ELSE pc' = "decide" /\ UNCHANGED <<i, changed>>
  /\ UNCHANGED <<cvars, answer>>

-----------------------------------------------------------------------------
(* decide: the lowest unassigned variable, FALSE.  It returns 0 both when   *)
(* there is none and on a conflict; main then checks all clauses.           *)
decide ==
  /\ pc = "decide"
  /\ LET free == {v \in Var : ASSIGNMENT[v] = UNASSIGNED}
     IN  IF free = {}
           THEN pc' = "check" /\ UNCHANGED <<n_zeros, ASSIGNMENT, DECISION_STACK, i, changed>>
           ELSE \E v \in free :
                  /\ \A u \in free : v <= u
                  /\ set_literal(ASSIGNMENT, DECISION_STACK, n_zeros, -v, "TRIED_ONE_WAY")
                  /\ IF Completed(n_zeros, -v) = {} THEN StartBcp
                                                    ELSE pc' = "check" /\ UNCHANGED <<i, changed>>
  /\ UNCHANGED <<CLAUSES, answer>>

checkAllClauses_skipped ==   \* mutant
  /\ pc = "check" /\ answer' = "SAT" /\ pc' = "done"
  /\ UNCHANGED <<cvars, i, changed>>
checkAllClauses ==
  /\ pc = "check"
  /\ IF \A c \in DOMAIN CLAUSES : Satisfied(c)
       THEN answer' = "SAT" /\ pc' = "done"
       ELSE pc' = "conflict" /\ UNCHANGED answer
  /\ UNCHANGED <<cvars, i, changed>>

(* Unwind to the last decision tried one way and try it TRUE; when that     *)
(* conflicts too, "keep unwinding".                                         *)
resolveConflict ==
  /\ pc = "conflict"
  /\ LET k == LastOpen
     IN  IF k = 0
           THEN /\ ASSIGNMENT' = UnsetAssignment(1) /\ DECISION_STACK' = <<>>
                /\ n_zeros' = UnsetZeros(1)
                /\ answer' = "UNSAT" /\ pc' = "done" /\ UNCHANGED <<i, changed>>
           ELSE LET L == DECISION_STACK[k].var
                IN  /\ set_literal(UnsetAssignment(k), SubSeq(DECISION_STACK, 1, k - 1),
                                   UnsetZeros(k), L, "TRIED_BOTH_WAYS")
                    /\ IF Completed(UnsetZeros(k), L) = {}
                         THEN StartBcp ELSE UNCHANGED <<pc, i, changed>>
                    /\ UNCHANGED answer
  /\ UNCHANGED CLAUSES

Next == \/ BcpSkip \/ BcpAllFalse \/ BcpForce \/ BcpRoundEnds
        \/ decide \/ checkAllClauses \/ resolveConflict

(* One thread runs the program.                                             *)
Spec == Init /\ [][Next]_vars /\ WF_vars(Next)

-----------------------------------------------------------------------------
TypeOK == /\ CountersTypeOK
          /\ pc \in {"bcp", "conflict", "decide", "check", "done"}
          /\ i \in 1 .. N_CLAUSES + 1 /\ changed \in BOOLEAN
          /\ answer \in {"none", "SAT", "UNSAT"}

(* n_zeros never exceeds the number of false literals, whatever the early   *)
(* return of set_literal (basic.c:952) skipped: so a clause whose count is  *)
(* full really is falsified.                                                *)
NeverOvercounts == \A c \in DOMAIN CLAUSES : n_zeros[c] <= Cardinality(FalseLiterals(c))

(* The solver prints an answer.                                             *)
Answers == <>(answer # "none")

Search == INSTANCE Dpll

(* Although n_zeros undercounts, and bcp therefore misses unit clauses and  *)
(* conflicts, every run of basic.c is a run of the abstract search: what    *)
(* bcp misses, checkAllClauses finds.                                       *)
SearchSpec == Search!Spec
=============================================================================
