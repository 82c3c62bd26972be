---------------------------- MODULE ZeroCounters ----------------------------
(***************************************************************************)
(* The state that basic.c and loop.c of                                    *)
(* src/labs/24-sat-smt-symex/sat-lab-monday/code share, and the two        *)
(* functions that change it: every clause counts its false literals in     *)
(* n_zeros.  set_literal stops at the first clause whose count reaches its *)
(* length, and unset_latest_assignment decrements every clause it finds,   *)
(* so the counts and the assignment may part company.                      *)
(***************************************************************************)
EXTENDS Assignments, Sequences, SequencesExt, FiniteSets

(* Sequences of clauses, each a sequence of literals; main drops a literal  *)
(* that repeats one of its clause.                                          *)
CONSTANT Inputs
ASSUME InputsAssumption ==
  \A input \in Inputs : /\ input \in Seq(Seq(Literal))
                        /\ \A c \in DOMAIN input : IsInjective(input[c])

VARIABLES CLAUSES, n_zeros, ASSIGNMENT, DECISION_STACK

cvars == <<CLAUSES, n_zeros, ASSIGNMENT, DECISION_STACK>>

N_VARS    == NVars + 1
N_CLAUSES == Len(CLAUSES)

is_lit_true(l) == ASSIGNMENT[VarOf(l)] = IF l > 0 THEN TRUE_ ELSE FALSE_
Unassigned_any(l) == TRUE   \* mutant
Unassigned(l)  == ASSIGNMENT[VarOf(l)] = UNASSIGNED

(* LIT_TO_CLAUSES lists the clauses with l in the order of the input.       *)
LIT_TO_CLAUSES(l) == {c \in DOMAIN CLAUSES : Contains(CLAUSES[c], l)}

InitCounters ==
  /\ CLAUSES \in Inputs
  /\ n_zeros = [c \in DOMAIN CLAUSES |-> 0]
  /\ ASSIGNMENT = [v \in Var |-> UNASSIGNED]
  /\ DECISION_STACK = <<>>

Completed_unseen(zeros, l) == {}   \* mutant
(* The clauses whose count set_literal would complete, and the counts it    *)
(* leaves when it returns at the first of them.                             *)
Completed(zeros, l) == {c \in LIT_TO_CLAUSES(-l) : zeros[c] + 1 = Len(CLAUSES[c])}
Counted(zeros, l) ==
  [c \in DOMAIN zeros |->
     IF c \in LIT_TO_CLAUSES(-l) /\ \A d \in Completed(zeros, l) : c <= d
       THEN zeros[c] + 1 ELSE zeros[c]]

(* set_literal on an unassigned variable, after unset_latest_assignment has *)
(* left the given assignment, stack and counts.  It reports a conflict iff  *)
(* Completed is not empty.                                                  *)
set_literal(assignment, stack, zeros, l, type) ==
  /\ ASSIGNMENT' = [assignment EXCEPT ![VarOf(l)] = IF l > 0 THEN TRUE_ ELSE FALSE_]
  /\ DECISION_STACK' = Append(stack, [var |-> VarOf(l), type |-> type])
  /\ n_zeros' = Counted(zeros, l)

(* unset_latest_assignment, for every entry from the k-th on                *)
Popped(k) == {DECISION_STACK[j].var : j \in k .. Len(DECISION_STACK)}
UnsetAssignment(k) ==
  [v \in Var |-> IF v \in Popped(k) THEN UNASSIGNED ELSE ASSIGNMENT[v]]
UnsetZeros_kept(k) == n_zeros   \* mutant
UnsetZeros(k) ==
  [c \in DOMAIN CLAUSES |->
     n_zeros[c] - Cardinality({l \in Range(CLAUSES[c]) : VarOf(l) \in Popped(k) /\ is_lit_true(-l)})]

IsOpen_again(d) == d.type # "IMPLIED"   \* mutant
IsOpen(d) == d.type = "TRIED_ONE_WAY"

LastOpen == SelectLastInSeq(DECISION_STACK, IsOpen)

-----------------------------------------------------------------------------
CountersTypeOK ==
  /\ CLAUSES \in Seq(Seq(Literal))
  /\ n_zeros \in [DOMAIN CLAUSES -> Int]
  /\ ASSIGNMENT \in [Var -> {UNASSIGNED, FALSE_, TRUE_}]
  /\ DECISION_STACK \in Seq([var : Var, type : {"IMPLIED", "TRIED_ONE_WAY", "TRIED_BOTH_WAYS"}])
  /\ Len(DECISION_STACK) < N_VARS

FalseLiterals(c) == {l \in Range(CLAUSES[c]) : is_lit_true(-l)}

(* Refinement: the literals on the stack, oldest first, and the clauses as  *)
(* sets of literals.                                                        *)
trail == [i \in DOMAIN DECISION_STACK |->
            LET v == DECISION_STACK[i].var
            IN  [lit  |-> IF ASSIGNMENT[v] = TRUE_ THEN v ELSE -v,
                 kind |-> DECISION_STACK[i].type]]
formula == {Range(CLAUSES[c]) : c \in DOMAIN CLAUSES}
=============================================================================
