------------------------------ MODULE FastSat ------------------------------
(***************************************************************************)
(* The watched-literal solver                                              *)
(* src/labs/24-sat-smt-symex/sat-lab-monday/code/fast.c: set_literal walks *)
(* the clauses watching the literal it makes false, one step per clause;   *)
(* backtracking leaves the watches where they are.  clause->watching and   *)
(* the linked lists of LIT_TO_CLAUSES are kept apart, as in the code.      *)
(***************************************************************************)
EXTENDS Assignments, Sequences, SequencesExt, FiniteSets

(* Sequences of clauses, each a sequence of literals; main drops a literal  *)
(* that repeats one of its clause.                                          *)
CONSTANT Inputs
ASSUME InputsAssumption ==
  \A input \in Inputs : /\ input \in Seq(Seq(Literal))
                        /\ \A c \in DOMAIN input : IsInjective(input[c])

VARIABLES
  CLAUSES,         \* the input
  watching,        \* watching[c][w], w \in {1, 2}: the literals clause c watches
  LIT_TO_CLAUSES,  \* the list of the clauses that watch a literal
  ASSIGNMENT,
  DECISION_STACK,
  BCP_LIST,        \* IS_BCP_LISTED is the set of its literals
  pc, caller,      \* where the solver is, and who called set_literal
  lit, w,          \* set_literal's argument, its position in the list; main's loop
  answer           \* what was printed, or "none"

vars == <<CLAUSES, watching, LIT_TO_CLAUSES, ASSIGNMENT, DECISION_STACK,
          BCP_LIST, pc, caller, lit, w, answer>>

N_VARS == NVars + 1   \* main allocates DECISION_STACK with this many entries

is_literal_true(l) == ASSIGNMENT[VarOf(l)] = IF l > 0 THEN TRUE_ ELSE FALSE_

clauses_watching(l) == LIT_TO_CLAUSES[l]

queue_bcp_twice(l, list) == Append(list, l)   \* mutant
queue_bcp_lost(l, list)  == list              \* mutant
(* A literal already listed is not listed again.                            *)
queue_bcp(l, list) == IF Contains(list, l) THEN list ELSE Append(list, l)

Init ==
  /\ CLAUSES \in Inputs
  /\ watching = [c \in DOMAIN CLAUSES |-> <<0, 0>>]
  /\ LIT_TO_CLAUSES = [l \in Literal |-> <<>>]
  /\ ASSIGNMENT = [v \in Var |-> UNASSIGNED]
  /\ DECISION_STACK = <<>> /\ BCP_LIST = <<>>
  /\ pc = "load" /\ caller = "bcp" /\ lit = 1 /\ w = 1 /\ answer = "none"

-----------------------------------------------------------------------------
(* main, before the search, clause by clause: an empty one ends it, a unit  *)
(* is queued, any other watches its first two literals; init_watcher puts   *)
(* it in front of their lists.                                              *)
LoadClause ==
  /\ pc = "load" /\ w <= Len(CLAUSES)
  /\ LET C == CLAUSES[w]
     IN  \/ /\ Len(C) = 0
            /\ answer' = "UNSAT" /\ pc' = "done"
            /\ UNCHANGED <<watching, LIT_TO_CLAUSES, BCP_LIST, w>>
         \/ /\ Len(C) = 1
            /\ BCP_LIST' = queue_bcp(C[1], BCP_LIST) /\ w' = w + 1
            /\ UNCHANGED <<watching, LIT_TO_CLAUSES, pc, answer>>
         \/ /\ Len(C) >= 2
            /\ watching' = [watching EXCEPT ![w] = <<C[1], C[2]>>]
            /\ LIT_TO_CLAUSES' = [LIT_TO_CLAUSES EXCEPT ![C[1]] = <<w>> \o @,
                                                        ![C[2]] = <<w>> \o @]
            /\ w' = w + 1
            /\ UNCHANGED <<BCP_LIST, pc, answer>>
  /\ UNCHANGED <<CLAUSES, ASSIGNMENT, DECISION_STACK, caller, lit>>

LoadDone ==
  /\ pc = "load" /\ w > Len(CLAUSES)
  /\ pc' = "bcp"
  /\ UNCHANGED <<CLAUSES, watching, LIT_TO_CLAUSES, ASSIGNMENT, DECISION_STACK,
                 BCP_LIST, caller, lit, w, answer>>

(* set_literal, up to its loop, on what unset_latest_assignment has left of *)
(* the assignment and the stack                                             *)
set_literal(assignment, stack, l, type, from) ==
  /\ ASSIGNMENT' = [assignment EXCEPT ![VarOf(l)] = IF l > 0 THEN TRUE_ ELSE FALSE_]
  /\ DECISION_STACK' = Append(stack, [var |-> VarOf(l), type |-> type])
  /\ pc' = "walk" /\ caller' = from /\ lit' = l /\ w' = 1

(* The clause under the cursor, the watch that became false, the other      *)
(* watch, and the first literal that can be watched instead.                *)
Walked      == clauses_watching(-lit)
Clause      == Walked[w]
watch_id    == IF watching[Clause][1] = -lit THEN 1 ELSE 2
other_watch == watching[Clause][3 - watch_id]
Watchable_false(c) == c \notin {other_watch, -lit}   \* mutant
Watchable_other(c) == ~is_literal_true(-c)           \* mutant
Watchable(c) == c \notin {other_watch, -lit} /\ ~is_literal_true(-c)
new_watch_lit == LET j == SelectInSeq(CLAUSES[Clause], Watchable)
                 IN  IF j = 0 THEN 0 ELSE CLAUSES[Clause][j]

AtClause == pc = "walk" /\ w <= Len(Walked)
Falsified == AtClause /\ new_watch_lit = 0 /\ is_literal_true(-other_watch)

MoveWatch ==
  /\ AtClause /\ new_watch_lit # 0
  /\ watching' = [watching EXCEPT ![Clause][watch_id] = new_watch_lit]
  /\ LIT_TO_CLAUSES' = [LIT_TO_CLAUSES EXCEPT ![-lit] = RemoveAt(@, w),
                                              ![new_watch_lit] = <<Clause>> \o @]
  /\ UNCHANGED <<CLAUSES, ASSIGNMENT, DECISION_STACK, BCP_LIST, pc, caller, lit, w, answer>>

KeepWatch ==
  /\ AtClause /\ new_watch_lit = 0 /\ ~is_literal_true(-other_watch)
  /\ BCP_LIST' = IF is_literal_true(other_watch) THEN BCP_LIST
                                                 ELSE queue_bcp(other_watch, BCP_LIST)
  /\ w' = w + 1
  /\ UNCHANGED <<CLAUSES, watching, LIT_TO_CLAUSES, ASSIGNMENT, DECISION_STACK, pc,
                 caller, lit, answer>>

(* set_literal returns 0: bcp reports a conflict, decide's assertion fails, *)
(* and resolveConflict ignores it.                                          *)
ReturnConflict ==
  /\ Falsified
  /\ pc' = CASE caller = "bcp" -> "conflict"
             [] caller = "decide" -> "abort"
             [] caller = "resolveConflict" -> "bcp"
  /\ UNCHANGED <<CLAUSES, watching, LIT_TO_CLAUSES, ASSIGNMENT, DECISION_STACK,
                 BCP_LIST, caller, lit, w, answer>>

ReturnOk ==
  /\ pc = "walk" /\ w > Len(Walked)
  /\ pc' = "bcp"
  /\ UNCHANGED <<CLAUSES, watching, LIT_TO_CLAUSES, ASSIGNMENT, DECISION_STACK,
                 BCP_LIST, caller, lit, w, answer>>

(* bcp's loop takes the literal queued last; with none left main decides.   *)
bcp ==
  /\ pc = "bcp"
  /\ IF BCP_LIST = <<>>
       THEN pc' = "decide"
            /\ UNCHANGED <<ASSIGNMENT, DECISION_STACK, BCP_LIST, caller, lit, w>>
       ELSE /\ BCP_LIST' = Front(BCP_LIST)
            /\ set_literal(ASSIGNMENT, DECISION_STACK, Last(BCP_LIST), "IMPLIED", "bcp")
  /\ UNCHANGED <<CLAUSES, watching, LIT_TO_CLAUSES, answer>>

(* The lowest unassigned variable, FALSE first.                             *)
decide ==
  /\ pc = "decide"
  /\ LET free == {v \in Var : ASSIGNMENT[v] = UNASSIGNED}
     IN  IF free = {}
           THEN /\ answer' = "SAT" /\ pc' = "done"
                /\ UNCHANGED <<ASSIGNMENT, DECISION_STACK, caller, lit, w>>
           ELSE /\ \E v \in free : /\ \A u \in free : v <= u
                                   /\ set_literal(ASSIGNMENT, DECISION_STACK, -v, "TRIED_ONE_WAY", "decide")
                /\ UNCHANGED answer
  /\ UNCHANGED <<CLAUSES, watching, LIT_TO_CLAUSES, BCP_LIST>>

IsOpen_again(d) == d.type # "IMPLIED"   \* mutant
IsOpen(d) == d.type = "TRIED_ONE_WAY"
Unset_nothing(k) == ASSIGNMENT   \* mutant
Unset(k) == LET gone == {DECISION_STACK[j].var : j \in k .. Len(DECISION_STACK)}
            IN  [v \in Var |-> IF v \in gone THEN UNASSIGNED ELSE ASSIGNMENT[v]]

Kept_one_more(k) == SubSeq(DECISION_STACK, 1, k)   \* mutant
Kept(k) == SubSeq(DECISION_STACK, 1, k - 1)

(* The first failure of bcp in main, before any decision, prints UNSAT      *)
(* without unwinding the stack; the program then exits.                     *)
resolveConflict ==
  /\ pc = "conflict"
  /\ BCP_LIST' = <<>>
  /\ LET k == SelectLastInSeq(DECISION_STACK, IsOpen)
     IN  IF k = 0
           THEN /\ DECISION_STACK' = <<>> /\ ASSIGNMENT' = Unset(1)
                /\ answer' = "UNSAT" /\ pc' = "done"
                /\ UNCHANGED <<caller, lit, w>>
           ELSE LET var == DECISION_STACK[k].var
                    new_value == ASSIGNMENT[var] = FALSE_
                IN  /\ set_literal(Unset(k), Kept(k), IF new_value THEN var ELSE -var,
                                   "TRIED_BOTH_WAYS", "resolveConflict")
                    /\ UNCHANGED answer
  /\ UNCHANGED <<CLAUSES, watching, LIT_TO_CLAUSES>>

Next == \/ LoadClause \/ LoadDone \/ bcp \/ decide \/ resolveConflict
        \/ MoveWatch \/ KeepWatch \/ ReturnConflict \/ ReturnOk

(* One thread runs the program.                                             *)
Spec == Init /\ [][Next]_vars /\ WF_vars(Next)

-----------------------------------------------------------------------------
TypeOK ==
  /\ CLAUSES \in Seq(Seq(Literal))
  /\ watching \in [DOMAIN CLAUSES -> Seq(Literal \cup {0})]
  /\ LIT_TO_CLAUSES \in [Literal -> Seq(DOMAIN CLAUSES)]
  /\ ASSIGNMENT \in [Var -> {UNASSIGNED, FALSE_, TRUE_}]
  /\ DECISION_STACK \in Seq([var : Var, type : {"IMPLIED", "TRIED_ONE_WAY", "TRIED_BOTH_WAYS"}])
  /\ BCP_LIST \in Seq(Literal)
  /\ IsInjective(BCP_LIST)   \* it fits in its 2 * N_VARS entries
  /\ pc \in {"load", "bcp", "walk", "conflict", "decide", "abort", "done"}
  /\ caller \in {"bcp", "decide", "resolveConflict"}
  /\ lit \in Literal /\ w \in Nat
  /\ answer \in {"none", "SAT", "UNSAT"}

(* decide's assertion (fast.c:152) holds, and so does what resolveConflict  *)
(* takes for granted at fast.c:183: only an implied literal can falsify a   *)
(* clause, because bcp has run dry before every decision.                   *)
OnlyImpliedConflicts == Falsified => caller = "bcp"

(* "every clause will be watching exactly two literals at a time"           *)
(* (sat-lab-monday/README.md:75): moving watches loses no clause from the   *)
(* lists and duplicates none.                                               *)
WatchesListed ==
  pc \notin {"load", "done"} =>
    \A c \in DOMAIN CLAUSES : Len(CLAUSES[c]) >= 2 =>
      /\ watching[c][1] # watching[c][2]
      /\ \A l \in Literal :
           Cardinality({i \in DOMAIN LIT_TO_CLAUSES[l] : LIT_TO_CLAUSES[l][i] = c})
             = IF l \in Range(watching[c]) THEN 1 ELSE 0

(* The watched-literal invariant: whenever bcp has run dry, also after any  *)
(* backtracking (which touches no watch), a clause with a false watch has a *)
(* true one, so no unit or falsified clause goes unnoticed.                 *)
WatchInv ==
  pc = "decide" =>
    \A c \in DOMAIN CLAUSES : Len(CLAUSES[c]) >= 2 =>
      \A i \in {1, 2} : is_literal_true(-watching[c][i])
                          => is_literal_true(watching[c][3 - i])

(* DECISION_STACK never outgrows its N_VARS entries (fast.c:199), although  *)
(* bcp may assign a variable that is already assigned.                      *)
StackFits == Len(DECISION_STACK) <= N_VARS

(* The solver prints an answer.                                             *)
Answers == <>(answer # "none")

-----------------------------------------------------------------------------
(* Refinement: the abstract search.  A variable that bcp assigns a second   *)
(* time, because both its literals were queued, still has its first value   *)
(* there: the walk is about to report the conflict.                         *)
Twice == \E j \in 1 .. Len(DECISION_STACK) - 1 :
           DECISION_STACK[j].var = Last(DECISION_STACK).var
LitOf(v) == LET new == IF ASSIGNMENT[v] = TRUE_ THEN v ELSE -v
            IN  IF Twice /\ v = Last(DECISION_STACK).var THEN -new ELSE new
trail == [i \in 1 .. Len(DECISION_STACK) - (IF Twice THEN 1 ELSE 0) |->
            [lit |-> LitOf(DECISION_STACK[i].var), kind |-> DECISION_STACK[i].type]]
formula == {Range(CLAUSES[c]) : c \in DOMAIN CLAUSES}

Search == INSTANCE Dpll

(* Every run of fast.c is a run of the abstract search: decisions, unit     *)
(* propagations and flips in an order that search allows, SAT only with a   *)
(* satisfying assignment and UNSAT only once every decision was flipped.    *)
SearchSpec == Search!Spec

(* "SAT" is printed only with an assignment that satisfies the input, as    *)
(* basic.c prints it: the answer is "supposed to be invariant to our        *)
(* optimizations" (sat-lab-monday/README.md:36-37).                         *)
SatSound == answer = "SAT" =>
              \A c \in DOMAIN CLAUSES : \E l \in Range(CLAUSES[c]) : is_literal_true(l)
=============================================================================
