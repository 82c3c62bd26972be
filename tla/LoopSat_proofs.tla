--------------------------- MODULE LoopSat_proofs ----------------------------
(***************************************************************************)
(* loop.c prints the same in every run, and SAT only with an assignment    *)
(* that satisfies the input, for every number of variables, of runs and    *)
(* every input.                                                            *)
(***************************************************************************)
EXTENDS LoopSat, Assignments_proofs

-----------------------------------------------------------------------------
(* The counts *)

Count(a, c)     == Cardinality(FalseIn(a, CLAUSES[c]))
CountsFor       == [DOMAIN CLAUSES -> Int]
NoMore(a, z)    == \A c \in DOMAIN CLAUSES : z[c] <= Count(a, c)
Exact(a, z, c)  == z[c] = Count(a, c)
AllFalse(a, c)  == \A m \in Range(CLAUSES[c]) : LitTrue(a, -m)

LEMMA ClauseType ==
  ASSUME CLAUSES \in Seq(Seq(Literal)), NEW c \in DOMAIN CLAUSES
  PROVE  /\ CLAUSES[c] \in Seq(Literal) /\ Range(CLAUSES[c]) \subseteq Literal
         /\ c \in 1 .. N_CLAUSES /\ N_CLAUSES \in Nat
         /\ \A l : c \in LIT_TO_CLAUSES(l) <=> l \in Range(CLAUSES[c])
<1>1. CLAUSES[c] \in Seq(Literal) /\ DOMAIN CLAUSES = 1 .. Len(CLAUSES) /\ Len(CLAUSES) \in Nat
  BY LenProperties, ElementOfSeq
<1>2. DOMAIN CLAUSES[c] = 1 .. Len(CLAUSES[c])
  BY <1>1, LenProperties
<1> QED
  BY <1>1, <1>2, ClauseSize DEF LIT_TO_CLAUSES, Contains, Range, N_CLAUSES

\* set_literal counts a false literal at most once, and exactly once up to the first
\* clause whose count it completes; that clause is falsified.
LEMMA SetCounts ==
  ASSUME CLAUSES \in Seq(Seq(Literal)), NEW z \in CountsFor,
         NEW a \in Assignment, NoMore(a, z),
         NEW l \in Literal, a[VarOf(l)] = UNASSIGNED
  PROVE  /\ Counted(z, l) \in CountsFor /\ NoMore(With(a, l), Counted(z, l))
         /\ \A c \in DOMAIN CLAUSES :
              Exact(a, z, c) /\ (-l \in Range(CLAUSES[c]) => \A d \in Completed(z, l) : c <= d)
                => Exact(With(a, l), Counted(z, l), c)
         /\ \A c \in Completed(z, l) :
              c \in DOMAIN CLAUSES /\ -l \in Range(CLAUSES[c]) /\ AllFalse(With(a, l), c)
<1> DEFINE b == With(a, l)
           y == Counted(z, l)
<1>1. y \in CountsFor
  BY DEF Counted, CountsFor
<1>2. ASSUME NEW c \in DOMAIN CLAUSES
      PROVE  /\ z[c] \in Int /\ Count(a, c) \in Nat /\ z[c] <= Count(a, c)
             /\ Count(b, c) = Count(a, c) + (IF -l \in Range(CLAUSES[c]) THEN 1 ELSE 0)
             /\ y[c] = IF -l \in Range(CLAUSES[c]) /\ \A d \in Completed(z, l) : c <= d
                         THEN z[c] + 1 ELSE z[c]
  <2>1. CLAUSES[c] \in Seq(Literal) /\ (c \in LIT_TO_CLAUSES(-l) <=> -l \in Range(CLAUSES[c]))
    BY ClauseType
  <2>2. Count(b, c) = Count(a, c) + (IF -l \in Range(CLAUSES[c]) THEN 1 ELSE 0)
    BY <2>1, CountGrows DEF Count
  <2>3. Count(a, c) \in Nat
    BY <2>1, FalseFinite DEF Count
  <2>4. z[c] \in Int /\ z[c] <= Count(a, c) /\ DOMAIN z = DOMAIN CLAUSES
    BY DEF CountsFor, NoMore
  <2>5. y[c] = IF c \in LIT_TO_CLAUSES(-l) /\ \A d \in Completed(z, l) : c <= d
                 THEN z[c] + 1 ELSE z[c]
    BY <2>4 DEF Counted
  <2> QED
    BY <2>1, <2>2, <2>3, <2>4, <2>5
<1> HIDE DEF b, y
<1>3. ASSUME NEW c \in DOMAIN CLAUSES
      PROVE  /\ y[c] <= Count(b, c)
             /\ z[c] = Count(a, c) /\ (-l \in Range(CLAUSES[c]) => \A d \in Completed(z, l) : c <= d)
                  => y[c] = Count(b, c)
  <2>1. CASE -l \in Range(CLAUSES[c]) /\ \A d \in Completed(z, l) : c <= d
    <3>1. y[c] = z[c] + 1 /\ Count(b, c) = Count(a, c) + 1
      BY <1>2, <2>1
    <3> QED
      BY <1>2, <3>1
  <2>2. CASE ~(-l \in Range(CLAUSES[c]) /\ \A d \in Completed(z, l) : c <= d)
    <3>1. y[c] = z[c]
      BY <1>2, <2>2
    <3>2. CASE -l \in Range(CLAUSES[c])
      <4>1. Count(b, c) = Count(a, c) + 1
        BY <1>2, <3>2
      <4> QED
        BY <1>2, <2>2, <3>1, <3>2, <4>1
    <3>3. CASE -l \notin Range(CLAUSES[c])
      BY <1>2, <3>1, <3>3
    <3> QED
      BY <3>2, <3>3
  <2> QED
    BY <2>1, <2>2
<1>4. /\ NoMore(b, y)
      /\ \A c \in DOMAIN CLAUSES :
           Exact(a, z, c) /\ (-l \in Range(CLAUSES[c]) => \A d \in Completed(z, l) : c <= d)
             => Exact(b, y, c)
  BY <1>3 DEF NoMore, Exact
<1>5. ASSUME NEW c \in Completed(z, l)
      PROVE  c \in DOMAIN CLAUSES /\ -l \in Range(CLAUSES[c]) /\ AllFalse(b, c)
  <2>1. c \in DOMAIN CLAUSES /\ c \in LIT_TO_CLAUSES(-l) /\ z[c] + 1 = Len(CLAUSES[c])
    BY DEF Completed, LIT_TO_CLAUSES
  <2>2. CLAUSES[c] \in Seq(Literal) /\ -l \in Range(CLAUSES[c])
    BY <2>1, ClauseType
  <2>3. /\ Len(CLAUSES[c]) \in Nat /\ Cardinality(Range(CLAUSES[c])) \in Nat
        /\ Cardinality(Range(CLAUSES[c])) <= Len(CLAUSES[c])
        /\ Count(b, c) \in Nat /\ Count(b, c) <= Cardinality(Range(CLAUSES[c]))
    BY <2>2, ClauseSize, FalseFinite DEF Count
  <2>4. Count(b, c) = Cardinality(Range(CLAUSES[c]))
    BY <1>2, <2>1, <2>2, <2>3
  <2>5. FalseIn(b, CLAUSES[c]) = Range(CLAUSES[c])
    BY <2>2, <2>4, FalseFinite DEF Count
  <2> QED
    BY <2>1, <2>2, <2>5 DEF AllFalse, FalseIn
<1> QED
  BY <1>1, <1>4, <1>5 DEF b, y

\* unset_latest_assignment takes back every false literal it uncounts.
LEMMA UnsetCounts ==
  ASSUME CLAUSES \in Seq(Seq(Literal)), n_zeros \in CountsFor,
         ASSIGNMENT \in Assignment, NoMore(ASSIGNMENT, n_zeros),
         NEW k, Popped(k) \in SUBSET Var
  PROVE  /\ UnsetZeros(k) \in CountsFor /\ NoMore(UnsetAssignment(k), UnsetZeros(k))
         /\ \A c \in DOMAIN CLAUSES : Exact(ASSIGNMENT, n_zeros, c)
              => Exact(UnsetAssignment(k), UnsetZeros(k), c)
<1> SUFFICES ASSUME NEW c \in DOMAIN CLAUSES
             PROVE  /\ UnsetZeros(k)[c] \in Int
                    /\ UnsetZeros(k)[c] <= Count(UnsetAssignment(k), c)
                    /\ n_zeros[c] = Count(ASSIGNMENT, c)
                         => UnsetZeros(k)[c] = Count(UnsetAssignment(k), c)
  <2>1. UnsetZeros(k) = [c \in DOMAIN CLAUSES |-> UnsetZeros(k)[c]]
    BY DEF UnsetZeros
  <2> QED
    BY <2>1 DEF CountsFor, NoMore, Exact
<1>1. UnsetAssignment(k) = Without(ASSIGNMENT, Popped(k))
  BY DEF UnsetAssignment, Without
<1> DEFINE U == {l \in Range(CLAUSES[c]) : VarOf(l) \in Popped(k) /\ LitTrue(ASSIGNMENT, -l)}
<1>2. UnsetZeros(k)[c] = n_zeros[c] - Cardinality(U)
  BY DEF UnsetZeros, is_lit_true, LitTrue, Value
<1>3. CLAUSES[c] \in Seq(Literal)
  BY ClauseType
<1>4. /\ Count(UnsetAssignment(k), c) = Count(ASSIGNMENT, c) - Cardinality(U)
      /\ Cardinality(U) \in Nat
  BY <1>1, <1>3, CountShrinks DEF Count
<1>5. Count(ASSIGNMENT, c) \in Nat
  BY <1>3, FalseFinite DEF Count
<1>6. n_zeros[c] \in Int /\ n_zeros[c] <= Count(ASSIGNMENT, c)
  BY DEF CountsFor, NoMore
<1> HIDE DEF U
<1> QED
  BY <1>2, <1>4, <1>5, <1>6

-----------------------------------------------------------------------------
(* The inductive invariant *)

Kept == CountersTypeOK /\ NoMore(ASSIGNMENT, n_zeros) /\ Consistent(ASSIGNMENT, DECISION_STACK)

Control ==
  /\ CLAUSES \in Inputs
  /\ pc \in {"bcp", "conflict", "decide", "printed"}
  /\ i \in 1 .. N_CLAUSES + 1
  /\ answers \in Seq({"SAT", "UNSAT"}) /\ Len(answers) <= Runs
  /\ pc # "printed" => Len(answers) < Runs
  /\ pc = "printed" => answers # <<>>

\* What bcp has gone past since it last assigned has nothing to imply.
Past(c) ==
  \/ n_zeros[c] + 1 # Len(CLAUSES[c])
  \/ \E l \in Range(CLAUSES[c]) : LitTrue(ASSIGNMENT, l)
  \/ \A l \in Range(CLAUSES[c]) : ASSIGNMENT[VarOf(l)] # UNASSIGNED
Scanned ==
  \A c \in DOMAIN CLAUSES : (pc = "bcp" /\ c < i) \/ pc = "decide" => Past(c)

IInv == Kept /\ Control /\ Scanned

LEMMA KeptTypes ==
  ASSUME Kept
  PROVE  /\ CLAUSES \in Seq(Seq(Literal)) /\ n_zeros \in CountsFor
         /\ ASSIGNMENT \in Assignment /\ DECISION_STACK \in Seq(Decision)
         /\ NoMore(ASSIGNMENT, n_zeros) /\ Consistent(ASSIGNMENT, DECISION_STACK)
BY DEF Kept, CountersTypeOK, CountsFor, Assignment, Decision, Types

\* A count that set_literal would complete belongs to a clause that looks unit.
LEMMA CompletedLooksUnit ==
  ASSUME Kept, NEW l \in Literal, ASSIGNMENT[VarOf(l)] = UNASSIGNED,
         NEW c \in Completed(n_zeros, l)
  PROVE  c \in DOMAIN CLAUSES /\ ~Past(c)
<1>1. c \in DOMAIN CLAUSES /\ c \in LIT_TO_CLAUSES(-l) /\ n_zeros[c] + 1 = Len(CLAUSES[c])
  BY DEF Completed, LIT_TO_CLAUSES
<1>2. -l \in Range(CLAUSES[c]) /\ AllFalse(With(ASSIGNMENT, l), c)
      /\ Range(CLAUSES[c]) \subseteq Literal
  BY <1>1, KeptTypes, ClauseType, SetCounts
<1>3. /\ VarOf(l) \in Var /\ -l \in Literal /\ VarOf(-l) = VarOf(l)
      /\ UNASSIGNED \notin {FALSE_, TRUE_}
  BY Literals DEF UNASSIGNED, FALSE_, TRUE_
<1>4. ASSUME NEW m \in Range(CLAUSES[c]) PROVE ~LitTrue(ASSIGNMENT, m)
  <2>1. /\ m \in Literal /\ -m \in Literal /\ VarOf(-m) = VarOf(m) /\ VarOf(m) \in Var
        /\ Value(m) \in {FALSE_, TRUE_} /\ Value(-m) # Value(m)
    BY <1>2, Literals
  <2>2. LitTrue(With(ASSIGNMENT, l), -m)
    BY <1>2 DEF AllFalse
  <2>3. CASE VarOf(m) = VarOf(l)
    BY <1>3, <2>1, <2>3 DEF LitTrue
  <2>4. CASE VarOf(m) # VarOf(l)
    <3>1. With(ASSIGNMENT, l)[VarOf(m)] = ASSIGNMENT[VarOf(m)]
      BY <2>1, <2>4, KeptTypes DEF With, Assignment
    <3> QED
      BY <2>1, <2>2, <3>1 DEF LitTrue
  <2> QED
    BY <2>3, <2>4
<1> QED
  BY <1>1, <1>2, <1>3, <1>4 DEF Past

LEMMA Setting ==
  ASSUME CLAUSES \in Seq(Seq(Literal)), UNCHANGED CLAUSES,
         NEW a \in Assignment, NEW st \in Seq(Decision), NEW z \in CountsFor,
         Consistent(a, st), NoMore(a, z),
         NEW l \in Literal, a[VarOf(l)] = UNASSIGNED,
         NEW type \in Types, type = "TRIED_ONE_WAY" => Value(l) = FALSE_,
         set_literal(a, st, z, l, type)
  PROVE  /\ Kept'
         /\ ASSIGNMENT' = With(a, l) /\ DECISION_STACK' = Pushed(st, l, type)
         /\ n_zeros' = Counted(z, l)
<1>1. /\ ASSIGNMENT' = With(a, l) /\ DECISION_STACK' = Pushed(st, l, type)
      /\ n_zeros' = Counted(z, l)
  BY DEF set_literal, With, Value, Pushed
<1>2. /\ Pushed(st, l, type) \in Seq(Decision)
      /\ Consistent(With(a, l), Pushed(st, l, type))
  BY Push
<1>3. Counted(z, l) \in CountsFor /\ NoMore(With(a, l), Counted(z, l))
  BY SetCounts
<1>4. With(a, l) \in Assignment
  <2>1. <<>> \in Seq(Literal)
    BY EmptySeq
  <2> QED
    BY <2>1, FalseGrows
<1>5. Len(Pushed(st, l, type)) <= NVars /\ Len(Pushed(st, l, type)) \in Nat
  BY <1>2, StackBound, LenProperties
<1>6. Consistent(ASSIGNMENT, DECISION_STACK)'
  BY <1>1, <1>2
<1>7. NoMore(ASSIGNMENT, n_zeros)'
  BY <1>1, <1>3 DEF NoMore, Count
<1>8. CountersTypeOK'
  BY <1>1, <1>2, <1>3, <1>4, <1>5, NVarsAssumption
     DEF CountersTypeOK, CountsFor, Assignment, Decision, Types, N_VARS
<1> QED
  BY <1>1, <1>6, <1>7, <1>8 DEF Kept

\* Unwinding the stack down to its k-th entry.
LEMMA Unwinding ==
  ASSUME Kept, NEW k \in 1 .. Len(DECISION_STACK) + 1
  PROVE  /\ UnsetAssignment(k) = Without(ASSIGNMENT, VarsFrom(DECISION_STACK, k))
         /\ UnsetAssignment(k) \in Assignment
         /\ SubSeq(DECISION_STACK, 1, k - 1) \in Seq(Decision)
         /\ UnsetZeros(k) \in CountsFor
         /\ Consistent(UnsetAssignment(k), SubSeq(DECISION_STACK, 1, k - 1))
         /\ NoMore(UnsetAssignment(k), UnsetZeros(k))
         /\ \A c \in DOMAIN CLAUSES : Exact(ASSIGNMENT, n_zeros, c)
              => Exact(UnsetAssignment(k), UnsetZeros(k), c)
         /\ k <= Len(DECISION_STACK) => UnsetAssignment(k)[DECISION_STACK[k].var] = UNASSIGNED
<1>1. /\ Popped(k) = VarsFrom(DECISION_STACK, k)
      /\ UnsetAssignment(k) = Without(ASSIGNMENT, Popped(k))
  BY DEF Popped, VarsFrom, UnsetAssignment, Without
<1>2. /\ VarsFrom(DECISION_STACK, k) \in SUBSET Var
      /\ SubSeq(DECISION_STACK, 1, k - 1) \in Seq(Decision)
      /\ Consistent(Without(ASSIGNMENT, VarsFrom(DECISION_STACK, k)),
                    SubSeq(DECISION_STACK, 1, k - 1))
      /\ k <= Len(DECISION_STACK) =>
           Without(ASSIGNMENT, VarsFrom(DECISION_STACK, k))[DECISION_STACK[k].var] = UNASSIGNED
  BY KeptTypes, Pop
<1>3. /\ UnsetZeros(k) \in CountsFor /\ NoMore(UnsetAssignment(k), UnsetZeros(k))
      /\ \A c \in DOMAIN CLAUSES : Exact(ASSIGNMENT, n_zeros, c)
           => Exact(UnsetAssignment(k), UnsetZeros(k), c)
  BY <1>1, <1>2, KeptTypes, UnsetCounts
<1>4. UnsetAssignment(k) \in Assignment
  <2>1. <<>> \in Seq(Literal)
    BY EmptySeq
  <2> QED
    BY <1>1, <1>2, <2>1, KeptTypes, FalseShrinks
<1> QED
  BY <1>1, <1>2, <1>3, <1>4

\* A run starts with nothing assigned and nothing counted.
LEMMA Starting ==
  ASSUME CLAUSES \in Inputs
  PROVE  /\ CLAUSES \in Seq(Seq(Literal))
         /\ LET a == [v \in Var |-> UNASSIGNED]
                z == [c \in DOMAIN CLAUSES |-> 0]
            IN  /\ a \in Assignment /\ z \in CountsFor /\ NoMore(a, z) /\ Consistent(a, <<>>)
                /\ \A c \in DOMAIN CLAUSES : Exact(a, z, c)
                /\ \A l \in Literal : ~LitTrue(a, l)
<1> DEFINE a == [v \in Var |-> UNASSIGNED]
           z == [c \in DOMAIN CLAUSES |-> 0]
<1>1. CLAUSES \in Seq(Seq(Literal))
  BY InputsAssumption
<1>2. a \in Assignment /\ z \in CountsFor /\ Consistent(a, <<>>)
  BY DEF Assignment, CountsFor, Consistent
<1>3. \A l \in Literal : ~LitTrue(a, l)
  BY Literals DEF LitTrue, UNASSIGNED, FALSE_, TRUE_
<1> HIDE DEF a
<1>4. ASSUME NEW c \in DOMAIN CLAUSES PROVE Count(a, c) = 0
  <2>1. Range(CLAUSES[c]) \subseteq Literal
    BY <1>1, ClauseType
  <2>2. FalseIn(a, CLAUSES[c]) = {}
    BY <1>3, <2>1, Literals DEF FalseIn
  <2> QED
    BY <2>2, FS_EmptySet DEF Count
<1>5. \A c \in DOMAIN CLAUSES : z[c] = Count(a, c) /\ z[c] <= Count(a, c)
  BY <1>4
<1> QED
  BY <1>1, <1>2, <1>3, <1>5 DEF NoMore, Exact, a

LEMMA Forced ==
  ASSUME Kept, i \in DOMAIN CLAUSES
  PROVE  /\ forced_lit = 0 => \A l \in Range(CLAUSES[i]) : ASSIGNMENT[VarOf(l)] # UNASSIGNED
         /\ forced_lit # 0 => /\ forced_lit \in Range(CLAUSES[i])
                              /\ ASSIGNMENT[VarOf(forced_lit)] = UNASSIGNED
<1>1. CLAUSES[i] \in Seq(Literal)
  BY KeptTypes, ClauseType
<1>2. forced_lit = FirstUnassigned(ASSIGNMENT, CLAUSES[i])
  BY DEF forced_lit, FirstUnassigned, SelectInSeq, Unassigned
<1> QED
  BY <1>1, <1>2, FirstUnassignedIs

\* Nothing but the place changes.
LEMMA Stutter ==
  ASSUME UNCHANGED cvars
  PROVE  /\ Kept => Kept'
         /\ DOMAIN CLAUSES' = DOMAIN CLAUSES
         /\ \A c \in DOMAIN CLAUSES : Past(c) => Past(c)'
BY DEF cvars, Kept, CountersTypeOK, NoMore, Count, Consistent, N_VARS, Past

LEMMA SkipStep == IInv /\ BcpSkip => IInv'
<1> SUFFICES ASSUME IInv, BcpSkip PROVE IInv'
  OBVIOUS
<1>1. /\ Kept /\ Control /\ Scanned /\ Scanning /\ pc = "bcp" /\ pc' = pc
      /\ i' = i + 1 /\ UNCHANGED answers /\ UNCHANGED cvars /\ i <= N_CLAUSES
  BY DEF IInv, BcpSkip, Scanning
<1>2. DOMAIN CLAUSES = 1 .. N_CLAUSES /\ N_CLAUSES \in Nat /\ N_CLAUSES' = N_CLAUSES
  BY <1>1, KeptTypes, LenProperties DEF N_CLAUSES, cvars
<1>3. i \in DOMAIN CLAUSES
  BY <1>1, <1>2 DEF Control
<1>4. Past(i)
  <2>1. CASE ~LooksUnit
    BY <2>1 DEF LooksUnit, Past
  <2>2. CASE foundTrue
    BY <2>2 DEF foundTrue, Past, is_lit_true, LitTrue, Value
  <2>3. CASE forced_lit = 0
    BY <1>1, <1>3, <2>3, Forced DEF Past
  <2> QED
    BY <2>1, <2>2, <2>3 DEF BcpSkip
<1>5. Control'
  BY <1>1, <1>2, <1>3 DEF Control, cvars
<1>6. Scanned'
  BY <1>1, <1>2, <1>3, <1>4, Stutter DEF Scanned
<1> QED
  BY <1>1, <1>5, <1>6, Stutter DEF IInv

LEMMA ForceStep == IInv /\ BcpForce => IInv'
<1> SUFFICES ASSUME IInv, BcpForce PROVE IInv'
  OBVIOUS
<1>1. /\ Kept /\ Control /\ UNCHANGED CLAUSES /\ UNCHANGED answers /\ i' = 1
      /\ pc = "bcp" /\ pc' \in {"bcp", "conflict"} /\ i <= N_CLAUSES
      /\ set_literal(ASSIGNMENT, DECISION_STACK, n_zeros, forced_lit, "IMPLIED")
      /\ forced_lit # 0
  BY DEF IInv, BcpForce, Scanning
<1>2. DOMAIN CLAUSES = 1 .. N_CLAUSES /\ N_CLAUSES \in Nat /\ N_CLAUSES' = N_CLAUSES
  BY <1>1, KeptTypes, LenProperties DEF N_CLAUSES
<1>3. i \in DOMAIN CLAUSES
  BY <1>1, <1>2 DEF Control
<1>4. forced_lit \in Literal /\ ASSIGNMENT[VarOf(forced_lit)] = UNASSIGNED
  BY <1>1, <1>3, Forced, KeptTypes, ClauseType
<1>5. Kept'
  BY <1>1, <1>4, KeptTypes, Setting DEF Types
<1>6. Control'
  BY <1>1, <1>2 DEF Control
<1>7. Scanned'
  BY <1>1, <1>2 DEF Scanned
<1> QED
  BY <1>5, <1>6, <1>7 DEF IInv

LEMMA DoneStep == IInv /\ BcpDone => IInv'
<1> SUFFICES ASSUME IInv, BcpDone PROVE IInv'
  OBVIOUS
<1>1. /\ Kept /\ Control /\ Scanned /\ pc = "bcp" /\ pc' = "decide"
      /\ UNCHANGED <<cvars, i, answers>> /\ i > N_CLAUSES
  BY DEF IInv, BcpDone
<1>2. DOMAIN CLAUSES = 1 .. N_CLAUSES /\ N_CLAUSES \in Nat /\ N_CLAUSES' = N_CLAUSES
  BY <1>1, KeptTypes, LenProperties DEF N_CLAUSES, cvars
<1>3. Control'
  BY <1>1, <1>2 DEF Control, cvars
<1>4. Scanned'
  BY <1>1, <1>2, Stutter DEF Scanned, Control
<1> QED
  BY <1>1, <1>3, <1>4, Stutter DEF IInv

\* Once bcp is complete no count is one short of completing an unassigned literal's clause.
LEMMA NoneCompleted ==
  ASSUME IInv, pc = "decide", NEW l \in Literal, ASSIGNMENT[VarOf(l)] = UNASSIGNED
  PROVE  Completed(n_zeros, l) = {}
BY CompletedLooksUnit DEF IInv, Scanned

LEMMA Answering ==
  ASSUME Control, pc # "printed", NEW what \in {"SAT", "UNSAT"}, Answer(what)
  PROVE  /\ pc' = "printed" /\ answers' \in Seq({"SAT", "UNSAT"}) /\ Len(answers') <= Runs
         /\ answers' # <<>> /\ answers' = Append(answers, what)
<1>1. answers \in Seq({"SAT", "UNSAT"}) /\ Len(answers) < Runs
  BY DEF Control
<1>2. /\ Len(answers) \in Nat
      /\ Append(answers, what) \in Seq({"SAT", "UNSAT"}) /\ Append(answers, what) # <<>>
      /\ Len(Append(answers, what)) = Len(answers) + 1
  BY <1>1, LenProperties, AppendProperties
<1> QED
  BY <1>1, <1>2, RunsAssumption DEF Answer

LEMMA DecideStep == IInv /\ decide => IInv'
<1> SUFFICES ASSUME IInv, decide PROVE IInv'
  OBVIOUS
<1>1. Kept /\ Control /\ UNCHANGED CLAUSES /\ pc = "decide"
  BY DEF IInv, decide
<1>2. DOMAIN CLAUSES = 1 .. N_CLAUSES /\ N_CLAUSES \in Nat /\ N_CLAUSES' = N_CLAUSES
  BY <1>1, KeptTypes, LenProperties DEF N_CLAUSES
<1>3. CASE {v \in Var : ASSIGNMENT[v] = UNASSIGNED} = {}
  <2>1. Answer("SAT") /\ UNCHANGED <<n_zeros, ASSIGNMENT, DECISION_STACK, i>>
    BY <1>3 DEF decide
  <2>2. /\ pc' = "printed" /\ answers' \in Seq({"SAT", "UNSAT"}) /\ Len(answers') <= Runs
        /\ answers' # <<>>
    BY <1>1, <2>1, Answering
  <2>3. UNCHANGED cvars
    BY <1>1, <2>1 DEF cvars
  <2>4. Control'
    BY <1>1, <1>2, <2>1, <2>2 DEF Control
  <2>5. Scanned'
    BY <2>2 DEF Scanned
  <2> QED
    BY <1>1, <2>3, <2>4, <2>5, Stutter DEF IInv
<1>4. CASE {v \in Var : ASSIGNMENT[v] = UNASSIGNED} # {}
  <2>1. PICK v \in Var :
          /\ ASSIGNMENT[v] = UNASSIGNED
          /\ set_literal(ASSIGNMENT, DECISION_STACK, n_zeros, -v, "TRIED_ONE_WAY")
          /\ pc' = IF Completed(n_zeros, -v) = {} THEN "bcp" ELSE "abort"
          /\ i' = 1 /\ UNCHANGED answers
    BY <1>4 DEF decide
  <2>2. -v \in Literal /\ VarOf(-v) = v /\ Value(-v) = FALSE_
    BY Literals
  <2>3. pc' = "bcp"
    BY <2>1, <2>2, <1>1, NoneCompleted
  <2>4. Kept'
    BY <1>1, <2>1, <2>2, KeptTypes, Setting DEF Types
  <2>5. Control'
    BY <1>1, <1>2, <2>1, <2>3 DEF Control
  <2>6. Scanned'
    BY <1>1, <1>2, <2>1, <2>3 DEF Scanned
  <2> QED
    BY <2>4, <2>5, <2>6 DEF IInv
<1> QED
  BY <1>3, <1>4

LEMMA LastOpenIs ==
  ASSUME DECISION_STACK \in Seq(Decision)
  PROVE  /\ LastOpen \in 0 .. Len(DECISION_STACK)
         /\ LastOpen = 0 =>
              \A j \in 1 .. Len(DECISION_STACK) : DECISION_STACK[j].type # "TRIED_ONE_WAY"
         /\ LastOpen # 0 =>
              /\ LastOpen \in 1 .. Len(DECISION_STACK)
              /\ DECISION_STACK[LastOpen].type = "TRIED_ONE_WAY"
              /\ \A j \in 1 .. Len(DECISION_STACK) :
                   j > LastOpen => DECISION_STACK[j].type # "TRIED_ONE_WAY"
<1>1. LastOpen = SelectLastInSeq(DECISION_STACK, LAMBDA d : d.type = "TRIED_ONE_WAY")
  BY DEF LastOpen, SelectLastInSeq, IsOpen
<1> QED
  BY <1>1, LastOneWay

\* resolveConflict reads the variable after it has unset it, and so gives it FALSE again.
LEMMA Reassigning ==
  ASSUME Kept, resolveConflict, NEW k \in 1 .. Len(DECISION_STACK), k = LastOpen
  PROVE  LET l == -DECISION_STACK[k].var
         IN  /\ l \in Literal /\ VarOf(l) = DECISION_STACK[k].var /\ Value(l) = FALSE_
             /\ UnsetAssignment(k)[VarOf(l)] = UNASSIGNED
             /\ set_literal(UnsetAssignment(k), SubSeq(DECISION_STACK, 1, k - 1),
                            UnsetZeros(k), l, "TRIED_BOTH_WAYS")
             /\ IF Completed(UnsetZeros(k), l) = {}
                  THEN pc' = "bcp" /\ UNCHANGED answers ELSE Answer("UNSAT")
<1>1. Len(DECISION_STACK) \in Nat /\ k # 0 /\ k \in 1 .. Len(DECISION_STACK) + 1
  BY KeptTypes, LenProperties
<1>2. DECISION_STACK[k].var \in Var
  <2>1. DECISION_STACK[k] \in Decision
    BY KeptTypes, ElementOfSeq
  <2> QED
    BY <2>1 DEF Decision
<1>3. UnsetAssignment(k)[DECISION_STACK[k].var] = UNASSIGNED
  BY <1>1, Unwinding
<1>4. ~(UnsetAssignment(k)[DECISION_STACK[k].var] = FALSE_)
  BY <1>3 DEF UNASSIGNED, FALSE_
<1>5. LET l == IF UnsetAssignment(k)[DECISION_STACK[k].var] = FALSE_
                 THEN DECISION_STACK[k].var ELSE -DECISION_STACK[k].var
      IN  /\ set_literal(UnsetAssignment(k), SubSeq(DECISION_STACK, 1, k - 1),
                         UnsetZeros(k), l, "TRIED_BOTH_WAYS")
          /\ IF Completed(UnsetZeros(k), l) = {}
               THEN pc' = "bcp" /\ UNCHANGED answers ELSE Answer("UNSAT")
  BY <1>1, Zenon DEF resolveConflict
<1>6. LET l == -DECISION_STACK[k].var
      IN  l \in Literal /\ VarOf(l) = DECISION_STACK[k].var /\ Value(l) = FALSE_
  BY <1>2, Literals
<1> QED
  BY <1>3, <1>4, <1>5, <1>6

LEMMA ResolveStep == IInv /\ resolveConflict => IInv'
<1> SUFFICES ASSUME IInv, resolveConflict PROVE IInv'
  OBVIOUS
<1>1. Kept /\ Control /\ UNCHANGED CLAUSES /\ pc = "conflict" /\ i' = 1
  BY DEF IInv, resolveConflict
<1>2. /\ DOMAIN CLAUSES = 1 .. N_CLAUSES /\ N_CLAUSES \in Nat /\ N_CLAUSES' = N_CLAUSES
      /\ Len(DECISION_STACK) \in Nat
  BY <1>1, KeptTypes, LenProperties DEF N_CLAUSES
<1>3. CASE LastOpen = 0
  <2>1. /\ ASSIGNMENT' = UnsetAssignment(1) /\ DECISION_STACK' = <<>>
        /\ n_zeros' = UnsetZeros(1) /\ Answer("UNSAT")
    BY <1>3 DEF resolveConflict
  <2>2. /\ pc' = "printed" /\ answers' \in Seq({"SAT", "UNSAT"}) /\ Len(answers') <= Runs
        /\ answers' # <<>>
    BY <1>1, <2>1, Answering
  <2>3. SubSeq(DECISION_STACK, 1, 1 - 1) = <<>>
    BY SubSeqEmpty
  <2>4. /\ UnsetAssignment(1) \in Assignment /\ UnsetZeros(1) \in CountsFor
        /\ Consistent(UnsetAssignment(1), <<>>)
        /\ NoMore(UnsetAssignment(1), UnsetZeros(1))
    <3>1. 1 \in 1 .. Len(DECISION_STACK) + 1
      BY <1>2
    <3> QED
      BY <1>1, <2>3, <3>1, Unwinding
  <2>5. <<>> \in Seq(Decision) /\ Len(<<>>) = 0
    BY EmptySeq
  <2>6. CountersTypeOK'
    BY <1>1, <2>1, <2>4, <2>5, KeptTypes, NVarsAssumption
       DEF CountersTypeOK, CountsFor, Assignment, Decision, Types, N_VARS
  <2>7. Kept'
    BY <1>1, <2>1, <2>4, <2>6 DEF Kept, NoMore, Count
  <2>8. Control'
    BY <1>1, <1>2, <2>2 DEF Control
  <2>9. Scanned'
    BY <2>2 DEF Scanned
  <2> QED
    BY <2>7, <2>8, <2>9 DEF IInv
<1>4. CASE LastOpen # 0
  <2>1. PICK k \in 1 .. Len(DECISION_STACK) : k = LastOpen
    BY <1>1, <1>4, KeptTypes, LastOpenIs
  <2>2. PICK l \in Literal :
          /\ Value(l) = FALSE_ /\ UnsetAssignment(k)[VarOf(l)] = UNASSIGNED
          /\ set_literal(UnsetAssignment(k), SubSeq(DECISION_STACK, 1, k - 1),
                         UnsetZeros(k), l, "TRIED_BOTH_WAYS")
          /\ IF Completed(UnsetZeros(k), l) = {}
               THEN pc' = "bcp" /\ UNCHANGED answers ELSE Answer("UNSAT")
    BY <1>1, <2>1, Reassigning
  <2>3. Kept'
    <3>1. k \in 1 .. Len(DECISION_STACK) + 1
      BY <1>2
    <3> QED
      BY <1>1, <2>2, <3>1, KeptTypes, Unwinding, Setting DEF Types
  <2>4. CASE pc' = "bcp" /\ UNCHANGED answers
    <3>1. Control'
      BY <1>1, <1>2, <2>4 DEF Control
    <3>2. Scanned'
      BY <1>1, <1>2, <2>4 DEF Scanned
    <3> QED
      BY <2>3, <3>1, <3>2 DEF IInv
  <2>5. CASE Answer("UNSAT")
    <3>1. /\ pc' = "printed" /\ answers' \in Seq({"SAT", "UNSAT"}) /\ Len(answers') <= Runs
          /\ answers' # <<>>
      BY <1>1, <2>5, Answering
    <3>2. Control'
      BY <1>1, <1>2, <3>1 DEF Control
    <3>3. Scanned'
      BY <3>1 DEF Scanned
    <3> QED
      BY <2>3, <3>2, <3>3 DEF IInv
  <2> QED
    BY <2>2, <2>4, <2>5
<1> QED
  BY <1>3, <1>4

LEMMA Begun ==
  ASSUME CLAUSES \in Inputs, UNCHANGED CLAUSES,
         ASSIGNMENT' = [v \in Var |-> UNASSIGNED], DECISION_STACK' = <<>>,
         n_zeros' = [c \in DOMAIN CLAUSES |-> 0]
  PROVE  Kept'
<1>1. /\ CLAUSES \in Seq(Seq(Literal))
      /\ ASSIGNMENT' \in Assignment /\ n_zeros' \in CountsFor /\ NoMore(ASSIGNMENT', n_zeros')
      /\ Consistent(ASSIGNMENT', <<>>)
  BY Starting
<1>2. <<>> \in Seq(Decision) /\ Len(<<>>) = 0
  BY EmptySeq
<1>3. CountersTypeOK'
  BY <1>1, <1>2, NVarsAssumption
     DEF CountersTypeOK, CountsFor, Assignment, Decision, Types, N_VARS
<1> QED
  BY <1>1, <1>3 DEF Kept, NoMore, Count

LEMMA NextRunStep == IInv /\ NextRun => IInv'
<1> SUFFICES ASSUME IInv, NextRun PROVE IInv'
  OBVIOUS
<1>1. Kept /\ Control /\ UNCHANGED <<CLAUSES, answers>> /\ pc' = "bcp" /\ i' = 1
      /\ Len(answers) < Runs
  BY DEF IInv, NextRun
<1>2. N_CLAUSES \in Nat /\ N_CLAUSES' = N_CLAUSES /\ DOMAIN CLAUSES = 1 .. N_CLAUSES
  BY <1>1, KeptTypes, LenProperties DEF N_CLAUSES
<1>3. Kept'
  BY <1>1, Begun DEF Control, NextRun
<1>4. Control' /\ Scanned'
  BY <1>1, <1>2 DEF Control, Scanned
<1> QED
  BY <1>3, <1>4 DEF IInv

LEMMA Start == Init => IInv
<1> SUFFICES ASSUME Init PROVE IInv
  OBVIOUS
<1>1. /\ CLAUSES \in Inputs /\ ASSIGNMENT = [v \in Var |-> UNASSIGNED]
      /\ n_zeros = [c \in DOMAIN CLAUSES |-> 0] /\ DECISION_STACK = <<>>
      /\ pc = "bcp" /\ i = 1 /\ answers = <<>>
  BY DEF Init, InitCounters
<1>2. /\ CLAUSES \in Seq(Seq(Literal))
      /\ ASSIGNMENT \in Assignment /\ n_zeros \in CountsFor /\ NoMore(ASSIGNMENT, n_zeros)
      /\ Consistent(ASSIGNMENT, <<>>)
  BY <1>1, Starting
<1>3. <<>> \in Seq(Decision) /\ Len(<<>>) = 0 /\ <<>> \in Seq({"SAT", "UNSAT"})
  BY EmptySeq
<1>4. CountersTypeOK
  BY <1>1, <1>2, <1>3, NVarsAssumption
     DEF CountersTypeOK, CountsFor, Assignment, Decision, Types, N_VARS
<1>5. N_CLAUSES \in Nat /\ DOMAIN CLAUSES = 1 .. N_CLAUSES
  BY <1>2, LenProperties DEF N_CLAUSES
<1>6. Control /\ Scanned
  BY <1>1, <1>3, <1>5, RunsAssumption DEF Control, Scanned
<1> QED
  BY <1>1, <1>2, <1>4, <1>6 DEF IInv, Kept

LEMMA Steps == IInv /\ [Next]_vars => IInv'
<1>1. ASSUME IInv, UNCHANGED vars PROVE IInv'
  <2>1. UNCHANGED cvars /\ UNCHANGED <<pc, i, answers>>
    BY <1>1 DEF vars
  <2>2. Control' /\ Scanned'
    BY <1>1, <2>1, Stutter DEF IInv, Control, Scanned, N_CLAUSES, cvars
  <2> QED
    BY <1>1, <2>1, <2>2, Stutter DEF IInv
<1> QED
  BY <1>1, SkipStep, ForceStep, DoneStep, DecideStep, ResolveStep, NextRunStep DEF Next

(* The inductive invariant of loop.c. *)
THEOREM Invariance == Spec => []IInv
BY Start, Steps, PTL DEF Spec

(* loop.c keeps its types. *)
THEOREM TypeCorrect == Spec => []TypeOK
<1>1. IInv => TypeOK
  BY DEF IInv, Kept, Control, TypeOK
<1> QED
  BY <1>1, Invariance, PTL

(* The assertion of decide, loop.c:142, never fires. *)
THEOREM DecisionsAreSafe == Spec => []DecideAssert
<1>1. IInv => DecideAssert
  BY DEF IInv, Control, DecideAssert
<1> QED
  BY <1>1, Invariance, PTL

-----------------------------------------------------------------------------
(* A walk that each place but an end determines the next step of has one end *)

Closed(U, ends, step, S) == \A s \in S \ ends : step[s] \in U => step[s] \in S
Reached(U, ends, step, start) ==
  {s \in U : \A S \in SUBSET U : start \in S /\ Closed(U, ends, step, S) => s \in S}

LEMMA Walks ==
  ASSUME NEW U, NEW ends, NEW step, NEW start \in U
  PROVE  LET R == Reached(U, ends, step, start)
         IN  start \in R /\ Closed(U, ends, step, R)
BY DEF Reached, Closed

LEMMA OneEnd ==
  ASSUME NEW U, NEW ends, NEW step, NEW start \in U,
         NEW s \in Reached(U, ends, step, start) \cap ends,
         NEW t \in Reached(U, ends, step, start) \cap ends
  PROVE  s = t
<1> DEFINE R == Reached(U, ends, step, start)
           LeadsToEnd(x) == \A S \in SUBSET U : x \in S /\ Closed(U, ends, step, S) => t \in S
           T == {x \in U : LeadsToEnd(x)}
<1>1. start \in T
  BY DEF Reached
<1>2. ASSUME NEW x \in T \ ends, step[x] \in U PROVE step[x] \in T
  <2> SUFFICES ASSUME NEW S \in SUBSET U, step[x] \in S, Closed(U, ends, step, S)
               PROVE  t \in S
    BY <1>2
  <2>1. S \cup {x} \in SUBSET U /\ x \in S \cup {x} /\ Closed(U, ends, step, S \cup {x})
    BY <1>2 DEF Closed
  <2>2. t \in S \cup {x}
    BY <1>2, <2>1
  <2> QED
    BY <1>2, <2>2
<1>3. T \in SUBSET U /\ Closed(U, ends, step, T)
  BY <1>2 DEF Closed
<1>4. s \in T
  BY <1>1, <1>3 DEF Reached
<1>5. {s} \in SUBSET U /\ Closed(U, ends, step, {s})
  BY DEF Reached, Closed
<1> QED
  BY <1>4, <1>5

-----------------------------------------------------------------------------
(* What the solver does next, as a function of where it is *)

Quiet(j, z, a) ==
  \/ z[j] + 1 # Len(CLAUSES[j])
  \/ \E l \in Range(CLAUSES[j]) : LitTrue(a, l)
  \/ FirstUnassigned(a, CLAUSES[j]) = 0

Scans(j, z, a, st) ==
  LET l == FirstUnassigned(a, CLAUSES[j])
  IN  IF j > N_CLAUSES THEN <<"decide", j, z, a, st, "none">>
      ELSE IF Quiet(j, z, a) THEN <<"bcp", j + 1, z, a, st, "none">>
      ELSE <<IF Completed(z, l) = {} THEN "bcp" ELSE "conflict", 1,
             Counted(z, l), With(a, l), Pushed(st, l, "IMPLIED"), "none">>

Decides(j, z, a, st) ==
  LET free == {v \in Var : a[v] = UNASSIGNED}
      l    == -(CHOOSE v \in free : \A u \in free : v <= u)
  IN  IF free = {} THEN <<"printed", j, z, a, st, "SAT">>
      ELSE <<"bcp", 1, Counted(z, l), With(a, l), Pushed(st, l, "TRIED_ONE_WAY"), "none">>

Uncounted(z, a, P) ==
  [c \in DOMAIN CLAUSES |->
     z[c] - Cardinality({l \in Range(CLAUSES[c]) : VarOf(l) \in P /\ LitTrue(a, -l)})]

Resolves(z, a, st) ==
  LET k == SelectLastInSeq(st, LAMBDA d : d.type = "TRIED_ONE_WAY")
      y == Uncounted(z, a, VarsFrom(st, k))
      l == -st[k].var
  IN  IF k = 0
        THEN <<"printed", 1, Uncounted(z, a, VarsFrom(st, 1)), Without(a, VarsFrom(st, 1)),
               <<>>, "UNSAT">>
        ELSE <<IF Completed(y, l) = {} THEN "bcp" ELSE "printed", 1, Counted(y, l),
               With(Without(a, VarsFrom(st, k)), l),
               Pushed(SubSeq(st, 1, k - 1), l, "TRIED_BOTH_WAYS"),
               IF Completed(y, l) = {} THEN "none" ELSE "UNSAT">>

Places ==
  {"bcp", "conflict", "decide", "printed"} \X (1 .. N_CLAUSES + 1) \X CountsFor
     \X Assignment \X Seq(Decision) \X {"none", "SAT", "UNSAT"}
Ends  == {s \in Places : s[1] = "printed"}
Moves ==
  [s \in Places |->
     CASE s[1] = "bcp"      -> Scans(s[2], s[3], s[4], s[5])
       [] s[1] = "decide"   -> Decides(s[2], s[3], s[4], s[5])
       [] s[1] = "conflict" -> Resolves(s[3], s[4], s[5])]
Origin ==
  <<"bcp", 1, [c \in DOMAIN CLAUSES |-> 0], [v \in Var |-> UNASSIGNED], <<>>, "none">>

Printed == IF pc = "printed" THEN Last(answers) ELSE "none"
Place   == <<pc, i, n_zeros, ASSIGNMENT, DECISION_STACK, Printed>>

LEMMA PlaceType == IInv => Place \in Places
<1> SUFFICES ASSUME IInv PROVE Place \in Places
  OBVIOUS
<1>1. Printed \in {"none", "SAT", "UNSAT"}
  <2>1. answers \in Seq({"SAT", "UNSAT"}) /\ (pc = "printed" => answers # <<>>)
    BY DEF IInv, Control
  <2>2. CASE pc = "printed"
    <3>1. Len(answers) \in 1 .. Len(answers)
      BY <2>1, <2>2, LenProperties, EmptySeq
    <3>2. answers[Len(answers)] \in {"SAT", "UNSAT"}
      BY <2>1, <3>1, ElementOfSeq
    <3> QED
      BY <2>2, <3>2 DEF Printed, Last
  <2> QED
    BY <2>2 DEF Printed
<1> QED
  BY <1>1, KeptTypes DEF IInv, Control, Place, Places

LEMMA PlaceTypeNext == (IInv => Place \in Places)'
BY PlaceType, PTL

LEMMA OriginType == CLAUSES \in Inputs => Origin \in Places
<1> SUFFICES ASSUME CLAUSES \in Inputs PROVE Origin \in Places
  OBVIOUS
<1>1. /\ CLAUSES \in Seq(Seq(Literal))
      /\ [v \in Var |-> UNASSIGNED] \in Assignment /\ [c \in DOMAIN CLAUSES |-> 0] \in CountsFor
  BY Starting
<1>2. 1 \in 1 .. N_CLAUSES + 1 /\ <<>> \in Seq(Decision)
  BY <1>1, LenProperties, EmptySeq DEF N_CLAUSES
<1> QED
  BY <1>1, <1>2 DEF Origin, Places

LEMMA PlacesStay ==
  ASSUME UNCHANGED CLAUSES
  PROVE  Places' = Places /\ Ends' = Ends /\ Moves' = Moves /\ Origin' = Origin
BY DEF Places, Ends, Moves, Origin, N_CLAUSES, CountsFor, Scans, Quiet, Decides, Resolves,
       Uncounted, Completed, Counted, LIT_TO_CLAUSES

\* The place after an answer, and after a step that prints nothing.
LEMMA PrintedIs ==
  /\ IInv /\ pc # "printed" => Printed = "none"
  /\ pc' # "printed" => Printed' = "none"
  /\ \A what \in {"SAT", "UNSAT"} :
       IInv /\ pc # "printed" /\ Answer(what) => pc' = "printed" /\ Printed' = what
<1>1. ASSUME NEW what \in {"SAT", "UNSAT"}, IInv, pc # "printed", Answer(what)
      PROVE  pc' = "printed" /\ Printed' = what
  <2>1. pc' = "printed" /\ answers' = Append(answers, what) /\ answers \in Seq({"SAT", "UNSAT"})
    BY <1>1 DEF Answer, IInv, Control
  <2>2. Last(Append(answers, what)) = what
    <3>1. Len(Append(answers, what)) = Len(answers) + 1 /\ Len(answers) \in Nat
          /\ Append(answers, what)[Len(answers) + 1] = what
      BY <2>1, AppendProperties, LenProperties
    <3> QED
      BY <3>1 DEF Last
  <2> QED
    BY <2>1, <2>2 DEF Printed
<1> QED
  BY <1>1 DEF Printed

LEMMA PlaceSteps ==
  ASSUME IInv, pc # "printed"
  PROVE  /\ Place \in Places \ Ends
         /\ Moves[Place] = CASE pc = "bcp"      -> Scans(i, n_zeros, ASSIGNMENT, DECISION_STACK)
                             [] pc = "decide"   -> Decides(i, n_zeros, ASSIGNMENT, DECISION_STACK)
                             [] pc = "conflict" -> Resolves(n_zeros, ASSIGNMENT, DECISION_STACK)
<1>1. Place \in Places
  BY PlaceType
<1>2. /\ Place[1] = pc /\ Place[2] = i /\ Place[3] = n_zeros /\ Place[4] = ASSIGNMENT
      /\ Place[5] = DECISION_STACK
  BY DEF Place
<1> HIDE DEF Place
<1> QED
  BY <1>1, <1>2 DEF Moves, Ends

LEMMA BcpMoves ==
  IInv /\ (BcpSkip \/ BcpForce \/ BcpDone) => Place' = Moves[Place]
<1> SUFFICES ASSUME IInv, BcpSkip \/ BcpForce \/ BcpDone PROVE Place' = Moves[Place]
  OBVIOUS
<1>1. Kept /\ Control /\ pc = "bcp" /\ UNCHANGED CLAUSES
  BY DEF IInv, BcpSkip, BcpForce, BcpDone, Scanning, cvars
<1>2. Moves[Place] = Scans(i, n_zeros, ASSIGNMENT, DECISION_STACK)
  BY <1>1, PlaceSteps
<1>3. i \in Nat /\ N_CLAUSES \in Nat
  BY <1>1, KeptTypes, LenProperties DEF Control, N_CLAUSES
<1>4. forced_lit = FirstUnassigned(ASSIGNMENT, CLAUSES[i])
  BY DEF forced_lit, FirstUnassigned, SelectInSeq, Unassigned
<1>5. Quiet(i, n_zeros, ASSIGNMENT) <=> ~LooksUnit \/ foundTrue \/ forced_lit = 0
  BY <1>4 DEF Quiet, LooksUnit, foundTrue, is_lit_true, LitTrue, Value
<1>6. CASE BcpSkip
  <2>1. ~(i > N_CLAUSES) /\ Quiet(i, n_zeros, ASSIGNMENT)
    BY <1>3, <1>5, <1>6 DEF BcpSkip, Scanning
  <2>2. Scans(i, n_zeros, ASSIGNMENT, DECISION_STACK)
          = <<"bcp", i + 1, n_zeros, ASSIGNMENT, DECISION_STACK, "none">>
    BY <2>1 DEF Scans
  <2>3. /\ pc' = "bcp" /\ i' = i + 1 /\ n_zeros' = n_zeros /\ ASSIGNMENT' = ASSIGNMENT
        /\ DECISION_STACK' = DECISION_STACK /\ Printed' = "none"
    BY <1>1, <1>6 DEF BcpSkip, cvars, Printed
  <2> QED
    BY <1>2, <2>2, <2>3 DEF Place
<1>7. CASE BcpForce
  <2>1. ~(i > N_CLAUSES) /\ ~Quiet(i, n_zeros, ASSIGNMENT)
    BY <1>3, <1>5, <1>7 DEF BcpForce, Scanning
  <2>2. PICK l : l = forced_lit
    OBVIOUS
  <2>3. Scans(i, n_zeros, ASSIGNMENT, DECISION_STACK)
          = <<IF Completed(n_zeros, l) = {} THEN "bcp" ELSE "conflict", 1, Counted(n_zeros, l),
              With(ASSIGNMENT, l), Pushed(DECISION_STACK, l, "IMPLIED"), "none">>
    BY <2>1, <2>2, <1>4 DEF Scans
  <2>4. /\ pc' = (IF Completed(n_zeros, l) = {} THEN "bcp" ELSE "conflict") /\ i' = 1
        /\ set_literal(ASSIGNMENT, DECISION_STACK, n_zeros, l, "IMPLIED")
    BY <1>7, <2>2 DEF BcpForce
  <2>5. n_zeros' = Counted(n_zeros, l) /\ ASSIGNMENT' = With(ASSIGNMENT, l)
        /\ DECISION_STACK' = Pushed(DECISION_STACK, l, "IMPLIED") /\ Printed' = "none"
    BY <2>4 DEF set_literal, With, Value, Pushed, Printed
  <2> QED
    BY <1>2, <2>3, <2>4, <2>5 DEF Place
<1>8. CASE BcpDone
  <2>1. i > N_CLAUSES /\ pc' = "decide" /\ UNCHANGED <<cvars, i, answers>>
    BY <1>8 DEF BcpDone
  <2>2. Scans(i, n_zeros, ASSIGNMENT, DECISION_STACK)
          = <<"decide", i, n_zeros, ASSIGNMENT, DECISION_STACK, "none">>
    BY <2>1 DEF Scans
  <2>3. /\ n_zeros' = n_zeros /\ ASSIGNMENT' = ASSIGNMENT
        /\ DECISION_STACK' = DECISION_STACK /\ Printed' = "none" /\ i' = i
    BY <2>1 DEF cvars, Printed
  <2> QED
    BY <1>2, <2>1, <2>2, <2>3 DEF Place
<1> QED
  BY <1>6, <1>7, <1>8

LEMMA DecideMoves == IInv /\ decide => Place' = Moves[Place]
<1> SUFFICES ASSUME IInv, decide PROVE Place' = Moves[Place]
  OBVIOUS
<1>1. Kept /\ Control /\ pc = "decide" /\ UNCHANGED CLAUSES
  BY DEF IInv, decide
<1>2. Moves[Place] = Decides(i, n_zeros, ASSIGNMENT, DECISION_STACK)
  BY <1>1, PlaceSteps
<1> DEFINE free == {v \in Var : ASSIGNMENT[v] = UNASSIGNED}
<1>3. CASE free = {}
  <2>1. Answer("SAT") /\ UNCHANGED <<n_zeros, ASSIGNMENT, DECISION_STACK, i>>
    BY <1>3 DEF decide
  <2>2. pc' = "printed" /\ Printed' = "SAT"
    BY <1>1, <2>1, PrintedIs
  <2>3. Decides(i, n_zeros, ASSIGNMENT, DECISION_STACK)
          = <<"printed", i, n_zeros, ASSIGNMENT, DECISION_STACK, "SAT">>
    BY <1>3 DEF Decides
  <2> QED
    BY <1>2, <2>1, <2>2, <2>3 DEF Place
<1>4. CASE free # {}
  <2>1. PICK v \in free :
          /\ \A u \in free : v <= u
          /\ set_literal(ASSIGNMENT, DECISION_STACK, n_zeros, -v, "TRIED_ONE_WAY")
          /\ pc' = IF Completed(n_zeros, -v) = {} THEN "bcp" ELSE "abort"
          /\ i' = 1
    BY <1>4 DEF decide
  <2>2. v = CHOOSE w \in free : \A u \in free : w <= u
    <3>1. ASSUME NEW w \in free, \A u \in free : w <= u PROVE w = v
      BY <2>1, <3>1, Literals
    <3> HIDE DEF free
    <3> QED
      BY <2>1, <3>1
  <2>3. PICK l : l = -v
    OBVIOUS
  <2>4. l \in Literal /\ VarOf(l) = v /\ ASSIGNMENT[VarOf(l)] = UNASSIGNED
    BY <2>1, <2>3, Literals
  <2>5. pc' = "bcp"
    BY <1>1, <2>1, <2>3, <2>4, NoneCompleted
  <2>6. Decides(i, n_zeros, ASSIGNMENT, DECISION_STACK)
          = <<"bcp", 1, Counted(n_zeros, l), With(ASSIGNMENT, l),
              Pushed(DECISION_STACK, l, "TRIED_ONE_WAY"), "none">>
    BY <1>4, <2>2, <2>3 DEF Decides
  <2>7. n_zeros' = Counted(n_zeros, l) /\ ASSIGNMENT' = With(ASSIGNMENT, l)
        /\ DECISION_STACK' = Pushed(DECISION_STACK, l, "TRIED_ONE_WAY") /\ Printed' = "none"
    BY <2>1, <2>3, <2>5 DEF set_literal, With, Value, Pushed, Printed
  <2> QED
    BY <1>2, <2>1, <2>5, <2>6, <2>7 DEF Place
<1> QED
  BY <1>3, <1>4

LEMMA ResolveMoves == IInv /\ resolveConflict => Place' = Moves[Place]
<1> SUFFICES ASSUME IInv, resolveConflict PROVE Place' = Moves[Place]
  OBVIOUS
<1>1. Kept /\ Control /\ pc = "conflict" /\ UNCHANGED CLAUSES /\ i' = 1
  BY DEF IInv, resolveConflict
<1>2. Moves[Place] = Resolves(n_zeros, ASSIGNMENT, DECISION_STACK)
  BY <1>1, PlaceSteps
<1>3. LastOpen = SelectLastInSeq(DECISION_STACK, LAMBDA d : d.type = "TRIED_ONE_WAY")
  BY DEF LastOpen, SelectLastInSeq, IsOpen
<1>4. \A k : /\ UnsetZeros(k) = Uncounted(n_zeros, ASSIGNMENT, VarsFrom(DECISION_STACK, k))
             /\ UnsetAssignment(k) = Without(ASSIGNMENT, VarsFrom(DECISION_STACK, k))
  BY DEF UnsetZeros, Uncounted, UnsetAssignment, Without, Popped, VarsFrom, is_lit_true,
         LitTrue, Value
<1>5. CASE LastOpen = 0
  <2>1. /\ ASSIGNMENT' = UnsetAssignment(1) /\ DECISION_STACK' = <<>>
        /\ n_zeros' = UnsetZeros(1) /\ Answer("UNSAT")
    BY <1>5 DEF resolveConflict
  <2>2. pc' = "printed" /\ Printed' = "UNSAT"
    BY <1>1, <2>1, PrintedIs
  <2>3. Resolves(n_zeros, ASSIGNMENT, DECISION_STACK)
          = <<"printed", 1, UnsetZeros(1), UnsetAssignment(1), <<>>, "UNSAT">>
    BY <1>3, <1>4, <1>5 DEF Resolves
  <2> QED
    BY <1>1, <1>2, <2>1, <2>2, <2>3 DEF Place
<1>6. CASE LastOpen # 0
  <2>1. PICK k \in 1 .. Len(DECISION_STACK) : k = LastOpen
    BY <1>1, <1>6, KeptTypes, LastOpenIs
  <2>2. PICK l : l = -DECISION_STACK[k].var
    OBVIOUS
  <2>3. /\ set_literal(UnsetAssignment(k), SubSeq(DECISION_STACK, 1, k - 1),
                      UnsetZeros(k), l, "TRIED_BOTH_WAYS")
        /\ IF Completed(UnsetZeros(k), l) = {}
             THEN pc' = "bcp" /\ UNCHANGED answers ELSE Answer("UNSAT")
    BY <1>1, <2>1, <2>2, Reassigning
  <2>4. /\ n_zeros' = Counted(UnsetZeros(k), l) /\ ASSIGNMENT' = With(UnsetAssignment(k), l)
        /\ DECISION_STACK' = Pushed(SubSeq(DECISION_STACK, 1, k - 1), l, "TRIED_BOTH_WAYS")
    BY <2>3 DEF set_literal, With, Value, Pushed
  <2>5. /\ pc' = (IF Completed(UnsetZeros(k), l) = {} THEN "bcp" ELSE "printed")
        /\ Printed' = (IF Completed(UnsetZeros(k), l) = {} THEN "none" ELSE "UNSAT")
    BY <1>1, <2>3, PrintedIs
  <2>6. Resolves(n_zeros, ASSIGNMENT, DECISION_STACK)
          = <<IF Completed(UnsetZeros(k), l) = {} THEN "bcp" ELSE "printed", 1,
              Counted(UnsetZeros(k), l), With(UnsetAssignment(k), l),
              Pushed(SubSeq(DECISION_STACK, 1, k - 1), l, "TRIED_BOTH_WAYS"),
              IF Completed(UnsetZeros(k), l) = {} THEN "none" ELSE "UNSAT">>
    <3>1. k # 0 /\ k = SelectLastInSeq(DECISION_STACK, LAMBDA d : d.type = "TRIED_ONE_WAY")
      BY <1>3, <1>6, <2>1
    <3> QED
      BY <1>4, <2>2, <3>1 DEF Resolves
  <2> QED
    BY <1>1, <1>2, <2>4, <2>5, <2>6 DEF Place
<1> QED
  BY <1>5, <1>6

-----------------------------------------------------------------------------
(* Every run walks the same places *)

Walk == Reached(Places, Ends, Moves, Origin)
Same ==
  /\ Place \in Walk
  /\ \A r \in DOMAIN answers : \E s \in Walk \cap Ends : s[6] = answers[r]

LEMMA Moving ==
  ASSUME IInv, IInv', Same, UNCHANGED CLAUSES, pc # "printed", Place' = Moves[Place]
  PROVE  Place' \in Walk /\ Walk' = Walk
<1>1. Place \in Places \ Ends /\ Place' \in Places
  <2>1. Place' \in Places'
    BY PlaceTypeNext
  <2> QED
    BY <2>1, PlaceSteps, PlacesStay
<1>2. Origin \in Places
  BY OriginType DEF IInv, Control
<1>3. Closed(Places, Ends, Moves, Walk)
  BY <1>2, Walks DEF Walk
<1>4. Walk' = Walk
  BY PlacesStay DEF Walk, Reached, Closed
<1> QED
  BY <1>1, <1>3, <1>4 DEF Same, Closed

LEMMA SameSteps == IInv /\ IInv' /\ Same /\ [Next]_vars => Same'
<1> SUFFICES ASSUME IInv, IInv', Same, [Next]_vars PROVE Same'
  OBVIOUS
<1>1. CASE UNCHANGED vars
  <2>1. UNCHANGED CLAUSES /\ Place' = Place /\ answers' = answers
    BY <1>1 DEF vars, cvars, Place, Printed
  <2>2. Walk' = Walk
    BY <2>1, PlacesStay DEF Walk, Reached, Closed
  <2>3. Ends' = Ends
    BY <2>1, PlacesStay
  <2> QED
    BY <2>1, <2>2, <2>3 DEF Same
<1>2. CASE BcpSkip \/ BcpForce \/ BcpDone
  <2>1. UNCHANGED CLAUSES /\ answers' = answers /\ pc # "printed"
    BY <1>2 DEF BcpSkip, BcpForce, BcpDone, Scanning, cvars
  <2>2. Place' \in Walk /\ Walk' = Walk /\ Ends' = Ends
    BY <1>2, <2>1, BcpMoves, Moving, PlacesStay
  <2> QED
    BY <2>1, <2>2 DEF Same
<1>3. CASE decide \/ resolveConflict
  <2>1. UNCHANGED CLAUSES /\ pc # "printed"
        /\ (answers' = answers \/ \E what \in {"SAT", "UNSAT"} : Answer(what))
    BY <1>3 DEF decide, resolveConflict
  <2>2. Place' \in Walk /\ Walk' = Walk /\ Ends' = Ends
    BY <1>3, <2>1, DecideMoves, ResolveMoves, Moving, PlacesStay
  <2>3. CASE answers' = answers
    BY <2>2, <2>3 DEF Same
  <2>4. ASSUME NEW what \in {"SAT", "UNSAT"}, Answer(what) PROVE Same'
    <3>1. pc' = "printed" /\ Printed' = what /\ answers' = Append(answers, what)
      BY <2>1, <2>4, PrintedIs DEF Answer
    <3>2. Place' \in Ends /\ Place'[6] = what
      <4>1. Place' \in Places'
        BY PlaceTypeNext
      <4>2. Place'[1] = "printed" /\ Place'[6] = what
        BY <3>1 DEF Place
      <4> QED
        BY <2>1, <4>1, <4>2, PlacesStay DEF Ends
    <3>3. answers \in Seq({"SAT", "UNSAT"})
      BY DEF IInv, Control
    <3>4. ASSUME NEW r \in DOMAIN answers' PROVE \E s \in Walk \cap Ends : s[6] = answers'[r]
      <4>1. DOMAIN answers = 1 .. Len(answers) /\ Len(answers) \in Nat
        BY <3>3, LenProperties
      <4>2. DOMAIN answers' = 1 .. Len(answers) + 1
        BY <3>1, <3>3, <4>1, AppendProperties, LenProperties
      <4>3. r = Len(answers) + 1 => answers'[r] = what
        BY <3>1, <3>3, AppendProperties
      <4>4. r # Len(answers) + 1 => r \in DOMAIN answers /\ answers'[r] = answers[r]
        BY <3>1, <3>3, <4>1, <4>2, AppendProperties
      <4> QED
        BY <2>2, <3>2, <4>3, <4>4 DEF Same
    <3> QED
      BY <2>2, <3>4 DEF Same
  <2> QED
    BY <2>1, <2>3, <2>4
<1>4. CASE NextRun
  <2>1. UNCHANGED CLAUSES /\ answers' = answers /\ Place' = Origin /\ CLAUSES \in Inputs
    BY <1>4 DEF NextRun, Place, Printed, Origin, IInv, Control
  <2>2. Walk' = Walk /\ Ends' = Ends
    BY <2>1, PlacesStay DEF Walk, Reached, Closed
  <2>3. Place' \in Walk
    BY <2>1, OriginType, Walks DEF Walk
  <2> QED
    BY <2>1, <2>2, <2>3 DEF Same
<1> QED
  BY <1>1, <1>2, <1>3, <1>4 DEF Next

LEMMA SameStart == Init => Same
<1> SUFFICES ASSUME Init PROVE Same
  OBVIOUS
<1>1. CLAUSES \in Inputs /\ Place = Origin /\ answers = <<>>
  BY DEF Init, InitCounters, Place, Printed, Origin
<1>2. DOMAIN answers = {}
  BY <1>1
<1> QED
  BY <1>1, <1>2, OriginType, Walks DEF Walk, Same

(* Every run of loop.c prints what the first one did. *)
THEOREM RunsAgree == Spec => []SameAnswer
<1>1. IInv /\ Same => SameAnswer
  <2> SUFFICES ASSUME IInv, Same, NEW r \in DOMAIN answers PROVE answers[r] = answers[1]
    BY DEF SameAnswer
  <2>1. 1 \in DOMAIN answers
    BY LenProperties DEF IInv, Control
  <2>2. PICK s \in Walk \cap Ends : s[6] = answers[r]
    BY DEF Same
  <2>3. PICK t \in Walk \cap Ends : t[6] = answers[1]
    BY <2>1 DEF Same
  <2>4. Origin \in Places
    BY OriginType DEF IInv, Control
  <2>5. s = t
    BY <2>4, OneEnd DEF Walk
  <2> QED
    BY <2>2, <2>3, <2>5
<1> QED
  BY <1>1, SameStart, SameSteps, Invariance, PTL DEF Spec

-----------------------------------------------------------------------------
(* The script of a run: the literals that are set until a clause is          *)
(* falsified.  After that the run repeats them, as resolveConflict gives a   *)
(* decision the value it had, and never gets beyond them.                    *)

AllNeg(M, c) == \A m \in Range(CLAUSES[c]) : -m \in M
UnitFor(M, c, l) ==
  /\ l \in Range(CLAUSES[c]) /\ l \notin M /\ -l \notin M
  /\ \A m \in Range(CLAUSES[c]) \ {l} : -m \in M
IsUnit(M, c) == \E l \in Literal : UnitFor(M, c, l)

\* What the solver sets next when the literals of M are true: what the first
\* unit clause implies, or the least variable to FALSE.
Chosen(M, l) ==
  \/ \E c \in DOMAIN CLAUSES :
       UnitFor(M, c, l) /\ \A d \in DOMAIN CLAUSES : d < c => ~IsUnit(M, d)
  \/ /\ \A d \in DOMAIN CLAUSES : ~IsUnit(M, d)
     /\ -l \in Var /\ l \notin M /\ -l \notin M
     /\ \A v \in Var : v \notin M /\ -v \notin M => -l <= v

Upto(T, n) == {T[j] : j \in 1 .. n}
Script(T)  == \A n \in 1 .. Len(T) : Chosen(Upto(T, n - 1), T[n])

\* The assignment and the stack hold the first entries of T.
Follows(T, a, st) ==
  /\ Len(st) <= Len(T)
  /\ \A l \in Literal : LitTrue(a, l) <=> l \in Upto(T, Len(st))
  /\ \A j \in 1 .. Len(st) : st[j].var = VarOf(T[j])

LEMMA ChosenOnce ==
  ASSUME CLAUSES \in Seq(Seq(Literal)), NEW M, NEW l \in Literal, NEW m \in Literal,
         Chosen(M, l), Chosen(M, m)
  PROVE  l = m
<1>1. DOMAIN CLAUSES \subseteq Nat
  BY LenProperties
<1>2. ASSUME NEW c, UnitFor(M, c, l), UnitFor(M, c, m) PROVE l = m
  BY <1>2 DEF UnitFor
<1>3. CASE \A d \in DOMAIN CLAUSES : ~IsUnit(M, d)
  <2>1. /\ -l \in Var /\ l \notin M /\ -l \notin M
        /\ \A v \in Var : v \notin M /\ -v \notin M => -l <= v
    BY <1>3 DEF Chosen, IsUnit
  <2>2. /\ -m \in Var /\ m \notin M /\ -m \notin M
        /\ \A v \in Var : v \notin M /\ -v \notin M => -m <= v
    BY <1>3 DEF Chosen, IsUnit
  <2>3. -(-l) = l /\ -(-m) = m /\ l \in Int /\ m \in Int
    BY Literals
  <2>4. -l <= -m /\ -m <= -l
    BY <2>1, <2>2, <2>3
  <2> QED
    BY <2>3, <2>4
<1>4. CASE ~ \A d \in DOMAIN CLAUSES : ~IsUnit(M, d)
  <2>1. PICK c \in DOMAIN CLAUSES :
          UnitFor(M, c, l) /\ \A d \in DOMAIN CLAUSES : d < c => ~IsUnit(M, d)
    BY <1>4 DEF Chosen
  <2>2. PICK e \in DOMAIN CLAUSES :
          UnitFor(M, e, m) /\ \A d \in DOMAIN CLAUSES : d < e => ~IsUnit(M, d)
    BY <1>4 DEF Chosen
  <2>3. c = e
    <3>1. IsUnit(M, c) /\ IsUnit(M, e)
      BY <2>1, <2>2 DEF IsUnit
    <3>2. ~(c < e) /\ ~(e < c)
      BY <2>1, <2>2, <3>1
    <3>3. c \in Nat /\ e \in Nat
      BY <1>1
    <3> QED
      BY <3>2, <3>3
  <2> QED
    BY <1>2, <2>1, <2>2, <2>3
<1> QED
  BY <1>3, <1>4

LEMMA ChosenFree ==
  ASSUME NEW M, NEW l, Chosen(M, l)
  PROVE  l \notin M /\ -l \notin M
BY DEF Chosen, UnitFor

\* A script sets no variable twice.
LEMMA Distinct ==
  ASSUME NEW T \in Seq(Literal), Script(T), NEW n \in 1 .. Len(T), NEW j \in 1 .. n - 1
  PROVE  VarOf(T[j]) # VarOf(T[n]) /\ T[j] # T[n]
<1>1. Len(T) \in Nat /\ T[n] \in Literal /\ j \in 1 .. Len(T) /\ T[j] \in Literal
  BY LenProperties, ElementOfSeq
<1>2. T[n] \notin Upto(T, n - 1) /\ -T[n] \notin Upto(T, n - 1)
  BY ChosenFree DEF Script
<1>3. T[j] \in Upto(T, n - 1)
  BY DEF Upto
<1>4. T[j] # T[n] /\ T[j] # -T[n]
  BY <1>2, <1>3
<1> QED
  BY <1>1, <1>4, Literals

LEMMA Extending ==
  ASSUME NEW T \in Seq(Literal), Script(T), NEW l \in Literal, Chosen(Upto(T, Len(T)), l)
  PROVE  LET R == Append(T, l)
         IN  /\ R \in Seq(Literal) /\ Len(R) = Len(T) + 1 /\ R[Len(T) + 1] = l
             /\ Script(R) /\ Len(T) \in Nat
             /\ \A j \in 1 .. Len(T) : R[j] = T[j]
             /\ \A n \in 0 .. Len(T) : Upto(R, n) = Upto(T, n)
<1> DEFINE R == Append(T, l)
<1>1. /\ R \in Seq(Literal) /\ Len(R) = Len(T) + 1 /\ R[Len(T) + 1] = l /\ Len(T) \in Nat
      /\ \A j \in 1 .. Len(T) : R[j] = T[j]
  BY AppendProperties, LenProperties
<1> HIDE DEF R
<1>2. \A n \in 0 .. Len(T) : Upto(R, n) = Upto(T, n)
  BY <1>1 DEF Upto
<1>3. ASSUME NEW n \in 1 .. Len(R) PROVE Chosen(Upto(R, n - 1), R[n])
  <2>1. n - 1 \in 0 .. Len(T) /\ Upto(R, n - 1) = Upto(T, n - 1)
    BY <1>1, <1>2
  <2>2. CASE n = Len(T) + 1
    <3>1. n - 1 = Len(T) /\ R[n] = l
      BY <1>1, <2>2
    <3> QED
      BY <2>1, <3>1
  <2>3. CASE n \in 1 .. Len(T)
    BY <1>1, <2>1, <2>3 DEF Script
  <2> QED
    BY <1>1, <2>2, <2>3
<1>4. Script(R)
  BY <1>3 DEF Script
<1> QED
  BY <1>1, <1>2, <1>4 DEF R

LEMMA UptoNext ==
  ASSUME NEW T, NEW n \in Nat
  PROVE  Upto(T, n + 1) = Upto(T, n) \cup {T[n + 1]}
BY DEF Upto

\* Setting the literal that comes next.
LEMMA FollowsPush ==
  ASSUME NEW T \in Seq(Literal), NEW a \in Assignment, NEW st \in Seq(Decision),
         Follows(T, a, st), Len(st) < Len(T),
         NEW l \in Literal, l = T[Len(st) + 1], a[VarOf(l)] = UNASSIGNED, NEW type
  PROVE  Follows(T, With(a, l), Pushed(st, l, type)) /\ Len(Pushed(st, l, type)) = Len(st) + 1
<1> DEFINE s == Pushed(st, l, type)
<1>1. /\ Len(s) = Len(st) + 1 /\ Len(st) \in Nat /\ Len(T) \in Nat
      /\ s[Len(st) + 1].var = VarOf(l) /\ \A j \in 1 .. Len(st) : s[j] = st[j]
  BY AppendProperties, LenProperties DEF Pushed
<1> HIDE DEF s
<1>2. \A j \in 1 .. Len(s) : s[j].var = VarOf(T[j])
  BY <1>1 DEF Follows
<1>3. ASSUME NEW m \in Literal PROVE LitTrue(With(a, l), m) <=> m \in Upto(T, Len(s))
  <2>1. LitTrue(With(a, l), m) <=> LitTrue(a, m) \/ m = l
    <3>1. /\ VarOf(l) \in Var /\ VarOf(m) \in Var /\ Value(m) \in {TRUE_, FALSE_}
          /\ Value(-l) # Value(l) /\ (VarOf(m) = VarOf(l) => m = l \/ m = -l)
      BY Literals
    <3>2. With(a, l)[VarOf(m)] = IF VarOf(m) = VarOf(l) THEN Value(l) ELSE a[VarOf(m)]
      BY <3>1 DEF With, Assignment
    <3>3. UNASSIGNED \notin {TRUE_, FALSE_}
      BY DEF UNASSIGNED, TRUE_, FALSE_
    <3> QED
      BY <3>1, <3>2, <3>3 DEF LitTrue
  <2>2. Upto(T, Len(s)) = Upto(T, Len(st)) \cup {l}
    BY <1>1, UptoNext
  <2> QED
    BY <2>1, <2>2 DEF Follows
<1> QED
  BY <1>1, <1>2, <1>3 DEF Follows, s

\* Taking back the entries from the k-th on.
LEMMA FollowsPop ==
  ASSUME NEW T \in Seq(Literal), Script(T), NEW a \in Assignment, NEW st \in Seq(Decision),
         Follows(T, a, st), NEW k \in 1 .. Len(st)
  PROVE  /\ Follows(T, Without(a, VarsFrom(st, k)), SubSeq(st, 1, k - 1))
         /\ Len(SubSeq(st, 1, k - 1)) = k - 1
<1> DEFINE s == SubSeq(st, 1, k - 1)
           b == Without(a, VarsFrom(st, k))
<1>1. /\ Len(st) \in Nat /\ Len(T) \in Nat /\ Len(st) <= Len(T) /\ k \in Nat
      /\ \A j \in 1 .. Len(T) : T[j] \in Literal
  BY LenProperties, ElementOfSeq DEF Follows
<1>2. Len(s) = k - 1 /\ \A j \in 1 .. k - 1 : s[j] = st[j]
  BY <1>1, SubSeqProperties
<1>3. ASSUME NEW m \in Literal PROVE LitTrue(b, m) <=> m \in Upto(T, k - 1)
  <2>1. VarOf(m) \in Var /\ Value(m) # UNASSIGNED
    BY Literals DEF UNASSIGNED, TRUE_, FALSE_
  <2>2. LitTrue(b, m) <=> LitTrue(a, m) /\ VarOf(m) \notin VarsFrom(st, k)
    BY <2>1 DEF LitTrue, Without
  <2>3. LitTrue(a, m) <=> \E j \in 1 .. Len(st) : m = T[j]
    BY DEF Follows, Upto
  <2>4. VarOf(m) \in VarsFrom(st, k) <=> \E n \in k .. Len(st) : VarOf(m) = VarOf(T[n])
    BY <1>1 DEF VarsFrom, Follows
  <2>5. ASSUME NEW j \in 1 .. k - 1, NEW n \in k .. Len(st) PROVE VarOf(T[j]) # VarOf(T[n])
    <3>1. n \in 1 .. Len(T) /\ j \in 1 .. n - 1
      BY <1>1
    <3> QED
      BY <3>1, Distinct
  <2>6. m \in Upto(T, k - 1) <=> \E j \in 1 .. k - 1 : m = T[j]
    BY DEF Upto
  <2> QED
    BY <1>1, <2>2, <2>3, <2>4, <2>5, <2>6
<1> HIDE DEF s, b
<1>4. \A j \in 1 .. k - 1 : s[j].var = VarOf(T[j])
  BY <1>1, <1>2 DEF Follows
<1> QED
  BY <1>1, <1>2, <1>3, <1>4 DEF Follows, s, b

\* What is unassigned is not among the literals that are true.
LEMMA FreeMeans ==
  ASSUME NEW a \in Assignment, NEW M, \A l \in Literal : LitTrue(a, l) <=> l \in M,
         NEW l \in Literal
  PROVE  a[VarOf(l)] = UNASSIGNED <=> l \notin M /\ -l \notin M
<1>1. /\ VarOf(l) \in Var /\ -l \in Literal /\ VarOf(-l) = VarOf(l)
      /\ {Value(l), Value(-l)} = {TRUE_, FALSE_}
  BY Literals DEF TRUE_, FALSE_
<1>2. a[VarOf(l)] \in {UNASSIGNED, TRUE_, FALSE_} /\ UNASSIGNED \notin {TRUE_, FALSE_}
  BY <1>1 DEF Assignment, UNASSIGNED, TRUE_, FALSE_
<1> QED
  BY <1>1, <1>2 DEF LitTrue

-----------------------------------------------------------------------------
(* Following the script *)

NoneLost(T, n) ==
  \A k \in 0 .. n : \A c \in DOMAIN CLAUSES : ~AllNeg(Upto(T, k), c)

\* No clause is falsified, and every count is right.
Fresh(T, a, st, z) ==
  /\ Len(st) = Len(T) /\ NoneLost(T, Len(T))
  /\ \A c \in DOMAIN CLAUSES : Exact(a, z, c)

\* The last literal of the script falsifies clauses, c0 the first of them; set_literal
\* stopped counting there.
Doomed(T, a, z) ==
  /\ Len(T) # 0 /\ NoneLost(T, Len(T) - 1)
  /\ \E c0 \in DOMAIN CLAUSES :
       /\ AllNeg(Upto(T, Len(T)), c0)
       /\ \A c \in DOMAIN CLAUSES : AllNeg(Upto(T, Len(T)), c) => c0 <= c
       /\ \A c \in DOMAIN CLAUSES :
            Exact(a, z, c) \/ (c0 < c /\ -T[Len(T)] \in Range(CLAUSES[c]))

On(T, a, st) == T \in Seq(Literal) /\ Script(T) /\ Follows(T, a, st)

\* A clause is as long as it has literals, and a unit clause is one false literal short.
Distinctly == CLAUSES \in Seq(Seq(Literal)) /\ \A c \in DOMAIN CLAUSES : IsInjective(CLAUSES[c])

LEMMA InjectiveSize ==
  ASSUME NEW s \in Seq(Literal), IsInjective(s)
  PROVE  Cardinality(Range(s)) = Len(s)
<1>1. /\ Len(s) \in Nat /\ DOMAIN s = 1 .. Len(s) /\ s \in [1 .. Len(s) -> Range(s)]
      /\ IsFiniteSet(Range(s)) /\ Cardinality(Range(s)) \in Nat
      /\ Cardinality(Range(s)) <= Len(s)
  <2>1. Len(s) \in Nat /\ DOMAIN s = 1 .. Len(s) /\ s \in [1 .. Len(s) -> Literal]
    BY LenProperties
  <2> QED
    BY <2>1, ClauseSize DEF Range
<1>2. IsFiniteSet(1 .. Len(s)) /\ Cardinality(1 .. Len(s)) = Len(s)
  <2>1. PICK n \in Nat : n = Len(s)
    BY <1>1
  <2>2. IsFiniteSet(1 .. n) /\ Cardinality(1 .. n) = IF 1 > n THEN 0 ELSE n - 1 + 1
    BY FS_Interval
  <2> QED
    BY <2>1, <2>2
<1>3. s \in Injection(1 .. Len(s), Range(s))
  BY <1>1 DEF Injection, IsInjective
<1>4. Cardinality(1 .. Len(s)) <= Cardinality(Range(s))
  BY <1>1, <1>3, FS_Injection
<1> QED
  BY <1>1, <1>2, <1>4

LEMMA UnitCount ==
  ASSUME Distinctly, NEW a \in Assignment, NEW M, \A l \in Literal : LitTrue(a, l) <=> l \in M,
         NEW c \in DOMAIN CLAUSES, NEW l, UnitFor(M, c, l)
  PROVE  Count(a, c) + 1 = Len(CLAUSES[c]) /\ l \in Literal
<1>1. CLAUSES[c] \in Seq(Literal) /\ IsInjective(CLAUSES[c]) /\ Range(CLAUSES[c]) \subseteq Literal
  BY ClauseType DEF Distinctly
<1>2. FalseIn(a, CLAUSES[c]) = Range(CLAUSES[c]) \ {l}
  BY <1>1, Literals DEF FalseIn, UnitFor
<1>3. /\ l \in Range(CLAUSES[c]) /\ IsFiniteSet(Range(CLAUSES[c]))
      /\ Cardinality(Range(CLAUSES[c])) \in Nat
  BY <1>1, ClauseSize DEF UnitFor
<1>4. Count(a, c) = Cardinality(Range(CLAUSES[c])) - 1
  BY <1>2, <1>3, FS_RemoveElement DEF Count
<1> QED
  BY <1>1, <1>3, <1>4, InjectiveSize

\* A literal that makes the last literal of a clause with a right count false
\* completes its count.
LEMMA LostIsCounted ==
  ASSUME Distinctly, NEW a \in Assignment, NEW M, \A m \in Literal : LitTrue(a, m) <=> m \in M,
         NEW z \in CountsFor, NEW l \in Literal, a[VarOf(l)] = UNASSIGNED,
         NEW c \in DOMAIN CLAUSES, Exact(a, z, c), ~AllNeg(M, c), AllNeg(M \cup {l}, c)
  PROVE  c \in Completed(z, l) /\ -l \in Range(CLAUSES[c])
<1>1. Range(CLAUSES[c]) \subseteq Literal /\ (c \in LIT_TO_CLAUSES(-l) <=> -l \in Range(CLAUSES[c]))
  BY ClauseType DEF Distinctly
<1>2. -l \in Range(CLAUSES[c]) /\ \A m \in Range(CLAUSES[c]) \ {-l} : -m \in M
  <2>1. ASSUME NEW m \in Range(CLAUSES[c]), m # -l PROVE -m \in M
    <3>1. -m \in M \cup {l} /\ m \in Literal
      BY <1>1 DEF AllNeg
    <3> QED
      BY <2>1, <3>1, Literals
  <2>2. PICK m \in Range(CLAUSES[c]) : -m \notin M
    BY DEF AllNeg
  <2> QED
    BY <2>1, <2>2
<1>3. l \notin M /\ -l \notin M /\ -(-l) = l
  BY FreeMeans, Literals
<1>4. UnitFor(M, c, -l)
  BY <1>2, <1>3 DEF UnitFor
<1>5. z[c] + 1 = Len(CLAUSES[c])
  BY <1>4, UnitCount DEF Exact
<1> QED
  BY <1>1, <1>2, <1>5 DEF Completed

LEMMA CompletedIsLost ==
  ASSUME Distinctly, NEW a \in Assignment, NEW M, \A m \in Literal : LitTrue(a, m) <=> m \in M,
         NEW z \in CountsFor, NoMore(a, z), NEW l \in Literal, a[VarOf(l)] = UNASSIGNED,
         NEW c \in Completed(z, l)
  PROVE  c \in DOMAIN CLAUSES /\ -l \in Range(CLAUSES[c]) /\ AllNeg(M \cup {l}, c)
<1>1. c \in DOMAIN CLAUSES /\ -l \in Range(CLAUSES[c]) /\ AllFalse(With(a, l), c)
  BY SetCounts DEF Distinctly
<1>2. Range(CLAUSES[c]) \subseteq Literal
  BY <1>1, ClauseType DEF Distinctly
<1>3. ASSUME NEW m \in Range(CLAUSES[c]) PROVE -m \in M \cup {l}
  <2>1. /\ m \in Literal /\ -m \in Literal /\ VarOf(-m) \in Var /\ VarOf(l) \in Var
        /\ (VarOf(-m) = VarOf(l) => -m = l \/ -m = -l)
        /\ Value(-l) # Value(l)
    BY <1>2, Literals
  <2>2. With(a, l)[VarOf(-m)] = Value(-m)
    BY <1>1, <1>3 DEF AllFalse, LitTrue
  <2>3. With(a, l)[VarOf(-m)] = IF VarOf(-m) = VarOf(l) THEN Value(l) ELSE a[VarOf(-m)]
    BY <2>1 DEF With, Assignment
  <2>4. CASE VarOf(-m) = VarOf(l)
    BY <2>1, <2>2, <2>3, <2>4
  <2>5. CASE VarOf(-m) # VarOf(l)
    BY <2>1, <2>2, <2>3, <2>5 DEF LitTrue
  <2> QED
    BY <2>4, <2>5
<1> QED
  BY <1>1, <1>3 DEF AllNeg

\* The script goes on for one more literal.
LEMMA Goes ==
  ASSUME Distinctly, NEW T, NEW a \in Assignment, NEW st \in Seq(Decision), NEW z \in CountsFor,
         Consistent(a, st), NoMore(a, z), On(T, a, st),
         Fresh(T, a, st, z) \/ (Doomed(T, a, z) /\ Len(st) < Len(T)),
         NEW l \in Literal, Chosen(Upto(T, Len(st)), l), a[VarOf(l)] = UNASSIGNED, NEW type
  PROVE  \E R : LET b == With(a, l)
                    s == Pushed(st, l, type)
                    y == Counted(z, l)
                IN  /\ On(R, b, s)
                    /\ Completed(z, l) = {} =>
                         Fresh(R, b, s, y) \/ (Doomed(R, b, y) /\ Len(s) < Len(R))
                    /\ Completed(z, l) # {} => Doomed(R, b, y) /\ Len(s) = Len(R)
<1> DEFINE M == Upto(T, Len(st))
           b == With(a, l)
           s == Pushed(st, l, type)
           y == Counted(z, l)
<1>1. /\ T \in Seq(Literal) /\ Script(T) /\ Follows(T, a, st) /\ Len(T) \in Nat /\ Len(st) \in Nat
      /\ \A m \in Literal : LitTrue(a, m) <=> m \in M
      /\ \A j \in 1 .. Len(T) : T[j] \in Literal
  BY LenProperties, ElementOfSeq DEF On, Follows
<1>2. \A c \in DOMAIN CLAUSES :
        Exact(a, z, c) /\ (-l \in Range(CLAUSES[c]) => \A d \in Completed(z, l) : c <= d)
          => Exact(b, y, c)
  BY SetCounts DEF Distinctly
<1>3. \A c \in Completed(z, l) :
        c \in DOMAIN CLAUSES /\ -l \in Range(CLAUSES[c]) /\ AllNeg(M \cup {l}, c)
  BY <1>1, CompletedIsLost
<1>4. \A c \in DOMAIN CLAUSES :
        Exact(a, z, c) /\ ~AllNeg(M, c) /\ AllNeg(M \cup {l}, c)
          => c \in Completed(z, l) /\ -l \in Range(CLAUSES[c])
  BY <1>1, LostIsCounted
<1>5. DOMAIN CLAUSES = 1 .. Len(CLAUSES) /\ Len(CLAUSES) \in Nat
  BY LenProperties DEF Distinctly
<1> HIDE DEF M, b, y
<1>6. CASE Fresh(T, a, st, z)
  <2>1. PICK R \in Seq(Literal) :
          /\ Len(R) = Len(T) + 1 /\ R[Len(T) + 1] = l
          /\ Script(R) /\ \A j \in 1 .. Len(T) : R[j] = T[j]
          /\ \A n \in 0 .. Len(T) : Upto(R, n) = Upto(T, n)
    BY <1>1, <1>6, Extending DEF Fresh, M
  <2>2. Upto(R, Len(st)) = M /\ Upto(R, Len(R)) = M \cup {l} /\ Len(st) = Len(T)
    BY <1>1, <1>6, <2>1, UptoNext DEF Fresh, M
  <2>3. Follows(R, a, st)
    BY <1>1, <2>1, <2>2 DEF Follows
  <2>4. Follows(R, b, s) /\ Len(s) = Len(R)
    <3>1. Len(st) < Len(R) /\ l = R[Len(st) + 1]
      BY <1>1, <2>1, <2>2
    <3> QED
      BY <2>1, <2>2, <2>3, <3>1, FollowsPush DEF b
  <2>5. On(R, b, s)
    BY <2>1, <2>4 DEF On
  <2>6. \A c \in DOMAIN CLAUSES : Exact(a, z, c) /\ ~AllNeg(M, c)
    BY <1>1, <1>6, <2>2 DEF Fresh, NoneLost, M
  <2>7. \A k \in 0 .. Len(R) - 1 : \A c \in DOMAIN CLAUSES : ~AllNeg(Upto(R, k), c)
    BY <1>1, <1>6, <2>1 DEF Fresh, NoneLost
  <2>8. CASE Completed(z, l) = {}
    <3>1. \A c \in DOMAIN CLAUSES : ~AllNeg(M \cup {l}, c)
      BY <1>4, <2>6, <2>8
    <3>2. NoneLost(R, Len(R))
      <4>1. \A k \in 0 .. Len(R) : k = Len(R) \/ k \in 0 .. Len(R) - 1
        BY <1>1, <2>1
      <4> QED
        BY <2>2, <2>7, <3>1, <4>1 DEF NoneLost
    <3>3. \A c \in DOMAIN CLAUSES : Exact(b, y, c)
      BY <1>2, <2>6, <2>8
    <3> QED
      BY <2>4, <2>5, <2>8, <3>2, <3>3 DEF Fresh, b, y
  <2>9. CASE Completed(z, l) # {}
    <3>1. PICK c0 \in Completed(z, l) : \A d \in Completed(z, l) : c0 <= d
      <4>1. Completed(z, l) \in SUBSET (1 .. Len(CLAUSES))
        BY <1>3, <1>5
      <4> QED
        BY <1>5, <2>9, <4>1, Extremes
    <3>2. \A c \in DOMAIN CLAUSES : AllNeg(M \cup {l}, c) => c0 <= c
      BY <1>4, <2>6, <3>1
    <3>3. \A c \in DOMAIN CLAUSES : Exact(b, y, c) \/ (c0 < c /\ -l \in Range(CLAUSES[c]))
      <4> SUFFICES ASSUME NEW c \in DOMAIN CLAUSES, ~Exact(b, y, c)
                   PROVE  c0 < c /\ -l \in Range(CLAUSES[c])
        OBVIOUS
      <4>1. PICK d \in Completed(z, l) : -l \in Range(CLAUSES[c]) /\ ~(c <= d)
        BY <1>2, <2>6
      <4>2. c0 <= d /\ c \in Nat /\ d \in Nat /\ c0 \in Nat
        BY <1>3, <1>5, <3>1
      <4> QED
        BY <4>1, <4>2
    <3>4. Doomed(R, b, y)
      <4>1. c0 \in DOMAIN CLAUSES /\ AllNeg(M \cup {l}, c0)
        BY <1>3
      <4>2. Len(R) # 0 /\ R[Len(R)] = l
        BY <1>1, <2>1
      <4> QED
        BY <2>2, <2>7, <3>2, <3>3, <4>1, <4>2 DEF Doomed, NoneLost
    <3> QED
      BY <2>4, <2>5, <2>9, <3>4 DEF b, y
  <2> QED
    BY <2>8, <2>9
<1>7. CASE Doomed(T, a, z) /\ Len(st) < Len(T)
  <2>1. T[Len(st) + 1] = l
    <3>1. Len(st) + 1 \in 1 .. Len(T) /\ (Len(st) + 1) - 1 = Len(st)
      BY <1>1, <1>7
    <3>2. Chosen(M, T[Len(st) + 1]) /\ T[Len(st) + 1] \in Literal
      BY <1>1, <3>1 DEF Script, M
    <3> QED
      BY <3>2, ChosenOnce DEF Distinctly, M
  <2>2. Follows(T, b, s) /\ Len(s) = Len(st) + 1
    BY <1>1, <1>7, <2>1, FollowsPush DEF b
  <2>3. On(T, b, s) /\ Upto(T, Len(st) + 1) = M \cup {l}
    BY <1>1, <2>1, <2>2, UptoNext DEF On, M
  <2>4. PICK c0 \in DOMAIN CLAUSES :
          /\ AllNeg(Upto(T, Len(T)), c0)
          /\ \A c \in DOMAIN CLAUSES : AllNeg(Upto(T, Len(T)), c) => c0 <= c
          /\ \A c \in DOMAIN CLAUSES :
               Exact(a, z, c) \/ (c0 < c /\ -T[Len(T)] \in Range(CLAUSES[c]))
    BY <1>7 DEF Doomed
  <2>5. Len(T) # 0 /\ NoneLost(T, Len(T) - 1)
    BY <1>7 DEF Doomed
  <2>6. CASE Len(st) + 1 < Len(T)
    <3>1. Completed(z, l) = {}
      <4>1. Len(st) + 1 \in 0 .. Len(T) - 1
        BY <1>1, <2>6
      <4> QED
        BY <1>3, <2>3, <2>5, <4>1 DEF NoneLost
    <3>2. Doomed(T, b, y)
      <4>1. \A c \in DOMAIN CLAUSES : Exact(a, z, c) => Exact(b, y, c)
        BY <1>2, <3>1
      <4> QED
        BY <2>4, <2>5, <4>1 DEF Doomed
    <3> QED
      BY <2>2, <2>3, <2>6, <3>1, <3>2 DEF b, y
  <2>7. CASE Len(st) + 1 = Len(T)
    <3>1. Upto(T, Len(T)) = M \cup {l} /\ T[Len(T)] = l
      BY <2>1, <2>3, <2>7
    <3>2. c0 \in Completed(z, l)
      <4>1. ~AllNeg(M, c0)
        <5>1. Len(st) \in 0 .. Len(T) - 1
          BY <1>1, <2>7
        <5> QED
          BY <2>5, <5>1 DEF NoneLost, M
      <4>2. Exact(a, z, c0)
        <5>1. ~(c0 < c0)
          BY <1>5
        <5> QED
          BY <2>4, <5>1
      <4> QED
        BY <1>4, <2>4, <3>1, <4>1, <4>2
    <3>3. \A d \in Completed(z, l) : c0 <= d
      BY <1>3, <2>4, <3>1
    <3>4. \A c \in DOMAIN CLAUSES : Exact(b, y, c) \/ (c0 < c /\ -l \in Range(CLAUSES[c]))
      <4> SUFFICES ASSUME NEW c \in DOMAIN CLAUSES, ~(c0 < c /\ -l \in Range(CLAUSES[c]))
                   PROVE  Exact(b, y, c)
        OBVIOUS
      <4>1. Exact(a, z, c)
        BY <2>4, <3>1
      <4>2. -l \in Range(CLAUSES[c]) => \A d \in Completed(z, l) : c <= d
        <5>1. c \in Nat /\ c0 \in Nat /\ \A d \in Completed(z, l) : d \in Nat
          BY <1>3, <1>5
        <5> QED
          BY <3>3, <5>1
      <4> QED
        BY <1>2, <4>1, <4>2
    <3>5. Doomed(T, b, y)
      BY <2>4, <2>5, <3>1, <3>4 DEF Doomed
    <3> QED
      BY <2>2, <2>3, <2>7, <3>2, <3>5 DEF b, y
  <2> QED
    BY <1>1, <1>7, <2>6, <2>7
<1> QED
  BY <1>6, <1>7

-----------------------------------------------------------------------------
(* loop.c follows the script *)

\* The count of the first unit clause is right.
Seen(M, a, z) ==
  \A c \in DOMAIN CLAUSES :
    IsUnit(M, c) /\ (\A d \in DOMAIN CLAUSES : d < c => ~IsUnit(M, d)) => Exact(a, z, c)

LEMMA SeenWhen ==
  ASSUME Distinctly, NEW T, NEW a, NEW st \in Seq(Decision), NEW z, On(T, a, st),
         Fresh(T, a, st, z) \/ (Doomed(T, a, z) /\ Len(st) < Len(T))
  PROVE  Seen(Upto(T, Len(st)), a, z)
<1>1. CASE Fresh(T, a, st, z)
  BY <1>1 DEF Fresh, Seen
<1>2. CASE Doomed(T, a, z) /\ Len(st) < Len(T)
  <2> DEFINE M == Upto(T, Len(st))
             L == T[Len(T)]
             n == Len(st) + 1
  <2> SUFFICES ASSUME NEW c \in DOMAIN CLAUSES, IsUnit(M, c),
                      \A d \in DOMAIN CLAUSES : d < c => ~IsUnit(M, d), ~Exact(a, z, c)
               PROVE  FALSE
    BY DEF Seen
  <2>1. /\ T \in Seq(Literal) /\ Script(T) /\ Len(T) \in Nat /\ Len(st) \in Nat
        /\ \A j \in 1 .. Len(T) : T[j] \in Literal
    BY LenProperties, ElementOfSeq DEF On
  <2>2. n \in 1 .. Len(T) /\ n - 1 = Len(st) /\ T[n] \in Literal /\ L \in Literal
        /\ -(-L) = L /\ L # -L
    <3>1. n \in 1 .. Len(T) /\ n - 1 = Len(st) /\ Len(T) \in 1 .. Len(T)
      BY <1>2, <2>1
    <3>2. T[n] \in Literal /\ L \in Literal
      BY <2>1, <3>1
    <3> HIDE DEF L, n
    <3> QED
      BY <3>1, <3>2, Literals
  <2>3. PICK u \in Literal : UnitFor(M, c, u)
    BY DEF IsUnit
  <2>4. u = T[n]
    <3>1. Chosen(M, u)
      BY <2>3 DEF Chosen
    <3>2. Chosen(M, T[n])
      BY <2>1, <2>2 DEF Script
    <3> HIDE DEF M
    <3> QED
      BY <2>2, <3>1, <3>2, ChosenOnce DEF Distinctly
  <2>5. -L \in Range(CLAUSES[c])
    <3>1. PICK c0 \in DOMAIN CLAUSES :
            \A d \in DOMAIN CLAUSES : Exact(a, z, d) \/ (c0 < d /\ -T[Len(T)] \in Range(CLAUSES[d]))
      BY <1>2 DEF Doomed
    <3> QED
      BY <3>1
  <2>6. \A j \in 1 .. Len(T) - 1 : VarOf(T[j]) # VarOf(L) /\ T[j] # L
    <3>1. Len(T) \in 1 .. Len(T)
      BY <1>2, <2>1
    <3> QED
      BY <2>1, <3>1, Distinct
  <2>7. -L # u
    <3>1. VarOf(-L) = VarOf(L)
      BY <2>2, Literals
    <3>2. n = Len(T) \/ n \in 1 .. Len(T) - 1
      BY <2>1, <2>2
    <3> QED
      BY <2>2, <2>4, <2>6, <3>1, <3>2
  <2>8. L \in M
    BY <2>2, <2>3, <2>5, <2>7 DEF UnitFor
  <2>9. L \notin M
    <3>1. 1 .. Len(st) \subseteq 1 .. Len(T) - 1
      BY <1>2, <2>1
    <3> QED
      BY <2>6, <3>1 DEF Upto
  <2> QED
    BY <2>8, <2>9
<1> QED
  BY <1>1, <1>2

LEMMA NotPast ==
  ASSUME Kept, Distinctly, NEW M, \A l \in Literal : LitTrue(ASSIGNMENT, l) <=> l \in M,
         NEW c \in DOMAIN CLAUSES, IsUnit(M, c), Exact(ASSIGNMENT, n_zeros, c)
  PROVE  ~Past(c)
<1>1. PICK l \in Literal : UnitFor(M, c, l)
  BY DEF IsUnit
<1>2. n_zeros[c] + 1 = Len(CLAUSES[c])
  BY <1>1, KeptTypes, UnitCount DEF Exact
<1>3. Range(CLAUSES[c]) \subseteq Literal
  BY ClauseType DEF Distinctly
<1>4. l \in Range(CLAUSES[c]) /\ ASSIGNMENT[VarOf(l)] = UNASSIGNED
  BY <1>1, KeptTypes, FreeMeans DEF UnitFor
<1>5. ASSUME NEW m \in Range(CLAUSES[c]) PROVE ~LitTrue(ASSIGNMENT, m)
  <2>1. m \in Literal /\ -m \in Literal /\ VarOf(-m) = VarOf(m) /\ Value(-m) # Value(m)
    BY <1>3, Literals
  <2>2. m = l \/ -m \in M
    BY <1>1 DEF UnitFor
  <2>3. m = l => m \notin M
    BY <1>1 DEF UnitFor
  <2>4. -m \in M => ~LitTrue(ASSIGNMENT, m)
    BY <2>1 DEF LitTrue
  <2> QED
    BY <2>1, <2>2, <2>3, <2>4
<1> QED
  BY <1>2, <1>4, <1>5 DEF Past

\* Of the clauses with a property one comes first.
LEMMA FirstClause ==
  ASSUME CLAUSES \in Seq(Seq(Literal)), NEW D \in SUBSET DOMAIN CLAUSES, D # {}
  PROVE  \E c \in D : \A d \in D : ~(d < c)
<1>1. DOMAIN CLAUSES = 1 .. Len(CLAUSES) /\ Len(CLAUSES) \in Nat
  BY LenProperties
<1>2. Min(D) \in D /\ \A x \in D : Min(D) <= x
  BY <1>1, Extremes
<1> QED
  BY <1>1, <1>2

\* bcp implies what the first unit clause implies.
LEMMA BcpPicks ==
  ASSUME IInv, Distinctly, NEW M, \A l \in Literal : LitTrue(ASSIGNMENT, l) <=> l \in M,
         Seen(M, ASSIGNMENT, n_zeros), BcpForce
  PROVE  Chosen(M, forced_lit)
<1>1. Kept /\ Scanned /\ Control /\ pc = "bcp" /\ i <= N_CLAUSES /\ LooksUnit /\ ~foundTrue
      /\ forced_lit # 0
  BY DEF IInv, BcpForce, Scanning
<1>2. i \in DOMAIN CLAUSES /\ DOMAIN CLAUSES \subseteq Nat
  BY <1>1, LenProperties DEF Distinctly, N_CLAUSES, Control
<1>3. CLAUSES[i] \in Seq(Literal) /\ Range(CLAUSES[i]) \subseteq Literal
  BY <1>2, ClauseType DEF Distinctly
<1>4. forced_lit \in Range(CLAUSES[i]) /\ ASSIGNMENT[VarOf(forced_lit)] = UNASSIGNED
  BY <1>1, <1>2, Forced
<1>5. UnitFor(M, i, forced_lit)
  <2>1. /\ n_zeros[i] \in Int /\ n_zeros[i] <= Cardinality(FalseIn(ASSIGNMENT, CLAUSES[i]))
        /\ n_zeros[i] + 1 = Len(CLAUSES[i])
    BY <1>1, <1>2, KeptTypes DEF CountsFor, NoMore, Count, LooksUnit
  <2>2. \A m \in Range(CLAUSES[i]) \ {forced_lit} : LitTrue(ASSIGNMENT, -m)
    BY <1>1, <1>3, <1>4, <2>1, KeptTypes, LooksUnitIsUnit
  <2>3. forced_lit \notin M /\ -forced_lit \notin M
    BY <1>1, <1>3, <1>4, KeptTypes, FreeMeans
  <2> QED
    BY <1>3, <1>4, <2>2, <2>3, Literals DEF UnitFor
<1>6. ASSUME NEW e \in DOMAIN CLAUSES, e < i, IsUnit(M, e) PROVE FALSE
  <2>1. PICK c \in {d \in DOMAIN CLAUSES : IsUnit(M, d)} :
          \A d \in {d \in DOMAIN CLAUSES : IsUnit(M, d)} : ~(d < c)
    BY <1>6, FirstClause DEF Distinctly
  <2>2. Exact(ASSIGNMENT, n_zeros, c)
    BY <2>1 DEF Seen
  <2>3. ~Past(c)
    BY <1>1, <2>1, <2>2, NotPast
  <2>4. c < i
    BY <1>2, <1>6, <2>1
  <2> QED
    BY <1>1, <2>1, <2>3, <2>4 DEF Scanned
<1> QED
  BY <1>2, <1>5, <1>6 DEF Chosen

\* decide sets the least variable, once no clause is unit.
LEMMA DecidePicks ==
  ASSUME IInv, Distinctly, NEW M, \A l \in Literal : LitTrue(ASSIGNMENT, l) <=> l \in M,
         Seen(M, ASSIGNMENT, n_zeros), pc = "decide",
         NEW v \in Var, ASSIGNMENT[v] = UNASSIGNED,
         \A u \in Var : ASSIGNMENT[u] = UNASSIGNED => v <= u
  PROVE  Chosen(M, -v)
<1>1. ASSUME NEW e \in DOMAIN CLAUSES, IsUnit(M, e) PROVE FALSE
  <2>1. PICK c \in {d \in DOMAIN CLAUSES : IsUnit(M, d)} :
          \A d \in {d \in DOMAIN CLAUSES : IsUnit(M, d)} : ~(d < c)
    BY <1>1, FirstClause DEF Distinctly
  <2>2. Exact(ASSIGNMENT, n_zeros, c)
    BY <2>1 DEF Seen
  <2>3. ~Past(c)
    BY <2>1, <2>2, NotPast DEF IInv
  <2> QED
    BY <2>1, <2>3 DEF IInv, Scanned
<1>2. ASSUME NEW u \in Var PROVE ASSIGNMENT[u] = UNASSIGNED <=> u \notin M /\ -u \notin M
  <2>1. u \in Literal /\ VarOf(u) = u
    BY Literals
  <2> QED
    BY <2>1, KeptTypes, FreeMeans DEF IInv
<1>3. -(-v) = v
  BY Literals
<1> QED
  BY <1>1, <1>2, <1>3 DEF Chosen

\* Where the run is in its script.
Going(T, a, st, z) == Fresh(T, a, st, z) \/ (Doomed(T, a, z) /\ Len(st) < Len(T))
InScript ==
  /\ pc \in {"bcp", "decide"} =>
       \E T : /\ On(T, ASSIGNMENT, DECISION_STACK)
              /\ Going(T, ASSIGNMENT, DECISION_STACK, n_zeros)
  /\ pc = "conflict" =>
       \E T : /\ On(T, ASSIGNMENT, DECISION_STACK)
              /\ Doomed(T, ASSIGNMENT, n_zeros) /\ Len(DECISION_STACK) = Len(T)
              /\ DECISION_STACK[Len(DECISION_STACK)].type = "IMPLIED"
  /\ pc = "printed" /\ Last(answers) = "SAT" =>
       \A c \in DOMAIN CLAUSES : \E l \in Range(CLAUSES[c]) : LitTrue(ASSIGNMENT, l)

LEMMA ScriptStays ==
  ASSUME UNCHANGED CLAUSES,
         NEW a, NEW st, NEW z, a = ASSIGNMENT', st = DECISION_STACK', z = n_zeros',
         NEW T, On(T, a, st)
  PROVE  /\ On(T, ASSIGNMENT, DECISION_STACK)'
         /\ Going(T, a, st, z) => Going(T, ASSIGNMENT, DECISION_STACK, n_zeros)'
         /\ Doomed(T, a, z) => Doomed(T, ASSIGNMENT, n_zeros)'
BY DEF On, Script, Chosen, UnitFor, IsUnit, Follows, Going, Fresh, Doomed, NoneLost, AllNeg,
       Exact, Count

\* A literal set next in the script.
LEMMA ScriptStep ==
  ASSUME Distinctly, UNCHANGED CLAUSES,
         NEW a \in Assignment, NEW st \in Seq(Decision), NEW z \in CountsFor,
         Consistent(a, st), NoMore(a, z),
         NEW T, On(T, a, st), Going(T, a, st, z),
         NEW l \in Literal, Chosen(Upto(T, Len(st)), l), a[VarOf(l)] = UNASSIGNED, NEW type,
         set_literal(a, st, z, l, type)
  PROVE  /\ Completed(z, l) = {} =>
              \E R : (On(R, ASSIGNMENT, DECISION_STACK)
                      /\ Going(R, ASSIGNMENT, DECISION_STACK, n_zeros))'
         /\ Completed(z, l) # {} =>
              \E R : (On(R, ASSIGNMENT, DECISION_STACK) /\ Doomed(R, ASSIGNMENT, n_zeros)
                      /\ Len(DECISION_STACK) = Len(R))'
         /\ DECISION_STACK'[Len(DECISION_STACK')].type = type
<1>1. PICK b, s, y : /\ b = With(a, l) /\ s = Pushed(st, l, type) /\ y = Counted(z, l)
                     /\ b = ASSIGNMENT' /\ s = DECISION_STACK' /\ y = n_zeros'
  <2>1. /\ ASSIGNMENT' = With(a, l) /\ DECISION_STACK' = Pushed(st, l, type)
        /\ n_zeros' = Counted(z, l)
    BY DEF set_literal, With, Value, Pushed
  <2> QED
    BY <2>1
<1>2. PICK R : /\ On(R, b, s)
               /\ Completed(z, l) = {} =>
                    Fresh(R, b, s, y) \/ (Doomed(R, b, y) /\ Len(s) < Len(R))
               /\ Completed(z, l) # {} => Doomed(R, b, y) /\ Len(s) = Len(R)
  <2>1. \E R : /\ On(R, With(a, l), Pushed(st, l, type))
               /\ Completed(z, l) = {} =>
                    \/ Fresh(R, With(a, l), Pushed(st, l, type), Counted(z, l))
                    \/ /\ Doomed(R, With(a, l), Counted(z, l))
                       /\ Len(Pushed(st, l, type)) < Len(R)
               /\ Completed(z, l) # {} => /\ Doomed(R, With(a, l), Counted(z, l))
                                          /\ Len(Pushed(st, l, type)) = Len(R)
    BY Goes DEF Going
  <2> QED
    BY <1>1, <2>1
<1>3. /\ On(R, ASSIGNMENT, DECISION_STACK)'
      /\ Going(R, b, s, y) => Going(R, ASSIGNMENT, DECISION_STACK, n_zeros)'
      /\ Doomed(R, b, y) => Doomed(R, ASSIGNMENT, n_zeros)'
  BY <1>1, <1>2, ScriptStays
<1>4. s[Len(s)].type = type
  <2>1. Len(s) = Len(st) + 1 /\ s[Len(st) + 1] = [var |-> VarOf(l), type |-> type]
    BY <1>1, AppendProperties, LenProperties DEF Pushed
  <2> QED
    BY <2>1
<1> QED
  BY <1>1, <1>2, <1>3, <1>4 DEF Going

LEMMA Clauses == IInv => Distinctly
BY InputsAssumption DEF IInv, Control, Distinctly

LEMMA ScriptForce == IInv /\ InScript /\ BcpForce => InScript'
<1> SUFFICES ASSUME IInv, InScript, BcpForce PROVE InScript'
  OBVIOUS
<1>1. /\ Kept /\ Control /\ Distinctly /\ UNCHANGED CLAUSES /\ pc = "bcp" /\ i <= N_CLAUSES
      /\ set_literal(ASSIGNMENT, DECISION_STACK, n_zeros, forced_lit, "IMPLIED")
      /\ pc' = IF Completed(n_zeros, forced_lit) = {} THEN "bcp" ELSE "conflict"
      /\ forced_lit # 0
  BY Clauses DEF IInv, BcpForce, Scanning
<1>2. PICK T : /\ On(T, ASSIGNMENT, DECISION_STACK)
               /\ Going(T, ASSIGNMENT, DECISION_STACK, n_zeros)
  BY <1>1 DEF InScript
<1>3. PICK M : M = Upto(T, Len(DECISION_STACK))
  OBVIOUS
<1>4. /\ \A l \in Literal : LitTrue(ASSIGNMENT, l) <=> l \in M
      /\ Seen(M, ASSIGNMENT, n_zeros)
  BY <1>1, <1>2, <1>3, KeptTypes, SeenWhen DEF On, Follows, Going
<1>5. Chosen(M, forced_lit)
  BY <1>1, <1>4, BcpPicks
<1>6. forced_lit \in Literal /\ ASSIGNMENT[VarOf(forced_lit)] = UNASSIGNED
  <2>1. i \in DOMAIN CLAUSES
    BY <1>1, LenProperties DEF Distinctly, N_CLAUSES, Control
  <2> QED
    BY <1>1, <2>1, Forced, KeptTypes, ClauseType
<1>7. /\ Completed(n_zeros, forced_lit) = {} =>
           \E R : (On(R, ASSIGNMENT, DECISION_STACK)
                   /\ Going(R, ASSIGNMENT, DECISION_STACK, n_zeros))'
      /\ Completed(n_zeros, forced_lit) # {} =>
           \E R : (On(R, ASSIGNMENT, DECISION_STACK) /\ Doomed(R, ASSIGNMENT, n_zeros)
                   /\ Len(DECISION_STACK) = Len(R))'
      /\ DECISION_STACK'[Len(DECISION_STACK')].type = "IMPLIED"
  BY <1>1, <1>2, <1>3, <1>5, <1>6, KeptTypes, ScriptStep
<1> QED
  BY <1>1, <1>7 DEF InScript

LEMMA ScriptDecide == IInv /\ InScript /\ decide => InScript'
<1> SUFFICES ASSUME IInv, InScript, decide PROVE InScript'
  OBVIOUS
<1>1. Kept /\ Control /\ Distinctly /\ UNCHANGED CLAUSES /\ pc = "decide"
  BY Clauses DEF IInv, decide
<1>2. PICK T : /\ On(T, ASSIGNMENT, DECISION_STACK)
               /\ Going(T, ASSIGNMENT, DECISION_STACK, n_zeros)
  BY <1>1 DEF InScript
<1>3. PICK M : M = Upto(T, Len(DECISION_STACK))
  OBVIOUS
<1>4. /\ \A l \in Literal : LitTrue(ASSIGNMENT, l) <=> l \in M
      /\ Seen(M, ASSIGNMENT, n_zeros)
  BY <1>1, <1>2, <1>3, KeptTypes, SeenWhen DEF On, Follows, Going
<1>5. CASE {v \in Var : ASSIGNMENT[v] = UNASSIGNED} = {}
  <2>1. Answer("SAT") /\ UNCHANGED <<n_zeros, ASSIGNMENT, DECISION_STACK, i>>
    BY <1>5 DEF decide
  <2>2. pc' = "printed"
    BY <2>1 DEF Answer
  <2>3. \A l \in Literal : l \in M \/ -l \in M
    <3>1. \A l \in Literal : ASSIGNMENT[VarOf(l)] # UNASSIGNED
      BY <1>5, Literals
    <3> QED
      BY <1>1, <1>4, <3>1, KeptTypes, FreeMeans
  <2>4. /\ T \in Seq(Literal) /\ Script(T) /\ Len(T) \in Nat /\ Len(DECISION_STACK) \in Nat
        /\ Len(DECISION_STACK) <= Len(T)
    BY <1>1, <1>2, KeptTypes, LenProperties DEF On, Follows
  <2>5. Fresh(T, ASSIGNMENT, DECISION_STACK, n_zeros)
    <3>1. ASSUME Len(DECISION_STACK) < Len(T) PROVE FALSE
      <4>1. PICK n \in 1 .. Len(T) : n = Len(DECISION_STACK) + 1 /\ n - 1 = Len(DECISION_STACK)
        BY <2>4, <3>1
      <4>2. T[n] \in Literal /\ Chosen(M, T[n])
        BY <1>3, <2>4, <4>1, ElementOfSeq DEF Script
      <4> QED
        BY <2>3, <4>2, ChosenFree
    <3> QED
      BY <1>2, <3>1 DEF Going
  <2>6. ASSUME NEW c \in DOMAIN CLAUSES
        PROVE  \E l \in Range(CLAUSES[c]) : LitTrue(ASSIGNMENT, l)
    <3>1. ~AllNeg(M, c)
      <4>1. Len(T) \in 0 .. Len(T) /\ Len(DECISION_STACK) = Len(T)
        BY <2>4, <2>5 DEF Fresh
      <4> QED
        BY <1>3, <2>5, <4>1 DEF Fresh, NoneLost
    <3>2. PICK l \in Range(CLAUSES[c]) : -l \notin M
      BY <3>1 DEF AllNeg
    <3>3. l \in Literal
      BY <1>1, ClauseType DEF Distinctly
    <3> QED
      BY <1>4, <2>3, <3>2, <3>3
  <2> QED
    BY <1>1, <2>1, <2>2, <2>6 DEF InScript, LitTrue
<1>6. CASE {v \in Var : ASSIGNMENT[v] = UNASSIGNED} # {}
  <2>1. PICK v \in Var :
          /\ ASSIGNMENT[v] = UNASSIGNED
          /\ \A u \in Var : ASSIGNMENT[u] = UNASSIGNED => v <= u
          /\ set_literal(ASSIGNMENT, DECISION_STACK, n_zeros, -v, "TRIED_ONE_WAY")
          /\ pc' = IF Completed(n_zeros, -v) = {} THEN "bcp" ELSE "abort"
    BY <1>6 DEF decide
  <2>2. PICK l \in Literal : l = -v /\ ASSIGNMENT[VarOf(l)] = UNASSIGNED
    BY <2>1, Literals
  <2>3. Completed(n_zeros, l) = {}
    BY <1>1, <2>2, NoneCompleted
  <2>4. Chosen(M, l)
    BY <1>1, <1>4, <2>1, <2>2, DecidePicks
  <2>5. \E R : (On(R, ASSIGNMENT, DECISION_STACK)
                /\ Going(R, ASSIGNMENT, DECISION_STACK, n_zeros))'
    BY <1>1, <1>2, <1>3, <2>1, <2>2, <2>3, <2>4, KeptTypes, ScriptStep
  <2>6. pc' = "bcp"
    BY <2>1, <2>2, <2>3
  <2> QED
    BY <2>5, <2>6 DEF InScript
<1> QED
  BY <1>5, <1>6

\* The literal resolveConflict sets is the one the script has there.
LEMMA ScriptResolve == IInv /\ InScript /\ resolveConflict => InScript'
<1> SUFFICES ASSUME IInv, InScript, resolveConflict PROVE InScript'
  OBVIOUS
<1>1. Kept /\ Control /\ Distinctly /\ UNCHANGED CLAUSES /\ pc = "conflict"
  BY Clauses DEF IInv, resolveConflict
<1>2. PICK T : /\ On(T, ASSIGNMENT, DECISION_STACK)
               /\ Doomed(T, ASSIGNMENT, n_zeros) /\ Len(DECISION_STACK) = Len(T)
               /\ DECISION_STACK[Len(DECISION_STACK)].type = "IMPLIED"
  BY <1>1 DEF InScript
<1>3. ASSUME Answer("UNSAT") PROVE InScript'
  <2>1. pc' = "printed" /\ answers' = Append(answers, "UNSAT") /\ Last(answers') # "SAT"
    <3>1. answers \in Seq({"SAT", "UNSAT"})
      BY <1>1 DEF Control
    <3>2. Len(Append(answers, "UNSAT")) = Len(answers) + 1
          /\ Append(answers, "UNSAT")[Len(answers) + 1] = "UNSAT"
      BY <3>1, AppendProperties, LenProperties
    <3> QED
      BY <1>3, <3>2 DEF Answer, Last
  <2> QED
    BY <2>1 DEF InScript
<1>4. CASE LastOpen = 0
  BY <1>3, <1>4 DEF resolveConflict
<1>5. CASE LastOpen # 0
  <2>1. PICK k \in 1 .. Len(DECISION_STACK) :
          k = LastOpen /\ DECISION_STACK[k].type = "TRIED_ONE_WAY"
    BY <1>1, <1>5, KeptTypes, LastOpenIs
  <2>2. PICK l \in Literal :
          /\ l = -DECISION_STACK[k].var /\ VarOf(l) = DECISION_STACK[k].var
          /\ Value(l) = FALSE_ /\ UnsetAssignment(k)[VarOf(l)] = UNASSIGNED
          /\ set_literal(UnsetAssignment(k), SubSeq(DECISION_STACK, 1, k - 1),
                         UnsetZeros(k), l, "TRIED_BOTH_WAYS")
          /\ IF Completed(UnsetZeros(k), l) = {}
               THEN pc' = "bcp" /\ UNCHANGED answers ELSE Answer("UNSAT")
    BY <1>1, <2>1, Reassigning
  <2>3. /\ T \in Seq(Literal) /\ Script(T) /\ Follows(T, ASSIGNMENT, DECISION_STACK)
        /\ Len(DECISION_STACK) \in Nat /\ k \in 1 .. Len(T) /\ T[k] \in Literal
        /\ DECISION_STACK \in Seq(Decision) /\ DOMAIN DECISION_STACK = 1 .. Len(DECISION_STACK)
    BY <1>1, <1>2, KeptTypes, LenProperties, ElementOfSeq DEF On
  <2>4. k < Len(T)
    BY <1>2, <2>1, <2>3
  <2>5. T[k] = l
    <3>1. ASSIGNMENT[DECISION_STACK[k].var] = FALSE_
      BY <1>1, <2>1, <2>3, KeptTypes DEF Consistent
    <3>2. LitTrue(ASSIGNMENT, T[k])
      BY <2>3 DEF Follows, Upto
    <3>3. DECISION_STACK[k].var = VarOf(T[k])
      BY <2>3 DEF Follows
    <3>4. PICK t \in Literal : t = T[k]
      BY <2>3
    <3>5. VarOf(t) = VarOf(l) /\ Value(t) = Value(l)
      BY <2>2, <3>1, <3>2, <3>3, <3>4 DEF LitTrue
    <3>6. t = l
      BY <3>5, Literals
    <3> QED
      BY <3>4, <3>6
  <2>6. PICK a, st, z : /\ a = UnsetAssignment(k) /\ st = SubSeq(DECISION_STACK, 1, k - 1)
                        /\ z = UnsetZeros(k)
    OBVIOUS
  <2>7. /\ a \in Assignment /\ st \in Seq(Decision) /\ z \in CountsFor /\ Consistent(a, st)
        /\ NoMore(a, z)
        /\ a = Without(ASSIGNMENT, VarsFrom(DECISION_STACK, k))
        /\ \A c \in DOMAIN CLAUSES : Exact(ASSIGNMENT, n_zeros, c) => Exact(a, z, c)
    <3>1. k \in 1 .. Len(DECISION_STACK) + 1
      BY <2>3
    <3> QED
      BY <1>1, <2>6, <3>1, Unwinding
  <2>8. Follows(T, a, st) /\ Len(st) = k - 1
    BY <1>1, <2>1, <2>3, <2>6, <2>7, KeptTypes, FollowsPop
  <2>9. On(T, a, st)
    BY <2>3, <2>8 DEF On
  <2>10. Going(T, a, st, z)
    <3>1. Len(st) < Len(T)
      BY <2>3, <2>4, <2>8
    <3>2. Doomed(T, a, z)
      BY <1>2, <2>7 DEF Doomed
    <3> QED
      BY <3>1, <3>2 DEF Going
  <2>11. Chosen(Upto(T, Len(st)), l)
    BY <2>3, <2>5, <2>8 DEF Script
  <2>12. Completed(z, l) = {} =>
           \E R : (On(R, ASSIGNMENT, DECISION_STACK)
                   /\ Going(R, ASSIGNMENT, DECISION_STACK, n_zeros))'
    BY <1>1, <2>2, <2>6, <2>7, <2>9, <2>10, <2>11, ScriptStep
  <2>13. CASE Completed(z, l) = {}
    BY <2>2, <2>6, <2>12, <2>13 DEF InScript
  <2>14. CASE Completed(z, l) # {}
    BY <1>3, <2>2, <2>6, <2>14
  <2> QED
    BY <2>13, <2>14
<1> QED
  BY <1>4, <1>5

\* loop.c never counts a literal of a clause that has none, and so cannot see that such a
\* clause is false.
NoEmptyClause == \A input \in Inputs : \A c \in DOMAIN input : input[c] # <<>>

\* At the start of a run no literal of the script is set.
LEMMA ScriptStarts ==
  ASSUME NoEmptyClause, CLAUSES \in Inputs,
         NEW a, a = [v \in Var |-> UNASSIGNED], NEW z, z = [c \in DOMAIN CLAUSES |-> 0]
  PROVE  On(<<>>, a, <<>>) /\ Going(<<>>, a, <<>>, z)
<1>1. /\ CLAUSES \in Seq(Seq(Literal)) /\ \A c \in DOMAIN CLAUSES : Exact(a, z, c)
      /\ \A l \in Literal : ~LitTrue(a, l)
  BY Starting
<1>2. <<>> \in Seq(Literal) /\ Len(<<>>) = 0 /\ 0 .. 0 = {0} /\ 1 .. 0 = {}
  BY EmptySeq
<1>3. Upto(<<>>, 0) = {}
  BY <1>2 DEF Upto
<1>4. On(<<>>, a, <<>>)
  BY <1>1, <1>2, <1>3 DEF On, Script, Follows
<1>5. ASSUME NEW c \in DOMAIN CLAUSES PROVE ~AllNeg({}, c)
  <2>1. CLAUSES[c] \in Seq(Literal) /\ CLAUSES[c] # <<>>
    BY <1>1, ClauseType DEF NoEmptyClause
  <2>2. 1 \in DOMAIN CLAUSES[c]
    BY <2>1, LenProperties, EmptySeq
  <2> QED
    BY <2>2 DEF AllNeg, Range
<1>6. NoneLost(<<>>, 0)
  BY <1>2, <1>3, <1>5 DEF NoneLost
<1> QED
  BY <1>1, <1>2, <1>4, <1>6 DEF Going, Fresh

LEMMA ScriptInit == NoEmptyClause /\ Init => InScript
BY ScriptStarts DEF Init, InitCounters, InScript

LEMMA ScriptSteps == NoEmptyClause /\ IInv /\ InScript /\ [Next]_vars => InScript'
<1> SUFFICES ASSUME NoEmptyClause, IInv, InScript, [Next]_vars PROVE InScript'
  OBVIOUS
<1>1. ASSUME UNCHANGED cvars, UNCHANGED answers, pc' = pc \/ (pc = "bcp" /\ pc' = "decide")
      PROVE  InScript'
  <2>1. \A T : /\ On(T, ASSIGNMENT, DECISION_STACK) =>
                    /\ On(T, ASSIGNMENT, DECISION_STACK)'
                    /\ Going(T, ASSIGNMENT, DECISION_STACK, n_zeros) =>
                         Going(T, ASSIGNMENT, DECISION_STACK, n_zeros)'
                    /\ Doomed(T, ASSIGNMENT, n_zeros) => Doomed(T, ASSIGNMENT, n_zeros)'
    BY <1>1, ScriptStays DEF cvars
  <2> QED
    BY <1>1, <2>1 DEF InScript, cvars, LitTrue
<1>2. CASE UNCHANGED vars
  BY <1>1, <1>2 DEF vars
<1>3. CASE BcpSkip
  BY <1>1, <1>3 DEF BcpSkip
<1>4. CASE BcpDone
  BY <1>1, <1>4 DEF BcpDone
<1>5. CASE NextRun
  <2>1. PICK a, z : a = [v \in Var |-> UNASSIGNED] /\ z = [c \in DOMAIN CLAUSES |-> 0]
    OBVIOUS
  <2>2. On(<<>>, a, <<>>) /\ Going(<<>>, a, <<>>, z)
    BY <2>1, ScriptStarts DEF IInv, Control
  <2>3. UNCHANGED CLAUSES /\ a = ASSIGNMENT' /\ <<>> = DECISION_STACK' /\ z = n_zeros' /\ pc' = "bcp"
    BY <1>5, <2>1 DEF NextRun
  <2>4. On(<<>>, ASSIGNMENT, DECISION_STACK)' /\ Going(<<>>, ASSIGNMENT, DECISION_STACK, n_zeros)'
    BY <2>2, <2>3, ScriptStays
  <2> QED
    BY <2>3, <2>4 DEF InScript
<1> QED
  BY <1>2, <1>3, <1>4, <1>5, ScriptForce, ScriptDecide, ScriptResolve DEF Next

(* SAT comes with a satisfying assignment, unless the input has an empty clause. *)
THEOREM SatIsRight == ASSUME NoEmptyClause PROVE Spec => []SatSound
<1>1. InScript => SatSound
  BY DEF InScript, SatSound, formula, is_lit_true, LitTrue, Value
<1> QED
  BY <1>1, ScriptInit, ScriptSteps, Invariance, PTL DEF Spec
=============================================================================
