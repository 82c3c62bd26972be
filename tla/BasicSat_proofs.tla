-------------------------- MODULE BasicSat_proofs ---------------------------
(***************************************************************************)
(* basic.c runs the abstract search and so answers correctly, for every    *)
(* number of variables and every input, however much its counts fall       *)
(* behind the assignment.                                                  *)
(***************************************************************************)
EXTENDS BasicSat, Assignments_proofs

-----------------------------------------------------------------------------
(* The counts *)

NoMore(a, zeros) == \A c \in DOMAIN CLAUSES : zeros[c] <= Cardinality(FalseIn(a, CLAUSES[c]))
AllFalse(a, c)   == FalseIn(a, CLAUSES[c]) = Range(CLAUSES[c])
Falsified(a)     == \E c \in DOMAIN CLAUSES : AllFalse(a, c)
CountsFor        == [DOMAIN CLAUSES -> Int]

LEMMA ClauseType ==
  ASSUME CLAUSES \in Seq(Seq(Literal)), NEW c \in DOMAIN CLAUSES
  PROVE  CLAUSES[c] \in Seq(Literal)
BY LenProperties, ElementOfSeq

\* set_literal counts a false literal at most once, and where it completes a
\* count the clause is falsified.
LEMMA SetCounts ==
  ASSUME CLAUSES \in Seq(Seq(Literal)), NEW zeros \in CountsFor,
         NEW a \in Assignment, NoMore(a, zeros),
         NEW l \in Literal, a[VarOf(l)] = UNASSIGNED
  PROVE  /\ Counted(zeros, l) \in CountsFor /\ NoMore(With(a, l), Counted(zeros, l))
         /\ Completed(zeros, l) # {} => Falsified(With(a, l))
<1> DEFINE b == With(a, l)
<1>1. Counted(zeros, l) \in CountsFor
  BY DEF Counted, CountsFor
<1> HIDE DEF b
<1>2. ASSUME NEW c \in DOMAIN CLAUSES
      PROVE  /\ zeros[c] \in Int /\ Cardinality(FalseIn(a, CLAUSES[c])) \in Nat
             /\ Cardinality(FalseIn(b, CLAUSES[c])) \in Nat
             /\ Cardinality(FalseIn(b, CLAUSES[c])) >= Cardinality(FalseIn(a, CLAUSES[c]))
             /\ c \in LIT_TO_CLAUSES(-l) =>
                  Cardinality(FalseIn(b, CLAUSES[c])) = Cardinality(FalseIn(a, CLAUSES[c])) + 1
  <2>1. CLAUSES[c] \in Seq(Literal)
    BY ClauseType
  <2>2. Cardinality(FalseIn(b, CLAUSES[c])) = Cardinality(FalseIn(a, CLAUSES[c]))
                                              + (IF -l \in Range(CLAUSES[c]) THEN 1 ELSE 0)
    BY <2>1, CountGrows DEF b
  <2>3. Cardinality(FalseIn(a, CLAUSES[c])) \in Nat
    BY <2>1, FalseFinite
  <2>4. c \in LIT_TO_CLAUSES(-l) => -l \in Range(CLAUSES[c])
    BY <2>1, LenProperties DEF LIT_TO_CLAUSES, Contains, Range
  <2> QED
    BY <2>2, <2>3, <2>4 DEF CountsFor
<1>3. NoMore(b, Counted(zeros, l))
  <2> SUFFICES ASSUME NEW c \in DOMAIN CLAUSES
               PROVE  Counted(zeros, l)[c] <= Cardinality(FalseIn(b, CLAUSES[c]))
    BY DEF NoMore
  <2>1. zeros[c] <= Cardinality(FalseIn(a, CLAUSES[c]))
    BY DEF NoMore
  <2>2. \/ Counted(zeros, l)[c] = zeros[c]
        \/ c \in LIT_TO_CLAUSES(-l) /\ Counted(zeros, l)[c] = zeros[c] + 1
    BY DEF Counted, CountsFor
  <2>3. zeros[c] \in Int
    BY DEF CountsFor
  <2> QED
    BY <1>2, <2>1, <2>2, <2>3
<1>4. ASSUME NEW c \in Completed(zeros, l) PROVE Falsified(b)
  <2>1. c \in DOMAIN CLAUSES /\ c \in LIT_TO_CLAUSES(-l) /\ zeros[c] + 1 = Len(CLAUSES[c])
    BY DEF Completed, LIT_TO_CLAUSES
  <2>2. CLAUSES[c] \in Seq(Literal)
    BY <2>1, ClauseType
  <2>3. zeros[c] <= Cardinality(FalseIn(a, CLAUSES[c]))
    BY <2>1 DEF NoMore
  <2>4. /\ Len(CLAUSES[c]) \in Nat /\ Cardinality(Range(CLAUSES[c])) \in Nat
        /\ Cardinality(Range(CLAUSES[c])) <= Len(CLAUSES[c])
        /\ Cardinality(FalseIn(b, CLAUSES[c])) \in Nat
        /\ Cardinality(FalseIn(b, CLAUSES[c])) <= Cardinality(Range(CLAUSES[c]))
    BY <2>2, ClauseSize, FalseFinite
  <2>5. Cardinality(FalseIn(b, CLAUSES[c])) = Cardinality(Range(CLAUSES[c]))
    BY <1>2, <2>1, <2>3, <2>4
  <2>6. FalseIn(b, CLAUSES[c]) = Range(CLAUSES[c])
    BY <2>2, <2>5, FalseFinite
  <2> QED
    BY <2>1, <2>6 DEF Falsified, AllFalse
<1> QED
  BY <1>1, <1>3, <1>4 DEF b

\* unset_latest_assignment takes back every false literal it uncounts.
LEMMA UnsetCounts ==
  ASSUME CLAUSES \in Seq(Seq(Literal)), n_zeros \in CountsFor,
         ASSIGNMENT \in Assignment, NoMore(ASSIGNMENT, n_zeros),
         NEW k, Popped(k) \in SUBSET Var
  PROVE  UnsetZeros(k) \in CountsFor /\ NoMore(UnsetAssignment(k), UnsetZeros(k))
<1> SUFFICES ASSUME NEW c \in DOMAIN CLAUSES
             PROVE  /\ UnsetZeros(k)[c] \in Int
                    /\ UnsetZeros(k)[c] <= Cardinality(FalseIn(UnsetAssignment(k), CLAUSES[c]))
  <2>1. UnsetZeros(k) = [c \in DOMAIN CLAUSES |-> UnsetZeros(k)[c]]
    BY DEF UnsetZeros
  <2> QED
    BY <2>1 DEF CountsFor, NoMore
<1>0. UnsetAssignment(k) = Without(ASSIGNMENT, Popped(k))
  BY DEF UnsetAssignment, Without
<1> DEFINE s == CLAUSES[c]
           P == {l \in Range(s) : VarOf(l) \in Popped(k) /\ LitTrue(ASSIGNMENT, -l)}
<1>1. s \in Seq(Literal)
  BY ClauseType
<1>2. UnsetZeros(k)[c] = n_zeros[c] - Cardinality(P)
  BY DEF UnsetZeros, is_lit_true, LitTrue, Value
<1>3. /\ Cardinality(FalseIn(Without(ASSIGNMENT, Popped(k)), s))
           = Cardinality(FalseIn(ASSIGNMENT, s)) - Cardinality(P)
      /\ Cardinality(P) \in Nat
  <2> HIDE DEF s
  <2> QED
    BY <1>1, CountShrinks
<1>4. Cardinality(FalseIn(ASSIGNMENT, s)) \in Nat
  BY <1>1, FalseFinite
<1>5. n_zeros[c] \in Int /\ n_zeros[c] <= Cardinality(FalseIn(ASSIGNMENT, s))
  BY DEF CountsFor, NoMore
<1> HIDE DEF s, P
<1> QED
  BY <1>0, <1>2, <1>3, <1>4, <1>5 DEF s

\* LastOpen is the last entry tried one way.
LEMMA LastOpenIs ==
  ASSUME DECISION_STACK \in Seq(Decision)
  PROVE  /\ LastOpen \in 0 .. Len(DECISION_STACK)
         /\ LastOpen = 0 =>
              \A j \in 1 .. Len(DECISION_STACK) : DECISION_STACK[j].type # "TRIED_ONE_WAY"
         /\ LastOpen # 0 =>
              /\ LastOpen \in 1 .. Len(DECISION_STACK)
              /\ DECISION_STACK[LastOpen].type = "TRIED_ONE_WAY"
              /\ \A j \in 1 .. Len(DECISION_STACK) :
                   j > LastOpen => DECISION_STACK[j].type # "TRIED_ONE_WAY"
<1>1. LastOpen = SelectLastInSeq(DECISION_STACK, LAMBDA d : d.type = "TRIED_ONE_WAY")
  BY DEF LastOpen, SelectLastInSeq, IsOpen
<1> QED
  BY <1>1, LastOneWay

-----------------------------------------------------------------------------
(* What the solvers keep, and what set_literal makes of it *)

Kept == CountersTypeOK /\ NoMore(ASSIGNMENT, n_zeros) /\ Consistent(ASSIGNMENT, DECISION_STACK)

LEMMA TrailIs == trail = Trail(ASSIGNMENT, DECISION_STACK)
BY DEF trail, Trail, LitAt

LEMMA Setting ==
  ASSUME CLAUSES \in Seq(Seq(Literal)), UNCHANGED CLAUSES,
         NEW a \in Assignment, NEW st \in Seq(Decision), NEW zeros \in CountsFor,
         Consistent(a, st), NoMore(a, zeros),
         NEW l \in Literal, a[VarOf(l)] = UNASSIGNED,
         NEW type \in Types, type = "TRIED_ONE_WAY" => Value(l) = FALSE_,
         set_literal(a, st, zeros, l, type)
  PROVE  /\ Kept'
         /\ Completed(zeros, l) # {} => Falsified(ASSIGNMENT)'
         /\ trail' = Append(Trail(a, st), [lit |-> l, kind |-> type])
<1>1. /\ ASSIGNMENT' = With(a, l) /\ DECISION_STACK' = Pushed(st, l, type)
      /\ n_zeros' = Counted(zeros, l)
  BY DEF set_literal, With, Value, Pushed
<1>2. /\ Pushed(st, l, type) \in Seq(Decision)
      /\ Consistent(With(a, l), Pushed(st, l, type))
      /\ Trail(With(a, l), Pushed(st, l, type))
           = Append(Trail(a, st), [lit |-> l, kind |-> type])
  BY Push
<1>3. /\ Counted(zeros, l) \in CountsFor /\ NoMore(With(a, l), Counted(zeros, l))
      /\ Completed(zeros, l) # {} => Falsified(With(a, l))
  BY SetCounts
<1>4. With(a, l) \in Assignment
  <2>1. <<>> \in Seq(Literal)
    BY EmptySeq
  <2> QED
    BY <2>1, FalseGrows
<1>5. Len(Pushed(st, l, type)) <= NVars /\ Len(Pushed(st, l, type)) \in Nat
  BY <1>2, StackBound, LenProperties
<1>6. Consistent(ASSIGNMENT, DECISION_STACK)'
  BY <1>1, <1>2
<1>7. NoMore(ASSIGNMENT, n_zeros)'
  BY <1>1, <1>3 DEF NoMore
<1>8. CountersTypeOK'
  BY <1>1, <1>2, <1>3, <1>4, <1>5, NVarsAssumption
     DEF CountersTypeOK, CountsFor, Assignment, Decision, Types, N_VARS
<1>9. Completed(zeros, l) # {} => Falsified(ASSIGNMENT)'
  BY <1>1, <1>3 DEF Falsified, AllFalse
<1>10. trail' = Trail(ASSIGNMENT', DECISION_STACK')
  BY DEF trail, Trail, LitAt
<1> QED
  BY <1>1, <1>2, <1>6, <1>7, <1>8, <1>9, <1>10 DEF Kept

LEMMA KeptTypes ==
  ASSUME Kept
  PROVE  /\ CLAUSES \in Seq(Seq(Literal)) /\ n_zeros \in CountsFor
         /\ ASSIGNMENT \in Assignment /\ DECISION_STACK \in Seq(Decision)
         /\ NoMore(ASSIGNMENT, n_zeros) /\ Consistent(ASSIGNMENT, DECISION_STACK)
BY DEF Kept, CountersTypeOK, CountsFor, Assignment, Decision, Types

\* Unwinding the stack down to its k-th entry.
LEMMA Unwinding ==
  ASSUME Kept, NEW k \in 1 .. Len(DECISION_STACK) + 1
  PROVE  /\ UnsetAssignment(k) \in Assignment
         /\ SubSeq(DECISION_STACK, 1, k - 1) \in Seq(Decision)
         /\ UnsetZeros(k) \in CountsFor
         /\ Consistent(UnsetAssignment(k), SubSeq(DECISION_STACK, 1, k - 1))
         /\ NoMore(UnsetAssignment(k), UnsetZeros(k))
         /\ Trail(UnsetAssignment(k), SubSeq(DECISION_STACK, 1, k - 1))
              = SubSeq(trail, 1, k - 1)
         /\ k <= Len(DECISION_STACK) => UnsetAssignment(k)[DECISION_STACK[k].var] = UNASSIGNED
<1>1. /\ Popped(k) = VarsFrom(DECISION_STACK, k)
      /\ UnsetAssignment(k) = Without(ASSIGNMENT, Popped(k))
  BY DEF Popped, VarsFrom, UnsetAssignment, Without
<1>2. /\ VarsFrom(DECISION_STACK, k) \in SUBSET Var
      /\ SubSeq(DECISION_STACK, 1, k - 1) \in Seq(Decision)
      /\ Consistent(Without(ASSIGNMENT, VarsFrom(DECISION_STACK, k)),
                    SubSeq(DECISION_STACK, 1, k - 1))
      /\ Trail(Without(ASSIGNMENT, VarsFrom(DECISION_STACK, k)), SubSeq(DECISION_STACK, 1, k - 1))
           = SubSeq(Trail(ASSIGNMENT, DECISION_STACK), 1, k - 1)
      /\ k <= Len(DECISION_STACK) =>
           Without(ASSIGNMENT, VarsFrom(DECISION_STACK, k))[DECISION_STACK[k].var] = UNASSIGNED
  BY KeptTypes, Pop
<1>3. UnsetZeros(k) \in CountsFor /\ NoMore(UnsetAssignment(k), UnsetZeros(k))
  BY <1>1, <1>2, KeptTypes, UnsetCounts
<1>4. UnsetAssignment(k) \in Assignment
  <2>1. <<>> \in Seq(Literal)
    BY EmptySeq
  <2> QED
    BY <1>1, <1>2, <2>1, KeptTypes, FalseShrinks
<1> QED
  BY <1>1, <1>2, <1>3, <1>4, TrailIs

\* No count is above zero at the start, and nothing is assigned.
LEMMA Starting ==
  ASSUME InitCounters
  PROVE  Kept /\ trail = <<>>
<1>1. CLAUSES \in Seq(Seq(Literal))
  BY InputsAssumption DEF InitCounters
<1>2. DECISION_STACK \in Seq(Decision) /\ Len(DECISION_STACK) = 0 /\ DOMAIN DECISION_STACK = {}
  BY EmptySeq DEF InitCounters
<1>3. Consistent(ASSIGNMENT, DECISION_STACK)
  BY <1>2 DEF InitCounters, Consistent
<1>4. NoMore(ASSIGNMENT, n_zeros)
  <2> SUFFICES ASSUME NEW c \in DOMAIN CLAUSES
               PROVE  n_zeros[c] <= Cardinality(FalseIn(ASSIGNMENT, CLAUSES[c]))
    BY DEF NoMore
  <2>1. Cardinality(FalseIn(ASSIGNMENT, CLAUSES[c])) \in Nat
    BY <1>1, ClauseType, FalseFinite
  <2> QED
    BY <2>1 DEF InitCounters
<1>5. CountersTypeOK
  BY <1>1, <1>2, NVarsAssumption
     DEF CountersTypeOK, InitCounters, Decision, Types, N_VARS
<1>6. trail = <<>>
  BY <1>2 DEF trail
<1> QED
  BY <1>3, <1>4, <1>5, <1>6 DEF Kept

-----------------------------------------------------------------------------
(* The inductive invariant *)

(* A falsified clause is behind every conflict; main checks all clauses     *)
(* when a clause is falsified or every variable has a value.                *)
Located ==
  /\ answer = "none" <=> pc # "done"
  /\ pc = "conflict" => Falsified(ASSIGNMENT)
  /\ pc = "check" => Falsified(ASSIGNMENT) \/ \A v \in Var : ASSIGNMENT[v] # UNASSIGNED

Control == /\ pc \in {"bcp", "conflict", "decide", "check", "done"}
           /\ i \in 1 .. N_CLAUSES + 1 /\ changed \in BOOLEAN
           /\ answer \in {"none", "SAT", "UNSAT"}

IInv == Kept /\ Control /\ Located

-----------------------------------------------------------------------------
(* What the abstract search sees *)

LEMMA SearchLiteral == Search!Literal = Literal
BY DEF Search!Literal, Literal

LEMMA TrueMeans ==
  ASSUME Kept, NEW l \in Literal
  PROVE  l \in Search!True(trail) <=> LitTrue(ASSIGNMENT, l)
<1>1. l \in Lits(Trail(ASSIGNMENT, DECISION_STACK)) <=> LitTrue(ASSIGNMENT, l)
  BY KeptTypes, TrailTrue
<1> QED
  BY <1>1, TrailIs DEF Search!True, Lits

LEMMA AssignedMeans ==
  ASSUME Kept, NEW l \in Literal
  PROVE  Search!Assigned(l) <=> ASSIGNMENT[VarOf(l)] # UNASSIGNED
<1>1. /\ VarOf(l) \in Var /\ VarOf(-l) = VarOf(l) /\ -l \in Literal
      /\ Value(l) \in {FALSE_, TRUE_} /\ Value(-l) \in {FALSE_, TRUE_} /\ Value(-l) # Value(l)
  BY Literals
<1>2. ASSIGNMENT[VarOf(l)] \in {UNASSIGNED, FALSE_, TRUE_} /\ UNASSIGNED \notin {FALSE_, TRUE_}
  BY <1>1, KeptTypes DEF Assignment, UNASSIGNED, FALSE_, TRUE_
<1>3. Search!Assigned(l) <=> LitTrue(ASSIGNMENT, l) \/ LitTrue(ASSIGNMENT, -l)
  BY <1>1, TrueMeans DEF Search!Assigned
<1> QED
  BY <1>1, <1>2, <1>3 DEF LitTrue

LEMMA ConflictMeans ==
  ASSUME Kept
  PROVE  Search!Conflict <=> Falsified(ASSIGNMENT)
<1>1. ASSUME NEW c \in DOMAIN CLAUSES
      PROVE  AllFalse(ASSIGNMENT, c) <=> \A l \in Range(CLAUSES[c]) : -l \in Search!True(trail)
  <2>1. Range(CLAUSES[c]) \subseteq Literal
    BY KeptTypes, ClauseType, ClauseSize
  <2>2. \A l \in Range(CLAUSES[c]) : -l \in Search!True(trail) <=> LitTrue(ASSIGNMENT, -l)
    BY <2>1, Literals, TrueMeans
  <2> QED
    BY <2>2 DEF AllFalse, FalseIn
<1> QED
  BY <1>1 DEF Search!Conflict, Falsified, formula

\* A clause without a true and without an unassigned literal is falsified.
LEMMA Undecided ==
  ASSUME Kept, NEW c \in DOMAIN CLAUSES, ~Satisfied(c),
         \A l \in Range(CLAUSES[c]) : ~Unassigned(l)
  PROVE  AllFalse(ASSIGNMENT, c)
<1>1. Range(CLAUSES[c]) \subseteq Literal
  BY KeptTypes, ClauseType, ClauseSize
<1>2. ASSUME NEW l \in Range(CLAUSES[c]) PROVE LitTrue(ASSIGNMENT, -l)
  <2>1. /\ l \in Literal /\ VarOf(l) \in Var /\ VarOf(-l) = VarOf(l) /\ -l \in Literal
        /\ Value(l) \in {FALSE_, TRUE_} /\ Value(-l) \in {FALSE_, TRUE_} /\ Value(-l) # Value(l)
    BY <1>1, Literals
  <2>2. ASSIGNMENT[VarOf(l)] \in {UNASSIGNED, FALSE_, TRUE_}
    BY <2>1, KeptTypes DEF Assignment
  <2>3. ASSIGNMENT[VarOf(l)] # UNASSIGNED /\ ASSIGNMENT[VarOf(l)] # Value(l)
    BY DEF Satisfied, Unassigned, is_lit_true, Value
  <2> QED
    BY <2>1, <2>2, <2>3 DEF LitTrue
<1> QED
  BY <1>2 DEF AllFalse, FalseIn

\* The literal bcp finds is an unassigned literal of the clause, if it has one.
LEMMA Forced ==
  ASSUME Kept, i \in DOMAIN CLAUSES
  PROVE  /\ forced_lit = 0 => \A l \in Range(CLAUSES[i]) : ~Unassigned(l)
         /\ forced_lit # 0 => forced_lit \in Range(CLAUSES[i]) /\ Unassigned(forced_lit)
<1>1. CLAUSES[i] \in Seq(Literal)
  BY KeptTypes, ClauseType
<1>2. forced_lit = FirstUnassigned(ASSIGNMENT, CLAUSES[i])
  BY DEF forced_lit, FirstUnassigned, SelectInSeq, Unassigned
<1> QED
  BY <1>1, <1>2, FirstUnassignedIs DEF Unassigned

\* A clause that looks unit has every literal false but the one bcp forces.
LEMMA Unit ==
  ASSUME Kept, NEW c \in DOMAIN CLAUSES, n_zeros[c] + 1 = Len(CLAUSES[c]),
         NEW l \in Range(CLAUSES[c]), Unassigned(l)
  PROVE  \A m \in Range(CLAUSES[c]) \ {l} : LitTrue(ASSIGNMENT, -m)
<1>1. CLAUSES[c] \in Seq(Literal) /\ ASSIGNMENT \in Assignment
  BY KeptTypes, ClauseType
<1>2. n_zeros[c] \in Int /\ n_zeros[c] <= Cardinality(FalseIn(ASSIGNMENT, CLAUSES[c]))
  BY KeptTypes DEF NoMore, CountsFor
<1>3. ASSIGNMENT[VarOf(l)] = UNASSIGNED
  BY DEF Unassigned
<1> QED
  BY <1>1, <1>2, <1>3, LooksUnitIsUnit

-----------------------------------------------------------------------------
(* Every step keeps the invariant and is a step of the search *)

SearchStep == [Search!Next]_(Search!vars)

LEMMA Stutter ==
  ASSUME UNCHANGED <<CLAUSES, n_zeros, ASSIGNMENT, DECISION_STACK>>
  PROVE  /\ Kept => Kept'
         /\ Falsified(ASSIGNMENT) => Falsified(ASSIGNMENT)'
         /\ trail' = trail /\ formula' = formula
<1>1. Kept => Kept'
  BY DEF Kept, CountersTypeOK, NoMore
<1>2. Falsified(ASSIGNMENT) => Falsified(ASSIGNMENT)'
  BY DEF Falsified, AllFalse
<1>3. trail' = trail /\ formula' = formula
  BY DEF trail, formula
<1> QED
  BY <1>1, <1>2, <1>3

\* The scan of a clause that is not unit, or is satisfied, changes only i.
LEMMA SkipStep == IInv /\ BcpSkip => IInv' /\ SearchStep
<1> SUFFICES ASSUME IInv, BcpSkip PROVE IInv' /\ SearchStep
  OBVIOUS
<1>1. Kept' /\ trail' = trail /\ formula' = formula
  BY Stutter DEF BcpSkip, IInv, cvars
<1>2. Control'
  <2>1. Len(CLAUSES) \in Nat
    BY KeptTypes, LenProperties DEF IInv
  <2> QED
    BY <2>1 DEF IInv, Control, BcpSkip, Scanning, cvars, N_CLAUSES
<1>3. Located'
  BY DEF IInv, Located, BcpSkip, Scanning, cvars
<1>4. UNCHANGED Search!vars
  BY <1>1 DEF BcpSkip, Search!vars
<1> QED
  BY <1>1, <1>2, <1>3, <1>4 DEF IInv, SearchStep

LEMMA AllFalseStep == IInv /\ BcpAllFalse => IInv' /\ SearchStep
<1> SUFFICES ASSUME IInv, BcpAllFalse PROVE IInv' /\ SearchStep
  OBVIOUS
<1>1. /\ Kept' /\ trail' = trail /\ formula' = formula
      /\ Falsified(ASSIGNMENT) => Falsified(ASSIGNMENT)'
  BY Stutter DEF BcpAllFalse, IInv, cvars
<1>2. Control'
  BY DEF IInv, Control, BcpAllFalse, cvars, N_CLAUSES
<1>3. i \in DOMAIN CLAUSES
  BY KeptTypes, LenProperties DEF IInv, Control, BcpAllFalse, Scanning, N_CLAUSES
<1>4. AllFalse(ASSIGNMENT, i)
  BY <1>3, Forced, Undecided DEF IInv, BcpAllFalse
<1>5. Falsified(ASSIGNMENT)'
  BY <1>1, <1>3, <1>4 DEF Falsified
<1>6. Located'
  BY <1>5 DEF IInv, Located, BcpAllFalse, Scanning, cvars
<1>7. UNCHANGED Search!vars
  BY <1>1 DEF BcpAllFalse, Search!vars
<1> QED
  BY <1>1, <1>2, <1>6, <1>7 DEF IInv, SearchStep

LEMMA RoundEndsStep == IInv /\ BcpRoundEnds => IInv' /\ SearchStep
<1> SUFFICES ASSUME IInv, BcpRoundEnds PROVE IInv' /\ SearchStep
  OBVIOUS
<1>1. Kept' /\ trail' = trail /\ formula' = formula
  BY Stutter DEF BcpRoundEnds, IInv, cvars
<1>2. Len(CLAUSES) \in Nat
  BY KeptTypes, LenProperties DEF IInv
<1>3. Control'
  <2>1. pc' \in {"bcp", "conflict", "decide", "check", "done"} /\ answer' = answer
    BY <1>2 DEF IInv, Control, BcpRoundEnds, StartBcp, cvars, N_CLAUSES
  <2>2. i' \in 1 .. N_CLAUSES' + 1
    BY <1>2 DEF IInv, Control, BcpRoundEnds, StartBcp, cvars, N_CLAUSES
  <2>3. changed' \in BOOLEAN
    BY <1>2, Zenon DEF IInv, Control, BcpRoundEnds, StartBcp, cvars, N_CLAUSES
  <2> QED
    BY <2>1, <2>2, <2>3 DEF IInv, Control
<1>4. Located'
  BY DEF IInv, Located, BcpRoundEnds, StartBcp, cvars
<1>5. UNCHANGED Search!vars
  BY <1>1 DEF BcpRoundEnds, Search!vars
<1> QED
  BY <1>1, <1>3, <1>4, <1>5 DEF IInv, SearchStep

\* A forced literal is one the search may propagate.
LEMMA ForceStep == IInv /\ BcpForce => IInv' /\ SearchStep
<1> SUFFICES ASSUME IInv, BcpForce PROVE IInv' /\ SearchStep
  OBVIOUS
<1> DEFINE l == forced_lit
           e == [lit |-> l, kind |-> "IMPLIED"]
<1>1. Kept /\ Control /\ Located /\ UNCHANGED CLAUSES
  BY DEF IInv, BcpForce
<1>2. i \in DOMAIN CLAUSES
  BY <1>1, KeptTypes, LenProperties DEF Control, BcpForce, Scanning, N_CLAUSES
<1>3. l \in Range(CLAUSES[i]) /\ Unassigned(l)
  BY <1>1, <1>2, Forced DEF BcpForce
<1>4. l \in Literal /\ Range(CLAUSES[i]) \subseteq Literal
  BY <1>1, <1>2, <1>3, KeptTypes, ClauseType, ClauseSize
<1>5. ASSIGNMENT[VarOf(l)] = UNASSIGNED
  BY <1>3 DEF Unassigned
<1>6. set_literal(ASSIGNMENT, DECISION_STACK, n_zeros, l, "IMPLIED")
  BY DEF BcpForce
<1> HIDE DEF l
<1>7. /\ Kept' /\ (Completed(n_zeros, l) # {} => Falsified(ASSIGNMENT)')
      /\ trail' = Append(Trail(ASSIGNMENT, DECISION_STACK), e)
  <2>1. "IMPLIED" \in Types /\ "IMPLIED" # "TRIED_ONE_WAY"
    BY DEF Types
  <2> QED
    BY <1>1, <1>4, <1>5, <1>6, <2>1, KeptTypes, Setting
<1>8. Len(CLAUSES) \in Nat
  BY <1>1, KeptTypes, LenProperties
<1>9. Control'
  <2>1. pc' \in {"bcp", "conflict", "decide", "check", "done"} /\ answer' = answer
    BY <1>1, <1>8 DEF Control, BcpForce, Scanning, N_CLAUSES
  <2>2. i' \in 1 .. N_CLAUSES' + 1
    BY <1>1, <1>8 DEF Control, BcpForce, Scanning, N_CLAUSES
  <2>3. changed' \in BOOLEAN
    BY <1>1, <1>8, Zenon DEF Control, BcpForce, Scanning, N_CLAUSES
  <2> QED
    BY <1>1, <2>1, <2>2, <2>3 DEF Control
<1>10. Located'
  BY <1>1, <1>7 DEF Located, BcpForce, Scanning, l
<1>11. Search!Propagate(l)
  <2>1. \A m \in Range(CLAUSES[i]) \ {l} : LitTrue(ASSIGNMENT, -m)
    BY <1>1, <1>2, <1>3, Unit DEF BcpForce, LooksUnit
  <2>2. \A m \in Range(CLAUSES[i]) \ {l} : -m \in Search!True(trail)
    BY <1>1, <1>4, <2>1, Literals, TrueMeans
  <2>3. Range(CLAUSES[i]) \in formula
    BY <1>2 DEF formula
  <2>4. ~Search!Assigned(l)
    BY <1>1, <1>4, <1>5, AssignedMeans
  <2>5. answer = "none" /\ answer' = answer
    BY <1>1 DEF Located, BcpForce, Scanning
  <2>6. formula' = formula
    BY <1>1 DEF formula
  <2> QED
    BY <1>3, <1>7, <2>2, <2>3, <2>4, <2>5, <2>6, TrailIs DEF Search!Propagate, Search!Assign
<1> QED
  BY <1>1, <1>4, <1>7, <1>9, <1>10, <1>11, SearchLiteral DEF IInv, SearchStep, Search!Next

\* A decision is one of the search's, on the literal -v.
LEMMA DecideStep == IInv /\ decide => IInv' /\ SearchStep
<1> SUFFICES ASSUME IInv, decide PROVE IInv' /\ SearchStep
  OBVIOUS
<1>1. Kept /\ Control /\ Located /\ UNCHANGED CLAUSES /\ answer' = answer /\ pc = "decide"
  BY DEF IInv, decide
<1>2. Len(CLAUSES) \in Nat /\ formula' = formula
  BY <1>1, KeptTypes, LenProperties DEF formula
<1>3. CASE {v \in Var : ASSIGNMENT[v] = UNASSIGNED} = {}
  <2>1. pc' = "check" /\ UNCHANGED <<n_zeros, ASSIGNMENT, DECISION_STACK, i, changed>>
    BY <1>3 DEF decide
  <2>2. Kept' /\ trail' = trail
    BY <1>1, <2>1, Stutter
  <2>3. Control'
    BY <1>1, <2>1 DEF Control, N_CLAUSES
  <2>4. Located'
    BY <1>1, <1>3, <2>1 DEF Located
  <2>5. UNCHANGED Search!vars
    BY <1>1, <1>2, <2>2 DEF Search!vars
  <2> QED
    BY <2>2, <2>3, <2>4, <2>5 DEF IInv, SearchStep
<1>4. CASE {v \in Var : ASSIGNMENT[v] = UNASSIGNED} # {}
  <2>1. PICK v \in Var :
          /\ ASSIGNMENT[v] = UNASSIGNED
          /\ set_literal(ASSIGNMENT, DECISION_STACK, n_zeros, -v, "TRIED_ONE_WAY")
          /\ IF Completed(n_zeros, -v) = {} THEN StartBcp
                                            ELSE pc' = "check" /\ UNCHANGED <<i, changed>>
    BY <1>4 DEF decide
  <2> DEFINE l == -v
             e == [lit |-> l, kind |-> "TRIED_ONE_WAY"]
  <2>2. l \in Literal /\ VarOf(l) = v /\ Value(l) = FALSE_
    BY Literals
  <2>3. set_literal(ASSIGNMENT, DECISION_STACK, n_zeros, l, "TRIED_ONE_WAY")
    BY <2>1
  <2>4. IF Completed(n_zeros, l) = {} THEN StartBcp
                                      ELSE pc' = "check" /\ UNCHANGED <<i, changed>>
    BY <2>1
  <2>5. ASSIGNMENT[VarOf(l)] = UNASSIGNED
    BY <2>1, <2>2
  <2> HIDE DEF l
  <2>6. /\ Kept' /\ (Completed(n_zeros, l) # {} => Falsified(ASSIGNMENT)')
        /\ trail' = Append(Trail(ASSIGNMENT, DECISION_STACK), e)
    <3>1. "TRIED_ONE_WAY" \in Types
      BY DEF Types
    <3> QED
      BY <1>1, <2>2, <2>3, <2>5, <3>1, KeptTypes, Setting
  <2>7. Control'
    <3>1. pc' \in {"bcp", "conflict", "decide", "check", "done"} /\ answer' = answer
      BY <1>1, <1>2, <2>4 DEF Control, StartBcp, N_CLAUSES
    <3>2. i' \in 1 .. N_CLAUSES' + 1
      BY <1>1, <1>2, <2>4 DEF Control, StartBcp, N_CLAUSES
    <3>3. changed' \in BOOLEAN
      BY <1>1, <1>2, <2>4, Zenon DEF Control, StartBcp, N_CLAUSES
    <3> QED
      BY <1>1, <3>1, <3>2, <3>3 DEF Control
  <2>8. Located'
    BY <1>1, <2>4, <2>6 DEF Located, StartBcp
  <2>9. Search!Decide(l)
    <3>1. ~Search!Assigned(l)
      BY <1>1, <2>2, <2>5, AssignedMeans
    <3>2. answer = "none"
      BY <1>1 DEF Located
    <3> QED
      BY <1>1, <1>2, <2>6, <3>1, <3>2, TrailIs DEF Search!Decide, Search!Assign
  <2> QED
    BY <2>2, <2>6, <2>7, <2>8, <2>9, SearchLiteral DEF IInv, SearchStep, Search!Next
<1> QED
  BY <1>3, <1>4

\* main prints SAT only when the search may.
LEMMA CheckStep == IInv /\ checkAllClauses => IInv' /\ SearchStep
<1> SUFFICES ASSUME IInv, checkAllClauses PROVE IInv' /\ SearchStep
  OBVIOUS
<1>1. Kept /\ Control /\ Located /\ pc = "check" /\ answer = "none"
      /\ UNCHANGED <<CLAUSES, n_zeros, ASSIGNMENT, DECISION_STACK, i, changed>>
  BY DEF IInv, checkAllClauses, Located, cvars
<1>2. /\ Kept' /\ trail' = trail /\ formula' = formula
      /\ Falsified(ASSIGNMENT) => Falsified(ASSIGNMENT)'
  BY <1>1, Stutter
<1>3. ASSUME NEW c \in DOMAIN CLAUSES, Satisfied(c), AllFalse(ASSIGNMENT, c) PROVE FALSE
  <2>1. PICK l \in Range(CLAUSES[c]) : LitTrue(ASSIGNMENT, l)
    BY <1>3 DEF Satisfied, is_lit_true, LitTrue, Value
  <2>2. LitTrue(ASSIGNMENT, -l)
    BY <1>3 DEF AllFalse, FalseIn
  <2>3. l \in Literal
    BY <1>1, KeptTypes, ClauseType, ClauseSize
  <2> QED
    BY <2>1, <2>2, <2>3, Literals DEF LitTrue
<1>4. CASE \A c \in DOMAIN CLAUSES : Satisfied(c)
  <2>1. answer' = "SAT" /\ pc' = "done"
    BY <1>4 DEF checkAllClauses
  <2>2. ~Falsified(ASSIGNMENT)
    BY <1>3, <1>4 DEF Falsified
  <2>3. ~Search!Conflict
    BY <1>1, <2>2, ConflictMeans
  <2>4. \A l \in Literal : Search!Assigned(l)
    BY <1>1, <2>2, Literals, AssignedMeans DEF Located
  <2>5. Search!Succeed
    BY <1>1, <1>2, <2>1, <2>3, <2>4, SearchLiteral DEF Search!Succeed
  <2>6. Control' /\ Located'
    BY <1>1, <2>1 DEF Control, Located, N_CLAUSES
  <2> QED
    BY <1>2, <2>5, <2>6 DEF IInv, SearchStep, Search!Next
<1>5. CASE ~ \A c \in DOMAIN CLAUSES : Satisfied(c)
  <2>1. pc' = "conflict" /\ answer' = answer
    BY <1>5 DEF checkAllClauses
  <2>2. Falsified(ASSIGNMENT)
    <3>1. CASE \A v \in Var : ASSIGNMENT[v] # UNASSIGNED
      <4>1. PICK c \in DOMAIN CLAUSES : ~Satisfied(c)
        BY <1>5
      <4>2. Range(CLAUSES[c]) \subseteq Literal
        BY <1>1, KeptTypes, ClauseType, ClauseSize
      <4>3. \A l \in Range(CLAUSES[c]) : ~Unassigned(l)
        BY <3>1, <4>2, Literals DEF Unassigned
      <4> QED
        BY <1>1, <4>1, <4>3, Undecided DEF Falsified
    <3> QED
      BY <1>1, <3>1 DEF Located
  <2>3. Control' /\ Located'
    BY <1>1, <1>2, <2>1, <2>2 DEF Control, Located, N_CLAUSES
  <2>4. UNCHANGED Search!vars
    BY <1>2, <2>1 DEF Search!vars
  <2> QED
    BY <1>2, <2>3, <2>4 DEF IInv, SearchStep
<1> QED
  BY <1>4, <1>5

\* The last entry tried one way is the search's last open decision.
LEMMA LastOpenMeans ==
  ASSUME Kept
  PROVE  /\ LastOpen = 0 => \A k \in DOMAIN trail : trail[k].kind # "TRIED_ONE_WAY"
         /\ LastOpen # 0 =>
              /\ LastOpen \in 1 .. Len(DECISION_STACK)
              /\ LastOpen \in DOMAIN trail /\ Search!LastOpen(LastOpen)
              /\ DECISION_STACK[LastOpen].var \in Var
              /\ trail[LastOpen].lit = -DECISION_STACK[LastOpen].var
<1>1. /\ DOMAIN trail = 1 .. Len(DECISION_STACK)
      /\ \A j \in 1 .. Len(DECISION_STACK) :
           /\ trail[j] = LitAt(ASSIGNMENT, DECISION_STACK[j])
           /\ trail[j].kind = DECISION_STACK[j].type
           /\ DECISION_STACK[j].var \in Var
  <2>1. /\ DOMAIN Trail(ASSIGNMENT, DECISION_STACK) = 1 .. Len(DECISION_STACK)
        /\ \A j \in 1 .. Len(DECISION_STACK) :
             /\ Trail(ASSIGNMENT, DECISION_STACK)[j] = LitAt(ASSIGNMENT, DECISION_STACK[j])
             /\ DECISION_STACK[j] \in Decision
    BY KeptTypes, TrailType
  <2>2. trail = Trail(ASSIGNMENT, DECISION_STACK)
    BY TrailIs
  <2>3. \A j \in 1 .. Len(DECISION_STACK) : trail[j] = LitAt(ASSIGNMENT, DECISION_STACK[j])
    BY <2>1, <2>2
  <2>4. \A d \in Decision : LitAt(ASSIGNMENT, d).kind = d.type /\ d.var \in Var
    BY DEF LitAt, Decision
  <2> QED
    BY <2>1, <2>2, <2>3, <2>4
<1>2. DECISION_STACK \in Seq(Decision) /\ DOMAIN DECISION_STACK = 1 .. Len(DECISION_STACK)
  BY KeptTypes, LenProperties
<1>3. CASE LastOpen = 0
  BY <1>1, <1>2, <1>3, LastOpenIs
<1>4. CASE LastOpen # 0
  <2>1. /\ LastOpen \in 1 .. Len(DECISION_STACK)
        /\ DECISION_STACK[LastOpen].type = "TRIED_ONE_WAY"
        /\ \A j \in 1 .. Len(DECISION_STACK) :
             j > LastOpen => DECISION_STACK[j].type # "TRIED_ONE_WAY"
    BY <1>2, <1>4, LastOpenIs
  <2>2. Search!LastOpen(LastOpen)
    BY <1>1, <2>1 DEF Search!LastOpen
  <2>3. ASSIGNMENT[DECISION_STACK[LastOpen].var] = FALSE_
    BY <1>2, <2>1, KeptTypes DEF Consistent
  <2>4. trail[LastOpen].lit = -DECISION_STACK[LastOpen].var
    BY <1>1, <2>1, <2>3 DEF LitAt, TRUE_, FALSE_
  <2> QED
    BY <1>1, <1>4, <2>1, <2>2, <2>4
<1> QED
  BY <1>3, <1>4

\* A conflict makes the search flip its last open decision, or give up.
LEMMA ResolveStep == IInv /\ resolveConflict => IInv' /\ SearchStep
<1> SUFFICES ASSUME IInv, resolveConflict PROVE IInv' /\ SearchStep
  OBVIOUS
<1>1. /\ Kept /\ Control /\ Located /\ UNCHANGED CLAUSES
      /\ pc = "conflict" /\ answer = "none"
  BY DEF IInv, resolveConflict, Located
<1>2. Len(CLAUSES) \in Nat /\ formula' = formula /\ Len(DECISION_STACK) \in Nat
  BY <1>1, KeptTypes, LenProperties DEF formula
<1>3. Search!Conflict
  BY <1>1, ConflictMeans DEF Located
<1>4. CASE LastOpen = 0
  <2>1. /\ ASSIGNMENT' = UnsetAssignment(1) /\ DECISION_STACK' = <<>>
        /\ n_zeros' = UnsetZeros(1)
        /\ answer' = "UNSAT" /\ pc' = "done" /\ UNCHANGED <<i, changed>>
    BY <1>4 DEF resolveConflict
  <2>2. SubSeq(DECISION_STACK, 1, 1 - 1) = <<>>
    BY SubSeqEmpty
  <2>3. /\ UnsetAssignment(1) \in Assignment /\ UnsetZeros(1) \in CountsFor
        /\ Consistent(UnsetAssignment(1), <<>>)
        /\ NoMore(UnsetAssignment(1), UnsetZeros(1))
    <3>1. 1 \in 1 .. Len(DECISION_STACK) + 1
      BY <1>2
    <3> QED
      BY <1>1, <2>2, <3>1, Unwinding
  <2>4. <<>> \in Seq(Decision) /\ Len(<<>>) = 0
    BY EmptySeq
  <2>5. CountersTypeOK'
    BY <1>1, <2>1, <2>3, <2>4, KeptTypes, NVarsAssumption
       DEF CountersTypeOK, CountsFor, Assignment, Decision, Types, N_VARS
  <2>6. Kept'
    BY <1>1, <2>1, <2>3, <2>5 DEF Kept, NoMore
  <2>7. trail' = <<>>
    BY <2>1 DEF trail
  <2>8. Search!Fail
    BY <1>1, <1>2, <1>3, <1>4, <2>1, <2>7, LastOpenMeans DEF Search!Fail
  <2>9. Control' /\ Located'
    BY <1>1, <2>1 DEF Control, Located, N_CLAUSES
  <2> QED
    BY <2>6, <2>8, <2>9 DEF IInv, SearchStep, Search!Next
<1>5. CASE LastOpen # 0
  <2>1. PICK k \in 1 .. Len(DECISION_STACK) : k = LastOpen
    BY <1>1, <1>5, LastOpenMeans
  <2>2. /\ k \in DOMAIN trail /\ Search!LastOpen(k) /\ DECISION_STACK[k].var \in Var
        /\ trail[k].lit = -DECISION_STACK[k].var
    BY <1>1, <1>5, <2>1, LastOpenMeans
  <2> DEFINE l == DECISION_STACK[k].var
             e == [lit |-> l, kind |-> "TRIED_BOTH_WAYS"]
  <2>3. /\ set_literal(UnsetAssignment(k), SubSeq(DECISION_STACK, 1, k - 1),
                       UnsetZeros(k), l, "TRIED_BOTH_WAYS")
        /\ IF Completed(UnsetZeros(k), l) = {} THEN StartBcp ELSE UNCHANGED <<pc, i, changed>>
        /\ answer' = answer
    BY <1>5, <2>1 DEF resolveConflict
  <2>4. /\ UnsetAssignment(k) \in Assignment
        /\ SubSeq(DECISION_STACK, 1, k - 1) \in Seq(Decision)
        /\ UnsetZeros(k) \in CountsFor
        /\ Consistent(UnsetAssignment(k), SubSeq(DECISION_STACK, 1, k - 1))
        /\ NoMore(UnsetAssignment(k), UnsetZeros(k))
        /\ Trail(UnsetAssignment(k), SubSeq(DECISION_STACK, 1, k - 1)) = SubSeq(trail, 1, k - 1)
        /\ UnsetAssignment(k)[l] = UNASSIGNED
    <3>1. k \in 1 .. Len(DECISION_STACK) + 1 /\ k <= Len(DECISION_STACK)
      BY <1>2
    <3> QED
      BY <1>1, <3>1, Unwinding
  <2>5. l \in Literal /\ VarOf(l) = l /\ -(-l) = l
    BY <2>2, Literals
  <2> HIDE DEF l
  <2>6. UnsetAssignment(k)[VarOf(l)] = UNASSIGNED
    BY <2>4, <2>5
  <2>7. /\ Kept' /\ (Completed(UnsetZeros(k), l) # {} => Falsified(ASSIGNMENT)')
        /\ trail' = Append(SubSeq(trail, 1, k - 1), e)
    <3>1. "TRIED_BOTH_WAYS" \in Types /\ "TRIED_BOTH_WAYS" # "TRIED_ONE_WAY"
      BY DEF Types
    <3>2. /\ Kept' /\ (Completed(UnsetZeros(k), l) # {} => Falsified(ASSIGNMENT)')
          /\ trail' = Append(Trail(UnsetAssignment(k), SubSeq(DECISION_STACK, 1, k - 1)), e)
      BY <1>1, <2>3, <2>4, <2>5, <2>6, <3>1, KeptTypes, Setting
    <3> QED
      BY <2>4, <3>2
  <2>8. Search!Backtrack(k)
    <3>1. -trail[k].lit = l
      BY <2>2, <2>5 DEF l
    <3> QED
      BY <1>1, <1>2, <1>3, <2>2, <2>3, <2>7, <3>1 DEF Search!Backtrack
  <2>9. Control'
    <3>1. pc' \in {"bcp", "conflict", "decide", "check", "done"}
      BY <1>1, <2>3 DEF StartBcp
    <3>2. i' \in 1 .. N_CLAUSES' + 1
      BY <1>1, <1>2, <2>3 DEF Control, StartBcp, N_CLAUSES
    <3>3. changed' \in BOOLEAN
      BY <1>1, <2>3, Zenon DEF Control, StartBcp
    <3> QED
      BY <1>1, <2>3, <3>1, <3>2, <3>3 DEF Control
  <2>10. Located'
    BY <1>1, <2>3, <2>7 DEF Located, StartBcp
  <2> QED
    BY <2>2, <2>7, <2>8, <2>9, <2>10 DEF IInv, SearchStep, Search!Next
<1> QED
  BY <1>4, <1>5

-----------------------------------------------------------------------------
(* The theorems *)

LEMMA Start == Init => IInv /\ Search!Init
<1> SUFFICES ASSUME Init PROVE IInv /\ Search!Init
  OBVIOUS
<1>1. Kept /\ trail = <<>>
  BY Starting DEF Init
<1>2. Len(CLAUSES) \in Nat
  BY <1>1, KeptTypes, LenProperties
<1>3. Control
  <2>1. changed \in BOOLEAN
    BY Zenon DEF Init
  <2> QED
    BY <1>2, <2>1 DEF Init, Control, N_CLAUSES
<1>4. Located
  BY DEF Init, Located
<1>5. formula \in SUBSET SUBSET Search!Literal
  <2>1. \A c \in DOMAIN CLAUSES : Range(CLAUSES[c]) \subseteq Literal
    BY <1>1, KeptTypes, ClauseType, ClauseSize
  <2> QED
    BY <2>1, SearchLiteral DEF formula
<1>6. Search!Init
  BY <1>1, <1>5 DEF Search!Init, Init
<1> QED
  BY <1>1, <1>3, <1>4, <1>6 DEF IInv

LEMMA Steps == IInv /\ [Next]_vars => IInv' /\ SearchStep
<1>1. ASSUME IInv, UNCHANGED vars PROVE IInv' /\ SearchStep
  <2>1. Kept' /\ trail' = trail /\ formula' = formula
        /\ (Falsified(ASSIGNMENT) => Falsified(ASSIGNMENT)')
    BY <1>1, Stutter DEF IInv, vars, cvars
  <2>2. Control' /\ Located'
    BY <1>1, <2>1 DEF IInv, Control, Located, vars, cvars, N_CLAUSES
  <2>3. UNCHANGED Search!vars
    BY <1>1, <2>1 DEF vars, Search!vars
  <2> QED
    BY <2>1, <2>2, <2>3 DEF IInv, SearchStep
<1> QED
  BY <1>1, SkipStep, AllFalseStep, ForceStep, RoundEndsStep, DecideStep, CheckStep, ResolveStep
     DEF Next

(* The inductive invariant of basic.c. *)
THEOREM Invariance == Spec => []IInv
BY Start, Steps, PTL DEF Spec

(* basic.c keeps its types. *)
THEOREM TypeCorrect == Spec => []TypeOK
<1>1. IInv => TypeOK
  BY DEF IInv, Kept, Control, TypeOK
<1> QED
  BY <1>1, Invariance, PTL

(* n_zeros never exceeds the false literals of a clause, although set_literal
   returns before it has counted them all. *)
THEOREM CountsLag == Spec => []NeverOvercounts
<1>1. IInv => NeverOvercounts
  <2> SUFFICES ASSUME IInv, NEW c \in DOMAIN CLAUSES
               PROVE  n_zeros[c] <= Cardinality(FalseLiterals(c))
    BY DEF NeverOvercounts
  <2>1. FalseLiterals(c) = FalseIn(ASSIGNMENT, CLAUSES[c])
    BY DEF FalseLiterals, FalseIn, LitTrue, is_lit_true, Value
  <2> QED
    BY <2>1 DEF IInv, Kept, NoMore
<1> QED
  BY <1>1, Invariance, PTL

(* Every run of basic.c is a run of the abstract search: what bcp misses,
   checkAllClauses finds. *)
THEOREM Refinement == Spec => SearchSpec
<1>1. Spec => Search!Init /\ [][Search!Next]_(Search!vars)
  BY Start, Steps, Invariance, PTL DEF Spec, SearchStep
<1> QED
  BY <1>1 DEF SearchSpec, Search!Spec

(* basic.c prints SAT only with an assignment that satisfies the input, and
   UNSAT only for an input that no assignment satisfies. *)
AnswerIsRight ==
  /\ answer = "SAT" => \A c \in DOMAIN CLAUSES : Satisfied(c)
  /\ answer = "UNSAT" => Unsatisfiable(formula)

Answered == INSTANCE Dpll_proofs

THEOREM AnswersAreRight == Spec => []AnswerIsRight
<1>1. Search!Init => Answered!Init
  BY DEF Search!Init, Answered!Init, Search!Literal, Answered!Literal
<1>2. SearchStep => [Answered!Next]_(Answered!vars)
  BY DEF SearchStep, Search!vars, Answered!vars, Search!Next, Answered!Next,
     Search!Literal, Answered!Literal, Search!Decide, Answered!Decide,
     Search!Propagate, Answered!Propagate, Search!Assign, Answered!Assign,
     Search!Assigned, Answered!Assigned, Search!True, Answered!True,
     Search!Backtrack, Answered!Backtrack, Search!LastOpen, Answered!LastOpen,
     Search!Conflict, Answered!Conflict, Search!Fail, Answered!Fail,
     Search!Succeed, Answered!Succeed
<1>3. Spec => Answered!Spec
  BY <1>1, <1>2, Start, Steps, Invariance, PTL DEF Spec, Answered!Spec
<1>4. Answered!Spec => []Answered!SatSound
  BY Answered!SatIsRight, NVarsAssumption, PTL
<1>5. Answered!Spec => []Answered!UnsatSound
  BY Answered!UnsatIsRight, NVarsAssumption, PTL
<1>6. IInv /\ Answered!SatSound /\ Answered!UnsatSound => AnswerIsRight
  <2> SUFFICES ASSUME IInv, Answered!SatSound, Answered!UnsatSound PROVE AnswerIsRight
    OBVIOUS
  <2>1. answer = "UNSAT" => Unsatisfiable(formula)
    BY DEF Answered!UnsatSound, Answered!Unsatisfiable, Answered!Models, Answered!Satisfies,
           Answered!Literal, Unsatisfiable, Models, Satisfies, Literal
  <2>2. ASSUME answer = "SAT", NEW c \in DOMAIN CLAUSES PROVE Satisfied(c)
    <3>1. Range(CLAUSES[c]) \in formula
      BY DEF formula
    <3>2. PICK l \in Range(CLAUSES[c]) : l \in Answered!True(trail)
      BY <2>2, <3>1 DEF Answered!SatSound, Answered!Satisfies
    <3>3. l \in Search!True(trail)
      BY <3>2 DEF Answered!True, Search!True
    <3>4. l \in Literal
      BY KeptTypes, ClauseType, ClauseSize DEF IInv
    <3>5. LitTrue(ASSIGNMENT, l)
      BY <3>3, <3>4, TrueMeans DEF IInv
    <3> QED
      BY <3>5 DEF Satisfied, is_lit_true, LitTrue, Value
  <2> QED
    BY <2>1, <2>2 DEF AnswerIsRight
<1> QED
  BY <1>3, <1>4, <1>5, <1>6, Invariance, PTL
=============================================================================
