------------------------ MODULE Assignments_proofs --------------------------
(***************************************************************************)
(* Lemmas about assignments, the literals they make true and false, and    *)
(* the stack of decisions that goes with an assignment, for every number   *)
(* of variables.  The proofs about fast.c, basic.c and loop.c share them.  *)
(***************************************************************************)
EXTENDS Assignments, Sequences, SequencesExt, SequenceTheorems, FiniteSetTheorems,
        WellFoundedInduction, TLAPS

-----------------------------------------------------------------------------
(* Assignments, and the literals they make false *)

Types      == {"IMPLIED", "TRIED_ONE_WAY", "TRIED_BOTH_WAYS"}
Decision   == [var : Var, type : Types]
Assignment == [Var -> {UNASSIGNED, FALSE_, TRUE_}]

Value(l)       == IF l > 0 THEN TRUE_ ELSE FALSE_
LitTrue(a, l)  == a[VarOf(l)] = Value(l)
FalseIn(a, s)  == {m \in Range(s) : LitTrue(a, -m)}

With(a, l)     == [a EXCEPT ![VarOf(l)] = Value(l)]
Without(a, P)  == [v \in Var |-> IF v \in P THEN UNASSIGNED ELSE a[v]]

LEMMA Literals ==
  /\ Literal \subseteq Int /\ Var \subseteq Int /\ IsFiniteSet(Literal)
  /\ \A l \in Literal : -l \in Literal /\ VarOf(l) \in Var /\ -(-l) = l /\ l # 0 /\ l # -l
                        /\ VarOf(-l) = VarOf(l) /\ Value(-l) # Value(l)
                        /\ Value(l) \in {FALSE_, TRUE_}
  /\ \A l, m \in Literal : VarOf(l) = VarOf(m) => l = m \/ l = -m
  /\ \A v \in Var : v \in Literal /\ -v \in Literal /\ VarOf(v) = v /\ VarOf(-v) = v
                    /\ Value(v) = TRUE_ /\ Value(-v) = FALSE_
<1>1. Literal \subseteq Int /\ Var \subseteq Int
  BY DEF Literal, Var
<1>2. IsFiniteSet(Literal)
  <2>1. IsFiniteSet(-NVars .. NVars)
    BY FS_Interval, NVarsAssumption
  <2> QED
    BY <2>1, FS_Difference DEF Literal
<1>3. \A l \in Literal : -l \in Literal /\ VarOf(l) \in Var /\ -(-l) = l /\ l # 0 /\ l # -l
                         /\ VarOf(-l) = VarOf(l) /\ Value(-l) # Value(l)
                         /\ Value(l) \in {FALSE_, TRUE_}
  BY NVarsAssumption DEF Literal, Var, VarOf, Value, TRUE_, FALSE_
<1>4. \A l, m \in Literal : VarOf(l) = VarOf(m) => l = m \/ l = -m
  BY NVarsAssumption DEF Literal, VarOf
<1>5. \A v \in Var : v \in Literal /\ -v \in Literal /\ VarOf(v) = v /\ VarOf(-v) = v
                     /\ Value(v) = TRUE_ /\ Value(-v) = FALSE_
  BY NVarsAssumption DEF Literal, Var, VarOf, Value
<1> QED
  BY <1>1, <1>2, <1>3, <1>4, <1>5

\* A clause has finitely many literals, and no more than its length.
LEMMA ClauseSize ==
  ASSUME NEW s \in Seq(Literal)
  PROVE  /\ Range(s) \subseteq Literal /\ IsFiniteSet(Range(s))
         /\ Cardinality(Range(s)) \in Nat /\ Cardinality(Range(s)) <= Len(s) /\ Len(s) \in Nat
<1>1. Len(s) \in Nat /\ s \in [1 .. Len(s) -> Literal] /\ DOMAIN s = 1 .. Len(s)
  BY LenProperties
<1>2. Range(s) \subseteq Literal
  BY <1>1 DEF Range
<1>3. s \in Surjection(1 .. Len(s), Range(s))
  BY <1>1 DEF Surjection, Range
<1>4. IsFiniteSet(1 .. Len(s)) /\ Cardinality(1 .. Len(s)) = Len(s)
  BY <1>1, FS_Interval
<1>5. IsFiniteSet(Range(s)) /\ Cardinality(Range(s)) <= Len(s)
  BY <1>3, <1>4, FS_Surjection
<1> QED
  BY <1>1, <1>2, <1>5, FS_CardinalityType

LEMMA FalseFinite ==
  ASSUME NEW a, NEW s \in Seq(Literal)
  PROVE  /\ FalseIn(a, s) \subseteq Range(s) /\ IsFiniteSet(FalseIn(a, s))
         /\ Cardinality(FalseIn(a, s)) \in Nat
         /\ Cardinality(FalseIn(a, s)) <= Cardinality(Range(s))
         /\ Cardinality(FalseIn(a, s)) = Cardinality(Range(s)) => FalseIn(a, s) = Range(s)
<1>1. FalseIn(a, s) \in SUBSET Range(s)
  BY DEF FalseIn
<1>2. IsFiniteSet(Range(s))
  BY ClauseSize
<1> QED
  BY <1>1, <1>2, FS_Subset, FS_CardinalityType

\* Making l true makes one more literal false, -l.
LEMMA FalseGrows ==
  ASSUME NEW a \in Assignment, NEW l \in Literal, a[VarOf(l)] = UNASSIGNED,
         NEW s \in Seq(Literal)
  PROVE  /\ With(a, l) \in Assignment
         /\ FalseIn(With(a, l), s) = FalseIn(a, s) \cup (IF -l \in Range(s) THEN {-l} ELSE {})
         /\ -l \notin FalseIn(a, s)
<1> DEFINE b == With(a, l)
<1>1. VarOf(l) \in Var /\ Value(l) \in {FALSE_, TRUE_} /\ -l \in Literal
  BY Literals
<1>2. b \in Assignment /\ b[VarOf(l)] = Value(l) /\ \A v \in Var \ {VarOf(l)} : b[v] = a[v]
  BY <1>1 DEF Assignment, With
<1> HIDE DEF b
<1>3. Value(l) # UNASSIGNED /\ UNASSIGNED \notin {FALSE_, TRUE_}
  BY <1>1 DEF UNASSIGNED, FALSE_, TRUE_
<1>4. ASSUME NEW m \in Literal PROVE LitTrue(b, -m) <=> LitTrue(a, -m) \/ m = -l
  <2>1. -m \in Literal /\ VarOf(-m) \in Var /\ Value(-m) \in {FALSE_, TRUE_}
    BY Literals
  <2>2. CASE VarOf(-m) = VarOf(l)
    <3>1. -m = l \/ -m = -l
      BY <2>1, <2>2, Literals
    <3>2. ~LitTrue(a, -m)
      BY <1>3, <2>1, <2>2 DEF LitTrue
    <3>3. -m = l => m = -l /\ LitTrue(b, -m)
      BY <1>2, Literals DEF LitTrue
    <3>4. -m = -l => m = l /\ m # -l /\ ~LitTrue(b, -m)
      BY <1>2, <2>2, Literals DEF LitTrue
    <3> QED
      BY <3>1, <3>2, <3>3, <3>4
  <2>3. CASE VarOf(-m) # VarOf(l)
    <3>1. m # -l
      BY <2>3, Literals
    <3> QED
      BY <1>2, <2>1, <2>3, <3>1 DEF LitTrue
  <2> QED
    BY <2>2, <2>3
<1>5. Range(s) \subseteq Literal
  BY ClauseSize
<1>6. ~LitTrue(a, -(-l))
  BY <1>3, Literals DEF LitTrue
<1>7. b \in Assignment /\ FalseIn(b, s) = FalseIn(a, s) \cup (IF -l \in Range(s) THEN {-l} ELSE {})
      /\ -l \notin FalseIn(a, s)
  BY <1>2, <1>4, <1>5, <1>6 DEF FalseIn
<1> QED
  BY <1>7 DEF b

\* Taking the assignment of some variables back takes their literals back.
LEMMA FalseShrinks ==
  ASSUME NEW a \in Assignment, NEW P \in SUBSET Var,
         NEW s \in Seq(Literal)
  PROVE  /\ Without(a, P) \in Assignment
         /\ FalseIn(Without(a, P), s) =
              FalseIn(a, s) \ {m \in Range(s) : VarOf(m) \in P /\ LitTrue(a, -m)}
<1>1. Without(a, P) \in Assignment
  BY DEF Assignment, Without
<1>2. ASSUME NEW m \in Literal
      PROVE  LitTrue(Without(a, P), -m) <=> LitTrue(a, -m) /\ VarOf(m) \notin P
  <2>1. -m \in Literal /\ VarOf(-m) = VarOf(m) /\ VarOf(m) \in Var
        /\ Value(-m) \in {FALSE_, TRUE_}
    BY Literals
  <2>2. Value(-m) # UNASSIGNED
    BY <2>1 DEF UNASSIGNED, FALSE_, TRUE_
  <2> QED
    BY <2>1, <2>2 DEF LitTrue, Without
<1>3. Range(s) \subseteq Literal
  BY ClauseSize
<1> QED
  BY <1>1, <1>2, <1>3 DEF FalseIn

\* The counts grow by one with a literal made true, and shrink by what is unset.
LEMMA CountGrows ==
  ASSUME NEW a \in Assignment, NEW l \in Literal, a[VarOf(l)] = UNASSIGNED,
         NEW s \in Seq(Literal)
  PROVE  Cardinality(FalseIn(With(a, l), s))
           = Cardinality(FalseIn(a, s)) + (IF -l \in Range(s) THEN 1 ELSE 0)
<1>1. /\ FalseIn(With(a, l), s) = FalseIn(a, s) \cup (IF -l \in Range(s) THEN {-l} ELSE {})
      /\ -l \notin FalseIn(a, s)
  BY FalseGrows
<1>2. IsFiniteSet(FalseIn(a, s)) /\ Cardinality(FalseIn(a, s)) \in Nat
  BY FalseFinite
<1>3. Cardinality(FalseIn(a, s) \cup {-l}) = Cardinality(FalseIn(a, s)) + 1
  BY <1>1, <1>2, FS_AddElement
<1>4. CASE -l \in Range(s)
  BY <1>1, <1>3, <1>4
<1>5. CASE -l \notin Range(s)
  BY <1>1, <1>2, <1>5
<1> QED
  BY <1>4, <1>5

LEMMA CountShrinks ==
  ASSUME NEW a \in Assignment, NEW P \in SUBSET Var, NEW s \in Seq(Literal)
  PROVE  LET U == {l \in Range(s) : VarOf(l) \in P /\ LitTrue(a, -l)}
         IN  /\ Cardinality(FalseIn(Without(a, P), s)) = Cardinality(FalseIn(a, s)) - Cardinality(U)
             /\ Cardinality(U) \in Nat
<1> DEFINE U == {l \in Range(s) : VarOf(l) \in P /\ LitTrue(a, -l)}
<1>1. FalseIn(Without(a, P), s) = FalseIn(a, s) \ U
  BY FalseShrinks
<1>2. U \in SUBSET FalseIn(a, s)
  BY DEF FalseIn
<1>3. IsFiniteSet(FalseIn(a, s)) /\ Cardinality(FalseIn(a, s)) \in Nat
  BY FalseFinite
<1> HIDE DEF U
<1>4. FalseIn(a, s) \cap U = U
  BY <1>2
<1>5. Cardinality(FalseIn(a, s) \ U) = Cardinality(FalseIn(a, s)) - Cardinality(U)
  BY <1>3, <1>4, FS_Difference
<1>6. Cardinality(U) \in Nat
  BY <1>2, <1>3, FS_Subset, FS_CardinalityType
<1> QED
  BY <1>1, <1>5, <1>6 DEF U

\* A clause with as many false literals as it has, but for an unassigned one.
LEMMA LooksUnitIsUnit ==
  ASSUME NEW a \in Assignment, NEW s \in Seq(Literal), NEW n \in Int,
         n <= Cardinality(FalseIn(a, s)), n + 1 = Len(s),
         NEW l \in Range(s), a[VarOf(l)] = UNASSIGNED
  PROVE  \A m \in Range(s) \ {l} : LitTrue(a, -m)
<1> DEFINE F == FalseIn(a, s)
<1>1. /\ Range(s) \subseteq Literal /\ IsFiniteSet(Range(s)) /\ Len(s) \in Nat
      /\ Cardinality(Range(s)) \in Nat /\ Cardinality(Range(s)) <= Len(s)
  BY ClauseSize
<1>2. Cardinality(F) \in Nat
  BY FalseFinite
<1>3. l \notin F
  <2>1. l \in Literal /\ -l \in Literal /\ VarOf(-l) = VarOf(l)
    BY <1>1, Literals
  <2>2. Value(-l) \in {FALSE_, TRUE_} /\ UNASSIGNED \notin {FALSE_, TRUE_}
    BY <2>1, Literals DEF UNASSIGNED, FALSE_, TRUE_
  <2> QED
    BY <2>1, <2>2 DEF FalseIn, LitTrue
<1>4. F \in SUBSET (Range(s) \ {l})
  BY <1>3 DEF FalseIn
<1> HIDE DEF F
<1>5. IsFiniteSet(Range(s) \ {l}) /\ Cardinality(Range(s) \ {l}) = Cardinality(Range(s)) - 1
  BY <1>1, FS_RemoveElement
<1>6. /\ Cardinality(F) <= Cardinality(Range(s) \ {l})
      /\ Cardinality(Range(s) \ {l}) = Cardinality(F) => Range(s) \ {l} = F
  BY <1>4, <1>5, FS_Subset
<1>7. n <= Cardinality(F)
  BY DEF F
<1>8. Range(s) \ {l} = F
  BY <1>1, <1>2, <1>5, <1>6, <1>7
<1> QED
  BY <1>8 DEF F, FalseIn

-----------------------------------------------------------------------------
(* The stack *)

\* The stack holds each assigned variable once, and a variable tried one way
\* is FALSE.
Consistent(a, st) ==
  /\ \A i, j \in DOMAIN st : st[i].var = st[j].var => i = j
  /\ \A v \in Var : a[v] # UNASSIGNED <=> \E j \in DOMAIN st : st[j].var = v
  /\ \A j \in DOMAIN st : st[j].type = "TRIED_ONE_WAY" => a[st[j].var] = FALSE_

LitAt(a, d)  == [lit |-> IF a[d.var] = TRUE_ THEN d.var ELSE -d.var, kind |-> d.type]
Trail(a, st) == [j \in DOMAIN st |-> LitAt(a, st[j])]
Entry        == [lit : Literal, kind : Types]
Lits(t)      == {t[j].lit : j \in DOMAIN t}

LEMMA TrailType ==
  ASSUME NEW a, NEW st \in Seq(Decision)
  PROVE  /\ Trail(a, st) \in Seq(Entry) /\ Len(Trail(a, st)) = Len(st)
         /\ DOMAIN Trail(a, st) = 1 .. Len(st) /\ DOMAIN st = 1 .. Len(st) /\ Len(st) \in Nat
         /\ \A j \in 1 .. Len(st) : Trail(a, st)[j] = LitAt(a, st[j]) /\ st[j] \in Decision
<1>1. DOMAIN st = 1 .. Len(st) /\ Len(st) \in Nat /\ \A j \in 1 .. Len(st) : st[j] \in Decision
  BY LenProperties, ElementOfSeq
<1>2. \A d \in Decision : LitAt(a, d) \in Entry
  BY Literals DEF LitAt, Entry, Decision
<1>3. Trail(a, st) \in [1 .. Len(st) -> Entry]
  BY <1>1, <1>2 DEF Trail
<1>4. Trail(a, st) \in Seq(Entry) /\ Len(Trail(a, st)) = Len(st)
  BY <1>1, <1>3
<1> QED
  BY <1>1, <1>3, <1>4 DEF Trail

\* The trail makes true what the assignment makes true.
LEMMA TrailTrue ==
  ASSUME NEW a \in Assignment, NEW st \in Seq(Decision), Consistent(a, st), NEW l \in Literal
  PROVE  l \in Lits(Trail(a, st)) <=> LitTrue(a, l)
<1>1. /\ VarOf(l) \in Var /\ Value(l) \in {FALSE_, TRUE_} /\ Value(-l) \in {FALSE_, TRUE_}
      /\ Value(-l) # Value(l) /\ -(-l) = l /\ UNASSIGNED \notin {FALSE_, TRUE_}
  BY Literals DEF UNASSIGNED, FALSE_, TRUE_
<1>2. ASSUME l \in Lits(Trail(a, st)) PROVE LitTrue(a, l)
  <2>1. PICK j \in 1 .. Len(st) : LitAt(a, st[j]).lit = l
    BY <1>2, TrailType DEF Lits
  <2>2. st[j].var \in Var /\ j \in DOMAIN st
    BY TrailType DEF Decision
  <2>3. a[st[j].var] # UNASSIGNED /\ a[st[j].var] \in {UNASSIGNED, FALSE_, TRUE_}
    BY <2>2 DEF Consistent, Assignment
  <2>4. CASE a[st[j].var] = TRUE_
    <3>1. l = st[j].var
      BY <2>1, <2>4 DEF LitAt
    <3> QED
      BY <2>2, <2>4, <3>1, Literals DEF LitTrue
  <2>5. CASE a[st[j].var] = FALSE_
    <3>1. l = -st[j].var
      BY <1>1, <2>1, <2>5, TRUE_ # FALSE_ DEF LitAt, TRUE_, FALSE_
    <3> QED
      BY <2>2, <2>5, <3>1, Literals DEF LitTrue
  <2> QED
    BY <2>3, <2>4, <2>5
<1>3. ASSUME LitTrue(a, l) PROVE l \in Lits(Trail(a, st))
  <2>1. a[VarOf(l)] # UNASSIGNED
    BY <1>1, <1>3 DEF LitTrue
  <2>2. PICK j \in DOMAIN st : st[j].var = VarOf(l)
    BY <1>1, <2>1 DEF Consistent
  <2>3. Trail(a, st)[j] = LitAt(a, st[j]) /\ j \in DOMAIN Trail(a, st)
    BY <2>2, TrailType
  <2>4. LitAt(a, st[j]).lit = l
    <3>1. (l = VarOf(l) /\ Value(l) = TRUE_) \/ (l = -VarOf(l) /\ Value(l) = FALSE_)
      BY NVarsAssumption DEF Literal, VarOf, Value
    <3>2. TRUE_ # FALSE_
      BY DEF TRUE_, FALSE_
    <3> QED
      BY <1>3, <2>2, <3>1, <3>2 DEF LitAt, LitTrue
  <2> QED
    BY <2>3, <2>4 DEF Lits
<1> QED
  BY <1>2, <1>3

\* A stack of distinct variables is no longer than there are variables.
LEMMA StackBound ==
  ASSUME NEW a, NEW st \in Seq(Decision), Consistent(a, st)
  PROVE  Len(st) <= NVars
<1> DEFINE f == [j \in 1 .. Len(st) |-> st[j].var]
<1>1. Len(st) \in Nat /\ DOMAIN st = 1 .. Len(st)
  BY LenProperties
<1>2. f \in Injection(1 .. Len(st), Var)
  <2>1. \A j \in 1 .. Len(st) : st[j].var \in Var
    BY TrailType DEF Decision
  <2> QED
    BY <1>1, <2>1 DEF Injection, IsInjective, Consistent
<1>3. IsFiniteSet(Var) /\ Cardinality(Var) = NVars
  BY NVarsAssumption, FS_Interval DEF Var
<1> HIDE DEF f
<1>4. Cardinality(1 .. Len(st)) = Len(st)
  BY <1>1, FS_Interval
<1>5. Cardinality(1 .. Len(st)) <= Cardinality(Var)
  BY <1>2, <1>3, FS_Injection
<1> QED
  BY <1>3, <1>4, <1>5

\* set_literal pushes one entry.
Pushed(st, l, type) == Append(st, [var |-> VarOf(l), type |-> type])

LEMMA Push ==
  ASSUME NEW a \in Assignment, NEW st \in Seq(Decision), Consistent(a, st),
         NEW l \in Literal, a[VarOf(l)] = UNASSIGNED,
         NEW type \in Types, type = "TRIED_ONE_WAY" => Value(l) = FALSE_
  PROVE  /\ Pushed(st, l, type) \in Seq(Decision)
         /\ Consistent(With(a, l), Pushed(st, l, type))
         /\ Trail(With(a, l), Pushed(st, l, type))
              = Append(Trail(a, st), [lit |-> l, kind |-> type])
<1> DEFINE d == [var |-> VarOf(l), type |-> type]
           t == Append(st, d)
           b == With(a, l)
<1>1. VarOf(l) \in Var /\ d \in Decision /\ Value(l) \in {FALSE_, TRUE_}
      /\ UNASSIGNED \notin {FALSE_, TRUE_} /\ FALSE_ # TRUE_
  BY Literals DEF Decision, UNASSIGNED, FALSE_, TRUE_
<1>2. b[VarOf(l)] = Value(l) /\ \A v \in Var \ {VarOf(l)} : b[v] = a[v]
  BY <1>1 DEF With, Assignment
<1>n. PICK n \in Nat : n = Len(st)
  BY LenProperties
<1>3. /\ DOMAIN st = 1 .. n /\ \A j \in 1 .. n : st[j] \in Decision /\ st[j].var \in Var
      /\ t \in Seq(Decision) /\ Len(t) = n + 1 /\ DOMAIN t = 1 .. n + 1
      /\ \A j \in 1 .. n : t[j] = st[j]
      /\ t[n + 1] = d
  <2>1. t \in Seq(Decision) /\ Len(t) = n + 1 /\ (\A j \in 1 .. n : t[j] = st[j]) /\ t[n + 1] = d
    BY <1>1, <1>n, AppendProperties
  <2>2. DOMAIN t = 1 .. n + 1
    BY <2>1, LenProperties
  <2> QED
    BY <1>n, <2>1, <2>2, TrailType DEF Decision
<1>4. \A j \in 1 .. n : st[j].var # VarOf(l)
  BY <1>1, <1>3 DEF Consistent
<1> HIDE DEF b, t
<1>5. Consistent(b, t)
  <2>1. \A i, j \in DOMAIN t : t[i].var = t[j].var => i = j
    <3> SUFFICES ASSUME NEW i \in 1 .. n + 1, NEW j \in 1 .. n + 1, t[i].var = t[j].var
                 PROVE  i = j
      BY <1>3
    <3>1. (i \in 1 .. n \/ i = n + 1) /\ (j \in 1 .. n \/ j = n + 1)
      OBVIOUS
    <3>2. \A x, y \in 1 .. n : st[x].var = st[y].var => x = y
      BY <1>3 DEF Consistent
    <3> QED
      BY <1>3, <1>4, <3>1, <3>2
  <2>2. ASSUME NEW v \in Var PROVE b[v] # UNASSIGNED <=> \E j \in DOMAIN t : t[j].var = v
    <3>1. CASE v = VarOf(l)
      BY <1>1, <1>2, <1>3, <3>1
    <3>2. CASE v # VarOf(l)
      <4>1. b[v] # UNASSIGNED <=> \E j \in 1 .. n : st[j].var = v
        BY <1>2, <1>3, <3>2 DEF Consistent
      <4>2. (\E j \in 1 .. n : st[j].var = v) <=> \E j \in 1 .. n + 1 : t[j].var = v
        BY <1>3, <3>2
      <4> QED
        BY <1>3, <4>1, <4>2
    <3> QED
      BY <3>1, <3>2
  <2>3. ASSUME NEW j \in DOMAIN t, t[j].type = "TRIED_ONE_WAY" PROVE b[t[j].var] = FALSE_
    <3>1. CASE j = n + 1
      BY <1>2, <1>3, <2>3, <3>1
    <3>2. CASE j \in 1 .. n
      BY <1>2, <1>3, <1>4, <2>3, <3>2 DEF Consistent
    <3> QED
      BY <1>3, <3>1, <3>2
  <2> QED
    BY <2>1, <2>2, <2>3 DEF Consistent
<1>6. Trail(b, t) = Append(Trail(a, st), [lit |-> l, kind |-> type])
  <2> DEFINE e == [lit |-> l, kind |-> type]
             s == Append(Trail(a, st), e)
  <2>1. e \in Entry
    BY DEF Entry
  <2>2. /\ Trail(a, st) \in Seq(Entry) /\ Len(Trail(a, st)) = n
        /\ \A j \in 1 .. n : Trail(a, st)[j] = LitAt(a, st[j])
    BY <1>n, TrailType
  <2> HIDE DEF e
  <2>3. /\ s \in Seq(Entry) /\ Len(s) = n + 1
        /\ \A j \in 1 .. n : s[j] = LitAt(a, st[j])
        /\ s[n + 1] = e
    BY <2>1, <2>2, AppendProperties
  <2>4. /\ Trail(b, t) \in Seq(Entry) /\ Len(Trail(b, t)) = n + 1
        /\ \A j \in 1 .. n + 1 : Trail(b, t)[j] = LitAt(b, t[j])
    BY <1>3, TrailType
  <2>5. \A j \in 1 .. n : LitAt(b, t[j]) = LitAt(a, st[j])
    BY <1>2, <1>3, <1>4 DEF LitAt
  <2>6. LitAt(b, t[n + 1]) = e
    <3>1. (l = VarOf(l) /\ Value(l) = TRUE_) \/ (l = -VarOf(l) /\ Value(l) = FALSE_)
      BY NVarsAssumption DEF Literal, VarOf, Value
    <3>2. t[n + 1].var = VarOf(l) /\ t[n + 1].type = type /\ b[VarOf(l)] = Value(l)
      BY <1>2, <1>3
    <3>3. LitAt(b, t[n + 1]).lit = l
      <4>1. CASE Value(l) = TRUE_
        BY <1>1, <3>1, <3>2, <4>1 DEF LitAt
      <4>2. CASE Value(l) = FALSE_
        BY <1>1, <3>1, <3>2, <4>2 DEF LitAt
      <4> QED
        BY <1>1, <4>1, <4>2
    <3> QED
      BY <3>2, <3>3 DEF LitAt, e
  <2> HIDE DEF s
  <2>7. \A j \in 1 .. n + 1 : Trail(b, t)[j] = s[j]
    <3> SUFFICES ASSUME NEW j \in 1 .. n + 1 PROVE Trail(b, t)[j] = s[j]
      OBVIOUS
    <3>1. j \in 1 .. n \/ j = n + 1
      OBVIOUS
    <3> QED
      BY <2>3, <2>4, <2>5, <2>6, <3>1
  <2>8. Trail(b, t) = s
    BY <2>3, <2>4, <2>7, SeqEqual
  <2> QED
    BY <2>8 DEF s, e
<1> QED
  BY <1>3, <1>5, <1>6 DEF b, t, Pushed

\* unset_latest_assignment leaves the entries before the k-th as they were.
VarsFrom(st, k) == {st[j].var : j \in k .. Len(st)}

LEMMA Pop ==
  ASSUME NEW a \in Assignment, NEW st \in Seq(Decision), Consistent(a, st),
         NEW k \in 1 .. Len(st) + 1
  PROVE  /\ VarsFrom(st, k) \in SUBSET Var
         /\ SubSeq(st, 1, k - 1) \in Seq(Decision)
         /\ Consistent(Without(a, VarsFrom(st, k)), SubSeq(st, 1, k - 1))
         /\ Trail(Without(a, VarsFrom(st, k)), SubSeq(st, 1, k - 1))
              = SubSeq(Trail(a, st), 1, k - 1)
         /\ k <= Len(st) => Without(a, VarsFrom(st, k))[st[k].var] = UNASSIGNED
<1> DEFINE P == VarsFrom(st, k)
           b == Without(a, P)
           t == SubSeq(st, 1, k - 1)
<1>n. PICK n \in Nat : n = Len(st)
  BY LenProperties
<1>1. /\ DOMAIN st = 1 .. n /\ k \in 1 .. n + 1
      /\ \A j \in 1 .. n : st[j] \in Decision /\ st[j].var \in Var
  BY <1>n, TrailType DEF Decision
<1>2. P \in SUBSET Var
  BY <1>n, <1>1 DEF VarsFrom
<1>3. /\ t \in Seq(Decision) /\ Len(t) = k - 1 /\ DOMAIN t = 1 .. k - 1
      /\ \A j \in 1 .. k - 1 : t[j] = st[j]
  <2>1. \A j \in 1 .. k - 1 : st[j] \in Decision
    BY <1>1
  <2>2. /\ t \in Seq(Decision) /\ Len(t) = IF 1 <= k - 1 THEN k - 1 - 1 + 1 ELSE 0
        /\ \A j \in 1 .. k - 1 - 1 + 1 : t[j] = st[1 + j - 1]
    BY <1>1, <2>1, SubSeqProperties
  <2>3. Len(t) = k - 1 /\ \A j \in 1 .. k - 1 : t[j] = st[j]
    BY <1>1, <2>2
  <2> QED
    BY <2>2, <2>3, LenProperties
<1>4. /\ \A v \in Var : b[v] = IF v \in P THEN UNASSIGNED ELSE a[v]
      /\ \A j \in 1 .. k - 1 : st[j].var \notin P
      /\ \A j \in k .. n : st[j].var \in P
      /\ \A v \in P : \E j \in k .. n : st[j].var = v
  <2>1. \A j \in 1 .. k - 1 : st[j].var \notin P
    <3> SUFFICES ASSUME NEW j \in 1 .. k - 1, NEW x \in k .. n, st[j].var = st[x].var
                 PROVE  FALSE
      BY <1>n DEF VarsFrom
    <3>1. j \in DOMAIN st /\ x \in DOMAIN st /\ j # x
      BY <1>1
    <3> QED
      BY <3>1 DEF Consistent
  <2> QED
    BY <1>n, <2>1 DEF Without, VarsFrom
<1> HIDE DEF b, t, P
<1>5. Consistent(b, t)
  <2>1. \A i, j \in DOMAIN t : t[i].var = t[j].var => i = j
    <3>1. \A x \in 1 .. k - 1 : x \in 1 .. n
      BY <1>1
    <3> QED
      BY <1>1, <1>3, <3>1 DEF Consistent
  <2>2. ASSUME NEW v \in Var PROVE b[v] # UNASSIGNED <=> \E j \in DOMAIN t : t[j].var = v
    <3>1. CASE v \in P
      <4>1. \A j \in 1 .. k - 1 : t[j].var # v
        BY <1>3, <1>4, <3>1
      <4> QED
        BY <1>3, <1>4, <3>1, <4>1
    <3>2. CASE v \notin P
      <4>1. b[v] # UNASSIGNED <=> \E j \in 1 .. n : st[j].var = v
        BY <1>1, <1>4, <3>2 DEF Consistent
      <4>2. \A j \in 1 .. n : j \in 1 .. k - 1 \/ j \in k .. n
        BY <1>1
      <4>3. \A j \in 1 .. k - 1 : j \in 1 .. n
        BY <1>1
      <4>4. (\E j \in 1 .. n : st[j].var = v) <=> \E j \in 1 .. k - 1 : st[j].var = v
        BY <1>4, <3>2, <4>2, <4>3
      <4>5. (\E j \in 1 .. k - 1 : st[j].var = v) <=> \E j \in DOMAIN t : t[j].var = v
        BY <1>3
      <4> QED
        BY <4>1, <4>4, <4>5
    <3> QED
      BY <3>1, <3>2
  <2>3. ASSUME NEW j \in DOMAIN t, t[j].type = "TRIED_ONE_WAY" PROVE b[t[j].var] = FALSE_
    <3>1. j \in 1 .. k - 1 /\ j \in 1 .. n
      BY <1>1, <1>3
    <3> QED
      BY <1>1, <1>3, <1>4, <2>3, <3>1 DEF Consistent
  <2> QED
    BY <2>1, <2>2, <2>3 DEF Consistent
<1>6. Trail(b, t) = SubSeq(Trail(a, st), 1, k - 1)
  <2> DEFINE s == SubSeq(Trail(a, st), 1, k - 1)
  <2>1. /\ \A j \in 1 .. k - 1 : Trail(a, st)[j] \in Entry
        /\ \A j \in 1 .. k - 1 : Trail(a, st)[j] = LitAt(a, st[j])
    <3>1. Trail(a, st) \in Seq(Entry) /\ Len(Trail(a, st)) = n
          /\ \A j \in 1 .. n : Trail(a, st)[j] = LitAt(a, st[j])
      BY <1>n, TrailType
    <3> QED
      BY <1>1, <3>1, ElementOfSeq
  <2>2. /\ s \in Seq(Entry) /\ Len(s) = IF 1 <= k - 1 THEN k - 1 - 1 + 1 ELSE 0
        /\ \A j \in 1 .. k - 1 - 1 + 1 : s[j] = Trail(a, st)[1 + j - 1]
    BY <1>1, <2>1, SubSeqProperties
  <2> HIDE DEF s
  <2>3. Len(s) = k - 1 /\ \A j \in 1 .. k - 1 : s[j] = LitAt(a, st[j])
    BY <1>1, <2>1, <2>2
  <2>4. /\ Trail(b, t) \in Seq(Entry) /\ Len(Trail(b, t)) = k - 1
        /\ \A j \in 1 .. k - 1 : Trail(b, t)[j] = LitAt(b, t[j])
    BY <1>3, TrailType
  <2>5. \A j \in 1 .. k - 1 : LitAt(b, t[j]) = LitAt(a, st[j])
    <3>1. \A j \in 1 .. k - 1 : j \in 1 .. n
      BY <1>1
    <3> QED
      BY <1>1, <1>3, <1>4, <3>1 DEF LitAt
  <2>6. Trail(b, t) = s
    BY <2>2, <2>3, <2>4, <2>5, SeqEqual
  <2> QED
    BY <2>6 DEF s
<1>7. k <= n => b[st[k].var] = UNASSIGNED
  BY <1>1, <1>4
<1> QED
  BY <1>n, <1>2, <1>3, <1>5, <1>6, <1>7 DEF b, t, P

-----------------------------------------------------------------------------
(* The searches of the solvers *)

\* Of finitely many naturals one is the least and one the greatest.
LEMMA Extremes ==
  ASSUME NEW n \in Nat, NEW S \in SUBSET (1 .. n), S # {}
  PROVE  /\ Min(S) \in S /\ \A x \in S : Min(S) <= x
         /\ Max(S) \in S /\ \A x \in S : x <= Max(S)
<1>1. ASSUME NEW T \in SUBSET Nat, T # {}
      PROVE  \E x \in T : \A y \in T : x <= y
  <2>1. PICK x \in T : \A y \in T : ~ <<y, x>> \in OpToRel(<, Nat)
    BY <1>1, NatLessThanWellFounded, WFMin
  <2>2. \A y \in T : ~ y < x
    BY <2>1 DEF OpToRel
  <2>3. x \in Nat /\ \A y \in T : y \in Nat
    OBVIOUS
  <2> QED
    BY <2>2, <2>3
<1>2. \E x \in S : \A y \in S : x <= y
  <2>1. S \in SUBSET Nat
    OBVIOUS
  <2> QED
    BY <1>1, <2>1
<1>3. \E x \in S : \A y \in S : y <= x
  <2> DEFINE T == {n - x : x \in S}
  <2>1. T \in SUBSET Nat /\ T # {}
    <3>1. \A x \in S : n - x \in Nat
      OBVIOUS
    <3>2. PICK x \in S : TRUE
      OBVIOUS
    <3>3. n - x \in T
      OBVIOUS
    <3> QED
      BY <3>1, <3>3
  <2>2. PICK m \in T : \A k \in T : m <= k
    BY <1>1, <2>1
  <2>3. PICK x \in S : m = n - x
    OBVIOUS
  <2>4. \A y \in S : n - y \in T
    OBVIOUS
  <2>5. \A y \in S : n - x <= n - y
    BY <2>2, <2>3, <2>4
  <2> QED
    BY <2>5
<1>4. Min(S) \in S /\ \A x \in S : Min(S) <= x
  BY <1>2 DEF Min
<1>5. Max(S) \in S /\ \A x \in S : x <= Max(S)
  BY <1>3 DEF Max
<1> QED
  BY <1>4, <1>5

\* The first unassigned literal of a clause, or 0.
FirstUnassigned(a, s) ==
  LET S == {k \in 1 .. Len(s) : a[VarOf(s[k])] = UNASSIGNED}
      j == IF S # {} THEN Min(S) ELSE 0
  IN  IF j = 0 THEN 0 ELSE s[j]

LEMMA FirstUnassignedIs ==
  ASSUME NEW a, NEW s \in Seq(Literal)
  PROVE  /\ FirstUnassigned(a, s) = 0 => \A m \in Range(s) : a[VarOf(m)] # UNASSIGNED
         /\ FirstUnassigned(a, s) # 0 => /\ FirstUnassigned(a, s) \in Range(s)
                                         /\ a[VarOf(FirstUnassigned(a, s))] = UNASSIGNED
<1> DEFINE S == {k \in 1 .. Len(s) : a[VarOf(s[k])] = UNASSIGNED}
<1>1. Len(s) \in Nat /\ DOMAIN s = 1 .. Len(s) /\ \A k \in 1 .. Len(s) : s[k] \in Literal
  BY LenProperties, ElementOfSeq
<1>2. PICK j : j = IF S # {} THEN Min(S) ELSE 0
  OBVIOUS
<1>3. FirstUnassigned(a, s) = IF j = 0 THEN 0 ELSE s[j]
  BY <1>2 DEF FirstUnassigned
<1>4. S # {} => Min(S) \in S
  <2>1. S \in SUBSET (1 .. Len(s))
    OBVIOUS
  <2> HIDE DEF S
  <2> QED
    BY <1>1, <2>1, Extremes
<1>5. CASE S = {}
  BY <1>1, <1>2, <1>3, <1>5 DEF Range
<1>6. CASE S # {}
  <2>1. j \in 1 .. Len(s) /\ a[VarOf(s[j])] = UNASSIGNED /\ j # 0
    BY <1>1, <1>2, <1>4, <1>6
  <2>2. s[j] # 0 /\ s[j] \in Range(s)
    BY <1>1, <2>1, Literals DEF Range
  <2> QED
    BY <1>3, <2>1, <2>2
<1> QED
  BY <1>5, <1>6

\* The last of a stack's open decisions.
LEMMA LastOneWay ==
  ASSUME NEW st \in Seq(Decision), NEW k,
         k = SelectLastInSeq(st, LAMBDA d : d.type = "TRIED_ONE_WAY")
  PROVE  /\ k \in 0 .. Len(st)
         /\ k = 0 => \A j \in 1 .. Len(st) : st[j].type # "TRIED_ONE_WAY"
         /\ k # 0 => /\ k \in 1 .. Len(st) /\ st[k].type = "TRIED_ONE_WAY"
                     /\ \A j \in 1 .. Len(st) : j > k => st[j].type # "TRIED_ONE_WAY"
<1> DEFINE S == {j \in 1 .. Len(st) : st[j].type = "TRIED_ONE_WAY"}
<1>1. k = IF S # {} THEN Max(S) ELSE 0
  BY DEF SelectLastInSeq
<1>2. Len(st) \in Nat /\ S \in SUBSET (1 .. Len(st))
  BY LenProperties
<1>3. S # {} => Max(S) \in S /\ \A x \in S : x <= Max(S)
  <2> HIDE DEF S
  <2> QED
    BY <1>2, Extremes
<1>4. CASE S = {}
  BY <1>1, <1>2, <1>4
<1>5. CASE S # {}
  <2>1. k \in S /\ \A x \in S : x <= k
    BY <1>1, <1>3, <1>5
  <2> QED
    BY <1>2, <2>1
<1> QED
  BY <1>4, <1>5
=============================================================================
