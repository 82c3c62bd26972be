---------------------------- MODULE Dpll_proofs ----------------------------
(***************************************************************************)
(* The DPLL search answers correctly, for every number of variables and    *)
(* every set of input formulas.                                            *)
(***************************************************************************)
EXTENDS Dpll, SequenceTheorems, TLAPS

(* The whole invariant.                                                    *)
Inv == TypeOK /\ Distinct /\ Covered /\ SatSound /\ UnsatSound

-----------------------------------------------------------------------------
(* Lemmas *)

LEMMA Negation == \A l \in Literal : -l \in Literal /\ -(-l) = l /\ l # -l
BY NVarsAssumption DEF Literal

(* Assigning a literal adds one entry and leaves the others.               *)
LEMMA AppendEntry ==
  ASSUME NEW t \in Seq(Entry), NEW e \in Entry
  PROVE  /\ Append(t, e) \in Seq(Entry)
         /\ Len(Append(t, e)) = Len(t) + 1
         /\ DOMAIN Append(t, e) = 1 .. Len(t) + 1
         /\ DOMAIN t = 1 .. Len(t)
         /\ \A i \in 1 .. Len(t) : Append(t, e)[i] = t[i]
         /\ Append(t, e)[Len(t) + 1] = e
         /\ Len(t) \in Nat
<1>1. /\ Append(t, e) \in Seq(Entry)
      /\ Len(Append(t, e)) = Len(t) + 1
      /\ \A i \in 1 .. Len(t) : Append(t, e)[i] = t[i]
      /\ Append(t, e)[Len(t) + 1] = e
  BY AppendProperties
<1>2. DOMAIN Append(t, e) = 1 .. Len(Append(t, e)) /\ DOMAIN t = 1 .. Len(t) /\ Len(t) \in Nat
  BY <1>1, LenProperties
<1> QED
  BY <1>1, <1>2

(* Flipping entry k keeps the entries before it and replaces it.           *)
LEMMA FlipEntry ==
  ASSUME NEW t \in Seq(Entry), NEW k \in DOMAIN t, NEW e \in Entry
  PROVE  /\ Append(SubSeq(t, 1, k - 1), e) \in Seq(Entry)
         /\ Len(Append(SubSeq(t, 1, k - 1), e)) = k
         /\ DOMAIN Append(SubSeq(t, 1, k - 1), e) = 1 .. k
         /\ \A i \in 1 .. k - 1 : Append(SubSeq(t, 1, k - 1), e)[i] = t[i]
         /\ Append(SubSeq(t, 1, k - 1), e)[k] = e
<1> DEFINE s == SubSeq(t, 1, k - 1)
<1>1. k \in 1 .. Len(t) /\ Len(t) \in Nat /\ DOMAIN t = 1 .. Len(t)
  BY LenProperties
<1>2. \A i \in 1 .. k - 1 : t[i] \in Entry
  BY <1>1, ElementOfSeq
<1>3. /\ s \in Seq(Entry)
      /\ Len(s) = IF 1 <= k - 1 THEN k - 1 - 1 + 1 ELSE 0
      /\ \A i \in 1 .. k - 1 - 1 + 1 : s[i] = t[1 + i - 1]
  BY <1>1, <1>2, SubSeqProperties
<1>4. Len(s) = k - 1 /\ \A i \in 1 .. k - 1 : s[i] = t[i]
  BY <1>1, <1>3
<1> HIDE DEF s
<1>5. /\ Append(s, e) \in Seq(Entry) /\ Len(Append(s, e)) = k
      /\ DOMAIN Append(s, e) = 1 .. k
      /\ \A i \in 1 .. k - 1 : Append(s, e)[i] = s[i]
      /\ Append(s, e)[k] = e
  <2>1. /\ Append(s, e) \in Seq(Entry) /\ Len(Append(s, e)) = Len(s) + 1
        /\ DOMAIN Append(s, e) = 1 .. Len(s) + 1
        /\ \A i \in 1 .. Len(s) : Append(s, e)[i] = s[i]
        /\ Append(s, e)[Len(s) + 1] = e
    BY <1>3, AppendEntry
  <2> QED
    BY <1>1, <1>4, <2>1
<1> QED
  BY <1>4, <1>5 DEF s

(* Under a conflict no model of the formula agrees with the whole trail.   *)
LEMMA ConflictExcludes ==
  ASSUME TypeOK, Conflict, NEW M \in Models, Satisfies(M, formula)
  PROVE  ~Agrees(M, Len(trail) + 1)
<1> SUFFICES ASSUME Agrees(M, Len(trail) + 1) PROVE FALSE
  OBVIOUS
<1>1. PICK C \in formula : \A l \in C : -l \in True(trail)
  BY DEF Conflict
<1>2. PICK l \in C : l \in M
  BY DEF Satisfies
<1>3. l \in Literal
  BY <1>1 DEF TypeOK
<1>4. PICK i \in DOMAIN trail : trail[i].lit = -l
  BY <1>1, <1>2 DEF True
<1>5. i \in 1 .. (Len(trail) + 1) - 1
  BY LenProperties DEF TypeOK
<1>6. -l \in M
  BY <1>4, <1>5 DEF Agrees
<1> QED
  BY <1>2, <1>3, <1>6 DEF Models

(* A new entry, when it is a decision or holds in every model that agrees  *)
(* with the trail, keeps every model covered.                              *)
LEMMA AssignInv ==
  ASSUME Inv, NEW l \in Literal, NEW kind \in Kind, Assign(l, kind),
         \/ kind = "TRIED_ONE_WAY"
         \/ \A M \in Models : Satisfies(M, formula) /\ Agrees(M, Len(trail) + 1) => l \in M
  PROVE  Inv'
<1> DEFINE e == [lit |-> l, kind |-> kind]
<1> USE DEF Inv
<1>1. e \in Entry /\ trail \in Seq(Entry)
  BY DEF Entry, TypeOK
<1>n. PICK n \in Nat : n = Len(trail)
  BY <1>1, LenProperties
<1>2. /\ trail' \in Seq(Entry) /\ Len(trail') = n + 1 /\ DOMAIN trail' = 1 .. n + 1
      /\ DOMAIN trail = 1 .. n /\ n \in Nat
      /\ \A i \in 1 .. n : trail'[i] = trail[i]
      /\ trail'[n + 1] = e
      /\ UNCHANGED <<formula, answer>> /\ answer = "none" /\ ~Assigned(l)
  BY <1>1, <1>n, AppendEntry DEF Assign
<1>3. TypeOK'
  BY <1>2 DEF TypeOK
<1>4. Distinct'
  <2>1. \A i \in 1 .. n : trail[i].lit \in Literal /\ trail[i].lit # l /\ trail[i].lit # -l
    <3> SUFFICES ASSUME NEW i \in 1 .. n
                 PROVE  trail[i].lit \in Literal /\ trail[i].lit # l /\ trail[i].lit # -l
      OBVIOUS
    <3>1. trail[i] \in Entry
      BY <1>1, <1>n, ElementOfSeq
    <3>2. trail[i].lit \in True(trail)
      BY <1>2 DEF True
    <3> QED
      BY <1>2, <3>1, <3>2 DEF Assigned, Entry
  <2>2. \A i \in 1 .. n + 1 : i \in 1 .. n \/ i = n + 1
    BY <1>n
  <2>3. \A i \in 1 .. n : -trail[i].lit # l
    BY <2>1, Negation
  <2> QED
    BY <1>2, <2>1, <2>2, <2>3 DEF Distinct
<1>5. Covered'
  <2> SUFFICES ASSUME NEW M \in Models, Satisfies(M, formula)
               PROVE  \/ Agrees(M, n + 2)'
                      \/ \E k \in 1 .. n + 1 : /\ trail'[k].kind = "TRIED_ONE_WAY"
                                               /\ trail'[k].lit \notin M
                                               /\ Agrees(M, k)'
    <3>1. Len(trail') + 1 = n + 2
      BY <1>2
    <3> QED
      BY <1>2, <3>1 DEF Covered, Satisfies
  <2>1. \A k \in 1 .. n + 1 : Agrees(M, k) => Agrees(M, k)'
    BY <1>2 DEF Agrees
  <2>2. CASE \E k \in 1 .. n : trail[k].kind = "TRIED_ONE_WAY" /\ trail[k].lit \notin M /\ Agrees(M, k)
    BY <1>2, <2>1, <2>2
  <2>3. CASE Agrees(M, n + 1) /\ l \in M
    <3>1. \A i \in 1 .. n + 2 - 1 : i \in 1 .. n + 1 - 1 \/ i = n + 1
      BY <1>n
    <3>2. \A i \in 1 .. n + 1 - 1 : i \in 1 .. n /\ trail[i].lit \in M
      BY <1>n, <2>3 DEF Agrees
    <3>3. \A i \in 1 .. n + 2 - 1 : trail'[i].lit \in M
      BY <1>2, <2>3, <3>1, <3>2
    <3> QED
      BY <3>3 DEF Agrees
  <2>4. CASE Agrees(M, n + 1) /\ l \notin M
    BY <1>2, <2>1, <2>4
  <2> QED
    BY <1>2, <2>2, <2>3, <2>4 DEF Covered
<1> QED
  BY <1>2, <1>3, <1>4, <1>5 DEF SatSound, UnsatSound

(* Propagation: a model that agrees with the trail must satisfy the clause *)
(* that has nothing else left.                                             *)
LEMMA PropagateForced ==
  ASSUME TypeOK, NEW l \in Literal, Propagate(l),
         NEW M \in Models, Satisfies(M, formula), Agrees(M, Len(trail) + 1)
  PROVE  l \in M
<1>1. PICK C \in formula : l \in C /\ \A m \in C \ {l} : -m \in True(trail)
  BY DEF Propagate
<1>2. PICK m \in C : m \in M
  BY DEF Satisfies
<1>3. m \in Literal
  BY <1>1 DEF TypeOK
<1>4. CASE m # l
  <2>1. PICK i \in DOMAIN trail : trail[i].lit = -m
    BY <1>1, <1>2, <1>4 DEF True
  <2>2. i \in 1 .. (Len(trail) + 1) - 1
    BY LenProperties DEF TypeOK
  <2>3. -m \in M
    BY <2>1, <2>2 DEF Agrees
  <2> QED
    BY <1>2, <1>3, <2>3 DEF Models
<1> QED
  BY <1>2, <1>4

(* Backtracking: every model that was covered by the flipped decision now  *)
(* agrees with the whole trail, since none agreed with the conflict.       *)
LEMMA BacktrackInv ==
  ASSUME Inv, NEW k \in DOMAIN trail, Backtrack(k)
  PROVE  Inv'
<1> DEFINE e == [lit |-> -trail[k].lit, kind |-> "TRIED_BOTH_WAYS"]
<1> USE DEF Inv
<1>1. trail \in Seq(Entry) /\ trail[k] \in Entry /\ k \in Nat \ {0} /\ DOMAIN trail = 1 .. Len(trail)
      /\ Len(trail) \in Nat
  BY LenProperties, ElementOfSeq DEF TypeOK
<1>2. e \in Entry
  BY <1>1, Negation DEF Entry, Kind
<1>3. /\ trail' \in Seq(Entry) /\ Len(trail') = k /\ DOMAIN trail' = 1 .. k
      /\ \A i \in 1 .. k - 1 : trail'[i] = trail[i]
      /\ trail'[k] = e
      /\ UNCHANGED <<formula, answer>> /\ answer = "none" /\ Conflict /\ LastOpen(k)
  BY <1>1, <1>2, FlipEntry DEF Backtrack
<1>4. TypeOK'
  BY <1>3 DEF TypeOK
<1>5. \A i \in 1 .. k : i \in 1 .. k - 1 \/ i = k
  BY <1>1
<1>6. \A i \in 1 .. k - 1 : i \in DOMAIN trail /\ i # k /\ trail[i] \in Entry
  <2>1. \A i \in 1 .. k - 1 : i \in 1 .. Len(trail) /\ i # k
    BY <1>1
  <2> QED
    BY <1>1, <2>1, ElementOfSeq
<1>7. Distinct'
  <2>1. \A i \in 1 .. k - 1 : /\ trail[i].lit # trail[k].lit /\ trail[i].lit # -trail[k].lit
                              /\ trail[i].lit \in Literal
    BY <1>6 DEF Distinct, Entry
  <2>2. \A i \in 1 .. k - 1 : /\ trail[i].lit # e.lit /\ trail[i].lit # -e.lit
                              /\ e.lit # -trail[i].lit
    BY <1>1, <2>1, Negation DEF Entry
  <2> QED
    BY <1>3, <1>5, <1>6, <2>2 DEF Distinct
<1>8. Covered'
  <2> SUFFICES ASSUME NEW M \in Models, Satisfies(M, formula)
               PROVE  \/ Agrees(M, Len(trail) + 1)'
                      \/ \E j \in DOMAIN trail' : /\ trail'[j].kind = "TRIED_ONE_WAY"
                                                  /\ trail'[j].lit \notin M
                                                  /\ Agrees(M, j)'
    BY <1>3 DEF Covered, Satisfies
  <2>a. Len(trail') + 1 - 1 = k
    BY <1>1, <1>3
  <2> SUFFICES \/ \A i \in 1 .. k : trail'[i].lit \in M
               \/ \E j \in 1 .. k : /\ trail'[j].kind = "TRIED_ONE_WAY"
                                    /\ trail'[j].lit \notin M
                                    /\ \A i \in 1 .. j - 1 : trail'[i].lit \in M
    BY <1>3, <2>a DEF Agrees
  <2>1. PICK j \in DOMAIN trail : /\ trail[j].kind = "TRIED_ONE_WAY"
                                  /\ trail[j].lit \notin M
                                  /\ \A i \in 1 .. j - 1 : trail[i].lit \in M
    BY <1>3, ConflictExcludes DEF Covered, Agrees
  <2>2. j \in Nat /\ j <= k
    BY <1>1, <1>3, <2>1 DEF LastOpen
  <2>3. CASE j = k
    <3>1. -trail[k].lit \in M
      BY <1>1, <2>1, <2>3, Negation DEF Models, Entry
    <3> QED
      BY <1>3, <1>5, <2>1, <2>3, <3>1
  <2>4. CASE j # k
    <3>1. j \in 1 .. k - 1 /\ \A i \in 1 .. j - 1 : i \in 1 .. k - 1
      BY <1>1, <2>1, <2>2, <2>4
    <3> QED
      BY <1>3, <1>5, <2>1, <3>1
  <2> QED
    BY <2>3, <2>4
<1> QED
  BY <1>3, <1>4, <1>7, <1>8 DEF SatSound, UnsatSound

(* Giving up: with a conflict and no decision left to flip, no model is     *)
(* left.                                                                    *)
LEMMA FailInv ==
  ASSUME Inv, Fail
  PROVE  Inv'
<1> USE DEF Inv
<1>1. UNCHANGED formula /\ trail' = <<>> /\ answer = "none" /\ answer' = "UNSAT"
      /\ Conflict /\ \A k \in DOMAIN trail : trail[k].kind # "TRIED_ONE_WAY"
  BY DEF Fail
<1>2. Unsatisfiable(formula)
  <2> SUFFICES ASSUME NEW M \in Models, Satisfies(M, formula) PROVE FALSE
    BY DEF Unsatisfiable
  <2> QED
    BY <1>1, ConflictExcludes DEF Covered
<1> QED
  BY <1>1, <1>2 DEF TypeOK, Distinct, Covered, SatSound, UnsatSound

(* Success: the trail assigns every variable once and falsifies no clause. *)
LEMMA SucceedInv ==
  ASSUME Inv, Succeed
  PROVE  Inv'
<1> USE DEF Inv
<1> DEFINE T == True(trail)
<1>1. /\ UNCHANGED <<formula, trail>> /\ answer = "none" /\ answer' = "SAT"
      /\ ~Conflict /\ \A l \in Literal : Assigned(l)
  BY DEF Succeed
<1>2. T \subseteq Literal
  <2>1. ASSUME NEW i \in DOMAIN trail PROVE trail[i] \in Entry
    <3>1. i \in 1 .. Len(trail)
      BY LenProperties DEF TypeOK
    <3> QED
      BY <3>1, ElementOfSeq DEF TypeOK
  <2> QED
    BY <2>1 DEF True, Entry
<1>3. ASSUME NEW l \in Literal, l \in T PROVE -l \notin T
  <2> SUFFICES ASSUME -l \in T PROVE FALSE
    OBVIOUS
  <2>1. PICK i \in DOMAIN trail : trail[i].lit = l
    BY <1>3 DEF True
  <2>2. PICK j \in DOMAIN trail : trail[j].lit = -l
    BY DEF True
  <2>3. i # j /\ trail[i].lit = -trail[j].lit
    BY <2>1, <2>2, Negation
  <2> QED
    BY <2>3 DEF Distinct
<1>4. T \in Models
  BY <1>1, <1>2, <1>3 DEF Models, Assigned
<1>5. ASSUME NEW C \in formula PROVE C \cap T # {}
  <2>1. PICK l \in C : -l \notin T
    BY <1>1 DEF Conflict
  <2>2. l \in Literal
    BY DEF TypeOK
  <2> QED
    BY <1>1, <2>1, <2>2 DEF Assigned
<1> QED
  BY <1>1, <1>4, <1>5 DEF TypeOK, Distinct, Covered, Agrees, SatSound, UnsatSound, Satisfies

-----------------------------------------------------------------------------
(* The theorems *)

THEOREM Invariance == Spec => []Inv
<1>1. Init => Inv
  <2> SUFFICES ASSUME Init PROVE Inv
    OBVIOUS
  <2>1. trail \in Seq(Entry) /\ Len(trail) = 0 /\ DOMAIN trail = {}
    BY EmptySeq DEF Init
  <2> QED
    BY <2>1 DEF Init, Inv, TypeOK, Distinct, Covered, Agrees, SatSound, UnsatSound
<1>2. Inv /\ [Next]_vars => Inv'
  <2> SUFFICES ASSUME Inv, [Next]_vars PROVE Inv'
    OBVIOUS
  <2>1. ASSUME NEW l \in Literal, Decide(l) PROVE Inv'
    BY <2>1, AssignInv DEF Decide, Kind
  <2>2. ASSUME NEW l \in Literal, Propagate(l) PROVE Inv'
    <3>1. Assign(l, "IMPLIED") /\ "IMPLIED" \in Kind
      BY <2>2 DEF Propagate, Kind
    <3>2. \A M \in Models : Satisfies(M, formula) /\ Agrees(M, Len(trail) + 1) => l \in M
      BY <2>2, PropagateForced DEF Inv
    <3> QED
      BY <3>1, <3>2, AssignInv
  <2>3. ASSUME NEW k \in DOMAIN trail, Backtrack(k) PROVE Inv'
    BY <2>3, BacktrackInv
  <2>4. CASE Fail
    BY <2>4, FailInv
  <2>5. CASE Succeed
    BY <2>5, SucceedInv
  <2>6. CASE UNCHANGED vars
    BY <2>6 DEF vars, Inv, TypeOK, Distinct, Covered, Agrees, SatSound, UnsatSound
  <2> QED
    BY <2>1, <2>2, <2>3, <2>4, <2>5, <2>6 DEF Next
<1> QED
  BY <1>1, <1>2, PTL DEF Spec

(* A DPLL search prints "SAT" only with a satisfying assignment ...         *)
THEOREM SatIsRight == Spec => []SatSound
<1>1. Inv => SatSound
  BY DEF Inv
<1> QED
  BY <1>1, Invariance, PTL

(* ... and "UNSAT" only for a formula without one.                          *)
THEOREM UnsatIsRight == Spec => []UnsatSound
<1>1. Inv => UnsatSound
  BY DEF Inv
<1> QED
  BY <1>1, Invariance, PTL
=============================================================================
