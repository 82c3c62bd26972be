--------------------------- MODULE FastSat_proofs ---------------------------
(***************************************************************************)
(* fast.c keeps its watches in order whatever the input, and on inputs     *)
(* without opposite unit clauses runs the abstract search, for every       *)
(* number of variables.                                                    *)
(***************************************************************************)
EXTENDS FastSat, Assignments_proofs

-----------------------------------------------------------------------------
(* Lists *)

\* init_watcher and set_literal put a clause in front of a list.
LEMMA Prepend ==
  ASSUME NEW S, NEW s \in Seq(S), NEW e \in S
  PROVE  /\ <<e>> \o s \in Seq(S) /\ Range(<<e>> \o s) = Range(s) \cup {e}
         /\ IsInjective(s) /\ e \notin Range(s) => IsInjective(<<e>> \o s)
<1> DEFINE t == <<e>> \o s
<1>n. PICK n \in Nat : n = Len(s)
  BY LenProperties
<1>1. /\ t \in Seq(S) /\ Len(t) = n + 1 /\ t[1] = e
      /\ \A i \in 2 .. n + 1 : t[i] = s[i - 1]
  <2>1. <<e>> \in Seq(S) /\ Len(<<e>>) = 1 /\ <<e>>[1] = e
    OBVIOUS
  <2>2. /\ t \in Seq(S) /\ Len(t) = 1 + n
        /\ \A i \in 1 .. 1 + n : t[i] = IF i <= 1 THEN <<e>>[i] ELSE s[i - 1]
    BY <1>n, <2>1, ConcatProperties
  <2> HIDE DEF t
  <2> QED
    BY <2>1, <2>2
<1>2. DOMAIN t = 1 .. n + 1 /\ DOMAIN s = 1 .. n
  BY <1>n, <1>1, LenProperties
<1> HIDE DEF t
<1>3. Range(t) = Range(s) \cup {e}
  <2>1. \A i \in 1 .. n : t[i + 1] = s[i] /\ i + 1 \in 1 .. n + 1
    BY <1>1
  <2>2. \A i \in 1 .. n + 1 : i = 1 \/ (i \in 2 .. n + 1 /\ i - 1 \in 1 .. n)
    OBVIOUS
  <2>3. \A i \in 1 .. n + 1 : t[i] = e \/ \E j \in 1 .. n : t[i] = s[j]
    BY <1>1, <2>2
  <2>4. 1 \in 1 .. n + 1 /\ \A i \in 1 .. n : \E j \in 1 .. n + 1 : t[j] = s[i]
    <3>1. \A i \in 1 .. n : i + 1 \in 2 .. n + 1 /\ (i + 1) - 1 = i
      OBVIOUS
    <3> QED
      BY <1>1, <2>1, <3>1
  <2>5. Range(t) \subseteq Range(s) \cup {e}
    BY <1>2, <2>3 DEF Range
  <2>6. Range(s) \cup {e} \subseteq Range(t)
    <3>1. \A j \in 1 .. n + 1 : t[j] \in Range(t)
      BY <1>2 DEF Range
    <3>2. \A x \in Range(s) : \E i \in 1 .. n : x = s[i]
      BY <1>2 DEF Range
    <3>3. e \in Range(t)
      BY <1>1, <2>4, <3>1
    <3>4. ASSUME NEW x \in Range(s) PROVE x \in Range(t)
      <4>1. PICK i \in 1 .. n : x = s[i]
        BY <3>2
      <4>2. PICK j \in 1 .. n + 1 : t[j] = s[i]
        BY <2>4
      <4> QED
        BY <3>1, <4>1, <4>2
    <3> QED
      BY <3>3, <3>4
  <2> QED
    BY <2>5, <2>6
<1>4. ASSUME IsInjective(s), e \notin Range(s) PROVE IsInjective(t)
  <2> SUFFICES ASSUME NEW i \in 1 .. n + 1, NEW j \in 1 .. n + 1, t[i] = t[j] PROVE i = j
    BY <1>2 DEF IsInjective
  <2>1. \A x \in 1 .. n : s[x] # e
    BY <1>2, <1>4 DEF Range
  <2>2. \A x, y \in 1 .. n : s[x] = s[y] => x = y
    BY <1>2, <1>4 DEF IsInjective
  <2>3. \A x \in 1 .. n + 1 : x = 1 \/ (x \in 2 .. n + 1 /\ x - 1 \in 1 .. n)
    OBVIOUS
  <2>4. (i = 1 /\ j # 1) \/ (i # 1 /\ j = 1) => FALSE
    BY <1>1, <2>1, <2>3
  <2>5. i # 1 /\ j # 1 => i - 1 = j - 1
    BY <1>1, <2>2, <2>3
  <2> QED
    BY <2>4, <2>5
<1> QED
  BY <1>1, <1>3, <1>4 DEF t

\* set_literal takes a clause out of a list; those behind it move up.
LEMMA Take ==
  ASSUME NEW S, NEW s \in Seq(S), NEW i \in 1 .. Len(s)
  PROVE  /\ RemoveAt(s, i) \in Seq(S) /\ Len(RemoveAt(s, i)) = Len(s) - 1
         /\ \A j \in 1 .. Len(s) - 1 : RemoveAt(s, i)[j] = IF j < i THEN s[j] ELSE s[j + 1]
         /\ IsInjective(s) => /\ IsInjective(RemoveAt(s, i))
                              /\ Range(RemoveAt(s, i)) = Range(s) \ {s[i]}
<1> DEFINE a == SubSeq(s, 1, i - 1)
           b == SubSeq(s, i + 1, Len(s))
           t == a \o b
<1>n. PICK n \in Nat : n = Len(s)
  BY LenProperties
<1>0. i \in 1 .. n /\ DOMAIN s = 1 .. n /\ \A j \in 1 .. n : s[j] \in S
  BY <1>n, LenProperties, ElementOfSeq
<1>1. a \in Seq(S) /\ Len(a) = i - 1 /\ \A j \in 1 .. i - 1 : a[j] = s[j]
  <2>1. \A j \in 1 .. i - 1 : s[j] \in S
    BY <1>0
  <2>2. /\ a \in Seq(S) /\ Len(a) = IF 1 <= i - 1 THEN i - 1 - 1 + 1 ELSE 0
        /\ \A j \in 1 .. i - 1 - 1 + 1 : a[j] = s[1 + j - 1]
    BY <1>0, <2>1, SubSeqProperties
  <2> HIDE DEF a
  <2> QED
    BY <1>0, <2>2
<1>2. b \in Seq(S) /\ Len(b) = n - i /\ \A j \in 1 .. n - i : b[j] = s[i + j]
  <2>1. \A j \in i + 1 .. n : s[j] \in S
    BY <1>0
  <2>2. /\ b \in Seq(S) /\ Len(b) = IF i + 1 <= n THEN n - (i + 1) + 1 ELSE 0
        /\ \A j \in 1 .. n - (i + 1) + 1 : b[j] = s[i + 1 + j - 1]
    BY <1>0, <1>n, <2>1, SubSeqProperties
  <2> HIDE DEF b
  <2> QED
    BY <1>0, <2>2
<1> HIDE DEF a, b
<1>3. /\ t \in Seq(S) /\ Len(t) = n - 1
      /\ \A j \in 1 .. n - 1 : t[j] = IF j < i THEN s[j] ELSE s[j + 1]
  <2>1. /\ t \in Seq(S) /\ Len(t) = Len(a) + Len(b)
        /\ \A j \in 1 .. Len(a) + Len(b) : t[j] = IF j <= Len(a) THEN a[j] ELSE b[j - Len(a)]
    BY <1>1, <1>2, ConcatProperties
  <2> HIDE DEF t
  <2>2. Len(t) = n - 1 /\ \A j \in 1 .. n - 1 : t[j] = IF j <= i - 1 THEN a[j] ELSE b[j - (i - 1)]
    BY <1>0, <1>1, <1>2, <2>1
  <2>3. ASSUME NEW j \in 1 .. n - 1 PROVE t[j] = IF j < i THEN s[j] ELSE s[j + 1]
    <3>1. CASE j < i
      BY <1>0, <1>1, <2>2, <3>1
    <3>2. CASE j >= i
      <4>1. t[j] = b[j - (i - 1)] /\ j - (i - 1) \in 1 .. n - i
        BY <1>0, <2>2, <3>2
      <4>2. i + (j - (i - 1)) = j + 1
        BY <1>0
      <4>3. b[j - (i - 1)] = s[i + (j - (i - 1))]
        BY <1>2, <4>1
      <4> QED
        BY <1>0, <3>2, <4>1, <4>2, <4>3
    <3> QED
      BY <1>0, <3>1, <3>2
  <2> QED
    BY <2>1, <2>2, <2>3
<1>4. t = RemoveAt(s, i)
  BY DEF RemoveAt, a, b
<1>5. DOMAIN t = 1 .. n - 1
  BY <1>3, LenProperties
<1> HIDE DEF t
<1>6. ASSUME IsInjective(s) PROVE IsInjective(t) /\ Range(t) = Range(s) \ {s[i]}
  <2>1. \A x, y \in 1 .. n : s[x] = s[y] => x = y
    BY <1>0, <1>6 DEF IsInjective
  <2> DEFINE up(j) == IF j < i THEN j ELSE j + 1
  <2>2. \A j \in 1 .. n - 1 : t[j] = s[up(j)] /\ up(j) \in 1 .. n /\ up(j) # i
    BY <1>0, <1>3
  <2>3. \A j, k \in 1 .. n - 1 : up(j) = up(k) => j = k
    BY <1>0
  <2>4. \A x \in 1 .. n : x # i => \E j \in 1 .. n - 1 : up(j) = x
    <3> SUFFICES ASSUME NEW x \in 1 .. n, x # i PROVE \E j \in 1 .. n - 1 : up(j) = x
      OBVIOUS
    <3>1. CASE x < i
      <4>1. x \in 1 .. n - 1 /\ up(x) = x
        BY <1>0, <3>1
      <4> QED
        BY <4>1
    <3>2. CASE x > i
      <4>1. x - 1 \in 1 .. n - 1 /\ up(x - 1) = x
        BY <1>0, <3>2
      <4> QED
        BY <4>1
    <3> QED
      BY <1>0, <3>1, <3>2
  <2> HIDE DEF up
  <2>5. IsInjective(t)
    BY <1>5, <2>1, <2>2, <2>3 DEF IsInjective
  <2>6. Range(t) \subseteq Range(s) \ {s[i]}
    BY <1>0, <1>5, <2>1, <2>2 DEF Range
  <2>7. Range(s) \ {s[i]} \subseteq Range(t)
    <3> SUFFICES ASSUME NEW x \in 1 .. n, s[x] # s[i] PROVE s[x] \in Range(t)
      BY <1>0 DEF Range
    <3>1. PICK j \in 1 .. n - 1 : up(j) = x
      BY <2>4
    <3> QED
      BY <1>5, <2>2, <3>1 DEF Range
  <2> QED
    BY <2>5, <2>6, <2>7
<1> QED
  BY <1>n, <1>3, <1>4, <1>6

\* A list without repetitions, grown at its end or cut by one there.
LEMMA Grow ==
  ASSUME NEW S, NEW s \in Seq(S), NEW e \in S
  PROVE  /\ Append(s, e) \in Seq(S) /\ Range(Append(s, e)) = Range(s) \cup {e}
         /\ IsInjective(s) /\ e \notin Range(s) => IsInjective(Append(s, e))
<1> DEFINE t == Append(s, e)
<1>n. PICK n \in Nat : n = Len(s)
  BY LenProperties
<1>1. t \in Seq(S) /\ Len(t) = n + 1 /\ (\A i \in 1 .. n : t[i] = s[i]) /\ t[n + 1] = e
  BY <1>n, AppendProperties
<1>2. DOMAIN t = 1 .. n + 1 /\ DOMAIN s = 1 .. n
  BY <1>n, <1>1, LenProperties
<1> HIDE DEF t
<1>3. \A i \in 1 .. n + 1 : i \in 1 .. n \/ i = n + 1
  OBVIOUS
<1>4. \A i \in 1 .. n : i \in 1 .. n + 1
  OBVIOUS
<1>5. Range(t) = Range(s) \cup {e}
  BY <1>1, <1>2, <1>3, <1>4 DEF Range
<1>6. IsInjective(s) /\ e \notin Range(s) => IsInjective(t)
  BY <1>1, <1>2, <1>3 DEF IsInjective, Range
<1> QED
  BY <1>1, <1>5, <1>6 DEF t

LEMMA Cut ==
  ASSUME NEW S, NEW s \in Seq(S), s # <<>>
  PROVE  /\ Front(s) \in Seq(S) /\ Len(Front(s)) = Len(s) - 1 /\ Last(s) \in S
         /\ Len(s) \in Nat \ {0}
         /\ \A i \in 1 .. Len(s) - 1 : Front(s)[i] = s[i]
         /\ Range(s) = Range(Front(s)) \cup {Last(s)}
         /\ IsInjective(s) => IsInjective(Front(s)) /\ Last(s) \notin Range(Front(s))
<1> DEFINE t == Front(s)
<1>n. PICK n \in Nat \ {0} : n = Len(s)
  BY EmptySeq
<1>1. DOMAIN s = 1 .. n /\ \A i \in 1 .. n : s[i] \in S
  BY <1>n, LenProperties, ElementOfSeq
<1>2. t \in Seq(S) /\ Len(t) = n - 1 /\ \A i \in 1 .. n - 1 : t[i] = s[i]
  <2>1. \A i \in 1 .. n - 1 : s[i] \in S
    BY <1>1
  <2>2. /\ t \in Seq(S) /\ Len(t) = IF 1 <= n - 1 THEN n - 1 - 1 + 1 ELSE 0
        /\ \A i \in 1 .. n - 1 - 1 + 1 : t[i] = s[1 + i - 1]
    BY <1>n, <2>1, SubSeqProperties DEF Front
  <2> HIDE DEF t
  <2> QED
    BY <2>2
<1>3. DOMAIN t = 1 .. n - 1
  BY <1>2, LenProperties
<1> HIDE DEF t
<1>4. Last(s) = s[n] /\ n \in 1 .. n
  BY <1>n DEF Last
<1>5. \A i \in 1 .. n : i \in 1 .. n - 1 \/ i = n
  OBVIOUS
<1>6. Range(s) = Range(t) \cup {Last(s)}
  BY <1>1, <1>2, <1>3, <1>4, <1>5 DEF Range
<1>7. IsInjective(s) => IsInjective(t) /\ Last(s) \notin Range(t)
  BY <1>1, <1>2, <1>3, <1>4 DEF IsInjective, Range
<1> QED
  BY <1>n, <1>1, <1>2, <1>4, <1>6, <1>7 DEF t

-----------------------------------------------------------------------------
(* The watches *)

Loaded(c) == Len(CLAUSES[c]) >= 2 /\ (pc = "load" => c < w)

(* A clause watches two of its literals and stands once in the lists of     *)
(* these, and nowhere else.                                                 *)
Wired ==
  /\ \A c \in DOMAIN CLAUSES : Loaded(c) =>
       /\ watching[c] \in [1 .. 2 -> Range(CLAUSES[c])]
       /\ watching[c][1] # watching[c][2]
  /\ \A l \in Literal :
       /\ IsInjective(LIT_TO_CLAUSES[l])
       /\ \A c \in DOMAIN CLAUSES :
            c \in Range(LIT_TO_CLAUSES[l]) <=> Loaded(c) /\ l \in Range(watching[c])

Wiring == TypeOK /\ CLAUSES \in Inputs /\ w >= 1 /\ (pc # "done" => Wired)

-----------------------------------------------------------------------------
(* The search *)

(* The assignment and the stack without the second assignment of a variable. *)
Before == IF Twice
            THEN [ASSIGNMENT EXCEPT ![Last(DECISION_STACK).var] =
                    IF ASSIGNMENT[Last(DECISION_STACK).var] = TRUE_ THEN FALSE_ ELSE TRUE_]
            ELSE ASSIGNMENT
Placed == IF Twice THEN Front(DECISION_STACK) ELSE DECISION_STACK

True(l)     == LitTrue(ASSIGNMENT, l)
Queued(l)   == l \in Range(BCP_LIST)
Unit(l)     == \E c \in DOMAIN CLAUSES : Len(CLAUSES[c]) = 1 /\ CLAUSES[c][1] = l
AllFalse(c) == \A m \in Range(CLAUSES[c]) : True(-m)
OpenIn(st, k)     == k \in DOMAIN st /\ st[k].type = "TRIED_ONE_WAY"
BelowIn(st, v, k) == \E j \in 1 .. k - 1 : st[j].var = v
Open(k)     == OpenIn(DECISION_STACK, k)
NoOpen      == \A k \in DOMAIN DECISION_STACK : ~Open(k)
Below(v, k) == BelowIn(DECISION_STACK, v, k)

(* A clause that watches l has no other literal left.                       *)
Forces(c, l) == /\ Len(CLAUSES[c]) >= 2 /\ l \in Range(watching[c])
                /\ -l \notin Range(CLAUSES[c])
                /\ \A m \in Range(CLAUSES[c]) \ {l} : True(-m)
Because(l)   == \E c \in DOMAIN CLAUSES : Forces(c, l)

(* The walk is still to come by a falsified clause.                         *)
Pending == \E x \in w .. Len(Walked) : AllFalse(Walked[x])

(* A false watch is made up for by a true one that no backtracking unsets   *)
(* first, or it was falsified since the last open decision and the other    *)
(* watch is about to become true, or the walk is still to come by.          *)
Guarded(m, o) == True(o) /\ \A k \in DOMAIN DECISION_STACK :
                              Open(k) /\ Below(VarOf(m), k) => Below(VarOf(o), k)
Recent(m)     == \A k \in DOMAIN DECISION_STACK : Open(k) => ~Below(VarOf(m), k)
Due(c, m, o)  ==
  \/ pc = "conflict"
  \/ /\ pc \in {"bcp", "walk"} /\ Queued(o)
     /\ \A l \in Range(CLAUSES[c]) \ {o} : True(-l)
  \/ /\ pc = "walk" /\ m = -lit
     /\ \E x \in w .. Len(Walked) : Walked[x] = c
Watch(c, m, o) == True(-m) => Guarded(m, o) \/ (Recent(m) /\ Due(c, m, o))
Watched ==
  \A c \in DOMAIN CLAUSES : Len(CLAUSES[c]) >= 2 =>
    Watch(c, watching[c][1], watching[c][2]) /\ Watch(c, watching[c][2], watching[c][1])

(* The literal of a unit clause is to be assigned or stays true.            *)
UnitsHold ==
  \A l \in Literal : Unit(l) =>
    \/ NoOpen /\ (pc = "conflict" \/ Queued(l))
    \/ True(l) /\ \A k \in DOMAIN DECISION_STACK : Open(k) => Below(VarOf(l), k)

(* What is queued was implied, and where its negation is already true a     *)
(* conflict is coming.                                                      *)
QueueHolds ==
  pc \in {"bcp", "walk"} =>
    \A l \in Range(BCP_LIST) :
      /\ ~True(l)
      /\ Because(l) \/ (Unit(l) /\ NoOpen)
      /\ True(-l) => \/ Unit(l) /\ NoOpen /\ Because(-l)
                     \/ pc = "walk" /\ Pending

(* The variable walked for is the last on the stack.                        *)
Walking ==
  /\ pc = "walk" \/ Twice =>
       DECISION_STACK # <<>> /\ Last(DECISION_STACK).var = VarOf(lit) /\ True(lit)
  /\ pc = "walk" /\ caller # "bcp" =>
       \A l \in Range(BCP_LIST) : ASSIGNMENT[VarOf(l)] = UNASSIGNED

TwiceHolds ==
  Twice => /\ pc \in {"walk", "conflict"} /\ caller = "bcp"
           /\ NoOpen /\ Unit(lit)
           /\ pc = "walk" => Pending

Loading ==
  pc = "load" =>
    /\ DECISION_STACK = <<>>
    /\ \A l \in Range(BCP_LIST) : Unit(l)
    /\ \A c \in DOMAIN CLAUSES : c < w =>
         Len(CLAUSES[c]) # 0 /\ (Len(CLAUSES[c]) = 1 => Queued(CLAUSES[c][1]))

Located ==
  /\ answer = "none" <=> pc # "done"
  /\ pc # "abort"
  /\ pc = "decide" => BCP_LIST = <<>>
  /\ pc = "conflict" /\ ~Twice => \E c \in DOMAIN CLAUSES : AllFalse(c)
  /\ pc \notin {"load", "done"} => \A c \in DOMAIN CLAUSES : Len(CLAUSES[c]) # 0

Searching ==
  /\ Consistent(Before, Placed) /\ Loading /\ Located /\ Walking /\ TwiceHolds
  /\ pc \notin {"load", "done"} /\ ~Twice => Watched /\ UnitsHold /\ QueueHolds

IInv == Wiring /\ Searching

-----------------------------------------------------------------------------
(* What the wiring says of a clause, and of the one under the cursor *)

LEMMA Pair ==
  ASSUME NEW S, NEW f \in [1 .. 2 -> S]
  PROVE  Range(f) = {f[1], f[2]}
<1>1. DOMAIN f = 1 .. 2 /\ 1 \in 1 .. 2 /\ 2 \in 1 .. 2 /\ \A i \in 1 .. 2 : i = 1 \/ i = 2
  OBVIOUS
<1> QED
  BY <1>1 DEF Range

LEMMA IsTrue == \A l : is_literal_true(l) <=> True(l)
BY DEF is_literal_true, True, LitTrue, Value

LEMMA ClauseFacts ==
  ASSUME TypeOK, CLAUSES \in Inputs, NEW c \in DOMAIN CLAUSES
  PROVE  /\ CLAUSES[c] \in Seq(Literal) /\ IsInjective(CLAUSES[c])
         /\ Len(CLAUSES[c]) \in Nat /\ DOMAIN CLAUSES[c] = 1 .. Len(CLAUSES[c])
         /\ Range(CLAUSES[c]) \subseteq Literal
         /\ \A i \in 1 .. Len(CLAUSES[c]) : CLAUSES[c][i] \in Range(CLAUSES[c])
         /\ Len(CLAUSES) \in Nat /\ DOMAIN CLAUSES = 1 .. Len(CLAUSES)
<1>1. Len(CLAUSES) \in Nat /\ DOMAIN CLAUSES = 1 .. Len(CLAUSES) /\ CLAUSES[c] \in Seq(Literal)
  BY LenProperties, ElementOfSeq DEF TypeOK
<1>2. Len(CLAUSES[c]) \in Nat /\ DOMAIN CLAUSES[c] = 1 .. Len(CLAUSES[c])
  BY <1>1, LenProperties
<1>3. IsInjective(CLAUSES[c])
  BY InputsAssumption
<1>4. Range(CLAUSES[c]) \subseteq Literal
  BY <1>1, ClauseSize
<1>5. \A i \in 1 .. Len(CLAUSES[c]) : CLAUSES[c][i] \in Range(CLAUSES[c])
  BY <1>2 DEF Range
<1> QED
  BY <1>1, <1>2, <1>3, <1>4, <1>5

LEMMA WatchFacts ==
  ASSUME TypeOK, CLAUSES \in Inputs, Wired, NEW c \in DOMAIN CLAUSES, Loaded(c)
  PROVE  /\ watching[c] \in [1 .. 2 -> Range(CLAUSES[c])] /\ watching[c][1] # watching[c][2]
         /\ Range(watching[c]) = {watching[c][1], watching[c][2]}
         /\ Range(watching[c]) \subseteq Range(CLAUSES[c])
         /\ Range(watching[c]) \subseteq Literal
         /\ Len(watching[c]) = 2
<1>1. watching[c] \in [1 .. 2 -> Range(CLAUSES[c])] /\ watching[c][1] # watching[c][2]
  BY DEF Wired
<1>2. Range(watching[c]) = {watching[c][1], watching[c][2]}
  BY <1>1, Pair
<1>3. watching[c][1] \in Range(CLAUSES[c]) /\ watching[c][2] \in Range(CLAUSES[c])
  <2>1. 1 \in 1 .. 2 /\ 2 \in 1 .. 2
    OBVIOUS
  <2> QED
    BY <1>1, <2>1
<1>4. Range(CLAUSES[c]) \subseteq Literal
  BY ClauseFacts
<1>5. Len(watching[c]) = 2
  <2>1. watching[c] \in Seq(Literal \cup {0})
    BY DEF TypeOK
  <2>2. DOMAIN watching[c] = 1 .. Len(watching[c]) /\ Len(watching[c]) \in Nat
    BY <2>1, LenProperties
  <2>3. DOMAIN watching[c] = 1 .. 2
    BY <1>1
  <2>4. \A n \in Nat : 1 .. n = 1 .. 2 => n = 2
    <3> SUFFICES ASSUME NEW n \in Nat, 1 .. n = 1 .. 2 PROVE n = 2
      OBVIOUS
    <3>1. \A x : x \in 1 .. n <=> x \in 1 .. 2
      OBVIOUS
    <3>2. 2 \in 1 .. n /\ 3 \notin 1 .. n
      BY <3>1
    <3> QED
      BY <3>2
  <2> QED
    BY <2>2, <2>3, <2>4
<1> QED
  BY <1>1, <1>2, <1>3, <1>4, <1>5

\* The clause under the cursor watches -lit and another literal; the search
\* for a new watch finds a literal that is neither and is not false, if any.
LEMMA CursorFacts ==
  ASSUME Wiring, AtClause
  PROVE  /\ lit \in Literal /\ -lit \in Literal /\ w \in 1 .. Len(Walked)
         /\ Walked \in Seq(DOMAIN CLAUSES) /\ Clause \in DOMAIN CLAUSES /\ Loaded(Clause)
         /\ watch_id \in 1 .. 2 /\ watching[Clause][watch_id] = -lit
         /\ 3 - watch_id \in 1 .. 2 /\ watching[Clause][3 - watch_id] = other_watch
         /\ Range(watching[Clause]) = {-lit, other_watch} /\ other_watch # -lit
         /\ other_watch \in Range(CLAUSES[Clause]) /\ other_watch \in Literal
         /\ -lit \in Range(CLAUSES[Clause])
         /\ new_watch_lit = 0 =>
              \A m \in Range(CLAUSES[Clause]) : m \in {other_watch, -lit} \/ True(-m)
         /\ new_watch_lit # 0 =>
              /\ new_watch_lit \in Range(CLAUSES[Clause]) /\ new_watch_lit \in Literal
              /\ new_watch_lit \notin {other_watch, -lit} /\ ~True(-new_watch_lit)
<1>1. lit \in Literal /\ -lit \in Literal /\ Wired /\ TypeOK /\ CLAUSES \in Inputs /\ pc = "walk"
  BY Literals DEF Wiring, TypeOK, AtClause
<1>2. Walked \in Seq(DOMAIN CLAUSES)
  BY <1>1 DEF TypeOK, Walked, clauses_watching
<1>3. w \in 1 .. Len(Walked) /\ DOMAIN Walked = 1 .. Len(Walked)
  BY <1>2, LenProperties DEF Wiring, TypeOK, AtClause
<1>4. Clause \in DOMAIN CLAUSES /\ Clause \in Range(LIT_TO_CLAUSES[-lit])
  BY <1>2, <1>3, ElementOfSeq DEF Clause, Walked, clauses_watching, Range
<1>5. Loaded(Clause) /\ -lit \in Range(watching[Clause])
  BY <1>1, <1>4 DEF Wired
<1>6. /\ watching[Clause] \in [1 .. 2 -> Range(CLAUSES[Clause])]
      /\ watching[Clause][1] # watching[Clause][2]
      /\ Range(watching[Clause]) = {watching[Clause][1], watching[Clause][2]}
      /\ Range(watching[Clause]) \subseteq Range(CLAUSES[Clause])
      /\ Range(watching[Clause]) \subseteq Literal
  BY <1>1, <1>4, <1>5, WatchFacts
<1>7. /\ watch_id \in 1 .. 2 /\ watching[Clause][watch_id] = -lit
      /\ 3 - watch_id \in 1 .. 2 /\ watching[Clause][3 - watch_id] = other_watch
      /\ Range(watching[Clause]) = {-lit, other_watch} /\ other_watch # -lit
  <2>1. CASE watching[Clause][1] = -lit
    <3>1. watch_id = 1 /\ other_watch = watching[Clause][2] /\ 3 - watch_id = 2
      BY <2>1 DEF watch_id, other_watch
    <3> QED
      BY <1>6, <2>1, <3>1
  <2>2. CASE watching[Clause][1] # -lit
    <3>1. watch_id = 2 /\ other_watch = watching[Clause][1] /\ 3 - watch_id = 1
      BY <2>2 DEF watch_id, other_watch
    <3> QED
      BY <1>5, <1>6, <2>2, <3>1
  <2> QED
    BY <2>1, <2>2
<1> DEFINE s == CLAUSES[Clause]
           I == {j \in 1 .. Len(s) : Watchable(s[j])}
<1>8. /\ Len(s) \in Nat /\ DOMAIN s = 1 .. Len(s) /\ Range(s) \subseteq Literal
      /\ \A j \in 1 .. Len(s) : s[j] \in Range(s)
  BY <1>1, <1>4, ClauseFacts
<1>9. SelectInSeq(CLAUSES[Clause], Watchable) = IF I # {} THEN Min(I) ELSE 0
  BY DEF SelectInSeq
<1>10. \A c : Watchable(c) <=> c \notin {other_watch, -lit} /\ ~True(-c)
  BY IsTrue DEF Watchable
<1>11. CASE I = {}
  <2>1. new_watch_lit = 0
    BY <1>9, <1>11 DEF new_watch_lit
  <2>2. \A m \in Range(s) : ~Watchable(m)
    BY <1>8, <1>11 DEF Range
  <2> QED
    BY <1>1, <1>2, <1>3, <1>4, <1>5, <1>6, <1>7, <1>10, <2>1, <2>2
<1>12. CASE I # {}
  <2>1. Min(I) \in I
    <3>1. I \in SUBSET (1 .. Len(s))
      OBVIOUS
    <3> HIDE DEF I, s
    <3> QED
      BY <1>8, <1>12, <3>1, Extremes
  <2>2. PICK j \in 1 .. Len(s) : Watchable(s[j]) /\ j = SelectInSeq(CLAUSES[Clause], Watchable)
    BY <1>9, <1>12, <2>1
  <2>3. new_watch_lit = s[j]
    BY <1>8, <2>2 DEF new_watch_lit
  <2>4. s[j] \in Range(s) /\ s[j] \in Literal /\ s[j] # 0
    BY <1>8, <2>2, Literals
  <2> QED
    BY <1>1, <1>2, <1>3, <1>4, <1>5, <1>6, <1>7, <1>10, <2>2, <2>3, <2>4
<1> QED
  BY <1>11, <1>12

-----------------------------------------------------------------------------
(* The wiring is kept *)

Callers == {"bcp", "decide", "resolveConflict"}

LEMMA TypeParts ==
  TypeOK <=>
    /\ CLAUSES \in Seq(Seq(Literal))
    /\ watching \in [DOMAIN CLAUSES -> Seq(Literal \cup {0})]
    /\ LIT_TO_CLAUSES \in [Literal -> Seq(DOMAIN CLAUSES)]
    /\ ASSIGNMENT \in Assignment /\ DECISION_STACK \in Seq(Decision)
    /\ BCP_LIST \in Seq(Literal) /\ IsInjective(BCP_LIST)
    /\ pc \in {"load", "bcp", "walk", "conflict", "decide", "abort", "done"}
    /\ caller \in Callers /\ lit \in Literal /\ w \in Nat
    /\ answer \in {"none", "SAT", "UNSAT"}
BY DEF TypeOK, Assignment, Decision, Types, Callers

\* A literal is queued once.
LEMMA Queue ==
  ASSUME NEW l \in Literal, NEW list \in Seq(Literal), IsInjective(list)
  PROVE  /\ queue_bcp(l, list) \in Seq(Literal) /\ IsInjective(queue_bcp(l, list))
         /\ Range(queue_bcp(l, list)) = Range(list) \cup {l}
<1>1. Contains(list, l) <=> l \in Range(list)
  BY LenProperties DEF Contains, Range
<1>2. CASE Contains(list, l)
  <2>1. queue_bcp(l, list) = list
    BY <1>2 DEF queue_bcp
  <2> QED
    BY <1>1, <1>2, <2>1
<1>3. CASE ~Contains(list, l)
  <2>1. queue_bcp(l, list) = Append(list, l)
    BY <1>3 DEF queue_bcp
  <2> QED
    BY <1>1, <1>3, <2>1, Grow
<1> QED
  BY <1>2, <1>3

\* Whatever leaves the clauses and lists alone keeps the wiring.
LEMMA WiredKeeps ==
  ASSUME Wired, UNCHANGED <<CLAUSES, watching, LIT_TO_CLAUSES>>,
         \A c \in DOMAIN CLAUSES : Loaded(c)' <=> Loaded(c)
  PROVE  Wired'
BY DEF Wired

LEMMA WiringStarts == Init => Wiring
<1> SUFFICES ASSUME Init PROVE Wiring
  OBVIOUS
<1>1. CLAUSES \in Inputs /\ CLAUSES \in Seq(Seq(Literal))
  BY InputsAssumption DEF Init
<1>2. \A S : <<>> \in Seq(S)
  BY EmptySeq
<1>3. IsInjective(<<>>) /\ Range(<<>>) = {}
  BY DEF IsInjective, Range
<1>4. watching \in [DOMAIN CLAUSES -> Seq(Literal \cup {0})]
  BY DEF Init
<1>5. LIT_TO_CLAUSES \in [Literal -> Seq(DOMAIN CLAUSES)]
  BY <1>2 DEF Init
<1>6. 1 \in Literal
  BY NVarsAssumption DEF Literal
<1>7. TypeOK
  BY <1>1, <1>2, <1>3, <1>4, <1>5, <1>6, TypeParts DEF Init, Assignment, Callers
<1>8. \A c \in DOMAIN CLAUSES : ~Loaded(c)
  <2>1. \A c \in DOMAIN CLAUSES : c \in Nat /\ c >= 1
    BY <1>1, LenProperties
  <2> QED
    BY <2>1 DEF Loaded, Init
<1>9. Wired
  BY <1>3, <1>8 DEF Wired, Init
<1> QED
  BY <1>1, <1>7, <1>9 DEF Wiring, Init

\* set_literal sets what it should, whoever calls it.
LEMMA SetTypes ==
  ASSUME NEW a \in Assignment, NEW st \in Seq(Decision), NEW l \in Literal,
         NEW type \in Types, NEW from \in Callers, set_literal(a, st, l, type, from)
  PROVE  /\ ASSIGNMENT' = With(a, l) /\ ASSIGNMENT' \in Assignment
         /\ DECISION_STACK' = Pushed(st, l, type) /\ DECISION_STACK' \in Seq(Decision)
         /\ pc' = "walk" /\ caller' = from /\ caller' \in Callers
         /\ lit' = l /\ lit' \in Literal /\ w' = 1
<1>1. VarOf(l) \in Var /\ Value(l) \in {FALSE_, TRUE_}
  BY Literals
<1>2. ASSIGNMENT' = With(a, l) /\ DECISION_STACK' = Pushed(st, l, type)
  BY DEF set_literal, With, Value, Pushed
<1>3. With(a, l) \in Assignment
  BY <1>1 DEF With, Assignment
<1>4. [var |-> VarOf(l), type |-> type] \in Decision
  BY <1>1 DEF Decision
<1>5. Pushed(st, l, type) \in Seq(Decision)
  BY <1>4, AppendProperties DEF Pushed
<1> QED
  BY <1>2, <1>3, <1>5 DEF set_literal

\* The actions that neither load nor move a watch, in the main loop.
LEMMA WiringKeeps ==
  ASSUME Wiring, TypeOK', w' >= 1, UNCHANGED <<CLAUSES, watching, LIT_TO_CLAUSES>>,
         pc \notin {"load", "done"}, pc' # "load"
  PROVE  Wiring'
<1>1. Wired'
  BY WiredKeeps DEF Wiring, Loaded
<1> QED
  BY <1>1 DEF Wiring

LEMMA KeepWatchWiring == ASSUME Wiring, KeepWatch PROVE Wiring'
<1>1. AtClause /\ pc = "walk" /\ other_watch \in Literal
  BY CursorFacts DEF KeepWatch, AtClause
<1>2. /\ BCP_LIST \in Seq(Literal) /\ IsInjective(BCP_LIST) /\ w \in Nat /\ TypeOK
  BY DEF Wiring, TypeOK
<1>3. BCP_LIST' \in Seq(Literal) /\ IsInjective(BCP_LIST')
  BY <1>1, <1>2, Queue DEF KeepWatch
<1>4. TypeOK'
  BY <1>2, <1>3 DEF TypeOK, KeepWatch
<1> QED
  BY <1>1, <1>2, <1>4, WiringKeeps DEF KeepWatch, Wiring

LEMMA ReturnConflictWiring == ASSUME Wiring, ReturnConflict PROVE Wiring'
<1>1. pc = "walk" /\ pc' \in {"conflict", "abort", "bcp"} /\ TypeOK /\ w >= 1
  BY DEF Wiring, TypeOK, ReturnConflict, Falsified, AtClause
<1>2. TypeOK'
  BY <1>1 DEF TypeOK, ReturnConflict
<1> QED
  BY <1>1, <1>2, WiringKeeps DEF ReturnConflict

LEMMA ReturnOkWiring == ASSUME Wiring, ReturnOk PROVE Wiring'
<1>1. pc = "walk" /\ pc' = "bcp" /\ TypeOK /\ w >= 1
  BY DEF Wiring, ReturnOk
<1>2. TypeOK'
  BY <1>1 DEF TypeOK, ReturnOk
<1> QED
  BY <1>1, <1>2, WiringKeeps DEF ReturnOk

LEMMA LoadDoneWiring == ASSUME Wiring, LoadDone PROVE Wiring'
<1>1. pc = "load" /\ pc' = "bcp" /\ TypeOK /\ CLAUSES \in Inputs /\ w >= 1 /\ Wired
  BY DEF Wiring, LoadDone
<1>2. TypeOK'
  BY <1>1 DEF TypeOK, LoadDone
<1>3. \A c \in DOMAIN CLAUSES : Loaded(c)' <=> Loaded(c)
  <2>1. \A c \in DOMAIN CLAUSES : c < w
    <3>1. /\ Len(CLAUSES) \in Nat /\ DOMAIN CLAUSES = 1 .. Len(CLAUSES)
          /\ w \in Nat /\ w > Len(CLAUSES)
      BY <1>1, LenProperties DEF TypeOK, LoadDone
    <3> QED
      BY <3>1
  <2> QED
    BY <1>1, <2>1 DEF Loaded, LoadDone
<1>4. Wired'
  BY <1>1, <1>3, WiredKeeps DEF LoadDone
<1> QED
  BY <1>1, <1>2, <1>4 DEF Wiring, LoadDone

LEMMA BcpWiring == ASSUME Wiring, bcp PROVE Wiring'
<1>1. /\ pc = "bcp" /\ TypeOK /\ w >= 1 /\ BCP_LIST \in Seq(Literal) /\ IsInjective(BCP_LIST)
      /\ ASSIGNMENT \in Assignment /\ DECISION_STACK \in Seq(Decision)
  BY TypeParts DEF Wiring, bcp
<1>2. CASE BCP_LIST = <<>>
  <2>1. /\ pc' = "decide"
        /\ UNCHANGED <<ASSIGNMENT, DECISION_STACK, BCP_LIST, caller, lit, w,
                       CLAUSES, watching, LIT_TO_CLAUSES, answer>>
    BY <1>2 DEF bcp
  <2>2. TypeOK'
    BY <1>1, <2>1 DEF TypeOK
  <2> QED
    BY <1>1, <2>1, <2>2, WiringKeeps
<1>3. CASE BCP_LIST # <<>>
  <2>1. /\ BCP_LIST' = Front(BCP_LIST)
        /\ set_literal(ASSIGNMENT, DECISION_STACK, Last(BCP_LIST), "IMPLIED", "bcp")
        /\ UNCHANGED <<CLAUSES, watching, LIT_TO_CLAUSES, answer>>
    BY <1>3 DEF bcp
  <2>2. /\ Front(BCP_LIST) \in Seq(Literal) /\ Last(BCP_LIST) \in Literal
        /\ IsInjective(Front(BCP_LIST))
    BY <1>1, <1>3, Cut
  <2>3. "IMPLIED" \in Types /\ "bcp" \in Callers
    BY DEF Types, Callers
  <2>4. /\ ASSIGNMENT' \in Assignment /\ DECISION_STACK' \in Seq(Decision)
        /\ pc' = "walk" /\ caller' \in Callers /\ lit' \in Literal /\ w' = 1
    BY <1>1, <2>1, <2>2, <2>3, SetTypes
  <2>5. TypeOK'
    BY <1>1, <2>1, <2>2, <2>4 DEF TypeOK, Assignment, Decision, Types, Callers
  <2> QED
    BY <1>1, <2>1, <2>4, <2>5, WiringKeeps
<1> QED
  BY <1>2, <1>3

LEMMA DecideWiring == ASSUME Wiring, decide PROVE Wiring'
<1> DEFINE free == {v \in Var : ASSIGNMENT[v] = UNASSIGNED}
<1>1. /\ pc = "decide" /\ TypeOK /\ w >= 1
      /\ ASSIGNMENT \in Assignment /\ DECISION_STACK \in Seq(Decision)
      /\ UNCHANGED <<CLAUSES, watching, LIT_TO_CLAUSES, BCP_LIST>>
  BY TypeParts DEF Wiring, decide
<1>2. CASE free = {}
  <2>1. /\ answer' = "SAT" /\ pc' = "done"
        /\ UNCHANGED <<ASSIGNMENT, DECISION_STACK, caller, lit, w>>
    BY <1>2 DEF decide
  <2>2. TypeOK'
    BY <1>1, <2>1 DEF TypeOK
  <2> QED
    BY <1>1, <2>1, <2>2, WiringKeeps
<1>3. CASE free # {}
  <2>1. PICK v \in Var :
          /\ set_literal(ASSIGNMENT, DECISION_STACK, -v, "TRIED_ONE_WAY", "decide")
          /\ UNCHANGED answer
    BY <1>3 DEF decide
  <2>2. -v \in Literal
    BY Literals
  <2>3. "TRIED_ONE_WAY" \in Types /\ "decide" \in Callers
    BY DEF Types, Callers
  <2>4. /\ ASSIGNMENT' \in Assignment /\ DECISION_STACK' \in Seq(Decision)
        /\ pc' = "walk" /\ caller' \in Callers /\ lit' \in Literal /\ w' = 1
    BY <1>1, <2>1, <2>2, <2>3, SetTypes
  <2>5. TypeOK'
    BY <1>1, <2>1, <2>4 DEF TypeOK, Assignment, Decision, Types, Callers
  <2> QED
    BY <1>1, <2>1, <2>4, <2>5, WiringKeeps
<1> QED
  BY <1>2, <1>3

-----------------------------------------------------------------------------
(* resolveConflict *)

LastOpen == SelectLastInSeq(DECISION_STACK, IsOpen)

\* The unwinding stops at the last entry tried one way.
LEMMA LastOpenIs ==
  ASSUME DECISION_STACK \in Seq(Decision)
  PROVE  /\ LastOpen \in 0 .. Len(DECISION_STACK)
         /\ LastOpen = 0 => NoOpen
         /\ LastOpen # 0 => Open(LastOpen) /\ \A j : Open(j) => j <= LastOpen
<1>1. LastOpen = SelectLastInSeq(DECISION_STACK, LAMBDA d : d.type = "TRIED_ONE_WAY")
  BY DEF LastOpen, SelectLastInSeq, IsOpen
<1>2. DOMAIN DECISION_STACK = 1 .. Len(DECISION_STACK) /\ Len(DECISION_STACK) \in Nat
  BY LenProperties
<1>3. /\ LastOpen \in 0 .. Len(DECISION_STACK)
      /\ LastOpen = 0 =>
           \A j \in 1 .. Len(DECISION_STACK) : DECISION_STACK[j].type # "TRIED_ONE_WAY"
      /\ LastOpen # 0 =>
           /\ LastOpen \in 1 .. Len(DECISION_STACK)
           /\ DECISION_STACK[LastOpen].type = "TRIED_ONE_WAY"
           /\ \A j \in 1 .. Len(DECISION_STACK) :
                j > LastOpen => DECISION_STACK[j].type # "TRIED_ONE_WAY"
  BY <1>1, LastOneWay
<1> HIDE DEF LastOpen
<1> QED
  BY <1>2, <1>3 DEF Open, OpenIn, NoOpen

LEMMA UnsetIs == \A k : Unset(k) = Without(ASSIGNMENT, VarsFrom(DECISION_STACK, k))
BY DEF Unset, Without, VarsFrom

LEMMA WithoutType ==
  ASSUME NEW a \in Assignment, NEW P PROVE Without(a, P) \in Assignment
BY DEF Without, Assignment

\* What resolveConflict puts in place of the decision it takes back.
Flipped(k) == IF ASSIGNMENT[DECISION_STACK[k].var] = FALSE_
                THEN DECISION_STACK[k].var ELSE -DECISION_STACK[k].var

LEMMA ResolveCases ==
  ASSUME TypeOK, resolveConflict
  PROVE  /\ pc = "conflict" /\ BCP_LIST' = <<>> /\ UNCHANGED <<CLAUSES, watching, LIT_TO_CLAUSES>>
         /\ LastOpen = 0 => /\ DECISION_STACK' = <<>> /\ ASSIGNMENT' = Unset(1)
                            /\ answer' = "UNSAT" /\ pc' = "done"
                            /\ UNCHANGED <<caller, lit, w>>
         /\ LastOpen # 0 =>
              /\ set_literal(Unset(LastOpen), SubSeq(DECISION_STACK, 1, LastOpen - 1),
                             Flipped(LastOpen), "TRIED_BOTH_WAYS", "resolveConflict")
              /\ UNCHANGED answer
<1> DEFINE k == LastOpen
<1>1. /\ pc = "conflict" /\ BCP_LIST' = <<>> /\ UNCHANGED <<CLAUSES, watching, LIT_TO_CLAUSES>>
  BY DEF resolveConflict
<1>2. IF k = 0
        THEN /\ DECISION_STACK' = <<>> /\ ASSIGNMENT' = Unset(1)
             /\ answer' = "UNSAT" /\ pc' = "done" /\ UNCHANGED <<caller, lit, w>>
        ELSE /\ set_literal(Unset(k), Kept(k), Flipped(k), "TRIED_BOTH_WAYS", "resolveConflict")
             /\ UNCHANGED answer
  BY DEF resolveConflict, LastOpen, Flipped
<1> QED
  BY <1>1, <1>2 DEF Kept

LEMMA ResolveConflictWiring == ASSUME Wiring, resolveConflict PROVE Wiring'
<1>1. /\ pc = "conflict" /\ TypeOK /\ w >= 1 /\ w \in Nat
      /\ ASSIGNMENT \in Assignment /\ DECISION_STACK \in Seq(Decision)
      /\ BCP_LIST' = <<>> /\ UNCHANGED <<CLAUSES, watching, LIT_TO_CLAUSES>>
  BY TypeParts, ResolveCases DEF Wiring
<1>2. \A S : <<>> \in Seq(S)
  BY EmptySeq
<1>3. IsInjective(<<>>)
  BY DEF IsInjective
<1>4. \A k : Unset(k) \in Assignment
  BY <1>1, UnsetIs, WithoutType
<1>5. CASE LastOpen = 0
  <2>1. /\ DECISION_STACK' = <<>> /\ ASSIGNMENT' = Unset(1)
        /\ answer' = "UNSAT" /\ pc' = "done" /\ UNCHANGED <<caller, lit, w>>
    BY <1>1, <1>5, ResolveCases
  <2>2. ASSIGNMENT' \in Assignment
    BY <1>4, <2>1
  <2>3. TypeOK'
    BY <1>1, <1>2, <1>3, <2>1, <2>2 DEF TypeOK, Assignment
  <2> QED
    BY <1>1, <2>1, <2>3, WiringKeeps
<1>6. CASE LastOpen # 0
  <2>1. /\ set_literal(Unset(LastOpen), SubSeq(DECISION_STACK, 1, LastOpen - 1),
                       Flipped(LastOpen), "TRIED_BOTH_WAYS", "resolveConflict")
        /\ UNCHANGED answer
    BY <1>1, <1>6, ResolveCases
  <2>2. LastOpen \in 1 .. Len(DECISION_STACK) /\ Len(DECISION_STACK) \in Nat
    BY <1>1, <1>6, LastOpenIs, LenProperties
  <2>3. DECISION_STACK[LastOpen].var \in Var
    BY <1>1, <2>2, TrailType DEF Decision
  <2>4. Flipped(LastOpen) \in Literal
    BY <2>3, Literals DEF Flipped
  <2>5. SubSeq(DECISION_STACK, 1, LastOpen - 1) \in Seq(Decision)
    <3>1. \A j \in 1 .. LastOpen - 1 : DECISION_STACK[j] \in Decision
      BY <1>1, <2>2, TrailType
    <3> QED
      BY <2>2, <3>1, SubSeqProperties
  <2>6. "TRIED_BOTH_WAYS" \in Types /\ "resolveConflict" \in Callers
    BY DEF Types, Callers
  <2>7. /\ ASSIGNMENT' \in Assignment /\ DECISION_STACK' \in Seq(Decision)
        /\ pc' = "walk" /\ caller' \in Callers /\ lit' \in Literal /\ w' = 1
    BY <1>4, <2>1, <2>4, <2>5, <2>6, SetTypes
  <2>8. TypeOK'
    BY <1>1, <1>2, <1>3, <2>1, <2>7 DEF TypeOK, Assignment, Decision, Types, Callers
  <2> QED
    BY <1>1, <2>1, <2>7, <2>8, WiringKeeps
<1> QED
  BY <1>5, <1>6

-----------------------------------------------------------------------------
(* Watches set up and moved *)

LEMMA LoadClauseWiring == ASSUME Wiring, LoadClause PROVE Wiring'
<1> DEFINE C == CLAUSES[w]
<1>1. /\ pc = "load" /\ w >= 1 /\ w \in Nat /\ Wired /\ TypeOK /\ CLAUSES \in Inputs
      /\ w <= Len(CLAUSES) /\ UNCHANGED <<CLAUSES, ASSIGNMENT, DECISION_STACK, caller, lit>>
      /\ BCP_LIST \in Seq(Literal) /\ IsInjective(BCP_LIST)
  BY DEF Wiring, LoadClause, TypeOK
<1>2. w \in DOMAIN CLAUSES /\ w + 1 \in Nat /\ w + 1 >= 1 /\ DOMAIN CLAUSES \subseteq Nat
  <2>1. DOMAIN CLAUSES = 1 .. Len(CLAUSES) /\ Len(CLAUSES) \in Nat
    BY <1>1, LenProperties DEF TypeOK
  <2> QED
    BY <1>1, <2>1
<1>3. /\ Len(C) \in Nat /\ IsInjective(C) /\ DOMAIN C = 1 .. Len(C) /\ Range(C) \subseteq Literal
      /\ \A i \in 1 .. Len(C) : C[i] \in Range(C)
  BY <1>1, <1>2, ClauseFacts
<1>4. CASE Len(C) = 0
  <2>1. /\ answer' = "UNSAT" /\ pc' = "done"
        /\ UNCHANGED <<watching, LIT_TO_CLAUSES, BCP_LIST, w>>
    BY <1>4 DEF LoadClause
  <2>2. TypeOK'
    BY <1>1, <2>1 DEF TypeOK
  <2> QED
    BY <1>1, <2>1, <2>2 DEF Wiring
<1>5. CASE Len(C) = 1
  <2>1. /\ BCP_LIST' = queue_bcp(C[1], BCP_LIST) /\ w' = w + 1
        /\ UNCHANGED <<watching, LIT_TO_CLAUSES, pc, answer>>
    BY <1>5 DEF LoadClause
  <2>2. C[1] \in Literal
    <3>1. 1 \in 1 .. Len(C)
      BY <1>5
    <3> QED
      BY <1>3, <3>1
  <2>3. BCP_LIST' \in Seq(Literal) /\ IsInjective(BCP_LIST')
    <3> HIDE DEF C
    <3> QED
      BY <1>1, <2>1, <2>2, Queue
  <2>4. TypeOK'
    BY <1>1, <1>2, <2>1, <2>3 DEF TypeOK
  <2>5. \A c \in DOMAIN CLAUSES : Loaded(c)' <=> Loaded(c)
    <3> SUFFICES ASSUME NEW c \in DOMAIN CLAUSES PROVE Loaded(c)' <=> Loaded(c)
      OBVIOUS
    <3>1. Loaded(c)' <=> Len(CLAUSES[c]) >= 2 /\ c < w + 1
      BY <1>1, <2>1 DEF Loaded
    <3>2. c \in Nat
      BY <1>2
    <3>3. c = w => Len(CLAUSES[c]) = 1
      BY <1>5
    <3>4. c < w + 1 <=> c < w \/ c = w
      BY <1>1, <3>2
    <3>5. Loaded(c) <=> Len(CLAUSES[c]) >= 2 /\ c < w
      BY <1>1 DEF Loaded
    <3>6. c = w => ~(Len(CLAUSES[c]) >= 2)
      <4>1. \A n \in Nat : n = 1 => ~(n >= 2)
        OBVIOUS
      <4> QED
        BY <1>3, <3>3, <4>1
    <3> QED
      BY <3>1, <3>4, <3>5, <3>6
  <2>6. Wired'
    BY <1>1, <2>1, <2>5, WiredKeeps
  <2> QED
    BY <1>1, <1>2, <2>1, <2>4, <2>6 DEF Wiring
<1>6. CASE Len(C) >= 2
  <2> DEFINE a == C[1]
             b == C[2]
             L == LIT_TO_CLAUSES
  <2>1. /\ watching' = [watching EXCEPT ![w] = <<a, b>>]
        /\ LIT_TO_CLAUSES' = [L EXCEPT ![a] = <<w>> \o @, ![b] = <<w>> \o @]
        /\ w' = w + 1 /\ UNCHANGED <<BCP_LIST, pc, answer>>
    BY <1>3, <1>6 DEF LoadClause
  <2>2. a \in Range(C) /\ b \in Range(C) /\ a \in Literal /\ b \in Literal /\ a # b
    <3>1. 1 \in 1 .. Len(C) /\ 2 \in 1 .. Len(C)
      BY <1>3, <1>6
    <3> QED
      BY <1>3, <3>1 DEF IsInjective
  <2>3. /\ L \in [Literal -> Seq(DOMAIN CLAUSES)]
        /\ watching \in [DOMAIN CLAUSES -> Seq(Literal \cup {0})]
    BY <1>1 DEF TypeOK
  <2> HIDE DEF a, b, L
  <2>4. /\ watching' \in [DOMAIN CLAUSES -> Seq(Literal \cup {0})]
        /\ watching'[w] = <<a, b>> /\ \A c \in DOMAIN CLAUSES \ {w} : watching'[c] = watching[c]
    <3>1. <<a, b>> \in Seq(Literal \cup {0})
      BY <2>2
    <3> QED
      BY <1>2, <2>1, <2>3, <3>1
  <2>5. <<a, b>> \in [1 .. 2 -> Range(C)] /\ <<a, b>>[1] # <<a, b>>[2] /\ Range(<<a, b>>) = {a, b}
    <3>1. <<a, b>> \in [1 .. 2 -> Range(C)] /\ <<a, b>>[1] = a /\ <<a, b>>[2] = b
      BY <2>2
    <3> QED
      BY <2>2, <3>1, Pair
  <2>6. \A l \in Literal : /\ <<w>> \o L[l] \in Seq(DOMAIN CLAUSES)
                           /\ Range(<<w>> \o L[l]) = Range(L[l]) \cup {w}
                           /\ IsInjective(L[l]) /\ w \notin Range(L[l]) => IsInjective(<<w>> \o L[l])
    BY <1>2, <2>3, Prepend
  <2>7. \A l \in Literal : LIT_TO_CLAUSES'[l] = IF l \in {a, b} THEN <<w>> \o L[l] ELSE L[l]
    BY <2>1, <2>2, <2>3
  <2>8. LIT_TO_CLAUSES' \in [Literal -> Seq(DOMAIN CLAUSES)]
    <3>1. LIT_TO_CLAUSES' = [l \in Literal |-> LIT_TO_CLAUSES'[l]]
      BY <2>1, <2>3
    <3>2. \A l \in Literal : LIT_TO_CLAUSES'[l] \in Seq(DOMAIN CLAUSES)
      BY <2>3, <2>6, <2>7
    <3> QED
      BY <3>1, <3>2
  <2>9. TypeOK'
    BY <1>1, <1>2, <2>1, <2>4, <2>8 DEF TypeOK
  <2>10. \A c \in DOMAIN CLAUSES : Loaded(c)' <=> Loaded(c) \/ c = w
    BY <1>1, <1>2, <1>6, <2>1 DEF Loaded
  <2>11. \A l \in Literal : /\ IsInjective(L[l])
                            /\ \A c \in DOMAIN CLAUSES :
                                 c \in Range(L[l]) <=> Loaded(c) /\ l \in Range(watching[c])
    BY <1>1 DEF Wired, L
  <2>12. ~Loaded(w)
    BY <1>1 DEF Loaded
  <2>13. ASSUME NEW c \in DOMAIN CLAUSES, Loaded(c)'
         PROVE  watching'[c] \in [1 .. 2 -> Range(CLAUSES[c])] /\ watching'[c][1] # watching'[c][2]
    <3>1. CASE c = w
      BY <2>4, <2>5, <3>1
    <3>2. CASE c # w
      BY <1>1, <2>4, <2>10, <2>13, <3>2 DEF Wired
    <3> QED
      BY <3>1, <3>2
  <2>14. ASSUME NEW l \in Literal
         PROVE  /\ IsInjective(LIT_TO_CLAUSES'[l])
                /\ \A c \in DOMAIN CLAUSES : c \in Range(LIT_TO_CLAUSES'[l])
                                               <=> Loaded(c)' /\ l \in Range(watching'[c])
    <3>1. w \notin Range(L[l])
      BY <1>2, <2>11, <2>12
    <3>2. CASE l \in {a, b}
      <4>1. /\ IsInjective(LIT_TO_CLAUSES'[l])
            /\ Range(LIT_TO_CLAUSES'[l]) = Range(L[l]) \cup {w}
        BY <2>6, <2>7, <2>11, <3>1, <3>2
      <4>2. l \in Range(watching'[w])
        BY <2>4, <2>5, <3>2
      <4> QED
        BY <2>4, <2>10, <2>11, <2>12, <4>1, <4>2
    <3>3. CASE l \notin {a, b}
      <4>1. LIT_TO_CLAUSES'[l] = L[l]
        BY <2>7, <3>3
      <4>2. l \notin Range(watching'[w])
        BY <2>4, <2>5, <3>3
      <4> QED
        BY <2>4, <2>10, <2>11, <2>12, <4>1, <4>2
    <3> QED
      BY <3>2, <3>3
  <2>15. Wired'
    BY <1>1, <2>13, <2>14 DEF Wired
  <2> QED
    BY <1>1, <1>2, <2>1, <2>9, <2>15 DEF Wiring
<1>7. Len(C) = 0 \/ Len(C) = 1 \/ Len(C) >= 2
  <2> HIDE DEF C
  <2> QED
    BY <1>3
<1> QED
  BY <1>4, <1>5, <1>6, <1>7

LEMMA MoveWatchWiring == ASSUME Wiring, MoveWatch PROVE Wiring'
<1> DEFINE a == -lit
           b == new_watch_lit
           o == other_watch
           k == Clause
           L == LIT_TO_CLAUSES
<1>1. /\ AtClause /\ b # 0
      /\ watching' = [watching EXCEPT ![k][watch_id] = b]
      /\ LIT_TO_CLAUSES' = [L EXCEPT ![a] = RemoveAt(@, w), ![b] = <<k>> \o @]
      /\ UNCHANGED <<CLAUSES, ASSIGNMENT, DECISION_STACK, BCP_LIST, pc, caller, lit, w, answer>>
  BY DEF MoveWatch
<1>2. /\ a \in Literal /\ k \in DOMAIN CLAUSES /\ Loaded(k) /\ w \in 1 .. Len(L[a]) /\ L[a][w] = k
      /\ watch_id \in 1 .. 2 /\ watching[k][watch_id] = a
      /\ 3 - watch_id \in 1 .. 2 /\ watching[k][3 - watch_id] = o
      /\ Range(watching[k]) = {a, o} /\ o # a
      /\ b \in Range(CLAUSES[k]) /\ b \in Literal /\ b # a /\ b # o
  BY <1>1, CursorFacts DEF Clause, Walked, clauses_watching
<1>3. /\ TypeOK /\ Wired /\ CLAUSES \in Inputs /\ w >= 1
      /\ pc = "walk" /\ L \in [Literal -> Seq(DOMAIN CLAUSES)]
      /\ watching \in [DOMAIN CLAUSES -> Seq(Literal \cup {0})]
  BY <1>1 DEF Wiring, TypeOK, AtClause
<1> DEFINE i == watch_id
<1> HIDE DEF a, b, o, k, L, i
<1>4. watching[k] \in [1 .. 2 -> Range(CLAUSES[k])]
  BY <1>2, <1>3 DEF Wired
<1> DEFINE f == [watching[k] EXCEPT ![i] = b]
<1>5. f \in Seq(Literal \cup {0})
  <2>1. watching[k] \in Seq(Literal \cup {0}) /\ i \in 1 .. Len(watching[k])
    BY <1>2, <1>3, WatchFacts DEF i
  <2> QED
    BY <1>2, <2>1, ExceptSeq
<1>6. /\ f \in [1 .. 2 -> Range(CLAUSES[k])] /\ f[1] # f[2] /\ Range(f) = {b, o}
  <2>1. f \in [1 .. 2 -> Range(CLAUSES[k])]
    BY <1>2, <1>4
  <2>2. f[i] = b /\ f[3 - i] = o /\ (i = 1 \/ i = 2)
    BY <1>2, <1>4 DEF i
  <2>3. {f[1], f[2]} = {b, o} /\ f[1] # f[2]
    BY <1>2, <2>2
  <2> HIDE DEF f
  <2> QED
    BY <2>1, <2>3, Pair
<1>7. watching' = [watching EXCEPT ![k] = f]
  BY <1>1 DEF i
<1> HIDE DEF f
<1>8. /\ watching' \in [DOMAIN CLAUSES -> Seq(Literal \cup {0})]
      /\ watching'[k] = f /\ \A c \in DOMAIN CLAUSES \ {k} : watching'[c] = watching[c]
  BY <1>2, <1>3, <1>5, <1>7
<1>9. \A l \in Literal : /\ IsInjective(L[l])
                         /\ \A c \in DOMAIN CLAUSES :
                              c \in Range(L[l]) <=> Loaded(c) /\ l \in Range(watching[c])
  BY <1>3 DEF Wired, L
<1>10. /\ RemoveAt(L[a], w) \in Seq(DOMAIN CLAUSES) /\ IsInjective(RemoveAt(L[a], w))
       /\ Range(RemoveAt(L[a], w)) = Range(L[a]) \ {k}
  <2>1. L[a] \in Seq(DOMAIN CLAUSES) /\ IsInjective(L[a])
    BY <1>2, <1>3, <1>9
  <2> QED
    BY <1>2, <2>1, Take
<1>11. k \notin Range(L[b])
  BY <1>2, <1>9
<1>12. /\ <<k>> \o L[b] \in Seq(DOMAIN CLAUSES) /\ IsInjective(<<k>> \o L[b])
       /\ Range(<<k>> \o L[b]) = Range(L[b]) \cup {k}
  BY <1>2, <1>3, <1>9, <1>11, Prepend
<1>13. /\ LIT_TO_CLAUSES'[a] = RemoveAt(L[a], w) /\ LIT_TO_CLAUSES'[b] = <<k>> \o L[b]
       /\ \A l \in Literal \ {a, b} : LIT_TO_CLAUSES'[l] = L[l]
       /\ LIT_TO_CLAUSES' = [l \in Literal |-> LIT_TO_CLAUSES'[l]]
  BY <1>1, <1>2, <1>3
<1>14. TypeOK'
  <2>1. \A l \in Literal : LIT_TO_CLAUSES'[l] \in Seq(DOMAIN CLAUSES)
    BY <1>3, <1>10, <1>12, <1>13
  <2>2. LIT_TO_CLAUSES' \in [Literal -> Seq(DOMAIN CLAUSES)]
    BY <1>13, <2>1
  <2> QED
    BY <1>1, <1>3, <1>8, <2>2 DEF TypeOK
<1>15. \A c \in DOMAIN CLAUSES : Loaded(c)' <=> Loaded(c)
  BY <1>1 DEF Loaded
<1>16. ASSUME NEW c \in DOMAIN CLAUSES, Loaded(c)
       PROVE  watching'[c] \in [1 .. 2 -> Range(CLAUSES[c])] /\ watching'[c][1] # watching'[c][2]
  <2>1. CASE c = k
    BY <1>6, <1>8, <2>1
  <2>2. CASE c # k
    BY <1>3, <1>8, <1>16, <2>2 DEF Wired
  <2> QED
    BY <2>1, <2>2
<1>17. ASSUME NEW l \in Literal
       PROVE  /\ IsInjective(LIT_TO_CLAUSES'[l])
              /\ \A c \in DOMAIN CLAUSES : c \in Range(LIT_TO_CLAUSES'[l])
                                             <=> Loaded(c) /\ l \in Range(watching'[c])
  <2>1. CASE l = a
    <3>1. a \notin Range(watching'[k])
      BY <1>2, <1>6, <1>8
    <3> QED
      BY <1>2, <1>8, <1>9, <1>10, <1>13, <2>1, <3>1
  <2>2. CASE l = b
    <3>1. b \in Range(watching'[k])
      BY <1>6, <1>8
    <3> QED
      BY <1>2, <1>8, <1>9, <1>12, <1>13, <2>2, <3>1
  <2>3. CASE l \notin {a, b}
    <3>1. l \in Range(watching'[k]) <=> l \in Range(watching[k])
      BY <1>2, <1>6, <1>8, <2>3
    <3> QED
      BY <1>8, <1>9, <1>13, <2>3, <3>1
  <2> QED
    BY <2>1, <2>2, <2>3
<1>18. Wired'
  BY <1>1, <1>15, <1>16, <1>17 DEF Wired
<1> QED
  BY <1>1, <1>3, <1>14, <1>18 DEF Wiring

-----------------------------------------------------------------------------

LEMMA WiringSteps == Wiring /\ [Next]_vars => Wiring'
<1>1. ASSUME Wiring, UNCHANGED vars PROVE Wiring'
  BY <1>1 DEF Wiring, TypeOK, Wired, Loaded, vars
<1> QED
  BY <1>1, LoadClauseWiring, LoadDoneWiring, BcpWiring, DecideWiring, ResolveConflictWiring,
     MoveWatchWiring, KeepWatchWiring, ReturnConflictWiring, ReturnOkWiring DEF Next

(* fast.c keeps its types, and its queue without repetitions, on every input. *)
THEOREM TypeCorrect == Spec => []TypeOK
<1>1. Wiring => TypeOK
  BY DEF Wiring
<1> QED
  BY <1>1, WiringStarts, WiringSteps, PTL DEF Spec

(* Whatever the input, a clause watches two distinct literals and stands
   exactly once in the list of each of these, and in no other. *)
THEOREM WatchesStayListed == Spec => []WatchesListed
<1>1. Wiring => WatchesListed
  <2> SUFFICES ASSUME Wiring, pc \notin {"load", "done"},
                      NEW c \in DOMAIN CLAUSES, Len(CLAUSES[c]) >= 2
               PROVE  /\ watching[c][1] # watching[c][2]
                      /\ \A l \in Literal :
                           Cardinality({i \in DOMAIN LIT_TO_CLAUSES[l] : LIT_TO_CLAUSES[l][i] = c})
                             = IF l \in Range(watching[c]) THEN 1 ELSE 0
    BY DEF WatchesListed
  <2>1. Wired /\ Loaded(c)
    BY DEF Wiring, Loaded
  <2>2. watching[c][1] # watching[c][2]
    BY <2>1 DEF Wired
  <2>3. ASSUME NEW l \in Literal
        PROVE  Cardinality({i \in DOMAIN LIT_TO_CLAUSES[l] : LIT_TO_CLAUSES[l][i] = c})
                 = IF l \in Range(watching[c]) THEN 1 ELSE 0
    <3> DEFINE s == LIT_TO_CLAUSES[l]
               P == {i \in DOMAIN s : s[i] = c}
    <3>1. IsInjective(s) /\ (c \in Range(s) <=> l \in Range(watching[c]))
      BY <2>1 DEF Wired
    <3> HIDE DEF s
    <3>2. CASE c \in Range(s)
      <4>1. PICK i \in DOMAIN s : s[i] = c
        BY <3>2 DEF Range
      <4>2. P = {i}
        BY <3>1, <4>1 DEF IsInjective
      <4>3. Cardinality(P) = 1
        BY <4>2, FS_Singleton
      <4> QED
        BY <3>1, <3>2, <4>3 DEF s
    <3>3. CASE c \notin Range(s)
      <4>1. P = {}
        BY <3>3 DEF Range
      <4>2. Cardinality(P) = 0
        BY <4>1, FS_EmptySet
      <4> QED
        BY <3>1, <3>3, <4>2 DEF s
    <3> QED
      BY <3>2, <3>3
  <2> QED
    BY <2>2, <2>3
<1> QED
  BY <1>1, WiringStarts, WiringSteps, PTL DEF Spec

-----------------------------------------------------------------------------
(* The stack of the search *)

\* What depends on the clauses and the assignments alone.
LEMMA Steady ==
  ASSUME UNCHANGED <<CLAUSES, ASSIGNMENT, DECISION_STACK>>
  PROVE  /\ (Twice' <=> Twice) /\ Before' = Before /\ Placed' = Placed /\ (NoOpen' <=> NoOpen)
         /\ \A l : /\ True(l)' <=> True(l)
                   /\ Unit(l)' <=> Unit(l)
                   /\ Recent(l)' <=> Recent(l)
         /\ \A c : AllFalse(c)' <=> AllFalse(c)
         /\ \A k : Open(k)' <=> Open(k)
         /\ \A v, k : Below(v, k)' <=> Below(v, k)
         /\ \A m, o : Guarded(m, o)' <=> Guarded(m, o)
<1>1. (Twice' <=> Twice) /\ Before' = Before /\ Placed' = Placed
  BY DEF Twice, Before, Placed
<1>2. \A l : (True(l)' <=> True(l)) /\ (Unit(l)' <=> Unit(l))
  BY DEF True, LitTrue, Unit
<1>3. (\A k : Open(k)' <=> Open(k)) /\ (\A v, k : Below(v, k)' <=> Below(v, k))
  BY DEF Open, Below
<1>4. NoOpen' <=> NoOpen
  BY <1>3 DEF NoOpen
<1>5. \A l : Recent(l)' <=> Recent(l)
  BY <1>3 DEF Recent
<1>6. \A c : AllFalse(c)' <=> AllFalse(c)
  BY <1>2 DEF AllFalse
<1>7. \A m, o : Guarded(m, o)' <=> Guarded(m, o)
  BY <1>2, <1>3 DEF Guarded
<1> QED
  BY <1>1, <1>2, <1>3, <1>4, <1>5, <1>6, <1>7

\* On a consistent stack no variable stands twice.
TwiceIn(st) == \E j \in 1 .. Len(st) - 1 : st[j].var = Last(st).var

LEMMA OnceIn ==
  ASSUME NEW a, NEW st \in Seq(Decision), Consistent(a, st)
  PROVE  ~TwiceIn(st)
<1> SUFFICES ASSUME NEW j \in 1 .. Len(st) - 1, st[j].var = Last(st).var PROVE FALSE
  BY DEF TwiceIn
<1>n. PICK n \in Nat : n = Len(st)
  BY LenProperties
<1>1. DOMAIN st = 1 .. n /\ j \in 1 .. n - 1
  BY <1>n, LenProperties
<1>2. j \in DOMAIN st /\ n \in DOMAIN st /\ j # n
  BY <1>1
<1> QED
  BY <1>n, <1>2 DEF Consistent, Last

LEMMA Once ==
  ASSUME DECISION_STACK \in Seq(Decision), Consistent(ASSIGNMENT, DECISION_STACK)
  PROVE  ~Twice /\ Before = ASSIGNMENT /\ Placed = DECISION_STACK
<1>1. ~Twice
  BY OnceIn DEF Twice, TwiceIn
<1> QED
  BY <1>1 DEF Before, Placed

\* A literal is true or its negation is, unless its variable is unassigned;
\* where nothing is assigned twice, the assigned variables are those on the
\* stack.
LEMMA Assigned ==
  ASSUME NEW a \in Assignment, NEW st \in Seq(Decision), Consistent(a, st), NEW l \in Literal
  PROVE  /\ ~(LitTrue(a, l) /\ LitTrue(a, -l))
         /\ a[VarOf(l)] # UNASSIGNED <=> LitTrue(a, l) \/ LitTrue(a, -l)
         /\ a[VarOf(l)] # UNASSIGNED <=> BelowIn(st, VarOf(l), Len(st) + 1)
<1>1. /\ VarOf(l) \in Var /\ VarOf(-l) = VarOf(l) /\ Value(l) \in {FALSE_, TRUE_}
      /\ Value(-l) # Value(l) /\ Value(-l) \in {FALSE_, TRUE_}
      /\ UNASSIGNED \notin {FALSE_, TRUE_}
  BY Literals DEF UNASSIGNED, FALSE_, TRUE_
<1>2. a[VarOf(l)] \in {UNASSIGNED, FALSE_, TRUE_}
  BY <1>1 DEF Assignment
<1>3. DOMAIN st = 1 .. (Len(st) + 1) - 1 /\ Len(st) \in Nat
  BY LenProperties
<1>4. a[VarOf(l)] # UNASSIGNED <=> BelowIn(st, VarOf(l), Len(st) + 1)
  BY <1>1, <1>3 DEF Consistent, BelowIn
<1>5. /\ ~(LitTrue(a, l) /\ LitTrue(a, -l))
      /\ a[VarOf(l)] # UNASSIGNED <=> LitTrue(a, l) \/ LitTrue(a, -l)
  BY <1>1, <1>2 DEF LitTrue
<1> QED
  BY <1>4, <1>5

\* set_literal of an unassigned variable.
LEMMA Assigns ==
  ASSUME NEW a \in Assignment, NEW st \in Seq(Decision), Consistent(a, st),
         NEW l \in Literal, a[VarOf(l)] = UNASSIGNED,
         NEW type \in Types, type = "TRIED_ONE_WAY" => Value(l) = FALSE_,
         ASSIGNMENT' = With(a, l), DECISION_STACK' = Pushed(st, l, type)
  PROVE  /\ ~Twice' /\ Consistent(Before, Placed)'
         /\ (DECISION_STACK # <<>>)' /\ Last(DECISION_STACK)'.var = VarOf(l) /\ True(l)'
         /\ \A m \in Literal : True(m)' <=> m = l \/ LitTrue(a, m)
         /\ \A k : Open(k)' <=> OpenIn(st, k) \/ (k = Len(st) + 1 /\ type = "TRIED_ONE_WAY")
         /\ \A v, k : k \in 1 .. Len(st) + 1 => (Below(v, k)' <=> BelowIn(st, v, k))
         /\ Trail(Before, Placed)' = Append(Trail(a, st), [lit |-> l, kind |-> type])
<1> DEFINE t == Pushed(st, l, type)
           d == [var |-> VarOf(l), type |-> type]
<1>1. /\ t \in Seq(Decision) /\ Consistent(With(a, l), t)
      /\ Trail(With(a, l), t) = Append(Trail(a, st), [lit |-> l, kind |-> type])
  BY Push
<1>2. DECISION_STACK' \in Seq(Decision) /\ Consistent(ASSIGNMENT', DECISION_STACK')
  <2> HIDE DEF t
  <2>1. DECISION_STACK' = t
    BY DEF t
  <2> QED
    BY <1>1, <2>1
<1>3. ~Twice' /\ Before' = ASSIGNMENT' /\ Placed' = DECISION_STACK'
  <2>1. ~TwiceIn(DECISION_STACK')
    BY <1>2, OnceIn
  <2>2. ~Twice'
    BY <2>1 DEF Twice, TwiceIn
  <2> QED
    BY <2>2 DEF Before, Placed
<1>n. PICK n \in Nat : n = Len(st)
  BY LenProperties
<1>4. VarOf(l) \in Var /\ d \in Decision
  BY Literals DEF Decision
<1>5. /\ Len(t) = n + 1 /\ DOMAIN t = 1 .. n + 1 /\ DOMAIN st = 1 .. n
      /\ \A j \in 1 .. n : t[j] = st[j]
      /\ t[n + 1] = d
  <2>1. Len(t) = n + 1 /\ (\A j \in 1 .. n : t[j] = st[j]) /\ t[n + 1] = d
    BY <1>4, <1>n, AppendProperties DEF Pushed
  <2> QED
    BY <1>1, <1>n, <2>1, LenProperties
<1>6. \A m \in Literal : LitTrue(With(a, l), m) <=> m = l \/ LitTrue(a, m)
  <2> SUFFICES ASSUME NEW m \in Literal
               PROVE  LitTrue(With(a, l), m) <=> m = l \/ LitTrue(a, m)
    OBVIOUS
  <2>1. /\ VarOf(m) \in Var /\ VarOf(-l) = VarOf(l) /\ Value(l) # Value(-l)
        /\ Value(m) \in {FALSE_, TRUE_} /\ UNASSIGNED \notin {FALSE_, TRUE_}
        /\ (VarOf(m) = VarOf(l) => m = l \/ m = -l)
    BY Literals DEF UNASSIGNED, FALSE_, TRUE_
  <2>2. With(a, l)[VarOf(l)] = Value(l) /\ \A v \in Var \ {VarOf(l)} : With(a, l)[v] = a[v]
    BY <1>4 DEF With, Assignment
  <2>3. CASE VarOf(m) = VarOf(l)
    BY <2>1, <2>2, <2>3 DEF LitTrue
  <2>4. CASE VarOf(m) # VarOf(l)
    BY <2>1, <2>2, <2>4 DEF LitTrue
  <2> QED
    BY <2>3, <2>4
<1> HIDE DEF t
<1>7. \A k : OpenIn(t, k) <=> OpenIn(st, k) \/ (k = n + 1 /\ type = "TRIED_ONE_WAY")
  <2>1. \A k : k \in 1 .. n + 1 <=> k \in 1 .. n \/ k = n + 1
    OBVIOUS
  <2>2. n + 1 \notin 1 .. n
    OBVIOUS
  <2> QED
    BY <1>5, <2>1, <2>2 DEF OpenIn
<1>8. \A v, k : k \in 1 .. n + 1 => (BelowIn(t, v, k) <=> BelowIn(st, v, k))
  <2>1. \A k \in 1 .. n + 1 : \A j \in 1 .. k - 1 : j \in 1 .. n
    OBVIOUS
  <2> QED
    BY <1>5, <2>1 DEF BelowIn
<1>9. \A m : True(m)' <=> LitTrue(With(a, l), m)
  BY DEF True, LitTrue
<1>10. (\A k : Open(k)' <=> OpenIn(t, k)) /\ (\A v, k : Below(v, k)' <=> BelowIn(t, v, k))
  BY DEF Open, Below, t
<1>11. (DECISION_STACK # <<>>)' /\ Last(DECISION_STACK)'.var = VarOf(l)
  <2>1. Last(t) = d
    BY <1>5 DEF Last
  <2>2. t # <<>>
    BY <1>5
  <2> QED
    BY <2>1, <2>2 DEF t
<1>12. Consistent(Before, Placed)'
  <2>1. Consistent(Before', Placed')
    BY <1>2, <1>3
  <2> QED
    BY <2>1 DEF Consistent
<1>13. Trail(Before, Placed)' = Append(Trail(a, st), [lit |-> l, kind |-> type])
  <2>1. Trail(Before', Placed') = Append(Trail(a, st), [lit |-> l, kind |-> type])
    BY <1>1, <1>3 DEF t
  <2> QED
    BY <2>1 DEF Trail, LitAt
<1> QED
  BY <1>3, <1>6, <1>7, <1>8, <1>9, <1>10, <1>11, <1>12, <1>13, <1>n

-----------------------------------------------------------------------------
(* A step of the walk *)

LEMMA NotBoth == ASSUME NEW l \in Literal PROVE ~(True(l) /\ True(-l))
BY Literals DEF True, LitTrue

\* The steps at a clause leave the clauses, the assignments and the stack
\* alone; what is said of these stays.
LEMMA WalkSteady ==
  ASSUME IInv, pc = "walk", UNCHANGED <<CLAUSES, ASSIGNMENT, DECISION_STACK, lit, caller, answer>>,
         pc' \in {"walk", "bcp", "conflict"},
         pc' = "conflict" => \E c \in DOMAIN CLAUSES : AllFalse(c),
         Twice => pc' \in {"walk", "conflict"} /\ (pc' = "walk" => Pending'),
         pc' = "walk" /\ caller # "bcp" =>
           \A l \in Range(BCP_LIST') : ASSIGNMENT[VarOf(l)] = UNASSIGNED,
         ~Twice => Watched' /\ UnitsHold' /\ QueueHolds'
  PROVE  Searching'
<1>1. Searching /\ Located /\ Walking /\ TwiceHolds
  BY DEF IInv, Searching
<1>2. Consistent(Before, Placed)'
  <2>1. Consistent(Before, Placed)
    BY DEF IInv, Searching
  <2> QED
    BY <2>1, Steady
<1>3. Loading'
  BY DEF Loading
<1>4. Located'
  BY <1>1, Steady DEF Located
<1>5. Walking'
  BY <1>1, Steady DEF Walking
<1>6. TwiceHolds'
  BY <1>1, Steady DEF TwiceHolds
<1>7. Twice' <=> Twice
  BY Steady
<1> QED
  BY <1>2, <1>3, <1>4, <1>5, <1>6, <1>7 DEF Searching

LEMMA MoveWatchSearch == ASSUME IInv, MoveWatch PROVE Searching'
<1>0. PICK b, o, k : b = new_watch_lit /\ o = other_watch /\ k = Clause
  OBVIOUS
<1>1. /\ AtClause /\ pc = "walk" /\ pc' = "walk" /\ b # 0
      /\ watching' = [watching EXCEPT ![k][watch_id] = b]
      /\ UNCHANGED <<CLAUSES, ASSIGNMENT, DECISION_STACK, BCP_LIST, pc, caller, lit, w, answer>>
  BY <1>0 DEF MoveWatch, AtClause
<1>2. /\ lit \in Literal /\ -lit \in Literal /\ k \in DOMAIN CLAUSES /\ Len(CLAUSES[k]) >= 2
      /\ w \in 1 .. Len(Walked) /\ Walked[w] = k /\ Walked \in Seq(DOMAIN CLAUSES)
      /\ watch_id \in 1 .. 2 /\ watching[k][watch_id] = -lit
      /\ 3 - watch_id \in 1 .. 2 /\ watching[k][3 - watch_id] = o
      /\ Range(watching[k]) = {-lit, o} /\ o # -lit /\ o \in Literal
      /\ b \in Range(CLAUSES[k]) /\ b \in Literal /\ b # -lit /\ b # o /\ ~True(-b)
  BY <1>0, <1>1, CursorFacts DEF IInv, Clause, Loaded
<1>3. /\ Searching /\ Wired /\ True(lit) /\ ~True(-lit)
      /\ watching \in [DOMAIN CLAUSES -> Seq(Literal \cup {0})]
      /\ LIT_TO_CLAUSES \in [Literal -> Seq(DOMAIN CLAUSES)]
  BY <1>1, <1>2, NotBoth DEF IInv, Wiring, TypeOK, Searching, Walking
<1>4. /\ DOMAIN watching' = DOMAIN CLAUSES /\ watching'[k] = [watching[k] EXCEPT ![watch_id] = b]
      /\ \A c \in DOMAIN CLAUSES : c # k => watching'[c] = watching[c]
  BY <1>1, <1>2, <1>3
<1>5. /\ watching'[k][watch_id] = b /\ watching'[k][3 - watch_id] = o
      /\ Range(watching'[k]) = {b, o}
  <2>1. watching[k] \in [1 .. 2 -> Range(CLAUSES[k])]
    BY <1>1, <1>2, <1>3 DEF Wired, Loaded
  <2>2. watching'[k] \in [1 .. 2 -> Range(CLAUSES[k])]
    BY <1>2, <1>4, <2>1
  <2>3. watching'[k][watch_id] = b /\ watching'[k][3 - watch_id] = o
    BY <1>2, <1>4, <2>1
  <2>4. {watching'[k][1], watching'[k][2]} = {b, o}
    BY <1>2, <2>3
  <2> QED
    BY <2>2, <2>3, <2>4, Pair
<1>6. \A x \in w .. Len(Walked) :
        Walked[x] # k => \E y \in w .. Len(Walked') : Walked'[y] = Walked[x]
  <2>1. LIT_TO_CLAUSES'[-lit] = RemoveAt(LIT_TO_CLAUSES[-lit], w)
    BY <1>0, <1>2, <1>3 DEF MoveWatch
  <2>2. Walked' = RemoveAt(Walked, w)
    BY <1>1, <2>1 DEF Walked, clauses_watching
  <2>n. PICK n \in Nat : n = Len(Walked)
    BY <1>2, LenProperties
  <2>3. /\ Len(Walked') = n - 1
        /\ \A j \in 1 .. n - 1 : Walked'[j] = IF j < w THEN Walked[j] ELSE Walked[j + 1]
    BY <1>2, <2>2, <2>n, Take
  <2> SUFFICES ASSUME NEW x \in w .. n, Walked[x] # k
               PROVE  \E y \in w .. n - 1 : Walked'[y] = Walked[x]
    BY <2>3, <2>n
  <2>4. x # w /\ w \in 1 .. n
    BY <1>2, <2>n
  <2>5. x - 1 \in w .. n - 1 /\ x - 1 \in 1 .. n - 1 /\ ~(x - 1 < w) /\ (x - 1) + 1 = x
    BY <2>4
  <2>6. Walked'[x - 1] = Walked[x]
    BY <2>3, <2>5
  <2> QED
    BY <2>5, <2>6
<1>7. ~AllFalse(k)
  BY <1>2 DEF AllFalse
<1>8. Pending => Pending'
  <2> SUFFICES ASSUME NEW x \in w .. Len(Walked), AllFalse(Walked[x]) PROVE Pending'
    BY DEF Pending
  <2>1. Walked[x] # k
    BY <1>7
  <2>2. PICK y \in w .. Len(Walked') : Walked'[y] = Walked[x]
    BY <1>6, <2>1
  <2> QED
    BY <1>1, <2>2, Steady DEF Pending
<1>9. ASSUME ~Twice PROVE Watched' /\ UnitsHold' /\ QueueHolds'
  <2>1. Watched /\ UnitsHold /\ QueueHolds
    BY <1>1, <1>3, <1>9 DEF Searching
  <2>2. ASSUME NEW c \in DOMAIN CLAUSES, c # k, NEW m, NEW n, Watch(c, m, n)
        PROVE  Watch(c, m, n)'
    <3>1. Due(c, m, n) => Due(c, m, n)'
      <4> SUFFICES ASSUME Due(c, m, n) PROVE Due(c, m, n)'
        OBVIOUS
      <4>1. CASE Queued(n) /\ \A l \in Range(CLAUSES[c]) \ {n} : True(-l)
        BY <1>1, <4>1, Steady DEF Due, Queued
      <4>2. CASE m = -lit /\ \E x \in w .. Len(Walked) : Walked[x] = c
        <5>1. \E y \in w .. Len(Walked') : Walked'[y] = c
          BY <1>6, <2>2, <4>2
        <5> QED
          BY <1>1, <4>2, <5>1 DEF Due
      <4> QED
        BY <1>1, <4>1, <4>2 DEF Due
    <3> QED
      BY <1>1, <2>2, <3>1, Steady DEF Watch
  <2>3. ~True(-o)
    <3> SUFFICES ASSUME True(-o) PROVE FALSE
      OBVIOUS
    <3>1. Watch(k, o, -lit)
      BY <1>2, <2>1 DEF Watched
    <3>2. Due(k, o, -lit)
      BY <1>3, <3>1 DEF Watch, Guarded
    <3> QED
      BY <1>1, <1>2, <3>2 DEF Due
  <2>4. Watched'
    <3> SUFFICES ASSUME NEW c \in DOMAIN CLAUSES, Len(CLAUSES[c]) >= 2
                 PROVE  /\ Watch(c, watching[c][1], watching[c][2])'
                        /\ Watch(c, watching[c][2], watching[c][1])'
      BY <1>1 DEF Watched
    <3>1. CASE c = k
      <4>1. ~True(-b)' /\ ~True(-o)'
        BY <1>1, <1>2, <2>3, Steady
      <4>2. \A n : Watch(k, b, n)' /\ Watch(k, o, n)'
        BY <4>1 DEF Watch
      <4>3. watching'[k][1] \in {b, o} /\ watching'[k][2] \in {b, o}
        BY <1>2, <1>5
      <4> QED
        BY <3>1, <4>2, <4>3
    <3>2. CASE c # k
      <4>1. Watch(c, watching[c][1], watching[c][2]) /\ Watch(c, watching[c][2], watching[c][1])
        BY <2>1 DEF Watched
      <4>2. watching'[c] = watching[c]
        BY <1>4, <3>2
      <4> QED
        BY <2>2, <3>2, <4>1, <4>2 DEF Watch
    <3> QED
      BY <3>1, <3>2
  <2>5. UnitsHold'
    BY <1>1, <2>1, Steady DEF UnitsHold, Queued
  <2>6. \A l : Because(l) => Because(l)'
    <3> SUFFICES ASSUME NEW l, NEW c \in DOMAIN CLAUSES, Forces(c, l) PROVE Because(l)'
      BY DEF Because
    <3>1. c # k
      <4> SUFFICES ASSUME c = k PROVE FALSE
        OBVIOUS
      <4>1. l \in {-lit, o} /\ \A m \in Range(CLAUSES[k]) \ {l} : True(-m)
        BY <1>2 DEF Forces
      <4> QED
        BY <1>2, <4>1
    <3>2. Forces(c, l)'
      BY <1>1, <1>4, <3>1, Steady DEF Forces
    <3> QED
      BY <1>1, <3>2 DEF Because
  <2>7. QueueHolds'
    <3> SUFFICES ASSUME NEW l \in Range(BCP_LIST)
                 PROVE  /\ ~True(l)'
                        /\ Because(l)' \/ (Unit(l) /\ NoOpen)'
                        /\ True(-l)' => \/ (Unit(l) /\ NoOpen /\ Because(-l))'
                                        \/ Pending'
      BY <1>1 DEF QueueHolds
    <3>1. /\ ~True(l)
          /\ Because(l) \/ (Unit(l) /\ NoOpen)
          /\ True(-l) => (Unit(l) /\ NoOpen /\ Because(-l)) \/ Pending
      BY <1>1, <2>1 DEF QueueHolds
    <3> QED
      BY <1>1, <1>8, <2>6, <3>1, Steady
  <2> QED
    BY <2>4, <2>5, <2>7
<1>10. Twice => Pending'
  BY <1>1, <1>3, <1>8 DEF Searching, TwiceHolds
<1>11. caller # "bcp" => \A l \in Range(BCP_LIST') : ASSIGNMENT[VarOf(l)] = UNASSIGNED
  BY <1>1, <1>3 DEF Searching, Walking
<1> QED
  BY <1>1, <1>9, <1>10, <1>11, WalkSteady

LEMMA KeepWatchSearch == ASSUME IInv, KeepWatch PROVE Searching'
<1>0. PICK o, k : o = other_watch /\ k = Clause
  OBVIOUS
<1>1. /\ AtClause /\ pc = "walk" /\ pc' = "walk" /\ w' = w + 1
      /\ new_watch_lit = 0 /\ ~True(-o)
      /\ BCP_LIST' = IF True(o) THEN BCP_LIST ELSE queue_bcp(o, BCP_LIST)
      /\ UNCHANGED <<CLAUSES, watching, LIT_TO_CLAUSES, ASSIGNMENT, DECISION_STACK, pc,
                     caller, lit, answer>>
  BY <1>0, IsTrue DEF KeepWatch, AtClause
<1>2. /\ lit \in Literal /\ -lit \in Literal /\ k \in DOMAIN CLAUSES /\ Len(CLAUSES[k]) >= 2
      /\ w \in 1 .. Len(Walked) /\ Walked[w] = k /\ Walked \in Seq(DOMAIN CLAUSES)
      /\ Range(watching[k]) = {-lit, o} /\ o # -lit /\ o \in Literal /\ o \in Range(CLAUSES[k])
      /\ \A m \in Range(CLAUSES[k]) : m \in {o, -lit} \/ True(-m)
  BY <1>0, <1>1, CursorFacts DEF IInv, Clause, Loaded
<1>3. /\ Searching /\ True(lit) /\ ~True(-lit) /\ -(-lit) = lit
      /\ BCP_LIST \in Seq(Literal) /\ IsInjective(BCP_LIST)
      /\ ASSIGNMENT \in Assignment /\ DECISION_STACK \in Seq(Decision)
      /\ \A c \in DOMAIN CLAUSES : Range(CLAUSES[c]) \subseteq Literal
  BY <1>1, <1>2, NotBoth, Literals, TypeParts, ClauseFacts DEF IInv, Wiring, Searching, Walking
<1>4. /\ Range(BCP_LIST') = Range(BCP_LIST) \cup (IF True(o) THEN {} ELSE {o})
      /\ Range(BCP_LIST) \subseteq Literal
  <2>1. Range(BCP_LIST) \subseteq Literal
    BY <1>3, ClauseSize
  <2>2. CASE True(o)
    BY <1>1, <2>1, <2>2
  <2>3. CASE ~True(o)
    BY <1>1, <1>2, <1>3, <2>1, <2>3, Queue
  <2> QED
    BY <2>2, <2>3
<1>5. \A x \in w .. Len(Walked) : x = w \/ x \in w' .. Len(Walked')
  <2>1. Walked' = Walked
    BY <1>1 DEF Walked, clauses_watching
  <2>2. Len(Walked) \in Nat
    BY <1>2, LenProperties
  <2> QED
    BY <1>1, <1>2, <2>1, <2>2
<1>6. Walked' = Walked /\ ~AllFalse(k)
  BY <1>1, <1>2 DEF Walked, clauses_watching, AllFalse
<1>7. Pending => Pending'
  BY <1>1, <1>2, <1>5, <1>6, Steady DEF Pending
<1>8. \A m \in Range(CLAUSES[k]) \ {o} : True(-m)
  BY <1>2, <1>3
<1>9. \A c, l : Forces(c, l) => Forces(c, l)'
  BY <1>1, Steady DEF Forces
<1>10. \A l : Because(l) => Because(l)'
  BY <1>1, <1>9 DEF Because
<1>11. ASSUME ~Twice PROVE Watched' /\ UnitsHold' /\ QueueHolds'
  <2>1. Watched /\ UnitsHold /\ QueueHolds
    BY <1>1, <1>3, <1>11 DEF Searching
  <2>2. ASSUME NEW c \in DOMAIN CLAUSES, NEW m, NEW n, Range(watching[c]) = {m, n},
               Watch(c, m, n)
        PROVE  Watch(c, m, n)'
    <3> SUFFICES ASSUME True(-m)', ~Guarded(m, n)' PROVE Recent(m)' /\ Due(c, m, n)'
      BY DEF Watch
    <3>1. True(-m) /\ ~Guarded(m, n)
      BY <1>1, Steady
    <3>2. Recent(m) /\ Due(c, m, n) /\ ~True(n)
      BY <2>2, <3>1 DEF Watch, Guarded, Recent
    <3>3. CASE Queued(n) /\ \A l \in Range(CLAUSES[c]) \ {n} : True(-l)
      <4>1. Queued(n)'
        BY <1>4, <3>3 DEF Queued
      <4> QED
        BY <1>1, <3>2, <3>3, <4>1, Steady DEF Due
    <3>4. CASE m = -lit /\ \E x \in w .. Len(Walked) : Walked[x] = c
      <4>1. CASE c = k
        <5>1. n = o
          BY <1>2, <2>2, <3>4, <4>1
        <5>2. Queued(n)'
          BY <1>4, <3>2, <5>1 DEF Queued
        <5> QED
          BY <1>1, <1>8, <3>2, <4>1, <5>1, <5>2, Steady DEF Due
      <4>2. CASE c # k
        <5>1. \E x \in w' .. Len(Walked') : Walked'[x] = c
          BY <1>2, <1>5, <1>6, <3>4, <4>2
        <5> QED
          BY <1>1, <3>2, <3>4, <5>1, Steady DEF Due
      <4> QED
        BY <4>1, <4>2
    <3> QED
      BY <1>1, <3>2, <3>3, <3>4 DEF Due
  <2>3. Watched'
    <3> SUFFICES ASSUME NEW c \in DOMAIN CLAUSES, Len(CLAUSES[c]) >= 2
                 PROVE  /\ Watch(c, watching[c][1], watching[c][2])'
                        /\ Watch(c, watching[c][2], watching[c][1])'
      BY <1>1 DEF Watched
    <3>1. Range(watching[c]) = {watching[c][1], watching[c][2]}
      BY <1>1, WatchFacts DEF IInv, Wiring, Loaded
    <3>2. Watch(c, watching[c][1], watching[c][2]) /\ Watch(c, watching[c][2], watching[c][1])
      BY <2>1 DEF Watched
    <3>3. PICK m, n : m = watching[c][1] /\ n = watching[c][2]
      OBVIOUS
    <3>4. Watch(c, m, n)' /\ Watch(c, n, m)'
      BY <2>2, <3>1, <3>2, <3>3
    <3>5. m = watching'[c][1] /\ n = watching'[c][2]
      BY <1>1, <3>3
    <3> QED
      BY <3>4, <3>5
  <2>4. UnitsHold'
    <3>1. \A l : Queued(l) => Queued(l)'
      BY <1>4 DEF Queued
    <3> QED
      BY <1>1, <2>1, <3>1, Steady DEF UnitsHold
  <2>5. ASSUME ~True(o) PROVE Because(o)'
    <3>1. -o \notin Range(CLAUSES[k])
      <4> SUFFICES ASSUME -o \in Range(CLAUSES[k]) PROVE FALSE
        OBVIOUS
      <4>1. -o # o /\ -(-o) = o
        BY <1>2, Literals
      <4>2. True(-(-o))
        BY <1>8, <4>1
      <4> QED
        BY <2>5, <4>1, <4>2
    <3>2. Forces(k, o)
      BY <1>2, <1>8, <3>1 DEF Forces
    <3> QED
      BY <1>2, <1>10, <3>2 DEF Because
  <2>6. QueueHolds'
    <3> SUFFICES ASSUME NEW l \in Range(BCP_LIST')
                 PROVE  /\ ~True(l)'
                        /\ Because(l)' \/ (Unit(l) /\ NoOpen)'
                        /\ True(-l)' => \/ (Unit(l) /\ NoOpen /\ Because(-l))'
                                        \/ Pending'
      BY <1>1 DEF QueueHolds
    <3>1. CASE l \in Range(BCP_LIST)
      <4>1. /\ ~True(l)
            /\ Because(l) \/ (Unit(l) /\ NoOpen)
            /\ True(-l) => (Unit(l) /\ NoOpen /\ Because(-l)) \/ Pending
        BY <1>1, <2>1, <3>1 DEF QueueHolds
      <4> QED
        BY <1>1, <1>7, <1>10, <4>1, Steady
    <3>2. CASE l \notin Range(BCP_LIST)
      <4>1. l = o /\ ~True(o)
        BY <1>4, <3>2
      <4> QED
        BY <1>1, <2>5, <4>1, Steady
    <3> QED
      BY <3>1, <3>2
  <2> QED
    BY <2>3, <2>4, <2>6
<1>12. Twice => Pending'
  BY <1>1, <1>3, <1>7 DEF Searching, TwiceHolds
<1>13. ASSUME caller # "bcp", NEW l \in Range(BCP_LIST')
       PROVE  ASSIGNMENT[VarOf(l)] = UNASSIGNED
  <2>1. CASE l \in Range(BCP_LIST)
    BY <1>1, <1>3, <1>13, <2>1 DEF Searching, Walking
  <2>2. CASE l \notin Range(BCP_LIST)
    <3>1. l = o /\ ~True(o) /\ ~True(-o)
      BY <1>1, <1>4, <1>13, <2>2
    <3>2. ~Twice
      BY <1>3, <1>13 DEF Searching, TwiceHolds
    <3>3. Consistent(ASSIGNMENT, DECISION_STACK)
      BY <1>3, <3>2 DEF Searching, Before, Placed
    <3> QED
      BY <1>2, <1>3, <3>1, <3>3, Assigned DEF True
  <2> QED
    BY <2>1, <2>2
<1> QED
  BY <1>1, <1>11, <1>12, <1>13, WalkSteady

\* A clause is falsified at the cursor only while bcp assigns: after a
\* decision or a flip its other watch would have been made up for.
LEMMA FalsifiedInBcp == ASSUME IInv, Falsified PROVE caller = "bcp" /\ AllFalse(Clause)
<1>0. PICK o, k : o = other_watch /\ k = Clause
  OBVIOUS
<1>1. AtClause /\ pc = "walk" /\ new_watch_lit = 0 /\ True(-o)
  BY <1>0, IsTrue DEF Falsified, AtClause
<1>2. /\ lit \in Literal /\ -lit \in Literal /\ k \in DOMAIN CLAUSES /\ Len(CLAUSES[k]) >= 2
      /\ Range(watching[k]) = {-lit, o} /\ o # -lit
      /\ \A m \in Range(CLAUSES[k]) : m \in {o, -lit} \/ True(-m)
  BY <1>0, <1>1, CursorFacts DEF IInv, Clause, Loaded
<1>3. Searching /\ True(lit) /\ ~True(-lit) /\ -(-lit) = lit
  BY <1>1, <1>2, NotBoth, Literals DEF IInv, Searching, Walking
<1>4. AllFalse(k)
  BY <1>1, <1>2, <1>3 DEF AllFalse
<1>5. ASSUME caller # "bcp" PROVE FALSE
  <2>1. ~Twice /\ Watched
    BY <1>1, <1>3, <1>5 DEF Searching, TwiceHolds
  <2>2. Watch(k, o, -lit)
    <3>1. Range(watching[k]) = {watching[k][1], watching[k][2]}
      BY <1>1, <1>2, WatchFacts DEF IInv, Wiring, Loaded
    <3>2. Watch(k, watching[k][1], watching[k][2]) /\ Watch(k, watching[k][2], watching[k][1])
      BY <1>2, <2>1 DEF Watched
    <3>3. \/ watching[k][1] = -lit /\ watching[k][2] = o
          \/ watching[k][1] = o /\ watching[k][2] = -lit
      BY <1>2, <3>1
    <3> QED
      BY <3>2, <3>3
  <2>3. Due(k, o, -lit)
    BY <1>1, <1>3, <2>2 DEF Watch, Guarded
  <2>4. Queued(-lit)
    BY <1>1, <1>2, <2>3 DEF Due
  <2>5. ASSIGNMENT[VarOf(-lit)] = UNASSIGNED
    BY <1>1, <1>3, <1>5, <2>4 DEF Searching, Walking, Queued
  <2> QED
    BY <1>2, <1>3, <2>5, Literals DEF True, LitTrue, UNASSIGNED, FALSE_, TRUE_
<1> QED
  BY <1>0, <1>4, <1>5

LEMMA ReturnConflictSearch == ASSUME IInv, ReturnConflict PROVE Searching'
<1>1. caller = "bcp" /\ AllFalse(Clause) /\ Clause \in DOMAIN CLAUSES
  BY FalsifiedInBcp, CursorFacts DEF ReturnConflict, Falsified, IInv
<1>2. /\ pc = "walk" /\ pc' = "conflict"
      /\ UNCHANGED <<CLAUSES, watching, LIT_TO_CLAUSES, ASSIGNMENT, DECISION_STACK,
                     BCP_LIST, caller, lit, w, answer>>
  BY <1>1 DEF ReturnConflict, Falsified, AtClause
<1>3. ASSUME ~Twice PROVE Watched' /\ UnitsHold' /\ QueueHolds'
  <2>1. Watched /\ UnitsHold
    BY <1>2, <1>3 DEF IInv, Searching
  <2>2. \A c, m, n : Watch(c, m, n) => Watch(c, m, n)'
    BY <1>2, Steady DEF Watch, Due
  <2>3. Watched'
    <3> SUFFICES ASSUME NEW c \in DOMAIN CLAUSES, Len(CLAUSES[c]) >= 2
                 PROVE  /\ Watch(c, watching[c][1], watching[c][2])'
                        /\ Watch(c, watching[c][2], watching[c][1])'
      BY <1>2 DEF Watched
    <3>1. PICK m, n : m = watching[c][1] /\ n = watching[c][2]
      OBVIOUS
    <3>2. Watch(c, m, n)' /\ Watch(c, n, m)'
      BY <2>1, <2>2, <3>1 DEF Watched
    <3>3. m = watching'[c][1] /\ n = watching'[c][2]
      BY <1>2, <3>1
    <3> QED
      BY <3>2, <3>3
  <2>4. UnitsHold'
    BY <1>2, <2>1, Steady DEF UnitsHold
  <2>5. QueueHolds'
    BY <1>2 DEF QueueHolds
  <2> QED
    BY <2>3, <2>4, <2>5
<1> QED
  BY <1>1, <1>2, <1>3, WalkSteady

LEMMA ReturnOkSearch == ASSUME IInv, ReturnOk PROVE Searching'
<1>1. /\ pc = "walk" /\ pc' = "bcp" /\ w > Len(Walked)
      /\ UNCHANGED <<CLAUSES, watching, LIT_TO_CLAUSES, ASSIGNMENT, DECISION_STACK,
                     BCP_LIST, caller, lit, w, answer>>
  BY DEF ReturnOk
<1>2. \A x \in w .. Len(Walked) : FALSE
  <2>1. w \in Nat /\ LIT_TO_CLAUSES[-lit] \in Seq(DOMAIN CLAUSES)
    BY Literals DEF IInv, Wiring, TypeOK
  <2>2. Len(Walked) \in Nat
    BY <2>1, LenProperties DEF Walked, clauses_watching
  <2> QED
    BY <1>1, <2>1, <2>2
<1>3. ~Pending
  BY <1>2 DEF Pending
<1>4. ~Twice
  BY <1>1, <1>3 DEF IInv, Searching, TwiceHolds
<1>5. Watched /\ UnitsHold /\ QueueHolds
  BY <1>1, <1>4 DEF IInv, Searching
<1>6. \A l : Because(l) => Because(l)'
  BY <1>1, Steady DEF Because, Forces
<1>7. \A c, m, n : Watch(c, m, n) => Watch(c, m, n)'
  <2> SUFFICES ASSUME NEW c, NEW m, NEW n, Due(c, m, n) PROVE Due(c, m, n)'
    BY <1>1, Steady DEF Watch
  <2> QED
    BY <1>1, <1>2, Steady DEF Due, Queued
<1>8. Watched'
  <2> SUFFICES ASSUME NEW c \in DOMAIN CLAUSES, Len(CLAUSES[c]) >= 2
               PROVE  /\ Watch(c, watching[c][1], watching[c][2])'
                      /\ Watch(c, watching[c][2], watching[c][1])'
    BY <1>1 DEF Watched
  <2>1. PICK m, n : m = watching[c][1] /\ n = watching[c][2]
    OBVIOUS
  <2>2. Watch(c, m, n)' /\ Watch(c, n, m)'
    BY <1>5, <1>7, <2>1 DEF Watched
  <2>3. m = watching'[c][1] /\ n = watching'[c][2]
    BY <1>1, <2>1
  <2> QED
    BY <2>2, <2>3
<1>9. UnitsHold'
  BY <1>1, <1>5, Steady DEF UnitsHold, Queued
<1>10. QueueHolds'
  BY <1>1, <1>3, <1>5, <1>6, Steady DEF QueueHolds
<1> QED
  BY <1>1, <1>4, <1>8, <1>9, <1>10, WalkSteady

-----------------------------------------------------------------------------
(* Loading *)

LEMMA LoadFacts ==
  ASSUME IInv, pc = "load"
  PROVE  /\ DECISION_STACK = <<>> /\ ~Twice /\ NoOpen
         /\ Before = ASSIGNMENT /\ Placed = DECISION_STACK
         /\ \A l \in Literal : ASSIGNMENT[VarOf(l)] = UNASSIGNED /\ ~True(l)
<1>1. DECISION_STACK = <<>> /\ DECISION_STACK \in Seq(Decision) /\ ASSIGNMENT \in Assignment
  BY TypeParts DEF IInv, Searching, Loading, Wiring
<1>2. Len(DECISION_STACK) = 0 /\ DOMAIN DECISION_STACK = {}
  BY <1>1
<1>3. ~Twice /\ NoOpen
  BY <1>2 DEF Twice, NoOpen
<1>4. Consistent(ASSIGNMENT, DECISION_STACK)
  BY <1>3 DEF IInv, Searching, Before, Placed
<1>5. ASSUME NEW l \in Literal PROVE ASSIGNMENT[VarOf(l)] = UNASSIGNED /\ ~True(l)
  <2>1. VarOf(l) \in Var /\ Value(l) \in {FALSE_, TRUE_}
    BY Literals
  <2>2. ASSIGNMENT[VarOf(l)] = UNASSIGNED
    BY <1>2, <1>4, <2>1 DEF Consistent
  <2> QED
    BY <2>1, <2>2 DEF True, LitTrue, UNASSIGNED, FALSE_, TRUE_
<1> QED
  BY <1>1, <1>3, <1>5 DEF Before, Placed

LEMMA LoadClauseSearch == ASSUME IInv, LoadClause PROVE Searching'
<1> DEFINE C == CLAUSES[w]
<1>1. /\ pc = "load" /\ w \in Nat /\ w >= 1 /\ TypeOK /\ w <= Len(CLAUSES)
      /\ UNCHANGED <<CLAUSES, ASSIGNMENT, DECISION_STACK, caller, lit>>
      /\ BCP_LIST \in Seq(Literal) /\ IsInjective(BCP_LIST)
      /\ Searching /\ Loading /\ Located
  BY DEF IInv, Wiring, TypeOK, LoadClause, Searching
<1>2. /\ w \in DOMAIN CLAUSES /\ DOMAIN CLAUSES \subseteq Nat /\ Len(C) \in Nat
      /\ DOMAIN C = 1 .. Len(C) /\ Range(C) \subseteq Literal
      /\ \A i \in 1 .. Len(C) : C[i] \in Range(C)
  <2>1. DOMAIN CLAUSES = 1 .. Len(CLAUSES) /\ Len(CLAUSES) \in Nat
    BY <1>1, LenProperties DEF TypeOK
  <2>2. w \in DOMAIN CLAUSES /\ DOMAIN CLAUSES \subseteq Nat
    BY <1>1, <2>1
  <2> QED
    BY <1>1, <2>2, ClauseFacts DEF IInv, Wiring
<1>3. DECISION_STACK = <<>> /\ ~Twice
  BY <1>1, LoadFacts
<1>4. Consistent(Before, Placed)' /\ ~Twice'
  <2>1. Consistent(Before, Placed)
    BY <1>1 DEF Searching
  <2> QED
    BY <1>1, <1>3, <2>1, Steady
<1> HIDE DEF C
<1>5. /\ pc' \in {"load", "done"} /\ (answer' = "none" <=> pc' # "done")
      /\ pc' = "load" => w' = w + 1 /\ Len(C) # 0
      /\ Range(BCP_LIST) \subseteq Range(BCP_LIST')
      /\ Len(C) = 1 => C[1] \in Range(BCP_LIST')
      /\ \A l \in Range(BCP_LIST') : l \in Range(BCP_LIST) \/ (Len(C) = 1 /\ l = C[1])
  <2>1. answer = "none"
    BY <1>1 DEF Located
  <2>2. CASE Len(C) = 0
    <3>1. answer' = "UNSAT" /\ pc' = "done" /\ UNCHANGED BCP_LIST
      BY <1>2, <2>2 DEF LoadClause, C
    <3>2. ~(0 = 1)
      OBVIOUS
    <3> QED
      BY <2>2, <3>1, <3>2
  <2>3. CASE Len(C) = 1
    <3>1. BCP_LIST' = queue_bcp(C[1], BCP_LIST) /\ w' = w + 1 /\ UNCHANGED <<pc, answer>>
      BY <1>2, <2>3 DEF LoadClause, C
    <3>2. C[1] \in Literal
      <4>1. 1 \in 1 .. Len(C)
        BY <2>3
      <4> QED
        BY <1>2, <4>1
    <3>3. Range(BCP_LIST') = Range(BCP_LIST) \cup {C[1]}
      BY <1>1, <3>1, <3>2, Queue
    <3>4. ~(1 = 0)
      OBVIOUS
    <3> QED
      BY <1>1, <2>1, <2>3, <3>1, <3>3, <3>4
  <2>4. CASE Len(C) >= 2
    <3>1. w' = w + 1 /\ UNCHANGED <<BCP_LIST, pc, answer>>
      BY <1>2, <2>4 DEF LoadClause, C
    <3>2. Len(C) # 0 /\ Len(C) # 1
      BY <1>2, <2>4
    <3> QED
      BY <1>1, <2>1, <3>1, <3>2
  <2> QED
    BY <1>2, <2>2, <2>3, <2>4
<1>6. Loading'
  <2> SUFFICES ASSUME pc' = "load"
               PROVE  /\ DECISION_STACK' = <<>>
                      /\ \A l \in Range(BCP_LIST') : Unit(l)'
                      /\ \A c \in DOMAIN CLAUSES : c < w' =>
                           /\ Len(CLAUSES[c]) # 0
                           /\ Len(CLAUSES[c]) = 1 => CLAUSES[c][1] \in Range(BCP_LIST')
    BY <1>1 DEF Loading, Queued
  <2>1. DECISION_STACK' = <<>>
    BY <1>1, <1>3
  <2>2. ASSUME NEW l \in Range(BCP_LIST') PROVE Unit(l)'
    <3>1. Unit(l)
      BY <1>1, <1>2, <1>5, <2>2 DEF Loading, Unit, C
    <3> QED
      BY <1>1, <3>1, Steady
  <2>3. ASSUME NEW c \in DOMAIN CLAUSES, c < w'
        PROVE  Len(CLAUSES[c]) # 0 /\ (Len(CLAUSES[c]) = 1 => CLAUSES[c][1] \in Range(BCP_LIST'))
    <3>1. c < w \/ c = w
      BY <1>1, <1>2, <1>5, <2>3
    <3>2. CASE c < w
      BY <1>1, <1>5, <3>2 DEF Loading, Queued
    <3>3. CASE c = w
      BY <1>5, <3>3 DEF C
    <3> QED
      BY <3>1, <3>2, <3>3
  <2> QED
    BY <2>1, <2>2, <2>3
<1>7. Located'
  BY <1>5 DEF Located
<1>8. Walking' /\ TwiceHolds'
  BY <1>4, <1>5 DEF Walking, TwiceHolds
<1> QED
  BY <1>4, <1>5, <1>6, <1>7, <1>8 DEF Searching

LEMMA LoadDoneSearch == ASSUME IInv, LoadDone PROVE Searching'
<1>1. /\ pc = "load" /\ pc' = "bcp" /\ TypeOK /\ w > Len(CLAUSES) /\ CLAUSES \in Inputs /\ Wired
      /\ UNCHANGED <<CLAUSES, watching, LIT_TO_CLAUSES, ASSIGNMENT, DECISION_STACK,
                     BCP_LIST, caller, lit, w, answer>>
      /\ Searching /\ Loading /\ Located /\ BCP_LIST \in Seq(Literal) /\ w \in Nat
  BY DEF IInv, Wiring, TypeOK, LoadDone, Searching
<1>2. /\ DECISION_STACK = <<>> /\ ~Twice /\ NoOpen
      /\ \A l \in Literal : ASSIGNMENT[VarOf(l)] = UNASSIGNED /\ ~True(l)
  BY <1>1, LoadFacts
<1>3. /\ \A c \in DOMAIN CLAUSES : c < w
      /\ \A c \in DOMAIN CLAUSES : Range(CLAUSES[c]) \subseteq Literal
      /\ Range(BCP_LIST) \subseteq Literal
  <2>1. DOMAIN CLAUSES = 1 .. Len(CLAUSES) /\ Len(CLAUSES) \in Nat
    BY <1>1, LenProperties DEF TypeOK
  <2> QED
    BY <1>1, <2>1, ClauseFacts, ClauseSize
<1>4. Consistent(Before, Placed)' /\ ~Twice'
  <2>1. Consistent(Before, Placed)
    BY <1>1 DEF Searching
  <2> QED
    BY <1>1, <1>2, <2>1, Steady
<1>5. Watched'
  <2> SUFFICES ASSUME NEW c \in DOMAIN CLAUSES, Len(CLAUSES[c]) >= 2
               PROVE  /\ Watch(c, watching[c][1], watching[c][2])'
                      /\ Watch(c, watching[c][2], watching[c][1])'
    BY <1>1 DEF Watched
  <2>1. PICK m, n : m = watching[c][1] /\ n = watching[c][2]
    OBVIOUS
  <2>2. m \in Literal /\ n \in Literal
    <3>1. /\ Range(watching[c]) = {watching[c][1], watching[c][2]}
          /\ Range(watching[c]) \subseteq Literal
      BY <1>1, <1>3, WatchFacts DEF Loaded
    <3> QED
      BY <2>1, <3>1
  <2>3. ~True(-m) /\ ~True(-n)
    BY <1>2, <2>2, Literals
  <2>4. Watch(c, m, n)' /\ Watch(c, n, m)'
    BY <1>1, <2>3, Steady DEF Watch
  <2>5. m = watching'[c][1] /\ n = watching'[c][2]
    BY <1>1, <2>1
  <2> QED
    BY <2>4, <2>5
<1>6. UnitsHold'
  <2> SUFFICES ASSUME NEW l \in Literal, Unit(l)' PROVE (NoOpen /\ Queued(l))'
    BY DEF UnitsHold
  <2>1. Unit(l)
    BY <1>1, Steady
  <2>2. Queued(l)
    BY <1>1, <1>3, <2>1 DEF Loading, Unit
  <2> QED
    BY <1>1, <1>2, <2>2, Steady DEF Queued
<1>7. QueueHolds'
  <2> SUFFICES ASSUME NEW l \in Range(BCP_LIST)
               PROVE  ~True(l)' /\ (Unit(l) /\ NoOpen)' /\ ~True(-l)'
    BY <1>1 DEF QueueHolds
  <2>1. Unit(l) /\ l \in Literal /\ -l \in Literal
    BY <1>1, <1>3, Literals DEF Loading
  <2>2. Unit(l) /\ ~True(l) /\ ~True(-l)
    BY <1>2, <2>1
  <2> QED
    BY <1>1, <1>2, <2>2, Steady
<1>8. Located'
  BY <1>1, <1>3 DEF Located, Loading
<1>9. Walking' /\ TwiceHolds' /\ Loading'
  BY <1>1, <1>4 DEF Walking, TwiceHolds, Loading
<1> QED
  BY <1>4, <1>5, <1>6, <1>7, <1>8, <1>9 DEF Searching

-----------------------------------------------------------------------------
(* bcp *)

(* What main should have checked: the literals of two unit clauses are not   *)
(* opposite.                                                                 *)
Opposed(input) == \E c, d \in DOMAIN input : /\ Len(input[c]) = 1 /\ Len(input[d]) = 1
                                             /\ input[c][1] = -input[d][1]
NoneOpposed == \A input \in Inputs : ~Opposed(input)

LEMMA UnitsAgree ==
  ASSUME NoneOpposed, CLAUSES \in Inputs, NEW l, Unit(l), -(-l) = l
  PROVE  ~Unit(-l)
BY DEF NoneOpposed, Opposed, Unit

LEMMA MainFacts ==
  ASSUME IInv, pc \notin {"load", "done", "walk", "conflict"}
  PROVE  /\ ~Twice /\ Consistent(ASSIGNMENT, DECISION_STACK) /\ Watched /\ UnitsHold /\ QueueHolds
         /\ ASSIGNMENT \in Assignment /\ DECISION_STACK \in Seq(Decision)
         /\ BCP_LIST \in Seq(Literal) /\ IsInjective(BCP_LIST) /\ Wired /\ CLAUSES \in Inputs
         /\ TypeOK
<1>1. ~Twice
  BY DEF IInv, Searching, TwiceHolds
<1>2. Consistent(ASSIGNMENT, DECISION_STACK) /\ Watched /\ UnitsHold /\ QueueHolds
  BY <1>1 DEF IInv, Searching, Before, Placed
<1> QED
  BY <1>1, <1>2, TypeParts DEF IInv, Wiring

\* With nothing queued every false watch is made up for, and the literals of
\* the unit clauses are true.
LEMMA Dry ==
  ASSUME IInv, pc \in {"bcp", "decide"}, BCP_LIST = <<>>
  PROVE  /\ \A c \in DOMAIN CLAUSES : Len(CLAUSES[c]) >= 2 =>
              /\ True(-watching[c][1]) => Guarded(watching[c][1], watching[c][2])
              /\ True(-watching[c][2]) => Guarded(watching[c][2], watching[c][1])
         /\ \A l \in Literal : Unit(l) =>
              True(l) /\ \A k \in DOMAIN DECISION_STACK : Open(k) => Below(VarOf(l), k)
<1>1. \A l : ~Queued(l)
  BY DEF Queued, Range
<1>2. Watched /\ UnitsHold
  BY MainFacts
<1>3. \A c, m, n : Watch(c, m, n) /\ True(-m) => Guarded(m, n)
  BY <1>1 DEF Watch, Due
<1>4. ASSUME NEW c \in DOMAIN CLAUSES, Len(CLAUSES[c]) >= 2
      PROVE  /\ True(-watching[c][1]) => Guarded(watching[c][1], watching[c][2])
             /\ True(-watching[c][2]) => Guarded(watching[c][2], watching[c][1])
  <2>1. Watch(c, watching[c][1], watching[c][2]) /\ Watch(c, watching[c][2], watching[c][1])
    BY <1>2, <1>4 DEF Watched
  <2> QED
    BY <1>3, <2>1
<1>5. \A l \in Literal : Unit(l) =>
        True(l) /\ \A k \in DOMAIN DECISION_STACK : Open(k) => Below(VarOf(l), k)
  BY <1>1, <1>2 DEF UnitsHold
<1> QED
  BY <1>4, <1>5

LEMMA BcpDrySearch == ASSUME IInv, bcp, BCP_LIST = <<>> PROVE Searching'
<1>1. /\ pc = "bcp" /\ pc' = "decide"
      /\ UNCHANGED <<ASSIGNMENT, DECISION_STACK, BCP_LIST, caller, lit, w, CLAUSES, watching,
                     LIT_TO_CLAUSES, answer>>
  BY DEF bcp
<1>2. ~Twice
  BY <1>1, MainFacts
<1>3. Consistent(Before, Placed)' /\ ~Twice'
  <2>1. Consistent(Before, Placed)
    BY DEF IInv, Searching
  <2> QED
    BY <1>1, <1>2, <2>1, Steady
<1>4. Watched'
  <2> SUFFICES ASSUME NEW c \in DOMAIN CLAUSES, Len(CLAUSES[c]) >= 2
               PROVE  /\ Watch(c, watching[c][1], watching[c][2])'
                      /\ Watch(c, watching[c][2], watching[c][1])'
    BY <1>1 DEF Watched
  <2>1. PICK m, n : m = watching[c][1] /\ n = watching[c][2]
    OBVIOUS
  <2>2. (True(-m) => Guarded(m, n)) /\ (True(-n) => Guarded(n, m))
    BY <1>1, <2>1, Dry
  <2>3. Watch(c, m, n)' /\ Watch(c, n, m)'
    BY <1>1, <2>2, Steady DEF Watch
  <2>4. m = watching'[c][1] /\ n = watching'[c][2]
    BY <1>1, <2>1
  <2> QED
    BY <2>3, <2>4
<1>5. UnitsHold'
  <2>1. \A l \in Literal : Unit(l) =>
          True(l) /\ \A k \in DOMAIN DECISION_STACK : Open(k) => Below(VarOf(l), k)
    BY <1>1, Dry
  <2> QED
    BY <1>1, <2>1, Steady DEF UnitsHold
<1>6. QueueHolds' /\ Loading' /\ Walking' /\ TwiceHolds'
  BY <1>1, <1>3 DEF QueueHolds, Loading, Walking, TwiceHolds
<1>7. Located'
  BY <1>1 DEF Located, IInv, Searching
<1> QED
  BY <1>3, <1>4, <1>5, <1>6, <1>7 DEF Searching

\* A clause is on the list of each literal it watches.
LEMMA OnList ==
  ASSUME IInv, pc \notin {"load", "done"}, NEW c \in DOMAIN CLAUSES, Len(CLAUSES[c]) >= 2,
         NEW m \in Literal, m \in Range(watching[c])
  PROVE  \E x \in 1 .. Len(LIT_TO_CLAUSES[m]) : LIT_TO_CLAUSES[m][x] = c
<1>1. c \in Range(LIT_TO_CLAUSES[m])
  BY DEF IInv, Wiring, Wired, Loaded
<1>2. DOMAIN LIT_TO_CLAUSES[m] = 1 .. Len(LIT_TO_CLAUSES[m])
  BY LenProperties DEF IInv, Wiring, TypeOK
<1> QED
  BY <1>1, <1>2 DEF Range

\* An unassigned variable is on no part of the stack.
LEMMA Nowhere ==
  ASSUME ASSIGNMENT \in Assignment, DECISION_STACK \in Seq(Decision),
         Consistent(ASSIGNMENT, DECISION_STACK),
         NEW l \in Literal, ASSIGNMENT[VarOf(l)] = UNASSIGNED
  PROVE  /\ \A k \in DOMAIN DECISION_STACK : ~Below(VarOf(l), k)
         /\ Recent(l) /\ Recent(-l) /\ ~True(l) /\ ~True(-l)
<1>1. ~BelowIn(DECISION_STACK, VarOf(l), Len(DECISION_STACK) + 1) /\ ~True(l) /\ ~True(-l)
  BY Assigned DEF True
<1>2. \A k \in DOMAIN DECISION_STACK : ~Below(VarOf(l), k)
  <2>1. DOMAIN DECISION_STACK = 1 .. Len(DECISION_STACK) /\ Len(DECISION_STACK) \in Nat
    BY LenProperties
  <2>2. \A k \in DOMAIN DECISION_STACK : \A j \in 1 .. k - 1 :
          j \in 1 .. (Len(DECISION_STACK) + 1) - 1
    BY <2>1
  <2> QED
    BY <1>1, <2>2 DEF Below, BelowIn
<1> QED
  BY <1>1, <1>2, Literals DEF Recent

\* bcp assigns the literal queued last, for the first time or again.
LEMMA Dequeues ==
  ASSUME IInv, bcp, BCP_LIST # <<>>, NEW l, l = Last(BCP_LIST)
  PROVE  /\ pc = "bcp" /\ pc' = "walk" /\ caller' = "bcp" /\ lit' = l /\ w' = 1
         /\ BCP_LIST' = Front(BCP_LIST)
         /\ ASSIGNMENT' = With(ASSIGNMENT, l)
         /\ DECISION_STACK' = Pushed(DECISION_STACK, l, "IMPLIED")
         /\ UNCHANGED <<CLAUSES, watching, LIT_TO_CLAUSES, answer>>
         /\ l \in Literal /\ -l \in Literal /\ l \in Range(BCP_LIST)
         /\ Range(BCP_LIST) = Range(BCP_LIST') \cup {l} /\ l \notin Range(BCP_LIST')
         /\ Range(BCP_LIST) \subseteq Literal
         /\ ~True(l) /\ (Because(l) \/ (Unit(l) /\ NoOpen))
         /\ True(-l) => Unit(l) /\ NoOpen /\ Because(-l)
         /\ \A q \in Range(BCP_LIST') : /\ ~True(q) /\ (Because(q) \/ (Unit(q) /\ NoOpen))
                                        /\ True(-q) => Unit(q) /\ NoOpen /\ Because(-q)
<1>1. /\ pc = "bcp" /\ BCP_LIST' = Front(BCP_LIST)
      /\ set_literal(ASSIGNMENT, DECISION_STACK, l, "IMPLIED", "bcp")
      /\ UNCHANGED <<CLAUSES, watching, LIT_TO_CLAUSES, answer>>
  BY DEF bcp
<1>2. /\ ASSIGNMENT \in Assignment /\ DECISION_STACK \in Seq(Decision)
      /\ BCP_LIST \in Seq(Literal) /\ IsInjective(BCP_LIST) /\ QueueHolds
  BY <1>1, MainFacts
<1>3. /\ l \in Literal /\ -l \in Literal
      /\ Range(BCP_LIST) = Range(BCP_LIST') \cup {l} /\ l \notin Range(BCP_LIST')
      /\ Range(BCP_LIST) \subseteq Literal
  BY <1>1, <1>2, Cut, Literals, ClauseSize
<1>4. "IMPLIED" \in Types /\ "bcp" \in Callers
  BY DEF Types, Callers
<1>5. /\ pc' = "walk" /\ caller' = "bcp" /\ lit' = l /\ w' = 1
      /\ ASSIGNMENT' = With(ASSIGNMENT, l)
      /\ DECISION_STACK' = Pushed(DECISION_STACK, l, "IMPLIED")
  BY <1>1, <1>2, <1>3, <1>4, SetTypes
<1>6. \A q \in Range(BCP_LIST) : /\ ~True(q) /\ (Because(q) \/ (Unit(q) /\ NoOpen))
                                 /\ True(-q) => Unit(q) /\ NoOpen /\ Because(-q)
  BY <1>1, <1>2 DEF QueueHolds
<1> QED
  BY <1>1, <1>3, <1>5, <1>6

LEMMA BcpFirstSearch ==
  ASSUME NoneOpposed, IInv, bcp, BCP_LIST # <<>>,
         ASSIGNMENT[VarOf(Last(BCP_LIST))] = UNASSIGNED
  PROVE  Searching'
<1>0. PICK l : l = Last(BCP_LIST)
  OBVIOUS
<1>1. /\ pc = "bcp" /\ pc' = "walk" /\ caller' = "bcp" /\ lit' = l /\ w' = 1
      /\ ASSIGNMENT' = With(ASSIGNMENT, l)
      /\ DECISION_STACK' = Pushed(DECISION_STACK, l, "IMPLIED")
      /\ UNCHANGED <<CLAUSES, watching, LIT_TO_CLAUSES, answer>>
      /\ l \in Literal /\ -l \in Literal
      /\ Range(BCP_LIST) = Range(BCP_LIST') \cup {l} /\ l \notin Range(BCP_LIST')
      /\ Range(BCP_LIST) \subseteq Literal
      /\ (Because(l) \/ (Unit(l) /\ NoOpen))
      /\ \A q \in Range(BCP_LIST') : /\ ~True(q) /\ (Because(q) \/ (Unit(q) /\ NoOpen))
                                     /\ True(-q) => Unit(q) /\ NoOpen /\ Because(-q)
  BY <1>0, Dequeues
<1>2. /\ ~Twice /\ Consistent(ASSIGNMENT, DECISION_STACK) /\ Watched /\ UnitsHold
      /\ ASSIGNMENT \in Assignment /\ DECISION_STACK \in Seq(Decision)
      /\ Wired /\ CLAUSES \in Inputs /\ TypeOK /\ ASSIGNMENT[VarOf(l)] = UNASSIGNED
  BY <1>0, <1>1, MainFacts
<1>3. \A c \in DOMAIN CLAUSES : Range(CLAUSES[c]) \subseteq Literal
  BY <1>2, ClauseFacts
<1>4. /\ -(-l) = l /\ l # -l /\ VarOf(-l) = VarOf(l)
      /\ \A m \in Literal : -m \in Literal /\ -(-m) = m
  BY <1>1, Literals
<1>5. /\ ~Twice' /\ Consistent(Before, Placed)'
      /\ (DECISION_STACK # <<>>)' /\ Last(DECISION_STACK)'.var = VarOf(l) /\ True(l)'
      /\ \A m \in Literal : True(m)' <=> m = l \/ True(m)
      /\ \A k : Open(k)' <=> Open(k)
      /\ \A v, k : Open(k) => (Below(v, k)' <=> Below(v, k))
  <2>1. "IMPLIED" \in Types /\ "IMPLIED" # "TRIED_ONE_WAY"
    BY DEF Types
  <2>2. /\ ~Twice' /\ Consistent(Before, Placed)'
        /\ (DECISION_STACK # <<>>)' /\ Last(DECISION_STACK)'.var = VarOf(l) /\ True(l)'
        /\ \A m \in Literal : True(m)' <=> m = l \/ LitTrue(ASSIGNMENT, m)
        /\ \A k : Open(k)' <=> OpenIn(DECISION_STACK, k)
                               \/ (k = Len(DECISION_STACK) + 1 /\ "IMPLIED" = "TRIED_ONE_WAY")
        /\ \A v, k : k \in 1 .. Len(DECISION_STACK) + 1 =>
             (Below(v, k)' <=> BelowIn(DECISION_STACK, v, k))
    BY <1>1, <1>2, <2>1, Assigns
  <2>3. \A k : Open(k) => k \in 1 .. Len(DECISION_STACK) + 1
    <3>1. DOMAIN DECISION_STACK = 1 .. Len(DECISION_STACK) /\ Len(DECISION_STACK) \in Nat
      BY <1>2, LenProperties
    <3> QED
      BY <3>1 DEF Open, OpenIn
  <2>4. \A m \in Literal : True(m)' <=> m = l \/ True(m)
    BY <2>2 DEF True
  <2>5. \A k : Open(k)' <=> Open(k)
    BY <2>1, <2>2 DEF Open
  <2>6. \A v, k : Open(k) => (Below(v, k)' <=> Below(v, k))
    BY <2>2, <2>3 DEF Below
  <2> QED
    BY <2>2, <2>4, <2>5, <2>6
<1>6. /\ \A k : Open(k) => k \in DOMAIN DECISION_STACK
      /\ NoOpen => NoOpen'
      /\ \A m : Recent(m) => Recent(m)'
      /\ \A m, o : o \in Literal /\ Guarded(m, o) => Guarded(m, o)'
      /\ \A m : Unit(m)' <=> Unit(m)
  <2>1. \A k : Open(k) => k \in DOMAIN DECISION_STACK
    BY DEF Open, OpenIn
  <2>2. NoOpen => NoOpen'
    BY <1>5, <2>1 DEF NoOpen
  <2>3. \A m : Recent(m) => Recent(m)'
    BY <1>5, <2>1 DEF Recent
  <2>4. \A m, o : o \in Literal /\ Guarded(m, o) => Guarded(m, o)'
    BY <1>5, <2>1 DEF Guarded
  <2>5. \A m : Unit(m)' <=> Unit(m)
    BY <1>1 DEF Unit
  <2> QED
    BY <2>1, <2>2, <2>3, <2>4, <2>5
<1>7. Recent(-l) /\ ~True(-l) /\ ~True(l)
  BY <1>1, <1>2, Nowhere
<1>8. \A c \in DOMAIN CLAUSES : \A q : Forces(c, q) => Forces(c, q)'
  BY <1>1, <1>3, <1>4, <1>5 DEF Forces
<1>9. \A q : Because(q) => Because(q)'
  BY <1>1, <1>8 DEF Because
<1>10. \A c \in DOMAIN CLAUSES : Len(CLAUSES[c]) >= 2 /\ -l \in Range(watching[c])
          => \E x \in w' .. Len(Walked') : Walked'[x] = c
  <2>1. Walked' = LIT_TO_CLAUSES[-l]
    BY <1>1 DEF Walked, clauses_watching
  <2> QED
    BY <1>1, <2>1, OnList
<1>11. ASSUME NEW c \in DOMAIN CLAUSES, Len(CLAUSES[c]) >= 2,
              NEW m \in Literal, NEW o \in Literal, m \in Range(watching[c]), Watch(c, m, o)
       PROVE  Watch(c, m, o)'
  <2> SUFFICES ASSUME True(-m)', ~Guarded(m, o)' PROVE Recent(m)' /\ Due(c, m, o)'
    BY DEF Watch
  <2>1. CASE True(-m)
    <3>1. Recent(m) /\ Due(c, m, o)
      BY <1>6, <1>11, <2>1 DEF Watch
    <3>2. o # l
      <4> SUFFICES ASSUME o = l PROVE FALSE
        OBVIOUS
      <4>1. True(o)' /\ Recent(m)'
        BY <1>5, <1>6, <3>1
      <4> QED
        BY <4>1 DEF Guarded, Recent
    <3>3. Queued(o) /\ \A q \in Range(CLAUSES[c]) \ {o} : True(-q)
      BY <1>1, <3>1 DEF Due
    <3>4. Queued(o)'
      BY <1>1, <3>2, <3>3 DEF Queued
    <3>5. \A q \in Range(CLAUSES[c]) \ {o} : True(-q)'
      BY <1>3, <1>4, <1>5, <3>3
    <3> QED
      BY <1>1, <1>6, <3>1, <3>4, <3>5 DEF Due
  <2>2. CASE ~True(-m)
    <3>1. m = -l
      BY <1>4, <1>5, <2>2
    <3> QED
      BY <1>1, <1>6, <1>7, <1>10, <1>11, <3>1 DEF Due
  <2> QED
    BY <2>1, <2>2
<1>12. Watched'
  <2> SUFFICES ASSUME NEW c \in DOMAIN CLAUSES, Len(CLAUSES[c]) >= 2
               PROVE  /\ Watch(c, watching[c][1], watching[c][2])'
                      /\ Watch(c, watching[c][2], watching[c][1])'
    BY <1>1 DEF Watched
  <2>1. PICK m, n : m = watching[c][1] /\ n = watching[c][2]
    OBVIOUS
  <2>2. m \in Literal /\ n \in Literal /\ m \in Range(watching[c]) /\ n \in Range(watching[c])
    <3>1. /\ Range(watching[c]) = {watching[c][1], watching[c][2]}
          /\ Range(watching[c]) \subseteq Literal
      BY <1>1, <1>2, WatchFacts DEF Loaded
    <3> QED
      BY <2>1, <3>1
  <2>3. Watch(c, m, n) /\ Watch(c, n, m)
    BY <1>2, <2>1 DEF Watched
  <2>4. Watch(c, m, n)' /\ Watch(c, n, m)'
    BY <1>11, <2>2, <2>3
  <2>5. m = watching'[c][1] /\ n = watching'[c][2]
    BY <1>1, <2>1
  <2> QED
    BY <2>4, <2>5
<1>13. UnitsHold'
  <2> SUFFICES ASSUME NEW u \in Literal, Unit(u)'
               PROVE  \/ NoOpen' /\ Queued(u)'
                      \/ True(u)' /\ \A k \in DOMAIN DECISION_STACK' :
                                       Open(k)' => Below(VarOf(u), k)'
    BY DEF UnitsHold
  <2>1. CASE NoOpen /\ Queued(u)
    <3>1. CASE u = l
      BY <1>5, <1>6, <2>1, <3>1 DEF NoOpen
    <3>2. CASE u # l
      BY <1>1, <1>6, <2>1, <3>2 DEF Queued
    <3> QED
      BY <3>1, <3>2
  <2>2. CASE True(u) /\ \A k \in DOMAIN DECISION_STACK : Open(k) => Below(VarOf(u), k)
    BY <1>5, <1>6, <2>2
  <2> QED
    BY <1>1, <1>2, <1>6, <2>1, <2>2 DEF UnitsHold
<1>14. QueueHolds'
  <2> SUFFICES ASSUME NEW q \in Range(BCP_LIST')
               PROVE  /\ ~True(q)'
                      /\ Because(q)' \/ (Unit(q) /\ NoOpen)'
                      /\ True(-q)' => \/ (Unit(q) /\ NoOpen /\ Because(-q))'
                                      \/ Pending'
    BY <1>1 DEF QueueHolds
  <2>1. q \in Literal /\ q # l /\ ~True(q) /\ (Because(q) \/ (Unit(q) /\ NoOpen))
        /\ (True(-q) => Unit(q) /\ NoOpen /\ Because(-q))
    BY <1>1
  <2>2. ~True(q)' /\ (Because(q)' \/ (Unit(q) /\ NoOpen)')
    BY <1>5, <1>6, <1>9, <2>1
  <2>3. CASE True(-q)
    BY <1>6, <1>9, <2>1, <2>2, <2>3
  <2>4. CASE q = -l
    <3>1. CASE Because(q)
      <4>1. PICK c \in DOMAIN CLAUSES : Forces(c, q)
        BY <3>1 DEF Because
      <4>2. AllFalse(c)'
        <5> SUFFICES ASSUME NEW m \in Range(CLAUSES[c]) PROVE True(-m)'
          BY <1>1 DEF AllFalse
        <5> QED
          BY <1>3, <1>4, <1>5, <2>4, <4>1 DEF Forces
      <4>3. \E x \in w' .. Len(Walked') : Walked'[x] = c
        BY <1>10, <2>4, <4>1 DEF Forces
      <4>4. Pending'
        BY <4>2, <4>3 DEF Pending
      <4> QED
        BY <2>2, <4>4
    <3>2. CASE Unit(q) /\ NoOpen
      <4>1. ~Unit(l)
        <5>1. ~Unit(-q)
          BY <1>2, <1>4, <2>1, <3>2, UnitsAgree
        <5> QED
          BY <1>4, <2>4, <5>1
      <4>2. Because(l)' /\ l = -q
        BY <1>1, <1>4, <1>9, <2>4, <4>1
      <4> QED
        BY <1>6, <2>2, <3>2, <4>2
    <3> QED
      BY <2>1, <3>1, <3>2
  <2>5. CASE ~True(-q) /\ q # -l
    <3>1. -q # l /\ -q \in Literal
      BY <1>4, <2>1, <2>5
    <3>2. ~True(-q)'
      BY <1>5, <2>5, <3>1
    <3> QED
      BY <2>2, <3>2
  <2> QED
    BY <2>3, <2>4, <2>5
<1>15. Walking' /\ Loading' /\ TwiceHolds'
  BY <1>1, <1>5 DEF Walking, Loading, TwiceHolds
<1>16. Located'
  BY <1>1 DEF Located, IInv, Searching
<1> QED
  BY <1>5, <1>12, <1>13, <1>14, <1>15, <1>16 DEF Searching

\* bcp assigns a variable that has the other value already.
LEMMA Again ==
  ASSUME ASSIGNMENT \in Assignment, DECISION_STACK \in Seq(Decision),
         Consistent(ASSIGNMENT, DECISION_STACK),
         NEW l \in Literal, True(-l), ASSIGNMENT' = With(ASSIGNMENT, l),
         DECISION_STACK' = Pushed(DECISION_STACK, l, "IMPLIED")
  PROVE  /\ Twice' /\ Before' = ASSIGNMENT /\ Placed' = DECISION_STACK
         /\ (DECISION_STACK # <<>>)' /\ Last(DECISION_STACK)'.var = VarOf(l)
         /\ \A m \in Literal : True(m)' <=> m = l \/ (True(m) /\ m # -l)
         /\ NoOpen => NoOpen'
<1> DEFINE st == DECISION_STACK
           t == Pushed(st, l, "IMPLIED")
           d == [var |-> VarOf(l), type |-> "IMPLIED"]
           v == VarOf(l)
           a == ASSIGNMENT
<1>n. PICK n \in Nat : n = Len(st)
  BY LenProperties
<1>1. /\ v \in Var /\ d \in Decision /\ VarOf(-l) = v /\ Value(l) # Value(-l) /\ -l \in Literal
      /\ Value(l) \in {FALSE_, TRUE_} /\ Value(-l) \in {FALSE_, TRUE_}
      /\ TRUE_ # FALSE_ /\ UNASSIGNED \notin {FALSE_, TRUE_}
  BY Literals DEF Decision, Types, UNASSIGNED, FALSE_, TRUE_
<1>2. /\ t \in Seq(Decision) /\ Len(t) = n + 1 /\ DOMAIN t = 1 .. n + 1 /\ DOMAIN st = 1 .. n
      /\ \A j \in 1 .. n : t[j] = st[j]
      /\ t[n + 1] = d
  <2>1. /\ t \in Seq(Decision) /\ Len(t) = n + 1
        /\ (\A j \in 1 .. n : t[j] = st[j]) /\ t[n + 1] = d
    BY <1>1, <1>n, AppendProperties DEF Pushed
  <2> QED
    BY <1>n, <2>1, LenProperties
<1>3. DECISION_STACK' = t /\ a[v] = Value(-l)
  BY <1>1 DEF True, LitTrue
<1> HIDE DEF t
<1>4. Last(t) = d /\ t # <<>>
  BY <1>2 DEF Last
<1>5. Front(t) = st
  <2>1. /\ Front(t) \in Seq(Decision) /\ Len(Front(t)) = n
        /\ \A i \in 1 .. n : Front(t)[i] = st[i]
    BY <1>2, <1>4, Cut
  <2> QED
    BY <1>n, <2>1, SeqEqual
<1>6. Twice'
  <2>1. PICK j \in DOMAIN st : st[j].var = v
    BY <1>1, <1>3 DEF Consistent
  <2>2. j \in 1 .. (n + 1) - 1 /\ t[j].var = v
    BY <1>2, <2>1
  <2> QED
    BY <1>2, <1>3, <1>4, <2>2 DEF Twice
<1>7. Before' = a /\ Placed' = st
  <2> DEFINE x == IF With(a, l)[v] = TRUE_ THEN FALSE_ ELSE TRUE_
  <2>1. Before' = [With(a, l) EXCEPT ![v] = x] /\ Placed' = st
    <3>1. Last(DECISION_STACK').var = v /\ ASSIGNMENT' = With(a, l) /\ Front(DECISION_STACK') = st
      BY <1>3, <1>4, <1>5
    <3> QED
      BY <1>6, <3>1 DEF Before, Placed
  <2>2. /\ With(a, l) \in [Var -> {UNASSIGNED, FALSE_, TRUE_}] /\ With(a, l)[v] = Value(l)
        /\ \A u \in Var \ {v} : With(a, l)[u] = a[u]
    BY <1>1 DEF With, Assignment
  <2>3. x = Value(-l)
    BY <1>1, <2>2
  <2> HIDE DEF x
  <2>4. \A u \in Var : [With(a, l) EXCEPT ![v] = x][u] = a[u]
    BY <1>1, <1>3, <2>2, <2>3
  <2>5. a = [u \in Var |-> a[u]] /\ [With(a, l) EXCEPT ![v] = x] = [u \in Var |-> a[u]]
    BY <2>2, <2>4 DEF Assignment
  <2> QED
    BY <2>1, <2>5
<1>8. ASSUME NEW m \in Literal PROVE True(m)' <=> m = l \/ (True(m) /\ m # -l)
  <2>1. True(m)' <=> With(a, l)[VarOf(m)] = Value(m)
    BY DEF True, LitTrue
  <2>2. /\ With(a, l)[v] = Value(l) /\ \A u \in Var \ {v} : With(a, l)[u] = a[u]
    BY <1>1 DEF With, Assignment
  <2>3. VarOf(m) \in Var /\ (VarOf(m) = v => m = l \/ m = -l)
    BY Literals
  <2> QED
    BY <1>1, <2>1, <2>2, <2>3 DEF True, LitTrue
<1>9. NoOpen => NoOpen'
  <2> SUFFICES ASSUME NoOpen, NEW k \in 1 .. n + 1 PROVE ~OpenIn(t, k)
    BY <1>2, <1>3 DEF NoOpen, Open
  <2>1. CASE k = n + 1
    BY <1>2, <2>1 DEF OpenIn
  <2>2. CASE k \in 1 .. n
    BY <1>2, <2>2 DEF NoOpen, Open, OpenIn
  <2> QED
    BY <2>1, <2>2
<1> QED
  BY <1>3, <1>4, <1>6, <1>7, <1>8, <1>9

LEMMA BcpAgainSearch ==
  ASSUME IInv, bcp, BCP_LIST # <<>>, ASSIGNMENT[VarOf(Last(BCP_LIST))] # UNASSIGNED
  PROVE  Searching' /\ Before' = Before /\ Placed' = Placed
<1>0. PICK l : l = Last(BCP_LIST)
  OBVIOUS
<1>1. /\ pc = "bcp" /\ pc' = "walk" /\ caller' = "bcp" /\ lit' = l /\ w' = 1
      /\ ASSIGNMENT' = With(ASSIGNMENT, l)
      /\ DECISION_STACK' = Pushed(DECISION_STACK, l, "IMPLIED")
      /\ UNCHANGED <<CLAUSES, watching, LIT_TO_CLAUSES, answer>>
      /\ l \in Literal /\ -l \in Literal /\ ~True(l)
      /\ True(-l) => Unit(l) /\ NoOpen /\ Because(-l)
  BY <1>0, Dequeues
<1>2. /\ ~Twice /\ Consistent(ASSIGNMENT, DECISION_STACK)
      /\ ASSIGNMENT \in Assignment /\ DECISION_STACK \in Seq(Decision)
      /\ CLAUSES \in Inputs /\ TypeOK
  BY <1>1, MainFacts
<1>3. True(-l) /\ Unit(l) /\ NoOpen /\ Because(-l) /\ -(-l) = l
  <2>1. LitTrue(ASSIGNMENT, -l)
    BY <1>0, <1>1, <1>2, Assigned DEF True
  <2> QED
    BY <1>1, <2>1, Literals DEF True
<1>4. /\ Twice' /\ Before' = ASSIGNMENT /\ Placed' = DECISION_STACK
      /\ (DECISION_STACK # <<>>)' /\ Last(DECISION_STACK)'.var = VarOf(l)
      /\ \A m \in Literal : True(m)' <=> m = l \/ (True(m) /\ m # -l)
      /\ NoOpen'
  BY <1>1, <1>2, <1>3, Again
<1>5. Before' = Before /\ Placed' = Placed
  BY <1>2, <1>4 DEF Before, Placed
<1>6. Consistent(Before, Placed)'
  <2>1. Consistent(Before', Placed')
    BY <1>2, <1>4
  <2> QED
    BY <2>1
<1>7. Pending'
  <2>1. PICK c \in DOMAIN CLAUSES : Forces(c, -l)
    BY <1>3 DEF Because
  <2>2. Walked' = LIT_TO_CLAUSES[-l]
    BY <1>1 DEF Walked, clauses_watching
  <2>3. \E x \in w' .. Len(Walked') : Walked'[x] = c
    BY <1>1, <2>1, <2>2, OnList DEF Forces
  <2>4. AllFalse(c)'
    <3> SUFFICES ASSUME NEW m \in Range(CLAUSES[c]) PROVE True(-m)'
      BY <1>1 DEF AllFalse
    <3>1. m \in Literal /\ -m \in Literal /\ -(-m) = m
      BY <1>2, ClauseFacts, Literals
    <3>2. CASE m = -l
      BY <1>1, <1>3, <1>4, <3>2
    <3>3. CASE m # -l
      <4>1. True(-m) /\ m # l
        BY <1>3, <2>1, <3>3 DEF Forces
      <4>2. -m # -l
        BY <1>3, <3>1, <4>1
      <4> QED
        BY <1>4, <3>1, <4>1, <4>2
    <3> QED
      BY <3>2, <3>3
  <2> QED
    BY <2>3, <2>4 DEF Pending
<1>8. Unit(lit)'
  <2>1. Unit(l)'
    BY <1>1, <1>3 DEF Unit
  <2> QED
    BY <1>1, <2>1 DEF Unit
<1>9. Walking'
  <2>1. True(lit)'
    <3>1. True(l)'
      BY <1>1, <1>4
    <3> QED
      BY <1>1, <3>1 DEF True
  <2> QED
    BY <1>1, <1>4, <2>1 DEF Walking
<1>10. TwiceHolds' /\ Loading'
  BY <1>1, <1>4, <1>7, <1>8 DEF TwiceHolds, Loading
<1>11. Located'
  BY <1>1 DEF Located, IInv, Searching
<1> QED
  BY <1>4, <1>5, <1>6, <1>9, <1>10, <1>11 DEF Searching

-----------------------------------------------------------------------------
(* Decisions and their flips *)

LEMMA Nothing == Range(<<>>) = {}
BY DEF Range

\* A decision makes the lowest unassigned variable FALSE.
LEMMA Decides ==
  ASSUME IInv, decide
  PROVE  /\ pc = "decide" /\ BCP_LIST = <<>> /\ answer = "none"
         /\ UNCHANGED <<CLAUSES, watching, LIT_TO_CLAUSES, BCP_LIST>>
         /\ \/ /\ \A v \in Var : ASSIGNMENT[v] # UNASSIGNED
               /\ answer' = "SAT" /\ pc' = "done"
               /\ UNCHANGED <<ASSIGNMENT, DECISION_STACK, caller, lit, w>>
            \/ \E v \in Var :
                 /\ ASSIGNMENT[v] = UNASSIGNED
                 /\ ASSIGNMENT' = With(ASSIGNMENT, -v)
                 /\ DECISION_STACK' = Pushed(DECISION_STACK, -v, "TRIED_ONE_WAY")
                 /\ pc' = "walk" /\ caller' = "decide" /\ lit' = -v /\ w' = 1
                 /\ UNCHANGED answer
<1>1. /\ pc = "decide" /\ UNCHANGED <<CLAUSES, watching, LIT_TO_CLAUSES, BCP_LIST>>
  BY DEF decide
<1>2. BCP_LIST = <<>> /\ answer = "none"
  BY <1>1 DEF IInv, Searching, Located
<1>3. CASE {v \in Var : ASSIGNMENT[v] = UNASSIGNED} = {}
  BY <1>1, <1>2, <1>3 DEF decide
<1>4. CASE {v \in Var : ASSIGNMENT[v] = UNASSIGNED} # {}
  <2>1. PICK v \in {v \in Var : ASSIGNMENT[v] = UNASSIGNED} :
          /\ set_literal(ASSIGNMENT, DECISION_STACK, -v, "TRIED_ONE_WAY", "decide")
          /\ UNCHANGED answer
    BY <1>4 DEF decide
  <2>2. /\ v \in Var /\ ASSIGNMENT[v] = UNASSIGNED /\ -v \in Literal
        /\ ASSIGNMENT \in Assignment /\ DECISION_STACK \in Seq(Decision)
        /\ "TRIED_ONE_WAY" \in Types /\ "decide" \in Callers
    BY <1>1, <2>1, MainFacts, Literals DEF Types, Callers
  <2>3. /\ ASSIGNMENT' = With(ASSIGNMENT, -v)
        /\ DECISION_STACK' = Pushed(DECISION_STACK, -v, "TRIED_ONE_WAY")
        /\ pc' = "walk" /\ caller' = "decide" /\ lit' = -v /\ w' = 1
    BY <2>1, <2>2, SetTypes
  <2> QED
    BY <1>1, <1>2, <2>1, <2>2, <2>3
<1> QED
  BY <1>3, <1>4

LEMMA DecideSearch == ASSUME IInv, decide PROVE Searching'
<1>1. /\ pc = "decide" /\ BCP_LIST = <<>> /\ BCP_LIST' = <<>> /\ answer = "none"
      /\ UNCHANGED <<CLAUSES, watching, LIT_TO_CLAUSES>>
  BY Decides
<1>2. /\ ~Twice /\ Consistent(ASSIGNMENT, DECISION_STACK)
      /\ ASSIGNMENT \in Assignment /\ DECISION_STACK \in Seq(Decision)
      /\ Wired /\ CLAUSES \in Inputs /\ TypeOK
  BY <1>1, MainFacts
<1>3. CASE /\ answer' = "SAT" /\ pc' = "done"
           /\ UNCHANGED <<ASSIGNMENT, DECISION_STACK, caller, lit, w>>
  <2>1. Consistent(Before, Placed)' /\ ~Twice'
    <3>1. Consistent(Before, Placed)
      BY DEF IInv, Searching
    <3> QED
      BY <1>1, <1>2, <1>3, <3>1, Steady
  <2> QED
    BY <1>3, <2>1 DEF Searching, Loading, Located, Walking, TwiceHolds
<1>4. ASSUME NEW v \in Var, ASSIGNMENT[v] = UNASSIGNED,
             ASSIGNMENT' = With(ASSIGNMENT, -v),
             DECISION_STACK' = Pushed(DECISION_STACK, -v, "TRIED_ONE_WAY"),
             pc' = "walk", caller' = "decide", lit' = -v, w' = 1, UNCHANGED answer
      PROVE  Searching'
  <2>0. PICK n \in Nat : n = Len(DECISION_STACK)
    BY <1>2, LenProperties
  <2>1. PICK l \in Literal : l = -v /\ -l = v
    BY Literals
  <2>2. /\ -l \in Literal /\ VarOf(l) = v /\ Value(l) = FALSE_ /\ VarOf(-l) = v
        /\ \A m \in Literal : -m \in Literal /\ -(-m) = m /\ VarOf(-m) = VarOf(m)
    BY <2>1, Literals
  <2>3. /\ ~Twice' /\ Consistent(Before, Placed)'
        /\ (DECISION_STACK # <<>>)' /\ Last(DECISION_STACK)'.var = VarOf(l) /\ True(l)'
        /\ \A m \in Literal : True(m)' <=> m = l \/ True(m)
        /\ \A k : Open(k)' <=> Open(k) \/ k = n + 1
        /\ \A x, k : k \in 1 .. n + 1 => (Below(x, k)' <=> BelowIn(DECISION_STACK, x, k))
    <3>1. "TRIED_ONE_WAY" \in Types
      BY DEF Types
    <3> QED
      BY <1>2, <1>4, <2>0, <2>1, <2>2, <3>1, Assigns DEF True, Open
  <2>4. /\ \A k : Open(k) => k \in DOMAIN DECISION_STACK /\ k \in 1 .. n + 1
        /\ n + 1 \in 1 .. n + 1
    BY <1>2, <2>0, LenProperties DEF Open, OpenIn
  <2>5. \A m \in Literal : True(m) => Below(VarOf(m), n + 1)'
    BY <1>2, <2>0, <2>3, <2>4, Assigned DEF True
  <2>6. /\ Recent(-l)'
        /\ \A m \in Literal, o \in Literal : Guarded(m, o) => Guarded(m, o)'
    <3>1. ~BelowIn(DECISION_STACK, VarOf(l), n + 1)
      BY <1>2, <1>4, <2>0, <2>2, Assigned
    <3>2. \A k : Open(k) => ~Below(VarOf(l), k)
      BY <1>2, <1>4, <2>2, <2>4, Nowhere
    <3>3. Recent(-l)'
      <4> SUFFICES ASSUME NEW k, Open(k)' PROVE ~Below(VarOf(-l), k)'
        BY DEF Recent
      <4>1. CASE Open(k)
        BY <2>2, <2>3, <2>4, <3>2, <4>1 DEF Below
      <4>2. CASE k = n + 1
        BY <2>2, <2>3, <2>4, <3>1, <4>2
      <4> QED
        BY <2>3, <4>1, <4>2
    <3>4. ASSUME NEW m \in Literal, NEW o \in Literal, Guarded(m, o) PROVE Guarded(m, o)'
      <4>1. True(o)' /\ Below(VarOf(o), n + 1)'
        BY <2>3, <2>5, <3>4 DEF Guarded
      <4>2. ASSUME NEW k, Open(k)', Below(VarOf(m), k)' PROVE Below(VarOf(o), k)'
        <5>1. CASE Open(k)
          <6>1. Below(VarOf(m), k) /\ k \in DOMAIN DECISION_STACK
            BY <2>3, <2>4, <4>2, <5>1 DEF Below
          <6>2. Below(VarOf(o), k)
            BY <3>4, <5>1, <6>1 DEF Guarded
          <6> QED
            BY <2>3, <2>4, <5>1, <6>2 DEF Below
        <5>2. CASE k = n + 1
          BY <4>1, <5>2
        <5> QED
          BY <2>3, <4>2, <5>1, <5>2
      <4> QED
        BY <4>1, <4>2 DEF Guarded
    <3> QED
      BY <3>3, <3>4
  <2>7. ASSUME NEW c \in DOMAIN CLAUSES, Len(CLAUSES[c]) >= 2,
               NEW m \in Literal, NEW o \in Literal, m \in Range(watching[c]),
               True(-m) => Guarded(m, o)
        PROVE  Watch(c, m, o)'
    <3> SUFFICES ASSUME True(-m)', ~Guarded(m, o)' PROVE Recent(m)' /\ Due(c, m, o)'
      BY DEF Watch
    <3>1. m = -l
      BY <2>2, <2>3, <2>6, <2>7
    <3>2. Walked' = LIT_TO_CLAUSES[-l]
      BY <1>1, <1>4, <2>1 DEF Walked, clauses_watching
    <3>3. \E x \in w' .. Len(Walked') : Walked'[x] = c
      BY <1>1, <1>4, <2>7, <3>1, <3>2, OnList
    <3>4. pc' = "walk" /\ m = -lit'
      BY <1>4, <2>1, <3>1
    <3> QED
      BY <2>6, <3>1, <3>3, <3>4 DEF Due
  <2>8. Watched'
    <3> SUFFICES ASSUME NEW c \in DOMAIN CLAUSES, Len(CLAUSES[c]) >= 2
                 PROVE  /\ Watch(c, watching[c][1], watching[c][2])'
                        /\ Watch(c, watching[c][2], watching[c][1])'
      BY <1>1 DEF Watched
    <3>1. PICK m, o : m = watching[c][1] /\ o = watching[c][2]
      OBVIOUS
    <3>2. m \in Literal /\ o \in Literal /\ m \in Range(watching[c]) /\ o \in Range(watching[c])
      <4>1. /\ Range(watching[c]) = {watching[c][1], watching[c][2]}
            /\ Range(watching[c]) \subseteq Literal
        BY <1>1, <1>2, WatchFacts DEF Loaded
      <4> QED
        BY <3>1, <4>1
    <3>3. (True(-m) => Guarded(m, o)) /\ (True(-o) => Guarded(o, m))
      BY <1>1, <3>1, Dry
    <3>4. Watch(c, m, o)' /\ Watch(c, o, m)'
      BY <2>7, <3>2, <3>3
    <3>5. m = watching'[c][1] /\ o = watching'[c][2]
      BY <1>1, <3>1
    <3> QED
      BY <3>4, <3>5
  <2>9. UnitsHold'
    <3> SUFFICES ASSUME NEW u \in Literal, Unit(u)'
                 PROVE  True(u)' /\ \A k \in DOMAIN DECISION_STACK' :
                                      Open(k)' => Below(VarOf(u), k)'
      BY DEF UnitsHold
    <3>1. True(u) /\ \A k \in DOMAIN DECISION_STACK : Open(k) => Below(VarOf(u), k)
      <4>1. Unit(u)
        BY <1>1 DEF Unit
      <4> QED
        BY <1>1, <4>1, Dry
    <3>2. \A k : Open(k) => Below(VarOf(u), k)'
      BY <2>3, <2>4, <3>1 DEF Below
    <3> QED
      BY <2>3, <2>5, <3>1, <3>2
  <2>10. QueueHolds'
    BY <1>1, Nothing DEF QueueHolds
  <2>11. Walking'
    <3>1. True(lit)'
      <4>1. True(l)' /\ lit' = l
        BY <1>4, <2>1, <2>3
      <4> QED
        BY <4>1 DEF True
    <3>2. \A q \in Range(BCP_LIST)' : FALSE
      BY <1>1, Nothing
    <3>3. Last(DECISION_STACK)'.var = VarOf(lit)'
      BY <1>4, <2>1, <2>3
    <3> QED
      BY <2>3, <3>1, <3>2, <3>3 DEF Walking
  <2>12. Loading' /\ TwiceHolds'
    BY <1>4, <2>3 DEF Loading, TwiceHolds
  <2>13. Located'
    BY <1>1, <1>4 DEF Located, IInv, Searching
  <2> QED
    BY <2>3, <2>8, <2>9, <2>10, <2>11, <2>12, <2>13 DEF Searching
<1> QED
  BY <1>3, <1>4, Decides

\* With no decision left to flip all assignments are taken back, also the
\* second one of a variable.
LEMMA GiveUpSearch == ASSUME IInv, resolveConflict, LastOpen = 0 PROVE Searching'
<1>1. /\ pc = "conflict" /\ DECISION_STACK' = <<>> /\ ASSIGNMENT' = Unset(1)
      /\ answer' = "UNSAT" /\ pc' = "done"
  BY ResolveCases DEF IInv, Wiring
<1>2. /\ ASSIGNMENT \in Assignment /\ DECISION_STACK \in Seq(Decision)
      /\ Consistent(Before, Placed)
  BY TypeParts DEF IInv, Wiring, Searching
<1>3. ASSUME NEW v \in Var, ASSIGNMENT[v] # UNASSIGNED
      PROVE  v \in VarsFrom(DECISION_STACK, 1)
  <2>1. \E j \in DOMAIN DECISION_STACK : DECISION_STACK[j].var = v
    <3>1. CASE ~Twice
      BY <1>2, <1>3, <3>1 DEF Before, Placed, Consistent
    <3>2. CASE Twice
      <4>1. Before[v] # UNASSIGNED
        <5>1. UNASSIGNED \notin {FALSE_, TRUE_}
          BY DEF UNASSIGNED, FALSE_, TRUE_
        <5> QED
          BY <1>2, <1>3, <3>2, <5>1 DEF Before, Assignment
      <4>2. PICK j \in DOMAIN Placed : Placed[j].var = v
        BY <1>2, <4>1 DEF Consistent
      <4>3. Placed = Front(DECISION_STACK) /\ DECISION_STACK # <<>>
        BY <3>2 DEF Placed, Twice
      <4>4. j \in DOMAIN DECISION_STACK /\ DECISION_STACK[j] = Placed[j]
        <5>1. /\ Len(Placed) = Len(DECISION_STACK) - 1 /\ Placed \in Seq(Decision)
              /\ \A i \in 1 .. Len(DECISION_STACK) - 1 : Placed[i] = DECISION_STACK[i]
          BY <1>2, <4>3, Cut
        <5>2. /\ DOMAIN Placed = 1 .. Len(DECISION_STACK) - 1
              /\ DOMAIN DECISION_STACK = 1 .. Len(DECISION_STACK) /\ Len(DECISION_STACK) \in Nat
          BY <1>2, <5>1, LenProperties
        <5> QED
          BY <4>2, <5>1, <5>2
      <4> QED
        BY <4>2, <4>4
    <3> QED
      BY <3>1, <3>2
  <2> QED
    BY <1>2, <2>1, LenProperties DEF VarsFrom
<1>4. \A v \in Var : ASSIGNMENT'[v] = UNASSIGNED
  BY <1>1, <1>3, UnsetIs DEF Without
<1>5. ~Twice'
  BY <1>1 DEF Twice
<1>6. Consistent(Before, Placed)'
  <2>1. DOMAIN <<>> = {}
    OBVIOUS
  <2>2. Consistent(ASSIGNMENT', <<>>)
    BY <1>4, <2>1 DEF Consistent
  <2>3. Before' = ASSIGNMENT' /\ Placed' = <<>>
    BY <1>1, <1>5 DEF Before, Placed
  <2>4. Consistent(Before', Placed')
    BY <2>2, <2>3
  <2> QED
    BY <2>4 DEF Consistent
<1> QED
  BY <1>1, <1>5, <1>6 DEF Searching, Loading, Located, Walking, TwiceHolds

\* Of the assignments those below the flipped decision stay.
LEMMA Flips ==
  ASSUME IInv, resolveConflict, LastOpen # 0, NEW k, k = LastOpen,
         NEW v, v = DECISION_STACK[k].var
  PROVE  /\ pc = "conflict" /\ ~Twice /\ BCP_LIST' = <<>> /\ answer = "none"
         /\ UNCHANGED <<CLAUSES, watching, LIT_TO_CLAUSES, answer>>
         /\ pc' = "walk" /\ caller' = "resolveConflict" /\ w' = 1
         /\ Open(k) /\ k \in DOMAIN DECISION_STACK /\ k \in Nat
         /\ \A j : Open(j) => j <= k /\ j \in Nat
         /\ v \in Var /\ v \in Literal /\ VarOf(v) = v /\ lit' = v
         /\ \A j : Open(j) => ~Below(v, j)
         /\ ~Twice' /\ Consistent(Before, Placed)'
         /\ (DECISION_STACK # <<>>)' /\ Last(DECISION_STACK)'.var = v /\ True(v)'
         /\ \A m \in Literal : True(m)' <=> m = v \/ (True(m) /\ Below(VarOf(m), k))
         /\ \A j : Open(j)' <=> Open(j) /\ j # k
         /\ \A x, j : Open(j) /\ j # k => (Below(x, j)' <=> Below(x, j))
         /\ Trail(Before, Placed)' =
              Append(SubSeq(Trail(ASSIGNMENT, DECISION_STACK), 1, k - 1),
                     [lit |-> v, kind |-> "TRIED_BOTH_WAYS"])
<1>1. /\ pc = "conflict" /\ BCP_LIST' = <<>>
      /\ UNCHANGED <<CLAUSES, watching, LIT_TO_CLAUSES, answer>>
      /\ set_literal(Unset(k), SubSeq(DECISION_STACK, 1, k - 1),
                     Flipped(k), "TRIED_BOTH_WAYS", "resolveConflict")
      /\ TypeOK /\ answer = "none"
  BY ResolveCases DEF IInv, Wiring, Searching, Located
<1>2. ASSIGNMENT \in Assignment /\ DECISION_STACK \in Seq(Decision)
  BY <1>1, TypeParts
<1>n. PICK n \in Nat : n = Len(DECISION_STACK)
  BY <1>2, LenProperties
<1>3. /\ k \in 1 .. n /\ k \in DOMAIN DECISION_STACK /\ DOMAIN DECISION_STACK = 1 .. n
      /\ Open(k) /\ \A j : Open(j) => j <= k /\ j \in 1 .. n
  <2>1. DOMAIN DECISION_STACK = 1 .. n
    BY <1>2, <1>n, LenProperties
  <2>2. k \in 1 .. n /\ Open(k) /\ \A j : Open(j) => j <= k
    BY <1>2, <1>n, LastOpenIs
  <2> QED
    BY <2>1, <2>2 DEF Open, OpenIn
<1>4. ~Twice /\ Consistent(ASSIGNMENT, DECISION_STACK)
  <2>1. ~Twice
    BY <1>3 DEF IInv, Searching, TwiceHolds, NoOpen
  <2> QED
    BY <2>1 DEF IInv, Searching, Before, Placed
<1>6. v \in Var /\ ASSIGNMENT[v] = FALSE_ /\ Flipped(k) = v /\ v \in Literal /\ VarOf(v) = v
  <2>1. v \in Var /\ ASSIGNMENT[v] = FALSE_
    <3>1. DECISION_STACK[k] \in Decision
      BY <1>2, <1>3, <1>n, TrailType
    <3> QED
      BY <1>3, <1>4, <3>1 DEF Decision, Consistent, Open, OpenIn
  <2> QED
    BY <2>1, Literals DEF Flipped
<1>7. PICK a, st : a = Without(ASSIGNMENT, VarsFrom(DECISION_STACK, k))
                   /\ st = SubSeq(DECISION_STACK, 1, k - 1)
  OBVIOUS
<1>8. /\ a \in Assignment /\ st \in Seq(Decision) /\ Consistent(a, st)
      /\ Trail(a, st) = SubSeq(Trail(ASSIGNMENT, DECISION_STACK), 1, k - 1)
      /\ a[v] = UNASSIGNED
  <2>1. k \in 1 .. Len(DECISION_STACK) + 1 /\ k <= Len(DECISION_STACK)
    BY <1>3, <1>n
  <2> QED
    BY <1>2, <1>4, <1>7, <2>1, Pop, WithoutType
<1>9. Len(st) = k - 1 /\ DOMAIN st = 1 .. k - 1 /\ \A j \in 1 .. k - 1 : st[j] = DECISION_STACK[j]
  <2>1. \A j \in 1 .. k - 1 : DECISION_STACK[j] \in Decision
    BY <1>2, <1>3, <1>n, TrailType
  <2>2. /\ Len(st) = IF 1 <= k - 1 THEN k - 1 - 1 + 1 ELSE 0
        /\ \A j \in 1 .. k - 1 - 1 + 1 : st[j] = DECISION_STACK[1 + j - 1]
    BY <1>3, <1>7, <2>1, SubSeqProperties
  <2>3. Len(st) = k - 1 /\ \A j \in 1 .. k - 1 : st[j] = DECISION_STACK[j]
    BY <1>3, <2>2
  <2> QED
    BY <1>8, <2>3, LenProperties
<1>10. /\ pc' = "walk" /\ caller' = "resolveConflict" /\ lit' = v /\ w' = 1
       /\ ASSIGNMENT' = With(a, v) /\ DECISION_STACK' = Pushed(st, v, "TRIED_BOTH_WAYS")
       /\ "TRIED_BOTH_WAYS" \in Types
  <2>1. "TRIED_BOTH_WAYS" \in Types /\ "resolveConflict" \in Callers
    BY DEF Types, Callers
  <2>2. set_literal(a, st, v, "TRIED_BOTH_WAYS", "resolveConflict")
    BY <1>1, <1>6, <1>7, UnsetIs
  <2> QED
    BY <1>6, <1>8, <2>1, <2>2, SetTypes
<1>11. /\ ~Twice' /\ Consistent(Before, Placed)'
       /\ (DECISION_STACK # <<>>)' /\ Last(DECISION_STACK)'.var = v /\ True(v)'
       /\ \A m \in Literal : True(m)' <=> m = v \/ LitTrue(a, m)
       /\ \A j : Open(j)' <=> OpenIn(st, j)
       /\ \A x, j : j \in 1 .. k => (Below(x, j)' <=> BelowIn(st, x, j))
       /\ Trail(Before, Placed)' = Append(Trail(a, st), [lit |-> v, kind |-> "TRIED_BOTH_WAYS"])
  <2>1. "TRIED_BOTH_WAYS" # "TRIED_ONE_WAY" /\ Len(st) + 1 = k
    BY <1>3, <1>9
  <2> QED
    BY <1>6, <1>8, <1>10, <2>1, Assigns
<1>12. \A j : OpenIn(st, j) <=> Open(j) /\ j # k
  <2>1. \A j : j \in 1 .. k - 1 <=> j \in 1 .. n /\ j <= k /\ j # k
    BY <1>3
  <2> QED
    BY <1>3, <1>9, <2>1 DEF Open, OpenIn
<1>13. \A x, j : j \in 1 .. k => (BelowIn(st, x, j) <=> Below(x, j))
  <2>1. \A j \in 1 .. k : \A i \in 1 .. j - 1 : i \in 1 .. k - 1
    BY <1>3
  <2> QED
    BY <1>9, <2>1 DEF Below, BelowIn
<1>14. ASSUME NEW m \in Literal PROVE LitTrue(a, m) <=> True(m) /\ Below(VarOf(m), k)
  <2>1. /\ VarOf(m) \in Var /\ Value(m) \in {FALSE_, TRUE_} /\ UNASSIGNED \notin {FALSE_, TRUE_}
    BY Literals DEF UNASSIGNED, FALSE_, TRUE_
  <2>2. a[VarOf(m)] # UNASSIGNED <=> Below(VarOf(m), k)
    <3>1. a[VarOf(m)] # UNASSIGNED <=> BelowIn(st, VarOf(m), Len(st) + 1)
      BY <1>8, Assigned
    <3>2. Len(st) + 1 = k /\ k \in 1 .. k
      BY <1>3, <1>9
    <3> QED
      BY <1>13, <3>1, <3>2
  <2>3. a[VarOf(m)] # UNASSIGNED => a[VarOf(m)] = ASSIGNMENT[VarOf(m)]
    BY <1>7, <2>1 DEF Without
  <2> QED
    BY <2>1, <2>2, <2>3 DEF LitTrue, True
<1>15. ASSUME NEW j, Open(j), Below(v, j) PROVE FALSE
  <2>1. PICK i \in 1 .. j - 1 : DECISION_STACK[i].var = v
    BY <1>15 DEF Below, BelowIn
  <2>2. i \in 1 .. n /\ i # k
    BY <1>3, <1>15
  <2> QED
    BY <1>3, <1>4, <2>1, <2>2 DEF Consistent
<1>16. \A j : Open(j) => j \in 1 .. k
  BY <1>3
<1>17. /\ \A m \in Literal : True(m)' <=> m = v \/ (True(m) /\ Below(VarOf(m), k))
       /\ \A j : Open(j)' <=> Open(j) /\ j # k
       /\ \A x, j : Open(j) /\ j # k => (Below(x, j)' <=> Below(x, j))
  BY <1>11, <1>12, <1>13, <1>14, <1>16
<1> QED
  BY <1>1, <1>3, <1>4, <1>6, <1>8, <1>10, <1>11, <1>15, <1>17

LEMMA FlipSearch == ASSUME IInv, resolveConflict, LastOpen # 0 PROVE Searching'
<1>0. PICK k, v : k = LastOpen /\ v = DECISION_STACK[k].var
  OBVIOUS
<1>1. /\ pc = "conflict" /\ ~Twice /\ BCP_LIST' = <<>> /\ answer = "none"
      /\ UNCHANGED <<CLAUSES, watching, LIT_TO_CLAUSES, answer>>
      /\ pc' = "walk" /\ caller' = "resolveConflict" /\ w' = 1
      /\ Open(k) /\ k \in DOMAIN DECISION_STACK
      /\ v \in Var /\ v \in Literal /\ VarOf(v) = v /\ lit' = v
      /\ \A j : Open(j) => ~Below(v, j)
      /\ ~Twice' /\ Consistent(Before, Placed)'
      /\ (DECISION_STACK # <<>>)' /\ Last(DECISION_STACK)'.var = v /\ True(v)'
      /\ \A m \in Literal : True(m)' <=> m = v \/ (True(m) /\ Below(VarOf(m), k))
      /\ \A j : Open(j)' <=> Open(j) /\ j # k
      /\ \A x, j : Open(j) /\ j # k => (Below(x, j)' <=> Below(x, j))
  BY <1>0, Flips
<1>2. /\ CLAUSES \in Inputs /\ Wired /\ TypeOK /\ Watched /\ UnitsHold
      /\ \A m \in Literal : -m \in Literal /\ -(-m) = m /\ VarOf(-m) = VarOf(m)
  BY <1>1, Literals DEF IInv, Wiring, Searching
<1>3. \A j : Open(j) => j \in DOMAIN DECISION_STACK
  BY DEF Open, OpenIn
<1>4. ASSUME NEW c \in DOMAIN CLAUSES, Len(CLAUSES[c]) >= 2,
             NEW m \in Literal, NEW o \in Literal, m \in Range(watching[c]), Watch(c, m, o)
      PROVE  Watch(c, m, o)'
  <2> SUFFICES ASSUME True(-m)', ~Guarded(m, o)' PROVE Recent(m)' /\ Due(c, m, o)'
    BY DEF Watch
  <2>1. CASE -m = v
    <3>1. VarOf(m) = v /\ m = -v
      BY <1>1, <1>2, <2>1
    <3>2. Recent(m)'
      <4> SUFFICES ASSUME NEW j, Open(j)' PROVE ~Below(VarOf(m), j)'
        BY DEF Recent
      <4> QED
        BY <1>1, <3>1
    <3>3. Walked' = LIT_TO_CLAUSES[m]
      BY <1>1, <3>1 DEF Walked, clauses_watching
    <3>4. \E x \in w' .. Len(Walked') : Walked'[x] = c
      BY <1>1, <1>4, <3>3, OnList
    <3>5. pc' = "walk" /\ m = -lit'
      BY <1>1, <3>1
    <3> QED
      BY <3>2, <3>4, <3>5 DEF Due
  <2>2. CASE -m # v
    <3>1. True(-m) /\ Below(VarOf(m), k)
      BY <1>1, <1>2, <2>2
    <3>2. Guarded(m, o)
      BY <1>1, <1>4, <3>1 DEF Watch, Recent
    <3>3. True(o)'
      BY <1>1, <3>1, <3>2 DEF Guarded
    <3>4. ASSUME NEW j, Open(j)', Below(VarOf(m), j)' PROVE Below(VarOf(o), j)'
      BY <1>1, <1>3, <3>2, <3>4 DEF Guarded
    <3> QED
      BY <3>3, <3>4 DEF Guarded
  <2> QED
    BY <2>1, <2>2
<1>5. Watched'
  <2> SUFFICES ASSUME NEW c \in DOMAIN CLAUSES, Len(CLAUSES[c]) >= 2
               PROVE  /\ Watch(c, watching[c][1], watching[c][2])'
                      /\ Watch(c, watching[c][2], watching[c][1])'
    BY <1>1 DEF Watched
  <2>1. PICK m, o : m = watching[c][1] /\ o = watching[c][2]
    OBVIOUS
  <2>2. m \in Literal /\ o \in Literal /\ m \in Range(watching[c]) /\ o \in Range(watching[c])
    <3>1. /\ Range(watching[c]) = {watching[c][1], watching[c][2]}
          /\ Range(watching[c]) \subseteq Literal
      BY <1>1, <1>2, WatchFacts DEF Loaded
    <3> QED
      BY <2>1, <3>1
  <2>3. Watch(c, m, o) /\ Watch(c, o, m)
    BY <1>2, <2>1 DEF Watched
  <2>4. Watch(c, m, o)' /\ Watch(c, o, m)'
    BY <1>4, <2>2, <2>3
  <2>5. m = watching'[c][1] /\ o = watching'[c][2]
    BY <1>1, <2>1
  <2> QED
    BY <2>4, <2>5
<1>6. UnitsHold'
  <2> SUFFICES ASSUME NEW u \in Literal, Unit(u)'
               PROVE  True(u)' /\ \A j \in DOMAIN DECISION_STACK' :
                                    Open(j)' => Below(VarOf(u), j)'
    BY DEF UnitsHold
  <2>1. Unit(u)
    BY <1>1 DEF Unit
  <2>2. True(u) /\ \A j : Open(j) => Below(VarOf(u), j)
    BY <1>1, <1>2, <1>3, <2>1 DEF UnitsHold, NoOpen
  <2> QED
    BY <1>1, <2>2
<1>7. QueueHolds'
  BY <1>1, Nothing DEF QueueHolds
<1>8. Walking'
  <2>1. True(lit)'
    BY <1>1 DEF True
  <2>2. \A q \in Range(BCP_LIST)' : FALSE
    BY <1>1, Nothing
  <2>3. Last(DECISION_STACK)'.var = VarOf(lit)'
    BY <1>1
  <2> QED
    BY <1>1, <2>1, <2>2, <2>3 DEF Walking
<1>9. Loading' /\ TwiceHolds'
  BY <1>1 DEF Loading, TwiceHolds
<1>10. Located'
  BY <1>1 DEF Located, IInv, Searching
<1> QED
  BY <1>1, <1>5, <1>6, <1>7, <1>8, <1>9, <1>10 DEF Searching

LEMMA ResolveConflictSearch == ASSUME IInv, resolveConflict PROVE Searching'
BY GiveUpSearch, FlipSearch

-----------------------------------------------------------------------------
(* The inductive invariant *)

LEMMA Start == Init => IInv
<1> SUFFICES ASSUME Init PROVE Searching
  BY WiringStarts DEF IInv
<1>1. /\ DECISION_STACK = <<>> /\ BCP_LIST = <<>> /\ pc = "load" /\ w = 1 /\ answer = "none"
      /\ \A v \in Var : ASSIGNMENT[v] = UNASSIGNED
  BY DEF Init
<1>2. ~Twice
  BY <1>1 DEF Twice
<1>3. DOMAIN <<>> = {}
  OBVIOUS
<1>4. Consistent(Before, Placed)
  BY <1>1, <1>2, <1>3 DEF Before, Placed, Consistent
<1>5. Loading
  <2>1. Wiring /\ \A c \in DOMAIN CLAUSES : ~(c < 1)
    <3>1. Wiring
      BY WiringStarts
    <3>2. DOMAIN CLAUSES = 1 .. Len(CLAUSES) /\ Len(CLAUSES) \in Nat
      BY <3>1, LenProperties DEF Wiring, TypeOK
    <3> QED
      BY <3>1, <3>2
  <2> QED
    BY <1>1, <2>1, Nothing DEF Loading
<1> QED
  BY <1>1, <1>2, <1>4, <1>5 DEF Searching, Located, Walking, TwiceHolds

LEMMA Steps == ASSUME NoneOpposed PROVE IInv /\ [Next]_vars => IInv'
<1> SUFFICES ASSUME IInv, [Next]_vars PROVE IInv'
  OBVIOUS
<1>1. Wiring'
  BY WiringSteps DEF IInv
<1>2. ASSUME LoadClause PROVE Searching'
  BY <1>2, LoadClauseSearch
<1>3. ASSUME LoadDone PROVE Searching'
  BY <1>3, LoadDoneSearch
<1>4. ASSUME bcp PROVE Searching'
  BY <1>4, BcpDrySearch, BcpFirstSearch, BcpAgainSearch
<1>5. ASSUME decide PROVE Searching'
  BY <1>5, DecideSearch
<1>6. ASSUME resolveConflict PROVE Searching'
  BY <1>6, ResolveConflictSearch
<1>7. ASSUME MoveWatch PROVE Searching'
  BY <1>7, MoveWatchSearch
<1>8. ASSUME KeepWatch PROVE Searching'
  BY <1>8, KeepWatchSearch
<1>9. ASSUME ReturnConflict PROVE Searching'
  BY <1>9, ReturnConflictSearch
<1>10. ASSUME ReturnOk PROVE Searching'
  BY <1>10, ReturnOkSearch
<1>11. ASSUME UNCHANGED vars PROVE Searching'
  <2>1. UNCHANGED <<CLAUSES, watching, LIT_TO_CLAUSES, ASSIGNMENT, DECISION_STACK,
                    BCP_LIST, pc, caller, lit, w, answer>>
    BY <1>11 DEF vars
  <2>2. Consistent(Before, Placed)' <=> Consistent(Before, Placed)
    BY <2>1, Steady DEF Consistent
  <2>3. (Loading' <=> Loading) /\ (Located' <=> Located) /\ (Walking' <=> Walking)
        /\ (Pending' <=> Pending) /\ (Twice' <=> Twice)
    BY <2>1, Steady DEF Loading, Located, Walking, Pending, Unit, Queued, Walked,
                        clauses_watching, True, LitTrue
  <2>4. TwiceHolds' <=> TwiceHolds
    BY <2>1, <2>3, Steady DEF TwiceHolds, Unit
  <2>5. UnitsHold' <=> UnitsHold
    BY <2>1, Steady DEF UnitsHold, Queued
  <2>6. QueueHolds' <=> QueueHolds
    BY <2>1, <2>3, Steady DEF QueueHolds, Because, Forces
  <2>7. \A c, m, o : Watch(c, m, o)' <=> Watch(c, m, o)
    BY <2>1, Steady DEF Watch, Due, Queued, Walked, clauses_watching
  <2>8. Watched' <=> Watched
    BY <2>1, <2>7 DEF Watched
  <2> QED
    BY <2>1, <2>2, <2>3, <2>4, <2>5, <2>6, <2>8 DEF IInv, Searching
<1> QED
  BY <1>1, <1>2, <1>3, <1>4, <1>5, <1>6, <1>7, <1>8, <1>9, <1>10, <1>11 DEF Next, IInv

-----------------------------------------------------------------------------
(* What the abstract search sees *)

SearchStep == [Search!Next]_(Search!vars)

LEMMA BeforeTypes ==
  ASSUME IInv
  PROVE  /\ Before \in Assignment /\ Placed \in Seq(Decision) /\ Consistent(Before, Placed)
         /\ ~Twice => Before = ASSIGNMENT /\ Placed = DECISION_STACK
         /\ Twice => Before = [ASSIGNMENT EXCEPT ![Last(DECISION_STACK).var] =
                       IF ASSIGNMENT[Last(DECISION_STACK).var] = TRUE_ THEN FALSE_ ELSE TRUE_]
                     /\ DECISION_STACK # <<>> /\ Placed = Front(DECISION_STACK)
         /\ ASSIGNMENT \in Assignment /\ DECISION_STACK \in Seq(Decision)
         /\ CLAUSES \in Inputs /\ TypeOK
<1>1. /\ ASSIGNMENT \in Assignment /\ DECISION_STACK \in Seq(Decision)
      /\ CLAUSES \in Inputs /\ TypeOK
  BY TypeParts DEF IInv, Wiring
<1>2. Twice => Front(DECISION_STACK) \in Seq(Decision) /\ DECISION_STACK # <<>>
  <2>1. Twice => DECISION_STACK # <<>>
    BY DEF Twice
  <2> QED
    BY <1>1, <2>1, Cut
<1>3. Before \in Assignment
  <2>1. FALSE_ \in {UNASSIGNED, FALSE_, TRUE_} /\ TRUE_ \in {UNASSIGNED, FALSE_, TRUE_}
    OBVIOUS
  <2> QED
    BY <1>1, <2>1 DEF Before, Assignment
<1> QED
  BY <1>1, <1>2, <1>3 DEF Before, Placed, IInv, Searching

\* The trail of the refinement is that of the stack without the second
\* assignment of a variable.
TrailOK == trail = Trail(Before, Placed)

LEMMA TrailIs == IInv => TrailOK
<1> SUFFICES ASSUME IInv PROVE trail = Trail(Before, Placed)
  BY DEF TrailOK
<1>n. PICK n \in Nat : n = Len(DECISION_STACK)
  BY BeforeTypes, LenProperties
<1>1. \A j \in 1 .. n : DECISION_STACK[j].var \in Var
  BY <1>n, BeforeTypes, TrailType DEF Decision
<1>2. CASE ~Twice
  <2>1. /\ DOMAIN DECISION_STACK = 1 .. n /\ Before = ASSIGNMENT /\ Placed = DECISION_STACK
    BY <1>n, <1>2, BeforeTypes, LenProperties
  <2>2. trail = [i \in 1 .. n |-> [lit |-> LitOf(DECISION_STACK[i].var),
                                   kind |-> DECISION_STACK[i].type]]
    BY <1>n, <1>2 DEF trail
  <2> QED
    BY <1>2, <2>1, <2>2 DEF LitOf, Trail, LitAt
<1>3. CASE Twice
  <2>1. PICK u : u = Last(DECISION_STACK).var
    OBVIOUS
  <2>2. /\ DOMAIN Placed = 1 .. n - 1 /\ n >= 1
        /\ \A j \in 1 .. n - 1 : Placed[j] = DECISION_STACK[j]
    <3>1. /\ Placed \in Seq(Decision) /\ Len(Placed) = n - 1 /\ n \in Nat \ {0}
          /\ \A j \in 1 .. n - 1 : Placed[j] = DECISION_STACK[j]
      BY <1>n, <1>3, BeforeTypes, Cut
    <3> QED
      BY <3>1, LenProperties
  <2>3. trail = [i \in 1 .. n - 1 |-> [lit |-> LitOf(DECISION_STACK[i].var),
                                       kind |-> DECISION_STACK[i].type]]
    BY <1>n, <1>3 DEF trail
  <2>4. ASSUME NEW v \in Var
        PROVE  LitOf(v) = IF Before[v] = TRUE_ THEN v ELSE -v
    <3>1. /\ \A x \in Var \ {u} : Before[x] = ASSIGNMENT[x]
          /\ u \in Var => Before[u] = IF ASSIGNMENT[u] = TRUE_ THEN FALSE_ ELSE TRUE_
      BY <1>3, <2>1, BeforeTypes DEF Assignment
    <3>2. -(-v) = v /\ FALSE_ # TRUE_
      BY Literals DEF FALSE_, TRUE_
    <3>3. CASE v = u
      BY <1>3, <2>1, <3>1, <3>2, <3>3 DEF LitOf
    <3>4. CASE v # u
      BY <1>3, <2>1, <3>1, <3>4 DEF LitOf
    <3> QED
      BY <3>3, <3>4
  <2>5. \A i \in 1 .. n - 1 : [lit |-> LitOf(DECISION_STACK[i].var),
                               kind |-> DECISION_STACK[i].type] = LitAt(Before, Placed[i])
    <3> SUFFICES ASSUME NEW i \in 1 .. n - 1
                 PROVE  [lit |-> LitOf(DECISION_STACK[i].var),
                         kind |-> DECISION_STACK[i].type] = LitAt(Before, Placed[i])
      OBVIOUS
    <3>1. DECISION_STACK[i].var \in Var /\ Placed[i] = DECISION_STACK[i]
      BY <1>1, <2>2
    <3> QED
      BY <2>4, <3>1 DEF LitAt
  <2> QED
    BY <2>2, <2>3, <2>5 DEF Trail
<1> QED
  BY <1>2, <1>3

LEMMA SearchLiteral == Search!Literal = Literal
BY DEF Search!Literal, Literal

LEMMA TrueMeans ==
  ASSUME IInv, TrailOK, NEW l \in Literal
  PROVE  /\ l \in Search!True(trail) <=> LitTrue(Before, l)
         /\ ~Twice => (l \in Search!True(trail) <=> True(l))
<1>1. l \in Lits(Trail(Before, Placed)) <=> LitTrue(Before, l)
  BY BeforeTypes, TrailTrue
<1>2. l \in Search!True(trail) <=> LitTrue(Before, l)
  BY <1>1 DEF TrailOK, Search!True, Lits
<1> QED
  BY <1>2, BeforeTypes DEF True

LEMMA AssignedMeans ==
  ASSUME IInv, TrailOK, ~Twice, NEW l \in Literal
  PROVE  Search!Assigned(l) <=> ASSIGNMENT[VarOf(l)] # UNASSIGNED
<1>1. Search!Assigned(l) <=> LitTrue(ASSIGNMENT, l) \/ LitTrue(ASSIGNMENT, -l)
  BY TrueMeans, Literals DEF Search!Assigned, True
<1>2. ASSIGNMENT[VarOf(l)] # UNASSIGNED <=> LitTrue(ASSIGNMENT, l) \/ LitTrue(ASSIGNMENT, -l)
  BY BeforeTypes, Assigned
<1> QED
  BY <1>1, <1>2

\* What the solver takes for a conflict is one.
LEMMA ConflictMeans == ASSUME IInv, TrailOK, pc = "conflict" PROVE Search!Conflict
<1>1. CASE ~Twice
  <2>1. PICK c \in DOMAIN CLAUSES : AllFalse(c)
    BY <1>1 DEF IInv, Searching, Located
  <2>2. \A m \in Range(CLAUSES[c]) : -m \in Search!True(trail)
    <3> SUFFICES ASSUME NEW m \in Range(CLAUSES[c]) PROVE -m \in Search!True(trail)
      OBVIOUS
    <3>1. -m \in Literal
      BY BeforeTypes, ClauseFacts, Literals
    <3> QED
      BY <1>1, <2>1, <3>1, TrueMeans DEF AllFalse
  <2> QED
    BY <2>2 DEF Search!Conflict, formula
<1>2. CASE Twice
  <2>1. /\ Unit(lit) /\ Last(DECISION_STACK).var = VarOf(lit) /\ True(lit)
        /\ lit \in Literal
    BY <1>2 DEF IInv, Searching, TwiceHolds, Walking, Wiring, TypeOK
  <2>2. -lit \in Literal /\ LitTrue(Before, -lit)
    <3>1. /\ VarOf(lit) \in Var /\ VarOf(-lit) = VarOf(lit) /\ Value(-lit) # Value(lit)
          /\ Value(lit) \in {FALSE_, TRUE_} /\ Value(-lit) \in {FALSE_, TRUE_}
          /\ -lit \in Literal /\ FALSE_ # TRUE_
      BY <2>1, Literals DEF FALSE_, TRUE_
    <3>2. Before[VarOf(lit)] = IF ASSIGNMENT[VarOf(lit)] = TRUE_ THEN FALSE_ ELSE TRUE_
      BY <1>2, <2>1, <3>1, BeforeTypes DEF Assignment
    <3> QED
      BY <2>1, <3>1, <3>2 DEF True, LitTrue
  <2>3. PICK c \in DOMAIN CLAUSES : Len(CLAUSES[c]) = 1 /\ CLAUSES[c][1] = lit
    BY <2>1 DEF Unit
  <2>4. \A m \in Range(CLAUSES[c]) : m = lit
    <3>1. DOMAIN CLAUSES[c] = 1 .. 1
      BY <2>3, BeforeTypes, ClauseFacts
    <3>2. \A x \in 1 .. 1 : x = 1
      OBVIOUS
    <3> QED
      BY <2>3, <3>1, <3>2 DEF Range
  <2>5. -lit \in Search!True(trail)
    BY <2>2, TrueMeans
  <2> QED
    BY <2>4, <2>5 DEF Search!Conflict, formula
<1> QED
  BY <1>1, <1>2

-----------------------------------------------------------------------------
(* Every step is a step of the search *)

LEMMA Quiet ==
  ASSUME UNCHANGED <<CLAUSES, answer>>, Before' = Before, Placed' = Placed, TrailOK, TrailOK'
  PROVE  SearchStep
<1>1. trail' = Trail(Before', Placed')
  BY DEF TrailOK, Trail, LitAt
<1>2. trail' = trail
  BY <1>1 DEF TrailOK
<1>3. formula' = formula
  BY DEF formula
<1> QED
  BY <1>2, <1>3 DEF SearchStep, Search!vars

\* Steps that assign nothing are none of the search.
LEMMA WalkStep ==
  ASSUME UNCHANGED <<CLAUSES, ASSIGNMENT, DECISION_STACK, answer>>, TrailOK, TrailOK'
  PROVE  SearchStep
BY Steady, Quiet

\* An empty clause is a conflict of the search.
LEMMA LoadClauseStep == ASSUME IInv, LoadClause, TrailOK, TrailOK' PROVE SearchStep
<1>1. /\ pc = "load" /\ w <= Len(CLAUSES) /\ answer = "none" /\ CLAUSES' = CLAUSES
      /\ UNCHANGED <<ASSIGNMENT, DECISION_STACK>>
  BY DEF LoadClause, IInv, Searching, Located
<1>2. CASE Len(CLAUSES[w]) = 0 /\ answer' = "UNSAT"
  <2>1. w \in DOMAIN CLAUSES
    <3>1. DOMAIN CLAUSES = 1 .. Len(CLAUSES) /\ w \in Nat /\ w >= 1
      BY BeforeTypes, LenProperties DEF TypeOK, IInv, Wiring
    <3> QED
      BY <1>1, <3>1
  <2>2. Range(CLAUSES[w]) \in formula /\ \A l \in Range(CLAUSES[w]) : FALSE
    <3>1. DOMAIN CLAUSES[w] = 1 .. 0
      BY <1>2, <2>1, BeforeTypes, ClauseFacts
    <3> QED
      BY <2>1, <3>1 DEF formula, Range
  <2>3. Search!Conflict
    BY <2>2 DEF Search!Conflict
  <2>4. Before' = Before /\ Placed' = Placed /\ Placed = <<>>
    BY <1>1, Steady, LoadFacts
  <2>5. trail = <<>> /\ trail' = <<>> /\ DOMAIN trail = {}
    <3>1. trail = Trail(Before, Placed) /\ trail' = Trail(Before', Placed')
      BY DEF TrailOK, Trail, LitAt
    <3>2. DOMAIN <<>> = {} /\ \A x : Trail(x, <<>>) = <<>>
      BY DEF Trail
    <3> QED
      BY <2>4, <3>1, <3>2
  <2>6. formula' = formula
    BY <1>1 DEF formula
  <2>7. Search!Fail
    BY <1>1, <1>2, <2>3, <2>5, <2>6 DEF Search!Fail
  <2> QED
    BY <2>7 DEF SearchStep, Search!Next
<1>3. CASE answer' = answer
  BY <1>1, <1>3, WalkStep
<1> QED
  BY <1>2, <1>3 DEF LoadClause

\* bcp propagates, unless the variable has its first value already.
LEMMA BcpStep == ASSUME IInv, bcp, TrailOK, TrailOK' PROVE SearchStep
<1>1. CASE BCP_LIST = <<>>
  <2>1. UNCHANGED <<CLAUSES, ASSIGNMENT, DECISION_STACK, answer>>
    BY <1>1 DEF bcp
  <2> QED
    BY <2>1, WalkStep
<1>2. CASE BCP_LIST # <<>> /\ ASSIGNMENT[VarOf(Last(BCP_LIST))] # UNASSIGNED
  <2>1. Before' = Before /\ Placed' = Placed
    BY <1>2, BcpAgainSearch
  <2>2. UNCHANGED <<CLAUSES, answer>>
    BY DEF bcp
  <2> QED
    BY <2>1, <2>2, Quiet
<1>3. CASE BCP_LIST # <<>> /\ ASSIGNMENT[VarOf(Last(BCP_LIST))] = UNASSIGNED
  <2>0. PICK l : l = Last(BCP_LIST)
    OBVIOUS
  <2>1. /\ pc = "bcp" /\ ASSIGNMENT' = With(ASSIGNMENT, l)
        /\ DECISION_STACK' = Pushed(DECISION_STACK, l, "IMPLIED")
        /\ UNCHANGED <<CLAUSES, answer>>
        /\ l \in Literal /\ -l \in Literal /\ (Because(l) \/ Unit(l))
    BY <1>3, <2>0, Dequeues
  <2>2. /\ ~Twice /\ Consistent(ASSIGNMENT, DECISION_STACK)
        /\ ASSIGNMENT \in Assignment /\ DECISION_STACK \in Seq(Decision)
        /\ Wired /\ CLAUSES \in Inputs /\ TypeOK
        /\ Before = ASSIGNMENT /\ Placed = DECISION_STACK /\ answer = "none"
    BY <2>1, MainFacts, BeforeTypes DEF IInv, Searching, Located
  <2>3. trail' = Append(trail, [lit |-> l, kind |-> "IMPLIED"])
    <3>1. "IMPLIED" \in Types /\ "IMPLIED" # "TRIED_ONE_WAY"
      BY DEF Types
    <3>2. Trail(Before, Placed)'
            = Append(Trail(ASSIGNMENT, DECISION_STACK), [lit |-> l, kind |-> "IMPLIED"])
      BY <1>3, <2>0, <2>1, <2>2, <3>1, Assigns
    <3> QED
      BY <2>2, <3>2 DEF TrailOK
  <2>4. ~Search!Assigned(l)
    BY <1>3, <2>0, <2>1, <2>2, AssignedMeans
  <2>5. \E c \in DOMAIN CLAUSES : l \in Range(CLAUSES[c])
                                  /\ \A m \in Range(CLAUSES[c]) \ {l} : True(-m)
    <3>1. CASE Because(l)
      <4>1. PICK c \in DOMAIN CLAUSES : Forces(c, l)
        BY <3>1 DEF Because
      <4>2. l \in Range(CLAUSES[c])
        BY <2>1, <2>2, <4>1, WatchFacts DEF Forces, Loaded
      <4> QED
        BY <4>1, <4>2 DEF Forces
    <3>2. CASE Unit(l)
      <4>1. PICK c \in DOMAIN CLAUSES : Len(CLAUSES[c]) = 1 /\ CLAUSES[c][1] = l
        BY <3>2 DEF Unit
      <4>2. DOMAIN CLAUSES[c] = 1 .. 1
        BY <2>2, <4>1, ClauseFacts
      <4>3. 1 \in 1 .. 1 /\ \A x \in 1 .. 1 : x = 1
        OBVIOUS
      <4>4. Range(CLAUSES[c]) = {l}
        BY <4>1, <4>2, <4>3 DEF Range
      <4> QED
        BY <4>4
    <3> QED
      BY <2>1, <3>1, <3>2
  <2>6. \E C \in formula : l \in C /\ \A m \in C \ {l} : -m \in Search!True(trail)
    <3>1. PICK c \in DOMAIN CLAUSES : l \in Range(CLAUSES[c])
                                      /\ \A m \in Range(CLAUSES[c]) \ {l} : True(-m)
      BY <2>5
    <3>2. \A m \in Range(CLAUSES[c]) : -m \in Literal
      BY <2>2, ClauseFacts, Literals
    <3>3. \A m \in Range(CLAUSES[c]) \ {l} : -m \in Search!True(trail)
      BY <2>2, <3>1, <3>2, TrueMeans
    <3> QED
      BY <3>1, <3>3 DEF formula
  <2>7. Search!Propagate(l)
    BY <2>1, <2>2, <2>3, <2>4, <2>6 DEF Search!Propagate, Search!Assign, formula
  <2> QED
    BY <2>1, <2>7, SearchLiteral DEF SearchStep, Search!Next
<1> QED
  BY <1>1, <1>2, <1>3

\* Once bcp has run dry no clause is falsified.
LEMMA NoConflict == ASSUME IInv, pc = "decide", NEW c \in DOMAIN CLAUSES PROVE ~AllFalse(c)
<1>1. /\ BCP_LIST = <<>> /\ Len(CLAUSES[c]) # 0 /\ TypeOK /\ CLAUSES \in Inputs /\ Wired
  BY BeforeTypes DEF IInv, Wiring, Searching, Located
<1>2. /\ Len(CLAUSES[c]) \in Nat /\ DOMAIN CLAUSES[c] = 1 .. Len(CLAUSES[c])
      /\ Range(CLAUSES[c]) \subseteq Literal
      /\ \A i \in 1 .. Len(CLAUSES[c]) : CLAUSES[c][i] \in Range(CLAUSES[c])
  BY <1>1, ClauseFacts
<1>3. CASE Len(CLAUSES[c]) = 1
  <2>1. CLAUSES[c][1] \in Range(CLAUSES[c]) /\ Unit(CLAUSES[c][1])
    BY <1>2, <1>3 DEF Unit
  <2>2. True(CLAUSES[c][1])
    BY <1>1, <1>2, <2>1, Dry
  <2> QED
    BY <1>2, <2>1, <2>2, NotBoth DEF AllFalse
<1>4. CASE Len(CLAUSES[c]) >= 2
  <2>1. PICK m, o : m = watching[c][1] /\ o = watching[c][2]
    OBVIOUS
  <2>2. m \in Range(CLAUSES[c]) /\ o \in Range(CLAUSES[c])
    BY <1>1, <1>4, <2>1, WatchFacts DEF Loaded
  <2>3. True(-m) => True(o)
    BY <1>1, <1>4, <2>1, Dry DEF Guarded
  <2> QED
    BY <1>2, <2>2, <2>3, NotBoth DEF AllFalse
<1> QED
  BY <1>1, <1>2, <1>3, <1>4

LEMMA DecideStep == ASSUME IInv, decide, TrailOK, TrailOK' PROVE SearchStep
<1>1. /\ pc = "decide" /\ answer = "none" /\ CLAUSES' = CLAUSES /\ formula' = formula
  BY Decides DEF formula
<1>2. /\ ~Twice /\ Consistent(ASSIGNMENT, DECISION_STACK)
      /\ ASSIGNMENT \in Assignment /\ DECISION_STACK \in Seq(Decision)
      /\ CLAUSES \in Inputs /\ TypeOK
      /\ Before = ASSIGNMENT /\ Placed = DECISION_STACK
  BY <1>1, MainFacts, BeforeTypes
<1>3. CASE /\ \A v \in Var : ASSIGNMENT[v] # UNASSIGNED
           /\ answer' = "SAT" /\ UNCHANGED <<ASSIGNMENT, DECISION_STACK>>
  <2>1. trail' = trail
    <3>1. Before' = Before /\ Placed' = Placed
      BY <1>1, <1>3, Steady
    <3>2. trail' = Trail(Before', Placed')
      BY DEF TrailOK, Trail, LitAt
    <3> QED
      BY <3>1, <3>2 DEF TrailOK
  <2>2. ~Search!Conflict
    <3> SUFFICES ASSUME NEW c \in DOMAIN CLAUSES,
                        \A m \in Range(CLAUSES[c]) : -m \in Search!True(trail)
                 PROVE  FALSE
      BY DEF Search!Conflict, formula
    <3>1. \A m \in Range(CLAUSES[c]) : -m \in Literal
      BY <1>2, ClauseFacts, Literals
    <3>2. AllFalse(c)
      BY <1>2, <3>1, TrueMeans DEF AllFalse
    <3> QED
      BY <1>1, <3>2, NoConflict
  <2>3. \A l \in Literal : Search!Assigned(l)
    BY <1>2, <1>3, AssignedMeans, Literals
  <2>4. Search!Succeed
    BY <1>1, <1>3, <2>1, <2>2, <2>3, SearchLiteral DEF Search!Succeed
  <2> QED
    BY <2>4 DEF SearchStep, Search!Next
<1>4. ASSUME NEW v \in Var, ASSIGNMENT[v] = UNASSIGNED,
             ASSIGNMENT' = With(ASSIGNMENT, -v),
             DECISION_STACK' = Pushed(DECISION_STACK, -v, "TRIED_ONE_WAY"), UNCHANGED answer
      PROVE  SearchStep
  <2>1. PICK l \in Literal : l = -v /\ VarOf(l) = v /\ Value(l) = FALSE_
    BY Literals
  <2>2. trail' = Append(trail, [lit |-> l, kind |-> "TRIED_ONE_WAY"])
    <3>1. "TRIED_ONE_WAY" \in Types
      BY DEF Types
    <3>2. Trail(Before, Placed)'
            = Append(Trail(ASSIGNMENT, DECISION_STACK), [lit |-> l, kind |-> "TRIED_ONE_WAY"])
      BY <1>2, <1>4, <2>1, <3>1, Assigns
    <3> QED
      BY <1>2, <3>2 DEF TrailOK
  <2>3. ~Search!Assigned(l)
    BY <1>2, <1>4, <2>1, AssignedMeans
  <2>4. Search!Decide(l)
    BY <1>1, <1>4, <2>2, <2>3 DEF Search!Decide, Search!Assign
  <2> QED
    BY <2>1, <2>4, SearchLiteral DEF SearchStep, Search!Next
<1> QED
  BY <1>3, <1>4, Decides

LEMMA ResolveConflictStep == ASSUME IInv, resolveConflict, TrailOK, TrailOK' PROVE SearchStep
<1>1. /\ pc = "conflict" /\ answer = "none" /\ CLAUSES' = CLAUSES /\ formula' = formula
      /\ TypeOK
  BY ResolveCases DEF IInv, Wiring, Searching, Located, formula
<1>2. Search!Conflict
  BY <1>1, ConflictMeans
<1>3. trail = Trail(Before, Placed) /\ Placed \in Seq(Decision)
  BY BeforeTypes DEF TrailOK
<1>4. /\ DOMAIN trail = DOMAIN Placed
      /\ \A j \in DOMAIN Placed : trail[j].kind = Placed[j].type
                                  /\ trail[j].lit = LitAt(Before, Placed[j]).lit
  <2>1. \A j \in DOMAIN Placed : trail[j] = LitAt(Before, Placed[j])
    BY <1>3 DEF Trail
  <2> QED
    BY <1>3, <2>1 DEF Trail, LitAt
<1>5. CASE LastOpen = 0
  <2>1. DECISION_STACK' = <<>> /\ answer' = "UNSAT" /\ NoOpen
    BY <1>1, <1>5, ResolveCases, BeforeTypes, LastOpenIs
  <2>2. trail' = <<>>
    <3>1. trail' = Trail(Before', Placed')
      BY DEF TrailOK, Trail, LitAt
    <3>2. Placed' = <<>>
      BY <2>1 DEF Placed, Twice
    <3>3. \A x : Trail(x, <<>>) = <<>>
      BY DEF Trail
    <3> QED
      BY <3>1, <3>2, <3>3
  <2>3. \A j \in DOMAIN Placed : Placed[j].type # "TRIED_ONE_WAY"
    <3>1. \A j \in DOMAIN Placed :
            j \in DOMAIN DECISION_STACK /\ Placed[j] = DECISION_STACK[j]
      <4>1. CASE ~Twice
        BY <4>1, BeforeTypes
      <4>2. CASE Twice
        <5>1. /\ Len(Placed) = Len(DECISION_STACK) - 1
              /\ \A i \in 1 .. Len(DECISION_STACK) - 1 : Placed[i] = DECISION_STACK[i]
          BY <4>2, BeforeTypes, Cut
        <5>2. /\ DOMAIN Placed = 1 .. Len(DECISION_STACK) - 1
              /\ DOMAIN DECISION_STACK = 1 .. Len(DECISION_STACK) /\ Len(DECISION_STACK) \in Nat
          BY <5>1, BeforeTypes, LenProperties
        <5> QED
          BY <5>1, <5>2
      <4> QED
        BY <4>1, <4>2
    <3> QED
      BY <2>1, <3>1 DEF NoOpen, Open, OpenIn
  <2>4. Search!Fail
    BY <1>1, <1>2, <1>4, <2>1, <2>2, <2>3 DEF Search!Fail
  <2> QED
    BY <2>4 DEF SearchStep, Search!Next
<1>6. CASE LastOpen # 0
  <2>0. PICK k, v : k = LastOpen /\ v = DECISION_STACK[k].var
    OBVIOUS
  <2>1. /\ ~Twice /\ UNCHANGED answer
        /\ Open(k) /\ k \in DOMAIN DECISION_STACK
        /\ \A j : Open(j) => j <= k /\ j \in Nat
        /\ v \in Var /\ v \in Literal /\ k \in Nat
        /\ Trail(Before, Placed)' =
             Append(SubSeq(Trail(ASSIGNMENT, DECISION_STACK), 1, k - 1),
                    [lit |-> v, kind |-> "TRIED_BOTH_WAYS"])
    BY <1>6, <2>0, Flips
  <2>2. Before = ASSIGNMENT /\ Placed = DECISION_STACK /\ Consistent(ASSIGNMENT, DECISION_STACK)
    BY <2>1, BeforeTypes
  <2>3. trail' = Append(SubSeq(trail, 1, k - 1), [lit |-> v, kind |-> "TRIED_BOTH_WAYS"])
    BY <1>3, <2>1, <2>2 DEF TrailOK
  <2>4. -trail[k].lit = v
    <3>1. ASSIGNMENT[v] = FALSE_
      BY <2>0, <2>1, <2>2 DEF Consistent, Open, OpenIn
    <3>2. trail[k].lit = -v
      <4>1. \A a, d : LitAt(a, d).lit = IF a[d.var] = TRUE_ THEN d.var ELSE -d.var
        BY DEF LitAt
      <4>2. trail[k].lit = LitAt(ASSIGNMENT, DECISION_STACK[k]).lit
        BY <1>4, <2>1, <2>2
      <4>3. FALSE_ # TRUE_
        BY DEF FALSE_, TRUE_
      <4> QED
        BY <2>0, <3>1, <4>1, <4>2, <4>3
    <3> QED
      BY <2>1, <3>2, Literals
  <2>5. Search!LastOpen(k)
    <3>1. DOMAIN DECISION_STACK = 1 .. Len(DECISION_STACK) /\ Len(DECISION_STACK) \in Nat
      BY BeforeTypes, LenProperties
    <3>2. \A j \in DOMAIN DECISION_STACK : j > k => ~Open(j)
      BY <2>1, <3>1
    <3> QED
      BY <1>4, <2>1, <2>2, <3>2 DEF Search!LastOpen, Open, OpenIn
  <2>6. Search!Backtrack(k)
    BY <1>1, <1>2, <2>1, <2>3, <2>4, <2>5 DEF Search!Backtrack
  <2> QED
    BY <1>4, <2>1, <2>2, <2>6 DEF SearchStep, Search!Next
<1> QED
  BY <1>5, <1>6

LEMMA Simulation == ASSUME IInv, [Next]_vars, TrailOK, TrailOK' PROVE SearchStep
<1>1. ASSUME LoadDone \/ MoveWatch \/ KeepWatch \/ ReturnConflict \/ ReturnOk PROVE SearchStep
  <2>1. UNCHANGED <<CLAUSES, ASSIGNMENT, DECISION_STACK, answer>>
    BY <1>1 DEF LoadDone, MoveWatch, KeepWatch, ReturnConflict, ReturnOk
  <2> QED
    BY <2>1, WalkStep
<1>2. ASSUME UNCHANGED vars PROVE SearchStep
  BY <1>2, WalkStep DEF vars
<1> QED
  BY <1>1, <1>2, LoadClauseStep, BcpStep, DecideStep, ResolveConflictStep DEF Next

LEMMA SearchStarts == Init => Search!Init
<1> SUFFICES ASSUME Init PROVE Search!Init
  OBVIOUS
<1>1. trail = <<>> /\ answer = "none"
  <2>1. DECISION_STACK = <<>> /\ ~Twice
    BY DEF Init, Twice
  <2> QED
    BY <2>1 DEF trail, Init
<1>2. formula \in SUBSET SUBSET Search!Literal
  <2>1. \A c \in DOMAIN CLAUSES : Range(CLAUSES[c]) \subseteq Literal
    BY WiringStarts, ClauseFacts DEF Wiring
  <2> QED
    BY <2>1, SearchLiteral DEF formula
<1> QED
  BY <1>1, <1>2 DEF Search!Init

-----------------------------------------------------------------------------
(* The theorems about the search.  They need NoneOpposed: with the unit      *)
(* clauses x and not x in the input main queues both literals, bcp assigns   *)
(* the variable twice and meets no conflict.                                 *)

(* The inductive invariant of fast.c: a false watch is made up for by a     *)
(* literal that no backtracking unsets before it, or a walk or a queued     *)
(* literal is about to.                                                     *)
THEOREM Invariance ==
  ASSUME NoneOpposed
  PROVE  Spec => []IInv
<1>1. Init => IInv
  BY Start
<1>2. IInv /\ [Next]_vars => IInv'
  BY Steps
<1> QED
  BY <1>1, <1>2, PTL DEF Spec

(* A clause is falsified only while bcp assigns, never by a decision (the   *)
(* assertion of decide) nor by a flip (whose failure resolveConflict        *)
(* ignores).                                                                *)
THEOREM OnlyBcpConflicts ==
  ASSUME NoneOpposed
  PROVE  Spec => []OnlyImpliedConflicts
<1>1. IInv => OnlyImpliedConflicts
  BY FalsifiedInBcp DEF OnlyImpliedConflicts
<1> QED
  BY <1>1, Invariance, PTL

(* Whenever bcp has run dry, also after backtracking that touched no watch, *)
(* a clause with a false watch has a true one.                              *)
THEOREM WatchesHold ==
  ASSUME NoneOpposed
  PROVE  Spec => []WatchInv
<1>1. IInv => WatchInv
  <2> SUFFICES ASSUME IInv, pc = "decide", NEW c \in DOMAIN CLAUSES, Len(CLAUSES[c]) >= 2,
                      NEW i \in {1, 2}, is_literal_true(-watching[c][i])
               PROVE  is_literal_true(watching[c][3 - i])
    BY DEF WatchInv
  <2>1. BCP_LIST = <<>>
    BY DEF IInv, Searching, Located
  <2>2. /\ True(-watching[c][1]) => True(watching[c][2])
        /\ True(-watching[c][2]) => True(watching[c][1])
    BY <2>1, Dry DEF Guarded
  <2>3. True(-watching[c][i])
    BY IsTrue
  <2>4. True(watching[c][3 - i])
    BY <2>2, <2>3
  <2> QED
    BY <2>4, IsTrue
<1> QED
  BY <1>1, Invariance, PTL

(* DECISION_STACK never outgrows its NVars + 1 entries, although bcp may    *)
(* assign a variable a second time: the conflict comes first.               *)
THEOREM StackNeverOverflows ==
  ASSUME NoneOpposed
  PROVE  Spec => []StackFits
<1>1. IInv => StackFits
  <2> SUFFICES ASSUME IInv PROVE Len(DECISION_STACK) <= NVars + 1
    BY DEF StackFits, N_VARS
  <2>1. Len(Placed) <= NVars
    BY BeforeTypes, StackBound
  <2>2. Len(DECISION_STACK) \in Nat
    BY BeforeTypes, LenProperties
  <2>3. CASE ~Twice
    BY <2>1, <2>2, <2>3, BeforeTypes, NVarsAssumption
  <2>4. CASE Twice
    <3>1. Len(Placed) = Len(DECISION_STACK) - 1
      BY <2>4, BeforeTypes, Cut
    <3> QED
      BY <2>1, <2>2, <3>1, NVarsAssumption
  <2> QED
    BY <2>3, <2>4
<1> QED
  BY <1>1, Invariance, PTL

(* Every run of fast.c is a run of the abstract search: what is propagated  *)
(* is forced, what backtracks is a conflict, and at SAT none is overlooked. *)
THEOREM Refinement ==
  ASSUME NoneOpposed
  PROVE  Spec => SearchSpec
<1>1. Init => Search!Init
  BY SearchStarts
<1>2. IInv => TrailOK
  BY TrailIs
<1>3. IInv /\ [Next]_vars /\ TrailOK /\ TrailOK' => SearchStep
  BY Simulation
<1>4. Spec => Search!Init /\ [][Search!Next]_(Search!vars)
  BY <1>1, <1>2, <1>3, Invariance, PTL DEF Spec, SearchStep
<1> QED
  BY <1>4 DEF SearchSpec, Search!Spec

(* fast.c prints SAT only with an assignment that satisfies the input, and  *)
(* UNSAT only for an input that no assignment satisfies.                    *)
AnswerIsRight == SatSound /\ (answer = "UNSAT" => Unsatisfiable(formula))

Answered == INSTANCE Dpll_proofs

THEOREM AnswersAreRight ==
  ASSUME NoneOpposed
  PROVE  Spec => []AnswerIsRight
<1>1. Init => Answered!Init
  BY SearchStarts DEF Search!Init, Answered!Init, Search!Literal, Answered!Literal
<1>2. SearchStep => [Answered!Next]_(Answered!vars)
  BY DEF SearchStep, Search!vars, Answered!vars, Search!Next, Answered!Next,
     Search!Literal, Answered!Literal, Search!Decide, Answered!Decide,
     Search!Propagate, Answered!Propagate, Search!Assign, Answered!Assign,
     Search!Assigned, Answered!Assigned, Search!True, Answered!True,
     Search!Backtrack, Answered!Backtrack, Search!LastOpen, Answered!LastOpen,
     Search!Conflict, Answered!Conflict, Search!Fail, Answered!Fail,
     Search!Succeed, Answered!Succeed
<1>3. IInv => TrailOK
  BY TrailIs
<1>4. IInv /\ [Next]_vars /\ TrailOK /\ TrailOK' => SearchStep
  BY Simulation
<1>5. Spec => Answered!Spec
  BY <1>1, <1>2, <1>3, <1>4, Invariance, PTL DEF Spec, Answered!Spec
<1>6. Answered!Spec => []Answered!SatSound
  BY Answered!SatIsRight, NVarsAssumption, PTL
<1>7. Answered!Spec => []Answered!UnsatSound
  BY Answered!UnsatIsRight, NVarsAssumption, PTL
<1>8. IInv /\ TrailOK /\ Answered!SatSound /\ Answered!UnsatSound => AnswerIsRight
  <2> SUFFICES ASSUME IInv, TrailOK, Answered!SatSound, Answered!UnsatSound PROVE AnswerIsRight
    OBVIOUS
  <2>1. answer = "UNSAT" => Unsatisfiable(formula)
    BY DEF Answered!UnsatSound, Answered!Unsatisfiable, Answered!Models, Answered!Satisfies,
           Answered!Literal, Unsatisfiable, Models, Satisfies, Literal
  <2>2. ASSUME answer = "SAT", NEW c \in DOMAIN CLAUSES
        PROVE  \E l \in Range(CLAUSES[c]) : is_literal_true(l)
    <3>1. Range(CLAUSES[c]) \in formula /\ Range(CLAUSES[c]) \subseteq Literal
      BY BeforeTypes, ClauseFacts DEF formula
    <3>2. PICK l \in Range(CLAUSES[c]) : l \in Answered!True(trail)
      BY <2>2, <3>1 DEF Answered!SatSound, Answered!Satisfies
    <3>3. ~Twice
      <4>1. pc = "done"
        BY <2>2 DEF IInv, Searching, Located
      <4> QED
        BY <4>1 DEF IInv, Searching, TwiceHolds
    <3>4. True(l)
      BY <3>1, <3>2, <3>3, TrueMeans DEF Search!True, Answered!True
    <3> QED
      BY <3>4, IsTrue
  <2> QED
    BY <2>1, <2>2 DEF AnswerIsRight, SatSound
<1> QED
  BY <1>3, <1>5, <1>6, <1>7, <1>8, Invariance, PTL
=============================================================================
