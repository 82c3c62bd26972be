----------------------------- MODULE SatInputs -----------------------------
(***************************************************************************)
(* Small inputs for the SAT solvers: every formula of at most MaxClauses   *)
(* clauses, tautologies x \/ ~x among them, those with one clause more     *)
(* whose clauses have one or two literals, every formula whose clauses all *)
(* have the same width of two or more, and each of these in reverse order. *)
(***************************************************************************)
EXTENDS Cnf, Sequences, SequencesExt

CONSTANT MaxClauses

(* Clause number k has variable v positive, negative or not at all as digit  *)
(* v of k in base 3 is 1, 2 or 0; the tautologies follow.                    *)
Digit(k, v) == (k \div 3 ^ (v - 1)) % 3
ClauseNo == [k \in 0 .. 3 ^ NVars + NVars - 1 |->
               IF k >= 3 ^ NVars
                 THEN <<k - 3 ^ NVars + 1, -(k - 3 ^ NVars + 1)>>
                 ELSE SelectSeq([v \in Var |-> CASE Digit(k, v) = 0 -> 0
                                                 [] Digit(k, v) = 1 -> v
                                                 [] Digit(k, v) = 2 -> -v],
                                LAMBDA l : l # 0)]

(* Increasing sequences of clause numbers, of length n, from K.              *)
Pick(n, K) ==
  LET Of[m \in 0 .. n] ==
        IF m = 0 THEN {<<>>}
        ELSE UNION {{Append(s, k) : k \in {k \in K : m = 1 \/ k > s[m - 1]}} : s \in Of[m - 1]}
  IN  Of[n]

Short == {k \in DOMAIN ClauseNo : Len(ClauseNo[k]) \in {1, 2} /\ k < 3 ^ NVars}

OfWidth(n) ==
  LET all == SelectSeq([i \in 1 .. 3 ^ NVars |-> i - 1], LAMBDA k : Len(ClauseNo[k]) = n)
  IN  {SelectSeq(all, LAMBDA k : k \in S) : S \in (SUBSET Range(all)) \ {{}}}

Ordered(s, up) == IF up THEN [i \in DOMAIN s |-> ClauseNo[s[i]]]
                        ELSE Reverse([i \in DOMAIN s |-> Reverse(ClauseNo[s[i]])])

Numbers == UNION {Pick(n, DOMAIN ClauseNo) : n \in 1 .. MaxClauses}
           \cup Pick(MaxClauses + 1, Short)
           \cup UNION {OfWidth(n) : n \in 2 .. NVars}
AllInputs == {Ordered(s, up) : s \in Numbers, up \in BOOLEAN}

HasOppositeUnits(input) ==
  \E i, j \in DOMAIN input : /\ Len(input[i]) = 1 /\ Len(input[j]) = 1
                             /\ input[i][1] = -input[j][1]
=============================================================================
