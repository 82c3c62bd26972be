-------------------------------- MODULE Dpll --------------------------------
(***************************************************************************)
(* The search that the DPLL solvers fast.c and basic.c of                  *)
(* src/labs/24-sat-smt-symex/sat-lab-monday/code perform, without their    *)
(* data structures: assign a literal by decision or because a clause       *)
(* leaves no choice, and on a conflict flip the latest decision that was   *)
(* tried one way only.                                                     *)
(***************************************************************************)
EXTENDS Cnf, Sequences

VARIABLES formula,  \* the input
          trail,    \* the assignments, oldest first, and why each was made
          answer    \* "none" until the solver prints one

vars == <<formula, trail, answer>>

Kind  == {"IMPLIED", "TRIED_ONE_WAY", "TRIED_BOTH_WAYS"}
Entry == [lit : Literal, kind : Kind]

(* The literals a trail makes true.                                        *)
True(t) == {t[i].lit : i \in DOMAIN t}

Assigned(l) == l \in True(trail) \/ -l \in True(trail)
Conflict    == \E C \in formula : \A l \in C : -l \in True(trail)

(* The last entry that is a decision tried one way.                        *)
LastOpen(k) == /\ k \in DOMAIN trail /\ trail[k].kind = "TRIED_ONE_WAY"
               /\ \A j \in DOMAIN trail : j > k => trail[j].kind # "TRIED_ONE_WAY"

Init == formula \in SUBSET SUBSET Literal /\ trail = <<>> /\ answer = "none"

Assign(l, kind) == /\ answer = "none" /\ ~Assigned(l)
                   /\ trail' = Append(trail, [lit |-> l, kind |-> kind])
                   /\ UNCHANGED <<formula, answer>>

Decide(l) == Assign(l, "TRIED_ONE_WAY")

Propagate(l) == /\ \E C \in formula : l \in C /\ \A m \in C \ {l} : -m \in True(trail)
                /\ Assign(l, "IMPLIED")

Backtrack(k) ==
  /\ answer = "none" /\ Conflict /\ LastOpen(k)
  /\ trail' = Append(SubSeq(trail, 1, k - 1),
                     [lit |-> -trail[k].lit, kind |-> "TRIED_BOTH_WAYS"])
  /\ UNCHANGED <<formula, answer>>

Fail == /\ answer = "none" /\ Conflict
        /\ \A k \in DOMAIN trail : trail[k].kind # "TRIED_ONE_WAY"
        /\ answer' = "UNSAT" /\ trail' = <<>>
        /\ UNCHANGED formula

Succeed == /\ answer = "none" /\ ~Conflict /\ \A l \in Literal : Assigned(l)
           /\ answer' = "SAT"
           /\ UNCHANGED <<formula, trail>>

Next == \/ \E l \in Literal : Decide(l) \/ Propagate(l)
        \/ \E k \in DOMAIN trail : Backtrack(k)
        \/ Fail
        \/ Succeed

Spec == Init /\ [][Next]_vars

-----------------------------------------------------------------------------
TypeOK == formula \in SUBSET SUBSET Literal /\ trail \in Seq(Entry) /\ answer \in {"none", "SAT", "UNSAT"}

(* No variable is assigned twice.                                          *)
Distinct == \A i, j \in DOMAIN trail :
              i # j => trail[i].lit # trail[j].lit /\ trail[i].lit # -trail[j].lit

(* A model the search has not excluded agrees with the whole trail, or     *)
(* leaves it at a decision that is still to be flipped.                    *)
Agrees(M, k) == \A i \in 1 .. k - 1 : trail[i].lit \in M
Covered == answer # "UNSAT" =>
             \A M \in Models : Satisfies(M, formula) =>
               \/ Agrees(M, Len(trail) + 1)
               \/ \E k \in DOMAIN trail : /\ trail[k].kind = "TRIED_ONE_WAY"
                                          /\ trail[k].lit \notin M
                                          /\ Agrees(M, k)

(* "SAT" is printed with an assignment that satisfies the input, and       *)
(* "UNSAT" only for inputs that have none.                                 *)
SatSound   == answer = "SAT" => True(trail) \in Models /\ Satisfies(True(trail), formula)
UnsatSound == answer = "UNSAT" => Unsatisfiable(formula)
=============================================================================
