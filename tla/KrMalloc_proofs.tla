-------------------------- MODULE KrMalloc_proofs ---------------------------
(* Proofs about kr-malloc.c, for every heap, every header size and every set of requests
   that do not wrap: the list stays ordered, closed and merged (Coalesced), the blocks tile
   the heap (Tiled), the search overlooks nothing (GivesUpRightly), and the blocks clients
   get are those malloc promises (AllocatorSpec).  Lists and tilings are constant-level
   operators with lemmas of their own; each action then uses the lemma it is. *)
EXTENDS KrMalloc, WellFoundedInduction, TLAPS

\* The free list as the code means it to be: every header of F points to the next one up,
\* the last to base.
Ordered(F, links) ==
  /\ F \subseteq Addr /\ Base \in F
  /\ \A a \in F :
       /\ links[a] \in F
       /\ \/ a < links[a] /\ \A b \in F : b <= a \/ links[a] <= b
          \/ links[a] = Base /\ \A b \in F : b <= a

\* The blocks of B, of sizes s, tile the units below top.
Tiles(B, s, top) ==
  /\ \A b \in B : 1 <= b /\ 1 <= s[b] /\ b + s[b] <= top
  /\ \A a, b \in B : a < b => a + s[a] <= b
  /\ \A u \in 1 .. top - 1 : \E b \in B : b <= u /\ u < b + s[b]

\* No free block ends where another begins.
Merged(F, s) == \A a \in F \ {Base} : a + s[a] \notin F

-----------------------------------------------------------------------------
(* The inductive invariant *)

ListInv == Ordered(FreeList, ptr) /\ Merged(FreeList, size) /\ size[Base] = 0

BlockInv ==
  /\ Tiles(Allotted, size, heap_ptr)
  /\ FreeList \cap DOMAIN live = {}
  /\ Inserting => bp # Base /\ bp \notin FreeList /\ bp \notin DOMAIN live
  /\ \A b \in DOMAIN live : size[b] = Units(live[b])

\* What a call in progress holds on to is in the list.
CallInv ==
  /\ freep \in FreeList \/ (freep = NULL /\ pc = "idle")
  /\ pc = "malloc" => prevp \in FreeList /\ p = ptr[prevp]
  /\ Inserting => q \in FreeList
  /\ pc \in {"malloc", "morecore"} => nbytes \in Requests

\* The headers that a walk up the list from the one after r has passed when it is at x.
Passed(r, x, a) == IF r < x THEN r < a /\ a < x ELSE r < a \/ a < x

\* The search has not passed a block that is large enough.
SearchInv == pc = "malloc" => \A a \in FreeList : Passed(freep, p, a) => size[a] < nunits

IInv == TypeOK /\ ListInv /\ BlockInv /\ CallInv /\ SearchInv

-----------------------------------------------------------------------------
(* Induction over the naturals and definition by iteration, stated for sets and
   functions instead of operators, which is the form the provers can use.  Both
   follow from the well-foundedness of < alone. *)

\* A set of naturals with 0 that is closed under successor has them all.
LEMMA SetInduction ==
  ASSUME NEW T \in SUBSET Nat, 0 \in T, \A n \in T : n + 1 \in T
  PROVE  T = Nat
<1> DEFINE U == Nat \ T
<1> SUFFICES ASSUME U # {} PROVE FALSE
  OBVIOUS
<1>1. PICK x \in U : \A y \in U : ~ <<y, x>> \in OpToRel(<, Nat)
  BY NatLessThanWellFounded, WFMin, U \subseteq Nat
<1>2. x # 0 /\ x \in Nat
  BY <1>1
<1>3. x - 1 \in Nat /\ x - 1 < x
  BY <1>2
<1>4. x - 1 \notin U
  BY <1>1, <1>3 DEF OpToRel
<1>5. (x - 1) + 1 = x
  BY <1>2
<1> QED
  BY <1>1, <1>3, <1>4, <1>5

\* The first n + 1 steps of the iteration of F from s0.
Iterations(S, s0, F, n) ==
  {g \in [0 .. n -> S] : g[0] = s0 /\ \A i \in 0 .. n - 1 : g[i + 1] = F[g[i]]}

HasIteration(S, s0, F) ==
  \E f \in [Nat -> S] : f[0] = s0 /\ \A n \in Nat : f[n + 1] = F[f[n]]

\* A function on S can be iterated from any point of S.
LEMMA IterationExists ==
  ASSUME NEW S, NEW s0 \in S, NEW F \in [S -> S]
  PROVE  HasIteration(S, s0, F)
<1> DEFINE It(n) == Iterations(S, s0, F, n)
<1>1. \A n \in Nat : It(n) # {}
  <2> DEFINE T == {n \in Nat : It(n) # {}}
  <2>1. 0 \in T
    <3>1. [i \in 0 .. 0 |-> s0] \in It(0)
      BY DEF Iterations
    <3> QED
      BY <3>1
  <2>2. ASSUME NEW n \in T PROVE n + 1 \in T
    <3>1. PICK g : g \in It(n)
      OBVIOUS
    <3> DEFINE h == [i \in 0 .. n + 1 |-> IF i = n + 1 THEN F[g[n]] ELSE g[i]]
    <3>2. /\ n \in Nat /\ g \in [0 .. n -> S] /\ g[0] = s0
          /\ \A i \in 0 .. n - 1 : g[i + 1] = F[g[i]]
      BY <3>1 DEF Iterations
    <3>3. h \in [0 .. n + 1 -> S]
      BY <3>2
    <3>4. h[0] = s0
      BY <3>2
    <3>5. ASSUME NEW i \in 0 .. (n + 1) - 1 PROVE h[i + 1] = F[h[i]]
      <4>1. CASE i = n
        BY <3>2, <4>1
      <4>2. CASE i \in 0 .. n - 1
        BY <3>2, <4>2
      <4> QED
        BY <3>2, <4>1, <4>2
    <3>6. h \in It(n + 1)
      BY <3>3, <3>4, <3>5 DEF Iterations
    <3> QED
      BY <3>2, <3>6
  <2> HIDE DEF It
  <2>3. T \in SUBSET Nat
    OBVIOUS
  <2> HIDE DEF T
  <2>4. T = Nat
    BY <2>1, <2>2, <2>3, SetInduction
  <2> QED
    BY <2>4 DEF T
<1>2. ASSUME NEW n \in Nat, NEW m \in Nat, NEW g \in It(n), NEW h \in It(m)
      PROVE  \A i \in Nat : i <= n /\ i <= m => g[i] = h[i]
  <2> DEFINE T == {i \in Nat : i <= n /\ i <= m => g[i] = h[i]}
  <2>1. 0 \in T
    BY DEF Iterations
  <2>2. ASSUME NEW i \in T PROVE i + 1 \in T
    <3> SUFFICES ASSUME i + 1 <= n, i + 1 <= m PROVE g[i + 1] = h[i + 1]
      OBVIOUS
    <3>1. i \in 0 .. n - 1 /\ i \in 0 .. m - 1 /\ g[i] = h[i]
      OBVIOUS
    <3> QED
      BY <3>1 DEF Iterations
  <2>3. T \in SUBSET Nat
    OBVIOUS
  <2> HIDE DEF T
  <2>4. T = Nat
    BY <2>1, <2>2, <2>3, SetInduction
  <2> QED
    BY <2>4 DEF T
<1> DEFINE pick(n) == CHOOSE g : g \in It(n)
           f == [n \in Nat |-> pick(n)[n]]
<1>3. \A n \in Nat : pick(n) \in It(n)
  BY <1>1
<1> HIDE DEF pick
<1>4. ASSUME NEW n \in Nat
      PROVE  pick(n) \in [0 .. n -> S] /\ pick(n)[0] = s0
             /\ \A i \in 0 .. n - 1 : pick(n)[i + 1] = F[pick(n)[i]]
  BY <1>3 DEF Iterations
<1>5. f \in [Nat -> S] /\ f[0] = s0
  BY <1>4
<1>6. ASSUME NEW n \in Nat PROVE f[n + 1] = F[f[n]]
  <2>1. pick(n + 1)[n + 1] = F[pick(n + 1)[n]]
    BY <1>4
  <2>2. pick(n + 1)[n] = pick(n)[n]
    BY <1>2, <1>3
  <2> QED
    BY <2>1, <2>2
<1> QED
  BY <1>5, <1>6 DEF HasIteration

-----------------------------------------------------------------------------
(* Lists *)

\* Such a list goes through the headers of F and no others.
LEMMA ListIs ==
  ASSUME NEW links \in [Addr -> Addr], NEW F, Ordered(F, links)
  PROVE  HeadersFrom(links) = F
<1> DEFINE R == CHOOSE r : r = [k \in Nat |->
                  IF k = 0 THEN {Base} ELSE r[k - 1] \cup {links[a] : a \in r[k - 1]}]
<1>0. HeadersFrom(links) = R[HEAP + 1]
  BY DEF HeadersFrom
<1> DEFINE D == SUBSET Addr
           G == [S \in D |-> S \cup {links[a] : a \in S}]
           start == {Base}
<1>1. G \in [D -> D] /\ start \in D
  <2>1. \A S \in D : S \cup {links[a] : a \in S} \in D
    OBVIOUS
  <2>2. start \in D
    BY HeapAssumption DEF Addr, Base
  <2> HIDE DEF D
  <2> QED
    BY <2>1, <2>2
<1>2. PICK f \in [Nat -> D] : f[0] = start /\ \A n \in Nat : f[n + 1] = G[f[n]]
  <2> HIDE DEF R, G, D, start
  <2>1. HasIteration(D, start, G)
    BY <1>1, IterationExists
  <2> QED
    BY <2>1 DEF HasIteration
<1>3. f = [k \in Nat |-> IF k = 0 THEN {Base} ELSE f[k - 1] \cup {links[a] : a \in f[k - 1]}]
  <2> SUFFICES ASSUME NEW k \in Nat, k # 0 PROVE f[k] = f[k - 1] \cup {links[a] : a \in f[k - 1]}
    BY <1>2
  <2>1. k - 1 \in Nat /\ (k - 1) + 1 = k
    OBVIOUS
  <2> QED
    BY <1>2, <2>1
<1>4. R = [k \in Nat |-> IF k = 0 THEN {Base} ELSE R[k - 1] \cup {links[a] : a \in R[k - 1]}]
  BY <1>3
<1> HIDE DEF R
<1>5. R[0] = {Base} /\ \A n \in Nat : R[n + 1] = R[n] \cup {links[a] : a \in R[n]}
  <2>1. ASSUME NEW n \in Nat PROVE R[n + 1] = R[n] \cup {links[a] : a \in R[n]}
    <3>1. n + 1 \in Nat /\ (n + 1) - 1 = n /\ n + 1 # 0
      OBVIOUS
    <3> QED
      BY <1>4, <3>1
  <2> QED
    BY <1>4, <2>1
<1>6. \A n \in Nat : R[n] \subseteq F
  <2> DEFINE T == {n \in Nat : R[n] \subseteq F}
  <2>1. 0 \in T
    BY <1>5 DEF Ordered
  <2>2. \A n \in T : n + 1 \in T
    BY <1>5 DEF Ordered
  <2>3. T \in SUBSET Nat
    OBVIOUS
  <2> HIDE DEF T
  <2>4. T = Nat
    BY <2>1, <2>2, <2>3, SetInduction
  <2> QED
    BY <2>4 DEF T
<1>0a. /\ F \subseteq Nat /\ Base \in F
       /\ \A a \in F : /\ links[a] \in F
                      /\ \/ a < links[a] /\ \A b \in F : b <= a \/ links[a] <= b
                         \/ \A b \in F : b <= a
  <2>1. F \subseteq Addr /\ Addr \subseteq Nat
    BY HeapAssumption DEF Ordered, Addr
  <2> QED
    BY <2>1 DEF Ordered
<1> DEFINE Upto(n, m) == /\ m \in R[n] /\ \A b \in F : b <= m => b \in R[n]
                         /\ m >= n \/ \A b \in F : b <= m
<1>7. \A n \in Nat : \E m \in F : Upto(n, m)
  <2> DEFINE T == {n \in Nat : \E m \in F : Upto(n, m)}
  <2>1. 0 \in T
    BY <1>5 DEF Ordered, Base, Addr
  <2>2. ASSUME NEW n \in T PROVE n + 1 \in T
    <3>1. n \in Nat /\ \E m \in F : Upto(n, m)
      OBVIOUS
    <3> HIDE DEF T, Upto
    <3>1a. PICK m \in F : Upto(n, m)
      BY <3>1
    <3>2. R[n + 1] = R[n] \cup {links[a] : a \in R[n]} /\ n + 1 \in Nat
      BY <1>5, <3>1
    <3>2a. m \in Nat /\ links[m] \in F /\ links[m] \in Nat
      BY <1>0a
    <3> USE DEF Upto
    <3>3. CASE m >= n + 1 \/ \A b \in F : b <= m
      <4>1. Upto(n + 1, m)
        BY <3>1a, <3>2, <3>3
      <4> QED
        BY <4>1, <3>2 DEF T
    <3>4. CASE ~(m >= n + 1 \/ \A b \in F : b <= m)
      <4>1. m = n
        BY <3>1, <3>1a, <3>2a, <3>4
      <4>2. m < links[m] /\ \A b \in F : b <= m \/ links[m] <= b
        BY <1>0a, <3>4
      <4>3. links[m] \in R[n + 1] /\ R[n] \subseteq R[n + 1]
        BY <3>1a, <3>2
      <4>4. \A b \in F : b <= links[m] => b \in R[n + 1]
        BY <3>1a, <4>2, <4>3, <3>2a, <1>0a
      <4>5. links[m] >= n + 1
        BY <4>1, <4>2, <3>2a
      <4>6. Upto(n + 1, links[m])
        BY <4>3, <4>4, <4>5
      <4> QED
        BY <3>2, <3>2a, <4>6 DEF T
    <3> QED
      BY <3>3, <3>4
  <2>3. T \in SUBSET Nat
    OBVIOUS
  <2> HIDE DEF T
  <2>4. T = Nat
    BY <2>1, <2>2, <2>3, SetInduction
  <2> QED
    BY <2>4 DEF T
<1>8. F \subseteq R[HEAP + 1]
  <2>1. PICK m \in F : Upto(HEAP + 1, m)
    BY <1>7, HeapAssumption
  <2>2. m <= HEAP
    BY HeapAssumption DEF Ordered, Addr
  <2> QED
    BY <2>1, <2>2, HeapAssumption DEF Ordered, Addr
<1>9. HEAP + 1 \in Nat
  BY HeapAssumption
<1>10. R[HEAP + 1] = F
  BY <1>6, <1>8, <1>9
<1> QED
  BY <1>0, <1>10

\* Only the links of its headers matter to a list.
LEMMA SameLinks ==
  ASSUME NEW F, NEW l1, NEW l2, Ordered(F, l1), \A a \in F : l2[a] = l1[a]
  PROVE  Ordered(F, l2)
BY DEF Ordered

\* Where the loop of kr_free stops, a new header b goes between r and what follows r.
LEMMA Insert ==
  ASSUME NEW F, NEW l \in [Addr -> Addr], Ordered(F, l),
         NEW r \in F, NEW b \in Addr, b \notin F, r < b, b < l[r] \/ l[r] = Base
  PROVE  Ordered(F \cup {b}, [l EXCEPT ![b] = l[r], ![r] = b])
<1> DEFINE m == [l EXCEPT ![b] = l[r], ![r] = b]
<1>1. F \subseteq Addr /\ Addr \subseteq Nat /\ Base = 0 /\ Base \in F
  BY HeapAssumption DEF Ordered, Addr, Base
<1>2. m[r] = b /\ m[b] = l[r] /\ \A a \in F \ {r} : m[a] = l[a]
  BY <1>1
<1> HIDE DEF m
<1>3. \A a \in F : /\ l[a] \in F
                   /\ \/ a < l[a] /\ \A c \in F : c <= a \/ l[a] <= c
                      \/ l[a] = Base /\ \A c \in F : c <= a
  BY DEF Ordered
<1>4. \A c \in F : c <= r \/ b < c
  <2> TAKE c \in F
  <2>1. c \in Nat /\ r \in Nat /\ b \in Nat /\ l[r] \in Nat
    BY <1>1, <1>3
  <2> QED
    BY <1>1, <1>3, <2>1
<1>5. ASSUME NEW a \in F \cup {b}
      PROVE  /\ m[a] \in F \cup {b}
             /\ \/ a < m[a] /\ \A c \in F \cup {b} : c <= a \/ m[a] <= c
                \/ m[a] = Base /\ \A c \in F \cup {b} : c <= a
  <2>1. a \in Nat /\ b \in Nat /\ r \in Nat /\ l[r] \in Nat
    BY <1>1, <1>3
  <2>2. CASE a = r
    BY <1>1, <1>2, <1>4, <2>1, <2>2
  <2>3. CASE a = b
    <3>1. CASE b < l[r]
      BY <1>1, <1>2, <1>3, <1>4, <2>1, <2>3, <3>1
    <3>2. CASE l[r] = Base /\ \A c \in F : c <= r
      BY <1>1, <1>2, <1>3, <1>4, <2>1, <2>3, <3>2
    <3>3. l[r] = Base => \A c \in F : c <= r
      BY <1>1, <1>3, <2>1
    <3> QED
      BY <3>1, <3>2, <3>3
  <2>4. CASE a \in F \ {r}
    <3>1. m[a] = l[a] /\ l[a] \in Nat /\ l[a] \in F
      BY <1>1, <1>2, <1>3, <2>4
    <3>2. CASE a < l[a] /\ \A c \in F : c <= a \/ l[a] <= c
      <4>1. b <= a \/ l[a] <= b
        BY <1>1, <1>4, <2>1, <2>4, <3>1, <3>2
      <4> QED
        BY <3>1, <3>2, <4>1
    <3>3. CASE l[a] = Base /\ \A c \in F : c <= a
      <4>1. b <= a
        BY <1>1, <1>4, <2>1, <2>4, <3>1, <3>3
      <4> QED
        BY <3>1, <3>3, <4>1
    <3> QED
      BY <1>3, <2>4, <3>2, <3>3
  <2> QED
    BY <2>2, <2>3, <2>4
<1> QED
  BY <1>1, <1>5 DEF Ordered, m

\* A header other than base leaves the list when the one before it takes over its link.
LEMMA Remove ==
  ASSUME NEW F, NEW l \in [Addr -> Addr], Ordered(F, l), NEW r \in F, l[r] # Base
  PROVE  /\ Ordered(F \ {l[r]}, [l EXCEPT ![r] = l[l[r]]])
         /\ l[r] # r
<1> DEFINE c == l[r]
           m == [l EXCEPT ![r] = l[c]]
<1>1. F \subseteq Addr /\ Addr \subseteq Nat /\ Base = 0 /\ Base \in F
  BY HeapAssumption DEF Ordered, Addr, Base
<1>2. \A a \in F : /\ l[a] \in F
                   /\ \/ a < l[a] /\ \A d \in F : d <= a \/ l[a] <= d
                      \/ l[a] = Base /\ \A d \in F : d <= a
  BY DEF Ordered
<1>3. /\ c \in F /\ c \in Nat /\ r \in Nat /\ l[c] \in F /\ l[c] \in Nat
      /\ r < c /\ \A d \in F : d <= r \/ c <= d
  BY <1>1, <1>2
<1>4. m[r] = l[c] /\ \A a \in F \ {r} : m[a] = l[a]
  BY <1>1
<1>5. c # Base
  OBVIOUS
<1> HIDE DEF m, c
<1>6. ASSUME NEW a \in F \ {c}
      PROVE  /\ m[a] \in F \ {c}
             /\ \/ a < m[a] /\ \A d \in F \ {c} : d <= a \/ m[a] <= d
                \/ m[a] = Base /\ \A d \in F \ {c} : d <= a
  <2>1. CASE a = r
    <3>1. CASE c < l[c] /\ \A d \in F : d <= c \/ l[c] <= d
      BY <1>1, <1>3, <1>4, <2>1, <3>1
    <3>2. CASE l[c] = Base /\ \A d \in F : d <= c
      BY <1>1, <1>3, <1>4, <1>5, <2>1, <3>2
    <3> QED
      BY <1>2, <1>3, <3>1, <3>2
  <2>2. CASE a # r
    <3>1. m[a] = l[a] /\ a \in Nat /\ l[a] \in Nat /\ l[a] \in F
      BY <1>1, <1>2, <1>4, <2>2
    <3>2. l[a] # c
      BY <1>1, <1>2, <1>3, <1>5, <2>2, <3>1
    <3> QED
      BY <1>2, <3>1, <3>2
  <2> QED
    BY <2>1, <2>2
<1>7. Base \in F \ {c} /\ F \ {c} \subseteq Addr
  BY <1>1, <1>5
<1>8. Ordered(F \ {c}, m)
  BY <1>6, <1>7 DEF Ordered
<1> QED
  BY <1>3, <1>8 DEF m, c

\* A walk that starts after r has passed nothing at first, and everything else once it is
\* at r; each step before that adds the header it was at.
LEMMA Walking ==
  ASSUME NEW F, NEW l \in [Addr -> Addr], Ordered(F, l), NEW r \in F, NEW x \in F, NEW a \in F
  PROVE  /\ ~Passed(r, l[r], a)
         /\ Passed(r, r, a) <=> a # r
         /\ x # r /\ Passed(r, l[x], a) => Passed(r, x, a) \/ a = x
<1>1. F \subseteq Addr /\ Addr \subseteq Nat /\ Base = 0 /\ Base \in F
  BY HeapAssumption DEF Ordered, Addr, Base
<1>2. \A c \in F : /\ l[c] \in F
                   /\ \/ c < l[c] /\ \A d \in F : d <= c \/ l[c] <= d
                      \/ l[c] = Base /\ \A d \in F : d <= c
  BY DEF Ordered
<1>3. r \in Nat /\ x \in Nat /\ a \in Nat /\ l[r] \in Nat /\ l[x] \in Nat
  BY <1>1, <1>2
<1>4. ~Passed(r, l[r], a)
  BY <1>1, <1>2, <1>3 DEF Passed
<1>5. Passed(r, r, a) <=> a # r
  BY <1>3 DEF Passed
<1>6. ASSUME x # r, Passed(r, l[x], a) PROVE Passed(r, x, a) \/ a = x
  <2>1. CASE x < l[x] /\ (a <= x \/ l[x] <= a) /\ (r <= x \/ l[x] <= r)
    BY <1>3, <1>6, <2>1 DEF Passed
  <2>2. CASE l[x] = Base /\ a <= x /\ r <= x
    BY <1>1, <1>3, <1>6, <2>2 DEF Passed
  <2> QED
    BY <1>2, <2>1, <2>2
<1> QED
  BY <1>4, <1>5, <1>6

-----------------------------------------------------------------------------
(* Blocks *)

\* Only the sizes of its blocks matter to a tiling.
LEMMA SameSizes ==
  ASSUME NEW B, NEW s, NEW t, NEW top, Tiles(B, s, top), \A b \in B : t[b] = s[b]
  PROVE  Tiles(B, t, top)
BY DEF Tiles

\* Two blocks that touch become one.
LEMMA TilesMerge ==
  ASSUME NEW B \in SUBSET Addr, NEW s \in [Addr -> Nat], NEW top \in Nat, Tiles(B, s, top),
         NEW b \in B, b + s[b] \in B
  PROVE  Tiles(B \ {b + s[b]}, [s EXCEPT ![b] = s[b] + s[b + s[b]]], top)
<1> DEFINE c == b + s[b]
           t == [s EXCEPT ![b] = s[b] + s[c]]
<1>1. Addr \subseteq Nat
  BY HeapAssumption DEF Addr
<1>2. /\ b \in Nat /\ s[b] \in Nat /\ c \in B /\ c \in Nat /\ s[c] \in Nat
      /\ 1 <= s[b] /\ 1 <= s[c] /\ c = b + s[b] /\ c # b
  BY <1>1 DEF Tiles
<1>3. t[b] = s[b] + s[c] /\ \A a \in B \ {b} : t[a] = s[a]
  OBVIOUS
<1> HIDE DEF t, c
<1>4. \A a \in B : a \in Nat /\ s[a] \in Nat /\ 1 <= a /\ 1 <= s[a] /\ a + s[a] <= top
  BY <1>1 DEF Tiles
<1>5. \A a \in B \ {c} : 1 <= a /\ 1 <= t[a] /\ a + t[a] <= top
  BY <1>2, <1>3, <1>4
<1>6. ASSUME NEW a \in B \ {c}, NEW d \in B \ {c}, a < d PROVE a + t[a] <= d
  <2>1. a + s[a] <= d
    BY <1>6 DEF Tiles
  <2>2. CASE a = b
    <3>1. c <= d /\ c # d
      BY <1>2, <2>1, <2>2
    <3>2. c < d
      BY <1>2, <1>4, <3>1
    <3>3. c + s[c] <= d
      BY <1>2, <3>2 DEF Tiles
    <3> QED
      BY <1>2, <1>3, <2>2, <3>3
  <2> QED
    BY <1>3, <2>1, <2>2
<1>7. ASSUME NEW u \in 1 .. top - 1 PROVE \E a \in B \ {c} : a <= u /\ u < a + t[a]
  <2>1. PICK a \in B : a <= u /\ u < a + s[a]
    BY DEF Tiles
  <2>2. CASE a \in {b, c}
    <3>1. b <= u /\ u < b + t[b]
      BY <1>2, <1>3, <2>1, <2>2
    <3> QED
      BY <1>2, <3>1
  <2>3. CASE a \notin {b, c}
    BY <1>3, <2>1, <2>3
  <2> QED
    BY <2>2, <2>3
<1> QED
  BY <1>5, <1>6, <1>7 DEF Tiles, t, c

\* A block gives away its last n units.
LEMMA TilesSplit ==
  ASSUME NEW B \in SUBSET Addr, NEW s \in [Addr -> Nat], NEW top \in Nat, Tiles(B, s, top),
         NEW b \in B, NEW n \in Nat, 1 <= n, n < s[b], b + (s[b] - n) \in Addr
  PROVE  /\ Tiles(B \cup {b + (s[b] - n)},
                  [s EXCEPT ![b] = s[b] - n, ![b + (s[b] - n)] = n], top)
         /\ b + (s[b] - n) \notin B
<1> DEFINE c == b + (s[b] - n)
           t == [s EXCEPT ![b] = s[b] - n, ![c] = n]
<1>1. Addr \subseteq Nat
  BY HeapAssumption DEF Addr
<1>2. /\ b \in Nat /\ s[b] \in Nat /\ c \in Nat /\ b < c /\ c + n = b + s[b] /\ b + s[b] <= top
      /\ 1 <= b /\ b + (s[b] - n) = c
  BY <1>1 DEF Tiles
<1>3. c \notin B
  BY <1>2 DEF Tiles
<1>4. t[b] = s[b] - n /\ t[c] = n /\ \A a \in B \ {b} : t[a] = s[a]
  <2>1. c \in Addr /\ b # c
    BY <1>2
  <2> HIDE DEF c
  <2> QED
    BY <1>3, <2>1
<1> HIDE DEF t, c
<1>5. \A a \in B : a \in Nat /\ s[a] \in Nat /\ 1 <= a /\ 1 <= s[a] /\ a + s[a] <= top
  BY <1>1 DEF Tiles
<1>6. \A a \in B \cup {c} : 1 <= a /\ 1 <= t[a] /\ a + t[a] <= top
  BY <1>2, <1>4, <1>5
<1>7. ASSUME NEW a \in B \cup {c}, NEW d \in B \cup {c}, a < d PROVE a + t[a] <= d
  <2>1. \A x, y \in B : x < y => x + s[x] <= y
    BY DEF Tiles
  <2>2. CASE a = c
    <3>1. d \in B /\ b < d /\ d \in Nat
      BY <1>2, <1>5, <1>7, <2>2
    <3> QED
      BY <1>2, <1>4, <2>1, <2>2, <3>1
  <2>3. CASE a = b
    BY <1>2, <1>4, <1>5, <1>7, <2>1, <2>3
  <2>4. CASE a \in B \ {b} /\ d = c
    <3>1. a < b
      BY <1>2, <1>5, <1>7, <2>1, <2>4
    <3> QED
      BY <1>2, <1>4, <1>5, <2>1, <2>4, <3>1
  <2>5. CASE a \in B \ {b} /\ d \in B
    BY <1>4, <1>7, <2>1, <2>5
  <2> QED
    BY <2>2, <2>3, <2>4, <2>5
<1>8. ASSUME NEW u \in 1 .. top - 1 PROVE \E a \in B \cup {c} : a <= u /\ u < a + t[a]
  <2>1. PICK a \in B : a <= u /\ u < a + s[a]
    BY DEF Tiles
  <2>2. CASE a = b
    <3>1. CASE u < c
      BY <1>2, <1>4, <2>1, <2>2, <3>1
    <3>2. CASE c <= u
      BY <1>2, <1>4, <2>1, <2>2, <3>2
    <3> QED
      BY <1>2, <3>1, <3>2
  <2>3. CASE a # b
    BY <1>4, <2>1, <2>3
  <2> QED
    BY <2>2, <2>3
<1> QED
  BY <1>3, <1>6, <1>7, <1>8 DEF Tiles, t, c

\* my_sbrk puts a block of n units on top.
LEMMA TilesGrow ==
  ASSUME NEW B \in SUBSET Addr, NEW s \in [Addr -> Nat], NEW top \in Addr, 1 <= top,
         Tiles(B, s, top), NEW n \in Nat, 1 <= n
  PROVE  /\ Tiles(B \cup {top}, [s EXCEPT ![top] = n], top + n)
         /\ top \notin B
<1> DEFINE t == [s EXCEPT ![top] = n]
<1>1. Addr \subseteq Nat
  BY HeapAssumption DEF Addr
<1>2. \A a \in B : a \in Nat /\ s[a] \in Nat /\ 1 <= a /\ 1 <= s[a] /\ a + s[a] <= top
  BY <1>1 DEF Tiles
<1>3. top \in Nat /\ top \notin B
  BY <1>1, <1>2
<1>4. t[top] = n /\ \A a \in B : t[a] = s[a]
  BY <1>3
<1> HIDE DEF t
<1>5. \A a, d \in B \cup {top} : a < d => a + t[a] <= d
  BY <1>2, <1>3, <1>4 DEF Tiles
<1>6. ASSUME NEW u \in 1 .. (top + n) - 1 PROVE \E a \in B \cup {top} : a <= u /\ u < a + t[a]
  <2>1. CASE u < top
    <3>1. u \in 1 .. top - 1
      BY <1>3, <2>1
    <3> QED
      BY <1>4, <3>1 DEF Tiles
  <2>2. CASE top <= u
    BY <1>3, <1>4, <2>2
  <2> QED
    BY <1>3, <2>1, <2>2
<1>7. \A a \in B \cup {top} : 1 <= a /\ 1 <= t[a] /\ a + t[a] <= top + n
  BY <1>2, <1>3, <1>4
<1> QED
  BY <1>3, <1>5, <1>6, <1>7 DEF Tiles, t

-----------------------------------------------------------------------------
(* Sizes *)

\* What the arithmetic of kr_malloc comes to for the requests clients make: at least two
\* units, enough for a header and the bytes asked for, and a product that does not wrap.
LEMMA UnitsFit ==
  ASSUME NEW n \in Requests
  PROVE  /\ Units(n) \in Nat /\ 1 <= Units(n) /\ n <= (Units(n) - 1) * Unit
         /\ (Units(n) * Unit) % Word = Units(n) * Unit
         /\ (Units(n) * Unit) \div Unit = Units(n)
<1> DEFINE m == n + Unit - 1
           k == m \div Unit
<1>1. n \in Nat \ {0} /\ n + 2 * Unit <= Word /\ Unit \in Nat \ {0} /\ Word \in Nat
  BY RequestsAssumption, HeapAssumption, WordAssumption
<1>2. m \in Nat /\ m < Word /\ m = n + Unit - 1
  BY <1>1
<1> HIDE DEF m
<1>3. m % Word = m
  BY <1>1, <1>2
<1>4. k \in Nat /\ k * Unit <= m /\ m < k * Unit + Unit
  <2>1. \A a \in Nat, d \in Nat \ {0} :
          a \div d \in Nat /\ (a \div d) * d <= a /\ a < (a \div d) * d + d
    OBVIOUS
  <2> QED
    BY <1>1, <1>2, <2>1
<1>5. Units(n) = k + 1
  BY <1>3 DEF Units, m
<1> HIDE DEF k
<1>6. (k + 1) * Unit = k * Unit + Unit /\ k * Unit \in Nat
  BY <1>1, <1>4
<1>7. n <= k * Unit /\ (k + 1) * Unit < Word /\ (k + 1) * Unit \in Nat
  BY <1>1, <1>2, <1>4, <1>6
<1>8. ((k + 1) * Unit) % Word = (k + 1) * Unit
  BY <1>1, <1>7
<1>9. ((k + 1) * Unit) \div Unit = k + 1
  BY <1>1, <1>4
<1>10. (k + 1) - 1 = k /\ k + 1 \in Nat /\ 1 <= k + 1
  BY <1>4
<1> QED
  BY <1>5, <1>7, <1>8, <1>9, <1>10

-----------------------------------------------------------------------------
(* The invariant is inductive. *)

LEMMA InitInv == Init => IInv
<1> SUFFICES ASSUME Init PROVE IInv
  OBVIOUS
<1> USE DEF Init
<1>1. ptr \in [Addr -> Addr] /\ Ordered({Base}, ptr) /\ Base \in Addr /\ Base = 0
  BY HeapAssumption DEF Addr, Base, Ordered
<1>2. FreeList = {Base}
  BY <1>1, ListIs DEF FreeList
<1>3. DOMAIN live = {}
  OBVIOUS
<1>4. TypeOK
  BY <1>1, <1>3, HeapAssumption DEF TypeOK, Addr
<1>5. Allotted = {}
  BY <1>2, <1>3 DEF Allotted, InTransit, Inserting
<1>6. ListInv
  BY <1>1, <1>2 DEF ListInv, Merged
<1>7. BlockInv
  BY <1>2, <1>3, <1>5 DEF BlockInv, Tiles, Inserting
<1>8. CallInv /\ SearchInv
  BY DEF CallInv, SearchInv, Inserting
<1> QED
  BY <1>4, <1>6, <1>7, <1>8 DEF IInv

\* What the steps keep needing of the invariant.
LEMMA Facts ==
  ASSUME IInv
  PROVE  /\ Addr \subseteq Nat /\ Base = 0 /\ Base \in Addr /\ NULL \notin Addr
         /\ FreeList \subseteq Addr /\ Base \in FreeList
         /\ ptr \in [Addr -> Addr] /\ size \in [Addr -> Nat] /\ heap_ptr \in Nat
         /\ \A a \in FreeList : ptr[a] \in FreeList
         /\ Start \in FreeList /\ Start \in Addr
         /\ Allotted \subseteq Addr /\ DOMAIN live \subseteq Addr
<1>1. Addr \subseteq Nat /\ Base = 0 /\ Base \in Addr /\ NULL \notin Addr
  BY HeapAssumption DEF Addr, Base, NULL
<1>2. FreeList \subseteq Addr /\ Base \in FreeList /\ \A a \in FreeList : ptr[a] \in FreeList
  BY DEF IInv, ListInv, Ordered
<1>3. size \in [Addr -> Nat] /\ heap_ptr \in Nat /\ ptr \in [Addr -> Addr]
  BY HeapAssumption DEF IInv, TypeOK
<1>4. Start \in FreeList
  BY <1>1, <1>2 DEF IInv, CallInv, Start
<1>5. Allotted \subseteq Addr
  <2>1. InTransit \subseteq Addr /\ DOMAIN live \subseteq Addr
    BY HeapAssumption DEF IInv, TypeOK, InTransit, Addr
  <2> QED
    BY <1>2, <2>1 DEF Allotted
<1>6. DOMAIN live \subseteq Addr
  BY HeapAssumption DEF IInv, TypeOK, Addr
<1> QED
  BY <1>1, <1>2, <1>3, <1>4, <1>5, <1>6

\* Steps that touch neither the list nor the sizes nor the set of blocks.
LEMMA QuietStep ==
  ASSUME IInv, UNCHANGED <<ptr, size, heap_ptr, live>>, InTransit' = InTransit,
         Inserting' => Inserting /\ bp' = bp
  PROVE  ListInv' /\ BlockInv' /\ FreeList' = FreeList
<1>1. FreeList' = FreeList
  BY DEF FreeList
<1>2. Allotted' = Allotted
  BY <1>1 DEF Allotted
<1>3. ListInv'
  BY <1>1 DEF IInv, ListInv
<1>4. BlockInv'
  BY <1>1, <1>2 DEF IInv, BlockInv, Inserting
<1> QED
  BY <1>1, <1>3, <1>4

LEMMA CallMallocStep ==
  ASSUME IInv, NEW n \in Requests, CallMalloc(n)
  PROVE  IInv'
<1> USE DEF CallMalloc
<1>1. ListInv' /\ BlockInv' /\ FreeList' = FreeList
  BY QuietStep DEF InTransit, Inserting
<1>2. TypeOK'
  BY Facts DEF IInv, TypeOK
<1>3. CallInv'
  BY <1>1, Facts DEF CallInv, Inserting
<1>4. SearchInv'
  BY <1>1, Facts, Walking DEF IInv, ListInv, SearchInv
<1> QED
  BY <1>1, <1>2, <1>3, <1>4 DEF IInv

LEMMA NextBlockStep ==
  ASSUME IInv, NextBlock
  PROVE  IInv'
<1> USE DEF NextBlock
<1>1. ListInv' /\ BlockInv' /\ FreeList' = FreeList
  BY QuietStep DEF InTransit, Inserting
<1>2. /\ p \in FreeList /\ freep \in FreeList /\ p # freep /\ nunits' = nunits
      /\ Ordered(FreeList, ptr) /\ p' = ptr[p] /\ prevp' = p /\ size[p] < nunits
  BY Facts DEF IInv, CallInv, ListInv, WrappedAround, nunits
<1>3. TypeOK'
  BY <1>2, Facts DEF IInv, TypeOK
<1>4. CallInv'
  BY <1>1, <1>2 DEF IInv, CallInv, Inserting
<1>5. SearchInv'
  <2>1. ASSUME NEW a \in FreeList, Passed(freep, ptr[p], a) PROVE size[a] < nunits
    <3>1. Passed(freep, p, a) \/ a = p
      BY <1>2, <2>1, Facts, Walking
    <3> QED
      BY <1>2, <3>1 DEF IInv, SearchInv
  <2> QED
    BY <1>1, <1>2, <2>1 DEF SearchInv
<1> QED
  BY <1>1, <1>3, <1>4, <1>5 DEF IInv

LEMMA OutOfMemoryStep ==
  ASSUME IInv, OutOfMemory
  PROVE  IInv'
<1> USE DEF OutOfMemory, Exhausted, Return
<1>1. ListInv' /\ BlockInv' /\ FreeList' = FreeList
  BY QuietStep DEF InTransit, Inserting
<1>2. TypeOK'
  BY Facts DEF IInv, TypeOK
<1>3. CallInv'
  BY <1>1, Facts DEF IInv, CallInv, Inserting
<1>4. SearchInv'
  BY DEF SearchInv
<1> QED
  BY <1>1, <1>2, <1>3, <1>4 DEF IInv

LEMMA WalkStep ==
  ASSUME IInv, Walk
  PROVE  IInv'
<1> USE DEF Walk
<1>1. ListInv' /\ BlockInv' /\ FreeList' = FreeList
  BY QuietStep DEF InTransit, Inserting
<1>2. q \in FreeList
  BY DEF IInv, CallInv
<1>3. TypeOK'
  BY <1>2, Facts DEF IInv, TypeOK
<1>4. CallInv'
  BY <1>1, <1>2, Facts DEF IInv, CallInv, Inserting
<1>5. SearchInv'
  BY DEF SearchInv, Inserting
<1> QED
  BY <1>1, <1>3, <1>4, <1>5 DEF IInv

LEMMA CallFreeStep ==
  ASSUME IInv, NEW b \in DOMAIN live, CallFree(b)
  PROVE  IInv'
<1> USE DEF CallFree
<1>1. FreeList' = FreeList
  BY DEF FreeList
<1>2. /\ b \in Addr /\ b \in 1 .. HEAP /\ DOMAIN live' = DOMAIN live \ {b}
      /\ \A a \in DOMAIN live' : live'[a] = live[a]
  BY HeapAssumption DEF IInv, TypeOK, Addr
<1>3. TypeOK'
  BY <1>2, Facts DEF IInv, TypeOK
<1>4. ListInv'
  BY <1>1 DEF IInv, ListInv
<1>5. Allotted' = Allotted
  BY <1>1, <1>2 DEF Allotted, InTransit, Inserting
<1>6. BlockInv'
  <2>1. bp' = b /\ b # Base /\ b \notin FreeList
    BY <1>2, HeapAssumption DEF IInv, BlockInv, Base
  <2> QED
    BY <1>1, <1>2, <1>5, <2>1 DEF IInv, BlockInv, Inserting
<1>7. CallInv'
  BY <1>1, Facts DEF CallInv, Inserting
<1>8. SearchInv'
  BY DEF SearchInv
<1> QED
  BY <1>3, <1>4, <1>6, <1>7, <1>8 DEF IInv

\* Granting a block adds it to the client's.
LEMMA Granting ==
  ASSUME NEW b, b \notin DOMAIN live, Grant(b)
  PROVE  /\ DOMAIN live' = DOMAIN live \cup {b} /\ live'[b] = nbytes
         /\ \A a \in DOMAIN live : live'[a] = live[a]
BY DEF Grant

\* Where a search has found a block.
LEMMA Found ==
  ASSUME IInv, Fits
  PROVE  /\ p \in FreeList \ {Base} /\ prevp \in FreeList /\ p = ptr[prevp]
         /\ nbytes \in Requests /\ nunits = Units(nbytes) /\ nunits \in Nat /\ 1 <= nunits
         /\ p \in Allotted /\ p \notin DOMAIN live /\ ~Inserting
         /\ p \in Addr /\ size[p] \in Nat /\ 1 <= size[p] /\ p + size[p] <= heap_ptr
<1>1. /\ pc = "malloc" /\ prevp \in FreeList /\ p = ptr[prevp] /\ nbytes \in Requests
      /\ size[p] >= nunits /\ ~Inserting
  BY DEF IInv, CallInv, Fits, Inserting
<1>2. nunits = Units(nbytes) /\ nunits \in Nat /\ 1 <= nunits
  BY <1>1, UnitsFit DEF nunits
<1>3. p \in FreeList /\ p # Base
  BY <1>1, <1>2, Facts DEF IInv, ListInv
<1>4. p \in Allotted /\ p \notin DOMAIN live
  BY <1>3 DEF Allotted, IInv, BlockInv
<1>5. p \in Addr /\ size[p] \in Nat /\ 1 <= size[p] /\ p + size[p] <= heap_ptr
  BY <1>3, <1>4, Facts DEF IInv, BlockInv, Tiles
<1> QED
  BY <1>1, <1>2, <1>3, <1>4, <1>5

LEMMA FitExactStep ==
  ASSUME IInv, FitExact
  PROVE  IInv'
<1> USE DEF FitExact
<1>1. /\ p \in FreeList \ {Base} /\ prevp \in FreeList /\ p = ptr[prevp]
      /\ nbytes \in Requests /\ nunits = Units(nbytes)
      /\ p \in Allotted /\ p \notin DOMAIN live /\ ~Inserting
      /\ p \in Addr /\ prevp \in Addr /\ size[p] = nunits
  BY Found, Facts
<1>2. Ordered(FreeList \ {p}, ptr') /\ p # prevp
  BY <1>1, Remove, Facts DEF IInv, ListInv
<1>3. ptr' \in [Addr -> Addr]
  BY <1>1, Facts
<1>4. FreeList' = FreeList \ {p}
  BY <1>2, <1>3, ListIs DEF FreeList
<1>5. /\ DOMAIN live' = DOMAIN live \cup {p} /\ live'[p] = nbytes
      /\ \A a \in DOMAIN live : live'[a] = live[a]
  BY <1>1, Granting
<1>6. Allotted' = Allotted
  BY <1>1, <1>4, <1>5 DEF Allotted, InTransit, Inserting, Return
<1>7. TypeOK'
  <2>1. p \in 1 .. HEAP
    BY <1>1, HeapAssumption DEF Addr, Base
  <2>2. freep' \in Addr /\ {prevp', p', bp', q'} \subseteq Addr /\ pc' = "idle" /\ nbytes' = 0
    BY <1>1, Facts DEF Return
  <2> QED
    BY <1>1, <1>3, <1>5, <2>1, <2>2 DEF IInv, TypeOK
<1>8. ListInv'
  BY <1>2, <1>4 DEF IInv, ListInv, Merged
<1>9. BlockInv'
  BY <1>1, <1>4, <1>5, <1>6 DEF IInv, BlockInv, Inserting, Return
<1>10. CallInv' /\ SearchInv'
  BY <1>1, <1>2, <1>4 DEF CallInv, SearchInv, Inserting, Return
<1> QED
  BY <1>7, <1>8, <1>9, <1>10 DEF IInv

\* The tail that FitSplit gives away lies in the heap and begins no other block.
tail == p + (size[p] - nunits)

LEMMA GivenTail ==
  ASSUME IInv, FitSplit
  PROVE  /\ tail \in 1 .. HEAP /\ tail \in Addr /\ p < tail /\ size[p] - nunits \in Nat
         /\ Tiles(Allotted \cup {tail},
                  [size EXCEPT ![p] = size[p] - nunits, ![tail] = nunits], heap_ptr)
         /\ tail \notin Allotted /\ tail \notin DOMAIN live
         /\ Grant(tail) /\ heap_ptr \in 1 .. HEAP + 1
         /\ size' = [size EXCEPT ![p] = size[p] - nunits, ![tail] = nunits]
<1> DEFINE rest == size[p] - nunits
           b    == p + rest
<1>1. /\ p \in FreeList \ {Base} /\ prevp \in FreeList /\ p = ptr[prevp]
      /\ nbytes \in Requests /\ nunits = Units(nbytes) /\ nunits \in Nat /\ 1 <= nunits
      /\ p \in Allotted /\ p \notin DOMAIN live /\ ~Inserting
      /\ p \in Addr /\ p \in Nat /\ size[p] \in Nat /\ p + size[p] <= heap_ptr
      /\ nunits < size[p]
  BY Found, Facts DEF FitSplit
<1>2. heap_ptr \in 1 .. HEAP + 1 /\ b \in 1 .. HEAP /\ b \in Addr /\ p < b /\ rest \in Nat
  <2>1. heap_ptr \in 1 .. HEAP + 1
    BY DEF IInv, TypeOK
  <2>2. 1 <= p
    BY <1>1, Facts
  <2>3. b \in 1 .. HEAP /\ p < b /\ rest \in Nat
    BY <1>1, <2>1, <2>2, HeapAssumption
  <2> QED
    BY <2>1, <2>3, HeapAssumption DEF Addr
<1>3. /\ Tiles(Allotted \cup {b}, [size EXCEPT ![p] = rest, ![b] = nunits], heap_ptr)
      /\ b \notin Allotted
  BY <1>1, <1>2, Facts, TilesSplit DEF IInv, BlockInv
<1>4. b \notin DOMAIN live
  BY <1>3 DEF Allotted
<1> QED
  BY <1>2, <1>3, <1>4 DEF FitSplit, tail

LEMMA FitSplitStep ==
  ASSUME IInv, FitSplit
  PROVE  IInv'
<1> DEFINE rest == size[p] - nunits
           b    == tail
<1>1. /\ p \in FreeList \ {Base} /\ prevp \in FreeList /\ p = ptr[prevp]
      /\ nbytes \in Requests /\ nunits = Units(nbytes) /\ nunits \in Nat /\ 1 <= nunits
      /\ p \in Allotted /\ p \notin DOMAIN live /\ ~Inserting
      /\ p \in Addr /\ p \in Nat /\ size[p] \in Nat /\ p + size[p] <= heap_ptr
      /\ nunits < size[p]
  BY Found, Facts DEF FitSplit
<1>2. /\ heap_ptr \in 1 .. HEAP + 1 /\ b \in 1 .. HEAP /\ b \in Addr /\ p < b /\ rest \in Nat
      /\ b = p + rest
  BY GivenTail DEF tail
<1>3. /\ Tiles(Allotted \cup {b}, [size EXCEPT ![p] = rest, ![b] = nunits], heap_ptr)
      /\ b \notin Allotted
  BY GivenTail
<1>4. /\ size' = [size EXCEPT ![p] = rest, ![b] = nunits] /\ Grant(b)
      /\ freep' = prevp /\ Return /\ UNCHANGED <<ptr, heap_ptr>>
  BY GivenTail DEF FitSplit
<1> HIDE DEF b, rest
<1>5. b \notin DOMAIN live /\ b \notin FreeList
  BY <1>1, <1>2, <1>3, HeapAssumption DEF Allotted, Base
<1>6. /\ DOMAIN live' = DOMAIN live \cup {b} /\ live'[b] = nbytes
      /\ \A a \in DOMAIN live : live'[a] = live[a]
  BY <1>4, <1>5, Granting
<1>7. FreeList' = FreeList
  BY <1>4 DEF FreeList
<1>8. Allotted' = Allotted \cup {b}
  BY <1>1, <1>4, <1>6, <1>7 DEF Allotted, InTransit, Inserting, Return
<1>9. size'[p] = rest /\ size'[b] = nunits /\ \A a \in Addr \ {p, b} : size'[a] = size[a]
  BY <1>1, <1>2, <1>4, Facts
<1>10. TypeOK'
  <2>1. size' \in [Addr -> 0 .. HEAP]
    <3>1. rest \in 0 .. HEAP /\ nunits \in 0 .. HEAP
      BY <1>1, <1>2, HeapAssumption DEF rest
    <3> QED
      BY <1>4, <3>1 DEF IInv, TypeOK
  <2>2. freep' \in Addr /\ {prevp', p', bp', q'} \subseteq Addr /\ pc' = "idle" /\ nbytes' = 0
    BY <1>1, <1>4, Facts DEF Return
  <2> QED
    BY <1>1, <1>2, <1>4, <1>6, <2>1, <2>2 DEF IInv, TypeOK
<1>11. ListInv'
  <2>1. size'[Base] = 0
    BY <1>1, <1>2, <1>9, Facts DEF IInv, ListInv
  <2>2. ASSUME NEW a \in FreeList \ {Base} PROVE a + size'[a] \notin FreeList
    <3>1. CASE a = p
      BY <1>2, <1>5, <1>9, <3>1
    <3>2. CASE a # p
      BY <1>5, <1>9, <3>2, Facts DEF IInv, ListInv, Merged
    <3> QED
      BY <3>1, <3>2
  <2> QED
    BY <1>4, <1>7, <2>1, <2>2 DEF IInv, ListInv, Merged
<1>12. BlockInv'
  <2>1. \A a \in DOMAIN live' : size'[a] = Units(live'[a])
    <3>1. \A a \in DOMAIN live : a \in Addr \ {p, b}
      BY <1>1, <1>5, Facts DEF Allotted
    <3> QED
      BY <1>1, <1>6, <1>9, <3>1 DEF IInv, BlockInv
  <2>2. FreeList' \cap DOMAIN live' = {}
    BY <1>5, <1>6, <1>7 DEF IInv, BlockInv
  <2> QED
    BY <1>3, <1>4, <1>8, <2>1, <2>2 DEF BlockInv, Inserting, Return
<1>13. CallInv' /\ SearchInv'
  BY <1>1, <1>4, <1>7 DEF CallInv, SearchInv, Inserting, Return
<1> QED
  BY <1>10, <1>11, <1>12, <1>13 DEF IInv

LEMMA MorecoreStep ==
  ASSUME IInv, my_morecore
  PROVE  IInv'
<1> USE DEF my_morecore, Exhausted
<1>1. /\ nbytes \in Requests /\ nunits = Units(nbytes) /\ nunits \in Nat /\ 1 <= nunits
      /\ increment \div Unit = nunits /\ freep \in FreeList /\ ~Inserting
  BY UnitsFit DEF IInv, CallInv, nunits, increment, Inserting
<1>2. /\ heap_ptr \in 1 .. HEAP /\ heap_ptr' = heap_ptr + nunits /\ heap_ptr' <= HEAP + 1
      /\ heap_ptr \in Addr
  BY <1>1, HeapAssumption DEF IInv, TypeOK, HeapHas, Addr
<1>3. Tiles(Allotted \cup {heap_ptr}, size', heap_ptr') /\ heap_ptr \notin Allotted
  <2>1. /\ Tiles(Allotted, size, heap_ptr) /\ Allotted \in SUBSET Addr /\ size \in [Addr -> Nat]
        /\ 1 <= heap_ptr
    BY <1>2, Facts DEF IInv, BlockInv
  <2>2. /\ Tiles(Allotted \cup {heap_ptr}, [size EXCEPT ![heap_ptr] = nunits], heap_ptr + nunits)
        /\ heap_ptr \notin Allotted
    BY <1>1, <1>2, <2>1, TilesGrow
  <2> QED
    BY <1>2, <2>2
<1>4. FreeList' = FreeList
  BY DEF FreeList
<1>5. Allotted' = Allotted \cup {heap_ptr}
  BY <1>1, <1>4 DEF Allotted, InTransit, Inserting
<1>6. heap_ptr \notin FreeList /\ heap_ptr \notin DOMAIN live /\ heap_ptr # Base
  BY <1>2, <1>3 DEF Allotted, Base
<1>7. TypeOK'
  <2>1. size' \in [Addr -> 0 .. HEAP]
    BY <1>1, <1>2, HeapAssumption DEF IInv, TypeOK
  <2> QED
    BY <1>1, <1>2, <2>1, Facts DEF IInv, TypeOK
<1>8. \A a \in FreeList \cup DOMAIN live : size'[a] = size[a]
  BY <1>6, Facts DEF IInv, TypeOK
<1>9. ListInv'
  BY <1>4, <1>8, Facts DEF IInv, ListInv, Merged
<1>10. BlockInv'
  BY <1>3, <1>4, <1>5, <1>6, <1>8 DEF IInv, BlockInv, Inserting
<1>11. CallInv' /\ SearchInv'
  BY <1>1, <1>4 DEF CallInv, SearchInv, Inserting
<1> QED
  BY <1>7, <1>9, <1>10, <1>11 DEF IInv

\* Where the walk of kr_free has stopped, and what may touch the block to be linked.
LEMMA Stopped ==
  ASSUME IInv, Inserting, Between
  PROVE  /\ bp \in Addr /\ bp # Base /\ bp \notin FreeList /\ bp \notin DOMAIN live
         /\ q \in FreeList /\ q < bp /\ (bp < ptr[q] \/ ptr[q] = Base)
         /\ bp \in Allotted /\ 1 <= size[bp]
         /\ TouchesNext => ptr[q] # Base /\ bp < ptr[q]
         /\ TouchesPrev => q # Base
         /\ \A a \in FreeList : a <= q \/ (ptr[q] <= a /\ bp + size[bp] <= a)
         /\ ptr[q] = Base => \A a \in FreeList : a <= q
<1>1. /\ bp \in Addr /\ bp # Base /\ bp \notin FreeList /\ bp \notin DOMAIN live /\ q \in FreeList
      /\ Ordered(FreeList, ptr)
  BY DEF IInv, TypeOK, BlockInv, CallInv, ListInv
<1>2. bp \in Allotted
  BY DEF Allotted, InTransit
<1>3. /\ 1 <= size[bp] /\ 1 <= bp /\ bp \in Nat /\ size[bp] \in Nat /\ q \in Nat
      /\ ptr[q] \in FreeList /\ ptr[q] \in Nat /\ Base = 0
  BY <1>1, <1>2, Facts DEF IInv, BlockInv, Tiles
<1>4. \/ q < ptr[q] /\ \A a \in FreeList : a <= q \/ ptr[q] <= a
      \/ ptr[q] = Base /\ \A a \in FreeList : a <= q
  BY <1>1 DEF Ordered
<1>5. q < bp /\ (bp < ptr[q] \/ ptr[q] = Base)
  BY <1>1, <1>3, <1>4 DEF Between
<1>6. TouchesNext => ptr[q] # Base /\ bp < ptr[q]
  BY <1>3 DEF TouchesNext
<1>7. TouchesPrev => q # Base
  BY <1>1, <1>3 DEF TouchesPrev, IInv, ListInv
<1>8. ASSUME NEW a \in FreeList, ~(a <= q) PROVE ptr[q] <= a /\ bp + size[bp] <= a
  <2>1. a \in Nat /\ a # Base
    BY <1>3, <1>8, Facts
  <2>2. bp < a /\ a \in Allotted
    BY <1>3, <1>4, <1>5, <1>8, <2>1 DEF Allotted
  <2>3. bp + size[bp] <= a
    BY <1>2, <2>2 DEF IInv, BlockInv, Tiles
  <2> QED
    BY <1>3, <1>4, <1>8, <2>1, <2>3
<1>9. ptr[q] = Base => \A a \in FreeList : a <= q
  BY <1>3, <1>4
<1> QED
  BY <1>1, <1>2, <1>3, <1>5, <1>6, <1>7, <1>8, <1>9

\* The headers of the list once kr_free has linked bp.
Linked == ((FreeList \cup {bp}) \ (IF TouchesNext THEN {ptr[q]} ELSE {}))
            \ (IF TouchesPrev THEN {bp} ELSE {})

LEMMA LinkList ==
  ASSUME IInv, Link
  PROVE  Ordered(Linked, ptr') /\ FreeList' = Linked /\ ptr' \in [Addr -> Addr]
<1> DEFINE nx == ptr[q]
           l1 == [ptr EXCEPT ![bp] = nx, ![q] = bp]
           l2 == IF TouchesNext THEN [l1 EXCEPT ![bp] = l1[nx]] ELSE l1
           l3 == IF TouchesPrev THEN [l2 EXCEPT ![q] = l2[bp]] ELSE l2
           F1 == FreeList \cup {bp}
           F2 == IF TouchesNext THEN F1 \ {nx} ELSE F1
<1>1. /\ bp \in Addr /\ bp # Base /\ bp \notin FreeList /\ q \in FreeList /\ q < bp
      /\ bp < nx \/ nx = Base
      /\ TouchesNext => nx # Base /\ bp < nx
      /\ TouchesPrev => q # Base
      /\ q \in Addr /\ nx \in Addr /\ nx \in FreeList /\ Addr \subseteq Nat
      /\ ptr \in [Addr -> Addr] /\ FreeList \subseteq Addr
      /\ Ordered(FreeList, ptr)
  BY Stopped, Facts DEF Link, IInv, ListInv
<1>2. Ordered(F1, l1)
  BY <1>1, Insert
<1>3. l1 \in [Addr -> Addr] /\ l1[bp] = nx /\ l1[q] = bp /\ bp # q
  BY <1>1
<1>4. Ordered(F2, l2)
  <2>1. CASE TouchesNext
    <3>1. l1[bp] # Base /\ bp \in F1
      BY <1>1, <1>3, <2>1
    <3> HIDE DEF l1, F1, nx
    <3>2. Ordered(F1 \ {l1[bp]}, [l1 EXCEPT ![bp] = l1[l1[bp]]])
      BY <1>2, <1>3, <3>1, Remove
    <3> QED
      BY <1>3, <2>1, <3>2
  <2>2. CASE ~TouchesNext
    BY <1>2, <2>2
  <2> QED
    BY <2>1, <2>2
<1>5. l2 \in [Addr -> Addr] /\ l2[q] = bp /\ q \in F2
  <2>1. l1[nx] \in Addr
    BY <1>1, <1>3
  <2>2. TouchesNext => nx # q
    BY <1>1
  <2> QED
    BY <1>1, <1>3, <2>1, <2>2
<1>6. Ordered(Linked, l3)
  <2>1. Linked = IF TouchesPrev THEN F2 \ {bp} ELSE F2
    BY DEF Linked
  <2> HIDE DEF l2, F2
  <2>2. CASE TouchesPrev
    <3>1. Ordered(F2 \ {l2[q]}, [l2 EXCEPT ![q] = l2[l2[q]]])
      BY <1>1, <1>4, <1>5, Remove
    <3> QED
      BY <1>5, <2>1, <2>2, <3>1
  <2>3. CASE ~TouchesPrev
    BY <1>4, <2>1, <2>3
  <2> QED
    BY <2>2, <2>3
<1>7. ptr' = l3
  <2> DEFINE next == IF TouchesNext THEN ptr[nx] ELSE nx
  <2>1. ptr' = [ptr EXCEPT ![bp] = next, ![q] = IF TouchesPrev THEN next ELSE bp]
    BY DEF Link
  <2>2. TouchesNext => l1[nx] = ptr[nx]
    <3>1. TouchesNext => nx # q /\ nx # bp
      BY <1>1
    <3> HIDE DEF nx
    <3> QED
      BY <1>1, <3>1
  <2>3. l2 = [ptr EXCEPT ![bp] = next, ![q] = bp]
    <3>1. CASE TouchesNext
      <4>1. l2 = [l1 EXCEPT ![bp] = next]
        BY <2>2, <3>1
      <4> HIDE DEF l2, next
      <4> QED
        BY <1>1, <1>3, <4>1
    <3>2. CASE ~TouchesNext
      BY <3>2
    <3> QED
      BY <3>1, <3>2
  <2> HIDE DEF next, l2
  <2>4. l2[bp] = next
    BY <1>1, <1>3, <2>3
  <2> QED
    BY <1>1, <1>3, <2>1, <2>3, <2>4
<1>8. ptr' \in [Addr -> Addr]
  <2>1. l2[bp] \in Addr
    BY <1>1, <1>5
  <2> HIDE DEF l2
  <2> QED
    BY <1>1, <1>5, <1>7, <2>1
<1> QED
  BY <1>6, <1>7, <1>8, ListIs DEF FreeList

LEMMA LinkBlocks ==
  ASSUME IInv, Link
  PROVE  /\ Tiles(Allotted', size', heap_ptr) /\ size' \in [Addr -> Nat]
         /\ \A a \in Addr \ {bp, q} : size'[a] = size[a]
         /\ size'[bp] = IF TouchesNext THEN size[bp] + size[ptr[q]] ELSE size[bp]
         /\ size'[q] = IF TouchesPrev THEN size[q] + size'[bp] ELSE size[q]
<1> DEFINE nx == ptr[q]
           s1 == IF TouchesNext THEN [size EXCEPT ![bp] = size[bp] + size[nx]] ELSE size
           s2 == IF TouchesPrev THEN [s1 EXCEPT ![q] = s1[q] + s1[bp]] ELSE s1
           A1 == IF TouchesNext THEN Allotted \ {nx} ELSE Allotted
           A2 == IF TouchesPrev THEN A1 \ {bp} ELSE A1
<1>1. /\ bp \in Addr /\ bp # Base /\ bp \notin FreeList /\ bp \notin DOMAIN live /\ q \in FreeList
      /\ q < bp /\ bp \in Allotted
      /\ TouchesNext => nx # Base /\ bp < nx
      /\ TouchesPrev => q # Base
      /\ q \in Addr /\ nx \in Addr /\ nx \in FreeList /\ Addr \subseteq Nat
      /\ size \in [Addr -> Nat] /\ FreeList \subseteq Addr /\ heap_ptr \in Nat
      /\ Allotted \in SUBSET Addr /\ Tiles(Allotted, size, heap_ptr)
      /\ FreeList \cap DOMAIN live = {} /\ Inserting /\ Base = 0
  BY Stopped, Facts DEF Link, IInv, BlockInv
<1>2. size[bp] \in Nat /\ size[nx] \in Nat /\ size[q] \in Nat /\ bp # q /\ bp \in Nat /\ q \in Nat
  BY <1>1
<1>3. s1 \in [Addr -> Nat]
  BY <1>1, <1>2
<1>4. /\ s1[bp] = IF TouchesNext THEN size[bp] + size[nx] ELSE size[bp]
      /\ \A a \in Addr \ {bp} : s1[a] = size[a]
  BY <1>1, <1>2
<1>5. Tiles(A1, s1, heap_ptr)
  <2>1. CASE TouchesNext
    <3>1. bp + size[bp] = nx /\ nx \in Allotted
      BY <1>1, <2>1 DEF TouchesNext, Allotted
    <3> HIDE DEF nx
    <3> QED
      BY <1>1, <2>1, <3>1, TilesMerge
  <2>2. CASE ~TouchesNext
    BY <1>1, <2>2
  <2> QED
    BY <2>1, <2>2
<1>6. bp \in A1 /\ A1 \in SUBSET Addr /\ (TouchesPrev => q \in A1)
  <2>1. TouchesNext => nx # q /\ nx # bp
    BY <1>1, <1>2
  <2>2. TouchesPrev => q \in Allotted
    BY <1>1 DEF Allotted
  <2> QED
    BY <1>1, <2>1, <2>2
<1>7. Tiles(A2, s2, heap_ptr)
  <2> HIDE DEF s1, A1
  <2>1. CASE TouchesPrev
    <3>1. q + s1[q] = bp
      BY <1>1, <1>2, <1>4, <2>1 DEF TouchesPrev
    <3>2. Tiles(A1 \ {q + s1[q]}, [s1 EXCEPT ![q] = s1[q] + s1[q + s1[q]]], heap_ptr)
      BY <1>1, <1>3, <1>5, <1>6, <2>1, <3>1, TilesMerge
    <3> QED
      BY <2>1, <3>1, <3>2
  <2>2. CASE ~TouchesPrev
    BY <1>5, <2>2
  <2> QED
    BY <2>1, <2>2
<1>8. Allotted' = A2
  <2>1. FreeList' = Linked
    BY LinkList
  <2>2. InTransit' = {} /\ InTransit = {bp} /\ live' = live
    BY <1>1 DEF Link, InTransit, Inserting, Return
  <2>3. Allotted' = (Linked \ {Base}) \cup DOMAIN live
    BY <2>1, <2>2 DEF Allotted
  <2>4. Allotted = (FreeList \ {Base}) \cup {bp} \cup DOMAIN live
    BY <2>2 DEF Allotted
  <2> HIDE DEF nx
  <2> QED
    BY <1>1, <2>3, <2>4 DEF Linked, nx
<1>9. size' = s2
  <2> DEFINE merged == size[bp] + (IF TouchesNext THEN size[nx] ELSE 0)
  <2>1. size' = [size EXCEPT ![bp] = merged, ![q] = IF TouchesPrev THEN @ + merged ELSE @]
    BY DEF Link
  <2>2. s1 = [size EXCEPT ![bp] = merged]
    <3>1. CASE TouchesNext
      BY <3>1
    <3>2. CASE ~TouchesNext
      <4>1. merged = size[bp]
        BY <1>2, <3>2
      <4> HIDE DEF merged
      <4> QED
        BY <1>1, <3>2, <4>1
    <3> QED
      BY <3>1, <3>2
  <2>3. s1[bp] = merged /\ s1[q] = size[q]
    BY <1>1, <1>2, <1>4
  <2> HIDE DEF merged, s1
  <2>4. size' = [s1 EXCEPT ![q] = IF TouchesPrev THEN s1[q] + merged ELSE s1[q]]
    <3>1. CASE TouchesPrev
      <4>1. size' = [size EXCEPT ![bp] = merged, ![q] = size[q] + merged]
        BY <1>1, <1>2, <2>1, <3>1
      <4> QED
        BY <1>1, <1>2, <2>2, <2>3, <3>1, <4>1
    <3>2. CASE ~TouchesPrev
      <4>1. size' = [size EXCEPT ![bp] = merged, ![q] = size[q]]
        BY <1>1, <1>2, <2>1, <3>2
      <4> QED
        BY <1>1, <1>2, <2>2, <2>3, <3>2, <4>1
    <3> QED
      BY <3>1, <3>2
  <2>5. CASE TouchesPrev
    BY <2>3, <2>4, <2>5
  <2>6. CASE ~TouchesPrev
    BY <1>3, <2>3, <2>4, <2>6
  <2> QED
    BY <2>5, <2>6
<1> HIDE DEF s1
<1>10. /\ s2 \in [Addr -> Nat] /\ \A a \in Addr \ {q} : s2[a] = s1[a]
       /\ s2[q] = IF TouchesPrev THEN s1[q] + s1[bp] ELSE s1[q]
  BY <1>1, <1>2, <1>3
<1> HIDE DEF s2
<1> QED
  BY <1>1, <1>2, <1>4, <1>7, <1>8, <1>9, <1>10

LEMMA LinkStep ==
  ASSUME IInv, Link
  PROVE  IInv'
<1>1. /\ bp \in Addr /\ bp # Base /\ bp \notin FreeList /\ bp \notin DOMAIN live
      /\ q \in FreeList /\ q < bp
      /\ TouchesNext => ptr[q] # Base /\ bp < ptr[q]
      /\ TouchesPrev => q # Base
      /\ \A a \in FreeList : a <= q \/ (ptr[q] <= a /\ bp + size[bp] <= a)
      /\ ptr[q] = Base => \A a \in FreeList : a <= q
      /\ q \in Addr /\ ptr[q] \in Addr /\ ptr[q] \in FreeList /\ Addr \subseteq Nat /\ bp \in Nat
      /\ size \in [Addr -> Nat] /\ FreeList \subseteq Addr /\ Base = 0
      /\ Merged(FreeList, size) /\ size[Base] = 0 /\ Base \in Addr /\ 1 <= size[bp]
  BY Stopped, Facts DEF Link, IInv, ListInv
<1>2. Ordered(Linked, ptr') /\ FreeList' = Linked /\ ptr' \in [Addr -> Addr]
  BY LinkList
<1>3. /\ Tiles(Allotted', size', heap_ptr) /\ size' \in [Addr -> Nat]
      /\ \A a \in Addr \ {bp, q} : size'[a] = size[a]
      /\ size'[bp] = IF TouchesNext THEN size[bp] + size[ptr[q]] ELSE size[bp]
      /\ size'[q] = IF TouchesPrev THEN size[q] + size'[bp] ELSE size[q]
  BY LinkBlocks
<1>4. q \in Linked
  BY <1>1 DEF Linked
<1>5. freep' = q /\ UNCHANGED <<heap_ptr, live>> /\ ~Inserting'
  BY DEF Link, Inserting, Return
<1>6. /\ size'[Base] = 0
      /\ Merged(Linked, size')
  <2> DEFINE nx == ptr[q]
  <2>1. size'[Base] = 0
    <3>1. CASE Base = q
      BY <1>1, <1>3, <3>1
    <3>2. CASE Base # q
      BY <1>1, <1>3, <3>2
    <3> QED
      BY <3>1, <3>2
  <2>2. \A a \in FreeList \ {Base} : a + size[a] \notin FreeList
    BY <1>1 DEF Merged
  \* Where the new block ends there is no other: the next one was merged.
  <2>3. bp + size'[bp] \notin Linked
    <3>1. CASE TouchesNext
      <4>1. bp + size'[bp] = nx + size[nx]
        BY <1>1, <1>3, <3>1 DEF TouchesNext
      <4>2. nx + size[nx] \notin FreeList
        BY <1>1, <2>2, <3>1
      <4>3. nx + size[nx] # bp
        <5>1. nx \in Nat /\ size[nx] \in Nat /\ bp < nx
          BY <1>1, <3>1
        <5> HIDE DEF nx
        <5> QED
          BY <1>1, <5>1
      <4> QED
        BY <4>1, <4>2, <4>3 DEF Linked
    <3>2. CASE ~TouchesNext
      <4>1. size'[bp] = size[bp] /\ bp + size[bp] # nx
        BY <1>3, <3>2 DEF TouchesNext
      <4>2. \A a \in FreeList : a # bp + size[bp]
        <5> SUFFICES ASSUME bp + size[bp] \in FreeList PROVE FALSE
          OBVIOUS
        <5>1. bp + size[bp] > q /\ bp + size[bp] \in Nat /\ nx \in Nat
          <6>1. size[bp] \in Nat /\ q \in Nat /\ nx \in Nat
            BY <1>1
          <6> HIDE DEF nx
          <6> QED
            BY <1>1, <6>1
        <5>2. nx <= bp + size[bp] /\ nx # Base
          BY <1>1, <5>1
        <5>3. bp + size[bp] <= nx
          BY <1>1, <5>1, <5>2, Stopped DEF Link
        <5> QED
          BY <4>1, <5>1, <5>2, <5>3
      <4> QED
        BY <1>1, <4>1, <4>2 DEF Linked
    <3> QED
      BY <3>1, <3>2
  <2>4. ASSUME NEW a \in Linked \ {Base} PROVE a + size'[a] \notin Linked
    <3>1. CASE a = bp
      BY <2>3, <3>1
    <3>2. CASE a = q /\ TouchesPrev
      BY <1>1, <1>3, <2>3, <3>2 DEF TouchesPrev
    <3>3. CASE a # bp /\ ~(a = q /\ TouchesPrev)
      <4>1. a \in FreeList /\ a \in Addr /\ a \in Nat /\ q \in Nat
        BY <1>1, <3>3 DEF Linked
      <4>2. size'[a] = size[a] /\ size[a] \in Nat
        BY <1>1, <1>3, <3>3, <4>1
      <4>3. a + size[a] \notin FreeList
        BY <2>2, <4>1
      <4>4. a + size[a] # bp \/ bp \notin Linked
        <5>1. CASE a = q
          BY <3>3, <5>1 DEF TouchesPrev
        <5>2. CASE a < q
          <6>1. a \in Allotted /\ q \in Allotted
            BY <1>1, <4>1, <5>2 DEF Allotted
          <6>2. a + size[a] <= q
            BY <5>2, <6>1 DEF IInv, BlockInv, Tiles
          <6> QED
            BY <1>1, <4>1, <4>2, <6>2
        <5>3. CASE q < a
          BY <1>1, <4>1, <4>2, <5>3
        <5> QED
          BY <4>1, <5>1, <5>2, <5>3
      <4> QED
        BY <4>2, <4>3, <4>4 DEF Linked
    <3> QED
      BY <3>1, <3>2, <3>3
  <2> QED
    BY <2>1, <2>4 DEF Merged
<1>7. TypeOK'
  <2>1. heap_ptr \in 1 .. HEAP + 1 /\ size \in [Addr -> 0 .. HEAP]
    BY DEF IInv, TypeOK
  <2>2. \A a \in Allotted' : size'[a] \in 0 .. HEAP
    <3>1. ASSUME NEW a \in Allotted' PROVE size'[a] \in 0 .. HEAP
      <4>1. a \in Linked \cup DOMAIN live
        BY <1>2, <1>5 DEF Allotted, InTransit
      <4>2. a \in Addr
        BY <1>1, <4>1, Facts DEF Linked
      <4>3. 1 <= a /\ a + size'[a] <= heap_ptr
        BY <1>3 DEF Tiles
      <4> QED
        BY <1>1, <1>3, <2>1, <4>2, <4>3, HeapAssumption
    <3> QED
      BY <3>1
  <2>3. size'[q] \in 0 .. HEAP /\ size'[bp] \in 0 .. HEAP
    <3>1. q # Base => q \in Allotted'
      BY <1>2, <1>4 DEF Allotted
    <3>2. size'[q] \in 0 .. HEAP
      BY <1>6, <2>2, <3>1, HeapAssumption
    <3>3. CASE TouchesPrev
      <4>1. size'[q] = size[q] + size'[bp] /\ size[q] \in Nat /\ size'[bp] \in Nat
        BY <1>1, <1>3, <3>3
      <4> QED
        BY <3>2, <4>1, HeapAssumption
    <3>4. CASE ~TouchesPrev
      <4>1. bp \in Linked /\ bp \in Allotted'
        BY <1>1, <1>2, <3>4 DEF Allotted, Linked
      <4> QED
        BY <2>2, <3>2, <4>1
    <3> QED
      BY <3>3, <3>4
  <2>4. size' \in [Addr -> 0 .. HEAP]
    <3>1. \A a \in Addr : size'[a] \in 0 .. HEAP
      BY <1>3, <2>1, <2>3
    <3> QED
      BY <1>3, <3>1
  <2>5. freep' \in Addr /\ {prevp', p', bp', q'} \subseteq Addr
    BY <1>1, <1>2, <1>5 DEF Link, Return, IInv, TypeOK
  <2>6. pc' \in {"idle", "malloc", "free", "morecore"} /\ nbytes' \in Requests \cup {0}
    BY DEF Link, Return, IInv, TypeOK
  <2> QED
    BY <1>2, <1>5, <2>1, <2>4, <2>5, <2>6 DEF IInv, TypeOK
<1>8. BlockInv'
  <2>1. FreeList' \cap DOMAIN live = {}
    BY <1>1, <1>2 DEF Linked, IInv, BlockInv
  <2>2. \A a \in DOMAIN live : size'[a] = size[a]
    <3>1. \A a \in DOMAIN live : a \in Addr /\ a # bp /\ a # q
      BY <1>1, Facts DEF IInv, BlockInv
    <3> QED
      BY <1>3, <3>1
  <2> QED
    BY <1>3, <1>5, <2>1, <2>2 DEF IInv, BlockInv
<1>9. CallInv' /\ SearchInv'
  <2>1. pc' # "idle" => /\ pc = "morecore" /\ pc' = "malloc" /\ prevp' = q /\ p' = ptr'[q]
                        /\ nbytes' = nbytes /\ nbytes \in Requests
    BY DEF Link, Return, IInv, CallInv
  <2>2. CallInv'
    BY <1>2, <1>4, <1>5, <2>1 DEF CallInv
  <2>3. pc' = "malloc" => \A a \in Linked : ~Passed(q, ptr'[q], a)
    BY <1>2, <1>4, Walking
  <2> QED
    BY <1>2, <1>5, <2>1, <2>2, <2>3 DEF SearchInv
<1> QED
  BY <1>2, <1>6, <1>7, <1>8, <1>9 DEF IInv, ListInv

LEMMA InvStep == IInv /\ [Next]_vars => IInv'
<1> SUFFICES ASSUME IInv, [Next]_vars PROVE IInv'
  OBVIOUS
<1>1. ASSUME NEW n \in Requests, CallMalloc(n) PROVE IInv'
  BY <1>1, CallMallocStep
<1>2. ASSUME NEW b \in DOMAIN live, CallFree(b) PROVE IInv'
  BY <1>2, CallFreeStep
<1>3. CASE FitExact
  BY <1>3, FitExactStep
<1>4. CASE FitSplit
  BY <1>4, FitSplitStep
<1>5. CASE NextBlock
  BY <1>5, NextBlockStep
<1>6. CASE my_morecore
  BY <1>6, MorecoreStep
<1>7. CASE OutOfMemory
  BY <1>7, OutOfMemoryStep
<1>8. CASE Walk
  BY <1>8, WalkStep
<1>9. CASE Link
  BY <1>9, LinkStep
<1>10. CASE UNCHANGED vars
  <2>1. ListInv' /\ BlockInv' /\ FreeList' = FreeList
    BY <1>10, QuietStep DEF vars, InTransit, Inserting
  <2> QED
    BY <1>10, <2>1 DEF vars, IInv, TypeOK, CallInv, SearchInv, Inserting, nunits
<1> QED
  BY <1>1, <1>2, <1>3, <1>4, <1>5, <1>6, <1>7, <1>8, <1>9, <1>10 DEF Next, Step

\* The free list is ordered, closed and merged, the blocks tile the heap, and the calls in
\* progress hold on to the list, whatever kr_malloc and kr_free are asked.
THEOREM Invariance == Spec => []IInv
<1> QED
  BY InitInv, InvStep, PTL DEF Spec

\* The headers and the locals of kr-malloc.c keep their types, and heap_ptr its bounds.
THEOREM TypeCorrect == Spec => []TypeOK
<1> QED
  BY Invariance, PTL DEF IInv

LEMMA TilesDisjoint == IInv => Tiled
<1> SUFFICES ASSUME IInv PROVE Tiled
  OBVIOUS
<1>1. /\ Tiles(Allotted, size, heap_ptr) /\ Allotted \subseteq Nat /\ heap_ptr \in Nat
      /\ \A b \in Allotted : size[b] \in Nat
  BY Facts DEF IInv, BlockInv
<1>2. ASSUME NEW b \in Allotted, NEW u \in Extent(b) PROVE u \in 1 .. heap_ptr - 1
  <2>1. 1 <= b /\ b + size[b] <= heap_ptr
    BY <1>1 DEF Tiles
  <2> QED
    BY <1>1, <2>1 DEF Extent
<1>3. ASSUME NEW u \in 1 .. heap_ptr - 1 PROVE \E b \in Allotted : u \in Extent(b)
  <2>1. PICK b \in Allotted : b <= u /\ u < b + size[b]
    BY <1>1 DEF Tiles
  <2> QED
    BY <1>1, <2>1 DEF Extent
<1>4. ASSUME NEW a \in Allotted, NEW b \in Allotted, a # b
      PROVE  Extent(a) \cap Extent(b) = {}
  <2>1. a + size[a] <= b \/ b + size[b] <= a
    BY <1>1, <1>4 DEF Tiles
  <2> QED
    BY <1>1, <2>1 DEF Extent
<1> QED
  BY <1>2, <1>3, <1>4 DEF Tiled

\* No unit of the heap is lost or belongs to two blocks, between the calls of kr-malloc.c
\* and in the middle of them.
THEOREM NothingLost == Spec => []Tiled
<1> QED
  BY Invariance, TilesDisjoint, PTL

LEMMA OrderedCoalesced == IInv => Coalesced
<1> SUFFICES ASSUME IInv, NEW a \in FreeList
             PROVE  LET above == {b \in FreeList : b > a}
                    IN  /\ IF above = {} THEN ptr[a] = Base
                           ELSE ptr[a] \in above /\ \A b \in above : ptr[a] <= b
                        /\ a # Base => a + size[a] \notin FreeList
  BY DEF Coalesced
<1> DEFINE above == {b \in FreeList : b > a}
<1>1. /\ ptr[a] \in FreeList /\ FreeList \subseteq Nat /\ Base = 0 /\ a \in Nat
      /\ \/ a < ptr[a] /\ \A b \in FreeList : b <= a \/ ptr[a] <= b
         \/ ptr[a] = Base /\ \A b \in FreeList : b <= a
  BY Facts DEF IInv, ListInv, Ordered
<1>2. a # Base => a + size[a] \notin FreeList
  BY DEF IInv, ListInv, Merged
<1>3. IF above = {} THEN ptr[a] = Base ELSE ptr[a] \in above /\ \A b \in above : ptr[a] <= b
  <2>1. CASE a < ptr[a] /\ \A b \in FreeList : b <= a \/ ptr[a] <= b
    <3>1. ptr[a] \in above
      BY <1>1, <2>1
    <3>2. \A b \in above : ptr[a] <= b
      BY <1>1, <2>1
    <3> QED
      BY <3>1, <3>2
  <2>2. CASE ptr[a] = Base /\ \A b \in FreeList : b <= a
    <3>1. \A b \in FreeList : ~(b > a)
      BY <1>1, <2>2
    <3>2. above = {}
      BY <3>1
    <3> QED
      BY <2>2, <3>2
  <2> QED
    BY <1>1, <2>1, <2>2
<1> QED
  BY <1>2, <1>3

\* kr_free leaves the list in address order, with all that can be merged merged.
THEOREM KeptMerged == Spec => []Coalesced
<1> QED
  BY Invariance, OrderedCoalesced, PTL

LEMMA SearchedAll ==
  ASSUME IInv, Exhausted, NEW a \in FreeList
  PROVE  size[a] < nunits
<1>1. p \in FreeList /\ p = freep /\ pc = "malloc" /\ size[p] < nunits /\ Ordered(FreeList, ptr)
  BY Facts DEF Exhausted, WrappedAround, IInv, CallInv, ListInv
<1>2. a # p => Passed(freep, p, a)
  BY <1>1, Walking, Facts
<1> QED
  BY <1>1, <1>2 DEF IInv, SearchInv

\* kr_malloc asks for more memory, or returns 0, only when no free block would have done.
THEOREM RightToGiveUp == Spec => GivesUpRightly
<1>1. IInv /\ [Next]_vars =>
        [my_morecore \/ OutOfMemory => \A a \in FreeList : size[a] < nunits]_vars
  <2> SUFFICES ASSUME IInv, my_morecore \/ OutOfMemory, NEW a \in FreeList
               PROVE  size[a] < nunits
    OBVIOUS
  <2>1. Exhausted
    BY DEF my_morecore, OutOfMemory
  <2> QED
    BY <2>1, SearchedAll
<1> QED
  BY <1>1, Invariance, PTL DEF Spec, GivesUpRightly

-----------------------------------------------------------------------------
(* The allocator implements malloc and free. *)

LEMMA Scaling ==
  ASSUME NEW x \in Nat, NEW y \in Nat, x <= y
  PROVE  x * Unit \in Nat /\ y * Unit \in Nat /\ x * Unit <= y * Unit
<1>1. y - x \in Nat /\ y = x + (y - x) /\ Unit \in Nat
  BY HeapAssumption
<1>2. (x + (y - x)) * Unit = x * Unit + (y - x) * Unit
  BY <1>1
<1>3. (y - x) * Unit \in Nat /\ x * Unit \in Nat
  BY <1>1
<1> QED
  BY <1>1, <1>2, <1>3

\* The bytes of a block lie between its header and its end.
LEMMA Payload ==
  ASSUME NEW b \in Nat, NEW n \in Requests, NEW s, s = Units(n)
  PROVE  /\ firstByte(b) \in Nat /\ n \in Nat
         /\ (b + s) * Unit \in Nat /\ firstByte(b) + n <= (b + s) * Unit
<1>1. s \in Nat /\ 1 <= s /\ n <= (s - 1) * Unit /\ Unit \in Nat /\ n \in Nat /\ s - 1 \in Nat
  BY UnitsFit, HeapAssumption, RequestsAssumption
<1>2. (b + s) = (b + 1) + (s - 1)
  BY <1>1
<1>3. ((b + 1) + (s - 1)) * Unit = (b + 1) * Unit + (s - 1) * Unit
  BY <1>1
<1>4. (b + 1) * Unit \in Nat /\ (s - 1) * Unit \in Nat
  BY <1>1
<1> QED
  BY <1>1, <1>2, <1>3, <1>4 DEF firstByte

LEMMA FirstBytes ==
  \A a \in Nat : firstByte(a) \div Unit - 1 = a
<1>1. \A a \in Nat, d \in Nat \ {0} : ((a + 1) * d) \div d = a + 1
  OBVIOUS
<1> QED
  BY <1>1, HeapAssumption DEF firstByte

\* The abstract blocks are the client's.
LEMMA HeldIs ==
  ASSUME DOMAIN live \subseteq Nat
  PROVE  /\ DOMAIN held = {firstByte(b) : b \in DOMAIN live}
         /\ \A b \in DOMAIN live : held[firstByte(b)] = live[b]
<1>1. DOMAIN held = {firstByte(b) : b \in DOMAIN live}
  BY DEF held
<1>2. ASSUME NEW b \in DOMAIN live PROVE held[firstByte(b)] = live[b]
  BY FirstBytes DEF held
<1> QED
  BY <1>1, <1>2

LEMMA ImplementsInit == Init => Abstract!Init
<1> SUFFICES ASSUME Init PROVE Abstract!Init
  OBVIOUS
<1>1. live = [b \in {} |-> 0] /\ DOMAIN live = {}
  BY DEF Init
<1>2. held = [b \in {} |-> 0]
  BY <1>1 DEF held
<1> QED
  BY <1>2 DEF Abstract!Init

\* Granting a block that is Units(nbytes) units long and shares none with the client's
\* other blocks is an abstract Grant.
LEMMA ImplementsGrant ==
  ASSUME IInv, IInv', NEW b \in Addr, b \notin DOMAIN live, Grant(b),
         nbytes \in Requests
  PROVE  Abstract!Grant(firstByte(b), nbytes) /\ firstByte(b) \in Unit .. (HEAP + 1) * Unit - 1
<1> DEFINE n  == nbytes
           fb == firstByte(b)
<1>1. /\ DOMAIN live' = DOMAIN live \cup {b} /\ live'[b] = n
      /\ \A a \in DOMAIN live : live'[a] = live[a]
  BY Granting
<1>2. /\ Tiles(Allotted', size', heap_ptr') /\ DOMAIN live' \subseteq Allotted'
      /\ \A a \in DOMAIN live' : size'[a] = Units(live'[a])
      /\ heap_ptr' \in 1 .. HEAP + 1
  BY DEF IInv, BlockInv, TypeOK, Allotted
<1>3. /\ DOMAIN live \subseteq Nat /\ DOMAIN live' \subseteq Nat /\ b \in Nat
      /\ \A a \in DOMAIN live : live[a] \in Requests
  BY Facts, <1>1 DEF IInv, TypeOK
<1>4. \A a \in DOMAIN live' : live'[a] \in Requests
  BY <1>1, <1>3
<1>5. ASSUME NEW a \in DOMAIN live'
      PROVE  /\ firstByte(a) \in Nat /\ live'[a] \in Nat /\ (a + size'[a]) * Unit \in Nat
             /\ firstByte(a) + live'[a] <= (a + size'[a]) * Unit
             /\ size'[a] \in Nat /\ 1 <= a /\ a + size'[a] <= HEAP + 1
  <2>1. /\ firstByte(a) \in Nat /\ live'[a] \in Nat /\ (a + size'[a]) * Unit \in Nat
        /\ firstByte(a) + live'[a] <= (a + size'[a]) * Unit /\ size'[a] \in Nat
    BY <1>2, <1>3, <1>4, Payload, UnitsFit
  <2>2. 1 <= a /\ a + size'[a] <= heap_ptr'
    BY <1>2 DEF Tiles
  <2> QED
    BY <1>2, <1>3, <2>1, <2>2, HeapAssumption
<1>6. n \in Nat \ {0}
  BY RequestsAssumption
<1>7. Unit <= fb /\ fb + n <= (HEAP + 1) * Unit /\ fb \in Nat /\ (HEAP + 1) * Unit \in Nat
  <2>1. 1 * Unit <= (b + 1) * Unit /\ 1 * Unit = Unit
    BY <1>3, Scaling, HeapAssumption
  <2>2. (b + size'[b]) * Unit <= (HEAP + 1) * Unit /\ (HEAP + 1) * Unit \in Nat
    BY <1>1, <1>3, <1>5, Scaling, HeapAssumption
  <2>3. /\ fb \in Nat /\ fb + n <= (b + size'[b]) * Unit /\ (b + size'[b]) * Unit \in Nat
    BY <1>1, <1>5
  <2>4. Unit <= fb /\ Unit \in Nat
    BY <2>1, HeapAssumption DEF firstByte
  <2> HIDE DEF fb, n
  <2> QED
    BY <1>6, <2>2, <2>3, <2>4
\* One of two blocks ends before the other's header.
<1>8. ASSUME NEW a \in DOMAIN live, NEW c \in DOMAIN live', a # b, c # a
      PROVE  \/ firstByte(a) + live'[a] <= firstByte(c)
             \/ firstByte(c) + live'[c] <= firstByte(a)
  <2>1. ASSUME NEW x \in DOMAIN live', NEW y \in DOMAIN live', x < y
        PROVE  firstByte(x) + live'[x] <= firstByte(y)
    <3>1. x + size'[x] <= y
      BY <1>2, <2>1 DEF Tiles
    <3>2. (x + size'[x]) * Unit <= (y + 1) * Unit /\ (y + 1) * Unit \in Nat
      BY <1>3, <1>5, <3>1, Scaling
    <3>3. /\ firstByte(x) + live'[x] <= (x + size'[x]) * Unit
          /\ firstByte(x) \in Nat /\ live'[x] \in Nat /\ (x + size'[x]) * Unit \in Nat
      BY <1>5
    <3> QED
      BY <3>2, <3>3 DEF firstByte
  <2>2. a \in DOMAIN live' /\ (a < c \/ c < a)
    BY <1>1, <1>3, <1>8
  <2> QED
    BY <2>1, <2>2
<1>9. /\ DOMAIN held = {firstByte(a) : a \in DOMAIN live}
      /\ \A a \in DOMAIN live : held[firstByte(a)] = live[a]
  BY <1>3, HeldIs
<1>10. held' = [x \in DOMAIN held \cup {fb} |-> IF x = fb THEN n ELSE held[x]]
  <2>1. held' = [x \in {firstByte(a) : a \in DOMAIN live'} |-> live'[x \div Unit - 1]]
    BY DEF held
  <2>2. {firstByte(a) : a \in DOMAIN live'} = DOMAIN held \cup {fb}
    BY <1>1, <1>9
  <2>3. ASSUME NEW x \in DOMAIN held \cup {fb}
        PROVE  live'[x \div Unit - 1] = IF x = fb THEN n ELSE held[x]
    <3>1. CASE x = fb
      BY <1>1, <1>3, <3>1, FirstBytes
    <3>2. CASE x # fb
      <4>1. PICK a \in DOMAIN live : x = firstByte(a)
        BY <1>9, <3>2
      <4>2. x \div Unit - 1 = a
        BY <1>3, <4>1, FirstBytes
      <4> QED
        BY <1>1, <1>9, <3>2, <4>1, <4>2
    <3> QED
      BY <3>1, <3>2
  <2> QED
    BY <2>1, <2>2, <2>3
<1>11. fb .. fb + n - 1 \subseteq Unit .. (HEAP + 1) * Unit - 1 /\ fb \in Unit .. (HEAP + 1) * Unit - 1
  <2> HIDE DEF fb, n
  <2> QED
    BY <1>6, <1>7, HeapAssumption
<1>12. ASSUME NEW x \in DOMAIN held PROVE (fb .. fb + n - 1) \cap (x .. x + held[x] - 1) = {}
  <2>1. PICK a \in DOMAIN live : x = firstByte(a) /\ held[x] = live[a]
    BY <1>9
  <2>2. a # b /\ b \in DOMAIN live' /\ a \in DOMAIN live'
    BY <1>1
  <2>3. \/ x + held[x] <= fb
        \/ fb + n <= x
    BY <1>1, <1>8, <2>1, <2>2
  <2>4. x \in Nat /\ held[x] \in Nat
    BY <1>1, <1>5, <2>1, <2>2
  <2> HIDE DEF fb, n
  <2> QED
    BY <1>6, <1>7, <2>3, <2>4
<1> QED
  BY <1>10, <1>11, <1>12 DEF Abstract!Grant, Abstract!Bytes

LEMMA ImplementsFree ==
  ASSUME IInv, NEW b \in DOMAIN live, CallFree(b)
  PROVE  Abstract!Release(firstByte(b)) /\ firstByte(b) \in DOMAIN held
<1>1. DOMAIN live \subseteq Nat
  BY Facts
<1>2. /\ DOMAIN held = {firstByte(a) : a \in DOMAIN live}
      /\ \A a \in DOMAIN live : held[firstByte(a)] = live[a]
  BY <1>1, HeldIs
<1>3. live' = [a \in DOMAIN live \ {b} |-> live[a]]
  BY DEF CallFree
<1>4. held' = [x \in {firstByte(a) : a \in DOMAIN live \ {b}} |-> live'[x \div Unit - 1]]
  BY <1>3 DEF held
<1>5. \A a, c \in DOMAIN live : firstByte(a) = firstByte(c) => a = c
  <2>1. \A a \in DOMAIN live : firstByte(a) \div Unit - 1 = a
    BY <1>1, FirstBytes
  <2> QED
    BY <2>1
<1>6. {firstByte(a) : a \in DOMAIN live \ {b}} = DOMAIN held \ {firstByte(b)}
  BY <1>2, <1>5
<1>7. ASSUME NEW x \in DOMAIN held \ {firstByte(b)} PROVE live'[x \div Unit - 1] = held[x]
  <2>1. PICK a \in DOMAIN live \ {b} : x = firstByte(a)
    BY <1>6
  <2>2. x \div Unit - 1 = a
    BY <1>1, <2>1, FirstBytes
  <2> QED
    BY <1>2, <1>3, <2>1, <2>2
<1> QED
  BY <1>2, <1>4, <1>6, <1>7 DEF Abstract!Release

LEMMA ImplementsStep == IInv /\ IInv' /\ [Next]_vars => [Abstract!Next]_held
<1> SUFFICES ASSUME IInv, IInv', [Next]_vars PROVE [Abstract!Next]_held
  OBVIOUS
<1>1. CASE UNCHANGED live
  BY <1>1 DEF held
<1>2. ASSUME NEW b \in DOMAIN live, CallFree(b) PROVE Abstract!Next
  BY <1>2, ImplementsFree DEF Abstract!Next
<1>3. CASE FitExact
  <2>1. p \in Addr /\ p \notin DOMAIN live /\ nbytes \in Requests /\ Grant(p)
    BY <1>3, Found DEF FitExact
  <2> QED
    BY <2>1, ImplementsGrant DEF Abstract!Next
<1>4. CASE FitSplit
  <2>1. tail \in Addr /\ tail \notin DOMAIN live /\ Grant(tail) /\ nbytes \in Requests
    BY <1>4, GivenTail, Found DEF FitSplit
  <2> QED
    BY <2>1, ImplementsGrant DEF Abstract!Next
<1>5. ASSUME NEW n \in Requests, CallMalloc(n) PROVE UNCHANGED live
  BY <1>5 DEF CallMalloc
<1>6. ASSUME NextBlock \/ my_morecore \/ OutOfMemory \/ Walk \/ Link \/ UNCHANGED vars
      PROVE  UNCHANGED live
  BY <1>6 DEF NextBlock, my_morecore, OutOfMemory, Walk, Link, vars
<1> QED
  BY <1>1, <1>2, <1>3, <1>4, <1>5, <1>6 DEF Next, Step

\* kr-malloc.c keeps the promises of malloc: blocks in the heap, as long as was asked for,
\* that share no byte.
THEOREM Refinement == Spec => AllocatorSpec
<1> QED
  BY Invariance, ImplementsInit, ImplementsStep, PTL DEF Spec, AllocatorSpec, Abstract!Spec
=============================================================================
