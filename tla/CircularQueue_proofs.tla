------------------------ MODULE CircularQueue_proofs ------------------------
(***************************************************************************)
(* Proofs about the circular queue for every element type and every batch  *)
(* size.  The types need nothing else, and the assertion of peek_n only    *)
(* that clients mask interrupts; the rest is for every buffer size CQ_N    *)
(* that divides the range of an unsigned: a push is safe from clients that *)
(* move tail back with interrupts masked, what IInv says of the consumer   *)
(* is for clients that do not move it back at all.                         *)
(***************************************************************************)
EXTENDS CircularQueue, SequenceTheorems, TLAPS

(* What the proofs assume beyond CircularQueue's own assumptions.          *)
Divides == \E k \in Nat \ {0} : Word = k * CQ_N
Forward == Rewinds = "never"
Masks   == Rewinds \in {"never", "masked"}

-----------------------------------------------------------------------------
(* Index arithmetic *)

(* The step both sides take is to the next slot, around the end.           *)
LEMMA NextSlot ==
  \A i \in Slot : /\ Succ(i) = IF i + 1 = CQ_N THEN 0 ELSE i + 1
                  /\ Succ(i) \in Slot
BY SizeAssumption, SMT DEF Slot, Succ

(* Whatever the size, what cq_nelem returns is below it.                   *)
LEMMA DistanceBound == \A h, t \in Slot : Dist(h, t) \in Slot
<1> SUFFICES ASSUME NEW h \in Slot, NEW t \in Slot PROVE Dist(h, t) \in Slot
  OBVIOUS
<1>1. (h - t) % Word \in Nat
  BY SizeAssumption, WordAssumption, SMT DEF Slot
<1>2. \A d \in Nat : d % CQ_N \in Slot
  BY SizeAssumption, SMT DEF Slot
<1> QED
  BY <1>1, <1>2 DEF Dist

(* cq_nelem's unsigned subtraction and modulus give the distance from tail *)
(* to head when CQ_N divides the range of an unsigned.                     *)
LEMMA Distance ==
  ASSUME Divides
  PROVE  \A h, t \in Slot :
           Dist(h, t) = IF h >= t THEN h - t ELSE h - t + CQ_N
<1> USE SizeAssumption, WordAssumption DEF Slot
<1> SUFFICES ASSUME NEW h \in Slot, NEW t \in Slot
             PROVE  ((h - t) % Word) % CQ_N = IF h >= t THEN h - t ELSE h - t + CQ_N
  BY DEF Dist
<1>1. CASE h >= t
  <2>1. (h - t) % Word = h - t
    BY <1>1, SMT
  <2>2. (h - t) % CQ_N = h - t
    BY <1>1, SMT
  <2> QED
    BY <1>1, <2>1, <2>2
<1>2. CASE h < t
  <2>1. (h - t) % Word = h - t + Word
    BY <1>2, SMT
  <2>2. PICK k \in Nat \ {0} : Word = k * CQ_N
    BY DEF Divides
  <2>3. \A r \in 0 .. CQ_N - 1, j \in Nat : (j * CQ_N + r) % CQ_N = r
    BY SMT
  <2>4. h - t + Word = (k - 1) * CQ_N + (h - t + CQ_N)
    BY <2>2, SMT
  <2>5. k - 1 \in Nat /\ h - t + CQ_N \in 0 .. CQ_N - 1
    BY <1>2, <2>2, SMT
  <2>6. (h - t + Word) % CQ_N = h - t + CQ_N
    BY <2>3, <2>4, <2>5
  <2> QED
    BY <1>2, <2>1, <2>6, SMT
<1> QED
  BY <1>1, <1>2, SMT

(* A nonempty sequence has a head among its elements, and a tail.          *)
LEMMA HeadTail ==
  ASSUME NEW s \in Seq(Elem), s # <<>>
  PROVE  /\ Head(s) \in Elem
         /\ Tail(s) \in Seq(Elem)
         /\ Len(s) \in Nat \ {0}
         /\ Len(Tail(s)) = Len(s) - 1
         /\ Len(s) = 1 <=> Tail(s) = <<>>
<1>1. /\ Head(s) \in Elem /\ Tail(s) \in Seq(Elem)
      /\ Len(Tail(s)) = Len(s) - 1
  BY HeadTailProperties
<1>2. Len(s) \in Nat \ {0} /\ (Tail(s) = <<>> <=> Len(Tail(s)) = 0)
  BY <1>1, EmptySeq
<1> QED
  BY <1>1, <1>2

(* The arguments of a push are nonempty sequences of elements.             *)
LEMMA PushData ==
  /\ \A x \in Elem : <<x>> \in Seq(Elem) /\ <<x>> # <<>> /\ Len(<<x>>) = 1
  /\ \A data \in Batches : data \in Seq(Elem) /\ data # <<>> /\ Len(data) \in Nat \ {0}
<1>1. ASSUME NEW x \in Elem
      PROVE  <<x>> \in Seq(Elem) /\ <<x>> # <<>> /\ Len(<<x>>) = 1
  BY SMT
<1>2. ASSUME NEW n \in 1 .. Batch, NEW data \in [1 .. n -> Elem]
      PROVE  data \in Seq(Elem) /\ data # <<>> /\ Len(data) \in Nat \ {0}
  <2>1. n \in Nat \ {0}
    BY BatchAssumption
  <2>2. data \in Seq(Elem)
    BY <1>2, <2>1, SeqDef
  <2>3. Len(data) = n
    BY <1>2, <2>1, <2>2, LenProperties, SMT
  <2> QED
    BY <2>1, <2>2, <2>3, SMT
<1>3. ASSUME NEW data \in Batches
      PROVE  \E n \in 1 .. Batch : data \in [1 .. n -> Elem]
  BY DEF Batches
<1> QED
  BY <1>1, <1>2, <1>3

-----------------------------------------------------------------------------
(* Type correctness and the inductive invariant *)

LEMMA InitInv == Init => TypeOK /\ IInv
<1> SUFFICES ASSUME Init PROVE TypeOK /\ IInv
  OBVIOUS
<1>1. TypeOK
  <2>1. <<>> \in Seq(Elem)
    BY EmptySeq
  <2>2. 0 \in Slot /\ 0 \in 0 .. Batch
    BY SizeAssumption, BatchAssumption DEF Slot
  <2> QED
    BY <2>1, <2>2, ElemAssumption DEF Init, TypeOK
<1>2. IInv
  BY DEF Init, IInv, PushInv, PopInv
<1> QED
  BY <1>1, <1>2

(* What the types rest on, whatever the clients do: a producer inside a    *)
(* call has elements left, a consumer inside its loop has pops left.       *)
BusyInv ==
  /\ ppc # "idle" <=> pdata # <<>>
  /\ cpc \in {"empty", "read", "advance"} => cleft > 0

LEMMA BusyStep ==
  ASSUME TypeOK, BusyInv, [Next]_vars
  PROVE  BusyInv'
<1> USE DEF TypeOK, BusyInv, qvars, pvars, cvars
<1>1. ASSUME NEW x \in Elem, CallPush(x) PROVE BusyInv'
  BY <1>1, PushData DEF CallPush, BeginPush
<1>2. ASSUME NEW data \in Batches, CallPushN(data) PROVE BusyInv'
  BY <1>2, PushData DEF CallPushN, BeginPush
<1>3. CASE CallPopNonblock \/ CallPeek
  BY <1>3 DEF CallPopNonblock, CallPeek, BeginPop
<1>4. ASSUME NEW n \in 1 .. Batch, CallPopN(n) \/ CallPopNNoblk(n) \/ CallPeekN(n)
      PROVE  BusyInv'
  BY <1>4, BatchAssumption DEF CallPopN, CallPopNNoblk, CallPeekN, BeginPop
<1>5. CASE cq_ckpt \/ cq_restore \/ \E on \in BOOLEAN : SetInterrupts(on)
  BY <1>5 DEF cq_ckpt, cq_restore, SetInterrupts
<1>6. CASE PushFull \/ PushNotFull \/ PushAssert \/ PushWrite
  BY <1>6 DEF PushFull, PushNotFull, PushAssert, PushWrite
<1>7. CASE PushPublish
  BY <1>7, HeadTail DEF PushPublish
<1>8. CASE ConsumerStep
  BY <1>8 DEF ConsumerStep, FindsEmpty, PopWouldDeadlock, FindsElement, PeekRead, PopRead,
              PopAdvance, PeekNRestore, PeekNAssert
<1>9. CASE UNCHANGED vars
  BY <1>9 DEF vars
<1> QED
  BY <1>1, <1>2, <1>3, <1>4, <1>5, <1>6, <1>7, <1>8, <1>9 DEF Next, Calls, ProducerStep

LEMMA TypeStep ==
  ASSUME TypeOK, BusyInv, [Next]_vars
  PROVE  TypeOK'
<1> USE SizeAssumption DEF TypeOK, qvars, pvars, cvars
<1>1. ASSUME NEW x \in Elem, CallPush(x) PROVE TypeOK'
  BY <1>1, PushData DEF CallPush, BeginPush
<1>2. ASSUME NEW data \in Batches, CallPushN(data) PROVE TypeOK'
  BY <1>2, PushData DEF CallPushN, BeginPush
<1>3. CASE CallPopNonblock
  BY <1>3, BatchAssumption DEF CallPopNonblock, BeginPop
<1>4. ASSUME NEW n \in 1 .. Batch, CallPopN(n) \/ CallPopNNoblk(n) \/ CallPeekN(n)
      PROVE  TypeOK'
  BY <1>4, BatchAssumption, DistanceBound DEF CallPopN, CallPopNNoblk, CallPeekN, BeginPop, cq_nelem
<1>5. CASE CallPeek
  BY <1>5, BatchAssumption DEF CallPeek, BeginPop
<1>6. CASE cq_ckpt \/ cq_restore
  BY <1>6 DEF cq_ckpt, cq_restore, NoCkpt, Slot
<1>7. ASSUME NEW on \in BOOLEAN, SetInterrupts(on) PROVE TypeOK'
  BY <1>7 DEF SetInterrupts
<1>8. CASE ProducerStep
  <2>1. CASE PushFull
    <3>1. <<>> \in Seq(Elem)
      BY EmptySeq
    <3> QED
      BY <2>1, <3>1 DEF PushFull, Panic, Panics
  <2>2. CASE PushNotFull
    BY <2>2 DEF PushNotFull
  <2>3. CASE PushAssert
    BY <2>3 DEF PushAssert, Panic, Panics
  <2>4. CASE PushWrite
    BY <2>4, HeadTail DEF PushWrite, BusyInv
  <2>5. CASE PushPublish
    <3>1. head' \in Slot
      BY <2>5, NextSlot DEF PushPublish
    <3>2. pdata' \in Seq(Elem)
      BY <2>5, HeadTail DEF PushPublish, BusyInv
    <3> QED
      BY <2>5, <3>1, <3>2 DEF PushPublish
  <2> QED
    BY <1>8, <2>1, <2>2, <2>3, <2>4, <2>5 DEF ProducerStep
<1>9. CASE ConsumerStep
  <2>1. CASE FindsEmpty \/ PopWouldDeadlock \/ FindsElement
    BY <2>1 DEF FindsEmpty, PopWouldDeadlock, FindsElement, Panic, Panics
  <2>2. CASE PeekRead \/ PopRead
    BY <2>2 DEF PeekRead, PopRead
  <2>3. CASE PopAdvance
    <3>1. tail' \in Slot
      BY <2>3, NextSlot DEF PopAdvance
    <3>2. cleft' \in 0 .. Batch
      <4>1. cleft > 0 /\ cleft' = cleft - 1
        BY <2>3 DEF PopAdvance, BusyInv
      <4> QED
        BY <4>1, BatchAssumption
    <3> QED
      BY <2>3, <3>1, <3>2 DEF PopAdvance
  <2>4. CASE PeekNRestore \/ PeekNAssert
    BY <2>4 DEF PeekNRestore, PeekNAssert, Panic, Panics
  <2> QED
    BY <1>9, <2>1, <2>2, <2>3, <2>4 DEF ConsumerStep
<1>10. CASE UNCHANGED vars
  BY <1>10 DEF vars
<1> QED
  BY <1>1, <1>2, <1>3, <1>4, <1>5, <1>6, <1>7, <1>8, <1>9, <1>10 DEF Next, Calls

(* Every index stays inside the buffer and every local in its range, for   *)
(* every size of the queue and whatever its clients do.                    *)
THEOREM TypeCorrect == Spec => []TypeOK
<1>1. Init => TypeOK /\ BusyInv
  BY InitInv DEF Init, BusyInv
<1>2. TypeOK /\ BusyInv /\ [Next]_vars => (TypeOK /\ BusyInv)'
  BY TypeStep, BusyStep
<1> QED
  BY <1>1, <1>2, PTL DEF Spec

(* One slot further from tail: the distance to the next slot after head,   *)
(* and from the next slot after tail.                                      *)
LEMMA DistanceSteps ==
  ASSUME Divides
  PROVE  \A h, t \in Slot :
            /\ Dist(h, t) \in Slot
            /\ Succ(h) # t => Dist(Succ(h), t) = Dist(h, t) + 1
            /\ h # t => Dist(h, Succ(t)) = Dist(h, t) - 1
            /\ Dist(h, t) = CQ_N - 1 <=> Succ(h) = t
            /\ Dist(h, t) = 0 <=> h = t
            /\ Succ(h) # h
<1> SUFFICES ASSUME NEW h \in Slot, NEW t \in Slot
             PROVE  /\ Dist(h, t) \in Slot
                    /\ Succ(h) # t => Dist(Succ(h), t) = Dist(h, t) + 1
                    /\ h # t => Dist(h, Succ(t)) = Dist(h, t) - 1
                    /\ Dist(h, t) = CQ_N - 1 <=> Succ(h) = t
                    /\ Dist(h, t) = 0 <=> h = t
                    /\ Succ(h) # h
  OBVIOUS
<1>1. /\ Succ(h) = IF h + 1 = CQ_N THEN 0 ELSE h + 1
      /\ Succ(t) = IF t + 1 = CQ_N THEN 0 ELSE t + 1
      /\ Succ(h) \in Slot /\ Succ(t) \in Slot
  BY NextSlot
<1>2. /\ Dist(h, t) = IF h >= t THEN h - t ELSE h - t + CQ_N
      /\ Dist(Succ(h), t) = IF Succ(h) >= t THEN Succ(h) - t ELSE Succ(h) - t + CQ_N
      /\ Dist(h, Succ(t)) = IF h >= Succ(t) THEN h - Succ(t) ELSE h - Succ(t) + CQ_N
  BY <1>1, Distance
<1> QED
  BY <1>1, <1>2, SizeAssumption, SMTT(30) DEF Slot

(* The same for the queue's own indices, as the code's functions read them.*)
LEMMA QueueShape ==
  ASSUME Divides, TypeOK
  PROVE  /\ cq_nelem \in 0 .. CQ_N - 1
         /\ cq_nspace \in 0 .. CQ_N - 1
         /\ cq_full <=> cq_nspace = 0
         /\ cq_empty <=> cq_nelem = 0
         /\ ~cq_full => Dist(Succ(head), tail) = cq_nelem + 1
         /\ ~cq_empty => Dist(head, Succ(tail)) = cq_nelem - 1
         /\ ~cq_empty => Succ(head) # Succ(tail)
         /\ Len(pdata) \in Nat
<1>1. head \in Slot /\ tail \in Slot /\ Len(pdata) \in Nat
  BY LenProperties DEF TypeOK
<1>2. /\ Dist(head, tail) \in Slot
      /\ Succ(head) # tail => Dist(Succ(head), tail) = Dist(head, tail) + 1
      /\ head # tail => Dist(head, Succ(tail)) = Dist(head, tail) - 1
      /\ Dist(head, tail) = CQ_N - 1 <=> Succ(head) = tail
      /\ Dist(head, tail) = 0 <=> head = tail
  BY <1>1, DistanceSteps
<1>3. head # tail => Succ(head) # Succ(tail)
  BY <1>1, NextSlot, SizeAssumption DEF Slot
<1> QED
  BY <1>1, <1>2, <1>3, SizeAssumption DEF Slot, cq_nelem, cq_nspace, cq_full, cq_empty

-----------------------------------------------------------------------------
(* Clients that move tail back only with interrupts masked *)

(* While interrupts are masked no push is under way, so head stays where it *)
(* was when peek_n counted, and restore takes tail back there.             *)
MaskedInv ==
  /\ ~ints => ppc = "idle"
  /\ cop = "peek_n" /\ cpc # "idle" => ~ints /\ csz = Dist(head, csaved)
  /\ cpc \in {"restore", "peek_assert"} => cop = "peek_n"
  /\ cpc = "peek_assert" => tail = csaved
  /\ panic # "peek_n_assert"

LEMMA MaskedStep ==
  ASSUME Masks, MaskedInv, [Next]_vars
  PROVE  MaskedInv'
<1> USE DEF Masks, MaskedInv, qvars, pvars, cvars
<1>1. CASE Calls
  <2>1. CASE \/ \E x \in Elem : CallPush(x)
             \/ \E data \in Batches : CallPushN(data)
    BY <2>1 DEF CallPush, CallPushN, BeginPush
  <2>2. CASE \/ CallPopNonblock \/ CallPeek
             \/ \E n \in 1 .. Batch : CallPopN(n) \/ CallPopNNoblk(n)
    BY <2>2 DEF CallPopNonblock, CallPeek, CallPopN, CallPopNNoblk, BeginPop
  <2>3. CASE \E n \in 1 .. Batch : CallPeekN(n)
    BY <2>3 DEF CallPeekN, MayRewind, BeginPop, cq_nelem
  <2>4. CASE cq_ckpt \/ cq_restore \/ \E on \in BOOLEAN : SetInterrupts(on)
    BY <2>4 DEF cq_ckpt, cq_restore, SetInterrupts
  <2> QED
    BY <1>1, <2>1, <2>2, <2>3, <2>4 DEF Calls
<1>2. CASE ProducerStep
  BY <1>2 DEF ProducerStep, PushFull, PushNotFull, PushAssert, PushWrite, PushPublish, Panic
<1>3. CASE ConsumerStep
  BY <1>3 DEF ConsumerStep, FindsEmpty, PopWouldDeadlock, FindsElement, PeekRead, PopRead,
              PopAdvance, PeekNRestore, PeekNAssert, Panic, cq_nelem
<1>4. CASE UNCHANGED vars
  BY <1>4 DEF vars
<1> QED
  BY <1>1, <1>2, <1>3, <1>4 DEF Next

LEMMA MaskedInvariance ==
  ASSUME Masks
  PROVE  Spec => []MaskedInv
<1>1. Init => MaskedInv
  BY DEF Init, MaskedInv
<1>2. MaskedInv /\ [Next]_vars => MaskedInv'
  BY MaskedStep
<1> QED
  BY <1>1, <1>2, PTL DEF Spec

(* What the consumer has found before it moves tail; no rewind comes amid. *)
ReadsInv ==
  /\ cpc \in {"read", "advance"} => ~cq_empty
  /\ cpc = "advance" => ctail = tail

LEMMA ReadsInvStep ==
  ASSUME Divides, TypeOK, PushInv, ReadsInv, [Next]_vars
  PROVE  ReadsInv'
<1> USE DEF ReadsInv, cq_empty, qvars, pvars, cvars
<1>1. CASE Calls
  BY <1>1 DEF Calls, CallPush, CallPushN, BeginPush, CallPopNonblock, CallPeek, CallPopN,
              CallPopNNoblk, CallPeekN, BeginPop, cq_ckpt, cq_restore, SetInterrupts
<1>2. CASE PushFull \/ PushNotFull \/ PushAssert \/ PushWrite
  BY <1>2 DEF PushFull, PushNotFull, PushAssert, PushWrite
<1>3. CASE PushPublish
  BY <1>3 DEF PushPublish, PushInv, cq_full
<1>4. CASE ConsumerStep
  BY <1>4 DEF ConsumerStep, FindsEmpty, PopWouldDeadlock, FindsElement, PeekRead, PopRead,
              PopAdvance, PeekNRestore, PeekNAssert
<1>5. CASE UNCHANGED vars
  BY <1>5 DEF vars
<1> QED
  BY <1>1, <1>2, <1>3, <1>4, <1>5 DEF Next, ProducerStep

-----------------------------------------------------------------------------
(* The two sides' parts of the invariant *)

(* A call does not disturb the other side's part of the invariant.         *)
LEMMA PushInvFrame ==
  PushInv /\ UNCHANGED <<ppc, phead, pdata, pmany, c_buf, head, tail>> => PushInv'
BY DEF PushInv, cq_full, cq_nspace, cq_nelem

LEMMA PopInvFrame ==
  PopInv /\ UNCHANGED <<cpc, cop, cleft, ctail, ce, ckpt, c_buf, head, tail>> => PopInv'
BY DEF PopInv, cq_empty, cq_nelem

(* The producer's part of the invariant is preserved: by its own steps     *)
(* because each learns what the next needs, by the consumer's because      *)
(* moving tail towards head only makes room, and it is moved back only     *)
(* while no push is under way.                                             *)
LEMMA PushInvStep ==
  ASSUME Divides, Masks, TypeOK, MaskedInv, PushInv, ReadsInv, [Next]_vars
  PROVE  PushInv' /\ (PushNeverPanics => PushNeverPanics')
<1> USE DEF PushNeverPanics
<1>1. ASSUME NEW x \in Elem, CallPush(x) PROVE PushInv' /\ UNCHANGED panic
  BY <1>1, PushData DEF CallPush, BeginPush, PushInv
<1>2. ASSUME NEW data \in Batches, CallPushN(data) PROVE PushInv' /\ UNCHANGED panic
  <2>1. pdata' = data /\ data # <<>> /\ ppc' = "full" /\ UNCHANGED <<head, tail, panic>>
    BY <1>2, PushData DEF CallPushN, BeginPush, qvars
  <2> QED
    BY <1>2, <2>1 DEF CallPushN, PushInv, cq_nspace, cq_nelem
<1>3. CASE \/ CallPopNonblock \/ CallPeek
           \/ \E n \in 1 .. Batch : CallPopN(n) \/ CallPopNNoblk(n) \/ CallPeekN(n)
           \/ \E on \in BOOLEAN : SetInterrupts(on)
           \/ cq_ckpt
  <2>1. UNCHANGED <<ppc, phead, pdata, pmany, c_buf, head, tail, panic>>
    BY <1>3 DEF CallPopNonblock, CallPeek, CallPopN, CallPopNNoblk, CallPeekN, BeginPop,
                cq_ckpt, SetInterrupts, qvars, pvars
  <2> QED
    BY <2>1, PushInvFrame
<1>4. CASE cq_restore
  <2>1. ppc = "idle" /\ UNCHANGED <<ppc, pdata, panic>>
    BY <1>4 DEF cq_restore, MayRewind, Masks, MaskedInv, pvars
  <2> QED
    BY <2>1 DEF PushInv
<1>5. CASE FindsEmpty \/ FindsElement \/ PeekRead \/ PopRead
  <2>1. UNCHANGED <<ppc, phead, pdata, pmany, c_buf, head, tail, panic>>
    BY <1>5 DEF FindsEmpty, FindsElement, PeekRead, PopRead, qvars, pvars
  <2> QED
    BY <2>1, PushInvFrame
<1>6. CASE PopWouldDeadlock
  <2>1. UNCHANGED <<ppc, phead, pdata, pmany, c_buf, head, tail>>
    BY <1>6 DEF PopWouldDeadlock, qvars, pvars
  <2> QED
    BY <1>6, <2>1, PushInvFrame DEF PopWouldDeadlock, Panic
<1>7. CASE PopAdvance
  <2>1. /\ tail' = Succ(tail) /\ head # tail
        /\ UNCHANGED <<ppc, phead, pdata, pmany, c_buf, head, panic>>
    BY <1>7 DEF PopAdvance, ReadsInv, cq_empty, pvars
  <2>2. Dist(head, Succ(tail)) = cq_nelem - 1 /\ Succ(head) # Succ(tail)
    BY <2>1, QueueShape DEF cq_empty
  <2>3. cq_nspace' = cq_nspace + 1
    BY <2>1, <2>2, QueueShape, SizeAssumption DEF cq_nspace, cq_nelem
  <2>4. ~cq_full'
    BY <2>1, <2>2 DEF cq_full
  <2>5. cq_nspace >= Len(pdata) => cq_nspace' >= Len(pdata)
    BY <2>3, QueueShape
  <2> QED
    BY <2>1, <2>4, <2>5 DEF PushInv
<1>8. CASE PeekNRestore \/ PeekNAssert
  <2>1. ppc = "idle" /\ UNCHANGED <<ppc, pdata>> /\ panic' \in {panic, "peek_n_assert"}
    BY <1>8 DEF PeekNRestore, PeekNAssert, MaskedInv, Panic, pvars
  <2> QED
    BY <2>1 DEF PushInv
<1>9. CASE PushFull
  <2>1. cq_nspace = 0
    BY <1>9, QueueShape DEF PushFull
  <2>2. ~pmany
    BY <1>9, <2>1, HeadTail DEF PushFull, PushInv, TypeOK
  <2> QED
    BY <1>9, <2>2 DEF PushFull, PushInv
<1>10. CASE PushNotFull
  BY <1>10 DEF PushNotFull, PushInv, qvars, cq_full, cq_nspace, cq_nelem
<1>11. CASE PushAssert
  <2>1. cq_nspace > 0
    BY <1>11, QueueShape DEF PushAssert, PushInv
  <2> QED
    BY <1>11, <2>1 DEF PushAssert, PushInv, qvars, cq_full, cq_nspace, cq_nelem
<1>12. CASE PushWrite
  BY <1>12 DEF PushWrite, PushInv, TypeOK, cq_full, cq_nspace, cq_nelem
<1>13. CASE PushPublish
  <2>1. /\ head' = Succ(head) /\ Succ(head) # tail /\ pdata # <<>>
        /\ pdata' = Tail(pdata)
        /\ ppc' = IF Len(pdata) = 1 THEN "idle" ELSE "full"
        /\ UNCHANGED <<tail, pmany, panic>>
    BY <1>13 DEF PushPublish, PushInv, cq_full
  <2>2. Dist(Succ(head), tail) = cq_nelem + 1
    BY <2>1, QueueShape DEF cq_full
  <2>3. cq_nspace' = cq_nspace - 1
    BY <2>1, <2>2, QueueShape, SizeAssumption DEF cq_nspace, cq_nelem
  <2>4. Len(pdata') = Len(pdata) - 1 /\ Len(pdata) \in Nat
    BY <2>1, HeadTail DEF TypeOK
  <2>5. cq_nspace >= Len(pdata) => cq_nspace' >= Len(pdata')
    BY <2>3, <2>4, QueueShape
  <2>6. ppc' # "idle" <=> pdata' # <<>>
    BY <2>1, HeadTail DEF TypeOK
  <2> QED
    BY <1>13, <2>1, <2>5, <2>6 DEF PushInv, PushPublish
<1>14. CASE UNCHANGED vars
  BY <1>14, PushInvFrame DEF vars, qvars, pvars
<1> QED
  BY <1>1, <1>2, <1>3, <1>4, <1>5, <1>6, <1>7, <1>8, <1>9, <1>10, <1>11, <1>12, <1>13, <1>14
     DEF Next, Calls, ProducerStep, ConsumerStep

(* The consumer's part is preserved: its own steps learn what the next     *)
(* needs, a push only adds elements, and never into a slot between tail    *)
(* and head.                                                               *)
LEMMA PopInvStep ==
  ASSUME Divides, Forward, TypeOK, IInv, [Next]_vars
  PROVE  PopInv'
<1> USE DEF IInv
<1>1. CASE \/ \E x \in Elem : CallPush(x)
           \/ \E data \in Batches : CallPushN(data)
           \/ PushFull \/ PushNotFull \/ PushAssert
  <2>1. UNCHANGED <<cpc, cop, cleft, ctail, ce, ckpt, c_buf, head, tail>>
    BY <1>1 DEF CallPush, CallPushN, BeginPush, PushFull, PushNotFull, PushAssert,
                qvars, cvars
  <2> QED
    BY <2>1, PopInvFrame
<1>2. CASE CallPopNonblock \/ CallPeek
  BY <1>2 DEF CallPopNonblock, CallPeek, BeginPop, PopInv
<1>3. ASSUME NEW n \in 1 .. Batch, CallPopN(n) \/ CallPopNNoblk(n) PROVE PopInv'
  BY <1>3 DEF CallPopN, CallPopNNoblk, BeginPop, PopInv, qvars, cq_nelem
<1>4. /\ ~cq_ckpt /\ ~cq_restore
      /\ \A n \in 1 .. Batch : ~CallPeekN(n)
  BY DEF cq_ckpt, cq_restore, CallPeekN, MayRewind, Forward
<1>5. ASSUME NEW on \in BOOLEAN, SetInterrupts(on) PROVE PopInv'
  BY <1>5 DEF SetInterrupts, PopInv, qvars, cq_nelem
<1>6. CASE PushWrite
  <2>1. /\ phead = head
        /\ c_buf' = [c_buf EXCEPT ![head] = Head(pdata)]
        /\ UNCHANGED <<cpc, cop, cleft, ctail, ce, ckpt, head, tail>>
    BY <1>6 DEF PushWrite, PushInv, cvars
  <2>2. cpc = "advance" => c_buf'[tail] = c_buf[tail]
    BY <2>1 DEF PopInv, cq_empty, TypeOK
  <2> QED
    BY <2>1, <2>2 DEF PopInv, cq_empty, cq_nelem
<1>7. CASE PushPublish
  <2>1. /\ head' = Succ(head) /\ Succ(head) # tail
        /\ UNCHANGED <<cpc, cop, cleft, ctail, ce, ckpt, c_buf, tail>>
    BY <1>7 DEF PushPublish, PushInv, cq_full, cvars
  <2>2. cq_nelem' = cq_nelem + 1
    BY <2>1, QueueShape DEF cq_full, cq_nelem
  <2>3. ~cq_empty'
    BY <2>1 DEF cq_empty
  <2>4. cq_nelem >= cleft => cq_nelem' >= cleft
    BY <2>2, QueueShape DEF TypeOK
  <2> QED
    BY <2>1, <2>3, <2>4 DEF PopInv
<1>8. CASE FindsEmpty \/ FindsElement
  BY <1>8 DEF FindsEmpty, FindsElement, PopInv, qvars, cq_empty, cq_nelem
<1>9. CASE PopWouldDeadlock
  BY <1>9, PopInvFrame DEF PopWouldDeadlock, qvars, cvars
<1>10. CASE PeekRead \/ PopRead
  BY <1>10 DEF PeekRead, PopRead, PopInv, qvars, cq_empty, cq_nelem
<1>11. CASE PopAdvance
  <2>1. /\ tail' = Succ(tail) /\ ~cq_empty /\ cleft > 0 /\ cleft' = cleft - 1
        /\ cpc' = IF cleft > 1 THEN "empty" ELSE "idle"
        /\ UNCHANGED <<cop, ckpt, head>>
    BY <1>11 DEF PopAdvance, PopInv
  <2>2. cq_nelem' = cq_nelem - 1
    BY <2>1, QueueShape DEF cq_nelem
  <2>3. cq_nelem >= cleft => cq_nelem' >= cleft'
    BY <2>1, <2>2, QueueShape DEF TypeOK
  <2>4. cpc' = "empty" => cleft' > 0
    BY <2>1 DEF TypeOK
  <2> QED
    BY <1>11, <2>1, <2>3, <2>4 DEF PopInv, PopAdvance
<1>12. ~PeekNRestore /\ ~PeekNAssert
  BY DEF PopInv, PeekNRestore, PeekNAssert
<1>13. CASE UNCHANGED vars
  BY <1>13, PopInvFrame DEF vars, qvars, cvars
<1> QED
  BY <1>1, <1>2, <1>3, <1>4, <1>5, <1>6, <1>7, <1>8, <1>9, <1>10, <1>11, <1>12, <1>13
     DEF Next, Calls, ProducerStep, ConsumerStep

-----------------------------------------------------------------------------
(* The theorems *)

(* TypeOK and IInv hold of every reachable state: every index stays inside *)
(* the buffer, and each side's knowledge of the other's index stays true.  *)
THEOREM Invariance ==
  ASSUME Divides, Forward
  PROVE  Spec => [](TypeOK /\ IInv)
<1>1. Init => TypeOK /\ IInv
  BY InitInv
<1>2. TypeOK /\ IInv /\ MaskedInv /\ MaskedInv' /\ [Next]_vars => (TypeOK /\ IInv)'
  <2> SUFFICES ASSUME TypeOK, IInv, MaskedInv, MaskedInv', [Next]_vars
               PROVE  TypeOK' /\ IInv'
    OBVIOUS
  <2>1. TypeOK'
    BY TypeStep DEF IInv, PushInv, PopInv, BusyInv
  <2>2. PushInv' /\ PushNeverPanics'
    BY PushInvStep DEF IInv, PopInv, ReadsInv, PushNeverPanics, Forward, Masks
  <2>3. panic' \in {"none", "pop_deadlock"}
    BY <2>1, <2>2 DEF TypeOK, Panics, PushNeverPanics, MaskedInv
  <2> QED
    BY <2>1, <2>2, <2>3, PopInvStep DEF IInv
<1>3. Spec => []MaskedInv
  BY MaskedInvariance DEF Forward, Masks
<1> QED
  BY <1>1, <1>2, <1>3, PTL DEF Spec

(* What is left of it when clients move tail back with interrupts masked.  *)
LEMMA PushInvariance ==
  ASSUME Divides, Masks
  PROVE  Spec => [](PushInv /\ ReadsInv /\ PushNeverPanics)
<1>1. Init => PushInv /\ ReadsInv /\ PushNeverPanics
  BY DEF Init, PushInv, ReadsInv, PushNeverPanics
<1>2. /\ TypeOK /\ MaskedInv /\ PushInv /\ ReadsInv /\ PushNeverPanics /\ [Next]_vars
      => (PushInv /\ ReadsInv /\ PushNeverPanics)'
  BY PushInvStep, ReadsInvStep
<1> QED
  BY <1>1, <1>2, TypeCorrect, MaskedInvariance, PTL DEF Spec

(* The producer never writes the slot the consumer is using: the lock-free *)
(* claim of circular.h:49 holds for every buffer size that divides the     *)
(* range of an unsigned, also with rewinds under masked interrupts.        *)
THEOREM RaceFree ==
  ASSUME Divides, Masks
  PROVE  Spec => []NoSlotRace
<1>1. PushInv /\ ReadsInv => NoSlotRace
  BY DEF PushInv, ReadsInv, NoSlotRace, cq_empty
<1> QED
  BY <1>1, PushInvariance, PTL

(* The assertion of cq_push and the "impossible" panic of cq_push_n never  *)
(* fire, for every buffer size that divides the range of an unsigned, if   *)
(* clients move tail back only with interrupts masked.                     *)
THEOREM PushSafe ==
  ASSUME Divides, Masks
  PROVE  Spec => []PushNeverPanics
BY PushInvariance, PTL

(* cq_pop_n_noblk never finds the queue empty after its check.             *)
THEOREM NoblkSafe ==
  ASSUME Divides, Forward
  PROVE  Spec => []NoblkNeverWaits
<1>1. TypeOK /\ IInv => NoblkNeverWaits
  <2> SUFFICES ASSUME TypeOK, IInv, cop = "pop_n_noblk", cpc = "empty" PROVE ~cq_empty
    BY DEF NoblkNeverWaits, IInv, PopInv
  <2>1. cq_nelem >= cleft /\ cleft > 0
    BY DEF IInv, PopInv
  <2> QED
    BY <2>1, QueueShape DEF TypeOK
<1> QED
  BY <1>1, Invariance, PTL

(* The assertion at the end of cq_peek_n holds for every size of the queue *)
(* if clients call it with interrupts masked (circular.h:140).             *)
THEOREM PeekNSafe ==
  ASSUME Masks
  PROVE  Spec => []PeekNAssertHolds
<1>1. MaskedInv => PeekNAssertHolds
  BY DEF MaskedInv, PeekNAssertHolds
<1> QED
  BY <1>1, MaskedInvariance, PTL

(* So masked rewinds are safe, for every size that divides the range of an *)
(* unsigned (circular.h:132-142, 203-204).                                 *)
THEOREM MaskedRewindsSafe ==
  ASSUME Divides, Masks
  PROVE  Spec => []RewindsAreSafe
BY PeekNSafe, PushSafe, RaceFree, PTL DEF RewindsAreSafe

-----------------------------------------------------------------------------
(* Refinement of the abstract FIFO *)

(* The i-th slot from tail, and where head lies among them.                *)
LEMMA SlotsFromTail ==
  ASSUME Divides, NEW h \in Slot, NEW t \in Slot
  PROVE  /\ \A i \in 1 .. CQ_N : SlotOf(t, i) \in Slot
         /\ SlotOf(t, 1) = t
         /\ SlotOf(t, Dist(h, t) + 1) = h
         /\ \A i \in 1 .. Dist(h, t) : SlotOf(t, i) # h
         /\ \A i \in 1 .. CQ_N - 1 : SlotOf(Succ(t), i) = SlotOf(t, i + 1)
<1> USE SizeAssumption DEF Slot
<1>1. \A s \in Slot, i \in 1 .. CQ_N :
        SlotOf(s, i) = IF s + i - 1 < CQ_N THEN s + i - 1 ELSE s + i - 1 - CQ_N
  <2> SUFFICES ASSUME NEW s \in Slot, NEW i \in 1 .. CQ_N
               PROVE  (s + i - 1) % CQ_N
                        = IF s + i - 1 < CQ_N THEN s + i - 1 ELSE s + i - 1 - CQ_N
    BY DEF SlotOf
  <2>1. CASE s + i - 1 < CQ_N
    BY <2>1, SMT
  <2>2. CASE s + i - 1 >= CQ_N
    <3>1. \A r \in 0 .. CQ_N - 1 : (CQ_N + r) % CQ_N = r
      BY SMT
    <3> DEFINE r == s + i - 1 - CQ_N
    <3>2. r \in 0 .. CQ_N - 1 /\ s + i - 1 = CQ_N + r
      BY <2>2, SMT
    <3>3. (s + i - 1) % CQ_N = r
      BY <3>1, <3>2
    <3> QED
      BY <2>2, <3>3, SMT
  <2> QED
    BY <2>1, <2>2, SMT
<1>2. Dist(h, t) = IF h >= t THEN h - t ELSE h - t + CQ_N
  BY Distance
<1>3. Succ(t) \in Slot /\ Succ(t) = IF t + 1 = CQ_N THEN 0 ELSE t + 1
  BY NextSlot
<1>4. \A i \in 1 .. CQ_N : SlotOf(t, i) \in Slot
  BY <1>1, SMT
<1>5. SlotOf(t, 1) = t
  BY <1>1, SMT
<1>6. SlotOf(t, Dist(h, t) + 1) = h
  BY <1>1, <1>2, SMT
<1>7. \A i \in 1 .. Dist(h, t) : SlotOf(t, i) # h
  BY <1>1, <1>2, SMT
<1>8. \A i \in 1 .. CQ_N - 1 : SlotOf(Succ(t), i) = SlotOf(t, i + 1)
  BY <1>1, <1>3, SMT
<1> QED
  BY <1>4, <1>5, <1>6, <1>7, <1>8

(* The elements between two indices are a sequence as long as the distance.*)
LEMMA ItemsShape ==
  ASSUME Divides, NEW buf \in [Slot -> Elem], NEW h \in Slot, NEW t \in Slot
  PROVE  /\ Items(buf, h, t) \in Seq(Elem)
         /\ Len(Items(buf, h, t)) = Dist(h, t)
         /\ \A i \in 1 .. Dist(h, t) : Items(buf, h, t)[i] = buf[SlotOf(t, i)]
<1>1. Dist(h, t) \in Nat /\ Dist(h, t) < CQ_N
  <2>1. Dist(h, t) \in Slot
    BY DistanceSteps
  <2> QED
    BY <2>1, SizeAssumption DEF Slot
<1>2. \A i \in 1 .. Dist(h, t) : SlotOf(t, i) \in Slot
  BY <1>1, SlotsFromTail, SizeAssumption
<1>3. Items(buf, h, t) \in [1 .. Dist(h, t) -> Elem]
  BY <1>2 DEF Items
<1>4. Items(buf, h, t) \in Seq(Elem)
  BY <1>1, <1>3, SeqDef
<1>5. Len(Items(buf, h, t)) = Dist(h, t)
  BY <1>1, <1>3, <1>4, LenProperties
<1> QED
  BY <1>4, <1>5 DEF Items

(* Publishing an element at head appends it.                               *)
LEMMA ItemsAppend ==
  ASSUME Divides, NEW buf \in [Slot -> Elem], NEW h \in Slot, NEW t \in Slot,
         Succ(h) # t
  PROVE  Items(buf, Succ(h), t) = Append(Items(buf, h, t), buf[h])
<1> DEFINE s == Items(buf, h, t)
           a == Append(s, buf[h])
           r == Items(buf, Succ(h), t)
           d == Dist(h, t)
<1>1. d \in Nat /\ Dist(Succ(h), t) = d + 1 /\ Succ(h) \in Slot
  <2>1. d \in Slot /\ Dist(Succ(h), t) = d + 1
    BY DistanceSteps
  <2> QED
    BY <2>1, NextSlot, SizeAssumption DEF Slot
<1>2. /\ s \in Seq(Elem) /\ Len(s) = d
      /\ \A i \in 1 .. d : s[i] = buf[SlotOf(t, i)]
  BY ItemsShape
<1>3. /\ r \in Seq(Elem) /\ Len(r) = d + 1
      /\ \A i \in 1 .. d + 1 : r[i] = buf[SlotOf(t, i)]
  <2>1. \A k \in Slot : /\ Items(buf, k, t) \in Seq(Elem)
                        /\ Len(Items(buf, k, t)) = Dist(k, t)
                        /\ \A i \in 1 .. Dist(k, t) : Items(buf, k, t)[i] = buf[SlotOf(t, i)]
    BY ItemsShape
  <2> QED
    BY <1>1, <2>1
<1>4. /\ a \in Seq(Elem) /\ Len(a) = d + 1
      /\ \A i \in 1 .. d : a[i] = s[i]
      /\ a[d + 1] = buf[h]
  BY <1>2, AppendProperties
<1>5. SlotOf(t, d + 1) = h
  BY SlotsFromTail
<1> HIDE DEF s, a, r, d
<1>6. \A i \in 1 .. d + 1 : i \in 1 .. d \/ i = d + 1
  BY <1>1
<1>7. \A i \in 1 .. Len(r) : r[i] = a[i]
  BY <1>2, <1>3, <1>4, <1>5, <1>6
<1>8. r = a
  BY <1>3, <1>4, <1>7, SeqEqual
<1> QED
  BY <1>8 DEF r, a, s

(* Moving tail forward removes the element at tail, the first.             *)
LEMMA ItemsTail ==
  ASSUME Divides, NEW buf \in [Slot -> Elem], NEW h \in Slot, NEW t \in Slot,
         h # t
  PROVE  /\ Items(buf, h, t) # <<>>
         /\ Head(Items(buf, h, t)) = buf[t]
         /\ Items(buf, h, Succ(t)) = Tail(Items(buf, h, t))
<1> DEFINE s == Items(buf, h, t)
           r == Items(buf, h, Succ(t))
           d == Dist(h, t)
<1>1. /\ d \in Nat \ {0} /\ d <= CQ_N - 1 /\ Dist(h, Succ(t)) = d - 1
      /\ Succ(t) \in Slot
  <2>1. d \in Slot /\ d # 0 /\ Dist(h, Succ(t)) = d - 1
    BY DistanceSteps
  <2> QED
    BY <2>1, NextSlot, SizeAssumption DEF Slot
<1>2. /\ s \in Seq(Elem) /\ Len(s) = d
      /\ \A i \in 1 .. d : s[i] = buf[SlotOf(t, i)]
  BY ItemsShape
<1>3. /\ r \in Seq(Elem) /\ Len(r) = d - 1
      /\ \A i \in 1 .. d - 1 : r[i] = buf[SlotOf(Succ(t), i)]
  BY <1>1, ItemsShape
<1>4. SlotOf(t, 1) = t /\ \A i \in 1 .. CQ_N - 1 : SlotOf(Succ(t), i) = SlotOf(t, i + 1)
  BY SlotsFromTail
<1> HIDE DEF s, r, d
<1>5. s # <<>>
  BY <1>1, <1>2, EmptySeq
<1>6. /\ Tail(s) \in Seq(Elem) /\ Len(Tail(s)) = d - 1
      /\ \A i \in 1 .. d - 1 : Tail(s)[i] = s[i + 1]
  BY <1>2, <1>5, HeadTailProperties
<1>7. Head(s) = buf[t]
  <2>1. Head(s) = s[1]
    BY <1>2, <1>5
  <2> QED
    BY <1>1, <1>2, <1>4, <2>1
<1>8. \A i \in 1 .. d - 1 : i \in 1 .. CQ_N - 1 /\ i + 1 \in 1 .. d
  BY <1>1, SizeAssumption
<1>9. \A i \in 1 .. Len(r) : r[i] = Tail(s)[i]
  BY <1>2, <1>3, <1>4, <1>6, <1>8
<1>10. r = Tail(s)
  BY <1>3, <1>6, <1>9, SeqEqual
<1> QED
  BY <1>5, <1>7, <1>10 DEF r, s

(* Writing the free slot at head is not visible.                           *)
LEMMA ItemsWrite ==
  ASSUME Divides, NEW buf \in [Slot -> Elem], NEW h \in Slot, NEW t \in Slot, NEW x \in Elem
  PROVE  Items([buf EXCEPT ![h] = x], h, t) = Items(buf, h, t)
<1>1. Dist(h, t) \in Nat /\ Dist(h, t) < CQ_N
  <2>1. Dist(h, t) \in Slot
    BY DistanceSteps
  <2> QED
    BY <2>1, SizeAssumption DEF Slot
<1>2. \A i \in 1 .. Dist(h, t) : SlotOf(t, i) \in Slot /\ SlotOf(t, i) # h
  BY <1>1, SlotsFromTail, SizeAssumption
<1> QED
  BY <1>2 DEF Items

LEMMA InitRefines ==
  ASSUME Divides
  PROVE  Init => Fifo!Init
<1> SUFFICES ASSUME Init PROVE contents = <<>> /\ pdata = <<>> /\ got = Zero
  BY DEF Fifo!Init
<1>1. head = 0 /\ tail = 0 /\ 0 \in Slot /\ got = Zero /\ pdata = <<>>
  BY SizeAssumption DEF Init, Slot
<1>2. Dist(head, tail) = 0
  BY <1>1, DistanceSteps
<1>3. contents = [i \in 1 .. 0 |-> c_buf[SlotOf(tail, i)]]
  BY <1>2 DEF contents, Items
<1> QED
  BY <1>1, <1>3

(* Every step is a push, a pop or a peek of the abstract queue, or leaves  *)
(* it unchanged.                                                           *)
LEMMA StepRefines ==
  ASSUME Divides, Forward, TypeOK, IInv, [Next]_vars
  PROVE  [Fifo!Next]_Fifo!vars
<1>1. CASE UNCHANGED <<c_buf, head, tail, pdata, got>>
  BY <1>1 DEF contents, Fifo!vars
<1>2. CASE PushWrite
  <2>1. /\ phead = head /\ Head(pdata) \in Elem
        /\ c_buf' = [c_buf EXCEPT ![head] = Head(pdata)]
        /\ UNCHANGED <<head, tail, pdata, got>>
    BY <1>2, HeadTail DEF PushWrite, IInv, PushInv, cvars, TypeOK
  <2>2. contents' = contents
    BY <2>1, ItemsWrite DEF contents, TypeOK
  <2> QED
    BY <2>1, <2>2 DEF Fifo!vars
<1>3. CASE PushPublish
  <2>1. /\ head' = Succ(head) /\ Succ(head) # tail
        /\ c_buf[head] = Head(pdata) /\ Head(pdata) \in Elem
        /\ pdata # <<>> /\ pdata' = Tail(pdata)
        /\ UNCHANGED <<c_buf, tail, got>>
    BY <1>3, HeadTail DEF PushPublish, IInv, PushInv, cq_full, cvars, TypeOK
  <2>2. contents' = Append(contents, Head(pdata))
    BY <2>1, ItemsAppend DEF contents, TypeOK
  <2>3. Len(contents) < CQ_N - 1
    <3>1. Len(contents) = cq_nelem
      BY ItemsShape DEF contents, TypeOK, cq_nelem
    <3>2. cq_nelem \in 0 .. CQ_N - 1 /\ cq_nspace # 0
      BY <2>1, QueueShape DEF cq_full
    <3> QED
      BY <3>1, <3>2, SizeAssumption DEF cq_nspace
  <2> QED
    BY <2>1, <2>2, <2>3 DEF Fifo!Next, Fifo!Push
<1>4. CASE PopAdvance
  <2>1. /\ tail' = Succ(tail) /\ head # tail /\ got' = c_buf[tail]
        /\ UNCHANGED <<c_buf, head, pdata>>
    BY <1>4 DEF PopAdvance, IInv, PopInv, cq_empty, pvars
  <2>2. /\ contents # <<>> /\ Head(contents) = c_buf[tail]
        /\ contents' = Tail(contents)
    BY <2>1, ItemsTail DEF contents, TypeOK
  <2> QED
    BY <2>1, <2>2 DEF Fifo!Next, Fifo!Pop
<1>5. CASE PeekRead
  <2>1. head # tail /\ got' = c_buf[tail] /\ UNCHANGED <<c_buf, head, tail, pdata>>
    BY <1>5 DEF PeekRead, IInv, PopInv, cq_empty, qvars, pvars
  <2>2. contents # <<>> /\ Head(contents) = c_buf[tail] /\ UNCHANGED contents
    BY <2>1, ItemsTail DEF contents, TypeOK
  <2> QED
    BY <2>1, <2>2 DEF Fifo!Next, Fifo!Peek
<1>6. CASE Calls
  <2>1. ~cq_restore
    BY DEF cq_restore, MayRewind, Forward
  <2>2. UNCHANGED <<c_buf, head, tail, got>>
    BY <1>6, <2>1 DEF Calls, CallPush, CallPushN, BeginPush, CallPopNonblock, CallPopN,
       CallPopNNoblk, CallPeek, CallPeekN, BeginPop, cq_ckpt, SetInterrupts, qvars, cvars
  <2>3. CASE \/ \E x \in Elem : CallPush(x)
             \/ \E data \in Batches : CallPushN(data)
    <3>1. pdata = <<>> /\ pdata' \in Seq(Elem)
      BY <2>3, PushData DEF CallPush, CallPushN, BeginPush, IInv, PushInv
    <3> QED
      BY <2>2, <3>1 DEF contents, Fifo!Next, Fifo!Ask
  <2>4. CASE \/ CallPopNonblock \/ CallPeek \/ cq_ckpt
             \/ \E n \in 1 .. Batch : CallPopN(n) \/ CallPopNNoblk(n) \/ CallPeekN(n)
             \/ \E on \in BOOLEAN : SetInterrupts(on)
    <3>1. UNCHANGED pdata
      BY <2>4 DEF CallPopNonblock, CallPopN, CallPopNNoblk, CallPeek, CallPeekN, BeginPop,
                  cq_ckpt, SetInterrupts, pvars
    <3> QED
      BY <1>1, <2>2, <3>1
  <2> QED
    BY <1>6, <2>1, <2>3, <2>4 DEF Calls
<1>7. CASE PushFull
  <2>1. pdata # <<>> /\ pdata' = <<>> /\ cq_full /\ UNCHANGED <<c_buf, head, tail, got>>
    BY <1>7 DEF PushFull, IInv, PushInv, qvars, cvars
  <2>2. Len(contents) = cq_nelem
    BY ItemsShape DEF contents, TypeOK, cq_nelem
  <2>3. cq_nelem \in 0 .. CQ_N - 1 /\ cq_nspace = 0
    BY <2>1, QueueShape
  <2>4. Len(contents) = CQ_N - 1
    BY <2>2, <2>3, SizeAssumption DEF cq_nspace
  <2> QED
    BY <2>1, <2>4 DEF contents, Fifo!Next, Fifo!Refuse
<1>11. CASE PushNotFull \/ PushAssert
  BY <1>1, <1>11 DEF PushNotFull, PushAssert, qvars, cvars
<1>8. CASE FindsEmpty \/ PopWouldDeadlock \/ FindsElement \/ PopRead
  BY <1>1, <1>8 DEF FindsEmpty, PopWouldDeadlock, FindsElement, PopRead, qvars, pvars, cvars
<1>9. ~PeekNRestore /\ ~PeekNAssert
  BY DEF IInv, PopInv, PeekNRestore, PeekNAssert
<1>10. CASE UNCHANGED vars
  BY <1>1, <1>10 DEF vars, qvars, pvars, cvars
<1> QED
  BY <1>2, <1>3, <1>4, <1>5, <1>6, <1>7, <1>8, <1>9, <1>10, <1>11
     DEF Next, ProducerStep, ConsumerStep

(* The circular queue implements the bounded FIFO of FifoQueue with        *)
(* CQ_N - 1 places.                                                        *)
THEOREM Refinement ==
  ASSUME Divides, Forward
  PROVE  Spec => FifoSpec
<1>1. Init => Fifo!Init
  BY InitRefines
<1>2. TypeOK /\ IInv /\ [Next]_vars => [Fifo!Next]_Fifo!vars
  BY StepRefines
<1> QED
  BY <1>1, <1>2, Invariance, PTL DEF Spec, FifoSpec, Fifo!Spec
=============================================================================
