--------------------------- MODULE CircularQueue ---------------------------
(***************************************************************************)
(* The lock-free circular queue of src/libpi/libc/circular.h, one producer *)
(* and one consumer interleaved at every access to a field the other side  *)
(* writes ("single mutator of head, single mutator of tail = lock free").  *)
(* One of the two may be an interrupt handler: variable ints says whether  *)
(* interrupts are enabled, and no push begins while they are masked.       *)
(* Calls that only return 0 change no state; where such a call reads the   *)
(* queue once, it is the absence of the corresponding Call action.         *)
(***************************************************************************)
EXTENDS Integers, Sequences

CONSTANTS
  Elem,     \* the elements, cqe_t
  Zero,     \* cqe_mk(): what memset leaves in the buffer
  CQ_N,     \* slots of the buffer
  Word,     \* values an unsigned can take: 2^32 in the code
  Batch,    \* bound: the largest n of push_n, pop_n, peek_n
  Rewinds   \* when clients move tail back (peek_n, restore):
            \*   "never", "masked" = interrupts disabled, "any"

ASSUME ElemAssumption == Zero \in Elem
ASSUME SizeAssumption == CQ_N \in Nat /\ CQ_N >= 2
ASSUME WordAssumption == Word \in Nat /\ Word >= CQ_N
ASSUME BatchAssumption == Batch \in Nat \ {0}
ASSUME RewindsAssumption == Rewinds \in {"never", "masked", "any"}

VARIABLES
  c_buf, head, tail, overflow,  \* cq_t
  ints,                         \* int_is_enabled()
  panic,                        \* the panic or failed assert that stopped the Pi
  ppc, phead, pdata, pmany,     \* producer: step, local head, elements left,
                                \*   inside push_n
  cpc, cop, cleft, ctail, ce,   \* consumer: step, operation, elements left,
                                \*   locals tail and e of pop_nonblock
  csz, csaved,                  \* locals sz and tail of peek_n
  ckpt,                         \* the client's checkpoint, or NoCkpt
  got                           \* last element a pop or a peek returned

qvars == <<c_buf, head, tail, overflow>>
pvars == <<ppc, phead, pdata, pmany>>
cvars == <<cpc, cop, cleft, ctail, ce, csz, csaved, ckpt, got>>
vars  == <<qvars, pvars, cvars, ints, panic>>

Slot   == 0 .. CQ_N - 1
NoCkpt == -1

Succ_nowrap(i) == i + 1   \* mutant
(* The next slot, and the unsigned distance from index t to index h.       *)
Succ(i)    == (i + 1) % CQ_N
Dist(h, t) == ((h - t) % Word) % CQ_N

cq_empty  == head = tail
cq_full   == Succ(head) = tail
cq_nelem  == Dist(head, tail)
cq_nspace == (CQ_N - 1) - cq_nelem

Batches == UNION {[1 .. n -> Elem] : n \in 1 .. Batch}

(* cq_init *)
Init ==
  /\ c_buf = [i \in Slot |-> Zero] /\ head = 0 /\ tail = 0 /\ overflow = 0
  /\ ints = TRUE /\ panic = "none"
  /\ ppc = "idle" /\ phead = 0 /\ pdata = <<>> /\ pmany = FALSE
  /\ cpc = "idle" /\ cop = "pop_n" /\ cleft = 0 /\ ctail = 0 /\ ce = Zero
  /\ csz = 0 /\ csaved = 0 /\ ckpt = NoCkpt /\ got = Zero

Panic(why) == panic' = why

-----------------------------------------------------------------------------
(* Producer: cq_push and cq_push_n *)

BeginPush(data, many) ==
  /\ ppc = "idle" /\ ints
  /\ ppc' = "full" /\ pdata' = data /\ pmany' = many
  /\ UNCHANGED <<qvars, cvars, ints, panic, phead>>

CallPush(x) == BeginPush(<<x>>, FALSE)

(* push_n starts only if the free space it computes is enough; otherwise   *)
(* it returns 0.                                                           *)
CallPushN(data) == /\ cq_nspace >= Len(data)
                   /\ BeginPush(data, TRUE)

PushFull_retries ==   \* mutant
  /\ ppc = "full" /\ cq_full /\ UNCHANGED vars
(* "returns 0 if full"; overflow stays 0.  Inside push_n a failed push is   *)
(* the panic "impossible: buffer should have space".                        *)
PushFull ==
  /\ ppc = "full" /\ cq_full
  /\ IF pmany THEN Panic("push_n_no_space") ELSE UNCHANGED panic
  /\ ppc' = "idle" /\ pdata' = <<>>
  /\ UNCHANGED <<qvars, cvars, ints, phead, pmany>>

PushNotFull_unchecked ==   \* mutant
  /\ ppc = "full" /\ phead' = head /\ ppc' = "assert"
  /\ UNCHANGED <<qvars, cvars, ints, panic, pdata, pmany>>
PushNotFull ==
  /\ ppc = "full" /\ ~cq_full
  /\ phead' = head
  /\ ppc' = "assert"
  /\ UNCHANGED <<qvars, cvars, ints, panic, pdata, pmany>>

(* assert(cq_nspace(c) > 0) *)
PushAssert ==
  /\ ppc = "assert"
  /\ IF cq_nspace > 0 THEN ppc' = "write" /\ UNCHANGED panic
                      ELSE Panic("push_assert") /\ UNCHANGED ppc
  /\ UNCHANGED <<qvars, cvars, ints, phead, pdata, pmany>>

PushWrite_next ==   \* mutant
  /\ ppc = "write" /\ c_buf' = [c_buf EXCEPT ![Succ(phead)] = Head(pdata)] /\ ppc' = "publish"
  /\ UNCHANGED <<head, tail, overflow, cvars, ints, panic, phead, pdata, pmany>>
PushWrite ==
  /\ ppc = "write"
  /\ c_buf' = [c_buf EXCEPT ![phead] = Head(pdata)]
  /\ ppc' = "publish"
  /\ UNCHANGED <<head, tail, overflow, cvars, ints, panic, phead, pdata, pmany>>

PushPublish ==
  /\ ppc = "publish"
  /\ head' = Succ(phead)
  /\ pdata' = Tail(pdata)
  /\ ppc' = IF Len(pdata) = 1 THEN "idle" ELSE "full"
  /\ UNCHANGED <<c_buf, tail, overflow, cvars, ints, panic, phead, pmany>>

ProducerStep == PushFull \/ PushNotFull \/ PushAssert \/ PushWrite \/ PushPublish

-----------------------------------------------------------------------------
(* Consumer: the pops and peeks *)

MayRewind_unmasked == Rewinds # "never"   \* mutant
MayRewind == \/ Rewinds = "any"
             \/ Rewinds = "masked" /\ ~ints

BeginPop(op, n) ==
  /\ cpc = "idle"
  /\ cop' = op /\ cleft' = n /\ cpc' = "empty"
  /\ UNCHANGED <<qvars, pvars, ints, panic, ctail, ce, ckpt, got>>

CallPopNonblock == BeginPop("pop_nonblock", 1) /\ UNCHANGED <<csz, csaved>>

(* cq_pop is cq_pop_n of one element *)
CallPopN(n) == BeginPop("pop_n", n) /\ UNCHANGED <<csz, csaved>>

CallPopNNoblk_one_more(n) == /\ cq_nelem + 1 >= n   \* mutant
                             /\ BeginPop("pop_n_noblk", n)
                             /\ UNCHANGED <<csz, csaved>>
CallPopNNoblk(n) == /\ cq_nelem >= n
                    /\ BeginPop("pop_n_noblk", n)
                    /\ UNCHANGED <<csz, csaved>>

CallPeek == BeginPop("peek", 1) /\ UNCHANGED <<csz, csaved>>

(* peek_n reads sz, saves tail, and pops n elements without blocking *)
CallPeekN(n) == /\ MayRewind /\ cq_nelem >= n
                /\ BeginPop("peek_n", n)
                /\ csz' = cq_nelem /\ csaved' = tail

FindsEmpty ==
  /\ cpc = "empty" /\ cq_empty /\ cop \in {"pop_nonblock", "peek"}
  /\ cpc' = "idle"
  /\ UNCHANGED <<qvars, pvars, ints, panic, cop, cleft, ctail, ce, csz, csaved,
                 ckpt, got>>

(* The loop of cq_pop, which the other pops call: it spins while interrupts *)
(* are enabled, and panics when they are not.                               *)
PopWouldDeadlock ==
  /\ cpc = "empty" /\ cq_empty /\ cop \notin {"pop_nonblock", "peek"} /\ ~ints
  /\ Panic("pop_deadlock")
  /\ UNCHANGED <<qvars, pvars, cvars, ints>>

FindsElement_unchecked ==   \* mutant
  /\ cpc = "empty" /\ cpc' = "read"
  /\ UNCHANGED <<qvars, pvars, ints, panic, cop, cleft, ctail, ce, csz, csaved,
                 ckpt, got>>
FindsElement ==
  /\ cpc = "empty" /\ ~cq_empty
  /\ cpc' = "read"
  /\ UNCHANGED <<qvars, pvars, ints, panic, cop, cleft, ctail, ce, csz, csaved,
                 ckpt, got>>

PeekRead ==
  /\ cpc = "read" /\ cop = "peek"
  /\ got' = c_buf[tail]
  /\ cpc' = "idle"
  /\ UNCHANGED <<qvars, pvars, ints, panic, cop, cleft, ctail, ce, csz, csaved, ckpt>>

PopRead ==
  /\ cpc = "read" /\ cop # "peek"
  /\ ctail' = tail /\ ce' = c_buf[tail]
  /\ cpc' = "advance"
  /\ UNCHANGED <<qvars, pvars, ints, panic, cop, cleft, csz, csaved, ckpt, got>>

PopAdvance ==
  /\ cpc = "advance"
  /\ tail' = Succ(ctail)
  /\ got' = ce
  /\ cleft' = cleft - 1
  /\ cpc' = IF cleft > 1 THEN "empty" ELSE IF cop = "peek_n" THEN "restore" ELSE "idle"
  /\ UNCHANGED <<c_buf, head, overflow, pvars, ints, panic, cop, ctail, ce, csz,
                 csaved, ckpt>>

PeekNRestore ==
  /\ cpc = "restore"
  /\ tail' = csaved
  /\ cpc' = "peek_assert"
  /\ UNCHANGED <<c_buf, head, overflow, pvars, ints, panic, cop, cleft, ctail, ce,
                 csz, csaved, ckpt, got>>

(* assert(sz == cq_nelem(c)) *)
PeekNAssert ==
  /\ cpc = "peek_assert"
  /\ IF csz = cq_nelem THEN UNCHANGED panic ELSE Panic("peek_n_assert")
  /\ cpc' = "idle"
  /\ UNCHANGED <<qvars, pvars, ints, cop, cleft, ctail, ce, csz, csaved, ckpt, got>>

cq_ckpt ==
  /\ cpc = "idle" /\ MayRewind
  /\ ckpt' = tail
  /\ UNCHANGED <<qvars, pvars, ints, panic, cpc, cop, cleft, ctail, ce, csz, csaved, got>>

cq_restore ==
  /\ cpc = "idle" /\ MayRewind /\ ckpt # NoCkpt
  /\ tail' = ckpt
  /\ UNCHANGED <<c_buf, head, overflow, pvars, cvars, ints, panic>>

(* The client masks and unmasks interrupts between calls.  It runs only    *)
(* while no handler does; a "masked" client gives up its checkpoint when   *)
(* it unmasks.                                                             *)
SetInterrupts(on) ==
  /\ cpc = "idle" /\ ppc = "idle" /\ ints = ~on
  /\ ints' = on
  /\ ckpt' = IF on /\ Rewinds = "masked" THEN NoCkpt ELSE ckpt
  /\ UNCHANGED <<qvars, pvars, panic, cpc, cop, cleft, ctail, ce, csz, csaved, got>>

ConsumerStep == \/ FindsEmpty \/ PopWouldDeadlock \/ FindsElement \/ PeekRead
                \/ PopRead \/ PopAdvance \/ PeekNRestore \/ PeekNAssert

-----------------------------------------------------------------------------
Calls ==
  \/ \E x \in Elem : CallPush(x)
  \/ \E data \in Batches : CallPushN(data)
  \/ CallPopNonblock
  \/ \E n \in 1 .. Batch : CallPopN(n) \/ CallPopNNoblk(n) \/ CallPeekN(n)
  \/ CallPeek
  \/ cq_ckpt
  \/ cq_restore
  \/ \E on \in BOOLEAN : SetInterrupts(on)

(* A panic stops the machine. *)
Next == panic = "none" /\ (Calls \/ ProducerStep \/ ConsumerStep)

Spec == Init /\ [][Next]_vars

(* Both sides keep executing the call they are in; nothing makes a client  *)
(* or a device begin one.                                                  *)
FairSpec == Spec /\ WF_vars(panic = "none" /\ ProducerStep)
                 /\ WF_vars(panic = "none" /\ ConsumerStep)

-----------------------------------------------------------------------------
Panics == {"push_n_no_space", "push_assert", "pop_deadlock",
           "peek_n_assert"}

TypeOK ==
  /\ c_buf \in [Slot -> Elem] /\ head \in Slot /\ tail \in Slot /\ overflow = 0
  /\ ints \in BOOLEAN /\ panic \in {"none"} \cup Panics
  /\ ppc \in {"idle", "full", "assert", "write", "publish"}
  /\ phead \in Slot /\ pdata \in Seq(Elem) /\ pmany \in BOOLEAN
  /\ cpc \in {"idle", "empty", "read", "advance", "restore", "peek_assert"}
  /\ cop \in {"pop_nonblock", "pop_n", "pop_n_noblk", "peek", "peek_n"}
  /\ cleft \in 0 .. Batch /\ ctail \in Slot /\ ce \in Elem
  /\ csz \in Slot /\ csaved \in Slot /\ ckpt \in Slot \cup {NoCkpt} /\ got \in Elem

(* circular.h:49 "single mutator of head, single mutator of tail = lock    *)
(* free": the producer never writes the slot the consumer is about to read *)
(* or has read without releasing it.                                       *)
NoSlotRace ==
  ppc = "write" /\ cpc \in {"read", "advance"} => phead # tail

(* The producer's assertion circular.h:100 and the "impossible" panic of    *)
(* push_n, circular.h:154, never fire: the space a push checked cannot go   *)
(* away before it is used.                                                  *)
PushNeverPanics ==
  panic \notin {"push_assert", "push_n_no_space"}

(* pop_n_noblk and peek_n never reach the spin loop of cq_pop: the elements *)
(* they counted are still there when they pop them (circular.h:124-138).    *)
NoblkNeverWaits ==
  cop \in {"pop_n_noblk", "peek_n"} /\ cpc = "empty" => ~cq_empty

(* The assertion at the end of peek_n, circular.h:140. *)
PeekNAssertHolds == panic # "peek_n_assert"

(* A client that moves tail back (peek_n, restore; circular.h:139, 204) with *)
(* interrupts masked gets no wrong assertion, and takes from a push neither *)
(* the space it has checked nor the slot it writes.                         *)
RewindsAreSafe == PeekNAssertHolds /\ PushNeverPanics /\ NoSlotRace

(* Once there is something to pop, a pop or a peek returns, and a push      *)
(* returns, whatever the other side does (circular.h:83-93, 96-104).        *)
CallsReturn ==
  /\ (ppc # "idle") ~> (ppc = "idle" \/ panic # "none")
  /\ (cpc # "idle") ~> (\/ cpc = "idle" \/ panic # "none"
                        \/ cop = "pop_n" /\ cq_empty)

(* The inductive invariant behind the properties above, for clients that    *)
(* never move tail back: what each side has learned about the other's index *)
(* stays true until it uses it, because tail only moves towards head and    *)
(* head only away from it.                                                  *)
PushInv ==
  /\ ppc # "idle" <=> pdata # <<>>
  /\ ppc \in {"assert", "write", "publish"} => phead = head /\ ~cq_full
  /\ ppc = "publish" => c_buf[phead] = Head(pdata)
  /\ pmany /\ ppc # "idle" => cq_nspace >= Len(pdata)
PopInv ==
  /\ cpc \in {"empty", "read", "advance"} => cleft > 0
  /\ cpc \in {"read", "advance"} => ~cq_empty
  /\ cpc = "advance" => ctail = tail /\ ce = c_buf[tail]
  /\ cop = "pop_n_noblk" /\ cpc # "idle" => cq_nelem >= cleft
  /\ cop # "peek_n" /\ cpc \notin {"restore", "peek_assert"} /\ ckpt = NoCkpt
IInv == PushInv /\ PopInv /\ panic \in {"none", "pop_deadlock"}

-----------------------------------------------------------------------------
(* Refinement: the elements from tail up to head, oldest first. *)
SlotOf(t, i) == (t + i - 1) % CQ_N
Items(buf, h, t) == [i \in 1 .. Dist(h, t) |-> buf[SlotOf(t, i)]]
contents == Items(c_buf, head, tail)

Fifo == INSTANCE FifoQueue WITH Capacity <- CQ_N - 1, pending <- pdata

(* Every behaviour of the queue is one of the abstract bounded FIFO         *)
(* (circular.h:19 "simple circular FIFO Q"): a push takes effect when head  *)
(* moves, a pop when tail does, and a push fails only when it is full.      *)
FifoSpec == Fifo!Spec
=============================================================================
