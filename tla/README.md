# Verification of the core of cs240lx

The repository holds the labs of an embedded-systems course: a small runtime for the Raspberry Pi
(`libpi`), and one directory per lab with starter code, tests and, for some labs, a complete
implementation. This directory specifies the parts that have an implementation with logic of their own,
checks them with TLC and proves the most important results with TLAPS.

- [Parts of the system](#parts-of-the-system)
- [Modules](#modules)
- [Circular queue](#circular-queue), [SAT solvers](#sat-solvers), [K&R allocator](#kr-allocator),
  [the Pi and its host](#the-pi-and-its-host): the models, what is checked and what it shows
- [Proofs](#proofs)
- [Findings](#findings)
- [Not modelled](#not-modelled) and [plan](#plan)

## Parts of the system

| part | state | operations | interacts with | what is hard |
|---|---|---|---|---|
| circular queue, `libpi/libc/circular.h` | buffer, `head`, `tail` | push, push_n, pop, pop_n, the non-blocking pops, peek, peek_n, checkpoint, restore | a producer and a consumer that share it without a lock; either may be an interrupt handler | every access can interleave; `peek_n` and `restore` move `tail` back; unsigned indices wrap |
| SAT solvers, `labs/24-sat-smt-symex/sat-lab-monday/code/`: `fast.c`, `basic.c`, `loop.c` | assignment, decision stack, false-literal counts or watch lists, queue of implications | load, `bcp`, `set_literal`, `decide`, `resolveConflict` | the lab compares their answers | long sequences of assignment and undoing that must leave the indexes right; early returns that skip part of the bookkeeping |
| CDCL solver, `cdcl.c` in the same directory | the same, and learnt clauses | propagate, analyze, backjump | | pointers into an array that grows |
| K&R allocator, `labs/5-malloc+gc/1-malloc/kr-malloc.c` | circular free list, roving `freep`, end of the heap | `kr_malloc`, `kr_free`, `my_morecore`, `my_sbrk` | `ckalloc` above it | any order of calls; loops that end only because the list is ordered; the list changes during a search |
| checking allocator, `2-ckalloc/ckalloc.c`; leak checker, `code/ck-gc.c` | list of allocated blocks | `ckalloc`, `ckfree`; mark and sweep | kr-malloc, Purify | stale headers |
| memory tracing, `labs/11-memcheck-trap/code/memtrace.c` | client handler, domain register, mode, breakpoint | data abort, prefetch abort, init, on, off | the checkers are its clients; the processor decides which abort is taken | an access must trap exactly once and run exactly once |
| Purify and Eraser, same directory | blocks; one word of shadow state, a lock per thread | alloc, free, lock, unlock, set thread, load/store handler | memtrace, ckalloc; they end a program with `panic` or `clean_reboot` | switching tracing off and on around their own accesses |
| memory log, `labs/23-memcheck-llvm/part2/rtlib.c` | list of blocks | malloc, free, load, store, exit | the instrumented program and its malloc | blocks that malloc reuses |
| serial bootloader, `labs/26-single-step-tricks/code/2-uart-int/pi-echo-boot` with `libunix` (`pi-echo.c`), and `labs/20-d/code/tools/piprog` | position in the handshake, position in the exit string | handshake, send the program, show the output until the program ends | the Pi, over a serial line; `clean_reboot` ends both sides | messages repeated until answered, bytes of earlier runs, the power |

What makes them correct: the queue is a FIFO and neither side ever touches a slot the other is using; a
solver answers, says SAT with a satisfying assignment only and UNSAT for unsatisfiable inputs only;
the allocator gives each byte to one client at a time, loses none, and fails only when it must; a
checker reports all illegal accesses and no legal ones; the bootloader gets through whatever the
timing. `PROJECT.json` lists every part and, under `hazards`, the lines where these could break.

## Modules

| module | what it is |
|---|---|
| `FifoQueue` | the abstract bounded FIFO |
| `CircularQueue` | `circular.h`, one step per shared access |
| `Cnf` | literals, models, satisfaction |
| `Dpll` | the abstract backtracking search |
| `Assignments` | what the three solvers store for a variable |
| `FastSat` | `fast.c` (two watched literals), implements `Dpll` |
| `ZeroCounters` | the data structure and stack operations `basic.c` and `loop.c` share |
| `BasicSat` | `basic.c`, implements `Dpll` |
| `LoopSat` | `loop.c`, many runs in one process |
| `SatInputs` | the inputs the solvers are checked on |
| `Allocator` | what malloc and free promise |
| `KrMalloc` | `kr-malloc.c`, implements `Allocator` |
| `TracedMemory` | what memory tracing promises |
| `Memtrace` | `memtrace.c` with the program and the processor it runs on |
| `Purify`, `Eraser` | the two checkers, clients of `Memtrace` |
| `Boot` | the two hosts (`simple_boot` and `pi_echo`; `piprog`), the Pi's bootloader and the line |
| `System` | the Pi and its host: `Boot` boots a program that runs alone or over `Memtrace`, `Purify` or `Eraser`; implements `TracedMemory` |
| `..._proofs` | the theorems about a module and their proofs, see [Proofs](#proofs) |
| `MC...` | instances for TLC; each `.cfg` is one run |

Definitions keep the names of the C code where they can. A definition marked `\* mutant`, right before
another, is that definition with a plausible bug; no specification uses it. Each property has such a
mutant in `PROJECT.json` that breaks it, so a property that holds says something about the code.

## Circular queue

**Model.** `c_buf`, `head`, `tail` and `overflow` are the fields of `cq_t`. The producer and the consumer
each have a program counter and the locals of the call they are in. A step contains at most one
access to a field the other side writes: a push is `PushFull` or `PushNotFull` (read of `tail`),
`PushAssert` (the second read), `PushWrite` (the slot) and `PushPublish` (`head`); a pop is `FindsEmpty` or
`FindsElement`, `PopRead`, `PopAdvance`. The batch operations loop over these; `cq_push32` and the pops of a
word are batches of four. `cq_pop` panics instead of spinning in a handler: variable `ints` is
`int_is_enabled()`, and `PopWouldDeadlock` is the panic. An interrupt handler that runs the producer or
the consumer to the end is one of the interleavings. On one core, with volatile fields, program order
is execution order, so the model needs no reordering of memory.

Constant `Rewinds` says what clients do with the operations that move `tail` back (`peek_n`,
`ckpt`/`restore`): nothing, use them with interrupts masked, or use them at any time. `Word` is the number of values
of an unsigned; `Dist` subtracts modulo `Word` before it takes `% CQ_N`, as the code does.

**Runs.**

- `queue_fifo` (`CQ_N` = 4, `Word` = 16, batches of 2, two elements, 124900 states): `NoSlotRace`,
  `PushNeverPanics`, `NoblkNeverWaits`, the inductive invariant `IInv`, the refinement `FifoSpec` and the liveness property
  `CallsReturn`. Three elements fit, so full, empty, wrapped, and a batch that fits exactly or not quite, all occur.
- `queue_masked` (`CQ_N` = 3, 321585 states): with masked rewinds the assertion at the end of `peek_n` holds, and a rewind takes neither the space a push has checked
  nor the slot it writes (`RewindsAreSafe`, of three parts); unmasked, each of the three fails.
- `queue_rewind` and `queue_size` are expected violations, see [Findings](#findings).

The [proofs](#proofs) remove the bounds of both runs, except for liveness.

**Fairness.** `FairSpec` has weak fairness of the producer's and of the consumer's steps: a call that has
begun keeps executing (on the Pi both sides get the processor: a handler runs to its end, and the
main program runs between interrupts). Nothing forces a call to begin, so a blocking pop of an empty queue may
spin for ever, and `CallsReturn` says so.

## SAT solvers

**Model.** A step of the three models is one turn of the loop that does the work. In `FastSat` that is
one clause of the input as `main` reads it (`LoadClause`: an empty clause ends the run, a unit clause is queued, any other watches its first
two literals), then one clause of the watch list being walked (`MoveWatch`, `KeepWatch`, or an end of the walk: `ReturnConflict`, `ReturnOk`),
one literal taken off the implication queue (`bcp`), a decision, or the unwinding and flip of
`resolveConflict`. In `BasicSat` and `LoopSat` it is one clause of the scan in `bcp` (`BcpSkip`, `BcpForce`, ...), and
`set_literal` with its update of the counts is part of the step that calls it. `set_literal` stops at the first clause that
becomes false; `Counted` and `Completed` model exactly which counts have been incremented by then.
The stack `DECISION_STACK` has the entries of the code. Parsing, printing and memory management are left out.

`Dpll` is the search itself: assignments by decision or because a clause leaves no choice, flips of
the latest open decision, an answer. It may choose any literal and any order, so all solvers that
explore in this way refine it. The mapping of `FastSat` takes into account that the solver may assign a
variable a second time when both its literals were queued: the walk that follows always reports
the conflict, and the second assignment is not part of the abstract trail.

**Runs.**

- `fast_sat` (21205 inputs, 421309 states): the watch lists hold each clause exactly twice (`WatchesListed`),
  backtracking leaves the watches right although it does not touch them (`WatchInv`), decisions never conflict and
  flips never falsify a clause unnoticed (`OnlyImpliedConflicts`), the stack does not outgrow its array (`StackFits`), the queue of implications
  does not either (in `TypeOK`), the solver answers, and it implements `Dpll` (`SearchSpec`).
- `basic_sat` (22093 inputs, 485713 states): the same refinement, although the counts drift: `n_zeros` is decremented for every
  clause with the literal (`basic.c:968`) but incremented only up to the first falsified one (`basic.c:944-952`), so the
  counts become too low and `bcp` misses units and conflicts. They are never too high (`NeverOvercounts`), and `checkAllClauses` catches what was missed.
- `loop_sat` (two runs on each of 10528 inputs): all runs over one input print the same answer, the assertion of `decide`
  holds, SAT is printed with a satisfying assignment only. There is no refinement: the solver is wrong on UNSAT.
- `fast_sat_units`: an expected violation.

**Inputs.** Three variables; every formula of up to three clauses (two for `loop_sat`), tautologies included; with one more clause if
they are short; every set of clauses of one width of two or more; and each in both orders, because order
decides which watches are chosen and where `set_literal` stops. Three variables give a decision below a decision with an
implication between, the smallest case in which backtracking must undo something and keep something;
`StackFits` is tight: runs reach `N_VARS` entries. `fast_sat` leaves out the inputs with opposite unit clauses, which `fast_sat_units` shows the solver gets
wrong; `loop_sat` leaves out the empty clause, which `loop.c` ignores.

**Fairness.** Weak fairness of the next step: one thread, no waiting.

## K&R allocator

**Model.** Memory in header-sized units; `ptr` and `size` are the headers, wherever one lies, `Base` the
sentinel below the heap. Each turn of the search in `kr_malloc` (`NextBlock`, `FitExact`, `FitSplit`) and of the walk in `kr_free`
(`Walk`, `Link`) is a step. When the search wraps around, `my_morecore` extends the heap and runs the loop of `kr_free` itself; the
search then goes on behind the new block, as the `for` statement does. `live` is what the clients hold.
They free what they hold, once, and do not write outside it; what they write inside is not modelled. Rounding and the increment of `my_sbrk` are
computed modulo `Word`; `RequestsAssumption` keeps requests away from the wrap itself, but not from the negative numbers of `my_sbrk`'s `long`.

**Runs.** `kr_malloc` (7 units of heap, requests of 2 and of 3 units, one of which fills its last unit only in part, and one that is negative as a `long`; 83797 states): the blocks and the free list tile the
heap at every step (`Tiled`), between calls the list is in order and fully merged (`Coalesced`), the
allocator asks for memory or fails only when no free block would do (`GivesUpRightly`), calls return (`CallsReturn`), and it keeps the promises of
`Allocator` down to the byte (`AllocatorSpec`). Three blocks fit beside each other, so a block is freed with free neighbours on neither side, one side
and both; the heap ends in the middle of a request; exact fits and splits occur. `kr_malloc_base` is an expected violation.

**Fairness.** Weak fairness of the steps inside a call; clients need not call.

## The Pi and its host

**Tracing.** `Memtrace` has the state of `memtrace.c` (the handler, the domain register as `trap`, breakpoint 0 as `brk`), the mode of the
program, and the access it is about to make (`pending`). `Issue` is the program reaching a load or store; then the processor carries it out
(`Execute`) or takes the data abort (`data_abort_memtrace`), which ends in `HandlerReturns`; the instruction is stepped in user mode and the
one after it takes the prefetch abort. `cpu` says where execution is and how it ended; `"broken"` stands for a failed assertion of the
handlers, a trap inside a handler or inside the checking allocator. The processor, the checking allocator and the Pi's bootloader are
external: modelled from how this code uses them. `Purify` switches trapping off around the allocator (`EnterAllocator`, `LeaveAllocator`), `Eraser`'s
test stubs around `kmalloc`; a program under Purify uses `purify.h` only, one of its own client calls everything in `memtrace.h`. An access is its fault address, which is all a
handler sees: of a word that straddles the end of a block only the first byte is checked, and `NoIllegalAccess` says no more. `Returns` is what the handler of a client of its own may return: 1 to resume the instruction, 0 to have it
skipped. `TracedMemory` says what `memtrace.h` and the comments of `checker-purify.c` promise for both; the code keeps it for clients that return 1 (run `system`) and not for the others (run `memtrace_skip`).
Programs pass `eraser_set_thread_id` no negative number, which its two assertions would let through. `candidates` and
`used` of `Eraser` are history: the locks held at every access, and at any.

**Booting.** The line to the host is a sequence of bytes, the one to the Pi a sequence of words (the host writes whole words). Each step of
`simple_boot` consumes what it reads: `get_op` shows strings and tries again, step 0 discards five bytes after a word that is not a request,
step 2 drains eight per repeated request. A read with too few bytes blocks while the Pi may still send, and fails (`ReadFails`) when it will
not. The Pi asks until it is answered, checks and refuses or starts the image; it discards words of an earlier host. `pi_echo` reads any number of the characters
there are and folds `pi_done` over them. `HostStarts` is the user running the host again, with up to three bytes lost from the front of the line.
Keyboard input, `find_ttyusb` and reading the image are left out.

**System.** A program is one of four: `"hello"` prints and returns, over a noisy line (stale bytes, repeated requests, strings, refusals,
power cuts, restarts of the host, both hosts, a checksum equal to an opcode); `"plain"`, `"purify"` and `"eraser"` are
traced and booted over a clean line by `simple_boot`. Crossing the two would multiply the states without a new interaction: tracing and the line
share nothing but the end of the program, and every way to end is in both halves or in the second. An end of any kind is followed by `clean_reboot`.

**Run.** `system` (106249 states, depth 42), with the bounds of `MCSystem.cfg`:

- tracing: three heap addresses, two of them blocks, loads and stores, any number of calls. `TracedSpec`: every access while tracing is on is reported once, before it is
  carried out, tracing is on when the program goes on, and each access is settled, for handlers that return 1; the restart of the machine and the end of the program are part of the
  promise. `NeverBroken`: no assertion of the tracing fails, and no handler or allocator traps on its own accesses.
- checkers: `NoIllegalAccess`: under Purify nothing outside the allocated blocks is read or written, after any sequence of calls. `MissesOnlyMixedLocks`: the trivial
  Eraser misses an unprotected word only if different locks are used for it; two threads (`MAXTHREADS` = 3, and 0 is none) and two locks are the least for that.
- booting: `OddExtrasFail`: on an undisturbed line the boot fails exactly when an odd number of requests follows the answered one. `SuccessMeansStarted`: a host reports success
  only if the Pi started its image in this very run. `ExitMeansEnded`: `pi_echo` does not take output for the exit string. `HostSettles`: `simple_boot` comes to a result from any byte on.
- together: `HostHearsOfEnd`: however the program ends, the host that booted it exits.

`memtrace_skip` is an expected violation, with a client whose handler may return 0 and one address.

`MAXLINE` = 16 bytes is four requests: three extra ones, so odd and even, drained and not. Two faults allow a refusal and a power cut, or two refusals, or two power cuts; three
hosts a failure, a recovery and one more; two prints a string and a word of output, or two words that together look like the exit string. No program prints the
whole exit string: then `pi_echo` does exit early, as its comment admits.

**Fairness.** Weak fairness of `Runtime` (the processor executes the program and the handlers, which do not loop), `Reboot`, `PiSerial` (the Pi
asks, and answers what it is sent) and `HostSerial` (the host process is scheduled; its reads time out). Nothing is assumed of the program, the user or the power.
`HostSettles` makes an exception for `ck_eq32`, which shows the output of the Pi until it falls silent: a Pi that asks again keeps it there for ever.
`HostHearsOfEnd` makes one for output that ends amid something like the exit string, which `pi_done` then misses.
The system may stop (the host has exited and is not run again), so deadlock is not checked.

## Proofs

The theorems hold for every value of the constants that satisfies the named assumptions of the modules, without the bounds of the runs.
Hypotheses beyond those are part of a theorem's statement (`ASSUME ... PROVE`), and a run shows what happens without each that excludes
something the program can meet. In each module the inductive invariant comes with one lemma per action, and the properties the runs check follow from it.

**`CircularQueue_proofs`.** Two hypotheses: `CQ_N` divides `Word` (`Divides`; without it: `queue_size`), and clients move `tail` back never (`Forward`) or only with interrupts
masked (`Masks`; without it: `queue_rewind`); `TypeCorrect` needs neither.

- `Invariance`, with `Divides` and `Forward`: `Spec => [](TypeOK /\ IInv)`. None of the properties is inductive: that a slot is still free when it
  is written depends on what the producer learned two steps earlier. `IInv` says that what a side has read of the other's
  index remains a safe bound: after its test the producer still sees a queue that is not full and a head that is its own
  (`PushInv`), the consumer one that is not empty, and in a batch at least the number of elements it has yet to pop (`PopInv`).
  The arithmetic is in lemmas about `Succ` and `Dist`.
- `PeekNSafe`, with `Masks` and any `CQ_N`: the assertion of `peek_n` holds. No step of the producer falls into a
  section with interrupts off (`MaskedInv`), so `head` is what `peek_n` saw and `tail` is back where it was.
- `RaceFree`, `PushSafe` and with `PeekNSafe` `MaskedRewindsSafe`, with `Divides` and `Masks`: `PushInv` survives rewinds too, because none happens while a push is under way.
- `NoblkSafe`, with `Divides` and `Forward`, from `Invariance`.
- `Refinement`, with the same hypotheses: `Spec => FifoSpec`. The contents are the slots from `tail` up to `head`; publishing `head` appends, advancing
  `tail` takes the first, and all other steps stutter.

**`Dpll_proofs`.** `Invariance`: no variable is assigned twice, and `Covered`: a model of the formula that is not yet excluded agrees with the
whole trail or leaves it at a decision that has not been flipped. A conflict therefore excludes exactly what the flip gives up. `SatIsRight` and
`UnsatIsRight` follow, for every number of variables and every formula.

**`Assignments_proofs`** has what the proofs about the solvers share: assigning and undoing a literal, the false literals of a clause and how their number
changes, a stack consistent with an assignment, the first unassigned literal of a clause.

**`BasicSat_proofs`**, for every input. `IInv` is `Kept` (the stack holds what is assigned, and no `n_zeros` is above the number of false literals), `Control` (what each `pc` implies) and
`Located` (a reported conflict comes with a falsified clause). `n_zeros` may be anything below: since it is never above, `bcp` takes no clause for
a unit or a conflict that is not one, and `checkAllClauses` looks at the literals themselves.

- `TypeCorrect`, `CountsLag` (`NeverOvercounts`), `Refinement` (`SearchSpec`), and from it and `Dpll_proofs`, `AnswersAreRight`.

**`FastSat_proofs`.** `TypeCorrect` and `WatchesStayListed` hold for every input, from the invariant `Wiring`, which says where the walk of a watch list is and that the clause it is moving is
in no list twice. The rest is for inputs without opposite unit clauses (`NoneOpposed`); `fast_sat_units` shows that the hypothesis is necessary.

- `Invariance`. `WatchInv` speaks of the moments when `bcp` has run dry. To be inductive it has to say what may go on in between, and why
  backtracking needs to touch no watch: a false watch is either `Guarded`, by a true literal of the clause that was assigned no later in the trail, so that no unwinding unsets it and leaves the
  watch false, or it is `Recent`, assigned by the propagation under way, and `Due`, ahead of the walk or of the queue. `UnitsHold` says that
  unit clauses of the input are true or queued, `QueueHolds` that what is queued is implied, and `TwiceHolds` that a variable assigned a second time is
  the one being walked, at the end of the stack, with a falsified clause ahead.
- `OnlyBcpConflicts`, `WatchesHold`, `StackNeverOverflows`: the properties of `fast_sat`.
- `Refinement`: the trail of `Dpll` is the stack without a second assignment; `AnswersAreRight` as for `basic.c`.

**`LoopSat_proofs`.** `IInv` has the same `Kept` and `Control`, and `Scanned`: what `bcp` has gone past leaves it nothing to imply.

- `DecisionsAreSafe`, for every input: a decision that completed a clause would find its count at one less than its length, and `bcp` would have taken that clause for a unit.
- `RunsAgree`, for every input and number of runs: apart from `answers`, the next step is a function of the state (`Moves`), each run starts from the same place,
  and a deterministic walk has one end (`OneEnd`). So the runs agree: what `main` resets between them (`loop.c:275-281`) is all that a run leaves behind.
- `SatIsRight`, for inputs without an empty clause (which `loop.c` ignores). After a conflict `loop.c` repeats the value it had and some counts are too low from then on, so SAT might be printed
  with a clause overlooked. It is not: until the first conflict the run follows a script of literals, after one it follows the same script again, and the last literal dooms it; a count
  that is off belongs to a clause behind the first falsified one, never to one that `bcp` would reach first.

**`KrMalloc_proofs`**, for every heap, header size and set of requests, under the assumptions of the module (`HeapAssumption`, `WordAssumption`, `RequestsAssumption`).
`IInv` is `TypeOK`, `ListInv` (the free list as a set of addresses, of which `ptr` is the successor in circular order; no two touch except the one the walk is about to merge),
`BlockInv` (free blocks, live ones and the one in hand tile the heap), `CallInv` (the locals of the call under way) and `SearchInv` (every block the search has gone past is too small).

- `TypeCorrect`, `NothingLost` (`Tiled`), `KeptMerged` (`Coalesced`), `RightToGiveUp` (`GivesUpRightly`), `Refinement` (`AllocatorSpec`, byte by byte).
- `Tiled` and `Coalesced` follow `ptr` from block to block; that this visits exactly the set of `ListInv` is shown by the induction over finite sets
  `SetInduction`, proved in the module from the well-foundedness of the naturals for sets of sets, since induction theorems with an operator as a parameter are out of reach.

**`System_proofs`**, for every heap, number of threads and locks, and every bound of `Boot`: any length of the line, any number of refusals, power cuts, printed strings and
runs of the host.

- `NeverBreaks`: `MachineInv` ties mode, domain register and breakpoint together: in user mode the breakpoint is set and the domain open; in a handler or the allocator the domain is open.
- `TracingIsSound` (`TracedSafety`, the safety part of `TracedSpec`), if no handler returns 0 (otherwise: `memtrace_skip`): the initial states and every step of `System` are those of `TracedMemory`.
- `PurifyIsSound` (`NoIllegalAccess`): under Purify a pending access is still to be judged, or was judged legal, and no call of the allocator comes between.
- `EraserMisses` (`MissesOnlyMixedLocks`), if there is a lock: `HistoryInv` relates the state of the word and the lock set of the checker to the history of the locks held.
- `SysTypes` (`SysTypeOK`): each run of the host leaves at most six words on its way to the Pi, however many of them the Pi has yet to discard (`FewWords`); `pi_done`'s `pos` stays within the exit string.
- `SuccessIsReal` (`SuccessMeansStarted`), if no checksum is the word `PUT_CODE`. The result the host reads need not be the answer to what it has just sent: words of earlier runs may still be on
  the line in both directions. `LineInv` says why it is: the Pi sends nothing after a `GET_CODE` and its checksum, so a host that has read both stands in front of an empty line, and it goes on only when a `PUT_CODE` reaches
  it, which is on its way only while the host waits there.
- `ExitIsReal` (`ExitMeansEnded`), under the same hypothesis, if the programs never print the exit string themselves, in whole or in pieces (`Outputs` is what they can have printed; with the
  strings of `MCPrints` there is such a set). `EchoInv` splits the output into what the host has shown and what is on the line, and what was shown last is the part of the exit string that `pos` says;
  `StartedInv` that a program runs only while the host waits or shows.
- `DrainTakesPairs` (`OddExtrasFail`), if no checksum is the word `GET_CODE` (otherwise TLC finds a boot that goes on although the drain has taken the request for the code). `BootInv` lists the stages of a boot on an undisturbed line, with the contents of the line at each. Requests are
  counted from its end (`Requests`), because a host may start to read amid one; `Parity` says that `odd` counts the words between the answered request and the `GET_CODE`.

The two hypotheses on checksums exclude one value each of 2^32: `get_op` and the Pi tell a checksum from an opcode only by its place. Without the one about `PUT_CODE` a Pi that waits for code may start what is behind the checksum of a later run,
and `started` would not mean that it started what the host sent.

**Only model-checked:** liveness (`CallsReturn`, `Answers`, `AllRunsAnswer`, `HostSettles`, `HostHearsOfEnd` and the fairness part of `TracedSpec`), which is beyond the prover.
All other properties of the passing runs are proved, under the hypotheses above.

## Findings

Each is a run that TLC ends with a counterexample (`expect: violation`), except for the last list.

- `circular.h:140` (`queue_rewind`): `cq_peek_n` asserts that the number of elements is what it was. A push by an interrupt handler
  in between makes it fail. It holds with interrupts masked.
- `circular.h:70` (`queue_size`): clients may choose `CQ_N`, but `cq_nelem` is right only if it divides 2^32; with another
  size `cq_push_n` reaches its "impossible" panic.
- `fast.c:222` (`fast_sat_units`): SAT for inputs with two opposite unit clauses.
- `kr-malloc.c:95` (`kr_malloc_base`): `2-test-malloc.c` asserts that an all-free heap gives the same block again. `my_morecore`
  asks for exactly what is needed, so the first block is the bottom of the heap and the second is the tail of the merged block.
- `memtrace.c:113` (`memtrace_skip`): a handler that returns 0 is said to have the instruction skipped (`checker-purify.c:124`; `memtrace.h:25`: not resumed). It is executed,
  untraced, and tracing stays off. A handler that emulates accesses, which `memtrace.h:26` mentions, would have them carried out a second time.

Seen while modelling, without a run:

- `overflow` (`circular.h:54`) is never incremented; `n_zeros` drifts in `basic.c`, without an effect on its answers; `loop.c` ignores empty clauses.
- `loop.c:199` reads the value to flip after it was reset: the "flipped" decision gets the value FALSE it had, not "if it was false -> true, etc.", and satisfiable formulas are
  reported UNSAT. `resolveConflict` of `LoopSat` models it, and `SatSound` and `SameAnswer` hold all the same.
- The loop of `simple-boot.c:57` that is to "drain any extra GET_PROG_INFOS" takes two words for each, so a boot fails when their number is odd: the second word of the last pair is the
  `GET_CODE`. `OddExtrasFail` states exactly when.
- `pi_done` does not try the character of a mismatch as a first one: `DDONE!!!` is missed. `ck_eq32` need not end.
- `piprog` takes every result but `BOOT_ERROR` for success; `SuccessMeansStarted` holds all the same.
- Several Eraser tests expect more than the lab's starting point in `checker-eraser.c` does.

## Not modelled

- `ckalloc.c`: as it stands `ckalloc` clears the header it has just filled in, and `ckfree` always panics. `ck-gc.c`: mark and sweep are
  `unimplemented()`.
- `rtlib.c`: a list searched from its head, without concurrency or failure; one known flaw (a block reused by malloc keeps its first size) is listed as a hazard.
- `cdcl.c`: an unfinished experiment (it does not propagate unit clauses of the input and enqueues the wrong literal of a learnt clause), so its answers have no promise to check.
- The SMT lab (`smt.c`), `rvsim.c`, `stepper-int.c`, `uart-int.c`, the relocating bootloaders and the Verilog UART: the parts with logic are `unimplemented()` or left open.
- `libpi/libc/Q.h`: a sequential list. `alloc.d`: one pointer that grows.
- The labs on devices (1-4, 7, 8, 10, 12-15, 17, 19, 25-27): register accesses, generated code or starter code; what can be wrong there is
  timing or a data sheet. `libpi/libm` is vendored; `libunix` is file and terminal I/O.

## Plan

The models cover the parts with logic of their own, and the proofs all safety properties of the runs. What is left, in order of importance:

1. Weaker hypotheses: `SuccessIsReal` and `ExitIsReal` for checksums equal to `PUT_CODE` (with `started` set only by the image of the run at hand).
2. `LoopSat`: which satisfiable formulas a run still finds SAT; nothing is stated about that so far.
3. Models of `ckalloc.c`, `ck-gc.c` and the other parts under [Not modelled](#not-modelled), should they get an implementation.
