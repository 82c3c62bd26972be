-------------------------------- MODULE Boot --------------------------------
(* The host's side of the serial bootloader: my-install.c with simple_boot and
   pi_echo, and the Go host piprog.go.  The Pi's side is not in the repository;
   it is modelled from the protocol the hosts follow (simple-boot-defs.h): it asks
   again and again until it is answered, checks the image and starts it.

   A word on the line to the host is its four bytes <<w, 1>> .. <<w, 4>>, since
   the host resynchronises byte by byte; a character of the program's output is
   <<c, 0>>.  The host writes whole words only. *)
EXTENDS Naturals, Sequences, FiniteSets, SequencesExt

CONSTANTS
  Crcs,        \* checksums of images: "crc", or "PRINT_STRING" for one that
               \* happens to equal that opcode
  Prints,      \* what programs print
  MAXLINE,     \* the Pi asks only while at most so many bytes are on the line
  MAXFAULTS,   \* bound on corrupted or refused images and power cycles
  MAXHOSTS,    \* bound on runs of the host program
  MAXPRINTS    \* bound on unsolicited strings and prints of a program

ASSUME PrintsAssumption == \A s \in Prints : s \in Seq(ToSet(s))
ASSUME BoundsAssumption ==
  MAXLINE \in Nat /\ MAXFAULTS \in Nat /\ MAXHOSTS \in Nat \ {0} /\ MAXPRINTS \in Nat

VARIABLES
  tool,      \* "simple_boot" or "piprog"
  crc,       \* checksum of the image
  host,      \* where the host program is, see HostStates
  pos,       \* pos of pi_done: characters of exit_string seen
  toHost,    \* bytes on their way to the host, the tty's buffer included
  toPi,      \* words on their way to the Pi
  pi,        \* "off", "ask", "code" (GET_CODE sent) or "run"
  faults, hosts, prints,   \* counters for the bounds
  odd,       \* history: an odd number of extra GET_PROG_INFOs so far
  started,   \* history: the Pi started the image sent by this run of the host
  printed    \* history: what the program has printed

bootVars == <<tool, crc, host, pos, toHost, toPi, pi, faults, hosts, prints,
              odd, started, printed>>

HostStates == {"step0", "rest", "step2", "step3", "step5", "ck_eq32",
               "echo", "listen", "exit", "panic"}
HostEnded == {"exit", "panic"}

exit_string == <<"D", "O", "N", "E", "!", "!", "!", "nl">>

Bytes(w) == [i \in 1 .. 4 |-> <<w, i>>]
Chars(s) == [i \in 1 .. Len(s) |-> <<s[i], 0>>]

Drop(n) == SubSeq(toHost, n + 1, Len(toHost))
WordAt(n) ==    \* the word that starts after n bytes, or "junk"
  IF \E i \in 0 .. 3 : toHost[n + 1 + i] # <<toHost[n + 1][1], i + 1>>
  THEN "junk" ELSE toHost[n + 1][1]
Has(n) == Len(toHost) >= n

\* Whole GET_PROG_INFOs among the words after the first.
ExtraOnLine == Cardinality({k \in 5 .. Len(toHost) : toHost[k] = <<"GET_PROG_INFO", 4>>})
-----------------------------------------------------------------------------
(* The Pi. *)

Send(w) == toHost' = toHost \o w

PiFrame == UNCHANGED <<tool, crc, host, pos, hosts, started, printed>>

\* The Pi asks, every so often, until it is answered.
PiAsks ==
  /\ pi = "ask" /\ toPi = <<>> /\ Len(toHost) + 4 <= MAXLINE
  /\ Send(Bytes("GET_PROG_INFO"))
  /\ odd' = IF host \in {"rest", "step2"} THEN ~odd ELSE odd
  /\ UNCHANGED <<toPi, pi, faults, prints>>
  /\ PiFrame

\* An unsolicited string of one character.
PiPrints ==
  /\ pi = "ask" /\ toPi = <<>> /\ prints < MAXPRINTS
  /\ Len(toHost) + 9 <= MAXLINE
  /\ Send(Bytes("PRINT_STRING") \o Bytes("1") \o Chars(<<"x">>))
  /\ prints' = prints + 1
  /\ UNCHANGED <<toPi, pi, faults, odd>>
  /\ PiFrame

Refuse(code) ==
  /\ faults < MAXFAULTS
  /\ faults' = faults + 1
  /\ Send(Bytes("BOOT_ERROR") \o Bytes(code))
  /\ pi' = "ask"

PiGetsInfo ==
  /\ pi = "ask" /\ Len(toPi) >= 4 /\ toPi[1] = "PUT_PROG_INFO"
  /\ toPi' = SubSeq(toPi, 5, Len(toPi))
  /\ \/ /\ Send(Bytes("GET_CODE") \o Bytes(toPi[4]))
        /\ pi' = "code" /\ UNCHANGED faults
     \/ Refuse("BAD_CODE_ADDR")
  /\ UNCHANGED <<prints, odd>>
  /\ PiFrame

PiGetsCode ==
  /\ pi = "code" /\ Len(toPi) >= 2 /\ toPi[1] = "PUT_CODE"
  /\ toPi' = SubSeq(toPi, 3, Len(toPi))
  /\ \/ /\ Send(Bytes("BOOT_SUCCESS"))
        /\ pi' = "run" /\ started' = TRUE /\ UNCHANGED faults
     \/ Refuse("BAD_CODE_CKSUM") /\ UNCHANGED started
  /\ printed' = <<>>
  /\ UNCHANGED <<tool, crc, host, pos, hosts, prints, odd>>

\* What an earlier run of the host sent is discarded.
PiDiscards ==
  /\ toPi # <<>>
  /\ \/ pi = "ask" /\ Head(toPi) # "PUT_PROG_INFO"
     \/ pi = "code" /\ Head(toPi) # "PUT_CODE"
  /\ toPi' = Tail(toPi)
  /\ UNCHANGED <<toHost, pi, faults, prints, odd>>
  /\ PiFrame

\* A program prints.
RunPrints(s) ==
  /\ pi = "run" /\ prints < MAXPRINTS
  /\ Send(Chars(s))
  /\ printed' = printed \o s /\ prints' = prints + 1
  /\ UNCHANGED <<tool, crc, host, pos, toPi, pi, faults, hosts, odd, started>>

\* clean_reboot: the program ends, the Pi runs its bootloader again.
clean_reboot ==
  /\ pi = "run"
  /\ Send(Chars(exit_string))
  /\ pi' = "ask" /\ toPi' = <<>>
  /\ UNCHANGED <<faults, prints, odd>>
  /\ PiFrame

PowerOff ==
  /\ pi # "off" /\ faults < MAXFAULTS
  /\ pi' = "off" /\ faults' = faults + 1
  /\ toPi' = <<>>
  /\ UNCHANGED <<toHost, prints, odd>>
  /\ PiFrame

\* The tty of a host that had it open is gone for good.
PowerOn ==
  /\ pi = "off" /\ host \in HostEnded
  /\ pi' = "ask"
  /\ toHost' = <<>> /\ toPi' = <<>>
  /\ UNCHANGED <<faults, prints, odd>>
  /\ PiFrame
-----------------------------------------------------------------------------
(* The host: simple_boot. *)

HostFrame == UNCHANGED <<tool, crc, pi, faults, hosts, prints, started, printed>>

GetsOp == tool = "simple_boot" /\ host \in {"step0", "step2", "step3", "step5"}

\* The first word of a message, as get_op returns it.
Op == IF Has(4) THEN WordAt(0) ELSE "none"
OpIs(w) == GetsOp /\ Op = w
OpIsNot(w) == GetsOp /\ Op \notin {w, "none", "PRINT_STRING"}

Goto(h, read) == host' = h /\ toHost' = Drop(read)

\* Step 0 ends, and step 1: the answer.
Answers ==
  /\ host = "step0" /\ OpIs("GET_PROG_INFO")
  /\ toPi' = toPi \o <<"PUT_PROG_INFO", "ARMBASE", "n", crc>>
  /\ odd' = (ExtraOnLine % 2 = 1)
  /\ Goto("step2", 4)
  /\ UNCHANGED pos /\ HostFrame

\* mutant: a whole number of words is discarded.
Discards_words ==
  /\ host = "step0" /\ OpIsNot("GET_PROG_INFO")
  /\ Goto("step0", 4)
  /\ UNCHANGED <<toPi, pos, odd>> /\ HostFrame

\* Anything else is discarded with the byte after it.
Discards ==
  /\ host = "step0" /\ OpIsNot("GET_PROG_INFO") /\ Has(5)
  /\ Goto("step0", 5)
  /\ UNCHANGED <<toPi, pos, odd>> /\ HostFrame

\* mutant: only the repeated request is drained.
Drains_one_word ==
  /\ host = "step2" /\ OpIs("GET_PROG_INFO")
  /\ Goto("step2", 4)
  /\ UNCHANGED <<toPi, pos, odd>> /\ HostFrame

\* Step 2: a repeated request is drained, and the word after it.
Drains ==
  /\ host = "step2" /\ OpIs("GET_PROG_INFO") /\ Has(8)
  /\ Goto("step2", 8)
  /\ UNCHANGED <<toPi, pos, odd>> /\ HostFrame

\* Step 3.
GetsRequest ==
  /\ host = "step2" /\ OpIsNot("GET_PROG_INFO")
  /\ Goto(IF Op = "GET_CODE" THEN "step3" ELSE "panic", 4)
  /\ UNCHANGED <<toPi, pos, odd>> /\ HostFrame

\* The checksum is read with get_op as well; then step 4, the code.
GetsCksum ==
  /\ host = "step3" /\ OpIsNot("PRINT_STRING")
  /\ Goto(IF Op = crc THEN "step5" ELSE "panic", 4)
  /\ toPi' = IF Op = crc THEN toPi \o <<"PUT_CODE", "bytes">> ELSE toPi
  /\ UNCHANGED <<pos, odd>> /\ HostFrame

\* mutant: the result is not looked at.
GetsResult_any ==
  /\ host = "step5" /\ OpIsNot("PRINT_STRING")
  /\ Goto("echo", 4)
  /\ UNCHANGED <<toPi, pos, odd>> /\ HostFrame

\* Step 5.
GetsResult ==
  /\ host = "step5" /\ OpIsNot("PRINT_STRING")
  /\ Goto(IF Op = "BOOT_SUCCESS" THEN "echo" ELSE "ck_eq32", 4)
  /\ UNCHANGED <<toPi, pos, odd>> /\ HostFrame

\* get_op prints a string and tries again; it refuses an overlong one.
StringLength == IF Has(8) THEN WordAt(4) ELSE "none"
ShowsString ==
  /\ OpIs("PRINT_STRING") /\ StringLength # "none"
  /\ IF StringLength = "1" THEN Has(9) /\ Goto(host, 9) ELSE Goto("panic", 8)
  /\ UNCHANGED <<toPi, pos, odd>> /\ HostFrame

\* ck_eq32 found a mismatch: it shows what comes until a read times out.
ShowsRest ==
  /\ host = "ck_eq32" /\ toHost # <<>>
  /\ toHost' = <<>>
  /\ UNCHANGED <<host, toPi, pos, odd>> /\ HostFrame

simple_boot ==
  \/ Answers \/ Discards \/ Drains \/ GetsRequest \/ GetsCksum \/ GetsResult
  \/ ShowsString \/ ShowsRest

\* There are fewer bytes than the host reads next.
Blocked ==
  \/ host = "ck_eq32" /\ toHost = <<>>
  \/ GetsOp /\ ~Has(4)
  \/ host = "step0" /\ OpIsNot("GET_PROG_INFO") /\ ~Has(5)
  \/ host = "step2" /\ OpIs("GET_PROG_INFO") /\ ~Has(8)
  \/ OpIs("PRINT_STRING") /\ (StringLength = "none" \/ (StringLength = "1" /\ ~Has(9)))

\* The Pi sends nothing by itself.
Quiet == pi \in {"off", "run"} \/ (pi = "code" /\ toPi = <<>>)

\* A read that gets nothing for eight seconds fails; those before it took the rest.
ReadFails ==
  /\ Blocked /\ Quiet
  /\ host' = "panic" /\ toHost' = <<>>
  /\ UNCHANGED <<toPi, pos, odd>> /\ HostFrame
-----------------------------------------------------------------------------
(* The host: pi_echo. *)

\* mutant: pos is not reset by a mismatch.
pi_done_no_reset(c) == [p \in 0 .. Len(exit_string) |->
  IF p < Len(exit_string) /\ c = <<exit_string[p + 1], 0>> THEN p + 1 ELSE p]

\* What character c does to pos.  After a mismatch it starts over with the next.
pi_done(c) == [p \in 0 .. Len(exit_string) |->
  IF p = Len(exit_string) THEN p
  ELSE IF c = <<exit_string[p + 1], 0>> THEN p + 1 ELSE 0]

\* pos after each of the first n characters on the line.
Seen(n, from) ==
  LET seen[i \in 0 .. n] == IF i = 0 THEN from ELSE pi_done(toHost[i])[seen[i - 1]]
  IN  seen

\* pi_echo reads what has arrived: the output may be cut anywhere.
ReadsUpTo(n, from) == toHost' = Drop(n) /\ pos' = Seen(n, from)[n]

\* mutant: pos is local, not static.
pi_echo_forgets ==
  /\ host = "echo"
  /\ \E n \in 1 .. Len(toHost) : ReadsUpTo(n, 0)
  /\ host' = IF pos' = Len(exit_string) THEN "exit" ELSE "echo"
  /\ UNCHANGED <<toPi, odd>> /\ HostFrame

pi_echo ==
  /\ host = "echo"
  /\ \E n \in 1 .. Len(toHost) : ReadsUpTo(n, pos)
  /\ host' = IF pos' = Len(exit_string) THEN "exit" ELSE "echo"
  /\ UNCHANGED <<toPi, odd>> /\ HostFrame

\* The tty is gone: a read gets nothing, or fails; either ends the host.
tty_gone ==
  /\ host \in {"echo", "listen"} /\ pi = "off" /\ toHost = <<>>
  /\ host' = IF host = "echo" THEN "exit" ELSE "panic"
  /\ UNCHANGED <<toHost, toPi, pos, odd>> /\ HostFrame
-----------------------------------------------------------------------------
(* The host: piprog.  It never drains nor resynchronises, and waits for ever. *)

CheckUint(at, w, next) ==
  /\ tool = "piprog" /\ host = at /\ Has(4)
  /\ Goto(IF WordAt(0) = w THEN next ELSE "panic", 4)

PutUint(ws) == toPi' = IF host' = "panic" THEN toPi ELSE toPi \o ws

PiprogSends ==
  /\ \/ /\ CheckUint("step0", "GET_PROG_INFO", "rest")
        /\ PutUint(<<"PUT_PROG_INFO">>)
        /\ odd' = (ExtraOnLine % 2 = 1)
     \/ /\ host = "rest" /\ Goto("step2", 0)     \* 200 ms later
        /\ PutUint(<<"ARMBASE", "n", crc>>) /\ UNCHANGED odd
     \/ CheckUint("step2", "GET_CODE", "step3") /\ UNCHANGED <<toPi, odd>>
     \/ /\ CheckUint("step3", crc, "step5")
        /\ PutUint(<<"PUT_CODE", "bytes">>) /\ UNCHANGED odd
  /\ UNCHANGED pos /\ HostFrame

\* Any result but BOOT_ERROR is taken for success; then it shows the output.
PiprogResult ==
  /\ tool = "piprog"
  /\ \/ /\ host = "step5" /\ Has(4)
        /\ Goto(IF WordAt(0) = "BOOT_ERROR" THEN "panic" ELSE "listen", 4)
     \/ host = "listen" /\ toHost # <<>> /\ Goto("listen", Len(toHost))
  /\ UNCHANGED <<toPi, pos, odd>> /\ HostFrame

\* The tty is gone: the Go host's read fails too.
PiprogGone ==
  /\ tool = "piprog" /\ pi = "off" /\ ~Has(4)
  /\ host \in {"step0", "step2", "step3", "step5"}
  /\ host' = "panic"
  /\ UNCHANGED <<toHost, toPi, pos, odd>> /\ HostFrame
-----------------------------------------------------------------------------
\* The user runs the host program again.  It may open the tty amid a word.
HostStarts ==
  /\ host \in HostEnded /\ pi # "off" /\ hosts < MAXHOSTS
  /\ hosts' = hosts + 1
  /\ host' = "step0" /\ pos' = 0 /\ started' = FALSE
  /\ \E k \in 0 .. 3 : Has(k) /\ toHost' = Drop(k)
  /\ UNCHANGED <<tool, crc, toPi, pi, faults, prints, odd, printed>>

BootInit ==
  /\ tool \in {"simple_boot", "piprog"} /\ crc \in Crcs
  /\ host = "step0" /\ pos = 0
  /\ \E k \in 1 .. 5 : toHost = SubSeq(Bytes("GET_PROG_INFO"), k, 4)
  /\ toPi = <<>> /\ pi = "ask"
  /\ faults = 0 /\ hosts = 1 /\ prints = 0
  /\ odd = FALSE /\ started = FALSE /\ printed = <<>>

PiAnswers == PiGetsInfo \/ PiGetsCode \/ PiDiscards

HostStep ==
  \/ simple_boot \/ ReadFails \/ pi_echo \/ tty_gone
  \/ PiprogSends \/ PiprogResult \/ PiprogGone
-----------------------------------------------------------------------------
BootTypeOK ==
  /\ tool \in {"simple_boot", "piprog"} /\ crc \in Crcs
  /\ host \in HostStates /\ pos \in 0 .. Len(exit_string)
  /\ pi \in {"off", "ask", "code", "run"}
  /\ \A b \in ToSet(toHost) : b[2] \in 0 .. 4
  /\ Len(toPi) <= 6 * MAXHOSTS
  /\ faults \in 0 .. MAXFAULTS /\ hosts \in 1 .. MAXHOSTS /\ prints \in 0 .. MAXPRINTS
  /\ odd \in BOOLEAN /\ started \in BOOLEAN

(* Over an undisturbed line simple_boot gives up on the answer exactly when an odd
   number of requests followed the one it answered: the drain of simple-boot.c:57
   takes the word after each repeated request with it, be it the GET_CODE, which
   "drain any extra GET_PROG_INFOS" (simple-boot.c:56) does not mean. *)
OddExtrasFail ==
  [][host = "step2" /\ tool = "simple_boot" /\ faults = 0 /\ prints = 0
       /\ host' \in {"step3", "panic"}
     => (host' = "panic" <=> odd)]_bootVars

(* A host program reports success only if the Pi started the image it sent, in
   this very run, whatever was left on the line by earlier runs, strings, refused
   images or power cuts (simple-boot.c:76, piprog.go:161-166). *)
SuccessMeansStarted ==
  [][host \notin {"echo", "listen"} /\ host' \in {"echo", "listen"} => started]_bootVars

(* pi_echo leaves only when the program has ended or the tty is gone, however the
   output is cut into reads and however close to the exit string it comes
   (pi-echo.c:8-24, 64, 76-79). *)
ExitMeansEnded == [][host = "echo" /\ host' = "exit" => pi # "run"]_bootVars

\* What was printed last could be the start of the exit string.
Ambiguous == \E k \in 1 .. Len(exit_string) - 1 :
  k <= Len(printed) /\ IsSuffix(SubSeq(exit_string, 1, k), printed)

(* simple_boot comes to a result: it finds its way into the stream of requests
   from any byte on, and no loop of get_op and drain goes on for ever, save the
   one that shows the Pi's output after a failed boot (simple-boot.c:33-47,
   57-59). *)
HostSettles ==
  (tool = "simple_boot") ~> (host \in {"echo", "ck_eq32"} \cup HostEnded)
=============================================================================
