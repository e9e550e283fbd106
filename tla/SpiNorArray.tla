---------------------------- MODULE SpiNorArray ----------------------------
(***************************************************************************)
(* Read, program and erase of a SPI NOR flash (mxmtd/spinor/spinor.c) on a *)
(* probed device.  A program is cut at the pages of the chip, an erase at  *)
(* the configured erase size, and in 8D-8D-8D, which moves bytes in pairs, *)
(* odd ends are padded.                                                    *)
(*                                                                         *)
(* The chip works on its own: it takes a program or erase when it is idle  *)
(* and write enabled, ignores every command while it is busy, and tells    *)
(* nobody.  The driver polls its status for a while.  Any transfer may     *)
(* fail, and a transfer that fails may or may not have reached the chip.   *)
(***************************************************************************)
EXTENDS Naturals

CONSTANTS Parts,    \* set of [size, page, ers, span, eight]: bytes, page size,
                    \*   configured erase size, the addresses its commands'
                    \*   address bytes can tell apart, 8D-8D-8D
          Bits,     \* the bits of a byte
          Calls,    \* what is asked of it: [op, addr, n, data], with the data of
                    \*   a program a function from offsets to bytes
          Noise     \* what a busy chip answers to a read

Byte   == SUBSET Bits
Erased == Bits

PartType == [size : Nat, page : Nat \ {0}, ers : Nat \ {0}, span : Nat \ {0},
             eight : BOOLEAN]

ASSUME PartAssumption ==
  \A p \in Parts : /\ p \in PartType
                   /\ p.page % 2 = 0
                   /\ p.ers % p.page = 0 /\ p.size % p.ers = 0
ASSUME CallAssumption ==
  \A c \in Calls : /\ c.op \in {"read", "program", "erase"}
                   /\ c.addr \in Nat /\ c.n \in Nat
                   /\ c.op = "program" => c.data \in [0 .. c.n - 1 -> Byte]
ASSUME NoiseAssumption == Noise \notin Byte

VARIABLES
  part,    \* the flash
  flash,   \* its bytes
  job,     \* what it is busy with: address -> the byte that will be there
  wel,     \* its write enable latch
  pc,      \* where the driver is
  call,    \* the call in progress, or the last one
  done,    \* the bytes it is through with
  buf,     \* the bytes it has read
  res,     \* what it returned
  before,  \* the bytes of the flash when it began
  late     \* the addresses the chip was still busy with then

vars == <<part, flash, job, wel, pc, call, done, buf, res, before, late>>

chipVars == <<flash, job, wel>>
callVars == <<call, before, late>>

-----------------------------------------------------------------------------
NoJob == [a \in {} |-> Erased]
Busy  == job # NoJob

Low(x, y) == IF x < y THEN x ELSE y

Addr == call.addr + done
Left == call.n - done

\* The address the chip receives: as many address bytes as the command has,
\* and in 8D-8D-8D the first of a pair.
OnBus(a) == LET w == a % part.span IN IF part.eight THEN w - (w % 2) ELSE w

PageBase(a) == a - (a % part.page)

\* The chip programs n bytes d from address a on; past the end of the page it
\* goes on at its start, and a bit that is 0 stays 0.
ProgramJob(a, n, d) ==
  LET w == OnBus(a)
      at(i) == PageBase(w) + ((w + i) % part.page)
  IN [x \in {at(i) : i \in 0 .. n - 1} |->
        flash[x] \cap d[CHOOSE i \in 0 .. n - 1 : at(i) = x]]

\* The chip erases the unit the address is in.
EraseJob(a) ==
  LET w == OnBus(a)
  IN [x \in {y \in 0 .. part.size - 1 : y \div part.ers = w \div part.ers} |-> Erased]

\* The chip answers a read of n bytes from address a on.
Answer(a, n) == [i \in 0 .. n - 1 |-> IF Busy THEN Noise ELSE flash[OnBus(a) + i]]

Return(r) == pc' = "idle" /\ res' = r

\* The call is through with k more bytes.
Advance(k, next) ==
  /\ done' = done + k
  /\ IF Left = k THEN Return("ok") ELSE pc' = next /\ UNCHANGED res

Fail == Return("failed") /\ UNCHANGED done

-----------------------------------------------------------------------------
Blank == [i \in 0 .. part.size - 1 |-> Noise]

Init ==
  /\ part \in Parts
  /\ flash = [a \in 0 .. part.size - 1 |-> Erased]
  /\ job = NoJob
  /\ wel = FALSE
  /\ pc = "idle"
  /\ call \in Calls
  /\ done = 0
  /\ buf = Blank
  /\ res = "none"
  /\ before = flash
  /\ late = {}

\* The checks at the head of spinor_read, spinor_program and spinor_erase.
Accepted(c) ==
  /\ c.addr < part.size /\ c.n <= part.size - c.addr
  /\ c.op = "erase" => c.addr % part.ers = 0 /\ c.n % part.ers = 0

Begin(c) ==
  /\ pc = "idle"
  /\ call' = c
  /\ before' = flash
  /\ late' = DOMAIN job
  /\ done' = 0
  /\ buf' = Blank
  /\ \/ c.n = 0 /\ Return("ok")
     \/ c.n # 0 /\ ~Accepted(c) /\ Return("refused")
     \/ /\ c.n # 0
        /\ Accepted(c)
        /\ pc' = IF c.op = "read" THEN "read" ELSE "wren"
        /\ res' = "none"
  /\ UNCHANGED <<part, chipVars>>

\* spinor_read_8d8d8d reads the byte at an odd address with the one before it,
\* then the pairs, then a last odd byte with the one after it; spinor_read in
\* any other protocol reads everything at once.
OddHead == part.eight /\ Addr % 2 = 1
OddTail == part.eight /\ Addr % 2 = 0 /\ Left = 1

ReadLen == IF OddHead \/ OddTail THEN 1
           ELSE IF part.eight THEN Left - (Left % 2) ELSE Left

ReadAnswer == IF OddHead THEN [i \in {0} |-> Answer(Addr - 1, 2)[1]]
              ELSE IF OddTail THEN [i \in {0} |-> Answer(Addr, 2)[0]]
              ELSE Answer(Addr, ReadLen)

Read ==
  /\ pc = "read"
  /\ \/ /\ buf' = [i \in DOMAIN buf |-> IF i \in done .. done + ReadLen - 1
                                        THEN ReadAnswer[i - done] ELSE buf[i]]
        /\ Advance(ReadLen, "read")
     \/ Fail /\ UNCHANGED buf
  /\ UNCHANGED <<part, chipVars, callVars>>

\* cmd_spinor_wren
Wren ==
  /\ pc = "wren"
  /\ \/ /\ wel' = (wel \/ ~Busy)
        /\ pc' = "send"
        /\ UNCHANGED <<done, res>>
     \/ /\ wel' \in {wel, wel \/ ~Busy}
        /\ Fail
  /\ UNCHANGED <<part, flash, job, callVars, buf>>

\* The bytes of the next page program, and what spinor_program_8d8d8d makes
\* of a part of a page.
ChunkOfAPage == Low(Left, part.page)

Chunk == Low(Left, part.page - (Addr % part.page))

Pad == IF part.eight /\ Chunk # part.page THEN Addr % 2 ELSE 0

PaddedLen == IF part.eight /\ Chunk # part.page
             THEN Chunk + Pad + ((Chunk + Pad) % 2) ELSE Chunk

PaddedWithZeros == [i \in 0 .. PaddedLen - 1 |->
             IF i \in Pad .. Pad + Chunk - 1 THEN call.data[done + i - Pad] ELSE {}]

Padded == [i \in 0 .. PaddedLen - 1 |->
             IF i \in Pad .. Pad + Chunk - 1 THEN call.data[done + i - Pad] ELSE Erased]

Command == IF call.op = "program" THEN ProgramJob(Addr - Pad, PaddedLen, Padded)
                                  ELSE EraseJob(Addr)

\* A transfer given up in its data deselects the chip, which programs what it has.
CutShort == IF call.op = "program"
            THEN {ProgramJob(Addr - Pad, k, Padded) : k \in 1 .. PaddedLen}
            ELSE {EraseJob(Addr)}

\* cmd_spinor_program, cmd_spinor_erase: heeded by an idle, enabled chip only.
Send ==
  LET heeded == ~Busy /\ wel
  IN /\ pc = "send"
     /\ \/ /\ job' = IF heeded THEN Command ELSE job
           /\ pc' = "poll"
           /\ UNCHANGED <<done, res>>
        \/ /\ job' \in {job} \cup IF heeded THEN CutShort ELSE {}
           /\ Fail
     /\ UNCHANGED <<part, flash, wel, callVars, buf>>

StepByPages == IF call.op = "program" THEN part.page ELSE part.ers

Step == IF call.op = "program" THEN Chunk ELSE part.ers

\* spinor_poll_sr_ready: busy and enabled both clear, or the polls run out.
PollReady ==
  /\ pc = "poll"
  /\ ~Busy /\ ~wel
  /\ Advance(Step, "wren")
  /\ UNCHANGED <<part, chipVars, callVars, buf>>

PollFail ==
  /\ pc = "poll"
  /\ Fail
  /\ UNCHANGED <<part, chipVars, callVars, buf>>

\* The flash with the bytes at S done.
Worked(S) == [a \in DOMAIN flash |-> IF a \in S THEN job[a] ELSE flash[a]]

\* The chip is through.
Complete ==
  /\ Busy
  /\ flash' = Worked(DOMAIN job)
  /\ job' = NoJob
  /\ wel' = FALSE
  /\ UNCHANGED <<part, pc, callVars, done, buf, res>>

\* Power fails; some of the bytes the chip was working on are done.
PowerCut ==
  /\ \E S \in SUBSET DOMAIN job : flash' = Worked(S)
  /\ job' = NoJob
  /\ wel' = FALSE
  /\ Return("cut")
  /\ UNCHANGED <<part, callVars, done, buf>>

Next ==
  \/ \E c \in Calls : Begin(c)
  \/ Read \/ Wren \/ Send \/ PollReady \/ PollFail
  \/ Complete \/ PowerCut

Spec == Init /\ [][Next]_vars

-----------------------------------------------------------------------------
\* Everything is of its type; the chip works on addresses it has.
TypeOK ==
  /\ part \in Parts
  /\ flash \in [0 .. part.size - 1 -> Byte]
  /\ DOMAIN job \subseteq 0 .. part.size - 1 /\ \A a \in DOMAIN job : job[a] \in Byte
  /\ wel \in BOOLEAN
  /\ pc \in {"idle", "read", "wren", "send", "poll"}
  /\ call \in Calls
  /\ done \in 0 .. call.n
  /\ buf \in [0 .. part.size - 1 -> Byte \cup {Noise}]
  /\ res \in {"none", "ok", "refused", "failed", "cut"}
  /\ before \in [0 .. part.size - 1 -> Byte]
  /\ late \subseteq 0 .. part.size - 1

InRange(a) == a \in call.addr .. call.addr + call.n - 1
Wanted(a)  == call.data[a - call.addr]

\* What a call may make of the byte at an address: a program takes only bits
\* away that its data lacks, an erase does as it likes with the bytes of its
\* range, and all else stays as it was.
Allowed(a, v) ==
  IF call.op = "program" /\ InRange(a)
  THEN before[a] \cap Wanted(a) \subseteq v /\ v \subseteq before[a]
  ELSE (call.op = "erase" /\ InRange(a)) \/ v = before[a]

\* Whatever fails and wherever power is cut, a call changes bytes of its range
\* only - the padding of 8D-8D-8D and the page wrap of the chip change nothing -
\* and a program takes only bits away that its data lacks.  Bytes the chip was
\* already busy with when the call began are another call's.
Harmless == \A a \in (0 .. part.size - 1) \ late : Allowed(a, flash[a])

\* A call that found the chip idle and returned MXST_SUCCESS has done all of
\* it, and the chip is idle again: each byte of the range programmed, erased
\* or read, whatever lies before, between and behind the page and pair borders.
SuccessMeansDone ==
  pc = "idle" /\ res = "ok" /\ call.n > 0 /\ late = {} =>
    /\ ~Busy
    /\ \A a \in 0 .. part.size - 1 : InRange(a) =>
         CASE call.op = "program" -> flash[a] = before[a] \cap Wanted(a)
           [] call.op = "erase"   -> flash[a] = Erased
           [] call.op = "read"    -> buf[a - call.addr] = before[a]
=============================================================================
