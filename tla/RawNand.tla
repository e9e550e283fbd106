------------------------------ MODULE RawNand ------------------------------
(***************************************************************************)
(* The raw NAND driver, mxmtd/rawnand/rawnand.c, on the command sequences  *)
(* of mxmtd/rawnand/rawnand_cmd.c: page reads and sequential cache reads,  *)
(* page programs and cache programs, erase, bad-block marking and scan,    *)
(* with transfers that fail, status bits the chip raises, and power cuts.  *)
(*                                                                         *)
(* One step is one command sequence (one platform_xfer) together with the  *)
(* driver code up to the next.  Addresses and lengths are counted in pages *)
(* ("rows").  The questions are what a call that returns MXST_SUCCESS has  *)
(* done, in what state it leaves chip, buffers and ECC window, and whether *)
(* bad blocks stay known.  Definitions marked "Slip" are plausible errors  *)
(* in the definition that follows them; nothing else uses them.            *)
(***************************************************************************)
EXTENDS NandGeometry

CONSTANTS
    NSteps,   \* ecc.nsteps, the ECC steps of a page
    EccType,  \* CONF_RAWNAND_ECC_TYPE
    ChipEcc,  \* the ID of the chip announces an ECC of its own (ID4_INTERNAL_ECC)
    Faults,   \* whether transfers may fail and the chip may raise fail bits
    Spans     \* <<row, length>> of the reads, programs and erases asked for

EccTypes == {"ECC_NONE", "ECC_INTERNAL_RAW", "ECC_SW_BCH"}

ASSUME ConfigAssumption ==
    /\ NSteps \in Nat \ {0}
    /\ EccType \in EccTypes /\ ChipEcc \in BOOLEAN /\ Faults \in BOOLEAN
    /\ Spans \subseteq Nat \X Nat

\* The pages rawnand_scan_bb looks at.  Nothing reads the markers of the others.
MarkerRows == {r \in Rows : r % NPages < 2}

VARIABLES
    \* the chip
    mark,     \* pages looked at for markers whose marker bytes are not 0xFF
    mode,     \* the command sequence it is in
    reg,      \* the row in its page register, of a read
    pend,     \* the pages a cache program is writing to the array: [row, bad]
    \* the driver
    bbt,      \* blocks whose bit is set in the bad-block table
    bufOob,   \* the marker bytes in buf_oob: "ff" or "bad" (anything else)
    type,     \* ecc.type
    typeOld,  \* ecc.type_old
    win,      \* <<ecc.step_s, ecc.step_e>>, the steps encoded or corrected next
    op,       \* "off", "idle" or the operation in progress
    pc,       \* which of its command sequences is next
    row,      \* the row of that sequence
    left,     \* the pages the call has still to reach
    part,     \* which ends of a read or program cover only part of a page
    \* observers: no guard and no other variable depends on them
    range,    \* blocks the call in progress is about
    todo,     \* rows of the call not read in place, programmed or erased yet
    faulty,   \* something failed during the call
    result,   \* what the last call returned, "undone": success with work left
    retired,  \* blocks marked by a successful set_bb and not erased since
    suspect   \* blocks whose markers a failure may have left unknown

chip   == <<mode, reg, pend>>
ecc    == <<type, typeOld>>
call   == <<op, pc, row, left, part, range, result>>
ghosts == <<retired, suspect>>
vars   == <<mark, mode, reg, pend, bbt, bufOob, type, typeOld, win, op, pc, row,
            left, part, range, todo, faulty, result, retired, suspect>>

Ops   == {"off", "idle", "probe", "read", "program", "erase", "pre_erase", "mark"}
Pcs   == {"first", "data", "oob", "seq"}
Modes == {"ready", "read", "seq", "load", "cache"}
Ends  == {"head", "tail"}

SW == type = "ECC_SW_BCH"
WholePage == <<0, NSteps - 1>>

\* rawnand_oob_layout_init: without ECC the layout stays zero and the marker has
\* no bytes.  The type it looks at is the one the probe settled on.
ProbedType == IF ChipEcc THEN "ECC_INTERNAL_RAW" ELSE EccType
HasMarker  == ProbedType # "ECC_NONE"

Oob(r)    == IF r \in mark THEN "bad" ELSE "ff"
Marked(b) == FirstRow(b) \in mark \/ FirstRow(b) + 1 \in mark

(* The end of a call. *)
Finish(o, res, rows, fault) ==
    /\ op' = o /\ result' = IF res = "ok" /\ rows # {} THEN "undone" ELSE res
    /\ pc' = "first" /\ row' = 0 /\ left' = 0 /\ part' = {} /\ range' = {}
    /\ todo' = {} /\ faulty' = fault

Error == Finish("idle", "err", {}, TRUE)

(* The pages up to n rows on are dealt with, rows of the call remain undone. *)
Advance(p, n, rows, fault) ==
    IF left = n
    THEN Finish("idle", "ok", rows, fault)
    ELSE /\ pc' = p /\ row' = row + n /\ left' = left - n /\ part' = part \ {"head"}
         /\ todo' = rows /\ faulty' = fault
         /\ UNCHANGED <<op, range, result>>

PartOfPage == "head" \in part \/ (left = 1 /\ "tail" \in part)

\* The whole pages ahead, where a read or program has no partial page next.
Whole == IF "tail" \in part THEN left - 1 ELSE left
-----------------------------------------------------------------------------
(* The chip, as rawnand_cmd.c drives it. *)

\* 00h-30h: the page goes to the register.  A chip still writing a page of an
\* abandoned cache program ignores it.
ReadArray(r) ==
    IF mode = "cache"
    THEN UNCHANGED <<mode, reg>>
    ELSE mode' = "read" /\ reg' = r

Delivers(r) == mode \in {"read", "seq"} /\ reg = r

Free == mode' = "ready" /\ reg' = 0

\* The marker bytes that come with programmed pages.
Stains(ps) == {p.row : p \in {q \in ps : q.bad}}
BlksOf(ps) == {BlkOf(r) : r \in Stains(ps)}

(* The array takes pages ps and is done with those of an earlier cache program,
   whose outcome nobody looks at.  Both sorts of page carry data; what matters
   here is the markers. *)
Abandoned == IF op = "program" /\ pc = "seq" THEN {} ELSE pend
TakeOver(ps, blks) ==
    /\ \E m \in {{}, Stains(Abandoned)} :
          mark' = mark \union m \union Stains(ps \union (pend \ Abandoned))
    /\ suspect' = (suspect \union BlksOf(Abandoned)) \ blks

(* The array finishes a page that no driver waits for. *)
Settle ==
    /\ mode = "cache" /\ Abandoned = pend
    /\ TakeOver({}, {})
    /\ pend' = {} /\ mode' = "ready"
    /\ UNCHANGED <<reg, bbt, bufOob, ecc, win, call, todo, faulty, retired>>
-----------------------------------------------------------------------------
(* Setup, probe, release *)

NoRam ==
    /\ bbt' = {} /\ bufOob' = "ff" /\ win' = WholePage
    /\ type' = EccType /\ typeOld' = "ECC_NONE"

(* A chip with factory-marked blocks, the driver not yet set up. *)
Init ==
    /\ mark \in SUBSET MarkerRows
    /\ mode = "ready" /\ reg = 0 /\ pend = {}
    /\ bbt = {} /\ bufOob = "ff" /\ win = WholePage
    /\ type = EccType /\ typeOld = "ECC_NONE"
    /\ op = "off" /\ pc = "first" /\ row = 0 /\ left = 0 /\ part = {} /\ range = {}
    /\ todo = {} /\ faulty = FALSE /\ result = "ok" /\ retired = {} /\ suspect = {}

(* mxmtd_setup_dev and rawnand_probe up to the scan: the chip is reset, buf_oob
   is malloc'ed and holds anything. *)
Setup ==
    /\ op = "off"
    /\ bbt' = {} /\ bufOob' \in {"ff", "bad"} /\ win' = WholePage
    /\ type' = ProbedType /\ typeOld' = "ECC_NONE"
    /\ op' = "probe" /\ suspect' = {}
    /\ UNCHANGED <<mark, chip, pc, row, left, part, range, todo, faulty, result, retired>>

(* The page rawnand_scan_bb reads after r: the second page of a block when the
   first carries no marker, else the first page of the next block.
   Slip: the page counter restarts within a block. *)
PageRestarts(r) == IF r = FirstRow(BlkOf(r)) THEN r + 1 ELSE FirstRow(BlkOf(r))
ScanNext(r) ==
    IF r = FirstRow(BlkOf(r)) /\ ~(HasMarker /\ r \in mark)
    THEN r + 1 ELSE FirstRow(BlkOf(r) + 1)

\* Slip: blk < nblks - 1.
LastBlkSkipped == NRows - NPages
ScanEnd == NRows

ScanPage ==
    /\ op = "probe"
    /\ bufOob' = IF HasMarker THEN Oob(row) ELSE bufOob
    /\ bbt' = IF HasMarker /\ row \in mark THEN bbt \union {BlkOf(row)} ELSE bbt
    /\ IF ScanNext(row) >= ScanEnd
       THEN Finish("idle", "ok", {}, FALSE)
       ELSE /\ row' = ScanNext(row)
            /\ UNCHANGED <<op, pc, left, part, range, todo, faulty, result>>
    /\ UNCHANGED <<mark, chip, ecc, win, ghosts>>

(* A failing command makes the probe fail: mxmtd_setup_dev releases all. *)
ScanFail ==
    /\ op = "probe" /\ Faults
    /\ Finish("off", "ok", {}, FALSE) /\ NoRam
    /\ UNCHANGED <<mark, chip, ghosts>>

(* mxmtd_release between calls, or a power cut anywhere.  A page being written
   is written or not. *)
PowerCut ==
    /\ op # "off"
    /\ Finish("off", "ok", {}, FALSE) /\ NoRam
    /\ mark' \in {mark, mark \union Stains(pend)}
    /\ mode' = "ready" /\ reg' = 0 /\ pend' = {}
    /\ UNCHANGED ghosts
-----------------------------------------------------------------------------
(* Calls: the checks before the first command.  A call that fails them returns
   with the state as it was. *)

Start(name, r, n, ends, rows) ==
    /\ op = "idle" /\ op' = name
    /\ pc' = "first" /\ row' = r /\ left' = n /\ part' = ends
    /\ range' = {BlkOf(x) : x \in rows} /\ todo' = rows /\ faulty' = FALSE /\ result' = "ok"
    /\ UNCHANGED <<mark, chip, bbt, ecc, win, ghosts>>

(* rawnand_erase(addr, nbytes) *)
EraseCall(r, n) ==
    /\ n > 0 /\ ~OutOfChip(r, n) /\ r % NPages = 0 /\ n % NPages = 0
    /\ Start("erase", r, n, {}, r .. r + n - 1)
    /\ UNCHANGED bufOob

(* rawnand_read and rawnand_program of n pages, the first and the last of which
   may be covered in part only.  The ECC of the chip is not supported. *)
TransferCall(name, r, n, ends) ==
    /\ n > 0 /\ ~OutOfChip(r, n)
    /\ type \in {"ECC_SW_BCH", "ECC_NONE"}
    /\ Start(name, r, n, ends, r .. r + n - 1)
    /\ UNCHANGED bufOob

(* rawnand_set_bb(addr, pre_erase): the marker is put into buf_oob first.  The
   address is not checked; callers pass one inside the chip. *)
SetBBCall(b, preErase) ==
    /\ Start(IF preErase THEN "pre_erase" ELSE "mark", FirstRow(b), 2, {},
             {FirstRow(b), FirstRow(b) + 1})
    /\ bufOob' = IF HasMarker THEN "bad" ELSE bufOob

(* rawnand_set_ecc_en *)
SetEccEn(en) ==
    /\ op = "idle"
    /\ IF en
       THEN /\ type' = IF type = "ECC_NONE" THEN typeOld ELSE type
            /\ UNCHANGED typeOld
       ELSE typeOld' = type /\ type' = "ECC_NONE"
    /\ UNCHANGED <<mark, chip, bbt, bufOob, win, call, todo, faulty, ghosts>>
-----------------------------------------------------------------------------
(* Erase and marking *)

(* After a block: the next block of rawnand_erase, or the marking. *)
Erased(rows, fault) ==
    IF op = "erase"
    THEN Advance("first", NPages, rows, fault)
    ELSE /\ op' = "mark" /\ faulty' = fault
         /\ UNCHANGED <<pc, row, left, part, range, todo, result>>

\* CLR_BB after an erase.  Slip: the address has moved on to the next block.
ClearNext(b) == bbt \ {b + 1}
ClearBB(b) == bbt \ {b}

(* cmd_rawnand_block_erase without a fail bit, then CLR_BB. *)
EraseBlock ==
    /\ op \in {"erase", "pre_erase"} /\ mode # "cache"
    /\ LET b == BlkOf(row) IN
       /\ mark' = mark \ RowsOf(b) /\ bbt' = ClearBB(b)
       /\ retired' = retired \ {b} /\ suspect' = suspect \ {b}
       /\ Erased(todo \ RowsOf(b), faulty)
    /\ Free
    /\ UNCHANGED <<pend, bufOob, ecc, win>>

(* The same on a chip that ignores it and reports that it is ready. *)
EraseIgnored ==
    /\ op \in {"erase", "pre_erase"} /\ mode = "cache"
    /\ LET b == BlkOf(row) IN
       /\ bbt' = ClearBB(b)
       /\ retired' = retired \ {b} /\ suspect' = suspect \union {b}
    /\ Erased(todo, TRUE)
    /\ UNCHANGED <<mark, chip, bufOob, ecc, win>>

(* The chip raises SR_CHIP_STATUS: the driver reads the protection status of the
   block and returns what that command returned, MXST_SUCCESS; set_bb goes on. *)
EraseStatus ==
    /\ op \in {"erase", "pre_erase"} /\ Faults /\ mode # "cache"
    /\ LET b == BlkOf(row) IN
       /\ \E lost \in SUBSET RowsOf(b) : mark' = mark \ lost
       /\ retired' = retired \ {b} /\ suspect' = suspect \union {b}
    /\ IF op = "erase"
       THEN Finish("idle", "ok", todo, TRUE)
       ELSE Erased(todo, TRUE)
    /\ Free
    /\ UNCHANGED <<pend, bbt, bufOob, ecc, win>>

EraseFail ==
    /\ op \in {"erase", "pre_erase"} /\ Faults
    /\ LET b == BlkOf(row) IN
       /\ \E lost \in SUBSET RowsOf(b) : mark' = mark \ lost
       /\ retired' = retired \ {b} /\ suspect' = suspect \union {b}
    /\ Error
    /\ UNCHANGED <<chip, bbt, bufOob, ecc, win>>

\* The page rawnand_pgm_oob programs, with no bytes where the layout is zero.
MarkOf(r) == {[row |-> r, bad |-> HasMarker /\ bufOob = "bad"]}

\* The block whose table bit rawnand_set_bb sets, computed from the address two
\* pages on; r is the second page.  Slip: the address moved by a block.
BlkAfter(r) == BlkOf(r + NPages)
TableBlk(r) == BlkOf(r + 1)

(* rawnand_pgm_oob on the first two pages, then SET_BB. *)
MarkPage ==
    /\ op = "mark"
    /\ TakeOver(MarkOf(row), IF left = 1 THEN range ELSE {})
    /\ bbt' = IF left = 1 THEN bbt \union {TableBlk(row)} ELSE bbt
    /\ retired' = IF left = 1 THEN retired \union range ELSE retired
    /\ Advance("first", 1, todo \ Stains(MarkOf(row)), faulty)
    /\ Free /\ pend' = {}
    /\ UNCHANGED <<bufOob, ecc, win>>

MarkFail ==
    /\ op = "mark" /\ Faults
    /\ \/ UNCHANGED <<mark, mode, pend>> /\ suspect' = suspect \union range
       \/ /\ \E ps \in {{}, MarkOf(row)}, m \in {{}, Stains(pend)} :
                mark' = mark \union Stains(ps) \union m
          /\ suspect' = suspect \union range \union BlksOf(pend)
          /\ mode' = "ready" /\ pend' = {}
    /\ Error
    /\ UNCHANGED <<reg, bbt, bufOob, ecc, win, retired>>
-----------------------------------------------------------------------------
(* Reads *)

\* The steps a partial page covers; only software ECC sets them.
Windows ==
    IF SW /\ PartOfPage
    THEN {<<s, e>> : s, e \in 0 .. NSteps - 1} \cap {w \in Nat \X Nat : w[1] <= w[2]}
    ELSE {win}

\* release_rawnand_unalign_read and _pgm, on every way out.  Slip: the window is
\* left as it is.
KeptWindow == win
Released == IF SW /\ PartOfPage THEN WholePage ELSE win

ReadStart ==
    /\ op = "read" /\ pc = "first"
    /\ ReadArray(row)
    /\ pc' = IF PartOfPage \/ Whole = 1 THEN "data" ELSE "seq"
    /\ win' \in Windows
    /\ faulty' = (faulty \/ mode = "cache")
    /\ UNCHANGED <<mark, pend, bbt, bufOob, ecc, op, row, left, part, range, todo,
                   result, ghosts>>

\* What a whole page brings into buf_oob, which follows buf_data in memory.
OobRead ==
    IF ~SW \/ PartOfPage THEN {bufOob}
    ELSE IF Delivers(row) THEN {Oob(row)} ELSE {"ff", "bad"}

Unread == IF Delivers(row) THEN todo \ {row} ELSE todo

(* The data of a page, which ends the sequence unless the ECC bytes of a part
   of the page follow. *)
ReadData ==
    /\ op = "read" /\ pc = "data"
    /\ bufOob' \in OobRead
    /\ IF SW /\ PartOfPage
       THEN /\ pc' = "oob"
            /\ UNCHANGED <<mode, reg, op, row, left, part, range, todo, faulty, result>>
       ELSE /\ Advance("first", 1, Unread, faulty)
            /\ IF mode = "cache" THEN UNCHANGED <<mode, reg>> ELSE Free
    /\ UNCHANGED <<mark, pend, bbt, ecc, win, ghosts>>

ReadOob ==
    /\ op = "read" /\ pc = "oob"
    /\ Advance("first", 1, Unread, faulty)
    /\ win' = Released
    /\ IF mode = "cache" THEN UNCHANGED <<mode, reg>> ELSE Free
    /\ UNCHANGED <<mark, pend, bbt, bufOob, ecc, ghosts>>

\* nbytes_rd == nbytes: 3Fh for 31h.  Slip: it is found one page early.
LastTooEarly == Whole <= 2
LastPage == Whole = 1

(* cmd_rawnand_cache_read_seq: the page in the register is sent while the array
   reads the next one, unless this is the last. *)
ReadSeq ==
    /\ op = "read" /\ pc = "seq"
    /\ bufOob' \in OobRead
    /\ Advance(IF Whole = 1 THEN "first" ELSE "seq", 1, Unread, faulty)
    /\ \/ mode \notin {"read", "seq"} /\ UNCHANGED <<mode, reg>>
       \/ mode \in {"read", "seq"} /\ LastPage /\ Free
       \/ mode \in {"read", "seq"} /\ ~LastPage /\ mode' = "seq" /\ reg' = reg + 1
    /\ UNCHANGED <<mark, pend, bbt, ecc, win, ghosts>>

(* A transfer fails; the chip has got the command or not. *)
ReadFail ==
    /\ op = "read" /\ Faults
    /\ bufOob' \in IF SW /\ ~PartOfPage THEN {"ff", "bad"} ELSE {bufOob}
    /\ win' = Released
    /\ mode' \in IF mode = "cache" THEN {mode}
                 ELSE {mode, IF pc \in {"first", "seq"} THEN "read" ELSE "ready"}
    /\ reg' = 0
    /\ Error
    /\ UNCHANGED <<mark, pend, bbt, ecc, ghosts>>
-----------------------------------------------------------------------------
(* Programs *)

\* With software ECC a whole page is programmed with the spare area as buf_oob
\* holds it; everything else carries no marker bytes.
Page ==
    {[row |-> row, bad |-> SW /\ ~PartOfPage /\ bufOob = "bad" /\ row \in MarkerRows]}

(* rawnand_page_pgm, and rawnand_unalign_pgm without software ECC. *)
ProgramPage ==
    /\ op = "program" /\ pc = "first"
    /\ IF PartOfPage THEN ~SW ELSE Whole = 1
    /\ TakeOver(Page, {})
    /\ Advance("first", 1, todo \ {row}, faulty)
    /\ Free /\ pend' = {}
    /\ UNCHANGED <<bbt, bufOob, ecc, win, retired>>

(* rawnand_unalign_pgm with software ECC: the data is loaded, buffers filled
   with 0xFF before; the ECC bytes and the confirm follow. *)
LoadPart ==
    /\ op = "program" /\ pc = "first" /\ SW /\ PartOfPage
    /\ TakeOver({}, {})
    /\ bufOob' = "ff" /\ win' \in Windows
    /\ mode' = "load" /\ pend' = {} /\ pc' = "oob"
    /\ UNCHANGED <<reg, bbt, ecc, op, row, left, part, range, todo, faulty, result, retired>>

ProgramPart ==
    /\ op = "program" /\ pc = "oob"
    /\ Advance("first", 1, todo \ {row}, faulty)
    /\ win' = Released
    /\ Free
    /\ UNCHANGED <<mark, pend, bbt, bufOob, ecc, ghosts>>

(* cmd_rawnand_page_pgm_rnd fails.  Its error is not looked at but the status
   byte, which is not set or is that of an unfinished poll: the driver goes on,
   or returns MXST_ERR_PROGRAM. *)
PartLost ==
    /\ op = "program" /\ pc = "oob" /\ Faults
    /\ \/ Error
       \/ \E undone \in {todo, todo \ {row}} :
             Advance("first", 1, undone, TRUE)
    /\ win' = Released
    /\ mode' \in {mode, "ready"}
    /\ UNCHANGED <<mark, reg, pend, bbt, bufOob, ecc, ghosts>>

Cached == op = "program" /\ ~PartOfPage /\ (pc = "seq" \/ (pc = "first" /\ Whole >= 2))

(* rawnand_cache_pgm: 15h, for the last page 10h.  The pages before are written
   by then. *)
CacheStep ==
    /\ Cached
    /\ LET finished == {p.row : p \in pend \ Abandoned} IN
       IF Whole = 1
       THEN /\ TakeOver(Page, {})
            /\ Advance("first", 1, todo \ ({row} \union finished), faulty)
            /\ Free /\ pend' = {}
       ELSE /\ TakeOver({}, {})
            /\ Advance("seq", 1, todo \ finished, faulty)
            /\ mode' = "cache" /\ pend' = Page /\ UNCHANGED reg
    /\ UNCHANGED <<bbt, bufOob, ecc, win, retired>>

(* The chip raises SR_CACHE_PGM_STATUS for the page before: the driver returns
   ret, which is MXST_SUCCESS, and rawnand_program_entry goes on with the part
   of a page at the end. *)
CacheStatus ==
    /\ Cached /\ pc = "seq" /\ Faults
    /\ \E m \in SUBSET Stains(pend) : mark' = mark \union m
    /\ suspect' = suspect \union BlksOf(pend)
    /\ Advance("first", Whole, todo, TRUE)
    /\ mode' = "cache" /\ pend' = Page
    /\ UNCHANGED <<reg, bbt, bufOob, ecc, win, retired>>

(* The chip raises SR_CHIP_STATUS for the last page: the driver does not look. *)
LastStatus ==
    /\ Cached /\ pc = "seq" /\ Whole = 1 /\ Faults
    /\ \E m \in SUBSET Stains(Page) : mark' = mark \union Stains(pend) \union m
    /\ suspect' = suspect \union BlksOf(Page)
    /\ Advance("first", 1, todo \ {p.row : p \in pend}, TRUE)
    /\ Free /\ pend' = {}
    /\ UNCHANGED <<bbt, bufOob, ecc, win, retired>>

(* A transfer fails, or the chip raises SR_CHIP_STATUS for a single page. *)
ProgramFail ==
    /\ op = "program" /\ pc # "oob" /\ Faults
    /\ bufOob' = IF SW /\ PartOfPage THEN "ff" ELSE bufOob
    /\ win' = Released
    /\ \/ UNCHANGED <<mark, mode, pend, suspect>>
       \/ /\ \E m \in SUBSET Stains(pend \union Page) : mark' = mark \union m
          /\ suspect' = suspect \union BlksOf(pend \union Page)
          /\ IF Cached
             THEN mode' = "cache" /\ pend' = Page
             ELSE mode' = "ready" /\ pend' = {}
    /\ Error
    /\ UNCHANGED <<reg, bbt, ecc, retired>>
-----------------------------------------------------------------------------
Application ==
    \/ \E s \in Spans : EraseCall(s[1], s[2])
    \/ \E name \in {"read", "program"}, s \in Spans, ends \in SUBSET Ends :
          TransferCall(name, s[1], s[2], ends)
    \/ \E b \in Blks, preErase \in BOOLEAN : SetBBCall(b, preErase)
    \/ \E en \in BOOLEAN : SetEccEn(en)

Driver ==
    \/ ScanPage \/ EraseBlock \/ EraseIgnored \/ MarkPage
    \/ ReadStart \/ ReadData \/ ReadOob \/ ReadSeq
    \/ ProgramPage \/ LoadPart \/ ProgramPart \/ CacheStep

Failure ==
    \/ ScanFail \/ EraseStatus \/ EraseFail \/ MarkFail \/ ReadFail
    \/ PartLost \/ CacheStatus \/ LastStatus \/ ProgramFail

Next == Setup \/ Application \/ Driver \/ Failure \/ Settle \/ PowerCut

Spec == Init /\ [][Next]_vars
-----------------------------------------------------------------------------
(* Properties *)

\* Every variable stays in its domain; in particular no command addresses a row
\* outside the chip (the range checks of rawnand_read, _program and _erase), and
\* ECC steps stay inside the page.
TypeOK ==
    /\ mark \subseteq MarkerRows /\ mode \in Modes /\ reg \in Nat
    /\ pend \subseteq [row : Rows, bad : BOOLEAN]
    /\ bbt \subseteq Blks /\ bufOob \in {"ff", "bad"}
    /\ type \in EccTypes /\ typeOld \in EccTypes
    /\ win \in (0 .. NSteps - 1) \X (0 .. NSteps - 1)
    /\ op \in Ops /\ pc \in Pcs /\ row \in Rows /\ left \in Nat /\ part \subseteq Ends
    /\ range \subseteq Blks /\ todo \subseteq Rows /\ faulty \in BOOLEAN
    /\ result \in {"ok", "err", "undone"} /\ retired \subseteq Blks /\ suspect \subseteq Blks

\* A call during which nothing failed and that returns success has done all its
\* work: each page read is in its place, each page programmed, each block erased
\* or marked; and it leaves the chip out of any command sequence
\* (rawnand_cache_read_seq, rawnand_cache_pgm, rawnand_unalign_read, _pgm).
SuccessMeansDone ==
    op = "idle" /\ ~faulty => result # "undone" /\ mode = "ready"

\* Whatever failed, a call that returns success has read, programmed, erased or
\* marked all it was asked to: what flash_epr_verify_in_blk of the test bench
\* relies on when it compares data after an erase, a program and a read that all
\* returned MXST_SUCCESS (testbench/src/flash_test.c:346-374).
NothingHidden == result # "undone"

\* A block that set_bb reported as marked stays bad in the table, across failed
\* commands, abandoned cache programs, power cuts and probes, until somebody asks
\* for its erase (rawnand_set_bb, rawnand_scan_bb, rawnand_chk_bb).
RetiredStaysBad == op = "idle" => retired \subseteq bbt

\* Between calls a block the table calls bad has its marker on the flash, except
\* for blocks on which something failed since the last probe.
NoPhantomBad == op = "idle" => \A b \in bbt \ suspect : Marked(b)

\* A call changes the markers and table bits of no block outside the range the
\* application named (rawnand_erase, rawnand_set_bb, rawnand_program_entry);
\* pages that an abandoned cache program has still in the chip are not its own.
OnlyRangeTouched ==
    [][op \notin {"off", "probe", "idle"} /\ op' # "off" =>
         \A b \in Blks \ range :
            /\ b \in bbt' <=> b \in bbt
            /\ (mark' \intersect RowsOf(b)) \ Stains(pend) = (mark \intersect RowsOf(b)) \ Stains(pend)]_vars

\* Whole pages are encoded and corrected in all their steps, whichever way an
\* earlier access to a part of a page ended: the window is the whole page except
\* between the two halves of such an access (rawnand_unalign_read, _pgm).
WholeWindow ==
    (op # "off" /\ win # WholePage) =>
        SW /\ op \in {"read", "program"} /\ pc # "seq" /\ PartOfPage
-----------------------------------------------------------------------------
(* The inductive invariants behind the properties. *)

\* The commands still to come stay inside the chip, whole blocks for an erase,
\* the first two pages of one block for set_bb.
CallFits ==
    /\ op \in {"read", "program"} => left > 0 /\ row + left <= NRows
    /\ op = "erase" =>
         \E b \in Blks, k \in 1 .. NBlks :
            b + k <= NBlks /\ row = FirstRow(b) /\ left = FirstRow(k)
    /\ op \in {"pre_erase", "mark"} =>
         \E b \in Blks :
            /\ range = {b}
            /\ \/ left = 2 /\ row = FirstRow(b)
               \/ op = "mark" /\ left = 1 /\ row = FirstRow(b) + 1

\* Where in a read or program which sequence can be next.
SequenceFits ==
    /\ op \notin {"read", "program"} => pc = "first"
    /\ pc = "data" => op = "read" /\ (PartOfPage \/ Whole = 1)
    /\ pc = "oob" => SW /\ PartOfPage
    /\ pc = "seq" => "head" \notin part /\ Whole >= 1

PendFits == \A p \in pend : p.bad => p.row \in MarkerRows

IInv == TypeOK /\ CallFits /\ SequenceFits /\ PendFits /\ WholeWindow

\* A retired block carries both markers, one of them while it is being marked,
\* and is in the table once it is scanned.
RetiredMarked ==
    /\ \A b \in retired : FirstRow(b) \in mark /\ FirstRow(b) + 1 \in mark
    /\ op = "mark" /\ left = 1 => row - 1 \in mark
    /\ op \in {"pre_erase", "mark"} => bufOob = "bad"

RetiredKnown ==
    /\ op \notin {"off", "probe"} => retired \subseteq bbt
    /\ op \in {"off", "probe"} => mode = "ready"
    /\ op = "off" => row = 0
    /\ op = "probe" =>
         \E b \in Blks, p \in {0, 1} :
            /\ row = FirstRow(b) + p
            /\ p = 1 => FirstRow(b) \notin mark
            /\ \A c \in retired : c < b => c \in bbt

RInv == RetiredMarked /\ RetiredKnown

\* While nothing has failed: the work still to do lies ahead, or in the chip, and
\* the chip is where the next command sequence needs it.
OnTrack ==
    /\ op \in {"off", "probe", "idle"} => mode = "ready" /\ result # "undone"
    /\ op \in {"read", "erase", "pre_erase", "mark"} => todo \subseteq row .. row + left - 1
    /\ op = "program" =>
         todo \subseteq (row .. row + left - 1) \union {p.row : p \in pend \ Abandoned}
    /\ op = "read" /\ pc # "first" => mode \in {"read", "seq"} /\ reg = row
    /\ op = "program" /\ pc = "seq" => mode = "cache" /\ pend # {}

DInv == ~faulty => OnTrack
=============================================================================
