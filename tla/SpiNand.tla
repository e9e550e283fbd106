------------------------------ MODULE SpiNand ------------------------------
(***************************************************************************)
(* Bad-block management of the SPI NAND driver, mxmtd/spinand/spinand.c:   *)
(* the bad-block table in RAM (snand->bbt), the marker bytes in the spare  *)
(* area of the pages of the flash, and the buffer through which markers    *)
(* travel (snand->buf_oob), under probe, read, program, erase, set_bb,     *)
(* set_ecc_en, failing commands and power cuts.                            *)
(*                                                                         *)
(* Addresses and lengths are counted in pages ("rows").  One step of an    *)
(* operation is one page or block command of spinand_cmd.c together with   *)
(* the driver code up to the next command.  Definitions marked "Slip" are  *)
(* plausible errors in the definition that follows them; nothing uses them *)
(* but the experiments that show which property catches which error.       *)
(***************************************************************************)
EXTENDS NandGeometry

CONSTANTS
    EccType,  \* CONF_SPINAND_ECC_TYPE
    Faults,   \* whether commands may fail (transfer error, poll timeout, status bit)
    Spans     \* <<row, length>> of the reads, programs and erases the application asks for

EccTypes == {"ECC_NONE", "ECC_INTERNAL_SPI", "ECC_SW_BCH"}

ASSUME ConfigAssumption ==
    /\ EccType \in EccTypes
    /\ Faults \in BOOLEAN
    /\ Spans \subseteq Nat \X Nat

VARIABLES
    mark,     \* the flash: rows whose bad-block marker bytes are not 0xFF
    bbt,      \* blocks whose bit is set in the bad-block table
    bufOob,   \* the marker bytes in buf_oob: "ff" or "bad" (anything else)
    type,     \* ecc.type
    typeOld,  \* ecc.type_old
    op,       \* "off", "idle" or the operation in progress
    row,      \* the row of its next command
    left,     \* the commands it has still to issue
    part,     \* which ends of a read or program cover only part of a page
    \* observers: no guard and no other variable depends on them
    range,    \* blocks the call in progress is about
    claimed,  \* blocks the last call, an erase, has just reported as erased
    retired,  \* blocks marked by a successful set_bb and not erased since
    suspect   \* blocks whose markers a failed command may have left unknown

ecc    == <<type, typeOld>>
call   == <<op, row, left, part, range, claimed>>
ghosts == <<retired, suspect>>
vars   == <<mark, bbt, bufOob, type, typeOld, op, row, left, part, range,
            claimed, retired, suspect>>

Ops  == {"off", "idle", "probe", "read", "program", "erase", "pre_erase", "mark"}
Ends == {"head", "tail"}

SW == type = "ECC_SW_BCH"

Oob(r) == IF r \in mark THEN "bad" ELSE "ff"

\* What spinand_scan_bb looks for: a marker on the first or second page.
Marked(b) == FirstRow(b) \in mark \/ FirstRow(b) + 1 \in mark

NoCall(o, es) ==
    /\ op' = o /\ row' = 0 /\ left' = 0 /\ part' = {} /\ range' = {}
    /\ claimed' = es

Return == NoCall("idle", {})

(* The next command of the same call is at the next row. *)
NextRow ==
    /\ row' = row + 1 /\ left' = left - 1 /\ part' = part \ {"head"}
    /\ UNCHANGED <<op, range, claimed>>
-----------------------------------------------------------------------------
(* The RAM of the driver before mxmtd_setup_dev or after mxmtd_release. *)
NoRam ==
    /\ bbt' = {} /\ bufOob' = "ff"
    /\ type' = EccType /\ typeOld' = "ECC_NONE"

(* A chip with factory-marked blocks, the driver not yet set up. *)
Init ==
    /\ mark \in SUBSET {FirstRow(b) + n : b \in Blks, n \in {0, 1}}
    /\ bbt = {} /\ bufOob = "ff"
    /\ type = EccType /\ typeOld = "ECC_NONE"
    /\ op = "off" /\ row = 0 /\ left = 0 /\ part = {} /\ range = {}
    /\ claimed = {} /\ retired = {} /\ suspect = {}

(* mxmtd_setup_dev and spinand_probe up to the scan: the table is calloc'ed,
   buf_oob is malloc'ed and holds anything. *)
Setup ==
    /\ op = "off"
    /\ bbt' = {} /\ bufOob' \in {"ff", "bad"}
    /\ type' = EccType /\ typeOld' = "ECC_NONE"
    /\ op' = "probe" /\ row' = 0 /\ left' = 0 /\ part' = {} /\ range' = Blks
    /\ suspect' = {}
    /\ UNCHANGED <<mark, claimed, retired>>

(* The page spinand_scan_bb reads after r: the second page of a block when the
   first carries no marker, else the first page of the next block.
   Slip: only first pages; slip: the page counter restarts within a block. *)
FirstPagesOnly(r) == FirstRow(BlkOf(r) + 1)
PageRestarts(r) == IF r = FirstRow(BlkOf(r)) THEN r + 1 ELSE FirstRow(BlkOf(r))
ScanNext(r) ==
    IF r = FirstRow(BlkOf(r)) /\ r \notin mark
    THEN r + 1 ELSE FirstRow(BlkOf(r) + 1)

\* Slip: blk < nblks - 1.
LastBlkSkipped == NRows - NPages
ScanEnd == NRows

ScanPage ==
    /\ op = "probe"
    /\ bufOob' = Oob(row)
    /\ bbt' = IF row \in mark THEN bbt \union {BlkOf(row)} ELSE bbt
    /\ IF ScanNext(row) >= ScanEnd
       THEN Return
       ELSE row' = ScanNext(row) /\ UNCHANGED <<op, left, part, range, claimed>>
    /\ UNCHANGED <<mark, ecc, ghosts>>

(* A failing command makes the probe fail: mxmtd_setup_dev releases all. *)
ScanFail ==
    /\ op = "probe" /\ Faults
    /\ NoCall("off", {}) /\ NoRam
    /\ UNCHANGED <<mark, ghosts>>
-----------------------------------------------------------------------------
(* Calls: the checks before the first command.  A call that fails them returns
   with the state as it was. *)

Start(name, r, n, ends, blks) ==
    /\ op' = name /\ row' = r /\ left' = n /\ part' = ends /\ range' = blks
    /\ claimed' = {}
    /\ UNCHANGED <<mark, bbt, ecc, ghosts>>

(* spinand_erase(addr, nbytes) *)
EraseCall(r, n) ==
    /\ op = "idle"
    /\ n > 0 /\ ~OutOfChip(r, n) /\ r % NPages = 0 /\ n % NPages = 0
    /\ Start("erase", r, n \div NPages, {},
             {b \in Blks : BlkOf(r) <= b /\ b < BlkOf(r + n)})
    /\ UNCHANGED bufOob

(* spinand_read and spinand_program of n pages, the first and the last of which
   may be covered in part only. *)
TransferCall(name, r, n, ends) ==
    /\ op = "idle"
    /\ n > 0 /\ ~OutOfChip(r, n)
    /\ Start(name, r, n, ends,
             {b \in Blks : BlkOf(r) <= b /\ b <= BlkOf(r + n - 1)})
    /\ UNCHANGED bufOob

(* spinand_set_bb(addr, pre_erase): the marker is put into buf_oob first.  The
   address is not checked; callers pass one inside the chip. *)
SetBBCall(r, preErase) ==
    /\ op = "idle"
    /\ bufOob' = "bad"
    /\ Start(IF preErase THEN "pre_erase" ELSE "mark",
             FirstRow(BlkOf(r)), 2, {}, {BlkOf(r)})

(* spinand_set_ecc_en *)
SetEccEn(en) ==
    /\ op = "idle"
    /\ IF en
       THEN /\ type' = IF type = "ECC_NONE" THEN typeOld ELSE type
            /\ UNCHANGED typeOld
       ELSE typeOld' = type /\ type' = "ECC_NONE"
    /\ UNCHANGED <<mark, bbt, bufOob, call, ghosts>>
-----------------------------------------------------------------------------
(* Commands that succeed. *)

\* cmd_spinand_block_erase, then CLR_BB.  Slip: the table is left alone.
EraseOnly(b) ==
    /\ mark' = mark \ RowsOf(b)
    /\ retired' = retired \ {b} /\ suspect' = suspect \ {b}
    /\ UNCHANGED bbt
EraseBlock(b) ==
    /\ mark' = mark \ RowsOf(b)
    /\ bbt' = bbt \ {b}
    /\ retired' = retired \ {b} /\ suspect' = suspect \ {b}

(* The loop of spinand_erase.  After each block erased "row++" moves to the
   next page, not to the next block. *)
EraseStep ==
    /\ op = "erase"
    /\ EraseBlock(BlkOf(row))
    /\ IF left = 1 THEN NoCall("idle", range) ELSE NextRow
    /\ UNCHANGED <<bufOob, ecc>>

(* The erase of one block that spinand_set_bb asks for. *)
PreErase ==
    /\ op = "pre_erase"
    /\ EraseBlock(BlkOf(row))
    /\ op' = "mark"
    /\ UNCHANGED <<bufOob, ecc, row, left, part, range, claimed>>

\* The block whose table bit spinand_set_bb sets, computed from the address two
\* pages on; r is the second page.  Slip: the address moved by a block.
BlkAfter(r) == BlkOf(r + NPages)
TableBlk(r) == BlkOf(r + 1)

(* spinand_pgm_oob on the first two pages, then SET_BB. *)
MarkPage ==
    /\ op = "mark"
    /\ mark' = IF bufOob = "bad" THEN mark \union {row} ELSE mark
    /\ IF left = 1
       THEN /\ bbt' = bbt \union {TableBlk(row)}
            /\ retired' = retired \union range /\ suspect' = suspect \ range
            /\ Return
       ELSE NextRow /\ UNCHANGED <<bbt, ghosts>>
    /\ UNCHANGED <<bufOob, ecc>>

PartOfPage == "head" \in part \/ (left = 1 /\ "tail" \in part)

(* The marker bytes a page program carries.  With software ECC a whole page is
   programmed with the spare area as buf_oob holds it; a part of a page first
   fills buf_oob with 0xFF; without software ECC only data is sent. *)
ProgramMark == IF SW /\ ~PartOfPage /\ bufOob = "bad" THEN {row} ELSE {}
ProgramBuf  == IF SW /\ PartOfPage THEN "ff" ELSE bufOob

ProgramStep ==
    /\ op = "program"
    /\ mark' = mark \union ProgramMark
    /\ bufOob' = ProgramBuf
    /\ IF left = 1 THEN Return ELSE NextRow
    /\ UNCHANGED <<bbt, ecc, ghosts>>

(* With software ECC a whole page is read with its spare area into buf_oob. *)
ReadStep ==
    /\ op = "read"
    /\ bufOob' = IF SW /\ ~PartOfPage THEN Oob(row) ELSE bufOob
    /\ IF left = 1 THEN Return ELSE NextRow
    /\ UNCHANGED <<mark, bbt, ecc, ghosts>>
-----------------------------------------------------------------------------
(* Commands that fail: the flash has done all, part or nothing of the work,
   and the operation returns at once. *)

EraseFail ==
    /\ op \in {"erase", "pre_erase"} /\ Faults
    /\ \E lost \in SUBSET RowsOf(BlkOf(row)) : mark' = mark \ lost
    /\ retired' = retired \ {BlkOf(row)}
    /\ suspect' = suspect \union {BlkOf(row)}
    /\ Return
    /\ UNCHANGED <<bbt, bufOob, ecc>>

MarkFail ==
    /\ op = "mark" /\ Faults
    /\ mark' \in {mark, IF bufOob = "bad" THEN mark \union {row} ELSE mark}
    /\ suspect' = suspect \union range
    /\ Return
    /\ UNCHANGED <<bbt, bufOob, ecc, retired>>

ProgramFail ==
    /\ op = "program" /\ Faults
    /\ mark' \in {mark, mark \union ProgramMark}
    /\ bufOob' \in {bufOob, ProgramBuf}
    /\ suspect' = IF ProgramMark = {} THEN suspect ELSE suspect \union {BlkOf(row)}
    /\ Return
    /\ UNCHANGED <<bbt, ecc, retired>>

ReadFail ==
    /\ op = "read" /\ Faults
    /\ bufOob' \in IF SW /\ ~PartOfPage THEN {"ff", "bad"} ELSE {bufOob}
    /\ Return
    /\ UNCHANGED <<mark, bbt, ecc, ghosts>>

(* mxmtd_release between calls, or a power cut anywhere. *)
PowerCut ==
    /\ op # "off"
    /\ NoCall("off", {}) /\ NoRam
    /\ UNCHANGED <<mark, ghosts>>
-----------------------------------------------------------------------------
Application ==
    \/ \E s \in Spans : EraseCall(s[1], s[2])
    \/ \E name \in {"read", "program"}, s \in Spans, ends \in SUBSET Ends :
          TransferCall(name, s[1], s[2], ends)
    \/ \E r \in Rows, preErase \in BOOLEAN : SetBBCall(r, preErase)
    \/ \E en \in BOOLEAN : SetEccEn(en)

Driver ==
    ScanPage \/ EraseStep \/ PreErase \/ MarkPage \/ ProgramStep \/ ReadStep

Failure ==
    ScanFail \/ EraseFail \/ MarkFail \/ ProgramFail \/ ReadFail

Next == Setup \/ Application \/ Driver \/ Failure \/ PowerCut

Spec == Init /\ [][Next]_vars

\* The driver runs on its own once called: a call in progress takes its next
\* step.  Nothing obliges the application to make calls, or a command to fail.
FairSpec == Spec /\ WF_vars(Driver)
-----------------------------------------------------------------------------
(* Properties *)

\* Every variable stays in its domain; in particular no command addresses a row
\* outside the chip (the range checks of spinand_read, _program and _erase).
TypeOK ==
    /\ mark \subseteq Rows /\ bbt \subseteq Blks /\ bufOob \in {"ff", "bad"}
    /\ type \in EccTypes /\ typeOld \in EccTypes
    /\ op \in Ops /\ row \in Rows /\ left \in Nat /\ part \subseteq Ends
    /\ range \subseteq Blks /\ claimed \subseteq Blks
    /\ retired \subseteq Blks /\ suspect \subseteq Blks

\* A block that set_bb reported as marked stays bad in the table, across failed
\* commands, power cuts and probes, until somebody asks for its erase
\* (spinand_set_bb, spinand_scan_bb, spinand_chk_bb).
RetiredStaysBad == op = "idle" => retired \subseteq bbt

\* Between calls the table says what a scan of the flash would find, except for
\* blocks on which a command failed since the last probe: what the driver holds
\* in RAM never drifts from the markers it is a copy of.
BbtMatchesFlash ==
    op = "idle" => \A b \in Blks \ suspect : b \in bbt <=> Marked(b)

\* The half of it that holds with software ECC too: a block the table calls bad
\* has its marker on the flash.
NoPhantomBad == op = "idle" => \A b \in bbt \ suspect : Marked(b)

\* A call changes the markers and table bits of no block outside the range the
\* application named, however often it steps its row (spinand_erase,
\* spinand_set_bb, spinand_program_entry).
OnlyRangeTouched ==
    [][op \notin {"off", "probe"} /\ op' # "off" =>
         \A b \in Blks \ range :
            /\ b \in bbt' <=> b \in bbt
            /\ mark' \intersect RowsOf(b) = mark \intersect RowsOf(b)]_vars

\* An erase that returns success has cleared the marker and the bad-block bit of
\* every block of its range ("Clear BB if erase successfully", spinand.c:1260).
EraseCoversRange ==
    op = "idle" => \A b \in claimed : b \notin bbt /\ mark \intersect RowsOf(b) = {}

\* Every call returns: no loop of the driver runs for ever.
CallReturns == (op \notin {"off", "idle"}) ~> (op \in {"off", "idle"})
-----------------------------------------------------------------------------
(* The inductive invariant behind RetiredStaysBad. *)

\* The commands still to come stay inside the chip.
CallFits ==
    op \in {"read", "program", "erase"} => left > 0 /\ row + left <= NRows

\* spinand_set_bb works on one block with the marker in its buffer: page 0 while
\* two commands are left, page 1, with page 0 marked, when one is left.
MarkingOneBlock ==
    op \in {"pre_erase", "mark"} =>
        \E b \in Blks :
            /\ range = {b} /\ bufOob = "bad"
            /\ \/ left = 2 /\ row = FirstRow(b)
               \/ op = "mark" /\ left = 1 /\ row = FirstRow(b) + 1 /\ FirstRow(b) \in mark

\* A retired block carries both markers.
RetiredMarked ==
    \A b \in retired : FirstRow(b) \in mark /\ FirstRow(b) + 1 \in mark

\* Once scanned, retired blocks are in the table.
RetiredKnown ==
    /\ op \notin {"off", "probe"} => retired \subseteq bbt
    /\ op = "probe" =>
         \E b \in Blks, p \in {0, 1} :
            /\ row = FirstRow(b) + p
            /\ p = 1 => FirstRow(b) \notin mark
            /\ \A c \in retired : c < b => c \in bbt

IInv == TypeOK /\ CallFits /\ MarkingOneBlock /\ RetiredMarked /\ RetiredKnown
=============================================================================
