--------------------------- MODULE SpiNandProofs ---------------------------
(***************************************************************************)
(* Proofs about SpiNand for every geometry and configuration, and about    *)
(* SpiNandTable: without software ECC the table is a copy of the markers,  *)
(* and the driver implements BadBlocks.                                    *)
(***************************************************************************)
EXTENDS SpiNandTable, TLAPS

(* Division by the block size: the facts about row numbers that the invariants
   need.  Everything below uses these and leaves BlkOf and FirstRow folded. *)

\* A row is in the block whose first row it follows by less than a block.
LEMMA BlkOfFirst ==
    ASSUME NEW b \in Nat, NEW p \in 0 .. NPages - 1
    PROVE  BlkOf(FirstRow(b) + p) = b
<1> USE GeometryAssumption
<1> DEFINE n == NPages  r == b * n + p  q == r \div n
<1>1. n \in Nat /\ n > 0 /\ r \in Nat
    BY Z3
<1>2. q \in Nat /\ n * q <= r /\ r < n * q + n
    BY <1>1, Z3
<1>3. CASE q < b
    <2>1. q + 1 <= b
        BY <1>2, <1>3
    <2>2. n * (q + 1) <= n * b
        BY <2>1, <1>1, <1>2, Z3
    <2>3. n * q + n <= r
        BY <2>2, <1>1, <1>2, Z3
    <2>. QED
        BY <1>2, <2>3
<1>4. CASE b < q
    <2>1. b + 1 <= q
        BY <1>2, <1>4
    <2>2. n * (b + 1) <= n * q
        BY <2>1, <1>1, <1>2, Z3
    <2>3. r < n * q
        BY <2>2, <1>1, <1>2, Z3
    <2>. QED
        BY <1>2, <2>3, <1>1
<1>. QED
    BY <1>2, <1>3, <1>4 DEF BlkOf, FirstRow

\* A row of the chip lies in a block of the chip.
LEMMA BlkOfRow ==
    ASSUME NEW r \in Rows
    PROVE  BlkOf(r) \in Blks /\ FirstRow(BlkOf(r)) <= r
<1> USE GeometryAssumption
<1> DEFINE q == r \div NPages
<1>1. r \in Nat /\ r < NBlks * NPages
    BY Z3 DEF Rows, NRows
<1>2. q \in Nat /\ NPages * q <= r /\ q * NPages <= r
    BY <1>1, Z3
<1>3. q < NBlks
    <2>1. SUFFICES ASSUME NBlks <= q PROVE FALSE
        BY <1>2
    <2>2. NBlks * NPages <= q * NPages
        BY <2>1, <1>2, Z3
    <2>. QED
        BY <2>2, <1>1, <1>2, Z3
<1>. QED
    BY <1>2, <1>3 DEF BlkOf, FirstRow, Blks

\* The pages of a block of the chip are rows of the chip.
LEMMA PagesInChip ==
    ASSUME NEW b \in Blks, NEW p \in 0 .. NPages - 1
    PROVE  FirstRow(b) \in Nat /\ FirstRow(b) + p \in Rows /\ FirstRow(b) + NPages <= NRows
<1> USE GeometryAssumption
<1>1. b \in Nat /\ b + 1 <= NBlks
    BY DEF Blks
<1>2. (b + 1) * NPages <= NBlks * NPages
    BY <1>1, Z3
<1>3. (b + 1) * NPages = b * NPages + NPages /\ b * NPages \in Nat /\ NBlks * NPages \in Nat
    BY <1>1, Z3
<1>. QED
    BY <1>2, <1>3 DEF FirstRow, Rows, NRows

\* What the proofs below know of blocks and rows.
GeometryFacts ==
    /\ NBlks \in Nat /\ NBlks > 0 /\ NRows \in Nat
    /\ Rows = {r \in Nat : r < NRows} /\ Blks = {b \in Nat : b < NBlks}
    /\ 0 \in Rows /\ FirstRow(0) = 0
    /\ \A r \in Rows : BlkOf(r) \in Blks
    /\ \A b \in Blks :
         /\ FirstRow(b) \in Rows /\ FirstRow(b) + 1 \in Rows /\ FirstRow(b) + 2 \in Rows
         /\ BlkOf(FirstRow(b)) = b /\ BlkOf(FirstRow(b) + 1) = b
         /\ BlkOf((FirstRow(b) + 1) + 1) = b
    /\ \A b \in Blks : FirstRow(b + 1) < NRows => b + 1 \in Blks
    /\ \A b \in Blks : b + 1 \in Blks => FirstRow(b + 1) < NRows

LEMMA Geometry == GeometryFacts
<1> USE GeometryAssumption
<1>1. NBlks \in Nat /\ NBlks > 0 /\ NRows \in Nat /\ NRows > 0 /\ NPages > 2 /\ NPages \in Nat
    <2>1. NBlks \in Nat /\ NBlks >= 1 /\ NPages \in Nat /\ NPages > 2
        OBVIOUS
    <2>2. NBlks * NPages \in Nat /\ NBlks * NPages >= 1 * NPages
        BY <2>1, Z3
    <2>. QED
        BY <2>1, <2>2 DEF NRows
<1>2. Rows = {r \in Nat : r < NRows} /\ Blks = {b \in Nat : b < NBlks}
    BY <1>1 DEF Rows, Blks
<1>3. 0 \in Rows /\ FirstRow(0) = 0
    BY <1>1, <1>2 DEF FirstRow
<1>4. \A r \in Rows : BlkOf(r) \in Blks
    BY BlkOfRow
<1>5. ASSUME NEW b \in Blks
      PROVE  /\ FirstRow(b) \in Rows /\ FirstRow(b) + 1 \in Rows /\ FirstRow(b) + 2 \in Rows
             /\ BlkOf(FirstRow(b)) = b /\ BlkOf(FirstRow(b) + 1) = b
             /\ BlkOf((FirstRow(b) + 1) + 1) = b
    <2>1. b \in Nat /\ 0 \in 0 .. NPages - 1 /\ 1 \in 0 .. NPages - 1 /\ 2 \in 0 .. NPages - 1
        BY <1>1, <1>2
    <2>2. FirstRow(b) \in Nat /\ FirstRow(b) + 0 = FirstRow(b)
          /\ FirstRow(b) + 2 = (FirstRow(b) + 1) + 1
        BY <2>1, PagesInChip
    <2>3. BlkOf(FirstRow(b) + 0) = b /\ BlkOf(FirstRow(b) + 1) = b /\ BlkOf(FirstRow(b) + 2) = b
        BY <2>1, BlkOfFirst
    <2>4. FirstRow(b) + 0 \in Rows /\ FirstRow(b) + 1 \in Rows /\ FirstRow(b) + 2 \in Rows
        BY <2>1, PagesInChip
    <2>. QED
        BY <2>2, <2>3, <2>4
<1>6. ASSUME NEW b \in Blks, FirstRow(b + 1) < NRows
      PROVE  b + 1 \in Blks
    <2>1. SUFFICES ASSUME b + 1 >= NBlks PROVE FALSE
        BY <1>1, <1>2
    <2>2. (b + 1) * NPages >= NBlks * NPages
        BY <2>1, <1>1, <1>2, Z3
    <2>. QED
        BY <2>2, <1>1, <1>2, <1>6, Z3 DEF FirstRow, NRows
<1>7. ASSUME NEW b \in Blks, b + 1 \in Blks
      PROVE  FirstRow(b + 1) < NRows
    BY <1>5, <1>7, <1>2
<1>. QED
    BY <1>1, <1>2, <1>3, <1>4, <1>5, <1>6, <1>7 DEF GeometryFacts

\* A multiple of the block size is a number of blocks.
LEMMA Aligned ==
    ASSUME NEW n \in Nat, n % NPages = 0
    PROVE  n \div NPages \in Nat /\ n = FirstRow(n \div NPages)
<1> DEFINE q == n \div NPages
<1>1. NPages \in Nat /\ NPages > 0
    BY GeometryAssumption
<1>2. q \in Nat /\ n = NPages * q /\ NPages * q = q * NPages
    BY <1>1, Z3
<1>. QED
    BY <1>2 DEF FirstRow

(* The inductive invariant. *)

LEMMA InitIInv == Init => IInv
<1> SUFFICES ASSUME Init PROVE IInv
    OBVIOUS
<1> USE Geometry, ConfigAssumption, GeometryAssumption DEF GeometryFacts
<1>1. mark \subseteq Rows
    BY DEF Init
<1>2. TypeOK
    BY <1>1 DEF Init, TypeOK, Ops, Ends, EccTypes
<1>3. CallFits /\ MarkingOneBlock /\ RetiredMarked /\ RetiredKnown
    BY DEF Init, CallFits, MarkingOneBlock, RetiredMarked, RetiredKnown
<1>. QED
    BY <1>2, <1>3 DEF IInv

\* Setting up: the scan starts at the first page of block 0.
LEMMA SetupIInv == IInv /\ Setup => IInv'
<1> SUFFICES ASSUME IInv, Setup PROVE IInv'
    OBVIOUS
<1> USE Geometry, ConfigAssumption, GeometryAssumption DEF GeometryFacts
<1>1. TypeOK'
    BY DEF IInv, Setup, TypeOK, Ops, Ends, EccTypes
<1>2. CallFits' /\ MarkingOneBlock' /\ RetiredMarked'
    BY DEF IInv, Setup, CallFits, MarkingOneBlock, RetiredMarked
<1>3. RetiredKnown'
    <2>1. 0 \in Blks /\ 0 = FirstRow(0) + 0 /\ \A c \in retired' : ~(c < 0)
        BY DEF IInv, TypeOK, Setup
    <2>. QED
        BY <2>1 DEF Setup, RetiredKnown
<1>. QED
    BY <1>1, <1>2, <1>3 DEF IInv

\* Calls, and going off: nothing on the flash or in the table moves.
LEMMA CallIInv ==
    ASSUME IInv, Application
    PROVE  IInv'
<1> USE Geometry, ConfigAssumption, GeometryAssumption DEF GeometryFacts
<1>1. ASSUME NEW s \in Spans, EraseCall(s[1], s[2])
      PROVE  IInv'
    <2> DEFINE r == s[1]  n == s[2]
    <2>1. r \in Nat /\ n \in Nat /\ n > 0 /\ r + n <= NRows /\ r \in Rows
        BY <1>1, SMT DEF EraseCall, OutOfChip
    <2>2. n \div NPages \in Nat /\ n \div NPages > 0 /\ n \div NPages <= n
        <3>1. NPages \in Nat /\ NPages > 0 /\ n % NPages = 0
            BY <1>1 DEF EraseCall
        <3> DEFINE q == n \div NPages
        <3>2. q \in Nat /\ n = NPages * q
            BY <2>1, <3>1, Z3
        <3>3. q > 0
            BY <2>1, <3>1, <3>2, Z3
        <3>4. NPages * q >= 1 * q
            BY <3>1, <3>2, Z3
        <3>. QED
            BY <3>2, <3>3, <3>4
    <2>3. TypeOK' /\ CallFits'
        BY <1>1, <2>1, <2>2 DEF IInv, EraseCall, Start, TypeOK, CallFits, Ops, Ends, ecc, ghosts
    <2>4. MarkingOneBlock' /\ RetiredMarked' /\ RetiredKnown'
        BY <1>1 DEF IInv, EraseCall, Start, MarkingOneBlock, RetiredMarked, RetiredKnown, ecc, ghosts
    <2>. QED
        BY <2>3, <2>4 DEF IInv
<1>2. ASSUME NEW name \in {"read", "program"}, NEW s \in Spans, NEW ends \in SUBSET Ends,
             TransferCall(name, s[1], s[2], ends)
      PROVE  IInv'
    <2> DEFINE r == s[1]  n == s[2]
    <2>1. r \in Nat /\ n \in Nat /\ n > 0 /\ r + n <= NRows /\ r \in Rows
        BY <1>2, SMT DEF TransferCall, OutOfChip
    <2>2. TypeOK' /\ CallFits'
        BY <1>2, <2>1 DEF IInv, TransferCall, Start, TypeOK, CallFits, Ops, Ends, ecc, ghosts
    <2>3. MarkingOneBlock' /\ RetiredMarked' /\ RetiredKnown'
        BY <1>2 DEF IInv, TransferCall, Start, MarkingOneBlock, RetiredMarked, RetiredKnown, ecc, ghosts
    <2>. QED
        BY <2>2, <2>3 DEF IInv
<1>3. ASSUME NEW r \in Rows, NEW preErase \in BOOLEAN, SetBBCall(r, preErase)
      PROVE  IInv'
    <2>1. BlkOf(r) \in Blks /\ FirstRow(BlkOf(r)) \in Rows
        OBVIOUS
    <2>2. TypeOK' /\ CallFits'
        BY <1>3, <2>1 DEF IInv, SetBBCall, Start, TypeOK, CallFits, Ops, Ends, ecc, ghosts
    <2>3. MarkingOneBlock'
        BY <1>3, <2>1 DEF SetBBCall, Start, MarkingOneBlock
    <2>4. RetiredMarked' /\ RetiredKnown'
        BY <1>3 DEF IInv, SetBBCall, Start, RetiredMarked, RetiredKnown, ecc, ghosts
    <2>. QED
        BY <2>2, <2>3, <2>4 DEF IInv
<1>4. ASSUME NEW en \in BOOLEAN, SetEccEn(en)
      PROVE  IInv'
    <2>1. TypeOK'
        BY <1>4 DEF IInv, SetEccEn, TypeOK, call, ghosts, EccTypes
    <2>2. CallFits' /\ MarkingOneBlock' /\ RetiredMarked' /\ RetiredKnown'
        BY <1>4 DEF IInv, SetEccEn, call, ghosts, CallFits, MarkingOneBlock, RetiredMarked, RetiredKnown
    <2>. QED
        BY <2>1, <2>2 DEF IInv
<1>. QED
    BY <1>1, <1>2, <1>3, <1>4 DEF Application

\* The scan: a block left behind has been marked in the table if it is retired,
\* because its first page carries the marker.
LEMMA ScanIInv == IInv /\ ScanPage => IInv'
<1> SUFFICES ASSUME IInv, ScanPage PROVE IInv'
    OBVIOUS
<1> USE Geometry DEF GeometryFacts
<1>1. PICK b \in Blks, p \in {0, 1} :
            /\ row = FirstRow(b) + p
            /\ p = 1 => FirstRow(b) \notin mark
            /\ \A c \in retired : c < b => c \in bbt
    BY DEF IInv, RetiredKnown, ScanPage
<1>2. BlkOf(row) = b /\ row \in Rows
    BY <1>1 DEF IInv, TypeOK
<1>3. \A c \in retired' : c < b + 1 => c \in bbt'
    <2>2. ASSUME NEW c \in retired, c < b + 1 PROVE c \in bbt'
        <3>1. CASE c < b
            BY <3>1, <1>1, <1>2 DEF ScanPage
        <3>2. CASE c = b
            <4>1. FirstRow(b) \in mark
                BY <3>2 DEF IInv, RetiredMarked
            <4>2. row \in mark
                BY <4>1, <1>1
            <4>. QED
                BY <4>2, <3>2, <1>2 DEF ScanPage
        <3>. QED
            BY <2>2, <3>1, <3>2 DEF IInv, TypeOK
    <2>. QED
        BY <2>2 DEF ScanPage, ghosts
<1>4. CASE ScanNext(row) >= ScanEnd
    <2>1. b + 1 \notin Blks \/ (row = FirstRow(b) /\ row \notin mark)
        BY <1>4, <1>2 DEF ScanNext, ScanEnd
    <2>2. ~(row = FirstRow(b) /\ row \notin mark)
        BY <1>4, <1>2 DEF ScanNext, ScanEnd
    <2>3. retired' \subseteq bbt'
        BY <1>3, <2>1, <2>2 DEF IInv, TypeOK, ScanPage, ghosts
    <2>. QED
        BY <2>3, <1>2, <1>4 DEF IInv, ScanPage, Return, NoCall, TypeOK, CallFits, MarkingOneBlock,
            RetiredMarked, RetiredKnown, Ops, Oob, ecc, ghosts
<1>5. CASE ~(ScanNext(row) >= ScanEnd)
    <2>1. row' = ScanNext(row) /\ op' = "probe"
        BY <1>5 DEF ScanPage
    <2>2. row' \in Rows /\ RetiredKnown'
        <3>1. CASE row = FirstRow(BlkOf(row)) /\ row \notin mark
            <4>1. row' = FirstRow(b) + 1 /\ FirstRow(b) \notin mark'
                BY <2>1, <3>1, <1>2 DEF ScanNext, ScanPage
            <4>2. \A c \in retired' : c < b => c \in bbt'
                BY <1>3 DEF IInv, TypeOK, ScanPage, ghosts
            <4>. QED
                BY <4>1, <4>2, <2>1 DEF RetiredKnown
        <3>2. CASE ~(row = FirstRow(BlkOf(row)) /\ row \notin mark)
            <4>1. row' = FirstRow(b + 1) /\ b + 1 \in Blks
                BY <1>5, <2>1, <3>2, <1>2 DEF ScanNext, ScanEnd, TypeOK
            <4>2. row' = FirstRow(b + 1) + 0 /\ row' \in Rows
                BY <4>1
            <4>. QED
                BY <4>1, <4>2, <1>3, <2>1 DEF RetiredKnown
        <3>. QED
            BY <3>1, <3>2
    <2>. QED
        BY <2>1, <2>2, <1>2, <1>5 DEF IInv, ScanPage, TypeOK, CallFits, MarkingOneBlock,
            RetiredMarked, Ops, Oob, ecc, ghosts
<1>. QED
    BY <1>4, <1>5

\* Erasing one block, even in part, leaves the markers of the others.
LEMMA ErasedElsewhere ==
    ASSUME IInv, NEW b \in Blks, NEW M, mark \ RowsOf(b) \subseteq M
    PROVE  \A c \in retired \ {b} : FirstRow(c) \in M /\ FirstRow(c) + 1 \in M
BY Geometry DEF GeometryFacts, IInv, TypeOK, RetiredMarked, RowsOf

LEMMA EraseIInv == IInv /\ (EraseStep \/ PreErase \/ EraseFail) => IInv'
<1> SUFFICES ASSUME IInv, EraseStep \/ PreErase \/ EraseFail PROVE IInv'
    OBVIOUS
<1> USE Geometry DEF GeometryFacts
<1> DEFINE b == BlkOf(row)
<1>1. b \in Blks /\ mark \subseteq Rows /\ retired \subseteq bbt
    BY DEF IInv, TypeOK, RetiredKnown, EraseStep, PreErase, EraseFail
<1>2. retired' = retired \ {b} /\ mark \ RowsOf(b) \subseteq mark' /\ mark' \subseteq mark
    BY DEF EraseStep, PreErase, EraseFail, EraseBlock
<1>3. RetiredMarked'
    <2>1. \A c \in retired \ {b} : FirstRow(c) \in mark' /\ FirstRow(c) + 1 \in mark'
        BY <1>1, <1>2, ErasedElsewhere
    <2>. QED
        BY <2>1, <1>2 DEF RetiredMarked
<1>4. retired' \subseteq bbt' /\ bbt' \subseteq bbt
    BY <1>1, <1>2 DEF EraseStep, PreErase, EraseFail, EraseBlock
<1>5. CASE EraseStep
    <2>1. left \in Nat /\ left > 0 /\ row + left <= NRows /\ row \in Nat
        BY <1>5 DEF IInv, TypeOK, CallFits, EraseStep
    <2>2. /\ mark' \subseteq Rows /\ bbt' \subseteq Blks /\ retired' \subseteq Blks /\ suspect' \subseteq Blks
          /\ bufOob' \in {"ff", "bad"} /\ type' \in EccTypes /\ typeOld' \in EccTypes
        BY <1>5, <1>1, <1>2 DEF IInv, TypeOK, EraseStep, EraseBlock, ecc
    <2>3. CASE left = 1
        <3>1. /\ op' = "idle" /\ row' = 0 /\ left' = 0 /\ part' = {} /\ range' = {}
              /\ claimed' = range
            BY <1>5, <2>3 DEF EraseStep, NoCall
        <3>2. TypeOK'
            BY <3>1, <2>2 DEF IInv, TypeOK, Ops
        <3>3. CallFits' /\ MarkingOneBlock' /\ RetiredKnown'
            BY <3>1, <1>4 DEF CallFits, MarkingOneBlock, RetiredKnown
        <3>. QED
            BY <1>3, <3>2, <3>3 DEF IInv
    <2>4. CASE left # 1
        <3>1. /\ op' = "erase" /\ row' = row + 1 /\ left' = left - 1 /\ part' \subseteq part
              /\ range' = range /\ claimed' = claimed
            BY <1>5, <2>4 DEF EraseStep, NextRow
        <3>2. row' \in Rows /\ left' \in Nat /\ left' > 0 /\ row' + left' <= NRows
            BY <3>1, <2>1, <2>4
        <3>3. TypeOK'
            BY <3>1, <3>2, <2>2 DEF IInv, TypeOK, Ops
        <3>4. CallFits' /\ MarkingOneBlock' /\ RetiredKnown'
            BY <3>1, <3>2, <1>4 DEF CallFits, MarkingOneBlock, RetiredKnown
        <3>. QED
            BY <1>3, <3>3, <3>4 DEF IInv
    <2>. QED
        BY <2>3, <2>4
<1>6. CASE PreErase
    <2>1. \E c \in Blks : range = {c} /\ bufOob = "bad" /\ left = 2 /\ row = FirstRow(c)
        BY <1>6 DEF IInv, MarkingOneBlock, PreErase
    <2>2. TypeOK' /\ CallFits' /\ RetiredKnown'
        BY <1>6, <1>1, <1>2, <1>4 DEF IInv, TypeOK, CallFits, RetiredKnown, PreErase, EraseBlock, Ops, ecc
    <2>3. MarkingOneBlock'
        BY <1>6, <2>1 DEF MarkingOneBlock, PreErase
    <2>. QED
        BY <1>3, <2>2, <2>3 DEF IInv
<1>7. CASE EraseFail
    BY <1>7, <1>1, <1>2, <1>3, <1>4 DEF IInv, TypeOK, CallFits, MarkingOneBlock, RetiredKnown,
        EraseFail, Return, NoCall, Ops, ecc
<1>. QED
    BY <1>5, <1>6, <1>7

\* Marking: after the second page both markers are there, and the address two
\* pages on still names the block.
LEMMA MarkIInv == IInv /\ (MarkPage \/ MarkFail) => IInv'
<1> SUFFICES ASSUME IInv, MarkPage \/ MarkFail PROVE IInv'
    OBVIOUS
<1> USE Geometry DEF GeometryFacts
<1>1. PICK b \in Blks :
            /\ range = {b} /\ bufOob = "bad"
            /\ \/ left = 2 /\ row = FirstRow(b)
               \/ left = 1 /\ row = FirstRow(b) + 1 /\ FirstRow(b) \in mark
    BY DEF IInv, MarkingOneBlock, MarkPage, MarkFail
<1>2. mark \subseteq mark' /\ mark' \subseteq Rows /\ retired \subseteq bbt
    BY <1>1 DEF IInv, TypeOK, RetiredKnown, MarkPage, MarkFail
<1>3. CASE MarkPage /\ left = 2
    <2>1. mark' = mark \union {row} /\ NextRow /\ UNCHANGED <<bbt, retired, suspect, bufOob, ecc>>
        BY <1>1, <1>3 DEF MarkPage, ghosts
    <2>2. TypeOK' /\ CallFits' /\ RetiredMarked' /\ RetiredKnown'
        BY <1>1, <1>2, <1>3, <2>1 DEF IInv, TypeOK, CallFits, RetiredMarked, RetiredKnown, MarkPage,
            NextRow, ecc, Ops
    <2>3. MarkingOneBlock'
        BY <1>1, <1>2, <1>3, <2>1 DEF IInv, TypeOK, MarkingOneBlock, MarkPage, NextRow
    <2>. QED
        BY <2>2, <2>3 DEF IInv
<1>4. CASE MarkPage /\ left = 1
    <2>1. /\ mark' = mark \union {row} /\ bbt' = bbt \union {b} /\ retired' = retired \union {b}
          /\ row = FirstRow(b) + 1 /\ FirstRow(b) \in mark
        BY <1>1, <1>4 DEF MarkPage, TableBlk
    <2>2. /\ op' = "idle" /\ row' = 0 /\ left' = 0 /\ part' = {} /\ range' = {} /\ claimed' = {}
          /\ suspect' \subseteq suspect /\ UNCHANGED <<bufOob, type, typeOld>>
        BY <1>4 DEF MarkPage, Return, NoCall, ecc
    <2>3. TypeOK'
        BY <1>2, <2>1, <2>2 DEF IInv, TypeOK, Ops
    <2>4. CallFits' /\ MarkingOneBlock' /\ RetiredKnown'
        BY <1>2, <2>1, <2>2 DEF CallFits, MarkingOneBlock, RetiredKnown
    <2>5. RetiredMarked'
        BY <2>1 DEF IInv, RetiredMarked
    <2>. QED
        BY <2>3, <2>4, <2>5 DEF IInv
<1>5. CASE MarkFail
    BY <1>1, <1>2, <1>5 DEF IInv, TypeOK, CallFits, MarkingOneBlock, RetiredMarked, RetiredKnown,
        MarkFail, Return, NoCall, ecc, Ops
<1>. QED
    BY <1>1, <1>3, <1>4, <1>5

\* Programming adds markers at most; reading changes none.
LEMMA TransferIInv == IInv /\ (ProgramStep \/ ProgramFail \/ ReadStep \/ ReadFail) => IInv'
<1> SUFFICES ASSUME IInv, ProgramStep \/ ProgramFail \/ ReadStep \/ ReadFail PROVE IInv'
    OBVIOUS
<1> USE Geometry DEF GeometryFacts
<1>1. /\ row \in Rows /\ BlkOf(row) \in Blks /\ left \in Nat /\ left > 0 /\ row + left <= NRows
      /\ retired \subseteq bbt
    BY DEF IInv, TypeOK, CallFits, RetiredKnown, ProgramStep, ProgramFail, ReadStep, ReadFail
<1>2. /\ mark \subseteq mark' /\ mark' \subseteq Rows /\ bufOob' \in {"ff", "bad"}
      /\ suspect' \subseteq Blks /\ UNCHANGED <<bbt, type, typeOld, retired>>
    BY <1>1 DEF IInv, TypeOK, ProgramStep, ProgramFail, ReadStep, ReadFail, ProgramMark, ProgramBuf,
        Oob, ecc, ghosts
<1>3. /\ (op' = "idle" /\ row' = 0 /\ left' = 0 /\ part' = {} /\ range' = {} /\ claimed' = {})
         \/ (left # 1 /\ NextRow)
      /\ op \in {"read", "program"}
    BY DEF ProgramStep, ProgramFail, ReadStep, ReadFail, Return, NoCall
<1>4. TypeOK' /\ CallFits' /\ MarkingOneBlock'
    <2>1. CASE left # 1 /\ NextRow
        <3>1. /\ op' = op /\ row' = row + 1 /\ left' = left - 1 /\ part' \subseteq part
              /\ range' = range /\ claimed' = claimed
            BY <2>1 DEF NextRow
        <3>2. row' \in Rows /\ left' \in Nat /\ left' > 0 /\ row' + left' <= NRows
            BY <1>1, <2>1, <3>1
        <3>3. TypeOK'
            BY <1>1, <1>2, <3>1, <3>2 DEF IInv, TypeOK
        <3>. QED
            BY <1>3, <3>1, <3>2, <3>3 DEF CallFits, MarkingOneBlock
    <2>2. CASE ~(left # 1 /\ NextRow)
        <3>1. /\ op' = "idle" /\ row' = 0 /\ left' = 0 /\ part' = {} /\ range' = {}
              /\ claimed' = {}
            BY <2>2, <1>3
        <3>2. TypeOK'
            BY <1>2, <3>1 DEF IInv, TypeOK, Ops
        <3>. QED
            BY <3>1, <3>2 DEF CallFits, MarkingOneBlock
    <2>. QED
        BY <2>1, <2>2
<1>5. RetiredMarked' /\ RetiredKnown'
    BY <1>1, <1>2, <1>3 DEF IInv, RetiredMarked, RetiredKnown, NextRow
<1>. QED
    BY <1>4, <1>5 DEF IInv

LEMMA OffIInv == IInv /\ (ScanFail \/ PowerCut) => IInv'
<1> SUFFICES ASSUME IInv, ScanFail \/ PowerCut PROVE IInv'
    OBVIOUS
<1> USE Geometry, ConfigAssumption, GeometryAssumption DEF GeometryFacts
<1>1. /\ op' = "off" /\ row' = 0 /\ left' = 0 /\ part' = {} /\ range' = {} /\ claimed' = {}
      /\ bbt' = {} /\ bufOob' = "ff" /\ type' = EccType /\ typeOld' = "ECC_NONE"
      /\ UNCHANGED <<mark, retired, suspect>>
    BY DEF ScanFail, PowerCut, NoCall, NoRam, ghosts
<1>2. TypeOK'
    BY <1>1 DEF IInv, TypeOK, Ops, EccTypes
<1>3. CallFits' /\ MarkingOneBlock' /\ RetiredMarked' /\ RetiredKnown'
    BY <1>1 DEF IInv, CallFits, MarkingOneBlock, RetiredMarked, RetiredKnown
<1>. QED
    BY <1>2, <1>3 DEF IInv

LEMMA NextIInv == IInv /\ [Next]_vars => IInv'
<1> SUFFICES ASSUME IInv, [Next]_vars PROVE IInv'
    OBVIOUS
<1>1. CASE UNCHANGED vars
    BY <1>1 DEF vars, IInv, TypeOK, CallFits, MarkingOneBlock, RetiredMarked, RetiredKnown
<1>2. CASE Next
    BY <1>2, SetupIInv, CallIInv, ScanIInv, EraseIInv, MarkIInv, TransferIInv, OffIInv DEF Next, Driver, Failure
<1>. QED
    BY <1>1, <1>2

\* Every reachable state satisfies the inductive invariant.
THEOREM Invariant == Spec => []IInv
BY InitIInv, NextIInv, PTL DEF Spec

\* For every geometry, ECC configuration and pattern of failures, all variables
\* keep their types and no command leaves the chip.
THEOREM TypeCorrect == Spec => []TypeOK
<1>1. IInv => TypeOK
    BY DEF IInv
<1>. QED
    BY <1>1, Invariant, PTL

\* A block that set_bb reported as marked is bad in the table whenever the driver
\* is ready, whatever commands failed and however often power was cut since.
THEOREM RetiredBlocksStayBad == Spec => []RetiredStaysBad
<1>1. IInv => RetiredStaysBad
    BY DEF IInv, RetiredKnown, RetiredStaysBad
<1>. QED
    BY <1>1, Invariant, PTL
-----------------------------------------------------------------------------
\* The first two pages of different blocks are different, and in no other block.
LEMMA Apart ==
    ASSUME NEW b \in Blks, NEW c \in Blks, c # b
    PROVE  /\ FirstRow(c) # FirstRow(b) /\ FirstRow(c) # FirstRow(b) + 1
           /\ FirstRow(c) + 1 # FirstRow(b) /\ FirstRow(c) + 1 # FirstRow(b) + 1
           /\ FirstRow(c) \notin RowsOf(b) /\ FirstRow(c) + 1 \notin RowsOf(b)
BY Geometry DEF GeometryFacts, RowsOf

(* No phantoms: what the table calls bad carries a marker, unless a command
   failed on it.  Nothing here depends on who computes the ECC. *)

BbtMarked == \A b \in bbt \ suspect : Marked(b)

\* Only an erase takes markers away, and it takes the block from the table or,
\* if it fails, makes it suspect.
LEMMA EraseBbtMarked ==
    IInv /\ BbtMarked /\ (EraseStep \/ PreErase \/ EraseFail) => BbtMarked'
<1> SUFFICES ASSUME IInv, BbtMarked, EraseStep \/ PreErase \/ EraseFail PROVE BbtMarked'
    OBVIOUS
<1>0. PICK b \in Blks : b = BlkOf(row)
    BY Geometry DEF GeometryFacts, IInv, TypeOK
<1>1. /\ mark \ RowsOf(b) \subseteq mark' /\ bbt' \subseteq bbt
      /\ suspect \ {b} \subseteq suspect' /\ (b \in suspect' \/ b \notin bbt')
    BY <1>0 DEF EraseStep, PreErase, EraseFail, EraseBlock
<1>2. ASSUME NEW c \in bbt' \ suspect' PROVE Marked(c)'
    <2>1. c \in Blks /\ c # b /\ c \in bbt \ suspect
        BY <1>1, <1>2 DEF IInv, TypeOK
    <2>2. FirstRow(c) \notin RowsOf(b) /\ FirstRow(c) + 1 \notin RowsOf(b) /\ Marked(c)
        BY <2>1, Apart DEF BbtMarked
    <2>. QED
        BY <1>1, <2>2 DEF Marked
<1>. QED
    BY <1>2 DEF BbtMarked

\* A block enters the table when the scan sees its marker or set_bb has put it there.
LEMMA EnterBbtMarked == IInv /\ BbtMarked /\ (ScanPage \/ MarkPage) => BbtMarked'
<1> SUFFICES ASSUME IInv, BbtMarked, ScanPage \/ MarkPage PROVE BbtMarked'
    OBVIOUS
<1> USE Geometry DEF GeometryFacts
<1>1. CASE ScanPage
    <2>1. PICK b \in Blks, p \in {0, 1} : row = FirstRow(b) + p
        BY <1>1 DEF IInv, RetiredKnown, ScanPage
    <2>2. BlkOf(row) = b
        BY <2>1
    <2>3. row \in mark => Marked(b)
        BY <2>1 DEF Marked
    <2>. QED
        BY <1>1, <2>2, <2>3 DEF BbtMarked, Marked, ScanPage, ghosts
<1>2. CASE MarkPage
    <2>1. PICK b \in Blks :
            /\ range = {b} /\ bufOob = "bad"
            /\ \/ left = 2 /\ row = FirstRow(b)
               \/ left = 1 /\ row = FirstRow(b) + 1 /\ FirstRow(b) \in mark
        BY <1>2 DEF IInv, MarkingOneBlock, MarkPage
    <2>2. mark' = mark \union {row}
        BY <1>2, <2>1 DEF MarkPage
    <2>3. CASE left = 2
        BY <1>2, <2>2, <2>3 DEF BbtMarked, Marked, MarkPage, ghosts
    <2>4. CASE left = 1
        <3>1. bbt' = bbt \union {b} /\ suspect' = suspect \ {b} /\ FirstRow(b) \in mark'
            BY <1>2, <2>1, <2>2, <2>4 DEF MarkPage, TableBlk
        <3>. QED
            BY <2>2, <3>1 DEF BbtMarked, Marked
    <2>. QED
        BY <2>1, <2>3, <2>4
<1>. QED
    BY <1>1, <1>2

LEMMA NextBbtMarked == IInv /\ BbtMarked /\ [Next]_vars => BbtMarked'
<1> SUFFICES ASSUME IInv, BbtMarked, [Next]_vars PROVE BbtMarked'
    OBVIOUS
<1>1. CASE UNCHANGED vars
    BY <1>1 DEF vars, BbtMarked, Marked
<1>2. CASE Setup \/ ScanFail \/ PowerCut
    BY <1>2 DEF Setup, ScanFail, PowerCut, NoRam, BbtMarked
<1>3. CASE Application
    BY <1>3 DEF Application, EraseCall, TransferCall, SetBBCall, SetEccEn, Start, ghosts, BbtMarked, Marked
<1>4. CASE ProgramStep \/ ProgramFail \/ MarkFail \/ ReadStep \/ ReadFail
    <2>1. mark \subseteq mark' /\ bbt' = bbt /\ suspect \subseteq suspect'
        BY <1>4 DEF ProgramStep, ProgramFail, MarkFail, ReadStep, ReadFail, ghosts
    <2>. QED
        BY <2>1 DEF BbtMarked, Marked
<1>. QED
    BY <1>1, <1>2, <1>3, <1>4, EraseBbtMarked, EnterBbtMarked DEF Next, Driver, Failure

\* For every geometry and ECC type, software ECC included, a block the table calls
\* bad between calls has its marker on the flash, unless a command failed on it
\* (spinand_scan_bb, spinand_set_bb, spinand_erase).
THEOREM NoPhantoms == Spec => []NoPhantomBad
<1>1. Init => BbtMarked
    BY DEF Init, BbtMarked
<1>2. BbtMarked => NoPhantomBad
    BY DEF BbtMarked, NoPhantomBad
<1>. QED
    BY <1>1, <1>2, NextBbtMarked, Invariant, PTL DEF Spec
-----------------------------------------------------------------------------
(* A call stays in the range the application named. *)

\* The rows a read, program or erase has still to visit are in its blocks.
RowsInRange ==
    op \in {"read", "program", "erase"} =>
        \A i \in Nat : i < left => BlkOf(row + i) \in range

\* Rows in order are in blocks in order.
LEMMA BlkOfOrder ==
    ASSUME NEW r \in Nat, NEW s \in Nat, r <= s
    PROVE  BlkOf(r) \in Nat /\ BlkOf(s) \in Nat /\ BlkOf(r) <= BlkOf(s)
<1> USE GeometryAssumption
<1> DEFINE n == NPages  p == r \div n  q == s \div n
<1>1. n \in Nat /\ n > 0
    OBVIOUS
<1>2. p \in Nat /\ q \in Nat /\ n * p <= r /\ s < n * q + n
    BY <1>1, Z3
<1>3. p <= q
    <2>1. SUFFICES ASSUME q + 1 <= p PROVE FALSE
        BY <1>2
    <2>2. n * (q + 1) <= n * p /\ n * (q + 1) = n * q + n
        BY <2>1, <1>1, <1>2, Z3
    <2>. QED
        BY <2>2, <1>1, <1>2
<1>. QED
    BY <1>2, <1>3 DEF BlkOf

\* Before a first row come rows of earlier blocks only.
LEMMA BlkOfBefore ==
    ASSUME NEW r \in Nat, NEW s \in Nat, r < s, s % NPages = 0
    PROVE  BlkOf(r) < BlkOf(s)
<1> USE GeometryAssumption
<1> DEFINE n == NPages  p == r \div n  q == s \div n
<1>1. n \in Nat /\ n > 0
    OBVIOUS
<1>2. p \in Nat /\ q \in Nat /\ n * p <= r /\ s = n * q
    BY <1>1, Z3
<1>3. p < q
    <2>1. SUFFICES ASSUME q <= p PROVE FALSE
        BY <1>2
    <2>2. n * q <= n * p
        BY <2>1, <1>1, <1>2, Z3
    <2>. QED
        BY <2>2, <1>1, <1>2
<1>. QED
    BY <1>2, <1>3 DEF BlkOf

\* The range checks put every row a call will visit into its blocks.
LEMMA CallInRange == IInv /\ RowsInRange /\ Application => RowsInRange'
<1> SUFFICES ASSUME IInv, RowsInRange, Application PROVE RowsInRange'
    OBVIOUS
<1>1. ASSUME NEW s \in Spans, EraseCall(s[1], s[2]) PROVE RowsInRange'
    <2> DEFINE r == s[1]  n == s[2]
    <2>1. r \in Nat /\ n \in Nat /\ n > 0 /\ r + n <= NRows /\ r % NPages = 0 /\ n % NPages = 0
        BY <1>1, ConfigAssumption, Geometry, SMT DEF GeometryFacts, EraseCall, OutOfChip
    <2>2. n \div NPages \in Nat /\ n \div NPages <= n /\ (r + n) % NPages = 0
        <3> DEFINE q == n \div NPages  p == r \div NPages
        <3>1. NPages \in Nat /\ NPages > 0
            BY GeometryAssumption
        <3>2. q \in Nat /\ p \in Nat /\ n = NPages * q /\ r = NPages * p
            <4>1. q \in Nat /\ p \in Nat /\ n = FirstRow(q) /\ r = FirstRow(p)
                BY <2>1, Aligned
            <4>. QED
                BY <3>1, <4>1, Z3 DEF FirstRow
        <3>3. NPages * q >= 1 * q
            BY <3>1, <3>2, Z3
        <3>4. r + n = NPages * (p + q)
            BY <3>1, <3>2, Z3
        <3>5. (NPages * (p + q)) % NPages = 0
            BY <3>1, <3>2, Z3
        <3>. QED
            BY <3>2, <3>3, <3>4, <3>5
    <2>3. ASSUME NEW i \in Nat, i < n \div NPages
          PROVE  BlkOf(r + i) \in {b \in Blks : BlkOf(r) <= b /\ b < BlkOf(r + n)}
        <3>1. r + i \in Nat /\ r <= r + i /\ r + i < r + n /\ r + n \in Nat /\ r + i < NRows
            BY <2>1, <2>2, <2>3, Geometry DEF GeometryFacts
        <3>2. BlkOf(r + i) \in Blks
            BY <3>1, Geometry DEF GeometryFacts
        <3>3. BlkOf(r) <= BlkOf(r + i)
            BY <2>1, <3>1, BlkOfOrder
        <3>4. BlkOf(r + i) < BlkOf(r + n)
            BY <2>2, <3>1, BlkOfBefore
        <3>. QED
            BY <3>2, <3>3, <3>4
    <2>4. /\ row' = r /\ left' = n \div NPages
          /\ range' = {b \in Blks : BlkOf(r) <= b /\ b < BlkOf(r + n)}
        BY <1>1 DEF EraseCall, Start
    <2>. QED
        BY <2>3, <2>4 DEF RowsInRange
<1>2. ASSUME NEW name \in {"read", "program"}, NEW s \in Spans, NEW ends \in SUBSET Ends,
             TransferCall(name, s[1], s[2], ends)
      PROVE  RowsInRange'
    <2> DEFINE r == s[1]  n == s[2]
    <2>1. r \in Nat /\ n \in Nat /\ n > 0 /\ r + n <= NRows
        BY <1>2, ConfigAssumption, Geometry, SMT DEF GeometryFacts, TransferCall, OutOfChip
    <2>2. ASSUME NEW i \in Nat, i < n
          PROVE  BlkOf(r + i) \in {b \in Blks : BlkOf(r) <= b /\ b <= BlkOf(r + n - 1)}
        <3>1. /\ r + i \in Nat /\ r <= r + i /\ r + i <= r + n - 1 /\ r + n - 1 \in Nat
              /\ r + i < NRows
            BY <2>1, <2>2, Geometry DEF GeometryFacts
        <3>2. BlkOf(r + i) \in Blks
            BY <3>1, Geometry DEF GeometryFacts
        <3>3. BlkOf(r) <= BlkOf(r + i) /\ BlkOf(r + i) <= BlkOf(r + n - 1)
            BY <2>1, <3>1, BlkOfOrder
        <3>. QED
            BY <3>2, <3>3
    <2>3. /\ row' = r /\ left' = n
          /\ range' = {b \in Blks : BlkOf(r) <= b /\ b <= BlkOf(r + n - 1)}
        BY <1>2 DEF TransferCall, Start
    <2>. QED
        BY <2>2, <2>3 DEF RowsInRange
<1>3. ASSUME NEW r \in Rows, NEW preErase \in BOOLEAN, SetBBCall(r, preErase)
      PROVE  RowsInRange'
    BY <1>3 DEF SetBBCall, Start, RowsInRange
<1>4. ASSUME NEW en \in BOOLEAN, SetEccEn(en) PROVE RowsInRange'
    BY <1>4 DEF SetEccEn, call, RowsInRange
<1>. QED
    BY <1>1, <1>2, <1>3, <1>4 DEF Application

\* The next row of the same call is one of those that were left.
LEMMA NextRowInRange ==
    IInv /\ RowsInRange /\ op \in {"read", "program", "erase"} /\ NextRow => RowsInRange'
<1> SUFFICES ASSUME IInv, RowsInRange, op \in {"read", "program", "erase"}, NextRow
             PROVE  RowsInRange'
    OBVIOUS
<1>1. row \in Nat /\ left \in Nat
    BY Geometry DEF GeometryFacts, IInv, TypeOK
<1>2. ASSUME NEW i \in Nat, i < left - 1 PROVE BlkOf((row + 1) + i) \in range
    <2>1. i + 1 \in Nat /\ i + 1 < left /\ (row + 1) + i = row + (i + 1)
        BY <1>1, <1>2
    <2>. QED
        BY <2>1 DEF RowsInRange
<1>. QED
    BY <1>2 DEF RowsInRange, NextRow

LEMMA NextRowsInRange == IInv /\ RowsInRange /\ [Next]_vars => RowsInRange'
<1> SUFFICES ASSUME IInv, RowsInRange, [Next]_vars PROVE RowsInRange'
    OBVIOUS
<1>1. CASE UNCHANGED vars
    BY <1>1 DEF vars, RowsInRange
<1>2. CASE Setup \/ ScanPage \/ PreErase \/ MarkPage \/ Failure \/ PowerCut
    <2>1. op' \notin {"read", "program", "erase"}
        BY <1>2 DEF Setup, ScanPage, PreErase, MarkPage, NextRow, Failure, ScanFail, EraseFail, MarkFail,
            ProgramFail, ReadFail, PowerCut, Return, NoCall
    <2>. QED
        BY <2>1 DEF RowsInRange
<1>3. CASE EraseStep \/ ProgramStep \/ ReadStep
    <2>1. op \in {"read", "program", "erase"} /\ (op' = "idle" \/ NextRow)
        BY <1>3 DEF EraseStep, ProgramStep, ReadStep, Return, NoCall
    <2>2. op' = "idle" => RowsInRange'
        BY DEF RowsInRange
    <2>. QED
        BY <2>1, <2>2, NextRowInRange
<1>. QED
    BY <1>1, <1>2, <1>3, CallInRange DEF Next, Driver

\* What a step of a call changes is in its range.
LEMMA StepInRange ==
    ASSUME IInv, RowsInRange, [Next]_vars, op \notin {"off", "probe"}, op' # "off",
           NEW b \in Blks \ range
    PROVE  (b \in bbt' <=> b \in bbt) /\ mark' \intersect RowsOf(b) = mark \intersect RowsOf(b)
<1> USE Geometry DEF GeometryFacts
<1>1. CASE UNCHANGED vars \/ Application \/ ReadStep \/ ReadFail
    BY <1>1 DEF vars, Application, EraseCall, TransferCall, SetBBCall, SetEccEn, Start, ReadStep, ReadFail
<1>2. CASE EraseStep \/ ProgramStep \/ ProgramFail \/ PreErase \/ MarkPage \/ MarkFail \/ EraseFail
    <2>1. BlkOf(row) \in range /\ row \in Rows /\ (op = "mark" /\ left = 1 => TableBlk(row) \in range)
        <3>1. CASE op \in {"program", "erase"}
            <4>1. 0 < left /\ row + 0 = row
                BY <3>1 DEF IInv, TypeOK, CallFits
            <4>. QED
                BY <3>1, <4>1 DEF RowsInRange, IInv, TypeOK
        <3>2. CASE op \in {"pre_erase", "mark"}
            BY <3>2 DEF IInv, TypeOK, MarkingOneBlock, TableBlk
        <3>. QED
            BY <1>2, <3>1, <3>2 DEF EraseStep, ProgramStep, ProgramFail, PreErase, MarkPage, MarkFail, EraseFail
    <2>2. bbt' \ {BlkOf(row), TableBlk(row)} = bbt \ {BlkOf(row), TableBlk(row)}
          /\ (bbt' \ {BlkOf(row)} = bbt \ {BlkOf(row)} \/ (op = "mark" /\ left = 1))
        BY <1>2 DEF EraseStep, EraseBlock, ProgramStep, ProgramFail, PreErase, MarkPage, MarkFail, EraseFail
    <2>3. \A r \in Rows : BlkOf(r) # BlkOf(row) => (r \in mark' <=> r \in mark)
        BY <1>2, <2>1 DEF EraseStep, EraseBlock, ProgramStep, ProgramFail, ProgramMark, PreErase, MarkPage,
            MarkFail, EraseFail, RowsOf
    <2>. QED
        BY <2>1, <2>2, <2>3 DEF RowsOf
<1>3. ~(Setup \/ ScanPage \/ ScanFail \/ PowerCut)
    BY DEF Setup, ScanPage, ScanFail, PowerCut, NoCall
<1>. QED
    BY <1>1, <1>2, <1>3 DEF Next, Driver, Failure

\* For every geometry, ECC type and set of calls, no call of the driver changes a
\* marker or a bit of the table outside the blocks the application named, whether
\* its commands succeed or fail.
THEOREM CallsStayInRange == Spec => OnlyRangeTouched
<1>1. Init => RowsInRange
    BY DEF Init, RowsInRange
<1>2. IInv /\ RowsInRange /\ [Next]_vars =>
        [op \notin {"off", "probe"} /\ op' # "off" =>
         \A b \in Blks \ range :
            /\ b \in bbt' <=> b \in bbt
            /\ mark' \intersect RowsOf(b) = mark \intersect RowsOf(b)]_vars
    BY StepInRange
<1>. QED
    BY <1>1, <1>2, NextRowsInRange, Invariant, PTL DEF Spec, OnlyRangeTouched
-----------------------------------------------------------------------------
(* The table without software ECC *)

\* Software ECC is never switched on if it is not built in.
NoSwType == type # "ECC_SW_BCH" /\ typeOld # "ECC_SW_BCH"

\* Outside the probe the table agrees with the markers, but for the block whose
\* first page set_bb has just marked, and for suspect blocks.
TableAgrees ==
    op \notin {"off", "probe"} =>
        \A b \in Blks \ suspect :
            /\ b \in bbt => Marked(b)
            /\ Marked(b) => b \in bbt \/ (op = "mark" /\ left = 1 /\ b \in range)

\* The scan: behind it the table agrees, ahead it is empty, and nothing is
\* suspect.
ScanAgrees ==
    op = "probe" =>
      /\ suspect = {}
      /\ \E b \in Blks, p \in {0, 1} :
            /\ row = FirstRow(b) + p
            /\ p = 1 => FirstRow(b) \notin mark
            /\ \A c \in Blks : /\ c < b => (c \in bbt <=> Marked(c))
                               /\ c >= b => c \notin bbt

TInv == NoSwType /\ TableAgrees /\ ScanAgrees

\* Both are in their own.
LEMMA Within ==
    ASSUME NEW b \in Blks
    PROVE  FirstRow(b) \in RowsOf(b) /\ FirstRow(b) + 1 \in RowsOf(b)
BY Geometry DEF GeometryFacts, RowsOf

LEMMA InitTInv == EccType # "ECC_SW_BCH" /\ Init => TInv
BY DEF Init, TInv, NoSwType, TableAgrees, ScanAgrees

LEMMA SetupTInv == EccType # "ECC_SW_BCH" /\ IInv /\ Setup => TInv'
<1> SUFFICES ASSUME EccType # "ECC_SW_BCH", Setup PROVE TInv'
    OBVIOUS
<1> USE Geometry DEF GeometryFacts
<1>1. NoSwType' /\ TableAgrees'
    BY DEF Setup, NoSwType, TableAgrees
<1>2. suspect' = {} /\ 0 \in Blks /\ row' = FirstRow(0) + 0 /\ bbt' = {} /\ \A c \in Blks : ~(c < 0)
    BY DEF Setup
<1>3. ScanAgrees'
    BY <1>2 DEF ScanAgrees
<1>. QED
    BY <1>1, <1>3 DEF TInv

LEMMA CallTInv == TInv /\ Application => TInv'
<1> SUFFICES ASSUME TInv, Application PROVE TInv'
    OBVIOUS
<1>1. op = "idle" /\ UNCHANGED <<mark, bbt, suspect>>
    BY DEF Application, EraseCall, TransferCall, SetBBCall, SetEccEn, Start, call, ghosts
<1>2. op' # "probe"
    BY DEF Application, EraseCall, TransferCall, SetBBCall, SetEccEn, Start, call
<1>3. NoSwType'
    BY DEF TInv, NoSwType, Application, EraseCall, TransferCall, SetBBCall, SetEccEn, Start, ecc
<1>4. TableAgrees' /\ ScanAgrees'
    BY <1>1, <1>2 DEF TInv, TableAgrees, ScanAgrees, Marked
<1>. QED
    BY <1>3, <1>4 DEF TInv

\* One page of the scan.
LEMMA ScanTInv == IInv /\ TInv /\ ScanPage => TInv'
<1> SUFFICES ASSUME IInv, TInv, ScanPage PROVE TInv'
    OBVIOUS
<1> USE Geometry DEF GeometryFacts
<1>1. PICK b \in Blks, p \in {0, 1} :
            /\ row = FirstRow(b) + p
            /\ p = 1 => FirstRow(b) \notin mark
            /\ \A c \in Blks : /\ c < b => (c \in bbt <=> Marked(c))
                               /\ c >= b => c \notin bbt
    BY DEF TInv, ScanAgrees, ScanPage
<1>2. suspect = {} /\ BlkOf(row) = b /\ UNCHANGED <<mark, type, typeOld, suspect>>
      /\ \A c \in Blks : c # b => (c \in bbt' <=> c \in bbt)
    BY <1>1 DEF TInv, ScanAgrees, ScanPage, ecc, ghosts
<1>3. NoSwType' /\ \A c \in Blks : Marked(c)' <=> Marked(c)
    BY <1>2 DEF TInv, NoSwType, Marked
<1>4. CASE row = FirstRow(b) /\ row \notin mark
    <2>1. ScanNext(row) = FirstRow(b) + 1 /\ ScanNext(row) < ScanEnd
        BY <1>2, <1>4 DEF ScanNext, ScanEnd
    <2>2. op' = "probe" /\ row' = FirstRow(b) + 1 /\ FirstRow(b) \notin mark' /\ bbt' = bbt
        BY <2>1, <1>2, <1>4 DEF ScanPage, ScanEnd
    <2>3. TableAgrees' /\ ScanAgrees'
        BY <2>2, <1>1, <1>2, <1>3 DEF TableAgrees, ScanAgrees
    <2>. QED
        BY <1>3, <2>3 DEF TInv
<1>5. CASE ~(row = FirstRow(b) /\ row \notin mark)
    <2>1. b \in bbt' <=> Marked(b)
        <3>1. CASE row \in mark
            BY <3>1, <1>1, <1>2 DEF ScanPage, Marked
        <3>2. CASE row \notin mark
            <4>1. p = 1 /\ ~Marked(b)
                BY <3>2, <1>1, <1>5 DEF Marked
            <4>2. b \notin bbt
                BY <1>1
            <4>. QED
                BY <4>1, <4>2, <3>2 DEF ScanPage
        <3>. QED
            BY <3>1, <3>2
    <2>2. \A c \in Blks : c < b + 1 => (c \in bbt' <=> Marked(c))
        <3>1. ASSUME NEW c \in Blks, c < b + 1 PROVE c \in bbt' <=> Marked(c)
            <4>1. c < b \/ c = b
                BY <3>1
            <4>. QED
                BY <4>1, <1>1, <1>2, <2>1
        <3>. QED
            BY <3>1
    <2>3. ScanNext(row) = FirstRow(b + 1)
        BY <1>2, <1>5 DEF ScanNext
    <2>4. CASE ScanNext(row) >= ScanEnd
        <3>1. b + 1 \notin Blks /\ op' = "idle"
            BY <2>3, <2>4 DEF ScanEnd, ScanPage, Return, NoCall
        <3>2. \A c \in Blks : c \in bbt' <=> Marked(c)
            BY <3>1, <2>2
        <3>. QED
            BY <3>1, <3>2, <1>3 DEF TInv, TableAgrees, ScanAgrees
    <2>5. CASE ~(ScanNext(row) >= ScanEnd)
        <3>1. op' = "probe" /\ row' = FirstRow(b + 1)
            BY <2>3, <2>5 DEF ScanPage
        <3>2. b + 1 \in Blks /\ row' = FirstRow(b + 1) + 0
            <4>1. FirstRow(b + 1) < NRows
                <5>1. b + 1 \in Nat /\ NPages \in Nat
                    BY GeometryAssumption
                <5>2. FirstRow(b + 1) \in Nat
                    BY <5>1, Z3 DEF FirstRow
                <5>. QED
                    BY <5>2, <2>3, <2>5 DEF ScanEnd
            <4>2. b + 1 \in Blks
                BY <4>1
            <4>. QED
                BY <4>2, <3>1
        <3>3. \A c \in Blks : c >= b + 1 => c \notin bbt'
            BY <1>1, <1>2
        <3>4. TableAgrees' /\ ScanAgrees'
            BY <3>1, <3>2, <3>3, <2>2, <1>2, <1>3 DEF TableAgrees, ScanAgrees
        <3>. QED
            BY <1>3, <3>4 DEF TInv
    <2>. QED
        BY <2>4, <2>5
<1>. QED
    BY <1>4, <1>5

\* Erasing block b, even in part, changes the marking of no other block.
LEMMA ErasedMarks ==
    ASSUME NEW b \in Blks, NEW c \in Blks, c # b,
           mark \ RowsOf(b) \subseteq mark', mark' \subseteq mark
    PROVE  Marked(c)' <=> Marked(c)
BY Apart DEF Marked

LEMMA EraseTInv == IInv /\ TInv /\ (EraseStep \/ PreErase \/ EraseFail) => TInv'
<1> SUFFICES ASSUME IInv, TInv, EraseStep \/ PreErase \/ EraseFail PROVE TInv'
    OBVIOUS
<1>0. PICK b \in Blks : b = BlkOf(row)
    BY Geometry DEF GeometryFacts, IInv, TypeOK
<1>1. op \in {"erase", "pre_erase"}
    BY Geometry DEF GeometryFacts, IInv, TypeOK, EraseStep, PreErase, EraseFail
<1>2. mark \ RowsOf(b) \subseteq mark' /\ mark' \subseteq mark /\ UNCHANGED <<type, typeOld>>
    BY <1>0 DEF EraseStep, PreErase, EraseFail, EraseBlock, ecc
<1>3. \A c \in Blks \ {b} : Marked(c)' <=> Marked(c)
    BY <1>1, <1>2, ErasedMarks
<1>4. \A c \in Blks \ suspect : c \in bbt <=> Marked(c)
    BY <1>1 DEF TInv, TableAgrees
<1>5. op' # "probe" /\ ~(op' = "mark" /\ left' = 1)
    <2>1. CASE PreErase
        BY <2>1 DEF IInv, MarkingOneBlock, PreErase
    <2>2. CASE EraseStep \/ EraseFail
        BY <2>2 DEF EraseStep, EraseFail, Return, NoCall, NextRow
    <2>. QED
        BY <2>1, <2>2
<1>6. \A c \in Blks \ suspect' : c \in bbt' <=> Marked(c)'
    <2>1. CASE EraseStep \/ PreErase
        <3>1. mark' = mark \ RowsOf(b) /\ bbt' = bbt \ {b} /\ suspect' = suspect \ {b}
            BY <1>0, <2>1 DEF EraseStep, PreErase, EraseBlock
        <3>2. ~(Marked(b)') /\ b \notin bbt'
            BY <3>1, Within DEF Marked
        <3>. QED
            BY <3>1, <3>2, <1>3, <1>4
    <2>2. CASE EraseFail
        <3>1. bbt' = bbt /\ suspect' = suspect \union {b}
            BY <1>0, <2>2 DEF EraseFail
        <3>. QED
            BY <3>1, <1>3, <1>4
    <2>. QED
        BY <2>1, <2>2
<1>7. NoSwType' /\ TableAgrees' /\ ScanAgrees'
    BY <1>2, <1>5, <1>6 DEF TInv, NoSwType, TableAgrees, ScanAgrees
<1>. QED
    BY <1>7 DEF TInv

\* Marking block b changes the marking of no other block.
LEMMA MarkTInv == IInv /\ TInv /\ (MarkPage \/ MarkFail) => TInv'
<1> SUFFICES ASSUME IInv, TInv, MarkPage \/ MarkFail PROVE TInv'
    OBVIOUS
<1> USE Geometry DEF GeometryFacts
<1>1. PICK b \in Blks :
            /\ range = {b} /\ bufOob = "bad"
            /\ \/ left = 2 /\ row = FirstRow(b)
               \/ left = 1 /\ row = FirstRow(b) + 1 /\ FirstRow(b) \in mark
    BY DEF IInv, MarkingOneBlock, MarkPage, MarkFail
<1>2. op = "mark" /\ UNCHANGED <<type, typeOld>> /\ mark \subseteq mark'
      /\ mark' \subseteq mark \union {row}
    BY DEF MarkPage, MarkFail, ecc
<1>3. \A c \in Blks \ {b} : Marked(c)' <=> Marked(c)
    BY <1>1, <1>2, Apart DEF Marked
<1>4. /\ \A c \in Blks \ suspect : c # b => (c \in bbt <=> Marked(c))
      /\ b \notin suspect /\ b \in bbt => Marked(b)
    <2>1. \A c \in Blks \ suspect :
             /\ c \in bbt => Marked(c)
             /\ Marked(c) => c \in bbt \/ (op = "mark" /\ left = 1 /\ c \in range)
        BY <1>2 DEF TInv, TableAgrees
    <2>. QED
        BY <2>1, <1>1 DEF Marked
<1>5. NoSwType' /\ op' # "probe"
    BY <1>2 DEF TInv, NoSwType, MarkPage, MarkFail, Return, NoCall, NextRow
<1>6. CASE MarkPage /\ left = 2
    <2>1. /\ op' = "mark" /\ left' = 1 /\ range' = {b} /\ row = FirstRow(b)
          /\ mark' = mark \union {row} /\ UNCHANGED <<bbt, suspect>>
        BY <1>1, <1>6, <1>2 DEF MarkPage, NextRow, ghosts
    <2>2. Marked(b)'
        BY <2>1 DEF Marked
    <2>3. TableAgrees'
        <3>1. ASSUME NEW c \in Blks \ suspect'
              PROVE  (c \in bbt' => Marked(c)') /\ (Marked(c)' => c \in bbt' \/ c = b)
            <4>1. CASE c = b
                BY <4>1, <2>2
            <4>2. CASE c # b
                BY <4>2, <2>1, <1>3, <1>4
            <4>. QED
                BY <4>1, <4>2
        <3>. QED
            BY <3>1, <2>1 DEF TableAgrees
    <2>. QED
        BY <2>1, <2>3, <1>5 DEF TInv, ScanAgrees
<1>7. CASE MarkPage /\ left = 1
    <2>1. bbt' = bbt \union {b} /\ suspect' = suspect \ {b} /\ op' = "idle"
        BY <1>1, <1>7 DEF MarkPage, TableBlk, Return, NoCall
    <2>2. Marked(b)'
        BY <1>1, <1>2, <1>7 DEF Marked
    <2>3. TableAgrees'
        <3>1. ASSUME NEW c \in Blks \ suspect'
              PROVE  c \in bbt' <=> Marked(c)'
            <4>1. CASE c = b
                BY <4>1, <2>1, <2>2
            <4>2. CASE c # b
                BY <4>2, <2>1, <1>3, <1>4
            <4>. QED
                BY <4>1, <4>2
        <3>. QED
            BY <3>1 DEF TableAgrees
    <2>. QED
        BY <2>1, <2>3, <1>5 DEF TInv, ScanAgrees
<1>8. CASE MarkFail
    <2>1. bbt' = bbt /\ suspect' = suspect \union {b} /\ op' = "idle"
        BY <1>1, <1>8 DEF MarkFail, Return, NoCall
    <2>2. TableAgrees'
        <3>1. ASSUME NEW c \in Blks \ suspect'
              PROVE  c \in bbt' <=> Marked(c)'
            BY <2>1, <1>3, <1>4
        <3>. QED
            BY <3>1 DEF TableAgrees
    <2>. QED
        BY <2>1, <2>2, <1>5 DEF TInv, ScanAgrees
<1>. QED
    BY <1>1, <1>6, <1>7, <1>8

\* Without software ECC a transfer moves no marker.
LEMMA TransferTInv == TInv /\ (ProgramStep \/ ProgramFail \/ ReadStep \/ ReadFail) => TInv'
<1> SUFFICES ASSUME TInv, ProgramStep \/ ProgramFail \/ ReadStep \/ ReadFail PROVE TInv'
    OBVIOUS
<1>1. ProgramMark = {}
    BY DEF TInv, NoSwType, ProgramMark, SW
<1>2. UNCHANGED <<mark, bbt, suspect, type, typeOld>>
    BY <1>1 DEF ProgramStep, ProgramFail, ReadStep, ReadFail, ecc, ghosts
<1>3. op \in {"read", "program"} /\ op' \in {"read", "program", "idle"}
    BY DEF ProgramStep, ProgramFail, ReadStep, ReadFail, Return, NoCall, NextRow
<1>4. NoSwType' /\ TableAgrees' /\ ScanAgrees'
    BY <1>2, <1>3 DEF TInv, NoSwType, TableAgrees, ScanAgrees, Marked
<1>. QED
    BY <1>4 DEF TInv

LEMMA OffTInv == EccType # "ECC_SW_BCH" /\ (ScanFail \/ PowerCut) => TInv'
BY DEF ScanFail, PowerCut, NoCall, NoRam, TInv, NoSwType, TableAgrees, ScanAgrees

LEMMA NextTInv == EccType # "ECC_SW_BCH" /\ IInv /\ TInv /\ [Next]_vars => TInv'
<1> SUFFICES ASSUME EccType # "ECC_SW_BCH", IInv, TInv, [Next]_vars PROVE TInv'
    OBVIOUS
<1>1. CASE UNCHANGED vars
    BY <1>1 DEF vars, TInv, NoSwType, TableAgrees, ScanAgrees, Marked
<1>2. CASE Next
    BY <1>2, SetupTInv, CallTInv, ScanTInv, EraseTInv, MarkTInv, TransferTInv, OffTInv DEF Next, Driver, Failure
<1>. QED
    BY <1>1, <1>2

LEMMA TableInvariant == ASSUME EccType # "ECC_SW_BCH" PROVE Spec => []TInv
<1>1. Init => TInv
    BY InitTInv
<1>2. IInv /\ TInv /\ [Next]_vars => TInv'
    BY NextTInv
<1>. QED
    BY <1>1, <1>2, Invariant, PTL DEF Spec

\* Without software ECC, between calls the table says what a scan would find,
\* except on blocks where a command failed since the last probe.
THEOREM TableMatchesFlash == ASSUME EccType # "ECC_SW_BCH" PROVE Spec => []BbtMatchesFlash
<1>1. TInv => BbtMatchesFlash
    BY DEF TInv, TableAgrees, BbtMatchesFlash
<1>. QED
    BY <1>1, TableInvariant, PTL
-----------------------------------------------------------------------------
(* The refinement: one lemma per group of actions. *)

Known   == IF Ready THEN bbt ELSE {}
Marking == IF op = "mark" /\ left = 1 THEN range ELSE {}
Unsure  == IF Ready THEN suspect ELSE {}

\* The abstract variables do not change.
Stutter == UNCHANGED <<MarkedBlks, Ready, Known, Marking, Unsure>>

LEMMA InitRefines == Init => Manager!Init
BY DEF Init, Manager!Init, MarkedBlks, Ready

\* Calls, the steps of the scan but the last, and transfers do nothing visible.
LEMMA QuietRefines ==
    ASSUME IInv, TInv,
           \/ Setup \/ Application \/ UNCHANGED vars
           \/ ProgramStep \/ ProgramFail \/ ReadStep \/ ReadFail
    PROVE  Stutter
<1>1. CASE Setup
    BY <1>1 DEF Setup, Stutter, MarkedBlks, Marked, Ready, Known, Marking, Unsure
<1>2. CASE Application
    <2>1. op = "idle" /\ op' \notin {"off", "probe"} /\ UNCHANGED <<mark, bbt, suspect>>
          /\ ~(op' = "mark" /\ left' = 1)
        BY <1>2 DEF Application, EraseCall, TransferCall, SetBBCall, SetEccEn, Start, call, ghosts
    <2>. QED
        BY <2>1 DEF Stutter, MarkedBlks, Marked, Ready, Known, Marking, Unsure
<1>3. CASE UNCHANGED vars
    BY <1>3 DEF vars, Stutter, MarkedBlks, Marked, Ready, Known, Marking, Unsure
<1>4. CASE ProgramStep \/ ProgramFail \/ ReadStep \/ ReadFail
    <2>1. ProgramMark = {}
        BY DEF TInv, NoSwType, ProgramMark, SW
    <2>2. UNCHANGED <<mark, bbt, suspect>>
        BY <1>4, <2>1 DEF ProgramStep, ProgramFail, ReadStep, ReadFail, ghosts
    <2>3. op \in {"read", "program"} /\ op' \in {"read", "program", "idle"}
        BY <1>4 DEF ProgramStep, ProgramFail, ReadStep, ReadFail, Return, NoCall, NextRow
    <2>. QED
        BY <2>2, <2>3 DEF Stutter, MarkedBlks, Marked, Ready, Known, Marking, Unsure
<1>. QED
    BY <1>1, <1>2, <1>3, <1>4

LEMMA ScanRefines ==
    ASSUME IInv', TInv, TInv', ScanPage
    PROVE  Stutter \/ Manager!Probe
<1>1. op = "probe" /\ suspect' = {} /\ UNCHANGED <<mark, suspect>>
    BY DEF TInv, ScanAgrees, ScanPage, ghosts
<1>2. MarkedBlks' = MarkedBlks
    BY <1>1 DEF MarkedBlks, Marked
<1>3. CASE op' = "probe"
    BY <1>1, <1>2, <1>3 DEF Stutter, Ready, Known, Marking, Unsure
<1>4. CASE op' = "idle"
    <2>1. \A b \in Blks : b \in bbt' <=> Marked(b)'
        BY <1>1, <1>4 DEF TInv, TableAgrees
    <2>2. bbt' = MarkedBlks'
        BY <2>1 DEF MarkedBlks, IInv, TypeOK
    <2>. QED
        BY <1>1, <1>2, <1>4, <2>2 DEF Manager!Probe, Ready
<1>. QED
    BY <1>1, <1>3, <1>4 DEF ScanPage, Return, NoCall

LEMMA EraseRefines ==
    ASSUME IInv, TInv, TInv', EraseStep \/ PreErase \/ EraseFail
    PROVE  \E b \in Blks : Manager!Erase(b) \/ Manager!Fail(b)
<1>1. PICK b \in Blks : b = BlkOf(row)
    BY Geometry DEF GeometryFacts, IInv, TypeOK
<1>2. Ready /\ Ready' /\ op # "mark" /\ ~(op' = "mark" /\ left' = 1)
    <2>1. CASE PreErase
        BY <2>1 DEF IInv, MarkingOneBlock, PreErase, Ready
    <2>2. CASE EraseStep \/ EraseFail
        BY <2>2 DEF EraseStep, EraseFail, Return, NoCall, NextRow, Ready
    <2>. QED
        BY <2>1, <2>2
<1>3. mark \ RowsOf(b) \subseteq mark' /\ mark' \subseteq mark
    BY <1>1 DEF EraseStep, PreErase, EraseFail, EraseBlock
<1>4. \A c \in Blks \ {b} : Marked(c)' <=> Marked(c)
    BY <1>3, ErasedMarks
<1>5. Marked(b)' => Marked(b)
    BY <1>3 DEF Marked
<1>6. CASE EraseStep \/ PreErase
    <2>1. mark' = mark \ RowsOf(b) /\ bbt' = bbt \ {b} /\ suspect' = suspect \ {b}
        BY <1>1, <1>6 DEF EraseStep, PreErase, EraseBlock
    <2>2. ~(Marked(b)')
        BY <2>1, Within DEF Marked
    <2>3. MarkedBlks' = MarkedBlks \ {b}
        BY <1>4, <2>2 DEF MarkedBlks
    <2>. QED
        BY <1>2, <2>1, <2>3 DEF Manager!Erase
<1>7. CASE EraseFail
    <2>1. bbt' = bbt /\ suspect' = suspect \union {b}
        BY <1>1, <1>7 DEF EraseFail
    <2>2. MarkedBlks' \in {MarkedBlks, MarkedBlks \ {b}}
        BY <1>4, <1>5 DEF MarkedBlks
    <2>. QED
        BY <1>2, <2>1, <2>2 DEF Manager!Fail
<1>. QED
    BY <1>6, <1>7

LEMMA MarkRefines ==
    ASSUME IInv, TInv, MarkPage \/ MarkFail
    PROVE  \E b \in Blks : Manager!PutMark(b) \/ Manager!Report(b) \/ Manager!Fail(b)
<1>1. PICK b \in Blks :
            /\ range = {b} /\ bufOob = "bad"
            /\ \/ left = 2 /\ row = FirstRow(b)
               \/ left = 1 /\ row = FirstRow(b) + 1 /\ FirstRow(b) \in mark
    BY DEF IInv, MarkingOneBlock, MarkPage, MarkFail
<1>2. op = "mark" /\ mark \subseteq mark' /\ mark' \subseteq mark \union {row}
      /\ Ready /\ Ready'
    BY DEF MarkPage, MarkFail, Return, NoCall, NextRow, Ready
<1>3. \A c \in Blks \ {b} : Marked(c)' <=> Marked(c)
    BY <1>1, <1>2, Apart DEF Marked
<1>4. Marked(b) => Marked(b)'
    BY <1>2 DEF Marked
<1>5. CASE MarkPage /\ left = 2
    <2>1. op' = "mark" /\ left' = 1 /\ range' = {b} /\ UNCHANGED <<bbt, suspect>>
          /\ mark' = mark \union {FirstRow(b)}
        BY <1>1, <1>5 DEF MarkPage, NextRow, ghosts
    <2>2. Marked(b)'
        BY <2>1 DEF Marked
    <2>3. MarkedBlks' = MarkedBlks \union {b}
        BY <1>3, <2>2 DEF MarkedBlks
    <2>. QED
        BY <1>2, <1>5, <2>1, <2>3 DEF Manager!PutMark
<1>6. CASE MarkPage /\ left = 1
    <2>1. op' = "idle" /\ bbt' = bbt \union {b} /\ suspect' = suspect \ {b}
        BY Geometry, <1>1, <1>6 DEF GeometryFacts, MarkPage, TableBlk, Return, NoCall
    <2>2. Marked(b) /\ Marked(b)'
        BY <1>1, <1>2, <1>6 DEF Marked
    <2>3. MarkedBlks' = MarkedBlks
        BY <1>3, <2>2 DEF MarkedBlks
    <2>. QED
        BY <1>1, <1>2, <1>6, <2>1, <2>3 DEF Manager!Report
<1>7. CASE MarkFail
    <2>1. op' = "idle" /\ bbt' = bbt /\ suspect' = suspect \union {b}
        BY <1>1, <1>7 DEF MarkFail, Return, NoCall
    <2>2. MarkedBlks' \in {MarkedBlks, MarkedBlks \union {b}}
        BY <1>3, <1>4 DEF MarkedBlks
    <2>. QED
        BY <1>1, <1>2, <2>1, <2>2 DEF Manager!Fail
<1>. QED
    BY <1>1, <1>5, <1>6, <1>7

LEMMA OffRefines == ScanFail \/ PowerCut => Manager!Off
<1> SUFFICES ASSUME ScanFail \/ PowerCut PROVE Manager!Off
    OBVIOUS
<1>1. op' = "off" /\ mark' = mark
    BY DEF ScanFail, PowerCut, NoCall
<1>2. MarkedBlks' = MarkedBlks
    BY <1>1 DEF MarkedBlks, Marked
<1>. QED
    BY <1>1, <1>2 DEF Manager!Off, Ready

\* Without software ECC every behaviour of the driver is one of a bad-block
\* manager: the detailed specification implements the abstract one.
THEOREM Refinement == ASSUME EccType # "ECC_SW_BCH" PROVE Spec => IsBadBlockManager
<1>1. Init => Manager!Init
    BY InitRefines
<1>2. ASSUME IInv, IInv', TInv, TInv', [Next]_vars
      PROVE  [Manager!Next]_Manager!vars
    <2>1. Stutter => UNCHANGED Manager!vars
        BY DEF Stutter, Manager!vars, Known, Marking, Unsure
    <2>2. CASE \/ Setup \/ Application \/ UNCHANGED vars
               \/ ProgramStep \/ ProgramFail \/ ReadStep \/ ReadFail
        BY <1>2, <2>1, <2>2, QuietRefines
    <2>3. CASE ScanPage
        BY <1>2, <2>1, <2>3, ScanRefines DEF Manager!Next
    <2>4. CASE EraseStep \/ PreErase \/ EraseFail
        BY <1>2, <2>4, EraseRefines DEF Manager!Next
    <2>5. CASE MarkPage \/ MarkFail
        BY <1>2, <2>5, MarkRefines DEF Manager!Next
    <2>6. CASE ScanFail \/ PowerCut
        BY <2>6, OffRefines DEF Manager!Next
    <2>. QED
        BY <1>2, <2>2, <2>3, <2>4, <2>5, <2>6 DEF Next, Driver, Failure
<1>. QED
    BY <1>1, <1>2, Invariant, TableInvariant, PTL DEF Spec, IsBadBlockManager, Manager!Spec
-----------------------------------------------------------------------------
(* What the abstract manager promises *)

LEMMA SoundStep ==
    Manager!Sound /\ Manager!MarkedFirst /\ [Manager!Next]_Manager!vars
        => Manager!Sound' /\ Manager!MarkedFirst'
<1> SUFFICES ASSUME Manager!Sound, Manager!MarkedFirst, [Manager!Next]_Manager!vars
             PROVE  Manager!Sound' /\ Manager!MarkedFirst'
    OBVIOUS
<1>1. CASE Manager!Probe \/ Manager!Off \/ UNCHANGED Manager!vars
    BY <1>1 DEF Manager!Probe, Manager!Off, Manager!vars, Manager!Sound, Manager!MarkedFirst
<1>2. ASSUME NEW b \in Blks,
             \/ Manager!PutMark(b) \/ Manager!Report(b) \/ Manager!Erase(b)
             \/ Manager!Fail(b) \/ Manager!Ignored(b)
      PROVE  Manager!Sound' /\ Manager!MarkedFirst'
    BY <1>2 DEF Manager!PutMark, Manager!Report, Manager!Erase, Manager!Fail, Manager!Ignored,
                Manager!Sound, Manager!MarkedFirst
<1>. QED
    BY <1>1, <1>2 DEF Manager!Next

\* The promise follows from the operations alone: whatever implements BadBlocks keeps
\* it, whether the driver does or not (chk_bb after spinand_probe, _set_bb and _erase).
THEOREM Soundness == Manager!Spec => []Manager!Sound
<1>1. Manager!Init => Manager!Sound /\ Manager!MarkedFirst
    BY DEF Manager!Init, Manager!Sound, Manager!MarkedFirst
<1>. QED
    BY <1>1, SoundStep, PTL DEF Manager!Spec

\* So the driver keeps it (Refinement).
THEOREM DriverSound == ASSUME EccType # "ECC_SW_BCH" PROVE Spec => []Manager!Sound
<1>1. Spec => Manager!Spec
    BY Refinement DEF IsBadBlockManager
<1>. QED
    BY <1>1, Soundness, PTL
=============================================================================
