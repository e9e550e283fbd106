--------------------------- MODULE RawNandProofs ---------------------------
(* Proofs about RawNand for every geometry and configuration. *)
EXTENDS RawNandTable, TLAPS

(* Division by the block size: the facts about row numbers that the invariants
   need.  Everything below uses these and leaves BlkOf and FirstRow folded. *)

\* A row is in the block whose first row it follows by less than a block.
LEMMA BlkOfFirst ==
    ASSUME NEW b \in Nat, NEW p \in 0 .. NPages - 1
    PROVE  BlkOf(FirstRow(b) + p) = b
<1> USE GeometryAssumption
<1> DEFINE n == NPages  r == b * n + p  q == r \div n
<1>1. n \in Nat /\ n > 0 /\ r \in Nat
    BY Z3
<1>2. q \in Nat /\ n * q <= r /\ r < n * q + n
    BY <1>1, Z3
<1>3. CASE q < b
    <2>1. q + 1 <= b
        BY <1>2, <1>3
    <2>2. n * (q + 1) <= n * b
        BY <2>1, <1>1, <1>2, Z3
    <2>3. n * q + n <= r
        BY <2>2, <1>1, <1>2, Z3
    <2>. QED
        BY <1>2, <2>3
<1>4. CASE b < q
    <2>1. b + 1 <= q
        BY <1>2, <1>4
    <2>2. n * (b + 1) <= n * q
        BY <2>1, <1>1, <1>2, Z3
    <2>3. r < n * q
        BY <2>2, <1>1, <1>2, Z3
    <2>. QED
        BY <1>2, <2>3, <1>1
<1>. QED
    BY <1>2, <1>3, <1>4 DEF BlkOf, FirstRow

\* A row of the chip lies in a block of the chip.
LEMMA BlkOfRow ==
    ASSUME NEW r \in Rows
    PROVE  BlkOf(r) \in Blks /\ FirstRow(BlkOf(r)) <= r
<1> USE GeometryAssumption
<1> DEFINE q == r \div NPages
<1>1. r \in Nat /\ r < NBlks * NPages
    BY Z3 DEF Rows, NRows
<1>2. q \in Nat /\ NPages * q <= r /\ q * NPages <= r
    BY <1>1, Z3
<1>3. q < NBlks
    <2>1. SUFFICES ASSUME NBlks <= q PROVE FALSE
        BY <1>2
    <2>2. NBlks * NPages <= q * NPages
        BY <2>1, <1>2, Z3
    <2>. QED
        BY <2>2, <1>1, <1>2, Z3
<1>. QED
    BY <1>2, <1>3 DEF BlkOf, FirstRow, Blks

\* The pages of a block of the chip are rows of the chip.
LEMMA PagesInChip ==
    ASSUME NEW b \in Blks, NEW p \in 0 .. NPages - 1
    PROVE  FirstRow(b) \in Nat /\ FirstRow(b) + p \in Rows /\ FirstRow(b) + NPages <= NRows
<1> USE GeometryAssumption
<1>1. b \in Nat /\ b + 1 <= NBlks
    BY DEF Blks
<1>2. (b + 1) * NPages <= NBlks * NPages
    BY <1>1, Z3
<1>3. (b + 1) * NPages = b * NPages + NPages /\ b * NPages \in Nat /\ NBlks * NPages \in Nat
    BY <1>1, Z3
<1>. QED
    BY <1>2, <1>3 DEF FirstRow, Rows, NRows

\* What the proofs below know of blocks and rows.
GeometryFacts ==
    /\ NBlks \in Nat /\ NBlks > 0 /\ NRows \in Nat
    /\ Rows = {r \in Nat : r < NRows} /\ Blks = {b \in Nat : b < NBlks}
    /\ 0 \in Rows /\ FirstRow(0) = 0
    /\ \A r \in Rows : BlkOf(r) \in Blks
    /\ \A b \in Blks :
         /\ FirstRow(b) \in Rows /\ FirstRow(b) + 1 \in Rows /\ FirstRow(b) + 2 \in Rows
         /\ BlkOf(FirstRow(b)) = b /\ BlkOf(FirstRow(b) + 1) = b
         /\ BlkOf((FirstRow(b) + 1) + 1) = b
    /\ \A b \in Blks : FirstRow(b + 1) < NRows => b + 1 \in Blks
    /\ \A b \in Blks : b + 1 \in Blks => FirstRow(b + 1) < NRows

LEMMA Geometry == GeometryFacts
<1> USE GeometryAssumption
<1>1. NBlks \in Nat /\ NBlks > 0 /\ NRows \in Nat /\ NRows > 0 /\ NPages > 2 /\ NPages \in Nat
    <2>1. NBlks \in Nat /\ NBlks >= 1 /\ NPages \in Nat /\ NPages > 2
        OBVIOUS
    <2>2. NBlks * NPages \in Nat /\ NBlks * NPages >= 1 * NPages
        BY <2>1, Z3
    <2>. QED
        BY <2>1, <2>2 DEF NRows
<1>2. Rows = {r \in Nat : r < NRows} /\ Blks = {b \in Nat : b < NBlks}
    BY <1>1 DEF Rows, Blks
<1>3. 0 \in Rows /\ FirstRow(0) = 0
    BY <1>1, <1>2 DEF FirstRow
<1>4. \A r \in Rows : BlkOf(r) \in Blks
    BY BlkOfRow
<1>5. ASSUME NEW b \in Blks
      PROVE  /\ FirstRow(b) \in Rows /\ FirstRow(b) + 1 \in Rows /\ FirstRow(b) + 2 \in Rows
             /\ BlkOf(FirstRow(b)) = b /\ BlkOf(FirstRow(b) + 1) = b
             /\ BlkOf((FirstRow(b) + 1) + 1) = b
    <2>1. b \in Nat /\ 0 \in 0 .. NPages - 1 /\ 1 \in 0 .. NPages - 1 /\ 2 \in 0 .. NPages - 1
        BY <1>1, <1>2
    <2>2. FirstRow(b) \in Nat /\ FirstRow(b) + 0 = FirstRow(b)
          /\ FirstRow(b) + 2 = (FirstRow(b) + 1) + 1
        BY <2>1, PagesInChip
    <2>3. BlkOf(FirstRow(b) + 0) = b /\ BlkOf(FirstRow(b) + 1) = b /\ BlkOf(FirstRow(b) + 2) = b
        BY <2>1, BlkOfFirst
    <2>4. FirstRow(b) + 0 \in Rows /\ FirstRow(b) + 1 \in Rows /\ FirstRow(b) + 2 \in Rows
        BY <2>1, PagesInChip
    <2>. QED
        BY <2>2, <2>3, <2>4
<1>6. ASSUME NEW b \in Blks, FirstRow(b + 1) < NRows
      PROVE  b + 1 \in Blks
    <2>1. SUFFICES ASSUME b + 1 >= NBlks PROVE FALSE
        BY <1>1, <1>2
    <2>2. (b + 1) * NPages >= NBlks * NPages
        BY <2>1, <1>1, <1>2, Z3
    <2>. QED
        BY <2>2, <1>1, <1>2, <1>6, Z3 DEF FirstRow, NRows
<1>7. ASSUME NEW b \in Blks, b + 1 \in Blks
      PROVE  FirstRow(b + 1) < NRows
    BY <1>5, <1>7, <1>2
<1>. QED
    BY <1>1, <1>2, <1>3, <1>4, <1>5, <1>6, <1>7 DEF GeometryFacts

\* The block after b starts a block later.
LEMMA NextBlock ==
    ASSUME NEW b \in Nat
    PROVE  FirstRow(b) \in Nat /\ FirstRow(b + 1) = FirstRow(b) + NPages
BY GeometryAssumption, Z3 DEF FirstRow

\* A multiple of the block size is a number of blocks.
LEMMA Aligned ==
    ASSUME NEW n \in Nat, n % NPages = 0
    PROVE  n \div NPages \in Nat /\ n = FirstRow(n \div NPages)
<1> DEFINE q == n \div NPages
<1>1. NPages \in Nat /\ NPages > 0
    BY GeometryAssumption
<1>2. q \in Nat /\ n = NPages * q /\ NPages * q = q * NPages
    BY <1>1, Z3
<1>. QED
    BY <1>2 DEF FirstRow

\* A run of k blocks inside the chip, counted in pages and in blocks.
LEMMA BlocksFit ==
    ASSUME NEW b \in Nat, NEW k \in Nat
    PROVE  FirstRow(b) + FirstRow(k) <= NRows <=> b + k <= NBlks
<1>1. NPages \in Nat /\ NPages > 0 /\ NBlks \in Nat
    BY GeometryAssumption
<1>2. FirstRow(b) + FirstRow(k) = (b + k) * NPages
    BY <1>1, Z3 DEF FirstRow
<1>3. CASE b + k <= NBlks
    <2>1. (b + k) * NPages <= NBlks * NPages
        BY <1>1, <1>3, Z3
    <2>. QED
        BY <1>2, <1>3, <2>1 DEF NRows
<1>4. CASE b + k >= NBlks + 1
    <2>1. (b + k) * NPages >= (NBlks + 1) * NPages
        BY <1>1, <1>4, Z3
    <2>2. (NBlks + 1) * NPages = NBlks * NPages + NPages
          /\ NBlks * NPages \in Nat /\ (b + k) * NPages \in Nat
        BY <1>1, Z3
    <2>. QED
        BY <1>1, <1>2, <1>4, <2>1, <2>2 DEF NRows
<1>. QED
    BY <1>1, <1>3, <1>4

(* The invariant in four parts: what the chip holds, what the driver keeps in
   RAM, the call in progress, and the window of ECC steps. *)

ChipOK ==
    /\ mark \subseteq MarkerRows /\ mode \in Modes /\ reg \in Nat
    /\ pend \subseteq [row : Rows, bad : BOOLEAN] /\ PendFits

RamOK ==
    /\ bbt \subseteq Blks /\ bufOob \in {"ff", "bad"}
    /\ type \in EccTypes /\ typeOld \in EccTypes
    /\ retired \subseteq Blks /\ suspect \subseteq Blks

CallTyped ==
    /\ op \in Ops /\ pc \in Pcs /\ row \in Rows /\ left \in Nat /\ part \subseteq Ends
    /\ range \subseteq Blks /\ todo \subseteq Rows /\ faulty \in BOOLEAN
    /\ result \in {"ok", "err", "undone"}

CallOK == CallTyped /\ CallFits /\ SequenceFits

WinOK == win \in (0 .. NSteps - 1) \X (0 .. NSteps - 1) /\ WholeWindow

LEMMA Parts ==
    /\ IInv <=> ChipOK /\ RamOK /\ CallOK /\ WinOK
    /\ IInv' <=> ChipOK' /\ RamOK' /\ CallOK' /\ WinOK'
BY DEF IInv, TypeOK, ChipOK, RamOK, CallTyped, CallOK, WinOK

LEMMA WholePageFits == WholePage \in (0 .. NSteps - 1) \X (0 .. NSteps - 1)
BY ConfigAssumption DEF WholePage

\* The first two pages of a block are looked at for markers.
LEMMA MarkersOf ==
    ASSUME NEW b \in Blks
    PROVE  FirstRow(b) \in MarkerRows /\ FirstRow(b) + 1 \in MarkerRows
<1>1. FirstRow(b) \in Rows /\ FirstRow(b) + 1 \in Rows /\ b \in Nat
    BY Geometry DEF GeometryFacts
<1>2. NPages \in Nat /\ NPages > 2
    BY GeometryAssumption
<1>3. FirstRow(b) % NPages = 0 /\ (FirstRow(b) + 1) % NPages = 1
    <2>1. BlkOf(FirstRow(b)) = b /\ BlkOf(FirstRow(b) + 1) = b
        BY Geometry DEF GeometryFacts
    <2>2. FirstRow(b) \in Nat /\ FirstRow(b) = NPages * b
        BY <1>1, <1>2, Z3 DEF FirstRow
    <2>3. ASSUME NEW r \in Nat, BlkOf(r) = b
          PROVE  r % NPages = r - FirstRow(b)
        <3>1. r = NPages * (r \div NPages) + (r % NPages) /\ r % NPages \in Int
            BY <1>2, Z3
        <3>. QED
            BY <2>2, <2>3, <3>1 DEF BlkOf
    <2>. QED
        BY <2>1, <2>2, <2>3
<1>. QED
    BY <1>1, <1>3 DEF MarkerRows

\* The markers of pages in the chip belong to pages looked at for markers.
LEMMA StainsFit ==
    ASSUME NEW ps, ps \subseteq [row : Rows, bad : BOOLEAN],
           \A p \in ps : p.bad => p.row \in MarkerRows
    PROVE  Stains(ps) \subseteq MarkerRows /\ BlksOf(ps) \subseteq Blks
<1>1. Stains(ps) \subseteq MarkerRows
    BY Zenon DEF Stains
<1>2. MarkerRows \subseteq Rows
    BY DEF MarkerRows
<1>3. \A r \in Stains(ps) : BlkOf(r) \in Blks
    BY <1>1, <1>2, Geometry DEF GeometryFacts
<1>. QED
    BY <1>1, <1>3, Zenon DEF BlksOf

LEMMA PageFits ==
    ASSUME CallTyped
    PROVE  /\ Page \subseteq [row : Rows, bad : BOOLEAN]
           /\ \A p \in Page : p.bad => p.row \in MarkerRows
<1> DEFINE bad == SW /\ ~PartOfPage /\ bufOob = "bad" /\ row \in MarkerRows
           page == [row |-> row, bad |-> bad]
<1>1. bad \in BOOLEAN /\ row \in Rows /\ (bad => row \in MarkerRows)
    BY Zenon DEF CallTyped
<1>. HIDE DEF bad
<1>2. page \in [row : Rows, bad : BOOLEAN] /\ page.bad = bad /\ page.row = row
    BY <1>1
<1>. HIDE DEF page
<1>3. Page = {page}
    BY Zenon DEF Page, page, bad
<1>. QED
    BY <1>1, <1>2, <1>3

LEMMA MarkFits ==
    ASSUME CallTyped, row \in MarkerRows
    PROVE  /\ MarkOf(row) \subseteq [row : Rows, bad : BOOLEAN]
           /\ \A p \in MarkOf(row) : p.bad => p.row \in MarkerRows
<1> DEFINE bad == HasMarker /\ bufOob = "bad"
           page == [row |-> row, bad |-> bad]
<1>1. bad \in BOOLEAN /\ row \in Rows
    BY Zenon DEF CallTyped, HasMarker
<1>. HIDE DEF bad
<1>2. page \in [row : Rows, bad : BOOLEAN] /\ page.bad = bad /\ page.row = row
    BY <1>1
<1>. HIDE DEF page
<1>3. MarkOf(row) = {page}
    BY Zenon DEF MarkOf, page, bad
<1>. QED
    BY <1>1, <1>2, <1>3
-----------------------------------------------------------------------------
(* The call in progress: how it ends and how it goes on. *)

LEMMA FinishOK ==
    ASSUME CallOK, NEW o \in {"off", "idle"}, NEW res \in {"ok", "err"}, NEW rows,
           NEW fault \in BOOLEAN, Finish(o, res, rows, fault)
    PROVE  CallOK'
<1>1. op' = o /\ pc' = "first" /\ row' = 0 /\ left' = 0 /\ part' = {} /\ range' = {}
      /\ todo' = {} /\ faulty' = fault /\ result' \in {"ok", "err", "undone"}
    BY DEF Finish
<1>2. CallTyped'
    BY <1>1, Geometry DEF CallTyped, Ops, Pcs, GeometryFacts
<1>3. CallFits' /\ SequenceFits'
    BY <1>1 DEF CallFits, SequenceFits
<1>. QED
    BY <1>2, <1>3 DEF CallOK

LEMMA AdvanceOK ==
    ASSUME CallOK, op \in {"read", "program"}, NEW p \in {"first", "seq"}, NEW n \in Nat,
           n > 0, n <= left, p = "seq" => "head" \notin part /\ Whole > n,
           NEW rows \in SUBSET Rows, NEW fault \in BOOLEAN, Advance(p, n, rows, fault)
    PROVE  CallOK'
<1>1. CASE left = n
    BY <1>1, FinishOK DEF Advance
<1>2. CASE left # n
    <2>1. /\ pc' = p /\ row' = row + n /\ left' = left - n /\ part' = part \ {"head"}
          /\ todo' = rows /\ faulty' = fault /\ op' = op /\ range' = range /\ result' = result
        BY <1>2 DEF Advance
    <2>2. left \in Nat /\ row \in Nat /\ row + left <= NRows /\ row \in Rows /\ NRows \in Nat
        BY Geometry DEF CallOK, CallTyped, CallFits, GeometryFacts
    <2>3. row' \in Rows /\ left' \in Nat /\ left' > 0 /\ row' + left' <= NRows
        BY <1>2, <2>1, <2>2, Geometry DEF GeometryFacts
    <2>4. CallTyped'
        BY <2>1, <2>3 DEF CallOK, CallTyped, Pcs
    <2>5. CallFits'
        BY <2>1, <2>3 DEF CallFits
    <2>6. p = "seq" => "head" \notin part' /\ Whole' >= 1
        BY <2>1, <2>2 DEF Whole
    <2>7. SequenceFits'
        BY <2>1, <2>6 DEF SequenceFits
    <2>. QED
        BY <2>4, <2>5, <2>7 DEF CallOK
<1>. QED
    BY <1>1, <1>2

\* A call that goes on after something failed.
AdvanceBad(n, rows) == Advance("first", n, rows, TRUE)

LEMMA AdvanceFaulty ==
    ASSUME CallOK, op \in {"read", "program"}, NEW n \in Nat, n > 0, n <= left,
           NEW rows \in SUBSET Rows, AdvanceBad(n, rows)
    PROVE  CallOK'
<1> DEFINE fault == TRUE
<1>1. fault \in BOOLEAN /\ Advance("first", n, rows, fault)
    BY DEF AdvanceBad
<1>. HIDE DEF fault
<1>. QED
    BY <1>1, AdvanceOK

\* Blocks of an erase, counted down from the first to the last.
LEMMA EraseOn ==
    ASSUME CallOK, op = "erase", NEW rows \in SUBSET Rows, NEW fault \in BOOLEAN,
           Advance("first", NPages, rows, fault)
    PROVE  CallOK'
<1>1. PICK b \in Blks, k \in 1 .. NBlks :
          b + k <= NBlks /\ row = FirstRow(b) /\ left = FirstRow(k)
    BY DEF CallOK, CallFits
<1>2. NBlks \in Nat /\ b \in Nat /\ k \in Nat /\ k >= 1 /\ NPages \in Nat
    BY Geometry, GeometryAssumption DEF GeometryFacts
<1>3. CASE left = NPages
    BY <1>3, FinishOK DEF Advance
<1>4. CASE left # NPages
    <2>1. /\ pc' = "first" /\ row' = row + NPages /\ left' = left - NPages
          /\ part' = part \ {"head"} /\ todo' = rows /\ faulty' = fault
          /\ op' = op /\ range' = range /\ result' = result
        BY <1>4 DEF Advance
    <2>2. FirstRow(b + 1) = row + NPages
        BY <1>1, <1>2, NextBlock
    <2>3. FirstRow(k - 1) \in Nat /\ FirstRow((k - 1) + 1) = FirstRow(k - 1) + NPages
        BY <1>2, NextBlock
    <2>4. (k - 1) + 1 = k
        BY <1>2
    <2>5. left' = FirstRow(k - 1) /\ left' \in Nat
        BY <1>1, <1>2, <2>1, <2>3, <2>4
    <2>6. k # 1
        <3>1. FirstRow(1) = NPages
            BY GeometryAssumption, Z3 DEF FirstRow
        <3>. QED
            BY <1>1, <1>4, <3>1
    <2>7. k - 1 \in 1 .. NBlks /\ b + 1 \in Blks /\ (b + 1) + (k - 1) <= NBlks
        BY <1>1, <1>2, <2>6, Geometry DEF GeometryFacts
    <2>8. row' = FirstRow(b + 1) /\ row' \in Rows
        BY <2>1, <2>2, <2>7, Geometry DEF GeometryFacts
    <2>9. CallTyped'
        BY <2>1, <2>5, <2>8 DEF CallOK, CallTyped, Pcs
    <2>10. CallFits'
        BY <2>1, <2>5, <2>7, <2>8 DEF CallFits
    <2>11. SequenceFits'
        BY <2>1 DEF SequenceFits
    <2>. QED
        BY <2>9, <2>10, <2>11 DEF CallOK
<1>. QED
    BY <1>3, <1>4

\* The two marker pages of set_bb.
LEMMA MarkOn ==
    ASSUME CallOK, op = "mark", NEW rows \in SUBSET Rows, NEW fault \in BOOLEAN,
           Advance("first", 1, rows, fault)
    PROVE  CallOK'
<1>1. PICK b \in Blks :
          /\ range = {b}
          /\ \/ left = 2 /\ row = FirstRow(b)
             \/ left = 1 /\ row = FirstRow(b) + 1
    BY DEF CallOK, CallFits
<1>2. CASE left = 1
    BY <1>2, FinishOK DEF Advance
<1>3. CASE left # 1
    <2>1. /\ pc' = "first" /\ row' = row + 1 /\ left' = left - 1
          /\ part' = part \ {"head"} /\ todo' = rows /\ faulty' = fault
          /\ op' = op /\ range' = range /\ result' = result
        BY <1>3 DEF Advance
    <2>2. row' = FirstRow(b) + 1 /\ left' = 1 /\ row' \in Rows
        BY <1>1, <1>3, <2>1, Geometry DEF GeometryFacts
    <2>3. CallTyped'
        BY <2>1, <2>2 DEF CallOK, CallTyped, Pcs
    <2>4. CallFits'
        BY <1>1, <2>1, <2>2 DEF CallFits
    <2>5. SequenceFits'
        BY <2>1 DEF SequenceFits
    <2>. QED
        BY <2>3, <2>4, <2>5 DEF CallOK
<1>. QED
    BY <1>2, <1>3

\* rawnand_set_bb goes on after its erase, done or not.
LEMMA ErasedOn ==
    ASSUME CallOK, op \in {"erase", "pre_erase"}, NEW rows \in SUBSET Rows,
           NEW fault \in BOOLEAN, Erased(rows, fault)
    PROVE  CallOK'
<1>1. CASE op = "erase"
    BY <1>1, EraseOn DEF Erased
<1>2. CASE op = "pre_erase"
    <2>1. /\ op' = "mark" /\ faulty' = fault /\ pc' = pc /\ row' = row /\ left' = left
          /\ part' = part /\ range' = range /\ todo' = todo /\ result' = result
        BY <1>2 DEF Erased
    <2>2. CallTyped'
        BY <2>1 DEF CallOK, CallTyped, Ops
    <2>3. CallFits'
        BY <1>2, <2>1 DEF CallOK, CallFits
    <2>4. SequenceFits'
        BY <1>2, <2>1 DEF CallOK, SequenceFits
    <2>. QED
        BY <2>2, <2>3, <2>4 DEF CallOK
<1>. QED
    BY <1>1, <1>2
-----------------------------------------------------------------------------
(* The chip and the window. *)

LEMMA TakeOverOK ==
    ASSUME ChipOK, RamOK, NEW ps, ps \subseteq [row : Rows, bad : BOOLEAN],
           \A p \in ps : p.bad => p.row \in MarkerRows, NEW blks, TakeOver(ps, blks)
    PROVE  mark' \subseteq MarkerRows /\ suspect' \subseteq Blks
<1>1. Abandoned \subseteq pend /\ pend \subseteq [row : Rows, bad : BOOLEAN] /\ PendFits
    BY Zenon DEF Abandoned, ChipOK
<1>2. Stains(Abandoned) \subseteq MarkerRows /\ BlksOf(Abandoned) \subseteq Blks
    <2>1. Abandoned \subseteq [row : Rows, bad : BOOLEAN]
          /\ \A p \in Abandoned : p.bad => p.row \in MarkerRows
        BY <1>1, Zenon DEF PendFits
    <2>. QED
        BY <2>1, StainsFit
<1>3. Stains(ps \union (pend \ Abandoned)) \subseteq MarkerRows
    <2>1. ps \union (pend \ Abandoned) \subseteq [row : Rows, bad : BOOLEAN]
          /\ \A p \in ps \union (pend \ Abandoned) : p.bad => p.row \in MarkerRows
        BY <1>1, Zenon DEF PendFits
    <2>. QED
        BY <2>1, StainsFit
<1>4. PICK m \in {{}, Stains(Abandoned)} :
          mark' = mark \union m \union Stains(ps \union (pend \ Abandoned))
    BY Zenon DEF TakeOver
<1>5. suspect' = (suspect \union BlksOf(Abandoned)) \ blks
    BY DEF TakeOver
<1>. QED
    BY <1>2, <1>3, <1>4, <1>5 DEF ChipOK, RamOK

\* Outside an access to a part of a page the window is the whole page.
LEMMA WindowWhole ==
    ASSUME WinOK, op # "off",
           op \notin {"read", "program"} \/ pc = "seq" \/ ~(SW /\ PartOfPage)
    PROVE  win = WholePage
BY DEF WinOK, WholeWindow

LEMMA ReleasedWhole ==
    ASSUME WinOK, op # "off"
    PROVE  Released = WholePage
<1>1. CASE SW /\ PartOfPage
    BY <1>1 DEF Released
<1>2. CASE ~(SW /\ PartOfPage)
    BY <1>2, WindowWhole DEF Released
<1>. QED
    BY <1>1, <1>2

LEMMA WholeOK ==
    ASSUME win' = WholePage
    PROVE  WinOK'
<1>1. WholePage' = WholePage
    BY DEF WholePage
<1>. QED
    BY <1>1, WholePageFits DEF WinOK, WholeWindow

LEMMA WindowsFit ==
    ASSUME WinOK
    PROVE  Windows \subseteq (0 .. NSteps - 1) \X (0 .. NSteps - 1)
<1>1. {<<s, e>> : s, e \in 0 .. NSteps - 1} \subseteq (0 .. NSteps - 1) \X (0 .. NSteps - 1)
    OBVIOUS
<1>. QED
    BY <1>1 DEF Windows, WinOK
-----------------------------------------------------------------------------
(* The invariant, one group of actions after another. *)

LEMMA InitIInv == Init => IInv
<1> SUFFICES ASSUME Init PROVE IInv
    OBVIOUS
<1>. USE Geometry, ConfigAssumption DEF GeometryFacts
<1>1. ChipOK
    BY DEF Init, ChipOK, Modes, PendFits
<1>2. RamOK
    BY DEF Init, RamOK, EccTypes
<1>3. CallOK
    BY DEF Init, CallOK, CallTyped, CallFits, SequenceFits, Ops, Pcs, Ends
<1>4. WinOK
    BY WholePageFits DEF Init, WinOK, WholeWindow
<1>. QED
    BY <1>1, <1>2, <1>3, <1>4, Parts

LEMMA NoRamOK ==
    ASSUME NoRam, retired' \subseteq Blks, suspect' \subseteq Blks
    PROVE  RamOK' /\ WinOK'
<1>1. RamOK'
    BY ConfigAssumption DEF NoRam, RamOK, EccTypes
<1>2. WinOK'
    BY WholeOK DEF NoRam
<1>. QED
    BY <1>1, <1>2

LEMMA PowerIInv ==
    ASSUME IInv, Setup \/ ScanFail \/ PowerCut
    PROVE  IInv'
<1>1. ChipOK /\ RamOK /\ CallOK /\ WinOK
    BY Parts
<1>2. CASE Setup
    <2>1. ChipOK'
        BY <1>1, <1>2 DEF Setup, chip, ChipOK, PendFits
    <2>2. RamOK'
        BY <1>1, <1>2, ConfigAssumption DEF Setup, RamOK, ProbedType, EccTypes
    <2>3. CallOK'
        BY <1>1, <1>2 DEF Setup, CallOK, CallTyped, CallFits, SequenceFits, Ops
    <2>4. WinOK'
        BY <1>2, WholeOK DEF Setup
    <2>. QED
        BY <2>1, <2>2, <2>3, <2>4, Parts
<1>3. CASE ScanFail
    <2>1. ChipOK'
        BY <1>1, <1>3 DEF ScanFail, chip, ChipOK, PendFits
    <2>2. RamOK' /\ WinOK'
        BY <1>1, <1>3, NoRamOK DEF ScanFail, ghosts, RamOK
    <2>3. CallOK'
        BY <1>1, <1>3, FinishOK DEF ScanFail
    <2>. QED
        BY <2>1, <2>2, <2>3, Parts
<1>4. CASE PowerCut
    <2>1. Stains(pend) \subseteq MarkerRows
        BY <1>1, StainsFit DEF ChipOK, PendFits
    <2>2. ChipOK'
        BY <1>1, <1>4, <2>1 DEF PowerCut, ChipOK, PendFits, Modes
    <2>3. RamOK' /\ WinOK'
        BY <1>1, <1>4, NoRamOK DEF PowerCut, ghosts, RamOK
    <2>4. CallOK'
        BY <1>1, <1>4, FinishOK DEF PowerCut
    <2>. QED
        BY <2>2, <2>3, <2>4, Parts
<1>. QED
    BY <1>2, <1>3, <1>4

LEMMA SettleIInv ==
    ASSUME IInv, Settle
    PROVE  IInv'
<1>1. ChipOK /\ RamOK /\ CallOK /\ WinOK
    BY Parts
<1>2. mark' \subseteq MarkerRows /\ suspect' \subseteq Blks
    BY <1>1, TakeOverOK DEF Settle
<1>3. ChipOK'
    BY <1>1, <1>2 DEF Settle, ChipOK, PendFits, Modes
<1>4. RamOK'
    BY <1>1, <1>2 DEF Settle, RamOK, ecc
<1>5. CallOK'
    BY <1>1 DEF Settle, call, CallOK, CallTyped, CallFits, SequenceFits, SW, PartOfPage, Whole, ecc
<1>6. WinOK'
    BY <1>1 DEF Settle, call, WinOK, WholeWindow, SW, PartOfPage, ecc
<1>. QED
    BY <1>3, <1>4, <1>5, <1>6, Parts

LEMMA ScanIInv ==
    ASSUME IInv, ScanPage
    PROVE  IInv'
<1>1. ChipOK /\ RamOK /\ CallOK /\ WinOK
    BY Parts
<1>2. row \in Rows /\ BlkOf(row) \in Blks /\ op = "probe"
    BY <1>1, Geometry DEF ScanPage, CallOK, CallTyped, GeometryFacts
<1>3. ChipOK'
    BY <1>1 DEF ScanPage, chip, ChipOK, PendFits
<1>4. RamOK'
    <2>1. bufOob' \in {"ff", "bad"}
        BY <1>1, Zenon DEF ScanPage, Oob, RamOK
    <2>2. bbt' \subseteq Blks
        BY <1>1, <1>2, Zenon DEF ScanPage, RamOK
    <2>. QED
        BY <1>1, <2>1, <2>2 DEF ScanPage, RamOK, ecc, ghosts
<1>5. CallOK'
    <2>1. CASE ScanNext(row) >= ScanEnd
        BY <1>1, <2>1, FinishOK DEF ScanPage
    <2>2. CASE ~(ScanNext(row) >= ScanEnd)
        <3>1. ScanNext(row) \in Nat
            <4>1. BlkOf(row) + 1 \in Nat /\ row \in Nat
                BY <1>2, Geometry DEF GeometryFacts
            <4>2. FirstRow(BlkOf(row) + 1) \in Nat
                BY <4>1, NextBlock
            <4>. QED
                BY <4>1, <4>2 DEF ScanNext
        <3>2. ScanNext(row) \in Rows
            BY <2>2, <3>1, Geometry DEF ScanEnd, GeometryFacts
        <3>3. row' = ScanNext(row) /\ op' = op /\ pc' = pc /\ left' = left /\ part' = part
              /\ range' = range /\ todo' = todo /\ faulty' = faulty /\ result' = result
            BY <2>2 DEF ScanPage
        <3>. QED
            BY <1>1, <1>2, <3>2, <3>3 DEF CallOK, CallTyped, CallFits, SequenceFits
    <2>. QED
        BY <2>1, <2>2
<1>6. WinOK'
    BY <1>1, <1>2, WindowWhole, WholeOK DEF ScanPage
<1>. QED
    BY <1>3, <1>4, <1>5, <1>6, Parts

\* What a call leaves alone, whatever it is about.
LEMMA StartOK ==
    ASSUME ChipOK, RamOK, CallOK, WinOK, NEW name, NEW r, NEW n, NEW ends, NEW rows,
           Start(name, r, n, ends, rows), bufOob' \in {"ff", "bad"}
    PROVE  ChipOK' /\ RamOK' /\ WinOK'
<1>1. ChipOK'
    BY DEF Start, chip, ChipOK, PendFits
<1>2. RamOK'
    BY DEF Start, RamOK, ecc, ghosts
<1>3. WinOK'
    BY WindowWhole, WholeOK DEF Start
<1>. QED
    BY <1>1, <1>2, <1>3

LEMMA BlksOfRows ==
    ASSUME NEW rows \in SUBSET Rows
    PROVE  {BlkOf(x) : x \in rows} \subseteq Blks
<1>1. \A x \in rows : BlkOf(x) \in Blks
    BY Geometry DEF GeometryFacts
<1>. QED
    BY <1>1, Zenon

LEMMA TransferIInv ==
    ASSUME IInv, NEW name \in {"read", "program"}, NEW r \in Nat, NEW n \in Nat,
           NEW ends \in SUBSET Ends, TransferCall(name, r, n, ends)
    PROVE  IInv'
<1>1. ChipOK /\ RamOK /\ CallOK /\ WinOK
    BY Parts
<1> DEFINE rows == r .. r + n - 1
<1>2. n > 0 /\ r < NRows /\ r + n <= NRows /\ Start(name, r, n, ends, rows)
    BY Geometry DEF TransferCall, OutOfChip, GeometryFacts
<1>3. rows \in SUBSET Rows /\ r \in Rows
    BY <1>2, Geometry DEF GeometryFacts
<1>4. ChipOK' /\ RamOK' /\ WinOK'
    BY <1>1, <1>2, StartOK DEF TransferCall, RamOK
<1>5. {BlkOf(x) : x \in rows} \subseteq Blks
    BY <1>3, BlksOfRows
<1>. HIDE DEF rows
<1>6. /\ op' = name /\ pc' = "first" /\ row' = r /\ left' = n /\ part' = ends
      /\ range' = {BlkOf(x) : x \in rows} /\ todo' = rows /\ faulty' = FALSE /\ result' = "ok"
    BY <1>2 DEF Start
<1>7. CallTyped'
    BY <1>3, <1>5, <1>6 DEF CallTyped, Ops, Pcs
<1>8. CallFits' /\ SequenceFits'
    BY <1>2, <1>6 DEF CallFits, SequenceFits
<1>. QED
    BY <1>4, <1>7, <1>8, Parts DEF CallOK

LEMMA EraseCallIInv ==
    ASSUME IInv, NEW r \in Nat, NEW n \in Nat, EraseCall(r, n)
    PROVE  IInv'
<1>1. ChipOK /\ RamOK /\ CallOK /\ WinOK
    BY Parts
<1> DEFINE rows == r .. r + n - 1  b == r \div NPages  k == n \div NPages
<1>2. n > 0 /\ r < NRows /\ r + n <= NRows /\ Start("erase", r, n, {}, rows)
    BY Geometry DEF EraseCall, OutOfChip, GeometryFacts
<1>3. rows \in SUBSET Rows /\ r \in Rows
    BY <1>2, Geometry DEF GeometryFacts
<1>4. ChipOK' /\ RamOK' /\ WinOK'
    BY <1>1, <1>2, StartOK DEF EraseCall, RamOK
<1>5. {BlkOf(x) : x \in rows} \subseteq Blks
    BY <1>3, BlksOfRows
<1>6. b \in Nat /\ k \in Nat /\ r = FirstRow(b) /\ n = FirstRow(k)
    BY Aligned DEF EraseCall
<1>7. b + k <= NBlks
    BY <1>2, <1>6, BlocksFit
<1>. HIDE DEF rows, b, k
<1>8. k # 0
    BY <1>2, <1>6, Geometry DEF GeometryFacts
<1>9. b \in Blks /\ k \in 1 .. NBlks
    BY <1>6, <1>7, <1>8, Geometry DEF GeometryFacts
<1>10. /\ op' = "erase" /\ pc' = "first" /\ row' = r /\ left' = n /\ part' = {}
       /\ range' = {BlkOf(x) : x \in rows} /\ todo' = rows /\ faulty' = FALSE /\ result' = "ok"
    BY <1>2 DEF Start
<1>11. CallTyped'
    BY <1>3, <1>5, <1>10 DEF CallTyped, Ops, Pcs
<1>12. CallFits' /\ SequenceFits'
    BY <1>6, <1>7, <1>9, <1>10 DEF CallFits, SequenceFits
<1>. QED
    BY <1>4, <1>11, <1>12, Parts DEF CallOK

LEMMA SetBBIInv ==
    ASSUME IInv, NEW b \in Blks, NEW preErase \in BOOLEAN, SetBBCall(b, preErase)
    PROVE  IInv'
<1>1. ChipOK /\ RamOK /\ CallOK /\ WinOK
    BY Parts
<1> DEFINE rows == {FirstRow(b), FirstRow(b) + 1}
           name == IF preErase THEN "pre_erase" ELSE "mark"
<1>2. Start(name, FirstRow(b), 2, {}, rows) /\ bufOob' \in {"ff", "bad"}
    BY <1>1 DEF SetBBCall, RamOK
<1>3. ChipOK' /\ RamOK' /\ WinOK'
    BY <1>1, <1>2, StartOK
<1>4. FirstRow(b) \in Rows /\ rows \subseteq Rows /\ {BlkOf(x) : x \in rows} = {b}
    <2>1. /\ FirstRow(b) \in Rows /\ FirstRow(b) + 1 \in Rows
          /\ BlkOf(FirstRow(b)) = b /\ BlkOf(FirstRow(b) + 1) = b
        BY Geometry DEF GeometryFacts
    <2>. QED
        BY <2>1, Zenon
<1>. HIDE DEF rows
<1>5. /\ op' = name /\ pc' = "first" /\ row' = FirstRow(b) /\ left' = 2 /\ part' = {}
      /\ range' = {b} /\ todo' = rows /\ faulty' = FALSE /\ result' = "ok"
    BY <1>2, <1>4 DEF Start
<1>6. CallTyped'
    BY <1>4, <1>5 DEF CallTyped, Ops, Pcs
<1>7. CallFits' /\ SequenceFits'
    BY <1>5 DEF CallFits, SequenceFits
<1>. QED
    BY <1>3, <1>6, <1>7, Parts DEF CallOK

LEMMA SetEccIInv ==
    ASSUME IInv, NEW en \in BOOLEAN, SetEccEn(en)
    PROVE  IInv'
<1>1. ChipOK /\ RamOK /\ CallOK /\ WinOK
    BY Parts
<1>2. ChipOK'
    BY <1>1 DEF SetEccEn, chip, ChipOK, PendFits
<1>3. RamOK'
    BY <1>1 DEF SetEccEn, RamOK, ghosts, EccTypes
<1>4. CallOK'
    BY <1>1 DEF SetEccEn, call, CallOK, CallTyped, CallFits, SequenceFits
<1>5. WinOK'
    BY <1>1, WindowWhole, WholeOK DEF SetEccEn
<1>. QED
    BY <1>2, <1>3, <1>4, <1>5, Parts

LEMMA ApplicationIInv ==
    ASSUME IInv, Application
    PROVE  IInv'
<1>1. ASSUME NEW s \in Spans, EraseCall(s[1], s[2])
      PROVE  IInv'
    BY <1>1, ConfigAssumption, EraseCallIInv
<1>2. ASSUME NEW name \in {"read", "program"}, NEW s \in Spans, NEW ends \in SUBSET Ends,
             TransferCall(name, s[1], s[2], ends)
      PROVE  IInv'
    BY <1>2, ConfigAssumption, TransferIInv
<1>. QED
    BY <1>1, <1>2, SetBBIInv, SetEccIInv DEF Application
-----------------------------------------------------------------------------
(* Erase and marking. *)

\* The row of an erase, and that of a marking, which is looked at for markers.
LEMMA EraseRow ==
    ASSUME CallOK, op \in {"erase", "pre_erase", "mark"}
    PROVE  row \in Rows /\ BlkOf(row) \in Blks /\ (op = "mark" => row \in MarkerRows)
<1>1. row \in Rows /\ BlkOf(row) \in Blks
    BY Geometry DEF CallOK, CallTyped, GeometryFacts
<1>2. op = "mark" => row \in MarkerRows
    BY MarkersOf DEF CallOK, CallFits
<1>. QED
    BY <1>1, <1>2

LEMMA EraseIInv ==
    ASSUME IInv, EraseBlock \/ EraseIgnored \/ EraseStatus \/ EraseFail
    PROVE  IInv'
<1>1. ChipOK /\ RamOK /\ CallOK /\ WinOK
    BY Parts
<1>2. op \in {"erase", "pre_erase"}
    BY DEF EraseBlock, EraseIgnored, EraseStatus, EraseFail
<1>3. BlkOf(row) \in Blks /\ todo \in SUBSET Rows /\ faulty \in BOOLEAN
    BY <1>1, <1>2, EraseRow DEF CallOK, CallTyped
<1>4. ChipOK'
    <2>1. mark' \subseteq mark
        BY Zenon DEF EraseBlock, EraseIgnored, EraseStatus, EraseFail
    <2>2. pend' = pend /\ (mode' = mode \/ mode' = "ready") /\ (reg' = reg \/ reg' = 0)
        BY DEF EraseBlock, EraseIgnored, EraseStatus, EraseFail, Free, chip
    <2>. QED
        BY <1>1, <2>1, <2>2 DEF ChipOK, PendFits, Modes
<1>5. RamOK'
    <2>1. bbt' \subseteq bbt /\ retired' \subseteq retired
        BY Zenon DEF EraseBlock, EraseIgnored, EraseStatus, EraseFail, ClearBB
    <2>2. suspect' \subseteq suspect \union {BlkOf(row)}
        BY Zenon DEF EraseBlock, EraseIgnored, EraseStatus, EraseFail
    <2>3. bufOob' = bufOob /\ type' = type /\ typeOld' = typeOld
        BY DEF EraseBlock, EraseIgnored, EraseStatus, EraseFail, ecc
    <2>. QED
        BY <1>1, <1>3, <2>1, <2>2, <2>3 DEF RamOK
<1>6. CallOK'
    <2>1. CASE EraseBlock
        BY <1>1, <1>2, <1>3, <2>1, ErasedOn DEF EraseBlock
    <2>2. CASE EraseIgnored
        BY <1>1, <1>2, <1>3, <2>2, ErasedOn DEF EraseIgnored
    <2>3. CASE EraseStatus
        BY <1>1, <1>2, <1>3, <2>3, ErasedOn, FinishOK DEF EraseStatus
    <2>4. CASE EraseFail
        BY <1>1, <2>4, FinishOK DEF EraseFail, Error
    <2>. QED
        BY <2>1, <2>2, <2>3, <2>4
<1>7. WinOK'
    BY <1>1, <1>2, WindowWhole, WholeOK DEF EraseBlock, EraseIgnored, EraseStatus, EraseFail
<1>. QED
    BY <1>4, <1>5, <1>6, <1>7, Parts

LEMMA MarkPageIInv ==
    ASSUME IInv, MarkPage
    PROVE  IInv'
<1>1. ChipOK /\ RamOK /\ CallOK /\ WinOK /\ CallTyped /\ op = "mark"
    BY Parts DEF MarkPage, CallOK
<1>2. row \in MarkerRows /\ todo \in SUBSET Rows /\ faulty \in BOOLEAN /\ range \subseteq Blks
    BY <1>1, EraseRow DEF CallTyped
<1>3. MarkOf(row) \subseteq [row : Rows, bad : BOOLEAN]
      /\ \A p \in MarkOf(row) : p.bad => p.row \in MarkerRows
    BY <1>1, <1>2, MarkFits
<1>4. PICK blks : TakeOver(MarkOf(row), blks)
    BY DEF MarkPage
<1>5. mark' \subseteq MarkerRows /\ suspect' \subseteq Blks
    BY <1>1, <1>3, <1>4, TakeOverOK
<1>6. ChipOK'
    BY <1>1, <1>5 DEF MarkPage, Free, ChipOK, PendFits, Modes
<1>7. RamOK'
    <2>1. left = 1 => TableBlk(row) \in Blks
        BY <1>1, Geometry DEF CallOK, CallFits, TableBlk, GeometryFacts
    <2>2. bbt' \subseteq Blks /\ retired' \subseteq Blks
        BY <1>1, <1>2, <2>1, Zenon DEF MarkPage, RamOK
    <2>. QED
        BY <1>1, <1>5, <2>2 DEF MarkPage, RamOK, ecc
<1>8. CallOK'
    BY <1>1, <1>2, MarkOn DEF MarkPage
<1>9. WinOK'
    BY <1>1, WindowWhole, WholeOK DEF MarkPage
<1>. QED
    BY <1>6, <1>7, <1>8, <1>9, Parts

LEMMA MarkFailIInv ==
    ASSUME IInv, MarkFail
    PROVE  IInv'
<1>1. ChipOK /\ RamOK /\ CallOK /\ WinOK /\ CallTyped /\ op = "mark"
    BY Parts DEF MarkFail, CallOK
<1>2. row \in MarkerRows /\ range \subseteq Blks
    BY <1>1, EraseRow DEF CallTyped
<1>3. Stains(MarkOf(row)) \subseteq MarkerRows
    BY <1>1, <1>2, MarkFits, StainsFit
<1>4. Stains(pend) \subseteq MarkerRows /\ BlksOf(pend) \subseteq Blks
    BY <1>1, StainsFit DEF ChipOK, PendFits
<1>5. mark' \subseteq MarkerRows /\ suspect' \subseteq Blks
    <2>1. CASE UNCHANGED <<mark, mode, pend>> /\ suspect' = suspect \union range
        BY <1>1, <1>2, <2>1 DEF ChipOK, RamOK
    <2>2. ASSUME NEW ps \in {{}, MarkOf(row)}, NEW m \in {{}, Stains(pend)},
                 mark' = mark \union Stains(ps) \union m,
                 suspect' = suspect \union range \union BlksOf(pend)
          PROVE  mark' \subseteq MarkerRows /\ suspect' \subseteq Blks
        <3>1. Stains({}) = {}
            BY Zenon DEF Stains
        <3>2. Stains(ps) \subseteq MarkerRows
            BY <1>3, <3>1, <2>2
        <3>. QED
            BY <1>1, <1>2, <1>4, <2>2, <3>2 DEF ChipOK, RamOK
    <2>. QED
        BY <2>1, <2>2, Zenon DEF MarkFail
<1>6. (pend' = pend \/ pend' = {}) /\ (mode' = mode \/ mode' = "ready") /\ reg' = reg
    BY DEF MarkFail
<1>7. ChipOK'
    BY <1>1, <1>5, <1>6 DEF ChipOK, PendFits, Modes
<1>8. RamOK'
    BY <1>1, <1>5 DEF MarkFail, RamOK, ecc
<1>9. CallOK'
    BY <1>1, FinishOK DEF MarkFail, Error
<1>10. WinOK'
    BY <1>1, WindowWhole, WholeOK DEF MarkFail
<1>. QED
    BY <1>7, <1>8, <1>9, <1>10, Parts
-----------------------------------------------------------------------------
(* Reads. *)

\* Reads leave the array and the table alone.
LEMMA ReadOK ==
    ASSUME ChipOK, RamOK, UNCHANGED <<mark, pend, bbt, ecc, ghosts>>,
           mode' \in Modes, reg' \in Nat, bufOob' \in {"ff", "bad"}
    PROVE  ChipOK' /\ RamOK'
<1>1. ChipOK'
    BY DEF ChipOK, PendFits
<1>2. RamOK'
    BY DEF RamOK, ecc, ghosts
<1>. QED
    BY <1>1, <1>2

\* What holds in the middle of a read or program.
LEMMA Transferring ==
    ASSUME CallOK, op \in {"read", "program"}
    PROVE  /\ left \in Nat /\ left > 0 /\ row \in Nat /\ row \in Rows /\ op # "off"
           /\ todo \in SUBSET Rows /\ Unread \in SUBSET Rows /\ faulty \in BOOLEAN
           /\ Whole \in Int /\ Whole <= left
           /\ ~PartOfPage => "head" \notin part /\ Whole >= 1
           /\ pc = "seq" => "head" \notin part /\ Whole >= 1
<1>1. /\ left \in Nat /\ left > 0 /\ row \in Rows /\ todo \subseteq Rows /\ faulty \in BOOLEAN
      /\ (pc = "seq" => "head" \notin part /\ Whole >= 1)
    BY DEF CallOK, CallTyped, CallFits, SequenceFits
<1>2. Whole \in Int /\ Whole <= left /\ (~PartOfPage => "head" \notin part /\ Whole >= 1)
    BY <1>1 DEF Whole, PartOfPage
<1>3. Unread \subseteq Rows
    BY <1>1, Zenon DEF Unread
<1>. QED
    BY <1>1, <1>2, <1>3, Geometry DEF GeometryFacts

LEMMA OobReadFits == RamOK => OobRead \subseteq {"ff", "bad"}
BY DEF RamOK, OobRead, Oob

LEMMA ReadStartIInv ==
    ASSUME IInv, ReadStart
    PROVE  IInv'
<1>1. ChipOK /\ RamOK /\ CallOK /\ WinOK /\ op = "read"
    BY Parts DEF ReadStart
<1>2. mode' \in Modes /\ reg' \in Nat /\ bufOob' \in {"ff", "bad"}
    BY <1>1, Transferring DEF ReadStart, ReadArray, ChipOK, RamOK, Modes
<1>3. ChipOK' /\ RamOK'
    BY <1>1, <1>2, ReadOK DEF ReadStart
<1>4. /\ op' = op /\ row' = row /\ left' = left /\ part' = part /\ range' = range
      /\ todo' = todo /\ result' = result /\ faulty' \in BOOLEAN /\ type' = type
      /\ pc' = IF PartOfPage \/ Whole = 1 THEN "data" ELSE "seq"
    BY <1>1, Transferring DEF ReadStart, ecc
<1>5. (PartOfPage' <=> PartOfPage) /\ Whole' = Whole
    BY <1>4 DEF PartOfPage, Whole
<1>6. CallOK'
    <2>1. CallTyped'
        BY <1>1, <1>4 DEF CallOK, CallTyped, Pcs
    <2>2. CallFits'
        BY <1>1, <1>4 DEF CallOK, CallFits
    <2>3. SequenceFits'
        BY <1>1, <1>4, <1>5, Transferring DEF SequenceFits
    <2>. QED
        BY <2>1, <2>2, <2>3 DEF CallOK
<1>7. WinOK'
    <2>1. win' \in Windows
        BY DEF ReadStart
    <2>2. CASE SW /\ PartOfPage
        BY <1>1, <1>4, <1>5, <2>1, <2>2, WindowsFit DEF WinOK, WholeWindow, SW
    <2>3. CASE ~(SW /\ PartOfPage)
        BY <1>1, <2>1, <2>3, WindowWhole, WholeOK DEF Windows
    <2>. QED
        BY <2>2, <2>3
<1>. QED
    BY <1>3, <1>6, <1>7, Parts

LEMMA ReadDataIInv ==
    ASSUME IInv, ReadData
    PROVE  IInv'
<1>1. ChipOK /\ RamOK /\ CallOK /\ WinOK /\ op = "read" /\ pc = "data"
    BY Parts DEF ReadData
<1>2. mode' \in Modes /\ reg' \in Nat /\ bufOob' \in {"ff", "bad"}
    BY <1>1, OobReadFits DEF ReadData, Free, ChipOK, RamOK, Modes
<1>3. ChipOK' /\ RamOK'
    BY <1>1, <1>2, ReadOK DEF ReadData
<1>4. CASE SW /\ PartOfPage
    <2>1. /\ op' = op /\ row' = row /\ left' = left /\ part' = part /\ range' = range
          /\ todo' = todo /\ result' = result /\ faulty' = faulty /\ type' = type
          /\ pc' = "oob" /\ win' = win
        BY <1>4 DEF ReadData, ecc
    <2>2. PartOfPage' /\ SW'
        BY <1>4, <2>1 DEF PartOfPage, SW
    <2>3. CallTyped'
        BY <1>1, <2>1 DEF CallOK, CallTyped, Pcs
    <2>4. CallFits'
        BY <1>1, <2>1 DEF CallOK, CallFits
    <2>5. SequenceFits'
        BY <1>1, <2>1, <2>2 DEF SequenceFits
    <2>6. WinOK'
        BY <1>1, <2>1, <2>2 DEF WinOK, WholeWindow
    <2>. QED
        BY <1>3, <2>3, <2>4, <2>5, <2>6, Parts DEF CallOK
<1>5. CASE ~(SW /\ PartOfPage)
    <2>1. CallOK'
        BY <1>1, <1>5, Transferring, AdvanceOK DEF ReadData
    <2>2. WinOK'
        BY <1>1, <1>5, WindowWhole, WholeOK DEF ReadData
    <2>. QED
        BY <1>3, <2>1, <2>2, Parts
<1>. QED
    BY <1>4, <1>5

LEMMA ReadOobIInv ==
    ASSUME IInv, ReadOob
    PROVE  IInv'
<1>1. ChipOK /\ RamOK /\ CallOK /\ WinOK /\ op = "read"
    BY Parts DEF ReadOob
<1>2. mode' \in Modes /\ reg' \in Nat /\ bufOob' \in {"ff", "bad"}
    BY <1>1 DEF ReadOob, Free, ChipOK, RamOK, Modes
<1>3. ChipOK' /\ RamOK'
    BY <1>1, <1>2, ReadOK DEF ReadOob
<1>4. CallOK'
    BY <1>1, Transferring, AdvanceOK DEF ReadOob
<1>5. WinOK'
    BY <1>1, ReleasedWhole, WholeOK DEF ReadOob
<1>. QED
    BY <1>3, <1>4, <1>5, Parts

LEMMA ReadSeqIInv ==
    ASSUME IInv, ReadSeq
    PROVE  IInv'
<1>1. ChipOK /\ RamOK /\ CallOK /\ WinOK /\ op = "read" /\ pc = "seq"
    BY Parts DEF ReadSeq
<1>2. mode' \in Modes /\ reg' \in Nat /\ bufOob' \in {"ff", "bad"}
    BY <1>1, OobReadFits DEF ReadSeq, Free, ChipOK, RamOK, Modes
<1>3. ChipOK' /\ RamOK'
    BY <1>1, <1>2, ReadOK DEF ReadSeq
<1>4. CallOK'
    <2>1. CASE Whole = 1
        BY <1>1, <2>1, Transferring, AdvanceOK DEF ReadSeq
    <2>2. CASE Whole # 1
        <3>1. Whole > 1 /\ Advance("seq", 1, Unread, faulty)
            BY <1>1, <2>2, Transferring DEF ReadSeq
        <3>. QED
            BY <1>1, <3>1, Transferring, AdvanceOK
    <2>. QED
        BY <2>1, <2>2
<1>5. WinOK'
    BY <1>1, WindowWhole, WholeOK DEF ReadSeq
<1>. QED
    BY <1>3, <1>4, <1>5, Parts

LEMMA ReadFailIInv ==
    ASSUME IInv, ReadFail
    PROVE  IInv'
<1>1. ChipOK /\ RamOK /\ CallOK /\ WinOK /\ op = "read"
    BY Parts DEF ReadFail
<1>2. mode' \in Modes /\ reg' \in Nat /\ bufOob' \in {"ff", "bad"}
    BY <1>1 DEF ReadFail, ChipOK, RamOK, Modes
<1>3. ChipOK' /\ RamOK'
    BY <1>1, <1>2, ReadOK DEF ReadFail
<1>4. CallOK'
    BY <1>1, FinishOK DEF ReadFail, Error
<1>5. WinOK'
    BY <1>1, ReleasedWhole, WholeOK DEF ReadFail
<1>. QED
    BY <1>3, <1>4, <1>5, Parts
-----------------------------------------------------------------------------
(* Programs. *)

\* Programs leave the table alone; the chip holds at most the page programmed.
LEMMA ProgramOK ==
    ASSUME ChipOK, RamOK, CallTyped, UNCHANGED <<bbt, ecc, retired>>,
           mark' \subseteq MarkerRows, suspect' \subseteq Blks, mode' \in Modes,
           reg' \in Nat, pend' \in {{}, pend, Page}, bufOob' \in {"ff", "bad"}
    PROVE  ChipOK' /\ RamOK'
<1>1. Page \subseteq [row : Rows, bad : BOOLEAN] /\ \A p \in Page : p.bad => p.row \in MarkerRows
    BY PageFits
<1>2. pend' \subseteq [row : Rows, bad : BOOLEAN] /\ \A p \in pend' : p.bad => p.row \in MarkerRows
    BY <1>1, Zenon DEF ChipOK, PendFits
<1>3. ChipOK'
    BY <1>2 DEF ChipOK, PendFits
<1>4. RamOK'
    BY DEF RamOK, ecc
<1>. QED
    BY <1>3, <1>4

\* The pages on their way to the array.
LEMMA StainsOfPages ==
    ASSUME ChipOK, CallTyped
    PROVE  /\ Stains(pend) \subseteq MarkerRows /\ BlksOf(pend) \subseteq Blks
           /\ Stains(Page) \subseteq MarkerRows /\ BlksOf(Page) \subseteq Blks
           /\ Stains(pend \union Page) \subseteq MarkerRows /\ BlksOf(pend \union Page) \subseteq Blks
<1>1. Page \subseteq [row : Rows, bad : BOOLEAN] /\ \A p \in Page : p.bad => p.row \in MarkerRows
    BY PageFits
<1>2. pend \subseteq [row : Rows, bad : BOOLEAN] /\ \A p \in pend : p.bad => p.row \in MarkerRows
    BY DEF ChipOK, PendFits
<1>3. pend \union Page \subseteq [row : Rows, bad : BOOLEAN]
      /\ \A p \in pend \union Page : p.bad => p.row \in MarkerRows
    BY <1>1, <1>2, Zenon
<1>. QED
    BY <1>1, <1>2, <1>3, StainsFit

\* No page is taken over but those of a cache program before.
LEMMA TakeNone ==
    ASSUME ChipOK, RamOK, NEW blks, TakeOver({}, blks)
    PROVE  mark' \subseteq MarkerRows /\ suspect' \subseteq Blks
BY TakeOverOK

LEMMA TakePage ==
    ASSUME ChipOK, RamOK, CallTyped, NEW blks, TakeOver(Page, blks)
    PROVE  mark' \subseteq MarkerRows /\ suspect' \subseteq Blks
BY TakeOverOK, PageFits

LEMMA ProgramPageIInv ==
    ASSUME IInv, ProgramPage
    PROVE  IInv'
<1>1. ChipOK /\ RamOK /\ CallOK /\ CallTyped /\ WinOK /\ op = "program"
    BY Parts DEF ProgramPage, CallOK
<1>2. mark' \subseteq MarkerRows /\ suspect' \subseteq Blks
    BY <1>1, TakePage DEF ProgramPage
<1>3. ChipOK' /\ RamOK'
    <2>1. mode' \in Modes /\ reg' \in Nat /\ pend' = {} /\ bufOob' \in {"ff", "bad"}
          /\ UNCHANGED <<bbt, ecc, retired>>
        BY <1>1 DEF ProgramPage, Free, Modes, RamOK
    <2>. QED
        BY <1>1, <1>2, <2>1, ProgramOK
<1>4. CallOK'
    BY <1>1, Transferring, AdvanceOK DEF ProgramPage
<1>5. WinOK'
    BY <1>1, WindowWhole, WholeOK DEF ProgramPage
<1>. QED
    BY <1>3, <1>4, <1>5, Parts

LEMMA LoadPartIInv ==
    ASSUME IInv, LoadPart
    PROVE  IInv'
<1>1. ChipOK /\ RamOK /\ CallOK /\ CallTyped /\ WinOK /\ op = "program"
    BY Parts DEF LoadPart, CallOK
<1>2. mark' \subseteq MarkerRows /\ suspect' \subseteq Blks
    BY <1>1, TakeNone DEF LoadPart
<1>3. ChipOK' /\ RamOK'
    <2>1. mode' \in Modes /\ reg' \in Nat /\ pend' = {} /\ bufOob' \in {"ff", "bad"}
          /\ UNCHANGED <<bbt, ecc, retired>>
        BY <1>1 DEF LoadPart, Modes, ChipOK
    <2>. QED
        BY <1>1, <1>2, <2>1, ProgramOK
<1>4. /\ op' = op /\ row' = row /\ left' = left /\ part' = part /\ range' = range
      /\ todo' = todo /\ result' = result /\ faulty' = faulty /\ type' = type
      /\ pc' = "oob" /\ win' \in Windows
    BY DEF LoadPart, ecc
<1>5. PartOfPage' /\ SW'
    BY <1>4 DEF PartOfPage, SW, LoadPart
<1>6. CallTyped'
    BY <1>1, <1>4 DEF CallTyped, Pcs
<1>7. CallFits'
    BY <1>1, <1>4 DEF CallOK, CallFits
<1>8. SequenceFits'
    BY <1>1, <1>4, <1>5 DEF SequenceFits
<1>9. WinOK'
    BY <1>1, <1>4, <1>5, WindowsFit DEF WinOK, WholeWindow
<1>. QED
    BY <1>3, <1>6, <1>7, <1>8, <1>9, Parts DEF CallOK

LEMMA PartIInv ==
    ASSUME IInv, ProgramPart \/ PartLost
    PROVE  IInv'
<1>1. ChipOK /\ RamOK /\ CallOK /\ WinOK /\ op = "program"
    BY Parts DEF ProgramPart, PartLost
<1>2. ChipOK'
    <2>1. mark' = mark /\ pend' = pend /\ mode' \in {mode, "ready"} /\ reg' \in {reg, 0}
        BY Zenon DEF ProgramPart, PartLost, Free
    <2>. QED
        BY <1>1, <2>1 DEF ChipOK, PendFits, Modes
<1>3. RamOK'
    BY <1>1 DEF ProgramPart, PartLost, RamOK, ecc, ghosts
<1>4. CallOK'
    <2>1. CASE ProgramPart
        <3>1. todo \ {row} \in SUBSET Rows
            BY <1>1, Transferring
        <3>. QED
            BY <1>1, <2>1, <3>1, Transferring, AdvanceOK DEF ProgramPart
    <2>2. CASE PartLost
        <3>1. CASE Error
            BY <1>1, <3>1, FinishOK DEF Error
        <3>2. ASSUME NEW undone \in {todo, todo \ {row}}, Advance("first", 1, undone, TRUE)
              PROVE  CallOK'
            <4>1. undone \in SUBSET Rows
                BY <1>1, Transferring
            <4>2. AdvanceBad(1, undone)
                BY <3>2 DEF AdvanceBad
            <4>. QED
                BY <1>1, <4>1, <4>2, Transferring, AdvanceFaulty
        <3>. QED
            BY <2>2, <3>1, <3>2 DEF PartLost
    <2>. QED
        BY <2>1, <2>2
<1>5. WinOK'
    BY <1>1, ReleasedWhole, WholeOK DEF ProgramPart, PartLost
<1>. QED
    BY <1>2, <1>3, <1>4, <1>5, Parts

LEMMA CachedFacts ==
    ASSUME IInv, Cached
    PROVE  /\ op = "program" /\ win = WholePage /\ "head" \notin part /\ Whole >= 1
           /\ left > 0 /\ Whole \in Nat /\ Whole <= left
<1>1. CallOK /\ WinOK /\ op = "program" /\ ~PartOfPage
    BY Parts DEF Cached
<1>. QED
    BY <1>1, Transferring, WindowWhole

LEMMA CacheStepIInv ==
    ASSUME IInv, CacheStep
    PROVE  IInv'
<1>1. ChipOK /\ RamOK /\ CallOK /\ CallTyped /\ WinOK /\ op = "program" /\ Cached
    BY Parts DEF CacheStep, Cached, CallOK
<1>2. /\ win = WholePage /\ "head" \notin part /\ Whole >= 1 /\ left > 0 /\ left \in Nat
      /\ Whole \in Nat /\ Whole <= left /\ todo \in SUBSET Rows /\ faulty \in BOOLEAN
    BY <1>1, CachedFacts, Transferring
<1>3. WinOK'
    BY <1>2, WholeOK DEF CacheStep
<1> DEFINE finished == {p.row : p \in pend \ Abandoned}
<1>4. CASE Whole = 1
    <2>1. TakeOver(Page, {}) /\ Advance("first", 1, todo \ ({row} \union finished), faulty)
          /\ Free /\ pend' = {}
        BY <1>4 DEF CacheStep
    <2>2. mark' \subseteq MarkerRows /\ suspect' \subseteq Blks
        BY <1>1, <2>1, TakePage
    <2>3. todo \ ({row} \union finished) \in SUBSET Rows
        BY <1>2
    <2>. HIDE DEF finished
    <2>4. CallOK'
        BY <1>1, <1>2, <2>1, <2>3, AdvanceOK
    <2>5. mode' \in Modes /\ reg' \in Nat /\ bufOob' \in {"ff", "bad"}
          /\ UNCHANGED <<bbt, ecc, retired>>
        BY <1>1, <2>1 DEF CacheStep, Free, Modes, RamOK
    <2>6. ChipOK' /\ RamOK'
        BY <1>1, <2>1, <2>2, <2>5, ProgramOK
    <2>. QED
        BY <1>3, <2>4, <2>6, Parts
<1>5. CASE Whole # 1
    <2>1. TakeOver({}, {}) /\ Advance("seq", 1, todo \ finished, faulty)
          /\ mode' = "cache" /\ pend' = Page /\ UNCHANGED reg
        BY <1>5 DEF CacheStep
    <2>2. mark' \subseteq MarkerRows /\ suspect' \subseteq Blks
        BY <1>1, <2>1, TakeNone
    <2>3. todo \ finished \in SUBSET Rows
        BY <1>2
    <2>. HIDE DEF finished
    <2>4. CallOK'
        BY <1>1, <1>2, <1>5, <2>1, <2>3, AdvanceOK
    <2>5. mode' \in Modes /\ reg' \in Nat /\ bufOob' \in {"ff", "bad"}
          /\ UNCHANGED <<bbt, ecc, retired>>
        BY <1>1, <2>1 DEF CacheStep, Modes, RamOK, ChipOK
    <2>6. ChipOK' /\ RamOK'
        BY <1>1, <2>1, <2>2, <2>5, ProgramOK
    <2>. QED
        BY <1>3, <2>4, <2>6, Parts
<1>. QED
    BY <1>4, <1>5

LEMMA CacheStatusIInv ==
    ASSUME IInv, CacheStatus \/ LastStatus
    PROVE  IInv'
<1>1. ChipOK /\ RamOK /\ CallOK /\ CallTyped /\ WinOK /\ op = "program" /\ Cached
    BY Parts DEF CacheStatus, LastStatus, Cached, CallOK
<1>2. /\ win = WholePage /\ "head" \notin part /\ Whole >= 1 /\ left > 0 /\ left \in Nat
      /\ Whole \in Nat /\ Whole <= left /\ todo \in SUBSET Rows
    BY <1>1, CachedFacts, Transferring
<1>3. WinOK'
    BY <1>2, WholeOK DEF CacheStatus, LastStatus
<1>4. mark' \subseteq MarkerRows /\ suspect' \subseteq Blks
    <2>1. CASE CacheStatus
        <3>1. PICK m \in SUBSET Stains(pend) : mark' = mark \union m
            BY <2>1 DEF CacheStatus
        <3>. QED
            BY <1>1, <2>1, <3>1, StainsOfPages DEF CacheStatus, ChipOK, RamOK
    <2>2. CASE LastStatus
        <3>1. PICK m \in SUBSET Stains(Page) : mark' = mark \union Stains(pend) \union m
            BY <2>2 DEF LastStatus
        <3>. QED
            BY <1>1, <2>2, <3>1, StainsOfPages DEF LastStatus, ChipOK, RamOK
    <2>. QED
        BY <2>1, <2>2
<1>5. mode' \in Modes /\ reg' \in Nat /\ bufOob' \in {"ff", "bad"} /\ pend' \in {{}, Page}
      /\ UNCHANGED <<bbt, ecc, retired>>
    <2>1. CASE CacheStatus
        BY <1>1, <2>1 DEF CacheStatus, Modes, RamOK, ChipOK
    <2>2. CASE LastStatus
        BY <1>1, <2>2 DEF LastStatus, Free, Modes, RamOK
    <2>. QED
        BY <2>1, <2>2
<1>6. ChipOK' /\ RamOK'
    BY <1>1, <1>4, <1>5, ProgramOK
<1>7. CallOK'
    <2>1. CASE CacheStatus
        <3>1. AdvanceBad(Whole, todo)
            BY <2>1 DEF CacheStatus, AdvanceBad
        <3>. QED
            BY <1>1, <1>2, <3>1, AdvanceFaulty
    <2>2. CASE LastStatus
        <3>1. todo \ {p.row : p \in pend} \in SUBSET Rows
            BY <1>2
        <3>2. AdvanceBad(1, todo \ {p.row : p \in pend}) /\ 1 <= left
            BY <1>2, <2>2 DEF LastStatus, AdvanceBad
        <3>. QED
            BY <1>1, <1>2, <3>1, <3>2, AdvanceFaulty
    <2>. QED
        BY <2>1, <2>2
<1>. QED
    BY <1>3, <1>6, <1>7, Parts

LEMMA ProgramFailIInv ==
    ASSUME IInv, ProgramFail
    PROVE  IInv'
<1>1. ChipOK /\ RamOK /\ CallOK /\ CallTyped /\ WinOK /\ op = "program"
    BY Parts DEF ProgramFail, CallOK
<1>2. mark' \subseteq MarkerRows /\ suspect' \subseteq Blks
    <2>1. CASE UNCHANGED <<mark, mode, pend, suspect>>
        BY <1>1, <2>1 DEF ChipOK, RamOK
    <2>2. ASSUME NEW m \in SUBSET Stains(pend \union Page), mark' = mark \union m,
                 suspect' = suspect \union BlksOf(pend \union Page)
          PROVE  mark' \subseteq MarkerRows /\ suspect' \subseteq Blks
        BY <1>1, <2>2, StainsOfPages DEF ChipOK, RamOK
    <2>. QED
        BY <2>1, <2>2, Zenon DEF ProgramFail
<1>3. mode' \in Modes /\ reg' \in Nat /\ bufOob' \in {"ff", "bad"} /\ pend' \in {{}, pend, Page}
      /\ UNCHANGED <<bbt, ecc, retired>>
    BY <1>1 DEF ProgramFail, Modes, RamOK, ChipOK
<1>4. ChipOK' /\ RamOK'
    BY <1>1, <1>2, <1>3, ProgramOK
<1>5. CallOK'
    BY <1>1, FinishOK DEF ProgramFail, Error
<1>6. WinOK'
    BY <1>1, ReleasedWhole, WholeOK DEF ProgramFail
<1>. QED
    BY <1>4, <1>5, <1>6, Parts
-----------------------------------------------------------------------------
LEMMA StutterIInv ==
    ASSUME IInv, UNCHANGED vars
    PROVE  IInv'
<1>1. ChipOK /\ RamOK /\ CallOK /\ WinOK
    BY Parts
<1>. USE DEF vars, chip, ecc, call, ghosts
<1>2. ChipOK'
    BY <1>1 DEF ChipOK, PendFits
<1>3. RamOK'
    BY <1>1 DEF RamOK
<1>4. CallOK'
    BY <1>1 DEF CallOK, CallTyped, CallFits, SequenceFits, SW, PartOfPage, Whole
<1>5. WinOK'
    BY <1>1 DEF WinOK, WholeWindow, SW, PartOfPage
<1>. QED
    BY <1>2, <1>3, <1>4, <1>5, Parts

LEMMA NextIInv == IInv /\ [Next]_vars => IInv'
<1> SUFFICES ASSUME IInv, [Next]_vars PROVE IInv'
    OBVIOUS
<1>1. CASE Setup \/ ScanFail \/ PowerCut
    BY <1>1, PowerIInv
<1>2. CASE Application
    BY <1>2, ApplicationIInv
<1>3. CASE Driver
    BY <1>3, ScanIInv, EraseIInv, MarkPageIInv, ReadStartIInv, ReadDataIInv, ReadOobIInv,
       ReadSeqIInv, ProgramPageIInv, LoadPartIInv, PartIInv, CacheStepIInv DEF Driver
<1>4. CASE Failure /\ ~ScanFail
    BY <1>4, EraseIInv, MarkFailIInv, ReadFailIInv, PartIInv, CacheStatusIInv,
       ProgramFailIInv DEF Failure
<1>5. CASE Settle
    BY <1>5, SettleIInv
<1>6. CASE UNCHANGED vars
    BY <1>6, StutterIInv
<1>. QED
    BY <1>1, <1>2, <1>3, <1>4, <1>5, <1>6 DEF Next, Failure

\* The inductive invariant holds in every reachable state.
THEOREM Invariant == Spec => []IInv
<1>1. Init => IInv
    BY InitIInv
<1>2. IInv /\ [Next]_vars => IInv'
    BY NextIInv
<1>. QED
    BY <1>1, <1>2, PTL DEF Spec

\* Every variable keeps its type: no command of rawnand_read, _program, _erase,
\* _set_bb or _scan_bb addresses a row outside the chip.
THEOREM TypeCorrect == Spec => []TypeOK
<1>1. IInv => TypeOK
    BY DEF IInv
<1>. QED
    BY <1>1, Invariant, PTL

\* Whole pages are encoded and corrected in all their ECC steps, whichever way
\* an earlier access to a part of a page ended (rawnand_unalign_read, _pgm).
THEOREM WindowRestored == Spec => []WholeWindow
<1>1. IInv => WholeWindow
    BY DEF IInv
<1>. QED
    BY <1>1, Invariant, PTL
-----------------------------------------------------------------------------
(* Retired blocks stay bad, in a chip whose layout has a marker. *)

\* Steps that take no marker off the flash and no block out of the table.
LEMMA QuietRInv ==
    ASSUME RInv, op \notin {"off", "probe"}, op' \notin {"off", "probe"},
           mark \subseteq mark', retired' = retired, bbt' = bbt,
           op' \in {"pre_erase", "mark"} =>
              op' = op /\ bufOob' = bufOob /\ row' = row /\ left' = left
    PROVE  RInv'
<1>1. RetiredMarked'
    BY DEF RInv, RetiredMarked
<1>2. RetiredKnown'
    BY DEF RInv, RetiredKnown
<1>. QED
    BY <1>1, <1>2 DEF RInv

LEMMA TakeOverGrows ==
    ASSUME NEW ps, NEW blks, TakeOver(ps, blks)
    PROVE  mark \subseteq mark'
BY Zenon DEF TakeOver

\* How a read or program goes on.
LEMMA AdvanceOp ==
    ASSUME NEW p, NEW n, NEW rows, NEW fault, Advance(p, n, rows, fault)
    PROVE  op' \in {op, "idle"}
BY DEF Advance, Finish

LEMMA TransferRInv ==
    ASSUME RInv,
           \/ ReadStart \/ ReadData \/ ReadOob \/ ReadSeq \/ ReadFail
           \/ ProgramPage \/ LoadPart \/ ProgramPart \/ CacheStep
           \/ PartLost \/ CacheStatus \/ LastStatus \/ ProgramFail
    PROVE  RInv'
<1>1. CASE ReadStart \/ ReadData \/ ReadOob \/ ReadSeq \/ ReadFail
    <2>1. op = "read" /\ mark' = mark /\ retired' = retired /\ bbt' = bbt
        BY <1>1 DEF ReadStart, ReadData, ReadOob, ReadSeq, ReadFail, ghosts
    <2>2. op' \in {op, "idle"}
        BY <1>1, AdvanceOp DEF ReadStart, ReadData, ReadOob, ReadSeq, ReadFail, Error, Finish
    <2>. QED
        BY <2>1, <2>2, QuietRInv
<1>2. CASE ProgramPage \/ LoadPart \/ ProgramPart \/ CacheStep
    <2>1. op = "program" /\ retired' = retired /\ bbt' = bbt
        BY <1>2 DEF ProgramPage, LoadPart, ProgramPart, CacheStep, Cached, ghosts
    <2>2. op' \in {op, "idle"}
        BY <1>2, AdvanceOp DEF ProgramPage, LoadPart, ProgramPart, CacheStep
    <2>3. mark \subseteq mark'
        BY <1>2, TakeOverGrows DEF ProgramPage, LoadPart, ProgramPart, CacheStep
    <2>. QED
        BY <2>1, <2>2, <2>3, QuietRInv
<1>3. CASE PartLost \/ CacheStatus \/ LastStatus \/ ProgramFail
    <2>1. op = "program" /\ retired' = retired /\ bbt' = bbt
        BY <1>3, Zenon DEF PartLost, CacheStatus, LastStatus, ProgramFail, Cached, ghosts
    <2>2. op' \in {op, "idle"}
        <3>1. CASE PartLost
            BY <3>1, AdvanceOp DEF PartLost, Error, Finish
        <3>2. CASE CacheStatus \/ LastStatus
            BY <3>2, AdvanceOp DEF CacheStatus, LastStatus
        <3>3. CASE ProgramFail
            BY <3>3 DEF ProgramFail, Error, Finish
        <3>. QED
            BY <1>3, <3>1, <3>2, <3>3
    <2>3. mark \subseteq mark'
        BY <1>3, Zenon DEF PartLost, CacheStatus, LastStatus, ProgramFail
    <2>. QED
        BY <2>1, <2>2, <2>3, QuietRInv
<1>. QED
    BY <1>1, <1>2, <1>3

LEMMA CallRInv ==
    ASSUME HasMarker, RInv, Application
    PROVE  RInv'
<1>1. ASSUME NEW r, NEW n, NEW ends, NEW rows, NEW name \in {"read", "program", "erase"},
             Start(name, r, n, ends, rows)
      PROVE  RInv'
    BY <1>1, QuietRInv DEF Start, ghosts
<1>2. ASSUME NEW b \in Blks, NEW preErase \in BOOLEAN, SetBBCall(b, preErase)
      PROVE  RInv'
    <2>1. op = "idle" /\ op' \in {"pre_erase", "mark"} /\ bufOob' = "bad" /\ left' = 2
          /\ mark' = mark /\ bbt' = bbt /\ retired' = retired
        BY <1>2 DEF SetBBCall, Start, ghosts
    <2>. QED
        BY <2>1 DEF RInv, RetiredMarked, RetiredKnown
<1>3. ASSUME NEW en \in BOOLEAN, SetEccEn(en)
      PROVE  RInv'
    BY <1>3, QuietRInv DEF SetEccEn, call, ghosts
<1>4. ASSUME NEW s \in Spans, EraseCall(s[1], s[2])
      PROVE  RInv'
    BY <1>1, <1>4 DEF EraseCall
<1>5. ASSUME NEW name \in {"read", "program"}, NEW s \in Spans, NEW ends \in SUBSET Ends,
             TransferCall(name, s[1], s[2], ends)
      PROVE  RInv'
    BY <1>1, <1>5 DEF TransferCall
<1>. QED
    BY <1>2, <1>3, <1>4, <1>5 DEF Application

LEMMA PowerRInv ==
    ASSUME HasMarker, IInv, RInv, Setup \/ ScanFail \/ PowerCut
    PROVE  RInv'
<1>1. CASE Setup
    <2>1. op = "off" /\ op' = "probe" /\ mark' = mark /\ retired' = retired /\ mode' = mode
          /\ row' = row
        BY <1>1 DEF Setup, chip
    <2>2. row' = FirstRow(0) + 0 /\ 0 \in Blks
        BY <2>1, Geometry DEF RInv, RetiredKnown, GeometryFacts
    <2>3. \A c \in retired' : c < 0 => c \in bbt'
        BY <2>1, Geometry DEF IInv, TypeOK, GeometryFacts
    <2>. QED
        BY <2>1, <2>2, <2>3 DEF RInv, RetiredMarked, RetiredKnown
<1>2. CASE ScanFail \/ PowerCut
    <2>1. op' = "off" /\ row' = 0 /\ retired' = retired /\ mode' = "ready"
        BY <1>2 DEF ScanFail, PowerCut, Finish, chip, ghosts, RInv, RetiredKnown
    <2>2. mark \subseteq mark'
        BY <1>2 DEF ScanFail, PowerCut
    <2>. QED
        BY <2>1, <2>2 DEF RInv, RetiredMarked, RetiredKnown
<1>. QED
    BY <1>1, <1>2

LEMMA ScanRInv ==
    ASSUME HasMarker, IInv, RInv, ScanPage
    PROVE  RInv'
<1>1. /\ op = "probe" /\ retired \subseteq Blks /\ mark' = mark /\ mode' = mode
      /\ retired' = retired /\ RetiredMarked
    BY DEF ScanPage, chip, ghosts, RInv, IInv, TypeOK
<1>2. PICK b \in Blks, p \in {0, 1} :
          /\ row = FirstRow(b) + p
          /\ p = 1 => FirstRow(b) \notin mark
          /\ \A c \in retired : c < b => c \in bbt
    BY <1>1 DEF RInv, RetiredKnown
<1>3. /\ b \in Nat /\ BlkOf(row) = b /\ FirstRow(b) \in Nat
      /\ FirstRow(b) + 0 = FirstRow(b) /\ (row = FirstRow(b) <=> p = 0)
    <2>1. b \in Nat /\ FirstRow(b) \in Nat
        BY Geometry DEF GeometryFacts
    <2>2. CASE p = 0
        BY <1>2, <2>1, <2>2, Geometry DEF GeometryFacts
    <2>3. CASE p = 1
        BY <1>2, <2>1, <2>3, Geometry DEF GeometryFacts
    <2>. QED
        BY <2>1, <2>2, <2>3
<1>4. bbt' = IF row \in mark THEN bbt \union {b} ELSE bbt
    BY <1>3 DEF ScanPage
<1>5. RetiredMarked'
    <2>1. op' \in {"probe", "idle"}
        BY <1>1 DEF ScanPage, Finish
    <2>. QED
        BY <1>1, <2>1 DEF RetiredMarked
<1>6. CASE p = 0 /\ row \notin mark
    <2>1. ScanNext(row) = row + 1 /\ row + 1 = FirstRow(b) + 1
        BY <1>2, <1>3, <1>6 DEF ScanNext
    <2>2. ~(ScanNext(row) >= ScanEnd)
        BY <2>1, Geometry DEF ScanEnd, GeometryFacts
    <2>3. op' = "probe" /\ row' = FirstRow(b) + 1
        BY <1>1, <2>1, <2>2 DEF ScanPage
    <2>4. FirstRow(b) \notin mark'
        BY <1>1, <1>2, <1>3, <1>6
    <2>5. bbt' = bbt
        BY <1>4, <1>6
    <2>. QED
        BY <1>1, <1>2, <1>5, <2>3, <2>4, <2>5 DEF RInv, RetiredKnown
<1>7. CASE ~(p = 0 /\ row \notin mark)
    <2>1. ScanNext(row) = FirstRow(b + 1)
        BY <1>3, <1>7 DEF ScanNext
    <2>2. b \in retired => b \in bbt'
        <3>1. CASE p = 0
            BY <1>4, <1>7, <3>1
        <3>2. CASE p = 1
            BY <1>1, <1>2, <3>2 DEF RetiredMarked
        <3>. QED
            BY <3>1, <3>2
    <2>3. ASSUME NEW c \in retired, c < b + 1
          PROVE  c \in bbt'
        <3>1. c \in Nat
            BY <1>1, Geometry DEF GeometryFacts
        <3>2. CASE c = b
            BY <2>2, <3>2
        <3>3. CASE c # b
            <4>1. c < b
                BY <1>3, <2>3, <3>1, <3>3
            <4>. QED
                BY <1>2, <1>4, <4>1
        <3>. QED
            BY <3>2, <3>3
    <2>4. CASE ScanNext(row) >= ScanEnd
        <3>1. op' = "idle"
            BY <2>4 DEF ScanPage, Finish
        <3>2. b + 1 \notin Blks
            BY <1>3, <2>1, <2>4, Geometry DEF ScanEnd, GeometryFacts
        <3>3. \A c \in retired : c < b + 1
            BY <1>1, <1>3, <3>2, Geometry DEF GeometryFacts
        <3>4. retired' \subseteq bbt'
            BY <1>1, <2>3, <3>3
        <3>. QED
            BY <1>5, <3>1, <3>4 DEF RInv, RetiredKnown
    <2>5. CASE ~(ScanNext(row) >= ScanEnd)
        <3>1. op' = "probe" /\ row' = FirstRow(b + 1) /\ FirstRow(b + 1) < NRows
            <4>1. FirstRow(b + 1) \in Nat
                BY <1>3, NextBlock
            <4>. QED
                BY <1>1, <2>1, <2>5, <4>1, Geometry DEF ScanPage, ScanEnd, GeometryFacts
        <3>2. b + 1 \in Blks
            BY <3>1, Geometry DEF GeometryFacts
        <3>3. row' = FirstRow(b + 1) + 0
            <4>1. FirstRow(b + 1) \in Nat
                BY <1>3, NextBlock
            <4>. QED
                BY <3>1, <4>1
        <3>4. mode' = "ready"
            BY <1>1 DEF RInv, RetiredKnown
        <3>5. \A c \in retired' : c < b + 1 => c \in bbt'
            BY <1>1, <2>3
        <3>. QED
            BY <1>5, <3>1, <3>2, <3>3, <3>4, <3>5 DEF RInv, RetiredKnown
    <2>. QED
        BY <2>4, <2>5
<1>. QED
    BY <1>6, <1>7

\* The erase of one block, done or not.
LEMMA EraseRInv ==
    ASSUME HasMarker, IInv, RInv, EraseBlock \/ EraseIgnored \/ EraseStatus \/ EraseFail
    PROVE  RInv'
<1> DEFINE b == BlkOf(row)
<1>1. /\ op \in {"erase", "pre_erase"} /\ retired \subseteq Blks /\ retired \subseteq bbt
      /\ RetiredMarked
    BY DEF EraseBlock, EraseIgnored, EraseStatus, EraseFail, RInv, RetiredKnown, IInv, TypeOK
<1>2. /\ mark \ RowsOf(b) \subseteq mark' /\ retired' = retired \ {b} /\ bbt \ {b} \subseteq bbt'
      /\ bufOob' = bufOob
    <2>1. CASE EraseBlock
        BY <2>1 DEF EraseBlock, ClearBB
    <2>2. CASE EraseIgnored
        BY <2>2 DEF EraseIgnored, ClearBB
    <2>3. CASE EraseStatus
        BY <2>3, Zenon DEF EraseStatus
    <2>4. CASE EraseFail
        BY <2>4, Zenon DEF EraseFail
    <2>. QED
        BY <2>1, <2>2, <2>3, <2>4
<1>3. \/ op' \in {"idle", "erase"}
      \/ op = "pre_erase" /\ op' = "mark" /\ left' = left
    BY <1>1 DEF EraseBlock, EraseIgnored, EraseStatus, EraseFail, Erased, Error, Advance, Finish
<1>4. op = "pre_erase" => left = 2
    BY DEF IInv, CallFits
<1>5. \A c \in retired' : FirstRow(c) \in mark' /\ FirstRow(c) + 1 \in mark'
    <2>1. SUFFICES ASSUME NEW c \in retired, c # b
                   PROVE  FirstRow(c) \in mark' /\ FirstRow(c) + 1 \in mark'
        BY <1>2
    <2>2. FirstRow(c) \in mark /\ FirstRow(c) + 1 \in mark
        BY <1>1 DEF RetiredMarked
    <2>3. BlkOf(FirstRow(c)) = c /\ BlkOf(FirstRow(c) + 1) = c
        BY <1>1, Geometry DEF GeometryFacts
    <2>4. FirstRow(c) \notin RowsOf(b) /\ FirstRow(c) + 1 \notin RowsOf(b)
        BY <2>1, <2>3 DEF RowsOf
    <2>. QED
        BY <1>2, <2>2, <2>4
<1>6. RetiredMarked'
    BY <1>1, <1>2, <1>3, <1>4, <1>5 DEF RetiredMarked
<1>7. RetiredKnown'
    BY <1>1, <1>2, <1>3 DEF RetiredKnown
<1>. QED
    BY <1>6, <1>7 DEF RInv

\* The marker that set_bb put into the buffer goes to the page.
LEMMA MarkStains ==
    ASSUME HasMarker, bufOob = "bad"
    PROVE  row \in Stains(MarkOf(row))
<1> DEFINE p == [row |-> row, bad |-> HasMarker /\ bufOob = "bad"]
<1>1. p \in MarkOf(row)
    BY Zenon DEF MarkOf
<1>2. p.bad = (HasMarker /\ bufOob = "bad") /\ p.row = row
    BY Zenon
<1>3. p.bad
    BY <1>2
<1>. HIDE DEF p
<1>. QED
    BY <1>1, <1>2, <1>3, Zenon DEF Stains

LEMMA MarkRInv ==
    ASSUME HasMarker, IInv, RInv, MarkPage
    PROVE  RInv'
<1>1. /\ op = "mark" /\ bufOob = "bad" /\ bufOob' = bufOob /\ RetiredMarked
      /\ retired \subseteq bbt
    BY DEF MarkPage, RInv, RetiredMarked, RetiredKnown
<1>2. PICK b \in Blks :
          /\ range = {b}
          /\ \/ left = 2 /\ row = FirstRow(b)
             \/ left = 1 /\ row = FirstRow(b) + 1
    BY <1>1 DEF IInv, CallFits
<1>3. mark \subseteq mark' /\ row \in mark'
    <2>1. PICK blks : TakeOver(MarkOf(row), blks)
        BY DEF MarkPage
    <2>2. mark \subseteq mark' /\ Stains(MarkOf(row)) \subseteq mark'
        BY <2>1, Zenon DEF TakeOver, Stains
    <2>3. row \in Stains(MarkOf(row))
        BY <1>1, MarkStains
    <2>. QED
        BY <2>2, <2>3
<1>4. CASE left = 1
    <2>1. op' = "idle"
        BY <1>4 DEF MarkPage, Advance, Finish
    <2>2. bbt' = bbt \union {TableBlk(row)} /\ retired' = retired \union {b}
        BY <1>2, <1>4 DEF MarkPage
    <2>3. TableBlk(row) = b /\ row = FirstRow(b) + 1 /\ row - 1 = FirstRow(b)
        BY <1>2, <1>4, Geometry DEF TableBlk, GeometryFacts
    <2>4. FirstRow(b) \in mark' /\ FirstRow(b) + 1 \in mark'
        BY <1>1, <1>3, <1>4, <2>3 DEF RetiredMarked
    <2>5. RetiredMarked'
        BY <1>1, <1>3, <2>1, <2>2, <2>4 DEF RetiredMarked
    <2>6. RetiredKnown'
        BY <1>1, <2>1, <2>2, <2>3 DEF RetiredKnown
    <2>. QED
        BY <2>5, <2>6 DEF RInv
<1>5. CASE left # 1
    <2>1. op' = op /\ row' = row + 1 /\ bbt' = bbt /\ retired' = retired
        BY <1>5 DEF MarkPage, Advance
    <2>2. row' - 1 = row
        BY <1>2, <2>1, Geometry DEF GeometryFacts
    <2>3. RetiredMarked'
        BY <1>1, <1>3, <2>1, <2>2 DEF RetiredMarked
    <2>4. RetiredKnown'
        BY <1>1, <2>1 DEF RetiredKnown
    <2>. QED
        BY <2>3, <2>4 DEF RInv
<1>. QED
    BY <1>4, <1>5

LEMMA NextRInv ==
    ASSUME HasMarker, IInv, RInv, [Next]_vars
    PROVE  RInv'
<1>1. CASE Setup \/ ScanFail \/ PowerCut
    BY <1>1, PowerRInv
<1>2. CASE Application
    BY <1>2, CallRInv
<1>3. CASE ScanPage \/ MarkPage \/ EraseBlock \/ EraseIgnored \/ EraseStatus \/ EraseFail
    BY <1>3, ScanRInv, MarkRInv, EraseRInv
<1>4. CASE MarkFail
    <2>1. op = "mark" /\ op' = "idle" /\ retired' = retired /\ bbt' = bbt
        BY <1>4 DEF MarkFail, Error, Finish
    <2>2. mark \subseteq mark'
        BY <1>4, Zenon DEF MarkFail
    <2>. QED
        BY <2>1, <2>2, QuietRInv
<1>5. CASE Settle
    <2>1. mode = "cache" /\ UNCHANGED <<bbt, bufOob, call, retired>>
        BY <1>5 DEF Settle
    <2>2. op \notin {"off", "probe"} /\ op' = op /\ row' = row /\ left' = left
          /\ bufOob' = bufOob /\ retired' = retired /\ bbt' = bbt
        BY <2>1 DEF call, RInv, RetiredKnown
    <2>3. mark \subseteq mark'
        BY <1>5, TakeOverGrows DEF Settle
    <2>. QED
        BY <2>2, <2>3, QuietRInv
<1>6. CASE UNCHANGED vars
    BY <1>6 DEF vars, chip, call, ecc, ghosts, RInv, RetiredMarked, RetiredKnown
<1>. QED
    BY <1>1, <1>2, <1>3, <1>4, <1>5, <1>6, TransferRInv DEF Next, Driver, Failure

LEMMA InitRInv == Init => RInv
<1> SUFFICES ASSUME Init PROVE RInv
    OBVIOUS
<1>1. RetiredMarked
    BY DEF Init, RetiredMarked
<1>2. RetiredKnown
    BY DEF Init, RetiredKnown
<1>. QED
    BY <1>1, <1>2 DEF RInv

\* A retired block carries its markers and is in the table once it is scanned.
THEOREM RetiredInvariant ==
    ASSUME HasMarker
    PROVE  Spec => []RInv
<1>1. RInv /\ IInv /\ [Next]_vars => RInv'
    BY NextRInv
<1>. QED
    BY <1>1, InitRInv, Invariant, PTL DEF Spec

\* In a chip whose layout has a marker, a block that rawnand_set_bb reported as
\* marked is bad in the table whenever the driver is ready: across failing
\* commands, abandoned cache programs, power cuts and probes.
THEOREM RetiredBlocksStayBad ==
    ASSUME HasMarker
    PROVE  Spec => []RetiredStaysBad
<1>1. RInv => RetiredStaysBad
    BY DEF RInv, RetiredKnown, RetiredStaysBad
<1>. QED
    BY <1>1, RetiredInvariant, PTL
-----------------------------------------------------------------------------
(* Success means that the work is done. *)

\* The rows still to do are those ahead, none when the call ends.
LEMMA AdvanceTrack ==
    ASSUME row \in Nat, left \in Nat, NEW p, NEW n \in Nat, NEW rows, NEW fault,
           rows \subseteq row + n .. row + left - 1, Advance(p, n, rows, fault)
    PROVE  \/ op' = "idle" /\ result' # "undone" /\ left = n
           \/ /\ op' = op /\ pc' = p /\ row' = row + n /\ left # n
              /\ todo' \subseteq row' .. row' + left' - 1
<1>1. CASE left = n
    <2>1. rows = {}
        BY <1>1
    <2>. QED
        BY <1>1, <2>1 DEF Advance, Finish
<1>2. CASE left # n
    <2>1. op' = op /\ pc' = p /\ row' = row + n /\ left' = left - n /\ todo' = rows
        BY <1>2 DEF Advance
    <2>2. row' + left' - 1 = row + left - 1
        BY <2>1
    <2>. QED
        BY <1>2, <2>1, <2>2
<1>. QED
    BY <1>1, <1>2

\* A sequence that leaves the chip ready.
LEMMA DoneTrack ==
    ASSUME row \in Nat, left \in Nat, NEW n \in Nat, NEW rows, NEW fault,
           op \in {"read", "program", "erase", "mark"}, mode' = "ready",
           rows \subseteq row + n .. row + left - 1, Advance("first", n, rows, fault)
    PROVE  DInv'
<1>1. \/ op' = "idle" /\ result' # "undone"
      \/ op' = op /\ pc' = "first" /\ todo' \subseteq row' .. row' + left' - 1
    BY AdvanceTrack
<1>. QED
    BY <1>1 DEF DInv, OnTrack

LEMMA FaultyDInv ==
    ASSUME \/ EraseIgnored \/ EraseStatus \/ EraseFail \/ MarkFail \/ ReadFail
           \/ PartLost \/ CacheStatus \/ LastStatus \/ ProgramFail
    PROVE  DInv'
<1>1. faulty'
    <2>1. CASE EraseIgnored \/ EraseStatus
        BY <2>1 DEF EraseIgnored, EraseStatus, Erased, Advance, Finish
    <2>2. CASE EraseFail \/ MarkFail \/ ReadFail \/ ProgramFail
        BY <2>2 DEF EraseFail, MarkFail, ReadFail, ProgramFail, Error, Finish
    <2>3. CASE PartLost
        <3>1. CASE Error
            BY <3>1 DEF Error, Finish
        <3>2. ASSUME NEW undone, Advance("first", 1, undone, TRUE)
              PROVE  faulty'
            BY <3>2 DEF Advance, Finish
        <3>. QED
            BY <2>3, <3>1, <3>2 DEF PartLost
    <2>4. CASE CacheStatus \/ LastStatus
        BY <2>4 DEF CacheStatus, LastStatus, Advance, Finish
    <2>. QED
        BY <2>1, <2>2, <2>3, <2>4
<1>. QED
    BY <1>1 DEF DInv

\* What is known of a call on which nothing has failed.
LEMMA InCall ==
    ASSUME IInv
    PROVE  /\ row \in Nat /\ row \in Rows /\ left \in Nat /\ todo \subseteq Rows /\ Rows \subseteq Nat
           /\ faulty \in BOOLEAN /\ mode \in Modes
           /\ op \in {"read", "program"} => left > 0 /\ Whole \in Int /\ Whole <= left
           /\ pc = "seq" => Whole >= 1
           /\ Cached => Whole >= 1 /\ "head" \notin part
<1>1. CallOK
    BY Parts
<1>2. /\ row \in Nat /\ row \in Rows /\ left \in Nat /\ todo \subseteq Rows /\ Rows \subseteq Nat
      /\ faulty \in BOOLEAN /\ mode \in Modes /\ (pc = "seq" => Whole >= 1)
    BY Geometry DEF IInv, TypeOK, SequenceFits, GeometryFacts
<1>. QED
    BY <1>1, <1>2, Transferring DEF Cached

LEMMA ReadDInv ==
    ASSUME IInv, DInv, ReadStart \/ ReadData \/ ReadOob \/ ReadSeq
    PROVE  DInv'
<1>1. op = "read" /\ row \in Nat /\ left \in Nat /\ left > 0
    BY InCall DEF ReadStart, ReadData, ReadOob, ReadSeq
<1> SUFFICES ASSUME ~faulty' PROVE OnTrack'
    BY DEF DInv
<1>2. CASE ReadStart
    <2>1. ~faulty /\ mode # "cache"
        BY <1>2 DEF ReadStart
    <2>2. todo \subseteq row .. row + left - 1
        BY <1>1, <2>1 DEF DInv, OnTrack
    <2>3. mode' = "read" /\ reg' = row /\ UNCHANGED <<op, row, left, todo>>
        BY <1>2, <2>1 DEF ReadStart, ReadArray
    <2>. QED
        BY <1>1, <2>2, <2>3 DEF OnTrack
<1>3. ASSUME ~faulty, pc # "first"
      PROVE  /\ mode \in {"read", "seq"} /\ reg = row /\ Unread = todo \ {row}
             /\ Unread \subseteq row + 1 .. row + left - 1
    <2>1. mode \in {"read", "seq"} /\ reg = row /\ todo \subseteq row .. row + left - 1
        BY <1>1, <1>3 DEF DInv, OnTrack
    <2>2. Unread = todo \ {row}
        BY <2>1 DEF Unread, Delivers
    <2>. QED
        BY <1>1, <2>1, <2>2
<1>4. CASE ReadData /\ SW /\ PartOfPage
    <2>1. pc = "data" /\ pc' = "oob" /\ UNCHANGED <<mode, reg, op, row, left, todo, faulty>>
        BY <1>4 DEF ReadData
    <2>2. ~faulty
        BY <2>1
    <2>. QED
        BY <1>1, <2>1, <2>2 DEF DInv, OnTrack
<1>5. CASE (ReadData /\ ~(SW /\ PartOfPage)) \/ ReadOob
    <2>1. pc # "first" /\ Advance("first", 1, Unread, faulty)
          /\ (mode = "cache" \/ mode' = "ready")
        BY <1>5 DEF ReadData, ReadOob, Free
    <2>2. ~faulty
        BY <2>1 DEF Advance, Finish
    <2>3. mode' = "ready" /\ Advance("first", 1, todo \ {row}, faulty)
          /\ todo \ {row} \subseteq row + 1 .. row + left - 1
        BY <1>3, <2>1, <2>2
    <2>4. DInv'
        BY <1>1, <2>3, DoneTrack
    <2>. QED
        BY <2>4 DEF DInv
<1>6. CASE ReadSeq
    <2>1. pc = "seq" /\ Whole \in Int /\ Whole >= 1 /\ Whole <= left
        BY <1>1, <1>6, InCall DEF ReadSeq
    <2>2. ~faulty
        BY <1>6 DEF ReadSeq, Advance, Finish
    <2>3. mode \in {"read", "seq"} /\ reg = row /\ Unread = todo \ {row}
          /\ todo \ {row} \subseteq row + 1 .. row + left - 1
        BY <1>3, <2>1, <2>2
    <2>4. CASE Whole = 1
        <3>1. mode' = "ready" /\ Advance("first", 1, todo \ {row}, faulty)
            BY <1>6, <2>3, <2>4 DEF ReadSeq, LastPage, Free
        <3>2. DInv'
            BY <1>1, <2>3, <3>1, DoneTrack
        <3>. QED
            BY <3>2 DEF DInv
    <2>5. CASE Whole # 1
        <3>1. mode' = "seq" /\ reg' = reg + 1 /\ left # 1
              /\ Advance("seq", 1, todo \ {row}, faulty)
            BY <1>6, <2>1, <2>3, <2>5 DEF ReadSeq, LastPage
        <3>2. op' = op /\ row' = row + 1 /\ todo' \subseteq row' .. row' + left' - 1
            BY <1>1, <2>3, <3>1, AdvanceTrack
        <3>. QED
            BY <1>1, <2>3, <3>1, <3>2 DEF OnTrack
    <2>. QED
        BY <2>4, <2>5
<1>. QED
    BY <1>2, <1>4, <1>5, <1>6

LEMMA ProgramDInv ==
    ASSUME IInv, DInv, ProgramPage \/ LoadPart \/ ProgramPart
    PROVE  DInv'
<1>1. op = "program" /\ pc # "seq" /\ row \in Nat /\ left \in Nat
    BY InCall DEF ProgramPage, LoadPart, ProgramPart
<1> SUFFICES ASSUME ~faulty' PROVE OnTrack'
    BY DEF DInv
<1>2. ~faulty
    BY DEF ProgramPage, LoadPart, ProgramPart, Advance, Finish
<1>3. todo \subseteq row .. row + left - 1
    <2>1. pend \ Abandoned = {}
        BY <1>1 DEF Abandoned
    <2>2. {p.row : p \in pend \ Abandoned} = {}
        BY <2>1, Zenon
    <2>. QED
        BY <1>1, <1>2, <2>2 DEF DInv, OnTrack
<1>4. CASE LoadPart
    <2>1. pc' = "oob" /\ UNCHANGED <<op, row, left, todo>>
        BY <1>4 DEF LoadPart
    <2>. QED
        BY <1>1, <1>3, <2>1 DEF OnTrack
<1>5. CASE ProgramPage \/ ProgramPart
    <2>1. mode' = "ready" /\ Advance("first", 1, todo \ {row}, faulty)
        BY <1>5 DEF ProgramPage, ProgramPart, Free
    <2>2. todo \ {row} \subseteq row + 1 .. row + left - 1
        BY <1>1, <1>3
    <2>. QED
        BY <1>1, <2>1, <2>2, DoneTrack DEF DInv
<1>. QED
    BY <1>4, <1>5

LEMMA CacheDInv ==
    ASSUME IInv, DInv, CacheStep
    PROVE  DInv'
<1> DEFINE finished == {p.row : p \in pend \ Abandoned}
<1>1. /\ op = "program" /\ row \in Nat /\ left \in Nat /\ Whole \in Int /\ Whole >= 1
      /\ Whole <= left /\ Cached
    BY InCall DEF CacheStep, Cached
<1> SUFFICES ASSUME ~faulty' PROVE OnTrack'
    BY DEF DInv
<1>2. ~faulty
    <2>1. \E p, n, rows : Advance(p, n, rows, faulty)
        BY DEF CacheStep
    <2>. QED
        BY <2>1 DEF Advance, Finish
<1>3. todo \ finished \subseteq row .. row + left - 1
    BY <1>1, <1>2, Zenon DEF DInv, OnTrack
<1>4. CASE Whole = 1
    <2>1. Advance("first", 1, todo \ ({row} \union finished), faulty) /\ mode' = "ready"
        BY <1>4 DEF CacheStep, Free
    <2>2. todo \ ({row} \union finished) = (todo \ finished) \ {row}
        BY Zenon
    <2>. HIDE DEF finished
    <2>3. todo \ ({row} \union finished) \subseteq row + 1 .. row + left - 1
        BY <1>1, <1>3, <2>2
    <2>. QED
        BY <1>1, <2>1, <2>3, DoneTrack DEF DInv
<1>5. CASE Whole # 1
    <2>1. Advance("seq", 1, todo \ finished, faulty) /\ mode' = "cache" /\ pend' = Page
        BY <1>5 DEF CacheStep
    <2>. HIDE DEF finished
    <2>2. /\ left # 1 /\ op' = op /\ pc' = "seq" /\ row' = row + 1 /\ left' = left - 1
          /\ todo' = todo \ finished
        BY <1>1, <1>5, <2>1 DEF Advance
    <2>3. row \in {p.row : p \in Page} /\ Page # {}
        <3> DEFINE page == [row |-> row, bad |-> SW /\ ~PartOfPage /\ bufOob = "bad" /\ row \in MarkerRows]
        <3>1. page \in Page
            BY Zenon DEF Page
        <3>2. page.row = row
            BY Zenon
        <3>. HIDE DEF page
        <3>. QED
            BY <3>1, <3>2, Zenon
    <2>4. Abandoned' = {}
        BY <1>1, <2>2 DEF Abandoned
    <2>5. pend' \ Abandoned' = Page
        BY <2>1, <2>4
    <2>6. row \in {p.row : p \in pend' \ Abandoned'}
        BY <2>3, <2>5
    <2>7. todo' \subseteq (row' .. row' + left' - 1) \union {row}
        BY <1>1, <1>3, <2>2
    <2>8. todo' \subseteq (row' .. row' + left' - 1) \union {p.row : p \in pend' \ Abandoned'}
        BY <2>6, <2>7, Zenon
    <2>. QED
        BY <1>1, <2>1, <2>2, <2>3, <2>8 DEF OnTrack
<1>. QED
    BY <1>4, <1>5

LEMMA PowerDInv ==
    ASSUME RInv, DInv, Setup \/ ScanFail \/ PowerCut \/ ScanPage
    PROVE  DInv'
<1>1. CASE Setup
    BY <1>1 DEF Setup, chip, DInv, OnTrack
<1>2. CASE ScanFail
    <2>1. op' = "off" /\ result' = "ok" /\ mode' = "ready"
        BY <1>2 DEF ScanFail, Finish, chip, RInv, RetiredKnown
    <2>. QED
        BY <2>1 DEF DInv, OnTrack
<1>3. CASE PowerCut
    <2>1. op' = "off" /\ result' = "ok" /\ mode' = "ready"
        BY <1>3 DEF PowerCut, Finish
    <2>. QED
        BY <2>1 DEF DInv, OnTrack
<1>4. CASE ScanPage
    <2>1. op = "probe" /\ mode' = "ready"
        BY <1>4 DEF ScanPage, chip, RInv, RetiredKnown
    <2>2. \/ op' = "idle" /\ result' = "ok"
          \/ op' = op /\ result' = result /\ faulty' = faulty
        BY <1>4 DEF ScanPage, Finish
    <2>. QED
        BY <2>1, <2>2 DEF DInv, OnTrack
<1>. QED
    BY <1>1, <1>2, <1>3, <1>4

\* A call begins with its rows ahead.
LEMMA StartDInv ==
    ASSUME NEW name \in {"read", "program", "erase", "pre_erase", "mark"}, NEW r, NEW n,
           NEW ends, NEW rows, rows \subseteq r .. r + n - 1, Start(name, r, n, ends, rows)
    PROVE  DInv'
BY DEF Start, DInv, OnTrack

LEMMA ApplicationDInv ==
    ASSUME DInv, Application
    PROVE  DInv'
<1>1. ASSUME NEW s \in Spans, EraseCall(s[1], s[2])
      PROVE  DInv'
    <2> DEFINE rows == s[1] .. s[1] + s[2] - 1
    <2>1. Start("erase", s[1], s[2], {}, rows)
        BY <1>1 DEF EraseCall
    <2>. QED
        BY <2>1, StartDInv
<1>2. ASSUME NEW name \in {"read", "program"}, NEW s \in Spans, NEW ends \in SUBSET Ends,
             TransferCall(name, s[1], s[2], ends)
      PROVE  DInv'
    <2> DEFINE rows == s[1] .. s[1] + s[2] - 1
    <2>1. Start(name, s[1], s[2], ends, rows)
        BY <1>2 DEF TransferCall
    <2>. QED
        BY <2>1, StartDInv
<1>3. ASSUME NEW b \in Blks, NEW preErase \in BOOLEAN, SetBBCall(b, preErase)
      PROVE  DInv'
    <2> DEFINE rows == {FirstRow(b), FirstRow(b) + 1}
               name == IF preErase THEN "pre_erase" ELSE "mark"
    <2>1. Start(name, FirstRow(b), 2, {}, rows)
        BY <1>3 DEF SetBBCall
    <2>2. rows \subseteq FirstRow(b) .. FirstRow(b) + 2 - 1
        BY Geometry DEF GeometryFacts
    <2>3. name \in {"read", "program", "erase", "pre_erase", "mark"}
        OBVIOUS
    <2>. HIDE DEF rows, name
    <2>. QED
        BY <2>1, <2>2, <2>3, StartDInv
<1>4. ASSUME NEW en \in BOOLEAN, SetEccEn(en)
      PROVE  DInv'
    <2>1. op = "idle" /\ UNCHANGED <<mode, op, result, faulty>>
        BY <1>4 DEF SetEccEn, chip, call
    <2>. QED
        BY <2>1 DEF DInv, OnTrack
<1>. QED
    BY <1>1, <1>2, <1>3, <1>4 DEF Application

LEMMA EraseDInv ==
    ASSUME IInv, DInv, EraseBlock
    PROVE  DInv'
<1> DEFINE b == BlkOf(row)
<1>1. row \in Nat /\ left \in Nat /\ todo \subseteq Rows /\ Rows \subseteq Nat /\ NPages \in Nat
    BY InCall, GeometryAssumption
<1>2. mode' = "ready" /\ Erased(todo \ RowsOf(b), faulty)
    BY DEF EraseBlock, Free
<1>3. CASE op = "pre_erase"
    <2>1. op' = "mark" /\ UNCHANGED <<row, left, todo, faulty>>
        BY <1>2, <1>3 DEF Erased
    <2>. QED
        BY <1>2, <1>3, <2>1 DEF DInv, OnTrack
<1>4. CASE op = "erase"
    <2> SUFFICES ASSUME ~faulty' PROVE DInv'
        BY DEF DInv
    <2>1. Advance("first", NPages, todo \ RowsOf(b), faulty)
        BY <1>2, <1>4 DEF Erased
    <2>2. ~faulty
        BY <2>1 DEF Advance, Finish
    <2>3. todo \subseteq row .. row + left - 1
        BY <1>4, <2>2 DEF DInv, OnTrack
    <2>4. PICK c \in Blks : row = FirstRow(c)
        BY <1>4 DEF IInv, CallFits
    <2>5. b = c /\ c \in Nat
        BY <2>4, Geometry DEF GeometryFacts
    <2>6. ASSUME NEW x \in todo \ RowsOf(b)
          PROVE  x >= row + NPages
        <3>1. x \in Nat /\ x >= row /\ x \in Rows
            BY <1>1, <2>3, <2>6
        <3>2. CASE x < row + NPages
            <4> DEFINE p == x - row
            <4>1. p \in 0 .. NPages - 1 /\ x = FirstRow(c) + p
                BY <1>1, <2>4, <3>1, <3>2
            <4>. HIDE DEF p
            <4>2. BlkOf(x) = c
                BY <2>5, <4>1, BlkOfFirst
            <4>. QED
                BY <2>5, <2>6, <3>1, <4>2 DEF RowsOf
        <3>. QED
            BY <1>1, <3>1, <3>2
    <2>7. PICK rows : rows = todo \ RowsOf(b)
        OBVIOUS
    <2>8. ASSUME NEW x \in rows
          PROVE  x \in row + NPages .. row + left - 1
        <3>1. x \in row .. row + left - 1 /\ x >= row + NPages
            BY <2>3, <2>6, <2>7
        <3>. QED
            BY <1>1, <3>1
    <2>9. rows \subseteq row + NPages .. row + left - 1
        BY <2>8
    <2>10. Advance("first", NPages, rows, faulty)
        BY <2>1, <2>7 DEF Advance, Finish
    <2>11. \/ op' = "idle" /\ result' # "undone"
           \/ op' = op /\ pc' = "first" /\ todo' \subseteq row' .. row' + left' - 1
        BY <1>1, <2>9, <2>10, AdvanceTrack
    <2>. QED
        BY <1>2, <1>4, <2>11 DEF DInv, OnTrack
<1>. QED
    BY <1>3, <1>4 DEF EraseBlock

LEMMA MarkDInv ==
    ASSUME HasMarker, IInv, RInv, DInv, MarkPage
    PROVE  DInv'
<1> SUFFICES ASSUME ~faulty' PROVE DInv'
    BY DEF DInv
<1>1. op = "mark" /\ bufOob = "bad" /\ row \in Nat /\ left \in Nat /\ mode' = "ready"
    BY InCall DEF MarkPage, Free, RInv, RetiredMarked
<1>2. ~faulty
    BY DEF MarkPage, Advance, Finish
<1>3. todo \subseteq row .. row + left - 1
    BY <1>1, <1>2 DEF DInv, OnTrack
<1>4. row \in Stains(MarkOf(row))
    BY <1>1, MarkStains
<1>5. PICK rows : rows = todo \ Stains(MarkOf(row))
    OBVIOUS
<1>6. ASSUME NEW x \in rows
      PROVE  x \in row + 1 .. row + left - 1
    <2>1. x \in todo /\ x # row
        BY <1>4, <1>5, <1>6, Zenon
    <2>2. x \in row .. row + left - 1
        BY <1>3, <2>1
    <2>. QED
        BY <1>1, <2>1, <2>2
<1>7. Advance("first", 1, rows, faulty)
    BY <1>5 DEF MarkPage, Advance, Finish
<1>8. rows \subseteq row + 1 .. row + left - 1
    BY <1>6
<1>9. \/ op' = "idle" /\ result' # "undone"
      \/ op' = op /\ pc' = "first" /\ todo' \subseteq row' .. row' + left' - 1
    BY <1>1, <1>7, <1>8, AdvanceTrack
<1>. QED
    BY <1>1, <1>9 DEF DInv, OnTrack

LEMMA SettleDInv ==
    ASSUME DInv, Settle
    PROVE  DInv'
<1> SUFFICES ASSUME ~faulty' PROVE OnTrack'
    BY DEF DInv
<1>1. /\ mode = "cache" /\ Abandoned = pend /\ mode' = "ready" /\ ~faulty /\ OnTrack
      /\ UNCHANGED <<op, pc, row, left, todo, result>>
    BY DEF Settle, call, DInv
<1>2. op = "program" => pc # "seq" /\ todo \subseteq row .. row + left - 1
    <2>1. {p.row : p \in pend \ Abandoned} = {}
        BY <1>1, Zenon
    <2>2. op = "program" /\ pc = "seq" => pend = {}
        BY <1>1 DEF Abandoned
    <2>. QED
        BY <1>1, <2>1, <2>2 DEF OnTrack
<1>. QED
    BY <1>1, <1>2 DEF OnTrack

LEMMA NextDInv ==
    ASSUME HasMarker, IInv, RInv, DInv, [Next]_vars
    PROVE  DInv'
<1>1. CASE UNCHANGED vars
    BY <1>1 DEF vars, chip, call, ecc, ghosts, DInv, OnTrack, Abandoned
<1>2. CASE Next
    BY <1>2, PowerDInv, ApplicationDInv, EraseDInv, MarkDInv, SettleDInv, ReadDInv,
       ProgramDInv, CacheDInv, FaultyDInv DEF Next, Driver, Failure
<1>. QED
    BY <1>1, <1>2

\* Where a call is while nothing has failed.
THEOREM TrackInvariant ==
    ASSUME HasMarker
    PROVE  Spec => []DInv
<1>1. Init => DInv
    BY DEF Init, DInv, OnTrack
<1>2. DInv /\ RInv /\ IInv /\ [Next]_vars => DInv'
    BY NextDInv
<1>. QED
    BY <1>1, <1>2, Invariant, RetiredInvariant, PTL DEF Spec

\* In a chip whose layout has a marker, a call during which nothing failed and
\* that returns success has read, programmed, erased or marked every page it was
\* asked to, and leaves the chip out of any command sequence
\* (rawnand_cache_read_seq, rawnand_cache_pgm, rawnand_set_bb, rawnand_erase).
THEOREM CallsDoTheirWork ==
    ASSUME HasMarker
    PROVE  Spec => []SuccessMeansDone
<1>1. DInv => SuccessMeansDone
    BY DEF DInv, OnTrack, SuccessMeansDone
<1>. QED
    BY <1>1, TrackInvariant, PTL
-----------------------------------------------------------------------------
(* No block is called bad that the flash does not know of. *)

\* The invariant behind NoPhantomBad, which holds within calls and scans as well.
KnownMarked == \A b \in bbt \ suspect : Marked(b)

\* Steps that put no block into the table, take none out of doubt and leave the
\* markers on the flash.
LEMMA QuietKnown ==
    ASSUME KnownMarked, bbt' \subseteq bbt, suspect \subseteq suspect', mark \subseteq mark'
    PROVE  KnownMarked'
BY Zenon DEF KnownMarked, Marked, FirstRow

LEMMA TakeOverDoubts ==
    ASSUME NEW ps, TakeOver(ps, {})
    PROVE  mark \subseteq mark' /\ suspect \subseteq suspect'
BY Zenon DEF TakeOver

LEMMA TransferKnown ==
    ASSUME KnownMarked,
           \/ ReadStart \/ ReadData \/ ReadOob \/ ReadSeq \/ ReadFail
           \/ ProgramPage \/ LoadPart \/ ProgramPart \/ CacheStep
           \/ PartLost \/ CacheStatus \/ LastStatus \/ ProgramFail
    PROVE  KnownMarked'
<1>1. CASE ReadStart \/ ReadData \/ ReadOob \/ ReadSeq \/ ReadFail \/ ProgramPart \/ PartLost
    <2>1. bbt' = bbt /\ mark' = mark /\ suspect' = suspect
        BY <1>1, Zenon
        DEF ReadStart, ReadData, ReadOob, ReadSeq, ReadFail, ProgramPart, PartLost, ghosts
    <2>. QED
        BY <2>1, QuietKnown
<1>2. CASE ProgramPage \/ LoadPart \/ CacheStep
    <2>1. bbt' = bbt
        BY <1>2 DEF ProgramPage, LoadPart, CacheStep
    <2>2. mark \subseteq mark' /\ suspect \subseteq suspect'
        BY <1>2, TakeOverDoubts DEF ProgramPage, LoadPart, CacheStep
    <2>. QED
        BY <2>1, <2>2, QuietKnown
<1>3. CASE CacheStatus \/ LastStatus \/ ProgramFail
    <2>1. bbt' = bbt /\ mark \subseteq mark' /\ suspect \subseteq suspect'
        BY <1>3, Zenon DEF CacheStatus, LastStatus, ProgramFail
    <2>. QED
        BY <2>1, QuietKnown
<1>. QED
    BY <1>1, <1>2, <1>3

\* The scan enters a block for the marker it has just read.
LEMMA ScanKnown ==
    ASSUME IInv, RInv, KnownMarked, ScanPage
    PROVE  KnownMarked'
<1>1. op = "probe" /\ mark' = mark /\ suspect' = suspect
    BY DEF ScanPage, ghosts
<1>2. bbt' \subseteq IF row \in mark THEN bbt \union {BlkOf(row)} ELSE bbt
    BY DEF ScanPage
<1>3. row \in mark => Marked(BlkOf(row))
    <2>1. PICK b \in Blks, p \in {0, 1} : row = FirstRow(b) + p
        BY <1>1 DEF RInv, RetiredKnown
    <2>2. FirstRow(b) \in Nat /\ FirstRow(b) + 0 = FirstRow(b)
        BY Geometry DEF GeometryFacts
    <2>3. BlkOf(row) = b /\ row \in {FirstRow(b), FirstRow(b) + 1}
        BY <2>1, <2>2, Geometry DEF GeometryFacts
    <2>. QED
        BY <2>3 DEF Marked
<1>4. ASSUME NEW c \in bbt' \ suspect'
      PROVE  Marked(c)
    <2>1. c \in bbt \ suspect \/ (row \in mark /\ c = BlkOf(row))
        BY <1>1, <1>2
    <2>. QED
        BY <1>3, <2>1 DEF KnownMarked
<1>. QED
    BY <1>1, <1>4 DEF KnownMarked, Marked

\* An erase that the chip has done clears the table with the markers; one of
\* unknown outcome puts the block in doubt.
LEMMA EraseKnown ==
    ASSUME IInv, KnownMarked, EraseBlock \/ EraseIgnored \/ EraseStatus \/ EraseFail
    PROVE  KnownMarked'
<1> DEFINE b == BlkOf(row)
<1>1. bbt \subseteq Blks
    BY DEF IInv, TypeOK
<1>2. /\ mark \ RowsOf(b) \subseteq mark' /\ bbt' \subseteq bbt
      /\ \A c \in bbt' \ suspect' : c # b /\ c \notin suspect
    <2>1. CASE EraseBlock
        BY <2>1 DEF EraseBlock, ClearBB
    <2>2. CASE EraseIgnored
        BY <2>2 DEF EraseIgnored, ClearBB
    <2>3. CASE EraseStatus
        BY <2>3, Zenon DEF EraseStatus
    <2>4. CASE EraseFail
        BY <2>4, Zenon DEF EraseFail
    <2>. QED
        BY <2>1, <2>2, <2>3, <2>4
<1>3. ASSUME NEW c \in bbt' \ suspect'
      PROVE  Marked(c)'
    <2>1. c \in Blks /\ c # b /\ Marked(c)
        BY <1>1, <1>2 DEF KnownMarked
    <2>2. BlkOf(FirstRow(c)) = c /\ BlkOf(FirstRow(c) + 1) = c
        BY <2>1, Geometry DEF GeometryFacts
    <2>3. FirstRow(c) \notin RowsOf(b) /\ FirstRow(c) + 1 \notin RowsOf(b)
        BY <2>1, <2>2 DEF RowsOf
    <2>. QED
        BY <1>2, <2>1, <2>3 DEF Marked
<1>. QED
    BY <1>3 DEF KnownMarked

\* set_bb enters the block when both its pages have taken the marker.
LEMMA MarkKnown ==
    ASSUME HasMarker, IInv, RInv, KnownMarked, MarkPage
    PROVE  KnownMarked'
<1>1. op = "mark"
    BY DEF MarkPage
<1>2. PICK b \in Blks :
          /\ range = {b}
          /\ \/ left = 2 /\ row = FirstRow(b)
             \/ left = 1 /\ row = FirstRow(b) + 1
    BY <1>1 DEF IInv, CallFits
<1>3. mark \subseteq mark'
    BY TakeOverGrows DEF MarkPage
<1>4. CASE left = 1
    <2>1. bbt' = bbt \union {TableBlk(row)} /\ suspect \ {b} \subseteq suspect'
        BY <1>2, <1>4, Zenon DEF MarkPage, TakeOver
    <2>2. TableBlk(row) = b /\ row - 1 = FirstRow(b)
        BY <1>2, <1>4, Geometry DEF TableBlk, GeometryFacts
    <2>3. FirstRow(b) \in mark'
        BY <1>1, <1>3, <1>4, <2>2 DEF RInv, RetiredMarked
    <2>4. ASSUME NEW c \in bbt' \ suspect'
          PROVE  Marked(c)'
        <3>1. CASE c = b
            BY <2>3, <3>1 DEF Marked
        <3>2. CASE c # b
            <4>1. Marked(c)
                BY <2>1, <2>2, <2>4, <3>2 DEF KnownMarked
            <4>. QED
                BY <1>3, <4>1 DEF Marked
        <3>. QED
            BY <3>1, <3>2
    <2>. QED
        BY <2>4 DEF KnownMarked
<1>5. CASE left # 1
    <2>1. bbt' = bbt /\ suspect \subseteq suspect'
        BY <1>5, Zenon DEF MarkPage, TakeOver
    <2>. QED
        BY <1>3, <2>1, QuietKnown
<1>. QED
    BY <1>4, <1>5

LEMMA NextKnown ==
    ASSUME HasMarker, IInv, RInv, KnownMarked, [Next]_vars
    PROVE  KnownMarked'
<1>1. CASE Setup \/ ScanFail \/ PowerCut
    <2>1. bbt' = {}
        BY <1>1 DEF Setup, ScanFail, PowerCut, NoRam
    <2>. QED
        BY <2>1 DEF KnownMarked
<1>2. CASE Application
    <2>1. bbt' = bbt /\ mark' = mark /\ suspect' = suspect
        BY <1>2, Zenon
        DEF Application, EraseCall, TransferCall, SetBBCall, SetEccEn, Start, ghosts
    <2>. QED
        BY <2>1, QuietKnown
<1>3. CASE ScanPage
    BY <1>3, ScanKnown
<1>4. CASE EraseBlock \/ EraseIgnored \/ EraseStatus \/ EraseFail
    BY <1>4, EraseKnown
<1>5. CASE MarkPage
    BY <1>5, MarkKnown
<1>6. CASE MarkFail
    <2>1. bbt' = bbt /\ mark \subseteq mark' /\ suspect \subseteq suspect'
        BY <1>6, Zenon DEF MarkFail
    <2>. QED
        BY <2>1, QuietKnown
<1>7. CASE Settle
    <2>1. bbt' = bbt /\ mark \subseteq mark' /\ suspect \subseteq suspect'
        BY <1>7, TakeOverDoubts DEF Settle
    <2>. QED
        BY <2>1, QuietKnown
<1>8. CASE UNCHANGED vars
    BY <1>8, QuietKnown DEF vars, ghosts
<1>. QED
    BY <1>1, <1>2, <1>3, <1>4, <1>5, <1>6, <1>7, <1>8, TransferKnown
    DEF Next, Driver, Failure

\* In a chip whose layout has a marker, a block that the table calls bad has a
\* marker on the flash, except for blocks on which a command failed since the
\* last probe (rawnand_scan_bb, rawnand_set_bb, rawnand_erase).
THEOREM NoPhantoms ==
    ASSUME HasMarker
    PROVE  Spec => []NoPhantomBad
<1>1. Init => KnownMarked
    BY DEF Init, KnownMarked
<1>2. KnownMarked /\ RInv /\ IInv /\ [Next]_vars => KnownMarked'
    BY NextKnown
<1>3. KnownMarked => NoPhantomBad
    BY DEF KnownMarked, NoPhantomBad
<1>. QED
    BY <1>1, <1>2, <1>3, Invariant, RetiredInvariant, PTL DEF Spec
-----------------------------------------------------------------------------
(* A call keeps to the blocks it was asked for. *)

Busy == op \notin {"off", "probe", "idle"}

\* The rows a call has still to reach lie in the blocks it is about.
AheadInRange == Busy => \A r \in row .. row + left - 1 : BlkOf(r) \in range

LEMMA AheadTypes ==
    ASSUME IInv
    PROVE  row \in Nat /\ left \in Nat /\ (Busy => left > 0)
<1>1. row \in Nat /\ left \in Nat
    BY Geometry DEF IInv, TypeOK, GeometryFacts
<1>2. ASSUME Busy PROVE left > 0
    <2>1. CASE op = "erase"
        <3>1. PICK k \in 1 .. NBlks : left = FirstRow(k)
            BY <2>1 DEF IInv, CallFits
        <3>2. k \in Nat /\ k >= 1
            BY Geometry DEF GeometryFacts
        <3>3. k * NPages > 0
            BY <3>2, GeometryAssumption, Z3
        <3>. QED
            BY <3>1, <3>3 DEF FirstRow
    <2>2. CASE op \in {"pre_erase", "mark"}
        BY <2>2 DEF IInv, CallFits
    <2>3. CASE op \in {"read", "program"}
        BY <2>3 DEF IInv, CallFits
    <2>. QED
        BY <1>2, <2>1, <2>2, <2>3 DEF Busy, IInv, TypeOK, Ops
<1>. QED
    BY <1>1, <1>2

LEMMA AdvanceAhead ==
    ASSUME AheadInRange, row \in Nat, left \in Nat, NEW p, NEW n \in Nat, NEW rows,
           NEW fault, Advance(p, n, rows, fault)
    PROVE  AheadInRange'
<1>1. CASE left = n
    BY <1>1 DEF Advance, Finish, AheadInRange, Busy
<1>2. CASE left # n
    <2>1. row' = row + n /\ left' = left - n /\ op' = op /\ range' = range
        BY <1>2 DEF Advance
    <2>2. row' .. row' + left' - 1 \subseteq row .. row + left - 1
        BY <2>1
    <2>. QED
        BY <2>1, <2>2 DEF AheadInRange, Busy
<1>. QED
    BY <1>1, <1>2

LEMMA StayAhead ==
    ASSUME AheadInRange, Busy' => Busy /\ UNCHANGED <<row, left, range>>
    PROVE  AheadInRange'
BY DEF AheadInRange

LEMMA ErasedAhead ==
    ASSUME AheadInRange, row \in Nat, left \in Nat, op \in {"erase", "pre_erase"},
           NEW rows, NEW fault, Erased(rows, fault)
    PROVE  AheadInRange'
<1>1. CASE op = "erase"
    BY <1>1, GeometryAssumption, AdvanceAhead DEF Erased
<1>2. CASE op = "pre_erase"
    BY <1>2, StayAhead DEF Erased, Busy
<1>. QED
    BY <1>1, <1>2

LEMMA ApplicationAhead ==
    ASSUME AheadInRange, Application
    PROVE  AheadInRange'
<1>1. ASSUME NEW name, NEW r \in Nat, NEW n \in Nat, NEW ends,
             Start(name, r, n, ends, r .. r + n - 1)
      PROVE  AheadInRange'
    BY <1>1 DEF Start, AheadInRange
<1>2. ASSUME NEW b \in Blks, NEW preErase \in BOOLEAN, SetBBCall(b, preErase)
      PROVE  AheadInRange'
    <2>1. /\ row' = FirstRow(b) /\ left' = 2 /\ FirstRow(b) \in Nat
          /\ range' = {BlkOf(x) : x \in {FirstRow(b), FirstRow(b) + 1}}
        BY <1>2, Geometry DEF SetBBCall, Start, GeometryFacts
    <2>2. row' .. row' + left' - 1 \subseteq {FirstRow(b), FirstRow(b) + 1}
        BY <2>1
    <2>. QED
        BY <2>1, <2>2 DEF AheadInRange
<1>3. ASSUME NEW en \in BOOLEAN, SetEccEn(en)
      PROVE  AheadInRange'
    BY <1>3, StayAhead DEF SetEccEn, call, Busy
<1>4. \A s \in Spans : s[1] \in Nat /\ s[2] \in Nat
    BY ConfigAssumption
<1>. QED
    BY <1>1, <1>2, <1>3, <1>4 DEF Application, EraseCall, TransferCall

LEMMA NextAhead ==
    ASSUME IInv, AheadInRange, [Next]_vars
    PROVE  AheadInRange'
<1>1. row \in Nat /\ left \in Nat /\ 1 \in Nat /\ Whole \in Int
    BY AheadTypes DEF Whole
<1>2. ASSUME Error PROVE AheadInRange'
    BY <1>2 DEF Error, Finish, AheadInRange, Busy
<1>3. CASE Setup \/ ScanPage \/ ScanFail \/ PowerCut
    BY <1>3 DEF Setup, ScanPage, ScanFail, PowerCut, Finish, AheadInRange, Busy
<1>4. CASE Application
    BY <1>4, ApplicationAhead
<1>5. CASE EraseBlock \/ EraseIgnored
    BY <1>1, <1>5, ErasedAhead DEF EraseBlock, EraseIgnored
<1>6. CASE EraseStatus
    <2>1. CASE op = "erase"
        BY <1>6, <2>1 DEF EraseStatus, Finish, AheadInRange, Busy
    <2>2. CASE op # "erase"
        BY <1>1, <1>6, <2>2, ErasedAhead DEF EraseStatus
    <2>. QED
        BY <2>1, <2>2
<1>7. CASE EraseFail \/ MarkFail \/ ReadFail \/ ProgramFail
    BY <1>2, <1>7 DEF EraseFail, MarkFail, ReadFail, ProgramFail
<1>8. CASE MarkPage \/ ReadOob \/ ReadSeq \/ ProgramPage \/ ProgramPart \/ LastStatus
    BY <1>1, <1>8, AdvanceAhead DEF MarkPage, ReadOob, ReadSeq, ProgramPage, ProgramPart, LastStatus
<1>9. CASE ReadStart \/ LoadPart
    BY <1>9, StayAhead DEF ReadStart, LoadPart, Busy
<1>10. CASE ReadData
    <2>1. CASE SW /\ PartOfPage
        BY <1>10, <2>1, StayAhead DEF ReadData, Busy
    <2>2. CASE ~(SW /\ PartOfPage)
        BY <1>1, <1>10, <2>2, AdvanceAhead DEF ReadData
    <2>. QED
        BY <2>1, <2>2
<1>11. CASE CacheStep
    BY <1>1, <1>11, AdvanceAhead DEF CacheStep
<1>12. CASE CacheStatus
    <2>1. Whole \in Nat
        BY <1>1, <1>12, InCall DEF CacheStatus
    <2>. QED
        BY <1>1, <1>12, <2>1, AdvanceAhead DEF CacheStatus
<1>13. CASE PartLost
    BY <1>1, <1>2, <1>13, AdvanceAhead DEF PartLost
<1>14. CASE Settle
    BY <1>14, StayAhead DEF Settle, call, Busy
<1>15. CASE UNCHANGED vars
    BY <1>15, StayAhead DEF vars, Busy
<1>. QED
    BY <1>3, <1>4, <1>5, <1>6, <1>7, <1>8, <1>9, <1>10, <1>11, <1>12, <1>13, <1>14, <1>15
    DEF Next, Driver, Failure

\* Pages that the step programs are its row, or still in the chip.
LEMMA StainsOfStep ==
    /\ Stains({}) = {}
    /\ Stains(Page) \subseteq {row} /\ Stains(MarkOf(row)) \subseteq {row}
    /\ Stains(pend \union Page) \subseteq Stains(pend) \union {row}
    /\ Stains(Abandoned) \subseteq Stains(pend)
    /\ Stains({} \union (pend \ Abandoned)) \subseteq Stains(pend)
    /\ Stains(Page \union (pend \ Abandoned)) \subseteq Stains(pend) \union {row}
    /\ Stains(MarkOf(row) \union (pend \ Abandoned)) \subseteq Stains(pend) \union {row}
<1>1. \A p \in Page : p.row = row
    BY DEF Page
<1>2. \A p \in MarkOf(row) : p.row = row
    BY DEF MarkOf
<1>3. Abandoned \subseteq pend
    BY DEF Abandoned
<1>. QED
    BY <1>1, <1>2, <1>3, Zenon DEF Stains

\* What a step may do to the flash and the table, as OnlyRangeTouched has it.
Elsewhere ==
    \A b \in Blks \ range :
        /\ b \in bbt' <=> b \in bbt
        /\ (mark' \intersect RowsOf(b)) \ Stains(pend) = (mark \intersect RowsOf(b)) \ Stains(pend)

LEMMA StaysHere ==
    ASSUME BlkOf(row) \in range, bbt' \subseteq bbt \union range, bbt \ range \subseteq bbt',
           mark' \subseteq mark \union Stains(pend) \union {row},
           mark \ RowsOf(BlkOf(row)) \subseteq mark'
    PROVE  Elsewhere
<1> SUFFICES ASSUME NEW b \in Blks \ range
             PROVE  /\ b \in bbt' <=> b \in bbt
                    /\ (mark' \intersect RowsOf(b)) \ Stains(pend)
                          = (mark \intersect RowsOf(b)) \ Stains(pend)
    BY DEF Elsewhere
<1>1. row \notin RowsOf(b) /\ \A r \in RowsOf(b) : r \notin RowsOf(BlkOf(row))
    BY DEF RowsOf
<1>. QED
    BY <1>1

LEMMA TakeOverHere ==
    ASSUME NEW ps \in {{}, Page, MarkOf(row)}, NEW blks, TakeOver(ps, blks)
    PROVE  mark \subseteq mark' /\ mark' \subseteq mark \union Stains(pend) \union {row}
<1>1. PICK m \in {{}, Stains(Abandoned)} :
          mark' = mark \union m \union Stains(ps \union (pend \ Abandoned))
    BY DEF TakeOver
<1>2. m \subseteq Stains(pend)
    BY StainsOfStep
<1>3. Stains(ps \union (pend \ Abandoned)) \subseteq Stains(pend) \union {row}
    BY StainsOfStep
<1>. QED
    BY <1>1, <1>2, <1>3

LEMMA StepHere ==
    ASSUME IInv, AheadInRange, Busy, Next, op' # "off"
    PROVE  Elsewhere
<1>1. BlkOf(row) \in range
    BY AheadTypes DEF AheadInRange
<1>2. ~Setup /\ ~Application /\ ~ScanPage /\ ~ScanFail /\ ~PowerCut
    BY DEF Busy, Setup, Application, EraseCall, TransferCall, SetBBCall, Start, SetEccEn,
           ScanPage, ScanFail, PowerCut, Finish
<1>3. ASSUME bbt' = bbt, mark \subseteq mark',
             mark' \subseteq mark \union Stains(pend) \union {row}
      PROVE  Elsewhere
    BY <1>1, <1>3, StaysHere
<1>4. CASE EraseBlock \/ EraseIgnored \/ EraseStatus \/ EraseFail
    <2>1. mark \ RowsOf(BlkOf(row)) \subseteq mark' /\ mark' \subseteq mark
        BY <1>4, Zenon DEF EraseBlock, EraseIgnored, EraseStatus, EraseFail
    <2>2. bbt \ {BlkOf(row)} \subseteq bbt' /\ bbt' \subseteq bbt
        BY <1>4, Zenon DEF EraseBlock, EraseIgnored, EraseStatus, EraseFail, ClearBB
    <2>. QED
        BY <1>1, <2>1, <2>2, StaysHere
<1>5. CASE MarkPage
    <2>1. mark \subseteq mark' /\ mark' \subseteq mark \union Stains(pend) \union {row}
        BY <1>5, TakeOverHere DEF MarkPage
    <2>2. left = 1 => TableBlk(row) \in range
        <3>1. PICK b \in Blks :
                  /\ range = {b}
                  /\ \/ left = 2 /\ row = FirstRow(b)
                     \/ left = 1 /\ row = FirstRow(b) + 1
            BY <1>5 DEF MarkPage, IInv, CallFits
        <3>. QED
            BY <3>1, Geometry DEF TableBlk, GeometryFacts
    <2>3. bbt \subseteq bbt' /\ bbt' \subseteq bbt \union range
        BY <1>5, <2>2 DEF MarkPage
    <2>. QED
        BY <1>1, <2>1, <2>3, StaysHere
<1>6. CASE MarkFail
    <2>1. bbt' = bbt
        BY <1>6 DEF MarkFail
    <2>2. CASE mark' = mark
        BY <1>3, <2>1, <2>2
    <2>3. ASSUME NEW ps \in {{}, MarkOf(row)}, NEW m \in {{}, Stains(pend)},
                 mark' = mark \union Stains(ps) \union m
          PROVE  Elsewhere
        <3>1. Stains(ps) \subseteq {row}
            BY StainsOfStep
        <3>. QED
            BY <1>3, <2>1, <2>3, <3>1
    <2>. QED
        BY <1>6, <2>2, <2>3, Zenon DEF MarkFail
<1>7. CASE ReadStart \/ ReadData \/ ReadOob \/ ReadSeq \/ ReadFail \/ ProgramPart \/ PartLost
    <2>1. bbt' = bbt /\ mark' = mark
        BY <1>7, Zenon
        DEF ReadStart, ReadData, ReadOob, ReadSeq, ReadFail, ProgramPart, PartLost
    <2>. QED
        BY <1>3, <2>1
<1>8. CASE ProgramPage \/ LoadPart \/ CacheStep \/ Settle
    <2>1. bbt' = bbt
        BY <1>8 DEF ProgramPage, LoadPart, CacheStep, Settle
    <2>2. mark \subseteq mark' /\ mark' \subseteq mark \union Stains(pend) \union {row}
        BY <1>8, TakeOverHere DEF ProgramPage, LoadPart, CacheStep, Settle
    <2>. QED
        BY <1>3, <2>1, <2>2
<1>9. CASE CacheStatus \/ LastStatus \/ ProgramFail
    <2>1. bbt' = bbt
        BY <1>9 DEF CacheStatus, LastStatus, ProgramFail
    <2>2. mark \subseteq mark' /\ mark' \subseteq mark \union Stains(pend \union Page)
                                       \union Stains(pend) \union Stains(Page)
        BY <1>9, Zenon DEF CacheStatus, LastStatus, ProgramFail
    <2>3. mark' \subseteq mark \union Stains(pend) \union {row}
        BY <2>2, StainsOfStep
    <2>. QED
        BY <1>3, <2>1, <2>2, <2>3
<1>. QED
    BY <1>2, <1>4, <1>5, <1>6, <1>7, <1>8, <1>9 DEF Next, Driver, Failure

\* No call changes the table or the markers of a block outside the range that the
\* application named, whatever fails; pages of an abandoned cache program that the
\* chip still holds are not its own (rawnand_erase, rawnand_set_bb, rawnand_program).
THEOREM CallsStayInRange == Spec => OnlyRangeTouched
<1>1. Init => AheadInRange
    BY DEF Init, AheadInRange, Busy
<1>2. AheadInRange /\ IInv /\ [Next]_vars => AheadInRange'
    BY NextAhead
<1>3. IInv /\ AheadInRange /\ [Next]_vars =>
          [op \notin {"off", "probe", "idle"} /\ op' # "off" => Elsewhere]_vars
    BY StepHere DEF Busy
<1>. QED
    BY <1>1, <1>2, <1>3, Invariant, PTL DEF Spec, OnlyRangeTouched, Elsewhere
-----------------------------------------------------------------------------
(* A chip with an ECC of its own: the driver as a bad-block manager. *)

Internal == ProbedType = "ECC_INTERNAL_RAW"

\* Software ECC is never switched on where it is not built in, so that no page
\* the chip is given carries a marker but those of set_bb.
Plain ==
    /\ op # "off" => type # "ECC_SW_BCH" /\ typeOld # "ECC_SW_BCH"
    /\ \A p \in pend : ~p.bad

LEMMA PlainPages ==
    ASSUME Plain, op # "off"
    PROVE  /\ \A p \in pend \union Page : ~p.bad
           /\ ~SW
<1>1. ~SW
    BY DEF Plain, SW
<1> DEFINE bad == SW /\ ~PartOfPage /\ bufOob = "bad" /\ row \in MarkerRows
<1>2. ~bad
    BY <1>1
<1>3. Page = {[row |-> row, bad |-> bad]}
    BY Zenon DEF Page
<1>. HIDE DEF bad
<1>4. \A p \in Page : ~p.bad
    BY <1>2, <1>3
<1>. QED
    BY <1>1, <1>4 DEF Plain

\* Pages without markers leave none.
LEMMA NoStains ==
    ASSUME NEW ps, \A p \in ps : ~p.bad
    PROVE  Stains(ps) = {} /\ BlksOf(ps) = {}
<1>1. Stains(ps) = {}
    BY Zenon DEF Stains
<1>. QED
    BY <1>1, Zenon DEF BlksOf

LEMMA NextPlain ==
    ASSUME Internal, Plain, [Next]_vars
    PROVE  Plain'
<1>1. CASE Setup
    BY <1>1 DEF Internal, Setup, chip, Plain
<1>2. CASE ScanFail \/ PowerCut
    <2>1. op' = "off" /\ (pend' = pend \/ pend' = {})
        BY <1>2 DEF ScanFail, PowerCut, Finish, chip
    <2>. QED
        BY <2>1 DEF Plain
<1>3. CASE Application
    <2>1. op = "idle" /\ pend' = pend
        BY <1>3 DEF Application, EraseCall, TransferCall, SetBBCall, SetEccEn, Start, chip
    <2>2. type' \in {type, typeOld, "ECC_NONE"} /\ typeOld' \in {type, typeOld}
        BY <1>3 DEF Application, EraseCall, TransferCall, SetBBCall, SetEccEn, Start, ecc
    <2>. QED
        BY <2>1, <2>2 DEF Plain
<1>4. CASE Driver \/ EraseStatus \/ EraseFail \/ MarkFail \/ ReadFail
              \/ PartLost \/ CacheStatus \/ LastStatus \/ ProgramFail \/ Settle
    <2>1. UNCHANGED ecc
        BY <1>4, Zenon DEF Driver, ScanPage, EraseBlock, EraseIgnored, MarkPage, ReadStart,
            ReadData, ReadOob, ReadSeq, ProgramPage, LoadPart, ProgramPart, CacheStep,
            EraseStatus, EraseFail, MarkFail, ReadFail, PartLost, CacheStatus, LastStatus,
            ProgramFail, Settle
    <2>2. pend' \in {pend, {}, Page}
        BY <1>4, Zenon DEF Driver, ScanPage, EraseBlock, EraseIgnored, MarkPage, ReadStart,
            ReadData, ReadOob, ReadSeq, ProgramPage, LoadPart, ProgramPart, CacheStep,
            EraseStatus, EraseFail, MarkFail, ReadFail, PartLost, CacheStatus, LastStatus,
            ProgramFail, Settle, chip
    <2>3. CASE op # "off"
        BY <2>1, <2>2, <2>3, PlainPages DEF Plain, ecc
    <2>4. CASE op = "off"
        <3>1. op' = "off" /\ pend' \in {pend, {}}
            BY <1>4, <2>4, Zenon DEF Driver, ScanPage, EraseBlock, EraseIgnored, MarkPage,
                ReadStart, ReadData, ReadOob, ReadSeq, ProgramPage, LoadPart, ProgramPart,
                CacheStep, EraseStatus, EraseFail, MarkFail, ReadFail, PartLost, CacheStatus,
                LastStatus, ProgramFail, Settle, Cached, call
        <3>. QED
            BY <3>1 DEF Plain
    <2>. QED
        BY <2>3, <2>4
<1>5. CASE UNCHANGED vars
    BY <1>5 DEF vars, Plain
<1>. QED
    BY <1>1, <1>2, <1>3, <1>4, <1>5 DEF Next, Failure

LEMMA PlainInvariant ==
    ASSUME Internal
    PROVE  Spec => []Plain
<1>1. Init => Plain
    BY DEF Init, Plain
<1>2. Plain /\ [Next]_vars => Plain'
    BY NextPlain
<1>. QED
    BY <1>1, <1>2, PTL DEF Spec

\* With pages like these neither reads nor programs move a marker, whatever becomes
\* of a page that an earlier call has left in the chip.
LEMMA TakeOverPlain ==
    ASSUME Plain, op # "off", NEW ps \in {{}, Page}, TakeOver(ps, {})
    PROVE  mark' = mark /\ suspect' = suspect
<1>1. \A p \in ps \union (pend \ Abandoned) : ~p.bad
    BY PlainPages
<1>2. \A p \in Abandoned : ~p.bad
    BY PlainPages DEF Abandoned
<1>3. /\ Stains(ps \union (pend \ Abandoned)) = {} /\ Stains(Abandoned) = {}
      /\ BlksOf(Abandoned) = {}
    BY <1>1, <1>2, NoStains
<1>. QED
    BY <1>3 DEF TakeOver

\* A read or program goes on or ends.
LEMMA TransferOp ==
    ASSUME \/ ReadStart \/ ReadData \/ ReadOob \/ ReadSeq \/ ReadFail
           \/ ProgramPage \/ LoadPart \/ ProgramPart \/ CacheStep
           \/ PartLost \/ CacheStatus \/ LastStatus \/ ProgramFail
    PROVE  op \in {"read", "program"} /\ op' \in {op, "idle"}
<1>1. CASE ReadStart \/ ReadData \/ ReadOob \/ ReadSeq \/ ReadFail
    BY <1>1, AdvanceOp DEF ReadStart, ReadData, ReadOob, ReadSeq, ReadFail, Error, Finish
<1>2. CASE ProgramPage \/ LoadPart \/ ProgramPart \/ CacheStep
    BY <1>2, AdvanceOp DEF ProgramPage, LoadPart, ProgramPart, CacheStep, Cached
<1>3. CASE PartLost
    BY <1>3, AdvanceOp DEF PartLost, Error, Finish
<1>4. CASE CacheStatus \/ LastStatus
    BY <1>4, AdvanceOp DEF CacheStatus, LastStatus, Cached
<1>5. CASE ProgramFail
    BY <1>5 DEF ProgramFail, Error, Finish
<1>. QED
    BY <1>1, <1>2, <1>3, <1>4, <1>5

LEMMA TransferPlain ==
    ASSUME Plain,
           \/ ReadStart \/ ReadData \/ ReadOob \/ ReadSeq \/ ReadFail
           \/ ProgramPage \/ LoadPart \/ ProgramPart \/ CacheStep
           \/ PartLost \/ CacheStatus \/ LastStatus \/ ProgramFail
    PROVE  UNCHANGED <<mark, bbt, suspect>>
<1>0. op # "off"
    BY TransferOp
<1>1. CASE ReadStart \/ ReadData \/ ReadOob \/ ReadSeq \/ ReadFail \/ ProgramPart \/ PartLost
    BY <1>1, Zenon
    DEF ReadStart, ReadData, ReadOob, ReadSeq, ReadFail, ProgramPart, PartLost, ghosts
<1>2. CASE ProgramPage \/ LoadPart \/ CacheStep
    <2>1. bbt' = bbt /\ \E ps \in {{}, Page} : TakeOver(ps, {})
        BY <1>2 DEF ProgramPage, LoadPart, CacheStep
    <2>. QED
        BY <1>0, <2>1, TakeOverPlain
<1>3. CASE CacheStatus \/ LastStatus \/ ProgramFail
    <2>1. /\ Stains(pend) = {} /\ Stains(Page) = {} /\ Stains(pend \union Page) = {}
          /\ BlksOf(pend) = {} /\ BlksOf(Page) = {} /\ BlksOf(pend \union Page) = {}
        BY <1>0, PlainPages, NoStains
    <2>2. CASE CacheStatus \/ LastStatus
        BY <2>1, <2>2 DEF CacheStatus, LastStatus
    <2>3. CASE ProgramFail
        BY <2>1, <2>3 DEF ProgramFail
    <2>. QED
        BY <1>3, <2>2, <2>3
<1>. QED
    BY <1>1, <1>2, <1>3

\* The scan: behind it the table has the marked blocks, ahead it is empty, and
\* nothing is suspect.
ScanAgrees ==
    op = "probe" =>
      /\ suspect = {}
      /\ \E b \in Blks, p \in {0, 1} :
            /\ row = FirstRow(b) + p
            /\ p = 1 => FirstRow(b) \notin mark
            /\ \A c \in Blks : /\ c < b => (c \in bbt <=> Marked(c))
                               /\ c >= b => c \notin bbt

\* One page of the scan; the table is complete with the last one.
LEMMA ScanStep ==
    ASSUME HasMarker, IInv, ScanAgrees, ScanPage
    PROVE  ScanAgrees' /\ (op' = "idle" => bbt' = MarkedBlks)
<1> USE Geometry DEF GeometryFacts
<1>1. PICK b \in Blks, p \in {0, 1} :
            /\ row = FirstRow(b) + p
            /\ p = 1 => FirstRow(b) \notin mark
            /\ \A c \in Blks : /\ c < b => (c \in bbt <=> Marked(c))
                               /\ c >= b => c \notin bbt
    BY DEF ScanAgrees, ScanPage
<1>2. suspect' = {} /\ BlkOf(row) = b /\ mark' = mark
      /\ bbt' = IF row \in mark THEN bbt \union {b} ELSE bbt
    <2>1. BlkOf(row) = b
        BY <1>1
    <2>2. suspect' = {} /\ mark' = mark
        BY DEF ScanAgrees, ScanPage, ghosts
    <2>3. bbt' = IF row \in mark THEN bbt \union {b} ELSE bbt
        BY <2>1 DEF ScanPage
    <2>. QED
        BY <2>1, <2>2, <2>3
<1>3. /\ \A c \in Blks : c # b => (c \in bbt' <=> c \in bbt)
      /\ \A c \in Blks : Marked(c)' <=> Marked(c)
    BY <1>2 DEF Marked
<1>4. CASE row = FirstRow(b) /\ row \notin mark
    <2>1. ScanNext(row) = FirstRow(b) + 1 /\ ~(ScanNext(row) >= ScanEnd)
        BY <1>2, <1>4 DEF ScanNext, ScanEnd
    <2>2. op' = "probe" /\ row' = FirstRow(b) + 1 /\ FirstRow(b) \notin mark' /\ bbt' = bbt
        BY <2>1, <1>2, <1>4 DEF ScanPage
    <2>. QED
        BY <2>2, <1>1, <1>2, <1>3 DEF ScanAgrees
<1>5. CASE ~(row = FirstRow(b) /\ row \notin mark)
    <2>1. b \in bbt' <=> Marked(b)
        <3>1. CASE row \in mark
            BY <3>1, <1>1, <1>2 DEF Marked
        <3>2. CASE row \notin mark
            <4>1. p = 1 /\ ~Marked(b)
                BY <3>2, <1>1, <1>5 DEF Marked
            <4>2. b \notin bbt
                BY <1>1
            <4>. QED
                BY <4>1, <4>2, <3>2, <1>2
        <3>. QED
            BY <3>1, <3>2
    <2>2. ASSUME NEW c \in Blks, c < b + 1
          PROVE  c \in bbt' <=> Marked(c)
        <3>1. c < b \/ c = b
            BY <2>2
        <3>. QED
            BY <3>1, <1>1, <1>3, <2>1
    <2>3. ScanNext(row) = FirstRow(b + 1)
        BY <1>2, <1>5 DEF ScanNext
    <2>4. CASE ScanNext(row) >= ScanEnd
        <3>1. b + 1 \notin Blks /\ op' = "idle"
            BY <2>3, <2>4 DEF ScanEnd, ScanPage, Finish
        <3>2. \A c \in Blks : c \in bbt' <=> Marked(c)
            BY <3>1, <2>2
        <3>3. bbt' \subseteq Blks
            BY <1>2 DEF IInv, TypeOK
        <3>. QED
            BY <3>1, <3>2, <3>3 DEF ScanAgrees, MarkedBlks
    <2>5. CASE ~(ScanNext(row) >= ScanEnd)
        <3>1. op' = "probe" /\ row' = FirstRow(b + 1)
            BY <2>3, <2>5 DEF ScanPage
        <3>2. b + 1 \in Blks /\ row' = FirstRow(b + 1) + 0
            <4>1. FirstRow(b + 1) \in Nat
                BY NextBlock
            <4>2. FirstRow(b + 1) < NRows
                BY <4>1, <2>3, <2>5 DEF ScanEnd
            <4>. QED
                BY <3>1, <4>1, <4>2
        <3>3. \A c \in Blks : c >= b + 1 => c \notin bbt'
            BY <1>1, <1>3
        <3>4. ScanAgrees'
            BY <3>1, <3>2, <3>3, <2>2, <1>2, <1>3 DEF ScanAgrees
        <3>. QED
            BY <3>1, <3>4
    <2>. QED
        BY <2>4, <2>5
<1>. QED
    BY <1>4, <1>5

LEMMA NextScanAgrees ==
    ASSUME HasMarker, IInv, RInv, ScanAgrees, [Next]_vars
    PROVE  ScanAgrees'
<1>1. CASE Setup
    <2>1. suspect' = {} /\ bbt' = {} /\ row' = FirstRow(0) + 0 /\ 0 \in Blks
          /\ \A c \in Blks : ~(c < 0)
        BY <1>1, Geometry DEF Setup, RInv, RetiredKnown, GeometryFacts
    <2>. QED
        BY <2>1 DEF ScanAgrees
<1>2. CASE ScanPage
    BY <1>2, ScanStep
<1>3. CASE UNCHANGED vars
    BY <1>3 DEF vars, ghosts, ScanAgrees, Marked
<1>4. CASE op # "probe" /\ Settle
    BY <1>4 DEF Settle, call, ScanAgrees
<1>5. op = "probe" => ~Settle
    BY DEF Settle, RInv, RetiredKnown
<1>6. CASE ScanFail \/ PowerCut \/ Application
    <2>1. op' # "probe"
        BY <1>6 DEF ScanFail, PowerCut, Application, EraseCall, TransferCall, SetBBCall,
            SetEccEn, Start, Finish, call
    <2>. QED
        BY <2>1 DEF ScanAgrees
<1>7. CASE \/ EraseBlock \/ EraseIgnored \/ EraseStatus \/ EraseFail \/ MarkPage \/ MarkFail
    <2>1. op' # "probe"
        BY <1>7 DEF EraseBlock, EraseIgnored, EraseStatus, EraseFail, MarkPage, MarkFail,
            Erased, Error, Advance, Finish
    <2>. QED
        BY <2>1 DEF ScanAgrees
<1>8. CASE \/ ReadStart \/ ReadData \/ ReadOob \/ ReadSeq \/ ReadFail
           \/ ProgramPage \/ LoadPart \/ ProgramPart \/ CacheStep
           \/ PartLost \/ CacheStatus \/ LastStatus \/ ProgramFail
    <2>1. op \in {"read", "program"} /\ op' \in {op, "idle"}
        BY <1>8, TransferOp
    <2>. QED
        BY <2>1 DEF ScanAgrees
<1>. QED
    BY <1>1, <1>2, <1>3, <1>4, <1>5, <1>6, <1>7, <1>8 DEF Next, Driver, Failure

LEMMA ScanInvariant ==
    ASSUME Internal
    PROVE  Spec => []ScanAgrees
<1>1. HasMarker
    BY DEF Internal, HasMarker
<1>2. Init => ScanAgrees
    BY DEF Init, ScanAgrees
<1>3. IInv /\ RInv /\ ScanAgrees /\ [Next]_vars => ScanAgrees'
    BY <1>1, NextScanAgrees
<1>4. Spec => []RInv
    BY <1>1, RetiredInvariant
<1>. QED
    BY <1>2, <1>3, <1>4, Invariant, PTL DEF Spec
\* The variables of BadBlocks, as IsBadBlockManager has them.
Known   == IF Ready THEN bbt ELSE {}
Marking == IF op = "mark" /\ left = 1 THEN range ELSE {}
Unsure  == IF Ready THEN suspect ELSE {}

Stutter == UNCHANGED <<MarkedBlks, Ready, Known, Marking, Unsure>>

\* Calls, reads, programs and what the chip does by itself do nothing visible.
LEMMA QuietRefines ==
    ASSUME RInv, Plain,
           \/ Setup \/ Application \/ UNCHANGED vars \/ Settle
           \/ ReadStart \/ ReadData \/ ReadOob \/ ReadSeq \/ ReadFail
           \/ ProgramPage \/ LoadPart \/ ProgramPart \/ CacheStep
           \/ PartLost \/ CacheStatus \/ LastStatus \/ ProgramFail
    PROVE  Stutter
<1>1. CASE Setup
    BY <1>1 DEF Setup, Stutter, MarkedBlks, Marked, Ready, Known, Marking, Unsure
<1>2. CASE Application
    <2>1. op = "idle" /\ op' \notin {"off", "probe"} /\ UNCHANGED <<mark, bbt, suspect>>
          /\ ~(op' = "mark" /\ left' = 1)
        BY <1>2 DEF Application, EraseCall, TransferCall, SetBBCall, SetEccEn, Start, call, ghosts
    <2>. QED
        BY <2>1 DEF Stutter, MarkedBlks, Marked, Ready, Known, Marking, Unsure
<1>3. CASE UNCHANGED vars
    BY <1>3 DEF vars, Stutter, MarkedBlks, Marked, Ready, Known, Marking, Unsure
<1>4. CASE Settle
    <2>1. op # "off"
        BY <1>4 DEF Settle, RInv, RetiredKnown
    <2>2. mark' = mark /\ suspect' = suspect
        BY <1>4, <2>1, TakeOverPlain DEF Settle
    <2>3. UNCHANGED <<op, left, range, bbt>>
        BY <1>4 DEF Settle, call
    <2>. QED
        BY <2>2, <2>3 DEF Stutter, MarkedBlks, Marked, Ready, Known, Marking, Unsure
<1>5. CASE \/ ReadStart \/ ReadData \/ ReadOob \/ ReadSeq \/ ReadFail
           \/ ProgramPage \/ LoadPart \/ ProgramPart \/ CacheStep
           \/ PartLost \/ CacheStatus \/ LastStatus \/ ProgramFail
    <2>1. UNCHANGED <<mark, bbt, suspect>> /\ op \in {"read", "program"} /\ op' \in {op, "idle"}
        BY <1>5, TransferPlain, TransferOp
    <2>. QED
        BY <2>1 DEF Stutter, MarkedBlks, Marked, Ready, Known, Marking, Unsure
<1>. QED
    BY <1>1, <1>2, <1>3, <1>4, <1>5

LEMMA ScanRefines ==
    ASSUME HasMarker, IInv, ScanAgrees, ScanPage
    PROVE  Stutter \/ Manager!Probe
<1>1. op = "probe" /\ suspect' = {} /\ mark' = mark
    BY DEF ScanAgrees, ScanPage, ghosts
<1>2. MarkedBlks' = MarkedBlks
    BY <1>1 DEF MarkedBlks, Marked
<1>3. CASE op' = "probe"
    BY <1>1, <1>2, <1>3 DEF Stutter, Ready, Known, Marking, Unsure
<1>4. CASE op' = "idle"
    <2>1. bbt' = MarkedBlks
        BY <1>4, ScanStep
    <2>. QED
        BY <1>1, <1>2, <1>4, <2>1 DEF Manager!Probe, Ready
<1>. QED
    BY <1>1, <1>3, <1>4 DEF ScanPage, Finish

\* An erase is done, ignored by the chip, or fails.
LEMMA EraseRefines ==
    ASSUME IInv, EraseBlock \/ EraseIgnored \/ EraseStatus \/ EraseFail,
           EraseIgnored => Faults
    PROVE  \E b \in Blks : Manager!Erase(b) \/ Manager!Ignored(b) \/ Manager!Fail(b)
<1>1. PICK b \in Blks : b = BlkOf(row)
    BY Geometry DEF GeometryFacts, IInv, TypeOK
<1>2. Ready /\ Ready' /\ op # "mark" /\ ~(op' = "mark" /\ left' = 1)
    <2>1. op \in {"erase", "pre_erase"}
        BY DEF EraseBlock, EraseIgnored, EraseStatus, EraseFail
    <2>2. \/ op' \in {"idle", "erase"}
          \/ op = "pre_erase" /\ op' = "mark" /\ left' = left
        BY <2>1 DEF EraseBlock, EraseIgnored, EraseStatus, EraseFail, Erased, Error, Advance, Finish
    <2>3. op = "pre_erase" => left = 2
        BY DEF IInv, CallFits
    <2>. QED
        BY <2>1, <2>2, <2>3 DEF Ready
<1>3. mark \ RowsOf(b) \subseteq mark' /\ mark' \subseteq mark
    BY <1>1, Zenon DEF EraseBlock, EraseIgnored, EraseStatus, EraseFail
<1>4. \A c \in Blks \ {b} : Marked(c)' <=> Marked(c)
    <2>1. ASSUME NEW c \in Blks, c # b
          PROVE  FirstRow(c) \notin RowsOf(b) /\ FirstRow(c) + 1 \notin RowsOf(b)
        BY <2>1, Geometry DEF GeometryFacts, RowsOf
    <2>. QED
        BY <1>3, <2>1 DEF Marked
<1>5. Marked(b)' => Marked(b)
    BY <1>3 DEF Marked
<1>6. CASE EraseBlock
    <2>1. mark' = mark \ RowsOf(b) /\ bbt' = bbt \ {b} /\ suspect' = suspect \ {b}
        BY <1>1, <1>6 DEF EraseBlock, ClearBB
    <2>2. ~(Marked(b)')
        BY <2>1, Geometry DEF Marked, RowsOf, GeometryFacts
    <2>3. MarkedBlks' = MarkedBlks \ {b}
        BY <1>4, <2>2 DEF MarkedBlks
    <2>. QED
        BY <1>2, <2>1, <2>3 DEF Manager!Erase
<1>7. CASE EraseIgnored
    <2>1. mark' = mark /\ bbt' = bbt \ {b} /\ suspect' = suspect \union {b}
        BY <1>1, <1>7 DEF EraseIgnored, ClearBB
    <2>2. MarkedBlks' = MarkedBlks
        BY <2>1 DEF MarkedBlks, Marked
    <2>. QED
        BY <1>2, <1>7, <2>1, <2>2 DEF Manager!Ignored
<1>8. CASE EraseStatus \/ EraseFail
    <2>1. bbt' = bbt /\ suspect' = suspect \union {b}
        BY <1>1, <1>8 DEF EraseStatus, EraseFail
    <2>2. MarkedBlks' \in {MarkedBlks, MarkedBlks \ {b}}
        BY <1>4, <1>5 DEF MarkedBlks
    <2>. QED
        BY <1>2, <2>1, <2>2 DEF Manager!Fail
<1>. QED
    BY <1>6, <1>7, <1>8

\* set_bb puts the marker on the flash, reports it, or fails.
LEMMA MarkRefines ==
    ASSUME HasMarker, IInv, RInv, Plain, MarkPage \/ MarkFail
    PROVE  \E b \in Blks : Manager!PutMark(b) \/ Manager!Report(b) \/ Manager!Fail(b)
<1>1. op = "mark" /\ bufOob = "bad" /\ (left = 1 => row - 1 \in mark)
    BY DEF MarkPage, MarkFail, RInv, RetiredMarked
<1>2. PICK b \in Blks :
          /\ range = {b}
          /\ \/ left = 2 /\ row = FirstRow(b)
             \/ left = 1 /\ row = FirstRow(b) + 1
    BY <1>1 DEF IInv, CallFits
<1>3. /\ left = 1 => FirstRow(b) \in mark /\ TableBlk(row) = b
      /\ row \in {FirstRow(b), FirstRow(b) + 1}
    <2>1. left = 1 => row = FirstRow(b) + 1 /\ row - 1 = FirstRow(b) /\ TableBlk(row) = b
        BY <1>2, Geometry DEF TableBlk, GeometryFacts
    <2>. QED
        BY <1>1, <1>2, <2>1
<1>4. /\ Stains(Abandoned) = {} /\ BlksOf(Abandoned) = {} /\ Stains(pend) = {}
      /\ BlksOf(pend) = {}
    <2>1. \A p \in pend : ~p.bad
        BY DEF Plain
    <2>. QED
        BY <2>1, NoStains DEF Abandoned
<1>5. Stains(MarkOf(row)) = {row}
    BY <1>1, MarkStains, StainsOfStep
<1>6. /\ mark \subseteq mark' /\ mark' \subseteq mark \union {row}
      /\ MarkPage => row \in mark'
    <2>1. ASSUME MarkPage
          PROVE  mark' = mark \union {row}
        <3>1. mark' = mark \union Stains(MarkOf(row) \union (pend \ Abandoned))
            BY <1>4, <2>1 DEF MarkPage, TakeOver
        <3>2. Stains(MarkOf(row) \union (pend \ Abandoned)) = Stains(MarkOf(row))
            BY Zenon DEF Plain, Stains
        <3>. QED
            BY <1>5, <3>1, <3>2
    <2>2. ASSUME MarkFail
          PROVE  mark \subseteq mark' /\ mark' \subseteq mark \union {row}
        <3>1. ASSUME NEW ps \in {{}, MarkOf(row)}, mark' = mark \union Stains(ps) \union {}
              PROVE  mark \subseteq mark' /\ mark' \subseteq mark \union {row}
            BY <1>5, <3>1, NoStains
        <3>. QED
            BY <1>4, <2>2, <3>1 DEF MarkFail
    <2>. QED
        BY <2>1, <2>2
<1>7. \A c \in Blks \ {b} : Marked(c)' <=> Marked(c)
    <2>1. ASSUME NEW c \in Blks, c # b
          PROVE  FirstRow(c) # row /\ FirstRow(c) + 1 # row
        BY <1>3, <2>1, Geometry DEF GeometryFacts
    <2>. QED
        BY <1>6, <2>1 DEF Marked
<1>8. Ready /\ Ready' /\ (Marked(b) => Marked(b)')
    BY <1>1, <1>6 DEF MarkPage, MarkFail, Advance, Error, Finish, Ready, Marked
<1>9. CASE MarkPage /\ left # 1
    <2>1. op' = "mark" /\ left = 2 /\ left' = 1 /\ range' = {b} /\ bbt' = bbt
        BY <1>1, <1>2, <1>9 DEF MarkPage, Advance
    <2>2. suspect' = suspect
        BY <1>4, <1>9 DEF MarkPage, TakeOver
    <2>3. Marked(b)'
        BY <1>3, <1>6, <1>9 DEF Marked
    <2>4. MarkedBlks' = MarkedBlks \union {b}
        BY <1>7, <2>3 DEF MarkedBlks
    <2>. QED
        BY <1>8, <1>9, <2>1, <2>2, <2>4 DEF Manager!PutMark
<1>10. CASE MarkPage /\ left = 1
    <2>1. op' = "idle" /\ bbt' = bbt \union {b}
        BY <1>3, <1>10 DEF MarkPage, Advance, Finish
    <2>2. suspect' = suspect \ {b}
        BY <1>2, <1>4, <1>10 DEF MarkPage, TakeOver
    <2>3. Marked(b) /\ Marked(b)'
        BY <1>3, <1>8, <1>10 DEF Marked
    <2>4. MarkedBlks' = MarkedBlks
        BY <1>7, <2>3 DEF MarkedBlks
    <2>. QED
        BY <1>1, <1>2, <1>8, <1>10, <2>1, <2>2, <2>4 DEF Manager!Report
<1>11. CASE MarkFail
    <2>1. op' = "idle" /\ bbt' = bbt
        BY <1>11 DEF MarkFail, Error, Finish
    <2>2. suspect' = suspect \union {b}
        BY <1>2, <1>4, <1>11 DEF MarkFail
    <2>3. MarkedBlks' \in {MarkedBlks, MarkedBlks \union {b}}
        BY <1>7, <1>8 DEF MarkedBlks
    <2>. QED
        BY <1>1, <1>2, <1>8, <2>1, <2>2, <2>3 DEF Manager!Fail
<1>. QED
    BY <1>9, <1>10, <1>11

LEMMA OffRefines ==
    ASSUME Plain, ScanFail \/ PowerCut
    PROVE  Manager!Off
<1>1. op' = "off"
    BY DEF ScanFail, PowerCut, Finish
<1>2. Stains(pend) = {}
    BY NoStains DEF Plain
<1>3. mark' = mark
    BY <1>2 DEF ScanFail, PowerCut
<1>4. MarkedBlks' = MarkedBlks
    BY <1>3 DEF MarkedBlks, Marked
<1>. QED
    BY <1>1, <1>4 DEF Manager!Off, Ready
\* What the chip leaves undone it does after a failure only: without one it writes
\* the page of a cache program while the driver is about the next.
InTurn == ~Faults /\ mode = "cache" => op = "program" /\ pc = "seq"

LEMMA NextInTurn ==
    ASSUME IInv, InTurn, [Next]_vars
    PROVE  InTurn'
<1>1. CASE mode' # "cache"
    BY <1>1 DEF InTurn
<1>2. CASE Faults
    BY <1>2 DEF InTurn
<1>3. CASE mode' = "cache" /\ ~Faults
    <2>1. CASE CacheStep
        <3>1. Whole # 1
            BY <1>3, <2>1 DEF CacheStep, Free
        <3>2. left # 1
            BY <2>1, <3>1, CachedFacts DEF CacheStep
        <3>. QED
            BY <2>1, <3>1, <3>2 DEF CacheStep, Advance, Cached, InTurn
    <2>2. CASE ~CacheStep
        <3>1. ~Failure
            BY <1>3 DEF Failure, ScanFail, EraseStatus, EraseFail, MarkFail, ReadFail,
                PartLost, CacheStatus, LastStatus, ProgramFail
        <3>2. mode = "cache" /\ op = "program" /\ pc = "seq"
              => ~Setup /\ ~Application /\ ~Driver
            BY <2>2 DEF Setup, Application, EraseCall, TransferCall, SetBBCall, SetEccEn, Start,
                Driver, ScanPage, EraseBlock, EraseIgnored, MarkPage, ReadStart, ReadData,
                ReadOob, ReadSeq, ProgramPage, LoadPart, ProgramPart
        <3>3. mode = "cache" \/ ~(Setup \/ Application \/ Driver)
            BY <1>3, <2>2 DEF Setup, Application, EraseCall, TransferCall, SetBBCall, SetEccEn,
                Start, chip, Driver, ScanPage, EraseBlock, EraseIgnored, MarkPage, ReadStart,
                ReadArray, ReadData, ReadOob, ReadSeq, ProgramPage, LoadPart, ProgramPart, Free
        <3>4. ~Settle /\ ~PowerCut
            BY <1>3 DEF Settle, PowerCut
        <3>5. CASE UNCHANGED vars
            BY <3>5 DEF vars, InTurn
        <3>. QED
            BY <1>3, <3>1, <3>2, <3>3, <3>4, <3>5 DEF Next, InTurn
    <2>. QED
        BY <2>1, <2>2
<1>. QED
    BY <1>1, <1>2, <1>3

\* On a chip with an ECC of its own every behaviour of the driver is one of a
\* bad-block manager, over failing commands, fail bits, abandoned cache programs,
\* power cuts and probes; the flash ignores an erase only after a failure
\* (rawnand_probe, rawnand_set_bb, rawnand_erase, rawnand_chk_bb).
THEOREM Refinement ==
    ASSUME Internal
    PROVE  Spec => IsBadBlockManager
<1>1. HasMarker
    BY DEF Internal, HasMarker
<1>2. Init => Manager!Init
    BY DEF Init, Manager!Init, MarkedBlks, Ready
<1>3. ASSUME IInv, RInv, Plain, ScanAgrees, InTurn, [Next]_vars
      PROVE  [Manager!Next]_Manager!vars
    <2>1. Stutter => UNCHANGED Manager!vars
        BY DEF Stutter, Manager!vars, Known, Marking, Unsure
    <2>2. CASE \/ Setup \/ Application \/ UNCHANGED vars \/ Settle
               \/ ReadStart \/ ReadData \/ ReadOob \/ ReadSeq \/ ReadFail
               \/ ProgramPage \/ LoadPart \/ ProgramPart \/ CacheStep
               \/ PartLost \/ CacheStatus \/ LastStatus \/ ProgramFail
        BY <1>3, <2>1, <2>2, QuietRefines
    <2>3. CASE ScanPage
        BY <1>1, <1>3, <2>1, <2>3, ScanRefines DEF Manager!Next
    <2>4. CASE EraseBlock \/ EraseIgnored \/ EraseStatus \/ EraseFail
        <3>1. EraseIgnored => Faults
            BY <1>3 DEF EraseIgnored, InTurn
        <3>. QED
            BY <1>3, <2>4, <3>1, EraseRefines DEF Manager!Next
    <2>5. CASE MarkPage \/ MarkFail
        BY <1>1, <1>3, <2>5, MarkRefines DEF Manager!Next
    <2>6. CASE ScanFail \/ PowerCut
        BY <1>3, <2>6, OffRefines DEF Manager!Next
    <2>. QED
        BY <1>3, <2>2, <2>3, <2>4, <2>5, <2>6 DEF Next, Driver, Failure
<1>4. Init => InTurn
    BY DEF Init, InTurn
<1>5. IInv /\ InTurn /\ [Next]_vars => InTurn'
    BY NextInTurn
<1>6. Spec => []RInv
    BY <1>1, RetiredInvariant
<1>7. Spec => []Plain
    BY PlainInvariant
<1>8. Spec => []ScanAgrees
    BY ScanInvariant
<1>. QED
    BY <1>2, <1>3, <1>4, <1>5, <1>6, <1>7, <1>8, Invariant, PTL
    DEF Spec, IsBadBlockManager, Manager!Spec

LEMMA SoundStep ==
    Manager!Sound /\ Manager!MarkedFirst /\ [Manager!Next]_Manager!vars
        => Manager!Sound' /\ Manager!MarkedFirst'
<1> SUFFICES ASSUME Manager!Sound, Manager!MarkedFirst, [Manager!Next]_Manager!vars
             PROVE  Manager!Sound' /\ Manager!MarkedFirst'
    OBVIOUS
<1>1. CASE Manager!Probe \/ Manager!Off \/ UNCHANGED Manager!vars
    BY <1>1 DEF Manager!Probe, Manager!Off, Manager!vars, Manager!Sound, Manager!MarkedFirst
<1>2. ASSUME NEW b \in Blks,
             \/ Manager!PutMark(b) \/ Manager!Report(b) \/ Manager!Erase(b)
             \/ Manager!Fail(b) \/ Manager!Ignored(b)
      PROVE  Manager!Sound' /\ Manager!MarkedFirst'
    BY <1>2 DEF Manager!PutMark, Manager!Report, Manager!Erase, Manager!Fail, Manager!Ignored,
                Manager!Sound, Manager!MarkedFirst
<1>. QED
    BY <1>1, <1>2 DEF Manager!Next

\* So it keeps the promise of one: whenever the driver is ready, the blocks its table
\* calls bad and those that a scan of the flash would find are the same, but for the
\* block being marked and those on which a command failed or was ignored since the
\* last probe (chk_bb after rawnand_probe, rawnand_set_bb and rawnand_erase).
THEOREM DriverSound ==
    ASSUME Internal
    PROVE  Spec => []Manager!Sound
<1>1. Spec => Manager!Spec
    BY Refinement DEF IsBadBlockManager
<1>2. Manager!Init => Manager!Sound /\ Manager!MarkedFirst
    BY DEF Manager!Init, Manager!Sound, Manager!MarkedFirst
<1>. QED
    BY <1>1, <1>2, SoundStep, PTL DEF Manager!Spec
=============================================================================
