---------------------------- MODULE NandGeometry ----------------------------
(***************************************************************************)
(* Blocks and pages of a NAND chip, as both NAND drivers count them.       *)
(* Addresses are in pages ("rows"); the drivers shift byte addresses by    *)
(* the page and block sizes, which are powers of two.                      *)
(***************************************************************************)
EXTENDS Integers

CONSTANTS
    NBlks,    \* memorg.nblks_per_chip
    NPages    \* memorg.npages_per_blk

\* set_bb marks the first two pages of a block and finds the block number from
\* the address after them: a block has more than two pages.
ASSUME GeometryAssumption ==
    /\ NBlks \in Nat \ {0}
    /\ NPages \in Nat /\ NPages > 2

Blks  == 0 .. NBlks - 1
NRows == NBlks * NPages
Rows  == 0 .. NRows - 1
BlkOf(r)    == r \div NPages
FirstRow(b) == b * NPages
RowsOf(b)   == {r \in Rows : BlkOf(r) = b}

\* addr >= size_chip || nbytes > size_chip - addr, in pages.
\* Slip: > for >=, and the mirrored error in the remaining length.
OneBeyond(r, n) == r > NRows \/ n > NRows - r + 1
OutOfChip(r, n) == r >= NRows \/ n > NRows - r
=============================================================================
