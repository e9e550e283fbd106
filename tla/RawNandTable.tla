---------------------------- MODULE RawNandTable ----------------------------
(* RawNand as a bad-block manager, in the terms of SpiNandTable.  Its chip may
   ignore an erase: while it still writes the page of a cache program that the
   driver has given up. *)
EXTENDS RawNand

MarkedBlks == {b \in Blks : Marked(b)}
Ready      == op \notin {"off", "probe"}

Manager == INSTANCE BadBlocks WITH
    Deaf    <- Faults,
    bad     <- MarkedBlks,
    ready   <- Ready,
    known   <- IF Ready THEN bbt ELSE {},
    marking <- IF op = "mark" /\ left = 1 THEN range ELSE {},
    unsure  <- IF Ready THEN suspect ELSE {}

\* On a chip with an ECC of its own the driver is a bad-block manager: in every
\* step of every call, whatever fails and whatever an abandoned cache program
\* leaves behind, it changes table and markers as BadBlocks allows (rawnand_probe,
\* rawnand_set_bb, rawnand_erase, rawnand_chk_bb).
IsBadBlockManager == Manager!Spec
=============================================================================
