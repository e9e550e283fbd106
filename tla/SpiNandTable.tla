---------------------------- MODULE SpiNandTable ----------------------------
(* SpiNand as a bad-block manager: the flash marks a block as bad when a scan
   would find it so, and the manager is ready when no probe is to come. *)
EXTENDS SpiNand

MarkedBlks == {b \in Blks : Marked(b)}
Ready      == op \notin {"off", "probe"}

Manager == INSTANCE BadBlocks WITH
    Deaf    <- FALSE,
    bad     <- MarkedBlks,
    ready   <- Ready,
    known   <- IF Ready THEN bbt ELSE {},
    marking <- IF op = "mark" /\ left = 1 THEN range ELSE {},
    unsure  <- IF Ready THEN suspect ELSE {}

\* Without software ECC the driver is a bad-block manager: in every step of every
\* call, and whatever fails, it changes table and markers as BadBlocks allows
\* (spinand_probe, spinand_set_bb, spinand_erase, spinand_chk_bb).
IsBadBlockManager == Manager!Spec
=============================================================================
