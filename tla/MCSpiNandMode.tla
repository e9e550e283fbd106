--------------------------- MODULE MCSpiNandMode ---------------------------
(* All builds of SpiNandMode on chips with and without continuous read. *)
EXTENDS SpiNandMode

MCBuilds == EccTypes \X BOOLEAN
=============================================================================
