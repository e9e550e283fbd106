----------------------------- MODULE MCSpiNand -----------------------------
(* Instances of SpiNand for TLC: two blocks of four pages, the smallest chip
   on which set_bb's address arithmetic, an erase of two blocks and a transfer
   across a block boundary all occur. *)
EXTENDS SpiNandTable

\* A page, a run across the block boundary, each block, the chip; and calls the
\* driver must refuse: misaligned (for erase), beyond the end, empty.
MCSpans == {<<0, 1>>, <<2, 3>>, <<0, 4>>, <<4, 4>>, <<0, 8>>,
            <<1, 4>>, <<4, 5>>, <<8, 1>>, <<0, 0>>}

\* With software ECC any page can come to carry a marker: fewer calls suffice.
MCSwSpans == {<<3, 2>>, <<4, 4>>, <<8, 1>>}
=============================================================================
