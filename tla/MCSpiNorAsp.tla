---------------------------- MODULE MCSpiNorAsp ----------------------------
(* SpiNorAsp on a chip of three blocks: sectors of two bytes at 0, 2, 8 and 10,
   a block of four at 4. *)
EXTENDS SpiNorAsp

\* The chip, one block, ranges of parts of units that cross from sectors to the
\* block and back, an end on a first byte, a single first byte, byte 0, and what
\* must be refused: nothing, beyond the end, a sum that overflows.
MCSpans ==
    { <<0, 12>>, <<4, 4>>, <<3, 3>>, <<5, 6>>, <<1, 5>>,
      <<2, 1>>, <<0, 1>>,
      <<4, 0>>, <<11, 2>>, <<3, 23>> }
=============================================================================
