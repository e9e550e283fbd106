----------------------------- MODULE MCNandEcc -----------------------------
(* Instances of NandEcc for TLC: two pages of two steps of 16 bytes, two bits
   corrected in each, the smallest code bch_init accepts. *)
EXTENDS NandEcc

MCCodec == NandBchInit

\* Both pages, a run across two steps, a run across the pages that covers
\* neither, a part of a page and a page.
MCCalls == {<<0, 64>>, <<8, 16>>, <<24, 24>>, <<16, 48>>}

\* Every third bit is programmed.
MCImages == {{b \in 0..(NPages * PageBits - 1) : b % 3 = 0}}

\* First and last bit of the data, bits between, and the highest bit of the ECC,
\* whose root is behind the data: that of step 0 is a bit of step 1, that of step 3
\* behind the buffer of a read.  Wrong together, the three bits of the data of step
\* 0 make the decoder change two bits of step 1.
MCPlaces ==
    {<<0, "data", 0>>, <<0, "data", 17>>, <<0, "data", 127>>, <<0, "ecc", 15>>,
     <<1, "data", 64>>, <<3, "data", 120>>, <<3, "ecc", 15>>}
=============================================================================
