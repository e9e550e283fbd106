--------------------------- MODULE MCPlatformXfer ---------------------------
(* Instances of PlatformXfer for TLC: the lists of spinand_cmd.c, rawnand_cmd.c
   and spinor_cmd.c of each shape, and eyes for the calibration. *)
EXTENDS PlatformXfer

CA == <<"cmd", "addr">>
Cmd(c, phases)   == [cs |-> c, skip |-> FALSE, phases |-> phases, data |-> "none",
                     words |-> FALSE, aligned |-> TRUE, poll |-> FALSE, starts |-> FALSE]
Starts(p)        == [p EXCEPT !.starts = TRUE]
In(p)            == [p EXCEPT !.data = "in"]
Out(p)           == [p EXCEPT !.data = "out"]
Words(p)         == [p EXCEPT !.words = TRUE]
Odd(p)           == [Words(p) EXCEPT !.aligned = FALSE]
Poll(c, phases)  == [In(Cmd(c, phases)) EXCEPT !.poll = TRUE]
Skipped(p)       == [p EXCEPT !.skip = TRUE]

\* SPI NAND: a page is read; a page is programmed from an aligned column; a write
\* of one feature byte; a read at an odd address, as SPI NOR does it.
SpiOps == {
    << <<Starts(Cmd("REGULAR", CA)), Poll("REGULAR", CA)>>,
       <<Words(In(Cmd("REGULAR", <<"cmd", "addr", "dummy">>)))>> >>,
    << <<Cmd("REGULAR", <<"cmd">>), Words(Out(Cmd("REGULAR", CA)))>>,
       <<Starts(Cmd("REGULAR", CA)), Poll("REGULAR", CA)>> >>,
    << <<Out(Cmd("REGULAR", CA))>> >>,
    << <<Odd(In(Cmd("REGULAR", <<"cmd", "addr", "dummy">>)))>> >> }

\* Raw NAND: the ID; a page and the next from the cache, then the end of it; a
\* program of part of a page whose ECC bytes start at a column DMA refuses, or not.
RawPoll == Poll("KEEP", <<"cmd">>)
CacheSeq(last) == <<Starts(Cmd("KEEP", <<"cmd">>)), RawPoll,
                    Words(In(Cmd("KEEP", <<"cmd">>))),
                    IF last THEN Cmd("DEASSERT", <<>>) ELSE Skipped(Cmd("DEASSERT", <<>>))>>
PgmEnd == <<Starts(Cmd("KEEP", <<"cmd">>)), RawPoll, Cmd("DEASSERT", <<>>)>>
RawOps == {
    << <<In(Cmd("REGULAR", CA))>> >>,
    << <<Cmd("ASSERT", CA), Starts(Cmd("KEEP", <<"cmd">>)), RawPoll>>,
       CacheSeq(FALSE), CacheSeq(TRUE)>>,
    << <<Words(Out(Cmd("ASSERT", CA)))>>, <<Out(Cmd("KEEP", CA))>> \o PgmEnd>>,
    << <<Words(Out(Cmd("ASSERT", CA)))>>, <<Odd(Out(Cmd("KEEP", CA)))>> \o PgmEnd>> }

\* SPI NOR: eyes for the calibration.
Point(s) == [dqs |-> FALSE, good |-> s]
Dqs(f)   == [dqs |-> TRUE, good |-> f]
PointEyes ==
    {Point(S) : S \in SUBSET {0, 3, 4, 7}} \union {Point(a..b) : a, b \in 0..7}
DqsEyes ==
    {Dqs([m \in Columns |-> (4 * m)..(4 * m + w)]) : w \in {-1, 0, 3, 8}} \union
    {Dqs([m \in Columns |-> IF m \in {2, 5} THEN 6..19 ELSE IF m = 3 THEN 9..9 ELSE {}])}

MCDevices == {[ops |-> SpiOps, eyes |-> {}], [ops |-> RawOps, eyes |-> {}],
              [ops |-> {}, eyes |-> PointEyes], [ops |-> {}, eyes |-> DqsEyes]}
=============================================================================
