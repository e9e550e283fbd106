------------------------------ MODULE NandEcc ------------------------------
(***************************************************************************)
(* Software ECC of both NAND drivers: what mxmtd/nand.c does with the      *)
(* codec of Bch on the pages of the flash, called by page_read and         *)
(* page_pgm, unalign_read and unalign_pgm of spinand.c and rawnand.c.      *)
(* Every ECC step of a page has its data and, in the spare area, its ECC   *)
(* bytes; a call covers any run of bytes and works on the steps it         *)
(* touches.  Cells lose or gain a bit on their own (Noise).                *)
(*                                                                         *)
(* The commands that carry bytes to the chip and back succeed here; how    *)
(* they fail, and that the window step_s..step_e is the whole page again   *)
(* after every call, is the subject of SpiNand and RawNand.                *)
(***************************************************************************)
EXTENDS Bch

CONSTANTS
    SizeStep,        \* ecc.size_step, bytes of data in an ECC step
    Strength,        \* ecc.strength, the bits to be corrected in a step
    Codec,           \* ecc.priv, the bch_t of nand_bch_init
    NPages, NSteps,  \* pages, and ECC steps per page
    SizeOob,         \* bytes of the spare area, which follows buf_data in RAM
    Calls,           \* <<addr, nbytes>> of reads and programs
    Images,          \* the data of programs, as the set of its bits that are zero
    Places,          \* <<step, "data" or "ecc", bit>>: the cells that may go wrong
    MaxWrong         \* bound: how many of them are wrong at a time

(* nand_bch_init.  Codec is a parameter so that TLC computes its tables once. *)
NandBchInit == BchInit(Fmsb32(BitsOf(8 * SizeStep)) + 1, Strength, SizeStep)

\* The data fits behind the zeros that lead the codeword, in the smallest field
\* that has room for it.
ASSUME CodecAssumption ==
    /\ SizeStep \in 16..1023 /\ Strength \in 1..12
    /\ Codec = NandBchInit /\ Codec.m \in 8..13 /\ Codec.n \in Nat
    /\ 4 * Codec.ecc_words + SizeStep <= Codec.len /\ Codec.len <= 2 * SizeStep

NBytes  == Codec.ecc_bytes
EccBits == Codec.ecc_bits

DataBits == 0..(8 * SizeStep - 1)

\* The bits of the ecc bytes; those below zero pad the last byte.
EccByteBits == (EccBits - 8 * NBytes)..(EccBits - 1)

Steps == 0..(NPages * NSteps - 1)

ASSUME EccAssumption ==
    /\ NPages \in Nat \ {0} /\ NSteps \in Nat \ {0} /\ MaxWrong \in Nat
    /\ SizeOob \in Nat /\ SizeOob >= NSteps * NBytes + 2
    /\ Calls \subseteq Nat \X Nat
    /\ \A c \in Calls : c[2] > 0 /\ c[1] + c[2] <= NPages * NSteps * SizeStep
    /\ Places \subseteq (Steps \X {"data"} \X DataBits)
                          \union (Steps \X {"ecc"} \X EccByteBits)

\* The errors the code promises to correct (bch_init's t, bch.h:49): any Strength
\* bits of the data and its ECC bits, of which bit r is -1 - r here.
ErrorPatterns ==
    {{f[i] : i \in 1..Strength} :
        f \in [1..Strength -> (-EccBits)..(8 * SizeStep - 1)]}

\* What the proofs take from the codec, whose loops are out of their reach: its
\* ECC has ecc_bits bits, and bch_decode counts the errors of these patterns,
\* inverts the wrong bits of the data, and behind the data no more bits than
\* there are wrong ECC bits.
ASSUME BchAssumption ==
    /\ \A k \in DataBits : BchEncode(Codec, {k}) \subseteq 0..(EccBits - 1)
    /\ \A w \in ErrorPatterns :
          LET inData == w \intersect DataBits
              inEcc  == {r \in 0..(EccBits - 1) : -1 - r \in w}
              d      == BchDecode(Codec, SymDiff(BchEncode(Codec, inData), inEcc))
          IN  /\ d.err = Cardinality(inData) + Cardinality(inEcc)
              /\ d.flips \intersect DataBits = inData
              /\ Cardinality(d.flips \ DataBits) <= Cardinality(inEcc)
              /\ d.top \in 0..Strength

VARIABLES
    data,    \* the bits of each step that read as one
    code,    \* those of its ECC bytes
    pc,      \* "idle", or where the read in progress is
    result,  \* the read in progress, or what the last one has left behind
    \* observers
    meant,   \* what data and code would be had no cell gone wrong
    times    \* how often each step was programmed since its erase, up to two

cells == <<data, code, meant, times>>
vars  == <<data, code, pc, result, meant, times>>

StepBits == 8 * SizeStep
PageBits == NSteps * StepBits

NoResult == [call |-> <<0, 0>>]

Idle == pc = "idle" /\ result = NoResult

\* The cells of a step that are wrong, of its data and of its ECC bytes.
WrongData(s) == SymDiff(data[s], meant.data[s])
WrongCode(s) == SymDiff(code[s], meant.code[s])
Wrong(s)     == Cardinality(WrongData(s)) + Cardinality(WrongCode(s))
-----------------------------------------------------------------------------
(* nand_bch_init: mask_ff makes the ECC of erased data read as erased. *)
MaskFF == SymDiff(BchEncode(Codec, DataBits), EccByteBits)

(* nand_bch_calc *)
Calc(ones) == SymDiff(BchEncode(Codec, ones), MaskFF)

Window(c)  == (8 * c[1])..(8 * (c[1] + c[2]) - 1)
InStep(s, bits) == {k \in DataBits : s * StepBits + k \in bits}

\* The steps a call touches.
StepsOf(c) == (c[1] \div SizeStep)..((c[1] + c[2] - 1) \div SizeStep)

PagesOf(c) == {s \div NSteps : s \in StepsOf(c)}
-----------------------------------------------------------------------------
Blank(c) == [s \in Steps |-> c]

Init ==
    /\ data = Blank(DataBits) /\ code = Blank(EccByteBits)
    /\ meant = [data |-> data, code |-> code]
    /\ times = Blank(0) /\ Idle

(* The erase of the block. *)
Erase ==
    /\ Idle /\ UNCHANGED <<pc, result>>
    /\ data' = Blank(DataBits) /\ code' = Blank(EccByteBits)
    /\ meant' = [data |-> data', code |-> code']
    /\ times' = Blank(0)

(* What buf_data holds of a step when its ECC is computed: the bytes of the call
   with 0xFF around them. *)
Sent(c, image, s) == DataBits \ InStep(s, image \intersect Window(c))

\* Programming clears bits and sets none.
DataAfter(old, c, image) ==
    [s \in Steps |-> old[s] \intersect Sent(c, image, s)]
CodeAfter(old, c, image) ==
    [s \in Steps |-> IF s \in StepsOf(c)
                     THEN old[s] \intersect Calc(Sent(c, image, s)) ELSE old[s]]

(* spinand_program_entry, rawnand_program_entry: each page by page_pgm or
   unalign_pgm, with nand_sw_ecc_prev_pgm over the steps touched. *)
Program(c, image) ==
    /\ Idle /\ UNCHANGED <<pc, result>>
    /\ data' = DataAfter(data, c, image)
    /\ code' = CodeAfter(code, c, image)
    /\ meant' = [data |-> DataAfter(meant.data, c, image),
                 code |-> CodeAfter(meant.code, c, image)]
    /\ times' = [s \in Steps |->
                   IF s \in StepsOf(c) THEN Min({times[s] + 1, 2}) ELSE times[s]]

\* One more or one fewer cell is wrong, within the bound.
FewWrong == MapThenSumSet(Wrong, Steps) <= MaxWrong

(* A cell changes on its own. *)
Noise(pl) ==
    /\ Idle /\ UNCHANGED <<pc, result>>
    /\ IF pl[2] = "data"
       THEN data' = [data EXCEPT ![pl[1]] = SymDiff(@, {pl[3]})] /\ UNCHANGED code
       ELSE code' = [code EXCEPT ![pl[1]] = SymDiff(@, {pl[3]})] /\ UNCHANGED data
    /\ UNCHANGED <<meant, times>>
    /\ FewWrong'
-----------------------------------------------------------------------------
(* spinand_read and rawnand_read clear the counters, once per call.  out is what
   the caller's buffer holds, beyond what has changed past its end, heap whether
   buf_data was overrun. *)
Cleared(c) ==
    [call |-> c, page |-> Min(PagesOf(c)), step |-> 0, buf |-> {}, out |-> {}, beyond |-> {},
     heap |-> FALSE, uncorrectable |-> FALSE, max |-> 0, corrected |-> 0, top |-> 0]

ReadCall(c) ==
    /\ Idle /\ pc' = "page" /\ result' = Cleared(c)
    /\ UNCHANGED cells

\* The steps of the page that is being read, and the bits of its data.
Here(r)      == {s \in StepsOf(r.call) : s \div NSteps = r.page}
PageRange(p) == (p * PageBits)..(p * PageBits + PageBits - 1)
Whole(r)     == PageRange(r.page) \subseteq Window(r.call)

\* Slip: a buffer that is not filled from its start.
Unshifted(s, first) == s
Shifted(s, first)   == s - first

\* Slip: the counters are cleared in every page.
LoadedAfresh(r) ==
    [r EXCEPT !.buf = UNION {{Shifted(s, Min(Here(r))) * StepBits + k : k \in data[s]} :
                             s \in Here(r)},
              !.uncorrectable = FALSE, !.max = 0, !.corrected = 0]
Loaded(r) ==
    [r EXCEPT !.buf = UNION {{Shifted(s, Min(Here(r))) * StepBits + k : k \in data[s]} :
                             s \in Here(r)}]

(* page_read, cache_read_seq and unalign_read get the steps from the chip. *)
LoadPage ==
    /\ pc = "page" /\ pc' = "correct"
    /\ result' = [Loaded(result) EXCEPT !.step = Min(Here(result))]
    /\ UNCHANGED cells

(* nand_sw_ecc_post_rd, one step, whose data is the i-th of the buffer. *)
Correct(r, s, i) ==
    LET ones == {k \in DataBits : i * StepBits + k \in r.buf}
        d    == BchDecode(Codec, SymDiff(BchEncode(Codec, ones), SymDiff(code[s], MaskFF)))
    IN  [r EXCEPT
            !.step = @ + 1,
            !.buf = SymDiff(@, {i * StepBits + k : k \in d.flips}),
            !.uncorrectable = @ \/ d.err < 0,
            !.max = Max({@, d.err}),
            !.corrected = @ + Max({d.err, 0}),
            !.top = Max({@, d.top})]

CorrectStep ==
    /\ pc = "correct" /\ result.step \in Here(result)
    /\ result' = Correct(result, result.step, result.step - Min(Here(result)))
    /\ UNCHANGED <<cells, pc>>

\* Where the bits of the buffer belong in the range of the flash.
Moved(r) == {Min(Here(r)) * StepBits + b : b \in r.buf}

(* page_read and cache_read_seq: the page was corrected in the caller's buffer,
   over what the page before it may have changed. *)
WholePage(r) ==
    [r EXCEPT !.out = @ \union (Moved(r) \intersect PageRange(r.page)),
              !.beyond = (@ \ PageRange(r.page)) \union (Moved(r) \ PageRange(r.page))]

(* unalign_read: the steps were corrected at the start of buf_data, which ends
   with the spare area, and the bytes asked for are copied.
   Slip: all the bytes of the steps are. *)
PartsAsSteps(r) == [r EXCEPT !.out = @ \union (Moved(r) \intersect PageRange(r.page))]
PartOfPage(r) ==
    LET part == Window(r.call) \intersect PageRange(r.page)
    IN  [r EXCEPT !.out = @ \union (Moved(r) \intersect part),
                  !.beyond = @ \ part,
                  !.heap = @ \/ \E b \in r.buf : b >= PageBits + 8 * SizeOob]

PageDone ==
    /\ pc = "correct" /\ result.step \notin Here(result)
    /\ pc' = IF result.page = Max(PagesOf(result.call)) THEN "done" ELSE "page"
    /\ result' = [(IF Whole(result) THEN WholePage(result) ELSE PartOfPage(result))
                     EXCEPT !.buf = {}, !.page = @ + 1]
    /\ UNCHANGED cells

(* The application has seen the result of a read. *)
Seen ==
    /\ pc = "done" /\ pc' = "idle" /\ result' = NoResult
    /\ UNCHANGED cells

(* spinand_get_ecc_state, rawnand_get_ecc_state *)
EccState(r) == IF r.uncorrectable THEN -1 ELSE r.max

Next ==
    \/ Erase
    \/ \E c \in Calls, image \in Images : Program(c, image)
    \/ \E pl \in Places : Noise(pl)
    \/ \E c \in Calls : ReadCall(c)
    \/ LoadPage \/ CorrectStep \/ PageDone \/ Seen

Spec == Init /\ [][Next]_vars
-----------------------------------------------------------------------------
(* Properties *)

HasRead == pc = "done"

\* Bits stay bits of their step; a read fills no other byte of the caller's buffer
\* than those asked for and reports no more errors than the ECC corrects.
TypeOK ==
    /\ data \in [Steps -> SUBSET DataBits] /\ code \in [Steps -> SUBSET EccByteBits]
    /\ meant.data \in [Steps -> SUBSET DataBits]
    /\ meant.code \in [Steps -> SUBSET EccByteBits]
    /\ times \in [Steps -> 0..2] /\ pc \in {"idle", "page", "correct", "done"}
    /\ HasRead => /\ result.out \subseteq Window(result.call)
                  /\ EccState(result) \in -1..Strength

\* How many bits of step s decoding the step before it in call c may change: one
\* for every wrong ECC bit of a step that the decoder gets right, as those of good,
\* and as many as the ECC corrects if it may get that step wrong.
Upset(c, good, s) ==
    IF s % NSteps = 0 \/ s - 1 \notin StepsOf(c) THEN 0
    ELSE IF s - 1 \in good THEN Cardinality(WrongCode(s - 1)) ELSE Strength

\* Steps on which call c can rely: programmed once at most since their erase, with
\* no more bits to correct than the ECC does, those upset included.
Reliable(c, good) ==
    \A s \in good :
        /\ times[s] <= 1 /\ WrongCode(s) \subseteq 0..(EccBits - 1)
        /\ Wrong(s) + Upset(c, good, s) <= Strength

\* A read returns what was programmed in every step that can be relied on,
\* however the reads and programs cut pages and steps, and whatever the state of
\* the other steps (nand_sw_ecc_prev_pgm, nand_sw_ecc_post_rd, bch_decode, the
\* windows of unalign_read and unalign_pgm).
ReturnsWhatWasMeant ==
    HasRead =>
        \A good \in SUBSET Steps :
            Reliable(result.call, good) =>
                \A s \in good \intersect StepsOf(result.call) :
                    InStep(s, result.out) =
                        meant.data[s] \intersect InStep(s, Window(result.call))

\* All steps of call c can be relied on and no ECC byte of them is wrong.
EccBytesRight(c) ==
    Reliable(c, StepsOf(c)) /\ \A s \in StepsOf(c) : WrongCode(s) = {}

\* The wrong bits of the data of some steps, as bits of the flash.
WrongBits(steps) == UNION {{s * StepBits + k : k \in WrongData(s)} : s \in steps}

\* When no ECC byte is wrong, the state reported is the largest number of wrong
\* bits in a step of the call, all its pages together, and the total is theirs
\* (nand_sw_ecc_post_rd, spinand_read, spinand_get_ecc_state).
CountsTheErrors ==
    LET steps == StepsOf(result.call)
    IN  HasRead /\ EccBytesRight(result.call) =>
            /\ EccState(result) = Max({Wrong(s) : s \in steps})
            /\ result.corrected = Cardinality(WrongBits(steps))

\* No step of call c was programmed twice since its erase.
ProgrammedOnce(c) == \A s \in StepsOf(c) : times[s] <= 1

\* What is said of bch_decode's buffers: the data is the "input/output data" of
\* "size_step bytes", in which "error bits are corrected in place" (bch.h:67).
CorrectsInPlace ==
    HasRead /\ ProgrammedOnce(result.call) =>
        result.beyond = {} /\ ~result.heap /\ result.top <= Strength

\* It holds for a read that meets no wrong ECC byte and no step with more errors
\* than the ECC corrects.
InPlaceWithoutEccErrors == EccBytesRight(result.call) => CorrectsInPlace
=============================================================================
