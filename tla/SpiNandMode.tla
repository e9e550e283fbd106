---------------------------- MODULE SpiNandMode ----------------------------
(***************************************************************************)
(* The feature registers of the SPI NAND and the copies the driver keeps of *)
(* them (snand->cache), mxmtd/spinand/spinand.c.  The array commands mean    *)
(* different things in different modes: with the OTP bit set they address    *)
(* the OTP area, with continuous read on a read streams page after page, and *)
(* the internal ECC bit decides whether data is protected.  The driver skips *)
(* the feature commands when its copy says that the mode is right already.   *)
(*                                                                           *)
(* A call is a plan: the sequence of spinand_xxx_en calls and array commands *)
(* the code issues.  One step is one command, or one early return.           *)
(***************************************************************************)
EXTENDS Sequences, Naturals

CONSTANTS
    Builds,    \* <<CONF_SPINAND_ECC_TYPE, cmds_supl.cont_rd>>: the ECC built in,
               \* and whether the chip has continuous read
    Faults,    \* whether a command may fail
    Refusals   \* whether the chip may ignore a SET FEATURE

EccTypes == {"ECC_NONE", "ECC_INTERNAL_SPI", "ECC_SW_BCH"}

ASSUME ModeAssumption ==
    /\ Builds \subseteq EccTypes \X BOOLEAN
    /\ {Faults, Refusals} \subseteq BOOLEAN

Cached == {"ecc", "cont", "thre"}      \* snand->cache
Flag   == {0, 1}
Bits   == Cached \union {"otp", "bp"}  \* in the registers B0, 10 and A0

VARIABLES
    build,    \* the build and chip at hand; never changes
    dev,      \* the registers; "thre": the threshold is the configured one,
              \* "bp": some block is write protected
    cache,    \* snand->cache
    type,     \* ecc.type
    typeOld,  \* ecc.type_old
    op,       \* what is running
    plan,     \* the steps it has still to take
    phase,    \* the next command of a "set" or "restore" step
    saved,    \* cont_rd, the local variable of set_bb and scan_bb
    doubt     \* observer: bits written by a command of unknown outcome, or
              \* refused by the chip, and not read successfully since

vars == <<build, dev, cache, type, typeOld, op, plan, phase, saved, doubt>>

Ops == {"off", "probe", "scan", "scan_err", "idle", "call", "set_bb"}

EccType == build[1]
ContRd  == build[2]

Internal == type = "ECC_INTERNAL_SPI"
SW       == type = "ECC_SW_BCH"
-----------------------------------------------------------------------------
(* Steps of a plan. *)

Step(c, b, on)  == [cmd |-> c, f |-> b, on |-> on]
Sync(b)         == Step("sync", b, 0)
Set(b, on)      == Step("set", b, on)
Restore         == Step("restore", "cont", 0)
Plain(c)        == Step(c, "none", 0)
Arrays  == {"page_read", "stream_read", "oob_read", "program", "oob_program", "erase"}
Cmds    == Arrays \union {"reset", "rdid", "param", "sync", "set", "restore"}

If(cond, steps) == IF cond THEN steps ELSE << >>

\* spinand_internal_ecc_init
EccInit == << Sync("ecc"), Set("ecc", 1), Sync("thre"), Set("thre", 1) >>

\* spinand_probe up to the scan: reset, identification, parameter page, the
\* initialisation of ECC and of continuous read, the unlocking of all blocks.
ProbePlan ==
    << Plain("reset"), Plain("rdid"), Plain("param") >>
    \o If(EccType = "ECC_INTERNAL_SPI", EccInit)
    \o If(ContRd, << Sync("cont"), Set("cont", 1) >>)
    \o << Set("bp", 0) >>

\* spinand_scan_bb; two pages stand for all.
ScanPlan ==
    << Set("cont", 0),
       Set("cont", 0), Plain("oob_read"),
       Set("cont", 0), Plain("oob_read"), Restore >>

\* spinand_unalign_read, spinand_page_read
\* Slip: the mode is taken to be off already.
PageReadAtOnce == << Plain("page_read") >>
PageRead == << Set("cont", 0), Plain("page_read") >>

\* Two or more pages: spinand_cont_rd where it is supported, otherwise
\* spinand_cache_read_seq.
PagesRead ==
    IF ContRd /\ ~SW
    THEN << Set("cont", 1), Plain("stream_read") >>
    ELSE << Set("cont", 0), Plain("page_read") >>

\* The switch on ecc.type in spinand_read and spinand_program.
\* Slip: only the reads set the mode.
EccUntouched == << >>
EccEn == << Set("ecc", IF Internal THEN 1 ELSE 0) >>

\* spinand_read_entry: a partial page, no, one or several pages, a partial page.
ReadPlan(head, pages, tail) ==
    EccEn
    \o If(head, PageRead)
    \o If(pages = "one", PageRead) \o If(pages = "several", PagesRead)
    \o If(tail, PageRead)

ProgramPlan == EccEn \o << Plain("program") >>

SetBBPlan(preErase) ==
    << Set("cont", 0) >>
    \o If(preErase, << Plain("erase") >>)
    \o << Plain("oob_program"), Plain("oob_program"), Restore >>
-----------------------------------------------------------------------------
(* Control. *)

Begin(o, p) == op' = o /\ plan' = p /\ phase' = "read"

Off == Begin("off", << >>)

(* A plan that has run: the probe goes on with the scan. *)
Finish ==
    IF op = "probe"
    THEN Begin("scan", ScanPlan) /\ saved' = cache'["cont"]
    ELSE /\ Begin(IF op = "scan_err" THEN "off" ELSE "idle", << >>)
         /\ UNCHANGED saved

Advance ==
    IF Len(plan) = 1 THEN Finish
    ELSE Begin(op, Tail(plan)) /\ UNCHANGED saved

(* A failing step ends the call.  spinand_scan_bb, and spinand_set_bb when an
   array command fails, first put continuous read back; that this fails in turn
   changes nothing. *)
Fail ==
    IF Head(plan).cmd = "restore" THEN Finish
    ELSE /\ UNCHANGED saved
         /\ \/ op = "scan" /\ Begin("scan_err", << Restore >>)
            \/ op = "set_bb" /\ Head(plan).cmd \in Arrays /\ Begin("set_bb", << Restore >>)
            \/ op = "set_bb" /\ Head(plan).cmd \notin Arrays /\ Begin("idle", << >>)
            \/ op = "probe" /\ Off
            \/ op = "call" /\ Begin("idle", << >>)

Running(cs) == plan # << >> /\ Head(plan).cmd \in cs

f      == Head(plan).f
wanted == IF Head(plan).cmd = "restore" THEN saved ELSE Head(plan).on
-----------------------------------------------------------------------------
(* spinand_internal_ecc_en, _cont_rd_en, _set_ecc_thre, _unlock_bp. *)

Setting == Running({"set", "restore"})
Unsupported == f = "cont" /\ ~ContRd

(* The early returns: continuous read not supported, which the callers accept,
   or the mode already there by the cache. *)
SkipSet ==
    /\ Setting /\ phase = "read"
    /\ f \in Cached
    /\ \/ Unsupported /\ cache' = [cache EXCEPT !["cont"] = 0]
       \/ ~Unsupported /\ cache[f] = wanted /\ UNCHANGED cache
    /\ Advance
    /\ UNCHANGED <<build, dev, type, typeOld, doubt>>

Store(v) == cache' = IF f \in Cached THEN [cache EXCEPT ![f] = v] ELSE cache

(* GET FEATURE; the threshold is written whatever it was. *)
ReadFeature ==
    /\ Setting /\ phase = "read"
    /\ ~(f \in Cached /\ (Unsupported \/ cache[f] = wanted))
    /\ IF dev[f] = wanted /\ f # "thre"
       THEN Store(wanted) /\ Advance /\ doubt' = doubt \ {f}
       ELSE phase' = "write" /\ UNCHANGED <<cache, op, plan, saved, doubt>>
    /\ UNCHANGED <<build, dev, type, typeOld>>

(* SET FEATURE; the chip may ignore it. *)
WriteFeature ==
    /\ Setting /\ phase = "write"
    /\ dev' \in {[dev EXCEPT ![f] = wanted]} \union (IF Refusals THEN {dev} ELSE {})
    /\ phase' = "verify"
    /\ UNCHANGED <<build, cache, type, typeOld, op, plan, saved, doubt>>

(* What is kept of a write that was ignored: spinand_internal_ecc_en and
   spinand_set_ecc_thre keep what they read back, spinand_cont_rd_en what it
   asked for.  Slip: all keep what they asked for. *)
KeepAsked == wanted
Kept == IF f = "cont" THEN wanted ELSE dev[f]

(* GET FEATURE again, and the comparison. *)
VerifyFeature ==
    /\ Setting /\ phase = "verify"
    /\ IF dev[f] = wanted
       THEN Store(wanted) /\ Advance /\ doubt' = doubt \ {f}
       ELSE /\ Store(Kept) /\ Fail
            /\ doubt' = IF f = "cont" THEN doubt \union {f} ELSE doubt \ {f}
    /\ UNCHANGED <<build, dev, type, typeOld>>

(* The GET FEATURE of spinand_internal_ecc_init and spinand_cont_rd_init.
   Slip: the bit of the register is stored without "!!". *)
BitUnshifted(b) == 16 * b
AsFlag(b) == b

SyncCache ==
    /\ Running({"sync"})
    /\ cache' = [cache EXCEPT ![f] = AsFlag(dev[f])]
    /\ doubt' = doubt \ {f}
    /\ Advance
    /\ UNCHANGED <<build, dev, type, typeOld>>
-----------------------------------------------------------------------------
(* The other commands. *)

PowerOn == {d \in [Bits -> Flag] : d["otp"] = 0}

(* RESET: the chip may or may not put its registers back to their defaults. *)
ResetChip ==
    /\ Running({"reset"})
    /\ dev' \in {dev} \union PowerOn
    /\ Advance
    /\ UNCHANGED <<build, cache, type, typeOld, doubt>>

\* cmd_spinand_param_page_read writes B0 twice: 0x40 (OTP alone), then 0.
OtpMode == [b \in Bits |-> IF b \in {"ecc", "cont"} THEN 0
                           ELSE IF b = "otp" THEN 1 ELSE dev[b]]
\* Slip: the OTP mode is not left.
StaysInOtp == OtpMode
ArrayMode  == [OtpMode EXCEPT !["otp"] = 0]

ParamPage ==
    /\ Running({"param"})
    /\ dev' = ArrayMode
    /\ doubt' = doubt \ {"ecc", "cont"}
    /\ Advance
    /\ UNCHANGED <<build, cache, type, typeOld>>

Command ==
    /\ Running(Arrays \union {"rdid"})
    /\ Advance
    /\ UNCHANGED <<build, dev, cache, type, typeOld, doubt>>

(* A transfer that fails, a poll that times out, a status bit: a SET FEATURE may
   have been taken all the same, and a parameter page read broken off anywhere. *)
CommandFails ==
    /\ Faults /\ plan # << >>
    /\ Setting => ~(f \in Cached /\ phase = "read" /\ (Unsupported \/ cache[f] = wanted))
    /\ dev' \in CASE Setting /\ phase = "write" -> {dev, [dev EXCEPT ![f] = wanted]}
                  [] Running({"param"})         -> {dev, OtpMode, ArrayMode}
                  [] Running({"reset"})         -> {dev} \union PowerOn
                  [] OTHER                      -> {dev}
    /\ doubt' = IF Setting /\ phase # "read" THEN doubt \union {f} ELSE doubt
    /\ UNCHANGED <<build, cache, type, typeOld>>
    /\ Fail
-----------------------------------------------------------------------------
(* Calls. *)

Setup ==
    /\ op = "off"
    /\ cache' = [c \in Cached |-> 0]
    /\ type' = EccType /\ typeOld' = "ECC_NONE"
    /\ saved' = 0 /\ doubt' = {}
    /\ Begin("probe", ProbePlan)
    /\ UNCHANGED <<build, dev>>

Call(p) ==
    /\ op = "idle" /\ Begin("call", p)
    /\ UNCHANGED <<build, dev, cache, type, typeOld, saved, doubt>>

Read ==
    \E head, tail \in BOOLEAN, pages \in {"none", "one", "several"} :
        /\ head \/ tail \/ pages # "none"
        /\ Call(ReadPlan(head, pages, tail))

Program == Call(ProgramPlan)

Erase == Call(<< Plain("erase") >>)

SetBB(preErase) ==
    /\ op = "idle" /\ Begin("set_bb", SetBBPlan(preErase))
    /\ saved' = cache["cont"]
    /\ UNCHANGED <<build, dev, cache, type, typeOld, doubt>>

SetEccEn(en) ==
    /\ op = "idle"
    /\ IF en
       THEN type' = (IF type = "ECC_NONE" THEN typeOld ELSE type) /\ UNCHANGED typeOld
       ELSE typeOld' = type /\ type' = "ECC_NONE"
    /\ UNCHANGED <<build, dev, cache, op, plan, phase, saved, doubt>>

(* mxmtd_release or a restart of the host: the chip keeps its registers. *)
Release ==
    /\ op # "off" /\ Off
    /\ UNCHANGED <<build, dev, cache, type, typeOld, saved, doubt>>

(* The supply is cut. *)
PowerCut ==
    /\ Off /\ dev' \in PowerOn
    /\ UNCHANGED <<build, cache, type, typeOld, saved, doubt>>
-----------------------------------------------------------------------------
Init ==
    /\ build \in Builds
    /\ dev \in PowerOn /\ cache = [c \in Cached |-> 0]
    /\ type = EccType /\ typeOld = "ECC_NONE"
    /\ op = "off" /\ plan = << >> /\ phase = "read"
    /\ saved = 0 /\ doubt = {}

Driver ==
    \/ SkipSet \/ ReadFeature \/ WriteFeature \/ VerifyFeature \/ SyncCache
    \/ ResetChip \/ ParamPage \/ Command \/ CommandFails

Application ==
    \/ Read \/ Program \/ Erase
    \/ \E b \in BOOLEAN : SetBB(b) \/ SetEccEn(b)

Next == Setup \/ Application \/ Driver \/ Release \/ PowerCut

Spec == Init /\ [][Next]_vars
-----------------------------------------------------------------------------
(* Properties *)

TypeOK ==
    /\ build \in Builds
    /\ dev \in [Bits -> Flag] /\ cache \in [Cached -> Flag]
    /\ type \in EccTypes /\ typeOld \in EccTypes
    /\ op \in Ops /\ phase \in {"read", "write", "verify"}
    /\ plan \in Seq([cmd : Cmds, f : Bits \union {"none"}, on : Flag])
    /\ saved \in Flag /\ doubt \subseteq Bits

Probed == op \in {"scan", "idle", "call", "set_bb"}

\* Bits that the driver keeps a copy of for this ECC type.
Kept4Type == {"ecc", "cont"} \union IF EccType = "ECC_INTERNAL_SPI" THEN {"thre"} ELSE {}

\* Once probed, the driver's copy of a mode bit is what the chip holds, except
\* while the bit is being written, and after a write of unknown outcome or one
\* that spinand_cont_rd_en saw refused.
CacheCoherent ==
    Probed => \A c \in Kept4Type \ doubt :
                  cache[c] = dev[c] \/ (Setting /\ f = c /\ phase = "verify")

\* Every array command finds the chip in the mode its caller relies on: outside
\* the OTP area, unprotected, continuous read on for a stream and off for a page,
\* internal ECC on for data exactly when the driver leaves ECC to the chip
\* (spinand_read, spinand_program, spinand_read_oob, spinand_set_bb).
RunsInMode ==
    Running(Arrays) =>
        LET cmd == Head(plan).cmd IN
        /\ dev["otp"] = 0 /\ dev["bp"] = 0
        /\ "cont" \notin doubt =>
             /\ cmd = "stream_read" => dev["cont"] = 1
             /\ cmd \in {"page_read", "oob_read"} => dev["cont"] = 0
        /\ "ecc" \notin doubt /\ cmd \in {"page_read", "stream_read", "program"} =>
             (dev["ecc"] = 1 <=> Internal)
=============================================================================
