----------------------------- MODULE SpiNorAsp -----------------------------
(***************************************************************************)
(* Advanced sector protection of the SPI NOR driver (the asp functions of    *)
(* mxmtd/spinor/spinor.c).  The chip has one lock of two kinds for each unit: *)
(* SPB, which survives power off and is erased for all units at once, and    *)
(* DPB, which is volatile and written one by one.  A unit is a sector in the *)
(* first and the last block, a block elsewhere.                              *)
(*                                                                           *)
(* Addresses are bytes and have the width of the code (uint32_t): AddrSpace  *)
(* is the number of addresses.  A call is an action that checks and rounds   *)
(* its range; then each command is a step.                                   *)
(***************************************************************************)
EXTENDS Integers, FiniteSets

CONSTANTS
    AddrSpace,   \* number of uint32_t values
    Blocks,      \* id_info->nblocks
    BlockSize,   \* id_info->size_block
    SectorSize,  \* NBYTES_SECTOR
    SmallEnds,   \* SPCL_ASP_4KB_IN_BLK: the end blocks are locked by sectors
    Spans,       \* the <<addr, nbytes>> that callers pass
    Faults       \* whether a command may fail

Chip == Blocks * BlockSize   \* id_info->size_chip

ASSUME AspAssumption ==
    /\ {Blocks, BlockSize, SectorSize, AddrSpace} \subseteq Nat \ {0}
    /\ Blocks > 1 /\ BlockSize % SectorSize = 0 /\ SectorSize > 1
    /\ AddrSpace > Chip /\ AddrSpace % Chip = 0
    /\ {SmallEnds, Faults} \subseteq BOOLEAN
    /\ Spans \subseteq (0..AddrSpace - 1) \X (0..AddrSpace - 1)

Addrs   == 0..AddrSpace - 1
Targets == {"SPB", "DPB"}     \* ASP_LOCK_TARGET; other values are refused

RoundDown(a, z) == (a \div z) * z             \* ROUNDDOWN, ROUNDUP of lib.h
RoundUp(a, z)   == ((a + z - 1) \div z) * z

\* spinor_lock_size, which no caller reaches unless wpsel is set.
LockSize(a) ==
    IF SmallEnds /\ (a < BlockSize \/ a >= Chip - BlockSize)
    THEN SectorSize ELSE BlockSize

UnitOf(a) == RoundDown(a, LockSize(a))
Units == {a \in 0..Chip - 1 : UnitOf(a) = a}

VARIABLES
    spb, dpb,  \* the units locked in the chip, by kind
    scur,      \* WPSEL in the security register of the chip, one-time programmable
    wpsel,     \* the driver's copy of it
    op,        \* what is running
    target,    \* ASP_SPB or ASP_DPB
    range,     \* asp_range_t: first and last byte, rounded
    ofs,       \* loop variable
    saved,     \* spinor_asp_spb_unlock: the units with spb[n] = 0xff still to rewrite
    acc,       \* spinor_asp_is_lock: status_acc, as a set of lock kinds
    call,      \* observer: the last call, how it ended and what it answered
    was        \* observer: spb and dpb when it began

chip  == <<spb, dpb, scur>>
local == <<target, range, ofs, saved, acc>>
vars  == <<spb, dpb, scur, wpsel, op, local, call, was>>

Loops == {"lock", "unlock", "save", "erase", "restore", "query"}
Ops   == {"off", "idle"} \union Loops

Locked(k) == IF k = "SPB" THEN spb ELSE dpb
-----------------------------------------------------------------------------
Fns   == {"none", "lock", "unlock", "query"}
Ends  == {"running", "ok", "failed"}
Modes == {"none", "unlock", "spb", "dpb", "mix", "partial"}  \* ASP_LOCK_MODE

NoCall == [fn |-> "none", kind |-> "SPB", s |-> 0, e |-> 0, end |-> "ok", mode |-> "none"]

ClearCall ==
    /\ target' = "SPB" /\ range' = [s |-> 0, e |-> 0] /\ ofs' = 0
    /\ saved' = {} /\ acc' = {}

Forget == call' = NoCall /\ was' = [spb |-> spb', dpb |-> dpb']

\* How a call ends: "ok" for MXST_SUCCESS, otherwise "failed".
Return(end, mode) ==
    /\ op' = "idle" /\ ClearCall
    /\ call' = [call EXCEPT !.end = end, !.mode = mode]
    /\ UNCHANGED was

Init ==
    /\ spb = {} /\ dpb \in {{}, Units} /\ scur \in BOOLEAN
    /\ wpsel = FALSE /\ op = "off"
    /\ target = "SPB" /\ range = [s |-> 0, e |-> 0] /\ ofs = 0
    /\ saved = {} /\ acc = {}
    /\ call = NoCall /\ was = [spb |-> spb, dpb |-> dpb]

\* spinor_probe: CONF_PROBE_RESET resets the chip and with it the DPBs; then
\* wpsel is read from the security register.
Probe ==
    /\ op = "off" /\ op' = "idle"
    /\ wpsel' = scur
    /\ dpb' \in {dpb, {}, Units}
    /\ UNCHANGED <<spb, scur, local>>
    /\ Forget

\* spinor_asp_set_wpsel.  The command may be lost, or its effect not read back.
SetWpsel ==
    /\ op = "idle" /\ ~wpsel
    /\ \E taken, readBack \in BOOLEAN :
          /\ ~Faults => taken /\ readBack
          /\ scur' = (scur \/ taken)
          /\ wpsel' = (readBack /\ scur')
    /\ UNCHANGED <<spb, dpb, op, local, call, was>>

-----------------------------------------------------------------------------
(* spinor_asp_init and spinor_asp_set_boundary. *)

LastByte(a, n) == (a + n - 1) % AddrSpace

\* Slip: the mode is not asked for.
OutOfRange(a, e) == a > e \/ e >= Chip
Refused(a, e) == ~wpsel \/ a > e \/ e >= Chip

\* Slip: rounded down like the start.
EndDown(e)  == (RoundDown(e, LockSize(e)) - 1) % AddrSpace
\* Slip: no uint32_t.
EndBelow(e) == RoundUp(e, LockSize(e)) - 1
\* ROUNDUP(e) - 1: the end of the unit of e, but the byte before e when e is the
\* first byte of a unit, and the last of all addresses for e = 0.
RangeEnd(e) == (RoundUp(e, LockSize(e)) - 1) % AddrSpace

Begin(fn, first, k, a, n) ==
    LET e == LastByte(a, n) IN
    /\ op = "idle" /\ ~Refused(a, e)
    /\ op' = first /\ target' = k
    /\ range' = [s |-> UnitOf(a), e |-> RangeEnd(e)]
    /\ ofs' = UnitOf(a) /\ saved' = {} /\ acc' = {}
    /\ call' = [fn |-> fn, kind |-> k, s |-> a, e |-> e, end |-> "running", mode |-> "none"]
    /\ was' = [spb |-> spb, dpb |-> dpb]
    /\ UNCHANGED <<chip, wpsel>>

\* A call that is refused changes nothing and is not shown.
LockCall(a, n, k) == Begin("lock", "lock", k, a, n)
QueryCall(a, n)   == Begin("query", "query", "SPB", a, n)

\* The switch of spinor_asp_unlock; spinor_asp_spb_unlock for the whole chip
\* erases at once.
UnlockCall(a, n, k) ==
    LET whole == UnitOf(a) = 0 /\ RangeEnd(LastByte(a, n)) = Chip - 1 IN
    Begin("unlock", IF k = "DPB" THEN "unlock" ELSE IF whole THEN "erase" ELSE "save",
          k, a, n)
-----------------------------------------------------------------------------
(* The loops.  The chip decodes an address modulo its size. *)

More == ofs < range.e
Unit == UnitOf(ofs % Chip)

\* Slip: rounded up instead of added, which leaves the start of a unit alone.
RoundOfs == ofs' = RoundUp(ofs, LockSize(ofs)) % AddrSpace
NextUnit == ofs' = (ofs + LockSize(ofs)) % AddrSpace

\* spinor_wrspb, spinor_wrdpb: the lock of one unit.
WriteLock(k, u, on) ==
    LET put(set) == IF on THEN set \union {u} ELSE set \ {u} IN
    /\ spb' = IF k = "SPB" THEN put(spb) ELSE spb
    /\ dpb' = IF k = "DPB" THEN put(dpb) ELSE dpb

LockStep ==
    /\ op \in {"lock", "unlock"} /\ More
    /\ WriteLock(target, Unit, op = "lock")
    /\ NextUnit
    /\ UNCHANGED <<scur, wpsel, op, target, range, saved, acc, call, was>>

LoopEnds ==
    /\ op \in {"lock", "unlock"} /\ ~More
    /\ Return("ok", "none")
    /\ UNCHANGED <<chip, wpsel>>

\* The units spinor_asp_spb_unlock keeps: outside the range.
\* Slip: only those before it.
Before(r)  == {u \in Units : u < r.s}
Outside(r) == {u \in Units : u < r.s \/ u > r.e}

\* The loop over spinor_rdspb; reading changes nothing in the chip.
SaveSpbs ==
    /\ op = "save" /\ op' = "erase"
    /\ saved' = spb \intersect Outside(range)
    /\ UNCHANGED <<chip, wpsel, target, range, ofs, acc, call, was>>

\* spinor_ersspb
EraseSpbs ==
    /\ op = "erase" /\ op' = "restore"
    /\ spb' = {}
    /\ UNCHANGED <<dpb, scur, wpsel, local, call, was>>

\* The last loop of spinor_asp_spb_unlock.
NextSaved == {u \in saved : \A v \in saved : u <= v}

RestoreSpb ==
    /\ op = "restore"
    /\ \E u \in NextSaved :
          WriteLock("SPB", u, TRUE) /\ saved' = saved \ {u}
    /\ UNCHANGED <<scur, wpsel, op, target, range, ofs, acc, call, was>>

RestoreEnds ==
    /\ op = "restore" /\ saved = {}
    /\ Return("ok", "none")
    /\ UNCHANGED <<chip, wpsel>>

\* One turn of spinor_asp_is_lock.  Slip: a partial lock is noticed only if the
\* first unit is locked.
Status(u) == {k \in Targets : u \in Locked(k)}

MixedLate(u) == ofs # range.s /\ acc # {} /\ Status(u) = {}
Mixed(u)     == ofs # range.s /\ (Status(u) = {} <=> acc # {})

QueryStep ==
    /\ op = "query" /\ More
    /\ IF Mixed(Unit)
       THEN Return("ok", "partial")
       ELSE /\ acc' = acc \union Status(Unit)
            /\ NextUnit
            /\ UNCHANGED <<op, target, range, saved, call, was>>
    /\ UNCHANGED <<chip, wpsel>>

\* ASP_UNLOCK, ASP_SPB_LOCK, ASP_DPB_LOCK and ASP_MIX_LOCK are the bits of status.
ModeOf(kinds) ==
    CASE kinds = {}      -> "unlock"
      [] kinds = {"SPB"} -> "spb"
      [] kinds = {"DPB"} -> "dpb"
      [] OTHER           -> "mix"

QueryEnds ==
    /\ op = "query" /\ ~More
    /\ Return("ok", ModeOf(acc))
    /\ UNCHANGED <<chip, wpsel>>
-----------------------------------------------------------------------------
(* Failures.  A command that fails, or that power off interrupts, has done all,
   part or none of its work. *)

SpbAfter ==
    {spb}
    \union (IF op = "lock" /\ target = "SPB" /\ More THEN {spb \union {Unit}} ELSE {})
    \union (IF op = "erase" THEN SUBSET spb ELSE {})
    \union (IF op = "restore" THEN {spb \union {u} : u \in NextSaved} ELSE {})

DpbAfter ==
    {dpb}
    \union (IF op = "lock" /\ target = "DPB" /\ More THEN {dpb \union {Unit}} ELSE {})
    \union (IF op = "unlock" /\ More THEN {dpb \ {Unit}} ELSE {})

\* calloc returns no memory, or a command or its polling an error: the operation
\* returns at once.
CommandFails ==
    /\ Faults
    /\ \/ op \in {"lock", "unlock", "query"} /\ More
       \/ op \in {"save", "erase"}
       \/ op = "restore" /\ saved # {}
    /\ spb' \in SpbAfter /\ dpb' \in DpbAfter
    /\ Return("failed", "none")
    /\ UNCHANGED <<scur, wpsel>>

Off == op' = "off" /\ wpsel' = FALSE /\ ClearCall /\ Forget

\* spinor_release between calls; the DPBs stay as long as the chip has power.
Release ==
    /\ op = "idle"
    /\ UNCHANGED chip
    /\ Off

\* The chip comes back with all DPBs set or none, by model.
PowerOff ==
    /\ spb' \in SpbAfter /\ dpb' \in {{}, Units}
    /\ UNCHANGED scur
    /\ Off
-----------------------------------------------------------------------------
Application ==
    \/ SetWpsel \/ Release
    \/ \E s \in Spans, k \in Targets : LockCall(s[1], s[2], k) \/ UnlockCall(s[1], s[2], k)
    \/ \E s \in Spans : QueryCall(s[1], s[2])

Driver ==
    \/ LockStep \/ LoopEnds \/ SaveSpbs \/ EraseSpbs \/ RestoreSpb \/ RestoreEnds
    \/ QueryStep \/ QueryEnds

Next == Probe \/ Application \/ Driver \/ CommandFails \/ PowerOff

Spec == Init /\ [][Next]_vars

\* The driver runs on its own once called, as in SpiNand.
FairSpec == Spec /\ WF_vars(Driver)
-----------------------------------------------------------------------------
(* Properties *)

\* Every variable stays in its domain: uint32_t does not wrap except where the
\* code lets it (spinor_asp_set_boundary), and every lock belongs to a unit.
TypeOK ==
    /\ spb \subseteq Units /\ dpb \subseteq Units /\ {scur, wpsel} \subseteq BOOLEAN
    /\ op \in Ops /\ target \in Targets
    /\ range \in [s : Units, e : Addrs] /\ ofs \in Addrs
    /\ saved \subseteq Units /\ acc \subseteq Targets
    /\ call \in [fn : Fns, kind : Targets, s : Addrs, e : Addrs, end : Ends, mode : Modes]
    /\ was \in [spb : SUBSET Units, dpb : SUBSET Units]

LastOf(u) == u + LockSize(u) - 1

\* The units that meet the range of a call, and those of them the code reaches:
\* a last unit of which the range has only the first byte is left out
\* (spinor.c:1365).
Meets(c)    == {u \in Units : u <= c.e /\ c.s <= LastOf(u)}
Reached(c)  == {u \in Meets(c) : u < c.e}
CutShort(c) == Reached(c) # Meets(c)

\* A range that ends with byte 0 is rounded to the whole address space.
Wraps(c) == c.fn # "none" /\ c.e = 0

Done(fn) == call.fn = fn /\ call.end = "ok"

\* Protection commands reach the chip only in ASP mode, over lost WPSEL commands,
\* releases and power cuts: in BP mode they would mean something else
\* (spinor_asp_init, spinor_asp_set_wpsel, spinor_probe).
NeedsWpsel == op \in Loops => scur

\* What a call was asked to do is done when it returns success: every unit
\* reached is locked, or unlocked, in the kind asked for (spinor_asp_lock,
\* spinor_asp_unlock).  Of a range that is CutShort the last unit is excepted.
RangeDone ==
    op = "idle" =>
        /\ Done("lock")   => Reached(call) \subseteq Locked(call.kind)
        /\ Done("unlock") => Reached(call) \intersect Locked(call.kind) = {}

\* No call changes a lock outside its range: a lock or the unlocking of DPBs never,
\* in the middle and after a failure either; the unlocking of SPBs, which
\* erases them all, has put them back when it returns success, and locks
\* nothing that was not (spinor_asp_spb_unlock).
OthersKept ==
    LET others(set) == set \ Meets(call) IN
    op # "off" /\ call.fn # "none" /\ ~Wraps(call) =>
        /\ call.fn # "unlock" \/ call.kind = "DPB" \/ Done("unlock") =>
              others(spb) = others(was.spb)
        /\ others(dpb) = others(was.dpb)
        /\ call.fn = "unlock" => spb \subseteq was.spb /\ dpb \subseteq was.dpb
        /\ call.fn = "lock"   => was.spb \subseteq spb /\ was.dpb \subseteq dpb
        /\ call.kind = "SPB" => dpb = was.dpb
        /\ call.kind = "DPB" => spb = was.spb

\* What a query about some units is to answer: partial if one is locked and
\* another is not, otherwise the kinds of lock found.
Answer(units) ==
    LET locked == {u \in units : Status(u) # {}} IN
    IF locked \notin {{}, units} THEN "partial"
    ELSE ModeOf(UNION {Status(u) : u \in units})

\* spinor_asp_is_lock answers for every unit its range meets, wherever in the
\* range the odd one is, unless the range is CutShort: then the last unit is
\* not looked at, and a range of one first byte is always called unlocked, also
\* after a lock of the same range, which does not reach the unit either
\* (spinor_test.c:54 expects the lock to be reported).
QueryTells ==
    op = "idle" /\ Done("query") /\ ~CutShort(call) => call.mode = Answer(Meets(call))

\* Every call returns, unless its range wraps: then no offset is beyond its end.
CallReturns == (op \in Loops /\ ~Wraps(call)) ~> (op \in {"off", "idle"})
-----------------------------------------------------------------------------
(* The inductive invariant behind NeedsWpsel, RangeDone and OthersKept. *)

ModeKnown == (wpsel => scur) /\ (op \in Loops => wpsel)

\* The local variables belong to the call that runs.
CallMatches ==
    op \in Loops =>
        /\ call.end = "running" /\ call.kind = target
        /\ call.fn = IF op \in {"lock", "query"} THEN op ELSE "unlock"
        /\ op = "unlock" => target = "DPB"
        /\ op \in {"save", "erase", "restore"} => target = "SPB"
        /\ call.s <= call.e /\ call.e < Chip
        /\ range.s = UnitOf(call.s) /\ range.e = RangeEnd(call.e)

\* A loop is at a unit of its range or beyond the range, and has done what it
\* has to do to the units behind it.
LoopPlace ==
    op \in {"lock", "unlock", "query"} /\ ~Wraps(call) =>
        range.s <= ofs /\ (ofs < range.e => ofs \in Units)

LoopDone ==
    op \in {"lock", "unlock"} /\ ~Wraps(call) =>
        \A u \in Units : range.s <= u /\ u < ofs => (u \in Locked(target) <=> op = "lock")

\* The stages of spinor_asp_spb_unlock.
Unlocking ==
    LET kept == was.spb \intersect Outside(range) IN
    /\ op \in {"save", "erase"} => spb = was.spb
    /\ op = "erase"   => saved = kept
    /\ op = "restore" => spb \union saved = kept

IInv ==
    /\ TypeOK /\ ModeKnown /\ CallMatches /\ LoopPlace /\ LoopDone /\ Unlocking
    /\ RangeDone /\ OthersKept
=============================================================================
