# Verification of MxMTD

TLA+ models of MxMTD, the Macronix driver for SPI NAND, raw NAND and SPI NOR flash, with the
TLC configurations that check them and the theorems that TLAPS proves about them. All paths
below are relative to the repository. Run, in this directory, `tlc -config X.cfg M` for a model
and `tlapm M.tla` for a proof module.

## 1. The system

MxMTD is a polling driver: one thread, no interrupt handler, no callback. What runs
concurrently with it is the chip, which works on an erase or a program while the driver polls,
keeps its contents and its feature registers over a restart of the host, and can lose power at
any time; and, below the drivers, the DMA of the host controller with the data cache of the
processor. The difficulty is therefore not in interleaved threads but in *state held twice*: in
RAM by the driver and in the chip.

| Component | State | Operations | Talks to |
|---|---|---|---|
| Device lifecycle `mxmtd/mxmtd.c` | the `mxmtd_t` object, its operation table | setup, release | every driver, platform |
| SPI NAND `mxmtd/spinand/` | geometry, bad-block table, page and spare-area buffers, ECC type, copies of feature bits | probe, read, program, erase, set_bb, chk_bb, set_ecc_en | platform, software ECC |
| Raw NAND `mxmtd/rawnand/` | geometry, bad-block table, buffers, ECC type | the same | platform, software ECC |
| Software ECC `mxmtd/nand.c`, `lib/ecc/bch.c` | BCH tables, step window, error counts | calculate, correct | NAND drivers |
| SPI NOR `mxmtd/spinor/` | bus mode, command tables, erase list, protection mode | probe, read, program, erase, lock, unlock, query | platform |
| Platform interface `platform/src/platform_itf.c` | the packet list of the transfer at hand | run packets, poll a status | host controller |
| UEFC controller `platform/vendors/macronix/` | busy flag, chip select, mode registers, DMA and its flags, delays | transfer by I/O or DMA, calibrate the sample point | the chip |
| Helpers `mxmtd/lib/lib.c` | none | bit counting, swapping, rounding | all |

Calls go down this list and results come up; the only shared state is inside `mxmtd_t`.

What makes each component correct:

* **Bad blocks (both NANDs).** The table in RAM is a cache of the markers on the flash. A block
  that was marked stays bad until erased on purpose, over failures, power cuts and probes; a good
  block never becomes bad by itself; a call touches its own range; an erase erases its range.
* **Feature registers (SPI NAND).** Every array command finds the chip in the mode its caller
  relies on: outside the OTP area, unprotected, continuous read and internal ECC as expected.
* **Software ECC.** Layout regions of the spare area are disjoint; a page written in steps reads
  back; errors up to the strength are corrected and more are reported.
* **Raw NAND.** A program or erase the chip reports as failed is reported to the caller; a call that
  returns success has done its work and leaves the chip out of any command sequence.
* **SPI NOR modes.** After probe driver and chip agree on the bus mode, from whatever mode the
  chip was left in.
* **SPI NOR data.** A successful read, program or erase has dealt with every byte of its range, and
  none touches another: chunks stay in a page, odd ends in 8D-8D-8D are padded with no effect.
* **SPI NOR protection.** A lock or unlock of a range changes all sectors that meet it, and the
  locks of no other.
* **Platform.** The chip is given the packets of a list in order and whole, and all of them if the call
  succeeds; every transfer ends, with chip select released and the controller idle.
* **Lifecycle.** What was allocated is released once, on every path.

The hazards behind these, with their lines, are listed in `PROJECT.json`.

## 2. Modules

| Module | Models | Kind |
|---|---|---|
| `NandGeometry` | blocks, pages and range checks, as both NAND drivers count them | definitions |
| `SpiNand` | bad-block table, markers and `buf_oob` in `spinand.c` | specification |
| `MCSpiNand` | instances of it for TLC (3 configurations) | model checking |
| `SpiNandProofs` | its inductive invariants and theorems, the table against the markers, the refinement | proofs |
| `BadBlocks` | what a bad-block manager promises, apart from rows, buffers and ECC | abstract specification |
| `SpiNandTable`, `RawNandTable` | `SpiNand` and `RawNand` as implementations of `BadBlocks` | refinements |
| `SpiNandMode` | `snand->cache` against the feature registers in `spinand.c`, `spinand_cmd.c` | specification |
| `MCSpiNandMode` | all builds of it for TLC | model checking |
| `SpiNandModeProofs` | plans, copies and modes: its inductive invariant and theorems | proofs |
| `RawNand` | command sequences, status, bad blocks and ECC window in `rawnand.c`, `rawnand_cmd.c` | specification |
| `MCRawNand` | two blocks of three pages for TLC (2 configurations) | model checking |
| `RawNandProofs` | its inductive invariants and theorems, the refinement | proofs |
| `SpiNorAsp` | sector protection in `spinor.c` | specification |
| `MCSpiNorAsp` | a chip of three blocks for TLC | model checking |
| `SpiNorAspProofs` | rounding, units, its inductive invariant and theorems | proofs |
| `SpiNorMode` | reset, scan, command tables and choice of the bus mode in `spinor.c`, `spinor_cmd.c`, `spinor_ids.h` | specification |
| `MCSpiNorMode` | octal and quad parts on two ports for TLC | model checking |
| `SpiNorModeProofs` | its inductive invariant and theorems | proofs |
| `SpiNorArray` | read, program and erase of bytes in `spinor.c` | specification |
| `MCSpiNorArray` | flashes of eight bytes for TLC | model checking |
| `SpiNorArrayProofs` | pages and pairs, its inductive invariants and theorems | proofs |
| `Bch` | the BCH codec of `lib/ecc/bch.c`, bit by bit | definitions |
| `NandEcc` | ECC steps of pages in `nand.c`, under the reads and programs of both NAND drivers | specification |
| `MCNandEcc` | two pages of two steps of 16 bytes for TLC (2 configurations) | model checking |
| `NandEccProofs` | its inductive invariant and theorems | proofs |
| `PacketChannel` | what the drivers count on when they hand over a list of packets | abstract specification |
| `PlatformXfer` | `platform_itf.c` and the transfers and calibration of `mxic_uefc.c` | specification |
| `MCPlatformXfer` | the shapes of lists the drivers send, for TLC | model checking |
| `PlatformXferProofs` | its inductive invariant, theorems and refinement | proofs |

The drivers' modules take a list of packets as one step that succeeds or fails. `PlatformXfer` is what
entitles them to: it implements `PacketChannel`, in which a call that succeeds has given the chip the whole list
and one that fails the first packets of it, perhaps with a part of the next.

### 2.1 `SpiNand`

State and code: `bbt` is `snand->bbt`; `bufOob` the marker bytes of `snand->buf_oob`, `"ff"` or
anything else; `type`, `typeOld` are `ecc.type`, `ecc.type_old`; `mark` is the flash: the pages
whose marker bytes are not 0xFF. `op`, `row`, `left`, `part` are the locals of the call that
runs: which function, at which row, how many commands to go, whether the ends of the range cover
their page in part only. Four *observers* serve the properties; no guard reads them: `range`
(blocks the call is about), `claimed` (blocks an erase has just reported as erased), `retired`
(blocks a successful `set_bb` marked), `suspect` (blocks whose markers a failed command may have
left unknown).

A call is an action that makes the checks of the function and starts it (`EraseCall`,
`TransferCall`, `SetBBCall`); then one step per page or block command does what the code does
between two commands: `ScanPage`, `EraseStep`, `PreErase`, `MarkPage`, `ProgramStep`, `ReadStep`,
each with a failing twin that returns at once and leaves the flash with all, some or none of the
work done. `PowerCut` may come anywhere and stands for `mxmtd_release` between calls as well.
`Setup` starts `mxmtd_setup_dev`; a failing scan (`ScanFail`) releases everything.

Abstracted: page contents, ECC bytes and column addresses; the commands before the scan
(`SpiNandMode` has them); the restoring of continuous read at the end of `set_bb`, whose failure
makes `set_bb` return an error for a block that is marked and known (`MarkPage` counts such a
block as retired, which only makes the properties stronger). A continuous or sequential read of
several pages is a step per page. `set_bb` does not check its address; the callers pass addresses
inside the chip, and so does the model.

### 2.2 `BadBlocks`, `SpiNandTable` and `RawNandTable`

`BadBlocks` knows blocks, not pages: `bad` (on the flash), `ready`, `known` (what the manager calls bad),
`marking` (at most one block, bad on the flash and not yet reported) and `unsure` (blocks where a command
failed or was ignored). A probe makes `known` what is bad on the flash; a mark is put on the flash before it is
reported; an erase makes a block good in both places at once; a failure changes the flash only, and
leaves the manager unsure of that block. `SpiNandTable` maps `SpiNand` to it: `bad` are the blocks
that a scan would find, `known` is `bbt` when no probe is to come. Steps that move data only, and all
of a scan but its last step, map to stutters. `RawNandTable` maps `RawNand` in the same way. Its chip may be `Deaf`: while it writes
the last page of a cache program that the driver has given up, it ignores an erase, and the driver takes the block out
of its table (`Ignored`). A page so left behind is written later, in the middle of another call, with nothing visible here.

### 2.3 `SpiNandMode`

`dev` holds the feature bits of the chip: internal ECC, continuous read and OTP of register B0,
the ECC threshold of register 10 (configured or not) and the block protection of register A0;
`cache` is `snand->cache`. A call is a `plan`, the sequence of `..._en` calls and array commands
the function issues, built by operators named after the functions; `ReadPlan` covers all shapes
of `spinand_read_entry`. One step is one command: the three commands of a feature call
(`ReadFeature`, `WriteFeature`, `VerifyFeature`) interleave with failures, refused writes,
releases and power cuts. `CommandFails` is the failing twin of all of them. `Fail` holds the error
paths: return, or put continuous read back first. `doubt` is an observer: the bits whose last
write failed in transfer, or was seen refused by `spinand_cont_rd_en`.

External: what RESET does to the registers (they keep their values or return to some default
outside OTP), and the values after power on.

### 2.4 `RawNand`

The chip: `mark` as in `SpiNand`, but only for the two pages of a block that are ever looked at for
markers; `mode`, the command sequence the chip is in; `reg`, the row its page register holds; `pend`,
the page that a cache program (15h) is writing while the next one is loaded. The driver: `bbt`,
`bufOob`, `type`, `typeOld` as in `SpiNand`; `win` is `ecc.step_s`, `ecc.step_e`; `op`, `pc`, `row`,
`left`, `part` are the locals of the call and the command sequence that comes next. One step is one
command sequence with the driver code up to the next: 00h-30h (`ReadStart`), the data of a page
(`ReadData`), the ECC bytes of a part of a page (`ReadOob`), 31h/3Fh (`ReadSeq`), 80h-10h
(`ProgramPage`), 80h and 85h-10h of a part of a page (`LoadPart`, `ProgramPart`), 80h-15h and the last
80h-10h (`CacheStep`), erase (`EraseBlock`), a marker page (`MarkPage`), a page of the scan.

Failures are of two sorts. A transfer fails: the call returns an error, the chip has got the command
or not (`ReadFail`, `ProgramFail`, `EraseFail`, `MarkFail`, `PartLost`). Or the chip raises a fail bit,
and the driver does with it what its code does, which is not always to report it (`EraseStatus`,
`CacheStatus`, `LastStatus`). A cache program given up leaves the chip writing: until it is done
(`Settle`), it ignores reads and erases (`ReadArray`, `EraseIgnored`), and a program waits for it.
`todo` (rows of the call not yet dealt with *in the chip*), `faulty` and `result` are observers: `result` is
`"undone"` when the code returns `MXST_SUCCESS` while `todo` is not empty.

External: what the chip does with a command while it still writes; that it takes over a pending page
or loses it when power is cut. Left out: page contents and ECC bytes, `rawnand_read_oob` and
`rawnand_write_oob` as calls of the application, ONFI timing.

### 2.5 `SpiNorAsp`

`spb`, `dpb` and `scur` are the chip: the units locked by each kind of bit, and the WPSEL bit of the
security register. `wpsel` is the driver's copy. `op`, `target`, `range`, `ofs`, `saved`, `acc` are
the locals of the call that runs. `call` and `was` are observers: the arguments, end and answer of
the last call, and the locks when it began. The loops of `spinor_asp_lock`, `_unlock` and `_is_lock`
take a step per unit; `spinor_asp_spb_unlock` is `SaveSpbs` (the reads, which change nothing and
whose order cannot be seen), `EraseSpbs` and a `RestoreSpb` per lock to be put back. `CommandFails`
and `PowerOff` leave the interrupted command done, undone or, for the erase, done in part.
Addresses have a width, `AddrSpace`, because the code wraps.

External: a chip decodes an address modulo its size; after power on or reset the DPBs are all set or
all clear. Left out: password mode (no entry of the id table has the flag under which `probe` reads
it); values of `target` other than the two; the id entries have WPSEL and locks by sector together,
so the runs use both, while the theorems hold without the sectors too. `spinor.c` uses the enumerations that `CONF_ENABLE_ASP`
declares, so builds with SPI NOR have it set.

### 2.6 `SpiNorMode`

`chip` holds, for each port, the registers of its flash that bring-up writes: the protocol it listens to
(`bus`), the dummy-cycle settings of the configuration register and of CR2, the preamble and the
quad-enable bits. `tbl` is the static tables `cmd_info_rd` and `cmd_info_pgm`, which all devices of the
process share; `drv` the fields of `mxmtd->spinor` and `cmd_meta`; `pc`, `tgt` where `mxmtd_setup_dev`
is and which mode it tries. The steps are those of `spinor_probe`: `Reset` in the three protocols, the
scan for the identifier (`ScanHit`, `ScanMiss`, `ScanError`), `ReadInfo`, `SetupLists`, `sel_cmd_info_auto` with
`switch_mode_opi` (`PassOver` to `CheckEntered`) and `switch_mode_spi`, `SetDummies`, `SetQuad` and the
training. Every step may fail, with or without effect in the chip; `Release`, `Reboot` (of the host, the
flashes powered) and `PowerCycle` may follow anywhere. A chip obeys a command only in the protocol it
listens to (`Hears`). `upset` is an observer: this probe met a fault. `PassOver` stands for the test of
`ret` at `spinor.c:685`, which nothing has set when part and host can do the mode: either outcome. `OtherId` is
`check_rdid` with another identifier than the table's, because the chip does not hear or what it says is garbled: the
next mode is tried.

Left out: QPI and 4-byte address mode, because no entry of `ids[]` lists the commands `EQIO` and `EN4B`
that lead to them; DQS and the second byte of octal commands, which follow from the protocol; timing.

### 2.7 `SpiNorArray`

The flash byte by byte: `flash`, the job the chip is working on (`job`, address to the byte that will be
there), its write enable latch `wel`. The driver: `call` with `done` bytes behind it, `pc` at the next
command, `buf` what was read. `Begin` makes the checks of `spinor_read`, `spinor_program`,
`spinor_erase`; `Read` is one read command (8D-8D-8D has up to three of them: `OddHead`, the pairs,
`OddTail`); `Wren`, `Send`, `PollReady` are one round of the loops, `Chunk` the part of a page, `Padded` what
`spinor_program_8d8d8d` makes of it. Each has its failure, with or without effect. The chip is a process of
its own: `Complete` comes when it likes, `PollFail` when the driver tires first, `PowerCut` at any time and
leaves some bytes of the job done (`Worked`). `before` (the flash when the call began) and `late` (addresses a
timed-out earlier call left the chip busy with) are observers. A transfer that fails in its data
deselects the chip, which then works on the prefix it has (`CutShort`).

External: an idle chip with the latch set takes a program or an erase, a busy one ignores everything and
answers a read with `Noise`; a program wraps at the end of its page and only clears bits; in 8D-8D-8D the
lowest address bit is not looked at; address bits beyond the `span` of the command's address bytes are not
sent (`mxic_uefc.c:911-918`). Left out: the order of the two bytes of a pair, and which commands are used
(`SpiNorMode`). An erase size other than the unit of the erase command is not possible, `setup_spinor` fixes both.

### 2.8 `Bch` and `NandEcc`

`Bch` computes what `bch.c` computes, with words and field elements as sets of bits: parameters, field tables,
generator polynomial, syndromes, Berlekamp and Massey's error locator, the roots and the bits inverted.
Its operators take the record `bch` that `BchInit` builds, as the functions of the code take `bch_t *`. `BchDecode` works on the *difference* of the stored and the computed ECC, which is all the code looks at
after its first loop. The leading zero words of the codeword, the pad bits of the last ECC byte and positions
behind the data are kept, because they are where the code is interesting; `mod_n` wraps as unsigned. The
`mod_tab` of the model holds the remainder of every single bit of a codeword; `build_mod_tables` and
`bch_encode` have the same for 32 bits at a time.

`NandEcc`: `data` and `code` are the cells of each ECC step, `meant` what they would be had none gone wrong.
`Program` covers the steps of a call as `unalign_pgm` and `page_pgm` do - 0xFF around the bytes of the call,
`nand_sw_ecc_prev_pgm` over the window - and programming only clears bits. A read is `spinand_read` or
`rawnand_read`: `ReadCall` clears the counters once, `LoadPage` gets the steps of a page, `CorrectStep` is one
turn of the loop of `nand_sw_ecc_post_rd`, `PageDone` leaves whole pages in the caller's buffer (`WholePage`)
and copies parts from the start of `buf_data` (`PartOfPage`). The bits the decoder inverts outside the page are
kept (`beyond`), and whether `buf_data` was overrun (`heap`). `pc` and `result` are where the read is and what it
has so far; `Seen` forgets it. `Noise` is the cells' doing; it happens between calls, since a read copies each
page out of the cells at once. `Codec` is `ecc.priv`: `CodecAssumption` says it is what `nand_bch_init` makes of
the step size and the strength. It is a parameter so that TLC computes its tables once, and
`BchAssumption` what the proofs take from it (see there).

Left out: failing commands (they are in `SpiNand` and `RawNand`), allocation, and the tables of
`CONF_BCH_SMALL_HEAP`.

### 2.9 `PacketChannel` and `PlatformXfer`

`list`, `k` are the list `platform_xfer` walks and the packet it is at; `us`, `answer` the locals of `exec_poll`; `ctl` the
`cs_ctrl` of the packet, which `mxic_uefc_err_dessert_cs` changes; `hcBusy` is `hc_busy`; `todo` the phases of
the packet still to be sent. The controller and the chip: the level of chip select, the DMA and its completion
flag, the buffer in memory and in the data cache, whether the chip is busy. `frame` collects what happens at
the pins during a packet; `carried` those of the packets done, with nothing for a packet that is skipped. An operation of a driver is a sequence of lists that ends
with the first that fails. Every wait for a register bit is an action with both outcomes; a wait that fails leaves chip select where it
was or moved. `HcXfer` is `mxic_uefc_xfer` up to the start of I/O; then `IoStart`, `CsStart`, `Send` per phase
or `DmaStart` and `DmaDone`, `CsEnd`, `IoEnd`, and `AfterXfer`, where `exec_poll` decides. `DmaMoves`, `Prefetch` and
`ChipReady` are the hardware, which may be late or never do its part. `CalibratePoint` and `CalibrateDqs` are the two
calibrations, given the points at which a pattern would be read right; their reads in I/O mode are one step,
`CalibrateFail` if one of them fails.

`IsPacketChannel` maps `carried` and the result to `PacketChannel`. Its exception `blind` is a packet sent while
the DMA of an earlier one was never stopped: that takes a DMA that times out and then an IO_END that does so too,
which `mxic_uefc_err_dessert_cs` ignores.

External: the controller ends what is left of a DMA at IO_END, and keeps its completion flag until it is written.
Left out: `mxic_uefc_auto_xfer` and `mxic_uefc_map_mode`, which nothing calls; the paths nothing can
reach (`PLATFORM_MAX_PKTS` is far above the drivers' lists, `swap64_nbytes` fails for lengths no packet has, `HC_BUSY`
needs a second thread; the run checks that the last is never taken); printing; clocks and channels.

## 3. Runs

| Run | Instance | Shows |
|---|---|---|
| `spinand_internal` | 2 blocks of 4 pages, internal ECC, faults | `TypeOK`, `RetiredStaysBad`, `BbtMatchesFlash`, `OnlyRangeTouched`, `IsBadBlockManager`, `CallReturns` |
| `spinand_erase` | internal ECC, no fault | violation of `EraseCoversRange` |
| `spinand_stale_oob` | software ECC, no fault | violation of `BbtMatchesFlash` |
| `spinand_mode` | 3 ECC types, with and without continuous read, faults, refused writes | `TypeOK`, `CacheCoherent`, `RunsInMode` |
| `rawnand` | 2 blocks of 3 pages, software ECC with 2 steps, faults | `TypeOK`, `SuccessMeansDone`, `RetiredStaysBad`, `NoPhantomBad`, `WholeWindow`, `OnlyRangeTouched` |
| `rawnand_hidden` | the same | violation of `NothingHidden` |
| `asp` | 3 blocks of 2 sectors, 24 addresses, faults | `TypeOK`, `NeedsWpsel`, `RangeDone`, `OthersKept`, `QueryTells`, `CallReturns` |
| `spinor_mode` | 4 boards of 2 flashes, 5 hosts, faults, restarts | `TypeOK`, `Heard`, `InStep`, `CleanProbe` |
| `spinor_array` | 8 bytes: 2 pages in 8D-8D-8D, 4 pages otherwise, faults, power cuts | `TypeOK`, `Harmless`, `SuccessMeansDone` |
| `nand_ecc` | 2 pages of 2 steps of 16 bytes, 2 bits corrected, up to 4 cells wrong | `TypeOK`, `ReturnsWhatWasMeant`, `CountsTheErrors`, `InPlaceWithoutEccErrors` |
| `nand_ecc_errors` | the same, one cell wrong | violation of `CorrectsInPlace` |
| `xfer` | 8 operations of SPI and raw NAND, 2 polls, calibrations | `TypeOK`, `CsReleased`, `ReadsFresh`, `InTheEye`, `WaitsForTheChip`, `IsPacketChannel`, `OperationReturns` |

Bounds. Two blocks let one be affected by a call on the other and a range span both; four pages
are the smallest power of two above the two pages `set_bb` marks, so that its address arithmetic
is exercised. The calls (`MCSpans`) contain a page, ranges across the block boundary, each block,
the chip, and calls that must be refused: misaligned, beyond the end, empty. With software ECC, in `spinand_stale_oob`, every page may
come to carry a marker, so `MCSwSpans` has three calls only. Nothing
else is bounded; the number of calls, faults and restarts is not. `SpiNandMode` has no bound but
the two pages that stand for the whole scan. `RawNand` needs more steps per page, so its
blocks have three pages, the least above two; the ranges are one that crosses the border with a cache
sequence on both sides, a whole block, and one beyond the end, each with a whole or partial page at either
end. Its run uses software ECC, the type with the most paths; what the others leave out is a part of
them, except for `HasMarker` (see the proofs). In `SpiNorAsp` three blocks are the least with a block
between the two that are locked by sectors, two bytes the least sector with a first byte that is not
its last, and the address space is twice the chip, so that wrapped addresses differ from those of
the chip. `MCSpans` lists the ranges: of every alignment, over both borders between sectors and blocks,
byte 0 alone, and those that are refused. Calls, faults and restarts are not bounded. `SpiNorMode` has
two ports because the tables are shared: one flash's entries can meet another's. The parts are entries of
`ids[]` (octal with and without word mode, quad), two of them on boards whose build wants an erase size
the part has no command for, at all or in the octal modes; the hosts are the UEFC, octal ones without word mode
and without double data rate, a quad and a single-line one, with and without the reset of `CONF_PROBE_RESET`. Nothing else is bounded. In `SpiNorArray` a page of four bytes is the
least that has a chunk with padding at both ends in one page; the second flash has two pages to an erase
unit. A byte has one bit, programs write zeros or every other byte, so that each byte tells whether it was
written and with whose data. `MCCalls` lists ranges before, on and behind the borders, a length of zero
and refused ones; calls, faults and power cuts are not bounded. `NandEcc` uses the smallest code `bch_init` takes (m = 8, 16 bytes in
a step), with two errors corrected, so that four wrong cells (`MaxWrong`) make correctable and uncorrectable steps side by
side. `MCPlaces` are cells at both ends of the data and between, and the highest ECC bit of two steps, whose root is
behind the data: of the first step of a page, where the next step is hit, and of the last step, where it is the
caller's buffer; `MCCalls` covers both pages, a part of each step, a part of a page and a page, with windows that
begin behind the first step. Programs and reads are not bounded, the number of programs of a step counts up to two. In
`PlatformXfer` the lists are the shapes the drivers send: regular and chained packets, polls with and
without chip select kept, skipped packets, transfers for DMA in both directions, aligned and not, and in I/O mode; `PollUs` is
two, the least at which a poll is repeated and can still succeed. The eyes of the calibration are all intervals of
sample points, sets with gaps, and delays with columns of equal, single and no width.

`Meets` are the units a range touches, `Reached` those the code gets to: the rounding of the end leaves out a
last unit of which the range has the first byte only. `RangeDone` excepts that unit, `QueryTells` a range
that has one (`CutShort`), `CallReturns` one that wraps (`Wraps`, byte 0 alone); see the end of the findings.
`OthersKept` excepts unlocks of SPBs that did not return success: between the erase and the last
write the other locks exist only in RAM, and a failure or power cut loses them.

Fairness. `CallReturns` is checked under weak fairness of the driver's own steps (`Driver`): it is
sequential code that runs once called, and every command ends because polls have timeouts. Nothing is
asked of the application, of faults or of power; in particular failures are not among the fair steps, so
no loop ends only because a command must fail some day. The same holds for
`CallReturns` of `SpiNorAsp`. `OperationReturns` of `PlatformXfer` is under weak fairness of the driver only too:
a DMA may never end and the chip stay busy for ever.

### Findings

* `spinand_erase` (violation of `EraseCoversRange`): after each block `row++` advances one *page*
  (`mxmtd/spinand/spinand.c:1263`), so the first block of a range is erased repeatedly and success
  is reported for all. `rawnand_erase` advances by a block.
* `spinand_stale_oob` (violation of `BbtMatchesFlash`): with software ECC a full-page program sends
  the whole spare area from `buf_oob` (`spinand.c:1078`) and nothing resets the marker bytes that
  `set_bb`, a scan or a read left there: a good block is marked bad on the flash. `NoPhantomBad`
  is the half of the property that survives: what the table calls bad is marked.
* `rawnand_hidden` (violation of `NothingHidden`): when the chip reports that an erase failed, `rawnand_erase`
  returns the result of the status read that follows, `MXST_SUCCESS` (`mxmtd/rawnand/rawnand.c:935`, 948).
  `rawnand_cache_pgm` returns `MXST_SUCCESS` on the fail bit of the page before (771) and does not look
  at that of the last page (768); `rawnand_unalign_pgm` overwrites the error of its second half (672).
  `SuccessMeansDone` is the half that survives: without a failure success means that all is done.
* `nand_ecc_errors` (violation of `CorrectsInPlace`, which is about reads of steps programmed once at most):
  `bch_decode` inverts whatever bit the root names, at `root/8 - 4 * ecc_words` of `data` (`bch.c:410`); only roots
  in the leading zero words are skipped. A wrong bit in an ECC byte has its root behind the data of the step: a bit
  is inverted in the next step of the buffer, in the next page of the caller or past the end of its buffer, against
  "size_step bytes ... error bits are corrected in place" (`inc/ecc/bch.h:67`). The trace has one wrong cell, the
  highest ECC bit of the last step, and a read that ends with that step: afterwards a bit behind the end of the
  caller's buffer is inverted (`beyond`). Elsewhere the next step is then decoded with that error on top of its own,
  which `Reliable` counts (`Upset`). In `InPlaceWithoutEccErrors` no ECC byte is wrong. An error in a pad bit has no
  root of its own, and an uncorrectable step can make the error locator write one entry more than `elp` has (`top`).

Four more things the models show have no run of their own. For the first two a property would fail, so it
excepts exactly that case, by name; without the exception TLC finds it violated.

* `CutShort`: a lock range that ends on the first byte of a sector or block leaves that unit open
  (`ROUNDUP(e) - 1`, `spinor.c:1365`), the query does not look at it either, and a range that is byte 0 alone never ends.
  `spinor_asp_rnd_lock_test` (`testbench/src/spinor_test.c:44-60`) locks random ranges and expects the query to report
  the lock: on a range of one byte, the first of a unit, it would be told that it is unlocked.
* `OrderLost`: in 8D-8D-8D `spinor_setup_cmdlist_rd` gives reads the word mode for every part (`spinor.c:174-181`),
  `switch_mode_opi` gives it to programs only where the part has `SPCL_WORD_MODE` (743), and the controller makes of it
  the order of the two bytes of a word (`mxic_uefc.c:698`). The other parts read data in another order than they
  programmed it, and the comparison of `testbench/src/flash_test.c:370` would fail.
* The entry mx76u25645g has 32 MB and only commands with three address bytes, so that an access above 16 MB goes to the
  lower half (`spinor_ids.h:640`, 654-658).
* The calibration with DQS tries SIO delays as `m << 3` and writes the chosen one as `m` (`mxic_uefc.c:1155`, 1205).

`SuccessMeansDone` of `SpiNorArray` is about calls that found the chip idle (`late` empty): after a poll
that gave up, the chip ignores the commands of the next call, whose own poll then reads "ready".
`Harmless` holds for those calls too, refused ones included, away from the bytes the chip was still working on.

`CleanProbe` of `SpiNorMode` excepts two cases (`Followable`) that its proof brought up, and in which TLC finds it
violated. `CHECK_CL_DOPI` (`spinor.c:83`) does not ask for the double data rate of the host, `scan_mode` does (533): on an octal
host without it a probe takes the chip to 8D-8D-8D, and the next one, after a restart without reset, does not find it. And a
chip that powers up in an octal protocol, of a part whose octal modes are not possible (say, without the configured erase
command there), is found and then lost: `switch_mode_spi` does not lead out of an octal mode. The one host of the repository
has both (`mxic_uefc.c:1389`), so the first cannot happen with it.

## 4. Proofs

`SpiNandProofs` proves, for every number of blocks, every number of pages above two, every ECC
type, every set of calls and with or without faults:

* `TypeCorrect`: `Spec => []TypeOK`;
* `RetiredBlocksStayBad`: `Spec => []RetiredStaysBad`;
* `NoPhantoms`: `Spec => []NoPhantomBad`;
* `CallsStayInRange`: `Spec => OnlyRangeTouched`.

Assumptions: `GeometryAssumption` of `NandGeometry` and `ConfigAssumption` of `SpiNand`. The first two follow from the inductive invariant `IInv`
(theorem `Invariant`). `RetiredStaysBad` is not inductive: while the driver is off or scanning, the
table is empty or half filled, and what brings a retired block back is the marker on its first
page. `IInv` therefore adds `RetiredMarked` (a retired block carries both markers),
`MarkingOneBlock` (in the middle of `set_bb` the first page of exactly one block is marked, and the
buffer holds the marker), `RetiredKnown` (the scan has put into the table all retired blocks it has
passed) and `CallFits` (the rows to come are in the chip). `Geometry` collects what is needed of
division by the block size; the other proofs leave `BlkOf` folded. There is one lemma per group of
actions. TLC checked `IInv` before it was proved. `NoPhantoms` adds `BbtMarked` to it, the property without "between calls":
a bit enters the table only in a scan that has read the marker, and in `set_bb` after the second page is written.
`CallsStayInRange` adds `RowsInRange`: the rows still to come are in blocks of `range`. Its base is that rows in order are in
blocks in order (`BlkOfOrder`, `BlkOfBefore`).

For builds without software ECC (`ecc.type` is never that) it proves:

* `TableMatchesFlash`: `Spec => []BbtMatchesFlash`;
* `Refinement`: `Spec => IsBadBlockManager`;
* `DriverSound`: `Spec => []Manager!Sound`.

The invariant `TInv` adds to `IInv` that table and markers agree on every block outside `suspect` and
not being marked (`TableAgrees`), and during a scan on all blocks passed (`ScanAgrees`). With software ECC
it fails, which is the finding `spinand_stale_oob`. The refinement goes through the actions
one by one: each is an action of `BadBlocks` or leaves the mapped variables alone. `Soundness`
proves what the abstract specification is good for, from its own steps alone: outside `unsure` and the block being
marked, known and bad blocks are the same when the manager is ready. `DriverSound` is the two together.

`SpiNandModeProofs` proves, for every set of builds, probe, pattern of failures and of refused writes:

* `TypeCorrect`: `Spec => []TypeOK`;
* `CopiesCoherent`: `Spec => []CacheCoherent`;
* `RightMode`: `Spec => []RunsInMode`.

`RunsInMode` speaks of the command that is next; whether a command finds its mode was decided by steps before it, or by
calls before. So the invariant is about the rest of the plan. `PlanInv` says what the steps of a plan can be, and that in a
probe it is what remains of the probe's steps (`ProbeAt`). `CoherentInv` says from when on the copy of a bit counts
(`Settled`): the parameter page has been read, and the register where the probe does so. `PreparedInv` says that for each
command to come the last step before it that touches the bit sets it as the command relies on, or none touches it and the
copy has that value. The three shapes of step - a copy that is already right, a register written, a command - each keep it,
and the plans of all calls have it to begin with (one lemma per plan).

`RawNandProofs` proves, for every number of blocks, every number of pages above two, every number of ECC
steps, every ECC type, every set of calls and with or without faults:

* `TypeCorrect`: `Spec => []TypeOK`;
* `WindowRestored`: `Spec => []WholeWindow`;
* `CallsStayInRange`: `Spec => OnlyRangeTouched`;

and, for chips with a layout that has marker bytes (`HasMarker`: every configuration but `ECC_NONE`, where
the layout stays zero, nothing is written by `set_bb` and nothing found by a scan):

* `RetiredBlocksStayBad`: `Spec => []RetiredStaysBad`;
* `CallsDoTheirWork`: `Spec => []SuccessMeansDone`;
* `NoPhantoms`: `Spec => []NoPhantomBad`;

and, for chips with an ECC of their own (`ECC_INTERNAL_RAW`, announced by the chip or configured):

* `Refinement`: `Spec => IsBadBlockManager`;
* `DriverSound`: `Spec => []Manager!Sound`.

Assumptions: `GeometryAssumption` and `ConfigAssumption` of `RawNand`. Three inductive invariants build on
each other. `IInv` is about one state: types, rows inside the chip (`CallFits`), which sequence can be
next (`SequenceFits`) and the window. It is proved in four parts (chip, RAM, call, window), because most
actions disturb one or two of them. `RInv` adds where a retired block is known: on its two marker pages,
and in the table from the moment the scan has passed it. `DInv` says that while nothing has failed the
rows still to do are those ahead, or pages of a cache program in the chip, and the chip is in the
sequence the driver will continue. TLC checked all three as invariants first. `NoPhantoms` goes by `KnownMarked`, which is the
property within calls and scans as well; `CallsStayInRange` by `AheadInRange`: the rows a call has still to reach are in
its blocks. A cache program given up is the case to look at: the page still in the chip lands during a later call, on a block
that is not that call's, and `OnlyRangeTouched` excepts it (`Stains`).

The refinement needs three more invariants: no page in the chip carries a marker but those of `set_bb`, as software ECC is never
switched on (`Plain`); during a scan the table has just the marked blocks behind it (`ScanAgrees`); and without a failure the chip is
writing on its own only while the driver is about the next page of the same program (`InTurn`), so that it ignores no erase.
TLC checked `IsBadBlockManager` and `Manager!Sound` on the instance of `rawnand` with `ChipEcc` first; the run itself uses software ECC, with
which the refinement does not hold, for the reason of the finding `spinand_stale_oob`: `rawnand_page_pgm` sends `buf_oob` too.

`SpiNorAspProofs` proves, for every number of blocks above one, every block size that is a multiple of
the sector size, with and without locks by sector, for every set of ranges, with or without faults:

* `TypeCorrect`: `Spec => []TypeOK`;
* `ModeIsAsp`: `Spec => []NeedsWpsel`;
* `CallsDoTheirRange`: `Spec => []RangeDone`;
* `CallsKeepOthers`: `Spec => []OthersKept`;
* `QueriesTell`: `Spec => []QueryTells`.

Assumption: `AspAssumption`. The first part is arithmetic: two multiples of a size are that far apart
(`MultGap`), what `ROUNDDOWN` and `ROUNDUP` return (`RoundDownFacts`, `RoundUpFacts`), units do not
overlap and follow each other over the borders where their size changes (`UnitGap`, `NextIsUnit`),
and a rounded range holds exactly the units reached (`RangeUnits`). The second part is the inductive
invariant `IInv`: the locals belong to the call (`CallMatches`), a loop is at a unit of its range
(`LoopPlace`) and has treated those behind it (`LoopDone`), and during an unlock of SPBs those on
the chip and those in RAM together are the ones to keep (`Unlocking`). TLC checked `IInv` first. `QueriesTell` adds
`QueryPlace`: `acc` has the kinds of the units passed, and these are all locked or none is, or the query would have ended.
From it follows the answer about the units reached (`ReachedTold`), and for ranges that are not `CutShort` these are
all the range touches (`ToldAll`; `WrapsCutShort` says that one that wraps is).

`SpiNorModeProofs` proves, for every set of ports, boards and hosts and every command table:

* `TypeCorrect`: `Spec => []TypeOK`;
* `AlwaysHeard`: `Spec => []Heard`;
* `AlwaysInStep`: `Spec => []InStep`;
* `CleanProbesSucceed`: `Spec => []CleanProbe`.

Assumptions: `BoardAssumption`, `BuildAssumption`, `CmdAssumption`, and three facts of the tables: the octal reads are reads on eight lines
(`OpiReadAssumption`), a command list has a highest bit (`RankAssumption`), every part has a read and a
program on one line (`PlainAssumption`). `InStep` speaks of the end of a probe only, and asks that reads and programs use the
same byte order unless `OrderLost`; `IInv` says what holds on the way:
the tables are this part's from `SetupLists` on (`TablesFilled`), an octal mode is entered only when both sides
have it (`TargetPossible`), the commands chosen are listed (`CommandsChosen`), the registers written so far
follow them (`ChipFollows`), and `set_dc`, the flag that lets `switch_mode_opi` skip a mode, is not set before they
do (`NotYet`). `Heard` is a conjunct of it, as each step must find the chip listening. There is one lemma per
conjunct, with a step per action. TLC checked `IInv` first. `CleanProbesSucceed` adds two invariants. `Wired`, which holds over
faults, restarts and the probes of the other ports: a chip in an octal protocol is on eight lines, and powered up in it or can be
used in it. `OnCourse`, while the probe met no fault: the protocols already tried are not the chip's, the modes already passed are not
possible, so that the scan cannot end without a hit nor the selection below the best mode.

`SpiNorArrayProofs` proves, for every flash whose pages, erase units and size divide one another, every set of calls, and
with every failure and power cut:

* `TypeCorrect`: `Spec => []TypeOK`;

and, for flashes all of which the address bytes of their commands reach (`Reachable`):

* `NoOtherByteChanges`: `Spec => []Harmless`;
* `SuccessIsDone`: `Spec => []SuccessMeansDone`.

`Reachable` is needed: the entry mx76u25645g is an exception (see the findings), and a program above 16 MB changes other bytes there.
Assumptions: `PartAssumption`, `CallAssumption`, `NoiseAssumption`. The arithmetic comes first: sums and remainders (`ModAdd`
and its like are the only places where products are multiplied out), a chunk with its padding stays in its page and covers its part of
the range (`ProgramPlace`), an erase its unit. Three invariants build on each other: `CallInv` (where the call is; all but its first
chunk begin on a page), `JobHarmless` (what the chip is busy with is allowed, which keeps `Harmless` over a `Complete` or a
`PowerCut` at any time), and `InStep`, for calls that found the chip idle: what is behind the driver is done, the chip is idle and
enabled when a command goes out, and busy with that command or through with it after.

`PlatformXferProofs` proves, for every set of devices and operations whose lists are like those of the drivers, and every number of polls:

* `TypeCorrect`: `Spec => []TypeOK`;
* `ChipSelectReleased`: `Spec => []CsReleased`;
* `ReadsAreFresh`: `Spec => []ReadsFresh`;
* `ChipIsWaitedFor`: `Spec => WaitsForTheChip`;
* `CalibratedInTheEye`: `Spec => []InTheEye`;
* `Refinement`: `Spec => IsPacketChannel`.

Assumptions: `DeviceAssumption` (types) and `ListAssumption`, which is what the lists of `rawnand_cmd.c` and `spinand_cmd.c` have
in common, over all the lists of an operation and not counting skipped packets: a packet selects the chip if the
one before has not kept it selected (`Held`), behind one that starts the chip working (`Begun`) comes the polling of the status, a polling
packet reads and does not end a sequence, and the last list of an operation leaves neither open. `cmd_rawnand_read_start`
and `cmd_rawnand_page_read` are an example of two lists of one operation (`rawnand_cmd.c:101`, 115). An operation that the
driver itself breaks off after a list that succeeded (a fail bit in a cache program, `rawnand.c:768`) is not among them, and
neither is SPI NOR, which polls in a loop of its own (`spinor.c:211`, modelled in `SpiNorArray`) and has no polling packets.
The inductive invariant has one part per subject: the packet's frame so far and what is still to be sent (`SendInv`), the DMA, its flag and
the buffer (`DmaInv`), chip select (`CsInv`), whether the chip is busy and with what (`ChipInv`), and how chip select and chip stand between
packets, given the place in the operation (`PlaceInv`). The last is what makes the others inductive: from a packet alone one cannot tell how
the one before left the chip. For the calibration, `MiddleOf` shows that the middle of a run is one of its points, and `WidestColumn` that the column
chosen is as wide as any.

`NandEccProofs` proves, for every step size, strength and number of pages and steps, every set of calls, images and
places, however many cells go wrong:

* `TypeCorrectness`: `Spec => []TypeOK`;
* `ReadsReturnWhatWasMeant`: `Spec => []ReturnsWhatWasMeant`;
* `ErrorsAreCounted`: `Spec => []CountsTheErrors`;
* `CorrectionStaysInPlace`: `Spec => []InPlaceWithoutEccErrors`.

Assumptions: `CodecAssumption` and `EccAssumption`, and `BchAssumption`: that the
codec corrects what its header says it does. Its loops are recursive definitions, and what they compute for every input
is an induction over data, which the installed provers cannot do. So it is assumed, and TLC evaluates it on the instance of
the run, for each of the 10441 patterns of at most two wrong bits among 128 of data and 16 of ECC. The assumption says what
`bch_decode` does with at most `Strength` wrong bits: it counts them, inverts those of the data, and behind the data no more bits
than there are wrong ECC bits. It says nothing of a step with more errors, and of what the encoder computes only that it has `ecc_bits` bits.
It cannot hold where 32 divides m * t, as with 16 bytes and t = 4: no ECC bit pads the first word there, and the ECC bit 0 has
the exponent of a data bit. `nand_bch_init` with the 512 bytes of the chips (m = 13) is not among them for any t up to 12.

What the rest of the proof has to show is what `nand.c` and the drivers make of such a codec. That the encoder is linear, so that
the ECC of erased bytes reads as erased (`MaskFF`) and the decoder sees nothing but the difference of wrong data and wrong ECC bits, is
proved from `BchEncode`; so is, from `BchDecode`, that no decoding at all inverts more than `Strength` bits or reports more. The inductive invariant
`IInv` has two parts. `CellsOK`: a step programmed once at most has as ECC what its data asks for, in what was meant for it. `ReadOK`, for the read under way:
where it is in its pages and steps (`ReadPlace`), what the caller's buffer may hold (`OutOK`), the steps still to be
decoded as they are in the cells but for what the step before has upset (`Unread`), the steps behind as they were meant
(`Right`, by its parts `Delivered`, `Corrected` and `UpsetOnce`), and, without wrong ECC bytes, the counters equal to the errors of the
steps behind (`Counted`) and nothing inverted elsewhere (`Inside`). TLC checked `IInv` first.

The proof changed the property. `ReturnsWhatWasMeant` used to count as upset only the wrong ECC bits of the step before. That is
false as soon as the step before has more errors than the ECC corrects: its wrong data bits 0, 17 and 127 have a syndrome
that decodes to two positions behind the data, and the decoder inverts two bits of a step that was right. TLC found it once four cells could be wrong. `Upset` now
takes `Strength` for a step that is not one of the good ones.

Only model-checked: `CallReturns` of `SpiNand` and `SpiNorAsp` and `OperationReturns` of `PlatformXfer`, which are liveness. The four properties
that a run finds violated are in the findings.

## 5. Plan

1. `SpiNand`, `BadBlocks`, the refinement and their proofs (done).
2. `SpiNandMode` and its proofs (done).
3. `RawNand` and its proofs (done).
4. `SpiNorAsp` and its proofs (done).
5. `SpiNorMode` and its proofs (done).
6. `SpiNorArray` and its proofs (done).
7. `PlatformXfer`, `PacketChannel` and their proofs (done).
8. `Bch`, `NandEcc` and its proofs (done).
9. `RawNand` as a bad-block manager (done).
10. Left: abstract specifications of the other components, as `BadBlocks` and `PacketChannel` are of these.

## 6. Not modelled

* eMMC: announced, not in the source.
* Parameter pages, SFDP and the id tables: parsing of fixed layouts, whose results are constants of the modules here.
* `mxmtd.c`, and the allocation paths of `nand.c`: no state but pointers. `nand_bch_init` calls its own release
  before `ecc->priv` is set, so a failed initialisation loses the codec (a hazard in `PROJECT.json` without a property).
* The ECC status that a chip with internal ECC reports (`spinand_internal_ecc_post_rd`): a read of two pages can report
  "below the threshold" for the first (another hazard without a property).
* Test bench, pass-through, printing, cycle counter: callers or measurement. `lib.c` beyond `fmsb32`, `ROUNDUP` and `ROUNDDOWN`.
* Register layouts, clocks and channels of the UEFC; its dead transfer modes.
