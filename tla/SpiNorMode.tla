----------------------------- MODULE SpiNorMode -----------------------------
(***************************************************************************)
(* Bringing up a SPI NOR flash: the call of mxmtd_setup_dev that reaches   *)
(* spinor_probe (mxmtd/spinor/spinor.c).  The driver resets the chip,      *)
(* finds out which bus protocol it listens to, fills the static command    *)
(* tables, moves the chip to the fastest protocol both sides can do, sets  *)
(* its dummy cycles and quad-enable bit, and trains the host's sampling.   *)
(*                                                                         *)
(* Two sides must stay in step: the driver's idea of the chip (drv, and    *)
(* the tables tbl that all devices of the process share) and the chip's    *)
(* own registers (chip), which outlive a release, a failed probe and a     *)
(* restart of the host.  Every transfer may fail, and a transfer that      *)
(* fails may or may not have reached the chip.                             *)
(*                                                                         *)
(* No entry of ids[] lists the EN4B or the EQIO command, so enter_addr_4b  *)
(* and switch_mode_qpi return MXST_ERR_CONT for every part: 4-byte         *)
(* addressing mode and the QPI protocol do not occur.                      *)
(***************************************************************************)
EXTENDS Naturals

CONSTANTS Ports,    \* the chip selects a flash may sit on
          Boards,   \* functions from ports to [part, boot]: what is soldered
          Builds,   \* host controller and configuration:
                    \*   [io, dtr, word, reset]
          Cmds,     \* the read and program commands of cmd_info_rd/_pgm
          CmdInfo   \* command -> [kind, rank, io]: its table, its bit in the
                    \*   command lists and its bus width in each mode

Modes == {"SPI", "SOPI", "DOPI"}

\* The first byte of a dummy cycle entry of ids[]: nothing to set in the chip.
NoSetting == 255

Settings == 0..3 \cup {NoSetting}
Dummies  == [set : Settings, cyc : Nat]

\* An entry of ids[].
PartType == [list : [Modes -> SUBSET Cmds],
             dc   : [Modes -> [Cmds -> Dummies]],
             ers  : [Modes -> BOOLEAN],  \* the configured erase command
             cr2  : BOOLEAN,             \* MXIC_CR2
             word : BOOLEAN,             \* SPCL_WORD_MODE
             pre  : BOOLEAN,             \* SPCL_PREAMBLE
             qe   : BOOLEAN,             \* SPCL_SR_QE_BIT6
             crdc : BOOLEAN]             \* SPCL_CR_DC_BIT6_7

BuildType == [io : {1, 2, 4, 8}, dtr : BOOLEAN, word : BOOLEAN, reset : BOOLEAN]

InfoType == [kind : {"rd", "pgm"}, rank : Nat, io : [Modes -> Nat]]

ASSUME BoardAssumption == Boards \subseteq [Ports -> [part : PartType, boot : Modes]]
ASSUME BuildAssumption == Builds \subseteq BuildType
ASSUME CmdAssumption   == CmdInfo \in [Cmds -> InfoType]

\* The octal reads are reads on eight lines, a command list has a highest bit of
\* either kind it holds, and every part has a read and a program that need one
\* line only.
ASSUME OpiReadAssumption ==
  \A c \in Cmds : /\ c \in {"8READ", "8DTRD"} => CmdInfo[c].kind = "rd"
                  /\ c = "8READ" => CmdInfo[c].io["SOPI"] = 8
                  /\ c = "8DTRD" => CmdInfo[c].io["DOPI"] = 8
ASSUME RankAssumption ==
  \A S \in SUBSET Cmds : \A c \in S : \E t \in S :
    /\ CmdInfo[t].kind = CmdInfo[c].kind
    /\ \A d \in S : CmdInfo[d].kind = CmdInfo[c].kind =>
         CmdInfo[d].rank <= CmdInfo[t].rank
ASSUME PlainAssumption ==
  \A b \in Boards : \A p \in Ports : \A k \in {"rd", "pgm"} :
    \E c \in b[p].part.list["SPI"] : CmdInfo[c].kind = k /\ CmdInfo[c].io["SPI"] <= 1

VARIABLES
  board,   \* the parts on this board and the protocol each powers up in
  build,   \* the host controller and the configuration it is built for
  chip,    \* port -> registers of the chip
  tbl,     \* the static tables cmd_info_rd and cmd_info_pgm
  pc,      \* where mxmtd_setup_dev is
  port,    \* the port it works on
  tgt,     \* the mode the present step tries
  drv,     \* the fields of mxmtd->spinor
  upset    \* whether this probe met a fault or an uninitialised value

vars == <<board, build, chip, tbl, pc, port, tgt, drv, upset>>

fixed == <<board, build>>

-----------------------------------------------------------------------------
NoCmd == "none"

Fresh == [mode |-> "SPI", prot |-> "SPI", set_dc |-> FALSE,
          rd |-> NoCmd, pgm |-> NoCmd]

\* A chip after power-up or a software reset; its quad-enable bit is kept.
Restarted(p, qe) == [bus |-> board[p].boot, crdc |-> 0, cr2dc |-> 0,
                     pbe |-> FALSE, qe |-> qe]

\* The tables as they are compiled in.
Compiled == [dc      |-> [c \in Cmds |-> [m \in Modes |-> [set |-> 0, cyc |-> 0]]],
             rd_word |-> FALSE, pgm_word |-> FALSE]

Part == board[port].part
Here == chip[port]

\* The host controller has the lines the command needs.
Able(c, m) == CmdInfo[c].io[m] <= build.io

\* DOPI reads of a word-mode part need a host that swaps words.
WordClash(m) == m = "DOPI" /\ Part.word /\ ~build.word

\* What setup_cmdlist leaves in the command list of the part.
Listed(m) == {c \in Part.list[m] : Able(c, m) /\ ~(WordClash(m) /\ c = "8DTRD")}

OpiRead(m) == IF m = "DOPI" THEN "8DTRD" ELSE "8READ"

\* CHECK_CL_DOPI and CHECK_CL_SOPI.
HasOpi(m) == /\ OpiRead(m) \in Listed(m)
             /\ \E c \in Listed(m) : CmdInfo[c].kind = "pgm"
             /\ Part.ers[m]
             /\ Part.cr2

\* SET_CMD_META: the highest bit of the command list.
Fastest(m, k) ==
  CHOOSE c \in Listed(m) :
    /\ CmdInfo[c].kind = k
    /\ \A d \in Listed(m) : CmdInfo[d].kind = k => CmdInfo[d].rank <= CmdInfo[c].rank

UsesQuad(c) == c \in Cmds /\ CmdInfo[c].io[drv.mode] = 4

\* The chip obeys a command only when it comes in the protocol it listens to.
Hears(k) == Here.bus = k

\* The register after a write of v that is reported done.
Written(r, v) == [chip EXCEPT ![port][r] = v]

\* What a failed transfer may have left behind.
MaybeWritten(r, v) == chip' \in {chip, Written(r, v)}

Go(where) == pc' = where /\ UNCHANGED upset

\* A transfer fails, or a status poll times out: the probe gives up.
GiveUp == pc' = "failed" /\ upset' = TRUE

-----------------------------------------------------------------------------
Init ==
  /\ board \in Boards
  /\ build \in Builds
  \* a chip that powers up in an octal protocol is wired to a host that has it
  /\ \A p \in Ports : board[p].boot # "SPI" =>
       build.io = 8 /\ (board[p].boot = "DOPI" => build.dtr)
  /\ \E q \in [Ports -> BOOLEAN] : chip = [p \in Ports |-> Restarted(p, q[p])]
  /\ tbl = Compiled
  /\ pc = "off"
  /\ port \in Ports
  /\ tgt = "SPI"
  /\ drv = Fresh
  /\ upset = FALSE

\* setup_spinor and setup_platform: a zeroed mxmtd_t for the flash on port p.
Setup(p) ==
  /\ pc = "off"
  /\ port' = p
  /\ drv' = Fresh
  /\ tgt' = "SPI"
  /\ upset' = FALSE
  /\ pc' = IF build.reset THEN "reset" ELSE "scan"
  /\ UNCHANGED <<fixed, chip, tbl>>

\* spinor_reset in the protocol tgt: only a chip that listens to it restarts.
Reset ==
  LET reborn == IF Hears(tgt)
                THEN [chip EXCEPT ![port] = Restarted(port, @.qe)] ELSE chip
  IN /\ pc = "reset"
     /\ drv' = [drv EXCEPT !.prot = tgt]
     /\ \/ /\ chip' = reborn
           /\ tgt' = CASE tgt = "SPI" -> "DOPI" [] tgt = "DOPI" -> "SOPI"
                       [] tgt = "SOPI" -> "SPI"
           /\ Go(IF tgt = "SOPI" THEN "scan" ELSE "reset")
        \/ /\ chip' \in {chip, reborn}
           /\ UNCHANGED tgt
           /\ GiveUp
     /\ UNCHANGED <<fixed, port, tbl>>

\* scan_mode: the identifier is read in one protocol after the other.  A
\* time-out counts as "not this protocol", any other error ends the scan.
ScanHit ==
  /\ pc = "scan"
  /\ Hears(tgt)
  /\ drv' = [drv EXCEPT !.prot = tgt, !.mode = tgt]
  /\ Go("info")
  /\ UNCHANGED <<fixed, chip, tbl, port, tgt>>

ScanMiss ==
  /\ pc = "scan"
  /\ drv' = [drv EXCEPT !.prot = tgt]
  /\ upset' = (upset \/ Hears(tgt))
  /\ \/ /\ tgt = "SPI"
        /\ build.io = 8
        /\ tgt' = IF build.dtr THEN "DOPI" ELSE "SOPI"
        /\ pc' = "scan"
     \/ /\ tgt = "DOPI"
        /\ tgt' = "SOPI"
        /\ pc' = "scan"
     \/ /\ tgt = "SOPI" \/ (tgt = "SPI" /\ build.io # 8)
        /\ UNCHANGED tgt
        /\ pc' = "failed"
  /\ UNCHANGED <<fixed, chip, tbl, port>>

ScanError ==
  /\ pc = "scan"
  /\ drv' = [drv EXCEPT !.prot = tgt]
  /\ GiveUp
  /\ UNCHANGED <<fixed, chip, tbl, port, tgt>>

\* The reads that change nothing in the chip: the security, lock and SFDP
\* registers.
ReadInfo ==
  /\ pc = "info"
  /\ Go("lists") \/ GiveUp
  /\ UNCHANGED <<fixed, chip, tbl, port, tgt, drv>>

CopiedOnce ==      \* a first probe's entry is kept
  [c \in Cmds |-> [m \in Modes |->
     IF c \in Part.list[m] /\ Able(c, m) /\ tbl.dc[c][m].cyc = 0
     THEN Part.dc[m][c] ELSE tbl.dc[c][m]]]

\* The dummy cycles of the part are copied over whatever an earlier probe
\* left in the shared table, for every read the host has the lines for.
CopiedDummies ==
  [c \in Cmds |-> [m \in Modes |->
     IF c \in Part.list[m] /\ CmdInfo[c].kind = "rd" /\ Able(c, m)
     THEN Part.dc[m][c] ELSE tbl.dc[c][m]]]

\* setup_cmd_info: the erase command, the command lists, the word mode of
\* 8DTRD (set for every part but one that clashes with the host), and a read of
\* CR2 when SOPI is possible.
SetupLists ==
  /\ pc = "lists"
  /\ IF ~Part.ers["SPI"]
     THEN /\ Go("failed")
          /\ UNCHANGED <<tbl, tgt>>
     ELSE /\ tbl' = [tbl EXCEPT !.dc = CopiedDummies,
                                !.rd_word = IF WordClash("DOPI") THEN @ ELSE TRUE]
          /\ tgt' = "DOPI"
          /\ Go("sel") \/ (HasOpi("SOPI") /\ GiveUp)
  /\ UNCHANGED <<fixed, chip, port, drv>>

-----------------------------------------------------------------------------
SpiNext == "SPI"    \* the single-rate mode is never tried

NextTarget == IF tgt = "DOPI" THEN "SOPI" ELSE "SPI"

\* switch_mode_opi returns MXST_ERR_CONT: the part or the host cannot do the
\* mode.  The test reads a variable that nothing set when they can, so the
\* mode may be passed over all the same.
PassOver ==
  /\ pc = "sel"
  /\ tgt # "SPI"
  /\ tgt' = NextTarget
  /\ upset' = (upset \/ HasOpi(tgt))
  /\ UNCHANGED <<fixed, chip, tbl, pc, port, drv>>

StartOpi ==
  /\ pc = "sel"
  /\ tgt # "SPI"
  /\ HasOpi(tgt)
  /\ Go(CASE drv.mode = tgt /\ drv.set_dc -> "qe"
          [] drv.mode # "SPI"             -> "leave"
          [] OTHER                        -> "enter")
  /\ UNCHANGED <<fixed, chip, tbl, port, tgt, drv>>

\* spinor_wrcr2(ADDR_CR2_OPI) to mode m.  The status poll inside it still uses
\* the old protocol, so it reads noise; noise that looks busy until the poll
\* runs out ends the probe with the chip already in the new protocol.
SwitchBus(m, next) ==
  LET moved == IF Hears(drv.prot) THEN Written("bus", m) ELSE chip
  IN \/ /\ chip' = moved
        /\ drv' = [drv EXCEPT !.mode = m, !.prot = m]
        /\ Go(next)
     \/ /\ chip' \in {chip, moved}
        /\ UNCHANGED drv
        /\ GiveUp

LeaveOpi ==
  /\ pc = "leave"
  /\ SwitchBus("SPI", "left")
  /\ UNCHANGED <<fixed, tbl, port, tgt>>

EnterOpi ==
  /\ pc = "enter"
  /\ SwitchBus(tgt, "entered")
  /\ UNCHANGED <<fixed, tbl, port, tgt>>

\* check_rdid reads another identifier, because the chip does not hear the
\* command or the answer is garbled: MXST_ERR_CONT, "try the next mode".
OtherId ==
  /\ tgt' = NextTarget
  /\ pc' = "sel"
  /\ upset' = (upset \/ Hears(drv.prot))

\* check_rdid back in SPI.
CheckLeft ==
  /\ pc = "left"
  /\ \/ /\ Hears(drv.prot)
        /\ UNCHANGED tgt
        /\ Go("enter")
     \/ OtherId
     \/ /\ UNCHANGED tgt
        /\ GiveUp
  /\ UNCHANGED <<fixed, chip, tbl, port, drv>>

\* The commands of the mode just entered, and the word mode of its programs.
Choose(m) == /\ drv' = [drv EXCEPT !.mode = m, !.prot = m,
                          !.rd = Fastest(m, "rd"), !.pgm = Fastest(m, "pgm")]
             /\ tbl' = [tbl EXCEPT !.pgm_word = m = "DOPI" /\ Part.word]

\* check_rdid in the octal mode; a match settles the commands.
CheckEntered ==
  /\ pc = "entered"
  /\ \/ /\ Hears(drv.prot)
        /\ Choose(tgt)
        /\ UNCHANGED tgt
        /\ Go("dc")
     \/ /\ OtherId
        /\ UNCHANGED <<drv, tbl>>
     \/ /\ GiveUp
        /\ UNCHANGED <<tgt, drv, tbl>>
  /\ UNCHANGED <<fixed, chip, port>>

SelectUnchecked ==  \* without check_rdid
  /\ pc = "sel"
  /\ tgt = "SPI"
  /\ Choose("SPI")
  /\ Go("dc")
  /\ UNCHANGED <<fixed, chip, port, tgt>>

\* switch_mode_spi: only the driver's side is set; the chip must be there.
SelectSpi ==
  /\ pc = "sel"
  /\ tgt = "SPI"
  /\ \/ /\ Hears("SPI")
        /\ Choose("SPI")
        /\ Go("dc")
     \/ /\ drv' = [drv EXCEPT !.mode = "SPI", !.prot = "SPI"]
        /\ UNCHANGED tbl
        /\ IF Hears("SPI") THEN GiveUp ELSE Go("failed")
  /\ UNCHANGED <<fixed, chip, port, tgt>>

CycleCount == tbl.dc[drv.rd][drv.mode].cyc  \* the wrong byte of the entry

\* setup_dc: the setting of the chosen read goes to CR2 in the octal modes and
\* to the configuration register in SPI, unless the table says none is needed.  Every
\* entry lists the RDCR command setup_dc_spi_qpi asks for.
DummySetting == tbl.dc[drv.rd][drv.mode].set
DummyReg == IF drv.mode = "SPI" THEN "crdc" ELSE "cr2dc"

SetDummies ==
  /\ pc = "dc"
  /\ IF DummySetting # NoSetting /\ drv.mode = "SPI" /\ ~Part.crdc
     THEN Go("failed") /\ UNCHANGED <<chip, drv>>
     ELSE \/ /\ chip' = IF DummySetting = NoSetting THEN chip
                        ELSE Written(DummyReg, DummySetting)
             /\ drv' = [drv EXCEPT !.set_dc = TRUE]
             /\ Go("qe")
          \/ /\ IF DummySetting = NoSetting THEN UNCHANGED chip
                ELSE MaybeWritten(DummyReg, DummySetting)
             /\ UNCHANGED drv
             /\ GiveUp
  /\ UNCHANGED <<fixed, tbl, port, tgt>>

\* set_quad_enable, called in SPI mode only: the bit follows the commands
\* chosen, and a part without the bit is let through.
QuadWanted == UsesQuad(drv.rd) \/ UsesQuad(drv.pgm)

SetQuad ==
  /\ pc = "qe"
  /\ IF drv.mode # "SPI" \/ ~Part.qe
     THEN Go("cali") /\ UNCHANGED chip
     ELSE \/ chip' = Written("qe", QuadWanted) /\ Go("cali")
          \/ MaybeWritten("qe", QuadWanted) /\ GiveUp
  /\ UNCHANGED <<fixed, tbl, port, tgt, drv>>

\* spinor_preamble_calibration: the preamble bit is set, and read back because
\* the chip may not have it; the host trains on the pattern; the bit is
\* cleared.  A training that fails leaves it set.
StartTraining ==
  /\ pc = "cali"
  /\ IF ~Part.pre
     THEN Go("ready") /\ UNCHANGED chip
     ELSE \/ chip' = Written("pbe", TRUE) /\ Go("train")
          \/ ~Here.pbe /\ UNCHANGED chip /\ Go("ready")
          \/ MaybeWritten("pbe", TRUE) /\ GiveUp
  /\ UNCHANGED <<fixed, tbl, port, tgt, drv>>

Train ==
  /\ pc = "train"
  /\ Go("untrain") \/ GiveUp
  /\ UNCHANGED <<fixed, chip, tbl, port, tgt, drv>>

StopTraining ==
  /\ pc = "untrain"
  /\ \/ chip' = Written("pbe", FALSE) /\ Go("ready")
     \/ MaybeWritten("pbe", FALSE) /\ GiveUp
  /\ UNCHANGED <<fixed, tbl, port, tgt, drv>>

-----------------------------------------------------------------------------
\* mxmtd_release, by the user or by a failed mxmtd_setup_dev: memory only.
Release ==
  /\ pc \in {"ready", "failed"}
  /\ pc' = "off"
  /\ drv' = Fresh
  /\ tgt' = "SPI"
  /\ upset' = FALSE
  /\ UNCHANGED <<fixed, chip, tbl, port>>

\* The host restarts at any moment; the chips are not told.
Reboot ==
  /\ pc' = "off"
  /\ drv' = Fresh
  /\ tgt' = "SPI"
  /\ tbl' = Compiled
  /\ upset' = FALSE
  /\ UNCHANGED <<fixed, chip, port>>

\* The whole board loses power.
PowerCycle ==
  /\ chip' = [p \in Ports |-> Restarted(p, chip[p].qe)]
  /\ pc' = "off"
  /\ drv' = Fresh
  /\ tgt' = "SPI"
  /\ tbl' = Compiled
  /\ upset' = FALSE
  /\ UNCHANGED <<fixed, port>>

Next ==
  \/ \E p \in Ports : Setup(p)
  \/ Reset \/ ScanHit \/ ScanMiss \/ ScanError \/ ReadInfo \/ SetupLists
  \/ PassOver \/ StartOpi \/ LeaveOpi \/ CheckLeft \/ EnterOpi \/ CheckEntered
  \/ SelectSpi \/ SetDummies \/ SetQuad
  \/ StartTraining \/ Train \/ StopTraining
  \/ Release \/ Reboot \/ PowerCycle

Spec == Init /\ [][Next]_vars

-----------------------------------------------------------------------------
ChipType == [bus : Modes, crdc : Settings, cr2dc : Settings,
             pbe : BOOLEAN, qe : BOOLEAN]

Phases == {"off", "reset", "scan", "info", "lists", "sel", "leave", "left",
           "enter", "entered", "dc", "qe", "cali", "train", "untrain",
           "ready", "failed"}

\* Everything the driver and the chip keep is of its type.
TypeOK ==
  /\ board \in [Ports -> [part : PartType, boot : Modes]]
  /\ build \in BuildType
  /\ chip \in [Ports -> ChipType]
  /\ tbl \in [dc : [Cmds -> [Modes -> Dummies]], rd_word : BOOLEAN, pgm_word : BOOLEAN]
  /\ pc \in Phases
  /\ port \in Ports
  /\ tgt \in Modes
  /\ drv \in [mode : Modes, prot : Modes, set_dc : BOOLEAN,
              rd : Cmds \cup {NoCmd}, pgm : Cmds \cup {NoCmd}]
  /\ upset \in BOOLEAN

\* From the scan on, every command goes out in the protocol the chip listens
\* to, whatever failed in earlier probes and wherever the host was restarted:
\* no transfer of a later phase meets a chip that does not understand it.
Talking == Phases \ {"off", "reset", "scan", "failed"}

Heard == pc \in Talking => drv.prot = drv.mode /\ Hears(drv.prot)

\* Whether data is read and programmed in word mode, which is the order of the
\* bytes on the bus (mxic_uefc_conf).  8DTRD and PP4B are the only commands with
\* the flag and the only ones of 8D-8D-8D; PP4B serves the other modes as well.
ReadsWords    == drv.mode = "DOPI" /\ tbl.rd_word
ProgramsWords == tbl.pgm_word

\* A part without SPCL_WORD_MODE in 8D-8D-8D: spinor_setup_cmdlist_rd gives 8DTRD
\* word mode all the same (spinor.c:180), switch_mode_opi does not give it to
\* PP4B, and what is read is not in the order in which it was programmed.
OrderLost == drv.mode = "DOPI" /\ ~Part.word

\* A probe that returns MXST_SUCCESS leaves chip and tables as reads and programs
\* need them: the dummy cycles of the part and the setting that goes with them,
\* the quad-enable bit the commands need and no other, programs in word mode
\* for the parts that have it, in 8D-8D-8D only, reads in the same byte order
\* as programs unless OrderLost, and no preamble left on, although the tables
\* are shared with every flash probed before.
InStep ==
  pc = "ready" =>
    /\ tbl.dc[drv.rd][drv.mode] = Part.dc[drv.mode][drv.rd]
    /\ DummySetting # NoSetting => Here[DummyReg] = DummySetting
    /\ drv.mode = "SPI" /\ Part.qe => Here.qe = QuadWanted
    /\ ProgramsWords = (drv.mode = "DOPI" /\ Part.word)
    /\ ~OrderLost => ReadsWords = ProgramsWords
    /\ ~Here.pbe

\* The best mode part and host can both do.
Target == IF HasOpi("DOPI") THEN "DOPI" ELSE IF HasOpi("SOPI") THEN "SOPI" ELSE "SPI"

\* What the driver can follow: a table entry with the configured erase command,
\* whose dummy cycles in SPI name a setting only with SPCL_CR_DC_BIT6_7; a chip
\* that powers up in an octal protocol only if one is possible, because
\* switch_mode_spi does not lead out of it; and an octal host only with double
\* data rate, because CHECK_CL_DOPI does not ask for it where scan_mode does.
Followable ==
  /\ Part.ers["SPI"]
  /\ \A c \in Part.list["SPI"] : Part.dc["SPI"][c].set # NoSetting => Part.crdc
  /\ board[port].boot # "SPI" => Target # "SPI"
  /\ build.io = 8 => build.dtr

\* A probe that meets no fault succeeds and ends in the best mode, whatever
\* protocol an earlier probe, crash or restart of the host left the chip in.
CleanProbe == pc \in {"ready", "failed"} /\ ~upset /\ Followable =>
                pc = "ready" /\ drv.mode = Target
=============================================================================
