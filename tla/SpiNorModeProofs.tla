-------------------------- MODULE SpiNorModeProofs --------------------------
(***************************************************************************)
(* Driver and chip stay in step through every probe: for any parts, hosts  *)
(* and ports, with any transfer failing and the host restarting at any     *)
(* moment.                                                                 *)
(***************************************************************************)
EXTENDS SpiNorMode, TLAPS

\* The phases in which the tables are filled, an octal mode is being entered,
\* the commands are chosen, and the dummy cycles and the quad bit are set.
Filled   == {"sel", "leave", "left", "enter", "entered", "dc", "qe", "cali",
             "train", "untrain", "ready"}
Entering == {"leave", "left", "enter", "entered"}
Chosen   == {"dc", "qe", "cali", "train", "untrain", "ready"}
Clocked  == Chosen \ {"dc"}
Quaded   == Clocked \ {"qe"}

\* The shared table holds this part's dummy cycles.
TablesFilled ==
  pc \in Filled =>
    /\ \A m \in Modes : \A c \in Listed(m) :
         CmdInfo[c].kind = "rd" => tbl.dc[c][m] = Part.dc[m][c]
    /\ ~WordClash("DOPI") => tbl.rd_word

\* An octal mode is entered only when both sides can do it.
TargetPossible ==
  /\ pc \in Entering => tgt # "SPI" /\ HasOpi(tgt)
  /\ pc = "entered" => drv.mode = tgt

\* The commands are the part's, and the word mode of programs is too.
CommandsChosen ==
  pc \in Chosen =>
    /\ drv.rd \in Listed(drv.mode)
    /\ CmdInfo[drv.rd].kind = "rd"
    /\ tbl.pgm_word = (drv.mode = "DOPI" /\ Part.word)
    /\ drv.mode = "DOPI" => ~WordClash("DOPI")

\* The registers follow the commands.
ChipFollows ==
  /\ pc \in Clocked => (DummySetting # NoSetting => Here[DummyReg] = DummySetting)
  /\ pc \in Quaded => (drv.mode = "SPI" /\ Part.qe => Here.qe = QuadWanted)
  /\ pc = "ready" => ~Here.pbe

\* Nothing says "done" too early, and a part without preamble has none on.
NotYet ==
  /\ pc \notin Clocked \cup {"failed"} => ~drv.set_dc
  /\ \A p \in Ports : ~board[p].part.pre => ~chip[p].pbe

OnBoards == board \in Boards /\ build \in Builds

IInv == /\ TypeOK /\ Heard /\ OnBoards
        /\ TablesFilled /\ TargetPossible /\ CommandsChosen /\ ChipFollows /\ NotYet

-----------------------------------------------------------------------------
(***************************************************************************)
(* The highest bit of a command list that has one.                         *)
(***************************************************************************)
LEMMA TopExists ==
  ASSUME NEW m \in Modes, NEW k, NEW c \in Listed(m), CmdInfo[c].kind = k,
         Listed(m) \subseteq Cmds
  PROVE  Fastest(m, k) \in Listed(m) /\ CmdInfo[Fastest(m, k)].kind = k
<1>1. PICK t \in Listed(m) :
        /\ CmdInfo[t].kind = CmdInfo[c].kind
        /\ \A d \in Listed(m) : CmdInfo[d].kind = CmdInfo[c].kind =>
             CmdInfo[d].rank <= CmdInfo[t].rank
  BY RankAssumption
<1>2. \E x \in Listed(m) :
        /\ CmdInfo[x].kind = k
        /\ \A d \in Listed(m) : CmdInfo[d].kind = k => CmdInfo[d].rank <= CmdInfo[x].rank
  BY <1>1
<1> QED
  BY <1>2, Zenon DEF Fastest

LEMMA ListedTyped ==
  ASSUME TypeOK, NEW m \in Modes
  PROVE  Listed(m) \subseteq Cmds
<1>1. Part.list \in [Modes -> SUBSET Cmds]
  BY DEF TypeOK, Part, PartType
<1> QED
  BY <1>1 DEF Listed

\* In SPI there is a command of either kind that any host has the lines for.
LEMMA PlainListed ==
  ASSUME TypeOK, OnBoards, NEW k \in {"rd", "pgm"}
  PROVE  \E c \in Listed("SPI") : CmdInfo[c].kind = k
<1>1. PICK c \in Part.list["SPI"] : CmdInfo[c].kind = k /\ CmdInfo[c].io["SPI"] <= 1
  BY PlainAssumption DEF OnBoards, Part, TypeOK
<1>2. c \in Cmds
  BY DEF TypeOK, Part, PartType, Modes
<1>3. build.io >= 1 /\ build.io \in Nat
  BY DEF TypeOK, BuildType
<1>4. CmdInfo[c].io["SPI"] \in Nat
  BY <1>2, CmdAssumption DEF InfoType, Modes
<1>5. Able(c, "SPI")
  BY <1>1, <1>3, <1>4 DEF Able
<1>6. ~WordClash("SPI")
  BY DEF WordClash
<1> QED
  BY <1>1, <1>5, <1>6 DEF Listed

\* What Choose(m) settles.
LEMMA ChooseSettles ==
  ASSUME TypeOK, OnBoards, NEW m \in Modes, m = "SPI" \/ HasOpi(m)
  PROVE  /\ Fastest(m, "rd") \in Listed(m)
         /\ CmdInfo[Fastest(m, "rd")].kind = "rd"
         /\ Fastest(m, "rd") \in Cmds
         /\ Fastest(m, "pgm") \in Cmds
<1>0. Listed(m) \subseteq Cmds
  BY ListedTyped
<1>1. \E c \in Listed(m) : CmdInfo[c].kind = "rd"
  <2>1. CASE m = "SPI"
    BY <2>1, PlainListed
  <2>2. CASE HasOpi(m)
    <3>1. OpiRead(m) \in Listed(m)
      BY <2>2 DEF HasOpi
    <3>2. OpiRead(m) \in Cmds \cap {"8READ", "8DTRD"}
      BY <3>1, <1>0 DEF OpiRead
    <3> QED
      BY <3>1, <3>2, OpiReadAssumption
  <2> QED
    BY <2>1, <2>2
<1>2. \E c \in Listed(m) : CmdInfo[c].kind = "pgm"
  <2>1. CASE m = "SPI"
    BY <2>1, PlainListed
  <2>2. CASE HasOpi(m)
    BY <2>2 DEF HasOpi
  <2> QED
    BY <2>1, <2>2
<1>3. Fastest(m, "rd") \in Listed(m) /\ CmdInfo[Fastest(m, "rd")].kind = "rd"
  BY <1>0, <1>1, TopExists
<1>4. Fastest(m, "pgm") \in Listed(m)
  BY <1>0, <1>2, TopExists
<1> QED
  BY <1>0, <1>3, <1>4

-----------------------------------------------------------------------------
LEMMA RestartedTyped ==
  ASSUME NEW p \in Ports, NEW q \in BOOLEAN, TypeOK
  PROVE  Restarted(p, q) \in ChipType
BY DEF TypeOK, Restarted, ChipType, Settings

LEMMA CompiledTyped ==
  Compiled \in [dc : [Cmds -> [Modes -> Dummies]], rd_word : BOOLEAN, pgm_word : BOOLEAN]
BY DEF Compiled, Dummies, Settings

LEMMA FreshTyped ==
  Fresh \in [mode : Modes, prot : Modes, set_dc : BOOLEAN,
             rd : Cmds \cup {NoCmd}, pgm : Cmds \cup {NoCmd}]
BY DEF Fresh, Modes

LEMMA CopiedTyped ==
  ASSUME TypeOK
  PROVE  CopiedDummies \in [Cmds -> [Modes -> Dummies]]
<1>1. Part.dc \in [Modes -> [Cmds -> Dummies]]
  BY DEF TypeOK, Part, PartType
<1>2. tbl.dc \in [Cmds -> [Modes -> Dummies]]
  BY DEF TypeOK
<1> QED
  BY <1>1, <1>2 DEF CopiedDummies

LEMMA InitIInv == Init => IInv
<1> SUFFICES ASSUME Init
             PROVE  IInv
  OBVIOUS
<1>1. board \in [Ports -> [part : PartType, boot : Modes]] /\ build \in BuildType
  BY BoardAssumption, BuildAssumption DEF Init
<1>2. PICK q \in [Ports -> BOOLEAN] : chip = [p \in Ports |-> Restarted(p, q[p])]
  BY DEF Init
<1>3. \A p \in Ports : \A r \in BOOLEAN : Restarted(p, r) \in ChipType
  <2> SUFFICES ASSUME NEW p \in Ports, NEW r \in BOOLEAN
               PROVE  Restarted(p, r) \in ChipType
    OBVIOUS
  <2>1. board[p].boot \in Modes
    BY <1>1
  <2> QED
    BY <2>1 DEF Restarted, ChipType, Settings
<1>4. chip \in [Ports -> ChipType]
  BY <1>2, <1>3
<1>5. TypeOK
  BY <1>1, <1>4, CompiledTyped, FreshTyped DEF Init, TypeOK, Phases, Modes
<1>6. \A p \in Ports : ~chip[p].pbe
  BY <1>2 DEF Restarted
<1>7. pc = "off" /\ ~drv.set_dc
  BY DEF Init, Fresh
<1> QED
  BY <1>5, <1>6, <1>7 DEF IInv, Heard, Talking, OnBoards, Init, TablesFilled, Filled,
     TargetPossible, Entering, CommandsChosen, Chosen, ChipFollows, Clocked, Quaded, NotYet

-----------------------------------------------------------------------------
\* Writing one register of the chip keeps every chip of its type.
LEMMA WrittenTyped ==
  ASSUME TypeOK
  PROVE  /\ \A m \in Modes : Written("bus", m) \in [Ports -> ChipType]
         /\ \A r \in {"crdc", "cr2dc"}, v \in Settings : Written(r, v) \in [Ports -> ChipType]
         /\ \A r \in {"pbe", "qe"}, v \in BOOLEAN : Written(r, v) \in [Ports -> ChipType]
BY DEF TypeOK, Written, ChipType

LEMMA DummySettingTyped ==
  ASSUME TypeOK, drv.rd \in Cmds
  PROVE  DummySetting \in Settings /\ DummyReg \in {"crdc", "cr2dc"}
<1>1. tbl.dc \in [Cmds -> [Modes -> Dummies]] /\ drv.mode \in Modes
  BY DEF TypeOK
<1>2. tbl.dc[drv.rd][drv.mode] \in Dummies
  BY <1>1
<1> QED
  BY <1>2 DEF DummySetting, DummyReg, Dummies

LEMMA ReadTyped ==
  ASSUME TypeOK, CommandsChosen, pc \in Chosen
  PROVE  drv.rd \in Cmds
BY ListedTyped DEF CommandsChosen, TypeOK

LEMMA TypeStep == IInv /\ [Next]_vars => TypeOK'
<1> SUFFICES ASSUME IInv, [Next]_vars
             PROVE  TypeOK'
  OBVIOUS
<1> USE DEF IInv
<1> DEFINE DrvType == [mode : Modes, prot : Modes, set_dc : BOOLEAN,
                       rd : Cmds \cup {NoCmd}, pgm : Cmds \cup {NoCmd}]
           TblType == [dc : [Cmds -> [Modes -> Dummies]],
                       rd_word : BOOLEAN, pgm_word : BOOLEAN]
<1>0. SUFFICES /\ fixed' = fixed
               /\ chip' \in [Ports -> ChipType]
               /\ tbl' \in TblType
               /\ pc' \in Phases /\ port' \in Ports /\ tgt' \in Modes
               /\ drv' \in DrvType
               /\ upset' \in BOOLEAN
  BY DEF TypeOK, fixed
<1>a. /\ chip \in [Ports -> ChipType] /\ tbl \in TblType /\ drv \in DrvType
      /\ pc \in Phases /\ port \in Ports /\ tgt \in Modes /\ upset \in BOOLEAN
  BY DEF TypeOK
<1>f. Fresh \in DrvType /\ Compiled \in TblType
  BY FreshTyped, CompiledTyped
<1>m. {"SPI", "SOPI", "DOPI"} \subseteq Modes
  BY DEF Modes
<1>g. \A w \in Phases : Go(w) => pc' \in Phases /\ upset' \in BOOLEAN
  BY <1>a DEF Go
<1>h. GiveUp => pc' \in Phases /\ upset' \in BOOLEAN
  BY DEF GiveUp, Phases
<1>w. /\ \A m \in Modes : Written("bus", m) \in [Ports -> ChipType]
      /\ \A r \in {"crdc", "cr2dc"}, v \in Settings : Written(r, v) \in [Ports -> ChipType]
      /\ \A r \in {"pbe", "qe"}, v \in BOOLEAN : Written(r, v) \in [Ports -> ChipType]
  BY WrittenTyped
<1>c. ASSUME NEW m \in Modes, m = "SPI" \/ HasOpi(m), Choose(m)
      PROVE  drv' \in DrvType /\ tbl' \in TblType
  <2>1. Fastest(m, "rd") \in Cmds /\ Fastest(m, "pgm") \in Cmds
    BY <1>c, ChooseSettles
  <2>2. drv' \in DrvType
    BY <2>1, <1>a, <1>c DEF Choose
  <2>3. DEFINE b == (m = "DOPI" /\ Part.word)
  <2>4. Part.word \in BOOLEAN
    BY DEF TypeOK, Part, PartType
  <2>5. b \in BOOLEAN
    BY <2>4, Zenon
  <2>6. tbl' = [tbl EXCEPT !.pgm_word = b]
    BY <1>c DEF Choose
  <2> HIDE DEF b
  <2>7. tbl' \in TblType
    BY <2>5, <2>6, <1>a
  <2> QED
    BY <2>2, <2>7
<1>1. CASE \E p \in Ports : Setup(p)
  BY <1>1, <1>a, <1>f, <1>m DEF Setup, Phases
<1>2. CASE Reset
  <2>1. Restarted(port, chip[port].qe) \in ChipType
    BY <1>a, RestartedTyped DEF ChipType
  <2>2. [chip EXCEPT ![port] = Restarted(port, @.qe)] \in [Ports -> ChipType]
    BY <2>1, <1>a
  <2>3. chip' \in [Ports -> ChipType]
    BY <1>2, <2>2, <1>a DEF Reset
  <2>4. tgt' \in Modes
    BY <1>2, <1>a DEF Reset, Modes
  <2>5. drv' \in DrvType
    BY <1>2, <1>a DEF Reset
  <2>6. pc' \in Phases /\ upset' \in BOOLEAN
    BY <1>2, <1>g, <1>h DEF Reset, Phases
  <2> QED
    BY <1>0, <1>2, <1>a, <2>3, <2>4, <2>5, <2>6 DEF Reset
<1>3. CASE ScanHit
  <2>1. pc' \in Phases /\ upset' \in BOOLEAN
    BY <1>3, <1>g DEF ScanHit, Phases
  <2> QED
    BY <1>0, <1>3, <1>a, <2>1 DEF ScanHit
<1>4. CASE ScanMiss
  <2>1. Hears(tgt) \in BOOLEAN
    BY DEF Hears
  <2>2. upset' \in BOOLEAN
    BY <1>4, <2>1, <1>a, Zenon DEF ScanMiss
  <2>3. pc' \in Phases /\ tgt' \in Modes
    BY <1>4, <1>a DEF ScanMiss, Phases, Modes
  <2> QED
    BY <1>0, <1>4, <1>a, <2>2, <2>3 DEF ScanMiss
<1>5. CASE ScanError
  BY <1>0, <1>5, <1>a, <1>h DEF ScanError
<1>6. CASE ReadInfo
  <2>1. pc' \in Phases /\ upset' \in BOOLEAN
    BY <1>6, <1>g, <1>h DEF ReadInfo, Phases
  <2> QED
    BY <1>0, <1>6, <1>a, <2>1 DEF ReadInfo
<1>7. CASE SetupLists
  <2>1. pc' \in Phases /\ upset' \in BOOLEAN
    BY <1>7, <1>g, <1>h DEF SetupLists, Phases
  <2>2. CopiedDummies \in [Cmds -> [Modes -> Dummies]]
    BY CopiedTyped
  <2>3. tbl' \in TblType
    BY <1>7, <2>2, <1>a DEF SetupLists
  <2> QED
    BY <1>0, <1>7, <1>a, <1>m, <2>1, <2>3 DEF SetupLists
<1>8. CASE PassOver
  <2>1. HasOpi(tgt) \in BOOLEAN
    BY DEF HasOpi
  <2>2. upset' \in BOOLEAN
    BY <1>8, <2>1, <1>a, Zenon DEF PassOver
  <2> QED
    BY <1>0, <1>8, <1>a, <1>m, <2>2 DEF PassOver, NextTarget
<1>9. CASE StartOpi
  <2>1. pc' \in Phases /\ upset' \in BOOLEAN
    BY <1>9, <1>a DEF StartOpi, Phases, Go
  <2> QED
    BY <1>0, <1>9, <1>a, <2>1 DEF StartOpi
<1>10. ASSUME NEW m \in Modes, NEW n \in Phases, SwitchBus(m, n)
       PROVE  /\ chip' \in [Ports -> ChipType] /\ drv' \in DrvType
              /\ pc' \in Phases /\ upset' \in BOOLEAN
  BY <1>10, <1>a, <1>g, <1>h, <1>w DEF SwitchBus
<1>11. CASE LeaveOpi
  <2>1. /\ chip' \in [Ports -> ChipType] /\ drv' \in DrvType
        /\ pc' \in Phases /\ upset' \in BOOLEAN
    BY <1>11, <1>10, <1>m DEF LeaveOpi, Phases
  <2> QED
    BY <1>0, <1>11, <1>a, <2>1 DEF LeaveOpi
<1>12. CASE EnterOpi
  <2>1. /\ chip' \in [Ports -> ChipType] /\ drv' \in DrvType
        /\ pc' \in Phases /\ upset' \in BOOLEAN
    BY <1>12, <1>10, <1>a DEF EnterOpi, Phases
  <2> QED
    BY <1>0, <1>12, <1>a, <2>1 DEF EnterOpi
<1>13. CASE CheckLeft
  <2>1. pc' \in Phases /\ upset' \in BOOLEAN /\ tgt' \in Modes
    BY <1>13, <1>a, <1>g, <1>h, <1>m DEF CheckLeft, OtherId, Phases, NextTarget
  <2> QED
    BY <1>0, <1>13, <1>a, <2>1 DEF CheckLeft, OtherId
<1>14. CASE CheckEntered
  <2>1. pc' \in Phases /\ upset' \in BOOLEAN /\ tgt' \in Modes
    BY <1>14, <1>a, <1>g, <1>h, <1>m DEF CheckEntered, OtherId, Phases, NextTarget
  <2>2. HasOpi(tgt)
    BY <1>14 DEF TargetPossible, CheckEntered, Entering
  <2>3. Choose(tgt) => drv' \in DrvType /\ tbl' \in TblType
    BY <2>2, <1>a, <1>c
  <2>4. drv' \in DrvType /\ tbl' \in TblType
    BY <1>14, <2>3, <1>a DEF CheckEntered, OtherId
  <2> QED
    BY <1>0, <1>14, <1>a, <2>1, <2>4 DEF CheckEntered, OtherId
<1>15. CASE SelectSpi
  <2>1. pc' \in Phases /\ upset' \in BOOLEAN
    BY <1>15, <1>g, <1>h DEF SelectSpi, Phases
  <2>2. Choose("SPI") => drv' \in DrvType /\ tbl' \in TblType
    BY <1>c, <1>m
  <2>3. drv' \in DrvType /\ tbl' \in TblType
    BY <1>15, <2>2, <1>a, <1>m DEF SelectSpi
  <2> QED
    BY <1>0, <1>15, <1>a, <2>1, <2>3 DEF SelectSpi
<1>16. CASE SetDummies
  <2>1. pc' \in Phases /\ upset' \in BOOLEAN
    BY <1>16, <1>g, <1>h DEF SetDummies, Phases
  <2>2. pc \in Chosen
    BY <1>16 DEF SetDummies, Chosen
  <2>3. DummySetting \in Settings /\ DummyReg \in {"crdc", "cr2dc"}
    BY <2>2, ReadTyped, DummySettingTyped
  <2>4. chip' \in [Ports -> ChipType]
    BY <1>16, <2>3, <1>a, <1>w DEF SetDummies, MaybeWritten
  <2>5. drv' \in DrvType
    BY <1>16, <1>a DEF SetDummies
  <2> QED
    BY <1>0, <1>16, <1>a, <2>1, <2>4, <2>5 DEF SetDummies
<1>17. CASE SetQuad
  <2>1. pc' \in Phases /\ upset' \in BOOLEAN
    BY <1>17, <1>g, <1>h DEF SetQuad, Phases
  <2>2. QuadWanted \in BOOLEAN
    BY DEF QuadWanted, UsesQuad
  <2>3. Written("qe", QuadWanted) \in [Ports -> ChipType]
    BY <2>2, <1>w
  <2>4. chip' \in [Ports -> ChipType]
    BY <1>17, <2>3, <1>a DEF SetQuad, MaybeWritten
  <2> QED
    BY <1>0, <1>17, <1>a, <2>1, <2>4 DEF SetQuad
<1>18. CASE StartTraining
  <2>1. pc' \in Phases /\ upset' \in BOOLEAN
    BY <1>18, <1>g, <1>h DEF StartTraining, Phases
  <2>2. chip' \in [Ports -> ChipType]
    BY <1>18, <1>a, <1>w DEF StartTraining, MaybeWritten
  <2> QED
    BY <1>0, <1>18, <1>a, <2>1, <2>2 DEF StartTraining
<1>19. CASE Train
  <2>1. pc' \in Phases /\ upset' \in BOOLEAN
    BY <1>19, <1>g, <1>h DEF Train, Phases
  <2> QED
    BY <1>0, <1>19, <1>a, <2>1 DEF Train
<1>20. CASE StopTraining
  <2>1. pc' \in Phases /\ upset' \in BOOLEAN
    BY <1>20, <1>g, <1>h DEF StopTraining, Phases
  <2>2. chip' \in [Ports -> ChipType]
    BY <1>20, <1>a, <1>w DEF StopTraining, MaybeWritten
  <2> QED
    BY <1>0, <1>20, <1>a, <2>1, <2>2 DEF StopTraining
<1>21. CASE Release
  BY <1>0, <1>21, <1>a, <1>f, <1>m DEF Release, Phases
<1>22. CASE Reboot
  BY <1>0, <1>22, <1>a, <1>f, <1>m DEF Reboot, Phases
<1>23. CASE PowerCycle
  <2>1. \A p \in Ports : Restarted(p, chip[p].qe) \in ChipType
    BY <1>a, RestartedTyped DEF ChipType
  <2>2. chip' \in [Ports -> ChipType]
    BY <1>23, <2>1 DEF PowerCycle
  <2> QED
    BY <1>0, <1>23, <1>a, <1>f, <1>m, <2>2 DEF PowerCycle, Phases
<1>24. CASE UNCHANGED vars
  BY <1>0, <1>24, <1>a DEF vars, fixed
<1> QED
  BY <1>1, <1>2, <1>3, <1>4, <1>5, <1>6, <1>7, <1>8, <1>9, <1>11, <1>12, <1>13, <1>14,
     <1>15, <1>16, <1>17, <1>18, <1>19, <1>20, <1>21, <1>22, <1>23, <1>24 DEF Next

-----------------------------------------------------------------------------
\* What the part and the host can do does not change while one is probed.
LEMMA SamePart ==
  ASSUME fixed' = fixed, port' = port
  PROVE  /\ Part' = Part
         /\ \A m \in Modes : Listed(m)' = Listed(m)
         /\ \A m \in Modes : HasOpi(m)' <=> HasOpi(m)
         /\ WordClash("DOPI")' <=> WordClash("DOPI")
<1>1. Part' = Part /\ build' = build
  BY DEF fixed, Part
<1>2. ASSUME NEW m \in Modes
      PROVE  Listed(m)' = Listed(m) /\ (HasOpi(m)' <=> HasOpi(m))
  <2>1. Listed(m)' = Listed(m)
    BY <1>1 DEF Listed, Able, WordClash
  <2> QED
    BY <1>1, <2>1 DEF HasOpi
<1> QED
  BY <1>1, <1>2 DEF WordClash

\* A write changes one register of one chip.
LEMMA WrittenOnly ==
  ASSUME TypeOK, NEW r \in {"bus", "crdc", "cr2dc", "pbe", "qe"}, NEW v
  PROVE  /\ Written(r, v)[port][r] = v
         /\ \A s \in {"bus", "crdc", "cr2dc", "pbe", "qe"} \ {r} :
              Written(r, v)[port][s] = chip[port][s]
         /\ \A p \in Ports \ {port} : Written(r, v)[p] = chip[p]
         /\ \A p \in Ports : \A s \in {"bus", "crdc", "cr2dc", "pbe", "qe"} \ {r} :
              Written(r, v)[p][s] = chip[p][s]
BY DEF TypeOK, Written, ChipType

LEMMA HeardStep == IInv /\ [Next]_vars => Heard'
<1> SUFFICES ASSUME IInv, [Next]_vars, pc' \in Talking
             PROVE  drv'.prot = drv'.mode /\ chip'[port'].bus = drv'.prot
  BY DEF Heard, Hears, Here
<1> USE DEF IInv
<1>t. TypeOK
  OBVIOUS
<1>a. drv \in [mode : Modes, prot : Modes, set_dc : BOOLEAN,
               rd : Cmds \cup {NoCmd}, pgm : Cmds \cup {NoCmd}]
  BY DEF TypeOK
<1>b. pc \in Talking => drv.prot = drv.mode /\ chip[port].bus = drv.prot
  BY DEF Heard, Hears, Here
<1>1. CASE pc \in Talking /\ drv' = drv /\ chip' = chip /\ port' = port
  BY <1>1, <1>b
<1>2. CASE ScanHit
  BY <1>2, <1>a DEF ScanHit, Hears, Here
<1>3. ASSUME NEW m \in Modes, NEW n, pc \in Talking, port' = port, SwitchBus(m, n)
      PROVE  drv'.prot = drv'.mode /\ chip'[port'].bus = drv'.prot
  <2>1. Hears(drv.prot)
    BY <1>3, <1>b DEF Hears, Here
  <2>2. Written("bus", m)[port].bus = m
    BY <1>t, WrittenOnly
  <2>3. pc' # "failed"
    BY DEF Talking
  <2>4. chip' = Written("bus", m) /\ drv' = [drv EXCEPT !.mode = m, !.prot = m]
    BY <1>3, <2>1, <2>3 DEF SwitchBus, GiveUp
  <2> QED
    BY <1>3, <1>a, <2>2, <2>4
<1>4. CASE LeaveOpi
  BY <1>4, <1>3 DEF LeaveOpi, Talking, Phases, Modes
<1>5. CASE EnterOpi
  BY <1>5, <1>3, <1>t DEF EnterOpi, Talking, Phases, TypeOK
<1>6. CASE CheckEntered
  <2>1. tgt = drv.mode /\ pc \in Talking
    BY <1>6 DEF CheckEntered, OtherId, TargetPossible, Talking, Phases
  <2>2. drv'.prot = drv.mode /\ drv'.mode = drv.mode
    BY <1>6, <2>1, <1>a, <1>b DEF CheckEntered, OtherId, Choose
  <2> QED
    BY <1>6, <2>1, <2>2, <1>b DEF CheckEntered, OtherId
<1>7. CASE SelectSpi
  <2>1. drv'.prot = "SPI" /\ drv'.mode = "SPI"
    BY <1>7, <1>a DEF SelectSpi, Choose
  <2>2. Hears("SPI")
    BY <1>7 DEF SelectSpi, Talking, Go
  <2> QED
    BY <1>7, <2>1, <2>2 DEF SelectSpi, Hears, Here
<1>8. CASE SetDummies
  <2>1. pc \in Talking /\ pc \in Chosen
    BY <1>8 DEF SetDummies, Talking, Phases, Chosen
  <2>2. DummyReg \in {"crdc", "cr2dc"}
    BY DEF DummyReg
  <2>3. chip'[port].bus = chip[port].bus
    BY <1>8, <1>t, <2>2, WrittenOnly DEF SetDummies, MaybeWritten
  <2>4. drv'.prot = drv.prot /\ drv'.mode = drv.mode
    BY <1>8, <1>a DEF SetDummies
  <2> QED
    BY <1>8, <1>b, <2>1, <2>3, <2>4 DEF SetDummies
<1>9. CASE SetQuad
  <2>1. chip'[port].bus = chip[port].bus
    BY <1>9, <1>t, WrittenOnly DEF SetQuad, MaybeWritten
  <2> QED
    BY <1>9, <1>b, <2>1 DEF SetQuad, Talking, Phases
<1>10. CASE StartTraining \/ StopTraining
  <2>1. \A v \in BOOLEAN : Written("pbe", v)[port].bus = chip[port].bus
    BY <1>t, WrittenOnly
  <2>2. chip'[port].bus = chip[port].bus
    BY <1>10, <2>1 DEF StartTraining, StopTraining, MaybeWritten
  <2> QED
    BY <1>10, <1>b, <2>2 DEF StartTraining, StopTraining, Talking, Phases
<1>11. CASE ReadInfo \/ SetupLists \/ PassOver \/ StartOpi \/ CheckLeft \/ Train
  BY <1>11, <1>1 DEF ReadInfo, SetupLists, PassOver, StartOpi, CheckLeft, Train,
     Talking, Phases
<1>12. CASE \/ \E p \in Ports : Setup(p)
            \/ Reset \/ ScanMiss \/ ScanError \/ Release \/ Reboot \/ PowerCycle
  BY <1>12 DEF Setup, Reset, ScanMiss, ScanError, Release, Reboot, PowerCycle,
     Go, GiveUp, Talking
<1>13. CASE UNCHANGED vars
  BY <1>13, <1>1 DEF vars
<1> QED
  BY <1>2, <1>4, <1>5, <1>6, <1>7, <1>8, <1>9, <1>10, <1>11, <1>12, <1>13 DEF Next

LEMMA TablesStep == IInv /\ [Next]_vars => TablesFilled'
<1> SUFFICES ASSUME IInv, [Next]_vars, pc' \in Filled
             PROVE  /\ \A m \in Modes : \A c \in Listed(m)' :
                         CmdInfo[c].kind = "rd" => tbl'.dc[c][m] = Part'.dc[m][c]
                    /\ ~WordClash("DOPI")' => tbl'.rd_word
  BY DEF TablesFilled
<1> USE DEF IInv
<1> DEFINE Goal == /\ \A m \in Modes : \A c \in Listed(m)' :
                        CmdInfo[c].kind = "rd" => tbl'.dc[c][m] = Part'.dc[m][c]
                   /\ ~WordClash("DOPI")' => tbl'.rd_word
<1>a. tbl \in [dc : [Cmds -> [Modes -> Dummies]], rd_word : BOOLEAN, pgm_word : BOOLEAN]
  BY DEF TypeOK
<1>1. ASSUME pc \in Filled, fixed' = fixed, port' = port,
             tbl'.dc = tbl.dc, tbl'.rd_word = tbl.rd_word
      PROVE  Goal
  BY <1>1, SamePart DEF TablesFilled
<1>2. CASE SetupLists
  <2>1. fixed' = fixed /\ port' = port
    BY <1>2 DEF SetupLists
  <2>2. /\ tbl'.dc = CopiedDummies
        /\ tbl'.rd_word = IF WordClash("DOPI") THEN tbl.rd_word ELSE TRUE
    BY <1>2, <1>a DEF SetupLists, Go, Filled
  <2>3. ASSUME NEW m \in Modes, NEW c \in Listed(m), CmdInfo[c].kind = "rd"
        PROVE  tbl'.dc[c][m] = Part.dc[m][c]
    <3>1. c \in Cmds /\ c \in Part.list[m] /\ Able(c, m)
      BY <2>3, ListedTyped DEF Listed
    <3> QED
      BY <3>1, <2>2, <2>3 DEF CopiedDummies
  <2> QED
    BY <2>1, <2>2, <2>3, SamePart
<1>3. CASE CheckEntered
  <2>1. tbl'.dc = tbl.dc /\ tbl'.rd_word = tbl.rd_word
    BY <1>3, <1>a DEF CheckEntered, OtherId, Choose
  <2> QED
    BY <1>1, <1>3, <2>1 DEF CheckEntered, OtherId, Filled
<1>4. CASE SelectSpi
  <2>1. tbl'.dc = tbl.dc /\ tbl'.rd_word = tbl.rd_word
    BY <1>4, <1>a DEF SelectSpi, Choose
  <2> QED
    BY <1>1, <1>4, <2>1 DEF SelectSpi, Filled
<1>5. CASE PassOver \/ StartOpi \/ LeaveOpi \/ EnterOpi \/ CheckLeft
  BY <1>1, <1>5 DEF PassOver, StartOpi, LeaveOpi, EnterOpi, CheckLeft, Filled
<1>6. CASE SetDummies \/ SetQuad \/ StartTraining \/ Train \/ StopTraining
  BY <1>1, <1>6 DEF SetDummies, SetQuad, StartTraining, Train, StopTraining, Filled
<1>7. CASE \/ \E p \in Ports : Setup(p)
           \/ Reset \/ ScanHit \/ ScanMiss \/ ScanError \/ ReadInfo
           \/ Release \/ Reboot \/ PowerCycle
  BY <1>7 DEF Setup, Reset, ScanHit, ScanMiss, ScanError, ReadInfo, Release, Reboot,
     PowerCycle, Go, GiveUp, Filled
<1>8. CASE UNCHANGED vars
  BY <1>1, <1>8 DEF vars, fixed
<1> QED
  BY <1>2, <1>3, <1>4, <1>5, <1>6, <1>7, <1>8 DEF Next

LEMMA TargetStep == IInv /\ [Next]_vars => TargetPossible'
<1> SUFFICES ASSUME IInv, [Next]_vars, pc' \in Entering
             PROVE  /\ tgt' # "SPI" /\ HasOpi(tgt)'
                    /\ pc' = "entered" => drv'.mode = tgt'
  BY DEF TargetPossible, Entering
<1> USE DEF IInv
<1>a. drv.mode \in Modes /\ tgt \in Modes
      /\ drv \in [mode : Modes, prot : Modes, set_dc : BOOLEAN,
                  rd : Cmds \cup {NoCmd}, pgm : Cmds \cup {NoCmd}]
  BY DEF TypeOK
<1>1. ASSUME fixed' = fixed, port' = port, tgt' = tgt, HasOpi(tgt)
      PROVE  HasOpi(tgt)'
  <2>1. Part' = Part /\ build' = build
    BY <1>1, SamePart DEF fixed
  <2>2. Listed(tgt)' = Listed(tgt)
    BY <2>1, <1>1 DEF Listed, Able, WordClash
  <2> QED
    BY <2>1, <2>2, <1>1 DEF HasOpi
<1>2. CASE StartOpi
  <2>1. tgt # "SPI" /\ HasOpi(tgt) /\ pc' # "entered" /\ tgt' = tgt /\ fixed' = fixed
        /\ port' = port
    BY <1>2 DEF StartOpi, Go
  <2> QED
    BY <2>1, <1>1
<1>3. CASE LeaveOpi
  <2>1. tgt # "SPI" /\ HasOpi(tgt)
    BY <1>3 DEF LeaveOpi, TargetPossible, Entering
  <2>2. pc' # "entered" /\ tgt' = tgt /\ fixed' = fixed /\ port' = port
    BY <1>3 DEF LeaveOpi, SwitchBus, Go, GiveUp
  <2> QED
    BY <2>1, <2>2, <1>1
<1>4. CASE CheckLeft
  <2>1. tgt # "SPI" /\ HasOpi(tgt)
    BY <1>4 DEF CheckLeft, OtherId, TargetPossible, Entering
  <2>2. pc' # "entered" /\ tgt' = tgt /\ fixed' = fixed /\ port' = port
    BY <1>4 DEF CheckLeft, OtherId, Go, GiveUp, Entering
  <2> QED
    BY <2>1, <2>2, <1>1
<1>5. CASE EnterOpi
  <2>1. tgt # "SPI" /\ HasOpi(tgt)
    BY <1>5 DEF EnterOpi, TargetPossible, Entering
  <2>2. drv'.mode = tgt /\ tgt' = tgt /\ fixed' = fixed /\ port' = port
    BY <1>5, <1>a DEF EnterOpi, SwitchBus, Go, GiveUp, Entering
  <2> QED
    BY <2>1, <2>2, <1>1
<1>6. CASE \/ \E p \in Ports : Setup(p)
           \/ Reset \/ ScanHit \/ ScanMiss \/ ScanError \/ ReadInfo \/ SetupLists
           \/ PassOver \/ CheckEntered \/ SelectSpi
  BY <1>6 DEF Setup, Reset, ScanHit, ScanMiss, ScanError, ReadInfo, SetupLists, PassOver,
     CheckEntered, OtherId, SelectSpi, Go, GiveUp, Entering
<1>7. CASE \/ SetDummies \/ SetQuad \/ StartTraining \/ Train \/ StopTraining
           \/ Release \/ Reboot \/ PowerCycle
  BY <1>7 DEF SetDummies, SetQuad, StartTraining, Train, StopTraining, Release, Reboot,
     PowerCycle, Go, GiveUp, Entering
<1>8. CASE UNCHANGED vars
  <2>1. tgt # "SPI" /\ HasOpi(tgt) /\ (pc = "entered" => drv.mode = tgt)
    BY <1>8 DEF vars, TargetPossible
  <2> QED
    BY <1>1, <1>8, <2>1 DEF vars, fixed
<1> QED
  BY <1>2, <1>3, <1>4, <1>5, <1>6, <1>7, <1>8 DEF Next

LEMMA CommandsStep == IInv /\ [Next]_vars => CommandsChosen'
<1> SUFFICES ASSUME IInv, [Next]_vars, pc' \in Chosen
             PROVE  /\ drv'.rd \in Listed(drv.mode)'
                    /\ CmdInfo[drv'.rd].kind = "rd"
                    /\ tbl'.pgm_word = (drv'.mode = "DOPI" /\ Part'.word)
                    /\ drv'.mode = "DOPI" => ~WordClash("DOPI")'
  BY DEF CommandsChosen
<1> USE DEF IInv
<1> DEFINE Goal == /\ drv'.rd \in Listed(drv.mode)'
                   /\ CmdInfo[drv'.rd].kind = "rd"
                   /\ tbl'.pgm_word = (drv'.mode = "DOPI" /\ Part'.word)
                   /\ drv'.mode = "DOPI" => ~WordClash("DOPI")'
<1>a. /\ drv \in [mode : Modes, prot : Modes, set_dc : BOOLEAN,
                  rd : Cmds \cup {NoCmd}, pgm : Cmds \cup {NoCmd}]
      /\ tbl \in [dc : [Cmds -> [Modes -> Dummies]], rd_word : BOOLEAN, pgm_word : BOOLEAN]
      /\ tgt \in Modes
  BY DEF TypeOK
<1>l. ASSUME fixed' = fixed, port' = port, drv'.mode \in Modes
      PROVE  Listed(drv.mode)' = Listed(drv'.mode) /\ Part' = Part
  <2>1. Part' = Part /\ build' = build
    BY <1>l, SamePart DEF fixed
  <2> QED
    BY <2>1 DEF Listed, Able, WordClash
<1>1. ASSUME pc \in Chosen, fixed' = fixed, port' = port, tbl' = tbl,
             drv'.rd = drv.rd, drv'.mode = drv.mode
      PROVE  Goal
  <2>1. Listed(drv.mode)' = Listed(drv.mode) /\ Part' = Part
    BY <1>1, <1>l, <1>a
  <2> QED
    BY <1>1, <2>1, SamePart DEF CommandsChosen
<1>2. ASSUME NEW m \in Modes, m = "SPI" \/ HasOpi(m), Choose(m),
             fixed' = fixed, port' = port
      PROVE  Goal
  <2>1. drv'.mode = m /\ drv'.rd = Fastest(m, "rd")
    BY <1>2, <1>a DEF Choose
  <2>2. Fastest(m, "rd") \in Listed(m) /\ CmdInfo[Fastest(m, "rd")].kind = "rd"
    BY <1>2, ChooseSettles
  <2>3. Listed(drv.mode)' = Listed(m) /\ Part' = Part
    BY <1>2, <1>l, <2>1
  <2>4. tbl'.pgm_word = (m = "DOPI" /\ Part.word)
    BY <1>2, <1>a DEF Choose
  <2>5. m = "DOPI" => ~WordClash("DOPI")
    BY <1>2 DEF HasOpi, OpiRead, Listed
  <2>6. WordClash("DOPI")' <=> WordClash("DOPI")
    BY <1>2, SamePart
  <2> QED
    BY <2>1, <2>2, <2>3, <2>4, <2>5, <2>6
<1>3. CASE CheckEntered
  <2>1. HasOpi(tgt)
    BY <1>3 DEF CheckEntered, OtherId, TargetPossible, Entering
  <2>2. Choose(tgt) /\ fixed' = fixed /\ port' = port
    BY <1>3 DEF CheckEntered, OtherId, Go, GiveUp, Chosen
  <2> QED
    BY <2>1, <2>2, <1>2, <1>a
<1>4. CASE SelectSpi
  <2>1. Choose("SPI") /\ fixed' = fixed /\ port' = port
    BY <1>4 DEF SelectSpi, Go, GiveUp, Chosen
  <2> QED
    BY <2>1, <1>2 DEF Modes
<1>5. CASE StartOpi
  <2>1. ~drv.set_dc
    BY <1>5 DEF StartOpi, NotYet, Clocked, Chosen
  <2> QED
    BY <1>5, <2>1 DEF StartOpi, Go, Chosen
<1>6. CASE SetDummies
  <2>1. drv'.rd = drv.rd /\ drv'.mode = drv.mode
    BY <1>6, <1>a DEF SetDummies
  <2> QED
    BY <1>6, <2>1, <1>1 DEF SetDummies, Chosen
<1>7. CASE SetQuad \/ StartTraining \/ Train \/ StopTraining
  BY <1>7, <1>1 DEF SetQuad, StartTraining, Train, StopTraining, Chosen
<1>8. CASE \/ \E p \in Ports : Setup(p)
           \/ Reset \/ ScanHit \/ ScanMiss \/ ScanError \/ ReadInfo \/ SetupLists
           \/ PassOver \/ LeaveOpi \/ CheckLeft \/ EnterOpi
           \/ Release \/ Reboot \/ PowerCycle
  BY <1>8 DEF Setup, Reset, ScanHit, ScanMiss, ScanError, ReadInfo, SetupLists, PassOver,
     LeaveOpi, CheckLeft, OtherId, EnterOpi, SwitchBus, Release, Reboot, PowerCycle, Go, GiveUp,
     Chosen
<1>9. CASE UNCHANGED vars
  BY <1>9, <1>1 DEF vars, fixed
<1> QED
  BY <1>3, <1>4, <1>5, <1>6, <1>7, <1>8, <1>9 DEF Next

LEMMA NotYetStep == IInv /\ [Next]_vars => NotYet'
<1> SUFFICES ASSUME IInv, [Next]_vars
             PROVE  /\ pc' \notin Clocked \cup {"failed"} => ~drv'.set_dc
                    /\ \A p \in Ports : ~board'[p].part.pre => ~chip'[p].pbe
  BY DEF NotYet, Clocked, Chosen
<1> USE DEF IInv
<1>t. TypeOK
  OBVIOUS
<1>a. drv \in [mode : Modes, prot : Modes, set_dc : BOOLEAN,
               rd : Cmds \cup {NoCmd}, pgm : Cmds \cup {NoCmd}]
  BY DEF TypeOK
<1>n. /\ pc \notin Clocked \cup {"failed"} => ~drv.set_dc
      /\ \A p \in Ports : ~board[p].part.pre => ~chip[p].pbe
  BY DEF NotYet
<1>b. board' = board
  <2>1. CASE \/ \E p \in Ports : Setup(p)
             \/ Reset \/ ScanHit \/ ScanMiss \/ ScanError \/ ReadInfo \/ SetupLists
    BY <2>1 DEF fixed, Setup, Reset, ScanHit, ScanMiss, ScanError, ReadInfo, SetupLists
  <2>2. CASE \/ PassOver \/ StartOpi \/ LeaveOpi \/ CheckLeft \/ EnterOpi
             \/ CheckEntered \/ SelectSpi
    BY <2>2 DEF fixed, PassOver, StartOpi, LeaveOpi, CheckLeft, EnterOpi, CheckEntered,
       SelectSpi
  <2>3. CASE SetDummies \/ SetQuad \/ StartTraining \/ Train \/ StopTraining
    BY <2>3 DEF fixed, SetDummies, SetQuad, StartTraining, Train, StopTraining
  <2>4. CASE Release \/ Reboot \/ PowerCycle \/ UNCHANGED vars
    BY <2>4 DEF fixed, vars, Release, Reboot, PowerCycle
  <2> QED
    BY <2>1, <2>2, <2>3, <2>4 DEF Next
<1>1. pc' \notin Clocked \cup {"failed"} => ~drv'.set_dc
  <2>1. CASE \/ \E p \in Ports : Setup(p)
             \/ Release \/ Reboot \/ PowerCycle
    BY <2>1 DEF Setup, Release, Reboot, PowerCycle, Fresh
  <2>2. CASE Reset \/ ScanHit \/ ScanMiss \/ ScanError
    BY <2>2, <1>a, <1>n DEF Reset, ScanHit, ScanMiss, ScanError, Clocked, Chosen
  <2>3. CASE ReadInfo \/ SetupLists \/ PassOver \/ StartOpi \/ CheckLeft
    BY <2>3, <1>n DEF ReadInfo, SetupLists, PassOver, StartOpi, CheckLeft, Clocked, Chosen
  <2>4. CASE LeaveOpi \/ EnterOpi
    BY <2>4, <1>a, <1>n DEF LeaveOpi, EnterOpi, SwitchBus, Clocked, Chosen
  <2>5. CASE CheckEntered \/ SelectSpi
    BY <2>5, <1>a, <1>n DEF CheckEntered, OtherId, SelectSpi, Choose, Clocked, Chosen
  <2>6. CASE SetDummies \/ SetQuad \/ StartTraining \/ Train \/ StopTraining
    BY <2>6 DEF SetDummies, SetQuad, StartTraining, Train, StopTraining, Go, GiveUp,
       Clocked, Chosen
  <2>7. CASE UNCHANGED vars
    BY <2>7, <1>n DEF vars
  <2> QED
    BY <2>1, <2>2, <2>3, <2>4, <2>5, <2>6, <2>7 DEF Next
<1>2. ASSUME NEW p \in Ports, ~board[p].part.pre
      PROVE  ~chip'[p].pbe
  <2>0. ~chip[p].pbe
    BY <1>2, <1>n
  <2>1. CASE chip' = chip
    BY <2>0, <2>1
  <2>2. CASE Reset
    <3>1. [chip EXCEPT ![port] = Restarted(port, @.qe)][p].pbe = FALSE \/ p # port
      BY DEF TypeOK, Restarted
    <3>2. p # port => [chip EXCEPT ![port] = Restarted(port, @.qe)][p] = chip[p]
      BY DEF TypeOK
    <3> QED
      BY <2>0, <2>2, <3>1, <3>2 DEF Reset
  <2>3. CASE LeaveOpi \/ EnterOpi
    <3>1. \A m \in Modes : Written("bus", m)[p].pbe = chip[p].pbe
      BY <1>t, WrittenOnly
    <3> QED
      BY <2>0, <2>3, <3>1 DEF LeaveOpi, EnterOpi, SwitchBus, TypeOK, Modes
  <2>4. CASE SetDummies
    <3>1. \A r \in {"crdc", "cr2dc"} : Written(r, DummySetting)[p].pbe = chip[p].pbe
      BY <1>t, WrittenOnly
    <3>2. DummyReg \in {"crdc", "cr2dc"}
      BY DEF DummyReg
    <3> QED
      BY <2>0, <2>4, <3>1, <3>2 DEF SetDummies, MaybeWritten
  <2>5. CASE SetQuad
    <3>1. Written("qe", QuadWanted)[p].pbe = chip[p].pbe
      BY <1>t, WrittenOnly
    <3> QED
      BY <2>0, <2>5, <3>1 DEF SetQuad, MaybeWritten
  <2>6. CASE StartTraining
    <3>1. ASSUME p # port
          PROVE  \A v \in BOOLEAN : Written("pbe", v)[p] = chip[p]
      BY <1>t, <3>1, WrittenOnly
    <3>2. ASSUME p = port
          PROVE  chip' = chip
      BY <1>2, <3>2, <2>6 DEF StartTraining, Part
    <3> QED
      BY <2>0, <2>6, <3>1, <3>2 DEF StartTraining, MaybeWritten
  <2>7. CASE StopTraining
    <3>1. ASSUME NEW v \in BOOLEAN, v = FALSE
          PROVE  ~Written("pbe", v)[p].pbe
      BY <1>t, <2>0, <3>1, WrittenOnly
    <3>2. ~Written("pbe", FALSE)[p].pbe
      BY <3>1
    <3> QED
      BY <2>0, <2>7, <3>2 DEF StopTraining, MaybeWritten
  <2>8. CASE PowerCycle
    BY <2>8 DEF PowerCycle, Restarted
  <2>9. CASE \/ \E q \in Ports : Setup(q)
             \/ ScanHit \/ ScanMiss \/ ScanError \/ ReadInfo \/ SetupLists
             \/ PassOver \/ StartOpi \/ CheckLeft \/ CheckEntered \/ SelectSpi
             \/ Train \/ Release \/ Reboot \/ UNCHANGED vars
    BY <2>9, <2>1 DEF Setup, ScanHit, ScanMiss, ScanError, ReadInfo, SetupLists, PassOver,
       StartOpi, CheckLeft, CheckEntered, SelectSpi, Train, Release, Reboot, vars
  <2> QED
    BY <2>2, <2>3, <2>4, <2>5, <2>6, <2>7, <2>8, <2>9 DEF Next
<1> QED
  BY <1>1, <1>2, <1>b

LEMMA ChipStep == IInv /\ [Next]_vars => ChipFollows'
<1> SUFFICES ASSUME IInv, [Next]_vars
             PROVE  ChipFollows'
  OBVIOUS
<1> USE DEF IInv
<1>t. TypeOK
  OBVIOUS
<1>a. drv \in [mode : Modes, prot : Modes, set_dc : BOOLEAN,
               rd : Cmds \cup {NoCmd}, pgm : Cmds \cup {NoCmd}]
  BY DEF TypeOK
<1>d. DummyReg \in {"crdc", "cr2dc"}
  BY DEF DummyReg
<1>n. /\ pc \in Clocked => (DummySetting # NoSetting => Here[DummyReg] = DummySetting)
      /\ pc \in Quaded => (drv.mode = "SPI" /\ Part.qe => Here.qe = QuadWanted)
      /\ pc = "ready" => ~Here.pbe
      /\ ~Part.pre => ~Here.pbe
  BY <1>t DEF ChipFollows, NotYet, Part, Here, TypeOK
\* None of this changes what the registers should hold.
<1>s. ASSUME fixed' = fixed, port' = port, tbl' = tbl, drv'.rd = drv.rd,
             drv'.pgm = drv.pgm, drv'.mode = drv.mode
      PROVE  /\ DummySetting' = DummySetting /\ DummyReg' = DummyReg
             /\ Part' = Part /\ QuadWanted' = QuadWanted
  BY <1>s DEF fixed, DummySetting, DummyReg, Part, QuadWanted, UsesQuad
<1>1. CASE pc' \notin Clocked
  BY <1>1 DEF ChipFollows, Clocked, Quaded, Chosen
<1>2. CASE SetDummies /\ pc' \in Clocked
  <2>1. /\ drv'.rd = drv.rd /\ drv'.pgm = drv.pgm /\ drv'.mode = drv.mode
        /\ fixed' = fixed /\ port' = port /\ tbl' = tbl
    BY <1>2, <1>a DEF SetDummies
  <2>2. pc' = "qe" /\ chip' = IF DummySetting = NoSetting THEN chip
                             ELSE Written(DummyReg, DummySetting)
    BY <1>2 DEF SetDummies, Go, GiveUp, Clocked, Chosen
  <2>3. Written(DummyReg, DummySetting)[port][DummyReg] = DummySetting
    BY <1>t, <1>d, WrittenOnly
  <2>4. DummySetting' = DummySetting /\ DummyReg' = DummyReg
    BY <2>1, <1>s
  <2>5. DummySetting' # NoSetting => Here'[DummyReg'] = DummySetting'
    BY <2>1, <2>2, <2>3, <2>4 DEF Here
  <2> QED
    BY <2>2, <2>5 DEF ChipFollows, Quaded, Clocked, Chosen
<1>3. CASE SetQuad /\ pc' \in Clocked
  <2>1. /\ drv' = drv /\ fixed' = fixed /\ port' = port /\ tbl' = tbl
        /\ pc = "qe" /\ pc' = "cali"
    BY <1>3 DEF SetQuad, Go, GiveUp, Clocked, Chosen
  <2>2. \/ drv.mode # "SPI" \/ ~Part.qe
        \/ chip' = Written("qe", QuadWanted)
    BY <1>3 DEF SetQuad, Go, GiveUp, Clocked, Chosen
  <2>3. chip' = chip \/ chip' = Written("qe", QuadWanted)
    BY <1>3 DEF SetQuad, Go, GiveUp, Clocked, Chosen
  <2>4. /\ Written("qe", QuadWanted)[port].qe = QuadWanted
        /\ Written("qe", QuadWanted)[port][DummyReg] = Here[DummyReg]
    BY <1>t, <1>d, WrittenOnly DEF Here
  <2>5. DummySetting # NoSetting => Here'[DummyReg] = DummySetting
    BY <2>1, <2>3, <2>4, <1>n DEF Here, Clocked, Chosen
  <2>6. drv.mode = "SPI" /\ Part.qe => Here'.qe = QuadWanted
    BY <2>1, <2>2, <2>4 DEF Here
  <2> QED
    BY <2>1, <2>5, <2>6, <1>s DEF ChipFollows
<1>4. CASE StartTraining \/ Train \/ StopTraining
  <2>1. CASE pc' = "failed"
    BY <1>1, <2>1 DEF Clocked, Chosen
  <2>2. CASE pc' # "failed"
    <3>1. /\ drv' = drv /\ fixed' = fixed /\ port' = port /\ tbl' = tbl
          /\ pc \in Quaded /\ pc \in Clocked
      BY <1>4 DEF StartTraining, Train, StopTraining, Clocked, Quaded, Chosen
    <3>2. \A v \in BOOLEAN : /\ Written("pbe", v)[port][DummyReg] = Here[DummyReg]
                             /\ Written("pbe", v)[port].qe = Here.qe
                             /\ Written("pbe", v)[port].pbe = v
      BY <1>t, <1>d, WrittenOnly DEF Here
    <3>3. \/ chip' = chip /\ (pc' = "ready" => ~Here.pbe)
          \/ chip' = Written("pbe", TRUE) /\ pc' # "ready"
          \/ chip' = Written("pbe", FALSE)
      BY <1>4, <2>2, <1>n DEF StartTraining, Train, StopTraining, Go, GiveUp
    <3>4. Here'[DummyReg] = Here[DummyReg] /\ Here'.qe = Here.qe
      BY <3>1, <3>2, <3>3 DEF Here
    <3>5. pc' = "ready" => ~Here'.pbe
      BY <3>1, <3>2, <3>3 DEF Here
    <3> QED
      BY <3>1, <3>4, <3>5, <1>n, <1>s DEF ChipFollows
  <2> QED
    BY <2>1, <2>2
<1>5. CASE StartOpi
  <2>1. pc' \notin Clocked
    BY <1>5 DEF StartOpi, Go, NotYet, Clocked, Chosen
  <2> QED
    BY <1>1, <2>1
<1>6. CASE UNCHANGED vars
  BY <1>6, <1>n DEF vars, ChipFollows, DummySetting, DummyReg, Here, Part, QuadWanted,
     UsesQuad, Quaded, Clocked, Chosen
<1>7. CASE \/ \E p \in Ports : Setup(p)
           \/ Reset \/ ScanHit \/ ScanMiss \/ ScanError \/ ReadInfo \/ SetupLists
           \/ PassOver \/ LeaveOpi \/ CheckLeft \/ EnterOpi \/ CheckEntered \/ SelectSpi
           \/ Release \/ Reboot \/ PowerCycle
  <2>1. pc' \notin Clocked
    BY <1>7 DEF Setup, Reset, ScanHit, ScanMiss, ScanError, ReadInfo, SetupLists, PassOver,
       LeaveOpi, CheckLeft, EnterOpi, CheckEntered, SelectSpi, SwitchBus, Release, Reboot,
       PowerCycle, OtherId, Go, GiveUp, Clocked, Chosen
  <2> QED
    BY <1>1, <2>1
<1> QED
  BY <1>1, <1>2, <1>3, <1>4, <1>5, <1>6, <1>7 DEF Next

LEMMA FixedStep == [Next]_vars => fixed' = fixed
<1> SUFFICES ASSUME [Next]_vars
             PROVE  fixed' = fixed
  OBVIOUS
<1>1. CASE \/ \E p \in Ports : Setup(p)
           \/ Reset \/ ScanHit \/ ScanMiss \/ ScanError \/ ReadInfo \/ SetupLists
  BY <1>1 DEF Setup, Reset, ScanHit, ScanMiss, ScanError, ReadInfo, SetupLists
<1>2. CASE \/ PassOver \/ StartOpi \/ LeaveOpi \/ CheckLeft \/ EnterOpi
           \/ CheckEntered \/ SelectSpi
  BY <1>2 DEF PassOver, StartOpi, LeaveOpi, CheckLeft, EnterOpi, CheckEntered, SelectSpi
<1>3. CASE SetDummies \/ SetQuad \/ StartTraining \/ Train \/ StopTraining
  BY <1>3 DEF SetDummies, SetQuad, StartTraining, Train, StopTraining
<1>4. CASE Release \/ Reboot \/ PowerCycle \/ UNCHANGED vars
  BY <1>4 DEF fixed, vars, Release, Reboot, PowerCycle
<1> QED
  BY <1>1, <1>2, <1>3, <1>4 DEF Next

LEMMA BoardsStep == IInv /\ [Next]_vars => OnBoards'
BY FixedStep DEF IInv, OnBoards, fixed

-----------------------------------------------------------------------------
(***************************************************************************)
(* The inductive invariant holds in every reachable state of every board.  *)
(***************************************************************************)
THEOREM Invariant == Spec => []IInv
<1>1. IInv /\ [Next]_vars => IInv'
  BY TypeStep, HeardStep, BoardsStep, TablesStep, TargetStep, CommandsStep, ChipStep,
     NotYetStep DEF IInv
<1> QED
  BY InitIInv, <1>1, PTL DEF Spec

(***************************************************************************)
(* What driver and chip keep is always of its type.                        *)
(***************************************************************************)
THEOREM TypeCorrect == Spec => []TypeOK
<1>1. IInv => TypeOK
  BY DEF IInv
<1> QED
  BY Invariant, <1>1, PTL

(***************************************************************************)
(* Every command from the scan on goes out in the protocol the chip        *)
(* listens to, whatever failed before.                                     *)
(***************************************************************************)
THEOREM AlwaysHeard == Spec => []Heard
<1>1. IInv => Heard
  BY DEF IInv
<1> QED
  BY Invariant, <1>1, PTL

(***************************************************************************)
(* A probe that succeeds leaves chip and tables as reads and programs need *)
(* them, whatever flash was probed before (sel_cmd_info_auto, setup_dc,    *)
(* set_quad_enable).  Programs and reads put bytes in the same order, for  *)
(* all but parts without word mode in 8D-8D-8D (OrderLost).                *)
(***************************************************************************)
THEOREM AlwaysInStep == Spec => []InStep
<1>1. IInv => InStep
  <2> SUFFICES ASSUME IInv, pc = "ready"
               PROVE  InStep
    BY DEF InStep
  <2>1. pc \in Filled /\ pc \in Chosen /\ pc \in Clocked /\ pc \in Quaded
    BY DEF Filled, Chosen, Clocked, Quaded
  <2>2. drv.rd \in Listed(drv.mode) /\ CmdInfo[drv.rd].kind = "rd" /\ drv.mode \in Modes
    BY <2>1 DEF IInv, CommandsChosen, TypeOK
  <2>3. tbl.dc[drv.rd][drv.mode] = Part.dc[drv.mode][drv.rd]
    BY <2>1, <2>2 DEF IInv, TablesFilled
  <2>4. tbl.pgm_word = (drv.mode = "DOPI" /\ Part.word)
    BY <2>1 DEF IInv, CommandsChosen
  <2>5. ~OrderLost => ReadsWords = ProgramsWords
    <3>1. drv.mode = "DOPI" => tbl.rd_word
      BY <2>1 DEF IInv, TablesFilled, CommandsChosen
    <3>2. tbl.rd_word \in BOOLEAN /\ Part.word \in BOOLEAN
      BY DEF IInv, TypeOK, Part, PartType
    <3>3. CASE drv.mode # "DOPI"
      BY <3>3, <2>4 DEF ReadsWords, ProgramsWords
    <3>4. CASE drv.mode = "DOPI" /\ Part.word
      <4>1. tbl.rd_word = TRUE /\ tbl.pgm_word = TRUE
        BY <3>1, <3>2, <3>4, <2>4
      <4> QED
        BY <4>1, <3>4 DEF ReadsWords, ProgramsWords
    <3> QED
      BY <3>3, <3>4 DEF OrderLost
  <2>6. /\ DummySetting # NoSetting => Here[DummyReg] = DummySetting
        /\ drv.mode = "SPI" /\ Part.qe => Here.qe = QuadWanted
        /\ ~Here.pbe
    BY <2>1 DEF IInv, ChipFollows
  <2> QED
    BY <2>3, <2>4, <2>5, <2>6 DEF InStep, ProgramsWords
<1> QED
  BY Invariant, <1>1, PTL
-----------------------------------------------------------------------------
(* A probe that meets no fault. *)

\* What a part can do on this host (CHECK_CL_DOPI, CHECK_CL_SOPI), on any port.
ListedOf(q, m) == {c \in q.list[m] :
                     Able(c, m) /\ ~(m = "DOPI" /\ q.word /\ ~build.word /\ c = "8DTRD")}
OpiOf(q) == \E m \in {"DOPI", "SOPI"} :
              /\ OpiRead(m) \in ListedOf(q, m)
              /\ \E c \in ListedOf(q, m) : CmdInfo[c].kind = "pgm"
              /\ q.ers[m] /\ q.cr2

\* A chip in an octal protocol is on eight lines, and powers up in it or is one
\* that can be used in it.
Wired == \A p \in Ports :
           /\ chip[p].bus # "SPI" => board[p].boot # "SPI" \/ OpiOf(board[p].part)
           /\ chip[p].bus # "SPI" \/ board[p].boot # "SPI" => build.io = 8

\* While nothing is amiss: the protocols the scan has tried are not the chip's,
\* the modes the selection has left behind are not possible, the commands are
\* those of the best mode, and only a part that cannot be followed ends the probe.
OnCourse ==
  ~upset /\ Followable =>
    /\ pc = "scan" =>
         /\ tgt # "SPI" => Here.bus # "SPI"
         /\ tgt = "SOPI" => Here.bus # "DOPI"
    /\ pc \in Entering \cup {"sel"} =>
         /\ tgt # "DOPI" => ~HasOpi("DOPI")
         /\ tgt = "SPI" => ~HasOpi("SOPI")
    /\ pc \in Chosen => drv.mode = Target
    /\ pc # "failed"

LEMMA HasOpiHere ==
  OpiOf(Part) <=> HasOpi("DOPI") \/ HasOpi("SOPI")
<1>1. ASSUME NEW m \in {"DOPI", "SOPI"}
      PROVE  ListedOf(Part, m) = Listed(m)
  BY <1>1 DEF ListedOf, Listed, WordClash
<1> QED
  BY <1>1 DEF OpiOf, HasOpi

LEMMA OpiNeedsEight ==
  ASSUME TypeOK, NEW m \in {"SOPI", "DOPI"}, HasOpi(m)
  PROVE  build.io = 8
<1>1. OpiRead(m) \in Listed(m) /\ Listed(m) \subseteq Cmds
  BY ListedTyped DEF HasOpi, Modes
<1>2. CmdInfo[OpiRead(m)].io[m] = 8
  BY <1>1, OpiReadAssumption DEF OpiRead
<1>3. 8 <= build.io
  BY <1>1, <1>2 DEF Listed, Able
<1> QED
  BY <1>3 DEF TypeOK, BuildType

LEMMA WiredStep == IInv /\ Wired /\ [Next]_vars => Wired'
<1> SUFFICES ASSUME IInv, Wired, [Next]_vars
             PROVE  Wired'
  OBVIOUS
<1>t. TypeOK
  BY DEF IInv
<1>a. /\ board' = board /\ build' = build
      /\ \A q : OpiOf(q)' <=> OpiOf(q)
  <2>1. board' = board /\ build' = build
    BY FixedStep DEF fixed
  <2> QED
    BY <2>1 DEF OpiOf, ListedOf, Able
<1>1. ASSUME \A p \in Ports : chip'[p].bus \in {chip[p].bus, board[p].boot}
      PROVE  Wired'
  BY <1>1, <1>a DEF Wired
<1>2. ASSUME NEW m \in Modes, NEW n, m = "SPI" \/ HasOpi(m), SwitchBus(m, n)
      PROVE  Wired'
  <2>1. m # "SPI" => build.io = 8 /\ OpiOf(Part)
    BY <1>2, <1>t, OpiNeedsEight, HasOpiHere DEF Modes
  <2>2. chip' \in {chip, Written("bus", m)}
    BY <1>2 DEF SwitchBus
  <2>3. \A p \in Ports \ {port} : chip'[p].bus = chip[p].bus
    BY <2>2, <1>t, WrittenOnly
  <2>4. chip'[port].bus \in {chip[port].bus, m} /\ port \in Ports
    BY <2>2, <1>t, WrittenOnly DEF TypeOK
  <2>5. ASSUME NEW p \in Ports
        PROVE  /\ chip'[p].bus # "SPI" => board[p].boot # "SPI" \/ OpiOf(board[p].part)
               /\ chip'[p].bus # "SPI" \/ board[p].boot # "SPI" => build.io = 8
    BY <2>1, <2>3, <2>4 DEF Wired, Part
  <2> QED
    BY <2>5, <1>a DEF Wired
<1>3. CASE Reset
  BY <1>1, <1>3, <1>t DEF Reset, Restarted, TypeOK
<1>4. CASE LeaveOpi
  BY <1>2, <1>4 DEF LeaveOpi, Modes
<1>5. CASE EnterOpi
  BY <1>2, <1>5, <1>t DEF EnterOpi, IInv, TargetPossible, Entering, TypeOK
<1>6. CASE SetDummies
  <2>1. PICK r \in {"crdc", "cr2dc"} : r = DummyReg
    BY DEF DummyReg
  <2>2. chip' \in {chip, Written(r, DummySetting)}
    BY <1>6, <2>1 DEF SetDummies, MaybeWritten
  <2>3. \A p \in Ports : Written(r, DummySetting)[p].bus = chip[p].bus
    BY <1>t, WrittenOnly
  <2> QED
    BY <1>1, <2>2, <2>3
<1>7. CASE SetQuad
  <2>1. chip' \in {chip, Written("qe", QuadWanted)}
    BY <1>7 DEF SetQuad, MaybeWritten
  <2> QED
    BY <1>1, <1>t, <2>1, WrittenOnly
<1>8. CASE StartTraining \/ StopTraining
  <2>1. chip' \in {chip, Written("pbe", TRUE), Written("pbe", FALSE)}
    BY <1>8 DEF StartTraining, StopTraining, MaybeWritten
  <2>2. \A p \in Ports, v \in BOOLEAN : Written("pbe", v)[p].bus = chip[p].bus
    BY <1>t, WrittenOnly
  <2> QED
    BY <1>1, <2>1, <2>2
<1>9. CASE PowerCycle
  BY <1>1, <1>9 DEF PowerCycle, Restarted
<1>10. CASE chip' = chip
  BY <1>1, <1>10
<1>11. CASE \/ \E p \in Ports : Setup(p)
            \/ ScanHit \/ ScanMiss \/ ScanError \/ ReadInfo \/ SetupLists
            \/ PassOver \/ StartOpi \/ CheckLeft \/ CheckEntered \/ SelectSpi
            \/ Train \/ Release \/ Reboot \/ UNCHANGED vars
  BY <1>10, <1>11 DEF Setup, ScanHit, ScanMiss, ScanError, ReadInfo, SetupLists,
     PassOver, StartOpi, CheckLeft, CheckEntered, SelectSpi, Train, Release, Reboot, vars
<1> QED
  BY <1>3, <1>4, <1>5, <1>6, <1>7, <1>8, <1>9, <1>11 DEF Next

LEMMA CourseStep ==
  ASSUME IInv, Wired, OnCourse, [Next]_vars
  PROVE  OnCourse'
<1>t. TypeOK /\ OnBoards /\ fixed' = fixed
  BY FixedStep DEF IInv
<1>d. /\ drv \in [mode : Modes, prot : Modes, set_dc : BOOLEAN,
                  rd : Cmds \cup {NoCmd}, pgm : Cmds \cup {NoCmd}]
      /\ Here.bus \in Modes /\ tgt \in Modes
  BY <1>t DEF TypeOK, Here, ChipType
<1>h. Followable /\ Here.bus # "SPI" => build.io = 8 /\ build.dtr /\ Target # "SPI"
  BY <1>t, HasOpiHere DEF Wired, Here, TypeOK, Followable, Target, Part
<1>o. ASSUME port' = port
      PROVE  /\ HasOpi("DOPI")' <=> HasOpi("DOPI")
             /\ HasOpi("SOPI")' <=> HasOpi("SOPI")
             /\ Target' = Target /\ (Followable' <=> Followable)
             /\ Part' = Part
  <2>1. /\ HasOpi("DOPI")' <=> HasOpi("DOPI")
        /\ HasOpi("SOPI")' <=> HasOpi("SOPI")
        /\ Part' = Part
    BY <1>o, <1>t, SamePart DEF Modes
  <2>2. Target' = Target
    BY <2>1 DEF Target
  <2> QED
    BY <2>1, <2>2, <1>o, <1>t DEF Followable, fixed
<1>1. ASSUME pc' \in {"off", "reset", "info", "lists"}
      PROVE  OnCourse'
  BY <1>1 DEF OnCourse, Entering, Chosen
<1>2. CASE upset'
  BY <1>2 DEF OnCourse
<1>3. CASE GiveUp
  BY <1>2, <1>3 DEF GiveUp
<1>4. ASSUME pc' = "scan", tgt' = "SPI"
      PROVE  OnCourse'
  BY <1>4 DEF OnCourse, Entering, Chosen
<1>5. CASE \E p \in Ports : Setup(p)
  BY <1>1, <1>4, <1>5 DEF Setup
<1>6. CASE Reset
  BY <1>1, <1>3, <1>4, <1>6 DEF Reset, Go
<1>7. CASE ScanHit \/ ScanError \/ ReadInfo
  BY <1>1, <1>3, <1>7 DEF ScanHit, ScanError, ReadInfo, Go
<1>8. CASE ScanMiss
  <2>1. SUFFICES ASSUME ~upset, ~Hears(tgt), Followable
                 PROVE  OnCourse'
    BY <1>2, <1>8, <1>o DEF ScanMiss, OnCourse
  <2>2. Here.bus # tgt /\ Here'.bus = Here.bus
    BY <1>8, <2>1 DEF ScanMiss, Hears, Here
  <2>3. /\ tgt # "SPI" => Here.bus # "SPI"
        /\ tgt = "SOPI" => Here.bus # "DOPI"
    BY <1>8, <2>1 DEF ScanMiss, OnCourse
  <2>4. tgt # "SOPI"
    BY <2>2, <2>3, <1>d DEF Modes
  <2>5. tgt = "SPI" => build.io = 8 /\ build.dtr
    BY <2>1, <2>2, <1>h
  <2>6. /\ pc' = "scan"
        /\ tgt' = IF tgt = "SPI" THEN "DOPI" ELSE "SOPI"
    BY <1>8, <2>4, <2>5 DEF ScanMiss
  <2>7. Here'.bus # "SPI" /\ (tgt' = "SOPI" => Here'.bus # "DOPI")
    BY <2>2, <2>3, <2>4, <2>6, <1>d DEF Modes
  <2> QED
    BY <2>6, <2>7 DEF OnCourse, Entering, Chosen
<1>9. CASE SetupLists
  <2>1. CASE ~Part.ers["SPI"]
    BY <1>9, <2>1, <1>o DEF SetupLists, OnCourse, Followable
  <2>2. CASE Part.ers["SPI"]
    BY <1>3, <1>9, <2>2 DEF SetupLists, Go, OnCourse, Entering, Chosen
  <2> QED
    BY <2>1, <2>2
<1>10. CASE PassOver
  BY <1>10, <1>o, <1>d DEF PassOver, OnCourse, NextTarget, Modes, Entering, Chosen
<1>11. CASE StartOpi
  <2>1. pc' \in {"leave", "enter"}
    BY <1>11 DEF StartOpi, Go, IInv, NotYet, Clocked, Chosen
  <2> QED
    BY <1>11, <2>1, <1>o DEF StartOpi, Go, OnCourse, Entering, Chosen
<1>12. CASE LeaveOpi \/ EnterOpi
  <2>1. GiveUp \/ (pc' \in {"left", "entered"} /\ upset' = upset)
    BY <1>12 DEF LeaveOpi, EnterOpi, SwitchBus, Go
  <2> QED
    BY <1>3, <1>12, <2>1, <1>o DEF LeaveOpi, EnterOpi, OnCourse, Entering, Chosen
<1>13. CASE CheckLeft
  <2>1. Hears(drv.prot)
    BY <1>13 DEF CheckLeft, OtherId, IInv, Heard, Talking, Phases
  <2> QED
    BY <1>3, <1>13, <2>1, <1>o DEF CheckLeft, OtherId, Go, OnCourse, Entering, Chosen
<1>14. CASE CheckEntered
  <2>1. Hears(drv.prot)
    BY <1>14 DEF CheckEntered, OtherId, IInv, Heard, Talking, Phases
  <2>2. tgt # "SPI" /\ HasOpi(tgt)
    BY <1>14 DEF CheckEntered, OtherId, IInv, TargetPossible, Entering
  <2>3. SUFFICES ASSUME ~upset, Followable, Choose(tgt), Go("dc")
                 PROVE  OnCourse'
    BY <1>2, <1>3, <1>14, <1>o, <2>1 DEF CheckEntered, OtherId, Go, OnCourse
  <2>4. drv'.mode = tgt /\ port' = port
    BY <1>14, <2>3, <1>d DEF Choose, CheckEntered
  <2>5. tgt = Target
    BY <1>14, <2>2, <2>3, <1>d DEF CheckEntered, OtherId, OnCourse, Target, Entering, Modes
  <2> QED
    BY <2>3, <2>4, <2>5, <1>o DEF OnCourse, Go, Entering, Chosen
<1>15. CASE SelectSpi
  <2>1. SUFFICES ASSUME ~upset, Followable
                 PROVE  OnCourse'
    BY <1>2, <1>3, <1>15, <1>o DEF SelectSpi, Go, OnCourse
  <2>2. Target = "SPI"
    BY <1>15, <2>1 DEF SelectSpi, OnCourse, Target
  <2>3. Hears("SPI")
    BY <2>1, <2>2, <1>h DEF Hears
  <2>4. GiveUp \/ (Choose("SPI") /\ Go("dc"))
    BY <1>15, <2>3 DEF SelectSpi
  <2>5. CASE Choose("SPI") /\ Go("dc")
    <3>1. drv'.mode = "SPI" /\ port' = port
      BY <1>15, <2>5, <1>d DEF Choose, SelectSpi
    <3> QED
      BY <2>2, <2>5, <3>1, <1>o DEF OnCourse, Go, Entering, Chosen
  <2> QED
    BY <1>3, <2>4, <2>5
<1>16. CASE SetDummies
  <2>1. SUFFICES ASSUME ~upset, Followable
                 PROVE  OnCourse'
    BY <1>2, <1>3, <1>16, <1>o DEF SetDummies, Go, OnCourse
  <2>2. pc \in Filled /\ pc \in Chosen /\ drv.mode = Target
    BY <1>16, <2>1 DEF SetDummies, Filled, Chosen, OnCourse
  <2>3. drv.rd \in Listed(drv.mode) /\ CmdInfo[drv.rd].kind = "rd"
    BY <2>2 DEF IInv, CommandsChosen
  <2>4. DummySetting = Part.dc[drv.mode][drv.rd].set
    BY <2>2, <2>3, <1>d DEF IInv, TablesFilled, DummySetting
  <2>5. DummySetting # NoSetting /\ drv.mode = "SPI" => Part.crdc
    BY <2>1, <2>3, <2>4 DEF Followable, Listed
  <2>6. GiveUp \/ (drv' = [drv EXCEPT !.set_dc = TRUE] /\ Go("qe"))
    BY <1>16, <2>5 DEF SetDummies
  <2>7. CASE drv' = [drv EXCEPT !.set_dc = TRUE] /\ Go("qe")
    <3>1. drv'.mode = drv.mode /\ port' = port
      BY <1>16, <2>7, <1>d DEF SetDummies
    <3> QED
      BY <2>2, <2>7, <3>1, <1>o DEF OnCourse, Go, Entering, Chosen
  <2> QED
    BY <1>3, <2>6, <2>7
<1>17. CASE SetQuad \/ StartTraining \/ Train \/ StopTraining
  <2>1. /\ pc \in Chosen /\ drv' = drv /\ port' = port
        /\ GiveUp \/ (pc' \in Chosen /\ upset' = upset)
    BY <1>17 DEF SetQuad, StartTraining, Train, StopTraining, Go, Chosen
  <2> QED
    BY <1>3, <2>1, <1>o DEF OnCourse, Entering, Chosen
<1>18. CASE Release \/ Reboot \/ PowerCycle
  BY <1>1, <1>18 DEF Release, Reboot, PowerCycle
<1>19. CASE UNCHANGED vars
  BY <1>19, <1>o DEF vars, OnCourse, Here
<1> QED
  BY <1>5, <1>6, <1>7, <1>8, <1>9, <1>10, <1>11, <1>12, <1>13, <1>14, <1>15, <1>16,
     <1>17, <1>18, <1>19 DEF Next

(***************************************************************************)
(* A probe that meets no fault, of a part and on a host the driver can     *)
(* follow, succeeds and ends in the best mode both can do, whatever        *)
(* protocol the chip was left in (scan_mode, sel_cmd_info_auto).           *)
(***************************************************************************)
THEOREM CleanProbesSucceed == Spec => []CleanProbe
<1>1. Init => Wired /\ OnCourse
  <2> SUFFICES ASSUME Init
               PROVE  Wired /\ OnCourse
    OBVIOUS
  <2>1. PICK q \in [Ports -> BOOLEAN] : chip = [p \in Ports |-> Restarted(p, q[p])]
    BY DEF Init
  <2>2. \A p \in Ports : chip[p].bus = board[p].boot
    BY <2>1 DEF Restarted
  <2> QED
    BY <2>2 DEF Init, Wired, OnCourse, Entering, Chosen
<1>2. IInv /\ Wired /\ OnCourse /\ [Next]_vars => Wired' /\ OnCourse'
  BY WiredStep, CourseStep
<1>3. OnCourse => CleanProbe
  BY DEF OnCourse, CleanProbe, Chosen
<1> QED
  BY Invariant, <1>1, <1>2, <1>3, PTL DEF Spec
=============================================================================
