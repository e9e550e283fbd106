---------------------------- MODULE MCSpiNorMode ----------------------------
(***************************************************************************)
(* Three entries of ids[] on two ports.                                    *)
(***************************************************************************)
EXTENDS SpiNorMode

Info(k, r, spi, sopi, dopi) ==
  [kind |-> k, rank |-> r, io |-> [SPI |-> spi, SOPI |-> sopi, DOPI |-> dopi]]

MCCmdInfo ==
  [c \in {"FREAD", "FREAD4B", "QREAD", "4READ", "8READ", "8DTRD",
          "PP", "PP4B", "QPP", "4PP"} |->
     CASE c = "FREAD"   -> Info("rd",   2, 1, 0, 0)
       [] c = "FREAD4B" -> Info("rd",   3, 1, 0, 0)
       [] c = "QREAD"   -> Info("rd",  12, 4, 0, 0)
       [] c = "4READ"   -> Info("rd",  15, 4, 0, 0)
       [] c = "8READ"   -> Info("rd",  21, 8, 8, 0)
       [] c = "8DTRD"   -> Info("rd",  22, 8, 0, 8)
       [] c = "PP"      -> Info("pgm",  0, 1, 0, 0)
       [] c = "PP4B"    -> Info("pgm",  1, 1, 8, 8)
       [] c = "QPP"     -> Info("pgm",  2, 4, 0, 0)
       [] c = "4PP"     -> Info("pgm",  4, 4, 0, 0)]

MCCmds == DOMAIN MCCmdInfo

Entry(set, cyc) == [set |-> set, cyc |-> cyc]
InEvery(x) == [m \in Modes |-> x]

\* mx25um51245g and mx25uw12345g: octal, with and without word mode.
Octal(word) ==
  [list |-> [SPI |-> {"FREAD", "FREAD4B", "PP", "PP4B"},
             SOPI |-> {"8READ", "PP4B"}, DOPI |-> {"8DTRD", "PP4B"}],
   dc   |-> [m \in Modes |-> [c \in MCCmds |->
               IF m = "SPI" THEN Entry(NoSetting, 8) ELSE Entry(0, 20)]],
   ers  |-> InEvery(TRUE), cr2 |-> TRUE, word |-> word, pre |-> TRUE,
   qe   |-> FALSE, crdc |-> FALSE]

\* mx78u128b: quad.
Quad ==
  [list |-> [SPI |-> {"FREAD", "QREAD", "4READ", "PP", "QPP", "4PP"},
             SOPI |-> {}, DOPI |-> {}],
   dc   |-> InEvery([c \in MCCmds |-> IF c = "FREAD" THEN Entry(1, 6) ELSE Entry(3, 10)]),
   ers  |-> [SPI |-> TRUE, SOPI |-> FALSE, DOPI |-> FALSE],
   cr2  |-> TRUE, word |-> FALSE, pre |-> FALSE, qe |-> TRUE, crdc |-> TRUE]

On(p, b) == [part |-> p, boot |-> b]

MCPorts == {1, 2}
\* The third board is built for an erase size the octal part does not have, the
\* fourth for one it does not have in the octal modes.
Erasing(e) == [Octal(TRUE) EXCEPT !.ers = e]

MCBoards == {<<On(Octal(TRUE), "SPI"),  On(Quad, "SPI")>>,
             <<On(Octal(TRUE), "DOPI"), On(Octal(FALSE), "SOPI")>>,
             <<On(Erasing(InEvery(FALSE)), "SPI"), On(Octal(FALSE), "SPI")>>,
             <<On(Erasing([SPI |-> TRUE, SOPI |-> FALSE, DOPI |-> FALSE]), "DOPI"),
               On(Octal(FALSE), "SPI")>>}

\* The UEFC, an octal host without word mode, one without double data rate, and
\* a quad host that probes without the reset of CONF_PROBE_RESET.
MCBuilds == {[io |-> 8, dtr |-> TRUE,  word |-> TRUE,  reset |-> TRUE],
             [io |-> 8, dtr |-> TRUE,  word |-> FALSE, reset |-> FALSE],
             [io |-> 8, dtr |-> FALSE, word |-> TRUE,  reset |-> FALSE],
             [io |-> 4, dtr |-> FALSE, word |-> FALSE, reset |-> FALSE],
             [io |-> 1, dtr |-> FALSE, word |-> FALSE, reset |-> TRUE]}
=============================================================================
