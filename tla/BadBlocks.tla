----------------------------- MODULE BadBlocks -----------------------------
(***************************************************************************)
(* What a bad-block manager promises, whatever the kind of flash: a block is *)
(* bad on the flash before the manager says so, a probe knows exactly the    *)
(* bad blocks of the flash, an erase makes a block good in both places at    *)
(* once, and only a command that fails, or that the flash ignores, leaves a  *)
(* block of which the manager is unsure, until the next probe or a later     *)
(* command that succeeds on it.                                              *)
(* set_bb, chk_bb, erase and probe of a NAND driver are its operations.      *)
(***************************************************************************)
CONSTANTS
    Blks,
    Deaf      \* the flash may ignore an erase without the manager noticing

VARIABLES
    bad,      \* blocks the flash itself marks as bad
    ready,    \* the manager has been probed
    known,    \* blocks the manager calls bad
    marking,  \* at most one block, bad on the flash but not yet reported
    unsure    \* blocks on which a command failed or was ignored

vars == <<bad, ready, known, marking, unsure>>

Init ==
    /\ bad \subseteq Blks
    /\ ready = FALSE /\ known = {} /\ marking = {} /\ unsure = {}

Probe ==
    /\ ~ready /\ ready' = TRUE
    /\ known' = bad
    /\ UNCHANGED <<bad, marking, unsure>>

PutMark(b) ==
    /\ ready /\ marking = {}
    /\ bad' = bad \union {b} /\ marking' = {b}
    /\ UNCHANGED <<ready, known, unsure>>

Report(b) ==
    /\ ready /\ marking = {b}
    /\ known' = known \union {b} /\ marking' = {} /\ unsure' = unsure \ {b}
    /\ UNCHANGED <<bad, ready>>

Erase(b) ==
    /\ ready /\ marking = {}
    /\ bad' = bad \ {b} /\ known' = known \ {b} /\ unsure' = unsure \ {b}
    /\ UNCHANGED <<ready, marking>>

Fail(b) ==
    /\ ready /\ marking \subseteq {b}
    /\ bad' \in {bad, bad \union {b}, bad \ {b}}
    /\ unsure' = unsure \union {b} /\ marking' = {}
    /\ UNCHANGED <<ready, known>>

\* The manager takes a block as erased that is as it was.
Ignored(b) ==
    /\ Deaf /\ ready /\ marking = {}
    /\ known' = known \ {b} /\ unsure' = unsure \union {b}
    /\ UNCHANGED <<bad, ready, marking>>

Off ==
    /\ ready' = FALSE /\ known' = {} /\ marking' = {} /\ unsure' = {}
    /\ UNCHANGED bad

Next ==
    \/ Probe \/ Off
    \/ \E b \in Blks : PutMark(b) \/ Report(b) \/ Erase(b) \/ Fail(b) \/ Ignored(b)

Spec == Init /\ [][Next]_vars
-----------------------------------------------------------------------------
\* What the caller may rely on: away from the blocks the manager is unsure of,
\* it knows the bad blocks of the flash, but for the one being marked.
Sound ==
    ready => /\ known \ unsure \subseteq bad
             /\ bad \ unsure \subseteq known \union marking

\* The block being marked is marked on the flash.
MarkedFirst == marking \subseteq bad
=============================================================================
