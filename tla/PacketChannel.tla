--------------------------- MODULE PacketChannel ---------------------------
(***************************************************************************)
(* What the drivers count on when they hand a list of packets to the       *)
(* platform: the chip is given the packets in the order of the list, each  *)
(* of them whole; success means that it was given all of them, failure     *)
(* that it was given the first few, and perhaps a part of the next.  A     *)
(* packet is the sequence of what happens at the chip's pins: it is        *)
(* selected, is sent a command, ..., is deselected; a polling packet ends  *)
(* when the chip answers that it is ready.  Of a packet that is skipped    *)
(* nothing happens there.                                                  *)
(***************************************************************************)
EXTENDS Sequences, Naturals

VARIABLES
    list,     \* the packets of the last call
    carried,  \* those the chip was given, as it was given them
    result,   \* "busy", and of the last call "ok" or "failed"
    blind     \* the controller is still at work for an earlier packet

vars == <<list, carried, result, blind>>

Init == list = <<>> /\ carried = <<>> /\ result = "ok" /\ blind = FALSE

Begin == result # "busy" /\ result' = "busy" /\ carried' = <<>>

\* Nothing is promised of a packet sent while the controller is still at work for
\* an earlier one.
Carry ==
    /\ result = "busy" /\ Len(carried) < Len(list)
    /\ Len(carried') = Len(carried) + 1
    /\ SubSeq(carried', 1, Len(carried)) = carried
    /\ blind \/ carried'[Len(carried')] = list[Len(carried')]
    /\ UNCHANGED <<list, result>>

Succeed ==
    /\ result = "busy" /\ Len(carried) = Len(list) /\ result' = "ok"
    /\ UNCHANGED <<list, carried>>

Fail == result = "busy" /\ result' = "failed" /\ UNCHANGED <<list, carried>>

Wait == blind' # blind /\ UNCHANGED <<list, carried, result>>

Next == Begin \/ Carry \/ Succeed \/ Fail \/ Wait

Spec == Init /\ [][Next]_vars
=============================================================================
