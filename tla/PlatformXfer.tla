---------------------------- MODULE PlatformXfer ----------------------------
(***************************************************************************)
(* How packets get to the chip: platform_xfer of platform/src/             *)
(* platform_itf.c, which walks a list of packets and polls, and the driver *)
(* of the UEFC host controller below it, mxic_uefc.c: I/O mode, DMA, chip  *)
(* select, the paths on which it gives up, the calibration of its sample   *)
(* point.  The controller's registers, its DMA and the data cache are      *)
(* external: every wait for a bit either sees it or times out.             *)
(*                                                                         *)
(* A driver's operation is a sequence of lists, one call of platform_xfer  *)
(* each; it ends with the first call that fails.                           *)
(***************************************************************************)
EXTENDS Integers, Sequences, FiniteSetsExt

CONSTANTS
    Devices,  \* [ops, eyes]: what is asked of a device, where its data can be sampled
    PollUs    \* bound: timeout_us of a polling packet

(* A packet: cs is its cs_ctrl, skip its PKT_CTRL_SKIP, phases those of command,
   address and dummy that it has, data its direction if it has data, words
   whether they are a multiple of four bytes, aligned whether its address is.
   starts: the chip is busy for a while once it has the packet. *)
Phase  == {"cmd", "addr", "dummy"}
Packet == [cs : {"REGULAR", "ASSERT", "KEEP", "DEASSERT"}, skip : BOOLEAN,
           phases : Seq(Phase), data : {"none", "in", "out"}, words : BOOLEAN,
           aligned : BOOLEAN, poll : BOOLEAN, starts : BOOLEAN]

Selects(c)   == c \in {"REGULAR", "ASSERT"}
Deselects(c) == c \in {"REGULAR", "DEASSERT"}

Columns == 0..7   \* delays of SIO that the calibration with DQS tries

ASSUME DeviceAssumption ==
    /\ PollUs \in Nat \ {0}
    /\ \A d \in Devices :
          /\ d.ops \subseteq Seq(Seq(Packet)) \ {<<>>}
          /\ \A eye \in d.eyes :
                \/ eye.dqs = FALSE /\ eye.good \in SUBSET (0..7)
                \/ eye.dqs = TRUE  /\ eye.good \in [Columns -> SUBSET Nat]

(* The packet sent last before the j-th of the l-th list of an operation, whether
   it has kept the chip selected, and whether it has started something. *)
Earlier(p, q)   == p[1] < q[1] \/ (p[1] = q[1] /\ p[2] < q[2])
Live(o)         == {p \in UNION {{l} \X (1..Len(o[l])) : l \in 1..Len(o)} :
                       ~o[p[1]][p[2]].skip}
Latest(o, l, j) == {p \in Live(o) : Earlier(p, <<l, j>>) /\
                       \A q \in Live(o) : ~(Earlier(p, q) /\ Earlier(q, <<l, j>>))}
Held(o, l, j)   == \E p \in Latest(o, l, j) : ~Deselects(o[p[1]][p[2]].cs)
Begun(o, l, j)  == \E p \in Latest(o, l, j) : o[p[1]][p[2]].starts

(* The lists of the drivers: a packet selects the chip if the one before has not
   kept it selected; after one that starts something comes the polling of the
   status; both have come to an end with the last list. *)
ASSUME ListAssumption ==
    \A d \in Devices : \A o \in d.ops :
        /\ \A p \in Live(o) :
              LET pkt == o[p[1]][p[2]] IN
              /\ Selects(pkt.cs) <=> ~Held(o, p[1], p[2])
              /\ Begun(o, p[1], p[2]) => pkt.poll
              /\ pkt.poll => pkt.data = "in" /\ pkt.cs \in {"REGULAR", "KEEP"}
        /\ Live(o) # {}
        /\ ~Held(o, Len(o) + 1, 1) /\ ~Begun(o, Len(o) + 1, 1)

VARIABLES
    device,   \* the device of this xfer_info
    lists,    \* lists the operation in progress has still to hand over
    list, k,  \* the list of the call in progress and the packet it is at
    pc,       \* what comes next
    ctl,      \* cs_ctrl of that packet, which a failure changes
    todo,     \* what of it is still to be sent
    us,       \* how often a polling packet may still be sent
    answer,   \* data.buf[0] of a polling packet: what the chip answered
    ret,      \* the result so far
    hcBusy,   \* hc_busy
    adj,      \* the sample point of SAMPLE_ADJ, the delays of DQS and of SIO
    \* the controller and the chip
    cs,       \* level of the chip select
    dma,      \* the DMA at work: "none", "own" (this packet's), "old"
    cmplt,    \* INT_STS_DMA_TFR_CMPLT: "clear", or set by "own" or "old"
    ram, line,  \* the packet's buffer, in memory and in the data cache
    chip,     \* "ready" or "busy"
    \* observers
    frame,    \* what has happened at the chip's pins since the packet began
    carried,  \* frames of the packets of the list that are done, empty if skipped
    blind,    \* a DMA of an earlier packet was still at work when this one began
    lost,     \* an operation has failed while the chip was busy
    entered,  \* level of the chip select when the operation began
    tuned     \* the last calibration, if it passed: its eye and the column it chose

walk  == <<device, lists, list, k>>
pins  == <<cs, frame>>
mem   == <<ram, line>>
tuning == <<adj, tuned>>
ghosts == <<carried, blind, lost, entered>>
vars  == <<device, lists, list, k, pc, ctl, todo, us, answer, ret, hcBusy, adj, cs, dma,
           cmplt, ram, line, chip, frame, carried, blind, lost, entered, tuned>>

pkt == list[k]

Data(p) == IF p.data = "none" THEN <<>> ELSE <<"data">>

(* What mxic_uefc_xfer leaves to DMA. *)
ByDma(p) == p.data # "none" /\ ~p.poll /\ p.words

Goto(s) == pc' = s
GiveUp(r) == ret' = r /\ Goto("out")
-----------------------------------------------------------------------------
Init ==
    /\ device \in Devices
    /\ lists = <<>> /\ list = <<>> /\ k = 1 /\ pc = "off" /\ ctl = "REGULAR"
    /\ todo = <<>> /\ us = 0 /\ answer = "none" /\ ret = "ok" /\ hcBusy = FALSE
    /\ adj = [point |-> 2, dqs |-> 23, sio |-> 0]
    /\ cs = "high" /\ dma = "none" /\ cmplt = "clear"
    /\ ram = "old" /\ line = "none" /\ chip = "ready"
    /\ frame = <<>> /\ carried = <<>> /\ blind = FALSE /\ lost = FALSE
    /\ entered = "high" /\ tuned = {}

(* setup_platform, mxic_uefc_init: registers as after a reset, or a refusal. *)
Setup ==
    /\ pc = "off" /\ Goto("idle")
    /\ cmplt' = "clear" /\ adj' = [point |-> 2, dqs |-> 23, sio |-> 0]
    /\ tuned' = {}
    /\ UNCHANGED <<walk, ctl, todo, us, answer, ret, hcBusy, pins, dma, mem, chip, ghosts>>

(* release_platform *)
Release ==
    /\ pc = "idle" /\ Goto("off")
    /\ UNCHANGED <<walk, ctl, todo, us, answer, ret, hcBusy, tuning, pins, dma, cmplt, mem,
                   chip, ghosts>>
-----------------------------------------------------------------------------
(* platform_xfer *)

HandOver(l) ==
    /\ list' = l /\ k' = 1 /\ carried' = <<>> /\ ret' = "ok" /\ Goto("walk")
    /\ UNCHANGED <<device, ctl, todo, us, answer, hcBusy, tuning, pins, dma, cmplt, mem,
                   chip, blind, lost>>

Operate(o) ==
    /\ pc = "idle"
    /\ HandOver(Head(o)) /\ lists' = Tail(o) /\ entered' = cs

(* The driver looks at the result and goes on, or gives up. *)
NextList ==
    /\ pc = "returned" /\ ret = "ok" /\ lists # <<>>
    /\ HandOver(Head(lists)) /\ lists' = Tail(lists)
    /\ UNCHANGED entered

Finish ==
    /\ pc = "returned" /\ (ret # "ok" \/ lists = <<>>)
    /\ Goto("idle") /\ lists' = <<>>
    /\ lost' = (lost \/ (ret # "ok" /\ chip = "busy"))
    /\ UNCHANGED <<device, list, k, ctl, todo, us, answer, ret, hcBusy, tuning, pins, dma,
                   cmplt, mem, chip, carried, blind, entered>>

(* The loop over the list, up to PKT_CTRL_END.  PLATFORM_MAX_PKTS is far above
   the length of any list of the drivers. *)
Walk ==
    /\ pc = "walk"
    /\ \/ k > Len(list) /\ Goto("returned") /\ UNCHANGED <<k, us, carried>>
       \/ /\ k <= Len(list) /\ pkt.skip
          /\ k' = k + 1 /\ carried' = Append(carried, <<>>) /\ UNCHANGED <<pc, us>>
       \/ /\ k <= Len(list) /\ ~pkt.skip
          /\ us' = PollUs /\ Goto("xfer") /\ UNCHANGED <<k, carried>>
    /\ UNCHANGED <<device, lists, list, ctl, todo, answer, ret, hcBusy, tuning, pins, dma,
                   cmplt, mem, chip, blind, lost, entered>>

\* Slips: a poll that is never used up; one whose last answer is not looked at.
NotCounted(u) == u
UsLeft(u) == u - 1

LastUnseen(u) == u = 0 \/ answer = "ready"
PollDone(u)   == answer = "ready"

\* Slip: the controller stays marked busy after a failure.
BusyIfFailed == ret # "ok"
NoLongerBusy == FALSE

(* exec_xfer and exec_poll, when mxic_uefc_xfer has returned at label out. *)
AfterXfer ==
    /\ pc = "out" /\ hcBusy' = NoLongerBusy
    /\ dma' = IF dma = "own" THEN "old" ELSE dma
    /\ cmplt' = IF cmplt = "own" THEN "old" ELSE cmplt
    /\ frame' = <<>> /\ us' = UsLeft(us)
    /\ \/ /\ ret # "ok"
          /\ Goto("returned") /\ UNCHANGED <<k, ret, carried>>
       \/ /\ ret = "ok" /\ (pkt.poll => PollDone(us'))
          /\ carried' = Append(carried, frame)
          /\ k' = k + 1 /\ Goto("walk") /\ UNCHANGED ret
       \/ /\ ret = "ok" /\ pkt.poll /\ ~PollDone(us') /\ us' > 0
          /\ Goto("xfer") /\ UNCHANGED <<k, ret, carried>>
       \/ /\ ret = "ok" /\ pkt.poll /\ ~PollDone(us') /\ us' = 0
          /\ ret' = "poll" /\ Goto("returned") /\ UNCHANGED <<k, carried>>
    /\ UNCHANGED <<device, lists, list, ctl, todo, answer, tuning, cs, mem, chip, blind,
                   lost, entered>>
-----------------------------------------------------------------------------
(* mxic_uefc_xfer up to TFR_CTRL_IO_START.  A transfer for DMA whose address is
   not aligned is refused; for another, the buffer is flushed from the cache and
   the completion flag cleared.  Slip: it is not. *)
KeepStatus(f)  == f
ClearStatus(f) == "clear"

\* What the caller has put in the buffer of a write may be in the cache only.
Buffers(p) ==
    IF p.data = "out" THEN {<<"old", "new">>, <<"new", "none">>}
                      ELSE {<<"old", "none">>, <<"old", "old">>}

HcXfer ==
    /\ pc = "xfer"
    /\ blind' = (dma = "old") /\ ctl' = pkt.cs
    /\ IF hcBusy
       THEN ret' = "hc_busy" /\ Goto("returned") /\ UNCHANGED <<hcBusy, todo, mem, cmplt>>
       ELSE /\ hcBusy' = TRUE /\ todo' = pkt.phases \o Data(pkt)
            /\ IF ~ByDma(pkt)
               THEN Goto("io_start") /\ UNCHANGED <<ret, mem, cmplt>>
               ELSE IF ~pkt.aligned
               THEN GiveUp("not_sup") /\ UNCHANGED <<mem, cmplt>>
               ELSE /\ \E b \in Buffers(pkt) : ram' = IF b[2] = "none" THEN b[1] ELSE b[2]
                    /\ line' = "none"
                    /\ cmplt' = ClearStatus(cmplt)
                    /\ Goto("io_start") /\ UNCHANGED ret
    /\ UNCHANGED <<walk, us, answer, tuning, pins, dma, chip, carried, lost, entered>>

IoStart ==
    /\ pc = "io_start"
    /\ \/ Goto("cs_start") /\ UNCHANGED ret
       \/ GiveUp("start")
    /\ UNCHANGED <<walk, ctl, todo, us, answer, hcBusy, tuning, pins, dma, cmplt, mem, chip,
                   ghosts>>

(* mxic_uefc_cs_start *)
CsStart ==
    /\ pc = "cs_start"
    /\ \/ /\ ~Selects(ctl) /\ Goto("send") /\ UNCHANGED <<ret, pins>>
       \/ /\ Selects(ctl) /\ cs' = "low" /\ frame' = Append(frame, "select")
          /\ Goto("send") /\ UNCHANGED ret
       \/ /\ Selects(ctl) /\ cs' \in {cs, "low"}
          /\ GiveUp("start") /\ UNCHANGED frame
    /\ UNCHANGED <<walk, ctl, todo, us, answer, hcBusy, tuning, dma, cmplt, mem, chip,
                   ghosts>>

(* mxic_uefc_err_dessert_cs: on through cs_end, as if the packet deselected.
   Slip: the packet is just given up. *)
JustOut    == ret' = "transfer" /\ Goto("out") /\ UNCHANGED ctl
ErrDeassert == ret' = "transfer" /\ Goto("cs_end") /\ ctl' = "DEASSERT"

DmaNext == todo # <<>> /\ Head(todo) = "data" /\ ByDma(pkt)

\* The chip is busy once it has all of a packet that starts something.
Started(p, rest) == IF p.starts /\ rest = <<>> THEN "busy" ELSE chip

(* mxic_uefc_io_mode_xfer of one phase; a command first waits for HC_ACT. *)
Send ==
    /\ pc = "send" /\ todo # <<>> /\ ~DmaNext
    /\ todo' = Tail(todo)
    /\ frame' = Append(frame, IF Head(todo) = "data" /\ pkt.poll THEN chip ELSE Head(todo))
    /\ answer' = IF Head(todo) = "data" /\ pkt.poll THEN chip ELSE answer
    /\ chip' = Started(pkt, todo')
    /\ UNCHANGED <<walk, pc, ctl, us, ret, hcBusy, tuning, cs, dma, cmplt, mem, ghosts>>

SendFail ==
    /\ pc = "send" /\ todo # <<>> /\ ~DmaNext
    /\ chip' \in {chip, Started(pkt, Tail(todo))}
    /\ ErrDeassert
    /\ UNCHANGED <<walk, todo, us, answer, hcBusy, tuning, pins, dma, cmplt, mem, ghosts>>

AllSent ==
    /\ pc = "send" /\ todo = <<>> /\ Goto("cs_end")
    /\ UNCHANGED <<walk, ctl, todo, us, answer, ret, hcBusy, tuning, pins, dma, cmplt, mem,
                   chip, ghosts>>

(* mxic_uefc_dma_master_mode: SDMA_CNT and SDMA_ADDR. *)
DmaStart ==
    /\ pc = "send" /\ DmaNext
    /\ dma' = "own" /\ Goto("dma")
    /\ UNCHANGED <<walk, ctl, todo, us, answer, ret, hcBusy, tuning, pins, cmplt, mem, chip,
                   ghosts>>

\* Slip: the cache is not invalidated.
NotInvalidated(l) == l
Invalidated(l) == "none"

(* mxic_uefc_wait_dma_done and Xil_DCacheInvalidateRange *)
DmaDone ==
    /\ pc = "dma" /\ cmplt # "clear"
    /\ line' = Invalidated(line) /\ Goto("cs_end")
    /\ todo' = Tail(todo) /\ chip' = Started(pkt, todo')
    /\ UNCHANGED <<walk, ctl, us, answer, ret, hcBusy, tuning, pins, dma, cmplt, ram, ghosts>>

DmaTimeout ==
    /\ pc = "dma" /\ cmplt = "clear"
    /\ ErrDeassert
    /\ UNCHANGED <<walk, todo, us, answer, hcBusy, tuning, pins, dma, cmplt, mem, chip,
                   ghosts>>

(* mxic_uefc_cs_end: without the answer to DEV_DIS, IO_END is not written. *)
CsEnd ==
    /\ pc = "cs_end"
    /\ \/ /\ ~Deselects(ctl) /\ Goto("io_end") /\ UNCHANGED <<ret, pins>>
       \/ /\ Deselects(ctl) /\ cs' = "high" /\ frame' = Append(frame, "deselect")
          /\ Goto("io_end") /\ UNCHANGED ret
       \/ /\ Deselects(ctl) /\ cs' \in {cs, "high"}
          /\ GiveUp("end") /\ UNCHANGED frame
    /\ UNCHANGED <<walk, ctl, todo, us, answer, hcBusy, tuning, dma, cmplt, mem, chip,
                   ghosts>>

(* TFR_CTRL_IO_END, with which the controller gives up what is left of a DMA. *)
IoEnd ==
    /\ pc = "io_end"
    /\ \/ dma' = "none" /\ Goto("out") /\ UNCHANGED ret
       \/ GiveUp(IF ret = "ok" THEN "end" ELSE ret) /\ UNCHANGED dma
    /\ UNCHANGED <<walk, ctl, todo, us, answer, hcBusy, tuning, pins, cmplt, mem, chip,
                   ghosts>>
-----------------------------------------------------------------------------
(* External: the DMA moves the data and raises its flag, late perhaps. *)
DmaMoves ==
    /\ dma # "none" /\ dma' = "none" /\ cmplt' = dma
    /\ IF dma = "own" /\ pc = "dma"
       THEN /\ ram' = "new"
            /\ frame' = Append(frame, IF pkt.data = "out" /\ ram = "old" THEN "junk" ELSE "data")
       ELSE UNCHANGED <<ram, frame>>
    /\ UNCHANGED <<walk, pc, ctl, todo, us, answer, ret, hcBusy, tuning, cs, line, chip,
                   ghosts>>

\* The processor may bring a buffer into its cache while the DMA is at work.
Prefetch ==
    /\ dma = "own" /\ line = "none" /\ line' = ram
    /\ UNCHANGED <<walk, pc, ctl, todo, us, answer, ret, hcBusy, tuning, pins, dma, cmplt,
                   ram, chip, ghosts>>

ChipReady ==
    /\ chip = "busy" /\ chip' = "ready" /\ lost' = FALSE
    /\ UNCHANGED <<walk, pc, ctl, todo, us, answer, ret, hcBusy, tuning, pins, dma, cmplt,
                   mem, carried, blind, entered>>
-----------------------------------------------------------------------------
(* mxic_uefc_cali_dqs_dis: the middle of the sample points at which the pattern
   is read right, from the first to the last.  Slip: half of the last. *)
HalfOfLast(s) == Min(s) + Max(s) \div 2
Middle(s) == Min(s) + (Max(s) - Min(s)) \div 2

CalibratePoint(eye) ==
    /\ pc = "idle" /\ ~eye.dqs
    /\ IF eye.good = {}
       THEN adj' = [adj EXCEPT !.point = 7] /\ tuned' = {}
       ELSE /\ adj' = [adj EXCEPT !.point = Middle(eye.good)]
            /\ tuned' = {[eye |-> eye, column |-> 0]}
    /\ UNCHANGED <<walk, pc, ctl, todo, us, answer, ret, hcBusy, pins, dma, cmplt, mem, chip,
                   ghosts>>

(* mxic_uefc_cali_dqs_en: of eight delays of SIO, the last of those with the
   widest run of DQS delays, and the middle of that run. *)
Tried   == {2 * n : n \in 0..15}
Read(eye, m) == eye.good[m] \intersect Tried
Span(eye, m) == Max(Read(eye, m)) - Min(Read(eye, m))
Widest(eye) ==
    LET some == {m \in Columns : Read(eye, m) # {}}
    IN  Max({m \in some : \A j \in some : Span(eye, j) <= Span(eye, m)})

CalibrateDqs(eye) ==
    /\ pc = "idle" /\ eye.dqs
    /\ IF \A m \in Columns : Read(eye, m) = {}
       THEN adj' = [adj EXCEPT !.dqs = 30, !.sio = 7 * 32] /\ tuned' = {}
       ELSE /\ adj' = [adj EXCEPT !.dqs = Middle(Read(eye, Widest(eye))),
                                  !.sio = Widest(eye) * 4]
            /\ tuned' = {[eye |-> eye, column |-> Widest(eye)]}
    /\ UNCHANGED <<walk, pc, ctl, todo, us, answer, ret, hcBusy, pins, dma, cmplt, mem, chip,
                   ghosts>>

\* A read of the sweep fails: the delays stay where the sweep was.
CalibrateFail(eye) ==
    /\ pc = "idle"
    /\ IF eye.dqs
       THEN \E m \in Columns, n \in Tried : adj' = [adj EXCEPT !.dqs = n, !.sio = m * 32]
       ELSE \E n \in 0..7 : adj' = [adj EXCEPT !.point = n]
    /\ tuned' = {}
    /\ UNCHANGED <<walk, pc, ctl, todo, us, answer, ret, hcBusy, pins, dma, cmplt, mem, chip,
                   ghosts>>
-----------------------------------------------------------------------------
Application ==
    \/ Setup \/ Release
    \/ \E o \in device.ops : Operate(o)
    \/ \E eye \in device.eyes :
          CalibratePoint(eye) \/ CalibrateDqs(eye) \/ CalibrateFail(eye)

Driver ==
    \/ NextList \/ Finish \/ Walk \/ AfterXfer
    \/ HcXfer \/ IoStart \/ CsStart \/ Send \/ SendFail \/ AllSent
    \/ DmaStart \/ DmaDone \/ DmaTimeout \/ CsEnd \/ IoEnd

Hardware == DmaMoves \/ Prefetch \/ ChipReady

Next == Application \/ Driver \/ Hardware

Spec == Init /\ [][Next]_vars

\* The driver runs on its own; the chip need never become ready, no DMA ever end.
FairSpec == Spec /\ WF_vars(Driver)
-----------------------------------------------------------------------------
(* Properties *)

Waiting == {"xfer", "returned", "walk", "idle", "off"}
Inside  == {"io_start", "cs_start", "send", "dma", "cs_end", "io_end", "out"}

\* Every variable stays in its domain; the controller is marked busy exactly while
\* a packet is in its driver, whichever way the packet ends (hc_busy).
TypeOK ==
    /\ pc \in Waiting \union Inside
    /\ hcBusy <=> pc \in Inside
    /\ ctl \in {"REGULAR", "ASSERT", "KEEP", "DEASSERT"}
    /\ ret \in {"ok", "not_sup", "poll", "start", "transfer", "end"}
    /\ us \in 0..PollUs /\ answer \in {"none", "ready", "busy"}
    /\ cs \in {"high", "low"} /\ chip \in {"ready", "busy"}
    /\ dma \in {"none", "own", "old"} /\ cmplt \in {"clear", "own", "old"}
    /\ ram \in {"old", "new"} /\ line \in {"none", "old", "new"}
    /\ adj.point \in 0..7 /\ adj.dqs \in 0..31 /\ adj.sio \in 0..255

\* The chip stays selected after an operation only if that failed in a place that
\* leaves it so: a bit the controller did not clear, or a poll that timed out or a
\* transfer that was refused between packets that keep the chip selected.  Every
\* other failure deselects it (mxic_uefc_err_dessert_cs, mxic_uefc_cs_end).
CsReleased ==
    pc = "idle" /\ cs = "low" =>
        /\ ret # "ok"
        /\ entered = "low" \/ ret \in {"start", "end"}
             \/ (ret \in {"poll", "not_sup"} /\ pkt.cs \in {"KEEP", "DEASSERT"})

\* A transfer by DMA that succeeds leaves the caller with the bytes of the chip,
\* not with what its cache held before or picked up meanwhile
\* (Xil_DCacheInvalidateRange once the DMA is done).
ReadsFresh ==
    pc = "out" /\ ret = "ok" /\ pkt.data = "in" /\ ByDma(pkt) /\ ~blind =>
        ram = "new" /\ line \in {"none", "new"}

\* Nothing but the polling of its status is sent to a chip that is busy, unless
\* an operation before had to give up waiting for it (exec_poll, the lists of
\* spinand_cmd.c and rawnand_cmd.c).
WaitsForTheChip ==
    [][frame' # frame /\ frame' # <<>> /\ chip = "busy" =>
         \/ frame'[Len(frame')] \in {"select", "deselect"}
         \/ pkt.poll \/ lost]_vars

\* Every operation comes to its end, even if the chip stays busy for ever and no
\* DMA is ever done: all waits are bounded.
OperationReturns == (pc \notin {"off", "idle"}) ~> (pc \in {"off", "idle"})

\* A calibration that passes without DQS leaves a sample point at which the
\* pattern was read right, if the points at which it was form one run; with DQS,
\* the same of the DQS delay, in a column whose run is as wide as any
\* (mxic_uefc_cali_dqs_dis, mxic_uefc_cali_dqs_en).
InTheEye ==
    \A t \in tuned :
        LET good == IF t.eye.dqs THEN t.eye.good[t.column] ELSE t.eye.good
            one  == \A a, b \in good : (a + 1)..(b - 1) \subseteq good
        IN  /\ one => (IF t.eye.dqs THEN adj.dqs ELSE adj.point) \in good
            /\ t.eye.dqs => \A m \in Columns :
                  Read(t.eye, m) # {} => Span(t.eye, m) <= Span(t.eye, t.column)

\* What a packet looks like at the pins of the chip: nothing, if it is skipped.
Wanted(p) ==
    IF p.skip THEN <<>>
    ELSE (IF Selects(p.cs) THEN <<"select">> ELSE <<>>) \o p.phases
         \o (IF p.poll THEN <<"ready">> ELSE Data(p))
         \o (IF Deselects(p.cs) THEN <<"deselect">> ELSE <<>>)

WantedOf(l) == [j \in 1..Len(l) |-> Wanted(l[j])]

Channel == INSTANCE PacketChannel WITH
    list   <- WantedOf(list),
    result <- IF pc \notin {"off", "idle", "returned"} THEN "busy"
              ELSE IF ret = "ok" THEN "ok" ELSE "failed"

\* The platform implements PacketChannel: whatever fails, and whenever the DMA and
\* the chip do their part, the chip is given the packets of the list whole and in
\* order, and all of them when the call succeeds (platform_xfer, mxic_uefc_xfer).
IsPacketChannel == Channel!Spec
=============================================================================
