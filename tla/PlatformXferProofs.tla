------------------------- MODULE PlatformXferProofs -------------------------
(***************************************************************************)
(* Proofs about PlatformXfer, for every set of devices whose lists are     *)
(* those of the drivers (ListAssumption) and every number of polls.        *)
(***************************************************************************)
EXTENDS PlatformXfer, SequenceTheorems, WellFoundedInduction, TLAPS

Event == Phase \union {"data", "junk", "select", "deselect", "ready", "busy"}

Delays == [point : 0..7, dqs : 0..31, sio : 0..255]

\* Domains; the packet at hand is one of the list, and the poll count is not used up.
TypeInv ==
    /\ TypeOK
    /\ device \in Devices /\ lists \in Seq(Seq(Packet)) /\ list \in Seq(Packet)
    /\ k \in 1..(Len(list) + 1)
    /\ pc \in Inside \union {"xfer"} => k <= Len(list) /\ ~pkt.skip /\ us > 0
    /\ todo \in Seq(Phase \union {"data"}) /\ frame \in Seq(Event)
    /\ carried \in Seq(Seq(Event)) /\ Len(carried) = k - 1
    /\ hcBusy \in BOOLEAN /\ blind \in BOOLEAN /\ lost \in BOOLEAN
    /\ entered \in {"high", "low"}
    /\ adj \in Delays

\* The frame of a packet up to its data, and with it.
Sel(p)      == IF Selects(p.cs) THEN <<"select">> ELSE <<>>
Desel(p)    == IF Deselects(p.cs) THEN <<"deselect">> ELSE <<>>
Opening(p)  == Sel(p) \o p.phases
Answered(p) == IF p.poll THEN <<answer>> ELSE Data(p)
Full(p)     == Opening(p) \o Answered(p)

\* The first i phases are sent.
SentUpTo(p, i) ==
    /\ todo = SubSeq(p.phases, i + 1, Len(p.phases)) \o Data(p)
    /\ frame = Sel(p) \o SubSeq(p.phases, 1, i)

\* What is sent and what is still to be sent are the packet, until something fails.
SendInv ==
    /\ pc \in Waiting => frame = <<>>
    /\ pc \in {"walk", "xfer", "io_start", "cs_start", "send", "dma"} => ret = "ok"
    /\ pc \in {"io_start", "cs_start", "send", "dma"} => ctl = pkt.cs
    /\ pc \in {"io_start", "cs_start"} => todo = pkt.phases \o Data(pkt) /\ frame = <<>>
    /\ pc = "send" => \/ \E i \in 0..Len(pkt.phases) : SentUpTo(pkt, i)
                      \/ todo = <<>> /\ frame = Full(pkt) /\ ~ByDma(pkt)
    /\ pc = "dma" => todo = <<"data">> /\ ByDma(pkt)
    /\ pc = "cs_end" => IF ret = "ok" THEN ctl = pkt.cs
                                      ELSE ret = "transfer" /\ ctl = "DEASSERT"
    /\ pc = "cs_end" /\ ret = "ok" /\ ~blind => frame = Full(pkt)
    /\ pc \in {"io_end", "out"} /\ ret = "ok" /\ ~blind => frame = Full(pkt) \o Desel(pkt)

\* The DMA at work and the completion flag are those of the packet, unless one from
\* before was at work when it began; what it moves is new.
DmaInv ==
    /\ pc \in Waiting \union {"io_start", "cs_start", "send"} => dma # "own" /\ cmplt # "own"
    /\ pc \in {"io_start", "cs_start", "send"} /\ ~blind =>
          dma = "none" /\ (ByDma(pkt) => cmplt = "clear")
    /\ pc \in {"io_start", "cs_start", "send", "dma"} /\ ByDma(pkt) /\ pkt.data = "out" =>
          ram = "new"
    /\ pc = "dma" /\ ~blind =>
          \/ dma = "own" /\ cmplt = "clear" /\ frame = Opening(pkt)
          \/ dma = "none" /\ cmplt = "own" /\ frame = Full(pkt) /\ ram = "new"
    /\ pc \in {"cs_end", "io_end", "out"} /\ ret = "ok" /\ ~blind /\ ByDma(pkt) =>
          dma = "none" /\ ram = "new" /\ line = "none"

\* The level of chip select in a packet and after it, whether it fails or not.
CsInv ==
    /\ pc \in {"send", "dma", "cs_end"} /\ ret = "ok" /\ ~Deselects(pkt.cs) => cs = "low"
    /\ pc \in {"io_end", "out"} /\ ret = "ok" =>
          cs = IF Deselects(pkt.cs) THEN "high" ELSE "low"
    /\ pc \in {"io_end", "out", "returned"} /\ ret = "transfer" => cs = "high"
    /\ pc \in {"out", "returned"} /\ ret = "not_sup" /\ cs = "low" =>
          entered = "low" \/ pkt.cs \in {"KEEP", "DEASSERT"}
    /\ pc = "returned" /\ ret = "poll" /\ cs = "low" => pkt.cs \in {"KEEP", "DEASSERT"}
    /\ pc \in {"off", "idle"} /\ cs = "low" =>
          /\ ret # "ok"
          /\ entered = "low" \/ ret \in {"start", "end"}
               \/ (ret \in {"poll", "not_sup"} /\ pkt.cs \in {"KEEP", "DEASSERT"})
    /\ pc = "io_end" => ret \in {"ok", "transfer"}
    /\ pc = "out" => ret # "poll"

\* A chip that is busy was made so by this packet, or is being polled, or was given up.
ChipInv ==
    /\ pc \in {"off", "idle"} /\ chip = "busy" => lost
    /\ \/ pc \in {"xfer", "io_start", "cs_start", "dma"}
       \/ pc = "send" /\ todo # <<>>
       => (chip = "busy" => lost \/ pkt.poll)
    /\ \/ pc \in {"cs_end", "io_end", "out"} /\ ret = "ok"
       \/ pc = "send" /\ todo = <<>>
       => (chip = "busy" => lost \/ pkt.starts \/ (pkt.poll /\ answer = "busy"))

\* Between packets: level and business are as the packets before have left them.
Fresh(o, l, j) == \A p \in Live(o) : ~Earlier(p, <<l, j>>)

Level(o, l) ==
    IF Fresh(o, l, k) THEN entered ELSE IF Held(o, l, k) THEN "low" ELSE "high"

Place(o, l) ==
    /\ list = o[l] /\ lists = SubSeq(o, l + 1, Len(o))
    /\ pc = "walk" \/ (pc = "returned" /\ ret = "ok") =>
          /\ cs = Level(o, l)
          /\ chip = "busy" => lost \/ Begun(o, l, k)
    /\ pc = "returned" /\ ret = "ok" => k = Len(list) + 1
    /\ pc \in {"xfer", "io_start", "cs_start"} =>
          cs = Level(o, l) \/ (Deselects(pkt.cs) /\ cs = "high")

PlaceInv ==
    pc \notin {"off", "idle"} => \E o \in device.ops : \E l \in 1..Len(o) : Place(o, l)

IInv == TypeInv /\ SendInv /\ DmaInv /\ CsInv /\ ChipInv /\ PlaceInv
-----------------------------------------------------------------------------
(* Sequences *)

\* Taking the head of a concatenation.
LEMMA FrontOfConcat ==
    ASSUME NEW S, NEW a \in Seq(S), NEW t \in Seq(S), Len(a) > 0
    PROVE  /\ a \o t # <<>> /\ Head(a \o t) = Head(a)
           /\ Tail(a \o t) = Tail(a) \o t
<1>1. /\ a \o t \in Seq(S) /\ Len(a \o t) = Len(a) + Len(t)
      /\ \A j \in 1..(Len(a) + Len(t)) :
            (a \o t)[j] = IF j <= Len(a) THEN a[j] ELSE t[j - Len(a)]
  BY ConcatProperties
<1>2. /\ Tail(a) \in Seq(S) /\ Len(Tail(a)) = Len(a) - 1
      /\ \A j \in 1..(Len(a) - 1) : Tail(a)[j] = a[j + 1]
  OBVIOUS
<1>3. /\ Tail(a \o t) \in Seq(S) /\ Len(Tail(a \o t)) = Len(a) + Len(t) - 1
      /\ \A j \in 1..(Len(a) + Len(t) - 1) : Tail(a \o t)[j] = (a \o t)[j + 1]
  BY <1>1
<1>4. /\ Tail(a) \o t \in Seq(S) /\ Len(Tail(a) \o t) = Len(a) + Len(t) - 1
      /\ \A j \in 1..(Len(a) + Len(t) - 1) :
            (Tail(a) \o t)[j] = IF j <= Len(a) - 1 THEN Tail(a)[j] ELSE t[j - Len(a) + 1]
  BY <1>2
<1>5. \A j \in 1..(Len(a) + Len(t) - 1) : Tail(a \o t)[j] = (Tail(a) \o t)[j]
  BY <1>1, <1>2, <1>3, <1>4
<1>6. Tail(a \o t) = Tail(a) \o t
  BY <1>3, <1>4, <1>5, SeqEqual
<1>7. a \o t # <<>> /\ Head(a \o t) = Head(a)
  BY <1>1
<1>8. QED
  BY <1>6, <1>7

\* What is left of a sequence that is sent from the front, with t behind it.
LEMMA RestOfSequence ==
    ASSUME NEW S, NEW p \in Seq(S), NEW t \in Seq(S), NEW i \in 0..(Len(p) - 1)
    PROVE  /\ SubSeq(p, i + 1, Len(p)) \o t # <<>>
           /\ Head(SubSeq(p, i + 1, Len(p)) \o t) = p[i + 1] /\ p[i + 1] \in S
           /\ Tail(SubSeq(p, i + 1, Len(p)) \o t) = SubSeq(p, i + 2, Len(p)) \o t
<1>1. SubSeq(p, i + 1, Len(p)) \in Seq(S) /\ Len(SubSeq(p, i + 1, Len(p))) = Len(p) - i
  OBVIOUS
<1>2. /\ Head(SubSeq(p, i + 1, Len(p))) = p[i + 1]
      /\ Tail(SubSeq(p, i + 1, Len(p))) = SubSeq(p, i + 2, Len(p))
  <2>1. i + 1 \in 1..Len(p) /\ Len(p) \in (i + 1)..Len(p) /\ (i + 1) + 1 = i + 2
    OBVIOUS
  <2>2. QED
    BY <2>1, HeadTailOfSubSeq
<1>3. Len(SubSeq(p, i + 1, Len(p))) > 0 /\ p[i + 1] \in S
  BY <1>1
<1>4. PICK a \in Seq(S) : a = SubSeq(p, i + 1, Len(p))
  BY <1>1
<1>5. a \o t # <<>> /\ Head(a \o t) = Head(a) /\ Tail(a \o t) = Tail(a) \o t
  BY <1>3, <1>4, FrontOfConcat
<1>6. QED
  BY <1>2, <1>3, <1>4, <1>5

\* What is sent, with s before it.
LEMMA SentOfSequence ==
    ASSUME NEW S, NEW p \in Seq(S), NEW s \in Seq(S), NEW i \in 0..(Len(p) - 1)
    PROVE  Append(s \o SubSeq(p, 1, i), p[i + 1]) = s \o SubSeq(p, 1, i + 1)
<1>1. p[i + 1] \in S /\ SubSeq(p, 1, i) \in Seq(S)
  OBVIOUS
<1>2. SubSeq(p, 1, i + 1) = SubSeq(p, 1, i) \o <<p[i + 1]>>
  <2>1. 1 \in 1..Len(p) /\ i + 1 \in 1..Len(p) /\ (i + 1) - 1 = i
    OBVIOUS
  <2>2. QED
    BY <2>1, SubSeqRecursiveSecond
<1>3. <<p[i + 1]>> \in Seq(S) /\ s \o SubSeq(p, 1, i) \in Seq(S)
  BY <1>1
<1>4. Append(s \o SubSeq(p, 1, i), p[i + 1]) = (s \o SubSeq(p, 1, i)) \o <<p[i + 1]>>
  BY <1>1, <1>3, AppendIsConcat
<1>5. PICK a \in Seq(S), b \in Seq(S) : a = SubSeq(p, 1, i) /\ b = <<p[i + 1]>>
  BY <1>1, <1>3
<1>6. (s \o a) \o b = s \o (a \o b)
  BY ConcatAssociative
<1>7. QED
  BY <1>2, <1>4, <1>5, <1>6

\* What is left behind the l-th of a sequence.
LEMMA RestOfList ==
    ASSUME NEW S, NEW s \in Seq(S), NEW l \in 1..Len(s)
    PROVE  IF SubSeq(s, l + 1, Len(s)) = <<>> THEN l = Len(s)
           ELSE /\ l + 1 \in 1..Len(s) /\ Head(SubSeq(s, l + 1, Len(s))) = s[l + 1]
                /\ Tail(SubSeq(s, l + 1, Len(s))) = SubSeq(s, l + 2, Len(s))
<1>1. SubSeq(s, l + 1, Len(s)) \in Seq(S) /\ Len(SubSeq(s, l + 1, Len(s))) = Len(s) - l
  OBVIOUS
<1>2. CASE l = Len(s)
  <2>1. SubSeq(s, l + 1, Len(s)) = <<>>
    BY <1>2, SubSeqEmpty
  <2>2. QED
    BY <1>2, <2>1
<1>3. CASE l < Len(s)
  <2>1. l + 1 \in 1..Len(s) /\ Len(s) \in (l + 1)..Len(s) /\ (l + 1) + 1 = l + 2
    BY <1>3
  <2>2. SubSeq(s, l + 1, Len(s)) # <<>>
    <3>1. PICK a \in Seq(S) : a = SubSeq(s, l + 1, Len(s)) /\ Len(a) = Len(s) - l
      BY <1>1
    <3>2. Len(a) > 0
      BY <1>3, <3>1
    <3>3. a # <<>>
      BY <3>2
    <3>4. QED
      BY <3>1, <3>3, Zenon
  <2>3. QED
    BY <2>1, <2>2, HeadTailOfSubSeq
<1>4. QED
  BY <1>2, <1>3
-----------------------------------------------------------------------------
(* Calibration *)

\* A set of numbers has a least one, and below a bound a greatest.
LEMMA Least ==
    ASSUME NEW S \in SUBSET Nat, S # {}
    PROVE  \E x \in S : \A y \in S : x <= y
<1>1. PICK x \in S : \A y \in S : ~(<<y, x>> \in OpToRel(<, Nat))
  BY NatLessThanWellFounded, WFMin
<1>2. ASSUME NEW y \in S PROVE x <= y
  <2>1. <<y, x>> \in OpToRel(<, Nat) <=> y < x
    BY DEF OpToRel
  <2>2. ~(y < x)
    BY <1>1, <2>1, Zenon
  <2>3. QED
    BY <2>2
<1>3. QED
  BY <1>2

LEMMA Greatest ==
    ASSUME NEW n \in Nat, NEW S \in SUBSET (0..n), S # {}
    PROVE  \E x \in S : \A y \in S : x >= y
<1>1. PICK z \in {n - x : x \in S} : \A y \in {n - x : x \in S} : z <= y
  <2>1. {n - x : x \in S} \in SUBSET Nat /\ {n - x : x \in S} # {}
    <3>1. \A x \in S : n - x \in Nat
      OBVIOUS
    <3>2. PICK x \in S : TRUE
      OBVIOUS
    <3>3. QED
      BY <3>1, <3>2
  <2>2. QED
    BY <2>1, Least
<1>2. PICK x \in S : z = n - x
  BY <1>1
<1>3. ASSUME NEW y \in S PROVE x >= y
  BY <1>1, <1>2
<1>4. QED
  BY <1>3

LEMMA MinMax ==
    ASSUME NEW n \in Nat, NEW S \in SUBSET (0..n), S # {}
    PROVE  /\ Min(S) \in S /\ \A y \in S : Min(S) <= y
           /\ Max(S) \in S /\ \A y \in S : y <= Max(S)
<1>1. Min(S) \in S /\ \A y \in S : Min(S) <= y
  <2>1. \E x \in S : \A y \in S : x =< y
    BY Least
  <2>2. QED
    BY <2>1 DEF Min
<1>2. Max(S) \in S /\ \A y \in S : Max(S) >= y
  <2>1. \E x \in S : \A y \in S : x >= y
    BY Greatest
  <2>2. QED
    BY <2>1 DEF Max
<1>3. QED
  BY <1>1, <1>2

\* The middle of a set lies between its ends.
LEMMA MiddleOf ==
    ASSUME NEW n \in Nat, NEW S \in SUBSET (0..n), S # {}
    PROVE  Middle(S) \in Min(S)..Max(S) /\ Middle(S) \in 0..n
<1>1. Min(S) \in 0..n /\ Max(S) \in 0..n /\ Min(S) <= Max(S)
  BY MinMax
<1>2. QED
  BY <1>1 DEF Middle

\* The column chosen has a run, and one that is as wide as any.
LEMMA WidestColumn ==
    ASSUME NEW eye, eye.good \in [Columns -> SUBSET Nat],
           NEW c \in Columns, Read(eye, c) # {}
    PROVE  /\ Widest(eye) \in Columns /\ Read(eye, Widest(eye)) # {}
           /\ \A j \in Columns :
                 Read(eye, j) # {} => Span(eye, j) <= Span(eye, Widest(eye))
<1> DEFINE some == {m \in Columns : Read(eye, m) # {}}
           spans == {Span(eye, m) : m \in some}
           best == {m \in some : \A j \in some : Span(eye, j) <= Span(eye, m)}
<1>1. \A m \in some : Span(eye, m) \in 0..30
  <2> SUFFICES ASSUME NEW m \in some PROVE Span(eye, m) \in 0..30
    OBVIOUS
  <2>1. Read(eye, m) \in SUBSET (0..30)
    BY DEF Read, Tried
  <2>2. QED
    BY <2>1, MinMax DEF Span
<1>2. PICK w \in spans : \A y \in spans : w >= y
  <2>1. spans \in SUBSET (0..30) /\ spans # {}
    BY <1>1
  <2>2. QED
    BY <2>1, Greatest
<1>3. best \in SUBSET (0..7) /\ best # {}
  BY <1>1, <1>2 DEF Columns
<1>4. Max(best) \in best
  BY <1>3, MinMax
<1>5. Widest(eye) = Max(best)
  BY DEF Widest
<1>6. QED
  BY <1>4, <1>5
-----------------------------------------------------------------------------
(* Types *)

\* The packet at hand.
LEMMA PacketType ==
    ASSUME list \in Seq(Packet), k \in 1..Len(list)
    PROVE  /\ pkt \in Packet /\ pkt.phases \in Seq(Phase)
           /\ pkt.phases \o Data(pkt) \in Seq(Phase \union {"data"})
<1>1. pkt \in Packet
  BY DEF pkt
<1>2. pkt.phases \in Seq(Phase) /\ pkt.phases \in Seq(Phase \union {"data"})
  BY <1>1, SeqMonotonic DEF Packet
<1>3. Data(pkt) \in Seq(Phase \union {"data"})
  <2>1. <<>> \in Seq(Phase \union {"data"}) /\ <<"data">> \in Seq(Phase \union {"data"})
    OBVIOUS
  <2>2. QED
    BY <2>1 DEF Data
<1>4. QED
  BY <1>1, <1>2, <1>3, ConcatProperties

LEMMA OpsType ==
    ASSUME device \in Devices, NEW o \in device.ops
    PROVE  /\ o \in Seq(Seq(Packet)) /\ o # <<>> /\ Len(o) > 0
           /\ Head(o) \in Seq(Packet) /\ Tail(o) \in Seq(Seq(Packet))
<1>1. o \in Seq(Seq(Packet)) /\ o # <<>>
  BY DeviceAssumption
<1>2. QED
  BY <1>1

LEMMA DelaysType ==
    ASSUME NEW a \in Delays
    PROVE  /\ \A x \in 0..7 : [a EXCEPT !.point = x] \in Delays
           /\ \A x \in 0..31, y \in 0..255 : [a EXCEPT !.dqs = x, !.sio = y] \in Delays
<1>1. ASSUME NEW x \in 0..7 PROVE [a EXCEPT !.point = x] \in Delays
  <2>1. a \in [point : 0..7, dqs : 0..31, sio : 0..255]
    BY DEF Delays
  <2>2. [a EXCEPT !.point = x] \in [point : 0..7, dqs : 0..31, sio : 0..255]
    BY <2>1
  <2>3. QED
    BY <2>2 DEF Delays
<1>2. ASSUME NEW x \in 0..31, NEW y \in 0..255
      PROVE  [a EXCEPT !.dqs = x, !.sio = y] \in Delays
  <2>1. a \in [point : 0..7, dqs : 0..31, sio : 0..255]
    BY DEF Delays
  <2>2. [a EXCEPT !.dqs = x, !.sio = y] \in [point : 0..7, dqs : 0..31, sio : 0..255]
    BY <2>1
  <2>3. QED
    BY <2>2 DEF Delays
<1>3. QED
  BY <1>1, <1>2

\* A frame that goes on by an event.
LEMMA FrameType ==
    ASSUME NEW f \in Seq(Event), NEW e \in Event
    PROVE  /\ Append(f, e) \in Seq(Event) /\ Append(f, e) # <<>>
           /\ Len(Append(f, e)) = Len(f) + 1 /\ Append(f, e)[Len(Append(f, e))] = e
OBVIOUS

LEMMA TypeInit == Init => TypeInv
<1> SUFFICES ASSUME Init PROVE TypeInv
  OBVIOUS
<1>1. TypeOK
  BY DeviceAssumption DEF Init, TypeOK, Waiting, Inside
<1>2. /\ lists \in Seq(Seq(Packet)) /\ list \in Seq(Packet) /\ k \in 1..(Len(list) + 1)
      /\ todo \in Seq(Phase \union {"data"}) /\ frame \in Seq(Event)
      /\ carried \in Seq(Seq(Event)) /\ Len(carried) = k - 1
  BY EmptySeq DEF Init
<1>3. adj \in Delays
  BY DEF Init, Delays
<1>4. QED
  BY <1>1, <1>2, <1>3 DEF Init, TypeInv, Inside

LEMMA TypeStep == TypeInv /\ SendInv /\ [Next]_vars => TypeInv'
<1> SUFFICES ASSUME TypeInv, SendInv, [Next]_vars PROVE TypeInv'
  OBVIOUS
<1> USE DEF Goto, GiveUp, walk, pins, mem, tuning, ghosts
<1>0. PollUs \in Nat \ {0}
  BY DeviceAssumption
<1>1. CASE Setup
  <2>1. [point |-> 2, dqs |-> 23, sio |-> 0] \in Delays
    BY DEF Delays
  <2>2. adj' \in Delays
    BY <1>1, <2>1 DEF Setup
  <2>3. TypeOK'
    BY <1>1, <2>2 DEF TypeInv, TypeOK, Setup, Waiting, Inside, Delays
  <2>4. QED
    BY <1>1, <2>2, <2>3 DEF TypeInv, Setup, Inside, pkt
<1>2. CASE Release
  BY <1>2 DEF TypeInv, TypeOK, Release, Waiting, Inside
<1>3. ASSUME NEW o \in device.ops, Operate(o) PROVE TypeInv'
  <2>1. Head(o) \in Seq(Packet) /\ Tail(o) \in Seq(Seq(Packet))
    BY OpsType DEF TypeInv
  <2>2. QED
    BY <1>3, <2>1 DEF TypeInv, TypeOK, Operate, HandOver, Waiting, Inside
<1>4. CASE NextList
  <2>1. Head(lists) \in Seq(Packet) /\ Tail(lists) \in Seq(Seq(Packet))
    BY <1>4 DEF TypeInv, NextList
  <2>2. QED
    BY <1>4, <2>1 DEF TypeInv, TypeOK, NextList, HandOver, Waiting, Inside
<1>5. CASE Finish
  BY <1>5 DEF TypeInv, TypeOK, Finish, Waiting, Inside
<1>6. CASE Walk
  <2>1. carried' \in Seq(Seq(Event)) /\ Len(carried') = k' - 1 /\ k' \in 1..(Len(list) + 1)
    <3>1. <<>> \in Seq(Event)
      BY EmptySeq
    <3>2. /\ Append(carried, <<>>) \in Seq(Seq(Event))
          /\ Len(Append(carried, <<>>)) = Len(carried) + 1
      BY <3>1 DEF TypeInv
    <3>3. carried \in Seq(Seq(Event)) /\ Len(carried) = k - 1 /\ list \in Seq(Packet)
          /\ k \in 1..(Len(list) + 1)
      BY DEF TypeInv
    <3>4. \/ carried' = carried /\ k' = k
          \/ carried' = Append(carried, <<>>) /\ k' = k + 1 /\ k <= Len(list)
      BY <1>6 DEF Walk
    <3>5. CASE carried' = carried /\ k' = k
      BY <3>3, <3>5
    <3>6. CASE carried' = Append(carried, <<>>) /\ k' = k + 1 /\ k <= Len(list)
      <4>1. Len(list) \in Nat
        BY <3>3
      <4>2. QED
        BY <3>2, <3>3, <3>6, <4>1
    <3>7. QED
      BY <3>4, <3>5, <3>6
  <2>2. TypeOK'
    BY <1>0, <1>6 DEF TypeInv, TypeOK, Walk, Waiting, Inside
  <2>3. pc' \in Inside \union {"xfer"} => k' <= Len(list') /\ ~pkt'.skip /\ us' > 0
    BY <1>0, <1>6 DEF TypeInv, Walk, Inside, pkt
  <2>4. QED
    BY <1>6, <2>1, <2>2, <2>3 DEF TypeInv, Walk, pkt
<1>7. CASE AfterXfer
  <2>1. carried' \in Seq(Seq(Event)) /\ Len(carried') = k' - 1 /\ k' \in 1..(Len(list) + 1)
    <3>1. /\ Append(carried, frame) \in Seq(Seq(Event))
          /\ Len(Append(carried, frame)) = Len(carried) + 1
      BY DEF TypeInv
    <3>2. carried \in Seq(Seq(Event)) /\ Len(carried) = k - 1 /\ list \in Seq(Packet)
          /\ k \in 1..(Len(list) + 1) /\ k <= Len(list)
      BY <1>7 DEF TypeInv, AfterXfer, Inside
    <3>3. \/ carried' = carried /\ k' = k
          \/ carried' = Append(carried, frame) /\ k' = k + 1
      BY <1>7 DEF AfterXfer
    <3>4. Len(list) \in Nat
      BY <3>2
    <3>5. CASE carried' = carried /\ k' = k
      BY <3>2, <3>5
    <3>6. CASE carried' = Append(carried, frame) /\ k' = k + 1
      BY <3>1, <3>2, <3>4, <3>6
    <3>7. QED
      BY <3>3, <3>5, <3>6
  <2>2. TypeOK' /\ hcBusy' \in BOOLEAN
    <3>1. us > 0 /\ us \in 0..PollUs
      BY <1>7 DEF TypeInv, TypeOK, AfterXfer, Inside
    <3>2. us' \in 0..PollUs
      BY <1>0, <1>7, <3>1 DEF AfterXfer, UsLeft
    <3>3. /\ pc' \in {"returned", "walk", "xfer"} /\ hcBusy' = FALSE
          /\ ret' \in {"ok", "not_sup", "poll", "start", "transfer", "end"}
          /\ dma' \in {"none", "own", "old"} /\ cmplt' \in {"clear", "own", "old"}
      BY <1>7 DEF TypeInv, TypeOK, AfterXfer, NoLongerBusy
    <3>4. UNCHANGED <<ctl, answer, adj, cs, mem, chip>>
      BY <1>7 DEF AfterXfer
    <3>5. QED
      BY <3>2, <3>3, <3>4 DEF TypeInv, TypeOK, Waiting, Inside
  <2>3. pc' \in Inside \union {"xfer"} => k' <= Len(list') /\ ~pkt'.skip /\ us' > 0
    BY <1>0, <1>7 DEF TypeInv, AfterXfer, Inside, pkt
  <2>4. frame' \in Seq(Event)
    BY <1>7, EmptySeq DEF AfterXfer
  <2>5. QED
    BY <1>7, <2>1, <2>2, <2>3, <2>4 DEF TypeInv, AfterXfer, pkt
<1>8. CASE HcXfer
  <2>1. /\ pkt.phases \o Data(pkt) \in Seq(Phase \union {"data"})
        /\ pkt.cs \in {"REGULAR", "ASSERT", "KEEP", "DEASSERT"}
    BY <1>8, PacketType DEF TypeInv, HcXfer, Packet
  <2>2. \A b \in Buffers(pkt) : (IF b[2] = "none" THEN b[1] ELSE b[2]) \in {"old", "new"}
    BY DEF Buffers
  <2>3. ~hcBusy /\ pc = "xfer" /\ hcBusy' = TRUE
    BY <1>8 DEF TypeInv, TypeOK, HcXfer, Inside
  <2>4. ram' \in {"old", "new"} /\ line' \in {"none", "old", "new"}
    BY <1>8, <2>2, <2>3 DEF TypeInv, TypeOK, HcXfer
  <2>5. /\ todo' \in Seq(Phase \union {"data"}) /\ pc' \in Inside
        /\ ret' \in {"ok", "not_sup", "poll", "start", "transfer", "end"}
        /\ cmplt' \in {"clear", "own", "old"} /\ blind' \in BOOLEAN
    BY <1>8, <2>1, <2>3 DEF TypeInv, TypeOK, HcXfer, ClearStatus, Inside
  <2>6. TypeOK'
    BY <1>8, <2>1, <2>3, <2>4, <2>5 DEF TypeInv, TypeOK, HcXfer
  <2>7. QED
    BY <1>8, <2>3, <2>5, <2>6 DEF TypeInv, HcXfer, pkt
<1>9. CASE IoStart
  BY <1>9 DEF TypeInv, TypeOK, IoStart, Waiting, Inside, pkt
<1>10. CASE CsStart
  <2>1. frame' \in Seq(Event)
    <3>1. frame \in Seq(Event) /\ "select" \in Event
      BY DEF TypeInv, Event
    <3>2. frame' = frame \/ frame' = Append(frame, "select")
      BY <1>10 DEF CsStart
    <3>3. QED
      BY <3>1, <3>2, FrameType
  <2>2. TypeOK'
    BY <1>10 DEF TypeInv, TypeOK, CsStart, Waiting, Inside
  <2>3. QED
    BY <1>10, <2>1, <2>2 DEF TypeInv, CsStart, Inside, pkt
<1>11. CASE Send
  <2>1. Head(todo) \in Phase \union {"data"} /\ Tail(todo) \in Seq(Phase \union {"data"})
    BY <1>11 DEF TypeInv, Send
  <2>2. chip' \in {"ready", "busy"} /\ answer' \in {"none", "ready", "busy"}
    BY <1>11 DEF TypeInv, TypeOK, Send, Started
  <2>3. frame' \in Seq(Event)
    BY <1>11, <2>1 DEF TypeInv, TypeOK, Send, Event
  <2>4. QED
    BY <1>11, <2>1, <2>2, <2>3 DEF TypeInv, TypeOK, Send, Waiting, Inside, pkt
<1>12. CASE SendFail
  BY <1>12 DEF TypeInv, TypeOK, SendFail, ErrDeassert, Started, Waiting, Inside, pkt
<1>13. CASE AllSent
  BY <1>13 DEF TypeInv, TypeOK, AllSent, Waiting, Inside, pkt
<1>14. CASE DmaStart
  BY <1>14 DEF TypeInv, TypeOK, DmaStart, Waiting, Inside, pkt
<1>15. CASE DmaDone
  <2>1. Tail(todo) \in Seq(Phase \union {"data"})
    <3>1. todo = <<"data">>
      BY <1>15 DEF SendInv, DmaDone
    <3>2. todo \in Seq(Phase \union {"data"}) /\ Len(todo) = 1
      BY <3>1 DEF TypeInv
    <3>3. QED
      BY <3>2
  <2>2. QED
    BY <1>15, <2>1 DEF TypeInv, TypeOK, DmaDone, Started, Invalidated, Waiting, Inside, pkt
<1>16. CASE DmaTimeout
  BY <1>16 DEF TypeInv, TypeOK, DmaTimeout, ErrDeassert, Waiting, Inside, pkt
<1>17. CASE CsEnd
  <2>1. frame' \in Seq(Event)
    <3>1. frame \in Seq(Event) /\ "deselect" \in Event
      BY DEF TypeInv, Event
    <3>2. frame' = frame \/ frame' = Append(frame, "deselect")
      BY <1>17 DEF CsEnd
    <3>3. QED
      BY <3>1, <3>2, FrameType
  <2>2. TypeOK'
    BY <1>17 DEF TypeInv, TypeOK, CsEnd, Waiting, Inside
  <2>3. QED
    BY <1>17, <2>1, <2>2 DEF TypeInv, CsEnd, Inside, pkt
<1>18. CASE IoEnd
  BY <1>18 DEF TypeInv, TypeOK, IoEnd, Waiting, Inside, pkt
<1>19. CASE DmaMoves
  <2>1. frame' \in Seq(Event)
    <3>1. frame \in Seq(Event) /\ "data" \in Event /\ "junk" \in Event
      BY DEF TypeInv, Event
    <3>2. frame' = frame \/ frame' = Append(frame, "data") \/ frame' = Append(frame, "junk")
      BY <1>19 DEF DmaMoves
    <3>3. QED
      BY <3>1, <3>2, FrameType
  <2>2. TypeOK'
    BY <1>19 DEF TypeInv, TypeOK, DmaMoves, Waiting, Inside
  <2>3. QED
    BY <1>19, <2>1, <2>2 DEF TypeInv, DmaMoves, Inside, pkt
<1>20. CASE Prefetch
  BY <1>20 DEF TypeInv, TypeOK, Prefetch, Waiting, Inside, pkt
<1>21. CASE ChipReady
  <2>1. TypeOK'
    BY <1>21 DEF TypeInv, TypeOK, ChipReady, Waiting, Inside
  <2>2. QED
    BY <1>21, <2>1 DEF TypeInv, ChipReady, pkt
<1> HIDE DEF Goto, GiveUp, walk, pins, mem, tuning, ghosts
<1>22. adj \in Delays
  BY DEF TypeInv, Delays
<1>23. ASSUME adj' \in Delays,
              UNCHANGED <<walk, pc, ctl, todo, us, answer, ret, hcBusy, pins, dma, cmplt, mem,
                          chip, ghosts>>
       PROVE  TypeInv'
  <2>1. TypeOK'
    BY <1>23 DEF TypeInv, TypeOK, Delays, walk, pins, mem, ghosts
  <2>2. QED
    BY <1>23, <2>1 DEF TypeInv, Delays, walk, pins, mem, ghosts, pkt
<1>24. ASSUME NEW eye \in device.eyes,
              CalibratePoint(eye) \/ CalibrateDqs(eye) \/ CalibrateFail(eye)
       PROVE  TypeInv'
  <2>1. UNCHANGED <<walk, pc, ctl, todo, us, answer, ret, hcBusy, pins, dma, cmplt, mem,
                    chip, ghosts>>
    BY <1>24 DEF CalibratePoint, CalibrateDqs, CalibrateFail
  <2>2. CASE CalibratePoint(eye)
    <3>1. eye.good \in SUBSET (0..7)
      BY <2>2, DeviceAssumption DEF TypeInv, CalibratePoint
    <3>2. eye.good # {} => Middle(eye.good) \in 0..7
      BY <3>1, MiddleOf
    <3>3. \E x \in 0..7 : adj' = [adj EXCEPT !.point = x]
      BY <2>2, <3>2 DEF CalibratePoint
    <3>4. QED
      BY <1>22, <1>23, <2>1, <3>3, DelaysType
  <2>3. CASE CalibrateDqs(eye)
    <3>1. eye.good \in [Columns -> SUBSET Nat]
      BY <2>3, DeviceAssumption DEF TypeInv, CalibrateDqs
    <3>2. ASSUME NEW c \in Columns, Read(eye, c) # {}
          PROVE  Middle(Read(eye, Widest(eye))) \in 0..30 /\ Widest(eye) \in 0..7
      <4>1. Widest(eye) \in 0..7 /\ Read(eye, Widest(eye)) # {}
        BY <3>1, <3>2, WidestColumn DEF Columns
      <4>2. Read(eye, Widest(eye)) \in SUBSET (0..30)
        BY DEF Read, Tried
      <4>3. QED
        BY <4>1, <4>2, MiddleOf
    <3>3. \E x \in 0..31, y \in 0..255 : adj' = [adj EXCEPT !.dqs = x, !.sio = y]
      <4>1. CASE \A m \in Columns : Read(eye, m) = {}
        <5>1. adj' = [adj EXCEPT !.dqs = 30, !.sio = 7 * 32]
          BY <2>3, <4>1 DEF CalibrateDqs
        <5>2. 30 \in 0..31 /\ 7 * 32 \in 0..255
          OBVIOUS
        <5>3. QED
          BY <5>1, <5>2
      <4>2. CASE \E m \in Columns : Read(eye, m) # {}
        <5>1. Middle(Read(eye, Widest(eye))) \in 0..31 /\ Widest(eye) * 4 \in 0..255
          BY <3>2, <4>2
        <5>2. adj' = [adj EXCEPT !.dqs = Middle(Read(eye, Widest(eye))), !.sio = Widest(eye) * 4]
          BY <2>3, <4>2 DEF CalibrateDqs
        <5>3. QED
          BY <5>1, <5>2
      <4>3. QED
        BY <4>1, <4>2
    <3>4. QED
      BY <1>22, <1>23, <2>1, <3>3, DelaysType
  <2>4. CASE CalibrateFail(eye)
    <3>1. \A m \in Columns, n \in Tried : n \in 0..31 /\ m * 32 \in 0..255
      BY DEF Columns, Tried
    <3>2. \/ \E x \in 0..31, y \in 0..255 : adj' = [adj EXCEPT !.dqs = x, !.sio = y]
          \/ \E x \in 0..7 : adj' = [adj EXCEPT !.point = x]
      BY <2>4, <3>1 DEF CalibrateFail
    <3>3. QED
      BY <1>22, <1>23, <2>1, <3>2, DelaysType
  <2>5. QED
    BY <1>24, <2>2, <2>3, <2>4
<1>25. CASE UNCHANGED vars
  BY <1>25 DEF TypeInv, TypeOK, vars, pkt
<1>26. QED
  BY <1>1, <1>2, <1>3, <1>4, <1>5, <1>6, <1>7, <1>8, <1>9, <1>10, <1>11, <1>12, <1>13,
     <1>14, <1>15, <1>16, <1>17, <1>18, <1>19, <1>20, <1>21, <1>24, <1>25
     DEF Next, Application, Driver, Hardware
-----------------------------------------------------------------------------
(* Where the driver is in an operation *)

InPacket == Inside \union {"xfer"}

\* The packet at hand is one that the operation sends.
LEMMA AtPacket ==
    ASSUME TypeInv, pc \in InPacket, NEW o \in device.ops, NEW l \in 1..Len(o), Place(o, l)
    PROVE  <<l, k>> \in Live(o) /\ o[l][k] = pkt
<1>1. k \in 1..Len(list) /\ ~pkt.skip /\ list = o[l]
  BY DEF TypeInv, InPacket, Place
<1>2. <<l, k>> \in UNION {{m} \X (1..Len(o[m])) : m \in 1..Len(o)}
  BY <1>1
<1>3. QED
  BY <1>1, <1>2 DEF Live, pkt

\* A packet that polls reads, and deselects the chip at its end only if it selects it.
LEMMA PollReads ==
    ASSUME TypeInv, PlaceInv, pc \in InPacket, pkt.poll
    PROVE  pkt.data = "in" /\ pkt.cs \in {"REGULAR", "KEEP"}
<1>1. PICK o \in device.ops : \E l \in 1..Len(o) : Place(o, l)
  BY DEF PlaceInv, InPacket, Inside
<1>2. PICK l \in 1..Len(o) : Place(o, l)
  BY <1>1
<1>3. <<l, k>> \in Live(o) /\ o[l][k] = pkt
  BY <1>2, AtPacket
<1>4. device \in Devices
  BY DEF TypeInv
<1>5. \A p \in Live(o) : o[p[1]][p[2]].poll =>
         o[p[1]][p[2]].data = "in" /\ o[p[1]][p[2]].cs \in {"REGULAR", "KEEP"}
  BY <1>4, ListAssumption
<1>6. QED
  BY <1>3, <1>5
-----------------------------------------------------------------------------
(* What is sent *)

LEMMA FrameParts ==
    ASSUME TypeInv, pc \in InPacket
    PROVE  /\ pkt.phases \in Seq(Phase) /\ pkt.phases \in Seq(Event)
           /\ Sel(pkt) \in Seq(Event) /\ Opening(pkt) \in Seq(Event)
           /\ Data(pkt) \in Seq(Event) /\ Desel(pkt) \in Seq(Event)
           /\ Data(pkt) = IF pkt.data = "none" THEN <<>> ELSE <<"data">>
<1>1. list \in Seq(Packet) /\ k \in 1..Len(list)
  BY DEF TypeInv, InPacket
<1>2. pkt.phases \in Seq(Phase)
  BY <1>1, PacketType
<1>3. pkt.phases \in Seq(Event)
  BY <1>2, SeqMonotonic DEF Event
<1>4. <<>> \in Seq(Event) /\ <<"select">> \in Seq(Event) /\ <<"deselect">> \in Seq(Event)
      /\ <<"data">> \in Seq(Event)
  <2>1. "select" \in Event /\ "deselect" \in Event /\ "data" \in Event
    BY DEF Event
  <2>2. QED
    BY <2>1
<1>5. Sel(pkt) \in Seq(Event) /\ Data(pkt) \in Seq(Event) /\ Desel(pkt) \in Seq(Event)
  BY <1>4 DEF Sel, Data, Desel
<1>6. Sel(pkt) \o pkt.phases \in Seq(Event)
  BY <1>3, <1>5, ConcatProperties
<1>7. QED
  BY <1>2, <1>3, <1>5, <1>6 DEF Opening, Data

\* What comes next is a phase of the packet, or its data after all phases.
LEMMA NextToSend ==
    ASSUME TypeInv, SendInv, pc = "send", todo # <<>>
    PROVE  \/ \E i \in 0..(Len(pkt.phases) - 1) :
                 /\ Head(todo) # "data"
                 /\ Tail(todo) = SubSeq(pkt.phases, i + 2, Len(pkt.phases)) \o Data(pkt)
                 /\ Append(frame, Head(todo)) = Sel(pkt) \o SubSeq(pkt.phases, 1, i + 1)
           \/ todo = <<"data">> /\ frame = Opening(pkt) /\ Data(pkt) = <<"data">>
                 /\ pkt.data # "none"
<1>1. /\ pkt.phases \in Seq(Phase) /\ pkt.phases \in Seq(Event)
      /\ Sel(pkt) \in Seq(Event) /\ Data(pkt) \in Seq(Event)
      /\ Data(pkt) = IF pkt.data = "none" THEN <<>> ELSE <<"data">>
  BY FrameParts DEF InPacket, Inside
<1>2. PICK i \in 0..Len(pkt.phases) : SentUpTo(pkt, i)
  BY DEF SendInv
<1>3. PICK ph \in Seq(Event) : ph = pkt.phases
  BY <1>1
<1>4. CASE i < Len(pkt.phases)
  <2>1. i \in 0..(Len(ph) - 1)
    BY <1>3, <1>4
  <2>2. PICK d \in Seq(Event) : d = Data(pkt)
    BY <1>1
  <2>3. PICK b \in Seq(Event) : b = Sel(pkt)
    BY <1>1
  <2>4. /\ Head(SubSeq(ph, i + 1, Len(ph)) \o d) = ph[i + 1]
        /\ Tail(SubSeq(ph, i + 1, Len(ph)) \o d) = SubSeq(ph, i + 2, Len(ph)) \o d
    BY <2>1, RestOfSequence
  <2>5. Append(b \o SubSeq(ph, 1, i), ph[i + 1]) = b \o SubSeq(ph, 1, i + 1)
    BY <2>1, SentOfSequence
  <2>6. ph[i + 1] \in Phase
    BY <1>1, <1>3, <2>1
  <2>7. QED
    BY <1>2, <1>3, <2>1, <2>2, <2>3, <2>4, <2>5, <2>6 DEF SentUpTo, Phase
<1>5. CASE i = Len(pkt.phases)
  <2>1. SubSeq(ph, i + 1, Len(ph)) = <<>> /\ SubSeq(ph, 1, i) = ph
    <3>1. SubSeq(ph, i + 1, Len(ph)) = <<>>
      BY <1>3, <1>5, SubSeqEmpty
    <3>2. SubSeq(ph, 1, i) = ph
      BY <1>3, <1>5, SubSeqFull
    <3>3. QED
      BY <3>1, <3>2
  <2>2. <<>> \o Data(pkt) = Data(pkt)
    BY <1>1, ConcatEmptySeq
  <2>3. todo = Data(pkt) /\ frame = Sel(pkt) \o pkt.phases
    BY <1>2, <1>3, <2>1, <2>2 DEF SentUpTo
  <2>4. QED
    BY <1>1, <2>3 DEF Opening
<1>6. QED
  <2>1. Len(pkt.phases) \in Nat
    BY <1>1
  <2>2. i < Len(pkt.phases) \/ i = Len(pkt.phases)
    BY <2>1
  <2>3. QED
    BY <1>4, <1>5, <2>2, Zenon

\* When nothing is left the chip has seen all of it.
LEMMA NothingLeft ==
    ASSUME TypeInv, SendInv, PlaceInv, pc = "send", todo = <<>>
    PROVE  frame = Full(pkt) /\ ~ByDma(pkt)
<1>1. /\ pkt.phases \in Seq(Phase) /\ pkt.phases \in Seq(Event)
      /\ Sel(pkt) \in Seq(Event) /\ Opening(pkt) \in Seq(Event)
      /\ Data(pkt) = IF pkt.data = "none" THEN <<>> ELSE <<"data">>
  BY FrameParts DEF InPacket, Inside
<1>2. CASE frame = Full(pkt) /\ ~ByDma(pkt)
  BY <1>2
<1>3. ASSUME NEW i \in 0..Len(pkt.phases), SentUpTo(pkt, i)
      PROVE  frame = Full(pkt) /\ ~ByDma(pkt)
  <2>1. PICK ph \in Seq(Event) : ph = pkt.phases
    BY <1>1
  <2>2. PICK r \in Seq(Event) : r = SubSeq(ph, i + 1, Len(ph)) /\ Len(r) = Len(ph) - i
    <3>1. SubSeq(ph, i + 1, Len(ph)) \in Seq(Event) /\ Len(SubSeq(ph, i + 1, Len(ph))) = Len(ph) - i
      BY <1>3, <2>1
    <3>2. QED
      BY <3>1
  <2>3. PICK d \in Seq(Event) : d = Data(pkt)
    BY FrameParts DEF InPacket, Inside
  <2>4. r \o d = <<>>
    BY <1>3, <2>1, <2>2, <2>3 DEF SentUpTo
  <2>5. Len(r) = 0 /\ d = <<>>
    BY <2>4
  <2>6. i = Len(ph) /\ pkt.data = "none"
    BY <1>1, <1>3, <2>1, <2>2, <2>3, <2>5
  <2>7. ~pkt.poll /\ ~ByDma(pkt)
    BY <2>6, PollReads DEF ByDma, InPacket, Inside
  <2>8. frame = Opening(pkt)
    <3>1. SubSeq(ph, 1, i) = ph
      BY <2>6, SubSeqFull
    <3>2. QED
      BY <1>3, <2>1, <3>1 DEF SentUpTo, Opening
  <2>9. Full(pkt) = Opening(pkt) \o <<>>
    BY <1>1, <2>6, <2>7 DEF Full, Answered
  <2>10. QED
    BY <1>1, <2>7, <2>8, <2>9, ConcatEmptySeq
<1>4. QED
  BY <1>2, <1>3 DEF SendInv

\* The frame of a packet is the same while the packet and the answer are.
LEMMA SameFrame ==
    ASSUME UNCHANGED <<list, k>>
    PROVE  /\ pkt' = pkt /\ Data(pkt)' = Data(pkt) /\ Sel(pkt)' = Sel(pkt)
           /\ Desel(pkt)' = Desel(pkt) /\ Opening(pkt)' = Opening(pkt)
           /\ ByDma(pkt)' = ByDma(pkt)
           /\ answer' = answer \/ ~pkt.poll => Full(pkt)' = Full(pkt)
BY DEF pkt, Data, Sel, Desel, Opening, ByDma, Full, Answered

\* Outside the packets nothing is at the pins.
LEMMA SendOutside ==
    ASSUME pc' \in Waiting, frame' = <<>>, pc' \in {"walk", "xfer"} => ret' = "ok"
    PROVE  SendInv'
BY DEF SendInv, Waiting

LEMMA SendInit == Init => SendInv
BY DEF Init, SendInv, Waiting

LEMMA SendStep == TypeInv /\ SendInv /\ DmaInv /\ PlaceInv /\ [Next]_vars => SendInv'
<1> SUFFICES ASSUME TypeInv, SendInv, DmaInv, PlaceInv, [Next]_vars PROVE SendInv'
  OBVIOUS
<1> USE DEF Goto, GiveUp, walk, pins, mem, tuning, ghosts
<1>1. CASE Setup \/ Release \/ Finish
  BY <1>1, SendOutside DEF SendInv, Setup, Release, Finish, Waiting
<1>2. ASSUME NEW o \in device.ops, Operate(o) PROVE SendInv'
  BY <1>2, SendOutside DEF SendInv, Operate, HandOver, Waiting
<1>3. CASE NextList
  BY <1>3, SendOutside DEF SendInv, NextList, HandOver, Waiting
<1>4. CASE Walk
  BY <1>4, SendOutside DEF SendInv, Walk, Waiting
<1>5. CASE AfterXfer
  BY <1>5, SendOutside DEF SendInv, AfterXfer, Waiting
<1>6. ASSUME NEW eye \in device.eyes,
             CalibratePoint(eye) \/ CalibrateDqs(eye) \/ CalibrateFail(eye)
      PROVE  SendInv'
  BY <1>6, SendOutside DEF SendInv, CalibratePoint, CalibrateDqs, CalibrateFail, Waiting
<1>7. CASE HcXfer
  <2>1. ~hcBusy /\ pc = "xfer"
    BY <1>7 DEF TypeInv, TypeOK, HcXfer, Inside
  <2>2. /\ pc' \in {"io_start", "out"} /\ frame' = <<>> /\ ctl' = pkt.cs
        /\ todo' = pkt.phases \o Data(pkt)
        /\ pc' = "io_start" => ret' = "ok"
        /\ pc' = "out" => ret' = "not_sup"
    BY <1>7, <2>1 DEF SendInv, HcXfer, Waiting
  <2>3. UNCHANGED <<list, k>>
    BY <1>7 DEF HcXfer
  <2>4. QED
    BY <2>2, <2>3, SameFrame DEF SendInv, Waiting
<1>8. CASE IoStart
  <2>1. UNCHANGED <<list, k, todo, frame, ctl, answer>> /\ pc = "io_start"
    BY <1>8 DEF IoStart
  <2>2. \/ pc' = "cs_start" /\ ret' = ret
        \/ pc' = "out" /\ ret' = "start"
    BY <1>8 DEF IoStart
  <2>3. QED
    BY <2>1, <2>2, SameFrame DEF SendInv, Waiting
<1>9. CASE CsStart
  <2>1. /\ UNCHANGED <<list, k, todo, ctl, answer>> /\ pc = "cs_start" /\ ret = "ok"
        /\ todo = pkt.phases \o Data(pkt) /\ frame = <<>> /\ ctl = pkt.cs
    BY <1>9 DEF CsStart, SendInv
  <2>2. CASE pc' = "out"
    BY <1>9, <2>1, <2>2, SameFrame DEF CsStart, SendInv, Waiting
  <2>3. CASE pc' = "send"
    <3>1. ret' = "ok" /\ frame' = Sel(pkt)
      BY <1>9, <2>1, <2>3 DEF CsStart, Sel
    <3>2. PICK ph \in Seq(Event), b \in Seq(Event) : ph = pkt.phases /\ b = Sel(pkt)
      BY <2>1, FrameParts DEF InPacket, Inside
    <3>3. SubSeq(ph, 0 + 1, Len(ph)) = ph /\ SubSeq(ph, 1, 0) = <<>>
      BY SubSeqFull, SubSeqEmpty
    <3>4. b \o <<>> = b
      BY ConcatEmptySeq
    <3>5. todo' = SubSeq(ph, 0 + 1, Len(ph)) \o Data(pkt) /\ frame' = b \o SubSeq(ph, 1, 0)
      BY <2>1, <3>1, <3>2, <3>3, <3>4
    <3>6. SentUpTo(pkt, 0)'
      BY <2>1, <3>2, <3>5, SameFrame DEF SentUpTo
    <3>7. 0 \in 0..Len(pkt'.phases)
      BY <2>1, <3>2, SameFrame
    <3>8. \E i \in 0..Len(pkt'.phases) : SentUpTo(pkt, i)'
      BY <3>6, <3>7
    <3>9. QED
      BY <2>1, <2>3, <3>1, <3>8, SameFrame DEF SendInv, Waiting
  <2>4. QED
    BY <1>9, <2>2, <2>3 DEF CsStart
<1>10. CASE Send
  <2>1. /\ UNCHANGED <<list, k, ctl, pc, ret>> /\ pc = "send" /\ todo # <<>> /\ ~DmaNext
        /\ ctl = pkt.cs /\ ret = "ok" /\ todo' = Tail(todo)
    BY <1>10 DEF Send, SendInv
  <2>2. \/ \E i \in 0..Len(pkt'.phases) : SentUpTo(pkt, i)'
        \/ todo' = <<>> /\ frame' = Full(pkt)' /\ ~ByDma(pkt)'
    <3>1. CASE todo = <<"data">> /\ frame = Opening(pkt) /\ Data(pkt) = <<"data">>
               /\ pkt.data # "none"
      <4>1. Head(todo) = "data" /\ todo' = <<>>
        BY <2>1, <3>1
      <4>2. ~ByDma(pkt)
        BY <2>1, <4>1 DEF DmaNext
      <4>3. frame' = Append(frame, IF pkt.poll THEN chip ELSE "data")
            /\ answer' = IF pkt.poll THEN chip ELSE answer
        BY <1>10, <4>1 DEF Send
      <4>4. PICK f \in Seq(Event) : f = Opening(pkt)
        BY <2>1, FrameParts DEF InPacket, Inside
      <4>5. chip \in Event /\ "data" \in Event
        BY DEF TypeInv, TypeOK, Event
      <4>6. Append(f, chip) = f \o <<chip>> /\ Append(f, "data") = f \o <<"data">>
        BY <4>5, AppendIsConcat
      <4>7. Full(pkt)' = IF pkt.poll THEN f \o <<chip>> ELSE f \o <<"data">>
        BY <2>1, <3>1, <4>3, <4>4, SameFrame DEF Full, Answered
      <4>8. frame' = Full(pkt)'
        BY <3>1, <4>3, <4>4, <4>6, <4>7
      <4>9. QED
        BY <2>1, <4>1, <4>2, <4>8, SameFrame
    <3>2. ASSUME NEW i \in 0..(Len(pkt.phases) - 1), Head(todo) # "data",
                 Tail(todo) = SubSeq(pkt.phases, i + 2, Len(pkt.phases)) \o Data(pkt),
                 Append(frame, Head(todo)) = Sel(pkt) \o SubSeq(pkt.phases, 1, i + 1)
          PROVE  \E j \in 0..Len(pkt'.phases) : SentUpTo(pkt, j)'
      <4>1. frame' = Append(frame, Head(todo))
        BY <1>10, <3>2 DEF Send
      <4>2. Len(pkt.phases) \in Nat
        BY <2>1, FrameParts DEF InPacket, Inside
      <4>3. i + 1 \in 0..Len(pkt.phases) /\ (i + 1) + 1 = i + 2
        BY <4>2
      <4>4. SentUpTo(pkt, i + 1)'
        BY <2>1, <3>2, <4>1, <4>3, SameFrame DEF SentUpTo
      <4>5. QED
        BY <2>1, <4>3, <4>4, SameFrame
    <3>3. QED
      BY <2>1, <3>1, <3>2, NextToSend
  <2>3. QED
    BY <2>1, <2>2, SameFrame DEF SendInv, Waiting
<1>11. CASE SendFail \/ DmaTimeout
  <2>1. pc' = "cs_end" /\ ret' = "transfer" /\ ctl' = "DEASSERT"
    BY <1>11 DEF SendFail, DmaTimeout, ErrDeassert
  <2>2. QED
    BY <2>1 DEF SendInv, Waiting
<1>12. CASE AllSent
  <2>1. /\ UNCHANGED <<list, k, ctl, answer, frame, ret, todo>> /\ pc = "send" /\ pc' = "cs_end"
        /\ ret = "ok" /\ ctl = pkt.cs /\ frame = Full(pkt)
    BY <1>12, NothingLeft DEF AllSent, SendInv
  <2>2. QED
    BY <2>1, SameFrame DEF SendInv, Waiting
<1>13. CASE DmaStart
  <2>1. /\ UNCHANGED <<list, k, ctl, answer, frame, ret, todo>> /\ pc = "send" /\ pc' = "dma"
        /\ ret = "ok" /\ ctl = pkt.cs /\ todo # <<>> /\ Head(todo) = "data" /\ ByDma(pkt)
    BY <1>13 DEF DmaStart, DmaNext, SendInv
  <2>2. todo = <<"data">>
    BY <2>1, NextToSend
  <2>3. QED
    BY <2>1, <2>2, SameFrame DEF SendInv, Waiting
<1>14. CASE DmaDone
  <2>1. /\ UNCHANGED <<list, k, ctl, answer, frame, ret, blind>> /\ pc = "dma" /\ pc' = "cs_end"
        /\ ret = "ok" /\ ctl = pkt.cs /\ cmplt # "clear"
    BY <1>14 DEF DmaDone, SendInv
  <2>2. ~blind => frame = Full(pkt)
    BY <2>1 DEF DmaInv
  <2>3. QED
    BY <2>1, <2>2, SameFrame DEF SendInv, Waiting
<1>15. CASE CsEnd
  <2>1. UNCHANGED <<list, k, ctl, answer, todo, blind>> /\ pc = "cs_end"
    BY <1>15 DEF CsEnd
  <2>2. CASE pc' = "out" /\ ret' = "end"
    BY <2>1, <2>2 DEF SendInv, Waiting
  <2>3. CASE pc' = "io_end" /\ ret' = ret
    <3>1. ASSUME ret = "ok", ~blind PROVE frame' = Full(pkt) \o Desel(pkt)
      <4>1. ctl = pkt.cs /\ frame = Full(pkt)
        BY <2>1, <3>1 DEF SendInv
      <4>2. PICK f \in Seq(Event) : f = Full(pkt)
        BY <4>1 DEF TypeInv
      <4>3. CASE Deselects(pkt.cs)
        <5>1. frame' = Append(f, "deselect") /\ Desel(pkt) = <<"deselect">>
          BY <1>15, <2>3, <4>1, <4>2, <4>3 DEF CsEnd, Desel
        <5>2. "deselect" \in Event
          BY DEF Event
        <5>3. QED
          BY <4>2, <5>1, <5>2, AppendIsConcat
      <4>4. CASE ~Deselects(pkt.cs)
        <5>1. frame' = f /\ Desel(pkt) = <<>>
          BY <1>15, <2>3, <4>1, <4>2, <4>4 DEF CsEnd, Desel
        <5>2. f \o <<>> = f
          BY ConcatEmptySeq
        <5>3. QED
          BY <4>2, <5>1, <5>2
      <4>5. QED
        BY <4>3, <4>4
    <3>2. QED
      BY <2>1, <2>3, <3>1, SameFrame DEF SendInv, Waiting
  <2>4. QED
    BY <1>15, <2>2, <2>3 DEF CsEnd
<1>16. CASE IoEnd
  <2>1. UNCHANGED <<list, k, ctl, answer, frame, todo, blind>> /\ pc = "io_end" /\ pc' = "out"
        /\ (ret' = "ok" => ret = "ok")
    BY <1>16 DEF IoEnd
  <2>2. QED
    BY <2>1, SameFrame DEF SendInv, Waiting
<1>17. CASE DmaMoves
  <2>1. UNCHANGED <<list, k, pc, ctl, todo, answer, ret, blind>>
    BY <1>17 DEF DmaMoves
  <2>2. CASE pc = "dma"
    BY <2>1, <2>2, SameFrame DEF SendInv, Waiting
  <2>3. CASE pc # "dma"
    <3>1. frame' = frame
      BY <1>17, <2>3 DEF DmaMoves
    <3>2. \A i : SentUpTo(pkt, i)' = SentUpTo(pkt, i)
      BY <2>1, <3>1, SameFrame DEF SentUpTo
    <3>3. QED
      BY <2>1, <2>3, <3>1, <3>2, SameFrame DEF SendInv, Waiting
  <2>4. QED
    BY <2>2, <2>3
<1>18. CASE Prefetch \/ ChipReady \/ UNCHANGED vars
  <2>1. UNCHANGED <<list, k, pc, ctl, todo, answer, ret, blind, frame>>
    BY <1>18 DEF Prefetch, ChipReady, vars
  <2>2. \A i : SentUpTo(pkt, i)' = SentUpTo(pkt, i)
    BY <2>1, SameFrame DEF SentUpTo
  <2>3. QED
    BY <2>1, <2>2, SameFrame DEF SendInv, Waiting
<1>19. QED
  BY <1>1, <1>2, <1>3, <1>4, <1>5, <1>6, <1>7, <1>8, <1>9, <1>10, <1>11, <1>12, <1>13,
     <1>14, <1>15, <1>16, <1>17, <1>18
     DEF Next, Application, Driver, Hardware
-----------------------------------------------------------------------------
(* The DMA *)

LEMMA DmaInit == Init => DmaInv
BY DEF Init, DmaInv, Waiting

\* A step that leaves DMA, memory and packet alone and does not begin or succeed.
LEMMA DmaSame ==
    ASSUME DmaInv, UNCHANGED <<list, k, dma, cmplt, ram, line, blind>>,
           \/ pc' \in Waiting /\ pc \in Waiting
           \/ pc' = "cs_start" /\ pc = "io_start"
           \/ pc' = "send" /\ pc \in {"cs_start", "send"}
           \/ pc' \in {"cs_end", "io_end", "out"} /\ ret' # "ok"
           \/ pc' \in {"io_end", "out"} /\ pc \in {"cs_end", "io_end"} /\ ret = "ok"
    PROVE  DmaInv'
BY SameFrame DEF DmaInv, Waiting

LEMMA DmaStep == TypeInv /\ SendInv /\ DmaInv /\ PlaceInv /\ [Next]_vars => DmaInv'
<1> SUFFICES ASSUME TypeInv, SendInv, DmaInv, PlaceInv, [Next]_vars PROVE DmaInv'
  OBVIOUS
<1> USE DEF Goto, GiveUp, walk, pins, mem, tuning, ghosts
<1>1. CASE Setup \/ Release \/ Finish \/ NextList \/ Walk \/ \E o \in device.ops : Operate(o)
  <2>1. pc \in Waiting /\ pc' \in Waiting /\ UNCHANGED dma /\ cmplt' \in {cmplt, "clear"}
    BY <1>1 DEF Setup, Release, Finish, NextList, Operate, HandOver, Walk, Waiting
  <2>2. QED
    BY <2>1 DEF DmaInv, Waiting
<1>2. CASE \E eye \in device.eyes :
               CalibratePoint(eye) \/ CalibrateDqs(eye) \/ CalibrateFail(eye)
  <2>1. UNCHANGED <<list, k, dma, cmplt, ram, line, blind, pc>> /\ pc = "idle"
    BY <1>2 DEF CalibratePoint, CalibrateDqs, CalibrateFail
  <2>2. QED
    BY <2>1, DmaSame DEF Waiting
<1>3. CASE AfterXfer
  <2>1. pc' \in Waiting /\ dma' # "own" /\ cmplt' # "own"
    BY <1>3 DEF AfterXfer, Waiting
  <2>2. QED
    BY <2>1 DEF DmaInv, Waiting
<1>4. CASE HcXfer
  <2>1. /\ ~hcBusy /\ pc = "xfer" /\ UNCHANGED <<list, k, dma>>
        /\ blind' = (dma = "old") /\ pc' \in {"io_start", "out"}
    BY <1>4 DEF TypeInv, TypeOK, HcXfer, Inside
  <2>2. dma \in {"none", "old"} /\ cmplt # "own"
    BY <2>1 DEF TypeInv, TypeOK, DmaInv, Waiting
  <2>3. CASE pc' = "out"
    <3>1. ret' = "not_sup"
      BY <1>4, <2>1, <2>3 DEF HcXfer
    <3>2. QED
      BY <2>3, <3>1 DEF DmaInv, Waiting
  <2>4. CASE pc' = "io_start" /\ ByDma(pkt)
    <3>1. cmplt' = "clear" /\ \E b \in Buffers(pkt) : ram' = IF b[2] = "none" THEN b[1] ELSE b[2]
      BY <1>4, <2>1, <2>4 DEF HcXfer, ClearStatus
    <3>2. pkt.data = "out" => ram' = "new"
      BY <3>1 DEF Buffers
    <3>3. QED
      BY <2>1, <2>2, <2>4, <3>1, <3>2, SameFrame DEF DmaInv, Waiting
  <2>5. CASE pc' = "io_start" /\ ~ByDma(pkt)
    <3>1. cmplt' = cmplt
      BY <1>4, <2>1, <2>5 DEF HcXfer
    <3>2. QED
      BY <2>1, <2>2, <2>5, <3>1, SameFrame DEF DmaInv, Waiting
  <2>6. QED
    BY <2>1, <2>3, <2>4, <2>5
<1>5. CASE IoStart
  <2>1. /\ UNCHANGED <<list, k, dma, cmplt, ram, line, blind>> /\ pc = "io_start"
        /\ \/ pc' = "cs_start"
           \/ pc' = "out" /\ ret' = "start"
    BY <1>5 DEF IoStart
  <2>2. QED
    BY <2>1, DmaSame
<1>6. CASE CsStart
  <2>1. /\ UNCHANGED <<list, k, dma, cmplt, ram, line, blind>> /\ pc = "cs_start"
        /\ \/ pc' = "send"
           \/ pc' = "out" /\ ret' = "start"
    BY <1>6 DEF CsStart
  <2>2. QED
    BY <2>1, DmaSame
<1>7. CASE Send
  <2>1. UNCHANGED <<list, k, dma, cmplt, ram, line, blind, pc>> /\ pc = "send"
    BY <1>7 DEF Send
  <2>2. QED
    BY <2>1, DmaSame
<1>8. CASE SendFail \/ DmaTimeout
  <2>1. /\ UNCHANGED <<list, k, dma, cmplt, ram, line, blind>>
        /\ pc' = "cs_end" /\ ret' = "transfer"
    BY <1>8 DEF SendFail, DmaTimeout, ErrDeassert
  <2>2. QED
    BY <2>1, DmaSame
<1>9. CASE AllSent
  <2>1. pc' = "cs_end" /\ UNCHANGED <<list, k>> /\ ~ByDma(pkt)
    BY <1>9, NothingLeft DEF AllSent
  <2>2. QED
    BY <2>1, SameFrame DEF DmaInv, Waiting
<1>10. CASE DmaStart
  <2>1. /\ UNCHANGED <<list, k, cmplt, ram, blind, frame>> /\ pc = "send" /\ pc' = "dma"
        /\ todo # <<>> /\ Head(todo) = "data" /\ ByDma(pkt) /\ dma' = "own"
    BY <1>10 DEF DmaStart, DmaNext
  <2>2. frame = Opening(pkt)
    BY <2>1, NextToSend
  <2>3. QED
    BY <2>1, <2>2, SameFrame DEF DmaInv, Waiting
<1>11. CASE DmaDone
  <2>1. /\ UNCHANGED <<list, k, cmplt, ram, blind, frame, dma>> /\ pc = "dma" /\ pc' = "cs_end"
        /\ cmplt # "clear" /\ line' = "none"
    BY <1>11 DEF DmaDone, Invalidated
  <2>2. QED
    BY <2>1, SameFrame DEF DmaInv, Waiting
<1>12. CASE CsEnd
  <2>1. /\ UNCHANGED <<list, k, dma, cmplt, ram, line, blind>> /\ pc = "cs_end"
        /\ \/ pc' = "io_end" /\ ret' = ret
           \/ pc' = "out" /\ ret' = "end"
    BY <1>12 DEF CsEnd
  <2>2. QED
    BY <2>1, DmaSame
<1>13. CASE IoEnd
  <2>1. /\ UNCHANGED <<list, k, cmplt, ram, line, blind>> /\ pc = "io_end" /\ pc' = "out"
        /\ dma' \in {"none", dma} /\ (ret' = "ok" => ret = "ok")
    BY <1>13 DEF IoEnd
  <2>2. QED
    BY <2>1, SameFrame DEF DmaInv, Waiting
<1>14. CASE DmaMoves
  <2>1. /\ UNCHANGED <<list, k, pc, answer, ret, blind, line>>
        /\ dma # "none" /\ dma' = "none" /\ cmplt' = dma
    BY <1>14 DEF DmaMoves
  <2>2. CASE pc = "dma" /\ dma = "own"
    <3>1. ByDma(pkt) /\ (pkt.data = "out" => ram = "new") /\ ram' = "new"
      BY <1>14, <2>2 DEF DmaMoves, SendInv, DmaInv
    <3>2. frame' = Append(frame, "data")
      BY <1>14, <2>2, <3>1 DEF DmaMoves
    <3>3. ASSUME ~blind PROVE frame' = Full(pkt)'
      <4>1. frame = Opening(pkt)
        BY <2>2, <3>3 DEF DmaInv
      <4>2. PICK f \in Seq(Event) : f = Opening(pkt)
        BY <4>1 DEF TypeInv
      <4>3. "data" \in Event
        BY DEF Event
      <4>4. Full(pkt) = f \o <<"data">>
        BY <3>1, <4>2 DEF Full, Answered, ByDma, Data
      <4>5. Full(pkt)' = Full(pkt)
        BY <2>1, SameFrame
      <4>6. QED
        BY <3>2, <4>1, <4>2, <4>3, <4>4, <4>5, AppendIsConcat
    <3>4. QED
      BY <2>1, <2>2, <3>1, <3>3, SameFrame DEF DmaInv, Waiting
  <2>3. CASE ~(pc = "dma" /\ dma = "own")
    <3>1. UNCHANGED <<ram, frame>>
      BY <1>14, <2>3 DEF DmaMoves
    <3>2. QED
      BY <2>1, <2>3, <3>1, SameFrame DEF DmaInv, Waiting
  <2>4. QED
    BY <2>2, <2>3
<1>15. CASE Prefetch
  <2>1. UNCHANGED <<list, k, pc, answer, ret, blind, dma, cmplt, ram, frame>> /\ dma = "own"
    BY <1>15 DEF Prefetch
  <2>2. QED
    BY <2>1, SameFrame DEF DmaInv, Waiting
<1>16. CASE ChipReady \/ UNCHANGED vars
  <2>1. UNCHANGED <<list, k, pc, answer, ret, blind, dma, cmplt, ram, frame, line>>
    BY <1>16 DEF ChipReady, vars
  <2>2. QED
    BY <2>1, SameFrame DEF DmaInv, Waiting
<1>17. QED
  BY <1>1, <1>2, <1>3, <1>4, <1>5, <1>6, <1>7, <1>8, <1>9, <1>10, <1>11, <1>12, <1>13,
     <1>14, <1>15, <1>16
     DEF Next, Application, Driver, Hardware
-----------------------------------------------------------------------------
(* The packets of an operation in their order *)

LEMMA LiveType ==
    ASSUME NEW o, NEW p \in Live(o)
    PROVE  /\ p[1] \in 1..Len(o) /\ p[2] \in 1..Len(o[p[1]]) /\ p = <<p[1], p[2]>>
           /\ ~o[p[1]][p[2]].skip
BY DEF Live

\* A packet that is skipped is none of them.
LEMMA LatestSkip ==
    ASSUME NEW o \in Seq(Seq(Packet)), NEW l \in 1..Len(o), NEW j \in 1..Len(o[l]),
           o[l][j].skip
    PROVE  Latest(o, l, j + 1) = Latest(o, l, j) /\ (Fresh(o, l, j + 1) <=> Fresh(o, l, j))
<1>1. ASSUME NEW p \in Live(o) PROVE Earlier(p, <<l, j + 1>>) <=> Earlier(p, <<l, j>>)
  <2>1. p[1] \in Int /\ p[2] \in Int /\ (p[1] = l => p[2] # j)
    BY <1>1, LiveType
  <2>2. QED
    BY <2>1 DEF Earlier
<1>2. QED
  BY <1>1 DEF Latest, Fresh

\* One that is sent is the latest for the next.
LEMMA LatestSent ==
    ASSUME NEW o \in Seq(Seq(Packet)), NEW l \in 1..Len(o), NEW j \in 1..Len(o[l]),
           <<l, j>> \in Live(o)
    PROVE  Latest(o, l, j + 1) = {<<l, j>>} /\ ~Fresh(o, l, j + 1)
<1>1. Earlier(<<l, j>>, <<l, j + 1>>)
  BY DEF Earlier
<1>2. ASSUME NEW p \in Live(o), Earlier(p, <<l, j + 1>>)
      PROVE  p = <<l, j>> \/ Earlier(p, <<l, j>>)
  <2>1. p[1] \in Int /\ p[2] \in Int /\ p = <<p[1], p[2]>>
    BY LiveType
  <2>2. QED
    BY <1>2, <2>1 DEF Earlier
<1>3. ASSUME NEW p \in Live(o) PROVE ~(Earlier(<<l, j>>, p) /\ Earlier(p, <<l, j + 1>>))
  <2>1. p[1] \in Int /\ p[2] \in Int
    BY LiveType
  <2>2. QED
    BY <2>1 DEF Earlier
<1>4. QED
  BY <1>1, <1>2, <1>3 DEF Latest, Fresh

\* Between two lists nothing is sent, and nothing before the first.
LEMMA LatestNextList ==
    ASSUME NEW o \in Seq(Seq(Packet)), NEW l \in 1..Len(o)
    PROVE  /\ Latest(o, l + 1, 1) = Latest(o, l, Len(o[l]) + 1)
           /\ Fresh(o, l + 1, 1) <=> Fresh(o, l, Len(o[l]) + 1)
<1>1. Len(o[l]) \in Nat
  OBVIOUS
<1>2. ASSUME NEW p \in Live(o)
      PROVE  Earlier(p, <<l + 1, 1>>) <=> Earlier(p, <<l, Len(o[l]) + 1>>)
  <2>1. p[1] \in 1..Len(o) /\ p[2] \in 1..Len(o[p[1]])
    BY LiveType
  <2>2. /\ p[1] \in Int /\ p[2] \in Int /\ p[2] >= 1 /\ Len(o[p[1]]) \in Nat
        /\ p[1] = l => p[2] <= Len(o[l])
    BY <2>1
  <2>3. QED
    BY <1>1, <2>2 DEF Earlier
<1>3. QED
  BY <1>2 DEF Latest, Fresh

LEMMA FreshFirst == \A o : Fresh(o, 1, 1)
<1> SUFFICES ASSUME NEW o, NEW p \in Live(o) PROVE ~Earlier(p, <<1, 1>>)
  BY DEF Fresh
<1>1. p[1] \in 1..Len(o) /\ p[2] \in 1..Len(o[p[1]])
  BY LiveType
<1>2. p[1] \in Int /\ p[1] >= 1 /\ p[2] \in Int /\ p[2] >= 1
  BY <1>1
<1>3. QED
  BY <1>2 DEF Earlier

\* Where nothing has been sent, nothing is held or begun.
LEMMA FreshIsEmpty ==
    \A o, l, j : Fresh(o, l, j) => Latest(o, l, j) = {} /\ ~Held(o, l, j) /\ ~Begun(o, l, j)
BY DEF Fresh, Latest, Held, Begun

\* After the last list everything has come to its end.
LEMMA EndOfLists ==
    ASSUME TypeInv, NEW o \in device.ops
    PROVE  LET l == Len(o)
               j == Len(o[l]) + 1
           IN  l \in 1..Len(o) /\ ~Fresh(o, l, j) /\ ~Held(o, l, j) /\ ~Begun(o, l, j)
<1> DEFINE l == Len(o)
           j == Len(o[l]) + 1
<1>1. o \in Seq(Seq(Packet)) /\ l \in 1..Len(o)
  BY OpsType DEF TypeInv
<1>2. Live(o) # {} /\ ~Held(o, l + 1, 1) /\ ~Begun(o, l + 1, 1)
  BY ListAssumption DEF TypeInv
<1>3. ~Fresh(o, l + 1, 1)
  <2>1. PICK p \in Live(o) : TRUE
    BY <1>2
  <2>2. p[1] \in 1..Len(o)
    BY LiveType
  <2>3. Earlier(p, <<l + 1, 1>>)
    BY <1>1, <2>2 DEF Earlier
  <2>4. QED
    BY <2>3 DEF Fresh
<1>4. Latest(o, l + 1, 1) = Latest(o, l, j) /\ (Fresh(o, l + 1, 1) <=> Fresh(o, l, j))
  BY <1>1, LatestNextList
<1>5. QED
  BY <1>1, <1>2, <1>3, <1>4 DEF Held, Begun

\* What the lists say of the packet at hand.
LEMMA AtHand ==
    ASSUME TypeInv, pc \in InPacket, NEW o \in device.ops, NEW l \in 1..Len(o), Place(o, l)
    PROVE  /\ o \in Seq(Seq(Packet)) /\ k \in 1..Len(o[l]) /\ pkt \in Packet
           /\ Selects(pkt.cs) <=> ~Held(o, l, k)
           /\ Begun(o, l, k) => pkt.poll
           /\ pkt.poll => pkt.data = "in" /\ pkt.cs \in {"REGULAR", "KEEP"}
           /\ Latest(o, l, k + 1) = {<<l, k>>} /\ ~Fresh(o, l, k + 1)
           /\ Held(o, l, k + 1) <=> ~Deselects(pkt.cs)
           /\ Begun(o, l, k + 1) <=> pkt.starts
<1>1. <<l, k>> \in Live(o) /\ o[l][k] = pkt
  BY AtPacket
<1>2. \A p \in Live(o) :
         /\ Selects(o[p[1]][p[2]].cs) <=> ~Held(o, p[1], p[2])
         /\ Begun(o, p[1], p[2]) => o[p[1]][p[2]].poll
         /\ o[p[1]][p[2]].poll =>
               o[p[1]][p[2]].data = "in" /\ o[p[1]][p[2]].cs \in {"REGULAR", "KEEP"}
  BY ListAssumption DEF TypeInv
<1>3. o \in Seq(Seq(Packet)) /\ k \in 1..Len(o[l])
  BY OpsType DEF TypeInv, InPacket, Place
<1>4. Latest(o, l, k + 1) = {<<l, k>>} /\ ~Fresh(o, l, k + 1)
  BY <1>1, <1>3, LatestSent
<1>5. Held(o, l, k + 1) <=> ~Deselects(pkt.cs)
  BY <1>1, <1>4 DEF Held
<1>6. Begun(o, l, k + 1) <=> pkt.starts
  BY <1>1, <1>4 DEF Begun
<1>7. pkt \in Packet
  BY <1>1, <1>3
<1>8. QED
  BY <1>1, <1>2, <1>3, <1>4, <1>5, <1>6, <1>7

-----------------------------------------------------------------------------
(* The chip select *)

LEMMA CsInit == Init => CsInv
BY DEF Init, CsInv

LEMMA CsStep == TypeInv /\ SendInv /\ CsInv /\ PlaceInv /\ [Next]_vars => CsInv'
<1> SUFFICES ASSUME TypeInv, SendInv, CsInv, PlaceInv, [Next]_vars PROVE CsInv'
  OBVIOUS
<1> USE DEF Goto, GiveUp, walk, pins, mem, tuning, ghosts
<1>0. ret \in {"ok", "not_sup", "poll", "start", "transfer", "end"} /\ cs \in {"high", "low"}
  BY DEF TypeInv, TypeOK
<1>1. CASE Setup \/ Release
  BY <1>1, SameFrame DEF CsInv, Setup, Release
<1>2. CASE NextList \/ \E o \in device.ops : Operate(o)
  BY <1>2 DEF CsInv, NextList, Operate, HandOver
<1>3. CASE Finish
  <2>1. /\ pc = "returned" /\ pc' = "idle" /\ UNCHANGED <<list, k, ret, cs, entered>>
        /\ ret = "ok" => lists = <<>>
    BY <1>3 DEF Finish
  <2>2. ASSUME ret = "ok" PROVE cs = "high"
    <3>1. PICK o, l : o \in device.ops /\ l \in 1..Len(o) /\ Place(o, l)
      BY <2>1 DEF PlaceInv
    <3>2. o \in Seq(Seq(Packet)) /\ l = Len(o) /\ k = Len(o[l]) + 1 /\ list = o[l]
      <4>1. o \in Seq(Seq(Packet))
        BY <3>1, OpsType DEF TypeInv
      <4>2. SubSeq(o, l + 1, Len(o)) = <<>>
        BY <2>1, <2>2, <3>1 DEF Place
      <4>3. l = Len(o)
        BY <3>1, <4>1, <4>2, RestOfList
      <4>4. QED
        BY <2>1, <2>2, <3>1, <4>1, <4>3 DEF Place
    <3>3. ~Fresh(o, l, k) /\ ~Held(o, l, k)
      BY <3>1, <3>2, EndOfLists
    <3>4. QED
      BY <2>1, <2>2, <3>1, <3>3 DEF Place, Level
  <2>3. QED
    BY <1>0, <2>1, <2>2, SameFrame DEF CsInv
<1>4. CASE Walk
  BY <1>4, SameFrame DEF SendInv, CsInv, Walk
<1>5. CASE AfterXfer
  <2>1. /\ pc = "out" /\ UNCHANGED <<list, cs, entered>>
        /\ \/ pc' = "returned" /\ ret' = ret /\ ret # "ok" /\ k' = k
           \/ pc' \in {"walk", "xfer"}
           \/ pc' = "returned" /\ ret' = "poll" /\ ret = "ok" /\ k' = k /\ pkt.poll
    BY <1>5 DEF AfterXfer
  <2>2. CASE pc' = "returned" /\ ret' = ret /\ ret # "ok" /\ k' = k
    BY <2>1, <2>2, SameFrame DEF CsInv
  <2>3. CASE pc' \in {"walk", "xfer"}
    BY <2>1, <2>3 DEF CsInv
  <2>4. CASE pc' = "returned" /\ ret' = "poll" /\ ret = "ok" /\ k' = k /\ pkt.poll
    <3>1. pkt.cs \in {"REGULAR", "KEEP"}
      BY <2>1, <2>4, PollReads DEF InPacket, Inside
    <3>2. cs = "low" => pkt.cs = "KEEP"
      BY <2>1, <2>4, <3>1 DEF CsInv, Deselects
    <3>3. QED
      BY <2>1, <2>4, <3>2, SameFrame DEF CsInv
  <2>5. QED
    BY <2>1, <2>2, <2>3, <2>4
<1>6. CASE HcXfer
  <2>1. /\ pc = "xfer" /\ UNCHANGED <<list, k, cs, entered>>
        /\ pc' = "io_start" \/ (pc' = "out" /\ ret' = "not_sup")
    BY <1>6 DEF TypeInv, TypeOK, HcXfer, Inside
  <2>2. cs = "low" => entered = "low" \/ pkt.cs \in {"KEEP", "DEASSERT"}
    <3>1. PICK o, l : o \in device.ops /\ l \in 1..Len(o) /\ Place(o, l)
      BY <2>1 DEF PlaceInv
    <3>2. pkt \in Packet /\ (Selects(pkt.cs) <=> ~Held(o, l, k))
      BY <2>1, <3>1, AtHand DEF InPacket
    <3>3. cs = Level(o, l) \/ cs = "high"
      BY <2>1, <3>1 DEF Place
    <3>4. cs = "low" => entered = "low" \/ ~Selects(pkt.cs)
      BY <3>2, <3>3 DEF Level
    <3>5. QED
      BY <3>2, <3>4 DEF Packet, Selects
  <2>3. QED
    BY <2>1, <2>2, SameFrame DEF CsInv
<1>7. CASE IoStart
  BY <1>7, SameFrame DEF CsInv, IoStart
<1>8. CASE CsStart
  <2>1. pc = "cs_start" /\ UNCHANGED <<list, k>> /\ ctl = pkt.cs
    BY <1>8 DEF CsStart, SendInv
  <2>2. CASE pc' = "out" /\ ret' = "start"
    BY <2>2 DEF CsInv
  <2>3. CASE pc' = "send"
    <3>1. ASSUME ~Deselects(pkt.cs) PROVE cs' = "low"
      <4>1. CASE Selects(ctl)
        BY <1>8, <2>3, <4>1 DEF CsStart
      <4>2. CASE ~Selects(ctl)
        <5>1. PICK o, l : o \in device.ops /\ l \in 1..Len(o) /\ Place(o, l)
          BY <2>1 DEF PlaceInv
        <5>2. Held(o, l, k)
          BY <2>1, <4>2, <5>1, AtHand DEF InPacket, Inside
        <5>3. ~Fresh(o, l, k)
          BY <5>2, FreshIsEmpty
        <5>4. cs = "low"
          BY <2>1, <3>1, <5>1, <5>2, <5>3 DEF Place, Level
        <5>5. QED
          BY <1>8, <4>2, <5>4 DEF CsStart
      <4>3. QED
        BY <4>1, <4>2
    <3>2. QED
      BY <2>1, <2>3, <3>1, SameFrame DEF CsInv
  <2>4. QED
    BY <1>8, <2>2, <2>3 DEF CsStart
<1>9. CASE Send \/ AllSent \/ DmaStart \/ DmaDone
  <2>1. /\ UNCHANGED <<list, k, cs, ret>>
        /\ pc \in {"send", "dma"} /\ pc' \in {"send", "dma", "cs_end"}
    BY <1>9 DEF Send, AllSent, DmaStart, DmaDone
  <2>2. QED
    BY <2>1, SameFrame DEF CsInv
<1>10. CASE SendFail \/ DmaTimeout
  <2>1. pc' = "cs_end" /\ ret' = "transfer"
    BY <1>10 DEF SendFail, DmaTimeout, ErrDeassert
  <2>2. QED
    BY <2>1 DEF CsInv
<1>11. CASE CsEnd
  <2>1. /\ pc = "cs_end" /\ UNCHANGED <<list, k>>
        /\ IF ret = "ok" THEN ctl = pkt.cs ELSE ret = "transfer" /\ ctl = "DEASSERT"
    BY <1>11 DEF CsEnd, SendInv
  <2>2. CASE pc' = "out" /\ ret' = "end"
    BY <2>2 DEF CsInv
  <2>3. CASE pc' = "io_end" /\ ret' = ret
    <3>1. cs' = IF Deselects(ctl) THEN "high" ELSE cs
      BY <1>11, <2>3 DEF CsEnd
    <3>2. ret = "ok" => cs' = IF Deselects(pkt.cs) THEN "high" ELSE "low"
      BY <2>1, <3>1 DEF CsInv
    <3>3. ret = "transfer" => cs' = "high"
      BY <2>1, <3>1 DEF Deselects
    <3>4. QED
      BY <2>1, <2>3, <3>2, <3>3, SameFrame DEF CsInv
  <2>4. QED
    BY <1>11, <2>2, <2>3 DEF CsEnd
<1>12. CASE IoEnd
  <2>1. /\ pc = "io_end" /\ pc' = "out" /\ UNCHANGED <<list, k, cs, entered>>
        /\ ret' \in {ret, "end"}
    BY <1>12 DEF IoEnd
  <2>2. ret # "not_sup"
    BY <1>12 DEF IoEnd, CsInv
  <2>3. QED
    BY <2>1, <2>2, SameFrame DEF CsInv
<1>13. CASE DmaMoves \/ Prefetch \/ ChipReady \/ UNCHANGED vars
  BY <1>13, SameFrame DEF CsInv, DmaMoves, Prefetch, ChipReady, vars
<1>14. CASE \E eye \in device.eyes :
                CalibratePoint(eye) \/ CalibrateDqs(eye) \/ CalibrateFail(eye)
  BY <1>14, SameFrame DEF CsInv, CalibratePoint, CalibrateDqs, CalibrateFail
<1>15. QED
  BY <1>1, <1>2, <1>3, <1>4, <1>5, <1>6, <1>7, <1>8, <1>9, <1>10, <1>11, <1>12, <1>13, <1>14
     DEF Next, Application, Driver, Hardware
-----------------------------------------------------------------------------
(* The chip *)

LEMMA ChipInit == Init => ChipInv
BY DEF Init, ChipInv

LEMMA ChipStep == TypeInv /\ SendInv /\ ChipInv /\ PlaceInv /\ [Next]_vars => ChipInv'
<1> SUFFICES ASSUME TypeInv, SendInv, ChipInv, PlaceInv, [Next]_vars PROVE ChipInv'
  OBVIOUS
<1> USE DEF Goto, GiveUp, walk, pins, mem, tuning, ghosts
<1>1. CASE Setup \/ Release
  BY <1>1 DEF ChipInv, Setup, Release
<1>2. CASE NextList \/ \E o \in device.ops : Operate(o)
  BY <1>2 DEF ChipInv, NextList, Operate, HandOver
<1>3. CASE Finish
  <2>1. /\ pc = "returned" /\ pc' = "idle" /\ UNCHANGED chip
        /\ lost' = (lost \/ (ret # "ok" /\ chip = "busy"))
        /\ ret = "ok" => lists = <<>>
    BY <1>3 DEF Finish
  <2>2. ASSUME ret = "ok", chip = "busy" PROVE lost
    <3>1. PICK o, l : o \in device.ops /\ l \in 1..Len(o) /\ Place(o, l)
      BY <2>1 DEF PlaceInv
    <3>2. o \in Seq(Seq(Packet)) /\ SubSeq(o, l + 1, Len(o)) = <<>>
      BY <2>1, <2>2, <3>1, OpsType DEF TypeInv, Place
    <3>3. l = Len(o)
      BY <3>1, <3>2, RestOfList
    <3>4. k = Len(o[l]) + 1
      BY <2>1, <2>2, <3>1 DEF Place
    <3>5. ~Begun(o, l, k)
      BY <3>1, <3>3, <3>4, EndOfLists
    <3>6. QED
      BY <2>1, <2>2, <3>1, <3>5 DEF Place
  <2>3. QED
    BY <2>1, <2>2 DEF ChipInv
<1>4. CASE Walk
  <2>1. pc = "walk" /\ UNCHANGED <<list, chip, lost>>
    BY <1>4 DEF Walk
  <2>2. CASE pc' # "xfer"
    BY <1>4, <2>2 DEF ChipInv, Walk
  <2>3. CASE pc' = "xfer"
    <3>1. k' = k /\ k \in 1..Len(list) /\ ~pkt.skip
      BY <1>4, <2>3 DEF Walk, TypeInv
    <3>2. PICK o, l : o \in device.ops /\ l \in 1..Len(o) /\ Place(o, l)
      BY <2>1 DEF PlaceInv
    <3>3. <<l, k>> \in Live(o) /\ o[l][k] = pkt
      <4>1. list = o[l]
        BY <3>2 DEF Place
      <4>2. <<l, k>> \in UNION {{m} \X (1..Len(o[m])) : m \in 1..Len(o)}
        BY <3>1, <3>2, <4>1
      <4>3. QED
        BY <3>1, <4>1, <4>2 DEF Live, pkt
    <3>4. \A p \in Live(o) : Begun(o, p[1], p[2]) => o[p[1]][p[2]].poll
      BY <3>2, ListAssumption DEF TypeInv
    <3>5. Begun(o, l, k) => pkt.poll
      BY <3>3, <3>4
    <3>6. chip = "busy" => lost \/ Begun(o, l, k)
      BY <2>1, <3>2 DEF Place
    <3>7. QED
      BY <2>1, <2>3, <3>1, <3>5, <3>6, SameFrame DEF ChipInv
  <2>4. QED
    BY <2>2, <2>3
<1>5. CASE AfterXfer
  <2>1. /\ pc = "out" /\ UNCHANGED <<list, chip, lost>>
        /\ \/ pc' \in {"returned", "walk"}
           \/ pc' = "xfer" /\ pkt.poll /\ k' = k
    BY <1>5 DEF AfterXfer
  <2>2. QED
    BY <2>1, SameFrame DEF ChipInv
<1>6. CASE HcXfer
  <2>1. /\ pc = "xfer" /\ UNCHANGED <<list, k, chip, lost>>
        /\ pc' = "io_start" \/ (pc' = "out" /\ ret' = "not_sup")
    BY <1>6 DEF TypeInv, TypeOK, HcXfer, Inside
  <2>2. QED
    BY <2>1, SameFrame DEF ChipInv
<1>7. CASE IoStart
  <2>1. /\ pc = "io_start" /\ UNCHANGED <<list, k, chip, lost>>
        /\ pc' = "cs_start" \/ (pc' = "out" /\ ret' = "start")
    BY <1>7 DEF IoStart
  <2>2. QED
    BY <2>1, SameFrame DEF ChipInv
<1>8. CASE CsStart
  <2>1. /\ pc = "cs_start" /\ UNCHANGED <<list, k, chip, lost, todo, answer>>
        /\ pc' = "send" \/ (pc' = "out" /\ ret' = "start")
    BY <1>8 DEF CsStart
  <2>2. ASSUME pkt.poll PROVE todo # <<>>
    <3>1. pkt.data = "in"
      BY <2>1, <2>2, PollReads DEF InPacket, Inside
    <3>2. todo = pkt.phases \o <<"data">>
      BY <2>1, <3>1 DEF SendInv, Data
    <3>3. PICK ph \in Seq(Event) : ph = pkt.phases
      BY <2>1, FrameParts DEF InPacket, Inside
    <3>4. "data" \in Event
      BY DEF Event
    <3>5. ph \o <<"data">> # <<>>
      BY <3>4
    <3>6. QED
      BY <3>2, <3>3, <3>5
  <2>3. chip = "busy" => lost \/ pkt.poll
    BY <2>1 DEF ChipInv
  <2>4. QED
    BY <2>1, <2>2, <2>3, SameFrame DEF ChipInv
<1>9. CASE Send
  <2>1. /\ pc = "send" /\ UNCHANGED <<list, k, pc, lost>> /\ todo # <<>>
        /\ chip' = IF pkt.starts /\ todo' = <<>> THEN "busy" ELSE chip
        /\ todo' = Tail(todo)
        /\ answer' = IF Head(todo) = "data" /\ pkt.poll THEN chip ELSE answer
    BY <1>9 DEF Send, Started
  <2>2. chip = "busy" => lost \/ pkt.poll
    BY <2>1 DEF ChipInv
  <2>3. ASSUME pkt.poll, todo' = <<>> PROVE Head(todo) = "data"
    <3>1. CASE todo = <<"data">>
      BY <3>1
    <3>2. ASSUME NEW i \in 0..(Len(pkt.phases) - 1),
                 Tail(todo) = SubSeq(pkt.phases, i + 2, Len(pkt.phases)) \o Data(pkt)
          PROVE  FALSE
      <4>1. Data(pkt) = <<"data">>
        BY <2>1, <2>3, PollReads DEF Data, InPacket, Inside
      <4>2. PICK ph \in Seq(Event) : ph = pkt.phases
        BY <2>1, FrameParts DEF InPacket, Inside
      <4>3. SubSeq(ph, i + 2, Len(ph)) \in Seq(Event)
        BY <3>2, <4>2
      <4>4. PICK r \in Seq(Event) : r = SubSeq(ph, i + 2, Len(ph))
        BY <4>3
      <4>5. "data" \in Event
        BY DEF Event
      <4>6. r \o <<"data">> # <<>>
        BY <4>5
      <4>7. QED
        BY <2>1, <2>3, <3>2, <4>1, <4>2, <4>4, <4>6
    <3>3. QED
      BY <2>1, <3>1, <3>2, NextToSend
  <2>4. CASE todo' = <<>>
    BY <2>1, <2>2, <2>3, <2>4, SameFrame DEF ChipInv
  <2>5. CASE todo' # <<>>
    BY <2>1, <2>2, <2>5, SameFrame DEF ChipInv
  <2>6. QED
    BY <2>4, <2>5
<1>10. CASE SendFail \/ DmaTimeout
  <2>1. pc' = "cs_end" /\ ret' = "transfer"
    BY <1>10 DEF SendFail, DmaTimeout, ErrDeassert
  <2>2. QED
    BY <2>1 DEF ChipInv
<1>11. CASE AllSent
  BY <1>11, SameFrame DEF ChipInv, AllSent
<1>12. CASE DmaStart
  BY <1>12, SameFrame DEF ChipInv, DmaStart, DmaNext
<1>13. CASE DmaDone
  <2>1. /\ pc = "dma" /\ pc' = "cs_end" /\ UNCHANGED <<list, k, lost, ret>>
        /\ chip' = IF pkt.starts /\ todo' = <<>> THEN "busy" ELSE chip
    BY <1>13 DEF DmaDone, Started
  <2>2. ~pkt.poll
    BY <2>1 DEF SendInv, ByDma
  <2>3. QED
    BY <2>1, <2>2, SameFrame DEF ChipInv
<1>14. CASE CsEnd
  <2>1. /\ pc = "cs_end" /\ UNCHANGED <<list, k, lost, chip, answer>>
        /\ \/ pc' = "io_end" /\ ret' = ret
           \/ pc' = "out" /\ ret' = "end"
    BY <1>14 DEF CsEnd
  <2>2. QED
    BY <2>1, SameFrame DEF ChipInv
<1>15. CASE IoEnd
  <2>1. /\ pc = "io_end" /\ UNCHANGED <<list, k, lost, chip, answer>> /\ pc' = "out"
        /\ ret' = "ok" => ret = "ok"
    BY <1>15 DEF IoEnd
  <2>2. QED
    BY <2>1, SameFrame DEF ChipInv
<1>16. CASE ChipReady
  BY <1>16 DEF ChipInv, ChipReady
<1>17. CASE \E eye \in device.eyes :
                CalibratePoint(eye) \/ CalibrateDqs(eye) \/ CalibrateFail(eye)
  <2>1. UNCHANGED <<list, k, pc, chip, lost, todo, ret, answer>> /\ pc = "idle"
    BY <1>17 DEF CalibratePoint, CalibrateDqs, CalibrateFail
  <2>2. QED
    BY <2>1, SameFrame DEF ChipInv
<1>18. CASE DmaMoves \/ Prefetch \/ UNCHANGED vars
  BY <1>18, SameFrame DEF ChipInv, DmaMoves, Prefetch, vars
<1>19. QED
  BY <1>1, <1>2, <1>3, <1>4, <1>5, <1>6, <1>7, <1>8, <1>9, <1>10, <1>11, <1>12, <1>13,
     <1>14, <1>15, <1>16, <1>17, <1>18
     DEF Next, Application, Driver, Hardware
-----------------------------------------------------------------------------
(* The place in the operation *)

LEMMA PlaceInit == Init => PlaceInv
BY DEF Init, PlaceInv

\* A step within a list that leaves the chip as it is, or makes it ready.
LEMMA PlaceSame ==
    ASSUME NEW o, NEW l, Place(o, l),
           UNCHANGED <<lists, list, k, cs, entered>>,
           (chip' = chip /\ lost' = lost) \/ chip' = "ready",
           \/ pc' = pc /\ ret' = ret
           \/ pc' = "returned" /\ ret' # "ok"
           \/ pc' \in {"send", "dma", "cs_end", "io_end", "out"}
           \/ pc' = "xfer" /\ pc = "walk"
           \/ pc' \in {"io_start", "cs_start"} /\ pc \in {"xfer", "io_start"}
           \/ pc' = "returned" /\ ret' = "ok" /\ pc = "walk" /\ k = Len(list) + 1
    PROVE  Place(o, l)'
<1>1. Level(o, l)' = Level(o, l) /\ pkt' = pkt
  BY DEF Level, pkt
<1>2. QED
  BY <1>1 DEF Place

LEMMA PlaceStep == TypeInv /\ SendInv /\ CsInv /\ ChipInv /\ PlaceInv /\ [Next]_vars => PlaceInv'
<1> SUFFICES ASSUME TypeInv, SendInv, CsInv, ChipInv, PlaceInv, [Next]_vars PROVE PlaceInv'
  OBVIOUS
<1> USE DEF Goto, GiveUp, walk, pins, mem, tuning, ghosts
<1>1. CASE Setup \/ Release \/ Finish
           \/ \E eye \in device.eyes :
                 CalibratePoint(eye) \/ CalibrateDqs(eye) \/ CalibrateFail(eye)
  BY <1>1 DEF PlaceInv, Setup, Release, Finish, CalibratePoint, CalibrateDqs, CalibrateFail
<1>2. ASSUME NEW o \in device.ops, Operate(o) PROVE PlaceInv'
  <2>1. o \in Seq(Seq(Packet)) /\ Len(o) > 0
    BY OpsType DEF TypeInv
  <2>2. Head(o) = o[1] /\ Tail(o) = SubSeq(o, 1 + 1, Len(o)) /\ 1 \in 1..Len(o)
    BY <2>1
  <2>3. /\ pc = "idle" /\ UNCHANGED <<device, cs, chip, lost>>
        /\ list' = Head(o) /\ lists' = Tail(o) /\ k' = 1 /\ entered' = cs /\ pc' = "walk"
    BY <1>2 DEF Operate, HandOver
  <2>4. cs' = Level(o, 1)'
    BY <2>3, FreshFirst DEF Level
  <2>5. chip' = "busy" => lost'
    BY <2>3 DEF ChipInv
  <2>6. Place(o, 1)'
    BY <2>2, <2>3, <2>4, <2>5 DEF Place
  <2>7. QED
    BY <2>2, <2>3, <2>6 DEF PlaceInv
<1>3. ASSUME pc \notin {"off", "idle"}, pc' \notin {"off", "idle"}
      PROVE  PlaceInv'
  <2>1. PICK o, l : o \in device.ops /\ l \in 1..Len(o) /\ Place(o, l)
    BY <1>3 DEF PlaceInv
  <2>2. device' = device
    BY <1>3 DEF Next, Application, Driver, Hardware, Setup, Release, Operate, NextList, HandOver,
             Finish, Walk, AfterXfer, HcXfer, IoStart, CsStart, Send, SendFail, AllSent, DmaStart,
             DmaDone, DmaTimeout, CsEnd, IoEnd, DmaMoves, Prefetch, ChipReady, CalibratePoint,
             CalibrateDqs, CalibrateFail, vars
  <2> SUFFICES Place(o, l)' \/ (l + 1 \in 1..Len(o) /\ Place(o, l + 1)')
    BY <2>1, <2>2 DEF PlaceInv
  <2>3. o \in Seq(Seq(Packet)) /\ l \in 1..Len(o)
    BY <2>1, OpsType DEF TypeInv
  <2>4. CASE NextList
    <3>1. /\ pc = "returned" /\ ret = "ok" /\ lists # <<>> /\ UNCHANGED <<cs, chip, lost, entered>>
          /\ list' = Head(lists) /\ lists' = Tail(lists) /\ k' = 1 /\ pc' = "walk"
      BY <2>4 DEF NextList, HandOver
    <3>2. /\ lists = SubSeq(o, l + 1, Len(o)) /\ k = Len(o[l]) + 1 /\ cs = Level(o, l)
          /\ chip = "busy" => lost \/ Begun(o, l, k)
      BY <2>1, <3>1 DEF Place
    <3>3. l + 1 \in 1..Len(o) /\ list' = o[l + 1] /\ lists' = SubSeq(o, l + 2, Len(o))
      BY <2>3, <3>1, <3>2, RestOfList
    <3>4. /\ Latest(o, l + 1, 1) = Latest(o, l, k)
          /\ Fresh(o, l + 1, 1) <=> Fresh(o, l, k)
      BY <2>3, <3>2, LatestNextList
    <3>5. Level(o, l + 1)' = Level(o, l)
      BY <3>1, <3>4 DEF Level, Held
    <3>6. Begun(o, l + 1, 1) <=> Begun(o, l, k)
      BY <3>4 DEF Begun
    <3>7. (l + 1) + 1 = l + 2
      BY <2>3
    <3>8. Place(o, l + 1)'
      BY <3>1, <3>2, <3>3, <3>5, <3>6, <3>7 DEF Place
    <3>9. QED
      BY <3>3, <3>8
  <2>5. CASE Walk
    <3>1. /\ pc = "walk" /\ ret = "ok" /\ UNCHANGED <<lists, list, cs, chip, lost, entered, ret>>
          /\ k \in 1..(Len(list) + 1) /\ list \in Seq(Packet) /\ list = o[l]
      BY <2>1, <2>5 DEF Walk, SendInv, TypeInv, Place
    <3>2. CASE k > Len(list) /\ pc' = "returned" /\ k' = k
      <4>1. k = Len(list) + 1
        BY <3>1, <3>2
      <4>2. QED
        BY <2>1, <3>1, <3>2, <4>1, PlaceSame
    <3>3. CASE k <= Len(list) /\ pkt.skip /\ k' = k + 1 /\ pc' = pc
      <4>1. o[l][k].skip /\ k \in 1..Len(o[l])
        BY <3>1, <3>3 DEF pkt
      <4>2. Latest(o, l, k') = Latest(o, l, k) /\ (Fresh(o, l, k') <=> Fresh(o, l, k))
        BY <2>3, <3>3, <4>1, LatestSkip
      <4>3. Level(o, l)' = Level(o, l)
        BY <3>1, <4>2 DEF Level, Held
      <4>4. Begun(o, l, k') <=> Begun(o, l, k)
        BY <4>2 DEF Begun
      <4>5. QED
        BY <2>1, <3>1, <3>3, <4>3, <4>4 DEF Place
    <3>4. CASE pc' = "xfer" /\ k' = k
      BY <2>1, <3>1, <3>4, PlaceSame
    <3>5. QED
      BY <2>5, <3>2, <3>3, <3>4 DEF Walk
  <2>6. CASE AfterXfer
    <3>1. pc = "out" /\ UNCHANGED <<lists, list, cs, chip, lost, entered, answer>>
      BY <2>6 DEF AfterXfer
    <3>2. /\ k \in 1..Len(o[l]) /\ pkt \in Packet /\ (Selects(pkt.cs) <=> ~Held(o, l, k))
          /\ Latest(o, l, k + 1) = {<<l, k>>} /\ ~Fresh(o, l, k + 1)
          /\ pkt.poll => pkt.cs \in {"REGULAR", "KEEP"}
          /\ Held(o, l, k + 1) <=> ~Deselects(pkt.cs)
          /\ Begun(o, l, k + 1) <=> pkt.starts
      BY <2>1, <3>1, AtHand DEF InPacket, Inside
    <3>3. ret = "ok" => /\ cs = IF Deselects(pkt.cs) THEN "high" ELSE "low"
                        /\ chip = "busy" => lost \/ pkt.starts \/ (pkt.poll /\ answer = "busy")
      BY <3>1 DEF CsInv, ChipInv
    <3>4. CASE ret = "ok" /\ (pkt.poll => answer = "ready") /\ k' = k + 1 /\ pc' = "walk"
      <4>1. Level(o, l)' = cs
        BY <3>1, <3>2, <3>3, <3>4 DEF Level
      <4>2. chip = "busy" => lost \/ Begun(o, l, k + 1)
        BY <3>2, <3>3, <3>4
      <4>3. QED
        BY <2>1, <3>1, <3>4, <4>1, <4>2 DEF Place
    <3>5. CASE ret = "ok" /\ pkt.poll /\ pc' = "xfer" /\ k' = k
      <4>1. ~Deselects(pkt.cs) => Held(o, l, k) /\ cs = "low"
        BY <3>2, <3>3, <3>5 DEF Selects, Deselects
      <4>2. ~Deselects(pkt.cs) => Level(o, l) = "low"
        BY <4>1, FreshIsEmpty DEF Level
      <4>3. Deselects(pkt.cs) => cs = "high"
        BY <3>3, <3>5
      <4>4. Level(o, l)' = Level(o, l) /\ pkt' = pkt
        BY <3>1, <3>5 DEF Level, pkt
      <4>5. QED
        BY <2>1, <3>1, <3>5, <4>1, <4>2, <4>3, <4>4 DEF Place
    <3>6. CASE pc' = "returned" /\ ret' # "ok" /\ k' = k
      BY <2>1, <3>1, <3>6, PlaceSame
    <3>7. QED
      BY <2>6, <3>4, <3>5, <3>6 DEF AfterXfer, PollDone
  <2>7. CASE HcXfer \/ IoStart
    <3>1. UNCHANGED <<lists, list, k, cs, entered, chip, lost>>
      BY <2>7 DEF HcXfer, IoStart
    <3>2. \/ pc' = "out"
          \/ pc' \in {"io_start", "cs_start"} /\ pc \in {"xfer", "io_start"}
      BY <2>7 DEF HcXfer, IoStart, TypeInv, TypeOK, Inside
    <3>3. QED
      BY <2>1, <3>1, <3>2, PlaceSame
  <2>8. CASE \/ CsStart \/ Send \/ SendFail \/ AllSent \/ DmaStart \/ DmaDone \/ DmaTimeout
             \/ CsEnd \/ IoEnd
    <3>1. UNCHANGED <<lists, list>> /\ pc' \in {"send", "dma", "cs_end", "io_end", "out"}
      BY <2>8 DEF CsStart, Send, SendFail, AllSent, DmaStart, DmaDone, DmaTimeout, CsEnd, IoEnd,
                  ErrDeassert
    <3>2. QED
      BY <2>1, <3>1 DEF Place
  <2>9. CASE DmaMoves \/ Prefetch \/ UNCHANGED vars
    <3>1. UNCHANGED <<lists, list, k, cs, entered, chip, lost, pc, ret>>
      BY <2>9 DEF DmaMoves, Prefetch, vars
    <3>2. QED
      BY <2>1, <3>1, PlaceSame
  <2>10. CASE ChipReady
    <3>1. UNCHANGED <<lists, list, k, cs, entered, pc, ret>> /\ chip' = "ready"
      BY <2>10 DEF ChipReady
    <3>2. QED
      BY <2>1, <3>1, PlaceSame
  <2>11. QED
    BY <1>1, <1>3, <2>4, <2>5, <2>6, <2>7, <2>8, <2>9, <2>10
       DEF Next, Application, Driver, Hardware, Setup, Release, Operate, Finish,
           CalibratePoint, CalibrateDqs, CalibrateFail
<1>4. CASE pc' \in {"off", "idle"}
  BY <1>4 DEF PlaceInv
<1>5. CASE pc \in {"off", "idle"} /\ pc' \notin {"off", "idle"}
  <2>1. CASE DmaMoves \/ Prefetch \/ ChipReady \/ UNCHANGED vars
    BY <1>5, <2>1 DEF DmaMoves, Prefetch, ChipReady, vars
  <2>2. CASE Driver
    BY <1>5, <2>2 DEF Driver, NextList, Finish, Walk, AfterXfer, HcXfer, IoStart, CsStart, Send,
                      SendFail, AllSent, DmaStart, DmaDone, DmaTimeout, CsEnd, IoEnd
  <2>3. QED
    BY <1>1, <1>2, <2>1, <2>2 DEF Next, Application, Hardware
<1>6. QED
  BY <1>3, <1>4, <1>5
-----------------------------------------------------------------------------
(* The invariant and what follows from it *)

LEMMA IInvStep == IInv /\ [Next]_vars => IInv'
BY TypeStep, SendStep, DmaStep, CsStep, ChipStep, PlaceStep DEF IInv

\* What is sent and still to be sent make up the packet, the DMA at work is its own,
\* and chip select and business of the chip follow the lists of the operation: for
\* every device whose lists are like those of the drivers, every number of polls, every
\* wait that times out and every moment at which the DMA moves (platform_xfer,
\* mxic_uefc_xfer).
THEOREM Invariant == Spec => []IInv
<1>1. Init => IInv
  BY TypeInit, SendInit, DmaInit, CsInit, ChipInit, PlaceInit DEF IInv
<1>2. QED
  BY <1>1, IInvStep, PTL DEF Spec

\* Every variable stays in its domain, and the controller is marked busy exactly while
\* a packet is in its driver, whichever of the ways out of mxic_uefc_xfer it takes.
THEOREM TypeCorrect == Spec => []TypeOK
<1>1. IInv => TypeOK
  BY DEF IInv, TypeInv
<1>2. QED
  BY <1>1, Invariant, PTL

\* After an operation the chip is selected only where a failure leaves it so
\* (mxic_uefc_err_dessert_cs, mxic_uefc_cs_end).
THEOREM ChipSelectReleased == Spec => []CsReleased
<1>1. IInv => CsReleased
  BY DEF IInv, CsInv, CsReleased
<1>2. QED
  BY <1>1, Invariant, PTL

\* A read by DMA leaves the caller with the bytes of the chip, whatever the cache held
\* and picked up meanwhile (mxic_uefc_dma_master_mode, Xil_DCacheInvalidateRange).
THEOREM ReadsAreFresh == Spec => []ReadsFresh
<1>1. IInv => ReadsFresh
  BY DEF IInv, DmaInv, ReadsFresh
<1>2. QED
  BY <1>1, Invariant, PTL

\* A busy chip is sent nothing but the polling of its status, whichever calls of
\* platform_xfer an operation is made of (exec_poll).
THEOREM ChipIsWaitedFor == Spec => WaitsForTheChip
<1>1. ASSUME IInv, [Next]_vars, frame' # frame, frame' # <<>>, chip = "busy"
      PROVE  frame'[Len(frame')] \in {"select", "deselect"} \/ pkt.poll \/ lost
  <2>1. frame \in Seq(Event) /\ "select" \in Event /\ "deselect" \in Event
    BY <1>1 DEF IInv, TypeInv, Event
  <2>2. \/ CsStart /\ frame' = Append(frame, "select")
        \/ CsEnd /\ frame' = Append(frame, "deselect")
        \/ Send
        \/ DmaMoves /\ pc = "dma"
    BY <1>1 DEF Next, Application, Driver, Hardware, Setup, Release, Operate, NextList, HandOver,
             Finish, Walk, AfterXfer, HcXfer, IoStart, CsStart, Send, SendFail, AllSent, DmaStart,
             DmaDone, DmaTimeout, CsEnd, IoEnd, DmaMoves, Prefetch, ChipReady, CalibratePoint,
             CalibrateDqs, CalibrateFail, vars, pins
  <2>3. CASE frame' = Append(frame, "select") \/ frame' = Append(frame, "deselect")
    BY <2>1, <2>3, FrameType
  <2>4. CASE Send \/ (DmaMoves /\ pc = "dma")
    <3>1. pc = "dma" \/ (pc = "send" /\ todo # <<>>)
      BY <2>4 DEF Send
    <3>2. QED
      BY <1>1, <3>1 DEF IInv, ChipInv
  <2>5. QED
    BY <2>2, <2>3, <2>4
<1>2. QED
  BY <1>1, Invariant, PTL DEF Spec, WaitsForTheChip
-----------------------------------------------------------------------------
(* The calibrated sample point *)

LEMMA EyeStep == TypeInv /\ InTheEye /\ [Next]_vars => InTheEye'
<1> SUFFICES ASSUME TypeInv, InTheEye, [Next]_vars PROVE InTheEye'
  OBVIOUS
<1>1. CASE UNCHANGED <<adj, tuned>>
  BY <1>1 DEF InTheEye
<1>2. CASE tuned' = {}
  BY <1>2 DEF InTheEye
<1>3. ASSUME NEW n \in Nat, NEW good \in SUBSET Nat, NEW S \in SUBSET (0..n), S # {},
             S \subseteq good, \A a, b \in good : (a + 1)..(b - 1) \subseteq good
      PROVE  Middle(S) \in good
  <2>1. Min(S) \in good /\ Max(S) \in good /\ Middle(S) \in Min(S)..Max(S)
    BY <1>3, MinMax, MiddleOf
  <2>2. Min(S) \in Nat /\ Max(S) \in Nat
    BY <2>1
  <2>3. \/ Middle(S) = Min(S)
        \/ Middle(S) = Max(S)
        \/ Middle(S) \in (Min(S) + 1)..(Max(S) - 1)
    BY <2>1, <2>2
  <2>4. (Min(S) + 1)..(Max(S) - 1) \subseteq good
    BY <1>3, <2>1
  <2>5. QED
    BY <2>1, <2>3, <2>4
<1>4. ASSUME NEW eye \in device.eyes, CalibratePoint(eye), tuned' # {}
      PROVE  InTheEye'
  <2>1. ~eye.dqs /\ eye.good \in SUBSET (0..7) /\ eye.good # {}
    BY <1>4, DeviceAssumption DEF TypeInv, CalibratePoint
  <2>2. tuned' = {[eye |-> eye, column |-> 0]}
    BY <1>4 DEF CalibratePoint
  <2>3. adj'.point = Middle(eye.good)
    BY <1>4, <2>1 DEF CalibratePoint, TypeInv, Delays
  <2>4. (\A a, b \in eye.good : (a + 1)..(b - 1) \subseteq eye.good) => Middle(eye.good) \in eye.good
    <3>1. eye.good \in SUBSET Nat
      BY <2>1
    <3>2. QED
      BY <1>3, <2>1, <3>1
  <2>5. QED
    BY <2>1, <2>2, <2>3, <2>4 DEF InTheEye
<1>5. ASSUME NEW eye \in device.eyes, CalibrateDqs(eye), tuned' # {}
      PROVE  InTheEye'
  <2> DEFINE w == Widest(eye)
  <2>1. eye.dqs /\ eye.good \in [Columns -> SUBSET Nat] /\ \E m \in Columns : Read(eye, m) # {}
    BY <1>5, DeviceAssumption DEF TypeInv, CalibrateDqs
  <2>2. /\ w \in Columns /\ Read(eye, w) # {}
        /\ \A j \in Columns : Read(eye, j) # {} => Span(eye, j) <= Span(eye, w)
    BY <2>1, WidestColumn
  <2>3. tuned' = {[eye |-> eye, column |-> w]}
    BY <1>5, <2>1 DEF CalibrateDqs
  <2>4. adj'.dqs = Middle(Read(eye, w))
    <3>1. adj' = [adj EXCEPT !.dqs = Middle(Read(eye, w)), !.sio = w * 4]
      BY <1>5, <2>1 DEF CalibrateDqs
    <3>2. adj \in [point : 0..7, dqs : 0..31, sio : 0..255]
      BY DEF TypeInv, Delays
    <3>3. QED
      BY <3>1, <3>2
  <2>5. (\A a, b \in eye.good[w] : (a + 1)..(b - 1) \subseteq eye.good[w])
           => Middle(Read(eye, w)) \in eye.good[w]
    <3>1. eye.good[w] \in SUBSET Nat /\ Read(eye, w) \subseteq eye.good[w]
      BY <2>1, <2>2 DEF Read
    <3>2. Read(eye, w) \in SUBSET (0..30)
      BY DEF Read, Tried
    <3>3. QED
      BY <1>3, <2>2, <3>1, <3>2
  <2>6. QED
    BY <2>1, <2>2, <2>3, <2>4, <2>5 DEF InTheEye
<1>6. QED
  <2>1. \/ UNCHANGED <<adj, tuned>>
        \/ tuned' = {}
        \/ \E eye \in device.eyes : CalibratePoint(eye) \/ CalibrateDqs(eye)
    BY DEF Next, Application, Driver, Hardware, Setup, Release, Operate, NextList, HandOver,
           Finish, Walk, AfterXfer, HcXfer, IoStart, CsStart, Send, SendFail, AllSent, DmaStart,
           DmaDone, DmaTimeout, CsEnd, IoEnd, DmaMoves, Prefetch, ChipReady, CalibrateFail, vars,
           tuning
  <2>2. QED
    BY <1>1, <1>2, <1>4, <1>5, <2>1

\* A calibration that passes leaves a point at which the pattern was read right, for
\* every eye that is one run of points, and a column as wide as any
\* (mxic_uefc_cali_dqs_dis, mxic_uefc_cali_dqs_en).
THEOREM CalibratedInTheEye == Spec => []InTheEye
<1>1. Init => InTheEye
  BY DEF Init, InTheEye
<1>2. TypeInv /\ InTheEye /\ [Next]_vars => InTheEye'
  BY EyeStep
<1>3. IInv => TypeInv
  BY DEF IInv
<1>4. QED
  BY <1>1, <1>2, <1>3, Invariant, PTL DEF Spec
-----------------------------------------------------------------------------
(* The refinement of PacketChannel *)

LEMMA FunctionAsSeq ==
    ASSUME NEW S, NEW n \in Nat, NEW f \in [1..n -> S]
    PROVE  f \in Seq(S) /\ Len(f) = n
<1>1. f \in Seq(S)
  BY SeqDef
<1>2. DOMAIN f = 1..n /\ DOMAIN f = 1..Len(f) /\ Len(f) \in Nat
  BY <1>1, LenProperties
<1>3. QED
  BY <1>1, <1>2

LEMMA WantedLength ==
    ASSUME list \in Seq(Packet)
    PROVE  /\ Len(WantedOf(list)) = Len(list)
           /\ \A j \in 1..Len(list) : WantedOf(list)[j] = Wanted(list[j])
<1>1. Len(list) \in Nat
  OBVIOUS
<1>2. PICK n \in Nat : n = Len(list)
  BY <1>1
<1>3. PICK f : f = [j \in 1..n |-> Wanted(list[j])]
  OBVIOUS
<1>4. WantedOf(list) = f
  BY <1>2, <1>3 DEF WantedOf
<1>5. f \in [1..n -> {Wanted(list[j]) : j \in 1..n}]
  BY <1>3
<1>6. f \in Seq({Wanted(list[j]) : j \in 1..n}) /\ Len(f) = n
  BY <1>5, FunctionAsSeq
<1>7. QED
  BY <1>2, <1>3, <1>4, <1>6

\* A frame that is added behind those carried.
LEMMA CarriedOn ==
    ASSUME NEW S, NEW c \in Seq(S), NEW f \in S
    PROVE  /\ Len(Append(c, f)) = Len(c) + 1 /\ SubSeq(Append(c, f), 1, Len(c)) = c
           /\ Append(c, f)[Len(Append(c, f))] = f
<1>1. PICK b \in Seq(S) : b = Append(c, f)
  <2>1. Append(c, f) \in Seq(S)
    OBVIOUS
  <2>2. QED
    BY <2>1, Zenon
<1>2. Len(b) = Len(c) + 1 /\ b[Len(b)] = f /\ \A j \in 1..Len(c) : b[j] = c[j]
  BY <1>1
<1>3. SubSeq(b, 1, Len(c)) = c
  <2>1. PICK d \in Seq(S) : d = SubSeq(b, 1, Len(c))
    BY <1>2
  <2>2. Len(d) = Len(c) /\ \A j \in 1..Len(c) : d[j] = b[j]
    BY <1>2, <2>1
  <2>3. d = c
    BY <1>2, <2>2, SeqEqual
  <2>4. QED
    BY <2>1, <2>3
<1>4. QED
  BY <1>1, <1>2, <1>3

\* A packet that is done has looked to the chip as wanted.
LEMMA FrameIsWanted ==
    ASSUME IInv, pc = "out", ret = "ok", ~blind, pkt.poll => answer = "ready"
    PROVE  frame = Wanted(pkt)
<1>1. frame = Full(pkt) \o Desel(pkt)
  BY DEF IInv, SendInv
<1>2. ~pkt.skip
  BY DEF IInv, TypeInv, Inside
<1>3. Answered(pkt) = IF pkt.poll THEN <<"ready">> ELSE Data(pkt)
  BY DEF Answered
<1>4. QED
  BY <1>1, <1>2, <1>3 DEF Full, Opening, Sel, Desel, Wanted

\* Every step is one of the channel, or none.
LEMMA ChannelStep == IInv /\ [Next]_vars => [Channel!Next]_Channel!vars
<1> SUFFICES ASSUME IInv, [Next]_vars PROVE [Channel!Next]_Channel!vars
  OBVIOUS
<1> USE DEF Goto, GiveUp, walk, pins, mem, tuning, ghosts
<1> DEFINE Result == IF pc \notin {"off", "idle", "returned"} THEN "busy"
                     ELSE IF ret = "ok" THEN "ok" ELSE "failed"
<1>1. /\ list \in Seq(Packet) /\ carried \in Seq(Seq(Event)) /\ frame \in Seq(Event)
      /\ k \in 1..(Len(list) + 1) /\ Len(carried) = k - 1 /\ Len(list) \in Nat
  BY DEF IInv, TypeInv
<1>2. list' = list => WantedOf(list)' = WantedOf(list)
  BY DEF WantedOf, Wanted, Data
<1>3. ASSUME UNCHANGED <<list, carried>>, Result' = Result PROVE Channel!Wait \/ UNCHANGED Channel!vars
  BY <1>2, <1>3 DEF Channel!Wait, Channel!vars
<1>4. CASE NextList \/ \E o \in device.ops : Operate(o)
  <2>1. Result # "busy" /\ Result' = "busy" /\ carried' = <<>>
    BY <1>4 DEF NextList, Operate, HandOver
  <2>2. Channel!Begin
    BY <2>1 DEF Channel!Begin
  <2>3. QED
    BY <2>2 DEF Channel!Next
<1>5. ASSUME NEW f \in Seq(Event), k <= Len(list), carried' = Append(carried, f),
             blind \/ f = Wanted(pkt), list' = list, Result = "busy", Result' = "busy"
      PROVE  Channel!Carry
  <2>1. Len(carried') = Len(carried) + 1 /\ SubSeq(carried', 1, Len(carried)) = carried
        /\ carried'[Len(carried')] = f
    BY <1>1, <1>5, CarriedOn
  <2>2. /\ Len(WantedOf(list)) = Len(list)
        /\ \A j \in 1..Len(list) : WantedOf(list)[j] = Wanted(list[j])
    BY <1>1, WantedLength
  <2>3. Len(carried') = k /\ k \in 1..Len(list)
    BY <1>1, <1>5, <2>1
  <2>4. Len(carried) < Len(WantedOf(list))
    BY <1>1, <1>5, <2>2
  <2>5. blind \/ carried'[Len(carried')] = WantedOf(list)[Len(carried')]
    BY <1>5, <2>1, <2>2, <2>3 DEF pkt
  <2>6. QED
    BY <1>2, <1>5, <2>1, <2>4, <2>5 DEF Channel!Carry
<1>6. ASSUME Result = "busy", Result' = "failed", UNCHANGED <<list, carried>>
      PROVE  Channel!Fail
  BY <1>2, <1>6 DEF Channel!Fail
<1>7. CASE Walk
  <2>1. pc = "walk" /\ UNCHANGED <<list, ret>> /\ ret = "ok"
    BY <1>7 DEF Walk, IInv, SendInv
  <2>2. CASE k > Len(list) /\ pc' = "returned" /\ carried' = carried
    <3>1. Len(carried) = Len(WantedOf(list))
      BY <1>1, <2>2, WantedLength
    <3>2. Channel!Succeed
      BY <1>2, <2>1, <2>2, <3>1 DEF Channel!Succeed
    <3>3. QED
      BY <3>2 DEF Channel!Next
  <2>3. CASE k <= Len(list) /\ pkt.skip /\ carried' = Append(carried, <<>>) /\ pc' = pc
    <3>1. <<>> \in Seq(Event) /\ Wanted(pkt) = <<>>
      BY <2>3, EmptySeq DEF Wanted
    <3>2. Channel!Carry
      BY <1>5, <2>1, <2>3, <3>1
    <3>3. QED
      BY <3>2 DEF Channel!Next
  <2>4. CASE pc' = "xfer" /\ carried' = carried
    BY <1>3, <2>1, <2>4 DEF Channel!Next
  <2>5. QED
    BY <1>7, <2>2, <2>3, <2>4 DEF Walk
<1>8. CASE AfterXfer
  <2>1. pc = "out" /\ list' = list
    BY <1>8 DEF AfterXfer
  <2>2. CASE pc' = "returned" /\ ret' # "ok" /\ carried' = carried
    <3>1. Channel!Fail
      BY <1>6, <2>1, <2>2
    <3>2. QED
      BY <3>1 DEF Channel!Next
  <2>3. CASE ret = "ok" /\ (pkt.poll => answer = "ready") /\ pc' = "walk"
             /\ carried' = Append(carried, frame)
    <3>1. blind \/ frame = Wanted(pkt)
      BY <2>1, <2>3, FrameIsWanted
    <3>2. k <= Len(list)
      BY <2>1 DEF IInv, TypeInv, Inside
    <3>3. Channel!Carry
      BY <1>1, <1>5, <2>1, <2>3, <3>1, <3>2
    <3>4. QED
      BY <3>3 DEF Channel!Next
  <2>4. CASE pc' = "xfer" /\ carried' = carried
    BY <1>3, <2>1, <2>4 DEF Channel!Next
  <2>5. QED
    BY <1>8, <2>2, <2>3, <2>4 DEF AfterXfer, PollDone
<1>9. CASE HcXfer
  <2>1. UNCHANGED <<list, carried>> /\ pc = "xfer" /\ pc' \in {"io_start", "out"}
    BY <1>9 DEF HcXfer, IInv, TypeInv, TypeOK, Inside
  <2>2. QED
    BY <1>3, <2>1 DEF Channel!Next
<1>10. CASE \/ IoStart \/ CsStart \/ Send \/ SendFail \/ AllSent \/ DmaStart \/ DmaDone
            \/ DmaTimeout \/ CsEnd \/ IoEnd
  <2>1. UNCHANGED <<list, carried>> /\ Result = "busy" /\ Result' = "busy"
    BY <1>10 DEF IoStart, CsStart, Send, SendFail, AllSent, DmaStart, DmaDone, DmaTimeout, CsEnd,
                 IoEnd, ErrDeassert
  <2>2. QED
    BY <1>3, <2>1 DEF Channel!Next
<1>11. CASE \/ Setup \/ Release \/ Finish \/ DmaMoves \/ Prefetch \/ ChipReady \/ UNCHANGED vars
            \/ \E eye \in device.eyes :
                  CalibratePoint(eye) \/ CalibrateDqs(eye) \/ CalibrateFail(eye)
  <2>1. UNCHANGED <<list, carried, ret>> /\ Result' = Result
    BY <1>11 DEF Setup, Release, Finish, DmaMoves, Prefetch, ChipReady, vars, CalibratePoint,
                 CalibrateDqs, CalibrateFail
  <2>2. QED
    BY <1>3, <2>1 DEF Channel!Next
<1>12. QED
  BY <1>4, <1>7, <1>8, <1>9, <1>10, <1>11 DEF Next, Application, Driver, Hardware

\* The platform implements PacketChannel, for every device whose lists are like those
\* of the drivers: whatever fails, and whenever the DMA and the chip do their part, the
\* chip is given the packets whole and in order, and all of them when the call succeeds
\* (platform_xfer, mxic_uefc_xfer).
THEOREM Refinement == Spec => IsPacketChannel
<1>1. Init => Channel!Init
  <2> SUFFICES ASSUME Init PROVE Channel!Init
    OBVIOUS
  <2>1. list = <<>> /\ carried = <<>> /\ pc = "off" /\ ret = "ok" /\ blind = FALSE
    BY DEF Init
  <2>2. list \in Seq(Packet)
    BY <2>1, EmptySeq
  <2>3. WantedOf(list) = <<>>
    BY <2>1 DEF WantedOf
  <2>4. QED
    BY <2>1, <2>3 DEF Channel!Init
<1>2. IInv /\ [Next]_vars => [Channel!Next]_Channel!vars
  BY ChannelStep
<1>3. QED
  BY <1>1, <1>2, Invariant, PTL DEF Spec, IsPacketChannel, Channel!Spec
=============================================================================
