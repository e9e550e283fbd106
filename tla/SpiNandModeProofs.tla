------------------------- MODULE SpiNandModeProofs -------------------------
(***************************************************************************)
(* Proofs about SpiNandMode, for every set of builds, with and without     *)
(* commands that fail and chips that ignore a SET FEATURE.                 *)
(***************************************************************************)
EXTENDS SpiNandMode, SequenceTheorems, TLAPS

StepType == [cmd : Cmds, f : Bits \union {"none"}, on : Flag]

\* The steps of the probe behind the parameter page, and those of everything else.
LaterSteps ==
    {Sync("ecc"), Set("ecc", 1), Sync("thre"), Set("thre", 1), Set("bp", 0)}
    \union (IF ContRd THEN {Sync("cont"), Set("cont", 1)} ELSE {})
CallSteps ==
    {Set("cont", 0), Set("ecc", 0), Set("ecc", 1), Restore} \union {Plain(c) : c \in Arrays}
    \union (IF ContRd THEN {Set("cont", 1)} ELSE {})

\* The probe has taken its first n steps; until the parameter page is read the
\* driver has no copies yet.
ProbeAt(n) ==
    /\ plan = SubSeq(ProbePlan, n + 1, Len(ProbePlan))
    /\ n < 3 => cache = [c \in Cached |-> 0]
    /\ n >= 3 => dev["otp"] = 0

\* What the plan is made of; a command of a step is out only while the step is there.
PlanInv ==
    /\ op \in {"off", "idle"} => plan = << >>
    /\ op = "probe" => \E n \in 0..(Len(ProbePlan) - 1) : ProbeAt(n)
    /\ op # "probe" => plan \in Seq(CallSteps)
    /\ op \notin {"off", "probe"} => dev["otp"] = 0 /\ dev["bp"] = 0
    /\ phase # "read" => Setting /\ ~Unsupported
    /\ ~ContRd => cache["cont"] = 0 /\ saved = 0

\* From when on the copy of a bit counts: the parameter page has been read, which
\* clears B0, and the register has been read where the probe does so.
Settled(c) ==
    /\ op # "off"
    /\ \A i \in 1..Len(plan) : plan[i].cmd \notin {"reset", "param"} /\ plan[i] # Sync(c)

CoherentInv ==
    \A c \in Kept4Type \ doubt :
        Settled(c) => cache[c] = dev[c] \/ (Setting /\ f = c /\ phase = "verify")

\* The mode a command relies on, as the copies should have it.
Relies(c, b, v) ==
    \/ b = "cont" /\ c = "stream_read" /\ v = 1
    \/ b = "cont" /\ c \in {"page_read", "oob_read"} /\ v = 0
    \/ b = "ecc" /\ c \in {"page_read", "stream_read", "program"} /\ v = IF Internal THEN 1 ELSE 0

\* Before the i-th step of p the last one to touch b sets it to v; or none touches it.
SetBefore(p, i, b, v) ==
    \E j \in 1..(i - 1) : p[j] = Set(b, v) /\ \A m \in (j + 1)..(i - 1) : p[m].f # b
Untouched(p, i, b) == \A m \in 1..(i - 1) : p[m].f # b

\* Every command of p finds its mode, with these copies to begin with.
Prepared(p, copies) ==
    \A i \in 1..Len(p), b \in {"cont", "ecc"}, v \in Flag :
        Relies(p[i].cmd, b, v) =>
            SetBefore(p, i, b, v) \/ (Untouched(p, i, b) /\ copies[b] = v)

\* Every command still to come will find its mode, or has it now.
PreparedInv == Prepared(plan, cache)

IInv == TypeOK /\ PlanInv /\ CoherentInv /\ PreparedInv
-----------------------------------------------------------------------------
(* Steps and plans *)

LEMMA CallStep ==
    ASSUME NEW s \in CallSteps
    PROVE  /\ s \in StepType
           /\ \/ s.cmd = "set" /\ s.f \in {"cont", "ecc"} /\ s = Set(s.f, s.on)
              \/ s = Restore /\ s.cmd = "restore" /\ s.f = "cont"
              \/ s.cmd \in Arrays /\ s.f = "none"
           /\ ~ContRd => s # Set("cont", 1)
<1>1. CASE s \in {Set("cont", 0), Set("ecc", 0), Set("ecc", 1), Restore}
  BY <1>1 DEF Set, Restore, Step, StepType, Cmds, Bits, Cached, Flag
<1>2. CASE s \in {Plain(c) : c \in Arrays}
  BY <1>2 DEF Plain, Set, Step, StepType, Cmds, Arrays, Bits, Cached, Flag
<1>3. CASE ContRd /\ s = Set("cont", 1)
  BY <1>3 DEF Set, Step, StepType, Cmds, Bits, Cached, Flag
<1>4. QED
  BY <1>1, <1>2, <1>3 DEF CallSteps

LEMMA LaterStep ==
    ASSUME NEW s \in LaterSteps
    PROVE  /\ s \in StepType
           /\ \/ s.cmd = "set" /\ s.f \in Cached /\ s = Set(s.f, s.on)
              \/ s.cmd = "set" /\ s.f = "bp" /\ s.on = 0
              \/ s.cmd = "sync" /\ s.f \in Cached /\ s = Sync(s.f)
           /\ ~ContRd => s.f # "cont"
BY DEF LaterSteps, Set, Sync, Step, StepType, Cmds, Bits, Cached, Flag

LEMMA TailFacts ==
    ASSUME NEW S, NEW q \in Seq(S), q # << >>
    PROVE  /\ Tail(q) \in Seq(S) /\ Len(Tail(q)) = Len(q) - 1 /\ Len(q) \in Nat \ {0}
           /\ \A i \in 1..(Len(q) - 1) : Tail(q)[i] = q[i + 1]
           /\ Head(q) = q[1] /\ q[1] \in S
OBVIOUS

LEMMA Regroup ==
    ASSUME NEW S, NEW h \in Seq(S), NEW a \in Seq(S), NEW c \in Seq(S), NEW z \in Seq(S)
    PROVE  ((h \o a) \o c) \o z = h \o ((a \o c) \o z)
<1>1. \A ac \in Seq(S) : (h \o ac) \o z = h \o (ac \o z)
  BY ConcatAssociative, SMTT(60)
<1>2. (h \o a) \o c = h \o (a \o c)
  BY ConcatAssociative, SMTT(60)
<1>3. a \o c \in Seq(S)
  BY ConcatProperties
<1>4. (h \o (a \o c)) \o z = h \o ((a \o c) \o z)
  BY <1>1, <1>3, Zenon
<1>5. QED
  BY <1>2, <1>4, Zenon

LEMMA ProbeParts ==
    /\ EccInit \in Seq(LaterSteps) /\ Len(EccInit) = 4 /\ EccInit[3] = Sync("thre")
    /\ If(EccType = "ECC_INTERNAL_SPI", EccInit) \in Seq(LaterSteps)
    /\ If(ContRd, << Sync("cont"), Set("cont", 1) >>) \in Seq(LaterSteps)
    /\ << Set("bp", 0) >> \in Seq(LaterSteps)
<1>1. /\ Sync("ecc") \in LaterSteps /\ Set("ecc", 1) \in LaterSteps
      /\ Sync("thre") \in LaterSteps /\ Set("thre", 1) \in LaterSteps
      /\ Set("bp", 0) \in LaterSteps
  BY DEF LaterSteps
<1>2. EccInit \in Seq(LaterSteps) /\ Len(EccInit) = 4 /\ EccInit[3] = Sync("thre")
  BY <1>1 DEF EccInit
<1>3. << Set("bp", 0) >> \in Seq(LaterSteps)
  BY <1>1
<1>4. If(EccType = "ECC_INTERNAL_SPI", EccInit) \in Seq(LaterSteps)
  BY <1>2, EmptySeq DEF If
<1>5. CASE ContRd
  <2>1. Sync("cont") \in LaterSteps /\ Set("cont", 1) \in LaterSteps
    BY <1>5 DEF LaterSteps
  <2>2. << Sync("cont"), Set("cont", 1) >> \in Seq(LaterSteps)
    BY <2>1
  <2>3. QED
    BY <1>2, <1>3, <1>4, <1>5, <2>2 DEF If
<1>6. CASE ~ContRd
  BY <1>2, <1>3, <1>4, <1>6, EmptySeq DEF If
<1>7. QED
  BY <1>5, <1>6

LEMMA ProbeRegrouped ==
    ProbePlan =
        << Plain("reset"), Plain("rdid"), Plain("param") >>
        \o ((If(EccType = "ECC_INTERNAL_SPI", EccInit)
             \o If(ContRd, << Sync("cont"), Set("cont", 1) >>)) \o << Set("bp", 0) >>)
<1>1. PICK Any : Any = LaterSteps \union {Plain("reset"), Plain("rdid"), Plain("param")}
  OBVIOUS
<1>2. LaterSteps \subseteq Any
  BY <1>1
<1>3. Seq(LaterSteps) \subseteq Seq(Any)
  BY <1>2, SeqMonotonic
<1>4. << Plain("reset"), Plain("rdid"), Plain("param") >> \in Seq(Any)
  <2>1. Plain("reset") \in Any /\ Plain("rdid") \in Any /\ Plain("param") \in Any
    BY <1>1
  <2>2. QED
    BY <2>1
<1>5. PICK h \in Seq(Any), a \in Seq(Any), c \in Seq(Any), z \in Seq(Any) :
         /\ h = << Plain("reset"), Plain("rdid"), Plain("param") >>
         /\ a = If(EccType = "ECC_INTERNAL_SPI", EccInit)
         /\ c = If(ContRd, << Sync("cont"), Set("cont", 1) >>)
         /\ z = << Set("bp", 0) >>
  BY <1>3, <1>4, ProbeParts, Zenon
<1>6. ((h \o a) \o c) \o z = h \o ((a \o c) \o z)
  BY Regroup, SMTT(60)
<1>7. QED
  BY <1>5, <1>6, Zenon DEF ProbePlan

\* The probe: three commands, and then the rest of the steps.
LEMMA ProbePlanRest ==
    \E t \in Seq(LaterSteps) :
        /\ ProbePlan = << Plain("reset"), Plain("rdid"), Plain("param") >> \o t
        /\ Len(t) > 0 /\ t[Len(t)] = Set("bp", 0)
        /\ EccType = "ECC_INTERNAL_SPI" => \E j \in 1..Len(t) : t[j] = Sync("thre")
<1>1. PICK a \in Seq(LaterSteps) :
         /\ a = If(EccType = "ECC_INTERNAL_SPI", EccInit)
         /\ EccType = "ECC_INTERNAL_SPI" => Len(a) = 4 /\ a[3] = Sync("thre")
  BY ProbeParts DEF If
<1>2. PICK c \in Seq(LaterSteps) : c = If(ContRd, << Sync("cont"), Set("cont", 1) >>)
  BY ProbeParts
<1>3. PICK z \in Seq(LaterSteps) : z = << Set("bp", 0) >> /\ Len(z) = 1 /\ z[1] = Set("bp", 0)
  <2>1. Len(<< Set("bp", 0) >>) = 1 /\ << Set("bp", 0) >>[1] = Set("bp", 0)
    OBVIOUS
  <2>2. QED
    BY ProbeParts, <2>1, Zenon
<1>4. PICK ac \in Seq(LaterSteps), t \in Seq(LaterSteps) : ac = a \o c /\ t = ac \o z
  <2>1. a \o c \in Seq(LaterSteps)
    BY ConcatProperties
  <2>2. PICK ac \in Seq(LaterSteps) : ac = a \o c
    BY <2>1
  <2>3. ac \o z \in Seq(LaterSteps)
    BY ConcatProperties
  <2>4. QED
    BY <2>2, <2>3
<1>5. ProbePlan = << Plain("reset"), Plain("rdid"), Plain("param") >> \o t
  BY <1>1, <1>2, <1>3, <1>4, ProbeRegrouped, Zenon
<1>6. Len(t) > 0 /\ t[Len(t)] = Set("bp", 0)
  BY <1>3, <1>4
<1>7. ASSUME EccType = "ECC_INTERNAL_SPI" PROVE \E j \in 1..Len(t) : t[j] = Sync("thre")
  <2>1. 3 \in 1..Len(t) /\ t[3] = a[3]
    BY <1>1, <1>4, <1>7
  <2>2. QED
    BY <1>1, <1>7, <2>1
<1>8. QED
  BY <1>5, <1>6, <1>7

LEMMA ProbePlanFacts ==
    /\ ProbePlan \in Seq(StepType) /\ Len(ProbePlan) \in Nat /\ Len(ProbePlan) > 3
    /\ ProbePlan[1] = Plain("reset") /\ ProbePlan[2] = Plain("rdid")
    /\ ProbePlan[3] = Plain("param")
    /\ \A i \in 4..Len(ProbePlan) : ProbePlan[i] \in LaterSteps
    /\ ProbePlan[Len(ProbePlan)] = Set("bp", 0)
    /\ EccType = "ECC_INTERNAL_SPI" =>
          \E j \in 4..Len(ProbePlan) : ProbePlan[j] = Sync("thre")
<1>1. PICK t \in Seq(LaterSteps) :
         /\ ProbePlan = << Plain("reset"), Plain("rdid"), Plain("param") >> \o t
         /\ Len(t) > 0 /\ t[Len(t)] = Set("bp", 0)
         /\ EccType = "ECC_INTERNAL_SPI" => \E j \in 1..Len(t) : t[j] = Sync("thre")
  BY ProbePlanRest
<1>2. LaterSteps \subseteq StepType
  BY LaterStep
<1>3. t \in Seq(StepType)
  BY <1>2, SeqMonotonic
<1>4. /\ Plain("reset") \in StepType /\ Plain("rdid") \in StepType
      /\ Plain("param") \in StepType
  BY DEF Plain, Step, StepType, Cmds, Flag
<1>5. PICK h \in Seq(StepType) :
         /\ h = << Plain("reset"), Plain("rdid"), Plain("param") >> /\ Len(h) = 3
         /\ h[1] = Plain("reset") /\ h[2] = Plain("rdid") /\ h[3] = Plain("param")
  <2>1. << Plain("reset"), Plain("rdid"), Plain("param") >> \in Seq(StepType)
    BY <1>4
  <2>2. PICK h \in Seq(StepType) : h = << Plain("reset"), Plain("rdid"), Plain("param") >>
    BY <2>1
  <2>3. Len(h) = 3 /\ h[1] = Plain("reset") /\ h[2] = Plain("rdid") /\ h[3] = Plain("param")
    BY <2>2
  <2>4. QED
    BY <2>2, <2>3
<1>6. /\ ProbePlan \in Seq(StepType) /\ Len(ProbePlan) = 3 + Len(t) /\ Len(t) \in Nat
      /\ \A i \in 1..3 : ProbePlan[i] = h[i]
      /\ \A i \in 4..(3 + Len(t)) : ProbePlan[i] = t[i - 3]
  <2>1. PICK pp \in Seq(StepType) : pp = h \o t
    <3>1. h \o t \in Seq(StepType)
      BY <1>3, ConcatProperties
    <3>2. QED
      BY <3>1
  <2>2. /\ Len(pp) = 3 + Len(t) /\ Len(t) \in Nat
        /\ \A i \in 1..3 : pp[i] = h[i]
        /\ \A i \in 4..(3 + Len(t)) : pp[i] = t[i - 3]
    BY <1>3, <1>5, <2>1
  <2>3. QED
    BY <1>1, <1>5, <2>1, <2>2
<1>7. \A i \in 4..Len(ProbePlan) : ProbePlan[i] \in LaterSteps
  <2> SUFFICES ASSUME NEW i \in 4..Len(ProbePlan) PROVE ProbePlan[i] \in LaterSteps
    OBVIOUS
  <2>1. i - 3 \in 1..Len(t) /\ ProbePlan[i] = t[i - 3]
    BY <1>6
  <2>2. QED
    BY <2>1
<1>8. ProbePlan[Len(ProbePlan)] = Set("bp", 0)
  BY <1>1, <1>6
<1>9. ASSUME EccType = "ECC_INTERNAL_SPI"
      PROVE  \E j \in 4..Len(ProbePlan) : ProbePlan[j] = Sync("thre")
  <2>1. PICK j \in 1..Len(t) : t[j] = Sync("thre")
    BY <1>1, <1>9
  <2>2. j + 3 \in 4..Len(ProbePlan) /\ ProbePlan[j + 3] = t[j]
    BY <1>6
  <2>3. QED
    BY <2>1, <2>2
<1>10. QED
  BY <1>1, <1>5, <1>6, <1>7, <1>8, <1>9

\* The step the probe is at.
LEMMA ProbeHead ==
    ASSUME NEW n \in 0..(Len(ProbePlan) - 1), ProbeAt(n)
    PROVE  /\ plan # << >> /\ plan \in Seq(StepType) /\ Len(plan) = Len(ProbePlan) - n
           /\ Head(plan) = ProbePlan[n + 1]
           /\ Tail(plan) = SubSeq(ProbePlan, n + 2, Len(ProbePlan))
           /\ \A i \in 1..Len(plan) : plan[i] = ProbePlan[n + i]
           /\ n = 0 \/ n = 1 \/ n = 2 \/ Head(plan) \in LaterSteps
<1>1. PICK pp \in Seq(StepType) : pp = ProbePlan /\ Len(pp) \in Nat
  BY ProbePlanFacts
<1>2. /\ SubSeq(pp, n + 1, Len(pp)) \in Seq(StepType)
      /\ Len(SubSeq(pp, n + 1, Len(pp))) = Len(pp) - n
      /\ \A i \in 1..(Len(pp) - n) : SubSeq(pp, n + 1, Len(pp))[i] = pp[n + i]
  BY <1>1
<1>3. plan = SubSeq(pp, n + 1, Len(pp))
  BY <1>1 DEF ProbeAt
<1>4. plan \in Seq(StepType) /\ Len(plan) = Len(pp) - n /\ Len(plan) > 0
  BY <1>1, <1>2, <1>3
<1>5. plan # << >>
  BY <1>4
<1>6. Head(plan) = pp[n + 1] /\ Tail(plan) = SubSeq(pp, n + 2, Len(pp))
  <2>1. n + 1 \in 1..Len(pp) /\ Len(pp) \in (n + 1)..Len(pp) /\ (n + 1) + 1 = n + 2
    BY <1>1
  <2>2. QED
    BY <1>3, <2>1, HeadTailOfSubSeq
<1>7. n = 0 \/ n = 1 \/ n = 2 \/ n + 1 \in 4..Len(pp)
  BY <1>1
<1>8. QED
  BY <1>1, <1>2, <1>3, <1>4, <1>5, <1>6, <1>7, ProbePlanFacts
-----------------------------------------------------------------------------
(* How a step leaves the plan *)

LEMMA AdvanceShape ==
    ASSUME plan # << >>, Advance
    PROVE  /\ phase' = "read"
           /\ \/ /\ Len(plan) # 1 /\ op' = op /\ plan' = Tail(plan) /\ saved' = saved
              \/ /\ Len(plan) = 1 /\ op = "probe" /\ op' = "scan" /\ plan' = ScanPlan
                 /\ saved' = cache'["cont"]
              \/ /\ Len(plan) = 1 /\ op # "probe" /\ saved' = saved /\ plan' = << >>
                 /\ op' = IF op = "scan_err" THEN "off" ELSE "idle"
BY DEF Advance, Finish, Begin

LEMMA FailShape ==
    ASSUME Fail, op = "probe" => Head(plan).cmd # "restore"
    PROVE  /\ phase' = "read" /\ saved' = saved
           /\ \/ /\ plan' = << Restore >> /\ op' \in {"scan_err", "set_bb"}
                 /\ op \in {"scan", "set_bb"}
              \/ plan' = << >> /\ op' = "off"
              \/ plan' = << >> /\ op' = "idle" /\ op # "probe"
BY DEF Fail, Finish, Off, Begin

\* Only the probe goes through a reset or the parameter page.
LEMMA HeadOfPlan ==
    ASSUME PlanInv, plan # << >>
    PROVE  \/ /\ op = "probe"
              /\ \E n \in 0..(Len(ProbePlan) - 1) : ProbeAt(n)
           \/ /\ op \notin {"probe", "off", "idle"} /\ plan \in Seq(CallSteps)
              /\ Head(plan) \in CallSteps
<1>1. CASE op = "probe"
  BY <1>1 DEF PlanInv
<1>2. CASE op # "probe"
  <2>1. plan \in Seq(CallSteps) /\ op \notin {"off", "idle"}
    BY <1>2 DEF PlanInv
  <2>2. Head(plan) \in CallSteps
    BY <2>1, TailFacts
  <2>3. QED
    BY <1>2, <2>1, <2>2
<1>3. QED
  BY <1>1, <1>2

\* What is known of the step at hand, whatever the plan.
LEMMA HeadFacts ==
    ASSUME PlanInv, plan # << >>
    PROVE  /\ Head(plan) \in StepType /\ plan \in Seq(StepType)
           /\ Head(plan).cmd = "set" /\ Head(plan).f \in Cached =>
                 Head(plan) = Set(Head(plan).f, Head(plan).on)
           /\ Head(plan).cmd \in {"set", "restore"} =>
                 Head(plan).f \in Cached \union {"bp"}
           /\ Head(plan).cmd = "sync" => Head(plan).f \in Cached
           /\ Head(plan).cmd \in {"reset", "rdid", "param"} \union Arrays =>
                 Head(plan).f = "none"
           /\ op = "probe" =>
                 Head(plan).cmd \in {"reset", "rdid", "param", "set", "sync"}
           /\ op # "probe" => Head(plan).cmd \in {"set", "restore"} \union Arrays
           /\ ~ContRd => Head(plan) # Set("cont", 1)
<1>1. CASE op = "probe"
  <2>1. PICK n \in 0..(Len(ProbePlan) - 1) : ProbeAt(n)
    BY <1>1 DEF PlanInv
  <2>2. /\ plan \in Seq(StepType)
        /\ Head(plan) = ProbePlan[n + 1]
        /\ n = 0 \/ n = 1 \/ n = 2 \/ Head(plan) \in LaterSteps
    BY <2>1, ProbeHead
  <2>3. CASE n \in {0, 1, 2}
    <3>1. Head(plan) \in {Plain("reset"), Plain("rdid"), Plain("param")}
      BY <2>2, <2>3, ProbePlanFacts
    <3>2. QED
      BY <1>1, <2>2, <3>1
      DEF Plain, Set, Step, StepType, Cmds, Arrays, Bits, Cached, Flag
  <2>4. CASE Head(plan) \in LaterSteps
    BY <1>1, <2>2, <2>4, LaterStep DEF Arrays, Cached, Set, Step
  <2>5. QED
    BY <2>2, <2>3, <2>4
<1>2. CASE op # "probe"
  <2>1. plan \in Seq(CallSteps) /\ Head(plan) \in CallSteps
    BY <1>2, HeadOfPlan
  <2>2. CallSteps \subseteq StepType
    BY CallStep
  <2>3. plan \in Seq(StepType)
    BY <2>1, <2>2, SeqMonotonic
  <2>4. QED
    BY <1>2, <2>1, <2>3, CallStep DEF Arrays, Cached, Set, Step
<1>3. QED
  BY <1>1, <1>2
-----------------------------------------------------------------------------
(* The modes that a plan sets up for its own commands *)

\* A page or a stream finds continuous read as this plan has set it.
ContReady(p) ==
    \A i \in 1..Len(p), v \in Flag :
        Relies(p[i].cmd, "cont", v) => SetBefore(p, i, "cont", v)

LEMMA ContReadyConcat ==
    ASSUME NEW p \in Seq(CallSteps), NEW q \in Seq(CallSteps), NEW r \in Seq(CallSteps),
           r = p \o q, ContReady(p), ContReady(q)
    PROVE  ContReady(r)
<1>1. /\ Len(r) = Len(p) + Len(q) /\ Len(p) \in Nat /\ Len(q) \in Nat
      /\ \A i \in 1..Len(p) : r[i] = p[i]
      /\ \A i \in 1..Len(q) : r[Len(p) + i] = q[i]
  OBVIOUS
<1> SUFFICES ASSUME NEW i \in 1..Len(r), NEW v \in Flag, Relies(r[i].cmd, "cont", v)
             PROVE  SetBefore(r, i, "cont", v)
  BY DEF ContReady
<1>2. CASE i <= Len(p)
  <2>1. i \in 1..Len(p) /\ Relies(p[i].cmd, "cont", v)
    BY <1>1, <1>2
  <2>2. PICK j \in 1..(i - 1) :
            p[j] = Set("cont", v) /\ \A m \in (j + 1)..(i - 1) : p[m].f # "cont"
    BY <2>1 DEF ContReady, SetBefore
  <2>3. r[j] = Set("cont", v)
    BY <1>1, <2>1, <2>2
  <2>4. \A m \in (j + 1)..(i - 1) : r[m].f # "cont"
    BY <1>1, <2>1, <2>2
  <2>5. QED
    BY <2>3, <2>4 DEF SetBefore
<1>3. CASE i > Len(p)
  <2>1. PICK k \in 1..Len(q) : i = Len(p) + k
    BY <1>1, <1>3
  <2>2. Relies(q[k].cmd, "cont", v)
    BY <1>1, <2>1
  <2>3. PICK j \in 1..(k - 1) :
            q[j] = Set("cont", v) /\ \A m \in (j + 1)..(k - 1) : q[m].f # "cont"
    BY <2>2 DEF ContReady, SetBefore
  <2>4. Len(p) + j \in 1..(i - 1) /\ r[Len(p) + j] = Set("cont", v)
    BY <1>1, <2>1, <2>3
  <2>5. ASSUME NEW m \in (Len(p) + j + 1)..(i - 1) PROVE r[m].f # "cont"
    <3>0. i = Len(p) + k /\ Len(p) \in Nat /\ Len(q) \in Nat
      BY <1>1, <2>1
    <3>1. PICK n \in (j + 1)..(k - 1) : m = Len(p) + n
      <4>1. m - Len(p) \in (j + 1)..(k - 1) /\ m = Len(p) + (m - Len(p))
        BY <3>0
      <4>2. QED
        BY <4>1
    <3>2. r[m] = q[n]
      BY <1>1, <2>3, <3>1
    <3>3. QED
      BY <2>3, <3>2
  <2>6. QED
    BY <2>4, <2>5 DEF SetBefore
<1>4. QED
  BY <1>1, <1>2, <1>3

LEMMA PairFacts ==
    ASSUME NEW S, NEW x \in S, NEW y \in S
    PROVE  /\ << x, y >> \in Seq(S) /\ Len(<< x, y >>) = 2
           /\ << x, y >>[1] = x /\ << x, y >>[2] = y
OBVIOUS

\* No step of p touches the ECC bit.
EccFree(p) == \A i \in 1..Len(p) : p[i].f # "ecc"

\* The parts of a read.
LEMMA ReadParts ==
    ASSUME NEW head \in BOOLEAN, NEW pages, NEW tail \in BOOLEAN,
           NEW p \in {If(head, PageRead), If(pages = "one", PageRead),
                      If(pages = "several", PagesRead), If(tail, PageRead)}
    PROVE  p \in Seq(CallSteps) /\ EccFree(p) /\ ContReady(p)
<1>1. /\ Plain("page_read") \in CallSteps /\ Plain("stream_read") \in CallSteps
      /\ Set("cont", 0) \in CallSteps
      /\ ContRd => Set("cont", 1) \in CallSteps
  BY DEF CallSteps, Arrays
<1>2. /\ Set("cont", 0).f = "cont" /\ Set("cont", 1).f = "cont"
      /\ Plain("page_read").f = "none" /\ Plain("stream_read").f = "none"
      /\ Set("cont", 0).cmd = "set" /\ Set("cont", 1).cmd = "set"
      /\ Plain("page_read").cmd = "page_read" /\ Plain("stream_read").cmd = "stream_read"
  BY DEF Set, Plain, Step
<1>3. CASE p = << >>
  BY <1>3, EmptySeq DEF EccFree, ContReady
<1>4. CASE p = << Set("cont", 0), Plain("page_read") >>
  <2>1. p \in Seq(CallSteps) /\ Len(p) = 2 /\ p[1] = Set("cont", 0) /\ p[2] = Plain("page_read")
    <3>1. Set("cont", 0) \in CallSteps /\ Plain("page_read") \in CallSteps
      BY <1>1, <1>4
    <3>2. PICK x \in CallSteps, y \in CallSteps : x = Set("cont", 0) /\ y = Plain("page_read")
      BY <3>1
    <3>3. p = << x, y >>
      BY <1>4, <3>2
    <3>4. QED
      BY <3>2, <3>3
  <2>2. EccFree(p)
    BY <1>2, <2>1 DEF EccFree
  <2>3. ASSUME NEW i \in 1..Len(p), NEW v \in Flag, Relies(p[i].cmd, "cont", v)
        PROVE  SetBefore(p, i, "cont", v)
    <3>1. i = 2 /\ v = 0
      BY <1>2, <2>1, <2>3 DEF Relies
    <3>2. 1 \in 1..(i - 1) /\ \A m \in (1 + 1)..(i - 1) : p[m].f # "cont"
      BY <3>1
    <3>3. QED
      BY <2>1, <3>1, <3>2 DEF SetBefore
  <2>4. QED
    BY <2>1, <2>2, <2>3 DEF ContReady
<1>5. CASE ContRd /\ p = << Set("cont", 1), Plain("stream_read") >>
  <2>1. p \in Seq(CallSteps) /\ Len(p) = 2 /\ p[1] = Set("cont", 1) /\ p[2] = Plain("stream_read")
    <3>1. Set("cont", 1) \in CallSteps /\ Plain("stream_read") \in CallSteps
      BY <1>1, <1>5
    <3>2. PICK x \in CallSteps, y \in CallSteps : x = Set("cont", 1) /\ y = Plain("stream_read")
      BY <3>1
    <3>3. p = << x, y >>
      BY <1>5, <3>2
    <3>4. QED
      BY <3>2, <3>3
  <2>2. EccFree(p)
    BY <1>2, <2>1 DEF EccFree
  <2>3. ASSUME NEW i \in 1..Len(p), NEW v \in Flag, Relies(p[i].cmd, "cont", v)
        PROVE  SetBefore(p, i, "cont", v)
    <3>1. i = 2 /\ v = 1
      BY <1>2, <2>1, <2>3 DEF Relies
    <3>2. 1 \in 1..(i - 1) /\ \A m \in (1 + 1)..(i - 1) : p[m].f # "cont"
      BY <3>1
    <3>3. QED
      BY <2>1, <3>1, <3>2 DEF SetBefore
  <2>4. QED
    BY <2>1, <2>2, <2>3 DEF ContReady
<1>6. QED
  BY <1>3, <1>4, <1>5 DEF If, PageRead, PagesRead

LEMMA ConcatFacts ==
    ASSUME NEW S, NEW e \in Seq(S), NEW q \in Seq(S), NEW p \in Seq(S), p = e \o q
    PROVE  /\ Len(p) = Len(e) + Len(q) /\ Len(e) \in Nat /\ Len(q) \in Nat
           /\ \A i \in 1..Len(e) : p[i] = e[i]
           /\ \A i \in (Len(e) + 1)..Len(p) : p[i] = q[i - Len(e)]
OBVIOUS

\* A plan that starts by setting the ECC bit, as spinand_read and spinand_program
\* do, and leaves it alone from then on.
EccLed(p) ==
    /\ p \in Seq(CallSteps) /\ Len(p) > 0
    /\ p[1] = Set("ecc", IF Internal THEN 1 ELSE 0)
    /\ \A i \in 2..Len(p) : p[i].f # "ecc"

LEMMA EccEnLeads == EccLed(EccEn) /\ ContReady(EccEn)
<1>1. PICK w \in Flag : w = (IF Internal THEN 1 ELSE 0) /\ EccEn = << Set("ecc", w) >>
  BY DEF EccEn, Flag
<1>2. Set("ecc", w) \in CallSteps
  BY DEF CallSteps, Flag
<1>3. EccEn \in Seq(CallSteps) /\ Len(EccEn) = 1 /\ EccEn[1] = Set("ecc", w)
  BY <1>1, <1>2
<1>4. Set("ecc", w).cmd = "set"
  BY DEF Set, Step
<1>5. QED
  BY <1>1, <1>3, <1>4 DEF EccLed, ContReady, Relies

LEMMA EccLedGoesOn ==
    ASSUME NEW p, EccLed(p), ContReady(p),
           NEW q \in Seq(CallSteps), EccFree(q), ContReady(q)
    PROVE  EccLed(p \o q) /\ ContReady(p \o q)
<1>1. p \in Seq(CallSteps)
  BY DEF EccLed
<1>2. PICK r \in Seq(CallSteps) : r = p \o q
  <2>1. p \o q \in Seq(CallSteps)
    BY <1>1, ConcatProperties
  <2>2. QED
    BY <2>1
<1>3. /\ Len(r) = Len(p) + Len(q) /\ Len(p) \in Nat /\ Len(q) \in Nat
      /\ \A i \in 1..Len(p) : r[i] = p[i]
      /\ \A i \in (Len(p) + 1)..Len(r) : r[i] = q[i - Len(p)]
  BY <1>1, <1>2, ConcatFacts
<1>4. Len(r) > 0 /\ r[1] = p[1]
  BY <1>3 DEF EccLed
<1>5. ASSUME NEW i \in 2..Len(r) PROVE r[i].f # "ecc"
  <2>1. CASE i <= Len(p)
    BY <1>3, <2>1 DEF EccLed
  <2>2. CASE i > Len(p)
    <3>1. i - Len(p) \in 1..Len(q) /\ r[i] = q[i - Len(p)]
      BY <1>3, <2>2
    <3>2. QED
      BY <3>1 DEF EccFree
  <2>3. QED
    BY <1>3, <2>1, <2>2
<1>6. EccLed(r)
  BY <1>4, <1>5 DEF EccLed
<1>7. ContReady(r)
  BY <1>1, <1>2, ContReadyConcat
<1>8. QED
  BY <1>2, <1>6, <1>7

LEMMA EccLedIsPrepared ==
    ASSUME NEW p, EccLed(p), ContReady(p), NEW copies
    PROVE  Prepared(p, copies)
<1>1. PICK w \in Flag : w = (IF Internal THEN 1 ELSE 0)
  BY DEF Flag
<1>2. /\ Len(p) \in Nat /\ p[1] = Set("ecc", w)
      /\ \A i \in 2..Len(p) : p[i].f # "ecc"
  BY <1>1 DEF EccLed
<1>3. Set("ecc", w).cmd = "set"
  BY DEF Set, Step
<1>4. ASSUME NEW i \in 1..Len(p), NEW v \in Flag, Relies(p[i].cmd, "ecc", v)
      PROVE  SetBefore(p, i, "ecc", v)
  <2>1. v = w /\ i \in 2..Len(p)
    BY <1>1, <1>2, <1>3, <1>4 DEF Relies
  <2>2. 1 \in 1..(i - 1) /\ p[1] = Set("ecc", v)
    BY <1>2, <2>1
  <2>3. \A m \in (1 + 1)..(i - 1) : p[m].f # "ecc"
    BY <1>2, <2>1
  <2>4. QED
    BY <2>2, <2>3 DEF SetBefore
<1>5. QED
  BY <1>4 DEF Prepared, ContReady

LEMMA ReadPlanReady ==
    ASSUME NEW head \in BOOLEAN, NEW pages, NEW tail \in BOOLEAN, NEW copies
    PROVE  /\ ReadPlan(head, pages, tail) \in Seq(CallSteps)
           /\ Prepared(ReadPlan(head, pages, tail), copies)
<1> DEFINE a == If(head, PageRead)
           b == If(pages = "one", PageRead)
           c == If(pages = "several", PagesRead)
           d == If(tail, PageRead)
           Good(p) == p \in Seq(CallSteps) /\ EccFree(p) /\ ContReady(p)
           Led(p) == EccLed(p) /\ ContReady(p)
<1>1. Good(a) /\ Good(b) /\ Good(c) /\ Good(d)
  BY ReadParts
<1> HIDE DEF a, b, c, d
<1>2. Led(EccEn)
  BY EccEnLeads
<1>3. Led(EccEn \o a)
  BY <1>1, <1>2, EccLedGoesOn
<1>4. Led(EccEn \o a \o b)
  BY <1>1, <1>3, EccLedGoesOn
<1>5. Led(EccEn \o a \o b \o c)
  BY <1>1, <1>4, EccLedGoesOn
<1>6. Led(EccEn \o a \o b \o c \o d)
  BY <1>1, <1>5, EccLedGoesOn
<1>7. ReadPlan(head, pages, tail) = EccEn \o a \o b \o c \o d
  BY DEF ReadPlan, a, b, c, d
<1>8. QED
  BY <1>6, <1>7, EccLedIsPrepared DEF EccLed

LEMMA ProgramPlanReady ==
    ASSUME NEW copies
    PROVE  ProgramPlan \in Seq(CallSteps) /\ Prepared(ProgramPlan, copies)
<1>1. PICK q \in Seq(CallSteps) : q = << Plain("program") >> /\ EccFree(q) /\ ContReady(q)
  <2>1. Plain("program") \in CallSteps
    BY DEF CallSteps, Arrays
  <2>2. Plain("program").cmd = "program" /\ Plain("program").f = "none"
    BY DEF Plain, Step
  <2>3. << Plain("program") >> \in Seq(CallSteps)
    BY <2>1
  <2>4. EccFree(<< Plain("program") >>) /\ ContReady(<< Plain("program") >>)
    BY <2>2 DEF EccFree, ContReady, Relies
  <2>5. QED
    BY <2>3, <2>4
<1>2. EccLed(EccEn \o q) /\ ContReady(EccEn \o q)
  BY <1>1, EccEnLeads, EccLedGoesOn
<1>3. ProgramPlan = EccEn \o q
  BY <1>1 DEF ProgramPlan
<1>4. QED
  BY <1>2, <1>3, EccLedIsPrepared DEF EccLed

\* Steps that rely on no mode.
QuietSteps == {Set("cont", 0), Plain("erase"), Plain("oob_program"), Restore}

LEMMA QuietPlan ==
    ASSUME NEW p \in Seq(QuietSteps), NEW copies
    PROVE  p \in Seq(CallSteps) /\ Prepared(p, copies)
<1>1. QuietSteps \subseteq CallSteps
  BY DEF QuietSteps, CallSteps, Arrays
<1>2. \A s \in QuietSteps : s.cmd \in {"set", "erase", "oob_program", "restore"}
  BY DEF QuietSteps, Set, Plain, Restore, Step
<1>3. \A i \in 1..Len(p) : p[i] \in QuietSteps
  OBVIOUS
<1>4. Prepared(p, copies)
  BY <1>2, <1>3 DEF Prepared, Relies
<1>5. p \in Seq(CallSteps)
  BY <1>1, SeqMonotonic
<1>6. QED
  BY <1>4, <1>5

LEMMA EmptyPlanReady ==
    ASSUME NEW copies
    PROVE  << >> \in Seq(CallSteps) /\ Prepared(<< >>, copies)
<1>1. << >> \in Seq(QuietSteps)
  BY EmptySeq
<1>2. QED
  BY <1>1, QuietPlan

LEMMA QuietPlans ==
    ASSUME NEW copies, NEW preErase \in BOOLEAN,
           NEW p \in {<< Restore >>, << Plain("erase") >>, SetBBPlan(preErase)}
    PROVE  p \in Seq(CallSteps) /\ Prepared(p, copies)
<1>1. /\ Set("cont", 0) \in QuietSteps /\ Plain("erase") \in QuietSteps
      /\ Plain("oob_program") \in QuietSteps /\ Restore \in QuietSteps
  BY DEF QuietSteps
<1>2. /\ << Restore >> \in Seq(QuietSteps) /\ << Plain("erase") >> \in Seq(QuietSteps)
      /\ << Set("cont", 0) >> \in Seq(QuietSteps)
      /\ << Plain("oob_program"), Plain("oob_program"), Restore >> \in Seq(QuietSteps)
  BY <1>1
<1>3. If(preErase, << Plain("erase") >>) \in Seq(QuietSteps)
  BY <1>2, EmptySeq DEF If
<1>4. << Set("cont", 0) >> \o If(preErase, << Plain("erase") >>) \in Seq(QuietSteps)
  BY <1>2, <1>3, ConcatProperties
<1>5. SetBBPlan(preErase) \in Seq(QuietSteps)
  BY <1>2, <1>4, ConcatProperties DEF SetBBPlan
<1>6. p \in Seq(QuietSteps)
  BY <1>2, <1>5
<1>7. QED
  BY <1>6, QuietPlan

LEMMA ScanPlanReady ==
    ASSUME NEW copies
    PROVE  ScanPlan \in Seq(CallSteps) /\ Prepared(ScanPlan, copies)
<1>1. /\ Set("cont", 0) \in CallSteps /\ Plain("oob_read") \in CallSteps
      /\ Restore \in CallSteps
  BY DEF CallSteps, Arrays
<1>2. PICK x \in CallSteps, y \in CallSteps, z \in CallSteps :
         x = Set("cont", 0) /\ y = Plain("oob_read") /\ z = Restore
  BY <1>1
<1>3. PICK p \in Seq(CallSteps) :
         /\ p = ScanPlan /\ Len(p) = 6
         /\ p[1] = x /\ p[2] = x /\ p[3] = y /\ p[4] = x /\ p[5] = y /\ p[6] = z
  <2>1. ScanPlan = << x, x, y, x, y, z >>
    BY <1>2 DEF ScanPlan
  <2>2. PICK p \in Seq(CallSteps) : p = << x, x, y, x, y, z >>
    <3>1. << x, x, y, x, y, z >> \in Seq(CallSteps)
      OBVIOUS
    <3>2. QED
      BY <3>1
  <2>3. /\ Len(p) = 6
        /\ p[1] = x /\ p[2] = x /\ p[3] = y /\ p[4] = x /\ p[5] = y /\ p[6] = z
    BY <2>2
  <2>4. QED
    BY <2>1, <2>2, <2>3
<1>4. x.cmd = "set" /\ y.cmd = "oob_read" /\ z.cmd = "restore"
  BY <1>2 DEF Set, Plain, Restore, Step
<1>5. ASSUME NEW i \in 1..Len(p), NEW b \in {"cont", "ecc"}, NEW v \in Flag,
             Relies(p[i].cmd, b, v)
      PROVE  SetBefore(p, i, b, v)
  <2>1. i \in {3, 5} /\ b = "cont" /\ v = 0
    BY <1>3, <1>4, <1>5 DEF Relies
  <2>2. i - 1 \in 1..(i - 1) /\ p[i - 1] = Set(b, v)
    BY <1>2, <1>3, <2>1
  <2>3. \A m \in ((i - 1) + 1)..(i - 1) : p[m].f # b
    BY <2>1
  <2>4. QED
    BY <2>2, <2>3 DEF SetBefore
<1>6. QED
  BY <1>3, <1>5 DEF Prepared

\* The probe reads and writes no array.
LEMMA ProbePlanReady ==
    ASSUME NEW copies
    PROVE  Prepared(ProbePlan, copies)
<1>1. \A s \in LaterSteps : s.cmd \in {"set", "sync"}
  BY LaterStep
<1>2. \A i \in 1..Len(ProbePlan) :
         ProbePlan[i].cmd \in {"reset", "rdid", "param", "set", "sync"}
  BY <1>1, ProbePlanFacts DEF Plain, Step
<1>3. QED
  BY <1>2 DEF Prepared, Relies

\* What one step does for the commands after it.
LEMMA TailPrepared ==
    ASSUME NEW p \in Seq(StepType), p # << >>, NEW before, NEW after, Prepared(p, before),
           \A b \in {"cont", "ecc"} : p[1].f # b => after[b] = before[b],
           \A b \in {"cont", "ecc"}, v \in Flag : p[1] = Set(b, v) => after[b] = v
    PROVE  Prepared(Tail(p), after)
<1>1. PICK q \in Seq(StepType) :
         /\ q = Tail(p) /\ Len(q) = Len(p) - 1 /\ Len(p) \in Nat \ {0}
         /\ \A i \in 1..(Len(p) - 1) : q[i] = p[i + 1]
  BY TailFacts
<1> SUFFICES ASSUME NEW i \in 1..Len(q), NEW b \in {"cont", "ecc"}, NEW v \in Flag,
                    Relies(q[i].cmd, b, v)
             PROVE  SetBefore(q, i, b, v) \/ (Untouched(q, i, b) /\ after[b] = v)
  BY <1>1 DEF Prepared
<1>2. i + 1 \in 1..Len(p) /\ q[i] = p[i + 1] /\ Relies(p[i + 1].cmd, b, v)
  BY <1>1
<1>3. SetBefore(p, i + 1, b, v) \/ (Untouched(p, i + 1, b) /\ before[b] = v)
  BY <1>2 DEF Prepared
<1>4. ASSUME NEW k \in 1..i, \A m \in (k + 1)..i : p[m].f # b
      PROVE  \A m \in k..(i - 1) : q[m].f # b
  <2> SUFFICES ASSUME NEW m \in k..(i - 1) PROVE q[m].f # b
    OBVIOUS
  <2>1. m + 1 \in (k + 1)..i /\ q[m] = p[m + 1]
    BY <1>1
  <2>2. QED
    BY <1>4, <2>1
<1>5. CASE SetBefore(p, i + 1, b, v)
  <2>1. PICK j \in 1..i : p[j] = Set(b, v) /\ \A m \in (j + 1)..i : p[m].f # b
    BY <1>5 DEF SetBefore
  <2>2. \A m \in j..(i - 1) : q[m].f # b
    BY <1>4, <2>1
  <2>3. CASE j = 1
    BY <2>1, <2>2, <2>3 DEF Untouched
  <2>4. CASE j > 1
    <3>1. j - 1 \in 1..(i - 1) /\ q[j - 1] = p[j]
      BY <1>1, <2>4
    <3>2. \A m \in ((j - 1) + 1)..(i - 1) : q[m].f # b
      BY <2>2
    <3>3. QED
      BY <2>1, <3>1, <3>2 DEF SetBefore
  <2>5. QED
    BY <2>3, <2>4
<1>6. CASE Untouched(p, i + 1, b) /\ before[b] = v
  <2>1. \A m \in 1..i : p[m].f # b
    BY <1>6 DEF Untouched
  <2>2. \A m \in 1..(i - 1) : q[m].f # b
    BY <1>4, <2>1
  <2>3. QED
    BY <1>6, <2>1, <2>2 DEF Untouched
<1>7. QED
  BY <1>3, <1>5, <1>6
-----------------------------------------------------------------------------
(* Every action keeps the types *)

LEMMA CallStepsAreSteps == Seq(CallSteps) \subseteq Seq(StepType)
<1>1. CallSteps \subseteq StepType
  BY CallStep
<1>2. QED
  BY <1>1, SeqMonotonic

LEMMA StepTypePlans ==
    ASSUME TypeOK
    PROVE  plan \in Seq(StepType)
BY DEF TypeOK, StepType

\* A step whose plan is well formed, and which keeps its build.
LEMMA AdvanceType ==
    ASSUME TypeOK, PlanInv, plan # << >>, Advance, cache' \in [Cached -> Flag]
    PROVE  plan' \in Seq(StepType) /\ op' \in Ops /\ phase' = "read" /\ saved' \in Flag
<1>1. plan \in Seq(StepType) /\ op \in Ops /\ saved \in Flag
  BY StepTypePlans DEF TypeOK
<1>2. Tail(plan) \in Seq(StepType)
  BY <1>1, TailFacts
<1>3. ScanPlan \in Seq(StepType) /\ << >> \in Seq(StepType)
  BY ScanPlanReady, EmptyPlanReady, CallStepsAreSteps
<1>4. cache'["cont"] \in Flag
  BY DEF Cached
<1>5. QED
  BY <1>1, <1>2, <1>3, <1>4, AdvanceShape DEF Ops

LEMMA FailType ==
    ASSUME TypeOK, Fail, op = "probe" => Head(plan).cmd # "restore"
    PROVE  plan' \in Seq(StepType) /\ op' \in Ops /\ phase' = "read" /\ saved' \in Flag
<1>1. << Restore >> \in Seq(StepType) /\ << >> \in Seq(StepType)
  BY QuietPlans, EmptyPlanReady, CallStepsAreSteps
<1>2. saved \in Flag
  BY DEF TypeOK
<1>3. QED
  BY <1>1, <1>2, FailShape DEF Ops

LEMMA TypeStep ==
    ASSUME TypeOK, PlanInv, [Next]_vars
    PROVE  TypeOK'
<1> USE ModeAssumption
<1>1. /\ build \in Builds /\ dev \in [Bits -> Flag] /\ cache \in [Cached -> Flag]
      /\ type \in EccTypes /\ typeOld \in EccTypes /\ op \in Ops
      /\ phase \in {"read", "write", "verify"} /\ saved \in Flag /\ doubt \subseteq Bits
      /\ plan \in Seq(StepType)
  BY DEF TypeOK, StepType
<1>2. EccType \in EccTypes
  BY <1>1 DEF EccType
<1>3. Cached \subseteq Bits
  BY DEF Bits
<1>4. ASSUME plan # << >>, Setting
      PROVE  f \in Cached \union {"bp"} /\ f \in Bits /\ wanted \in Flag
  <2>1. Head(plan) \in StepType /\ f \in Cached \union {"bp"}
    BY <1>4, HeadFacts DEF Setting, Running, f
  <2>2. QED
    BY <1>1, <2>1 DEF wanted, StepType, Bits
<1>5. ASSUME plan # << >>, Setting, NEW v \in Flag, Store(v)
      PROVE  cache' \in [Cached -> Flag]
  BY <1>1, <1>4, <1>5 DEF Store
<1>6. ASSUME NEW p, p \in Seq(CallSteps)
      PROVE  p \in Seq(StepType)
  BY <1>6, CallStepsAreSteps
<1>7. OtpMode \in [Bits -> Flag] /\ ArrayMode \in [Bits -> Flag]
  BY <1>1 DEF OtpMode, ArrayMode, Flag, Bits
<1>8. PowerOn \subseteq [Bits -> Flag]
  BY DEF PowerOn
<1>9. op = "probe" /\ plan # << >> => Head(plan).cmd # "restore"
  BY HeadFacts
<1>20. CASE UNCHANGED vars
  BY <1>20 DEF vars, TypeOK
<1>21. CASE Setup
  <2>1. cache' \in [Cached -> Flag] /\ saved' \in Flag
    BY <1>21 DEF Setup, Flag
  <2>2. plan' \in Seq(StepType) /\ op' \in Ops /\ phase' = "read"
    BY <1>21, ProbePlanFacts DEF Setup, Begin, Ops
  <2>3. QED
    BY <1>1, <1>2, <1>21, <2>1, <2>2 DEF Setup, TypeOK, StepType, EccTypes
<1>22. CASE Read
  <2>1. PICK head \in BOOLEAN, tail \in BOOLEAN, pages \in {"none", "one", "several"} :
            Call(ReadPlan(head, pages, tail))
    BY <1>22 DEF Read
  <2>2. plan' \in Seq(StepType)
    BY <2>1, <1>6, ReadPlanReady DEF Call, Begin
  <2>3. QED
    BY <1>1, <2>1, <2>2 DEF Call, Begin, TypeOK, StepType, Ops
<1>23. CASE Program
  <2>1. plan' \in Seq(StepType)
    BY <1>23, <1>6, ProgramPlanReady DEF Program, Call, Begin
  <2>2. QED
    BY <1>1, <1>23, <2>1 DEF Program, Call, Begin, TypeOK, StepType, Ops
<1>24. CASE Erase
  <2>1. plan' \in Seq(StepType)
    BY <1>24, <1>6, QuietPlans DEF Erase, Call, Begin
  <2>2. QED
    BY <1>1, <1>24, <2>1 DEF Erase, Call, Begin, TypeOK, StepType, Ops
<1>25. ASSUME NEW b \in BOOLEAN, SetBB(b)
       PROVE  TypeOK'
  <2>1. plan' \in Seq(StepType)
    BY <1>25, <1>6, QuietPlans DEF SetBB, Begin
  <2>2. saved' \in Flag
    BY <1>1, <1>25 DEF SetBB, Cached
  <2>3. QED
    BY <1>1, <1>25, <2>1, <2>2 DEF SetBB, Begin, TypeOK, StepType, Ops
<1>26. ASSUME NEW b \in BOOLEAN, SetEccEn(b)
       PROVE  TypeOK'
  BY <1>1, <1>26 DEF SetEccEn, TypeOK, StepType, EccTypes
<1>27. CASE SkipSet
  <2>1. plan # << >> /\ Setting
    BY <1>27 DEF SkipSet, Setting, Running
  <2>2. cache' \in [Cached -> Flag]
    BY <1>1, <1>27 DEF SkipSet, Flag
  <2>3. plan' \in Seq(StepType) /\ op' \in Ops /\ phase' = "read" /\ saved' \in Flag
    BY <1>27, <2>1, <2>2, AdvanceType DEF SkipSet
  <2>4. QED
    BY <1>1, <1>27, <2>2, <2>3 DEF SkipSet, TypeOK, StepType
<1>28. CASE ReadFeature
  <2>1. plan # << >> /\ Setting
    BY <1>28 DEF ReadFeature, Setting, Running
  <2>2. CASE Store(wanted) /\ Advance /\ doubt' = doubt \ {f}
    <3>1. cache' \in [Cached -> Flag]
      BY <1>4, <1>5, <2>1, <2>2
    <3>2. plan' \in Seq(StepType) /\ op' \in Ops /\ phase' = "read" /\ saved' \in Flag
      BY <2>1, <2>2, <3>1, AdvanceType
    <3>3. QED
      BY <1>1, <1>28, <2>2, <3>1, <3>2 DEF ReadFeature, TypeOK, StepType
  <2>3. CASE phase' = "write" /\ UNCHANGED <<cache, op, plan, saved, doubt>>
    BY <1>1, <1>28, <2>3 DEF ReadFeature, TypeOK, StepType
  <2>4. QED
    BY <1>28, <2>2, <2>3 DEF ReadFeature
<1>29. CASE WriteFeature
  <2>1. plan # << >> /\ Setting
    BY <1>29 DEF WriteFeature, Setting, Running
  <2>2. [dev EXCEPT ![f] = wanted] \in [Bits -> Flag]
    BY <1>1, <1>4, <2>1
  <2>3. dev' \in [Bits -> Flag]
    BY <1>1, <1>29, <2>2 DEF WriteFeature
  <2>4. QED
    BY <1>1, <1>29, <2>3 DEF WriteFeature, TypeOK, StepType
<1>30. CASE VerifyFeature
  <2>1. plan # << >> /\ Setting /\ f \in Bits
    BY <1>4, <1>30 DEF VerifyFeature, Setting, Running
  <2>2. CASE Store(wanted) /\ Advance /\ doubt' = doubt \ {f}
    <3>1. cache' \in [Cached -> Flag]
      BY <1>4, <1>5, <2>1, <2>2
    <3>2. plan' \in Seq(StepType) /\ op' \in Ops /\ phase' = "read" /\ saved' \in Flag
      BY <2>1, <2>2, <3>1, AdvanceType
    <3>3. QED
      BY <1>1, <1>30, <2>2, <3>1, <3>2 DEF VerifyFeature, TypeOK, StepType
  <2>3. CASE /\ Store(Kept) /\ Fail
             /\ doubt' = IF f = "cont" THEN doubt \union {f} ELSE doubt \ {f}
    <3>1. Kept \in Flag
      BY <1>1, <1>4, <2>1 DEF Kept
    <3>2. cache' \in [Cached -> Flag]
      BY <1>5, <2>1, <2>3, <3>1
    <3>3. plan' \in Seq(StepType) /\ op' \in Ops /\ phase' = "read" /\ saved' \in Flag
      BY <1>9, <2>1, <2>3, FailType
    <3>4. doubt' \subseteq Bits
      BY <1>1, <2>1, <2>3
    <3>5. QED
      BY <1>1, <1>30, <3>2, <3>3, <3>4 DEF VerifyFeature, TypeOK, StepType
  <2>4. QED
    BY <1>30, <2>2, <2>3 DEF VerifyFeature
<1>31. CASE SyncCache
  <2>1. plan # << >> /\ f \in Cached
    BY <1>31, HeadFacts DEF SyncCache, Running, f
  <2>2. cache' \in [Cached -> Flag]
    BY <1>1, <1>3, <1>31, <2>1 DEF SyncCache, AsFlag
  <2>3. plan' \in Seq(StepType) /\ op' \in Ops /\ phase' = "read" /\ saved' \in Flag
    BY <1>31, <2>1, <2>2, AdvanceType DEF SyncCache
  <2>4. QED
    BY <1>1, <1>31, <2>2, <2>3 DEF SyncCache, TypeOK, StepType
<1>32. CASE ResetChip \/ ParamPage \/ Command
  <2>1. plan # << >> /\ Advance /\ cache' = cache /\ build' = build /\ type' = type
        /\ typeOld' = typeOld /\ doubt' \subseteq Bits
    BY <1>1, <1>32 DEF ResetChip, ParamPage, Command, Running
  <2>2. dev' \in [Bits -> Flag]
    BY <1>1, <1>7, <1>8, <1>32 DEF ResetChip, ParamPage, Command
  <2>3. plan' \in Seq(StepType) /\ op' \in Ops /\ phase' = "read" /\ saved' \in Flag
    BY <1>1, <2>1, AdvanceType
  <2>4. QED
    BY <1>1, <2>1, <2>2, <2>3 DEF TypeOK, StepType
<1>33. CASE CommandFails
  <2>1. plan # << >> /\ Fail /\ UNCHANGED <<build, cache, type, typeOld>>
    BY <1>33 DEF CommandFails
  <2>2. Setting => [dev EXCEPT ![f] = wanted] \in [Bits -> Flag]
    BY <1>1, <1>4, <2>1
  <2>3. dev' \in [Bits -> Flag]
    BY <1>1, <1>7, <1>8, <1>33, <2>2 DEF CommandFails
  <2>4. doubt' \subseteq Bits
    BY <1>1, <1>4, <1>33, <2>1 DEF CommandFails
  <2>5. plan' \in Seq(StepType) /\ op' \in Ops /\ phase' = "read" /\ saved' \in Flag
    BY <1>9, <2>1, FailType
  <2>6. QED
    BY <1>1, <2>1, <2>3, <2>4, <2>5 DEF TypeOK, StepType
<1>34. CASE Release \/ PowerCut
  <2>1. plan' \in Seq(StepType) /\ op' \in Ops /\ phase' = "read"
    BY <1>34, <1>6, EmptyPlanReady DEF Release, PowerCut, Off, Begin, Ops
  <2>2. dev' \in [Bits -> Flag]
    BY <1>1, <1>8, <1>34 DEF Release, PowerCut
  <2>3. QED
    BY <1>1, <1>34, <2>1, <2>2 DEF Release, PowerCut, TypeOK, StepType
<1>35. QED
  BY <1>20, <1>21, <1>22, <1>23, <1>24, <1>25, <1>26, <1>27, <1>28, <1>29, <1>30, <1>31,
     <1>32, <1>33, <1>34 DEF Next, Application, Driver
-----------------------------------------------------------------------------
(* Every action keeps the plan to what the code issues *)

LEMMA SameBuild ==
    ASSUME build' = build
    PROVE  /\ EccType' = EccType /\ ContRd' = ContRd
           /\ CallSteps' = CallSteps /\ LaterSteps' = LaterSteps /\ Kept4Type' = Kept4Type
BY DEF EccType, ContRd, CallSteps, LaterSteps, Kept4Type, Set, Sync, Restore, Plain, Step,
       Arrays

LEMMA SameProbePlan ==
    ASSUME build' = build
    PROVE  ProbePlan' = ProbePlan
BY SameBuild DEF ProbePlan, If, EccInit, Set, Sync, Plain, Step

LEMMA AdvancePlan ==
    ASSUME TypeOK, PlanInv, plan # << >>, Advance, build' = build,
           Head(plan).cmd \notin {"reset", "param"} => dev' = dev,
           Head(plan).cmd = "param" => dev'["otp"] = 0,
           Head(plan) = Set("bp", 0) => dev'["bp"] = 0,
           Head(plan).cmd \in {"reset", "rdid", "param"} => cache' = cache,
           ~ContRd => cache'["cont"] = 0
    PROVE  PlanInv'
<1>1. CallSteps' = CallSteps /\ ContRd' = ContRd /\ ProbePlan' = ProbePlan
  BY SameBuild, SameProbePlan
<1>2. phase' = "read" /\ (~ContRd => saved' = 0)
  BY AdvanceShape DEF PlanInv
<1>3. CASE op = "probe"
  <2>1. PICK n \in 0..(Len(ProbePlan) - 1) : ProbeAt(n)
    BY <1>3 DEF PlanInv
  <2>2. /\ Len(plan) = Len(ProbePlan) - n /\ Head(plan) = ProbePlan[n + 1]
        /\ Tail(plan) = SubSeq(ProbePlan, n + 2, Len(ProbePlan))
        /\ n = 0 \/ n = 1 \/ n = 2 \/ Head(plan) \in LaterSteps
    BY <2>1, ProbeHead
  <2>3. Len(ProbePlan) \in Nat /\ Len(ProbePlan) > 3
    BY ProbePlanFacts
  <2>4. Head(plan) \in LaterSteps => dev' = dev
    BY LaterStep
  <2>5. n = 2 => dev'["otp"] = 0
    <3>1. n = 2 => Head(plan) = Plain("param")
      BY <2>2, ProbePlanFacts
    <3>2. Plain("param").cmd = "param"
      BY DEF Plain, Step
    <3>3. QED
      BY <3>1, <3>2
  <2>6. n >= 2 => dev'["otp"] = 0
    BY <2>1, <2>2, <2>4, <2>5 DEF ProbeAt
  <2>7. CASE Len(plan) # 1
    <3>1. op' = "probe" /\ plan' = SubSeq(ProbePlan, (n + 1) + 1, Len(ProbePlan))
      BY <1>3, <2>2, <2>7, AdvanceShape
    <3>2. n + 1 \in 0..(Len(ProbePlan) - 1)
      BY <2>2, <2>3, <2>7
    <3>3. n + 1 < 3 => cache' = [c \in Cached |-> 0]
      <4>1. n + 1 < 3 => n \in {0, 1}
        OBVIOUS
      <4>2. n \in {0, 1} => Head(plan) \in {Plain("reset"), Plain("rdid")}
        BY <2>2, ProbePlanFacts
      <4>3. Plain("reset").cmd = "reset" /\ Plain("rdid").cmd = "rdid"
        BY DEF Plain, Step
      <4>4. n \in {0, 1} => cache' = cache /\ cache = [c \in Cached |-> 0]
        BY <2>1, <4>2, <4>3 DEF ProbeAt
      <4>5. QED
        BY <4>1, <4>4
    <3>4. n + 1 >= 3 => dev'["otp"] = 0
      BY <2>6
    <3>5. ProbeAt(n + 1)'
      BY <1>1, <3>1, <3>3, <3>4 DEF ProbeAt
    <3>6. \E m \in 0..(Len(ProbePlan') - 1) : ProbeAt(m)'
      BY <1>1, <3>2, <3>5
    <3>7. QED
      BY <1>1, <1>2, <3>1, <3>6 DEF PlanInv
  <2>8. CASE Len(plan) = 1
    <3>1. op' = "scan" /\ plan' = ScanPlan
      BY <1>3, <2>8, AdvanceShape
    <3>2. Head(plan) = Set("bp", 0) /\ n + 1 = Len(ProbePlan)
      <4>1. n + 1 = Len(ProbePlan)
        <5>1. PICK l \in Nat : l = Len(ProbePlan)
          BY <2>3
        <5>2. l - n = 1
          BY <2>2, <2>8, <5>1
        <5>3. QED
          BY <5>1, <5>2
      <4>2. QED
        BY <2>2, <4>1, ProbePlanFacts
    <3>3. dev'["bp"] = 0 /\ dev'["otp"] = 0
      BY <2>3, <2>6, <3>2
    <3>4. QED
      BY <1>1, <1>2, <3>1, <3>3, ScanPlanReady DEF PlanInv
  <2>9. QED
    BY <2>7, <2>8
<1>4. CASE op # "probe"
  <2>1. plan \in Seq(CallSteps) /\ op \notin {"off", "idle"} /\ Head(plan) \in CallSteps
    BY <1>4, HeadOfPlan
  <2>2. dev' = dev /\ dev["otp"] = 0 /\ dev["bp"] = 0
    <3>1. Head(plan).cmd \notin {"reset", "param"}
      BY <2>1, CallStep DEF Arrays
    <3>2. QED
      BY <1>4, <2>1, <3>1 DEF PlanInv
  <2>3. Tail(plan) \in Seq(CallSteps) /\ << >> \in Seq(CallSteps)
    BY <2>1, TailFacts, EmptyPlanReady
  <2>4. op' # "probe" /\ plan' \in Seq(CallSteps) /\ (op' \in {"off", "idle"} => plan' = << >>)
    BY <1>4, <2>1, <2>3, AdvanceShape
  <2>5. QED
    BY <1>1, <1>2, <2>2, <2>4 DEF PlanInv
<1>5. QED
  BY <1>3, <1>4

LEMMA FailPlan ==
    ASSUME PlanInv, plan # << >>, Fail, build' = build,
           op # "probe" => dev'["otp"] = dev["otp"] /\ dev'["bp"] = dev["bp"],
           ~ContRd => cache'["cont"] = 0
    PROVE  PlanInv'
<1>1. CallSteps' = CallSteps /\ ContRd' = ContRd
  BY SameBuild
<1>2. op = "probe" => Head(plan).cmd # "restore"
  BY HeadFacts
<1>3. << Restore >> \in Seq(CallSteps) /\ << >> \in Seq(CallSteps)
  BY QuietPlans, EmptyPlanReady
<1>4. phase' = "read" /\ saved' = saved /\ op' # "probe" /\ plan' \in Seq(CallSteps)
      /\ (op' \in {"off", "idle"} => plan' = << >>)
  BY <1>2, <1>3, FailShape
<1>5. op' # "off" => op # "probe" /\ op # "off"
  BY <1>2, FailShape DEF PlanInv
<1>6. op' # "off" => dev'["otp"] = 0 /\ dev'["bp"] = 0
  BY <1>5 DEF PlanInv
<1>7. QED
  BY <1>1, <1>4, <1>6 DEF PlanInv

\* A call begins where there is none.
LEMMA BeginPlan ==
    ASSUME PlanInv, op = "idle", build' = build, dev' = dev, cache' = cache,
           op' \in {"call", "set_bb"}, plan' \in Seq(CallSteps), phase' = "read",
           saved' = saved \/ saved' = cache["cont"]
    PROVE  PlanInv'
<1>1. CallSteps' = CallSteps /\ ContRd' = ContRd
  BY SameBuild
<1>2. QED
  BY <1>1 DEF PlanInv

LEMMA PlanStep ==
    ASSUME TypeOK, PlanInv, [Next]_vars
    PROVE  PlanInv'
<1>1. ASSUME build' = build
      PROVE  /\ CallSteps' = CallSteps /\ ContRd' = ContRd /\ EccType' = EccType
             /\ ProbePlan' = ProbePlan
  BY <1>1, SameBuild, SameProbePlan
<1>2. dev \in [Bits -> Flag] /\ cache \in [Cached -> Flag]
  BY DEF TypeOK
<1>3. ASSUME plan # << >>, Setting
      PROVE  /\ f \in Cached \union {"bp"}
             /\ op # "probe" => f \in {"cont", "ecc"}
             /\ Head(plan).cmd \in {"set", "restore"}
             /\ Head(plan) = Set("bp", 0) => f = "bp" /\ wanted = 0
  <2>1. f \in Cached \union {"bp"} /\ Head(plan).cmd \in {"set", "restore"}
    BY <1>3, HeadFacts DEF Setting, Running, f
  <2>2. op # "probe" => f \in {"cont", "ecc"}
    <3>1. op # "probe" => Head(plan) \in CallSteps
      BY <1>3, HeadOfPlan
    <3>2. QED
      BY <2>1, <3>1, CallStep DEF f, Arrays
  <2>3. Head(plan) = Set("bp", 0) => f = "bp" /\ wanted = 0
    BY DEF Set, Step, f, wanted
  <2>4. QED
    BY <2>1, <2>2, <2>3
<1>4. ASSUME plan # << >>, Setting, Store(wanted), Advance, build' = build, dev' = dev,
             ~(f \in Cached /\ Unsupported), dev[f] = wanted
      PROVE  PlanInv'
  <2>1. ~ContRd => cache'["cont"] = 0
    <3>1. ~ContRd => f # "cont"
      BY <1>4 DEF Unsupported, Cached
    <3>2. QED
      BY <1>2, <1>4, <3>1 DEF Store, PlanInv, Cached
  <2>2. Head(plan) = Set("bp", 0) => dev'["bp"] = 0
    BY <1>3, <1>4
  <2>3. QED
    BY <1>3, <1>4, <2>1, <2>2, AdvancePlan
<1>20. CASE UNCHANGED vars
  <2>1. ProbePlan' = ProbePlan /\ CallSteps' = CallSteps /\ ContRd' = ContRd
    BY <1>1, <1>20 DEF vars
  <2>2. \A n : ProbeAt(n) => ProbeAt(n)'
    BY <1>20, <2>1 DEF vars, ProbeAt
  <2>3. Setting' = Setting /\ Unsupported' = Unsupported
    BY <1>20, <2>1 DEF vars, Setting, Running, Unsupported, f
  <2>4. QED
    BY <1>20, <2>1, <2>2, <2>3 DEF vars, PlanInv
<1>21. CASE Setup
  <2>1. /\ build' = build /\ op' = "probe" /\ plan' = ProbePlan /\ phase' = "read"
        /\ cache' = [c \in Cached |-> 0] /\ saved' = 0
    BY <1>21 DEF Setup, Begin
  <2>2. ProbePlan' = ProbePlan
    BY <1>1, <2>1
  <2>3. plan' = SubSeq(ProbePlan, 1, Len(ProbePlan))
    <3>1. PICK pp \in Seq(StepType) : pp = ProbePlan
      BY ProbePlanFacts
    <3>2. pp = SubSeq(pp, 1, Len(pp))
      OBVIOUS
    <3>3. QED
      BY <2>1, <3>1, <3>2
  <2>4. ProbeAt(0)'
    BY <2>1, <2>2, <2>3 DEF ProbeAt
  <2>5. \E n \in 0..(Len(ProbePlan') - 1) : ProbeAt(n)'
    BY <2>2, <2>4, ProbePlanFacts
  <2>6. cache'["cont"] = 0
    BY <2>1 DEF Cached
  <2>7. QED
    BY <2>1, <2>5, <2>6 DEF PlanInv
<1>22. CASE Read
  <2>1. PICK head \in BOOLEAN, tail \in BOOLEAN, pages \in {"none", "one", "several"} :
            Call(ReadPlan(head, pages, tail))
    BY <1>22 DEF Read
  <2>2. plan' \in Seq(CallSteps)
    BY <2>1, ReadPlanReady DEF Call, Begin
  <2>3. QED
    BY <2>1, <2>2, BeginPlan DEF Call, Begin
<1>23. CASE Program
  BY <1>23, ProgramPlanReady, BeginPlan DEF Program, Call, Begin
<1>24. CASE Erase
  BY <1>24, QuietPlans, BeginPlan DEF Erase, Call, Begin
<1>25. ASSUME NEW b \in BOOLEAN, SetBB(b)
       PROVE  PlanInv'
  BY <1>25, QuietPlans, BeginPlan DEF SetBB, Begin
<1>26. ASSUME NEW b \in BOOLEAN, SetEccEn(b)
       PROVE  PlanInv'
  <2>1. CallSteps' = CallSteps /\ ContRd' = ContRd /\ op = "idle"
        /\ UNCHANGED <<dev, cache, op, plan, phase, saved>>
    BY <1>1, <1>26 DEF SetEccEn
  <2>2. plan = << >> /\ phase = "read"
    BY <2>1 DEF PlanInv, Setting, Running
  <2>3. QED
    BY <2>1, <2>2 DEF PlanInv
<1>27. CASE SkipSet
  <2>1. plan # << >> /\ Setting /\ Advance /\ build' = build /\ dev' = dev /\ f \in Cached
    BY <1>27 DEF SkipSet, Setting, Running
  <2>2. ~ContRd => cache'["cont"] = 0
    BY <1>2, <1>27 DEF SkipSet, PlanInv, Cached
  <2>3. Head(plan) # Set("bp", 0)
    BY <1>3, <2>1 DEF Cached
  <2>4. QED
    BY <1>3, <2>1, <2>2, <2>3, AdvancePlan
<1>28. CASE ReadFeature
  <2>1. plan # << >> /\ Setting /\ build' = build /\ dev' = dev
    BY <1>28 DEF ReadFeature, Setting, Running
  <2>2. CASE Store(wanted) /\ Advance /\ dev[f] = wanted
    <3>1. ~(f \in Cached /\ Unsupported)
      BY <1>28 DEF ReadFeature
    <3>2. QED
      BY <1>4, <2>1, <2>2, <3>1
  <2>3. CASE phase' = "write" /\ UNCHANGED <<cache, op, plan, saved, doubt>>
    <3>1. ProbePlan' = ProbePlan /\ CallSteps' = CallSteps /\ ContRd' = ContRd
      BY <1>1, <2>1
    <3>2. \A n : ProbeAt(n) => ProbeAt(n)'
      BY <2>1, <2>3, <3>1 DEF ProbeAt
    <3>3. Setting' /\ ~Unsupported'
      <4>1. ~Unsupported
        BY <1>28 DEF ReadFeature, Unsupported, Cached
      <4>2. QED
        BY <2>1, <2>3, <3>1, <4>1 DEF Setting, Running, Unsupported, f
    <3>4. QED
      BY <2>1, <2>3, <3>1, <3>2, <3>3 DEF PlanInv
  <2>4. QED
    BY <1>28, <2>2, <2>3 DEF ReadFeature
<1>29. CASE WriteFeature
  <2>1. plan # << >> /\ Setting /\ ~Unsupported /\ build' = build
        /\ UNCHANGED <<cache, op, plan, saved>>
    BY <1>29 DEF WriteFeature, Setting, Running, PlanInv
  <2>2. ProbePlan' = ProbePlan /\ CallSteps' = CallSteps /\ ContRd' = ContRd
    BY <1>1, <2>1
  <2>3. f # "otp" /\ (op # "probe" => f # "bp")
    BY <1>3, <2>1 DEF Cached
  <2>4. dev'["otp"] = dev["otp"] /\ (op # "probe" => dev'["bp"] = dev["bp"])
    BY <1>2, <1>29, <2>3 DEF WriteFeature, Bits
  <2>5. \A n : ProbeAt(n) => ProbeAt(n)'
    BY <2>1, <2>2, <2>4 DEF ProbeAt
  <2>6. Setting' /\ ~Unsupported'
    BY <2>1, <2>2 DEF Setting, Running, Unsupported, f
  <2>7. QED
    BY <2>1, <2>2, <2>4, <2>5, <2>6 DEF PlanInv
<1>30. CASE VerifyFeature
  <2>1. plan # << >> /\ Setting /\ ~Unsupported /\ build' = build /\ dev' = dev
    BY <1>30 DEF VerifyFeature, Setting, Running, PlanInv
  <2>2. CASE Store(wanted) /\ Advance /\ dev[f] = wanted
    BY <1>4, <2>1, <2>2
  <2>3. CASE Store(Kept) /\ Fail
    <3>1. ~ContRd => f # "cont"
      BY <2>1 DEF Unsupported
    <3>2. ~ContRd => cache'["cont"] = 0
      BY <1>2, <2>3, <3>1 DEF Store, PlanInv, Cached
    <3>3. QED
      BY <2>1, <2>3, <3>2, FailPlan
  <2>4. QED
    BY <1>30, <2>2, <2>3 DEF VerifyFeature
<1>31. CASE SyncCache
  <2>1. plan # << >> /\ Head(plan).cmd = "sync" /\ Advance /\ build' = build /\ dev' = dev
    BY <1>31 DEF SyncCache, Running
  <2>2. ~ContRd => f # "cont"
    <3>1. op = "probe"
      BY <2>1, HeadFacts DEF Arrays
    <3>2. PICK n \in 0..(Len(ProbePlan) - 1) : ProbeAt(n)
      BY <3>1 DEF PlanInv
    <3>3. Head(plan) \in {Plain("reset"), Plain("rdid"), Plain("param")}
             \/ Head(plan) \in LaterSteps
      BY <3>2, ProbeHead, ProbePlanFacts
    <3>4. Head(plan) \in LaterSteps
      BY <2>1, <3>3 DEF Plain, Step
    <3>5. QED
      BY <3>4, LaterStep DEF f
  <2>3. ~ContRd => cache'["cont"] = 0
    BY <1>2, <1>31, <2>2 DEF SyncCache, PlanInv, Cached
  <2>4. Head(plan) # Set("bp", 0)
    BY <2>1 DEF Set, Step
  <2>5. QED
    BY <2>1, <2>3, <2>4, AdvancePlan
<1>32. CASE ResetChip \/ ParamPage \/ Command
  <2>1. plan # << >> /\ Advance /\ cache' = cache /\ build' = build
    BY <1>32 DEF ResetChip, ParamPage, Command, Running
  <2>2. /\ Head(plan).cmd \in {"reset", "param", "rdid"} \union Arrays
        /\ Head(plan).cmd \notin {"reset", "param"} => dev' = dev
    BY <1>32 DEF ResetChip, ParamPage, Command, Running
  <2>3. Head(plan).cmd = "param" => dev'["otp"] = 0
    <3>1. ArrayMode["otp"] = 0
      BY DEF ArrayMode, OtpMode, Bits
    <3>2. "param" \notin Arrays
      BY DEF Arrays
    <3>3. QED
      BY <1>32, <3>1, <3>2 DEF ResetChip, ParamPage, Command, Running
  <2>4. Head(plan) # Set("bp", 0)
    BY <2>2 DEF Set, Step, Arrays
  <2>5. ~ContRd => cache'["cont"] = 0
    BY <2>1 DEF PlanInv
  <2>6. QED
    BY <2>1, <2>2, <2>3, <2>4, <2>5, AdvancePlan
<1>33. CASE CommandFails
  <2>1. plan # << >> /\ Fail /\ build' = build /\ cache' = cache
    BY <1>33 DEF CommandFails
  <2>2. ASSUME op # "probe"
        PROVE  dev'["otp"] = dev["otp"] /\ dev'["bp"] = dev["bp"]
    <3>1. Head(plan).cmd \in {"set", "restore"} \union Arrays
      BY <2>1, <2>2, HeadFacts
    <3>2. ~Running({"param"}) /\ ~Running({"reset"})
      BY <3>1 DEF Running, Arrays
    <3>3. dev' = dev \/ (Setting /\ dev' = [dev EXCEPT ![f] = wanted])
      BY <1>33, <3>2 DEF CommandFails
    <3>4. Setting => f \in {"cont", "ecc"}
      BY <1>3, <2>1, <2>2
    <3>5. QED
      BY <1>2, <3>3, <3>4 DEF Bits
  <2>3. ~ContRd => cache'["cont"] = 0
    BY <2>1 DEF PlanInv
  <2>4. QED
    BY <2>1, <2>2, <2>3, FailPlan
<1>34. CASE Release \/ PowerCut
  <2>1. /\ op' = "off" /\ plan' = << >> /\ phase' = "read" /\ saved' = saved
        /\ cache' = cache /\ build' = build
    BY <1>34 DEF Release, PowerCut, Off, Begin
  <2>2. QED
    BY <1>1, <2>1, EmptyPlanReady DEF PlanInv
<1>35. QED
  BY <1>20, <1>21, <1>22, <1>23, <1>24, <1>25, <1>26, <1>27, <1>28, <1>29, <1>30, <1>31,
     <1>32, <1>33, <1>34 DEF Next, Application, Driver
-----------------------------------------------------------------------------
(* Every action keeps the copies right *)

LEMMA CallsAreSettled ==
    ASSUME PlanInv, op \notin {"off", "probe"}, NEW c \in Cached
    PROVE  Settled(c)
<1>1. plan \in Seq(CallSteps)
  BY DEF PlanInv
<1>2. \A i \in 1..Len(plan) : plan[i] \in CallSteps
  BY <1>1
<1>3. \A s \in CallSteps : s.cmd \notin {"reset", "param", "sync"}
  BY CallStep DEF Arrays
<1>4. Sync(c).cmd = "sync"
  BY DEF Sync, Step
<1>5. QED
  BY <1>2, <1>3, <1>4 DEF Settled

\* A step that neither resets nor reads the copied bit leaves nothing more to wait for.
LEMMA AdvanceSettled ==
    ASSUME TypeOK, PlanInv, plan # << >>, Advance, NEW c \in Cached, Settled(c)',
           Head(plan).cmd \notin {"reset", "param"}, Head(plan) # Sync(c)
    PROVE  Settled(c)
<1>1. plan \in Seq(StepType)
  BY StepTypePlans
<1>2. /\ Len(plan) \in Nat \ {0} /\ Head(plan) = plan[1]
      /\ \A i \in 1..(Len(plan) - 1) : Tail(plan)[i] = plan[i + 1]
      /\ Len(Tail(plan)) = Len(plan) - 1
  BY <1>1, TailFacts
<1>3. op # "off"
  BY DEF PlanInv
<1>4. CASE Len(plan) = 1
  BY <1>2, <1>3, <1>4 DEF Settled
<1>5. CASE Len(plan) # 1
  <2>1. plan' = Tail(plan)
    BY <1>5, AdvanceShape
  <2>2. ASSUME NEW i \in 1..Len(plan), i # 1
        PROVE  plan[i].cmd \notin {"reset", "param"} /\ plan[i] # Sync(c)
    <3>1. i - 1 \in 1..Len(Tail(plan)) /\ Tail(plan)[i - 1] = plan[i]
      BY <1>2, <2>2
    <3>2. Tail(plan)[i - 1].cmd \notin {"reset", "param"} /\ Tail(plan)[i - 1] # Sync(c)
      BY <2>1, <3>1 DEF Settled, Sync, Step
    <3>3. QED
      BY <3>1, <3>2
  <2>3. QED
    BY <1>2, <1>3, <2>2 DEF Settled
<1>6. QED
  BY <1>4, <1>5

\* After a reset the parameter page is still to come.
LEMMA ResetUnsettled ==
    ASSUME TypeOK, PlanInv, plan # << >>, Advance, Head(plan).cmd = "reset",
           NEW c \in Cached
    PROVE  ~Settled(c)'
<1>1. op = "probe"
  BY HeadFacts DEF Arrays
<1>2. PICK n \in 0..(Len(ProbePlan) - 1) : ProbeAt(n)
  BY <1>1 DEF PlanInv
<1>3. /\ Head(plan) = ProbePlan[n + 1] /\ plan \in Seq(StepType)
      /\ Len(plan) = Len(ProbePlan) - n
      /\ \A i \in 1..Len(plan) : plan[i] = ProbePlan[n + i]
      /\ n = 0 \/ n = 1 \/ n = 2 \/ Head(plan) \in LaterSteps
  BY <1>2, ProbeHead
<1>4. n = 0
  <2>1. Head(plan) \notin LaterSteps
    BY LaterStep
  <2>2. n # 1 /\ n # 2
    BY <1>3, ProbePlanFacts DEF Plain, Step
  <2>3. QED
    BY <1>3, <2>1, <2>2
<1>5. Len(plan) > 3 /\ plan[3] = Plain("param")
  BY <1>3, <1>4, ProbePlanFacts
<1>6. plan' = Tail(plan) /\ 2 \in 1..Len(Tail(plan)) /\ Tail(plan)[2] = plan[3]
  BY <1>3, <1>5, TailFacts, AdvanceShape
<1>7. 2 \in 1..Len(plan') /\ plan'[2].cmd = "param"
  BY <1>5, <1>6 DEF Plain, Step
<1>8. QED
  BY <1>7 DEF Settled, Sync, Step

\* After the parameter page the bits of B0 are clear, as the copies have been since
\* the set-up; the threshold is still to be read, where there is one.
LEMMA ParamSettles ==
    ASSUME TypeOK, PlanInv, plan # << >>, Advance, Head(plan).cmd = "param",
           NEW c \in Kept4Type
    PROVE  ~Settled(c)' \/ (c \in {"ecc", "cont"} /\ cache[c] = 0)
<1>1. op = "probe"
  BY HeadFacts DEF Arrays
<1>2. PICK n \in 0..(Len(ProbePlan) - 1) : ProbeAt(n)
  BY <1>1 DEF PlanInv
<1>3. /\ Head(plan) = ProbePlan[n + 1] /\ plan \in Seq(StepType)
      /\ Len(plan) = Len(ProbePlan) - n
      /\ \A i \in 1..Len(plan) : plan[i] = ProbePlan[n + i]
      /\ n = 0 \/ n = 1 \/ n = 2 \/ Head(plan) \in LaterSteps
  BY <1>2, ProbeHead
<1>4. n = 2
  <2>1. Head(plan) \notin LaterSteps
    BY LaterStep
  <2>2. n # 0 /\ n # 1
    BY <1>3, ProbePlanFacts DEF Plain, Step
  <2>3. QED
    BY <1>3, <2>1, <2>2
<1>5. CASE c \in {"ecc", "cont"}
  BY <1>2, <1>4, <1>5 DEF ProbeAt, Cached
<1>6. CASE c = "thre"
  <2>1. PICK j \in 4..Len(ProbePlan) : ProbePlan[j] = Sync("thre")
    BY <1>6, ProbePlanFacts DEF Kept4Type
  <2>2. Len(ProbePlan) \in Nat /\ j - 2 \in 2..Len(plan) /\ plan[j - 2] = Sync("thre")
    <3>1. Len(ProbePlan) \in Nat
      BY ProbePlanFacts
    <3>2. j - 2 \in 2..Len(plan)
      BY <1>3, <1>4, <3>1
    <3>3. plan[j - 2] = ProbePlan[2 + (j - 2)] /\ 2 + (j - 2) = j
      BY <1>3, <1>4, <3>2
    <3>4. QED
      BY <2>1, <3>1, <3>2, <3>3
  <2>3. /\ Len(Tail(plan)) = Len(plan) - 1 /\ Len(plan) \in Nat
        /\ \A i \in 1..(Len(plan) - 1) : Tail(plan)[i] = plan[i + 1]
    BY <1>3, TailFacts
  <2>4. j - 3 \in 1..Len(Tail(plan)) /\ Tail(plan)[j - 3] = plan[j - 2]
    <3>1. j - 3 \in 1..(Len(plan) - 1) /\ (j - 3) + 1 = j - 2
      BY <2>2, <2>3
    <3>2. QED
      BY <2>3, <3>1
  <2>5. plan' = Tail(plan)
    BY <2>2, <2>3, AdvanceShape
  <2>6. j - 3 \in 1..Len(plan') /\ plan'[j - 3] = Sync("thre")
    BY <2>2, <2>4, <2>5
  <2>7. QED
    BY <1>6, <2>6 DEF Settled, Sync, Step
<1>7. QED
  BY <1>5, <1>6 DEF Kept4Type

\* The copy of c stays right when neither it nor the bit changes.
Right(c) == cache[c] = dev[c] \/ (Setting /\ f = c /\ phase = "verify")

LEMMA CoherentStep ==
    ASSUME TypeOK, PlanInv, CoherentInv, [Next]_vars
    PROVE  CoherentInv'
<1>1. dev \in [Bits -> Flag] /\ cache \in [Cached -> Flag]
  BY DEF TypeOK
<1>2. Kept4Type \subseteq Cached /\ Cached \subseteq Bits
  BY DEF Kept4Type, Cached, Bits
<1>3. Kept4Type' = Kept4Type
  <2>1. build' = build
    BY DEF Next, Setup, Application, Read, Program, Erase, Call, SetBB, SetEccEn, Driver,
           SkipSet, ReadFeature, WriteFeature, VerifyFeature, SyncCache, ResetChip,
           ParamPage, Command, CommandFails, Release, PowerCut, vars
  <2>2. QED
    BY <2>1, SameBuild
<1> SUFFICES ASSUME NEW c \in Kept4Type, c \notin doubt', Settled(c)'
             PROVE  Right(c)'
  BY <1>3 DEF CoherentInv, Right
<1>4. c \in Cached /\ c \in Bits /\ c \notin {"otp", "bp"}
  BY <1>2 DEF Cached
<1>5. c \notin doubt /\ Settled(c) => Right(c)
  BY DEF CoherentInv, Right
<1>6. Right(c) /\ (~Setting \/ f # c \/ phase # "verify") => cache[c] = dev[c]
  BY DEF Right
<1>7. cache'[c] = dev'[c] => Right(c)'
  BY DEF Right
<1>8. ASSUME plan # << >>, Setting
      PROVE  /\ f \in Cached \union {"bp"} /\ f \in Bits
             /\ Head(plan).cmd \notin {"reset", "param"} /\ Head(plan) # Sync(c)
  <2>1. f \in Cached \union {"bp"}
    BY <1>8, HeadFacts DEF Setting, Running, f
  <2>2. Head(plan).cmd \in {"set", "restore"}
    BY <1>8 DEF Setting, Running
  <2>3. QED
    BY <2>1, <2>2 DEF Bits, Sync, Step
<1>9. ASSUME plan # << >>, Setting, Store(wanted), Advance, doubt' = doubt \ {f},
             dev' = dev, dev[f] = wanted
      PROVE  Right(c)'
  <2>1. Settled(c)
    BY <1>4, <1>8, <1>9, AdvanceSettled
  <2>2. CASE f = c
    <3>1. cache'[c] = wanted
      BY <1>1, <1>4, <1>9, <2>2 DEF Store
    <3>2. QED
      BY <1>7, <1>9, <2>2, <3>1
  <2>3. CASE f # c
    <3>1. cache'[c] = cache[c] /\ c \notin doubt
      BY <1>1, <1>4, <1>9, <2>3 DEF Store
    <3>2. QED
      BY <1>5, <1>6, <1>7, <1>9, <2>1, <2>3, <3>1
  <2>4. QED
    BY <2>2, <2>3
<1>10. ASSUME UNCHANGED <<dev, cache, op, plan, phase, doubt>>
       PROVE  Right(c)'
  <2>1. Settled(c)' <=> Settled(c)
    BY <1>10 DEF Settled, Sync, Step
  <2>2. Setting' = Setting /\ f' = f
    BY <1>10 DEF Setting, Running, f
  <2>3. QED
    BY <1>5, <1>10, <2>1, <2>2 DEF Right
<1>11. ASSUME op = "idle", UNCHANGED <<dev, cache, doubt>>
       PROVE  Right(c)'
  <2>1. Settled(c) /\ plan = << >>
    BY <1>4, <1>11, CallsAreSettled DEF PlanInv
  <2>2. ~Setting
    BY <2>1 DEF Setting, Running
  <2>3. QED
    BY <1>5, <1>6, <1>7, <1>11, <2>1, <2>2
<1>12. ASSUME plan # << >>, Fail
       PROVE  op # "probe" /\ Settled(c)
  <2>1. op = "probe" => Head(plan).cmd # "restore"
    BY <1>12, HeadFacts
  <2>2. op' # "off"
    BY DEF Settled, Sync, Step
  <2>3. op # "probe" /\ op # "off"
    BY <1>12, <2>1, <2>2, FailShape DEF PlanInv
  <2>4. QED
    BY <1>4, <2>3, CallsAreSettled
<1>20. CASE UNCHANGED vars
  BY <1>10, <1>20 DEF vars
<1>21. CASE Setup
  <2>1. plan' = ProbePlan
    BY <1>21 DEF Setup, Begin
  <2>2. 1 \in 1..Len(plan') /\ plan'[1].cmd = "reset"
    BY <2>1, ProbePlanFacts DEF Plain, Step
  <2>3. QED
    BY <2>2 DEF Settled, Sync, Step
<1>22. CASE Read \/ Program \/ Erase
  BY <1>11, <1>22 DEF Read, Program, Erase, Call
<1>23. ASSUME NEW b \in BOOLEAN, SetBB(b) PROVE Right(c)'
  BY <1>11, <1>23 DEF SetBB
<1>24. ASSUME NEW b \in BOOLEAN, SetEccEn(b) PROVE Right(c)'
  BY <1>10, <1>24 DEF SetEccEn
<1>27. CASE SkipSet
  <2>1. plan # << >> /\ Setting /\ Advance /\ dev' = dev /\ doubt' = doubt /\ phase = "read"
    BY <1>27 DEF SkipSet, Setting, Running
  <2>2. cache' = cache
    BY <1>1, <1>27 DEF SkipSet, Unsupported, PlanInv
  <2>3. Settled(c)
    BY <1>4, <1>8, <2>1, AdvanceSettled
  <2>4. QED
    BY <1>5, <1>6, <1>7, <2>1, <2>2, <2>3
<1>28. CASE ReadFeature
  <2>1. plan # << >> /\ Setting /\ dev' = dev /\ phase = "read"
    BY <1>28 DEF ReadFeature, Setting, Running
  <2>2. CASE Store(wanted) /\ Advance /\ doubt' = doubt \ {f} /\ dev[f] = wanted
    BY <1>9, <2>1, <2>2
  <2>3. CASE phase' = "write" /\ UNCHANGED <<cache, op, plan, saved, doubt>>
    <3>1. Settled(c)
      BY <2>3 DEF Settled, Sync, Step
    <3>2. QED
      BY <1>5, <1>6, <1>7, <2>1, <2>3, <3>1
  <2>4. QED
    BY <1>28, <2>2, <2>3 DEF ReadFeature
<1>29. CASE WriteFeature
  <2>1. /\ plan # << >> /\ Setting /\ phase = "write" /\ phase' = "verify"
        /\ UNCHANGED <<cache, op, plan, doubt>>
    BY <1>29 DEF WriteFeature, Setting, Running
  <2>2. Settled(c) /\ Setting' /\ f' = f
    BY <2>1 DEF Settled, Sync, Step, Setting, Running, f
  <2>3. CASE f = c
    BY <2>1, <2>2, <2>3 DEF Right
  <2>4. CASE f # c
    <3>1. dev'[c] = dev[c]
      BY <1>1, <1>4, <1>29, <2>4 DEF WriteFeature
    <3>2. QED
      BY <1>5, <1>6, <1>7, <2>1, <2>2, <2>4, <3>1
  <2>5. QED
    BY <2>3, <2>4
<1>30. CASE VerifyFeature
  <2>1. plan # << >> /\ Setting /\ dev' = dev
    BY <1>30 DEF VerifyFeature, Setting, Running
  <2>2. CASE Store(wanted) /\ Advance /\ doubt' = doubt \ {f} /\ dev[f] = wanted
    BY <1>9, <2>1, <2>2
  <2>3. CASE /\ Store(Kept) /\ Fail
             /\ doubt' = IF f = "cont" THEN doubt \union {f} ELSE doubt \ {f}
    <3>1. Settled(c)
      BY <1>12, <2>1, <2>3
    <3>2. CASE f = c
      <4>1. f # "cont"
        BY <2>3, <3>2
      <4>2. cache'[c] = dev[c]
        BY <1>1, <1>4, <2>3, <3>2, <4>1 DEF Store, Kept
      <4>3. QED
        BY <1>7, <2>1, <4>2
    <3>3. CASE f # c
      <4>1. cache'[c] = cache[c] /\ c \notin doubt
        BY <1>1, <1>4, <2>3, <3>3 DEF Store
      <4>2. QED
        BY <1>5, <1>6, <1>7, <2>1, <3>1, <3>3, <4>1
    <3>4. QED
      BY <3>2, <3>3
  <2>4. QED
    BY <1>30, <2>2, <2>3 DEF VerifyFeature
<1>31. CASE SyncCache
  <2>1. /\ plan # << >> /\ Head(plan).cmd = "sync" /\ Advance /\ dev' = dev
        /\ doubt' = doubt \ {f} /\ cache' = [cache EXCEPT ![f] = dev[f]]
    BY <1>31 DEF SyncCache, Running, AsFlag
  <2>2. ~Setting
    BY <2>1 DEF Setting, Running
  <2>3. CASE f = c
    BY <1>1, <1>4, <1>7, <2>1, <2>3
  <2>4. CASE f # c
    <3>1. Head(plan) # Sync(c)
      BY <2>4 DEF f, Sync, Step
    <3>2. Settled(c)
      BY <1>4, <2>1, <3>1, AdvanceSettled
    <3>3. cache'[c] = cache[c] /\ c \notin doubt
      BY <1>1, <1>4, <2>1, <2>4
    <3>4. QED
      BY <1>5, <1>6, <1>7, <2>1, <2>2, <3>2, <3>3
  <2>5. QED
    BY <2>3, <2>4
<1>32. CASE ResetChip
  <2>1. plan # << >> /\ Head(plan).cmd = "reset" /\ Advance
    BY <1>32 DEF ResetChip, Running
  <2>2. QED
    BY <1>4, <2>1, ResetUnsettled
<1>33. CASE ParamPage
  <2>1. plan # << >> /\ Head(plan).cmd = "param" /\ Advance /\ cache' = cache
        /\ dev' = ArrayMode
    BY <1>33 DEF ParamPage, Running
  <2>2. ArrayMode["ecc"] = 0 /\ ArrayMode["cont"] = 0
    BY DEF ArrayMode, OtpMode, Bits, Cached
  <2>3. c \in {"ecc", "cont"} /\ cache[c] = 0
    BY <2>1, ParamSettles
  <2>4. QED
    BY <1>7, <2>1, <2>2, <2>3
<1>34. CASE Command
  <2>1. /\ plan # << >> /\ Head(plan).cmd \in Arrays \union {"rdid"} /\ Advance
        /\ UNCHANGED <<dev, cache, doubt>>
    BY <1>34 DEF Command, Running
  <2>2. ~Setting /\ Head(plan).cmd \notin {"reset", "param"} /\ Head(plan) # Sync(c)
    BY <2>1 DEF Setting, Running, Arrays, Sync, Step
  <2>3. Settled(c)
    BY <1>4, <2>1, <2>2, AdvanceSettled
  <2>4. QED
    BY <1>5, <1>6, <1>7, <2>1, <2>2, <2>3
<1>35. CASE CommandFails
  <2>1. plan # << >> /\ Fail /\ cache' = cache
        /\ doubt' = IF Setting /\ phase # "read" THEN doubt \union {f} ELSE doubt
    BY <1>35 DEF CommandFails
  <2>2. op # "probe" /\ Settled(c) /\ c \notin doubt
    BY <1>12, <2>1
  <2>3. ~(Setting /\ f = c /\ phase # "read")
    BY <2>1
  <2>4. dev'[c] = dev[c]
    <3>1. Head(plan).cmd \in {"set", "restore"} \union Arrays
      BY <2>1, <2>2, HeadFacts
    <3>2. ~Running({"param"}) /\ ~Running({"reset"})
      BY <3>1 DEF Running, Arrays
    <3>3. dev' = dev \/ (Setting /\ phase = "write" /\ dev' = [dev EXCEPT ![f] = wanted])
      BY <1>35, <3>2 DEF CommandFails
    <3>4. QED
      BY <1>1, <1>4, <2>3, <3>3
  <2>5. QED
    BY <1>5, <1>6, <1>7, <2>1, <2>2, <2>3, <2>4
<1>36. CASE Release \/ PowerCut
  <2>1. op' = "off"
    BY <1>36 DEF Release, PowerCut, Off, Begin
  <2>2. QED
    BY <2>1 DEF Settled, Sync, Step
<1>37. QED
  BY <1>20, <1>21, <1>22, <1>23, <1>24, <1>27, <1>28, <1>29, <1>30, <1>31,
     <1>32, <1>33, <1>34, <1>35, <1>36 DEF Next, Application, Driver
-----------------------------------------------------------------------------
(* Every action keeps the modes prepared *)

LEMMA PreparedNext ==
    ASSUME type' = type, Prepared(plan', cache')
    PROVE  PreparedInv'
BY DEF PreparedInv, Prepared, Relies, Internal, SetBefore, Untouched

LEMMA AdvancePrepared ==
    ASSUME TypeOK, PlanInv, PreparedInv, plan # << >>, Advance, type' = type,
           \A b \in {"cont", "ecc"} : Head(plan).f # b => cache'[b] = cache[b],
           \A b \in {"cont", "ecc"}, v \in Flag : Head(plan) = Set(b, v) => cache'[b] = v
    PROVE  PreparedInv'
<1>1. plan \in Seq(StepType) /\ Head(plan) = plan[1]
  BY StepTypePlans, TailFacts
<1>2. Prepared(Tail(plan), cache')
  BY <1>1, TailPrepared DEF PreparedInv
<1>3. Prepared(ScanPlan, cache') /\ Prepared(<< >>, cache')
  BY ScanPlanReady, EmptyPlanReady
<1>4. Prepared(plan', cache')
  BY <1>2, <1>3, AdvanceShape
<1>5. QED
  BY <1>4, PreparedNext

LEMMA PreparedStep ==
    ASSUME TypeOK, PlanInv, PreparedInv, [Next]_vars
    PROVE  PreparedInv'
<1>1. cache \in [Cached -> Flag] /\ {"cont", "ecc"} \subseteq Cached
  BY DEF TypeOK, Cached
<1>2. ASSUME plan # << >>, Setting
      PROVE  /\ f \in Cached \union {"bp"}
             /\ \A b \in {"cont", "ecc"}, v \in Flag :
                   Head(plan) = Set(b, v) => f = b /\ wanted = v
  <2>1. f \in Cached \union {"bp"}
    BY <1>2, HeadFacts DEF Setting, Running, f
  <2>2. QED
    BY <2>1 DEF Set, Step, f, wanted
<1>3. ASSUME plan # << >>, Setting, Store(wanted), Advance, type' = type
      PROVE  PreparedInv'
  <2>1. \A b \in {"cont", "ecc"} : f # b => cache'[b] = cache[b]
    BY <1>1, <1>3 DEF Store
  <2>2. \A b \in {"cont", "ecc"} : f = b => cache'[b] = wanted
    BY <1>1, <1>3 DEF Store
  <2>3. \A b \in {"cont", "ecc"}, v \in Flag : Head(plan) = Set(b, v) => cache'[b] = v
    BY <1>2, <1>3, <2>2
  <2>4. QED
    BY <1>3, <2>1, <2>3, AdvancePrepared DEF f
<1>4. ASSUME plan # << >>, Advance, cache' = cache, type' = type, Head(plan).cmd # "set"
      PROVE  PreparedInv'
  <2>1. \A b, v : Head(plan) # Set(b, v)
    BY <1>4 DEF Set, Step
  <2>2. QED
    BY <1>4, <2>1, AdvancePrepared
<1>5. ASSUME plan # << >>, Fail, type' = type
      PROVE  PreparedInv'
  <2>1. op = "probe" => Head(plan).cmd # "restore"
    BY <1>5, HeadFacts
  <2>2. plan' = << Restore >> \/ plan' = << >>
    BY <1>5, <2>1, FailShape
  <2>3. Prepared(<< Restore >>, cache') /\ Prepared(<< >>, cache')
    BY QuietPlans, EmptyPlanReady
  <2>4. QED
    BY <1>5, <2>2, <2>3, PreparedNext
<1>6. ASSUME plan' = << >>
      PROVE  PreparedInv'
  BY <1>6 DEF PreparedInv, Prepared
<1>7. ASSUME UNCHANGED <<cache, plan, type>>
      PROVE  PreparedInv'
  BY <1>7 DEF PreparedInv, Prepared, Relies, Internal, SetBefore, Untouched
<1>20. CASE UNCHANGED vars
  BY <1>7, <1>20 DEF vars
<1>21. CASE Setup
  <2>1. plan' = ProbePlan
    BY <1>21 DEF Setup, Begin
  <2>2. \A i \in 1..Len(ProbePlan) :
           ProbePlan[i].cmd \in {"reset", "rdid", "param", "set", "sync"}
    <3>1. \A s \in LaterSteps : s.cmd \in {"set", "sync"}
      BY LaterStep
    <3>2. QED
      BY <3>1, ProbePlanFacts DEF Plain, Step
  <2>3. QED
    BY <2>1, <2>2 DEF PreparedInv, Prepared, Relies
<1>22. CASE Read
  <2>1. PICK head \in BOOLEAN, tail \in BOOLEAN, pages \in {"none", "one", "several"} :
            Call(ReadPlan(head, pages, tail))
    BY <1>22 DEF Read
  <2>2. Prepared(plan', cache') /\ type' = type
    BY <2>1, ReadPlanReady DEF Call, Begin
  <2>3. QED
    BY <2>2, PreparedNext
<1>23. CASE Program
  BY <1>23, ProgramPlanReady, PreparedNext DEF Program, Call, Begin
<1>24. CASE Erase
  BY <1>24, QuietPlans, PreparedNext DEF Erase, Call, Begin
<1>25. ASSUME NEW b \in BOOLEAN, SetBB(b) PROVE PreparedInv'
  BY <1>25, QuietPlans, PreparedNext DEF SetBB, Begin
<1>26. ASSUME NEW b \in BOOLEAN, SetEccEn(b) PROVE PreparedInv'
  BY <1>6, <1>26 DEF SetEccEn, PlanInv
<1>27. CASE SkipSet
  <2>1. plan # << >> /\ Setting /\ Advance /\ type' = type
    BY <1>27 DEF SkipSet, Setting, Running
  <2>2. CASE Unsupported
    <3>1. f = "cont" /\ cache' = cache
      BY <1>1, <1>27, <2>2 DEF SkipSet, Unsupported, PlanInv
    <3>2. Head(plan) # Set("cont", 1)
      BY <2>1, <2>2, HeadFacts DEF Unsupported
    <3>3. ASSUME NEW b \in {"cont", "ecc"}, NEW v \in Flag, Head(plan) = Set(b, v)
          PROVE  cache'[b] = v
      <4>1. b = "cont" /\ v = 0
        BY <1>2, <2>1, <3>1, <3>2, <3>3 DEF Flag
      <4>2. QED
        BY <2>2, <3>1, <4>1 DEF Unsupported, PlanInv
    <3>4. QED
      BY <2>1, <3>1, <3>3, AdvancePrepared
  <2>3. CASE ~Unsupported
    <3>1. cache' = cache /\ cache[f] = wanted
      BY <1>27, <2>3 DEF SkipSet
    <3>2. \A b \in {"cont", "ecc"}, v \in Flag : Head(plan) = Set(b, v) => cache'[b] = v
      BY <1>2, <2>1, <3>1
    <3>3. QED
      BY <2>1, <3>1, <3>2, AdvancePrepared
  <2>4. QED
    BY <2>2, <2>3
<1>28. CASE ReadFeature
  <2>1. plan # << >> /\ Setting /\ type' = type
    BY <1>28 DEF ReadFeature, Setting, Running
  <2>2. CASE Store(wanted) /\ Advance
    BY <1>3, <2>1, <2>2
  <2>3. CASE UNCHANGED <<cache, op, plan, saved, doubt>>
    BY <1>7, <2>1, <2>3
  <2>4. QED
    BY <1>28, <2>2, <2>3 DEF ReadFeature
<1>29. CASE WriteFeature
  BY <1>7, <1>29 DEF WriteFeature
<1>30. CASE VerifyFeature
  <2>1. plan # << >> /\ Setting /\ type' = type
    BY <1>30 DEF VerifyFeature, Setting, Running
  <2>2. QED
    BY <1>3, <1>5, <1>30, <2>1 DEF VerifyFeature
<1>31. CASE SyncCache
  <2>1. /\ plan # << >> /\ Head(plan).cmd = "sync" /\ Advance /\ type' = type
        /\ cache' = [cache EXCEPT ![f] = dev[f]]
    BY <1>31 DEF SyncCache, Running, AsFlag
  <2>2. \A b, v : Head(plan) # Set(b, v)
    BY <2>1 DEF Set, Step
  <2>3. \A b \in {"cont", "ecc"} : Head(plan).f # b => cache'[b] = cache[b]
    BY <1>1, <2>1 DEF f
  <2>4. QED
    BY <2>1, <2>2, <2>3, AdvancePrepared
<1>32. CASE ResetChip \/ ParamPage \/ Command
  <2>1. plan # << >> /\ Advance /\ cache' = cache /\ type' = type
    BY <1>32 DEF ResetChip, ParamPage, Command, Running
  <2>2. Head(plan).cmd # "set"
    BY <1>32 DEF ResetChip, ParamPage, Command, Running, Arrays
  <2>3. QED
    BY <1>4, <2>1, <2>2
<1>33. CASE CommandFails
  BY <1>5, <1>33 DEF CommandFails
<1>34. CASE Release \/ PowerCut
  BY <1>6, <1>34 DEF Release, PowerCut, Off, Begin
<1>35. QED
  BY <1>20, <1>21, <1>22, <1>23, <1>24, <1>25, <1>26, <1>27, <1>28, <1>29, <1>30, <1>31,
     <1>32, <1>33, <1>34 DEF Next, Application, Driver
-----------------------------------------------------------------------------
(* The theorems *)

LEMMA InitIInv == Init => IInv
<1> USE ModeAssumption
<1> SUFFICES ASSUME Init PROVE IInv
  OBVIOUS
<1>1. << >> \in Seq(StepType) /\ << >> \in Seq(CallSteps) /\ plan = << >>
  BY EmptySeq DEF Init
<1>2. TypeOK
  <2>1. cache \in [Cached -> Flag] /\ dev \in [Bits -> Flag]
    BY DEF Init, PowerOn, Flag
  <2>2. EccType \in EccTypes
    BY DEF Init, EccType
  <2>3. QED
    BY <1>1, <2>1, <2>2 DEF Init, TypeOK, StepType, EccTypes, Ops, Flag
<1>3. PlanInv
  <2>1. cache["cont"] = 0
    BY DEF Init, Cached
  <2>2. QED
    BY <1>1, <2>1 DEF Init, PlanInv
<1>4. CoherentInv
  BY DEF Init, CoherentInv, Settled
<1>5. PreparedInv
  BY <1>1 DEF PreparedInv, Prepared
<1>6. QED
  BY <1>2, <1>3, <1>4, <1>5 DEF IInv

\* The inductive invariant: the plans are those the code issues, the probe goes
\* through its steps in order, a copy that counts is right, and each command to come
\* finds its mode set by a step before it or by the copy (spinand.c).
THEOREM Invariant == Spec => []IInv
<1>1. Init => IInv
  BY InitIInv
<1>2. IInv /\ [Next]_vars => IInv'
  BY TypeStep, PlanStep, CoherentStep, PreparedStep DEF IInv
<1>3. QED
  BY <1>1, <1>2, PTL DEF Spec

\* The registers, the copies and the steps keep their types.
THEOREM TypeCorrect == Spec => []TypeOK
<1>1. IInv => TypeOK
  BY DEF IInv
<1>2. QED
  BY <1>1, Invariant, PTL

\* The driver's copies of the feature bits are right, except where a command of
\* unknown outcome or a refused write has left them in doubt (snand->cache).
THEOREM CopiesCoherent == Spec => []CacheCoherent
<1>1. ASSUME IInv PROVE CacheCoherent
  <2> SUFFICES ASSUME Probed, NEW c \in Kept4Type \ doubt
               PROVE  cache[c] = dev[c] \/ (Setting /\ f = c /\ phase = "verify")
    BY DEF CacheCoherent
  <2>1. Settled(c)
    BY <1>1, CallsAreSettled DEF IInv, Probed, Kept4Type, Cached
  <2>2. QED
    BY <1>1, <2>1 DEF IInv, CoherentInv
<1>2. QED
  BY <1>1, Invariant, PTL

\* Every array command finds the mode its caller relies on, whatever calls went
\* before and however they failed (spinand_read, spinand_program, spinand_read_oob,
\* spinand_set_bb, spinand_scan_bb).
THEOREM RightMode == Spec => []RunsInMode
<1>1. ASSUME IInv PROVE RunsInMode
  <2> SUFFICES ASSUME Running(Arrays)
               PROVE  LET cmd == Head(plan).cmd IN
                      /\ dev["otp"] = 0 /\ dev["bp"] = 0
                      /\ "cont" \notin doubt =>
                           /\ cmd = "stream_read" => dev["cont"] = 1
                           /\ cmd \in {"page_read", "oob_read"} => dev["cont"] = 0
                      /\ "ecc" \notin doubt /\ cmd \in {"page_read", "stream_read", "program"} =>
                           (dev["ecc"] = 1 <=> Internal)
    BY DEF RunsInMode
  <2>1. plan # << >> /\ Head(plan).cmd \in Arrays
    BY DEF Running
  <2>2. op \notin {"off", "probe"}
    <3>1. Head(plan).cmd \notin {"reset", "rdid", "param", "set", "sync"}
      BY <2>1 DEF Arrays
    <3>2. QED
      BY <1>1, <2>1, <3>1, HeadFacts DEF IInv, PlanInv
  <2>3. ~Setting
    BY <2>1 DEF Setting, Running, Arrays
  <2>4. ASSUME NEW b \in {"cont", "ecc"}, NEW v \in Flag, b \notin doubt,
               Relies(Head(plan).cmd, b, v)
        PROVE  dev[b] = v
    <3>1. 1 \in 1..Len(plan) /\ Head(plan) = plan[1]
      BY <1>1, <2>1, StepTypePlans, TailFacts DEF IInv
    <3>2. SetBefore(plan, 1, b, v) \/ cache[b] = v
      BY <1>1, <2>4, <3>1 DEF IInv, PreparedInv, Prepared
    <3>3. ~SetBefore(plan, 1, b, v)
      BY DEF SetBefore
    <3>4. Settled(b) /\ b \in Kept4Type
      BY <1>1, <2>2, CallsAreSettled DEF IInv, Cached, Kept4Type
    <3>5. QED
      BY <1>1, <2>3, <2>4, <3>2, <3>3, <3>4 DEF IInv, CoherentInv
  <2>5. dev["otp"] = 0 /\ dev["bp"] = 0
    BY <1>1, <2>2 DEF IInv, PlanInv
  <2>6. ASSUME "cont" \notin doubt
        PROVE  /\ Head(plan).cmd = "stream_read" => dev["cont"] = 1
               /\ Head(plan).cmd \in {"page_read", "oob_read"} => dev["cont"] = 0
    BY <2>4, <2>6 DEF Relies, Flag
  <2>7. ASSUME "ecc" \notin doubt, Head(plan).cmd \in {"page_read", "stream_read", "program"}
        PROVE  dev["ecc"] = 1 <=> Internal
    <3>1. PICK w \in Flag : w = IF Internal THEN 1 ELSE 0
      BY DEF Flag
    <3>2. dev["ecc"] = w
      BY <2>4, <2>7, <3>1 DEF Relies
    <3>3. QED
      BY <3>1, <3>2
  <2>8. QED
    BY <2>5, <2>6, <2>7
<1>2. QED
  BY <1>1, Invariant, PTL
=============================================================================
