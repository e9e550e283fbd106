-------------------------- MODULE SpiNorAspProofs --------------------------
(* Proofs about SpiNorAsp for every chip, every set of ranges that callers pass
   and with or without failures. *)
EXTENDS SpiNorAsp, TLAPS

(* Multiples and rounding: the only place where products are multiplied out. *)

IsMult(a, z) == \E q \in Nat : a = q * z

\* Two multiples of z that differ are z apart.
LEMMA MultGap ==
    ASSUME NEW z \in Nat \ {0}, NEW a, NEW b, IsMult(a, z), IsMult(b, z), a < b
    PROVE  a + z <= b
<1>1. PICK p \in Nat, q \in Nat : a = p * z /\ b = q * z
    BY DEF IsMult
<1>2. p < q
    <2>1. SUFFICES ASSUME q <= p PROVE FALSE
        BY <1>1
    <2>2. q * z <= p * z
        BY <2>1, <1>1, Z3
    <2>3. p * z \in Nat /\ q * z \in Nat
        BY <1>1, Z3
    <2>. QED
        BY <2>2, <2>3, <1>1
<1>3. p + 1 <= q
    BY <1>2
<1>4. (p + 1) * z <= q * z
    BY <1>3, <1>1, Z3
<1>5. (p + 1) * z = p * z + z
    BY <1>1, Z3
<1>. QED
    BY <1>1, <1>4, <1>5

LEMMA MultNat ==
    ASSUME NEW z \in Nat, NEW a, IsMult(a, z) PROVE a \in Nat
BY Z3 DEF IsMult

LEMMA MultNext ==
    ASSUME NEW z \in Nat, NEW a, IsMult(a, z) PROVE IsMult(a + z, z)
<1>1. PICK p \in Nat : a = p * z
    BY DEF IsMult
<1>2. a + z = (p + 1) * z /\ p + 1 \in Nat
    BY <1>1, Z3
<1>. QED
    BY <1>2 DEF IsMult

LEMMA MultTrans ==
    ASSUME NEW x, NEW y, NEW z \in Nat, IsMult(x, y), IsMult(y, z) PROVE IsMult(x, z)
<1>1. PICK p \in Nat, q \in Nat : x = p * y /\ y = q * z
    BY DEF IsMult
<1>2. x = (p * q) * z /\ p * q \in Nat
    BY <1>1, Z3
<1>. QED
    BY <1>2 DEF IsMult

\* ROUNDDOWN returns the multiple at or just below its argument.
LEMMA RoundDownFacts ==
    ASSUME NEW a \in Nat, NEW z \in Nat \ {0}
    PROVE  /\ RoundDown(a, z) \in Nat /\ IsMult(RoundDown(a, z), z)
           /\ RoundDown(a, z) <= a /\ a < RoundDown(a, z) + z
<1> DEFINE q == a \div z
<1>1. q \in Nat /\ q * z <= a /\ a < q * z + z /\ q * z \in Nat
    BY Z3
<1>. QED
    BY <1>1 DEF RoundDown, IsMult

LEMMA RoundDownUnique ==
    ASSUME NEW a \in Nat, NEW z \in Nat \ {0}, NEW u, IsMult(u, z), u <= a, a < u + z
    PROVE  RoundDown(a, z) = u
<1> DEFINE v == RoundDown(a, z)
<1>1. u \in Nat
    BY MultNat
<1>2. v \in Nat /\ IsMult(v, z) /\ v <= a /\ a < v + z
    BY RoundDownFacts
<1> HIDE DEF v
<1>3. ~(u < v)
    <2>1. SUFFICES ASSUME u < v PROVE FALSE
        OBVIOUS
    <2>2. u + z <= v
        BY <2>1, <1>2, MultGap
    <2>. QED
        BY <2>2, <1>1, <1>2
<1>4. ~(v < u)
    <2>1. SUFFICES ASSUME v < u PROVE FALSE
        OBVIOUS
    <2>2. v + z <= u
        BY <2>1, <1>2, MultGap
    <2>. QED
        BY <2>2, <1>1, <1>2
<1>. QED
    BY <1>1, <1>2, <1>3, <1>4 DEF v

\* ROUNDUP leaves a multiple alone and takes all else to the next one.
LEMMA RoundUpFacts ==
    ASSUME NEW a \in Nat, NEW z \in Nat \ {0}
    PROVE  RoundUp(a, z) = IF RoundDown(a, z) = a THEN a ELSE RoundDown(a, z) + z
<1> DEFINE v == RoundDown(a, z)
<1>1. v \in Nat /\ IsMult(v, z) /\ v <= a /\ a < v + z /\ IsMult(v + z, z)
    BY RoundDownFacts, MultNext
<1>2. a + z - 1 \in Nat /\ RoundUp(a, z) = RoundDown(a + z - 1, z)
    BY DEF RoundUp, RoundDown
<1> HIDE DEF v
<1>3. CASE v = a
    BY <1>1, <1>2, <1>3, RoundDownUnique DEF v
<1>4. CASE v # a
    <2>1. v + z <= a + z - 1 /\ a + z - 1 < (v + z) + z
        BY <1>1, <1>4
    <2>2. RoundDown(a + z - 1, z) = v + z
        BY <2>1, <1>1, <1>2, RoundDownUnique
    <2>. QED
        BY <2>2, <1>2, <1>4 DEF v
<1>. QED
    BY <1>3, <1>4
-----------------------------------------------------------------------------
(* Units. *)

\* The sizes of the chip.
LEMMA Sizes ==
    /\ BlockSize \in Nat \ {0} /\ SectorSize \in Nat \ {0} /\ SectorSize > 1
    /\ SectorSize <= BlockSize
    /\ Chip \in Nat /\ BlockSize <= Chip - BlockSize /\ Chip < AddrSpace
    /\ AddrSpace \in Nat
    /\ IsMult(BlockSize, BlockSize) /\ IsMult(Chip - BlockSize, BlockSize)
    /\ IsMult(BlockSize, SectorSize) /\ IsMult(Chip - BlockSize, SectorSize)
    /\ IsMult(0, BlockSize) /\ IsMult(0, SectorSize)
    /\ IsMult(Chip, BlockSize) /\ IsMult(Chip, SectorSize)
<1>1. /\ BlockSize \in Nat /\ BlockSize > 0 /\ SectorSize \in Nat /\ SectorSize > 1
      /\ Blocks \in Nat /\ Blocks >= 2 /\ AddrSpace \in Nat /\ Chip < AddrSpace
      /\ BlockSize % SectorSize = 0
    BY AspAssumption
<1>2. IsMult(BlockSize, SectorSize)
    <2> DEFINE k == BlockSize \div SectorSize
    <2>1. k \in Nat /\ BlockSize = k * SectorSize
        BY <1>1, Z3
    <2>. QED
        BY <2>1 DEF IsMult
<1>3. IsMult(BlockSize, BlockSize) /\ IsMult(0, BlockSize) /\ IsMult(0, SectorSize)
    <2>1. BlockSize = 1 * BlockSize /\ 0 = 0 * BlockSize /\ 0 = 0 * SectorSize
        BY <1>1, Z3
    <2>. QED
        BY <2>1 DEF IsMult
<1>4. SectorSize <= BlockSize
    BY <1>1, <1>2, <1>3, MultGap
<1>5. Chip \in Nat /\ Chip - BlockSize = (Blocks - 1) * BlockSize
    BY <1>1, Z3 DEF Chip
<1>6. IsMult(Chip - BlockSize, BlockSize) /\ IsMult(Chip, BlockSize)
    BY <1>1, <1>5 DEF IsMult, Chip
<1>7. BlockSize <= Chip - BlockSize
    <2>1. 1 * BlockSize <= (Blocks - 1) * BlockSize
        BY <1>1, Z3
    <2>. QED
        BY <2>1, <1>1, <1>5
<1>8. IsMult(Chip - BlockSize, SectorSize) /\ IsMult(Chip, SectorSize)
    BY <1>1, <1>2, <1>6, MultTrans
<1>. QED
    BY <1>1, <1>2, <1>3, <1>4, <1>5, <1>6, <1>7, <1>8

\* What the units are.
LEMMA UnitDef ==
    ASSUME NEW u
    PROVE  /\ u \in Units <=> u \in Nat /\ u < Chip /\ IsMult(u, LockSize(u))
           /\ LockSize(u) \in Nat \ {0} /\ LockSize(u) > 1
<1>1. LockSize(u) \in Nat \ {0} /\ LockSize(u) > 1
    BY Sizes DEF LockSize
<1>2. u \in Nat /\ u < Chip <=> u \in 0..Chip - 1
    BY Sizes
<1>3. ASSUME u \in Nat PROVE RoundDown(u, LockSize(u)) = u <=> IsMult(u, LockSize(u))
    <2>1. u <= u /\ u < u + LockSize(u)
        BY <1>1, <1>3
    <2>2. IsMult(u, LockSize(u)) => RoundDown(u, LockSize(u)) = u
        BY <2>1, <1>1, <1>3, RoundDownUnique
    <2>3. IsMult(RoundDown(u, LockSize(u)), LockSize(u))
        BY <1>1, <1>3, RoundDownFacts
    <2>. QED
        BY <2>2, <2>3
<1>. QED
    BY <1>1, <1>2, <1>3 DEF Units, UnitOf

\* Every byte of the chip is in the unit it is rounded down to.
LEMMA UnitOfByte ==
    ASSUME NEW a \in Nat, a < Chip
    PROVE  /\ UnitOf(a) \in Units /\ UnitOf(a) <= a
           /\ LockSize(UnitOf(a)) = LockSize(a) /\ a <= LastOf(UnitOf(a))
<1> DEFINE z == LockSize(a)  u == UnitOf(a)
<1>1. z \in Nat \ {0}
    BY UnitDef
<1>2. u \in Nat /\ IsMult(u, z) /\ u <= a /\ a < u + z
    BY <1>1, RoundDownFacts DEF UnitOf
<1>3. LockSize(u) = z
    <2> HIDE DEF u
    <2>1. CASE SmallEnds /\ a < BlockSize
        BY <2>1, <1>2, Sizes DEF LockSize
    <2>2. CASE SmallEnds /\ a >= Chip - BlockSize
        <3>1. z = SectorSize
            BY <2>2 DEF LockSize
        <3>2. u >= Chip - BlockSize
            <4>1. SUFFICES ASSUME u < Chip - BlockSize PROVE FALSE
                BY <1>2, Sizes
            <4>2. u + SectorSize <= Chip - BlockSize
                BY <4>1, <3>1, <1>2, Sizes, MultGap
            <4>. QED
                BY <4>2, <3>1, <2>2, <1>2, Sizes
        <3>. QED
            BY <3>1, <3>2, <2>2 DEF LockSize
    <2>3. CASE SmallEnds /\ ~(a < BlockSize) /\ ~(a >= Chip - BlockSize)
        <3>1. z = BlockSize
            BY <2>3 DEF LockSize
        <3>2. u >= BlockSize
            <4>1. SUFFICES ASSUME u < BlockSize PROVE FALSE
                BY <1>2, Sizes
            <4>2. u + BlockSize <= BlockSize
                BY <4>1, <3>1, <1>2, Sizes, MultGap
            <4>. QED
                BY <4>2, <3>1, <2>3, <1>2, Sizes
        <3>. QED
            BY <3>1, <3>2, <2>3, <1>2, Sizes DEF LockSize
    <2>4. CASE ~SmallEnds
        BY <2>4 DEF LockSize
    <2>. QED
        BY <2>1, <2>2, <2>3, <2>4
<1> HIDE DEF z, u
<1>4. u < Chip
    BY <1>2, Sizes
<1>5. u \in Units
    BY <1>2, <1>3, <1>4, UnitDef
<1>. QED
    BY <1>1, <1>2, <1>3, <1>5 DEF LastOf, z, u

\* Units do not overlap.
LEMMA UnitGap ==
    ASSUME NEW u \in Units, NEW v \in Units, u < v
    PROVE  u + LockSize(u) <= v
<1>1. /\ u \in Nat /\ v \in Nat /\ v < Chip /\ u < Chip
      /\ IsMult(u, LockSize(u)) /\ IsMult(v, LockSize(v))
      /\ LockSize(u) \in Nat \ {0}
    BY UnitDef
<1>2. CASE LockSize(u) = LockSize(v)
    BY <1>1, <1>2, MultGap
<1>3. CASE LockSize(u) # LockSize(v)
    <2>1. SmallEnds
        BY <1>3 DEF LockSize
    <2>2. CASE u < BlockSize
        <3>1. LockSize(u) = SectorSize /\ LockSize(v) # SectorSize
            BY <2>1, <2>2, <1>3 DEF LockSize
        <3>2. BlockSize <= v
            BY <3>1, <2>1, <1>1, Sizes DEF LockSize
        <3>3. u + SectorSize <= BlockSize
            BY <3>1, <2>2, <1>1, Sizes, MultGap
        <3>. QED
            BY <3>1, <3>2, <3>3, <1>1, Sizes
    <2>3. CASE ~(u < BlockSize)
        <3>1. u < Chip - BlockSize /\ LockSize(u) = BlockSize
            <4>1. SUFFICES ASSUME u >= Chip - BlockSize PROVE FALSE
                BY <2>1, <2>3, <1>1, Sizes DEF LockSize
            <4>2. v >= Chip - BlockSize
                BY <4>1, <1>1, Sizes
            <4>. QED
                BY <4>1, <4>2, <2>1, <1>3 DEF LockSize
        <3>2. v >= Chip - BlockSize
            BY <3>1, <2>1, <2>3, <1>1, <1>3, Sizes DEF LockSize
        <3>3. u + BlockSize <= Chip - BlockSize
            BY <3>1, <1>1, Sizes, MultGap
        <3>. QED
            BY <3>1, <3>2, <3>3, <1>1, Sizes
    <2>. QED
        BY <2>2, <2>3
<1>. QED
    BY <1>2, <1>3

\* The loops of the driver step from one unit to the next.
LEMMA NextIsUnit ==
    ASSUME NEW u \in Units, u + LockSize(u) < Chip
    PROVE  u + LockSize(u) \in Units
<1> DEFINE z == LockSize(u)  v == u + z
<1>1. u \in Nat /\ u < Chip /\ IsMult(u, z) /\ z \in Nat \ {0} /\ IsMult(v, z) /\ v \in Nat
    BY UnitDef, MultNext
<1>2. IsMult(v, LockSize(v))
    <2> HIDE DEF v
    <2>1. CASE LockSize(v) = z
        BY <2>1, <1>1
    <2>2. CASE SmallEnds /\ LockSize(v) = SectorSize /\ z = BlockSize
        BY <2>2, <1>1, Sizes, MultTrans
    <2>3. CASE SmallEnds /\ LockSize(v) = BlockSize /\ z = SectorSize /\ LockSize(v) # z
        <3>1. u < BlockSize /\ v >= BlockSize /\ v = u + SectorSize
            <4>1. v = u + SectorSize
                BY <2>3 DEF v
            <4>2. v < Chip - BlockSize /\ v >= BlockSize
                BY <2>3, <1>1, Sizes DEF LockSize
            <4>3. u < Chip - BlockSize
                BY <4>1, <4>2, <1>1, Sizes
            <4>4. u < BlockSize
                BY <4>3, <2>3, <1>1, Sizes DEF LockSize
            <4>. QED
                BY <4>1, <4>2, <4>4
        <3>2. u + SectorSize <= BlockSize
            BY <3>1, <2>3, <1>1, Sizes, MultGap
        <3>3. v = BlockSize
            BY <3>1, <3>2, <1>1, Sizes
        <3>. QED
            BY <3>3, <2>3, Sizes
    <2>. QED
        BY <2>1, <2>2, <2>3 DEF LockSize
<1>. QED
    BY <1>1, <1>2, UnitDef

\* A range of bytes of the chip, rounded as spinor_asp_set_boundary does: the
\* units in it meet the range, and it leaves out none that a byte of the range
\* but the last is in, or that starts before the last byte.
LEMMA RangeUnits ==
    ASSUME NEW a \in Nat, NEW e \in Nat, a <= e, e < Chip, 0 < e
    PROVE  /\ RangeEnd(e) \in Nat /\ RangeEnd(e) < Chip
           /\ \A u \in Units :
                /\ UnitOf(a) <= u /\ u <= RangeEnd(e) => u <= e /\ a <= LastOf(u)
                /\ u < e /\ a <= LastOf(u) => UnitOf(a) <= u /\ u < RangeEnd(e)
                /\ u < RangeEnd(e) => u < e
<1> DEFINE v == UnitOf(e)  z == LockSize(e)  x == UnitOf(a)
<1>1. v \in Units /\ v <= e /\ LockSize(v) = z /\ e <= LastOf(v) /\ v \in Nat /\ v < Chip
    BY UnitOfByte, UnitDef
<1>2. z \in Nat \ {0} /\ z > 1 /\ LastOf(v) = v + z - 1
    BY <1>1, UnitDef DEF LastOf
<1>3. v + z <= Chip
    <2>1. IsMult(v, z) /\ IsMult(Chip, z)
        BY <1>1, UnitDef, Sizes DEF LockSize
    <2>. QED
        BY <2>1, <1>1, <1>2, MultGap
<1>4. RoundUp(e, z) = IF v = e THEN e ELSE v + z
    BY <1>2, RoundUpFacts DEF UnitOf
<1>5. RangeEnd(e) = IF v = e THEN e - 1 ELSE v + z - 1
    <2>1. RangeEnd(e) = (RoundUp(e, z) - 1) % AddrSpace
        BY DEF RangeEnd
    <2>2. RoundUp(e, z) - 1 \in Nat /\ RoundUp(e, z) - 1 < AddrSpace
        BY <1>1, <1>2, <1>3, <1>4, Sizes
    <2>3. \A y \in Nat : y < AddrSpace => y % AddrSpace = y
        BY Sizes, Z3
    <2>4. (RoundUp(e, z) - 1) % AddrSpace = RoundUp(e, z) - 1
        BY <2>2, <2>3
    <2>. QED
        BY <2>1, <2>4, <1>1, <1>2, <1>4
<1>6. x \in Units /\ x \in Nat /\ x <= a /\ a <= LastOf(x) /\ LastOf(x) = x + LockSize(x) - 1
      /\ LockSize(x) \in Nat \ {0}
    <2>1. a < Chip
        BY Sizes
    <2>. QED
        BY <2>1, UnitOfByte, UnitDef DEF LastOf
<1> HIDE DEF v, z, x
<1>7. RangeEnd(e) \in Nat /\ RangeEnd(e) < Chip
    BY <1>1, <1>2, <1>3, <1>5, Sizes
<1>8. ASSUME NEW u \in Units
      PROVE  /\ x <= u /\ u <= RangeEnd(e) => u <= e /\ a <= LastOf(u)
             /\ u < e /\ a <= LastOf(u) => x <= u /\ u < RangeEnd(e)
             /\ u < RangeEnd(e) => u < e
    <2>1. u \in Nat /\ LockSize(u) \in Nat \ {0} /\ LockSize(u) > 1
          /\ LastOf(u) = u + LockSize(u) - 1
        BY UnitDef DEF LastOf
    <2>2. u < v => u + LockSize(u) <= v
        BY <1>1, UnitGap
    <2>3. v < u => v + z <= u
        BY <1>1, UnitGap
    <2>4. x < u => x + LockSize(x) <= u
        BY <1>6, UnitGap
    <2>5. u < x => u + LockSize(u) <= x
        BY <1>6, UnitGap
    <2>6. ASSUME x <= u, u <= RangeEnd(e) PROVE u <= e /\ a <= LastOf(u)
        <3>1. u <= e
            BY <2>6, <2>1, <2>3, <1>1, <1>2, <1>5
        <3>2. a <= LastOf(u)
            BY <2>6, <2>1, <2>4, <1>6
        <3>. QED
            BY <3>1, <3>2
    <2>7. ASSUME u < e, a <= LastOf(u) PROVE x <= u /\ u < RangeEnd(e)
        <3>1. x <= u
            BY <2>7, <2>1, <2>5, <1>6
        <3>2. u < RangeEnd(e)
            BY <2>7, <2>1, <2>2, <1>1, <1>2, <1>5
        <3>. QED
            BY <3>1, <3>2
    <2>8. u < RangeEnd(e) => u < e
        BY <2>1, <2>3, <1>1, <1>2, <1>5
    <2>. QED
        BY <2>6, <2>7, <2>8
<1>. QED
    BY <1>7, <1>8 DEF x

\* What the proofs below know of addresses: all values stay in uint32_t, every
\* address is decoded to a unit, and units follow each other.
LEMMA Geometry ==
    /\ Chip \in Nat /\ Chip > 0 /\ Units \subseteq Addrs /\ 0 \in Units
    /\ Addrs = {a \in Nat : a < AddrSpace} /\ 0 \in Addrs
    /\ \A u \in Units : u \in Nat /\ u < Chip /\ UnitOf(u) = u /\ u % Chip = u
    /\ \A a \in Addrs : UnitOf(a % Chip) \in Units
    /\ \A a \in Addrs : a < Chip => UnitOf(a) \in Units
    /\ \A a \in Addrs : RangeEnd(a) \in Addrs /\ (a + LockSize(a)) % AddrSpace \in Addrs
<1>1. Chip \in Nat /\ Chip > 0 /\ Chip < AddrSpace /\ AddrSpace \in Nat
    BY Sizes
<1>2. Addrs = {a \in Nat : a < AddrSpace}
    BY <1>1 DEF Addrs
<1>3. 0 \in Units
    BY <1>1, UnitDef, Sizes DEF LockSize
<1>4. ASSUME NEW u \in Units PROVE u \in Nat /\ u < Chip /\ UnitOf(u) = u /\ u % Chip = u
    <2>1. u \in Nat /\ u < Chip
        BY UnitDef
    <2>2. u % Chip = u
        BY <2>1, <1>1, Z3
    <2>. QED
        BY <2>1, <2>2 DEF Units
<1>5. \A a \in Addrs : a < Chip => UnitOf(a) \in Units
    BY <1>2, UnitOfByte
<1>6. ASSUME NEW a \in Addrs PROVE UnitOf(a % Chip) \in Units
    <2>1. a % Chip \in Nat /\ a % Chip < Chip
        BY <1>1, <1>2, Z3
    <2>. QED
        BY <2>1, UnitOfByte
<1>7. ASSUME NEW a \in Addrs PROVE RangeEnd(a) \in Addrs /\ (a + LockSize(a)) % AddrSpace \in Addrs
    <2>1. a \in Nat /\ LockSize(a) \in Nat \ {0}
        BY <1>2, UnitDef
    <2>2. RoundUp(a, LockSize(a)) \in Nat
        BY <2>1, RoundUpFacts, RoundDownFacts
    <2>3. \A y \in Int : y % AddrSpace \in Nat /\ y % AddrSpace < AddrSpace
        BY <1>1, Z3
    <2>4. RoundUp(a, LockSize(a)) - 1 \in Int /\ a + LockSize(a) \in Int
        BY <2>1, <2>2
    <2>. QED
        BY <2>3, <2>4, <1>2 DEF RangeEnd
<1>. QED
    BY <1>1, <1>2, <1>3, <1>4, <1>5, <1>6, <1>7
-----------------------------------------------------------------------------
(* Typing. *)

LEMMA TypeInit == Init => TypeOK
<1> SUFFICES ASSUME Init PROVE TypeOK
    OBVIOUS
<1>1. spb \subseteq Units /\ dpb \subseteq Units /\ {scur, wpsel} \subseteq BOOLEAN
    BY DEF Init
<1>2. op \in Ops /\ target \in Targets /\ saved \subseteq Units /\ acc \subseteq Targets
    BY DEF Init, Ops, Targets
<1>3. range \in [s : Units, e : Addrs] /\ ofs \in Addrs
    BY Geometry DEF Init
<1>4. call \in [fn : Fns, kind : Targets, s : Addrs, e : Addrs, end : Ends, mode : Modes]
    BY Geometry DEF Init, NoCall, Fns, Targets, Ends, Modes
<1>5. was \in [spb : SUBSET Units, dpb : SUBSET Units]
    BY <1>1 DEF Init
<1>. QED
    BY <1>1, <1>2, <1>3, <1>4, <1>5 DEF TypeOK

\* The parts of TypeOK that change together.
LocalType == target \in Targets /\ range \in [s : Units, e : Addrs] /\ ofs \in Addrs
             /\ saved \subseteq Units /\ acc \subseteq Targets
CallType  == /\ call \in [fn : Fns, kind : Targets, s : Addrs, e : Addrs, end : Ends, mode : Modes]
             /\ was \in [spb : SUBSET Units, dpb : SUBSET Units]
ChipType  == spb \subseteq Units /\ dpb \subseteq Units /\ scur \in BOOLEAN

LEMMA TypeParts ==
    /\ TypeOK <=> ChipType /\ wpsel \in BOOLEAN /\ op \in Ops /\ LocalType /\ CallType
    /\ TypeOK' <=> ChipType' /\ wpsel' \in BOOLEAN /\ op' \in Ops /\ LocalType' /\ CallType'
BY DEF TypeOK, ChipType, LocalType, CallType

LEMMA ClearType == ClearCall => LocalType'
BY Geometry DEF ClearCall, LocalType, Targets

LEMMA ForgetType == ChipType' /\ Forget => CallType'
BY Geometry DEF Forget, NoCall, CallType, ChipType, Fns, Targets, Ends, Modes

LEMMA ReturnType ==
    ASSUME CallType, NEW end \in Ends, NEW mode \in Modes, Return(end, mode)
    PROVE  CallType' /\ LocalType' /\ op' \in Ops
<1>1. LocalType' /\ op' \in Ops
    BY ClearType DEF Return, Ops
<1>2. CallType'
    BY DEF Return, CallType
<1>. QED
    BY <1>1, <1>2

LEMMA WriteType ==
    ASSUME ChipType, NEW k \in Targets, NEW u \in Units, NEW on \in BOOLEAN,
           WriteLock(k, u, on), scur' = scur
    PROVE  ChipType'
BY DEF ChipType, WriteLock, Targets

LEMMA UnitType == ofs \in Addrs => Unit \in Units
BY Geometry DEF Unit

\* What a failed or interrupted command can leave behind.
LEMMA AfterType ==
    ASSUME TypeOK, NEW set, set \in SpbAfter \/ set \in DpbAfter
    PROVE  set \subseteq Units
<1>1. spb \subseteq Units /\ dpb \subseteq Units /\ saved \subseteq Units /\ Unit \in Units
    BY UnitType DEF TypeOK
<1>2. NextSaved \subseteq saved
    BY DEF NextSaved
<1>. QED
    BY <1>1, <1>2 DEF SpbAfter, DpbAfter

LEMMA TypeStep == TypeOK /\ [Next]_vars => TypeOK'
<1> SUFFICES ASSUME TypeOK, [Next]_vars PROVE TypeOK'
    OBVIOUS
<1>0. ChipType /\ wpsel \in BOOLEAN /\ op \in Ops /\ LocalType /\ CallType
    BY TypeParts
<1>1. CASE Probe
    <2>1. ChipType'
        BY <1>0, <1>1 DEF Probe, ChipType
    <2>2. LocalType' /\ op' \in Ops /\ wpsel' \in BOOLEAN
        BY <1>0, <1>1 DEF Probe, LocalType, ChipType, local, Ops
    <2>3. CallType'
        BY <2>1, <1>1, ForgetType DEF Probe
    <2>. QED
        BY <2>1, <2>2, <2>3, TypeParts
<1>2. CASE SetWpsel
    <2>1. ChipType' /\ wpsel' \in BOOLEAN
        BY <1>0, <1>2 DEF SetWpsel, ChipType
    <2>2. LocalType' /\ op' \in Ops /\ CallType'
        BY <1>0, <1>2 DEF SetWpsel, LocalType, CallType, local
    <2>. QED
        BY <2>1, <2>2, TypeParts
<1>3. CASE Release
    <2>1. ChipType' /\ LocalType' /\ op' \in Ops /\ wpsel' \in BOOLEAN
        BY <1>0, <1>3, ClearType DEF Release, Off, ChipType, chip, Ops
    <2>2. CallType'
        BY <2>1, <1>3, ForgetType DEF Release, Off
    <2>. QED
        BY <2>1, <2>2, TypeParts
<1>4. CASE PowerOff
    <2>1. ChipType'
        BY <1>0, <1>4, AfterType DEF PowerOff, ChipType
    <2>2. LocalType' /\ op' \in Ops /\ wpsel' \in BOOLEAN
        BY <1>4, ClearType DEF PowerOff, Off, Ops
    <2>3. CallType'
        BY <2>1, <1>4, ForgetType DEF PowerOff, Off
    <2>. QED
        BY <2>1, <2>2, <2>3, TypeParts
<1>5. ASSUME NEW fn \in Fns, NEW first \in Ops, NEW k \in Targets, NEW s \in Spans,
             Begin(fn, first, k, s[1], s[2])
      PROVE  TypeOK'
    <2> DEFINE e == LastByte(s[1], s[2])
    <2>1. s[1] \in Addrs /\ s[2] \in Addrs
        BY AspAssumption DEF Addrs
    <2>2. e \in Addrs
        <3>1. AddrSpace \in Nat \ {0} /\ s[1] \in Nat /\ s[2] \in Nat
            BY <2>1, Geometry, Sizes
        <3>2. \A y \in Int : y % AddrSpace \in Nat /\ y % AddrSpace < AddrSpace
            BY <3>1, Z3
        <3>. QED
            <4>1. s[1] + s[2] - 1 \in Int
                BY <3>1
            <4>. QED
                BY <4>1, <3>2, Geometry DEF LastByte
    <2> HIDE DEF e
    <2>3. s[1] < Chip
        BY <2>1, <2>2, <1>5, Geometry DEF Begin, Refused, e
    <2>4. UnitOf(s[1]) \in Units /\ UnitOf(s[1]) \in Addrs /\ RangeEnd(e) \in Addrs
        BY <2>1, <2>2, <2>3, Geometry
    <2>5. LocalType' /\ op' \in Ops
        BY <2>4, <1>5 DEF Begin, LocalType, e
    <2>6. CallType'
        BY <2>1, <2>2, <1>0, <1>5 DEF Begin, CallType, ChipType, Ends, Modes, e
    <2>7. ChipType' /\ wpsel' \in BOOLEAN
        BY <1>0, <1>5 DEF Begin, ChipType, chip
    <2>. QED
        BY <2>5, <2>6, <2>7, TypeParts
<1>6. CASE \E s \in Spans, k \in Targets : LockCall(s[1], s[2], k) \/ UnlockCall(s[1], s[2], k)
    BY <1>6, <1>5 DEF LockCall, UnlockCall, Fns, Ops, Loops
<1>7. CASE \E s \in Spans : QueryCall(s[1], s[2])
    BY <1>7, <1>5 DEF QueryCall, Fns, Ops, Loops, Targets
<1>8. CASE LockStep
    <2>1. ChipType'
        BY <1>0, <1>8, WriteType, UnitType DEF LockStep, LocalType
    <2>2. ofs' \in Addrs
        BY <1>0, <1>8, Geometry DEF LockStep, LocalType, NextUnit
    <2>3. LocalType' /\ CallType' /\ op' \in Ops /\ wpsel' \in BOOLEAN
        BY <2>2, <1>0, <1>8 DEF LockStep, LocalType, CallType
    <2>. QED
        BY <2>1, <2>3, TypeParts
<1>9. CASE LoopEnds \/ RestoreEnds
    <2>1. Return("ok", "none") /\ UNCHANGED <<chip, wpsel>>
        BY <1>9 DEF LoopEnds, RestoreEnds
    <2>2. CallType' /\ LocalType' /\ op' \in Ops
        BY <2>1, <1>0, ReturnType DEF Ends, Modes
    <2>. QED
        BY <2>1, <2>2, <1>0, TypeParts DEF chip, ChipType
<1>10. CASE SaveSpbs
    <2>1. saved' \subseteq Units
        BY <1>0, <1>10 DEF SaveSpbs, ChipType
    <2>. QED
        BY <2>1, <1>0, <1>10, TypeParts
        DEF SaveSpbs, ChipType, LocalType, CallType, chip, Ops, Loops
<1>11. CASE EraseSpbs
    BY <1>0, <1>11, TypeParts DEF EraseSpbs, ChipType, LocalType, CallType, local, Ops, Loops
<1>12. CASE RestoreSpb
    <2>1. PICK u \in NextSaved : WriteLock("SPB", u, TRUE) /\ saved' = saved \ {u}
        BY <1>12 DEF RestoreSpb
    <2>2. u \in Units /\ "SPB" \in Targets
        BY <1>0 DEF NextSaved, LocalType, Targets
    <2>3. ChipType'
        BY <2>1, <2>2, <1>0, <1>12, WriteType DEF RestoreSpb
    <2>. QED
        BY <2>1, <2>3, <1>0, <1>12, TypeParts DEF RestoreSpb, LocalType, CallType
<1>13. CASE QueryStep
    <2>1. ChipType' /\ wpsel' \in BOOLEAN
        BY <1>0, <1>13 DEF QueryStep, ChipType, chip
    <2>2. CASE Mixed(Unit)
        <3>1. Return("ok", "partial")
            BY <2>2, <1>13 DEF QueryStep
        <3>. QED
            BY <3>1, <2>1, <1>0, ReturnType, TypeParts DEF Ends, Modes
    <2>3. CASE ~Mixed(Unit)
        <3>1. ofs' \in Addrs
            BY <2>3, <1>0, <1>13, Geometry DEF QueryStep, LocalType, NextUnit
        <3>2. acc' \subseteq Targets
            BY <2>3, <1>0, <1>13 DEF QueryStep, LocalType, Status
        <3>. QED
            BY <3>1, <3>2, <2>1, <2>3, <1>0, <1>13, TypeParts
            DEF QueryStep, LocalType, CallType
    <2>. QED
        BY <2>2, <2>3
<1>14. CASE QueryEnds
    <2>1. Return("ok", ModeOf(acc)) /\ UNCHANGED <<chip, wpsel>>
        BY <1>14 DEF QueryEnds
    <2>2. ModeOf(acc) \in Modes
        BY DEF ModeOf, Modes
    <2>3. CallType' /\ LocalType' /\ op' \in Ops
        BY <2>1, <2>2, <1>0, ReturnType DEF Ends
    <2>. QED
        BY <2>1, <2>3, <1>0, TypeParts DEF chip, ChipType
<1>15. CASE CommandFails
    <2>1. Return("failed", "none") /\ UNCHANGED <<scur, wpsel>>
        BY <1>15 DEF CommandFails
    <2>2. CallType' /\ LocalType' /\ op' \in Ops
        BY <2>1, <1>0, ReturnType DEF Ends, Modes
    <2>3. ChipType'
        BY <1>0, <1>15, AfterType DEF CommandFails, ChipType
    <2>. QED
        BY <2>1, <2>2, <2>3, <1>0, TypeParts
<1>16. CASE UNCHANGED vars
    BY <1>0, <1>16, TypeParts DEF vars, local, ChipType, LocalType, CallType
<1>. QED
    BY <1>1, <1>2, <1>3, <1>4, <1>6, <1>7, <1>8, <1>9, <1>10, <1>11, <1>12, <1>13, <1>14,
       <1>15, <1>16
    DEF Next, Application, Driver

\* Every variable keeps its type; in particular every lock the driver writes
\* belongs to a unit of the chip, whatever range it was asked for.
THEOREM TypeCorrect == Spec => []TypeOK
BY TypeInit, TypeStep, PTL DEF Spec
-----------------------------------------------------------------------------
(* The invariant.  Rest is what it adds to TypeOK. *)

Rest == ModeKnown /\ CallMatches /\ LoopPlace /\ LoopDone /\ Unlocking /\ RangeDone /\ OthersKept

\* With no call to remember and none running, only the mode matters.
LEMMA NoCallRest ==
    ASSUME ModeKnown', op' \notin Loops, call' = NoCall PROVE Rest'
<1>1. call'.fn = "none"
    BY DEF NoCall
<1>2. CallMatches' /\ LoopPlace' /\ LoopDone' /\ Unlocking'
    BY DEF CallMatches, LoopPlace, LoopDone, Unlocking, Loops
<1>3. RangeDone' /\ OthersKept'
    BY <1>1 DEF RangeDone, OthersKept, Done
<1>. QED
    BY <1>2, <1>3 DEF Rest

\* After a return, what matters is what the call did.
LEMMA ReturnRest ==
    ASSUME NEW end, NEW mode, Return(end, mode), ModeKnown, UNCHANGED <<scur, wpsel>>,
           RangeDone', OthersKept'
    PROVE  Rest'
<1>1. op' = "idle"
    BY DEF Return
<1>2. ModeKnown' /\ CallMatches' /\ LoopPlace' /\ LoopDone' /\ Unlocking'
    BY <1>1 DEF ModeKnown, CallMatches, LoopPlace, LoopDone, Unlocking, Loops
<1>. QED
    BY <1>2 DEF Rest

\* The call that runs, when its range does not wrap: which units are its.
LEMMA CallUnits ==
    ASSUME TypeOK, CallMatches, op \in Loops, ~Wraps(call)
    PROVE  /\ range.e \in Nat /\ range.e < Chip /\ range.s \in Units
           /\ \A u \in Units :
                /\ range.s <= u /\ u <= range.e => u \in Meets(call)
                /\ u \in Reached(call) => range.s <= u /\ u < range.e
                /\ range.s <= u /\ u < range.e => u \in Reached(call)
<1> DEFINE a == call.s  e == call.e
<1>1. a \in Addrs /\ e \in Addrs /\ call.fn # "none"
    BY DEF TypeOK, CallMatches, Loops
<1>2. a \in Nat /\ e \in Nat /\ a <= e /\ e < Chip /\ e # 0
    BY <1>1, Geometry DEF CallMatches, Wraps
<1>3. range.s = UnitOf(a) /\ range.e = RangeEnd(e)
    BY DEF CallMatches
<1> HIDE DEF a, e
<1>4. 0 < e /\ a < Chip
    BY <1>2, Geometry
<1>5. range.s \in Units
    BY <1>2, <1>3, <1>4, UnitOfByte
<1>6. /\ RangeEnd(e) \in Nat /\ RangeEnd(e) < Chip
      /\ \A u \in Units :
           /\ UnitOf(a) <= u /\ u <= RangeEnd(e) => u <= e /\ a <= LastOf(u)
           /\ u < e /\ a <= LastOf(u) => UnitOf(a) <= u /\ u < RangeEnd(e)
           /\ u < RangeEnd(e) => u < e
    BY <1>2, <1>4, RangeUnits
<1>7. ASSUME NEW u \in Units, range.s <= u, u < range.e PROVE u \in Reached(call)
    <2>1. u < e /\ u <= range.e
        BY <1>3, <1>6, <1>7, Geometry
    <2>2. u \in Meets(call)
        BY <1>3, <1>6, <1>7, <2>1 DEF Meets, a, e
    <2>. QED
        BY <2>1, <2>2 DEF Reached, e
<1>. QED
    BY <1>3, <1>5, <1>6, <1>7 DEF Meets, Reached, a, e

\* A range that wraps has no unit before its last byte.
LEMMA WrapsReached == ASSUME Wraps(call) PROVE Reached(call) = {}
<1>1. SUFFICES ASSUME NEW u \in Reached(call) PROVE FALSE
    OBVIOUS
<1>2. u \in Units /\ u < 0
    BY DEF Wraps, Reached, Meets
<1>3. u \in Nat
    BY <1>2, Geometry
<1>. QED
    BY <1>2, <1>3

\* A unit ends in the chip.
LEMMA UnitFits ==
    ASSUME NEW u \in Units
    PROVE  u + LockSize(u) <= Chip /\ (u + LockSize(u)) % AddrSpace = u + LockSize(u)
<1>1. u \in Nat /\ u < Chip /\ IsMult(u, LockSize(u)) /\ LockSize(u) \in Nat \ {0}
    BY UnitDef
<1>2. u + LockSize(u) <= Chip
    <2>1. IsMult(Chip, LockSize(u))
        BY Sizes DEF LockSize
    <2>. QED
        BY <2>1, <1>1, MultGap
<1>3. \A y \in Nat : y < AddrSpace => y % AddrSpace = y
    BY Sizes, Z3
<1>. QED
    BY <1>1, <1>2, <1>3, Sizes

\* A turn of a loop works on a unit of its range.
LEMMA LoopUnit ==
    ASSUME TypeOK, CallMatches, LoopPlace, op \in {"lock", "unlock", "query"}, More, ~Wraps(call)
    PROVE  Unit = ofs /\ ofs \in Units /\ Unit \in Meets(call)
<1>1. ofs \in Units /\ range.s <= ofs /\ ofs < range.e
    BY DEF LoopPlace, More
<1>2. Unit = ofs
    BY <1>1, Geometry DEF Unit
<1>3. ofs \in Nat /\ range.e \in Nat
    BY <1>1, Geometry, CallUnits DEF Loops
<1>4. ofs <= range.e
    BY <1>1, <1>3
<1>. QED
    BY <1>1, <1>2, <1>4, CallUnits DEF Loops

\* NextUnit takes a loop to the unit that follows or beyond its range.
LEMMA NextPlace ==
    ASSUME TypeOK, CallMatches, LoopPlace, op \in {"lock", "unlock", "query"}, More, ~Wraps(call),
           NextUnit
    PROVE  /\ ofs' \in Nat /\ range.s <= ofs' /\ (ofs' < range.e => ofs' \in Units)
           /\ \A u \in Units : u < ofs' => u = ofs \/ u < ofs
<1>1. ofs \in Units /\ range.s <= ofs /\ range.s \in Units /\ range.e \in Nat /\ range.e < Chip
    BY LoopUnit, CallUnits DEF LoopPlace, More, Loops
<1>2. ofs \in Nat /\ range.s \in Nat /\ LockSize(ofs) \in Nat \ {0}
    BY <1>1, Geometry, UnitDef
<1>3. ofs' = ofs + LockSize(ofs)
    BY <1>1, UnitFits DEF NextUnit
<1>4. ofs' < range.e => ofs' \in Units
    BY <1>1, <1>2, <1>3, NextIsUnit, Geometry
<1>5. ASSUME NEW u \in Units, u < ofs', ofs < u PROVE FALSE
    BY <1>1, <1>2, <1>3, <1>5, UnitGap, Geometry
<1>6. \A u \in Units : u < ofs' => u = ofs \/ u < ofs
    BY <1>2, <1>5, Geometry
<1>. QED
    BY <1>1, <1>2, <1>3, <1>4, <1>6

\* The lock of a unit of the range is written by a call that may write it.
LEMMA WriteKeepsOthers ==
    ASSUME TypeOK, OthersKept, CallMatches, op \in {"lock", "unlock"},
           Wraps(call) \/ Unit \in Meets(call),
           WriteLock(target, Unit, op = "lock") \/ UNCHANGED <<spb, dpb>>,
           call'.fn = call.fn, call'.kind = call.kind, call'.s = call.s, call'.e = call.e,
           call'.end # "ok", was' = was
    PROVE  OthersKept'
<1>1. CASE Wraps(call)
    BY <1>1 DEF OthersKept, Wraps
<1>2. CASE ~Wraps(call)
    <2> DEFINE m == Meets(call)
    <2>1. Meets(call)' = m
        BY DEF Meets
    <2>2. Unit \in m /\ call.fn = op /\ call.kind = target /\ op # "off" /\ call.fn # "none"
        BY <1>2 DEF CallMatches, Loops
    <2>3. /\ spb \ m = was.spb \ m /\ dpb \ m = was.dpb \ m
          /\ op = "unlock" => spb \subseteq was.spb /\ dpb \subseteq was.dpb /\ target = "DPB"
          /\ op = "lock"   => was.spb \subseteq spb /\ was.dpb \subseteq dpb
          /\ target = "SPB" => dpb = was.dpb
          /\ target = "DPB" => spb = was.spb
        BY <1>2, <2>2 DEF OthersKept, CallMatches, Loops
    <2>4. target \in Targets
        BY DEF TypeOK
    <2> HIDE DEF m
    <2>5. /\ spb' \ m = was.spb \ m /\ dpb' \ m = was.dpb \ m
          /\ op = "unlock" => spb' \subseteq was.spb /\ dpb' \subseteq was.dpb
          /\ op = "lock"   => was.spb \subseteq spb' /\ was.dpb \subseteq dpb'
          /\ target = "SPB" => dpb' = was.dpb
          /\ target = "DPB" => spb' = was.spb
        BY <2>2, <2>3, <2>4 DEF WriteLock, Targets
    <2>6. call'.fn = op /\ call'.kind = target
        BY <2>2
    <2>. QED
        BY <2>1, <2>5, <2>6 DEF OthersKept, m
<1>. QED
    BY <1>1, <1>2

LEMMA BeginRest ==
    ASSUME TypeOK, Rest, NEW fn \in Fns, NEW first \in Loops, NEW k \in Targets, NEW a \in Addrs,
           NEW n \in Addrs, Begin(fn, first, k, a, n),
           fn = IF first \in {"lock", "query"} THEN first ELSE "unlock",
           first = "unlock" => k = "DPB",
           first \in {"save", "erase", "restore"} => k = "SPB",
           first # "restore",
           first = "erase" => UnitOf(a) = 0 /\ RangeEnd(LastByte(a, n)) = Chip - 1
    PROVE  Rest'
<1> DEFINE e == LastByte(a, n)
<1>1. /\ op' = first /\ target' = k /\ ofs' = UnitOf(a) /\ saved' = {}
      /\ range' = [s |-> UnitOf(a), e |-> RangeEnd(e)]
      /\ call' = [fn |-> fn, kind |-> k, s |-> a, e |-> e, end |-> "running", mode |-> "none"]
      /\ was' = [spb |-> spb, dpb |-> dpb] /\ spb' = spb /\ dpb' = dpb /\ scur' = scur
      /\ wpsel' = wpsel
    BY DEF Begin, chip
<1>2. wpsel /\ a <= e /\ e < Chip
    <2>1. e \in Nat /\ a \in Nat
        <3>1. a + n - 1 \in Int
            BY Geometry
        <3>2. \A y \in Int : y % AddrSpace \in Nat
            BY Sizes, Z3
        <3>. QED
            BY <3>1, <3>2, Geometry DEF LastByte
    <2>. QED
        BY <2>1, Geometry DEF Begin, Refused
<1>3. a \in Nat /\ e \in Nat
    <2>1. a + n - 1 \in Int
        BY Geometry
    <2>2. \A y \in Int : y % AddrSpace \in Nat
        BY Sizes, Z3
    <2>. QED
        BY <2>1, <2>2, Geometry DEF LastByte
<1> HIDE DEF e
<1>4. UnitOf(a) \in Units /\ UnitOf(a) \in Nat
    <2>1. a < Chip
        BY <1>2, <1>3, Geometry
    <2>. QED
        BY <2>1, <1>3, UnitOfByte, Geometry
<1>5. ModeKnown'
    BY <1>1, <1>2 DEF Rest, ModeKnown
<1>6. CallMatches'
    BY <1>1, <1>2 DEF CallMatches
<1>7. LoopPlace' /\ LoopDone'
    BY <1>1, <1>4, Geometry DEF LoopPlace, LoopDone
<1>8. Unlocking'
    <2>1. first = "erase" => Outside(range') = {}
        <3>1. ASSUME first = "erase" PROVE range' = [s |-> 0, e |-> Chip - 1]
            BY <3>1, <1>1 DEF e
        <3>2. ASSUME first = "erase", NEW u \in Units PROVE u \notin Outside(range')
            <4>1. u \in Nat /\ u < Chip /\ Chip \in Nat
                BY Geometry
            <4>. QED
                BY <4>1, <3>1, <3>2 DEF Outside
        <3>. QED
            BY <3>2 DEF Outside
    <2>2. Outside(range)' = Outside(range')
        BY DEF Outside
    <2>. QED
        BY <2>1, <2>2, <1>1 DEF Unlocking
<1>9. RangeDone' /\ OthersKept'
    <2>1. op' # "idle"
        BY <1>1 DEF Loops
    <2>2. spb' = was'.spb /\ dpb' = was'.dpb
        BY <1>1
    <2>. QED
        BY <2>1, <2>2 DEF RangeDone, OthersKept
<1>. QED
    BY <1>5, <1>6, <1>7, <1>8, <1>9 DEF Rest

LEMMA LockStepRest ==
    ASSUME TypeOK, Rest, LockStep PROVE Rest'
<1>1. /\ op \in {"lock", "unlock"} /\ op \in Loops /\ More /\ WriteLock(target, Unit, op = "lock")
      /\ NextUnit /\ UNCHANGED <<scur, wpsel, op, target, range, saved, acc, call, was>>
    BY DEF LockStep, Loops
<1>2. ModeKnown' /\ CallMatches'
    BY <1>1 DEF Rest, ModeKnown, CallMatches
<1>3. LoopPlace'
    BY <1>1, NextPlace DEF Rest, LoopPlace, Wraps
<1>4. LoopDone'
    <2> SUFFICES ASSUME ~Wraps(call), NEW u \in Units, range.s <= u, u < ofs'
                 PROVE  u \in Locked(target)' <=> op = "lock"
        BY <1>1 DEF LoopDone, Wraps
    <2>1. Unit = ofs
        BY <1>1, LoopUnit DEF Rest
    <2>2. u = ofs \/ u < ofs
        BY <1>1, NextPlace DEF Rest
    <2>3. u < ofs => (u \in Locked(target) <=> op = "lock")
        BY <1>1 DEF Rest, LoopDone
    <2>4. target \in Targets
        BY DEF TypeOK
    <2>. QED
        BY <2>1, <2>2, <2>3, <2>4, <1>1 DEF WriteLock, Locked, Targets
<1>5. Unlocking' /\ RangeDone'
    BY <1>1 DEF Unlocking, RangeDone
<1>6. OthersKept'
    <2>1. Wraps(call) \/ Unit \in Meets(call)
        BY <1>1, LoopUnit DEF Rest
    <2>2. call.end # "ok"
        BY <1>1 DEF Rest, CallMatches
    <2>. QED
        BY <2>1, <2>2, <1>1, WriteKeepsOthers DEF Rest
<1>. QED
    BY <1>2, <1>3, <1>4, <1>5, <1>6 DEF Rest

LEMMA LoopEndsRest ==
    ASSUME TypeOK, Rest, LoopEnds PROVE Rest'
<1>1. /\ op \in {"lock", "unlock"} /\ op \in Loops /\ ~More /\ Return("ok", "none")
      /\ spb' = spb /\ dpb' = dpb /\ UNCHANGED <<scur, wpsel>>
    BY DEF LoopEnds, Loops, chip
<1>2. /\ call'.fn = call.fn /\ call'.kind = call.kind /\ call'.s = call.s /\ call'.e = call.e
      /\ was' = was /\ op' = "idle"
    BY <1>1 DEF Return, TypeOK
<1>3. call.fn = op /\ call.kind = target /\ call.end # "ok" /\ target \in Targets
      /\ (op = "unlock" => target = "DPB")
    BY <1>1 DEF Rest, CallMatches, TypeOK
<1>4. RangeDone'
    <2>1. Reached(call)' = Reached(call)
        BY <1>2 DEF Reached, Meets
    <2>2. ASSUME NEW u \in Reached(call) PROVE u \in Locked(target) <=> op = "lock"
        <3>1. ~Wraps(call)
            BY <2>2, WrapsReached
        <3>2. u \in Units /\ range.s <= u /\ u < range.e /\ range.e \in Nat
            BY <2>2, <3>1, <1>1, CallUnits DEF Rest, Reached, Meets
        <3>3. u < ofs
            BY <3>2, <1>1, Geometry DEF TypeOK, More
        <3>. QED
            BY <3>1, <3>2, <3>3, <1>1 DEF Rest, LoopDone
    <2>3. Locked(call.kind)' = Locked(target)
        BY <1>1, <1>2, <1>3 DEF Locked
    <2>. QED
        BY <2>1, <2>2, <2>3, <1>1, <1>2, <1>3 DEF RangeDone, Done
<1>5. OthersKept'
    <2>1. Meets(call)' = Meets(call) /\ (Wraps(call)' <=> Wraps(call))
        BY <1>2 DEF Meets, Wraps
    <2>. QED
        BY <2>1, <1>1, <1>2, <1>3 DEF Rest, OthersKept
<1>. QED
    BY <1>1, <1>4, <1>5, ReturnRest DEF Rest

LEMMA UnlockRest ==
    ASSUME TypeOK, Rest, SaveSpbs \/ EraseSpbs \/ RestoreSpb PROVE Rest'
<1>1. /\ op \in {"save", "erase", "restore"} /\ op \in Loops /\ op' \in {"erase", "restore"}
      /\ UNCHANGED <<scur, wpsel, target, range, ofs, acc, call, was>> /\ dpb' = dpb
    BY DEF SaveSpbs, EraseSpbs, RestoreSpb, Loops, chip, local, WriteLock
<1>2. ModeKnown' /\ CallMatches'
    BY <1>1 DEF Rest, ModeKnown, CallMatches, Loops
<1>3. LoopPlace' /\ LoopDone' /\ RangeDone'
    BY <1>1 DEF LoopPlace, LoopDone, RangeDone
<1>4. Unlocking'
    <2> DEFINE kept == was.spb \intersect Outside(range)
    <2>1. (was.spb \intersect Outside(range))' = kept
        BY <1>1 DEF Outside
    <2>2. CASE SaveSpbs
        BY <2>1, <2>2, <1>1 DEF SaveSpbs, Rest, Unlocking, chip
    <2>3. CASE EraseSpbs
        BY <2>1, <2>3, <1>1 DEF EraseSpbs, Rest, Unlocking, local
    <2>4. CASE RestoreSpb
        <3>1. PICK u \in NextSaved : spb' = spb \union {u} /\ saved' = saved \ {u}
            BY <2>4 DEF RestoreSpb, WriteLock
        <3>2. u \in saved
            BY DEF NextSaved
        <3>3. op = "restore" /\ op' = "restore" /\ spb \union saved = kept
            BY <2>4 DEF RestoreSpb, Rest, Unlocking
        <3>. QED
            BY <2>1, <3>1, <3>2, <3>3 DEF Unlocking
    <2>. QED
        BY <2>2, <2>3, <2>4
<1>5. OthersKept'
    <2>1. Meets(call)' = Meets(call) /\ (Wraps(call)' <=> Wraps(call)) /\ (Done("unlock")' <=> Done("unlock"))
        BY <1>1 DEF Meets, Wraps, Done
    <2>2. call.fn = "unlock" /\ call.kind = "SPB" /\ ~Done("unlock")
        BY <1>1 DEF Rest, CallMatches, Done
    <2>3. spb' \subseteq was.spb
        BY <1>1, <1>4 DEF Unlocking
    <2>. QED
        BY <2>1, <2>2, <2>3, <1>1 DEF Rest, OthersKept
<1>. QED
    BY <1>2, <1>3, <1>4, <1>5 DEF Rest

LEMMA RestoreEndsRest ==
    ASSUME TypeOK, Rest, RestoreEnds PROVE Rest'
<1>1. /\ op = "restore" /\ op \in Loops /\ saved = {} /\ Return("ok", "none")
      /\ spb' = spb /\ dpb' = dpb /\ UNCHANGED <<scur, wpsel>>
    BY DEF RestoreEnds, Loops, chip
<1>2. /\ call'.fn = call.fn /\ call'.kind = call.kind /\ call'.s = call.s /\ call'.e = call.e
      /\ was' = was /\ op' = "idle"
    BY <1>1 DEF Return, TypeOK
<1>3. call.fn = "unlock" /\ call.kind = "SPB" /\ call.end # "ok"
    BY <1>1 DEF Rest, CallMatches
<1>4. spb = was.spb \intersect Outside(range) /\ was.spb \subseteq Units
    BY <1>1 DEF Rest, Unlocking, TypeOK
<1>5. range.e \in Addrs /\ range.s \in Units
    BY DEF TypeOK
<1>6. RangeDone'
    <2>1. Reached(call)' = Reached(call)
        BY <1>2 DEF Reached, Meets
    <2>2. ASSUME NEW u \in Reached(call) PROVE u \notin spb
        <3>1. ~Wraps(call)
            BY <2>2, WrapsReached
        <3>2. u \in Units /\ range.s <= u /\ u < range.e
            BY <2>2, <3>1, <1>1, CallUnits DEF Rest, Reached, Meets
        <3>3. u \notin Outside(range)
            <4>1. u \in Nat /\ range.s \in Nat /\ range.e \in Nat
                BY <3>2, <1>5, Geometry
            <4>. QED
                BY <4>1, <3>2 DEF Outside
        <3>. QED
            BY <3>3, <1>4
    <2>3. Locked(call.kind)' = spb
        BY <1>1, <1>2, <1>3 DEF Locked
    <2>. QED
        BY <2>1, <2>2, <2>3, <1>2, <1>3 DEF RangeDone, Done
<1>7. OthersKept'
    <2>1. Meets(call)' = Meets(call) /\ (Wraps(call)' <=> Wraps(call))
        BY <1>2 DEF Meets, Wraps
    <2>2. ASSUME ~Wraps(call), NEW u \in Units, u \notin Meets(call) PROVE u \in Outside(range)
        <3>1. ~(range.s <= u /\ u <= range.e)
            BY <2>2, <1>1, CallUnits DEF Rest
        <3>2. u \in Nat /\ range.s \in Nat /\ range.e \in Nat
            BY <2>2, <1>5, Geometry
        <3>. QED
            BY <3>1, <3>2 DEF Outside
    <2>3. ~Wraps(call) => spb \ Meets(call) = was.spb \ Meets(call)
        BY <2>2, <1>4
    <2>4. ~Wraps(call) => dpb = was.dpb
        BY <1>1, <1>3 DEF Rest, OthersKept
    <2>. QED
        BY <2>1, <2>3, <2>4, <1>1, <1>2, <1>3, <1>4 DEF OthersKept
<1>. QED
    BY <1>1, <1>6, <1>7, ReturnRest DEF Rest

LEMMA QueryRest ==
    ASSUME TypeOK, Rest, QueryStep \/ QueryEnds PROVE Rest'
<1>1. op = "query" /\ op \in Loops /\ spb' = spb /\ dpb' = dpb /\ UNCHANGED <<scur, wpsel>>
    BY DEF QueryStep, QueryEnds, Loops, chip
<1>2. call.fn = "query" /\ call.end # "ok"
    BY <1>1 DEF Rest, CallMatches
<1>3. ASSUME NEW mode, Return("ok", mode) PROVE Rest'
    <2>1. /\ call'.fn = call.fn /\ call'.kind = call.kind /\ call'.s = call.s
          /\ call'.e = call.e /\ was' = was /\ op' = "idle"
        BY <1>3 DEF Return, TypeOK
    <2>2. RangeDone'
        BY <2>1, <1>2 DEF RangeDone, Done
    <2>3. OthersKept'
        <3>1. Meets(call)' = Meets(call) /\ (Wraps(call)' <=> Wraps(call))
            BY <2>1 DEF Meets, Wraps
        <3>. QED
            BY <3>1, <2>1, <1>1, <1>2 DEF Rest, OthersKept
    <2>. QED
        BY <2>2, <2>3, <1>1, <1>3, ReturnRest DEF Rest
<1>4. ASSUME More, NextUnit, UNCHANGED <<op, target, range, call, was>> PROVE Rest'
    <2>1. ModeKnown' /\ CallMatches'
        BY <1>1, <1>4 DEF Rest, ModeKnown, CallMatches
    <2>2. LoopPlace'
        BY <1>1, <1>4, NextPlace DEF Rest, LoopPlace, Wraps
    <2>3. LoopDone' /\ Unlocking' /\ RangeDone'
        BY <1>1, <1>4 DEF LoopDone, Unlocking, RangeDone
    <2>4. OthersKept'
        BY <1>1, <1>4 DEF Rest, OthersKept, Meets, Wraps, Done
    <2>. QED
        BY <2>1, <2>2, <2>3, <2>4 DEF Rest
<1>. QED
    BY <1>3, <1>4 DEF QueryStep, QueryEnds

\* A call that a failing command ends has done nothing outside its range either.
LEMMA FailRest ==
    ASSUME TypeOK, Rest, CommandFails PROVE Rest'
<1>1. /\ Return("failed", "none") /\ UNCHANGED <<scur, wpsel>>
      /\ spb' \in SpbAfter /\ dpb' \in DpbAfter /\ op \in Loops
    BY DEF CommandFails, Loops
<1>2. /\ call'.fn = call.fn /\ call'.kind = call.kind /\ call'.s = call.s /\ call'.e = call.e
      /\ call'.end = "failed" /\ was' = was /\ op' = "idle"
    BY <1>1 DEF Return, TypeOK
<1>3. RangeDone'
    BY <1>2 DEF RangeDone, Done
<1>4. OthersKept'
    <2>1. CASE op \in {"lock", "unlock"}
        <3>1. op # "erase" /\ op # "restore" /\ More /\ target \in Targets
              /\ (op = "unlock" => target = "DPB")
            BY <2>1 DEF CommandFails, TypeOK, Rest, CallMatches, Loops
        <3>2. WriteLock(target, Unit, op = "lock") \/ UNCHANGED <<spb, dpb>>
            BY <2>1, <3>1, <1>1 DEF SpbAfter, DpbAfter, WriteLock, Targets
        <3>3. Wraps(call) \/ Unit \in Meets(call)
            BY <2>1, <3>1, LoopUnit DEF Rest
        <3>. QED
            BY <2>1, <3>2, <3>3, <1>2, WriteKeepsOthers DEF Rest
    <2>2. CASE op \in {"save", "erase", "restore"}
        <3>1. call.fn = "unlock" /\ call.kind = "SPB"
            BY <2>2 DEF Rest, CallMatches, Loops
        <3>2. dpb' = dpb
            BY <2>2, <1>1 DEF DpbAfter
        <3>3. spb' \subseteq was.spb
            <4>1. spb \subseteq was.spb /\ (op = "restore" => spb \union saved \subseteq was.spb)
                BY <2>2 DEF Rest, Unlocking
            <4>2. NextSaved \subseteq saved
                BY DEF NextSaved
            <4>. QED
                BY <4>1, <4>2, <2>2, <1>1 DEF SpbAfter
        <3>4. Meets(call)' = Meets(call) /\ (Wraps(call)' <=> Wraps(call)) /\ ~Done("unlock")'
            BY <1>2 DEF Meets, Wraps, Done
        <3>. QED
            BY <3>1, <3>2, <3>3, <3>4, <1>2, <2>2 DEF Rest, OthersKept
    <2>3. CASE op = "query"
        <3>1. spb' = spb /\ dpb' = dpb /\ call.fn = "query"
            BY <2>3, <1>1 DEF SpbAfter, DpbAfter, Rest, CallMatches, Loops
        <3>2. Meets(call)' = Meets(call) /\ (Wraps(call)' <=> Wraps(call))
            BY <1>2 DEF Meets, Wraps
        <3>. QED
            BY <3>1, <3>2, <1>2, <2>3 DEF Rest, OthersKept
    <2>. QED
        BY <2>1, <2>2, <2>3, <1>1 DEF Loops
<1>. QED
    BY <1>1, <1>3, <1>4, ReturnRest DEF Rest

LEMMA RestStep ==
    TypeOK /\ Rest /\ [Next]_vars => Rest'
<1> SUFFICES ASSUME TypeOK, Rest, [Next]_vars PROVE Rest'
    OBVIOUS
<1>1. CASE Probe
    <2>1. ModeKnown' /\ op' = "idle" /\ call' = NoCall
        BY <1>1 DEF Probe, Forget, ModeKnown, Loops
    <2>. QED
        BY <2>1, NoCallRest DEF Loops
<1>2. CASE Release \/ PowerOff
    <2>1. ModeKnown' /\ op' = "off" /\ call' = NoCall
        BY <1>2 DEF Release, PowerOff, Off, Forget, ModeKnown, Loops
    <2>. QED
        BY <2>1, NoCallRest DEF Loops
<1>3. CASE SetWpsel
    <2>1. op = "idle" /\ ModeKnown' /\ UNCHANGED <<spb, dpb, op, call, was, target, range, ofs, saved, acc>>
        BY <1>3 DEF SetWpsel, ModeKnown, Loops, local
    <2>2. CallMatches' /\ LoopPlace' /\ LoopDone' /\ Unlocking'
        BY <2>1 DEF CallMatches, LoopPlace, LoopDone, Unlocking, Loops
    <2>3. RangeDone' /\ OthersKept'
        BY <2>1 DEF Rest, RangeDone, OthersKept, Done, Reached, Meets, Locked, Wraps
    <2>. QED
        BY <2>1, <2>2, <2>3 DEF Rest
<1>4. ASSUME NEW s \in Spans PROVE s[1] \in Addrs /\ s[2] \in Addrs
    BY AspAssumption DEF Addrs
<1>5. ASSUME NEW s \in Spans, NEW k \in Targets, LockCall(s[1], s[2], k) PROVE Rest'
    BY <1>4, <1>5, BeginRest DEF LockCall, Fns, Loops
<1>6. ASSUME NEW s \in Spans, NEW k \in Targets, UnlockCall(s[1], s[2], k) PROVE Rest'
    <2>1. CASE k = "DPB"
        BY <2>1, <1>4, <1>6, BeginRest DEF UnlockCall, Fns, Loops
    <2>2. CASE k # "DPB" /\ UnitOf(s[1]) = 0 /\ RangeEnd(LastByte(s[1], s[2])) = Chip - 1
        BY <2>2, <1>4, <1>6, BeginRest DEF UnlockCall, Fns, Loops, Targets
    <2>3. CASE k # "DPB" /\ ~(UnitOf(s[1]) = 0 /\ RangeEnd(LastByte(s[1], s[2])) = Chip - 1)
        BY <2>3, <1>4, <1>6, BeginRest DEF UnlockCall, Fns, Loops, Targets
    <2>. QED
        BY <2>1, <2>2, <2>3
<1>7. ASSUME NEW s \in Spans, QueryCall(s[1], s[2]) PROVE Rest'
    BY <1>4, <1>7, BeginRest DEF QueryCall, Fns, Loops, Targets
<1>8. CASE Driver \/ CommandFails
    BY <1>8, LockStepRest, LoopEndsRest, UnlockRest, RestoreEndsRest, QueryRest, FailRest DEF Driver
<1>9. CASE UNCHANGED vars
    BY <1>9
    DEF vars, local, Rest, ModeKnown, CallMatches, LoopPlace, LoopDone, Unlocking, RangeDone,
        OthersKept, Wraps, Done, Reached, Meets, Locked, Outside
<1>. QED
    BY <1>1, <1>2, <1>3, <1>5, <1>6, <1>7, <1>8, <1>9 DEF Next, Application

\* The inductive invariant holds in every reachable state.
THEOREM Invariant == Spec => []IInv
<1>1. Init => TypeOK /\ Rest
    <2> SUFFICES ASSUME Init PROVE TypeOK /\ Rest
        OBVIOUS
    <2>1. ModeKnown /\ CallMatches /\ LoopPlace /\ LoopDone /\ Unlocking
        BY DEF Init, ModeKnown, CallMatches, LoopPlace, LoopDone, Unlocking, Loops
    <2>2. RangeDone /\ OthersKept
        BY DEF Init, RangeDone, OthersKept
    <2>. QED
        BY <2>1, <2>2, TypeInit DEF Rest
<1>2. (TypeOK /\ Rest) /\ [Next]_vars => (TypeOK /\ Rest)'
    BY TypeStep, RestStep
<1>3. TypeOK /\ Rest => IInv
    BY DEF Rest, IInv
<1>. QED
    BY <1>1, <1>2, <1>3, PTL DEF Spec

\* Protection commands reach the chip only in ASP mode (spinor_asp_init,
\* spinor_asp_set_wpsel, spinor_probe).
THEOREM ModeIsAsp == Spec => []NeedsWpsel
<1>1. IInv => NeedsWpsel
    BY DEF IInv, ModeKnown, NeedsWpsel
<1>. QED
    BY <1>1, Invariant, PTL

\* A lock or unlock that returns success has changed every unit it reaches
\* (spinor_asp_lock, spinor_asp_unlock, spinor_asp_spb_unlock).
THEOREM CallsDoTheirRange == Spec => []RangeDone
<1>1. IInv => RangeDone
    BY DEF IInv
<1>. QED
    BY <1>1, Invariant, PTL

\* No lock or unlock changes a lock outside its range, save an unlock of SPBs
\* that did not return success, which may have lost some.
THEOREM CallsKeepOthers == Spec => []OthersKept
<1>1. IInv => OthersKept
    BY DEF IInv
<1>. QED
    BY <1>1, Invariant, PTL
-----------------------------------------------------------------------------
(* The answer of spinor_asp_is_lock. *)

\* The units of the range the query is through with, which are alike: all of
\* them are locked or none is, and the kinds seen are the kinds they have.
Behind == {u \in Units : range.s <= u /\ u < ofs /\ u < range.e}

QueryPlace ==
    op = "query" /\ ~Wraps(call) =>
        /\ \A k \in Targets : k \in acc <=> \E u \in Behind : k \in Status(u)
        /\ (\A u \in Behind : Status(u) = {}) \/ (\A u \in Behind : Status(u) # {})

\* An answered query has told about the units it reached, and was not refused.
ReachedTold ==
    op = "idle" /\ Done("query") =>
        /\ ~Wraps(call) => call.mode = Answer(Reached(call))
        /\ call.s <= call.e

\* The answer about units that are alike, and about units that are not.
LEMMA AnswerAlike ==
    ASSUME NEW R, NEW a, a \subseteq Targets,
           \A k \in Targets : k \in a <=> \E u \in R : k \in Status(u),
           (\A u \in R : Status(u) = {}) \/ (\A u \in R : Status(u) # {})
    PROVE  Answer(R) = ModeOf(a)
<1>1. {u \in R : Status(u) # {}} \in {{}, R}
    OBVIOUS
<1>2. UNION {Status(u) : u \in R} = a
    BY DEF Status
<1>. QED
    BY <1>1, <1>2 DEF Answer

LEMMA AnswerPartial ==
    ASSUME NEW R, NEW u \in R, NEW v \in R, Status(u) = {}, Status(v) # {}
    PROVE  Answer(R) = "partial"
<1>1. u \notin {x \in R : Status(x) # {}} /\ v \in {x \in R : Status(x) # {}}
    OBVIOUS
<1>2. {x \in R : Status(x) # {}} \notin {{}, R}
    BY <1>1
<1>. QED
    BY <1>2 DEF Answer

\* A turn of the loop either finds a unit unlike those behind it, or one more
\* like them.
LEMMA QueryTurn ==
    ASSUME TypeOK, CallMatches, LoopPlace, QueryPlace, QueryStep, ~Wraps(call)
    PROVE  /\ Mixed(Unit) => Answer(Reached(call)) = "partial"
           /\ ~Mixed(Unit) => QueryPlace'
<1>1. op = "query" /\ op \in Loops /\ More /\ spb' = spb /\ dpb' = dpb
    BY DEF QueryStep, Loops, chip
<1>2. Unit = ofs /\ ofs \in Units /\ range.s <= ofs /\ ofs < range.e /\ acc \subseteq Targets
    BY <1>1, LoopUnit DEF LoopPlace, More, TypeOK
<1>3. range.s \in Units /\ range.e \in Nat /\ ofs \in Nat /\ range.s \in Nat
    BY <1>1, <1>2, CallUnits, Geometry
<1>4. /\ \A k \in Targets : k \in acc <=> \E u \in Behind : k \in Status(u)
      /\ (\A u \in Behind : Status(u) = {}) \/ (\A u \in Behind : Status(u) # {})
    BY <1>1 DEF QueryPlace
<1>5. \A u \in Behind \cup {ofs} : u \in Reached(call)
    BY <1>1, <1>2, CallUnits DEF Behind
<1>6. ofs # range.s => range.s \in Behind
    BY <1>2, <1>3 DEF Behind
<1>7. ofs = range.s => Behind = {}
    <2>1. ASSUME ofs = range.s, NEW u \in Behind PROVE FALSE
        <3>1. u \in Nat /\ ofs <= u /\ u < ofs
            BY <2>1, Geometry DEF Behind
        <3>. QED
            BY <3>1, <1>3
    <2>. QED
        BY <2>1
<1>8. \A u : Status(u) \subseteq Targets
    BY DEF Status
<1>9. acc # {} <=> \E u \in Behind : Status(u) # {}
    BY <1>2, <1>4, <1>8
<1>10. ASSUME Mixed(Unit) PROVE Answer(Reached(call)) = "partial"
    <2>1. ofs # range.s /\ (Status(ofs) = {} <=> acc # {})
        BY <1>2, <1>10 DEF Mixed
    <2>2. PICK u \in Behind : Status(u) = {} <=> Status(ofs) # {}
        BY <1>6, <1>9, <1>4, <2>1
    <2>3. u \in Reached(call) /\ ofs \in Reached(call)
        BY <1>5
    <2>. QED
        BY <2>2, <2>3, AnswerPartial
<1>11. ASSUME ~Mixed(Unit) PROVE QueryPlace'
    <2>1. /\ acc' = acc \union Status(ofs) /\ NextUnit
          /\ UNCHANGED <<op, target, range, saved, call, was>>
        BY <1>2, <1>11 DEF QueryStep
    <2>2. ofs = range.s \/ (Status(ofs) = {} <=> acc = {})
        BY <1>2, <1>11 DEF Mixed
    <2>3. Behind' = Behind \cup {ofs}
        <3>1. ofs' \in Nat /\ \A u \in Units : u < ofs' => u = ofs \/ u < ofs
            BY <1>1, <2>1, NextPlace
        <3>2. ofs < ofs'
            <4>1. ofs' = ofs + LockSize(ofs) /\ LockSize(ofs) \in Nat \ {0}
                BY <1>2, <2>1, UnitFits, UnitDef DEF NextUnit
            <4>. QED
                BY <4>1, <1>3
        <3>3. Behind' = {u \in Units : range.s <= u /\ u < ofs' /\ u < range.e}
            BY <2>1 DEF Behind
        <3>4. \A u \in Units : u \in Nat
            BY Geometry
        <3>5. ASSUME NEW u \in Units PROVE u < ofs' <=> u = ofs \/ u < ofs
            BY <3>1, <3>2, <3>4, <1>3
        <3>. QED
            BY <3>3, <3>5, <1>2 DEF Behind
    <2>4. \A u : Status(u)' = Status(u)
        BY <1>1 DEF Status, Locked
    <2>5. \A k \in Targets : k \in acc' <=> \E u \in Behind' : k \in Status(u)
        BY <1>4, <2>1, <2>3
    <2>6. (\A u \in Behind' : Status(u) = {}) \/ (\A u \in Behind' : Status(u) # {})
        BY <1>4, <1>7, <1>9, <2>2, <2>3
    <2>. QED
        BY <2>4, <2>5, <2>6 DEF QueryPlace
<1>. QED
    BY <1>10, <1>11

\* A query that ends without having found a difference is through with its range.
LEMMA QueryEnd ==
    ASSUME TypeOK, CallMatches, LoopPlace, QueryPlace, QueryEnds, ~Wraps(call)
    PROVE  Answer(Reached(call)) = ModeOf(acc)
<1>1. op = "query" /\ op \in Loops /\ ~More
    BY DEF QueryEnds, Loops
<1>2. range.e \in Nat /\ range.s \in Units /\ ofs \in Nat /\ acc \subseteq Targets
    BY <1>1, CallUnits, Geometry DEF TypeOK
<1>3. ASSUME NEW u PROVE u \in Behind <=> u \in Reached(call)
    <2>1. u \in Reached(call) => u \in Units
        BY DEF Reached, Meets
    <2>2. u \in Units => u \in Nat
        BY Geometry
    <2>3. u \in Units => (u \in Reached(call) <=> range.s <= u /\ u < range.e)
        BY <1>1, CallUnits
    <2>4. u \in Units /\ u < range.e => u < ofs
        BY <1>1, <1>2, <2>2 DEF More
    <2>. QED
        BY <2>1, <2>3, <2>4 DEF Behind
<1>4. Behind = Reached(call)
    BY <1>3
<1>. QED
    BY <1>1, <1>2, <1>4, AnswerAlike DEF QueryPlace

\* An answer stays true as long as the call is remembered and the locks stay.
LEMMA AnswerStays ==
    ASSUME call' = call, spb' = spb, dpb' = dpb, op' = op, ReachedTold PROVE ReachedTold'
<1>1. \A u : Status(u)' = Status(u)
    BY DEF Status, Locked
<1>2. Reached(call)' = Reached(call)
    BY DEF Reached, Meets
<1>3. Answer(Reached(call))' = Answer(Reached(call))
    BY <1>1, <1>2 DEF Answer
<1>. QED
    BY <1>3 DEF ReachedTold, Done, Wraps

LEMMA QueryInit ==
    ASSUME Init PROVE QueryPlace /\ ReachedTold
BY DEF Init, NoCall, QueryPlace, ReachedTold, Done

LEMMA BeginQuery ==
    ASSUME IInv, NEW fn, NEW first, NEW k, NEW a \in Addrs, NEW n,
           Begin(fn, first, k, a, n)
    PROVE  QueryPlace' /\ ReachedTold'
<1>1. /\ op' = first /\ acc' = {} /\ ofs' = UnitOf(a) /\ range'.s = UnitOf(a)
      /\ call'.end = "running"
    BY DEF Begin
<1>2. UnitOf(a) \in Int
    BY Geometry, RoundDownFacts, UnitDef DEF UnitOf
<1>3. Behind' = {}
    <2>1. ASSUME NEW u \in Behind' PROVE FALSE
        <3>1. u \in Units /\ range'.s <= u /\ u < ofs'
            BY <2>1 DEF Behind
        <3>2. PICK x \in Int : x = UnitOf(a)
            BY <1>2
        <3>3. u \in Nat
            BY <3>1, Geometry
        <3>. QED
            BY <3>1, <3>2, <3>3, <1>1
    <2>. QED
        BY <2>1
<1>4. QueryPlace'
    BY <1>1, <1>3 DEF QueryPlace
<1>5. ReachedTold'
    BY <1>1 DEF ReachedTold, Done
<1>. QED
    BY <1>4, <1>5

LEMMA QueryDriver ==
    ASSUME IInv, QueryPlace, ReachedTold, QueryStep \/ QueryEnds PROVE QueryPlace' /\ ReachedTold'
<1>1. op = "query" /\ spb' = spb /\ dpb' = dpb /\ TypeOK /\ CallMatches /\ LoopPlace
    BY DEF QueryStep, QueryEnds, chip, IInv
<1>2. call.end = "running"
    BY <1>1 DEF CallMatches, Loops
<1>3. ASSUME NEW mode, Return("ok", mode), ~Wraps(call) => mode = Answer(Reached(call))
      PROVE  QueryPlace' /\ ReachedTold'
    <2>1. /\ op' = "idle" /\ call'.mode = mode /\ call'.fn = call.fn /\ call'.s = call.s
          /\ call'.e = call.e
        BY <1>1, <1>3 DEF Return, TypeOK
    <2>2. \A u : Status(u)' = Status(u)
        BY <1>1 DEF Status, Locked
    <2>3. Reached(call)' = Reached(call)
        BY <2>1 DEF Reached, Meets
    <2>4. Answer(Reached(call))' = Answer(Reached(call))
        BY <2>2, <2>3 DEF Answer
    <2>5. call.s <= call.e
        BY <1>1 DEF CallMatches, Loops
    <2>6. ReachedTold'
        BY <1>3, <2>1, <2>4, <2>5 DEF ReachedTold, Wraps
    <2>. QED
        BY <2>1, <2>6 DEF QueryPlace
<1>4. CASE QueryEnds
    BY <1>1, <1>3, <1>4, QueryEnd DEF QueryEnds
<1>5. CASE QueryStep /\ Mixed(Unit)
    BY <1>1, <1>3, <1>5, QueryTurn DEF QueryStep
<1>6. CASE QueryStep /\ ~Mixed(Unit)
    <2>1. op' = "query" /\ call' = call
        BY <1>1, <1>6 DEF QueryStep
    <2>2. ReachedTold'
        BY <2>1 DEF ReachedTold
    <2>3. QueryPlace'
        BY <1>1, <1>6, <2>1, QueryTurn DEF QueryPlace, Wraps
    <2>. QED
        BY <2>2, <2>3
<1>. QED
    BY <1>4, <1>5, <1>6

\* A range that is not cut short does not wrap: byte 0 alone is the first of unit 0.
LEMMA WrapsCutShort == ASSUME TypeOK, Wraps(call), call.s <= call.e PROVE CutShort(call)
<1>1. call.s \in Nat /\ call.e = 0
    BY Geometry DEF TypeOK, Wraps
<1>2. call.s = 0 /\ 0 \in Units
    BY <1>1, Geometry
<1>3. 0 <= LastOf(0)
    BY <1>2, UnitFits, UnitDef DEF LastOf
<1>4. 0 \in Meets(call)
    BY <1>1, <1>2, <1>3 DEF Meets
<1>. QED
    BY <1>4, WrapsReached DEF CutShort

\* What was told about the units reached is about all when none is cut off.
LEMMA ToldAll == ASSUME TypeOK, ReachedTold PROVE QueryTells
<1>1. SUFFICES ASSUME op = "idle", Done("query"), ~CutShort(call)
               PROVE  call.mode = Answer(Meets(call))
    BY DEF QueryTells
<1>2. ~Wraps(call)
    BY <1>1, WrapsCutShort DEF ReachedTold
<1>3. Reached(call) = Meets(call)
    BY <1>1 DEF CutShort
<1>. QED
    BY <1>1, <1>2, <1>3 DEF ReachedTold

\* While no query runs and none has just ended, there is nothing to answer.
LEMMA NoQuery ==
    ASSUME op' # "query", op' # "idle" \/ ~Done("query")' PROVE QueryPlace' /\ ReachedTold'
BY DEF QueryPlace, ReachedTold

\* spinor_asp_is_lock answers partial if some unit its range meets is locked and
\* some is not, and otherwise the kinds of lock found: for every chip and every
\* range but those of whose last unit it has only the first byte.
THEOREM QueriesTell == Spec => []QueryTells
<1>1. Init => QueryPlace /\ ReachedTold
    BY QueryInit
<1>2. IInv /\ QueryPlace /\ ReachedTold /\ [Next]_vars => QueryPlace' /\ ReachedTold'
    <2>1. SUFFICES ASSUME IInv, QueryPlace, ReachedTold, [Next]_vars
                   PROVE  QueryPlace' /\ ReachedTold'
        OBVIOUS
    <2>2. CASE Probe \/ Release \/ PowerOff
        <3>1. op' \in {"idle", "off"} /\ call'.fn = "none"
            BY <2>2 DEF Probe, Release, PowerOff, Off, Forget, NoCall
        <3>. QED
            BY <3>1, NoQuery DEF Done
    <2>3. CASE SetWpsel \/ UNCHANGED vars
        <3>1. /\ UNCHANGED <<spb, dpb, op, call, range, ofs, acc>>
              /\ \A u : Status(u)' = Status(u)
            BY <2>3 DEF SetWpsel, vars, local, Status, Locked
        <3>2. ReachedTold'
            BY <2>1, <3>1, AnswerStays
        <3>3. Behind' = Behind
            BY <3>1 DEF Behind
        <3>4. QueryPlace'
            BY <2>1, <3>1, <3>3 DEF QueryPlace, Wraps
        <3>. QED
            BY <3>2, <3>4
    <2>4. \A s \in Spans : s[1] \in Addrs
        BY AspAssumption DEF Addrs
    <2>5. CASE \E s \in Spans, k \in Targets : LockCall(s[1], s[2], k) \/ UnlockCall(s[1], s[2], k)
        BY <2>1, <2>4, <2>5, BeginQuery DEF LockCall, UnlockCall
    <2>6. CASE \E s \in Spans : QueryCall(s[1], s[2])
        BY <2>1, <2>4, <2>6, BeginQuery DEF QueryCall
    <2>7. CASE QueryStep \/ QueryEnds
        BY <2>1, <2>7, QueryDriver
    <2>8. CASE LockStep \/ SaveSpbs \/ EraseSpbs \/ RestoreSpb
        <3>1. op' \in {"lock", "unlock", "erase", "restore"}
            BY <2>8 DEF LockStep, SaveSpbs, EraseSpbs, RestoreSpb
        <3>. QED
            BY <3>1, NoQuery
    <2>9. CASE LoopEnds \/ RestoreEnds
        <3>1. op \in {"lock", "unlock", "restore"} /\ Return("ok", "none")
            BY <2>9 DEF LoopEnds, RestoreEnds
        <3>2. op' = "idle" /\ call'.fn = call.fn /\ call.fn # "query"
            BY <2>1, <3>1 DEF Return, IInv, TypeOK, CallMatches, Loops
        <3>. QED
            BY <3>2, NoQuery DEF Done
    <2>10. CASE CommandFails
        <3>1. op' = "idle" /\ call'.end = "failed"
            BY <2>1, <2>10 DEF CommandFails, Return, IInv, TypeOK
        <3>. QED
            BY <3>1, NoQuery DEF Done
    <2>. QED
        BY <2>1, <2>2, <2>3, <2>5, <2>6, <2>7, <2>8, <2>9, <2>10 DEF Next, Application, Driver
<1>3. IInv /\ ReachedTold => QueryTells
    BY ToldAll DEF IInv
<1>. QED
    BY <1>1, <1>2, <1>3, Invariant, PTL DEF Spec
=============================================================================
