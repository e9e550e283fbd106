------------------------- MODULE SpiNorArrayProofs -------------------------
(* Proofs about SpiNorArray for every flash whose pages, erase units and size
   divide one another, and for every set of calls. *)
EXTENDS SpiNorArray, Integers, TLAPS

(* Division: the only place where products are multiplied out. *)

LEMMA ModRange ==
    ASSUME NEW a \in Nat, NEW z \in Nat \ {0}
    PROVE  /\ a % z \in Nat /\ a % z < z /\ a % z <= a
           /\ \E q \in Nat : a = q * z + (a % z)
<1>1. a = z * (a \div z) + (a % z) /\ a \div z \in Int /\ a % z \in Int
    BY Z3
<1>2. 0 <= a % z /\ a % z < z
    BY Z3
<1>3. a \div z >= 0
    <2>1. SUFFICES ASSUME a \div z <= -1 PROVE FALSE
        BY <1>1
    <2>2. z * (a \div z) <= z * (-1)
        BY <2>1, <1>1, Z3
    <2>. QED
        BY <2>2, <1>1, <1>2, Z3
<1>4. z * (a \div z) >= 0 /\ z * (a \div z) = (a \div z) * z
    BY <1>1, <1>3, Z3
<1>5. PICK q \in Nat : q = a \div z
    BY <1>1, <1>3
<1>6. a = q * z + (a % z)
    BY <1>1, <1>4, <1>5
<1>7. \E k \in Nat : a = k * z + (a % z)
    BY <1>6
<1>8. a % z \in Nat /\ a % z < z /\ a % z <= a
    BY <1>1, <1>2, <1>4
<1>. QED
    BY <1>7, <1>8

\* The remainder is what is left of a multiple below.
LEMMA ModIs ==
    ASSUME NEW q \in Nat, NEW z \in Nat \ {0}, NEW r \in Nat, r < z
    PROVE  (q * z + r) % z = r
<1>1. q * z \in Nat /\ q * z + r \in Nat
    BY Z3
<1>2. PICK p \in Nat : q * z + r = p * z + ((q * z + r) % z)
    BY <1>1, ModRange
<1>3. (q * z + r) % z \in Nat /\ (q * z + r) % z < z
    BY <1>1, ModRange
<1>4. CASE p < q
    <2>1. (p + 1) * z <= q * z /\ (p + 1) * z = p * z + z /\ p * z \in Nat
        BY <1>4, Z3
    <2>. QED
        BY <2>1, <1>1, <1>2, <1>3
<1>5. CASE q < p
    <2>1. (q + 1) * z <= p * z /\ (q + 1) * z = q * z + z /\ p * z \in Nat
        BY <1>5, Z3
    <2>. QED
        BY <2>1, <1>1, <1>2, <1>3
<1>. QED
    BY <1>1, <1>2, <1>3, <1>4, <1>5

\* Up to the next multiple, adding to a number adds to its remainder.
LEMMA ModAdd ==
    ASSUME NEW a \in Nat, NEW z \in Nat \ {0}, NEW i \in Nat, (a % z) + i < z
    PROVE  (a + i) % z = (a % z) + i
<1>1. PICK q \in Nat : a = q * z + (a % z)
    BY ModRange
<1>2. a % z \in Nat /\ (a % z) + i \in Nat /\ q * z \in Nat
    BY ModRange, Z3
<1>3. PICK r \in Nat : r = (a % z) + i
    BY <1>2
<1>4. a + i = q * z + r
    BY <1>1, <1>2, <1>3
<1>5. (q * z + r) % z = r
    BY <1>3, ModIs
<1>. QED
    BY <1>3, <1>4, <1>5

LEMMA ModMult ==
    ASSUME NEW q \in Nat, NEW z \in Nat \ {0} PROVE (q * z) % z = 0
<1>1. (q * z + 0) % z = 0 /\ q * z \in Nat
    BY ModIs, Z3
<1>. QED
    BY <1>1

\* The sum of multiples is one, and so is their difference.
LEMMA ModSum ==
    ASSUME NEW a \in Nat, NEW b \in Nat, NEW z \in Nat \ {0}, a % z = 0, b % z = 0
    PROVE  (a + b) % z = 0
<1>1. PICK p \in Nat : a = p * z + (a % z)
    BY ModRange
<1>2. PICK q \in Nat : b = q * z + (b % z)
    BY ModRange
<1>3. p * z + q * z = (p + q) * z
    BY Z3
<1>4. a + b = (p + q) * z /\ p + q \in Nat
    BY <1>1, <1>2, <1>3, Z3
<1>5. ((p + q) * z) % z = 0
    BY <1>4, ModMult
<1>. QED
    BY <1>4, <1>5

LEMMA ModNext ==
    ASSUME NEW a \in Nat, NEW z \in Nat \ {0}, a % z = 0 PROVE (a + z) % z = 0
<1>1. z % z = 0
    <2>1. (1 * z) % z = 0 /\ 1 * z = z
        BY ModMult, Z3
    <2>. QED
        BY <2>1
<1>. QED
    BY <1>1, ModSum

\* A multiple that is not 0 is at least z.
LEMMA ModLeast ==
    ASSUME NEW a \in Nat \ {0}, NEW z \in Nat \ {0}, a % z = 0 PROVE z <= a
<1>1. PICK q \in Nat : a = q * z + (a % z)
    BY ModRange
<1>2. q >= 1
    BY <1>1, Z3
<1>3. q * z >= 1 * z
    BY <1>2, Z3
<1>. QED
    BY <1>1, <1>3, Z3

LEMMA ModDiff ==
    ASSUME NEW a \in Nat, NEW b \in Nat, NEW z \in Nat \ {0}, a % z = 0, b % z = 0, b <= a
    PROVE  (a - b) % z = 0
<1>1. PICK p \in Nat : a = p * z + (a % z)
    BY ModRange
<1>2. PICK q \in Nat : b = q * z + (b % z)
    BY ModRange
<1>3. q <= p
    <2>1. SUFFICES ASSUME p < q PROVE FALSE
        BY <1>1
    <2>2. (p + 1) * z <= q * z /\ (p + 1) * z = p * z + z /\ p * z \in Nat
        BY <2>1, Z3
    <2>. QED
        BY <2>2, <1>1, <1>2
<1>4. p - q \in Nat /\ a - b = (p - q) * z
    BY <1>1, <1>2, <1>3, Z3
<1>. QED
    BY <1>4, ModMult

\* The unit an address is in ends within a size the units divide.
LEMMA UnitEnds ==
    ASSUME NEW w \in Nat, NEW z \in Nat \ {0}, NEW s \in Nat, s % z = 0, w < s
    PROVE  w - (w % z) \in Nat /\ w - (w % z) + z <= s
<1>1. PICK q \in Nat : w = q * z + (w % z)
    BY ModRange
<1>2. PICK p \in Nat : s = p * z + (s % z)
    BY ModRange
<1>3. w % z \in Nat /\ w % z < z /\ q * z \in Nat /\ p * z \in Nat
    BY ModRange, Z3
<1>4. q < p
    <2>1. SUFFICES ASSUME p <= q PROVE FALSE
        BY <1>1
    <2>2. p * z <= q * z
        BY <2>1, Z3
    <2>. QED
        BY <2>2, <1>1, <1>2, <1>3
<1>5. (q + 1) * z <= p * z /\ (q + 1) * z = q * z + z
    BY <1>4, Z3
<1>. QED
    BY <1>1, <1>2, <1>3, <1>5

LEMMA ModTrans ==
    ASSUME NEW a \in Nat, NEW y \in Nat \ {0}, NEW z \in Nat \ {0}, a % y = 0, y % z = 0
    PROVE  a % z = 0
<1>1. PICK q \in Nat : a = q * y + (a % y)
    BY ModRange
<1>2. PICK p \in Nat : y = p * z + (y % z)
    BY ModRange
<1>3. a = (q * p) * z /\ q * p \in Nat
    BY <1>1, <1>2, Z3
<1>. QED
    BY <1>3, ModMult

\* A page is even: an address and its place in the page are both odd or both even.
LEMMA SameParity ==
    ASSUME NEW a \in Nat, NEW z \in Nat \ {0}, z % 2 = 0 PROVE (a % z) % 2 = a % 2
<1>1. PICK q \in Nat : a = q * z + (a % z)
    BY ModRange
<1>2. PICK p \in Nat : z = p * 2
    BY ModRange
<1>3. PICK r \in Nat : r = a % z
    BY ModRange
<1>4. PICK m \in Nat : m = q * p
    BY Z3
<1>5. q * z = m * 2
    BY <1>2, <1>4, Z3
<1>6. a = m * 2 + r
    BY <1>1, <1>3, <1>5
<1>. QED
    BY <1>3, <1>6

(* The inductive invariant. *)

\* The flash the chip is busy with is a function; the call in progress was
\* accepted and has bytes left; all but the first page program begin on a page,
\* and every erase on an erase unit.
CallInv ==
  /\ job = [a \in DOMAIN job |-> job[a]]
  /\ pc # "idle" => /\ Accepted(call) /\ done < call.n
                    /\ pc = "read" <=> call.op = "read"
                    /\ call.op = "program" /\ done > 0 => Addr % part.page = 0
                    /\ call.op = "erase" => done % part.ers = 0

\* What the chip is busy with will be harmless, too.
JobHarmless == \A a \in (DOMAIN job) \ late : Allowed(a, job[a])

\* The first k bytes of the range are programmed or erased in the bytes f.
Through(f, k) ==
  \A a \in call.addr .. call.addr + k - 1 :
    f[a] = IF call.op = "program" THEN before[a] \cap Wanted(a) ELSE Erased

\* A call that found the chip idle knows where it is: the chip is idle and
\* enabled when a command is sent, busy with that command as long as it is
\* enabled after it, and through with it once it no longer is.
InStep ==
  late = {} =>
    /\ pc \in {"read", "wren", "send"} => ~Busy
    /\ pc = "send" => wel
    /\ pc = "poll" /\ wel => Through(Worked(DOMAIN job), done + Step)
    /\ pc = "poll" /\ ~wel => ~Busy /\ Through(flash, done + Step)
    /\ pc \in {"wren", "send", "poll"} => Through(flash, done)
    /\ pc = "read" => \A i \in 0 .. done - 1 : buf[i] = before[call.addr + i]

(* The parts, the calls and the commands that go to the chip. *)

LEMMA PartFacts ==
    ASSUME part \in Parts
    PROVE  /\ part.size \in Nat /\ part.page \in Nat \ {0} /\ part.ers \in Nat \ {0}
           /\ part.span \in Nat \ {0} /\ part.eight \in BOOLEAN
           /\ part.page % 2 = 0 /\ part.ers % part.page = 0 /\ part.size % part.ers = 0
           /\ part.size % part.page = 0
<1>1. /\ part.size \in Nat /\ part.page \in Nat \ {0} /\ part.ers \in Nat \ {0}
      /\ part.span \in Nat \ {0} /\ part.eight \in BOOLEAN
    BY PartAssumption DEF PartType
<1>2. part.page % 2 = 0 /\ part.ers % part.page = 0 /\ part.size % part.ers = 0
    BY PartAssumption
<1>3. PICK s \in Nat, e \in Nat \ {0}, p \in Nat \ {0} :
        s = part.size /\ e = part.ers /\ p = part.page
    BY <1>1
<1>4. s % p = 0
    BY <1>2, <1>3, ModTrans
<1>. QED
    BY <1>1, <1>2, <1>3, <1>4

LEMMA CallFacts ==
    ASSUME NEW c \in Calls
    PROVE  /\ c.op \in {"read", "program", "erase"} /\ c.addr \in Nat /\ c.n \in Nat
           /\ c.op = "program" => c.data \in [0 .. c.n - 1 -> Byte]
BY CallAssumption

\* The chip gets no address behind the one meant, and that one where the
\* address bytes reach and it is even.
LEMMA BusFacts ==
    ASSUME part \in Parts, NEW a \in Nat
    PROVE  /\ OnBus(a) \in Nat /\ OnBus(a) <= a
           /\ a < part.span /\ (part.eight => a % 2 = 0) => OnBus(a) = a
<1>1. PICK z \in Nat \ {0} : z = part.span
    BY PartFacts
<1>2. a % z \in Nat /\ a % z <= a
    BY ModRange
<1>3. PICK w \in Nat : w = a % z
    BY <1>2
<1>4. w % 2 \in {0, 1} /\ w - (w % 2) \in Nat /\ w <= a
    BY <1>2, <1>3
<1>5. OnBus(a) = IF part.eight THEN w - (w % 2) ELSE w
    BY <1>1, <1>3 DEF OnBus
<1>6. a < z => w = a
    <2>1. SUFFICES ASSUME a < z PROVE (0 * z + a) % z = a /\ 0 * z + a = a
        BY <1>3
    <2>2. 0 * z + a = a
        BY Z3
    <2>3. (0 * z + a) % z = a
        BY <2>1, ModIs
    <2>. QED
        BY <2>2, <2>3
<1>7. OnBus(a) \in Nat /\ OnBus(a) <= a
    BY <1>4, <1>5
<1>8. ASSUME a < part.span, part.eight => a % 2 = 0 PROVE OnBus(a) = a
    BY <1>1, <1>5, <1>6, <1>8
<1>. QED
    BY <1>7, <1>8

\* Whatever it is told, the chip programs bytes of one page of its own, each
\* taking from what was there the bits one of the bytes given lacks.
LEMMA ProgramShape ==
    ASSUME part \in Parts, NEW a \in Nat, a < part.size, NEW k \in Nat, NEW d
    PROVE  /\ ProgramJob(a, k, d)
                = [x \in DOMAIN ProgramJob(a, k, d) |-> ProgramJob(a, k, d)[x]]
           /\ \A x \in DOMAIN ProgramJob(a, k, d) :
                /\ x \in 0 .. part.size - 1
                /\ \E i \in 0 .. k - 1 :
                     /\ x = PageBase(OnBus(a)) + ((OnBus(a) + i) % part.page)
                     /\ ProgramJob(a, k, d)[x] = flash[x] \cap d[i]
           /\ \A i \in 0 .. k - 1 :
                PageBase(OnBus(a)) + ((OnBus(a) + i) % part.page) \in DOMAIN ProgramJob(a, k, d)
<1> DEFINE at(i) == PageBase(OnBus(a)) + ((OnBus(a) + i) % part.page)
           S == {at(i) : i \in 0 .. k - 1}
           who(x) == CHOOSE i \in 0 .. k - 1 : at(i) = x
<1>1. ProgramJob(a, k, d) = [x \in S |-> flash[x] \cap d[who(x)]]
    BY DEF ProgramJob
<1>2. ASSUME NEW x \in S PROVE who(x) \in 0 .. k - 1 /\ at(who(x)) = x
    <2>1. \E i \in 0 .. k - 1 : at(i) = x
        BY <1>2
    <2>. QED
        BY <2>1, Zenon
<1>3. PICK w \in Nat, z \in Nat \ {0}, s \in Nat : w = OnBus(a) /\ z = part.page /\ s = part.size
    BY BusFacts, PartFacts
<1>4. w < s /\ s % z = 0
    BY <1>3, BusFacts, PartFacts
<1>5. w - (w % z) \in Nat /\ w - (w % z) + z <= s
    BY <1>4, UnitEnds
<1>6. PICK b \in Nat : b = w - (w % z)
    BY <1>5
<1>7. ASSUME NEW i \in 0 .. k - 1 PROVE at(i) \in 0 .. s - 1
    <2>1. PICK v \in Nat : v = w + i
        BY <1>7
    <2>2. v % z \in Nat /\ v % z < z
        BY ModRange
    <2>3. at(i) = b + (v % z)
        BY <1>3, <1>6, <2>1 DEF PageBase
    <2>. QED
        BY <2>2, <2>3, <1>5, <1>6
<1>8. DOMAIN ProgramJob(a, k, d) = S
    BY <1>1, Zenon
<1>9. ProgramJob(a, k, d) = [x \in DOMAIN ProgramJob(a, k, d) |-> ProgramJob(a, k, d)[x]]
    BY <1>1
<1>10. ASSUME NEW x \in S
       PROVE  /\ x \in 0 .. part.size - 1
              /\ \E i \in 0 .. k - 1 : x = at(i) /\ ProgramJob(a, k, d)[x] = flash[x] \cap d[i]
    <2>1. who(x) \in 0 .. k - 1 /\ at(who(x)) = x
        BY <1>2, <1>10
    <2>2. ProgramJob(a, k, d)[x] = flash[x] \cap d[who(x)]
        BY <1>1, <1>10, Zenon
    <2>3. x \in 0 .. part.size - 1
        BY <2>1, <1>3, <1>7
    <2>. HIDE DEF at, who, S
    <2>. QED
        BY <2>1, <2>2, <2>3, Zenon
<1>11. \A i \in 0 .. k - 1 : at(i) \in S
    OBVIOUS
<1>. QED
    BY <1>8, <1>9, <1>10, <1>11, Zenon

\* A program that ends within its page is where it was meant to be.
LEMMA ProgramInPage ==
    ASSUME part \in Parts, NEW a \in Nat, a < part.size, NEW k \in Nat, NEW d,
           OnBus(a) = a, (a % part.page) + k <= part.page
    PROVE  /\ \A x \in DOMAIN ProgramJob(a, k, d) :
                x - a \in 0 .. k - 1 /\ ProgramJob(a, k, d)[x] = flash[x] \cap d[x - a]
           /\ \A i \in 0 .. k - 1 : a + i \in DOMAIN ProgramJob(a, k, d)
<1>1. PICK z \in Nat \ {0} : z = part.page
    BY PartFacts
<1>2. a % z \in Nat /\ a % z <= a
    BY ModRange
<1>3. ASSUME NEW i \in 0 .. k - 1
      PROVE  PageBase(OnBus(a)) + ((OnBus(a) + i) % part.page) = a + i
    <2>1. i \in Nat /\ (a % z) + i < z
        BY <1>1, <1>2, <1>3
    <2>2. (a + i) % z = (a % z) + i
        BY <2>1, ModAdd
    <2>3. PICK m \in Nat : m = a % z
        BY <1>2
    <2>4. PageBase(a) = a - m
        BY <1>1, <2>3 DEF PageBase
    <2>. QED
        BY <1>1, <1>2, <2>1, <2>2, <2>3, <2>4
<1>4. ASSUME NEW x \in DOMAIN ProgramJob(a, k, d)
      PROVE  x - a \in 0 .. k - 1 /\ ProgramJob(a, k, d)[x] = flash[x] \cap d[x - a]
    <2>1. PICK i \in 0 .. k - 1 :
            /\ x = PageBase(OnBus(a)) + ((OnBus(a) + i) % part.page)
            /\ ProgramJob(a, k, d)[x] = flash[x] \cap d[i]
        <3>1. \E i \in 0 .. k - 1 :
                /\ x = PageBase(OnBus(a)) + ((OnBus(a) + i) % part.page)
                /\ ProgramJob(a, k, d)[x] = flash[x] \cap d[i]
            BY <1>4, ProgramShape
        <3>. QED
            BY <3>1
    <2>2. x = a + i
        BY <2>1, <1>3
    <2>3. x - a = i
        BY <2>2
    <2>. QED
        BY <2>1, <2>3
<1>5. ASSUME NEW i \in 0 .. k - 1 PROVE a + i \in DOMAIN ProgramJob(a, k, d)
    <2>1. PageBase(OnBus(a)) + ((OnBus(a) + i) % part.page) \in DOMAIN ProgramJob(a, k, d)
        BY <1>5, ProgramShape, Zenon
    <2>. QED
        BY <2>1, <1>3
<1>. QED
    BY <1>4, <1>5, Zenon

\* Where a call in progress stands: it has bytes left, all of them in the flash.
LEMMA Place ==
    ASSUME TypeOK, CallInv, pc # "idle"
    PROVE  /\ call \in Calls /\ part \in Parts
           /\ Addr \in Nat /\ Left \in Nat /\ Left > 0 /\ done \in Nat /\ done + Left = call.n
           /\ Addr = call.addr + done /\ call.addr \in Nat /\ call.n \in Nat
           /\ Addr + Left <= part.size /\ Addr < part.size /\ call.addr + call.n <= part.size
<1>1. call \in Calls /\ part \in Parts /\ done \in 0 .. call.n /\ done < call.n /\ Accepted(call)
    BY DEF TypeOK, CallInv
<1>2. call.addr \in Nat /\ call.n \in Nat /\ part.size \in Nat
    BY <1>1, CallFacts, PartFacts
<1>3. call.addr < part.size /\ call.n <= part.size - call.addr
    BY <1>1 DEF Accepted
<1>. QED
    BY <1>1, <1>2, <1>3 DEF Addr, Left

\* The next page program ends with the page or with the call.
LEMMA ChunkFacts ==
    ASSUME TypeOK, CallInv, pc # "idle"
    PROVE  /\ Chunk \in Nat /\ Chunk > 0 /\ Chunk <= Left
           /\ (Addr % part.page) \in Nat /\ (Addr % part.page) + Chunk <= part.page
           /\ Chunk < Left => (Addr % part.page) + Chunk = part.page
<1>1. PICK a \in Nat, l \in Nat, z \in Nat \ {0} : a = Addr /\ l = Left /\ z = part.page /\ l > 0
    BY Place, PartFacts
<1>2. a % z \in Nat /\ a % z < z
    BY ModRange
<1>3. PICK m \in Nat : m = a % z
    BY <1>2
<1>4. Chunk = IF l < z - m THEN l ELSE z - m
    BY <1>1, <1>3 DEF Chunk, Low
<1>5. Addr % part.page = m /\ m < z
    BY <1>1, <1>2, <1>3
<1>6. /\ Chunk \in Nat /\ Chunk > 0 /\ Chunk <= l /\ m + Chunk <= z
      /\ Chunk < l => m + Chunk = z
    <2>1. l > 0 /\ m < z
        BY <1>1, <1>5
    <2>2. CASE l < z - m
        BY <1>4, <2>1, <2>2
    <2>3. CASE ~(l < z - m)
        BY <1>4, <2>1, <2>3
    <2>. QED
        BY <2>2, <2>3
<1>. QED
    BY <1>1, <1>5, <1>6, Zenon

\* The padding of 8D-8D-8D begins on a pair, ends within the page, and lies
\* before the first byte of the call and behind its last.
LEMMA PadFacts ==
    ASSUME TypeOK, CallInv, pc # "idle", call.op = "program"
    PROVE  /\ Pad \in {0, 1} /\ Pad <= Addr /\ Addr - Pad \in Nat
           /\ PaddedLen \in Nat /\ Pad + Chunk <= PaddedLen
           /\ ((Addr - Pad) % part.page) + PaddedLen <= part.page
           /\ part.eight => (Addr - Pad) % 2 = 0
           /\ Pad = 1 => done = 0
           /\ Pad + Chunk < PaddedLen => Chunk = Left
<1>1. PICK a \in Nat, c \in Nat, z \in Nat \ {0}, l \in Nat :
        a = Addr /\ c = Chunk /\ z = part.page /\ l = Left /\ z % 2 = 0
    BY Place, ChunkFacts, PartFacts
<1>2. a % z \in Nat /\ a % z < z
    BY ModRange
<1>3. PICK m \in Nat : m = a % z
    BY <1>2
<1>4. m % 2 = a % 2
    BY <1>1, <1>3, SameParity
<1>5. c > 0 /\ m + c <= z /\ c <= l /\ (c < l => m + c = z)
    BY <1>1, <1>3, ChunkFacts
<1>6. done > 0 => m = 0
    BY <1>1, <1>3 DEF CallInv
<1>7. done \in Nat
    BY Place
<1>8. CASE part.eight /\ c # z
    <2>1. PICK p \in {0, 1} : p = a % 2
        OBVIOUS
    <2>2. Pad = p
        BY <1>1, <1>8, <2>1 DEF Pad
    <2>3. PaddedLen = c + p + ((c + p) % 2)
        BY <1>1, <1>8, <2>2 DEF PaddedLen
    <2>4. p <= m /\ p <= a
        BY <2>1, <1>4
    <2>5. (a - p) % z = m - p
        <3>1. PICK q \in Nat : a = q * z + (a % z)
            BY ModRange
        <3>2. PICK r \in Nat : r = m - p
            BY <2>4
        <3>3. (q * z + r) % z = r
            <4>1. r < z
                BY <3>2, <2>1, <1>2, <1>3
            <4>. QED
                BY <4>1, ModIs
        <3>4. a - p = q * z + r /\ q * z \in Nat
            BY <3>1, <3>2, <1>3, Z3
        <3>. QED
            BY <3>2, <3>3, <3>4
    <2>6. (m - p) + c + p + ((c + p) % 2) <= z
        BY <1>1, <1>4, <1>5, <2>1, <2>4
    <2>7. (a - p) % 2 = 0
        BY <2>1
    <2>8. p = 1 => done = 0
        BY <1>4, <1>6, <1>7, <2>1
    <2>9. (c + p) % 2 > 0 => c = l
        BY <1>1, <1>4, <1>5, <2>1
    <2>. QED
        BY <1>1, <2>2, <2>3, <2>4, <2>5, <2>6, <2>7, <2>8, <2>9
<1>9. CASE ~(part.eight /\ c # z)
    <2>1. Pad = 0 /\ PaddedLen = c
        BY <1>1, <1>9 DEF Pad, PaddedLen
    <2>2. part.eight => a % 2 = 0
        BY <1>4, <1>5, <1>9
    <2>. QED
        BY <1>1, <1>3, <1>5, <2>1, <2>2
<1>. QED
    BY <1>8, <1>9

\* A padded byte is one the call wants where the call is, and no change elsewhere.
LEMMA PaddedFacts ==
    ASSUME TypeOK, CallInv, pc # "idle", call.op = "program"
    PROVE  /\ \A i \in 0 .. PaddedLen - 1 : Padded[i] \in Byte
           /\ \A x \in Nat : x - (Addr - Pad) \in 0 .. PaddedLen - 1 =>
                Padded[x - (Addr - Pad)] = IF InRange(x) THEN Wanted(x) ELSE Erased
           /\ \A x \in Nat : x - (Addr - Pad) \in 0 .. PaddedLen - 1 /\ InRange(x) =>
                x \in Addr .. Addr + Chunk - 1
           /\ \A x \in Addr .. Addr + Chunk - 1 :
                InRange(x) /\ x - (Addr - Pad) \in 0 .. PaddedLen - 1
<1>1. PICK a \in Nat, c \in Nat, l \in Nat, p \in {0, 1}, n \in Nat, b \in Nat :
        /\ a = Addr /\ c = Chunk /\ l = Left /\ p = Pad /\ n = PaddedLen /\ b = call.addr
    BY Place, ChunkFacts, PadFacts
<1>2. /\ done \in Nat /\ c > 0 /\ c <= l /\ a = b + done /\ p <= a /\ p + c <= n
      /\ p = 1 => done = 0
      /\ p + c < n => c = l
      /\ call.n = done + l
    BY <1>1, Place, ChunkFacts, PadFacts
<1>3. \A i \in 0 .. n - 1 :
         Padded[i] = IF i \in p .. p + c - 1 THEN call.data[done + i - p] ELSE Erased
    BY <1>1 DEF Padded
<1>4. call.data \in [0 .. call.n - 1 -> Byte] /\ Erased \in Byte
    BY Place, CallFacts DEF Erased, Byte
<1>5. ASSUME NEW i \in 0 .. n - 1 PROVE Padded[i] \in Byte
    <2>1. CASE i \in p .. p + c - 1
        <3>1. done + i - p \in 0 .. call.n - 1
            BY <1>2, <2>1
        <3>. QED
            BY <1>3, <1>4, <2>1, <3>1
    <2>2. CASE i \notin p .. p + c - 1
        BY <1>3, <1>4, <1>5, <2>2
    <2>. QED
        BY <2>1, <2>2
<1>6. ASSUME NEW x \in Nat, x - (a - p) \in 0 .. n - 1
      PROVE  /\ InRange(x) <=> x \in a .. a + c - 1
             /\ Padded[x - (a - p)] = IF InRange(x) THEN Wanted(x) ELSE Erased
    <2>1. InRange(x) <=> x \in b .. b + done + l - 1
        BY <1>1, <1>2 DEF InRange
    <2>2. InRange(x) <=> x \in a .. a + c - 1
        BY <1>2, <1>6, <2>1
    <2>3. PICK i \in 0 .. n - 1 : i = x - (a - p)
        BY <1>6
    <2>4. i \in p .. p + c - 1 <=> x \in a .. a + c - 1
        BY <1>2, <2>3
    <2>5. done + i - p = x - b
        BY <1>2, <2>3
    <2>6. Wanted(x) = call.data[done + i - p]
        BY <1>1, <2>5 DEF Wanted
    <2>7. Padded[i] = IF i \in p .. p + c - 1 THEN call.data[done + i - p] ELSE Erased
        BY <1>3
    <2>8. Padded[i] = IF InRange(x) THEN Wanted(x) ELSE Erased
        BY <2>2, <2>4, <2>6, <2>7
    <2>. QED
        BY <2>2, <2>3, <2>8
<1>7. ASSUME NEW x \in a .. a + c - 1 PROVE InRange(x) /\ x - (a - p) \in 0 .. n - 1
    <2>1. x - (a - p) \in 0 .. n - 1 /\ x \in Nat
        BY <1>2, <1>7
    <2>. QED
        BY <2>1, <1>6
<1>. QED
    BY <1>1, <1>5, <1>6, <1>7, Zenon

\* The numbers with the same quotient are those from a multiple to the next.
LEMMA SameUnit ==
    ASSUME NEW a \in Nat, NEW z \in Nat \ {0}, a % z = 0, NEW x \in Nat
    PROVE  x \div z = a \div z <=> x \in a .. a + z - 1
<1>1. /\ a = z * (a \div z) + (a % z) /\ a \div z \in Int
      /\ x = z * (x \div z) + (x % z) /\ x \div z \in Int
    BY Z3
<1>2. x % z \in Nat /\ x % z < z
    BY ModRange
<1>3. PICK p \in Int, q \in Int, r \in Nat : p = x \div z /\ q = a \div z /\ r = x % z
    BY <1>1, <1>2
<1>4. a = z * q /\ x = z * p + r /\ r < z /\ z * p \in Int
    BY <1>1, <1>2, <1>3, Z3
<1>5. CASE p < q
    <2>1. z * (p + 1) <= z * q /\ z * (p + 1) = z * p + z
        BY <1>5, Z3
    <2>2. x < a
        BY <1>4, <2>1
    <2>. QED
        BY <1>3, <1>5, <2>2
<1>6. CASE q < p
    <2>1. z * (q + 1) <= z * p /\ z * (q + 1) = z * q + z
        BY <1>6, Z3
    <2>2. a + z <= x
        BY <1>4, <2>1
    <2>. QED
        BY <1>3, <1>6, <2>2
<1>7. CASE p = q
    BY <1>3, <1>4, <1>7
<1>. QED
    BY <1>5, <1>6, <1>7, <1>3

\* What the chip may be busy with.
IsJob(J) ==
  /\ J = [x \in DOMAIN J |-> J[x]]
  /\ DOMAIN J \subseteq 0 .. part.size - 1
  /\ \A x \in DOMAIN J : J[x] \in Byte

LEMMA EraseIsJob ==
    ASSUME NEW a PROVE IsJob(EraseJob(a))
<1>1. PICK S : S \subseteq 0 .. part.size - 1 /\ EraseJob(a) = [x \in S |-> Erased]
    BY DEF EraseJob
<1>. QED
    BY <1>1 DEF IsJob, Erased, Byte

LEMMA ProgramIsJob ==
    ASSUME TypeOK, CallInv, pc # "idle", call.op = "program", NEW k \in Nat
    PROVE  IsJob(ProgramJob(Addr - Pad, k, Padded))
<1>1. PICK a \in Nat : a = Addr - Pad
    BY PadFacts
<1>2. part \in Parts /\ a < part.size
    <2>1. Addr \in Nat /\ Addr < part.size /\ Pad \in {0, 1} /\ part \in Parts /\ part.size \in Nat
        BY Place, PadFacts, PartFacts
    <2>. QED
        BY <1>1, <2>1
<1>3. PICK J : J = ProgramJob(a, k, Padded)
    OBVIOUS
<1>4. /\ J = [x \in DOMAIN J |-> J[x]]
      /\ \A x \in DOMAIN J : /\ x \in 0 .. part.size - 1
                             /\ \E i \in 0 .. k - 1 : J[x] = flash[x] \cap Padded[i]
    <2>1. /\ ProgramJob(a, k, Padded)
                = [x \in DOMAIN ProgramJob(a, k, Padded) |-> ProgramJob(a, k, Padded)[x]]
          /\ \A x \in DOMAIN ProgramJob(a, k, Padded) :
                /\ x \in 0 .. part.size - 1
                /\ \E i \in 0 .. k - 1 :
                     /\ x = PageBase(OnBus(a)) + ((OnBus(a) + i) % part.page)
                     /\ ProgramJob(a, k, Padded)[x] = flash[x] \cap Padded[i]
        BY <1>2, ProgramShape
    <2>. QED
        BY <2>1, <1>3, Zenon
<1>5. ASSUME NEW x \in DOMAIN J PROVE x \in 0 .. part.size - 1 /\ J[x] \in Byte
    <2>1. flash[x] \in Byte
        BY <1>4, <1>5 DEF TypeOK
    <2>. QED
        BY <2>1, <1>4, <1>5 DEF Byte
<1>. QED
    BY <1>1, <1>3, <1>4, <1>5 DEF IsJob

LEMMA CommandIsJob ==
    ASSUME TypeOK, CallInv, pc # "idle"
    PROVE  IsJob(Command) /\ \A J \in CutShort : IsJob(J)
<1>1. CASE call.op = "program"
    <2>1. PaddedLen \in Nat
        BY <1>1, PadFacts
    <2>2. \A k \in Nat : IsJob(ProgramJob(Addr - Pad, k, Padded))
        BY <1>1, ProgramIsJob
    <2>3. IsJob(Command)
        BY <1>1, <2>1, <2>2 DEF Command
    <2>4. ASSUME NEW J \in CutShort PROVE IsJob(J)
        <3>1. PICK k \in 1 .. PaddedLen : J = ProgramJob(Addr - Pad, k, Padded)
            BY <1>1, <2>4 DEF CutShort
        <3>2. k \in Nat
            BY <2>1
        <3>. QED
            BY <3>1, <3>2, <2>2
    <2>. QED
        BY <2>3, <2>4
<1>2. CASE call.op # "program"
    BY <1>2, EraseIsJob DEF Command, CutShort
<1>. QED
    BY <1>1, <1>2

(* The address bytes of the commands reach all of the flash: what holds of a
   flash beyond them is another matter. *)
Reachable == \A p \in Parts : p.size <= p.span

\* A program is where it was meant to be, whole or cut short.
LEMMA ProgramPlace ==
    ASSUME Reachable, TypeOK, CallInv, pc # "idle", call.op = "program",
           NEW k \in Nat, k <= PaddedLen
    PROVE  /\ \A x \in DOMAIN ProgramJob(Addr - Pad, k, Padded) :
                /\ x \in Nat /\ x - (Addr - Pad) \in 0 .. k - 1
                /\ ProgramJob(Addr - Pad, k, Padded)[x]
                     = flash[x] \cap (IF InRange(x) THEN Wanted(x) ELSE Erased)
           /\ \A x \in Nat : x - (Addr - Pad) \in 0 .. k - 1 =>
                x \in DOMAIN ProgramJob(Addr - Pad, k, Padded)
<1>1. PICK a \in Nat : a = Addr - Pad
    BY PadFacts
<1>2. part \in Parts /\ a < part.size /\ OnBus(a) = a
    <2>1. Addr \in Nat /\ Addr < part.size /\ Pad \in {0, 1} /\ part \in Parts /\ part.size \in Nat
        BY Place, PadFacts, PartFacts
    <2>2. part.size <= part.span /\ part.span \in Nat
        BY <2>1, PartFacts DEF Reachable
    <2>3. a < part.span /\ a < part.size
        BY <1>1, <2>1, <2>2
    <2>4. part.eight => a % 2 = 0
        BY <1>1, PadFacts
    <2>. QED
        BY <2>1, <2>3, <2>4, BusFacts
<1>3. (a % part.page) + k <= part.page
    <2>1. (a % part.page) + PaddedLen <= part.page /\ PaddedLen \in Nat
        BY <1>1, PadFacts
    <2>2. a % part.page \in Nat /\ part.page \in Nat
        BY <1>2, PartFacts, ModRange
    <2>3. PICK m \in Nat, n \in Nat, z \in Nat : m = a % part.page /\ n = PaddedLen /\ z = part.page
        BY <2>1, <2>2
    <2>. QED
        BY <2>1, <2>3
<1>4. /\ \A x \in DOMAIN ProgramJob(a, k, Padded) :
           /\ x - a \in 0 .. k - 1
           /\ ProgramJob(a, k, Padded)[x] = flash[x] \cap Padded[x - a]
      /\ \A i \in 0 .. k - 1 : a + i \in DOMAIN ProgramJob(a, k, Padded)
    BY <1>2, <1>3, ProgramInPage
<1>5. \A x \in DOMAIN ProgramJob(a, k, Padded) : x \in Nat
    <2>1. IsJob(ProgramJob(a, k, Padded)) /\ part.size \in Nat
        BY <1>1, ProgramIsJob, <1>2, PartFacts
    <2>. QED
        BY <2>1 DEF IsJob
<1>6. ASSUME NEW x \in DOMAIN ProgramJob(a, k, Padded)
      PROVE  Padded[x - a] = IF InRange(x) THEN Wanted(x) ELSE Erased
    <2>1. x \in Nat /\ x - a \in 0 .. PaddedLen - 1
        <3>1. PaddedLen \in Nat /\ x \in Nat /\ x - a \in 0 .. k - 1
            BY PadFacts, <1>4, <1>5, <1>6
        <3>. QED
            BY <3>1
    <2>. QED
        BY <2>1, <1>1, PaddedFacts
<1>7. ASSUME NEW x \in Nat, x - a \in 0 .. k - 1 PROVE x \in DOMAIN ProgramJob(a, k, Padded)
    <2>1. PICK i \in 0 .. k - 1 : i = x - a
        BY <1>7
    <2>2. a + i = x
        BY <2>1
    <2>. QED
        BY <2>2, <1>4
<1>. QED
    BY <1>1, <1>4, <1>5, <1>6, <1>7, Zenon

\* An erase goes on from unit to unit and never past the call.
LEMMA EraseSteps ==
    ASSUME TypeOK, CallInv, pc # "idle", call.op = "erase"
    PROVE  /\ part.ers \in Nat /\ part.ers > 0 /\ part.ers <= Left
           /\ Addr % part.ers = 0 /\ (done + part.ers) % part.ers = 0
<1>1. PICK a \in Nat, z \in Nat \ {0}, l \in Nat \ {0}, b \in Nat, d \in Nat, n \in Nat :
        a = Addr /\ z = part.ers /\ l = Left /\ b = call.addr /\ d = done /\ n = call.n
    <2>1. /\ Addr \in Nat /\ Left \in Nat \ {0} /\ call.addr \in Nat /\ done \in Nat
          /\ call.n \in Nat /\ part.ers \in Nat \ {0}
        BY Place, PartFacts
    <2>. QED
        BY <2>1
<1>2. b % z = 0 /\ d % z = 0 /\ n % z = 0 /\ d <= n /\ a = b + d /\ l = n - d
    BY <1>1, Place DEF CallInv, Accepted
<1>3. a % z = 0
    BY <1>2, ModSum
<1>4. l % z = 0
    BY <1>2, ModDiff
<1>5. z <= l
    BY <1>4, ModLeast
<1>6. (d + z) % z = 0
    BY <1>2, ModNext
<1>. QED
    BY <1>1, <1>3, <1>5, <1>6

\* An erase of the call in progress is of the unit its address begins.
LEMMA ErasePlace ==
    ASSUME Reachable, TypeOK, CallInv, pc # "idle", call.op = "erase"
    PROVE  /\ DOMAIN EraseJob(Addr) = Addr .. Addr + part.ers - 1
           /\ \A x \in Addr .. Addr + part.ers - 1 : InRange(x) /\ EraseJob(Addr)[x] = Erased
<1>1. PICK a \in Nat, z \in Nat \ {0}, l \in Nat \ {0}, s \in Nat, b \in Nat, n \in Nat :
        a = Addr /\ z = part.ers /\ l = Left /\ s = part.size /\ b = call.addr /\ n = call.n
    <2>1. /\ Addr \in Nat /\ Left \in Nat \ {0} /\ call.addr \in Nat
          /\ call.n \in Nat /\ part.ers \in Nat \ {0} /\ part.size \in Nat
        BY Place, PartFacts
    <2>. QED
        BY <2>1
<1>2. /\ b <= a /\ a + l = b + n /\ a + l <= s
      /\ s <= part.span /\ part.span \in Nat /\ part \in Parts
    <2>1. done \in Nat /\ Addr = call.addr + done /\ done + Left = call.n /\ Addr + Left <= part.size
        BY Place
    <2>2. part \in Parts /\ part.size <= part.span /\ part.span \in Nat
        BY Place, PartFacts DEF Reachable
    <2>. QED
        BY <1>1, <2>1, <2>2
<1>3. a % z = 0 /\ z <= l
    BY <1>1, EraseSteps
<1>7. OnBus(a) = a
    <2>1. PICK p \in Nat \ {0} : p = part.page /\ p % 2 = 0 /\ z % p = 0
        BY <1>1, <1>2, PartFacts
    <2>2. a % p = 0
        BY <1>3, <2>1, ModTrans
    <2>3. a % 2 = 0
        BY <2>1, <2>2, ModTrans
    <2>4. a < part.span
        BY <1>2
    <2>. QED
        BY <1>2, <2>3, <2>4, BusFacts
<1>8. EraseJob(a) = [x \in {y \in 0 .. s - 1 : y \div z = a \div z} |-> Erased]
    BY <1>1, <1>7 DEF EraseJob
<1>9. {y \in 0 .. s - 1 : y \div z = a \div z} = a .. a + z - 1
    <2>1. ASSUME NEW y \in 0 .. s - 1, y \div z = a \div z PROVE y \in a .. a + z - 1
        <3>1. y \in Nat
            BY <2>1
        <3>. QED
            BY <3>1, <2>1, <1>3, SameUnit
    <2>2. ASSUME NEW y \in a .. a + z - 1 PROVE y \in 0 .. s - 1 /\ y \div z = a \div z
        <3>1. y \in Nat /\ y \in 0 .. s - 1
            BY <1>2, <1>3, <2>2
        <3>. QED
            BY <3>1, <2>2, <1>3, SameUnit
    <2>. QED
        BY <2>1, <2>2, Zenon
<1>10. ASSUME NEW x \in a .. a + z - 1 PROVE InRange(x)
    <2>1. x \in b .. b + n - 1
        BY <1>2, <1>3, <1>10
    <2>. QED
        BY <1>1, <2>1 DEF InRange
<1>11. DOMAIN EraseJob(a) = a .. a + z - 1 /\ \A x \in a .. a + z - 1 : EraseJob(a)[x] = Erased
    BY <1>8, <1>9
<1>. QED
    BY <1>1, <1>10, <1>11

\* A command sent for a call does it no harm, whole or cut short.
LEMMA CommandHarmless ==
    ASSUME Reachable, TypeOK, CallInv, Harmless, pc # "idle", pc # "read",
           NEW J \in {Command} \cup CutShort
    PROVE  \A x \in (DOMAIN J) \ late : Allowed(x, J[x])
<1>1. CASE call.op = "program"
    <2>1. PICK k \in Nat : k <= PaddedLen /\ J = ProgramJob(Addr - Pad, k, Padded)
        <3>1. PaddedLen \in Nat
            BY <1>1, PadFacts
        <3>. QED
            BY <1>1, <3>1 DEF Command, CutShort
    <2>2. SUFFICES ASSUME NEW x \in (DOMAIN J) \ late PROVE Allowed(x, J[x])
        OBVIOUS
    <2>3. /\ x \in 0 .. part.size - 1
          /\ J[x] = flash[x] \cap (IF InRange(x) THEN Wanted(x) ELSE Erased)
        BY <1>1, <2>1, <2>2, ProgramPlace, ProgramIsJob DEF IsJob
    <2>4. Allowed(x, flash[x]) /\ flash[x] \in Byte
        BY <2>2, <2>3 DEF Harmless, TypeOK
    <2>5. CASE InRange(x)
        BY <1>1, <2>3, <2>4, <2>5 DEF Allowed
    <2>6. CASE ~InRange(x)
        <3>1. flash[x] \cap Erased = flash[x]
            BY <2>4 DEF Erased, Byte
        <3>. QED
            BY <1>1, <2>3, <2>4, <2>6, <3>1 DEF Allowed
    <2>. QED
        BY <2>5, <2>6
<1>2. CASE call.op # "program"
    <2>1. call.op = "erase"
        BY <1>2, Place, CallFacts DEF CallInv, TypeOK
    <2>2. J = EraseJob(Addr)
        BY <1>2 DEF Command, CutShort
    <2>3. \A x \in DOMAIN J : InRange(x)
        BY <2>1, <2>2, ErasePlace
    <2>. QED
        BY <2>1, <2>3 DEF Allowed
<1>. QED
    BY <1>1, <1>2

\* Each step of a program or erase gets on, and leaves the next one on a page
\* or an erase unit.
LEMMA StepFacts ==
    ASSUME TypeOK, CallInv, pc # "idle", pc # "read"
    PROVE  /\ Step \in Nat /\ Step > 0 /\ Step <= Left
           /\ call.op = "program" /\ Step # Left => (Addr + Step) % part.page = 0
           /\ call.op = "erase" => (done + Step) % part.ers = 0
<1>1. CASE call.op = "program"
    <2>1. Step = Chunk
        BY <1>1 DEF Step
    <2>2. PICK a \in Nat, c \in Nat, l \in Nat, z \in Nat \ {0} :
            a = Addr /\ c = Chunk /\ l = Left /\ z = part.page
        BY Place, ChunkFacts, PartFacts
    <2>3. c > 0 /\ c <= l /\ (c < l => (a % z) + c = z)
        BY <2>2, ChunkFacts
    <2>4. c # l => (a + c) % z = 0
        <3>1. SUFFICES ASSUME c < l PROVE (a + c) % z = 0
            BY <2>3
        <3>2. PICK q \in Nat : a = q * z + (a % z)
            BY ModRange
        <3>3. a % z \in Nat /\ q * z \in Nat /\ q * z + z = (q + 1) * z
            BY ModRange, Z3
        <3>4. PICK m \in Nat : m = a % z
            BY <3>3
        <3>5. a + c = (q + 1) * z
            BY <2>3, <3>1, <3>2, <3>3, <3>4
        <3>6. ((q + 1) * z) % z = 0
            BY ModMult
        <3>. QED
            BY <3>5, <3>6
    <2>. QED
        BY <1>1, <2>1, <2>2, <2>3, <2>4
<1>2. CASE call.op # "program"
    <2>1. call.op = "erase"
        BY <1>2, Place, CallFacts DEF CallInv, TypeOK
    <2>. QED
        BY <2>1, EraseSteps DEF Step
<1>. QED
    BY <1>1, <1>2

\* Each step of a read gets on, and gets what is there.
LEMMA ReadFacts ==
    ASSUME TypeOK, CallInv, pc = "read"
    PROVE  /\ ReadLen \in Nat /\ ReadLen > 0 /\ ReadLen <= Left
           /\ \A i \in 0 .. ReadLen - 1 :
                /\ ReadAnswer[i] \in Byte \cup {Noise}
                /\ Reachable /\ ~Busy => ReadAnswer[i] = flash[Addr + i]
<1>1. PICK a \in Nat, l \in Nat \ {0}, s \in Nat : a = Addr /\ l = Left /\ s = part.size
    <2>1. Addr \in Nat /\ Left \in Nat \ {0} /\ part.size \in Nat
        BY Place, PartFacts
    <2>. QED
        BY <2>1
<1>2. a + l <= s /\ part \in Parts /\ part.eight \in BOOLEAN
    BY <1>1, Place, PartFacts
<1>3. \A x \in 0 .. s - 1 : flash[x] \in Byte
    BY <1>1 DEF TypeOK
<1>4. ASSUME NEW b \in Nat, NEW n \in Nat, NEW i \in 0 .. n - 1, b + i < s
      PROVE  /\ Answer(b, n)[i] \in Byte \cup {Noise}
             /\ Reachable /\ ~Busy /\ (part.eight => b % 2 = 0) => Answer(b, n)[i] = flash[b + i]
    <2>1. Answer(b, n)[i] = IF Busy THEN Noise ELSE flash[OnBus(b) + i]
        BY DEF Answer
    <2>2. OnBus(b) \in Nat /\ OnBus(b) <= b
        BY <1>2, BusFacts
    <2>3. OnBus(b) + i \in 0 .. s - 1
        BY <1>4, <2>2
    <2>4. ASSUME Reachable, part.eight => b % 2 = 0 PROVE OnBus(b) = b
        <3>1. s <= part.span /\ part.span \in Nat
            BY <1>1, <1>2, <2>4, PartFacts DEF Reachable
        <3>2. b < part.span
            BY <1>4, <3>1
        <3>. QED
            BY <1>2, <2>4, <3>2, BusFacts
    <2>. QED
        BY <2>1, <2>3, <2>4, <1>3
<1>5. CASE OddHead
    <2>1. part.eight /\ a % 2 = 1 /\ a >= 1 /\ a - 1 \in Nat /\ (a - 1) % 2 = 0
        BY <1>1, <1>5 DEF OddHead
    <2>2. ReadLen = 1 /\ ReadAnswer = [i \in {0} |-> Answer(a - 1, 2)[1]]
        BY <1>1, <1>5 DEF ReadLen, ReadAnswer
    <2>3. PICK b \in Nat : b = a - 1
        BY <2>1
    <2>4. b + 1 < s /\ b + 1 = a /\ 1 \in 0 .. 2 - 1 /\ b % 2 = 0
        BY <1>2, <2>1, <2>3
    <2>5. /\ Answer(b, 2)[1] \in Byte \cup {Noise}
          /\ Reachable /\ ~Busy => Answer(b, 2)[1] = flash[b + 1]
        BY <1>4, <2>4
    <2>6. ASSUME NEW i \in 0 .. ReadLen - 1 PROVE i = 0
        BY <2>2, <2>6
    <2>7. a + 0 = b + 1 /\ 1 <= l
        BY <2>4, <1>1
    <2>. QED
        BY <1>1, <2>2, <2>3, <2>5, <2>6, <2>7
<1>6. CASE ~OddHead /\ OddTail
    <2>1. part.eight /\ a % 2 = 0
        BY <1>1, <1>6 DEF OddTail
    <2>2. ReadLen = 1 /\ ReadAnswer = [i \in {0} |-> Answer(a, 2)[0]]
        BY <1>1, <1>6 DEF ReadLen, ReadAnswer
    <2>3. a + 0 < s /\ 0 \in 0 .. 2 - 1
        BY <1>2
    <2>4. /\ Answer(a, 2)[0] \in Byte \cup {Noise}
          /\ Reachable /\ ~Busy => Answer(a, 2)[0] = flash[a + 0]
        BY <1>4, <2>1, <2>3
    <2>5. ASSUME NEW i \in 0 .. ReadLen - 1 PROVE i = 0
        BY <2>2, <2>5
    <2>6. 1 <= l
        BY <1>1
    <2>. QED
        BY <1>1, <2>2, <2>4, <2>5, <2>6
<1>7. CASE ~OddHead /\ ~OddTail
    <2>1. ReadLen = (IF part.eight THEN l - (l % 2) ELSE l) /\ ReadAnswer = Answer(a, ReadLen)
        BY <1>1, <1>7 DEF ReadLen, ReadAnswer
    <2>2. part.eight => a % 2 = 0 /\ l # 1
        BY <1>1, <1>2, <1>7 DEF OddHead, OddTail
    <2>3. PICK n \in Nat : n = ReadLen /\ n > 0 /\ n <= l
        BY <2>1, <2>2, <1>1
    <2>4. ASSUME NEW i \in 0 .. n - 1 PROVE a + i < s
        BY <2>3, <2>4, <1>2
    <2>5. ASSUME NEW i \in 0 .. n - 1
          PROVE  /\ Answer(a, n)[i] \in Byte \cup {Noise}
                 /\ Reachable /\ ~Busy => Answer(a, n)[i] = flash[a + i]
        BY <1>4, <2>2, <2>4
    <2>. QED
        BY <1>1, <2>1, <2>3, <2>5
<1>. QED
    BY <1>5, <1>6, <1>7

(* The steps. *)

\* A part of the job done leaves bytes.
LEMMA WorkedFacts ==
    ASSUME TypeOK, NEW S, S \subseteq DOMAIN job
    PROVE  Worked(S) \in [0 .. part.size - 1 -> Byte]
<1>1. flash \in [0 .. part.size - 1 -> Byte] /\ \A a \in DOMAIN job : job[a] \in Byte
    BY DEF TypeOK
<1>2. DOMAIN flash = 0 .. part.size - 1
    BY <1>1
<1>. QED
    BY <1>1, <1>2 DEF Worked

\* A call that is through with k more bytes.
LEMMA AdvanceFacts ==
    ASSUME TypeOK, CallInv, pc # "idle", NEW k \in Nat, 0 < k, k <= Left,
           NEW next \in {"read", "wren"}, Advance(k, next)
    PROVE  /\ done' = done + k /\ done' \in 0 .. call.n
           /\ pc' \in {"idle", next} /\ res' \in {res, "ok"}
           /\ pc' # "idle" => Left # k /\ done' < call.n
           /\ Left = k => pc' = "idle" /\ res' = "ok" /\ done' = call.n
<1>1. done \in Nat /\ Left \in Nat /\ call.n \in Nat /\ done + Left = call.n
    BY Place
<1>2. done' = done + k
    BY DEF Advance
<1>3. CASE Left = k
    BY <1>1, <1>2, <1>3 DEF Advance, Return
<1>4. CASE Left # k
    <2>1. pc' = next /\ res' = res
        BY <1>4 DEF Advance
    <2>2. k < Left
        BY <1>1, <1>4
    <2>. QED
        BY <1>1, <1>2, <1>4, <2>1, <2>2
<1>. QED
    BY <1>3, <1>4

LEMMA TypeInit ==
    ASSUME Init PROVE TypeOK /\ CallInv
<1>1. part \in Parts /\ call \in Calls /\ call.n \in Nat
    BY CallFacts DEF Init
<1>2. flash \in [0 .. part.size - 1 -> Byte] /\ before \in [0 .. part.size - 1 -> Byte]
    BY DEF Init, Erased, Byte
<1>3. job = [a \in {} |-> Erased] /\ DOMAIN job = {}
    BY DEF Init, NoJob
<1>4. job = [a \in DOMAIN job |-> job[a]]
    BY <1>3
<1>5. buf \in [0 .. part.size - 1 -> Byte \cup {Noise}]
    BY DEF Init, Blank
<1>6. done \in 0 .. call.n /\ late \subseteq 0 .. part.size - 1
    BY <1>1 DEF Init
<1>7. pc = "idle" /\ wel = FALSE /\ res = "none"
    BY DEF Init
<1>8. TypeOK
    BY <1>1, <1>2, <1>3, <1>5, <1>6, <1>7 DEF TypeOK
<1>. QED
    BY <1>4, <1>7, <1>8 DEF CallInv

LEMMA BeginType ==
    ASSUME TypeOK, CallInv, NEW c \in Calls, Begin(c) PROVE TypeOK' /\ CallInv'
<1>1. /\ call' = c /\ before' = flash /\ late' = DOMAIN job /\ done' = 0 /\ buf' = Blank
      /\ part' = part /\ flash' = flash /\ job' = job /\ wel' = wel
    BY DEF Begin, chipVars
<1>2. c.op \in {"read", "program", "erase"} /\ c.addr \in Nat /\ c.n \in Nat
    BY CallFacts
<1>3. /\ pc' \in {"idle", "read", "wren"} /\ res' \in {"none", "ok", "refused"}
      /\ pc' # "idle" => /\ c.n # 0 /\ Accepted(c)
                         /\ pc' = IF c.op = "read" THEN "read" ELSE "wren"
    BY Zenon DEF Begin, Return
<1>4. buf' \in [0 .. part.size - 1 -> Byte \cup {Noise}]
    BY <1>1 DEF Blank
<1>5. TypeOK'
    BY <1>1, <1>2, <1>3, <1>4 DEF TypeOK
<1>6. pc' # "idle" => Accepted(call)'
    BY <1>1, <1>3 DEF Accepted
<1>7. pc' # "idle" => (pc' = "read" <=> call'.op = "read")
    BY <1>1, <1>3
<1>8. call'.op = "erase" /\ pc' # "idle" => done' % part.ers = 0
    <2>1. part.ers \in Nat \ {0}
        BY PartFacts DEF TypeOK
    <2>2. PICK z \in Nat \ {0} : z = part.ers
        BY <2>1
    <2>3. (0 * z) % z = 0 /\ 0 * z = 0
        BY ModMult, Z3
    <2>. QED
        BY <1>1, <2>2, <2>3
<1>9. CallInv'
    BY <1>1, <1>2, <1>3, <1>6, <1>7, <1>8 DEF CallInv
<1>. QED
    BY <1>5, <1>9

LEMMA ReadType ==
    ASSUME TypeOK, CallInv, Read PROVE TypeOK' /\ CallInv'
<1>1. pc = "read" /\ UNCHANGED <<part, flash, job, wel, call, before, late>>
    BY DEF Read, chipVars, callVars
<1>2. CASE Fail /\ UNCHANGED buf
    <2>1. pc' = "idle" /\ res' = "failed" /\ done' = done /\ buf' = buf
        BY <1>2 DEF Fail, Return
    <2>. QED
        BY <1>1, <2>1 DEF TypeOK, CallInv
<1>3. CASE /\ buf' = [i \in DOMAIN buf |-> IF i \in done .. done + ReadLen - 1
                                           THEN ReadAnswer[i - done] ELSE buf[i]]
           /\ Advance(ReadLen, "read")
    <2>1. PICK n \in Nat : n = ReadLen /\ 0 < n /\ n <= Left
        BY <1>1, ReadFacts
    <2>2. /\ done' = done + n /\ done' \in 0 .. call.n
          /\ pc' \in {"idle", "read"} /\ res' \in {res, "ok"}
          /\ pc' # "idle" => done' < call.n
        BY <1>1, <1>3, <2>1, AdvanceFacts
    <2>3. buf' \in [0 .. part.size - 1 -> Byte \cup {Noise}]
        <3>1. buf \in [0 .. part.size - 1 -> Byte \cup {Noise}] /\ done \in Nat
            BY <1>1, Place DEF TypeOK
        <3>2. ASSUME NEW i \in done .. done + n - 1
              PROVE  ReadAnswer[i - done] \in Byte \cup {Noise}
            <4>1. i - done \in 0 .. n - 1
                BY <3>1, <3>2
            <4>. QED
                BY <4>1, <1>1, <2>1, ReadFacts
        <3>. QED
            BY <1>3, <2>1, <3>1, <3>2
    <2>4. TypeOK'
        BY <1>1, <2>2, <2>3 DEF TypeOK
    <2>5. pc' # "idle" => Accepted(call)'
        BY <1>1 DEF CallInv, Accepted
    <2>6. call.op = "read"
        BY <1>1 DEF CallInv
    <2>7. CallInv'
        BY <1>1, <2>2, <2>5, <2>6 DEF CallInv
    <2>. QED
        BY <2>4, <2>7
<1>. QED
    BY <1>2, <1>3 DEF Read

LEMMA WrenType ==
    ASSUME TypeOK, CallInv, Wren PROVE TypeOK' /\ CallInv'
<1>1. /\ pc = "wren" /\ UNCHANGED <<part, flash, job, call, before, late, buf, done>>
      /\ pc' \in {"send", "idle"} /\ res' \in {res, "failed"} /\ wel' \in BOOLEAN
    BY DEF Wren, callVars, Fail, Return, TypeOK
<1>2. Accepted(call)' = Accepted(call) /\ Addr' = Addr
    BY <1>1 DEF Accepted, Addr
<1>. QED
    BY <1>1, <1>2 DEF TypeOK, CallInv

LEMMA SendType ==
    ASSUME TypeOK, CallInv, Send PROVE TypeOK' /\ CallInv'
<1>1. /\ pc = "send" /\ UNCHANGED <<part, flash, wel, call, before, late, buf, done>>
      /\ pc' \in {"poll", "idle"} /\ res' \in {res, "failed"}
      /\ job' \in {job, Command} \cup CutShort
    BY DEF Send, callVars, Fail, Return
<1>2. Accepted(call)' = Accepted(call) /\ Addr' = Addr
    BY <1>1 DEF Accepted, Addr
<1>3. IsJob(job)
    BY DEF TypeOK, CallInv, IsJob
<1>4. PICK J : J = job'
    OBVIOUS
<1>5. IsJob(J)
    BY <1>1, <1>3, <1>4, CommandIsJob
<1>6. /\ job' = [a \in DOMAIN job' |-> job'[a]]
      /\ DOMAIN job' \subseteq 0 .. part.size - 1 /\ \A a \in DOMAIN job' : job'[a] \in Byte
    BY <1>4, <1>5, Zenon DEF IsJob
<1>7. TypeOK'
    BY <1>1, <1>6 DEF TypeOK
<1>. QED
    BY <1>1, <1>2, <1>6, <1>7 DEF CallInv

LEMMA PollType ==
    ASSUME TypeOK, CallInv, PollReady \/ PollFail PROVE TypeOK' /\ CallInv'
<1>1. pc = "poll" /\ UNCHANGED <<part, flash, job, wel, call, before, late, buf>>
    BY DEF PollReady, PollFail, chipVars, callVars
<1>2. CASE PollFail
    <2>1. pc' = "idle" /\ res' = "failed" /\ done' = done
        BY <1>2 DEF PollFail, Fail, Return
    <2>. QED
        BY <1>1, <2>1 DEF TypeOK, CallInv
<1>3. CASE PollReady
    <2>1. PICK k \in Nat : k = Step /\ 0 < k /\ k <= Left
        BY <1>1, StepFacts
    <2>2. Advance(k, "wren")
        BY <1>3, <2>1 DEF PollReady
    <2>3. /\ done' = done + k /\ done' \in 0 .. call.n
          /\ pc' \in {"idle", "wren"} /\ res' \in {res, "ok"}
          /\ pc' # "idle" => Left # k /\ done' < call.n
        BY <1>1, <2>1, <2>2, AdvanceFacts
    <2>4. TypeOK'
        BY <1>1, <2>3 DEF TypeOK
    <2>5. Accepted(call)' = Accepted(call)
        BY <1>1 DEF Accepted
    <2>6. Addr' = Addr + k
        <3>1. call.addr \in Nat /\ done \in Nat
            BY <1>1, Place
        <3>. QED
            BY <1>1, <2>3, <3>1 DEF Addr
    <2>7. pc' # "idle" /\ call'.op = "program" => Addr' % part'.page = 0
        BY <1>1, <2>1, <2>3, <2>6, StepFacts
    <2>8. call'.op = "erase" => done' % part'.ers = 0
        BY <1>1, <2>1, <2>3, StepFacts
    <2>9. call.op # "read"
        BY <1>1 DEF CallInv
    <2>10. CallInv'
        BY <1>1, <2>3, <2>5, <2>7, <2>8, <2>9 DEF CallInv
    <2>. QED
        BY <2>4, <2>10
<1>. QED
    BY <1>2, <1>3

LEMMA ChipType ==
    ASSUME TypeOK, CallInv, Complete \/ PowerCut PROVE TypeOK' /\ CallInv'
<1>1. PICK S \in SUBSET DOMAIN job : flash' = Worked(S)
    BY DEF Complete, PowerCut
<1>2. flash' \in [0 .. part.size - 1 -> Byte]
    BY <1>1, WorkedFacts
<1>3. /\ job' = NoJob /\ wel' = FALSE /\ UNCHANGED <<part, call, before, late, buf, done>>
      /\ \/ pc' = pc /\ res' = res
         \/ pc' = "idle" /\ res' = "cut"
    BY DEF Complete, PowerCut, callVars, Return
<1>4. job' = [a \in DOMAIN job' |-> job'[a]] /\ DOMAIN job' = {}
    BY <1>3 DEF NoJob
<1>5. Accepted(call)' = Accepted(call) /\ Addr' = Addr
    BY <1>3 DEF Accepted, Addr
<1>6. TypeOK'
    BY <1>2, <1>3, <1>4 DEF TypeOK
<1>. QED
    BY <1>3, <1>4, <1>5, <1>6 DEF CallInv

\* The type invariant holds at each point of each call, whatever fails: every
\* address the driver sends is one the chip has, and no call runs past its end.
THEOREM Invariant == Spec => [](TypeOK /\ CallInv)
<1>1. Init => TypeOK /\ CallInv
    BY TypeInit
<1>2. TypeOK /\ CallInv /\ [Next]_vars => TypeOK' /\ CallInv'
    <2>1. SUFFICES ASSUME TypeOK, CallInv, [Next]_vars PROVE TypeOK' /\ CallInv'
        OBVIOUS
    <2>2. CASE UNCHANGED vars
        BY <2>1, <2>2 DEF TypeOK, CallInv, vars, Accepted, Addr
    <2>3. CASE \E c \in Calls : Begin(c)
        BY <2>1, <2>3, BeginType
    <2>4. CASE Read
        BY <2>1, <2>4, ReadType
    <2>5. CASE Wren
        BY <2>1, <2>5, WrenType
    <2>6. CASE Send
        BY <2>1, <2>6, SendType
    <2>7. CASE PollReady \/ PollFail
        BY <2>1, <2>7, PollType
    <2>8. CASE Complete \/ PowerCut
        BY <2>1, <2>8, ChipType
    <2>. QED
        BY <2>1, <2>2, <2>3, <2>4, <2>5, <2>6, <2>7, <2>8 DEF Next
<1>. QED
    BY <1>1, <1>2, PTL DEF Spec

\* TypeOK of spinor_read, spinor_program and spinor_erase.
THEOREM TypeCorrect == Spec => []TypeOK
BY Invariant, PTL

\* Only Begin sets what a call is measured by; only Send gives the chip a job
\* and only the chip changes its bytes.
LEMMA HarmlessInit ==
    ASSUME Init PROVE Harmless /\ JobHarmless
<1>1. flash = before /\ job = [a \in {} |-> Erased]
    BY DEF Init, NoJob
<1>2. \A a : Allowed(a, before[a])
    BY DEF Allowed
<1>. QED
    BY <1>1, <1>2 DEF Harmless, JobHarmless

LEMMA BeginHarmless ==
    ASSUME TypeOK, NEW c \in Calls, Begin(c) PROVE Harmless' /\ JobHarmless'
<1>1. before' = flash /\ late' = DOMAIN job /\ job' = job /\ flash' = flash
    BY DEF Begin, chipVars
<1>2. \A a : Allowed(a, before[a])'
    BY DEF Allowed
<1>3. Harmless'
    BY <1>1, <1>2 DEF Harmless
<1>4. JobHarmless'
    BY <1>1 DEF JobHarmless
<1>. QED
    BY <1>3, <1>4

LEMMA ChipHarmless ==
    ASSUME TypeOK, Harmless, JobHarmless, Complete \/ PowerCut PROVE Harmless' /\ JobHarmless'
<1>1. PICK S \in SUBSET DOMAIN job : flash' = Worked(S)
    BY DEF Complete, PowerCut
<1>2. job' = [a \in {} |-> Erased] /\ UNCHANGED <<part, call, before, late>>
    BY DEF Complete, PowerCut, callVars, NoJob
<1>3. DOMAIN flash = 0 .. part.size - 1
    BY DEF TypeOK
<1>4. ASSUME NEW a \in (0 .. part.size - 1) \ late PROVE Allowed(a, flash'[a])
    <2>1. flash'[a] = IF a \in S THEN job[a] ELSE flash[a]
        BY <1>1, <1>3, <1>4 DEF Worked
    <2>2. Allowed(a, flash[a]) /\ (a \in S => Allowed(a, job[a]))
        BY <1>4 DEF Harmless, JobHarmless
    <2>. QED
        BY <2>1, <2>2
<1>5. \A a \in (0 .. part'.size - 1) \ late' : Allowed(a, flash[a])'
    BY <1>2, <1>4 DEF Allowed, InRange, Wanted
<1>. QED
    BY <1>2, <1>5 DEF Harmless, JobHarmless

LEMMA SendHarmless ==
    ASSUME Reachable, TypeOK, CallInv, Harmless, JobHarmless, Send
    PROVE  Harmless' /\ JobHarmless'
<1>1. pc = "send" /\ UNCHANGED <<part, flash, call, before, late>>
      /\ job' \in {job, Command} \cup CutShort
    BY DEF Send, callVars
<1>2. ASSUME NEW a \in (DOMAIN job') \ late PROVE Allowed(a, job'[a])
    <2>1. PICK J : J = job'
        OBVIOUS
    <2>2. CASE J = job
        BY <1>2, <2>1, <2>2 DEF JobHarmless
    <2>3. CASE J \in {Command} \cup CutShort
        BY <1>1, <1>2, <2>1, <2>3, CommandHarmless
    <2>. QED
        BY <1>1, <2>1, <2>2, <2>3
<1>3. JobHarmless'
    BY <1>1, <1>2 DEF JobHarmless, Allowed, InRange, Wanted
<1>4. Harmless'
    BY <1>1 DEF Harmless, Allowed, InRange, Wanted
<1>. QED
    BY <1>3, <1>4

LEMMA StillHarmless ==
    ASSUME Harmless, JobHarmless, UNCHANGED <<part, flash, job, call, before, late>>
    PROVE  Harmless' /\ JobHarmless'
BY DEF Harmless, JobHarmless, Allowed, InRange, Wanted

\* Whatever fails and wherever power is cut, no byte changes but those of the
\* call, and those of a program only as its data asks: on every flash all of
\* which the address bytes reach.
THEOREM HarmlessInvariant == ASSUME Reachable PROVE Spec => [](Harmless /\ JobHarmless)
<1>1. Init => Harmless /\ JobHarmless
    BY HarmlessInit
<1>2. TypeOK /\ CallInv /\ Harmless /\ JobHarmless /\ [Next]_vars => Harmless' /\ JobHarmless'
    <2>1. SUFFICES ASSUME TypeOK, CallInv, Harmless, JobHarmless, [Next]_vars
                   PROVE  Harmless' /\ JobHarmless'
        OBVIOUS
    <2>2. CASE UNCHANGED <<part, flash, job, call, before, late>>
        BY <2>1, <2>2, StillHarmless
    <2>3. CASE \E c \in Calls : Begin(c)
        BY <2>1, <2>3, BeginHarmless
    <2>4. CASE Send
        BY <2>1, <2>4, SendHarmless
    <2>5. CASE Complete \/ PowerCut
        BY <2>1, <2>5, ChipHarmless
    <2>6. CASE Read \/ Wren \/ PollReady \/ PollFail
        BY <2>2, <2>6 DEF Read, Wren, PollReady, PollFail, chipVars, callVars
    <2>7. CASE UNCHANGED vars
        BY <2>2, <2>7 DEF vars
    <2>. QED
        BY <2>1, <2>3, <2>4, <2>5, <2>6, <2>7 DEF Next
<1>. QED
    BY <1>1, <1>2, Invariant, PTL DEF Spec

\* Harmless of spinor_program and spinor_erase, on those flashes.
THEOREM NoOtherByteChanges == ASSUME Reachable PROVE Spec => []Harmless
BY HarmlessInvariant, PTL

(* A call that returns MXST_SUCCESS has done all of it. *)

\* What this step of a call will have done once the chip has done its command.
LEMMA CommandDone ==
    ASSUME Reachable, TypeOK, CallInv, Harmless, InStep, late = {}, pc = "send",
           NEW f, \A a \in 0 .. part.size - 1 :
                    f[a] = IF a \in DOMAIN Command THEN Command[a] ELSE flash[a]
    PROVE  Through(f, done + Step)
<1>1. PICK b \in Nat, d \in Nat, k \in Nat, s \in Nat :
        /\ b = call.addr /\ d = done /\ k = Step /\ s = part.size
        /\ b + d + k <= s /\ k > 0
    <2>1. /\ call.addr \in Nat /\ done \in Nat /\ Addr = call.addr + done /\ Left \in Nat
          /\ Addr + Left <= part.size /\ part.size \in Nat
        BY Place, PartFacts
    <2>2. Step \in Nat /\ Step > 0 /\ Step <= Left
        BY StepFacts
    <2>3. call.addr + done + Step <= part.size
        BY <2>1, <2>2
    <2>. QED
        BY <2>1, <2>2, <2>3
<1>2. Addr = b + d /\ call.addr + (done + Step) - 1 = b + d + k - 1
    BY <1>1 DEF Addr
<1>3. \A a \in b .. b + d - 1 :
         flash[a] = IF call.op = "program" THEN before[a] \cap Wanted(a) ELSE Erased
    BY <1>1 DEF InStep, Through
<1>4. SUFFICES ASSUME NEW a \in b .. b + d + k - 1
               PROVE  f[a] = IF call.op = "program" THEN before[a] \cap Wanted(a) ELSE Erased
    BY <1>1, <1>2, Zenon DEF Through
<1>5. a \in 0 .. s - 1 /\ a \in Nat
    BY <1>1, <1>4
<1>6. CASE call.op = "program"
    <2>1. PICK p \in {0, 1}, n \in Nat : p = Pad /\ n = PaddedLen /\ p <= b + d
        BY <1>2, <1>6, PadFacts
    <2>2. /\ \A x \in DOMAIN ProgramJob(Addr - Pad, PaddedLen, Padded) :
               /\ x - (Addr - Pad) \in 0 .. PaddedLen - 1
               /\ ProgramJob(Addr - Pad, PaddedLen, Padded)[x]
                    = flash[x] \cap (IF InRange(x) THEN Wanted(x) ELSE Erased)
          /\ \A x \in Nat : x - (Addr - Pad) \in 0 .. PaddedLen - 1 =>
               x \in DOMAIN ProgramJob(Addr - Pad, PaddedLen, Padded)
        BY <1>6, <2>1, ProgramPlace
    <2>3. Command = ProgramJob(Addr - Pad, PaddedLen, Padded) /\ k = Chunk
        BY <1>1, <1>6 DEF Command, Step
    <2>4. CASE a \in b + d .. b + d + k - 1
        <3>1. InRange(a) /\ a - (Addr - Pad) \in 0 .. PaddedLen - 1
            BY <1>2, <1>6, <2>3, <2>4, PaddedFacts
        <3>2. f[a] = flash[a] \cap Wanted(a)
            BY <1>1, <1>5, <2>2, <2>3, <3>1
        <3>3. before[a] \cap Wanted(a) \subseteq flash[a] /\ flash[a] \subseteq before[a]
            BY <1>1, <1>5, <1>6, <3>1 DEF Harmless, Allowed
        <3>4. flash[a] \cap Wanted(a) = before[a] \cap Wanted(a)
            BY <3>3
        <3>. QED
            BY <1>6, <3>2, <3>4
    <2>5. CASE a \notin b + d .. b + d + k - 1
        <3>1. a \in b .. b + d - 1
            BY <1>1, <1>4, <2>5
        <3>2. InRange(a)
            <4>1. d < call.n /\ call.n \in Nat
                BY <1>1, Place DEF CallInv
            <4>2. a \in b .. b + call.n - 1
                BY <3>1, <4>1
            <4>. QED
                BY <1>1, <4>2 DEF InRange
        <3>3. a \notin DOMAIN Command
            <4>1. SUFFICES ASSUME a \in DOMAIN Command PROVE FALSE
                OBVIOUS
            <4>2. a - (Addr - Pad) \in 0 .. PaddedLen - 1
                BY <2>2, <2>3, <4>1
            <4>3. a \in Addr .. Addr + Chunk - 1
                BY <1>5, <1>6, <3>2, <4>2, PaddedFacts
            <4>. QED
                BY <1>2, <2>3, <2>5, <4>3
        <3>. QED
            BY <1>1, <1>3, <1>5, <3>1, <3>3
    <2>. QED
        BY <2>4, <2>5
<1>7. CASE call.op # "program"
    <2>1. call.op = "erase"
        BY <1>7, Place, CallFacts DEF CallInv, TypeOK
    <2>2. /\ DOMAIN EraseJob(Addr) = Addr .. Addr + part.ers - 1
          /\ \A x \in Addr .. Addr + part.ers - 1 : EraseJob(Addr)[x] = Erased
        BY <2>1, ErasePlace
    <2>3. Command = EraseJob(Addr) /\ k = part.ers
        BY <1>1, <1>7 DEF Command, Step
    <2>4. \A x \in b + d .. b + d + k - 1 : x \in DOMAIN Command /\ Command[x] = Erased
        BY <1>2, <2>2, <2>3
    <2>5. DOMAIN Command = b + d .. b + d + k - 1
        BY <1>2, <2>2, <2>3
    <2>6. CASE a \in b + d .. b + d + k - 1
        BY <1>1, <1>5, <1>7, <2>4, <2>6
    <2>7. CASE a \notin b + d .. b + d + k - 1
        <3>1. a \in b .. b + d - 1
            BY <1>1, <1>4, <2>7
        <3>. QED
            BY <1>1, <1>3, <1>5, <1>7, <2>5, <2>7, <3>1
    <2>. QED
        BY <2>6, <2>7
<1>. QED
    BY <1>6, <1>7

\* A call that begins with an idle chip is in step; one that begins with a busy
\* one never says so.
LEMMA BeginInStep ==
    ASSUME TypeOK, CallInv, NEW c \in Calls, Begin(c) PROVE InStep' /\ SuccessMeansDone'
<1>1. /\ call' = c /\ late' = DOMAIN job /\ done' = 0 /\ job' = job
      /\ pc' \in {"idle", "read", "wren"}
      /\ pc' = "idle" /\ res' = "ok" => c.n = 0
    BY Zenon DEF Begin, Return, chipVars
<1>2. c.addr \in Nat /\ c.n \in Nat
    BY CallFacts
<1>3. late' = {} => ~Busy'
    <2>1. SUFFICES ASSUME DOMAIN job = {} PROVE job = [a \in {} |-> Erased]
        BY <1>1 DEF Busy, NoJob
    <2>2. job = [a \in DOMAIN job |-> job[a]]
        BY DEF CallInv
    <2>. QED
        BY <2>1, <2>2
<1>4. Through(flash, done)'
    <2>1. call'.addr .. call'.addr + done' - 1 = {}
        BY <1>1, <1>2
    <2>. QED
        BY <2>1 DEF Through
<1>5. 0 .. done' - 1 = {}
    BY <1>1
<1>6. InStep'
    BY <1>1, <1>3, <1>4, <1>5 DEF InStep
<1>7. SuccessMeansDone'
    BY <1>1, <1>2 DEF SuccessMeansDone
<1>. QED
    BY <1>6, <1>7

LEMMA ReadInStep ==
    ASSUME Reachable, TypeOK, CallInv, Harmless, InStep, Read PROVE InStep' /\ SuccessMeansDone'
<1>1. pc = "read" /\ UNCHANGED <<part, flash, job, wel, call, before, late>> /\ call.op = "read"
    BY DEF Read, chipVars, callVars, CallInv
<1>2. CASE Fail /\ UNCHANGED buf
    BY <1>2 DEF Fail, Return, InStep, SuccessMeansDone
<1>3. CASE /\ buf' = [i \in DOMAIN buf |-> IF i \in done .. done + ReadLen - 1
                                           THEN ReadAnswer[i - done] ELSE buf[i]]
           /\ Advance(ReadLen, "read")
    <2>1. PICK n \in Nat : n = ReadLen /\ 0 < n /\ n <= Left
        BY <1>1, ReadFacts
    <2>2. /\ done' = done + n /\ done' \in 0 .. call.n
          /\ pc' \in {"idle", "read"}
          /\ Left = n => pc' = "idle" /\ done' = call.n
          /\ pc' # "idle" => Left # n
        BY <1>1, <1>3, <2>1, AdvanceFacts
    <2>3. SUFFICES ASSUME late = {} PROVE InStep' /\ SuccessMeansDone'
        BY <1>1 DEF InStep, SuccessMeansDone
    <2>4. ~Busy /\ \A i \in 0 .. done - 1 : buf[i] = before[call.addr + i]
        BY <1>1, <2>3 DEF InStep
    <2>5. PICK b \in Nat, d \in Nat, l \in Nat, s \in Nat :
            /\ b = call.addr /\ d = done /\ l = Left /\ s = part.size /\ b + d + l <= s
            /\ Addr = b + d /\ call.n = d + l
        <3>1. /\ call.addr \in Nat /\ done \in Nat /\ Left \in Nat /\ part.size \in Nat
              /\ Addr = call.addr + done /\ Addr + Left <= part.size /\ done + Left = call.n
            BY <1>1, Place, PartFacts
        <3>. QED
            BY <3>1
    <2>6. DOMAIN buf = 0 .. s - 1
        BY <2>5 DEF TypeOK
    <2>7. ASSUME NEW i \in 0 .. d + n - 1 PROVE buf'[i] = before[b + i]
        <3>1. i \in DOMAIN buf /\ i \in Nat
            BY <2>1, <2>5, <2>6, <2>7
        <3>2. CASE i < d
            <4>1. i \notin done .. done + ReadLen - 1 /\ i \in 0 .. done - 1
                BY <2>5, <2>7, <3>2
            <4>. QED
                BY <1>3, <2>4, <2>5, <3>1, <4>1
        <3>3. CASE d <= i
            <4>1. PICK j \in 0 .. n - 1 : j = i - d
                BY <2>5, <2>7, <3>1, <3>3
            <4>2. i \in done .. done + ReadLen - 1
                BY <2>1, <2>5, <2>7, <3>1, <3>3
            <4>3. buf'[i] = ReadAnswer[j]
                BY <1>3, <2>5, <3>1, <4>1, <4>2
            <4>4. ReadAnswer[j] = flash[Addr + j]
                BY <1>1, <2>1, <2>4, <4>1, ReadFacts
            <4>5. Addr + j = b + i /\ b + i \in 0 .. s - 1
                BY <2>1, <2>5, <2>7, <4>1
            <4>6. flash[b + i] = before[b + i]
                BY <1>1, <2>3, <2>5, <4>5 DEF Harmless, Allowed
            <4>. QED
                BY <4>3, <4>4, <4>5, <4>6
        <3>. QED
            BY <2>5, <3>1, <3>2, <3>3
    <2>8. ~Busy'
        BY <1>1, <2>4 DEF Busy, NoJob
    <2>9. InStep'
        BY <1>1, <2>2, <2>5, <2>7, <2>8 DEF InStep
    <2>10. SuccessMeansDone'
        <3>1. SUFFICES ASSUME pc' = "idle", NEW a \in 0 .. part'.size - 1, InRange(a)'
                       PROVE  buf'[a - call.addr] = before[a]
            BY <1>1, <2>8 DEF SuccessMeansDone
        <3>2. Left = n
            BY <1>3, <2>1, <3>1 DEF Advance
        <3>3. a \in b .. b + (d + l) - 1 /\ a \in Nat
            BY <1>1, <2>5, <3>1 DEF InRange
        <3>4. PICK i \in 0 .. d + n - 1 : i = a - b
            BY <2>5, <3>2, <3>3
        <3>5. b + i = a
            BY <3>3, <3>4
        <3>. QED
            BY <2>5, <2>7, <3>4, <3>5
    <2>. QED
        BY <2>9, <2>10
<1>. QED
    BY <1>2, <1>3 DEF Read

LEMMA WrenInStep ==
    ASSUME TypeOK, InStep, Wren PROVE InStep' /\ SuccessMeansDone'
<1>1. pc = "wren" /\ UNCHANGED <<part, flash, job, call, before, late>>
    BY DEF Wren, callVars
<1>2. CASE pc' = "idle" /\ res' = "failed"
    BY <1>2 DEF InStep, SuccessMeansDone
<1>3. CASE pc' = "send" /\ wel' = (wel \/ ~Busy) /\ done' = done
    <2>1. SUFFICES ASSUME late = {} PROVE InStep'
        BY <1>1, <1>3 DEF InStep, SuccessMeansDone
    <2>2. ~Busy /\ Through(flash, done)
        BY <1>1, <2>1 DEF InStep
    <2>3. ~Busy' /\ wel'
        BY <1>1, <1>3, <2>2 DEF Busy, NoJob
    <2>4. Through(flash, done)'
        BY <1>1, <1>3, <2>2 DEF Through, Wanted
    <2>. QED
        BY <1>3, <2>3, <2>4 DEF InStep
<1>. QED
    BY <1>2, <1>3 DEF Wren, Fail, Return

LEMMA SendInStep ==
    ASSUME Reachable, TypeOK, CallInv, Harmless, InStep, Send PROVE InStep' /\ SuccessMeansDone'
<1>1. pc = "send" /\ UNCHANGED <<part, flash, wel, call, before, late>>
    BY DEF Send, callVars
<1>2. CASE pc' = "idle" /\ res' = "failed"
    BY <1>2 DEF InStep, SuccessMeansDone
<1>3. CASE pc' = "poll" /\ job' = (IF ~Busy /\ wel THEN Command ELSE job) /\ done' = done
    <2>1. SUFFICES ASSUME late = {} PROVE InStep'
        BY <1>1, <1>3 DEF InStep, SuccessMeansDone
    <2>2. ~Busy /\ wel /\ Through(flash, done)
        BY <1>1, <2>1 DEF InStep
    <2>3. job' = Command
        BY <1>3, <2>2
    <2>4. Through(flash, done)'
        BY <1>1, <1>3, <2>2 DEF Through, Wanted
    <2>5. Step' = Step
        BY <1>1, <1>3 DEF Step, Chunk, Low, Left, Addr
    <2>6. PICK f : f = Worked(DOMAIN job)'
        OBVIOUS
    <2>7. f = [a \in DOMAIN flash |-> IF a \in DOMAIN Command THEN Command[a] ELSE flash[a]]
        BY <1>1, <2>3, <2>6 DEF Worked
    <2>8. \A a \in 0 .. part.size - 1 :
            f[a] = IF a \in DOMAIN Command THEN Command[a] ELSE flash[a]
        BY <2>7 DEF TypeOK
    <2>9. Through(f, done + Step)
        BY <1>1, <2>1, <2>8, CommandDone
    <2>10. Through(Worked(DOMAIN job), done + Step)'
        BY <1>1, <1>3, <2>5, <2>6, <2>9 DEF Through, Wanted
    <2>. QED
        BY <1>1, <1>3, <2>2, <2>4, <2>10 DEF InStep
<1>. QED
    BY <1>2, <1>3 DEF Send, Fail, Return

LEMMA PollInStep ==
    ASSUME TypeOK, CallInv, InStep, PollReady \/ PollFail PROVE InStep' /\ SuccessMeansDone'
<1>1. pc = "poll" /\ UNCHANGED <<part, flash, job, wel, call, before, late, buf>>
    BY DEF PollReady, PollFail, chipVars, callVars
<1>2. CASE PollFail
    BY <1>2 DEF PollFail, Fail, Return, InStep, SuccessMeansDone
<1>3. CASE PollReady
    <2>1. SUFFICES ASSUME late = {} PROVE InStep' /\ SuccessMeansDone'
        BY <1>1 DEF InStep, SuccessMeansDone
    <2>2. PICK k \in Nat : k = Step /\ 0 < k /\ k <= Left
        BY <1>1, StepFacts
    <2>3. Advance(k, "wren")
        BY <1>3, <2>2 DEF PollReady
    <2>4. done' = done + k /\ pc' \in {"idle", "wren"}
          /\ (Left = k => done' = call.n) /\ (pc' = "idle" => Left = k)
        BY <1>1, <2>2, <2>3, AdvanceFacts DEF Advance
    <2>5. ~Busy /\ Through(flash, done + Step)
        BY <1>1, <1>3, <2>1 DEF InStep, PollReady
    <2>6. ~Busy'
        BY <1>1, <2>5 DEF Busy, NoJob
    <2>7. Through(flash, done)'
        BY <1>1, <2>2, <2>4, <2>5 DEF Through, Wanted
    <2>8. InStep'
        BY <2>4, <2>6, <2>7 DEF InStep
    <2>9. call.op \in {"program", "erase"}
        BY <1>1, Place, CallFacts DEF CallInv
    <2>10. ASSUME pc' = "idle", NEW a \in 0 .. part'.size - 1, InRange(a)'
           PROVE  flash'[a] = IF call'.op = "program" THEN before'[a] \cap Wanted(a)' ELSE Erased
        <3>1. done' = call'.n
            BY <1>1, <2>4, <2>10
        <3>. QED
            BY <2>7, <2>10, <3>1 DEF Through, InRange
    <2>11. SuccessMeansDone'
        BY <1>1, <2>6, <2>9, <2>10 DEF SuccessMeansDone
    <2>. QED
        BY <2>8, <2>11
<1>. QED
    BY <1>2, <1>3

LEMMA ChipInStep ==
    ASSUME TypeOK, CallInv, InStep, SuccessMeansDone, Complete \/ PowerCut
    PROVE  InStep' /\ SuccessMeansDone'
<1>1. CASE PowerCut
    BY <1>1 DEF PowerCut, Return, InStep, SuccessMeansDone
<1>2. CASE Complete
    <2>1. /\ Busy /\ flash' = Worked(DOMAIN job) /\ job' = NoJob /\ wel' = FALSE
          /\ UNCHANGED <<part, pc, call, before, late, done, buf, res>>
        BY <1>2 DEF Complete, callVars
    <2>2. SUFFICES ASSUME late = {} PROVE InStep' /\ SuccessMeansDone'
        BY <2>1 DEF InStep, SuccessMeansDone
    <2>3. ~(pc = "idle" /\ res = "ok" /\ call.n > 0)
        BY <2>1, <2>2 DEF SuccessMeansDone
    <2>4. SuccessMeansDone'
        BY <2>1, <2>3 DEF SuccessMeansDone
    <2>5. pc \notin {"read", "wren", "send"} /\ (pc = "poll" => wel)
        BY <2>1, <2>2 DEF InStep
    <2>6. SUFFICES ASSUME pc = "poll" PROVE InStep'
        BY <2>1, <2>4, <2>5 DEF InStep
    <2>7. Through(flash', done + Step)
        BY <2>1, <2>2, <2>5, <2>6 DEF InStep
    <2>8. Step' = Step
        BY <2>1 DEF Step, Chunk, Low, Left, Addr
    <2>9. Through(flash, done + Step)'
        BY <2>1, <2>7, <2>8 DEF Through, Wanted
    <2>10. done \in Nat /\ Step \in Nat /\ call.addr \in Nat
        BY <2>6, Place, StepFacts
    <2>11. Through(flash, done)'
        <3>1. call'.addr .. call'.addr + done' - 1 \subseteq call'.addr .. call'.addr + (done + Step)' - 1
            BY <2>1, <2>8, <2>10
        <3>. QED
            BY <2>9, <3>1 DEF Through
    <2>12. ~Busy' /\ ~wel'
        BY <2>1 DEF Busy, NoJob
    <2>. QED
        BY <2>1, <2>6, <2>9, <2>11, <2>12 DEF InStep
<1>. QED
    BY <1>1, <1>2

\* MXST_SUCCESS means done: on every flash all of which the address bytes reach,
\* a call that found the chip idle and succeeds has programmed, erased or read
\* each byte of its range, and leaves the chip idle.
THEOREM SuccessIsDone == ASSUME Reachable PROVE Spec => []SuccessMeansDone
<1>1. Init => InStep /\ SuccessMeansDone
    BY DEF Init, InStep, SuccessMeansDone
<1>2. TypeOK /\ CallInv /\ Harmless /\ InStep /\ SuccessMeansDone /\ [Next]_vars
        => InStep' /\ SuccessMeansDone'
    <2>1. SUFFICES ASSUME TypeOK, CallInv, Harmless, InStep, SuccessMeansDone, [Next]_vars
                   PROVE  InStep' /\ SuccessMeansDone'
        OBVIOUS
    <2>2. CASE UNCHANGED vars
        <3>1. Step' = Step /\ Busy' = Busy
            BY <2>2 DEF vars, Step, Chunk, Low, Left, Addr, Busy, NoJob
        <3>2. Worked(DOMAIN job)' = Worked(DOMAIN job)
            BY <2>2 DEF vars, Worked
        <3>3. InStep'
            BY <2>1, <2>2, <3>1, <3>2 DEF vars, InStep, Through, Wanted
        <3>4. SuccessMeansDone'
            BY <2>1, <2>2, <3>1 DEF vars, SuccessMeansDone, InRange, Wanted
        <3>. QED
            BY <3>3, <3>4
    <2>3. CASE \E c \in Calls : Begin(c)
        BY <2>1, <2>3, BeginInStep
    <2>4. CASE Read
        BY <2>1, <2>4, ReadInStep
    <2>5. CASE Wren
        BY <2>1, <2>5, WrenInStep
    <2>6. CASE Send
        BY <2>1, <2>6, SendInStep
    <2>7. CASE PollReady \/ PollFail
        BY <2>1, <2>7, PollInStep
    <2>8. CASE Complete \/ PowerCut
        BY <2>1, <2>8, ChipInStep
    <2>. QED
        BY <2>1, <2>2, <2>3, <2>4, <2>5, <2>6, <2>7, <2>8 DEF Next
<1>. QED
    BY <1>1, <1>2, Invariant, HarmlessInvariant, PTL DEF Spec

=============================================================================
