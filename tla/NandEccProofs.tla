---------------------------- MODULE NandEccProofs ----------------------------
(***************************************************************************)
(* Proofs about NandEcc for every size of step and page, every set of      *)
(* calls, images and cells that go wrong, and any number of wrong cells.   *)
(* What the codec computes is taken from BchAssumption; that its encoder   *)
(* is linear, and how many bits its decoder inverts at most, is proved.    *)
(***************************************************************************)
EXTENDS NandEcc, FiniteSetTheorems, TLAPS

(* Symmetric differences: the XOR of words. *)

\* The bits of a difference are those of one word and not of the other.
LEMMA InSymDiff ==
    ASSUME NEW A, NEW B, NEW x
    PROVE  x \in SymDiff(A, B) <=> ((x \in A) # (x \in B))
BY DEF SymDiff

\* XOR is commutative and associative.
LEMMA XorLaws ==
    ASSUME NEW A, NEW B, NEW C
    PROVE  /\ SymDiff(A, B) = SymDiff(B, A)
           /\ SymDiff(SymDiff(A, B), C) = SymDiff(A, SymDiff(B, C))
BY DEF SymDiff

\* A word cancels itself.
LEMMA XorCancels ==
    ASSUME NEW A, NEW B
    PROVE  /\ SymDiff(A, A) = {} /\ SymDiff(A, {}) = A /\ SymDiff({}, A) = A
           /\ SymDiff(A, SymDiff(A, B)) = B
BY DEF SymDiff

\* The size of a difference.
LEMMA XorSize ==
    ASSUME NEW A, NEW B, IsFiniteSet(A), IsFiniteSet(B)
    PROVE  /\ IsFiniteSet(SymDiff(A, B))
           /\ Cardinality(A) \in Nat /\ Cardinality(B) \in Nat
           /\ Cardinality(A \intersect B) \in Nat
           /\ Cardinality(SymDiff(A, B))
                = Cardinality(A) + Cardinality(B) - 2 * Cardinality(A \intersect B)
           /\ Cardinality(SymDiff(A, B)) \in 0..(Cardinality(A) + Cardinality(B))
<1> DEFINE l == A \ B  r == B \ A  n == A \intersect B
<1>1. IsFiniteSet(l) /\ Cardinality(l) = Cardinality(A) - Cardinality(n)
    BY FS_Difference
<1>2. B \intersect A = n
    OBVIOUS
<1>3. IsFiniteSet(r) /\ Cardinality(r) = Cardinality(B) - Cardinality(n)
    BY <1>2, FS_Difference
<1>4. IsFiniteSet(n)
    BY FS_Intersection
<1>5. l \intersect r = {} /\ SymDiff(A, B) = l \union r
    BY DEF SymDiff
<1>6. Cardinality({}) = 0
    BY FS_EmptySet
<1>7. /\ IsFiniteSet(l \union r)
      /\ Cardinality(l \union r) = Cardinality(l) + Cardinality(r) - Cardinality(l \intersect r)
    BY <1>1, <1>3, FS_Union
<1>8. /\ Cardinality(A) \in Nat /\ Cardinality(B) \in Nat /\ Cardinality(n) \in Nat
      /\ Cardinality(l) \in Nat /\ Cardinality(r) \in Nat
    BY <1>1, <1>3, <1>4, FS_CardinalityType
<1> HIDE DEF l, r, n
<1>9. Cardinality(SymDiff(A, B)) = Cardinality(l) + Cardinality(r)
    BY <1>5, <1>6, <1>7, <1>8
<1>10. Cardinality(SymDiff(A, B)) = Cardinality(A) + Cardinality(B) - 2 * Cardinality(n)
    BY <1>9, <1>1, <1>3, <1>8
<1>11. Cardinality(SymDiff(A, B)) \in 0..(Cardinality(A) + Cardinality(B))
    BY <1>9, <1>1, <1>3, <1>8
<1>. QED
    BY <1>5, <1>7, <1>8, <1>10, <1>11 DEF n

\* Parity: the size of a difference is odd when one of the sizes is.
LEMMA XorParity ==
    ASSUME NEW A, NEW B, IsFiniteSet(A), IsFiniteSet(B)
    PROVE  Cardinality(SymDiff(A, B)) % 2 = 1 <=>
              ((Cardinality(A) % 2 = 1) # (Cardinality(B) % 2 = 1))
<1>1. \A a, b, n \in Nat :
          a + b - 2 * n \in Nat => ((a + b - 2 * n) % 2 = 1 <=> ((a % 2 = 1) # (b % 2 = 1)))
    OBVIOUS
<1> DEFINE a == Cardinality(A)  b == Cardinality(B)  n == Cardinality(A \intersect B)
<1>2. /\ a \in Nat /\ b \in Nat /\ n \in Nat
      /\ Cardinality(SymDiff(A, B)) = a + b - 2 * n /\ Cardinality(SymDiff(A, B)) \in 0..(a + b)
    BY XorSize
<1> HIDE DEF a, b, n
<1>3. a + b - 2 * n \in Nat
    BY <1>2
<1>4. (a + b - 2 * n) % 2 = 1 <=> ((a % 2 = 1) # (b % 2 = 1))
    BY <1>1, <1>2, <1>3
<1>. QED
    BY <1>2, <1>4 DEF a, b, n

(* The encoder. *)

\* What a bit of the data contributes to the ECC, and the bits of some data that
\* contribute to bit b of it.
EccOf(k) == At(Codec.mod_tab, DataExp(Codec, k))
Feeding(ones, b) == {k \in ones : b \in EccOf(k)}

\* The numbers the model is built from, and their types.
Sizes ==
    /\ SizeStep \in Nat /\ Strength \in Nat /\ Strength >= 1
    /\ StepBits \in Nat /\ StepBits >= 128 /\ StepBits = 8 * SizeStep
    /\ NSteps \in Nat /\ NSteps > 0 /\ NPages \in Nat /\ NPages > 0
    /\ DataBits = {k \in Nat : k < StepBits}
    /\ SizeOob \in Nat /\ EccBits \in Nat /\ NBytes \in Nat /\ EccBits <= 8 * NBytes
    /\ Codec.t = Strength /\ Codec.n \in Nat
    /\ Codec.ecc_words \in Nat /\ EccBits <= 32 * Codec.ecc_words
    /\ 8 * Codec.len <= 2 * StepBits /\ Codec.len \in Int

\* They have these types for every step size and strength the ECC is set up for.
LEMMA SizesHold == Sizes
<1> DEFINE bits == Codec.ecc_bits
<1>1. Codec = NandBchInit /\ Codec.m \in 8..13 /\ SizeStep \in 16..1023 /\ Strength \in 1..12
      /\ Codec.n \in Nat /\ Codec.len <= 2 * SizeStep
    BY CodecAssumption
<1>2. /\ bits = Codec.m * Strength /\ Codec.t = Strength
      /\ Codec.ecc_bytes = (bits + 7) \div 8 /\ Codec.ecc_words = (bits + 31) \div 32
    BY <1>1 DEF NandBchInit, BchInit
<1>3. bits \in Nat
    BY <1>1, <1>2
<1>4. Codec.ecc_bytes \in Nat /\ bits <= 8 * Codec.ecc_bytes
    BY <1>2, <1>3
<1>5. Codec.ecc_words \in Nat /\ bits <= 32 * Codec.ecc_words
    BY <1>2, <1>3
<1>6. Codec.len \in Int
    BY <1>1 DEF NandBchInit, BchInit
<1>7. StepBits \in Nat /\ StepBits >= 128 /\ DataBits = {k \in Nat : k < StepBits}
    BY <1>1 DEF StepBits, DataBits
<1>8. NPages \in Nat /\ NPages > 0 /\ NSteps \in Nat /\ NSteps > 0 /\ SizeOob \in Nat
    BY EccAssumption
<1>9. 8 * Codec.len <= 2 * StepBits
    BY <1>1, <1>6 DEF StepBits
<1>. QED
    BY <1>1, <1>2, <1>3, <1>4, <1>5, <1>6, <1>7, <1>8, <1>9
    DEF Sizes, StepBits, EccBits, NBytes

\* Any bits of a step are finitely many.
LEMMA DataFinite ==
    ASSUME NEW A \in SUBSET DataBits
    PROVE  IsFiniteSet(A) /\ Cardinality(A) \in Nat
<1>1. IsFiniteSet(DataBits)
    BY SizesHold, FS_Interval DEF Sizes, DataBits
<1>. QED
    BY <1>1, FS_Subset, FS_CardinalityType

\* A bit of the ECC is the parity of the bits of the data that feed it.
LEMMA EccBit ==
    ASSUME NEW ones \in SUBSET DataBits, NEW b
    PROVE  b \in BchEncode(Codec, ones) <=> Cardinality(Feeding(ones, b)) % 2 = 1
<1> DEFINE f == [k \in ones |-> EccOf(k)]
<1>1. BchEncode(Codec, ones) = XorAll(f)
    BY DEF BchEncode, EccOf
<1>2. Feeding(ones, b) = {k \in DOMAIN f : b \in f[k]}
    BY DEF Feeding
<1>3. OddAt(f, b) <=> Cardinality(Feeding(ones, b)) % 2 = 1
    BY <1>2 DEF OddAt
<1>4. ASSUME OddAt(f, b) PROVE b \in UNION {f[k] : k \in DOMAIN f}
    <2>1. Feeding(ones, b) # {}
        BY <1>3, <1>4, FS_EmptySet
    <2>. QED
        BY <2>1 DEF Feeding
<1>. QED
    BY <1>1, <1>3, <1>4 DEF XorAll

\* The code is linear: the ECC of a difference is the difference of the ECCs.
LEMMA Linear ==
    ASSUME NEW A \in SUBSET DataBits, NEW B \in SUBSET DataBits
    PROVE  /\ SymDiff(A, B) \in SUBSET DataBits
           /\ BchEncode(Codec, SymDiff(A, B))
                = SymDiff(BchEncode(Codec, A), BchEncode(Codec, B))
<1>1. SymDiff(A, B) \in SUBSET DataBits
    BY DEF SymDiff
<1>2. ASSUME NEW b
      PROVE  b \in BchEncode(Codec, SymDiff(A, B)) <=>
                ((b \in BchEncode(Codec, A)) # (b \in BchEncode(Codec, B)))
    <2>1. Feeding(SymDiff(A, B), b) = SymDiff(Feeding(A, b), Feeding(B, b))
        BY DEF Feeding, SymDiff
    <2>2. Feeding(A, b) \in SUBSET DataBits /\ Feeding(B, b) \in SUBSET DataBits
        BY DEF Feeding
    <2>3. IsFiniteSet(Feeding(A, b)) /\ IsFiniteSet(Feeding(B, b))
        BY <2>2, DataFinite
    <2>. QED
        BY <1>1, <2>1, <2>3, XorParity, EccBit
<1>3. \A b : b \in BchEncode(Codec, SymDiff(A, B)) <=>
                 b \in SymDiff(BchEncode(Codec, A), BchEncode(Codec, B))
    BY <1>2, InSymDiff
<1>. QED
    BY <1>1, <1>3

\* The ECC of any data has ecc_bits bits, and erased data has erased ECC bytes.
LEMMA EccRange ==
    ASSUME NEW ones \in SUBSET DataBits
    PROVE  BchEncode(Codec, ones) \subseteq 0..(EccBits - 1)
<1> SUFFICES ASSUME NEW b \in BchEncode(Codec, ones) PROVE b \in 0..(EccBits - 1)
    OBVIOUS
<1>1. Feeding(ones, b) # {}
    <2>1. Cardinality({}) % 2 = 0
        BY FS_EmptySet
    <2>. QED
        BY <2>1, EccBit
<1>2. PICK k \in ones : b \in EccOf(k)
    BY <1>1 DEF Feeding
<1>3. Feeding({k}, b) = {k} /\ {k} \in SUBSET DataBits
    BY <1>2 DEF Feeding
<1>4. b \in BchEncode(Codec, {k})
    <2>1. Cardinality({k}) = 1
        BY FS_Singleton
    <2>2. Cardinality({k}) % 2 = 1
        BY <2>1
    <2>. QED
        BY <1>3, <2>2, EccBit
<1>. QED
    BY <1>4, BchAssumption

\* Every nand_bch_calc fits the ECC bytes; that of erased data is erased.
LEMMA CalcRange ==
    /\ \A ones \in SUBSET DataBits : Calc(ones) \in SUBSET EccByteBits
    /\ Calc(DataBits) = EccByteBits
<1>1. 0..(EccBits - 1) \subseteq EccByteBits
    BY SizesHold DEF Sizes, EccByteBits
<1>2. BchEncode(Codec, DataBits) \subseteq EccByteBits
    BY <1>1, EccRange
<1>3. ASSUME NEW ones \in SUBSET DataBits PROVE Calc(ones) \in SUBSET EccByteBits
    BY <1>1, <1>2, EccRange DEF Calc, MaskFF, SymDiff
<1>4. Calc(DataBits) = EccByteBits
    <2> DEFINE all == BchEncode(Codec, DataBits)
    <2>1. SymDiff(all, SymDiff(all, EccByteBits)) = EccByteBits
        BY XorCancels
    <2>. QED
        BY <2>1 DEF Calc, MaskFF
<1>. QED
    BY <1>3, <1>4

(* The decoder. *)

\* A set indexed by the members of a finite set is no larger.
LEMMA ImageSize ==
    ASSUME NEW S, NEW f, IsFiniteSet(S), DOMAIN f = S, f = [x \in S |-> f[x]]
    PROVE  LET image == {f[x] : x \in S}
           IN  IsFiniteSet(image) /\ Cardinality(image) <= Cardinality(S)
<1>1. f \in Surjection(S, {f[x] : x \in S})
    BY DEF Surjection
<1>. QED
    BY <1>1, FS_Surjection

\* The first d members of a set of numbers are d at most: each has a number of
\* members before it that is its own.
LEMMA FirstFew ==
    ASSUME NEW n \in Nat, NEW Z \in SUBSET (0..n), NEW d \in Nat
    PROVE  LET first == {i \in Z : Cardinality({h \in Z : h < i}) < d}
           IN  IsFiniteSet(first) /\ Cardinality(first) <= d
<1> DEFINE before(i) == {h \in Z : h < i}
           first == {i \in Z : Cardinality(before(i)) < d}
           f == [i \in first |-> Cardinality(before(i))]
<1>0. \A h \in Z : h \in Int
    OBVIOUS
<1>1. IsFiniteSet(Z)
    <2>1. IsFiniteSet(0..n)
        BY FS_Interval
    <2>. QED
        BY <2>1, FS_Subset
<1>2. \A i \in Z : IsFiniteSet(before(i)) /\ Cardinality(before(i)) \in Nat
    BY <1>1, FS_Subset, FS_CardinalityType
<1>3. ASSUME NEW i \in Z, NEW j \in Z, i < j
      PROVE  Cardinality(before(i)) < Cardinality(before(j))
    <2>1. before(i) \in SUBSET before(j) /\ i \in before(j) /\ i \notin before(i)
        <3>1. i \in Int /\ j \in Int
            BY <1>0
        <3>2. \A h \in Z : h < i => h < j
            BY <1>0, <1>3, <3>1
        <3>3. ~(i < i)
            BY <3>1
        <3>. QED
            BY <1>3, <3>2, <3>3, Zenon
    <2>2. Cardinality(before(i)) <= Cardinality(before(j))
          /\ (Cardinality(before(j)) = Cardinality(before(i)) => before(j) = before(i))
        BY <1>2, <2>1, FS_Subset
    <2>. QED
        BY <1>2, <2>1, <2>2
<1>4. f \in [first -> 0..(d - 1)]
    <2>1. \A i \in first : Cardinality(before(i)) \in 0..(d - 1)
        BY <1>2
    <2> HIDE DEF before, first
    <2>. QED
        BY <2>1
<1>5. \A i, j \in first : f[i] = f[j] => i = j
    <2> SUFFICES ASSUME NEW i \in first, NEW j \in first, f[i] = f[j], i # j PROVE FALSE
        OBVIOUS
    <2>1. i < j \/ j < i
        OBVIOUS
    <2>. QED
        BY <1>2, <1>3, <2>1
<1> HIDE DEF f, before
<1>6. f \in Injection(first, 0..(d - 1))
    BY <1>4, <1>5 DEF Injection, IsInjective
<1>7. IsFiniteSet(0..(d - 1)) /\ Cardinality(0..(d - 1)) = d
    BY FS_Interval
<1>8. IsFiniteSet(first) /\ Cardinality(first) <= d
    BY <1>6, <1>7, FS_Injection
<1>. QED
    BY <1>8 DEF before

\* chien_search finds no more roots than the degree it is given.
LEMMA RootsFew ==
    ASSUME NEW elp, NEW deg \in Nat
    PROVE  \E first \in SUBSET (0..Codec.n) :
              /\ IsFiniteSet(first) /\ Cardinality(first) <= deg
              /\ Roots(Codec, elp, deg) = {Codec.n - i : i \in first}
<1> DEFINE terms == {j \in 0..deg : At(elp, j) # {}}
           reg == Array([j \in 0..deg |-> Codec.a_log[At(elp, j)] + Codec.n
                                             - Codec.a_log[At(elp, deg)]], deg)
           Value(i) == [j \in terms |-> At(Codec.a_pow, (At(reg, j) + i * j) % Codec.n)]
           zeros == {i \in 0..Codec.n : \A b \in 0..(Codec.m - 1) : ~OddAt(Value(i), b)}
           first == {i \in zeros : Cardinality({h \in zeros : h < i}) < deg}
<1>1. Roots(Codec, elp, deg) =
         IF Cardinality(zeros) < deg THEN {} ELSE {Codec.n - i : i \in first}
    BY DEF Roots
<1>2. zeros \in SUBSET (0..Codec.n) /\ Codec.n \in Nat
    BY SizesHold DEF Sizes
<1> HIDE DEF zeros
<1>3. IsFiniteSet(first) /\ Cardinality(first) <= deg
    BY <1>2, FirstFew
<1>4. first \in SUBSET (0..Codec.n)
    BY <1>2
<1>5. {} = {Codec.n - i : i \in {}} /\ IsFiniteSet({}) /\ Cardinality({}) = 0
    BY FS_EmptySet
<1> HIDE DEF first
<1>. QED
    BY <1>1, <1>3, <1>4, <1>5

\* Whatever the difference of the ECCs, the decoder reports -1 or a number of
\* errors it may correct, and inverts no more bits than it may correct, in the
\* step or in the one behind it.
LEMMA DecodeAny ==
    ASSUME NEW diff
    PROVE  LET d == BchDecode(Codec, diff)
           IN  /\ d.err \in -1..Strength
               /\ d.flips \subseteq 0..(2 * StepBits - 1)
               /\ IsFiniteSet(d.flips) /\ Cardinality(d.flips) <= Strength
<1> DEFINE l == ErrorLocator(Codec, Syndrome(Codec, diff))
           roots == Roots(Codec, l.elp, l.deg)
           back(r) == NBits(Codec) - 1 - r - 32 * Codec.ecc_words
           flips == {b \in {back(r) : r \in roots} : b >= 0}
           d == BchDecode(Codec, diff)
<1> USE SizesHold DEF Sizes
<1>1. /\ IsFiniteSet({}) /\ Cardinality({}) = 0
    BY FS_EmptySet
<1>2. CASE diff = {}
    <2>1. d.err = 0 /\ d.flips = {}
        BY <1>2 DEF BchDecode
    <2>. QED
        BY <2>1, <1>1
<1>3. CASE diff # {} /\ (l.deg \notin 1..Codec.t \/ roots = {})
    <2>1. d.err = -1 /\ d.flips = {}
        BY <1>3 DEF BchDecode
    <2>. QED
        BY <2>1, <1>1
<1>4. CASE diff # {} /\ l.deg \in 1..Codec.t /\ roots # {}
    <2>1. d.err = l.deg /\ d.flips = flips
        BY <1>4 DEF BchDecode
    <2> HIDE DEF l, d
    <2>2. PICK first \in SUBSET (0..Codec.n) :
              /\ IsFiniteSet(first) /\ Cardinality(first) <= l.deg
              /\ roots = {Codec.n - i : i \in first}
        BY <1>4, RootsFew
    <2>3. NBits(Codec) \in Int /\ NBits(Codec) - 32 * Codec.ecc_words <= 2 * StepBits
        BY DEF NBits, EccBits
    <2>4. \A r \in roots : r \in Nat
        BY <2>2
    <2> DEFINE of(i) == back(Codec.n - i)
               all == {of(i) : i \in first}
    <2>5. flips \subseteq all
        BY <2>2
    <2>6. IsFiniteSet(all) /\ Cardinality(all) <= Cardinality(first)
        <3> DEFINE f == [i \in first |-> of(i)]
        <3>1. all = {f[i] : i \in first}
            OBVIOUS
        <3> HIDE DEF all
        <3>2. DOMAIN f = first /\ f = [i \in first |-> f[i]]
            OBVIOUS
        <3> HIDE DEF f
        <3>. QED
            BY <2>2, <3>1, <3>2, ImageSize
    <2>7. flips \subseteq 0..(2 * StepBits - 1)
        BY <2>3, <2>4
    <2> HIDE DEF flips, all
    <2>8. IsFiniteSet(flips) /\ Cardinality(flips) <= Cardinality(all)
        BY <2>5, <2>6, FS_Subset
    <2>9. /\ Cardinality(all) \in Nat /\ Cardinality(first) \in Nat
          /\ Cardinality(flips) \in Nat /\ l.deg \in 1..Strength
        BY <2>2, <2>6, <2>8, <1>4, FS_CardinalityType
    <2>. QED
        BY <2>1, <2>2, <2>6, <2>7, <2>8, <2>9 DEF d
<1>. QED
    BY <1>2, <1>3, <1>4

\* Every error in one to Strength bits of a codeword is among the patterns.
LEMMA IsPattern ==
    ASSUME NEW w \in SUBSET ((-EccBits)..(8 * SizeStep - 1)),
           IsFiniteSet(w), w # {}, Cardinality(w) <= Strength
    PROVE  w \in ErrorPatterns
<1> DEFINE n == Cardinality(w)
<1>1. n \in Nat /\ n # 0 /\ ExistsBijection(1..n, w)
    BY FS_CardinalityType, FS_EmptySet
<1> HIDE DEF n
<1>2. PICK f \in Bijection(1..n, w) : TRUE
    BY <1>1 DEF ExistsBijection
<1>3. f \in [1..n -> w] /\ \A x \in w : \E i \in 1..n : f[i] = x
    BY <1>2 DEF Bijection, Injection, IsInjective, Surjection
<1> DEFINE g == [i \in 1..Strength |-> IF i <= n THEN f[i] ELSE f[1]]
<1>4. n <= Strength /\ Strength \in Nat
    BY SizesHold DEF Sizes, n
<1>5. \A i \in 1..Strength : g[i] \in w
    BY <1>1, <1>3, <1>4
<1>6. \A x \in w : \E i \in 1..Strength : g[i] = x
    BY <1>1, <1>3, <1>4
<1>7. g \in [1..Strength -> (-EccBits)..(8 * SizeStep - 1)]
    BY <1>5
<1> HIDE DEF g
<1>8. w = {g[i] : i \in 1..Strength}
    BY <1>5, <1>6
<1>. QED
    BY <1>7, <1>8 DEF ErrorPatterns

\* As many errors as the code corrects, or fewer: the decoder counts them, inverts
\* those of the data, and behind the data as many bits at most as there are errors
\* in the ECC.
LEMMA DecodeWithin ==
    ASSUME NEW e \in SUBSET DataBits, NEW c \in SUBSET (0..(EccBits - 1)),
           Cardinality(e) + Cardinality(c) <= Strength
    PROVE  LET d == BchDecode(Codec, SymDiff(BchEncode(Codec, e), c))
           IN  /\ d.err = Cardinality(e) + Cardinality(c)
               /\ d.flips \intersect DataBits = e
               /\ Cardinality(d.flips \ DataBits) <= Cardinality(c)
               /\ d.top \in 0..Strength
<1> USE SizesHold DEF Sizes
<1>1. IsFiniteSet(e) /\ Cardinality(e) \in Nat
    BY DataFinite
<1>2. IsFiniteSet(c) /\ Cardinality(c) \in Nat
    <2>1. IsFiniteSet(0..(EccBits - 1))
        BY FS_Interval
    <2>. QED
        BY <2>1, FS_Subset, FS_CardinalityType
<1>3. CASE e = {} /\ c = {}
    <2>1. BchEncode(Codec, {}) = {}
        <3>1. \A b : Feeding({}, b) = {}
            BY DEF Feeding
        <3>0. Cardinality({}) % 2 = 0
            BY FS_EmptySet
        <3>2. \A b : Cardinality(Feeding({}, b)) % 2 = 0
            BY <3>0, <3>1
        <3>3. \A b : b \notin BchEncode(Codec, {})
            BY <3>2, EccBit
        <3>. QED
            BY <3>3
    <2>2. SymDiff(BchEncode(Codec, e), c) = {}
        BY <1>3, <2>1 DEF SymDiff
    <2>3. BchDecode(Codec, {}) = [err |-> 0, flips |-> {}, top |-> 0]
        BY DEF BchDecode
    <2>4. Cardinality({}) = 0 /\ {} \ DataBits = {} /\ {} \intersect DataBits = {}
        BY FS_EmptySet
    <2>5. Cardinality(e) = 0 /\ Cardinality(c) = 0 /\ e = {} /\ 0 + 0 = 0 /\ 0 <= 0
        BY <1>3, <2>4
    <2> DEFINE d == BchDecode(Codec, SymDiff(BchEncode(Codec, e), c))
    <2>6. d.err = 0 /\ d.flips = {} /\ d.top = 0
        BY <2>2, <2>3
    <2> HIDE DEF d
    <2>7. /\ d.err = Cardinality(e) + Cardinality(c) /\ d.flips \intersect DataBits = e
          /\ Cardinality(d.flips \ DataBits) <= Cardinality(c) /\ d.top \in 0..Strength
        BY <2>4, <2>5, <2>6
    <2>. QED
        BY <2>7 DEF d
<1>4. CASE e # {} \/ c # {}
    <2> DEFINE f == [r \in c |-> -1 - r]
               image == {f[r] : r \in c}
               w == e \union image
    <2>1. IsFiniteSet(image) /\ Cardinality(image) <= Cardinality(c)
        <3>1. DOMAIN f = c /\ f = [r \in c |-> f[r]]
            OBVIOUS
        <3> HIDE DEF f
        <3>. QED
            BY <3>1, <1>2, ImageSize
    <2>2. image \subseteq (-EccBits)..(-1)
        OBVIOUS
    <2>3. IsFiniteSet(w) /\ Cardinality(w) = Cardinality(e) + Cardinality(image) - Cardinality(e \intersect image)
        BY <1>1, <2>1, FS_Union
    <2>4. Cardinality(w) <= Strength
        <3>1. Cardinality(image) \in Nat /\ Cardinality(e \intersect image) \in Nat
            BY <1>1, <2>1, FS_CardinalityType, FS_Intersection
        <3> HIDE DEF w, image
        <3>. QED
            BY <1>1, <1>2, <2>1, <2>3, <3>1
    <2>5. \A r \in Int : r >= 0 => (-1 - r \in w <=> r \in c)
        <3>1. \A r \in Int : r >= 0 => -1 - r \notin e
            OBVIOUS
        <3>2. \A r \in Int : -1 - r \in image <=> r \in c
            OBVIOUS
        <3>. QED
            BY <3>1, <3>2
    <2>6. w \in SUBSET ((-EccBits)..(8 * SizeStep - 1))
        <3>1. \A k \in e : k \in (-EccBits)..(8 * SizeStep - 1)
            OBVIOUS
        <3>2. \A k \in image : k \in (-EccBits)..(8 * SizeStep - 1)
            BY <2>2
        <3>. QED
            BY <3>1, <3>2
    <2>7. w # {}
        BY <1>4
    <2>8. w \intersect DataBits = e
        <3>1. \A k \in image : k \notin DataBits
            BY <2>2
        <3>. QED
            BY <3>1
    <2>9. {r \in 0..(EccBits - 1) : -1 - r \in w} = c
        <3> HIDE DEF w
        <3>1. \A r \in 0..(EccBits - 1) : -1 - r \in w <=> r \in c
            BY <2>5
        <3>. QED
            BY <3>1, Zenon
    <2>10. w \in ErrorPatterns
        BY <2>3, <2>4, <2>6, <2>7, IsPattern
    <2> HIDE DEF w
    <2>. QED
        BY <2>8, <2>9, <2>10, BchAssumption
<1>. QED
    BY <1>3, <1>4

(* Multiples and quotients: of bits to a step, steps to a page, bytes to a step. *)

\* Multiples grow with what is multiplied, by n at least.
LEMMA Scale ==
    ASSUME NEW n \in Nat, n > 0, NEW a \in Int, NEW b \in Int
    PROVE  /\ a * n \in Int /\ (a >= 0 => a * n >= 0)
           /\ (a + 1) * n = a * n + n
           /\ a < b => a * n + n <= b * n
           /\ a <= b => a * n <= b * n
<1>1. a * n \in Int /\ b * n \in Int
    OBVIOUS
<1>2. (a + 1) * n = a * n + n
    BY Z3
<1>3. ASSUME a <= b PROVE a * n <= b * n
    BY <1>3, Z3
<1>4. ASSUME a < b PROVE a * n + n <= b * n
    <2>1. a + 1 <= b
        BY <1>4
    <2>2. (a + 1) * n <= b * n
        BY <2>1, Z3
    <2>. QED
        BY <2>2, <1>2
<1>5. ASSUME a >= 0 PROVE a * n >= 0
    BY <1>5, Z3
<1>. QED
    BY <1>1, <1>2, <1>3, <1>4, <1>5

\* a lies between two multiples of n, the lower of them a \div n times.
LEMMA Quotient ==
    ASSUME NEW n \in Nat, n > 0, NEW a \in Nat
    PROVE  /\ a \div n \in Nat /\ (a \div n) * n \in Nat
           /\ (a \div n) * n <= a /\ a < (a \div n) * n + n
           /\ a % n = a - (a \div n) * n
<1>0. a \div n \in Nat /\ n * (a \div n) <= a /\ a < n * (a \div n) + n
    BY Z3
<1>1. a % n = a - n * (a \div n)
    BY Z3
<1>2. n * (a \div n) = (a \div n) * n
    BY <1>0, Z3
<1>3. (a \div n) * n \in Nat
    BY <1>0, Z3
<1>. QED
    BY <1>0, <1>1, <1>2, <1>3

\* Which says what the quotient is.
LEMMA IsQuotient ==
    ASSUME NEW n \in Nat, n > 0, NEW a \in Nat, NEW q \in Int,
           q * n <= a, a < q * n + n
    PROVE  a \div n = q
<1> DEFINE d == a \div n
<1>1. d \in Nat /\ d * n \in Nat /\ d * n <= a /\ a < d * n + n
    BY Quotient
<1> HIDE DEF d
<1>2. q * n \in Int /\ (d < q => d * n + n <= q * n) /\ (q < d => q * n + n <= d * n)
    BY <1>1, Scale
<1>3. d = q
    BY <1>1, <1>2
<1>. QED
    BY <1>3 DEF d

\* Quotients grow with what is divided.
LEMMA QuotientGrows ==
    ASSUME NEW n \in Nat, n > 0, NEW a \in Nat, NEW b \in Nat, a <= b
    PROVE  a \div n <= b \div n
<1> DEFINE p == a \div n  q == b \div n
<1>1. /\ p \in Nat /\ p * n \in Nat /\ p * n <= a /\ a < p * n + n
      /\ q \in Nat /\ q * n \in Nat /\ q * n <= b /\ b < q * n + n
    BY Quotient
<1> HIDE DEF p, q
<1>2. q < p => q * n + n <= p * n
    BY <1>1, Scale
<1>3. p <= q
    BY <1>1, <1>2
<1>. QED
    BY <1>3 DEF p, q

(* Bits, steps and pages. *)

\* A bit of a step has one place in the flash.
LEMMA BitPlace ==
    ASSUME NEW s \in Int, NEW t \in Int, NEW j \in DataBits, NEW k \in DataBits
    PROVE  /\ s * StepBits + j \in Int
           /\ s >= 0 => s * StepBits + j \in Nat
           /\ s * StepBits + j = t * StepBits + k <=> s = t /\ j = k
           /\ s < t => s * StepBits + j < t * StepBits
<1> USE SizesHold DEF Sizes
<1>1. /\ s * StepBits \in Int /\ t * StepBits \in Int
      /\ s >= 0 => s * StepBits >= 0
      /\ s < t => s * StepBits + StepBits <= t * StepBits
      /\ t < s => t * StepBits + StepBits <= s * StepBits
    BY Scale
<1>2. j \in Nat /\ k \in Nat /\ j < StepBits /\ k < StepBits
    OBVIOUS
<1> DEFINE S == s * StepBits  T == t * StepBits
<1>3. s = t => S = T
    OBVIOUS
<1>4. s = t \/ s < t \/ t < s
    OBVIOUS
<1> HIDE DEF S, T
<1>5. /\ S \in Int /\ T \in Int /\ (s >= 0 => S >= 0)
      /\ (s < t => S + StepBits <= T) /\ (t < s => T + StepBits <= S)
    BY <1>1 DEF S, T
<1>6. /\ S + j \in Int /\ (s >= 0 => S + j \in Nat)
      /\ S + j = T + k <=> s = t /\ j = k
      /\ s < t => S + j < T
    BY <1>2, <1>3, <1>4, <1>5
<1>. QED
    BY <1>6 DEF S, T

\* The bits of a step are in the range of its page and in that of no other.
LEMMA BitInPage ==
    ASSUME NEW s \in Nat, NEW k \in DataBits, NEW p \in Nat
    PROVE  /\ s \div NSteps \in Nat
           /\ s * StepBits + k \in PageRange(p) <=> s \div NSteps = p
           /\ s \div NSteps >= p <=> s * StepBits + k >= p * PageBits
           /\ PageBits \in Nat /\ p * PageBits \in Nat
<1> USE SizesHold DEF Sizes
<1> DEFINE q == s \div NSteps  b == s * StepBits + k
<1>1. q \in Nat /\ q * NSteps \in Nat /\ q * NSteps <= s /\ s < q * NSteps + NSteps
    BY Quotient
<1>2. PageBits \in Nat /\ PageBits > 0
    BY Z3 DEF PageBits
<1>3. p * PageBits \in Nat /\ q * PageBits \in Nat
    BY <1>1, <1>2, Z3
<1>4. (q * NSteps) * StepBits = q * PageBits
    BY <1>1, Z3 DEF PageBits
<1>5. (q * NSteps) * StepBits <= s * StepBits
    BY <1>1, Scale
<1>6. s * StepBits + StepBits <= (q * NSteps + NSteps) * StepBits
    BY <1>1, Scale
<1>7. (q * NSteps + NSteps) * StepBits = q * PageBits + PageBits
    BY <1>1, Z3 DEF PageBits
<1>8. k \in Nat /\ k < StepBits /\ s * StepBits \in Nat
    BY Scale
<1>9. b \in Nat /\ q * PageBits <= b /\ b < q * PageBits + PageBits
    BY <1>3, <1>4, <1>5, <1>6, <1>7, <1>8
<1>10. /\ p < q => p * PageBits + PageBits <= q * PageBits
       /\ q < p => q * PageBits + PageBits <= p * PageBits
    BY <1>1, <1>2, Scale
<1> HIDE DEF q, b
<1>11. b \in PageRange(p) <=> q = p
    BY <1>1, <1>2, <1>3, <1>9, <1>10 DEF PageRange
<1>12. q >= p <=> b >= p * PageBits
    BY <1>1, <1>2, <1>3, <1>9, <1>10
<1>. QED
    BY <1>1, <1>2, <1>3, <1>11, <1>12 DEF q, b

\* The least and the greatest of a set.
LEMMA MinIs ==
    ASSUME NEW S \in SUBSET Int, NEW x \in S, \A y \in S : x <= y
    PROVE  Min(S) = x
<1> DEFINE least(m) == m \in S /\ \A y \in S : m <= y
<1>1. least(x)
    OBVIOUS
<1>2. \A m : least(m) => m = x
    OBVIOUS
<1>. QED
    BY <1>1, <1>2 DEF Min

LEMMA MaxIs ==
    ASSUME NEW S \in SUBSET Int, NEW x \in S, \A y \in S : y <= x
    PROVE  Max(S) = x
<1> DEFINE most(m) == m \in S /\ \A y \in S : m >= y
<1>1. most(x)
    OBVIOUS
<1>2. \A m : most(m) => m = x
    OBVIOUS
<1>. QED
    BY <1>1, <1>2 DEF Max

\* The greater of two numbers.
LEMMA MaxOfTwo ==
    ASSUME NEW a \in Int, NEW b \in Int
    PROVE  Max({a, b}) = IF a >= b THEN a ELSE b
<1>1. {a, b} \in SUBSET Int
    OBVIOUS
<1>2. CASE a >= b
    <2>1. a \in {a, b} /\ \A y \in {a, b} : y <= a
        BY <1>2
    <2>. QED
        BY <1>1, <1>2, <2>1, MaxIs
<1>3. CASE ~(a >= b)
    <2>1. b \in {a, b} /\ \A y \in {a, b} : y <= b
        BY <1>3
    <2>. QED
        BY <1>1, <1>3, <2>1, MaxIs
<1>. QED
    BY <1>2, <1>3

(* The steps and pages of a call. *)

FirstStep(c) == c[1] \div SizeStep
LastStep(c)  == (c[1] + c[2] - 1) \div SizeStep

\* The steps of a call are steps of the flash, and no bit of the call is outside.
LEMMA CallSteps ==
    ASSUME NEW c \in Calls
    PROVE  /\ c \in Nat \X Nat /\ c[1] \in Nat /\ c[2] \in Nat /\ c[2] > 0
           /\ FirstStep(c) \in Nat /\ LastStep(c) \in Nat /\ FirstStep(c) <= LastStep(c)
           /\ StepsOf(c) = FirstStep(c)..LastStep(c)
           /\ StepsOf(c) \subseteq Steps /\ Steps \subseteq Nat
           /\ \A s \in Nat, k \in DataBits :
                 s * StepBits + k \in Window(c) => s \in StepsOf(c)
<1> USE SizesHold DEF Sizes
<1> DEFINE a == c[1]  b == c[1] + c[2] - 1  n == SizeStep  M == NPages * NSteps
<1>1. /\ c \in Nat \X Nat /\ a \in Nat /\ c[2] \in Nat /\ c[2] > 0
      /\ a + c[2] <= NPages * NSteps * SizeStep
    BY EccAssumption
<1>2. n \in Nat /\ n > 0
    OBVIOUS
<1>3. b \in Nat /\ a <= b
    BY <1>1
<1>4. M \in Nat /\ M * n \in Nat /\ b < M * n
    <2>1. M \in Nat
        OBVIOUS
    <2>2. M * n \in Nat
        BY <2>1
    <2>. QED
        BY <2>1, <2>2, <1>1
<1>5. /\ FirstStep(c) \in Nat /\ FirstStep(c) * n <= a /\ a < FirstStep(c) * n + n
      /\ FirstStep(c) * n \in Nat
    BY <1>1, <1>2, Quotient DEF FirstStep
<1>6. /\ LastStep(c) \in Nat /\ LastStep(c) * n <= b /\ b < LastStep(c) * n + n
      /\ LastStep(c) * n \in Nat
    BY <1>2, <1>3, Quotient DEF LastStep
<1>7. FirstStep(c) <= LastStep(c)
    BY <1>1, <1>2, <1>3, QuotientGrows DEF FirstStep, LastStep
<1>8. LastStep(c) < M
    <2> HIDE DEF M
    <2>1. M <= LastStep(c) => M * n <= LastStep(c) * n
        BY <1>2, <1>4, <1>6, Scale
    <2>. QED
        BY <1>3, <1>4, <1>6, <2>1
<1>9. StepsOf(c) = FirstStep(c)..LastStep(c)
    BY DEF StepsOf, FirstStep, LastStep
<1>10. StepsOf(c) \subseteq Steps /\ Steps \subseteq Nat
    <2>1. Steps = 0..(M - 1)
        BY DEF Steps
    <2>2. M \in Nat /\ FirstStep(c) \in Nat /\ LastStep(c) \in Nat /\ LastStep(c) < M
        BY <1>4, <1>5, <1>6, <1>8
    <2> HIDE DEF M
    <2>3. FirstStep(c)..LastStep(c) \subseteq 0..(M - 1) /\ 0..(M - 1) \subseteq Nat
        BY <2>2, SMT
    <2>. QED
        BY <2>1, <2>3, <1>9
<1>11. ASSUME NEW s \in Nat, NEW k \in DataBits, s * StepBits + k \in Window(c)
       PROVE  s \in StepsOf(c)
    <2>1. s * n \in Nat /\ s * StepBits = 8 * (s * n)
        BY <1>2, Z3
    <2>2. 8 * a <= 8 * (s * n) + k /\ 8 * (s * n) + k <= 8 * (a + c[2]) - 1
        BY <1>11, <2>1, <1>1 DEF Window
    <2>3. k \in Nat /\ k < 8 * n
        OBVIOUS
    <2> DEFINE S == s * n
    <2> HIDE DEF S
    <2>4. a < S + n /\ S <= b /\ S \in Nat
        BY <2>1, <2>2, <2>3, <1>1, <1>2 DEF S
    <2>5. s < FirstStep(c) => S + n <= FirstStep(c) * n
        BY <1>2, <1>5, Scale DEF S
    <2>6. LastStep(c) < s => LastStep(c) * n + n <= S
        BY <1>2, <1>6, Scale DEF S
    <2>7. FirstStep(c) <= s /\ s <= LastStep(c)
        BY <2>4, <2>5, <2>6, <1>1, <1>2, <1>3, <1>5, <1>6
    <2>. QED
        BY <2>7, <1>5, <1>6, <1>9
<1>. QED
    BY <1>1, <1>5, <1>6, <1>7, <1>9, <1>10, <1>11

\* The pages of a call are those from its first step to its last.
LEMMA CallPages ==
    ASSUME NEW c \in Calls
    PROVE  LET p == FirstStep(c) \div NSteps  q == LastStep(c) \div NSteps
           IN  /\ p \in Nat /\ q \in Nat /\ p <= q
               /\ PagesOf(c) = p..q /\ Min(PagesOf(c)) = p /\ Max(PagesOf(c)) = q
               /\ \A s \in StepsOf(c) : s \div NSteps \in PagesOf(c)
<1> USE SizesHold DEF Sizes
<1> DEFINE f == FirstStep(c)  l == LastStep(c)  N == NSteps  p == f \div N  q == l \div N
<1>1. f \in Nat /\ l \in Nat /\ f <= l /\ StepsOf(c) = f..l
    BY CallSteps
<1> HIDE DEF f, l
<1>2. /\ p \in Nat /\ p * N \in Nat /\ p * N <= f /\ f < p * N + N
      /\ q \in Nat /\ q * N \in Nat /\ q * N <= l /\ l < q * N + N
    BY <1>1, Quotient
<1>3. p <= q
    BY <1>1, QuotientGrows
<1>4. ASSUME NEW s \in f..l PROVE s \div N \in Nat /\ p <= s \div N /\ s \div N <= q
    <2>1. s \in Nat /\ f <= s /\ s <= l
        BY <1>1
    <2>. QED
        BY <1>1, <2>1, Quotient, QuotientGrows
<1>4a. f \div N = p /\ l \div N = q
    OBVIOUS
<1> HIDE DEF p, q
<1>5. ASSUME NEW i \in p..q PROVE \E s \in f..l : s \div N = i
    <2>1. CASE i = p
        BY <1>1, <1>4a, <2>1
    <2>2. CASE i # p
        <3>1. i \in Nat /\ p < i /\ i <= q
            BY <1>2, <2>2
        <3>2. p * N + N <= i * N /\ i * N <= q * N /\ i * N \in Int
            BY <1>2, <3>1, Scale
        <3>3. i * N \in Nat /\ i * N <= i * N /\ i * N < i * N + N
            BY <1>2, <3>2
        <3>4. (i * N) \div N = i
            BY <3>1, <3>3, IsQuotient
        <3>5. i * N \in f..l
            <4> DEFINE I == i * N  P == p * N  Q == q * N
            <4>1. I \in Nat /\ P + N <= I /\ I <= Q
                BY <3>2, <3>3
            <4>2. P \in Nat /\ Q \in Nat /\ f < P + N /\ Q <= l
                BY <1>2
            <4> HIDE DEF I, P, Q
            <4>3. f <= I /\ I <= l
                BY <1>1, <4>1, <4>2
            <4>4. I \in f..l
                BY <1>1, <4>1, <4>3
            <4>. QED
                BY <4>4 DEF I
        <3>. QED
            BY <3>4, <3>5
    <2>. QED
        BY <2>1, <2>2
<1>6. PagesOf(c) = p..q
    <2>1. PagesOf(c) = {s \div N : s \in f..l}
        BY <1>1 DEF PagesOf
    <2>2. \A s \in f..l : s \div N \in p..q
        BY <1>2, <1>4
    <2>. QED
        BY <2>1, <2>2, <1>5
<1>7. Min(p..q) = p /\ Max(p..q) = q
    <2>1. p..q \in SUBSET Int /\ p \in p..q /\ q \in p..q
        BY <1>2, <1>3
    <2>2. \A y \in p..q : p <= y /\ y <= q
        OBVIOUS
    <2>. QED
        BY <2>1, <2>2, MinIs, MaxIs
<1>8. \A s \in StepsOf(c) : s \div N \in PagesOf(c)
    BY DEF PagesOf
<1>. QED
    BY <1>2, <1>3, <1>6, <1>7, <1>8 DEF p, q, f, l

(* The inductive invariant: the cells, and the read in progress. *)

\* What was meant is data with its own ECC, unless a step was programmed twice.
CellsOK ==
    /\ data \in [Steps -> SUBSET DataBits] /\ code \in [Steps -> SUBSET EccByteBits]
    /\ meant = [data |-> meant.data, code |-> meant.code]
    /\ meant.data \in [Steps -> SUBSET DataBits]
    /\ meant.code \in [Steps -> SUBSET EccByteBits]
    /\ times \in [Steps -> 0..2]
    /\ \A s \in Steps : times[s] <= 1 => meant.code[s] = Calc(meant.data[s])
    /\ \A s \in Steps :
          times[s] = 0 => meant.data[s] = DataBits /\ meant.code[s] = EccByteBits

\* The fields of a read.
IsRead(r) ==
    r = [call |-> r.call, page |-> r.page, step |-> r.step, buf |-> r.buf,
         out |-> r.out, beyond |-> r.beyond, heap |-> r.heap,
         uncorrectable |-> r.uncorrectable, max |-> r.max,
         corrected |-> r.corrected, top |-> r.top]
ReadTyped(r) ==
    /\ IsRead(r)
    /\ r.call \in Calls /\ r.page \in Nat /\ r.buf \subseteq Nat
    /\ r.max \in 0..Strength /\ r.corrected \in Nat

\* How far it is: the page, and the steps of it that are corrected.
Lowest(r) == Min(Here(r))
ReadPlace(p, r) ==
    /\ p \in {"page", "correct"} => r.page \in PagesOf(r.call)
    /\ p = "correct" =>
          /\ r.step \in Nat /\ Lowest(r) <= r.step
          /\ \A h \in Lowest(r)..(r.step - 1) : h \in Here(r)
    /\ p = "done" => r.page = Max(PagesOf(r.call)) + 1

\* The caller's buffer has bytes of the call, and of the pages before, alone.
OutOK(r) == r.out \subseteq Window(r.call) /\ \A b \in r.out : b < r.page * PageBits

\* The i-th step of the buffer.
BufAt(r, i) == {k \in DataBits : i * StepBits + k \in r.buf}

\* Steps not yet reached are as they came from the chip.
Unread(p, r) ==
    p = "correct" =>
        \A s \in Here(r) : r.step < s => BufAt(r, s - Lowest(r)) = data[s]

\* Steps that can be relied on are right once corrected; the one whose turn it is
\* differs from the chip by no more bits than the step before it may upset.
Delivered(r, good) ==
    \A s \in good \intersect StepsOf(r.call) :
        s \div NSteps < r.page =>
            InStep(s, r.out) = meant.data[s] \intersect InStep(s, Window(r.call))
Corrected(r, good) ==
    \A s \in good \intersect Here(r) :
        s < r.step => BufAt(r, s - Lowest(r)) = meant.data[s]
UpsetOnce(r, good) ==
    \A s \in good \intersect Here(r) :
        s = r.step =>
            \E u \in SUBSET DataBits :
                /\ Cardinality(u) <= Upset(r.call, good, s)
                /\ BufAt(r, s - Lowest(r)) = SymDiff(data[s], u)
Right(p, r) ==
    \A good \in SUBSET Steps :
        Reliable(r.call, good) =>
            /\ Delivered(r, good)
            /\ p = "correct" => Corrected(r, good) /\ UpsetOnce(r, good)

\* What was counted so far, when no ECC byte is wrong, and that nothing is written
\* outside the buffer.
Past(p, r) ==
    {s \in StepsOf(r.call) :
        \/ s \div NSteps < r.page
        \/ p = "correct" /\ s \div NSteps = r.page /\ s < r.step}
Counted(p, r) ==
    /\ r.uncorrectable = FALSE
    /\ r.corrected = Cardinality(WrongBits(Past(p, r)))
    /\ \A s \in Past(p, r) : Wrong(s) <= r.max
    /\ r.max = 0 \/ \E s \in Past(p, r) : Wrong(s) = r.max
Inside(p, r) ==
    /\ r.beyond = {} /\ r.heap = FALSE /\ r.top \in 0..Strength
    /\ p = "correct" =>
          \A b \in r.buf :
              \E s \in Here(r), k \in DataBits : b = (s - Lowest(r)) * StepBits + k

ReadOK(p, r) ==
    /\ ReadTyped(r) /\ ReadPlace(p, r) /\ OutOK(r) /\ Unread(p, r) /\ Right(p, r)
    /\ EccBytesRight(r.call) => Counted(p, r) /\ Inside(p, r)

IInv ==
    /\ CellsOK
    /\ pc \in {"idle", "page", "correct", "done"}
    /\ pc = "idle" => result = NoResult
    /\ pc # "idle" => ReadOK(pc, result)

(* The steps of the page that is being read. *)

\* They are consecutive; a step but the first of them follows one of the call in
\* the same page, and the first does not.
LEMMA HereFacts ==
    ASSUME NEW r, r.call \in Calls, r.page \in PagesOf(r.call)
    PROVE  /\ r.page \in Nat /\ Lowest(r) \in Nat /\ Lowest(r) \in Here(r)
           /\ Here(r) \subseteq StepsOf(r.call)
           /\ StepsOf(r.call) \subseteq Steps /\ Steps \subseteq Nat
           /\ \E hi \in Nat : /\ Lowest(r) <= hi /\ Here(r) = Lowest(r)..hi
                              /\ hi - Lowest(r) < NSteps
           /\ Lowest(r) % NSteps = 0 \/ Lowest(r) - 1 \notin StepsOf(r.call)
           /\ \A s \in Here(r) : s # Lowest(r) => s % NSteps # 0 /\ s - 1 \in Here(r)
<1> USE SizesHold DEF Sizes
<1> DEFINE c == r.call  f == FirstStep(c)  l == LastStep(c)  N == NSteps  p == r.page
           P == p * N
           lo == IF f >= P THEN f ELSE P
           hi == IF l <= P + N - 1 THEN l ELSE P + N - 1
<1>1. /\ f \in Nat /\ l \in Nat /\ f <= l /\ StepsOf(c) = f..l
      /\ StepsOf(c) \subseteq Steps /\ Steps \subseteq Nat
    BY CallSteps
<1>2. p \in (f \div N)..(l \div N) /\ f \div N \in Nat /\ l \div N \in Nat
    BY CallPages
<1> HIDE DEF f, l
<1>3. p \in Nat /\ f \div N <= p /\ p <= l \div N
    BY <1>2
<1>4. P \in Nat
    BY <1>3, Scale
<1>5. /\ (f \div N) * N \in Nat /\ f < (f \div N) * N + N
      /\ (l \div N) * N \in Nat /\ (l \div N) * N <= l
    BY <1>1, Quotient
<1>6. (f \div N) * N <= P /\ P <= (l \div N) * N
    BY <1>2, <1>3, Scale
<1>7. f < P + N /\ P <= l
    <2> HIDE DEF P
    <2>. QED
        BY <1>1, <1>4, <1>5, <1>6
<1>8. ASSUME NEW s \in Nat PROVE s \div N = p <=> P <= s /\ s < P + N
    <2>1. ASSUME P <= s, s < P + N PROVE s \div N = p
        <3>1. p \in Int /\ p * N <= s /\ s < p * N + N
            BY <1>3, <2>1
        <3>. QED
            BY <3>1, IsQuotient
    <2>2. (s \div N) * N <= s /\ s < (s \div N) * N + N
        BY Quotient
    <2>. QED
        BY <2>1, <2>2
<1>8a. P % N = 0
    <2>1. P \div N = p
        <3>1. p \in Int /\ P <= P /\ P < P + N
            BY <1>3, <1>4
        <3>. QED
            BY <1>4, <3>1, IsQuotient
    <2>2. P % N = P - (P \div N) * N
        BY <1>4, Quotient
    <2>. QED
        BY <1>4, <2>1, <2>2
<1>8b. ASSUME NEW s \in Nat, P < s, s < P + N PROVE s % N # 0
    <2>1. s % N = s - (s \div N) * N
        BY Quotient
    <2>2. s \div N = p
        BY <1>4, <1>8, <1>8b
    <2>. QED
        BY <1>4, <1>8b, <2>1, <2>2
<1> HIDE DEF P
<1>9. lo \in Nat /\ hi \in Nat /\ lo <= hi /\ hi - lo < N /\ f <= lo /\ P <= lo /\ hi < P + N
    BY <1>1, <1>4, <1>7
<1>10. Here(r) = lo..hi
    <2>1. ASSUME NEW s \in f..l PROVE s \div N = p <=> s \in lo..hi
        BY <1>1, <1>4, <1>8
    <2>2. lo..hi \subseteq f..l
        BY <1>1, <1>4, <1>7
    <2>. QED
        BY <1>1, <2>1, <2>2 DEF Here
<1>11. lo % N = 0 \/ lo - 1 \notin StepsOf(c)
    BY <1>1, <1>8a, <1>4
<1> HIDE DEF lo, hi
<1>12. Lowest(r) = lo
    <2>1. lo..hi \in SUBSET Int /\ lo \in lo..hi /\ \A y \in lo..hi : lo <= y
        BY <1>9
    <2>. QED
        BY <1>10, <2>1, MinIs DEF Lowest
<1>13. ASSUME NEW s \in Here(r), s # lo PROVE s % N # 0 /\ s - 1 \in Here(r)
    <2>1. s \in Nat /\ lo < s /\ s <= hi
        BY <1>9, <1>10, <1>13
    <2>2. P < s /\ s < P + N /\ s - 1 \in lo..hi
        BY <1>4, <1>9, <2>1
    <2>. QED
        BY <1>8b, <1>10, <2>1, <2>2
<1>14. Here(r) \subseteq StepsOf(c) /\ lo \in Here(r)
    BY <1>9, <1>10 DEF Here
<1>. QED
    BY <1>1, <1>3, <1>9, <1>10, <1>11, <1>12, <1>13, <1>14

\* What decoding the steps before it may change in a step of the page.
LEMMA UpsetIs ==
    ASSUME NEW r, r.call \in Calls, r.page \in PagesOf(r.call), NEW good,
           NEW s \in Here(r)
    PROVE  /\ s = Lowest(r) => Upset(r.call, good, s) = 0
           /\ s # Lowest(r) =>
                 Upset(r.call, good, s) =
                    IF s - 1 \in good THEN Cardinality(WrongCode(s - 1)) ELSE Strength
BY HereFacts DEF Upset
(* The buffer. *)

\* Filled from its start with the steps of the page.
LEMMA BufferLoaded ==
    ASSUME NEW r, r.call \in Calls, r.page \in PagesOf(r.call),
           data \in [Steps -> SUBSET DataBits], NEW s \in Here(r)
    PROVE  BufAt(Loaded(r), s - Lowest(r)) = data[s]
<1> DEFINE buf == UNION {{(h - Lowest(r)) * StepBits + k : k \in data[h]} : h \in Here(r)}
<1>1. Loaded(r).buf = buf
    BY DEF Loaded, Unshifted, Shifted, Lowest
<1>2. \A h \in Here(r) : h \in Int /\ data[h] \subseteq DataBits /\ h - Lowest(r) \in Int
    BY HereFacts
<1>3. ASSUME NEW k \in DataBits
      PROVE  (s - Lowest(r)) * StepBits + k \in buf <=> k \in data[s]
    <2>1. ASSUME NEW h \in Here(r), NEW j \in data[h],
                 (s - Lowest(r)) * StepBits + k = (h - Lowest(r)) * StepBits + j
          PROVE  k \in data[s]
        <3>1. s - Lowest(r) = h - Lowest(r) /\ k = j
            BY <1>2, <2>1, BitPlace
        <3>2. s = h
            BY <1>2, <3>1, HereFacts
        <3>. QED
            BY <3>1, <3>2
    <2>. QED
        BY <2>1
<1> HIDE DEF buf
<1>4. BufAt(Loaded(r), s - Lowest(r)) = {k \in DataBits : k \in data[s]}
    BY <1>1, <1>3 DEF BufAt
<1>. QED
    BY <1>2, <1>4

\* And nothing else.
LEMMA BufferFilled ==
    ASSUME NEW r, r.call \in Calls, r.page \in PagesOf(r.call),
           data \in [Steps -> SUBSET DataBits], NEW b \in Loaded(r).buf
    PROVE  /\ b \in Nat
           /\ \E s \in Here(r), k \in DataBits : b = (s - Lowest(r)) * StepBits + k
<1>1. PICK s \in Here(r) : \E k \in data[s] : b = (s - Lowest(r)) * StepBits + k
    BY DEF Loaded, Unshifted, Shifted, Lowest
<1>2. s - Lowest(r) \in Int /\ s - Lowest(r) >= 0 /\ s \in Steps
    <2>1. PICK hi \in Nat : Here(r) = Lowest(r)..hi
        BY HereFacts
    <2>2. Lowest(r) \in Nat /\ s \in Steps
        BY HereFacts
    <2>. QED
        BY <2>1, <2>2
<1>3. data[s] \subseteq DataBits
    BY <1>2
<1>. QED
    BY <1>1, <1>2, <1>3, BitPlace

\* The buffer of q is that of r but for bits counted from the start of its i-th step,
\* of which some are in the step behind.
Inverted(r, q, i, flips) ==
    \A b : b \in q.buf <=> ~(b \in r.buf <=> \E k \in flips : b = i * StepBits + k)
Behind(flips) == {k \in DataBits : StepBits + k \in flips}

ChangedSteps(r, q, i, flips) ==
    /\ BufAt(q, i) = SymDiff(BufAt(r, i), flips \intersect DataBits)
    /\ BufAt(q, i + 1) = SymDiff(BufAt(r, i + 1), Behind(flips))
    /\ \A j \in Int : j # i /\ j # i + 1 => BufAt(q, j) = BufAt(r, j)

\* Inverting bits counted from the start of the i-th step inverts those of it that
\* are data, and the others in the step behind it.
LEMMA BufferInverted ==
    ASSUME NEW r, NEW q, NEW i \in Nat, NEW flips \in SUBSET (0..(2 * StepBits - 1)),
           Inverted(r, q, i, flips)
    PROVE  ChangedSteps(r, q, i, flips)
<1> USE SizesHold DEF Sizes
<1> DEFINE moved == {i * StepBits + k : k \in flips}
           in(j) == {k \in DataBits : (j - i) * StepBits + k \in flips}
<1>1. ASSUME NEW j \in Int, NEW k \in DataBits
      PROVE  j * StepBits + k \in moved <=> (j - i) * StepBits + k \in flips
    <2>1. (j - i) * StepBits = j * StepBits - i * StepBits
        BY Z3
    <2>2. j * StepBits \in Int /\ i * StepBits \in Int /\ k \in Int
        OBVIOUS
    <2> DEFINE J == j * StepBits  I == i * StepBits
    <2>3. \A f \in flips : f \in Int
        OBVIOUS
    <2>4. moved = {I + f : f \in flips} /\ (j - i) * StepBits = J - I
        BY <2>1
    <2>5. J \in Int /\ I \in Int
        BY <2>2
    <2> HIDE DEF J, I, moved
    <2>6. J + k \in moved <=> (J - I) + k \in flips
        BY <2>2, <2>3, <2>4, <2>5
    <2>. QED
        BY <2>4, <2>6 DEF J
<1> HIDE DEF moved
<1>2. ASSUME NEW j \in Int PROVE BufAt(q, j) = SymDiff(BufAt(r, j), in(j))
    <2>1. \A b : b \in q.buf <=> ~(b \in r.buf <=> b \in moved)
        BY DEF moved, Inverted
    <2>2. \A k \in DataBits : j * StepBits + k \in q.buf <=>
                                 ~(j * StepBits + k \in r.buf <=> k \in in(j))
        BY <1>1, <2>1
    <2>3. in(j) \subseteq DataBits
        OBVIOUS
    <2> HIDE DEF in
    <2>4. \A k : k \in BufAt(q, j) <=> k \in DataBits /\ j * StepBits + k \in q.buf
        BY DEF BufAt
    <2>5. \A k : k \in BufAt(r, j) <=> k \in DataBits /\ j * StepBits + k \in r.buf
        BY DEF BufAt
    <2>6. \A k : k \in BufAt(q, j) <=> ((k \in BufAt(r, j)) # (k \in in(j)))
        BY <2>2, <2>3, <2>4, <2>5
    <2>7. \A k : k \in BufAt(q, j) <=> k \in SymDiff(BufAt(r, j), in(j))
        BY <2>6, InSymDiff
    <2>. QED
        BY <2>7
<1>3. in(i) = flips \intersect DataBits
    <2>1. (i - i) * StepBits = 0
        OBVIOUS
    <2>2. \A k \in DataBits : (i - i) * StepBits + k = k
        BY <2>1
    <2>. QED
        BY <2>2
<1>4. in(i + 1) = Behind(flips)
    <2>1. (i + 1 - i) * StepBits = StepBits
        OBVIOUS
    <2>. QED
        BY <2>1 DEF Behind
<1>5. ASSUME NEW j \in Int, j # i, j # i + 1 PROVE in(j) = {}
    <2>1. j - i < 0 => (j - i) * StepBits + StepBits <= 0 * StepBits
        BY Scale
    <2>2. 2 <= j - i => 2 * StepBits <= (j - i) * StepBits
        BY Scale
    <2>3. (j - i) * StepBits \in Int /\ 0 * StepBits = 0
        OBVIOUS
    <2>4. j - i < 0 \/ 2 <= j - i
        BY <1>5
    <2> DEFINE D == (j - i) * StepBits
    <2>5. D \in Int /\ (D + StepBits <= 0 \/ 2 * StepBits <= D)
        BY <2>1, <2>2, <2>3, <2>4
    <2> HIDE DEF D
    <2>6. \A k \in DataBits : D + k \notin 0..(2 * StepBits - 1)
        BY <2>5
    <2>. QED
        BY <2>6 DEF D
<1> HIDE DEF in
<1>6. \A j \in Int : j # i /\ j # i + 1 => BufAt(q, j) = BufAt(r, j)
    BY <1>2, <1>5, XorCancels
<1>7. i \in Int /\ i + 1 \in Int
    OBVIOUS
<1>8. BufAt(q, i) = SymDiff(BufAt(r, i), flips \intersect DataBits)
    BY <1>2, <1>3, <1>7
<1>9. BufAt(q, i + 1) = SymDiff(BufAt(r, i + 1), Behind(flips))
    BY <1>2, <1>4, <1>7
<1>. QED
    BY <1>6, <1>8, <1>9 DEF ChangedSteps

\* No more bits of the step behind are inverted than lie behind the data.
LEMMA BehindSize ==
    ASSUME NEW flips \in SUBSET (0..(2 * StepBits - 1))
    PROVE  LET u == Behind(flips)
           IN  /\ u \in SUBSET DataBits /\ IsFiniteSet(u)
               /\ Cardinality(u) <= Cardinality(flips \ DataBits)
               /\ Cardinality(flips) \in Nat
               /\ Cardinality(flips \ DataBits) <= Cardinality(flips)
<1> USE SizesHold DEF Sizes
<1> DEFINE u == {k \in DataBits : StepBits + k \in flips}
           behind == flips \ DataBits
           f == [b \in behind |-> b - StepBits]
<1>1. IsFiniteSet(flips) /\ Cardinality(flips) \in Nat
    <2>1. IsFiniteSet(0..(2 * StepBits - 1))
        BY FS_Interval
    <2>. QED
        BY <2>1, FS_Subset, FS_CardinalityType
<1>2. IsFiniteSet(behind) /\ Cardinality(behind) <= Cardinality(flips)
    BY <1>1, FS_Subset
<1>3. u = {f[b] : b \in behind}
    <2>1. ASSUME NEW k \in u PROVE \E b \in behind : f[b] = k
        <3>1. StepBits + k \in behind /\ f[StepBits + k] = k
            OBVIOUS
        <3>. QED
            BY <3>1
    <2>2. ASSUME NEW b \in behind PROVE f[b] \in u
        OBVIOUS
    <2> HIDE DEF u, f, behind
    <2>. QED
        BY <2>1, <2>2
<1>4. DOMAIN f = behind /\ f = [b \in behind |-> f[b]]
    OBVIOUS
<1> HIDE DEF f, behind
<1>5. IsFiniteSet(u) /\ Cardinality(u) <= Cardinality(behind)
    BY <1>2, <1>3, <1>4, ImageSize
<1>. QED
    BY <1>1, <1>2, <1>5 DEF behind, Behind
(* A step that leaves the cells alone. *)

\* The cells and a read stay what they were when no cell changes.
LEMMA Frozen ==
    ASSUME UNCHANGED cells
    PROVE  /\ CellsOK => CellsOK'
           /\ ReadOK(pc', result') => ReadOK(pc, result)'
<1>1. data' = data /\ code' = code /\ meant' = meant /\ times' = times
    BY DEF cells
<1>2. CellsOK' <=> CellsOK
    BY <1>1 DEF CellsOK
<1>3. ReadOK(pc, result)' <=> ReadOK(pc', result')
    BY <1>1 DEF ReadOK, ReadTyped, ReadPlace, OutOK, Unread, Right, Delivered, Corrected,
                IsRead, UpsetOnce, Counted, Inside, Past, EccBytesRight, Reliable, Upset, Wrong,
                WrongBits, WrongData, WrongCode, BufAt, Lowest, Here
<1>. QED
    BY <1>2, <1>3
(* Correcting a step. *)

\* The codec is given the ECC of the bits that are wrong in the buffer.
LEMMA DecodeInput ==
    ASSUME CellsOK, NEW s \in Steps, times[s] <= 1, NEW ones \in SUBSET DataBits
    PROVE  SymDiff(BchEncode(Codec, ones), SymDiff(code[s], MaskFF))
              = SymDiff(BchEncode(Codec, SymDiff(ones, meant.data[s])), WrongCode(s))
<1> DEFINE A == BchEncode(Codec, ones)  B == BchEncode(Codec, meant.data[s])
           C == code[s]  M == meant.code[s]
<1>1. meant.data[s] \in SUBSET DataBits /\ M = SymDiff(B, MaskFF)
    BY DEF CellsOK, Calc
<1>2. BchEncode(Codec, SymDiff(ones, meant.data[s])) = SymDiff(A, B)
    BY <1>1, Linear
<1>3. WrongCode(s) = SymDiff(C, M)
    BY DEF WrongCode
<1> HIDE DEF A, B, C, M
<1>4. SymDiff(A, SymDiff(C, MaskFF)) = SymDiff(SymDiff(A, B), SymDiff(C, SymDiff(B, MaskFF)))
    BY DEF SymDiff
<1>. QED
    BY <1>1, <1>2, <1>3, <1>4 DEF A, C

\* A step that can be relied on, with the bits u upset by the step before it, is
\* given back as it was meant, its errors are counted, and no more bits of the step
\* behind it are inverted than it has wrong ECC bits.
LEMMA StepCorrected ==
    ASSUME CellsOK, NEW s \in Steps, times[s] <= 1, WrongCode(s) \subseteq 0..(EccBits - 1),
           NEW u \in SUBSET DataBits, Wrong(s) + Cardinality(u) <= Strength
    PROVE  LET ones == SymDiff(data[s], u)
               d == BchDecode(Codec, SymDiff(BchEncode(Codec, ones), SymDiff(code[s], MaskFF)))
           IN  /\ SymDiff(ones, d.flips \intersect DataBits) = meant.data[s]
               /\ Cardinality(d.flips \ DataBits) <= Cardinality(WrongCode(s))
               /\ u = {} => /\ d.flips \intersect DataBits = WrongData(s)
                            /\ d.err = Wrong(s) /\ d.top \in 0..Strength
<1> DEFINE ones == SymDiff(data[s], u)  e == SymDiff(ones, meant.data[s])
           d == BchDecode(Codec, SymDiff(BchEncode(Codec, ones), SymDiff(code[s], MaskFF)))
<1>1. data[s] \in SUBSET DataBits /\ meant.data[s] \in SUBSET DataBits
    BY DEF CellsOK
<1>2. WrongData(s) \in SUBSET DataBits /\ ones \in SUBSET DataBits /\ e \in SUBSET DataBits
    BY <1>1, Linear DEF WrongData
<1>3. e = SymDiff(WrongData(s), u)
    BY DEF SymDiff, WrongData
<1>4. Cardinality(e) + Cardinality(WrongCode(s)) <= Strength
    <2>1. Cardinality(e) \in 0..(Cardinality(WrongData(s)) + Cardinality(u))
        BY <1>2, <1>3, DataFinite, XorSize
    <2>2. IsFiniteSet(WrongCode(s)) /\ Cardinality(WrongCode(s)) \in Nat
        <3>1. IsFiniteSet(0..(EccBits - 1))
            BY SizesHold, FS_Interval DEF Sizes
        <3>. QED
            BY <3>1, FS_Subset, FS_CardinalityType
    <2>3. Cardinality(WrongData(s)) \in Nat /\ Cardinality(u) \in Nat /\ Strength \in Nat
        BY <1>2, DataFinite, SizesHold DEF Sizes
    <2>4. Cardinality(WrongData(s)) + Cardinality(WrongCode(s)) + Cardinality(u) <= Strength
        BY DEF Wrong
    <2>. QED
        BY <2>1, <2>2, <2>3, <2>4
<1>5. d = BchDecode(Codec, SymDiff(BchEncode(Codec, e), WrongCode(s)))
    BY <1>2, DecodeInput
<1>6. /\ d.err = Cardinality(e) + Cardinality(WrongCode(s))
      /\ d.flips \intersect DataBits = e
      /\ Cardinality(d.flips \ DataBits) <= Cardinality(WrongCode(s))
      /\ d.top \in 0..Strength
    BY <1>2, <1>4, <1>5, DecodeWithin
<1>7. SymDiff(ones, e) = meant.data[s]
    BY XorCancels
<1>8. u = {} => e = WrongData(s)
    BY <1>3, XorCancels
<1> HIDE DEF e, d, ones
<1>9. SymDiff(ones, d.flips \intersect DataBits) = meant.data[s]
    BY <1>6, <1>7
<1>10. u = {} => d.flips \intersect DataBits = WrongData(s) /\ d.err = Wrong(s)
    BY <1>6, <1>8 DEF Wrong
<1>. QED
    BY <1>6, <1>9, <1>10 DEF ones, d
\* What the decoder is asked and answers for the step whose turn it is.
Asked(r) ==
    SymDiff(BchEncode(Codec, BufAt(r, r.step - Lowest(r))), SymDiff(code[r.step], MaskFF))
Answer(r)  == BchDecode(Codec, Asked(r))
NextOf(r)  == Correct(r, r.step, r.step - Lowest(r))

\* What correcting a step does to the buffer, and leaves of the rest.
LEMMA CorrectedBuffer ==
    ASSUME NEW r, ReadTyped(r), ReadPlace("correct", r), r.step \in Here(r)
    PROVE  LET q == NextOf(r)  d == Answer(r)  i == r.step - Lowest(r)
           IN  /\ q = [call |-> r.call, page |-> r.page, step |-> r.step + 1,
                       buf |-> SymDiff(r.buf, {i * StepBits + k : k \in d.flips}),
                       out |-> r.out, beyond |-> r.beyond, heap |-> r.heap,
                       uncorrectable |-> r.uncorrectable \/ d.err < 0,
                       max |-> Max({r.max, d.err}),
                       corrected |-> r.corrected + Max({d.err, 0}),
                       top |-> Max({r.top, d.top})]
               /\ Here(q) = Here(r) /\ Lowest(q) = Lowest(r)
               /\ i \in Nat /\ r.step \in Nat /\ r.step \in Steps
               /\ d.err \in -1..Strength /\ d.flips \in SUBSET (0..(2 * StepBits - 1))
               /\ Cardinality(d.flips) <= Strength
               /\ ChangedSteps(r, q, i, d.flips)
<1> DEFINE q == NextOf(r)  d == Answer(r)  i == r.step - Lowest(r)
           moved == {i * StepBits + k : k \in d.flips}
<1>1. r.call \in Calls /\ r.page \in PagesOf(r.call) /\ Lowest(r) <= r.step /\ r.step \in Nat
    BY DEF ReadTyped, ReadPlace
<1>2. Lowest(r) \in Nat /\ r.step \in Steps
    BY <1>1, HereFacts
<1>3. i \in Nat
    BY <1>1, <1>2
<1>4. /\ d.err \in -1..Strength /\ d.flips \subseteq 0..(2 * StepBits - 1)
      /\ Cardinality(d.flips) <= Strength
    BY DecodeAny DEF Answer
<1>5. BufAt(r, i) = {k \in DataBits : i * StepBits + k \in r.buf}
    BY DEF BufAt
<1>6. Answer(r) = BchDecode(Codec, SymDiff(BchEncode(Codec, {k \in DataBits : i * StepBits + k \in r.buf}),
                                            SymDiff(code[r.step], MaskFF)))
    BY <1>5 DEF Answer, Asked
<1>7. q = [r EXCEPT !.step = r.step + 1, !.buf = SymDiff(r.buf, moved),
                    !.uncorrectable = r.uncorrectable \/ d.err < 0,
                    !.max = Max({r.max, d.err}),
                    !.corrected = r.corrected + Max({d.err, 0}),
                    !.top = Max({r.top, d.top})]
    BY <1>6 DEF NextOf, Correct
<1> HIDE DEF q, d, i, moved
<1>8. q = [call |-> r.call, page |-> r.page, step |-> r.step + 1,
           buf |-> SymDiff(r.buf, moved),
           out |-> r.out, beyond |-> r.beyond, heap |-> r.heap,
           uncorrectable |-> r.uncorrectable \/ d.err < 0,
           max |-> Max({r.max, d.err}),
           corrected |-> r.corrected + Max({d.err, 0}),
           top |-> Max({r.top, d.top})]
    BY <1>7 DEF ReadTyped, IsRead
<1>9. Here(q) = Here(r) /\ Lowest(q) = Lowest(r)
    BY <1>8 DEF Here, Lowest
<1>10. q.buf = SymDiff(r.buf, {i * StepBits + k : k \in d.flips})
    BY <1>8 DEF moved
<1>11. ChangedSteps(r, q, i, d.flips)
    <2>1. Inverted(r, q, i, d.flips)
        BY <1>10 DEF SymDiff, Inverted
    <2>2. d.flips \in SUBSET (0..(2 * StepBits - 1))
        BY <1>4
    <2>. QED
        BY <1>3, <2>1, <2>2, BufferInverted
<1>. QED
    BY <1>1, <1>2, <1>3, <1>4, <1>8, <1>9, <1>11 DEF q, d, i, moved
\* The step of the buffer a step of the page is in.
LEMMA BufferIndex ==
    ASSUME NEW r, ReadTyped(r), r.page \in PagesOf(r.call),
           NEW s \in Here(r), NEW t \in Here(r)
    PROVE  /\ s \in Nat /\ t \in Nat /\ s \in Steps /\ s \in StepsOf(r.call)
           /\ Lowest(r) \in Nat /\ Lowest(r) <= s
           /\ s - Lowest(r) \in Nat /\ s - Lowest(r) < NSteps
           /\ (s - Lowest(r) = t - Lowest(r) <=> s = t)
           /\ (s - Lowest(r) = t - Lowest(r) + 1 <=> s = t + 1)
<1>1. r.call \in Calls
    BY DEF ReadTyped, IsRead
<1>2. PICK hi \in Nat : Lowest(r) <= hi /\ Here(r) = Lowest(r)..hi /\ hi - Lowest(r) < NSteps
    BY <1>1, HereFacts
<1>3. Lowest(r) \in Nat /\ s \in Steps /\ s \in StepsOf(r.call)
    BY <1>1, HereFacts
<1>4. s \in Lowest(r)..hi /\ t \in Lowest(r)..hi
    BY <1>2
<1>5. NSteps \in Nat
    BY SizesHold DEF Sizes
<1>. QED
    BY <1>2, <1>3, <1>4, <1>5

\* The step whose turn it is, when it can be relied on: the bits upset in it.
LEMMA TurnCorrected ==
    ASSUME CellsOK, NEW r, ReadOK("correct", r), r.step \in Here(r),
           NEW good \in SUBSET Steps, Reliable(r.call, good), r.step \in good
    PROVE  /\ BufAt(NextOf(r), r.step - Lowest(r)) = meant.data[r.step]
           /\ Cardinality(Answer(r).flips \ DataBits) <= Cardinality(WrongCode(r.step))
           /\ Upset(r.call, good, r.step) = 0 =>
                 /\ Answer(r).flips \intersect DataBits = WrongData(r.step)
                 /\ Answer(r).err = Wrong(r.step) /\ Answer(r).top \in 0..Strength
<1> DEFINE s == r.step  i == s - Lowest(r)
<1>1. ReadTyped(r) /\ ReadPlace("correct", r) /\ UpsetOnce(r, good)
    BY DEF ReadOK, Right
<1>2. s \in good \intersect Here(r) /\ s \in Steps
    OBVIOUS
<1>3. PICK u \in SUBSET DataBits : /\ Cardinality(u) <= Upset(r.call, good, s)
                                   /\ BufAt(r, i) = SymDiff(data[s], u)
    BY <1>1, <1>2 DEF UpsetOnce
<1>4. /\ times[s] <= 1 /\ WrongCode(s) \subseteq 0..(EccBits - 1)
      /\ Wrong(s) + Upset(r.call, good, s) <= Strength
    BY <1>2 DEF Reliable
<1>5. IsFiniteSet(u) /\ Cardinality(u) \in Nat
    BY DataFinite
<1>6. Wrong(s) \in Nat
    <2>1. WrongData(s) \in SUBSET DataBits
        BY <1>2, Linear DEF WrongData, CellsOK
    <2>2. IsFiniteSet(0..(EccBits - 1))
        BY SizesHold, FS_Interval DEF Sizes
    <2>3. Cardinality(WrongCode(s)) \in Nat
        BY <1>4, <2>2, FS_Subset, FS_CardinalityType
    <2>. QED
        BY <2>1, <2>3, DataFinite DEF Wrong
<1>7. Upset(r.call, good, s) \in Int
    <2>1. Strength \in Int
        BY SizesHold DEF Sizes
    <2>2. s - 1 \in StepsOf(r.call) /\ s - 1 \in good =>
             WrongCode(s - 1) \subseteq 0..(EccBits - 1)
        BY DEF Reliable
    <2>3. IsFiniteSet(0..(EccBits - 1))
        BY SizesHold, FS_Interval DEF Sizes
    <2>4. s - 1 \in StepsOf(r.call) /\ s - 1 \in good => Cardinality(WrongCode(s - 1)) \in Nat
        BY <2>2, <2>3, FS_Subset, FS_CardinalityType
    <2>. QED
        BY <2>1, <2>4 DEF Upset
<1>8. Wrong(s) + Cardinality(u) <= Strength
    <2>1. Strength \in Int
        BY SizesHold DEF Sizes
    <2>. QED
        BY <1>3, <1>4, <1>5, <1>6, <1>7, <2>1
<1>9. Answer(r) = BchDecode(Codec, SymDiff(BchEncode(Codec, SymDiff(data[s], u)), SymDiff(code[s], MaskFF)))
    BY <1>3 DEF Answer, Asked
<1>10. /\ SymDiff(SymDiff(data[s], u), Answer(r).flips \intersect DataBits) = meant.data[s]
       /\ Cardinality(Answer(r).flips \ DataBits) <= Cardinality(WrongCode(s))
       /\ u = {} => /\ Answer(r).flips \intersect DataBits = WrongData(s)
                    /\ Answer(r).err = Wrong(s) /\ Answer(r).top \in 0..Strength
    BY <1>2, <1>4, <1>8, <1>9, StepCorrected
<1>11. BufAt(NextOf(r), i) = SymDiff(BufAt(r, i), Answer(r).flips \intersect DataBits)
    BY <1>1, CorrectedBuffer DEF ChangedSteps
<1>12. Upset(r.call, good, s) = 0 => u = {}
    BY <1>3, <1>5, FS_EmptySet
<1>. QED
    BY <1>3, <1>10, <1>11, <1>12
\* The fields that say where the read is.
LEMMA NextFields ==
    ASSUME NEW r, ReadTyped(r), ReadPlace("correct", r), r.step \in Here(r)
    PROVE  /\ NextOf(r).call = r.call /\ NextOf(r).page = r.page
           /\ NextOf(r).step = r.step + 1 /\ NextOf(r).out = r.out
<1> DEFINE q == NextOf(r)  d == Answer(r)  i == r.step - Lowest(r)
<1>1. q = [call |-> r.call, page |-> r.page, step |-> r.step + 1,
           buf |-> SymDiff(r.buf, {i * StepBits + k : k \in d.flips}),
           out |-> r.out, beyond |-> r.beyond, heap |-> r.heap,
           uncorrectable |-> r.uncorrectable \/ d.err < 0,
           max |-> Max({r.max, d.err}),
           corrected |-> r.corrected + Max({d.err, 0}),
           top |-> Max({r.top, d.top})]
    BY CorrectedBuffer
<1> HIDE DEF q, d, i
<1>2. q.call = r.call /\ q.page = r.page /\ q.step = r.step + 1 /\ q.out = r.out
    BY <1>1
<1>. QED
    BY <1>2 DEF q

\* The other parts of the invariant when a step is corrected.
LEMMA CorrectedPlace ==
    ASSUME NEW r, ReadOK("correct", r), r.step \in Here(r)
    PROVE  LET q == NextOf(r)
           IN  ReadTyped(q) /\ ReadPlace("correct", q) /\ OutOK(q) /\ Unread("correct", q)
<1> DEFINE q == NextOf(r)  d == Answer(r)  i == r.step - Lowest(r)
<1>1. ReadTyped(r) /\ ReadPlace("correct", r) /\ OutOK(r) /\ Unread("correct", r)
    BY DEF ReadOK
<1>2. /\ q = [call |-> r.call, page |-> r.page, step |-> r.step + 1,
              buf |-> SymDiff(r.buf, {i * StepBits + k : k \in d.flips}),
              out |-> r.out, beyond |-> r.beyond, heap |-> r.heap,
              uncorrectable |-> r.uncorrectable \/ d.err < 0,
              max |-> Max({r.max, d.err}),
              corrected |-> r.corrected + Max({d.err, 0}),
              top |-> Max({r.top, d.top})]
      /\ Here(q) = Here(r) /\ Lowest(q) = Lowest(r)
      /\ i \in Nat /\ r.step \in Nat /\ r.step \in Steps
      /\ d.err \in -1..Strength /\ d.flips \in SUBSET (0..(2 * StepBits - 1))
      /\ ChangedSteps(r, q, i, d.flips)
    BY <1>1, CorrectedBuffer
<1> HIDE DEF q, d, i
<1>3. r.call \in Calls /\ r.page \in Nat /\ r.buf \subseteq Nat /\ r.max \in 0..Strength
      /\ r.corrected \in Nat /\ r.page \in PagesOf(r.call)
    BY <1>1 DEF ReadTyped, ReadPlace
<1>4. q.buf \subseteq Nat
    <2>1. \A k \in d.flips : i * StepBits + k \in Nat
        BY <1>2, SizesHold DEF Sizes
    <2>. QED
        BY <1>2, <1>3, <2>1 DEF SymDiff
<1>5. q.max \in 0..Strength /\ q.corrected \in Nat
    <2>1. Max({r.max, d.err}) = IF r.max >= d.err THEN r.max ELSE d.err
        BY <1>2, <1>3, MaxOfTwo
    <2>2. Max({d.err, 0}) = IF d.err >= 0 THEN d.err ELSE 0
        BY <1>2, MaxOfTwo
    <2>3. Strength \in Nat
        BY SizesHold DEF Sizes
    <2>. QED
        BY <1>2, <1>3, <2>1, <2>2, <2>3
<1>6. ReadTyped(q)
    BY <1>2, <1>3, <1>4, <1>5 DEF ReadTyped, IsRead
<1>7. ReadPlace("correct", q)
    <2>1. Lowest(r) \in Nat /\ Lowest(r) <= r.step
        BY <1>1, <1>3, HereFacts DEF ReadPlace
    <2>2. \A h \in Lowest(r)..r.step : h \in Here(r)
        <3>1. \A h \in Lowest(r)..(r.step - 1) : h \in Here(r)
            BY <1>1 DEF ReadPlace
        <3>2. \A h \in Lowest(r)..r.step : h = r.step \/ h \in Lowest(r)..(r.step - 1)
            BY <1>2, <2>1
        <3>. QED
            BY <3>1, <3>2
    <2>3. q.step = r.step + 1 /\ q.page = r.page /\ q.call = r.call /\ q.step - 1 = r.step
        BY <1>2
    <2>4. /\ q.step \in Nat /\ Lowest(q) <= q.step /\ q.page \in PagesOf(q.call)
          /\ \A h \in Lowest(q)..(q.step - 1) : h \in Here(q)
        <3>1. Lowest(q) = Lowest(r) /\ Here(q) = Here(r) /\ r.step \in Nat
            BY <1>2
        <3>2. q.step \in Nat /\ Lowest(q) <= q.step
            BY <2>1, <2>3, <3>1
        <3>3. Lowest(q)..(q.step - 1) = Lowest(r)..r.step
            BY <2>3, <3>1
        <3>. QED
            BY <1>3, <2>2, <2>3, <3>1, <3>2, <3>3
    <2>. QED
        BY <2>4 DEF ReadPlace
<1>8. OutOK(q)
    BY <1>1, <1>2 DEF OutOK
<1>9. Unread("correct", q)
    <2> SUFFICES ASSUME NEW s \in Here(r), r.step + 1 < s
                 PROVE  BufAt(q, s - Lowest(r)) = data[s]
        BY <1>2 DEF Unread
    <2>1. s \in Nat /\ Lowest(r) \in Nat
        BY <1>1, <1>3, BufferIndex
    <2>2. s - Lowest(r) \in Int /\ s - Lowest(r) # i /\ s - Lowest(r) # i + 1 /\ r.step < s
        BY <1>2, <2>1 DEF i
    <2>3. BufAt(q, s - Lowest(r)) = BufAt(r, s - Lowest(r))
        BY <1>2, <2>2 DEF ChangedSteps
    <2>. QED
        BY <1>1, <2>2, <2>3 DEF Unread
<1>. QED
    BY <1>6, <1>7, <1>8, <1>9 DEF q

\* Steps that can be relied on stay right or become so, and the next one has only
\* the bits upset that the one just corrected may upset.
LEMMA CorrectedRight ==
    ASSUME CellsOK, NEW r, ReadOK("correct", r), r.step \in Here(r)
    PROVE  Right("correct", NextOf(r))
<1> DEFINE q == NextOf(r)  d == Answer(r)  i == r.step - Lowest(r)
<1>1. ReadTyped(r) /\ ReadPlace("correct", r) /\ Unread("correct", r) /\ Right("correct", r)
    BY DEF ReadOK
<1>2. /\ q.call = r.call /\ q.page = r.page /\ q.step = r.step + 1 /\ q.out = r.out
      /\ Here(q) = Here(r) /\ Lowest(q) = Lowest(r)
      /\ i \in Nat /\ r.step \in Nat /\ r.step \in Steps
      /\ d.flips \in SUBSET (0..(2 * StepBits - 1)) /\ Cardinality(d.flips) <= Strength
      /\ ChangedSteps(r, q, i, d.flips)
    BY <1>1, CorrectedBuffer, NextFields
<1>3. r.call \in Calls /\ r.page \in PagesOf(r.call)
    BY <1>1 DEF ReadTyped, ReadPlace
<1> SUFFICES ASSUME NEW good \in SUBSET Steps, Reliable(r.call, good)
             PROVE  Delivered(q, good) /\ Corrected(q, good) /\ UpsetOnce(q, good)
    BY <1>2 DEF Right
<1>4. Delivered(r, good) /\ Corrected(r, good) /\ UpsetOnce(r, good)
    BY <1>1 DEF Right
<1>5. Delivered(q, good)
    BY <1>2, <1>4 DEF Delivered
<1>6. Corrected(q, good)
    <2> SUFFICES ASSUME NEW s \in good \intersect Here(r), s < r.step + 1
                 PROVE  BufAt(q, s - Lowest(r)) = meant.data[s]
        BY <1>2 DEF Corrected
    <2>1. s \in Nat /\ Lowest(r) \in Nat
        BY <1>1, <1>3, BufferIndex
    <2>2. CASE s = r.step
        BY <2>2, TurnCorrected
    <2>3. CASE s # r.step
        <3>1. s < r.step
            BY <1>2, <2>1, <2>3
        <3>2. s - Lowest(r) \in Int /\ s - Lowest(r) # i /\ s - Lowest(r) # i + 1
            BY <1>2, <2>1, <3>1
        <3> HIDE DEF q, i
        <3>3. BufAt(q, s - Lowest(r)) = BufAt(r, s - Lowest(r))
            BY <1>2, <3>2 DEF ChangedSteps
        <3>. QED
            BY <1>4, <3>1, <3>3 DEF Corrected
    <2>. QED
        BY <2>2, <2>3
<1>7. UpsetOnce(q, good)
    <2> SUFFICES ASSUME NEW s \in good \intersect Here(r), s = r.step + 1
                 PROVE  \E u \in SUBSET DataBits :
                           /\ Cardinality(u) <= Upset(r.call, good, s)
                           /\ BufAt(q, s - Lowest(r)) = SymDiff(data[s], u)
        BY <1>2 DEF UpsetOnce
    <2>1. s \in Nat /\ Lowest(r) \in Nat /\ Lowest(r) <= r.step
        BY <1>1, <1>3, BufferIndex
    <2>2. s - Lowest(r) = i + 1 /\ r.step < s /\ s # Lowest(r) /\ s - 1 = r.step
        BY <1>2, <2>1
    <2>3. BufAt(r, s - Lowest(r)) = data[s]
        BY <1>1, <2>2 DEF Unread
    <2>4. Upset(r.call, good, s) =
             IF r.step \in good THEN Cardinality(WrongCode(r.step)) ELSE Strength
        BY <1>3, <2>2, UpsetIs
    <2>5. /\ Behind(d.flips) \in SUBSET DataBits
          /\ Cardinality(Behind(d.flips)) <= Cardinality(d.flips \ DataBits)
          /\ Cardinality(d.flips \ DataBits) <= Cardinality(d.flips)
          /\ IsFiniteSet(d.flips \ DataBits) /\ IsFiniteSet(d.flips)
          /\ IsFiniteSet(Behind(d.flips))
        <3>1. IsFiniteSet(0..(2 * StepBits - 1))
            BY SizesHold, FS_Interval DEF Sizes
        <3>2. IsFiniteSet(d.flips) /\ IsFiniteSet(d.flips \ DataBits)
            BY <1>2, <3>1, FS_Subset
        <3>. QED
            BY <1>2, <3>2, BehindSize
    <2>6. r.step \in good => Cardinality(d.flips \ DataBits) <= Cardinality(WrongCode(r.step))
        BY TurnCorrected
    <2>7. Cardinality(Behind(d.flips)) <= Upset(r.call, good, s)
        <3>1. /\ Cardinality(Behind(d.flips)) \in Nat /\ Cardinality(d.flips) \in Nat
              /\ Cardinality(d.flips \ DataBits) \in Nat
            BY <2>5, FS_CardinalityType
        <3>2. Strength \in Nat
            BY SizesHold DEF Sizes
        <3>3. r.step \in good => Cardinality(WrongCode(r.step)) \in Nat
            <4>1. IsFiniteSet(0..(EccBits - 1))
                BY SizesHold, FS_Interval DEF Sizes
            <4>2. r.step \in good => WrongCode(r.step) \subseteq 0..(EccBits - 1)
                BY DEF Reliable
            <4>. QED
                BY <4>1, <4>2, FS_Subset, FS_CardinalityType
        <3> HIDE DEF d
        <3>. QED
            BY <1>2, <2>4, <2>5, <2>6, <3>1, <3>2, <3>3
    <2>8. BufAt(q, s - Lowest(r)) = SymDiff(data[s], Behind(d.flips))
        <3> HIDE DEF q, d, i
        <3>. QED
            BY <1>2, <2>2, <2>3 DEF ChangedSteps
    <2>. QED
        BY <2>5, <2>7, <2>8
<1>. QED
    BY <1>5, <1>6, <1>7
(* Counting. *)

\* The wrong bits of one step more.
LEMMA OneStepMore ==
    ASSUME CellsOK, NEW P \in SUBSET Steps, NEW s \in Steps, s \notin P
    PROVE  /\ IsFiniteSet(WrongBits(P)) /\ Cardinality(WrongBits(P)) \in Nat
           /\ Cardinality(WrongData(s)) \in Nat
           /\ Cardinality(WrongBits(P \union {s}))
                = Cardinality(WrongBits(P)) + Cardinality(WrongData(s))
<1> DEFINE M == NPages * NSteps
           of(t) == {t * StepBits + k : k \in WrongData(t)}
           f == [k \in WrongData(s) |-> s * StepBits + k]
<1>1. \A t \in Steps : WrongData(t) \in SUBSET DataBits /\ t \in Nat /\ t < M
    <2>1. \A t \in Steps : WrongData(t) \in SUBSET DataBits
        BY Linear DEF WrongData, CellsOK
    <2>2. M \in Nat
        BY SizesHold DEF Sizes
    <2>3. Steps = 0..(M - 1)
        BY DEF Steps
    <2> HIDE DEF M
    <2>. QED
        BY <2>1, <2>2, <2>3
<1>2. WrongBits(P) \subseteq 0..(M * StepBits - 1)
    <2>1. M \in Nat /\ M * StepBits \in Int
        BY SizesHold DEF Sizes
    <2>2. ASSUME NEW t \in P, NEW k \in WrongData(t)
          PROVE  t * StepBits + k \in 0..(M * StepBits - 1)
        <3>1. t \in Int /\ M \in Int /\ k \in DataBits /\ t >= 0 /\ t < M
            BY <1>1, <2>1
        <3>2. t * StepBits + k \in Nat /\ t * StepBits + k < M * StepBits
            BY <3>1, BitPlace
        <3> DEFINE b == t * StepBits + k  m == M * StepBits
        <3> HIDE DEF b, m
        <3>3. b \in 0..(m - 1)
            BY <2>1, <3>2 DEF b, m
        <3>. QED
            BY <3>3 DEF b, m
    <2>. QED
        BY <2>2 DEF WrongBits
<1>3. IsFiniteSet(WrongBits(P)) /\ Cardinality(WrongBits(P)) \in Nat
    <2>1. M * StepBits - 1 \in Int
        BY SizesHold DEF Sizes
    <2>2. IsFiniteSet(0..(M * StepBits - 1))
        BY <2>1, FS_Interval
    <2>. QED
        BY <1>2, <2>2, FS_Subset, FS_CardinalityType
<1>4. IsFiniteSet(WrongData(s)) /\ Cardinality(WrongData(s)) \in Nat
    BY <1>1, DataFinite
<1>5. IsFiniteSet(of(s)) /\ Cardinality(of(s)) = Cardinality(WrongData(s))
    <2>1. \A j, k \in WrongData(s) : f[j] = f[k] => j = k
        BY <1>1, BitPlace
    <2>2. f \in Bijection(WrongData(s), of(s))
        BY <2>1 DEF Bijection, Injection, Surjection, IsInjective
    <2>3. ExistsBijection(WrongData(s), of(s))
        BY <2>2 DEF ExistsBijection
    <2>. QED
        BY <1>4, <2>3, FS_Bijection
<1>6. WrongBits(P \union {s}) = WrongBits(P) \union of(s)
    BY DEF WrongBits
<1>7. WrongBits(P) \intersect of(s) = {}
    <2> SUFFICES ASSUME NEW t \in P, NEW k \in WrongData(t), NEW j \in WrongData(s),
                        t * StepBits + k = s * StepBits + j
                 PROVE  FALSE
        BY DEF WrongBits
    <2>1. t \in Int /\ s \in Int /\ k \in DataBits /\ j \in DataBits
        BY <1>1
    <2>2. t = s
        BY <2>1, BitPlace
    <2>. QED
        BY <2>2
<1> HIDE DEF of
<1>8. Cardinality(WrongBits(P \union {s}))
        = Cardinality(WrongBits(P)) + Cardinality(of(s)) - Cardinality({})
    BY <1>3, <1>5, <1>6, <1>7, FS_Union
<1>. QED
    BY <1>3, <1>4, <1>5, <1>8, FS_EmptySet

\* The steps corrected so far, one more.
LEMMA PastGrows ==
    ASSUME NEW r, ReadOK("correct", r), r.step \in Here(r)
    PROVE  /\ Past("correct", r) \in SUBSET Steps /\ r.step \in Steps
           /\ r.step \in StepsOf(r.call) /\ r.step \notin Past("correct", r)
           /\ Past("correct", NextOf(r)) = Past("correct", r) \union {r.step}
<1> DEFINE q == NextOf(r)
<1>1. ReadTyped(r) /\ ReadPlace("correct", r)
    BY DEF ReadOK
<1>2. q.call = r.call /\ q.page = r.page /\ q.step = r.step + 1 /\ r.step \in Nat
    BY <1>1, CorrectedBuffer, NextFields
<1>3. /\ StepsOf(r.call) \subseteq Steps /\ Steps \subseteq Nat /\ r.page \in Nat
      /\ Here(r) \subseteq StepsOf(r.call)
    BY <1>1, HereFacts DEF ReadTyped, ReadPlace
<1>4. r.step \div NSteps = r.page /\ r.step \in StepsOf(r.call)
    BY DEF Here
<1> HIDE DEF q
<1>5. \A s \in StepsOf(r.call) : s < r.step + 1 <=> s < r.step \/ s = r.step
    <2>1. \A s \in StepsOf(r.call) : s \in Nat
        BY <1>3, Zenon
    <2>. QED
        BY <1>2, <2>1
<1>6. ~(r.page < r.page) /\ ~(r.step < r.step)
    BY <1>2, <1>3
<1>7. Past("correct", q) = Past("correct", r) \union {r.step}
    BY <1>2, <1>4, <1>5 DEF Past
<1>8. r.step \notin Past("correct", r)
    BY <1>4, <1>6 DEF Past
<1>. QED
    BY <1>3, <1>4, <1>7, <1>8 DEF Past, q

\* When no ECC byte of the call is wrong and all its steps can be relied on, every
\* wrong bit is counted, and the bits inverted are those.
LEMMA CorrectedCounted ==
    ASSUME CellsOK, NEW r, ReadOK("correct", r), r.step \in Here(r), EccBytesRight(r.call)
    PROVE  Counted("correct", NextOf(r)) /\ Inside("correct", NextOf(r))
<1> DEFINE q == NextOf(r)  d == Answer(r)  s == r.step  i == s - Lowest(r)
           c == r.call  P == Past("correct", r)
<1>1. /\ ReadTyped(r) /\ ReadPlace("correct", r)
      /\ Counted("correct", r) /\ Inside("correct", r)
    BY DEF ReadOK
<1>2. /\ q = [call |-> r.call, page |-> r.page, step |-> r.step + 1,
              buf |-> SymDiff(r.buf, {i * StepBits + k : k \in d.flips}),
              out |-> r.out, beyond |-> r.beyond, heap |-> r.heap,
              uncorrectable |-> r.uncorrectable \/ d.err < 0,
              max |-> Max({r.max, d.err}),
              corrected |-> r.corrected + Max({d.err, 0}),
              top |-> Max({r.top, d.top})]
      /\ Here(q) = Here(r) /\ Lowest(q) = Lowest(r) /\ i \in Nat
      /\ d.flips \in SUBSET (0..(2 * StepBits - 1))
    BY <1>1, CorrectedBuffer
<1>3. /\ P \in SUBSET Steps /\ s \in Steps /\ s \in StepsOf(c) /\ s \notin P
      /\ Past("correct", q) = P \union {s}
    BY PastGrows
<1>4. c \in Calls /\ r.page \in PagesOf(c) /\ r.max \in 0..Strength /\ r.corrected \in Nat
    BY <1>1 DEF ReadTyped, ReadPlace
<1>5. StepsOf(c) \in SUBSET Steps /\ Here(r) \subseteq StepsOf(c)
    BY <1>4, HereFacts
<1>6. Reliable(c, StepsOf(c)) /\ \A t \in StepsOf(c) : WrongCode(t) = {}
    BY DEF EccBytesRight
<1>7. Upset(c, StepsOf(c), s) = 0
    <2>1. s # Lowest(r) => s - 1 \in StepsOf(c)
        BY <1>4, <1>5, HereFacts
    <2>2. s # Lowest(r) => WrongCode(s - 1) = {} /\ s - 1 \in StepsOf(c)
        BY <1>6, <2>1
    <2>3. Cardinality({}) = 0
        BY FS_EmptySet
    <2>. QED
        BY <1>4, <2>2, <2>3, UpsetIs
<1>8. /\ Cardinality(d.flips \ DataBits) <= Cardinality(WrongCode(s))
      /\ d.flips \intersect DataBits = WrongData(s)
      /\ d.err = Wrong(s) /\ d.top \in 0..Strength
    BY <1>3, <1>5, <1>6, <1>7, TurnCorrected
<1>9. d.flips \ DataBits = {}
    <2>1. Cardinality(WrongCode(s)) = 0
        BY <1>3, <1>6, FS_EmptySet
    <2>2. IsFiniteSet(d.flips \ DataBits)
        <3>1. IsFiniteSet(0..(2 * StepBits - 1))
            BY SizesHold, FS_Interval DEF Sizes
        <3>. QED
            BY <1>2, <3>1, FS_Subset
    <2>3. Cardinality(d.flips \ DataBits) \in Nat
        BY <2>2, FS_CardinalityType
    <2>4. Cardinality(d.flips \ DataBits) = 0
        <3> HIDE DEF d, s
        <3>. QED
            BY <1>8, <2>1, <2>3
    <2>. QED
        BY <2>2, <2>4, FS_EmptySet
<1>10. d.flips = WrongData(s) /\ d.flips \subseteq DataBits
    BY <1>8, <1>9
<1>11. Wrong(s) = Cardinality(WrongData(s)) /\ Wrong(s) \in Nat
    <2>1. Cardinality(WrongCode(s)) = 0
        BY <1>3, <1>6, FS_EmptySet
    <2>2. Cardinality(WrongData(s)) \in Nat
        BY <1>10, DataFinite
    <2>. QED
        BY <2>1, <2>2 DEF Wrong
<1> HIDE DEF q, d, s, c, P, i
<1>12. /\ Max({r.max, d.err}) = IF r.max >= d.err THEN r.max ELSE d.err
       /\ Max({d.err, 0}) = d.err /\ d.err \in Nat /\ r.max \in Int
    BY <1>4, <1>8, <1>11, MaxOfTwo
<1>13. Counted("correct", q)
    <2>1. /\ r.uncorrectable = FALSE /\ r.corrected = Cardinality(WrongBits(P))
          /\ \A t \in P : Wrong(t) <= r.max
          /\ r.max = 0 \/ \E t \in P : Wrong(t) = r.max
        BY <1>1 DEF Counted, P
    <2>2. q.uncorrectable = FALSE
        <3>1. q.uncorrectable = (r.uncorrectable \/ d.err < 0)
            BY <1>2
        <3>2. ~(d.err < 0)
            BY <1>12
        <3>. QED
            BY <2>1, <3>1, <3>2, Zenon
    <2>3. q.corrected = Cardinality(WrongBits(P \union {s}))
        <3>1. /\ Cardinality(WrongBits(P)) \in Nat
              /\ Cardinality(WrongBits(P \union {s}))
                   = Cardinality(WrongBits(P)) + Cardinality(WrongData(s))
            BY <1>3, OneStepMore
        <3>2. q.corrected = r.corrected + d.err
            BY <1>2, <1>12
        <3>. QED
            BY <1>8, <1>11, <2>1, <3>1, <3>2
    <2>4. q.max = IF r.max >= d.err THEN r.max ELSE d.err
        BY <1>2, <1>12
    <2>5. \A t \in P : Wrong(t) \in Int
        <3>1. P \subseteq StepsOf(r.call)
            BY DEF P, Past
        <3>2. ASSUME NEW t \in P PROVE Wrong(t) \in Int
            <4>1. Cardinality(WrongCode(t)) = 0
                BY <1>6, <3>1, FS_EmptySet DEF c
            <4>2. WrongData(t) \in SUBSET DataBits
                BY <1>3, Linear DEF WrongData, CellsOK
            <4>. QED
                BY <4>1, <4>2, DataFinite DEF Wrong
        <3>. QED
            BY <3>2
    <2>6. \A t \in P \union {s} : Wrong(t) <= q.max
        <3>1. ASSUME NEW t \in P PROVE Wrong(t) <= q.max
            BY <1>12, <2>1, <2>4, <2>5
        <3>2. Wrong(s) <= q.max
            BY <1>8, <1>12, <2>4
        <3>. QED
            BY <3>1, <3>2
    <2>7. q.max = 0 \/ \E t \in P \union {s} : Wrong(t) = q.max
        BY <1>8, <2>1, <2>4
    <2>. QED
        BY <1>3, <2>2, <2>3, <2>6, <2>7 DEF Counted
<1>14. Inside("correct", q)
    <2>1. /\ r.beyond = {} /\ r.heap = FALSE /\ r.top \in 0..Strength
          /\ \A b \in r.buf :
                \E t \in Here(r), k \in DataBits : b = (t - Lowest(r)) * StepBits + k
        BY <1>1 DEF Inside
    <2>2. q.top \in 0..Strength
        <3>1. Strength \in Nat /\ q.top = Max({r.top, d.top})
            BY <1>2, SizesHold DEF Sizes
        <3>. QED
            BY <1>8, <2>1, <3>1, MaxOfTwo
    <2>3. ASSUME NEW b \in q.buf
          PROVE  \E t \in Here(q), k \in DataBits : b = (t - Lowest(q)) * StepBits + k
        <3>1. b \in r.buf \/ \E k \in d.flips : b = i * StepBits + k
            BY <1>2, <2>3 DEF SymDiff
        <3>2. s \in Here(r) /\ i = s - Lowest(r)
            BY DEF s, i
        <3>3. ASSUME NEW k \in d.flips, b = i * StepBits + k
              PROVE  \E t \in Here(r), j \in DataBits : b = (t - Lowest(r)) * StepBits + j
            BY <1>10, <3>2, <3>3
        <3>4. \E t \in Here(r), k \in DataBits : b = (t - Lowest(r)) * StepBits + k
            BY <2>1, <3>1, <3>3
        <3>. QED
            BY <1>2, <3>4
    <2>. QED
        BY <1>2, <2>1, <2>2, <2>3 DEF Inside
<1>. QED
    BY <1>13, <1>14 DEF q

\* nand_sw_ecc_post_rd keeps the invariant.
LEMMA CorrectStepOK ==
    ASSUME CellsOK, NEW r, ReadOK("correct", r), r.step \in Here(r)
    PROVE  ReadOK("correct", NextOf(r))
<1>1. NextOf(r).call = r.call
    <2>1. ReadTyped(r) /\ ReadPlace("correct", r)
        BY DEF ReadOK
    <2>. QED
        BY <2>1, NextFields
<1>. QED
    BY <1>1, CorrectedPlace, CorrectedRight, CorrectedCounted DEF ReadOK
(* A page that is done. *)

Finished(r) ==
    [(IF Whole(r) THEN WholePage(r) ELSE PartOfPage(r)) EXCEPT !.buf = {}, !.page = @ + 1]

\* What is copied of the page: the bits of it that the call asks for.
Kept(r) == Moved(r) \intersect Window(r.call) \intersect PageRange(r.page)

\* A read whose buffer and page alone are replaced.
Advance(w, n, e) == [w EXCEPT !.buf = e, !.page = n]

LEMMA Advanced ==
    ASSUME NEW w, NEW n, NEW e, IsRead(w)
    PROVE  LET f == Advance(w, n, e)
           IN  /\ IsRead(f) /\ f.call = w.call /\ f.page = n /\ f.step = w.step
               /\ f.buf = e /\ f.out = w.out /\ f.beyond = w.beyond /\ f.heap = w.heap
               /\ f.uncorrectable = w.uncorrectable /\ f.max = w.max
               /\ f.corrected = w.corrected /\ f.top = w.top
<1> DEFINE f == Advance(w, n, e)
<1>1. f = [w EXCEPT !.buf = e, !.page = n]
    BY DEF Advance
<1> HIDE DEF f
<1>2. /\ IsRead(f) /\ f.call = w.call /\ f.page = n /\ f.step = w.step
      /\ f.buf = e /\ f.out = w.out /\ f.beyond = w.beyond /\ f.heap = w.heap
      /\ f.uncorrectable = w.uncorrectable /\ f.max = w.max
      /\ f.corrected = w.corrected /\ f.top = w.top
    BY <1>1 DEF IsRead
<1>. QED
    BY <1>2 DEF f

\* What the end of a page does to the read, for a whole page and for a part of one.
LEMMA FinishedFields ==
    ASSUME NEW r, ReadTyped(r)
    PROVE  LET q == Finished(r)
           IN  /\ IsRead(q) /\ q.call = r.call /\ q.page = r.page + 1 /\ q.step = r.step
               /\ q.buf = {} /\ q.out = r.out \union Kept(r)
               /\ q.beyond = IF Whole(r)
                             THEN (r.beyond \ PageRange(r.page)) \union (Moved(r) \ PageRange(r.page))
                             ELSE r.beyond \ (Window(r.call) \intersect PageRange(r.page))
               /\ q.heap = IF Whole(r) THEN r.heap
                           ELSE r.heap \/ \E b \in r.buf : b >= PageBits + 8 * SizeOob
               /\ q.uncorrectable = r.uncorrectable /\ q.max = r.max
               /\ q.corrected = r.corrected /\ q.top = r.top
<1> DEFINE o == r.out \union Kept(r)
           w == IF Whole(r) THEN WholePage(r) ELSE PartOfPage(r)
           whole == (r.beyond \ PageRange(r.page)) \union (Moved(r) \ PageRange(r.page))
           part == r.beyond \ (Window(r.call) \intersect PageRange(r.page))
           over == r.heap \/ \E k \in r.buf : k >= PageBits + 8 * SizeOob
<1>1. CASE Whole(r)
    <2>1. Moved(r) \intersect PageRange(r.page) = Kept(r)
        BY <1>1 DEF Kept, Whole
    <2>2. w = [r EXCEPT !.out = o, !.beyond = whole]
        BY <1>1, <2>1 DEF WholePage
    <2> HIDE DEF w, o, whole
    <2>3. /\ IsRead(w) /\ w.call = r.call /\ w.page = r.page /\ w.step = r.step
          /\ w.out = o /\ w.beyond = whole /\ w.heap = r.heap
          /\ w.uncorrectable = r.uncorrectable /\ w.max = r.max
          /\ w.corrected = r.corrected /\ w.top = r.top
        BY <2>2 DEF ReadTyped, IsRead
    <2>4. Finished(r) = Advance(w, r.page + 1, {})
        BY <2>3 DEF Finished, w, Advance
    <2>. QED
        BY <1>1, <2>3, <2>4, Advanced DEF o, whole
<1>2. CASE ~Whole(r)
    <2>1. Moved(r) \intersect (Window(r.call) \intersect PageRange(r.page)) = Kept(r)
        BY DEF Kept
    <2>2. w = [r EXCEPT !.out = o, !.beyond = part, !.heap = over]
        BY <1>2, <2>1 DEF PartOfPage
    <2> HIDE DEF w, o, part, over
    <2>3. /\ IsRead(w) /\ w.call = r.call /\ w.page = r.page /\ w.step = r.step
          /\ w.out = o /\ w.beyond = part /\ w.heap = over
          /\ w.uncorrectable = r.uncorrectable /\ w.max = r.max
          /\ w.corrected = r.corrected /\ w.top = r.top
        BY <2>2 DEF ReadTyped, IsRead
    <2>4. Finished(r) = Advance(w, r.page + 1, {})
        BY <2>3 DEF Finished, w, Advance
    <2>. QED
        BY <1>2, <2>3, <2>4, Advanced DEF o, part, over
<1>. QED
    BY <1>1, <1>2

\* All steps of a page that is done are corrected.
LEMMA AllCorrected ==
    ASSUME NEW r, ReadTyped(r), ReadPlace("correct", r), r.step \notin Here(r)
    PROVE  \A s \in Here(r) : s < r.step
<1>1. /\ r.call \in Calls /\ r.page \in PagesOf(r.call)
      /\ r.step \in Nat /\ Lowest(r) <= r.step
    BY DEF ReadTyped, ReadPlace
<1>2. PICK hi \in Nat : Lowest(r) <= hi /\ Here(r) = Lowest(r)..hi
    BY <1>1, HereFacts
<1>3. Lowest(r) \in Nat
    BY <1>1, HereFacts
<1>4. ~(r.step <= hi)
    BY <1>1, <1>2, <1>3
<1>. QED
    BY <1>1, <1>2, <1>3, <1>4

\* A bit of a step of the page, in the buffer and in the flash.
LEMMA MovedBit ==
    ASSUME NEW r, ReadTyped(r), r.page \in PagesOf(r.call),
           NEW s \in Here(r), NEW k \in DataBits
    PROVE  s * StepBits + k \in Moved(r) <=> k \in BufAt(r, s - Lowest(r))
<1> USE SizesHold DEF Sizes
<1> DEFINE L == Lowest(r)
<1>1. s \in Nat /\ L \in Nat
    BY BufferIndex
<1>2. \A b \in r.buf : b \in Int
    BY DEF ReadTyped, IsRead
<1>3. (s - L) * StepBits = s * StepBits - L * StepBits
    BY <1>1, Z3
<1>4. s * StepBits \in Int /\ L * StepBits \in Int /\ k \in Int
    BY <1>1
<1>5. Moved(r) = {L * StepBits + b : b \in r.buf}
    BY DEF Moved, Lowest
<1> DEFINE S == s * StepBits  F == L * StepBits
<1>6. S \in Int /\ F \in Int /\ (s - L) * StepBits = S - F /\ Moved(r) = {F + b : b \in r.buf}
    BY <1>3, <1>4, <1>5
<1> HIDE DEF S, F
<1>7. S + k \in Moved(r) <=> (S - F) + k \in r.buf
    BY <1>2, <1>4, <1>6
<1> HIDE DEF L
<1>8. k \in BufAt(r, s - L) <=> (s - L) * StepBits + k \in r.buf
    BY DEF BufAt
<1>. QED
    BY <1>6, <1>7, <1>8 DEF S, L

\* Steps that can be relied on are delivered.
LEMMA FinishedRight ==
    ASSUME CellsOK, NEW r, ReadOK("correct", r), r.step \notin Here(r)
    PROVE  /\ OutOK(Finished(r))
           /\ \A good \in SUBSET Steps : Reliable(r.call, good) => Delivered(Finished(r), good)
<1> DEFINE q == Finished(r)  c == r.call
<1>1. ReadTyped(r) /\ ReadPlace("correct", r) /\ OutOK(r) /\ Right("correct", r)
    BY DEF ReadOK
<1>2. c \in Calls /\ r.page \in PagesOf(c) /\ r.page \in Nat
    BY <1>1, HereFacts DEF ReadTyped, ReadPlace
<1>3. q.call = c /\ q.page = r.page + 1 /\ q.out = r.out \union Kept(r)
    BY <1>1, FinishedFields
<1>4. StepsOf(c) \subseteq Steps /\ Steps \subseteq Nat
    BY <1>2, HereFacts
<1> HIDE DEF q
<1>5. OutOK(q)
    <2>1. PageBits \in Nat
        BY SizesHold DEF Sizes, PageBits
    <2>2. r.page * PageBits \in Nat /\ q.page * PageBits = r.page * PageBits + PageBits
        <3>1. (r.page + 1) * PageBits = r.page * PageBits + PageBits
            BY <1>2, <2>1, Z3
        <3>. QED
            BY <1>2, <1>3, <2>1, <3>1
    <2>3. q.out \subseteq Window(c)
        BY <1>1, <1>3 DEF OutOK, Kept
    <2>4. \A b \in Window(c) : b \in Int
        BY DEF Window
    <2> DEFINE E == r.page * PageBits
    <2>5. \A b \in r.out : b < E
        BY <1>1 DEF OutOK
    <2>6. \A b \in Kept(r) : b < E + PageBits
        <3>1. \A b \in PageRange(r.page) : b \in E..(E + PageBits - 1)
            BY DEF PageRange
        <3> HIDE DEF E
        <3>. QED
            BY <2>1, <2>2, <3>1 DEF Kept, E
    <2>7. E \in Nat /\ q.page * PageBits = E + PageBits
        BY <2>2
    <2> HIDE DEF E
    <2>8. \A b \in q.out : b < E + PageBits
        BY <1>3, <2>1, <2>3, <2>4, <2>5, <2>6, <2>7
    <2>. QED
        BY <1>3, <2>3, <2>7, <2>8 DEF OutOK
<1>6. ASSUME NEW good \in SUBSET Steps, Reliable(c, good),
             NEW s \in good \intersect StepsOf(c), s \div NSteps < r.page + 1
      PROVE  InStep(s, q.out) = meant.data[s] \intersect InStep(s, Window(c))
    <2>1. Delivered(r, good) /\ Corrected(r, good)
        BY <1>1, <1>6 DEF Right
    <2>2. s \in Nat /\ s \div NSteps \in Nat
        <3>1. s \in Nat
            BY <1>4
        <3>. QED
            BY <3>1, SizesHold, Quotient DEF Sizes
    <2>3. CASE s \div NSteps < r.page
        <3>1. \A k \in DataBits : s * StepBits + k \notin PageRange(r.page)
            BY <1>2, <2>2, <2>3, BitInPage
        <3>2. InStep(s, q.out) = InStep(s, r.out)
            BY <1>3, <3>1 DEF InStep, Kept
        <3>. QED
            BY <2>1, <2>3, <3>2 DEF Delivered
    <2>4. CASE s \div NSteps = r.page
        <3>1. s \in Here(r)
            BY <2>4 DEF Here
        <3>2. BufAt(r, s - Lowest(r)) = meant.data[s]
            BY <1>1, <2>1, <3>1, AllCorrected DEF Corrected
        <3>3. ASSUME NEW k \in DataBits
              PROVE  s * StepBits + k \in q.out <=>
                        k \in meant.data[s] /\ s * StepBits + k \in Window(c)
            <4>1. s * StepBits + k \in PageRange(r.page) /\ s * StepBits + k >= r.page * PageBits
                  /\ r.page * PageBits \in Nat /\ s * StepBits + k \in Int
                BY <1>2, <2>2, <2>4, BitInPage, BitPlace
            <4>2. s * StepBits + k \notin r.out
                <5> DEFINE b == s * StepBits + k  E == r.page * PageBits
                <5>1. b >= E /\ E \in Nat /\ b \in Int /\ (b \in r.out => b < E)
                    BY <1>1, <4>1 DEF OutOK
                <5> HIDE DEF b, E
                <5>2. b \notin r.out
                    BY <5>1
                <5>. QED
                    BY <5>2 DEF b
            <4>3. s * StepBits + k \in Moved(r) <=> k \in meant.data[s]
                BY <1>1, <1>2, <3>1, <3>2, MovedBit
            <4>. QED
                BY <1>3, <4>1, <4>2, <4>3 DEF Kept
        <3>4. meant.data[s] \subseteq DataBits
            BY <1>4 DEF CellsOK
        <3>. QED
            BY <3>3, <3>4 DEF InStep
    <2>5. s \div NSteps < r.page \/ s \div NSteps = r.page
        BY <1>2, <1>6, <2>2
    <2>. QED
        BY <2>3, <2>4, <2>5
<1>7. \A good \in SUBSET Steps : Reliable(c, good) => Delivered(q, good)
    BY <1>3, <1>6 DEF Delivered
<1>. QED
    BY <1>5, <1>7 DEF q
\* Nothing was written outside the buffer, and the counts stand.
LEMMA FinishedCounted ==
    ASSUME NEW r, ReadOK("correct", r), r.step \notin Here(r), EccBytesRight(r.call),
           NEW p \in {"page", "done"}
    PROVE  Counted(p, Finished(r)) /\ Inside(p, Finished(r))
<1> DEFINE q == Finished(r)
<1>1. /\ ReadTyped(r) /\ ReadPlace("correct", r)
      /\ Counted("correct", r) /\ Inside("correct", r)
    BY DEF ReadOK
<1>2. /\ q.call = r.call /\ q.page = r.page + 1
      /\ q.beyond = IF Whole(r)
                    THEN (r.beyond \ PageRange(r.page)) \union (Moved(r) \ PageRange(r.page))
                    ELSE r.beyond \ (Window(r.call) \intersect PageRange(r.page))
      /\ q.heap = IF Whole(r) THEN r.heap
                  ELSE r.heap \/ \E b \in r.buf : b >= PageBits + 8 * SizeOob
      /\ q.uncorrectable = r.uncorrectable /\ q.max = r.max
      /\ q.corrected = r.corrected /\ q.top = r.top
    BY <1>1, FinishedFields
<1>3. /\ r.call \in Calls /\ r.page \in PagesOf(r.call) /\ r.page \in Nat
      /\ StepsOf(r.call) \subseteq Steps /\ Steps \subseteq Nat
    BY <1>1, HereFacts DEF ReadTyped, ReadPlace
<1> HIDE DEF q
<1>4. Past(p, q) = Past("correct", r)
    <2>1. ASSUME NEW s \in StepsOf(r.call)
          PROVE  s \div NSteps < r.page + 1 <=>
                    \/ s \div NSteps < r.page
                    \/ s \div NSteps = r.page /\ s < r.step
        <3>1. s \in Nat
            BY <1>3
        <3>2. s \div NSteps \in Nat
            BY <3>1, SizesHold, Quotient DEF Sizes
        <3>3. s \div NSteps = r.page => s < r.step
            BY <1>1, AllCorrected DEF Here
        <3>. QED
            BY <1>3, <3>2, <3>3
    <2>. QED
        BY <1>2, <2>1 DEF Past
<1>5. Counted(p, q)
    BY <1>1, <1>2, <1>4 DEF Counted
<1>6. ASSUME NEW b \in r.buf
      PROVE  /\ b < PageBits + 8 * SizeOob /\ Lowest(r) * StepBits + b \in PageRange(r.page)
             /\ b \in Int
    <2> USE SizesHold DEF Sizes
    <2>1. PICK s \in Here(r), k \in DataBits : b = (s - Lowest(r)) * StepBits + k
        BY <1>1 DEF Inside
    <2>2. /\ s \in Nat /\ Lowest(r) \in Nat /\ s \div NSteps = r.page
          /\ s - Lowest(r) \in Nat /\ s - Lowest(r) < NSteps
        BY <1>1, <1>3, BufferIndex DEF Here
    <2>3. b \in Int /\ b < NSteps * StepBits
        BY <2>1, <2>2, BitPlace
    <2>4. NSteps * StepBits = PageBits /\ PageBits \in Int
        BY DEF PageBits
    <2>5. (s - Lowest(r)) * StepBits = s * StepBits - Lowest(r) * StepBits
        <3>1. \A m, n \in Int : (m - n) * StepBits = m * StepBits - n * StepBits
            BY Z3
        <3>. QED
            BY <2>2, <3>1
    <2>6. Lowest(r) * StepBits + b = s * StepBits + k
        <3> DEFINE S == s * StepBits  L == Lowest(r) * StepBits
        <3>1. S \in Int /\ L \in Int /\ k \in Int /\ b = (S - L) + k
            BY <2>1, <2>2, <2>5
        <3> HIDE DEF S, L
        <3>2. L + b = S + k
            BY <3>1
        <3>. QED
            BY <3>2 DEF S, L
    <2>7. s * StepBits + k \in PageRange(r.page)
        BY <1>3, <2>2, BitInPage
    <2>. QED
        BY <2>3, <2>4, <2>6, <2>7
<1>7. Inside(p, q)
    <2>1. r.beyond = {} /\ r.heap = FALSE /\ r.top \in 0..Strength
        BY <1>1 DEF Inside
    <2>2. Moved(r) \ PageRange(r.page) = {}
        BY <1>6 DEF Moved, Lowest
    <2>3. q.beyond = {}
        BY <1>2, <2>1, <2>2
    <2>4. q.heap = FALSE
        <3>1. ~ \E b \in r.buf : b >= PageBits + 8 * SizeOob
            <4>1. PageBits + 8 * SizeOob \in Int
                BY SizesHold DEF Sizes, PageBits
            <4>. QED
                BY <1>6, <4>1
        <3>. QED
            BY <1>2, <2>1, <3>1, Zenon
    <2>. QED
        BY <1>2, <2>1, <2>3, <2>4 DEF Inside
<1>. QED
    BY <1>5, <1>7 DEF q

\* The end of a page keeps the invariant.
LEMMA PageDoneOK ==
    ASSUME CellsOK, NEW r, ReadOK("correct", r), r.step \notin Here(r),
           NEW p, p = IF r.page = Max(PagesOf(r.call)) THEN "done" ELSE "page"
    PROVE  ReadOK(p, Finished(r))
<1> DEFINE q == Finished(r)
<1>1. ReadTyped(r) /\ ReadPlace("correct", r)
    BY DEF ReadOK
<1>2. /\ IsRead(q) /\ q.call = r.call /\ q.page = r.page + 1 /\ q.buf = {}
      /\ q.max = r.max /\ q.corrected = r.corrected
    BY <1>1, FinishedFields
<1>3. p \in {"page", "done"} /\ p # "correct"
    OBVIOUS
<1>4. r.call \in Calls /\ r.page \in PagesOf(r.call) /\ r.page \in Nat
    BY <1>1, HereFacts DEF ReadTyped, ReadPlace
<1>5. /\ OutOK(q)
      /\ \A good \in SUBSET Steps : Reliable(r.call, good) => Delivered(q, good)
    BY FinishedRight
<1>6. EccBytesRight(r.call) => Counted(p, q) /\ Inside(p, q)
    BY <1>3, FinishedCounted
<1> HIDE DEF q
<1>7. ReadTyped(q)
    BY <1>1, <1>2, <1>4 DEF ReadTyped
<1>8. ReadPlace(p, q)
    <2>1. PICK a \in Nat, b \in Nat : PagesOf(r.call) = a..b /\ Max(PagesOf(r.call)) = b
        BY <1>4, CallPages
    <2>2. p = "page" => q.page \in PagesOf(q.call)
        BY <1>2, <1>4, <2>1
    <2>3. p = "done" => q.page = Max(PagesOf(q.call)) + 1
        BY <1>2
    <2>. QED
        BY <1>3, <2>2, <2>3 DEF ReadPlace
<1>9. Unread(p, q)
    BY <1>3 DEF Unread
<1>10. Right(p, q)
    BY <1>2, <1>3, <1>5 DEF Right
<1>. QED
    BY <1>2, <1>5, <1>6, <1>7, <1>8, <1>9, <1>10 DEF ReadOK, q

(* A page that is loaded. *)

\* The buffer is as the chip; no step is upset before the first is corrected.
LEMMA LoadPageOK ==
    ASSUME CellsOK, NEW r, ReadOK("page", r)
    PROVE  ReadOK("correct", [Loaded(r) EXCEPT !.step = Min(Here(r))])
<1> DEFINE L == Lowest(r)  buf == Loaded(r).buf
           q == [Loaded(r) EXCEPT !.step = L]
<1>1. ReadTyped(r) /\ ReadPlace("page", r) /\ OutOK(r) /\ Right("page", r)
    BY DEF ReadOK
<1>2. r.call \in Calls /\ r.page \in PagesOf(r.call) /\ r.page \in Nat
    BY <1>1 DEF ReadTyped, ReadPlace
<1>3. Loaded(r) = [r EXCEPT !.buf = buf]
    BY <1>1 DEF Loaded, ReadTyped, IsRead
<1> HIDE DEF L, buf
<1>4. q = [r EXCEPT !.buf = buf, !.step = L]
    BY <1>1, <1>3 DEF ReadTyped, IsRead
<1> HIDE DEF q
<1>5. /\ IsRead(q) /\ q.call = r.call /\ q.page = r.page /\ q.step = L /\ q.buf = buf
      /\ q.out = r.out /\ q.beyond = r.beyond /\ q.heap = r.heap
      /\ q.uncorrectable = r.uncorrectable /\ q.max = r.max
      /\ q.corrected = r.corrected /\ q.top = r.top
    BY <1>1, <1>4 DEF ReadTyped, IsRead
<1>6. Here(q) = Here(r) /\ Lowest(q) = L /\ L = Lowest(r) /\ L \in Nat
    BY <1>2, <1>5, HereFacts DEF Here, Lowest, L
<1>7. data \in [Steps -> SUBSET DataBits]
    BY DEF CellsOK
<1>8. \A s \in Here(r) : BufAt(q, s - L) = data[s]
    BY <1>2, <1>5, <1>6, <1>7, BufferLoaded DEF BufAt, buf
<1>9. ReadTyped(q)
    <2>1. buf \subseteq Nat
        BY <1>2, <1>7, BufferFilled DEF buf
    <2>. QED
        BY <1>1, <1>2, <1>5, <2>1 DEF ReadTyped
<1>10. ReadPlace("correct", q)
    <2>1. \A h \in L..(L - 1) : h \in Here(r)
        BY <1>6
    <2>2. L <= L
        BY <1>6
    <2>. QED
        BY <1>2, <1>5, <1>6, <2>1, <2>2 DEF ReadPlace
<1>11. OutOK(q)
    BY <1>1, <1>5 DEF OutOK
<1>12. Unread("correct", q)
    BY <1>6, <1>8 DEF Unread
<1>13. Right("correct", q)
    <2> SUFFICES ASSUME NEW good \in SUBSET Steps, Reliable(r.call, good)
                 PROVE  Delivered(q, good) /\ Corrected(q, good) /\ UpsetOnce(q, good)
        BY <1>5 DEF Right
    <2>1. Delivered(q, good)
        BY <1>1, <1>5 DEF Right, Delivered
    <2>2. \A s \in Here(r) : s \in Nat /\ L <= s
        BY <1>1, <1>2, <1>6, BufferIndex
    <2>3. Corrected(q, good)
        BY <1>5, <1>6, <2>2 DEF Corrected
    <2>4. UpsetOnce(q, good)
        <3> SUFFICES ASSUME L \in good \intersect Here(r)
                     PROVE  \E u \in SUBSET DataBits :
                               /\ Cardinality(u) <= Upset(r.call, good, L)
                               /\ BufAt(q, L - L) = SymDiff(data[L], u)
            BY <1>5, <1>6 DEF UpsetOnce
        <3>1. Cardinality({}) <= Upset(r.call, good, L)
            <4>1. Upset(r.call, good, L) = 0 /\ Cardinality({}) = 0 /\ 0 <= 0
                BY <1>2, <1>6, UpsetIs, FS_EmptySet
            <4>. QED
                BY <4>1
        <3>2. BufAt(q, L - L) = SymDiff(data[L], {})
            BY <1>8, XorCancels
        <3>. QED
            BY <3>1, <3>2
    <2>. QED
        BY <2>1, <2>3, <2>4
<1>14. ASSUME EccBytesRight(r.call) PROVE Counted("correct", q) /\ Inside("correct", q)
    <2>1. Counted("page", r) /\ Inside("page", r)
        BY <1>14 DEF ReadOK
    <2>2. Past("correct", q) = Past("page", r)
        <3>1. \A s \in StepsOf(r.call) : s \div NSteps = r.page => ~(s < L)
            <4>1. ASSUME NEW s \in StepsOf(r.call), s \div NSteps = r.page PROVE ~(s < L)
                <5>1. s \in Here(r)
                    BY <4>1 DEF Here
                <5>2. s \in Nat /\ L <= s
                    BY <1>1, <1>2, <1>6, <5>1, BufferIndex
                <5>. QED
                    BY <1>6, <5>2
            <4>. QED
                BY <4>1
        <3>. QED
            BY <1>5, <3>1 DEF Past
    <2>3. Counted("correct", q)
        BY <1>5, <2>1, <2>2 DEF Counted
    <2>4. \A b \in buf : \E s \in Here(r), k \in DataBits : b = (s - L) * StepBits + k
        BY <1>2, <1>6, <1>7, BufferFilled DEF buf
    <2>5. Inside("correct", q)
        BY <1>5, <1>6, <2>1, <2>4 DEF Inside
    <2>. QED
        BY <2>3, <2>5
<1>15. ReadOK("correct", q)
    BY <1>5, <1>9, <1>10, <1>11, <1>12, <1>13, <1>14 DEF ReadOK
<1>. QED
    BY <1>15 DEF q, L, Lowest

(* A read that begins. *)

\* Nothing is counted or delivered yet.
LEMMA ReadCallOK ==
    ASSUME NEW c \in Calls
    PROVE  ReadOK("page", Cleared(c))
<1> DEFINE q == Cleared(c)  p == Min(PagesOf(c))
<1>1. p \in Nat /\ p \in PagesOf(c) /\ \A s \in StepsOf(c) : s \div NSteps >= p
    <2>1. PICK a \in Nat, b \in Nat : a <= b /\ PagesOf(c) = a..b /\ p = a
        BY CallPages
    <2>2. \A s \in StepsOf(c) : s \div NSteps \in a..b
        BY <2>1, CallPages
    <2>. QED
        BY <2>1, <2>2
<1>2. q = [call |-> c, page |-> p, step |-> 0, buf |-> {}, out |-> {}, beyond |-> {},
           heap |-> FALSE, uncorrectable |-> FALSE, max |-> 0, corrected |-> 0, top |-> 0]
    BY DEF Cleared
<1> HIDE DEF q, p
<1>3. /\ IsRead(q) /\ q.call = c /\ q.page = p /\ q.buf = {} /\ q.out = {}
      /\ q.beyond = {} /\ q.heap = FALSE /\ q.uncorrectable = FALSE
      /\ q.max = 0 /\ q.corrected = 0 /\ q.top = 0
    BY <1>2 DEF IsRead
<1>4. Strength \in Nat
    BY SizesHold DEF Sizes
<1>5. ReadTyped(q) /\ ReadPlace("page", q) /\ OutOK(q) /\ Unread("page", q)
    BY <1>1, <1>3, <1>4 DEF ReadTyped, ReadPlace, OutOK, Unread
<1>6. \A s \in StepsOf(c) : ~(s \div NSteps < p)
    <2>1. \A s \in StepsOf(c) : s \div NSteps \in Int
        <3>1. \A s \in StepsOf(c) : s \in Nat
            BY CallSteps
        <3>. QED
            BY <3>1, SizesHold, Quotient DEF Sizes
    <2>. QED
        BY <1>1, <2>1
<1>7. Right("page", q)
    BY <1>3, <1>6 DEF Right, Delivered
<1>8. Past("page", q) = {}
    BY <1>3, <1>6 DEF Past
<1>9. Counted("page", q)
    <2>1. WrongBits({}) = {} /\ Cardinality({}) = 0
        BY FS_EmptySet DEF WrongBits
    <2>. QED
        BY <1>3, <1>8, <2>1 DEF Counted
<1>10. Inside("page", q)
    BY <1>3, <1>4 DEF Inside
<1>. QED
    BY <1>5, <1>7, <1>9, <1>10 DEF ReadOK, q
(* The cells when no read is in progress. *)

\* Erased cells are what was meant, and their ECC bytes are those of their data.
LEMMA EraseOK ==
    ASSUME NEW d, NEW e, NEW m, NEW t, d = Blank(DataBits), e = Blank(EccByteBits),
           m = [data |-> d, code |-> e], t = Blank(0)
    PROVE  /\ d \in [Steps -> SUBSET DataBits] /\ e \in [Steps -> SUBSET EccByteBits]
           /\ m = [data |-> m.data, code |-> m.code] /\ m.data = d /\ m.code = e
           /\ t \in [Steps -> 0..2]
           /\ \A s \in Steps : t[s] = 0 /\ d[s] = DataBits /\ e[s] = EccByteBits
           /\ \A s \in Steps : e[s] = Calc(d[s])
BY CalcRange DEF Blank

\* The invariant holds at first.
LEMMA InitOK ==
    ASSUME Init PROVE IInv
<1>1. CellsOK
    BY EraseOK DEF Init, CellsOK
<1>. QED
    BY <1>1 DEF Init, Idle, IInv

\* Steps a call does not touch are programmed with ones; the others, erased before,
\* hold what was sent, with its ECC.
LEMMA SentIs ==
    ASSUME NEW c \in Calls, NEW image, NEW s \in Steps
    PROVE  /\ Sent(c, image, s) \in SUBSET DataBits
           /\ Calc(Sent(c, image, s)) \in SUBSET EccByteBits
           /\ s \notin StepsOf(c) => Sent(c, image, s) = DataBits
<1>1. Sent(c, image, s) \in SUBSET DataBits
    BY DEF Sent
<1>2. s \in Nat
    BY CallSteps
<1>3. ASSUME s \notin StepsOf(c) PROVE Sent(c, image, s) = DataBits
    <2>1. \A k \in DataBits : s * StepBits + k \notin Window(c)
        BY <1>2, <1>3, CallSteps
    <2>. QED
        BY <2>1 DEF Sent, InStep
<1>. QED
    BY <1>1, <1>3, CalcRange

\* A step counts as programmed once or more after a program, once if it was erased.
LEMMA TimesUp ==
    ASSUME NEW t \in 0..2
    PROVE  Min({t + 1, 2}) \in 1..2 /\ (Min({t + 1, 2}) <= 1 => t = 0)
<1>1. {t + 1, 2} \in SUBSET Int
    OBVIOUS
<1>2. CASE t + 1 <= 2
    <2>1. Min({t + 1, 2}) = t + 1
        <3>1. t + 1 \in {t + 1, 2} /\ \A y \in {t + 1, 2} : t + 1 <= y
            BY <1>2
        <3>. QED
            BY <1>1, <3>1, MinIs
    <2>. QED
        BY <1>2, <2>1
<1>3. CASE ~(t + 1 <= 2)
    <2>1. Min({t + 1, 2}) = 2
        <3>1. 2 \in {t + 1, 2} /\ \A y \in {t + 1, 2} : 2 <= y
            BY <1>3
        <3>. QED
            BY <1>1, <3>1, MinIs
    <2>. QED
        BY <2>1
<1>. QED
    BY <1>2, <1>3

\* spinand_program_entry: a step programmed once since its erase has its own ECC.
LEMMA ProgramOK ==
    ASSUME CellsOK, NEW c \in Calls, NEW image, Program(c, image)
    PROVE  CellsOK'
<1>1. /\ data' = DataAfter(data, c, image) /\ code' = CodeAfter(code, c, image)
      /\ meant' = [data |-> DataAfter(meant.data, c, image),
                   code |-> CodeAfter(meant.code, c, image)]
      /\ times' = [s \in Steps |->
                      IF s \in StepsOf(c) THEN Min({times[s] + 1, 2}) ELSE times[s]]
    BY DEF Program
<1>2. ASSUME NEW old \in [Steps -> SUBSET DataBits]
      PROVE  DataAfter(old, c, image) \in [Steps -> SUBSET DataBits]
    BY DEF DataAfter
<1>3. ASSUME NEW old \in [Steps -> SUBSET EccByteBits]
      PROVE  CodeAfter(old, c, image) \in [Steps -> SUBSET EccByteBits]
    BY DEF CodeAfter
<1>4. ASSUME NEW s \in Steps
      PROVE  /\ meant'.data[s] = meant.data[s] \intersect Sent(c, image, s)
             /\ meant'.code[s] = IF s \in StepsOf(c)
                                 THEN meant.code[s] \intersect Calc(Sent(c, image, s))
                                 ELSE meant.code[s]
             /\ times'[s] = IF s \in StepsOf(c) THEN Min({times[s] + 1, 2}) ELSE times[s]
             /\ times[s] \in 0..2
    BY <1>1 DEF DataAfter, CodeAfter, CellsOK
<1>5. times' \in [Steps -> 0..2]
    BY <1>1, TimesUp DEF CellsOK
<1>6. ASSUME NEW s \in Steps
      PROVE  /\ times'[s] <= 1 => meant'.code[s] = Calc(meant'.data[s])
             /\ times'[s] = 0 => meant'.data[s] = DataBits /\ meant'.code[s] = EccByteBits
    <2>1. CASE s \in StepsOf(c)
        <3>1. times'[s] \in 1..2 /\ (times'[s] <= 1 => times[s] = 0)
            BY <1>4, <2>1, TimesUp
        <3>2. ASSUME times[s] = 0 PROVE meant'.code[s] = Calc(meant'.data[s])
            <4>1. meant.data[s] = DataBits /\ meant.code[s] = EccByteBits
                BY <3>2 DEF CellsOK
            <4>2. meant'.data[s] = Sent(c, image, s)
                BY <1>4, <4>1, SentIs
            <4>3. meant'.code[s] = Calc(Sent(c, image, s))
                BY <1>4, <2>1, <4>1, SentIs
            <4>. QED
                BY <4>2, <4>3
        <3>. QED
            BY <3>1, <3>2
    <2>2. CASE s \notin StepsOf(c)
        <3>1. meant.data[s] \in SUBSET DataBits
            BY DEF CellsOK
        <3>2. /\ meant'.data[s] = meant.data[s] /\ meant'.code[s] = meant.code[s]
              /\ times'[s] = times[s]
            BY <1>4, <2>2, <3>1, SentIs
        <3>. QED
            BY <3>2 DEF CellsOK
    <2>. QED
        BY <2>1, <2>2
<1>7. /\ data' \in [Steps -> SUBSET DataBits] /\ code' \in [Steps -> SUBSET EccByteBits]
      /\ meant' = [data |-> meant'.data, code |-> meant'.code]
      /\ meant'.data \in [Steps -> SUBSET DataBits]
      /\ meant'.code \in [Steps -> SUBSET EccByteBits]
    BY <1>1, <1>2, <1>3 DEF CellsOK
<1>. QED
    BY <1>5, <1>6, <1>7 DEF CellsOK

\* A cell that changes on its own changes nothing of what was meant.
LEMMA NoiseOK ==
    ASSUME CellsOK, NEW pl \in Places, Noise(pl)
    PROVE  CellsOK'
<1>1. \/ pl[1] \in Steps /\ pl[2] = "data" /\ pl[3] \in DataBits
      \/ pl[1] \in Steps /\ pl[2] = "ecc" /\ pl[3] \in EccByteBits
    BY EccAssumption
<1>2. meant' = meant /\ times' = times
    BY DEF Noise
<1>3. data' \in [Steps -> SUBSET DataBits] /\ code' \in [Steps -> SUBSET EccByteBits]
    <2>1. CASE pl[2] = "data"
        <3>1. data' = [data EXCEPT ![pl[1]] = SymDiff(data[pl[1]], {pl[3]})] /\ code' = code
            BY <2>1 DEF Noise
        <3>2. pl[1] \in Steps /\ pl[3] \in DataBits
            BY <1>1, <2>1
        <3>3. SymDiff(data[pl[1]], {pl[3]}) \in SUBSET DataBits
            BY <3>2 DEF SymDiff, CellsOK
        <3>. QED
            BY <3>1, <3>2, <3>3 DEF CellsOK
    <2>2. CASE pl[2] # "data"
        <3>1. code' = [code EXCEPT ![pl[1]] = SymDiff(code[pl[1]], {pl[3]})] /\ data' = data
            BY <2>2 DEF Noise
        <3>2. pl[1] \in Steps /\ pl[3] \in EccByteBits
            BY <1>1, <2>2
        <3>3. SymDiff(code[pl[1]], {pl[3]}) \in SUBSET EccByteBits
            BY <3>2 DEF SymDiff, CellsOK
        <3>. QED
            BY <3>1, <3>2, <3>3 DEF CellsOK
    <2>. QED
        BY <2>1, <2>2
<1>. QED
    BY <1>2, <1>3 DEF CellsOK

(* The invariant. *)

\* Every step keeps the invariant.
LEMMA NextOK ==
    ASSUME IInv, [Next]_vars
    PROVE  IInv'
<1> USE DEF IInv
<1>1. CASE Erase
    <2>1. CellsOK'
        <3>1. /\ data' = Blank(DataBits) /\ code' = Blank(EccByteBits)
              /\ meant' = [data |-> data', code |-> code'] /\ times' = Blank(0)
            BY <1>1 DEF Erase
        <3>2. /\ data' \in [Steps -> SUBSET DataBits] /\ code' \in [Steps -> SUBSET EccByteBits]
              /\ meant' = [data |-> meant'.data, code |-> meant'.code]
              /\ meant'.data = data' /\ meant'.code = code' /\ times' \in [Steps -> 0..2]
              /\ \A s \in Steps : /\ times'[s] = 0 /\ data'[s] = DataBits
                                  /\ code'[s] = EccByteBits
              /\ \A s \in Steps : code'[s] = Calc(data'[s])
            BY <3>1, EraseOK
        <3>. QED
            BY <3>2 DEF CellsOK
    <2>. QED
        BY <1>1, <2>1 DEF Erase, Idle
<1>2. ASSUME NEW c \in Calls, NEW image \in Images, Program(c, image) PROVE IInv'
    <2>1. CellsOK'
        BY <1>2, ProgramOK
    <2>. QED
        BY <1>2, <2>1 DEF Program, Idle
<1>3. ASSUME NEW pl \in Places, Noise(pl) PROVE IInv'
    <2>1. CellsOK'
        BY <1>3, NoiseOK
    <2>. QED
        BY <1>3, <2>1 DEF Noise, Idle
<1>4. ASSUME NEW c \in Calls, ReadCall(c) PROVE IInv'
    <2>1. ReadOK("page", Cleared(c))
        BY ReadCallOK
    <2>. QED
        BY <1>4, <2>1, Frozen DEF ReadCall
<1>5. CASE LoadPage
    <2>1. ReadOK("correct", [Loaded(result) EXCEPT !.step = Min(Here(result))])
        BY <1>5, LoadPageOK DEF LoadPage
    <2>. QED
        BY <1>5, <2>1, Frozen DEF LoadPage
<1>6. CASE CorrectStep
    <2>1. ReadOK("correct", NextOf(result)) /\ result' = NextOf(result)
        BY <1>6, CorrectStepOK DEF CorrectStep, NextOf, Lowest
    <2>2. pc = "correct" /\ pc' = "correct" /\ UNCHANGED cells
        BY <1>6 DEF CorrectStep
    <2>. QED
        BY <2>1, <2>2, Frozen
<1>7. CASE PageDone
    <2>1. /\ pc = "correct" /\ result.step \notin Here(result) /\ UNCHANGED cells
          /\ pc' = IF result.page = Max(PagesOf(result.call)) THEN "done" ELSE "page"
          /\ result' = Finished(result)
        BY <1>7 DEF PageDone, Finished
    <2>2. ReadOK(pc', result')
        BY <2>1, PageDoneOK
    <2>. QED
        BY <2>1, <2>2, Frozen
<1>8. CASE Seen
    <2>1. UNCHANGED cells /\ pc' = "idle" /\ result' = NoResult
        BY <1>8 DEF Seen
    <2>. QED
        BY <2>1, Frozen DEF NoResult
<1>9. CASE UNCHANGED vars
    <2>1. UNCHANGED cells /\ pc' = pc /\ result' = result
        BY <1>9 DEF vars, cells
    <2>. QED
        BY <2>1, Frozen DEF NoResult
<1>. QED
    BY <1>1, <1>2, <1>3, <1>4, <1>5, <1>6, <1>7, <1>8, <1>9 DEF Next

\* The invariant holds of every state: what was meant has its own ECC, steps that can
\* be relied on are right as soon as they are corrected, the next one is upset by no
\* more bits than it may be, and without wrong ECC bytes every error is counted.
THEOREM Invariance == Spec => []IInv
<1>1. Init => IInv
    BY InitOK
<1>2. IInv /\ [Next]_vars => IInv'
    BY NextOK
<1>. QED
    BY <1>1, <1>2, PTL DEF Spec
\* Bits stay bits of their step; a read fills no other byte of the caller's buffer
\* than those asked for and reports no more errors than the ECC corrects.
THEOREM TypeCorrectness == Spec => []TypeOK
<1>1. IInv => TypeOK
    <2> SUFFICES ASSUME IInv PROVE TypeOK
        OBVIOUS
    <2>1. ASSUME HasRead
          PROVE  result.out \subseteq Window(result.call) /\ EccState(result) \in -1..Strength
        <3>1. OutOK(result) /\ ReadTyped(result)
            BY <2>1 DEF IInv, ReadOK, HasRead
        <3>2. Strength \in Nat
            BY SizesHold DEF Sizes
        <3>. QED
            BY <3>1, <3>2 DEF OutOK, ReadTyped, EccState
    <2>. QED
        BY <2>1 DEF TypeOK, IInv, CellsOK
<1>. QED
    BY <1>1, Invariance, PTL

\* When a read is done, all its pages are.
LEMMA AllPages ==
    ASSUME IInv, HasRead
    PROVE  /\ ReadOK("done", result) /\ result.call \in Calls
           /\ StepsOf(result.call) \subseteq Steps
           /\ \A s \in StepsOf(result.call) : s \div NSteps < result.page
<1>1. ReadOK("done", result) /\ result.call \in Calls /\ ReadPlace("done", result)
    BY DEF IInv, HasRead, ReadOK, ReadTyped
<1>2. result.page = Max(PagesOf(result.call)) + 1
    BY <1>1 DEF ReadPlace
<1>3. PICK a \in Nat, b \in Nat : PagesOf(result.call) = a..b /\ Max(PagesOf(result.call)) = b
    BY <1>1, CallPages
<1>4. \A s \in StepsOf(result.call) : s \div NSteps \in a..b
    BY <1>1, <1>3, CallPages
<1>. QED
    BY <1>1, <1>2, <1>3, <1>4, CallSteps

\* A read returns what was programmed in every step that can be relied on, with any
\* number of wrong bits in the others, however the reads and programs cut pages and
\* steps (nand_sw_ecc_prev_pgm, nand_sw_ecc_post_rd, bch_decode).
THEOREM ReadsReturnWhatWasMeant == Spec => []ReturnsWhatWasMeant
<1>1. IInv => ReturnsWhatWasMeant
    <2> SUFFICES ASSUME IInv, HasRead,
                        NEW good \in SUBSET Steps, Reliable(result.call, good),
                        NEW s \in good \intersect StepsOf(result.call)
                 PROVE  InStep(s, result.out) =
                            meant.data[s] \intersect InStep(s, Window(result.call))
        BY DEF ReturnsWhatWasMeant
    <2>1. Delivered(result, good) /\ s \div NSteps < result.page
        BY AllPages DEF ReadOK, Right
    <2>. QED
        BY <2>1 DEF Delivered
<1>. QED
    BY <1>1, Invariance, PTL

\* When no ECC byte of the call is wrong, the state reported is the largest number of
\* wrong bits in a step of it and the total is theirs (nand_sw_ecc_post_rd,
\* spinand_read, spinand_get_ecc_state).
THEOREM ErrorsAreCounted == Spec => []CountsTheErrors
<1>1. IInv => CountsTheErrors
    <2> SUFFICES ASSUME IInv, HasRead, EccBytesRight(result.call)
                 PROVE  /\ EccState(result) = Max({Wrong(s) : s \in StepsOf(result.call)})
                        /\ result.corrected = Cardinality(WrongBits(StepsOf(result.call)))
        BY DEF CountsTheErrors
    <2> DEFINE steps == StepsOf(result.call)  m == result.max
    <2>1. /\ result.call \in Calls /\ steps \subseteq Steps
          /\ Counted("done", result) /\ ReadTyped(result)
        BY AllPages DEF ReadOK
    <2>2. Past("done", result) = steps
        BY AllPages DEF Past
    <2>3. /\ result.uncorrectable = FALSE
          /\ result.corrected = Cardinality(WrongBits(steps))
          /\ \A s \in steps : Wrong(s) <= m
          /\ m = 0 \/ \E s \in steps : Wrong(s) = m
        BY <2>1, <2>2 DEF Counted
    <2>4. \A s \in steps : Wrong(s) \in Nat
        <3> SUFFICES ASSUME NEW s \in steps PROVE Wrong(s) \in Nat
            OBVIOUS
        <3>1. WrongCode(s) = {}
            BY DEF EccBytesRight
        <3>2. WrongData(s) \in SUBSET DataBits
            BY <2>1, Linear DEF WrongData, IInv, CellsOK
        <3>3. Cardinality(WrongData(s)) \in Nat /\ Cardinality(WrongCode(s)) = 0
            BY <3>1, <3>2, DataFinite, FS_EmptySet
        <3>. QED
            BY <3>3 DEF Wrong
    <2>5. PICK t \in steps : TRUE
        <3>1. FirstStep(result.call) \in steps
            BY <2>1, CallSteps
        <3>. QED
            BY <3>1
    <2>6. m \in Int /\ \E s \in steps : Wrong(s) = m
        <3>1. m \in Nat
            BY <2>1, SizesHold DEF ReadTyped, Sizes
        <3>2. CASE m = 0
            BY <2>3, <2>4, <2>5, <3>1, <3>2
        <3>3. CASE m # 0
            BY <2>3, <3>1, <3>3
        <3>. QED
            BY <3>1, <3>2, <3>3
    <2> HIDE DEF steps, m
    <2>7. Max({Wrong(s) : s \in steps}) = m
        <3> DEFINE W == {Wrong(s) : s \in steps}
        <3>1. W \in SUBSET Int /\ m \in W /\ \A y \in W : y <= m
            BY <2>3, <2>4, <2>6
        <3> HIDE DEF W
        <3>2. Max(W) = m
            BY <3>1, MaxIs
        <3>. QED
            BY <3>2 DEF W
    <2>8. EccState(result) = m
        BY <2>3 DEF EccState, m
    <2>. QED
        BY <2>3, <2>7, <2>8 DEF steps
<1>. QED
    BY <1>1, Invariance, PTL

\* A read that meets no wrong ECC byte and no step with more errors than the ECC
\* corrects writes nothing outside the step it decodes (bch.h:67), nor beyond its
\* buffers, nor past the array of the error locator.
THEOREM CorrectionStaysInPlace == Spec => []InPlaceWithoutEccErrors
<1>1. IInv => InPlaceWithoutEccErrors
    <2> SUFFICES ASSUME IInv, HasRead, EccBytesRight(result.call)
                 PROVE  result.beyond = {} /\ ~result.heap /\ result.top <= Strength
        BY DEF InPlaceWithoutEccErrors, CorrectsInPlace
    <2>1. Inside("done", result) /\ Strength \in Nat
        BY AllPages, SizesHold DEF ReadOK, Sizes
    <2>. QED
        BY <2>1 DEF Inside
<1>. QED
    BY <1>1, Invariance, PTL
=============================================================================
