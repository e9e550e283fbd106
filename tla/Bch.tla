-------------------------------- MODULE Bch --------------------------------
(***************************************************************************)
(* The BCH codec of mxmtd/lib/ecc/bch.c: its parameters, tables, generator *)
(* polynomial and encoder, and the decoder from the difference of two ECCs *)
(* to the bits of the buffer it inverts.  bch is what bch_init returns.    *)
(*                                                                         *)
(* A field element, a polynomial over one bit or a word is the set of its  *)
(* bits that are one, so that XOR is the symmetric difference.  A bit of a *)
(* codeword is named by its exponent: the code takes 32*ecc_words zero     *)
(* bits, the data and zero padding as one polynomial of 8*len bits and     *)
(* puts the ecc_bits of the remainder below it.  The bits of the data are  *)
(* counted from the most significant bit of the first byte of the step.    *)
(***************************************************************************)
EXTENDS Integers, Sequences, FiniteSets, FiniteSetsExt, SequencesExt

(* fmsb32: the most significant bit, by halving; -1 for zero. *)
Fmsb32(bits) ==
    LET Halve(s, m) ==
            IF \E b \in s.bits : b >= 32 - m
            THEN s ELSE [bits |-> {b + m : b \in s.bits}, n |-> s.n - m]
    IN  IF bits = {} THEN -1
        ELSE FoldLeft(Halve, [bits |-> bits, n |-> 32], <<16, 8, 4, 2, 1>>).n - 1

BitsOf(v) == {k \in 0..30 : (v \div 2^k) % 2 = 1}

(* Arrays are sequences, from index 0: TLC computes their elements once. *)
Array(f, n) == SubSeq([i \in 1..(n + 1) |-> f[i - 1]], 1, n + 1)
At(array, i) == array[i + 1]

\* The XOR of a family of words.
OddAt(f, b) == Cardinality({i \in DOMAIN f : b \in f[i]}) % 2 = 1
XorAll(f)   == {b \in UNION {f[i] : i \in DOMAIN f} : OddAt(f, b)}
-----------------------------------------------------------------------------
(* bch_init *)

(* The powers 0..n of x modulo the polynomial p of degree d. *)
Powers(p, d, n) ==
    LET low[b \in 0..(2 * d - 1)] ==
            IF b = 0 THEN {0}
            ELSE LET x == {c + 1 : c \in low[b - 1]}
                 IN  IF d \in x THEN SymDiff(x, p) ELSE x
        base == Array(low, 2 * d - 1)
        pow[i \in 0..n] ==
            IF i < d THEN {i}
            ELSE LET x == pow[i \div 2]
                 IN  XorAll([b \in x |-> At(base, 2 * b + (i % 2))])
    IN  Array(pow, n)

(* build_gf_table: the powers of the primitive element and their logarithms. *)
PrimPoly(m) ==
    <<{8, 4, 3, 2, 0}, {9, 4, 0}, {10, 3, 0}, {11, 2, 0}, {12, 6, 4, 1, 0},
      {13, 4, 3, 1, 0}>>[m - 7]

APow(m) == Powers(PrimPoly(m), m, 2^m - 1)
ALog(m, pow) ==
    [x \in SUBSET (0..(m - 1)) |->
        IF x = {} THEN 0 ELSE CHOOSE i \in 0..(2^m - 2) : At(pow, i) = x]

\* mod_n takes an unsigned 32-bit number: a negative one wraps around.
ModN(bch, v) ==
    IF v < 0 THEN (v + (65536 % bch.n) * (65536 % bch.n)) % bch.n ELSE v % bch.n
Pow(bch, v)  == At(bch.a_pow, ModN(bch, v))

Times(bch, x, y) ==
    IF x = {} \/ y = {} THEN {} ELSE Pow(bch, bch.a_log[x] + bch.a_log[y])

(* build_generator_poly: the product of (x - a^i) over 1, 2, 4 ... times each
   odd number below 2t. *)
GenPoly(bch) ==
    LET deg  == bch.ecc_bits
        root == [k \in 1..deg |-> ModN(bch, (2 * ((k - 1) \div bch.m) + 1) * 2^((k - 1) % bch.m))]
        one  == [j \in 0..deg |-> IF j = 0 THEN {0} ELSE {}]
        TimesRoot(x, i) ==
            Array([j \in 0..deg |-> SymDiff(Times(bch, At(x, j), Pow(bch, i)),
                                            IF j = 0 THEN {} ELSE At(x, j - 1))], deg)
        x == FoldLeft(TimesRoot, Array(one, deg), root)
    IN  {j \in 0..deg : At(x, j) # {}}

BchInit(m, t, size) ==
    LET bits == m * t
        pow  == APow(m)
        bch  == [m |-> m, t |-> t, size_step |-> size, n |-> 2^m - 1, ecc_bits |-> bits,
                 ecc_bytes |-> (bits + 7) \div 8, ecc_words |-> (bits + 31) \div 32,
                 len |-> 2^m \div 8, a_pow |-> pow, a_log |-> ALog(m, pow), mod_tab |-> <<>>]
    IN  [bch EXCEPT !.mod_tab = Powers(GenPoly(bch), bits, 2^m + bits - 1)]
-----------------------------------------------------------------------------
NBits(bch) == 8 * bch.len + bch.ecc_bits

\* Exponent of a bit of the data, which follows ecc_words words of zeros.
DataExp(bch, k) == NBits(bch) - 1 - (32 * bch.ecc_words + k)

(* bch_encode: the ECC of a step, given the bits of it that are one.  mod_tab
   holds what each bit of a codeword contributes to its ECC; the code has this
   for 32 bits at a time (build_mod_tables). *)
BchEncode(bch, ones) == XorAll([k \in ones |-> At(bch.mod_tab, DataExp(bch, k))])

(* build_syndrome.  A difference in the padding has a negative exponent. *)
Syndrome(bch, diff) ==
    Array([j \in 0..(2 * bch.t - 1) |->
              XorAll([i \in diff |-> Pow(bch, (j + 1) * i)])], 2 * bch.t - 1)

(* build_error_location_poly, Berlekamp and Massey's algorithm.  The arrays have
   t + 1 entries; top is the highest entry of elp that is written. *)
ErrorLocator(bch, syn) ==
    LET last == 2 * bch.t
        one  == Array([j \in 0..last |-> IF j = 0 THEN {0} ELSE {}], last)
        Correct(s, i) ==
            LET k      == 2 * i - s.pp
                ratio  == bch.n + bch.a_log[s.d] - bch.a_log[s.dp]
                longer == s.bufDeg + k > s.deg
                Term(j) == IF j < k \/ j > s.bufDeg + k \/ At(s.buf, j - k) = {}
                           THEN {} ELSE Pow(bch, ratio + bch.a_log[At(s.buf, j - k)])
                elp == Array([j \in 0..last |-> SymDiff(At(s.elp, j), Term(j))], last)
                top == Max({s.top, s.bufDeg + k})
            IN  IF s.d = {} THEN s
                ELSE IF longer
                THEN [s EXCEPT !.elp = elp, !.top = top, !.deg = s.bufDeg + k,
                               !.buf = s.elp, !.bufDeg = s.deg,
                               !.dp = s.d, !.pp = 2 * i]
                ELSE [s EXCEPT !.elp = elp, !.top = top]
        Discrepancy(s, i) ==
            XorAll([j \in 0..s.deg |->
                      IF j = 0 THEN At(syn, 2 * i + 2)
                      ELSE Times(bch, At(s.elp, j), At(syn, 2 * i + 2 - j))])
        Round(s, i) ==
            IF s.deg > bch.t THEN s
            ELSE LET c == Correct(s, i)
                 IN  IF i < bch.t - 1
                     THEN [c EXCEPT !.d = Discrepancy(c, i)] ELSE c
    IN  FoldLeft(Round,
                 [elp |-> one, buf |-> one, deg |-> 0, bufDeg |-> 0, top |-> 0,
                  pp |-> -1, dp |-> {0}, d |-> At(syn, 0)],
                 [i \in 1..bch.t |-> i - 1])

(* chien_search: the first deg roots, trying every power in turn, the power 0
   again at the end; none if there are fewer. *)
Roots(bch, elp, deg) ==
    LET terms == {j \in 0..deg : At(elp, j) # {}}
        reg   == Array([j \in 0..deg |-> bch.a_log[At(elp, j)] + bch.n - bch.a_log[At(elp, deg)]], deg)
        Value(i) == [j \in terms |-> At(bch.a_pow, (At(reg, j) + i * j) % bch.n)]
        zeros == {i \in 0..bch.n : \A b \in 0..(bch.m - 1) : ~OddAt(Value(i), b)}
    IN  IF Cardinality(zeros) < deg THEN {}
        ELSE {bch.n - i : i \in {i \in zeros : Cardinality({h \in zeros : h < i}) < deg}}

(* bch_decode from the difference of the two ECCs on: the number of bits
   corrected or -1, and the bits inverted, counted from the start of the step.
   A bit in the leading zero words is skipped. *)
BchDecode(bch, diff) ==
    LET l     == ErrorLocator(bch, Syndrome(bch, diff))
        roots == Roots(bch, l.elp, l.deg)
        bits  == {NBits(bch) - 1 - r - 32 * bch.ecc_words : r \in roots}
    IN  IF diff = {}
        THEN [err |-> 0, flips |-> {}, top |-> 0]
        ELSE IF l.deg \notin 1..bch.t \/ roots = {}
        THEN [err |-> -1, flips |-> {}, top |-> l.top]
        ELSE [err |-> l.deg, flips |-> {b \in bits : b >= 0}, top |-> l.top]
=============================================================================
