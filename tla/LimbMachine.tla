---------------------------- MODULE LimbMachine ----------------------------
(***************************************************************************)
(* The limb arithmetic of libsecp256k1 under any sequence of calls that    *)
(* respects its preconditions.  One register x, in one of the four         *)
(* representations of the library, is worked on by the functions of that   *)
(* representation; val carries, beside it, the value the number should     *)
(* have.  The moduli (the field characteristic, the group order) are       *)
(* scaled down to products of small coprime factors, so that a value is    *)
(* known exactly by its residues: nothing in the limb code depends on the  *)
(* modulus being prime.                                                    *)
(***************************************************************************)
EXTENDS Limbs, FiniteSets

CONSTANTS
    W10, T10, C10a, C10b, Mul10, Acc10, Q10,     \* field, ten limbs
    W5, T5, C5, Mul5, Acc5, Q5,                  \* field, five limbs
    W4, NC4, Q4,                                 \* scalar, four words
    W8, NC8, Q8,                                 \* scalar, eight words
    MaxMag,      \* bound: magnitudes reached
    MaxSteps,    \* bound: calls in a behaviour
    Byte         \* bits of a digit of a serialized number

F10 == INSTANCE Field10x26 WITH W <- W10, T <- T10, C0 <- C10a, C1 <- C10b,
           MaxMul <- Mul10, AccBits <- Acc10
F5 == INSTANCE Field5x52 WITH W <- W5, T <- T5, C <- C5,
          MaxMul <- Mul5, AccBits <- Acc5
S4 == INSTANCE Scalar4x64 WITH W <- W4, NC0 <- NC4[1], NC1 <- NC4[2]
S8 == INSTANCE Scalar8x32 WITH W <- W8, NC0 <- NC8[1], NC1 <- NC8[2],
          NC2 <- NC8[3], NC3 <- NC8[4]

(* The widths of the five limbs are in proportion: see Field5x52!Sizes. *)
ASSUME FiveLimbsAssumption == F5!Sizes
(* The words are wide enough for the order: see Scalar4x64!Sizes. *)
ASSUME FourWordsAssumption == S4!Sizes

VARIABLES rep,      \* the representation
          x,        \* the register
          val,      \* its value: residues by factor of the modulus
          steps
vars == <<rep, x, val, steps>>

Reps == {"10x26", "5x52", "4x64", "8x32"}
Field == rep \in {"10x26", "5x52"}
Scalar == rep \in {"4x64", "8x32"}
Limb(r) == CASE r = "10x26" -> 10 [] r = "5x52" -> 5 [] r = "4x64" -> 4
             [] r = "8x32" -> 8
Width(r) == CASE r = "10x26" -> W10 [] r = "5x52" -> W5 [] r = "4x64" -> W4
              [] r = "8x32" -> W8
Factors(r) == CASE r = "10x26" -> Q10 [] r = "5x52" -> Q5 [] r = "4x64" -> Q4
                [] r = "8x32" -> Q8
Digits(r) == (Limb(r) * Width(r) + Byte - 1) \div Byte

(* The value of a number in representation r. *)
Value(r, t) == [q \in Factors(r) |-> Residue(t, Limb(r), Width(r), q)]
Words(a) == IF Field THEN a.n ELSE a.d
Is(r, k) == [q \in Factors(r) |-> k % q]
Plus(u, v) == [q \in DOMAIN u |-> (u[q] + v[q]) % q]
Times(u, v) == [q \in DOMAIN u |-> (u[q] * v[q]) % q]
Minus(u) == [q \in DOMAIN u |-> (q - u[q]) % q]

(* Numbers at the edges: zero, one, the modulus and its neighbours, all    *)
(* bits set, and a mixed pattern.                                          *)
ModulusWords(r) == CASE r = "10x26" -> F10!P [] r = "5x52" -> F5!P
                     [] r = "4x64" -> S4!N_ [] r = "8x32" -> S8!N_
TopMax(r) == CASE r = "10x26" -> F10!MT [] r = "5x52" -> F5!MT
               [] OTHER -> 2^Width(r) - 1
Pattern(r, s) == [i \in 0 .. Limb(r) - 1 |->
    ((i + 1) * s * 37 + s) % ((IF i = Limb(r) - 1 THEN TopMax(r)
                               ELSE 2^Width(r) - 1) + 1)]
Near(r, k) == [ModulusWords(r) EXCEPT ![0] = @ + k]
Full(r) == [i \in 0 .. Limb(r) - 1 |->
    IF i = Limb(r) - 1 THEN TopMax(r) ELSE 2^Width(r) - 1]
Small(r, k) == [i \in 0 .. Limb(r) - 1 |-> IF i = 0 THEN k ELSE 0]
Below_(r) == {Small(r, 0), Small(r, 1), Near(r, -1), Pattern(r, 1)}
Above_(r) == {Near(r, 0), Near(r, 1), Full(r)}
Doubled(t) == [i \in DOMAIN t |-> 2 * t[i]]

FieldElements(r) ==
    {[n |-> t, mag |-> 1, norm |-> TRUE, ok |-> TRUE] : t \in Below_(r)} \cup
    {[n |-> t, mag |-> 1, norm |-> FALSE, ok |-> TRUE] :
        t \in {Near(r, 0), Near(r, 1), Doubled(Full(r))}}
Scalars(r) == {[d |-> t, ok |-> TRUE] : t \in Below_(r) \cup {Pattern(r, 3)}}
Elements(r) == IF r \in {"10x26", "5x52"} THEN FieldElements(r) ELSE Scalars(r)
Strings(r) == {Regroup(t, Limb(r), Width(r), 0, Byte, Digits(r)) :
                   t \in Below_(r) \cup Above_(r)}

Init ==
    /\ rep \in Reps
    /\ x \in Elements(rep)
    /\ val = Value(rep, Words(x))
    /\ steps = 0

Call(r, v) == /\ steps < MaxSteps /\ steps' = steps + 1
              /\ x' = r /\ val' = v /\ UNCHANGED rep
Ten == rep = "10x26"
Four == rep = "4x64"
---------------------------------------------------------------------------
(* Field elements. *)
Normalize ==
    /\ Field
    /\ Call(IF Ten THEN F10!fe_normalize(x) ELSE F5!fe_normalize(x), val)
NormalizeWeak ==
    /\ Field
    /\ Call(IF Ten THEN F10!fe_normalize_weak(x) ELSE F5!fe_normalize_weak(x), val)
NormalizeVar ==
    /\ Field
    /\ Call(IF Ten THEN F10!fe_normalize_var(x) ELSE F5!fe_normalize_var(x), val)
Negate ==
    /\ Field
    /\ \E m \in x.mag .. x.mag + 1 :
        /\ m < MaxMag
        /\ Call(IF Ten THEN F10!fe_negate(x, m) ELSE F5!fe_negate(x, m),
                Minus(val))
MulInt ==
    /\ Field
    /\ \E k \in {2, 3} :
        /\ x.mag * k <= MaxMag
        /\ Call(IF Ten THEN F10!fe_mul_int(x, k) ELSE F5!fe_mul_int(x, k),
                Times(val, Is(rep, k)))
Add ==
    /\ Field
    /\ \E y \in Elements(rep) \cup {x} :
        /\ x.mag + y.mag <= MaxMag
        /\ Call(IF Ten THEN F10!fe_add(x, y) ELSE F5!fe_add(x, y),
                Plus(val, Value(rep, y.n)))
Mul ==
    /\ Field
    /\ x.mag <= (IF Ten THEN Mul10 ELSE Mul5)
    /\ \E y \in Elements(rep) :
        Call(IF Ten THEN F10!fe_mul(x, y) ELSE F5!fe_mul(x, y),
             Times(val, Value(rep, y.n)))
Sqr ==
    /\ Field
    /\ x.mag <= (IF Ten THEN Mul10 ELSE Mul5)
    /\ Call(IF Ten THEN F10!fe_sqr(x) ELSE F5!fe_sqr(x), Times(val, val))
Cmov ==
    /\ Field
    /\ \E y \in Elements(rep), flag \in BOOLEAN :
        Call(IF Ten THEN F10!fe_cmov(x, y, flag) ELSE F5!fe_cmov(x, y, flag),
             IF flag THEN Value(rep, y.n) ELSE val)
(* To storage words of another width, v bits, and back, under a            *)
(* conditional move.                                                       *)
Stored(y, flag, v, k) ==
    IF Ten THEN F10!fe_from_storage(F10!fe_storage_cmov(
                    F10!fe_to_storage(x, v, k), F10!fe_to_storage(y, v, k), flag), v, k)
    ELSE F5!fe_from_storage(F5!fe_storage_cmov(
             F5!fe_to_storage(x, v, k), F5!fe_to_storage(y, v, k), flag), v, k)
Store ==
    /\ Field /\ x.norm
    /\ \E y \in {e \in Elements(rep) : e.norm}, flag \in BOOLEAN :
        LET v == IF Ten THEN 13 ELSE 14
        IN  Call(Stored(y, flag, v, (Limb(rep) * Width(rep)) \div v + 1),
                 IF flag THEN Value(rep, y.n) ELSE val)

(* A parsed string: one at or above the characteristic is refused. *)
StringValue(b) == [q \in Factors(rep) |-> Residue(b, Digits(rep), Byte, q)]
Accepted(p, b) == p.ret /\ Call(p.r, StringValue(b))
Parse ==
    /\ Field
    /\ \E b \in Strings(rep) :
        Accepted(IF Ten THEN F10!fe_set_b32(b, Byte, Digits(rep))
                 ELSE F5!fe_set_b32(b, Byte, Digits(rep)), b)
SetInt ==
    \E k \in {0, 5} :
        Call(CASE rep = "10x26" -> (IF k = 0 THEN F10!fe_clear ELSE F10!fe_set_int(k))
               [] rep = "5x52" -> (IF k = 0 THEN F5!fe_clear ELSE F5!fe_set_int(k))
               [] rep = "4x64" -> (IF k = 0 THEN S4!scalar_clear ELSE S4!scalar_set_int(k))
               [] rep = "8x32" -> (IF k = 0 THEN S8!scalar_clear ELSE S8!scalar_set_int(k)),
             Is(rep, k))
---------------------------------------------------------------------------
(* Scalars. *)
ScalarAdd ==
    /\ Scalar
    /\ \E y \in Elements(rep) \cup {x} :
        Call(IF Four THEN S4!scalar_add(x, y) ELSE S8!scalar_add(x, y),
             Plus(val, Value(rep, y.d)))
ScalarNegate ==
    /\ Scalar
    /\ Call(IF Four THEN S4!scalar_negate(x) ELSE S8!scalar_negate(x), Minus(val))
CondNegated(c) == Call(c.r, IF c.ret = -1 THEN Minus(val) ELSE val)
ScalarCondNegate ==
    /\ Scalar
    /\ \E flag \in BOOLEAN :
        CondNegated(IF Four THEN S4!scalar_cond_negate(x, flag)
                    ELSE S8!scalar_cond_negate(x, flag))
ScalarMul ==
    /\ Scalar
    /\ \E y \in Elements(rep) \cup {x} :
        Call(IF Four THEN S4!scalar_mul(x, y) ELSE S8!scalar_mul(x, y),
             Times(val, Value(rep, y.d)))
ScalarSqr ==
    /\ Scalar
    /\ Call(IF Four THEN S4!scalar_sqr(x) ELSE S8!scalar_sqr(x), Times(val, val))
ScalarParse ==
    /\ Scalar
    /\ \E b \in Strings(rep) :
        Call(IF Four THEN S4!scalar_set_b32(b, Byte, Digits(rep)).r
             ELSE S8!scalar_set_b32(b, Byte, Digits(rep)).r, StringValue(b))
(* cadd_bit asks that the sum stay below the order. *)
ScalarCaddBit ==
    /\ Scalar
    /\ \E bit \in {0, Width(rep) - 1, Limb(rep) * Width(rep) - 2}, flag \in BOOLEAN :
        LET r == IF Four THEN S4!scalar_cadd_bit(x, bit, flag)
                         ELSE S8!scalar_cadd_bit(x, bit, flag)
            b == [i \in 0 .. Limb(rep) - 1 |->
                     IF i = bit \div Width(rep) THEN 2^(bit % Width(rep)) ELSE 0]
        IN  /\ flag => x.d[Limb(rep) - 1] < 2^(Width(rep) - 1)
            /\ Call(r, IF flag THEN Plus(val, Value(rep, b)) ELSE val)
HalfOf(s) == \E h \in {s.r1, s.r2} : Call(h, Value(rep, h.d))
ScalarSplit ==
    /\ Scalar
    /\ HalfOf(IF Four THEN S4!scalar_split_128(x) ELSE S8!scalar_split_128(x))

Next ==
    \/ Normalize \/ NormalizeWeak \/ NormalizeVar \/ Negate \/ MulInt \/ Add
    \/ Mul \/ Sqr \/ Cmov \/ Store \/ Parse \/ SetInt
    \/ ScalarAdd \/ ScalarNegate \/ ScalarCondNegate \/ ScalarMul \/ ScalarSqr
    \/ ScalarParse \/ ScalarCaddBit \/ ScalarSplit

Spec == Init /\ [][Next]_vars
---------------------------------------------------------------------------
(* No sequence of legal calls makes a VERIFY_CHECK of the library fail: no *)
(* limb leaves the range its magnitude promises, no accumulator of a       *)
(* product overflows, no carry is lost, one conditional subtraction is     *)
(* always enough.                                                          *)
VerifyChecksHold == x.ok

(* Every function computes the number it promises, whatever mixture of     *)
(* lazy, weakly and fully normalized operands the calls before it left.    *)
ValueKept == Value(rep, Words(x)) = val

(* A number has one canonical form: a normalized field element is below    *)
(* the characteristic, and a scalar is always below the order.             *)
Canonical ==
    (Field => x.norm) => Below(Words(x), ModulusWords(rep), Limb(rep))

(* Every question about a field element is answered by its value, not by   *)
(* its representation: the zero tests without normalizing agree with the   *)
(* value, comparison is that of the numbers, and the serialization is the  *)
(* number in other digits.                                                 *)
Compared(c, t) == c = Flag(Below(t, x.n, Limb(rep))) - Flag(Below(x.n, t, Limb(rep)))
Serialized(b, odd) ==
    (b[0] % 2 = 1) = odd /\ \A q \in Factors(rep) : Residue(b, Digits(rep), Byte, q) = val[q]
FieldQuestions == Field =>
    /\ \A zero \in {IF Ten THEN F10!fe_normalizes_to_zero(x) ELSE F5!fe_normalizes_to_zero(x),
                    IF Ten THEN F10!fe_normalizes_to_zero_var(x)
                    ELSE F5!fe_normalizes_to_zero_var(x)} : zero = (val = Is(rep, 0))
    /\ x.norm =>
         /\ (IF Ten THEN F10!fe_is_zero(x) ELSE F5!fe_is_zero(x)) = (val = Is(rep, 0))
         /\ Serialized(IF Ten THEN F10!fe_get_b32(x, Byte, Digits(rep))
                       ELSE F5!fe_get_b32(x, Byte, Digits(rep)),
                       IF Ten THEN F10!fe_is_odd(x) ELSE F5!fe_is_odd(x))
         /\ \A t \in Below_(rep) :
                Compared(IF Ten THEN F10!fe_cmp_var(x, [x EXCEPT !.n = t])
                         ELSE F5!fe_cmp_var(x, [x EXCEPT !.n = t]), t)

(* The same for scalars: overflow is recognized for strings on either side *)
(* of the order, high means above half the order, shifting and splitting   *)
(* lose nothing, bit windows may cross a word, and the product shifted     *)
(* down is rounded to the nearest integer.                                 *)
HalfWord == [i \in 0 .. Limb(rep) - 1 |-> Flag(i = Limb(rep) \div 2)]
ShiftedOut(s) == Value(rep, x.d) = Plus(Is(rep, s.ret), Times(Value(rep, s.r.d), Is(rep, 8)))
SplitInto(s) ==
    Value(rep, x.d) = Plus(Value(rep, s.r1.d), Times(Value(rep, s.r2.d), Value(rep, HalfWord)))
Window(o) == SumRange([b \in 0 .. 4 |-> BitOf(x.d, Limb(rep), Width(rep), o + b) * 2^b], 0, 4)
ScalarQuestions == Scalar =>
    /\ (IF Four THEN S4!scalar_is_zero(x) ELSE S8!scalar_is_zero(x)) = (val = Is(rep, 0))
    /\ (IF Four THEN S4!scalar_is_one(x) ELSE S8!scalar_is_one(x)) = (val = Is(rep, 1))
    /\ (IF Four THEN S4!scalar_is_high(x) ELSE S8!scalar_is_high(x))
           = Below(IF Four THEN S4!N_H ELSE S8!N_H, x.d, Limb(rep))
    /\ \A t \in Below_(rep) \cup Above_(rep) :
          /\ ~Below(t, ModulusWords(rep), Limb(rep))
               = (IF Four THEN S4!scalar_check_overflow(t) ELSE S8!scalar_check_overflow(t))
          /\ (t = x.d) = (IF Four THEN S4!scalar_eq(x, [x EXCEPT !.d = t])
                          ELSE S8!scalar_eq(x, [x EXCEPT !.d = t]))
    /\ \A o \in {0, Width(rep) - 3, Limb(rep) * Width(rep) - 5} :
          Window(o) = (IF Four THEN S4!scalar_get_bits_var(x, o, 5)
                       ELSE S8!scalar_get_bits_var(x, o, 5))
    /\ ShiftedOut(IF Four THEN S4!scalar_shr_int(x, 3) ELSE S8!scalar_shr_int(x, 3))
    /\ SplitInto(IF Four THEN S4!scalar_split_128(x) ELSE S8!scalar_split_128(x))

(* In all four representations, the shortcuts that skip a normalization    *)
(* never change an answer.                                                 *)
QuestionsExact == FieldQuestions /\ ScalarQuestions

(* mul_shift_var rounds to nearest: checked against the digits of the full *)
(* product for shifts on and off a word boundary.                          *)
RoundedProduct(r, l, shift) ==
    r.ok /\ r.d = Carried([Regroup(l, 2 * Limb(rep), Width(rep), shift, Width(rep), Limb(rep))
                              EXCEPT ![0] = @ + BitOf(l, 2 * Limb(rep), Width(rep), shift - 1)],
                          Limb(rep), Width(rep))
AllRounded(l, n, w) ==
    \A shift \in {n * w, n * w + w \div 2 + 3, 2 * n * w - 1} :
        LET y == [x EXCEPT !.d = Pattern(rep, 1)]
        IN  RoundedProduct(IF Four THEN S4!scalar_mul_shift_var(x, y, shift)
                           ELSE S8!scalar_mul_shift_var(x, y, shift), l, shift)
ShiftedProductRounds == Scalar =>
    AllRounded(IF Four THEN S4!scalar_mul_512(x.d, Pattern(rep, 1)).l
               ELSE S8!scalar_mul_512(x.d, Pattern(rep, 1)).l, Limb(rep), Width(rep))
============================================================================
