----------------------------- MODULE Scalar4x64 -----------------------------
(***************************************************************************)
(* libsecp256k1, src/scalar_4x64_impl.h (the portable branches): numbers   *)
(* modulo the group order in four full words.  The code has W = 64 and     *)
(* the order 2^256 - (2^128 + NC1 * 2^64 + NC0); the module keeps the four *)
(* words and that shape and scales the width.  A scalar is [d, ok], ok as  *)
(* in WordAcc.                                                             *)
(***************************************************************************)
EXTENDS WordAcc

CONSTANTS W,           \* bits of a word
          NC0, NC1     \* the low words of 2^(4W) minus the order

N == 4
Half == 2
Idx == 0 .. N - 1
M == 2^W - 1
N_C == [i \in 0 .. Half |-> CASE i = 0 -> NC0 [] i = 1 -> NC1 [] i = 2 -> 1]
N_ == [i \in Idx |-> CASE i = 0 -> 2^W - NC0 [] i = 1 -> M - NC1
                       [] i = 2 -> M - 1 [] i = 3 -> M]
N_H == Regroup(N_, N, W, 1, W, N)

(* What the code's width and order satisfy, and the exactness of its       *)
(* arithmetic rests on: words of at least three bits, an order so little   *)
(* below 2^(4W) that two folds and one subtraction reduce a product, and   *)
(* N_H, which the code has as a constant, half of the order.               *)
Sizes ==
    /\ W \in Nat /\ {2^W, 2^(W - 1)} \subseteq Nat \ {0}
    /\ 2^W = 2 * 2^(W - 1) /\ 2^W >= 8
    /\ NC0 \in 1 .. M /\ NC1 \in 0 .. M /\ 3 * NC1 + 3 <= 2^W
    /\ N_[0] % 2 = 1 /\ N_H[N - 1] = N_[N - 1] \div 2
    /\ \A i \in 0 .. N - 2 : N_H[i] = N_[i] \div 2 + 2^(W - 1) * (N_[i + 1] % 2)

(* t & mask per word, t >>= W: the words and the carry out of the top. *)
WithCarry(s) == [d |-> [s EXCEPT ![N - 1] = Low(@, W)], c |-> High(s[N - 1], W)]
Wrapped(t) == WithCarry(Carried(t, N, W))

scalar_clear == [d |-> [i \in Idx |-> 0], ok |-> TRUE]
scalar_set_int(v) == [d |-> [i \in Idx |-> IF i = 0 THEN v ELSE 0], ok |-> TRUE]

scalar_get_bits(a, offset, count) ==
    Low(High(a.d[offset \div W], offset % W), count)
scalar_get_bits_var(a, offset, count) ==
    IF (offset + count - 1) \div W = offset \div W
    THEN scalar_get_bits(a, offset, count)
    ELSE Low(High(a.d[offset \div W], offset % W)
             + Low(a.d[offset \div W + 1] * 2^(W - (offset % W)), W), count)

scalar_check_overflow(d) ==
    LET no2 == d[3] < N_[3] \/ d[2] < N_[2]
        yes2 == d[2] > N_[2] /\ ~no2
        no1 == no2 \/ d[1] < N_[1]
    IN  yes2 \/ (d[1] > N_[1] /\ ~no1) \/ (d[0] >= N_[0] /\ ~no1)

scalar_reduce(d, overflow) ==
    Wrapped([i \in Idx |->
                d[i] + overflow * (IF i <= Half THEN N_C[i] ELSE 0)]).d

ReducedBy(s, overflow, ok) ==
    [d |-> scalar_reduce(s.d, overflow), ok |-> ok /\ overflow <= 1]
Reduced(s, ok) == ReducedBy(s, s.c + Flag(scalar_check_overflow(s.d)), ok)

scalar_add(a, b) == Reduced(Wrapped([i \in Idx |-> a.d[i] + b.d[i]]),
                            a.ok /\ b.ok)

BelowOrder(s, ok) == [d |-> s.d, ok |-> ok /\ s.c = 0 /\ ~scalar_check_overflow(s.d)]
scalar_cadd_bit(r, bit, flag) ==
    BelowOrder(Wrapped([i \in Idx |->
                   r.d[i] + (IF flag /\ bit \div W = i THEN 2^(bit % W) ELSE 0)]), r.ok)

(* The 32 bytes, here k digits of v bits, least significant first. *)
Parsed(d) == [r |-> Reduced([d |-> d, c |-> 0], TRUE), overflow |-> scalar_check_overflow(d)]
scalar_set_b32(b, v, k) == Parsed(Regroup(b, k, v, 0, W, N))
scalar_get_b32(a, v, k) == Regroup(a.d, N, W, 0, v, k)

scalar_is_zero(a) == \A i \in Idx : a.d[i] = 0
scalar_is_one(a) == a.d = scalar_set_int(1).d

(* ~a + order + 1, masked to zero for a = 0. *)
NegatedWords(d) ==
    Wrapped([i \in Idx |-> M - d[i] + N_[i] + Flag(i = 0)]).d
scalar_negate(a) ==
    IF scalar_is_zero(a) THEN [a EXCEPT !.d = scalar_clear.d]
                         ELSE [a EXCEPT !.d = NegatedWords(a.d)]

scalar_is_high(a) ==
    LET d == a.d
        no3 == d[3] < N_H[3]
        yes3 == d[3] > N_H[3] /\ ~no3
        no1 == no3 \/ (~yes3 /\ (d[2] < N_H[2] \/ d[1] < N_H[1]))
    IN  yes3 \/ (d[1] > N_H[1] /\ ~no1) \/ (d[0] > N_H[0] /\ ~no1)

scalar_cond_negate(r, flag) ==
    [r |-> IF flag THEN scalar_negate(r) ELSE r, ret |-> IF flag THEN -1 ELSE 1]

(* l = a * b, column by column; the first and the last are the fast ones. *)
FullProduct(z) == [l |-> [z.d EXCEPT ![2 * N - 1] = z.acc.c0],
                   ok |-> z.acc.ok /\ z.acc.c1 = 0]
ProductWords(columns) == FullProduct(AfterColumns(columns, 2 * N - 1, {0, 2 * N - 2}, W))

MulColumn(a, b, k) ==
    Products(IF k \in {0, 2 * N - 2} THEN "muladd_fast" ELSE "muladd",
             a, b, k, Lo(k, N), k - Lo(k, N))
scalar_mul_512(a, b) == ProductWords([k \in 0 .. 2 * N - 2 |-> MulColumn(a, b, k)])

Squared(macro, a, k) == IF k % 2 = 1 THEN <<>> ELSE << <<macro, a[k \div 2], a[k \div 2]>> >>
SqrColumn(a, k) ==
    IF k \in {0, 2 * N - 2} THEN Squared("muladd_fast", a, k)
    ELSE Products("muladd2", a, a, k, Lo(k, N), (k - 1) \div 2) \o Squared("muladd", a, k)
scalar_sqr_512(a) == ProductWords([k \in 0 .. 2 * N - 2 |-> SqrColumn(a, k)])

(* m = l[0..3] + l[4..7] * N_C: 385 bits. *)
FoldColumn512(l, k) ==
    (IF k = 0 THEN << <<"set", l[0]>> >>
     ELSE IF k = 1 THEN << <<"sumadd_fast", l[1]>> >>
     ELSE IF k < N THEN << <<"sumadd", l[k]>> >> ELSE <<>>)
    \o Products(IF k = 0 THEN "muladd_fast" ELSE "muladd", N_C, [i \in Idx |-> l[N + i]], k,
                Lo(k, N), IF k < Half THEN k ELSE Half - 1)
    \o (IF k < Half THEN <<>>
        ELSE << <<IF k = N + Half - 1 THEN "sumadd_fast" ELSE "sumadd", l[N + k - Half]>> >>)
Folded512(z) == [m |-> [z.d EXCEPT ![N + Half] = z.acc.c0],
                 ok |-> z.acc.ok /\ z.acc.c0 <= 1]
Fold512(l) ==
    Folded512(AfterColumns([k \in 0 .. N + Half - 1 |-> FoldColumn512(l, k)], N + Half,
                           {0, N + Half - 1}, W))

(* p = m[0..3] + m[4..6] * N_C: 258 bits. *)
FoldColumn385(m, k) ==
    << IF k = 0 THEN <<"set", m[0]>>
       ELSE <<IF k \in {1, N - 1} THEN "sumadd_fast" ELSE "sumadd", m[k]>> >>
    \o Products(IF k \in {0, N - 1} THEN "muladd_fast" ELSE "muladd",
                N_C, [i \in 0 .. Half |-> m[N + i]], k,
                IF k <= Half THEN 0 ELSE k - Half, IF k < Half THEN k ELSE Half - 1)
    \o (IF k < Half THEN <<>>
        ELSE << <<IF k = N - 1 THEN "sumadd_fast" ELSE "sumadd", m[N + k - Half]>> >>)
Folded385(z, top) == [p |-> [z.d EXCEPT ![N] = Low(z.acc.c0 + top, W)],
                      ok |-> z.acc.ok /\ z.acc.c0 + top <= 2]
Fold385(m) ==
    Folded385(AfterColumns([k \in Idx |-> FoldColumn385(m, k)], N, {0, N - 1}, W),
              m[N + Half])

(* r = p[0..3] + p[4] * N_C, then at most one subtraction of the order. *)
FoldTop(p) ==
    Wrapped([i \in Idx |-> p[i] + (IF i <= Half THEN N_C[i] * p[N] ELSE 0)])
Fold385Of(x, y) == Reduced(FoldTop(y.p), x.ok /\ y.ok)
Fold512Of(x) == Fold385Of(x, Fold385(x.m))
scalar_reduce_512(l) == Fold512Of(Fold512(l))

ReducedProduct(l, ok) == [scalar_reduce_512(l.l) EXCEPT !.ok = @ /\ l.ok /\ ok]

scalar_mul(a, b) == ReducedProduct(scalar_mul_512(a.d, b.d), a.ok /\ b.ok)
scalar_sqr(a) == ReducedProduct(scalar_sqr_512(a.d), a.ok)

scalar_shr_int(r, n) ==
    [ret |-> Low(r.d[0], n),
     r |-> [r EXCEPT !.d = [i \in Idx |->
                High(r.d[i], n) + (IF i = N - 1 THEN 0
                                   ELSE Low(r.d[i + 1] * 2^(W - n), W))]]]

scalar_split_128(a) ==
    [r1 |-> [a EXCEPT !.d = [i \in Idx |-> IF i < Half THEN a.d[i] ELSE 0]],
     r2 |-> [a EXCEPT !.d = [i \in Idx |-> IF i < Half THEN a.d[i + Half] ELSE 0]]]

scalar_eq(a, b) == \A i \in Idx : a.d[i] = b.d[i]

(* Mutant: rounded by the lowest bit kept, not by the highest one lost. *)
mul_shift_low_bit(a, b, shift) ==
    LET x == scalar_mul_512(a.d, b.d)
        r == [d |-> Regroup(x.l, 2 * N, W, shift, W, N),
              ok |-> a.ok /\ b.ok /\ x.ok]
    IN  scalar_cadd_bit(r, 0, BitOf(x.l, 2 * N, W, shift) = 1)

(* round(a * b / 2^shift), for shift at least the width of a scalar. *)
ShiftedWord(l, shift, i) ==
    LET limbs == shift \div W
        low == shift % W
    IN  (IF shift < (2 * N - i) * W THEN High(l[i + limbs], low) ELSE 0)
        + (IF shift < (2 * N - 1 - i) * W /\ low # 0
           THEN Low(l[1 + i + limbs] * 2^(W - low), W) ELSE 0)
Rounded(x, shift, ok) ==
    scalar_cadd_bit([d |-> [i \in Idx |-> ShiftedWord(x.l, shift, i)], ok |-> ok /\ x.ok],
                    0, BitOf(x.l, 2 * N, W, shift - 1) = 1)
scalar_mul_shift_var(a, b, shift) == Rounded(scalar_mul_512(a.d, b.d), shift, a.ok /\ b.ok)
=============================================================================
