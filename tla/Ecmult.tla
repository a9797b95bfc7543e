------------------------------- MODULE Ecmult -------------------------------
(***************************************************************************)
(* libsecp256k1: the three multiplications of points, as built with        *)
(* USE_ENDOMORPHISM.  src/ecmult_impl.h computes na * A + ng * G by        *)
(* interleaved windows, src/ecmult_const_impl.h k * A by steps that do not *)
(* depend on k, src/ecmult_gen_impl.h k * G from a table of multiples and  *)
(* a blinding value.  The code has windows of 5 and 15 bits and a table of *)
(* 64 rows of 4 bits; the module scales them with the scalars.             *)
(***************************************************************************)
EXTENDS ScalarValue
LOCAL INSTANCE FiniteSetsExt

CONSTANTS WINDOW_A, WINDOW_G,   \* bits of a window: 5 and 15
          GenBits,              \* bits of a row of the table of ecmult_gen: 4
          NumsX                 \* x of the point with no known logarithm

ASSUME WindowAssumption ==
    WINDOW_A > 2 /\ WINDOW_G > 2 /\ GenBits > 0 /\ ScalarBits % GenBits = 0

ECMULT_TABLE_SIZE(w) == 2^(w - 2)
HalfBits == ScalarBits \div 2

(* a, 3a, 5a, ... by additions of d = 2a on the curve where d is affine;   *)
(* zr are the ratios of the z of neighbours, and only the last z is right. *)
NextMultiple(s, i, d_ge) == Append(s, gej_add_ge_var(s[i].r, d_ge, TRUE))
OddMultiples(n, start, d_ge) ==
    LET upto[i \in 1 .. n] ==
            IF i = 1 THEN <<start>>
            ELSE NextMultiple(upto[i - 1], i - 1, d_ge)
    IN  upto[n]
OnIsomorphicCurve(a, a_ge, d) ==
    [r |-> gej(a_ge.x, a_ge.y, a.z, FALSE, a.ok /\ ~a.infinity), rzr |-> d.z]
BackOnCurve(n, t, d) ==
    [prej |-> [i \in 1 .. n |-> IF i = n THEN [t[i].r EXCEPT !.z = @ \otimes d.z]
                                ELSE t[i].r],
     zr |-> [i \in 1 .. n |-> t[i].rzr]]
OddMultiplesWith(n, a, d) ==
    BackOnCurve(n, OddMultiples(n, OnIsomorphicCurve(a, ge_set_gej_zinv(a, d.z), d),
                                ge(d.x, d.y, FALSE, d.ok)), d)
ecmult_odd_multiples_table(n, a) == OddMultiplesWith(n, a, gej_double_var(a).r)

OverGlobalZ(t) == ge_globalz_set_table_gej(t.prej, t.zr)
ecmult_odd_multiples_table_globalz_windowa(a) ==
    OverGlobalZ(ecmult_odd_multiples_table(ECMULT_TABLE_SIZE(WINDOW_A), a))

Stored(prea) == [i \in DOMAIN prea |-> ge_to_storage(prea[i])]
StoredTable(t) == Stored(ge_set_table_gej_var(t.prej, t.zr))
ecmult_odd_multiples_table_storage_var(n, a) == StoredTable(ecmult_odd_multiples_table(n, a))

LegalDigit(n, w) == n % 2 = 1 /\ n \in -(2^(w - 1) - 1) .. 2^(w - 1) - 1

ECMULT_TABLE_GET_GE(pre, n, w) ==
    Checked(IF n > 0 THEN pre[(n + 1) \div 2] ELSE ge_neg(pre[(1 - n) \div 2]),
            LegalDigit(n, w))

ECMULT_TABLE_GET_GE_STORAGE(pre, n, w) ==
    Checked(IF n > 0 THEN ge_from_storage(pre[(n + 1) \div 2])
            ELSE ge_neg(ge_from_storage(pre[(1 - n) \div 2])),
            LegalDigit(n, w))

(* a, 2a, 4a, ... *)
Doublings(a, n) ==
    LET g[i \in 0 .. n] == IF i = 0 THEN a ELSE gej_double_var(g[i - 1]).r IN g

(* The tables of the generator and of 2^128 times the generator. *)
ecmult_context_build ==
    LET gj == gej_set_ge(ge_const_g)
        n == ECMULT_TABLE_SIZE(WINDOW_G)
    IN  [pre_g |-> ecmult_odd_multiples_table_storage_var(n, gj),
         pre_g_128 |-> ecmult_odd_multiples_table_storage_var(n,
                           Doublings(gj, HalfBits)[HalfBits])]

(* The digits of a scalar: zero, or odd and below 2^(w - 1), w - 1 zeros   *)
(* after each that is not zero.  A scalar with its top bit set stands for  *)
(* a negative number.                                                      *)
ecmult_wnaf(len, a, w) ==
    LET negative == scalar_get_bits(a, ScalarBits - 1, 1) = 1
        s == IF negative THEN scalar_negate(a) ELSE a
        sign == IF negative THEN -1 ELSE 1
        walk[bit \in 0 .. len, carry \in 0 .. 1] ==
            IF bit = len
            THEN [wnaf |-> [i \in 0 .. len - 1 |-> 0], bits |-> 0,
                  ok |-> carry = 0 /\ s < 2^len]
            ELSE IF scalar_get_bits(s, bit, 1) = carry THEN walk[bit + 1, carry]
            ELSE LET now == IF w > len - bit THEN len - bit ELSE w
                     word == scalar_get_bits(s, bit, now) + carry
                     next == (word \div 2^(w - 1)) % 2
                     rest == walk[bit + now, next]
                 IN  [rest EXCEPT !.wnaf[bit] = sign * (word - next * 2^w),
                                  !.bits = IF @ = 0 THEN bit + 1 ELSE @]
    IN  walk[0, 0]

(* A digit of one of the four numbers is added, from the table for points  *)
(* over the common z or from that of the generator.                        *)
AddDigitA(r, naf, pre, i) ==
    IF i < naf.bits /\ naf.wnaf[i] # 0
    THEN gej_add_ge_var(r, ECMULT_TABLE_GET_GE(pre, naf.wnaf[i], WINDOW_A), FALSE).r
    ELSE r

AddDigitG(r, naf, pre, i, globalz) ==
    IF i < naf.bits /\ naf.wnaf[i] # 0
    THEN gej_add_zinv_var(r, ECMULT_TABLE_GET_GE_STORAGE(pre, naf.wnaf[i], WINDOW_G),
                          globalz)
    ELSE r

(* The doublings are shared by the four numbers, the longest of which has  *)
(* this many digits.                                                       *)
Interleaved(naf, ctx, pre_a, pre_a_lam, globalz, bits) ==
    LET acc[i \in 0 .. bits] ==
            IF i = bits THEN gej_set_infinity
            ELSE AddDigitG(AddDigitG(AddDigitA(AddDigitA(gej_double_var(acc[i + 1]).r,
                     naf[1], pre_a, i), naf[2], pre_a_lam, i),
                     naf[3], ctx.pre_g, i, globalz), naf[4], ctx.pre_g_128, i, globalz)
    IN  acc[0]

FromGlobalZ(r, globalz, ok) == gej(r.x, r.y, r.z \otimes globalz, r.infinity, r.ok /\ ok)

Scaled(r, globalz, ok) == IF r.infinity THEN Checked(r, ok) ELSE FromGlobalZ(r, globalz, ok)

MultipliedWith(naf, t) ==
    Scaled(Interleaved(naf, ecmult_context_build, t.pre,
                       [i \in DOMAIN t.pre |-> ge_mul_lambda(t.pre[i])], t.globalz,
                       Max({naf[j].bits : j \in 1 .. 4})),
           t.globalz, \A j \in 1 .. 4 : naf[j].ok)

Digits(n, g) ==
    <<ecmult_wnaf(HalfBits + 2, n.r1, WINDOW_A), ecmult_wnaf(HalfBits + 2, n.r2, WINDOW_A),
      ecmult_wnaf(HalfBits + 1, g.r1, WINDOW_G), ecmult_wnaf(HalfBits + 1, g.r2, WINDOW_G)>>

ecmult(a, na, ng) ==
    MultipliedWith(Digits(scalar_split_lambda(na), scalar_split_128(ng)),
                   ecmult_odd_multiples_table_globalz_windowa(a))
---------------------------------------------------------------------------
WNAF_SIZE(w) == (HalfBits + w - 1) \div w

(* Every entry of the table is read, one is kept. *)
ECMULT_CONST_TABLE_GET_GE(pre, n, w) ==
    LET abs_n == IF n > 0 THEN n ELSE -n
        pick[m \in 0 .. Len(pre)] ==
            IF m = 0 THEN <<fe_clear, fe_clear>>
            ELSE LET last == pick[m - 1]
                     kept == m - 1 = abs_n \div 2
                 IN  <<fe_cmov(last[1], pre[m].x, kept),
                       fe_cmov(last[2], pre[m].y, kept)>>
        xy == pick[Len(pre)]
        x == xy[1]
        y == xy[2]
    IN  ge(x, fe_cmov(y, fe_negate(y, 1), n # abs_n), FALSE, LegalDigit(n, w))

(* All digits are odd: the scalar is made odd by a skew of 1 or 2 that the *)
(* caller takes back, and minus one, to which 2 cannot be added, is only   *)
(* negated.                                                                *)
wnaf_const(s0, w) ==
    LET flip == scalar_is_high(s0)
        bit == IF flip = scalar_is_even(s0) THEN 1 ELSE 0
        not_neg_one == scalar_negate(s0) # 1
        s1 == scalar_cadd_bit(s0, bit, not_neg_one)
        s2 == scalar_cond_negate(s1.r, flip)
        global_sign == s2.ret * (IF not_neg_one THEN 1 ELSE -1)
        size == WNAF_SIZE(w)
        first == scalar_shr_int(s2.r, w)
        st[k \in 0 .. size] ==
            IF k = 0 THEN [s |-> first.r, u |-> first.ret, out |-> <<>>]
            ELSE LET before == st[k - 1]
                     last == before.u
                     x == scalar_shr_int(before.s, w)
                     shift == IF x.ret % 2 = 1 THEN 0 ELSE IF last > 0 THEN 1 ELSE -1
                 IN  [s |-> x.r, u |-> x.ret + shift,
                      out |-> Append(before.out,
                                     (last - shift * 2^w) * global_sign)]
        z == st[size]
    IN  [wnaf |-> Append(z.out, z.u * global_sign), skew |-> 2^bit,
         ok |-> s1.ok /\ z.s = 0]

(* The skews, one or two times a and lambda * a, are taken back. *)
Corrected(r, a, skew_1, skew_lam) ==
    LET a2 == ge_to_storage(ge_set_gej(gej_double_var(gej_set_ge(a)).r))
        by(skew) == ge_neg(ge_from_storage(
                        ge_storage_cmov(ge_to_storage(a), a2, skew = 2)))
    IN  gej_add_ge(gej_add_ge(r, by(skew_1)), ge_mul_lambda(by(skew_lam)))

(* Between two digits as many doublings as a window has bits.              *)
Windows(naf_1, naf_lam, pre_a, pre_a_lam, w) ==
    LET added(r, naf, pre, i) ==
            gej_add_ge(r, ECMULT_CONST_TABLE_GET_GE(pre, naf.wnaf[i + 1], WINDOW_A))
        size == WNAF_SIZE(w)
        acc[i \in 0 .. size] ==
            IF i = size
            THEN added(gej_set_ge(ECMULT_CONST_TABLE_GET_GE(pre_a, naf_1.wnaf[size + 1],
                                                            WINDOW_A)),
                       naf_lam, pre_a_lam, size)
            ELSE LET d[j \in 0 .. w] == IF j = 0 THEN acc[i + 1]
                                        ELSE gej_double_nonzero(d[j - 1])
                 IN  added(added(d[w], naf_1, pre_a, i), naf_lam, pre_a_lam, i)
    IN  acc[0]

(* The result over its own z, also when it is the point at infinity. *)
MultipliedConst(a, naf_1, naf_lam, pre_a, globalz) ==
    Corrected(FromGlobalZ(Windows(naf_1, naf_lam, pre_a,
                                  [i \in DOMAIN pre_a |-> ge_mul_lambda(pre_a[i])],
                                  WINDOW_A - 1),
                          globalz, naf_1.ok /\ naf_lam.ok),
              a, naf_1.skew, naf_lam.skew)

ConstTable(t) ==
    [t EXCEPT !.pre = [i \in DOMAIN t.pre |-> [t.pre[i] EXCEPT !.y = fe_normalize_weak(@)]]]

MultipliedByTable(a, naf_1, naf_lam, t) ==
    MultipliedConst(a, naf_1, naf_lam, t.pre, t.globalz)

ecmult_const(a, scalar) ==
    LET q == scalar_split_lambda(scalar)
    IN  MultipliedByTable(a, wnaf_const(q.r1, WINDOW_A - 1), wnaf_const(q.r2, WINDOW_A - 1),
            ConstTable(ecmult_odd_multiples_table_globalz_windowa(gej_set_ge(a))))
---------------------------------------------------------------------------
GenRows == ScalarBits \div GenBits
GenCols == 2^GenBits

(* A point of which nobody knows the logarithm. *)
NumsFrom(x, p) == Checked(gej_add_ge_var(gej_set_ge(p.r), ge_const_g, FALSE).r, x.ret /\ p.ret)
Nums == NumsFrom(fe_set_b32(NumsX), ge_set_xo_var(fe_set_b32(NumsX).r, FALSE))

(* Row j starts at nums_j, and these points add up to nothing. *)
RowStarts(nums) ==
    LET start[j \in 0 .. GenRows - 1] ==
            IF j = 0 THEN nums
            ELSE IF j < GenRows - 1 THEN gej_double_var(start[j - 1]).r
            ELSE gej_add_var(gej_neg(gej_double_var(start[j - 1]).r), nums, FALSE).r
    IN  start

Row(start, base) ==
    LET p[i \in 0 .. GenCols - 1] ==
            IF i = 0 THEN start ELSE gej_add_var(p[i - 1], base, FALSE).r
    IN  p

(* In one sequence, for the shared inversion. *)
RowAfterRow(rows) ==
    [k \in 1 .. GenRows * GenCols |-> rows[(k - 1) \div GenCols][(k - 1) % GenCols]]

InRows(prec) ==
    [j \in 0 .. GenRows - 1 |->
        [i \in 0 .. GenCols - 1 |-> ge_to_storage(prec[j * GenCols + i + 1])]]

(* Row j holds nums_j + i * (2^GenBits)^j * G for every digit i. *)
Rows(starts, gbase) ==
    [j \in 0 .. GenRows - 1 |-> Row(starts[j], gbase[j * GenBits])]

ecmult_gen_prec ==
    InRows(ge_set_all_gej_var(RowAfterRow(
        Rows(RowStarts(Nums), Doublings(gej_set_ge(ge_const_g), GenRows * GenBits)))))

AddRows(initial, gnb, prec) ==
    LET r[j \in 0 .. GenRows] ==
            IF j = 0 THEN initial
            ELSE LET bits == scalar_get_bits(gnb, (j - 1) * GenBits, GenBits)
                 IN  gej_add_ge(r[j - 1], ge_from_storage(prec[j - 1][bits]))
    IN  r[GenRows]

ecmult_gen(ctx, gn) == AddRows(ctx.initial, scalar_add(gn, ctx.blind), ecmult_gen_prec)

(* Mutant: the blinding scalar is kept with the sign of the starting point.*)
ecmult_gen_blind_same(ctx, seed, s, b) == [initial |-> ecmult_gen(ctx, b), blind |-> b]

(* Blinding: from its seed the code draws a field element s, not zero, and *)
(* a scalar b, not zero; here they are parameters.  Without a seed the     *)
(* context is reset first.                                                 *)
ecmult_gen_blind(ctx, seed, s, b) ==
    LET start == IF seed THEN ctx
                 ELSE [initial |-> gej_neg(gej_set_ge(ge_const_g)), blind |-> 1]
        scaled == [start EXCEPT !.initial = gej_rescale(@, Normal(s))]
    IN  [initial |-> ecmult_gen(scaled, b), blind |-> scalar_negate(b)]

ecmult_gen_context_build(s, b) ==
    ecmult_gen_blind([initial |-> gej_clear, blind |-> 0], FALSE, s, b)
=============================================================================
