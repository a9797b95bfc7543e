------------------------------ MODULE Field5x52 ------------------------------
(***************************************************************************)
(* libsecp256k1, src/field_5x52_impl.h and src/field_5x52_int128_impl.h:   *)
(* field elements in five limbs with lazy carries, for machines with       *)
(* 128-bit integers.  The code has W = 52, T = 48, C = 16^^1000003D1,      *)
(* products of magnitude up to 8 and 128-bit accumulators; the module      *)
(* keeps the limbs and scales the widths.  An element is [n, mag, norm,    *)
(* ok] as in Field10x26.                                                   *)
(***************************************************************************)
EXTENDS Limbs

CONSTANTS W,         \* bits of a limb
          T,         \* bits of the top limb
          C,         \* 2^(4W+T) - p
          MaxMul,    \* the magnitude fe_mul and fe_sqr accept
          MaxMag,    \* the magnitude an element may reach
          AccBits    \* bits of the accumulators of fe_mul_inner

N == 5
Idx == 0 .. 4
M == 2^W - 1
MT == 2^T - 1
S == W - T
R == C * 2^S
P == [i \in Idx |-> CASE i = 0 -> 2^W - C [] i = 4 -> MT [] OTHER -> M]

(* What the code's widths satisfy, and the exactness of its arithmetic     *)
(* rests on: a limb is the top limb and S bits; a limb folded by R, a      *)
(* magnitude folded by C and the carries of the first pass stay within a   *)
(* limb; the columns of a product of two operands of magnitude MaxMul fold *)
(* into the top limb and fit, six times over, in an accumulator.           *)
Sizes ==
    /\ W \in Nat /\ T \in Nat /\ C \in Nat \ {0} /\ MaxMul \in Nat \ {0} /\ MaxMag \in Nat \ {0}
    /\ {2^W, 2^T, 2^S, 2^AccBits} \subseteq Nat \ {0}
    /\ 2^W = 2^T * 2^S /\ 2^(T + 1) = 2 * 2^T
    /\ 2 * R + 6 <= 2^W
    /\ MaxMag * C <= 2^W
    /\ 4 * MaxMag + 3 <= 2^T
    /\ 4 * MaxMul * MaxMul * (2 * C + 10) <= 2^T
    /\ 6 * (2 * MaxMul * 2^W) * (2 * MaxMul * 2^W) <= 2^AccBits

AtLeastP(t) ==
    t[4] = MT /\ (\A i \in 1 .. 3 : t[i] = M) /\ t[0] >= P[0]

fe_verify(a) ==
    LET m == IF a.norm THEN 1 ELSE 2 * a.mag
    IN  /\ \A i \in Idx : a.n[i] \in 0 .. (IF i = 4 THEN MT ELSE M) * m
        /\ a.mag \in 0 .. MaxMag
        /\ a.norm => a.mag <= 1 /\ ~AtLeastP(a.n)

FeChecked(a) == [a EXCEPT !.ok = @ /\ fe_verify(a)]
Fe(n, mag, norm, ok) == FeChecked([n |-> n, mag |-> mag, norm |-> norm, ok |-> ok])

FirstPass(t) ==
    Carried([t EXCEPT ![4] = Low(@, T), ![0] = @ + High(t[4], T) * C], N, W)

Overshoot(f) == IF High(f[4], T) > 0 THEN High(f[4], T) ELSE Flag(AtLeastP(f))

(* The result of the first pass, with at most one bit above the top limb.  *)
Checked1(f, norm, ok) == Fe(f, 1, norm, ok /\ High(f[4], T + 1) = 0)

(* The result of the second pass, which carries out x as it must.          *)
Checked2(s, x, ok) == Fe([s EXCEPT ![4] = Low(@, T)], 1, TRUE, ok /\ High(s[4], T) = x)
SecondPass(f, x, ok) ==
    Checked2(Carried([f EXCEPT ![0] = @ + x * C], N, W), x, ok)
NormalizedFrom(f, ok) == SecondPass(f, Overshoot(f), ok /\ High(f[4], T + 1) = 0)
fe_normalize(r) == NormalizedFrom(FirstPass(r.n), r.ok)

fe_normalize_weak(r) == Checked1(FirstPass(r.n), r.norm, r.ok)

(* The second pass only if it is needed. *)
SecondPassVar(f, x, ok) ==
    IF x = 0 THEN Checked1(f, TRUE, ok)
    ELSE Checked2(Carried([f EXCEPT ![0] = @ + C], N, W), x,
                  ok /\ High(f[4], T + 1) = 0)
NormalizedVarFrom(f, ok) == SecondPassVar(f, Overshoot(f), ok)
fe_normalize_var(r) == NormalizedVarFrom(FirstPass(r.n), r.ok)

IsRaw0OrP(f) == (\A i \in Idx : f[i] = 0) \/ f = P

fe_normalizes_to_zero(r) == IsRaw0OrP(FirstPass(r.n))

(* Mutant: the fast path forgets that the raw value may be p. *)
fe_normalizes_to_zero_var_P(r) ==
    /\ Low(r.n[0] + High(r.n[4], T) * C, W) = 0
    /\ IsRaw0OrP(FirstPass(r.n))

(* The fast path looks at the lowest limb alone. *)
fe_normalizes_to_zero_var(r) ==
    LET z0 == Low(r.n[0] + High(r.n[4], T) * C, W)
    IN  z0 \in {0, P[0]} /\ IsRaw0OrP(FirstPass(r.n))

fe_set_int(a) == Fe([i \in Idx |-> IF i = 0 THEN a ELSE 0], 1, TRUE, TRUE)
fe_clear == Fe([i \in Idx |-> 0], 0, TRUE, TRUE)
fe_is_zero(a) == \A i \in Idx : a.n[i] = 0
fe_is_odd(a) == a.n[0] % 2 = 1

fe_cmp_var(a, b) ==
    IF a.n = b.n THEN 0
    ELSE LET i == CHOOSE j \in Idx : /\ a.n[j] # b.n[j]
                                     /\ \A l \in j + 1 .. 4 : a.n[l] = b.n[l]
         IN  IF a.n[i] > b.n[i] THEN 1 ELSE -1

(* The 32 bytes, here v-bit digits, least significant first. *)
fe_get_b32(a, v, k) == Regroup(a.n, N, W, 0, v, k)
Parsed(t) ==
    [ret |-> ~AtLeastP(t), r |-> [n |-> t, mag |-> 1, norm |-> ~AtLeastP(t), ok |-> TRUE]]
fe_set_b32(b, v, k) == Parsed(Regroup(b, k, v, 0, W, N))

fe_negate(a, m) ==
    Fe([i \in Idx |-> P[i] * 2 * (m + 1) - a.n[i]], m + 1, FALSE,
       a.ok /\ a.mag <= m)

fe_mul_int(r, a) == Fe([i \in Idx |-> r.n[i] * a], r.mag * a, FALSE, r.ok)

fe_add(r, a) ==
    Fe([i \in Idx |-> r.n[i] + a.n[i]], r.mag + a.mag, FALSE, r.ok /\ a.ok)

(* The schedule of fe_mul_inner over the columns p: p(8), p(3) and p(4)    *)
(* give the top limbs t3 and t4, whose S excess bits tx join column 5 and  *)
(* fold, times C, into column 0; columns 6 and 7 fold into 1 and 2.        *)
Fits(x) == x >= 0 /\ x < 2^AccBits

MulTop(p) ==
    LET d3 == p[3] + Low(p[8], W) * R
        d4 == High(d3, W) + p[4] + High(p[8], W) * R
    IN  [t3 |-> Low(d3, W), t4 |-> Low(d4, T), tx |-> High(Low(d4, W), T),
         d |-> High(d4, W), ok |-> Fits(p[8]) /\ Fits(d3) /\ Fits(d4)]

MulLow(p, t) ==
    LET d5 == t.d + p[5]
        c == p[0] + (Low(d5, W) * 2^S + t.tx) * C
    IN  [d |-> High(d5, W), c |-> High(c, W), r0 |-> Low(c, W),
         ok |-> Fits(d5) /\ Fits(c)]

MulMiddle(p, t, l) ==
    LET d6 == l.d + p[6]
        c1 == l.c + p[1] + Low(d6, W) * R
        d7 == High(d6, W) + p[7]
        c2 == High(c1, W) + p[2] + Low(d7, W) * R
        c3 == High(c2, W) + High(d7, W) * R + t.t3
    IN  [n |-> [i \in Idx |-> CASE i = 0 -> l.r0 [] i = 1 -> Low(c1, W)
                                [] i = 2 -> Low(c2, W) [] i = 3 -> Low(c3, W)
                                [] i = 4 -> High(c3, W) + t.t4],
         ok |-> t.ok /\ l.ok /\ \A x \in {d6, c1, d7, c2, c3} : Fits(x)]

MulBelow(p, t) == MulMiddle(p, t, MulLow(p, t))
MulSchedule(p) == MulBelow(p, MulTop(p))

fe_mul_inner(a, b) == MulSchedule([k \in 0 .. 2 * N - 2 |-> Column(a, b, N, k)])

SqrColumn(a, k) ==
    SumRange([i \in Idx |-> 2 * a[i] * a[k - i]], Lo(k, N), (k - 1) \div 2)
    + (IF k % 2 = 0 THEN a[k \div 2] * a[k \div 2] ELSE 0)

fe_sqr_inner(a) == MulSchedule([k \in 0 .. 2 * N - 2 |-> SqrColumn(a, k)])

Product(s, ok) == Fe(s.n, 1, FALSE, ok /\ s.ok)

fe_mul(a, b) ==
    Product(fe_mul_inner(a.n, b.n),
            a.ok /\ b.ok /\ a.mag <= MaxMul /\ b.mag <= MaxMul)
fe_sqr(a) == Product(fe_sqr_inner(a.n), a.ok /\ a.mag <= MaxMul)

fe_cmov(r, a, flag) ==
    [n |-> IF flag THEN a.n ELSE r.n,
     mag |-> IF a.mag > r.mag THEN a.mag ELSE r.mag,
     norm |-> r.norm /\ a.norm, ok |-> r.ok /\ a.ok]

(* Storage packs the limbs into full words of v bits. *)
fe_storage_cmov(r, a, flag) == IF flag THEN a ELSE r
fe_to_storage(a, v, k) == Regroup(a.n, N, W, 0, v, k)
fe_from_storage(s, v, k) == Fe(Regroup(s, k, v, 0, W, N), 1, TRUE, TRUE)
==============================================================================
