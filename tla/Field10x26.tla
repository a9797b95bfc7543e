----------------------------- MODULE Field10x26 -----------------------------
(***************************************************************************)
(* libsecp256k1, src/field_10x26_impl.h: field elements in ten limbs with  *)
(* lazy carries, for 32-bit machines.  The code has W = 26, T = 22, C0 =   *)
(* 16^^3D1, C1 = 16^^40, ten limbs, products of magnitude up to 8 and      *)
(* 64-bit accumulators; the module keeps the limbs and scales the widths.  *)
(*                                                                         *)
(* An element is [n, mag, norm, ok]: the limbs, the magnitude and the      *)
(* normalized flag of a VERIFY build, and ok, false once one of that       *)
(* build's VERIFY_CHECKs would have failed on the way to the element.      *)
(***************************************************************************)
EXTENDS Limbs

CONSTANTS W,         \* bits of a limb
          T,         \* bits of the top limb
          C0, C1,    \* 2^(9W+T) - p = C1 * 2^W + C0
          MaxMul,    \* the magnitude fe_mul and fe_sqr accept
          MaxMag,    \* the magnitude an element may reach
          AccBits    \* bits of the accumulators of fe_mul_inner

N == 10
Top == N - 1
Idx == 0 .. Top
M == 2^W - 1
MT == 2^T - 1
S == W - T
P == [i \in Idx |-> CASE i = 0 -> 2^W - C0 [] i = 1 -> M - C1
                      [] i = Top -> MT [] OTHER -> M]

AtLeastP(t) ==
    /\ t[Top] = MT
    /\ \A i \in 2 .. Top - 1 : t[i] = M
    /\ t[1] + C1 + High(t[0] + C0, W) > M

fe_verify(a) ==
    LET m == IF a.norm THEN 1 ELSE 2 * a.mag
    IN  /\ \A i \in Idx : a.n[i] \in 0 .. (IF i = Top THEN MT ELSE M) * m
        /\ a.mag \in 0 .. MaxMag
        /\ a.norm => a.mag <= 1 /\ ~AtLeastP(a.n)

FeChecked(a) == [a EXCEPT !.ok = @ /\ fe_verify(a)]
Fe(n, mag, norm, ok) == FeChecked([n |-> n, mag |-> mag, norm |-> norm, ok |-> ok])

(* The first pass of every normalization. *)
FirstPass(t) ==
    LET x == High(t[Top], T)
    IN  Carried([t EXCEPT ![Top] = Low(@, T), ![0] = @ + x * C0,
                          ![1] = @ + x * C1], N, W)

(* Mutant: the final reduction only looks at the bit above the top limb. *)
OvershootTopOnly(f) == High(f[Top], T)

Overshoot(f) == IF High(f[Top], T) > 0 THEN High(f[Top], T)
                ELSE Flag(AtLeastP(f))

(* The result of the first pass, with at most one bit above the top limb.  *)
Checked1(f, norm, ok) == Fe(f, 1, norm, ok /\ High(f[Top], T + 1) = 0)

(* The result of the second pass, which carries out x as it must.          *)
Checked2(s, x, ok) == Fe([s EXCEPT ![Top] = Low(@, T)], 1, TRUE, ok /\ High(s[Top], T) = x)
SecondPass(f, x, ok) ==
    Checked2(Carried([f EXCEPT ![0] = @ + x * C0, ![1] = @ + x * C1], N, W), x, ok)
NormalizedFrom(f, ok) == SecondPass(f, Overshoot(f), ok /\ High(f[Top], T + 1) = 0)
fe_normalize(r) == NormalizedFrom(FirstPass(r.n), r.ok)

fe_normalize_weak(r) == Checked1(FirstPass(r.n), r.norm, r.ok)

(* The second pass only if it is needed. *)
SecondPassVar(f, x, ok) ==
    IF x = 0 THEN Checked1(f, TRUE, ok)
    ELSE Checked2(Carried([f EXCEPT ![0] = @ + C0, ![1] = @ + x * C1], N, W), x,
                  ok /\ High(f[Top], T + 1) = 0)
NormalizedVarFrom(f, ok) == SecondPassVar(f, Overshoot(f), ok)
fe_normalize_var(r) == NormalizedVarFrom(FirstPass(r.n), r.ok)

IsRaw0OrP(f) == (\A i \in Idx : f[i] = 0) \/ f = P

fe_normalizes_to_zero(r) == IsRaw0OrP(FirstPass(r.n))

(* The fast path looks at the lowest limb alone. *)
fe_normalizes_to_zero_var(r) ==
    LET z0 == Low(r.n[0] + High(r.n[Top], T) * C0, W)
    IN  z0 \in {0, P[0]} /\ IsRaw0OrP(FirstPass(r.n))

fe_set_int(a) == Fe([i \in Idx |-> IF i = 0 THEN a ELSE 0], 1, TRUE, TRUE)
fe_clear == Fe([i \in Idx |-> 0], 0, TRUE, TRUE)
fe_is_zero(a) == \A i \in Idx : a.n[i] = 0
fe_is_odd(a) == a.n[0] % 2 = 1

fe_cmp_var(a, b) ==
    IF a.n = b.n THEN 0
    ELSE LET i == CHOOSE j \in Idx : /\ a.n[j] # b.n[j]
                                     /\ \A l \in j + 1 .. Top : a.n[l] = b.n[l]
         IN  IF a.n[i] > b.n[i] THEN 1 ELSE -1

(* The 32 bytes, here v-bit digits, least significant first. *)
fe_get_b32(a, v, k) == Regroup(a.n, N, W, 0, v, k)
Parsed(t) ==
    [ret |-> ~AtLeastP(t), r |-> [n |-> t, mag |-> 1, norm |-> ~AtLeastP(t), ok |-> TRUE]]
fe_set_b32(b, v, k) == Parsed(Regroup(b, k, v, 0, W, N))

(* Mutant: the multiple of p subtracted from covers magnitude m - 1 only.  *)
fe_negate_below(a, m) ==
    Fe([i \in Idx |-> P[i] * 2 * m - a.n[i]], m + 1, FALSE,
       a.ok /\ a.mag <= m)

fe_negate(a, m) ==
    Fe([i \in Idx |-> P[i] * 2 * (m + 1) - a.n[i]], m + 1, FALSE,
       a.ok /\ a.mag <= m)

fe_mul_int(r, a) == Fe([i \in Idx |-> r.n[i] * a], r.mag * a, FALSE, r.ok)

fe_add(r, a) ==
    Fe([i \in Idx |-> r.n[i] + a.n[i]], r.mag + a.mag, FALSE, r.ok /\ a.ok)

(* One round of the multiplication: column k and column k + N enter the    *)
(* accumulators, the low limb u of d folds into c, one limb leaves c.      *)
R0 == C0 * 2^S
R1 == C1 * 2^S
Fits(c, d) == c < 2^AccBits /\ d < 2^AccBits /\ c >= 0 /\ d >= 0

MulRound(s, p, k) ==
    LET d0 == s.d + p[k + N]
        u == Low(d0, W)
        c0 == s.c + p[k] + u * R0
    IN  IF ~s.ok THEN s
        ELSE [d |-> High(d0, W), c |-> High(c0, W) + u * R1,
              t |-> [s.t EXCEPT ![k] = Low(c0, W)], ok |-> Fits(c0, d0)]

MulRounds(p) ==
    LET s[k \in -1 .. Top - 1] ==
            IF k = -1
            THEN [d |-> High(p[Top], W), c |-> 0, ok |-> Fits(0, p[Top]),
                  t |-> [i \in Idx |-> IF i = Top THEN Low(p[Top], W) ELSE 0]]
            ELSE MulRound(s[k - 1], p, k)
    IN  s[Top - 1]

(* What is left above bit 9W+T folds into the lowest limbs. *)
MulFinal(s) ==
    LET c == s.c + s.d * R0 + s.t[Top]
        h == High(c, T) + s.d * R1 * 2^S
        d == h * C0 + s.t[0]
        e == High(d, W) + h * C1 + s.t[1]
    IN  [n |-> [s.t EXCEPT ![Top] = Low(c, T), ![0] = Low(d, W),
                           ![1] = Low(e, W), ![2] = High(e, W) + @],
         ok |-> s.ok /\ Fits(c, h) /\ Fits(d, e)]

fe_mul_inner(a, b) ==
    MulFinal(MulRounds([k \in 0 .. 2 * N - 2 |-> Column(a, b, N, k)]))

(* Squaring doubles the cross products instead of adding them twice. *)
SqrColumn(a, k) ==
    SumRange([i \in Idx |-> 2 * a[i] * a[k - i]], Lo(k, N), (k - 1) \div 2)
    + (IF k % 2 = 0 THEN a[k \div 2] * a[k \div 2] ELSE 0)

fe_sqr_inner(a) ==
    MulFinal(MulRounds([k \in 0 .. 2 * N - 2 |-> SqrColumn(a, k)]))

Product(s, ok) == Fe(s.n, 1, FALSE, ok /\ s.ok)

fe_mul(a, b) ==
    Product(fe_mul_inner(a.n, b.n),
            a.ok /\ b.ok /\ a.mag <= MaxMul /\ b.mag <= MaxMul)
fe_sqr(a) == Product(fe_sqr_inner(a.n), a.ok /\ a.mag <= MaxMul)

fe_cmov(r, a, flag) ==
    [n |-> IF flag THEN a.n ELSE r.n,
     mag |-> IF a.mag > r.mag THEN a.mag ELSE r.mag,
     norm |-> r.norm /\ a.norm, ok |-> r.ok /\ a.ok]

(* Storage packs the limbs into full words of v bits. *)
fe_storage_cmov(r, a, flag) == IF flag THEN a ELSE r
fe_to_storage(a, v, k) == Regroup(a.n, N, W, 0, v, k)
fe_from_storage(s, v, k) == Fe(Regroup(s, k, v, 0, W, N), 1, TRUE, TRUE)
=============================================================================
