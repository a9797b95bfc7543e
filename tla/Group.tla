------------------------------- MODULE Group -------------------------------
(***************************************************************************)
(* libsecp256k1, src/group_impl.h: the curve y^2 = x^3 + CURVE_B in affine *)
(* (ge: x, y, infinity) and Jacobian (gej: x, y, z, infinity) coordinates. *)
(* A point carries ok like a field element: false once a VERIFY_CHECK      *)
(* would have failed in its computation.  A point at infinity keeps        *)
(* whatever coordinates the code leaves in it.                             *)
(***************************************************************************)
EXTENDS FieldElement

CONSTANTS CURVE_B,       \* 7
          BETA,          \* a cube root of one: lambda * (x, y) = (beta * x, y)
          GX, GY         \* the generator

ge(x, y, inf, ok) == [x |-> x, y |-> y, infinity |-> inf,
                      ok |-> ok /\ x.ok /\ y.ok]
gej(x, y, z, inf, ok) == [x |-> x, y |-> y, z |-> z, infinity |-> inf,
                          ok |-> ok /\ x.ok /\ y.ok /\ z.ok]
Checked(a, ok) == [a EXCEPT !.ok = @ /\ ok]

ge_const_g == ge(Normal(GX), Normal(GY), FALSE, TRUE)

ge_set_gej_zinv(a, zi) ==
    LET zi2 == fe_sqr(zi)
        zi3 == zi2 \otimes zi
    IN  ge(a.x \otimes zi2, a.y \otimes zi3, a.infinity, a.ok)

ge_set_xy(x, y) == ge(x, y, FALSE, TRUE)
ge_neg(a) == ge(a.x, fe_negate(fe_normalize_weak(a.y), 1), a.infinity, a.ok)

(* The code leaves the affine coordinates in a too. *)
ge_set_gej(a) == ge_set_gej_zinv(a, fe_inv(a.z))
ge_set_gej_var(a) ==
    IF a.infinity THEN ge(fe_clear, fe_clear, TRUE, a.ok)
    ELSE ge_set_gej_zinv(a, fe_inv_var(a.z))

(* Points at infinity are passed over by the shared inversion. *)
ge_set_all_gej_var(a) ==
    LET finite == SelectSeq([i \in DOMAIN a |-> i], LAMBDA i : ~a[i].infinity)
        azi == fe_inv_all_var([k \in DOMAIN finite |-> a[finite[k]].z])
        at(i) == CHOOSE k \in DOMAIN finite : finite[k] = i
    IN  [i \in DOMAIN a |->
            IF a[i].infinity THEN ge(fe_clear, fe_clear, TRUE, a[i].ok)
            ELSE ge_set_gej_zinv(a[i], azi[at(i)])]

(* zr[i] is the ratio of the z of a[i] to that of a[i - 1]: one inversion  *)
(* at the end of the table serves it all.                                  *)
ge_set_table_gej_var(a, zr) ==
    LET n == Len(a)
        zi[i \in 1 .. n] == IF i = n THEN fe_inv(a[n].z)
                            ELSE zi[i + 1] \otimes zr[i + 1]
    IN  [i \in 1 .. n |-> ge_set_gej_zinv(a[i], zi[i])]

(* The table brought to the z of its last point, without an inversion. *)
ge_globalz_set_table_gej(a, zr) ==
    LET n == Len(a)
        zs[i \in 1 .. n] == IF i >= n - 1 THEN zr[n]
                            ELSE zs[i + 1] \otimes zr[i + 1]
    IN  [pre |-> [i \in 1 .. n |-> IF i = n THEN ge(a[n].x, a[n].y, FALSE, a[n].ok)
                                   ELSE ge_set_gej_zinv(a[i], zs[i])],
         globalz |-> a[n].z]

gej_set_infinity == gej(fe_clear, fe_clear, fe_clear, TRUE, TRUE)
gej_clear == gej(fe_clear, fe_clear, fe_clear, FALSE, TRUE)
ge_clear == ge(fe_clear, fe_clear, FALSE, TRUE)

CurveRhs(x) == fe_set_int(CURVE_B) \oplus (x \otimes fe_sqr(x))

XQuad(x, y) == [ret |-> y.ret, r |-> ge_set_xy(x, y.r)]
ge_set_xquad(x) == XQuad(x, fe_sqrt(CurveRhs(x)))

(* Mutant: the parity asked for is not looked at. *)
ge_set_xo_any(x, odd) == ge_set_xquad(x)

OfParity(y, odd) == IF fe_is_odd(y) = odd THEN y ELSE fe_negate(y, 1)
XOfParity(q, odd) ==
    IF q.ret THEN [q EXCEPT !.r.y = OfParity(fe_normalize(@), odd)] ELSE q
ge_set_xo_var(x, odd) == XOfParity(ge_set_xquad(x), odd)

gej_set_ge(a) == gej(a.x, a.y, fe_set_int(1), a.infinity, a.ok)

gej_eq_x_var(x, a) ==
    LET e == fe_equal(fe_sqr(a.z) \otimes x, fe_normalize_weak(a.x))
    IN  [ret |-> e.ret, ok |-> e.ok /\ ~a.infinity /\ a.ok]

(* Mutant: y is negated as if its magnitude were one. *)
gej_neg_lazy(a) == gej(a.x, fe_negate(a.y, 1), a.z, a.infinity, a.ok)
gej_neg(a) == gej(a.x, fe_negate(fe_normalize_weak(a.y), 1), a.z, a.infinity, a.ok)

gej_is_valid_var(a) ==
    LET z2 == fe_sqr(a.z)
        z6 == fe_sqr(z2) \otimes z2
        x3 == (fe_sqr(a.x) \otimes a.x) \oplus (z6 \odot CURVE_B)
        e == fe_equal(fe_sqr(a.y), fe_normalize_weak(x3))
    IN  IF a.infinity THEN [ret |-> FALSE, ok |-> a.ok] ELSE e

ge_is_valid_var(a) ==
    LET x3 == (fe_sqr(a.x) \otimes a.x) \oplus fe_set_int(CURVE_B)
    IN  IF a.infinity THEN [ret |-> FALSE, ok |-> a.ok]
        ELSE fe_equal(fe_sqr(a.y), fe_normalize_weak(x3))

(* [r, rzr]: the double and the ratio of its z to that of a. *)
DoubleAt(a, t1, t2, t3, t4, z) ==
    gej(fe_negate(t3 \odot 4, 4) \oplus t2,
        (t1 \otimes ((t3 \odot 6) \oplus fe_negate(t2, 1))) \oplus fe_negate(t4, 2),
        z, FALSE, a.ok)
DoubleWith(a, t1, yy) ==
    DoubleAt(a, t1, fe_sqr(t1), yy \otimes a.x, fe_sqr(yy) \odot 2,
             (a.z \otimes a.y) \odot 2)
gej_double_var(a) ==
    IF a.infinity THEN [r |-> a, rzr |-> fe_set_int(1)]
    ELSE [r |-> DoubleWith(a, fe_sqr(a.x) \odot 3, fe_sqr(a.y) \odot 2),
          rzr |-> fe_normalize_weak(a.y) \odot 2]

gej_double_nonzero(a) == Checked(gej_double_var(a).r, ~a.infinity)

(* What the three additions have in common, once the two points have the   *)
(* coordinates u1, s1 and u2, s2 over a common z: bz is what z still lacks *)
(* of the second point.  Equal points are doubled; for opposite ones only  *)
(* the flag of the result is set.                                          *)
ChordAt(a, s1, i, t, h3, x, z, ok) ==
    gej(x, ((fe_negate(x, 5) \oplus t) \otimes i) \oplus fe_negate(h3 \otimes s1, 1),
        z, FALSE, ok)
ChordOver(a, s1, i, t, h3, hz, ok) ==
    [r |-> ChordAt(a, s1, i, t, h3,
                   fe_negate((t \odot 2) \oplus h3, 3) \oplus fe_sqr(i), a.z \otimes hz, ok),
     rzr |-> hz]
ChordOf(a, u1, s1, h, i, bz, ok) ==
    LET h2 == fe_sqr(h)
    IN  IF h.v # 0 THEN ChordOver(a, s1, i, u1 \otimes h2, h \otimes h2,
                                  IF bz = <<>> THEN h ELSE h \otimes bz[1], ok)
        ELSE IF i.v = 0 THEN [gej_double_var(a) EXCEPT !.r = Checked(@, ok)]
        ELSE [r |-> [a EXCEPT !.infinity = TRUE, !.ok = ok], rzr |-> fe_set_int(0)]
ChordWith(a, u1, s1, h, i, bz, ok) ==
    ChordOf(a, u1, s1, h, i, bz, ok /\ a.ok /\ h.ok /\ i.ok)
Chord(a, u1, s1, u2, s2, bz, ok) ==
    ChordWith(a, u1, s1, fe_negate(u1, 1) \oplus u2, fe_negate(s1, 1) \oplus s2, bz, ok)

(* ratio: the caller passes a place for rzr. *)
gej_add_var(a, b, ratio) ==
    LET z22 == fe_sqr(b.z)
        z12 == fe_sqr(a.z)
    IN  IF a.infinity THEN [r |-> Checked(b, a.ok /\ ~ratio), rzr |-> fe_clear]
        ELSE IF b.infinity THEN [r |-> Checked(a, b.ok), rzr |-> fe_set_int(1)]
        ELSE Chord(a, a.x \otimes z22, (a.y \otimes z22) \otimes b.z,
                   b.x \otimes z12, (b.y \otimes z12) \otimes a.z, <<b.z>>, b.ok)

gej_add_ge_var(a, b, ratio) ==
    LET z12 == fe_sqr(a.z)
    IN  IF a.infinity
        THEN [r |-> Checked(gej_set_ge(b), a.ok /\ ~ratio), rzr |-> fe_clear]
        ELSE IF b.infinity THEN [r |-> Checked(a, b.ok), rzr |-> fe_set_int(1)]
        ELSE Chord(a, fe_normalize_weak(a.x), fe_normalize_weak(a.y),
                   b.x \otimes z12, (b.y \otimes z12) \otimes a.z, <<>>, b.ok)

(* b has the coordinates of an affine point over the z 1 / bzinv. *)
gej_add_zinv_var(a, b, bzinv) ==
    LET az == a.z \otimes bzinv
        z12 == fe_sqr(az)
        bzinv2 == fe_sqr(bzinv)
    IN  IF b.infinity THEN Checked(a, b.ok)
        ELSE IF a.infinity
        THEN gej(b.x \otimes bzinv2, b.y \otimes (bzinv2 \otimes bzinv),
                 fe_set_int(1), FALSE, a.ok /\ b.ok)
        ELSE Chord(a, fe_normalize_weak(a.x), fe_normalize_weak(a.y),
                   b.x \otimes z12, (b.y \otimes z12) \otimes az, <<>>, b.ok).r

(* Mutant: points related by beta are not told apart from others. *)
NeverDegenerate(m, rr) == FALSE
Degenerate(m, rr) == m.v = 0 /\ rr.v = 0

(* Numerator and denominator of lambda; when both are zero, which a pair   *)
(* related by beta makes them, the other expression for lambda is moved in.*)
Slope(u1, s1, neg_u2, m, rr) ==
    LET degenerate == Degenerate(m, rr)
    IN  [num |-> fe_cmov(s1 \odot 2, rr, ~degenerate),
         den |-> fe_cmov(neg_u2 \oplus u1, m, ~degenerate), degenerate |-> degenerate]

UnifiedAt(a, b, num, q, nn, z, x) ==
    LET y == fe_negate((((x \odot 2) \oplus q) \otimes num) \oplus nn, 3)
    IN  gej(fe_cmov(x \odot 4, b.x, a.infinity),
            fe_cmov(fe_normalize_weak(y) \odot 4, b.y, a.infinity),
            fe_cmov(z \odot 2, Normal(1), a.infinity),
            z.v = 0 /\ ~a.infinity,
            a.ok /\ b.ok /\ ~b.infinity)
UnifiedOver(a, b, num, q, nn, z) ==
    UnifiedAt(a, b, num, q, nn, z, fe_normalize_weak(fe_sqr(num) \oplus q))
UnifiedWith(a, b, t, m, slope, n) ==
    UnifiedOver(a, b, slope.num, fe_negate(n \otimes t, 1),
                fe_cmov(fe_sqr(n), m, slope.degenerate), a.z \otimes slope.den)
UnifiedAlong(a, b, t, m, slope) == UnifiedWith(a, b, t, m, slope, fe_sqr(slope.den))
UnifiedFrom(a, b, u1, s1, neg_u2, t, m) ==
    UnifiedAlong(a, b, t, m, Slope(u1, s1, neg_u2, m, fe_sqr(t) \oplus (u1 \otimes neg_u2)))
Unified(a, b, u1, u2, s1, s2) ==
    UnifiedFrom(a, b, u1, s1, fe_negate(u2, 1), u1 \oplus u2, s1 \oplus s2)

(* The unified addition: the same steps for every pair of points. *)
gej_add_ge(a, b) ==
    LET zz == fe_sqr(a.z)
    IN  Unified(a, b, fe_normalize_weak(a.x), b.x \otimes zz,
                fe_normalize_weak(a.y), (b.y \otimes zz) \otimes a.z)

gej_rescale(r, s) ==
    LET zz == fe_sqr(s)
    IN  gej(r.x \otimes zz, (r.y \otimes zz) \otimes s, r.z \otimes s,
            r.infinity, r.ok /\ s.norm /\ s.v # 0)

(* A stored point: the normalized coordinates. *)
ge_to_storage(a) == [x |-> a.x.v, y |-> a.y.v, ok |-> a.ok /\ ~a.infinity]
ge_from_storage(s) == ge(Normal(s.x), Normal(s.y), FALSE, s.ok)
ge_storage_cmov(r, a, flag) == Checked(IF flag THEN a ELSE r, r.ok /\ a.ok)

ge_mul_lambda(a) == ge(a.x \otimes Normal(BETA), a.y, a.infinity, a.ok)

(* Mutant: y of the representation in place of y of the point. *)
gej_has_quad_y_raw(a) ==
    LET q == fe_is_quad_var(a.y)
    IN  [ret |-> ~a.infinity /\ q.ret, ok |-> q.r.ok /\ a.ok]

gej_has_quad_y_var(a) ==
    IF a.infinity THEN [ret |-> FALSE, ok |-> a.ok]
    ELSE LET q == fe_is_quad_var(a.y \otimes a.z)
         IN  [ret |-> q.ret, ok |-> q.r.ok /\ a.ok]
=============================================================================
