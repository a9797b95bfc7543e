---------------------------- MODULE FieldElement ----------------------------
(***************************************************************************)
(* libsecp256k1: a field element as the code above the limbs sees it, the  *)
(* value it stands for with the magnitude and the normalized flag of a     *)
(* VERIFY build.  That the limbs implement these operations is what        *)
(* LimbMachine checks; the functions of src/field_impl.h are modelled      *)
(* here, over a small prime p with p % 4 = 3, as the real one is.          *)
(*                                                                         *)
(* An element is [v, mag, norm, ok]: ok is false once a VERIFY_CHECK       *)
(* would have failed on the way to it.                                     *)
(***************************************************************************)
EXTENDS Integers, Sequences

CONSTANTS P,         \* the characteristic
          MaxMul,    \* the magnitude fe_mul and fe_sqr accept: 8
          MaxMag     \* the magnitude an element may reach: 32

ASSUME FieldAssumption == P \in Nat /\ P % 4 = 3 /\ MaxMul \in Nat /\ MaxMag \in Nat

Fe(v, mag, norm, ok) ==
    [v |-> v % P, mag |-> mag, norm |-> norm, ok |-> ok /\ mag <= MaxMag]

fe_set_int(a) == Fe(a, 1, TRUE, TRUE)
fe_clear == Fe(0, 0, TRUE, TRUE)
Normal(v) == Fe(v, 1, TRUE, TRUE)

fe_normalize(a) == Fe(a.v, 1, TRUE, a.ok)
fe_normalize_weak(a) == Fe(a.v, 1, a.norm, a.ok)
fe_is_odd(a) == a.v % 2 = 1
fe_negate(a, m) == Fe(P - a.v, m + 1, FALSE, a.ok /\ a.mag <= m)

fe_add(r, a) == Fe(r.v + a.v, r.mag + a.mag, FALSE, r.ok /\ a.ok)
fe_mul(r, a) == Fe(r.v * a.v, 1, FALSE, r.ok /\ a.ok /\ r.mag <= MaxMul
                                             /\ a.mag <= MaxMul)
fe_mul_int(r, a) == Fe(r.v * a, r.mag * a, FALSE, r.ok)

(* Infix, as the formulas of the curve read. *)
r \oplus a == fe_add(r, a)
r \otimes a == fe_mul(r, a)
r \odot k == fe_mul_int(r, k)

fe_sqr(a) == a \otimes a

fe_cmov(r, a, flag) ==
    [v |-> IF flag THEN a.v ELSE r.v,
     mag |-> IF a.mag > r.mag THEN a.mag ELSE r.mag,
     norm |-> r.norm /\ a.norm, ok |-> r.ok /\ a.ok]

(* A string of bytes is the number it stands for. *)
fe_set_b32(b) == [ret |-> b < P, r |-> Fe(b, 1, b < P, TRUE)]
fe_get_b32(a) == a.v

(* Whether two elements are equal, and whether it was legal to ask. *)
fe_equal(a, b) ==
    LET na == fe_negate(a, 1) \oplus b IN [ret |-> na.v = 0, ok |-> na.ok]

Power(a, e) ==
    LET f[k \in Nat] == IF k = 0 THEN 1
                        ELSE LET h == f[k \div 2]
                             IN  IF k % 2 = 0 THEN (h * h) % P
                                 ELSE (((h * h) % P) * a) % P
    IN  f[e]
Powers(e) == [v \in 0 .. P - 1 |-> Power(v, e)]
Roots == Powers((P + 1) \div 4)
Inverses == Powers(P - 2)

(* The chain of squarings and products is the power (p + 1) / 4, which   *)
(* AdditionChains checks for the real p; then a test that it is a root.    *)
RootChecked(r, e) == [ret |-> e.ret, r |-> [r EXCEPT !.ok = @ /\ e.ok]]
RootOf(a, r) == RootChecked(r, fe_equal(fe_sqr(r), a))
fe_sqrt(a) == RootOf(a, Fe(Roots[a.v], 1, FALSE, a.ok /\ a.mag <= MaxMul))

fe_inv(a) == Fe(Inverses[a.v], 1, FALSE, a.ok /\ a.mag <= MaxMul)
fe_inv_var(a) == fe_inv(a)
fe_is_quad_var(a) == fe_sqrt(a)

(* All inverses of the sequence a for the price of one. *)
fe_inv_all_var(a) ==
    LET n == Len(a)
        pre[i \in 1 .. n] == IF i = 1 THEN a[1] ELSE pre[i - 1] \otimes a[i]
        u[i \in 1 .. n] == IF i = n THEN fe_inv_var(pre[n])
                           ELSE u[i + 1] \otimes a[i + 1]
    IN  [i \in 1 .. n |-> IF i = 1 THEN u[1] ELSE pre[i - 1] \otimes u[i]]
=============================================================================
