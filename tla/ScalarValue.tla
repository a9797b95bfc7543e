---------------------------- MODULE ScalarValue ----------------------------
(***************************************************************************)
(* libsecp256k1: scalars as the code above their words sees them, numbers  *)
(* below the group order, as in src/scalar_low_impl.h; that the words      *)
(* implement them is what LimbMachine checks.  What src/scalar_impl.h adds *)
(* is modelled over a small order: ScalarBits stands for 256.  A scalar    *)
(* returned together with the legality of the call is [r, ok].             *)
(***************************************************************************)
EXTENDS Group

CONSTANTS ORDER,          \* the order of the group
          ScalarBits,     \* bits of a scalar
          LAMBDA_,        \* lambda * (x, y) = (BETA * x, y)
          MinusB1, MinusB2, G1, G2,   \* the constants of split_lambda
          SplitShift      \* its shift: 272

ASSUME ScalarAssumption ==
    /\ ScalarBits % 2 = 0
    /\ ORDER \in 2^(ScalarBits - 1) .. 2^ScalarBits - 1
    /\ {LAMBDA_, MinusB1, MinusB2, G1, G2} \subseteq 0 .. ORDER - 1

scalar_is_even(a) == a % 2 = 0
scalar_get_bits(a, offset, count) == (a \div 2^offset) % 2^count
scalar_check_overflow(a) == a >= ORDER
scalar_add(a, b) == (a + b) % ORDER
scalar_mul(a, b) == (a * b) % ORDER
scalar_negate(a) == IF a = 0 THEN 0 ELSE ORDER - a
scalar_is_high(a) == a > ORDER \div 2
scalar_cadd_bit(a, bit, flag) ==
    LET r == IF flag THEN a + 2^bit ELSE a
    IN  [r |-> r, ok |-> ~scalar_check_overflow(r)]
scalar_cond_negate(a, flag) ==
    [r |-> IF flag THEN scalar_negate(a) ELSE a, ret |-> IF flag THEN -1 ELSE 1]
scalar_shr_int(a, n) == [ret |-> a % 2^n, r |-> a \div 2^n]

(* A string of bytes is the number it stands for. *)
scalar_set_b32(b) == [r |-> b % ORDER, overflow |-> scalar_check_overflow(b)]
scalar_get_b32(a) == a

(* The chain of squarings and products is the power n - 2, which           *)
(* AdditionChains checks for the real n.                                   *)
scalar_inverse(x) ==
    LET f[k \in Nat] == IF k = 0 THEN 1
                        ELSE LET h == f[k \div 2]
                             IN  IF k % 2 = 0 THEN scalar_mul(h, h)
                                 ELSE scalar_mul(scalar_mul(h, h), x)
    IN  f[ORDER - 2]
scalar_inverse_var(x) == scalar_inverse(x)

scalar_split_128(a) ==
    [r1 |-> a % 2^(ScalarBits \div 2), r2 |-> a \div 2^(ScalarBits \div 2)]

scalar_mul_shift_var(a, b, shift) == (a * b + 2^(shift - 1)) \div 2^shift

(* r1 + r2 * lambda = a with r1 and r2 about half as long. *)
scalar_split_lambda(a) ==
    LET c1 == scalar_mul(scalar_mul_shift_var(a, G1, SplitShift), MinusB1)
        c2 == scalar_mul(scalar_mul_shift_var(a, G2, SplitShift), MinusB2)
        r2 == scalar_add(c1, c2)
    IN  [r1 |-> scalar_add(scalar_mul(r2, ORDER - LAMBDA_), a), r2 |-> r2]
=============================================================================
