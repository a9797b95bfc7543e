--------------------------- MODULE AdditionChains ---------------------------
(***************************************************************************)
(* libsecp256k1: which power fe_sqrt, fe_inv (src/field_impl.h) and        *)
(* scalar_inverse (src/scalar_impl.h) compute, for the characteristic and  *)
(* the order the code has.  A product adds exponents and a squaring        *)
(* doubles them, so a chain is followed on its exponents; these have 256   *)
(* bits and are known by their residues modulo every q of Moduli.          *)
(***************************************************************************)
EXTENDS Integers, Sequences

CONSTANT Moduli       \* pairwise coprime, with a product above 2^258

(* k squarings, then a product: e * 2^k + f, modulo q. *)
Then(q, e, k, f) ==
    LET two[i \in Nat] ==    \* 2^i modulo q
            IF i = 0 THEN 1
            ELSE LET h == two[i \div 2]
                 IN  (((h * h) % q) * (1 + (i % 2))) % q
    IN  (e * two[k] + f) % q

(* A chain is a sequence of steps <<from, k, f>>: result from, squared k   *)
(* times, then multiplied with result f (with nothing for -1).  Result 0   *)
(* is the element itself and result i that of step i.                      *)
Followed(q, chain) ==
    LET e[i \in 0 .. Len(chain)] ==
            IF i = 0 THEN 1
            ELSE LET step == chain[i]
                 IN  Then(q, e[step[1]], step[2], IF step[3] = -1 THEN 0 ELSE e[step[3]])
    IN  e[Len(chain)]

(* In both chains of the field, powers 2^n - 1, the ones of the exponent:  *)
(* x2, x3, x6, x9, x11, x22, x44, x88, x176, x220, x223.                   *)
FieldOnes ==
    << <<0, 1, 0>>, <<1, 1, 0>>, <<2, 3, 2>>, <<3, 3, 2>>, <<4, 2, 1>>, <<5, 11, 5>>,
       <<6, 22, 6>>, <<7, 44, 7>>, <<8, 88, 8>>, <<9, 44, 7>>, <<10, 3, 2>> >>

fe_sqrt_chain == FieldOnes \o << <<11, 23, 6>>, <<12, 6, 1>>, <<13, 2, -1>> >>

(* Mutant: one squaring too few before the last product. *)
fe_inv_chain_short ==
    FieldOnes \o << <<11, 23, 6>>, <<12, 5, 0>>, <<13, 3, 1>>, <<14, 1, 0>> >>
fe_inv_chain == FieldOnes \o << <<11, 23, 6>>, <<12, 5, 0>>, <<13, 3, 1>>, <<14, 2, 0>> >>

(* The upper half of the order: x2, x3, x4, x6, x7, x8, x15, x30, x60,     *)
(* x120, x127.  The lower half has no long runs: squarings and the ones    *)
(* that follow them.                                                       *)
ScalarOnes ==
    << <<0, 1, 0>>, <<1, 1, 0>>, <<2, 1, 0>>, <<3, 2, 1>>, <<4, 1, 0>>, <<5, 1, 0>>,
       <<6, 7, 5>>, <<7, 15, 7>>, <<8, 30, 8>>, <<9, 60, 9>>, <<10, 7, 5>> >>
ScalarTail ==
    << <<2, 1>>, <<4, 3>>, <<2, 1>>, <<2, 1>>, <<2, 1>>, <<4, 3>>, <<3, 2>>,
       <<4, 3>>, <<5, 3>>, <<4, 2>>, <<2, 1>>, <<2, 1>>, <<5, 4>>, <<2, 1>>,
       <<3, 1>>, <<4, 1>>, <<2, 1>>, <<10, 3>>, <<4, 3>>, <<9, 8>>, <<2, 1>>,
       <<3, 1>>, <<3, 1>>, <<5, 4>>, <<2, 1>>, <<5, 2>>, <<4, 2>>, <<2, 1>>,
       <<8, 2>>, <<3, 2>>, <<3, 1>>, <<6, 1>>, <<8, 6>> >>
OnesOf == [n \in {1, 2, 3, 4, 6, 8} |->    \* which result is 2^n - 1
              CASE n <= 4 -> n - 1 [] n = 6 -> 4 [] n = 8 -> 6]
scalar_inverse_chain ==
    ScalarOnes \o [i \in DOMAIN ScalarTail |->
                      <<Len(ScalarOnes) + i - 1, ScalarTail[i][1], OnesOf[ScalarTail[i][2]]>>]
---------------------------------------------------------------------------
(* The characteristic 2^256 - 2^32 - 977 and the order, 16 bits at a time. *)
Characteristic(q) == (Then(q, 1, 256, 0) - Then(q, 1, 32, 0) - 977) % q
Order(q) ==
    LET words == << 65535, 65535, 65535, 65535, 65535, 65535, 65535, 65534,
                    47790, 56550, 44872, 41019, 49106, 24204, 53302, 16705 >>
        f[i \in 0 .. 16] == IF i = 0 THEN 0 ELSE Then(q, f[i - 1], 16, words[i])
    IN  f[16]

(* Fermat's exponents for the constants the code has: the chains compute   *)
(* the inverses a^(p-2) and x^(n-2) and the root a^((p+1)/4), with no run  *)
(* of squarings one too long or too short.                                 *)
ChainExponents ==
    \A q \in Moduli :
        /\ Followed(q, fe_inv_chain) = (Characteristic(q) - 2) % q
        /\ Followed(q, scalar_inverse_chain) = (Order(q) - 2) % q
        /\ Then(q, Followed(q, fe_sqrt_chain), 2, 0) = (Characteristic(q) + 1) % q
=============================================================================
