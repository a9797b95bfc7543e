------------------------------- MODULE Ecdsa -------------------------------
(***************************************************************************)
(* libsecp256k1: signatures.  src/ecdsa_impl.h (DER, verification and      *)
(* signing as in a build that is not for exhaustive tests),                *)
(* src/eckey_impl.h (serialized keys and tweaks) and                       *)
(* src/modules/recovery/main_impl.h (the key from a signature).  A byte    *)
(* string that holds a number is the number; only DER, which is about the  *)
(* bytes, works on sequences of them.                                      *)
(***************************************************************************)
EXTENDS Ecmult

CONSTANTS SizeT       \* bytes of a size_t: 8

ScalarBytes == ScalarBits \div 8

(* The length at position at, -1 if it is malformed, and what follows it.  *)
NoLength(at) == [len |-> -1, at |-> at]

(* The n bytes of a long length behind position at. *)
LongLength(sig, at, n) ==
    LET val[k \in 0 .. n] ==
            IF k = 0 THEN 0
            ELSE IF val[k - 1] > Len(sig) THEN val[k - 1]
            ELSE val[k - 1] * 256 + sig[at + k]
    IN  val[n]

(* A long length, its value being v. *)
ReadLong(sig, at, n, v) ==
    IF \/ n \in {0, 127}
       \/ n > Len(sig) - at
       \/ sig[at + 1] = 0
       \/ n > SizeT
       \/ v + n > Len(sig) - at
       \/ v < 128
    THEN NoLength(at)
    ELSE [len |-> v, at |-> at + 1 + n]

der_read_len(sig, at) ==
    IF at > Len(sig) THEN NoLength(at)
    ELSE IF sig[at] < 128 THEN [len |-> sig[at], at |-> at + 1]
    ELSE ReadLong(sig, at, sig[at] - 128, LongLength(sig, at, sig[at] - 128))

Number(b) == LET f[i \in 0 .. Len(b)] ==
                     IF i = 0 THEN 0 ELSE f[i - 1] * 256 + b[i]
             IN  f[Len(b)]

(* Mutant: a number that begins with a zero byte is taken as it is. *)
PaddedPositive(b) == FALSE

(* Longer than it need be. *)
Padded(b) == /\ Len(b) > 1
             /\ \/ b[1] = 0 /\ b[2] < 128
                \/ b[1] = 255 /\ b[2] >= 128

Zeros(b) == CHOOSE z \in 0 .. Len(b) : /\ \A i \in 1 .. z : b[i] = 0
                                        /\ z < Len(b) => b[z + 1] # 0
NonZero(v) == IF v.overflow THEN 0 ELSE v.r
ScalarOfDigits(d) ==
    IF Len(d) > ScalarBytes THEN 0 ELSE NonZero(scalar_set_b32(Number(d)))

(* A number that is negative or too large for a scalar is read as zero. *)
ScalarOfBytes(b) ==
    IF b[1] >= 128 THEN 0 ELSE ScalarOfDigits(SubSeq(b, Zeros(b) + 1, Len(b)))

(* The number of l.len bytes at l.at. *)
NumberAt(sig, at, l) ==
    IF \/ l.len <= 0
       \/ l.at + l.len - 1 > Len(sig)
       \/ Padded(SubSeq(sig, l.at, l.at + l.len - 1))
    THEN [ret |-> FALSE, r |-> 0, at |-> at]
    ELSE [ret |-> TRUE, at |-> l.at + l.len,
          r |-> ScalarOfBytes(SubSeq(sig, l.at, l.at + l.len - 1))]

der_parse_integer(sig, at) ==
    IF at > Len(sig) \/ sig[at] # 2 THEN [ret |-> FALSE, r |-> 0, at |-> at]
    ELSE NumberAt(sig, at, der_read_len(sig, at + 1))

(* Two numbers, and nothing behind the second. *)
BothNumbers(sig, r, s) ==
    [ret |-> r.ret /\ s.ret /\ s.at = Len(sig) + 1, r |-> r.r, s |-> s.r]
NumbersFrom(sig, r) == BothNumbers(sig, r, der_parse_integer(sig, r.at))
SequenceAt(sig, l) ==
    IF l.len < 0 \/ l.at + l.len # Len(sig) + 1 THEN [ret |-> FALSE, r |-> 0, s |-> 0]
    ELSE NumbersFrom(sig, der_parse_integer(sig, l.at))

ecdsa_sig_parse(sig) ==
    IF sig = <<>> \/ sig[1] # 48 THEN [ret |-> FALSE, r |-> 0, s |-> 0]
    ELSE SequenceAt(sig, der_read_len(sig, 2))

(* The bytes of a scalar behind a zero byte, as short as it may be. *)
Minimal(a) ==
    LET b == [i \in 1 .. ScalarBytes + 1 |->
                 (a \div 256^(ScalarBytes + 1 - i)) % 256]
        first == CHOOSE i \in 1 .. Len(b) :
                     /\ \A j \in 1 .. i - 1 : b[j] = 0 /\ b[j + 1] < 128
                     /\ i < Len(b) => b[i] # 0 \/ b[i + 1] >= 128
    IN  SubSeq(b, first, Len(b))

Encoded(size, r, s) ==
    LET need == 6 + Len(r) + Len(s)
    IN  [ret |-> size >= need, size |-> need,
         sig |-> IF size < need THEN <<>>
                 ELSE <<48, need - 2, 2, Len(r)>> \o r \o <<2, Len(s)>> \o s]
ecdsa_sig_serialize(size, ar, as) == Encoded(size, Minimal(ar), Minimal(as))
---------------------------------------------------------------------------
const_order_as_fe == Normal(ORDER)
const_p_minus_order == P - ORDER

(* Mutant: x of the point is not compared after a reduction by the order. *)
XIsOnly(sigr, pr) == gej_eq_x_var(fe_set_b32(sigr).r, pr)

(* Whether x of pr, modulo the order, is sigr: x is sigr or, if that is    *)
(* still below p, sigr + ORDER.                                            *)
XOrNext(sigr, pr, xr, e) ==
    IF e.ret \/ sigr >= const_p_minus_order THEN [e EXCEPT !.ok = @ /\ xr.norm]
    ELSE gej_eq_x_var(xr \oplus const_order_as_fe, pr)
XIsIn(sigr, pr, xr) == XOrNext(sigr, pr, xr, gej_eq_x_var(xr, pr))
XIs(sigr, pr) == XIsIn(sigr, pr, fe_set_b32(scalar_get_b32(sigr)).r)

(* The point of the nonce, if sn is the inverse of s. *)
NoncePoint(sn, sigr, pubkey, message) ==
    ecmult(gej_set_ge(pubkey), scalar_mul(sn, sigr), scalar_mul(sn, message))
VerifiedAt(sigr, pr) ==
    IF pr.infinity THEN [ret |-> FALSE, ok |-> pr.ok] ELSE XIs(sigr, pr)
ecdsa_sig_verify(sigr, sigs, pubkey, message) ==
    IF sigr = 0 \/ sigs = 0 THEN [ret |-> FALSE, ok |-> TRUE]
    ELSE VerifiedAt(sigr, NoncePoint(scalar_inverse_var(sigs), sigr, pubkey, message))

(* Mutant: the parity is not flipped with s. *)
RecoveryIdOfPoint(overflow, odd, high) == (IF overflow THEN 2 ELSE 0) + (IF odd THEN 1 ELSE 0)
RecoveryId(overflow, odd, high) ==
    (IF overflow THEN 2 ELSE 0) + (IF odd # high THEN 1 ELSE 0)

(* The code's VERIFY_CHECKs that x of the nonce's point is below the order *)
(* and not zero modulo it are of what cannot be met with in practice; over *)
(* a small curve it is.                                                    *)
SignedWith(r, sigr, s) ==
    [ret |-> s # 0, r |-> sigr.r, ok |-> r.ok /\ ~r.infinity,
     s |-> IF scalar_is_high(s) THEN scalar_negate(s) ELSE s,
     recid |-> RecoveryId(sigr.overflow, fe_is_odd(fe_normalize(r.y)), scalar_is_high(s))]
SignedAt(seckey, message, nonce, r, sigr) ==
    SignedWith(r, sigr, scalar_mul(scalar_inverse(nonce),
                            scalar_add(scalar_mul(sigr.r, seckey), message)))
SignedPoint(seckey, message, nonce, r) ==
    SignedAt(seckey, message, nonce, r, scalar_set_b32(fe_get_b32(fe_normalize(r.x))))
ecdsa_sig_sign(ctx, seckey, message, nonce) ==
    SignedPoint(seckey, message, nonce, ge_set_gej(ecmult_gen(ctx, nonce)))

(* [ret, q]: the key under which the signature verifies. *)
NoKey == [ret |-> FALSE, q |-> ge_clear]
KeyOf(qj) == [ret |-> ~qj.infinity, q |-> ge_set_gej_var(qj)]
RecoveredFrom(sigs, message, x, rn) ==
    IF ~x.ret THEN NoKey
    ELSE KeyOf(ecmult(gej_set_ge(x.r), scalar_mul(rn, sigs),
                      scalar_negate(scalar_mul(rn, message))))
XOfNonce(fx, recid) == IF recid >= 2 THEN fx \oplus const_order_as_fe ELSE fx
ecdsa_sig_recover(sigr, sigs, message, recid) ==
    IF sigr = 0 \/ sigs = 0 THEN NoKey
    ELSE IF recid >= 2 /\ sigr >= const_p_minus_order THEN NoKey
    ELSE RecoveredFrom(sigs, message,
             ge_set_xo_var(XOfNonce(fe_set_b32(scalar_get_b32(sigr)).r, recid),
                           recid % 2 = 1),
             scalar_inverse_var(sigr))
---------------------------------------------------------------------------
(* A serialized key: its first byte and its numbers. *)
CompressedKey(x, xo) == [ret |-> x.ret /\ xo.ret, r |-> xo.r]
PlainKey(tag, x, y, xy, valid) ==
    [ret |-> /\ x.ret /\ y.ret
             /\ tag # 4 => fe_is_odd(y.r) = (tag = 7)
             /\ valid.ret,
     r |-> Checked(xy, valid.ok)]
PlainKeyAt(tag, x, y, xy) == PlainKey(tag, x, y, xy, ge_is_valid_var(xy))
FirstNumber(pub, x) ==
    IF Len(pub.n) = 1 THEN CompressedKey(x, ge_set_xo_var(x.r, pub.tag = 3))
    ELSE PlainKeyAt(pub.tag, x, fe_set_b32(pub.n[2]),
                    ge_set_xy(x.r, fe_set_b32(pub.n[2]).r))
eckey_pubkey_parse(pub) ==
    IF <<Len(pub.n), pub.tag>> \in ({1} \X {2, 3}) \cup ({2} \X {4, 6, 7})
    THEN FirstNumber(pub, fe_set_b32(pub.n[1]))
    ELSE [ret |-> FALSE, r |-> ge_clear]

SerializedKey(x, y, compressed) ==
    IF compressed THEN [tag |-> IF fe_is_odd(y) THEN 3 ELSE 2, n |-> <<fe_get_b32(x)>>]
    ELSE [tag |-> 4, n |-> <<fe_get_b32(x), fe_get_b32(y)>>]
eckey_pubkey_serialize(elem, compressed) ==
    [ret |-> ~elem.infinity,
     pub |-> SerializedKey(fe_normalize(elem.x), fe_normalize(elem.y), compressed)]

eckey_privkey_tweak_add(key, tweak) ==
    [ret |-> scalar_add(key, tweak) # 0, r |-> scalar_add(key, tweak)]

TweakedKey(pt) == [ret |-> ~pt.infinity, r |-> ge_set_gej(pt)]

(* Mutant: the point at infinity is taken for a key. *)
eckey_pubkey_tweak_add_any(key, tweak) ==
    [ret |-> TRUE, r |-> ge_set_gej(ecmult(gej_set_ge(key), 1, tweak))]

eckey_pubkey_tweak_add(key, tweak) ==
    TweakedKey(ecmult(gej_set_ge(key), 1, tweak))

eckey_privkey_tweak_mul(key, tweak) ==
    [ret |-> tweak # 0, r |-> scalar_mul(key, tweak)]

eckey_pubkey_tweak_mul(key, tweak) ==
    [ret |-> tweak # 0, r |-> ge_set_gej(ecmult(gej_set_ge(key), tweak, 0))]
=============================================================================
