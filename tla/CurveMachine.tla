---------------------------- MODULE CurveMachine ----------------------------
(***************************************************************************)
(* libsecp256k1 above the limbs, driven by a program that makes calls in   *)
(* any order.  In the part "point" it computes on one point in Jacobian    *)
(* coordinates, whose representation (z, magnitudes, stale coordinates at  *)
(* infinity) every call leaves to the next; in the part "key" it derives,  *)
(* tweaks and serializes a pair of keys and signs with it.  Beside the     *)
(* library's own state runs what it stands for: log, the logarithm of the  *)
(* point, and sec, that of the public key, against the textbook's group    *)
(* law and the textbook's ECDSA over a curve small enough to tabulate.     *)
(***************************************************************************)
EXTENDS Api, AdditionChains

CONSTANTS Scales,      \* field elements z that rescale a point
          Scalars,     \* factors of multiplications
          Blinds,      \* scalars that blind ecmult_gen
          FirstScale, FirstBlind,  \* what is drawn without a seed
          Secrets,     \* byte strings offered as secret keys
          Tweaks,      \* byte strings offered as tweaks
          Messages,    \* byte strings offered as message hashes
          NonceLists,  \* what the nonce function may offer, attempt by attempt
          MaxPoint, MaxKey   \* calls of a run in either part

VARIABLES part,        \* "point" or "key"
          pt, log,     \* a point, and its logarithm
          ctx,         \* the context: its blinding
          sec, pub,    \* secret key (0 after a failure) and key object
          sig,         \* the last signature, with what it signs
          steps

vars == <<part, pt, log, ctx, sec, pub, sig, steps>>
---------------------------------------------------------------------------
(* The textbook: affine points are pairs, Zero is the point at infinity.   *)
Zero == <<>>
Reciprocal(a) == CHOOSE i \in 1 .. P - 1 : (a * i) % P = 1
Law(p, q) ==
    LET slope == IF p = q THEN 3 * p[1] * p[1] * Reciprocal((2 * p[2]) % P)
                 ELSE (q[2] - p[2]) * Reciprocal((q[1] - p[1]) % P)
        x == ((slope % P) * (slope % P) - p[1] - q[1]) % P
    IN  IF p = Zero THEN q
        ELSE IF q = Zero THEN p
        ELSE IF p[1] = q[1] /\ p[2] # q[2] THEN Zero
        ELSE <<x, ((slope % P) * (p[1] - x) - p[2]) % P>>

Multiples ==
    LET f[k \in Nat] ==
            IF k = 0 THEN Zero
            ELSE LET h == f[k \div 2]
                 IN  IF k % 2 = 0 THEN Law(h, h) ELSE Law(Law(h, h), <<GX, GY>>)
    IN  [k \in 0 .. ORDER - 1 |-> f[k]]
Multiple(k) == Multiples[k % ORDER]
Minus(k) == (ORDER - k) % ORDER
Quotient(a, b) == CHOOSE i \in 0 .. ORDER - 1 : (i * b - a) % ORDER = 0

(* a is k times the generator. *)
Represents(a, k) ==
    LET z2 == (a.z.v * a.z.v) % P
        p == Multiple(k)
    IN  IF k % ORDER = 0 THEN a.infinity
        ELSE /\ ~a.infinity
             /\ a.z.v # 0
             /\ a.x.v = (p[1] * z2) % P
             /\ a.y.v = (p[2] * ((z2 * a.z.v) % P)) % P
---------------------------------------------------------------------------
(* Points a caller may hold: normalized, or with a lazily negated y; and   *)
(* the same over another z.                                                *)
Affine(k) ==
    LET n(j) == IF j = 0 THEN ge(fe_clear, fe_clear, TRUE, TRUE)
                ELSE ge(Normal(Multiple(j)[1]), Normal(Multiple(j)[2]), FALSE, TRUE)
    IN  {n(k), ge_neg(n(Minus(k)))}
Jacobian(k) == {gej_rescale(gej_set_ge(a), Normal(z)) : a \in Affine(k), z \in Scales}

(* The second operand of an addition: none of the special cases is left    *)
(* out (nothing, the same point, its negative, its images under lambda).   *)
Operands == {0, 1, log, Minus(log), scalar_mul(LAMBDA_, log),
             Minus(scalar_mul(LAMBDA_, log)),
             scalar_mul(LAMBDA_, scalar_mul(LAMBDA_, log))}

NoSignature == [r |-> 0, s |-> 0, recid |-> 0, msg |-> 0, by |-> 0, k |-> 0, ok |-> TRUE]

(* Without a seed the blinding is always the same: nothing random is in it. *)
Init == /\ part \in {"point", "key"}
        /\ pt = gej_set_ge(ge_const_g)
        /\ log = 1
        /\ ctx = context_create(TRUE, TRUE, FirstScale, FirstBlind)
        /\ sec = 0
        /\ pub = ZeroPubkey
        /\ sig = NoSignature
        /\ steps = 0

Call(p) == /\ part = p
           /\ steps < (IF p = "point" THEN MaxPoint ELSE MaxKey)
           /\ steps' = steps + 1
           /\ part' = part
Point(r, k) == /\ Call("point")
               /\ pt' = r
               /\ log' = k % ORDER
               /\ UNCHANGED <<ctx, sec, pub, sig>>

Double == Point(gej_double_var(pt).r, 2 * log)
AddVar == \E k \in Operands : \E b \in Jacobian(k) :
              Point(gej_add_var(pt, b, FALSE).r, log + k)
AddToOther == \E k \in Operands : \E b \in Jacobian(k) :
              Point(gej_add_var(b, pt, FALSE).r, log + k)
AddGeVar == \E k \in Operands : \E b \in Affine(k) :
              Point(gej_add_ge_var(pt, b, FALSE).r, log + k)
AddZinvVar ==
    \E k \in Operands : \E b \in Jacobian(k) :
        Point(gej_add_zinv_var(pt, ge(b.x, b.y, b.infinity, b.ok), fe_inv(b.z)), log + k)
AddGe == \E k \in Operands \ {0} : \E b \in Affine(k) :
              Point(gej_add_ge(pt, b), log + k)
Negate == Point(gej_neg(pt), Minus(log))
Rescale == \E s \in Scales : Point(gej_rescale(pt, Normal(s)), log)
ToAffine == \/ ~pt.infinity /\ Point(gej_set_ge(ge_set_gej(pt)), log)
            \/ Point(gej_set_ge(ge_set_gej_var(pt)), log)
            \/ Point(gej_set_ge(ge_set_all_gej_var(
                   <<gej_double_var(pt).r, gej_set_infinity, pt>>)[3]), log)
MulLambda == Point(gej_set_ge(ge_mul_lambda(ge_set_gej_var(pt))),
                   scalar_mul(LAMBDA_, log))
StoreLoad ==
    /\ ~pt.infinity
    /\ \E flag \in BOOLEAN :
          LET g == ge_to_storage(ge_const_g)
              a == ge_set_gej(pt)
              n == [a EXCEPT !.x = fe_normalize(@), !.y = fe_normalize(@)]
          IN  Point(gej_set_ge(ge_from_storage(
                  ge_storage_cmov(ge_to_storage(n), g, flag))), IF flag THEN 1 ELSE log)
LiftX ==
    /\ ~pt.infinity
    /\ \E odd \in BOOLEAN :
          LET q == ge_set_xo_var(fe_normalize(ge_set_gej(pt).x), odd)
          IN  Point(Checked(gej_set_ge(q.r), q.ret),
                    IF (Multiple(log)[2] % 2 = 1) = odd THEN log ELSE Minus(log))
Ecmult == ~pt.infinity /\ \E na, ng \in Scalars :
              Point(ecmult(pt, na, ng), na * log + ng)
EcmultConst == ~pt.infinity /\ \E k \in Scalars \ {0} :
              Point(ecmult_const(ge_set_gej(pt), k), k * log)
EcmultGen == \E k \in Scalars : Point(ecmult_gen(ctx.gen, k), k)

Randomize ==
    /\ Call(part)
    /\ \/ ctx' = context_randomize(ctx, FALSE, FirstScale, FirstBlind).ctx
       \/ \E s \in Scales, b \in Blinds :
             ctx' = context_clone(context_randomize(ctx, TRUE, s, b).ctx)
    /\ UNCHANGED <<pt, log, sec, pub, sig>>
---------------------------------------------------------------------------
(* A call with a key object that a failed call has zeroed is illegal: the  *)
(* callback of ARG_CHECK ends the program.                                 *)
Keys(s, q) == /\ Call("key")
              /\ q.legal
              /\ sec' = s
              /\ pub' = q.pubkey
              /\ UNCHANGED <<pt, log, ctx, sig>>

CreateKey == \E k \in Secrets :
    Keys(IF ec_seckey_verify(k) THEN k ELSE 0, ec_pubkey_create(ctx, k))
TweakAdd == \E t \in Tweaks \cup {Minus(sec)} :
    Keys(ec_privkey_tweak_add(sec, t).seckey, ec_pubkey_tweak_add(ctx, pub, t))
TweakMul == \E t \in Tweaks :
    Keys(ec_privkey_tweak_mul(sec, t).seckey, ec_pubkey_tweak_mul(ctx, pub, t))
Combine == \E k \in Tweaks \cup {Minus(sec)} :
    /\ ec_seckey_verify(k)
    /\ Keys(scalar_add(scalar_add(sec, k), sec),
            ec_pubkey_combine(<<pub, ec_pubkey_create(ctx, k).pubkey, pub>>))

(* The form with both coordinates and the parity in its tag is only read.  *)
Hybrid(p) == [p EXCEPT !.tag = 6 + (p.n[2] % 2)]
Reencode ==
    /\ pubkey_load(pub).legal
    /\ \/ \E c \in BOOLEAN :
             Keys(sec, ec_pubkey_parse(ext_reencode_pubkey(
                           ec_pubkey_serialize(pub, c).output, ~c).output))
       \/ Keys(sec, ec_pubkey_parse(Hybrid(ec_pubkey_serialize(pub, FALSE).output)))
ScalarProduct(k, m) == Keys(IF m.ret THEN scalar_mul(sec, k) ELSE sec,
                            [legal |-> TRUE, pubkey |-> m.point])
ScalarMul == \E k \in Tweaks :
    /\ pubkey_load(pub).legal
    /\ ScalarProduct(k, ext_scalar_mul(pub.x, pub.y, k))

(* x of k times the generator as a signature has it, and the message for   *)
(* which that nonce gives s = 0.                                           *)
XOf(k) == Multiple(k)[1] % ORDER
Unlucky(k) == Minus(scalar_mul(XOf(k), sec))

(* The first nonce that is good for anything; 0 if there is none.          *)
TheNonce(ns, m) ==
    LET good == {i \in DOMAIN ns : /\ ns[i] \in 1 .. ORDER - 1
                                   /\ scalar_add(m, scalar_mul(XOf(ns[i]), sec)) # 0}
    IN  IF good = {} \/ sec = 0 THEN 0
        ELSE ns[CHOOSE i \in good : \A j \in good : i <= j]

NewSignature(ns, m, s) ==
    /\ Call("key")
    /\ s.legal
    /\ sig' = [r |-> s.sig.r, s |-> s.sig.s, recid |-> s.sig.recid, ok |-> s.ok,
               msg |-> m % ORDER, by |-> IF s.ret THEN sec ELSE 0, k |-> TheNonce(ns, m)]
    /\ UNCHANGED <<pt, log, ctx, sec, pub>>
Sign == \E ns \in NonceLists :
    \E m \in Messages \cup {Unlucky(ns[i]) : i \in {j \in DOMAIN ns : ns[j] > 0}} :
        NewSignature(ns, m, ecdsa_sign_recoverable(ctx, m, sec, ns))

Next ==
    \/ Double \/ AddVar \/ AddToOther \/ AddGeVar \/ AddZinvVar \/ AddGe
    \/ Negate \/ Rescale \/ ToAffine \/ MulLambda \/ StoreLoad \/ LiftX
    \/ Ecmult \/ EcmultConst \/ EcmultGen \/ Randomize
    \/ CreateKey \/ TweakAdd \/ TweakMul \/ Combine \/ Reencode \/ ScalarMul
    \/ Sign

Spec == Init /\ [][Next]_vars
---------------------------------------------------------------------------
(* The addition chains of fe_inv, fe_sqrt and scalar_inverse, on which all *)
(* calls below rely for inverses and roots, end in Fermat's exponents for  *)
(* the characteristic and the order of the code.  No call changes them, so *)
(* they are looked at before the first one.                                *)
ChainsExact == steps = 0 => ChainExponents

(* No sequence of legal calls makes a VERIFY_CHECK of the library fail: no *)
(* element is multiplied with a magnitude above 8, none is read without    *)
(* being normalized, no table is made of the point at infinity, no digit   *)
(* leaves its table, no carry of a wnaf is left over.                      *)
CurveChecksHold == pt.ok /\ ctx.gen.initial.ok /\ pub.ok /\ sig.ok

(* The blinded start of ecmult_gen and its blinding scalar cancel out,     *)
(* also after a context was randomized again with its own earlier blinding.*)
BlindingKept == Represents(ctx.gen.initial, Minus(ctx.gen.blind))

(* Questions about a point are answered by the point, not by its           *)
(* coordinates.                                                            *)
Answers(a, yes) == a.ok /\ a.ret = yes
PointQuestions ==
    /\ Answers(gej_is_valid_var(pt), log # 0)
    /\ Answers(gej_has_quad_y_var(pt),
               log # 0 /\ \E y \in 0 .. P - 1 : (y * y) % P = Multiple(log)[2])
    /\ log # 0 => \A k \in {log, 2, 3} :
          Answers(gej_eq_x_var(Normal(Multiple(k)[1]), pt), k \in {log, Minus(log)})

(* Whatever calls came before and whatever z, magnitudes and stale         *)
(* coordinates they left, the point is the multiple of the generator that  *)
(* the textbook's law gives; so all four additions agree, in the special   *)
(* cases too, and so do the three multiplications; and what is asked of it *)
(* is answered for that multiple.                                          *)
GroupLaw == Represents(pt, log) /\ PointQuestions

(* The public half of a tweak, a sum or a product belongs to the secret    *)
(* half; if one of the two calls fails so does the other, and a key that   *)
(* was made can be used.                                                   *)
KeysAgree ==
    IF sec = 0 THEN pub = ZeroPubkey
    ELSE /\ <<pub.x, pub.y>> = Multiple(sec)
         /\ pubkey_load(pub).legal

(* A public key is accepted in exactly the forms that stand for a point:   *)
(* the first byte fits the length and the parity, the numbers are below    *)
(* the characteristic and on the curve.                                    *)
OnCurve(x, y) == x < P /\ y < P /\ (y * y - x * x * x - CURVE_B) % P = 0
IsKey(tag, x, ys) ==
    IF ys = <<>> THEN tag \in {2, 3} /\ \E y \in 0 .. P - 1 : OnCurve(x, y)
    ELSE /\ tag \in {4, 6, 7}
         /\ OnCurve(x, ys[1])
         /\ tag # 4 => ys[1] % 2 = tag % 2
YOf(tag, x, ys) ==
    IF ys = <<>> THEN CHOOSE y \in 0 .. P - 1 : OnCurve(x, y) /\ y % 2 = tag % 2 ELSE ys[1]
ParsedAs(p, tag, x, ys) ==
    /\ p.ret = IsKey(tag, x, ys)
    /\ p.ret => <<p.pubkey.x, p.pubkey.y>> = <<x, YOf(tag, x, ys)>>
KeyParseExact == sec # 0 =>
    \A tag \in 0 .. 8, x \in {pub.x, (pub.x + 1) % P, pub.x + P},
       ys \in {<<>>, <<pub.y>>, <<P - pub.y>>, <<pub.y + P>>} :
        ParsedAs(ec_pubkey_parse([tag |-> tag, n |-> <<x>> \o ys]), tag, x, ys)
---------------------------------------------------------------------------
(* The textbook's ECDSA, with the rule that s is at most half the order.   *)
Verifies(r, s, m, q) ==
    /\ r # 0
    /\ s \in 1 .. ORDER \div 2
    /\ LET k == Quotient(m + r * q, s) IN k # 0 /\ XOf(k) = r

(* A signature is made with the first nonce in 1 .. n - 1 that gives s # 0 *)
(* and fails only if there is none; it is the textbook's, with the lower   *)
(* s, however the context is blinded.                                      *)
SignatureExact ==
    IF sig.k = 0 THEN sig.by = 0 /\ sig.r = 0 /\ sig.s = 0
    ELSE LET s == Quotient(sig.msg + sig.r * sig.by, sig.k)
         IN  /\ sig.by # 0
             /\ sig.r = XOf(sig.k)
             /\ sig.s = IF s > ORDER \div 2 THEN ORDER - s ELSE s

(* A signature is accepted, by secp256k1_ecdsa_verify and through the      *)
(* bytes the Go wrapper passes, exactly when the textbook accepts it: also *)
(* when x of the nonce's point is not below the order, and only with the   *)
(* lower of the two values of s.                                           *)
Accepted(v, ext, yes) == v.legal /\ v.ok /\ v.ret = yes /\ ext = yes
VerifiedWith(q, bytes) ==
    \A r \in {sig.r, 0, (sig.r + 1) % ORDER}, s \in {sig.s, Minus(sig.s), 0},
       m \in {sig.msg, sig.msg + ORDER, sig.msg + 1} :
        Accepted(ecdsa_verify(ctx, [r |-> r, s |-> s], m, q),
                 ext_ecdsa_verify(ctx, r, s, m, bytes), Verifies(r, s, m, sig.by))
VerifiedWithKey(q) == VerifiedWith(q, ec_pubkey_serialize(q, TRUE).output)
VerifyExact == sig.by # 0 => VerifiedWithKey(ec_pubkey_create(ctx, sig.by).pubkey)

(* The identifier of a recoverable signature names the one key that made   *)
(* it, and whatever identifier is given, a key that is recovered verifies  *)
(* the signature.                                                          *)
LogOf(key) == CHOOSE k \in 1 .. ORDER - 1 : Multiple(k) = <<key.x, key.y>>
RecoveredAs(recid, p, e) ==
    /\ p.legal /\ p.pubkey.ok
    /\ p.ret => Verifies(sig.r, sig.s, sig.msg, LogOf(p.pubkey))
    /\ recid = sig.recid => p.ret /\ LogOf(p.pubkey) = sig.by
    /\ e.legal /\ e.ret = p.ret
RecoverExact == sig.by # 0 =>
    \A recid \in 0 .. 3 :
        RecoveredAs(recid,
            ecdsa_recover(ctx, [r |-> sig.r, s |-> sig.s, recid |-> recid], sig.msg),
            ext_ecdsa_recover(ctx, sig.r, sig.s, recid, sig.msg))
---------------------------------------------------------------------------
(* DER: tag, shortest length, contents.                                    *)
Lengthed(tag, c) ==
    <<tag>> \o (IF Len(c) < 128 THEN <<Len(c)>> ELSE <<129, Len(c)>>) \o c
Integer(c) == c # <<>> /\ (Len(c) > 1 => ~(c[1] = 0 /\ c[2] < 128)
                                         /\ ~(c[1] = 255 /\ c[2] >= 128))
IsDer(e) ==
    \E i \in 5 .. 8, n \in 1 .. Len(e), h \in 2 .. 3 :
        /\ i + n + h <= Len(e)
        /\ LET r == SubSeq(e, i, i + n - 1)
               s == SubSeq(e, i + n + h, Len(e))
           IN  /\ e = Lengthed(48, Lengthed(2, r) \o Lengthed(2, s))
               /\ Integer(r)
               /\ Integer(s)

(* An integer whose length does not fit in one byte.                       *)
Long == [i \in 1 .. 130 |-> 1]

(* What a byte of a valid encoding may be changed to, and what may be put  *)
(* in or left out.                                                         *)
Edits(e) ==
    LET cut(i, n) == SubSeq(e, 1, i - 1) \o SubSeq(e, i + n, Len(e))
        put(i, n, b) == SubSeq(e, 1, i - 1) \o b \o SubSeq(e, i + n, Len(e))
    IN  {e} \cup {cut(i, 1) : i \in 1 .. Len(e)}
            \cup {put(i, 1, <<b>>) : i \in 1 .. Len(e),
                                     b \in {0, 1, 2, 127, 128, 129, 255}}
            \cup {put(i, 0, <<b>>) : i \in 1 .. Len(e) + 1, b \in {0, 129, 255}}
            \cup {put(2, 1, <<e[2] + 1>>) \o <<0>>}
            \cup {<<48, e[2] + 1, 2, e[4] + 1, b>> \o SubSeq(e, 5, Len(e)) :
                      b \in {0, 128, 255}}
            \cup {<<48, 129, Len(e) + 128, 2>> \o length \o Long \o SubSeq(e, 5 + e[4], Len(e)) :
                      length \in {<<129, 130>>, <<130, 0, 130>>}}

CompactRead(r, s, p, n) ==
    /\ p.ret = (r < ORDER /\ s < ORDER)
    /\ p.ret => /\ ecdsa_signature_serialize_compact(p.sig) = <<r, s>>
                /\ n.ret = (s # sig.s)
                /\ n.sig = [r |-> sig.r, s |-> sig.s]
Compact ==
    \A r \in {sig.r, sig.r + ORDER}, s \in {sig.s, Minus(sig.s), ORDER} :
        LET p == ecdsa_signature_parse_compact(r, s)
        IN  CompactRead(r, s, p, ecdsa_signature_normalize(p.sig))

DerRead(e, whole, p) ==
    /\ p.ret = IsDer(e)
    /\ e = whole => p.sig = [r |-> sig.r, s |-> sig.s]
    /\ (p.ret /\ p.sig.r # 0 /\ p.sig.s # 0)
         => ecdsa_signature_serialize_der(p.sig, 32).sig = e
DerWritten(d) ==
    /\ d.ret
    /\ ~ecdsa_signature_serialize_der(sig, d.size - 1).ret
    /\ \A e \in Edits(d.sig) : DerRead(e, d.sig, ecdsa_signature_parse_der(e))
Der == DerWritten(ecdsa_signature_serialize_der(sig, 6 + 2 * (ScalarBytes + 1)))

(* A string that is not quite DER is refused: lengths, paddings, trailing  *)
(* bytes and all; one that is DER is read, and read back as it was written *)
(* if its numbers are scalars.  The compact form is read if both numbers   *)
(* are below the order; normalizing chooses the lower s and says whether   *)
(* that changed anything.                                                  *)
SerializationExact == sig.by # 0 => Compact /\ Der
=============================================================================
