-------------------------------- MODULE Api --------------------------------
(***************************************************************************)
(* libsecp256k1: the functions a program calls, src/secp256k1.c, the       *)
(* recoverable signatures of src/modules/recovery/main_impl.h and the      *)
(* additions of ext.h.  A context is [sign, verify, gen]: which tables it  *)
(* has, and the blinding of ecmult_gen.  A key object is a stored point,   *)
(* all zero when a call has failed, a signature object two scalars.  The   *)
(* functions return ret and what they write; legal is the ARG_CHECKs, of   *)
(* which the default callback aborts the program.                          *)
(***************************************************************************)
EXTENDS Ecdsa

ZeroPubkey == [x |-> 0, y |-> 0, ok |-> TRUE]
ZeroSignature == [r |-> 0, s |-> 0]
NoGen == [initial |-> gej_clear, blind |-> 0]

context_create(sign, verify, s, b) ==
    [sign |-> sign, verify |-> verify,
     gen |-> IF sign THEN ecmult_gen_context_build(s, b) ELSE NoGen]
context_clone(ctx) == [ctx EXCEPT !.gen = IF ctx.sign THEN @ ELSE NoGen]
context_randomize(ctx, seed, s, b) ==
    [legal |-> ctx.sign,
     ctx |-> [ctx EXCEPT !.gen = ecmult_gen_blind(@, seed, s, b)]]

pubkey_load(pubkey) == [legal |-> pubkey.x # 0, r |-> ge_from_storage(pubkey)]
pubkey_save(q) == ge_to_storage(q)

(* What a call that makes a key leaves in the key object. *)
Made(ret, q) == [legal |-> TRUE, ret |-> ret,
                 pubkey |-> IF ret THEN pubkey_save(q) ELSE ZeroPubkey]
MadeOf(p) == Made(p.ret, p.r)

ec_pubkey_parse(input) ==
    MadeOf(eckey_pubkey_parse(input))

Output(q, s) == [legal |-> q.legal, ret |-> s.ret, output |-> s.pub]
Serialized(q, compressed) == Output(q, eckey_pubkey_serialize(q.r, compressed))
ec_pubkey_serialize(pubkey, compressed) == Serialized(pubkey_load(pubkey), compressed)

SignatureOf(p) ==
    [ret |-> p.ret, sig |-> IF p.ret THEN [r |-> p.r, s |-> p.s] ELSE ZeroSignature]
ecdsa_signature_parse_der(input) == SignatureOf(ecdsa_sig_parse(input))

CompactPair(r, s) == [ret |-> ~r.overflow /\ ~s.overflow, r |-> r.r, s |-> s.r]
ecdsa_signature_parse_compact(rb, sb) ==
    SignatureOf(CompactPair(scalar_set_b32(rb), scalar_set_b32(sb)))

ecdsa_signature_serialize_der(sig, size) == ecdsa_sig_serialize(size, sig.r, sig.s)
ecdsa_signature_serialize_compact(sig) ==
    <<scalar_get_b32(sig.r), scalar_get_b32(sig.s)>>

ecdsa_signature_normalize(sig) ==
    [ret |-> scalar_is_high(sig.s),
     sig |-> IF scalar_is_high(sig.s) THEN [sig EXCEPT !.s = scalar_negate(@)] ELSE sig]

(* Only a signature with the lower of its two values of s is accepted. *)
VerifiedLow(ctx, q, high, v) ==
    [legal |-> ctx.verify /\ (high \/ q.legal), ret |-> ~high /\ v.ret, ok |-> high \/ v.ok]
VerifiedUnder(ctx, sig, msg32, q) ==
    VerifiedLow(ctx, q, scalar_is_high(sig.s),
                ecdsa_sig_verify(sig.r, sig.s, q.r, scalar_set_b32(msg32).r))
ecdsa_verify(ctx, sig, msg32, pubkey) ==
    VerifiedUnder(ctx, sig, msg32, pubkey_load(pubkey))

SecretKey(seckey) ==
    LET sec == scalar_set_b32(seckey)
    IN  [ret |-> ~sec.overflow /\ sec.r # 0, r |-> sec.r]
ec_seckey_verify(seckey) == SecretKey(seckey).ret

(* Mutant: a nonce is used although it overflowed. *)
UsableAnyway(nonce) == scalar_set_b32(nonce).r # 0
Usable(nonce) == ~scalar_set_b32(nonce).overflow /\ scalar_set_b32(nonce).r # 0

NotSigned == [ret |-> FALSE, r |-> 0, s |-> 0, recid |-> 0, ok |-> TRUE]

(* nonces are what the nonce function offers, one after the other; after   *)
(* the last it fails.  The first attempt that gives a signature counts.    *)
Attempts(gen, seckey, message, nonces) ==
    LET usable == SelectSeq(nonces, Usable)
    IN  [k \in DOMAIN usable |->
            ecdsa_sig_sign(gen, seckey, message, scalar_set_b32(usable[k]).r)]
FirstGood(tries) ==
    IF \E k \in DOMAIN tries : tries[k].ret THEN SelectSeq(tries, LAMBDA t : t.ret)[1]
    ELSE NotSigned
Signed(ctx, msg32, seckey, nonces) ==
    IF ~SecretKey(seckey).ret THEN NotSigned
    ELSE FirstGood(Attempts(ctx.gen, SecretKey(seckey).r, scalar_set_b32(msg32).r, nonces))

Signature(ctx, s) ==
    [legal |-> ctx.sign, ret |-> s.ret, ok |-> s.ok,
     sig |-> IF s.ret THEN [r |-> s.r, s |-> s.s] ELSE ZeroSignature]
ecdsa_sign(ctx, msg32, seckey, nonces) ==
    Signature(ctx, Signed(ctx, msg32, seckey, nonces))

ec_pubkey_create(ctx, seckey) ==
    LET sec == SecretKey(seckey)
    IN  [Made(sec.ret, ge_set_gej(ecmult_gen(ctx.gen, sec.r))) EXCEPT !.legal = ctx.sign]

(* A tweaked secret key is zeroed when the tweak fails, and so is the key  *)
(* object of a tweaked public key.                                         *)
PrivkeyTweaked(k, t) ==
    LET ret == ~t.overflow /\ k.ret
    IN  [ret |-> ret, seckey |-> IF ret THEN scalar_get_b32(k.r) ELSE 0]
ec_privkey_tweak_add(seckey, tweak) ==
    LET t == scalar_set_b32(tweak)
    IN  PrivkeyTweaked(eckey_privkey_tweak_add(scalar_set_b32(seckey).r, t.r), t)
ec_privkey_tweak_mul(seckey, tweak) ==
    LET t == scalar_set_b32(tweak)
    IN  PrivkeyTweaked(eckey_privkey_tweak_mul(scalar_set_b32(seckey).r, t.r), t)

PubkeyTweaked(q, t, ctx, pubkey) ==
    [Made(~t.overflow /\ q.ret, q.r)
        EXCEPT !.legal = ctx.verify /\ (t.overflow \/ pubkey_load(pubkey).legal)]
ec_pubkey_tweak_add(ctx, pubkey, tweak) ==
    LET t == scalar_set_b32(tweak)
    IN  PubkeyTweaked(eckey_pubkey_tweak_add(pubkey_load(pubkey).r, t.r), t, ctx, pubkey)
ec_pubkey_tweak_mul(ctx, pubkey, tweak) ==
    LET t == scalar_set_b32(tweak)
    IN  PubkeyTweaked(eckey_pubkey_tweak_mul(pubkey_load(pubkey).r, t.r), t, ctx, pubkey)

ec_pubkey_combine(pubkeys) ==
    LET q[i \in 0 .. Len(pubkeys)] ==
            IF i = 0 THEN gej_set_infinity
            ELSE gej_add_ge(q[i - 1], pubkey_load(pubkeys[i]).r)
    IN  [MadeOf(TweakedKey(q[Len(pubkeys)]))
            EXCEPT !.legal = \A i \in DOMAIN pubkeys : pubkey_load(pubkeys[i]).legal]
---------------------------------------------------------------------------
Recoverable(s, recid) == [r |-> s.r, s |-> s.s, recid |-> recid]
RecoverableOf(p, recid) ==
    [legal |-> recid \in 0 .. 3, ret |-> p.ret,
     sig |-> Recoverable(p.sig, IF p.ret THEN recid ELSE 0)]
ecdsa_recoverable_signature_parse_compact(rb, sb, recid) ==
    RecoverableOf(ecdsa_signature_parse_compact(rb, sb), recid)
ecdsa_recoverable_signature_serialize_compact(sig) == <<sig.r, sig.s, sig.recid>>
ecdsa_recoverable_signature_convert(sig) == [r |-> sig.r, s |-> sig.s]

RecoverableSignature(ctx, s) ==
    [legal |-> ctx.sign, ret |-> s.ret, ok |-> s.ok,
     sig |-> IF s.ret THEN Recoverable(s, s.recid) ELSE Recoverable(ZeroSignature, 0)]
ecdsa_sign_recoverable(ctx, msg32, seckey, nonces) ==
    RecoverableSignature(ctx, Signed(ctx, msg32, seckey, nonces))

Recovered(ctx, q) == [Made(q.ret, q.q) EXCEPT !.legal = ctx.verify]
ecdsa_recover(ctx, sig, msg32) ==
    Recovered(ctx, ecdsa_sig_recover(sig.r, sig.s, scalar_set_b32(msg32).r, sig.recid))

(* ext.h: the calls of the Go wrapper. *)
RecoveredOutput(p) == [legal |-> p.legal, ret |-> p.ret,
                       output |-> ec_pubkey_serialize(p.pubkey, FALSE).output]
ext_ecdsa_recover(ctx, rb, sb, recid, msg) ==
    LET s == ecdsa_recoverable_signature_parse_compact(rb, sb, recid)
    IN  IF ~s.ret \/ ~s.legal THEN [legal |-> s.legal, ret |-> FALSE, output |-> <<>>]
        ELSE RecoveredOutput(ecdsa_recover(ctx, s.sig, msg))

VerifiedParsed(ctx, s, msg, p) ==
    s.ret /\ p.ret /\ ecdsa_verify(ctx, s.sig, msg, p.pubkey).ret
ext_ecdsa_verify(ctx, rb, sb, msg, pubkeydata) ==
    VerifiedParsed(ctx, ecdsa_signature_parse_compact(rb, sb), msg,
                   ec_pubkey_parse(pubkeydata))

Reencoded(p, pubkeydata, compressed) ==
    IF p.ret THEN ec_pubkey_serialize(p.pubkey, compressed)
    ELSE [legal |-> TRUE, ret |-> FALSE, output |-> pubkeydata]
ext_reencode_pubkey(pubkeydata, compressed) ==
    Reencoded(ec_pubkey_parse(pubkeydata), pubkeydata, compressed)

ext_scalar_mul(x, y, scalar) ==
    LET s == scalar_set_b32(scalar)
    IN  IF s.overflow \/ s.r = 0
        THEN [ret |-> FALSE, point |-> [x |-> x, y |-> y, ok |-> TRUE]]
        ELSE [ret |-> TRUE,
              point |-> ge_to_storage(ge_set_gej(ecmult_const(
                            ge_set_xy(fe_set_b32(x).r, fe_set_b32(y).r), s.r)))]
=============================================================================
