--------------------------- MODULE MCCurveMachine ---------------------------
(* y^2 = x^3 + 2 over the field of 163 elements, a group of prime order    *)
(* 139 < 163, so that some x are not below the order.                      *)
EXTENDS CurveMachine

Nonces == {<<6>>, <<3, 5>>, <<0, 21>>, <<ORDER + 4, 9>>, <<0>>}

(* Primes below 2^15: their product has 299 bits. *)
Primes == {32749, 32719, 32717, 32713, 32707, 32693, 32687,
           32653, 32647, 32633, 32621, 32611, 32609, 32603,
           32587, 32579, 32573, 32569, 32563, 32561}
=============================================================================
