------------------------------- MODULE Limbs -------------------------------
(***************************************************************************)
(* Multi-word numbers, as the C code of libsecp256k1 stores them: a        *)
(* function from 0 .. n-1 to naturals, the least significant limb first.   *)
(* The limbs of a field element may exceed the base (lazy carries).        *)
(***************************************************************************)
EXTENDS Integers

(* x & (2^w - 1) and x >> w. *)
Low(x, w) == x % 2^w
High(x, w) == x \div 2^w

Flag(b) == IF b THEN 1 ELSE 0

(* Every limb but the top one hands its excess over w bits to the next. *)
Carried(t, n, w) ==
    LET s[i \in 0 .. n - 1] == t[i] + (IF i = 0 THEN 0 ELSE High(s[i - 1], w))
    IN  [i \in 0 .. n - 1 |-> IF i = n - 1 THEN s[i] ELSE Low(s[i], w)]

(* The sum of f over the indexes lo .. hi. *)
SumRange(f, lo, hi) ==
    LET s[i \in lo - 1 .. hi] == IF i < lo THEN 0 ELSE s[i - 1] + f[i]
    IN  IF hi < lo THEN 0 ELSE s[hi]

(* The indexes of a[i] * b[k - i] in column k of the schoolbook product of *)
(* two n-limb numbers, and that column.                                    *)
Lo(k, n) == IF k < n THEN 0 ELSE k - n + 1
Column(a, b, n, k) ==
    SumRange([i \in Lo(k, n) .. k - Lo(k, n) |-> a[i] * b[k - i]], Lo(k, n), k - Lo(k, n))

(* The value modulo q, for q * 2^w within the integers of the checker. *)
Residue(t, n, w, q) ==
    LET h[i \in 0 .. n - 1] ==
            (t[i] + (IF i = n - 1 THEN 0 ELSE h[i + 1] * 2^w)) % q
    IN  h[0]

(* Bit j of a number whose limbs are all below 2^w. *)
BitOf(t, n, w, j) ==
    IF j >= n * w THEN 0 ELSE High(t[j \div w], j % w) % 2

(* The limbs of the same number, shifted right by s bits, in k words of v  *)
(* bits.                                                                   *)
Regroup(t, n, w, s, v, k) ==
    [i \in 0 .. k - 1 |->
        SumRange([b \in 0 .. v - 1 |-> BitOf(t, n, w, s + v * i + b) * 2^b], 0, v - 1)]

(* Comparison of two carried numbers. *)
Below(a, b, n) ==
    \E i \in 0 .. n - 1 :
        a[i] < b[i] /\ \A j \in i + 1 .. n - 1 : a[j] = b[j]
============================================================================
