------------------------------ MODULE WordAcc ------------------------------
(***************************************************************************)
(* The multiply-accumulate macros of the scalar code of libsecp256k1: an   *)
(* accumulator of three words (c0, c1, c2), to which products of words are *)
(* added and from which the lowest word is extracted.  Every word wraps at *)
(* 2^w; a carry is recovered by comparing a sum with what was added.  ok   *)
(* turns false when a VERIFY_CHECK of a macro would fail.                  *)
(***************************************************************************)
EXTENDS Limbs, Sequences

AccZero == [c0 |-> 0, c1 |-> 0, c2 |-> 0, ok |-> TRUE]

(* What of a product does not go into the lowest word. *)
AddHigh(s, c0, th, w) ==
    LET c1 == Low(s.c1 + th, w)
        c2 == Low(s.c2 + Flag(c1 < th), w)
    IN  [c0 |-> c0, c1 |-> c1, c2 |-> c2, ok |-> s.ok /\ (c1 >= th \/ c2 # 0)]
muladd(s, a, b, w) ==
    LET c0 == Low(s.c0 + Low(a * b, w), w)
    IN  AddHigh(s, c0, High(a * b, w) + Flag(c0 < Low(a * b, w)), w)

AddHighFast(s, c0, th, w) ==
    LET c1 == Low(s.c1 + th, w)
    IN  [s EXCEPT !.c0 = c0, !.c1 = c1, !.ok = @ /\ c1 >= th]
muladd_fast(s, a, b, w) ==
    LET c0 == Low(s.c0 + Low(a * b, w), w)
    IN  AddHighFast(s, c0, High(a * b, w) + Flag(c0 < Low(a * b, w)), w)

(* Mutant: the carry out of doubling the high word is not counted. *)
muladd2_dropped(s, a, b, w) ==
    LET tl == Low(a * b, w)
        th == High(a * b, w)
        tl2 == Low(2 * tl, w)
        c0 == Low(s.c0 + tl2, w)
        t2 == Low(Low(2 * th, w) + Flag(tl2 < tl), w)
        th2 == Low(t2 + Flag(c0 < tl2), w)
        c1 == Low(s.c1 + th2, w)
        c2 == s.c2 + Flag(c0 < tl2 /\ th2 = 0) + Flag(c1 < th2)
    IN  [s EXCEPT !.c0 = c0, !.c1 = c1, !.c2 = Low(c2, w)]

(* Twice a product: h2 is the doubled high word, th2 what is added to c1.  *)
Add2Top(s, c0, c1, x2, tl2, h2, th, th2, w) ==
    LET x3 == Low(x2 + Flag(c1 < th2), w)
    IN  [c0 |-> c0, c1 |-> c1, c2 |-> x3,
         ok |-> /\ s.ok
                /\ h2 >= th \/ Low(s.c2 + Flag(h2 < th), w) # 0
                /\ c0 >= tl2 \/ th2 # 0 \/ x2 # 0
                /\ c1 >= th2 \/ x3 # 0]
Add2High(s, c0, tl2, h2, th, th2, w) ==
    Add2Top(s, c0, Low(s.c1 + th2, w),
            Low(Low(s.c2 + Flag(h2 < th), w) + Flag(c0 < tl2 /\ th2 = 0), w),
            tl2, h2, th, th2, w)
Add2Low(s, c0, tl, tl2, h2, th, w) ==
    Add2High(s, c0, tl2, h2, th, Low(Low(h2 + Flag(tl2 < tl), w) + Flag(c0 < tl2), w), w)
muladd2(s, a, b, w) ==
    LET tl2 == Low(2 * Low(a * b, w), w)
    IN  Add2Low(s, Low(s.c0 + tl2, w), Low(a * b, w), tl2,
                Low(2 * High(a * b, w), w), High(a * b, w), w)

sumadd(s, a, w) ==
    LET c0 == Low(s.c0 + a, w)
        over == Flag(c0 < a)
        c1 == Low(s.c1 + over, w)
    IN  [s EXCEPT !.c0 = c0, !.c1 = c1, !.c2 = Low(@ + Flag(c1 < over), w)]

sumadd_fast(s, a, w) ==
    LET c0 == Low(s.c0 + a, w)
        c1 == Low(s.c1 + Flag(c0 < a), w)
    IN  [s EXCEPT !.c0 = c0, !.c1 = c1,
                  !.ok = @ /\ (c1 # 0 \/ c0 >= a) /\ s.c2 = 0]

(* What stays after the lowest word has been taken. *)
extract(s) == [s EXCEPT !.c0 = s.c1, !.c1 = s.c2, !.c2 = 0]
extract_fast(s) == [s EXCEPT !.c0 = s.c1, !.c1 = 0, !.ok = @ /\ s.c2 = 0]

(* A column is the sequence of the macros that work on it, each <<macro,   *)
(* its arguments>>; a failed VERIFY_CHECK aborts.                          *)
Performed(s, m, w) ==
    IF ~s.ok THEN s
    ELSE CASE m[1] = "set" -> [s EXCEPT !.c0 = m[2]]
           [] m[1] = "muladd" -> muladd(s, m[2], m[3], w)
           [] m[1] = "muladd_fast" -> muladd_fast(s, m[2], m[3], w)
           [] m[1] = "muladd2" -> muladd2(s, m[2], m[3], w)
           [] m[1] = "sumadd" -> sumadd(s, m[2], w)
           [] m[1] = "sumadd_fast" -> sumadd_fast(s, m[2], w)

AfterColumn(s, column, w) ==
    LET g[i \in 0 .. Len(column)] ==
            IF i = 0 THEN s ELSE Performed(g[i - 1], column[i], w)
    IN  g[Len(column)]

(* Column after column: the word taken from each, and what is left.        *)
Taken(z, k, s, fast) ==
    [acc |-> IF fast THEN extract_fast(s) ELSE extract(s), d |-> [z.d EXCEPT ![k] = s.c0]]
NextColumn(z, k, column, fast, w) == Taken(z, k, AfterColumn(z.acc, column, w), fast)
AfterColumns(columns, n, fast, w) ==
    LET g[k \in -1 .. n - 1] ==
            IF k = -1 THEN [acc |-> AccZero, d |-> [i \in 0 .. n |-> 0]]
            ELSE NextColumn(g[k - 1], k, columns[k], k \in fast, w)
    IN  g[n - 1]

(* The products a[i] * b[k - i] for i in lo .. hi. *)
Products(macro, a, b, k, lo, hi) ==
    [j \in 1 .. hi - lo + 1 |-> <<macro, a[lo + j - 1], b[k - lo - j + 1]>>]
=============================================================================
