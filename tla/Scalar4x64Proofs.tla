--------------------------- MODULE Scalar4x64Proofs ---------------------------
(***************************************************************************)
(* The arithmetic of the scalars in four words is exact, for every width   *)
(* and every order of the code's shape (Sizes): first the macros of the    *)
(* accumulator, each of which adds what it should and whose VERIFY_CHECKs  *)
(* fail when, and only when, the sum does not fit; then the columns and    *)
(* the words they leave; then the functions, up to the product modulo the  *)
(* order.                                                                  *)
(***************************************************************************)
EXTENDS Scalar4x64, TLAPS

(* All that is used of a word's width: words have at least one bit.  (The    *)
(* provers know nothing about powers.)                                      *)
Wide(w) == 2^w \in Nat /\ 2^(w - 1) \in Nat \ {0} /\ 2^w = 2 * 2^(w - 1)

(* A word of w bits, an accumulator, and the number that it holds.          *)
Word(w) == 0 .. 2^w - 1
IsAcc(s, w) == s \in [c0 : Word(w), c1 : Word(w), c2 : Word(w), ok : BOOLEAN]
AccValue(s, w) == s.c0 + 2^w * (s.c1 + 2^w * s.c2)
AccBound(w) == 2^w * (2^w * 2^w)

LEMMA SumWraps ==
  ASSUME NEW B \in Nat, B > 0, NEW x \in 0 .. B - 1, NEW y \in 0 .. B - 1
  PROVE  /\ (x + y) % B \in 0 .. B - 1
         /\ (x + y) % B < y => (x + y) % B = x + y - B
         /\ (x + y) % B >= y => (x + y) % B = x + y
<1>1. CASE x + y < B
  <2>1. (x + y) % B = x + y
    BY <1>1, SMT
  <2> QED
    BY <1>1, <2>1, SMT
<1>2. CASE x + y >= B
  <2>1. (x + y) % B = x + y - B
    BY <1>2, SMT
  <2> QED
    BY <1>2, <2>1, SMT
<1> QED
  BY <1>1, <1>2, SMT

LEMMA WordsOfProduct ==
  ASSUME NEW B \in Nat, B > 1, NEW a \in 0 .. B - 1, NEW b \in 0 .. B - 1
  PROVE  /\ (a * b) % B \in 0 .. B - 1
         /\ (a * b) \div B \in 0 .. B - 2
         /\ a * b = B * ((a * b) \div B) + ((a * b) % B)
<1>1. a * b \in Nat /\ a * b <= (B - 1) * (B - 1)
  BY SMT
<1>2. PICK x \in Nat : x = a * b
  BY <1>1
<1>3. x = B * (x \div B) + (x % B) /\ x % B \in 0 .. B - 1 /\ x \div B \in Nat
  BY SMT
<1>4. PICK q \in Nat : q = x \div B
  BY <1>3
<1>5. B * q <= (B - 1) * (B - 1)
  BY <1>1, <1>2, <1>3, <1>4, SMT
<1>6. q <= B - 2
  <2>1. (B - 1) * (B - 1) < B * (B - 1)
    BY SMT
  <2>2. CASE q >= B - 1
    <3>1. B * q >= B * (B - 1)
      BY <2>2, SMT
    <3> QED
      BY <1>5, <2>1, <3>1, SMT
  <2> QED
    BY <2>2, SMT
<1> QED
  BY <1>2, <1>3, <1>4, <1>6, SMT

(* A flag is added to a word, and the carry is seen in a result of zero.    *)
LEMMA Incremented ==
  ASSUME NEW B \in Nat, B > 1, NEW x \in 0 .. B - 1, NEW k \in 0 .. 1
  PROVE  /\ (x + k) % B \in 0 .. B - 1
         /\ k = 0 \/ (x + k) % B # 0 => (x + k) % B = x + k
         /\ k = 1 /\ (x + k) % B = 0 => x + k = B
<1>1. k \in 0 .. B - 1
  OBVIOUS
<1> QED
  BY <1>1, SumWraps, SMT

(* A number of three words, the top one y perhaps too large.                *)
LEMMA TopFits ==
  ASSUME NEW B \in Nat, B > 1, NEW c0 \in 0 .. B - 1, NEW c1 \in 0 .. B - 1, NEW y \in Nat
  PROVE  c0 + B * (c1 + B * y) < B * (B * B) <=> y < B
<1>1. CASE y < B
  <2>1. B * y <= B * (B - 1)
    BY <1>1, SMT
  <2>2. c1 + B * y <= B * B - 1
    BY <2>1, SMT
  <2>3. B * (c1 + B * y) <= B * (B * B - 1)
    BY <2>2, SMT
  <2> QED
    BY <1>1, <2>3, SMT
<1>2. CASE y >= B
  <2>1. B * y >= B * B
    BY <1>2, SMT
  <2>2. c1 + B * y >= B * B
    BY <2>1, SMT
  <2>3. B * (c1 + B * y) >= B * (B * B)
    BY <2>2, SMT
  <2> QED
    BY <1>2, <2>3, SMT
<1> QED
  BY <1>1, <1>2

-----------------------------------------------------------------------------
(* A word joins an accumulator at its middle word: the result is the sum    *)
(* and keeps ok if the sum fits, and ok is lost if it does not.             *)
Joined(s, c0, th, w) == c0 + 2^w * (s.c1 + th + 2^w * s.c2)
LEMMA AddHighExact ==
  ASSUME NEW w, Wide(w), NEW s, IsAcc(s, w), NEW c0 \in Word(w), NEW th \in Word(w)
  PROVE  LET t == AddHigh(s, c0, th, w)
             v == Joined(s, c0, th, w)
         IN  /\ IsAcc(t, w)
             /\ t.ok <=> s.ok /\ v < AccBound(w)
             /\ t.ok => AccValue(t, w) = v
<1>a. PICK t : t = AddHigh(s, c0, th, w)
  OBVIOUS
<1>b. PICK v : v = Joined(s, c0, th, w)
  OBVIOUS
<1>1. PICK B \in Nat : B = 2^w /\ B > 1
  BY SMT DEF Wide
<1>2. /\ s.c1 \in 0 .. B - 1 /\ s.c2 \in 0 .. B - 1 /\ s.ok \in BOOLEAN
      /\ c0 \in 0 .. B - 1 /\ th \in 0 .. B - 1
  BY <1>1 DEF IsAcc, Word
<1>3. PICK c1 : c1 = (s.c1 + th) % B
  OBVIOUS
<1>4. PICK k : k = Flag(c1 < th)
  OBVIOUS
<1>5. PICK c2 : c2 = (s.c2 + k) % B
  OBVIOUS
<1>6. t = [c0 |-> c0, c1 |-> c1, c2 |-> c2, ok |-> s.ok /\ (c1 >= th \/ c2 # 0)]
  BY <1>a, <1>1, <1>3, <1>4, <1>5 DEF AddHigh, Low
<1>7. /\ c1 \in 0 .. B - 1
      /\ c1 < th => c1 = s.c1 + th - B
      /\ c1 >= th => c1 = s.c1 + th
  BY <1>1, <1>2, <1>3, SumWraps
<1>8. k \in 0 .. 1 /\ (k = 1 <=> c1 < th) /\ s.c1 + th = c1 + B * k
  BY <1>1, <1>2, <1>4, <1>7, SMT DEF Flag
<1>9. /\ c2 \in 0 .. B - 1
      /\ k = 0 \/ c2 # 0 => c2 = s.c2 + k
      /\ k = 1 /\ c2 = 0 => s.c2 + k = B
  BY <1>1, <1>2, <1>5, <1>8, Incremented
<1>10. IsAcc(t, w)
  BY <1>1, <1>2, <1>6, <1>7, <1>9 DEF IsAcc, Word
<1>11. v = c0 + B * (c1 + B * (s.c2 + k))
  <2>1. PICK x \in 0 .. B - 1 : x = s.c2
    BY <1>2
  <2>2. v = c0 + B * (c1 + B * k + B * x)
    BY <1>b, <1>1, <1>8, <2>1 DEF Joined
  <2>3. B * k + B * x = B * (x + k)
    BY <1>8, <2>1, SMT
  <2> QED
    BY <1>2, <1>7, <1>8, <2>1, <2>2, <2>3, SMT
<1>12. t.ok <=> s.ok /\ s.c2 + k < B
  <2>1. t.ok <=> s.ok /\ (c1 >= th \/ c2 # 0)
    <3>1. t.ok = (s.ok /\ (c1 >= th \/ c2 # 0))
      BY <1>6
    <3> QED
      BY <1>2, <3>1
  <2>2. (c1 >= th \/ c2 # 0) <=> s.c2 + k < B
    BY <1>2, <1>7, <1>8, <1>9, SMT
  <2> QED
    BY <2>1, <2>2
<1>13. v < AccBound(w) <=> s.c2 + k < B
  <2>1. PICK y \in Nat : y = s.c2 + k
    BY <1>2, <1>8, SMT
  <2>2. c0 + B * (c1 + B * y) < B * (B * B) <=> y < B
    BY <1>1, <1>2, <1>7, TopFits
  <2>3. v = c0 + B * (c1 + B * y) /\ AccBound(w) = B * (B * B)
    BY <1>1, <1>11, <2>1 DEF AccBound
  <2> QED
    BY <2>1, <2>2, <2>3
<1>14. t.ok => AccValue(t, w) = v
  <2>1. t.ok => c2 = s.c2 + k
    BY <1>2, <1>8, <1>9, <1>12, SMT
  <2> QED
    BY <1>1, <1>6, <1>11, <2>1 DEF AccValue
<1> QED
  BY <1>a, <1>b, <1>10, <1>12, <1>13, <1>14

(* The product's two words, the lower one added to c0.                      *)
LEMMA LowAdded ==
  ASSUME NEW w, Wide(w), NEW s, IsAcc(s, w), NEW a \in Word(w), NEW b \in Word(w)
  PROVE  LET tl == Low(a * b, w)
             th == High(a * b, w)
             c0 == Low(s.c0 + tl, w)
         IN  /\ c0 \in Word(w)
             /\ th + Flag(c0 < tl) \in Word(w)
             /\ c0 + 2^w * (th + Flag(c0 < tl)) = s.c0 + a * b
<1>1. PICK B \in Nat : B = 2^w /\ B > 1
  BY SMT DEF Wide
<1>2. s.c0 \in 0 .. B - 1 /\ a \in 0 .. B - 1 /\ b \in 0 .. B - 1
  BY <1>1 DEF IsAcc, Word
<1>3. PICK tl, th : tl = (a * b) % B /\ th = (a * b) \div B
  OBVIOUS
<1>4. tl \in 0 .. B - 1 /\ th \in 0 .. B - 2 /\ a * b = B * th + tl
  BY <1>1, <1>2, <1>3, WordsOfProduct
<1>4a. tl \in 0 .. B - 1
  BY <1>4
<1>5. PICK c0 : c0 = (s.c0 + tl) % B
  OBVIOUS
<1>6. /\ c0 \in 0 .. B - 1
      /\ c0 < tl => c0 = s.c0 + tl - B
      /\ c0 >= tl => c0 = s.c0 + tl
  BY ONLY B \in Nat, <1>1, <1>2, <1>4a, <1>5, SumWraps
<1>7. PICK k : k = Flag(c0 < tl)
  OBVIOUS
<1>8. k \in 0 .. 1 /\ c0 + B * k = s.c0 + tl
  BY <1>2, <1>4, <1>6, <1>7, SMT DEF Flag
<1>9. th + k \in 0 .. B - 1
  BY <1>1, <1>4, <1>8, SMT
<1>10. c0 + B * (th + k) = s.c0 + a * b
  <2>1. B * (th + k) = B * th + B * k
    BY <1>4, <1>8, SMT
  <2>2. PICK x, y, z \in Nat : x = B * th /\ y = B * k /\ z = a * b
    BY <1>2, <1>4, <1>8, SMT
  <2> QED
    BY <1>2, <1>4, <1>6, <1>8, <2>1, <2>2, SMT
<1> QED
  BY <1>1, <1>3, <1>5, <1>6, <1>7, <1>9, <1>10 DEF Word, Low, High

(* muladd adds a * b, whatever carries that takes: the sum is exact if it   *)
(* fits, and the VERIFY_CHECK fails exactly when it does not.               *)
THEOREM MulAddExact ==
  ASSUME NEW w, Wide(w), NEW s, IsAcc(s, w), NEW a \in Word(w), NEW b \in Word(w),
         NEW t, t = muladd(s, a, b, w)
  PROVE  /\ IsAcc(t, w)
         /\ t.ok <=> s.ok /\ AccValue(s, w) + a * b < AccBound(w)
         /\ t.ok => AccValue(t, w) = AccValue(s, w) + a * b
<1>1. PICK tl, th, c0 : tl = Low(a * b, w) /\ th = High(a * b, w) + Flag(c0 < tl) /\ c0 = Low(s.c0 + tl, w)
  OBVIOUS
<1>2. c0 \in Word(w) /\ th \in Word(w) /\ c0 + 2^w * th = s.c0 + a * b
  BY <1>1, LowAdded
<1>3. t = AddHigh(s, c0, th, w)
  BY <1>1 DEF muladd
<1>4. PICK v : v = Joined(s, c0, th, w)
  OBVIOUS
<1>5. /\ IsAcc(t, w)
      /\ t.ok <=> s.ok /\ v < AccBound(w)
      /\ t.ok => AccValue(t, w) = v
  <2>1. IsAcc(AddHigh(s, c0, th, w), w)
    BY <1>2, AddHighExact
  <2>2. AddHigh(s, c0, th, w).ok <=> s.ok /\ Joined(s, c0, th, w) < AccBound(w)
    BY <1>2, AddHighExact
  <2>3. AddHigh(s, c0, th, w).ok => AccValue(AddHigh(s, c0, th, w), w) = Joined(s, c0, th, w)
    BY <1>2, AddHighExact
  <2> QED
    BY <1>3, <1>4, <2>1, <2>2, <2>3
<1>6. v = AccValue(s, w) + a * b
  <2>1. PICK B \in Nat : B = 2^w
    BY DEF Wide
  <2>2. /\ s.c0 \in 0 .. B - 1 /\ s.c1 \in 0 .. B - 1 /\ s.c2 \in 0 .. B - 1
        /\ a \in 0 .. B - 1 /\ b \in 0 .. B - 1 /\ c0 \in 0 .. B - 1 /\ th \in 0 .. B - 1
    BY <1>2, <2>1 DEF IsAcc, Word
  <2>3. PICK x0, x1, x2, p \in Nat : x0 = s.c0 /\ x1 = s.c1 /\ x2 = B * s.c2 /\ p = a * b
    BY <2>2, SMT
  <2>4. c0 + B * (x1 + th + x2) = (c0 + B * th) + B * (x1 + x2)
    BY <2>2, <2>3, SMT
  <2>5. c0 + B * th = x0 + p
    BY <1>2, <2>1, <2>3
  <2>6. PICK y \in Nat : y = B * (x1 + x2)
    BY <2>3, SMT
  <2>7. v = (x0 + p) + y
    BY <1>4, <2>1, <2>3, <2>4, <2>5, <2>6 DEF Joined
  <2>8. AccValue(s, w) = x0 + y
    BY <2>1, <2>3, <2>6 DEF AccValue
  <2> QED
    BY <2>3, <2>6, <2>7, <2>8, SMT
<1> QED
  BY <1>5, <1>6

(* muladd_fast may only be used while the top word is not needed: its check *)
(* fails exactly when the two lower words overflow.                         *)
THEOREM MulAddFastExact ==
  ASSUME NEW w, Wide(w), NEW s, IsAcc(s, w), s.c2 = 0, NEW a \in Word(w), NEW b \in Word(w)
  PROVE  LET t == muladd_fast(s, a, b, w)
         IN  /\ IsAcc(t, w) /\ t.c2 = 0
             /\ t.ok <=> s.ok /\ AccValue(s, w) + a * b < 2^w * 2^w
             /\ t.ok => AccValue(t, w) = AccValue(s, w) + a * b
<1>a. PICK t : t = muladd_fast(s, a, b, w)
  OBVIOUS
<1>1. PICK B \in Nat : B = 2^w /\ B > 1
  BY SMT DEF Wide
<1>2. PICK tl, th, c0 : tl = Low(a * b, w) /\ th = High(a * b, w) + Flag(c0 < tl) /\ c0 = Low(s.c0 + tl, w)
  OBVIOUS
<1>3. c0 \in Word(w) /\ th \in Word(w) /\ c0 + 2^w * th = s.c0 + a * b
  BY <1>2, LowAdded
<1>4. PICK c1 : c1 = (s.c1 + th) % B
  OBVIOUS
<1>5. t = [s EXCEPT !.c0 = c0, !.c1 = c1, !.ok = @ /\ c1 >= th]
  BY <1>a, <1>1, <1>2, <1>4 DEF muladd_fast, AddHighFast, Low
<1>6. /\ s.c0 \in 0 .. B - 1 /\ s.c1 \in 0 .. B - 1 /\ s.ok \in BOOLEAN
      /\ a \in 0 .. B - 1 /\ b \in 0 .. B - 1 /\ c0 \in 0 .. B - 1 /\ th \in 0 .. B - 1
  BY <1>1, <1>3 DEF IsAcc, Word
<1>7. /\ c1 \in 0 .. B - 1
      /\ c1 < th => c1 = s.c1 + th - B
      /\ c1 >= th => c1 = s.c1 + th
  <2>1. PICK x \in 0 .. B - 1 : x = s.c1
    BY <1>6
  <2>2. th \in 0 .. B - 1
    BY <1>6
  <2>3. /\ (x + th) % B \in 0 .. B - 1
        /\ (x + th) % B < th => (x + th) % B = x + th - B
        /\ (x + th) % B >= th => (x + th) % B = x + th
    BY ONLY <1>1, <2>2, SumWraps
  <2> QED
    BY <1>4, <2>1, <2>3
<1>8. IsAcc(t, w) /\ t.c0 = c0 /\ t.c1 = c1 /\ t.c2 = 0
  BY <1>1, <1>5, <1>6, <1>7 DEF IsAcc, Word
<1>9. t.ok <=> s.ok /\ c1 >= th
  <2>1. t.ok = (s.ok /\ c1 >= th)
    BY <1>5 DEF IsAcc
  <2> QED
    BY <1>6, <2>1
<1>10. AccValue(s, w) + a * b = c0 + B * (s.c1 + th)
  <2>1. PICK x0, x1, p, q \in Nat : x0 = s.c0 /\ x1 = B * s.c1 /\ p = a * b /\ q = B * th
    BY <1>6, SMT
  <2>2. AccValue(s, w) = x0 + x1
    <3>1. B * 0 = 0 /\ s.c1 + 0 = s.c1
      BY <1>6, SMT
    <3> QED
      BY <1>1, <1>6, <2>1, <3>1 DEF AccValue
  <2>3. B * (s.c1 + th) = x1 + q
    BY <1>6, <2>1, SMT
  <2>4. c0 + q = x0 + p
    BY <1>1, <1>3, <2>1
  <2> QED
    BY <1>6, <2>1, <2>2, <2>3, <2>4, SMT
<1>11. AccValue(t, w) = c0 + B * c1
  <2>1. B * 0 = 0 /\ c1 + 0 = c1
    BY <1>7, SMT
  <2> QED
    BY <1>1, <1>8, <2>1 DEF AccValue
<1>12. CASE c1 >= th
  <2>1. c0 + B * (s.c1 + th) = c0 + B * c1
    BY <1>7, <1>12
  <2>2. c0 + B * c1 < B * B
    <3>1. B * c1 <= B * (B - 1)
      BY <1>7, SMT
    <3> QED
      BY <1>6, <1>7, <3>1, SMT
  <2> QED
    BY <1>a, <1>1, <1>8, <1>9, <1>10, <1>11, <1>12, <2>1, <2>2
<1>13. CASE c1 < th
  <2>1. s.c1 + th >= B
    BY <1>6, <1>7, <1>13, SMT
  <2>2. B * (s.c1 + th) >= B * B
    BY <1>6, <2>1, SMT
  <2>3. ~(c0 + B * (s.c1 + th) < B * B)
    BY <1>6, <2>2, SMT
  <2>4. ~(c1 >= th)
    BY <1>6, <1>7, <1>13, SMT
  <2> QED
    BY <1>a, <1>1, <1>8, <1>9, <1>10, <2>3, <2>4
<1> QED
  BY <1>6, <1>7, <1>12, <1>13, SMT

(* sumadd adds one word; it has no check, and is exact if the sum fits.     *)
THEOREM SumAddExact ==
  ASSUME NEW w, Wide(w), NEW s, IsAcc(s, w), NEW a \in Word(w)
  PROVE  LET t == sumadd(s, a, w)
         IN  /\ IsAcc(t, w) /\ t.ok = s.ok
             /\ AccValue(s, w) + a < AccBound(w) => AccValue(t, w) = AccValue(s, w) + a
<1>a. PICK t : t = sumadd(s, a, w)
  OBVIOUS
<1>1. PICK B \in Nat : B = 2^w /\ B > 1
  BY SMT DEF Wide
<1>2. /\ s.c0 \in 0 .. B - 1 /\ s.c1 \in 0 .. B - 1 /\ s.c2 \in 0 .. B - 1 /\ a \in 0 .. B - 1
  BY <1>1 DEF IsAcc, Word
<1>3a. PICK c0 : c0 = (s.c0 + a) % B
  OBVIOUS
<1>3b. PICK k : k = Flag(c0 < a)
  OBVIOUS
<1>3c. PICK c1 : c1 = (s.c1 + k) % B
  OBVIOUS
<1>3d. PICK j : j = Flag(c1 < k)
  OBVIOUS
<1>3e. PICK c2 : c2 = (s.c2 + j) % B
  OBVIOUS
<1>4. /\ c0 \in 0 .. B - 1
      /\ c0 < a => c0 = s.c0 + a - B
      /\ c0 >= a => c0 = s.c0 + a
  <2>1. PICK x \in 0 .. B - 1 : x = s.c0
    BY <1>2
  <2>2. a \in 0 .. B - 1
    BY <1>2
  <2>3. /\ (x + a) % B \in 0 .. B - 1
        /\ (x + a) % B < a => (x + a) % B = x + a - B
        /\ (x + a) % B >= a => (x + a) % B = x + a
    BY ONLY <1>1, <2>2, SumWraps
  <2> QED
    BY <1>3a, <2>1, <2>3
<1>5. k \in 0 .. 1 /\ s.c0 + a = c0 + B * k
  BY <1>1, <1>2, <1>3b, <1>4, SMT DEF Flag
<1>6. /\ c1 \in 0 .. B - 1
      /\ k = 0 \/ c1 # 0 => c1 = s.c1 + k
      /\ k = 1 /\ c1 = 0 => s.c1 + k = B
  BY <1>1, <1>2, <1>3c, <1>5, Incremented
<1>7. j \in 0 .. 1 /\ s.c1 + k = c1 + B * j
  BY <1>1, <1>2, <1>3d, <1>5, <1>6, SMT DEF Flag
<1>8. /\ c2 \in 0 .. B - 1
      /\ j = 0 \/ c2 # 0 => c2 = s.c2 + j
      /\ j = 1 /\ c2 = 0 => s.c2 + j = B
  BY <1>1, <1>2, <1>3e, <1>7, Incremented
<1>9. t = [s EXCEPT !.c0 = c0, !.c1 = c1, !.c2 = c2]
  BY <1>a, <1>1, <1>3a, <1>3b, <1>3c, <1>3d, <1>3e DEF sumadd, Low
<1>10. IsAcc(t, w) /\ t.c0 = c0 /\ t.c1 = c1 /\ t.c2 = c2 /\ t.ok = s.ok
  BY <1>1, <1>4, <1>6, <1>8, <1>9 DEF IsAcc, Word
<1>11. AccValue(s, w) + a = c0 + B * (c1 + B * (s.c2 + j))
  <2>1. PICK x0, x1, x2 \in Nat : x0 = s.c0 /\ x1 = s.c1 /\ x2 = s.c2
    BY <1>2
  <2>2. AccValue(s, w) + a = (x0 + a) + B * (x1 + B * x2)
    BY <1>1, <1>2, <2>1, SMT DEF AccValue
  <2>3. (x0 + a) + B * (x1 + B * x2) = c0 + B * ((x1 + k) + B * x2)
    BY <1>1, <1>2, <1>4, <1>5, <2>1, SMT
  <2>4. (x1 + k) + B * x2 = c1 + B * (x2 + j)
    BY <1>1, <1>6, <1>7, <2>1, SMT
  <2> QED
    BY <2>1, <2>2, <2>3, <2>4
<1>12. ASSUME AccValue(s, w) + a < AccBound(w) PROVE AccValue(t, w) = AccValue(s, w) + a
  <2>1. PICK y \in Nat : y = s.c2 + j
    BY <1>2, <1>7, SMT
  <2>2. c0 + B * (c1 + B * y) < B * (B * B) <=> y < B
    BY <1>1, <1>4, <1>6, TopFits
  <2>3. y < B
    BY <1>1, <1>11, <1>12, <2>1, <2>2 DEF AccBound
  <2>4. c2 = s.c2 + j
    BY <1>2, <1>7, <1>8, <2>1, <2>3, SMT
  <2> QED
    BY <1>1, <1>10, <1>11, <2>4 DEF AccValue
<1> QED
  BY <1>a, <1>10, <1>12

(* sumadd_fast: the check fails exactly when the two lower words overflow.  *)
THEOREM SumAddFastExact ==
  ASSUME NEW w, Wide(w), NEW s, IsAcc(s, w), s.c2 = 0, NEW a \in Word(w)
  PROVE  LET t == sumadd_fast(s, a, w)
         IN  /\ IsAcc(t, w) /\ t.c2 = 0
             /\ t.ok <=> s.ok /\ AccValue(s, w) + a < 2^w * 2^w
             /\ t.ok => AccValue(t, w) = AccValue(s, w) + a
<1>a. PICK t : t = sumadd_fast(s, a, w)
  OBVIOUS
<1>1. PICK B \in Nat : B = 2^w /\ B > 1
  BY SMT DEF Wide
<1>2. PICK x0 \in 0 .. B - 1, x1 \in 0 .. B - 1 : x0 = s.c0 /\ x1 = s.c1
  BY <1>1 DEF IsAcc, Word
<1>3. a \in 0 .. B - 1 /\ s.ok \in BOOLEAN
  BY <1>1 DEF IsAcc, Word
<1>4. PICK c0 : c0 = (x0 + a) % B
  OBVIOUS
<1>5. PICK k : k = Flag(c0 < a)
  OBVIOUS
<1>6. PICK c1 : c1 = (x1 + k) % B
  OBVIOUS
<1>7. /\ c0 \in 0 .. B - 1
      /\ c0 < a => c0 = x0 + a - B
      /\ c0 >= a => c0 = x0 + a
  BY <1>1, <1>3, <1>4, SumWraps
<1>8. k \in 0 .. 1 /\ (k = 0 <=> c0 >= a) /\ x0 + a = c0 + B * k
  BY <1>1, <1>3, <1>5, <1>7, SMT DEF Flag
<1>9. /\ c1 \in 0 .. B - 1
      /\ k = 0 \/ c1 # 0 => c1 = x1 + k
      /\ k = 1 /\ c1 = 0 => x1 + k = B
  BY <1>1, <1>6, <1>8, Incremented
<1>10. t = [s EXCEPT !.c0 = c0, !.c1 = c1, !.ok = @ /\ (c1 # 0 \/ c0 >= a) /\ s.c2 = 0]
  BY <1>a, <1>1, <1>2, <1>4, <1>5, <1>6 DEF sumadd_fast, Low
<1>11. IsAcc(t, w) /\ t.c0 = c0 /\ t.c1 = c1 /\ t.c2 = 0
  BY <1>1, <1>7, <1>9, <1>10 DEF IsAcc, Word
<1>12. t.ok <=> s.ok /\ (c1 # 0 \/ k = 0)
  <2>1. t.ok = (s.ok /\ (c1 # 0 \/ c0 >= a) /\ s.c2 = 0)
    BY <1>10 DEF IsAcc
  <2> QED
    BY <1>3, <1>8, <2>1
<1>13. AccValue(s, w) + a = c0 + B * (x1 + k)
  <2>1. AccValue(s, w) = x0 + B * x1
    <3>1. B * 0 = 0 /\ x1 + 0 = x1
      BY SMT
    <3> QED
      BY <1>1, <1>2, <3>1 DEF AccValue
  <2>2. PICK y \in Nat : y = B * x1
    BY SMT
  <2>3. B * (x1 + k) = y + B * k
    BY <1>8, <2>2, SMT
  <2>4. PICK z \in Nat : z = B * k
    BY <1>8, SMT
  <2> QED
    BY <1>3, <1>7, <1>8, <2>1, <2>2, <2>3, <2>4, SMT
<1>14. AccValue(t, w) = c0 + B * c1
  <2>1. B * 0 = 0 /\ c1 + 0 = c1
    BY <1>9, SMT
  <2> QED
    BY <1>1, <1>11, <2>1 DEF AccValue
<1>15. CASE c1 # 0 \/ k = 0
  <2>1. x1 + k = c1
    BY <1>9, <1>15
  <2>2. c0 + B * c1 < B * B
    <3>1. B * c1 <= B * (B - 1)
      BY <1>9, SMT
    <3> QED
      BY <1>7, <1>9, <3>1, SMT
  <2>3. AccValue(s, w) + a < 2^w * 2^w
    BY <1>1, <1>13, <2>1, <2>2
  <2> QED
    BY <1>a, <1>11, <1>12, <1>13, <1>14, <1>15, <2>1, <2>3
<1>16. CASE ~(c1 # 0 \/ k = 0)
  <2>1. x1 + k = B
    BY <1>8, <1>9, <1>16, SMT
  <2>2. ~(c0 + B * B < B * B)
    BY <1>7, SMT
  <2>3. ~(AccValue(s, w) + a < 2^w * 2^w)
    BY <1>1, <1>13, <2>1, <2>2
  <2>4. ~t.ok
    BY <1>12, <1>16
  <2> QED
    BY <1>a, <1>11, <2>3, <2>4
<1> QED
  BY <1>15, <1>16

(* What extract takes and what it leaves make up the accumulator.           *)
THEOREM ExtractExact ==
  ASSUME NEW w, Wide(w), NEW s, IsAcc(s, w)
  PROVE  /\ IsAcc(extract(s), w) /\ extract(s).ok = s.ok /\ extract(s).c2 = 0
         /\ AccValue(s, w) = s.c0 + 2^w * AccValue(extract(s), w)
<1>1. PICK B \in Nat : B = 2^w /\ B > 1
  BY SMT DEF Wide
<1>2. s.c1 \in 0 .. B - 1 /\ s.c2 \in 0 .. B - 1
  BY <1>1 DEF IsAcc, Word
<1>a. PICK t : t = extract(s)
  OBVIOUS
<1>b. t = [s EXCEPT !.c0 = s.c1, !.c1 = s.c2, !.c2 = 0]
  BY <1>a DEF extract
<1>c. 0 \in Word(w)
  BY <1>1 DEF Word
<1>3. IsAcc(t, w) /\ t.ok = s.ok /\ t.c0 = s.c1 /\ t.c1 = s.c2 /\ t.c2 = 0
  BY <1>b, <1>c DEF IsAcc
<1>4. B * 0 = 0 /\ s.c2 + 0 = s.c2
  BY <1>2, SMT
<1> QED
  BY <1>1, <1>a, <1>3, <1>4 DEF AccValue

(* So do those of extract_fast, if its check holds.                         *)
THEOREM ExtractFastExact ==
  ASSUME NEW w, Wide(w), NEW s, IsAcc(s, w)
  PROVE  LET t == extract_fast(s)
         IN  /\ t.ok <=> s.ok /\ s.c2 = 0
             /\ t.ok => IsAcc(t, w) /\ AccValue(s, w) = s.c0 + 2^w * AccValue(t, w)
<1>1. PICK B \in Nat : B = 2^w /\ B > 1
  BY SMT DEF Wide
<1>2. s.c1 \in 0 .. B - 1 /\ s.ok \in BOOLEAN
  BY <1>1 DEF IsAcc, Word
<1>3. PICK t : t = extract_fast(s)
  OBVIOUS
<1>4. /\ t = [s EXCEPT !.c0 = s.c1, !.c1 = 0, !.ok = @ /\ s.c2 = 0]
  BY <1>3 DEF extract_fast
<1>5. t.ok <=> s.ok /\ s.c2 = 0
  <2>1. t.ok = (s.ok /\ s.c2 = 0)
    BY <1>4 DEF IsAcc
  <2> QED
    BY <1>2, <2>1
<1>6. ASSUME t.ok PROVE IsAcc(t, w) /\ AccValue(s, w) = s.c0 + 2^w * AccValue(t, w)
  <2>1. IsAcc(t, w) /\ t.c0 = s.c1 /\ t.c1 = 0 /\ t.c2 = 0
    BY <1>1, <1>4, <1>5, <1>6 DEF IsAcc, Word
  <2>2. B * 0 = 0 /\ s.c1 + 0 = s.c1 /\ 0 + 0 = 0
    BY <1>2, SMT
  <2> QED
    BY <1>1, <1>5, <1>6, <2>1, <2>2 DEF AccValue
<1> QED
  BY <1>3, <1>5, <1>6

(* Doubling a word: what is left of it and the flag that goes on.           *)
LEMMA Doubled ==
  ASSUME NEW B \in Nat, B > 1, NEW x \in 0 .. B - 1
  PROVE  /\ (2 * x) % B \in 0 .. B - 1
         /\ Flag((2 * x) % B < x) \in 0 .. 1
         /\ 2 * x = ((2 * x) % B) + B * Flag((2 * x) % B < x)
         /\ x <= B - 2 /\ (\E h \in Nat : B = 2 * h) => (2 * x) % B <= B - 2
<1>1. CASE 2 * x < B
  <2>1. (2 * x) % B = 2 * x
    BY <1>1, SMT
  <2>2. Flag((2 * x) % B < x) = 0
    BY <2>1, SMT DEF Flag
  <2>3. (\E h \in Nat : B = 2 * h) => 2 * x <= B - 2
    BY <1>1, SMT
  <2> QED
    BY <1>1, <2>1, <2>2, <2>3, SMT
<1>2. CASE 2 * x >= B
  <2>1. (2 * x) % B = 2 * x - B
    BY <1>2, SMT
  <2>2. Flag((2 * x) % B < x) = 1
    BY <2>1, SMT DEF Flag
  <2> QED
    BY <1>2, <2>1, <2>2, SMT
<1> QED
  BY <1>1, <1>2, SMT

(* Three flags in turn reach a word, each seen to have gone in by a result  *)
(* that is not zero.                                                        *)
LEMMA ThreeFlags ==
  ASSUME NEW B \in Nat, B > 1, NEW x \in 0 .. B - 1, NEW i \in 0 .. 1, NEW j \in 0 .. 1, NEW k \in 0 .. 1,
         NEW x1 \in 0 .. B - 1, (i = 0 \/ x1 # 0) => x1 = x + i, (i = 1 /\ x1 = 0) => x + i = B,
         NEW x2 \in 0 .. B - 1, (j = 0 \/ x2 # 0) => x2 = x1 + j, (j = 1 /\ x2 = 0) => x1 + j = B,
         NEW x3 \in 0 .. B - 1, (k = 0 \/ x3 # 0) => x3 = x2 + k, (k = 1 /\ x3 = 0) => x2 + k = B
  PROVE  /\ x + i + j + k < B <=> (i = 0 \/ x1 # 0) /\ (j = 0 \/ x2 # 0) /\ (k = 0 \/ x3 # 0)
         /\ x + i + j + k < B => x3 = x + i + j + k
<1>1. CASE i = 1 /\ x1 = 0
  BY <1>1, SMT
<1>2. CASE (i = 0 \/ x1 # 0) /\ j = 1 /\ x2 = 0
  BY <1>2, SMT
<1>3. CASE (i = 0 \/ x1 # 0) /\ (j = 0 \/ x2 # 0)
  BY <1>3, SMT
<1> QED
  BY <1>1, <1>2, <1>3, SMT

(* The flag of the sum of the doubled low words, and the doubled high word  *)
(* that takes both flags and may wrap round to zero once.                   *)
LEMMA HighFlags ==
  ASSUME NEW B \in Nat, B > 1, NEW h2 \in 0 .. B - 2, NEW f1 \in 0 .. 1, NEW f2 \in 0 .. 1
  PROVE  LET th2 == (((h2 + f1) % B) + f2) % B
         IN  /\ th2 \in 0 .. B - 1
             /\ h2 + f1 + f2 = th2 + B * Flag(f2 = 1 /\ th2 = 0)
<1>a. PICK th2 : th2 = (((h2 + f1) % B) + f2) % B
  OBVIOUS
<1>1. (h2 + f1) % B = h2 + f1
  BY SMT
<1>2. PICK y \in 0 .. B - 1 : y = h2 + f1
  BY SMT
<1>3. /\ th2 \in 0 .. B - 1
      /\ f2 = 0 \/ th2 # 0 => th2 = y + f2
      /\ f2 = 1 /\ th2 = 0 => y + f2 = B
  <2>1. th2 = (y + f2) % B
    BY <1>a, <1>1, <1>2
  <2>2. /\ (y + f2) % B \in 0 .. B - 1
        /\ f2 = 0 \/ (y + f2) % B # 0 => (y + f2) % B = y + f2
        /\ f2 = 1 /\ (y + f2) % B = 0 => y + f2 = B
    BY Incremented
  <2> QED
    BY ONLY <2>1, <2>2
<1>4. h2 + f1 + f2 = th2 + B * Flag(f2 = 1 /\ th2 = 0)
  BY <1>2, <1>3, SMT DEF Flag
<1> QED
  BY <1>a, <1>3, <1>4

(* muladd2 adds 2 * a * b, doubling the product before it is added: five    *)
(* carries meet in the two upper words, and the three VERIFY_CHECKs fail    *)
(* exactly when the sum does not fit.                                       *)
THEOREM MulAdd2Exact ==
  ASSUME NEW w, Wide(w), NEW s, IsAcc(s, w), NEW a \in Word(w), NEW b \in Word(w)
  PROVE  LET t == muladd2(s, a, b, w)
         IN  /\ IsAcc(t, w)
             /\ t.ok <=> s.ok /\ AccValue(s, w) + 2 * (a * b) < AccBound(w)
             /\ t.ok => AccValue(t, w) = AccValue(s, w) + 2 * (a * b)
<1>a. PICK t : t = muladd2(s, a, b, w)
  OBVIOUS
<1>1. PICK B \in Nat : B = 2^w /\ B > 1 /\ \E h \in Nat : B = 2 * h
  BY SMT DEF Wide
<1>2. PICK x0 \in 0 .. B - 1, x1 \in 0 .. B - 1, x2 \in 0 .. B - 1 : x0 = s.c0 /\ x1 = s.c1 /\ x2 = s.c2
  BY <1>1 DEF IsAcc, Word
<1>3. a \in 0 .. B - 1 /\ b \in 0 .. B - 1 /\ s.ok \in BOOLEAN
  BY <1>1 DEF IsAcc, Word
<1>4. PICK tl \in 0 .. B - 1, th \in 0 .. B - 2 :
        tl = (a * b) % B /\ th = (a * b) \div B /\ a * b = B * th + tl
  <2>1. /\ (a * b) % B \in 0 .. B - 1
        /\ (a * b) \div B \in 0 .. B - 2
        /\ a * b = B * ((a * b) \div B) + ((a * b) % B)
    BY <1>1, <1>3, WordsOfProduct
  <2> QED
    BY ONLY <2>1
<1>5. PICK tl2, f1 : tl2 = (2 * tl) % B /\ f1 = Flag(tl2 < tl)
  OBVIOUS
<1>6. tl2 \in 0 .. B - 1 /\ f1 \in 0 .. 1 /\ 2 * tl = tl2 + B * f1
  BY <1>1, <1>5, Doubled
<1>7. PICK h2, g : h2 = (2 * th) % B /\ g = Flag(h2 < th)
  OBVIOUS
<1>8. h2 \in 0 .. B - 2 /\ g \in 0 .. 1 /\ 2 * th = h2 + B * g
  <2>1. th \in 0 .. B - 1 /\ th <= B - 2
    OBVIOUS
  <2>2. /\ (2 * th) % B \in 0 .. B - 1
        /\ Flag((2 * th) % B < th) \in 0 .. 1
        /\ 2 * th = ((2 * th) % B) + B * Flag((2 * th) % B < th)
        /\ (2 * th) % B <= B - 2
    BY <1>1, <2>1, Doubled
  <2> QED
    BY <1>7, <2>2
<1>9. PICK c0, f2 : c0 = (x0 + tl2) % B /\ f2 = Flag(c0 < tl2)
  OBVIOUS
<1>10. c0 \in 0 .. B - 1 /\ f2 \in 0 .. 1 /\ x0 + tl2 = c0 + B * f2 /\ (f2 = 1 <=> c0 < tl2)
  <2>1. /\ (x0 + tl2) % B \in 0 .. B - 1
        /\ (x0 + tl2) % B < tl2 => (x0 + tl2) % B = x0 + tl2 - B
        /\ (x0 + tl2) % B >= tl2 => (x0 + tl2) % B = x0 + tl2
    BY ONLY <1>1, <1>6, SumWraps
  <2>2. /\ c0 \in 0 .. B - 1
        /\ c0 < tl2 => c0 = x0 + tl2 - B
        /\ c0 >= tl2 => c0 = x0 + tl2
    BY ONLY <1>9, <2>1
  <2> QED
    BY <1>6, <1>9, <2>2, SMT DEF Flag
<1>11. PICK th2, r : th2 = (((h2 + f1) % B) + f2) % B /\ r = Flag(f2 = 1 /\ th2 = 0)
  OBVIOUS
<1>12. th2 \in 0 .. B - 1 /\ r \in 0 .. 1 /\ h2 + f1 + f2 = th2 + B * r /\ (r = 1 <=> f2 = 1 /\ th2 = 0)
  <2>1. /\ (((h2 + f1) % B) + f2) % B \in 0 .. B - 1
        /\ h2 + f1 + f2 = ((((h2 + f1) % B) + f2) % B)
                          + B * Flag(f2 = 1 /\ (((h2 + f1) % B) + f2) % B = 0)
    BY <1>1, <1>6, <1>8, <1>10, HighFlags
  <2>2. th2 \in 0 .. B - 1 /\ h2 + f1 + f2 = th2 + B * r
    BY ONLY <1>11, <2>1
  <2> QED
    BY <1>11, <2>2 DEF Flag
<1>13. PICK c1, f3 : c1 = (x1 + th2) % B /\ f3 = Flag(c1 < th2)
  OBVIOUS
<1>14. c1 \in 0 .. B - 1 /\ f3 \in 0 .. 1 /\ x1 + th2 = c1 + B * f3 /\ (f3 = 1 <=> c1 < th2)
  <2>1. /\ (x1 + th2) % B \in 0 .. B - 1
        /\ (x1 + th2) % B < th2 => (x1 + th2) % B = x1 + th2 - B
        /\ (x1 + th2) % B >= th2 => (x1 + th2) % B = x1 + th2
    BY ONLY <1>1, <1>12, SumWraps
  <2>2. /\ c1 \in 0 .. B - 1
        /\ c1 < th2 => c1 = x1 + th2 - B
        /\ c1 >= th2 => c1 = x1 + th2
    BY ONLY <1>13, <2>1
  <2> QED
    BY <1>12, <1>13, <2>2, SMT DEF Flag
<1>15. PICK y1 : y1 = (x2 + g) % B
  OBVIOUS
<1>16. PICK y2 : y2 = (y1 + r) % B
  OBVIOUS
<1>17. PICK y3 : y3 = (y2 + f3) % B
  OBVIOUS
<1>b. /\ y1 \in 0 .. B - 1
      /\ g = 0 \/ y1 # 0 => y1 = x2 + g
      /\ g = 1 /\ y1 = 0 => x2 + g = B
  BY <1>1, <1>8, <1>15, Incremented
<1>c. /\ y2 \in 0 .. B - 1
      /\ r = 0 \/ y2 # 0 => y2 = y1 + r
      /\ r = 1 /\ y2 = 0 => y1 + r = B
  BY <1>1, <1>12, <1>16, <1>b, Incremented
<1>d. /\ y3 \in 0 .. B - 1
      /\ f3 = 0 \/ y3 # 0 => y3 = y2 + f3
      /\ f3 = 1 /\ y3 = 0 => y2 + f3 = B
  BY <1>1, <1>14, <1>17, <1>c, Incremented
<1>18. /\ y3 \in 0 .. B - 1
       /\ x2 + g + r + f3 < B <=> (g = 0 \/ y1 # 0) /\ (r = 0 \/ y2 # 0) /\ (f3 = 0 \/ y3 # 0)
       /\ x2 + g + r + f3 < B => y3 = x2 + g + r + f3
  BY <1>1, <1>8, <1>12, <1>14, <1>b, <1>c, <1>d, ThreeFlags

<1>19. r = Flag(c0 < tl2 /\ th2 = 0)
  BY <1>10, <1>11
<1>20. t = [c0 |-> c0, c1 |-> c1, c2 |-> y3,
            ok |-> /\ s.ok
                   /\ h2 >= th \/ y1 # 0
                   /\ c0 >= tl2 \/ th2 # 0 \/ y2 # 0
                   /\ c1 >= th2 \/ y3 # 0]
  <2>1. t = Add2Low(s, c0, tl, tl2, h2, th, w)
    BY <1>a, <1>1, <1>2, <1>4, <1>5, <1>7, <1>9 DEF muladd2, Low, High
  <2>2. t = Add2High(s, c0, tl2, h2, th, th2, w)
    BY <1>1, <1>5, <1>9, <1>11, <2>1 DEF Add2Low, Low
  <2>3. t = Add2Top(s, c0, c1, y2, tl2, h2, th, th2, w)
    BY <1>1, <1>2, <1>7, <1>13, <1>15, <1>16, <1>19, <2>2 DEF Add2High, Low
  <2> QED
    BY <1>1, <1>2, <1>7, <1>13, <1>15, <1>17, <2>3 DEF Add2Top, Low
<1>21. IsAcc(t, w)
  BY <1>1, <1>3, <1>10, <1>14, <1>18, <1>20 DEF IsAcc, Word
<1>22. t.ok <=> s.ok /\ x2 + g + r + f3 < B
  <2>1. t.ok = (/\ s.ok
                /\ h2 >= th \/ y1 # 0
                /\ c0 >= tl2 \/ th2 # 0 \/ y2 # 0
                /\ c1 >= th2 \/ y3 # 0)
    BY <1>20
  <2>2. h2 >= th <=> g = 0
    BY <1>7, <1>8, SMT DEF Flag
  <2>3. c0 >= tl2 \/ th2 # 0 <=> r = 0
    BY <1>6, <1>10, <1>12, SMT
  <2>4. c1 >= th2 <=> f3 = 0
    BY <1>12, <1>14, SMT
  <2> QED
    BY <1>3, <1>18, <2>1, <2>2, <2>3, <2>4
<1>23. PICK y \in Nat : y = x2 + g + r + f3
  BY <1>8, <1>12, <1>14, SMT
<1>24. AccValue(s, w) + 2 * (a * b) = c0 + B * (c1 + B * y)
  <2>1. AccValue(s, w) = x0 + B * (x1 + B * x2)
    BY <1>1, <1>2 DEF AccValue
  <2>2. 2 * (a * b) = 2 * tl + B * (2 * th)
    BY <1>4, SMT
  <2>3. 2 * tl + B * (2 * th) = tl2 + B * (f1 + h2 + B * g)
    BY <1>6, <1>8, SMT
  <2>4. x0 + tl2 = c0 + B * f2
    BY <1>10
  <2>5. h2 + f1 + f2 = th2 + B * r
    BY <1>12
  <2>6. x1 + th2 = c1 + B * f3
    BY <1>14
  <2>7. x0 + B * (x1 + B * x2) + (tl2 + B * (f1 + h2 + B * g))
          = c0 + B * (x1 + (h2 + f1 + f2) + B * (x2 + g))
    BY ONLY <1>6, <1>8, <1>10, <2>4, SMT
  <2>8. x1 + (h2 + f1 + f2) + B * (x2 + g) = c1 + B * y
    BY ONLY <1>6, <1>8, <1>10, <1>12, <1>14, <1>23, <2>5, <2>6, SMT
  <2> QED
    BY <2>1, <2>2, <2>3, <2>7, <2>8
<1>25. c0 + B * (c1 + B * y) < B * (B * B) <=> y < B
  BY <1>1, <1>10, <1>14, TopFits
<1>26. t.ok <=> s.ok /\ AccValue(s, w) + 2 * (a * b) < AccBound(w)
  BY <1>1, <1>22, <1>23, <1>24, <1>25 DEF AccBound
<1>27. t.ok => AccValue(t, w) = AccValue(s, w) + 2 * (a * b)
  <2>1. t.ok => y3 = y
    BY <1>18, <1>22, <1>23
  <2>2. AccValue(t, w) = c0 + B * (c1 + B * y3)
    BY <1>1, <1>20 DEF AccValue
  <2> QED
    BY <1>24, <2>1, <2>2
<1> QED
  BY <1>a, <1>21, <1>26, <1>27

-----------------------------------------------------------------------------
(* Numbers of four words.                                                   *)
Four(x0, x1, x2, x3, B) == x0 + B * (x1 + B * (x2 + B * x3))
Num(d) == Four(d[0], d[1], d[2], d[3], 2^W)
Order == Num(N_)
Excess == NC0 + 2^W * (NC1 + 2^W)
Top == 2^W * (2^W * (2^W * 2^W))
WordsOf(d) == d \in [Idx -> Word(W)]
IsScalar(a) == a \in [d : [Idx -> Word(W)], ok : BOOLEAN] /\ a.ok /\ Num(a.d) < Order

(* What the other lemmas use of Sizes.                                      *)
LEMMA SizesOf ==
  ASSUME Sizes
  PROVE  /\ Wide(W)
         /\ \E B \in Nat : /\ B = 2^W /\ B >= 8 /\ M = B - 1
                           /\ NC0 \in 1 .. B - 1 /\ NC1 \in 0 .. B - 1 /\ 3 * NC1 + 3 <= B
                           /\ N_ = [i \in 0 .. 3 |-> CASE i = 0 -> B - NC0 [] i = 1 -> B - 1 - NC1
                                                       [] i = 2 -> B - 2 [] i = 3 -> B - 1]
                           /\ N_[0] = B - NC0 /\ N_[1] = B - 1 - NC1 /\ N_[2] = B - 2 /\ N_[3] = B - 1
<1>1. PICK B : B = 2^W
  OBVIOUS
<1>2. B \in Nat /\ B >= 8 /\ Wide(W)
  BY <1>1, SMT DEF Sizes, Wide
<1>3. M = B - 1
  BY <1>1 DEF M
<1>4. NC0 \in 1 .. B - 1 /\ NC1 \in 0 .. B - 1 /\ 3 * NC1 + 3 <= B
  BY <1>1, <1>3 DEF Sizes
<1>5. (B - 1) - 1 = B - 2
  BY <1>2, SMT
<1>6. N_ = [i \in 0 .. 3 |-> CASE i = 0 -> B - NC0 [] i = 1 -> B - 1 - NC1
                                                       [] i = 2 -> B - 2 [] i = 3 -> B - 1]
  BY <1>1, <1>3, <1>5 DEF N_, Idx, N
<1>7. N_[0] = B - NC0 /\ N_[1] = B - 1 - NC1 /\ N_[2] = B - 2 /\ N_[3] = B - 1
  BY <1>2, <1>4, <1>6, SMT
<1> QED
  BY <1>1, <1>2, <1>3, <1>4, <1>6, <1>7

LEMMA WordsAre ==
  ASSUME Sizes, NEW d, WordsOf(d), NEW B \in Nat, B = 2^W
  PROVE  d[0] \in 0 .. B - 1 /\ d[1] \in 0 .. B - 1 /\ d[2] \in 0 .. B - 1 /\ d[3] \in 0 .. B - 1
BY SMT DEF WordsOf, Idx, N, Word

LEMMA FourType ==
  ASSUME NEW B \in Nat, NEW x0 \in Nat, NEW x1 \in Nat, NEW x2 \in Nat, NEW x3 \in Nat
  PROVE  Four(x0, x1, x2, x3, B) \in Nat
BY SMT DEF Four

LEMMA NumType ==
  ASSUME Sizes, NEW d, WordsOf(d)
  PROVE  Num(d) \in Nat
<1>1. PICK B \in Nat : B = 2^W
  BY SizesOf
<1>2. d[0] \in Nat /\ d[1] \in Nat /\ d[2] \in Nat /\ d[3] \in Nat
  BY <1>1, WordsAre, SMT
<1> QED
  BY <1>1, <1>2, FourType DEF Num

LEMMA DigitLess ==
  ASSUME NEW B \in Nat, NEW c \in Nat, c < B, NEW d \in Nat, NEW y \in Nat, NEW z \in Nat, y < z
  PROVE  c + B * y < d + B * z
<1>1. B * (y + 1) <= B * z
  BY SMT
<1>2. B * (y + 1) = B * y + B
  BY SMT
<1>3. B * y \in Nat /\ B * z \in Nat
  BY SMT
<1> QED
  BY <1>1, <1>2, <1>3, SMT

LEMMA DigitOrder ==
  ASSUME NEW B \in Nat, NEW c \in 0 .. B - 1, NEW d \in 0 .. B - 1, NEW y \in Nat, NEW z \in Nat
  PROVE  c + B * y < d + B * z <=> y < z \/ (y = z /\ c < d)
<1>1. CASE y < z
  BY <1>1, DigitLess
<1>2. CASE y = z
  <2>1. PICK m \in Nat : m = B * y
    BY SMT
  <2> QED
    BY <1>2, <2>1, SMT
<1>3. CASE z < y
  <2>1. d + B * z < c + B * y
    BY <1>3, DigitLess
  <2>2. PICK m \in Nat, n \in Nat : m = B * y /\ n = B * z
    BY SMT
  <2> QED
    BY <1>3, <2>1, <2>2, SMT
<1> QED
  BY <1>1, <1>2, <1>3, SMT

(* The highest word in which two numbers differ decides.                    *)
LEMMA NumOrder ==
  ASSUME Sizes, NEW d, WordsOf(d), NEW n, WordsOf(n)
  PROVE  Num(d) < Num(n)
           <=> d[3] < n[3] \/ (d[3] = n[3] /\ (d[2] < n[2] \/ (d[2] = n[2] /\
                 (d[1] < n[1] \/ (d[1] = n[1] /\ d[0] < n[0])))))
<1>a. PICK B \in Nat : B = 2^W
  BY SizesOf
<1>b. PICK a0 \in 0 .. B - 1, a1 \in 0 .. B - 1, a2 \in 0 .. B - 1, a3 \in 0 .. B - 1 :
          a0 = d[0] /\ a1 = d[1] /\ a2 = d[2] /\ a3 = d[3]
  BY <1>a, WordsAre
<1>c. PICK b0 \in 0 .. B - 1, b1 \in 0 .. B - 1, b2 \in 0 .. B - 1, b3 \in 0 .. B - 1 :
          b0 = n[0] /\ b1 = n[1] /\ b2 = n[2] /\ b3 = n[3]
  BY <1>a, WordsAre
<1>1. a3 \in Nat /\ b3 \in Nat
  BY SMT
<1>2. PICK y2 \in Nat, z2 \in Nat : y2 = a2 + B * a3 /\ z2 = b2 + B * b3
  BY SMT
<1>3. PICK y1 \in Nat, z1 \in Nat : y1 = a1 + B * y2 /\ z1 = b1 + B * z2
  BY SMT
<1>4. y2 < z2 <=> a3 < b3 \/ (a3 = b3 /\ a2 < b2)
  BY <1>1, <1>2, DigitOrder
<1>5. z2 < y2 <=> b3 < a3 \/ (a3 = b3 /\ b2 < a2)
  BY <1>1, <1>2, DigitOrder
<1>6. y1 < z1 <=> y2 < z2 \/ (y2 = z2 /\ a1 < b1)
  BY <1>2, <1>3, DigitOrder
<1>7. z1 < y1 <=> z2 < y2 \/ (y2 = z2 /\ b1 < a1)
  BY <1>2, <1>3, DigitOrder
<1>8. a0 + B * y1 < b0 + B * z1 <=> y1 < z1 \/ (y1 = z1 /\ a0 < b0)
  BY <1>3, DigitOrder
<1>9. Num(d) = a0 + B * y1 /\ Num(n) = b0 + B * z1
  BY <1>a, <1>b, <1>c, <1>2, <1>3 DEF Num, Four
<1>10. y2 = z2 <=> a3 = b3 /\ a2 = b2
  BY <1>2, <1>4, <1>5, SMT
<1>11. y1 = z1 <=> a3 = b3 /\ a2 = b2 /\ a1 = b1
  BY <1>3, <1>6, <1>7, <1>10, SMT
<1>12. Num(d) < Num(n)
          <=> a3 < b3 \/ (a3 = b3 /\ (a2 < b2 \/ (a2 = b2 /\ (a1 < b1 \/ (a1 = b1 /\ a0 < b0)))))
  BY <1>4, <1>6, <1>8, <1>9, <1>10, <1>11, SMT
<1> QED
  BY <1>b, <1>c, <1>12

(* The order's words, and what it lacks to 2^(4W).                          *)
LEMMA OrderOf ==
  ASSUME Sizes
  PROVE  /\ WordsOf(N_) /\ Order \in Nat /\ Excess \in Nat /\ Top \in Nat
         /\ Order + Excess = Top /\ Excess > 0 /\ 4 * Excess <= Top
<1>1. PICK B \in Nat : /\ B = 2^W /\ B >= 8
                       /\ NC0 \in 1 .. B - 1 /\ NC1 \in 0 .. B - 1 /\ 3 * NC1 + 3 <= B
                       /\ N_ = [i \in 0 .. 3 |-> CASE i = 0 -> B - NC0 [] i = 1 -> B - 1 - NC1
                                                   [] i = 2 -> B - 2 [] i = 3 -> B - 1]
                       /\ N_[0] = B - NC0 /\ N_[1] = B - 1 - NC1 /\ N_[2] = B - 2 /\ N_[3] = B - 1
  BY SizesOf
<1>2. WordsOf(N_)
  <2>1. \A i \in 0 .. 3 : N_[i] \in 0 .. B - 1
    BY <1>1, SMT
  <2>2. N_ = [i \in 0 .. 3 |-> N_[i]]
    BY <1>1
  <2> QED
    BY <1>1, <2>1, <2>2 DEF WordsOf, Idx, N, Word
<1>3. PICK n0 \in Nat, n1 \in Nat : n0 = NC0 /\ n1 = NC1 /\ n0 > 0 /\ n0 < B /\ n1 < B
  BY <1>1, SMT
<1>4. Order = Four(B - n0, B - 1 - n1, B - 2, B - 1, B)
  BY <1>1, <1>3 DEF Order, Num
<1>5. Excess = n0 + B * (n1 + B)
  BY <1>1, <1>3 DEF Excess
<1>6. Top = B * (B * (B * B))
  BY <1>1 DEF Top
<1>7. PICK b2 \in Nat, b3 \in Nat, b4 \in Nat, q \in Nat :
          b2 = B * B /\ b3 = B * b2 /\ b4 = B * b3 /\ q = B * n1
  BY SMT
<1>8. (B - 2) + B * (B - 1) = b2 - 2
  BY <1>7, SMT
<1>9. (B - 1 - n1) + B * (b2 - 2) = b3 - B - 1 - n1
  BY <1>3, <1>7, SMT
<1>10. (B - n0) + B * (b3 - B - 1 - n1) = b4 - b2 - q - n0
  <2>1. B * (b3 - B - 1 - n1) = b4 - b2 - B - q
    BY <1>3, <1>7, SMT
  <2> QED
    BY <1>3, <1>7, <2>1, SMT
<1>11. Order = b4 - b2 - q - n0
  BY <1>4, <1>8, <1>9, <1>10 DEF Four
<1>12. Excess = n0 + q + b2
  <2>1. B * (n1 + B) = q + b2
    BY <1>3, <1>7, SMT
  <2> QED
    BY <1>3, <1>5, <1>7, <2>1, SMT
<1>13. Top = b4
  BY <1>6, <1>7
<1>14. n0 + q < b2
  <2>1. q <= B * (B - 1)
    BY <1>3, <1>7, SMT
  <2>2. B * (B - 1) = b2 - B
    BY <1>7, SMT
  <2> QED
    BY <1>3, <1>7, <2>1, <2>2, SMT
<1>15. 8 * b2 <= b4
  <2>1. b3 >= 8 * b2 /\ b4 >= b3
    BY <1>1, <1>7, SMT
  <2> QED
    BY <2>1, SMT
<1> QED
  BY <1>2, <1>3, <1>7, <1>11, <1>12, <1>13, <1>14, <1>15, SMT

(* scalar_check_overflow compares with the order.                           *)
LEMMA OverflowExact ==
  ASSUME Sizes, NEW d, WordsOf(d)
  PROVE  scalar_check_overflow(d) <=> Num(d) >= Order
<1>1. PICK B \in Nat : B = 2^W /\ N_[3] = B - 1
  BY SizesOf
<1>2. WordsOf(N_) /\ Order \in Nat /\ Num(d) \in Nat
  BY OrderOf, NumType
<1>3. PICK d0 \in 0 .. B - 1, d1 \in 0 .. B - 1, d2 \in 0 .. B - 1, d3 \in 0 .. B - 1 :
          d0 = d[0] /\ d1 = d[1] /\ d2 = d[2] /\ d3 = d[3]
  BY <1>1, WordsAre
<1>4. PICK n0 \in 0 .. B - 1, n1 \in 0 .. B - 1, n2 \in 0 .. B - 1, n3 \in 0 .. B - 1 :
          n0 = N_[0] /\ n1 = N_[1] /\ n2 = N_[2] /\ n3 = N_[3]
  BY <1>1, <1>2, WordsAre
<1>6. Num(d) < Order
        <=> d3 < n3 \/ (d3 = n3 /\ (d2 < n2 \/ (d2 = n2 /\ (d1 < n1 \/ (d1 = n1 /\ d0 < n0)))))
  BY <1>2, <1>3, <1>4, NumOrder DEF Order
<1>7. d3 <= n3
  BY <1>1, <1>3, <1>4, SMT
<1>8. scalar_check_overflow(d)
        <=> LET no2 == d3 < n3 \/ d2 < n2
                yes2 == d2 > n2 /\ ~no2
                no1 == no2 \/ d1 < n1
            IN  yes2 \/ (d1 > n1 /\ ~no1) \/ (d0 >= n0 /\ ~no1)
  BY <1>3, <1>4 DEF scalar_check_overflow
<1> QED
  BY <1>2, <1>4, <1>6, <1>7, <1>8, SMT

-----------------------------------------------------------------------------
(* Carrying: the words that are left and the carry out of the top one.      *)
LEMMA CarriedFour ==
  ASSUME NEW w, NEW t, \A i \in 0 .. 3 : t[i] \in Int,
         NEW s0, NEW s1, NEW s2, NEW s3,
         s0 = t[0], s1 = t[1] + High(s0, w), s2 = t[2] + High(s1, w), s3 = t[3] + High(s2, w)
  PROVE  Carried(t, 4, w) = [i \in 0 .. 3 |-> CASE i = 0 -> Low(s0, w) [] i = 1 -> Low(s1, w)
                               [] i = 2 -> Low(s2, w) [] i = 3 -> s3]
<1> DEFINE s == CHOOSE s : s = [i \in 0 .. 4 - 1 |-> t[i] + (IF i = 0 THEN 0 ELSE High(s[i - 1], w))]
<1>1. Carried(t, 4, w) = [i \in 0 .. 4 - 1 |-> IF i = 4 - 1 THEN s[i] ELSE Low(s[i], w)]
  BY DEF Carried
<1>2. \E z : z = [i \in 0 .. 4 - 1 |-> t[i] + (IF i = 0 THEN 0 ELSE High(z[i - 1], w))]
  <2> DEFINE z == [i \in 0 .. 4 - 1 |->
                     CASE i = 0 -> s0
                       [] i = 1 -> s1
                       [] i = 2 -> s2
                       [] i = 3 -> s3]
  <2>1. z[0] = s0 /\ z[1] = s1 /\ z[2] = s2 /\ z[3] = s3
    BY SMT
  <2>2. z = [i \in 0 .. 4 - 1 |-> z[i]]
    OBVIOUS
  <2> HIDE DEF z
  <2>3. \A i \in 0 .. 4 - 1 : z[i] = t[i] + (IF i = 0 THEN 0 ELSE High(z[i - 1], w))
    BY <2>1, SMT
  <2> QED
    BY <2>2, <2>3
<1>3. s = [i \in 0 .. 4 - 1 |-> t[i] + (IF i = 0 THEN 0 ELSE High(s[i - 1], w))]
  BY <1>2
<1> HIDE DEF s
<1>4. s[0] = s0 /\ s[1] = s1 /\ s[2] = s2 /\ s[3] = s3
  BY <1>3, SMT
<1> QED
  BY <1>1, <1>4, SMT

LEMMA Digit ==
  ASSUME NEW B \in Nat, B > 0, NEW x \in Nat
  PROVE  \E d \in 0 .. B - 1, e \in Nat : d = x % B /\ e = x \div B /\ x = d + B * e
<1>1. x % B \in 0 .. B - 1 /\ x \div B \in Nat /\ x = (x % B) + B * (x \div B)
  BY SMT
<1> QED
  BY <1>1

LEMMA WrappedExact ==
  ASSUME Sizes, NEW t, t[0] \in Nat, t[1] \in Nat, t[2] \in Nat, t[3] \in Nat
  PROVE  LET r == Wrapped(t)
         IN  /\ r = [d |-> r.d, c |-> r.c] /\ WordsOf(r.d) /\ r.c \in Nat
             /\ Num(t) = Num(r.d) + Top * r.c
<1>1. PICK B \in Nat : B = 2^W /\ B > 0
  BY SizesOf, SMT
<1>2. PICK t0 \in Nat, t1 \in Nat, t2 \in Nat, t3 \in Nat : t0 = t[0] /\ t1 = t[1] /\ t2 = t[2] /\ t3 = t[3]
  OBVIOUS
<1>3. PICK d0 \in 0 .. B - 1, e0 \in Nat : d0 = t0 % B /\ e0 = t0 \div B /\ t0 = d0 + B * e0
  BY <1>1, Digit
<1>4. PICK s1 \in Nat : s1 = t1 + e0
  BY SMT
<1>5. PICK d1 \in 0 .. B - 1, e1 \in Nat : d1 = s1 % B /\ e1 = s1 \div B /\ s1 = d1 + B * e1
  BY <1>1, Digit
<1>6. PICK s2 \in Nat : s2 = t2 + e1
  BY SMT
<1>7. PICK d2 \in 0 .. B - 1, e2 \in Nat : d2 = s2 % B /\ e2 = s2 \div B /\ s2 = d2 + B * e2
  BY <1>1, Digit
<1>8. PICK s3 \in Nat : s3 = t3 + e2
  BY SMT
<1>9. PICK d3 \in 0 .. B - 1, e3 \in Nat : d3 = s3 % B /\ e3 = s3 \div B /\ s3 = d3 + B * e3
  BY <1>1, Digit
<1>10. PICK s : s = Carried(t, 4, W)
  OBVIOUS
<1>11. s = [i \in 0 .. 3 |-> CASE i = 0 -> d0 [] i = 1 -> d1 [] i = 2 -> d2 [] i = 3 -> s3]
  <2>1. \A i \in 0 .. 3 : t[i] \in Int
    BY <1>2, SMT
  <2>2. s1 = t[1] + High(t[0], W) /\ s2 = t[2] + High(s1, W) /\ s3 = t[3] + High(s2, W)
    BY <1>1, <1>2, <1>3, <1>4, <1>5, <1>6, <1>7, <1>8 DEF High
  <2>3. Carried(t, 4, W) = [i \in 0 .. 3 |-> CASE i = 0 -> Low(t[0], W) [] i = 1 -> Low(s1, W)
                               [] i = 2 -> Low(s2, W) [] i = 3 -> s3]
    BY <2>1, <2>2, CarriedFour
  <2> QED
    BY <1>1, <1>2, <1>3, <1>5, <1>7, <1>10, <2>3 DEF Low
<1>12. PICK d : d = [s EXCEPT ![3] = Low(@, W)]
  OBVIOUS
<1>13. s[3] = s3
  BY <1>11, SMT
<1>14. d = [s EXCEPT ![3] = d3]
  BY <1>1, <1>9, <1>12, <1>13 DEF Low
<1>15. d = [i \in 0 .. 3 |-> d[i]] /\ d[0] = d0 /\ d[1] = d1 /\ d[2] = d2 /\ d[3] = d3
  <2>1. s[0] = d0 /\ s[1] = d1 /\ s[2] = d2 /\ DOMAIN s = 0 .. 3 /\ s = [i \in 0 .. 3 |-> s[i]]
    BY <1>11, SMT
  <2>2. d = [i \in 0 .. 3 |-> IF i = 3 THEN d3 ELSE s[i]]
    BY <1>14, <2>1
  <2> QED
    BY <2>1, <2>2, SMT
<1>16. WordsOf(d)
  <2>1. \A i \in 0 .. 3 : d[i] \in 0 .. B - 1
    BY <1>15, SMT
  <2> QED
    BY <1>1, <1>15, <2>1 DEF WordsOf, Idx, N, Word
<1>17. Wrapped(t) = [d |-> d, c |-> e3]
  <2>1. Wrapped(t) = WithCarry(s) /\ 4 - 1 = 3
    BY <1>10 DEF Wrapped, N
  <2>2. WithCarry(s) = [d |-> d, c |-> High(s[3], W)]
    BY <1>12, <2>1 DEF WithCarry, N
  <2>3. High(s[3], W) = e3
    BY <1>1, <1>9, <1>13 DEF High
  <2> QED
    BY <2>1, <2>2, <2>3
<1>18. Num(t) = Num(d) + Top * e3
  <2>1. Num(t) = t0 + B * (t1 + B * (t2 + B * t3))
    BY <1>1, <1>2 DEF Num, Four
  <2>2. Num(d) = d0 + B * (d1 + B * (d2 + B * d3))
    BY <1>1, <1>15 DEF Num, Four
  <2>3. Top * e3 = (B * (B * (B * B))) * e3
    BY <1>1 DEF Top
  <2>4. PICK z3 \in Nat, z2 \in Nat, z1 \in Nat, z0 \in Nat :
            z3 = B * e3 /\ z2 = B * z3 /\ z1 = B * z2 /\ z0 = B * z1
    BY SMT
  <2>5. Top * e3 = z0
    BY <2>3, <2>4, SMT
  <2>6. t3 = d3 + z3 - e2
    BY <1>8, <1>9, <2>4, SMT
  <2>7. PICK x3 \in Nat, f2 \in Nat, y3 \in Nat : x3 = B * t3 /\ f2 = B * e2 /\ y3 = B * d3
    BY SMT
  <2>8. x3 = y3 + z2 - f2
    BY <2>4, <2>6, <2>7, SMT
  <2>9. t2 + x3 = (d2 + y3) + z2 - e1
    BY <1>6, <1>7, <2>7, <2>8, SMT
  <2>10. PICK x2 \in Nat, f1 \in Nat, y2 \in Nat : x2 = B * (t2 + x3) /\ f1 = B * e1 /\ y2 = B * (d2 + y3)
    BY <2>7, SMT
  <2>11. x2 = y2 + z1 - f1
    BY <2>4, <2>7, <2>9, <2>10, SMT
  <2>12. t1 + x2 = (d1 + y2) + z1 - e0
    BY <1>4, <1>5, <2>10, <2>11, SMT
  <2>13. PICK x1 \in Nat, f0 \in Nat, y1 \in Nat : x1 = B * (t1 + x2) /\ f0 = B * e0 /\ y1 = B * (d1 + y2)
    BY <2>10, SMT
  <2>14. x1 = y1 + z0 - f0
    BY <2>4, <2>10, <2>12, <2>13, SMT
  <2> QED
    BY <1>3, <2>1, <2>2, <2>5, <2>7, <2>10, <2>13, <2>14, SMT
<1> QED
  BY <1>16, <1>17, <1>18

(* The carry is the quotient by 2^(4W).                                     *)
LEMMA NumBelowTop ==
  ASSUME Sizes, NEW d, WordsOf(d)
  PROVE  Num(d) < Top
<1>1. PICK B \in Nat : B = 2^W /\ B > 0
  BY SizesOf, SMT
<1>2. PICK d0 \in 0 .. B - 1, d1 \in 0 .. B - 1, d2 \in 0 .. B - 1, d3 \in 0 .. B - 1 :
          d0 = d[0] /\ d1 = d[1] /\ d2 = d[2] /\ d3 = d[3]
  BY <1>1, WordsAre
<1>3. Num(d) = d0 + B * (d1 + B * (d2 + B * d3)) /\ Top = B * (B * (B * B))
  BY <1>1, <1>2 DEF Num, Four, Top
<1>4. PICK b2 \in Nat, b3 \in Nat : b2 = B * B /\ b3 = B * b2
  BY SMT
<1>5. PICK y2 \in Nat : y2 = d2 + B * d3 /\ y2 < b2
  <2>1. d2 + B * d3 < 0 + B * B
    BY <1>2, DigitLess
  <2>2. d2 + B * d3 \in Nat
    BY <1>2, SMT
  <2> QED
    BY <1>4, <2>1, <2>2, SMT
<1>6. PICK y1 \in Nat : y1 = d1 + B * y2 /\ y1 < b3
  <2>1. d1 + B * y2 < 0 + B * b2
    BY <1>2, <1>4, <1>5, DigitLess
  <2>2. d1 + B * y2 \in Nat
    BY <1>2, <1>5, SMT
  <2> QED
    BY <1>4, <2>1, <2>2, SMT
<1>7. d0 + B * y1 < 0 + B * b3
  BY <1>2, <1>4, <1>6, DigitLess
<1>8. 0 + B * b3 = B * b3
  BY <1>4, SMT
<1> QED
  BY <1>3, <1>4, <1>5, <1>6, <1>7, <1>8

-----------------------------------------------------------------------------
(* The number and the order's complement so many times.                     *)
LEMMA NumPlusExcess ==
  ASSUME Sizes, NEW d, WordsOf(d), NEW k \in Nat,
         NEW t, t = [i \in Idx |-> d[i] + k * (IF i <= Half THEN N_C[i] ELSE 0)]
  PROVE  /\ t[0] \in Nat /\ t[1] \in Nat /\ t[2] \in Nat /\ t[3] \in Nat
         /\ Num(t) = Num(d) + k * Excess
<1>1. PICK B \in Nat, n0 \in Nat, n1 \in Nat : B = 2^W /\ n0 = NC0 /\ n1 = NC1
  BY SizesOf, SMT
<1>2. PICK d0 \in Nat, d1 \in Nat, d2 \in Nat, d3 \in Nat :
          d0 = d[0] /\ d1 = d[1] /\ d2 = d[2] /\ d3 = d[3]
  BY <1>1, WordsAre, SMT
<1>3. N_C[0] = n0 /\ N_C[1] = n1 /\ N_C[2] = 1
  BY <1>1, SMT DEF N_C, Half
<1>4. t[0] = d0 + k * n0 /\ t[1] = d1 + k * n1 /\ t[2] = d2 + k /\ t[3] = d3
  <2>1. t[0] = d0 + k * N_C[0] /\ t[1] = d1 + k * N_C[1] /\ t[2] = d2 + k * N_C[2] /\ t[3] = d3 + k * 0
    BY <1>2 DEF Idx, N, Half
  <2>2. k * 1 = k /\ k * 0 = 0
    BY SMT
  <2> QED
    BY <1>2, <1>3, <2>1, <2>2, SMT
<1>5. t[0] \in Nat /\ t[1] \in Nat /\ t[2] \in Nat /\ t[3] \in Nat
  BY <1>4, SMT
<1>6. Num(t) = Num(d) + k * Excess
  <2>1. PICK k0 \in Nat, k1 \in Nat : k0 = k * n0 /\ k1 = k * n1
    BY SMT
  <2>2. Num(t) = (d0 + k0) + B * ((d1 + k1) + B * ((d2 + k) + B * d3))
    BY <1>1, <1>4, <2>1 DEF Num, Four
  <2>3. PICK x2 \in Nat, f2 \in Nat : x2 = B * d3 /\ f2 = B * k
    BY SMT
  <2>4. B * ((d2 + k) + x2) = B * (d2 + x2) + f2
    BY <2>3, SMT
  <2>5. PICK x1 \in Nat : x1 = B * (d2 + x2)
    BY <2>3, SMT
  <2>6. B * ((d1 + k1) + (x1 + f2)) = B * (d1 + x1) + B * (k1 + f2)
    BY <2>1, <2>3, <2>5, SMT
  <2>7. PICK x0 \in Nat, f1 \in Nat : x0 = B * (d1 + x1) /\ f1 = B * (k1 + f2)
    BY <2>1, <2>3, <2>5, SMT
  <2>8. Num(d) = d0 + x0
    BY <1>1, <1>2, <2>3, <2>5, <2>7 DEF Num, Four
  <2>9. k * Excess = k0 + f1
    <3>1. k * Excess = k * (n0 + B * (n1 + B))
      BY <1>1 DEF Excess
    <3>2. PICK m \in Nat : m = n1 + B
      BY SMT
    <3>3. k * (n0 + B * m) = k0 + B * (k * m)
      BY <2>1, SMT
    <3>4. k * m = k1 + f2
      BY <2>1, <2>3, <3>2, SMT
    <3> QED
      BY <2>7, <3>1, <3>2, <3>3, <3>4
  <2>10. Num(t) = (d0 + k0) + (x0 + f1)
    BY <2>2, <2>3, <2>4, <2>5, <2>6, <2>7
  <2> QED
    BY <2>1, <2>7, <2>8, <2>9, <2>10, SMT
<1> QED
  BY <1>5, <1>6

(* A number below twice the order is reduced exactly, and the check on the  *)
(* number of subtractions holds: the sum of the carry and of the comparison *)
(* is the quotient.                                                         *)
LEMMA ReducedExact ==
  ASSUME Sizes, NEW s, WordsOf(s.d), s.c \in Nat, NEW ok \in BOOLEAN,
         NEW v, v = Num(s.d) + Top * s.c, v < 2 * Order
  PROVE  LET r == Reduced(s, ok)
         IN  /\ r \in [d : [Idx -> Word(W)], ok : BOOLEAN] /\ (r.ok <=> ok) /\ Num(r.d) < Order
             /\ Num(r.d) = v \/ Num(r.d) = v - Order
<1>1. /\ Order \in Nat /\ Excess \in Nat /\ Top \in Nat
      /\ Order + Excess = Top /\ Excess > 0 /\ 4 * Excess <= Top
  BY OrderOf
<1>2. PICK c \in Nat, x \in Nat : c = s.c /\ x = Num(s.d) /\ x < Top
  BY NumType, NumBelowTop
<1>3. PICK f : f = Flag(scalar_check_overflow(s.d))
  OBVIOUS
<1>4. f = IF x >= Order THEN 1 ELSE 0
  BY <1>2, <1>3, OverflowExact DEF Flag
<1>5. c \in {0, 1}
  <2>1. CASE c >= 2
    <3>1. Top * c >= Top * 2
      BY <1>1, <2>1, SMT
    <3>2. PICK m \in Nat : m = Top * c
      BY <1>1, SMT
    <3> QED
      BY <1>1, <1>2, <3>1, <3>2, SMT
  <2> QED
    BY <2>1, SMT
<1>6. Top * 0 = 0 /\ Top * 1 = Top
  BY <1>1, SMT
<1>7. PICK o \in Nat : /\ o = c + f /\ o \in {0, 1}
                       /\ o = 0 => v < Order /\ v = x
                       /\ o = 1 => v >= Order /\ x + Excess = (v - Order) + Top * (1 - c)
                       /\ v \in Nat
  <2>1. CASE c = 0
    BY <1>1, <1>2, <1>4, <1>6, <2>1, SMT
  <2>2. CASE c = 1
    BY <1>1, <1>2, <1>4, <1>6, <2>2, SMT
  <2> QED
    BY <1>5, <2>1, <2>2
<1>8. PICK t : t = [i \in Idx |-> s.d[i] + o * (IF i <= Half THEN N_C[i] ELSE 0)]
  OBVIOUS
<1>9. /\ t[0] \in Nat /\ t[1] \in Nat /\ t[2] \in Nat /\ t[3] \in Nat
      /\ Num(t) = x + o * Excess
  BY <1>2, <1>8, NumPlusExcess
<1>10. PICK d, e : d = Wrapped(t).d /\ e = Wrapped(t).c
  OBVIOUS
<1>11. WordsOf(d) /\ e \in Nat /\ Num(t) = Num(d) + Top * e
  BY <1>9, <1>10, WrappedExact
<1>12. PICK y \in Nat : y = Num(d) /\ y < Top
  BY <1>11, NumType, NumBelowTop
<1>13. e <= 1
  <2>1. CASE e >= 2
    <3>1. Top * e >= Top * 2
      BY <1>1, <1>11, <2>1, SMT
    <3>2. PICK m \in Nat : m = Top * e
      BY <1>1, <1>11, SMT
    <3>3. o * Excess <= Excess
      BY <1>1, <1>7, SMT
    <3> QED
      BY <1>1, <1>2, <1>9, <1>11, <1>12, <3>1, <3>2, <3>3, SMT
  <2> QED
    BY <1>11, <2>1, SMT
<1>14. y < Order /\ (y = v \/ y = v - Order)
  <2>1. CASE o = 0
    <3>1. o * Excess = 0
      BY <1>1, <2>1, SMT
    <3>2. e = 0
      BY <1>1, <1>2, <1>6, <1>9, <1>11, <1>12, <1>13, <3>1, SMT
    <3> QED
      BY <1>1, <1>2, <1>6, <1>7, <1>9, <1>11, <1>12, <2>1, <3>1, <3>2, SMT
  <2>2. CASE o = 1
    <3>1. o * Excess = Excess
      BY <1>1, <2>2, SMT
    <3>2. PICK u \in Nat : u = v - Order /\ u < Order
      BY <1>1, <1>7, <2>2, SMT
    <3>3. y + Top * e = u + Top * (1 - c)
      BY <1>7, <1>9, <1>11, <1>12, <2>2, <3>1, <3>2
    <3>4. y = u
      <4>1. CASE c = 0
        <5>1. y + Top * e = u + Top
          BY <1>1, <3>3, <4>1, SMT
        <5>2. e = 1
          BY <1>1, <1>6, <1>11, <1>12, <1>13, <3>2, <5>1, SMT
        <5> QED
          BY <1>1, <1>6, <1>12, <3>2, <5>1, <5>2, SMT
      <4>2. CASE c = 1
        <5>1. y + Top * e = u
          BY <1>1, <3>2, <3>3, <4>2, SMT
        <5>2. e = 0
          BY <1>1, <1>6, <1>11, <1>12, <1>13, <3>2, <5>1, SMT
        <5> QED
          BY <1>1, <1>6, <1>12, <3>2, <5>1, <5>2, SMT
      <4> QED
        BY <1>5, <4>1, <4>2
    <3> QED
      BY <3>2, <3>4
  <2> QED
    BY <1>7, <2>1, <2>2
<1>15. Reduced(s, ok) = [d |-> d, ok |-> ok /\ o <= 1]
  BY <1>2, <1>3, <1>7, <1>8, <1>10 DEF Reduced, ReducedBy, scalar_reduce
<1>16. o <= 1
  BY <1>7, SMT
<1> QED
  BY <1>11, <1>12, <1>14, <1>15, <1>16 DEF WordsOf

(* scalar_check_overflow tells whether the number has to be reduced, and    *)
(* the words that scalar_set_b32 has read are reduced:                      *)
(* secp256k1_scalar_check_overflow, secp256k1_scalar_set_b32.               *)
THEOREM ParsedExact ==
  ASSUME Sizes, NEW d, WordsOf(d)
  PROVE  LET p == Parsed(d)
         IN  /\ IsScalar(p.r) /\ (p.overflow <=> Num(d) >= Order)
             /\ Num(p.r.d) = Num(d) \/ Num(p.r.d) = Num(d) - Order
<1>1. PICK s : s = [d |-> d, c |-> 0]
  OBVIOUS
<1>2. /\ Order \in Nat /\ Excess \in Nat /\ Top \in Nat
      /\ Order + Excess = Top /\ Excess > 0 /\ 4 * Excess <= Top
  BY OrderOf
<1>3. PICK x \in Nat : x = Num(d) /\ x < Top
  BY NumType, NumBelowTop
<1>4. s.d = d /\ s.c = 0 /\ x = Num(s.d) + Top * s.c
  <2>1. x + Top * 0 = x
    BY <1>2, SMT
  <2> QED
    BY <1>1, <1>3, <2>1
<1>5. x < 2 * Order
  BY <1>2, <1>3, SMT
<1>6. PICK r : r = Reduced(s, TRUE)
  OBVIOUS
<1>7. /\ r \in [d : [Idx -> Word(W)], ok : BOOLEAN] /\ (r.ok <=> TRUE) /\ Num(r.d) < Order
      /\ Num(r.d) = x \/ Num(r.d) = x - Order
  <2>1. WordsOf(s.d) /\ s.c \in Nat /\ TRUE \in BOOLEAN
    BY <1>4
  <2>2. PICK v : v = x
    OBVIOUS
  <2>3. v = Num(s.d) + Top * s.c /\ v < 2 * Order
    BY <1>4, <1>5, <2>2
  <2>4. /\ r \in [d : [Idx -> Word(W)], ok : BOOLEAN] /\ (r.ok <=> TRUE) /\ Num(r.d) < Order
        /\ Num(r.d) = v \/ Num(r.d) = v - Order
    BY <1>6, <2>1, <2>3, ReducedExact
  <2> QED
    BY <2>2, <2>4
<1>8. Parsed(d) = [r |-> r, overflow |-> scalar_check_overflow(d)]
  BY <1>1, <1>6 DEF Parsed
<1> QED
  BY <1>3, <1>7, <1>8, OverflowExact DEF IsScalar

(* The words of two numbers, added one by one.                              *)
LEMMA NumSum ==
  ASSUME Sizes, NEW x, WordsOf(x), NEW y, WordsOf(y), NEW t, t = [i \in Idx |-> x[i] + y[i]]
  PROVE  /\ t[0] \in Nat /\ t[1] \in Nat /\ t[2] \in Nat /\ t[3] \in Nat
         /\ Num(t) = Num(x) + Num(y)
<1>1. PICK B \in Nat : B = 2^W
  BY SizesOf
<1>2. PICK x0 \in Nat, x1 \in Nat, x2 \in Nat, x3 \in Nat : x0 = x[0] /\ x1 = x[1] /\ x2 = x[2] /\ x3 = x[3]
  BY <1>1, WordsAre, SMT
<1>3. PICK y0 \in Nat, y1 \in Nat, y2 \in Nat, y3 \in Nat : y0 = y[0] /\ y1 = y[1] /\ y2 = y[2] /\ y3 = y[3]
  BY <1>1, WordsAre, SMT
<1>4. t[0] = x0 + y0 /\ t[1] = x1 + y1 /\ t[2] = x2 + y2 /\ t[3] = x3 + y3
  BY <1>2, <1>3 DEF Idx, N
<1>5. Num(t) = (x0 + y0) + B * ((x1 + y1) + B * ((x2 + y2) + B * (x3 + y3)))
  BY <1>1, <1>4 DEF Num, Four
<1>6. PICK a3 \in Nat, b3 \in Nat : a3 = B * x3 /\ b3 = B * y3 /\ B * (x3 + y3) = a3 + b3
  BY SMT
<1>7. PICK a2 \in Nat, b2 \in Nat : /\ a2 = B * (x2 + a3) /\ b2 = B * (y2 + b3)
                                    /\ B * ((x2 + y2) + (a3 + b3)) = a2 + b2
  BY <1>6, SMT
<1>8. PICK a1 \in Nat, b1 \in Nat : /\ a1 = B * (x1 + a2) /\ b1 = B * (y1 + b2)
                                    /\ B * ((x1 + y1) + (a2 + b2)) = a1 + b1
  BY <1>7, SMT
<1>9. Num(x) = x0 + a1 /\ Num(y) = y0 + b1
  BY <1>1, <1>2, <1>3, <1>6, <1>7, <1>8 DEF Num, Four
<1>10. Num(t) = (x0 + y0) + (a1 + b1)
  BY <1>5, <1>6, <1>7, <1>8
<1> QED
  BY <1>4, <1>8, <1>9, <1>10, SMT

(* scalar_add: the sum modulo the order, with at most one subtraction of    *)
(* it, whatever the carry out of the top word: secp256k1_scalar_add.        *)
THEOREM AddExact ==
  ASSUME Sizes, NEW a, IsScalar(a), NEW b, IsScalar(b)
  PROVE  LET r == scalar_add(a, b)
         IN  /\ IsScalar(r)
             /\ Num(r.d) = Num(a.d) + Num(b.d) \/ Num(r.d) = Num(a.d) + Num(b.d) - Order
<1>1. WordsOf(a.d) /\ WordsOf(b.d) /\ a.ok /\ b.ok /\ a.ok \in BOOLEAN /\ b.ok \in BOOLEAN
  BY DEF IsScalar, WordsOf
<1>2. PICK x \in Nat, y \in Nat : x = Num(a.d) /\ y = Num(b.d) /\ x < Order /\ y < Order /\ Order \in Nat
  BY <1>1, NumType, OrderOf DEF IsScalar
<1>3. PICK t : t = [i \in Idx |-> a.d[i] + b.d[i]]
  OBVIOUS
<1>4. t[0] \in Nat /\ t[1] \in Nat /\ t[2] \in Nat /\ t[3] \in Nat /\ Num(t) = x + y
  BY <1>1, <1>2, <1>3, NumSum
<1>5. PICK s : s = Wrapped(t)
  OBVIOUS
<1>6. WordsOf(s.d) /\ s.c \in Nat /\ Num(t) = Num(s.d) + Top * s.c
  BY <1>4, <1>5, WrappedExact
<1>12. PICK ok \in BOOLEAN : ok = (a.ok /\ b.ok)
  BY <1>1
<1>7. PICK r : r = Reduced(s, ok)
  OBVIOUS
<1>8. PICK v : v = Num(t)
  OBVIOUS
<1>9. v = Num(s.d) + Top * s.c /\ v < 2 * Order
  <2>1. v < 2 * Order
    BY <1>2, <1>4, <1>8, SMT
  <2> QED
    BY <1>6, <1>8, <2>1
<1>10. /\ r \in [d : [Idx -> Word(W)], ok : BOOLEAN] /\ (r.ok <=> ok) /\ Num(r.d) < Order
       /\ Num(r.d) = v \/ Num(r.d) = v - Order
  BY <1>6, <1>7, <1>9, ReducedExact
<1>11. scalar_add(a, b) = r
  BY <1>3, <1>5, <1>7, <1>12 DEF scalar_add
<1> QED
  BY <1>1, <1>2, <1>4, <1>8, <1>10, <1>11, <1>12 DEF IsScalar

(* scalar_is_zero: secp256k1_scalar_is_zero.                                *)
LEMMA ZeroWords ==
  ASSUME Sizes, NEW d, WordsOf(d)
  PROVE  Num(d) = 0 <=> \A i \in Idx : d[i] = 0
<1>1. PICK B \in Nat : B = 2^W /\ B >= 8
  BY SizesOf
<1>2. PICK d0 \in Nat, d1 \in Nat, d2 \in Nat, d3 \in Nat :
          d0 = d[0] /\ d1 = d[1] /\ d2 = d[2] /\ d3 = d[3]
  BY <1>1, WordsAre, SMT
<1>3. Num(d) = d0 + B * (d1 + B * (d2 + B * d3))
  BY <1>1, <1>2 DEF Num, Four
<1>4. (\A i \in Idx : d[i] = 0) <=> d0 = 0 /\ d1 = 0 /\ d2 = 0 /\ d3 = 0
  BY <1>2, SMT DEF Idx, N
<1>5. ASSUME NEW x \in Nat, NEW y \in Nat PROVE x + B * y = 0 <=> x = 0 /\ y = 0
  <2>1. CASE y = 0
    BY <2>1, SMT
  <2>2. CASE y > 0
    <3>1. B * y >= B
      BY <2>2, SMT
    <3>2. PICK m \in Nat : m = B * y
      BY SMT
    <3> QED
      BY <1>1, <2>2, <3>1, <3>2, SMT
  <2> QED
    BY <2>1, <2>2, SMT
<1>6. PICK y2 \in Nat : y2 = d2 + B * d3
  BY SMT
<1>7. PICK y1 \in Nat : y1 = d1 + B * y2
  BY SMT
<1>8. (y2 = 0 <=> d2 = 0 /\ d3 = 0) /\ (y1 = 0 <=> d1 = 0 /\ y2 = 0)
  BY <1>5, <1>6, <1>7
<1>9. d0 + B * y1 = 0 <=> d0 = 0 /\ y1 = 0
  BY <1>5
<1> QED
  BY <1>3, <1>4, <1>6, <1>7, <1>8, <1>9

(* scalar_negate: zero for zero and what is missing to the order otherwise; *)
(* the carry out of the top word is the one to drop:                        *)
(* secp256k1_scalar_negate.                                                 *)
THEOREM NegateExact ==
  ASSUME Sizes, NEW a, IsScalar(a)
  PROVE  LET r == scalar_negate(a)
         IN  /\ IsScalar(r)
             /\ Num(r.d) = IF Num(a.d) = 0 THEN 0 ELSE Order - Num(a.d)
<1>1. WordsOf(a.d) /\ a.ok /\ a \in [d : [Idx -> Word(W)], ok : BOOLEAN]
  BY DEF IsScalar, WordsOf
<1>2. /\ Order \in Nat /\ Excess \in Nat /\ Top \in Nat /\ WordsOf(N_)
      /\ Order + Excess = Top /\ Excess > 0
  BY OrderOf
<1>3. PICK x \in Nat : x = Num(a.d) /\ x < Order
  BY <1>1, NumType DEF IsScalar
<1>4. scalar_is_zero(a) <=> x = 0
  BY <1>1, <1>3, ZeroWords DEF scalar_is_zero
<1>5. CASE x = 0
  <2>1. PICK z : z = [i \in Idx |-> 0]
    OBVIOUS
  <2>2. WordsOf(z) /\ \A i \in Idx : z[i] = 0
    <3>1. 0 \in Word(W)
      BY SizesOf, SMT DEF Word
    <3> QED
      BY <2>1, <3>1 DEF WordsOf
  <2>3. Num(z) = 0
    BY <2>2, ZeroWords
  <2>4. scalar_negate(a) = [a EXCEPT !.d = z]
    BY <1>4, <1>5, <2>1 DEF scalar_negate, scalar_clear
  <2>5. IsScalar([a EXCEPT !.d = z]) /\ [a EXCEPT !.d = z].d = z
    BY <1>1, <1>3, <1>5, <2>2, <2>3 DEF IsScalar, WordsOf
  <2> QED
    BY <1>3, <1>5, <2>3, <2>4, <2>5
<1>6. CASE x > 0
  <2>1. PICK t : t = [i \in Idx |-> M - a.d[i] + N_[i] + Flag(i = 0)]
    OBVIOUS
  <2>2. PICK B \in Nat : B = 2^W /\ M = B - 1 /\ B >= 8
    BY SizesOf
  <2>3. PICK d0 \in 0 .. B - 1, d1 \in 0 .. B - 1, d2 \in 0 .. B - 1, d3 \in 0 .. B - 1 :
            d0 = a.d[0] /\ d1 = a.d[1] /\ d2 = a.d[2] /\ d3 = a.d[3]
    BY <1>1, <2>2, WordsAre
  <2>4. PICK n0 \in 0 .. B - 1, n1 \in 0 .. B - 1, n2 \in 0 .. B - 1, n3 \in 0 .. B - 1 :
            n0 = N_[0] /\ n1 = N_[1] /\ n2 = N_[2] /\ n3 = N_[3]
    BY <1>2, <2>2, WordsAre
  <2>5. PICK t0 \in Nat, t1 \in Nat, t2 \in Nat, t3 \in Nat :
            /\ t0 = t[0] /\ t1 = t[1] /\ t2 = t[2] /\ t3 = t[3]
            /\ t0 + d0 = B + n0 /\ t1 + d1 = B - 1 + n1 /\ t2 + d2 = B - 1 + n2 /\ t3 + d3 = B - 1 + n3
    <3>1. /\ t[0] = B - 1 - d0 + n0 + 1 /\ t[1] = B - 1 - d1 + n1 + 0
          /\ t[2] = B - 1 - d2 + n2 + 0 /\ t[3] = B - 1 - d3 + n3 + 0
      BY <2>1, <2>2, <2>3, <2>4 DEF Idx, N, Flag
    <3>2. t[0] \in Nat /\ t[1] \in Nat /\ t[2] \in Nat /\ t[3] \in Nat
      BY <3>1, SMT
    <3> QED
      BY <3>1, <3>2, SMT
  <2>6. Num(t) + x = Top + Order
    <3>1. Num(t) = t0 + B * (t1 + B * (t2 + B * t3)) /\ x = d0 + B * (d1 + B * (d2 + B * d3))
      BY <1>3, <2>2, <2>3, <2>5 DEF Num, Four
    <3>2. Order = n0 + B * (n1 + B * (n2 + B * n3)) /\ Top = B * (B * (B * B))
      BY <2>2, <2>4 DEF Order, Num, Four, Top
    <3>3. PICK b2 \in Nat, b3 \in Nat, b4 \in Nat : b2 = B * B /\ b3 = B * b2 /\ b4 = B * b3
      BY SMT
    <3>4. PICK f3 \in Nat, g3 \in Nat, h3 \in Nat : f3 = B * t3 /\ g3 = B * d3 /\ h3 = B * n3
      BY SMT
    <3>5. f3 + g3 = b2 - B + h3
      <4>1. B * (t3 + d3) = B * (B - 1 + n3)
        BY <2>5
      <4>2. B * (t3 + d3) = f3 + g3
        BY <3>4, SMT
      <4>3. B * (B - 1 + n3) = b2 - B + h3
        BY <2>2, <3>3, <3>4, SMT
      <4> QED
        BY <4>1, <4>2, <4>3
    <3>6. PICK f2 \in Nat, g2 \in Nat, h2 \in Nat : f2 = B * (t2 + f3) /\ g2 = B * (d2 + g3) /\ h2 = B * (n2 + h3)
      BY <3>4, SMT
    <3>7. f2 + g2 = b3 - B + h2
      <4>1. (t2 + f3) + (d2 + g3) = (b2 - 1) + (n2 + h3)
        <5>1. t2 + d2 = B - 1 + n2
          BY <2>5
        <5> QED
          BY <3>5, <5>1, SMT
      <4>2. B * ((t2 + f3) + (d2 + g3)) = f2 + g2
        BY <3>4, <3>6, SMT
      <4>3. B * ((b2 - 1) + (n2 + h3)) = b3 - B + h2
        BY <2>2, <3>3, <3>4, <3>6, SMT
      <4> QED
        BY <4>1, <4>2, <4>3
    <3>8. PICK f1 \in Nat, g1 \in Nat, h1 \in Nat : f1 = B * (t1 + f2) /\ g1 = B * (d1 + g2) /\ h1 = B * (n1 + h2)
      BY <3>6, SMT
    <3>9. f1 + g1 = b4 - B + h1
      <4>1. (t1 + f2) + (d1 + g2) = (b3 - 1) + (n1 + h2)
        <5>1. t1 + d1 = B - 1 + n1
          BY <2>5
        <5> QED
          BY <3>7, <5>1, SMT
      <4>2. B * ((t1 + f2) + (d1 + g2)) = f1 + g1
        BY <3>6, <3>8, SMT
      <4>3. B * ((b3 - 1) + (n1 + h2)) = b4 - B + h1
        BY <2>2, <3>3, <3>6, <3>8, SMT
      <4> QED
        BY <4>1, <4>2, <4>3
    <3>10. Num(t) = t0 + f1 /\ x = d0 + g1 /\ Order = n0 + h1 /\ Top = b4
      BY <3>1, <3>2, <3>3, <3>4, <3>6, <3>8
    <3> QED
      BY <2>5, <3>3, <3>8, <3>9, <3>10, SMT
  <2>7. PICK d, c : d = Wrapped(t).d /\ c = Wrapped(t).c
    OBVIOUS
  <2>8. WordsOf(d) /\ c \in Nat /\ Num(t) = Num(d) + Top * c
    BY <2>5, <2>7, WrappedExact
  <2>9. PICK y \in Nat : y = Num(d) /\ y < Top
    BY <2>8, NumType, NumBelowTop
  <2>10. y = Order - x
    <3>1. PICK m \in Nat : m = Top * c
      BY <1>2, <2>8, SMT
    <3>2. y + m + x = Top + Order
      BY <2>6, <2>8, <2>9, <3>1
    <3>3. c = 1
      <4>1. CASE c = 0
        <5>1. m = 0
          BY <1>2, <3>1, <4>1, SMT
        <5> QED
          BY <1>2, <1>3, <2>9, <3>2, <5>1, SMT
      <4>2. CASE c >= 2
        <5>1. m >= Top + Top
          <6>1. Top * c >= Top * 2
            BY <1>2, <2>8, <4>2, SMT
          <6> QED
            BY <1>2, <3>1, <6>1, SMT
        <5> QED
          BY <1>2, <1>3, <2>9, <3>2, <5>1, SMT
      <4> QED
        BY <2>8, <4>1, <4>2, SMT
    <3>4. m = Top
      BY <1>2, <3>1, <3>3, SMT
    <3> QED
      BY <1>2, <1>3, <2>9, <3>2, <3>4, SMT
  <2>11. scalar_negate(a) = [a EXCEPT !.d = d]
    <3>1. NegatedWords(a.d) = d
      BY <2>1, <2>7 DEF NegatedWords
    <3>2. ~scalar_is_zero(a)
      BY <1>4, <1>6, SMT
    <3> QED
      BY <3>1, <3>2 DEF scalar_negate
  <2>12. Num(d) < Order /\ Num(d) = Order - x
    BY <1>2, <1>3, <1>6, <2>9, <2>10, SMT
  <2>13. IsScalar([a EXCEPT !.d = d]) /\ [a EXCEPT !.d = d].d = d
    BY <1>1, <2>8, <2>12 DEF IsScalar, WordsOf
  <2>14. Num(a.d) # 0
    BY <1>3, <1>6, SMT
  <2> QED
    BY <1>3, <2>11, <2>12, <2>13, <2>14
<1> QED
  BY <1>3, <1>5, <1>6, SMT

(* N_H is half of the order.                                                *)
LEMMA HalfOf ==
  ASSUME Sizes
  PROVE  WordsOf(N_H) /\ N_H[2] = 2^W - 1 /\ 2 * Num(N_H) + 1 = Order
<1>1. PICK B \in Nat : B = 2^W /\ B >= 8 /\ N_[2] = B - 2 /\ N_[3] = B - 1
  BY SizesOf
<1>2. PICK h \in Nat : h = 2^(W - 1) /\ B = 2 * h
  BY <1>1 DEF Sizes
<1>3. PICK n0 \in 0 .. B - 1, n1 \in 0 .. B - 1, n2 \in 0 .. B - 1, n3 \in 0 .. B - 1 :
          n0 = N_[0] /\ n1 = N_[1] /\ n2 = N_[2] /\ n3 = N_[3]
  BY <1>1, OrderOf, WordsAre
<1>4. /\ n0 % 2 = 1 /\ N_H[3] = n3 \div 2
      /\ N_H[0] = n0 \div 2 + h * (n1 % 2) /\ N_H[1] = n1 \div 2 + h * (n2 % 2)
      /\ N_H[2] = n2 \div 2 + h * (n3 % 2)
  <2>1. /\ N_[0] % 2 = 1 /\ N_H[3] = N_[3] \div 2
        /\ \A i \in 0 .. 2 : N_H[i] = N_[i] \div 2 + h * (N_[i + 1] % 2)
    BY <1>2 DEF Sizes, N
  <2>2. /\ N_H[0] = N_[0] \div 2 + h * (N_[0 + 1] % 2) /\ N_H[1] = N_[1] \div 2 + h * (N_[1 + 1] % 2)
        /\ N_H[2] = N_[2] \div 2 + h * (N_[2 + 1] % 2) /\ 0 + 1 = 1 /\ 1 + 1 = 2 /\ 2 + 1 = 3
    BY <2>1
  <2> QED
    BY <1>3, <2>1, <2>2
<1>4a. ASSUME NEW n \in 0 .. B - 1
      PROVE  n \div 2 \in Nat /\ n % 2 \in {0, 1} /\ n = 2 * (n \div 2) + (n % 2)
  <2>1. n \in Nat
    BY SMT
  <2>2. n \div 2 \in Nat /\ n % 2 \in 0 .. 1 /\ n = 2 * (n \div 2) + (n % 2)
    BY <2>1, SMT
  <2>3. 0 .. 1 = {0, 1}
    BY SMT
  <2> QED
    BY <2>2, <2>3
<1>5a. PICK q0 \in Nat : q0 = n0 \div 2 /\ n0 = 2 * q0 + 1
  BY <1>4, <1>4a
<1>5b. PICK q1 \in Nat, r1 \in {0, 1} : q1 = n1 \div 2 /\ r1 = n1 % 2 /\ n1 = 2 * q1 + r1
  BY <1>4a
<1>5c. PICK q2 \in Nat, r2 \in {0, 1} : q2 = n2 \div 2 /\ r2 = n2 % 2 /\ n2 = 2 * q2 + r2
  BY <1>4a
<1>5d. PICK q3 \in Nat, r3 \in {0, 1} : q3 = n3 \div 2 /\ r3 = n3 % 2 /\ n3 = 2 * q3 + r3
  BY <1>4a
<1>5. /\ q0 = n0 \div 2 /\ q1 = n1 \div 2 /\ q2 = n2 \div 2 /\ q3 = n3 \div 2
      /\ r1 = n1 % 2 /\ r2 = n2 % 2 /\ r3 = n3 % 2
      /\ n0 = 2 * q0 + 1 /\ n1 = 2 * q1 + r1 /\ n2 = 2 * q2 + r2 /\ n3 = 2 * q3 + r3
  BY <1>5a, <1>5b, <1>5c, <1>5d
<1>6. PICK g1 \in Nat, g2 \in Nat, g3 \in Nat :
          /\ g1 = h * r1 /\ g2 = h * r2 /\ g3 = h * r3 /\ g1 <= h /\ g2 <= h /\ g3 <= h
          /\ 2 * g1 = B * r1 /\ 2 * g2 = B * r2 /\ 2 * g3 = B * r3
  <2>1. ASSUME NEW r \in {0, 1} PROVE h * r \in Nat /\ h * r <= h /\ 2 * (h * r) = B * r
    <3>1. CASE r = 0
      BY <1>2, <3>1, SMT
    <3>2. CASE r = 1
      BY <1>2, <3>2, SMT
    <3> QED
      BY <3>1, <3>2
  <2>2. h * r1 \in Nat /\ h * r1 <= h /\ 2 * (h * r1) = B * r1
    BY <2>1
  <2>3. h * r2 \in Nat /\ h * r2 <= h /\ 2 * (h * r2) = B * r2
    BY <2>1
  <2>4. h * r3 \in Nat /\ h * r3 <= h /\ 2 * (h * r3) = B * r3
    BY <2>1
  <2> QED
    BY <2>2, <2>3, <2>4
<1>7. PICK k0 \in 0 .. B - 1, k1 \in 0 .. B - 1, k2 \in 0 .. B - 1, k3 \in 0 .. B - 1 :
          /\ k0 = N_H[0] /\ k1 = N_H[1] /\ k2 = N_H[2] /\ k3 = N_H[3]
          /\ k0 = q0 + g1 /\ k1 = q1 + g2 /\ k2 = q2 + g3 /\ k3 = q3
  <2>1. N_H[0] = q0 + g1 /\ N_H[1] = q1 + g2 /\ N_H[2] = q2 + g3 /\ N_H[3] = q3
    BY <1>4, <1>5, <1>6
  <2>2. q0 + g1 \in 0 .. B - 1 /\ q1 + g2 \in 0 .. B - 1 /\ q2 + g3 \in 0 .. B - 1 /\ q3 \in 0 .. B - 1
    <3>1. q0 < h /\ q1 < h /\ q2 < h /\ q3 < h
      <4>1. 2 * q0 < 2 * h /\ 2 * q1 < 2 * h /\ 2 * q2 < 2 * h /\ 2 * q3 < 2 * h
        BY <1>2, <1>5, SMT
      <4> QED
        BY <4>1, SMT
    <3>2. g1 <= h /\ g2 <= h /\ g3 <= h
      BY <1>6
    <3> QED
      BY <1>2, <3>1, <3>2, SMT
  <2> QED
    BY <2>1, <2>2
<1>8. WordsOf(N_H)
  <2>1. PICK f : N_H = [i \in 0 .. 4 - 1 |-> f[i]]
    <3> DEFINE f == [i \in 0 .. 4 - 1 |->
           SumRange([b \in 0 .. W - 1 |-> BitOf(N_, 4, W, 1 + W * i + b) * 2^b], 0, W - 1)]
    <3>1. N_H = f
      BY DEF N_H, Regroup, N
    <3>2. f = [i \in 0 .. 4 - 1 |-> f[i]]
      OBVIOUS
    <3> QED
      BY <3>1, <3>2
  <2>2. N_H = [i \in 0 .. 3 |-> N_H[i]]
    BY <2>1, SMT
  <2>3. \A i \in 0 .. 3 : N_H[i] \in 0 .. B - 1
    <3>1. \A i \in 0 .. 3 : i = 0 \/ i = 1 \/ i = 2 \/ i = 3
      BY SMT
    <3>2. N_H[0] \in 0 .. B - 1 /\ N_H[1] \in 0 .. B - 1 /\ N_H[2] \in 0 .. B - 1 /\ N_H[3] \in 0 .. B - 1
      BY <1>7
    <3> QED
      BY <3>1, <3>2
  <2> QED
    BY <1>1, <2>2, <2>3 DEF WordsOf, Idx, N, Word
<1>9. k2 = B - 1
  <2>1. r3 = 1
    BY <1>1, <1>2, <1>3, <1>5, SMT
  <2>2. g3 = h
    BY <1>6, <2>1, SMT
  <2>3. 2 * q2 + r2 = 2 * h - 2
    BY <1>1, <1>2, <1>3, <1>5
  <2>4. q2 = h - 1
    BY <2>3, SMT
  <2> QED
    BY <1>2, <1>7, <2>2, <2>4, SMT
<1>10. 2 * Num(N_H) + 1 = Order
  <2>1. Num(N_H) = k0 + B * (k1 + B * (k2 + B * k3))
    BY <1>1, <1>7 DEF Num, Four
  <2>2. Order = n0 + B * (n1 + B * (n2 + B * n3))
    BY <1>1, <1>3 DEF Order, Num, Four
  <2>3. PICK x3 \in Nat : x3 = B * k3
    BY SMT
  <2>4. PICK x2 \in Nat : x2 = B * (k2 + x3)
    BY <2>3, SMT
  <2>5. PICK x1 \in Nat : x1 = B * (k1 + x2)
    BY <2>4, SMT
  <2>6. B * n3 = 2 * x3 + 2 * g3
    <3>1. B * (2 * q3 + r3) = 2 * (B * q3) + B * r3
      BY SMT
    <3> QED
      BY <1>5, <1>6, <1>7, <2>3, <3>1
  <2>7. n2 + B * n3 = 2 * (k2 + x3) + r2
    <3>1. n2 = 2 * q2 + r2 /\ k2 = q2 + g3
      BY <1>5, <1>7
    <3> QED
      BY <2>6, <3>1, SMT
  <2>8. B * (n2 + B * n3) = 2 * x2 + 2 * g2
    <3>1. B * (2 * (k2 + x3) + r2) = 2 * (B * (k2 + x3)) + B * r2
      BY <2>3, SMT
    <3> QED
      BY <1>6, <2>4, <2>7, <3>1
  <2>9. n1 + B * (n2 + B * n3) = 2 * (k1 + x2) + r1
    <3>1. n1 = 2 * q1 + r1 /\ k1 = q1 + g2
      BY <1>5, <1>7
    <3> QED
      BY <2>8, <3>1, SMT
  <2>10. B * (n1 + B * (n2 + B * n3)) = 2 * x1 + 2 * g1
    <3>1. B * (2 * (k1 + x2) + r1) = 2 * (B * (k1 + x2)) + B * r1
      BY <2>4, SMT
    <3> QED
      BY <1>6, <2>5, <2>9, <3>1
  <2>11. n0 + (2 * x1 + 2 * g1) = 2 * (k0 + x1) + 1
    <3>1. n0 = 2 * q0 + 1 /\ k0 = q0 + g1
      BY <1>5, <1>7
    <3> QED
      BY <3>1, SMT
  <2> QED
    BY <2>1, <2>2, <2>3, <2>4, <2>5, <2>10, <2>11
<1> QED
  BY <1>1, <1>7, <1>8, <1>9, <1>10

(* scalar_is_high compares with half of the order, and may leave out the    *)
(* question whether the third word is above N_H's, which has all bits set:  *)
(* secp256k1_scalar_is_high.                                                *)
THEOREM IsHighExact ==
  ASSUME Sizes, NEW a, IsScalar(a)
  PROVE  scalar_is_high(a) <=> 2 * Num(a.d) > Order
<1>1. PICK B \in Nat : B = 2^W
  BY SizesOf
<1>2. WordsOf(a.d) /\ WordsOf(N_H) /\ N_H[2] = B - 1 /\ 2 * Num(N_H) + 1 = Order
  BY <1>1, HalfOf DEF IsScalar, WordsOf
<1>3. PICK d0 \in 0 .. B - 1, d1 \in 0 .. B - 1, d2 \in 0 .. B - 1, d3 \in 0 .. B - 1 :
          d0 = a.d[0] /\ d1 = a.d[1] /\ d2 = a.d[2] /\ d3 = a.d[3]
  BY <1>1, <1>2, WordsAre
<1>4. PICK h0 \in 0 .. B - 1, h1 \in 0 .. B - 1, h2 \in 0 .. B - 1, h3 \in 0 .. B - 1 :
          h0 = N_H[0] /\ h1 = N_H[1] /\ h2 = N_H[2] /\ h3 = N_H[3]
  BY <1>1, <1>2, WordsAre
<1>5. Num(N_H) < Num(a.d)
        <=> h3 < d3 \/ (h3 = d3 /\ (h2 < d2 \/ (h2 = d2 /\ (h1 < d1 \/ (h1 = d1 /\ h0 < d0)))))
  BY <1>2, <1>3, <1>4, NumOrder
<1>6. scalar_is_high(a)
        <=> LET no3 == d3 < h3
                yes3 == d3 > h3 /\ ~no3
                no1 == no3 \/ (~yes3 /\ (d2 < h2 \/ d1 < h1))
            IN  yes3 \/ (d1 > h1 /\ ~no1) \/ (d0 > h0 /\ ~no1)
  BY <1>3, <1>4 DEF scalar_is_high
<1>7. scalar_is_high(a) <=> Num(N_H) < Num(a.d)
  <2>1. h2 = B - 1
    BY <1>2, <1>4
  <2> QED
    BY <1>5, <1>6, <2>1, SMT
<1>8. PICK x \in Nat, y \in Nat : x = Num(a.d) /\ y = Num(N_H)
  BY <1>2, NumType
<1> QED
  BY <1>2, <1>7, <1>8, SMT

(* scalar_cond_negate: the scalar or its negative, with the sign for it:    *)
(* secp256k1_scalar_cond_negate.                                            *)
THEOREM CondNegateExact ==
  ASSUME Sizes, NEW a, IsScalar(a), NEW flag \in BOOLEAN
  PROVE  LET c == scalar_cond_negate(a, flag)
         IN  /\ IsScalar(c.r) /\ c.ret = IF flag THEN -1 ELSE 1
             /\ Num(c.r.d) = IF flag /\ Num(a.d) # 0 THEN Order - Num(a.d) ELSE Num(a.d)
<1>1. PICK r : r = scalar_negate(a)
  OBVIOUS
<1>2. IsScalar(r) /\ Num(r.d) = IF Num(a.d) = 0 THEN 0 ELSE Order - Num(a.d)
  BY <1>1, NegateExact
<1>3. scalar_cond_negate(a, flag) = [r |-> IF flag THEN r ELSE a, ret |-> IF flag THEN -1 ELSE 1]
  BY <1>1 DEF scalar_cond_negate
<1> QED
  BY <1>2, <1>3

(* The number with one bit, or none.                                        *)
BitNumber(bit, flag) == [i \in Idx |-> IF flag /\ bit \div W = i THEN 2^(bit % W) ELSE 0]

(* scalar_cadd_bit adds a bit if the flag says so, and its VERIFY_CHECKs    *)
(* hold exactly if the sum is below the order: secp256k1_scalar_cadd_bit.   *)
THEOREM CaddBitExact ==
  ASSUME Sizes, NEW r, IsScalar(r), NEW bit \in Nat, NEW flag \in BOOLEAN, 2^(bit % W) \in Word(W)
  PROVE  LET c == scalar_cadd_bit(r, bit, flag)
             v == Num(r.d) + Num(BitNumber(bit, flag))
         IN  (c.ok <=> v < Order) /\ (c.ok => IsScalar(c) /\ Num(c.d) = v)
<1>1. WordsOf(r.d) /\ r.ok
  BY DEF IsScalar, WordsOf
<1>2. PICK e : e = BitNumber(bit, flag)
  OBVIOUS
<1>3. WordsOf(e)
  <2>1. 0 \in Word(W)
    BY SizesOf, SMT DEF Word
  <2> QED
    BY <1>2, <2>1 DEF BitNumber, WordsOf
<1>4. PICK x \in Nat, y \in Nat : x = Num(r.d) /\ y = Num(e)
  BY <1>1, <1>3, NumType
<1>5. PICK t : t = [i \in Idx |-> r.d[i] + e[i]]
  OBVIOUS
<1>6. t[0] \in Nat /\ t[1] \in Nat /\ t[2] \in Nat /\ t[3] \in Nat /\ Num(t) = x + y
  BY <1>1, <1>3, <1>4, <1>5, NumSum
<1>7. PICK s : s = Wrapped(t)
  OBVIOUS
<1>8. WordsOf(s.d) /\ s.c \in Nat /\ x + y = Num(s.d) + Top * s.c
  BY <1>6, <1>7, WrappedExact
<1>9. PICK d, c, over : d = s.d /\ c = s.c /\ over = scalar_check_overflow(d)
  OBVIOUS
<1>10. over <=> Num(d) >= Order
  BY <1>8, <1>9, OverflowExact
<1>11. scalar_cadd_bit(r, bit, flag) = [d |-> d, ok |-> r.ok /\ c = 0 /\ ~over]
  <2>1. t = [i \in Idx |-> r.d[i] + (IF flag /\ bit \div W = i THEN 2^(bit % W) ELSE 0)]
    BY <1>2, <1>5 DEF BitNumber
  <2> QED
    BY <1>7, <1>9, <2>1 DEF scalar_cadd_bit, BelowOrder
<1>12. PICK z \in Nat : z = Num(d)
  BY <1>8, <1>9, NumType
<1>13. /\ c = 0 /\ z < Order <=> x + y < Order
       /\ c = 0 => z = x + y
  <2>1. Order \in Nat /\ Top \in Nat /\ Order <= Top /\ c \in Nat /\ x + y = z + Top * c
    BY <1>8, <1>9, <1>12, OrderOf, SMT
  <2>2. CASE c = 0
    <3>1. Top * 0 = 0
      BY <2>1, SMT
    <3> QED
      BY <2>1, <2>2, <3>1, SMT
  <2>3. CASE c > 0
    <3>1. Top * c >= Top
      BY <2>1, <2>3, SMT
    <3>2. PICK m \in Nat : m = Top * c
      BY <2>1, SMT
    <3> QED
      BY <2>1, <2>3, <3>1, <3>2, SMT
  <2> QED
    BY <2>1, <2>2, <2>3, SMT
<1>14. PICK ok : ok = (r.ok /\ c = 0 /\ ~over)
  OBVIOUS
<1>15. ok \in BOOLEAN /\ (ok <=> x + y < Order)
  <2>1. Order \in Nat /\ (Num(d) >= Order <=> ~(z < Order))
    BY <1>12, OrderOf, SMT
  <2> QED
    BY <1>1, <1>10, <1>13, <1>14, <2>1
<1>16. scalar_cadd_bit(r, bit, flag) = [d |-> d, ok |-> ok]
  BY <1>11, <1>14
<1>17. ok => c = 0
  BY <1>14
<1>18. WordsOf(d)
  BY <1>8, <1>9
<1>19. ASSUME ok PROVE IsScalar([d |-> d, ok |-> ok]) /\ Num(d) = x + y
  BY <1>12, <1>13, <1>15, <1>17, <1>18, <1>19 DEF IsScalar, WordsOf
<1> QED
  BY <1>2, <1>4, <1>15, <1>16, <1>19

(* scalar_split_128: the lower and the upper half of the words:             *)
(* secp256k1_scalar_split_128.                                              *)
THEOREM SplitExact ==
  ASSUME Sizes, NEW a, IsScalar(a)
  PROVE  LET s == scalar_split_128(a)
         IN  /\ IsScalar(s.r1) /\ IsScalar(s.r2)
             /\ Num(a.d) = Num(s.r1.d) + 2^W * 2^W * Num(s.r2.d)
             /\ Num(s.r1.d) < 2^W * 2^W /\ Num(s.r2.d) < 2^W * 2^W
<1>1. PICK B \in Nat : B = 2^W /\ B >= 8 /\ N_[2] = B - 2 /\ N_[3] = B - 1
  BY SizesOf
<1>2. WordsOf(a.d) /\ a.ok /\ a \in [d : [Idx -> Word(W)], ok : BOOLEAN]
  BY DEF IsScalar, WordsOf
<1>3. PICK d0 \in 0 .. B - 1, d1 \in 0 .. B - 1, d2 \in 0 .. B - 1, d3 \in 0 .. B - 1 :
          d0 = a.d[0] /\ d1 = a.d[1] /\ d2 = a.d[2] /\ d3 = a.d[3]
  BY <1>1, <1>2, WordsAre
<1>4. PICK x, y : /\ x = [i \in Idx |-> IF i < Half THEN a.d[i] ELSE 0]
                  /\ y = [i \in Idx |-> IF i < Half THEN a.d[i + Half] ELSE 0]
  OBVIOUS
<1>5. /\ x[0] = d0 /\ x[1] = d1 /\ x[2] = 0 /\ x[3] = 0
      /\ y[0] = d2 /\ y[1] = d3 /\ y[2] = 0 /\ y[3] = 0
  BY <1>3, <1>4, SMT DEF Idx, N, Half
<1>6. WordsOf(x) /\ WordsOf(y)
  <2>1. \A i \in 0 .. 3 : i = 0 \/ i = 1 \/ i = 2 \/ i = 3
    BY SMT
  <2>2. 0 \in 0 .. B - 1
    BY <1>1, SMT
  <2>3. \A i \in 0 .. 3 : x[i] \in 0 .. B - 1 /\ y[i] \in 0 .. B - 1
    BY <1>5, <2>1, <2>2
  <2>4. x = [i \in 0 .. 4 - 1 |-> x[i]] /\ y = [i \in 0 .. 4 - 1 |-> y[i]] /\ 4 - 1 = 3
    BY <1>4 DEF Idx, N
  <2> QED
    BY <1>1, <2>3, <2>4 DEF WordsOf, Idx, N, Word
<1>7. PICK b2 \in Nat : b2 = B * B
  BY SMT
<1>8. Num(x) = d0 + B * d1 /\ Num(y) = d2 + B * d3
  <2>1. Num(x) = d0 + B * (d1 + B * (0 + B * 0)) /\ Num(y) = d2 + B * (d3 + B * (0 + B * 0))
    BY <1>1, <1>5 DEF Num, Four
  <2>2. B * (0 + B * 0) = 0 /\ d1 + 0 = d1 /\ d3 + 0 = d3
    BY SMT
  <2> QED
    BY <2>1, <2>2
<1>9. PICK u \in Nat, v \in Nat : /\ u = d0 + B * d1 /\ v = d2 + B * d3 /\ u < b2 /\ v < b2
  <2>1. d0 + B * d1 < 0 + B * B /\ d2 + B * d3 < 0 + B * B
    BY DigitLess
  <2>2. d0 + B * d1 \in Nat /\ d2 + B * d3 \in Nat
    BY SMT
  <2> QED
    BY <1>7, <2>1, <2>2, SMT
<1>10. Num(a.d) = u + b2 * v
  <2>1. Num(a.d) = d0 + B * (d1 + B * v)
    BY <1>1, <1>3, <1>9 DEF Num, Four
  <2>2. B * (d1 + B * v) = B * d1 + b2 * v
    <3>1. B * (d1 + B * v) = B * d1 + B * (B * v) /\ B * (B * v) = (B * B) * v
      BY SMT
    <3> QED
      BY <1>7, <3>1
  <2>3. PICK p \in Nat, q \in Nat : p = B * d1 /\ q = b2 * v
    BY <1>7, SMT
  <2> QED
    BY <1>9, <2>1, <2>2, <2>3, SMT
<1>11. b2 < Order
  <2>1. PICK n0 \in 0 .. B - 1, n1 \in 0 .. B - 1, n2 \in 0 .. B - 1, n3 \in 0 .. B - 1 :
            n0 = N_[0] /\ n1 = N_[1] /\ n2 = N_[2] /\ n3 = N_[3]
    BY <1>1, OrderOf, WordsAre
  <2>2. Order = n0 + B * (n1 + B * (n2 + B * n3))
    BY <1>1, <2>1 DEF Order, Num, Four
  <2>3. PICK y2 \in Nat : y2 = n2 + B * n3 /\ y2 > 1
    <3>1. B * n3 >= n3 /\ B * n3 \in Nat
      BY <1>1, SMT
    <3> QED
      BY <1>1, <2>1, <3>1, SMT
  <2>4. PICK y1 \in Nat : y1 = n1 + B * y2 /\ y1 >= B + B
    <3>1. B * y2 >= B * 2 /\ B * y2 \in Nat
      BY <2>3, SMT
    <3> QED
      BY <3>1, SMT
  <2>5. B * y1 >= B * (B + B) /\ B * (B + B) = b2 + b2 /\ B * y1 \in Nat /\ b2 > 0
    BY <1>1, <1>7, <2>4, SMT
  <2> QED
    BY <1>7, <2>2, <2>3, <2>4, <2>5, SMT
<1>12. u < Order /\ v < Order
  BY <1>7, <1>9, <1>11, OrderOf, SMT
<1>13. PICK f, g : f = [a EXCEPT !.d = x] /\ g = [a EXCEPT !.d = y]
  OBVIOUS
<1>14. IsScalar(f) /\ f.d = x
  BY <1>2, <1>6, <1>8, <1>9, <1>12, <1>13 DEF IsScalar, WordsOf
<1>15. IsScalar(g) /\ g.d = y
  BY <1>2, <1>6, <1>8, <1>9, <1>12, <1>13 DEF IsScalar, WordsOf
<1>16. PICK s : s = scalar_split_128(a)
  OBVIOUS
<1>a. s = [r1 |-> f, r2 |-> g]
  BY <1>4, <1>13, <1>16 DEF scalar_split_128
<1>17. IsScalar(s.r1) /\ IsScalar(s.r2) /\ s.r1.d = x /\ s.r2.d = y
  BY <1>14, <1>15, <1>a
<1>18. Num(s.r1.d) = u /\ Num(s.r2.d) = v
  BY <1>8, <1>9, <1>17
<1>19. 2^W * 2^W = b2
  BY <1>1, <1>7
<1> QED
  BY <1>9, <1>10, <1>16, <1>17, <1>18, <1>19

-----------------------------------------------------------------------------
(* A column of macros adds the sum of what they add.                        *)

(* An accumulator without a failed check that holds v, and the macro e      *)
(* which adds m to what such an accumulator holds.                          *)
Holds(s, v) == IsAcc(s, W) /\ s.ok /\ AccValue(s, W) = v
Adds(e, m, v) ==
    \/ \E a \in Word(W), b \in Word(W) :
          e = <<"muladd", a, b>> /\ m = a * b /\ v + m < AccBound(W)
    \/ \E a \in Word(W), b \in Word(W) :
          e = <<"muladd_fast", a, b>> /\ m = a * b /\ v + m < 2^W * 2^W
    \/ \E a \in Word(W), b \in Word(W) :
          e = <<"muladd2", a, b>> /\ m = 2 * (a * b) /\ v + m < AccBound(W)
    \/ \E a \in Word(W) : e = <<"sumadd", a>> /\ m = a /\ v + m < AccBound(W)
    \/ \E a \in Word(W) : e = <<"sumadd_fast", a>> /\ m = a /\ v + m < 2^W * 2^W
    \/ \E a \in Word(W) : e = <<"set", a>> /\ m = a /\ v = 0

(* An accumulator is as large as its parts.                                 *)
LEMMA AccWords ==
  ASSUME Sizes, NEW s, IsAcc(s, W), NEW B \in Nat, B = 2^W
  PROVE  \E c0 \in 0 .. B - 1, c1 \in 0 .. B - 1, c2 \in 0 .. B - 1 :
           /\ s.c0 = c0 /\ s.c1 = c1 /\ s.c2 = c2
           /\ AccValue(s, W) = c0 + B * (c1 + B * c2) /\ AccValue(s, W) \in Nat
           /\ AccValue(s, W) < B * B <=> c2 = 0
           /\ AccValue(s, W) = 0 <=> c0 = 0 /\ c1 = 0 /\ c2 = 0
<1>1. PICK c0 \in 0 .. B - 1, c1 \in 0 .. B - 1, c2 \in 0 .. B - 1 : s.c0 = c0 /\ s.c1 = c1 /\ s.c2 = c2
  BY DEF IsAcc, Word
<1>2. AccValue(s, W) = c0 + B * (c1 + B * c2)
  BY <1>1 DEF AccValue
<1>3. PICK y \in Nat : y = c1 + B * c2
  BY SMT
<1>4. PICK v \in Nat : v = c0 + B * y
  BY <1>3, SMT
<1>5. PICK b2 \in Nat : b2 = B * B
  BY SMT
<1>6. B > 0
  BY SizesOf, SMT
<1>7. CASE c2 = 0
  <2>1. y = c1
    BY <1>3, <1>7, SMT
  <2>2. v < b2
    <3>1. c0 + B * y < 0 + B * B
      BY <2>1, DigitLess, SMT
    <3> QED
      BY <1>4, <1>5, <3>1, SMT
  <2>3. v = 0 <=> c0 = 0 /\ c1 = 0
    <3>1. CASE y = 0
      BY <1>4, <2>1, <3>1, SMT
    <3>2. CASE y > 0
      <4>1. B * y >= B /\ B * y \in Nat
        BY <3>2, SMT
      <4> QED
        BY <1>4, <1>6, <2>1, <3>2, <4>1, SMT
    <3> QED
      BY <3>1, <3>2, SMT
  <2> QED
    BY <1>1, <1>2, <1>3, <1>4, <1>5, <1>7, <2>2, <2>3
<1>8. CASE c2 > 0
  <2>1. y >= B
    <3>1. B * c2 >= B /\ B * c2 \in Nat
      BY <1>8, SMT
    <3> QED
      BY <1>3, <3>1, SMT
  <2>2. v >= b2
    <3>1. B * y >= B * B /\ B * y \in Nat
      BY <2>1, SMT
    <3> QED
      BY <1>4, <1>5, <3>1, SMT
  <2>3. b2 > 0
    BY <1>5, <1>6, SMT
  <2>4. ~(v < b2) /\ v # 0 /\ c2 # 0
    BY <1>8, <2>2, <2>3, SMT
  <2> QED
    BY <1>1, <1>2, <1>3, <1>4, <1>5, <2>4
<1> QED
  BY <1>7, <1>8, SMT

(* A macro that adds m does.                                                *)
LEMMA AddsExact ==
  ASSUME Sizes, NEW s, NEW v, Holds(s, v), NEW e, NEW m, Adds(e, m, v)
  PROVE  Holds(Performed(s, e, W), v + m)
<1>1. Wide(W) /\ IsAcc(s, W) /\ s.ok /\ AccValue(s, W) = v
  BY SizesOf DEF Holds
<1>2. PICK B \in Nat : B = 2^W
  BY SizesOf
<1>3. PICK c0 \in 0 .. B - 1, c1 \in 0 .. B - 1, c2 \in 0 .. B - 1 :
        /\ s.c0 = c0 /\ s.c1 = c1 /\ s.c2 = c2 /\ v \in Nat
        /\ v < B * B <=> c2 = 0
        /\ v = 0 <=> c0 = 0 /\ c1 = 0 /\ c2 = 0
  BY <1>1, <1>2, AccWords
<1>4. ASSUME NEW m1 \in Nat, v + m1 < 2^W * 2^W PROVE s.c2 = 0
  <2>1. PICK b2 \in Nat : b2 = B * B
    BY SMT
  <2>2. v < b2
    BY <1>2, <1>3, <1>4, <2>1, SMT
  <2> QED
    BY <1>3, <2>1, <2>2
<1>5. CASE \E a \in Word(W), b \in Word(W) :
             e = <<"muladd", a, b>> /\ m = a * b /\ v + m < AccBound(W)
  <2>1. PICK a \in Word(W), b \in Word(W) :
             e = <<"muladd", a, b>> /\ m = a * b /\ v + m < AccBound(W)
    BY <1>5
  <2>2. PICK t : t = muladd(s, a, b, W)
    OBVIOUS
  <2>3. Performed(s, e, W) = t
    BY <1>1, <2>1, <2>2 DEF Performed
  <2>4. /\ IsAcc(t, W)
        /\ t.ok <=> s.ok /\ AccValue(s, W) + a * b < AccBound(W)
        /\ t.ok => AccValue(t, W) = AccValue(s, W) + a * b
    BY <1>1, <2>2, MulAddExact
  <2> QED
    BY <1>1, <2>1, <2>3, <2>4 DEF Holds
<1>6. CASE \E a \in Word(W), b \in Word(W) :
             e = <<"muladd_fast", a, b>> /\ m = a * b /\ v + m < 2^W * 2^W
  <2>1. PICK a \in Word(W), b \in Word(W) :
             e = <<"muladd_fast", a, b>> /\ m = a * b /\ v + m < 2^W * 2^W
    BY <1>6
  <2>2. PICK t : t = muladd_fast(s, a, b, W)
    OBVIOUS
  <2>3. Performed(s, e, W) = t
    BY <1>1, <2>1, <2>2 DEF Performed
  <2>4. s.c2 = 0
    <3>1. a * b \in Nat
      BY <1>2, SMT DEF Word
    <3> QED
      BY <1>4, <2>1, <3>1
  <2>5. /\ IsAcc(t, W)
        /\ t.ok <=> s.ok /\ AccValue(s, W) + a * b < 2^W * 2^W
        /\ t.ok => AccValue(t, W) = AccValue(s, W) + a * b
    BY <1>1, <2>2, <2>4, MulAddFastExact
  <2> QED
    BY <1>1, <2>1, <2>3, <2>5 DEF Holds
<1>7. CASE \E a \in Word(W), b \in Word(W) :
             e = <<"muladd2", a, b>> /\ m = 2 * (a * b) /\ v + m < AccBound(W)
  <2>1. PICK a \in Word(W), b \in Word(W) :
             e = <<"muladd2", a, b>> /\ m = 2 * (a * b) /\ v + m < AccBound(W)
    BY <1>7
  <2>2. PICK t : t = muladd2(s, a, b, W)
    OBVIOUS
  <2>3. Performed(s, e, W) = t
    BY <1>1, <2>1, <2>2 DEF Performed
  <2>4. /\ IsAcc(t, W)
        /\ t.ok <=> s.ok /\ AccValue(s, W) + 2 * (a * b) < AccBound(W)
        /\ t.ok => AccValue(t, W) = AccValue(s, W) + 2 * (a * b)
    BY <1>1, <2>2, MulAdd2Exact
  <2> QED
    BY <1>1, <2>1, <2>3, <2>4 DEF Holds
<1>8. CASE \E a \in Word(W) : e = <<"sumadd", a>> /\ m = a /\ v + m < AccBound(W)
  <2>1. PICK a \in Word(W) : e = <<"sumadd", a>> /\ m = a /\ v + m < AccBound(W)
    BY <1>8
  <2>2. PICK t : t = sumadd(s, a, W)
    OBVIOUS
  <2>3. Performed(s, e, W) = t
    BY <1>1, <2>1, <2>2 DEF Performed
  <2>4. IsAcc(t, W) /\ t.ok = s.ok /\ AccValue(t, W) = AccValue(s, W) + a
    BY <1>1, <2>1, <2>2, SumAddExact
  <2> QED
    BY <1>1, <2>1, <2>3, <2>4 DEF Holds
<1>9. CASE \E a \in Word(W) : e = <<"sumadd_fast", a>> /\ m = a /\ v + m < 2^W * 2^W
  <2>1. PICK a \in Word(W) : e = <<"sumadd_fast", a>> /\ m = a /\ v + m < 2^W * 2^W
    BY <1>9
  <2>2. PICK t : t = sumadd_fast(s, a, W)
    OBVIOUS
  <2>3. Performed(s, e, W) = t
    BY <1>1, <2>1, <2>2 DEF Performed
  <2>4. s.c2 = 0
    <3>1. a \in Nat
      BY <1>2, SMT DEF Word
    <3> QED
      BY <1>4, <2>1, <3>1
  <2>5. IsAcc(t, W) /\ t.ok /\ AccValue(t, W) = AccValue(s, W) + a
    BY <1>1, <2>1, <2>2, <2>4, SumAddFastExact
  <2> QED
    BY <1>1, <2>1, <2>3, <2>5 DEF Holds
<1>10. CASE \E a \in Word(W) : e = <<"set", a>> /\ m = a /\ v = 0
  <2>1. PICK a \in Word(W) : e = <<"set", a>> /\ m = a /\ v = 0
    BY <1>10
  <2>2. PICK t : t = [s EXCEPT !.c0 = a]
    OBVIOUS
  <2>3. Performed(s, e, W) = t
    BY <1>1, <2>1, <2>2 DEF Performed
  <2>4. IsAcc(t, W) /\ t.ok /\ t.c0 = a /\ t.c1 = 0 /\ t.c2 = 0
    BY <1>1, <1>3, <2>1, <2>2 DEF IsAcc
  <2>5. AccValue(t, W) = a + B * (0 + B * 0)
    BY <1>2, <2>4 DEF AccValue
  <2>6. a + B * (0 + B * 0) = 0 + a
    BY <1>2, SMT DEF Word
  <2> QED
    BY <2>1, <2>3, <2>4, <2>5, <2>6 DEF Holds
<1> QED
  BY <1>5, <1>6, <1>7, <1>8, <1>9, <1>10 DEF Adds

(* The accumulator after each macro of a column.                            *)
LEMMA AfterColumnIs ==
  ASSUME NEW w, NEW s, NEW col, Len(col) \in 1 .. 4, NEW s1, NEW s2, NEW s3, NEW s4,
         s1 = Performed(s, col[1], w), s2 = Performed(s1, col[2], w),
         s3 = Performed(s2, col[3], w), s4 = Performed(s3, col[4], w)
  PROVE  AfterColumn(s, col, w) = CASE Len(col) = 1 -> s1 [] Len(col) = 2 -> s2
                                    [] Len(col) = 3 -> s3 [] Len(col) = 4 -> s4
<1>1. PICK n \in 1 .. 4 : n = Len(col)
  OBVIOUS
<1> DEFINE g == CHOOSE g : g = [i \in 0 .. n |-> IF i = 0 THEN s ELSE Performed(g[i - 1], col[i], w)]
<1>2. AfterColumn(s, col, w) = g[n]
  BY <1>1 DEF AfterColumn
<1>3. \E z : z = [i \in 0 .. n |-> IF i = 0 THEN s ELSE Performed(z[i - 1], col[i], w)]
  <2> DEFINE z == [i \in 0 .. n |-> CASE i = 0 -> s [] i = 1 -> s1 [] i = 2 -> s2
                                       [] i = 3 -> s3 [] i = 4 -> s4]
  <2>1. /\ z[0] = s /\ z[1] = s1 /\ (n >= 2 => z[2] = s2)
        /\ (n >= 3 => z[3] = s3) /\ (n >= 4 => z[4] = s4)
    BY SMT
  <2>2. z = [i \in 0 .. n |-> z[i]]
    OBVIOUS
  <2> HIDE DEF z
  <2>3. ASSUME NEW i \in 0 .. n
        PROVE  z[i] = IF i = 0 THEN s ELSE Performed(z[i - 1], col[i], w)
    <3>1. i = 0 \/ i = 1 \/ (i = 2 /\ n >= 2) \/ (i = 3 /\ n >= 3) \/ (i = 4 /\ n >= 4)
      BY SMT
    <3>2. n >= 3 => n >= 2
      BY SMT
    <3>3. n >= 4 => n >= 3
      BY SMT
    <3>4. 1 - 1 = 0 /\ 2 - 1 = 1 /\ 3 - 1 = 2 /\ 4 - 1 = 3
      BY SMT
    <3>5. 0 # 1 /\ 0 # 2 /\ 0 # 3 /\ 0 # 4
      BY SMT
    <3> QED
      BY <2>1, <3>1, <3>2, <3>3, <3>4, <3>5
  <2> QED
    BY <2>2, <2>3
<1>4. g = [i \in 0 .. n |-> IF i = 0 THEN s ELSE Performed(g[i - 1], col[i], w)]
  BY <1>3
<1> HIDE DEF g
<1>5. g[0] = s /\ \A i \in 1 .. n : g[i] = Performed(g[i - 1], col[i], w)
  BY <1>4, SMT
<1>6. g[1] = s1
  BY <1>5, SMT
<1>7. n >= 2 => g[2] = s2
  BY <1>5, <1>6, SMT
<1>8. n >= 3 => g[3] = s3
  BY <1>5, <1>7, SMT
<1>9. n >= 4 => g[4] = s4
  BY <1>5, <1>8, SMT
<1> QED
  BY <1>1, <1>2, <1>6, <1>7, <1>8, <1>9, SMT

(* Columns of one to four macros.                                           *)
LEMMA ColumnOne ==
  ASSUME Sizes, NEW s, NEW v, Holds(s, v), NEW col, Len(col) = 1, NEW m1, Adds(col[1], m1, v)
  PROVE  Holds(AfterColumn(s, col, W), v + m1)
<1>1. PICK s1, s2, s3, s4 : /\ s1 = Performed(s, col[1], W) /\ s2 = Performed(s1, col[2], W)
                            /\ s3 = Performed(s2, col[3], W) /\ s4 = Performed(s3, col[4], W)
  OBVIOUS
<1>2. AfterColumn(s, col, W) = s1
  BY <1>1, AfterColumnIs, SMT
<1> QED
  BY <1>1, <1>2, AddsExact

LEMMA ColumnTwo ==
  ASSUME Sizes, NEW s, NEW v, Holds(s, v), NEW col, Len(col) = 2, NEW m1, NEW m2,
         Adds(col[1], m1, v), Adds(col[2], m2, v + m1)
  PROVE  Holds(AfterColumn(s, col, W), v + m1 + m2)
<1>1. PICK s1, s2, s3, s4 : /\ s1 = Performed(s, col[1], W) /\ s2 = Performed(s1, col[2], W)
                            /\ s3 = Performed(s2, col[3], W) /\ s4 = Performed(s3, col[4], W)
  OBVIOUS
<1>2. AfterColumn(s, col, W) = s2
  BY <1>1, AfterColumnIs, SMT
<1>3. Holds(s1, v + m1)
  BY <1>1, AddsExact
<1>4. Holds(s2, v + m1 + m2)
  BY <1>1, <1>3, AddsExact
<1> QED
  BY <1>2, <1>4

LEMMA ColumnThree ==
  ASSUME Sizes, NEW s, NEW v, Holds(s, v), NEW col, Len(col) = 3, NEW m1, NEW m2, NEW m3,
         Adds(col[1], m1, v), Adds(col[2], m2, v + m1), Adds(col[3], m3, v + m1 + m2)
  PROVE  Holds(AfterColumn(s, col, W), v + m1 + m2 + m3)
<1>1. PICK s1, s2, s3, s4 : /\ s1 = Performed(s, col[1], W) /\ s2 = Performed(s1, col[2], W)
                            /\ s3 = Performed(s2, col[3], W) /\ s4 = Performed(s3, col[4], W)
  OBVIOUS
<1>2. AfterColumn(s, col, W) = s3
  BY <1>1, AfterColumnIs, SMT
<1>3. Holds(s1, v + m1)
  BY <1>1, AddsExact
<1>4. Holds(s2, v + m1 + m2)
  BY <1>1, <1>3, AddsExact
<1>5. Holds(s3, v + m1 + m2 + m3)
  BY <1>1, <1>4, AddsExact
<1> QED
  BY <1>2, <1>5

LEMMA ColumnFour ==
  ASSUME Sizes, NEW s, NEW v, Holds(s, v), NEW col, Len(col) = 4,
         NEW m1, NEW m2, NEW m3, NEW m4, Adds(col[1], m1, v), Adds(col[2], m2, v + m1),
         Adds(col[3], m3, v + m1 + m2), Adds(col[4], m4, v + m1 + m2 + m3)
  PROVE  Holds(AfterColumn(s, col, W), v + m1 + m2 + m3 + m4)
<1>1. PICK s1, s2, s3, s4 : /\ s1 = Performed(s, col[1], W) /\ s2 = Performed(s1, col[2], W)
                            /\ s3 = Performed(s2, col[3], W) /\ s4 = Performed(s3, col[4], W)
  OBVIOUS
<1>2. AfterColumn(s, col, W) = s4
  BY <1>1, AfterColumnIs, SMT
<1>3. Holds(s1, v + m1)
  BY <1>1, AddsExact
<1>4. Holds(s2, v + m1 + m2)
  BY <1>1, <1>3, AddsExact
<1>5. Holds(s3, v + m1 + m2 + m3)
  BY <1>1, <1>4, AddsExact
<1>6. Holds(s4, v + m1 + m2 + m3 + m4)
  BY <1>1, <1>5, AddsExact
<1> QED
  BY <1>2, <1>6

(* What is taken out of an accumulator and what is left in it.              *)
LEMMA TakenExact ==
  ASSUME Sizes, NEW s, NEW v, Holds(s, v), NEW z, NEW k, NEW fast,
         fast => v < 2^W * 2^W, NEW t, t = Taken(z, k, s, fast)
  PROVE  /\ t = [acc |-> t.acc, d |-> [z.d EXCEPT ![k] = v % 2^W]]
         /\ Holds(t.acc, v \div 2^W) /\ (fast => t.acc.c1 = 0 /\ t.acc.c0 = v \div 2^W)
<1>1. PICK B \in Nat : B = 2^W /\ B >= 8
  BY SizesOf
<1>2. Wide(W) /\ IsAcc(s, W) /\ s.ok /\ AccValue(s, W) = v
  BY SizesOf DEF Holds
<1>3. PICK c0 \in 0 .. B - 1, c1 \in 0 .. B - 1, c2 \in 0 .. B - 1 :
         /\ s.c0 = c0 /\ s.c1 = c1 /\ s.c2 = c2 /\ v = c0 + B * (c1 + B * c2) /\ v \in Nat
         /\ v < B * B <=> c2 = 0
  <2>1. B \in Nat /\ B = 2^W /\ IsAcc(s, W)
    BY <1>1, <1>2
  <2>2. \E c0 \in 0 .. B - 1, c1 \in 0 .. B - 1, c2 \in 0 .. B - 1 :
           /\ s.c0 = c0 /\ s.c1 = c1 /\ s.c2 = c2
           /\ AccValue(s, W) = c0 + B * (c1 + B * c2) /\ AccValue(s, W) \in Nat
           /\ AccValue(s, W) < B * B <=> c2 = 0
           /\ AccValue(s, W) = 0 <=> c0 = 0 /\ c1 = 0 /\ c2 = 0
    BY ONLY Sizes, <2>1, AccWords
  <2> QED
    BY <1>2, <2>2
<1>4. PICK y \in Nat : y = c1 + B * c2
  BY SMT
<1>5. v % B = c0 /\ v \div B = y
  <2>1. v = c0 + B * y
    BY <1>3, <1>4
  <2>2. c0 \in 0 .. B - 1 /\ y \in Nat /\ B > 0
    BY <1>1, SMT
  <2>3. (c0 + B * y) % B = c0 /\ (c0 + B * y) \div B = y
    BY ONLY B \in Nat, c0 \in 0 .. B - 1, y \in Nat, <2>2, SMT
  <2> QED
    BY <2>1, <2>3
<1>6. PICK x : x = IF fast THEN extract_fast(s) ELSE extract(s)
  OBVIOUS
<1>7. Holds(x, y) /\ (fast => x.c1 = 0 /\ x.c0 = y)
  <2>1. CASE ~fast
    <3>1. IsAcc(x, W) /\ x.ok = s.ok /\ x.c0 = c1 /\ x.c1 = c2 /\ x.c2 = 0
      BY <1>2, <1>3, <1>6, <2>1, ExtractExact DEF extract, IsAcc
    <3>2. AccValue(x, W) = c1 + B * (c2 + B * 0)
      BY <1>1, <3>1 DEF AccValue
    <3>3. c2 + B * 0 = c2
      BY SMT
    <3> QED
      BY <1>2, <1>4, <2>1, <3>1, <3>2, <3>3 DEF Holds
  <2>2. CASE fast
    <3>1. c2 = 0
      BY <1>1, <1>3, <2>2
    <3>2. IsAcc(x, W) /\ x.ok
      BY <1>2, <1>3, <1>6, <2>2, <3>1, ExtractFastExact
    <3>3. x.c0 = c1 /\ x.c1 = 0 /\ x.c2 = 0
      BY <1>2, <1>3, <1>6, <2>2, <3>1 DEF extract_fast, IsAcc
    <3>4. AccValue(x, W) = c1 + B * (0 + B * 0)
      BY <1>1, <3>3 DEF AccValue
    <3>5. c1 + B * (0 + B * 0) = c1 /\ y = c1
      BY <1>4, <3>1, SMT
    <3> QED
      BY <3>2, <3>3, <3>4, <3>5 DEF Holds
  <2> QED
    BY <2>1, <2>2
<1>8. Taken(z, k, s, fast) = [acc |-> x, d |-> [z.d EXCEPT ![k] = v % B]]
  BY <1>3, <1>5, <1>6 DEF Taken
<1> QED
  BY <1>1, <1>5, <1>7, <1>8

(* What the columns leave, one after the other.                             *)
Chain(g, cols, n, fast, w) ==
    /\ g[-1] = [acc |-> AccZero, d |-> [i \in 0 .. n |-> 0]]
    /\ \A k \in 0 .. n - 1 : g[k] = NextColumn(g[k - 1], k, cols[k], k \in fast, w)
    /\ AfterColumns(cols, n, fast, w) = g[n - 1]
LEMMA AfterColumnsIs ==
  ASSUME NEW w, NEW cols, NEW fast, NEW n \in 4 .. 7
  PROVE  \E g : Chain(g, cols, n, fast, w)
<1> DEFINE zz == [acc |-> AccZero, d |-> [i \in 0 .. n |-> 0]]
           z0 == NextColumn(zz, 0, cols[0], 0 \in fast, w)
           z1 == NextColumn(z0, 1, cols[1], 1 \in fast, w)
           z2 == NextColumn(z1, 2, cols[2], 2 \in fast, w)
           z3 == NextColumn(z2, 3, cols[3], 3 \in fast, w)
           z4 == NextColumn(z3, 4, cols[4], 4 \in fast, w)
           z5 == NextColumn(z4, 5, cols[5], 5 \in fast, w)
           z6 == NextColumn(z5, 6, cols[6], 6 \in fast, w)
<1> DEFINE g == CHOOSE g : g = [k \in -1 .. n - 1 |->
                    IF k = -1 THEN [acc |-> AccZero, d |-> [i \in 0 .. n |-> 0]]
                    ELSE NextColumn(g[k - 1], k, cols[k], k \in fast, w)]
<1>2. AfterColumns(cols, n, fast, w) = g[n - 1]
  BY DEF AfterColumns
<1>2a. g = CHOOSE y : y = [k \in -1 .. n - 1 |-> IF k = -1 THEN zz
                              ELSE NextColumn(y[k - 1], k, cols[k], k \in fast, w)]
  OBVIOUS
<1> HIDE DEF g
<1>3. \E z : z = [k \in -1 .. n - 1 |-> IF k = -1 THEN zz
                                        ELSE NextColumn(z[k - 1], k, cols[k], k \in fast, w)]
  <2> DEFINE z == [k \in -1 .. n - 1 |-> CASE k = -1 -> zz [] k = 0 -> z0 [] k = 1 -> z1 [] k = 2 -> z2
                                         [] k = 3 -> z3 [] k = 4 -> z4 [] k = 5 -> z5 [] k = 6 -> z6]
  <2>1. /\ z[-1] = zz /\ z[0] = z0 /\ z[1] = z1 /\ z[2] = z2 /\ z[3] = z3
        /\ (n >= 5 => z[4] = z4) /\ (n >= 6 => z[5] = z5) /\ (n >= 7 => z[6] = z6)
    BY SMT
  <2>2. z = [k \in -1 .. n - 1 |-> z[k]]
    OBVIOUS
  <2>4. /\ z0 = NextColumn(zz, 0, cols[0], 0 \in fast, w) /\ z1 = NextColumn(z0, 1, cols[1], 1 \in fast, w)
        /\ z2 = NextColumn(z1, 2, cols[2], 2 \in fast, w) /\ z3 = NextColumn(z2, 3, cols[3], 3 \in fast, w)
        /\ z4 = NextColumn(z3, 4, cols[4], 4 \in fast, w) /\ z5 = NextColumn(z4, 5, cols[5], 5 \in fast, w)
        /\ z6 = NextColumn(z5, 6, cols[6], 6 \in fast, w)
    OBVIOUS
  <2> HIDE DEF z, zz, z0, z1, z2, z3, z4, z5, z6
  <2>3. ASSUME NEW k \in -1 .. n - 1
        PROVE  z[k] = IF k = -1 THEN zz ELSE NextColumn(z[k - 1], k, cols[k], k \in fast, w)
    <3>1. \/ k = -1 \/ k = 0 \/ k = 1 \/ k = 2 \/ k = 3 \/ (k = 4 /\ n >= 5)
          \/ (k = 5 /\ n >= 5 /\ n >= 6) \/ (k = 6 /\ n >= 6 /\ n >= 7)
      BY SMT
    <3>2. 0 - 1 = -1 /\ 1 - 1 = 0 /\ 2 - 1 = 1 /\ 3 - 1 = 2 /\ 4 - 1 = 3 /\ 5 - 1 = 4 /\ 6 - 1 = 5
      BY SMT
    <3>3. 0 # -1 /\ 1 # -1 /\ 2 # -1 /\ 3 # -1 /\ 4 # -1 /\ 5 # -1 /\ 6 # -1
      BY SMT
    <3>4. CASE k = -1
      BY <2>1, <3>4
    <3>5. CASE k = 0
      BY <2>1, <2>4, <3>2, <3>3, <3>5
    <3>6. CASE k = 1
      BY <2>1, <2>4, <3>2, <3>3, <3>6
    <3>7. CASE k = 2
      BY <2>1, <2>4, <3>2, <3>3, <3>7
    <3>8. CASE k = 3
      BY <2>1, <2>4, <3>2, <3>3, <3>8
    <3>9. CASE k = 4 /\ n >= 5
      BY <2>1, <2>4, <3>2, <3>3, <3>9
    <3>10. CASE k = 5 /\ n >= 5 /\ n >= 6
      BY <2>1, <2>4, <3>2, <3>3, <3>10
    <3>11. CASE k = 6 /\ n >= 6 /\ n >= 7
      BY <2>1, <2>4, <3>2, <3>3, <3>11
    <3> QED
      BY <3>1, <3>4, <3>5, <3>6, <3>7, <3>8, <3>9, <3>10, <3>11
  <2> QED
    BY <2>2, <2>3
<1>4. g = [k \in -1 .. n - 1 |-> IF k = -1 THEN zz ELSE NextColumn(g[k - 1], k, cols[k], k \in fast, w)]
  BY <1>2a, <1>3
<1> HIDE DEF zz
<1>5. g[-1] = zz /\ \A k \in 0 .. n - 1 : g[k] = NextColumn(g[k - 1], k, cols[k], k \in fast, w)
  BY <1>4, SMT
<1> QED
  BY <1>2, <1>5 DEF zz, Chain

LEMMA ZeroHolds ==
  ASSUME Sizes
  PROVE  Holds(AccZero, 0)
<1>1. PICK B \in Nat : B = 2^W /\ B >= 8
  BY SizesOf
<1>2. 0 \in Word(W)
  BY <1>1, SMT DEF Word
<1>3. 0 + B * (0 + B * 0) = 0
  BY SMT
<1>4. IsAcc(AccZero, W) /\ AccZero.ok
  BY <1>2 DEF AccZero, IsAcc
<1>5. AccValue(AccZero, W) = 0
  BY <1>1, <1>3 DEF AccZero, AccValue
<1> QED
  BY <1>4, <1>5 DEF Holds

(* Before column k + 1: the words taken are those of v, and the rest of     *)
(* v[k] is in the accumulator.                                              *)
Left(z, n, v, k) ==
    /\ Holds(z.acc, IF k = -1 THEN 0 ELSE v[k] \div 2^W)
    /\ z.d = [i \in 0 .. n |-> IF i <= k THEN v[i] % 2^W ELSE 0]

(* The columns add up: v[k] is what the accumulator holds at the end of     *)
(* column k, and it fits where a fast macro takes the word.                 *)
AddUp(cols, n, fast, v) ==
    \A k \in 0 .. n - 1 :
        /\ \A s : Holds(s, IF k = 0 THEN 0 ELSE v[k - 1] \div 2^W)
                    => Holds(AfterColumn(s, cols[k], W), v[k])
        /\ k \in fast => v[k] < 2^W * 2^W

LEMMA NextColumnExact ==
  ASSUME Sizes, NEW n \in 4 .. 7, NEW cols, NEW fast, NEW v, AddUp(cols, n, fast, v),
         NEW k \in 0 .. n - 1, NEW z, Left(z, n, v, k - 1),
         NEW t, t = NextColumn(z, k, cols[k], k \in fast, W)
  PROVE  Left(t, n, v, k) /\ (k \in fast => t.acc.c1 = 0 /\ t.acc.c0 = v[k] \div 2^W)
<1>1. Holds(z.acc, IF k = 0 THEN 0 ELSE v[k - 1] \div 2^W)
  <2>1. k - 1 = -1 <=> k = 0
    BY SMT
  <2> QED
    BY <2>1 DEF Left
<1>2. PICK s : s = AfterColumn(z.acc, cols[k], W)
  OBVIOUS
<1>3. Holds(s, v[k]) /\ (k \in fast => v[k] < 2^W * 2^W)
  BY <1>1, <1>2 DEF AddUp
<1>4. PICK f : f = (k \in fast)
  OBVIOUS
<1>5. t = Taken(z, k, s, f)
  BY <1>2, <1>4 DEF NextColumn
<1>6. /\ t = [acc |-> t.acc, d |-> [z.d EXCEPT ![k] = v[k] % 2^W]]
      /\ Holds(t.acc, v[k] \div 2^W) /\ (f => t.acc.c1 = 0 /\ t.acc.c0 = v[k] \div 2^W)
  <2>1. PICK u : u = v[k]
    OBVIOUS
  <2>2. Holds(s, u) /\ (f => u < 2^W * 2^W)
    BY <1>3, <1>4, <2>1
  <2>3. f => u < 2^W * 2^W
    BY <2>2
  <2>4. /\ t = [acc |-> t.acc, d |-> [z.d EXCEPT ![k] = u % 2^W]]
        /\ Holds(t.acc, u \div 2^W) /\ (f => t.acc.c1 = 0 /\ t.acc.c0 = u \div 2^W)
    BY <1>5, <2>2, <2>3, TakenExact
  <2> QED
    BY <2>1, <2>4
<1>8. t.d = [i \in 0 .. n |-> IF i <= k THEN v[i] % 2^W ELSE 0]
  <2>1. t.d = [z.d EXCEPT ![k] = v[k] % 2^W]
    BY <1>6
  <2>2. z.d = [i \in 0 .. n |-> IF i <= k - 1 THEN v[i] % 2^W ELSE 0]
    BY DEF Left
  <2>3. t.d = [i \in 0 .. n |-> IF i = k THEN v[k] % 2^W ELSE IF i <= k - 1 THEN v[i] % 2^W ELSE 0]
    BY <2>1, <2>2
  <2>4. \A i \in 0 .. n : i <= k <=> i = k \/ i <= k - 1
    BY SMT
  <2> QED
    BY <2>3, <2>4
<1>9. k # -1
  BY SMT
<1> QED
  BY <1>4, <1>6, <1>8, <1>9 DEF Left

LEMMA ColumnsExact ==
  ASSUME Sizes, NEW n, n \in 4 .. 7, NEW cols, NEW fast, NEW v, AddUp(cols, n, fast, v), n - 1 \in fast,
         NEW z, z = AfterColumns(cols, n, fast, W)
  PROVE  /\ Holds(z.acc, v[n - 1] \div 2^W) /\ z.acc.c1 = 0 /\ z.acc.c0 = v[n - 1] \div 2^W
         /\ z.d = [i \in 0 .. n |-> IF i <= n - 1 THEN v[i] % 2^W ELSE 0]
<1>1. PICK g : /\ g[-1] = [acc |-> AccZero, d |-> [i \in 0 .. n |-> 0]]
               /\ \A k \in 0 .. n - 1 : g[k] = NextColumn(g[k - 1], k, cols[k], k \in fast, W)
               /\ z = g[n - 1]
  <2>1. PICK g : Chain(g, cols, n, fast, W)
    BY AfterColumnsIs
  <2> QED
    BY <2>1 DEF Chain
<1>2. Left(g[-1], n, v, -1)
  <2>1. \A i \in 0 .. n : ~(i <= -1)
    BY SMT
  <2>2. [i \in 0 .. n |-> 0] = [i \in 0 .. n |-> IF i <= -1 THEN v[i] % 2^W ELSE 0]
    BY <2>1
  <2>3. g[-1].acc = AccZero /\ g[-1].d = [i \in 0 .. n |-> 0]
    BY <1>1
  <2> QED
    BY <2>2, <2>3, ZeroHolds DEF Left
<1>3. ASSUME NEW k \in 0 .. n - 1, Left(g[k - 1], n, v, k - 1)
      PROVE  Left(g[k], n, v, k) /\ (k \in fast => g[k].acc.c1 = 0 /\ g[k].acc.c0 = v[k] \div 2^W)
  <2>1. PICK y, t : y = g[k - 1] /\ t = g[k]
    OBVIOUS
  <2>2. Left(y, n, v, k - 1) /\ t = NextColumn(y, k, cols[k], k \in fast, W)
    BY <1>1, <1>3, <2>1
  <2>3. Left(t, n, v, k) /\ (k \in fast => t.acc.c1 = 0 /\ t.acc.c0 = v[k] \div 2^W)
    BY ONLY Sizes, n \in 4 .. 7, AddUp(cols, n, fast, v), k \in 0 .. n - 1, <2>2, NextColumnExact
  <2> QED
    BY <2>1, <2>3
<1>4. 0 \in 0 .. n - 1 /\ 1 \in 0 .. n - 1 /\ 2 \in 0 .. n - 1 /\ 3 \in 0 .. n - 1
  BY SMT
<1>5. (n >= 5 => 4 \in 0 .. n - 1) /\ (n >= 6 => 5 \in 0 .. n - 1) /\ (n >= 7 => 6 \in 0 .. n - 1)
  BY SMT
<1>6. 0 - 1 = -1 /\ 1 - 1 = 0 /\ 2 - 1 = 1 /\ 3 - 1 = 2 /\ 4 - 1 = 3 /\ 5 - 1 = 4 /\ 6 - 1 = 5
  BY SMT
<1>10. Left(g[0], n, v, 0)
  BY <1>2, <1>3, <1>4, <1>6
<1>11. Left(g[1], n, v, 1)
  BY <1>3, <1>4, <1>6, <1>10
<1>12. Left(g[2], n, v, 2)
  BY <1>3, <1>4, <1>6, <1>11
<1>13. Left(g[3], n, v, 3)
  BY <1>3, <1>4, <1>6, <1>12
<1>14. n >= 5 => Left(g[4], n, v, 4)
  BY <1>3, <1>5, <1>6, <1>13
<1>15. n >= 5 /\ n >= 6 => Left(g[5], n, v, 5)
  BY <1>3, <1>5, <1>6, <1>14
<1>16. Left(g[n - 1 - 1], n, v, n - 1 - 1) /\ n - 1 \in 0 .. n - 1
  <2>1. \/ n - 1 - 1 = 2 \/ n - 1 - 1 = 3 \/ (n - 1 - 1 = 4 /\ n >= 5)
        \/ (n - 1 - 1 = 5 /\ n >= 5 /\ n >= 6)
    BY SMT
  <2>2. n - 1 \in 0 .. n - 1
    BY SMT
  <2> QED
    BY <1>12, <1>13, <1>14, <1>15, <2>1, <2>2
<1>17. Left(z, n, v, n - 1) /\ z.acc.c1 = 0 /\ z.acc.c0 = v[n - 1] \div 2^W
  BY <1>1, <1>3, <1>16
<1>18. n - 1 # -1
  BY SMT
<1> QED
  BY <1>17, <1>18 DEF Left

-----------------------------------------------------------------------------
(* The macros of each column, and the sequences that they are.              *)
LEMMA AppendedTwo ==
  ASSUME NEW x, NEW y, NEW c, c = <<x>> \o <<y>>
  PROVE  Len(c) = 2 /\ c[1] = x /\ c[2] = y
<1>1. PICK S : x \in S /\ y \in S
  <2>1. x \in {x, y} /\ y \in {x, y}
    OBVIOUS
  <2> QED
    BY <2>1
<1>2. /\ <<x>> \in Seq(S) /\ Len(<<x>>) = 1 /\ <<x>>[1] = x
      /\ <<y>> \in Seq(S) /\ Len(<<y>>) = 1 /\ <<y>>[1] = y
  BY <1>1
<1> QED
  BY <1>2

LEMMA AppendedThree ==
  ASSUME NEW x, NEW y, NEW z, NEW c, c = <<x>> \o <<y, z>> \/ c = (<<x>> \o <<y>>) \o <<z>>
  PROVE  Len(c) = 3 /\ c[1] = x /\ c[2] = y /\ c[3] = z
<1>1. PICK S : x \in S /\ y \in S /\ z \in S
  <2>1. x \in {x, y, z} /\ y \in {x, y, z} /\ z \in {x, y, z}
    OBVIOUS
  <2> QED
    BY <2>1
<1>2. <<x>> \in Seq(S) /\ Len(<<x>>) = 1 /\ <<x>>[1] = x
  BY <1>1
<1>3. CASE c = <<x>> \o <<y, z>>
  <2>1. <<y, z>> \in Seq(S) /\ Len(<<y, z>>) = 2 /\ <<y, z>>[1] = y /\ <<y, z>>[2] = z
    BY <1>1
  <2> QED
    BY <1>2, <1>3, <2>1
<1>4. CASE c = (<<x>> \o <<y>>) \o <<z>>
  <2>1. PICK d : d = <<x>> \o <<y>>
    OBVIOUS
  <2>2. <<y>> \in Seq(S) /\ Len(<<y>>) = 1 /\ <<y>>[1] = y
    BY <1>1
  <2>3. d \in Seq(S) /\ Len(d) = 2 /\ d[1] = x /\ d[2] = y
    BY ONLY <1>2, <2>1, <2>2
  <2>4. <<z>> \in Seq(S) /\ Len(<<z>>) = 1 /\ <<z>>[1] = z
    BY <1>1
  <2>5. c = d \o <<z>>
    BY <1>4, <2>1
  <2> QED
    BY <2>3, <2>4, <2>5
<1> QED
  BY <1>3, <1>4

LEMMA AppendedFour ==
  ASSUME NEW x, NEW y, NEW z, NEW u, NEW c, c = (<<x>> \o <<y, z>>) \o <<u>>
  PROVE  Len(c) = 4 /\ c[1] = x /\ c[2] = y /\ c[3] = z /\ c[4] = u
<1>1. PICK S : x \in S /\ y \in S /\ z \in S /\ u \in S
  <2>1. x \in {x, y, z, u} /\ y \in {x, y, z, u} /\ z \in {x, y, z, u} /\ u \in {x, y, z, u}
    OBVIOUS
  <2> QED
    BY <2>1
<1>2. /\ <<x>> \in Seq(S) /\ Len(<<x>>) = 1 /\ <<x>>[1] = x
      /\ <<u>> \in Seq(S) /\ Len(<<u>>) = 1 /\ <<u>>[1] = u
      /\ <<y, z>> \in Seq(S) /\ Len(<<y, z>>) = 2 /\ <<y, z>>[1] = y /\ <<y, z>>[2] = z
  BY <1>1
<1>3. PICK d : d = <<x>> \o <<y, z>>
  OBVIOUS
<1>4. d \in Seq(S) /\ Len(d) = 3 /\ d[1] = x /\ d[2] = y /\ d[3] = z
  BY <1>2, <1>3
<1> QED
  BY <1>2, <1>3, <1>4

LEMMA MulColumns ==
  ASSUME NEW a, NEW b
  PROVE  /\ MulColumn(a, b, 0) = << <<"muladd_fast", a[0], b[0]>> >>
         /\ MulColumn(a, b, 1) = << <<"muladd", a[0], b[1]>>, <<"muladd", a[1], b[0]>> >>
         /\ MulColumn(a, b, 2) = << <<"muladd", a[0], b[2]>>, <<"muladd", a[1], b[1]>>,
                                    <<"muladd", a[2], b[0]>> >>
         /\ MulColumn(a, b, 3) = << <<"muladd", a[0], b[3]>>, <<"muladd", a[1], b[2]>>,
                                    <<"muladd", a[2], b[1]>>, <<"muladd", a[3], b[0]>> >>
         /\ MulColumn(a, b, 4) = << <<"muladd", a[1], b[3]>>, <<"muladd", a[2], b[2]>>,
                                    <<"muladd", a[3], b[1]>> >>
         /\ MulColumn(a, b, 5) = << <<"muladd", a[2], b[3]>>, <<"muladd", a[3], b[2]>> >>
         /\ MulColumn(a, b, 6) = << <<"muladd_fast", a[3], b[3]>> >>
<1>1a. Products("muladd_fast", a, b, 0, 0, 0) = << <<"muladd_fast", a[0], b[0]>> >>
  BY SMT DEF Products
<1>1b. Products("muladd", a, b, 1, 0, 1)
         = << <<"muladd", a[0], b[1]>>, <<"muladd", a[1], b[0]>> >>
  BY SMT DEF Products
<1>1c. Products("muladd", a, b, 2, 0, 2)
         = << <<"muladd", a[0], b[2]>>, <<"muladd", a[1], b[1]>>, <<"muladd", a[2], b[0]>> >>
  BY SMT DEF Products
<1>1d. Products("muladd", a, b, 3, 0, 3)
         = << <<"muladd", a[0], b[3]>>, <<"muladd", a[1], b[2]>>, <<"muladd", a[2], b[1]>>, <<"muladd", a[3], b[0]>> >>
  BY SMT DEF Products
<1>1e. Products("muladd", a, b, 4, 1, 3)
         = << <<"muladd", a[1], b[3]>>, <<"muladd", a[2], b[2]>>, <<"muladd", a[3], b[1]>> >>
  BY SMT DEF Products
<1>1f. Products("muladd", a, b, 5, 2, 3)
         = << <<"muladd", a[2], b[3]>>, <<"muladd", a[3], b[2]>> >>
  BY SMT DEF Products
<1>1g. Products("muladd_fast", a, b, 6, 3, 3) = << <<"muladd_fast", a[3], b[3]>> >>
  BY SMT DEF Products
<1>2. /\ MulColumn(a, b, 0) = Products("muladd_fast", a, b, 0, 0, 0)
      /\ MulColumn(a, b, 1) = Products("muladd", a, b, 1, 0, 1)
      /\ MulColumn(a, b, 2) = Products("muladd", a, b, 2, 0, 2)
      /\ MulColumn(a, b, 3) = Products("muladd", a, b, 3, 0, 3)
      /\ MulColumn(a, b, 4) = Products("muladd", a, b, 4, 1, 3)
      /\ MulColumn(a, b, 5) = Products("muladd", a, b, 5, 2, 3)
      /\ MulColumn(a, b, 6) = Products("muladd_fast", a, b, 6, 3, 3)
  <2>1. /\ Lo(0, 4) = 0 /\ Lo(1, 4) = 0 /\ Lo(2, 4) = 0 /\ Lo(3, 4) = 0
        /\ Lo(4, 4) = 1 /\ Lo(5, 4) = 2 /\ Lo(6, 4) = 3
    BY SMT DEF Lo
  <2>2. /\ 0 - 0 = 0 /\ 1 - 0 = 1 /\ 2 - 0 = 2 /\ 3 - 0 = 3 /\ 4 - 1 = 3
        /\ 5 - 2 = 3 /\ 6 - 3 = 3 /\ 2 * 4 - 2 = 6
    BY SMT
  <2>3. ~(1 \in {0, 6}) /\ ~(2 \in {0, 6}) /\ ~(3 \in {0, 6}) /\ ~(4 \in {0, 6}) /\ ~(5 \in {0, 6})
    BY SMT
  <2>4. 0 \in {0, 6} /\ 6 \in {0, 6}
    OBVIOUS
  <2> QED
    BY <2>1, <2>2, <2>3, <2>4 DEF MulColumn, N
<1> QED
  BY <1>1a, <1>1b, <1>1c, <1>1d, <1>1e, <1>1f, <1>1g, <1>2

LEMMA SqrColumns ==
  ASSUME NEW a
  PROVE  /\ SqrColumn(a, 0) = << <<"muladd_fast", a[0], a[0]>> >>
         /\ SqrColumn(a, 1) = << <<"muladd2", a[0], a[1]>> >>
         /\ SqrColumn(a, 2) = << <<"muladd2", a[0], a[2]>> >> \o << <<"muladd", a[1], a[1]>> >>
         /\ SqrColumn(a, 3) = << <<"muladd2", a[0], a[3]>>, <<"muladd2", a[1], a[2]>> >>
         /\ SqrColumn(a, 4) = << <<"muladd2", a[1], a[3]>> >> \o << <<"muladd", a[2], a[2]>> >>
         /\ SqrColumn(a, 5) = << <<"muladd2", a[2], a[3]>> >>
         /\ SqrColumn(a, 6) = << <<"muladd_fast", a[3], a[3]>> >>
<1>2. /\ Squared("muladd_fast", a, 0) = << <<"muladd_fast", a[0], a[0]>> >>
      /\ Squared("muladd_fast", a, 6) = << <<"muladd_fast", a[3], a[3]>> >>
      /\ Squared("muladd", a, 2) = << <<"muladd", a[1], a[1]>> >>
      /\ Squared("muladd", a, 4) = << <<"muladd", a[2], a[2]>> >>
      /\ Squared("muladd", a, 1) = <<>> /\ Squared("muladd", a, 3) = <<>> /\ Squared("muladd", a, 5) = <<>>
  <2>1. /\ ~(0 % 2 = 1) /\ 1 % 2 = 1 /\ ~(2 % 2 = 1) /\ 3 % 2 = 1 /\ ~(4 % 2 = 1) /\ 5 % 2 = 1 /\ ~(6 % 2 = 1)
        /\ 0 \div 2 = 0 /\ 2 \div 2 = 1 /\ 4 \div 2 = 2 /\ 6 \div 2 = 3
    BY SMT
  <2> QED
    BY <2>1 DEF Squared
<1>3. /\ SqrColumn(a, 0) = Squared("muladd_fast", a, 0)
      /\ SqrColumn(a, 1) = Products("muladd2", a, a, 1, 0, 0) \o Squared("muladd", a, 1)
      /\ SqrColumn(a, 2) = Products("muladd2", a, a, 2, 0, 0) \o Squared("muladd", a, 2)
      /\ SqrColumn(a, 3) = Products("muladd2", a, a, 3, 0, 1) \o Squared("muladd", a, 3)
      /\ SqrColumn(a, 4) = Products("muladd2", a, a, 4, 1, 1) \o Squared("muladd", a, 4)
      /\ SqrColumn(a, 5) = Products("muladd2", a, a, 5, 2, 2) \o Squared("muladd", a, 5)
      /\ SqrColumn(a, 6) = Squared("muladd_fast", a, 6)
  <2>1. Lo(1, 4) = 0 /\ Lo(2, 4) = 0 /\ Lo(3, 4) = 0 /\ Lo(4, 4) = 1 /\ Lo(5, 4) = 2
    BY SMT DEF Lo
  <2>2. /\ (1 - 1) \div 2 = 0 /\ (2 - 1) \div 2 = 0 /\ (3 - 1) \div 2 = 1
        /\ (4 - 1) \div 2 = 1 /\ (5 - 1) \div 2 = 2 /\ 2 * 4 - 2 = 6
    BY SMT
  <2>3. ~(1 \in {0, 6}) /\ ~(2 \in {0, 6}) /\ ~(3 \in {0, 6}) /\ ~(4 \in {0, 6}) /\ ~(5 \in {0, 6})
    BY SMT
  <2>4. 0 \in {0, 6} /\ 6 \in {0, 6}
    OBVIOUS
  <2> QED
    BY <2>1, <2>2, <2>3, <2>4 DEF SqrColumn, N
<1>4a. Products("muladd2", a, a, 1, 0, 0) = << <<"muladd2", a[0], a[1]>> >>
  BY SMT DEF Products
<1>4b. Products("muladd2", a, a, 2, 0, 0) = << <<"muladd2", a[0], a[2]>> >>
  BY SMT DEF Products
<1>4c. Products("muladd2", a, a, 3, 0, 1)
         = << <<"muladd2", a[0], a[3]>>, <<"muladd2", a[1], a[2]>> >>
  BY SMT DEF Products
<1>4d. Products("muladd2", a, a, 4, 1, 1) = << <<"muladd2", a[1], a[3]>> >>
  BY SMT DEF Products
<1>4e. Products("muladd2", a, a, 5, 2, 2) = << <<"muladd2", a[2], a[3]>> >>
  BY SMT DEF Products
<1>5. ASSUME NEW x, NEW y PROVE <<x>> \o <<>> = <<x>> /\ <<x, y>> \o <<>> = <<x, y>>
  BY SMT
<1> QED
  BY <1>2, <1>3, <1>4a, <1>4b, <1>4c, <1>4d, <1>4e, <1>5

-----------------------------------------------------------------------------
(* What a single macro adds.                                                *)
LEMMA AddsOf ==
  ASSUME Sizes, NEW a \in Word(W), NEW b \in Word(W), NEW v
  PROVE  /\ v + a * b < AccBound(W) => Adds(<<"muladd", a, b>>, a * b, v)
         /\ v + a * b < 2^W * 2^W => Adds(<<"muladd_fast", a, b>>, a * b, v)
         /\ v + 2 * (a * b) < AccBound(W) => Adds(<<"muladd2", a, b>>, 2 * (a * b), v)
         /\ v + a < AccBound(W) => Adds(<<"sumadd", a>>, a, v)
         /\ v + a < 2^W * 2^W => Adds(<<"sumadd_fast", a>>, a, v)
         /\ v = 0 => Adds(<<"set", a>>, a, v)
<1>1. v + a * b < AccBound(W) => Adds(<<"muladd", a, b>>, a * b, v)
  BY DEF Adds
<1>2. v + a * b < 2^W * 2^W => Adds(<<"muladd_fast", a, b>>, a * b, v)
  BY DEF Adds
<1>3. v + 2 * (a * b) < AccBound(W) => Adds(<<"muladd2", a, b>>, 2 * (a * b), v)
  BY DEF Adds
<1>4. v + a < AccBound(W) => Adds(<<"sumadd", a>>, a, v)
  BY DEF Adds
<1>5. v + a < 2^W * 2^W => Adds(<<"sumadd_fast", a>>, a, v)
  BY DEF Adds
<1>6. v = 0 => Adds(<<"set", a>>, a, v)
  BY DEF Adds
<1> QED
  BY <1>1, <1>2, <1>3, <1>4, <1>5, <1>6

(* The columns of the schoolbook product of two numbers of four words.      *)
ColumnSums(a, b) ==
    [k \in 0 .. 6 |->
        CASE k = 0 -> a[0] * b[0]
          [] k = 1 -> a[0] * b[1] + a[1] * b[0]
          [] k = 2 -> a[0] * b[2] + a[1] * b[1] + a[2] * b[0]
          [] k = 3 -> a[0] * b[3] + a[1] * b[2] + a[2] * b[1] + a[3] * b[0]
          [] k = 4 -> a[1] * b[3] + a[2] * b[2] + a[3] * b[1]
          [] k = 5 -> a[2] * b[3] + a[3] * b[2]
          [] k = 6 -> a[3] * b[3]]

(* The macros of a column add the sum of the column if it fits.             *)
Fits(v, fast) == v < AccBound(W) /\ (fast => v < 2^W * 2^W)
LEMMA MulColumnAdds ==
  ASSUME Sizes, NEW a, WordsOf(a), NEW b, WordsOf(b), NEW c, c = ColumnSums(a, b),
         NEW k \in 0 .. 6, NEW s, NEW e \in Nat, Holds(s, e), Fits(e + c[k], k \in {0, 6})
  PROVE  Holds(AfterColumn(s, MulColumn(a, b, k), W), e + c[k])
<1>1. PICK B \in Nat : B = 2^W
  BY SizesOf
<1>2. PICK R \in Nat : R = AccBound(W)
  BY <1>1, SMT DEF AccBound
<1>3. PICK a0 \in Word(W), a1 \in Word(W), a2 \in Word(W), a3 \in Word(W) :
          a0 = a[0] /\ a1 = a[1] /\ a2 = a[2] /\ a3 = a[3]
  BY <1>1, WordsAre DEF Word
<1>4. PICK b0 \in Word(W), b1 \in Word(W), b2 \in Word(W), b3 \in Word(W) :
          b0 = b[0] /\ b1 = b[1] /\ b2 = b[2] /\ b3 = b[3]
  BY <1>1, WordsAre DEF Word
<1>5. /\ c[0] = a0 * b0
      /\ c[1] = a0 * b1 + a1 * b0
      /\ c[2] = a0 * b2 + a1 * b1 + a2 * b0
      /\ c[3] = a0 * b3 + a1 * b2 + a2 * b1 + a3 * b0
      /\ c[4] = a1 * b3 + a2 * b2 + a3 * b1
      /\ c[5] = a2 * b3 + a3 * b2
      /\ c[6] = a3 * b3
  BY <1>3, <1>4, SMT DEF ColumnSums
<1>6. ASSUME NEW x \in Word(W), NEW y \in Word(W) PROVE x * y \in Nat
  BY <1>1, <1>6, SMT DEF Word
<1>7. ASSUME NEW x \in Word(W), NEW y \in Word(W), NEW v, v + x * y < R
      PROVE  Adds(<<"muladd", x, y>>, x * y, v)
  BY <1>2, <1>7, AddsOf
<1>8. e + c[k] < R
  BY <1>2 DEF Fits
<1>10. CASE k = 0 \/ k = 6
  <2>1. PICK x \in Word(W), y \in Word(W) :
           c[k] = x * y /\ MulColumn(a, b, k) = << <<"muladd_fast", x, y>> >>
    BY <1>3, <1>4, <1>5, <1>10, MulColumns
  <2>2. e + x * y < 2^W * 2^W
    BY <1>10, <2>1 DEF Fits
  <2>3. Adds(<<"muladd_fast", x, y>>, x * y, e)
    BY <2>2, AddsOf
  <2>4. PICK t : t = << <<"muladd_fast", x, y>> >>
    OBVIOUS
  <2>5. Len(t) = 1 /\ t[1] = <<"muladd_fast", x, y>>
    BY <2>4
  <2>6. Holds(AfterColumn(s, t, W), e + x * y)
    BY <2>3, <2>5, ColumnOne
  <2> QED
    BY <2>1, <2>4, <2>6
<1>11. CASE k = 1 \/ k = 5
  <2>1. PICK x \in Word(W), y \in Word(W), p \in Word(W), q \in Word(W) :
           /\ c[k] = x * y + p * q
           /\ MulColumn(a, b, k) = << <<"muladd", x, y>>, <<"muladd", p, q>> >>
    BY <1>3, <1>4, <1>5, <1>11, MulColumns
  <2>2. PICK m \in Nat, n \in Nat : m = x * y /\ n = p * q
    BY <1>6
  <2>3. e + m + n < R /\ e + m < R /\ e + c[k] = e + m + n
    BY <1>8, <2>1, <2>2, SMT
  <2>4. Adds(<<"muladd", x, y>>, m, e) /\ Adds(<<"muladd", p, q>>, n, e + m)
    BY <1>7, <2>2, <2>3
  <2>5. PICK t : t = << <<"muladd", x, y>>, <<"muladd", p, q>> >>
    OBVIOUS
  <2>6. Len(t) = 2 /\ t[1] = <<"muladd", x, y>> /\ t[2] = <<"muladd", p, q>>
    BY <2>5
  <2>7. Holds(AfterColumn(s, t, W), e + m + n)
    BY <2>4, <2>6, ColumnTwo
  <2> QED
    BY <2>1, <2>3, <2>5, <2>7
<1>12. CASE k = 2 \/ k = 4
  <2>1. PICK x \in Word(W), y \in Word(W), p \in Word(W), q \in Word(W), u \in Word(W), v \in Word(W) :
           /\ c[k] = x * y + p * q + u * v
           /\ MulColumn(a, b, k) = << <<"muladd", x, y>>, <<"muladd", p, q>>, <<"muladd", u, v>> >>
    BY <1>3, <1>4, <1>5, <1>12, MulColumns
  <2>2. PICK m \in Nat, n \in Nat, o \in Nat : m = x * y /\ n = p * q /\ o = u * v
    BY <1>6
  <2>3. e + m + n + o < R /\ e + m + n < R /\ e + m < R /\ e + c[k] = e + m + n + o
    BY <1>8, <2>1, <2>2, SMT
  <2>4. /\ Adds(<<"muladd", x, y>>, m, e) /\ Adds(<<"muladd", p, q>>, n, e + m)
        /\ Adds(<<"muladd", u, v>>, o, e + m + n)
    BY <1>7, <2>2, <2>3
  <2>5. PICK t : t = << <<"muladd", x, y>>, <<"muladd", p, q>>, <<"muladd", u, v>> >>
    OBVIOUS
  <2>6. /\ Len(t) = 3 /\ t[1] = <<"muladd", x, y>> /\ t[2] = <<"muladd", p, q>>
        /\ t[3] = <<"muladd", u, v>>
    BY <2>5
  <2>7. Holds(AfterColumn(s, t, W), e + m + n + o)
    BY <2>4, <2>6, ColumnThree
  <2> QED
    BY <2>1, <2>3, <2>5, <2>7
<1>13. CASE k = 3
  <2>2. PICK m \in Nat, n \in Nat, o \in Nat, r \in Nat :
           m = a0 * b3 /\ n = a1 * b2 /\ o = a2 * b1 /\ r = a3 * b0
    BY <1>6
  <2>3. /\ e + m + n + o + r < R /\ e + m + n + o < R /\ e + m + n < R /\ e + m < R
        /\ e + c[k] = e + m + n + o + r
    BY <1>5, <1>8, <1>13, <2>2, SMT
  <2>4. /\ Adds(<<"muladd", a0, b3>>, m, e) /\ Adds(<<"muladd", a1, b2>>, n, e + m)
        /\ Adds(<<"muladd", a2, b1>>, o, e + m + n) /\ Adds(<<"muladd", a3, b0>>, r, e + m + n + o)
    BY <1>7, <2>2, <2>3
  <2>5. PICK t : t = << <<"muladd", a0, b3>>, <<"muladd", a1, b2>>, <<"muladd", a2, b1>>, <<"muladd", a3, b0>> >>
    OBVIOUS
  <2>6. /\ Len(t) = 4 /\ t[1] = <<"muladd", a0, b3>> /\ t[2] = <<"muladd", a1, b2>>
        /\ t[3] = <<"muladd", a2, b1>> /\ t[4] = <<"muladd", a3, b0>>
    BY <2>5
  <2>7. Holds(AfterColumn(s, t, W), e + m + n + o + r)
    BY <2>4, <2>6, ColumnFour
  <2>8. MulColumn(a, b, k) = t
    BY <1>3, <1>4, <1>13, <2>5, MulColumns
  <2> QED
    BY <2>3, <2>7, <2>8
<1>14. k = 0 \/ k = 1 \/ k = 2 \/ k = 3 \/ k = 4 \/ k = 5 \/ k = 6
  BY SMT
<1> QED
  BY <1>10, <1>11, <1>12, <1>13, <1>14

LEMMA SqrColumnAdds ==
  ASSUME Sizes, NEW a, WordsOf(a), NEW c, c = ColumnSums(a, a),
         NEW k \in 0 .. 6, NEW s, NEW e \in Nat, Holds(s, e), Fits(e + c[k], k \in {0, 6})
  PROVE  Holds(AfterColumn(s, SqrColumn(a, k), W), e + c[k])
<1>1. PICK B \in Nat : B = 2^W
  BY SizesOf
<1>2. PICK R \in Nat : R = AccBound(W)
  BY <1>1, SMT DEF AccBound
<1>3. PICK a0 \in Word(W), a1 \in Word(W), a2 \in Word(W), a3 \in Word(W) :
          a0 = a[0] /\ a1 = a[1] /\ a2 = a[2] /\ a3 = a[3]
  BY <1>1, WordsAre DEF Word
<1>4. ASSUME NEW x \in Word(W), NEW y \in Word(W) PROVE x * y \in Nat /\ y * x = x * y
  BY <1>1, <1>4, SMT DEF Word
<1>5. /\ c[0] = a0 * a0
      /\ c[1] = a0 * a1 + a1 * a0
      /\ c[2] = a0 * a2 + a1 * a1 + a2 * a0
      /\ c[3] = a0 * a3 + a1 * a2 + a2 * a1 + a3 * a0
      /\ c[4] = a1 * a3 + a2 * a2 + a3 * a1
      /\ c[5] = a2 * a3 + a3 * a2
      /\ c[6] = a3 * a3
  BY <1>3, SMT DEF ColumnSums
<1>6. ASSUME NEW x \in Word(W), NEW y \in Word(W), NEW v, v + 2 * (x * y) < R
      PROVE  Adds(<<"muladd2", x, y>>, 2 * (x * y), v)
  BY <1>2, <1>6, AddsOf
<1>7. ASSUME NEW x \in Word(W), NEW y \in Word(W), NEW v, v + x * y < R
      PROVE  Adds(<<"muladd", x, y>>, x * y, v)
  BY <1>2, <1>7, AddsOf
<1>8. e + c[k] < R
  BY <1>2 DEF Fits
<1>10. CASE k = 0 \/ k = 6
  <2>1. PICK x \in Word(W) :
           c[k] = x * x /\ SqrColumn(a, k) = << <<"muladd_fast", x, x>> >>
    BY <1>3, <1>5, <1>10, SqrColumns
  <2>2. e + x * x < 2^W * 2^W
    BY <1>10, <2>1 DEF Fits
  <2>3. Adds(<<"muladd_fast", x, x>>, x * x, e)
    BY <2>2, AddsOf
  <2>4. PICK t : t = << <<"muladd_fast", x, x>> >>
    OBVIOUS
  <2>5. Len(t) = 1 /\ t[1] = <<"muladd_fast", x, x>>
    BY <2>4
  <2>6. Holds(AfterColumn(s, t, W), e + x * x)
    BY <2>3, <2>5, ColumnOne
  <2> QED
    BY <2>1, <2>4, <2>6
<1>11. CASE k = 1 \/ k = 5
  <2>1. PICK x \in Word(W), y \in Word(W) :
           c[k] = x * y + y * x /\ SqrColumn(a, k) = << <<"muladd2", x, y>> >>
    <3>1. CASE k = 1
      <4>1. c[k] = a0 * a1 + a1 * a0 /\ SqrColumn(a, k) = << <<"muladd2", a0, a1>> >>
        BY <1>3, <1>5, <3>1, SqrColumns
      <4> QED
        BY <4>1
    <3>2. CASE k = 5
      <4>1. c[k] = a2 * a3 + a3 * a2 /\ SqrColumn(a, k) = << <<"muladd2", a2, a3>> >>
        BY <1>3, <1>5, <3>2, SqrColumns
      <4> QED
        BY <4>1
    <3> QED
      BY <1>11, <3>1, <3>2
  <2>2. PICK m \in Nat : m = x * y /\ c[k] = m + m
    BY <1>4, <2>1
  <2>3. e + 2 * m < R /\ e + c[k] = e + 2 * m
    BY <1>8, <2>2, SMT
  <2>4. Adds(<<"muladd2", x, y>>, 2 * m, e)
    BY <1>6, <2>2, <2>3
  <2>5. PICK t : t = << <<"muladd2", x, y>> >>
    OBVIOUS
  <2>6. Len(t) = 1 /\ t[1] = <<"muladd2", x, y>>
    BY <2>5
  <2>7. Holds(AfterColumn(s, t, W), e + 2 * m)
    BY <2>4, <2>6, ColumnOne
  <2> QED
    BY <2>1, <2>3, <2>5, <2>7
<1>12. CASE k = 2 \/ k = 4
  <2>1. PICK x \in Word(W), y \in Word(W), z \in Word(W) :
           /\ c[k] = x * y + z * z + y * x
           /\ SqrColumn(a, k) = << <<"muladd2", x, y>> >> \o << <<"muladd", z, z>> >>
    <3>1. CASE k = 2
      <4>1. /\ c[k] = a0 * a2 + a1 * a1 + a2 * a0
            /\ SqrColumn(a, k) = << <<"muladd2", a0, a2>> >> \o << <<"muladd", a1, a1>> >>
        BY <1>3, <1>5, <3>1, SqrColumns
      <4> QED
        BY <4>1
    <3>2. CASE k = 4
      <4>1. /\ c[k] = a1 * a3 + a2 * a2 + a3 * a1
            /\ SqrColumn(a, k) = << <<"muladd2", a1, a3>> >> \o << <<"muladd", a2, a2>> >>
        BY <1>3, <1>5, <3>2, SqrColumns
      <4> QED
        BY <4>1
    <3> QED
      BY <1>12, <3>1, <3>2
  <2>2. PICK m \in Nat, n \in Nat : m = x * y /\ n = z * z /\ c[k] = m + n + m
    BY <1>4, <2>1
  <2>3. e + 2 * m + n < R /\ e + 2 * m < R /\ e + c[k] = e + 2 * m + n
    BY <1>8, <2>2, SMT
  <2>4. Adds(<<"muladd2", x, y>>, 2 * m, e) /\ Adds(<<"muladd", z, z>>, n, e + 2 * m)
    BY <1>6, <1>7, <2>2, <2>3
  <2>5. PICK t : t = << <<"muladd2", x, y>> >> \o << <<"muladd", z, z>> >>
    OBVIOUS
  <2>6. Len(t) = 2 /\ t[1] = <<"muladd2", x, y>> /\ t[2] = <<"muladd", z, z>>
    BY <2>5, AppendedTwo
  <2>7. Holds(AfterColumn(s, t, W), e + 2 * m + n)
    BY <2>4, <2>6, ColumnTwo
  <2> QED
    BY <2>1, <2>3, <2>5, <2>7
<1>13. CASE k = 3
  <2>2. PICK m \in Nat, n \in Nat : m = a0 * a3 /\ n = a1 * a2 /\ c[k] = m + n + n + m
    BY <1>4, <1>5, <1>13
  <2>3. e + 2 * m + 2 * n < R /\ e + 2 * m < R /\ e + c[k] = e + 2 * m + 2 * n
    BY <1>8, <2>2, SMT
  <2>4. Adds(<<"muladd2", a0, a3>>, 2 * m, e) /\ Adds(<<"muladd2", a1, a2>>, 2 * n, e + 2 * m)
    BY <1>6, <2>2, <2>3
  <2>5. PICK t : t = << <<"muladd2", a0, a3>>, <<"muladd2", a1, a2>> >>
    OBVIOUS
  <2>6. Len(t) = 2 /\ t[1] = <<"muladd2", a0, a3>> /\ t[2] = <<"muladd2", a1, a2>>
    BY <2>5
  <2>7. Holds(AfterColumn(s, t, W), e + 2 * m + 2 * n)
    BY <2>4, <2>6, ColumnTwo
  <2>8. SqrColumn(a, k) = t
    BY <1>3, <1>13, <2>5, SqrColumns
  <2> QED
    BY <2>3, <2>7, <2>8
<1>14. k = 0 \/ k = 1 \/ k = 2 \/ k = 3 \/ k = 4 \/ k = 5 \/ k = 6
  BY SMT
<1> QED
  BY <1>10, <1>11, <1>12, <1>13, <1>14

-----------------------------------------------------------------------------
(* From column to column: the word that is taken and the carry.             *)
LEMMA ColumnStep ==
  ASSUME NEW B, NEW e, NEW c, B \in Nat, B >= 8, e \in 0 .. 4 * B, c \in Nat,
         c <= 4 * ((B - 1) * (B - 1))
  PROVE  \E d \in 0 .. B - 1, f \in 0 .. 4 * B :
            /\ d = (e + c) % B /\ f = (e + c) \div B /\ e + c = d + B * f
            /\ e + c < B * (B * B)
<1>1. PICK x \in Nat : x = e + c
  BY SMT
<1>2. x \div B \in Nat /\ x % B \in 0 .. B - 1 /\ x = (x % B) + B * (x \div B)
  BY SMT
<1>3. PICK d \in 0 .. B - 1, f \in Nat : d = x % B /\ f = x \div B /\ x = d + B * f
  BY <1>2
<1>4. PICK b2 \in Nat : b2 = B * B
  BY SMT
<1>5. x <= 4 * b2 /\ 8 * b2 <= B * (B * B)
  <2>1. (B - 1) * (B - 1) = b2 - 2 * B + 1
    BY <1>4, SMT
  <2>2. 8 * b2 <= B * b2
    <3>1. ASSUME NEW z \in Nat PROVE 8 * z <= B * z
      BY <3>1, SMT
    <3> QED
      BY <1>4, <3>1
  <2> QED
    BY <1>1, <1>4, <2>1, <2>2, SMT
<1>6. f <= 4 * B
  <2>1. CASE f >= 4 * B + 1
    <3>1. B * f >= B * (4 * B + 1) /\ B * (4 * B + 1) = 4 * b2 + B
      BY <1>4, <2>1, SMT
    <3> QED
      BY <1>3, <1>4, <1>5, <3>1, SMT
  <2> QED
    BY <2>1, SMT
<1>7. b2 > 0
  BY <1>4, SMT
<1> QED
  BY <1>1, <1>3, <1>5, <1>6, <1>7, SMT

(* A number whose words have been multiplied is that of the columns.        *)
Upper(l) == [i \in Idx |-> l[4 + i]]
WordsTaken(v) == [i \in 0 .. 7 |-> IF i <= 6 THEN v[i] % 2^W ELSE v[6] \div 2^W]
LEMMA FullChain ==
  ASSUME Sizes, NEW a, WordsOf(a), NEW b, WordsOf(b), NEW c, c = ColumnSums(a, b)
  PROVE  \E v : /\ \A k \in 0 .. 6 : /\ v[k] \in Nat /\ Fits(v[k], k \in {0, 6})
                                     /\ v[k] = (IF k = 0 THEN 0 ELSE v[k - 1] \div 2^W) + c[k]
                /\ WordsTaken(v) \in [0 .. 7 -> Word(W)]
                /\ Num(WordsTaken(v)) + Top * Num(Upper(WordsTaken(v))) = Num(a) * Num(b)
<1>1. PICK B \in Nat : B = 2^W /\ B >= 8
  BY SizesOf
<1>2. PICK b2 \in Nat : b2 = B * B
  BY SMT
<1>3. PICK a0 \in 0 .. B - 1, a1 \in 0 .. B - 1, a2 \in 0 .. B - 1, a3 \in 0 .. B - 1 :
          a0 = a[0] /\ a1 = a[1] /\ a2 = a[2] /\ a3 = a[3]
  BY <1>1, WordsAre
<1>4. PICK b0 \in 0 .. B - 1, b1 \in 0 .. B - 1, bb2 \in 0 .. B - 1, b3 \in 0 .. B - 1 :
          b0 = b[0] /\ b1 = b[1] /\ bb2 = b[2] /\ b3 = b[3]
  BY <1>1, WordsAre
<1>5. PICK q \in Nat : q = (B - 1) * (B - 1)
  BY <1>1, SMT
<1>6. ASSUME NEW x \in 0 .. B - 1, NEW y \in 0 .. B - 1 PROVE x * y \in 0 .. q
  <2>1. x * y \in Nat /\ x * y <= (B - 1) * (B - 1)
    BY <1>6, SMT
  <2> QED
    BY <1>5, <2>1, SMT
<1>7. /\ c[0] = a0 * b0
      /\ c[1] = a0 * b1 + a1 * b0
      /\ c[2] = a0 * bb2 + a1 * b1 + a2 * b0
      /\ c[3] = a0 * b3 + a1 * bb2 + a2 * b1 + a3 * b0
      /\ c[4] = a1 * b3 + a2 * bb2 + a3 * b1
      /\ c[5] = a2 * b3 + a3 * bb2
      /\ c[6] = a3 * b3
  BY <1>3, <1>4, SMT DEF ColumnSums
<1>8. /\ a0 * b0 \in 0 .. q /\ a0 * b1 \in 0 .. q /\ a0 * bb2 \in 0 .. q /\ a0 * b3 \in 0 .. q
      /\ a1 * b0 \in 0 .. q /\ a1 * b1 \in 0 .. q /\ a1 * bb2 \in 0 .. q /\ a1 * b3 \in 0 .. q
      /\ a2 * b0 \in 0 .. q /\ a2 * b1 \in 0 .. q /\ a2 * bb2 \in 0 .. q /\ a2 * b3 \in 0 .. q
      /\ a3 * b0 \in 0 .. q /\ a3 * b1 \in 0 .. q /\ a3 * bb2 \in 0 .. q /\ a3 * b3 \in 0 .. q
  BY <1>6
<1>9. \A k \in 0 .. 6 : c[k] \in Nat /\ c[k] <= 4 * q
  <2>1. c[0] \in Nat /\ c[0] <= 4 * q /\ c[1] \in Nat /\ c[1] <= 4 * q
    BY <1>7, <1>8, SMT
  <2>2. c[2] \in Nat /\ c[2] <= 4 * q /\ c[3] \in Nat /\ c[3] <= 4 * q
    BY <1>7, <1>8, SMT
  <2>3. c[4] \in Nat /\ c[4] <= 4 * q /\ c[5] \in Nat /\ c[5] <= 4 * q /\ c[6] \in Nat /\ c[6] <= 4 * q
    BY <1>7, <1>8, SMT
  <2>4. \A k \in 0 .. 6 : k = 0 \/ k = 1 \/ k = 2 \/ k = 3 \/ k = 4 \/ k = 5 \/ k = 6
    BY SMT
  <2> QED
    BY <2>1, <2>2, <2>3, <2>4
<1>10. ASSUME NEW e \in 0 .. 4 * B, NEW k \in 0 .. 6
       PROVE  \E d \in 0 .. B - 1, f \in 0 .. 4 * B :
                 /\ d = (e + c[k]) % B /\ f = (e + c[k]) \div B /\ e + c[k] = d + B * f
                 /\ e + c[k] \in Nat /\ e + c[k] < AccBound(W)
  <2>1. PICK x \in Nat : x = c[k] /\ x <= 4 * ((B - 1) * (B - 1))
    BY <1>5, <1>9
  <2>2. \E d \in 0 .. B - 1, f \in 0 .. 4 * B :
            d = (e + x) % B /\ f = (e + x) \div B /\ e + x = d + B * f /\ e + x < B * (B * B)
    BY ONLY <1>1, <2>1, B \in Nat, e \in 0 .. 4 * B, ColumnStep
  <2>3. e + x \in Nat /\ AccBound(W) = B * (B * B)
    BY <1>1, SMT DEF AccBound
  <2> QED
    BY <2>1, <2>2, <2>3
<1>11. /\ 0 \in 0 .. 4 * B /\ 0 \in 0 .. 6 /\ 1 \in 0 .. 6 /\ 2 \in 0 .. 6 /\ 3 \in 0 .. 6
       /\ 4 \in 0 .. 6 /\ 5 \in 0 .. 6 /\ 6 \in 0 .. 6
  BY SMT
<1>20. PICK d0 \in 0 .. B - 1, f0 \in 0 .. 4 * B :
          /\ d0 = (0 + c[0]) % B /\ f0 = (0 + c[0]) \div B /\ 0 + c[0] = d0 + B * f0
          /\ 0 + c[0] \in Nat /\ 0 + c[0] < AccBound(W)
  BY <1>10, <1>11
<1>21. PICK d1 \in 0 .. B - 1, f1 \in 0 .. 4 * B :
          /\ d1 = (f0 + c[1]) % B /\ f1 = (f0 + c[1]) \div B /\ f0 + c[1] = d1 + B * f1
          /\ f0 + c[1] \in Nat /\ f0 + c[1] < AccBound(W)
  BY <1>10, <1>11
<1>22. PICK d2 \in 0 .. B - 1, f2 \in 0 .. 4 * B :
          /\ d2 = (f1 + c[2]) % B /\ f2 = (f1 + c[2]) \div B /\ f1 + c[2] = d2 + B * f2
          /\ f1 + c[2] \in Nat /\ f1 + c[2] < AccBound(W)
  BY <1>10, <1>11
<1>23. PICK d3 \in 0 .. B - 1, f3 \in 0 .. 4 * B :
          /\ d3 = (f2 + c[3]) % B /\ f3 = (f2 + c[3]) \div B /\ f2 + c[3] = d3 + B * f3
          /\ f2 + c[3] \in Nat /\ f2 + c[3] < AccBound(W)
  BY <1>10, <1>11
<1>24. PICK d4 \in 0 .. B - 1, f4 \in 0 .. 4 * B :
          /\ d4 = (f3 + c[4]) % B /\ f4 = (f3 + c[4]) \div B /\ f3 + c[4] = d4 + B * f4
          /\ f3 + c[4] \in Nat /\ f3 + c[4] < AccBound(W)
  BY <1>10, <1>11
<1>25. PICK d5 \in 0 .. B - 1, f5 \in 0 .. 4 * B :
          /\ d5 = (f4 + c[5]) % B /\ f5 = (f4 + c[5]) \div B /\ f4 + c[5] = d5 + B * f5
          /\ f4 + c[5] \in Nat /\ f4 + c[5] < AccBound(W)
  BY <1>10, <1>11
<1>26. PICK d6 \in 0 .. B - 1, f6 \in 0 .. 4 * B :
          /\ d6 = (f5 + c[6]) % B /\ f6 = (f5 + c[6]) \div B /\ f5 + c[6] = d6 + B * f6
          /\ f5 + c[6] \in Nat /\ f5 + c[6] < AccBound(W)
  BY <1>10, <1>11
<1>30. Num(a) * Num(b) = Four(d0, d1, d2, d3, B) + Top * Four(d4, d5, d6, f6, B)
  <2>1. PICK c0 \in Nat, c1 \in Nat, c2 \in Nat, c3 \in Nat, c4 \in Nat, c5 \in Nat, c6 \in Nat :
          /\ c0 = c[0] /\ c1 = c[1] /\ c2 = c[2] /\ c3 = c[3] /\ c4 = c[4] /\ c5 = c[5] /\ c6 = c[6]
    BY <1>9, <1>11
  <2>2. Num(a) = a0 + B * (a1 + B * (a2 + B * a3)) /\ Num(b) = b0 + B * (b1 + B * (bb2 + B * b3))
    BY <1>1, <1>3, <1>4 DEF Num, Four
  <2>3. Num(a) * Num(b) = c0 + B * (c1 + B * (c2 + B * (c3 + B * (c4 + B * (c5 + B * c6)))))
    <3>1. a0 \in Nat /\ a1 \in Nat /\ a2 \in Nat /\ a3 \in Nat /\ b0 \in Nat /\ b1 \in Nat /\ bb2 \in Nat /\ b3 \in Nat
      BY SMT
    <3>2. (a0 + B * (a1 + B * (a2 + B * a3))) * (b0 + B * (b1 + B * (bb2 + B * b3)))
            = a0 * b0 + B * ((a0 * b1 + a1 * b0) + B * ((a0 * bb2 + a1 * b1 + a2 * b0)
                + B * ((a0 * b3 + a1 * bb2 + a2 * b1 + a3 * b0)
                + B * ((a1 * b3 + a2 * bb2 + a3 * b1) + B * ((a2 * b3 + a3 * bb2) + B * (a3 * b3))))))
      BY ONLY B \in Nat, <3>1, SMT
    <3> QED
      BY <1>7, <2>1, <2>2, <3>2
  <2>4. /\ c0 = d0 + B * f0 /\ f0 + c1 = d1 + B * f1 /\ f1 + c2 = d2 + B * f2 /\ f2 + c3 = d3 + B * f3
        /\ f3 + c4 = d4 + B * f4 /\ f4 + c5 = d5 + B * f5 /\ f5 + c6 = d6 + B * f6
    <3>1. 0 + c0 = c0
      BY SMT
    <3> QED
      BY <1>20, <1>21, <1>22, <1>23, <1>24, <1>25, <1>26, <2>1, <3>1
  <2>5. Four(d0, d1, d2, d3, B) + Top * Four(d4, d5, d6, f6, B)
          = d0 + B * (d1 + B * (d2 + B * (d3 + B * (d4 + B * (d5 + B * (d6 + B * f6))))))
    <3>1. PICK h \in Nat : h = d4 + B * (d5 + B * (d6 + B * f6))
      BY SMT
    <3>2. /\ Four(d4, d5, d6, f6, B) = h /\ Top = B * (B * (B * B))
          /\ Four(d0, d1, d2, d3, B) = d0 + B * (d1 + B * (d2 + B * d3))
      BY <1>1, <3>1 DEF Four, Top
    <3>3. d0 \in Nat /\ d1 \in Nat /\ d2 \in Nat /\ d3 \in Nat
      BY SMT
    <3>4. d0 + B * (d1 + B * (d2 + B * d3)) + B * (B * (B * B)) * h
            = d0 + B * (d1 + B * (d2 + B * (d3 + B * h)))
      BY ONLY B \in Nat, h \in Nat, <3>3, SMT
    <3> QED
      BY <3>1, <3>2, <3>4
  <2>6. c5 + B * c6 + f4 = d5 + B * (d6 + B * f6)
    <3>1. B * c6 = B * (d6 + B * f6) - B * f5
      <4>1. c6 = (d6 + B * f6) - f5
        BY <2>4, SMT
      <4> QED
        BY <4>1, SMT
    <3>2. PICK x \in Nat, y \in Nat : x = B * (d6 + B * f6) /\ y = B * f5
      BY SMT
    <3> QED
      BY <2>4, <3>1, <3>2, SMT
  <2>7. PICK h6 \in Nat, g6 \in Nat : h6 = c5 + B * c6 /\ g6 = d5 + B * (d6 + B * f6) /\ h6 + f4 = g6
    BY <2>6, SMT
  <2>8. ASSUME NEW h \in Nat, NEW g \in Nat, NEW f \in Nat, NEW ff \in Nat, NEW x \in Nat, NEW d \in Nat,
               h + f = g, ff + x = d + B * f
        PROVE  (x + B * h) + ff = d + B * g
    BY <2>8, SMT
  <2>9. PICK h5 \in Nat, g5 \in Nat : h5 = c4 + B * h6 /\ g5 = d4 + B * g6 /\ h5 + f3 = g5
    <3>1. (c4 + B * h6) + f3 = d4 + B * g6
      BY <2>4, <2>7, <2>8
    <3> QED
      BY <3>1, SMT
  <2>10. PICK h4 \in Nat, g4 \in Nat : h4 = c3 + B * h5 /\ g4 = d3 + B * g5 /\ h4 + f2 = g4
    <3>1. (c3 + B * h5) + f2 = d3 + B * g5
      BY <2>4, <2>8, <2>9
    <3> QED
      BY <3>1, SMT
  <2>11. PICK h3 \in Nat, g3 \in Nat : h3 = c2 + B * h4 /\ g3 = d2 + B * g4 /\ h3 + f1 = g3
    <3>1. (c2 + B * h4) + f1 = d2 + B * g4
      BY <2>4, <2>8, <2>10
    <3> QED
      BY <3>1, SMT
  <2>12. PICK h2 \in Nat, g2 \in Nat : h2 = c1 + B * h3 /\ g2 = d1 + B * g3 /\ h2 + f0 = g2
    <3>1. (c1 + B * h3) + f0 = d1 + B * g3
      BY <2>4, <2>8, <2>11
    <3> QED
      BY <3>1, SMT
  <2>13. c0 + B * h2 = d0 + B * g2
    BY <2>4, <2>12, SMT
  <2> QED
    BY <2>3, <2>5, <2>7, <2>9, <2>10, <2>11, <2>12, <2>13
<1>31. f6 <= B - 1
  <2>1. PICK t \in Nat, x \in Nat, y \in Nat : t = Top /\ x = Num(a) /\ y = Num(b) /\ x < t /\ y < t
    BY OrderOf, NumType, NumBelowTop
  <2>2. PICK l \in Nat, h \in Nat : l = Four(d0, d1, d2, d3, B) /\ h = Four(d4, d5, d6, f6, B)
    BY FourType, SMT DEF Four
  <2>3. x * y = l + t * h
    BY <1>30, <2>1, <2>2
  <2>4. h < t
    <3>1. CASE h >= t
      <4>1. t * h >= t * t
        BY <3>1, SMT
      <4>2. x * y < t * t
        <5>1. x * y <= x * t /\ t > 0
          BY <2>1, SMT
        <5>2. x * t < t * t
          BY <2>1, <5>1, SMT
        <5> QED
          BY <5>1, <5>2, SMT
      <4>3. t * h \in Nat /\ t * t \in Nat /\ x * y \in Nat
        BY SMT
      <4> QED
        BY <2>3, <4>1, <4>2, <4>3, SMT
    <3> QED
      BY <3>1, SMT
  <2>5. CASE f6 >= B
    <3>1. B * f6 >= B * B /\ B * f6 \in Nat
      BY <2>5, SMT
    <3>2. PICK y3 \in Nat : y3 = d6 + B * f6 /\ y3 >= B * B
      BY <3>1, SMT
    <3>3. PICK y2 \in Nat : y2 = d5 + B * y3 /\ y2 >= B * (B * B)
      <4>1. B * y3 >= B * (B * B) /\ B * y3 \in Nat
        BY <3>2, SMT
      <4> QED
        BY <4>1, SMT
    <3>4. d4 + B * y2 >= B * (B * (B * B))
      <4>1. B * y2 >= B * (B * (B * B)) /\ B * y2 \in Nat
        BY <3>3, SMT
      <4> QED
        BY <4>1, SMT
    <3>5. h = d4 + B * y2 /\ t = B * (B * (B * B))
      BY <1>1, <2>1, <2>2, <3>2, <3>3 DEF Four, Top
    <3> QED
      BY <2>4, <3>4, <3>5, SMT
  <2> QED
    BY <2>5, SMT
<1>32. PICK v : /\ v[0] = 0 + c[0] /\ v[1] = f0 + c[1] /\ v[2] = f1 + c[2] /\ v[3] = f2 + c[3]
                /\ v[4] = f3 + c[4] /\ v[5] = f4 + c[5] /\ v[6] = f5 + c[6]
  <2> DEFINE v == [k \in 0 .. 6 |-> CASE k = 0 -> 0 + c[0] [] k = 1 -> f0 + c[1] [] k = 2 -> f1 + c[2]
                                     [] k = 3 -> f2 + c[3] [] k = 4 -> f3 + c[4] [] k = 5 -> f4 + c[5]
                                     [] k = 6 -> f5 + c[6]]
  <2>1. /\ v[0] = 0 + c[0] /\ v[1] = f0 + c[1] /\ v[2] = f1 + c[2] /\ v[3] = f2 + c[3]
        /\ v[4] = f3 + c[4] /\ v[5] = f4 + c[5] /\ v[6] = f5 + c[6]
    BY SMT
  <2> QED
    BY <2>1
<1>33. /\ v[0] % B = d0 /\ v[0] \div B = f0 /\ v[1] % B = d1 /\ v[1] \div B = f1
       /\ v[2] % B = d2 /\ v[2] \div B = f2 /\ v[3] % B = d3 /\ v[3] \div B = f3
       /\ v[4] % B = d4 /\ v[4] \div B = f4 /\ v[5] % B = d5 /\ v[5] \div B = f5
       /\ v[6] % B = d6 /\ v[6] \div B = f6
  BY <1>20, <1>21, <1>22, <1>23, <1>24, <1>25, <1>26, <1>32
<1>34. v[0] < 2^W * 2^W /\ v[6] < 2^W * 2^W
  <2>1. q < b2
    <3>1. q = b2 - 2 * B + 1
      BY <1>2, <1>5, SMT
    <3> QED
      BY <1>1, <3>1, SMT
  <2>2. 0 + a0 * b0 < b2
    BY <1>2, <1>8, <2>1, SMT
  <2>3. d6 + B * f6 < b2
    <3>1. d6 + B * f6 < 0 + B * B
      BY <1>31, DigitLess, SMT
    <3> QED
      BY <1>2, <3>1, SMT
  <2> QED
    BY <1>1, <1>2, <1>7, <1>26, <1>32, <2>2, <2>3
<1>35. \A k \in 0 .. 6 : /\ v[k] \in Nat /\ Fits(v[k], k \in {0, 6})
                         /\ v[k] = (IF k = 0 THEN 0 ELSE v[k - 1] \div 2^W) + c[k]
  <2>1. \A k \in 0 .. 6 : k = 0 \/ k = 1 \/ k = 2 \/ k = 3 \/ k = 4 \/ k = 5 \/ k = 6
    BY SMT
  <2>2. 1 - 1 = 0 /\ 2 - 1 = 1 /\ 3 - 1 = 2 /\ 4 - 1 = 3 /\ 5 - 1 = 4 /\ 6 - 1 = 5
    BY SMT
  <2>3. ~(1 \in {0, 6}) /\ ~(2 \in {0, 6}) /\ ~(3 \in {0, 6}) /\ ~(4 \in {0, 6}) /\ ~(5 \in {0, 6})
    BY SMT
  <2>4. 1 # 0 /\ 2 # 0 /\ 3 # 0 /\ 4 # 0 /\ 5 # 0 /\ 6 # 0
    BY SMT
  <2>5. \A k \in 0 .. 6 : v[k] \in Nat /\ v[k] < AccBound(W)
    <3>1. v[0] \in Nat /\ v[0] < AccBound(W) /\ v[1] \in Nat /\ v[1] < AccBound(W)
      BY <1>20, <1>21, <1>32
    <3>2. v[2] \in Nat /\ v[2] < AccBound(W) /\ v[3] \in Nat /\ v[3] < AccBound(W)
      BY <1>22, <1>23, <1>32
    <3>3. v[4] \in Nat /\ v[4] < AccBound(W) /\ v[5] \in Nat /\ v[5] < AccBound(W)
      BY <1>24, <1>25, <1>32
    <3>4. v[6] \in Nat /\ v[6] < AccBound(W)
      BY <1>26, <1>32
    <3> QED
      BY <2>1, <3>1, <3>2, <3>3, <3>4
  <2>6. \A k \in 0 .. 6 : Fits(v[k], k \in {0, 6})
    BY <1>34, <2>1, <2>3, <2>5 DEF Fits
  <2>7. \A k \in 0 .. 6 : v[k] = (IF k = 0 THEN 0 ELSE v[k - 1] \div B) + c[k]
    BY <1>32, <1>33, <2>1, <2>2, <2>4
  <2> QED
    BY <1>1, <2>5, <2>6, <2>7
<1>36. PICK l : l = WordsTaken(v)
  OBVIOUS
<1>37. /\ l[0] = d0 /\ l[1] = d1 /\ l[2] = d2 /\ l[3] = d3 /\ l[4] = d4 /\ l[5] = d5 /\ l[6] = d6 /\ l[7] = f6
       /\ l = [i \in 0 .. 7 |-> l[i]]
  <2>1. l = [i \in 0 .. 7 |-> IF i <= 6 THEN v[i] % B ELSE v[6] \div B]
    BY <1>1, <1>36 DEF WordsTaken
  <2>2. /\ l[0] = v[0] % B /\ l[1] = v[1] % B /\ l[2] = v[2] % B /\ l[3] = v[3] % B /\ l[4] = v[4] % B
        /\ l[5] = v[5] % B /\ l[6] = v[6] % B /\ l[7] = v[6] \div B
    BY <2>1, SMT
  <2>3. l = [i \in 0 .. 7 |-> l[i]]
    BY <2>1
  <2> QED
    BY <1>33, <2>2, <2>3
<1>38. l \in [0 .. 7 -> Word(W)]
  <2>1. \A i \in 0 .. 7 : i = 0 \/ i = 1 \/ i = 2 \/ i = 3 \/ i = 4 \/ i = 5 \/ i = 6 \/ i = 7
    BY SMT
  <2>2. f6 \in 0 .. B - 1
    BY <1>31, SMT
  <2>3. \A i \in 0 .. 7 : l[i] \in 0 .. B - 1
    BY <1>37, <2>1, <2>2
  <2> QED
    BY <1>1, <1>37, <2>3 DEF Word
<1>39. Num(l) = Four(d0, d1, d2, d3, B) /\ Num(Upper(l)) = Four(d4, d5, d6, f6, B)
  <2>1. Upper(l)[0] = l[4] /\ Upper(l)[1] = l[5] /\ Upper(l)[2] = l[6] /\ Upper(l)[3] = l[7]
    BY SMT DEF Upper, Idx, N
  <2> QED
    BY <1>1, <1>37, <2>1 DEF Num
<1> QED
  BY <1>30, <1>35, <1>36, <1>38, <1>39

(* Columns whose macros add these sums give the words of the product.       *)
Summing(cols, c) ==
    \A k \in 0 .. 6 : \A s, e :
        e \in Nat /\ Holds(s, e) /\ Fits(e + c[k], k \in {0, 6})
            => Holds(AfterColumn(s, cols[k], W), e + c[k])
LEMMA FullProductExact ==
  ASSUME Sizes, NEW a, WordsOf(a), NEW b, WordsOf(b), NEW cols, Summing(cols, ColumnSums(a, b)),
         NEW r, r = ProductWords(cols)
  PROVE  /\ r.ok /\ r.l \in [0 .. 7 -> Word(W)]
         /\ Num(r.l) + Top * Num(Upper(r.l)) = Num(a) * Num(b)
<1>1. PICK B \in Nat : B = 2^W /\ B >= 8
  BY SizesOf
<1>2. PICK c : c = ColumnSums(a, b)
  OBVIOUS
<1>3. PICK v : /\ \A k \in 0 .. 6 : /\ v[k] \in Nat /\ Fits(v[k], k \in {0, 6})
                                    /\ v[k] = (IF k = 0 THEN 0 ELSE v[k - 1] \div 2^W) + c[k]
               /\ WordsTaken(v) \in [0 .. 7 -> Word(W)]
               /\ Num(WordsTaken(v)) + Top * Num(Upper(WordsTaken(v))) = Num(a) * Num(b)
  BY <1>2, FullChain
<1>4. AddUp(cols, 7, {0, 6}, v)
  <2>1. ASSUME NEW k \in 0 .. 6
        PROVE  /\ \A s : Holds(s, IF k = 0 THEN 0 ELSE v[k - 1] \div 2^W)
                           => Holds(AfterColumn(s, cols[k], W), v[k])
               /\ k \in {0, 6} => v[k] < 2^W * 2^W
    <3>1. PICK e : e = IF k = 0 THEN 0 ELSE v[k - 1] \div 2^W
      OBVIOUS
    <3>2. e \in Nat
      <4>1. CASE k = 0
        BY <3>1, <4>1
      <4>2. CASE k # 0
        <5>1. k - 1 \in 0 .. 6
          BY <4>2, SMT
        <5>2. PICK x \in Nat : x = v[k - 1]
          BY <1>3, <5>1
        <5>3. x \div B \in Nat
          BY <1>1, SMT
        <5> QED
          BY <1>1, <3>1, <4>2, <5>2, <5>3
      <4> QED
        BY <4>1, <4>2
    <3>3. v[k] = e + c[k] /\ Fits(v[k], k \in {0, 6})
      BY <1>3, <3>1
    <3>4. ASSUME NEW s, Holds(s, e) PROVE Holds(AfterColumn(s, cols[k], W), v[k])
      BY <1>2, <3>2, <3>3, <3>4 DEF Summing
    <3> QED
      BY <3>1, <3>3, <3>4 DEF Fits
  <2>2. 7 - 1 = 6
    BY SMT
  <2> QED
    BY <2>1, <2>2 DEF AddUp
<1>5. PICK z : z = AfterColumns(cols, 7, {0, 6}, W)
  OBVIOUS
<1>6. /\ Holds(z.acc, v[6] \div 2^W) /\ z.acc.c1 = 0 /\ z.acc.c0 = v[6] \div 2^W
      /\ z.d = [i \in 0 .. 7 |-> IF i <= 6 THEN v[i] % 2^W ELSE 0]
  <2>1. 7 \in 4 .. 7 /\ 7 - 1 = 6 /\ 6 \in {0, 6}
    BY SMT
  <2>2. PICK n, fast : n = 7 /\ fast = {0, 6}
    OBVIOUS
  <2>3. /\ n \in 4 .. 7 /\ n - 1 \in fast /\ AddUp(cols, n, fast, v) /\ z = AfterColumns(cols, n, fast, W)
    BY <1>4, <1>5, <2>1, <2>2
  <2>4. /\ Holds(z.acc, v[n - 1] \div 2^W) /\ z.acc.c1 = 0 /\ z.acc.c0 = v[n - 1] \div 2^W
        /\ z.d = [i \in 0 .. n |-> IF i <= n - 1 THEN v[i] % 2^W ELSE 0]
    BY ONLY Sizes, <2>3, ColumnsExact
  <2> QED
    BY <2>1, <2>2, <2>4
<1>7. r = [l |-> [z.d EXCEPT ![7] = z.acc.c0], ok |-> z.acc.ok /\ z.acc.c1 = 0]
  <2>1. 2 * 4 - 1 = 7 /\ 2 * 4 - 2 = 6
    BY SMT
  <2> QED
    BY <1>5, <2>1 DEF ProductWords, FullProduct, N
<1>8. r.l = WordsTaken(v)
  <2>1. r.l = [z.d EXCEPT ![7] = v[6] \div 2^W]
    BY <1>6, <1>7
  <2>2. r.l = [i \in 0 .. 7 |-> IF i = 7 THEN v[6] \div 2^W ELSE IF i <= 6 THEN v[i] % 2^W ELSE 0]
    BY <1>6, <2>1
  <2>3. \A i \in 0 .. 7 : (i = 7 /\ ~(i <= 6)) \/ (i # 7 /\ i <= 6)
    BY SMT
  <2> QED
    BY <2>2, <2>3 DEF WordsTaken
<1>9. r.ok
  <2>1. r.ok = (z.acc.ok /\ z.acc.c1 = 0)
    BY <1>7
  <2> QED
    BY <1>6, <2>1 DEF Holds
<1> QED
  BY <1>3, <1>8, <1>9

(* The eight words of a product are exact: no VERIFY_CHECK of the macros    *)
(* fails in any column, and none of the carries is lost:                    *)
(* secp256k1_scalar_mul_512.                                                *)
THEOREM MulWordsExact ==
  ASSUME Sizes, NEW a, WordsOf(a), NEW b, WordsOf(b)
  PROVE  LET r == scalar_mul_512(a, b)
         IN  /\ r.ok /\ r.l \in [0 .. 7 -> Word(W)]
             /\ Num(r.l) + Top * Num(Upper(r.l)) = Num(a) * Num(b)
<1>1. PICK cols : cols = [k \in 0 .. 6 |-> MulColumn(a, b, k)]
  OBVIOUS
<1>2. Summing(cols, ColumnSums(a, b))
  <2>1. PICK c : c = ColumnSums(a, b)
    OBVIOUS
  <2>2. ASSUME NEW k \in 0 .. 6, NEW s, NEW e, e \in Nat, Holds(s, e), Fits(e + c[k], k \in {0, 6})
        PROVE  Holds(AfterColumn(s, cols[k], W), e + c[k])
    <3>1. Holds(AfterColumn(s, MulColumn(a, b, k), W), e + c[k])
      BY <2>1, <2>2, MulColumnAdds
    <3> QED
      BY <1>1, <3>1
  <2> QED
    BY <2>1, <2>2 DEF Summing
<1>3. PICK r : r = ProductWords(cols)
  OBVIOUS
<1>4. scalar_mul_512(a, b) = r
  <2>1. 2 * 4 - 2 = 6
    BY SMT
  <2> QED
    BY <1>1, <1>3, <2>1 DEF scalar_mul_512, N
<1>5. /\ r.ok /\ r.l \in [0 .. 7 -> Word(W)]
      /\ Num(r.l) + Top * Num(Upper(r.l)) = Num(a) * Num(b)
  BY <1>2, <1>3, FullProductExact
<1> QED
  BY <1>4, <1>5

(* The same for a square, whose columns take every product of two words     *)
(* only once, doubled: secp256k1_scalar_sqr_512.                            *)
THEOREM SqrWordsExact ==
  ASSUME Sizes, NEW a, WordsOf(a)
  PROVE  LET r == scalar_sqr_512(a)
         IN  /\ r.ok /\ r.l \in [0 .. 7 -> Word(W)]
             /\ Num(r.l) + Top * Num(Upper(r.l)) = Num(a) * Num(a)
<1>1. PICK cols : cols = [k \in 0 .. 6 |-> SqrColumn(a, k)]
  OBVIOUS
<1>2. Summing(cols, ColumnSums(a, a))
  <2>1. PICK c : c = ColumnSums(a, a)
    OBVIOUS
  <2>2. ASSUME NEW k \in 0 .. 6, NEW s, NEW e, e \in Nat, Holds(s, e), Fits(e + c[k], k \in {0, 6})
        PROVE  Holds(AfterColumn(s, cols[k], W), e + c[k])
    <3>1. Holds(AfterColumn(s, SqrColumn(a, k), W), e + c[k])
      BY <2>1, <2>2, SqrColumnAdds
    <3> QED
      BY <1>1, <3>1
  <2> QED
    BY <2>1, <2>2 DEF Summing
<1>3. PICK r : r = ProductWords(cols)
  OBVIOUS
<1>4. scalar_sqr_512(a) = r
  <2>1. 2 * 4 - 2 = 6
    BY SMT
  <2> QED
    BY <1>1, <1>3, <2>1 DEF scalar_sqr_512, N
<1>5. /\ r.ok /\ r.l \in [0 .. 7 -> Word(W)]
      /\ Num(r.l) + Top * Num(Upper(r.l)) = Num(a) * Num(a)
  BY <1>2, <1>3, FullProductExact
<1> QED
  BY <1>4, <1>5

-----------------------------------------------------------------------------
(* Folding eight words: the upper four times what the order lacks.          *)
LEMMA FoldColumns512 ==
  ASSUME NEW l
  PROVE  /\ FoldColumn512(l, 0) = << <<"set", l[0]>> >> \o << <<"muladd_fast", NC0, l[4]>> >>
         /\ FoldColumn512(l, 1) = << <<"sumadd_fast", l[1]>> >>
                                    \o << <<"muladd", NC0, l[5]>>, <<"muladd", NC1, l[4]>> >>
         /\ FoldColumn512(l, 2) = (<< <<"sumadd", l[2]>> >>
                                    \o << <<"muladd", NC0, l[6]>>, <<"muladd", NC1, l[5]>> >>)
                                    \o << <<"sumadd", l[4]>> >>
         /\ FoldColumn512(l, 3) = (<< <<"sumadd", l[3]>> >>
                                    \o << <<"muladd", NC0, l[7]>>, <<"muladd", NC1, l[6]>> >>)
                                    \o << <<"sumadd", l[5]>> >>
         /\ FoldColumn512(l, 4) = << <<"muladd", NC1, l[7]>> >> \o << <<"sumadd", l[6]>> >>
         /\ FoldColumn512(l, 5) = << <<"sumadd_fast", l[7]>> >>
<1>1. PICK h, n : h = [i \in Idx |-> l[N + i]] /\ n = N_C
  OBVIOUS
<1>2. h[0] = l[4] /\ h[1] = l[5] /\ h[2] = l[6] /\ h[3] = l[7] /\ n[0] = NC0 /\ n[1] = NC1
  BY <1>1, SMT DEF Idx, N, N_C, Half
<1>3. /\ Lo(0, 4) = 0 /\ Lo(1, 4) = 0 /\ Lo(2, 4) = 0 /\ Lo(3, 4) = 0 /\ Lo(4, 4) = 1 /\ Lo(5, 4) = 2
  BY SMT DEF Lo
<1>4. /\ Products("muladd_fast", n, h, 0, 0, 0) = << <<"muladd_fast", n[0], h[0]>> >>
      /\ Products("muladd", n, h, 4, 1, 1) = << <<"muladd", n[1], h[3]>> >>
      /\ Products("muladd", n, h, 5, 2, 1) = <<>>
  <2>1. Products("muladd_fast", n, h, 0, 0, 0) = << <<"muladd_fast", n[0], h[0]>> >>
    BY SMT DEF Products
  <2>2. Products("muladd", n, h, 4, 1, 1) = << <<"muladd", n[1], h[3]>> >>
    BY SMT DEF Products
  <2>3. Products("muladd", n, h, 5, 2, 1) = <<>>
    BY SMT DEF Products
  <2> QED
    BY <2>1, <2>2, <2>3
<1>5. Products("muladd", n, h, 1, 0, 1) = << <<"muladd", n[0], h[1]>>, <<"muladd", n[1], h[0]>> >>
  BY SMT DEF Products
<1>6. Products("muladd", n, h, 2, 0, 1) = << <<"muladd", n[0], h[2]>>, <<"muladd", n[1], h[1]>> >>
  BY SMT DEF Products
<1>7. Products("muladd", n, h, 3, 0, 1) = << <<"muladd", n[0], h[3]>>, <<"muladd", n[1], h[2]>> >>
  BY SMT DEF Products
<1>8. /\ 1 # 0 /\ 2 # 0 /\ 3 # 0 /\ 4 # 0 /\ 5 # 0 /\ 2 # 1 /\ 3 # 1 /\ 4 # 1 /\ 5 # 1
      /\ 0 < 2 /\ 1 < 2 /\ ~(2 < 2) /\ ~(3 < 2) /\ ~(4 < 2) /\ ~(5 < 2)
      /\ 2 < 4 /\ 3 < 4 /\ ~(4 < 4) /\ ~(5 < 4)
      /\ 2 - 1 = 1 /\ 4 + 2 - 1 = 5 /\ 2 # 5 /\ 3 # 5 /\ 4 # 5
      /\ 4 + 2 - 2 = 4 /\ 4 + 3 - 2 = 5 /\ 4 + 4 - 2 = 6 /\ 4 + 5 - 2 = 7
  BY SMT
<1>9. ASSUME NEW x, NEW y
      PROVE  /\ (<<x>> \o <<y>>) \o <<>> = <<x>> \o <<y>> /\ (<<>> \o <<x>>) \o <<y>> = <<x>> \o <<y>>
             /\ (<<>> \o <<>>) \o <<x>> = <<x>>
  <2>1. PICK S : x \in S /\ y \in S
    <3>1. x \in {x, y} /\ y \in {x, y}
      OBVIOUS
    <3> QED
      BY <3>1
  <2>2. <<x>> \in Seq(S) /\ <<y>> \in Seq(S)
    BY <2>1
  <2>3. <<x>> \o <<y>> \in Seq(S)
    BY <2>2
  <2>4. \A s \in Seq(S) : s \o <<>> = s /\ <<>> \o s = s
    BY SMT
  <2>5. <<>> \in Seq(S)
    BY SMT
  <2> QED
    BY <2>2, <2>3, <2>4, <2>5
<1>10. ASSUME NEW x, NEW y, NEW z PROVE (<<x>> \o <<y, z>>) \o <<>> = <<x>> \o <<y, z>>
  <2>1. PICK S : x \in S /\ y \in S /\ z \in S
    <3>1. x \in {x, y, z} /\ y \in {x, y, z} /\ z \in {x, y, z}
      OBVIOUS
    <3> QED
      BY <3>1
  <2>2. <<x>> \in Seq(S) /\ <<y, z>> \in Seq(S)
    BY <2>1
  <2>3. <<x>> \o <<y, z>> \in Seq(S)
    BY <2>2
  <2>4. \A s \in Seq(S) : s \o <<>> = s
    BY SMT
  <2> QED
    BY <2>3, <2>4
<1>20. FoldColumn512(l, 0) = << <<"set", l[0]>> >> \o << <<"muladd_fast", NC0, l[4]>> >>
  <2>1. PICK x, y : x = <<"set", l[0]>> /\ y = <<"muladd_fast", NC0, l[4]>>
    OBVIOUS
  <2>2. FoldColumn512(l, 0) = (<< <<"set", l[0]>> >> \o Products("muladd_fast", n, h, 0, 0, 0)) \o <<>>
    BY <1>1, <1>3, <1>8 DEF FoldColumn512, N, Half
  <2>3. FoldColumn512(l, 0) = (<<x>> \o <<y>>) \o <<>>
    BY <1>2, <1>4, <2>1, <2>2
  <2>4. FoldColumn512(l, 0) = <<x>> \o <<y>>
    BY <1>9, <2>3
  <2> QED
    BY <2>1, <2>4
<1>21. FoldColumn512(l, 1) = << <<"sumadd_fast", l[1]>> >>
                               \o << <<"muladd", NC0, l[5]>>, <<"muladd", NC1, l[4]>> >>
  <2>1. PICK x, y, z : x = <<"sumadd_fast", l[1]>> /\ y = <<"muladd", NC0, l[5]>> /\ z = <<"muladd", NC1, l[4]>>
    OBVIOUS
  <2>2. FoldColumn512(l, 1) = (<< <<"sumadd_fast", l[1]>> >> \o Products("muladd", n, h, 1, 0, 1)) \o <<>>
    BY <1>1, <1>3, <1>8 DEF FoldColumn512, N, Half
  <2>3. FoldColumn512(l, 1) = (<<x>> \o <<y, z>>) \o <<>>
    BY <1>2, <1>5, <2>1, <2>2
  <2>4. FoldColumn512(l, 1) = <<x>> \o <<y, z>>
    BY <1>10, <2>3
  <2> QED
    BY <2>1, <2>4
<1>22. FoldColumn512(l, 2) = (<< <<"sumadd", l[2]>> >>
                               \o << <<"muladd", NC0, l[6]>>, <<"muladd", NC1, l[5]>> >>)
                               \o << <<"sumadd", l[4]>> >>
  <2>1. FoldColumn512(l, 2) = (<< <<"sumadd", l[2]>> >> \o Products("muladd", n, h, 2, 0, 1))
                                \o << <<"sumadd", l[4]>> >>
    BY <1>1, <1>3, <1>8 DEF FoldColumn512, N, Half
  <2> QED
    BY <1>2, <1>6, <2>1
<1>23. FoldColumn512(l, 3) = (<< <<"sumadd", l[3]>> >>
                               \o << <<"muladd", NC0, l[7]>>, <<"muladd", NC1, l[6]>> >>)
                               \o << <<"sumadd", l[5]>> >>
  <2>1. FoldColumn512(l, 3) = (<< <<"sumadd", l[3]>> >> \o Products("muladd", n, h, 3, 0, 1))
                                \o << <<"sumadd", l[5]>> >>
    BY <1>1, <1>3, <1>8 DEF FoldColumn512, N, Half
  <2> QED
    BY <1>2, <1>7, <2>1
<1>24. FoldColumn512(l, 4) = << <<"muladd", NC1, l[7]>> >> \o << <<"sumadd", l[6]>> >>
  <2>1. FoldColumn512(l, 4) = (<<>> \o Products("muladd", n, h, 4, 1, 1)) \o << <<"sumadd", l[6]>> >>
    BY <1>1, <1>3, <1>8 DEF FoldColumn512, N, Half
  <2> QED
    BY <1>2, <1>4, <1>9, <2>1
<1>25. FoldColumn512(l, 5) = << <<"sumadd_fast", l[7]>> >>
  <2>1. FoldColumn512(l, 5) = (<<>> \o Products("muladd", n, h, 5, 2, 1)) \o << <<"sumadd_fast", l[7]>> >>
    BY <1>1, <1>3, <1>8 DEF FoldColumn512, N, Half
  <2> QED
    BY <1>4, <1>9, <2>1
<1> QED
  BY <1>20, <1>21, <1>22, <1>23, <1>24, <1>25

FoldSums512(l) ==
    [k \in 0 .. 5 |->
        CASE k = 0 -> l[0] + NC0 * l[4]
          [] k = 1 -> l[1] + NC0 * l[5] + NC1 * l[4]
          [] k = 2 -> l[2] + NC0 * l[6] + NC1 * l[5] + l[4]
          [] k = 3 -> l[3] + NC0 * l[7] + NC1 * l[6] + l[5]
          [] k = 4 -> NC1 * l[7] + l[6]
          [] k = 5 -> l[7]]

LEMMA FoldAdds512 ==
  ASSUME Sizes, NEW l, l \in [0 .. 7 -> Word(W)], NEW c, c = FoldSums512(l),
         NEW k \in 0 .. 5, NEW s, NEW e \in Nat, Holds(s, e), Fits(e + c[k], k \in {0, 5}),
         k = 0 => e = 0, k = 1 => e + l[1] < 2^W * 2^W
  PROVE  Holds(AfterColumn(s, FoldColumn512(l, k), W), e + c[k])
<1>1. PICK B \in Nat : B = 2^W
  BY SizesOf
<1>2. PICK R \in Nat : R = AccBound(W)
  BY <1>1, SMT DEF AccBound
<1>3. PICK l0 \in Word(W), l1 \in Word(W), l2 \in Word(W), l3 \in Word(W) :
          l0 = l[0] /\ l1 = l[1] /\ l2 = l[2] /\ l3 = l[3]
  BY SMT
<1>4. PICK l4 \in Word(W), l5 \in Word(W), l6 \in Word(W), l7 \in Word(W) :
          l4 = l[4] /\ l5 = l[5] /\ l6 = l[6] /\ l7 = l[7]
  BY SMT
<1>5. NC0 \in Word(W) /\ NC1 \in Word(W)
  BY SizesOf, SMT DEF Word
<1>6. /\ c[0] = l0 + NC0 * l4
      /\ c[1] = l1 + NC0 * l5 + NC1 * l4
      /\ c[2] = l2 + NC0 * l6 + NC1 * l5 + l4
      /\ c[3] = l3 + NC0 * l7 + NC1 * l6 + l5
      /\ c[4] = NC1 * l7 + l6
      /\ c[5] = l7
  BY <1>3, <1>4, SMT DEF FoldSums512
<1>7. ASSUME NEW x \in Word(W), NEW y \in Word(W) PROVE x * y \in Nat
  BY <1>1, <1>7, SMT DEF Word
<1>8. ASSUME NEW x \in Word(W) PROVE x \in Nat
  BY <1>1, <1>8, SMT DEF Word
<1>9. ASSUME NEW x \in Word(W), NEW y \in Word(W), NEW v, v + x * y < R
      PROVE  Adds(<<"muladd", x, y>>, x * y, v)
  BY <1>2, <1>9, AddsOf
<1>10. ASSUME NEW x \in Word(W), NEW v, v + x < R PROVE Adds(<<"sumadd", x>>, x, v)
  BY <1>2, <1>5, <1>10, AddsOf
<1>11. ASSUME NEW x \in Word(W), NEW v, v + x < 2^W * 2^W PROVE Adds(<<"sumadd_fast", x>>, x, v)
  BY <1>5, <1>11, AddsOf
<1>12. e + c[k] < R
  BY <1>2 DEF Fits
<1>20. CASE k = 0
  <2>1. PICK m \in Nat : m = NC0 * l4
    BY <1>5, <1>7
  <2>2. e = 0 /\ e + l0 + m < 2^W * 2^W
    <3>1. e + c[k] = e + l0 + m
      BY <1>6, <1>8, <1>20, <2>1, SMT
    <3> QED
      BY <1>20, <3>1 DEF Fits
  <2>3. Adds(<<"set", l0>>, l0, e) /\ Adds(<<"muladd_fast", NC0, l4>>, m, e + l0)
    BY <1>5, <2>1, <2>2, AddsOf
  <2>4. PICK t : t = << <<"set", l0>> >> \o << <<"muladd_fast", NC0, l4>> >>
    OBVIOUS
  <2>5. Len(t) = 2 /\ t[1] = <<"set", l0>> /\ t[2] = <<"muladd_fast", NC0, l4>>
    BY <2>4, AppendedTwo
  <2>6. Holds(AfterColumn(s, t, W), e + l0 + m)
    BY <2>3, <2>5, ColumnTwo
  <2>7. FoldColumn512(l, k) = t
    BY <1>3, <1>4, <1>20, <2>4, FoldColumns512
  <2>8. e + c[k] = e + l0 + m
    BY <1>6, <1>8, <1>20, <2>1, SMT
  <2> QED
    BY <2>6, <2>7, <2>8
<1>21. CASE k = 1
  <2>1. PICK m \in Nat, n \in Nat : m = NC0 * l5 /\ n = NC1 * l4
    BY <1>5, <1>7
  <2>2. l1 \in Nat
    BY <1>8
  <2>3. e + c[k] = e + l1 + m + n
    BY <1>6, <1>21, <2>1, <2>2, SMT
  <2>4. e + l1 + m + n < R /\ e + l1 + m < R /\ e + l1 < 2^W * 2^W
    BY <1>3, <1>12, <1>21, <2>1, <2>2, <2>3, SMT
  <2>5. /\ Adds(<<"sumadd_fast", l1>>, l1, e) /\ Adds(<<"muladd", NC0, l5>>, m, e + l1)
        /\ Adds(<<"muladd", NC1, l4>>, n, e + l1 + m)
    BY <1>5, <1>9, <1>11, <2>1, <2>4
  <2>6. PICK t : t = << <<"sumadd_fast", l1>> >> \o << <<"muladd", NC0, l5>>, <<"muladd", NC1, l4>> >>
    OBVIOUS
  <2>7. /\ Len(t) = 3 /\ t[1] = <<"sumadd_fast", l1>> /\ t[2] = <<"muladd", NC0, l5>>
        /\ t[3] = <<"muladd", NC1, l4>>
    BY <2>6, AppendedThree
  <2>8. Holds(AfterColumn(s, t, W), e + l1 + m + n)
    BY <2>5, <2>7, ColumnThree
  <2>9. FoldColumn512(l, k) = t
    BY <1>3, <1>4, <1>21, <2>6, FoldColumns512
  <2> QED
    BY <2>3, <2>8, <2>9
<1>22. CASE k = 2
  <2>1. PICK m \in Nat, n \in Nat : m = NC0 * l6 /\ n = NC1 * l5
    BY <1>5, <1>7
  <2>2. l2 \in Nat /\ l4 \in Nat
    BY <1>8
  <2>3. e + c[k] = e + l2 + m + n + l4
    BY <1>6, <1>22, <2>1, <2>2, SMT
  <2>4. e + l2 + m + n + l4 < R /\ e + l2 + m + n < R /\ e + l2 + m < R /\ e + l2 < R
    BY <1>12, <2>1, <2>2, <2>3, SMT
  <2>5. /\ Adds(<<"sumadd", l2>>, l2, e) /\ Adds(<<"muladd", NC0, l6>>, m, e + l2)
        /\ Adds(<<"muladd", NC1, l5>>, n, e + l2 + m) /\ Adds(<<"sumadd", l4>>, l4, e + l2 + m + n)
    BY <1>5, <1>9, <1>10, <2>1, <2>4
  <2>6. PICK t : t = (<< <<"sumadd", l2>> >> \o << <<"muladd", NC0, l6>>, <<"muladd", NC1, l5>> >>)
                       \o << <<"sumadd", l4>> >>
    OBVIOUS
  <2>7. /\ Len(t) = 4 /\ t[1] = <<"sumadd", l2>> /\ t[2] = <<"muladd", NC0, l6>>
        /\ t[3] = <<"muladd", NC1, l5>> /\ t[4] = <<"sumadd", l4>>
    BY <2>6, AppendedFour
  <2>8. Holds(AfterColumn(s, t, W), e + l2 + m + n + l4)
    BY <2>5, <2>7, ColumnFour
  <2>9. FoldColumn512(l, k) = t
    BY <1>3, <1>4, <1>22, <2>6, FoldColumns512
  <2> QED
    BY <2>3, <2>8, <2>9
<1>23. CASE k = 3
  <2>1. PICK m \in Nat, n \in Nat : m = NC0 * l7 /\ n = NC1 * l6
    BY <1>5, <1>7
  <2>2. l3 \in Nat /\ l5 \in Nat
    BY <1>8
  <2>3. e + c[k] = e + l3 + m + n + l5
    BY <1>6, <1>23, <2>1, <2>2, SMT
  <2>4. e + l3 + m + n + l5 < R /\ e + l3 + m + n < R /\ e + l3 + m < R /\ e + l3 < R
    BY <1>12, <2>1, <2>2, <2>3, SMT
  <2>5. /\ Adds(<<"sumadd", l3>>, l3, e) /\ Adds(<<"muladd", NC0, l7>>, m, e + l3)
        /\ Adds(<<"muladd", NC1, l6>>, n, e + l3 + m) /\ Adds(<<"sumadd", l5>>, l5, e + l3 + m + n)
    BY <1>5, <1>9, <1>10, <2>1, <2>4
  <2>6. PICK t : t = (<< <<"sumadd", l3>> >> \o << <<"muladd", NC0, l7>>, <<"muladd", NC1, l6>> >>)
                       \o << <<"sumadd", l5>> >>
    OBVIOUS
  <2>7. /\ Len(t) = 4 /\ t[1] = <<"sumadd", l3>> /\ t[2] = <<"muladd", NC0, l7>>
        /\ t[3] = <<"muladd", NC1, l6>> /\ t[4] = <<"sumadd", l5>>
    BY <2>6, AppendedFour
  <2>8. Holds(AfterColumn(s, t, W), e + l3 + m + n + l5)
    BY <2>5, <2>7, ColumnFour
  <2>9. FoldColumn512(l, k) = t
    BY <1>3, <1>4, <1>23, <2>6, FoldColumns512
  <2> QED
    BY <2>3, <2>8, <2>9
<1>24. CASE k = 4
  <2>1. PICK n \in Nat : n = NC1 * l7
    BY <1>5, <1>7
  <2>2. l6 \in Nat
    BY <1>8
  <2>3. e + c[k] = e + n + l6
    BY <1>6, <1>24, <2>1, <2>2, SMT
  <2>4. e + n + l6 < R /\ e + n < R
    BY <1>12, <2>1, <2>2, <2>3, SMT
  <2>5. Adds(<<"muladd", NC1, l7>>, n, e) /\ Adds(<<"sumadd", l6>>, l6, e + n)
    BY <1>5, <1>9, <1>10, <2>1, <2>4
  <2>6. PICK t : t = << <<"muladd", NC1, l7>> >> \o << <<"sumadd", l6>> >>
    OBVIOUS
  <2>7. Len(t) = 2 /\ t[1] = <<"muladd", NC1, l7>> /\ t[2] = <<"sumadd", l6>>
    BY <2>6, AppendedTwo
  <2>8. Holds(AfterColumn(s, t, W), e + n + l6)
    BY <2>5, <2>7, ColumnTwo
  <2>9. FoldColumn512(l, k) = t
    BY <1>3, <1>4, <1>24, <2>6, FoldColumns512
  <2> QED
    BY <2>3, <2>8, <2>9
<1>25. CASE k = 5
  <2>1. e + l7 < 2^W * 2^W /\ c[k] = l7
    BY <1>6, <1>25 DEF Fits
  <2>2. Adds(<<"sumadd_fast", l7>>, l7, e)
    BY <1>11, <2>1
  <2>3. PICK t : t = << <<"sumadd_fast", l7>> >>
    OBVIOUS
  <2>4. Len(t) = 1 /\ t[1] = <<"sumadd_fast", l7>>
    BY <2>3
  <2>5. Holds(AfterColumn(s, t, W), e + l7)
    BY <2>2, <2>4, ColumnOne
  <2>6. FoldColumn512(l, k) = t
    BY <1>4, <1>25, <2>3, FoldColumns512
  <2> QED
    BY <2>1, <2>5, <2>6
<1>26. k = 0 \/ k = 1 \/ k = 2 \/ k = 3 \/ k = 4 \/ k = 5
  BY SMT
<1> QED
  BY <1>20, <1>21, <1>22, <1>23, <1>24, <1>25, <1>26

Words512(v) == [i \in 0 .. 6 |-> IF i <= 5 THEN v[i] % 2^W ELSE v[5] \div 2^W]
Upper512(m) == m[4] + 2^W * (m[5] + 2^W * m[6])
LEMMA FoldChain512 ==
  ASSUME Sizes, NEW l, l \in [0 .. 7 -> Word(W)], NEW c, c = FoldSums512(l)
  PROVE  \E v : /\ \A k \in 0 .. 5 : /\ v[k] \in Nat /\ Fits(v[k], k \in {0, 5})
                                     /\ v[k] = (IF k = 0 THEN 0 ELSE v[k - 1] \div 2^W) + c[k]
                /\ v[0] \div 2^W + l[1] < 2^W * 2^W
                /\ v[5] \div 2^W <= 1 /\ Words512(v) \in [0 .. 6 -> Word(W)]
                /\ Num(Words512(v)) + Top * Upper512(Words512(v)) = Num(l) + Excess * Num(Upper(l))
<1>1. PICK B \in Nat : B = 2^W /\ B >= 8 /\ NC0 \in 1 .. B - 1 /\ NC1 \in 0 .. B - 1 /\ 3 * NC1 + 3 <= B
  BY SizesOf
<1>2. PICK b2 \in Nat : b2 = B * B
  BY SMT
<1>3. PICK l0 \in 0 .. B - 1, l1 \in 0 .. B - 1, l2 \in 0 .. B - 1, l3 \in 0 .. B - 1 :
          l0 = l[0] /\ l1 = l[1] /\ l2 = l[2] /\ l3 = l[3]
  BY <1>1, SMT DEF Word
<1>4. PICK h0 \in 0 .. B - 1, h1 \in 0 .. B - 1, h2 \in 0 .. B - 1, h3 \in 0 .. B - 1 :
          h0 = l[4] /\ h1 = l[5] /\ h2 = l[6] /\ h3 = l[7]
  BY <1>1, SMT DEF Word
<1>5. PICK q \in Nat : q = (B - 1) * (B - 1) /\ B - 1 <= q
  <2>1. (B - 1) * (B - 1) >= 1 * (B - 1)
    BY <1>1, SMT
  <2> QED
    BY <1>1, <2>1, SMT
<1>6. ASSUME NEW x \in 0 .. B - 1, NEW y \in 0 .. B - 1 PROVE x * y \in 0 .. q
  <2>1. x * y \in Nat /\ x * y <= (B - 1) * (B - 1)
    BY <1>6, SMT
  <2> QED
    BY <1>5, <2>1, SMT
<1>e. PICK x0 \in 0 .. B - 1, x1 \in 0 .. B - 1 : x0 = NC0 /\ x1 = NC1
  BY <1>1, SMT
<1>7. /\ c[0] = l0 + x0 * h0
      /\ c[1] = l1 + x0 * h1 + x1 * h0
      /\ c[2] = l2 + x0 * h2 + x1 * h1 + h0
      /\ c[3] = l3 + x0 * h3 + x1 * h2 + h1
      /\ c[4] = x1 * h3 + h2
      /\ c[5] = h3
  BY <1>3, <1>4, <1>e, SMT DEF FoldSums512
<1>8. /\ x0 * h0 \in 0 .. q /\ x0 * h1 \in 0 .. q /\ x0 * h2 \in 0 .. q /\ x0 * h3 \in 0 .. q
      /\ x1 * h0 \in 0 .. q /\ x1 * h1 \in 0 .. q /\ x1 * h2 \in 0 .. q /\ x1 * h3 \in 0 .. q
  BY <1>6
<1>9. \A k \in 0 .. 5 : c[k] \in Nat /\ c[k] <= 4 * q
  <2>1. c[0] \in Nat /\ c[0] <= 4 * q /\ c[1] \in Nat /\ c[1] <= 4 * q
    BY <1>5, <1>7, <1>8, SMT
  <2>2. c[2] \in Nat /\ c[2] <= 4 * q /\ c[3] \in Nat /\ c[3] <= 4 * q
    BY <1>5, <1>7, <1>8, SMT
  <2>3. c[4] \in Nat /\ c[4] <= 4 * q /\ c[5] \in Nat /\ c[5] <= 4 * q
    BY <1>5, <1>7, <1>8, SMT
  <2>4. \A k \in 0 .. 5 : k = 0 \/ k = 1 \/ k = 2 \/ k = 3 \/ k = 4 \/ k = 5
    BY SMT
  <2> QED
    BY <2>1, <2>2, <2>3, <2>4
<1>10. ASSUME NEW e \in 0 .. 4 * B, NEW k \in 0 .. 5
       PROVE  \E d \in 0 .. B - 1, f \in 0 .. 4 * B :
                 /\ d = (e + c[k]) % B /\ f = (e + c[k]) \div B /\ e + c[k] = d + B * f
                 /\ e + c[k] \in Nat /\ e + c[k] < AccBound(W)
  <2>1. PICK x \in Nat : x = c[k] /\ x <= 4 * ((B - 1) * (B - 1))
    BY <1>5, <1>9
  <2>2. \E d \in 0 .. B - 1, f \in 0 .. 4 * B :
            d = (e + x) % B /\ f = (e + x) \div B /\ e + x = d + B * f /\ e + x < B * (B * B)
    <3>1. B \in Nat /\ B >= 8
      BY <1>1
    <3> QED
      BY ONLY <2>1, <3>1, e \in 0 .. 4 * B, ColumnStep
  <2>3. e + x \in Nat /\ AccBound(W) = B * (B * B)
    BY <1>1, SMT DEF AccBound
  <2> QED
    BY <2>1, <2>2, <2>3
<1>11. /\ 0 \in 0 .. 4 * B /\ 0 \in 0 .. 5 /\ 1 \in 0 .. 5 /\ 2 \in 0 .. 5 /\ 3 \in 0 .. 5
       /\ 4 \in 0 .. 5 /\ 5 \in 0 .. 5
  BY SMT
<1>20. PICK d0 \in 0 .. B - 1, f0 \in 0 .. 4 * B :
          /\ d0 = (0 + c[0]) % B /\ f0 = (0 + c[0]) \div B /\ 0 + c[0] = d0 + B * f0
          /\ 0 + c[0] \in Nat /\ 0 + c[0] < AccBound(W)
  BY <1>10, <1>11
<1>21. PICK d1 \in 0 .. B - 1, f1 \in 0 .. 4 * B :
          /\ d1 = (f0 + c[1]) % B /\ f1 = (f0 + c[1]) \div B /\ f0 + c[1] = d1 + B * f1
          /\ f0 + c[1] \in Nat /\ f0 + c[1] < AccBound(W)
  BY <1>10, <1>11
<1>22. PICK d2 \in 0 .. B - 1, f2 \in 0 .. 4 * B :
          /\ d2 = (f1 + c[2]) % B /\ f2 = (f1 + c[2]) \div B /\ f1 + c[2] = d2 + B * f2
          /\ f1 + c[2] \in Nat /\ f1 + c[2] < AccBound(W)
  BY <1>10, <1>11
<1>23. PICK d3 \in 0 .. B - 1, f3 \in 0 .. 4 * B :
          /\ d3 = (f2 + c[3]) % B /\ f3 = (f2 + c[3]) \div B /\ f2 + c[3] = d3 + B * f3
          /\ f2 + c[3] \in Nat /\ f2 + c[3] < AccBound(W)
  BY <1>10, <1>11
<1>24. PICK d4 \in 0 .. B - 1, f4 \in 0 .. 4 * B :
          /\ d4 = (f3 + c[4]) % B /\ f4 = (f3 + c[4]) \div B /\ f3 + c[4] = d4 + B * f4
          /\ f3 + c[4] \in Nat /\ f3 + c[4] < AccBound(W)
  BY <1>10, <1>11
<1>25. PICK d5 \in 0 .. B - 1, f5 \in 0 .. 4 * B :
          /\ d5 = (f4 + c[5]) % B /\ f5 = (f4 + c[5]) \div B /\ f4 + c[5] = d5 + B * f5
          /\ f4 + c[5] \in Nat /\ f4 + c[5] < AccBound(W)
  BY <1>10, <1>11
<1>26. f4 <= B - 1
  <2>1. PICK p \in Nat : p = x1 * h3
    BY <1>8, SMT
  <2>2. 3 * p <= b2 - 4 * B + 3
    <3>1. 3 * p <= (3 * x1) * (B - 1)
      <4>1. x1 * h3 <= x1 * (B - 1)
        BY SMT
      <4> QED
        BY <2>1, <4>1, SMT
    <3>2. (3 * x1) * (B - 1) <= (B - 3) * (B - 1)
      <4>1. 3 * x1 <= B - 3
        BY <1>1, <1>e, SMT
      <4> QED
        BY <1>1, <4>1, SMT
    <3>3. (B - 3) * (B - 1) = b2 - 4 * B + 3
      BY <1>2, SMT
    <3>4. (3 * x1) * (B - 1) \in Int /\ (B - 3) * (B - 1) \in Int
      BY SMT
    <3> QED
      BY <3>1, <3>2, <3>3, <3>4, SMT
  <2>3. 8 * B <= b2
    BY <1>1, <1>2, SMT
  <2>4. f3 + c[4] = f3 + p + h2
    BY <1>7, <2>1, SMT
  <2>5. f3 + p + h2 < b2
    BY <1>1, <2>2, <2>3, SMT
  <2>6. CASE f4 >= B
    <3>1. B * f4 >= b2 /\ B * f4 \in Nat
      BY <1>2, <2>6, SMT
    <3>2. d4 + B * f4 >= b2
      BY <3>1, SMT
    <3> QED
      BY <1>24, <2>4, <2>5, <3>2, SMT
  <2> QED
    BY <2>6, SMT
<1>27. f5 <= 1
  <2>1. f4 + h3 <= 2 * B - 2
    BY <1>26, SMT
  <2>2. CASE f5 >= 2
    <3>1. B * f5 >= B * 2 /\ B * f5 \in Nat
      BY <2>2, SMT
    <3> QED
      BY <1>1, <1>7, <1>25, <2>1, <3>1, SMT
  <2> QED
    BY <2>2, SMT
<1>30. Num(l) + Excess * Num(Upper(l)) = Four(d0, d1, d2, d3, B) + Top * (d4 + B * (d5 + B * f5))
  <2>1. PICK c0 \in Nat, c1 \in Nat, c2 \in Nat, c3 \in Nat, c4 \in Nat, c5 \in Nat :
          /\ c0 = c[0] /\ c1 = c[1] /\ c2 = c[2] /\ c3 = c[3] /\ c4 = c[4] /\ c5 = c[5]
    BY <1>9, <1>11
  <2>2. /\ Num(l) = l0 + B * (l1 + B * (l2 + B * l3)) /\ Excess = x0 + B * (x1 + B)
        /\ Num(Upper(l)) = h0 + B * (h1 + B * (h2 + B * h3))
    <3>1. Upper(l)[0] = l[4] /\ Upper(l)[1] = l[5] /\ Upper(l)[2] = l[6] /\ Upper(l)[3] = l[7]
      BY SMT DEF Upper, Idx, N
    <3> QED
      BY <1>1, <1>3, <1>4, <1>e, <3>1 DEF Num, Four, Excess
  <2>3. Num(l) + Excess * Num(Upper(l)) = c0 + B * (c1 + B * (c2 + B * (c3 + B * (c4 + B * c5))))
    <3>1. /\ l0 \in Nat /\ l1 \in Nat /\ l2 \in Nat /\ l3 \in Nat /\ x0 \in Nat /\ x1 \in Nat
          /\ h0 \in Nat /\ h1 \in Nat /\ h2 \in Nat /\ h3 \in Nat
      BY SMT
    <3>2. (l0 + B * (l1 + B * (l2 + B * l3))) + (x0 + B * (x1 + B)) * (h0 + B * (h1 + B * (h2 + B * h3)))
            = (l0 + x0 * h0) + B * ((l1 + x0 * h1 + x1 * h0) + B * ((l2 + x0 * h2 + x1 * h1 + h0)
                + B * ((l3 + x0 * h3 + x1 * h2 + h1) + B * ((x1 * h3 + h2) + B * h3))))
      BY ONLY B \in Nat, <3>1, SMT
    <3> QED
      BY <1>7, <2>1, <2>2, <3>2
  <2>4. /\ c0 = d0 + B * f0 /\ f0 + c1 = d1 + B * f1 /\ f1 + c2 = d2 + B * f2 /\ f2 + c3 = d3 + B * f3
        /\ f3 + c4 = d4 + B * f4 /\ f4 + c5 = d5 + B * f5
    <3>1. 0 + c0 = c0
      BY SMT
    <3> QED
      BY <1>20, <1>21, <1>22, <1>23, <1>24, <1>25, <2>1, <3>1
  <2>5. Four(d0, d1, d2, d3, B) + Top * (d4 + B * (d5 + B * f5))
          = d0 + B * (d1 + B * (d2 + B * (d3 + B * (d4 + B * (d5 + B * f5)))))
    <3>1. PICK h \in Nat : h = d4 + B * (d5 + B * f5)
      BY SMT
    <3>2. /\ Top = B * (B * (B * B)) /\ Four(d0, d1, d2, d3, B) = d0 + B * (d1 + B * (d2 + B * d3))
      BY <1>1 DEF Four, Top
    <3>3. d0 \in Nat /\ d1 \in Nat /\ d2 \in Nat /\ d3 \in Nat
      BY SMT
    <3>4. d0 + B * (d1 + B * (d2 + B * d3)) + B * (B * (B * B)) * h
            = d0 + B * (d1 + B * (d2 + B * (d3 + B * h)))
      BY ONLY B \in Nat, h \in Nat, <3>3, SMT
    <3> QED
      BY <3>1, <3>2, <3>4
  <2>8. ASSUME NEW h \in Nat, NEW g \in Nat, NEW f \in Nat, NEW ff \in Nat, NEW x \in Nat, NEW d \in Nat,
               h + f = g, ff + x = d + B * f
        PROVE  (x + B * h) + ff = d + B * g
    BY <2>8, SMT
  <2>9. PICK g5 \in Nat : g5 = d5 + B * f5 /\ c5 + f4 = g5
    BY <2>4, SMT
  <2>10. PICK h4 \in Nat, g4 \in Nat : h4 = c4 + B * c5 /\ g4 = d4 + B * g5 /\ h4 + f3 = g4
    <3>1. (c4 + B * c5) + f3 = d4 + B * g5
      BY <2>4, <2>8, <2>9
    <3> QED
      BY <3>1, SMT
  <2>11. PICK h3_ \in Nat, g3 \in Nat : h3_ = c3 + B * h4 /\ g3 = d3 + B * g4 /\ h3_ + f2 = g3
    <3>1. (c3 + B * h4) + f2 = d3 + B * g4
      BY <2>4, <2>8, <2>10
    <3> QED
      BY <3>1, SMT
  <2>12. PICK h2_ \in Nat, g2 \in Nat : h2_ = c2 + B * h3_ /\ g2 = d2 + B * g3 /\ h2_ + f1 = g2
    <3>1. (c2 + B * h3_) + f1 = d2 + B * g3
      BY <2>4, <2>8, <2>11
    <3> QED
      BY <3>1, SMT
  <2>13. PICK h1_ \in Nat, g1 \in Nat : h1_ = c1 + B * h2_ /\ g1 = d1 + B * g2 /\ h1_ + f0 = g1
    <3>1. (c1 + B * h2_) + f0 = d1 + B * g2
      BY <2>4, <2>8, <2>12
    <3> QED
      BY <3>1, SMT
  <2>14. c0 + B * h1_ = d0 + B * g1
    BY <2>4, <2>13, SMT
  <2> QED
    BY <2>3, <2>5, <2>9, <2>10, <2>11, <2>12, <2>13, <2>14
<1>32. PICK v : /\ v[0] = 0 + c[0] /\ v[1] = f0 + c[1] /\ v[2] = f1 + c[2] /\ v[3] = f2 + c[3]
                /\ v[4] = f3 + c[4] /\ v[5] = f4 + c[5]
  <2> DEFINE v == [k \in 0 .. 5 |-> CASE k = 0 -> 0 + c[0] [] k = 1 -> f0 + c[1] [] k = 2 -> f1 + c[2]
                                     [] k = 3 -> f2 + c[3] [] k = 4 -> f3 + c[4] [] k = 5 -> f4 + c[5]]
  <2>1. /\ v[0] = 0 + c[0] /\ v[1] = f0 + c[1] /\ v[2] = f1 + c[2] /\ v[3] = f2 + c[3]
        /\ v[4] = f3 + c[4] /\ v[5] = f4 + c[5]
    BY SMT
  <2> QED
    BY <2>1
<1>33. /\ v[0] % B = d0 /\ v[0] \div B = f0 /\ v[1] % B = d1 /\ v[1] \div B = f1
       /\ v[2] % B = d2 /\ v[2] \div B = f2 /\ v[3] % B = d3 /\ v[3] \div B = f3
       /\ v[4] % B = d4 /\ v[4] \div B = f4 /\ v[5] % B = d5 /\ v[5] \div B = f5
  BY <1>20, <1>21, <1>22, <1>23, <1>24, <1>25, <1>32
<1>34. v[0] < 2^W * 2^W /\ v[5] < 2^W * 2^W /\ v[0] \div 2^W + l[1] < 2^W * 2^W
  <2>1. q = b2 - 2 * B + 1
    BY <1>2, <1>5, SMT
  <2>2. 0 + (l0 + x0 * h0) < b2
    BY <1>1, <1>8, <2>1, SMT
  <2>3. 8 * B <= b2
    BY <1>1, <1>2, SMT
  <2>4. f4 + h3 < b2 /\ f0 + l1 < b2
    BY <1>1, <2>3, SMT
  <2> QED
    BY <1>1, <1>2, <1>3, <1>7, <1>32, <1>33, <2>2, <2>4
<1>35. \A k \in 0 .. 5 : /\ v[k] \in Nat /\ Fits(v[k], k \in {0, 5})
                         /\ v[k] = (IF k = 0 THEN 0 ELSE v[k - 1] \div 2^W) + c[k]
  <2>1. \A k \in 0 .. 5 : k = 0 \/ k = 1 \/ k = 2 \/ k = 3 \/ k = 4 \/ k = 5
    BY SMT
  <2>2. 1 - 1 = 0 /\ 2 - 1 = 1 /\ 3 - 1 = 2 /\ 4 - 1 = 3 /\ 5 - 1 = 4
    BY SMT
  <2>3. ~(1 \in {0, 5}) /\ ~(2 \in {0, 5}) /\ ~(3 \in {0, 5}) /\ ~(4 \in {0, 5})
    BY SMT
  <2>4. 1 # 0 /\ 2 # 0 /\ 3 # 0 /\ 4 # 0 /\ 5 # 0
    BY SMT
  <2>5. \A k \in 0 .. 5 : v[k] \in Nat /\ v[k] < AccBound(W)
    <3>1. v[0] \in Nat /\ v[0] < AccBound(W) /\ v[1] \in Nat /\ v[1] < AccBound(W)
      BY <1>20, <1>21, <1>32
    <3>2. v[2] \in Nat /\ v[2] < AccBound(W) /\ v[3] \in Nat /\ v[3] < AccBound(W)
      BY <1>22, <1>23, <1>32
    <3>3. v[4] \in Nat /\ v[4] < AccBound(W) /\ v[5] \in Nat /\ v[5] < AccBound(W)
      BY <1>24, <1>25, <1>32
    <3> QED
      BY <2>1, <3>1, <3>2, <3>3
  <2>6. \A k \in 0 .. 5 : Fits(v[k], k \in {0, 5})
    BY <1>34, <2>1, <2>3, <2>5 DEF Fits
  <2>7. \A k \in 0 .. 5 : v[k] = (IF k = 0 THEN 0 ELSE v[k - 1] \div B) + c[k]
    BY <1>32, <1>33, <2>1, <2>2, <2>4
  <2> QED
    BY <1>1, <2>5, <2>6, <2>7
<1>36. PICK m : m = Words512(v)
  OBVIOUS
<1>37. /\ m[0] = d0 /\ m[1] = d1 /\ m[2] = d2 /\ m[3] = d3 /\ m[4] = d4 /\ m[5] = d5 /\ m[6] = f5
       /\ m = [i \in 0 .. 6 |-> m[i]]
  <2>1. m = [i \in 0 .. 6 |-> IF i <= 5 THEN v[i] % B ELSE v[5] \div B]
    BY <1>1, <1>36 DEF Words512
  <2>2. /\ m[0] = v[0] % B /\ m[1] = v[1] % B /\ m[2] = v[2] % B /\ m[3] = v[3] % B /\ m[4] = v[4] % B
        /\ m[5] = v[5] % B /\ m[6] = v[5] \div B
    BY <2>1, SMT
  <2>3. m = [i \in 0 .. 6 |-> m[i]]
    BY <2>1
  <2> QED
    BY <1>33, <2>2, <2>3
<1>38. m \in [0 .. 6 -> Word(W)]
  <2>1. \A i \in 0 .. 6 : i = 0 \/ i = 1 \/ i = 2 \/ i = 3 \/ i = 4 \/ i = 5 \/ i = 6
    BY SMT
  <2>2. f5 \in 0 .. B - 1
    BY <1>1, <1>27, SMT
  <2>3. \A i \in 0 .. 6 : m[i] \in 0 .. B - 1
    BY <1>37, <2>1, <2>2
  <2> QED
    BY <1>1, <1>37, <2>3 DEF Word
<1>39. Num(m) = Four(d0, d1, d2, d3, B) /\ Upper512(m) = d4 + B * (d5 + B * f5)
  BY <1>1, <1>37 DEF Num, Upper512
<1>40. v[5] \div 2^W <= 1
  BY <1>1, <1>27, <1>33
<1> QED
  BY <1>30, <1>34, <1>35, <1>36, <1>38, <1>39, <1>40

(* The first fold: seven words, the top one at most 1; its VERIFY_CHECK and *)
(* those of its macros hold: the first reduction in                         *)
(* secp256k1_scalar_reduce_512.                                             *)
THEOREM Fold512Exact ==
  ASSUME Sizes, NEW l, l \in [0 .. 7 -> Word(W)], NEW x, x = Fold512(l)
  PROVE  /\ x.ok /\ x.m \in [0 .. 6 -> Word(W)] /\ x.m[6] <= 1
         /\ Num(x.m) + Top * Upper512(x.m) = Num(l) + Excess * Num(Upper(l))
<1>1. PICK B \in Nat : B = 2^W /\ B >= 8
  BY SizesOf
<1>2. PICK c : c = FoldSums512(l)
  OBVIOUS
<1>3. PICK v : /\ \A k \in 0 .. 5 : /\ v[k] \in Nat /\ Fits(v[k], k \in {0, 5})
                                    /\ v[k] = (IF k = 0 THEN 0 ELSE v[k - 1] \div 2^W) + c[k]
               /\ v[0] \div 2^W + l[1] < 2^W * 2^W
               /\ v[5] \div 2^W <= 1 /\ Words512(v) \in [0 .. 6 -> Word(W)]
               /\ Num(Words512(v)) + Top * Upper512(Words512(v)) = Num(l) + Excess * Num(Upper(l))
  BY <1>2, FoldChain512
<1>c. PICK cols : cols = [k \in 0 .. 5 |-> FoldColumn512(l, k)]
  OBVIOUS
<1>4. AddUp(cols, 6, {0, 5}, v)
  <2>1. ASSUME NEW k \in 0 .. 5
        PROVE  /\ \A s : Holds(s, IF k = 0 THEN 0 ELSE v[k - 1] \div 2^W)
                           => Holds(AfterColumn(s, cols[k], W), v[k])
               /\ k \in {0, 5} => v[k] < 2^W * 2^W
    <3>1. PICK e : e = IF k = 0 THEN 0 ELSE v[k - 1] \div 2^W
      OBVIOUS
    <3>2. e \in Nat
      <4>1. CASE k = 0
        BY <3>1, <4>1
      <4>2. CASE k # 0
        <5>1. k - 1 \in 0 .. 5
          BY <4>2, SMT
        <5>2. PICK y \in Nat : y = v[k - 1]
          BY <1>3, <5>1
        <5>3. y \div B \in Nat
          BY <1>1, SMT
        <5> QED
          BY <1>1, <3>1, <4>2, <5>2, <5>3
      <4> QED
        BY <4>1, <4>2
    <3>3. v[k] = e + c[k] /\ Fits(v[k], k \in {0, 5})
      BY <1>3, <3>1
    <3>4. Fits(e + c[k], k \in {0, 5})
      BY <3>3
    <3>5. k = 0 => e = 0
      BY <3>1
    <3>6. k = 1 => e + l[1] < 2^W * 2^W
      <4>1. 1 - 1 = 0 /\ 1 # 0
        BY SMT
      <4> QED
        BY <1>3, <3>1, <4>1
    <3>7. ASSUME NEW s, Holds(s, e) PROVE Holds(AfterColumn(s, cols[k], W), v[k])
      <4>1. Holds(AfterColumn(s, FoldColumn512(l, k), W), e + c[k])
        BY <1>2, <3>2, <3>4, <3>5, <3>6, <3>7, FoldAdds512
      <4> QED
        BY <1>c, <3>3, <4>1
    <3> QED
      BY <3>1, <3>3, <3>7 DEF Fits
  <2>2. 6 - 1 = 5
    BY SMT
  <2> QED
    BY <2>1, <2>2 DEF AddUp
<1>5. PICK z : z = AfterColumns(cols, 6, {0, 5}, W)
  OBVIOUS
<1>6. /\ Holds(z.acc, v[5] \div 2^W) /\ z.acc.c0 = v[5] \div 2^W
      /\ z.d = [i \in 0 .. 6 |-> IF i <= 5 THEN v[i] % 2^W ELSE 0]
  <2>1. 6 \in 4 .. 7 /\ 6 - 1 = 5 /\ 5 \in {0, 5}
    BY SMT
  <2>2. PICK n, fast : n = 6 /\ fast = {0, 5}
    OBVIOUS
  <2>3. /\ n \in 4 .. 7 /\ n - 1 \in fast /\ AddUp(cols, n, fast, v) /\ z = AfterColumns(cols, n, fast, W)
    BY <1>4, <1>5, <2>1, <2>2
  <2>4. /\ Holds(z.acc, v[n - 1] \div 2^W) /\ z.acc.c1 = 0 /\ z.acc.c0 = v[n - 1] \div 2^W
        /\ z.d = [i \in 0 .. n |-> IF i <= n - 1 THEN v[i] % 2^W ELSE 0]
    BY ONLY Sizes, <2>3, ColumnsExact
  <2> QED
    BY <2>1, <2>2, <2>4
<1>7. x = [m |-> [z.d EXCEPT ![6] = z.acc.c0], ok |-> z.acc.ok /\ z.acc.c0 <= 1]
  <2>1. 4 + 2 - 1 = 5 /\ 4 + 2 = 6
    BY SMT
  <2> QED
    BY <1>c, <1>5, <2>1 DEF Fold512, Folded512, N, Half
<1>8. x.m = Words512(v)
  <2>1. x.m = [z.d EXCEPT ![6] = v[5] \div 2^W]
    BY <1>6, <1>7
  <2>2. x.m = [i \in 0 .. 6 |-> IF i = 6 THEN v[5] \div 2^W ELSE IF i <= 5 THEN v[i] % 2^W ELSE 0]
    BY <1>6, <2>1
  <2>3. \A i \in 0 .. 6 : (i = 6 /\ ~(i <= 5)) \/ (i # 6 /\ i <= 5)
    BY SMT
  <2> QED
    BY <2>2, <2>3 DEF Words512
<1>9. x.ok
  <2>1. x.ok = (z.acc.ok /\ z.acc.c0 <= 1)
    BY <1>7
  <2> QED
    BY <1>3, <1>6, <2>1 DEF Holds
<1>10. x.m[6] <= 1
  <2>1. 6 \in 0 .. 6 /\ ~(6 <= 5)
    BY SMT
  <2>2. Words512(v)[6] = v[5] \div 2^W
    BY <2>1 DEF Words512
  <2> QED
    BY <1>3, <1>8, <2>2
<1> QED
  BY <1>3, <1>8, <1>9, <1>10

-----------------------------------------------------------------------------
(* Folding seven words, the top one at most 1.                              *)
LEMMA FoldColumns385 ==
  ASSUME NEW l
  PROVE  /\ FoldColumn385(l, 0) = << <<"set", l[0]>> >> \o << <<"muladd_fast", NC0, l[4]>> >>
         /\ FoldColumn385(l, 1) = << <<"sumadd_fast", l[1]>> >>
                                    \o << <<"muladd", NC0, l[5]>>, <<"muladd", NC1, l[4]>> >>
         /\ FoldColumn385(l, 2) = (<< <<"sumadd", l[2]>> >>
                                    \o << <<"muladd", NC0, l[6]>>, <<"muladd", NC1, l[5]>> >>)
                                    \o << <<"sumadd", l[4]>> >>
         /\ FoldColumn385(l, 3) = (<< <<"sumadd_fast", l[3]>> >> \o << <<"muladd_fast", NC1, l[6]>> >>)
                                    \o << <<"sumadd_fast", l[5]>> >>
<1>1. PICK h, n : h = [i \in 0 .. Half |-> l[N + i]] /\ n = N_C
  OBVIOUS
<1>2. h[0] = l[4] /\ h[1] = l[5] /\ h[2] = l[6] /\ n[0] = NC0 /\ n[1] = NC1
  BY <1>1, SMT DEF N, N_C, Half
<1>3. /\ Products("muladd_fast", n, h, 0, 0, 0) = << <<"muladd_fast", n[0], h[0]>> >>
      /\ Products("muladd_fast", n, h, 3, 1, 1) = << <<"muladd_fast", n[1], h[2]>> >>
  <2>1. Products("muladd_fast", n, h, 0, 0, 0) = << <<"muladd_fast", n[0], h[0]>> >>
    BY SMT DEF Products
  <2>2. Products("muladd_fast", n, h, 3, 1, 1) = << <<"muladd_fast", n[1], h[2]>> >>
    BY SMT DEF Products
  <2> QED
    BY <2>1, <2>2
<1>5. Products("muladd", n, h, 1, 0, 1) = << <<"muladd", n[0], h[1]>>, <<"muladd", n[1], h[0]>> >>
  BY SMT DEF Products
<1>6. Products("muladd", n, h, 2, 0, 1) = << <<"muladd", n[0], h[2]>>, <<"muladd", n[1], h[1]>> >>
  BY SMT DEF Products
<1>8. /\ 1 # 0 /\ 2 # 0 /\ 3 # 0 /\ 2 # 1 /\ 3 # 1 /\ 1 # 3 /\ 2 # 3 /\ 4 - 1 = 3 /\ 2 - 1 = 1
      /\ 0 <= 2 /\ 1 <= 2 /\ 2 <= 2 /\ ~(3 <= 2)
      /\ 0 < 2 /\ 1 < 2 /\ ~(2 < 2) /\ ~(3 < 2) /\ 3 - 2 = 1
      /\ 4 + 2 - 2 = 4 /\ 4 + 3 - 2 = 5
  BY SMT
<1>9. ASSUME NEW x, NEW y PROVE (<<x>> \o <<y>>) \o <<>> = <<x>> \o <<y>>
  <2>1. PICK S : x \in S /\ y \in S
    <3>1. x \in {x, y} /\ y \in {x, y}
      OBVIOUS
    <3> QED
      BY <3>1
  <2>2. <<x>> \in Seq(S) /\ <<y>> \in Seq(S)
    BY <2>1
  <2>3. <<x>> \o <<y>> \in Seq(S)
    BY <2>2
  <2>4. \A s \in Seq(S) : s \o <<>> = s
    BY SMT
  <2> QED
    BY <2>3, <2>4
<1>10. ASSUME NEW x, NEW y, NEW z PROVE (<<x>> \o <<y, z>>) \o <<>> = <<x>> \o <<y, z>>
  <2>1. PICK S : x \in S /\ y \in S /\ z \in S
    <3>1. x \in {x, y, z} /\ y \in {x, y, z} /\ z \in {x, y, z}
      OBVIOUS
    <3> QED
      BY <3>1
  <2>2. <<x>> \in Seq(S) /\ <<y, z>> \in Seq(S)
    BY <2>1
  <2>3. <<x>> \o <<y, z>> \in Seq(S)
    BY <2>2
  <2>4. \A s \in Seq(S) : s \o <<>> = s
    BY SMT
  <2> QED
    BY <2>3, <2>4
<1>20. FoldColumn385(l, 0) = << <<"set", l[0]>> >> \o << <<"muladd_fast", NC0, l[4]>> >>
  <2>1. PICK x, y : x = <<"set", l[0]>> /\ y = <<"muladd_fast", NC0, l[4]>>
    OBVIOUS
  <2>2. FoldColumn385(l, 0) = (<< <<"set", l[0]>> >> \o Products("muladd_fast", n, h, 0, 0, 0)) \o <<>>
    BY <1>1, <1>8 DEF FoldColumn385, N, Half
  <2>3. FoldColumn385(l, 0) = (<<x>> \o <<y>>) \o <<>>
    BY <1>2, <1>3, <2>1, <2>2
  <2>4. FoldColumn385(l, 0) = <<x>> \o <<y>>
    BY <1>9, <2>3
  <2> QED
    BY <2>1, <2>4
<1>21. FoldColumn385(l, 1) = << <<"sumadd_fast", l[1]>> >>
                               \o << <<"muladd", NC0, l[5]>>, <<"muladd", NC1, l[4]>> >>
  <2>1. PICK x, y, z : x = <<"sumadd_fast", l[1]>> /\ y = <<"muladd", NC0, l[5]>> /\ z = <<"muladd", NC1, l[4]>>
    OBVIOUS
  <2>2. FoldColumn385(l, 1) = (<< <<"sumadd_fast", l[1]>> >> \o Products("muladd", n, h, 1, 0, 1)) \o <<>>
    BY <1>1, <1>8 DEF FoldColumn385, N, Half
  <2>3. FoldColumn385(l, 1) = (<<x>> \o <<y, z>>) \o <<>>
    BY <1>2, <1>5, <2>1, <2>2
  <2>4. FoldColumn385(l, 1) = <<x>> \o <<y, z>>
    BY <1>10, <2>3
  <2> QED
    BY <2>1, <2>4
<1>22. FoldColumn385(l, 2) = (<< <<"sumadd", l[2]>> >>
                               \o << <<"muladd", NC0, l[6]>>, <<"muladd", NC1, l[5]>> >>)
                               \o << <<"sumadd", l[4]>> >>
  <2>1. FoldColumn385(l, 2) = (<< <<"sumadd", l[2]>> >> \o Products("muladd", n, h, 2, 0, 1))
                                \o << <<"sumadd", l[4]>> >>
    BY <1>1, <1>8 DEF FoldColumn385, N, Half
  <2> QED
    BY <1>2, <1>6, <2>1
<1>23. FoldColumn385(l, 3) = (<< <<"sumadd_fast", l[3]>> >> \o << <<"muladd_fast", NC1, l[6]>> >>)
                               \o << <<"sumadd_fast", l[5]>> >>
  <2>1. FoldColumn385(l, 3) = (<< <<"sumadd_fast", l[3]>> >> \o Products("muladd_fast", n, h, 3, 1, 1))
                                \o << <<"sumadd_fast", l[5]>> >>
    BY <1>1, <1>8 DEF FoldColumn385, N, Half
  <2> QED
    BY <1>2, <1>3, <2>1
<1> QED
  BY <1>20, <1>21, <1>22, <1>23

FoldSums385(l) ==
    [k \in Idx |->
        CASE k = 0 -> l[0] + NC0 * l[4]
          [] k = 1 -> l[1] + NC0 * l[5] + NC1 * l[4]
          [] k = 2 -> l[2] + NC0 * l[6] + NC1 * l[5] + l[4]
          [] k = 3 -> l[3] + NC1 * l[6] + l[5]]

LEMMA FoldAdds385 ==
  ASSUME Sizes, NEW l, l \in [0 .. 6 -> Word(W)], NEW c, c = FoldSums385(l),
         NEW k \in Idx, NEW s, NEW e \in Nat, Holds(s, e), Fits(e + c[k], k \in {0, 3}),
         k = 0 => e = 0, k = 1 => e + l[1] < 2^W * 2^W
  PROVE  Holds(AfterColumn(s, FoldColumn385(l, k), W), e + c[k])
<1>1. PICK B \in Nat : B = 2^W
  BY SizesOf
<1>2. PICK R \in Nat : R = AccBound(W)
  BY <1>1, SMT DEF AccBound
<1>3. PICK l0 \in Word(W), l1 \in Word(W), l2 \in Word(W), l3 \in Word(W) :
          l0 = l[0] /\ l1 = l[1] /\ l2 = l[2] /\ l3 = l[3]
  BY SMT
<1>4. PICK l4 \in Word(W), l5 \in Word(W), l6 \in Word(W) : l4 = l[4] /\ l5 = l[5] /\ l6 = l[6]
  BY SMT
<1>5. NC0 \in Word(W) /\ NC1 \in Word(W)
  BY SizesOf, SMT DEF Word
<1>6. /\ c[0] = l0 + NC0 * l4
      /\ c[1] = l1 + NC0 * l5 + NC1 * l4
      /\ c[2] = l2 + NC0 * l6 + NC1 * l5 + l4
      /\ c[3] = l3 + NC1 * l6 + l5
  BY <1>3, <1>4, SMT DEF FoldSums385, Idx, N
<1>7. ASSUME NEW x \in Word(W), NEW y \in Word(W) PROVE x * y \in Nat
  BY <1>1, <1>7, SMT DEF Word
<1>8. ASSUME NEW x \in Word(W) PROVE x \in Nat
  BY <1>1, <1>8, SMT DEF Word
<1>9. ASSUME NEW x \in Word(W), NEW y \in Word(W), NEW v, v + x * y < R
      PROVE  Adds(<<"muladd", x, y>>, x * y, v)
  BY <1>2, <1>9, AddsOf
<1>10. ASSUME NEW x \in Word(W), NEW v, v + x < R PROVE Adds(<<"sumadd", x>>, x, v)
  BY <1>2, <1>5, <1>10, AddsOf
<1>11. ASSUME NEW x \in Word(W), NEW v, v + x < 2^W * 2^W PROVE Adds(<<"sumadd_fast", x>>, x, v)
  BY <1>5, <1>11, AddsOf
<1>13. ASSUME NEW x \in Word(W), NEW y \in Word(W), NEW v, v + x * y < 2^W * 2^W
       PROVE  Adds(<<"muladd_fast", x, y>>, x * y, v)
  BY <1>13, AddsOf
<1>12. e + c[k] < R
  BY <1>2 DEF Fits
<1>20. CASE k = 0
  <2>1. PICK m \in Nat : m = NC0 * l4
    BY <1>5, <1>7
  <2>2. e = 0 /\ e + l0 + m < 2^W * 2^W
    <3>1. e + c[k] = e + l0 + m
      BY <1>6, <1>8, <1>20, <2>1, SMT
    <3> QED
      BY <1>20, <3>1 DEF Fits
  <2>3. Adds(<<"set", l0>>, l0, e) /\ Adds(<<"muladd_fast", NC0, l4>>, m, e + l0)
    BY <1>5, <2>1, <2>2, AddsOf
  <2>4. PICK t : t = << <<"set", l0>> >> \o << <<"muladd_fast", NC0, l4>> >>
    OBVIOUS
  <2>5. Len(t) = 2 /\ t[1] = <<"set", l0>> /\ t[2] = <<"muladd_fast", NC0, l4>>
    BY <2>4, AppendedTwo
  <2>6. Holds(AfterColumn(s, t, W), e + l0 + m)
    BY <2>3, <2>5, ColumnTwo
  <2>7. FoldColumn385(l, k) = t
    BY <1>3, <1>4, <1>20, <2>4, FoldColumns385
  <2>8. e + c[k] = e + l0 + m
    BY <1>6, <1>8, <1>20, <2>1, SMT
  <2> QED
    BY <2>6, <2>7, <2>8
<1>21. CASE k = 1
  <2>1. PICK m \in Nat, n \in Nat : m = NC0 * l5 /\ n = NC1 * l4
    BY <1>5, <1>7
  <2>2. l1 \in Nat
    BY <1>8
  <2>3. e + c[k] = e + l1 + m + n
    BY <1>6, <1>21, <2>1, <2>2, SMT
  <2>4. e + l1 + m + n < R /\ e + l1 + m < R /\ e + l1 < 2^W * 2^W
    BY <1>3, <1>12, <1>21, <2>1, <2>2, <2>3, SMT
  <2>5. /\ Adds(<<"sumadd_fast", l1>>, l1, e) /\ Adds(<<"muladd", NC0, l5>>, m, e + l1)
        /\ Adds(<<"muladd", NC1, l4>>, n, e + l1 + m)
    BY <1>5, <1>9, <1>11, <2>1, <2>4
  <2>6. PICK t : t = << <<"sumadd_fast", l1>> >> \o << <<"muladd", NC0, l5>>, <<"muladd", NC1, l4>> >>
    OBVIOUS
  <2>7. /\ Len(t) = 3 /\ t[1] = <<"sumadd_fast", l1>> /\ t[2] = <<"muladd", NC0, l5>>
        /\ t[3] = <<"muladd", NC1, l4>>
    BY <2>6, AppendedThree
  <2>8. Holds(AfterColumn(s, t, W), e + l1 + m + n)
    BY <2>5, <2>7, ColumnThree
  <2>9. FoldColumn385(l, k) = t
    BY <1>3, <1>4, <1>21, <2>6, FoldColumns385
  <2> QED
    BY <2>3, <2>8, <2>9
<1>22. CASE k = 2
  <2>1. PICK m \in Nat, n \in Nat : m = NC0 * l6 /\ n = NC1 * l5
    BY <1>5, <1>7
  <2>2. l2 \in Nat /\ l4 \in Nat
    BY <1>8
  <2>3. e + c[k] = e + l2 + m + n + l4
    BY <1>6, <1>22, <2>1, <2>2, SMT
  <2>4. e + l2 + m + n + l4 < R /\ e + l2 + m + n < R /\ e + l2 + m < R /\ e + l2 < R
    BY <1>12, <2>1, <2>2, <2>3, SMT
  <2>5. /\ Adds(<<"sumadd", l2>>, l2, e) /\ Adds(<<"muladd", NC0, l6>>, m, e + l2)
        /\ Adds(<<"muladd", NC1, l5>>, n, e + l2 + m) /\ Adds(<<"sumadd", l4>>, l4, e + l2 + m + n)
    BY <1>5, <1>9, <1>10, <2>1, <2>4
  <2>6. PICK t : t = (<< <<"sumadd", l2>> >> \o << <<"muladd", NC0, l6>>, <<"muladd", NC1, l5>> >>)
                       \o << <<"sumadd", l4>> >>
    OBVIOUS
  <2>7. /\ Len(t) = 4 /\ t[1] = <<"sumadd", l2>> /\ t[2] = <<"muladd", NC0, l6>>
        /\ t[3] = <<"muladd", NC1, l5>> /\ t[4] = <<"sumadd", l4>>
    BY <2>6, AppendedFour
  <2>8. Holds(AfterColumn(s, t, W), e + l2 + m + n + l4)
    BY <2>5, <2>7, ColumnFour
  <2>9. FoldColumn385(l, k) = t
    BY <1>3, <1>4, <1>22, <2>6, FoldColumns385
  <2> QED
    BY <2>3, <2>8, <2>9
<1>23. CASE k = 3
  <2>1. PICK n \in Nat : n = NC1 * l6
    BY <1>5, <1>7
  <2>2. l3 \in Nat /\ l5 \in Nat
    BY <1>8
  <2>3. e + c[k] = e + l3 + n + l5
    BY <1>6, <1>23, <2>1, <2>2, SMT
  <2>a. PICK b2 \in Nat : b2 = 2^W * 2^W
    BY <1>1, SMT
  <2>b. e + c[k] < b2
    BY <1>23, <2>a DEF Fits
  <2>4. e + l3 + n + l5 < b2 /\ e + l3 + n < b2 /\ e + l3 < b2
    BY <2>1, <2>2, <2>3, <2>b, SMT
  <2>5. /\ Adds(<<"sumadd_fast", l3>>, l3, e) /\ Adds(<<"muladd_fast", NC1, l6>>, n, e + l3)
        /\ Adds(<<"sumadd_fast", l5>>, l5, e + l3 + n)
    BY <1>5, <1>11, <1>13, <2>1, <2>4, <2>a
  <2>6. PICK t : t = (<< <<"sumadd_fast", l3>> >> \o << <<"muladd_fast", NC1, l6>> >>)
                       \o << <<"sumadd_fast", l5>> >>
    OBVIOUS
  <2>7. /\ Len(t) = 3 /\ t[1] = <<"sumadd_fast", l3>> /\ t[2] = <<"muladd_fast", NC1, l6>>
        /\ t[3] = <<"sumadd_fast", l5>>
    BY <2>6, AppendedThree
  <2>8. Holds(AfterColumn(s, t, W), e + l3 + n + l5)
    BY <2>5, <2>7, ColumnThree
  <2>9. FoldColumn385(l, k) = t
    BY <1>3, <1>4, <1>23, <2>6, FoldColumns385
  <2> QED
    BY <2>3, <2>8, <2>9
<1>26. k = 0 \/ k = 1 \/ k = 2 \/ k = 3
  BY SMT DEF Idx, N
<1> QED
  BY <1>20, <1>21, <1>22, <1>23, <1>26

LowWords(v) == [i \in 0 .. 4 |-> IF i <= 3 THEN v[i] % 2^W ELSE 0]
LEMMA FoldChain385 ==
  ASSUME Sizes, NEW l, l \in [0 .. 6 -> Word(W)], l[6] <= 1, NEW c, c = FoldSums385(l)
  PROVE  \E v : /\ \A k \in Idx : /\ v[k] \in Nat /\ Fits(v[k], k \in {0, 3})
                                  /\ v[k] = (IF k = 0 THEN 0 ELSE v[k - 1] \div 2^W) + c[k]
                /\ v[0] \div 2^W + l[1] < 2^W * 2^W
                /\ v[3] \div 2^W + l[6] \in 0 .. 2^W - 1
                /\ Num(LowWords(v)) + Top * (v[3] \div 2^W + l[6]) = Num(l) + Excess * Upper512(l)
<1>1. PICK B \in Nat : B = 2^W /\ B >= 8 /\ NC0 \in 1 .. B - 1 /\ NC1 \in 0 .. B - 1 /\ 3 * NC1 + 3 <= B
  BY SizesOf
<1>2. PICK b2 \in Nat : b2 = B * B
  BY SMT
<1>3. PICK l0 \in 0 .. B - 1, l1 \in 0 .. B - 1, l2 \in 0 .. B - 1, l3 \in 0 .. B - 1 :
          l0 = l[0] /\ l1 = l[1] /\ l2 = l[2] /\ l3 = l[3]
  BY <1>1, SMT DEF Word
<1>4. PICK h0 \in 0 .. B - 1, h1 \in 0 .. B - 1, h2 \in 0 .. B - 1 : h0 = l[4] /\ h1 = l[5] /\ h2 = l[6]
  BY <1>1, SMT DEF Word
<1>5. PICK q \in Nat : q = (B - 1) * (B - 1) /\ B - 1 <= q
  <2>1. (B - 1) * (B - 1) >= 1 * (B - 1)
    BY <1>1, SMT
  <2> QED
    BY <1>1, <2>1, SMT
<1>6. ASSUME NEW x \in 0 .. B - 1, NEW y \in 0 .. B - 1 PROVE x * y \in 0 .. q
  <2>1. x * y \in Nat /\ x * y <= (B - 1) * (B - 1)
    BY <1>6, SMT
  <2> QED
    BY <1>5, <2>1, SMT
<1>e. PICK x0 \in 0 .. B - 1, x1 \in 0 .. B - 1 : x0 = NC0 /\ x1 = NC1
  BY <1>1, SMT
<1>7. /\ c[0] = l0 + x0 * h0
      /\ c[1] = l1 + x0 * h1 + x1 * h0
      /\ c[2] = l2 + x0 * h2 + x1 * h1 + h0
      /\ c[3] = l3 + x1 * h2 + h1
  BY <1>3, <1>4, <1>e, SMT DEF FoldSums385, Idx, N
<1>8. /\ x0 * h0 \in 0 .. q /\ x0 * h1 \in 0 .. q /\ x0 * h2 \in 0 .. q
      /\ x1 * h0 \in 0 .. q /\ x1 * h1 \in 0 .. q /\ x1 * h2 \in 0 .. q
  BY <1>6
<1>9. \A k \in Idx : c[k] \in Nat /\ c[k] <= 4 * q
  <2>1. c[0] \in Nat /\ c[0] <= 4 * q /\ c[1] \in Nat /\ c[1] <= 4 * q
    BY <1>5, <1>7, <1>8, SMT
  <2>2. c[2] \in Nat /\ c[2] <= 4 * q /\ c[3] \in Nat /\ c[3] <= 4 * q
    BY <1>5, <1>7, <1>8, SMT
  <2>4. \A k \in Idx : k = 0 \/ k = 1 \/ k = 2 \/ k = 3
    BY SMT DEF Idx, N
  <2> QED
    BY <2>1, <2>2, <2>4
<1>10. ASSUME NEW e \in 0 .. 4 * B, NEW k \in Idx
       PROVE  \E d \in 0 .. B - 1, f \in 0 .. 4 * B :
                 /\ d = (e + c[k]) % B /\ f = (e + c[k]) \div B /\ e + c[k] = d + B * f
                 /\ e + c[k] \in Nat /\ e + c[k] < AccBound(W)
  <2>1. PICK x \in Nat : x = c[k] /\ x <= 4 * ((B - 1) * (B - 1))
    BY <1>5, <1>9
  <2>2. \E d \in 0 .. B - 1, f \in 0 .. 4 * B :
            d = (e + x) % B /\ f = (e + x) \div B /\ e + x = d + B * f /\ e + x < B * (B * B)
    <3>1. B \in Nat /\ B >= 8
      BY <1>1
    <3> QED
      BY ONLY <2>1, <3>1, e \in 0 .. 4 * B, ColumnStep
  <2>3. e + x \in Nat /\ AccBound(W) = B * (B * B)
    BY <1>1, SMT DEF AccBound
  <2> QED
    BY <2>1, <2>2, <2>3
<1>11. 0 \in 0 .. 4 * B /\ 0 \in Idx /\ 1 \in Idx /\ 2 \in Idx /\ 3 \in Idx
  BY SMT DEF Idx, N
<1>20. PICK d0 \in 0 .. B - 1, f0 \in 0 .. 4 * B :
          /\ d0 = (0 + c[0]) % B /\ f0 = (0 + c[0]) \div B /\ 0 + c[0] = d0 + B * f0
          /\ 0 + c[0] \in Nat /\ 0 + c[0] < AccBound(W)
  BY <1>10, <1>11
<1>21. PICK d1 \in 0 .. B - 1, f1 \in 0 .. 4 * B :
          /\ d1 = (f0 + c[1]) % B /\ f1 = (f0 + c[1]) \div B /\ f0 + c[1] = d1 + B * f1
          /\ f0 + c[1] \in Nat /\ f0 + c[1] < AccBound(W)
  BY <1>10, <1>11
<1>22. PICK d2 \in 0 .. B - 1, f2 \in 0 .. 4 * B :
          /\ d2 = (f1 + c[2]) % B /\ f2 = (f1 + c[2]) \div B /\ f1 + c[2] = d2 + B * f2
          /\ f1 + c[2] \in Nat /\ f1 + c[2] < AccBound(W)
  BY <1>10, <1>11
<1>23. PICK d3 \in 0 .. B - 1, f3 \in 0 .. 4 * B :
          /\ d3 = (f2 + c[3]) % B /\ f3 = (f2 + c[3]) \div B /\ f2 + c[3] = d3 + B * f3
          /\ f2 + c[3] \in Nat /\ f2 + c[3] < AccBound(W)
  BY <1>10, <1>11
<1>24. f2 + c[3] <= 7 * B - 3
  <2>1. x1 * h2 <= B - 1
    <3>1. h2 = 0 \/ h2 = 1
      BY <1>4, SMT
    <3>2. x1 * 0 = 0 /\ x1 * 1 = x1
      BY SMT
    <3> QED
      BY <1>1, <3>1, <3>2, SMT
  <2>2. PICK p \in Nat : p = x1 * h2
    BY <1>8, SMT
  <2> QED
    BY <1>1, <1>7, <2>1, <2>2, SMT
<1>25. f3 <= 6
  <2>1. CASE f3 >= 7
    <3>1. B * f3 >= B * 7 /\ B * f3 \in Nat
      BY <2>1, SMT
    <3> QED
      BY <1>1, <1>23, <1>24, <3>1, SMT
  <2> QED
    BY <2>1, SMT
<1>26. PICK g \in 0 .. B - 1 : g = f3 + h2
  BY <1>1, <1>4, <1>25, SMT
<1>30. Num(l) + Excess * Upper512(l) = Four(d0, d1, d2, d3, B) + Top * g
  <2>1. PICK c0 \in Nat, c1 \in Nat, c2 \in Nat, c3 \in Nat : c0 = c[0] /\ c1 = c[1] /\ c2 = c[2] /\ c3 = c[3]
    BY <1>9, <1>11
  <2>2. /\ Num(l) = l0 + B * (l1 + B * (l2 + B * l3)) /\ Excess = x0 + B * (x1 + B)
        /\ Upper512(l) = h0 + B * (h1 + B * h2)
    BY <1>1, <1>3, <1>4, <1>e DEF Num, Four, Excess, Upper512
  <2>3. Num(l) + Excess * Upper512(l) = c0 + B * (c1 + B * (c2 + B * (c3 + B * h2)))
    <3>1. /\ l0 \in Nat /\ l1 \in Nat /\ l2 \in Nat /\ l3 \in Nat /\ x0 \in Nat /\ x1 \in Nat
          /\ h0 \in Nat /\ h1 \in Nat /\ h2 \in Nat
      BY SMT
    <3>2. (l0 + B * (l1 + B * (l2 + B * l3))) + (x0 + B * (x1 + B)) * (h0 + B * (h1 + B * h2))
            = (l0 + x0 * h0) + B * ((l1 + x0 * h1 + x1 * h0) + B * ((l2 + x0 * h2 + x1 * h1 + h0)
                + B * ((l3 + x1 * h2 + h1) + B * h2)))
      BY ONLY B \in Nat, <3>1, SMT
    <3> QED
      BY <1>7, <2>1, <2>2, <3>2
  <2>4. c0 = d0 + B * f0 /\ f0 + c1 = d1 + B * f1 /\ f1 + c2 = d2 + B * f2 /\ f2 + c3 = d3 + B * f3
    <3>1. 0 + c0 = c0
      BY SMT
    <3> QED
      BY <1>20, <1>21, <1>22, <1>23, <2>1, <3>1
  <2>5. Four(d0, d1, d2, d3, B) + Top * g = d0 + B * (d1 + B * (d2 + B * (d3 + B * g)))
    <3>2. /\ Top = B * (B * (B * B)) /\ Four(d0, d1, d2, d3, B) = d0 + B * (d1 + B * (d2 + B * d3))
      BY <1>1 DEF Four, Top
    <3>3. d0 \in Nat /\ d1 \in Nat /\ d2 \in Nat /\ d3 \in Nat /\ g \in Nat
      BY SMT
    <3>4. d0 + B * (d1 + B * (d2 + B * d3)) + B * (B * (B * B)) * g
            = d0 + B * (d1 + B * (d2 + B * (d3 + B * g)))
      BY ONLY B \in Nat, <3>3, SMT
    <3> QED
      BY <3>2, <3>4
  <2>8. ASSUME NEW h \in Nat, NEW gg \in Nat, NEW f \in Nat, NEW ff \in Nat, NEW x \in Nat, NEW d \in Nat,
               h + f = gg, ff + x = d + B * f
        PROVE  (x + B * h) + ff = d + B * gg
    BY <2>8, SMT
  <2>10. PICK h3_ \in Nat, g3 \in Nat : h3_ = c3 + B * h2 /\ g3 = d3 + B * g /\ h3_ + f2 = g3
    <3>1. (c3 + B * h2) + f2 = d3 + B * g
      <4>1. h2 + f3 = g
        BY <1>26, SMT
      <4> QED
        BY <2>4, <2>8, <4>1
    <3> QED
      BY <3>1, SMT
  <2>11. PICK h2_ \in Nat, g2 \in Nat : h2_ = c2 + B * h3_ /\ g2 = d2 + B * g3 /\ h2_ + f1 = g2
    <3>1. (c2 + B * h3_) + f1 = d2 + B * g3
      BY <2>4, <2>8, <2>10
    <3> QED
      BY <3>1, SMT
  <2>12. PICK h1_ \in Nat, g1 \in Nat : h1_ = c1 + B * h2_ /\ g1 = d1 + B * g2 /\ h1_ + f0 = g1
    <3>1. (c1 + B * h2_) + f0 = d1 + B * g2
      BY <2>4, <2>8, <2>11
    <3> QED
      BY <3>1, SMT
  <2>14. c0 + B * h1_ = d0 + B * g1
    BY <2>4, <2>12, SMT
  <2> QED
    BY <2>3, <2>5, <2>10, <2>11, <2>12, <2>14
<1>32. PICK v : v[0] = 0 + c[0] /\ v[1] = f0 + c[1] /\ v[2] = f1 + c[2] /\ v[3] = f2 + c[3]
  <2> DEFINE v == [k \in 0 .. 3 |-> CASE k = 0 -> 0 + c[0] [] k = 1 -> f0 + c[1] [] k = 2 -> f1 + c[2]
                                     [] k = 3 -> f2 + c[3]]
  <2>1. v[0] = 0 + c[0] /\ v[1] = f0 + c[1] /\ v[2] = f1 + c[2] /\ v[3] = f2 + c[3]
    BY SMT
  <2> QED
    BY <2>1
<1>33. /\ v[0] % B = d0 /\ v[0] \div B = f0 /\ v[1] % B = d1 /\ v[1] \div B = f1
       /\ v[2] % B = d2 /\ v[2] \div B = f2 /\ v[3] % B = d3 /\ v[3] \div B = f3
  BY <1>20, <1>21, <1>22, <1>23, <1>32
<1>34. v[0] < 2^W * 2^W /\ v[3] < 2^W * 2^W /\ v[0] \div 2^W + l[1] < 2^W * 2^W
  <2>1. q = b2 - 2 * B + 1
    BY <1>2, <1>5, SMT
  <2>2. 0 + (l0 + x0 * h0) < b2
    BY <1>1, <1>8, <2>1, SMT
  <2>3. 8 * B <= b2
    BY <1>1, <1>2, SMT
  <2>4. f2 + c[3] < b2 /\ f0 + l1 < b2
    <3>1. f2 + c[3] \in Nat
      BY <1>23
    <3> QED
      BY <1>1, <1>24, <2>3, <3>1, SMT
  <2> QED
    BY <1>1, <1>2, <1>3, <1>7, <1>32, <1>33, <2>2, <2>4
<1>35. \A k \in Idx : /\ v[k] \in Nat /\ Fits(v[k], k \in {0, 3})
                      /\ v[k] = (IF k = 0 THEN 0 ELSE v[k - 1] \div 2^W) + c[k]
  <2>1. \A k \in Idx : k = 0 \/ k = 1 \/ k = 2 \/ k = 3
    BY SMT DEF Idx, N
  <2>2. 1 - 1 = 0 /\ 2 - 1 = 1 /\ 3 - 1 = 2
    BY SMT
  <2>3. ~(1 \in {0, 3}) /\ ~(2 \in {0, 3})
    BY SMT
  <2>4. 1 # 0 /\ 2 # 0 /\ 3 # 0
    BY SMT
  <2>5. \A k \in Idx : v[k] \in Nat /\ v[k] < AccBound(W)
    BY <1>20, <1>21, <1>22, <1>23, <1>32, <2>1
  <2>6. \A k \in Idx : Fits(v[k], k \in {0, 3})
    BY <1>34, <2>1, <2>3, <2>5 DEF Fits
  <2>7. \A k \in Idx : v[k] = (IF k = 0 THEN 0 ELSE v[k - 1] \div B) + c[k]
    BY <1>32, <1>33, <2>1, <2>2, <2>4
  <2> QED
    BY <1>1, <2>5, <2>6, <2>7
<1>36. Num(LowWords(v)) = Four(d0, d1, d2, d3, B)
  <2>1. /\ LowWords(v)[0] = v[0] % B /\ LowWords(v)[1] = v[1] % B /\ LowWords(v)[2] = v[2] % B
        /\ LowWords(v)[3] = v[3] % B
    BY <1>1, SMT DEF LowWords
  <2> QED
    BY <1>1, <1>33, <2>1 DEF Num
<1>37. v[3] \div 2^W + l[6] = g
  BY <1>1, <1>4, <1>26, <1>33
<1> QED
  BY <1>1, <1>30, <1>34, <1>35, <1>36, <1>37

LEMMA ExcessSquare ==
  ASSUME Sizes
  PROVE  Excess * Excess < 2 * Top
<1>1. PICK B \in Nat : B = 2^W /\ B >= 8 /\ NC0 \in 1 .. B - 1 /\ NC1 \in 0 .. B - 1 /\ 3 * NC1 + 3 <= B
  BY SizesOf
<1>2. PICK x0 \in Nat, x1 \in Nat : x0 = NC0 /\ x1 = NC1 /\ x0 < B /\ 3 * x1 + 3 <= B
  BY <1>1, SMT
<1>3. PICK b2 \in Nat : b2 = B * B
  BY SMT
<1>4. PICK b4 \in Nat : b4 = b2 * b2
  BY SMT
<1>5. PICK e \in Nat : e = Excess
  BY OrderOf
<1>6. e = x0 + B * x1 + b2
  <2>1. x0 + B * (x1 + B) = x0 + B * x1 + B * B
    BY SMT
  <2> QED
    BY <1>1, <1>2, <1>3, <1>5, <2>1 DEF Excess
<1>7. 3 * e < 4 * b2
  <2>1. B * (3 * x1) <= B * (B - 3)
    BY <1>2, SMT
  <2>2. B * (3 * x1) = 3 * (B * x1) /\ B * (B - 3) = b2 - 3 * B
    BY <1>3, SMT
  <2>3. PICK m \in Nat : m = B * x1
    BY SMT
  <2>4. 3 * m <= b2 - 3 * B
    BY <2>1, <2>2, <2>3
  <2> QED
    BY <1>2, <1>3, <1>6, <2>3, <2>4, SMT
<1>8. PICK f \in Nat : f = e * e
  BY SMT
<1>9. 9 * f <= 16 * b4
  <2>1. (3 * e) * (3 * e) <= (4 * b2) * (4 * b2)
    BY <1>7, SMT
  <2>2. (3 * e) * (3 * e) = 9 * (e * e) /\ (4 * b2) * (4 * b2) = 16 * (b2 * b2)
    BY SMT
  <2> QED
    BY <1>4, <1>8, <2>1, <2>2
<1>10. Top = b4 /\ b4 > 0
  <2>1. B * (B * (B * B)) = (B * B) * (B * B)
    BY SMT
  <2>2. b2 >= 1
    BY <1>1, <1>3, SMT
  <2>3. b4 >= 1
    BY <1>4, <2>2, SMT
  <2> QED
    BY <1>1, <1>3, <1>4, <2>1, <2>3, SMT DEF Top
<1>11. f < 2 * b4
  BY <1>9, <1>10, SMT
<1> QED
  BY <1>5, <1>8, <1>10, <1>11

LEMMA Upper512Type ==
  ASSUME Sizes, NEW l, l \in [0 .. 6 -> Word(W)]
  PROVE  Upper512(l) \in Nat /\ Num(l) \in Nat
<1>1. PICK B \in Nat : B = 2^W
  BY SizesOf
<1>2. PICK h0 \in Nat, h1 \in Nat, h2 \in Nat : h0 = l[4] /\ h1 = l[5] /\ h2 = l[6]
  BY <1>1, SMT DEF Word
<1>3. PICK l0 \in Nat, l1 \in Nat, l2 \in Nat, l3 \in Nat : l0 = l[0] /\ l1 = l[1] /\ l2 = l[2] /\ l3 = l[3]
  BY <1>1, SMT DEF Word
<1>4. h0 + B * (h1 + B * h2) \in Nat
  BY SMT
<1> QED
  BY <1>1, <1>2, <1>3, <1>4, FourType DEF Upper512, Num

(* The second fold: four words and an excess of at most 2, for what the     *)
(* first one can have left; its VERIFY_CHECK and those of its macros hold:  *)
(* the second reduction in secp256k1_scalar_reduce_512.                     *)
THEOREM Fold385Exact ==
  ASSUME Sizes, NEW l, l \in [0 .. 6 -> Word(W)], l[6] <= 1,
         Num(l) + Top * Upper512(l) < Top * (1 + Excess), NEW x, x = Fold385(l)
  PROVE  /\ x.ok /\ x.p \in [0 .. 4 -> Word(W)] /\ x.p[4] \in 0 .. 2
         /\ Num(x.p) + Top * x.p[4] = Num(l) + Excess * Upper512(l)
<1>1. PICK B \in Nat : B = 2^W /\ B >= 8
  BY SizesOf
<1>2. PICK c : c = FoldSums385(l)
  OBVIOUS
<1>3. PICK v : /\ \A k \in Idx : /\ v[k] \in Nat /\ Fits(v[k], k \in {0, 3})
                                 /\ v[k] = (IF k = 0 THEN 0 ELSE v[k - 1] \div 2^W) + c[k]
               /\ v[0] \div 2^W + l[1] < 2^W * 2^W
               /\ v[3] \div 2^W + l[6] \in 0 .. 2^W - 1
               /\ Num(LowWords(v)) + Top * (v[3] \div 2^W + l[6]) = Num(l) + Excess * Upper512(l)
  BY <1>2, FoldChain385
<1>c. PICK cols : cols = [k \in Idx |-> FoldColumn385(l, k)]
  OBVIOUS
<1>i. Idx = 0 .. 3 /\ 4 - 1 = 3
  BY SMT DEF Idx, N
<1>4. AddUp(cols, 4, {0, 3}, v)
  <2>1. ASSUME NEW k \in Idx
        PROVE  /\ \A s : Holds(s, IF k = 0 THEN 0 ELSE v[k - 1] \div 2^W)
                           => Holds(AfterColumn(s, cols[k], W), v[k])
               /\ k \in {0, 3} => v[k] < 2^W * 2^W
    <3>1. PICK e : e = IF k = 0 THEN 0 ELSE v[k - 1] \div 2^W
      OBVIOUS
    <3>2. e \in Nat
      <4>1. CASE k = 0
        BY <3>1, <4>1
      <4>2. CASE k # 0
        <5>1. k - 1 \in Idx
          BY <1>i, <4>2, SMT
        <5>2. PICK y \in Nat : y = v[k - 1]
          BY <1>3, <5>1
        <5>3. y \div B \in Nat
          BY <1>1, SMT
        <5> QED
          BY <1>1, <3>1, <4>2, <5>2, <5>3
      <4> QED
        BY <4>1, <4>2
    <3>3. v[k] = e + c[k] /\ Fits(v[k], k \in {0, 3})
      BY <1>3, <3>1
    <3>4. Fits(e + c[k], k \in {0, 3})
      BY <3>3
    <3>5. k = 0 => e = 0
      BY <3>1
    <3>6. k = 1 => e + l[1] < 2^W * 2^W
      <4>1. 1 - 1 = 0 /\ 1 # 0
        BY SMT
      <4> QED
        BY <1>3, <3>1, <4>1
    <3>7. ASSUME NEW s, Holds(s, e) PROVE Holds(AfterColumn(s, cols[k], W), v[k])
      <4>1. Holds(AfterColumn(s, FoldColumn385(l, k), W), e + c[k])
        BY <1>2, <3>2, <3>4, <3>5, <3>6, <3>7, FoldAdds385
      <4> QED
        BY <1>c, <3>3, <4>1
    <3> QED
      BY <3>1, <3>3, <3>7 DEF Fits
  <2> QED
    BY <1>3, <1>i, <2>1 DEF AddUp
<1>5. PICK z : z = AfterColumns(cols, 4, {0, 3}, W)
  OBVIOUS
<1>6. /\ Holds(z.acc, v[3] \div 2^W) /\ z.acc.c0 = v[3] \div 2^W
      /\ z.d = [i \in 0 .. 4 |-> IF i <= 3 THEN v[i] % 2^W ELSE 0]
  <2>1. 4 \in 4 .. 7 /\ 4 - 1 = 3 /\ 3 \in {0, 3}
    BY SMT
  <2>2. PICK n, fast : n = 4 /\ fast = {0, 3}
    OBVIOUS
  <2>3. /\ n \in 4 .. 7 /\ n - 1 \in fast /\ AddUp(cols, n, fast, v) /\ z = AfterColumns(cols, n, fast, W)
    BY <1>4, <1>5, <2>1, <2>2
  <2>4. /\ Holds(z.acc, v[n - 1] \div 2^W) /\ z.acc.c1 = 0 /\ z.acc.c0 = v[n - 1] \div 2^W
        /\ z.d = [i \in 0 .. n |-> IF i <= n - 1 THEN v[i] % 2^W ELSE 0]
    BY ONLY Sizes, <2>3, ColumnsExact
  <2> QED
    BY <2>1, <2>2, <2>4
<1>7. /\ x.p = [z.d EXCEPT ![4] = Low(z.acc.c0 + l[6], W)]
      /\ x.ok = (z.acc.ok /\ z.acc.c0 + l[6] <= 2)
  <2>1. 4 + 2 = 6 /\ 4 - 1 = 3
    BY SMT
  <2>2. x = Folded385(z, l[6])
    BY <1>c, <1>5, <2>1 DEF Fold385, N, Half
  <2>3. x = [p |-> [z.d EXCEPT ![4] = Low(z.acc.c0 + l[6], W)], ok |-> z.acc.ok /\ z.acc.c0 + l[6] <= 2]
    BY <2>2 DEF Folded385, N
  <2> QED
    BY <2>3
<1>8. PICK g \in 0 .. B - 1 : g = v[3] \div 2^W + l[6] /\ g = z.acc.c0 + l[6]
  BY <1>1, <1>3, <1>6
<1>9. Low(z.acc.c0 + l[6], W) = g
  <2>1. g % B = g
    BY <1>1, SMT
  <2> QED
    BY <1>1, <1>8, <2>1 DEF Low
<1>10. x.p = [i \in 0 .. 4 |-> IF i = 4 THEN g ELSE v[i] % B]
  <2>1. x.p = [z.d EXCEPT ![4] = g]
    BY <1>7, <1>9
  <2>2. x.p = [i \in 0 .. 4 |-> IF i = 4 THEN g ELSE IF i <= 3 THEN v[i] % B ELSE 0]
    BY <1>1, <1>6, <2>1
  <2>3. \A i \in 0 .. 4 : i = 4 \/ (i # 4 /\ i <= 3)
    BY SMT
  <2> QED
    BY <2>2, <2>3
<1>11. x.p \in [0 .. 4 -> Word(W)] /\ x.p[4] = g
  <2>1. ASSUME NEW i \in 0 .. 4 PROVE (IF i = 4 THEN g ELSE v[i] % B) \in 0 .. B - 1
    <3>1. CASE i = 4
      BY <3>1
    <3>2. CASE i # 4
      <4>1. i \in Idx
        BY <1>i, <3>2, SMT
      <4>2. PICK y \in Nat : y = v[i]
        BY <1>3, <4>1
      <4>3. y % B \in 0 .. B - 1
        BY <1>1, SMT
      <4> QED
        BY <3>2, <4>2, <4>3
    <3> QED
      BY <3>1, <3>2
  <2>2. 4 \in 0 .. 4
    BY SMT
  <2>3. x.p[4] = g
    BY <1>10, <2>2
  <2> QED
    BY <1>1, <1>10, <2>1, <2>3 DEF Word
<1>12. Num(x.p) = Num(LowWords(v))
  <2>1. /\ LowWords(v)[0] = v[0] % B /\ LowWords(v)[1] = v[1] % B /\ LowWords(v)[2] = v[2] % B
        /\ LowWords(v)[3] = v[3] % B
    BY <1>1, SMT DEF LowWords
  <2>2. x.p[0] = v[0] % B /\ x.p[1] = v[1] % B /\ x.p[2] = v[2] % B /\ x.p[3] = v[3] % B
    BY <1>10, SMT
  <2> QED
    BY <2>1, <2>2 DEF Num
<1>13. Num(x.p) + Top * g = Num(l) + Excess * Upper512(l)
  BY <1>3, <1>8, <1>12
<1>14. g <= 2
  <2>1. PICK u \in Nat, w \in Nat : u = Upper512(l) /\ w = Num(l)
    BY Upper512Type
  <2>2. PICK t \in Nat, e \in Nat : t = Top /\ e = Excess /\ e * e < 2 * t /\ t > 0
    <3>1. Top \in Nat /\ Excess \in Nat /\ Excess > 0 /\ 4 * Excess <= Top
      BY OrderOf
    <3>2. Top > 0
      BY <3>1, SMT
    <3> QED
      BY <3>1, <3>2, ExcessSquare
  <2>3. w + t * u < t * (1 + e)
    BY <2>1, <2>2
  <2>4. u <= e
    <3>1. CASE u >= 1 + e
      <4>1. t * u >= t * (1 + e) /\ t * u \in Nat /\ t * (1 + e) \in Nat
        BY <3>1, SMT
      <4> QED
        BY <2>3, <4>1, SMT
    <3> QED
      BY <3>1, SMT
  <2>5. e * u <= e * e /\ e * u \in Nat /\ e * e \in Nat
    BY <2>4, SMT
  <2>6. w < t
    <3>1. l \in [0 .. 6 -> Word(W)] => WordsOf([i \in Idx |-> l[i]])
      BY SMT DEF WordsOf, Idx, N
    <3>2. Num([i \in Idx |-> l[i]]) = Num(l)
      BY SMT DEF Num, Idx, N
    <3> QED
      BY <2>1, <2>2, <3>1, <3>2, NumBelowTop
  <2>7. w + e * u < 3 * t
    BY <2>2, <2>5, <2>6, SMT
  <2>8. PICK y \in Nat : y = Num(x.p)
    <3>1. WordsOf([i \in Idx |-> x.p[i]])
      BY <1>11, SMT DEF WordsOf, Idx, N
    <3>2. Num([i \in Idx |-> x.p[i]]) = Num(x.p)
      BY SMT DEF Num, Idx, N
    <3> QED
      BY <3>1, <3>2, NumType
  <2>9. y + t * g = w + e * u
    BY <1>13, <2>1, <2>2, <2>8
  <2>10. CASE g >= 3
    <3>1. t * g >= t * 3 /\ t * g \in Nat
      BY <2>10, SMT
    <3>2. PICK m \in Nat : m = e * u
      BY <2>5
    <3> QED
      BY <2>7, <2>9, <3>1, <3>2, SMT
  <2> QED
    BY <2>10, SMT
<1>15. x.ok
  BY <1>6, <1>7, <1>8, <1>14 DEF Holds
<1>16. g \in 0 .. 2
  BY <1>14, SMT
<1> QED
  BY <1>11, <1>13, <1>15, <1>16

-----------------------------------------------------------------------------
(* Folding the fifth word, and the whole reduction.                         *)
LEMMA FoldTopExact ==
  ASSUME Sizes, NEW p, p \in [0 .. 4 -> Word(W)], p[4] \in 0 .. 2, NEW s, s = FoldTop(p)
  PROVE  /\ WordsOf(s.d) /\ s.c \in Nat /\ Num(p) \in Nat /\ Num(p) < Top
         /\ Num(s.d) + Top * s.c = Num(p) + p[4] * Excess
<1>1. PICK d : d = [i \in Idx |-> p[i]]
  OBVIOUS
<1>2. WordsOf(d)
  BY <1>1, SMT DEF WordsOf, Idx, N
<1>3. Num(d) = Num(p)
  BY <1>1, SMT DEF Num, Idx, N
<1>4. PICK k \in Nat : k = p[4]
  BY SMT
<1>5. PICK t : t = [i \in Idx |-> d[i] + k * (IF i <= Half THEN N_C[i] ELSE 0)]
  OBVIOUS
<1>6. /\ t[0] \in Nat /\ t[1] \in Nat /\ t[2] \in Nat /\ t[3] \in Nat
      /\ Num(t) = Num(p) + k * Excess
  BY <1>2, <1>3, <1>5, NumPlusExcess
<1>7. s = Wrapped(t)
  <2>1. N_C[0] \in Nat /\ N_C[1] \in Nat /\ N_C[2] \in Nat
    BY SizesOf, SMT DEF N_C, Half
  <2>2. \A i \in Idx : k * (IF i <= Half THEN N_C[i] ELSE 0) = IF i <= Half THEN N_C[i] * k ELSE 0
    <3>1. ASSUME NEW n \in Nat PROVE k * n = n * k /\ k * 0 = 0
      BY SMT
    <3>2. \A i \in Idx : i <= Half => N_C[i] \in Nat
      BY <2>1, SMT DEF Idx, N, Half
    <3>3. k * 0 = 0
      BY SMT
    <3> QED
      BY <3>1, <3>2, <3>3
  <2>3. t = [i \in Idx |-> p[i] + (IF i <= Half THEN N_C[i] * p[4] ELSE 0)]
    BY <1>1, <1>4, <1>5, <2>2
  <2> QED
    BY <2>3 DEF FoldTop, N
<1>8. WordsOf(s.d) /\ s.c \in Nat /\ Num(t) = Num(s.d) + Top * s.c
  BY <1>6, <1>7, WrappedExact
<1>9. Num(p) \in Nat /\ Num(p) < Top
  BY <1>2, <1>3, NumType, NumBelowTop
<1> QED
  BY <1>4, <1>6, <1>8, <1>9

(* The reduction of eight words: a scalar, congruent to them modulo the     *)
(* order, every VERIFY_CHECK on the way holding:                            *)
(* secp256k1_scalar_reduce_512.                                             *)
THEOREM Reduce512Exact ==
  ASSUME Sizes, NEW l, l \in [0 .. 7 -> Word(W)], NEW r, r = scalar_reduce_512(l)
  PROVE  IsScalar(r) /\ \E k \in Nat : Num(l) + Top * Num(Upper(l)) = Num(r.d) + k * Order
<1>1. PICK x : x = Fold512(l)
  OBVIOUS
<1>2. /\ x.ok /\ x.m \in [0 .. 6 -> Word(W)] /\ x.m[6] <= 1
      /\ Num(x.m) + Top * Upper512(x.m) = Num(l) + Excess * Num(Upper(l))
  BY <1>1, Fold512Exact
<1>3. PICK o \in Nat, e \in Nat, t \in Nat :
          o = Order /\ e = Excess /\ t = Top /\ o + e = t /\ e > 0 /\ 4 * e <= t
  BY OrderOf
<1>4. PICK a \in Nat, h \in Nat : a = Num(l) /\ h = Num(Upper(l)) /\ a < t /\ h < t
  <2>1. WordsOf([i \in Idx |-> l[i]]) /\ WordsOf(Upper(l))
    BY SMT DEF WordsOf, Upper, Idx, N
  <2>2. Num([i \in Idx |-> l[i]]) = Num(l)
    BY SMT DEF Num, Idx, N
  <2>3. Num(l) \in Nat /\ Num(l) < Top
    BY <2>1, <2>2, NumType, NumBelowTop
  <2>4. Num(Upper(l)) \in Nat /\ Num(Upper(l)) < Top
    BY <2>1, NumType, NumBelowTop
  <2> QED
    BY <1>3, <2>3, <2>4
<1>5. PICK b \in Nat, u \in Nat : b = Num(x.m) /\ u = Upper512(x.m)
  BY <1>2, Upper512Type
<1>6. b + t * u = a + e * h
  BY <1>2, <1>3, <1>4, <1>5
<1>7. b + t * u < t * (1 + e)
  <2>1. e * h <= e * t
    BY <1>4, SMT
  <2>2. t * (1 + e) = t + e * t
    BY SMT
  <2>3. e * h \in Nat /\ e * t \in Nat
    BY SMT
  <2> QED
    BY <1>4, <1>6, <2>1, <2>2, <2>3, SMT
<1>8. PICK y : y = Fold385(x.m)
  OBVIOUS
<1>9. /\ y.ok /\ y.p \in [0 .. 4 -> Word(W)] /\ y.p[4] \in 0 .. 2
      /\ Num(y.p) + Top * y.p[4] = Num(x.m) + Excess * Upper512(x.m)
  <2>1. Num(x.m) + Top * Upper512(x.m) < Top * (1 + Excess)
    BY <1>3, <1>5, <1>7
  <2> QED
    BY <1>2, <1>8, <2>1, Fold385Exact
<1>10. PICK s : s = FoldTop(y.p)
  OBVIOUS
<1>11. /\ WordsOf(s.d) /\ s.c \in Nat /\ Num(y.p) \in Nat /\ Num(y.p) < Top
       /\ Num(s.d) + Top * s.c = Num(y.p) + y.p[4] * Excess
  BY <1>9, <1>10, FoldTopExact
<1>12. PICK c \in Nat, f \in 0 .. 2 : c = Num(y.p) /\ f = y.p[4] /\ c < t
  BY <1>3, <1>9, <1>11
<1>13. PICK v \in Nat : v = c + f * e /\ v < 2 * o
  <2>1. f * e <= 2 * e
    BY SMT
  <2>2. f * e \in Nat
    BY SMT
  <2>3. c + f * e < 2 * o
    BY <1>3, <1>12, <2>1, <2>2, SMT
  <2> QED
    BY <2>2, <2>3, SMT
<1>14. v = Num(s.d) + Top * s.c /\ v < 2 * Order
  BY <1>3, <1>11, <1>12, <1>13
<1>15. PICK ok \in BOOLEAN : ok = (x.ok /\ y.ok) /\ ok
  <2>1. (x.ok /\ y.ok) = TRUE
    BY <1>2, <1>9
  <2> QED
    BY <2>1
<1>16. r = Reduced(s, ok)
  BY <1>1, <1>8, <1>10, <1>15 DEF scalar_reduce_512, Fold512Of, Fold385Of
<1>17. /\ r \in [d : [Idx -> Word(W)], ok : BOOLEAN] /\ (r.ok <=> ok) /\ Num(r.d) < Order
       /\ Num(r.d) = v \/ Num(r.d) = v - Order
  BY <1>11, <1>14, <1>16, ReducedExact
<1>18. IsScalar(r)
  BY <1>15, <1>17 DEF IsScalar
<1>19. PICK j \in Nat, w \in Nat : w = Num(r.d) /\ v = w + j * o
  <2>1. CASE Num(r.d) = v
    <3>1. v = v + 0 * o
      BY SMT
    <3> QED
      BY <2>1, <3>1
  <2>2. CASE Num(r.d) = v - Order
    <3>1. WordsOf(r.d)
      BY <1>17 DEF WordsOf
    <3>2. PICK w \in Nat : w = Num(r.d)
      BY <3>1, NumType
    <3>3. v = w + 1 * o
      BY <1>3, <2>2, <3>2, SMT
    <3> QED
      BY <3>2, <3>3
  <2> QED
    BY <1>17, <2>1, <2>2
<1>20. a + t * h = w + (h + u + f + j) * o
  <2>1. c + t * f = b + e * u
    BY <1>3, <1>5, <1>9, <1>12
  <2>2. f \in Nat
    BY SMT
  <2>3. a + (o + e) * h = (a + e * h) + o * h
    BY SMT
  <2>4. b + (o + e) * u = (b + e * u) + o * u
    BY SMT
  <2>5. c + (o + e) * f = (c + f * e) + o * f
    BY <2>2, SMT
  <2>6. (h + u + f + j) * o = o * h + o * u + o * f + j * o
    BY <2>2, SMT
  <2>7. PICK oh \in Nat, ou \in Nat, of \in Nat, jo \in Nat, eh \in Nat, eu \in Nat, fe \in Nat :
            oh = o * h /\ ou = o * u /\ of = o * f /\ jo = j * o /\ eh = e * h /\ eu = e * u /\ fe = f * e
    BY <2>2, SMT
  <2>8. /\ a + t * h = a + eh + oh /\ a + eh = b + eu + ou /\ b + eu = c + fe + of /\ c + fe = w + jo
    BY <1>3, <1>6, <1>13, <1>19, <2>1, <2>3, <2>4, <2>5, <2>7
  <2>9. (h + u + f + j) * o = oh + ou + of + jo
    BY <2>6, <2>7
  <2> QED
    BY <2>7, <2>8, <2>9, SMT
<1>21. h + u + f + j \in Nat
  BY SMT
<1> QED
  BY <1>3, <1>4, <1>18, <1>19, <1>20, <1>21

LEMMA ProductReduced ==
  ASSUME Sizes, NEW x, x.ok, x.l \in [0 .. 7 -> Word(W)], NEW ok \in BOOLEAN, ok,
         NEW r, r = ReducedProduct(x, ok)
  PROVE  IsScalar(r) /\ \E k \in Nat : Num(x.l) + Top * Num(Upper(x.l)) = Num(r.d) + k * Order
<1>1. PICK y : y = scalar_reduce_512(x.l)
  OBVIOUS
<1>2. IsScalar(y) /\ \E k \in Nat : Num(x.l) + Top * Num(Upper(x.l)) = Num(y.d) + k * Order
  BY <1>1, Reduce512Exact
<1>3. r = [y EXCEPT !.ok = @ /\ x.ok /\ ok]
  BY <1>1 DEF ReducedProduct
<1>4. y.ok /\ y \in [d : [Idx -> Word(W)], ok : BOOLEAN]
  BY <1>2 DEF IsScalar
<1>5. r.d = y.d /\ r \in [d : [Idx -> Word(W)], ok : BOOLEAN] /\ r.ok = (y.ok /\ x.ok /\ ok)
  BY <1>3, <1>4
<1>6. r.ok
  BY <1>4, <1>5
<1>7. IsScalar(r)
  BY <1>2, <1>5, <1>6 DEF IsScalar
<1> QED
  BY <1>2, <1>5, <1>7

(* The product of two scalars modulo the order: secp256k1_scalar_mul.       *)
THEOREM MulExact ==
  ASSUME Sizes, NEW a, IsScalar(a), NEW b, IsScalar(b), NEW r, r = scalar_mul(a, b)
  PROVE  IsScalar(r) /\ \E k \in Nat : Num(a.d) * Num(b.d) = Num(r.d) + k * Order
<1>1. WordsOf(a.d) /\ WordsOf(b.d) /\ a.ok /\ b.ok
  BY DEF IsScalar, WordsOf
<1>2. PICK x : x = scalar_mul_512(a.d, b.d)
  OBVIOUS
<1>3. /\ x.ok /\ x.l \in [0 .. 7 -> Word(W)]
      /\ Num(x.l) + Top * Num(Upper(x.l)) = Num(a.d) * Num(b.d)
  BY <1>1, <1>2, MulWordsExact
<1>4. PICK ok \in BOOLEAN : ok = (a.ok /\ b.ok) /\ ok
  <2>1. (a.ok /\ b.ok) = TRUE
    BY <1>1
  <2> QED
    BY <2>1
<1>5. r = ReducedProduct(x, ok)
  BY <1>2, <1>4 DEF scalar_mul
<1> QED
  BY <1>3, <1>4, <1>5, ProductReduced

(* The square of a scalar modulo the order, each product once:              *)
(* secp256k1_scalar_sqr.                                                    *)
THEOREM SqrExact ==
  ASSUME Sizes, NEW a, IsScalar(a), NEW r, r = scalar_sqr(a)
  PROVE  IsScalar(r) /\ \E k \in Nat : Num(a.d) * Num(a.d) = Num(r.d) + k * Order
<1>1. WordsOf(a.d) /\ a.ok
  BY DEF IsScalar, WordsOf
<1>2. PICK x : x = scalar_sqr_512(a.d)
  OBVIOUS
<1>3. /\ x.ok /\ x.l \in [0 .. 7 -> Word(W)]
      /\ Num(x.l) + Top * Num(Upper(x.l)) = Num(a.d) * Num(a.d)
  BY <1>1, <1>2, SqrWordsExact
<1>4. PICK ok \in BOOLEAN : ok = a.ok /\ ok
  <2>1. a.ok \in BOOLEAN
    BY DEF IsScalar
  <2> QED
    BY <1>1, <2>1
<1>5. r = ReducedProduct(x, ok)
  BY <1>2, <1>4 DEF scalar_sqr
<1> QED
  BY <1>3, <1>4, <1>5, ProductReduced

-----------------------------------------------------------------------------
(* What is used of the powers of two when four words and s bits are cut     *)
(* off, as with the code's shift of 272.                                    *)
Shifts(s) ==
    /\ s \in 1 .. W - 1 /\ {2^s, 2^(s - 1), 2^(W - s)} \subseteq Nat \ {0} /\ 2^0 = 1
    /\ 2^s * 2^(W - s) = 2^W /\ 2^s = 2 * 2^(s - 1)

LEMMA DigitIs ==
  ASSUME NEW B, B \in Nat, NEW d, d \in 0 .. B - 1, NEW e, e \in Nat, NEW x, x = d + B * e
  PROVE  x % B = d /\ x \div B = e
<1>1. B > 0 /\ x \in Nat
  BY SMT
<1>2. PICK f \in 0 .. B - 1, g \in Nat : f = x % B /\ g = x \div B /\ x = f + B * g
  BY <1>1, Digit
<1>3. ~(g < e)
  <2>1. g < e => f + B * g < d + B * e
    BY <1>2, DigitLess
  <2>2. f + B * g = d + B * e /\ d + B * e \in Nat
    BY <1>2, SMT
  <2> QED
    BY <2>1, <2>2, SMT
<1>4. ~(e < g)
  <2>1. e < g => d + B * e < f + B * g
    BY <1>2, DigitLess
  <2>2. f + B * g = d + B * e /\ d + B * e \in Nat
    BY <1>2, SMT
  <2> QED
    BY <2>1, <2>2, SMT
<1>5. g = e
  BY <1>3, <1>4, SMT
<1>6. PICK m \in Nat : m = B * e
  BY SMT
<1>7. f = d
  BY <1>2, <1>5, <1>6, SMT
<1> QED
  BY <1>2, <1>5, <1>7

(* A word split at bit s, and the lower part moved to the word below.       *)
LEMMA SplitAt ==
  ASSUME NEW B, B \in Nat, NEW p, p \in Nat, p > 0, NEW g, g \in Nat, g > 0, p * g = B,
         NEW h, h \in 0 .. B - 1
  PROVE  \E y \in 0 .. g - 1, z \in 0 .. p - 1 :
            h = p * y + z /\ h \div p = y /\ (h * g) % B = g * z
<1>1. PICK z \in 0 .. p - 1, y \in Nat : z = h % p /\ y = h \div p /\ h = z + p * y
  BY Digit, SMT
<1>2. y < g
  <2>1. CASE y >= g
    <3>1. p * y >= p * g
      BY <2>1, SMT
    <3>2. PICK m \in Nat : m = p * y
      BY SMT
    <3> QED
      BY <1>1, <3>1, <3>2, SMT
  <2> QED
    BY <2>1, SMT
<1>3. PICK w \in Nat : w = g * z
  BY SMT
<1>4. w < B
  <2>1. g * z <= g * (p - 1)
    BY SMT
  <2>2. g * (p - 1) = B - g
    BY SMT
  <2> QED
    BY <1>3, <2>1, <2>2, SMT
<1>5. h * g = w + B * y
  <2>1. (z + p * y) * g = g * z + (p * g) * y
    BY SMT
  <2> QED
    BY <1>1, <1>3, <2>1
<1>6. w \in 0 .. B - 1
  BY <1>3, <1>4, SMT
<1>7. (h * g) % B = w
  BY <1>5, <1>6, DigitIs
<1>8. y \in 0 .. g - 1 /\ h = p * y + z
  BY <1>1, <1>2, SMT
<1> QED
  BY <1>1, <1>3, <1>7, <1>8

LEMMA ShiftedWords ==
  ASSUME Sizes, NEW h, WordsOf(h), NEW s, Shifts(s),
         NEW t, t = [i \in Idx |-> High(h[i], s) + (IF i = N - 1 THEN 0 ELSE Low(h[i + 1] * 2^(W - s), W))]
  PROVE  /\ WordsOf(t)
         /\ \E z \in 0 .. 2^s - 1 :
               /\ Num(h) = 2^s * Num(t) + z /\ Low(h[0], s) = z
               /\ High(h[0], s - 1) % 2 = 1 <=> z >= 2^(s - 1)
<1>1. PICK B \in Nat : B = 2^W /\ B >= 8 /\ W \in Nat
  BY SizesOf DEF Sizes
<1>2. PICK p \in Nat, g \in Nat, q \in Nat :
          p = 2^s /\ g = 2^(W - s) /\ q = 2^(s - 1) /\ p > 0 /\ g > 0 /\ q > 0 /\ p * g = B /\ p = 2 * q
  <2>1. 2^s \in Nat \ {0} /\ 2^(W - s) \in Nat \ {0} /\ 2^(s - 1) \in Nat \ {0}
    BY DEF Shifts
  <2>2. 2^s > 0 /\ 2^(W - s) > 0 /\ 2^(s - 1) > 0
    BY <2>1, SMT
  <2> QED
    BY <1>1, <2>1, <2>2 DEF Shifts
<1>3. s \in 1 .. W - 1
  BY DEF Shifts
<1>4. PICK h0 \in 0 .. B - 1, h1 \in 0 .. B - 1, h2 \in 0 .. B - 1, h3 \in 0 .. B - 1 :
          h0 = h[0] /\ h1 = h[1] /\ h2 = h[2] /\ h3 = h[3]
  BY <1>1, WordsAre
<1>a. B \in Nat /\ p \in Nat /\ p > 0 /\ g \in Nat /\ g > 0 /\ p * g = B
  BY <1>2
<1>b. ASSUME NEW x, x \in 0 .. B - 1
      PROVE  \E y \in 0 .. g - 1, z \in 0 .. p - 1 :
                x = p * y + z /\ x \div p = y /\ (x * g) % B = g * z
  BY ONLY <1>a, <1>b, SplitAt
<1>6. PICK y0 \in 0 .. g - 1, z0 \in 0 .. p - 1 : h0 = p * y0 + z0 /\ h0 \div p = y0 /\ (h0 * g) % B = g * z0
  BY <1>b
<1>7. PICK y1 \in 0 .. g - 1, z1 \in 0 .. p - 1 : h1 = p * y1 + z1 /\ h1 \div p = y1 /\ (h1 * g) % B = g * z1
  BY <1>b
<1>8. PICK y2 \in 0 .. g - 1, z2 \in 0 .. p - 1 : h2 = p * y2 + z2 /\ h2 \div p = y2 /\ (h2 * g) % B = g * z2
  BY <1>b
<1>9. PICK y3 \in 0 .. g - 1, z3 \in 0 .. p - 1 : h3 = p * y3 + z3 /\ h3 \div p = y3 /\ (h3 * g) % B = g * z3
  BY <1>b
<1>10. /\ 0 \in Idx /\ 1 \in Idx /\ 2 \in Idx /\ 3 \in Idx /\ N - 1 = 3
       /\ 0 + 1 = 1 /\ 1 + 1 = 2 /\ 2 + 1 = 3 /\ 0 # 3 /\ 1 # 3 /\ 2 # 3
  BY SMT DEF Idx, N
<1>11. ASSUME NEW i \in Idx
       PROVE  t[i] = (h[i] \div p) + (IF i = 3 THEN 0 ELSE ((h[i + 1] * g) % B))
  BY <1>1, <1>2, <1>10 DEF High, Low
<1>12. t[0] = y0 + g * z1
  <2>1. t[0] = (h[0] \div p) + ((h[1] * g) % B)
    BY <1>10, <1>11
  <2> QED
    BY <1>4, <1>6, <1>7, <2>1
<1>13. t[1] = y1 + g * z2
  <2>1. t[1] = (h[1] \div p) + ((h[2] * g) % B)
    BY <1>10, <1>11
  <2> QED
    BY <1>4, <1>7, <1>8, <2>1
<1>14. t[2] = y2 + g * z3
  <2>1. t[2] = (h[2] \div p) + ((h[3] * g) % B)
    BY <1>10, <1>11
  <2> QED
    BY <1>4, <1>8, <1>9, <2>1
<1>15. t[3] = y3
  <2>1. t[3] = (h[3] \div p) + 0
    BY <1>10, <1>11
  <2>2. y3 + 0 = y3
    BY SMT
  <2> QED
    BY <1>4, <1>9, <2>1, <2>2
<1>16. ASSUME NEW y \in 0 .. g - 1, NEW z \in 0 .. p - 1 PROVE y + g * z \in 0 .. B - 1 /\ y \in 0 .. B - 1
  <2>1. g * z <= g * (p - 1) /\ g * (p - 1) = B - g /\ g * z \in Nat
    <3>1. g * z <= g * (p - 1) /\ g * z \in Nat
      BY SMT
    <3>2. g * (p - 1) = B - g
      BY <1>2, SMT
    <3> QED
      BY <3>1, <3>2
  <2>2. PICK m \in Nat : m = g * z
    BY <2>1
  <2> QED
    BY <2>1, <2>2, SMT
<1>17. WordsOf(t)
  <2>1. t[0] \in 0 .. B - 1 /\ t[1] \in 0 .. B - 1 /\ t[2] \in 0 .. B - 1 /\ t[3] \in 0 .. B - 1
    BY <1>12, <1>13, <1>14, <1>15, <1>16
  <2>2. \A i \in Idx : i = 0 \/ i = 1 \/ i = 2 \/ i = 3
    BY SMT DEF Idx, N
  <2>3. \A i \in Idx : t[i] \in 0 .. B - 1
    BY <2>1, <2>2
  <2>4. t = [i \in Idx |-> t[i]]
    OBVIOUS
  <2> QED
    BY <1>1, <2>3, <2>4 DEF WordsOf, Word
<1>18. Num(h) = p * Num(t) + z0
  <2>1. Num(h) = h0 + B * (h1 + B * (h2 + B * h3))
    BY <1>1, <1>4 DEF Num, Four
  <2>2. Num(t) = (y0 + g * z1) + B * ((y1 + g * z2) + B * ((y2 + g * z3) + B * y3))
    BY <1>1, <1>12, <1>13, <1>14, <1>15 DEF Num, Four
  <2>3. /\ y0 \in Nat /\ y1 \in Nat /\ y2 \in Nat /\ y3 \in Nat
        /\ z0 \in Nat /\ z1 \in Nat /\ z2 \in Nat /\ z3 \in Nat
    BY SMT
  <2>4. (p * y0 + z0) + (p * g) * ((p * y1 + z1) + (p * g) * ((p * y2 + z2) + (p * g) * (p * y3 + z3)))
          = p * ((y0 + g * z1) + (p * g) * ((y1 + g * z2) + (p * g) * ((y2 + g * z3) + (p * g) * y3))) + z0
    BY ONLY p \in Nat, g \in Nat, <2>3, SMT
  <2> QED
    BY <1>2, <1>6, <1>7, <1>8, <1>9, <2>1, <2>2, <2>4
<1>19. High(h[0], s - 1) % 2 = 1 <=> z0 >= q
  <2>1. High(h[0], s - 1) % 2 = (h0 \div q) % 2
    BY <1>2, <1>4 DEF High
  <2>2. CASE z0 >= q
    <3>1. z0 - q \in 0 .. q - 1 /\ 2 * y0 + 1 \in Nat /\ h0 = (z0 - q) + q * (2 * y0 + 1)
      <4>1. (2 * q) * y0 + z0 = (z0 - q) + q * (2 * y0 + 1)
        BY SMT
      <4> QED
        BY <1>2, <1>6, <2>2, <4>1, SMT
    <3>2. h0 \div q = 2 * y0 + 1
      BY <3>1, DigitIs
    <3>3. (2 * y0 + 1) % 2 = 1
      BY SMT
    <3> QED
      BY <2>1, <2>2, <3>2, <3>3
  <2>3. CASE ~(z0 >= q)
    <3>1. z0 \in 0 .. q - 1 /\ 2 * y0 \in Nat /\ h0 = z0 + q * (2 * y0)
      <4>1. (2 * q) * y0 + z0 = z0 + q * (2 * y0)
        BY SMT
      <4> QED
        BY <1>2, <1>6, <2>3, <4>1, SMT
    <3>2. h0 \div q = 2 * y0
      BY <3>1, DigitIs
    <3>3. (2 * y0) % 2 = 0
      BY SMT
    <3> QED
      BY <2>1, <2>3, <3>2, <3>3, SMT
  <2> QED
    BY <2>2, <2>3
<1>20. Low(h[0], s) = z0
  <2>1. h0 = z0 + p * y0 /\ y0 \in Nat
    BY <1>6, SMT
  <2>2. h0 % p = z0
    BY <1>2, <2>1, DigitIs
  <2> QED
    BY <1>2, <1>4, <2>2 DEF Low
<1> QED
  BY <1>2, <1>17, <1>18, <1>19, <1>20

LEMMA ShiftedExact ==
  ASSUME Sizes, NEW l, l \in [0 .. 7 -> Word(W)], NEW s, Shifts(s), NEW shift, shift = 4 * W + s,
         NEW t, t = [i \in Idx |-> ShiftedWord(l, shift, i)]
  PROVE  /\ WordsOf(t)
         /\ \E z \in 0 .. 2^s - 1 :
               /\ Num(Upper(l)) = 2^s * Num(t) + z
               /\ BitOf(l, 2 * N, W, shift - 1) = 1 <=> z >= 2^(s - 1)
<1>1. W \in Nat /\ s \in 1 .. W - 1
  BY DEF Sizes, Shifts
<1>2. shift \div W = 4 /\ shift % W = s /\ (shift - 1) \div W = 4 /\ (shift - 1) % W = s - 1
  <2>1. s \in 0 .. W - 1 /\ s - 1 \in 0 .. W - 1 /\ 4 \in Nat
    BY <1>1, SMT
  <2>2. shift = s + W * 4 /\ shift - 1 = (s - 1) + W * 4
    BY <1>1, SMT
  <2>3. shift % W = s /\ shift \div W = 4
    BY <1>1, <2>1, <2>2, DigitIs
  <2>4. (shift - 1) % W = s - 1 /\ (shift - 1) \div W = 4
    BY <1>1, <2>1, <2>2, DigitIs
  <2> QED
    BY <2>3, <2>4
<1>3. PICK h : h = Upper(l)
  OBVIOUS
<1>4. WordsOf(h)
  BY <1>3, SMT DEF WordsOf, Upper, Idx, N
<1>5. s # 0 /\ ~(shift - 1 >= 2 * N * W) /\ N - 1 = 3 /\ 4 + 0 = 4 /\ 0 \in Idx
  BY <1>1, SMT DEF N, Idx
<1>6. \A i \in Idx : /\ shift < (2 * N - i) * W
                    /\ (shift < (2 * N - 1 - i) * W) = (i # 3)
                    /\ h[i] = l[i + 4]
                    /\ (i # 3 => h[i + 1] = l[1 + i + 4])
  <2>1. \A i \in Idx : i = 0 \/ i = 1 \/ i = 2 \/ i = 3
    BY SMT DEF Idx, N
  <2>2. /\ shift < (2 * N - 0) * W /\ shift < (2 * N - 1) * W /\ shift < (2 * N - 2) * W /\ shift < (2 * N - 3) * W
        /\ shift < (2 * N - 1 - 0) * W /\ shift < (2 * N - 1 - 1) * W /\ shift < (2 * N - 1 - 2) * W
        /\ ~(shift < (2 * N - 1 - 3) * W)
    BY <1>1, SMT DEF N
  <2>3. h[0] = l[0 + 4] /\ h[1] = l[1 + 4] /\ h[2] = l[2 + 4] /\ h[3] = l[3 + 4]
    BY <1>3, SMT DEF Upper, Idx, N
  <2>4. 0 + 1 = 1 /\ 1 + 1 = 2 /\ 2 + 1 = 3 /\ 1 + 0 + 4 = 1 + 4 /\ 1 + 1 + 4 = 2 + 4 /\ 1 + 2 + 4 = 3 + 4
        /\ 0 # 3 /\ 1 # 3 /\ 2 # 3
    BY SMT
  <2> QED
    BY <2>1, <2>2, <2>3, <2>4
<1>7. t = [i \in Idx |-> High(h[i], s) + (IF i = N - 1 THEN 0 ELSE Low(h[i + 1] * 2^(W - s), W))]
  <2>1. \A i \in Idx : ShiftedWord(l, shift, i)
                      = High(h[i], s) + (IF i = 3 THEN 0 ELSE Low(h[i + 1] * 2^(W - s), W))
    BY <1>2, <1>5, <1>6 DEF ShiftedWord
  <2> QED
    BY <1>5, <2>1
<1>8. BitOf(l, 2 * N, W, shift - 1) = High(h[0], s - 1) % 2
  <2>1. h[0] = l[4]
    BY <1>3, <1>5 DEF Upper
  <2> QED
    BY <1>2, <1>5, <2>1 DEF BitOf
<1> QED
  BY <1>3, <1>4, <1>7, <1>8, ShiftedWords

(* scalar_shr_int divides by 2^n and returns the remainder:                 *)
(* secp256k1_scalar_shr_int.                                                *)
THEOREM ShrIntExact ==
  ASSUME Sizes, NEW a, IsScalar(a), NEW n, Shifts(n), NEW x, x = scalar_shr_int(a, n)
  PROVE  IsScalar(x.r) /\ x.ret \in 0 .. 2^n - 1 /\ Num(a.d) = 2^n * Num(x.r.d) + x.ret
<1>1. WordsOf(a.d) /\ a.ok /\ a \in [d : [Idx -> Word(W)], ok : BOOLEAN] /\ Num(a.d) < Order
  BY DEF IsScalar, WordsOf
<1>2. PICK t : t = [i \in Idx |-> High(a.d[i], n) + (IF i = N - 1 THEN 0
                                                     ELSE Low(a.d[i + 1] * 2^(W - n), W))]
  OBVIOUS
<1>3. PICK p \in Nat : p = 2^n /\ p > 0
  <2>1. 2^n \in Nat \ {0}
    BY DEF Shifts
  <2> QED
    BY <2>1, SMT
<1>4. WordsOf(t) /\ \E z \in 0 .. p - 1 : Num(a.d) = p * Num(t) + z /\ Low(a.d[0], n) = z
  BY <1>1, <1>2, <1>3, ShiftedWords
<1>5. PICK z \in 0 .. p - 1 : Num(a.d) = p * Num(t) + z /\ Low(a.d[0], n) = z
  BY <1>4
<1>6. x.ret = z /\ x.r = [a EXCEPT !.d = t]
  BY <1>2, <1>5 DEF scalar_shr_int
<1>7. x.r.d = t /\ x.r.ok = a.ok /\ x.r \in [d : [Idx -> Word(W)], ok : BOOLEAN]
  BY <1>1, <1>4, <1>6 DEF WordsOf
<1>8. Num(t) < Order
  <2>1. PICK q \in Nat, m \in Nat, o \in Nat : q = Num(t) /\ m = p * q /\ o = Order
    <3>1. Num(t) \in Nat /\ Order \in Nat
      BY <1>4, NumType, OrderOf
    <3> QED
      BY <3>1, SMT
  <2>2. m >= q
    BY <1>3, <2>1, SMT
  <2>3. m + z < o
    BY <1>1, <1>5, <2>1
  <2> QED
    BY <2>1, <2>2, <2>3, SMT
<1>9. IsScalar(x.r)
  BY <1>1, <1>7, <1>8 DEF IsScalar
<1> QED
  BY <1>3, <1>5, <1>6, <1>7, <1>9

(* The product of two scalars without its lower four words and s bits more, *)
(* rounded to the nearest (a half upwards), with no check failing:          *)
(* secp256k1_scalar_mul_shift_var, for shifts like the 272 of               *)
(* secp256k1_scalar_split_lambda.                                           *)
THEOREM MulShiftExact ==
  ASSUME Sizes, NEW a, IsScalar(a), NEW b, IsScalar(b), NEW s, Shifts(s),
         NEW shift, shift = 4 * W + s, NEW r, r = scalar_mul_shift_var(a, b, shift)
  PROVE  LET D == Top * 2^s
             P == Num(a.d) * Num(b.d)
         IN  /\ IsScalar(r)
             /\ 2 * D * Num(r.d) <= 2 * P + D
             /\ 2 * P + D < 2 * D * Num(r.d) + 2 * D
<1>1. WordsOf(a.d) /\ WordsOf(b.d) /\ a.ok /\ b.ok
  BY DEF IsScalar, WordsOf
<1>2. PICK x : x = scalar_mul_512(a.d, b.d)
  OBVIOUS
<1>3. /\ x.ok /\ x.l \in [0 .. 7 -> Word(W)]
      /\ Num(x.l) + Top * Num(Upper(x.l)) = Num(a.d) * Num(b.d)
  BY <1>1, <1>2, MulWordsExact
<1>4. PICK o \in Nat, f \in Nat, T \in Nat :
          o = Order /\ f = Excess /\ T = Top /\ o + f = T /\ f > 0 /\ 4 * f <= T
  BY OrderOf
<1>5. PICK t : t = [i \in Idx |-> ShiftedWord(x.l, shift, i)]
  OBVIOUS
<1>6. PICK p \in Nat, e \in Nat : p = 2^s /\ e = 2^(s - 1) /\ e > 0 /\ p = 2 * e
  <2>1. 2^s \in Nat \ {0} /\ 2^(s - 1) \in Nat \ {0} /\ 2^s = 2 * 2^(s - 1)
    BY DEF Shifts
  <2>2. 2^(s - 1) > 0
    BY <2>1, SMT
  <2> QED
    BY <2>1, <2>2
<1>7. WordsOf(t) /\ \E z \in 0 .. p - 1 :
          /\ Num(Upper(x.l)) = p * Num(t) + z
          /\ BitOf(x.l, 2 * N, W, shift - 1) = 1 <=> z >= e
  BY <1>3, <1>5, <1>6, ShiftedExact
<1>8. PICK z \in 0 .. p - 1 : /\ Num(Upper(x.l)) = p * Num(t) + z
                              /\ BitOf(x.l, 2 * N, W, shift - 1) = 1 <=> z >= e
  BY <1>7
<1>9. PICK l \in Nat, q \in Nat, h \in Nat :
          l = Num(x.l) /\ q = Num(t) /\ h = Num(Upper(x.l)) /\ l < T /\ h < T
  <2>1. WordsOf([i \in Idx |-> x.l[i]]) /\ WordsOf(Upper(x.l))
    BY <1>3, SMT DEF WordsOf, Upper, Idx, N
  <2>2. Num([i \in Idx |-> x.l[i]]) = Num(x.l)
    BY SMT DEF Num, Idx, N
  <2>3. Num(x.l) \in Nat /\ Num(x.l) < Top
    BY <2>1, <2>2, NumType, NumBelowTop
  <2>4. Num(Upper(x.l)) \in Nat /\ Num(Upper(x.l)) < Top /\ Num(t) \in Nat
    BY <1>7, <2>1, NumType, NumBelowTop
  <2> QED
    BY <1>4, <2>3, <2>4
<1>10. 2 * q < T
  <2>1. p * q >= 2 * q /\ p * q \in Nat
    BY <1>6, SMT
  <2>2. h = p * q + z
    BY <1>8, <1>9
  <2>3. PICK m \in Nat : m = p * q
    BY <2>1
  <2> QED
    BY <1>9, <2>1, <2>2, <2>3, SMT
<1>11. PICK flag \in BOOLEAN : flag = (BitOf(x.l, 2 * N, W, shift - 1) = 1)
  OBVIOUS
<1>12. PICK bit \in Nat : bit = (IF flag THEN 1 ELSE 0) /\ bit <= 1
  BY SMT
<1>13. PICK y : y = [d |-> t, ok |-> (a.ok /\ b.ok) /\ x.ok]
  OBVIOUS
<1>14. IsScalar(y) /\ y.d = t
  <2>1. ((a.ok /\ b.ok) /\ x.ok) = TRUE
    BY <1>1, <1>3
  <2>2. y = [d |-> t, ok |-> TRUE]
    BY <1>13, <2>1
  <2>3. q < Order
    BY <1>4, <1>10, SMT
  <2> QED
    BY <1>7, <1>9, <2>2, <2>3 DEF IsScalar, WordsOf
<1>15. r = scalar_cadd_bit(y, 0, flag)
  BY <1>2, <1>5, <1>11, <1>13 DEF scalar_mul_shift_var, Rounded
<1>16. 2^(0 % W) = 1 /\ 0 \div W = 0
  <2>1. W \in Nat /\ s \in 1 .. W - 1 /\ 2^0 = 1
    BY DEF Shifts, Sizes
  <2>2. 0 % W = 0 /\ 0 \div W = 0
    BY <2>1, SMT
  <2> QED
    BY <2>1, <2>2
<1>17. Num(BitNumber(0, flag)) = bit
  <2>1. PICK B \in Nat : B = 2^W
    BY SizesOf
  <2>2. PICK n : n = BitNumber(0, flag)
    OBVIOUS
  <2>3. n[0] = bit /\ n[1] = 0 /\ n[2] = 0 /\ n[3] = 0
    <3>1. n = [i \in Idx |-> IF flag /\ 0 = i THEN 1 ELSE 0]
      BY <1>16, <2>2 DEF BitNumber
    <3> QED
      BY <1>12, <3>1, SMT DEF Idx, N
  <2>4. bit + B * (0 + B * (0 + B * 0)) = bit
    BY SMT
  <2> QED
    BY <2>1, <2>2, <2>3, <2>4 DEF Num, Four
<1>18. 2^(0 % W) \in Word(W)
  BY <1>16, SizesOf, SMT DEF Word
<1>19. q + bit < Order
  BY <1>4, <1>10, <1>12, SMT
<1>20. (r.ok <=> q + bit < Order) /\ (r.ok => IsScalar(r) /\ Num(r.d) = q + bit)
  <2>1. 0 \in Nat
    OBVIOUS
  <2>2. LET c == scalar_cadd_bit(y, 0, flag)
            v == Num(y.d) + Num(BitNumber(0, flag))
        IN  (c.ok <=> v < Order) /\ (c.ok => IsScalar(c) /\ Num(c.d) = v)
    BY <1>14, <1>18, <2>1, CaddBitExact
  <2> QED
    BY <1>9, <1>14, <1>15, <1>17, <2>2
<1>21. IsScalar(r) /\ Num(r.d) = q + bit
  BY <1>19, <1>20
<1>22. PICK n \in Nat, m \in Nat, w \in Nat : n = T * z /\ m = T * e /\ w = T * q
  BY SMT
<1>c. flag <=> z >= e
  BY <1>8, <1>11
<1>d. (bit = 0 => ~flag) /\ (bit = 1 => flag)
  <2>1. 0 # 1
    BY SMT
  <2> QED
    BY <1>12, <2>1
<1>23. bit = 0 => n <= m - T
  <2>1. bit = 0 => z <= e - 1
    <3>1. ~(z >= e) => z <= e - 1
      BY SMT
    <3> QED
      BY <1>c, <1>d, <3>1
  <2>2. z <= e - 1 => T * z <= T * (e - 1)
    BY SMT
  <2>3. T * (e - 1) = m - T
    BY <1>22, SMT
  <2> QED
    BY <1>22, <2>1, <2>2, <2>3
<1>24. bit = 1 => n >= m
  <2>1. bit = 1 => z >= e
    BY <1>c, <1>d
  <2>2. z >= e => T * z >= T * e
    BY SMT
  <2> QED
    BY <1>22, <2>1, <2>2
<1>25. n <= 2 * m - T
  <2>1. T * z <= T * (p - 1)
    BY SMT
  <2>2. T * (2 * e - 1) = 2 * m - T
    BY <1>22, SMT
  <2> QED
    BY <1>6, <1>22, <2>1, <2>2
<1>26. PICK D \in Nat, k \in Nat, P \in Nat, v \in Nat :
          /\ D = Top * 2^s /\ D = 2 * m /\ k = D * q
          /\ P = Num(a.d) * Num(b.d) /\ P = l + k + n /\ v = q + bit
  <2>1. T * (2 * e) = 2 * m
    BY <1>22, SMT
  <2>2. T * (p * q + z) = (T * p) * q + T * z
    BY SMT
  <2>3. PICK D \in Nat, k \in Nat : D = T * p /\ k = D * q
    BY SMT
  <2>4. l + T * h = Num(a.d) * Num(b.d) /\ h = p * q + z
    BY <1>3, <1>4, <1>8, <1>9
  <2>5. T * h = k + n
    BY <1>22, <2>2, <2>3, <2>4
  <2>6. PICK P \in Nat : P = l + (k + n) /\ P = l + k + n
    BY SMT
  <2>7. P = Num(a.d) * Num(b.d)
    BY <2>4, <2>5, <2>6
  <2>8. q + bit \in Nat
    BY SMT
  <2>9. D = Top * 2^s /\ D = 2 * m
    BY <1>4, <1>6, <2>1, <2>3
  <2> QED
    BY <2>3, <2>6, <2>7, <2>8, <2>9
<1>27. 2 * D * v <= 2 * P + D /\ 2 * P + D < 2 * D * v + 2 * D
  <2>1. CASE bit = 0
    <3>1. 2 * D * v = 2 * k
      BY <1>26, <2>1, SMT
    <3> QED
      BY <1>9, <1>23, <1>26, <2>1, <3>1, SMT
  <2>2. CASE bit = 1
    <3>1. 2 * D * v = 2 * k + 2 * D
      BY <1>26, <2>2, SMT
    <3> QED
      BY <1>9, <1>24, <1>25, <1>26, <2>2, <3>1, SMT
  <2> QED
    BY <1>12, <2>1, <2>2, SMT
<1> QED
  BY <1>21, <1>26, <1>27
=============================================================================
