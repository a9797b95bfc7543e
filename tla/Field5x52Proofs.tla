-------------------------- MODULE Field5x52Proofs --------------------------
(***************************************************************************)
(* Proofs that the arithmetic of Field5x52 is exact for every width that    *)
(* satisfies Sizes, the code's among them (W = 52, T = 48,                  *)
(* C = 16^^1000003D1, MaxMul = 8, AccBits = 128): every function takes      *)
(* elements within their magnitude to such an element, fails no check on    *)
(* the way, and computes the number it promises modulo the characteristic.  *)
(*                                                                          *)
(* Nothing is said of powers of two but what Sizes states: most lemmas      *)
(* first name B = 2^W and D = 2^T and go on with those.                     *)
(***************************************************************************)
EXTENDS Field5x52, TLAPS

(* The limbs that Carried leaves, one after the other.                      *)
LEMMA CarriedFive ==
  ASSUME NEW w, NEW t, \A i \in 0 .. 4 : t[i] \in Int,
         NEW s0, NEW s1, NEW s2, NEW s3, NEW s4,
         s0 = t[0], s1 = t[1] + High(s0, w), s2 = t[2] + High(s1, w), s3 = t[3] + High(s2, w),
         s4 = t[4] + High(s3, w)
  PROVE  Carried(t, 5, w) = [i \in 0 .. 4 |-> CASE i = 0 -> Low(s0, w) [] i = 1 -> Low(s1, w)
                               [] i = 2 -> Low(s2, w) [] i = 3 -> Low(s3, w) [] i = 4 -> s4]
<1> DEFINE s == CHOOSE s : s = [i \in 0 .. 5 - 1 |-> t[i] + (IF i = 0 THEN 0 ELSE High(s[i - 1], w))]
<1>1. Carried(t, 5, w) = [i \in 0 .. 5 - 1 |-> IF i = 5 - 1 THEN s[i] ELSE Low(s[i], w)]
  BY DEF Carried
<1>2. \E z : z = [i \in 0 .. 5 - 1 |-> t[i] + (IF i = 0 THEN 0 ELSE High(z[i - 1], w))]
  <2> DEFINE z == [i \in 0 .. 5 - 1 |->
                     CASE i = 0 -> s0
                       [] i = 1 -> s1
                       [] i = 2 -> s2
                       [] i = 3 -> s3
                       [] i = 4 -> s4]
  <2>1. /\ z[0] = s0 /\ z[1] = s1 /\ z[2] = s2 /\ z[3] = s3 /\ z[4] = s4
    BY SMT
  <2>3. z = [i \in 0 .. 5 - 1 |-> z[i]]
    OBVIOUS
  <2> HIDE DEF z
  <2>2. \A i \in 0 .. 5 - 1 : z[i] = t[i] + (IF i = 0 THEN 0 ELSE High(z[i - 1], w))
    BY <2>1, SMT
  <2> QED
    BY <2>2, <2>3
<1>3. s = [i \in 0 .. 5 - 1 |-> t[i] + (IF i = 0 THEN 0 ELSE High(s[i - 1], w))]
  BY <1>2
<1> HIDE DEF s
<1>4. /\ s[0] = s0 /\ s[1] = s1 /\ s[2] = s2 /\ s[3] = s3 /\ s[4] = s4
  BY <1>3, SMT
<1> QED
  BY <1>1, <1>4, SMT

-----------------------------------------------------------------------------
(* Numbers of five digits, the value of the digits after the first being y. *)
LEMMA Digit ==
  ASSUME NEW B \in Nat, B > 0, NEW x \in Nat
  PROVE  x % B \in 0 .. B - 1 /\ x \div B \in Nat /\ x = (x % B) + B * (x \div B)
BY SMT

(* c + B * y is at least B * k when y is at least k.                        *)
LEMMA DigitAbove ==
  ASSUME NEW B \in Nat, B > 0, NEW c \in 0 .. B - 1, NEW y \in Nat, NEW k \in Nat
  PROVE  c + B * y >= B * k <=> y >= k
<1>1. CASE y >= k
  <2>1. B * y >= B * k
    BY <1>1, SMT
  <2> QED
    BY <1>1, <2>1, SMT
<1>2. CASE y < k
  <2>1. B * (y + 1) <= B * k
    BY <1>2, SMT
  <2> QED
    BY <1>2, <2>1, SMT
<1> QED
  BY <1>1, <1>2, SMT

(* The greatest number of one digit more has the greatest digits.           *)
LEMMA DigitMost ==
  ASSUME NEW B \in Nat, B > 0, NEW K \in Nat, K > 0, NEW c \in 0 .. B - 1, NEW y \in 0 .. K - 1
  PROVE  /\ c + B * y \in 0 .. B * K - 1
         /\ c + B * y = B * K - 1 <=> c = B - 1 /\ y = K - 1
<1>1. CASE y = K - 1
  BY <1>1, SMT
<1>2. CASE y < K - 1
  <2>1. B * (y + 1) <= B * (K - 1)
    BY <1>2, SMT
  <2> QED
    BY <1>2, <2>1, SMT
<1> QED
  BY <1>1, <1>2, SMT

(* Digits are unique.                                                       *)
LEMMA DigitSame ==
  ASSUME NEW B \in Nat, B > 0, NEW c \in 0 .. B - 1, NEW d \in 0 .. B - 1, NEW y \in Nat, NEW z \in Nat,
         c + B * y = d + B * z
  PROVE  c = d /\ y = z
<1>1. ~ y > z
  <2>1. SUFFICES ASSUME y > z PROVE FALSE
    OBVIOUS
  <2>2. B * y >= B * (z + 1)
    BY <2>1, SMT
  <2> QED
    BY <2>2, SMT
<1>2. ~ z > y
  <2>1. SUFFICES ASSUME z > y PROVE FALSE
    OBVIOUS
  <2>2. B * z >= B * (y + 1)
    BY <2>1, SMT
  <2> QED
    BY <2>2, SMT
<1> QED
  BY <1>1, <1>2, SMT

(* The number of five digits in base B, and B to the fourth.                *)
Five(t0, t1, t2, t3, t4, B) == t0 + B * (t1 + B * (t2 + B * (t3 + B * t4)))
Fourth(B) == B * (B * (B * B))

(* The number of five digits is a natural one, and so is a power.           *)
LEMMA FiveType ==
  ASSUME NEW B \in Nat, NEW t0 \in Nat, NEW t1 \in Nat, NEW t2 \in Nat, NEW t3 \in Nat, NEW t4 \in Nat
  PROVE  Five(t0, t1, t2, t3, t4, B) \in Nat
BY SMT DEF Five

LEMMA FourthType ==
  ASSUME NEW B \in Nat
  PROVE  Fourth(B) \in Nat
BY SMT DEF Fourth

(* The top digit and the number.                                            *)
LEMMA FiveAbove ==
  ASSUME NEW B \in Nat, B > 0, NEW t0 \in 0 .. B - 1, NEW t1 \in 0 .. B - 1, NEW t2 \in 0 .. B - 1,
         NEW t3 \in 0 .. B - 1, NEW t4 \in Nat, NEW k \in Nat
  PROVE  Five(t0, t1, t2, t3, t4, B) >= Fourth(B) * k <=> t4 >= k
<1>1. t3 + B * t4 >= B * k <=> t4 >= k
  BY DigitAbove
<1>2. PICK y3 \in Nat : y3 = t3 + B * t4
  BY SMT
<1>3. PICK k3 \in Nat : k3 = B * k
  BY SMT
<1>4. t2 + B * y3 >= B * k3 <=> y3 >= k3
  BY DigitAbove
<1>5. PICK y2 \in Nat : y2 = t2 + B * y3
  BY SMT
<1>6. PICK k2 \in Nat : k2 = B * k3
  BY SMT
<1>7. t1 + B * y2 >= B * k2 <=> y2 >= k2
  BY DigitAbove
<1>8. PICK y1 \in Nat : y1 = t1 + B * y2
  BY SMT
<1>9. PICK k1 \in Nat : k1 = B * k2
  BY SMT
<1>10. t0 + B * y1 >= B * k1 <=> y1 >= k1
  BY DigitAbove
<1>11. Fourth(B) * k = B * k1
  BY <1>3, <1>6, <1>9, SMT DEF Fourth
<1>12. Five(t0, t1, t2, t3, t4, B) = t0 + B * y1
  BY <1>2, <1>5, <1>8 DEF Five
<1> QED
  BY <1>1, <1>2, <1>3, <1>4, <1>5, <1>6, <1>7, <1>8, <1>9, <1>10, <1>11, <1>12

(* The numbers with digits below B and a top digit below D that are at      *)
(* least C below the first one with top digit D.                            *)
LEMMA FiveAtLeast ==
  ASSUME NEW B \in Nat, NEW D \in Nat, D > 0, NEW c \in Nat, c <= B, B > 0,
         NEW t0 \in 0 .. B - 1, NEW t1 \in 0 .. B - 1, NEW t2 \in 0 .. B - 1, NEW t3 \in 0 .. B - 1,
         NEW t4 \in 0 .. D - 1
  PROVE  Five(t0, t1, t2, t3, t4, B) + c >= Fourth(B) * D
           <=> t4 = D - 1 /\ t3 = B - 1 /\ t2 = B - 1 /\ t1 = B - 1 /\ t0 >= B - c
<1>1. PICK y3 : y3 = t3 + B * t4
  OBVIOUS
<1>2. PICK K3 \in Nat : K3 = B * D /\ K3 > 0
  BY SMT
<1>3. y3 \in 0 .. K3 - 1 /\ (y3 = K3 - 1 <=> t3 = B - 1 /\ t4 = D - 1)
  BY <1>1, <1>2, DigitMost
<1>4. PICK y2 : y2 = t2 + B * y3
  OBVIOUS
<1>5. PICK K2 \in Nat : K2 = B * K3 /\ K2 > 0
  BY <1>2, SMT
<1>6. y2 \in 0 .. K2 - 1 /\ (y2 = K2 - 1 <=> t2 = B - 1 /\ y3 = K3 - 1)
  BY <1>2, <1>3, <1>4, <1>5, DigitMost
<1>7. PICK y1 : y1 = t1 + B * y2
  OBVIOUS
<1>8. PICK K1 \in Nat : K1 = B * K2 /\ K1 > 0
  BY <1>5, SMT
<1>9. y1 \in 0 .. K1 - 1 /\ (y1 = K1 - 1 <=> t1 = B - 1 /\ y2 = K2 - 1)
  BY <1>5, <1>6, <1>7, <1>8, DigitMost
<1>10. Five(t0, t1, t2, t3, t4, B) = t0 + B * y1
  BY <1>1, <1>4, <1>7 DEF Five
<1>11. Fourth(B) * D = B * K1
  BY <1>2, <1>5, <1>8, SMT DEF Fourth
<1>12. t0 + B * y1 + c >= B * K1 <=> y1 = K1 - 1 /\ t0 >= B - c
  <2>1. CASE y1 = K1 - 1
    BY <1>8, <2>1, SMT
  <2>2. CASE y1 # K1 - 1
    <3>1. y1 + 2 <= K1 /\ y1 \in Nat
      BY <1>8, <1>9, <2>2, SMT
    <3>2. B * (y1 + 2) <= B * K1
      BY <3>1, <1>8, SMT
    <3> QED
      BY <1>8, <2>2, <3>1, <3>2, SMT
  <2> QED
    BY <2>1, <2>2
<1> QED
  BY <1>3, <1>6, <1>9, <1>10, <1>11, <1>12

(* Four digits of at most q * (B - 1) each.                                 *)
LEMMA FiveLow ==
  ASSUME NEW B \in Nat, B > 0, NEW q \in Nat, NEW t0 \in 0 .. q * (B - 1), NEW t1 \in 0 .. q * (B - 1),
         NEW t2 \in 0 .. q * (B - 1), NEW t3 \in 0 .. q * (B - 1), NEW t4 \in Nat, q > 0
  PROVE  Five(t0, t1, t2, t3, t4, B) < Fourth(B) * (t4 + q)
<1>0. t0 \in Nat /\ t1 \in Nat /\ t2 \in Nat /\ t3 \in Nat
      /\ t0 <= q * B - q /\ t1 <= q * B - q /\ t2 <= q * B - q /\ t3 <= q * B - q
  BY SMT
<1>1. PICK y3 \in Nat : y3 = t3 + B * t4
  BY <1>0, SMT
<1>2. y3 <= B * (t4 + q) - q
  BY <1>0, <1>1, SMT
<1>3. PICK k3 \in Nat : k3 = B * (t4 + q)
  BY SMT
<1>4. B * y3 <= B * (k3 - q)
  BY <1>2, <1>3, SMT
<1>5. t2 + B * y3 <= B * k3 - q
  BY <1>0, <1>3, <1>4, SMT
<1>6. PICK y2 \in Nat : y2 = t2 + B * y3
  BY <1>0, SMT
<1>7. PICK k2 \in Nat : k2 = B * k3
  BY SMT
<1>8. B * y2 <= B * (k2 - q)
  BY <1>5, <1>6, <1>7, SMT
<1>9. t1 + B * y2 <= B * k2 - q
  BY <1>0, <1>7, <1>8, SMT
<1>10. PICK y1 \in Nat : y1 = t1 + B * y2
  BY <1>0, SMT
<1>11. PICK k1 \in Nat : k1 = B * k2
  BY SMT
<1>12. B * y1 <= B * (k1 - q)
  BY <1>9, <1>10, <1>11, SMT
<1>13. t0 + B * y1 <= B * k1 - q
  BY <1>0, <1>11, <1>12, SMT
<1>14. Fourth(B) * (t4 + q) = B * k1
  BY <1>3, <1>7, <1>11, SMT DEF Fourth
<1>15. Five(t0, t1, t2, t3, t4, B) = t0 + B * y1
  BY <1>1, <1>6, <1>10 DEF Five
<1> QED
  BY <1>0, <1>11, <1>13, <1>14, <1>15, SMT

-----------------------------------------------------------------------------
(* The number in the limbs t, the characteristic, and congruence modulo it. *)
Num(t) == Five(t[0], t[1], t[2], t[3], t[4], 2^W)
Char == Fourth(2^W) * 2^T - C
Congruent(x, y) == \E k \in Int : x = y + k * Char

(* Five limbs, and five limbs whose carries have been handed on.            *)
LimbsOf(t) == t \in [Idx -> Nat]
CarriedLimbs(t) == LimbsOf(t) /\ \A i \in 0 .. 3 : t[i] < 2^W

(* What Sizes says, for natural numbers in the place of the powers.         *)
LEMMA SizesOf ==
  ASSUME Sizes
  PROVE  \E B \in Nat, D \in Nat, U \in Nat :
           /\ B = 2^W /\ D = 2^T /\ U = 2^S /\ 2^(T + 1) = 2 * D
           /\ B = D * U /\ B > 0 /\ D > 0 /\ U > 0
           /\ C \in Nat /\ C > 0 /\ R = C * U /\ R \in Nat
           /\ 2 * (C * U) + 6 <= B /\ C <= B
           /\ MaxMul \in Nat /\ MaxMul > 0 /\ MaxMag \in Nat /\ MaxMag > 0
           /\ MaxMag * C <= B /\ 4 * MaxMag + 3 <= D
           /\ 4 * MaxMul * MaxMul * (2 * C + 10) <= D
           /\ 6 * (2 * MaxMul * B) * (2 * MaxMul * B) <= 2^AccBits
<1>1. PICK B \in Nat, D \in Nat, U \in Nat : B = 2^W /\ D = 2^T /\ U = 2^S /\ B # 0 /\ D # 0 /\ U # 0
  BY DEF Sizes
<1>2. /\ 2^(T + 1) = 2 * D /\ B = D * U /\ B > 0 /\ D > 0 /\ U > 0
      /\ C \in Nat /\ C > 0 /\ R = C * U
  BY <1>1, SMT DEF Sizes, R
<1>3. R \in Nat /\ 2 * (C * U) + 6 <= B /\ C <= C * U
  <2>1. R \in Nat
    BY <1>2, SMT
  <2>2. 2 * R + 6 <= B
    BY <1>1 DEF Sizes
  <2>3. C <= C * U
    BY <1>2, SMT
  <2> QED
    BY <1>2, <2>1, <2>2, <2>3
<1>4. /\ MaxMul \in Nat /\ MaxMul > 0 /\ MaxMag \in Nat /\ MaxMag > 0
      /\ MaxMag * C <= B /\ 4 * MaxMag + 3 <= D
      /\ 4 * MaxMul * MaxMul * (2 * C + 10) <= D
      /\ 6 * (2 * MaxMul * B) * (2 * MaxMul * B) <= 2^AccBits
  BY <1>1 DEF Sizes
<1>5. C <= B
  <2>1. C * U \in Nat
    BY <1>2, SMT
  <2> QED
    BY <1>2, <1>3, <2>1, SMT
<1> QED
  BY <1>1, <1>2, <1>3, <1>4, <1>5

(* Equal numbers have equal limbs.                                          *)
LEMMA NumSame ==
  ASSUME Sizes, NEW t, NEW u, CarriedLimbs(t), CarriedLimbs(u), Num(t) = Num(u)
  PROVE  t = u
<1>a. PICK B \in Nat : B = 2^W /\ B > 0
  BY SizesOf
<1>b. PICK t0 \in 0 .. B - 1, t1 \in 0 .. B - 1, t2 \in 0 .. B - 1, t3 \in 0 .. B - 1, t4 \in Nat :
          t0 = t[0] /\ t1 = t[1] /\ t2 = t[2] /\ t3 = t[3] /\ t4 = t[4]
  BY <1>a, SMT DEF CarriedLimbs, LimbsOf, Idx
<1>c. PICK u0 \in 0 .. B - 1, u1 \in 0 .. B - 1, u2 \in 0 .. B - 1, u3 \in 0 .. B - 1, u4 \in Nat :
          u0 = u[0] /\ u1 = u[1] /\ u2 = u[2] /\ u3 = u[3] /\ u4 = u[4]
  BY <1>a, SMT DEF CarriedLimbs, LimbsOf, Idx
<1>d. B > 0 /\ Five(t0, t1, t2, t3, t4, B) = Five(u0, u1, u2, u3, u4, B)
  BY <1>a, <1>b, <1>c DEF Num
<1>1. PICK y3 \in Nat, z3 \in Nat : y3 = t3 + B * t4 /\ z3 = u3 + B * u4
  BY SMT
<1>2. PICK y2 \in Nat, z2 \in Nat : y2 = t2 + B * y3 /\ z2 = u2 + B * z3
  BY SMT
<1>3. PICK y1 \in Nat, z1 \in Nat : y1 = t1 + B * y2 /\ z1 = u1 + B * z2
  BY SMT
<1>4. t0 + B * y1 = u0 + B * z1
  BY <1>d, <1>1, <1>2, <1>3 DEF Five
<1>5. t0 = u0 /\ y1 = z1
  BY <1>4, <1>d, DigitSame
<1>6. t1 = u1 /\ y2 = z2
  BY <1>3, <1>5, <1>d, DigitSame
<1>7. t2 = u2 /\ y3 = z3
  BY <1>2, <1>6, <1>d, DigitSame
<1>8. t3 = u3 /\ t4 = u4
  BY <1>1, <1>7, <1>d, DigitSame
<1>9. \A i \in Idx : t[i] = u[i]
  <2>1. t[0] = u[0] /\ t[1] = u[1] /\ t[2] = u[2] /\ t[3] = u[3] /\ t[4] = u[4]
    BY <1>b, <1>c, <1>5, <1>6, <1>7, <1>8
  <2> QED
    BY <2>1, SMT DEF Idx
<1> QED
  BY <1>9 DEF CarriedLimbs, LimbsOf

(* Carrying keeps the number, and carried limbs as they are.                *)
LEMMA CarriedExact ==
  ASSUME Sizes, NEW t, LimbsOf(t)
  PROVE  LET c == Carried(t, N, W)
         IN  CarriedLimbs(c) /\ Num(c) = Num(t) /\ (CarriedLimbs(t) => c = t)
<1>1. PICK B \in Nat : B = 2^W /\ B > 0
  BY SizesOf
<1>2. t[0] \in Nat /\ t[1] \in Nat /\ t[2] \in Nat /\ t[3] \in Nat /\ t[4] \in Nat
  BY DEF LimbsOf, Idx
<1>3. PICK s0 : s0 = t[0]
  OBVIOUS
<1>4. PICK s1 : s1 = t[1] + High(s0, W)
  OBVIOUS
<1>5. PICK s2 : s2 = t[2] + High(s1, W)
  OBVIOUS
<1>6. PICK s3 : s3 = t[3] + High(s2, W)
  OBVIOUS
<1>7. PICK s4 : s4 = t[4] + High(s3, W)
  OBVIOUS
<1>8. PICK c : c = Carried(t, N, W)
  OBVIOUS
<1>9. c = [i \in 0 .. 4 |-> CASE i = 0 -> Low(s0, W) [] i = 1 -> Low(s1, W)
                               [] i = 2 -> Low(s2, W) [] i = 3 -> Low(s3, W) [] i = 4 -> s4]
  <2>1. \A i \in 0 .. 4 : t[i] \in Int
    BY DEF LimbsOf, Idx
  <2>2. Carried(t, 5, W) = [i \in 0 .. 4 |-> CASE i = 0 -> Low(s0, W) [] i = 1 -> Low(s1, W)
                               [] i = 2 -> Low(s2, W) [] i = 3 -> Low(s3, W) [] i = 4 -> s4]
    BY <1>3, <1>4, <1>5, <1>6, <1>7, <2>1, CarriedFive
  <2> QED
    BY <1>8, <2>2 DEF N
<1>10. c[0] = s0 % B /\ c[1] = s1 % B /\ c[2] = s2 % B /\ c[3] = s3 % B /\ c[4] = s4
  BY <1>1, <1>9, SMT DEF Low
<1>11. PICK t0 \in Nat, t1 \in Nat, t2 \in Nat, t3 \in Nat, t4 \in Nat :
          t0 = t[0] /\ t1 = t[1] /\ t2 = t[2] /\ t3 = t[3] /\ t4 = t[4]
  BY <1>2
<1>11a. /\ s0 % B \in 0 .. B - 1 /\ s1 % B \in 0 .. B - 1 /\ s2 % B \in 0 .. B - 1 /\ s3 % B \in 0 .. B - 1
        /\ s4 \in Nat
        /\ Five(s0 % B, s1 % B, s2 % B, s3 % B, s4, B) = Five(t0, t1, t2, t3, t4, B)
  <2>1. B > 0 /\ s0 = t0 /\ s1 = t1 + (s0 \div B) /\ s2 = t2 + (s1 \div B) /\ s3 = t3 + (s2 \div B) /\ s4 = t4 + (s3 \div B)
    BY <1>1, <1>3, <1>4, <1>5, <1>6, <1>7, <1>11 DEF High
  <2>10. s0 \in Nat /\ s0 % B \in 0 .. B - 1 /\ s0 \div B \in Nat /\ s0 = (s0 % B) + B * (s0 \div B)
    BY <2>1, Digit
  <2>11. s1 \in Nat /\ s1 % B \in 0 .. B - 1 /\ s1 \div B \in Nat /\ s1 = (s1 % B) + B * (s1 \div B)
    <3>1. s1 \in Nat
      BY <2>1, <2>10, SMT
    <3> QED
      BY <2>1, <3>1, Digit
  <2>12. s2 \in Nat /\ s2 % B \in 0 .. B - 1 /\ s2 \div B \in Nat /\ s2 = (s2 % B) + B * (s2 \div B)
    <3>1. s2 \in Nat
      BY <2>1, <2>11, SMT
    <3> QED
      BY <2>1, <3>1, Digit
  <2>13. s3 \in Nat /\ s3 % B \in 0 .. B - 1 /\ s3 \div B \in Nat /\ s3 = (s3 % B) + B * (s3 \div B)
    <3>1. s3 \in Nat
      BY <2>1, <2>12, SMT
    <3> QED
      BY <2>1, <3>1, Digit
  <2>14. s4 \in Nat
    BY <2>1, <2>13, SMT
  <2>15a. PICK c0 \in Nat, k0 \in Nat : c0 = s0 % B /\ k0 = s0 \div B
    BY <2>10
  <2>15b. PICK c1 \in Nat, k1 \in Nat : c1 = s1 % B /\ k1 = s1 \div B
    BY <2>11
  <2>15c. PICK c2 \in Nat, k2 \in Nat : c2 = s2 % B /\ k2 = s2 \div B
    BY <2>12
  <2>15d. PICK c3 \in Nat, k3 \in Nat : c3 = s3 % B /\ k3 = s3 \div B
    BY <2>13
  <2>15. /\ c0 = s0 % B /\ c1 = s1 % B /\ c2 = s2 % B /\ c3 = s3 % B
         /\ k0 = s0 \div B /\ k1 = s1 \div B /\ k2 = s2 \div B /\ k3 = s3 \div B
    BY <2>15a, <2>15b, <2>15c, <2>15d
  <2>16. t0 = c0 + B * k0 /\ t1 + k0 = c1 + B * k1 /\ t2 + k1 = c2 + B * k2 /\ t3 + k2 = c3 + B * k3 /\ s4 = t4 + k3
    BY <2>1, <2>10, <2>11, <2>12, <2>13, <2>14, <2>15
  <2>17. PICK y3 \in Nat, z3 \in Nat : y3 = t3 + B * t4 /\ z3 = c3 + B * s4
    BY <2>14, SMT
  <2>18. z3 = y3 + k2
    <3>1. B * s4 = B * t4 + B * k3
      BY <2>16, SMT
    <3> QED
      BY <2>14, <2>16, <2>17, <3>1, SMT
  <2>19. PICK y2 \in Nat, z2 \in Nat : y2 = t2 + B * y3 /\ z2 = c2 + B * z3
    BY SMT
  <2>20. z2 = y2 + k1
    <3>1. B * z3 = B * y3 + B * k2
      BY <2>18, SMT
    <3> QED
      BY <2>16, <2>19, <3>1, SMT
  <2>21. PICK y1 \in Nat, z1 \in Nat : y1 = t1 + B * y2 /\ z1 = c1 + B * z2
    BY SMT
  <2>22. z1 = y1 + k0
    <3>1. B * z2 = B * y2 + B * k1
      BY <2>20, SMT
    <3> QED
      BY <2>16, <2>21, <3>1, SMT
  <2>23. t0 + B * y1 = c0 + B * z1
    <3>1. B * z1 = B * y1 + B * k0
      BY <2>22, SMT
    <3> QED
      BY <2>16, <3>1, SMT
  <2>24. Five(t0, t1, t2, t3, t4, B) = t0 + B * y1
    BY <2>17, <2>19, <2>21 DEF Five
  <2>25. Five(c0, c1, c2, c3, s4, B) = c0 + B * z1
    BY <2>17, <2>19, <2>21 DEF Five
  <2> QED
    BY <2>10, <2>11, <2>12, <2>13, <2>14, <2>15, <2>23, <2>24, <2>25
<1>12. CarriedLimbs(c)
  <2>1. c[0] \in 0 .. B - 1 /\ c[1] \in 0 .. B - 1 /\ c[2] \in 0 .. B - 1 /\ c[3] \in 0 .. B - 1 /\ c[4] \in Nat
    BY <1>10, <1>11a
  <2>2. c = [i \in Idx |-> c[i]]
    BY <1>9 DEF Idx
  <2>3. \A i \in Idx : c[i] \in Nat
    BY <2>1, <1>1, SMT DEF Idx
  <2>4. \A i \in 0 .. 3 : c[i] < B
    BY <2>1, <1>1, SMT
  <2> QED
    BY <1>1, <2>2, <2>3, <2>4 DEF CarriedLimbs, LimbsOf
<1>13. Num(c) = Num(t)
  BY <1>1, <1>10, <1>11, <1>11a DEF Num
<1>14. ASSUME CarriedLimbs(t) PROVE c = t
  BY <1>12, <1>13, <1>14, NumSame
<1> QED
  BY <1>8, <1>12, <1>13, <1>14

(* The highest limb says where the number is.                               *)
LEMMA NumAbove ==
  ASSUME Sizes, NEW t, CarriedLimbs(t), NEW k \in Nat
  PROVE  Num(t) >= Fourth(2^W) * k <=> t[4] >= k
<1>1. PICK B \in Nat : B = 2^W /\ B > 0
  BY SizesOf
<1>2. t[0] \in 0 .. B - 1 /\ t[1] \in 0 .. B - 1 /\ t[2] \in 0 .. B - 1 /\ t[3] \in 0 .. B - 1 /\ t[4] \in Nat
  BY <1>1, SMT DEF CarriedLimbs, LimbsOf, Idx
<1> QED
  BY <1>1, <1>2, FiveAbove DEF Num

(* AtLeastP compares with the characteristic.                               *)
LEMMA AtLeastPExact ==
  ASSUME Sizes, NEW t, CarriedLimbs(t), t[4] < 2^T
  PROVE  AtLeastP(t) <=> Num(t) >= Char
<1>1. PICK B \in Nat, D \in Nat : B = 2^W /\ B > 0 /\ D = 2^T /\ D > 0 /\ C \in Nat /\ C <= B
  BY SizesOf
<1>2. t[0] \in 0 .. B - 1 /\ t[1] \in 0 .. B - 1 /\ t[2] \in 0 .. B - 1 /\ t[3] \in 0 .. B - 1 /\ t[4] \in 0 .. D - 1
  BY <1>1, SMT DEF CarriedLimbs, LimbsOf, Idx
<1>3a. PICK t0 \in 0 .. B - 1, t1 \in 0 .. B - 1, t2 \in 0 .. B - 1, t3 \in 0 .. B - 1, t4 \in 0 .. D - 1 :
          t0 = t[0] /\ t1 = t[1] /\ t2 = t[2] /\ t3 = t[3] /\ t4 = t[4]
  BY <1>2
<1>3b. Num(t) = Five(t0, t1, t2, t3, t4, B)
  BY <1>1, <1>3a DEF Num
<1>3. Num(t) + C >= Fourth(B) * D
           <=> t[4] = D - 1 /\ t[3] = B - 1 /\ t[2] = B - 1 /\ t[1] = B - 1 /\ t[0] >= B - C
  <2>1. Five(t0, t1, t2, t3, t4, B) + C >= Fourth(B) * D
           <=> t4 = D - 1 /\ t3 = B - 1 /\ t2 = B - 1 /\ t1 = B - 1 /\ t0 >= B - C
    <3>1. B > 0 /\ D > 0 /\ C \in Nat /\ C <= B
      BY <1>1
    <3> QED
      BY <3>1, FiveAtLeast
  <2> QED
    BY <1>3a, <1>3b, <2>1
<1>4. AtLeastP(t) <=> t[4] = D - 1 /\ t[3] = B - 1 /\ t[2] = B - 1 /\ t[1] = B - 1 /\ t[0] >= B - C
  <2>1. P[0] = B - C /\ MT = D - 1 /\ M = B - 1
    BY <1>1 DEF P, Idx, MT, M
  <2> QED
    BY <2>1, SMT DEF AtLeastP
<1>5. Num(t) \in Nat /\ Fourth(B) * D \in Nat
  <2>1. Five(t0, t1, t2, t3, t4, B) \in Nat /\ Fourth(B) \in Nat
    <3>1. t0 \in Nat /\ t1 \in Nat /\ t2 \in Nat /\ t3 \in Nat /\ t4 \in Nat
      OBVIOUS
    <3> QED
      <4>1. Five(t0, t1, t2, t3, t4, B) \in Nat
        BY <3>1, FiveType
      <4> QED
        BY <4>1, FourthType
  <2> QED
    BY <1>1, <1>3b, <2>1, SMT
<1> QED
  BY <1>1, <1>3, <1>4, <1>5, SMT DEF Char

(* The limbs P are those of the characteristic.                             *)
LEMMA CharOf ==
  ASSUME Sizes
  PROVE  Num(P) = Char /\ Char \in Nat /\ LimbsOf(P) /\ CarriedLimbs(P)
<1>1. PICK B \in Nat, D \in Nat : B = 2^W /\ B > 0 /\ D = 2^T /\ D > 0 /\ C \in Nat /\ C <= B /\ C > 0
  BY SizesOf
<1>2. P[0] = B - C /\ P[1] = B - 1 /\ P[2] = B - 1 /\ P[3] = B - 1 /\ P[4] = D - 1
  BY <1>1 DEF P, Idx, MT, M
<1>3. CarriedLimbs(P)
  <2>1. P = [i \in Idx |-> P[i]]
    BY DEF P
  <2>2. \A i \in Idx : P[i] \in Nat
    BY <1>1, <1>2, SMT DEF Idx
  <2>3. \A i \in 0 .. 3 : P[i] < B
    BY <1>1, <1>2, SMT
  <2> QED
    BY <1>1, <2>1, <2>2, <2>3 DEF CarriedLimbs, LimbsOf
<1>4. PICK K3 \in Nat : K3 = B * D
  BY SMT
<1>5. B - 1 + B * (D - 1) = K3 - 1
  BY <1>1, <1>4, SMT
<1>6. PICK K2 \in Nat : K2 = B * K3
  BY SMT
<1>7. B - 1 + B * (K3 - 1) = K2 - 1
  BY <1>1, <1>6, SMT
<1>8. PICK K1 \in Nat : K1 = B * K2
  BY SMT
<1>9. B - 1 + B * (K2 - 1) = K1 - 1
  BY <1>1, <1>8, SMT
<1>10. B - C + B * (K1 - 1) = B * K1 - C
  BY <1>1, SMT
<1>11. Num(P) = B * K1 - C
  BY <1>1, <1>2, <1>5, <1>7, <1>9, <1>10 DEF Num, Five
<1>12. Fourth(B) * D = B * K1
  BY <1>4, <1>6, <1>8, SMT DEF Fourth
<1>13. B * K1 - C \in Nat
  <2>1. K1 > 0
    <3>1. K3 > 0
      BY <1>1, <1>4, SMT
    <3>2. K2 > 0
      BY <1>1, <1>6, <3>1, SMT
    <3> QED
      BY <1>1, <1>8, <3>2, SMT
  <2>2. B * K1 >= B
    BY <1>1, <2>1, SMT
  <2> QED
    BY <1>1, <2>2, SMT
<1> QED
  BY <1>1, <1>3, <1>11, <1>12, <1>13 DEF Char, CarriedLimbs

(* The limbs with the highest one cut to T bits, and with z added to the    *)
(* lowest one.                                                              *)
TopCut(t) == [t EXCEPT ![4] = Low(@, T)]
LowPlus(t, z) == [t EXCEPT ![0] = @ + z]

(* Cutting the highest limb takes a multiple of 2^(4W + T) away.            *)
LEMMA TopTaken ==
  ASSUME Sizes, NEW t, LimbsOf(t)
  PROVE  /\ LimbsOf(TopCut(t)) /\ TopCut(t)[4] < 2^T /\ High(t[4], T) \in Nat
         /\ t[4] = TopCut(t)[4] + 2^T * High(t[4], T) /\ TopCut(t)[4] = Low(t[4], T)
         /\ (\A i \in 0 .. 3 : TopCut(t)[i] = t[i])
         /\ Num(t) = Num(TopCut(t)) + High(t[4], T) * (Fourth(2^W) * 2^T)
<1>1. PICK B \in Nat, D \in Nat : B = 2^W /\ B > 0 /\ D = 2^T /\ D > 0
  BY SizesOf
<1>2. PICK n : n = TopCut(t)
  OBVIOUS
<1>3. PICK t0 \in Nat, t1 \in Nat, t2 \in Nat, t3 \in Nat, t4 \in Nat :
          t0 = t[0] /\ t1 = t[1] /\ t2 = t[2] /\ t3 = t[3] /\ t4 = t[4]
  BY DEF LimbsOf, Idx
<1>4. PICK l \in Nat, x \in Nat : l = t4 % D /\ x = t4 \div D /\ l < D /\ t4 = l + D * x
  <2>1. D > 0
    BY <1>1
  <2>2. t4 % D \in 0 .. D - 1 /\ t4 \div D \in Nat /\ t4 = (t4 % D) + D * (t4 \div D)
    BY <2>1, Digit
  <2> QED
    BY <2>2, SMT
<1>5. x = High(t[4], T) /\ l = Low(t[4], T)
  BY <1>1, <1>3, <1>4 DEF High, Low
<1>6. /\ n = [i \in Idx |-> n[i]] /\ n[0] = t0 /\ n[1] = t1 /\ n[2] = t2 /\ n[3] = t3 /\ n[4] = l
      /\ \A i \in Idx : i # 4 => n[i] = t[i]
  <2>1. n = [i \in Idx |-> IF i = 4 THEN l ELSE t[i]]
    BY <1>2, <1>5 DEF LimbsOf, TopCut
  <2>2. /\ n = [i \in Idx |-> n[i]] /\ \A i \in Idx : n[i] = IF i = 4 THEN l ELSE t[i]
    BY <2>1
  <2>3. 0 \in Idx /\ 1 \in Idx /\ 2 \in Idx /\ 3 \in Idx /\ 4 \in Idx
    BY DEF Idx
  <2> QED
    BY <1>3, <2>2, <2>3
<1>7. LimbsOf(n)
  <2>1. \A i \in Idx : n[i] \in Nat
    BY <1>4, <1>6 DEF LimbsOf
  <2> QED
    BY <1>6, <2>1 DEF LimbsOf
<1>8. PICK y3 \in Nat, z3 \in Nat : y3 = t3 + B * t4 /\ z3 = t3 + B * l
  BY SMT
<1>9. y3 = z3 + x * (B * D)
  <2>1. B * t4 = B * l + x * (B * D)
    BY <1>4, SMT
  <2> QED
    BY <1>8, <2>1, SMT
<1>10. PICK y2 \in Nat, z2 \in Nat : y2 = t2 + B * y3 /\ z2 = t2 + B * z3
  BY SMT
<1>11. y2 = z2 + x * (B * (B * D))
  BY <1>9, <1>10, SMT
<1>12. PICK y1 \in Nat, z1 \in Nat : y1 = t1 + B * y2 /\ z1 = t1 + B * z2
  BY SMT
<1>13. y1 = z1 + x * (B * (B * (B * D)))
  BY <1>11, <1>12, SMT
<1>14. t0 + B * y1 = t0 + B * z1 + x * (B * (B * (B * (B * D))))
  BY <1>13, SMT
<1>15. B * (B * (B * (B * D))) = Fourth(B) * D
  BY SMT DEF Fourth
<1>16. Num(t) = t0 + B * y1 /\ Num(n) = t0 + B * z1
  BY <1>1, <1>3, <1>6, <1>8, <1>10, <1>12 DEF Num, Five
<1>17. Num(t) = Num(n) + x * (Fourth(B) * D)
  BY ONLY <1>14, <1>15, <1>16
<1>18. \A i \in 0 .. 3 : n[i] = t[i]
  BY <1>6, SMT DEF Idx
<1>19. t[4] = n[4] + D * x /\ n[4] = Low(t[4], T) /\ n[4] < D
  BY <1>3, <1>4, <1>5, <1>6
<1> QED
  BY <1>1, <1>2, <1>5, <1>7, <1>17, <1>18, <1>19

(* Adding to the lowest limb adds to the number.                            *)
LEMMA AddedLow ==
  ASSUME Sizes, NEW t, LimbsOf(t), NEW z \in Nat
  PROVE  /\ LimbsOf(LowPlus(t, z)) /\ Num(LowPlus(t, z)) = Num(t) + z
         /\ LowPlus(t, z)[0] = t[0] + z /\ \A i \in 1 .. 4 : LowPlus(t, z)[i] = t[i]
<1>1. PICK B \in Nat : B = 2^W
  BY SizesOf
<1>2. PICK n : n = LowPlus(t, z)
  OBVIOUS
<1>3. PICK t0 \in Nat, t1 \in Nat, t2 \in Nat, t3 \in Nat, t4 \in Nat :
          t0 = t[0] /\ t1 = t[1] /\ t2 = t[2] /\ t3 = t[3] /\ t4 = t[4]
  BY DEF LimbsOf, Idx
<1>4. /\ n = [i \in Idx |-> n[i]] /\ n[0] = t0 + z /\ n[1] = t1 /\ n[2] = t2 /\ n[3] = t3 /\ n[4] = t4
      /\ \A i \in Idx : i # 0 => n[i] = t[i]
  <2>1. n = [i \in Idx |-> IF i = 0 THEN t[0] + z ELSE t[i]]
    BY <1>2 DEF LimbsOf, LowPlus
  <2>2. /\ n = [i \in Idx |-> n[i]] /\ \A i \in Idx : n[i] = IF i = 0 THEN t[0] + z ELSE t[i]
    BY <2>1
  <2>3. 0 \in Idx /\ 1 \in Idx /\ 2 \in Idx /\ 3 \in Idx /\ 4 \in Idx
    BY DEF Idx
  <2> QED
    BY <1>3, <2>2, <2>3
<1>5. LimbsOf(n)
  <2>1. \A i \in Idx : n[i] \in Nat
    BY <1>4 DEF LimbsOf
  <2> QED
    BY <1>4, <2>1 DEF LimbsOf
<1>6. PICK y \in Nat : y = t1 + B * (t2 + B * (t3 + B * t4))
  BY SMT
<1>7. Num(t) = t0 + B * y /\ Num(n) = t0 + z + B * y
  BY <1>1, <1>3, <1>4, <1>6 DEF Num, Five
<1>8. Num(n) = Num(t) + z
  BY <1>7, SMT
<1>9. \A i \in 1 .. 4 : n[i] = t[i]
  BY <1>4, SMT DEF Idx
<1>10. n[0] = t[0] + z
  BY <1>3, <1>4
<1> QED
  BY <1>2, <1>5, <1>8, <1>9, <1>10

(* FirstPass cuts, adds and carries.                                        *)
LEMMA FirstPassSteps ==
  ASSUME Sizes, NEW t, LimbsOf(t)
  PROVE  FirstPass(t) = Carried(LowPlus(TopCut(t), High(t[4], T) * C), N, W)
<1>1. PICK z : z = High(t[4], T) * C
  OBVIOUS
<1>2. PICK l : l = Low(t[4], T)
  OBVIOUS
<1>3. TopCut(t) = [i \in Idx |-> IF i = 4 THEN l ELSE t[i]]
  BY <1>2 DEF TopCut, LimbsOf
<1>4. PICK h : h = TopCut(t) /\ h = [i \in Idx |-> h[i]] /\ \A i \in Idx : h[i] = IF i = 4 THEN l ELSE t[i]
  BY <1>3
<1>5. LowPlus(h, z) = [i \in Idx |-> IF i = 0 THEN h[0] + z ELSE h[i]]
  BY <1>4 DEF LowPlus
<1>6. h[0] = t[0]
  BY <1>4, SMT DEF Idx
<1>7. [t EXCEPT ![4] = Low(@, T), ![0] = @ + High(t[4], T) * C]
            = [i \in Idx |-> IF i = 0 THEN t[0] + z ELSE IF i = 4 THEN l ELSE t[i]]
  BY <1>1, <1>2 DEF LimbsOf
<1>8. LowPlus(h, z) = [i \in Idx |-> IF i = 0 THEN t[0] + z ELSE IF i = 4 THEN l ELSE t[i]]
  BY <1>4, <1>5, <1>6
<1> QED
  BY <1>1, <1>4, <1>7, <1>8 DEF FirstPass

(* The number in natural limbs is natural.                                  *)
LEMMA NumType ==
  ASSUME Sizes, NEW t, LimbsOf(t)
  PROVE  Num(t) \in Nat
<1>1. PICK B \in Nat : B = 2^W
  BY SizesOf
<1>3. PICK t0 \in Nat, t1 \in Nat, t2 \in Nat, t3 \in Nat, t4 \in Nat :
          t0 = t[0] /\ t1 = t[1] /\ t2 = t[2] /\ t3 = t[3] /\ t4 = t[4]
  BY DEF LimbsOf, Idx
<1>4. Five(t0, t1, t2, t3, t4, B) \in Nat
  BY FiveType
<1> QED
  BY <1>1, <1>3, <1>4 DEF Num

-----------------------------------------------------------------------------
(* An element that passed the checks of a VERIFY build.  Magnitude 0 is     *)
(* fe_clear's, whose limbs are zero.                                        *)
Element(a) ==
  /\ a \in [n : [Idx -> Nat], mag : Nat, norm : BOOLEAN, ok : BOOLEAN]
  /\ a.ok /\ fe_verify(a)
  /\ a.mag = 0 => \A i \in Idx : a.n[i] = 0

(* The bounds that the checks give an element.                              *)
LEMMA Limits ==
  ASSUME Sizes, NEW a, Element(a)
  PROVE  /\ LimbsOf(a.n) /\ a.mag \in 0 .. MaxMag
         /\ \A i \in 0 .. 3 : a.n[i] <= 2 * a.mag * M
         /\ a.n[4] <= 2 * a.mag * MT
         /\ a.norm => CarriedLimbs(a.n) /\ a.n[4] < 2^T /\ Num(a.n) < Char /\ a.mag <= 1
<1>1. PICK B \in Nat, D \in Nat : B = 2^W /\ B > 0 /\ D = 2^T /\ D > 0
  BY SizesOf
<1>0. PICK n : n = a.n
  OBVIOUS
<1>2. PICK m \in Nat : m = a.mag /\ n = a.n /\ LimbsOf(n) /\ m <= MaxMag /\ a.norm \in BOOLEAN
  BY <1>0, SMT DEF Element, fe_verify, LimbsOf
<1>3. MT = D - 1 /\ M = B - 1
  BY <1>1 DEF MT, M
<1>4. \A i \in Idx : n[i] \in Nat
  BY <1>2 DEF LimbsOf
<1>5. \A i \in Idx : n[i] \in 0 .. (IF i = 4 THEN MT ELSE M) * (IF a.norm THEN 1 ELSE 2 * a.mag)
  BY <1>2 DEF Element, fe_verify
<1>6. ASSUME a.norm PROVE CarriedLimbs(n) /\ n[4] < D /\ Num(n) < Char /\ m <= 1
  <2>1. \A i \in Idx : n[i] \in 0 .. (IF i = 4 THEN MT ELSE M)
    <3>1. MT * 1 = MT /\ M * 1 = M
      BY <1>3, SMT
    <3> QED
      BY <1>5, <1>6, <3>1
  <2>2. CarriedLimbs(n)
    <3>1. \A i \in 0 .. 3 : n[i] < B
      BY <1>1, <1>3, <2>1, SMT DEF Idx
    <3> QED
      BY <1>1, <1>2, <3>1 DEF CarriedLimbs
  <2>3. n[4] < D
    BY <1>1, <1>3, <2>1, SMT DEF Idx
  <2>4. ~AtLeastP(n) /\ m <= 1
    BY <1>2, <1>6 DEF Element, fe_verify
  <2>5. ~(Num(n) >= Char)
    BY <1>1, <2>2, <2>3, <2>4, AtLeastPExact
  <2>6. Num(n) \in Nat /\ Char \in Nat
    BY <1>2, NumType, CharOf
  <2>7. Num(n) < Char
    BY <2>5, <2>6, SMT
  <2> QED
    BY <2>2, <2>3, <2>4, <2>7
<1>7. \A i \in Idx : n[i] <= 2 * m * (IF i = 4 THEN MT ELSE M)
  <2>1. CASE m = 0
    <3>1. \A i \in Idx : n[i] = 0
      BY <1>2, <2>1 DEF Element
    <3>2. 2 * m * MT = 0 /\ 2 * m * M = 0
      BY <1>1, <1>3, <2>1, SMT
    <3> QED
      BY <3>1, <3>2
  <2>2. CASE m > 0
    <3>1. M <= 2 * m * M /\ MT <= 2 * m * MT /\ M \in Nat /\ MT \in Nat
      BY <1>1, <1>3, <2>2, SMT
    <3>2. M * 1 = M /\ MT * 1 = MT /\ M * (2 * m) = 2 * m * M /\ MT * (2 * m) = 2 * m * MT
      BY <3>1, SMT
    <3>3. CASE a.norm
      BY <1>4, <1>5, <3>1, <3>2, <3>3, SMT
    <3>4. CASE ~a.norm
      BY <1>2, <1>4, <1>5, <3>1, <3>2, <3>4, SMT
    <3> QED
      BY <3>3, <3>4
  <2> QED
    BY <2>1, <2>2, SMT
<1>8. (\A i \in 0 .. 3 : n[i] <= 2 * m * M) /\ n[4] <= 2 * m * MT
  BY <1>7, SMT DEF Idx
<1> QED
  BY <1>1, <1>2, <1>6, <1>8, SMT DEF LimbsOf

-----------------------------------------------------------------------------
(* One pass over the limbs of an element: the excess of the highest limb is *)
(* folded into the lowest one, which takes a multiple of the characteristic *)
(* from the number, and the carries leave at most one bit too many.         *)
LEMMA FirstPassExact ==
  ASSUME Sizes, NEW a, Element(a)
  PROVE  LET f == FirstPass(a.n)
         IN  /\ CarriedLimbs(f) /\ f[4] < 2^T + 4 * MaxMag
             /\ \E x \in Nat : Num(a.n) = Num(f) + x * Char
             /\ a.norm => f = a.n
<1>1. PICK B \in Nat, D \in Nat, m \in Nat :
          /\ B = 2^W /\ B > 0 /\ D = 2^T /\ D > 0 /\ C \in Nat /\ C < B
          /\ m = MaxMag /\ m > 0
  <2>1. PICK B \in Nat, D \in Nat, U \in Nat :
           /\ B = 2^W /\ D = 2^T /\ B > 0 /\ D > 0 /\ U > 0
           /\ C \in Nat /\ C > 0 /\ 2 * (C * U) + 6 <= B
           /\ MaxMag \in Nat /\ MaxMag > 0
    BY SizesOf
  <2>2. C <= C * U /\ C * U \in Nat
    BY <2>1, SMT
  <2>3. C < B
    BY <2>1, <2>2, SMT
  <2> QED
    BY <2>1, <2>3
<1>2a. PICK t, h, z : t = a.n /\ h = TopCut(t) /\ z = High(t[4], T)
  OBVIOUS
<1>2b. PICK n, f : n = LowPlus(h, z * C) /\ f = Carried(n, N, W)
  OBVIOUS
<1>2. t = a.n
  BY <1>2a
<1>3. LimbsOf(t)
  BY <1>2, Limits
<1>4. /\ LimbsOf(h) /\ h[4] < D /\ z \in Nat /\ t[4] = h[4] + D * z
      /\ (\A i \in 0 .. 3 : h[i] = t[i])
      /\ Num(t) = Num(h) + z * (Fourth(B) * D)
  <2>1. /\ LimbsOf(TopCut(t)) /\ TopCut(t)[4] < 2^T /\ High(t[4], T) \in Nat
        /\ t[4] = TopCut(t)[4] + 2^T * High(t[4], T)
        /\ (\A i \in 0 .. 3 : TopCut(t)[i] = t[i])
        /\ Num(t) = Num(TopCut(t)) + High(t[4], T) * (Fourth(2^W) * 2^T)
    BY <1>3, TopTaken
  <2> QED
    BY <1>1, <1>2a, <2>1
<1>5. z * C \in Nat
  BY <1>1, <1>4, SMT
<1>6. LimbsOf(n) /\ Num(n) = Num(h) + z * C /\ n[0] = h[0] + z * C /\ \A i \in 1 .. 4 : n[i] = h[i]
  <2>1. PICK w \in Nat : w = z * C
    BY <1>5
  <2>2. /\ LimbsOf(LowPlus(h, w)) /\ Num(LowPlus(h, w)) = Num(h) + w
        /\ LowPlus(h, w)[0] = h[0] + w /\ \A i \in 1 .. 4 : LowPlus(h, w)[i] = h[i]
    BY <1>4, AddedLow
  <2> QED
    BY <1>2b, <2>1, <2>2
<1>7. f = FirstPass(a.n)
  BY <1>2a, <1>2b, <1>3, FirstPassSteps
<1>8. CarriedLimbs(f) /\ Num(f) = Num(n) /\ (CarriedLimbs(n) => f = n)
  BY <1>2b, <1>6, CarriedExact
<1>9. Num(t) = Num(f) + z * Char
  <2>1. PICK Q \in Nat : Q = Fourth(B) * D
    BY FourthType, SMT
  <2>2. Char = Q - C /\ Char \in Nat
    BY <1>1, <2>1, CharOf DEF Char
  <2>3. PICK v \in Nat, w \in Nat : v = Num(t) /\ w = Num(f)
    BY <1>3, <1>8, NumType DEF CarriedLimbs
  <2>4. Num(h) \in Nat
    BY <1>4, NumType
  <2>5. v = Num(h) + z * Q /\ w = Num(h) + z * C
    BY <1>4, <1>6, <1>8, <2>1, <2>3
  <2>6. z * Q = z * (Q - C) + z * C
    BY <1>1, <1>4, <2>1, <2>2, SMT
  <2>7. z * (Q - C) \in Int
    BY <1>1, <1>4, <2>1, SMT
  <2>8. v = w + z * (Q - C)
    BY <1>5, <2>4, <2>5, <2>6, <2>7, SMT
  <2> QED
    BY <2>2, <2>3, <2>8
<1>10. f[4] < D + 4 * m
  <2>1. PICK u \in Nat : u = a.mag /\ u <= m /\ M = B - 1 /\ MT = D - 1
    BY <1>1, Limits DEF M, MT
  <2>2. z <= 2 * m
    <3>1. t[4] <= 2 * u * (D - 1)
      BY <1>2, <2>1, Limits
    <3>2. D * z <= 2 * u * (D - 1)
      BY <1>1, <1>3, <1>4, <3>1, SMT DEF LimbsOf, Idx
    <3>3. 2 * u * (D - 1) <= D * (2 * u)
      BY <1>1, SMT
    <3>4. ~(z > 2 * u)
      <4>1. SUFFICES ASSUME z > 2 * u PROVE FALSE
        OBVIOUS
      <4>2. D * z >= D * (2 * u + 1)
        BY <1>1, <1>4, <4>1, SMT
      <4>3. D * (2 * u + 1) = D * (2 * u) + D
        BY SMT
      <4>4. D * z \in Nat /\ D * (2 * u) \in Nat /\ 2 * u * (D - 1) \in Nat
        BY <1>1, <1>4, SMT
      <4> QED
        BY <1>1, <3>2, <3>3, <4>2, <4>3, <4>4, SMT
    <3> QED
      BY <1>4, <2>1, <3>4, SMT
  <2>3. 2 * u * (B - 1) <= 2 * m * (B - 1)
    BY <1>1, <2>1, SMT
  <2>4. z * C <= 2 * m * (B - 1)
    <3>1. z * C <= (2 * m) * C
      BY <1>1, <1>4, <2>2, SMT
    <3>2. (2 * m) * C <= 2 * m * (B - 1)
      BY <1>1, SMT
    <3>3. (2 * m) * C \in Nat /\ 2 * m * (B - 1) \in Nat
      BY <1>1, SMT
    <3> QED
      BY <1>5, <3>1, <3>2, <3>3, SMT
  <2>5. PICK q \in Nat : q = 4 * m /\ q > 0
    BY <1>1, SMT
  <2>6. \A i \in 0 .. 3 : t[i] <= 2 * m * (B - 1) /\ t[i] \in Nat
    <3>1. \A i \in 0 .. 3 : t[i] <= 2 * u * (B - 1)
      BY <1>2, <2>1, Limits
    <3>2. 2 * u * (B - 1) \in Nat /\ 2 * m * (B - 1) \in Nat
      BY <1>1, SMT
    <3>3. \A i \in 0 .. 3 : t[i] \in Nat
      BY <1>3, SMT DEF LimbsOf, Idx
    <3> QED
      BY <2>3, <3>1, <3>2, <3>3, SMT
  <2>7. q * (B - 1) = 2 * (2 * m * (B - 1)) /\ 2 * m * (B - 1) \in Nat
    BY <1>1, <2>5, SMT
  <2>8. PICK t0 \in 0 .. q * (B - 1), t1 \in 0 .. q * (B - 1), t2 \in 0 .. q * (B - 1), t3 \in 0 .. q * (B - 1), t4 \in Nat :
           t0 = n[0] /\ t1 = n[1] /\ t2 = n[2] /\ t3 = n[3] /\ t4 = n[4]
    <3>1. n[0] = t[0] + z * C /\ n[1] = t[1] /\ n[2] = t[2] /\ n[3] = t[3]
      BY <1>4, <1>6, SMT
    <3>2. n[0] \in 0 .. q * (B - 1)
      BY <1>5, <2>4, <2>6, <2>7, <3>1, SMT
    <3>3. n[1] \in 0 .. q * (B - 1) /\ n[2] \in 0 .. q * (B - 1) /\ n[3] \in 0 .. q * (B - 1)
      BY <2>6, <2>7, <3>1, SMT
    <3>4. n[4] \in Nat
      BY <1>6 DEF LimbsOf, Idx
    <3> QED
      BY <3>2, <3>3, <3>4
  <2>9. B > 0 /\ q > 0
    BY <1>1, <2>5
  <2>10. Five(t0, t1, t2, t3, t4, B) < Fourth(B) * (t4 + q)
    BY <2>9, FiveLow
  <2>11. Num(f) < Fourth(B) * (t4 + q)
    BY <1>1, <1>8, <2>8, <2>10 DEF Num
  <2>12. PICK k \in Nat : k = t4 + q
    OBVIOUS
  <2>13. Num(f) >= Fourth(B) * k <=> f[4] >= k
    BY <1>1, <1>8, NumAbove
  <2>14. Num(f) \in Nat /\ Fourth(B) * k \in Nat /\ f[4] \in Nat
    <3>1. Num(f) \in Nat /\ f[4] \in Nat
      BY <1>8, NumType DEF CarriedLimbs, LimbsOf, Idx
    <3>2. Fourth(B) \in Nat
      BY FourthType
    <3> QED
      BY <3>1, <3>2, SMT
  <2>15. ~(Num(f) >= Fourth(B) * k)
    BY <2>11, <2>12, <2>14, SMT
  <2>16. f[4] < k
    BY <2>13, <2>14, <2>15, SMT
  <2>17. t4 < D
    BY <1>4, <1>6, <2>8, SMT
  <2> QED
    BY <1>1, <2>5, <2>12, <2>14, <2>16, <2>17, SMT
<1>11. ASSUME a.norm PROVE f = t
  <2>1. CarriedLimbs(t) /\ t[4] < D /\ t[4] \in Nat
    BY <1>1, <1>2, <1>3, <1>11, Limits DEF LimbsOf, Idx
  <2>2. z = 0 /\ h[4] = t[4]
    <3>1. z = 0
      <4>1. SUFFICES ASSUME z > 0 PROVE FALSE
        BY <1>4, SMT
      <4>2. D * z >= D
        BY <1>4, <4>1, SMT
      <4>3. h[4] \in Nat
        BY <1>4 DEF LimbsOf, Idx
      <4> QED
        BY <1>4, <2>1, <4>2, <4>3, SMT
    <3> QED
      BY <1>4, <2>1, <3>1, SMT DEF LimbsOf, Idx
  <2>3. \A i \in Idx : n[i] = t[i]
    <3>1. z * C = 0
      BY <1>1, <2>2, SMT
    <3>2. h[0] \in Nat
      BY <1>4 DEF LimbsOf, Idx
    <3>3. n[0] = t[0]
      BY <1>4, <1>6, <3>1, <3>2, SMT
    <3>4. n[1] = t[1] /\ n[2] = t[2] /\ n[3] = t[3] /\ n[4] = t[4]
      <4>1. 1 \in 0 .. 3 /\ 2 \in 0 .. 3 /\ 3 \in 0 .. 3 /\ 1 \in 1 .. 4 /\ 2 \in 1 .. 4 /\ 3 \in 1 .. 4 /\ 4 \in 1 .. 4
        BY SMT
      <4>2. \A i \in 1 .. 4 : n[i] = h[i]
        BY <1>6
      <4>3. \A i \in 0 .. 3 : h[i] = t[i]
        BY <1>4
      <4>4. n[1] = h[1] /\ n[2] = h[2] /\ n[3] = h[3] /\ n[4] = h[4]
        BY ONLY <4>1, <4>2
      <4>5. h[1] = t[1] /\ h[2] = t[2] /\ h[3] = t[3]
        BY ONLY <4>1, <4>3
      <4> QED
        BY <2>2, <4>4, <4>5
    <3>5. \A i \in Idx : i = 0 \/ i = 1 \/ i = 2 \/ i = 3 \/ i = 4
      BY SMT DEF Idx
    <3> QED
      BY <3>3, <3>4, <3>5
  <2>4. n = t
    BY <1>3, <1>6, <2>3 DEF LimbsOf
  <2> QED
    BY <1>8, <2>1, <2>4
<1> QED
  BY <1>1, <1>2, <1>4, <1>7, <1>8, <1>9, <1>10, <1>11

-----------------------------------------------------------------------------
(* The second pass: whether there is one is decided without computing the   *)
(* number, and it leaves the number below the characteristic.               *)
LEMMA SecondPassExact ==
  ASSUME Sizes, NEW f, CarriedLimbs(f), f[4] < 2^T + 4 * MaxMag
  PROVE  LET x == Overshoot(f)
             s == Carried(LowPlus(f, x * C), N, W)
         IN  /\ x \in {0, 1} /\ CarriedLimbs(s) /\ High(s[4], T) = x /\ High(f[4], T + 1) = 0
             /\ CarriedLimbs(TopCut(s)) /\ TopCut(s)[4] < 2^T
             /\ Num(f) = Num(TopCut(s)) + x * Char /\ Num(TopCut(s)) < Char
             /\ x = 0 => TopCut(s) = f
<1>1. PICK B \in Nat, D \in Nat, m \in Nat :
          /\ B = 2^W /\ B > 0 /\ D = 2^T /\ D > 0 /\ C \in Nat /\ C > 0 /\ C <= B
          /\ m = MaxMag /\ m > 0 /\ 4 * m + 3 <= D /\ 2^(T + 1) = 2 * D
  <2>1. PICK B \in Nat, D \in Nat, U \in Nat :
           /\ B = 2^W /\ D = 2^T /\ U = 2^S /\ 2^(T + 1) = 2 * D
           /\ B > 0 /\ D > 0 /\ C \in Nat /\ C > 0 /\ C <= B
           /\ MaxMag \in Nat /\ MaxMag > 0 /\ 4 * MaxMag + 3 <= D
    BY SizesOf
  <2> QED
    BY <2>1
<1>2. PICK x, s, n : x = Overshoot(f) /\ s = Carried(LowPlus(f, x * C), N, W) /\ n = TopCut(s)
  OBVIOUS
<1>3. PICK t4 \in Nat : t4 = f[4] /\ t4 < D + 4 * m
  BY <1>1 DEF CarriedLimbs, LimbsOf, Idx
<1>4. /\ t4 \div D = (IF t4 < D THEN 0 ELSE 1) /\ t4 \div (2 * D) = 0
  <2>1. 4 * m + 3 <= D /\ D > 0
    BY <1>1
  <2>2. t4 < 2 * D
    BY <1>3, <2>1, SMT
  <2>3. CASE t4 < D
    BY <2>1, <2>2, <2>3, SMT
  <2>4. CASE t4 >= D
    BY <2>1, <2>2, <2>4, SMT
  <2> QED
    BY <2>1, <2>3, <2>4, SMT
<1>5. High(f[4], T) = (IF t4 < D THEN 0 ELSE 1) /\ High(f[4], T + 1) = 0
  BY <1>1, <1>3, <1>4 DEF High
<1>6. PICK Q \in Nat, F \in Nat, v \in Nat : Q = Fourth(B) * D /\ F = Fourth(B) /\ v = Num(f) /\ Char = Q - C
  <2>1. Fourth(B) \in Nat
    BY FourthType
  <2>2. Fourth(B) * D \in Nat
    BY <2>1, SMT
  <2>3. Num(f) \in Nat
    BY NumType DEF CarriedLimbs
  <2> QED
    BY <1>1, <2>1, <2>2, <2>3 DEF Char
<1>7. F >= B /\ Q = F * D /\ F > 0
  <2>1. B > 0
    BY <1>1
  <2>2. B * B >= B
    BY <2>1, SMT
  <2>3. B * (B * B) >= B /\ B * (B * B) \in Nat /\ B * B \in Nat
    BY <2>1, <2>2, SMT
  <2>4. B * (B * (B * B)) >= B
    BY <2>1, <2>3, SMT
  <2>5. F >= B
    BY <1>6, <2>4 DEF Fourth
  <2> QED
    BY <1>6, <2>1, <2>5, SMT
<1>8. x \in {0, 1} /\ (x = 1 <=> v + C >= Q)
  <2>1. v >= Q <=> t4 >= D
    BY <1>1, <1>3, <1>6, NumAbove
  <2>2. CASE t4 >= D
    <3>1. x = 1
      BY <1>2, <1>5, <2>2, SMT DEF Overshoot
    <3> QED
      BY <1>1, <2>1, <2>2, <3>1, SMT
  <2>3. CASE t4 < D
    <3>1. x = IF AtLeastP(f) THEN 1 ELSE 0
      BY <1>2, <1>5, <2>3, SMT DEF Overshoot, Flag
    <3>2. AtLeastP(f) <=> Num(f) >= Char
      BY <1>1, <1>3, <2>3, AtLeastPExact
    <3>3. Num(f) >= Char <=> v + C >= Q
      BY <1>1, <1>6, SMT
    <3> QED
      BY <3>1, <3>2, <3>3
  <2> QED
    BY <2>2, <2>3, SMT
<1>9. PICK w \in Nat : w = x * C /\ w = (IF x = 0 THEN 0 ELSE C)
  BY <1>1, <1>8, SMT
<1>10. CarriedLimbs(s) /\ Num(s) = v + w /\ (w = 0 => s = f)
  <2>1. /\ LimbsOf(LowPlus(f, w)) /\ Num(LowPlus(f, w)) = Num(f) + w
        /\ LowPlus(f, w)[0] = f[0] + w /\ \A i \in 1 .. 4 : LowPlus(f, w)[i] = f[i]
    BY AddedLow DEF CarriedLimbs
  <2>2. s = Carried(LowPlus(f, w), N, W)
    BY <1>2, <1>9
  <2>3. CarriedLimbs(s) /\ Num(s) = Num(LowPlus(f, w))
    BY <2>1, <2>2, CarriedExact
  <2>4. ASSUME w = 0 PROVE s = f
    <3>1. Num(s) = Num(f)
      BY <1>6, <2>1, <2>3, <2>4, SMT
    <3> QED
      BY <2>3, <3>1, NumSame
  <2> QED
    BY <1>6, <2>1, <2>3, <2>4
<1>11. PICK s4 \in Nat, d \in Nat : s4 = s[4] /\ d = v + w
  BY <1>10, SMT DEF CarriedLimbs, LimbsOf, Idx
<1>12. (d >= Q <=> s4 >= D) /\ (d >= F * (D + 4 * m + 1) <=> s4 >= D + 4 * m + 1)
  <2>1. D \in Nat /\ D + 4 * m + 1 \in Nat
    BY SMT
  <2> QED
    BY <1>1, <1>6, <1>7, <1>10, <1>11, <2>1, NumAbove
<1>13. d < F * (D + 4 * m + 1)
  <2>1. v < F * (D + 4 * m)
    <3>1. PICK k \in Nat : k = D + 4 * m
      BY SMT
    <3>2. v >= F * k <=> t4 >= k
      BY <1>1, <1>3, <1>6, NumAbove
    <3>3. ~(t4 >= k)
      BY <1>3, <3>1, SMT
    <3>4. F * k \in Nat
      BY SMT
    <3> QED
      BY <3>1, <3>2, <3>3, <3>4, SMT
  <2>2. F * (D + 4 * m + 1) = F * (D + 4 * m) + F
    BY SMT
  <2>3. w <= F
    BY <1>1, <1>7, <1>9, SMT
  <2>4. F * (D + 4 * m) \in Nat
    BY SMT
  <2> QED
    BY <1>11, <2>1, <2>2, <2>3, <2>4, SMT
<1>14. s4 < D + 4 * m + 1 /\ (x = 1 <=> s4 >= D)
  <2>1. F * (D + 4 * m + 1) \in Nat
    BY SMT
  <2>2. s4 < D + 4 * m + 1
    BY <1>12, <1>13, <2>1, SMT
  <2>3. CASE x = 1
    BY <1>8, <1>9, <1>11, <1>12, <2>2, <2>3, <1>1, SMT
  <2>4. CASE x = 0
    BY <1>1, <1>8, <1>9, <1>11, <1>12, <2>2, <2>4, SMT
  <2> QED
    BY <1>8, <2>2, <2>3, <2>4
<1>15. High(s[4], T) = x
  <2>1. s4 \div D = x
    <3>1. 4 * m + 3 <= D /\ D > 0
      BY <1>1
    <3>2. CASE x = 1
      BY <1>14, <3>1, <3>2, SMT
    <3>3. CASE x = 0
      BY <1>14, <3>1, <3>3, SMT
    <3> QED
      BY <1>8, <3>2, <3>3
  <2> QED
    BY <1>1, <1>11, <2>1 DEF High
<1>16. /\ LimbsOf(n) /\ n[4] < D /\ s4 = n[4] + D * x /\ (\A i \in 0 .. 3 : n[i] = s[i])
       /\ d = Num(n) + x * Q
  <2>1. /\ LimbsOf(TopCut(s)) /\ TopCut(s)[4] < 2^T
        /\ s[4] = TopCut(s)[4] + 2^T * High(s[4], T)
        /\ (\A i \in 0 .. 3 : TopCut(s)[i] = s[i])
        /\ Num(s) = Num(TopCut(s)) + High(s[4], T) * (Fourth(2^W) * 2^T)
    BY <1>10, TopTaken DEF CarriedLimbs
  <2> QED
    BY <1>1, <1>2, <1>6, <1>10, <1>11, <1>15, <2>1
<1>17. CarriedLimbs(n)
  <2>1. \A i \in 0 .. 3 : s[i] < B
    BY <1>1, <1>10 DEF CarriedLimbs
  <2> QED
    BY <1>1, <1>16, <2>1 DEF CarriedLimbs
<1>18. PICK u \in Nat, n4 \in Nat : u = Num(n) /\ n4 = n[4]
  BY <1>16, NumType DEF LimbsOf, Idx
<1>19. v = u + x * (Q - C)
  <2>1. CASE x = 0
    BY <1>1, <1>9, <1>11, <1>16, <1>18, <2>1, SMT
  <2>2. CASE x = 1
    BY <1>1, <1>9, <1>11, <1>16, <1>18, <2>2, SMT
  <2> QED
    BY <1>8, <2>1, <2>2
<1>20. u < Q - C
  <2>1. CASE x = 0
    <3>1. ~(v + C >= Q) /\ u = v
      BY <1>1, <1>8, <1>19, <2>1, SMT
    <3> QED
      BY <1>1, <3>1, SMT
  <2>2. CASE x = 1
    <3>1. u >= F * (4 * m + 1) <=> n4 >= 4 * m + 1
      <4>1. 4 * m + 1 \in Nat
        BY SMT
      <4> QED
        BY <1>1, <1>6, <1>17, <1>18, <4>1, NumAbove
    <3>2. ~(n4 >= 4 * m + 1)
      BY <1>1, <1>14, <1>16, <1>18, <2>2, SMT
    <3>3. F * (4 * m + 1) <= F * (D - 1)
      BY <1>1, <1>7, SMT
    <3>4. F * (D - 1) = Q - F
      BY <1>1, <1>7, SMT
    <3>5. F * (4 * m + 1) \in Nat
      BY SMT
    <3> QED
      BY <1>1, <1>7, <3>1, <3>2, <3>3, <3>4, <3>5, SMT
  <2> QED
    BY <1>8, <2>1, <2>2
<1>21. ASSUME x = 0 PROVE n = f
  <2>1. Num(n) = Num(f)
    BY <1>1, <1>6, <1>18, <1>19, <1>21, SMT
  <2> QED
    BY <1>17, <2>1, NumSame
<1>22. /\ x \in {0, 1} /\ CarriedLimbs(s) /\ High(s[4], T) = x /\ High(f[4], T + 1) = 0
       /\ CarriedLimbs(n) /\ n[4] < 2^T /\ Num(f) = Num(n) + x * Char /\ Num(n) < Char
       /\ x = 0 => n = f
  BY <1>1, <1>5, <1>6, <1>8, <1>10, <1>15, <1>16, <1>17, <1>18, <1>19, <1>20, <1>21
<1> QED
  BY ONLY <1>2, <1>22

-----------------------------------------------------------------------------
(* What it takes to pass the checks of a VERIFY build.                      *)
Verified(n, mag, norm) ==
  /\ n \in [Idx -> Nat] /\ mag \in Nat /\ norm \in BOOLEAN
  /\ \A i \in Idx : n[i] \in 0 .. (IF i = 4 THEN MT ELSE M) * (IF norm THEN 1 ELSE 2 * mag)
  /\ mag <= MaxMag
  /\ norm => mag <= 1 /\ ~AtLeastP(n)
  /\ mag = 0 => \A i \in Idx : n[i] = 0

(* r is an element with these limbs, this magnitude and this flag.          *)
Becomes(r, n, mag, norm) == Element(r) /\ r.n = n /\ r.mag = mag /\ r.norm = norm

(* Setting a flag to what it is changes nothing.                            *)
LEMMA OkSame ==
  ASSUME NEW n, NEW mag, NEW norm, NEW v, NEW a, a = [n |-> n, mag |-> mag, norm |-> norm, ok |-> v]
  PROVE  [a EXCEPT !.ok = v] = a
<1>1. PICK w : w = v
  OBVIOUS
<1>2. [a EXCEPT !.ok = w] = [n |-> n, mag |-> mag, norm |-> norm, ok |-> w]
  <2>1. a = [n |-> n, mag |-> mag, norm |-> norm, ok |-> v]
    OBVIOUS
  <2> QED
    BY ONLY <2>1
<1> QED
  BY <1>1, <1>2

(* Limbs that pass the checks make an element.                              *)
LEMMA FeElement ==
  ASSUME Sizes, NEW n, NEW mag, NEW norm, Verified(n, mag, norm)
  PROVE  Becomes(Fe(n, mag, norm, TRUE), n, mag, norm)
<1>1. PICK a : a = [n |-> n, mag |-> mag, norm |-> norm, ok |-> TRUE]
  OBVIOUS
<1>2. fe_verify(a)
  <2>1. a.n = n /\ a.mag = mag /\ a.norm = norm
    BY <1>1
  <2>2. mag \in 0 .. MaxMag
    BY SMT DEF Sizes, Verified
  <2> QED
    BY <2>1, <2>2 DEF fe_verify, Verified
<1>3. Fe(n, mag, norm, TRUE) = a
  <2>1. Fe(n, mag, norm, TRUE) = [a EXCEPT !.ok = @ /\ fe_verify(a)]
    BY <1>1 DEF Fe, FeChecked
  <2>2. a.ok = TRUE
    BY <1>1
  <2>3. (a.ok /\ fe_verify(a)) = TRUE
    BY <1>2, <2>2
  <2>4. [a EXCEPT !.ok = TRUE] = a
    BY <1>1, OkSame
  <2> QED
    BY <2>1, <2>3, <2>4
<1>4. a \in [n : [Idx -> Nat], mag : Nat, norm : BOOLEAN, ok : BOOLEAN] /\ a.ok
  BY <1>1 DEF Verified
<1>5. a.n = n /\ a.mag = mag /\ a.norm = norm
  BY <1>1
<1> QED
  BY <1>2, <1>3, <1>4, <1>5 DEF Element, Becomes, Verified

(* A number in carried limbs that is below the characteristic.              *)
LEMMA NormalElement ==
  ASSUME Sizes, NEW n, CarriedLimbs(n), n[4] < 2^T, Num(n) < Char
  PROVE  Becomes(Fe(n, 1, TRUE, TRUE), n, 1, TRUE)
<1>1. PICK B \in Nat, D \in Nat : B = 2^W /\ B > 0 /\ D = 2^T /\ D > 0 /\ MaxMag \in Nat /\ MaxMag > 0
  BY SizesOf
<1>2. M = B - 1 /\ MT = D - 1
  BY <1>1 DEF M, MT
<1>3. ~AtLeastP(n)
  <2>1. Num(n) \in Nat /\ Char \in Nat
    BY NumType, CharOf DEF CarriedLimbs
  <2>2. ~(Num(n) >= Char)
    BY <2>1, SMT
  <2> QED
    BY <2>2, AtLeastPExact
<1>4. \A i \in Idx : n[i] \in 0 .. (IF i = 4 THEN MT ELSE M) * (IF TRUE THEN 1 ELSE 2 * 1)
  <2>1. \A i \in Idx : n[i] \in Nat
    BY DEF CarriedLimbs, LimbsOf
  <2>2. \A i \in 0 .. 3 : n[i] < B
    BY <1>1 DEF CarriedLimbs
  <2>3. MT * 1 = D - 1 /\ M * 1 = B - 1
    BY <1>1, <1>2, SMT
  <2>4. n[4] < D
    BY <1>1
  <2>5. \A i \in Idx : n[i] \in 0 .. (IF i = 4 THEN D - 1 ELSE B - 1)
    BY <1>1, <2>1, <2>2, <2>4, SMT DEF Idx
  <2> QED
    BY <2>3, <2>5
<1>5. n \in [Idx -> Nat] /\ 1 \in Nat /\ 1 <= MaxMag /\ TRUE \in BOOLEAN
  BY <1>1, SMT DEF CarriedLimbs, LimbsOf
<1>6. (TRUE => 1 <= 1 /\ ~AtLeastP(n)) /\ (1 = 0 => \A i \in Idx : n[i] = 0)
  BY <1>3, SMT
<1> QED
  BY <1>4, <1>5, <1>6, FeElement DEF Verified

(* A number in carried limbs with at most one bit too many.                 *)
LEMMA WeakElement ==
  ASSUME Sizes, NEW n, CarriedLimbs(n), n[4] < 2^T + 4 * MaxMag,
         NEW norm \in BOOLEAN, norm => n[4] < 2^T /\ Num(n) < Char
  PROVE  Becomes(Fe(n, 1, norm, TRUE), n, 1, norm)
<1>1. PICK B \in Nat, D \in Nat : /\ B = 2^W /\ B > 0 /\ D = 2^T /\ D > 0 /\ MaxMag \in Nat /\ MaxMag > 0
                                  /\ 4 * MaxMag + 3 <= D
  BY SizesOf
<1>2. M = B - 1 /\ MT = D - 1
  BY <1>1 DEF M, MT
<1>3. CASE norm
  <2>1. norm = TRUE
    BY <1>3
  <2> QED
    BY <1>3, <2>1, NormalElement
<1>4. CASE ~norm
  <2>1. \A i \in Idx : n[i] \in Nat
    BY DEF CarriedLimbs, LimbsOf
  <2>2. \A i \in 0 .. 3 : n[i] < B
    BY <1>1 DEF CarriedLimbs
  <2>3. MT * (2 * 1) = 2 * D - 2 /\ M * (2 * 1) = 2 * B - 2
    BY <1>1, <1>2, SMT
  <2>4. n[4] < D + 4 * MaxMag
    BY <1>1
  <2>5. \A i \in Idx : n[i] \in 0 .. (IF i = 4 THEN 2 * D - 2 ELSE 2 * B - 2)
    <3>1. n[4] <= 2 * D - 2
      BY <1>1, <2>1, <2>4, SMT DEF Idx
    <3>2. \A i \in 0 .. 3 : n[i] <= 2 * B - 2
      BY <1>1, <2>1, <2>2, SMT DEF Idx
    <3> QED
      BY <1>1, <2>1, <3>1, <3>2, SMT DEF Idx
  <2>6. \A i \in Idx : n[i] \in 0 .. (IF i = 4 THEN MT ELSE M) * (IF norm THEN 1 ELSE 2 * 1)
    BY <1>4, <2>3, <2>5
  <2>7. n \in [Idx -> Nat] /\ 1 \in Nat /\ 1 <= MaxMag
    BY <1>1, SMT DEF CarriedLimbs, LimbsOf
  <2>8. (norm => 1 <= 1 /\ ~AtLeastP(n)) /\ (1 = 0 => \A i \in Idx : n[i] = 0)
    BY <1>4, SMT
  <2> QED
    BY <2>6, <2>7, <2>8, FeElement DEF Verified
<1> QED
  BY <1>3, <1>4

-----------------------------------------------------------------------------
(* fe_normalize returns, for every element within its magnitude, the one    *)
(* number below the characteristic that is congruent to it, and no check    *)
(* fails on the way: secp256k1_fe_normalize.                                *)
THEOREM NormalizeExact ==
  ASSUME Sizes, NEW a, Element(a)
  PROVE  LET r == fe_normalize(a)
         IN  /\ Element(r) /\ r.mag = 1 /\ r.norm
             /\ Num(r.n) < Char /\ Congruent(Num(a.n), Num(r.n))
<1>1. PICK f : f = FirstPass(a.n)
  OBVIOUS
<1>2. /\ CarriedLimbs(f) /\ f[4] < 2^T + 4 * MaxMag
      /\ \E k \in Nat : Num(a.n) = Num(f) + k * Char
  BY <1>1, FirstPassExact
<1>3. PICK x, s : x = Overshoot(f) /\ s = Carried(LowPlus(f, x * C), N, W)
  OBVIOUS
<1>4. PICK n : n = TopCut(s)
  OBVIOUS
<1>5. /\ x \in {0, 1} /\ CarriedLimbs(s) /\ High(s[4], T) = x /\ High(f[4], T + 1) = 0
      /\ CarriedLimbs(n) /\ n[4] < 2^T /\ Num(f) = Num(n) + x * Char /\ Num(n) < Char
  BY <1>2, <1>3, <1>4, SecondPassExact
<1>6. PICK ok : ok = ((a.ok /\ High(f[4], T + 1) = 0) /\ High(s[4], T) = x)
  OBVIOUS
<1>7. ok = TRUE
  BY <1>5, <1>6 DEF Element
<1>8. fe_normalize(a) = Fe(n, 1, TRUE, ok)
  BY <1>1, <1>3, <1>4, <1>6 DEF fe_normalize, NormalizedFrom, SecondPass, Checked2, LowPlus, TopCut
<1>9. Congruent(Num(a.n), Num(n))
  <2>1. PICK k \in Nat : Num(a.n) = Num(f) + k * Char
    BY <1>2
  <2>2. PICK v \in Nat, u \in Nat, p \in Nat : v = Num(f) /\ u = Num(n) /\ p = Char
    BY <1>2, <1>5, NumType, CharOf DEF CarriedLimbs
  <2>3. Num(a.n) = u + (x + k) * p /\ x + k \in Int
    BY <1>5, <2>1, <2>2, SMT
  <2> QED
    BY <2>2, <2>3 DEF Congruent
<1>10. Becomes(Fe(n, 1, TRUE, TRUE), n, 1, TRUE)
  BY <1>5, NormalElement
<1> QED
  BY <1>5, <1>7, <1>8, <1>9, <1>10 DEF Becomes

(* fe_normalize_weak carries the limbs into magnitude one: the number is    *)
(* congruent to the one before, and a normalized element stays as it is:    *)
(* secp256k1_fe_normalize_weak.                                             *)
THEOREM NormalizeWeakExact ==
  ASSUME Sizes, NEW a, Element(a)
  PROVE  LET r == fe_normalize_weak(a)
         IN  /\ Element(r) /\ r.mag = 1 /\ r.norm = a.norm
             /\ Congruent(Num(a.n), Num(r.n)) /\ (a.norm => r.n = a.n)
<1>1. PICK f : f = FirstPass(a.n)
  OBVIOUS
<1>2. /\ CarriedLimbs(f) /\ f[4] < 2^T + 4 * MaxMag
      /\ \E k \in Nat : Num(a.n) = Num(f) + k * Char
      /\ a.norm => f = a.n
  BY <1>1, FirstPassExact
<1>3. High(f[4], T + 1) = 0
  BY <1>2, SecondPassExact
<1>4. PICK ok : ok = (a.ok /\ High(f[4], T + 1) = 0)
  OBVIOUS
<1>5. ok = TRUE
  BY <1>3, <1>4 DEF Element
<1>6. fe_normalize_weak(a) = Fe(f, 1, a.norm, ok)
  BY <1>1, <1>4 DEF fe_normalize_weak, Checked1
<1>7. a.norm \in BOOLEAN /\ (a.norm => f[4] < 2^T /\ Num(f) < Char)
  <2>1. a.norm \in BOOLEAN
    BY DEF Element
  <2>2. a.norm => a.n[4] < 2^T /\ Num(a.n) < Char
    BY Limits
  <2> QED
    BY <1>2, <2>1, <2>2
<1>8. PICK norm \in BOOLEAN : norm = a.norm
  BY <1>7
<1>9. Becomes(Fe(f, 1, norm, TRUE), f, 1, norm)
  BY <1>2, <1>7, <1>8, WeakElement
<1>10. Congruent(Num(a.n), Num(f))
  BY <1>2 DEF Congruent
<1> QED
  BY <1>2, <1>5, <1>6, <1>8, <1>9, <1>10 DEF Becomes

(* fe_normalize_var, which skips the second pass when it can, returns what  *)
(* fe_normalize returns: secp256k1_fe_normalize_var.                        *)
THEOREM NormalizeVarExact ==
  ASSUME Sizes, NEW a, Element(a)
  PROVE  fe_normalize_var(a) = fe_normalize(a)
<1>1. PICK f : f = FirstPass(a.n)
  OBVIOUS
<1>2. CarriedLimbs(f) /\ f[4] < 2^T + 4 * MaxMag
  BY <1>1, FirstPassExact
<1>3. PICK x, s : x = Overshoot(f) /\ s = Carried(LowPlus(f, x * C), N, W)
  OBVIOUS
<1>4. PICK n : n = TopCut(s)
  OBVIOUS
<1>5. /\ x \in {0, 1} /\ High(s[4], T) = x /\ High(f[4], T + 1) = 0
      /\ x = 0 => n = f
  BY <1>2, <1>3, <1>4, SecondPassExact
<1>6. PICK ok : ok = (a.ok /\ High(f[4], T + 1) = 0)
  OBVIOUS
<1>7. ok = TRUE /\ a.ok = TRUE
  <2>1. a.ok = TRUE
    BY DEF Element
  <2> QED
    BY <1>5, <1>6, <2>1
<1>8. fe_normalize(a) = Fe(n, 1, TRUE, ok)
  <2>1. fe_normalize(a) = Fe(n, 1, TRUE, ok /\ High(s[4], T) = x)
    BY <1>1, <1>3, <1>4, <1>6 DEF fe_normalize, NormalizedFrom, SecondPass, Checked2, LowPlus, TopCut
  <2>2. (ok /\ High(s[4], T) = x) = ok
    BY <1>5, <1>7
  <2> QED
    BY <2>1, <2>2
<1>9. fe_normalize_var(a) = SecondPassVar(f, x, a.ok)
  BY <1>1, <1>3 DEF fe_normalize_var, NormalizedVarFrom
<1>10. CASE x = 0
  <2>1. fe_normalize_var(a) = Fe(f, 1, TRUE, ok)
    BY <1>6, <1>9, <1>10 DEF SecondPassVar, Checked1
  <2> QED
    BY <1>5, <1>8, <1>10, <2>1
<1>11. CASE x = 1
  <2>1. 1 * C = C
    BY SizesOf, SMT
  <2>2. s = Carried([f EXCEPT ![0] = @ + C], N, W)
    BY <1>3, <1>11, <2>1 DEF LowPlus
  <2>3. fe_normalize_var(a) = Checked2(s, x, ok)
    BY <1>6, <1>9, <1>11, <2>2, SMT DEF SecondPassVar
  <2>4. Checked2(s, x, ok) = Fe(n, 1, TRUE, ok /\ High(s[4], T) = x)
    BY <1>4 DEF Checked2, TopCut
  <2>5. (ok /\ High(s[4], T) = x) = ok
    BY <1>5, <1>7
  <2> QED
    BY <1>8, <2>3, <2>4, <2>5
<1> QED
  BY <1>5, <1>10, <1>11

-----------------------------------------------------------------------------
(* A number below p is congruent to 0 modulo p only if it is 0.             *)
LEMMA MultipleBelow ==
  ASSUME NEW u \in Nat, NEW p \in Nat, u < p, NEW k \in Int, u = k * p
  PROVE  u = 0
<1>1. CASE k <= 0
  <2>1. k * p <= 0
    BY <1>1, SMT
  <2> QED
    BY <2>1, SMT
<1>2. CASE k >= 1
  <2>1. k * p >= p
    BY <1>2, SMT
  <2> QED
    BY <2>1, SMT
<1> QED
  BY <1>1, <1>2, SMT

(* Carried limbs hold zero only if all of them are zero.                    *)
LEMMA ZeroLimbs ==
  ASSUME Sizes, NEW t, CarriedLimbs(t)
  PROVE  Num(t) = 0 <=> \A i \in Idx : t[i] = 0
<1>1. PICK B \in Nat : B = 2^W /\ B > 0
  BY SizesOf
<1>2. PICK o : o = [i \in Idx |-> 0]
  OBVIOUS
<1>3. CarriedLimbs(o) /\ \A i \in Idx : o[i] = 0
  <2>1. \A i \in Idx : o[i] = 0
    BY <1>2
  <2>2. LimbsOf(o)
    BY <1>2 DEF LimbsOf
  <2>3. \A i \in 0 .. 3 : o[i] < B
    BY <1>1, <2>1, SMT DEF Idx
  <2> QED
    BY <1>1, <2>1, <2>2, <2>3 DEF CarriedLimbs
<1>4. Num(o) = 0
  <2>1. o[0] = 0 /\ o[1] = 0 /\ o[2] = 0 /\ o[3] = 0 /\ o[4] = 0
    BY <1>3, SMT DEF Idx
  <2>2. 0 + B * 0 = 0
    BY <1>1, SMT
  <2> QED
    BY <1>1, <2>1, <2>2 DEF Num, Five
<1>5. ASSUME Num(t) = 0 PROVE \A i \in Idx : t[i] = 0
  <2>1. t = o
    BY <1>3, <1>4, <1>5, NumSame
  <2> QED
    BY <1>3, <2>1
<1>6. ASSUME \A i \in Idx : t[i] = 0 PROVE Num(t) = 0
  <2>1. t = o
    BY <1>2, <1>6 DEF CarriedLimbs, LimbsOf
  <2> QED
    BY <1>4, <2>1
<1> QED
  BY <1>5, <1>6

(* fe_normalizes_to_zero answers, without normalizing, whether the number   *)
(* is congruent to 0: secp256k1_fe_normalizes_to_zero.                      *)
THEOREM NormalizesToZeroExact ==
  ASSUME Sizes, NEW a, Element(a)
  PROVE  fe_normalizes_to_zero(a) <=> Congruent(Num(a.n), 0)
<1>1. PICK f : f = FirstPass(a.n)
  OBVIOUS
<1>2. /\ CarriedLimbs(f) /\ f[4] < 2^T + 4 * MaxMag
      /\ \E k \in Nat : Num(a.n) = Num(f) + k * Char
  BY <1>1, FirstPassExact
<1>3. PICK x, n : x = Overshoot(f) /\ n = TopCut(Carried(LowPlus(f, x * C), N, W))
  OBVIOUS
<1>4. /\ x \in {0, 1} /\ CarriedLimbs(n) /\ Num(f) = Num(n) + x * Char /\ Num(n) < Char
  BY <1>2, <1>3, SecondPassExact
<1>5. PICK k \in Nat : Num(a.n) = Num(f) + k * Char
  BY <1>2
<1>6. PICK v \in Nat, u \in Nat, p \in Nat : v = Num(f) /\ u = Num(n) /\ p = Char
  BY <1>2, <1>4, NumType, CharOf DEF CarriedLimbs
<1>7. v = u + x * p /\ u < p /\ Num(a.n) = u + (x + k) * p
  <2>1. v = u + x * p /\ u < p /\ Num(a.n) = v + k * p
    BY <1>4, <1>5, <1>6
  <2>2. (x + k) * p = x * p + k * p
    BY <1>4, SMT
  <2>3. x * p \in Int /\ k * p \in Int
    BY <1>4, SMT
  <2> QED
    BY <2>1, <2>2, <2>3, SMT
<1>8. Congruent(Num(a.n), 0) <=> u = 0
  <2>1. ASSUME Congruent(Num(a.n), 0) PROVE u = 0
    <3>1. PICK j \in Int : Num(a.n) = 0 + j * p
      BY <1>6, <2>1 DEF Congruent
    <3>2. PICK l \in Int : l = x + k /\ u + l * p = j * p
      <4>1. PICK l \in Int : l = x + k
        BY <1>4, SMT
      <4>2. u + l * p = 0 + j * p
        BY <1>7, <3>1, <4>1
      <4>3. j * p \in Int
        BY SMT
      <4> QED
        BY <4>1, <4>2, <4>3, SMT
    <3>3. u = (j - l) * p
      <4>1. (j - l) * p = j * p - l * p
        BY SMT
      <4>2. j * p \in Int /\ l * p \in Int
        BY SMT
      <4> QED
        BY <3>2, <4>1, <4>2, SMT
    <3>4. PICK i \in Int : i = j - l
      BY SMT
    <3> QED
      BY <1>7, <3>3, <3>4, MultipleBelow
  <2>2. ASSUME u = 0 PROVE Congruent(Num(a.n), 0)
    <3>1. x + k \in Int
      BY <1>4, SMT
    <3> QED
      BY <1>6, <1>7, <2>2, <3>1 DEF Congruent
  <2> QED
    BY <2>1, <2>2
<1>9. u = 0 <=> v = 0 \/ v = p
  <2>1. CASE x = 0
    BY <1>7, <2>1, SMT
  <2>2. CASE x = 1
    BY <1>7, <2>2, SMT
  <2> QED
    BY <1>4, <2>1, <2>2
<1>10. v = 0 <=> \A i \in Idx : f[i] = 0
  BY <1>2, <1>6, ZeroLimbs
<1>11. v = p <=> f = P
  BY <1>2, <1>6, CharOf, NumSame
<1> QED
  BY <1>1, <1>8, <1>9, <1>10, <1>11 DEF fe_normalizes_to_zero, IsRaw0OrP

(* The lowest limb is known before the others are carried.                  *)
LEMMA CarriedLow ==
  ASSUME Sizes, NEW t, LimbsOf(t)
  PROVE  Carried(t, N, W)[0] = Low(t[0], W)
<1>3. PICK s0 : s0 = t[0]
  OBVIOUS
<1>4. PICK s1 : s1 = t[1] + High(s0, W)
  OBVIOUS
<1>5. PICK s2 : s2 = t[2] + High(s1, W)
  OBVIOUS
<1>6. PICK s3 : s3 = t[3] + High(s2, W)
  OBVIOUS
<1>7. PICK s4 : s4 = t[4] + High(s3, W)
  OBVIOUS
<1>8. \A i \in 0 .. 4 : t[i] \in Int
  BY DEF LimbsOf, Idx
<1>9. Carried(t, 5, W) = [i \in 0 .. 4 |-> CASE i = 0 -> Low(s0, W) [] i = 1 -> Low(s1, W)
                               [] i = 2 -> Low(s2, W) [] i = 3 -> Low(s3, W) [] i = 4 -> s4]
  BY <1>3, <1>4, <1>5, <1>6, <1>7, <1>8, CarriedFive
<1>10. Carried(t, 5, W)[0] = Low(s0, W)
  BY <1>9, SMT
<1> QED
  BY <1>3, <1>10 DEF N

(* The early exit of fe_normalizes_to_zero_var, which looks at the lowest   *)
(* limb alone, never changes the answer:                                    *)
(* secp256k1_fe_normalizes_to_zero_var.                                     *)
THEOREM NormalizesToZeroVarExact ==
  ASSUME Sizes, NEW a, Element(a)
  PROVE  fe_normalizes_to_zero_var(a) <=> fe_normalizes_to_zero(a)
<1>1. PICK f : f = FirstPass(a.n)
  OBVIOUS
<1>2. PICK t : t = a.n /\ LimbsOf(t)
  BY Limits
<1>3. f[0] = Low(t[0] + High(t[4], T) * C, W)
  <2>1. LimbsOf(TopCut(t)) /\ High(t[4], T) \in Nat /\ \A i \in 0 .. 3 : TopCut(t)[i] = t[i]
    BY <1>2, TopTaken
  <2>2. PICK z \in Nat : z = High(t[4], T) * C
    BY <2>1, SizesOf, SMT
  <2>3. LimbsOf(LowPlus(TopCut(t), z)) /\ LowPlus(TopCut(t), z)[0] = TopCut(t)[0] + z
    BY <2>1, AddedLow
  <2>4. f = Carried(LowPlus(TopCut(t), z), N, W)
    BY <1>1, <1>2, <2>2, FirstPassSteps
  <2>5. f[0] = Low(TopCut(t)[0] + z, W)
    BY <2>3, <2>4, CarriedLow
  <2>6. 0 \in 0 .. 3
    BY SMT
  <2> QED
    BY <2>1, <2>2, <2>5, <2>6
<1>4. IsRaw0OrP(f) => f[0] \in {0, P[0]}
  <2>1. 0 \in Idx
    BY SMT DEF Idx
  <2> QED
    BY <2>1 DEF IsRaw0OrP
<1> QED
  BY <1>1, <1>2, <1>3, <1>4 DEF fe_normalizes_to_zero_var, fe_normalizes_to_zero

-----------------------------------------------------------------------------
(* Numbers are added and multiplied limb by limb.                           *)
LEMMA LimbTypes ==
  ASSUME NEW t, LimbsOf(t)
  PROVE  t[0] \in Nat /\ t[1] \in Nat /\ t[2] \in Nat /\ t[3] \in Nat /\ t[4] \in Nat
BY DEF LimbsOf, Idx

(* Adding limb by limb adds the numbers.                                    *)
LEMMA NumSum ==
  ASSUME Sizes, NEW t, NEW u, NEW v, LimbsOf(t), LimbsOf(u), LimbsOf(v),
         \A i \in Idx : v[i] = t[i] + u[i]
  PROVE  Num(v) = Num(t) + Num(u)
<1>1. PICK B \in Nat : B = 2^W
  BY SizesOf
<1>2. PICK t0 \in Nat, t1 \in Nat, t2 \in Nat, t3 \in Nat, t4 \in Nat :
          t0 = t[0] /\ t1 = t[1] /\ t2 = t[2] /\ t3 = t[3] /\ t4 = t[4]
  BY LimbTypes
<1>3. PICK u0 \in Nat, u1 \in Nat, u2 \in Nat, u3 \in Nat, u4 \in Nat :
          u0 = u[0] /\ u1 = u[1] /\ u2 = u[2] /\ u3 = u[3] /\ u4 = u[4]
  BY LimbTypes
<1>4. v[0] = t0 + u0 /\ v[1] = t1 + u1 /\ v[2] = t2 + u2 /\ v[3] = t3 + u3 /\ v[4] = t4 + u4
  <2>1. 0 \in Idx /\ 1 \in Idx /\ 2 \in Idx /\ 3 \in Idx /\ 4 \in Idx
    BY DEF Idx
  <2> QED
    BY <1>2, <1>3, <2>1
<1>5. PICK y3 \in Nat, z3 \in Nat : y3 = t3 + B * t4 /\ z3 = u3 + B * u4
  BY SMT
<1>6. (t3 + u3) + B * (t4 + u4) = y3 + z3
  BY <1>5, SMT
<1>7. PICK y2 \in Nat, z2 \in Nat : y2 = t2 + B * y3 /\ z2 = u2 + B * z3
  BY SMT
<1>8. (t2 + u2) + B * (y3 + z3) = y2 + z2
  BY <1>7, SMT
<1>9. PICK y1 \in Nat, z1 \in Nat : y1 = t1 + B * y2 /\ z1 = u1 + B * z2
  BY SMT
<1>10. (t1 + u1) + B * (y2 + z2) = y1 + z1
  BY <1>9, SMT
<1>11. (t0 + u0) + B * (y1 + z1) = (t0 + B * y1) + (u0 + B * z1)
  BY SMT
<1>12. Num(v) = (t0 + u0) + B * (y1 + z1)
  BY <1>1, <1>4, <1>6, <1>8, <1>10 DEF Num, Five
<1>13. Num(t) = t0 + B * y1 /\ Num(u) = u0 + B * z1
  BY <1>1, <1>2, <1>3, <1>5, <1>7, <1>9 DEF Num, Five
<1> QED
  BY <1>11, <1>12, <1>13

(* Multiplying limb by limb multiplies the number.                          *)
LEMMA NumScaled ==
  ASSUME Sizes, NEW t, NEW k \in Nat, NEW v, LimbsOf(t), LimbsOf(v),
         \A i \in Idx : v[i] = t[i] * k
  PROVE  Num(v) = k * Num(t)
<1>1. PICK B \in Nat : B = 2^W
  BY SizesOf
<1>2. PICK t0 \in Nat, t1 \in Nat, t2 \in Nat, t3 \in Nat, t4 \in Nat :
          t0 = t[0] /\ t1 = t[1] /\ t2 = t[2] /\ t3 = t[3] /\ t4 = t[4]
  BY LimbTypes
<1>4. v[0] = t0 * k /\ v[1] = t1 * k /\ v[2] = t2 * k /\ v[3] = t3 * k /\ v[4] = t4 * k
  <2>1. 0 \in Idx /\ 1 \in Idx /\ 2 \in Idx /\ 3 \in Idx /\ 4 \in Idx
    BY DEF Idx
  <2> QED
    BY <1>2, <2>1
<1>5. PICK y3 \in Nat : y3 = t3 + B * t4
  BY SMT
<1>6. t3 * k + B * (t4 * k) = y3 * k
  BY <1>5, SMT
<1>7. PICK y2 \in Nat : y2 = t2 + B * y3
  BY SMT
<1>8. t2 * k + B * (y3 * k) = y2 * k
  BY <1>7, SMT
<1>9. PICK y1 \in Nat : y1 = t1 + B * y2
  BY SMT
<1>10. t1 * k + B * (y2 * k) = y1 * k
  BY <1>9, SMT
<1>11. t0 * k + B * (y1 * k) = k * (t0 + B * y1)
  BY SMT
<1>12. Num(v) = t0 * k + B * (y1 * k)
  BY <1>1, <1>4, <1>6, <1>8, <1>10 DEF Num, Five
<1>13. Num(t) = t0 + B * y1
  BY <1>1, <1>2, <1>5, <1>7, <1>9 DEF Num, Five
<1> QED
  BY <1>11, <1>12, <1>13

(* The bounds on the limbs of an element, index by index.                   *)
Most(i) == IF i = 4 THEN MT ELSE M

(* Limits, with one bound for every limb.                                   *)
LEMMA MostOf ==
  ASSUME Sizes, NEW a, Element(a)
  PROVE  /\ LimbsOf(a.n) /\ a.mag \in Nat /\ a.mag <= MaxMag
         /\ \A i \in Idx : a.n[i] \in Nat /\ Most(i) \in Nat /\ a.n[i] <= 2 * a.mag * Most(i)
<1>1. PICK B \in Nat, D \in Nat : B = 2^W /\ B > 0 /\ D = 2^T /\ D > 0 /\ MaxMag \in Nat
  BY SizesOf
<1>2. MT \in Nat /\ M \in Nat
  BY <1>1, SMT DEF MT, M
<1>3. /\ LimbsOf(a.n) /\ a.mag \in 0 .. MaxMag
      /\ (\A i \in 0 .. 3 : a.n[i] <= 2 * a.mag * M) /\ a.n[4] <= 2 * a.mag * MT
  BY Limits
<1>4. a.mag \in Nat /\ a.mag <= MaxMag
  BY <1>1, <1>3, SMT
<1>5. \A i \in Idx : a.n[i] \in Nat
  BY <1>3 DEF LimbsOf
<1>6. \A i \in Idx : Most(i) \in Nat
  BY <1>2 DEF Most
<1>7. \A i \in Idx : a.n[i] <= 2 * a.mag * Most(i)
  <2>1. \A i \in Idx : i = 4 \/ i \in 0 .. 3
    BY SMT DEF Idx
  <2>2. ASSUME NEW i \in Idx PROVE a.n[i] <= 2 * a.mag * Most(i)
    <3>1. CASE i = 4
      BY <1>3, <3>1 DEF Most
    <3>2. CASE i \in 0 .. 3
      <4>1. i # 4
        BY <3>2, SMT
      <4>2. Most(i) = M
        BY <4>1 DEF Most
      <4> QED
        BY <1>3, <3>2, <4>2
    <3> QED
      BY <2>1, <3>1, <3>2
  <2> QED
    BY <2>2
<1> QED
  BY <1>3, <1>4, <1>5, <1>6, <1>7

(* Limbs within twice a magnitude make an element that is not normalized.   *)
LEMMA LazyElement ==
  ASSUME Sizes, NEW n \in [Idx -> Nat], NEW mag \in Nat, mag <= MaxMag,
         \A i \in Idx : n[i] <= 2 * mag * Most(i)
  PROVE  Becomes(Fe(n, mag, FALSE, TRUE), n, mag, FALSE)
<1>1. PICK B \in Nat, D \in Nat : B = 2^W /\ B > 0 /\ D = 2^T /\ D > 0
  BY SizesOf
<1>2. MT \in Nat /\ M \in Nat
  BY <1>1, SMT DEF MT, M
<1>3. \A i \in Idx : Most(i) \in Nat /\ Most(i) * (2 * mag) = 2 * mag * Most(i) /\ n[i] \in Nat
  <2>1. \A i \in Idx : Most(i) \in Nat /\ n[i] \in Nat
    BY <1>2 DEF Most
  <2> QED
    BY <2>1, SMT
<1>4. \A i \in Idx : n[i] \in 0 .. Most(i) * (2 * mag)
  <2>1. ASSUME NEW i \in Idx PROVE n[i] \in 0 .. Most(i) * (2 * mag)
    <3>1. PICK l \in Nat, k \in Nat : l = n[i] /\ k = Most(i)
      BY <1>3
    <3>2. l <= 2 * mag * k
      BY <3>1
    <3>3. l \in 0 .. k * (2 * mag)
      BY <3>2, SMT
    <3> QED
      BY <3>1, <3>3
  <2> QED
    BY <2>1
<1>5. \A i \in Idx : n[i] \in 0 .. (IF i = 4 THEN MT ELSE M) * (IF FALSE THEN 1 ELSE 2 * mag)
  BY <1>4 DEF Most
<1>6. ASSUME mag = 0, NEW i \in Idx PROVE n[i] = 0
  <2>1. PICK l \in Nat, k \in Nat : l = n[i] /\ k = Most(i)
    BY <1>3
  <2>2. l <= 2 * mag * k
    BY <2>1
  <2>3. l <= 0
    BY <1>6, <2>2, SMT
  <2> QED
    BY <2>1, <2>3, SMT
<1>7. Verified(n, mag, FALSE)
  BY <1>5, <1>6 DEF Verified
<1> QED
  BY <1>7, FeElement

(* fe_negate of an element of magnitude at most m: no limb of the result is *)
(* negative, the sum is a multiple of the characteristic, and the magnitude *)
(* is m + 1: secp256k1_fe_negate.                                           *)
THEOREM NegateExact ==
  ASSUME Sizes, NEW a, Element(a), NEW m \in Nat, a.mag <= m, m + 1 <= MaxMag
  PROVE  LET r == fe_negate(a, m)
         IN  /\ Element(r) /\ r.mag = m + 1
             /\ Congruent(Num(a.n) + Num(r.n), 0)
<1>1. PICK B \in Nat, D \in Nat : /\ B = 2^W /\ B > 0 /\ D = 2^T /\ D > 0 /\ MaxMag \in Nat /\ MaxMag > 0
                                  /\ C \in Nat /\ C > 0 /\ MaxMag * C <= B
                                  /\ 4 * MaxMag + 3 <= D
  BY SizesOf
<1>2. PICK q \in Nat : q = 2 * (m + 1)
  BY SMT
<1>3. PICK n : n = [i \in Idx |-> P[i] * 2 * (m + 1) - a.n[i]]
  OBVIOUS
<1>4. /\ LimbsOf(a.n) /\ a.mag \in Nat
      /\ \A i \in Idx : a.n[i] \in Nat /\ Most(i) \in Nat /\ a.n[i] <= 2 * a.mag * Most(i)
  BY MostOf
<1>5. PICK g \in Nat : g = a.mag /\ g <= m
  BY <1>4
<1>6. \A i \in Idx : /\ P[i] \in Nat /\ P[i] <= Most(i) /\ 2 * m * Most(i) <= P[i] * q
  <2>1. P[0] = B - C /\ MT = D - 1 /\ M = B - 1 /\ \A i \in 1 .. 4 : P[i] = Most(i)
    BY <1>1, SMT DEF P, Idx, MT, M, Most
  <2>2. CASE TRUE
    <3>1. ASSUME NEW i \in Idx PROVE P[i] \in Nat /\ P[i] <= Most(i) /\ 2 * m * Most(i) <= P[i] * q
      <4>1. CASE i = 0
        <5>1. Most(i) = B - 1 /\ P[i] = B - C
          BY <2>1, <4>1, SMT DEF Most
        <5>2. (m + 1) * C <= MaxMag * C
          BY <1>1, SMT
        <5>3. (m + 1) * C \in Nat /\ MaxMag * C \in Nat
          BY <1>1, SMT
        <5>4. (m + 1) * C <= B
          BY <1>1, <5>2, <5>3, SMT
        <5>5. C <= (m + 1) * C
          BY <1>1, SMT
        <5>6. (B - C) * q = 2 * (m * B) + 2 * B - 2 * ((m + 1) * C)
          BY <1>1, <1>2, SMT
        <5>7. 2 * m * (B - 1) = 2 * (m * B) - 2 * m
          BY <1>1, SMT
        <5>8. m * B \in Nat
          BY <1>1, SMT
        <5>9. 2 * m * (B - 1) <= (B - C) * q
          BY <1>1, <5>3, <5>4, <5>6, <5>7, <5>8, SMT
        <5> QED
          BY <1>1, <5>1, <5>3, <5>4, <5>5, <5>9, SMT
      <4>2. CASE i # 0
        <5>1. P[i] = Most(i) /\ Most(i) \in Nat
          BY <1>4, <2>1, <4>2, SMT DEF Idx
        <5>2. PICK k \in Nat : k = Most(i)
          BY <5>1
        <5>3. 2 * m * k <= k * q
          BY <1>2, SMT
        <5> QED
          BY <5>1, <5>2, <5>3, SMT
      <4> QED
        BY <4>1, <4>2
    <3> QED
      BY <3>1
  <2> QED
    BY <2>2
<1>7. \A i \in Idx : n[i] \in Nat /\ n[i] + a.n[i] = P[i] * q /\ n[i] <= 2 * (m + 1) * Most(i)
  <2>1. ASSUME NEW i \in Idx PROVE n[i] \in Nat /\ n[i] + a.n[i] = P[i] * q /\ n[i] <= 2 * (m + 1) * Most(i)
    <3>1. PICK l \in Nat, k \in Nat, p \in Nat : l = a.n[i] /\ k = Most(i) /\ p = P[i]
      BY <1>4, <1>6
    <3>2. n[i] = p * 2 * (m + 1) - l
      BY <1>3, <3>1
    <3>3. p * 2 * (m + 1) = p * q /\ p * q \in Nat
      BY <1>2, SMT
    <3>4. l <= 2 * g * k /\ 2 * m * k <= p * q /\ p <= k
      BY <1>4, <1>5, <1>6, <3>1
    <3>5. 2 * g * k <= 2 * m * k
      BY <1>5, SMT
    <3>6. p * q <= 2 * (m + 1) * k
      BY <1>2, <3>4, SMT
    <3>7. 2 * g * k \in Nat /\ 2 * m * k \in Nat /\ 2 * (m + 1) * k \in Nat
      BY SMT
    <3>8. l <= p * q
      BY <3>3, <3>4, <3>5, <3>7, SMT
    <3>9. n[i] = p * q - l
      BY <3>2, <3>3
    <3>10. n[i] \in Nat /\ n[i] + l = p * q /\ n[i] <= 2 * (m + 1) * k
      BY <3>3, <3>6, <3>7, <3>8, <3>9, SMT
    <3> QED
      BY <3>1, <3>10
  <2> QED
    BY <2>1
<1>8. n \in [Idx -> Nat] /\ m + 1 \in Nat
  <2>1. \A i \in Idx : n[i] \in Nat
    BY <1>7
  <2> QED
    BY <1>3, <2>1, SMT
<1>9. Becomes(Fe(n, m + 1, FALSE, TRUE), n, m + 1, FALSE)
  BY <1>7, <1>8, LazyElement
<1>10. fe_negate(a, m) = Fe(n, m + 1, FALSE, TRUE)
  <2>1. (a.ok /\ a.mag <= m) = TRUE
    BY DEF Element
  <2> QED
    BY <1>3, <2>1 DEF fe_negate
<1>11. Num(a.n) + Num(n) = 0 + q * Char
  <2>1. PICK v : v = [i \in Idx |-> P[i] * q]
    OBVIOUS
  <2>2. LimbsOf(v) /\ LimbsOf(n) /\ LimbsOf(P)
    <3>1. \A i \in Idx : P[i] * q \in Nat
      BY <1>6, SMT
    <3> QED
      BY <1>8, <2>1, <3>1, CharOf DEF LimbsOf
  <2>3. Num(v) = q * Num(P)
    <3>1. \A i \in Idx : v[i] = P[i] * q
      BY <2>1
    <3> QED
      BY <2>2, <3>1, NumScaled
  <2>4. Num(v) = Num(a.n) + Num(n)
    <3>1. \A i \in Idx : v[i] = a.n[i] + n[i]
      <4>1. \A i \in Idx : n[i] + a.n[i] = a.n[i] + n[i]
        BY <1>4, <1>7, SMT
      <4> QED
        BY <1>7, <2>1, <4>1
    <3> QED
      BY <1>4, <2>2, <3>1, NumSum
  <2>5. Num(P) = Char /\ q * Char \in Int
    BY CharOf, SMT
  <2> QED
    BY <2>3, <2>4, <2>5, SMT
<1>12. Congruent(Num(a.n) + Num(n), 0)
  BY <1>11 DEF Congruent
<1> QED
  BY <1>9, <1>10, <1>12 DEF Becomes

(* fe_mul_int multiplies the number and the magnitude: secp256k1_fe_mul_int. *)
THEOREM MulIntExact ==
  ASSUME Sizes, NEW a, Element(a), NEW k \in Nat, a.mag * k <= MaxMag
  PROVE  LET r == fe_mul_int(a, k)
         IN  Element(r) /\ r.mag = a.mag * k /\ Num(r.n) = k * Num(a.n)
<1>1. PICK n : n = [i \in Idx |-> a.n[i] * k]
  OBVIOUS
<1>2. /\ LimbsOf(a.n) /\ a.mag \in Nat
      /\ \A i \in Idx : a.n[i] \in Nat /\ Most(i) \in Nat /\ a.n[i] <= 2 * a.mag * Most(i)
  BY MostOf
<1>3. PICK g \in Nat, h \in Nat : g = a.mag /\ h = g * k
  BY <1>2, SMT
<1>4. \A i \in Idx : n[i] \in Nat /\ n[i] = a.n[i] * k /\ n[i] <= 2 * h * Most(i)
  <2>1. ASSUME NEW i \in Idx PROVE n[i] \in Nat /\ n[i] = a.n[i] * k /\ n[i] <= 2 * h * Most(i)
    <3>1. PICK l \in Nat, p \in Nat : l = a.n[i] /\ p = Most(i)
      BY <1>2
    <3>2. l <= 2 * g * p
      BY <1>2, <1>3, <3>1
    <3>3. l * k <= (2 * g * p) * k
      BY <3>2, SMT
    <3>4. (2 * g * p) * k = 2 * h * p
      BY <1>3, SMT
    <3>5. l * k \in Nat
      BY SMT
    <3>6. n[i] = l * k
      BY <1>1, <3>1
    <3> QED
      BY <3>1, <3>3, <3>4, <3>5, <3>6
  <2> QED
    BY <2>1
<1>5. n \in [Idx -> Nat]
  BY <1>1, <1>4
<1>6. Becomes(Fe(n, h, FALSE, TRUE), n, h, FALSE)
  BY <1>3, <1>4, <1>5, LazyElement
<1>7. fe_mul_int(a, k) = Fe(n, h, FALSE, TRUE)
  <2>1. a.ok = TRUE
    BY DEF Element
  <2> QED
    BY <1>1, <1>3, <2>1 DEF fe_mul_int
<1>8. Num(n) = k * Num(a.n)
  <2>1. LimbsOf(n)
    BY <1>5 DEF LimbsOf
  <2> QED
    BY <1>2, <1>4, <2>1, NumScaled
<1> QED
  BY <1>3, <1>6, <1>7, <1>8 DEF Becomes

(* fe_add adds the numbers and the magnitudes: secp256k1_fe_add.            *)
THEOREM AddExact ==
  ASSUME Sizes, NEW a, Element(a), NEW b, Element(b), a.mag + b.mag <= MaxMag
  PROVE  LET r == fe_add(a, b)
         IN  Element(r) /\ r.mag = a.mag + b.mag /\ Num(r.n) = Num(a.n) + Num(b.n)
<1>1. PICK n : n = [i \in Idx |-> a.n[i] + b.n[i]]
  OBVIOUS
<1>2. /\ LimbsOf(a.n) /\ a.mag \in Nat
      /\ \A i \in Idx : a.n[i] \in Nat /\ Most(i) \in Nat /\ a.n[i] <= 2 * a.mag * Most(i)
  BY MostOf
<1>3. /\ LimbsOf(b.n) /\ b.mag \in Nat
      /\ \A i \in Idx : b.n[i] \in Nat /\ b.n[i] <= 2 * b.mag * Most(i)
  BY MostOf
<1>4. PICK g \in Nat, e \in Nat, h \in Nat : g = a.mag /\ e = b.mag /\ h = g + e
  BY <1>2, <1>3, SMT
<1>5. \A i \in Idx : n[i] \in Nat /\ n[i] = a.n[i] + b.n[i] /\ n[i] <= 2 * h * Most(i)
  <2>1. ASSUME NEW i \in Idx PROVE n[i] \in Nat /\ n[i] = a.n[i] + b.n[i] /\ n[i] <= 2 * h * Most(i)
    <3>1. PICK l \in Nat, j \in Nat, p \in Nat : l = a.n[i] /\ j = b.n[i] /\ p = Most(i)
      BY <1>2, <1>3
    <3>2. l <= 2 * g * p /\ j <= 2 * e * p
      BY <1>2, <1>3, <1>4, <3>1
    <3>3. 2 * h * p = 2 * g * p + 2 * e * p
      BY <1>4, SMT
    <3>4. 2 * g * p \in Nat /\ 2 * e * p \in Nat
      BY SMT
    <3>5. l + j \in Nat /\ l + j <= 2 * h * p
      BY <3>2, <3>3, <3>4, SMT
    <3>6. n[i] = l + j
      BY <1>1, <3>1
    <3> QED
      BY <3>1, <3>5, <3>6
  <2> QED
    BY <2>1
<1>6. n \in [Idx -> Nat]
  BY <1>1, <1>5
<1>7. Becomes(Fe(n, h, FALSE, TRUE), n, h, FALSE)
  BY <1>4, <1>5, <1>6, LazyElement
<1>8. fe_add(a, b) = Fe(n, h, FALSE, TRUE)
  <2>1. (a.ok /\ b.ok) = TRUE
    BY DEF Element
  <2> QED
    BY <1>1, <1>4, <2>1 DEF fe_add
<1>9. Num(n) = Num(a.n) + Num(b.n)
  <2>1. LimbsOf(n)
    BY <1>6 DEF LimbsOf
  <2> QED
    BY <1>2, <1>3, <1>5, <2>1, NumSum
<1> QED
  BY <1>4, <1>7, <1>8, <1>9 DEF Becomes

-----------------------------------------------------------------------------
(* Sums of one to five terms, the columns of a product.                     *)
LEMMA SumOne ==
  ASSUME NEW lo \in Int, NEW f, \A i \in lo .. lo : f[i] \in Int
  PROVE  SumRange(f, lo, lo) = f[lo]
<1> DEFINE s == CHOOSE s : s = [i \in lo - 1 .. lo |-> IF i < lo THEN 0 ELSE s[i - 1] + f[i]]
<1>0. f[lo] \in Int
  BY SMT
<1>1. SumRange(f, lo, lo) = s[lo]
  BY SMT DEF SumRange
<1>2. \E z : z = [i \in lo - 1 .. lo |-> IF i < lo THEN 0 ELSE z[i - 1] + f[i]]
  <2>v0. PICK v0 \in Int : v0 = f[lo]
    BY <1>0, SMT
  <2>0. v0 = f[lo]
    BY <2>v0
  <2> DEFINE z == [i \in lo - 1 .. lo |->
                     CASE i = lo - 1 -> 0
                       [] i = lo -> v0]
  <2>1. z[lo - 1] = 0 /\ z[lo] = v0
    BY SMT
  <2>2. z = [i \in lo - 1 .. lo |-> z[i]]
    OBVIOUS
  <2> HIDE DEF z
  <2>3. \A i \in lo - 1 .. lo : z[i] = IF i < lo THEN 0 ELSE z[i - 1] + f[i]
    BY <1>0, <2>0, <2>1, SMT
  <2> QED
    BY <2>2, <2>3
<1>3. s = [i \in lo - 1 .. lo |-> IF i < lo THEN 0 ELSE s[i - 1] + f[i]]
  BY <1>2
<1> HIDE DEF s
<1>4. /\ s[lo - 1] = 0
      /\ s[lo] = s[lo - 1] + f[lo]
  BY <1>3, SMT
<1> QED
  BY <1>0, <1>1, <1>4, SMT

LEMMA SumTwo ==
  ASSUME NEW lo \in Int, NEW f, \A i \in lo .. lo + 1 : f[i] \in Int
  PROVE  SumRange(f, lo, lo + 1) = f[lo] + f[lo + 1]
<1> DEFINE s == CHOOSE s : s = [i \in lo - 1 .. lo + 1 |-> IF i < lo THEN 0 ELSE s[i - 1] + f[i]]
<1>0. f[lo] \in Int /\ f[lo + 1] \in Int
  BY SMT
<1>1. SumRange(f, lo, lo + 1) = s[lo + 1]
  BY SMT DEF SumRange
<1>2. \E z : z = [i \in lo - 1 .. lo + 1 |-> IF i < lo THEN 0 ELSE z[i - 1] + f[i]]
  <2>v0. PICK v0 \in Int : v0 = f[lo]
    BY <1>0, SMT
  <2>v1. PICK v1 \in Int : v1 = v0 + f[lo + 1]
    BY <1>0, SMT
  <2>0. v0 = f[lo] /\ v1 = v0 + f[lo + 1]
    BY <2>v0, <2>v1
  <2> DEFINE z == [i \in lo - 1 .. lo + 1 |->
                     CASE i = lo - 1 -> 0
                       [] i = lo -> v0
                       [] i = lo + 1 -> v1]
  <2>1. z[lo - 1] = 0 /\ z[lo] = v0 /\ z[lo + 1] = v1
    BY SMT
  <2>2. z = [i \in lo - 1 .. lo + 1 |-> z[i]]
    OBVIOUS
  <2> HIDE DEF z
  <2>3. \A i \in lo - 1 .. lo + 1 : z[i] = IF i < lo THEN 0 ELSE z[i - 1] + f[i]
    BY <1>0, <2>0, <2>1, SMT
  <2> QED
    BY <2>2, <2>3
<1>3. s = [i \in lo - 1 .. lo + 1 |-> IF i < lo THEN 0 ELSE s[i - 1] + f[i]]
  BY <1>2
<1> HIDE DEF s
<1>4. /\ s[lo - 1] = 0
      /\ s[lo] = s[lo - 1] + f[lo]
      /\ s[lo + 1] = s[lo] + f[lo + 1]
  BY <1>3, SMT
<1> QED
  BY <1>0, <1>1, <1>4, SMT

LEMMA SumThree ==
  ASSUME NEW lo \in Int, NEW f, \A i \in lo .. lo + 2 : f[i] \in Int
  PROVE  SumRange(f, lo, lo + 2) = f[lo] + f[lo + 1] + f[lo + 2]
<1> DEFINE s == CHOOSE s : s = [i \in lo - 1 .. lo + 2 |-> IF i < lo THEN 0 ELSE s[i - 1] + f[i]]
<1>0. f[lo] \in Int /\ f[lo + 1] \in Int /\ f[lo + 2] \in Int
  BY SMT
<1>1. SumRange(f, lo, lo + 2) = s[lo + 2]
  BY SMT DEF SumRange
<1>2. \E z : z = [i \in lo - 1 .. lo + 2 |-> IF i < lo THEN 0 ELSE z[i - 1] + f[i]]
  <2>v0. PICK v0 \in Int : v0 = f[lo]
    BY <1>0, SMT
  <2>v1. PICK v1 \in Int : v1 = v0 + f[lo + 1]
    BY <1>0, SMT
  <2>v2. PICK v2 \in Int : v2 = v1 + f[lo + 2]
    BY <1>0, SMT
  <2>0. v0 = f[lo] /\ v1 = v0 + f[lo + 1] /\ v2 = v1 + f[lo + 2]
    BY <2>v0, <2>v1, <2>v2
  <2> DEFINE z == [i \in lo - 1 .. lo + 2 |->
                     CASE i = lo - 1 -> 0
                       [] i = lo -> v0
                       [] i = lo + 1 -> v1
                       [] i = lo + 2 -> v2]
  <2>1. z[lo - 1] = 0 /\ z[lo] = v0 /\ z[lo + 1] = v1 /\ z[lo + 2] = v2
    BY SMT
  <2>2. z = [i \in lo - 1 .. lo + 2 |-> z[i]]
    OBVIOUS
  <2> HIDE DEF z
  <2>3. \A i \in lo - 1 .. lo + 2 : z[i] = IF i < lo THEN 0 ELSE z[i - 1] + f[i]
    BY <1>0, <2>0, <2>1, SMT
  <2> QED
    BY <2>2, <2>3
<1>3. s = [i \in lo - 1 .. lo + 2 |-> IF i < lo THEN 0 ELSE s[i - 1] + f[i]]
  BY <1>2
<1> HIDE DEF s
<1>4. /\ s[lo - 1] = 0
      /\ s[lo] = s[lo - 1] + f[lo]
      /\ s[lo + 1] = s[lo] + f[lo + 1]
      /\ s[lo + 2] = s[lo + 1] + f[lo + 2]
  BY <1>3, SMT
<1> QED
  BY <1>0, <1>1, <1>4, SMT

LEMMA SumFour ==
  ASSUME NEW lo \in Int, NEW f, \A i \in lo .. lo + 3 : f[i] \in Int
  PROVE  SumRange(f, lo, lo + 3) = f[lo] + f[lo + 1] + f[lo + 2] + f[lo + 3]
<1> DEFINE s == CHOOSE s : s = [i \in lo - 1 .. lo + 3 |-> IF i < lo THEN 0 ELSE s[i - 1] + f[i]]
<1>0. f[lo] \in Int /\ f[lo + 1] \in Int /\ f[lo + 2] \in Int /\ f[lo + 3] \in Int
  BY SMT
<1>1. SumRange(f, lo, lo + 3) = s[lo + 3]
  BY SMT DEF SumRange
<1>2. \E z : z = [i \in lo - 1 .. lo + 3 |-> IF i < lo THEN 0 ELSE z[i - 1] + f[i]]
  <2>v0. PICK v0 \in Int : v0 = f[lo]
    BY <1>0, SMT
  <2>v1. PICK v1 \in Int : v1 = v0 + f[lo + 1]
    BY <1>0, SMT
  <2>v2. PICK v2 \in Int : v2 = v1 + f[lo + 2]
    BY <1>0, SMT
  <2>v3. PICK v3 \in Int : v3 = v2 + f[lo + 3]
    BY <1>0, SMT
  <2>0. v0 = f[lo] /\ v1 = v0 + f[lo + 1] /\ v2 = v1 + f[lo + 2] /\ v3 = v2 + f[lo + 3]
    BY <2>v0, <2>v1, <2>v2, <2>v3
  <2> DEFINE z == [i \in lo - 1 .. lo + 3 |->
                     CASE i = lo - 1 -> 0
                       [] i = lo -> v0
                       [] i = lo + 1 -> v1
                       [] i = lo + 2 -> v2
                       [] i = lo + 3 -> v3]
  <2>1. z[lo - 1] = 0 /\ z[lo] = v0 /\ z[lo + 1] = v1 /\ z[lo + 2] = v2 /\ z[lo + 3] = v3
    BY SMT
  <2>2. z = [i \in lo - 1 .. lo + 3 |-> z[i]]
    OBVIOUS
  <2> HIDE DEF z
  <2>3. \A i \in lo - 1 .. lo + 3 : z[i] = IF i < lo THEN 0 ELSE z[i - 1] + f[i]
    BY <1>0, <2>0, <2>1, SMT
  <2> QED
    BY <2>2, <2>3
<1>3. s = [i \in lo - 1 .. lo + 3 |-> IF i < lo THEN 0 ELSE s[i - 1] + f[i]]
  BY <1>2
<1> HIDE DEF s
<1>4. /\ s[lo - 1] = 0
      /\ s[lo] = s[lo - 1] + f[lo]
      /\ s[lo + 1] = s[lo] + f[lo + 1]
      /\ s[lo + 2] = s[lo + 1] + f[lo + 2]
      /\ s[lo + 3] = s[lo + 2] + f[lo + 3]
  BY <1>3, SMT
<1> QED
  BY <1>0, <1>1, <1>4, SMT

LEMMA SumFive ==
  ASSUME NEW lo \in Int, NEW f, \A i \in lo .. lo + 4 : f[i] \in Int
  PROVE  SumRange(f, lo, lo + 4) = f[lo] + f[lo + 1] + f[lo + 2] + f[lo + 3] + f[lo + 4]
<1> DEFINE s == CHOOSE s : s = [i \in lo - 1 .. lo + 4 |-> IF i < lo THEN 0 ELSE s[i - 1] + f[i]]
<1>0. f[lo] \in Int /\ f[lo + 1] \in Int /\ f[lo + 2] \in Int /\ f[lo + 3] \in Int /\ f[lo + 4] \in Int
  BY SMT
<1>1. SumRange(f, lo, lo + 4) = s[lo + 4]
  BY SMT DEF SumRange
<1>2. \E z : z = [i \in lo - 1 .. lo + 4 |-> IF i < lo THEN 0 ELSE z[i - 1] + f[i]]
  <2>v0. PICK v0 \in Int : v0 = f[lo]
    BY <1>0, SMT
  <2>v1. PICK v1 \in Int : v1 = v0 + f[lo + 1]
    BY <1>0, SMT
  <2>v2. PICK v2 \in Int : v2 = v1 + f[lo + 2]
    BY <1>0, SMT
  <2>v3. PICK v3 \in Int : v3 = v2 + f[lo + 3]
    BY <1>0, SMT
  <2>v4. PICK v4 \in Int : v4 = v3 + f[lo + 4]
    BY <1>0, SMT
  <2>0. v0 = f[lo] /\ v1 = v0 + f[lo + 1] /\ v2 = v1 + f[lo + 2] /\ v3 = v2 + f[lo + 3] /\ v4 = v3 + f[lo + 4]
    BY <2>v0, <2>v1, <2>v2, <2>v3, <2>v4
  <2> DEFINE z == [i \in lo - 1 .. lo + 4 |->
                     CASE i = lo - 1 -> 0
                       [] i = lo -> v0
                       [] i = lo + 1 -> v1
                       [] i = lo + 2 -> v2
                       [] i = lo + 3 -> v3
                       [] i = lo + 4 -> v4]
  <2>1. z[lo - 1] = 0 /\ z[lo] = v0 /\ z[lo + 1] = v1 /\ z[lo + 2] = v2 /\ z[lo + 3] = v3 /\ z[lo + 4] = v4
    <3>1. z[lo - 1] = 0
      BY SMT
    <3>2. z[lo] = v0
      BY SMT
    <3>3. z[lo + 1] = v1
      BY SMT
    <3>4. z[lo + 2] = v2
      BY SMT
    <3>5. z[lo + 3] = v3
      BY SMT
    <3>6. z[lo + 4] = v4
      BY SMT
    <3> QED
      BY <3>1, <3>2, <3>3, <3>4, <3>5, <3>6
  <2>2. z = [i \in lo - 1 .. lo + 4 |-> z[i]]
    OBVIOUS
  <2> HIDE DEF z
  <2>3. \A i \in lo - 1 .. lo + 4 : z[i] = IF i < lo THEN 0 ELSE z[i - 1] + f[i]
    BY <1>0, <2>0, <2>1, SMT
  <2> QED
    BY <2>2, <2>3
<1>3. s = [i \in lo - 1 .. lo + 4 |-> IF i < lo THEN 0 ELSE s[i - 1] + f[i]]
  BY <1>2
<1> HIDE DEF s
<1>4. /\ s[lo - 1] = 0
      /\ s[lo] = s[lo - 1] + f[lo]
      /\ s[lo + 1] = s[lo] + f[lo + 1]
      /\ s[lo + 2] = s[lo + 1] + f[lo + 2]
      /\ s[lo + 3] = s[lo + 2] + f[lo + 3]
      /\ s[lo + 4] = s[lo + 3] + f[lo + 4]
  BY <1>3, SMT
<1> QED
  BY <1>0, <1>1, <1>4, SMT

(* The columns of the schoolbook product of five limbs by five.             *)
LEMMA ColumnsOf ==
  ASSUME NEW a, NEW b, LimbsOf(a), LimbsOf(b)
  PROVE  /\ Column(a, b, N, 0) = a[0] * b[0]
         /\ Column(a, b, N, 1) = a[0] * b[1] + a[1] * b[0]
         /\ Column(a, b, N, 2) = a[0] * b[2] + a[1] * b[1] + a[2] * b[0]
         /\ Column(a, b, N, 3) = a[0] * b[3] + a[1] * b[2] + a[2] * b[1] + a[3] * b[0]
         /\ Column(a, b, N, 4) = a[0] * b[4] + a[1] * b[3] + a[2] * b[2] + a[3] * b[1] + a[4] * b[0]
         /\ Column(a, b, N, 5) = a[1] * b[4] + a[2] * b[3] + a[3] * b[2] + a[4] * b[1]
         /\ Column(a, b, N, 6) = a[2] * b[4] + a[3] * b[3] + a[4] * b[2]
         /\ Column(a, b, N, 7) = a[3] * b[4] + a[4] * b[3]
         /\ Column(a, b, N, 8) = a[4] * b[4]
<1>0. /\ a[0] \in Nat /\ a[1] \in Nat /\ a[2] \in Nat /\ a[3] \in Nat /\ a[4] \in Nat
      /\ b[0] \in Nat /\ b[1] \in Nat /\ b[2] \in Nat /\ b[3] \in Nat /\ b[4] \in Nat
  BY LimbTypes
<1>1. Column(a, b, N, 0) = a[0] * b[0]
  <2>1. PICK f : f = [i \in 0 .. 0 |-> a[i] * b[0 - i]]
    OBVIOUS
  <2>2. Column(a, b, N, 0) = SumRange(f, 0, 0)
    <3>1. Lo(0, N) = 0 /\ 0 - 0 = 0
      BY SMT DEF Lo, N
    <3> QED
      BY <2>1, <3>1 DEF Column
  <2>3. f[0] = a[0] * b[0]
    BY <2>1, SMT
  <2>4. \A i \in 0 .. 0 : f[i] \in Int
    <3>1. a[0] * b[0] \in Int
      BY <1>0, SMT
    <3> QED
      BY <2>3, <3>1, SMT
  <2>5. SumRange(f, 0, 0) = f[0]
    <3>1. 0 \in Int /\ 0 + 0 = 0
      BY SMT
    <3>2. TRUE
      BY SMT
    <3> QED
      BY <2>4, <3>1, <3>2, SumOne
  <2> QED
    BY <2>2, <2>3, <2>5
<1>2. Column(a, b, N, 1) = a[0] * b[1] + a[1] * b[0]
  <2>1. PICK f : f = [i \in 0 .. 1 |-> a[i] * b[1 - i]]
    OBVIOUS
  <2>2. Column(a, b, N, 1) = SumRange(f, 0, 1)
    <3>1. Lo(1, N) = 0 /\ 1 - 0 = 1
      BY SMT DEF Lo, N
    <3> QED
      BY <2>1, <3>1 DEF Column
  <2>3. f[0] = a[0] * b[1] /\ f[1] = a[1] * b[0]
    BY <2>1, SMT
  <2>4. \A i \in 0 .. 1 : f[i] \in Int
    <3>1. a[0] * b[1] \in Int /\ a[1] * b[0] \in Int
      BY <1>0, SMT
    <3> QED
      BY <2>3, <3>1, SMT
  <2>5. SumRange(f, 0, 1) = f[0] + f[1]
    <3>1. 0 \in Int /\ 0 + 1 = 1
      BY SMT
    <3>2. 0 + 1 = 1
      BY SMT
    <3> QED
      BY <2>4, <3>1, <3>2, SumTwo
  <2> QED
    BY <2>2, <2>3, <2>5
<1>3. Column(a, b, N, 2) = a[0] * b[2] + a[1] * b[1] + a[2] * b[0]
  <2>1. PICK f : f = [i \in 0 .. 2 |-> a[i] * b[2 - i]]
    OBVIOUS
  <2>2. Column(a, b, N, 2) = SumRange(f, 0, 2)
    <3>1. Lo(2, N) = 0 /\ 2 - 0 = 2
      BY SMT DEF Lo, N
    <3> QED
      BY <2>1, <3>1 DEF Column
  <2>3. f[0] = a[0] * b[2] /\ f[1] = a[1] * b[1] /\ f[2] = a[2] * b[0]
    BY <2>1, SMT
  <2>4. \A i \in 0 .. 2 : f[i] \in Int
    <3>1. a[0] * b[2] \in Int /\ a[1] * b[1] \in Int /\ a[2] * b[0] \in Int
      BY <1>0, SMT
    <3> QED
      BY <2>3, <3>1, SMT
  <2>5. SumRange(f, 0, 2) = f[0] + f[1] + f[2]
    <3>1. 0 \in Int /\ 0 + 2 = 2
      BY SMT
    <3>2. 0 + 1 = 1 /\ 0 + 2 = 2
      BY SMT
    <3> QED
      BY <2>4, <3>1, <3>2, SumThree
  <2> QED
    BY <2>2, <2>3, <2>5
<1>4. Column(a, b, N, 3) = a[0] * b[3] + a[1] * b[2] + a[2] * b[1] + a[3] * b[0]
  <2>1. PICK f : f = [i \in 0 .. 3 |-> a[i] * b[3 - i]]
    OBVIOUS
  <2>2. Column(a, b, N, 3) = SumRange(f, 0, 3)
    <3>1. Lo(3, N) = 0 /\ 3 - 0 = 3
      BY SMT DEF Lo, N
    <3> QED
      BY <2>1, <3>1 DEF Column
  <2>3. f[0] = a[0] * b[3] /\ f[1] = a[1] * b[2] /\ f[2] = a[2] * b[1] /\ f[3] = a[3] * b[0]
    BY <2>1, SMT
  <2>4. \A i \in 0 .. 3 : f[i] \in Int
    <3>1. a[0] * b[3] \in Int /\ a[1] * b[2] \in Int /\ a[2] * b[1] \in Int /\ a[3] * b[0] \in Int
      BY <1>0, SMT
    <3> QED
      BY <2>3, <3>1, SMT
  <2>5. SumRange(f, 0, 3) = f[0] + f[1] + f[2] + f[3]
    <3>1. 0 \in Int /\ 0 + 3 = 3
      BY SMT
    <3>2. 0 + 1 = 1 /\ 0 + 2 = 2 /\ 0 + 3 = 3
      BY SMT
    <3> QED
      BY <2>4, <3>1, <3>2, SumFour
  <2> QED
    BY <2>2, <2>3, <2>5
<1>5. Column(a, b, N, 4) = a[0] * b[4] + a[1] * b[3] + a[2] * b[2] + a[3] * b[1] + a[4] * b[0]
  <2>1. PICK f : f = [i \in 0 .. 4 |-> a[i] * b[4 - i]]
    OBVIOUS
  <2>2. Column(a, b, N, 4) = SumRange(f, 0, 4)
    <3>1. Lo(4, N) = 0 /\ 4 - 0 = 4
      BY SMT DEF Lo, N
    <3> QED
      BY <2>1, <3>1 DEF Column
  <2>3. f[0] = a[0] * b[4] /\ f[1] = a[1] * b[3] /\ f[2] = a[2] * b[2] /\ f[3] = a[3] * b[1] /\ f[4] = a[4] * b[0]
    BY <2>1, SMT
  <2>4. \A i \in 0 .. 4 : f[i] \in Int
    <3>1. a[0] * b[4] \in Int /\ a[1] * b[3] \in Int /\ a[2] * b[2] \in Int /\ a[3] * b[1] \in Int /\ a[4] * b[0] \in Int
      BY <1>0, SMT
    <3> QED
      BY <2>3, <3>1, SMT
  <2>5. SumRange(f, 0, 4) = f[0] + f[1] + f[2] + f[3] + f[4]
    <3>1. 0 \in Int /\ 0 + 4 = 4
      BY SMT
    <3>2. 0 + 1 = 1 /\ 0 + 2 = 2 /\ 0 + 3 = 3 /\ 0 + 4 = 4
      BY SMT
    <3> QED
      BY <2>4, <3>1, <3>2, SumFive
  <2> QED
    BY <2>2, <2>3, <2>5
<1>6. Column(a, b, N, 5) = a[1] * b[4] + a[2] * b[3] + a[3] * b[2] + a[4] * b[1]
  <2>1. PICK f : f = [i \in 1 .. 4 |-> a[i] * b[5 - i]]
    OBVIOUS
  <2>2. Column(a, b, N, 5) = SumRange(f, 1, 4)
    <3>1. Lo(5, N) = 1 /\ 5 - 1 = 4
      BY SMT DEF Lo, N
    <3> QED
      BY <2>1, <3>1 DEF Column
  <2>3. f[1] = a[1] * b[4] /\ f[2] = a[2] * b[3] /\ f[3] = a[3] * b[2] /\ f[4] = a[4] * b[1]
    BY <2>1, SMT
  <2>4. \A i \in 1 .. 4 : f[i] \in Int
    <3>1. a[1] * b[4] \in Int /\ a[2] * b[3] \in Int /\ a[3] * b[2] \in Int /\ a[4] * b[1] \in Int
      BY <1>0, SMT
    <3> QED
      BY <2>3, <3>1, SMT
  <2>5. SumRange(f, 1, 4) = f[1] + f[2] + f[3] + f[4]
    <3>1. 1 \in Int /\ 1 + 3 = 4
      BY SMT
    <3>2. 1 + 1 = 2 /\ 1 + 2 = 3 /\ 1 + 3 = 4
      BY SMT
    <3> QED
      BY <2>4, <3>1, <3>2, SumFour
  <2> QED
    BY <2>2, <2>3, <2>5
<1>7. Column(a, b, N, 6) = a[2] * b[4] + a[3] * b[3] + a[4] * b[2]
  <2>1. PICK f : f = [i \in 2 .. 4 |-> a[i] * b[6 - i]]
    OBVIOUS
  <2>2. Column(a, b, N, 6) = SumRange(f, 2, 4)
    <3>1. Lo(6, N) = 2 /\ 6 - 2 = 4
      BY SMT DEF Lo, N
    <3> QED
      BY <2>1, <3>1 DEF Column
  <2>3. f[2] = a[2] * b[4] /\ f[3] = a[3] * b[3] /\ f[4] = a[4] * b[2]
    BY <2>1, SMT
  <2>4. \A i \in 2 .. 4 : f[i] \in Int
    <3>1. a[2] * b[4] \in Int /\ a[3] * b[3] \in Int /\ a[4] * b[2] \in Int
      BY <1>0, SMT
    <3> QED
      BY <2>3, <3>1, SMT
  <2>5. SumRange(f, 2, 4) = f[2] + f[3] + f[4]
    <3>1. 2 \in Int /\ 2 + 2 = 4
      BY SMT
    <3>2. 2 + 1 = 3 /\ 2 + 2 = 4
      BY SMT
    <3> QED
      BY <2>4, <3>1, <3>2, SumThree
  <2> QED
    BY <2>2, <2>3, <2>5
<1>8. Column(a, b, N, 7) = a[3] * b[4] + a[4] * b[3]
  <2>1. PICK f : f = [i \in 3 .. 4 |-> a[i] * b[7 - i]]
    OBVIOUS
  <2>2. Column(a, b, N, 7) = SumRange(f, 3, 4)
    <3>1. Lo(7, N) = 3 /\ 7 - 3 = 4
      BY SMT DEF Lo, N
    <3> QED
      BY <2>1, <3>1 DEF Column
  <2>3. f[3] = a[3] * b[4] /\ f[4] = a[4] * b[3]
    BY <2>1, SMT
  <2>4. \A i \in 3 .. 4 : f[i] \in Int
    <3>1. a[3] * b[4] \in Int /\ a[4] * b[3] \in Int
      BY <1>0, SMT
    <3> QED
      BY <2>3, <3>1, SMT
  <2>5. SumRange(f, 3, 4) = f[3] + f[4]
    <3>1. 3 \in Int /\ 3 + 1 = 4
      BY SMT
    <3>2. 3 + 1 = 4
      BY SMT
    <3> QED
      BY <2>4, <3>1, <3>2, SumTwo
  <2> QED
    BY <2>2, <2>3, <2>5
<1>9. Column(a, b, N, 8) = a[4] * b[4]
  <2>1. PICK f : f = [i \in 4 .. 4 |-> a[i] * b[8 - i]]
    OBVIOUS
  <2>2. Column(a, b, N, 8) = SumRange(f, 4, 4)
    <3>1. Lo(8, N) = 4 /\ 8 - 4 = 4
      BY SMT DEF Lo, N
    <3> QED
      BY <2>1, <3>1 DEF Column
  <2>3. f[4] = a[4] * b[4]
    BY <2>1, SMT
  <2>4. \A i \in 4 .. 4 : f[i] \in Int
    <3>1. a[4] * b[4] \in Int
      BY <1>0, SMT
    <3> QED
      BY <2>3, <3>1, SMT
  <2>5. SumRange(f, 4, 4) = f[4]
    <3>1. 4 \in Int /\ 4 + 0 = 4
      BY SMT
    <3>2. TRUE
      BY SMT
    <3> QED
      BY <2>4, <3>1, <3>2, SumOne
  <2> QED
    BY <2>2, <2>3, <2>5
<1> QED
  BY <1>1, <1>2, <1>3, <1>4, <1>5, <1>6, <1>7, <1>8, <1>9

-----------------------------------------------------------------------------
(* The low W bits of a number, and the rest.                                *)
LEMMA LowHigh ==
  ASSUME Sizes, NEW x \in Nat
  PROVE  \E l \in Nat, h \in Nat :
            l = Low(x, W) /\ h = High(x, W) /\ l < 2^W /\ x = l + 2^W * h
<1>1. PICK B \in Nat : B = 2^W /\ B > 0
  BY SizesOf
<1>2. x % B \in 0 .. B - 1 /\ x \div B \in Nat /\ x = (x % B) + B * (x \div B)
  <2>1. B > 0
    BY <1>1
  <2> QED
    BY <2>1, Digit
<1>3. PICK l \in Nat, h \in Nat : l = x % B /\ h = x \div B /\ l < B /\ x = l + B * h
  <2>1. x % B \in Nat /\ x % B < B
    BY <1>1, <1>2, SMT
  <2> QED
    BY <1>2, <2>1
<1>4. l = Low(x, W) /\ h = High(x, W)
  BY <1>1, <1>3 DEF Low, High
<1> QED
  BY <1>1, <1>3, <1>4

(* The same for a number cut at T bits, and again at W bits.                *)
LEMMA LowHighTop ==
  ASSUME Sizes, NEW x \in Nat
  PROVE  \E l \in Nat, e \in Nat, h \in Nat :
            /\ l = Low(x, T) /\ e = High(Low(x, W), T) /\ h = High(x, W)
            /\ l < 2^T /\ e < 2^S /\ x = l + 2^T * e + 2^W * h
<1>1. PICK B \in Nat, D \in Nat, U \in Nat :
         B = 2^W /\ D = 2^T /\ U = 2^S /\ B = D * U /\ B > 0 /\ D > 0 /\ U > 0
  BY SizesOf
<1>2. PICK y \in Nat, h \in Nat : y = Low(x, W) /\ h = High(x, W) /\ y < B /\ x = y + B * h
  <2>1. PICK y \in Nat, h \in Nat : y = Low(x, W) /\ h = High(x, W) /\ y < 2^W /\ x = y + 2^W * h
    BY LowHigh
  <2> QED
    BY <1>1, <2>1
<1>3. D > 0 /\ U > 0
  BY <1>1
<1>4. y % D \in 0 .. D - 1 /\ y \div D \in Nat /\ y = (y % D) + D * (y \div D)
  BY <1>3, Digit
<1>5. PICK l \in Nat, e \in Nat : l = y % D /\ e = y \div D /\ l < D /\ y = l + D * e
  <2>1. y % D \in Nat /\ y % D < D
    BY <1>3, <1>4, SMT
  <2> QED
    BY <1>4, <2>1
<1>6. x % D \in 0 .. D - 1 /\ x \div D \in Nat /\ x = (x % D) + D * (x \div D)
  BY <1>3, Digit
<1>7. x % D = l
  <2>1. PICK k \in Nat : k = e + U * h
    BY SMT
  <2>2. D * k = D * e + D * (U * h)
    BY <2>1, SMT
  <2>3. B * h = D * (U * h)
    BY <1>1, SMT
  <2>4. x = l + D * k
    BY <1>2, <1>5, <2>2, <2>3, SMT
  <2>5. PICK i \in 0 .. D - 1, j \in Nat : i = x % D /\ j = x \div D /\ x = i + D * j
    BY <1>6
  <2>6. i + D * j = l + D * k /\ l \in 0 .. D - 1
    BY <1>3, <1>5, <2>4, <2>5, SMT
  <2>7. i = l
    BY <1>3, <2>6, DigitSame
  <2> QED
    BY <2>5, <2>7
<1>8. e < U
  <2>1. SUFFICES ASSUME e >= U PROVE FALSE
    BY SMT
  <2>2. D * e >= D * U
    BY <1>3, <2>1, SMT
  <2>3. D * e \in Nat
    BY SMT
  <2> QED
    BY <1>1, <1>2, <1>5, <2>2, <2>3, SMT
<1>9. l = Low(x, T) /\ e = High(Low(x, W), T)
  BY <1>1, <1>2, <1>5, <1>7 DEF Low, High
<1>10. x = l + D * e + B * h
  BY <1>2, <1>5
<1> QED
  BY <1>1, <1>2, <1>5, <1>8, <1>9, <1>10

(* The quotient of a number below B * k is below k.                         *)
LEMMA Quotient ==
  ASSUME NEW B \in Nat, NEW l \in Nat, NEW h \in Nat, NEW k \in Nat, l + B * h < B * k
  PROVE  h < k
<1>1. SUFFICES ASSUME h >= k PROVE FALSE
  BY SMT
<1>2. B * h >= B * k
  BY <1>1, SMT
<1>3. B * h \in Nat /\ B * k \in Nat
  BY SMT
<1> QED
  BY <1>2, <1>3, SMT

-----------------------------------------------------------------------------
(* The nine columns as one number, and the bounds that operands of          *)
(* magnitude MaxMul give them.                                              *)
Nine(p) == Five(p[0], p[1], p[2], p[3], p[4] + 2^W * (p[5] + 2^W * (p[6] + 2^W * (p[7] + 2^W * p[8]))), 2^W)

Unit == 4 * MaxMul * MaxMul
Products(p) ==
  /\ \A k \in 0 .. 8 : p[k] \in Nat /\ p[k] <= 5 * (Unit * 2^W * 2^W)
  /\ p[7] <= 2^W * (2 * (Unit * 2^T))
  /\ p[8] <= Unit * 2^W * 2^W

(* What the sizes say of B = 2^W, D = 2^T, U = 2^S, Y = Unit * B and        *)
(* Z = Y * B.                                                               *)
Measures(B, D, U, V, Y, Z) ==
  /\ B > 0 /\ D > 0 /\ U > 0 /\ V > 0 /\ Y > 0
  /\ B = D * U /\ Y = V * B /\ Z = Y * B
  /\ C \in Nat /\ C > 0 /\ R \in Nat /\ R = C * U
  /\ 2 * R + 6 <= B /\ V * (2 * C + 10) <= D
  /\ 2 * (B * R) + 6 * Y <= Z /\ 2 * (Y * R) + 6 * Y <= Z /\ 6 * Y < Z
  /\ B <= Y /\ B * D <= Z

(* The sizes have these measures.                                           *)
LEMMA MeasuresOf ==
  ASSUME Sizes
  PROVE  \E B \in Nat, D \in Nat, U \in Nat, V \in Nat, Y \in Nat, Z \in Nat :
           /\ Measures(B, D, U, V, Y, Z)
           /\ B = 2^W /\ D = 2^T /\ U = 2^S /\ V = Unit
           /\ 6 * Z <= 2^AccBits
<1>1. PICK B \in Nat, D \in Nat, U \in Nat :
           /\ B = 2^W /\ D = 2^T /\ U = 2^S
           /\ B = D * U /\ B > 0 /\ D > 0 /\ U > 0
           /\ C \in Nat /\ C > 0 /\ R = C * U /\ R \in Nat
           /\ 2 * (C * U) + 6 <= B
           /\ MaxMul \in Nat /\ MaxMul > 0
           /\ 4 * MaxMul * MaxMul * (2 * C + 10) <= D
           /\ 6 * (2 * MaxMul * B) * (2 * MaxMul * B) <= 2^AccBits
  BY SizesOf
<1>2. PICK V \in Nat : V = Unit /\ V > 0 /\ V = 4 * MaxMul * MaxMul
  BY <1>1, SMT DEF Unit
<1>3. PICK Y \in Nat : Y = V * B /\ Y > 0 /\ B <= Y
  BY <1>1, <1>2, SMT
<1>4. PICK Z \in Nat : Z = Y * B
  BY SMT
<1>5. 6 * Z <= 2^AccBits
  <2>1. (2 * MaxMul * B) * (2 * MaxMul * B) = Z
    <3>1. PICK g \in Nat : g = 2 * MaxMul
      BY <1>1, SMT
    <3>2. g * g = V
      BY <1>1, <1>2, <3>1, SMT
    <3>3. (g * B) * (g * B) = ((g * g) * B) * B
      BY <1>1, SMT
    <3> QED
      BY <1>3, <1>4, <3>1, <3>2, <3>3
  <2>2. 6 * (2 * MaxMul * B) * (2 * MaxMul * B) = 6 * ((2 * MaxMul * B) * (2 * MaxMul * B))
    BY <1>1, SMT
  <2> QED
    BY <1>1, <2>1, <2>2
<1>6. 2 * R + 6 <= B /\ R > 0
  BY <1>1, SMT
<1>7. 2 * (Y * R) + 6 * Y <= Z
  <2>1. Y * (2 * R + 6) <= Y * B
    BY <1>1, <1>6, SMT
  <2>2. Y * (2 * R + 6) = 2 * (Y * R) + 6 * Y
    BY <1>1, SMT
  <2> QED
    BY <1>4, <2>1, <2>2
<1>8. B * R <= Y * R /\ B * R \in Nat /\ Y * R \in Nat /\ Y * R > 0
  BY <1>1, <1>3, <1>6, SMT
<1>9. 2 * (B * R) + 6 * Y <= Z /\ 6 * Y < Z
  BY <1>7, <1>8, SMT
<1>10. B * D <= Z
  <2>1. D <= B
    BY <1>1, SMT
  <2>2. B * D <= B * B
    BY <1>1, <2>1, SMT
  <2>3. B * B <= Y * B
    BY <1>1, <1>3, SMT
  <2>4. B * D \in Nat /\ B * B \in Nat
    BY SMT
  <2> QED
    BY <1>4, <2>2, <2>3, <2>4, SMT
<1>11. V * (2 * C + 10) <= D
  BY <1>1, <1>2
<1>12. Measures(B, D, U, V, Y, Z)
  BY <1>1, <1>2, <1>3, <1>4, <1>6, <1>7, <1>9, <1>10, <1>11 DEF Measures
<1> QED
  BY <1>1, <1>2, <1>5, <1>12

(* A column with a folded limb and a carry fits in an accumulator.          *)
LEMMA ColumnFits ==
  ASSUME NEW B \in Nat, NEW D \in Nat, NEW U \in Nat, NEW V \in Nat, NEW Y \in Nat, NEW Z \in Nat,
         Measures(B, D, U, V, Y, Z),
         NEW k \in Nat, k < 6 * Y, NEW p \in Nat, p <= 5 * Z, NEW u \in Nat, u < B \/ u <= Y
  PROVE  k + p + u * R \in Nat /\ k + p + u * R < 6 * Z
<1>1. /\ R \in Nat /\ 2 * (B * R) + 6 * Y <= Z /\ 2 * (Y * R) + 6 * Y <= Z /\ 6 * Y < Z
  BY DEF Measures
<1>2. u * R <= B * R \/ u * R <= Y * R
  BY <1>1, SMT
<1>3. u * R \in Nat /\ B * R \in Nat /\ Y * R \in Nat
  BY <1>1, SMT
<1> QED
  BY <1>1, <1>2, <1>3, SMT

(* What an accumulator hands to the next column.                            *)
LEMMA CarryFits ==
  ASSUME NEW B \in Nat, NEW D \in Nat, NEW U \in Nat, NEW V \in Nat, NEW Y \in Nat, NEW Z \in Nat,
         Measures(B, D, U, V, Y, Z),
         NEW l \in Nat, NEW h \in Nat, l + B * h < 6 * Z
  PROVE  h < 6 * Y
<1>1. Z = Y * B
  BY DEF Measures
<1>2. PICK k \in Nat : k = 6 * Y
  BY SMT
<1>3. 6 * Z = B * k
  BY <1>1, <1>2, SMT
<1>4. h < k
  BY <1>3, Quotient
<1> QED
  BY <1>2, <1>4

(* The lower half of the schedule, accumulator by accumulator.              *)
LEMMA MiddleSteps ==
  ASSUME NEW p, NEW t, NEW l, NEW d6, NEW c1, NEW d7, NEW c2, NEW c3,
         d6 = l.d + p[6], c1 = l.c + p[1] + Low(d6, W) * R,
         d7 = High(d6, W) + p[7], c2 = High(c1, W) + p[2] + Low(d7, W) * R,
         c3 = High(c2, W) + High(d7, W) * R + t.t3,
         NEW s, s = MulMiddle(p, t, l)
  PROVE  /\ s.n = [i \in Idx |-> s.n[i]]
         /\ s.n[0] = l.r0 /\ s.n[1] = Low(c1, W) /\ s.n[2] = Low(c2, W) /\ s.n[3] = Low(c3, W)
         /\ s.n[4] = High(c3, W) + t.t4
         /\ s.ok = (t.ok /\ l.ok /\ \A x \in {d6, c1, d7, c2, c3} : Fits(x))
<1> DEFINE x6 == l.d + p[6]
           y1 == l.c + p[1] + Low(x6, W) * R
           x7 == High(x6, W) + p[7]
           y2 == High(y1, W) + p[2] + Low(x7, W) * R
           y3 == High(y2, W) + High(x7, W) * R + t.t3
           v(i) == CASE i = 0 -> l.r0 [] i = 1 -> Low(y1, W) [] i = 2 -> Low(y2, W)
                     [] i = 3 -> Low(y3, W) [] i = 4 -> High(y3, W) + t.t4
           f == [i \in Idx |-> v(i)]
           o == t.ok /\ l.ok /\ \A x \in {x6, y1, x7, y2, y3} : Fits(x)
<1>1. MulMiddle(p, t, l) = [n |-> f, ok |-> o]
  BY DEF MulMiddle
<1>2. x6 = d6 /\ y1 = c1 /\ x7 = d7 /\ y2 = c2 /\ y3 = c3
  <2>1. x6 = d6
    OBVIOUS
  <2>2. y1 = c1 /\ x7 = d7
    BY <2>1
  <2>3. y2 = c2
    BY <2>2
  <2> QED
    BY <2>1, <2>2, <2>3
<1> HIDE DEF x6, y1, x7, y2, y3
<1>3. o = (t.ok /\ l.ok /\ \A x \in {d6, c1, d7, c2, c3} : Fits(x))
  BY <1>2
<1>4. 0 \in Idx /\ 1 \in Idx /\ 2 \in Idx /\ 3 \in Idx /\ 4 \in Idx
  BY SMT DEF Idx
<1>5. f[0] = l.r0 /\ f[1] = Low(y1, W) /\ f[2] = Low(y2, W) /\ f[3] = Low(y3, W)
      /\ f[4] = High(y3, W) + t.t4
  BY <1>4, SMT
<1>6. f = [i \in Idx |-> f[i]]
  <2> HIDE DEF v
  <2> QED
    OBVIOUS
<1> HIDE DEF f, o
<1>7. s.n = f /\ s.ok = o
  BY <1>1
<1> QED
  BY <1>2, <1>3, <1>5, <1>6, <1>7

(* The schedule of fe_mul_inner: no accumulator overflows, and the five     *)
(* limbs it leaves hold the nine columns but for a multiple of the          *)
(* characteristic.                                                          *)
LEMMA MulScheduleExact ==
  ASSUME Sizes, NEW p, Products(p)
  PROVE  LET s == MulSchedule(p)
         IN  /\ s.ok = TRUE /\ CarriedLimbs(s.n) /\ s.n[4] + 2 <= 2 * 2^T
             /\ \E K \in Nat : Nine(p) = Num(s.n) + K * Char
<1>1. PICK B \in Nat, D \in Nat, U \in Nat, V \in Nat, Y \in Nat, Z \in Nat :
           /\ Measures(B, D, U, V, Y, Z)
           /\ B = 2^W /\ D = 2^T /\ U = 2^S /\ V = Unit
           /\ 6 * Z <= 2^AccBits
  BY MeasuresOf
<1>m. Measures(B, D, U, V, Y, Z)
  BY <1>1
<1>2. /\ B > 0 /\ D > 0 /\ U > 0 /\ V > 0 /\ Y > 0
      /\ B = D * U /\ Y = V * B /\ Z = Y * B
      /\ C \in Nat /\ C > 0 /\ R \in Nat /\ R = C * U
      /\ 2 * R + 6 <= B /\ V * (2 * C + 10) <= D
      /\ 2 * (B * R) + 6 * Y <= Z /\ 2 * (Y * R) + 6 * Y <= Z /\ 6 * Y < Z
      /\ B <= Y /\ B * D <= Z
  BY <1>m DEF Measures
<1>3. \A x \in Nat : \E l \in Nat, h \in Nat :
            l = Low(x, W) /\ h = High(x, W) /\ l < B /\ x = l + B * h
  <2>1. \A x \in Nat : \E l \in Nat, h \in Nat :
            l = Low(x, W) /\ h = High(x, W) /\ l < 2^W /\ x = l + 2^W * h
    BY LowHigh
  <2> QED
    BY <1>1, <2>1
<1>4. \A x \in Nat : x < 6 * Z => Fits(x)
  <2>1. 2^AccBits \in Nat
    BY DEF Sizes
  <2>2. 6 * Z \in Nat /\ 6 * Z <= 2^AccBits
    BY <1>1, SMT
  <2> QED
    BY <2>1, <2>2, SMT DEF Fits
<1>5. \A k \in 0 .. 8 : p[k] \in Nat /\ p[k] <= 5 * Z
  <2>1. Unit * 2^W * 2^W = Z
    BY <1>1, <1>2
  <2> QED
    BY <2>1 DEF Products
<1>5a. PICK p0 \in Nat, p1 \in Nat, p2 \in Nat, p3 \in Nat :
          /\ p0 = p[0] /\ p1 = p[1] /\ p2 = p[2] /\ p3 = p[3]
          /\ p0 <= 5 * Z /\ p1 <= 5 * Z /\ p2 <= 5 * Z /\ p3 <= 5 * Z
  BY <1>5, SMT
<1>5b. PICK p4 \in Nat, p5 \in Nat, p6 \in Nat :
          p4 = p[4] /\ p5 = p[5] /\ p6 = p[6] /\ p4 <= 5 * Z /\ p5 <= 5 * Z /\ p6 <= 5 * Z
  BY <1>5, SMT
<1>5c. PICK p7 \in Nat, p8 \in Nat :
          p7 = p[7] /\ p8 = p[8] /\ p7 <= 5 * Z /\ p8 <= Z /\ p7 <= B * (2 * (V * D))
  <2>1. p[7] \in Nat /\ p[8] \in Nat /\ p[7] <= 5 * Z
    BY <1>5, SMT
  <2>2. p[8] <= Z /\ p[7] <= B * (2 * (V * D))
    BY <1>1, <1>2 DEF Products
  <2> QED
    BY <2>1, <2>2
<1>10. PICK l8 \in Nat, h8 \in Nat :
          l8 = Low(p8, W) /\ h8 = High(p8, W) /\ l8 < B /\ p8 = l8 + B * h8
  BY <1>3
<1>11. h8 <= Y
  <2>1. PICK k \in Nat : k = Y + 1
    BY SMT
  <2>2. B * k = Z + B
    BY <1>2, <2>1, SMT
  <2>3. l8 + B * h8 < B * k
    BY <1>2, <1>5c, <1>10, <2>2, SMT
  <2>4. h8 < k
    BY <2>3, Quotient
  <2> QED
    BY <2>1, <2>4, SMT
<1>12. PICK d3 \in Nat : d3 = p3 + l8 * R /\ d3 < 6 * Z
  <2>1. 0 + p3 + l8 * R \in Nat /\ 0 + p3 + l8 * R < 6 * Z
    <3>1. 0 \in Nat /\ 0 < 6 * Y
      BY <1>2, SMT
    <3> QED
      BY <1>m, <1>5a, <1>10, <3>1, ColumnFits
  <2>2. l8 * R \in Nat
    BY <1>2, SMT
  <2> QED
    BY <2>1, <2>2, SMT
<1>13. PICK t3 \in Nat, h3 \in Nat :
          t3 = Low(d3, W) /\ h3 = High(d3, W) /\ t3 < B /\ d3 = t3 + B * h3
  BY <1>3
<1>14. h3 < 6 * Y
  BY <1>m, <1>12, <1>13, CarryFits
<1>15. PICK d4 \in Nat : d4 = h3 + p4 + h8 * R /\ d4 < 6 * Z
  BY <1>m, <1>5b, <1>11, <1>14, ColumnFits
<1>16. PICK t4 \in Nat, tx \in Nat, hd \in Nat :
          /\ t4 = Low(d4, T) /\ tx = High(Low(d4, W), T) /\ hd = High(d4, W)
          /\ t4 < D /\ tx < U /\ d4 = t4 + D * tx + B * hd
  <2>1. \E l \in Nat, e \in Nat, h \in Nat :
            /\ l = Low(d4, T) /\ e = High(Low(d4, W), T) /\ h = High(d4, W)
            /\ l < 2^T /\ e < 2^S /\ d4 = l + 2^T * e + 2^W * h
    BY LowHighTop
  <2> QED
    BY <1>1, <2>1
<1>17. hd < 6 * Y
  <2>1. PICK l \in Nat : l = t4 + D * tx
    BY SMT
  <2>2. l + B * hd < 6 * Z
    BY <1>15, <1>16, <2>1
  <2> QED
    BY <1>m, <2>2, CarryFits
<1>18. PICK mt : mt = MulTop(p)
  OBVIOUS
<1>19. /\ mt.t3 = t3 /\ mt.t4 = t4 /\ mt.tx = tx /\ mt.d = hd
       /\ mt.ok = (Fits(p8) /\ Fits(d3) /\ Fits(d4))
  <2>1. d3 = p[3] + Low(p[8], W) * R /\ d4 = High(d3, W) + p[4] + High(p[8], W) * R
    BY <1>5a, <1>5b, <1>5c, <1>10, <1>12, <1>13, <1>15
  <2> QED
    BY <1>5c, <1>13, <1>16, <1>18, <2>1 DEF MulTop
<1>20. PICK d5 \in Nat : d5 = hd + p5 /\ d5 < 6 * Z
  BY <1>2, <1>5b, <1>17, SMT
<1>21. PICK u5 \in Nat, h5 \in Nat :
          u5 = Low(d5, W) /\ h5 = High(d5, W) /\ u5 < B /\ d5 = u5 + B * h5
  BY <1>3
<1>22. h5 < 6 * Y
  BY <1>m, <1>20, <1>21, CarryFits
<1>23. (u5 * U + tx) * C \in Nat /\ (u5 * U + tx) * C <= B * R
  <2>1. u5 * U + tx <= B * U
    <3>1. (u5 + 1) * U <= B * U
      BY <1>2, <1>21, SMT
    <3>2. (u5 + 1) * U = u5 * U + U
      BY SMT
    <3>3. u5 * U \in Nat /\ B * U \in Nat
      BY SMT
    <3> QED
      BY <1>16, <3>1, <3>2, <3>3, SMT
  <2>2. PICK g \in Nat : g = u5 * U + tx
    BY SMT
  <2>3. g * C <= (B * U) * C
    BY <1>2, <2>1, <2>2, SMT
  <2>4. (B * U) * C = B * R
    BY <1>2, SMT
  <2> QED
    BY <1>2, <2>2, <2>3, <2>4, SMT
<1>24. PICK c0 \in Nat : c0 = p0 + (u5 * U + tx) * C /\ c0 < 6 * Z
  <2>1. B * R \in Nat
    BY <1>2, SMT
  <2> QED
    BY <1>2, <1>5a, <1>23, <2>1, SMT
<1>25. PICK r0 \in Nat, k0 \in Nat :
          r0 = Low(c0, W) /\ k0 = High(c0, W) /\ r0 < B /\ c0 = r0 + B * k0
  BY <1>3
<1>26. k0 < 6 * Y
  BY <1>m, <1>24, <1>25, CarryFits
<1>27. PICK ml : ml = MulLow(p, mt)
  OBVIOUS
<1>28. ml.d = h5 /\ ml.c = k0 /\ ml.r0 = r0 /\ ml.ok = (Fits(d5) /\ Fits(c0))
  <2>1. d5 = mt.d + p[5] /\ c0 = p[0] + (Low(d5, W) * 2^S + mt.tx) * C
    BY <1>1, <1>5a, <1>5b, <1>19, <1>20, <1>21, <1>24
  <2> QED
    BY <1>21, <1>25, <1>27, <2>1 DEF MulLow
<1>30. PICK d6 \in Nat : d6 = h5 + p6 /\ d6 < 6 * Z
  BY <1>2, <1>5b, <1>22, SMT
<1>31. PICK u6 \in Nat, h6 \in Nat :
          u6 = Low(d6, W) /\ h6 = High(d6, W) /\ u6 < B /\ d6 = u6 + B * h6
  BY <1>3
<1>32. h6 < 6 * Y
  BY <1>m, <1>30, <1>31, CarryFits
<1>33. PICK c1 \in Nat : c1 = k0 + p1 + u6 * R /\ c1 < 6 * Z
  BY <1>m, <1>5a, <1>26, <1>31, ColumnFits
<1>34. PICK r1 \in Nat, k1 \in Nat :
          r1 = Low(c1, W) /\ k1 = High(c1, W) /\ r1 < B /\ c1 = r1 + B * k1
  BY <1>3
<1>35. k1 < 6 * Y
  BY <1>m, <1>33, <1>34, CarryFits
<1>36. PICK d7 \in Nat : d7 = h6 + p7 /\ d7 < 6 * Z
  BY <1>2, <1>5c, <1>32, SMT
<1>37. PICK u7 \in Nat, h7 \in Nat :
          u7 = Low(d7, W) /\ h7 = High(d7, W) /\ u7 < B /\ d7 = u7 + B * h7
  BY <1>3
<1>38. h7 < 6 * V + 2 * (V * D)
  <2>1. PICK k \in Nat : k = 6 * V + 2 * (V * D)
    BY SMT
  <2>2. B * k = 6 * Y + B * (2 * (V * D))
    BY <1>2, <2>1, SMT
  <2>3. B * (2 * (V * D)) \in Nat
    BY SMT
  <2>4. d7 < B * k
    BY <1>5c, <1>32, <1>36, <2>2, <2>3, SMT
  <2>5. u7 + B * h7 < B * k
    BY <1>37, <2>4
  <2>6. h7 < k
    BY <2>5, Quotient
  <2> QED
    BY <2>1, <2>6
<1>39. PICK c2 \in Nat : c2 = k1 + p2 + u7 * R /\ c2 < 6 * Z
  BY <1>m, <1>5a, <1>35, <1>37, ColumnFits
<1>40. PICK r2 \in Nat, k2 \in Nat :
          r2 = Low(c2, W) /\ k2 = High(c2, W) /\ r2 < B /\ c2 = r2 + B * k2
  BY <1>3
<1>41. k2 < 6 * Y
  BY <1>m, <1>39, <1>40, CarryFits
<1>42. h7 * R <= 3 * Y + 2 * (C * Y) /\ h7 * R \in Nat
  <2>1. h7 * R <= (6 * V + 2 * (V * D)) * R
    BY <1>2, <1>38, SMT
  <2>2. (6 * V + 2 * (V * D)) * R = 3 * (V * (2 * R)) + 2 * ((V * D) * R)
    BY <1>2, SMT
  <2>3. V * (2 * R) <= V * B
    <3>1. 2 * R <= B
      BY <1>2, SMT
    <3> QED
      BY <1>2, <3>1, SMT
  <2>4. (V * D) * R = C * Y
    <3>1. D * R = C * B
      BY <1>2, SMT
    <3>2. (V * D) * R = V * (D * R)
      BY <1>2, SMT
    <3>3. V * (C * B) = C * Y
      BY <1>2, SMT
    <3> QED
      BY <3>1, <3>2, <3>3
  <2>5. V * (2 * R) \in Nat /\ C * Y \in Nat /\ h7 * R \in Nat
    BY <1>2, SMT
  <2> QED
    BY <1>2, <2>1, <2>2, <2>3, <2>4, <2>5, SMT
<1>43. PICK c3 \in Nat : c3 = k2 + h7 * R + t3 /\ c3 < B * D /\ c3 < 6 * Z
  <2>1. B * (V * (2 * C + 10)) <= B * D
    BY <1>2, SMT
  <2>2. B * (V * (2 * C + 10)) = 2 * (C * Y) + 10 * Y
    BY <1>2, SMT
  <2>3. C * Y \in Nat /\ B * D \in Nat
    BY <1>2, SMT
  <2> QED
    BY <1>2, <1>13, <1>41, <1>42, <2>1, <2>2, <2>3, SMT
<1>44. PICK r3 \in Nat, k3 \in Nat :
          r3 = Low(c3, W) /\ k3 = High(c3, W) /\ r3 < B /\ c3 = r3 + B * k3
  BY <1>3
<1>45. k3 < D
  BY <1>43, <1>44, Quotient
<1>46. PICK s, n : s = MulSchedule(p) /\ n = s.n
  OBVIOUS
<1>47. /\ n = [i \in Idx |-> n[i]]
       /\ n[0] = r0 /\ n[1] = r1 /\ n[2] = r2 /\ n[3] = r3 /\ n[4] = k3 + t4
       /\ s.ok = (mt.ok /\ ml.ok /\ \A x \in {d6, c1, d7, c2, c3} : Fits(x))
  <2>1. d6 = ml.d + p[6] /\ c1 = ml.c + p[1] + Low(d6, W) * R
    BY <1>5a, <1>5b, <1>28, <1>30, <1>31, <1>33
  <2>2. d7 = High(d6, W) + p[7] /\ c2 = High(c1, W) + p[2] + Low(d7, W) * R
    BY <1>5a, <1>5c, <1>31, <1>34, <1>36, <1>37, <1>39
  <2>3. c3 = High(c2, W) + High(d7, W) * R + mt.t3
    BY <1>19, <1>37, <1>40, <1>43
  <2>4. s = MulMiddle(p, mt, ml)
    BY <1>18, <1>27, <1>46 DEF MulSchedule, MulBelow
  <2>5. /\ s.n = [i \in Idx |-> s.n[i]]
        /\ s.n[0] = ml.r0 /\ s.n[1] = Low(c1, W) /\ s.n[2] = Low(c2, W) /\ s.n[3] = Low(c3, W)
        /\ s.n[4] = High(c3, W) + mt.t4
        /\ s.ok = (mt.ok /\ ml.ok /\ \A x \in {d6, c1, d7, c2, c3} : Fits(x))
    BY ONLY <2>1, <2>2, <2>3, <2>4, MiddleSteps
  <2> QED
    BY <1>19, <1>28, <1>34, <1>40, <1>44, <1>46, <2>5
<1>48. s.ok = TRUE
  <2>1. Fits(p8)
    BY <1>2, <1>4, <1>5c, SMT
  <2>2. Fits(d3) /\ Fits(d4) /\ Fits(d5) /\ Fits(c0)
    BY <1>4, <1>12, <1>15, <1>20, <1>24
  <2>3. Fits(d6) /\ Fits(c1) /\ Fits(d7) /\ Fits(c2) /\ Fits(c3)
    BY <1>4, <1>30, <1>33, <1>36, <1>39, <1>43
  <2> QED
    BY <1>19, <1>28, <1>47, <2>1, <2>2, <2>3
<1>49. n[0] = r0 /\ n[1] = r1 /\ n[2] = r2 /\ n[3] = r3 /\ n[4] = k3 + t4
  BY <1>47
<1>9. R \in Nat /\ C \in Nat
  BY <1>2
<1>50. CarriedLimbs(n) /\ n[4] + 2 <= 2 * D
  <2>1. \A i \in Idx : n[i] \in Nat
    BY <1>49, SMT DEF Idx
  <2>2. \A i \in 0 .. 3 : n[i] < B
    BY <1>25, <1>34, <1>40, <1>44, <1>49, SMT
  <2>3. n = [i \in Idx |-> n[i]]
    BY <1>47
  <2>4. n[4] + 2 <= 2 * D
    <3>1. t4 < D /\ k3 < D
      BY <1>16, <1>45
    <3> QED
      BY <1>49, <3>1, SMT
  <2> QED
    BY <1>1, <2>1, <2>2, <2>3, <2>4 DEF CarriedLimbs, LimbsOf
<1>60. PICK B3 \in Nat, F \in Nat, G \in Nat :
          B3 = B * (B * B) /\ F = B * B3 /\ F = Fourth(B) /\ G = Char /\ F * D = G + C
  <2>1. PICK B3 \in Nat, F \in Nat : B3 = B * (B * B) /\ F = B * B3 /\ F = Fourth(B)
    BY SMT DEF Fourth
  <2>2. PICK G \in Nat : G = Char
    BY CharOf
  <2>3. F * D \in Nat /\ G = F * D - C
    BY <1>1, <2>1, <2>2, SMT DEF Char
  <2> QED
    BY <1>2, <2>1, <2>2, <2>3, SMT
<1>61. B * F = U * G + R
  <2>1. B * F = U * (F * D)
    BY <1>2, SMT
  <2>2. U * (G + C) = U * G + C * U
    BY <1>2, SMT
  <2> QED
    BY <1>2, <1>60, <2>1, <2>2
<1>62. PICK S6 \in Nat, S5 \in Nat : S6 = p6 + B * p7 /\ S5 = p5 + B * S6
  BY SMT
<1>63. PICK e7 \in Nat, e6 \in Nat, e5 \in Nat : e7 = u7 + B * h7 /\ e6 = u6 + B * e7 /\ e5 = u5 + B * e6
  BY SMT
<1>64. e5 = hd + S5
  <2>1. e7 = h6 + p7
    BY <1>36, <1>37, <1>63
  <2>2. B * e7 = B * h6 + B * p7
    BY <2>1, SMT
  <2>3. PICK m6 \in Nat, m7 \in Nat : m6 = B * h6 /\ m7 = B * p7
    BY SMT
  <2>4. d6 = u6 + m6 /\ d6 = h5 + p6 /\ e6 = u6 + (m6 + m7) /\ S6 = p6 + m7
    BY <1>30, <1>31, <1>62, <1>63, <2>2, <2>3
  <2>5. e6 = h5 + S6
    BY ONLY <2>4, d6 \in Nat, u6 \in Nat, m6 \in Nat, m7 \in Nat, h5 \in Nat, p6 \in Nat,
       S6 \in Nat, e6 \in Nat, SMT
  <2>6. B * e6 = B * h5 + B * S6
    BY <2>5, SMT
  <2>7. PICK m5 \in Nat, m8 \in Nat : m5 = B * h5 /\ m8 = B * S6
    BY SMT
  <2>8. d5 = u5 + m5 /\ d5 = hd + p5 /\ e5 = u5 + (m5 + m8) /\ S5 = p5 + m8
    BY <1>20, <1>21, <1>62, <1>63, <2>6, <2>7
  <2> QED
    BY ONLY <2>8, d5 \in Nat, u5 \in Nat, m5 \in Nat, m8 \in Nat, hd \in Nat, p5 \in Nat,
       S5 \in Nat, e5 \in Nat, SMT
<1>65. PICK A4 \in Nat, A3 \in Nat : A4 = p4 + B * (p5 + B * (p6 + B * (p7 + B * p8))) /\ A3 = p3 + B * A4
  BY SMT
<1>66. A4 = p4 + B * S5 + F * p8
  <2>1. B * (p7 + B * p8) = B * p7 + B * (B * p8)
    BY SMT
  <2>2. p6 + B * (p7 + B * p8) = S6 + B * (B * p8)
    BY <1>62, <2>1, SMT
  <2>3. B * (S6 + B * (B * p8)) = B * S6 + B * (B * (B * p8))
    BY SMT
  <2>4. p5 + B * (p6 + B * (p7 + B * p8)) = S5 + B * (B * (B * p8))
    BY <1>62, <2>2, <2>3, SMT
  <2>5. B * (S5 + B * (B * (B * p8))) = B * S5 + F * p8
    BY <1>60, SMT
  <2>6. B * S5 \in Nat /\ F * p8 \in Nat
    BY SMT
  <2> QED
    BY <1>65, <2>4, <2>5, <2>6, SMT
<1>67. A3 = t3 + B * t4 + B * (D * tx) + B * (B * e5) + (U * G) * p8
  <2>1. B * A4 = B * p4 + B * (B * S5) + (B * F) * p8
    BY <1>66, SMT
  <2>2. (B * F) * p8 = (U * G) * p8 + R * p8
    BY <1>2, <1>61, SMT
  <2>3. R * p8 = l8 * R + B * (h8 * R)
    BY <1>2, <1>10, SMT
  <2>4. B * d4 = B * h3 + B * p4 + B * (h8 * R)
    BY <1>2, <1>15, SMT
  <2>5. B * d4 = B * t4 + B * (D * tx) + B * (B * hd)
    BY <1>16, SMT
  <2>6. B * (B * e5) = B * (B * hd) + B * (B * S5)
    BY <1>64, SMT
  <2>7. /\ B * p4 \in Nat /\ B * (B * S5) \in Nat /\ (U * G) * p8 \in Nat /\ l8 * R \in Nat
        /\ B * (h8 * R) \in Nat /\ B * h3 \in Nat /\ B * t4 \in Nat /\ B * (D * tx) \in Nat
        /\ B * (B * hd) \in Nat
    BY <1>9, SMT
  <2>8. PICK a1 \in Nat, a2 \in Nat, a3 \in Nat, a4 \in Nat, a5 \in Nat :
           /\ a1 = B * p4 /\ a2 = B * (B * S5) /\ a3 = (U * G) * p8 /\ a4 = l8 * R
           /\ a5 = B * (h8 * R)
    BY <2>7
  <2>9. PICK b1 \in Nat, b2 \in Nat, b3 \in Nat, b4 \in Nat :
           b1 = B * h3 /\ b2 = B * t4 /\ b3 = B * (D * tx) /\ b4 = B * (B * hd)
    BY <2>7
  <2>10. A3 = p3 + (a1 + a2 + (a3 + (a4 + a5)))
    BY <1>65, <2>1, <2>2, <2>3, <2>8
  <2>11. b1 + a1 + a5 = b2 + b3 + b4 /\ p3 + a4 = t3 + b1
    BY <1>12, <1>13, <2>4, <2>5, <2>8, <2>9
  <2>12. A3 = t3 + b2 + b3 + (b4 + a2) + a3
    BY ONLY <2>10, <2>11, a1 \in Nat, a2 \in Nat, a3 \in Nat, a4 \in Nat, a5 \in Nat,
       b1 \in Nat, b2 \in Nat, b3 \in Nat, b4 \in Nat, p3 \in Nat, t3 \in Nat, A3 \in Nat, SMT
  <2> QED
    BY <2>6, <2>8, <2>9, <2>12
<1>68. PICK q \in Nat : q = U * e5 + B3 * (U * p8) + tx
  BY SMT
<1>69. B3 * A3 = B3 * t3 + F * t4 + C * tx + R * e5 + q * G
  <2>1. B3 * A3 = B3 * t3 + B3 * (B * t4) + B3 * (B * (D * tx)) + B3 * (B * (B * e5)) + B3 * ((U * G) * p8)
    BY <1>67, SMT
  <2>2. B3 * (B * t4) = F * t4
    BY <1>60, SMT
  <2>3. B3 * (B * (D * tx)) = (F * D) * tx
    BY <1>60, SMT
  <2>4. (F * D) * tx = G * tx + C * tx
    BY <1>2, <1>60, SMT
  <2>5. B3 * (B * (B * e5)) = (B * F) * e5
    BY <1>60, SMT
  <2>6. (B * F) * e5 = (U * G) * e5 + R * e5
    BY <1>2, <1>61, SMT
  <2>7. q * G = (U * G) * e5 + B3 * ((U * G) * p8) + G * tx
    BY <1>68, SMT
  <2>8. /\ B3 * t3 \in Nat /\ F * t4 \in Nat /\ G * tx \in Nat /\ C * tx \in Nat
        /\ (U * G) * e5 \in Nat /\ R * e5 \in Nat /\ B3 * ((U * G) * p8) \in Nat
    BY <1>9, SMT
  <2>9. PICK a1 \in Nat, a2 \in Nat, a3 \in Nat, a4 \in Nat :
           a1 = B3 * t3 /\ a2 = F * t4 /\ a3 = G * tx /\ a4 = C * tx
    BY <2>8
  <2>10. PICK b1 \in Nat, b2 \in Nat, b3 \in Nat, b4 \in Nat :
           b1 = (U * G) * e5 /\ b2 = R * e5 /\ b3 = B3 * ((U * G) * p8) /\ b4 = q * G
    <3>1. q * G \in Nat
      BY SMT
    <3> QED
      BY <2>8, <3>1
  <2>11. B3 * A3 = a1 + a2 + (a3 + a4) + (b1 + b2) + b3
    BY <2>1, <2>2, <2>3, <2>4, <2>5, <2>6, <2>9, <2>10
  <2>12. b4 = b1 + b3 + a3
    BY <2>7, <2>9, <2>10
  <2>13. B3 * A3 = a1 + a2 + a4 + b2 + b4
    BY ONLY <2>11, <2>12, a1 \in Nat, a2 \in Nat, a3 \in Nat, a4 \in Nat,
       b1 \in Nat, b2 \in Nat, b3 \in Nat, b4 \in Nat, SMT
  <2> QED
    BY <2>9, <2>10, <2>13
<1>70. R * e5 = u5 * R + B * (u6 * R) + B * (B * (u7 * R)) + B3 * (h7 * R)
  <2>1. R * e7 = u7 * R + B * (h7 * R)
    BY <1>2, <1>63, SMT
  <2>2. R * e6 = u6 * R + B * (R * e7)
    BY <1>2, <1>63, SMT
  <2>3. R * e5 = u5 * R + B * (R * e6)
    BY <1>2, <1>63, SMT
  <2>4. B * (R * e7) = B * (u7 * R) + B * (B * (h7 * R))
    BY <1>2, <2>1, SMT
  <2>5. B * (R * e6) = B * (u6 * R) + B * (B * (R * e7))
    BY <1>2, <2>2, SMT
  <2>6. B * (B * (R * e7)) = B * (B * (u7 * R)) + B3 * (h7 * R)
    BY <1>2, <1>60, <2>1, SMT
  <2>7. /\ u5 * R \in Nat /\ B * (u6 * R) \in Nat /\ B * (B * (u7 * R)) \in Nat /\ B3 * (h7 * R) \in Nat
    BY <1>2, SMT
  <2> QED
    BY <2>3, <2>5, <2>6, <2>7, SMT
<1>71. Nine(p) = p0 + B * p1 + B * (B * p2) + B3 * A3
  <2>1. Nine(p) = p0 + B * (p1 + B * (p2 + B * A3))
    BY <1>1, <1>5a, <1>5b, <1>5c, <1>65 DEF Nine, Five
  <2>2. B * (p1 + B * (p2 + B * A3)) = B * p1 + B * (B * p2) + B3 * A3
    BY <1>60, SMT
  <2>3. B * p1 \in Nat /\ B * (B * p2) \in Nat /\ B3 * A3 \in Nat
    BY SMT
  <2> QED
    BY <2>1, <2>2, <2>3, SMT
<1>72. Num(n) = c0 + B * (p1 + u6 * R) + B * (B * (p2 + u7 * R)) + B3 * (t3 + h7 * R) + F * t4
  <2>1. Num(n) = r0 + B * (r1 + B * (r2 + B * (r3 + B * (k3 + t4))))
    BY <1>1, <1>49 DEF Num, Five
  <2>2. PICK m0 \in Nat, m1 \in Nat, m2 \in Nat, m3 \in Nat :
            m0 = c0 /\ m1 = p1 + u6 * R /\ m2 = p2 + u7 * R /\ m3 = t3 + h7 * R
    BY <1>2, SMT
  <2>3. k0 + m1 = r1 + B * k1 /\ k1 + m2 = r2 + B * k2 /\ k2 + m3 = r3 + B * k3
    <3>1. u6 * R \in Nat /\ u7 * R \in Nat /\ h7 * R \in Nat
      BY <1>2, SMT
    <3>2. k0 + m1 = c1 /\ k1 + m2 = c2 /\ k2 + m3 = c3
      BY <1>33, <1>39, <1>43, <2>2, <3>1, SMT
    <3> QED
      BY <1>34, <1>40, <1>44, <3>2
  <2>4. r3 + B * (k3 + t4) = k2 + m3 + B * t4
    BY <2>3, SMT
  <2>5. r2 + B * (k2 + m3 + B * t4) = k1 + m2 + B * m3 + B * (B * t4)
    <3>1. B * (k2 + m3 + B * t4) = B * k2 + B * m3 + B * (B * t4)
      BY SMT
    <3>2. B * k2 \in Nat /\ B * m3 \in Nat /\ B * (B * t4) \in Nat
      BY SMT
    <3> QED
      BY <2>3, <3>1, <3>2, SMT
  <2>6. r1 + B * (k1 + m2 + B * m3 + B * (B * t4)) = k0 + m1 + B * m2 + B * (B * m3) + B3 * t4
    <3>1. B * (k1 + m2 + B * m3 + B * (B * t4)) = B * k1 + B * m2 + B * (B * m3) + B3 * t4
      BY <1>60, SMT
    <3>2. B * k1 \in Nat /\ B * m2 \in Nat /\ B * (B * m3) \in Nat /\ B3 * t4 \in Nat
      BY SMT
    <3> QED
      BY <2>3, <3>1, <3>2, SMT
  <2>7. r0 + B * (k0 + m1 + B * m2 + B * (B * m3) + B3 * t4) = m0 + B * m1 + B * (B * m2) + B3 * m3 + F * t4
    <3>1. B * (k0 + m1 + B * m2 + B * (B * m3) + B3 * t4) = B * k0 + B * m1 + B * (B * m2) + B3 * m3 + F * t4
      BY <1>60, SMT
    <3>2. B * k0 \in Nat /\ B * m1 \in Nat /\ B * (B * m2) \in Nat /\ B3 * m3 \in Nat /\ F * t4 \in Nat
      BY SMT
    <3> QED
      BY <1>25, <2>2, <3>1, <3>2, SMT
  <2> QED
    BY <2>1, <2>2, <2>4, <2>5, <2>6, <2>7
<1>73. Nine(p) = Num(n) + q * Char
  <2>1. (u5 * U + tx) * C = u5 * R + C * tx
    BY <1>2, SMT
  <2>2. B * (p1 + u6 * R) = B * p1 + B * (u6 * R) /\ B * (B * (p2 + u7 * R)) = B * (B * p2) + B * (B * (u7 * R))
    BY <1>2, SMT
  <2>3. B3 * (t3 + h7 * R) = B3 * t3 + B3 * (h7 * R)
    BY <1>2, SMT
  <2>4. /\ u5 * R \in Nat /\ C * tx \in Nat /\ B * p1 \in Nat /\ B * (u6 * R) \in Nat
        /\ B * (B * p2) \in Nat /\ B * (B * (u7 * R)) \in Nat /\ B3 * t3 \in Nat /\ B3 * (h7 * R) \in Nat
        /\ F * t4 \in Nat /\ q * G \in Nat
    BY <1>2, SMT
  <2>5. PICK a1 \in Nat, a2 \in Nat, a3 \in Nat, a4 \in Nat, a5 \in Nat :
           a1 = u5 * R /\ a2 = C * tx /\ a3 = B * (u6 * R) /\ a4 = B * (B * (u7 * R)) /\ a5 = B3 * (h7 * R)
    BY <2>4
  <2>6. PICK b1 \in Nat, b2 \in Nat, b3 \in Nat, b4 \in Nat, b5 \in Nat :
           b1 = B * p1 /\ b2 = B * (B * p2) /\ b3 = B3 * t3 /\ b4 = F * t4 /\ b5 = q * G
    BY <2>4
  <2>7. Num(n) = (p0 + (a1 + a2)) + (b1 + a3) + (b2 + a4) + (b3 + a5) + b4
    BY <1>24, <1>72, <2>1, <2>2, <2>3, <2>5, <2>6
  <2>8. Nine(p) = p0 + b1 + b2 + (b3 + b4 + a2 + (a1 + a3 + a4 + a5) + b5)
    BY <1>69, <1>70, <1>71, <2>5, <2>6
  <2>9. Nine(p) = Num(n) + b5
    BY <2>7, <2>8, SMT
  <2> QED
    BY <1>60, <2>6, <2>9
<1> QED
  BY <1>1, <1>46, <1>48, <1>50, <1>73

-----------------------------------------------------------------------------
(* The columns of the schoolbook product.                                   *)

(* A limb of one factor times the other, and a row above the sum of the     *)
(* rows that follow it.                                                     *)
Times(x, b) == [i \in Idx |-> b[i] * x]
Above(y, z) == [i \in Idx |-> CASE i = 0 -> y[0] [] i = 1 -> y[1] + z[0] [] i = 2 -> y[2] + z[1]
                                [] i = 3 -> y[3] + z[2] [] i = 4 -> y[4] + z[3] + 2^W * z[4]]

(* One limb times the other factor.                                         *)
LEMMA TimesExact ==
  ASSUME Sizes, NEW x \in Nat, NEW b, LimbsOf(b)
  PROVE  /\ LimbsOf(Times(x, b)) /\ Num(Times(x, b)) = x * Num(b)
         /\ \A i \in Idx : Times(x, b)[i] = b[i] * x
<1>1. \A i \in Idx : b[i] * x \in Nat
  <2>1. \A i \in Idx : b[i] \in Nat
    BY DEF LimbsOf
  <2> QED
    BY <2>1, SMT
<1>2. LimbsOf(Times(x, b))
  BY <1>1 DEF LimbsOf, Times
<1>3. \A i \in Idx : Times(x, b)[i] = b[i] * x
  BY DEF Times
<1> QED
  BY <1>2, <1>3, NumScaled

(* One row above the next.                                                  *)
LEMMA AboveExact ==
  ASSUME Sizes, NEW y, NEW z, LimbsOf(y), LimbsOf(z)
  PROVE  /\ LimbsOf(Above(y, z)) /\ Num(Above(y, z)) = Num(y) + 2^W * Num(z)
         /\ Above(y, z)[0] = y[0] /\ Above(y, z)[1] = y[1] + z[0] /\ Above(y, z)[2] = y[2] + z[1]
         /\ Above(y, z)[3] = y[3] + z[2] /\ Above(y, z)[4] = y[4] + z[3] + 2^W * z[4]
<1>1. PICK B \in Nat : B = 2^W
  BY SizesOf
<1>2. PICK y0 \in Nat, y1 \in Nat, y2 \in Nat, y3 \in Nat, y4 \in Nat :
         y0 = y[0] /\ y1 = y[1] /\ y2 = y[2] /\ y3 = y[3] /\ y4 = y[4]
  BY LimbTypes
<1>3. PICK z0 \in Nat, z1 \in Nat, z2 \in Nat, z3 \in Nat, z4 \in Nat :
         z0 = z[0] /\ z1 = z[1] /\ z2 = z[2] /\ z3 = z[3] /\ z4 = z[4]
  BY LimbTypes
<1> DEFINE v(i) == CASE i = 0 -> y[0] [] i = 1 -> y[1] + z[0] [] i = 2 -> y[2] + z[1]
                     [] i = 3 -> y[3] + z[2] [] i = 4 -> y[4] + z[3] + 2^W * z[4]
           f == [i \in Idx |-> v(i)]
<1>4. Above(y, z) = f
  BY DEF Above
<1>5. f[0] = y0 /\ f[1] = y1 + z0 /\ f[2] = y2 + z1 /\ f[3] = y3 + z2 /\ f[4] = y4 + z3 + B * z4
  <2>1. 0 \in Idx /\ 1 \in Idx /\ 2 \in Idx /\ 3 \in Idx /\ 4 \in Idx
    BY SMT DEF Idx
  <2>2. v(0) = y[0] /\ v(1) = y[1] + z[0] /\ v(2) = y[2] + z[1] /\ v(3) = y[3] + z[2]
        /\ v(4) = y[4] + z[3] + 2^W * z[4]
    BY SMT
  <2> HIDE DEF v
  <2> QED
    BY <1>1, <1>2, <1>3, <2>1, <2>2
<1>f. f = [i \in Idx |-> f[i]]
  <2> HIDE DEF v
  <2> QED
    OBVIOUS
<1> HIDE DEF f
<1>6. f \in [Idx -> Nat]
  <2>1. B * z4 \in Nat
    BY SMT
  <2>2. f[0] \in Nat /\ f[1] \in Nat /\ f[2] \in Nat /\ f[3] \in Nat /\ f[4] \in Nat
    BY <1>5, <2>1, SMT
  <2>3. \A i \in Idx : f[i] \in Nat
    BY ONLY <2>2, SMT DEF Idx
  <2> QED
    BY <1>f, <2>3
<1>r1. PICK u4 \in Nat, u3 \in Nat, u2 \in Nat, u1 \in Nat :
         u4 = z3 + B * z4 /\ u3 = z2 + B * u4 /\ u2 = z1 + B * u3 /\ u1 = z0 + B * u2
  BY SMT
<1>r2. PICK v3 \in Nat, v2 \in Nat, v1 \in Nat :
         v3 = y3 + B * y4 /\ v2 = y2 + B * v3 /\ v1 = y1 + B * v2
  BY SMT
<1>r3. y3 + z2 + B * (y4 + u4) = v3 + u3
  <2>1. B * (y4 + u4) = B * y4 + B * u4
    BY SMT
  <2>2. B * y4 \in Nat /\ B * u4 \in Nat
    BY SMT
  <2> QED
    BY <1>r1, <1>r2, <2>1, <2>2, SMT
<1>r4. y2 + z1 + B * (v3 + u3) = v2 + u2
  <2>1. B * (v3 + u3) = B * v3 + B * u3
    BY SMT
  <2>2. B * v3 \in Nat /\ B * u3 \in Nat
    BY SMT
  <2> QED
    BY <1>r1, <1>r2, <2>1, <2>2, SMT
<1>r5. y1 + z0 + B * (v2 + u2) = v1 + u1
  <2>1. B * (v2 + u2) = B * v2 + B * u2
    BY SMT
  <2>2. B * v2 \in Nat /\ B * u2 \in Nat
    BY SMT
  <2> QED
    BY <1>r1, <1>r2, <2>1, <2>2, SMT
<1>r6. y0 + B * (v1 + u1) = (y0 + B * v1) + B * u1
  <2>1. B * (v1 + u1) = B * v1 + B * u1
    BY SMT
  <2>2. B * v1 \in Nat /\ B * u1 \in Nat
    BY SMT
  <2> QED
    BY <2>1, <2>2, SMT
<1>r7. y4 + z3 + B * z4 = y4 + u4
  <2>1. B * z4 \in Nat
    BY SMT
  <2> QED
    BY <1>r1, <2>1, SMT
<1>r8. Five(y0, y1 + z0, y2 + z1, y3 + z2, y4 + u4, B) = y0 + B * (v1 + u1)
  BY <1>r3, <1>r4, <1>r5 DEF Five
<1>r9. Five(y0, y1, y2, y3, y4, B) = y0 + B * v1 /\ Five(z0, z1, z2, z3, z4, B) = u1
  BY <1>r1, <1>r2 DEF Five
<1>7. Five(y0, y1, y2, y3, y4, B) + B * Five(z0, z1, z2, z3, z4, B)
           = Five(y0, y1 + z0, y2 + z1, y3 + z2, y4 + z3 + B * z4, B)
  BY <1>r6, <1>r7, <1>r8, <1>r9
<1>8. Num(Above(y, z)) = Num(y) + 2^W * Num(z)
  BY <1>1, <1>2, <1>3, <1>4, <1>5, <1>7 DEF Num
<1> QED
  BY <1>1, <1>2, <1>3, <1>4, <1>5, <1>6, <1>8 DEF LimbsOf

(* The columns of two numbers hold their product.                           *)
LEMMA Schoolbook ==
  ASSUME Sizes, NEW a, NEW b, LimbsOf(a), LimbsOf(b),
         NEW p, p = [k \in 0 .. 2 * N - 2 |-> Column(a, b, N, k)]
  PROVE  Nine(p) = Num(a) * Num(b)
<1>1. PICK B \in Nat : B = 2^W
  BY SizesOf
<1>2. PICK a0 \in Nat, a1 \in Nat, a2 \in Nat, a3 \in Nat, a4 \in Nat :
         a0 = a[0] /\ a1 = a[1] /\ a2 = a[2] /\ a3 = a[3] /\ a4 = a[4]
  BY LimbTypes
<1>3. PICK n \in Nat : n = Num(b)
  BY NumType
<1>4. 0 \in Idx /\ 1 \in Idx /\ 2 \in Idx /\ 3 \in Idx /\ 4 \in Idx
  BY SMT DEF Idx
<1>10. PICK r0 :
         /\ LimbsOf(r0) /\ Num(r0) = a0 * n
         /\ r0[0] = b[0] * a0 /\ r0[1] = b[1] * a0 /\ r0[2] = b[2] * a0 /\ r0[3] = b[3] * a0
         /\ r0[4] = b[4] * a0
  <2>1. PICK r : r = Times(a0, b)
    OBVIOUS
  <2>2. LimbsOf(r) /\ Num(r) = a0 * Num(b) /\ \A i \in Idx : r[i] = b[i] * a0
    BY <2>1, TimesExact
  <2> QED
    BY <1>3, <1>4, <2>2
<1>11. PICK r1 :
         /\ LimbsOf(r1) /\ Num(r1) = a1 * n
         /\ r1[0] = b[0] * a1 /\ r1[1] = b[1] * a1 /\ r1[2] = b[2] * a1 /\ r1[3] = b[3] * a1
         /\ r1[4] = b[4] * a1
  <2>1. PICK r : r = Times(a1, b)
    OBVIOUS
  <2>2. LimbsOf(r) /\ Num(r) = a1 * Num(b) /\ \A i \in Idx : r[i] = b[i] * a1
    BY <2>1, TimesExact
  <2> QED
    BY <1>3, <1>4, <2>2
<1>12. PICK r2 :
         /\ LimbsOf(r2) /\ Num(r2) = a2 * n
         /\ r2[0] = b[0] * a2 /\ r2[1] = b[1] * a2 /\ r2[2] = b[2] * a2 /\ r2[3] = b[3] * a2
         /\ r2[4] = b[4] * a2
  <2>1. PICK r : r = Times(a2, b)
    OBVIOUS
  <2>2. LimbsOf(r) /\ Num(r) = a2 * Num(b) /\ \A i \in Idx : r[i] = b[i] * a2
    BY <2>1, TimesExact
  <2> QED
    BY <1>3, <1>4, <2>2
<1>13. PICK r3 :
         /\ LimbsOf(r3) /\ Num(r3) = a3 * n
         /\ r3[0] = b[0] * a3 /\ r3[1] = b[1] * a3 /\ r3[2] = b[2] * a3 /\ r3[3] = b[3] * a3
         /\ r3[4] = b[4] * a3
  <2>1. PICK r : r = Times(a3, b)
    OBVIOUS
  <2>2. LimbsOf(r) /\ Num(r) = a3 * Num(b) /\ \A i \in Idx : r[i] = b[i] * a3
    BY <2>1, TimesExact
  <2> QED
    BY <1>3, <1>4, <2>2
<1>14. PICK r4 :
         /\ LimbsOf(r4) /\ Num(r4) = a4 * n
         /\ r4[0] = b[0] * a4 /\ r4[1] = b[1] * a4 /\ r4[2] = b[2] * a4 /\ r4[3] = b[3] * a4
         /\ r4[4] = b[4] * a4
  <2>1. PICK r : r = Times(a4, b)
    OBVIOUS
  <2>2. LimbsOf(r) /\ Num(r) = a4 * Num(b) /\ \A i \in Idx : r[i] = b[i] * a4
    BY <2>1, TimesExact
  <2> QED
    BY <1>3, <1>4, <2>2
<1>23. PICK v3 :
         /\ LimbsOf(v3) /\ Num(v3) = a3 * n + B * (a4 * n)
         /\ v3[0] = r3[0] /\ v3[1] = r3[1] + r4[0] /\ v3[2] = r3[2] + r4[1]
         /\ v3[3] = r3[3] + r4[2] /\ v3[4] = r3[4] + r4[3] + B * r4[4]
  <2>1. LimbsOf(r3) /\ LimbsOf(r4)
    BY <1>13, <1>14
  <2>2. PICK v : v = Above(r3, r4)
    OBVIOUS
  <2>3. /\ LimbsOf(v) /\ Num(v) = Num(r3) + 2^W * Num(r4)
        /\ v[0] = r3[0] /\ v[1] = r3[1] + r4[0] /\ v[2] = r3[2] + r4[1]
        /\ v[3] = r3[3] + r4[2] /\ v[4] = r3[4] + r4[3] + 2^W * r4[4]
    BY <2>1, <2>2, AboveExact
  <2> QED
    BY <1>1, <1>13, <1>14, <2>3
<1>22. PICK v2 :
         /\ LimbsOf(v2) /\ Num(v2) = a2 * n + B * (a3 * n + B * (a4 * n))
         /\ v2[0] = r2[0] /\ v2[1] = r2[1] + v3[0] /\ v2[2] = r2[2] + v3[1]
         /\ v2[3] = r2[3] + v3[2] /\ v2[4] = r2[4] + v3[3] + B * v3[4]
  <2>1. LimbsOf(r2) /\ LimbsOf(v3)
    BY <1>12, <1>23
  <2>2. PICK v : v = Above(r2, v3)
    OBVIOUS
  <2>3. /\ LimbsOf(v) /\ Num(v) = Num(r2) + 2^W * Num(v3)
        /\ v[0] = r2[0] /\ v[1] = r2[1] + v3[0] /\ v[2] = r2[2] + v3[1]
        /\ v[3] = r2[3] + v3[2] /\ v[4] = r2[4] + v3[3] + 2^W * v3[4]
    BY <2>1, <2>2, AboveExact
  <2> QED
    BY <1>1, <1>12, <1>23, <2>3
<1>21. PICK v1 :
         /\ LimbsOf(v1) /\ Num(v1) = a1 * n + B * (a2 * n + B * (a3 * n + B * (a4 * n)))
         /\ v1[0] = r1[0] /\ v1[1] = r1[1] + v2[0] /\ v1[2] = r1[2] + v2[1]
         /\ v1[3] = r1[3] + v2[2] /\ v1[4] = r1[4] + v2[3] + B * v2[4]
  <2>1. LimbsOf(r1) /\ LimbsOf(v2)
    BY <1>11, <1>22
  <2>2. PICK v : v = Above(r1, v2)
    OBVIOUS
  <2>3. /\ LimbsOf(v) /\ Num(v) = Num(r1) + 2^W * Num(v2)
        /\ v[0] = r1[0] /\ v[1] = r1[1] + v2[0] /\ v[2] = r1[2] + v2[1]
        /\ v[3] = r1[3] + v2[2] /\ v[4] = r1[4] + v2[3] + 2^W * v2[4]
    BY <2>1, <2>2, AboveExact
  <2> QED
    BY <1>1, <1>11, <1>22, <2>3
<1>20. PICK v0 :
         /\ LimbsOf(v0) /\ Num(v0) = a0 * n + B * (a1 * n + B * (a2 * n + B * (a3 * n + B * (a4 * n))))
         /\ v0[0] = r0[0] /\ v0[1] = r0[1] + v1[0] /\ v0[2] = r0[2] + v1[1]
         /\ v0[3] = r0[3] + v1[2] /\ v0[4] = r0[4] + v1[3] + B * v1[4]
  <2>1. LimbsOf(r0) /\ LimbsOf(v1)
    BY <1>10, <1>21
  <2>2. PICK v : v = Above(r0, v1)
    OBVIOUS
  <2>3. /\ LimbsOf(v) /\ Num(v) = Num(r0) + 2^W * Num(v1)
        /\ v[0] = r0[0] /\ v[1] = r0[1] + v1[0] /\ v[2] = r0[2] + v1[1]
        /\ v[3] = r0[3] + v1[2] /\ v[4] = r0[4] + v1[3] + 2^W * v1[4]
    BY <2>1, <2>2, AboveExact
  <2> QED
    BY <1>1, <1>10, <1>21, <2>3
<1>28. Num(a) * Num(b) = a0 * n + B * (a1 * n + B * (a2 * n + B * (a3 * n + B * (a4 * n))))
  <2>1. PICK c3 \in Nat, c2 \in Nat, c1 \in Nat :
           c3 = a3 + B * a4 /\ c2 = a2 + B * c3 /\ c1 = a1 + B * c2
    BY SMT
  <2>2. c3 * n = a3 * n + B * (a4 * n)
    BY <2>1, SMT
  <2>3. c2 * n = a2 * n + B * (c3 * n)
    BY <2>1, SMT
  <2>4. c1 * n = a1 * n + B * (c2 * n)
    BY <2>1, SMT
  <2>5. (a0 + B * c1) * n = a0 * n + B * (c1 * n)
    BY SMT
  <2>6. Num(a) = a0 + B * c1
    BY <1>1, <1>2, <2>1 DEF Num, Five
  <2> QED
    BY <1>3, <2>2, <2>3, <2>4, <2>5, <2>6
<1>30. \A k \in 0 .. 8 : p[k] = Column(a, b, N, k)
  BY SMT DEF N
<1>c. /\ p[0] = Column(a, b, N, 0) /\ p[1] = Column(a, b, N, 1) /\ p[2] = Column(a, b, N, 2)
      /\ p[3] = Column(a, b, N, 3) /\ p[4] = Column(a, b, N, 4) /\ p[5] = Column(a, b, N, 5)
      /\ p[6] = Column(a, b, N, 6) /\ p[7] = Column(a, b, N, 7) /\ p[8] = Column(a, b, N, 8)
  BY <1>30, SMT
<1>b. PICK b0 \in Nat, b1 \in Nat, b2 \in Nat, b3 \in Nat, b4 \in Nat :
         b0 = b[0] /\ b1 = b[1] /\ b2 = b[2] /\ b3 = b[3] /\ b4 = b[4]
  BY LimbTypes
<1>31. PICK x00 \in Nat, x01 \in Nat, x02 \in Nat, x03 \in Nat, x04 \in Nat :
         x00 = a0 * b0 /\ x01 = a0 * b1 /\ x02 = a0 * b2 /\ x03 = a0 * b3 /\ x04 = a0 * b4
  BY SMT
<1>32. PICK x10 \in Nat, x11 \in Nat, x12 \in Nat, x13 \in Nat, x14 \in Nat :
         x10 = a1 * b0 /\ x11 = a1 * b1 /\ x12 = a1 * b2 /\ x13 = a1 * b3 /\ x14 = a1 * b4
  BY SMT
<1>33. PICK x20 \in Nat, x21 \in Nat, x22 \in Nat, x23 \in Nat, x24 \in Nat :
         x20 = a2 * b0 /\ x21 = a2 * b1 /\ x22 = a2 * b2 /\ x23 = a2 * b3 /\ x24 = a2 * b4
  BY SMT
<1>34. PICK x30 \in Nat, x31 \in Nat, x32 \in Nat, x33 \in Nat, x34 \in Nat :
         x30 = a3 * b0 /\ x31 = a3 * b1 /\ x32 = a3 * b2 /\ x33 = a3 * b3 /\ x34 = a3 * b4
  BY SMT
<1>35. PICK x40 \in Nat, x41 \in Nat, x42 \in Nat, x43 \in Nat, x44 \in Nat :
         x40 = a4 * b0 /\ x41 = a4 * b1 /\ x42 = a4 * b2 /\ x43 = a4 * b3 /\ x44 = a4 * b4
  BY SMT
<1>41. r0[0] = x00 /\ r0[1] = x01 /\ r0[2] = x02 /\ r0[3] = x03 /\ r0[4] = x04
  <2>1. b0 * a0 = a0 * b0 /\ b1 * a0 = a0 * b1 /\ b2 * a0 = a0 * b2 /\ b3 * a0 = a0 * b3 /\ b4 * a0 = a0 * b4
    BY SMT
  <2> QED
    BY <1>b, <1>10, <1>31, <2>1
<1>42. r1[0] = x10 /\ r1[1] = x11 /\ r1[2] = x12 /\ r1[3] = x13 /\ r1[4] = x14
  <2>1. b0 * a1 = a1 * b0 /\ b1 * a1 = a1 * b1 /\ b2 * a1 = a1 * b2 /\ b3 * a1 = a1 * b3 /\ b4 * a1 = a1 * b4
    BY SMT
  <2> QED
    BY <1>b, <1>11, <1>32, <2>1
<1>43. r2[0] = x20 /\ r2[1] = x21 /\ r2[2] = x22 /\ r2[3] = x23 /\ r2[4] = x24
  <2>1. b0 * a2 = a2 * b0 /\ b1 * a2 = a2 * b1 /\ b2 * a2 = a2 * b2 /\ b3 * a2 = a2 * b3 /\ b4 * a2 = a2 * b4
    BY SMT
  <2> QED
    BY <1>b, <1>12, <1>33, <2>1
<1>44. r3[0] = x30 /\ r3[1] = x31 /\ r3[2] = x32 /\ r3[3] = x33 /\ r3[4] = x34
  <2>1. b0 * a3 = a3 * b0 /\ b1 * a3 = a3 * b1 /\ b2 * a3 = a3 * b2 /\ b3 * a3 = a3 * b3 /\ b4 * a3 = a3 * b4
    BY SMT
  <2> QED
    BY <1>b, <1>13, <1>34, <2>1
<1>45. r4[0] = x40 /\ r4[1] = x41 /\ r4[2] = x42 /\ r4[3] = x43 /\ r4[4] = x44
  <2>1. b0 * a4 = a4 * b0 /\ b1 * a4 = a4 * b1 /\ b2 * a4 = a4 * b2 /\ b3 * a4 = a4 * b3 /\ b4 * a4 = a4 * b4
    BY SMT
  <2> QED
    BY <1>b, <1>14, <1>35, <2>1
<1>50. p[0] = x00
  BY <1>2, <1>b, <1>c, <1>31, ColumnsOf
<1>51. p[1] = x01 + x10
  BY <1>2, <1>b, <1>c, <1>31, <1>32, ColumnsOf
<1>52. p[2] = x02 + x11 + x20
  BY <1>2, <1>b, <1>c, <1>31, <1>32, <1>33, ColumnsOf
<1>53. p[3] = x03 + x12 + x21 + x30
  BY <1>2, <1>b, <1>c, <1>31, <1>32, <1>33, <1>34, ColumnsOf
<1>54. p[4] = x04 + x13 + x22 + x31 + x40
  BY <1>2, <1>b, <1>c, <1>31, <1>32, <1>33, <1>34, <1>35, ColumnsOf
<1>55. p[5] = x14 + x23 + x32 + x41
  BY <1>2, <1>b, <1>c, <1>32, <1>33, <1>34, <1>35, ColumnsOf
<1>56. p[6] = x24 + x33 + x42
  BY <1>2, <1>b, <1>c, <1>33, <1>34, <1>35, ColumnsOf
<1>57. p[7] = x34 + x43
  BY <1>2, <1>b, <1>c, <1>34, <1>35, ColumnsOf
<1>58. p[8] = x44
  BY <1>2, <1>b, <1>c, <1>35, ColumnsOf
<1>60. v3[0] = x30 /\ v3[1] = x31 + x40 /\ v3[2] = x32 + x41 /\ v3[3] = x33 + x42
       /\ v3[4] = x34 + x43 + B * x44
  BY <1>23, <1>44, <1>45
<1>61. v2[0] = x20 /\ v2[1] = x21 + x30 /\ v2[2] = x22 + (x31 + x40) /\ v2[3] = x23 + (x32 + x41)
       /\ v2[4] = x24 + (x33 + x42) + B * v3[4]
  BY <1>22, <1>43, <1>60
<1>62. v1[0] = x10 /\ v1[1] = x11 + x20 /\ v1[2] = x12 + (x21 + x30) /\ v1[3] = x13 + (x22 + (x31 + x40))
       /\ v1[4] = x14 + (x23 + (x32 + x41)) + B * v2[4]
  BY <1>21, <1>42, <1>61
<1>63. v0[0] = x00 /\ v0[1] = x01 + x10 /\ v0[2] = x02 + (x11 + x20) /\ v0[3] = x03 + (x12 + (x21 + x30))
       /\ v0[4] = x04 + (x13 + (x22 + (x31 + x40))) + B * v1[4]
  BY <1>20, <1>41, <1>62
<1>64. v0[0] = p[0] /\ v0[1] = p[1] /\ v0[2] = p[2] /\ v0[3] = p[3]
  BY <1>50, <1>51, <1>52, <1>53, <1>63, SMT
<1>65. v3[4] = p[7] + B * p[8]
  BY <1>57, <1>58, <1>60
<1>66. v2[4] = p[6] + B * v3[4]
  <2>1. x24 + (x33 + x42) = p[6]
    BY <1>56, SMT
  <2> QED
    BY <1>61, <2>1
<1>67. v1[4] = p[5] + B * v2[4]
  <2>1. x14 + (x23 + (x32 + x41)) = p[5]
    BY <1>55, SMT
  <2> QED
    BY <1>62, <2>1
<1>68. v0[4] = p[4] + B * v1[4]
  <2>1. x04 + (x13 + (x22 + (x31 + x40))) = p[4]
    BY <1>54, SMT
  <2> QED
    BY <1>63, <2>1
<1>69. Nine(p) = Num(v0)
  BY <1>1, <1>64, <1>65, <1>66, <1>67, <1>68 DEF Nine, Num
<1> QED
  BY <1>20, <1>28, <1>69

(* Operands of magnitude at most MaxMul keep their columns within bounds.   *)
LEMMA ProductBound ==
  ASSUME NEW x \in Nat, NEW y \in Nat, NEW u \in Nat, NEW v \in Nat, x <= u, y <= v
  PROVE  x * y \in Nat /\ x * y <= u * v
<1>1. x * y <= u * y
  BY SMT
<1>2. u * y <= u * v
  BY SMT
<1>3. x * y \in Nat /\ u * y \in Nat /\ u * v \in Nat
  BY SMT
<1> QED
  BY <1>1, <1>2, <1>3, SMT

(* Operands of magnitude at most MaxMul keep their columns within bounds.   *)
LEMMA ProductsOf ==
  ASSUME Sizes, NEW a, NEW b, Element(a), Element(b), a.mag <= MaxMul, b.mag <= MaxMul,
         NEW p, p = [k \in 0 .. 2 * N - 2 |-> Column(a.n, b.n, N, k)]
  PROVE  Products(p)
<1>1. PICK B \in Nat, D \in Nat, g \in Nat :
         /\ B = 2^W /\ D = 2^T /\ g = 2 * MaxMul /\ D <= B /\ D > 0
         /\ Unit = g * g
  <2>1. PICK B \in Nat, D \in Nat, U \in Nat : B = 2^W /\ D = 2^T /\ B = D * U /\ U > 0 /\ D > 0
    BY SizesOf
  <2>2. MaxMul \in Nat
    BY SizesOf
  <2>3. PICK g \in Nat : g = 2 * MaxMul
    BY <2>2, SMT
  <2>4. D <= B
    BY <2>1, SMT
  <2>5. Unit = g * g
    BY <2>2, <2>3, SMT DEF Unit
  <2> QED
    BY <2>1, <2>3, <2>4, <2>5
<1>2. \A x : Element(x) /\ x.mag <= MaxMul =>
         LimbsOf(x.n) /\ (\A i \in 0 .. 3 : x.n[i] \in Nat /\ x.n[i] <= g * B) /\ x.n[4] \in Nat /\ x.n[4] <= g * D
  <2>1. SUFFICES ASSUME NEW x, Element(x), x.mag <= MaxMul
                 PROVE  LimbsOf(x.n) /\ (\A i \in 0 .. 3 : x.n[i] \in Nat /\ x.n[i] <= g * B)
                        /\ x.n[4] \in Nat /\ x.n[4] <= g * D
    OBVIOUS
  <2>2. LimbsOf(x.n) /\ x.mag \in Nat /\ (\A i \in 0 .. 3 : x.n[i] <= 2 * x.mag * M) /\ x.n[4] <= 2 * x.mag * MT
    <3>1. MaxMag \in Nat
      BY SizesOf
    <3>2. LimbsOf(x.n) /\ x.mag \in 0 .. MaxMag /\ (\A i \in 0 .. 3 : x.n[i] <= 2 * x.mag * M) /\ x.n[4] <= 2 * x.mag * MT
      BY <2>1, Limits
    <3> QED
      BY <3>1, <3>2, SMT
  <2>3. PICK h \in Nat : h = 2 * x.mag /\ h <= g
    <3>1. x.mag \in Nat /\ MaxMul \in Nat
      BY <2>2, SizesOf
    <3> QED
      BY <1>1, <2>1, <3>1, SMT
  <2>4. h * (B - 1) <= g * B /\ h * (D - 1) <= g * D
    <3>1. \A y \in Nat, z \in Nat : y > 0 => h * (y - 1) <= g * y
      <4>1. SUFFICES ASSUME NEW y \in Nat, y > 0 PROVE h * (y - 1) <= g * y
        BY SMT
      <4>2. PICK m \in Nat : m = y - 1 /\ m <= y
        BY <4>1, SMT
      <4>3. h * m <= g * m /\ g * m <= g * y
        BY <2>3, <4>2, SMT
      <4>4. h * m \in Nat /\ g * m \in Nat /\ g * y \in Nat
        BY SMT
      <4> QED
        BY <4>2, <4>3, <4>4, SMT
    <3>2. B > 0
      BY <1>1, SMT
    <3> QED
      BY <1>1, <3>1, <3>2
  <2>5. M = B - 1 /\ MT = D - 1
    BY <1>1 DEF M, MT
  <2>6. h * (B - 1) \in Nat /\ h * (D - 1) \in Nat /\ g * B \in Nat /\ g * D \in Nat
    <3>1. PICK m \in Nat, q \in Nat : m = B - 1 /\ q = D - 1
      BY <1>1, SMT
    <3> QED
      BY <3>1, SMT
  <2>7. \A i \in 0 .. 3 : x.n[i] \in Nat
    BY <2>2, SMT DEF LimbsOf, Idx
  <2>8. x.n[4] \in Nat
    BY <2>2, LimbTypes
  <2>9. \A i \in 0 .. 3 : x.n[i] <= h * (B - 1)
    BY <2>2, <2>3, <2>5
  <2>10. x.n[4] <= h * (D - 1)
    BY <2>2, <2>3, <2>5
  <2>11. \A i \in 0 .. 3 : x.n[i] <= g * B
    BY <2>4, <2>6, <2>7, <2>9, SMT
  <2>12. x.n[4] <= g * D
    BY <2>4, <2>6, <2>8, <2>10, SMT
  <2> QED
    BY <2>2, <2>7, <2>8, <2>11, <2>12
<1>3. PICK u \in Nat, v \in Nat : u = g * B /\ v = g * D /\ v <= u
  BY <1>1, SMT
<1>4. PICK Z \in Nat, X \in Nat : Z = u * u /\ X = u * v /\ Z = Unit * 2^W * 2^W /\ X = 2^W * (Unit * 2^T)
  <2>1. PICK V \in Nat : V = g * g
    BY SMT
  <2>2. u * u = V * B * B
    BY <1>3, <2>1, SMT
  <2>3. u * v = B * (V * D)
    BY <1>3, <2>1, SMT
  <2>4. V = Unit
    BY <1>1, <2>1
  <2> QED
    BY <1>1, <2>2, <2>3, <2>4, SMT
<1>5. \A x \in Nat, y \in Nat : x <= u /\ y <= u => x * y \in Nat /\ x * y <= Z
  BY <1>4, ProductBound
<1>6. \A x \in Nat, y \in Nat : x <= u /\ y <= v => x * y \in Nat /\ x * y <= X
  BY <1>4, ProductBound
<1>7. PICK a0 \in Nat, a1 \in Nat, a2 \in Nat, a3 \in Nat, a4 \in Nat :
         /\ a0 = a.n[0] /\ a1 = a.n[1] /\ a2 = a.n[2] /\ a3 = a.n[3] /\ a4 = a.n[4]
         /\ a0 <= u /\ a1 <= u /\ a2 <= u /\ a3 <= u /\ a4 <= v /\ a4 <= u
  <2>1. (\A i \in 0 .. 3 : a.n[i] \in Nat /\ a.n[i] <= u) /\ a.n[4] \in Nat /\ a.n[4] <= v
    BY <1>2, <1>3
  <2>2. a.n[0] \in Nat /\ a.n[1] \in Nat /\ a.n[2] \in Nat /\ a.n[3] \in Nat
    BY <2>1, SMT
  <2>3. a.n[0] <= u /\ a.n[1] <= u /\ a.n[2] <= u /\ a.n[3] <= u /\ a.n[4] <= u
    BY <1>3, <2>1, SMT
  <2> QED
    BY <2>1, <2>2, <2>3
<1>8. PICK b0 \in Nat, b1 \in Nat, b2 \in Nat, b3 \in Nat, b4 \in Nat :
         /\ b0 = b.n[0] /\ b1 = b.n[1] /\ b2 = b.n[2] /\ b3 = b.n[3] /\ b4 = b.n[4]
         /\ b0 <= u /\ b1 <= u /\ b2 <= u /\ b3 <= u /\ b4 <= v /\ b4 <= u
  <2>1. (\A i \in 0 .. 3 : b.n[i] \in Nat /\ b.n[i] <= u) /\ b.n[4] \in Nat /\ b.n[4] <= v
    BY <1>2, <1>3
  <2>2. b.n[0] \in Nat /\ b.n[1] \in Nat /\ b.n[2] \in Nat /\ b.n[3] \in Nat
    BY <2>1, SMT
  <2>3. b.n[0] <= u /\ b.n[1] <= u /\ b.n[2] <= u /\ b.n[3] <= u /\ b.n[4] <= u
    BY <1>3, <2>1, SMT
  <2> QED
    BY <2>1, <2>2, <2>3
<1>9. LimbsOf(a.n) /\ LimbsOf(b.n)
  BY <1>2
<1>10. \A k \in 0 .. 8 : p[k] = Column(a.n, b.n, N, k)
  BY SMT DEF N
<1>c. /\ p[0] = Column(a.n, b.n, N, 0) /\ p[1] = Column(a.n, b.n, N, 1) /\ p[2] = Column(a.n, b.n, N, 2)
      /\ p[3] = Column(a.n, b.n, N, 3) /\ p[4] = Column(a.n, b.n, N, 4) /\ p[5] = Column(a.n, b.n, N, 5)
      /\ p[6] = Column(a.n, b.n, N, 6) /\ p[7] = Column(a.n, b.n, N, 7) /\ p[8] = Column(a.n, b.n, N, 8)
  BY <1>10, SMT
<1>d. PICK x, y : x = a.n /\ y = b.n /\ LimbsOf(x) /\ LimbsOf(y)
  BY <1>9
<1>e. /\ Column(x, y, N, 0) = x[0] * y[0]
      /\ Column(x, y, N, 1) = x[0] * y[1] + x[1] * y[0]
      /\ Column(x, y, N, 2) = x[0] * y[2] + x[1] * y[1] + x[2] * y[0]
      /\ Column(x, y, N, 3) = x[0] * y[3] + x[1] * y[2] + x[2] * y[1] + x[3] * y[0]
      /\ Column(x, y, N, 4) = x[0] * y[4] + x[1] * y[3] + x[2] * y[2] + x[3] * y[1] + x[4] * y[0]
      /\ Column(x, y, N, 5) = x[1] * y[4] + x[2] * y[3] + x[3] * y[2] + x[4] * y[1]
      /\ Column(x, y, N, 6) = x[2] * y[4] + x[3] * y[3] + x[4] * y[2]
      /\ Column(x, y, N, 7) = x[3] * y[4] + x[4] * y[3]
      /\ Column(x, y, N, 8) = x[4] * y[4]
  BY <1>d, ColumnsOf
<1>20. PICK x00 \in Nat, x01 \in Nat, x02 \in Nat, x03 \in Nat, x04 \in Nat :
         /\ x00 = a0 * b0 /\ x01 = a0 * b1 /\ x02 = a0 * b2 /\ x03 = a0 * b3 /\ x04 = a0 * b4
         /\ x00 <= Z /\ x01 <= Z /\ x02 <= Z /\ x03 <= Z /\ x04 <= Z
  <2>1. a0 * b0 \in Nat /\ a0 * b0 <= Z
    BY <1>5, <1>7, <1>8
  <2>2. a0 * b1 \in Nat /\ a0 * b1 <= Z
    BY <1>5, <1>7, <1>8
  <2>3. a0 * b2 \in Nat /\ a0 * b2 <= Z
    BY <1>5, <1>7, <1>8
  <2>4. a0 * b3 \in Nat /\ a0 * b3 <= Z
    BY <1>5, <1>7, <1>8
  <2>5. a0 * b4 \in Nat /\ a0 * b4 <= Z
    BY <1>5, <1>7, <1>8
  <2> QED
    BY <2>1, <2>2, <2>3, <2>4, <2>5
<1>21. PICK x10 \in Nat, x11 \in Nat, x12 \in Nat, x13 \in Nat, x14 \in Nat :
         /\ x10 = a1 * b0 /\ x11 = a1 * b1 /\ x12 = a1 * b2 /\ x13 = a1 * b3 /\ x14 = a1 * b4
         /\ x10 <= Z /\ x11 <= Z /\ x12 <= Z /\ x13 <= Z /\ x14 <= Z
  <2>1. a1 * b0 \in Nat /\ a1 * b0 <= Z
    BY <1>5, <1>7, <1>8
  <2>2. a1 * b1 \in Nat /\ a1 * b1 <= Z
    BY <1>5, <1>7, <1>8
  <2>3. a1 * b2 \in Nat /\ a1 * b2 <= Z
    BY <1>5, <1>7, <1>8
  <2>4. a1 * b3 \in Nat /\ a1 * b3 <= Z
    BY <1>5, <1>7, <1>8
  <2>5. a1 * b4 \in Nat /\ a1 * b4 <= Z
    BY <1>5, <1>7, <1>8
  <2> QED
    BY <2>1, <2>2, <2>3, <2>4, <2>5
<1>22. PICK x20 \in Nat, x21 \in Nat, x22 \in Nat, x23 \in Nat, x24 \in Nat :
         /\ x20 = a2 * b0 /\ x21 = a2 * b1 /\ x22 = a2 * b2 /\ x23 = a2 * b3 /\ x24 = a2 * b4
         /\ x20 <= Z /\ x21 <= Z /\ x22 <= Z /\ x23 <= Z /\ x24 <= Z
  <2>1. a2 * b0 \in Nat /\ a2 * b0 <= Z
    BY <1>5, <1>7, <1>8
  <2>2. a2 * b1 \in Nat /\ a2 * b1 <= Z
    BY <1>5, <1>7, <1>8
  <2>3. a2 * b2 \in Nat /\ a2 * b2 <= Z
    BY <1>5, <1>7, <1>8
  <2>4. a2 * b3 \in Nat /\ a2 * b3 <= Z
    BY <1>5, <1>7, <1>8
  <2>5. a2 * b4 \in Nat /\ a2 * b4 <= Z
    BY <1>5, <1>7, <1>8
  <2> QED
    BY <2>1, <2>2, <2>3, <2>4, <2>5
<1>23. PICK x30 \in Nat, x31 \in Nat, x32 \in Nat, x33 \in Nat, x34 \in Nat :
         /\ x30 = a3 * b0 /\ x31 = a3 * b1 /\ x32 = a3 * b2 /\ x33 = a3 * b3 /\ x34 = a3 * b4
         /\ x30 <= Z /\ x31 <= Z /\ x32 <= Z /\ x33 <= Z /\ x34 <= Z /\ x34 <= X
  <2>1. a3 * b0 \in Nat /\ a3 * b0 <= Z
    BY <1>5, <1>7, <1>8
  <2>2. a3 * b1 \in Nat /\ a3 * b1 <= Z
    BY <1>5, <1>7, <1>8
  <2>3. a3 * b2 \in Nat /\ a3 * b2 <= Z
    BY <1>5, <1>7, <1>8
  <2>4. a3 * b3 \in Nat /\ a3 * b3 <= Z
    BY <1>5, <1>7, <1>8
  <2>5. a3 * b4 \in Nat /\ a3 * b4 <= Z
    BY <1>5, <1>7, <1>8
  <2>6. a3 * b4 <= X
    BY <1>6, <1>7, <1>8
  <2> QED
    BY <2>1, <2>2, <2>3, <2>4, <2>5, <2>6
<1>24. PICK x40 \in Nat, x41 \in Nat, x42 \in Nat, x43 \in Nat, x44 \in Nat :
         /\ x40 = a4 * b0 /\ x41 = a4 * b1 /\ x42 = a4 * b2 /\ x43 = a4 * b3 /\ x44 = a4 * b4
         /\ x40 <= Z /\ x41 <= Z /\ x42 <= Z /\ x43 <= Z /\ x44 <= Z /\ x43 <= X
  <2>1. a4 * b0 \in Nat /\ a4 * b0 <= Z
    BY <1>5, <1>7, <1>8
  <2>2. a4 * b1 \in Nat /\ a4 * b1 <= Z
    BY <1>5, <1>7, <1>8
  <2>3. a4 * b2 \in Nat /\ a4 * b2 <= Z
    BY <1>5, <1>7, <1>8
  <2>4. a4 * b3 \in Nat /\ a4 * b3 <= Z
    BY <1>5, <1>7, <1>8
  <2>5. a4 * b4 \in Nat /\ a4 * b4 <= Z
    BY <1>5, <1>7, <1>8
  <2>6. a4 * b3 <= X
    <3>1. b3 * a4 <= X
      BY <1>6, <1>7, <1>8
    <3>2. b3 * a4 = a4 * b3
      BY SMT
    <3> QED
      BY <3>1, <3>2
  <2> QED
    BY <2>1, <2>2, <2>3, <2>4, <2>5, <2>6
<1>30. p[0] = x00
  BY <1>7, <1>8, <1>c, <1>d, <1>e, <1>20
<1>31. p[1] = x01 + x10
  BY <1>7, <1>8, <1>c, <1>d, <1>e, <1>20, <1>21
<1>32. p[2] = x02 + x11 + x20
  BY <1>7, <1>8, <1>c, <1>d, <1>e, <1>20, <1>21, <1>22
<1>33. p[3] = x03 + x12 + x21 + x30
  BY <1>7, <1>8, <1>c, <1>d, <1>e, <1>20, <1>21, <1>22, <1>23
<1>34. p[4] = x04 + x13 + x22 + x31 + x40
  BY <1>7, <1>8, <1>c, <1>d, <1>e, <1>20, <1>21, <1>22, <1>23, <1>24
<1>35. p[5] = x14 + x23 + x32 + x41
  BY <1>7, <1>8, <1>c, <1>d, <1>e, <1>21, <1>22, <1>23, <1>24
<1>36. p[6] = x24 + x33 + x42
  BY <1>7, <1>8, <1>c, <1>d, <1>e, <1>22, <1>23, <1>24
<1>37. p[7] = x34 + x43
  BY <1>7, <1>8, <1>c, <1>d, <1>e, <1>23, <1>24
<1>38. p[8] = x44
  BY <1>7, <1>8, <1>c, <1>d, <1>e, <1>24
<1>40. p[0] \in Nat /\ p[0] <= 5 * Z
  BY <1>30, <1>20, SMT
<1>41. p[1] \in Nat /\ p[1] <= 5 * Z
  BY <1>31, <1>20, <1>21, SMT
<1>42. p[2] \in Nat /\ p[2] <= 5 * Z
  BY <1>32, <1>20, <1>21, <1>22, SMT
<1>43. p[3] \in Nat /\ p[3] <= 5 * Z
  BY <1>33, <1>20, <1>21, <1>22, <1>23, SMT
<1>44. p[4] \in Nat /\ p[4] <= 5 * Z
  BY <1>34, <1>20, <1>21, <1>22, <1>23, <1>24, SMT
<1>45. p[5] \in Nat /\ p[5] <= 5 * Z
  BY <1>35, <1>21, <1>22, <1>23, <1>24, SMT
<1>46. p[6] \in Nat /\ p[6] <= 5 * Z
  BY <1>36, <1>22, <1>23, <1>24, SMT
<1>47. p[7] \in Nat /\ p[7] <= 5 * Z
  BY <1>37, <1>23, <1>24, SMT
<1>48. p[8] \in Nat /\ p[8] <= 5 * Z
  BY <1>38, <1>24, SMT
<1>50. \A k \in 0 .. 8 : p[k] \in Nat /\ p[k] <= 5 * Z
  BY ONLY <1>40, <1>41, <1>42, <1>43, <1>44, <1>45, <1>46, <1>47, <1>48, SMT
<1>51. p[7] <= 2 * X /\ p[8] <= Z
  BY <1>23, <1>24, <1>37, <1>38, SMT
<1>52. 2 * X = 2^W * (2 * (Unit * 2^T))
  <2>1. PICK V \in Nat : V = Unit
    BY <1>1, SMT
  <2>2. 2 * (B * (V * D)) = B * (2 * (V * D))
    BY SMT
  <2> QED
    BY <1>1, <1>4, <2>1, <2>2
<1> QED
  BY <1>4, <1>50, <1>51, <1>52 DEF Products

(* The limbs that the schedule leaves make an element of magnitude one.     *)
LEMMA ScheduleElement ==
  ASSUME Sizes, NEW p, Products(p), NEW x \in Nat, Nine(p) = x
  PROVE  LET r == Product(MulSchedule(p), TRUE)
         IN  Element(r) /\ r.mag = 1 /\ r.norm = FALSE /\ Congruent(x, Num(r.n))
<1>1. PICK s : s = MulSchedule(p)
  OBVIOUS
<1>2. /\ s.ok = TRUE /\ CarriedLimbs(s.n) /\ s.n[4] + 2 <= 2 * 2^T
      /\ \E K \in Nat : Nine(p) = Num(s.n) + K * Char
  BY <1>1, MulScheduleExact
<1>3. PICK n : n = s.n /\ LimbsOf(n)
  BY <1>2 DEF CarriedLimbs
<1>4. PICK r : r = Product(MulSchedule(p), TRUE)
  OBVIOUS
<1>5. r = Fe(n, 1, FALSE, TRUE)
  <2>1. (TRUE /\ s.ok) = TRUE
    BY <1>2
  <2> QED
    BY <1>1, <1>3, <1>4, <2>1 DEF Product
<1>6. \A i \in Idx : n[i] <= 2 * 1 * Most(i)
  <2>1. PICK B \in Nat, D \in Nat : B = 2^W /\ D = 2^T
    BY SizesOf
  <2>2. \A i \in 0 .. 3 : n[i] < B
    BY <1>2, <1>3, <2>1 DEF CarriedLimbs
  <2>3. n[4] + 2 <= 2 * D
    BY <1>2, <1>3, <2>1
  <2>4. n[0] \in Nat /\ n[1] \in Nat /\ n[2] \in Nat /\ n[3] \in Nat /\ n[4] \in Nat
    BY <1>3, LimbTypes
  <2>5. n[0] < B /\ n[1] < B /\ n[2] < B /\ n[3] < B
    BY <2>2, SMT
  <2>6. Most(0) = B - 1 /\ Most(1) = B - 1 /\ Most(2) = B - 1 /\ Most(3) = B - 1 /\ Most(4) = D - 1
    BY <2>1, SMT DEF Most, M, MT
  <2>7. /\ n[0] <= 2 * 1 * Most(0) /\ n[1] <= 2 * 1 * Most(1) /\ n[2] <= 2 * 1 * Most(2)
        /\ n[3] <= 2 * 1 * Most(3) /\ n[4] <= 2 * 1 * Most(4)
    BY <2>3, <2>4, <2>5, <2>6, SMT
  <2> QED
    BY ONLY <2>7, SMT DEF Idx
<1>7. Becomes(Fe(n, 1, FALSE, TRUE), n, 1, FALSE)
  <2>1. 1 \in Nat /\ 1 <= MaxMag /\ n \in [Idx -> Nat]
    <3>1. MaxMag \in Nat /\ MaxMag > 0
      BY SizesOf
    <3>2. n \in [Idx -> Nat]
      BY <1>3 DEF LimbsOf
    <3> QED
      BY <3>1, <3>2, SMT
  <2> QED
    BY <1>6, <2>1, LazyElement
<1>8. Element(r) /\ r.mag = 1 /\ r.norm = FALSE /\ r.n = n
  BY <1>5, <1>7 DEF Becomes
<1>9. Congruent(x, Num(n))
  <2>1. PICK K \in Nat : x = Num(n) + K * Char
    BY <1>2, <1>3
  <2> QED
    BY <2>1, SMT DEF Congruent
<1> QED
  BY <1>4, <1>8, <1>9

(* fe_mul: an element of magnitude one, the product of the operands modulo  *)
(* the characteristic.  With ok the theorem says that no accumulator of the *)
(* 128-bit schedule overflows and that the VERIFY_CHECKs on the operands and *)
(* the result hold.                                                         *)
THEOREM MulExact ==
  ASSUME Sizes, NEW a, Element(a), NEW b, Element(b), a.mag <= MaxMul, b.mag <= MaxMul
  PROVE  LET r == fe_mul(a, b)
         IN  Element(r) /\ r.mag = 1 /\ r.norm = FALSE /\ Congruent(Num(a.n) * Num(b.n), Num(r.n))
<1>1. PICK p : p = [k \in 0 .. 2 * N - 2 |-> Column(a.n, b.n, N, k)]
  OBVIOUS
<1>2. Products(p)
  BY <1>1, ProductsOf
<1>3. LimbsOf(a.n) /\ LimbsOf(b.n)
  BY Limits
<1>4. PICK x \in Nat : x = Num(a.n) * Num(b.n)
  <2>1. Num(a.n) \in Nat /\ Num(b.n) \in Nat
    BY <1>3, NumType
  <2> QED
    BY <2>1, SMT
<1>5. Nine(p) = x
  BY <1>1, <1>3, <1>4, Schoolbook
<1>6. fe_mul(a, b) = Product(MulSchedule(p), TRUE)
  <2>1. (a.ok /\ b.ok /\ a.mag <= MaxMul /\ b.mag <= MaxMul) = TRUE
    BY DEF Element
  <2> QED
    BY <1>1, <2>1 DEF fe_mul, fe_mul_inner
<1> QED
  BY <1>2, <1>4, <1>5, <1>6, ScheduleElement

-----------------------------------------------------------------------------
(* The squaring routine adds each product of two different limbs once,      *)
(* doubled, and the square of a limb: the same columns.                     *)
LEMMA SumNone ==
  ASSUME NEW lo \in Int, NEW hi \in Int, hi < lo, NEW f
  PROVE  SumRange(f, lo, hi) = 0
BY SMT DEF SumRange

(* The columns of fe_sqr_inner are those of fe_mul_inner, column by column. *)
LEMMA SqrColumns ==
  ASSUME NEW a, LimbsOf(a)
  PROVE  \A k \in 0 .. 8 : SqrColumn(a, k) = Column(a, a, N, k)
<1>1. PICK a0 \in Nat, a1 \in Nat, a2 \in Nat, a3 \in Nat, a4 \in Nat :
         a0 = a[0] /\ a1 = a[1] /\ a2 = a[2] /\ a3 = a[3] /\ a4 = a[4]
  BY LimbTypes
<1>20. PICK x00 \in Nat, x01 \in Nat, x02 \in Nat, x03 \in Nat, x04 \in Nat :
         x00 = a0 * a0 /\ x01 = a0 * a1 /\ x02 = a0 * a2 /\ x03 = a0 * a3 /\ x04 = a0 * a4
  BY SMT
<1>21. PICK x11 \in Nat, x12 \in Nat, x13 \in Nat, x14 \in Nat :
         x11 = a1 * a1 /\ x12 = a1 * a2 /\ x13 = a1 * a3 /\ x14 = a1 * a4
  BY SMT
<1>22. PICK x22 \in Nat, x23 \in Nat, x24 \in Nat :
         x22 = a2 * a2 /\ x23 = a2 * a3 /\ x24 = a2 * a4
  BY SMT
<1>23. PICK x33 \in Nat, x34 \in Nat :
         x33 = a3 * a3 /\ x34 = a3 * a4
  BY SMT
<1>24. PICK x44 \in Nat :
         x44 = a4 * a4
  BY SMT
<1>3. /\ Column(a, a, N, 0) = a[0] * a[0]
      /\ Column(a, a, N, 1) = a[0] * a[1] + a[1] * a[0]
      /\ Column(a, a, N, 2) = a[0] * a[2] + a[1] * a[1] + a[2] * a[0]
      /\ Column(a, a, N, 3) = a[0] * a[3] + a[1] * a[2] + a[2] * a[1] + a[3] * a[0]
      /\ Column(a, a, N, 4) = a[0] * a[4] + a[1] * a[3] + a[2] * a[2] + a[3] * a[1] + a[4] * a[0]
      /\ Column(a, a, N, 5) = a[1] * a[4] + a[2] * a[3] + a[3] * a[2] + a[4] * a[1]
      /\ Column(a, a, N, 6) = a[2] * a[4] + a[3] * a[3] + a[4] * a[2]
      /\ Column(a, a, N, 7) = a[3] * a[4] + a[4] * a[3]
      /\ Column(a, a, N, 8) = a[4] * a[4]
  BY ColumnsOf
<1>40. SqrColumn(a, 0) = x00
  <2>1. PICK f : f = [i \in Idx |-> 2 * a[i] * a[0 - i]]
    OBVIOUS
  <2>2. Lo(0, N) = 0 /\ (0 - 1) \div 2 = -1 /\ 0 % 2 = 0 /\ 0 \div 2 = 0
    <3>1. PICK x \in Int : x = 0 - 1
      BY SMT
    <3>2. PICK y \in Int : y = -1
      BY SMT
    <3>3. x = 2 * y + 1
      BY <3>1, <3>2, SMT
    <3>4. x \div 2 = y
      BY ONLY <3>3, x \in Int, y \in Int, SMT
    <3> QED
      BY <3>1, <3>2, <3>4, SMT DEF Lo, N
  <2>3. SqrColumn(a, 0) = SumRange(f, 0, -1) + a[0] * a[0]
    <3>1. SqrColumn(a, 0) = SumRange(f, Lo(0, N), (0 - 1) \div 2) + (IF 0 % 2 = 0 THEN a[0 \div 2] * a[0 \div 2] ELSE 0)
      BY <2>1 DEF SqrColumn
    <3> QED
      BY <2>2, <3>1
  <2>4. SumRange(f, 0, -1) = 0
    <3>1. 0 \in Int /\ -1 \in Int /\ -1 < 0
      BY SMT
    <3> QED
      BY <3>1, SumNone
  <2>5. 0 + x00 = x00
    BY SMT
  <2> QED
    BY <1>1, <1>20, <2>3, <2>4, <2>5
<1>41. SqrColumn(a, 1) = 2 * x01
  <2>1. PICK f : f = [i \in Idx |-> 2 * a[i] * a[1 - i]]
    OBVIOUS
  <2>2. Lo(1, N) = 0 /\ (1 - 1) \div 2 = 0 /\ 1 % 2 = 1 /\ 1 \div 2 = 0
    BY SMT DEF Lo, N
  <2>3. SqrColumn(a, 1) = SumRange(f, 0, 0) + 0
    <3>1. SqrColumn(a, 1) = SumRange(f, Lo(1, N), (1 - 1) \div 2) + (IF 1 % 2 = 0 THEN a[1 \div 2] * a[1 \div 2] ELSE 0)
      BY <2>1 DEF SqrColumn
    <3> QED
      BY <2>2, <3>1
  <2>4. f[0] = 2 * x01
    <3>1. 0 \in Idx /\ 1 - 0 = 1
      BY SMT DEF Idx
    <3>2. f[0] = 2 * a0 * a1
      BY <1>1, <2>1, <3>1
    <3>3. 2 * a0 * a1 = 2 * (a0 * a1)
      BY SMT
    <3> QED
      BY <1>20, <3>2, <3>3
  <2>5. SumRange(f, 0, 0) = f[0]
    <3>1. \A i \in 0 .. 0 : f[i] \in Int
      BY <2>4, SMT
    <3>2. 0 \in Int
      BY SMT
    <3> QED
      BY <3>1, <3>2, SumOne
  <2>6. (2 * x01) + 0 = 2 * x01
    BY SMT
  <2> QED
    BY <2>3, <2>4, <2>5, <2>6
<1>42. SqrColumn(a, 2) = 2 * x02 + x11
  <2>1. PICK f : f = [i \in Idx |-> 2 * a[i] * a[2 - i]]
    OBVIOUS
  <2>2. Lo(2, N) = 0 /\ (2 - 1) \div 2 = 0 /\ 2 % 2 = 0 /\ 2 \div 2 = 1
    BY SMT DEF Lo, N
  <2>3. SqrColumn(a, 2) = SumRange(f, 0, 0) + a[1] * a[1]
    <3>1. SqrColumn(a, 2) = SumRange(f, Lo(2, N), (2 - 1) \div 2) + (IF 2 % 2 = 0 THEN a[2 \div 2] * a[2 \div 2] ELSE 0)
      BY <2>1 DEF SqrColumn
    <3> QED
      BY <2>2, <3>1
  <2>4. f[0] = 2 * x02
    <3>1. 0 \in Idx /\ 2 - 0 = 2
      BY SMT DEF Idx
    <3>2. f[0] = 2 * a0 * a2
      BY <1>1, <2>1, <3>1
    <3>3. 2 * a0 * a2 = 2 * (a0 * a2)
      BY SMT
    <3> QED
      BY <1>20, <3>2, <3>3
  <2>5. SumRange(f, 0, 0) = f[0]
    <3>1. \A i \in 0 .. 0 : f[i] \in Int
      BY <2>4, SMT
    <3>2. 0 \in Int
      BY SMT
    <3> QED
      BY <3>1, <3>2, SumOne
  <2> QED
    BY <1>1, <1>21, <2>3, <2>4, <2>5
<1>43. SqrColumn(a, 3) = 2 * x03 + 2 * x12
  <2>1. PICK f : f = [i \in Idx |-> 2 * a[i] * a[3 - i]]
    OBVIOUS
  <2>2. Lo(3, N) = 0 /\ (3 - 1) \div 2 = 1 /\ 3 % 2 = 1 /\ 3 \div 2 = 1
    BY SMT DEF Lo, N
  <2>3. SqrColumn(a, 3) = SumRange(f, 0, 1) + 0
    <3>1. SqrColumn(a, 3) = SumRange(f, Lo(3, N), (3 - 1) \div 2) + (IF 3 % 2 = 0 THEN a[3 \div 2] * a[3 \div 2] ELSE 0)
      BY <2>1 DEF SqrColumn
    <3> QED
      BY <2>2, <3>1
  <2>4. f[0] = 2 * x03
    <3>1. 0 \in Idx /\ 3 - 0 = 3
      BY SMT DEF Idx
    <3>2. f[0] = 2 * a0 * a3
      BY <1>1, <2>1, <3>1
    <3>3. 2 * a0 * a3 = 2 * (a0 * a3)
      BY SMT
    <3> QED
      BY <1>20, <3>2, <3>3
  <2>5. f[1] = 2 * x12
    <3>1. 1 \in Idx /\ 3 - 1 = 2
      BY SMT DEF Idx
    <3>2. f[1] = 2 * a1 * a2
      BY <1>1, <2>1, <3>1
    <3>3. 2 * a1 * a2 = 2 * (a1 * a2)
      BY SMT
    <3> QED
      BY <1>21, <3>2, <3>3
  <2>6. SumRange(f, 0, 1) = f[0] + f[1]
    <3>1. \A i \in 0 .. 1 : f[i] \in Int
      BY <2>4, <2>5, SMT
    <3>2. 0 \in Int /\ 0 + 1 = 1
      BY SMT
    <3>3. \A i \in 0 .. 0 + 1 : f[i] \in Int
      BY <3>1, <3>2
    <3>4. SumRange(f, 0, 0 + 1) = f[0] + f[0 + 1]
      BY <3>2, <3>3, SumTwo
    <3> QED
      BY <3>2, <3>4
  <2>7. (2 * x03 + 2 * x12) + 0 = 2 * x03 + 2 * x12
    BY SMT
  <2> QED
    BY <2>3, <2>4, <2>5, <2>6, <2>7
<1>44. SqrColumn(a, 4) = 2 * x04 + 2 * x13 + x22
  <2>1. PICK f : f = [i \in Idx |-> 2 * a[i] * a[4 - i]]
    OBVIOUS
  <2>2. Lo(4, N) = 0 /\ (4 - 1) \div 2 = 1 /\ 4 % 2 = 0 /\ 4 \div 2 = 2
    BY SMT DEF Lo, N
  <2>3. SqrColumn(a, 4) = SumRange(f, 0, 1) + a[2] * a[2]
    <3>1. SqrColumn(a, 4) = SumRange(f, Lo(4, N), (4 - 1) \div 2) + (IF 4 % 2 = 0 THEN a[4 \div 2] * a[4 \div 2] ELSE 0)
      BY <2>1 DEF SqrColumn
    <3> QED
      BY <2>2, <3>1
  <2>4. f[0] = 2 * x04
    <3>1. 0 \in Idx /\ 4 - 0 = 4
      BY SMT DEF Idx
    <3>2. f[0] = 2 * a0 * a4
      BY <1>1, <2>1, <3>1
    <3>3. 2 * a0 * a4 = 2 * (a0 * a4)
      BY SMT
    <3> QED
      BY <1>20, <3>2, <3>3
  <2>5. f[1] = 2 * x13
    <3>1. 1 \in Idx /\ 4 - 1 = 3
      BY SMT DEF Idx
    <3>2. f[1] = 2 * a1 * a3
      BY <1>1, <2>1, <3>1
    <3>3. 2 * a1 * a3 = 2 * (a1 * a3)
      BY SMT
    <3> QED
      BY <1>21, <3>2, <3>3
  <2>6. SumRange(f, 0, 1) = f[0] + f[1]
    <3>1. \A i \in 0 .. 1 : f[i] \in Int
      BY <2>4, <2>5, SMT
    <3>2. 0 \in Int /\ 0 + 1 = 1
      BY SMT
    <3>3. \A i \in 0 .. 0 + 1 : f[i] \in Int
      BY <3>1, <3>2
    <3>4. SumRange(f, 0, 0 + 1) = f[0] + f[0 + 1]
      BY <3>2, <3>3, SumTwo
    <3> QED
      BY <3>2, <3>4
  <2> QED
    BY <1>1, <1>22, <2>3, <2>4, <2>5, <2>6
<1>45. SqrColumn(a, 5) = 2 * x14 + 2 * x23
  <2>1. PICK f : f = [i \in Idx |-> 2 * a[i] * a[5 - i]]
    OBVIOUS
  <2>2. Lo(5, N) = 1 /\ (5 - 1) \div 2 = 2 /\ 5 % 2 = 1 /\ 5 \div 2 = 2
    BY SMT DEF Lo, N
  <2>3. SqrColumn(a, 5) = SumRange(f, 1, 2) + 0
    <3>1. SqrColumn(a, 5) = SumRange(f, Lo(5, N), (5 - 1) \div 2) + (IF 5 % 2 = 0 THEN a[5 \div 2] * a[5 \div 2] ELSE 0)
      BY <2>1 DEF SqrColumn
    <3> QED
      BY <2>2, <3>1
  <2>4. f[1] = 2 * x14
    <3>1. 1 \in Idx /\ 5 - 1 = 4
      BY SMT DEF Idx
    <3>2. f[1] = 2 * a1 * a4
      BY <1>1, <2>1, <3>1
    <3>3. 2 * a1 * a4 = 2 * (a1 * a4)
      BY SMT
    <3> QED
      BY <1>21, <3>2, <3>3
  <2>5. f[2] = 2 * x23
    <3>1. 2 \in Idx /\ 5 - 2 = 3
      BY SMT DEF Idx
    <3>2. f[2] = 2 * a2 * a3
      BY <1>1, <2>1, <3>1
    <3>3. 2 * a2 * a3 = 2 * (a2 * a3)
      BY SMT
    <3> QED
      BY <1>22, <3>2, <3>3
  <2>6. SumRange(f, 1, 2) = f[1] + f[2]
    <3>1. \A i \in 1 .. 2 : f[i] \in Int
      BY <2>4, <2>5, SMT
    <3>2. 1 \in Int /\ 1 + 1 = 2
      BY SMT
    <3>3. \A i \in 1 .. 1 + 1 : f[i] \in Int
      BY <3>1, <3>2
    <3>4. SumRange(f, 1, 1 + 1) = f[1] + f[1 + 1]
      BY <3>2, <3>3, SumTwo
    <3> QED
      BY <3>2, <3>4
  <2>7. (2 * x14 + 2 * x23) + 0 = 2 * x14 + 2 * x23
    BY SMT
  <2> QED
    BY <2>3, <2>4, <2>5, <2>6, <2>7
<1>46. SqrColumn(a, 6) = 2 * x24 + x33
  <2>1. PICK f : f = [i \in Idx |-> 2 * a[i] * a[6 - i]]
    OBVIOUS
  <2>2. Lo(6, N) = 2 /\ (6 - 1) \div 2 = 2 /\ 6 % 2 = 0 /\ 6 \div 2 = 3
    BY SMT DEF Lo, N
  <2>3. SqrColumn(a, 6) = SumRange(f, 2, 2) + a[3] * a[3]
    <3>1. SqrColumn(a, 6) = SumRange(f, Lo(6, N), (6 - 1) \div 2) + (IF 6 % 2 = 0 THEN a[6 \div 2] * a[6 \div 2] ELSE 0)
      BY <2>1 DEF SqrColumn
    <3> QED
      BY <2>2, <3>1
  <2>4. f[2] = 2 * x24
    <3>1. 2 \in Idx /\ 6 - 2 = 4
      BY SMT DEF Idx
    <3>2. f[2] = 2 * a2 * a4
      BY <1>1, <2>1, <3>1
    <3>3. 2 * a2 * a4 = 2 * (a2 * a4)
      BY SMT
    <3> QED
      BY <1>22, <3>2, <3>3
  <2>5. SumRange(f, 2, 2) = f[2]
    <3>1. \A i \in 2 .. 2 : f[i] \in Int
      BY <2>4, SMT
    <3>2. 2 \in Int
      BY SMT
    <3> QED
      BY <3>1, <3>2, SumOne
  <2> QED
    BY <1>1, <1>23, <2>3, <2>4, <2>5
<1>47. SqrColumn(a, 7) = 2 * x34
  <2>1. PICK f : f = [i \in Idx |-> 2 * a[i] * a[7 - i]]
    OBVIOUS
  <2>2. Lo(7, N) = 3 /\ (7 - 1) \div 2 = 3 /\ 7 % 2 = 1 /\ 7 \div 2 = 3
    BY SMT DEF Lo, N
  <2>3. SqrColumn(a, 7) = SumRange(f, 3, 3) + 0
    <3>1. SqrColumn(a, 7) = SumRange(f, Lo(7, N), (7 - 1) \div 2) + (IF 7 % 2 = 0 THEN a[7 \div 2] * a[7 \div 2] ELSE 0)
      BY <2>1 DEF SqrColumn
    <3> QED
      BY <2>2, <3>1
  <2>4. f[3] = 2 * x34
    <3>1. 3 \in Idx /\ 7 - 3 = 4
      BY SMT DEF Idx
    <3>2. f[3] = 2 * a3 * a4
      BY <1>1, <2>1, <3>1
    <3>3. 2 * a3 * a4 = 2 * (a3 * a4)
      BY SMT
    <3> QED
      BY <1>23, <3>2, <3>3
  <2>5. SumRange(f, 3, 3) = f[3]
    <3>1. \A i \in 3 .. 3 : f[i] \in Int
      BY <2>4, SMT
    <3>2. 3 \in Int
      BY SMT
    <3> QED
      BY <3>1, <3>2, SumOne
  <2>6. (2 * x34) + 0 = 2 * x34
    BY SMT
  <2> QED
    BY <2>3, <2>4, <2>5, <2>6
<1>48. SqrColumn(a, 8) = x44
  <2>1. PICK f : f = [i \in Idx |-> 2 * a[i] * a[8 - i]]
    OBVIOUS
  <2>2. Lo(8, N) = 4 /\ (8 - 1) \div 2 = 3 /\ 8 % 2 = 0 /\ 8 \div 2 = 4
    BY SMT DEF Lo, N
  <2>3. SqrColumn(a, 8) = SumRange(f, 4, 3) + a[4] * a[4]
    <3>1. SqrColumn(a, 8) = SumRange(f, Lo(8, N), (8 - 1) \div 2) + (IF 8 % 2 = 0 THEN a[8 \div 2] * a[8 \div 2] ELSE 0)
      BY <2>1 DEF SqrColumn
    <3> QED
      BY <2>2, <3>1
  <2>4. SumRange(f, 4, 3) = 0
    <3>1. 4 \in Int /\ 3 \in Int /\ 3 < 4
      BY SMT
    <3> QED
      BY <3>1, SumNone
  <2>5. 0 + x44 = x44
    BY SMT
  <2> QED
    BY <1>1, <1>24, <2>3, <2>4, <2>5
<1>50. Column(a, a, N, 0) = x00
  BY <1>1, <1>3, <1>20
<1>51. Column(a, a, N, 1) = x01 + x01
  <2>1. a1 * a0 = a0 * a1
    BY SMT
  <2> QED
    BY <1>1, <1>3, <2>1, <1>20
<1>52. Column(a, a, N, 2) = x02 + x11 + x02
  <2>1. a2 * a0 = a0 * a2
    BY SMT
  <2> QED
    BY <1>1, <1>3, <2>1, <1>20, <1>21
<1>53. Column(a, a, N, 3) = x03 + x12 + x12 + x03
  <2>1. a2 * a1 = a1 * a2 /\ a3 * a0 = a0 * a3
    BY SMT
  <2> QED
    BY <1>1, <1>3, <2>1, <1>20, <1>21
<1>54. Column(a, a, N, 4) = x04 + x13 + x22 + x13 + x04
  <2>1. a3 * a1 = a1 * a3 /\ a4 * a0 = a0 * a4
    BY SMT
  <2> QED
    BY <1>1, <1>3, <2>1, <1>20, <1>21, <1>22
<1>55. Column(a, a, N, 5) = x14 + x23 + x23 + x14
  <2>1. a3 * a2 = a2 * a3 /\ a4 * a1 = a1 * a4
    BY SMT
  <2> QED
    BY <1>1, <1>3, <2>1, <1>21, <1>22
<1>56. Column(a, a, N, 6) = x24 + x33 + x24
  <2>1. a4 * a2 = a2 * a4
    BY SMT
  <2> QED
    BY <1>1, <1>3, <2>1, <1>22, <1>23
<1>57. Column(a, a, N, 7) = x34 + x34
  <2>1. a4 * a3 = a3 * a4
    BY SMT
  <2> QED
    BY <1>1, <1>3, <2>1, <1>23
<1>58. Column(a, a, N, 8) = x44
  BY <1>1, <1>3, <1>24
<1>60. SqrColumn(a, 0) = Column(a, a, N, 0)
  BY <1>40, <1>50, SMT
<1>61. SqrColumn(a, 1) = Column(a, a, N, 1)
  BY <1>41, <1>51, SMT
<1>62. SqrColumn(a, 2) = Column(a, a, N, 2)
  BY <1>42, <1>52, SMT
<1>63. SqrColumn(a, 3) = Column(a, a, N, 3)
  BY <1>43, <1>53, SMT
<1>64. SqrColumn(a, 4) = Column(a, a, N, 4)
  BY <1>44, <1>54, SMT
<1>65. SqrColumn(a, 5) = Column(a, a, N, 5)
  BY <1>45, <1>55, SMT
<1>66. SqrColumn(a, 6) = Column(a, a, N, 6)
  BY <1>46, <1>56, SMT
<1>67. SqrColumn(a, 7) = Column(a, a, N, 7)
  BY <1>47, <1>57, SMT
<1>68. SqrColumn(a, 8) = Column(a, a, N, 8)
  BY <1>48, <1>58, SMT
<1> QED
  BY ONLY <1>60, <1>61, <1>62, <1>63, <1>64, <1>65, <1>66, <1>67, <1>68, SMT

(* fe_sqr(a) is fe_mul(a, a), limb for limb.                                *)
THEOREM SqrIsMul ==
  ASSUME Sizes, NEW a, Element(a), a.mag <= MaxMul
  PROVE  fe_sqr(a) = fe_mul(a, a)
<1>1. LimbsOf(a.n)
  BY Limits
<1>2. PICK n : n = a.n /\ LimbsOf(n)
  BY <1>1
<1>3. \A k \in 0 .. 8 : SqrColumn(n, k) = Column(n, n, N, k)
  BY <1>2, SqrColumns
<1>4. 2 * N - 2 = 8
  BY SMT DEF N
<1>5. [k \in 0 .. 8 |-> SqrColumn(n, k)] = [k \in 0 .. 8 |-> Column(n, n, N, k)]
  BY <1>3
<1>6. fe_sqr_inner(n) = fe_mul_inner(n, n)
  BY <1>4, <1>5 DEF fe_sqr_inner, fe_mul_inner
<1>7. (a.ok /\ a.mag <= MaxMul) = (a.ok /\ a.ok /\ a.mag <= MaxMul /\ a.mag <= MaxMul)
  OBVIOUS
<1> QED
  BY <1>2, <1>6, <1>7 DEF fe_sqr, fe_mul

(* fe_sqr: the square modulo the characteristic, with every check passed.   *)
THEOREM SqrExact ==
  ASSUME Sizes, NEW a, Element(a), a.mag <= MaxMul
  PROVE  LET r == fe_sqr(a)
         IN  Element(r) /\ r.mag = 1 /\ r.norm = FALSE /\ Congruent(Num(a.n) * Num(a.n), Num(r.n))
<1>1. fe_sqr(a) = fe_mul(a, a)
  BY SqrIsMul
<1> QED
  BY <1>1, MulExact

-----------------------------------------------------------------------------
(* Comparison, zero, constants and the conditional move.                    *)

(* fe_is_zero of a normalized element.                                      *)
THEOREM IsZeroExact ==
  ASSUME Sizes, NEW a, Element(a), a.norm
  PROVE  fe_is_zero(a) <=> Num(a.n) = 0
<1>1. CarriedLimbs(a.n)
  BY Limits
<1>2. Num(a.n) = 0 <=> \A i \in Idx : a.n[i] = 0
  BY <1>1, ZeroLimbs
<1> QED
  BY <1>2 DEF fe_is_zero

(* A digit less in the higher place decides.                                *)
LEMMA DigitLess ==
  ASSUME NEW B \in Nat, NEW c \in Nat, c < B, NEW d \in Nat, NEW y \in Nat, NEW z \in Nat, y < z
  PROVE  c + B * y < d + B * z
<1>1. B * (y + 1) <= B * z
  BY SMT
<1>2. B * (y + 1) = B * y + B
  BY SMT
<1>3. B * y \in Nat /\ B * z \in Nat
  BY SMT
<1> QED
  BY <1>1, <1>2, <1>3, SMT

(* The highest limb in which two carried numbers differ decides.            *)
LEMMA HighestLimbDecides ==
  ASSUME Sizes, NEW t, NEW u, CarriedLimbs(t), CarriedLimbs(u),
         NEW i \in Idx, t[i] < u[i], \A l \in i + 1 .. 4 : t[l] = u[l]
  PROVE  Num(t) < Num(u)
<1>1. PICK B \in Nat : B = 2^W
  BY SizesOf
<1>2. PICK t0 \in Nat, t1 \in Nat, t2 \in Nat, t3 \in Nat, t4 \in Nat :
         t0 = t[0] /\ t1 = t[1] /\ t2 = t[2] /\ t3 = t[3] /\ t4 = t[4]
  BY LimbTypes DEF CarriedLimbs
<1>3. PICK u0 \in Nat, u1 \in Nat, u2 \in Nat, u3 \in Nat, u4 \in Nat :
         u0 = u[0] /\ u1 = u[1] /\ u2 = u[2] /\ u3 = u[3] /\ u4 = u[4]
  BY LimbTypes DEF CarriedLimbs
<1>4. t0 < B /\ t1 < B /\ t2 < B /\ t3 < B
  <2>1. \A j \in 0 .. 3 : t[j] < B
    BY <1>1 DEF CarriedLimbs
  <2> QED
    BY <1>2, <2>1, SMT
<1>5. PICK y3 \in Nat, y2 \in Nat, y1 \in Nat, y0 \in Nat :
         y3 = t3 + B * t4 /\ y2 = t2 + B * y3 /\ y1 = t1 + B * y2 /\ y0 = t0 + B * y1
  BY SMT
<1>6. PICK z3 \in Nat, z2 \in Nat, z1 \in Nat, z0 \in Nat :
         z3 = u3 + B * u4 /\ z2 = u2 + B * z3 /\ z1 = u1 + B * z2 /\ z0 = u0 + B * z1
  BY SMT
<1>7. Num(t) = y0 /\ Num(u) = z0
  BY <1>1, <1>2, <1>3, <1>5, <1>6 DEF Num, Five
<1>8. /\ t4 < u4 => y3 < z3
      /\ y3 < z3 => y2 < z2
      /\ y2 < z2 => y1 < z1
      /\ y1 < z1 => y0 < z0
  BY <1>4, <1>5, <1>6, DigitLess
<1>9. CASE i = 4
  BY <1>2, <1>3, <1>7, <1>8, <1>9
<1>10. CASE i = 3
  <2>1. t4 = u4 /\ t3 < u3
    BY <1>2, <1>3, <1>10, SMT
  <2>2. y3 < z3
    <3>1. PICK m \in Nat : m = B * t4
      BY SMT
    <3> QED
      BY <1>5, <1>6, <2>1, <3>1, SMT
  <2> QED
    BY <1>7, <1>8, <2>2
<1>11. CASE i = 2
  <2>1. t4 = u4 /\ t3 = u3 /\ t2 < u2
    BY <1>2, <1>3, <1>11, SMT
  <2>2. y2 < z2
    <3>1. PICK m \in Nat : m = B * y3
      BY SMT
    <3>2. y3 = z3
      BY <1>5, <1>6, <2>1
    <3> QED
      BY <1>5, <1>6, <2>1, <3>1, <3>2, SMT
  <2> QED
    BY <1>7, <1>8, <2>2
<1>12. CASE i = 1
  <2>1. t4 = u4 /\ t3 = u3 /\ t2 = u2 /\ t1 < u1
    BY <1>2, <1>3, <1>12, SMT
  <2>2. y1 < z1
    <3>1. PICK m \in Nat : m = B * y2
      BY SMT
    <3>2. y2 = z2
      BY <1>5, <1>6, <2>1
    <3> QED
      BY <1>5, <1>6, <2>1, <3>1, <3>2, SMT
  <2> QED
    BY <1>7, <1>8, <2>2
<1>13. CASE i = 0
  <2>1. t4 = u4 /\ t3 = u3 /\ t2 = u2 /\ t1 = u1 /\ t0 < u0
    BY <1>2, <1>3, <1>13, SMT
  <2>2. y0 < z0
    <3>1. PICK m \in Nat : m = B * y1
      BY SMT
    <3>2. y1 = z1
      BY <1>5, <1>6, <2>1
    <3> QED
      BY <1>5, <1>6, <2>1, <3>1, <3>2, SMT
  <2> QED
    BY <1>7, <2>2
<1> QED
  BY <1>9, <1>10, <1>11, <1>12, <1>13, SMT DEF Idx

(* fe_cmp_var compares the numbers of normalized elements.                  *)
THEOREM CmpExact ==
  ASSUME Sizes, NEW a, Element(a), a.norm, NEW b, Element(b), b.norm
  PROVE  /\ fe_cmp_var(a, b) = 0 <=> Num(a.n) = Num(b.n)
         /\ fe_cmp_var(a, b) = 1 <=> Num(a.n) > Num(b.n)
         /\ fe_cmp_var(a, b) = -1 <=> Num(a.n) < Num(b.n)
<1>1. PICK t, u : t = a.n /\ u = b.n /\ CarriedLimbs(t) /\ CarriedLimbs(u)
  BY Limits
<1>2. PICK v \in Nat, w \in Nat : v = Num(t) /\ w = Num(u)
  BY <1>1, NumType DEF CarriedLimbs
<1>3. CASE t = u
  <2>1. fe_cmp_var(a, b) = 0
    BY <1>1, <1>3 DEF fe_cmp_var
  <2>2. v = w
    BY <1>2, <1>3
  <2> QED
    BY <1>1, <1>2, <2>1, <2>2, SMT
<1>4. CASE t # u
  <2> DEFINE Highest(j) == t[j] # u[j] /\ \A l \in j + 1 .. 4 : t[l] = u[l]
             i == CHOOSE j \in Idx : Highest(j)
  <2>1. \E j \in Idx : Highest(j)
    <3>1. \E j \in Idx : t[j] # u[j]
      BY <1>1, <1>4 DEF CarriedLimbs, LimbsOf
    <3>2. CASE t[4] # u[4]
      <4>1. 4 \in Idx /\ \A l \in 4 + 1 .. 4 : t[l] = u[l]
        BY SMT DEF Idx
      <4> QED
        BY <3>2, <4>1
    <3>3. CASE t[4] = u[4] /\ t[3] # u[3]
      <4>1. 3 \in Idx /\ \A l \in 3 + 1 .. 4 : t[l] = u[l]
        BY <3>3, SMT DEF Idx
      <4> QED
        BY <3>3, <4>1
    <3>4. CASE t[4] = u[4] /\ t[3] = u[3] /\ t[2] # u[2]
      <4>1. 2 \in Idx /\ \A l \in 2 + 1 .. 4 : t[l] = u[l]
        BY <3>4, SMT DEF Idx
      <4> QED
        BY <3>4, <4>1
    <3>5. CASE t[4] = u[4] /\ t[3] = u[3] /\ t[2] = u[2] /\ t[1] # u[1]
      <4>1. 1 \in Idx /\ \A l \in 1 + 1 .. 4 : t[l] = u[l]
        BY <3>5, SMT DEF Idx
      <4> QED
        BY <3>5, <4>1
    <3>6. CASE t[4] = u[4] /\ t[3] = u[3] /\ t[2] = u[2] /\ t[1] = u[1]
      <4>1. t[0] # u[0]
        BY <3>1, <3>6, SMT DEF Idx
      <4>2. 0 \in Idx /\ \A l \in 0 + 1 .. 4 : t[l] = u[l]
        BY <3>6, SMT DEF Idx
      <4> QED
        BY <4>1, <4>2
    <3> QED
      BY <3>2, <3>3, <3>4, <3>5, <3>6
  <2>2. i \in Idx /\ Highest(i)
    BY <2>1
  <2>3. fe_cmp_var(a, b) = IF t[i] > u[i] THEN 1 ELSE -1
    BY <1>1, <1>4 DEF fe_cmp_var
  <2> HIDE DEF i
  <2>4. t[i] \in Nat /\ u[i] \in Nat
    BY <1>1, <2>2 DEF CarriedLimbs, LimbsOf
  <2>5. \A l \in i + 1 .. 4 : t[l] = u[l] /\ u[l] = t[l]
    BY <2>2
  <2>6. CASE t[i] > u[i]
    <3>1. u[i] < t[i]
      BY <2>4, <2>6, SMT
    <3>2. w < v
      BY <1>1, <1>2, <2>2, <2>5, <3>1, HighestLimbDecides
    <3>3. fe_cmp_var(a, b) = 1
      BY <2>3, <2>6
    <3> QED
      BY <1>1, <1>2, <3>2, <3>3, SMT
  <2>7. CASE ~(t[i] > u[i])
    <3>1. t[i] < u[i]
      BY <2>2, <2>4, <2>7, SMT
    <3>2. v < w
      BY <1>1, <1>2, <2>2, <2>5, <3>1, HighestLimbDecides
    <3>3. fe_cmp_var(a, b) = -1
      BY <2>3, <2>7
    <3> QED
      BY <1>1, <1>2, <3>2, <3>3, SMT
  <2> QED
    BY <2>6, <2>7
<1> QED
  BY <1>3, <1>4

(* fe_set_int of a number below the base, and fe_clear.                     *)
THEOREM SetIntExact ==
  ASSUME Sizes, NEW k \in Nat, k < 2^W
  PROVE  LET r == fe_set_int(k)
         IN  Element(r) /\ r.mag = 1 /\ r.norm = TRUE /\ Num(r.n) = k
<1>1. PICK B \in Nat, D \in Nat : B = 2^W /\ D = 2^T /\ B > 0 /\ D > 3 /\ MaxMag > 0 /\ MaxMag \in Nat
  <2>1. PICK B \in Nat, D \in Nat : B = 2^W /\ D = 2^T /\ B > 0 /\ MaxMag > 0 /\ MaxMag \in Nat /\ 4 * MaxMag + 3 <= D
    BY SizesOf
  <2> QED
    BY <2>1, SMT
<1>2. PICK n : n = [i \in Idx |-> IF i = 0 THEN k ELSE 0]
  OBVIOUS
<1>3. n[0] = k /\ n[1] = 0 /\ n[2] = 0 /\ n[3] = 0 /\ n[4] = 0
  BY <1>2, SMT DEF Idx
<1>4. CarriedLimbs(n) /\ LimbsOf(n)
  <2>1. n \in [Idx -> Nat]
    BY <1>2
  <2>2. \A i \in 0 .. 3 : n[i] < B
    BY <1>1, <1>3, SMT
  <2> QED
    BY <1>1, <2>1, <2>2 DEF CarriedLimbs, LimbsOf
<1>5. Num(n) = k
  <2>1. B * 0 = 0 /\ 0 + 0 = 0 /\ k + 0 = k
    BY SMT
  <2> QED
    BY <1>1, <1>3, <2>1 DEF Num, Five
<1>6. ~AtLeastP(n) /\ n[4] < 2^T
  <2>1. MT = D - 1
    BY <1>1 DEF MT
  <2>2. n[4] # MT
    BY <1>1, <1>3, <2>1, SMT
  <2> QED
    BY <1>1, <1>3, <2>2, SMT DEF AtLeastP
<1>7. Num(n) < Char
  <2>1. Num(n) \in Nat /\ Char \in Nat
    BY <1>4, NumType, CharOf
  <2>2. ~(Num(n) >= Char)
    BY <1>4, <1>6, AtLeastPExact
  <2> QED
    BY <2>1, <2>2, SMT
<1>8. Becomes(Fe(n, 1, TRUE, TRUE), n, 1, TRUE)
  BY <1>4, <1>6, <1>7, NormalElement
<1> QED
  BY <1>2, <1>5, <1>8 DEF Becomes, fe_set_int

(* fe_cmov: either operand's number, and flags that cover both.             *)
THEOREM CmovExact ==
  ASSUME Sizes, NEW r, Element(r), NEW a, Element(a), NEW flag \in BOOLEAN
  PROVE  LET c == fe_cmov(r, a, flag)
         IN  /\ Element(c) /\ r.mag <= c.mag /\ a.mag <= c.mag
             /\ Num(c.n) = IF flag THEN Num(a.n) ELSE Num(r.n)
<1>1. PICK n, g, e : n = (IF flag THEN a.n ELSE r.n) /\ g = r.mag /\ e = a.mag
  OBVIOUS
<1>2. PICK h : h = IF e > g THEN e ELSE g
  OBVIOUS
<1>3. /\ r \in [n : [Idx -> Nat], mag : Nat, norm : BOOLEAN, ok : BOOLEAN]
      /\ a \in [n : [Idx -> Nat], mag : Nat, norm : BOOLEAN, ok : BOOLEAN]
      /\ r.ok /\ a.ok
  BY DEF Element
<1>4. MaxMag \in Nat /\ g \in 0 .. MaxMag /\ e \in 0 .. MaxMag
  BY <1>1, Limits, SizesOf
<1>5. g \in Nat /\ e \in Nat /\ h \in Nat /\ h <= MaxMag /\ g <= h /\ e <= h
  BY <1>2, <1>4, SMT
<1>6. PICK k \in BOOLEAN : k = (r.norm /\ a.norm)
  OBVIOUS
<1>7. PICK c : c = fe_cmov(r, a, flag)
  OBVIOUS
<1>8. c = [n |-> n, mag |-> h, norm |-> k, ok |-> TRUE]
  <2>1. (r.ok /\ a.ok) = TRUE
    BY <1>3
  <2> QED
    BY <1>1, <1>2, <1>6, <1>7, <2>1 DEF fe_cmov
<1>9. c.n = n /\ c.mag = h /\ c.norm = k /\ c.ok = TRUE
  BY <1>8
<1>10. n \in [Idx -> Nat]
  BY <1>1, <1>3
<1>11. c \in [n : [Idx -> Nat], mag : Nat, norm : BOOLEAN, ok : BOOLEAN]
  BY <1>5, <1>8, <1>10
<1>12. h = 0 => \A i \in Idx : n[i] = 0
  <2>1. ASSUME h = 0 PROVE g = 0 /\ e = 0
    BY <1>5, <2>1, SMT
  <2> QED
    BY <1>1, <2>1 DEF Element
<1>13. fe_verify(c)
  <2>1. CASE k = TRUE
    <3>1. r.norm /\ a.norm
      BY <1>6, <2>1
    <3>2. /\ \A i \in Idx : n[i] \in 0 .. (IF i = 4 THEN MT ELSE M) * 1
          /\ ~AtLeastP(n) /\ g <= 1 /\ e <= 1
      BY <1>1, <3>1 DEF Element, fe_verify
    <3>3. h <= 1 /\ h \in 0 .. MaxMag
      BY <1>2, <1>4, <1>5, <3>2, SMT
    <3> QED
      BY <1>9, <2>1, <3>2, <3>3 DEF fe_verify
  <2>2. CASE k = FALSE
    <3>1. \A i \in Idx : n[i] \in Nat /\ Most(i) \in Nat /\ n[i] <= 2 * h * Most(i)
      <4>1. ASSUME NEW i \in Idx PROVE n[i] \in Nat /\ Most(i) \in Nat /\ n[i] <= 2 * h * Most(i)
        <5>1. /\ a.n[i] \in Nat /\ r.n[i] \in Nat /\ Most(i) \in Nat
              /\ a.n[i] <= 2 * e * Most(i) /\ r.n[i] <= 2 * g * Most(i)
          BY <1>1, MostOf
        <5>2. PICK y \in Nat, z \in Nat, p \in Nat : y = a.n[i] /\ z = r.n[i] /\ p = Most(i)
          BY <5>1
        <5>3. y <= 2 * e * p /\ z <= 2 * g * p
          BY <5>1, <5>2
        <5>4. 2 * e * p <= 2 * h * p /\ 2 * g * p <= 2 * h * p
          BY <1>5, SMT
        <5>5. 2 * e * p \in Nat /\ 2 * g * p \in Nat /\ 2 * h * p \in Nat
          BY <1>5, SMT
        <5>6. y <= 2 * h * p /\ z <= 2 * h * p
          BY <5>3, <5>4, <5>5, SMT
        <5>7. n[i] = y \/ n[i] = z
          BY <1>1, <5>2
        <5> QED
          BY <5>1, <5>2, <5>6, <5>7
      <4> QED
        BY <4>1
    <3>2. Becomes(Fe(n, h, FALSE, TRUE), n, h, FALSE)
      BY <1>5, <1>10, <3>1, LazyElement
    <3>3. PICK f : f = Fe(n, h, FALSE, TRUE)
      OBVIOUS
    <3>4. fe_verify(f) /\ f.n = n /\ f.mag = h /\ f.norm = FALSE
      BY <3>2, <3>3 DEF Becomes, Element
    <3> QED
      BY <1>9, <2>2, <3>4 DEF fe_verify
  <2> QED
    BY <2>1, <2>2
<1> QED
  BY <1>1, <1>5, <1>7, <1>9, <1>11, <1>12, <1>13 DEF Element
=============================================================================
