--------------------------- MODULE ModArithmetic ---------------------------
(***************************************************************************)
(* Facts about % used for the ring buffers: index arithmetic modulo the    *)
(* size of a ring, and a count kept modulo a multiple of that size.        *)
(***************************************************************************)
EXTENDS Integers, TLAPS

\* Division with remainder.
LEMMA DivMod ==
  ASSUME NEW n \in Nat \ {0}, NEW a \in Nat
  PROVE  /\ a \div n \in Nat
         /\ a % n \in 0 .. n - 1
         /\ a = (a \div n) * n + (a % n)
  BY SMT

\* The remainder is unique.
LEMMA ModUnique ==
  ASSUME NEW n \in Nat \ {0}, NEW k \in Nat, NEW r \in 0 .. n - 1,
         NEW a \in Nat, a = k * n + r
  PROVE  a % n = r
  BY Z3

LEMMA ModType ==
  ASSUME NEW n \in Nat \ {0}, NEW a \in Nat
  PROVE  a % n \in Nat
  BY SMT

LEMMA Distribute3 ==
  ASSUME NEW n \in Int, NEW i \in Int, NEW j \in Int, NEW k \in Int
  PROVE  (i + j + k) * n = i * n + j * n + k * n
  BY SMT

\* A number below the modulus is its own remainder.
LEMMA ModSmall ==
  ASSUME NEW n \in Nat \ {0}, NEW r \in 0 .. n - 1
  PROVE  r % n = r
  BY SMT

\* The remainder of the successor, as the code computes it: step and wrap.
LEMMA ModSucc ==
  ASSUME NEW n \in Nat \ {0}, NEW a \in Nat
  PROVE  (a + 1) % n = IF (a % n) + 1 >= n THEN 0 ELSE (a % n) + 1
<1> DEFINE k == a \div n
           r == a % n
<1>1. /\ k \in Nat /\ r \in 0 .. n - 1
      /\ a = k * n + r
  BY DivMod
<1> HIDE DEF k, r
<1>2. CASE r + 1 < n
  <2>1. a + 1 = k * n + (r + 1) /\ r + 1 \in 0 .. n - 1
    BY <1>1, <1>2
  <2>2. (a + 1) % n = r + 1
    BY <1>1, <2>1, ModUnique
  <2> QED BY <1>1, <1>2, <2>2 DEF r
<1>3. CASE r + 1 = n
  <2>1. a + 1 = (k + 1) * n + 0 /\ k + 1 \in Nat /\ 0 \in 0 .. n - 1
    BY <1>1, <1>3, SMT
  <2>2. \A b \in Nat : b = (k + 1) * n + 0 => b % n = 0
    BY <2>1, ModUnique
  <2>3. (a + 1) % n = 0
    BY <2>1, <2>2
  <2> QED BY <1>1, <1>3, <2>3 DEF r
<1> QED BY <1>1, <1>2, <1>3

\* Whole laps do not change the remainder.
LEMMA ModLaps ==
  ASSUME NEW n \in Nat \ {0}, NEW a \in Nat, NEW m \in Nat
  PROVE  (a + m * n) % n = a % n
<1> DEFINE k == a \div n
           r == a % n
<1>1. /\ k \in Nat /\ r \in 0 .. n - 1
      /\ a = k * n + r
  BY DivMod
<1> HIDE DEF k, r
<1>2. a + m * n = (k + m) * n + r /\ k + m \in Nat
  BY <1>1, SMT
<1>3. m * n \in Nat
  BY SMT
<1>4. (a + m * n) % n = r
  BY <1>1, <1>2, <1>3, ModUnique
<1> QED BY <1>4 DEF r

-----------------------------------------------------------------------------
(* Congruence: sums of remainders.                                         *)

Congruent(n, a, b) == \E k \in Int : a = b + k * n

LEMMA CongruentMod ==
  ASSUME NEW n \in Nat \ {0}, NEW a \in Nat
  PROVE  Congruent(n, a % n, a)
<1> DEFINE k == a \div n
           r == a % n
<1>1. k \in Nat /\ r \in 0 .. n - 1 /\ a = k * n + r
  BY DivMod
<1> HIDE DEF k, r
<1>2. -k \in Int /\ r = a + (-k) * n
  BY <1>1
<1> QED BY <1>2 DEF Congruent, r

LEMMA CongruentSym ==
  ASSUME NEW n \in Nat, NEW a \in Int, NEW b \in Int, Congruent(n, a, b)
  PROVE  Congruent(n, b, a)
<1>1. PICK k \in Int : a = b + k * n
  BY DEF Congruent
<1>2. -k \in Int /\ b = a + (-k) * n
  BY <1>1
<1> QED BY <1>2 DEF Congruent

LEMMA CongruentAdd ==
  ASSUME NEW n \in Nat, NEW a \in Int, NEW b \in Int, NEW c \in Int, NEW d \in Int,
         Congruent(n, a, b), Congruent(n, c, d)
  PROVE  Congruent(n, a + c, b + d)
<1>1. PICK k \in Int : a = b + k * n
  BY DEF Congruent
<1>2. PICK l \in Int : c = d + l * n
  BY DEF Congruent
<1>3. k + l \in Int /\ a + c = (b + d) + (k + l) * n
  BY <1>1, <1>2
<1> QED BY <1>3 DEF Congruent

LEMMA CongruentTrans ==
  ASSUME NEW n \in Nat, NEW a \in Int, NEW b \in Int, NEW c \in Int,
         Congruent(n, a, b), Congruent(n, b, c)
  PROVE  Congruent(n, a, c)
<1>1. PICK k \in Int : a = b + k * n
  BY DEF Congruent
<1>2. PICK l \in Int : b = c + l * n
  BY DEF Congruent
<1>3. k + l \in Int /\ a = c + (k + l) * n
  BY <1>1, <1>2
<1> QED BY <1>3 DEF Congruent

LEMMA CongruentRefl ==
  ASSUME NEW n \in Nat, NEW a \in Int
  PROVE  Congruent(n, a, a)
<1>1. 0 \in Int /\ a = a + 0 * n
  OBVIOUS
<1> QED BY <1>1 DEF Congruent

\* Congruence modulo a multiple.
LEMMA CongruentDivisor ==
  ASSUME NEW n \in Nat, NEW m \in Nat, NEW w \in Nat, w = m * n,
         NEW a \in Int, NEW b \in Int, Congruent(w, a, b)
  PROVE  Congruent(n, a, b)
<1>1. PICK k \in Int : a = b + k * (m * n)
  BY DEF Congruent
<1>2. k * m \in Int /\ a = b + (k * m) * n
  BY <1>1
<1> QED BY <1>2 DEF Congruent

LEMMA CongruentRemainder ==
  ASSUME NEW n \in Nat \ {0}, NEW a \in Nat, NEW r \in 0 .. n - 1, Congruent(n, a, r)
  PROVE  a % n = r
<1>1. PICK k \in Int : a = r + k * n
  BY DEF Congruent
<1>2. k \in Nat
  BY <1>1
<1> QED BY <1>1, <1>2, ModUnique

\* Numbers less than a modulus apart have different remainders.
LEMMA ModDistinct ==
  ASSUME NEW n \in Nat \ {0}, NEW a \in Nat, NEW d \in 1 .. n - 1
  PROVE  (a + d) % n # a % n
<1> DEFINE k == a \div n
           r == a % n
<1>1. k \in Nat /\ r \in 0 .. n - 1 /\ a = k * n + r
  BY DivMod
<1> HIDE DEF k, r
<1>2. CASE r + d < n
  <2>1. a + d \in Nat /\ r + d \in 0 .. n - 1 /\ a + d = k * n + (r + d)
    BY <1>1, <1>2
  <2>2. (a + d) % n = r + d
    BY <1>1, <2>1, ModUnique
  <2> QED BY <1>1, <2>2 DEF r
<1>3. CASE r + d >= n
  <2>1. a + d \in Nat /\ r + d - n \in 0 .. n - 1
    BY <1>1, <1>3
  <2>2. (k + 1) * n = k * n + n
    BY <1>1, SMT
  <2>3. k + 1 \in Nat /\ a + d = (k + 1) * n + (r + d - n)
    <3>1. k * n \in Int
      BY <1>1
    <3> QED BY <1>1, <2>2, <3>1
  <2>4. (a + d) % n = r + d - n
    <3> DEFINE e == a + d
               l == k + 1
               v == r + d - n
    <3>1. e \in Nat /\ l \in Nat /\ v \in 0 .. n - 1 /\ e = l * n + v
      BY <2>1, <2>3
    <3> HIDE DEF e, l, v
    <3>2. e % n = v
      BY <3>1, ModUnique
    <3> QED BY <3>2 DEF e, v
  <2> QED BY <1>1, <2>4 DEF r
<1> QED BY <1>1, <1>2, <1>3

\* The remainder of a difference of two remainders, and of a sum with a number that
\* is at most one lap.
LEMMA ModDifference ==
  ASSUME NEW n \in Nat \ {0}, NEW i \in 0 .. n - 1, NEW b \in 0 .. n - 1
  PROVE  (i - b) % n = IF i >= b THEN i - b ELSE (i - b) + n
<1>1. CASE i >= b
  <2>1. i - b \in 0 .. n - 1
    BY <1>1
  <2> QED BY <1>1, <2>1, ModSmall
<1>2. CASE ~(i >= b)
  <2>1. /\ (i - b) + n \in 0 .. n - 1
        /\ i - b = (-1) * n + ((i - b) + n)
    BY <1>2
  <2>2. \A a \in Int, r \in 0 .. n - 1 : a = (-1) * n + r => a % n = r
    BY SMT
  <2>3. (i - b) % n = (i - b) + n
    BY <2>1, <2>2
  <2> QED BY <1>2, <2>3
<1> QED BY <1>1, <1>2

LEMMA ModSum ==
  ASSUME NEW n \in Nat \ {0}, NEW b \in 0 .. n - 1, NEW s \in 0 .. n
  PROVE  (b + s) % n = IF b + s < n THEN b + s ELSE (b + s) - n
<1>1. CASE b + s < n
  <2>1. b + s \in 0 .. n - 1
    BY <1>1
  <2> QED BY <1>1, <2>1, ModSmall
<1>2. CASE ~(b + s < n)
  <2>1. /\ (b + s) - n \in 0 .. n - 1
        /\ b + s = 1 * n + ((b + s) - n)
    BY <1>2
  <2>2. \A a \in Nat, r \in 0 .. n - 1 : a = 1 * n + r => a % n = r
    BY ModUnique
  <2>3. (b + s) % n = (b + s) - n
    BY <2>1, <2>2
  <2> QED BY <1>2, <2>3
<1> QED BY <1>1, <1>2

\* The distance from b + s to slot i, counted around the ring: s less than the
\* distance from b, or a lap more than that.
LEMMA ModShift ==
  ASSUME NEW n \in Nat \ {0}, NEW i \in 0 .. n - 1, NEW b \in 0 .. n - 1,
         NEW s \in 0 .. n
  PROVE  /\ (i - b) % n \in 0 .. n - 1
         /\ (b + s) % n \in 0 .. n - 1
         /\ (i - ((b + s) % n)) % n =
              IF (i - b) % n >= s THEN ((i - b) % n) - s ELSE (((i - b) % n) - s) + n
<1> DEFINE c == (b + s) % n
<1>0. c = (IF b + s < n THEN b + s ELSE (b + s) - n)
  BY ModSum
<1> HIDE DEF c
<1>1. c = (IF b + s < n THEN b + s ELSE (b + s) - n) /\ c \in 0 .. n - 1
  BY <1>0
<1>2. (i - c) % n = IF i >= c THEN i - c ELSE (i - c) + n
  BY <1>1, ModDifference
<1>3. (i - b) % n = IF i >= b THEN i - b ELSE (i - b) + n
  BY ModDifference
<1>4. /\ (i - b) % n \in 0 .. n - 1
      /\ (i - c) % n = IF (i - b) % n >= s THEN ((i - b) % n) - s ELSE (((i - b) % n) - s) + n
  BY <1>1, <1>2, <1>3
<1> QED BY <1>1, <1>4 DEF c
=============================================================================
