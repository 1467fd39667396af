------------------------- MODULE CounterArithmetic -------------------------
(***************************************************************************)
(* Facts about unsigned counters that wrap at m and index n slots with     *)
(* m a multiple of n: the arithmetic under every ring buffer of LabStor.   *)
(***************************************************************************)
EXTENDS Integers, TLAPS

\* Quotient and remainder of a division by n.
LEMMA ModDef ==
  ASSUME NEW a \in Int, NEW n \in Nat \ {0}
  PROVE  /\ a % n \in 0 .. n - 1
         /\ a \div n \in Int
         /\ a = n * (a \div n) + (a % n)
BY SMT

\* A nonzero multiple of n is at least n away from zero.
LEMMA MulBound ==
  ASSUME NEW q \in Int, NEW n \in Nat \ {0}
  PROVE  (q >= 1 => n * q >= n) /\ (q <= -1 => n * q <= -n)
BY SMT

\* Quotient and remainder are unique.
LEMMA DivisionUnique ==
  ASSUME NEW n \in Nat \ {0},
         NEW q \in Int, NEW r \in 0 .. n - 1,
         NEW p \in Int, NEW s \in 0 .. n - 1,
         n * q + r = n * p + s
  PROVE  q = p /\ r = s
<1>1. n * (q - p) = s - r
  BY SMT
<1>2. q - p < 1
  BY <1>1, MulBound, SMT
<1>3. q - p > -1
  BY <1>1, MulBound, SMT
<1> QED
  BY <1>1, <1>2, <1>3, SMT

\* How a remainder is recognised.
LEMMA ModUnique ==
  ASSUME NEW n \in Nat \ {0}, NEW a \in Int,
         NEW q \in Int, NEW r \in 0 .. n - 1,
         a = n * q + r
  PROVE  a % n = r
BY ModDef, DivisionUnique

\* Remainders of numbers less than one period outside 0 .. n - 1.
LEMMA ModSmall ==
  ASSUME NEW n \in Nat \ {0}, NEW a \in Int
  PROVE  /\ 0 <= a /\ a < n => a % n = a
         /\ n <= a /\ a < 2 * n => a % n = a - n
         /\ -n <= a /\ a < 0 => a % n = a + n
<1>1. ASSUME 0 <= a, a < n PROVE a % n = a
  <2>1. a \in 0 .. n - 1 /\ a = n * 0 + a
    BY <1>1, SMT
  <2> QED
    BY <2>1, ModUnique
<1>2. ASSUME n <= a, a < 2 * n PROVE a % n = a - n
  <2>1. a - n \in 0 .. n - 1 /\ a = n * 1 + (a - n)
    BY <1>2, SMT
  <2> QED
    BY <2>1, ModUnique
<1>3. ASSUME -n <= a, a < 0 PROVE a % n = a + n
  <2>1. a + n \in 0 .. n - 1 /\ a = n * (-1) + (a + n)
    BY <1>3, SMT
  <2> QED
    BY <2>1, ModUnique
<1> QED
  BY <1>1, <1>2, <1>3

\* ++counter.
LEMMA Successor ==
  ASSUME NEW m \in Nat \ {0}, NEW e \in 0 .. m - 1
  PROVE  (e + 1) % m = IF e + 1 = m THEN 0 ELSE e + 1
<1>1. e + 1 < m => (e + 1) % m = e + 1
  BY ModSmall, SMT
<1>2. e + 1 = m => (e + 1) % m = 0
  <2>1. m <= m /\ m < 2 * m => m % m = m - m
    BY ModSmall
  <2> QED
    BY <2>1, SMT
<1> QED
  BY <1>1, <1>2, SMT

\* enqueued_ - dequeued_ as unsigned integers.
LEMMA Distance ==
  ASSUME NEW m \in Nat \ {0}, NEW e \in 0 .. m - 1, NEW d \in 0 .. m - 1
  PROVE  (e - d) % m = IF d <= e THEN e - d ELSE e - d + m
<1>1. d <= e => (e - d) % m = e - d
  BY ModSmall, SMT
<1>2. d > e => (e - d) % m = e - d + m
  BY ModSmall, SMT
<1> QED
  BY <1>1, <1>2, SMT

\* The producer's increment adds one to the distance.
LEMMA DistanceUp ==
  ASSUME NEW m \in Nat \ {0}, NEW e \in 0 .. m - 1, NEW d \in 0 .. m - 1,
         (e - d) % m < m - 1
  PROVE  /\ (e + 1) % m \in 0 .. m - 1
         /\ (((e + 1) % m) - d) % m = ((e - d) % m) + 1
<1> DEFINE f == IF e + 1 = m THEN 0 ELSE e + 1
<1>1. f \in 0 .. m - 1
  BY SMT
<1>2. (e + 1) % m = f
  BY Successor
<1>3. (f - d) % m = IF d <= f THEN f - d ELSE f - d + m
  BY <1>1, Distance
<1>4. (e - d) % m = IF d <= e THEN e - d ELSE e - d + m
  BY Distance
<1> QED
  BY <1>1, <1>2, <1>3, <1>4, SMT

\* The consumer's increment takes one off the distance.
LEMMA DistanceDown ==
  ASSUME NEW m \in Nat \ {0}, NEW e \in 0 .. m - 1, NEW d \in 0 .. m - 1,
         e # d,
         NEW f \in Int, f = (d + 1) % m
  PROVE  f \in 0 .. m - 1 /\ (e - f) % m = ((e - d) % m) - 1
<1>1. f = (IF d + 1 = m THEN 0 ELSE d + 1) /\ f \in 0 .. m - 1
  BY Successor, SMT
<1>2. (e - f) % m = IF f <= e THEN e - f ELSE e - f + m
  BY <1>1, Distance
<1>3. (e - d) % m = IF d <= e THEN e - d ELSE e - d + m
  BY Distance
<1> QED
  BY <1>1, <1>2, <1>3, SMT

\* The counter k steps on.
LEMMA Shift ==
  ASSUME NEW m \in Nat \ {0}, NEW d \in 0 .. m - 1, NEW k \in 0 .. m - 1
  PROVE  /\ (d + k) % m = IF d + k < m THEN d + k ELSE d + k - m
         /\ (d + k) % m \in 0 .. m - 1
<1> DEFINE a == d + k
<1>1. a \in Int /\ 0 <= a /\ a < 2 * m
  BY SMT
<1>2. /\ 0 <= a /\ a < m => a % m = a
      /\ m <= a /\ a < 2 * m => a % m = a - m
  BY <1>1, ModSmall
<1> HIDE DEF a
<1>3. a % m = (IF a < m THEN a ELSE a - m) /\ a % m \in 0 .. m - 1
  BY <1>1, <1>2, SMT
<1> QED
  BY <1>3 DEF a

\* Advancing the consumer's counter by the distance reaches the producer's,
\* and every step of the way takes one off the distance left.
LEMMA DistanceLeft ==
  ASSUME NEW m \in Nat \ {0}, NEW e \in 0 .. m - 1, NEW d \in 0 .. m - 1,
         NEW delta \in Int, delta = (e - d) % m,
         NEW k \in 0 .. delta,
         NEW x \in Int, x = (d + k) % m
  PROVE  (e - x) % m = delta - k /\ (k = delta => x = e)
<1>1. delta = IF d <= e THEN e - d ELSE e - d + m
  BY Distance
<1>2. k \in 0 .. m - 1
  BY <1>1, SMT
<1>3. x = (IF d + k < m THEN d + k ELSE d + k - m) /\ x \in 0 .. m - 1
  BY <1>2, Shift
<1>4. (e - x) % m = IF x <= e THEN e - x ELSE e - x + m
  BY <1>3, Distance
<1> QED
  BY <1>1, <1>2, <1>3, <1>4, SMT

\* One step and then k steps are k + 1 steps.
LEMMA ShiftSuccessor ==
  ASSUME NEW m \in Nat \ {0}, NEW d \in 0 .. m - 1, NEW k \in 0 .. m - 2
  PROVE  (((d + 1) % m) + k) % m = (d + (k + 1)) % m
<1> DEFINE f == IF d + 1 = m THEN 0 ELSE d + 1
<1>1. f \in 0 .. m - 1 /\ k \in 0 .. m - 1 /\ k + 1 \in 0 .. m - 1
  BY SMT
<1>2. (d + 1) % m = f
  BY Successor
<1>3. (f + k) % m = IF f + k < m THEN f + k ELSE f + k - m
  BY <1>1, Shift
<1>4. (d + (k + 1)) % m = IF d + (k + 1) < m THEN d + (k + 1) ELSE d + (k + 1) - m
  BY <1>1, Shift
<1> QED
  BY <1>1, <1>2, <1>3, <1>4, SMT

\* Counter values less than n apart index different slots, across a wrap too,
\* because the number of slots divides the period of the counters.
LEMMA SlotsDiffer ==
  ASSUME NEW m \in Nat \ {0}, NEW n \in Nat \ {0}, m % n = 0,
         NEW x \in 0 .. m - 1, NEW y \in 0 .. m - 1,
         0 < (y - x) % m, (y - x) % m < n
  PROVE  x % n # y % n
<1> SUFFICES ASSUME x % n = y % n PROVE FALSE
  OBVIOUS
<1> DEFINE k == m \div n
           p == y \div n - x \div n
           delta == (y - x) % m
<1>1. k \in Int /\ m = n * k
  BY ModDef, SMT
<1>2. p \in Int /\ y - x = n * p
  <2>1. y = n * (y \div n) + (y % n) /\ y \div n \in Int
    BY ModDef
  <2>2. x = n * (x \div n) + (x % n) /\ x \div n \in Int
    BY ModDef
  <2> QED
    BY <2>1, <2>2, SMT
<1>3. delta = y - x \/ delta = y - x + m
  BY Distance, SMT
<1>4. delta = n * p \/ delta = n * (p + k)
  <2>1. n * (p + k) = n * p + n * k
    BY <1>1, <1>2, SMT
  <2> QED
    BY <1>1, <1>2, <1>3, <2>1, SMT
<1>5. \A j \in Int : n * j <= 0 \/ n * j >= n
  BY MulBound, SMT
<1> QED
  <2>1. n * p <= 0 \/ n * p >= n
    BY <1>2, <1>5
  <2>2. n * (p + k) <= 0 \/ n * (p + k) >= n
    BY <1>1, <1>2, <1>5
  <2>3. delta <= 0 \/ delta >= n
    BY <1>4, <2>1, <2>2
  <2> QED
    BY <2>3, ModDef, SMT
=============================================================================
