---------------------------- MODULE CommandFsmProofs ----------------------------
(***************************************************************************)
(* What the command machine promises the slot, for every width of the      *)
(* timestamps, every depth of the FIFO and every set of offsets.           *)
(***************************************************************************)
EXTENDS CommandFsm, TLAPS

(***************************************************************************)
(* Arithmetic of quotients and remainders.                                 *)
(***************************************************************************)
LEMMA Product ==
    ASSUME NEW k \in Int, NEW w \in Int, k >= 1, w > 0
    PROVE  k * w >= w
<1>1. (k - 1) * w >= 0
    OBVIOUS
<1>2. (k - 1) * w = k * w - w
    OBVIOUS
<1> QED BY <1>1, <1>2

LEMMA DivMod ==
    ASSUME NEW v \in Int, NEW w \in Int, w > 0
    PROVE  /\ v \div w \in Int
           /\ v % w \in 0..(w - 1)
           /\ v = (v \div w) * w + (v % w)
OBVIOUS

\* A multiple of w that is less than 2w away from 0 is -w, 0 or w.
LEMMA Carry ==
    ASSUME NEW m \in Int, NEW w \in Int, NEW e \in Int,
           m * w = e, -(2 * w) < e, e < 2 * w, w > 0
    PROVE  /\ m \in {-1, 0, 1}
           /\ m = 1 <=> e = w
           /\ m = -1 <=> e = -w
           /\ m = 0 <=> e = 0
<1>1. m < 2
  <2> SUFFICES ASSUME m >= 2 PROVE FALSE
     OBVIOUS
  <2>1. (m - 1) * w >= w
     BY Product
  <2>2. (m-1)*w = m*w - w
     OBVIOUS
  <2> QED BY <2>1, <2>2
<1>2. m > -2
  <2> SUFFICES ASSUME m <= -2 PROVE FALSE
     OBVIOUS
  <2>1. (-m - 1) * w >= w
     BY Product
  <2>2. (-m-1)*w = -(m*w) - w
     OBVIOUS
  <2> QED BY <2>1, <2>2
<1>3. m \in {-1, 0, 1}
  BY <1>1, <1>2
<1>4. CASE m = 1
  BY <1>4
<1>5. CASE m = 0
  BY <1>5
<1>6. CASE m = -1
  <2>1. m * w = -w
     BY <1>6
  <2> QED BY <2>1, <1>6
<1> QED BY <1>3, <1>4, <1>5, <1>6

\* Quotient and remainder are the only numbers that make up a sum of this form.
LEMMA DivUnique ==
    ASSUME NEW q \in Int, NEW w \in Int, w > 0, NEW r \in 0..(w - 1)
    PROVE  (q * w + r) \div w = q /\ (q * w + r) % w = r
<1> DEFINE v == q * w + r
           p == v \div w
           s == v % w
<1>1. v \in Int /\ p \in Int /\ s \in 0..(w-1) /\ v = p * w + s
  BY DivMod
<1> HIDE DEF p, s
<1>2. (p - q) * w = r - s
  BY <1>1
<1>3. p - q = 0
  BY <1>1, <1>2, Carry
<1>4. p = q
  BY <1>1, <1>3
<1>5. s = r
  BY <1>1, <1>4
<1> QED BY <1>4, <1>5 DEF p, s

-------------------------------------------------------------------------------
(***************************************************************************)
(* Quarters of a timestamp.  Prefix(v, j) is what stands above quarter j:  *)
(* the part found equal when the timer compares quarter j.                 *)
(***************************************************************************)
Digits == 0..(Base - 1)
Span == Top * Base
Prefix(v, j) == v \div (Weight[j + 1] * Base)

LEMMA BaseFacts ==
    /\ Base \in Int /\ Base >= 4
    /\ Base \div 2 \in Int /\ Base = 2 * (Base \div 2)
BY BaseAssumption

LEMMA WeightFacts ==
    /\ \A j \in 0..3 : Weight[j + 1] \in Int /\ Weight[j + 1] > 0
    /\ \A j \in 0..2 : Weight[j + 1] = Weight[j + 2] * Base
    /\ Weight[1] = Top
    /\ Weight[4] = 1
    /\ \A j \in 0..2 : Weight[j + 1] >= Base
    /\ \A j \in 1..3 : Weight[j + 1] * Base <= Top
    /\ Top \in Int /\ Span \in Int
    /\ Top >= Base /\ Span >= 4 * Top /\ Span = Weight[1] * Base
<1>1. Base * Base \in Int /\ Base * Base >= Base
  <2>1. Base * Base >= Base
      BY BaseFacts, Product
  <2> QED BY <2>1, BaseFacts
<1>2. Top \in Int /\ Top >= Base * Base
  <2>1. (Base * Base) * Base \in Int /\ Base * (Base * Base) >= Base * Base
      BY BaseFacts, <1>1, Product
  <2>2. Base * (Base * Base) = (Base * Base) * Base
      BY BaseFacts
  <2> QED BY <2>1, <2>2 DEF Top
<1>3. Span \in Int /\ Span >= 4 * Top
  <2>1. (Base - 3) * Top >= Top
      BY BaseFacts, <1>1, <1>2, Product
  <2>2. (Base - 3) * Top = Top * Base - 3 * Top
      BY BaseFacts, <1>2
  <2> QED BY <2>1, <2>2, <1>2, BaseFacts DEF Span
<1>4. /\ Weight[1] = Top /\ Weight[2] = Base * Base /\ Weight[3] = Base /\ Weight[4] = 1
    BY DEF Weight
<1>5. Top = (Base * Base) * Base
    BY DEF Top
<1>6. Base \in Int /\ Base >= 4
    BY BaseFacts
<1>7. \A j \in 0..3 : j = 0 \/ j = 1 \/ j = 2 \/ j = 3
    OBVIOUS
<1>8. ASSUME NEW j \in 0..3
      PROVE  /\ Weight[j + 1] \in Int /\ Weight[j + 1] > 0
             /\ j # 3 => Weight[j + 1] >= Base /\ Weight[j + 1] = Weight[j + 2] * Base
             /\ j # 0 => Weight[j + 1] * Base <= Top
  <2>1. CASE j = 0
      <3>1. Weight[j + 1] = Top /\ Weight[j + 2] = Base * Base
          BY <2>1, <1>4
      <3> QED BY <3>1, <2>1, <1>1, <1>2, <1>5, <1>6
  <2>2. CASE j = 1
      <3>1. Weight[j + 1] = Base * Base /\ Weight[j + 2] = Base
          BY <2>2, <1>4
      <3> QED BY <3>1, <2>2, <1>1, <1>2, <1>5, <1>6
  <2>3. CASE j = 2
      <3>1. Weight[j + 1] = Base /\ Weight[j + 2] = 1
          BY <2>3, <1>4
      <3> QED BY <3>1, <2>3, <1>1, <1>2, <1>6
  <2>4. CASE j = 3
      <3>1. Weight[j + 1] = 1
          BY <2>4, <1>4
      <3> QED BY <3>1, <2>4, <1>1, <1>2, <1>6
  <2> QED BY <2>1, <2>2, <2>3, <2>4
<1> HIDE DEF Weight, Span, Top
<1>9. Span = Weight[1] * Base
    BY <1>4 DEF Span
<1> QED BY <1>1, <1>2, <1>3, <1>4, <1>6, <1>8, <1>9

\* A timestamp taken apart at quarter j.
LEMMA Split ==
    ASSUME NEW v \in Int, NEW j \in 0..3
    PROVE  /\ Prefix(v, j) \in Int
           /\ Quarter(v, j) \in Digits
           /\ v % Weight[j + 1] \in 0..(Weight[j + 1] - 1)
           /\ v \div Weight[j + 1] = Prefix(v, j) * Base + Quarter(v, j)
           /\ v = Prefix(v, j) * (Weight[j + 1] * Base)
                    + (Quarter(v, j) * Weight[j + 1] + (v % Weight[j + 1]))
<1> DEFINE w == Weight[j + 1]
           q == v \div w
           r == v % w
           p == q \div Base
           d == q % Base
<1>1. w \in Int /\ w > 0 /\ Base \in Int /\ Base > 0
    BY WeightFacts, BaseFacts
<1> HIDE DEF w
<1>2. q \in Int /\ r \in 0..(w - 1) /\ v = q * w + r
    BY <1>1, DivMod
<1> HIDE DEF q, r
<1>3. p \in Int /\ d \in 0..(Base - 1) /\ q = p * Base + d
    BY <1>1, <1>2, DivMod
<1> HIDE DEF p, d
<1>4. q * w = p * (w * Base) + d * w
    BY <1>1, <1>3
<1>5. v = p * (w * Base) + (d * w + r)
    BY <1>1, <1>2, <1>3, <1>4
<1>6. d * w + r \in 0..(w * Base - 1)
  <2>1. (Base - d) * w >= w
      BY <1>1, <1>3, Product
  <2>2. (Base - d) * w = w * Base - d * w
      BY <1>1, <1>3
  <2>3. d * w >= 0 /\ d * w \in Int
      BY <1>1, <1>3
  <2> QED BY <1>1, <1>2, <1>3, <2>1, <2>2, <2>3
<1>7. w * Base \in Int /\ w * Base > 0
    BY <1>1
<1>8. v \div (w * Base) = p
    BY <1>3, <1>5, <1>6, <1>7, DivUnique
<1> QED BY <1>2, <1>3, <1>5, <1>8 DEF Prefix, Quarter, Digits, w, q, r, p, d

\* One more quarter found equal.
LEMMA PrefixGrows ==
    ASSUME NEW v \in Int, NEW j \in 0..2
    PROVE  Prefix(v, j + 1) = Prefix(v, j) * Base + Quarter(v, j)
<1>1. Weight[j + 1 + 1] * Base = Weight[j + 1]
    BY WeightFacts
<1>2. j \in 0..3
    OBVIOUS
<1>3. v \div Weight[j + 1] = Prefix(v, j) * Base + Quarter(v, j)
    BY <1>2, Split
<1> QED BY <1>1, <1>3 DEF Prefix

\* Nothing stands above the top quarter.
LEMMA NoPrefix ==
    ASSUME NEW v \in Times
    PROVE  Prefix(v, 0) = 0
<1>1. Times = 0..(Span - 1) /\ Weight[0 + 1] * Base = Span
    BY WeightFacts DEF Times, Span
<1>2. Span \in Int /\ Span > 0 /\ v \in 0..(Span - 1) /\ v = 0 * Span + v
    BY <1>1, WeightFacts, BaseFacts
<1>3. v \div Span = 0
    BY <1>2, DivUnique
<1> QED BY <1>1, <1>3 DEF Prefix

\* Times wrap around at Span.
LEMMA Wraps ==
    ASSUME NEW c \in Times, NEW a \in Int, -Top < a, a < Top
    PROVE  \E k \in {-1, 0, 1} : /\ (c + a) % Span = c + a + k * Span
                                 /\ c + a + k * Span \in Times
<1>1. Times = 0..(Span - 1) /\ Span \in Int /\ Top \in Int /\ Top > 0 /\ Span >= 4 * Top
    BY WeightFacts, BaseFacts DEF Times, Span
<1> HIDE DEF Span, Top, Times
<1>2. CASE c + a < 0
  <2>1. c + a + Span \in 0..(Span - 1)
      BY <1>1, <1>2
  <2>2. ((-1) * Span + (c + a + Span)) % Span = c + a + Span
      BY <1>1, <2>1, DivUnique
  <2>3. (-1) * Span + (c + a + Span) = c + a
      BY <1>1
  <2> QED BY <1>1, <2>1, <2>2, <2>3
<1>3. CASE c + a >= Span
  <2>1. c + a - Span \in 0..(Span - 1)
      BY <1>1, <1>3
  <2>2. (1 * Span + (c + a - Span)) % Span = c + a - Span
      BY <1>1, <2>1, DivUnique
  <2>3. 1 * Span + (c + a - Span) = c + a
      BY <1>1
  <2> QED BY <1>1, <2>1, <2>2, <2>3
<1>4. CASE c + a \in 0..(Span - 1)
  <2>1. (0 * Span + (c + a)) % Span = c + a
      BY <1>1, <1>4, DivUnique
  <2>2. 0 * Span + (c + a) = c + a
      BY <1>1
  <2> QED BY <1>1, <1>4, <2>1, <2>2
<1> QED BY <1>1, <1>2, <1>3, <1>4

\* A tick of the clock leaves the time that is due where it was.
LEMMA Ticks ==
    ASSUME NEW c \in Times, NEW a \in Int
    PROVE  /\ (c + 1) % Span \in Times
           /\ (((c + 1) % Span) + (a - 1)) % Span = (c + a) % Span
<1>1. Times = 0..(Span - 1) /\ Span \in Int /\ Span > 0
    BY WeightFacts, BaseFacts DEF Times, Span
<1> HIDE DEF Span, Times
<1>2. c + 1 \in Int /\ c + a \in Int
    BY <1>1
<1> DEFINE p == (c + 1) \div Span
           r == (c + 1) % Span
           q == (c + a) \div Span
           s == (c + a) % Span
<1>3. p \in Int /\ r \in 0..(Span - 1) /\ c + 1 = p * Span + r
    BY <1>1, <1>2, DivMod
<1>4. q \in Int /\ s \in 0..(Span - 1) /\ c + a = q * Span + s
    BY <1>1, <1>2, DivMod
<1> HIDE DEF p, q, r, s
<1>5. r + (a - 1) = (q - p) * Span + s
  <2>1. (q - p) * Span = q * Span - p * Span
      BY <1>1, <1>3, <1>4
  <2>2. q * Span \in Int /\ p * Span \in Int
      BY <1>1, <1>3, <1>4
  <2> QED BY <2>1, <2>2, <1>1, <1>3, <1>4
<1>6. (r + (a - 1)) % Span = s
  <2>1. q - p \in Int
      BY <1>3, <1>4
  <2>2. ((q - p) * Span + s) % Span = s
      BY <2>1, <1>1, <1>4, DivUnique
  <2> QED BY <1>5, <2>2
<1> QED BY <1>1, <1>3, <1>6 DEF r, s

\* The register shifted up by a quarter shows the quarters below the top one.
LEMMA ShiftedQuarters ==
    ASSUME NEW v \in Int, NEW i \in 0..2
    PROVE  Quarter(Shifted(v), i) = Quarter(v, i + 1)
<1> DEFINE w == Weight[i + 2]
           u == v % Top
           h == v \div Top
           b == v % Base
<1>1. /\ w \in Int /\ w > 0 /\ Weight[i + 1] = w * Base
      /\ Weight[(i + 1) + 1] = w
      /\ Base \in Int /\ Base > 0 /\ Top \in Int /\ Top > 0
  <2>1. i + 1 \in 0..3 /\ i + 1 + 1 = i + 2
      OBVIOUS
  <2> QED BY <2>1, WeightFacts, BaseFacts
<1>2. \E l \in Int : Top = (l * Base) * w
  <2>1. CASE i = 0
      <3>1. w = Base * Base
          BY <2>1 DEF Weight
      <3>2. Top = (1 * Base) * w
          BY <3>1, BaseFacts DEF Top
      <3> QED BY <3>2
  <2>2. CASE i = 1
      <3>1. w = Base
          BY <2>2 DEF Weight
      <3>2. Top = (Base * Base) * w
          BY <3>1, BaseFacts DEF Top
      <3> QED BY <3>2, BaseFacts
  <2>3. CASE i = 2
      <3>1. w = 1
          BY <2>3 DEF Weight
      <3>2. Top = ((Base * Base) * Base) * w
          BY <3>1, BaseFacts DEF Top
      <3>3. Base * Base \in Int
          BY BaseFacts
      <3> QED BY <3>2, <3>3
  <2> QED BY <2>1, <2>2, <2>3
<1>3. PICK l \in Int : Top = (l * Base) * w
    BY <1>2
<1> HIDE DEF w
<1>4. h \in Int /\ u \in 0..(Top - 1) /\ v = h * Top + u
    BY <1>1, DivMod
<1>5. b \in 0..(Base - 1)
    BY <1>1, DivMod
<1> HIDE DEF u, h, b
<1> DEFINE q == u \div w
           r == u % w
<1>6. q \in Int /\ r \in 0..(w - 1) /\ u = q * w + r
    BY <1>1, <1>4, DivMod
<1> HIDE DEF q, r
<1>7. Quarter(Shifted(v), i) = q % Base
  <2>1. Shifted(v) = u * Base + b
      BY DEF Shifted, u, b
  <2>2. u * Base + b = q * (w * Base) + (r * Base + b)
      BY <1>1, <1>5, <1>6
  <2>3. r * Base + b \in 0..(w * Base - 1)
    <3>1. (w - r) * Base >= Base
        BY <1>1, <1>6, Product
    <3>2. (w - r) * Base = w * Base - r * Base
        BY <1>1, <1>6
    <3>3. r * Base >= 0 /\ r * Base \in Int /\ w * Base \in Int
        BY <1>1, <1>6
    <3> QED BY <3>1, <3>2, <3>3, <1>1, <1>5
  <2>4. w * Base \in Int /\ w * Base > 0
      BY <1>1
  <2>5. (q * (w * Base) + (r * Base + b)) \div (w * Base) = q
      BY <2>3, <2>4, <1>6, DivUnique
  <2> QED BY <2>1, <2>2, <2>5, <1>1 DEF Quarter
<1>8. Quarter(v, i + 1) = q % Base
  <2>1. (h * l) * Base + q \in Int /\ h * l \in Int
      BY <1>1, <1>3, <1>4, <1>6
  <2>2. v = ((h * l) * Base + q) * w + r
    <3>1. h * Top = ((h * l) * Base) * w
        BY <1>1, <1>3, <1>4
    <3>2. (h * l) * Base \in Int
        BY <1>1, <2>1
    <3>3. ((h * l) * Base + q) * w = ((h * l) * Base) * w + q * w
        BY <1>1, <1>6, <3>2
    <3> QED BY <3>1, <3>2, <3>3, <1>1, <1>4, <1>6
  <2>3. v \div w = (h * l) * Base + q
      BY <2>1, <2>2, <1>1, <1>6, DivUnique
  <2>4. ((h * l) * Base + q) % Base = q % Base
    <3> DEFINE x == q \div Base
               y == q % Base
    <3>1. x \in Int /\ y \in 0..(Base - 1) /\ q = x * Base + y
        BY <1>1, <1>6, DivMod
    <3> HIDE DEF x, y
    <3>2. (h * l) * Base + q = (h * l + x) * Base + y
        BY <2>1, <3>1, <1>1
    <3>3. ((h * l + x) * Base + y) % Base = y
      <4>1. h * l + x \in Int
          BY <2>1, <3>1
      <4> QED BY <4>1, <3>1, <1>1, DivUnique
    <3> QED BY <3>2, <3>3 DEF y
  <2> QED BY <2>3, <2>4, <1>1 DEF Quarter
<1> QED BY <1>7, <1>8

\* Nothing is shifted out of the register's width.
LEMMA ShiftedFits ==
    ASSUME NEW v \in Int
    PROVE  Shifted(v) \in Times
<1> DEFINE u == v % Top
           b == v % Base
<1>1. u \in 0..(Top - 1) /\ b \in 0..(Base - 1)
    BY DivMod, WeightFacts, BaseFacts
<1> HIDE DEF u, b
<1>2. (Top - u) * Base >= Base
    BY <1>1, WeightFacts, BaseFacts, Product
<1>3. (Top - u) * Base = Span - u * Base
    BY <1>1, WeightFacts, BaseFacts DEF Span
<1>4. u * Base \in Int /\ u * Base >= 0
    BY <1>1, WeightFacts, BaseFacts
<1>5. u * Base + b \in 0..(Span - 1)
    BY <1>1, <1>2, <1>3, <1>4, WeightFacts, BaseFacts
<1> QED BY <1>5 DEF Shifted, Times, Span, u, b

\* A difference of quarters, modulo their width.
LEMMA DigitDifference ==
    ASSUME NEW t \in Digits, NEW c \in Digits, NEW m \in Int, NEW k \in Int,
           t - c = m + k * Base
    PROVE  /\ m \in 0..(Base - 1) => (t + Base - c) % Base = m
           /\ m \in -(Base - 1)..(-1) => (t + Base - c) % Base = m + Base
<1>1. Base \in Int /\ Base > 0 /\ t \in Int /\ c \in Int
    BY BaseFacts DEF Digits
<1>2. ASSUME m \in 0..(Base - 1)
      PROVE  (t + Base - c) % Base = m
  <2>1. t + Base - c = (k + 1) * Base + m
      BY <1>1
  <2>2. ((k + 1) * Base + m) % Base = m
      BY <1>1, <1>2, DivUnique
  <2> QED BY <2>1, <2>2
<1>3. ASSUME m \in -(Base - 1)..(-1)
      PROVE  (t + Base - c) % Base = m + Base
  <2>1. t + Base - c = k * Base + (m + Base)
      BY <1>1
  <2>2. m + Base \in 0..(Base - 1)
      BY <1>1, <1>3
  <2>3. (k * Base + (m + Base)) % Base = m + Base
      BY <1>1, <2>2, DivUnique
  <2> QED BY <2>1, <2>3
<1> QED BY <1>2, <1>3

\* What the comparator finds, a ticks before the time t is due.
LEMMA Comparison ==
    ASSUME NEW c \in Times, NEW a \in -(Base \div 2)..(Base \div 2), NEW j \in 0..3,
           NEW t \in Int, t = (c + a) % Span, Prefix(t, j) = Prefix(c, j),
           NEW d \in Int, d = (Quarter(t, j) + Base - Quarter(c, j)) % Base
    PROVE  /\ a = 0 => d = 0
           /\ a < 0 => d >= Base \div 2 \/ (d = 0 /\ j # 3)
           /\ a > 0 /\ (j = 3 => a # Base \div 2) =>
                  d < Base \div 2 /\ (j = 3 => d # 0)
<1> DEFINE w == Weight[j + 1]
           tj == Quarter(t, j)
           cj == Quarter(c, j)
           x == t % w
           y == c % w
           p == Prefix(c, j)
<1>1. /\ Base \in Int /\ Base >= 4 /\ Base \div 2 \in Int /\ Base = 2 * (Base \div 2)
      /\ Top \in Int /\ Top >= Base /\ Span \in Int /\ Span >= 4 * Top
    BY BaseFacts, WeightFacts
<1>2. c \in Int /\ a \in Int /\ -Top < a /\ a < Top
    BY <1>1 DEF Times
<1>3. PICK k \in {-1, 0, 1} : t = c + a + k * Span /\ t \in Times
    BY <1>2, Wraps
<1>4. c \in 0..(Span - 1) /\ t \in 0..(Span - 1)
    BY <1>3 DEF Times, Span
<1>5. /\ w \in Int /\ w > 0
      /\ j = 3 => w = 1
      /\ j # 3 => w >= Base
      /\ j # 0 => w * Base <= Top
      /\ j = 0 => w * Base = Span
  <2>1. /\ \A i \in 0..3 : Weight[i + 1] \in Int /\ Weight[i + 1] > 0
        /\ Weight[3 + 1] = 1
        /\ \A i \in 0..2 : Weight[i + 1] >= Base
        /\ \A i \in 1..3 : Weight[i + 1] * Base <= Top
        /\ Weight[0 + 1] * Base = Span
      BY WeightFacts
  <2>2. (j = 3 \/ j \in 0..2) /\ (j = 0 \/ j \in 1..3)
      OBVIOUS
  <2> QED BY <2>1, <2>2
<1>6. /\ p \in Int /\ Prefix(t, j) = p /\ tj \in Digits /\ cj \in Digits
      /\ x \in 0..(w - 1) /\ y \in 0..(w - 1)
      /\ t = p * (w * Base) + (tj * w + x)
      /\ c = p * (w * Base) + (cj * w + y)
  <2>1. /\ Prefix(t, j) = p /\ p \in Int
        /\ tj \in Digits /\ x \in 0..(w - 1)
        /\ t = Prefix(t, j) * (w * Base) + (tj * w + x)
      BY Split, Prefix(t, j) = Prefix(c, j)
  <2>2. /\ cj \in Digits /\ y \in 0..(w - 1)
        /\ c = p * (w * Base) + (cj * w + y)
      BY <1>2, Split
  <2> QED BY <2>1, <2>2
<1> HIDE DEF w, tj, cj, x, y, p
<1>7. tj \in 0..(Base - 1) /\ cj \in 0..(Base - 1)
    BY <1>6 DEF Digits
<1>8. t - c = (tj - cj) * w + (x - y)
  <2> DEFINE z == p * (w * Base)
  <2>1. z \in Int /\ t = z + (tj * w + x) /\ c = z + (cj * w + y)
      BY <1>1, <1>5, <1>6
  <2> HIDE DEF z
  <2>2. tj * w \in Int /\ cj * w \in Int /\ (tj - cj) * w = tj * w - cj * w
      BY <1>5, <1>7
  <2> QED BY <2>1, <2>2, <1>6, <1>5
<1>9. j # 0 => k = 0
  <2> SUFFICES ASSUME j # 0 PROVE k = 0
      OBVIOUS
  <2>1. tj * w >= 0 /\ cj * w >= 0 /\ tj * w \in Int /\ cj * w \in Int
      BY <1>5, <1>7
  <2>2. (Base - tj) * w >= w /\ (Base - cj) * w >= w
      BY <1>1, <1>5, <1>7, Product
  <2>3. (Base - tj) * w = w * Base - tj * w /\ (Base - cj) * w = w * Base - cj * w
      BY <1>1, <1>5, <1>7
  <2>4. (tj - cj) * w = tj * w - cj * w
      BY <1>5, <1>7
  <2>5. t - c < w * Base /\ t - c > -(w * Base) /\ w * Base <= Top /\ w * Base \in Int
      BY <1>1, <1>5, <1>6, <1>8, <2>1, <2>2, <2>3, <2>4
  <2>6. t \in Int /\ t - c = a + k * Span
      BY <1>1, <1>2, <1>3, <1>4
  <2>7. k = -1 \/ k = 0 \/ k = 1
      BY <1>3
  <2>8. CASE k = 1
      BY <2>5, <2>6, <2>8, <1>1, <1>2
  <2>9. CASE k = -1
      BY <2>5, <2>6, <2>9, <1>1, <1>2
  <2> QED BY <2>7, <2>8, <2>9
<1> DEFINE m == tj - cj - k * Base
<1>10. m \in Int /\ k \in Int /\ tj - cj = m + k * Base
    BY <1>1, <1>3, <1>7
<1>11. k * Span = (k * Base) * w
  <2>1. CASE j = 0
    <3>1. Span = w * Base
        BY <2>1, <1>5
    <3> QED BY <3>1, <1>1, <1>5, <1>10
  <2>2. CASE j # 0
      BY <2>2, <1>9, <1>1, <1>5
  <2> QED BY <2>1, <2>2
<1>12. m * w = (y - x) + a
  <2>1. m * w = (tj - cj) * w - (k * Base) * w
      BY <1>1, <1>5, <1>7, <1>10
  <2>2. (tj - cj) * w \in Int /\ k * Span \in Int
      BY <1>1, <1>5, <1>7, <1>10
  <2> QED BY <2>1, <2>2, <1>1, <1>2, <1>3, <1>4, <1>5, <1>6, <1>8, <1>11
<1> HIDE DEF m
<1>13. d = (tj + Base - cj) % Base
    BY DEF tj, cj
<1>14. CASE j = 3
  <2>1. m = a
      BY <1>14, <1>12, <1>5, <1>6, <1>10, <1>2
  <2>2. CASE a >= 0
    <3>1. m \in 0..(Base - 1)
        BY <2>1, <2>2, <1>1
    <3>2. d = a
        BY <3>1, <2>1, <1>6, <1>10, <1>13, DigitDifference
    <3>3. a <= Base \div 2
        OBVIOUS
    <3> QED BY <3>2, <3>3, <2>2, <1>14, <1>1, <1>2
  <2>3. CASE a < 0
    <3>1. m \in -(Base - 1)..(-1)
        BY <2>1, <2>3, <1>1
    <3>2. d = a + Base
        BY <3>1, <2>1, <1>6, <1>10, <1>13, DigitDifference
    <3> QED BY <3>2, <2>3, <1>1, <1>2
  <2> QED BY <2>2, <2>3, <1>2
<1>15. CASE j # 3
  <2>1. -w < a /\ a < w
      BY <1>15, <1>1, <1>5
  <2>2. y - x + a \in Int /\ -(2 * w) < y - x + a /\ y - x + a < 2 * w
      BY <2>1, <1>2, <1>5, <1>6
  <2>3. /\ m \in {-1, 0, 1}
        /\ m = 1 <=> y - x + a = w
        /\ m = -1 <=> y - x + a = -w
      BY <2>2, <1>5, <1>10, <1>12, Carry
  <2>4. CASE m = 0
    <3>1. m \in 0..(Base - 1)
        BY <2>4, <1>1
    <3>2. d = 0
        BY <3>1, <2>4, <1>6, <1>10, <1>13, DigitDifference
    <3> QED BY <3>2, <2>3, <2>4, <1>15, <1>1, <1>2, <1>5, <1>6
  <2>5. CASE m = 1
    <3>1. a > 0
        BY <2>3, <2>5, <1>2, <1>5, <1>6
    <3>2. m \in 0..(Base - 1)
        BY <2>5, <1>1
    <3>3. d = 1
      <4>1. (tj + Base - cj) % Base = m
          BY <3>2, <1>6, <1>10, DigitDifference
      <4> QED BY <4>1, <2>5, <1>1, <1>13
    <3> QED BY <3>1, <3>3, <1>15, <1>1, <1>2
  <2>6. CASE m = -1
    <3>1. a < 0
        BY <2>3, <2>6, <1>2, <1>5, <1>6
    <3>2. m \in -(Base - 1)..(-1)
        BY <2>6, <1>1
    <3>3. d = Base - 1
      <4>1. (tj + Base - cj) % Base = m + Base
          BY <3>2, <1>6, <1>10, DigitDifference
      <4> QED BY <4>1, <2>6, <1>1, <1>13
    <3> QED BY <3>1, <3>3, <1>1, <1>2
  <2> QED BY <2>3, <2>4, <2>5, <2>6
<1> QED BY <1>14, <1>15

\* A tick does not carry into the quarters found equal of a time still to come.
LEMMA TickKeepsPrefix ==
    ASSUME NEW c \in Times, NEW a \in 1..(Base \div 2), NEW j \in 1..3,
           NEW t \in Int, t = (c + a) % Span, Prefix(t, j) = Prefix(c, j)
    PROVE  Prefix((c + 1) % Span, j) = Prefix(t, j)
<1> DEFINE w == Weight[j + 1] * Base
           p == Prefix(c, j)
           x == Quarter(t, j) * Weight[j + 1] + (t % Weight[j + 1])
           y == Quarter(c, j) * Weight[j + 1] + (c % Weight[j + 1])
<1>1. /\ Base \in Int /\ Base >= 4 /\ Base \div 2 \in Int /\ Base = 2 * (Base \div 2)
      /\ Top \in Int /\ Top >= Base /\ Span \in Int /\ Span >= 4 * Top
    BY BaseFacts, WeightFacts
<1>2. /\ c \in Int /\ a \in Int /\ -Top < a /\ a < Top /\ -Top < 1 /\ 1 < Top
      /\ j \in 0..3 /\ 1 \in Int
    BY <1>1 DEF Times
<1>3. PICK k \in {-1, 0, 1} : t = c + a + k * Span /\ t \in Times
    BY <1>2, Wraps
<1>4. c \in 0..(Span - 1) /\ t \in 0..(Span - 1)
    BY <1>3 DEF Times, Span
<1>5. w \in Int /\ w > 0 /\ w <= Top
  <2>1. Weight[j + 1] \in Int /\ Weight[j + 1] > 0 /\ w <= Top
      BY <1>2, WeightFacts
  <2> QED BY <2>1, <1>1
<1>6. /\ p \in Int /\ Prefix(t, j) = p
      /\ t = p * w + x /\ c = p * w + y
  <2>1. Prefix(t, j) \in Int /\ t = Prefix(t, j) * w + x
      BY <1>2, Split
  <2>2. p \in Int /\ c = p * w + y
      BY <1>2, Split
  <2>3. Prefix(t, j) = p
      OBVIOUS
  <2> QED BY <2>1, <2>2, <2>3
<1>7. ASSUME NEW v \in Int
      PROVE  Quarter(v, j) * Weight[j + 1] + (v % Weight[j + 1]) \in 0..(w - 1)
  <2> DEFINE u == Weight[j + 1]
             q == Quarter(v, j)
             r == v % u
  <2>1. u \in Int /\ u > 0 /\ q \in 0..(Base - 1) /\ r \in 0..(u - 1) /\ w = u * Base
      BY <1>2, Split, WeightFacts DEF Digits
  <2> HIDE DEF u, q, r, w
  <2>2. (Base - q) * u >= u
      BY <1>1, <2>1, Product
  <2>3. (Base - q) * u = u * Base - q * u /\ q * u >= 0 /\ q * u \in Int
      BY <1>1, <2>1
  <2>4. q * u + r \in 0..(w - 1)
      BY <2>1, <2>2, <2>3, <1>1
  <2> QED BY <2>4 DEF q, r, u
<1>8. x \in 0..(w - 1) /\ y \in 0..(w - 1)
    BY <1>2, <1>4, <1>7
<1> HIDE DEF w, p, x, y
<1>9. p * w \in Int
    BY <1>5, <1>6
<1>10. k = 0
  <2>1. k = -1 \/ k = 0 \/ k = 1
      BY <1>3
  <2>2. t - c = x - y
      BY <1>5, <1>6, <1>8, <1>9
  <2>3. CASE k = 1
      BY <2>2, <2>3, <1>1, <1>2, <1>3, <1>4, <1>5, <1>8
  <2>4. CASE k = -1
      BY <2>2, <2>4, <1>1, <1>2, <1>3, <1>4, <1>5, <1>8
  <2> QED BY <2>1, <2>3, <2>4
<1>11. t = c + a
    BY <1>10, <1>3, <1>1, <1>2
<1>12. c + 1 = p * w + (y + 1) /\ y + 1 \in 0..(w - 1) /\ c + 1 \in 0..(Span - 1)
  <2>1. y + a = x
      BY <1>2, <1>5, <1>6, <1>8, <1>9, <1>11
  <2>2. a >= 1
      BY <1>1
  <2> QED BY <2>1, <2>2, <1>1, <1>2, <1>4, <1>5, <1>6, <1>8, <1>9, <1>11
<1>13. (c + 1) % Span = c + 1
  <2>1. (0 * Span + (c + 1)) % Span = c + 1
      BY <1>1, <1>12, DivUnique
  <2> QED BY <2>1, <1>1, <1>2
<1>14. (p * w + (y + 1)) \div w = p
    BY <1>5, <1>6, <1>12, DivUnique
<1>15. Prefix(c + 1, j) = p
    BY <1>12, <1>14 DEF Prefix, w
<1> QED BY <1>13, <1>15, <1>6

-------------------------------------------------------------------------------
(***************************************************************************)
(* The command waited for.  Due(a) is the time a ticks from the present;   *)
(* Awaits(a) says that it is the one the timer compares, that the quarters *)
(* above the comparison were found equal and still are, and that the       *)
(* register shows the others.  Reach(a, togo, j, s) keeps a, the ticks to  *)
(* go and the place j of the comparison in step with the quarter s that is *)
(* presented: once the time has come the comparisons follow the quarters,  *)
(* so that the last is reached before the clock ticks again.               *)
(***************************************************************************)
Stage == Compared[timer]

Due(a) == (clock + a) % Span

Reach(a, togo, j, s) ==
    /\ togo >= -1
    /\ IF togo > 0 THEN a = togo ELSE a <= togo /\ a > togo - (Base \div 2)
    /\ a <= Base \div 2
    /\ a = Base \div 2 => j = 0 /\ s # 0
    /\ togo = 0 => j = 0 \/ j = s \/ (a = 0 /\ s < j)
    /\ togo = -1 => j = s
    /\ a < 0 => j = 0 \/ j = s

Awaits(a) ==
    /\ Reach(a, until, Stage, segment)
    /\ \A i \in 0..(3 - Stage) : Quarter(value, i) = Quarter(Due(a), Stage + i)
    /\ Prefix(Due(a), Stage) = Prefix(clock, Stage)

NearInv ==
    near =>
        /\ cmd_state = "waiting_for_time"
        /\ \/ timer = "time_passed" /\ until <= 0
           \/ timer \in Comparing /\ \E a \in Int : Awaits(a)

TimerTypes ==
    /\ clock \in Times
    /\ segment \in 0..3
    /\ timer \in TimerStates
    /\ value \in Times
    /\ overtaken \in BOOLEAN
    /\ until \in Int
    /\ near \in BOOLEAN

\* The states of a comparison and the quarters they wait for.
LEMMA Stages ==
    ASSUME NEW s \in Comparing
    PROVE  /\ Compared[s] \in 0..3
           /\ Compared[s] = 3 <=> s = "last_comparison"
           /\ Compared[s] = 0 <=> s = "first_comparison"
           /\ s # "last_comparison" =>
                 Following[s] \in Comparing /\ Compared[Following[s]] = Compared[s] + 1
           /\ Following[s] \in TimerStates
           /\ s # "idle" /\ s # "time_passed"
BY DEF Comparing, TimerStates, Compared, Following

LEMMA ZeroInTimes == 0 \in Times /\ Times \subseteq Int
BY WeightFacts, BaseFacts DEF Times, Span

\* The same for the timer alone, whatever it is told.
LEMMA TimerStep ==
    ASSUME NEW load \in BOOLEAN, NEW immediate \in BOOLEAN, NEW at \in Times,
           NEW clear \in BOOLEAN,
           clock \in Times, segment \in 0..3, timer \in TimerStates, value \in Times,
           TimerClock(load, immediate, at, clear)
    PROVE  /\ clock' \in Times
           /\ segment' \in 0..3
           /\ timer' \in TimerStates
           /\ value' \in Times
<1>1. Span = Top * Base
    BY DEF Span
<1>2. clock' \in Times
    BY <1>1, Ticks DEF TimerClock
<1>3. segment' \in 0..3
  <2>1. segment' = (segment + 1) % 4
      BY DEF TimerClock
  <2> QED BY <2>1
<1>4. timer' \in TimerStates
  <2>1. timer' = NextTimer(load, immediate, clear)
      BY DEF TimerClock
  <2>2. Shifts => Following[timer] \in TimerStates
      BY Stages DEF Shifts, ComparesNow
  <2>3. {"idle", "time_passed", "first_comparison"} \subseteq TimerStates
      BY DEF TimerStates, Comparing
  <2> QED BY <2>1, <2>2, <2>3 DEF NextTimer
<1>5. value' \in Times
  <2>1. Shifted(value) \in Times
      BY ZeroInTimes, ShiftedFits
  <2>2. value' = 0 \/ value' = at \/ value' = Shifted(value) \/ value' = value
      BY DEF TimerClock
  <2> QED BY <2>1, <2>2, ZeroInTimes
<1> QED BY <1>2, <1>3, <1>4, <1>5

LEMMA FollowTypes ==
    ASSUME NEW offset \in Int, NEW inReach \in BOOLEAN, Follow(offset, inReach)
    PROVE  until' \in Int /\ near' \in BOOLEAN
BY DEF Follow

\* A clock keeps the registers of the timer, and the history, in range.
LEMMA TypesStep ==
    ASSUME TimerTypes, NEW ack \in BOOLEAN, NEW taken \in BOOLEAN, NEW op \in Ops,
           Clock(ack, op, taken)
    PROVE  TimerTypes'
<1>1. overtaken' \in BOOLEAN
    BY DEF Clock
<1>2. CASE cmd_state = "time_ready"
  <2>1. Load
      BY <1>2 DEF Clock
  <2>2. CASE TimerClock(TRUE, TRUE, 0, FALSE) /\ Follow(0, FALSE)
      BY <2>2, <1>1, TimerStep, FollowTypes, ZeroInTimes DEF TimerTypes
  <2>3. ASSUME NEW offset \in Offsets,
               TimerClock(TRUE, FALSE, (clock + offset) % (Top * Base), FALSE),
               Follow(IF timer = "idle" /\ offset > 0 THEN offset ELSE 0,
                      timer = "idle" /\ offset \in Near)
        PROVE  TimerTypes'
    <3>1. (clock + offset) % (Top * Base) \in Times
      <4>1. offset \in Int /\ clock \in Int /\ Span \in Int /\ Span > 0
          BY OffsetsAssumption, ZeroInTimes, WeightFacts, BaseFacts DEF TimerTypes
      <4>2. (clock + offset) % Span \in 0..(Span - 1)
          BY <4>1, DivMod
      <4> QED BY <4>2 DEF Span, Times
    <3>2. clock' \in Times /\ segment' \in 0..3 /\ timer' \in TimerStates /\ value' \in Times
        BY <3>1, <2>3, TimerStep DEF TimerTypes
    <3>3. until' \in Int /\ near' \in BOOLEAN
      <4>1. (IF timer = "idle" /\ offset > 0 THEN offset ELSE 0) \in Int
          BY OffsetsAssumption
      <4>2. (timer = "idle" /\ offset \in Near) \in BOOLEAN
          OBVIOUS
      <4> HIDE DEF Near
      <4> QED BY <4>1, <4>2, <2>3, FollowTypes
    <3> QED BY <3>2, <3>3, <1>1 DEF TimerTypes
  <2> QED BY <2>1, <2>2, <2>3 DEF Load
<1>3. CASE cmd_state # "time_ready"
  <2>1. TimerClock(FALSE, FALSE, 0, cmd_state = "idle") /\ Follow(until, near)
      BY <1>3 DEF Clock
  <2>2. (cmd_state = "idle") \in BOOLEAN
      OBVIOUS
  <2>3. clock' \in Times /\ segment' \in 0..3 /\ timer' \in TimerStates /\ value' \in Times
      BY <2>1, <2>2, TimerStep, ZeroInTimes DEF TimerTypes
  <2>4. until' \in Int /\ near' \in BOOLEAN
      BY <2>1, FollowTypes DEF TimerTypes
  <2> QED BY <2>3, <2>4, <1>1 DEF TimerTypes
<1> QED BY <1>2, <1>3

\* What Reach says is carried from clock to clock: j and s are the comparison
\* in progress and the quarter presented, of which the timer has made jj and ss.
LEMMA ReachStep ==
    ASSUME NEW a \in Int, NEW togo \in Int, NEW j \in 0..3, NEW s \in 0..3,
           Reach(a, togo, j, s),
           NEW jj \in 0..3, jj = j \/ (jj = j + 1 /\ j = s),
           j = s /\ a <= 0 => jj = j + 1
    PROVE  Reach(IF s = 3 THEN a - 1 ELSE a,
                 IF s = 3 /\ togo > -2 THEN togo - 1 ELSE togo,
                 jj, (s + 1) % 4)
<1>1. Base \div 2 \in Int /\ Base \div 2 >= 2
    BY BaseFacts
<1>2. (s + 1) % 4 = IF s = 3 THEN 0 ELSE s + 1
    OBVIOUS
<1> DEFINE h == Base \div 2
<1>3. /\ togo >= -1
      /\ togo > 0 => a = togo
      /\ togo <= 0 => a <= togo /\ a > togo - h
      /\ a <= h
      /\ a = h => j = 0 /\ s # 0
      /\ togo = 0 => j = 0 \/ j = s \/ (a = 0 /\ s < j)
      /\ togo = -1 => j = s
      /\ a < 0 => j = 0 \/ j = s
    BY <1>1 DEF Reach
<1> HIDE DEF h
<1>4. h \in Int /\ h >= 2
    BY <1>1 DEF h
<1>5. CASE s = 3
  <2> SUFFICES Reach(a - 1, IF togo > -2 THEN togo - 1 ELSE togo, jj, 0)
      BY <1>2, <1>5
  <2>1. (IF togo > -2 THEN togo - 1 ELSE togo) = togo - 1
      BY <1>3
  <2> SUFFICES Reach(a - 1, togo - 1, jj, 0)
      BY <2>1, <1>3
  <2>2. togo >= 0
      BY <1>3, <1>5
  <2>3. jj = j
      BY <1>5
  <2>4. togo - 1 > 0 => a - 1 = togo - 1
      BY <1>3
  <2>5. togo - 1 <= 0 => a - 1 <= togo - 1 /\ a - 1 > togo - 1 - h
      BY <1>3, <1>4, <2>2
  <2>6. a - 1 < h
      BY <1>3, <1>4
  <2>7. togo - 1 = 0 => jj = 0 \/ jj = 0 \/ (a - 1 = 0 /\ 0 < jj)
      BY <1>3, <1>4
  <2>8. togo - 1 = -1 => jj = 0
      BY <1>3, <1>4, <1>5
  <2>9. a - 1 < 0 => jj = 0 \/ jj = 0
      BY <1>3, <1>4, <1>5, <2>2
  <2> QED BY <2>2, <2>4, <2>5, <2>6, <2>7, <2>8, <2>9, <1>1 DEF Reach, h
<1>6. CASE s # 3
  <2> SUFFICES Reach(a, togo, jj, s + 1)
      BY <1>2, <1>6
  <2>1. a = h => jj = 0 /\ s + 1 # 0
      BY <1>3, <1>4
  <2>2. togo = 0 => jj = 0 \/ jj = s + 1 \/ (a = 0 /\ s + 1 < jj)
      BY <1>3, <1>4
  <2>3. togo = -1 => jj = s + 1
      BY <1>3
  <2>4. a < 0 => jj = 0 \/ jj = s + 1
      BY <1>3
  <2> QED BY <1>1, <1>3, <2>1, <2>2, <2>3, <2>4 DEF Reach, h
<1> QED BY <1>5, <1>6

\* The comparison in progress, a ticks before the time it is about.
LEMMA Compares ==
    ASSUME TimerTypes, timer \in Comparing, NEW a \in Int, Awaits(a)
    PROVE  /\ Passes => a <= 0
           /\ ~Passes /\ Stage = segment /\ a <= 0 => Shifts
<1>1. /\ clock \in Times /\ segment \in 0..3 /\ value \in Int
      /\ Stage \in 0..3 /\ (Stage = 3 <=> timer = "last_comparison")
    BY Stages, ZeroInTimes DEF TimerTypes, Stage
<1>2. Base \div 2 \in Int /\ Base \div 2 >= 2 /\ Base \in Int /\ Base = 2 * (Base \div 2)
    BY BaseFacts
<1>3. /\ a \in -(Base \div 2)..(Base \div 2)
      /\ a = Base \div 2 => Stage = 0 /\ segment # 0
  <2>1. /\ until > 0 => a = until
        /\ until <= 0 => a <= until /\ a > until - (Base \div 2)
        /\ until >= -1 /\ until \in Int
        /\ a <= Base \div 2
        /\ a = Base \div 2 => Stage = 0 /\ segment # 0
      BY DEF Awaits, Reach, TimerTypes
  <2> QED BY <2>1, <1>2
<1> SUFFICES ASSUME Stage = segment
             PROVE  /\ Passes => a <= 0
                    /\ ~Passes /\ a <= 0 => Shifts
    BY DEF Passes, ComparesNow, Stage
<1> DEFINE t == Due(a)
<1>4. t \in Int /\ t = (clock + a) % Span /\ Prefix(t, Stage) = Prefix(clock, Stage)
  <2>1. Span \in Int /\ Span > 0 /\ clock \in Int
      BY WeightFacts, BaseFacts, ZeroInTimes, <1>1
  <2>2. t \in Int
      BY <2>1, DivMod DEF Due
  <2> QED BY <2>2 DEF Due, Awaits
<1>5. Difference = (Quarter(t, Stage) + Base - Quarter(clock, Stage)) % Base
  <2>1. Quarter(value, 0) = Quarter(t, Stage)
    <3>1. 0 \in 0..(3 - Stage) /\ Stage + 0 = Stage
        BY <1>1
    <3> QED BY <3>1 DEF Awaits
  <2> QED BY <2>1 DEF Difference, Presented
<1>6. Difference \in Int
  <2>1. clock \in Int
      BY <1>1, ZeroInTimes
  <2>2. Quarter(t, Stage) \in Digits /\ Quarter(clock, Stage) \in Digits
      BY <2>1, <1>1, <1>4, Split
  <2>3. Quarter(t, Stage) \in Int /\ Quarter(clock, Stage) \in Int
      BY <2>2, <1>2 DEF Digits
  <2>4. Quarter(t, Stage) + Base - Quarter(clock, Stage) \in Int
      BY <2>3, <1>2
  <2>5. Base > 0
      BY <1>2
  <2>6. Difference \in 0..(Base - 1)
      BY <2>4, <2>5, <1>2, <1>5, DivMod
  <2> QED BY <2>6, <1>2
<1> HIDE DEF t
<1>7. /\ a = 0 => Difference = 0
      /\ a < 0 => Difference >= Base \div 2 \/ (Difference = 0 /\ Stage # 3)
      /\ a > 0 /\ (Stage = 3 => a # Base \div 2) =>
             Difference < Base \div 2 /\ (Stage = 3 => Difference # 0)
    BY <1>1, <1>3, <1>4, <1>5, <1>6, Comparison
<1>8. Passes => a <= 0
  <2> SUFFICES ASSUME Passes, a > 0 PROVE FALSE
      OBVIOUS
  <2>1. Stage = 3 => a # Base \div 2
      BY <1>3
  <2>2. Difference < Base \div 2 /\ (Stage = 3 => Difference # 0)
      BY <2>1, <1>7
  <2>3. InPast \/ (timer = "last_comparison" /\ ~InFuture)
      BY DEF Passes
  <2> QED BY <2>2, <2>3, <1>1, <1>2, <1>6 DEF InPast, InFuture
<1>9. ~Passes /\ a <= 0 => Shifts
  <2> SUFFICES ASSUME ~Passes, a <= 0 PROVE Shifts
      OBVIOUS
  <2>1. ComparesNow
      BY DEF ComparesNow, Stage
  <2>2. ~InPast /\ (timer = "last_comparison" => InFuture)
      BY <2>1 DEF Passes
  <2>3. Difference < Base \div 2
      BY <2>2, <1>2, <1>6 DEF InPast
  <2>4. Difference = 0
      BY <2>3, <1>7, <1>2, <1>6
  <2>5. timer # "last_comparison"
      BY <2>2, <2>4 DEF InFuture
  <2> QED BY <2>1, <2>4, <2>5 DEF Shifts
<1> QED BY <1>8, <1>9

\* The comparator finds only equal quarters equal.
LEMMA SameDigit ==
    ASSUME NEW x \in Digits, NEW y \in Digits, (x + Base - y) % Base = 0
    PROVE  x = y
<1>1. x \in 0..(Base - 1) /\ y \in 0..(Base - 1) /\ Base \in Int /\ Base >= 4
    BY BaseFacts DEF Digits
<1>2. x - y \in Int /\ x - y = (x - y) + 0 * Base /\ 0 \in Int
    BY <1>1
<1>3. /\ x - y \in 0..(Base - 1) => (x + Base - y) % Base = x - y
      /\ x - y \in -(Base - 1)..(-1) => (x + Base - y) % Base = (x - y) + Base
    BY <1>2, DigitDifference
<1> QED BY <1>1, <1>3

\* A clock in which the timer goes on comparing.
LEMMA AwaitsStep ==
    ASSUME TimerTypes, timer \in Comparing, NEW a \in Int, Awaits(a), ~Passes,
           TimerClock(FALSE, FALSE, 0, FALSE),
           until' = IF segment = 3 /\ until > -2 THEN until - 1 ELSE until,
           NEW b \in Int, b = IF segment = 3 THEN a - 1 ELSE a
    PROVE  timer' \in Comparing /\ Awaits(b)'
<1> DEFINE t == Due(a)
           j == Stage
           jj == IF Shifts THEN Stage + 1 ELSE Stage
<1>1. /\ clock \in Times /\ clock \in Int /\ segment \in 0..3 /\ value \in Int /\ until \in Int
      /\ j \in 0..3 /\ (j = 3 <=> timer = "last_comparison")
    BY Stages, ZeroInTimes DEF TimerTypes, Stage
<1>2. /\ timer' = IF Shifts THEN Following[timer] ELSE timer
      /\ segment' = (segment + 1) % 4
      /\ clock' = IF segment = 3 THEN (clock + 1) % Span ELSE clock
    BY Stages DEF TimerClock, NextTimer, Span
<1>3. timer' \in Comparing /\ Stage' = jj /\ jj \in 0..3
      /\ (jj = j \/ (jj = j + 1 /\ j = segment))
      /\ (Shifts => jj = j + 1 /\ j = segment /\ j # 3 /\ Difference = 0)
  <2>1. CASE Shifts
    <3>1. timer # "last_comparison" /\ j = segment /\ Difference = 0
        BY <2>1 DEF Shifts, ComparesNow, Stage
    <3>2. Following[timer] \in Comparing /\ Compared[Following[timer]] = Stage + 1
        BY <3>1, Stages DEF Stage
    <3>3. timer' \in Comparing /\ Stage' = Stage + 1
        BY <2>1, <3>2, <1>2 DEF Stage
    <3> QED BY <2>1, <3>1, <3>3, <1>1
  <2>2. CASE ~Shifts
      BY <2>2, <1>1, <1>2 DEF Stage
  <2> QED BY <2>1, <2>2
<1>4. value' = IF Shifts THEN Shifted(value) ELSE value
    BY <1>3 DEF TimerClock
<1>5. Due(b)' = t
  <2>1. CASE segment = 3
    <3>1. Due(b)' = (((clock + 1) % Span) + (a - 1)) % Span
        BY <2>1, <1>2 DEF Due
    <3> QED BY <3>1, <1>1, Ticks DEF Due
  <2>2. CASE segment # 3
      BY <2>2, <1>2 DEF Due
  <2> QED BY <2>1, <2>2
<1>6. t \in Int /\ t \in Times /\ t = (clock + a) % Span /\ Prefix(t, j) = Prefix(clock, j)
  <2>1. Span \in Int /\ Span > 0 /\ Times = 0..(Span - 1)
      BY WeightFacts, BaseFacts DEF Times, Span
  <2>2. t \in Times
      BY <2>1, <1>1, DivMod DEF Due
  <2> QED BY <2>2, ZeroInTimes DEF Due, Awaits
<1>7. /\ until >= -1
      /\ until > 0 => a = until
      /\ until <= 0 => a <= until
      /\ a <= Base \div 2
      /\ until = 0 => j = 0 \/ j = segment \/ (a = 0 /\ segment < j)
      /\ until = -1 => j = segment
    BY DEF Awaits, Reach
<1>8. j = segment /\ a <= 0 => Shifts
    BY Compares DEF Awaits
<1>9. Reach(b, until', jj, segment')
  <2>1. Reach(a, until, j, segment)
      BY DEF Awaits
  <2>2. j = segment /\ a <= 0 => jj = j + 1
      BY <1>8, <1>3
  <2> QED BY <2>1, <2>2, <1>1, <1>2, <1>3, ReachStep
<1>10. ASSUME NEW i \in 0..(3 - jj)
       PROVE  Quarter(value', i) = Quarter(t, jj + i)
  <2>1. ASSUME NEW k \in 0..(3 - j) PROVE Quarter(value, k) = Quarter(t, j + k)
      BY DEF Awaits
  <2>2. CASE Shifts
    <3>1. i \in 0..2 /\ i + 1 \in 0..(3 - j) /\ j + (i + 1) = jj + i
        BY <2>2, <1>1, <1>3
    <3>2. Quarter(value', i) = Quarter(value, i + 1)
        BY <3>1, <2>2, <1>1, <1>4, ShiftedQuarters
    <3> QED BY <3>1, <3>2, <2>1
  <2>3. CASE ~Shifts
      BY <2>1, <2>3, <1>4
  <2> QED BY <2>2, <2>3
<1>11. Prefix(t, jj) = Prefix(clock', jj)
  <2>1. CASE Shifts
    <3>1. j \in 0..2 /\ jj = j + 1 /\ segment # 3
        BY <2>1, <1>1, <1>3
    <3>2. Quarter(t, j) = Quarter(clock, j)
      <4>1. Quarter(value, 0) = Quarter(t, j)
        <5>1. 0 \in 0..(3 - j) /\ j + 0 = j
            BY <1>1
        <5> QED BY <5>1 DEF Awaits
      <4>2. (Quarter(t, j) + Base - Quarter(clock, j)) % Base = 0
          BY <4>1, <2>1, <1>3 DEF Difference, Presented
      <4>3. Quarter(t, j) \in Digits /\ Quarter(clock, j) \in Digits
          BY <1>1, <1>6, Split
      <4> QED BY <4>2, <4>3, SameDigit
    <3>3. /\ Prefix(t, j + 1) = Prefix(t, j) * Base + Quarter(t, j)
          /\ Prefix(clock, j + 1) = Prefix(clock, j) * Base + Quarter(clock, j)
        BY <3>1, <1>1, <1>6, PrefixGrows
    <3>4. clock' = clock
        BY <3>1, <1>2
    <3> QED BY <3>1, <3>2, <3>3, <3>4, <1>6
  <2>2. CASE ~Shifts /\ segment # 3
      BY <2>2, <1>2, <1>6
  <2>3. CASE ~Shifts /\ segment = 3
    <3>1. jj = j /\ clock' = (clock + 1) % Span
        BY <2>3, <1>2
    <3>2. CASE j = 0
      <4>1. clock' \in Times
          BY <3>1, <1>1, Ticks
      <4> QED BY <3>1, <3>2, <4>1, <1>6, NoPrefix
    <3>3. CASE j # 0
      <4>1. a > 0
          BY <3>3, <2>3, <1>1, <1>7, <1>8
      <4>2. a \in 1..(Base \div 2) /\ j \in 1..3
          BY <4>1, <3>3, <1>1, <1>7, BaseFacts
      <4> HIDE DEF t, j
      <4>3. Prefix((clock + 1) % Span, j) = Prefix(t, j)
          BY <4>2, <1>1, <1>6, TickKeepsPrefix
      <4> QED BY <3>1, <4>3
    <3> QED BY <3>2, <3>3
  <2> QED BY <2>1, <2>2, <2>3
<1>12. Awaits(b)'
  <2>1. Reach(b, until, Stage, segment)'
      BY <1>3, <1>9 DEF Reach
  <2>2. (\A i \in 0..(3 - Stage) : Quarter(value, i) = Quarter(Due(b), Stage + i))'
      BY <1>3, <1>5, <1>10
  <2>3. (Prefix(Due(b), Stage) = Prefix(clock, Stage))'
      BY <1>3, <1>5, <1>11
  <2> QED BY <2>1, <2>2, <2>3 DEF Awaits
<1> QED BY <1>3, <1>12

\* A load into the idle timer of a time in reach of the comparator.
LEMMA LoadAwaits ==
    ASSUME TimerTypes, NEW offset \in Near, offset \in Int, timer = "idle",
           TimerClock(TRUE, FALSE, (clock + offset) % (Top * Base), FALSE),
           Follow(IF timer = "idle" /\ offset > 0 THEN offset ELSE 0,
                  timer = "idle" /\ offset \in Near),
           near'
    PROVE  NearInv'
<1> DEFINE togo == IF offset > 0 THEN offset ELSE 0
           at == (clock + offset) % Span
<1>1. /\ clock \in Times /\ clock \in Int /\ segment \in 0..3
      /\ Base \div 2 \in Int /\ Base \div 2 >= 2 /\ Base = 2 * (Base \div 2)
    BY ZeroInTimes, BaseFacts DEF TimerTypes
<1>2. offset <= Base \div 2 /\ offset > -(Base \div 2)
    BY <1>1 DEF Near
<1>3. /\ cmd_state' = "waiting_for_time"
      /\ until' = IF segment = 3 /\ togo > -2 THEN togo - 1 ELSE togo
    BY DEF Follow
<1>4. /\ timer' = "first_comparison"
      /\ segment' = (segment + 1) % 4
      /\ clock' = IF segment = 3 THEN (clock + 1) % Span ELSE clock
    BY Stages DEF TimerClock, NextTimer, Passes, Shifts, ComparesNow, Comparing, Span
<1>5. value' = at
    BY <1>4 DEF TimerClock, Comparing, Span
<1>6. Stage' = 0 /\ timer' \in Comparing
    BY <1>4 DEF Stage, Compared, Comparing
<1>7. PICK a \in Int : a = IF segment = 3 THEN offset - 1 ELSE offset
    OBVIOUS
<1>8. Due(a)' = at
  <2>1. CASE segment = 3
    <3>1. Due(a)' = (((clock + 1) % Span) + (offset - 1)) % Span
        BY <2>1, <1>4, <1>7 DEF Due
    <3> QED BY <3>1, <1>1, Ticks
  <2>2. CASE segment # 3
      BY <2>2, <1>4, <1>7 DEF Due
  <2> QED BY <2>1, <2>2
<1>9. at \in Times /\ clock' \in Times
  <2>1. Span \in Int /\ Span > 0 /\ Times = 0..(Span - 1)
      BY WeightFacts, BaseFacts DEF Times, Span
  <2>2. at \in Times
      BY <2>1, <1>1, DivMod
  <2> QED BY <2>2, <1>1, <1>4, Ticks
<1>10. Reach(a, until', 0, segment')
  <2>1. segment' = IF segment = 3 THEN 0 ELSE segment + 1
      BY <1>1, <1>4
  <2>2. CASE segment = 3
    <3>1. a = offset - 1 /\ until' = togo - 1 /\ segment' = 0
        BY <2>1, <2>2, <1>3, <1>7
    <3> QED BY <3>1, <1>1, <1>2 DEF Reach
  <2>3. CASE segment # 3
    <3>1. a = offset /\ until' = togo /\ segment' # 0
        BY <2>1, <2>3, <1>1, <1>3, <1>7
    <3> QED BY <3>1, <1>1, <1>2 DEF Reach
  <2> QED BY <2>2, <2>3
<1> HIDE DEF at, togo
<1>11. Awaits(a)'
  <2>1. Reach(a, until, Stage, segment)'
      BY <1>6, <1>10 DEF Reach
  <2>2. (\A i \in 0..(3 - Stage) : Quarter(value, i) = Quarter(Due(a), Stage + i))'
      BY <1>5, <1>6, <1>8
  <2>3. (Prefix(Due(a), Stage) = Prefix(clock, Stage))'
      BY <1>6, <1>8, <1>9, NoPrefix
  <2> QED BY <2>1, <2>2, <2>3 DEF Awaits
<1> QED BY <1>3, <1>6, <1>11 DEF NearInv

\* Any clock.
LEMMA NearStep ==
    ASSUME TimerTypes, NearInv, NEW ack \in BOOLEAN, NEW taken \in BOOLEAN,
           NEW op \in Ops, Clock(ack, op, taken)
    PROVE  NearInv'
<1> SUFFICES ASSUME near' PROVE NearInv'
    BY DEF NearInv
<1>1. CASE cmd_state = "time_ready"
  <2>1. ~(TimerClock(TRUE, TRUE, 0, FALSE) /\ Follow(0, FALSE))
      BY DEF Follow
  <2>2. PICK offset \in Offsets :
               /\ TimerClock(TRUE, FALSE, (clock + offset) % (Top * Base), FALSE)
               /\ Follow(IF timer = "idle" /\ offset > 0 THEN offset ELSE 0,
                         timer = "idle" /\ offset \in Near)
      BY <1>1, <2>1 DEF Clock, Load
  <2>3. timer = "idle" /\ offset \in Near
      BY <2>2 DEF Follow
  <2> QED BY <2>2, <2>3, OffsetsAssumption, LoadAwaits
<1>2. CASE cmd_state # "time_ready"
  <2>1. TimerClock(FALSE, FALSE, 0, cmd_state = "idle") /\ Follow(until, near)
      BY <1>2 DEF Clock
  <2>2. /\ cmd_state' = "waiting_for_time" /\ near
        /\ until' = IF segment = 3 /\ until > -2 THEN until - 1 ELSE until
      BY <2>1 DEF Follow
  <2>3. cmd_state = "waiting_for_time"
      BY <2>2 DEF NearInv
  <2>4. (cmd_state = "idle") = FALSE
      BY <2>3
  <2>5. TimerClock(FALSE, FALSE, 0, FALSE)
      BY <2>1, <2>4
  <2>6. until \in Int /\ segment \in 0..3
      BY DEF TimerTypes
  <2>7. CASE timer = "time_passed" /\ until <= 0
    <3>1. timer' = "time_passed"
        BY <2>5, <2>7 DEF TimerClock, NextTimer, Passes, Shifts, ComparesNow, Comparing
    <3>2. until' <= 0
        BY <2>2, <2>6, <2>7
    <3> QED BY <2>2, <3>1, <3>2 DEF NearInv
  <2>8. ASSUME timer \in Comparing, NEW a \in Int, Awaits(a)
        PROVE  NearInv'
    <3>1. CASE Passes
      <4>1. timer' = "time_passed"
          BY <2>5, <3>1 DEF TimerClock, NextTimer
      <4>2. until <= 0
        <5>1. a <= 0
            BY <2>8, <3>1, Compares
        <5>2. until > 0 => a = until
            BY <2>8 DEF Awaits, Reach
        <5> QED BY <5>1, <5>2, <2>6
      <4>3. until' <= 0
          BY <4>2, <2>2, <2>6
      <4> QED BY <2>2, <4>1, <4>3 DEF NearInv
    <3>2. CASE ~Passes
      <4>1. PICK b \in Int : b = IF segment = 3 THEN a - 1 ELSE a
          OBVIOUS
      <4>2. timer' \in Comparing /\ Awaits(b)'
          BY <3>2, <4>1, <2>2, <2>5, <2>8, AwaitsStep
      <4>3. (\E x \in Int : Awaits(x))'
          BY <4>2
      <4> QED BY <2>2, <4>2, <4>3 DEF NearInv
    <3> QED BY <3>1, <3>2
  <2> QED BY <2>2, <2>7, <2>8 DEF NearInv
<1> QED BY <1>1, <1>2
-------------------------------------------------------------------------------
(***************************************************************************)
(* The command machine and its FIFO.                                       *)
(***************************************************************************)
\* From the moment a command is asked for until it is given, the slot holds
\* none: availability is checked once, three states before it matters.
SlotFree ==
    cmd_state \in {"requesting_data", "data_access", "data_ready"} => ~available

Inv ==
    /\ cmd_state \in DOMAIN Successor
    /\ entries \in 0..MaxEntries
    /\ available \in BOOLEAN
    /\ SlotFree
    /\ ReadsWhatIsThere

LEMMA SuccessorStates ==
    DOMAIN Successor = {"idle", "requesting_timer", "time_access", "time_ready",
                        "waiting_for_time", "requesting_data", "data_access",
                        "data_ready"}
BY DEF Successor

LEMMA InitInv == Init => Inv
<1> SUFFICES ASSUME Init PROVE Inv
    OBVIOUS
<1>1. entries \in 0..MaxEntries
    BY EntriesAssumption DEF Init
<1>2. cmd_state = "idle" /\ available = FALSE
    BY DEF Init
<1> QED BY <1>1, <1>2, SuccessorStates DEF Inv, SlotFree, ReadsWhatIsThere

\* Where the machine can be after a clock, and what took it there.
LEMMA Moves ==
    ASSUME NEW ack, cmd_state \in DOMAIN Successor
    PROVE  /\ NextCmdState(ack) \in DOMAIN Successor
           /\ NextCmdState(ack) = "requesting_data" =>
                 \/ cmd_state = "requesting_data"
                 \/ cmd_state = "waiting_for_time" /\ ~available
           /\ NextCmdState(ack) = "data_access" =>
                 cmd_state = "requesting_data" /\ entries # 0
           /\ NextCmdState(ack) = "data_ready" => cmd_state = "data_access"
<1> CASE cmd_state = "idle"
    BY SuccessorStates DEF NextCmdState, Aborts, MayAdvance, Requesting, Successor
<1> CASE cmd_state = "requesting_timer"
    BY SuccessorStates DEF NextCmdState, Aborts, MayAdvance, Requesting, Successor
<1> CASE cmd_state = "time_access"
    BY SuccessorStates DEF NextCmdState, Aborts, MayAdvance, Requesting, Successor
<1> CASE cmd_state = "time_ready"
    BY SuccessorStates DEF NextCmdState, Aborts, MayAdvance, Requesting, Successor
<1> CASE cmd_state = "waiting_for_time"
    BY SuccessorStates DEF NextCmdState, Aborts, MayAdvance, Requesting, Successor
<1> CASE cmd_state = "requesting_data"
    BY SuccessorStates DEF NextCmdState, Aborts, MayAdvance, Requesting, Successor
<1> CASE cmd_state = "data_access"
    BY SuccessorStates DEF NextCmdState, Aborts, MayAdvance, Requesting, Successor
<1> CASE cmd_state = "data_ready"
    BY SuccessorStates DEF NextCmdState, Aborts, MayAdvance, Requesting, Successor
<1> QED BY SuccessorStates

LEMMA StepInv == Inv /\ [Next]_vars => Inv'
<1> SUFFICES ASSUME Inv, [Next]_vars PROVE Inv'
    OBVIOUS
<1>1. CASE Next
    <2>1. PICK ack \in BOOLEAN, taken \in BOOLEAN, op \in Ops : Clock(ack, op, taken)
        BY <1>1 DEF Next
    <2>2. cmd_state' = NextCmdState(ack)
        BY <2>1 DEF Clock
    <2>3. cmd_state' \in DOMAIN Successor
        BY <2>2, Moves DEF Inv
    <2>4. entries' \in 0..MaxEntries
        <3>1. entries' = NextEntries(op)
            BY <2>1 DEF Clock
        <3> QED BY <3>1, EntriesAssumption DEF NextEntries, Inv
    <2>5. available' = (cmd_state = "data_ready" \/ (available /\ ~taken))
        BY <2>1 DEF Clock
    <2>6. SlotFree'
        BY <2>2, <2>5, Moves DEF SlotFree, Inv
    <2>7. ReadsWhatIsThere'
        <3> SUFFICES ASSUME cmd_state' = "data_access", entries' = 0
                     PROVE  overtaken'
            BY DEF ReadsWhatIsThere
        <3>1. cmd_state = "requesting_data" /\ entries # 0
            BY <2>2, Moves DEF Inv
        <3>2. op \in {"reset", "read"}
            BY <2>1, <3>1, EntriesAssumption DEF Clock, NextEntries, Inv
        <3> QED BY <2>1, <3>2 DEF Clock
    <2> QED BY <2>3, <2>4, <2>5, <2>6, <2>7 DEF Inv
<1>2. CASE UNCHANGED vars
    BY <1>2 DEF vars, Inv, SlotFree, ReadsWhatIsThere
<1> QED BY <1>1, <1>2

LEMMA Invariance == Spec => []Inv
BY InitInv, StepInv, PTL DEF Spec

\* A command the slot has not taken yet is never overwritten by the next
\* (cmd_fsm, waiting_for_time and data_ready; io_block, cmd_available_bus).
THEOREM SlotNeverOverrun == Spec => []NoOverrun
<1>1. Inv => NoOverrun
    BY DEF Inv, SlotFree, NoOverrun
<1> QED BY <1>1, Invariance, PTL

\* The machine's read of a command finds it in the FIFO unless a reset, or a read
\* of the same FIFO over the postbus, emptied it in the clock that acknowledged the
\* machine's own: the abort on an empty FIFO leaves this one window open.
THEOREM OnlyThePostbusOvertakes == Spec => []ReadsWhatIsThere
<1>1. Inv => ReadsWhatIsThere
    BY DEF Inv
<1> QED BY <1>1, Invariance, PTL

-------------------------------------------------------------------------------
LEMMA TimedInit == Init => TimerTypes /\ NearInv
<1> SUFFICES ASSUME Init PROVE TimerTypes /\ NearInv
    OBVIOUS
<1>1. /\ clock = 0 /\ segment = 0 /\ timer = "idle" /\ value = 0
      /\ overtaken = FALSE /\ until = 0 /\ near = FALSE
    BY DEF Init, TimerInit
<1>2. timer \in TimerStates
    BY <1>1 DEF TimerStates
<1>3. TimerTypes
  <2>1. clock \in Times /\ value \in Times
      BY <1>1, ZeroInTimes
  <2>2. segment \in 0..3 /\ until \in Int
      BY <1>1
  <2>3. overtaken \in BOOLEAN /\ near \in BOOLEAN
      BY <1>1
  <2> QED BY <1>2, <2>1, <2>2, <2>3 DEF TimerTypes
<1>4. NearInv
    BY <1>1 DEF NearInv
<1> QED BY <1>3, <1>4

LEMMA TimedStep == TimerTypes /\ NearInv /\ [Next]_vars => TimerTypes' /\ NearInv'
<1> SUFFICES ASSUME TimerTypes, NearInv, [Next]_vars PROVE TimerTypes' /\ NearInv'
    OBVIOUS
<1>1. CASE Next
  <2>1. PICK ack \in BOOLEAN, taken \in BOOLEAN, op \in Ops : Clock(ack, op, taken)
      BY <1>1 DEF Next
  <2> QED BY <2>1, TypesStep, NearStep
<1>2. CASE UNCHANGED vars
  <2>1. UNCHANGED <<clock, segment, timer, value, cmd_state, overtaken, until, near>>
      BY <1>2 DEF vars, timerVars
  <2>2. TimerTypes'
      BY <2>1 DEF TimerTypes
  <2>3. ASSUME NEW a \in Int, Awaits(a) PROVE Awaits(a)'
      BY <2>1, <2>3 DEF Awaits, Reach, Stage, Due, Quarter, Prefix
  <2>4. NearInv'
      BY <2>1, <2>3 DEF NearInv
  <2> QED BY <2>2, <2>4
<1> QED BY <1>1, <1>2

LEMMA TimedInvariance == Spec => [](TimerTypes /\ NearInv)
BY TimedInit, TimedStep, PTL DEF Spec

\* Every register of the timer and of the command machine stays in its range,
\* a load in the middle of a comparison included (cmd_fifo_timer,
\* load_or_shift_value).
THEOREM TypeCorrect == Spec => []TypeOK
<1>1. Inv /\ TimerTypes => TypeOK
    BY DEF Inv, TimerTypes, TypeOK
<1> QED BY <1>1, Invariance, TimedInvariance, PTL

\* A command timed within half a quarter of the present is not let through
\* early: the timer, which sees a quarter of the clock at a time and compares
\* modulo its width, takes no time to come for one that is past
\* (io_cmd_fifo_timer, state_machine).
THEOREM NearCommandsNotEarly == Spec => []NearNotBefore
<1>1. NearInv => NearNotBefore
    BY Stages DEF NearInv, NearNotBefore
<1> QED BY <1>1, TimedInvariance, PTL

\* Such a command is let through in the tick it is due in or the next one: the
\* four comparisons, one a clock, are done before its quarter comes round again
\* (io_cmd_fifo_timer, state_machine).
THEOREM NearCommandsOnTime == Spec => []NearOnTime
<1>1. TimerTypes /\ NearInv => NearOnTime
  <2> SUFFICES ASSUME TimerTypes, NearInv, near, until < -1 PROVE timer = "time_passed"
      BY DEF NearOnTime
  <2>1. ASSUME NEW a \in Int, Awaits(a) PROVE FALSE
      BY <2>1 DEF Awaits, Reach, TimerTypes
  <2> QED BY <2>1 DEF NearInv
<1> QED BY <1>1, TimedInvariance, PTL
===============================================================================
