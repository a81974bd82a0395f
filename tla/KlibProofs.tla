----------------------------- MODULE KlibProofs ------------------------------
(***************************************************************************)
(* Proofs about Klib: what the double-word division computes in every      *)
(* round, and what arithmetic, memory, strings, printf and atoi return,    *)
(* for every width of a word and every memory, format and text.            *)
(***************************************************************************)
EXTENDS Klib, Induction, SequenceTheorems, TLAPS

-----------------------------------------------------------------------------
(* The powers of two.                                                        *)
LEMMA PowRecursion ==
  /\ Pow2 \in [Nat -> Nat]
  /\ \A n \in Nat : Pow2[n] = IF n = 0 THEN 1 ELSE 2 * Pow2[n-1]
<1> DEFINE size == [n \in Nat |-> n]
           base == [n \in Nat |-> 1]
           nxt  == [n \in Nat |-> n - 1]
           G == [n \in Nat |-> [v \in Nat |-> 2 * v]]
           body(f) == [n \in Nat |-> IF n = 0 THEN 1 ELSE 2 * f[n-1]]
<1>1. Shrinks(Nat, Nat, size, {0}, base, nxt, G)
  BY DEF Shrinks
<1>2. \A n \in Nat : base[n] = 1 /\ nxt[n] = n - 1
  OBVIOUS
<1>3. \A n \in Nat : \A v \in Nat : G[n][v] = 2 * v
  OBVIOUS
<1> HIDE DEF size, base, nxt, G
<1>4. PICK f \in [Nat -> Nat] : \A n \in Nat : Unfolds(f, n, {0}, base, nxt, G)
  BY <1>1, Recursion
<1>5. \A n \in Nat : f[n] = IF n = 0 THEN 1 ELSE 2 * f[n-1]
  <2> SUFFICES ASSUME NEW n \in Nat PROVE f[n] = IF n = 0 THEN 1 ELSE 2 * f[n-1]
    OBVIOUS
  <2>1. f[n] = IF n \in {0} THEN base[n] ELSE G[n][f[nxt[n]]]
    BY <1>4 DEF Unfolds
  <2>2. n # 0 => n - 1 \in Nat
    OBVIOUS
  <2> QED
    BY <2>1, <2>2, <1>2, <1>3
<1>6. f = body(f)
  BY <1>5
<1>7. Pow2 = CHOOSE g : g = body(g)
  BY DEF Pow2
<1>8. Pow2 = body(Pow2)
  <2> HIDE DEF body
  <2> QED
    BY <1>6, <1>7
<1>9. \A n \in Nat : Pow2[n] = IF n = 0 THEN 1 ELSE 2 * Pow2[n-1]
  BY <1>8
<1>10. DOMAIN Pow2 = Nat /\ Pow2 = [n \in Nat |-> Pow2[n]]
  BY <1>8
<1> DEFINE S == {n \in Nat : Pow2[n] \in Nat}
<1>11. 0 \in S
  BY <1>9
<1>12. ASSUME NEW n \in Nat, n \in S PROVE n + 1 \in S
  <2>1. n + 1 \in Nat /\ n + 1 # 0 /\ (n + 1) - 1 = n
    OBVIOUS
  <2>2. Pow2[n + 1] = 2 * Pow2[n]
    BY <2>1, <1>9
  <2> QED
    BY <1>12, <2>1, <2>2
<1>13. Nat \subseteq S
  <2> HIDE DEF S
  <2> QED
    BY <1>11, <1>12, NatSteps
<1> HIDE DEF body
<1>14. \A n \in Nat : Pow2[n] \in Nat
  BY <1>13
<1> QED
  BY <1>9, <1>10, <1>14

LEMMA PowStep ==
  ASSUME NEW n \in Nat
  PROVE  Pow2[n+1] = 2 * Pow2[n] /\ Pow2[n] \in Nat /\ Pow2[n+1] \in Nat
<1>1. n + 1 \in Nat /\ n + 1 # 0 /\ (n + 1) - 1 = n
  OBVIOUS
<1>2. Pow2[n] \in Nat /\ Pow2[n+1] \in Nat
  BY <1>1, PowRecursion
<1> QED
  BY <1>1, <1>2, PowRecursion

LEMMA PowZero == Pow2[0] = 1
BY PowRecursion

LEMMA PowPositive == \A n \in Nat : Pow2[n] \in Nat /\ Pow2[n] > 0
<1> DEFINE S == {n \in Nat : Pow2[n] \in Nat /\ Pow2[n] > 0}
<1>1. 0 \in S
  BY PowZero
<1>2. ASSUME NEW n \in Nat, n \in S PROVE n + 1 \in S
  BY <1>2, PowStep
<1> HIDE DEF S
<1>3. Nat \subseteq S
  BY <1>1, <1>2, NatSteps
<1> QED
  BY <1>3 DEF S

LEMMA PowSum ==
  ASSUME NEW a \in Nat, NEW b \in Nat
  PROVE  Pow2[a + b] = Pow2[a] * Pow2[b]
<1> DEFINE S == {n \in Nat : Pow2[a + n] = Pow2[a] * Pow2[n]}
<1>1. 0 \in S
  BY PowZero, PowPositive
<1>2. ASSUME NEW n \in Nat, n \in S PROVE n + 1 \in S
  <2> DEFINE p == Pow2[a + n]
             q == Pow2[a]
             r == Pow2[n]
  <2>1. a + n \in Nat /\ a + (n + 1) = (a + n) + 1 /\ n + 1 \in Nat
    OBVIOUS
  <2>2. p \in Nat /\ q \in Nat /\ r \in Nat
    BY <2>1, PowPositive
  <2>3. Pow2[(a + n) + 1] = 2 * p /\ Pow2[n+1] = 2 * r
    BY <2>1, PowStep
  <2>4. p = q * r
    BY <1>2
  <2>5. Pow2[a + (n + 1)] = 2 * p
    BY <2>1, <2>3
  <2> HIDE DEF p, q, r
  <2>6. Pow2[a + (n + 1)] = q * Pow2[n+1]
    BY <2>2, <2>3, <2>4, <2>5
  <2> QED
    BY <2>1, <2>6 DEF q
<1> HIDE DEF S
<1>3. b \in S
  BY <1>1, <1>2, NatSteps
<1> QED
  BY <1>3 DEF S

LEMMA PowMonotone ==
  ASSUME NEW a \in Nat, NEW b \in Nat, a <= b
  PROVE  Pow2[a] <= Pow2[b]
<1>1. b - a \in Nat /\ a + (b - a) = b
  OBVIOUS
<1>2. Pow2[b] = Pow2[a] * Pow2[b - a]
  BY <1>1, PowSum
<1> DEFINE p == Pow2[a]
           q == Pow2[b - a]
<1>3. p \in Nat /\ q \in Nat /\ p > 0 /\ q > 0
  BY <1>1, PowPositive
<1>4. Pow2[b] = p * q
  BY <1>2
<1> HIDE DEF p, q
<1>5. p * q >= p
  BY <1>3
<1> QED
  BY <1>4, <1>5 DEF p

LEMMA Sizes ==
  /\ HalfBits \in Nat /\ HalfBits > 0 /\ HalfBits \in Widths
  /\ Half \in Nat /\ Half > 1 /\ Full = Half * Half /\ Full \in Nat /\ Full > 1
  /\ Full = 2 * (Full \div 2) /\ Full \div 2 \in Nat /\ Half = 2 * (Half \div 2)
  /\ Half \div 2 \in Nat
<1>1. HalfBits \in Nat /\ HalfBits > 0 /\ HalfBits \in Widths
  BY HalfBitsAssumption DEF Widths
<1> DEFINE p == Pow2[HalfBits - 1]
<1>2. Half = 2 * p /\ p \in Nat /\ p > 0
  <2>1. HalfBits - 1 \in Nat /\ (HalfBits - 1) + 1 = HalfBits
    BY <1>1
  <2> QED
    BY <2>1, PowStep, PowPositive DEF Half
<1>3. Full = Half * Half
  <2>1. 2 * HalfBits = HalfBits + HalfBits
    BY <1>1
  <2> QED
    BY <1>1, <2>1, PowSum DEF Full, Half
<1> HIDE DEF p
<1>4. Half \in Nat /\ Half > 1 /\ Half = 2 * (Half \div 2) /\ Half \div 2 \in Nat
  BY <1>2
<1> DEFINE h == Half
           m == Half \div 2
<1>5. Full = 2 * (m * h)
  BY <1>3, <1>4
<1>6. m * h \in Nat /\ m * h > 0
  BY <1>4
<1> DEFINE k == m * h
<1> HIDE DEF k
<1>7. Full = 2 * k /\ k \in Nat /\ k > 0
  BY <1>5, <1>6 DEF k
<1> QED
  BY <1>1, <1>3, <1>4, <1>7

-----------------------------------------------------------------------------
(* The division's loop.  Numbers are split at t and f: t is the weight of    *)
(* the bits still to come, f that of the bits found.                         *)
LEMMA DivisionRange ==
  ASSUME NEW f \in Nat \ {0}, NEW t \in Nat \ {0}, NEW q \in 0 .. f*t - 1
  PROVE  /\ q \div f \in 0 .. t-1 /\ q % f \in 0 .. f-1
         /\ q = f * (q \div f) + (q % f)
<1> DEFINE h == q \div f
           l == q % f
<1>1. f \in Int /\ f > 0 /\ t \in Int /\ t > 0 /\ f*t \in Int /\ q \in Int /\ 0 <= q /\ q < f*t
  OBVIOUS
<1>2. h \in Int /\ l \in 0 .. f-1 /\ q = f * h + l
  BY <1>1, Division
<1>3. l \in Int /\ 0 <= l /\ l < f
  BY <1>1, <1>2
<1> HIDE DEF h, l
<1>4. h >= 0
  <2>1. SUFFICES ASSUME h <= -1 PROVE FALSE
    BY <1>2
  <2>2. f * h <= -f
    BY <2>1, <1>1, <1>2
  <2> QED
    BY <2>2, <1>1, <1>2, <1>3
<1>5. h < t
  <2>1. SUFFICES ASSUME h >= t PROVE FALSE
    BY <1>1, <1>2
  <2>2. f * h >= f * t
    BY <2>1, <1>1, <1>2
  <2> QED
    BY <2>2, <1>1, <1>2, <1>3
<1> QED
  BY <1>1, <1>2, <1>4, <1>5 DEF h, l

(* The shift of a round: the top bit of q leaves, and below it q keeps the   *)
(* bits still to come, the bits found and the bit found last.                *)
Shifted(f, t, q, c, n) ==
  /\ q \div (f*t) \in {0, 1} /\ n \div (2*f) \in 0 .. t-1
  /\ q \div f = (q \div (f*t)) * t + (n \div (2*f))
  /\ n % (2*f) = 2 * (q % f) + c
  /\ n \in 0 .. 2*(f*t) - 1
LEMMA ShiftLeft ==
  ASSUME NEW f \in Nat \ {0}, NEW t \in Nat \ {0}, NEW q \in 0 .. 2*(f*t) - 1, NEW c \in {0, 1},
         NEW n, n = ((2 * q) % (2*(f*t))) + c
  PROVE  Shifted(f, t, q, c, n)
<1> DEFINE h == q \div f
           l == q % f
           top == h \div t
           k == h % t
<1>1. f \in Int /\ f > 0 /\ t \in Int /\ t > 0 /\ c \in Int /\ 0 <= c /\ c <= 1
  OBVIOUS
<1>a. f*t \in Int /\ f*t > 0 /\ 2*(f*t) = f*(2*t) /\ 2*t \in Nat \ {0} /\ 2*(f*t) = t*(2*f)
  BY <1>1
<1>2. h \in 0 .. 2*t - 1 /\ l \in 0 .. f-1 /\ q = f * h + l
  BY <1>1, <1>a, DivisionRange
<1>3. top \in 0 .. 1 /\ k \in 0 .. t-1 /\ h = t * top + k
  <2>1. h \in 0 .. t*2 - 1
    BY <1>1, <1>2
  <2>2. 2 \in Nat \ {0}
    OBVIOUS
  <2> HIDE DEF h
  <2>3. h \div t \in 0 .. 2-1 /\ h % t \in 0 .. t-1 /\ h = t * (h \div t) + (h % t)
    BY <2>1, <2>2, DivisionRange, Zenon
  <2> QED
    BY <2>3
<1>4. h \in Int /\ l \in Int /\ 0 <= l /\ l < f /\ top \in {0, 1} /\ top \in Int
      /\ k \in Int /\ 0 <= k /\ k < t /\ q \in Int
  BY <1>1, <1>2, <1>3
<1> HIDE DEF h, l, top, k
<1> DEFINE m == f * k + l
<1>5. m \in Int /\ 0 <= m
  <2>1. f * k >= 0
    BY <1>1, <1>4
  <2> QED
    BY <2>1, <1>1, <1>4
<1>6. m < f*t
  <2>1. f * k <= f * (t-1)
    BY <1>1, <1>4
  <2>2. f * (t-1) = f*t - f
    BY <1>1
  <2> QED
    BY <2>1, <2>2, <1>1, <1>4, <1>a
<1>7. q = (f*t) * top + m
  BY <1>1, <1>2, <1>3, <1>4
<1>8. 2 * q = (2*(f*t)) * top + 2*m
  BY <1>7, <1>a, <1>4, <1>5
<1>b. 2*m = (2*f)*k + 2*l
  BY <1>1, <1>4
<1> DEFINE e == f*t
<1>e. e \in Nat \ {0} /\ 2*e \in Nat \ {0}
  BY <1>a
<1>9. q \div e = top
  <2>1. q = e * top + m /\ m \in 0 .. e-1
    BY <1>5, <1>6, <1>7, <1>a
  <2> HIDE DEF e, m
  <2> QED
    BY <2>1, <1>e, <1>4, Quotient
<1>10. (2 * q) % (2*e) = 2*m
  <2>1. 2 * q = (2*e) * top + 2*m /\ 2*m \in 0 .. 2*e - 1
    BY <1>5, <1>6, <1>8, <1>a
  <2> HIDE DEF e, m
  <2> QED
    BY <2>1, <1>e, <1>4, Quotient
<1> DEFINE z == 2*m + c
<1>11. z \div (2*f) = k /\ z % (2*f) = 2*l + c
  <2>1. z = (2*f)*k + (2*l + c)
    BY <1>b, <1>1, <1>4, <1>5
  <2>2. 2*l + c \in 0 .. (2*f) - 1 /\ 2*f \in Nat \ {0}
    BY <1>1, <1>4
  <2> HIDE DEF z, m
  <2> QED
    BY <2>1, <2>2, <1>4, Quotient
<1>12. z \in 0 .. 2*e - 1
  BY <1>1, <1>5, <1>6, <1>a
<1>13. h = top * t + k /\ k + top * t = h
  BY <1>1, <1>3, <1>4
<1>14. n = z
  BY <1>10
<1> HIDE DEF z, m
<1> QED
  BY <1>9, <1>11, <1>12, <1>13, <1>14, <1>4, <1>1 DEF h, l, k, top, Shifted

(* The sign of d - r - 1 in F values: it says that d <= r, when r is below   *)
(* twice d and, for a d in the upper half, also not far below d.             *)
LEMMA SignTells ==
  ASSUME NEW e \in Nat \ {0}, NEW d \in 0 .. 2*e - 1, NEW r \in 0 .. 2*e - 1,
         r < 2*d, d - r - 1 < e
  PROVE  (d - r - 1) % (2*e) >= e <=> r >= d
<1> DEFINE x == d - r - 1
<1>0. 2*e \in Nat \ {0} /\ e \in Int /\ e > 0 /\ d \in Int /\ r \in Int /\ 0 <= r /\ r < 2*e
      /\ 0 <= d /\ d < 2*e
  OBVIOUS
<1>1. CASE r >= d
  <2>1. x = (2*e) * (-1) + (2*e + x) /\ 2*e + x \in 0 .. 2*e - 1 /\ 2*e + x >= e
    BY <1>0, <1>1
  <2> DEFINE y == 2*e + x
             g == 2*e
  <2>3. g \in Nat \ {0} /\ -1 \in Int /\ y \in 0 .. g-1 /\ x = g * (-1) + y /\ y >= e
    BY <2>1, <1>0
  <2> HIDE DEF x, y, g
  <2>2. (g * (-1) + y) % g = y
    BY <2>3, Quotient, Zenon
  <2>4. x % g = y
    BY <2>2, <2>3
  <2> QED
    BY <1>1, <2>3, <2>4 DEF x, g
<1>2. CASE r < d
  <2>1. x = (2*e) * 0 + x /\ x \in 0 .. 2*e - 1 /\ x < e
    BY <1>0, <1>2
  <2> HIDE DEF x
  <2>2. x % (2*e) = x
    BY <2>1, <1>0, Quotient
  <2> QED
    BY <1>2, <2>1, <2>2, <1>0 DEF x
<1> QED
  BY <1>0, <1>1, <1>2

Rounded(t, f, a, b, q, r, c) ==
  LET F  == 2*(f*t)
      r1 == ((2*r) % F) + (q \div (f*t))
      fits == (b - r1 - 1) % F >= f*t
      q2 == ((2*q) % F) + c
      r2 == IF fits THEN (r1 - b) % F ELSE r1
      c2 == IF fits THEN 1 ELSE 0
  IN  /\ q2 \in 0 .. F-1 /\ r1 \in 0 .. F-1 /\ r2 \in 0 .. F-1 /\ r2 < b
      /\ a = (2 * (q2 % (2*f)) + c2) * t * b + r2 * t + (q2 \div (2*f))

LEMMA RoundArithmetic ==
  ASSUME NEW t \in Nat \ {0}, NEW f \in Nat \ {0},
         NEW a \in 0 .. 2*(f*t) - 1, NEW b \in 0 .. 2*(f*t) - 1,
         NEW q \in 0 .. 2*(f*t) - 1, NEW r \in Nat, NEW c \in {0, 1},
         r < b, a = (2 * (q % f) + c) * (2*t) * b + r * (2*t) + (q \div f),
         b > f*t => t = 1 /\ a >= f*t
  PROVE  Rounded(t, f, a, b, q, r, c)
<1> DEFINE F  == 2*(f*t)
           top == q \div (f*t)
           r1 == ((2*r) % F) + top
           fits == (b - r1 - 1) % F >= f*t
           q2 == ((2*q) % F) + c
           r2 == IF fits THEN (r1 - b) % F ELSE r1
           c2 == IF fits THEN 1 ELSE 0
           h == q \div f
           l == q % f
           k == q2 \div (2*f)
           u == 2*l + c
           e == f*t
<1>0. t \in Int /\ t > 0 /\ f \in Int /\ f > 0 /\ c \in {0, 1} /\ e \in Nat /\ e > 0
      /\ a \in Int /\ 0 <= a /\ a < 2*e /\ b \in Int /\ 0 <= b /\ b < 2*e /\ r \in Int /\ 0 <= r
      /\ r < b /\ c \in Int /\ 0 <= c
  OBVIOUS
<1>1. /\ top \in {0, 1} /\ h = top * t + k /\ k \in 0 .. t-1
      /\ q2 % (2*f) = u /\ q2 \in 0 .. F-1
  <2>1. q \in 0 .. 2*(f*t) - 1
    OBVIOUS
  <2>2. /\ top \in {0, 1} /\ h = top * t + k /\ k \in 0 .. t-1
        /\ q2 % (2*f) = 2*(q % f) + c /\ q2 \in 0 .. 2*(f*t) - 1
    <3>1. q2 = ((2 * q) % (2*(f*t))) + c
      OBVIOUS
    <3> HIDE DEF q2
    <3>2. Shifted(f, t, q, c, q2)
      BY <2>1, <3>1, ShiftLeft, Zenon
    <3> QED
      BY <3>2 DEF Shifted
  <2> QED
    BY <2>2
<1>2. l \in 0 .. f-1 /\ h \in Int
  <2>1. f*(2*t) = 2*(f*t) /\ 2*t \in Nat \ {0}
    BY <1>0
  <2>2. q \in 0 .. f*(2*t) - 1
    BY <2>1
  <2> QED
    BY <2>1, <2>2, DivisionRange
<1>3. a = u * (2*t) * b + r * (2*t) + h
  OBVIOUS
<1>4. top \in Int /\ k \in Int /\ 0 <= k /\ k < t /\ u \in Nat /\ 0 <= top /\ top <= 1
  BY <1>0, <1>1, <1>2
<1> HIDE DEF top, q2, h, l, k, u, e
<1> DEFINE v == 2*r + top
<1>5. v \in Nat /\ v < 2*b
  BY <1>0, <1>4
<1>6. a = (u * (2*t)) * b + v * t + k
  <2>1. r * (2*t) + h = v * t + k
    BY <1>0, <1>1, <1>2, <1>4
  <2>2. (u * (2*t)) * b \in Int /\ r * (2*t) \in Int /\ v * t \in Int
    BY <1>0, <1>4, <1>5
  <2> QED
    BY <2>1, <2>2, <1>3, <1>0, <1>2, <1>4
<1>7. (u * (2*t)) * b >= 0 /\ (u * (2*t)) * b \in Int
  <2>1. u * (2*t) \in Nat
    BY <1>0, <1>4
  <2> DEFINE w == u * (2*t)
  <2> HIDE DEF w
  <2>2. w * b >= 0 /\ w * b \in Int
    BY <2>1, <1>0 DEF w
  <2> QED
    BY <2>2 DEF w
<1>8. v * t >= v /\ v * t \in Int
  BY <1>5, <1>0
<1>9. v < 2*e /\ v <= a
  BY <1>6, <1>7, <1>8, <1>4, <1>5, <1>0
<1>10. r1 = v
  <2>1. 2*r \in 0 .. 2*e - 1 /\ 2*e \in Nat \ {0}
    BY <1>9, <1>0, <1>4
  <2>2. (2*r) % (2*e) = 2*r
    <3> DEFINE x == 2*r
               g == 2*e
    <3>1. x \in 0 .. g-1 /\ g \in Nat \ {0}
      BY <2>1
    <3> HIDE DEF x, g
    <3>2. x % g = x
      BY <3>1
    <3> QED
      BY <3>2 DEF x, g
  <2>3. F = 2*e
    BY DEF e
  <2> QED
    BY <2>2, <2>3
<1> HIDE DEF r1, v, F
<1>11. b - v - 1 < e
  <2>1. CASE b <= e
    BY <2>1, <1>0, <1>5
  <2>2. CASE b > e
    <3>1. t = 1 /\ a >= e
      BY <2>2 DEF e
    <3>2. u = 0
      <4>1. SUFFICES ASSUME u >= 1 PROVE FALSE
        BY <1>4
      <4>2. (u * (2*t)) * b >= 2*b
        <5>1. u * (2*t) >= 2
          BY <3>1, <4>1, <1>4
        <5> DEFINE w == u * (2*t)
        <5>2. w \in Int /\ w >= 2
          BY <5>1, <1>0, <1>4
        <5> HIDE DEF w
        <5>3. w * b >= 2*b
          BY <5>2, <1>0
        <5> QED
          BY <5>3 DEF w
      <4> QED
        BY <4>2, <2>2, <1>6, <1>7, <1>8, <1>4, <1>5, <1>0
    <3>3. a = v
      BY <3>1, <3>2, <1>6, <1>4, <1>5, <1>0
    <3> QED
      BY <3>1, <3>3, <1>0
  <2> QED
    BY <2>1, <2>2, <1>0
<1>12. fits <=> v >= b
  <2>1. (b - v - 1) % (2*e) >= e <=> v >= b
    BY <1>5, <1>9, <1>11, <1>0, SignTells
  <2>2. F = 2*e
    BY DEF F, e
  <2> QED
    BY <2>1, <2>2, <1>10 DEF e
<1> HIDE DEF fits
<1>13. r2 = v - c2 * b /\ r2 \in 0 .. 2*e - 1 /\ r2 < b /\ c2 \in {0, 1}
  <2>1. CASE v >= b
    <3>1. v - b \in 0 .. 2*e - 1 /\ 2*e \in Nat \ {0} /\ v - b < b
      BY <2>1, <1>5, <1>9, <1>0
    <3>2. (v - b) % (2*e) = v - b
      BY <3>1, <1>5, <1>0
    <3>3. F = 2*e
      BY DEF F, e
    <3>4. c2 = 1 /\ r2 = (v - b) % (2*e)
      BY <2>1, <1>12, <1>10, <3>3
    <3> QED
      BY <3>1, <3>2, <3>4, <1>0, <1>5
  <2>2. CASE ~(v >= b)
    BY <2>2, <1>12, <1>10, <1>5, <1>9, <1>0
  <2> QED
    BY <2>1, <2>2
<1> HIDE DEF r2, c2
<1>14. a = (2*u + c2) * t * b + r2 * t + k
  <2> DEFINE w == t * b
  <2>1. w \in Int
    BY <1>0
  <2>2. (u * (2*t)) * b = 2 * (u * w)
    BY <1>0, <1>4
  <2>3. r2 * t = v * t - c2 * w
    BY <1>0, <1>5, <1>13
  <2>4. ((2*u + c2) * t) * b = (2*u + c2) * w
    BY <1>0, <1>4, <1>13
  <2>5. (2*u + c2) * w = 2 * (u * w) + c2 * w
    <3> HIDE DEF w
    <3> QED
      BY <2>1, <1>4, <1>13
  <2>6. u * w \in Int /\ c2 * w \in Int /\ v * t \in Int /\ r2 * t \in Int
    BY <2>1, <1>0, <1>4, <1>5, <1>13
  <2> HIDE DEF w
  <2> QED
    BY <2>2, <2>3, <2>4, <2>5, <2>6, <1>6, <1>4
<1>15. F = 2*e
  BY DEF F, e
<1>16. r1 \in 0 .. F-1 /\ r2 \in 0 .. F-1 /\ r2 < b
  BY <1>15, <1>13, <1>10, <1>9, <1>5, <1>0
<1> QED
  BY <1>1, <1>14, <1>16 DEF F, top, r1, fits, q2, r2, c2, k, Rounded

(* The registers s of a division of a by b that is under way: LoopDivides,   *)
(* and what keeps the sign of d - r - 1 honest for a divisor in the upper    *)
(* half of the double words, which leaves one round to do.                   *)
Balance(a, b, s) ==
  a = (2 * (s.q % Pow2[2 * HalfBits - s.sr]) + s.carry) * Pow2[s.sr] * b
      + s.r * Pow2[s.sr] + (s.q \div Pow2[2 * HalfBits - s.sr])
Running(a, b, s) ==
  /\ a \in UDword /\ b \in UDword /\ s \in Locals /\ ~s.done /\ ~s.trap
  /\ s.r < b /\ Balance(a, b, s)
  /\ b > Full \div 2 /\ s.sr > 0 => s.sr = 1 /\ a >= Full \div 2

LEMMA SplitPowers ==
  ASSUME NEW n \in 1 .. 2 * HalfBits
  PROVE  LET f == Pow2[2 * HalfBits - n]
             t == Pow2[n-1]
         IN  /\ f \in Nat \ {0} /\ t \in Nat \ {0} /\ Full = 2 * (f * t) /\ Full \div 2 = f * t
             /\ Pow2[n] = 2 * t /\ Pow2[2 * HalfBits - (n-1)] = 2 * f
<1>1. HalfBits \in Nat
  BY Sizes
<1>2. /\ 2 * HalfBits - n \in Nat /\ n - 1 \in Nat /\ (n - 1) + 1 = n
      /\ 2 * HalfBits - (n-1) = (2 * HalfBits - n) + 1
      /\ 2 * HalfBits = ((2 * HalfBits - n) + 1) + (n - 1) /\ (2 * HalfBits - n) + 1 \in Nat
  BY <1>1
<1> DEFINE f == Pow2[2 * HalfBits - n]
           t == Pow2[n-1]
<1>3. f \in Nat \ {0} /\ t \in Nat \ {0}
  BY <1>2, PowPositive
<1>4. Pow2[n] = 2 * t /\ Pow2[2 * HalfBits - (n-1)] = 2 * f
  <2>1. Pow2[(n-1) + 1] = 2 * t
    BY <1>2, PowStep
  <2>2. Pow2[(2 * HalfBits - n) + 1] = 2 * f
    BY <1>2, PowStep
  <2> QED
    BY <2>1, <2>2, <1>2
<1>5. Full = (2 * f) * t
  <2>1. Pow2[((2 * HalfBits - n) + 1) + (n - 1)] = Pow2[(2 * HalfBits - n) + 1] * t
    BY <1>2, PowSum
  <2>2. Pow2[(2 * HalfBits - n) + 1] = 2 * f
    BY <1>2, PowStep
  <2> QED
    BY <2>1, <2>2, <1>2 DEF Full
<1> HIDE DEF f, t
<1>6. Full = 2 * (f * t)
  BY <1>3, <1>5
<1> DEFINE e == f * t
<1>7. e \in Nat /\ Full = 2 * e
  BY <1>3, <1>6
<1> HIDE DEF e
<1>8. Full \div 2 = e
  BY <1>7
<1> QED
  BY <1>3, <1>4, <1>6, <1>8 DEF e, f, t

LEMMA RoundKeeps ==
  ASSUME NEW a, NEW b, NEW s, Running(a, b, s), s.sr > 0
  PROVE  Running(a, b, Round(s, b)) /\ Round(s, b).sr = s.sr - 1
<1> DEFINE n == s.sr
           f == Pow2[2 * HalfBits - n]
           t == Pow2[n-1]
           q == s.q
           r == s.r
           c == s.carry
           r1 == Bits(2 * s.r) + (s.q \div (Full \div 2))
           fits == Bits(b - r1 - 1) >= Full \div 2
           q2 == Bits(2 * s.q) + s.carry
           r2 == IF fits THEN Bits(r1 - b) ELSE r1
           c2 == IF fits THEN 1 ELSE 0
           s2 == Round(s, b)
<1>1. /\ a \in 0 .. Full-1 /\ b \in 0 .. Full-1 /\ q \in 0 .. Full-1 /\ r \in 0 .. Full-1
      /\ n \in 0 .. 2 * HalfBits /\ c \in {0, 1} /\ s \in Locals
  BY DEF Running, Locals, UDword
<1>2. n \in 1 .. 2 * HalfBits
  BY <1>1, Sizes
<1>3. /\ f \in Nat \ {0} /\ t \in Nat \ {0} /\ Full = 2 * (f * t) /\ Full \div 2 = f * t
      /\ Pow2[n] = 2 * t /\ Pow2[2 * HalfBits - (n-1)] = 2 * f
  BY <1>2, SplitPowers
<1>4. r < b /\ a = (2 * (q % f) + c) * (2 * t) * b + r * (2 * t) + (q \div f)
  BY <1>3 DEF Running, Balance
<1>5. b > f * t => t = 1 /\ a >= f * t
  BY <1>3, PowZero DEF Running
<1>6. s2 = [s EXCEPT !.q = q2, !.r = r2, !.carry = c2, !.sr = n - 1]
  BY DEF Round
<1>7. s2.q = q2 /\ s2.r = r2 /\ s2.carry = c2 /\ s2.sr = n - 1 /\ s2.done = s.done /\ s2.trap = s.trap
  BY <1>6, <1>1 DEF Locals
<1>8. /\ q2 = ((2*q) % (2*(f*t))) + c /\ r1 = ((2*r) % (2*(f*t))) + (q \div (f*t))
      /\ (fits <=> (b - r1 - 1) % (2*(f*t)) >= f*t)
      /\ r2 = IF fits THEN (r1 - b) % (2*(f*t)) ELSE r1
  BY <1>3 DEF Bits
<1>9. /\ q2 \in 0 .. Full-1 /\ r2 \in 0 .. Full-1 /\ r2 < b
      /\ a = (2 * (q2 % (2*f)) + c2) * t * b + r2 * t + (q2 \div (2*f))
  <2>1. a \in 0 .. 2*(f*t) - 1 /\ b \in 0 .. 2*(f*t) - 1 /\ q \in 0 .. 2*(f*t) - 1 /\ r \in Nat
    BY <1>1, <1>3
  <2>2. c2 = IF fits THEN 1 ELSE 0
    OBVIOUS
  <2> HIDE DEF n, f, t, q, r, c, r1, fits, q2, r2, c2
  <2>3. Rounded(t, f, a, b, q, r, c)
    <3>1. t \in Nat \ {0} /\ f \in Nat \ {0} /\ c \in {0, 1}
      BY <1>1, <1>3
    <3> QED
      BY <3>1, <2>1, <1>4, <1>5, RoundArithmetic, ZenonT(30)
  <2>4. Full - 1 = 2*(f*t) - 1
    BY <1>3
  <2> QED
    BY <2>2, <2>3, <2>4, <1>8 DEF Rounded
<1>10. s2 \in Locals
  <2>1. s2 = [done |-> s.done, trap |-> s.trap, q |-> q2, r |-> r2, sr |-> n - 1, carry |-> c2]
    BY <1>6, <1>1 DEF Locals
  <2>2. s.done \in BOOLEAN /\ s.trap \in BOOLEAN /\ n - 1 \in 0 .. 2 * HalfBits /\ c2 \in {0, 1}
    BY <1>1, <1>2, Sizes DEF Locals
  <2> HIDE DEF q2, r2, c2, n, s2
  <2> QED
    BY <2>1, <2>2, <1>9 DEF Locals, UDword
<1>11. Balance(a, b, s2)
  <2>1. Balance(a, b, s2) <=>
          a = (2 * (s2.q % Pow2[2 * HalfBits - s2.sr]) + s2.carry) * Pow2[s2.sr] * b
              + s2.r * Pow2[s2.sr] + (s2.q \div Pow2[2 * HalfBits - s2.sr])
    BY DEF Balance
  <2>2. Pow2[2 * HalfBits - s2.sr] = 2*f /\ Pow2[s2.sr] = t
    BY <1>3, <1>7
  <2> HIDE DEF q2, r2, c2, n, s2, f, t
  <2> QED
    BY <2>1, <2>2, <1>7, <1>9
<1>12. b > Full \div 2 /\ s2.sr > 0 => s2.sr = 1 /\ a >= Full \div 2
  <2>1. b > Full \div 2 => n = 1
    BY <1>2 DEF Running
  <2> HIDE DEF s2
  <2> QED
    BY <2>1, <1>7
<1>13. ~s.done /\ ~s.trap
  BY DEF Running
<1> HIDE DEF s2, q2, r2, c2, f, t, q, r, c
<1>14. Running(a, b, s2)
  BY <1>1, <1>7, <1>9, <1>10, <1>11, <1>12, <1>13 DEF Running, UDword
<1> QED
  BY <1>7, <1>14 DEF s2

(* When no bit is left to come, the registers hold the quotient but for its  *)
(* last bit, and the remainder.                                              *)
LastFound(g, a, b, q, r, c) == ((2 * q) % g) + c = a \div b /\ r = a % b
LEMMA LastBit ==
  ASSUME NEW g \in Nat \ {0}, NEW a \in 0 .. g-1, NEW b \in 0 .. g-1, NEW q \in 0 .. g-1,
         NEW r \in Nat, NEW c \in {0, 1}, r < b, a = (2 * q + c) * b + r
  PROVE  LastFound(g, a, b, q, r, c)
<1>1. /\ g \in Int /\ a \in Int /\ a < g /\ b \in Int /\ b > 0 /\ q \in Int /\ 0 <= q
      /\ r \in Int /\ 0 <= r /\ c \in Int /\ 0 <= c
  OBVIOUS
<1> DEFINE u == 2 * q + c
<1>2. u \in Nat /\ u >= 2 * q
  BY <1>1
<1>3. a = b * u + r
  BY <1>1
<1> HIDE DEF u
<1>4. b * u >= u
  BY <1>1, <1>2
<1>5. 2 * q \in 0 .. g-1
  BY <1>1, <1>2, <1>3, <1>4
<1>6. (2 * q) % g = 2 * q
  <2> DEFINE x == 2 * q
  <2>1. x \in 0 .. g-1
    BY <1>5
  <2> HIDE DEF x
  <2>2. x % g = x
    BY <2>1
  <2> QED
    BY <2>2 DEF x
<1>7. b \in Nat \ {0} /\ r \in 0 .. b-1 /\ u \in Int
  BY <1>1, <1>2
<1>8. (b * u + r) \div b = u /\ (b * u + r) % b = r
  BY <1>7, Quotient
<1> QED
  BY <1>3, <1>6, <1>8 DEF u, LastFound

LEMMA FinishRight ==
  ASSUME NEW a, NEW b, NEW s, Running(a, b, s), s.sr = 0
  PROVE  /\ Finish(s) \in Locals /\ Finish(s).done /\ ~Finish(s).trap
         /\ Finish(s).q = a \div b /\ Finish(s).r = a % b
<1>1. /\ a \in 0 .. Full-1 /\ b \in 0 .. Full-1 /\ s.q \in 0 .. Full-1 /\ s.r \in 0 .. Full-1
      /\ s.carry \in {0, 1} /\ s \in Locals /\ s.trap = FALSE /\ s.r < b
  BY DEF Running, Locals, UDword
<1>2. Pow2[s.sr] = 1 /\ Pow2[2 * HalfBits - s.sr] = Full
  BY PowZero, Sizes DEF Running, Full
<1>3. s.q % Full = s.q /\ s.q \div Full = 0
  BY <1>1, Sizes
<1>4. a = (2 * s.q + s.carry) * b + s.r
  <2>1. a = (2 * s.q + s.carry) * 1 * b + s.r * 1 + 0
    BY <1>2, <1>3 DEF Running, Balance
  <2> DEFINE u == 2 * s.q + s.carry
  <2>2. u \in Int /\ b \in Int /\ s.r \in Int
    BY <1>1, Sizes
  <2> HIDE DEF u
  <2>3. a = u * 1 * b + s.r * 1 + 0
    BY <2>1 DEF u
  <2>4. a = u * b + s.r
    BY <2>2, <2>3
  <2> QED
    BY <2>4 DEF u
<1>5. Bits(2 * s.q) + s.carry = a \div b /\ s.r = a % b
  <2>1. Full \in Nat \ {0} /\ s.r \in Nat
    BY <1>1, Sizes
  <2> DEFINE q == s.q
             r == s.r
             c == s.carry
  <2>2. /\ a \in 0 .. Full-1 /\ b \in 0 .. Full-1 /\ q \in 0 .. Full-1 /\ c \in {0, 1}
        /\ r < b /\ a = (2 * q + c) * b + r /\ r \in Nat
    BY <1>1, <1>4, <2>1
  <2> HIDE DEF q, r, c
  <2>3. LastFound(Full, a, b, q, r, c)
    BY <2>1, <2>2, LastBit
  <2> QED
    BY <2>3 DEF Bits, q, r, c, LastFound
<1>6. Bits(2 * s.q) + s.carry \in 0 .. Full-1
  <2>1. /\ a \in Int /\ 0 <= a /\ a <= Full - 1 /\ b \in Nat \ {0}
    BY <1>1, Sizes
  <2>2. a \div b >= 0 /\ a \div b <= a /\ a \div b \in Int
    <3>1. a \div b \in Int /\ a % b \in 0 .. b-1 /\ a = b * (a \div b) + (a % b)
      BY <2>1, Division
    <3> DEFINE p == a \div b
               m == a % b
    <3>2. p \in Int /\ m \in Int /\ 0 <= m /\ m < b /\ a = b * p + m
      BY <3>1, <2>1
    <3> HIDE DEF p, m
    <3>3. p >= 0
      <4>1. SUFFICES ASSUME p <= -1 PROVE FALSE
        BY <3>2
      <4>2. b * p <= -b
        BY <4>1, <2>1, <3>2
      <4> QED
        BY <4>2, <2>1, <3>2
    <3>4. b * p >= p
      BY <3>3, <2>1, <3>2
    <3>5. p <= a
      BY <3>4, <3>2, <2>1
    <3> QED
      BY <3>2, <3>3, <3>5 DEF p
  <2> QED
    BY <1>5, <2>1, <2>2, Sizes
<1> DEFINE u == Bits(2 * s.q) + s.carry
<1>7. Finish(s) = [s EXCEPT !.done = TRUE, !.q = u, !.carry = 0]
  BY DEF Finish
<1>8. u \in UDword /\ u = a \div b
  BY <1>5, <1>6 DEF UDword
<1> HIDE DEF u
<1> QED
  BY <1>1, <1>5, <1>7, <1>8 DEF Locals

(* The loop starts with a shifted right by n, which leaves less than b, and  *)
(* the bits shifted out on top of q.                                         *)
LEMMA LoopRuns ==
  ASSUME NEW a \in UDword, NEW b \in UDword, NEW n \in 0 .. 2 * HalfBits,
         a \div Pow2[n] < b, b > Full \div 2 /\ n > 0 => n = 1 /\ a >= Full \div 2
  PROVE  Running(a, b, Loop(a, n))
<1> DEFINE t == Pow2[n]
           f == Pow2[2 * HalfBits - n]
           h == a \div t
           l == a % t
           q == (a * f) % Full
           s == Loop(a, n)
<1>1. HalfBits \in Nat /\ n \in Nat /\ 2 * HalfBits - n \in Nat /\ (2 * HalfBits - n) + n = 2 * HalfBits
  BY Sizes
<1>2. t \in Nat \ {0} /\ f \in Nat \ {0} /\ Full = f * t
  <2>1. Pow2[(2 * HalfBits - n) + n] = f * t
    BY <1>1, PowSum
  <2> QED
    BY <2>1, <1>1, PowPositive DEF Full
<1>3. a \in 0 .. Full-1 /\ b \in 0 .. Full-1
  BY DEF UDword
<1>4. h \in 0 .. f-1 /\ l \in 0 .. t-1 /\ a = t * h + l
  <2>1. Full = t * f
    BY <1>2
  <2>2. a \in 0 .. t * f - 1
    BY <1>3, <2>1
  <2> QED
    BY <1>2, <2>2, DivisionRange
<1> HIDE DEF t, f, h, l
<1>5. q = f * l /\ f * l \in 0 .. Full-1
  <2>1. a * f = Full * h + f * l
    BY <1>2, <1>4
  <2>2. f * l \in Int /\ f * l >= 0 /\ f * l <= f * (t-1) /\ f * (t-1) = f * t - f
    BY <1>2, <1>4
  <2>3. f * l \in 0 .. Full-1
    BY <2>2, <1>2
  <2> DEFINE x == f * l
  <2>4. x \in 0 .. Full-1 /\ a * f = Full * h + x /\ h \in Int /\ Full \in Nat \ {0}
    BY <2>1, <2>3, <1>4, <1>2, Sizes
  <2> HIDE DEF x
  <2>5. (Full * h + x) % Full = x
    BY <2>4, Quotient
  <2> QED
    BY <2>4, <2>5 DEF x
<1>6. q % f = 0 /\ q \div f = l
  <2>1. f * l = f * l + 0 /\ 0 \in 0 .. f-1 /\ l \in Int /\ f \in Nat \ {0}
    BY <1>2, <1>4
  <2>2. (f * l + 0) \div f = l /\ (f * l + 0) % f = 0
    BY <2>1, Quotient
  <2> QED
    BY <2>1, <2>2, <1>5
<1>7. s = [done |-> FALSE, trap |-> FALSE, q |-> q, r |-> h, sr |-> n, carry |-> 0]
  BY DEF Loop, Bits, Shr, f, t, h
<1>8. h \in 0 .. Full-1
  <2>1. t * h >= h
    BY <1>2, <1>4
  <2> QED
    BY <2>1, <1>2, <1>3, <1>4, Sizes
<1>9. s \in Locals
  BY <1>5, <1>7, <1>8 DEF Locals, UDword
<1>10. a = (2 * 0 + 0) * t * b + h * t + l
  <2>1. (2 * 0 + 0) * t * b = 0
    BY <1>2, <1>3, Sizes
  <2>2. h * t = t * h
    BY <1>2, <1>4
  <2> QED
    BY <2>1, <2>2, <1>2, <1>4
<1>11. Balance(a, b, s)
  <2>1. s.q = q /\ s.sr = n /\ s.carry = 0 /\ s.r = h
    BY <1>7
  <2>2. Pow2[2 * HalfBits - s.sr] = f /\ Pow2[s.sr] = t
    BY <2>1 DEF f, t
  <2> HIDE DEF q, s
  <2> QED
    BY <2>1, <2>2, <1>6, <1>10 DEF Balance
<1>12. h < b
  BY DEF h, t
<1> HIDE DEF q
<1>13. s.r = h /\ s.sr = n /\ ~s.done /\ ~s.trap
  BY <1>7
<1> HIDE DEF s
<1>14. Running(a, b, s)
  BY <1>9, <1>11, <1>12, <1>13 DEF Running
<1> QED
  BY <1>14 DEF s

-----------------------------------------------------------------------------
(* The counts of zeros.                                                      *)
LEMMA QuotientSmall ==
  ASSUME NEW x \in Nat, NEW d \in Nat \ {0}
  PROVE  /\ x \div d \in Nat /\ x \div d <= x /\ x % d \in 0 .. d-1
         /\ x = d * (x \div d) + (x % d)
<1> DEFINE p == x \div d
           m == x % d
<1>1. p \in Int /\ m \in 0 .. d-1 /\ x = d * p + m
  BY Division
<1>2. d \in Int /\ d > 0 /\ m \in Int /\ 0 <= m /\ m < d /\ p \in Int
  BY <1>1
<1> HIDE DEF p, m
<1>3. p >= 0
  <2>1. SUFFICES ASSUME p <= -1 PROVE FALSE
    BY <1>2
  <2>2. d * p <= -d
    BY <2>1, <1>2
  <2> QED
    BY <2>2, <1>1, <1>2
<1>4. d * p >= p
  BY <1>2, <1>3
<1> QED
  BY <1>1, <1>2, <1>3, <1>4 DEF p, m

LEMMA ShiftedWord ==
  ASSUME NEW x \in UWord, NEW n \in Nat
  PROVE  Shr(x, n) \in UWord
<1>1. Pow2[n] \in Nat \ {0}
  BY PowPositive
<1>2. x \in Nat /\ x <= Half - 1
  BY Sizes DEF UWord
<1>3. x \div Pow2[n] \in Nat /\ x \div Pow2[n] <= x
  BY <1>1, <1>2, QuotientSmall
<1> QED
  BY <1>2, <1>3, Sizes DEF UWord, Shr

LEMMA HalfWidths ==
  /\ \A w \in Widths \ {2} : w \div 2 \in Widths /\ w \div 2 < w /\ w = (w \div 2) + (w \div 2)
  /\ \A w \in Widths : w \in Nat /\ w > 0 /\ w \div 2 \in Nat
BY DEF Widths

(* clz and ctz meet the equations they are defined by.                       *)
LEMMA ClzUnfolds ==
  ASSUME NEW w \in Widths, NEW x \in UWord
  PROVE  clz[w][x] = IF w = 2 THEN IF x >= 2 THEN 0 ELSE 2 - x
                     ELSE LET t == IF x \div Pow2[w \div 2] = 0 THEN w \div 2 ELSE 0
                          IN  t + clz[w \div 2][Shr(x, (w \div 2) - t)]
<1> DEFINE V == [UWord -> Int]
           size == [n \in Widths |-> n]
           base == [n \in Widths |-> [y \in UWord |-> IF y >= 2 THEN 0 ELSE 2 - y]]
           nxt  == [n \in Widths |-> n \div 2]
           t(n, y) == IF y \div Pow2[n \div 2] = 0 THEN n \div 2 ELSE 0
           G == [n \in Widths |-> [v \in V |-> [y \in UWord |->
                    (IF y \div Pow2[n \div 2] = 0 THEN n \div 2 ELSE 0)
                    + v[Shr(y, (n \div 2) - (IF y \div Pow2[n \div 2] = 0 THEN n \div 2 ELSE 0))]]]]
           body(f) == [n \in Widths |-> [y \in UWord |->
                          IF n = 2 THEN IF y >= 2 THEN 0 ELSE 2 - y
                          ELSE LET tt == IF y \div Pow2[n \div 2] = 0 THEN n \div 2 ELSE 0
                               IN  tt + f[n \div 2][Shr(y, (n \div 2) - tt)]]]
<1>1. \A n \in Widths, y \in UWord : t(n, y) \in Nat /\ Shr(y, (n \div 2) - t(n, y)) \in UWord
  <2> SUFFICES ASSUME NEW n \in Widths, NEW y \in UWord
               PROVE  t(n, y) \in Nat /\ Shr(y, (n \div 2) - t(n, y)) \in UWord
    OBVIOUS
  <2>1. t(n, y) \in Nat /\ (n \div 2) - t(n, y) \in Nat
    BY HalfWidths
  <2> HIDE DEF t
  <2> QED
    BY <2>1, ShiftedWord
<1>2. base \in [Widths -> V]
  <2>1. \A y \in UWord : (IF y >= 2 THEN 0 ELSE 2 - y) \in Int
    BY DEF UWord
  <2> QED
    BY <2>1
<1>3. \A n \in Widths, v \in V, y \in UWord :
         (IF y \div Pow2[n \div 2] = 0 THEN n \div 2 ELSE 0)
         + v[Shr(y, (n \div 2) - (IF y \div Pow2[n \div 2] = 0 THEN n \div 2 ELSE 0))] \in Int
  <2> SUFFICES ASSUME NEW n \in Widths, NEW v \in V, NEW y \in UWord
               PROVE  t(n, y) + v[Shr(y, (n \div 2) - t(n, y))] \in Int
    OBVIOUS
  <2>1. t(n, y) \in Nat /\ Shr(y, (n \div 2) - t(n, y)) \in UWord
    BY <1>1
  <2> HIDE DEF t
  <2> QED
    BY <2>1
<1>4. G \in [Widths -> [V -> V]]
  BY <1>3
<1>5. size \in [Widths -> Nat] /\ \A n \in Widths : size[n] = n
  BY HalfWidths
<1>6. \A n \in Widths \ {2} : nxt[n] \in Widths /\ size[nxt[n]] < size[n]
  BY HalfWidths
<1>7. Shrinks(Widths, V, size, {2}, base, nxt, G)
  <2> HIDE DEF V, size, base, nxt, G
  <2> QED
    BY <1>2, <1>4, <1>5, <1>6 DEF Shrinks
<1>8. \A n \in Widths : base[n] = [y \in UWord |-> IF y >= 2 THEN 0 ELSE 2 - y]
  OBVIOUS
<1>9. \A n \in Widths : \A v \in V : G[n][v] = [y \in UWord |->
         (IF y \div Pow2[n \div 2] = 0 THEN n \div 2 ELSE 0)
         + v[Shr(y, (n \div 2) - (IF y \div Pow2[n \div 2] = 0 THEN n \div 2 ELSE 0))]]
  OBVIOUS
<1>10. \A n \in Widths : nxt[n] = n \div 2
  OBVIOUS
<1> HIDE DEF size, base, nxt, G
<1>11. PICK f \in [Widths -> V] : \A n \in Widths : Unfolds(f, n, {2}, base, nxt, G)
  <2> HIDE DEF V
  <2> QED
    BY <1>7, Recursion
<1>12. ASSUME NEW n \in Widths
       PROVE  f[n] = [y \in UWord |->
                          IF n = 2 THEN IF y >= 2 THEN 0 ELSE 2 - y
                          ELSE LET tt == IF y \div Pow2[n \div 2] = 0 THEN n \div 2 ELSE 0
                               IN  tt + f[n \div 2][Shr(y, (n \div 2) - tt)]]
  <2>1. f[n] = IF n = 2 THEN base[n] ELSE G[n][f[nxt[n]]]
    BY <1>11 DEF Unfolds
  <2>2. CASE n = 2
    BY <2>1, <2>2, <1>8
  <2>3. CASE n # 2
    <3>1. nxt[n] = n \div 2 /\ f[n \div 2] \in V
      BY <2>3, <1>10, HalfWidths
    <3>2. f[n] = G[n][f[n \div 2]]
      BY <2>1, <2>3, <3>1
    <3> DEFINE v == f[n \div 2]
    <3>3. f[n] = G[n][v] /\ v \in V
      BY <3>1, <3>2
    <3> HIDE DEF v
    <3>4. f[n] = [y \in UWord |->
            (IF y \div Pow2[n \div 2] = 0 THEN n \div 2 ELSE 0)
            + v[Shr(y, (n \div 2) - (IF y \div Pow2[n \div 2] = 0 THEN n \div 2 ELSE 0))]]
      <4> HIDE DEF V
      <4> QED
        BY <3>3, <1>9
    <3> QED
      BY <3>4, <2>3 DEF v
  <2> QED
    BY <2>2, <2>3
<1>13. f = body(f)
  BY <1>12
<1>14. clz = CHOOSE g : g = body(g)
  BY DEF clz
<1>15. clz = body(clz)
  <2> HIDE DEF body
  <2> QED
    BY <1>13, <1>14
<1>16. clz[w] = [y \in UWord |->
                   IF w = 2 THEN IF y >= 2 THEN 0 ELSE 2 - y
                   ELSE LET tt == IF y \div Pow2[w \div 2] = 0 THEN w \div 2 ELSE 0
                        IN  tt + clz[w \div 2][Shr(y, (w \div 2) - tt)]]
  BY <1>15
<1> HIDE DEF body
<1> QED
  BY <1>16

LEMMA CtzUnfolds ==
  ASSUME NEW w \in Widths, NEW x \in UWord
  PROVE  ctz[w][x] = IF w = 2 THEN IF x % 2 = 1 THEN 0 ELSE 2 - ((x % 4) \div 2)
                     ELSE LET t == IF x % Pow2[w \div 2] = 0 THEN w \div 2 ELSE 0
                          IN  t + ctz[w \div 2][Shr(x, t)]
<1> DEFINE V == [UWord -> Int]
           size == [n \in Widths |-> n]
           base == [n \in Widths |-> [y \in UWord |-> IF y % 2 = 1 THEN 0 ELSE 2 - ((y % 4) \div 2)]]
           nxt  == [n \in Widths |-> n \div 2]
           t(n, y) == IF y % Pow2[n \div 2] = 0 THEN n \div 2 ELSE 0
           G == [n \in Widths |-> [v \in V |-> [y \in UWord |->
                    (IF y % Pow2[n \div 2] = 0 THEN n \div 2 ELSE 0)
                    + v[Shr(y, IF y % Pow2[n \div 2] = 0 THEN n \div 2 ELSE 0)]]]]
           body(f) == [n \in Widths |-> [y \in UWord |->
                          IF n = 2 THEN IF y % 2 = 1 THEN 0 ELSE 2 - ((y % 4) \div 2)
                          ELSE LET tt == IF y % Pow2[n \div 2] = 0 THEN n \div 2 ELSE 0
                               IN  tt + f[n \div 2][Shr(y, tt)]]]
<1>1. \A n \in Widths, y \in UWord : t(n, y) \in Nat /\ Shr(y, t(n, y)) \in UWord
  <2> SUFFICES ASSUME NEW n \in Widths, NEW y \in UWord
               PROVE  t(n, y) \in Nat /\ Shr(y, t(n, y)) \in UWord
    OBVIOUS
  <2>1. t(n, y) \in Nat
    BY HalfWidths
  <2> HIDE DEF t
  <2> QED
    BY <2>1, ShiftedWord
<1>2. base \in [Widths -> V]
  <2>1. \A y \in UWord : (IF y % 2 = 1 THEN 0 ELSE 2 - ((y % 4) \div 2)) \in Int
    BY DEF UWord
  <2> QED
    BY <2>1
<1>3. \A n \in Widths, v \in V, y \in UWord :
         (IF y % Pow2[n \div 2] = 0 THEN n \div 2 ELSE 0)
         + v[Shr(y, IF y % Pow2[n \div 2] = 0 THEN n \div 2 ELSE 0)] \in Int
  <2> SUFFICES ASSUME NEW n \in Widths, NEW v \in V, NEW y \in UWord
               PROVE  t(n, y) + v[Shr(y, t(n, y))] \in Int
    OBVIOUS
  <2>1. t(n, y) \in Nat /\ Shr(y, t(n, y)) \in UWord
    BY <1>1
  <2> HIDE DEF t
  <2> QED
    BY <2>1
<1>4. G \in [Widths -> [V -> V]]
  BY <1>3
<1>5. size \in [Widths -> Nat] /\ \A n \in Widths : size[n] = n
  BY HalfWidths
<1>6. \A n \in Widths \ {2} : nxt[n] \in Widths /\ size[nxt[n]] < size[n]
  BY HalfWidths
<1>7. Shrinks(Widths, V, size, {2}, base, nxt, G)
  <2> HIDE DEF V, size, base, nxt, G
  <2> QED
    BY <1>2, <1>4, <1>5, <1>6 DEF Shrinks
<1>8. \A n \in Widths : base[n] = [y \in UWord |-> IF y % 2 = 1 THEN 0 ELSE 2 - ((y % 4) \div 2)]
  OBVIOUS
<1>9. \A n \in Widths : \A v \in V : G[n][v] = [y \in UWord |->
         (IF y % Pow2[n \div 2] = 0 THEN n \div 2 ELSE 0)
         + v[Shr(y, IF y % Pow2[n \div 2] = 0 THEN n \div 2 ELSE 0)]]
  OBVIOUS
<1>10. \A n \in Widths : nxt[n] = n \div 2
  OBVIOUS
<1> HIDE DEF size, base, nxt, G
<1>11. PICK f \in [Widths -> V] : \A n \in Widths : Unfolds(f, n, {2}, base, nxt, G)
  <2> HIDE DEF V
  <2> QED
    BY <1>7, Recursion
<1>12. ASSUME NEW n \in Widths
       PROVE  f[n] = [y \in UWord |->
                          IF n = 2 THEN IF y % 2 = 1 THEN 0 ELSE 2 - ((y % 4) \div 2)
                          ELSE LET tt == IF y % Pow2[n \div 2] = 0 THEN n \div 2 ELSE 0
                               IN  tt + f[n \div 2][Shr(y, tt)]]
  <2>1. f[n] = IF n = 2 THEN base[n] ELSE G[n][f[nxt[n]]]
    BY <1>11 DEF Unfolds
  <2>2. CASE n = 2
    BY <2>1, <2>2, <1>8
  <2>3. CASE n # 2
    <3>1. nxt[n] = n \div 2 /\ f[n \div 2] \in V
      BY <2>3, <1>10, HalfWidths
    <3>2. f[n] = G[n][f[n \div 2]]
      BY <2>1, <2>3, <3>1
    <3> QED
      BY <3>1, <3>2, <2>3, <1>9
  <2> QED
    BY <2>2, <2>3
<1>13. f = body(f)
  BY <1>12
<1>14. ctz = CHOOSE g : g = body(g)
  BY DEF ctz
<1>15. ctz = body(ctz)
  <2> HIDE DEF body
  <2> QED
    BY <1>13, <1>14
<1>16. ctz[w] = [y \in UWord |->
                   IF w = 2 THEN IF y % 2 = 1 THEN 0 ELSE 2 - ((y % 4) \div 2)
                   ELSE LET tt == IF y % Pow2[w \div 2] = 0 THEN w \div 2 ELSE 0
                        IN  tt + ctz[w \div 2][Shr(y, tt)]]
  BY <1>15
<1> HIDE DEF body
<1> QED
  BY <1>16

(* clz counts the zeros above the top bit of x, ctz those below the lowest.  *)
Leading(w, x, k) == k \in 0 .. w-1 /\ Pow2[w - 1 - k] <= x /\ x < Pow2[w - k]
Trailing(w, x, k) == k \in 0 .. w-1 /\ \E m \in Nat : x = Pow2[k] * (2*m + 1)
ClzCounts(w) == \A x \in UWord : x > 0 /\ x < Pow2[w] => Leading(w, x, clz[w][x])
CtzCounts(w) == \A x \in UWord : x % Pow2[w] # 0 => Trailing(w, x, ctz[w][x])

LEMMA SmallPowers == Pow2[0] = 1 /\ Pow2[1] = 2 /\ Pow2[2] = 4
<1>1. Pow2[0 + 1] = 2 * Pow2[0] /\ Pow2[1 + 1] = 2 * Pow2[1]
  BY PowStep
<1> QED
  BY <1>1, PowZero

LEMMA ClzBase == ClzCounts(2)
<1> SUFFICES ASSUME NEW x \in UWord, x > 0, x < Pow2[2] PROVE Leading(2, x, clz[2][x])
  BY DEF ClzCounts
<1>1. 2 \in Widths
  BY DEF Widths
<1>2. clz[2][x] = IF x >= 2 THEN 0 ELSE 2 - x
  BY <1>1, ClzUnfolds
<1>3. x \in {1, 2, 3}
  BY SmallPowers DEF UWord
<1> DEFINE k == clz[2][x]
<1>4. (x = 1 => k = 1) /\ (x # 1 => k = 0)
  BY <1>2, <1>3
<1> HIDE DEF k
<1>5. (x = 1 => 2 - 1 - k = 0 /\ 2 - k = 1) /\ (x # 1 => 2 - 1 - k = 1 /\ 2 - k = 2)
  BY <1>4
<1>6. k \in 0 .. 2-1
  BY <1>3, <1>4
<1>7. Leading(2, x, k)
  BY <1>3, <1>5, <1>6, SmallPowers DEF Leading
<1> QED
  BY <1>7 DEF k

LEMMA ClzStep ==
  ASSUME NEW w \in Widths \ {2}, ClzCounts(w \div 2)
  PROVE  ClzCounts(w)
<1> DEFINE h == w \div 2
           p == Pow2[h]
<1>1. h \in Widths /\ h \in Nat /\ h > 0 /\ w = h + h /\ w \in Nat
  BY HalfWidths
<1>2. p \in Nat \ {0} /\ Pow2[w] = p * p
  <2>1. Pow2[h + h] = p * p
    BY <1>1, PowSum
  <2> QED
    BY <2>1, <1>1, PowPositive
<1> SUFFICES ASSUME NEW x \in UWord, x > 0, x < Pow2[w] PROVE Leading(w, x, clz[w][x])
  BY DEF ClzCounts
<1>3. x \in Nat
  BY DEF UWord
<1>4. clz[w][x] = LET t == IF x \div p = 0 THEN h ELSE 0 IN t + clz[h][Shr(x, h - t)]
  BY ClzUnfolds
<1> HIDE DEF h
<1>5. x \div p \in Nat /\ x % p \in 0 .. p-1 /\ x = p * (x \div p) + (x % p)
  BY <1>2, <1>3, QuotientSmall
<1>6. CASE x \div p = 0
  <2>1. h - h = 0 /\ Shr(x, 0) = x
    BY <1>1, <1>3, PowZero DEF Shr
  <2>2. clz[w][x] = h + clz[h][x]
    BY <1>4, <1>6, <2>1
  <2>3. x < p
    BY <1>5, <1>6, <1>2
  <2>4. Leading(h, x, clz[h][x])
    BY <2>3 DEF ClzCounts, h
  <2> DEFINE k == clz[h][x]
  <2>5. k \in 0 .. h-1 /\ Pow2[h - 1 - k] <= x /\ x < Pow2[h - k]
    BY <2>4 DEF Leading
  <2> HIDE DEF k
  <2>6. w - 1 - (h + k) = h - 1 - k /\ w - (h + k) = h - k /\ h + k \in 0 .. w-1
    BY <2>5, <1>1
  <2>7. Leading(w, x, h + k)
    BY <2>5, <2>6 DEF Leading
  <2> QED
    BY <2>2, <2>7 DEF k
<1>7. CASE x \div p # 0
  <2> DEFINE y == x \div p
             m == x % p
             k == clz[h][y]
  <2>1. y = Shr(x, h) /\ y \in UWord /\ y > 0
    BY <1>1, <1>5, <1>7, ShiftedWord DEF Shr
  <2>2. clz[w][x] = k
    <3>1. h - 0 = h
      BY <1>1
    <3>2. clz[w][x] = 0 + clz[h][Shr(x, h)]
      BY <1>4, <1>7, <3>1
    <3>3. clz[w][x] = 0 + k
      BY <3>2, <2>1
    <3>4. k = clz[h][y]
      OBVIOUS
    <3>5. y < p
      <4>1. x \in 0 .. p * p - 1
        BY <1>2, <1>3
      <4> HIDE DEF p
      <4> QED
        BY <4>1, <1>2, DivisionRange
    <3>6. k \in 0 .. h - 1
      BY <2>1, <3>5 DEF ClzCounts, Leading, h
    <3> HIDE DEF k
    <3> QED
      BY <3>3, <3>6, <1>1
  <2>3. y < p
    <3>1. x \in 0 .. p * p - 1
      BY <1>2, <1>3
    <3> HIDE DEF p
    <3> QED
      BY <3>1, <1>2, DivisionRange
  <2>4. k \in 0 .. h-1 /\ Pow2[h - 1 - k] <= y /\ y < Pow2[h - k]
    BY <2>1, <2>3 DEF ClzCounts, Leading, h
  <2>5. /\ m \in Int /\ 0 <= m /\ m < p /\ x = p * y + m /\ y \in Nat
    BY <1>5, <1>2
  <2> HIDE DEF k, y, m
  <2>6. /\ h - 1 - k \in Nat /\ h - k \in Nat /\ w - 1 - k = h + (h - 1 - k) /\ w - k = h + (h - k)
        /\ k \in 0 .. w-1
    BY <2>4, <1>1
  <2> DEFINE a == Pow2[h - 1 - k]
             b == Pow2[h - k]
  <2>7. Pow2[w - 1 - k] = p * a /\ Pow2[w - k] = p * b
    <3>1. Pow2[h + (h - 1 - k)] = p * a /\ Pow2[h + (h - k)] = p * b
      BY <2>6, <1>1, PowSum
    <3> QED
      BY <3>1, <2>6
  <2>8. a \in Nat /\ b \in Nat /\ a <= y /\ y + 1 <= b
    BY <2>4, <2>5, <2>6, PowPositive
  <2> HIDE DEF a, b, p
  <2>9. p * a <= x
    <3>1. p * a <= p * y
      BY <2>8, <2>5, <1>2
    <3> QED
      BY <3>1, <2>5, <1>2, <2>8
  <2>10. x < p * b
    <3>1. p * (y + 1) <= p * b
      BY <2>8, <2>5, <1>2
    <3>2. p * (y + 1) = p * y + p
      BY <2>5, <1>2
    <3> QED
      BY <3>1, <3>2, <2>5, <1>2, <2>8
  <2> QED
    BY <2>2, <2>6, <2>7, <2>9, <2>10 DEF Leading
<1> QED
  BY <1>6, <1>7

LEMMA ClzRight == \A w \in Widths : ClzCounts(w)
<1>1. /\ 4 \in Widths \ {2} /\ 8 \in Widths \ {2} /\ 16 \in Widths \ {2} /\ 32 \in Widths \ {2}
      /\ 4 \div 2 = 2 /\ 8 \div 2 = 4 /\ 16 \div 2 = 8 /\ 32 \div 2 = 16
  BY DEF Widths
<1>2. ClzCounts(4)
  BY <1>1, ClzBase, ClzStep
<1>3. ClzCounts(8)
  BY <1>1, <1>2, ClzStep
<1>4. ClzCounts(16)
  BY <1>1, <1>3, ClzStep
<1>5. ClzCounts(32)
  BY <1>1, <1>4, ClzStep
<1> QED
  BY ClzBase, <1>2, <1>3, <1>4, <1>5 DEF Widths

LEMMA CtzBase == CtzCounts(2)
<1> SUFFICES ASSUME NEW x \in UWord, x % Pow2[2] # 0 PROVE Trailing(2, x, ctz[2][x])
  BY DEF CtzCounts
<1>1. 2 \in Widths
  BY DEF Widths
<1>2. ctz[2][x] = IF x % 2 = 1 THEN 0 ELSE 2 - ((x % 4) \div 2)
  BY <1>1, CtzUnfolds
<1>3. x \in Nat /\ x % 4 # 0
  BY SmallPowers DEF UWord
<1>4. CASE x % 2 = 1
  <2>1. ctz[2][x] = 0 /\ 0 \in 0 .. 2-1
    BY <1>2, <1>4
  <2>2. x \div 2 \in Nat /\ x = 1 * (2 * (x \div 2) + 1)
    BY <1>3, <1>4
  <2> QED
    BY <2>1, <2>2, SmallPowers DEF Trailing
<1>5. CASE x % 2 # 1
  <2>1. x % 4 = 2
    BY <1>3, <1>5
  <2>2. ctz[2][x] = 1 /\ 1 \in 0 .. 2-1
    BY <1>2, <1>5, <2>1
  <2>3. x \div 4 \in Nat /\ x = 2 * (2 * (x \div 4) + 1)
    BY <1>3, <2>1
  <2> QED
    BY <2>2, <2>3, SmallPowers DEF Trailing
<1> QED
  BY <1>4, <1>5

LEMMA CtzStep ==
  ASSUME NEW w \in Widths \ {2}, CtzCounts(w \div 2)
  PROVE  CtzCounts(w)
<1> DEFINE h == w \div 2
           p == Pow2[h]
<1>1. h \in Widths /\ h \in Nat /\ h > 0 /\ w = h + h /\ w \in Nat
  BY HalfWidths
<1>2. p \in Nat \ {0} /\ Pow2[w] = p * p
  <2>1. Pow2[h + h] = p * p
    BY <1>1, PowSum
  <2> QED
    BY <2>1, <1>1, PowPositive
<1> SUFFICES ASSUME NEW x \in UWord, x % Pow2[w] # 0 PROVE Trailing(w, x, ctz[w][x])
  BY DEF CtzCounts
<1>3. x \in Nat
  BY DEF UWord
<1>4. ctz[w][x] = LET t == IF x % p = 0 THEN h ELSE 0 IN t + ctz[h][Shr(x, t)]
  BY CtzUnfolds
<1> HIDE DEF h
<1>5. x \div p \in Nat /\ x % p \in 0 .. p-1 /\ x = p * (x \div p) + (x % p)
  BY <1>2, <1>3, QuotientSmall
<1>6. CASE x % p # 0
  <2>1. Shr(x, 0) = x
    BY <1>3, PowZero DEF Shr
  <2>2. Trailing(h, x, ctz[h][x])
    BY <1>6 DEF CtzCounts, h
  <2>3. ctz[w][x] = 0 + ctz[h][x]
    BY <1>4, <1>6, <2>1
  <2> DEFINE k == ctz[h][x]
  <2>4. Trailing(h, x, k) /\ ctz[w][x] = 0 + k
    BY <2>2, <2>3
  <2> HIDE DEF k
  <2>5. k \in 0 .. w-1 /\ 0 + k = k
    BY <2>4, <1>1 DEF Trailing
  <2> QED
    BY <2>4, <2>5 DEF Trailing
<1>7. CASE x % p = 0
  <2> DEFINE y == x \div p
             k == ctz[h][y]
  <2>1. y = Shr(x, h) /\ y \in UWord /\ y \in Nat /\ x = p * y
    BY <1>1, <1>2, <1>5, <1>7, ShiftedWord DEF Shr
  <2>2. ctz[w][x] = h + ctz[h][Shr(x, h)]
    BY <1>4, <1>7
  <2>3. ctz[w][x] = h + k
    BY <2>1, <2>2
  <2>4. y % p # 0
    <3>1. SUFFICES ASSUME y % p = 0 PROVE FALSE
      OBVIOUS
    <3> HIDE DEF y, p
    <3>2. y \div p \in Nat /\ y = p * (y \div p) + (y % p)
      BY <2>1, <1>2, QuotientSmall
    <3> DEFINE z == y \div p
    <3>3. y = p * z /\ z \in Nat
      BY <3>1, <3>2, <1>2
    <3> HIDE DEF z
    <3>4. x = (p * p) * z + 0 /\ p * p \in Nat \ {0} /\ 0 \in 0 .. (p * p) - 1
      BY <2>1, <3>3, <1>2
    <3> DEFINE pp == p * p
    <3>5. x = pp * z + 0 /\ pp \in Nat \ {0} /\ 0 \in 0 .. pp - 1 /\ z \in Int /\ Pow2[w] = pp
      BY <3>3, <3>4, <1>2
    <3> HIDE DEF pp
    <3>6. (pp * z + 0) % pp = 0
      BY <3>5, Quotient
    <3> QED
      BY <3>5, <3>6
  <2>5. Trailing(h, y, k)
    BY <2>1, <2>4 DEF CtzCounts, h
  <2> HIDE DEF y, k, p
  <2>6. PICK m \in Nat : y = Pow2[k] * (2*m + 1)
    BY <2>5 DEF Trailing
  <2>7. k \in 0 .. h-1 /\ k \in Nat /\ h + k \in 0 .. w-1
    BY <2>5, <1>1 DEF Trailing
  <2>8. Pow2[h + k] = p * Pow2[k] /\ Pow2[k] \in Nat
    BY <2>7, <1>1, PowSum, PowPositive DEF p
  <2> DEFINE e == 2*m + 1
             a == Pow2[k]
  <2>9. e \in Nat /\ a \in Nat /\ y = a * e /\ Pow2[h + k] = p * a
    BY <2>6, <2>8
  <2> HIDE DEF e, a
  <2>10. x = (p * a) * e
    BY <2>1, <2>9, <1>2
  <2>11. x = Pow2[h + k] * (2*m + 1)
    BY <2>9, <2>10 DEF e
  <2> QED
    BY <2>3, <2>7, <2>11 DEF Trailing
<1> QED
  BY <1>6, <1>7

LEMMA CtzRight == \A w \in Widths : CtzCounts(w)
<1>1. /\ 4 \in Widths \ {2} /\ 8 \in Widths \ {2} /\ 16 \in Widths \ {2} /\ 32 \in Widths \ {2}
      /\ 4 \div 2 = 2 /\ 8 \div 2 = 4 /\ 16 \div 2 = 8 /\ 32 \div 2 = 16
  BY DEF Widths
<1>2. CtzCounts(4)
  BY <1>1, CtzBase, CtzStep
<1>3. CtzCounts(8)
  BY <1>1, <1>2, CtzStep
<1>4. CtzCounts(16)
  BY <1>1, <1>3, CtzStep
<1>5. CtzCounts(32)
  BY <1>1, <1>4, CtzStep
<1> QED
  BY CtzBase, <1>2, <1>3, <1>4, <1>5 DEF Widths

-----------------------------------------------------------------------------
(* The operations on bits: each is a table of rows, made two bits at a time  *)
(* from the row for half the number.                                         *)
LEMMA BitRows ==
  ASSUME NEW B \in [Nat -> Nat], NEW C \in [Nat -> [Nat -> Nat]]
  PROVE  \E f \in [Nat -> [Nat -> Nat]] : \A x \in Nat :
            f[x] = [y \in Nat |-> IF x = 0 THEN B[y] ELSE 2 * f[x \div 2][y \div 2] + C[x][y]]
<1> DEFINE V == [Nat -> Nat]
           size == [x \in Nat |-> x]
           base == [x \in Nat |-> B]
           nxt  == [x \in Nat |-> x \div 2]
           G == [x \in Nat |-> [v \in V |-> [y \in Nat |-> 2 * v[y \div 2] + C[x][y]]]]
<1>1. \A x \in Nat : x \div 2 \in Nat /\ (x # 0 => x \div 2 < x)
  OBVIOUS
<1>2. \A x \in Nat, v \in V, y \in Nat : 2 * v[y \div 2] + C[x][y] \in Nat
  <2> SUFFICES ASSUME NEW x \in Nat, NEW v \in V, NEW y \in Nat
               PROVE  2 * v[y \div 2] + C[x][y] \in Nat
    OBVIOUS
  <2> DEFINE p == v[y \div 2]
             q == C[x][y]
  <2>1. p \in Nat /\ q \in Nat
    BY <1>1
  <2> HIDE DEF p, q
  <2>2. 2 * p + q \in Nat
    BY <2>1
  <2> QED
    BY <2>2 DEF p, q
<1>3. G \in [Nat -> [V -> V]]
  BY <1>2
<1>4. base \in [Nat -> V] /\ size \in [Nat -> Nat]
  OBVIOUS
<1>5. \A x \in Nat \ {0} : nxt[x] \in Nat /\ size[nxt[x]] < size[x]
  BY <1>1
<1>6. Shrinks(Nat, V, size, {0}, base, nxt, G)
  <2> HIDE DEF V, size, base, nxt, G
  <2> QED
    BY <1>3, <1>4, <1>5 DEF Shrinks
<1>7. /\ \A x \in Nat : base[x] = B /\ nxt[x] = x \div 2
      /\ \A x \in Nat, v \in V : G[x][v] = [y \in Nat |-> 2 * v[y \div 2] + C[x][y]]
  OBVIOUS
<1> HIDE DEF size, base, nxt, G
<1>8. PICK f \in [Nat -> V] : \A x \in Nat : Unfolds(f, x, {0}, base, nxt, G)
  <2> HIDE DEF V
  <2> QED
    BY <1>6, Recursion
<1>9. ASSUME NEW x \in Nat
      PROVE  f[x] = [y \in Nat |-> IF x = 0 THEN B[y] ELSE 2 * f[x \div 2][y \div 2] + C[x][y]]
  <2>1. f[x] = IF x = 0 THEN base[x] ELSE G[x][f[nxt[x]]]
    BY <1>8 DEF Unfolds
  <2>2. CASE x = 0
    <3>1. f[x] = B /\ B = [y \in Nat |-> B[y]]
      BY <2>1, <2>2, <1>7
    <3> QED
      BY <3>1, <2>2
  <2>3. CASE x # 0
    <3> DEFINE v == f[x \div 2]
    <3>1. v \in V /\ f[x] = G[x][v]
      <4>1. x \div 2 \in Nat /\ nxt[x] = x \div 2
        BY <1>1, <1>7
      <4> QED
        BY <4>1, <2>1, <2>3
    <3> HIDE DEF v
    <3>2. f[x] = [y \in Nat |-> 2 * v[y \div 2] + C[x][y]]
      <4> HIDE DEF V
      <4> QED
        BY <3>1, <1>7
    <3>3. f[x] = [y \in Nat |-> 2 * f[x \div 2][y \div 2] + C[x][y]]
      BY <3>2 DEF v
    <3> QED
      BY <3>3, <2>3
  <2> QED
    BY <2>2, <2>3
<1> QED
  BY <1>8, <1>9

LEMMA AndUnfolds ==
  ASSUME NEW x \in Nat, NEW y \in Nat
  PROVE  And[x][y] = IF x = 0 THEN 0 ELSE 2 * And[x \div 2][y \div 2] + (IF x % 2 = 1 /\ y % 2 = 1 THEN 1 ELSE 0)
<1> DEFINE B == [b \in Nat |-> 0]
           C == [a \in Nat |-> [b \in Nat |-> IF a % 2 = 1 /\ b % 2 = 1 THEN 1 ELSE 0]]
           body(g) == [a \in Nat |-> [b \in Nat |->
                         IF a = 0 THEN 0 ELSE 2 * g[a \div 2][b \div 2] + (IF a % 2 = 1 /\ b % 2 = 1 THEN 1 ELSE 0)]]
<1>1. B \in [Nat -> Nat] /\ C \in [Nat -> [Nat -> Nat]]
  OBVIOUS
<1>2. /\ \A b \in Nat : B[b] = 0
      /\ \A a \in Nat : \A b \in Nat : C[a][b] = IF a % 2 = 1 /\ b % 2 = 1 THEN 1 ELSE 0
  OBVIOUS
<1> HIDE DEF B, C
<1>3. PICK f \in [Nat -> [Nat -> Nat]] : \A a \in Nat :
         f[a] = [b \in Nat |-> IF a = 0 THEN B[b] ELSE 2 * f[a \div 2][b \div 2] + C[a][b]]
  BY <1>1, BitRows
<1>4. ASSUME NEW a \in Nat
      PROVE  f[a] = [b \in Nat |->
                IF a = 0 THEN 0 ELSE 2 * f[a \div 2][b \div 2] + (IF a % 2 = 1 /\ b % 2 = 1 THEN 1 ELSE 0)]
  <2>1. f[a] = [b \in Nat |-> f[a][b]]
    OBVIOUS
  <2>2. ASSUME NEW b \in Nat
        PROVE  f[a][b] = IF a = 0 THEN 0 ELSE 2 * f[a \div 2][b \div 2] + (IF a % 2 = 1 /\ b % 2 = 1 THEN 1 ELSE 0)
    <3>1. f[a][b] = IF a = 0 THEN B[b] ELSE 2 * f[a \div 2][b \div 2] + C[a][b]
      BY <1>3
    <3> QED
      BY <3>1, <1>2
  <2> QED
    BY <2>1, <2>2
<1>5. f = body(f)
  BY <1>4
<1>6. And = CHOOSE g : g = body(g)
  BY DEF And
<1>7. And = body(And)
  <2> HIDE DEF body
  <2> QED
    BY <1>5, <1>6
<1>8. And[x] = [b \in Nat |->
             IF x = 0 THEN 0 ELSE 2 * And[x \div 2][b \div 2] + (IF x % 2 = 1 /\ b % 2 = 1 THEN 1 ELSE 0)]
  BY <1>7
<1> HIDE DEF body
<1> QED
  BY <1>8

LEMMA OrUnfolds ==
  ASSUME NEW x \in Nat, NEW y \in Nat
  PROVE  Or[x][y] = IF x = 0 THEN y ELSE 2 * Or[x \div 2][y \div 2] + (IF x % 2 = 1 \/ y % 2 = 1 THEN 1 ELSE 0)
<1> DEFINE B == [b \in Nat |-> b]
           C == [a \in Nat |-> [b \in Nat |-> IF a % 2 = 1 \/ b % 2 = 1 THEN 1 ELSE 0]]
           body(g) == [a \in Nat |-> [b \in Nat |->
                         IF a = 0 THEN b ELSE 2 * g[a \div 2][b \div 2] + (IF a % 2 = 1 \/ b % 2 = 1 THEN 1 ELSE 0)]]
<1>1. B \in [Nat -> Nat] /\ C \in [Nat -> [Nat -> Nat]]
  OBVIOUS
<1>2. /\ \A b \in Nat : B[b] = b
      /\ \A a \in Nat : \A b \in Nat : C[a][b] = IF a % 2 = 1 \/ b % 2 = 1 THEN 1 ELSE 0
  OBVIOUS
<1> HIDE DEF B, C
<1>3. PICK f \in [Nat -> [Nat -> Nat]] : \A a \in Nat :
         f[a] = [b \in Nat |-> IF a = 0 THEN B[b] ELSE 2 * f[a \div 2][b \div 2] + C[a][b]]
  BY <1>1, BitRows
<1>4. ASSUME NEW a \in Nat
      PROVE  f[a] = [b \in Nat |->
                IF a = 0 THEN b ELSE 2 * f[a \div 2][b \div 2] + (IF a % 2 = 1 \/ b % 2 = 1 THEN 1 ELSE 0)]
  <2>1. f[a] = [b \in Nat |-> f[a][b]]
    OBVIOUS
  <2>2. ASSUME NEW b \in Nat
        PROVE  f[a][b] = IF a = 0 THEN b ELSE 2 * f[a \div 2][b \div 2] + (IF a % 2 = 1 \/ b % 2 = 1 THEN 1 ELSE 0)
    <3>1. f[a][b] = IF a = 0 THEN B[b] ELSE 2 * f[a \div 2][b \div 2] + C[a][b]
      BY <1>3
    <3> QED
      BY <3>1, <1>2
  <2> QED
    BY <2>1, <2>2
<1>5. f = body(f)
  BY <1>4
<1>6. Or = CHOOSE g : g = body(g)
  BY DEF Or
<1>7. Or = body(Or)
  <2> HIDE DEF body
  <2> QED
    BY <1>5, <1>6
<1>8. Or[x] = [b \in Nat |->
             IF x = 0 THEN b ELSE 2 * Or[x \div 2][b \div 2] + (IF x % 2 = 1 \/ b % 2 = 1 THEN 1 ELSE 0)]
  BY <1>7
<1> HIDE DEF body
<1> QED
  BY <1>8

LEMMA XorUnfolds ==
  ASSUME NEW x \in Nat, NEW y \in Nat
  PROVE  Xor[x][y] = IF x = 0 THEN y ELSE 2 * Xor[x \div 2][y \div 2] + (IF x % 2 # y % 2 THEN 1 ELSE 0)
<1> DEFINE B == [b \in Nat |-> b]
           C == [a \in Nat |-> [b \in Nat |-> IF a % 2 # b % 2 THEN 1 ELSE 0]]
           body(g) == [a \in Nat |-> [b \in Nat |->
                         IF a = 0 THEN b ELSE 2 * g[a \div 2][b \div 2] + (IF a % 2 # b % 2 THEN 1 ELSE 0)]]
<1>1. B \in [Nat -> Nat] /\ C \in [Nat -> [Nat -> Nat]]
  OBVIOUS
<1>2. /\ \A b \in Nat : B[b] = b
      /\ \A a \in Nat : \A b \in Nat : C[a][b] = IF a % 2 # b % 2 THEN 1 ELSE 0
  OBVIOUS
<1> HIDE DEF B, C
<1>3. PICK f \in [Nat -> [Nat -> Nat]] : \A a \in Nat :
         f[a] = [b \in Nat |-> IF a = 0 THEN B[b] ELSE 2 * f[a \div 2][b \div 2] + C[a][b]]
  BY <1>1, BitRows
<1>4. ASSUME NEW a \in Nat
      PROVE  f[a] = [b \in Nat |->
                IF a = 0 THEN b ELSE 2 * f[a \div 2][b \div 2] + (IF a % 2 # b % 2 THEN 1 ELSE 0)]
  <2>1. f[a] = [b \in Nat |-> f[a][b]]
    OBVIOUS
  <2>2. ASSUME NEW b \in Nat
        PROVE  f[a][b] = IF a = 0 THEN b ELSE 2 * f[a \div 2][b \div 2] + (IF a % 2 # b % 2 THEN 1 ELSE 0)
    <3>1. f[a][b] = IF a = 0 THEN B[b] ELSE 2 * f[a \div 2][b \div 2] + C[a][b]
      BY <1>3
    <3> QED
      BY <3>1, <1>2
  <2> QED
    BY <2>1, <2>2
<1>5. f = body(f)
  BY <1>4
<1>6. Xor = CHOOSE g : g = body(g)
  BY DEF Xor
<1>7. Xor = body(Xor)
  <2> HIDE DEF body
  <2> QED
    BY <1>5, <1>6
<1>8. Xor[x] = [b \in Nat |->
             IF x = 0 THEN b ELSE 2 * Xor[x \div 2][b \div 2] + (IF x % 2 # b % 2 THEN 1 ELSE 0)]
  BY <1>7
<1> HIDE DEF body
<1> QED
  BY <1>8

(* A fact about 0 that passes from x \div 2 to x holds of every x.           *)
LEMMA BitSteps ==
  ASSUME NEW S, 0 \in S, \A x \in Nat \ {0} : x \div 2 \in S => x \in S
  PROVE  Nat \subseteq S
<1> SUFFICES ASSUME Nat \ S # {} PROVE FALSE
  OBVIOUS
<1>1. PICK x \in Nat \ S : \A y \in Nat \ S : x <= y
  BY LeastNat
<1>2. x # 0 /\ x \in Nat /\ x \div 2 \in Nat /\ x \div 2 < x
  BY <1>1
<1>3. x \div 2 \in S
  BY <1>1, <1>2
<1> QED
  BY <1>1, <1>2, <1>3

LEMMA AndSelf == \A x \in Nat : And[x][x] = x
<1> DEFINE S == {x \in Nat : And[x][x] = x}
<1>1. 0 \in S
  BY AndUnfolds
<1>2. ASSUME NEW x \in Nat \ {0}, x \div 2 \in S PROVE x \in S
  <2>1. And[x][x] = 2 * And[x \div 2][x \div 2] + (IF x % 2 = 1 THEN 1 ELSE 0)
    BY AndUnfolds
  <2>2. And[x \div 2][x \div 2] = x \div 2
    BY <1>2
  <2> QED
    BY <2>1, <2>2
<1> HIDE DEF S
<1>3. Nat \subseteq S
  BY <1>1, <1>2, BitSteps
<1> QED
  BY <1>3 DEF S

LEMMA AndZero == \A x \in Nat : And[x][0] = 0
<1> DEFINE S == {x \in Nat : And[x][0] = 0}
<1>1. 0 \in S
  BY AndUnfolds
<1>2. ASSUME NEW x \in Nat \ {0}, x \div 2 \in S PROVE x \in S
  <2>1. And[x][0] = 2 * And[x \div 2][0 \div 2] + (IF x % 2 = 1 /\ 0 % 2 = 1 THEN 1 ELSE 0)
    BY AndUnfolds
  <2>2. 0 \div 2 = 0 /\ 0 % 2 = 0
    OBVIOUS
  <2>3. And[x \div 2][0] = 0
    BY <1>2
  <2> QED
    BY <2>1, <2>2, <2>3
<1> HIDE DEF S
<1>3. Nat \subseteq S
  BY <1>1, <1>2, BitSteps
<1> QED
  BY <1>3 DEF S

(* x & (2^k - 1) keeps the lowest k bits.                                    *)
LEMMA AndMask ==
  ASSUME NEW k \in Nat, NEW x \in Nat
  PROVE  And[x][Pow2[k] - 1] = x % Pow2[k]
<1> DEFINE S == {j \in Nat : \A n \in Nat : And[n][Pow2[j] - 1] = n % Pow2[j]}
<1>1. 0 \in S
  BY PowZero, AndZero
<1>2. ASSUME NEW j \in Nat, j \in S PROVE j + 1 \in S
  <2> SUFFICES ASSUME NEW n \in Nat PROVE And[n][Pow2[j+1] - 1] = n % Pow2[j+1]
    OBVIOUS
  <2> DEFINE p == Pow2[j]
             y == n \div 2
             b == n % 2
             m == y \div p
             l == y % p
  <2>1. Pow2[j+1] = 2 * p /\ p \in Nat \ {0}
    BY PowStep, PowPositive
  <2>2. And[y][p - 1] = l /\ y \in Nat
    BY <1>2
  <2>3. m \in Nat /\ l \in 0 .. p-1 /\ y = p * m + l
    BY <2>1, <2>2, QuotientSmall
  <2>4. b \in {0, 1} /\ n = 2 * y + b
    OBVIOUS
  <2> HIDE DEF p, m, l
  <2>5. 2 * p - 1 \in Nat /\ (2 * p - 1) \div 2 = p - 1 /\ (2 * p - 1) % 2 = 1 /\ 2 * p \in Nat \ {0}
    BY <2>1
  <2>6. CASE n = 0
    <3>1. And[n][2 * p - 1] = 0
      BY <2>5, <2>6, AndUnfolds
    <3> DEFINE g == 2 * p
    <3>2. g \in Nat \ {0}
      BY <2>5
    <3> HIDE DEF g
    <3>3. 0 % g = 0
      BY <3>2
    <3> QED
      BY <3>1, <3>3, <2>1, <2>6 DEF g
  <2>7. CASE n # 0
    <3>1. And[n][2 * p - 1] = 2 * And[y][p - 1] + (IF b = 1 THEN 1 ELSE 0)
      BY <2>5, <2>7, AndUnfolds
    <3>2. And[n][2 * p - 1] = 2 * l + b
      BY <3>1, <2>2, <2>4
    <3> HIDE DEF y, b
    <3> DEFINE g == 2 * p
               r == 2 * l + b
    <3>3. g \in Nat \ {0} /\ r \in 0 .. g-1 /\ n = g * m + r /\ m \in Int
      <4>1. n = 2 * (p * m) + 2 * l + b
        BY <2>1, <2>3, <2>4
      <4>2. 2 * (p * m) = (2 * p) * m
        BY <2>1, <2>3
      <4> QED
        BY <4>1, <4>2, <2>1, <2>3, <2>4, <2>5
    <3> HIDE DEF g, r
    <3>4. (g * m + r) % g = r
      BY <3>3, Quotient
    <3> QED
      BY <3>2, <3>3, <3>4, <2>1 DEF g, r
  <2> QED
    BY <2>6, <2>7
<1> HIDE DEF S
<1>3. k \in S
  BY <1>1, <1>2, NatSteps
<1> QED
  BY <1>3 DEF S

(* x & (x - 1) clears the lowest bit of x that is set.                       *)
LEMMA AndClears ==
  ASSUME NEW k \in Nat, NEW m \in Nat
  PROVE  And[Pow2[k] * (2*m + 1)][Pow2[k] * (2*m + 1) - 1] = Pow2[k] * (2*m)
<1> DEFINE S == {j \in Nat : And[Pow2[j] * (2*m + 1)][Pow2[j] * (2*m + 1) - 1] = Pow2[j] * (2*m)}
<1>1. 0 \in S
  <2>1. 1 * (2*m + 1) = 2*m + 1 /\ (2*m + 1) - 1 = 2*m /\ 1 * (2*m) = 2*m /\ 2*m + 1 \in Nat
        /\ 2*m + 1 # 0 /\ 2*m \in Nat
    OBVIOUS
  <2> DEFINE x == 2*m + 1
             y == 2*m
  <2>2. x \div 2 = m /\ y \div 2 = m /\ x % 2 = 1 /\ y % 2 = 0 /\ x \in Nat /\ y \in Nat /\ x # 0
    OBVIOUS
  <2> HIDE DEF x, y
  <2>3. And[x][y] = 2 * And[m][m] + 0
    BY <2>2, AndUnfolds
  <2>4. And[m][m] = m
    BY AndSelf
  <2>5. And[x][y] = 2 * m
    BY <2>3, <2>4
  <2> QED
    BY <2>1, <2>5, PowZero DEF x, y
<1>2. ASSUME NEW j \in Nat, j \in S PROVE j + 1 \in S
  <2> DEFINE y == Pow2[j] * (2*m + 1)
             x == Pow2[j+1] * (2*m + 1)
  <2>1. Pow2[j+1] = 2 * Pow2[j] /\ Pow2[j] \in Nat /\ Pow2[j] > 0
    BY PowStep, PowPositive
  <2> DEFINE p == Pow2[j]
             u == 2*m + 1
  <2>2. p \in Nat /\ p > 0 /\ u \in Nat /\ u > 0 /\ Pow2[j+1] = 2 * p
    BY <2>1
  <2> HIDE DEF p, u
  <2>3. p * u \in Nat /\ p * u > 0 /\ (2 * p) * u = 2 * (p * u)
    BY <2>2
  <2>4. y \in Nat /\ y > 0 /\ x = 2 * y
    BY <2>3, <2>2 DEF p, u
  <2> HIDE DEF x, y
  <2>5. x \in Nat /\ x # 0 /\ x - 1 \in Nat /\ x \div 2 = y /\ (x - 1) \div 2 = y - 1 /\ x % 2 = 0
    BY <2>4
  <2>6. And[x][x - 1] = 2 * And[y][y - 1] + 0
    <3> DEFINE z == x - 1
    <3>1. z \in Nat /\ z \div 2 = y - 1
      BY <2>5
    <3> HIDE DEF z
    <3>2. And[x][z] = 2 * And[x \div 2][z \div 2] + 0
      BY <2>5, <3>1, AndUnfolds
    <3> QED
      BY <2>5, <3>1, <3>2 DEF z
  <2>7. And[y][y - 1] = p * (2*m)
    BY <1>2 DEF y, p
  <2>8. 2 * (p * (2*m)) = (2 * p) * (2*m) /\ p * (2*m) \in Int
    BY <2>2
  <2>9. And[x][x - 1] = Pow2[j+1] * (2*m)
    BY <2>6, <2>7, <2>8, <2>2
  <2> QED
    BY <2>9 DEF x
<1> HIDE DEF S
<1>3. k \in S
  BY <1>1, <1>2, NatSteps
<1> QED
  BY <1>3 DEF S

(* The test for a power of two, and which one it is.                         *)
LEMMA PowerTest ==
  ASSUME NEW x \in UWord, x # 0, IsPower(x)
  PROVE  ctzsi2(x) \in 0 .. HalfBits - 1 /\ x = Pow2[ctzsi2(x)]
<1>1. x \in Nat /\ x < Half /\ x > 0
  BY Sizes DEF UWord
<1>2. x % Half = x
  BY <1>1, Sizes
<1>3. Trailing(HalfBits, x, ctz[HalfBits][x])
  BY <1>1, <1>2, Sizes, CtzRight DEF CtzCounts, Half
<1> DEFINE k == ctz[HalfBits][x]
<1>4. k \in 0 .. HalfBits - 1 /\ k \in Nat
  BY <1>3, Sizes DEF Trailing
<1>5. PICK m \in Nat : x = Pow2[k] * (2*m + 1)
  BY <1>3 DEF Trailing
<1> HIDE DEF k
<1>6. And[x][x - 1] = Pow2[k] * (2*m)
  BY <1>4, <1>5, AndClears
<1>7. Pow2[k] * (2*m) = 0
  BY <1>6 DEF IsPower
<1>8. Pow2[k] \in Nat /\ Pow2[k] > 0
  BY <1>4, PowPositive
<1> DEFINE p == Pow2[k]
<1>9. p \in Nat /\ p > 0 /\ p * (2*m) = 0
  BY <1>7, <1>8
<1> HIDE DEF p
<1>10. m = 0
  <2>1. SUFFICES ASSUME m >= 1 PROVE FALSE
    OBVIOUS
  <2>2. p * (2*m) >= 2*m
    BY <1>9
  <2> QED
    BY <2>1, <2>2, <1>9
<1>11. x = p * 1
  BY <1>5, <1>10 DEF p
<1>12. x = p
  BY <1>9, <1>11
<1> QED
  BY <1>4, <1>12 DEF p, k, ctzsi2

-----------------------------------------------------------------------------
(* How the division begins: it answers at once, or its loop starts well.     *)
DivisionAnswer(a, b, s) ==
  /\ s \in Locals /\ s.done
  /\ IF b = 0 THEN s.trap ELSE ~s.trap /\ s.q = a \div b /\ s.r = a % b
Started(a, b, s) == IF s.done THEN DivisionAnswer(a, b, s) ELSE Running(a, b, s)

LEMMA TrapRight ==
  ASSUME NEW a, NEW b, b = 0
  PROVE  Started(a, b, Trap)
BY Sizes DEF Started, DivisionAnswer, Trap, Locals, UDword

LEMMA AnswerRight ==
  ASSUME NEW a \in UDword, NEW b \in UDword, NEW q \in Int, NEW r \in 0 .. b-1, a = b * q + r
  PROVE  Started(a, b, Answered(q, r))
<1>1. a \in Nat /\ a <= Full-1 /\ b \in Nat /\ b <= Full-1 /\ r \in Int /\ 0 <= r /\ r < b
      /\ b # 0 /\ Full \in Nat
  BY Sizes DEF UDword
<1>2. (b * q + r) \div b = q /\ (b * q + r) % b = r
  BY <1>1, Quotient
<1>3. a \div b \in Nat /\ a \div b <= a
  BY <1>1, QuotientSmall
<1>4. q \in 0 .. Full-1 /\ r \in 0 .. Full-1
  BY <1>1, <1>2, <1>3
<1>5. q = a \div b /\ r = a % b
  BY <1>2
<1> QED
  BY <1>1, <1>4, <1>5, Sizes DEF Started, DivisionAnswer, Answered, Locals, UDword

LEMMA Words ==
  ASSUME NEW x \in UDword
  PROVE  /\ high(x) \in UWord /\ low(x) \in UWord /\ high(x) \in Nat /\ low(x) \in Nat
         /\ low(x) < Half /\ x = Half * high(x) + low(x) /\ x \in Nat
<1>1. x \in 0 .. Half * Half - 1 /\ Half \in Nat \ {0}
  BY Sizes DEF UDword
<1>2. x \div Half \in 0 .. Half-1 /\ x % Half \in 0 .. Half-1 /\ x = Half * (x \div Half) + (x % Half)
  BY <1>1, DivisionRange
<1> QED
  BY <1>1, <1>2 DEF high, low, UWord

LEMMA ClzWord ==
  ASSUME NEW x \in UWord, x # 0
  PROVE  Leading(HalfBits, x, clzsi2(x)) /\ clzsi2(x) \in 0 .. HalfBits - 1
<1>1. x > 0 /\ x < Pow2[HalfBits]
  BY Sizes DEF UWord, Half
<1> QED
  BY <1>1, Sizes, ClzRight DEF ClzCounts, clzsi2, Leading

LEMMA ShiftBelow ==
  ASSUME NEW n \in Nat, NEW m \in Nat, NEW a \in Nat, a < Pow2[n + m]
  PROVE  a \div Pow2[n] < Pow2[m]
<1> DEFINE p == Pow2[n]
           q == Pow2[m]
<1>1. Pow2[n + m] = p * q /\ p \in Nat \ {0} /\ q \in Nat \ {0}
  <2>1. Pow2[n + m] = p * q
    BY PowSum
  <2>2. p \in Nat \ {0} /\ q \in Nat \ {0}
    BY PowPositive
  <2> QED
    BY <2>1, <2>2
<1> HIDE DEF p, q
<1>2. a \in 0 .. p * q - 1
  BY <1>1
<1>3. a \div p \in 0 .. q - 1
  BY <1>1, <1>2, DivisionRange
<1> QED
  BY <1>1, <1>3 DEF p, q

(* A dividend with k zeros on top of its high word, and a divisor with k.    *)
LEMMA DividendBelow ==
  ASSUME NEW a \in UDword, NEW k \in 0 .. HalfBits - 1, high(a) < Pow2[HalfBits - k]
  PROVE  a < Pow2[HalfBits + (HalfBits - k)]
<1>1. HalfBits - k \in Nat /\ HalfBits \in Nat
  BY Sizes
<1> DEFINE p == Pow2[HalfBits - k]
           h == high(a)
<1>2. Pow2[HalfBits + (HalfBits - k)] = Half * p /\ p \in Nat
  BY <1>1, PowSum, PowPositive DEF Half
<1>3. h \in Nat /\ a \in Nat /\ h + 1 <= p /\ a < Half * h + Half
  BY <1>2, Words, Sizes
<1> HIDE DEF p, h
<1>4. Half * (h + 1) <= Half * p
  BY <1>2, <1>3, Sizes
<1>5. Half * (h + 1) = Half * h + Half
  BY <1>3, Sizes
<1>6. a < Half * p
  <2>1. Half * h \in Int /\ Half * p \in Int /\ Half \in Int
    BY <1>2, <1>3, Sizes
  <2> QED
    BY <2>1, <1>3, <1>4, <1>5
<1> QED
  BY <1>2, <1>6

LEMMA DivisorAbove ==
  ASSUME NEW b \in UDword, NEW k \in 0 .. HalfBits - 1, Pow2[HalfBits - 1 - k] <= high(b)
  PROVE  Pow2[HalfBits + (HalfBits - 1 - k)] <= b
<1>1. HalfBits - 1 - k \in Nat /\ HalfBits \in Nat
  BY Sizes
<1> DEFINE p == Pow2[HalfBits - 1 - k]
           h == high(b)
<1>2. Pow2[HalfBits + (HalfBits - 1 - k)] = Half * p /\ p \in Nat
  BY <1>1, PowSum, PowPositive DEF Half
<1>3. h \in Nat /\ b \in Nat /\ p <= h /\ Half * h <= b
  BY <1>2, Words, Sizes
<1> HIDE DEF p, h
<1>4. Half * p <= Half * h
  BY <1>2, <1>3, Sizes
<1>5. Half * h \in Int /\ Half * p \in Int
  BY <1>2, <1>3, Sizes
<1> QED
  BY <1>2, <1>3, <1>4, <1>5

(* Both numbers have a high word: the difference of their sizes says how far *)
(* to shift, and a divisor that is the longer one is the larger one.         *)
LEMMA SizesCompared ==
  ASSUME NEW a \in UDword, NEW b \in UDword, high(a) # 0, high(b) # 0,
         NEW sr, sr = clzsi2(high(b)) - clzsi2(high(a))
  PROVE  /\ sr \in Int /\ sr <= HalfBits - 1
         /\ sr >= 0 => Started(a, b, Loop(a, sr + 1))
         /\ sr < 0 => Started(a, b, Answered(0, a))
<1> DEFINE j == clzsi2(high(a))
           k == clzsi2(high(b))
<1>1. /\ j \in 0 .. HalfBits - 1 /\ Pow2[HalfBits - 1 - j] <= high(a) /\ high(a) < Pow2[HalfBits - j]
      /\ k \in 0 .. HalfBits - 1 /\ Pow2[HalfBits - 1 - k] <= high(b) /\ high(b) < Pow2[HalfBits - k]
  BY Words, ClzWord DEF Leading
<1>0. sr = k - j
  OBVIOUS
<1> HIDE DEF j, k
<1>2. sr \in Int /\ sr <= HalfBits - 1 /\ HalfBits \in Nat
  BY <1>0, <1>1, Sizes
<1>3. /\ a < Pow2[HalfBits + (HalfBits - j)] /\ Pow2[HalfBits + (HalfBits - 1 - k)] <= b
      /\ a \in Nat /\ b \in Nat
  BY <1>1, Words, DividendBelow, DivisorAbove
<1>4. HalfBits - j \in Nat /\ HalfBits - 1 - k \in Nat /\ HalfBits + (HalfBits - j) \in Nat
      /\ HalfBits + (HalfBits - 1 - k) \in Nat
  BY <1>1, <1>2
<1>5. ASSUME sr < 0 PROVE Started(a, b, Answered(0, a))
  <2>1. HalfBits + (HalfBits - j) <= HalfBits + (HalfBits - 1 - k)
    BY <1>5, <1>0, <1>1, <1>2
  <2>2. Pow2[HalfBits + (HalfBits - j)] <= Pow2[HalfBits + (HalfBits - 1 - k)]
    BY <2>1, <1>4, PowMonotone
  <2>3. Pow2[HalfBits + (HalfBits - j)] \in Nat /\ Pow2[HalfBits + (HalfBits - 1 - k)] \in Nat
    BY <1>4, PowPositive
  <2>4. a < b
    BY <2>2, <2>3, <1>3
  <2>5. a \in 0 .. b-1 /\ a = b * 0 + a
    BY <2>4, <1>3
  <2> QED
    BY <2>5, AnswerRight
<1>6. ASSUME sr >= 0 PROVE Started(a, b, Loop(a, sr + 1))
  <2> DEFINE n == sr + 1
             m == HalfBits + (HalfBits - 1 - k)
  <2>1. n \in Nat /\ n \in 0 .. 2 * HalfBits /\ m \in Nat /\ n + m = HalfBits + (HalfBits - j)
    BY <1>6, <1>0, <1>1, <1>2
  <2>2. a \div Pow2[n] < Pow2[m]
    BY <2>1, <1>3, ShiftBelow
  <2>3. a \div Pow2[n] < b
    <3>1. Pow2[n] \in Nat \ {0} /\ Pow2[m] \in Nat
      BY <2>1, PowPositive
    <3>2. a \div Pow2[n] \in Nat
      BY <3>1, <1>3, QuotientSmall
    <3> QED
      BY <3>1, <3>2, <2>2, <1>3
  <2>4. ASSUME b > Full \div 2 PROVE n = 1 /\ a >= Full \div 2
    <3>1. k = 0
      <4>1. SUFFICES ASSUME k >= 1 PROVE FALSE
        BY <1>1
      <4>2. high(b) < Pow2[HalfBits - k] /\ HalfBits - k \in Nat /\ HalfBits - 1 \in Nat
            /\ HalfBits - k <= HalfBits - 1 /\ (HalfBits - 1) + HalfBits \in Nat
        BY <4>1, <1>1, <1>2
      <4>3. b < Pow2[HalfBits + (HalfBits - k)]
        BY <4>2, <1>1, DividendBelow
      <4>4. HalfBits + (HalfBits - k) <= 2 * HalfBits - 1 /\ 2 * HalfBits - 1 \in Nat
            /\ HalfBits + (HalfBits - k) \in Nat
        BY <4>1, <4>2, <1>2
      <4>5. Pow2[HalfBits + (HalfBits - k)] <= Pow2[2 * HalfBits - 1]
        BY <4>4, PowMonotone
      <4>6. Pow2[2 * HalfBits - 1] = Full \div 2
        <5>1. (2 * HalfBits - 1) + 1 = 2 * HalfBits
          BY <1>2
        <5>2. Full = 2 * Pow2[2 * HalfBits - 1] /\ Pow2[2 * HalfBits - 1] \in Nat
          BY <5>1, <4>4, PowStep DEF Full
        <5> QED
          BY <5>2
      <4>7. Pow2[HalfBits + (HalfBits - k)] \in Nat /\ Pow2[2 * HalfBits - 1] \in Nat
        BY <4>4, PowPositive
      <4> QED
        BY <4>3, <4>5, <4>6, <4>7, <2>4, <1>3
    <3>2. j = 0 /\ n = 1
      BY <3>1, <1>6, <1>0, <1>1, <1>2
    <3>3. Pow2[HalfBits - 1 - 0] <= high(a) /\ 0 \in 0 .. HalfBits - 1
      BY <3>2, <1>1
    <3>4. Pow2[HalfBits + (HalfBits - 1 - 0)] <= a
      BY <3>3, DivisorAbove
    <3>5. Pow2[HalfBits + (HalfBits - 1 - 0)] = Full \div 2
      <4>1. HalfBits + (HalfBits - 1 - 0) \in Nat
            /\ (HalfBits + (HalfBits - 1 - 0)) + 1 = 2 * HalfBits
        BY <3>3, <1>2
      <4> DEFINE i == HalfBits + (HalfBits - 1 - 0)
      <4>2. Full = 2 * Pow2[i] /\ Pow2[i] \in Nat
        BY <4>1, PowStep DEF Full
      <4> HIDE DEF i
      <4>3. Full \div 2 = Pow2[i]
        BY <4>2
      <4> QED
        BY <4>3 DEF i
    <3> QED
      BY <3>2, <3>4, <3>5, <1>3, Sizes
  <2> HIDE DEF n, m
  <2>5. Running(a, b, Loop(a, n))
    BY <2>1, <2>3, <2>4, LoopRuns
  <2>6. Started(a, b, Loop(a, n))
    BY <2>5 DEF Started, Running
  <2> QED
    BY <2>6 DEF n
<1> QED
  BY <1>2, <1>5, <1>6

LEMMA WordQuotient ==
  ASSUME NEW a \in UDword, NEW b \in UDword, NEW p \in UWord, NEW m \in 0 .. Half-1,
         b = Half * p, p # 0, NEW h \in UWord, a = Half * h + m
  PROVE  Started(a, b, Answered(h \div p, Half * (h % p) + m))
<1> DEFINE q == h \div p
           r == h % p
<1>1. p \in Nat \ {0} /\ h \in Nat /\ Half \in Nat \ {0} /\ m \in Nat /\ m < Half
  BY Sizes DEF UWord
<1>2. q \in Nat /\ r \in 0 .. p-1 /\ h = p * q + r
  BY <1>1, QuotientSmall
<1> HIDE DEF q, r
<1>3. r \in Nat /\ r + 1 <= p
  BY <1>1, <1>2
<1>4. Half * r + m \in 0 .. b-1
  <2>1. Half * (r + 1) <= Half * p
    BY <1>1, <1>3
  <2>2. Half * (r + 1) = Half * r + Half /\ Half * r \in Nat
    BY <1>1, <1>3
  <2> QED
    BY <2>1, <2>2, <1>1
<1>5. a = b * q + (Half * r + m)
  <2>1. Half * h = (Half * p) * q + Half * r
    BY <1>1, <1>2, <1>3
  <2>2. Half * r \in Int /\ (Half * p) * q \in Int
    BY <1>1, <1>2, <1>3
  <2> QED
    BY <2>1, <2>2, <1>1
<1>6. Started(a, b, Answered(q, Half * r + m))
  BY <1>2, <1>4, <1>5, AnswerRight
<1> QED
  BY <1>6 DEF q, r

LEMMA LowZeroRight ==
  ASSUME NEW a \in UDword, NEW b \in UDword, high(a) # 0, low(b) = 0
  PROVE  Started(a, b, LowZero(a, b))
<1> DEFINE sr == clzsi2(high(b)) - clzsi2(high(a))
           h == high(a)
           p == high(b)
           m == low(a)
<1>1. /\ h \in UWord /\ m \in UWord /\ a = Half * h + m /\ p \in UWord /\ b = Half * p + 0
      /\ h \in Nat /\ m \in Nat /\ p \in Nat /\ m \in 0 .. Half - 1 /\ m < Half
  BY Words DEF UWord
<1>2. b = Half * p
  BY <1>1, Sizes
<1>3. CASE p = 0
  <2>1. b = 0
    BY <1>2, <1>3, Sizes
  <2>2. LowZero(a, b) = Trap
    BY <1>3 DEF LowZero
  <2> QED
    BY <2>1, <2>2, TrapRight
<1>4. CASE p # 0 /\ m = 0
  <2>1. LowZero(a, b) = Answered(h \div p, all(h % p, 0))
    BY <1>4 DEF LowZero
  <2>2. Started(a, b, Answered(h \div p, Half * (h % p) + m))
    <3> HIDE DEF h, p, m
    <3> QED
      BY <1>1, <1>2, <1>4, WordQuotient
  <2>3. all(h % p, 0) = Half * (h % p) + m
    <3>1. h % p \in 0 .. p - 1
      BY <1>1, <1>4, QuotientSmall
    <3> DEFINE r == h % p
    <3>2. r \in Nat
      BY <3>1
    <3> HIDE DEF r
    <3>3. r * Half + 0 = Half * r + m
      BY <3>2, <1>4, Sizes
    <3> QED
      BY <3>3 DEF r, all
  <2> QED
    BY <2>1, <2>2, <2>3
<1>5. CASE p # 0 /\ m # 0 /\ IsPower(p)
  <2> DEFINE k == ctzsi2(p)
  <2>1. k \in Nat /\ p = Pow2[k]
    BY <1>1, <1>5, Sizes, PowerTest
  <2>2. LowZero(a, b) = Answered(Shr(h, k), all(And[h][p - 1], m))
    BY <1>5 DEF LowZero
  <2>3. Shr(h, k) = h \div p /\ And[h][p - 1] = h % p
    BY <2>1, <1>1, AndMask DEF Shr
  <2>4. Started(a, b, Answered(h \div p, Half * (h % p) + m))
    <3> HIDE DEF h, p, m
    <3> QED
      BY <1>1, <1>2, <1>5, WordQuotient
  <2>5. all(h % p, m) = Half * (h % p) + m
    <3>1. h % p \in 0 .. p - 1
      BY <1>1, <1>5, QuotientSmall
    <3> DEFINE r == h % p
    <3>2. r \in Nat
      BY <3>1
    <3> HIDE DEF r
    <3>3. r * Half + m = Half * r + m
      BY <3>2, <1>1, Sizes
    <3> QED
      BY <3>3 DEF r, all
  <2> QED
    BY <2>2, <2>3, <2>4, <2>5
<1>6. CASE p # 0 /\ m # 0 /\ ~IsPower(p)
  <2>1. LowZero(a, b) = IF sr \in 0 .. HalfBits - 2 THEN Loop(a, sr + 1) ELSE Answered(0, a)
    BY <1>6 DEF LowZero
  <2>2. /\ sr \in Int /\ sr <= HalfBits - 1
        /\ sr >= 0 => Started(a, b, Loop(a, sr + 1))
        /\ sr < 0 => Started(a, b, Answered(0, a))
    BY <1>6, SizesCompared
  <2>3. sr # HalfBits - 1
    <3>1. SUFFICES ASSUME sr = HalfBits - 1 PROVE FALSE
      OBVIOUS
    <3> DEFINE j == clzsi2(h)
               k == clzsi2(p)
    <3>2. /\ j \in 0 .. HalfBits - 1 /\ k \in 0 .. HalfBits - 1 /\ p < Pow2[HalfBits - k]
      BY <1>1, <1>6, ClzWord DEF Leading
    <3>3. k - j = HalfBits - 1
      BY <3>1
    <3> HIDE DEF j, k, p
    <3>4. HalfBits - k = 1
      BY <3>2, <3>3, Sizes
    <3>5. p = 1
      BY <3>2, <3>4, <1>1, <1>6, SmallPowers
    <3>6. IsPower(1)
      BY AndZero DEF IsPower
    <3> QED
      BY <3>5, <3>6, <1>6
  <2> HIDE DEF sr
  <2>4. sr >= 0 <=> sr \in 0 .. HalfBits - 2
    BY <2>2, <2>3, Sizes
  <2> QED
    BY <2>1, <2>2, <2>4
<1> QED
  BY <1>3, <1>4, <1>5, <1>6

LEMMA HighZeroRight ==
  ASSUME NEW a \in UDword, NEW b \in UDword, high(a) # 0, high(b) = 0, low(b) # 0
  PROVE  Started(a, b, HighZero(a, b))
<1> DEFINE p == low(b)
<1>1. p \in UWord /\ p \in Nat /\ p < Half /\ b = p /\ a \in Nat /\ b \in Nat
  <2>1. b = Half * 0 + p /\ p \in UWord /\ p \in Nat /\ p < Half /\ a \in Nat /\ b \in Nat
    BY Words
  <2> QED
    BY <2>1, Sizes
<1>2. CASE IsPower(p)
  <2> DEFINE k == ctzsi2(p)
  <2>1. k \in 0 .. HalfBits - 1 /\ k \in Nat /\ p = Pow2[k]
    BY <1>1, <1>2, Sizes, PowerTest
  <2>2. HighZero(a, b) = Answered(Shr(a, k), And[low(a)][p - 1])
    BY <1>2 DEF HighZero
  <2>3. And[low(a)][p - 1] = low(a) % p
    BY <2>1, Words, AndMask
  <2>4. low(a) % p = a % p
    <3> DEFINE h == high(a)
               l == low(a)
               g == Pow2[HalfBits - k]
    <3>1. a = Half * h + l /\ h \in Nat /\ l \in Nat
      BY Words
    <3>2. Half = p * g /\ p \in Nat \ {0} /\ g \in Nat
      <4>1. HalfBits - k \in Nat /\ k + (HalfBits - k) = HalfBits
        BY <2>1, Sizes
      <4>2. Pow2[k + (HalfBits - k)] = Pow2[k] * g
        BY <2>1, <4>1, PowSum
      <4> QED
        BY <4>1, <4>2, <2>1, PowPositive DEF Half
    <3> DEFINE y == l \div p
               r == l % p
    <3>3. y \in Nat /\ r \in 0 .. p-1 /\ l = p * y + r
      BY <3>1, <3>2, QuotientSmall
    <3> HIDE DEF h, l, g, y, r, p
    <3>4. a = p * (g * h + y) + r
      <4>1. (p * g) * h = p * (g * h) /\ p * (g * h + y) = p * (g * h) + p * y
        BY <3>1, <3>2, <3>3
      <4>2. p * (g * h) \in Int /\ p * y \in Int
        BY <3>1, <3>2, <3>3
      <4> QED
        BY <4>1, <4>2, <3>1, <3>2, <3>3
    <3> DEFINE z == g * h + y
    <3>5. z \in Int /\ a = p * z + r
      BY <3>1, <3>2, <3>3, <3>4
    <3> HIDE DEF z
    <3>6. (p * z + r) % p = r
      BY <3>2, <3>3, <3>5, Quotient
    <3> QED
      BY <3>5, <3>6 DEF r, l
  <2>5. Shr(a, k) = a \div p
    BY <2>1 DEF Shr
  <2>6. p \in Nat \ {0} /\ a \div p \in Nat /\ a % p \in 0 .. p-1 /\ a = p * (a \div p) + (a % p)
    BY <1>1, QuotientSmall
  <2> HIDE DEF p
  <2>7. Started(a, b, Answered(a \div p, a % p))
    BY <2>6, <1>1, AnswerRight
  <2> QED
    BY <2>2, <2>3, <2>4, <2>5, <2>7 DEF p
<1>3. CASE ~IsPower(p)
  <2> DEFINE j == clzsi2(high(a))
             k == clzsi2(p)
             n == 1 + HalfBits + k - j
             m == HalfBits - 1 - k
  <2>1. HighZero(a, b) = Loop(a, n)
    BY <1>3 DEF HighZero
  <2>2. /\ j \in 0 .. HalfBits - 1 /\ high(a) < Pow2[HalfBits - j]
        /\ k \in 0 .. HalfBits - 1 /\ Pow2[HalfBits - 1 - k] <= p
    <3>1. high(a) \in UWord /\ p # 0
      BY Words
    <3> QED
      BY <3>1, <1>1, ClzWord DEF Leading
  <2> HIDE DEF j, k, p
  <2>3. n \in 0 .. 2 * HalfBits /\ n \in Nat /\ m \in Nat /\ n + m = HalfBits + (HalfBits - j)
    BY <2>2, Sizes
  <2>4. a < Pow2[HalfBits + (HalfBits - j)]
    BY <2>2, DividendBelow
  <2>5. a \div Pow2[n] < Pow2[m]
    BY <2>3, <2>4, <1>1, ShiftBelow
  <2>6. a \div Pow2[n] < b
    <3>1. Pow2[n] \in Nat \ {0} /\ Pow2[m] \in Nat
      BY <2>3, PowPositive
    <3>2. a \div Pow2[n] \in Nat
      BY <3>1, <1>1, QuotientSmall
    <3> QED
      BY <3>1, <3>2, <2>2, <2>5, <1>1
  <2>7. ~(b > Full \div 2)
    <3> DEFINE i == Half \div 2
    <3>1. i \in Nat /\ i > 0 /\ Half = 2 * i
      BY Sizes
    <3> HIDE DEF i
    <3>2. Full = 2 * (i * Half)
      BY <3>1, Sizes
    <3>3. i * Half >= Half /\ i * Half \in Int
      BY <3>1, Sizes
    <3> DEFINE g == i * Half
    <3>4. g \in Int /\ Full = 2 * g /\ g >= Half
      BY <3>2, <3>3
    <3> HIDE DEF g
    <3>5. Full \div 2 = g
      BY <3>4
    <3> QED
      BY <3>4, <3>5, <1>1, Sizes
  <2> HIDE DEF n
  <2>8. Running(a, b, Loop(a, n))
    BY <2>3, <2>6, <2>7, LoopRuns
  <2> QED
    BY <2>1, <2>8 DEF Started, Running
<1> QED
  BY <1>2, <1>3

LEMMA BothWordsRight ==
  ASSUME NEW a \in UDword, NEW b \in UDword, high(a) # 0, high(b) # 0
  PROVE  Started(a, b, BothWords(a, b))
<1> DEFINE sr == clzsi2(high(b)) - clzsi2(high(a))
<1>1. BothWords(a, b) = IF sr \in 0 .. HalfBits - 1 THEN Loop(a, sr + 1) ELSE Answered(0, a)
  BY DEF BothWords
<1>2. /\ sr \in Int /\ sr <= HalfBits - 1
      /\ sr >= 0 => Started(a, b, Loop(a, sr + 1))
      /\ sr < 0 => Started(a, b, Answered(0, a))
  BY SizesCompared
<1> HIDE DEF sr
<1>3. sr >= 0 <=> sr \in 0 .. HalfBits - 1
  BY <1>2, Sizes
<1> QED
  BY <1>1, <1>2, <1>3

LEMMA BeginRight ==
  ASSUME NEW a \in UDword, NEW b \in UDword
  PROVE  Started(a, b, Begin(a, b))
<1>1. /\ high(a) \in Nat /\ low(a) \in Nat /\ a = Half * high(a) + low(a) /\ low(a) < Half
      /\ high(b) \in Nat /\ low(b) \in Nat /\ b = Half * high(b) + low(b) /\ low(b) < Half
      /\ a \in Nat /\ b \in Nat
  BY Words
<1>2. CASE high(a) = 0 /\ high(b) = 0
  <2>1. a = low(a) /\ b = low(b)
    BY <1>1, <1>2, Sizes
  <2>2. CASE b = 0
    <3>1. Begin(a, b) = Trap
      BY <1>2, <2>1, <2>2 DEF Begin
    <3> QED
      BY <3>1, <2>2, TrapRight
  <2>3. CASE b # 0
    <3>1. Begin(a, b) = Answered(a \div b, a % b)
      BY <1>2, <2>1, <2>3 DEF Begin
    <3>2. a \div b \in Nat /\ a % b \in 0 .. b-1 /\ a = b * (a \div b) + (a % b)
      BY <1>1, <2>3, QuotientSmall
    <3>3. Started(a, b, Answered(a \div b, a % b))
      BY <3>2, AnswerRight
    <3> QED
      BY <3>1, <3>3
  <2> QED
    BY <2>2, <2>3
<1>3. CASE high(a) = 0 /\ high(b) # 0
  <2>1. Begin(a, b) = Answered(0, a)
    BY <1>3 DEF Begin
  <2>2. a < Half /\ b >= Half
    <3>1. a = low(a)
      BY <1>1, <1>3, Sizes
    <3> DEFINE h == high(b)
    <3>2. h \in Nat /\ h > 0 /\ b = Half * h + low(b)
      BY <1>1, <1>3
    <3> HIDE DEF h
    <3>3. Half * h >= Half /\ Half * h \in Nat
      BY <3>2, Sizes
    <3> QED
      BY <3>1, <3>2, <3>3, <1>1, Sizes
  <2>3. a \in 0 .. b-1 /\ a = b * 0 + a
    BY <1>1, <2>2, Sizes
  <2>4. Started(a, b, Answered(0, a))
    BY <2>3, AnswerRight
  <2> QED
    BY <2>1, <2>4
<1>4. CASE high(a) # 0 /\ low(b) = 0
  <2>1. Begin(a, b) = LowZero(a, b)
    BY <1>4 DEF Begin
  <2> QED
    BY <1>4, <2>1, LowZeroRight
<1>5. CASE high(a) # 0 /\ low(b) # 0 /\ high(b) = 0
  <2>1. Begin(a, b) = HighZero(a, b)
    BY <1>5 DEF Begin
  <2> QED
    BY <1>5, <2>1, HighZeroRight
<1>6. CASE high(a) # 0 /\ low(b) # 0 /\ high(b) # 0
  <2>1. Begin(a, b) = BothWords(a, b)
    BY <1>6 DEF Begin
  <2> QED
    BY <1>6, <2>1, BothWordsRight
<1> QED
  BY <1>2, <1>3, <1>4, <1>5, <1>6

-----------------------------------------------------------------------------
(* The calls.  The inductive invariant: a loop that is under way divides the *)
(* arguments of its call, and a call that is done has its answer.            *)
Dividing == call.fn = "__udivmoddi4"
CallInv ==
  /\ Calls /\ pc \in {"start", "loop", "done"}
  /\ pc = "loop" => Dividing /\ Running(call.a, call.b, regs)
  /\ pc = "done" => IF Dividing THEN DivisionAnswer(call.a, call.b, regs) ELSE out = Result(call)

LEMMA Dividends ==
  ASSUME Calls, Dividing
  PROVE  call.a \in UDword /\ call.b \in UDword
BY DEF Calls, Dividing, CopyFns, StrFns

LEMMA CallInvInit == Init => CallInv
BY DEF Init, CallInv

LEMMA CallInvStep == CallInv /\ [Next]_klibVars => CallInv'
<1> SUFFICES ASSUME CallInv, [Next]_klibVars PROVE CallInv'
  OBVIOUS
<1>0. ASSUME call' = call PROVE Calls' /\ (Dividing' <=> Dividing) /\ Result(call)' = Result(call)
  <2>1. Calls
    BY DEF CallInv
  <2> QED
    BY <2>1, <1>0 DEF Calls, Dividing
<1>1. CASE Divide
  <2>1. call' = call /\ regs' = Begin(call.a, call.b) /\ Dividing /\ Calls
        /\ pc' = IF regs'.done THEN "done" ELSE "loop"
    BY <1>1 DEF Divide, Dividing, CallInv
  <2>2. Started(call.a, call.b, Begin(call.a, call.b))
    BY <2>1, Dividends, BeginRight
  <2>3. Started(call.a, call.b, regs')
    BY <2>1, <2>2
  <2>4. regs'.done => DivisionAnswer(call.a, call.b, regs')
    BY <2>3 DEF Started
  <2>5. ~regs'.done => Running(call.a, call.b, regs')
    BY <2>3 DEF Started
  <2>6. pc' \in {"loop", "done"} /\ (pc' = "loop" => ~regs'.done) /\ (pc' = "done" => regs'.done)
    BY <2>1
  <2>7. pc' = "loop" => Running(call.a, call.b, regs)'
    BY <2>1, <2>5, <2>6 DEF Running, Balance
  <2>8. pc' = "done" => DivisionAnswer(call.a, call.b, regs)'
    BY <2>1, <2>4, <2>6 DEF DivisionAnswer
  <2> QED
    BY <1>0, <2>1, <2>6, <2>7, <2>8 DEF CallInv
<1>2. CASE DivideRound
  <2>1. call' = call /\ pc = "loop" /\ pc' = pc /\ regs.sr > 0 /\ regs' = Round(regs, call.b)
    BY <1>2 DEF DivideRound
  <2>2. Dividing /\ Running(call.a, call.b, regs)
    BY <2>1 DEF CallInv
  <2>3. Running(call.a, call.b, Round(regs, call.b))
    BY <2>1, <2>2, RoundKeeps
  <2>4. Running(call.a, call.b, regs)'
    BY <2>1, <2>3 DEF Running, Balance
  <2> QED
    BY <1>0, <2>1, <2>2, <2>4 DEF CallInv
<1>3. CASE DivideReturn
  <2>1. call' = call /\ pc = "loop" /\ pc' = "done" /\ regs.sr = 0 /\ regs' = Finish(regs)
    BY <1>3 DEF DivideReturn
  <2>2. Dividing /\ Running(call.a, call.b, regs)
    BY <2>1 DEF CallInv
  <2>3. /\ Finish(regs) \in Locals /\ Finish(regs).done /\ ~Finish(regs).trap
        /\ Finish(regs).q = call.a \div call.b /\ Finish(regs).r = call.a % call.b
    BY <2>1, <2>2, FinishRight
  <2>4. call.b # 0
    BY <2>2, Sizes DEF Running, Locals, UDword
  <2>5. DivisionAnswer(call.a, call.b, regs)'
    BY <2>1, <2>3, <2>4 DEF DivisionAnswer
  <2> QED
    BY <1>0, <2>1, <2>2, <2>5 DEF CallInv
<1>4. CASE Answer
  <2>1. call' = call /\ ~Dividing /\ out' = Result(call) /\ pc' = "done"
    BY <1>4 DEF Answer, Dividing
  <2> QED
    BY <1>0, <2>1 DEF CallInv
<1>5. CASE UNCHANGED klibVars
  <2>1. call' = call /\ pc' = pc /\ regs' = regs /\ out' = out
    BY <1>5 DEF klibVars
  <2>2. Running(call.a, call.b, regs)' <=> Running(call.a, call.b, regs)
    BY <2>1 DEF Running, Balance
  <2>3. DivisionAnswer(call.a, call.b, regs)' <=> DivisionAnswer(call.a, call.b, regs)
    BY <2>1 DEF DivisionAnswer
  <2> QED
    BY <1>0, <2>1, <2>2, <2>3 DEF CallInv
<1> QED
  BY <1>1, <1>2, <1>3, <1>4, <1>5 DEF Next

(* A call stays what it was made as. While a division runs its registers are  *)
(* in range and balanced; when a call is done its answer is the quotient and  *)
(* remainder, or what the function called returns (int64.c:413-578).          *)
THEOREM CallInvHolds == Spec => []CallInv
<1> QED
  BY CallInvInit, CallInvStep, PTL DEF Spec

(* In every round of the division the dividend is what the quotient bits     *)
(* found account for, the partial remainder and the bits still to come, and  *)
(* the remainder is below the divisor.                                       *)
THEOREM LoopDividesHolds == Spec => []LoopDivides
<1>1. CallInv => LoopDivides
  <2> SUFFICES ASSUME CallInv, pc = "loop" PROVE LoopDivides
    BY DEF LoopDivides
  <2>1. Running(call.a, call.b, regs)
    BY DEF CallInv
  <2> QED
    BY <2>1 DEF LoopDivides, Running, Balance
<1> QED
  BY <1>1, CallInvHolds, PTL

-----------------------------------------------------------------------------
(* What the other arithmetic calls answer.  The low double word of a number, *)
(* and of a number given as words.                                           *)
LEMMA BitsIs ==
  ASSUME NEW k \in Int, NEW r \in 0 .. Full-1
  PROVE  Bits(Full * k + r) = r
BY Sizes, Quotient DEF Bits

LEMMA BitsSplit ==
  ASSUME NEW x \in Int
  PROVE  /\ Bits(x) \in 0 .. Full-1 /\ Bits(x) \in UDword /\ x \div Full \in Int
         /\ x = Full * (x \div Full) + Bits(x)
<1>1. Full \in Nat \ {0}
  BY Sizes
<1>2. x \div Full \in Int /\ x % Full \in 0 .. Full-1 /\ x = Full * (x \div Full) + (x % Full)
  BY <1>1, Division
<1> QED
  BY <1>2 DEF Bits, UDword

LEMMA BitsSmall ==
  ASSUME NEW x \in UDword
  PROVE  Bits(x) = x
BY Sizes DEF Bits, UDword

LEMMA BitsSame ==
  ASSUME NEW x \in Int, NEW k \in Int
  PROVE  Bits(x + Full * k) = Bits(x)
<1> DEFINE r == Bits(x)
           j == x \div Full
<1>1. r \in 0 .. Full-1 /\ j \in Int /\ x = Full * j + r
  BY BitsSplit
<1> HIDE DEF r, j
<1>2. r \in Int /\ Full \in Int
  BY <1>1, Sizes
<1>3. x + Full * k = Full * (j + k) + r /\ j + k \in Int
  BY <1>1, <1>2
<1>4. Bits(Full * (j + k) + r) = r
  BY <1>1, <1>3, BitsIs
<1> QED
  BY <1>3, <1>4 DEF r

LEMMA TopWord ==
  ASSUME NEW s \in Int, NEW x \in 0 .. Half-1
  PROVE  all(s % Half, x) = Bits(Half * s + x)
<1> DEFINE k == s \div Half
           h == s % Half
<1>1. k \in Int /\ h \in 0 .. Half-1 /\ s = Half * k + h
  <2>1. Half \in Nat \ {0}
    BY Sizes
  <2> QED
    BY <2>1, Division
<1>2. h \in Nat /\ h + 1 <= Half /\ x \in Nat /\ x < Half
  BY <1>1, Sizes
<1> HIDE DEF k, h
<1>3. h * Half + x \in 0 .. Full-1
  <2>1. (h + 1) * Half <= Half * Half
    BY <1>2, Sizes
  <2>2. (h + 1) * Half = h * Half + Half /\ h * Half \in Nat
    BY <1>2, Sizes
  <2> QED
    BY <2>1, <2>2, <1>2, Sizes
<1>4. Half * s + x = Full * k + (h * Half + x)
  <2>1. Half * (Half * k + h) = (Half * Half) * k + h * Half
    BY <1>1, <1>2, Sizes
  <2>2. (Half * Half) * k \in Int /\ h * Half \in Int
    BY <1>1, <1>2, Sizes
  <2> QED
    BY <2>1, <2>2, <1>1, <1>2, Sizes
<1>5. Bits(Full * k + (h * Half + x)) = h * Half + x
  BY <1>1, <1>3, BitsIs
<1> QED
  BY <1>4, <1>5 DEF all, h

LEMMA AddRight ==
  ASSUME NEW a \in UDword, NEW b \in UDword
  PROVE  add_ssaaaa(high(a), low(a), high(b), low(b)) = Bits(a + b)
<1> DEFINE ah == high(a)
           al == low(a)
           bh == high(b)
           bl == low(b)
           x == (al + bl) % Half
           c == IF x < al THEN 1 ELSE 0
<1>1. /\ ah \in Nat /\ al \in Nat /\ al < Half /\ a = Half * ah + al
      /\ bh \in Nat /\ bl \in Nat /\ bl < Half /\ b = Half * bh + bl
  BY Words
<1> HIDE DEF ah, al, bh, bl
<1>2. x \in 0 .. Half-1 /\ c \in {0, 1} /\ al + bl = Half * c + x
  <2>1. CASE al + bl < Half
    <3>1. x = al + bl
      BY <2>1, <1>1, Sizes
    <3> HIDE DEF x
    <3>2. c = 0
      BY <3>1, <1>1
    <3> HIDE DEF c
    <3>3. x \in 0 .. Half-1
      BY <3>1, <2>1, <1>1, Sizes
    <3>4. Half * c = 0
      BY <3>2, Sizes
    <3> QED
      BY <3>1, <3>2, <3>3, <3>4, <1>1
  <2>2. CASE al + bl >= Half
    <3> DEFINE y == al + bl - Half
    <3>0. /\ Half \in Nat /\ al \in Nat /\ bl \in Nat /\ al < Half /\ bl < Half
      BY <1>1, Sizes
    <3>1. y \in 0 .. Half-1 /\ al + bl = Half + y /\ y < al
      BY ONLY <2>2, <3>0, SMTT(30)
    <3> HIDE DEF y
    <3>2. (Half * 1 + y) % Half = y /\ Half * 1 = Half
      BY <3>1, Sizes, Quotient
    <3>3. x = y
      BY <3>1, <3>2
    <3> HIDE DEF x
    <3> QED
      BY <3>1, <3>2, <3>3
  <2> QED
    BY <2>1, <2>2, <1>1, Sizes
<1> HIDE DEF x, c
<1> DEFINE s == ah + bh + c
<1>3. s \in Int
  BY <1>1, <1>2
<1>4. all(s % Half, x) = Bits(Half * s + x)
  <2> HIDE DEF s
  <2> QED
    BY <1>2, <1>3, TopWord
<1>5. Half * s + x = a + b
  <2>1. Half * s = Half * ah + Half * bh + Half * c
    BY <1>1, <1>2, Sizes
  <2>2. Half * ah \in Int /\ Half * bh \in Int /\ Half * c \in Int /\ x \in Int /\ a \in Int /\ b \in Int
    BY <1>1, <1>2, Sizes
  <2> HIDE DEF s
  <2> QED
    BY <2>1, <2>2, <1>1, <1>2
<1>6. add_ssaaaa(ah, al, bh, bl) = all(s % Half, x)
  BY DEF add_ssaaaa, x, c
<1> HIDE DEF s
<1>7. add_ssaaaa(ah, al, bh, bl) = Bits(a + b)
  BY <1>4, <1>5, <1>6
<1> QED
  BY <1>7 DEF ah, al, bh, bl

LEMMA SubRight ==
  ASSUME NEW a \in UDword, NEW b \in UDword
  PROVE  sub_ddmmss(high(a), low(a), high(b), low(b)) = Bits(a - b)
<1> DEFINE ah == high(a)
           al == low(a)
           bh == high(b)
           bl == low(b)
           x == (al - bl) % Half
           c == IF x > al THEN 1 ELSE 0
<1>1. /\ ah \in Nat /\ al \in Nat /\ al < Half /\ a = Half * ah + al
      /\ bh \in Nat /\ bl \in Nat /\ bl < Half /\ b = Half * bh + bl
  BY Words
<1> HIDE DEF ah, al, bh, bl
<1>2. x \in 0 .. Half-1 /\ c \in {0, 1} /\ al - bl = x - Half * c
  <2>1. CASE al >= bl
    <3>1. x = al - bl
      BY <2>1, <1>1, Sizes
    <3> HIDE DEF x
    <3>2. c = 0
      BY <3>1, <1>1
    <3> HIDE DEF c
    <3>3. x \in 0 .. Half-1
      BY <3>1, <2>1, <1>1, Sizes
    <3>4. Half * c = 0
      BY <3>2, Sizes
    <3> QED
      BY <3>1, <3>2, <3>3, <3>4, <1>1
  <2>2. CASE al < bl
    <3> DEFINE y == (al - bl) + Half
    <3>1. y \in 0 .. Half-1 /\ al - bl = Half * (-1) + y /\ y > al
      BY <2>2, <1>1, Sizes
    <3> HIDE DEF y
    <3>2. (Half * (-1) + y) % Half = y
      <4>1. Half \in Nat \ {0} /\ -1 \in Int
        BY Sizes
      <4> QED
        BY <3>1, <4>1, Quotient
    <3>3. x = y
      BY <3>1, <3>2
    <3> HIDE DEF x
    <3> QED
      BY <3>1, <3>3, Sizes
  <2> QED
    BY <2>1, <2>2, <1>1, Sizes
<1> HIDE DEF x, c
<1> DEFINE s == (ah - bh) - c
<1>3. s \in Int
  BY <1>1, <1>2
<1>4. all(s % Half, x) = Bits(Half * s + x)
  <2> HIDE DEF s
  <2> QED
    BY <1>2, <1>3, TopWord
<1>5. Half * s + x = a - b
  <2>1. Half * s = (Half * ah - Half * bh) - Half * c
    BY <1>1, <1>2, Sizes
  <2>2. Half * ah \in Int /\ Half * bh \in Int /\ Half * c \in Int /\ x \in Int /\ a \in Int /\ b \in Int
    BY <1>1, <1>2, Sizes
  <2> HIDE DEF s
  <2> QED
    BY <2>1, <2>2, <1>1, <1>2
<1>6. sub_ddmmss(ah, al, bh, bl) = all(s % Half, x)
  BY DEF sub_ddmmss, x, c
<1> HIDE DEF s
<1>7. sub_ddmmss(ah, al, bh, bl) = Bits(a - b)
  BY <1>4, <1>5, <1>6
<1> QED
  BY <1>7 DEF ah, al, bh, bl

(* The counts of zeros: the place of the top bit, and of the lowest.         *)
LEMMA LogFloorIs ==
  ASSUME NEW x \in Nat, NEW k \in 0 .. 2 * HalfBits, Pow2[k] <= x, x < Pow2[k+1]
  PROVE  LogFloor(x) = k
<1> SUFFICES ASSUME NEW j \in 0 .. 2 * HalfBits, Pow2[j] <= x, x < Pow2[j+1] PROVE j = k
  BY DEF LogFloor
<1>1. j \in Nat /\ k \in Nat
  BY Sizes
<1>2. Pow2[j] \in Nat /\ Pow2[j+1] \in Nat /\ Pow2[k] \in Nat /\ Pow2[k+1] \in Nat
  BY <1>1, PowPositive
<1>3. ~(j < k)
  <2>1. SUFFICES ASSUME j < k PROVE FALSE
    OBVIOUS
  <2>2. Pow2[j+1] <= Pow2[k]
    BY <2>1, <1>1, PowMonotone
  <2> QED
    BY <2>2, <1>2
<1>4. ~(k < j)
  <2>1. SUFFICES ASSUME k < j PROVE FALSE
    OBVIOUS
  <2>2. Pow2[k+1] <= Pow2[j]
    BY <2>1, <1>1, PowMonotone
  <2> QED
    BY <2>2, <1>2
<1> QED
  BY <1>1, <1>3, <1>4

LEMMA LowBits ==
  ASSUME NEW k \in Nat, NEW m \in Nat, NEW x, x = Pow2[k] * (2*m + 1)
  PROVE  /\ \A j \in 0 .. k : x % Pow2[j] = 0
         /\ x % Pow2[k+1] # 0 /\ x \in Nat /\ x > 0
<1> DEFINE p == Pow2[k]
<1>1. p \in Nat /\ p > 0 /\ Pow2[k+1] = 2 * p
  BY PowPositive, PowStep
<1>2. x = p * (2*m + 1)
  OBVIOUS
<1> HIDE DEF p
<1>3. x = (2 * p) * m + p
  BY <1>1, <1>2
<1>4. x % Pow2[k+1] = p
  <2> DEFINE g == 2 * p
  <2>1. g \in Nat \ {0} /\ p \in 0 .. g-1 /\ x = g * m + p /\ Pow2[k+1] = g /\ m \in Int
    BY <1>1, <1>3
  <2> HIDE DEF g
  <2>2. (g * m + p) % g = p
    BY <2>1, Quotient
  <2> QED
    BY <2>1, <2>2
<1>5. ASSUME NEW j \in 0 .. k PROVE x % Pow2[j] = 0
  <2> DEFINE a == Pow2[j]
             b == Pow2[k - j]
             z == b * (2*m + 1)
  <2>1. j \in Nat /\ k - j \in Nat /\ j + (k - j) = k
    OBVIOUS
  <2>2. p = a * b
    <3>1. Pow2[j + (k - j)] = a * b
      BY <2>1, PowSum
    <3> QED
      BY <2>1, <3>1 DEF p
  <2>3. a \in Nat \ {0} /\ b \in Nat
    BY <2>1, PowPositive
  <2> HIDE DEF a, b
  <2>4. z \in Int /\ x = a * z + 0 /\ 0 \in 0 .. a-1
    BY <2>2, <2>3, <1>2
  <2> HIDE DEF z
  <2>5. (a * z + 0) % a = 0
    BY <2>3, <2>4, Quotient
  <2> QED
    BY <2>4, <2>5 DEF a
<1>6. x \in Nat /\ x > 0
  <2>1. (2 * p) * m >= 0 /\ (2 * p) * m \in Int
    BY <1>1
  <2> QED
    BY <2>1, <1>1, <1>3
<1> QED
  BY <1>1, <1>4, <1>5, <1>6

LEMMA LowestBitIs ==
  ASSUME NEW k \in 0 .. 2 * HalfBits, NEW m \in Nat, NEW x, x = Pow2[k] * (2*m + 1)
  PROVE  LowestBit(x) = k
<1>1. k \in Nat
  BY Sizes
<1>2. /\ \A j \in 0 .. k : x % Pow2[j] = 0
      /\ x % Pow2[k+1] # 0 /\ x \in Nat /\ x > 0
  BY <1>1, LowBits
<1>3. x % Pow2[k] = 0
  BY <1>1, <1>2
<1>4. ASSUME NEW j \in 0 .. 2 * HalfBits, x % Pow2[j] = 0, x % Pow2[j+1] # 0 PROVE j = k
  <2>1. j \in Nat
    BY Sizes
  <2>2. ~(j < k)
    <3>1. SUFFICES ASSUME j < k PROVE FALSE
      OBVIOUS
    <3>2. j + 1 \in 0 .. k
      BY <3>1, <2>1, <1>1
    <3> QED
      BY <3>2, <1>2, <1>4
  <2>3. ~(k < j)
    <3>1. SUFFICES ASSUME k < j PROVE FALSE
      OBVIOUS
    <3> DEFINE a == Pow2[k+1]
               b == Pow2[j - (k+1)]
               y == x \div Pow2[j]
    <3>2. k + 1 \in Nat /\ j - (k+1) \in Nat /\ (k+1) + (j - (k+1)) = j
      BY <3>1, <2>1, <1>1
    <3>3. Pow2[j] = a * b
      <4>1. Pow2[(k+1) + (j - (k+1))] = a * b
        BY <3>2, PowSum
      <4> QED
        BY <3>2, <4>1
    <3>4. a \in Nat \ {0} /\ b \in Nat
      BY <3>2, PowPositive
    <3>5. y \in Nat /\ x = Pow2[j] * y + 0
      <4> DEFINE d == Pow2[j]
      <4>1. d \in Nat \ {0}
        BY <2>1, PowPositive
      <4>2. x \in Nat /\ x % d = 0 /\ y = x \div d
        BY <1>2, <1>4
      <4> HIDE DEF d, y
      <4>3. x = d * (x \div d) + (x % d) /\ x \div d \in Nat
        BY <4>1, <4>2
      <4> QED
        BY <4>2, <4>3 DEF d
    <3> HIDE DEF a, b, y
    <3> DEFINE z == b * y
    <3>6. z \in Int /\ x = a * z + 0 /\ 0 \in 0 .. a-1
      BY <3>3, <3>4, <3>5
    <3> HIDE DEF z
    <3>7. (a * z + 0) % a = 0
      BY <3>4, <3>6, Quotient
    <3> QED
      BY <3>6, <3>7, <1>2 DEF a
  <2> QED
    BY <2>1, <2>2, <2>3, <1>1
<1> QED
  BY <1>2, <1>3, <1>4 DEF LowestBit

LEMMA ClzdiRight ==
  ASSUME NEW a \in UDword, a # 0
  PROVE  clzdi2(a) = 2 * HalfBits - 1 - LogFloor(a)
<1> DEFINE h == high(a)
           l == low(a)
<1>1. h \in UWord /\ l \in UWord /\ h \in Nat /\ l \in Nat /\ a = Half * h + l /\ a \in Nat
  BY Words
<1>2. CASE h = 0
  <2> DEFINE k == clzsi2(l)
  <2>1. a = l
    BY <1>1, <1>2, Sizes
  <2>2. Leading(HalfBits, l, k) /\ k \in 0 .. HalfBits - 1
    BY <1>1, <2>1, ClzWord
  <2>3. clzdi2(a) = k + HalfBits
    BY <1>2 DEF clzdi2
  <2> HIDE DEF k, h, l
  <2>4. HalfBits - 1 - k \in 0 .. 2 * HalfBits /\ (HalfBits - 1 - k) + 1 = HalfBits - k
    BY <2>2, Sizes
  <2>5. LogFloor(a) = HalfBits - 1 - k
    BY <2>1, <2>2, <2>4, <1>1, LogFloorIs DEF Leading
  <2> QED
    BY <2>2, <2>3, <2>5, Sizes
<1>3. CASE h # 0
  <2> DEFINE k == clzsi2(h)
  <2>1. Leading(HalfBits, h, k) /\ k \in 0 .. HalfBits - 1
    BY <1>1, <1>3, ClzWord
  <2>2. clzdi2(a) = k
    BY <1>3 DEF clzdi2
  <2> HIDE DEF k
  <2>3. a < Pow2[HalfBits + (HalfBits - k)] /\ Pow2[HalfBits + (HalfBits - 1 - k)] <= a
    BY <2>1, DividendBelow, DivisorAbove DEF Leading
  <2> DEFINE i == HalfBits + (HalfBits - 1 - k)
  <2>4. i \in 0 .. 2 * HalfBits /\ i + 1 = HalfBits + (HalfBits - k) /\ i = 2 * HalfBits - 1 - k
    BY <2>1, Sizes
  <2> HIDE DEF i, h, l
  <2>5. LogFloor(a) = i
    BY <2>3, <2>4, <1>1, LogFloorIs DEF i
  <2> QED
    BY <2>1, <2>2, <2>4, <2>5, Sizes
<1> QED
  BY <1>2, <1>3

LEMMA CtzWord ==
  ASSUME NEW x \in UWord, x # 0
  PROVE  Trailing(HalfBits, x, ctzsi2(x)) /\ ctzsi2(x) \in 0 .. HalfBits - 1
<1>1. x \in Nat /\ x < Half /\ x > 0
  BY Sizes DEF UWord
<1>2. x % Half = x
  BY <1>1, Sizes
<1> QED
  BY <1>1, <1>2, Sizes, CtzRight DEF CtzCounts, Half, ctzsi2, Trailing

LEMMA CtzdiRight ==
  ASSUME NEW a \in UDword, a # 0
  PROVE  ctzdi2(a) = LowestBit(a)
<1> DEFINE h == high(a)
           l == low(a)
<1>1. h \in UWord /\ l \in UWord /\ h \in Nat /\ l \in Nat /\ a = Half * h + l /\ a \in Nat
  BY Words
<1>2. CASE l = 0
  <2> DEFINE k == ctzsi2(h)
  <2>1. h # 0 /\ a = Half * h
    BY <1>1, <1>2, Sizes
  <2>2. Trailing(HalfBits, h, k) /\ k \in 0 .. HalfBits - 1
    BY <1>1, <2>1, CtzWord
  <2>3. ctzdi2(a) = k + HalfBits
    BY <1>2 DEF ctzdi2
  <2> HIDE DEF k, h, l
  <2>4. PICK m \in Nat : h = Pow2[k] * (2*m + 1)
    BY <2>2 DEF Trailing
  <2> DEFINE i == HalfBits + k
             e == 2*m + 1
  <2>5. i \in 0 .. 2 * HalfBits /\ k \in Nat /\ i = k + HalfBits
    BY <2>2, Sizes
  <2>6. Pow2[i] = Half * Pow2[k] /\ Pow2[k] \in Nat
    BY <2>5, Sizes, PowSum, PowPositive DEF Half
  <2>7. e \in Nat /\ h = Pow2[k] * e
    BY <2>4
  <2> HIDE DEF i, e
  <2>8. a = Pow2[i] * e
    BY <2>1, <2>6, <2>7, Sizes
  <2>9. LowestBit(a) = i
    BY <2>5, <2>8, LowestBitIs DEF e
  <2> QED
    BY <2>3, <2>5, <2>9
<1>3. CASE l # 0
  <2> DEFINE k == ctzsi2(l)
  <2>1. Trailing(HalfBits, l, k) /\ k \in 0 .. HalfBits - 1
    BY <1>1, <1>3, CtzWord
  <2>2. ctzdi2(a) = k
    BY <1>3 DEF ctzdi2
  <2> HIDE DEF k, h, l
  <2>3. PICK m \in Nat : l = Pow2[k] * (2*m + 1)
    BY <2>1 DEF Trailing
  <2> DEFINE p == Pow2[k]
             g == Pow2[HalfBits - 1 - k]
             n == g * h + m
  <2>4. k \in Nat /\ HalfBits - 1 - k \in Nat /\ k \in 0 .. 2 * HalfBits
        /\ ((k + 1) + (HalfBits - 1 - k)) = HalfBits
    BY <2>1, Sizes
  <2>5. p \in Nat /\ g \in Nat /\ Half = (2 * p) * g
    <3>1. Pow2[(k + 1) + (HalfBits - 1 - k)] = Pow2[k+1] * g
      <4>1. k + 1 \in Nat
        BY <2>4
      <4> QED
        BY <2>4, <4>1, PowSum
    <3>2. Pow2[k+1] = 2 * p
      BY <2>4, PowStep
    <3> QED
      BY <2>4, <3>1, <3>2, PowPositive DEF Half
  <2> HIDE DEF p, g
  <2>6. n \in Nat
    <3>1. g * h \in Nat
      BY <2>5, <1>1
    <3> QED
      BY <3>1
  <2>7. a = p * (2*n + 1)
    <3>1. ((2 * p) * g) * h = p * (2 * (g * h)) /\ g * h \in Int
      BY <2>5, <1>1
    <3>2. l = p * (2*m + 1)
      BY <2>3 DEF p
    <3>3. p * (2*n + 1) = p * (2 * (g * h)) + p * (2*m + 1)
      BY <3>1, <2>5
    <3> HIDE DEF n
    <3> QED
      BY <3>1, <3>2, <3>3, <2>5, <1>1
  <2> HIDE DEF n
  <2>8. LowestBit(a) = k
    BY <2>4, <2>6, <2>7, LowestBitIs DEF p
  <2> QED
    BY <2>2, <2>8
<1> QED
  BY <1>2, <1>3

-----------------------------------------------------------------------------
(* The division as a call of its own: the function goes through the same     *)
(* rounds as the loop and comes to the same answer.                          *)
LEMMA BitsDouble ==
  ASSUME NEW x \in 0 .. Full-1
  PROVE  Bits(2 * x) \in 0 .. Full-2
<1> DEFINE m == Full \div 2
           y == 2 * x
           z == y \div Full
           w == Bits(y)
<1>0. m \in Nat \ {0} /\ Full = m * 2 /\ Full \in Nat /\ x \in Nat
  BY Sizes
<1>1. w \in 0 .. Full-1 /\ z \in Int /\ y = Full * z + w
  <2>1. y \in Int
    BY <1>0
  <2> HIDE DEF y
  <2> QED
    BY <2>1, BitsSplit
<1>2. w # Full - 1
  <2>1. SUFFICES ASSUME w = Full - 1 PROVE FALSE
    OBVIOUS
  <2> HIDE DEF z, w, m
  <2>2. 2 * x = 2 * (m * z) + (2 * m - 1)
    BY <1>1, <2>1, <1>0
  <2>3. m * z \in Int
    BY <1>1, <1>0
  <2> DEFINE v == m * z
  <2> HIDE DEF v
  <2>4. 2 * x = 2 * v + (2 * m - 1) /\ v \in Int /\ x \in Int /\ m \in Int
    BY <2>2, <2>3, <1>0 DEF v
  <2> QED
    BY <2>4
<1> QED
  BY <1>1, <1>2, <1>0

LEMMA RoundType ==
  ASSUME NEW s \in Locals, NEW d \in UDword, s.sr > 0
  PROVE  Round(s, d) \in Locals /\ Round(s, d).sr = s.sr - 1 /\ Round(s, d).done = s.done
<1> DEFINE m == Full \div 2
           top == s.q \div m
           b2 == Bits(2 * s.r)
           c2 == Bits(2 * s.q)
           r == b2 + top
           fits == Bits(d - r - 1) >= m
           q2 == c2 + s.carry
           r2 == IF fits THEN Bits(r - d) ELSE r
           k == IF fits THEN 1 ELSE 0
<1>1. /\ s.q \in 0 .. Full-1 /\ s.r \in 0 .. Full-1 /\ s.carry \in {0, 1} /\ s.sr \in 0 .. 2 * HalfBits
      /\ s.done \in BOOLEAN /\ s.trap \in BOOLEAN /\ d \in 0 .. Full-1
  BY DEF Locals, UDword
<1>2. m \in Nat \ {0} /\ Full = m * 2 /\ 2 \in Nat \ {0} /\ Full \in Nat
  BY Sizes
<1>3. Round(s, d) = [s EXCEPT !.q = q2, !.r = r2, !.carry = k, !.sr = s.sr - 1]
  BY DEF Round
<1>4. top \in 0 .. 2-1
  <2>1. s.q \in 0 .. m * 2 - 1
    BY <1>1, <1>2
  <2> HIDE DEF m
  <2> QED
    BY <1>2, <2>1, DivisionRange
<1>5. \A x \in 0 .. Full-1 : Bits(2 * x) \in 0 .. Full-2
  BY BitsDouble
<1>6. b2 \in 0 .. Full-2 /\ c2 \in 0 .. Full-2
  BY <1>1, <1>5
<1> HIDE DEF top, b2, c2, m
<1>7. r \in 0 .. Full-1 /\ q2 \in 0 .. Full-1
  BY <1>1, <1>2, <1>4, <1>6
<1> HIDE DEF r, q2, fits
<1>8. r2 \in 0 .. Full-1
  <2>1. r - d \in Int
    BY <1>1, <1>2, <1>7
  <2> QED
    BY <2>1, <1>7, BitsSplit
<1>9. k \in {0, 1} /\ s.sr - 1 \in 0 .. 2 * HalfBits
  BY <1>1, Sizes
<1> HIDE DEF r2, k
<1>10. Round(s, d) = [done |-> s.done, trap |-> s.trap, q |-> q2, r |-> r2, sr |-> s.sr - 1, carry |-> k]
  BY <1>3 DEF Locals
<1> QED
  BY <1>1, <1>7, <1>8, <1>9, <1>10 DEF Locals, UDword

LEMMA FinishType ==
  ASSUME NEW s \in Locals
  PROVE  Finish(s) \in Locals
<1> DEFINE u == Bits(2 * s.q) + s.carry
<1>1. s.q \in 0 .. Full-1 /\ s.carry \in {0, 1}
  BY DEF Locals, UDword
<1>2. Bits(2 * s.q) \in 0 .. Full-2
  BY <1>1, BitsDouble
<1>3. u \in UDword
  BY <1>1, <1>2, Sizes DEF UDword
<1>4. Finish(s) = [s EXCEPT !.done = TRUE, !.q = u, !.carry = 0]
  BY DEF Finish
<1> HIDE DEF u
<1> QED
  BY <1>3, <1>4 DEF Locals

(* The function that goes through the rounds of a division by d.             *)
Rounds(d, f) ==
  [s \in Locals |-> IF s.done THEN s ELSE IF s.sr = 0 THEN Finish(s) ELSE f[Round(s, d)]]

LEMMA RoundsExist ==
  ASSUME NEW d \in UDword
  PROVE  LET after == CHOOSE f : f = Rounds(d, f) IN after = Rounds(d, after)
<1> DEFINE size == [s \in Locals |-> s.sr]
           stops == {s \in Locals : s.done \/ s.sr = 0}
           base == [s \in Locals |-> IF s.done THEN s ELSE Finish(s)]
           nxt  == [s \in Locals |-> Round(s, d)]
           G == [s \in Locals |-> [v \in Locals |-> v]]
<1>1. size \in [Locals -> Nat] /\ base \in [Locals -> Locals] /\ G \in [Locals -> [Locals -> Locals]]
  <2>1. \A s \in Locals : s.sr \in Nat /\ Finish(s) \in Locals
    BY FinishType, Sizes DEF Locals
  <2> QED
    BY <2>1
<1>2. ASSUME NEW s \in Locals \ stops PROVE nxt[s] \in Locals /\ size[nxt[s]] < size[s]
  <2>1. s.sr > 0 /\ s.sr \in Nat
    BY <1>2, Sizes DEF Locals
  <2>2. Round(s, d) \in Locals /\ Round(s, d).sr = s.sr - 1
    BY <2>1, RoundType
  <2> QED
    BY <2>1, <2>2
<1>3. \A s \in Locals : /\ nxt[s] = Round(s, d) /\ base[s] = (IF s.done THEN s ELSE Finish(s))
                        /\ s \in stops <=> (s.done \/ s.sr = 0)
  OBVIOUS
<1>4. \A s \in Locals : \A v \in Locals : G[s][v] = v
  OBVIOUS
<1> HIDE DEF size, stops, base, nxt, G
<1>5. Shrinks(Locals, Locals, size, stops, base, nxt, G)
  BY <1>1, <1>2 DEF Shrinks
<1>6. PICK f \in [Locals -> Locals] : \A s \in Locals : Unfolds(f, s, stops, base, nxt, G)
  BY <1>5, Recursion
<1>7. ASSUME NEW s \in Locals
      PROVE  f[s] = IF s.done THEN s ELSE IF s.sr = 0 THEN Finish(s) ELSE f[Round(s, d)]
  <2>1. f[s] = IF s \in stops THEN base[s] ELSE G[s][f[nxt[s]]]
    BY <1>6 DEF Unfolds
  <2>2. CASE s.done \/ s.sr = 0
    BY <2>1, <2>2, <1>3
  <2>3. CASE ~(s.done \/ s.sr = 0)
    <3>1. s.sr > 0
      BY <2>3, Sizes DEF Locals
    <3>2. Round(s, d) \in Locals
      BY <3>1, RoundType
    <3>3. f[Round(s, d)] \in Locals
      BY <3>2
    <3> QED
      BY <2>1, <2>3, <3>3, <1>3, <1>4
  <2> QED
    BY <2>2, <2>3
<1>8. f = Rounds(d, f)
  BY <1>7 DEF Rounds
<1> QED
  BY <1>8

LEMMA RoundsAnswer ==
  ASSUME NEW a, NEW d \in UDword, NEW f, f = Rounds(d, f),
         NEW s, Running(a, d, s)
  PROVE  DivisionAnswer(a, d, f[s])
<1> DEFINE T == {n \in Nat : \A x \in Locals : x.sr = n /\ Running(a, d, x)
                                                => DivisionAnswer(a, d, f[x])}
<1>1. \A x \in Locals : f[x] = IF x.done THEN x ELSE IF x.sr = 0 THEN Finish(x) ELSE f[Round(x, d)]
  <2>1. f = [x \in Locals |-> IF x.done THEN x ELSE IF x.sr = 0 THEN Finish(x) ELSE f[Round(x, d)]]
    BY DEF Rounds
  <2> QED
    BY <2>1
<1>0. d # 0
  BY Sizes DEF Running, Locals, UDword
<1>2. 0 \in T
  <2> SUFFICES ASSUME NEW x \in Locals, x.sr = 0, Running(a, d, x) PROVE DivisionAnswer(a, d, f[x])
    OBVIOUS
  <2>1. f[x] = Finish(x)
    BY <1>1 DEF Running
  <2>2. /\ Finish(x) \in Locals /\ Finish(x).done /\ ~Finish(x).trap
        /\ Finish(x).q = a \div d /\ Finish(x).r = a % d
    BY FinishRight
  <2> QED
    BY <2>1, <2>2, <1>0 DEF DivisionAnswer
<1>3. ASSUME NEW n \in Nat, n \in T PROVE n + 1 \in T
  <2> SUFFICES ASSUME NEW x \in Locals, x.sr = n + 1, Running(a, d, x)
               PROVE  DivisionAnswer(a, d, f[x])
    OBVIOUS
  <2>1. f[x] = f[Round(x, d)]
    BY <1>1 DEF Running
  <2>2. Running(a, d, Round(x, d)) /\ Round(x, d).sr = n
    <3>1. x.sr > 0 /\ x.sr - 1 = n
      OBVIOUS
    <3> QED
      BY <3>1, RoundKeeps
  <2>3. Round(x, d) \in Locals
    BY <2>2 DEF Running
  <2> QED
    BY <2>1, <2>2, <2>3, <1>3
<1> HIDE DEF T
<1>4. Nat \subseteq T
  BY <1>2, <1>3, NatSteps
<1>5. s \in Locals /\ s.sr \in Nat
  BY Sizes DEF Running, Locals
<1> QED
  BY <1>4, <1>5 DEF T

LEMMA DivmodRight ==
  ASSUME NEW a \in UDword, NEW d \in UDword
  PROVE  DivisionAnswer(a, d, udivmoddi4(a, d))
<1> DEFINE after == CHOOSE f : f = Rounds(d, f)
           s == Begin(a, d)
<1>1. udivmoddi4(a, d) = after[s]
  BY DEF udivmoddi4, Rounds
<1>2. after = Rounds(d, after)
  BY RoundsExist
<1> HIDE DEF after
<1>3. Started(a, d, s)
  BY BeginRight
<1>4. CASE s.done
  <2>1. DivisionAnswer(a, d, s)
    BY <1>3, <1>4 DEF Started
  <2>2. after[s] = s
    <3>1. after = [x \in Locals |-> IF x.done THEN x ELSE IF x.sr = 0 THEN Finish(x) ELSE after[Round(x, d)]]
      BY <1>2 DEF Rounds
    <3>2. s \in Locals
      BY <2>1 DEF DivisionAnswer
    <3> HIDE DEF s
    <3> QED
      BY <3>1, <3>2, <1>4
  <2> QED
    BY <2>1, <2>2, <1>1
<1>5. CASE ~s.done
  <2>1. Running(a, d, s)
    BY <1>3, <1>5 DEF Started
  <2>2. DivisionAnswer(a, d, after[s])
    <3> HIDE DEF s
    <3> QED
      BY <2>1, <1>2, RoundsAnswer
  <2> QED
    BY <2>2, <1>1
<1> QED
  BY <1>4, <1>5

-----------------------------------------------------------------------------
(* The signed divisions: the masks take the signs off and put them on.       *)
LEMMA XorZero == \A x \in Nat : Xor[x][0] = x
<1> DEFINE S == {x \in Nat : Xor[x][0] = x}
<1>1. 0 \in S
  BY XorUnfolds
<1>2. ASSUME NEW x \in Nat \ {0}, x \div 2 \in S PROVE x \in S
  <2>1. Xor[x][0] = 2 * Xor[x \div 2][0 \div 2] + (IF x % 2 # 0 % 2 THEN 1 ELSE 0)
    BY XorUnfolds
  <2>2. 0 \div 2 = 0 /\ 0 % 2 = 0
    OBVIOUS
  <2>3. Xor[x \div 2][0] = x \div 2
    BY <1>2
  <2> QED
    BY <2>1, <2>2, <2>3
<1> HIDE DEF S
<1>3. Nat \subseteq S
  BY <1>1, <1>2, BitSteps
<1> QED
  BY <1>3 DEF S

LEMMA XorOnes ==
  ASSUME NEW k \in Nat, NEW x \in Nat, x < Pow2[k]
  PROVE  Xor[x][Pow2[k] - 1] = Pow2[k] - 1 - x
<1> DEFINE S == {j \in Nat : \A n \in Nat : n < Pow2[j] => Xor[n][Pow2[j] - 1] = Pow2[j] - 1 - n}
<1>1. 0 \in S
  BY PowZero, XorZero
<1>2. ASSUME NEW j \in Nat, j \in S PROVE j + 1 \in S
  <2> SUFFICES ASSUME NEW n \in Nat, n < Pow2[j+1] PROVE Xor[n][Pow2[j+1] - 1] = Pow2[j+1] - 1 - n
    OBVIOUS
  <2> DEFINE p == Pow2[j]
             y == n \div 2
             b == n % 2
  <2>1. Pow2[j+1] = 2 * p /\ p \in Nat /\ p > 0
    BY PowStep, PowPositive
  <2>2. b \in {0, 1} /\ n = 2 * y + b /\ y \in Nat
    OBVIOUS
  <2>3. y < p
    BY <2>1, <2>2
  <2>4. Xor[y][p - 1] = p - 1 - y
    BY <1>2, <2>2, <2>3
  <2> HIDE DEF p
  <2>5. 2 * p - 1 \in Nat /\ (2 * p - 1) \div 2 = p - 1 /\ (2 * p - 1) % 2 = 1
    BY <2>1
  <2>6. CASE n = 0
    <3>1. Xor[n][2 * p - 1] = 2 * p - 1
      BY <2>5, <2>6, XorUnfolds
    <3> QED
      BY <3>1, <2>1, <2>6
  <2>7. CASE n # 0
    <3>1. Xor[n][2 * p - 1] = 2 * Xor[y][p - 1] + (IF b # 1 THEN 1 ELSE 0)
      BY <2>5, <2>7, XorUnfolds
    <3> HIDE DEF y, b
    <3> QED
      BY <3>1, <2>1, <2>2, <2>4
  <2> QED
    BY <2>6, <2>7
<1> HIDE DEF S
<1>3. k \in S
  BY <1>1, <1>2, NatSteps
<1> QED
  BY <1>3 DEF S

LEMMA XorFull ==
  ASSUME NEW x \in UDword
  PROVE  Xor[x][Full - 1] = Full - 1 - x
<1>1. 2 * HalfBits \in Nat /\ x \in Nat /\ x < Pow2[2 * HalfBits]
  BY Sizes DEF UDword, Full
<1> QED
  BY <1>1, XorOnes DEF Full

LEMMA FixPlus ==
  ASSUME NEW x \in UDword
  PROVE  Fix(x, 0) = x
<1>1. x \in Nat /\ x - 0 = x
  BY DEF UDword
<1>2. Xor[x][0] = x /\ Bits(x) = x
  BY <1>1, XorZero, BitsSmall
<1> QED
  BY <1>1, <1>2 DEF Fix

LEMMA FixMinus ==
  ASSUME NEW x \in UDword
  PROVE  Fix(x, Full - 1) = Bits(-x)
<1>1. (Full - 1 - x) - (Full - 1) = -x
  BY Sizes DEF UDword
<1>2. Xor[x][Full - 1] = Full - 1 - x
  BY XorFull
<1> QED
  BY <1>1, <1>2 DEF Fix

Magnitude(x) == IF Signed(x) < 0 THEN -Signed(x) ELSE Signed(x)

LEMMA SignedRange ==
  ASSUME NEW x \in UDword
  PROVE  /\ Signed(x) \in Int /\ (Signed(x) < 0 <=> x >= Full \div 2)
         /\ Signed(x) < 0 => Signed(x) = x - Full
         /\ ~(Signed(x) < 0) => Signed(x) = x
         /\ Magnitude(x) \in UDword /\ (x # 0 => Magnitude(x) # 0)
BY Sizes DEF UDword, Signed, Magnitude

LEMMA FixMask ==
  ASSUME NEW x \in UDword
  PROVE  Fix(x, Mask(x)) = Magnitude(x)
<1>1. CASE x >= Full \div 2
  <2>1. Fix(x, Mask(x)) = Bits(-x)
    BY <1>1, FixMinus DEF Mask
  <2>2. Full - x \in 0 .. Full-1 /\ -x = Full * (-1) + (Full - x) /\ -1 \in Int
    BY <1>1, Sizes DEF UDword
  <2>3. Bits(Full * (-1) + (Full - x)) = Full - x
    BY <2>2, BitsIs
  <2>4. Magnitude(x) = Full - x
    BY <1>1, Sizes DEF Magnitude, Signed, UDword
  <2> QED
    BY <2>1, <2>2, <2>3, <2>4
<1>2. CASE ~(x >= Full \div 2)
  <2>1. Mask(x) = 0
    BY <1>2 DEF Mask
  <2>2. Magnitude(x) = x
    BY <1>2, Sizes DEF Magnitude, Signed, UDword
  <2> QED
    BY <2>1, <2>2, FixPlus
<1> QED
  BY <1>1, <1>2

LEMMA MaskXor ==
  ASSUME NEW a \in UDword, NEW b \in UDword
  PROVE  Xor[Mask(a)][Mask(b)] = IF (Signed(a) < 0) = (Signed(b) < 0) THEN 0 ELSE Full - 1
<1>1. Full - 1 \in UDword /\ 0 \in UDword /\ Full - 1 \in Nat
  BY Sizes DEF UDword
<1>2. /\ Xor[0][0] = 0 /\ Xor[Full - 1][0] = Full - 1
      /\ Xor[0][Full - 1] = Full - 1 - 0 /\ Xor[Full - 1][Full - 1] = Full - 1 - (Full - 1)
  BY <1>1, XorZero, XorFull
<1>3. Full - 1 - 0 = Full - 1 /\ Full - 1 - (Full - 1) = 0
  BY Sizes
<1>4. /\ Mask(a) = (IF Signed(a) < 0 THEN Full - 1 ELSE 0)
      /\ Mask(b) = (IF Signed(b) < 0 THEN Full - 1 ELSE 0)
  BY SignedRange DEF Mask
<1>5. CASE Signed(a) < 0 /\ Signed(b) < 0
  BY <1>2, <1>3, <1>4, <1>5
<1>6. CASE Signed(a) < 0 /\ ~(Signed(b) < 0)
  BY <1>2, <1>3, <1>4, <1>6
<1>7. CASE ~(Signed(a) < 0) /\ Signed(b) < 0
  BY <1>2, <1>3, <1>4, <1>7
<1>8. CASE ~(Signed(a) < 0) /\ ~(Signed(b) < 0)
  BY <1>2, <1>3, <1>4, <1>8
<1> QED
  BY <1>5, <1>6, <1>7, <1>8

LEMMA DivRight ==
  ASSUME NEW a \in UDword, NEW b \in UDword, b # 0
  PROVE  divdi3(a, b) = Bits(Trunc(Signed(a), Signed(b)))
<1> DEFINE m == Magnitude(a)
           n == Magnitude(b)
           u == udivmoddi4(m, n)
           q == m \div n
<1>1. m \in UDword /\ n \in UDword /\ n # 0
  BY SignedRange
<1>2. u.q = q /\ q \in UDword
  <2>1. DivisionAnswer(m, n, u)
    BY <1>1, DivmodRight
  <2> HIDE DEF m, n, u
  <2> QED
    BY <2>1, <1>1 DEF DivisionAnswer, Locals
<1>3. divdi3(a, b) = Fix(q, Xor[Mask(a)][Mask(b)])
  BY <1>2, FixMask DEF divdi3
<1>4. Trunc(Signed(a), Signed(b)) = IF (Signed(a) < 0) = (Signed(b) < 0) THEN q ELSE -q
  BY DEF Trunc, Magnitude
<1> HIDE DEF q
<1>5. CASE (Signed(a) < 0) = (Signed(b) < 0)
  <2>1. divdi3(a, b) = q
    BY <1>2, <1>3, <1>5, MaskXor, FixPlus
  <2>2. Trunc(Signed(a), Signed(b)) = q
    BY <1>4, <1>5
  <2> QED
    BY <2>1, <2>2, <1>2, BitsSmall
<1>6. CASE ~((Signed(a) < 0) = (Signed(b) < 0))
  <2>1. divdi3(a, b) = Bits(-q)
    BY <1>2, <1>3, <1>6, MaskXor, FixMinus
  <2>2. Trunc(Signed(a), Signed(b)) = -q
    BY <1>4, <1>6
  <2> QED
    BY <2>1, <2>2
<1> QED
  BY <1>5, <1>6

LEMMA SignedRemainder ==
  ASSUME NEW a \in UDword, NEW b \in UDword, b # 0
  PROVE  /\ Trunc(Signed(a), Signed(b)) \in Int
         /\ Signed(a) - Signed(b) * Trunc(Signed(a), Signed(b))
              = IF Signed(a) < 0 THEN -(Magnitude(a) % Magnitude(b)) ELSE Magnitude(a) % Magnitude(b)
<1> DEFINE m == Magnitude(a)
           n == Magnitude(b)
           q == m \div n
           r == m % n
           sa == Signed(a)
           sb == Signed(b)
           t == Trunc(sa, sb)
<1>1. /\ m \in Nat /\ n \in Nat \ {0} /\ sa \in Int /\ sb \in Int
      /\ sa = (IF sa < 0 THEN -m ELSE m) /\ sb = (IF sb < 0 THEN -n ELSE n)
  <2>1. m \in UDword /\ n \in UDword /\ n # 0 /\ sa \in Int /\ sb \in Int
    BY SignedRange
  <2>2. sa = (IF sa < 0 THEN -m ELSE m) /\ sb = (IF sb < 0 THEN -n ELSE n)
    BY <2>1 DEF Magnitude
  <2> HIDE DEF m, n, sa, sb
  <2> QED
    BY <2>1, <2>2 DEF UDword
<1>2. t = IF (sa < 0) = (sb < 0) THEN q ELSE -q
  BY DEF Trunc, Magnitude
<1> HIDE DEF m, n, sa, sb, t
<1>3. q \in Nat /\ r \in Nat /\ m = n * q + r
  BY <1>1, QuotientSmall
<1> HIDE DEF q, r
<1>4. t \in Int
  BY <1>2, <1>3
<1>5. sb * t = IF sa < 0 THEN -(n * q) ELSE n * q
  <2>0. n * q \in Int /\ (-n) * (-q) = n * q /\ (-n) * q = -(n * q) /\ n * (-q) = -(n * q)
    BY <1>1, <1>3
  <2>1. CASE sa < 0 /\ sb < 0
    BY <2>0, <2>1, <1>1, <1>2
  <2>2. CASE sa < 0 /\ ~(sb < 0)
    BY <2>0, <2>2, <1>1, <1>2
  <2>3. CASE ~(sa < 0) /\ sb < 0
    BY <2>0, <2>3, <1>1, <1>2
  <2>4. CASE ~(sa < 0) /\ ~(sb < 0)
    BY <2>0, <2>4, <1>1, <1>2
  <2> QED
    BY <2>1, <2>2, <2>3, <2>4
<1>6. sa - sb * t = IF sa < 0 THEN -r ELSE r
  <2>1. n * q \in Int
    BY <1>1, <1>3
  <2>2. CASE sa < 0
    <3>1. sa = -m /\ sb * t = -(n * q)
      BY <2>2, <1>1, <1>5
    <3> QED
      BY <3>1, <2>1, <2>2, <1>1, <1>3
  <2>3. CASE ~(sa < 0)
    <3>1. sa = m /\ sb * t = n * q
      BY <2>3, <1>1, <1>5
    <3> QED
      BY <3>1, <2>1, <2>3, <1>1, <1>3
  <2> QED
    BY <2>2, <2>3
<1> QED
  BY <1>4, <1>6 DEF m, n, r, sa, sb, t

LEMMA ModRight ==
  ASSUME NEW a \in UDword, NEW b \in UDword, b # 0
  PROVE  moddi3(a, b) = Bits(Signed(a) - Signed(b) * Trunc(Signed(a), Signed(b)))
<1> DEFINE m == Magnitude(a)
           n == Magnitude(b)
           u == udivmoddi4(m, n)
           r == m % n
           x == Signed(a) - Signed(b) * Trunc(Signed(a), Signed(b))
<1>1. m \in UDword /\ n \in UDword /\ n # 0
  BY SignedRange
<1>2. u.r = r /\ r \in UDword
  <2>1. DivisionAnswer(m, n, u)
    BY <1>1, DivmodRight
  <2> HIDE DEF m, n, u
  <2> QED
    BY <2>1, <1>1 DEF DivisionAnswer, Locals
<1>3. moddi3(a, b) = Fix(r, Mask(a))
  BY <1>2, FixMask DEF moddi3
<1>4. x = IF Signed(a) < 0 THEN -r ELSE r
  BY SignedRemainder
<1> HIDE DEF r, x
<1>5. CASE Signed(a) < 0
  <2>1. Mask(a) = Full - 1
    BY <1>5, SignedRange DEF Mask
  <2>2. moddi3(a, b) = Bits(-r)
    BY <2>1, <1>2, <1>3, FixMinus
  <2>3. x = -r
    BY <1>4, <1>5
  <2> QED
    BY <2>2, <2>3 DEF x
<1>6. CASE ~(Signed(a) < 0)
  <2>1. Mask(a) = 0
    BY <1>6, SignedRange DEF Mask
  <2>2. moddi3(a, b) = r
    BY <2>1, <1>2, <1>3, FixPlus
  <2>3. x = r
    BY <1>4, <1>6
  <2>4. Bits(r) = r
    BY <1>2, BitsSmall
  <2>5. moddi3(a, b) = Bits(x)
    BY <2>2, <2>3, <2>4
  <2> QED
    BY <2>5 DEF x
<1> QED
  BY <1>5, <1>6

LEMMA SignedBits ==
  ASSUME NEW x \in UDword
  PROVE  \E k \in Int : x = Signed(x) + Full * k
<1>1. CASE Signed(x) < 0
  <2>1. x = Signed(x) + Full * 1
    BY <1>1, SignedRange, Sizes DEF UDword
  <2> QED
    BY <2>1
<1>2. CASE ~(Signed(x) < 0)
  <2>1. x = Signed(x) + Full * 0
    BY <1>2, SignedRange, Sizes DEF UDword
  <2> QED
    BY <2>1
<1> QED
  BY <1>1, <1>2

LEMMA DivmodSignedRight ==
  ASSUME NEW a \in UDword, NEW b \in UDword, b # 0
  PROVE  divmoddi4(a, b) = [q |-> Bits(Trunc(Signed(a), Signed(b))),
                            r |-> Bits(Signed(a) - Signed(b) * Trunc(Signed(a), Signed(b)))]
<1> DEFINE t == Trunc(Signed(a), Signed(b))
           d == Bits(t)
           sa == Signed(a)
           sb == Signed(b)
<1>1. divdi3(a, b) = d
  BY DivRight
<1>2. t \in Int
  BY SignedRemainder
<1>3. PICK i \in Int : a = sa + Full * i
  BY SignedBits
<1>4. PICK j \in Int : b = sb + Full * j
  BY SignedBits
<1>5. sa \in Int /\ sb \in Int
  BY SignedRange
<1>r. divmoddi4(a, b) = [q |-> d, r |-> Bits(a - d * b)]
  BY <1>1 DEF divmoddi4
<1> HIDE DEF t, sa, sb
<1> DEFINE k == t \div Full
<1>6. k \in Int /\ t = Full * k + d /\ d \in Int
  <2>1. d \in 0 .. Full-1 /\ k \in Int /\ t = Full * k + d
    BY <1>2, BitsSplit
  <2> QED
    BY <2>1, Sizes
<1> HIDE DEF k, d
<1> DEFINE e == (i + k * b) - t * j
<1>7. e \in Int /\ a - d * b = (sa - sb * t) + Full * e /\ sa - sb * t \in Int
  <2>1. b \in Int /\ Full \in Int /\ a \in Int
    BY Sizes DEF UDword
  <2>2. d * b = t * b - Full * (k * b)
    BY <2>1, <1>2, <1>6
  <2>3. t * b = sb * t + Full * (t * j)
    BY <2>1, <1>2, <1>4, <1>5
  <2>4. k * b \in Int /\ t * j \in Int /\ sb * t \in Int /\ t * b \in Int /\ d * b \in Int
    BY <2>1, <1>2, <1>5, <1>6
  <2> DEFINE x == k * b
             y == t * j
  <2>5. x \in Int /\ y \in Int /\ d * b = sb * t + Full * y - Full * x /\ e = (i + x) - y
    <3>1. x \in Int /\ y \in Int /\ d * b = t * b - Full * x /\ t * b = sb * t + Full * y
      BY <2>2, <2>3, <2>4
    <3>2. e = (i + x) - y
      OBVIOUS
    <3> HIDE DEF x, y, e
    <3>3. Full * x \in Int /\ Full * y \in Int
      BY <3>1, <2>1
    <3> QED
      BY <3>1, <3>2, <3>3, <2>4
  <2> HIDE DEF x, y, e
  <2>6. Full * e = Full * i + Full * x - Full * y
    BY <2>5, <2>1
  <2>7. Full * i \in Int /\ Full * x \in Int /\ Full * y \in Int
    BY <2>5, <2>1
  <2> QED
    BY <2>1, <2>4, <2>5, <2>6, <2>7, <1>3, <1>5
<1> HIDE DEF e
<1>8. Bits((sa - sb * t) + Full * e) = Bits(sa - sb * t)
  <2> DEFINE z == sa - sb * t
  <2>1. z \in Int
    BY <1>7
  <2> HIDE DEF z
  <2>2. Bits(z + Full * e) = Bits(z)
    BY <2>1, <1>7, BitsSame
  <2> QED
    BY <2>2 DEF z
<1> QED
  BY <1>r, <1>7, <1>8 DEF t, d, sa, sb

-----------------------------------------------------------------------------
(* The product by shift and add.  P is the product of the two low words that *)
(* the loop is given; w and h gather it, t:u is the multiplicand shifted.    *)
MulStep(m) ==
  LET w2 == (m.w + m.u) % Half
      t2 == (m.t + m.h) % Half
      odd == m.v % 2 = 1
  IN  [u |-> Shl(m.u, 1), v |-> Shr(m.v, 1),
       w |-> IF odd THEN w2 ELSE m.w,
       h |-> IF odd THEN ((IF w2 < m.w THEN 1 ELSE 0) + t2) % Half ELSE m.h,
       t |-> Shl(m.t, 1) + Shr(m.u, HalfBits - 1)]
MulBody(f) ==
  [m \in MulWords |-> IF MulStep(m).v = 0 THEN MulStep(m) ELSE f[MulStep(m)]]

LEMMA DoubleWord ==
  ASSUME NEW x \in UWord
  PROVE  /\ Shr(x, HalfBits - 1) \in {0, 1} /\ Shl(x, 1) \in 0 .. Half-2
         /\ 2 * x = Half * Shr(x, HalfBits - 1) + Shl(x, 1)
<1> DEFINE p == Pow2[HalfBits - 1]
           c == x \div p
           r == x % p
<1>1. p \in Nat \ {0} /\ Half = 2 * p /\ Half = p * 2 /\ 2 \in Nat \ {0}
  <2>1. HalfBits - 1 \in Nat /\ (HalfBits - 1) + 1 = HalfBits
    BY Sizes
  <2> QED
    BY <2>1, PowStep, PowPositive DEF Half
<1> HIDE DEF p
<1>2. c \in 0 .. 2-1 /\ r \in 0 .. p-1 /\ x = p * c + r
  <2>1. x \in 0 .. p * 2 - 1
    BY <1>1 DEF UWord
  <2> QED
    BY <1>1, <2>1, DivisionRange
<1> HIDE DEF c, r
<1>3. 2 * x = Half * c + 2 * r /\ 2 * r \in 0 .. Half-2 /\ 2 * r \in 0 .. Half-1 /\ c \in Int
  BY <1>1, <1>2
<1> DEFINE y == 2 * r
<1>4. 2 * x = Half * c + y /\ y \in 0 .. Half-2 /\ y \in 0 .. Half-1
  BY <1>3
<1> HIDE DEF y
<1>5. (Half * c + y) % Half = y
  <2>1. Half \in Nat \ {0}
    BY Sizes
  <2> QED
    BY <2>1, <1>3, <1>4, Quotient
<1>6. Shl(x, 1) = y
  <2>1. x * 2 = 2 * x
    BY DEF UWord
  <2> QED
    BY <2>1, <1>4, <1>5, SmallPowers DEF Shl
<1>7. Shr(x, HalfBits - 1) = c
  BY DEF Shr, c, p
<1> QED
  BY <1>2, <1>4, <1>6, <1>7

LEMMA MulStepType ==
  ASSUME NEW m \in MulWords
  PROVE  MulStep(m) \in MulWords /\ MulStep(m).v = m.v \div 2 /\ MulStep(m).v \in Nat
<1> DEFINE w2 == (m.w + m.u) % Half
           t2 == (m.t + m.h) % Half
           odd == m.v % 2 = 1
           u1 == Shl(m.u, 1)
           v1 == Shr(m.v, 1)
           w1 == IF odd THEN w2 ELSE m.w
           h1 == IF odd THEN ((IF w2 < m.w THEN 1 ELSE 0) + t2) % Half ELSE m.h
           t1 == Shl(m.t, 1) + Shr(m.u, HalfBits - 1)
<1>1. m.u \in UWord /\ m.v \in UWord /\ m.w \in UWord /\ m.h \in UWord /\ m.t \in UWord
  BY DEF MulWords
<1>2. \A x \in Int : x % Half \in UWord
  BY Sizes DEF UWord
<1>3. u1 \in UWord /\ t1 \in UWord
  <2>1. Shl(m.u, 1) \in 0 .. Half-2 /\ Shl(m.t, 1) \in 0 .. Half-2 /\ Shr(m.u, HalfBits - 1) \in {0, 1}
    BY <1>1, DoubleWord
  <2> QED
    BY <2>1, Sizes DEF UWord
<1>4. v1 = m.v \div 2 /\ v1 \in UWord /\ v1 \in Nat
  BY <1>1, Sizes, SmallPowers DEF Shr, UWord
<1>5. m.w + m.u \in Int /\ m.t + m.h \in Int
  BY <1>1 DEF UWord
<1>6. w2 \in UWord /\ t2 \in UWord
  BY <1>2, <1>5
<1> HIDE DEF w2, t2, odd
<1>7. w1 \in UWord
  BY <1>1, <1>6
<1>8. h1 \in UWord
  <2>1. (IF w2 < m.w THEN 1 ELSE 0) + t2 \in Int
    BY <1>6 DEF UWord
  <2> QED
    BY <2>1, <1>1, <1>2
<1>9. MulStep(m) = [u |-> u1, v |-> v1, w |-> w1, h |-> h1, t |-> t1]
  BY DEF MulStep, w2, t2, odd
<1> HIDE DEF u1, v1, w1, h1, t1
<1> QED
  BY <1>3, <1>4, <1>7, <1>8, <1>9 DEF MulWords

LEMMA MulUnfolds == MulLoop = MulBody(MulLoop)
<1> DEFINE size == [m \in MulWords |-> m.v]
           stops == {m \in MulWords : MulStep(m).v = 0}
           base == [m \in MulWords |-> MulStep(m)]
           G == [m \in MulWords |-> [v \in MulWords |-> v]]
<1>1. size \in [MulWords -> Nat] /\ base \in [MulWords -> MulWords]
      /\ G \in [MulWords -> [MulWords -> MulWords]]
  <2>1. \A m \in MulWords : m.v \in Nat /\ MulStep(m) \in MulWords
    BY MulStepType DEF MulWords, UWord
  <2> QED
    BY <2>1
<1>2. ASSUME NEW m \in MulWords \ stops PROVE base[m] \in MulWords /\ size[base[m]] < size[m]
  <2>1. MulStep(m) \in MulWords /\ MulStep(m).v = m.v \div 2 /\ MulStep(m).v # 0
    BY <1>2, MulStepType
  <2>2. m.v \in Nat
    BY DEF MulWords, UWord
  <2>3. m.v \div 2 < m.v
    BY <2>1, <2>2
  <2> QED
    BY <2>1, <2>3
<1>3. \A m \in MulWords : base[m] = MulStep(m) /\ (m \in stops <=> MulStep(m).v = 0)
  OBVIOUS
<1>4. \A m \in MulWords : \A v \in MulWords : G[m][v] = v
  OBVIOUS
<1> HIDE DEF size, stops, base, G
<1>5. Shrinks(MulWords, MulWords, size, stops, base, base, G)
  BY <1>1, <1>2 DEF Shrinks
<1>6. PICK f \in [MulWords -> MulWords] : \A m \in MulWords : Unfolds(f, m, stops, base, base, G)
  BY <1>5, Recursion
<1>7. ASSUME NEW m \in MulWords
      PROVE  f[m] = IF MulStep(m).v = 0 THEN MulStep(m) ELSE f[MulStep(m)]
  <2>1. f[m] = IF m \in stops THEN base[m] ELSE G[m][f[base[m]]]
    BY <1>6 DEF Unfolds
  <2>2. f[MulStep(m)] \in MulWords
    BY MulStepType
  <2> QED
    BY <2>1, <2>2, <1>3, <1>4
<1>8. f = MulBody(f)
  BY <1>7 DEF MulBody
<1>9. MulLoop = CHOOSE g : g = MulBody(g)
  BY DEF MulLoop, MulBody, MulStep
<1> QED
  BY <1>8, <1>9

Gathers(P, m) ==
  m \in MulWords /\ m.h * Half + m.w + (m.t * Half + m.u) * m.v = P

(* The same fact about numbers: X is the shifted multiplicand.               *)
LEMMA MulSum ==
  ASSUME NEW h \in 0 .. Half-1, NEW w \in 0 .. Half-1, NEW t \in 0 .. Half-1, NEW u \in 0 .. Half-1,
         h * Half + w + (t * Half + u) < Full
  PROVE  LET w2 == (w + u) % Half
             h2 == ((IF w2 < w THEN 1 ELSE 0) + ((t + h) % Half)) % Half
         IN  h2 * Half + w2 = h * Half + w + (t * Half + u)
<1> DEFINE w2 == (w + u) % Half
           c == IF w2 < w THEN 1 ELSE 0
<1>1. Half \in Nat /\ Half > 1 /\ Full = Half * Half /\ h \in Int /\ w \in Int /\ t \in Int /\ u \in Int
      /\ 0 <= h /\ 0 <= w /\ 0 <= t /\ 0 <= u /\ w < Half /\ u < Half
  BY Sizes
<1>2. w2 \in 0 .. Half-1 /\ c \in {0, 1} /\ w + u = Half * c + w2
  <2>1. CASE w + u < Half
    <3>1. w2 = w + u
      BY <2>1, <1>1
    <3> HIDE DEF w2
    <3>2. c = 0
      BY <3>1, <1>1
    <3> QED
      BY <3>1, <3>2, <2>1, <1>1
  <2>2. CASE w + u >= Half
    <3> DEFINE y == w + u - Half
    <3>1. y \in 0 .. Half-1 /\ w + u = Half * 1 + y /\ y < w
      BY <2>2, <1>1
    <3> HIDE DEF y
    <3>2. (Half * 1 + y) % Half = y
      BY <3>1, Sizes, Quotient
    <3>3. w2 = y
      BY <3>1, <3>2
    <3> HIDE DEF w2
    <3> QED
      BY <3>1, <3>3
  <2> QED
    BY <2>1, <2>2, <1>1
<1> HIDE DEF w2, c
<1> DEFINE s == c + (t + h)
<1>3. s \in Int /\ 0 <= s /\ s * Half + w2 = h * Half + w + (t * Half + u)
  <2>1. s \in Int /\ 0 <= s
    BY <1>1, <1>2
  <2>2. s * Half = Half * c + t * Half + h * Half
    BY <1>1, <1>2
  <2>3. Half * c \in Int /\ t * Half \in Int /\ h * Half \in Int /\ s * Half \in Int /\ w2 \in Int
    BY <1>1, <1>2
  <2> HIDE DEF s
  <2> QED
    BY <2>1, <2>2, <2>3, <1>1, <1>2
<1>4. s < Half
  <2> HIDE DEF s
  <2>1. SUFFICES ASSUME s >= Half PROVE FALSE
    BY <1>1, <1>3
  <2>2. s * Half >= Half * Half
    BY <2>1, <1>1, <1>3
  <2>3. s * Half \in Int /\ Half * Half \in Int
    BY <1>1, <1>3
  <2>4. s * Half + w2 < Half * Half
    BY <1>3, <1>1
  <2> QED
    BY <2>2, <2>3, <2>4, <1>2, <1>1
<1>5. (t + h) % Half = t + h
  BY <1>1, <1>2, <1>4
<1>6. s % Half = s
  <2> HIDE DEF s
  <2> QED
    BY <1>1, <1>3, <1>4
<1>7. (c + ((t + h) % Half)) % Half = s
  BY <1>5, <1>6
<1> HIDE DEF s
<1> QED
  BY <1>3, <1>7 DEF w2, c

LEMMA MulStepGathers ==
  ASSUME NEW P \in 0 .. Full-1, NEW m, Gathers(P, m)
  PROVE  IF MulStep(m).v = 0 THEN MulStep(m).h * Half + MulStep(m).w = P
         ELSE Gathers(P, MulStep(m))
<1> DEFINE n == MulStep(m)
           h == m.h
           w == m.w
           t == m.t
           u == m.u
           v == m.v
           X == t * Half + u
           A == h * Half + w
           b == v % 2
           k == v \div 2
           A1 == n.h * Half + n.w
           X1 == n.t * Half + n.u
<1>1. /\ m \in MulWords /\ h \in 0 .. Half-1 /\ w \in 0 .. Half-1 /\ t \in 0 .. Half-1 /\ u \in 0 .. Half-1
      /\ v \in Nat /\ P = A + X * v
  BY DEF Gathers, MulWords, UWord
<1>2. n \in MulWords /\ n.v = k /\ k \in Nat /\ b \in {0, 1} /\ v = 2 * k + b
  BY <1>1, MulStepType
<1>3. X \in Nat /\ A \in Nat /\ Half \in Nat /\ P \in Nat /\ P < Full
  BY <1>1, Sizes
<1>4. X * v = 2 * (X * k) + X * b /\ X * k \in Nat /\ X * b \in Nat
  <2> HIDE DEF X, k, b
  <2> QED
    BY <1>2, <1>3
<1>5. A1 = A + X * b
  <2>1. CASE b = 1
    <3>1. h * Half + w + (t * Half + u) < Full
      <4>1. X * b = X
        <5> HIDE DEF X
        <5> QED
          BY <2>1, <1>3
      <4> DEFINE y == X * k
      <4>2. y \in Nat /\ P = A + (2 * y + X)
        BY <1>4, <1>1, <4>1
      <4> HIDE DEF X, A, y
      <4>3. A + X < Full
        BY <4>2, <1>3, Sizes
      <4> QED
        BY <4>3 DEF X, A
    <3>2. n.w = (w + u) % Half
          /\ n.h = ((IF (w + u) % Half < w THEN 1 ELSE 0) + ((t + h) % Half)) % Half
      BY <2>1 DEF MulStep
    <3> HIDE DEF n, h, w, t, u
    <3>3. n.h * Half + n.w = h * Half + w + (t * Half + u)
      BY <3>1, <3>2, <1>1, MulSum
    <3>4. A1 = A + X
      <4>1. h * Half \in Int /\ t * Half \in Int /\ w \in Int /\ u \in Int
        BY <1>1, Sizes
      <4> QED
        BY <4>1, <3>3
    <3>5. X * b = X
      <4> HIDE DEF X
      <4> QED
        BY <2>1, <1>3
    <3> QED
      BY <3>4, <3>5
  <2>2. CASE b = 0
    <3>1. n.w = w /\ n.h = h
      BY <2>2 DEF MulStep
    <3>2. X * b = 0
      <4> HIDE DEF X
      <4> QED
        BY <2>2, <1>3
    <3> HIDE DEF n, X, h, w
    <3>3. A1 = A
      BY <3>1
    <3> HIDE DEF A1, A
    <3> QED
      BY <3>2, <3>3, <1>3
  <2> QED
    BY <2>1, <2>2, <1>2
<1>6. CASE n.v = 0
  <2>1. k = 0
    BY <1>2, <1>6
  <2> HIDE DEF k, X, A, A1, b
  <2>2. X * k = 0
    BY <2>1, <1>3
  <2>3. A1 = P
    BY <2>2, <1>1, <1>3, <1>4, <1>5
  <2> QED
    BY <2>3, <1>6 DEF A1
<1>7. CASE n.v # 0
  <2>1. k >= 1
    BY <1>2, <1>7
  <2>2. 2 * X < Full
    <3> DEFINE y == X * k
               z == X * b
    <3>1. y \in Nat /\ z \in Nat /\ P = A + (2 * y + z) /\ y >= X
      <4>1. y \in Nat /\ z \in Nat /\ P = A + (2 * y + z)
        BY <1>1, <1>4
      <4> HIDE DEF X, k
      <4>2. X * k >= X
        BY <2>1, <1>2, <1>3
      <4> QED
        BY <4>1, <4>2
    <3> HIDE DEF X, A, y, z
    <3> QED
      BY <3>1, <1>3, Sizes
  <2>3. X1 = 2 * X
    <3> DEFINE c == Shr(u, HalfBits - 1)
    <3>1. n.u = Shl(u, 1) /\ n.t = Shl(t, 1) + c
      BY DEF MulStep
    <3>2. c \in {0, 1} /\ Shl(u, 1) \in 0 .. Half-2 /\ 2 * u = Half * c + Shl(u, 1)
      BY <1>1, DoubleWord DEF UWord
    <3>3. Shl(t, 1) = 2 * t
      <4>1. t * 2 = 2 * t /\ t \in Int
        BY <1>1
      <4>2. 2 * t < Half
        <5>1. SUFFICES ASSUME 2 * t >= Half PROVE FALSE
          BY <1>1, Sizes
        <5> HIDE DEF t, u
        <5>2. (2 * t) * Half >= Half * Half
          BY <5>1, <1>1, Sizes
        <5>3. (2 * t) * Half = 2 * (t * Half) /\ t * Half \in Int /\ Half * Half \in Int
          BY <1>1, Sizes
        <5> QED
          BY <5>2, <5>3, <2>2, <1>1, Sizes
      <4>3. 2 * t \in 0 .. Half-1
        BY <4>2, <1>1, Sizes
      <4>4. (t * 2) % Half = 2 * t
        <5> DEFINE y == 2 * t
        <5>1. y \in 0 .. Half-1 /\ t * 2 = y
          BY <4>1, <4>3
        <5> HIDE DEF y
        <5>2. y % Half = y
          BY <5>1, Sizes
        <5> QED
          BY <5>1, <5>2 DEF y
      <4> QED
        BY <4>4, SmallPowers DEF Shl
    <3> DEFINE y == Shl(u, 1)
    <3>4. X1 = (2 * t + c) * Half + y
      BY <3>1, <3>3
    <3>5. 2 * u = Half * c + y /\ y \in Int /\ c \in Int
      BY <3>2, Sizes
    <3> HIDE DEF c, y, t, u, n
    <3>6. (2 * t + c) * Half = 2 * (t * Half) + Half * c /\ t * Half \in Int /\ Half * c \in Int
      BY <3>5, <1>1, Sizes
    <3>7. u \in Int /\ t \in Int
      BY <1>1
    <3> HIDE DEF X1
    <3>8. X1 = 2 * (t * Half) + 2 * u
      BY <3>4, <3>5, <3>6, <3>7
    <3>9. X = t * Half + u
      OBVIOUS
    <3> HIDE DEF X
    <3> QED
      BY <3>6, <3>7, <3>8, <3>9
  <2>4. X1 * k = 2 * (X * k)
    <3> HIDE DEF X, X1, k
    <3> QED
      BY <2>3, <1>2, <1>3
  <2>5. A1 + X1 * k = P
    <3> DEFINE y == X * k
               z == X * b
    <3>1. y \in Nat /\ z \in Nat /\ P = A + (2 * y + z) /\ A1 = A + z /\ X1 * k = 2 * y
      BY <1>1, <1>4, <1>5, <2>4
    <3> HIDE DEF y, z, A, A1, X, X1, k
    <3> QED
      BY <3>1, <1>3
  <2>6. Gathers(P, n)
    BY <2>5, <1>2 DEF Gathers
  <2> QED
    BY <2>6, <1>7
<1> QED
  BY <1>6, <1>7

LEMMA MulLoopGathers ==
  ASSUME NEW P \in 0 .. Full-1, NEW m, Gathers(P, m)
  PROVE  MulLoop[m] \in MulWords /\ MulLoop[m].h * Half + MulLoop[m].w = P
<1> DEFINE Right(r) == r \in MulWords /\ r.h * Half + r.w = P
           T == {k \in Nat : \A j \in 0 .. k : \A x \in MulWords : x.v = j /\ Gathers(P, x) => Right(MulLoop[x])}
<1>1. \A x \in MulWords : MulLoop[x] = IF MulStep(x).v = 0 THEN MulStep(x) ELSE MulLoop[MulStep(x)]
  <2>1. MulLoop = [x \in MulWords |-> IF MulStep(x).v = 0 THEN MulStep(x) ELSE MulLoop[MulStep(x)]]
    BY MulUnfolds DEF MulBody
  <2> QED
    BY <2>1
<1>2. ASSUME NEW x \in MulWords, Gathers(P, x), MulStep(x).v = 0 PROVE Right(MulLoop[x])
  <2>1. MulLoop[x] = MulStep(x)
    BY <1>1, <1>2
  <2>2. MulStep(x).h * Half + MulStep(x).w = P
    BY <1>2, MulStepGathers
  <2> QED
    BY <2>1, <2>2, MulStepType
<1>3. ASSUME NEW x \in MulWords, Gathers(P, x), MulStep(x).v # 0
      PROVE  MulLoop[x] = MulLoop[MulStep(x)] /\ Gathers(P, MulStep(x))
  BY <1>1, <1>3, MulStepGathers
<1> HIDE DEF Right
<1>4. 0 \in T
  <2> SUFFICES ASSUME NEW x \in MulWords, x.v = 0, Gathers(P, x) PROVE Right(MulLoop[x])
    OBVIOUS
  <2>1. MulStep(x).v = 0
    BY MulStepType
  <2> QED
    BY <2>1, <1>2
<1>5. ASSUME NEW k \in Nat, k \in T PROVE k + 1 \in T
  <2> SUFFICES ASSUME NEW j \in 0 .. k+1, NEW x \in MulWords, x.v = j, Gathers(P, x)
               PROVE  Right(MulLoop[x])
    OBVIOUS
  <2>1. CASE MulStep(x).v = 0
    BY <2>1, <1>2
  <2>2. CASE MulStep(x).v # 0
    <3>1. MulStep(x) \in MulWords /\ MulStep(x).v = j \div 2 /\ j \in Nat
      BY MulStepType
    <3>2. j \div 2 \in 0 .. k
      BY <2>2, <3>1
    <3> QED
      BY <3>1, <3>2, <2>2, <1>3, <1>5
  <2> QED
    BY <2>1, <2>2
<1> HIDE DEF T
<1>6. Nat \subseteq T
  BY <1>4, <1>5, NatSteps
<1>7. m \in MulWords /\ m.v \in Nat
  BY DEF Gathers, MulWords, UWord
<1>8. m.v \in T /\ m.v \in 0 .. m.v
  BY <1>6, <1>7
<1>9. Right(MulLoop[m])
  BY <1>7, <1>8 DEF T
<1> QED
  BY <1>9 DEF Right

LEMMA MulRight ==
  ASSUME NEW a \in UDword, NEW b \in UDword
  PROVE  multi3(a, b) = Bits(Signed(a) * Signed(b))
<1> DEFINE ah == high(a)
           al == low(a)
           bh == high(b)
           bl == low(b)
           m == [u |-> al, v |-> bl, w |-> 0, h |-> 0, t |-> 0]
           r == MulLoop[m]
           P == al * bl
           x == (bl * ah) % Half
           y == (al * bh) % Half
           s == r.h + x + y
<1>1. /\ ah \in Nat /\ al \in Nat /\ al < Half /\ a = Half * ah + al /\ al \in UWord
      /\ bh \in Nat /\ bl \in Nat /\ bl < Half /\ b = Half * bh + bl /\ bl \in UWord
      /\ Half \in Nat /\ Full = Half * Half /\ Half > 1
  BY Words, Sizes
<1> HIDE DEF ah, al, bh, bl
<1>2. P \in 0 .. Full-1
  <2>1. al * bl >= 0 /\ al * bl <= al * Half /\ al * bl \in Int
    BY <1>1
  <2>2. al * Half <= (Half-1) * Half /\ (Half-1) * Half = Half * Half - Half
    BY <1>1
  <2>3. al * Half \in Int /\ Half * Half \in Int
    BY <1>1
  <2> QED
    BY <2>1, <2>2, <2>3, <1>1
<1>3. Gathers(P, m)
  <2>1. m \in MulWords
    BY <1>1, Sizes DEF MulWords, UWord
  <2>2. m.h * Half + m.w + (m.t * Half + m.u) * m.v = 0 * Half + 0 + (0 * Half + al) * bl
    OBVIOUS
  <2>3. 0 * Half + 0 + (0 * Half + al) * bl = al * bl
    <3>1. 0 * Half = 0 /\ 0 + al = al
      BY <1>1
    <3>2. (0 * Half + al) * bl = al * bl /\ al * bl \in Int
      BY <3>1, <1>1
    <3> QED
      BY <3>1, <3>2
  <2> QED
    BY <2>1, <2>2, <2>3 DEF Gathers
<1>4. r \in MulWords /\ r.h * Half + r.w = P
  <2> HIDE DEF P, m
  <2> QED
    BY <1>2, <1>3, MulLoopGathers
<1> HIDE DEF r
<1>5. r.h \in Int /\ r.w \in 0 .. Half-1 /\ r.w \in Int
  BY <1>4, <1>1 DEF MulWords, UWord
<1>6. PICK i \in Int : bl * ah = Half * i + x
  <2> DEFINE z == bl * ah
  <2>1. z \in Int /\ Half \in Nat \ {0}
    BY <1>1
  <2> HIDE DEF z
  <2>2. z \div Half \in Int /\ z = Half * (z \div Half) + (z % Half)
    BY <2>1, Division
  <2> QED
    BY <2>2 DEF z
<1>7. PICK j \in Int : al * bh = Half * j + y
  <2> DEFINE z == al * bh
  <2>1. z \in Int /\ Half \in Nat \ {0}
    BY <1>1
  <2> HIDE DEF z
  <2>2. z \div Half \in Int /\ z = Half * (z \div Half) + (z % Half)
    BY <2>1, Division
  <2> QED
    BY <2>2 DEF z
<1>8. x \in Int /\ y \in Int
  <2>1. bl * ah \in Int /\ al * bh \in Int
    BY <1>1
  <2> QED
    BY <2>1, <1>1
<1>9. multi3(a, b) = all(s % Half, r.w)
  BY DEF multi3, muluw3, ah, al, bh, bl, r
<1> HIDE DEF x, y
<1>10. s \in Int
  BY <1>5, <1>8
<1>11. multi3(a, b) = Bits(Half * s + r.w)
  <2> HIDE DEF s
  <2> QED
    BY <1>5, <1>9, <1>10, TopWord
<1> DEFINE e == (-(ah * bh) - i) - j
<1>12. e \in Int /\ Half * s + r.w = a * b + Full * e
  <2> DEFINE p == ah * bh
             q == bl * ah
             g == al * bh
  <2>1. p \in Int /\ q \in Int /\ g \in Int /\ P \in Int /\ q = Half * i + x /\ g = Half * j + y
    BY <1>1, <1>6, <1>7
  <2>2. Half * s = r.h * Half + Half * x + Half * y
    BY <1>1, <1>5, <1>8
  <2>3. a * b = Full * p + Half * q + Half * g + P
    <3>1. (Half * ah + al) * (Half * bh + bl)
            = (Half * Half) * (ah * bh) + Half * (bl * ah) + Half * (al * bh) + al * bl
      BY <1>1
    <3> QED
      BY <3>1, <1>1
  <2>4. Half * q = Full * i + Half * x /\ Half * g = Full * j + Half * y
    <3>1. Half * (Half * i + x) = (Half * Half) * i + Half * x
          /\ Half * (Half * j + y) = (Half * Half) * j + Half * y
      BY <1>1, <1>8
    <3> QED
      BY <3>1, <2>1, <1>1
  <2> HIDE DEF p, q, g, P
  <2>5. e \in Int /\ e = (-p - i) - j
    BY <2>1 DEF p
  <2> HIDE DEF e
  <2>6. Full * e = -(Full * p) - Full * i - Full * j
    BY <2>1, <2>5, Sizes
  <2>7. Full * p \in Int /\ Full * i \in Int /\ Full * j \in Int /\ Half * x \in Int /\ Half * y \in Int
        /\ r.h * Half \in Int
    BY <2>1, <1>1, <1>5, <1>8
  <2> QED
    BY <2>1, <2>2, <2>3, <2>4, <2>5, <2>6, <2>7, <1>4, <1>5
<1> HIDE DEF e, s
<1>13. PICK k \in Int : a = Signed(a) + Full * k
  BY SignedBits
<1>14. PICK l \in Int : b = Signed(b) + Full * l
  BY SignedBits
<1> DEFINE sa == Signed(a)
           sb == Signed(b)
           f == ((k * sb + sa * l) + Full * (k * l)) + e
<1>15. sa \in Int /\ sb \in Int /\ a = sa + Full * k /\ b = sb + Full * l
  BY <1>13, <1>14, SignedRange
<1> HIDE DEF sa, sb
<1>16. f \in Int /\ a * b + Full * e = sa * sb + Full * f
  <2>1. Full \in Int
    BY Sizes
  <2> DEFINE p == k * sb
             q == sa * l
             g == k * l
  <2>2. p \in Int /\ q \in Int /\ g \in Int /\ f = ((p + q) + Full * g) + e
    BY <1>12, <1>15
  <2>3. a * b = sa * sb + Full * p + Full * q + Full * (Full * g)
    <3>1. (sa + Full * k) * (sb + Full * l)
            = sa * sb + Full * (k * sb) + Full * (sa * l) + Full * (Full * (k * l))
      BY <2>1, <1>15
    <3> QED
      BY <3>1, <1>15
  <2> HIDE DEF p, q, g, f
  <2>4. Full * f = Full * p + Full * q + Full * (Full * g) + Full * e /\ f \in Int
    BY <2>1, <2>2, <1>12
  <2>5. Full * p \in Int /\ Full * q \in Int /\ Full * (Full * g) \in Int /\ Full * e \in Int /\ sa * sb \in Int
    BY <2>1, <2>2, <1>12, <1>15
  <2> QED
    BY <2>3, <2>4, <2>5
<1> HIDE DEF f
<1>17. Bits(sa * sb + Full * f) = Bits(sa * sb)
  <2> DEFINE z == sa * sb
  <2>1. z \in Int
    BY <1>15
  <2> HIDE DEF z
  <2>2. Bits(z + Full * f) = Bits(z)
    BY <2>1, <1>16, BitsSame
  <2> QED
    BY <2>2 DEF z
<1>18. multi3(a, b) = Bits(sa * sb)
  BY <1>11, <1>12, <1>16, <1>17
<1> QED
  BY <1>18 DEF sa, sb

-----------------------------------------------------------------------------
(* The shift to the left, whose two words do not meet in one bit.            *)
LEMMA OrZero == \A x \in Nat : Or[x][0] = x
<1> DEFINE S == {x \in Nat : Or[x][0] = x}
<1>1. 0 \in S
  BY OrUnfolds
<1>2. ASSUME NEW x \in Nat \ {0}, x \div 2 \in S PROVE x \in S
  <2>1. Or[x][0] = 2 * Or[x \div 2][0 \div 2] + (IF x % 2 = 1 \/ 0 % 2 = 1 THEN 1 ELSE 0)
    BY OrUnfolds
  <2>2. 0 \div 2 = 0 /\ 0 % 2 = 0
    OBVIOUS
  <2>3. Or[x \div 2][0] = x \div 2
    BY <1>2
  <2> QED
    BY <2>1, <2>2, <2>3
<1> HIDE DEF S
<1>3. Nat \subseteq S
  BY <1>1, <1>2, BitSteps
<1> QED
  BY <1>3 DEF S

LEMMA OrDisjoint ==
  ASSUME NEW k \in Nat, NEW x \in Nat, NEW y \in Nat, y < Pow2[k]
  PROVE  Or[Pow2[k] * x][y] = Pow2[k] * x + y
<1> DEFINE S == {j \in Nat : \A n \in Nat : n < Pow2[j] => Or[Pow2[j] * x][n] = Pow2[j] * x + n}
<1>1. 0 \in S
  <2> SUFFICES ASSUME NEW n \in Nat, n < 1 PROVE Or[1 * x][n] = 1 * x + n
    BY PowZero
  <2>1. n = 0 /\ 1 * x = x /\ x + 0 = x
    OBVIOUS
  <2> QED
    BY <2>1, OrZero
<1>2. ASSUME NEW j \in Nat, j \in S PROVE j + 1 \in S
  <2> SUFFICES ASSUME NEW n \in Nat, n < Pow2[j+1]
               PROVE  Or[Pow2[j+1] * x][n] = Pow2[j+1] * x + n
    OBVIOUS
  <2> DEFINE p == Pow2[j]
             z == p * x
             c == n \div 2
             b == n % 2
  <2>1. Pow2[j+1] = 2 * p /\ p \in Nat
    BY PowStep, PowPositive
  <2>2. c \in Nat /\ b \in {0, 1} /\ n = 2 * c + b
    OBVIOUS
  <2>3. c < p
    BY <2>1, <2>2
  <2>4. Or[z][c] = z + c
    BY <1>2, <2>2, <2>3
  <2>5. z \in Nat /\ Pow2[j+1] * x = 2 * z
    <3> HIDE DEF p
    <3> QED
      BY <2>1
  <2> HIDE DEF z, p
  <2>6. CASE z = 0
    <3>1. Or[0][n] = n
      BY OrUnfolds
    <3> QED
      BY <3>1, <2>5, <2>6
  <2>7. CASE z # 0
    <3> DEFINE y2 == 2 * z
    <3>1. y2 \in Nat /\ y2 # 0 /\ y2 \div 2 = z /\ y2 % 2 = 0
      BY <2>5, <2>7
    <3> HIDE DEF y2
    <3>2. Or[y2][n] = 2 * Or[y2 \div 2][c] + (IF b = 1 THEN 1 ELSE 0)
      BY <3>1, OrUnfolds
    <3>3. Or[y2][n] = 2 * (z + c) + b
      BY <3>1, <3>2, <2>2, <2>4
    <3> HIDE DEF c, b
    <3>4. Or[y2][n] = 2 * z + n
      BY <3>3, <2>2, <2>5
    <3> QED
      BY <3>4, <2>5 DEF y2
  <2> QED
    BY <2>6, <2>7
<1> HIDE DEF S
<1>3. k \in S
  BY <1>1, <1>2, NatSteps
<1> QED
  BY <1>3 DEF S

(* A word shifted left by the bits of p, where p * g is Half.                *)
LEMMA ShiftWord ==
  ASSUME NEW p \in Nat \ {0}, NEW g \in Nat \ {0}, p * g = Half, NEW x \in UWord
  PROVE  /\ (x * p) % Half = p * (x % g) /\ x \div g \in 0 .. p-1 /\ x % g \in 0 .. g-1
         /\ x = g * (x \div g) + (x % g) /\ p * (x % g) \in 0 .. Half-1
<1> DEFINE c == x \div g
           r == x % g
<1>1. c \in 0 .. p-1 /\ r \in 0 .. g-1 /\ x = g * c + r
  <2>1. x \in 0 .. g * p - 1
    BY DEF UWord
  <2> QED
    BY <2>1, DivisionRange
<1> HIDE DEF c, r
<1>2. x * p = Half * c + p * r
  <2>1. (g * c + r) * p = (p * g) * c + p * r
    BY <1>1
  <2> QED
    BY <1>1, <2>1
<1>3. p * r \in 0 .. Half-1
  <2>1. p * r >= 0 /\ p * r <= p * (g-1) /\ p * (g-1) = p * g - p /\ p * r \in Int
    BY <1>1
  <2> QED
    BY <2>1, Sizes
<1> DEFINE y == p * r
<1>4. Half \in Nat \ {0} /\ c \in Int /\ y \in 0 .. Half-1 /\ x * p = Half * c + y
  BY <1>1, <1>2, <1>3, Sizes
<1> HIDE DEF y
<1>5. (Half * c + y) % Half = y
  BY <1>4, Quotient
<1> QED
  BY <1>1, <1>3, <1>4, <1>5 DEF y, c, r

LEMMA ShlRight ==
  ASSUME NEW a \in UDword, NEW b \in 0 .. 2 * HalfBits - 1
  PROVE  ashldi3(a, b) = Bits(a * Pow2[b])
<1> DEFINE h == high(a)
           l == low(a)
<1>1. /\ h \in Nat /\ l \in Nat /\ l < Half /\ h \in UWord /\ l \in UWord /\ a = Half * h + l /\ a \in Nat
      /\ HalfBits \in Nat /\ b \in Nat /\ Half \in Nat /\ Half > 1 /\ Full = Half * Half
  BY Words, Sizes
<1> HIDE DEF h, l
<1>2. CASE b = 0
  <2>1. ashldi3(a, b) = a /\ a * 1 = a
    BY <1>1, <1>2 DEF ashldi3
  <2> QED
    BY <2>1, <1>2, PowZero, BitsSmall
<1>3. CASE b # 0 /\ b >= HalfBits
  <2> DEFINE n == b - HalfBits
             q == Pow2[n]
             s == l * q
  <2>1. n \in Nat /\ b = HalfBits + n
    BY <1>1, <1>3
  <2>2. Pow2[b] = Half * q /\ q \in Nat
    <3>1. Pow2[HalfBits + n] = Half * q
      BY <2>1, <1>1, PowSum DEF Half
    <3> QED
      BY <2>1, <3>1, PowPositive
  <2>3. ashldi3(a, b) = all(s % Half, 0)
    BY <1>3 DEF ashldi3, Shl, l
  <2> HIDE DEF q, n
  <2>4. s \in Int /\ 0 \in 0 .. Half-1
    BY <1>1, <2>2
  <2>5. a * Pow2[b] = Half * s + Full * (h * q) /\ h * q \in Int /\ Half * s \in Int
    <3>1. (Half * h + l) * (Half * q) = Half * (l * q) + (Half * Half) * (h * q)
      BY <1>1, <2>2
    <3>2. h * q \in Int /\ Half * (l * q) \in Int
      BY <1>1, <2>2
    <3> QED
      BY <3>1, <3>2, <1>1, <2>2
  <2> HIDE DEF s
  <2>6. ashldi3(a, b) = Bits(Half * s + 0)
    BY <2>3, <2>4, TopWord
  <2> DEFINE z == Half * s
             k == h * q
  <2>7. Half * s + 0 = z /\ z \in Int /\ k \in Int /\ a * Pow2[b] = z + Full * k
    BY <2>5
  <2> HIDE DEF z, k
  <2>8. Bits(z + Full * k) = Bits(z)
    BY <2>7, BitsSame
  <2> QED
    BY <2>6, <2>7, <2>8
<1>4. CASE b # 0 /\ b < HalfBits
  <2> DEFINE p == Pow2[b]
             g == Pow2[HalfBits - b]
             c == l \div g
             r == l % g
             i == h \div g
             j == h % g
  <2>1. HalfBits - b \in Nat /\ b + (HalfBits - b) = HalfBits
    BY <1>1, <1>4
  <2>2. p \in Nat \ {0} /\ g \in Nat \ {0} /\ p * g = Half
    <3>1. Pow2[b + (HalfBits - b)] = p * g
      BY <2>1, <1>1, PowSum
    <3> QED
      BY <2>1, <3>1, <1>1, PowPositive DEF Half
  <2>3. /\ ashldi3(a, b) = all(Or[Shl(h, b)][Shr(l, HalfBits - b)], Shl(l, b))
        /\ Shl(h, b) = (h * p) % Half /\ Shl(l, b) = (l * p) % Half /\ Shr(l, HalfBits - b) = c
    <3>1. ~(b >= HalfBits)
      BY <1>4, <1>1
    <3> QED
      BY <1>4, <3>1 DEF ashldi3, Shl, Shr, h, l
  <2> HIDE DEF g
  <2>4. /\ (l * p) % Half = p * r /\ c \in 0 .. p-1 /\ r \in 0 .. g-1 /\ l = g * c + r
        /\ p * r \in 0 .. Half-1
    <3> HIDE DEF p
    <3> QED
      BY <2>2, <1>1, ShiftWord
  <2>5. /\ (h * p) % Half = p * j /\ i \in 0 .. p-1 /\ j \in 0 .. g-1 /\ h = g * i + j
        /\ p * j \in 0 .. Half-1
    <3> HIDE DEF p
    <3> QED
      BY <2>2, <1>1, ShiftWord
  <2> HIDE DEF c, r, i, j
  <2>6. Or[p * j][c] = p * j + c
    <3>1. j \in Nat /\ c \in Nat /\ c < Pow2[b]
      BY <2>2, <2>4, <2>5
    <3> QED
      BY <3>1, <1>1, OrDisjoint
  <2>7. ashldi3(a, b) = (p * j + c) * Half + p * r
    BY <2>3, <2>4, <2>5, <2>6 DEF all
  <2> HIDE DEF p
  <2> DEFINE z == (p * j + c) * Half + p * r
  <2>8. z \in 0 .. Full-1
    <3> DEFINE v == p * j + c
               w == p * r
    <3>1. v \in Nat /\ v + 1 <= Half /\ w \in 0 .. Half-1
      <4>1. p * j + p <= p * g
        <5>1. p * (j + 1) <= p * g /\ p * (j + 1) = p * j + p
          BY <2>2, <2>5
        <5> QED
          BY <5>1
      <4>2. p * j \in Nat /\ c \in Nat /\ c + 1 <= p
        BY <2>2, <2>4, <2>5
      <4> QED
        BY <4>1, <4>2, <2>2, <2>4, <1>1
    <3> HIDE DEF v, w
    <3>2. (v + 1) * Half <= Half * Half /\ (v + 1) * Half = v * Half + Half /\ v * Half \in Nat
      BY <3>1, <1>1
    <3>3. v * Half + w \in 0 .. Full-1
      BY <3>1, <3>2, <1>1
    <3> QED
      BY <3>3 DEF v, w
  <2>9. a * p = Full * i + z
    <3>1. (Half * (g * i + j) + (g * c + r)) * p
            = ((p * g) * Half) * i + ((p * j) * Half + (p * g) * c) + p * r
      BY <2>2, <2>4, <2>5, <1>1
    <3>2. (p * j + c) * Half = (p * j) * Half + Half * c /\ (p * j) * Half \in Int /\ Half * c \in Int
          /\ Full * i \in Int /\ p * r \in Int
      BY <2>2, <2>4, <2>5, <1>1
    <3>3. a * p = Full * i + ((p * j) * Half + Half * c) + p * r
      BY <3>1, <2>2, <2>4, <2>5, <1>1
    <3> QED
      BY <3>2, <3>3
  <2> HIDE DEF z
  <2>10. Bits(Full * i + z) = z
    <3>1. i \in Int
      BY <2>5
    <3> QED
      BY <3>1, <2>8, BitsIs
  <2> QED
    BY <2>7, <2>9, <2>10 DEF z, p
<1> QED
  BY <1>2, <1>3, <1>4, <1>1
-----------------------------------------------------------------------------
(* The zeros of a word: the table of the sizes of the bytes, and what the    *)
(* two counts make of it.                                                    *)
LEMMA TabUnfolds ==
  \A x \in 0 .. 255 : clz_tab[x] = IF x = 0 THEN 0 ELSE 1 + clz_tab[x \div 2]
<1> DEFINE D == 0 .. 255
           size == [x \in D |-> x]
           base == [x \in D |-> 0]
           nxt  == [x \in D |-> x \div 2]
           G == [x \in D |-> [v \in Nat |-> 1 + v]]
           body(f) == [x \in 0 .. 255 |-> IF x = 0 THEN 0 ELSE 1 + f[x \div 2]]
<1>1. Shrinks(D, Nat, size, {0}, base, nxt, G)
  BY DEF Shrinks
<1>2. \A x \in D : base[x] = 0 /\ nxt[x] = x \div 2
  OBVIOUS
<1>3. \A x \in D : \A v \in Nat : G[x][v] = 1 + v
  OBVIOUS
<1> HIDE DEF size, base, nxt, G
<1>4. PICK f \in [D -> Nat] : \A x \in D : Unfolds(f, x, {0}, base, nxt, G)
  <2> HIDE DEF D
  <2> QED
    BY <1>1, Recursion
<1>5. ASSUME NEW x \in D PROVE f[x] = IF x = 0 THEN 0 ELSE 1 + f[x \div 2]
  <2>1. f[x] = IF x \in {0} THEN base[x] ELSE G[x][f[nxt[x]]]
    BY <1>4 DEF Unfolds
  <2>2. x \div 2 \in D
    OBVIOUS
  <2>3. x # 0 => f[x] = G[x][f[x \div 2]]
    BY <2>1, <1>2, ZenonT(30)
  <2>4. G[x][f[x \div 2]] = 1 + f[x \div 2]
    <3> HIDE DEF D
    <3> QED
      BY <2>2, <1>3
  <2>5. x = 0 => f[x] = 0
    BY <2>1, <1>2, ZenonT(30)
  <2> HIDE DEF D
  <2> QED
    BY <2>3, <2>4, <2>5, ZenonT(30)
<1>6. f = body(f)
  BY <1>5
<1>7. clz_tab = CHOOSE g : g = body(g)
  BY DEF clz_tab
<1>8. clz_tab = body(clz_tab)
  <2> HIDE DEF body
  <2> QED
    BY <1>6, <1>7
<1> QED
  BY <1>8

LEMMA TabRight ==
  \A x \in 1 .. 255 : /\ clz_tab[x] \in Nat /\ clz_tab[x] >= 1
                      /\ Pow2[clz_tab[x] - 1] <= x /\ x < Pow2[clz_tab[x]]
<1> DEFINE Ok(x) == /\ clz_tab[x] \in Nat /\ clz_tab[x] >= 1
                    /\ Pow2[clz_tab[x] - 1] <= x /\ x < Pow2[clz_tab[x]]
           S == {x \in Nat : x \in 1 .. 255 => Ok(x)}
<1>1. 0 \in S
  OBVIOUS
<1>2. ASSUME NEW x \in Nat \ {0}, x \div 2 \in S PROVE x \in S
  <2> SUFFICES ASSUME x \in 1 .. 255 PROVE Ok(x)
    OBVIOUS
  <2>1. clz_tab[x] = 1 + clz_tab[x \div 2] /\ clz_tab[0] = 0
    BY TabUnfolds
  <2>2. CASE x = 1
    <3>1. x \div 2 = 0
      BY <2>2
    <3>2. clz_tab[x] = 1
      BY <2>1, <3>1
    <3> QED
      BY <3>2, <2>2, SmallPowers
  <2>3. CASE x # 1
    <3> DEFINE y == x \div 2
               k == clz_tab[y]
    <3>1. y \in 1 .. 255 /\ (x = 2 * y \/ x = 2 * y + 1)
      BY <2>3
    <3>2. Ok(y)
      BY <1>2, <3>1
    <3>3. k \in Nat /\ k >= 1 /\ Pow2[k - 1] <= y /\ y < Pow2[k] /\ clz_tab[x] = k + 1
      BY <3>2, <2>1
    <3> HIDE DEF k, y
    <3>4. k - 1 \in Nat /\ (k - 1) + 1 = k
      BY <3>3
    <3>5. Pow2[k + 1] = 2 * Pow2[k] /\ Pow2[k] = 2 * Pow2[k - 1] /\ Pow2[k - 1] \in Nat /\ Pow2[k] \in Nat
      <4>1. Pow2[(k - 1) + 1] = 2 * Pow2[k - 1] /\ Pow2[k - 1] \in Nat
        BY <3>4, PowStep
      <4> QED
        BY <4>1, <3>3, <3>4, PowStep
    <3>6. Pow2[k] <= x /\ x < Pow2[k + 1]
      BY <3>1, <3>3, <3>5
    <3> QED
      BY <3>3, <3>6
  <2> QED
    BY <2>2, <2>3
<1> HIDE DEF S
<1>3. Nat \subseteq S
  BY <1>1, <1>2, BitSteps
<1> SUFFICES ASSUME NEW x \in 1 .. 255 PROVE Ok(x)
  OBVIOUS
<1>4. x \in S
  BY <1>3
<1> QED
  BY <1>4 DEF S

LEMMA BytePower == \A n \in 1 .. 8 : Pow2[n] <= 256
<1>1. Pow2[8] = 256
  <2>1. /\ Pow2[2 + 1] = 2 * Pow2[2] /\ Pow2[3 + 1] = 2 * Pow2[3] /\ Pow2[4 + 1] = 2 * Pow2[4]
        /\ Pow2[5 + 1] = 2 * Pow2[5] /\ Pow2[6 + 1] = 2 * Pow2[6] /\ Pow2[7 + 1] = 2 * Pow2[7]
    BY PowStep
  <2> QED
    BY <2>1, SmallPowers
<1> SUFFICES ASSUME NEW n \in 1 .. 8 PROVE Pow2[n] <= 256
  OBVIOUS
<1>2. Pow2[n] <= Pow2[8]
  BY PowMonotone
<1> QED
  BY <1>1, <1>2

LEMMA LeadingZeros ==
  ASSUME NEW x \in UWord, x # 0
  PROVE  /\ count_leading_zeros(x) = HalfBits - 1 - LogFloor(x)
         /\ LogFloor(x) \in 0 .. HalfBits - 1
<1> DEFINE n == HalfBits \div 4
           a == CASE x < Pow2[n] -> 0
                  [] x >= Pow2[n] /\ x < Pow2[2 * n] -> n
                  [] x >= Pow2[2 * n] /\ x < Pow2[3 * n] -> 2 * n
                  [] OTHER -> 3 * n
<1>1. n \in 1 .. 8 /\ 4 * n = HalfBits
  BY HalfBitsAssumption
<1>2. x \in Nat /\ x > 0 /\ x < Pow2[4 * n]
  BY <1>1, Sizes DEF UWord, Half
<1> HIDE DEF n
<1>3. /\ Pow2[n] \in Nat /\ Pow2[2 * n] \in Nat /\ Pow2[3 * n] \in Nat
      /\ Pow2[n] <= Pow2[2 * n] /\ Pow2[2 * n] <= Pow2[3 * n]
  BY <1>1, PowPositive, PowMonotone
<1>4. a \in {0, n, 2 * n, 3 * n} /\ (a = 0 \/ Pow2[a] <= x) /\ x < Pow2[a + n]
  <2>1. CASE x < Pow2[n]
    <3>1. a = 0 /\ 0 + n = n
      BY <2>1, <1>1, <1>2, <1>3
    <3> QED
      BY <2>1, <3>1
  <2>2. CASE x >= Pow2[n] /\ x < Pow2[2 * n]
    <3>1. a = n /\ n + n = 2 * n
      BY <2>2, <1>1, <1>2, <1>3
    <3> QED
      BY <2>2, <3>1
  <2>3. CASE x >= Pow2[2 * n] /\ x < Pow2[3 * n]
    <3>1. a = 2 * n /\ 2 * n + n = 3 * n
      BY <2>3, <1>1, <1>2, <1>3
    <3> QED
      BY <2>3, <3>1
  <2>4. CASE x >= Pow2[3 * n]
    <3>1. a = 3 * n /\ 3 * n + n = 4 * n
      BY <2>4, <1>1, <1>2, <1>3
    <3> QED
      BY <2>4, <3>1, <1>2
  <2> QED
    BY <2>1, <2>2, <2>3, <2>4, <1>2, <1>3
<1>5. count_leading_zeros(x) = HalfBits - (clz_tab[Shr(x, a)] + a)
  BY DEF count_leading_zeros, n
<1> HIDE DEF a
<1>6. a \in Nat /\ n \in Nat
  BY <1>1, <1>4
<1> DEFINE p == Pow2[a]
           y == x \div p
           l == x % p
           k == clz_tab[y]
<1>7. p \in Nat \ {0}
  BY <1>6, PowPositive
<1>8. y \in Nat /\ l \in 0 .. p-1 /\ x = p * y + l
  BY <1>2, <1>7, QuotientSmall
<1>9. y < 256
  <2>1. y < Pow2[n]
    BY <1>2, <1>4, <1>6, ShiftBelow
  <2>2. Pow2[n] <= 256 /\ Pow2[n] \in Nat
    BY <1>1, <1>6, BytePower, PowPositive
  <2> QED
    BY <1>8, <2>1, <2>2
<1>10. y # 0
  <2> SUFFICES ASSUME y = 0 PROVE FALSE
    OBVIOUS
  <2>1. x = l
    <3> HIDE DEF y, l, p
    <3> QED
      BY <1>7, <1>8
  <2>2. a = 0
    <3> HIDE DEF y, l
    <3>1. x < p
      BY <1>7, <1>8, <2>1
    <3> QED
      BY <3>1, <1>2, <1>4, <1>7
  <2>3. p = 1
    BY <2>2, PowZero
  <2> HIDE DEF y, l, p
  <2> QED
    BY <2>1, <2>3, <1>8, <1>2
<1>11. k \in Nat /\ k >= 1 /\ Pow2[k - 1] <= y /\ y < Pow2[k]
  <2>1. y \in 1 .. 255
    <3> HIDE DEF y
    <3> QED
      BY <1>8, <1>9, <1>10
  <2> HIDE DEF y
  <2> QED
    BY <2>1, TabRight
<1>12. count_leading_zeros(x) = HalfBits - (k + a)
  BY <1>5 DEF Shr
<1> HIDE DEF k, y, l
<1> DEFINE j == (k + a) - 1
           u == Pow2[k - 1]
           v == Pow2[k]
<1>13. /\ j \in Nat /\ j = a + (k - 1) /\ j + 1 = a + k /\ k - 1 \in Nat
  BY <1>6, <1>11
<1>14. Pow2[j] = p * u /\ Pow2[j + 1] = p * v
  <2>1. Pow2[a + (k - 1)] = p * u
    BY <1>6, <1>13, PowSum
  <2>2. Pow2[a + k] = p * v
    BY <1>6, <1>11, PowSum
  <2> QED
    BY <2>1, <2>2, <1>13
<1>15. u \in Nat /\ v \in Nat /\ u <= y /\ y + 1 <= v
  BY <1>8, <1>11, <1>13, PowPositive
<1> HIDE DEF u, v, p
<1>16. Pow2[j] <= x /\ x < Pow2[j + 1]
  <2>1. p * u <= p * y /\ p * (y + 1) <= p * v /\ p * (y + 1) = p * y + p
    BY <1>7, <1>8, <1>15
  <2>2. p * u \in Int /\ p * y \in Int /\ p * v \in Int
    BY <1>7, <1>8, <1>15
  <2> QED
    BY <2>1, <2>2, <1>7, <1>8, <1>14
<1> HIDE DEF j
<1>17. j < HalfBits
  <2> SUFFICES ASSUME HalfBits <= j PROVE FALSE
    BY <1>13, Sizes
  <2>1. Half <= Pow2[j]
    BY <1>13, Sizes, PowMonotone DEF Half
  <2>2. x < Half /\ Pow2[j] \in Nat /\ Half \in Nat
    BY <1>13, Sizes, PowPositive DEF UWord
  <2> QED
    BY <2>1, <2>2, <1>2, <1>16
<1>18. LogFloor(x) = j
  BY <1>2, <1>13, <1>16, <1>17, Sizes, LogFloorIs
<1> QED
  BY <1>12, <1>13, <1>17, <1>18, <1>6, <1>11, Sizes DEF j

(* x & -x is the lowest bit of x that is set: above it the two are           *)
(* complements of each other.                                                *)
LEMMA AndComplement ==
  ASSUME NEW k \in Nat, NEW m \in Nat, m < Pow2[k]
  PROVE  And[m][Pow2[k] - 1 - m] = 0
<1> DEFINE S == {j \in Nat : \A n \in Nat : n < Pow2[j] => And[n][Pow2[j] - 1 - n] = 0}
<1>1. 0 \in S
  <2> SUFFICES ASSUME NEW n \in Nat, n < 1 PROVE And[n][1 - 1 - n] = 0
    BY PowZero
  <2>1. n = 0 /\ 1 - 1 - n = 0
    OBVIOUS
  <2> QED
    BY <2>1, AndZero
<1>2. ASSUME NEW j \in Nat, j \in S PROVE j + 1 \in S
  <2> SUFFICES ASSUME NEW n \in Nat, n < Pow2[j+1] PROVE And[n][Pow2[j+1] - 1 - n] = 0
    OBVIOUS
  <2> DEFINE p == Pow2[j]
             c == n \div 2
             b == n % 2
             y == 2 * p - 1 - n
  <2>1. Pow2[j+1] = 2 * p /\ p \in Nat
    BY PowStep, PowPositive
  <2>2. c \in Nat /\ b \in {0, 1} /\ n = 2 * c + b
    OBVIOUS
  <2>3. c < p
    BY <2>1, <2>2
  <2>4. And[c][p - 1 - c] = 0
    BY <1>2, <2>2, <2>3
  <2> HIDE DEF p, c, b
  <2>5. y \in Nat /\ y \div 2 = p - 1 - c /\ y % 2 = 1 - b
    <3>1. y = 2 * (p - 1 - c) + (1 - b) /\ p - 1 - c \in Nat
      BY <2>1, <2>2, <2>3
    <3> HIDE DEF y
    <3> QED
      BY <3>1, <2>2
  <2> HIDE DEF y
  <2>6. And[n][y] = 0
    <3>1. CASE n = 0
      BY <3>1, <2>5, AndUnfolds
    <3>2. CASE n # 0
      <4>1. And[n][y] = 2 * And[c][p - 1 - c] + (IF b = 1 /\ 1 - b = 1 THEN 1 ELSE 0)
        BY <3>2, <2>5, AndUnfolds DEF c, b
      <4> QED
        BY <4>1, <2>2, <2>4
    <3> QED
      BY <3>1, <3>2
  <2> QED
    BY <2>1, <2>6 DEF y
<1> HIDE DEF S
<1>3. k \in S
  BY <1>1, <1>2, NatSteps
<1> QED
  BY <1>3 DEF S

LEMMA AndTyped == \A x, y \in Nat : And[x][y] \in Nat
<1> DEFINE S == {x \in Nat : \A y \in Nat : And[x][y] \in Nat}
<1>1. 0 \in S
  BY AndUnfolds
<1>2. ASSUME NEW x \in Nat \ {0}, x \div 2 \in S PROVE x \in S
  <2> SUFFICES ASSUME NEW y \in Nat PROVE And[x][y] \in Nat
    OBVIOUS
  <2>1. And[x][y] = 2 * And[x \div 2][y \div 2] + (IF x % 2 = 1 /\ y % 2 = 1 THEN 1 ELSE 0)
    BY AndUnfolds
  <2>2. y \div 2 \in Nat
    OBVIOUS
  <2>3. And[x \div 2][y \div 2] \in Nat
    BY <1>2, <2>2
  <2> QED
    BY <2>1, <2>3
<1> HIDE DEF S
<1>3. Nat \subseteq S
  BY <1>1, <1>2, BitSteps
<1> QED
  BY <1>3 DEF S

LEMMA AndDoubles ==
  ASSUME NEW x \in Nat, NEW y \in Nat
  PROVE  And[2 * x][2 * y] = 2 * And[x][y]
<1>1. CASE x = 0
  <2>1. And[0][2 * y] = 0 /\ And[0][y] = 0
    BY AndUnfolds
  <2> QED
    BY <1>1, <2>1
<1>2. CASE x # 0
  <2> DEFINE u == 2 * x
             v == 2 * y
  <2>1. u \in Nat /\ v \in Nat /\ u # 0 /\ u \div 2 = x /\ v \div 2 = y /\ u % 2 = 0
    BY <1>2
  <2>2. And[x][y] \in Nat
    BY AndTyped
  <2> HIDE DEF u, v
  <2>3. And[u][v] = 2 * And[x][y] + 0
    BY <2>1, AndUnfolds
  <2> QED
    BY <2>2, <2>3 DEF u, v
<1> QED
  BY <1>1, <1>2

LEMMA AndNegate ==
  ASSUME NEW k \in Nat, NEW n \in Nat, NEW m \in Nat, m < Pow2[n]
  PROVE  And[Pow2[k] * (2*m + 1)][Pow2[k] * (2 * (Pow2[n] - 1 - m) + 1)] = Pow2[k]
<1> DEFINE w == Pow2[n] - 1 - m
           S == {j \in Nat : And[Pow2[j] * (2*m + 1)][Pow2[j] * (2*w + 1)] = Pow2[j]}
<1>0. w \in Nat /\ And[m][w] = 0
  <2>1. Pow2[n] \in Nat
    BY PowPositive
  <2> QED
    BY <2>1, AndComplement
<1> HIDE DEF w
<1>1. 0 \in S
  <2> DEFINE x == 2*m + 1
             y == 2*w + 1
  <2>1. 1 * x = x /\ 1 * y = y
    BY <1>0
  <2>2. x \div 2 = m /\ y \div 2 = w /\ x % 2 = 1 /\ y % 2 = 1 /\ x \in Nat /\ y \in Nat /\ x # 0
    BY <1>0
  <2> HIDE DEF x, y
  <2>3. And[x][y] = 2 * And[m][w] + 1
    BY <2>2, AndUnfolds
  <2> QED
    BY <2>1, <2>3, <1>0, PowZero DEF x, y
<1>2. ASSUME NEW j \in Nat, j \in S PROVE j + 1 \in S
  <2> DEFINE p == Pow2[j]
             u == 2*m + 1
             v == 2*w + 1
             x == p * u
             y == p * v
  <2>1. Pow2[j+1] = 2 * p /\ p \in Nat /\ u \in Nat /\ v \in Nat
    BY PowStep, PowPositive, <1>0
  <2>2. And[x][y] = p
    BY <1>2
  <2> HIDE DEF p, u, v
  <2>3. x \in Nat /\ y \in Nat /\ (2 * p) * u = 2 * x /\ (2 * p) * v = 2 * y
    BY <2>1
  <2> HIDE DEF x, y
  <2>4. And[2 * x][2 * y] = 2 * p
    BY <2>2, <2>3, AndDoubles
  <2>5. And[Pow2[j+1] * u][Pow2[j+1] * v] = Pow2[j+1]
    BY <2>1, <2>3, <2>4
  <2> QED
    BY <2>5 DEF u, v
<1> HIDE DEF S
<1>3. k \in S
  BY <1>1, <1>2, NatSteps
<1> QED
  BY <1>3 DEF S, w

LEMMA TrailingZeros ==
  ASSUME NEW x \in UWord, x # 0
  PROVE  count_trailing_zeros(x) = LowestBit(x)
<1> DEFINE k == ctzsi2(x)
<1>1. Trailing(HalfBits, x, k) /\ k \in 0 .. HalfBits - 1
  BY CtzWord
<1> HIDE DEF k
<1>2. PICK m \in Nat : x = Pow2[k] * (2*m + 1)
  BY <1>1 DEF Trailing
<1> DEFINE n == HalfBits - 1 - k
           p == Pow2[k]
           g == Pow2[n]
           w == g - 1 - m
<1>3. n \in Nat /\ k \in Nat /\ (k + 1) + n = HalfBits /\ k \in 0 .. 2 * HalfBits /\ k + 1 \in Nat
  BY <1>1, Sizes
<1>4. p \in Nat /\ p > 0 /\ g \in Nat /\ Half = (2 * p) * g /\ Pow2[k + 1] = 2 * p
  <2>1. Pow2[k + 1] = 2 * p
    BY <1>3, PowStep
  <2>2. Pow2[(k + 1) + n] = Pow2[k + 1] * g
    BY <1>3, PowSum
  <2> QED
    BY <2>1, <2>2, <1>3, PowPositive DEF Half
<1>5. x \in Nat /\ x > 0 /\ x < Half /\ Half \in Nat
  BY Sizes DEF UWord
<1>e. x = p * (2*m + 1)
  BY <1>2
<1> HIDE DEF p, g, n
<1>6. m < g
  <2> SUFFICES ASSUME m >= g PROVE FALSE
    BY <1>4
  <2>1. p * (2*m + 1) >= p * (2*g)
    BY <1>4
  <2>2. p * (2*g) = (2 * p) * g
    BY <1>4
  <2> QED
    BY <2>1, <2>2, <1>4, <1>5, <1>e
<1>7. w \in Nat /\ Half - x = p * (2*w + 1)
  <2>1. w \in Nat
    BY <1>4, <1>6
  <2>2. p * (2 * (g - 1 - m) + 1) = (2 * p) * g - p * (2*m + 1)
    BY <1>4
  <2> QED
    BY <2>1, <2>2, <1>4, <1>e
<1>8. (-x) % Half = Half - x
  <2> DEFINE y == Half - x
  <2>1. Half \in Nat \ {0} /\ -1 \in Int /\ y \in 0 .. Half-1 /\ -x = Half * (-1) + y
    BY <1>5
  <2> HIDE DEF y
  <2>2. (Half * (-1) + y) % Half = y
    BY <2>1, Quotient
  <2> QED
    BY <2>1, <2>2 DEF y
<1>9. And[x][Half - x] = p
  <2>1. And[p * (2*m + 1)][p * (2*w + 1)] = p
    BY <1>3, <1>6, AndNegate DEF p, g
  <2> QED
    BY <2>1, <1>7, <1>e
<1>10. count_trailing_zeros(x) = HalfBits - 1 - count_leading_zeros(p)
  BY <1>8, <1>9 DEF count_trailing_zeros
<1>11. p \in UWord /\ p # 0
  <2>1. p * (2*m + 1) >= p
    BY <1>4
  <2> QED
    BY <2>1, <1>4, <1>5, <1>e DEF UWord
<1>12. LogFloor(p) = k
  <2>1. Pow2[k] <= p /\ p < Pow2[k + 1]
    BY <1>4 DEF p
  <2> QED
    BY <2>1, <1>3, <1>4, LogFloorIs
<1>13. count_leading_zeros(p) = HalfBits - 1 - k
  BY <1>11, <1>12, LeadingZeros
<1>14. LowestBit(x) = k
  BY <1>2, <1>3, LowestBitIs
<1> QED
  BY <1>3, <1>10, <1>13, <1>14, Sizes

-----------------------------------------------------------------------------
(* A word as two half words, and the product made of their products.         *)
LEMMA HalfWord ==
  /\ ll_B \in Nat \ {0} /\ ll_B > 1 /\ ll_B * ll_B = Half /\ ll_B = 2 * (ll_B \div 2)
  /\ ll_B = Pow2[HalfBits \div 2] /\ HalfBits \div 2 \in Nat
<1> DEFINE n == HalfBits \div 2
           p == Pow2[n - 1]
<1>1. n \in Nat /\ n - 1 \in Nat /\ (n - 1) + 1 = n /\ n + n = HalfBits
  BY HalfBitsAssumption
<1> HIDE DEF n
<1>2. Pow2[(n - 1) + 1] = 2 * p /\ p \in Nat /\ p > 0
  BY <1>1, PowStep, PowPositive
<1>3. Pow2[n + n] = Pow2[n] * Pow2[n]
  BY <1>1, PowSum
<1>4. ll_B = Pow2[n] /\ Half = Pow2[n] * Pow2[n] /\ ll_B = 2 * p
  BY <1>1, <1>2, <1>3 DEF ll_B, n, Half
<1> HIDE DEF p
<1>5. ll_B \in Nat \ {0} /\ ll_B > 1 /\ ll_B \div 2 = p
  BY <1>2, <1>4
<1> QED
  BY <1>1, <1>4, <1>5 DEF n

LEMMA HalfWords ==
  ASSUME NEW x \in UWord
  PROVE  /\ x \div ll_B \in 0 .. ll_B-1 /\ x % ll_B \in 0 .. ll_B-1
         /\ x \div ll_B \in Nat /\ x % ll_B \in Nat
         /\ x \div ll_B < ll_B /\ x % ll_B < ll_B
         /\ x = ll_B * (x \div ll_B) + (x % ll_B)
<1> DEFINE h == x \div ll_B
           l == x % ll_B
<1>1. x \in 0 .. ll_B * ll_B - 1 /\ ll_B \in Nat \ {0}
  BY HalfWord DEF UWord
<1>2. h \in 0 .. ll_B-1 /\ l \in 0 .. ll_B-1 /\ x = ll_B * h + l
  BY <1>1, DivisionRange
<1> HIDE DEF h, l
<1>3. h \in Nat /\ l \in Nat /\ h < ll_B /\ l < ll_B
  BY <1>1, <1>2
<1> QED
  BY <1>2, <1>3 DEF h, l

(* A word of a half word each is a word.                                     *)
LEMMA JoinHalves ==
  ASSUME NEW h \in 0 .. ll_B-1, NEW l \in 0 .. ll_B-1
  PROVE  h * ll_B + l \in 0 .. Half-1
<1>1. ll_B \in Nat /\ ll_B * ll_B = Half /\ h \in Nat /\ l \in Nat /\ h + 1 <= ll_B /\ l < ll_B
  BY HalfWord
<1>2. (h + 1) * ll_B <= ll_B * ll_B /\ (h + 1) * ll_B = h * ll_B + ll_B /\ h * ll_B \in Nat
  BY <1>1
<1> QED
  BY <1>1, <1>2

LEMMA ProductBelow ==
  ASSUME NEW b \in Nat \ {0}, NEW x \in 0 .. b-1, NEW y \in 0 .. b-1
  PROVE  x * y \in Nat /\ x * y + (b - 1) < b * b
<1>1. x * y <= (b - 1) * (b - 1) /\ x * y \in Nat
  <2>1. x * y <= (b - 1) * y /\ (b - 1) * y <= (b - 1) * (b - 1) /\ x * y \in Nat /\ (b - 1) * y \in Nat
    OBVIOUS
  <2> QED
    BY <2>1
<1>2. (b - 1) * (b - 1) = (b * b - 2 * b) + 1
  OBVIOUS
<1> QED
  BY <1>1, <1>2

(* The carry of a sum of two words shows in the sum being below either.      *)
Carried(x, y, s, c) == s \in 0 .. Half-1 /\ c \in {0, 1} /\ x + y = Half * c + s
LEMMA SumCarries ==
  ASSUME NEW x \in 0 .. Half-1, NEW y \in 0 .. Half-1
  PROVE  Carried(x, y, (x + y) % Half, IF (x + y) % Half < y THEN 1 ELSE 0)
<1> DEFINE s == (x + y) % Half
           c == IF s < y THEN 1 ELSE 0
<1>0. x \in Nat /\ y \in Nat /\ x < Half /\ y < Half /\ Half \in Nat
  BY Sizes
<1>1. CASE x + y < Half
  <2>1. s = x + y
    BY <1>1, <1>0, Sizes
  <2> HIDE DEF s
  <2>2. c = 0
    BY <2>1, <1>0
  <2> HIDE DEF c
  <2>3. Carried(x, y, s, c)
    BY <2>1, <2>2, <1>1, <1>0 DEF Carried
  <2> QED
    BY <2>3 DEF s, c
<1>2. CASE x + y >= Half
  <2> DEFINE z == x + y - Half
  <2>1. z \in 0 .. Half-1 /\ x + y = Half * 1 + z /\ z < y
    BY <1>2, <1>0
  <2> HIDE DEF z
  <2>2. (Half * 1 + z) % Half = z
    BY <2>1, Sizes, Quotient
  <2>3. s = z
    BY <2>1, <2>2
  <2> HIDE DEF s
  <2>4. c = 1
    BY <2>1, <2>3
  <2> HIDE DEF c
  <2>5. Carried(x, y, s, c)
    BY <2>1, <2>3, <2>4 DEF Carried
  <2> QED
    BY <2>5 DEF s, c
<1> QED
  BY <1>1, <1>2, <1>0

(* The sum of the cross products, in terms of the half words.                *)
LEMMA CrossProducts ==
  ASSUME NEW b \in Int, NEW h \in Int, h = b * b,
         NEW u0 \in Int, NEW u1 \in Int, NEW v0 \in Int, NEW v1 \in Int,
         NEW c0 \in Int, NEW d0 \in Int, u0 * v0 = b * c0 + d0,
         NEW c \in Int, NEW mh \in Int, NEW ml \in Int,
         (u0 * v1 + c0) + u1 * v0 = h * c + (b * mh + ml)
  PROVE  (b * u1 + u0) * (b * v1 + v0) = h * (u1 * v1 + c * b + mh) + (ml * b + d0)
<1> DEFINE k == u1 * v1
           x == u0 * v1
           y == u1 * v0
           z == u0 * v0
<1>1. k \in Int /\ x \in Int /\ y \in Int /\ z \in Int
  OBVIOUS
<1>2. (b * u1 + u0) * (b * v1 + v0) = (b * b) * k + b * (x + y) + z
  OBVIOUS
<1>3. x + y = h * c + (b * mh + ml) - c0 /\ z = b * c0 + d0
  BY <1>1
<1> HIDE DEF k, x, y, z
<1>4. b * (x + y) = (b * h) * c + (b * b) * mh + b * ml - b * c0
  BY <1>3, <1>1
<1>5. h * (k + c * b + mh) = h * k + (b * h) * c + h * mh
  BY <1>1
<1>6. /\ (b * b) * k = h * k /\ (b * b) * mh = h * mh /\ ml * b = b * ml
      /\ h * k \in Int /\ h * mh \in Int /\ b * ml \in Int /\ b * c0 \in Int /\ (b * h) * c \in Int
  BY <1>1
<1>7. (b * u1 + u0) * (b * v1 + v0) = h * (k + c * b + mh) + (ml * b + d0)
  BY <1>1, <1>2, <1>3, <1>4, <1>5, <1>6
<1> QED
  BY <1>7 DEF k

LEMMA ProductRight ==
  ASSUME NEW a \in UWord, NEW b \in UWord
  PROVE  umul_ppmm(a, b) = a * b
<1> DEFINE u0 == a % ll_B
           u1 == a \div ll_B
           v0 == b % ll_B
           v1 == b \div ll_B
           x0 == u0 * v0
           c0 == x0 \div ll_B
           d0 == x0 % ll_B
           x1 == u0 * v1 + c0
           x2 == u1 * v0
           mid == (x1 + x2) % Half
           c == IF mid < x2 THEN 1 ELSE 0
           mh == mid \div ll_B
           ml == mid % ll_B
           s == u1 * v1 + c * ll_B + mh
           l == ml * ll_B + d0
<1>0. ll_B \in Nat \ {0} /\ ll_B * ll_B = Half /\ Half \in Nat \ {0}
  BY HalfWord, Sizes
<1>1. /\ u0 \in 0 .. ll_B-1 /\ u1 \in 0 .. ll_B-1 /\ a = ll_B * u1 + u0
      /\ v0 \in 0 .. ll_B-1 /\ v1 \in 0 .. ll_B-1 /\ b = ll_B * v1 + v0
  BY HalfWords
<1> HIDE DEF u0, u1, v0, v1
<1>2. x0 \in UWord /\ c0 \in 0 .. ll_B-1 /\ d0 \in 0 .. ll_B-1 /\ x0 = ll_B * c0 + d0
  <2>1. x0 \in Nat /\ x0 + (ll_B - 1) < ll_B * ll_B
    BY <1>0, <1>1, ProductBelow
  <2> HIDE DEF x0
  <2>2. x0 \in UWord
    BY <2>1, <1>0 DEF UWord
  <2> QED
    BY <2>2, HalfWords
<1> HIDE DEF c0, d0
<1>3. x1 \in 0 .. Half-1
  <2> DEFINE z == u0 * v1
  <2>1. z \in Nat /\ z + (ll_B - 1) < ll_B * ll_B
    BY <1>0, <1>1, ProductBelow
  <2> HIDE DEF z
  <2>2. z + c0 \in 0 .. Half-1
    BY <2>1, <1>0, <1>2
  <2> QED
    BY <2>2 DEF z
<1>4. x2 \in 0 .. Half-1
  <2>1. x2 \in Nat /\ x2 + (ll_B - 1) < ll_B * ll_B
    BY <1>0, <1>1, ProductBelow
  <2> HIDE DEF x2
  <2> QED
    BY <2>1, <1>0
<1>5. mid \in 0 .. Half-1 /\ c \in {0, 1} /\ x1 + x2 = Half * c + mid
  <2> HIDE DEF x1, x2
  <2>1. Carried(x1, x2, (x1 + x2) % Half, IF (x1 + x2) % Half < x2 THEN 1 ELSE 0)
    BY <1>3, <1>4, SumCarries
  <2> QED
    BY <2>1 DEF Carried
<1>6. umul_ppmm(a, b) = all(((u1 * v1 + (IF mid < x2 THEN ll_B ELSE 0)) + mh) % Half, l % Half)
  <2>1. x1 % Half = x1
    <3> HIDE DEF x1
    <3> QED
      BY <1>3, <1>0
  <2> DEFINE y1 == x1 % Half
  <2>2. umul_ppmm(a, b) =
          all(((u1 * v1 + (IF (y1 + x2) % Half < x2 THEN ll_B ELSE 0)) + (((y1 + x2) % Half) \div ll_B)) % Half,
              ((((y1 + x2) % Half) % ll_B) * ll_B + d0) % Half)
    BY DEF umul_ppmm, u0, u1, v0, v1, c0, d0
  <2>3. y1 = x1
    BY <2>1
  <2> HIDE DEF y1, x1, x2
  <2> QED
    BY <2>2, <2>3
<1>7. (IF mid < x2 THEN ll_B ELSE 0) = c * ll_B
  <2> HIDE DEF mid, x2
  <2> QED
    BY <1>0
<1> HIDE DEF c
<1>8. mh \in 0 .. ll_B-1 /\ ml \in 0 .. ll_B-1 /\ mid = ll_B * mh + ml
  <2> HIDE DEF mid
  <2>1. mid \in UWord
    BY <1>5 DEF UWord
  <2> QED
    BY <2>1, HalfWords
<1>9. l \in 0 .. Half-1
  BY <1>2, <1>8, JoinHalves
<1> HIDE DEF mid, mh, ml
<1>10. umul_ppmm(a, b) = all(s % Half, l)
  <2>1. l % Half = l
    <3> HIDE DEF l
    <3> QED
      BY <1>9, <1>0
  <2> QED
    BY <2>1, <1>6, <1>7
<1>11. a * b = Half * s + l
  <2>1. (u0 * v1 + c0) + u1 * v0 = Half * c + (ll_B * mh + ml)
    BY <1>5, <1>8
  <2>2. u0 * v0 = ll_B * c0 + d0
    BY <1>2
  <2>3. /\ ll_B \in Int /\ Half \in Int /\ u0 \in Int /\ u1 \in Int /\ v0 \in Int /\ v1 \in Int
        /\ c0 \in Int /\ d0 \in Int /\ c \in Int /\ mh \in Int /\ ml \in Int
    BY <1>0, <1>1, <1>2, <1>5, <1>8
  <2>4. (ll_B * u1 + u0) * (ll_B * v1 + v0) = Half * (u1 * v1 + c * ll_B + mh) + (ml * ll_B + d0)
    BY <2>1, <2>2, <2>3, <1>0, CrossProducts
  <2> QED
    BY <2>4, <1>1
<1>12. s \in Int
  BY <1>0, <1>1, <1>5, <1>8
<1> HIDE DEF s, l
<1>13. umul_ppmm(a, b) = Bits(a * b)
  BY <1>9, <1>10, <1>11, <1>12, TopWord
<1>14. a * b \in UDword
  <2>1. a * b \in Nat /\ a * b + (Half - 1) < Half * Half
    BY <1>0, ProductBelow DEF UWord
  <2>2. a * b \in Int /\ Half * Half = Full /\ Full \in Int
    BY <2>1, Sizes
  <2> QED
    BY <2>1, <2>2, <1>0 DEF UDword
<1> QED
  BY <1>13, <1>14, BitsSmall

-----------------------------------------------------------------------------
(* The quotient of a double word by a word, half a word at a time.  The      *)
(* estimate is too large by two at most, since the divisor's top bit is set: *)
(* its high half is half the range or more.                                  *)
LEMMA WordModulus ==
  ASSUME NEW x \in 0 .. Half-1, NEW k \in {0, 1, -1}, NEW y, y = Half * k + x
  PROVE  y % Half = x
<1>1. Half \in Nat \ {0} /\ k \in Int
  BY Sizes
<1>2. (Half * k + x) % Half = x
  BY <1>1, Quotient
<1> QED
  BY <1>2

Estimates(b, m, d1, d0, n, q, r) ==
  /\ b \in Nat \ {0} /\ m \in Nat \ {0} /\ b = 2 * m /\ d1 \in m .. b-1 /\ d0 \in 0 .. b-1
  /\ n \in Nat /\ n < b * d1 + d0 /\ q \in Nat /\ r \in 0 .. d1-1 /\ n = d1 * q + r
LEMMA Estimate ==
  ASSUME NEW b, NEW m, NEW d1, NEW d0, NEW n, NEW q, NEW r, Estimates(b, m, d1, d0, n, q, r)
  PROVE  q <= b + 1 /\ q * d0 \in Nat /\ q * d0 < b * b /\ r * b \in Nat /\ r * b + (b - 1) < b * d1
         /\ r * b + (b - 1) < b * b
<1>1. b \in Int /\ m \in Int /\ d1 \in Int /\ d0 \in Int /\ r \in Int /\ m <= d1 /\ d1 <= b - 1
      /\ 0 <= d0 /\ d0 <= b - 1 /\ 0 <= r /\ r <= d1 - 1 /\ b >= 2 /\ d1 >= 1 /\ b = 2 * m
      /\ n \in Nat /\ n < b * d1 + d0 /\ q \in Nat /\ n = d1 * q + r
  BY DEF Estimates
<1>2. q <= b + 1
  <2> SUFFICES ASSUME q >= b + 2 PROVE FALSE
    BY <1>1
  <2>1. d1 * q >= d1 * (b + 2)
    BY <1>1
  <2>2. d1 * (b + 2) = b * d1 + 2 * d1 /\ b * d1 \in Int /\ d1 * q \in Int
    BY <1>1
  <2> QED
    BY <2>1, <2>2, <1>1
<1>3. q * d0 \in Nat /\ q * d0 < b * b
  <2>1. q * d0 <= (b + 1) * d0
    BY <1>1, <1>2
  <2>2. (b + 1) * d0 <= (b + 1) * (b - 1)
    BY <1>1
  <2>3. (b + 1) * (b - 1) = b * b - 1
    BY <1>1
  <2>4. q * d0 \in Nat /\ (b + 1) * d0 \in Int /\ b * b \in Int
    BY <1>1
  <2> QED
    BY <2>1, <2>2, <2>3, <2>4
<1>4. r * b \in Nat /\ r * b + b <= b * d1 /\ r * b + b <= b * b
  <2>1. (r + 1) * b <= d1 * b /\ (r + 1) * b = r * b + b /\ d1 * b = b * d1 /\ r * b \in Nat
    BY <1>1
  <2>2. d1 * b <= b * b
    BY <1>1
  <2>3. d1 * b \in Int /\ b * b \in Int
    BY <1>1
  <2> QED
    BY <2>1, <2>2, <2>3, <1>1
<1>5. b * d1 \in Int /\ b * b \in Int
  BY <1>1
<1> QED
  BY <1>1, <1>2, <1>3, <1>4, <1>5

(* Half a word of the quotient, the remainder so far being n.                *)
HalfDivided(n, next, d, s) ==
  s.q \in 0 .. ll_B-1 /\ s.r \in 0 .. d-1 /\ n * ll_B + next = d * s.q + s.r

LEMMA HalfQuotient ==
  ASSUME NEW b \in Nat \ {0}, NEW d \in Nat \ {0}, NEW n \in 0 .. d-1, NEW next \in 0 .. b-1,
         NEW q \in Int, NEW r \in 0 .. d-1, n * b + next = d * q + r
  PROVE  q \in 0 .. b-1
<1>1. b \in Int /\ d \in Int /\ d >= 1 /\ 0 <= n /\ n <= d - 1 /\ n \in Int /\ 0 <= next /\ next <= b - 1
      /\ next \in Int /\ 0 <= r /\ r <= d - 1 /\ r \in Int /\ b >= 1
  OBVIOUS
<1>2. q >= 0
  <2> SUFFICES ASSUME q <= -1 PROVE FALSE
    BY <1>1
  <2>1. d * q <= -d /\ n * b >= 0 /\ d * q \in Int /\ n * b \in Int
    <3>1. d * q <= d * (-1)
      BY <1>1
    <3> QED
      BY <3>1, <1>1
  <2> QED
    BY <2>1, <1>1
<1>3. q <= b - 1
  <2> SUFFICES ASSUME q >= b PROVE FALSE
    BY <1>1
  <2>1. d * q >= d * b
    BY <1>1
  <2>2. (n + 1) * b <= d * b /\ (n + 1) * b = n * b + b
    BY <1>1
  <2>3. d * q \in Int /\ d * b \in Int /\ n * b \in Int
    BY <1>1
  <2> QED
    BY <2>1, <2>2, <2>3, <1>1
<1> QED
  BY <1>1, <1>2, <1>3

LEMMA QHalfRight ==
  ASSUME NEW d \in Half \div 2 .. Half-1, NEW n \in 0 .. d-1, NEW next \in 0 .. ll_B-1
  PROVE  HalfDivided(n, next, d, QHalf(n, next, d))
<1> DEFINE d1 == d \div ll_B
           d0 == d % ll_B
           q  == n \div d1
           rh == n % d1
           mm == (q * d0) % Half
           r  == ((rh * ll_B) % Half) + next
           r2 == (r + d) % Half
           r3 == (r2 + d) % Half
           m  == ll_B \div 2
           e == q * d0
           f == rh * ll_B
           g == f + next
<1>0. ll_B \in Nat \ {0} /\ ll_B * ll_B = Half /\ ll_B = 2 * m /\ m \in Nat \ {0} /\ Half \in Nat \ {0}
      /\ Half = 2 * (Half \div 2) /\ Half \div 2 \in Nat /\ Half \div 2 = ll_B * m
  <2>1. ll_B \in Nat \ {0} /\ ll_B * ll_B = Half /\ ll_B = 2 * m /\ Half \in Nat \ {0}
        /\ Half = 2 * (Half \div 2) /\ Half \div 2 \in Nat
    BY HalfWord, Sizes
  <2>2. m \in Nat \ {0}
    BY <2>1
  <2> HIDE DEF m
  <2>3. ll_B * ll_B = 2 * (ll_B * m) /\ ll_B * m \in Int
    BY <2>1, <2>2
  <2> QED
    BY <2>1, <2>2, <2>3
<1>1. d \in Nat \ {0} /\ d < Half /\ d >= Half \div 2 /\ d \in UWord /\ n \in Nat /\ n < d
      /\ next \in Nat /\ next <= ll_B - 1
  <2>1. Half \div 2 > 0
    BY <1>0
  <2> QED
    BY <2>1, <1>0 DEF UWord
<1> HIDE DEF m
<1>2. d1 \in 0 .. ll_B-1 /\ d0 \in 0 .. ll_B-1 /\ d = ll_B * d1 + d0
  BY <1>1, HalfWords
<1> HIDE DEF d1, d0
<1>3. d1 \in m .. ll_B-1 /\ d1 \in Nat \ {0}
  <2>1. d1 >= m
    <3> SUFFICES ASSUME d1 + 1 <= m PROVE FALSE
      BY <1>0, <1>2
    <3>1. ll_B * (d1 + 1) <= ll_B * m /\ ll_B * (d1 + 1) = ll_B * d1 + ll_B
      BY <1>0, <1>2
    <3>2. ll_B * d1 \in Int /\ ll_B * m \in Int
      BY <1>0, <1>2
    <3> QED
      BY <3>1, <3>2, <1>0, <1>1, <1>2
  <2> QED
    BY <2>1, <1>0, <1>2
<1>4. q \in Nat /\ rh \in 0 .. d1-1 /\ n = d1 * q + rh
  BY <1>1, <1>3, QuotientSmall
<1> HIDE DEF q, rh
<1>5. /\ e \in Nat /\ e < ll_B * ll_B /\ f \in Nat /\ f + (ll_B - 1) < ll_B * d1
      /\ f + (ll_B - 1) < ll_B * ll_B
  <2>1. n < ll_B * d1 + d0 /\ n \in Nat
    BY <1>1, <1>2
  <2>2. ll_B \in Nat \ {0} /\ m \in Nat \ {0} /\ ll_B = 2 * m
    BY <1>0
  <2>3. d1 \in m .. ll_B-1 /\ d0 \in 0 .. ll_B-1 /\ q \in Nat /\ rh \in 0 .. d1-1 /\ n = d1 * q + rh
    BY <1>2, <1>3, <1>4
  <2>4. /\ q * d0 \in Nat /\ q * d0 < ll_B * ll_B /\ rh * ll_B \in Nat
        /\ rh * ll_B + (ll_B - 1) < ll_B * d1 /\ rh * ll_B + (ll_B - 1) < ll_B * ll_B
    <3>1. Estimates(ll_B, m, d1, d0, n, q, rh)
      BY <2>1, <2>2, <2>3 DEF Estimates
    <3> QED
      BY <3>1, Estimate
  <2> QED
    BY <2>4
<1>6. n * ll_B + next = d * q + (g - e)
  <2>1. (d1 * q + rh) * ll_B = (ll_B * d1) * q + rh * ll_B
    BY <1>0, <1>3, <1>4
  <2>2. (ll_B * d1 + d0) * q = (ll_B * d1) * q + q * d0
    BY <1>0, <1>2, <1>4
  <2>3. n * ll_B = (ll_B * d1) * q + f /\ d * q = (ll_B * d1) * q + e
    BY <2>1, <2>2, <1>2, <1>4
  <2>4. (ll_B * d1) * q \in Int
    BY <1>0, <1>2, <1>4
  <2> HIDE DEF e, f
  <2> QED
    BY <2>3, <2>4, <1>1, <1>5
<1> HIDE DEF e, f
<1>7. f \in 0 .. Half-1 /\ e \in 0 .. Half-1
  BY <1>0, <1>1, <1>5
<1>8. f % Half = f /\ e % Half = e
  BY <1>0, <1>7
<1>9. r = g /\ mm = e
  BY <1>8 DEF e, f
<1>10. QHalf(n, next, d) =
         CASE r >= mm -> [q |-> q, r |-> (r - mm) % Half]
           [] r < mm /\ r2 >= d /\ r2 < mm -> [q |-> q - 2, r |-> (r3 - mm) % Half]
           [] OTHER -> [q |-> q - 1, r |-> (r2 - mm) % Half]
  BY DEF QHalf, d1, d0, q, rh
<1>11. g \in Nat /\ g < d /\ g < Half
  <2>1. ll_B * d1 \in Int
    BY <1>0, <1>2
  <2> QED
    BY <2>1, <1>0, <1>1, <1>2, <1>5
<1> HIDE DEF mm, r, g
<1>12. e \in Nat /\ e < Half /\ d \in Int /\ Half \in Int /\ 2 * d >= Half
  BY <1>0, <1>1, <1>7
<1>13. CASE g >= e
  <2> DEFINE t == g - e
  <2>1. t \in 0 .. Half-1 /\ t \in 0 .. d-1
    BY <1>11, <1>12, <1>13
  <2>2. QHalf(n, next, d) = [q |-> q, r |-> t]
    <3>1. t % Half = t
      <4> HIDE DEF t
      <4> QED
        BY <2>1, <1>0
    <3>2. r >= mm /\ ~(r < mm) /\ (r - mm) % Half = t
      BY <3>1, <1>9, <1>11, <1>12, <1>13
    <3> HIDE DEF r2, r3, t
    <3> QED
      BY <3>2, <1>10
  <2>3. n * ll_B + next = d * q + t /\ q \in Int
    BY <1>4, <1>6
  <2> HIDE DEF t
  <2>4. q \in 0 .. ll_B-1
    BY <2>1, <2>3, <1>0, <1>1, HalfQuotient
  <2> QED
    BY <2>1, <2>2, <2>3, <2>4 DEF HalfDivided
<1>14. CASE g < e
  <2> DEFINE z == g + d
  <2>1. r2 = IF z < Half THEN z ELSE z - Half
    <3>1. z \in Nat /\ z < 2 * Half
      BY <1>11, <1>12, <1>1
    <3>2. CASE z < Half
      <4>1. z \in 0 .. Half-1
        BY <3>1, <3>2, <1>12
      <4>2. z % Half = z
        <5> HIDE DEF z
        <5> QED
          BY <4>1, <1>0
      <4> QED
        BY <4>2, <3>2, <1>9
    <3>3. CASE z >= Half
      <4>1. z - Half \in 0 .. Half-1 /\ z = Half * 1 + (z - Half)
        BY <3>1, <3>3, <1>12
      <4>2. z % Half = z - Half
        <5> HIDE DEF z
        <5> QED
          BY <4>1, WordModulus
      <4> QED
        BY <4>2, <3>3, <3>1, <1>9, <1>12
    <3> QED
      BY <3>1, <3>2, <3>3, <1>12
  <2>2. CASE z < Half /\ z < e
    <3> DEFINE t == (z + d) - e
    <3>1. t \in 0 .. d-1 /\ t \in 0 .. Half-1
      BY <2>2, <1>1, <1>11, <1>12
    <3>2. r2 = z /\ r2 >= d /\ r2 < e
      BY <2>1, <2>2, <1>11, <1>12
    <3>3. (r3 - e) % Half = t
      <4> HIDE DEF r2
      <4>1. r3 = (z + d) % Half
        BY <3>2
      <4>2. z + d \in Nat /\ z + d < 2 * Half
        BY <2>2, <1>1, <1>11, <1>12
      <4>3. CASE z + d < Half
        <5> DEFINE y == z + d
        <5>1. y \in 0 .. Half-1
          BY <4>2, <4>3, <1>12
        <5>2. y % Half = y
          <6> HIDE DEF y
          <6> QED
            BY <5>1, <1>0
        <5>3. r3 - e = t
          BY <5>2, <4>1
        <5> HIDE DEF t, r3
        <5> QED
          BY <5>3, <3>1, <1>0
      <4>4. CASE z + d >= Half
        <5> DEFINE y == z + d
        <5>1. y - Half \in 0 .. Half-1 /\ y = Half * 1 + (y - Half)
          BY <4>2, <4>4, <1>12
        <5>2. y % Half = y - Half
          <6> HIDE DEF y
          <6> QED
            BY <5>1, WordModulus
        <5>3. r3 - e = Half * (-1) + t
          BY <5>2, <4>1, <4>2, <1>12
        <5> HIDE DEF t, r3
        <5> QED
          BY <5>3, <3>1, WordModulus
      <4> QED
        BY <4>2, <4>3, <4>4, <1>12
    <3>4. QHalf(n, next, d) = [q |-> q - 2, r |-> t]
      <4> HIDE DEF r2, r3, t
      <4>1. ~(r >= mm) /\ r < mm
        BY <1>9, <1>11, <1>12, <1>14
      <4> QED
        BY <4>1, <3>2, <3>3, <1>9, <1>10
    <3>5. n * ll_B + next = d * (q - 2) + t
      <4>1. d * (q - 2) = d * q - 2 * d /\ d * q \in Int
        BY <1>1, <1>4
      <4>2. (g - e) + 2 * d = t
        BY <1>11, <1>12
      <4> HIDE DEF t
      <4> QED
        BY <4>1, <4>2, <3>1, <1>6, <1>11, <1>12
    <3> HIDE DEF t
    <3>6. q - 2 \in 0 .. ll_B-1
      <4>1. q - 2 \in Int
        BY <1>4
      <4> QED
        BY <4>1, <3>1, <3>5, <1>0, <1>1, HalfQuotient
    <3> QED
      BY <3>1, <3>4, <3>5, <3>6 DEF HalfDivided
  <2>3. CASE ~(z < Half /\ z < e)
    <3> DEFINE t == z - e
    <3>1. t \in 0 .. d-1 /\ t \in 0 .. Half-1
      BY <2>3, <1>1, <1>11, <1>12, <1>14
    <3>2. ~(r2 >= d /\ r2 < e)
      BY <2>1, <2>3, <1>11, <1>12
    <3>3. (r2 - e) % Half = t
      <4>1. CASE z < Half
        <5>1. r2 - e = t
          BY <4>1, <2>1
        <5> HIDE DEF t, r2
        <5> QED
          BY <5>1, <3>1, <1>0
      <4>2. CASE ~(z < Half)
        <5>1. r2 - e = Half * (-1) + t
          BY <4>2, <2>1, <1>11, <1>12
        <5> HIDE DEF t, r2
        <5> QED
          BY <5>1, <3>1, WordModulus
      <4> QED
        BY <4>1, <4>2
    <3>4. QHalf(n, next, d) = [q |-> q - 1, r |-> t]
      <4> HIDE DEF r2, r3, t
      <4>1. ~(r >= mm)
        BY <1>9, <1>11, <1>12, <1>14
      <4> QED
        BY <4>1, <3>2, <3>3, <1>9, <1>10
    <3>5. n * ll_B + next = d * (q - 1) + t
      <4>1. d * (q - 1) = d * q - d /\ d * q \in Int
        BY <1>1, <1>4
      <4>2. (g - e) + d = t
        BY <1>11, <1>12
      <4> HIDE DEF t
      <4> QED
        BY <4>1, <4>2, <3>1, <1>6, <1>11, <1>12
    <3> HIDE DEF t
    <3>6. q - 1 \in 0 .. ll_B-1
      <4>1. q - 1 \in Int
        BY <1>4
      <4> QED
        BY <4>1, <3>1, <3>5, <1>0, <1>1, HalfQuotient
    <3> QED
      BY <3>1, <3>4, <3>5, <3>6 DEF HalfDivided
  <2> QED
    BY <2>2, <2>3
<1> QED
  BY <1>11, <1>12, <1>13, <1>14

LEMMA TwoHalves ==
  ASSUME NEW b \in Int, NEW h \in Int, h = b * b, NEW n1 \in Int, NEW nh \in Int, NEW nl \in Int, NEW d \in Int,
         NEW q1 \in Int, NEW r1 \in Int, NEW q2 \in Int, NEW r2 \in Int,
         n1 * b + nh = d * q1 + r1, r1 * b + nl = d * q2 + r2
  PROVE  h * n1 + (b * nh + nl) = d * (q1 * b + q2) + r2
<1> DEFINE s == n1 * b + nh
           k == r1 * b
<1>1. h * n1 + b * nh = s * b /\ s \in Int /\ k \in Int
  OBVIOUS
<1>2. s = d * q1 + r1
  OBVIOUS
<1> HIDE DEF s
<1>3. s * b = d * (q1 * b) + k
  BY <1>2
<1>4. d * (q1 * b + q2) = d * (q1 * b) + d * q2
  OBVIOUS
<1>5. k + nl = d * q2 + r2
  OBVIOUS
<1>6. /\ h * n1 \in Int /\ b * nh \in Int /\ d * (q1 * b) \in Int /\ d * q2 \in Int
  OBVIOUS
<1> HIDE DEF k
<1> QED
  BY <1>1, <1>3, <1>4, <1>5, <1>6

LEMMA QuotientRight ==
  ASSUME NEW a \in UDword, NEW d \in Half \div 2 .. Half-1, high(a) < d
  PROVE  udiv_qrnnd_c(high(a), low(a), d) = [q |-> a \div d, r |-> a % d]
<1> DEFINE n1 == high(a)
           n0 == low(a)
           nh == n0 \div ll_B
           nl == n0 % ll_B
           s == QHalf(n1, nh, d)
           t == QHalf(s.r, nl, d)
<1>1. /\ n1 \in Nat /\ n0 \in UWord /\ a = Half * n1 + n0
      /\ ll_B \in Nat \ {0} /\ Half = ll_B * ll_B /\ d \in Nat \ {0} /\ n1 \in 0 .. d-1
  <2>1. n1 \in Nat /\ n0 \in UWord /\ a = Half * n1 + n0 /\ n1 < d
    BY Words
  <2>2. ll_B \in Nat \ {0} /\ Half = ll_B * ll_B /\ d \in Int
    BY HalfWord, Sizes
  <2> HIDE DEF n1, n0
  <2> QED
    BY <2>1, <2>2
<1>2. udiv_qrnnd_c(n1, n0, d) = [q |-> Or[(s.q * ll_B) % Half][t.q], r |-> t.r]
  BY DEF udiv_qrnnd_c
<1> HIDE DEF n1, n0
<1>3. nh \in 0 .. ll_B-1 /\ nl \in 0 .. ll_B-1 /\ n0 = ll_B * nh + nl
  BY <1>1, HalfWords
<1> HIDE DEF nh, nl
<1>4. s.q \in 0 .. ll_B-1 /\ s.r \in 0 .. d-1 /\ n1 * ll_B + nh = d * s.q + s.r
  BY <1>1, <1>3, QHalfRight DEF HalfDivided
<1> HIDE DEF s
<1>5. t.q \in 0 .. ll_B-1 /\ t.r \in 0 .. d-1 /\ s.r * ll_B + nl = d * t.q + t.r
  BY <1>3, <1>4, QHalfRight DEF HalfDivided
<1> HIDE DEF t
<1> DEFINE q1 == s.q
           r1 == s.r
           q2 == t.q
           r2 == t.r
<1>6. /\ q1 \in 0 .. ll_B-1 /\ q2 \in 0 .. ll_B-1 /\ r2 \in 0 .. d-1 /\ r1 \in Int
      /\ n1 * ll_B + nh = d * q1 + r1 /\ r1 * ll_B + nl = d * q2 + r2
      /\ udiv_qrnnd_c(n1, n0, d) = [q |-> Or[(q1 * ll_B) % Half][q2], r |-> r2]
  BY <1>1, <1>2, <1>4, <1>5
<1> HIDE DEF q1, r1, q2, r2
<1>7. Or[(q1 * ll_B) % Half][q2] = q1 * ll_B + q2
  <2> DEFINE y == q1 * ll_B
  <2>1. y \in 0 .. Half-1 /\ y = ll_B * q1
    <3>1. 0 \in 0 .. ll_B-1 /\ q1 * ll_B + 0 = q1 * ll_B
      BY <1>1, <1>6
    <3>2. q1 * ll_B + 0 \in 0 .. Half-1
      BY <3>1, <1>6, JoinHalves
    <3> QED
      BY <3>1, <3>2, <1>1, <1>6
  <2>2. y % Half = y
    <3> HIDE DEF y
    <3> QED
      BY <2>1, Sizes
  <2>3. Or[ll_B * q1][q2] = ll_B * q1 + q2
    <3>1. q1 \in Nat /\ q2 \in Nat /\ q2 < ll_B
      BY <1>1, <1>6
    <3> QED
      BY <3>1, HalfWord, OrDisjoint
  <2> QED
    BY <2>1, <2>2, <2>3
<1> DEFINE q == q1 * ll_B + q2
<1>8. a = d * q + r2
  <2>1. /\ ll_B \in Int /\ Half \in Int /\ n1 \in Int /\ nh \in Int /\ nl \in Int /\ d \in Int
        /\ q1 \in Int /\ q2 \in Int /\ r2 \in Int
    BY <1>1, <1>3, <1>6
  <2>2. Half * n1 + (ll_B * nh + nl) = d * (q1 * ll_B + q2) + r2
    BY <2>1, <1>1, <1>6, TwoHalves
  <2> QED
    BY <2>2, <1>1, <1>3
<1>9. q \in Int
  BY <1>1, <1>6
<1> HIDE DEF q
<1>10. (d * q + r2) \div d = q /\ (d * q + r2) % d = r2
  BY <1>1, <1>6, <1>9, Quotient
<1>11. udiv_qrnnd_c(n1, n0, d) = [q |-> a \div d, r |-> a % d]
  BY <1>6, <1>7, <1>8, <1>10 DEF q
<1> QED
  BY <1>11 DEF n1, n0

-----------------------------------------------------------------------------
(* The arguments each function is called with.                               *)
LEMMA ArgumentRanges ==
  ASSUME Calls
  PROVE  /\ call.fn \in {"__divdi3", "__moddi3", "__divmoddi4"} =>
              call.a \in UDword /\ call.b \in UDword /\ call.b # 0
         /\ call.fn \in {"__muldi3", "add_ssaaaa", "sub_ddmmss"} => call.a \in UDword /\ call.b \in UDword
         /\ call.fn = "__ashldi3" => call.a \in UDword /\ call.b \in 0 .. 2 * HalfBits - 1
         /\ call.fn \in {"__clzdi2", "__ctzdi2"} => call.a \in UDword /\ call.a # 0
         /\ call.fn \in {"count_leading_zeros", "count_trailing_zeros"} => call.a \in UWord /\ call.a # 0
         /\ call.fn = "umul_ppmm" => call.a \in UWord /\ call.b \in UWord
         /\ call.fn = "udiv_qrnnd" =>
              call.a \in UDword /\ call.b \in Half \div 2 .. Half-1 /\ high(call.a) < call.b
BY OperandsAssumption DEF Calls, CopyFns, StrFns

(* Every arithmetic call answers what the mathematical operation says, in    *)
(* two's complement where it is signed, and division by zero alone traps.    *)
THEOREM ArithmeticRightHolds == Spec => []ArithmeticRight
<1>1. CallInv => ArithmeticRight
  <2> SUFFICES ASSUME CallInv, pc = "done" PROVE ArithmeticRight
    BY DEF ArithmeticRight
  <2>0. Calls /\ IF Dividing THEN DivisionAnswer(call.a, call.b, regs) ELSE out = Result(call)
    BY DEF CallInv
  <2>1. CASE call.fn = "__udivmoddi4"
    <3>1. DivisionAnswer(call.a, call.b, regs)
      BY <2>0, <2>1 DEF Dividing
    <3> QED
      BY <2>1, <3>1 DEF ArithmeticRight, DivisionAnswer
  <2>2. CASE call.fn = "__divdi3"
    <3>1. out = divdi3(call.a, call.b)
      BY <2>0, <2>2 DEF Dividing, Result
    <3>2. divdi3(call.a, call.b) = Bits(Trunc(Signed(call.a), Signed(call.b)))
      BY <2>0, <2>2, ArgumentRanges, DivRight
    <3> QED
      BY <2>2, <3>1, <3>2 DEF ArithmeticRight
  <2>3. CASE call.fn = "__moddi3"
    <3>1. out = moddi3(call.a, call.b)
      BY <2>0, <2>3 DEF Dividing, Result
    <3>2. moddi3(call.a, call.b)
            = Bits(Signed(call.a) - Signed(call.b) * Trunc(Signed(call.a), Signed(call.b)))
      BY <2>0, <2>3, ArgumentRanges, ModRight
    <3> QED
      BY <2>3, <3>1, <3>2 DEF ArithmeticRight
  <2>4. CASE call.fn = "__divmoddi4"
    <3>1. out = divmoddi4(call.a, call.b)
      BY <2>0, <2>4 DEF Dividing, Result
    <3>2. divmoddi4(call.a, call.b)
            = [q |-> Bits(Trunc(Signed(call.a), Signed(call.b))),
               r |-> Bits(Signed(call.a) - Signed(call.b) * Trunc(Signed(call.a), Signed(call.b)))]
      BY <2>0, <2>4, ArgumentRanges, DivmodSignedRight
    <3> QED
      BY <2>4, <3>1, <3>2 DEF ArithmeticRight
  <2>5. CASE call.fn = "__muldi3"
    <3>1. out = multi3(call.a, call.b)
      BY <2>0, <2>5 DEF Dividing, Result
    <3>2. multi3(call.a, call.b) = Bits(Signed(call.a) * Signed(call.b))
      BY <2>0, <2>5, ArgumentRanges, MulRight
    <3> QED
      BY <2>5, <3>1, <3>2 DEF ArithmeticRight
  <2>6. CASE call.fn = "__ashldi3"
    <3>1. out = ashldi3(call.a, call.b)
      BY <2>0, <2>6 DEF Dividing, Result
    <3>2. ashldi3(call.a, call.b) = Bits(call.a * Pow2[call.b])
      BY <2>0, <2>6, ArgumentRanges, ShlRight
    <3> QED
      BY <2>6, <3>1, <3>2 DEF ArithmeticRight
  <2>7. CASE call.fn = "__clzdi2"
    <3>1. out = clzdi2(call.a)
      BY <2>0, <2>7 DEF Dividing, Result
    <3>2. clzdi2(call.a) = 2 * HalfBits - 1 - LogFloor(call.a)
      BY <2>0, <2>7, ArgumentRanges, ClzdiRight
    <3> QED
      BY <2>7, <3>1, <3>2 DEF ArithmeticRight
  <2>8. CASE call.fn = "__ctzdi2"
    <3>1. out = ctzdi2(call.a)
      BY <2>0, <2>8 DEF Dividing, Result
    <3>2. ctzdi2(call.a) = LowestBit(call.a)
      BY <2>0, <2>8, ArgumentRanges, CtzdiRight
    <3> QED
      BY <2>8, <3>1, <3>2 DEF ArithmeticRight
  <2>9. CASE call.fn = "count_leading_zeros"
    <3>1. out = count_leading_zeros(call.a)
      BY <2>0, <2>9 DEF Dividing, Result
    <3>2. count_leading_zeros(call.a) = HalfBits - 1 - LogFloor(call.a)
      BY <2>0, <2>9, ArgumentRanges, LeadingZeros
    <3> QED
      BY <2>9, <3>1, <3>2 DEF ArithmeticRight
  <2>10. CASE call.fn = "count_trailing_zeros"
    <3>1. out = count_trailing_zeros(call.a)
      BY <2>0, <2>10 DEF Dividing, Result
    <3>2. count_trailing_zeros(call.a) = LowestBit(call.a)
      BY <2>0, <2>10, ArgumentRanges, TrailingZeros
    <3> QED
      BY <2>10, <3>1, <3>2 DEF ArithmeticRight
  <2>11. CASE call.fn = "umul_ppmm"
    <3>1. out = umul_ppmm(call.a, call.b)
      BY <2>0, <2>11 DEF Dividing, Result
    <3>2. umul_ppmm(call.a, call.b) = call.a * call.b
      BY <2>0, <2>11, ArgumentRanges, ProductRight
    <3> QED
      BY <2>11, <3>1, <3>2 DEF ArithmeticRight
  <2>12. CASE call.fn = "add_ssaaaa"
    <3>1. out = add_ssaaaa(high(call.a), low(call.a), high(call.b), low(call.b))
      BY <2>0, <2>12 DEF Dividing, Result
    <3>2. out = Bits(call.a + call.b)
      BY <2>0, <2>12, <3>1, ArgumentRanges, AddRight
    <3> QED
      BY <2>12, <3>2 DEF ArithmeticRight
  <2>13. CASE call.fn = "sub_ddmmss"
    <3>1. out = sub_ddmmss(high(call.a), low(call.a), high(call.b), low(call.b))
      BY <2>0, <2>13 DEF Dividing, Result
    <3>2. out = Bits(call.a - call.b)
      BY <2>0, <2>13, <3>1, ArgumentRanges, SubRight
    <3> QED
      BY <2>13, <3>2 DEF ArithmeticRight
  <2>14. CASE call.fn = "udiv_qrnnd"
    <3>1. out = udiv_qrnnd_c(high(call.a), low(call.a), call.b)
      BY <2>0, <2>14 DEF Dividing, Result
    <3>2. out = [q |-> call.a \div call.b, r |-> call.a % call.b]
      BY <2>0, <2>14, <3>1, ArgumentRanges, QuotientRight
    <3> QED
      BY <2>14, <3>2 DEF ArithmeticRight
  <2>15. CASE call.fn \notin {"__udivmoddi4", "__divdi3", "__moddi3", "__divmoddi4", "__muldi3", "__ashldi3",
                              "__clzdi2", "__ctzdi2", "count_leading_zeros", "count_trailing_zeros",
                              "umul_ppmm", "add_ssaaaa", "sub_ddmmss", "udiv_qrnnd"}
    BY <2>15 DEF ArithmeticRight
  <2> QED
    BY <2>1, <2>2, <2>3, <2>4, <2>5, <2>6, <2>7, <2>8, <2>9, <2>10, <2>11, <2>12, <2>13, <2>14, <2>15
<1> QED
  BY <1>1, CallInvHolds, PTL
-----------------------------------------------------------------------------
(* The memory functions.  A copy from below moves its block as long as the   *)
(* bytes written do not run into those still to be read, and one from above  *)
(* likewise.                                                                 *)
Moved(m, d, s, n) == [i \in DOMAIN m |-> IF i \in d .. d + n - 1 THEN m[s + (i - d)] ELSE m[i]]

LEMMA MovedNone ==
  ASSUME NEW m \in Memory, NEW d \in Nat, NEW s \in Nat
  PROVE  Moved(m, d, s, 0) = m
<1>1. m = [i \in DOMAIN m |-> m[i]]
  BY DEF Memory
<1>2. d .. d + 0 - 1 = {}
  OBVIOUS
<1> QED
  BY <1>1, <1>2 DEF Moved

LEMMA CopyUpRight ==
  ASSUME NEW m \in Memory, NEW d \in Nat, NEW s \in Nat, NEW n \in Nat, Room(d, n), Room(s, n),
         d <= s \/ s + n <= d
  PROVE  CopyUp(m, d, s, n) = Moved(m, d, s, n)
<1> DEFINE body(f) == [i \in 0 .. n |-> IF i = 0 THEN m ELSE [f[i-1] EXCEPT ![d + i - 1] = f[i-1][s + i - 1]]]
           c == CHOOSE f : f = body(f)
           g == [i \in 0 .. n |-> Moved(m, d, s, i)]
<1>1. CopyUp(m, d, s, n) = c[n]
  BY DEF CopyUp
<1>2. ASSUME NEW i \in 1 .. n
      PROVE  [Moved(m, d, s, i-1) EXCEPT ![d + i - 1] = Moved(m, d, s, i-1)[s + i - 1]] = Moved(m, d, s, i)
  <2> DEFINE u == Moved(m, d, s, i-1)
             w == Moved(m, d, s, i)
             v == [u EXCEPT ![d + i - 1] = u[s + i - 1]]
  <2>0. Cells \in Nat /\ d + n <= Cells /\ s + n <= Cells /\ DOMAIN m = 0 .. Cells - 1
    BY StringAssumption DEF Memory, Room
  <2>1. u[s + i - 1] = m[s + i - 1]
    BY <2>0 DEF Moved
  <2>2. DOMAIN u = DOMAIN m /\ DOMAIN w = DOMAIN m /\ w = [j \in DOMAIN m |-> w[j]]
    BY DEF Moved
  <2>3. \A j \in DOMAIN m : v[j] = IF j = d + i - 1 THEN m[s + i - 1] ELSE u[j]
    <3> HIDE DEF u
    <3> QED
      BY <2>1, <2>2
  <2>4. \A j \in DOMAIN m : v[j] = w[j]
    <3> SUFFICES ASSUME NEW j \in DOMAIN m PROVE v[j] = w[j]
      OBVIOUS
    <3>1. u[j] = (IF j \in d .. d + (i-1) - 1 THEN m[s + (j - d)] ELSE m[j])
          /\ w[j] = (IF j \in d .. d + i - 1 THEN m[s + (j - d)] ELSE m[j])
      BY DEF Moved
    <3>2. v[j] = IF j = d + i - 1 THEN m[s + i - 1] ELSE u[j]
      BY <2>3
    <3>3. j \in Int
      BY <2>0
    <3> HIDE DEF u, v, w
    <3>4. CASE j = d + i - 1
      <4>1. s + (j - d) = s + i - 1 /\ j \in d .. d + i - 1
        BY <3>4
      <4> QED
        BY <4>1, <3>1, <3>2, <3>4
    <3>5. CASE j # d + i - 1
      <4>1. j \in d .. d + i - 1 <=> j \in d .. d + (i-1) - 1
        BY <3>3, <3>5
      <4> QED
        BY <4>1, <3>1, <3>2, <3>5
    <3> QED
      BY <3>4, <3>5
  <2>5. v = [j \in DOMAIN m |-> v[j]]
    <3> HIDE DEF u
    <3> QED
      BY <2>2
  <2> HIDE DEF u, v, w
  <2>6. v = w
    BY <2>2, <2>4, <2>5
  <2> QED
    BY <2>6 DEF u, v, w
<1>3. Moved(m, d, s, 0) = m
  BY MovedNone
<1>4. g = body(g)
  <2> SUFFICES ASSUME NEW i \in 0 .. n
               PROVE  g[i] = IF i = 0 THEN m ELSE [g[i-1] EXCEPT ![d + i - 1] = g[i-1][s + i - 1]]
    OBVIOUS
  <2>1. CASE i = 0
    BY <2>1, <1>3
  <2>2. CASE i # 0
    <3>1. i \in 1 .. n /\ i - 1 \in 0 .. n
      BY <2>2
    <3>2. g[i-1] = Moved(m, d, s, i-1) /\ g[i] = Moved(m, d, s, i)
      BY <3>1
    <3> QED
      BY <3>1, <3>2, <2>2, <1>2
  <2> QED
    BY <2>1, <2>2
<1>5. c = body(c)
  <2> HIDE DEF body, g
  <2> QED
    BY <1>4
<1>6. \A i \in 0 .. n : c[i] = IF i = 0 THEN m ELSE [c[i-1] EXCEPT ![d + i - 1] = c[i-1][s + i - 1]]
  <2> HIDE DEF c
  <2> QED
    BY <1>5
<1> HIDE DEF c, body, g
<1> DEFINE S == {i \in Nat : i <= n => c[i] = Moved(m, d, s, i)}
<1>7. 0 \in S
  <2>0. 0 \in 0 .. n
    OBVIOUS
  <2>1. c[0] = m
    BY <2>0, <1>6, Zenon
  <2> QED
    BY <2>1, <1>3
<1>8. ASSUME NEW i \in Nat, i \in S PROVE i + 1 \in S
  <2> SUFFICES ASSUME i + 1 <= n PROVE c[i+1] = Moved(m, d, s, i+1)
    OBVIOUS
  <2>1. c[i] = Moved(m, d, s, i)
    BY <1>8
  <2>2. i + 1 \in 1 .. n /\ (i + 1) - 1 = i /\ i + 1 \in 0 .. n /\ i + 1 # 0
    OBVIOUS
  <2>3. c[i+1] = [c[i] EXCEPT ![d + (i+1) - 1] = c[i][s + (i+1) - 1]]
    BY <2>2, <1>6
  <2>4. [Moved(m, d, s, i) EXCEPT ![d + (i+1) - 1] = Moved(m, d, s, i)[s + (i+1) - 1]] = Moved(m, d, s, i+1)
    BY <2>2, <1>2
  <2> QED
    BY <2>1, <2>3, <2>4
<1> HIDE DEF S
<1>9. n \in S
  BY <1>7, <1>8, NatSteps
<1> QED
  BY <1>1, <1>9 DEF S

MovedFrom(m, d, s, k, n) == [i \in DOMAIN m |-> IF i \in d + k .. d + n - 1 THEN m[s + (i - d)] ELSE m[i]]

LEMMA CopyDownRight ==
  ASSUME NEW m \in Memory, NEW d \in Nat, NEW s \in Nat, NEW n \in Nat, Room(d, n), Room(s, n), s <= d
  PROVE  CopyDown(m, d, s, n) = Moved(m, d, s, n)
<1> DEFINE body(f) == [i \in 0 .. n |-> IF i = n THEN m ELSE [f[i+1] EXCEPT ![d + i] = f[i+1][s + i]]]
           c == CHOOSE f : f = body(f)
           g == [i \in 0 .. n |-> MovedFrom(m, d, s, i, n)]
<1>1. CopyDown(m, d, s, n) = c[0]
  BY DEF CopyDown
<1>2. ASSUME NEW i \in 0 .. n-1
      PROVE  [MovedFrom(m, d, s, i+1, n) EXCEPT ![d + i] = MovedFrom(m, d, s, i+1, n)[s + i]]
               = MovedFrom(m, d, s, i, n)
  <2> DEFINE u == MovedFrom(m, d, s, i+1, n)
             w == MovedFrom(m, d, s, i, n)
             v == [u EXCEPT ![d + i] = u[s + i]]
  <2>0. Cells \in Nat /\ d + n <= Cells /\ s + n <= Cells /\ DOMAIN m = 0 .. Cells - 1
    BY StringAssumption DEF Memory, Room
  <2>1. u[s + i] = m[s + i]
    BY <2>0 DEF MovedFrom
  <2>2. DOMAIN u = DOMAIN m /\ DOMAIN w = DOMAIN m /\ w = [j \in DOMAIN m |-> w[j]]
    BY DEF MovedFrom
  <2>3. \A j \in DOMAIN m : v[j] = IF j = d + i THEN m[s + i] ELSE u[j]
    <3> HIDE DEF u
    <3> QED
      BY <2>1, <2>2
  <2>4. \A j \in DOMAIN m : v[j] = w[j]
    <3> SUFFICES ASSUME NEW j \in DOMAIN m PROVE v[j] = w[j]
      OBVIOUS
    <3>1. u[j] = (IF j \in d + (i+1) .. d + n - 1 THEN m[s + (j - d)] ELSE m[j])
          /\ w[j] = (IF j \in d + i .. d + n - 1 THEN m[s + (j - d)] ELSE m[j])
      BY DEF MovedFrom
    <3>2. v[j] = IF j = d + i THEN m[s + i] ELSE u[j]
      BY <2>3
    <3>3. j \in Int
      BY <2>0
    <3> HIDE DEF u, v, w
    <3>4. CASE j = d + i
      <4>1. s + (j - d) = s + i /\ j \in d + i .. d + n - 1
        BY <3>4
      <4> QED
        BY <4>1, <3>1, <3>2, <3>4
    <3>5. CASE j # d + i
      <4>1. j \in d + i .. d + n - 1 <=> j \in d + (i+1) .. d + n - 1
        BY <3>3, <3>5
      <4> QED
        BY <4>1, <3>1, <3>2, <3>5
    <3> QED
      BY <3>4, <3>5
  <2>5. v = [j \in DOMAIN m |-> v[j]]
    <3> HIDE DEF u
    <3> QED
      BY <2>2
  <2> HIDE DEF u, v, w
  <2>6. v = w
    BY <2>2, <2>4, <2>5
  <2> QED
    BY <2>6 DEF u, v, w
<1>3. MovedFrom(m, d, s, n, n) = m
  <2>1. m = [i \in DOMAIN m |-> m[i]]
    BY DEF Memory
  <2>2. d + n .. d + n - 1 = {}
    OBVIOUS
  <2> QED
    BY <2>1, <2>2 DEF MovedFrom
<1>4. g = body(g)
  <2> SUFFICES ASSUME NEW i \in 0 .. n
               PROVE  g[i] = IF i = n THEN m ELSE [g[i+1] EXCEPT ![d + i] = g[i+1][s + i]]
    OBVIOUS
  <2>1. CASE i = n
    BY <2>1, <1>3
  <2>2. CASE i # n
    <3>1. i \in 0 .. n-1 /\ i + 1 \in 0 .. n
      BY <2>2
    <3>2. g[i+1] = MovedFrom(m, d, s, i+1, n) /\ g[i] = MovedFrom(m, d, s, i, n)
      BY <3>1
    <3> QED
      BY <3>1, <3>2, <2>2, <1>2
  <2> QED
    BY <2>1, <2>2
<1>5. c = body(c)
  <2> HIDE DEF body, g
  <2> QED
    BY <1>4
<1>6. \A i \in 0 .. n : c[i] = IF i = n THEN m ELSE [c[i+1] EXCEPT ![d + i] = c[i+1][s + i]]
  <2> HIDE DEF c
  <2> QED
    BY <1>5
<1> HIDE DEF c, body, g
<1> DEFINE S == {i \in Nat : i <= n => c[n - i] = MovedFrom(m, d, s, n - i, n)}
<1>7. 0 \in S
  <2>0. n \in 0 .. n /\ n - 0 = n
    OBVIOUS
  <2>1. c[n] = m
    BY <2>0, <1>6, Zenon
  <2> QED
    BY <2>0, <2>1, <1>3
<1>8. ASSUME NEW i \in Nat, i \in S PROVE i + 1 \in S
  <2> SUFFICES ASSUME i + 1 <= n PROVE c[n - (i+1)] = MovedFrom(m, d, s, n - (i+1), n)
    OBVIOUS
  <2> DEFINE j == n - (i+1)
  <2>1. j \in 0 .. n-1 /\ j \in 0 .. n /\ j # n /\ n - i = j + 1
    OBVIOUS
  <2>2. c[j+1] = MovedFrom(m, d, s, j+1, n)
    BY <1>8, <2>1
  <2> HIDE DEF j
  <2>3. c[j] = [c[j+1] EXCEPT ![d + j] = c[j+1][s + j]]
    BY <2>1, <1>6
  <2>4. [MovedFrom(m, d, s, j+1, n) EXCEPT ![d + j] = MovedFrom(m, d, s, j+1, n)[s + j]] = MovedFrom(m, d, s, j, n)
    BY <2>1, <1>2
  <2>5. c[j] = MovedFrom(m, d, s, j, n)
    BY <2>2, <2>3, <2>4
  <2> QED
    BY <2>5 DEF j
<1> HIDE DEF S
<1>9. n \in S
  BY <1>7, <1>8, NatSteps
<1>10. c[0] = MovedFrom(m, d, s, 0, n)
  BY <1>9 DEF S
<1>11. MovedFrom(m, d, s, 0, n) = Moved(m, d, s, n)
  BY DEF MovedFrom, Moved
<1> QED
  BY <1>1, <1>10, <1>11

(* What the copies promise is stated with blocks.                            *)
LEMMA BlockLength ==
  ASSUME NEW m, NEW s, NEW n \in Nat
  PROVE  /\ Len(Block(m, s, n)) = n
         /\ \A i \in 1 .. n : Block(m, s, n)[i] = m[s + i - 1]
BY DEF Block

LEMMA MovedBlock ==
  ASSUME NEW m \in Memory, NEW d \in Nat, NEW s \in Nat, NEW n \in Nat
  PROVE  Moved(m, d, s, n) = Copied(m, d, Block(m, s, n))
<1>1. Len(Block(m, s, n)) = n /\ \A i \in 1 .. n : Block(m, s, n)[i] = m[s + i - 1]
  BY BlockLength
<1>2. ASSUME NEW i \in DOMAIN m, i \in d .. d + n - 1
      PROVE  Block(m, s, n)[i - d + 1] = m[s + (i - d)]
  <2>1. i - d + 1 \in 1 .. n /\ s + (i - d + 1) - 1 = s + (i - d)
    BY <1>2
  <2> QED
    BY <2>1, <1>1
<1> QED
  BY <1>1, <1>2 DEF Moved, Copied

LEMMA MoveRight ==
  ASSUME NEW m \in Memory, NEW d \in Nat, NEW s \in Nat, NEW n \in Nat, Room(d, n), Room(s, n)
  PROVE  memmove(m, d, s, n) = Copied(m, d, Block(m, s, n))
<1>0. Null \notin {d, s}
  BY DEF Null
<1>1. CASE n = 0
  <2>1. Moved(m, d, s, n) = m
    BY <1>1, MovedNone
  <2>2. CASE d < s
    <3>1. CopyUp(m, d, s, n) = m
      BY <2>1, <2>2, CopyUpRight
    <3>2. memmove(m, d, s, n) = m
      BY <3>1, <1>1, <1>0 DEF memmove
    <3> QED
      BY <3>2, <2>1, MovedBlock
  <2>3. CASE ~(d < s)
    <3>1. memmove(m, d, s, n) = m
      BY <2>3, <1>1, <1>0 DEF memmove
    <3> QED
      BY <3>1, <2>1, MovedBlock
  <2> QED
    BY <2>2, <2>3
<1>2. CASE n # 0 /\ d < s
  BY <1>0, <1>2, CopyUpRight, MovedBlock DEF memmove
<1>3. CASE n # 0 /\ ~(d < s)
  BY <1>0, <1>3, CopyDownRight, MovedBlock DEF memmove
<1> QED
  BY <1>1, <1>2, <1>3

LEMMA MemcpyRight ==
  ASSUME NEW m \in Memory, NEW d \in Nat, NEW s \in Nat, NEW n \in Nat, Room(d, n), Room(s, n), Apart(d, s, n)
  PROVE  memcpy(m, d, s, n) = Copied(m, d, Block(m, s, n))
<1>1. Null \notin {d, s}
  BY DEF Null
<1>2. d <= s \/ s + n <= d
  BY DEF Apart
<1> QED
  BY <1>1, <1>2, CopyUpRight, MovedBlock DEF memcpy

LEMMA MemsetRight ==
  ASSUME NEW m \in Memory, NEW d \in Nat, NEW b, NEW n \in Nat
  PROVE  memset(m, d, b, n) = Copied(m, d, [i \in 1 .. n |-> b])
<1> DEFINE t == [i \in 1 .. n |-> b]
<1>1. d # Null /\ Len(t) = n
  BY DEF Null
<1>2. \A i \in DOMAIN m : i \in d .. d + n - 1 => t[i - d + 1] = b
  OBVIOUS
<1> HIDE DEF t
<1>3. memset(m, d, b, n) = Copied(m, d, t)
  BY <1>1, <1>2 DEF memset, Fill, Copied
<1> QED
  BY <1>3 DEF t

(* The length of a string: the place of the first zero from its start.       *)
LEMMA StrlenIs ==
  ASSUME NEW m, NEW s \in Nat, NEW n \in 0 .. Cells, m[s + n] = 0, \A i \in 0 .. n-1 : m[s + i] # 0
  PROVE  strlen(m, s) = n
<1>0. Cells \in Nat
  BY StringAssumption
<1>1. ASSUME NEW k \in 0 .. Cells, m[s + k] = 0, \A i \in 0 .. k-1 : m[s + i] # 0 PROVE k = n
  <2>1. ~(k < n)
    <3> SUFFICES ASSUME k < n PROVE FALSE
      OBVIOUS
    <3>1. k \in 0 .. n-1
      BY <1>0
    <3> QED
      BY <3>1, <1>1
  <2>2. ~(n < k)
    <3> SUFFICES ASSUME n < k PROVE FALSE
      OBVIOUS
    <3>1. n \in 0 .. k-1
      BY <1>0
    <3> QED
      BY <3>1, <1>1
  <2> QED
    BY <2>1, <2>2, <1>0
<1> QED
  BY <1>1 DEF strlen

Length(m, s, k) == /\ k \in Nat /\ s + k < Cells /\ m[s + k] = 0
                   /\ \A i \in 0 .. k-1 : m[s + i] # 0
LEMMA StrlenRight ==
  ASSUME NEW m \in Memory, NEW s \in 0 .. Cells-1, Ends(m, s)
  PROVE  Length(m, s, strlen(m, s))
<1>0. Cells \in Nat /\ s \in Nat
  BY StringAssumption
<1> DEFINE T == {n \in Nat : s + n < Cells /\ m[s + n] = 0}
<1>1. T # {}
  <2>1. PICK i \in s .. Cells-1 : m[i] = 0
    BY DEF Ends
  <2>2. i - s \in Nat /\ s + (i - s) = i /\ i < Cells
    BY <1>0
  <2> QED
    BY <2>1, <2>2
<1>2. PICK n \in T : \A k \in T : n <= k
  BY <1>1, LeastNat
<1>3. n \in Nat /\ s + n < Cells /\ m[s + n] = 0
  BY <1>2
<1>4. ASSUME NEW i \in 0 .. n-1 PROVE m[s + i] # 0
  <2> SUFFICES ASSUME m[s + i] = 0 PROVE FALSE
    OBVIOUS
  <2>1. i \in Nat /\ i < n
    BY <1>3
  <2>2. i \in T
    BY <2>1, <1>0, <1>3
  <2> QED
    BY <2>1, <2>2, <1>2, <1>3
<1>5. n \in 0 .. Cells
  BY <1>0, <1>3
<1>6. strlen(m, s) = n
  BY <1>0, <1>3, <1>4, <1>5, StrlenIs
<1> QED
  BY <1>3, <1>4, <1>6 DEF Length

(* A string is the block with its zero.                                      *)
LEMMA StringBlock ==
  ASSUME NEW m, NEW s
  PROVE  String(m, s) = Block(m, s, strlen(m, s) + 1)
BY DEF String, Block

LEMMA ZeroMoves ==
  ASSUME NEW m \in Memory, NEW d \in Nat, NEW s \in Nat, NEW k \in Nat, m[s + k] = 0
  PROVE  Fill(Moved(m, d, s, k), d + k, 1, 0) = Moved(m, d, s, k + 1)
<1> DEFINE u == Moved(m, d, s, k)
           v == Fill(u, d + k, 1, 0)
           w == Moved(m, d, s, k + 1)
<1>0. DOMAIN m = 0 .. Cells - 1 /\ Cells \in Nat
  BY StringAssumption DEF Memory
<1>1. DOMAIN u = DOMAIN m
  BY DEF Moved
<1>2. ASSUME NEW j \in DOMAIN m PROVE v[j] = w[j]
  <2>1. v[j] = IF j \in d + k .. d + k + 1 - 1 THEN 0 ELSE u[j]
    <3> HIDE DEF u
    <3> QED
      BY <1>1 DEF Fill
  <2>2. /\ u[j] = (IF j \in d .. d + k - 1 THEN m[s + (j - d)] ELSE m[j])
        /\ w[j] = (IF j \in d .. d + (k + 1) - 1 THEN m[s + (j - d)] ELSE m[j])
    BY DEF Moved
  <2>3. j \in Int
    BY <1>0
  <2> HIDE DEF u, v, w
  <2>4. CASE j = d + k
    <3>1. j \in d + k .. d + k + 1 - 1 /\ j \in d .. d + (k + 1) - 1 /\ s + (j - d) = s + k
      BY <2>4
    <3> QED
      BY <3>1, <2>1, <2>2
  <2>5. CASE j # d + k
    <3>1. j \notin d + k .. d + k + 1 - 1 /\ (j \in d .. d + (k + 1) - 1 <=> j \in d .. d + k - 1)
      BY <2>3, <2>5
    <3> QED
      BY <3>1, <2>1, <2>2
  <2> QED
    BY <2>4, <2>5
<1>3. v = [j \in DOMAIN m |-> v[j]] /\ w = [j \in DOMAIN m |-> w[j]]
  <2>1. v = [j \in DOMAIN m |-> v[j]]
    <3> HIDE DEF u
    <3> QED
      BY <1>1 DEF Fill
  <2>2. w = [j \in DOMAIN m |-> w[j]]
    BY DEF Moved
  <2> QED
    BY <2>1, <2>2
<1> HIDE DEF u, v, w
<1>4. v = w
  BY <1>2, <1>3
<1> QED
  BY <1>4 DEF u, v, w

LEMMA StrcpyMoves ==
  ASSUME NEW m \in Memory, NEW d \in Nat, NEW s \in 0 .. Cells-1, Ends(m, s),
         Room(d, strlen(m, s) + 1), Apart(d, s, strlen(m, s) + 1)
  PROVE  strcpy(m, d, s) = Moved(m, d, s, strlen(m, s) + 1)
<1> DEFINE k == strlen(m, s)
<1>1. Length(m, s, k)
  BY StrlenRight
<1>2. Room(d, k + 1) /\ Apart(d, s, k + 1)
  OBVIOUS
<1>3. strcpy(m, d, s) = Fill(CopyUp(m, d, s, k), d + k, 1, 0)
  BY DEF strcpy
<1> HIDE DEF k
<1>4. k \in Nat /\ s + k < Cells /\ m[s + k] = 0 /\ s \in Nat /\ Cells \in Nat
  BY <1>1, StringAssumption DEF Length
<1>5. Room(d, k) /\ Room(s, k) /\ (d <= s \/ s + k <= d)
  BY <1>2, <1>4 DEF Room, Apart
<1>6. CopyUp(m, d, s, k) = Moved(m, d, s, k)
  BY <1>4, <1>5, CopyUpRight
<1>7. strcpy(m, d, s) = Moved(m, d, s, k + 1)
  BY <1>3, <1>4, <1>6, ZeroMoves
<1> QED
  BY <1>7 DEF k

LEMMA StrcpyRight ==
  ASSUME NEW m \in Memory, NEW d \in Nat, NEW s \in 0 .. Cells-1, Ends(m, s),
         Room(d, strlen(m, s) + 1), Apart(d, s, strlen(m, s) + 1)
  PROVE  strcpy(m, d, s) = Copied(m, d, String(m, s))
<1>1. strlen(m, s) + 1 \in Nat
  BY StrlenRight DEF Length
<1> QED
  BY <1>1, StrcpyMoves, MovedBlock, StringBlock

LEMMA StrncpyRight ==
  ASSUME NEW m \in Memory, NEW d \in Nat, NEW s \in 0 .. Cells-1, NEW n \in Nat, Ends(m, s), Room(d, n),
         d + n <= s \/ s + strlen(m, s) < d
  PROVE  strncpy(m, d, s, n) = Copied(m, d, Padded(String(m, s), n))
<1> DEFINE l == strlen(m, s)
           k == IF l < n THEN l ELSE n
           b == String(m, s)
           t == Padded(b, n)
           u == Moved(m, d, s, k)
<1>1. Length(m, s, l)
  BY StrlenRight
<1>2. strncpy(m, d, s, n) = Fill(CopyUp(m, d, s, k), d + k, n - k, 0)
  BY DEF strncpy
<1>3. d + n <= s \/ s + l < d
  OBVIOUS
<1>4. l \in Nat
  BY <1>1 DEF Length
<1>5. Len(b) = l + 1 /\ \A i \in 1 .. l + 1 : b[i] = m[s + i - 1]
  <2>1. l + 1 \in Nat
    BY <1>4
  <2> QED
    BY <2>1, StringBlock, BlockLength
<1> HIDE DEF l, b
<1>6. l \in Nat /\ s + l < Cells /\ m[s + l] = 0 /\ s \in Nat /\ Cells \in Nat
  BY <1>1, StringAssumption DEF Length
<1>7. k \in Nat /\ k <= n /\ k <= l /\ (k = l \/ k = n)
  BY <1>4
<1> HIDE DEF k
<1>8. Room(d, k) /\ Room(s, k) /\ (d <= s \/ s + k <= d)
  BY <1>3, <1>6, <1>7 DEF Room
<1>9. CopyUp(m, d, s, k) = u
  BY <1>6, <1>7, <1>8, CopyUpRight
<1>10. Len(t) = n /\ \A i \in 1 .. n : t[i] = IF i <= l + 1 THEN m[s + i - 1] ELSE 0
  <2>1. t = [i \in 1 .. n |-> IF i <= l + 1 THEN b[i] ELSE 0]
    BY <1>5 DEF Padded
  <2>2. ASSUME NEW i \in 1 .. n PROVE t[i] = IF i <= l + 1 THEN m[s + i - 1] ELSE 0
    <3>1. t[i] = IF i <= l + 1 THEN b[i] ELSE 0
      BY <2>1
    <3>2. i <= l + 1 => i \in 1 .. l + 1
      BY <1>4
    <3> QED
      BY <3>1, <3>2, <1>5
  <2>3. Len(t) = n
    <3> HIDE DEF t
    <3> QED
      BY <2>1
  <2> QED
    BY <2>2, <2>3
<1> HIDE DEF t
<1>11. DOMAIN m = 0 .. Cells - 1 /\ DOMAIN u = DOMAIN m
  BY DEF Memory, Moved
<1> DEFINE v == Fill(u, d + k, n - k, 0)
           w == Copied(m, d, t)
<1>12. ASSUME NEW j \in DOMAIN m PROVE v[j] = w[j]
  <2>1. v[j] = IF j \in d + k .. d + k + (n - k) - 1 THEN 0 ELSE u[j]
    <3> HIDE DEF u
    <3> QED
      BY <1>11 DEF Fill
  <2>2. u[j] = IF j \in d .. d + k - 1 THEN m[s + (j - d)] ELSE m[j]
    BY DEF Moved
  <2>3. w[j] = IF j \in d .. d + n - 1 THEN t[j - d + 1] ELSE m[j]
    BY <1>10 DEF Copied
  <2>4. j \in Int
    BY <1>11, <1>6
  <2> HIDE DEF u, v, w
  <2>5. CASE j \in d .. d + k - 1
    <3>1. j - d + 1 \in 1 .. n /\ j - d + 1 <= l + 1 /\ s + (j - d + 1) - 1 = s + (j - d)
          /\ j \in d .. d + n - 1 /\ j \notin d + k .. d + k + (n - k) - 1
      BY <2>4, <2>5, <1>6, <1>7
    <3>2. t[j - d + 1] = m[s + (j - d)]
      BY <3>1, <1>10
    <3> QED
      BY <3>1, <3>2, <2>1, <2>2, <2>3, <2>5
  <2>6. CASE j \in d + k .. d + n - 1
    <3>1. j - d + 1 \in 1 .. n /\ j \in d .. d + n - 1 /\ j \in d + k .. d + k + (n - k) - 1 /\ k = l
      BY <2>4, <2>6, <1>6, <1>7
    <3>2. t[j - d + 1] = 0
      <4>1. CASE j - d + 1 <= l + 1
        <5>1. s + (j - d + 1) - 1 = s + l
          BY <4>1, <3>1, <2>4, <2>6, <1>6
        <5>2. t[j - d + 1] = m[s + (j - d + 1) - 1]
          BY <4>1, <3>1, <1>10
        <5> QED
          BY <5>1, <5>2, <1>6
      <4>2. CASE ~(j - d + 1 <= l + 1)
        BY <4>2, <3>1, <1>10
      <4> QED
        BY <4>1, <4>2
    <3> QED
      BY <3>1, <3>2, <2>1, <2>3
  <2>7. CASE j \notin d .. d + n - 1
    <3>1. j \notin d .. d + k - 1 /\ j \notin d + k .. d + k + (n - k) - 1
      BY <2>4, <2>7, <1>7
    <3> QED
      BY <3>1, <2>1, <2>2, <2>3, <2>7
  <2> QED
    BY <2>4, <2>5, <2>6, <2>7, <1>7
<1>13. v = [j \in DOMAIN m |-> v[j]] /\ w = [j \in DOMAIN m |-> w[j]]
  <2>1. v = [j \in DOMAIN m |-> v[j]]
    <3> HIDE DEF u
    <3> QED
      BY <1>11 DEF Fill
  <2>2. w = [j \in DOMAIN m |-> w[j]]
    BY DEF Copied
  <2> QED
    BY <2>1, <2>2
<1> HIDE DEF u, v, w
<1>14. v = w
  BY <1>12, <1>13
<1> QED
  BY <1>2, <1>9, <1>14 DEF v, w, t, b

(* A string after another: the first one loses its zero.                     *)
LEMMA StringSeq ==
  ASSUME NEW m \in Memory, NEW s \in 0 .. Cells-1, Ends(m, s)
  PROVE  /\ String(m, s) \in Seq(Nat) /\ Len(String(m, s)) = strlen(m, s) + 1
         /\ \A i \in 1 .. strlen(m, s) + 1 : String(m, s)[i] = m[s + i - 1]
         /\ strlen(m, s) \in Nat
<1> DEFINE l == strlen(m, s)
<1>1. Length(m, s, l)
  BY StrlenRight
<1>2. String(m, s) = [i \in 1 .. l + 1 |-> m[s + i - 1]]
  BY DEF String
<1> HIDE DEF l
<1>3. l \in Nat /\ s + l < Cells /\ Cells \in Nat /\ s \in Nat
  BY <1>1, StringAssumption DEF Length
<1>4. \A i \in 1 .. l + 1 : m[s + i - 1] \in Nat
  <2> SUFFICES ASSUME NEW i \in 1 .. l + 1 PROVE m[s + i - 1] \in Nat
    OBVIOUS
  <2>1. s + i - 1 \in 0 .. Cells - 1
    BY <1>3
  <2> QED
    BY <2>1, StringAssumption DEF Memory
<1>5. String(m, s) \in [1 .. l + 1 -> Nat] /\ l + 1 \in Nat
  <2>1. [i \in 1 .. l + 1 |-> m[s + i - 1]] \in [1 .. l + 1 -> Nat]
    BY <1>4
  <2>2. String(m, s) \in [1 .. l + 1 -> Nat]
    BY <2>1, <1>2, Zenon
  <2> QED
    BY <2>2, <1>3
<1>6. String(m, s) \in Seq(Nat) /\ Len(String(m, s)) = l + 1
  BY <1>5
<1> QED
  BY <1>2, <1>3, <1>6 DEF l

LEMMA StrcatRight ==
  ASSUME NEW m \in Memory, NEW d \in 0 .. Cells-1, NEW s \in 0 .. Cells-1, Ends(m, s), Ends(m, d),
         Room(d + strlen(m, d), strlen(m, s) + 1),
         d + strlen(m, d) + strlen(m, s) < s \/ s + strlen(m, s) < d
  PROVE  String(strcat(m, d, s), d) = Front(String(m, d)) \o String(m, s)
<1> DEFINE k == strlen(m, d)
           l == strlen(m, s)
           e == d + k
           x == strcat(m, d, s)
           p == String(m, d)
           q == String(m, s)
           z == String(x, d)
<1>1. Length(m, d, k) /\ Length(m, s, l)
  BY StrlenRight
<1>2. Room(e, l + 1) /\ (e + l < s \/ s + l < d)
  OBVIOUS
<1>3. x = strcpy(m, e, s)
  BY DEF strcat
<1>4. /\ p \in Seq(Nat) /\ Len(p) = k + 1 /\ \A i \in 1 .. k + 1 : p[i] = m[d + i - 1]
      /\ q \in Seq(Nat) /\ Len(q) = l + 1 /\ \A i \in 1 .. l + 1 : q[i] = m[s + i - 1]
  BY StringSeq
<1>5. /\ k \in Nat /\ d + k < Cells /\ m[d + k] = 0 /\ \A i \in 0 .. k-1 : m[d + i] # 0
      /\ l \in Nat /\ s + l < Cells /\ m[s + l] = 0 /\ \A i \in 0 .. l-1 : m[s + i] # 0
      /\ Cells \in Nat /\ d \in Nat /\ s \in Nat /\ DOMAIN m = 0 .. Cells-1
  BY <1>1, StringAssumption DEF Length, Memory
<1>6. x = Moved(m, e, s, l + 1)
  <2>1. e \in Nat /\ Apart(e, s, l + 1)
    BY <1>2, <1>5 DEF Apart
  <2> HIDE DEF e, x
  <2> QED
    BY <2>1, <1>2, <1>3, StrcpyMoves
<1> HIDE DEF k, l, p, q, x
<1>7. e + l + 1 <= Cells
  BY <1>2, <1>5 DEF Room
<1>8. /\ \A j \in d .. e - 1 : x[j] = m[j]
      /\ \A i \in 0 .. l : x[e + i] = m[s + i]
  <2>1. ASSUME NEW j \in d .. e - 1 PROVE x[j] = m[j]
    <3>1. j \in DOMAIN m /\ j \notin e .. e + (l + 1) - 1
      BY <1>5, <1>7
    <3> QED
      BY <3>1, <1>6 DEF Moved
  <2>2. ASSUME NEW i \in 0 .. l PROVE x[e + i] = m[s + i]
    <3>1. e + i \in DOMAIN m /\ e + i \in e .. e + (l + 1) - 1 /\ s + ((e + i) - e) = s + i
      BY <1>5, <1>7
    <3>2. x[e + i] = m[s + ((e + i) - e)]
      BY <3>1, <1>6 DEF Moved
    <3> QED
      BY <3>1, <3>2
  <2> QED
    BY <2>1, <2>2
<1>9. strlen(x, d) = k + l
  <2>1. x[d + (k + l)] = 0
    <3>1. d + (k + l) = e + l /\ l \in 0 .. l
      BY <1>5
    <3>2. x[e + l] = m[s + l]
      BY <3>1, <1>8
    <3> QED
      BY <3>1, <3>2, <1>5
  <2>2. ASSUME NEW i \in 0 .. (k + l) - 1 PROVE x[d + i] # 0
    <3>1. CASE i < k
      <4>1. d + i \in d .. e - 1 /\ i \in 0 .. k-1
        BY <3>1, <1>5
      <4> QED
        BY <4>1, <1>5, <1>8
    <3>2. CASE i >= k
      <4>1. d + i = e + (i - k) /\ i - k \in 0 .. l /\ i - k \in 0 .. l-1
        BY <3>2, <1>5
      <4>2. x[e + (i - k)] = m[s + (i - k)]
        BY <4>1, <1>8
      <4> QED
        BY <4>1, <4>2, <1>5
    <3> QED
      BY <3>1, <3>2, <1>5
  <2>3. k + l \in 0 .. Cells
    BY <1>5, <1>7
  <2> QED
    BY <2>1, <2>2, <2>3, <1>5, StrlenIs
<1>10. z = [i \in 1 .. (k + l) + 1 |-> x[d + i - 1]]
  BY <1>9 DEF String
<1> HIDE DEF z
<1> DEFINE g == Front(p)
           c == g \o q
<1>11. g \in Seq(Nat) /\ Len(g) = k /\ \A i \in 1 .. k : g[i] = m[d + i - 1]
  <2>1. g = SubSeq(p, 1, (k + 1) - 1)
    BY <1>4 DEF Front
  <2>2. (k + 1) - 1 = k
    BY <1>5
  <2>3. \A i \in 1 .. k : p[i] \in Nat
    BY <1>4, <1>5
  <2>4. /\ SubSeq(p, 1, k) \in Seq(Nat) /\ Len(SubSeq(p, 1, k)) = IF 1 <= k THEN k - 1 + 1 ELSE 0
        /\ \A i \in 1 .. k - 1 + 1 : SubSeq(p, 1, k)[i] = p[1 + i - 1]
    BY <2>3, <1>5, SubSeqProperties
  <2> HIDE DEF g
  <2>5. Len(g) = k
    BY <2>1, <2>2, <2>4, <1>5
  <2>6. ASSUME NEW i \in 1 .. k PROVE g[i] = m[d + i - 1]
    <3>1. i \in 1 .. k - 1 + 1 /\ 1 + i - 1 = i /\ i \in 1 .. k + 1
      BY <1>5
    <3> QED
      BY <3>1, <2>1, <2>2, <2>4, <1>4
  <2> QED
    BY <2>1, <2>2, <2>4, <2>5, <2>6
<1> HIDE DEF g
<1>12. /\ c \in Seq(Nat) /\ Len(c) = k + (l + 1)
       /\ \A i \in 1 .. k + (l + 1) : c[i] = IF i <= k THEN g[i] ELSE q[i - k]
  <2>1. /\ c \in Seq(Nat) /\ Len(c) = Len(g) + Len(q)
        /\ \A i \in 1 .. Len(g) + Len(q) : c[i] = IF i <= Len(g) THEN g[i] ELSE q[i - Len(g)]
    BY <1>4, <1>11, ConcatProperties
  <2> HIDE DEF c
  <2> QED
    BY <2>1, <1>4, <1>11
<1> HIDE DEF c
<1>13. ASSUME NEW i \in 1 .. k + (l + 1) PROVE x[d + i - 1] = c[i]
  <2>1. CASE i <= k
    <3>1. i \in 1 .. k /\ d + i - 1 \in d .. e - 1
      BY <2>1, <1>5
    <3> QED
      BY <3>1, <2>1, <1>8, <1>11, <1>12
  <2>2. CASE ~(i <= k)
    <3>1. i - k \in 1 .. l + 1 /\ i - k - 1 \in 0 .. l /\ d + i - 1 = e + (i - k - 1)
          /\ s + (i - k) - 1 = s + (i - k - 1)
      BY <2>2, <1>5
    <3>2. x[e + (i - k - 1)] = m[s + (i - k - 1)]
      BY <3>1, <1>8
    <3>3. q[i - k] = m[s + (i - k) - 1]
      BY <3>1, <1>4
    <3>4. c[i] = q[i - k]
      BY <2>2, <1>12
    <3> QED
      BY <3>1, <3>2, <3>3, <3>4
  <2> QED
    BY <2>1, <2>2
<1>14. c = [i \in 1 .. k + (l + 1) |-> c[i]]
  BY <1>12
<1>15. (k + l) + 1 = k + (l + 1)
  BY <1>5
<1>16. z = c
  BY <1>10, <1>13, <1>14, <1>15
<1> QED
  BY <1>16 DEF z, c, g, p, q, x

-----------------------------------------------------------------------------
(* The comparisons.  Each goes up from 0 to the first place where it stops,  *)
(* and answers what it finds there.                                          *)
Scan(f, n, stops, base) == [i \in 0 .. n |-> IF i \in stops THEN base[i] ELSE f[i+1]]

LEMMA ScanExists ==
  ASSUME NEW n \in Nat, NEW stops, n \in stops, NEW base, DOMAIN base = 0 .. n
  PROVE  \E f : f = Scan(f, n, stops, base)
<1> DEFINE D == 0 .. n
           V == {base[i] : i \in D}
           size == [i \in D |-> n - i]
           st == stops \cap D
           b == [i \in D |-> base[i]]
           nxt == [i \in D |-> i + 1]
           G == [i \in D |-> [v \in V |-> v]]
<1>1. Shrinks(D, V, size, st, b, nxt, G)
  <2>1. size \in [D -> Nat] /\ b \in [D -> V] /\ G \in [D -> [V -> V]]
    OBVIOUS
  <2>2. ASSUME NEW i \in D \ st PROVE nxt[i] \in D /\ size[nxt[i]] < size[i]
    <3>1. i + 1 \in D /\ n - (i + 1) < n - i
      OBVIOUS
    <3> QED
      BY <3>1
  <2> HIDE DEF size, b, G, st, nxt
  <2> QED
    BY <2>1, <2>2 DEF Shrinks
<1>2. \A i \in D : b[i] = base[i] /\ nxt[i] = i + 1
  OBVIOUS
<1>3. \A i \in D : \A v \in V : G[i][v] = v
  OBVIOUS
<1>4. \A i \in D : i \in st <=> i \in stops
  OBVIOUS
<1>5. n \in st
  OBVIOUS
<1> HIDE DEF size, b, nxt, G, st
<1>6. PICK f \in [D -> V] : \A i \in D : Unfolds(f, i, st, b, nxt, G)
  <2> HIDE DEF D, V
  <2> QED
    BY <1>1, Recursion
<1>7. ASSUME NEW i \in D PROVE f[i] = IF i \in stops THEN base[i] ELSE f[i+1]
  <2>1. f[i] = IF i \in st THEN b[i] ELSE G[i][f[nxt[i]]]
    BY <1>6 DEF Unfolds
  <2>2. i \notin st => i + 1 \in D
    BY <1>5
  <2>3. i + 1 \in D => f[i+1] \in V
    BY <1>6
  <2> HIDE DEF D, V
  <2> QED
    BY <2>1, <2>2, <2>3, <1>2, <1>3, <1>4
<1>8. f = [i \in D |-> f[i]]
  BY <1>6
<1> HIDE DEF V
<1>9. f = [i \in 0 .. n |-> IF i \in stops THEN base[i] ELSE f[i+1]]
  BY <1>7, <1>8
<1> QED
  BY <1>9 DEF Scan

LEMMA ScanStops ==
  ASSUME NEW n \in Nat, NEW stops, n \in stops, NEW base, NEW f, f = Scan(f, n, stops, base)
  PROVE  \E k \in 0 .. n : k \in stops /\ (\A j \in 0 .. k-1 : j \notin stops) /\ f[0] = base[k]
<1> DEFINE T == {i \in Nat : i \in stops}
<1>1. PICK k \in T : \A j \in T : k <= j
  <2>1. n \in T
    OBVIOUS
  <2> HIDE DEF T
  <2> QED
    BY <2>1, LeastNat DEF T
<1>2. k \in 0 .. n /\ k \in stops
  BY <1>1
<1>3. ASSUME NEW j \in 0 .. k-1 PROVE j \notin stops
  BY <1>1
<1>4. \A i \in 0 .. n : f[i] = IF i \in stops THEN base[i] ELSE f[i+1]
  <2>1. f = [i \in 0 .. n |-> IF i \in stops THEN base[i] ELSE f[i+1]]
    BY DEF Scan
  <2> QED
    BY <2>1
<1> DEFINE S == {i \in Nat : i <= k => f[i] = f[0]}
<1>5. 0 \in S
  OBVIOUS
<1>6. ASSUME NEW i \in Nat, i \in S PROVE i + 1 \in S
  <2> SUFFICES ASSUME i + 1 <= k PROVE f[i+1] = f[0]
    OBVIOUS
  <2>1. i \in 0 .. k-1 /\ i \in 0 .. n /\ i <= k
    BY <1>2
  <2> QED
    BY <2>1, <1>3, <1>4, <1>6
<1> HIDE DEF S
<1>7. k \in S
  <2>1. k \in Nat
    BY <1>2
  <2> QED
    BY <2>1, <1>5, <1>6, NatSteps
<1>8. f[0] = f[k]
  <2>1. k \in Nat /\ k <= k
    BY <1>2
  <2> QED
    BY <2>1, <1>7 DEF S
<1>9. f[k] = base[k]
  BY <1>2, <1>4
<1> QED
  BY <1>2, <1>3, <1>8, <1>9

(* A byte as a char: no two bytes are the same char.                         *)
LEMMA CharTells ==
  ASSUME NEW x \in 0 .. Chars-1, NEW y \in 0 .. Chars-1, x # y
  PROVE  /\ Sign(Char(x) - Char(y)) = IF Char(x) < Char(y) THEN -1 ELSE 1
         /\ Char(x) \in Int /\ Char(y) \in Int
<1>1. Chars \in Nat /\ Chars > 0 /\ Chars \div 2 \in Nat
  BY StringAssumption
<1> DEFINE h == Chars \div 2
           u == Char(x)
           v == Char(y)
<1>2. x \in Int /\ y \in Int /\ 0 <= x /\ x < Chars /\ 0 <= y /\ y < Chars
  BY <1>1
<1>3. /\ u = (IF SignedChar /\ x >= h THEN x - Chars ELSE x)
      /\ v = (IF SignedChar /\ y >= h THEN y - Chars ELSE y)
  BY DEF Char
<1> HIDE DEF h, u, v
<1>4. u \in Int /\ v \in Int /\ u # v
  <2>1. CASE SignedChar
    BY <2>1, <1>1, <1>2, <1>3
  <2>2. CASE ~SignedChar
    BY <2>2, <1>1, <1>2, <1>3
  <2> QED
    BY <2>1, <2>2
<1>5. Sign(u - v) = IF u < v THEN -1 ELSE 1
  BY <1>4 DEF Sign
<1> QED
  BY <1>4, <1>5 DEF u, v

(* The order of two strings of bytes: at the first place where they differ.  *)
LEMMA OrderDiffers ==
  ASSUME NEW a, NEW b, Len(a) \in Nat, NEW i \in 1 .. Len(a), i > Len(b) \/ a[i] # b[i],
         \A j \in 1 .. i-1 : ~(j > Len(b)) /\ a[j] = b[j]
  PROVE  Order(a, b) = IF Char(a[i]) < Char(b[i]) THEN -1 ELSE 1
<1> DEFINE stop == {j \in 1 .. Len(a) : j > Len(b) \/ a[j] # b[j]}
           least == CHOOSE k \in stop : \A j \in stop : k <= j
<1>1. i \in stop
  OBVIOUS
<1>2. ASSUME NEW j \in stop PROVE i <= j
  <2>1. j \in 1 .. Len(a) /\ (j > Len(b) \/ a[j] # b[j])
    OBVIOUS
  <2> HIDE DEF stop
  <2>2. ~(j < i)
    <3> SUFFICES ASSUME j < i PROVE FALSE
      OBVIOUS
    <3>1. j \in 1 .. i-1
      BY <2>1
    <3> QED
      BY <3>1, <2>1
  <2> QED
    BY <2>1, <2>2
<1>3. least = i
  <2>1. \A k \in stop : k \in Int
    OBVIOUS
  <2> HIDE DEF stop
  <2>2. \A k \in stop : (\A j \in stop : k <= j) => k = i
    BY <2>1, <1>1, <1>2
  <2> QED
    BY <2>2, <1>1, <1>2
<1>4. Order(a, b) = IF stop = {} THEN 0 ELSE IF Char(a[least]) < Char(b[least]) THEN -1 ELSE 1
  BY DEF Order
<1> HIDE DEF stop, least
<1>5. stop # {}
  BY <1>1
<1> QED
  BY <1>3, <1>4, <1>5

LEMMA OrderSame ==
  ASSUME NEW a, NEW b, \A j \in 1 .. Len(a) : ~(j > Len(b)) /\ a[j] = b[j]
  PROVE  Order(a, b) = 0
<1>1. {i \in 1 .. Len(a) : i > Len(b) \/ a[i] # b[i]} = {}
  OBVIOUS
<1> QED
  BY <1>1 DEF Order

LEMMA MemcmpRight ==
  ASSUME NEW m \in Memory, NEW a \in Nat, NEW b \in Nat, NEW n \in Nat, Room(a, n), Room(b, n)
  PROVE  Sign(memcmp(m, a, b, n)) = Order(Block(m, a, n), Block(m, b, n))
<1> DEFINE body(f) == [i \in 0 .. n |-> IF i = n THEN 0
                         ELSE IF m[a + i] # m[b + i] THEN Char(m[a + i]) - Char(m[b + i]) ELSE f[i+1]]
           c == CHOOSE f : f = body(f)
           stops == {i \in 0 .. n : i = n \/ m[a + i] # m[b + i]}
           base == [i \in 0 .. n |-> IF i = n THEN 0 ELSE Char(m[a + i]) - Char(m[b + i])]
           p == Block(m, a, n)
           q == Block(m, b, n)
<1>1. memcmp(m, a, b, n) = c[0]
  BY DEF memcmp
<1>2. \A f : body(f) = Scan(f, n, stops, base)
  BY DEF Scan
<1>3. n \in stops /\ DOMAIN base = 0 .. n
  OBVIOUS
<1>4. /\ \A i \in 0 .. n : i \in stops <=> (i = n \/ m[a + i] # m[b + i])
      /\ \A i \in 0 .. n : base[i] = IF i = n THEN 0 ELSE Char(m[a + i]) - Char(m[b + i])
  OBVIOUS
<1> HIDE DEF body, stops, base
<1>5. c = body(c)
  <2>1. \E f : f = Scan(f, n, stops, base)
    BY <1>3, ScanExists
  <2>2. \E f : f = body(f)
    BY <2>1, <1>2
  <2> QED
    BY <2>2
<1>6. c = Scan(c, n, stops, base)
  BY <1>2, <1>5
<1> HIDE DEF c
<1>7. PICK k \in 0 .. n : k \in stops /\ (\A j \in 0 .. k-1 : j \notin stops) /\ c[0] = base[k]
  BY <1>3, <1>6, ScanStops
<1>8. /\ Len(p) = n /\ \A i \in 1 .. n : p[i] = m[a + i - 1]
      /\ Len(q) = n /\ \A i \in 1 .. n : q[i] = m[b + i - 1]
  BY BlockLength
<1> HIDE DEF p, q
<1>9. ASSUME NEW j \in 1 .. k PROVE ~(j > Len(q)) /\ p[j] = q[j]
  <2>1. j - 1 \in 0 .. k-1 /\ j - 1 \in 0 .. n /\ j - 1 # n /\ j \in 1 .. n
        /\ a + (j - 1) = a + j - 1 /\ b + (j - 1) = b + j - 1
    BY <1>7
  <2>2. m[a + (j - 1)] = m[b + (j - 1)]
    BY <2>1, <1>4, <1>7
  <2> QED
    BY <2>1, <2>2, <1>8
<1>10. CASE k = n
  <2>1. c[0] = 0
    BY <1>4, <1>7, <1>10
  <2>2. Order(p, q) = 0
    BY <1>8, <1>9, <1>10, OrderSame
  <2> QED
    BY <2>1, <2>2, <1>1 DEF Sign, p, q
<1>11. CASE k # n
  <2>1. m[a + k] # m[b + k] /\ c[0] = Char(m[a + k]) - Char(m[b + k])
    BY <1>4, <1>7, <1>11
  <2>2. k + 1 \in 1 .. n /\ a + (k + 1) - 1 = a + k /\ b + (k + 1) - 1 = b + k
    BY <1>7, <1>11
  <2>3. p[k+1] = m[a + k] /\ q[k+1] = m[b + k]
    BY <2>2, <1>8
  <2>4. \A j \in 1 .. (k+1) - 1 : ~(j > Len(q)) /\ p[j] = q[j]
    <3>1. (k+1) - 1 = k
      OBVIOUS
    <3> QED
      BY <3>1, <1>9
  <2>5. Order(p, q) = IF Char(p[k+1]) < Char(q[k+1]) THEN -1 ELSE 1
    BY <2>1, <2>2, <2>3, <2>4, <1>8, OrderDiffers
  <2>6. m[a + k] \in 0 .. Chars-1 /\ m[b + k] \in 0 .. Chars-1
    <3>1. a + k \in 0 .. Cells-1 /\ b + k \in 0 .. Cells-1
      BY <2>2, StringAssumption DEF Room
    <3> QED
      BY <3>1 DEF Memory
  <2>7. Sign(c[0]) = IF Char(m[a + k]) < Char(m[b + k]) THEN -1 ELSE 1
    BY <2>1, <2>6, CharTells
  <2> QED
    BY <2>3, <2>5, <2>7, <1>1 DEF p, q
<1> QED
  BY <1>10, <1>11

(* Two strings that agree, without a zero, below k reach at least to k.      *)
LEMMA LengthAtLeast ==
  ASSUME NEW m, NEW s, NEW l, Length(m, s, l), NEW k \in Nat, \A j \in 0 .. k-1 : m[s + j] # 0
  PROVE  k <= l
<1> SUFFICES ASSUME l < k PROVE FALSE
  BY DEF Length
<1>1. l \in 0 .. k-1
  BY DEF Length
<1> QED
  BY <1>1 DEF Length

LEMMA StrcmpRight ==
  ASSUME NEW m \in Memory, NEW a \in 0 .. Cells-1, NEW b \in 0 .. Cells-1, Ends(m, a), Ends(m, b)
  PROVE  Sign(strcmp(m, a, b)) = Order(String(m, a), String(m, b))
<1> DEFINE n == strlen(m, a)
           l == strlen(m, b)
           body(f) == [i \in 0 .. n |-> IF m[a + i] = m[b + i] THEN IF m[a + i] = 0 THEN 0 ELSE f[i+1]
                                        ELSE Char(m[a + i]) - Char(m[b + i])]
           c == CHOOSE f : f = body(f)
           stops == {i \in 0 .. n : m[a + i] # m[b + i] \/ m[a + i] = 0}
           base == [i \in 0 .. n |-> IF m[a + i] = m[b + i] THEN 0 ELSE Char(m[a + i]) - Char(m[b + i])]
           p == String(m, a)
           q == String(m, b)
<1>1. strcmp(m, a, b) = c[0]
  BY DEF strcmp
<1>2. \A f : body(f) = Scan(f, n, stops, base)
  BY DEF Scan
<1>3. Length(m, a, n) /\ Length(m, b, l)
  BY StrlenRight
<1>4. /\ Len(p) = n + 1 /\ \A i \in 1 .. n + 1 : p[i] = m[a + i - 1]
      /\ Len(q) = l + 1 /\ \A i \in 1 .. l + 1 : q[i] = m[b + i - 1]
  BY StringSeq
<1> HIDE DEF n, l, p, q
<1>5. /\ n \in Nat /\ a + n < Cells /\ m[a + n] = 0 /\ \A i \in 0 .. n-1 : m[a + i] # 0
      /\ l \in Nat /\ b + l < Cells /\ Cells \in Nat /\ a \in Nat /\ b \in Nat
  BY <1>3, StringAssumption DEF Length
<1>6. n \in stops /\ DOMAIN base = 0 .. n
  <2>1. n \in 0 .. n
    BY <1>5
  <2> QED
    BY <2>1, <1>5
<1>7. /\ \A i \in 0 .. n : i \in stops <=> (m[a + i] # m[b + i] \/ m[a + i] = 0)
      /\ \A i \in 0 .. n : base[i] = IF m[a + i] = m[b + i] THEN 0 ELSE Char(m[a + i]) - Char(m[b + i])
  OBVIOUS
<1> HIDE DEF body, stops, base
<1>8. c = body(c)
  <2>1. \E f : f = Scan(f, n, stops, base)
    BY <1>5, <1>6, ScanExists
  <2>2. \E f : f = body(f)
    BY <2>1, <1>2
  <2> QED
    BY <2>2
<1>9. c = Scan(c, n, stops, base)
  BY <1>2, <1>8
<1> HIDE DEF c
<1>10. PICK k \in 0 .. n : k \in stops /\ (\A j \in 0 .. k-1 : j \notin stops) /\ c[0] = base[k]
  BY <1>5, <1>6, <1>9, ScanStops
<1>11. k \in Nat /\ k <= n
  BY <1>5
<1>12. \A j \in 0 .. k-1 : m[a + j] = m[b + j] /\ m[b + j] # 0
  <2> SUFFICES ASSUME NEW j \in 0 .. k-1 PROVE m[a + j] = m[b + j] /\ m[b + j] # 0
    OBVIOUS
  <2>1. j \in 0 .. n
    BY <1>5, <1>11
  <2> QED
    BY <2>1, <1>7, <1>10
<1>13. k <= l
  BY <1>3, <1>11, <1>12, LengthAtLeast
<1>14. ASSUME NEW j \in 1 .. k PROVE ~(j > Len(q)) /\ p[j] = q[j]
  <2>1. j - 1 \in 0 .. k-1 /\ j \in 1 .. n + 1 /\ j \in 1 .. l + 1
        /\ a + (j - 1) = a + j - 1 /\ b + (j - 1) = b + j - 1
    BY <1>5, <1>11, <1>13
  <2>2. m[a + (j - 1)] = m[b + (j - 1)]
    BY <2>1, <1>12
  <2> QED
    BY <2>1, <2>2, <1>4, <1>5
<1>15. /\ k + 1 \in 1 .. n + 1 /\ k + 1 \in 1 .. l + 1 /\ a + (k + 1) - 1 = a + k /\ b + (k + 1) - 1 = b + k
  BY <1>5, <1>11, <1>13
<1>16. p[k+1] = m[a + k] /\ q[k+1] = m[b + k]
  BY <1>4, <1>15
<1>17. CASE m[a + k] = m[b + k]
  <2>1. m[a + k] = 0 /\ c[0] = 0
    BY <1>7, <1>10, <1>17
  <2>2. k = n
    <3> SUFFICES ASSUME k # n PROVE FALSE
      OBVIOUS
    <3>1. k \in 0 .. n-1
      BY <1>5, <1>11
    <3> QED
      BY <3>1, <2>1, <1>5
  <2>3. ASSUME NEW j \in 1 .. Len(p) PROVE ~(j > Len(q)) /\ p[j] = q[j]
    <3>1. j \in 1 .. k \/ j = k + 1
      BY <2>2, <1>4, <1>5
    <3>2. CASE j = k + 1
      BY <3>2, <1>4, <1>5, <1>15, <1>16, <1>17
    <3> QED
      BY <3>1, <3>2, <1>14
  <2>4. Order(p, q) = 0
    BY <2>3, OrderSame
  <2> QED
    BY <2>1, <2>4, <1>1 DEF Sign, p, q
<1>18. CASE m[a + k] # m[b + k]
  <2>1. c[0] = Char(m[a + k]) - Char(m[b + k])
    BY <1>7, <1>10, <1>18
  <2>2. \A j \in 1 .. (k+1) - 1 : ~(j > Len(q)) /\ p[j] = q[j]
    <3>1. (k+1) - 1 = k
      BY <1>11
    <3> QED
      BY <3>1, <1>14
  <2>3. Len(p) \in Nat /\ k + 1 \in 1 .. Len(p) /\ p[k+1] # q[k+1]
    BY <1>4, <1>5, <1>15, <1>16, <1>18
  <2>4. Order(p, q) = IF Char(p[k+1]) < Char(q[k+1]) THEN -1 ELSE 1
    BY <2>2, <2>3, OrderDiffers
  <2>5. m[a + k] \in 0 .. Chars-1 /\ m[b + k] \in 0 .. Chars-1
    <3>1. a + k \in 0 .. Cells-1 /\ b + k \in 0 .. Cells-1
      BY <1>5, <1>11, <1>13
    <3> QED
      BY <3>1 DEF Memory
  <2>6. Sign(c[0]) = IF Char(m[a + k]) < Char(m[b + k]) THEN -1 ELSE 1
    BY <2>1, <2>5, <1>18, CharTells
  <2> QED
    BY <2>4, <2>6, <1>1, <1>16 DEF p, q
<1> QED
  BY <1>17, <1>18

LEMMA FirstOfIs ==
  ASSUME NEW t \in Seq(Nat), NEW n \in Nat
  PROVE  /\ Len(FirstOf(t, n)) = IF Len(t) <= n THEN Len(t) ELSE n
         /\ \A i \in 1 .. Len(t) : i <= n => FirstOf(t, n)[i] = t[i]
<1>1. CASE Len(t) <= n
  BY <1>1 DEF FirstOf
<1>2. CASE ~(Len(t) <= n)
  <2>1. Len(t) \in Nat /\ n <= Len(t) /\ FirstOf(t, n) = SubSeq(t, 1, n)
    BY <1>2 DEF FirstOf
  <2>2. \A i \in 1 .. n : t[i] \in Nat
    BY <2>1
  <2>3. /\ Len(SubSeq(t, 1, n)) = IF 1 <= n THEN n - 1 + 1 ELSE 0
        /\ \A i \in 1 .. n - 1 + 1 : SubSeq(t, 1, n)[i] = t[1 + i - 1]
    BY <2>2, SubSeqProperties
  <2>4. n - 1 + 1 = n /\ \A i \in 1 .. n : 1 + i - 1 = i
    OBVIOUS
  <2>5. \A i \in 1 .. n : SubSeq(t, 1, n)[i] = t[i]
    BY <2>3, <2>4
  <2> QED
    BY <2>1, <2>3, <2>5, <1>2
<1> QED
  BY <1>1, <1>2

LEMMA StrncmpRight ==
  ASSUME NEW m \in Memory, NEW a \in 0 .. Cells-1, NEW b \in 0 .. Cells-1, NEW n \in Nat,
         Ends(m, a), Ends(m, b)
  PROVE  Sign(strncmp(m, a, b, n)) = Order(FirstOf(String(m, a), n), FirstOf(String(m, b), n))
<1> DEFINE h == strlen(m, a)
           l == strlen(m, b)
           body(f) == [i \in 0 .. n |-> IF i < n /\ m[a + i] = m[b + i] THEN IF m[a + i] = 0 THEN 0 ELSE f[i+1]
                                        ELSE IF i = n THEN 0 ELSE Char(m[a + i]) - Char(m[b + i])]
           c == CHOOSE f : f = body(f)
           stops == {i \in 0 .. n : i = n \/ m[a + i] # m[b + i] \/ m[a + i] = 0}
           base == [i \in 0 .. n |-> IF i = n \/ m[a + i] = m[b + i] THEN 0
                                     ELSE Char(m[a + i]) - Char(m[b + i])]
           p == String(m, a)
           q == String(m, b)
           x == FirstOf(p, n)
           y == FirstOf(q, n)
<1>1. strncmp(m, a, b, n) = c[0]
  <2>1. Null \notin {a, b}
    BY DEF Null
  <2> QED
    BY <2>1 DEF strncmp
<1>2. \A f : body(f) = Scan(f, n, stops, base)
  <2>1. \A i \in 0 .. n : i < n <=> i # n
    OBVIOUS
  <2> QED
    BY <2>1 DEF Scan
<1>3. Length(m, a, h) /\ Length(m, b, l)
  BY StrlenRight
<1>4. /\ p \in Seq(Nat) /\ Len(p) = h + 1 /\ \A i \in 1 .. h + 1 : p[i] = m[a + i - 1]
      /\ q \in Seq(Nat) /\ Len(q) = l + 1 /\ \A i \in 1 .. l + 1 : q[i] = m[b + i - 1]
  BY StringSeq
<1> HIDE DEF h, l, p, q
<1>5. /\ h \in Nat /\ a + h < Cells /\ m[a + h] = 0 /\ \A i \in 0 .. h-1 : m[a + i] # 0
      /\ l \in Nat /\ b + l < Cells /\ Cells \in Nat /\ a \in Nat /\ b \in Nat
  BY <1>3, StringAssumption DEF Length
<1>6. n \in stops /\ DOMAIN base = 0 .. n
  OBVIOUS
<1>7. /\ \A i \in 0 .. n : i \in stops <=> (i = n \/ m[a + i] # m[b + i] \/ m[a + i] = 0)
      /\ \A i \in 0 .. n : base[i] = IF i = n \/ m[a + i] = m[b + i] THEN 0
                                     ELSE Char(m[a + i]) - Char(m[b + i])
  OBVIOUS
<1> HIDE DEF body, stops, base
<1>8. c = body(c)
  <2>1. \E f : f = Scan(f, n, stops, base)
    BY <1>6, ScanExists
  <2>2. \E f : f = body(f)
    BY <2>1, <1>2
  <2> QED
    BY <2>2
<1>9. c = Scan(c, n, stops, base)
  BY <1>2, <1>8
<1> HIDE DEF c
<1>10. PICK k \in 0 .. n : k \in stops /\ (\A j \in 0 .. k-1 : j \notin stops) /\ c[0] = base[k]
  BY <1>6, <1>9, ScanStops
<1>11. k \in Nat /\ k <= n
  OBVIOUS
<1>12. \A j \in 0 .. k-1 : m[a + j] = m[b + j] /\ m[b + j] # 0 /\ m[a + j] # 0
  <2> SUFFICES ASSUME NEW j \in 0 .. k-1 PROVE m[a + j] = m[b + j] /\ m[b + j] # 0 /\ m[a + j] # 0
    OBVIOUS
  <2>1. j \in 0 .. n
    BY <1>11
  <2> QED
    BY <2>1, <1>7, <1>10
<1>13. k <= l /\ k <= h
  BY <1>3, <1>11, <1>12, LengthAtLeast
<1>14. /\ Len(x) = (IF h + 1 <= n THEN h + 1 ELSE n) /\ \A i \in 1 .. h + 1 : i <= n => x[i] = m[a + i - 1]
       /\ Len(y) = (IF l + 1 <= n THEN l + 1 ELSE n) /\ \A i \in 1 .. l + 1 : i <= n => y[i] = m[b + i - 1]
  <2>1. /\ Len(x) = (IF Len(p) <= n THEN Len(p) ELSE n) /\ \A i \in 1 .. Len(p) : i <= n => x[i] = p[i]
        /\ Len(y) = (IF Len(q) <= n THEN Len(q) ELSE n) /\ \A i \in 1 .. Len(q) : i <= n => y[i] = q[i]
    BY <1>4, FirstOfIs
  <2> HIDE DEF x, y
  <2> QED
    BY <2>1, <1>4
<1> HIDE DEF x, y
<1>15. ASSUME NEW j \in 1 .. k PROVE ~(j > Len(y)) /\ x[j] = y[j]
  <2>1. j - 1 \in 0 .. k-1 /\ j \in 1 .. h + 1 /\ j \in 1 .. l + 1 /\ j <= n
        /\ a + (j - 1) = a + j - 1 /\ b + (j - 1) = b + j - 1
    BY <1>5, <1>11, <1>13
  <2>2. m[a + (j - 1)] = m[b + (j - 1)]
    BY <2>1, <1>12
  <2>3. ~(j > Len(y))
    BY <2>1, <1>5, <1>14
  <2> QED
    BY <2>1, <2>2, <2>3, <1>14
<1>16. CASE k = n
  <2>1. c[0] = 0
    BY <1>7, <1>10, <1>16
  <2>2. Len(x) = k
    BY <1>5, <1>13, <1>14, <1>16
  <2>3. Order(x, y) = 0
    BY <2>2, <1>15, OrderSame
  <2> QED
    BY <2>1, <2>3, <1>1 DEF Sign, x, y, p, q
<1>17. CASE k # n
  <2>1. /\ k + 1 \in 1 .. h + 1 /\ k + 1 \in 1 .. l + 1 /\ k + 1 <= n
        /\ a + (k + 1) - 1 = a + k /\ b + (k + 1) - 1 = b + k
    BY <1>5, <1>11, <1>13, <1>17
  <2>2. x[k+1] = m[a + k] /\ y[k+1] = m[b + k] /\ ~(k + 1 > Len(y)) /\ k + 1 \in 1 .. Len(x) /\ Len(x) \in Nat
    <3>1. x[k+1] = m[a + k] /\ y[k+1] = m[b + k]
      BY <2>1, <1>14
    <3>2. ~(k + 1 > Len(y)) /\ k + 1 \in 1 .. Len(x) /\ Len(x) \in Nat
      BY <2>1, <1>5, <1>11, <1>14
    <3> QED
      BY <3>1, <3>2
  <2>3. CASE m[a + k] = m[b + k]
    <3>1. m[a + k] = 0 /\ c[0] = 0
      BY <2>3, <1>7, <1>10, <1>17
    <3>2. k = h
      <4> SUFFICES ASSUME k # h PROVE FALSE
        OBVIOUS
      <4>1. k \in 0 .. h-1
        BY <1>5, <1>11, <1>13
      <4> QED
        BY <4>1, <3>1, <1>5
    <3>3. Len(x) = k + 1
      BY <3>2, <2>1, <1>14
    <3>4. ASSUME NEW j \in 1 .. Len(x) PROVE ~(j > Len(y)) /\ x[j] = y[j]
      <4>1. j \in 1 .. k \/ j = k + 1
        BY <3>3, <1>11
      <4> QED
        BY <4>1, <1>15, <2>2, <2>3
    <3>5. Order(x, y) = 0
      BY <3>4, OrderSame
    <3> QED
      BY <3>1, <3>5, <1>1 DEF Sign, x, y, p, q
  <2>4. CASE m[a + k] # m[b + k]
    <3>1. c[0] = Char(m[a + k]) - Char(m[b + k])
      BY <2>4, <1>7, <1>10, <1>17
    <3>2. \A j \in 1 .. (k+1) - 1 : ~(j > Len(y)) /\ x[j] = y[j]
      <4>1. (k+1) - 1 = k
        BY <1>11
      <4> QED
        BY <4>1, <1>15
    <3>3. Order(x, y) = IF Char(x[k+1]) < Char(y[k+1]) THEN -1 ELSE 1
      BY <3>2, <2>2, <2>4, OrderDiffers
    <3>4. m[a + k] \in 0 .. Chars-1 /\ m[b + k] \in 0 .. Chars-1
      <4>1. a + k \in 0 .. Cells-1 /\ b + k \in 0 .. Cells-1
        BY <1>5, <1>11, <1>13
      <4> QED
        BY <4>1 DEF Memory
    <3>5. Sign(c[0]) = IF Char(m[a + k]) < Char(m[b + k]) THEN -1 ELSE 1
      BY <3>1, <3>4, <2>4, CharTells
    <3> QED
      BY <3>3, <3>5, <2>2, <1>1 DEF x, y, p, q
  <2> QED
    BY <2>3, <2>4
<1> QED
  BY <1>16, <1>17

-----------------------------------------------------------------------------
(* The arguments the memory functions are called with.                       *)
LEMMA StringArguments ==
  ASSUME Calls, call.fn \in CopyFns \cup StrFns
  PROVE  /\ call.m \in Memory /\ call.d \in 0 .. Cells-1 /\ call.s \in 0 .. Cells-1 /\ call.n \in 0 .. Cells-1
         /\ call.d \in Nat /\ call.s \in Nat /\ call.n \in Nat
         /\ LegalString(call)
<1>1. /\ call.m \in Memory /\ call.d \in 0 .. Cells-1 /\ call.s \in 0 .. Cells-1 /\ call.n \in 0 .. Cells-1
      /\ LegalString(call)
  BY DEF Calls, CopyFns, StrFns
<1> QED
  BY <1>1, StringAssumption

(* The memory functions leave exactly the promised bytes, wherever the two   *)
(* buffers of memmove overlap, and a comparison tells equal from unequal and *)
(* orders strings as their chars: for every memory and every size of a byte. *)
THEOREM StringsRightHolds == Spec => []StringsRight
<1>1. CallInv => StringsRight
  <2> SUFFICES ASSUME CallInv, pc = "done", call.fn \in CopyFns \cup StrFns PROVE StringsRight
    BY DEF StringsRight
  <2>0. Calls /\ ~Dividing /\ out = Result(call)
    BY DEF CallInv, Dividing, CopyFns, StrFns
  <2>a. /\ call.m \in Memory /\ call.d \in 0 .. Cells-1 /\ call.s \in 0 .. Cells-1 /\ call.n \in 0 .. Cells-1
        /\ call.d \in Nat /\ call.s \in Nat /\ call.n \in Nat
        /\ LegalString(call)
    BY <2>0, StringArguments
  <2>1. CASE call.fn = "memmove"
    <3>1. out = memmove(call.m, call.d, call.s, call.n)
      BY <2>0, <2>1 DEF Result
    <3>2. Room(call.d, call.n) /\ Room(call.s, call.n)
      BY <2>a, <2>1 DEF LegalString
    <3>3. out = Copied(call.m, call.d, Block(call.m, call.s, call.n))
      BY <2>a, <3>1, <3>2, MoveRight
    <3> QED
      BY <2>1, <3>3 DEF StringsRight
  <2>2. CASE call.fn = "memcpy"
    <3>1. out = memcpy(call.m, call.d, call.s, call.n)
      BY <2>0, <2>2 DEF Result
    <3>2. Room(call.d, call.n) /\ Room(call.s, call.n) /\ Apart(call.d, call.s, call.n)
      BY <2>a, <2>2 DEF LegalString
    <3>3. out = Copied(call.m, call.d, Block(call.m, call.s, call.n))
      BY <2>a, <3>1, <3>2, MemcpyRight
    <3> QED
      BY <2>2, <3>3 DEF StringsRight
  <2>3. CASE call.fn = "memset"
    <3>1. out = memset(call.m, call.d, call.s, call.n)
      BY <2>0, <2>3 DEF Result
    <3>2. Room(call.d, call.n)
      BY <2>a, <2>3 DEF LegalString
    <3>3. out = Copied(call.m, call.d, [i \in 1 .. call.n |-> call.s])
      BY <2>a, <3>1, <3>2, MemsetRight
    <3> QED
      BY <2>3, <3>3 DEF StringsRight
  <2>4. CASE call.fn = "memcmp"
    <3>1. out = memcmp(call.m, call.d, call.s, call.n)
      BY <2>0, <2>4 DEF Result
    <3>2. Room(call.d, call.n) /\ Room(call.s, call.n)
      BY <2>a, <2>4 DEF LegalString
    <3>3. Sign(out) = Order(Block(call.m, call.d, call.n), Block(call.m, call.s, call.n))
      BY <2>a, <3>1, <3>2, MemcmpRight
    <3> QED
      BY <2>4, <3>3 DEF StringsRight
  <2>5. CASE call.fn = "strcpy"
    <3>1. out = strcpy(call.m, call.d, call.s)
      BY <2>0, <2>5 DEF Result
    <3>2. /\ Ends(call.m, call.s) /\ Room(call.d, strlen(call.m, call.s) + 1)
          /\ Apart(call.d, call.s, strlen(call.m, call.s) + 1)
      BY <2>a, <2>5 DEF LegalString
    <3>3. out = Copied(call.m, call.d, String(call.m, call.s))
      BY <2>a, <3>1, <3>2, StrcpyRight
    <3> QED
      BY <2>5, <3>3 DEF StringsRight
  <2>6. CASE call.fn = "strncpy"
    <3>1. out = strncpy(call.m, call.d, call.s, call.n)
      BY <2>0, <2>6 DEF Result
    <3>2. /\ Ends(call.m, call.s) /\ Room(call.d, call.n)
          /\ call.d + call.n <= call.s \/ call.s + strlen(call.m, call.s) < call.d
      BY <2>a, <2>6 DEF LegalString
    <3>3. out = Copied(call.m, call.d, Padded(String(call.m, call.s), call.n))
      BY <2>a, <3>1, <3>2, StrncpyRight
    <3> QED
      BY <2>6, <3>3 DEF StringsRight
  <2>7. CASE call.fn = "strcat"
    <3>1. out = strcat(call.m, call.d, call.s)
      BY <2>0, <2>7 DEF Result
    <3>2. /\ Ends(call.m, call.s) /\ Ends(call.m, call.d)
          /\ Room(call.d + strlen(call.m, call.d), strlen(call.m, call.s) + 1)
          /\ \/ call.d + strlen(call.m, call.d) + strlen(call.m, call.s) < call.s
             \/ call.s + strlen(call.m, call.s) < call.d
      BY <2>a, <2>7 DEF LegalString
    <3>3. String(out, call.d) = Front(String(call.m, call.d)) \o String(call.m, call.s)
      BY <2>a, <3>1, <3>2, StrcatRight
    <3> QED
      BY <2>7, <3>3 DEF StringsRight
  <2>8. CASE call.fn = "strcmp"
    <3>1. out = strcmp(call.m, call.d, call.s)
      BY <2>0, <2>8 DEF Result
    <3>2. Ends(call.m, call.s) /\ Ends(call.m, call.d)
      BY <2>a, <2>8 DEF LegalString
    <3>3. Sign(out) = Order(String(call.m, call.d), String(call.m, call.s))
      BY <2>a, <3>1, <3>2, StrcmpRight
    <3> QED
      BY <2>8, <3>3 DEF StringsRight
  <2>9. CASE call.fn = "strncmp"
    <3>1. out = strncmp(call.m, call.d, call.s, call.n)
      BY <2>0, <2>9 DEF Result
    <3>2. Ends(call.m, call.s) /\ Ends(call.m, call.d)
      BY <2>a, <2>9 DEF LegalString
    <3>3. Sign(out) = Order(FirstOf(String(call.m, call.d), call.n), FirstOf(String(call.m, call.s), call.n))
      BY <2>a, <3>1, <3>2, StrncmpRight
    <3> QED
      BY <2>9, <3>3 DEF StringsRight
  <2> QED
    BY <2>1, <2>2, <2>3, <2>4, <2>5, <2>6, <2>7, <2>8, <2>9 DEF CopyFns, StrFns
<1> QED
  BY <1>1, CallInvHolds, PTL

-----------------------------------------------------------------------------
(* Decimals.  The digits of a number below ten are its own, and those of     *)
(* another are those of its tenth and one more.                              *)
Alphabet ==   \* the characters of formats and texts, and those printf adds
    (UNION {Range(t) : t \in Formats \cup Texts}) \cup {DigitChars[d] : d \in 1 .. 10} \cup {"-", "?", "nul"}
Strings == Seq(Alphabet)

LEMMA Digits10 ==
  /\ DigitChars[1] = "0" /\ DigitChars[2] = "1" /\ DigitChars[3] = "2" /\ DigitChars[4] = "3"
  /\ DigitChars[5] = "4" /\ DigitChars[6] = "5" /\ DigitChars[7] = "6" /\ DigitChars[8] = "7"
  /\ DigitChars[9] = "8" /\ DigitChars[10] = "9"
  /\ \A d \in 1 .. 10 : d \in {1, 2, 3, 4, 5, 6, 7, 8, 9, 10}
BY DEF DigitChars

LEMMA DigitTyped == \A d \in 1 .. 10 : DigitChars[d] \in Alphabet
<1> SUFFICES ASSUME NEW d \in 1 .. 10 PROVE DigitChars[d] \in Alphabet
  OBVIOUS
<1>1. DigitChars[d] \in {DigitChars[e] : e \in 1 .. 10}
  OBVIOUS
<1> DEFINE A == UNION {Range(t) : t \in Formats \cup Texts}
           B == {DigitChars[e] : e \in 1 .. 10}
           C == {"-", "?", "nul"}
<1>2. Alphabet = (A \cup B) \cup C
  BY DEF Alphabet
<1> HIDE DEF A, B, C
<1> QED
  BY <1>1, <1>2 DEF B

LEMMA DigitDistinct ==
  ASSUME NEW d \in 1 .. 10, NEW e \in 1 .. 10, DigitChars[d] = DigitChars[e]
  PROVE  d = e
BY Digits10

LEMMA DigitNotSpace == \A d \in 1 .. 10 : DigitChars[d] # " "
BY Digits10

LastDigit(n) == DigitChars[(n % 10) + 1]
Tenth(n) == n \div 10

LEMMA Tenths ==
  ASSUME NEW n \in Nat
  PROVE  /\ Tenth(n) \in Nat /\ LastDigit(n) \in Alphabet
         /\ n # 0 => Tenth(n) < n
         /\ n < 10 => Tenth(n) = 0 /\ LastDigit(n) = DigitChars[n+1]
         /\ n >= 10 => Tenth(n) # 0
<1>1. n % 10 \in 0 .. 9 /\ n \div 10 \in Nat /\ n = 10 * (n \div 10) + (n % 10)
  OBVIOUS
<1>2. LastDigit(n) \in Alphabet
  BY <1>1, DigitTyped DEF LastDigit
<1>3. n < 10 => n \div 10 = 0 /\ n % 10 = n
  BY <1>1
<1> QED
  BY <1>1, <1>2, <1>3 DEF Tenth, LastDigit

LEMMA OneChar ==
  ASSUME NEW c \in Alphabet, NEW s \in Strings
  PROVE  <<c>> \in Strings /\ s \o <<c>> \in Strings /\ <<c>> \o s \in Strings /\ <<>> \in Strings
<1>0. s \in Seq(Alphabet)
  BY DEF Strings
<1>1. <<c>> \in Seq(Alphabet) /\ <<>> \in Seq(Alphabet)
  OBVIOUS
<1>2. s \o <<c>> \in Seq(Alphabet) /\ <<c>> \o s \in Seq(Alphabet)
  BY <1>0, <1>1, ConcatProperties
<1> QED
  BY <1>1, <1>2 DEF Strings

LEMMA DecimalUnfolds ==
  \A n \in Nat : Decimal[n] = IF n < 10 THEN <<DigitChars[n+1]>> ELSE Decimal[Tenth(n)] \o <<LastDigit(n)>>
<1> DEFINE V == Strings
           size == [n \in Nat |-> n]
           base == [n \in Nat |-> IF n < 10 THEN <<DigitChars[n+1]>> ELSE <<>>]
           nxt == [n \in Nat |-> Tenth(n)]
           G == [n \in Nat |-> [v \in V |-> v \o <<LastDigit(n)>>]]
           body(f) == [n \in Nat |-> IF n < 10 THEN <<DigitChars[n+1]>>
                                     ELSE f[Tenth(n)] \o <<LastDigit(n)>>]
<1>1. base \in [Nat -> V]
  <2> SUFFICES ASSUME NEW n \in Nat PROVE (IF n < 10 THEN <<DigitChars[n+1]>> ELSE <<>>) \in V
    OBVIOUS
  <2>1. n < 10 => DigitChars[n+1] \in Alphabet
    BY DigitTyped
  <2> QED
    BY <2>1 DEF Strings
<1>2. G \in [Nat -> [V -> V]]
  <2>1. \A n \in Nat, v \in V : v \o <<LastDigit(n)>> \in V
    BY Tenths, OneChar
  <2> QED
    BY <2>1
<1>3. \A n \in Nat : nxt[n] = Tenth(n) /\ size[n] = n /\ base[n] = IF n < 10 THEN <<DigitChars[n+1]>> ELSE <<>>
  OBVIOUS
<1>4. \A n \in Nat : \A v \in V : G[n][v] = v \o <<LastDigit(n)>>
  OBVIOUS
<1>5. size \in [Nat -> Nat]
  OBVIOUS
<1> HIDE DEF size, base, nxt, G, V
<1>6. \A n \in Nat \ (0 .. 9) : nxt[n] \in Nat /\ size[nxt[n]] < size[n]
  <2> SUFFICES ASSUME NEW n \in Nat, n # 0 PROVE nxt[n] \in Nat /\ size[nxt[n]] < size[n]
    OBVIOUS
  <2>1. Tenth(n) \in Nat /\ Tenth(n) < n
    BY Tenths
  <2>2. nxt[n] = Tenth(n) /\ size[n] = n /\ size[Tenth(n)] = Tenth(n)
    BY <2>1, <1>3
  <2> QED
    BY <2>1, <2>2
<1>7. Shrinks(Nat, V, size, 0 .. 9, base, nxt, G)
  BY <1>1, <1>2, <1>5, <1>6 DEF Shrinks
<1>8. PICK f \in [Nat -> V] : \A n \in Nat : Unfolds(f, n, 0 .. 9, base, nxt, G)
  BY <1>7, Recursion
<1>9. ASSUME NEW n \in Nat
      PROVE  f[n] = IF n < 10 THEN <<DigitChars[n+1]>> ELSE f[Tenth(n)] \o <<LastDigit(n)>>
  <2>1. f[n] = IF n \in 0 .. 9 THEN base[n] ELSE G[n][f[nxt[n]]]
    BY <1>8 DEF Unfolds
  <2>2. f[Tenth(n)] \in V
    BY Tenths
  <2>3. n \in 0 .. 9 <=> n < 10
    OBVIOUS
  <2> QED
    BY <2>1, <2>2, <2>3, <1>3, <1>4
<1>10. f = body(f)
  BY <1>9
<1>11. Decimal = CHOOSE g : g = body(g)
  BY DEF Decimal, Tenth, LastDigit
<1>12. Decimal = body(Decimal)
  <2> HIDE DEF body
  <2> QED
    BY <1>10, <1>11
<1> QED
  BY <1>12

LEMMA DecimalText == \A n \in Nat : Decimal[n] \in Strings
<1> DEFINE S == {n \in Nat : \A k \in Nat : k < n => Decimal[k] \in Strings}
<1>1. 0 \in S
  OBVIOUS
<1>2. ASSUME NEW n \in Nat, n \in S PROVE n + 1 \in S
  <2>1. Decimal[n] \in Strings
    <3>1. CASE n < 10
      <4>1. Decimal[n] = <<DigitChars[n+1]>> /\ n + 1 \in 1 .. 10
        <5>1. Decimal[n] = IF n < 10 THEN <<DigitChars[n+1]>> ELSE Decimal[Tenth(n)] \o <<LastDigit(n)>>
          BY DecimalUnfolds
        <5>2. n + 1 \in 1 .. 10
          BY <3>1
        <5> QED
          BY <5>1, <5>2, <3>1
      <4>2. DigitChars[n+1] \in Alphabet
        BY <4>1, DigitTyped
      <4> QED
        BY <4>1, <4>2 DEF Strings
    <3>2. CASE ~(n < 10)
      <4>1. Tenth(n) \in Nat /\ Tenth(n) < n /\ LastDigit(n) \in Alphabet
        BY <3>2, Tenths
      <4>2. Decimal[Tenth(n)] \in Strings
        BY <4>1, <1>2
      <4>3. Decimal[Tenth(n)] \o <<LastDigit(n)>> \in Strings
        BY <4>1, <4>2, OneChar
      <4> QED
        BY <4>3, <3>2, DecimalUnfolds
    <3> QED
      BY <3>1, <3>2
  <2>2. \A k \in Nat : k < n + 1 => k < n \/ k = n
    OBVIOUS
  <2> QED
    BY <1>2, <2>1, <2>2
<1>3. Nat \subseteq S
  <2> HIDE DEF S
  <2> QED
    BY <1>1, <1>2, NatSteps
<1>4. ASSUME NEW n \in Nat PROVE Decimal[n] \in Strings
  <2>1. n + 1 \in S /\ n < n + 1
    BY <1>3
  <2> QED
    BY <2>1
<1> QED
  BY <1>4

(* Digits finds the decimal from its end.                                    *)
Top == 2 * IntMax + 1

LEMMA Ints == IntMin \in Int /\ IntMax \in Nat /\ IntMin = -(IntMax + 1) /\ Top \in Nat
BY PrintAssumption DEF Top

LEMMA DigitsUnfolds ==
  \A n \in 0 .. Top : Digits[n] = IF n = 0 THEN <<>> ELSE <<LastDigit(n)>> \o Digits[Tenth(n)]
<1> DEFINE D == 0 .. Top
           V == Strings
           size == [n \in D |-> n]
           base == [n \in D |-> <<>>]
           nxt == [n \in D |-> Tenth(n)]
           G == [n \in D |-> [v \in V |-> <<LastDigit(n)>> \o v]]
           body(f) == [n \in D |-> IF n = 0 THEN <<>> ELSE <<LastDigit(n)>> \o f[Tenth(n)]]
<1>0. \A n \in D : n \in Nat /\ Tenth(n) \in D
  <2> SUFFICES ASSUME NEW n \in D PROVE n \in Nat /\ Tenth(n) \in D
    OBVIOUS
  <2>1. n \in Nat /\ Top \in Nat /\ n <= Top
    BY Ints
  <2>2. Tenth(n) \in Nat /\ (n # 0 => Tenth(n) < n) /\ (n < 10 => Tenth(n) = 0)
    BY <2>1, Tenths
  <2> QED
    BY <2>1, <2>2
<1>1. base \in [D -> V]
  <2>1. <<>> \in V
    BY DEF Strings
  <2> QED
    BY <2>1
<1>2. G \in [D -> [V -> V]]
  <2>1. \A n \in D, v \in V : <<LastDigit(n)>> \o v \in V
    BY <1>0, Tenths, OneChar
  <2> QED
    BY <2>1
<1>3. \A n \in D : nxt[n] = Tenth(n) /\ size[n] = n /\ base[n] = <<>>
  OBVIOUS
<1>4. \A n \in D : \A v \in V : G[n][v] = <<LastDigit(n)>> \o v
  OBVIOUS
<1>5. size \in [D -> Nat]
  BY <1>0
<1> HIDE DEF size, base, nxt, G, V
<1>6. \A n \in D \ {0} : nxt[n] \in D /\ size[nxt[n]] < size[n]
  <2> SUFFICES ASSUME NEW n \in D, n # 0 PROVE nxt[n] \in D /\ size[nxt[n]] < size[n]
    OBVIOUS
  <2>1. Tenth(n) \in D /\ Tenth(n) < n
    BY <1>0, Tenths
  <2>2. nxt[n] = Tenth(n) /\ size[n] = n /\ size[Tenth(n)] = Tenth(n)
    BY <2>1, <1>3
  <2> QED
    BY <2>1, <2>2
<1>7. Shrinks(D, V, size, {0}, base, nxt, G)
  <2> HIDE DEF D
  <2> QED
    BY <1>1, <1>2, <1>5, <1>6 DEF Shrinks
<1>8. PICK f \in [D -> V] : \A n \in D : Unfolds(f, n, {0}, base, nxt, G)
  <2> HIDE DEF D
  <2> QED
    BY <1>7, Recursion
<1>9. ASSUME NEW n \in D
      PROVE  f[n] = IF n = 0 THEN <<>> ELSE <<LastDigit(n)>> \o f[Tenth(n)]
  <2>1. f[n] = IF n \in {0} THEN base[n] ELSE G[n][f[nxt[n]]]
    BY <1>8 DEF Unfolds
  <2>2. f[Tenth(n)] \in V
    BY <1>0
  <2> QED
    BY <2>1, <2>2, <1>3, <1>4
<1>10. f = body(f)
  BY <1>9
<1>11. Digits = CHOOSE g : g = body(g)
  BY DEF Digits, Tenth, LastDigit, Top
<1>12. Digits = body(Digits)
  <2> HIDE DEF body
  <2> QED
    BY <1>10, <1>11
<1> QED
  BY <1>12

LEMMA ReverseText ==
  ASSUME NEW s \in Strings
  PROVE  /\ Reverse(s) \in Strings /\ Len(Reverse(s)) = Len(s) /\ Len(s) \in Nat
         /\ \A i \in 1 .. Len(s) : Reverse(s)[i] = s[(Len(s) - i) + 1]
<1>0. s \in Seq(Alphabet)
  BY DEF Strings
<1>1. Len(s) \in Nat /\ \A i \in 1 .. Len(s) : s[i] \in Alphabet
  BY <1>0
<1> DEFINE n == Len(s)
<1>2. \A i \in 1 .. n : (n - i) + 1 \in 1 .. n
  BY <1>1
<1>3. Reverse(s) = [i \in 1 .. n |-> s[(n - i) + 1]]
  BY DEF Reverse
<1> HIDE DEF n
<1>4. Reverse(s) \in [1 .. n -> Alphabet]
  BY <1>1, <1>2, <1>3 DEF n
<1>5. n \in Nat
  BY <1>1 DEF n
<1>6. Reverse(s) \in Seq(Alphabet) /\ Len(Reverse(s)) = n
  BY <1>3, <1>4, <1>5
<1> QED
  BY <1>3, <1>5, <1>6 DEF Strings, n

LEMMA ReverseCons ==
  ASSUME NEW c \in Alphabet, NEW s \in Strings
  PROVE  Reverse(<<c>> \o s) = Reverse(s) \o <<c>>
<1> DEFINE t == <<c>> \o s
           a == Reverse(t)
           b == Reverse(s) \o <<c>>
           n == Len(s)
<1>0. s \in Seq(Alphabet) /\ <<c>> \in Seq(Alphabet) /\ Len(<<c>>) = 1
  BY DEF Strings
<1>1. t \in Strings /\ Len(t) = 1 + n /\ n \in Nat
      /\ \A i \in 1 .. 1 + n : t[i] = IF i <= 1 THEN <<c>>[i] ELSE s[i - 1]
  <2>1. t \in Seq(Alphabet) /\ Len(t) = Len(<<c>>) + n
        /\ \A i \in 1 .. Len(<<c>>) + n : t[i] = IF i <= Len(<<c>>) THEN <<c>>[i] ELSE s[i - Len(<<c>>)]
    BY <1>0, ConcatProperties
  <2> QED
    BY <1>0, <2>1 DEF Strings
<1>2. a \in Strings /\ Len(a) = 1 + n /\ \A i \in 1 .. 1 + n : a[i] = t[((1 + n) - i) + 1]
  <2> HIDE DEF t, n
  <2> QED
    BY <1>1, ReverseText, ZenonT(30)
<1>3. Reverse(s) \in Seq(Alphabet) /\ Len(Reverse(s)) = n
      /\ \A i \in 1 .. n : Reverse(s)[i] = s[(n - i) + 1]
  BY ReverseText DEF Strings
<1>4. b \in Seq(Alphabet) /\ Len(b) = n + 1
      /\ \A i \in 1 .. n + 1 : b[i] = IF i <= n THEN Reverse(s)[i] ELSE <<c>>[i - n]
  <2> DEFINE r == Reverse(s)
  <2> HIDE DEF r
  <2>1. r \in Seq(Alphabet) /\ Len(r) = n
    BY <1>3 DEF r
  <2>2. /\ r \o <<c>> \in Seq(Alphabet) /\ Len(r \o <<c>>) = Len(r) + Len(<<c>>)
        /\ \A i \in 1 .. Len(r) + Len(<<c>>) : (r \o <<c>>)[i] = IF i <= Len(r) THEN r[i] ELSE <<c>>[i - Len(r)]
    BY <2>1, <1>0, ConcatProperties
  <2> QED
    BY <2>1, <2>2, <1>0 DEF r
<1>5. <<c>>[1] = c
  OBVIOUS
<1> HIDE DEF a, b, n, t
<1>6. ASSUME NEW i \in 1 .. n + 1 PROVE a[i] = b[i]
  <2>1. a[i] = t[(n + 2) - i] /\ (n + 2) - i \in 1 .. 1 + n
    BY <1>1, <1>2
  <2>2. CASE i = n + 1
    BY <2>1, <2>2, <1>1, <1>4, <1>5
  <2>3. CASE i <= n
    <3>1. a[i] = s[(n + 1) - i]
      BY <2>1, <2>3, <1>1
    <3>2. b[i] = s[(n - i) + 1]
      BY <2>3, <1>1, <1>3, <1>4
    <3> QED
      BY <3>1, <3>2, <1>1
  <2> QED
    BY <2>2, <2>3, <1>1
<1>7. a \in Seq(Alphabet) /\ Len(a) = Len(b) /\ Len(a) = n + 1
  BY <1>1, <1>2, <1>4 DEF Strings
<1>8. a = b
  BY <1>4, <1>6, <1>7, SeqEqual
<1> QED
  BY <1>8 DEF a, b, t

LEMMA ReversedDigits ==
  \A n \in 0 .. Top : Digits[n] \in Strings /\ (n # 0 => Reverse(Digits[n]) = Decimal[n])
<1> DEFINE Good(n) == Digits[n] \in Strings /\ (n # 0 => Reverse(Digits[n]) = Decimal[n])
           S == {n \in Nat : \A k \in Nat : k < n /\ k <= Top => Good(k)}
<1>1. 0 \in S
  OBVIOUS
<1>2. ASSUME NEW n \in Nat, n \in S PROVE n + 1 \in S
  <2>1. ASSUME n <= Top PROVE Good(n)
    <3>0. n \in 0 .. Top
      BY <2>1, Ints
    <3>1. CASE n = 0
      <4>1. Digits[n] = <<>>
        BY <3>0, <3>1, DigitsUnfolds
      <4> QED
        BY <4>1, <3>1 DEF Strings
    <3>2. CASE n # 0
      <4> DEFINE k == Tenth(n)
                 c == LastDigit(n)
      <4>1. k \in Nat /\ k < n /\ k <= Top /\ c \in Alphabet
        BY <3>0, <3>2, Tenths, Ints
      <4>2. Good(k)
        BY <4>1, <1>2
      <4>3. Digits[n] = <<c>> \o Digits[k]
        BY <3>0, <3>2, DigitsUnfolds
      <4> HIDE DEF k, c
      <4>4. Digits[n] \in Strings
        BY <4>1, <4>2, <4>3, OneChar
      <4>5. Reverse(Digits[n]) = Reverse(Digits[k]) \o <<c>>
        BY <4>1, <4>2, <4>3, ReverseCons
      <4>6. CASE n < 10
        <5>1. k = 0 /\ c = DigitChars[n+1]
          BY <4>6, Tenths DEF k, c
        <5>2. Digits[k] = <<>>
          <6>1. 0 \in 0 .. Top
            BY Ints
          <6>2. Digits[0] = <<>>
            BY <6>1, DigitsUnfolds
          <6> QED
            BY <5>1, <6>2
        <5>3. Reverse(Digits[k]) \o <<c>> = <<c>>
          <6>1. Reverse(<<>>) \in Strings /\ Len(Reverse(<<>>)) = 0
            <7>1. <<>> \in Strings /\ Len(<<>>) = 0
              BY DEF Strings
            <7> QED
              BY <7>1, ReverseText
          <6>2. Reverse(<<>>) = <<>>
            BY <6>1 DEF Strings
          <6>3. <<c>> \in Seq(Alphabet)
            BY <4>1
          <6>4. <<>> \o <<c>> = <<c>>
            BY <6>3, ConcatEmptySeq
          <6> QED
            BY <5>2, <6>2, <6>4
        <5>4. Decimal[n] = <<DigitChars[n+1]>>
          BY <4>6, DecimalUnfolds
        <5> QED
          BY <5>1, <5>3, <5>4, <4>4, <4>5
      <4>7. CASE ~(n < 10)
        <5>1. k # 0
          BY <4>7, Tenths DEF k
        <5>2. Reverse(Digits[k]) = Decimal[k]
          BY <5>1, <4>2
        <5>3. Decimal[n] = Decimal[k] \o <<c>>
          BY <4>7, DecimalUnfolds DEF k, c
        <5> QED
          BY <5>2, <5>3, <4>4, <4>5
      <4> QED
        BY <4>6, <4>7
    <3> QED
      BY <3>1, <3>2
  <2> HIDE DEF Good
  <2>2. \A k \in Nat : k < n + 1 => k < n \/ k = n
    OBVIOUS
  <2> QED
    BY <1>2, <2>1, <2>2
<1>3. Nat \subseteq S
  <2> HIDE DEF S
  <2> QED
    BY <1>1, <1>2, NatSteps
<1>4. ASSUME NEW n \in 0 .. Top PROVE Good(n)
  <2>1. n \in Nat /\ n + 1 \in S /\ n < n + 1 /\ n <= Top
    BY <1>3, Ints
  <2> HIDE DEF Good
  <2> QED
    BY <2>1
<1> QED
  BY <1>4

LEMMA UintRight ==
  ASSUME NEW n \in 0 .. Top
  PROVE  uint_to_str(n) = Decimal[n]
<1>1. CASE n = 0
  <2>1. Decimal[0] = <<"0">>
    <3>1. Decimal[0] = IF 0 < 10 THEN <<DigitChars[0+1]>> ELSE Decimal[Tenth(0)] \o <<LastDigit(0)>>
      BY DecimalUnfolds
    <3>2. 0 < 10 /\ 0 + 1 = 1
      OBVIOUS
    <3> HIDE DEF DigitChars
    <3> QED
      BY <3>1, <3>2, Digits10
  <2> QED
    BY <1>1, <2>1 DEF uint_to_str
<1>2. CASE n # 0
  BY <1>2, ReversedDigits DEF uint_to_str
<1> QED
  BY <1>1, <1>2

LEMMA IntRight ==
  ASSUME NEW n \in IntMin .. IntMax
  PROVE  int_to_str(n) = Shown([kind |-> "d", value |-> n])
<1>0. n \in Int /\ n >= IntMin /\ n <= IntMax
  BY Ints
<1>1. Shown([kind |-> "d", value |-> n]) = (IF n < 0 THEN <<"-">> ELSE <<>>) \o Decimal[abs(n)]
  BY DEF Shown
<1>2. CASE n = IntMin
  <2>1. n < 0 /\ abs(n) = -IntMin
    BY <1>2, Ints DEF abs
  <2> QED
    BY <1>1, <1>2, <2>1, LiteralAssumption DEF int_to_str
<1>3. CASE n # IntMin /\ n < 0
  <2>1. abs(n) = -n /\ -n \in 0 .. Top /\ -n # 0
    BY <1>0, <1>3, Ints DEF abs, Top
  <2>2. Reverse(Digits[-n]) = Decimal[-n]
    BY <2>1, ReversedDigits
  <2>3. int_to_str(n) = <<"-">> \o Reverse(Digits[-n])
    BY <1>3 DEF int_to_str
  <2> QED
    BY <1>1, <1>3, <2>1, <2>2, <2>3
<1>4. CASE n # IntMin /\ ~(n < 0)
  <2>1. abs(n) = n /\ n \in 0 .. Top /\ n \in Nat
    BY <1>0, <1>4, Ints DEF abs, Top
  <2>2. int_to_str(n) = uint_to_str(n)
    BY <1>4 DEF int_to_str
  <2>3. Decimal[n] \in Seq(Alphabet)
    BY <2>1, DecimalText DEF Strings
  <2>4. <<>> \o Decimal[n] = Decimal[n]
    BY <2>3, ConcatEmptySeq
  <2> QED
    BY <1>1, <1>4, <2>1, <2>2, <2>4, UintRight
<1> QED
  BY <1>2, <1>3, <1>4

(* atoi passes the blank and reads the digits of the decimal up: what it has *)
(* read when a decimal of m is behind it is m.                               *)
DigitValues(d) == DigitValue(DigitChars[d]) = d - 1 /\ IsDigit(DigitChars[d])

LEMMA DigitRead == \A d \in 1 .. 10 : DigitValues(d)
<1> SUFFICES ASSUME NEW d \in 1 .. 10 PROVE DigitValues(d)
  OBVIOUS
<1> DEFINE c == DigitChars[d]
           e == CHOOSE k \in 1 .. 10 : DigitChars[k] = c
<1>1. e \in 1 .. 10 /\ DigitChars[e] = c
  OBVIOUS
<1>2. e = d
  BY <1>1, DigitDistinct
<1>3. DigitValue(c) = e - 1
  BY DEF DigitValue
<1>4. IsDigit(c)
  BY DEF IsDigit
<1> QED
  BY <1>2, <1>3, <1>4 DEF DigitValues

LEMMA SpaceNoDigit == ~IsDigit(" ")
BY DigitNotSpace DEF IsDigit

Reads(text, n, f) ==
  f = [i \in 1 .. n + 1 |-> [x \in Int |->
         IF i <= n /\ IsDigit(text[i]) THEN f[i + 1][x * 10 + DigitValue(text[i])] ELSE x]]
Skips(text, n, f) ==
  f = [i \in 1 .. n + 1 |-> IF i <= n /\ text[i] = " " THEN f[i + 1] ELSE i]

LEMMA SkipsExists ==
  ASSUME NEW text, NEW n \in Nat
  PROVE  \E f : Skips(text, n, f)
<1> DEFINE D == 1 .. n + 1
           V == D
           size == [i \in D |-> (n + 1) - i]
           stops == {i \in D : ~(i <= n /\ text[i] = " ")}
           base == [i \in D |-> i]
           nxt == [i \in D |-> i + 1]
           G == [i \in D |-> [v \in V |-> v]]
<1>1. size \in [D -> Nat] /\ base \in [D -> V] /\ G \in [D -> [V -> V]]
  OBVIOUS
<1>2. \A i \in D : size[i] = (n + 1) - i /\ base[i] = i /\ nxt[i] = i + 1
  OBVIOUS
<1>3. \A i \in D : \A v \in V : G[i][v] = v
  OBVIOUS
<1>4. \A i \in D : i \notin stops <=> (i <= n /\ text[i] = " ")
  OBVIOUS
<1> HIDE DEF size, stops, base, nxt, G
<1>5. ASSUME NEW i \in D \ stops PROVE nxt[i] \in D /\ size[nxt[i]] < size[i]
  <2>0. i \in D /\ i \notin stops
    OBVIOUS
  <2>2. i <= n
    <3> HIDE DEF D
    <3> QED
      BY <2>0, <1>4
  <2>1. i \in D /\ i <= n /\ i + 1 \in D
    BY <2>0, <2>2
  <2> QED
    BY <2>1, <1>2
<1>6. Shrinks(D, V, size, stops, base, nxt, G)
  <2> HIDE DEF D
  <2> QED
    BY <1>1, <1>5 DEF Shrinks
<1>7. PICK f \in [D -> V] : \A i \in D : Unfolds(f, i, stops, base, nxt, G)
  <2> HIDE DEF D
  <2> QED
    BY <1>6, Recursion
<1>8. ASSUME NEW i \in D
      PROVE  f[i] = IF i <= n /\ text[i] = " " THEN f[i + 1] ELSE i
  <2>1. f[i] = IF i \in stops THEN base[i] ELSE G[i][f[nxt[i]]]
    BY <1>7 DEF Unfolds
  <2>2. i <= n => i + 1 \in D
    OBVIOUS
  <2>3. CASE i <= n /\ text[i] = " "
    <3>1. i \notin stops /\ nxt[i] = i + 1 /\ i + 1 \in D
      BY <2>3, <2>2, <1>2, <1>4
    <3>2. f[i + 1] \in V
      <4> HIDE DEF D, V
      <4> QED
        BY <3>1, <1>7
    <3> HIDE DEF D, V
    <3>3. G[i][f[i + 1]] = f[i + 1]
      BY <3>2, <1>3
    <3> QED
      BY <2>1, <2>3, <3>1, <3>3
  <2>4. CASE ~(i <= n /\ text[i] = " ")
    <3>1. i \in stops /\ base[i] = i
      BY <2>4, <1>2, <1>4
    <3> QED
      BY <2>1, <2>4, <3>1
  <2> QED
    BY <2>3, <2>4
<1>9. f = [i \in D |-> f[i]]
  BY <1>7
<1> HIDE DEF V
<1>10. f = [i \in D |-> IF i <= n /\ text[i] = " " THEN f[i + 1] ELSE i]
  BY <1>8, <1>9
<1> QED
  BY <1>10 DEF Skips

LEMMA ReadsExists ==
  ASSUME NEW text, NEW n \in Nat
  PROVE  \E f : Reads(text, n, f)
<1> DEFINE D == 1 .. n + 1
           V == [Int -> Int]
           dig == [i \in D |-> IF i <= n /\ IsDigit(text[i]) THEN DigitValue(text[i]) ELSE 0]
           size == [i \in D |-> (n + 1) - i]
           stops == {i \in D : ~(i <= n /\ IsDigit(text[i]))}
           base == [i \in D |-> [x \in Int |-> x]]
           nxt == [i \in D |-> i + 1]
           G == [i \in D |-> [v \in V |-> [x \in Int |-> v[x * 10 + dig[i]]]]]
<1>0. \A i \in D : dig[i] \in Int
  <2> SUFFICES ASSUME NEW i \in D PROVE dig[i] \in Int
    OBVIOUS
  <2>1. ASSUME IsDigit(text[i]) PROVE DigitValue(text[i]) \in Int
    <3>1. PICK d \in 1 .. 10 : DigitChars[d] = text[i]
      BY <2>1 DEF IsDigit
    <3>2. DigitValue(text[i]) = d - 1
      BY <3>1, DigitRead DEF DigitValues
    <3> QED
      BY <3>2
  <2> QED
    BY <2>1
<1>1. \A i \in D : i <= n /\ IsDigit(text[i]) => dig[i] = DigitValue(text[i])
  OBVIOUS
<1> HIDE DEF dig
<1>2. size \in [D -> Nat] /\ base \in [D -> V] /\ G \in [D -> [V -> V]]
  <2>1. size \in [D -> Nat] /\ base \in [D -> V]
    OBVIOUS
  <2>2. \A i \in D, x \in Int : x * 10 + dig[i] \in Int
    BY <1>0
  <2>3. \A i \in D, v \in V : [x \in Int |-> v[x * 10 + dig[i]]] \in V
    BY <2>2
  <2> QED
    BY <2>1, <2>3
<1>3. \A i \in D : size[i] = (n + 1) - i /\ base[i] = [x \in Int |-> x] /\ nxt[i] = i + 1
  OBVIOUS
<1>4. \A i \in D : \A v \in V : G[i][v] = [x \in Int |-> v[x * 10 + dig[i]]]
  OBVIOUS
<1>5. \A i \in D : i \notin stops <=> (i <= n /\ IsDigit(text[i]))
  OBVIOUS
<1> HIDE DEF size, stops, base, nxt, G
<1>6. ASSUME NEW i \in D \ stops PROVE nxt[i] \in D /\ size[nxt[i]] < size[i]
  <2>0. i \in D /\ i \notin stops
    OBVIOUS
  <2>2. i <= n
    <3> HIDE DEF D
    <3> QED
      BY <2>0, <1>5
  <2>1. i \in D /\ i <= n /\ i + 1 \in D
    BY <2>0, <2>2
  <2>3. nxt[i] = i + 1 /\ size[i] = (n + 1) - i /\ size[i + 1] = (n + 1) - (i + 1)
    <3> HIDE DEF D, V
    <3> QED
      BY <2>1, <1>3
  <2> QED
    BY <2>1, <2>3
<1>7. Shrinks(D, V, size, stops, base, nxt, G)
  <2> HIDE DEF D, V
  <2> QED
    BY <1>2, <1>6 DEF Shrinks
<1>8. PICK f \in [D -> V] : \A i \in D : Unfolds(f, i, stops, base, nxt, G)
  <2> HIDE DEF D, V
  <2> QED
    BY <1>7, Recursion
<1>9. ASSUME NEW i \in D
      PROVE  f[i] = [x \in Int |-> IF i <= n /\ IsDigit(text[i])
                                    THEN f[i + 1][x * 10 + DigitValue(text[i])] ELSE x]
  <2>1. f[i] = IF i \in stops THEN base[i] ELSE G[i][f[nxt[i]]]
    BY <1>8 DEF Unfolds
  <2>2. CASE i \in stops
    <3>1. f[i] = [x \in Int |-> x]
      BY <2>1, <2>2, <1>3
    <3> QED
      BY <3>1, <2>2, <1>5
  <2>3. CASE i \notin stops
    <3>1. i <= n /\ IsDigit(text[i]) /\ dig[i] = DigitValue(text[i])
      BY <2>3, <1>5, <1>1
    <3>2. i + 1 \in D /\ f[i + 1] \in V
      <4>1. i + 1 \in D
        BY <3>1
      <4> HIDE DEF D, V
      <4> QED
        BY <4>1, <1>8
    <3>3. f[i] = G[i][f[i + 1]]
      BY <2>1, <2>3, <1>3
    <3>4. f[i] = [x \in Int |-> f[i + 1][x * 10 + dig[i]]]
      BY <3>2, <3>3, <1>4
    <3> QED
      BY <3>1, <3>4
  <2> QED
    BY <2>2, <2>3
<1>10. f = [i \in D |-> f[i]]
  BY <1>8
<1> HIDE DEF V
<1>11. f = [i \in D |-> [x \in Int |-> IF i <= n /\ IsDigit(text[i])
                                    THEN f[i + 1][x * 10 + DigitValue(text[i])] ELSE x]]
  BY <1>9, <1>10
<1> QED
  BY <1>11 DEF Reads

\* The decimal of m stands in a text of n characters behind the place o.
Stands(text, n, o, m) ==
  /\ o \in Nat /\ o + Len(Decimal[m]) <= n
  /\ \A j \in 1 .. Len(Decimal[m]) : text[o + j] = Decimal[m][j]

LEMMA DecimalParts ==
  ASSUME NEW m \in Nat, m >= 10
  PROVE  /\ Len(Decimal[m]) = Len(Decimal[Tenth(m)]) + 1 /\ Len(Decimal[Tenth(m)]) \in Nat
         /\ \A j \in 1 .. Len(Decimal[Tenth(m)]) : Decimal[m][j] = Decimal[Tenth(m)][j]
         /\ Decimal[m][Len(Decimal[m])] = LastDigit(m)
<1> DEFINE a == Decimal[Tenth(m)]
           c == <<LastDigit(m)>>
<1>1. a \in Seq(Alphabet) /\ c \in Seq(Alphabet) /\ Len(c) = 1 /\ c[1] = LastDigit(m)
  <2>1. Tenth(m) \in Nat /\ LastDigit(m) \in Alphabet
    BY Tenths
  <2> QED
    BY <2>1, DecimalText DEF Strings
<1>2. Decimal[m] = a \o c
  <2>1. Decimal[m] = IF m < 10 THEN <<DigitChars[m+1]>> ELSE Decimal[Tenth(m)] \o <<LastDigit(m)>>
    BY DecimalUnfolds
  <2>2. ~(m < 10)
    OBVIOUS
  <2> QED
    BY <2>1, <2>2
<1> HIDE DEF a, c
<1>3. /\ Len(a \o c) = Len(a) + 1 /\ Len(a) \in Nat
      /\ \A j \in 1 .. Len(a) + Len(c) : (a \o c)[j] = IF j <= Len(a) THEN a[j] ELSE c[j - Len(a)]
  <2>1. /\ Len(a \o c) = Len(a) + Len(c)
        /\ \A j \in 1 .. Len(a) + Len(c) : (a \o c)[j] = IF j <= Len(a) THEN a[j] ELSE c[j - Len(a)]
    BY <1>1, ConcatProperties
  <2>2. Len(a) \in Nat
    BY <1>1
  <2> QED
    BY <1>1, <2>1, <2>2
<1>4. (a \o c)[Len(a) + 1] = c[1]
  BY <1>1, <1>3
<1>5. \A j \in 1 .. Len(a) : (a \o c)[j] = a[j]
  BY <1>1, <1>3
<1> QED
  BY <1>1, <1>2, <1>3, <1>4, <1>5 DEF a

LEMMA LastDigitRead ==
  ASSUME NEW m \in Nat
  PROVE  IsDigit(LastDigit(m)) /\ Tenth(m) * 10 + DigitValue(LastDigit(m)) = m
<1>1. m % 10 \in 0 .. 9 /\ m \div 10 \in Int /\ m = 10 * (m \div 10) + (m % 10)
  OBVIOUS
<1>2. DigitValues((m % 10) + 1)
  BY <1>1, DigitRead
<1>3. DigitValue(LastDigit(m)) = m % 10 /\ IsDigit(LastDigit(m))
  BY <1>1, <1>2 DEF DigitValues, LastDigit
<1> QED
  BY <1>1, <1>3 DEF Tenth

LEMMA ReadsOne ==
  ASSUME NEW text, NEW n \in Nat, NEW f, Reads(text, n, f), NEW i \in 1 .. n, NEW x \in Int,
         NEW c, text[i] = c, IsDigit(c), NEW y, y = x * 10 + DigitValue(c)
  PROVE  f[i][x] = f[i + 1][y]
<1>1. f[i] = [z \in Int |-> IF i <= n /\ IsDigit(text[i])
                            THEN f[i + 1][z * 10 + DigitValue(text[i])] ELSE z]
  <2>1. i \in 1 .. n + 1
    OBVIOUS
  <2>2. f = [k \in 1 .. n + 1 |-> [z \in Int |->
              IF k <= n /\ IsDigit(text[k]) THEN f[k + 1][z * 10 + DigitValue(text[k])] ELSE z]]
    BY DEF Reads
  <2> QED
    BY <2>1, <2>2
<1> QED
  BY <1>1

Passes(f, o, m) == f[o + 1][0] = f[o + 1 + Len(Decimal[m])][m]

LEMMA ReadsDecimal ==
  ASSUME NEW text, NEW n \in Nat, NEW f, Reads(text, n, f),
         NEW number \in Nat, NEW o \in Nat, Stands(text, n, o, number)
  PROVE  Passes(f, o, number)
<1> DEFINE Good(m) == \A p \in Nat : Stands(text, n, p, m) =>
                         f[p + 1][0] = f[p + 1 + Len(Decimal[m])][m]
           S == {m \in Nat : \A k \in Nat : k < m => Good(k)}
<1>1. 0 \in S
  <2> HIDE DEF Good
  <2> QED
    OBVIOUS
<1>2. ASSUME NEW m \in Nat, m \in S PROVE m + 1 \in S
  <2>1. Good(m)
    <3> SUFFICES ASSUME NEW p \in Nat, Stands(text, n, p, m)
                 PROVE  f[p + 1][0] = f[p + 1 + Len(Decimal[m])][m]
      OBVIOUS
    <3>0. /\ p + Len(Decimal[m]) <= n
          /\ \A j \in 1 .. Len(Decimal[m]) : text[p + j] = Decimal[m][j]
      BY DEF Stands
    <3>1. CASE m < 10
      <4>1. Decimal[m] = <<DigitChars[m+1]>> /\ LastDigit(m) = DigitChars[m+1] /\ Tenth(m) = 0
        BY <3>1, Tenths, DecimalUnfolds
      <4>2. Len(Decimal[m]) = 1 /\ Decimal[m][1] = LastDigit(m)
        BY <4>1
      <4>3. text[p + 1] = LastDigit(m) /\ p + 1 \in 1 .. n
        BY <3>0, <4>2
      <4>4. IsDigit(LastDigit(m)) /\ m = 0 * 10 + DigitValue(LastDigit(m))
        BY <4>1, LastDigitRead
      <4>5. f[p + 1][0] = f[(p + 1) + 1][m]
        <5> DEFINE i == p + 1
                   c == LastDigit(m)
        <5>1. i \in 1 .. n /\ text[i] = c /\ IsDigit(c) /\ m = 0 * 10 + DigitValue(c) /\ 0 \in Int
          BY <4>3, <4>4
        <5> HIDE DEF i, c
        <5>2. f[i][0] = f[i + 1][m]
          BY <5>1, ReadsOne
        <5> QED
          BY <5>2 DEF i
      <4> QED
        BY <4>2, <4>5
    <3>2. CASE ~(m < 10)
      <4> DEFINE k == Tenth(m)
                 l == Len(Decimal[k])
      <4>1. k \in Nat /\ k < m
        BY <3>2, Tenths
      <4>2. Good(k)
        BY <4>1, <1>2
      <4>3. /\ Len(Decimal[m]) = l + 1 /\ l \in Nat
            /\ \A j \in 1 .. l : Decimal[m][j] = Decimal[k][j]
            /\ Decimal[m][l + 1] = LastDigit(m)
        <5>1. m >= 10
          BY <3>2
        <5> QED
          BY <5>1, DecimalParts
      <4>4. Stands(text, n, p, k)
        <5>1. \A j \in 1 .. l : j \in 1 .. Len(Decimal[m])
          BY <4>3
        <5> QED
          BY <3>0, <4>3, <5>1 DEF Stands
      <4>5. f[p + 1][0] = f[p + 1 + l][k]
        BY <4>2, <4>4
      <4>6. text[p + 1 + l] = LastDigit(m) /\ p + 1 + l \in 1 .. n
        <5> HIDE DEF l, k
        <5>0. l + 1 \in 1 .. Len(Decimal[m]) /\ p + (l + 1) = p + 1 + l
          BY <3>0, <4>3
        <5>1. text[p + (l + 1)] = LastDigit(m) /\ p + (l + 1) = p + 1 + l
          BY <5>0, <3>0, <4>3
        <5> QED
          BY <5>1, <3>0, <4>3
      <4>7. IsDigit(LastDigit(m)) /\ m = k * 10 + DigitValue(LastDigit(m))
        BY LastDigitRead
      <4>8. f[p + 1 + l][k] = f[(p + 1 + l) + 1][m]
        <5>1. k \in Int
          BY <4>1
        <5> HIDE DEF l, k
        <5> QED
          BY <5>1, <4>6, <4>7, ReadsOne
      <4>9. (p + 1 + l) + 1 = p + 1 + (l + 1)
        <5> HIDE DEF l
        <5> QED
          BY <4>3
      <4> QED
        BY <4>3, <4>5, <4>8, <4>9
    <3> QED
      BY <3>1, <3>2
  <2> HIDE DEF Good
  <2>2. \A k \in Nat : k < m + 1 => k < m \/ k = m
    OBVIOUS
  <2> QED
    BY <1>2, <2>1, <2>2
<1>3. Nat \subseteq S
  <2> HIDE DEF S
  <2> QED
    BY <1>1, <1>2, NatSteps
<1>4. ASSUME NEW m \in Nat PROVE Good(m)
  <2> HIDE DEF Good
  <2>1. m + 1 \in S /\ m < m + 1
    <3> HIDE DEF S
    <3> QED
      BY <1>3
  <2> QED
    BY <2>1
<1> QED
  BY <1>4 DEF Passes

LEMMA DecimalStarts ==
  \A m \in Nat : Len(Decimal[m]) >= 1 /\ \E d \in 1 .. 10 : Decimal[m][1] = DigitChars[d]
<1> DEFINE Good(k) == Len(Decimal[k]) >= 1 /\ \E d \in 1 .. 10 : Decimal[k][1] = DigitChars[d]
           S == {j \in Nat : \A k \in Nat : k < j => Good(k)}
<1>1. 0 \in S
  <2> HIDE DEF Good
  <2> QED
    OBVIOUS
<1>2. ASSUME NEW j \in Nat, j \in S PROVE j + 1 \in S
  <2>1. Good(j)
    <3>1. CASE j < 10
      <4>1. Decimal[j] = IF j < 10 THEN <<DigitChars[j+1]>> ELSE Decimal[Tenth(j)] \o <<LastDigit(j)>>
        BY DecimalUnfolds
      <4>2. Decimal[j] = <<DigitChars[j+1]>> /\ j + 1 \in 1 .. 10
        BY <4>1, <3>1
      <4>3. Decimal[j][1] = DigitChars[j+1] /\ Len(Decimal[j]) = 1
        BY <4>2
      <4> QED
        BY <4>2, <4>3
    <3>2. CASE ~(j < 10)
      <4> DEFINE k == Tenth(j)
      <4>1. k \in Nat /\ k < j /\ j >= 10
        BY <3>2, Tenths
      <4>2. Good(k)
        <5> HIDE DEF Good, k
        <5> QED
          BY <4>1, <1>2
      <4>3. /\ Len(Decimal[j]) = Len(Decimal[k]) + 1 /\ Len(Decimal[k]) \in Nat
            /\ \A i \in 1 .. Len(Decimal[k]) : Decimal[j][i] = Decimal[k][i]
        BY <4>1, DecimalParts
      <4> HIDE DEF k
      <4>4. 1 \in 1 .. Len(Decimal[k])
        BY <4>2, <4>3
      <4>5. Decimal[j][1] = Decimal[k][1]
        BY <4>3, <4>4
      <4>6. Len(Decimal[j]) >= 1
        BY <4>2, <4>3
      <4> QED
        BY <4>2, <4>5, <4>6
    <3> QED
      BY <3>1, <3>2
  <2> HIDE DEF Good
  <2>2. \A k \in Nat : k < j + 1 => k < j \/ k = j
    OBVIOUS
  <2> QED
    BY <1>2, <2>1, <2>2
<1>3. Nat \subseteq S
  <2> HIDE DEF S
  <2> QED
    BY <1>1, <1>2, NatSteps
<1>4. ASSUME NEW m \in Nat PROVE Good(m)
  <2> HIDE DEF Good
  <2>1. m + 1 \in S /\ m < m + 1
    <3> HIDE DEF S
    <3> QED
      BY <1>3
  <2> QED
    BY <2>1
<1> QED
  BY <1>4

\* A blank and then a text.
LEMMA Blanked ==
  ASSUME NEW W, NEW b \in Seq(W), NEW s \in Seq(W), Len(b) = 1
  PROVE  /\ Len(s) \in Nat /\ Len(b \o s) = 1 + Len(s) /\ (b \o s)[1] = b[1]
         /\ \A j \in 1 .. Len(s) : (b \o s)[1 + j] = s[j]
<1>1. /\ Len(b \o s) = Len(b) + Len(s)
      /\ \A i \in 1 .. Len(b) + Len(s) : (b \o s)[i] = IF i <= Len(b) THEN b[i] ELSE s[i - Len(b)]
  BY ConcatProperties
<1>2. Len(s) \in Nat
  OBVIOUS
<1>3. ASSUME NEW j \in 1 .. Len(s) PROVE (b \o s)[1 + j] = s[j]
  <2>1. 1 + j \in 1 .. Len(b) + Len(s) /\ ~(1 + j <= Len(b)) /\ (1 + j) - Len(b) = j
    BY <1>2
  <2> QED
    BY <2>1, <1>1
<1>4. (b \o s)[1] = b[1]
  <2>1. 1 \in 1 .. Len(b) + Len(s) /\ 1 <= Len(b)
    BY <1>2
  <2> QED
    BY <2>1, <1>1
<1> QED
  BY <1>1, <1>2, <1>3, <1>4

LEMMA Single ==
  ASSUME NEW W, NEW c \in W
  PROVE  <<c>> \in Seq(W) /\ Len(<<c>>) = 1 /\ <<c>>[1] = c
OBVIOUS

LEMMA BlankDecimal ==
  ASSUME NEW m \in Nat, NEW text, text = <<" ">> \o Decimal[m]
  PROVE  /\ Len(Decimal[m]) \in Nat /\ Len(text) = 1 + Len(Decimal[m]) /\ text[1] = " "
         /\ \A j \in 1 .. Len(Decimal[m]) : text[1 + j] = Decimal[m][j]
<1> DEFINE W == Alphabet \cup {" "}
           dec == Decimal[m]
           b == <<" ">>
<1>1. b \in Seq(W) /\ Len(b) = 1 /\ b[1] = " "
  <2>1. " " \in W
    OBVIOUS
  <2> HIDE DEF W
  <2> QED
    BY <2>1, Single, Zenon
<1>2. dec \in Seq(W)
  <2>1. dec \in Seq(Alphabet)
    BY DecimalText DEF Strings
  <2>2. Alphabet \subseteq W
    OBVIOUS
  <2> HIDE DEF W, dec
  <2> QED
    BY <2>1, <2>2, SeqMonotonic
<1>3. text = b \o dec
  OBVIOUS
<1> HIDE DEF W, dec, b
<1>4. /\ Len(dec) \in Nat /\ Len(b \o dec) = 1 + Len(dec) /\ (b \o dec)[1] = b[1]
      /\ \A j \in 1 .. Len(dec) : (b \o dec)[1 + j] = dec[j]
  BY <1>1, <1>2, Blanked
<1> QED
  BY <1>1, <1>3, <1>4, Zenon DEF dec

LEMMA AtoiRight ==
  ASSUME NEW m \in Nat
  PROVE  atoi(<<" ">> \o Decimal[m]) = m
<1> DEFINE text == <<" ">> \o Decimal[m]
           n == Len(text)
           l == Len(Decimal[m])
           skip == CHOOSE f : Skips(text, n, f)
           read == CHOOSE f : Reads(text, n, f)
<1>1. atoi(text) = read[skip[1]][0]
  <2> HIDE DEF text
  <2> QED
    BY DEF atoi, Reads, Skips, n
<1>2. /\ n = 1 + l /\ l \in Nat
      /\ \A j \in 1 .. l : text[1 + j] = Decimal[m][j]
  BY BlankDecimal
<1>b. text[1] = " "
  BY BlankDecimal
<1>3. Decimal[m][1] # " "
  BY DecimalStarts, DigitNotSpace
<1>a. l >= 1
  BY DecimalStarts
<1> HIDE DEF text, n
<1>4. n \in Nat /\ n = 1 + l /\ 1 <= n /\ 1 \in 1 .. l /\ l \in Nat
  <2> HIDE DEF l
  <2> QED
    BY <1>2, <1>a
<1>5. text[2] # " "
  <2>1. text[1 + 1] = Decimal[m][1] /\ 1 + 1 = 2
    <3> HIDE DEF l
    <3> QED
      BY <1>2, <1>4
  <2> QED
    BY <2>1, <1>3, Zenon
<1>6. Stands(text, n, 1, m)
  <2>1. 1 \in Nat /\ 1 + l <= n
    <3> HIDE DEF l
    <3> QED
      BY <1>4
  <2> QED
    BY <2>1, <1>2, Zenon DEF Stands
<1> HIDE DEF l
<1>7. Skips(text, n, skip)
  <2>1. \E f : Skips(text, n, f)
    BY <1>4, SkipsExists
  <2> QED
    BY <2>1
<1>8. Reads(text, n, read)
  <2>1. \E f : Reads(text, n, f)
    BY <1>4, ReadsExists
  <2> QED
    BY <2>1
<1> HIDE DEF skip, read
<1>9. skip[1] = 2
  <2>1. skip = [i \in 1 .. n + 1 |-> IF i <= n /\ text[i] = " " THEN skip[i + 1] ELSE i]
    BY <1>7 DEF Skips
  <2>2. \A i \in 1 .. n + 1 : skip[i] = IF i <= n /\ text[i] = " " THEN skip[i + 1] ELSE i
    BY <2>1
  <2>3. 1 \in 1 .. n + 1 /\ 2 \in 1 .. n + 1 /\ 1 + 1 = 2
    BY <1>4
  <2>4. skip[2] = 2
    BY <2>2, <2>3, <1>5
  <2>5. skip[1] = skip[1 + 1]
    BY <2>2, <2>3, <1>b, <1>4
  <2> QED
    BY <2>3, <2>4, <2>5
<1>10. read[1 + 1][0] = read[1 + 1 + Len(Decimal[m])][m]
  <2>1. 1 \in Nat /\ n \in Nat
    BY <1>4
  <2>2. Passes(read, 1, m)
    BY <2>1, <1>6, <1>8, ReadsDecimal
  <2> QED
    BY <2>2 DEF Passes
<1>11. 1 + 1 + Len(Decimal[m]) = n + 1 /\ 1 + 1 = 2
  <2>1. 1 + 1 + l = n + 1 /\ 1 + 1 = 2
    BY <1>4
  <2> QED
    BY <2>1 DEF l
<1>12. read[n + 1][m] = m
  <2>1. n + 1 \in 1 .. n + 1 /\ m \in Int /\ ~(n + 1 <= n)
    BY <1>4
  <2>2. read = [i \in 1 .. n + 1 |-> [x \in Int |->
                 IF i <= n /\ IsDigit(text[i]) THEN read[i + 1][x * 10 + DigitValue(text[i])] ELSE x]]
    BY <1>8 DEF Reads
  <2>3. read[n + 1] = [x \in Int |->
                 IF n + 1 <= n /\ IsDigit(text[n + 1]) THEN read[(n + 1) + 1][x * 10 + DigitValue(text[n + 1])] ELSE x]
    BY <2>1, <2>2
  <2> QED
    BY <2>1, <2>3
<1>13. atoi(text) = m
  BY <1>1, <1>9, <1>10, <1>11, <1>12, SMTT(30)
<1> QED
  BY <1>13 DEF text

-----------------------------------------------------------------------------
(* printf.  The loop of vsprintf, the conversions of a format and the text   *)
(* it stands for are each a function of the place in the format.             *)
Percent(c) == c = "%"
IsConv(c) == c \in {"d", "s", "u"}
Slot(next, k, wide) == IF k = "u" THEN ArgU(next, wide) ELSE next
AfterSlot(next, k, wide) ==
  CASE k \in {"d", "s"} -> next + 1
    [] k = "u" -> Slot(next, k, wide) + (IF wide THEN 1 ELSE 2)
    [] OTHER -> next
Adds(p, t) == [t EXCEPT !.out = p \o t.out]
Nothing == [out |-> <<>>, over |-> FALSE]
Ran == [out |-> <<"nul">>, over |-> TRUE]
Piece(fmt, slots, i, next, wide) ==
  IF IsConv(fmt[i + 1]) THEN Text(slots, Slot(next, fmt[i + 1], wide), fmt[i + 1]) ELSE <<fmt[i + 1]>>

VspAt(fmt, n, slots, wide, f, i, next) ==
  IF i = n + 1 THEN Nothing
  ELSE IF ~Percent(fmt[i]) THEN Adds(<<fmt[i]>>, f[i + 1][next])
  ELSE IF i = n THEN Ran
  ELSE Adds(Piece(fmt, slots, i, next, wide), f[i + 2][AfterSlot(next, fmt[i + 1], wide)])
Vsp(fmt, n, slots, wide, f) ==
  f = [i \in 1 .. n + 1 |-> [next \in Nat |-> VspAt(fmt, n, slots, wide, f, i, next)]]

LEMMA VsprintfIs ==
  ASSUME NEW fmt, NEW slots, NEW first, NEW wide
  PROVE  vsprintf(fmt, slots, first, wide) = (CHOOSE f : Vsp(fmt, Len(fmt), slots, wide, f))[1][first]
BY DEF vsprintf, Vsp, VspAt, Piece, Percent, IsConv, Slot, AfterSlot, Adds, Nothing, Ran

ExpAt(fmt, n, args, f, i, k) ==
  IF i > n THEN <<>>
  ELSE IF ~Percent(fmt[i]) THEN <<fmt[i]>> \o f[i + 1][k]
  ELSE IF i = n THEN <<>>
  ELSE IF IsConv(fmt[i + 1]) /\ k \in DOMAIN args THEN Shown(args[k]) \o f[i + 2][k + 1]
  ELSE <<fmt[i + 1]>> \o f[i + 2][k]
Exp(fmt, n, args, f) ==
  f = [i \in 1 .. n + 1 |-> [k \in Nat |-> ExpAt(fmt, n, args, f, i, k)]]

LEMMA ExpectedIs ==
  ASSUME NEW fmt, NEW args
  PROVE  Expected(fmt, args) = (CHOOSE f : Exp(fmt, Len(fmt), args, f))[1][1]
BY DEF Expected, Exp, ExpAt, Percent, IsConv

ConvAt(fmt, n, f, i) ==
  IF i >= n THEN <<>>
  ELSE IF ~Percent(fmt[i]) THEN f[i + 1]
  ELSE (IF IsConv(fmt[i + 1]) THEN <<fmt[i + 1]>> ELSE <<>>) \o f[i + 2]
Conv(fmt, n, f) == f = [i \in 1 .. n + 2 |-> ConvAt(fmt, n, f, i)]

LEMMA ConversionsIs ==
  ASSUME NEW fmt
  PROVE  Conversions(fmt) = (CHOOSE f : Conv(fmt, Len(fmt), f))[1]
BY DEF Conversions, Conv, ConvAt, Percent, IsConv

\* The slots of an argument list, from first on.
Slots(args, first) == [i \in first .. first + Len(args) - 1 |-> args[i - first + 1]]

LEMMA CharsTyped ==
  ASSUME NEW fmt \in Formats
  PROVE  fmt \in Strings /\ Len(fmt) \in Nat /\ \A i \in 1 .. Len(fmt) : fmt[i] \in Alphabet
<1>1. fmt \in Seq(Range(fmt))
  BY PrintfAssumption
<1>2. Range(fmt) \subseteq Alphabet
  <2> DEFINE A == UNION {Range(t) : t \in Formats \cup Texts}
             B == {DigitChars[e] : e \in 1 .. 10}
             C == {"-", "?", "nul"}
  <2>1. Alphabet = (A \cup B) \cup C
    BY DEF Alphabet
  <2>2. Range(fmt) \subseteq A
    OBVIOUS
  <2> HIDE DEF A, B, C
  <2> QED
    BY <2>1, <2>2
<1>3. fmt \in Seq(Alphabet)
  BY <1>1, <1>2, SeqMonotonic
<1> QED
  BY <1>3 DEF Strings

LEMMA TextsTyped == Texts \subseteq Strings
<1> SUFFICES ASSUME NEW text \in Texts PROVE text \in Strings
  OBVIOUS
<1>1. text \in Seq(Range(text))
  BY PrintfAssumption
<1>2. Range(text) \subseteq Alphabet
  <2> DEFINE A == UNION {Range(t) : t \in Formats \cup Texts}
             B == {DigitChars[e] : e \in 1 .. 10}
             C == {"-", "?", "nul"}
  <2>1. Alphabet = (A \cup B) \cup C
    BY DEF Alphabet
  <2>2. Range(text) \subseteq A
    OBVIOUS
  <2> HIDE DEF A, B, C
  <2> QED
    BY <2>1, <2>2
<1>3. text \in Seq(Alphabet)
  BY <1>1, <1>2, SeqMonotonic
<1> QED
  BY <1>3 DEF Strings

LEMMA SignsTyped == <<"-">> \in Strings /\ <<"?">> \in Strings /\ <<"nul">> \in Strings /\ <<>> \in Strings
<1> DEFINE A == UNION {Range(t) : t \in Formats \cup Texts}
           B == {DigitChars[e] : e \in 1 .. 10}
           C == {"-", "?", "nul"}
<1>1. Alphabet = (A \cup B) \cup C
  BY DEF Alphabet
<1> HIDE DEF A, B
<1>2. "-" \in Alphabet /\ "?" \in Alphabet /\ "nul" \in Alphabet
  BY <1>1, Zenon
<1>3. <<"-">> \in Seq(Alphabet) /\ <<"?">> \in Seq(Alphabet) /\ <<"nul">> \in Seq(Alphabet)
  BY <1>2, Single, Zenon
<1>4. <<>> \in Seq(Alphabet)
  OBVIOUS
<1> QED
  BY <1>3, <1>4, Zenon DEF Strings

LEMMA Joined ==
  ASSUME NEW s \in Strings, NEW t \in Strings
  PROVE  s \o t \in Strings
<1>1. s \in Seq(Alphabet) /\ t \in Seq(Alphabet)
  BY DEF Strings
<1> QED
  BY <1>1, ConcatProperties DEF Strings

\* What an argument prints as, by the code and by what it stands for.
LEMMA ArgumentShown ==
  ASSUME NEW arg \in Arguments
  PROVE  /\ arg.kind \in {"d", "s", "u"} /\ Shown(arg) \in Strings
         /\ arg.kind = "d" => int_to_str(arg.value) = Shown(arg)
         /\ arg.kind = "u" => uint_to_str(arg.value % (IntMax - IntMin + 1)) = Shown(arg)
         /\ arg.kind = "s" => arg.value = Shown(arg)
<1>1. CASE arg \in [kind : {"d", "u"}, value : Numbers]
  <2>1. arg.kind \in {"d", "u"} /\ arg.value \in IntMin .. IntMax /\ arg.value \in Int
    <3>1. arg.kind \in {"d", "u"} /\ arg.value \in Numbers
      BY <1>1
    <3>2. Numbers \subseteq IntMin .. IntMax
      BY PrintfAssumption
    <3>3. IntMin .. IntMax \subseteq Int
      BY Ints
    <3> QED
      BY <3>1, <3>2, <3>3, Zenon
  <2>2. CASE arg.kind = "d"
    <3>1. arg = [kind |-> "d", value |-> arg.value]
      BY <1>1, <2>2
    <3>2. int_to_str(arg.value) = Shown(arg)
      BY <2>1, <3>1, IntRight
    <3>3. Shown(arg) = (IF arg.value < 0 THEN <<"-">> ELSE <<>>) \o Decimal[abs(arg.value)]
      BY <2>2 DEF Shown
    <3>4. abs(arg.value) \in Nat
      BY <2>1 DEF abs
    <3>5. (IF arg.value < 0 THEN <<"-">> ELSE <<>>) \in Strings
      BY SignsTyped
    <3>6. Decimal[abs(arg.value)] \in Strings
      BY <3>4, DecimalText
    <3>7. Shown(arg) \in Strings
      BY <3>3, <3>5, <3>6, Joined
    <3> QED
      BY <2>2, <3>2, <3>7
  <2>3. CASE arg.kind = "u"
    <3> DEFINE w == IntMax - IntMin + 1
               x == arg.value % w
    <3>1. w \in Nat \ {0} /\ w = Top + 1
      BY Ints DEF Top
    <3>2. x \in 0 .. w - 1
      <4> HIDE DEF w
      <4> QED
        BY <2>1, <3>1, Division
    <3>3. x \in 0 .. Top /\ x \in Nat
      <4> HIDE DEF w, x
      <4> QED
        BY <3>1, <3>2, Ints
    <3>4. Shown(arg) = Decimal[x]
      BY <2>3 DEF Shown
    <3> HIDE DEF x
    <3>5. uint_to_str(x) = Decimal[x] /\ Decimal[x] \in Strings
      BY <3>3, UintRight, DecimalText
    <3> QED
      BY <2>3, <3>4, <3>5 DEF x
  <2> QED
    BY <2>1, <2>2, <2>3
<1>2. CASE arg \in [kind : {"s"}, value : Texts]
  <2>1. arg.kind = "s" /\ arg.value \in Strings
    BY <1>2, TextsTyped
  <2>2. Shown(arg) = arg.value
    BY <2>1 DEF Shown
  <2> QED
    BY <2>1, <2>2
<1> QED
  BY <1>1, <1>2 DEF Arguments

LEMMA TextTyped ==
  ASSUME NEW slots, \A i \in DOMAIN slots : slots[i] \in Arguments, NEW i, NEW kind, IsConv(kind)
  PROVE  /\ Text(slots, i, kind) \in Strings
         /\ i \in DOMAIN slots /\ slots[i].kind = kind => Text(slots, i, kind) = Shown(slots[i])
<1>1. CASE i \notin DOMAIN slots \/ slots[i].kind # kind
  BY <1>1, SignsTyped DEF Text
<1>2. CASE i \in DOMAIN slots /\ slots[i].kind = kind
  <2> DEFINE arg == slots[i]
  <2>1. arg \in Arguments
    BY <1>2
  <2>2. Text(slots, i, kind) = CASE kind = "d" -> int_to_str(arg.value)
                                 [] kind = "u" -> uint_to_str(arg.value % (IntMax - IntMin + 1))
                                 [] kind = "s" -> arg.value
    BY <1>2 DEF Text
  <2>3. kind = arg.kind
    BY <1>2
  <2> HIDE DEF arg
  <2>4. Text(slots, i, kind) = Shown(arg) /\ Shown(arg) \in Strings
    BY <2>1, <2>2, <2>3, ArgumentShown DEF IsConv
  <2> QED
    BY <1>2, <2>4 DEF arg
<1> QED
  BY <1>1, <1>2

\* The three functions exist, so that each is what its definition says.
Printed == [out : Strings, over : BOOLEAN]

LEMMA AddsTyped ==
  ASSUME NEW p \in Strings, NEW t \in Printed
  PROVE  /\ Adds(p, t) \in Printed /\ Adds(p, t).out = p \o t.out
         /\ Adds(p, t).over = t.over
<1>1. PICK a \in Strings, b \in BOOLEAN : t = [out |-> a, over |-> b]
  BY DEF Printed
<1>2. t.out = a /\ t.over = b
  BY <1>1
<1> DEFINE c == p \o a
<1>3. c \in Strings
  BY Joined
<1>4. Adds(p, t) = [t EXCEPT !.out = c]
  BY <1>2 DEF Adds
<1> HIDE DEF c
<1>5. Adds(p, t) = [out |-> c, over |-> b]
  BY <1>1, <1>4
<1> QED
  BY <1>2, <1>3, <1>5 DEF Printed, c

LEMMA SlotTyped ==
  ASSUME NEW next \in Nat, NEW k, NEW wide
  PROVE  Slot(next, k, wide) \in Nat /\ AfterSlot(next, k, wide) \in Nat
<1>1. ArgU(next, wide) \in Nat
  <2>1. next % 2 \in 0 .. 1
    OBVIOUS
  <2> QED
    BY <2>1 DEF ArgU, Even
<1>2. Slot(next, k, wide) \in Nat
  BY <1>1 DEF Slot
<1>3. CASE k \in {"d", "s"}
  <2>1. AfterSlot(next, k, wide) = next + 1
    BY <1>3 DEF AfterSlot
  <2> QED
    BY <1>2, <2>1
<1>4. CASE k = "u"
  <2>1. AfterSlot(next, k, wide) = Slot(next, k, wide) + (IF wide THEN 1 ELSE 2)
    BY <1>4 DEF AfterSlot
  <2> QED
    BY <1>2, <2>1
<1>5. CASE k \notin {"d", "s"} /\ k # "u"
  <2>1. AfterSlot(next, k, wide) = next
    BY <1>5 DEF AfterSlot
  <2> QED
    BY <1>2, <2>1
<1> QED
  BY <1>3, <1>4, <1>5

LEMMA VspExists ==
  ASSUME NEW fmt, NEW n \in Nat, \A i \in 1 .. n : fmt[i] \in Alphabet,
         NEW slots, \A i \in DOMAIN slots : slots[i] \in Arguments, NEW wide
  PROVE  \E f \in [1 .. n + 1 -> [Nat -> Printed]] : Vsp(fmt, n, slots, wide, f)
<1> DEFINE D == 1 .. n + 1
           V == [Nat -> Printed]
           last(i) == i = n \/ i = n + 1
           plain(i) == ~Percent(fmt[i])
           size == [i \in D |-> (n + 1) - i]
           stops == {i \in D : i = n + 1 \/ (~plain(i) /\ i = n)}
           base == [i \in D |-> [next \in Nat |-> IF i = n + 1 THEN Nothing ELSE Ran]]
           nxt == [i \in D |-> IF plain(i) THEN i + 1 ELSE i + 2]
           piece(i, next) == IF plain(i) THEN <<fmt[i]>> ELSE Piece(fmt, slots, i, next, wide)
           step(i, next) == IF plain(i) THEN next ELSE AfterSlot(next, fmt[i + 1], wide)
           G == [i \in D |-> [v \in V |-> IF i \in stops THEN v
                                           ELSE [next \in Nat |-> Adds(piece(i, next), v[step(i, next)])]]]
<1>0. \A i \in D : i \in stops <=> i = n + 1 \/ (~plain(i) /\ i = n)
  OBVIOUS
<1>1. base \in [D -> V]
  <2>1. Nothing \in Printed /\ Ran \in Printed
    BY SignsTyped DEF Nothing, Ran, Printed
  <2> HIDE DEF D
  <2> QED
    BY <2>1
<1>2. size \in [D -> Nat]
  OBVIOUS
<1>3. ASSUME NEW i \in D, i \notin stops, NEW next \in Nat
      PROVE  piece(i, next) \in Strings /\ step(i, next) \in Nat
  <2>1. i \in 1 .. n /\ (plain(i) \/ i + 1 \in 1 .. n)
    <3> HIDE DEF plain
    <3>1. i # n + 1 /\ (plain(i) \/ i # n)
      BY <1>0, <1>3
    <3> QED
      BY <3>1
  <2>2. step(i, next) \in Nat
    BY SlotTyped
  <2>3. CASE plain(i)
    <3>1. fmt[i] \in Alphabet
      BY <2>1
    <3>2. <<fmt[i]>> \in Strings
      BY <3>1, Single DEF Strings
    <3> QED
      BY <2>2, <2>3, <3>2
  <2>4. CASE ~plain(i)
    <3>1. fmt[i + 1] \in Alphabet
      BY <2>1, <2>4
    <3>2. <<fmt[i + 1]>> \in Strings
      BY <3>1, Single DEF Strings
    <3>3. IsConv(fmt[i + 1]) => Text(slots, Slot(next, fmt[i + 1], wide), fmt[i + 1]) \in Strings
      BY TextTyped
    <3>4. Piece(fmt, slots, i, next, wide) \in Strings
      BY <3>2, <3>3 DEF Piece
    <3> QED
      BY <2>2, <2>4, <3>4
  <2> QED
    BY <2>3, <2>4
<1>4. \A i \in D : nxt[i] = (IF plain(i) THEN i + 1 ELSE i + 2) /\ size[i] = (n + 1) - i
  OBVIOUS
<1>5. \A i \in D : base[i] = [next \in Nat |-> IF i = n + 1 THEN Nothing ELSE Ran]
  OBVIOUS
<1>6. \A i \in D : i \notin stops => \A v \in V :
         G[i][v] = [next \in Nat |-> Adds(piece(i, next), v[step(i, next)])]
  <2> HIDE DEF D, V, stops, piece, step
  <2> QED
    OBVIOUS
<1>7. G \in [D -> [V -> V]]
  <2>1. ASSUME NEW i \in D, NEW v \in V, i \notin stops
        PROVE  [next \in Nat |-> Adds(piece(i, next), v[step(i, next)])] \in V
    <3>1. ASSUME NEW next \in Nat PROVE Adds(piece(i, next), v[step(i, next)]) \in Printed
      <4>1. piece(i, next) \in Strings /\ step(i, next) \in Nat
        BY <1>3, <2>1
      <4>2. v[step(i, next)] \in Printed
        BY <4>1
      <4> HIDE DEF piece, step, D, stops
      <4> QED
        BY <4>1, <4>2, AddsTyped
    <3> HIDE DEF piece, step, D, stops
    <3> QED
      BY <3>1
  <2> HIDE DEF D, V, stops, piece, step
  <2> QED
    BY <2>1
<1> HIDE DEF size, stops, base, nxt, G, piece, step
<1>8. ASSUME NEW i \in D \ stops PROVE nxt[i] \in D /\ size[nxt[i]] < size[i]
  <2> HIDE DEF plain
  <2>1. i \in D /\ i # n + 1 /\ (plain(i) \/ i # n)
    BY <1>0
  <2>2. nxt[i] \in D /\ nxt[i] > i
    BY <2>1, <1>4
  <2>3. size[nxt[i]] = (n + 1) - nxt[i] /\ size[i] = (n + 1) - i
    <3> HIDE DEF D
    <3> QED
      BY <2>1, <2>2, <1>4
  <2> QED
    BY <2>1, <2>2, <2>3
<1>9. Shrinks(D, V, size, stops, base, nxt, G)
  <2> HIDE DEF D, V
  <2> QED
    BY <1>1, <1>2, <1>7, <1>8 DEF Shrinks
<1>10. PICK f \in [D -> V] : \A i \in D : Unfolds(f, i, stops, base, nxt, G)
  <2> HIDE DEF D, V
  <2> QED
    BY <1>9, Recursion
<1>11. ASSUME NEW i \in D
       PROVE  f[i] = [next \in Nat |-> VspAt(fmt, n, slots, wide, f, i, next)]
  <2>1. f[i] = IF i \in stops THEN base[i] ELSE G[i][f[nxt[i]]]
    BY <1>10 DEF Unfolds
  <2>2. CASE i = n + 1
    <3>1. f[i] = [next \in Nat |-> Nothing]
      BY <2>1, <2>2, <1>0, <1>5
    <3>2. \A next : VspAt(fmt, n, slots, wide, f, i, next) = Nothing
      BY <2>2 DEF VspAt
    <3> QED
      BY <3>1, <3>2
  <2>3. CASE i = n /\ ~plain(i)
    <3>0. i # n + 1
      BY <2>3
    <3>1. f[i] = [next \in Nat |-> Ran]
      <4> HIDE DEF plain, V
      <4> QED
        BY <2>1, <2>3, <3>0, <1>0, <1>5
    <3>2. \A next : VspAt(fmt, n, slots, wide, f, i, next) = Ran
      BY <2>3, <3>0 DEF VspAt
    <3> QED
      BY <3>1, <3>2
  <2>4. CASE i # n + 1 /\ ~(i = n /\ ~plain(i))
    <3>1. i \notin stops
      <4> HIDE DEF plain
      <4> QED
        BY <2>4, <1>0
    <3>2. nxt[i] \in D
      BY <3>1, <1>8
    <3>3. f[nxt[i]] \in V
      <4> HIDE DEF D, V
      <4> QED
        BY <3>2, <1>10
    <3>4. f[i] = [next \in Nat |-> Adds(piece(i, next), f[nxt[i]][step(i, next)])]
      <4>1. f[i] = G[i][f[nxt[i]]]
        BY <2>1, <3>1
      <4> HIDE DEF D, V
      <4> QED
        BY <4>1, <3>1, <3>3, <1>6
    <3>5. ASSUME NEW next \in Nat
          PROVE  Adds(piece(i, next), f[nxt[i]][step(i, next)]) = VspAt(fmt, n, slots, wide, f, i, next)
      <4>1. CASE plain(i)
        <5>1. nxt[i] = i + 1
          BY <4>1, <1>4
        <5> QED
          BY <4>1, <5>1, <2>4 DEF VspAt, piece, step
      <4>2. CASE ~plain(i)
        <5>1. nxt[i] = i + 2
          BY <4>2, <1>4
        <5>2. i # n
          BY <4>2, <2>4
        <5> QED
          BY <4>2, <5>1, <5>2, <2>4 DEF VspAt, piece, step
      <4> QED
        BY <4>1, <4>2
    <3> QED
      BY <3>4, <3>5
  <2> QED
    BY <2>2, <2>3, <2>4
<1>12. f = [i \in D |-> f[i]]
  BY <1>10
<1>13. Vsp(fmt, n, slots, wide, f)
  <2> HIDE DEF V
  <2> QED
    BY <1>11, <1>12 DEF Vsp
<1> QED
  BY <1>10, <1>13

LEMMA ExpExists ==
  ASSUME NEW fmt, NEW n \in Nat, \A i \in 1 .. n : fmt[i] \in Alphabet,
         NEW args, \A k \in DOMAIN args : args[k] \in Arguments
  PROVE  \E f \in [1 .. n + 1 -> [Nat -> Strings]] : Exp(fmt, n, args, f)
<1> DEFINE D == 1 .. n + 1
           V == [Nat -> Strings]
           plain(i) == ~Percent(fmt[i])
           size == [i \in D |-> (n + 1) - i]
           stops == {i \in D : i = n + 1 \/ (~plain(i) /\ i = n)}
           base == [i \in D |-> [k \in Nat |-> <<>>]]
           nxt == [i \in D |-> IF plain(i) THEN i + 1 ELSE i + 2]
           takes(i, k) == IsConv(fmt[i + 1]) /\ k \in DOMAIN args
           piece(i, k) == IF plain(i) THEN <<fmt[i]>>
                          ELSE IF takes(i, k) THEN Shown(args[k]) ELSE <<fmt[i + 1]>>
           step(i, k) == IF ~plain(i) /\ takes(i, k) THEN k + 1 ELSE k
           G == [i \in D |-> [v \in V |-> IF i \in stops THEN v
                                           ELSE [k \in Nat |-> piece(i, k) \o v[step(i, k)]]]]
<1>0. \A i \in D : i \in stops <=> i = n + 1 \/ (~plain(i) /\ i = n)
  OBVIOUS
<1>1. base \in [D -> V]
  <2>1. <<>> \in Strings
    BY SignsTyped
  <2> HIDE DEF D
  <2> QED
    BY <2>1
<1>2. size \in [D -> Nat]
  OBVIOUS
<1>3. ASSUME NEW i \in D, i \notin stops, NEW k \in Nat
      PROVE  piece(i, k) \in Strings /\ step(i, k) \in Nat
  <2>1. i \in 1 .. n /\ (plain(i) \/ i + 1 \in 1 .. n)
    <3> HIDE DEF plain
    <3>1. i # n + 1 /\ (plain(i) \/ i # n)
      BY <1>0, <1>3
    <3> QED
      BY <3>1
  <2>2. step(i, k) \in Nat
    OBVIOUS
  <2>3. CASE plain(i)
    <3>1. fmt[i] \in Alphabet
      BY <2>1
    <3>2. <<fmt[i]>> \in Strings
      BY <3>1, Single DEF Strings
    <3> QED
      BY <2>2, <2>3, <3>2
  <2>4. CASE ~plain(i)
    <3>1. fmt[i + 1] \in Alphabet
      BY <2>1, <2>4
    <3>2. <<fmt[i + 1]>> \in Strings
      BY <3>1, Single DEF Strings
    <3>3. takes(i, k) => Shown(args[k]) \in Strings
      BY ArgumentShown
    <3> HIDE DEF takes
    <3> QED
      BY <2>2, <2>4, <3>2, <3>3
  <2> QED
    BY <2>3, <2>4
<1>4. \A i \in D : nxt[i] = (IF plain(i) THEN i + 1 ELSE i + 2) /\ size[i] = (n + 1) - i
  OBVIOUS
<1>5. \A i \in D : base[i] = [k \in Nat |-> <<>>]
  OBVIOUS
<1>6. \A i \in D : i \notin stops => \A v \in V : G[i][v] = [k \in Nat |-> piece(i, k) \o v[step(i, k)]]
  <2> HIDE DEF D, V, stops, piece, step
  <2> QED
    OBVIOUS
<1>7. G \in [D -> [V -> V]]
  <2>1. ASSUME NEW i \in D, NEW v \in V, i \notin stops
        PROVE  [k \in Nat |-> piece(i, k) \o v[step(i, k)]] \in V
    <3>1. ASSUME NEW k \in Nat PROVE piece(i, k) \o v[step(i, k)] \in Strings
      <4>1. piece(i, k) \in Strings /\ step(i, k) \in Nat
        BY <1>3, <2>1
      <4>2. v[step(i, k)] \in Strings
        BY <4>1
      <4> HIDE DEF piece, step, D, stops
      <4> QED
        BY <4>1, <4>2, Joined
    <3> HIDE DEF piece, step, D, stops
    <3> QED
      BY <3>1
  <2> HIDE DEF D, V, stops, piece, step
  <2> QED
    BY <2>1
<1> HIDE DEF size, stops, base, nxt, G, piece, step
<1>8. ASSUME NEW i \in D \ stops PROVE nxt[i] \in D /\ size[nxt[i]] < size[i]
  <2> HIDE DEF plain
  <2>1. i \in D /\ i # n + 1 /\ (plain(i) \/ i # n)
    BY <1>0
  <2>2. nxt[i] \in D /\ nxt[i] > i
    BY <2>1, <1>4
  <2>3. size[nxt[i]] = (n + 1) - nxt[i] /\ size[i] = (n + 1) - i
    <3> HIDE DEF D
    <3> QED
      BY <2>1, <2>2, <1>4
  <2> QED
    BY <2>1, <2>2, <2>3
<1>9. Shrinks(D, V, size, stops, base, nxt, G)
  <2> HIDE DEF D, V
  <2> QED
    BY <1>1, <1>2, <1>7, <1>8 DEF Shrinks
<1>10. PICK f \in [D -> V] : \A i \in D : Unfolds(f, i, stops, base, nxt, G)
  <2> HIDE DEF D, V
  <2> QED
    BY <1>9, Recursion
<1>11. ASSUME NEW i \in D
       PROVE  f[i] = [k \in Nat |-> ExpAt(fmt, n, args, f, i, k)]
  <2>1. f[i] = IF i \in stops THEN base[i] ELSE G[i][f[nxt[i]]]
    BY <1>10 DEF Unfolds
  <2>2. CASE i = n + 1
    <3>1. f[i] = [k \in Nat |-> <<>>]
      BY <2>1, <2>2, <1>0, <1>5
    <3>2. \A k : ExpAt(fmt, n, args, f, i, k) = <<>>
      BY <2>2 DEF ExpAt
    <3> QED
      BY <3>1, <3>2
  <2>3. CASE i = n /\ ~plain(i)
    <3>0. i # n + 1 /\ ~(i > n)
      BY <2>3
    <3>1. f[i] = [k \in Nat |-> <<>>]
      <4> HIDE DEF plain, V
      <4> QED
        BY <2>1, <2>3, <3>0, <1>0, <1>5
    <3>2. \A k : ExpAt(fmt, n, args, f, i, k) = <<>>
      BY <2>3, <3>0 DEF ExpAt
    <3> QED
      BY <3>1, <3>2
  <2>4. CASE i # n + 1 /\ ~(i = n /\ ~plain(i))
    <3>0. ~(i > n)
      BY <2>4
    <3>1. i \notin stops
      <4> HIDE DEF plain
      <4> QED
        BY <2>4, <1>0
    <3>2. nxt[i] \in D
      BY <3>1, <1>8
    <3>3. f[nxt[i]] \in V
      <4> HIDE DEF D, V
      <4> QED
        BY <3>2, <1>10
    <3>4. f[i] = [k \in Nat |-> piece(i, k) \o f[nxt[i]][step(i, k)]]
      <4>1. f[i] = G[i][f[nxt[i]]]
        BY <2>1, <3>1
      <4> HIDE DEF D, V
      <4> QED
        BY <4>1, <3>1, <3>3, <1>6
    <3>5. ASSUME NEW k \in Nat
          PROVE  piece(i, k) \o f[nxt[i]][step(i, k)] = ExpAt(fmt, n, args, f, i, k)
      <4>1. CASE plain(i)
        <5>1. nxt[i] = i + 1
          BY <4>1, <1>4
        <5> QED
          BY <4>1, <5>1, <3>0 DEF ExpAt, piece, step
      <4>2. CASE ~plain(i)
        <5>1. nxt[i] = i + 2
          BY <4>2, <1>4
        <5>2. i # n
          BY <4>2, <2>4
        <5> QED
          BY <4>2, <5>1, <5>2, <3>0 DEF ExpAt, piece, step
      <4> QED
        BY <4>1, <4>2
    <3> QED
      BY <3>4, <3>5
  <2> QED
    BY <2>2, <2>3, <2>4
<1>12. f = [i \in D |-> f[i]]
  BY <1>10
<1>13. Exp(fmt, n, args, f)
  <2> HIDE DEF V
  <2> QED
    BY <1>11, <1>12 DEF Exp
<1> QED
  BY <1>10, <1>13

\* The letters of the conversions are characters of the format.
LEMMA ConvExists ==
  ASSUME NEW fmt, NEW n \in Nat, \A i \in 1 .. n : fmt[i] \in Alphabet
  PROVE  \E f \in [1 .. n + 2 -> Strings] : Conv(fmt, n, f)
<1> DEFINE D == 1 .. n + 2
           V == Strings
           plain(i) == ~Percent(fmt[i])
           size == [i \in D |-> (n + 2) - i]
           stops == {i \in D : i >= n}
           base == [i \in D |-> <<>>]
           nxt == [i \in D |-> IF plain(i) THEN i + 1 ELSE i + 2]
           piece(i) == IF ~plain(i) /\ IsConv(fmt[i + 1]) THEN <<fmt[i + 1]>> ELSE <<>>
           G == [i \in D |-> [v \in V |-> IF i \in stops THEN v ELSE piece(i) \o v]]
<1>0. \A i \in D : i \in stops <=> i >= n
  OBVIOUS
<1>1. base \in [D -> V]
  <2>1. <<>> \in Strings
    BY SignsTyped
  <2> HIDE DEF D
  <2> QED
    BY <2>1
<1>2. size \in [D -> Nat]
  OBVIOUS
<1>3. ASSUME NEW i \in D, i \notin stops PROVE piece(i) \in Strings
  <2>1. i + 1 \in 1 .. n
    BY <1>0, <1>3
  <2>2. fmt[i + 1] \in Alphabet
    BY <2>1
  <2>3. <<fmt[i + 1]>> \in Strings
    BY <2>2, Single DEF Strings
  <2> QED
    BY <2>3, SignsTyped
<1>4. \A i \in D : nxt[i] = (IF plain(i) THEN i + 1 ELSE i + 2) /\ size[i] = (n + 2) - i
  OBVIOUS
<1>5. \A i \in D : base[i] = <<>>
  OBVIOUS
<1>6. \A i \in D : i \notin stops => \A v \in V : G[i][v] = piece(i) \o v
  <2> HIDE DEF D, V, stops, piece
  <2> QED
    OBVIOUS
<1>7. G \in [D -> [V -> V]]
  <2>1. ASSUME NEW i \in D, NEW v \in V, i \notin stops PROVE piece(i) \o v \in V
    <3>1. piece(i) \in Strings
      BY <1>3, <2>1
    <3> HIDE DEF piece, D, stops
    <3> QED
      BY <3>1, Joined
  <2> HIDE DEF D, V, stops, piece
  <2> QED
    BY <2>1
<1> HIDE DEF size, stops, base, nxt, G, piece
<1>8. ASSUME NEW i \in D \ stops PROVE nxt[i] \in D /\ size[nxt[i]] < size[i]
  <2> HIDE DEF plain
  <2>1. i \in D /\ i < n
    BY <1>0
  <2>2. nxt[i] \in D /\ nxt[i] > i
    BY <2>1, <1>4
  <2>3. size[nxt[i]] = (n + 2) - nxt[i] /\ size[i] = (n + 2) - i
    <3> HIDE DEF D
    <3> QED
      BY <2>1, <2>2, <1>4
  <2> QED
    BY <2>1, <2>2, <2>3
<1>9. Shrinks(D, V, size, stops, base, nxt, G)
  <2> HIDE DEF D, V
  <2> QED
    BY <1>1, <1>2, <1>7, <1>8 DEF Shrinks
<1>10. PICK f \in [D -> V] : \A i \in D : Unfolds(f, i, stops, base, nxt, G)
  <2> HIDE DEF D, V
  <2> QED
    BY <1>9, Recursion
<1>11. ASSUME NEW i \in D PROVE f[i] = ConvAt(fmt, n, f, i)
  <2>1. f[i] = IF i \in stops THEN base[i] ELSE G[i][f[nxt[i]]]
    BY <1>10 DEF Unfolds
  <2>2. CASE i >= n
    BY <2>1, <2>2, <1>0, <1>5 DEF ConvAt
  <2>3. CASE ~(i >= n)
    <3>1. i \notin stops
      BY <2>3, <1>0
    <3>2. nxt[i] \in D
      BY <3>1, <1>8
    <3>3. f[nxt[i]] \in V
      <4> HIDE DEF D, V
      <4> QED
        BY <3>2, <1>10
    <3>4. f[i] = piece(i) \o f[nxt[i]]
      <4>1. f[i] = G[i][f[nxt[i]]]
        BY <2>1, <3>1
      <4> HIDE DEF D, V
      <4> QED
        BY <4>1, <3>1, <3>3, <1>6
    <3>5. CASE plain(i)
      <4>1. nxt[i] = i + 1 /\ piece(i) = <<>>
        BY <3>5, <1>4 DEF piece
      <4>2. f[i + 1] \in Seq(Alphabet)
        BY <4>1, <3>3 DEF Strings
      <4>3. <<>> \o f[i + 1] = f[i + 1]
        BY <4>2, ConcatEmptySeq
      <4> QED
        BY <3>4, <3>5, <4>1, <4>3, <2>3 DEF ConvAt
    <3>6. CASE ~plain(i)
      <4>1. nxt[i] = i + 2
        BY <3>6, <1>4
      <4> QED
        BY <3>4, <3>6, <4>1, <2>3 DEF ConvAt, piece
    <3> QED
      BY <3>5, <3>6
  <2> QED
    BY <2>2, <2>3
<1>12. f = [i \in D |-> f[i]]
  BY <1>10
<1>13. Conv(fmt, n, f)
  <2> HIDE DEF V
  <2> QED
    BY <1>11, <1>12 DEF Conv
<1> QED
  BY <1>10, <1>13

\* What holds at a place when it holds at all places behind it holds at all.
LEMMA Backward ==
  ASSUME NEW n \in Nat, NEW S,
         \A i \in 1 .. n : (\A j \in i + 1 .. n : j \in S) => i \in S
  PROVE  \A i \in 1 .. n : i \in S
<1> DEFINE T == {m \in Nat : \A j \in 1 .. n : j > n - m => j \in S}
<1>1. 0 \in T
  OBVIOUS
<1>2. ASSUME NEW m \in Nat, m \in T PROVE m + 1 \in T
  <2> SUFFICES ASSUME NEW j \in 1 .. n, j > n - (m + 1) PROVE j \in S
    OBVIOUS
  <2>1. ASSUME NEW k \in j + 1 .. n PROVE k \in S
    <3>1. k \in 1 .. n /\ k > n - m
      OBVIOUS
    <3> QED
      BY <3>1, <1>2
  <2> QED
    BY <2>1
<1>3. Nat \subseteq T
  <2> HIDE DEF T
  <2> QED
    BY <1>1, <1>2, NatSteps
<1>4. n \in T
  BY <1>3
<1> QED
  BY <1>4

LEMMA VspTyped ==
  ASSUME NEW fmt, NEW n \in Nat, \A i \in 1 .. n : fmt[i] \in Alphabet,
         NEW slots, \A i \in DOMAIN slots : slots[i] \in Arguments, NEW wide,
         NEW f, Vsp(fmt, n, slots, wide, f)
  PROVE  \A i \in 1 .. n + 1 : \A next \in Nat :
            f[i][next] = VspAt(fmt, n, slots, wide, f, i, next) /\ f[i][next] \in Printed
<1> DEFINE S == {i \in 1 .. n + 1 : \A next \in Nat : f[i][next] \in Printed}
<1>1. \A i \in 1 .. n + 1 : \A next \in Nat : f[i][next] = VspAt(fmt, n, slots, wide, f, i, next)
  <2>1. f = [i \in 1 .. n + 1 |-> [next \in Nat |-> VspAt(fmt, n, slots, wide, f, i, next)]]
    BY DEF Vsp
  <2> SUFFICES ASSUME NEW i \in 1 .. n + 1, NEW next \in Nat
               PROVE  f[i][next] = VspAt(fmt, n, slots, wide, f, i, next)
    OBVIOUS
  <2>2. f[i] = [x \in Nat |-> VspAt(fmt, n, slots, wide, f, i, x)]
    BY <2>1
  <2> QED
    BY <2>2
<1>2. ASSUME NEW i \in 1 .. n + 1, \A j \in i + 1 .. n + 1 : j \in S PROVE i \in S
  <2> SUFFICES ASSUME NEW next \in Nat PROVE VspAt(fmt, n, slots, wide, f, i, next) \in Printed
    BY <1>1
  <2>1. CASE i = n + 1
    <3>1. Nothing \in Printed
      BY SignsTyped DEF Nothing, Printed
    <3> QED
      BY <2>1, <3>1 DEF VspAt
  <2>2. CASE i # n + 1 /\ ~Percent(fmt[i])
    <3>1. i \in 1 .. n /\ i + 1 \in i + 1 .. n + 1
      BY <2>2
    <3>2. fmt[i] \in Alphabet /\ f[i + 1][next] \in Printed
      BY <3>1, <1>2
    <3>3. <<fmt[i]>> \in Strings
      BY <3>2, Single DEF Strings
    <3>4. Adds(<<fmt[i]>>, f[i + 1][next]) \in Printed
      BY <3>2, <3>3, AddsTyped
    <3> QED
      BY <2>2, <3>4 DEF VspAt
  <2>3. CASE i # n + 1 /\ Percent(fmt[i]) /\ i = n
    <3>1. Ran \in Printed
      BY SignsTyped DEF Ran, Printed
    <3> QED
      BY <2>3, <3>1 DEF VspAt
  <2>4. CASE i # n + 1 /\ Percent(fmt[i]) /\ i # n
    <3> DEFINE after == AfterSlot(next, fmt[i + 1], wide)
    <3>1. i + 1 \in 1 .. n /\ i + 2 \in i + 1 .. n + 1
      BY <2>4
    <3>2. after \in Nat
      BY SlotTyped
    <3>3. fmt[i + 1] \in Alphabet
      BY <3>1
    <3>4. f[i + 2][after] \in Printed
      <4> HIDE DEF after
      <4> QED
        BY <3>1, <3>2, <1>2
    <3>5. Piece(fmt, slots, i, next, wide) \in Strings
      <4>1. <<fmt[i + 1]>> \in Strings
        BY <3>3, Single DEF Strings
      <4>2. IsConv(fmt[i + 1]) => Text(slots, Slot(next, fmt[i + 1], wide), fmt[i + 1]) \in Strings
        BY TextTyped
      <4> QED
        BY <4>1, <4>2 DEF Piece
    <3>6. Adds(Piece(fmt, slots, i, next, wide), f[i + 2][after]) \in Printed
      <4> HIDE DEF after
      <4> QED
        BY <3>4, <3>5, AddsTyped
    <3> QED
      BY <2>4, <3>6 DEF VspAt
  <2> QED
    BY <2>1, <2>2, <2>3, <2>4
<1>3. \A i \in 1 .. n + 1 : i \in S
  <2>1. n + 1 \in Nat
    OBVIOUS
  <2> HIDE DEF S
  <2> QED
    BY <2>1, <1>2, Backward
<1> QED
  BY <1>1, <1>3

LEMMA ConvTyped ==
  ASSUME NEW fmt, NEW n \in Nat, \A i \in 1 .. n : fmt[i] \in Alphabet,
         NEW f, Conv(fmt, n, f)
  PROVE  \A i \in 1 .. n + 2 : f[i] = ConvAt(fmt, n, f, i) /\ f[i] \in Strings
<1> DEFINE S == {i \in 1 .. n + 2 : f[i] \in Strings}
<1>1. \A i \in 1 .. n + 2 : f[i] = ConvAt(fmt, n, f, i)
  <2>1. f = [i \in 1 .. n + 2 |-> ConvAt(fmt, n, f, i)]
    BY DEF Conv
  <2> QED
    BY <2>1
<1>2. ASSUME NEW i \in 1 .. n + 2, \A j \in i + 1 .. n + 2 : j \in S PROVE i \in S
  <2> SUFFICES ConvAt(fmt, n, f, i) \in Strings
    BY <1>1
  <2>1. CASE i >= n
    BY <2>1, SignsTyped DEF ConvAt
  <2>2. CASE ~(i >= n)
    <3>1. i + 1 \in 1 .. n /\ i + 1 \in i + 1 .. n + 2 /\ i + 2 \in i + 1 .. n + 2
      BY <2>2
    <3>2. f[i + 1] \in Strings /\ f[i + 2] \in Strings /\ fmt[i + 1] \in Alphabet
      BY <3>1, <1>2
    <3> DEFINE p == IF IsConv(fmt[i + 1]) THEN <<fmt[i + 1]>> ELSE <<>>
    <3>3. p \in Strings
      <4>1. <<fmt[i + 1]>> \in Strings
        BY <3>2, Single DEF Strings
      <4> QED
        BY <4>1, SignsTyped
    <3>4. p \o f[i + 2] \in Strings
      <4> HIDE DEF p
      <4> QED
        BY <3>2, <3>3, Joined
    <3> QED
      BY <2>2, <3>2, <3>4 DEF ConvAt
  <2> QED
    BY <2>1, <2>2
<1>3. \A i \in 1 .. n + 2 : i \in S
  <2>1. n + 2 \in Nat
    OBVIOUS
  <2> HIDE DEF S
  <2> QED
    BY <2>1, <1>2, Backward
<1> QED
  BY <1>1, <1>3

\* The conversions from place i on are those of the arguments from k on.
Left(args, c, i, k) ==
  /\ Len(args) = (k - 1) + Len(c[i])
  /\ \A q \in 1 .. Len(c[i]) : args[(k - 1) + q].kind = c[i][q]
Agrees(f, g, first, i, k) ==
  \/ f[i][(first + k) - 1].over
  \/ f[i][(first + k) - 1].out = g[i][k]
Promised(args, wide) == wide \/ \A q \in DOMAIN args : args[q].kind # "u"

LEMMA ConversionPrinted ==
  ASSUME NEW args \in Seq(Arguments), NEW first \in Nat, NEW wide, Promised(args, wide),
         NEW k \in 1 .. Len(args), NEW letter, IsConv(letter), args[k].kind = letter,
         NEW next \in Nat, next = (first + k) - 1
  PROVE  /\ Slot(next, letter, wide) = next /\ AfterSlot(next, letter, wide) = next + 1
         /\ Text(Slots(args, first), next, letter) = Shown(args[k])
<1>1. letter = "u" => wide
  <2>1. k \in DOMAIN args
    OBVIOUS
  <2> QED
    BY <2>1 DEF Promised
<1>2. Slot(next, letter, wide) = next
  BY <1>1 DEF Slot, ArgU
<1>3. AfterSlot(next, letter, wide) = next + 1
  <2>1. CASE letter \in {"d", "s"}
    BY <2>1 DEF AfterSlot
  <2>2. CASE letter = "u"
    <3>1. AfterSlot(next, letter, wide) = Slot(next, letter, wide) + (IF wide THEN 1 ELSE 2)
      BY <2>2 DEF AfterSlot
    <3> QED
      BY <2>2, <3>1, <1>1, <1>2
  <2> QED
    BY <2>1, <2>2 DEF IsConv
<1> DEFINE slots == Slots(args, first)
<1>4. next \in DOMAIN slots /\ slots[next] = args[k]
  <2>1. Len(args) \in Nat
    OBVIOUS
  <2>2. next \in first .. (first + Len(args)) - 1 /\ (next - first) + 1 = k
    BY <2>1
  <2>3. slots = [i \in first .. first + Len(args) - 1 |-> args[i - first + 1]]
    BY DEF Slots
  <2> HIDE DEF slots
  <2> QED
    BY <2>2, <2>3
<1>5. \A i \in DOMAIN slots : slots[i] \in Arguments
  <2>1. slots = [i \in first .. first + Len(args) - 1 |-> args[i - first + 1]]
    BY DEF Slots
  <2>2. Len(args) \in Nat
    OBVIOUS
  <2> HIDE DEF slots
  <2> SUFFICES ASSUME NEW i \in DOMAIN slots PROVE slots[i] \in Arguments
    OBVIOUS
  <2>3. i \in first .. first + Len(args) - 1 /\ slots[i] = args[i - first + 1]
    BY <2>1
  <2>4. i - first + 1 \in 1 .. Len(args)
    BY <2>2, <2>3
  <2> QED
    BY <2>3, <2>4
<1>6. Text(slots, next, letter) = Shown(args[k])
  <2> HIDE DEF slots
  <2> QED
    BY <1>4, <1>5, TextTyped
<1> QED
  BY <1>2, <1>3, <1>6

LEMMA ExpUnfolds ==
  ASSUME NEW fmt, NEW n \in Nat, NEW args, NEW f, Exp(fmt, n, args, f),
         NEW i \in 1 .. n + 1, NEW k \in Nat
  PROVE  f[i][k] = ExpAt(fmt, n, args, f, i, k)
<1>1. f = [j \in 1 .. n + 1 |-> [x \in Nat |-> ExpAt(fmt, n, args, f, j, x)]]
  BY DEF Exp
<1>2. f[i] = [x \in Nat |-> ExpAt(fmt, n, args, f, i, x)]
  BY <1>1
<1> QED
  BY <1>2

LEMMA LeftTakes ==
  ASSUME NEW args \in Seq(Arguments), NEW c, NEW i, NEW j, NEW letter,
         c[i] = <<letter>> \o c[j], c[j] \in Strings, letter \in Alphabet,
         NEW k \in Nat \ {0}, Left(args, c, i, k)
  PROVE  k \in 1 .. Len(args) /\ args[k].kind = letter /\ Left(args, c, j, k + 1)
<1> DEFINE b == <<letter>>
           s == c[j]
<1>1. b \in Seq(Alphabet) /\ Len(b) = 1 /\ b[1] = letter /\ s \in Seq(Alphabet)
  BY Single DEF Strings
<1>2. c[i] = b \o s
  OBVIOUS
<1> HIDE DEF b
<1>3. /\ Len(s) \in Nat /\ Len(c[i]) = 1 + Len(s) /\ c[i][1] = letter
      /\ \A q \in 1 .. Len(s) : c[i][1 + q] = s[q]
  <2> HIDE DEF s
  <2>1. /\ Len(s) \in Nat /\ Len(b \o s) = 1 + Len(s) /\ (b \o s)[1] = b[1]
        /\ \A q \in 1 .. Len(s) : (b \o s)[1 + q] = s[q]
    BY <1>1, Blanked
  <2> QED
    BY <1>1, <1>2, <2>1
<1>4. /\ Len(args) = (k - 1) + Len(c[i])
      /\ \A q \in 1 .. Len(c[i]) : args[(k - 1) + q].kind = c[i][q]
  BY DEF Left
<1> HIDE DEF s
<1>5. k \in 1 .. Len(args) /\ Len(args) = ((k + 1) - 1) + Len(s)
  BY <1>3, <1>4
<1>6. args[k].kind = letter
  <2>1. 1 \in 1 .. Len(c[i]) /\ (k - 1) + 1 = k
    BY <1>3
  <2> QED
    BY <2>1, <1>3, <1>4
<1>7. ASSUME NEW q \in 1 .. Len(s) PROVE args[((k + 1) - 1) + q].kind = s[q]
  <2>1. 1 + q \in 1 .. Len(c[i]) /\ ((k + 1) - 1) + q = (k - 1) + (1 + q)
    BY <1>3
  <2> QED
    BY <2>1, <1>3, <1>4
<1> QED
  BY <1>5, <1>6, <1>7 DEF Left, s

LEMMA PrintsAgree ==
  ASSUME NEW fmt, NEW n \in Nat, \A i \in 1 .. n : fmt[i] \in Alphabet,
         NEW args \in Seq(Arguments), NEW first \in Nat \ {0}, NEW wide, Promised(args, wide),
         NEW f, Vsp(fmt, n, Slots(args, first), wide, f),
         NEW g, Exp(fmt, n, args, g), NEW c, Conv(fmt, n, c)
  PROVE  \A i \in 1 .. n + 1 : \A k \in Nat \ {0} : Left(args, c, i, k) => Agrees(f, g, first, i, k)
<1> DEFINE slots == Slots(args, first)
           S == {i \in 1 .. n + 1 : \A k \in Nat \ {0} : Left(args, c, i, k) => Agrees(f, g, first, i, k)}
<1>1. \A i \in DOMAIN slots : slots[i] \in Arguments
  <2>1. slots = [i \in first .. first + Len(args) - 1 |-> args[i - first + 1]]
    BY DEF Slots
  <2>2. Len(args) \in Nat
    OBVIOUS
  <2> HIDE DEF slots
  <2> SUFFICES ASSUME NEW i \in DOMAIN slots PROVE slots[i] \in Arguments
    OBVIOUS
  <2>3. i \in first .. first + Len(args) - 1 /\ slots[i] = args[i - first + 1]
    BY <2>1
  <2>4. i - first + 1 \in 1 .. Len(args)
    BY <2>2, <2>3
  <2> QED
    BY <2>3, <2>4
<1>2. \A i \in 1 .. n + 1 : \A next \in Nat :
         f[i][next] = VspAt(fmt, n, slots, wide, f, i, next) /\ f[i][next] \in Printed
  <2> HIDE DEF slots
  <2> QED
    BY <1>1, VspTyped DEF slots
<1>3. \A i \in 1 .. n + 2 : c[i] = ConvAt(fmt, n, c, i) /\ c[i] \in Strings
  BY ConvTyped
<1>4. \A i \in 1 .. n + 1 : \A k \in Nat : g[i][k] = ExpAt(fmt, n, args, g, i, k)
  BY ExpUnfolds
<1> HIDE DEF slots
<1>5. ASSUME NEW i \in 1 .. n + 1, \A j \in i + 1 .. n + 1 : j \in S PROVE i \in S
  <2> SUFFICES ASSUME NEW k \in Nat \ {0}, Left(args, c, i, k) PROVE Agrees(f, g, first, i, k)
    OBVIOUS
  <2> DEFINE next == (first + k) - 1
  <2>0. next \in Nat /\ k \in Nat /\ next + 1 \in Nat
    OBVIOUS
  <2>a. f[i][next] = VspAt(fmt, n, slots, wide, f, i, next)
    <3> HIDE DEF next
    <3> QED
      BY <2>0, <1>2
  <2>b. g[i][k] = ExpAt(fmt, n, args, g, i, k)
    BY <2>0, <1>4
  <2>1. CASE i = n + 1
    <3>1. f[i][next] = Nothing
      BY <2>1, <2>a DEF VspAt
    <3>2. g[i][k] = <<>>
      BY <2>1, <2>b DEF ExpAt
    <3> QED
      BY <3>1, <3>2 DEF Agrees, Nothing
  <2>2. CASE i # n + 1 /\ ~Percent(fmt[i])
    <3>1. i + 1 \in i + 1 .. n + 1 /\ i + 1 \in 1 .. n + 1 /\ i \in 1 .. n /\ ~(i > n)
      BY <2>2
    <3>2. c[i] = c[i + 1]
      <4>1. i \in 1 .. n + 2 /\ i + 1 \in 1 .. n + 2
        BY <3>1
      <4>2. c[i] = ConvAt(fmt, n, c, i) /\ c[i + 1] = ConvAt(fmt, n, c, i + 1)
        BY <4>1, <1>3
      <4>3. CASE i = n
        <5>1. i >= n /\ i + 1 >= n
          BY <4>3
        <5> QED
          BY <4>2, <5>1 DEF ConvAt
      <4>4. CASE i # n
        <5>1. ~(i >= n)
          BY <4>4, <3>1
        <5> QED
          BY <4>2, <5>1, <2>2 DEF ConvAt
      <4> QED
        BY <4>3, <4>4
    <3>3. Left(args, c, i + 1, k)
      BY <3>2 DEF Left
    <3>4. Agrees(f, g, first, i + 1, k)
      BY <3>1, <3>3, <1>5
    <3>5. f[i][next] = Adds(<<fmt[i]>>, f[i + 1][next])
      BY <2>2, <2>a DEF VspAt
    <3>6. g[i][k] = <<fmt[i]>> \o g[i + 1][k]
      BY <2>2, <3>1, <2>b DEF ExpAt
    <3>7. f[i + 1][next] \in Printed /\ <<fmt[i]>> \in Strings
      <4>1. f[i + 1][next] \in Printed
        <5> HIDE DEF next
        <5> QED
          BY <2>0, <3>1, <1>2
      <4>2. fmt[i] \in Alphabet
        BY <3>1
      <4> QED
        BY <4>1, <4>2, Single DEF Strings
    <3>8. f[i][next].over = f[i + 1][next].over /\ f[i][next].out = <<fmt[i]>> \o f[i + 1][next].out
      <4> DEFINE p == <<fmt[i]>>
                 t == f[i + 1][next]
      <4>1. p \in Strings /\ t \in Printed /\ f[i][next] = Adds(p, t)
        BY <3>5, <3>7
      <4> HIDE DEF p, t, next
      <4>2. f[i][next].over = t.over /\ f[i][next].out = p \o t.out
        BY <4>1, AddsTyped
      <4> QED
        BY <4>2 DEF p, t
    <3> QED
      BY <3>4, <3>6, <3>8 DEF Agrees
  <2>3. CASE i # n + 1 /\ Percent(fmt[i]) /\ i = n
    <3>1. f[i][next] = Ran
      BY <2>3, <2>a DEF VspAt
    <3> QED
      BY <3>1 DEF Agrees, Ran
  <2>4. CASE i # n + 1 /\ Percent(fmt[i]) /\ i # n
    <3> DEFINE letter == fmt[i + 1]
               piece == Piece(fmt, slots, i, next, wide)
               after == AfterSlot(next, letter, wide)
    <3>1. /\ i + 2 \in i + 1 .. n + 1 /\ i + 2 \in 1 .. n + 1 /\ i + 1 \in 1 .. n
          /\ ~(i > n) /\ ~(i >= n) /\ i \in 1 .. n + 2 /\ i + 2 \in 1 .. n + 2
      BY <2>4
    <3>2. letter \in Alphabet /\ c[i + 2] \in Strings
      BY <3>1, <1>3
    <3>3. f[i][next] = Adds(piece, f[i + 2][after])
      BY <2>4, <2>a DEF VspAt
    <3>4. after \in Nat
      BY <2>0, SlotTyped
    <3>5. f[i + 2][after] \in Printed
      <4> HIDE DEF after
      <4> QED
        BY <3>1, <3>4, <1>2
    <3>6. c[i] = (IF IsConv(letter) THEN <<letter>> ELSE <<>>) \o c[i + 2]
      <4>1. c[i] = ConvAt(fmt, n, c, i)
        BY <3>1, <1>3
      <4> QED
        BY <4>1, <3>1, <2>4 DEF ConvAt
    <3>7. CASE IsConv(letter)
      <4>1. c[i] = <<letter>> \o c[i + 2]
        BY <3>6, <3>7
      <4>2. k \in 1 .. Len(args) /\ args[k].kind = letter /\ Left(args, c, i + 2, k + 1)
        <5> HIDE DEF letter
        <5> QED
          BY <4>1, <3>2, LeftTakes
      <4>3. after = next + 1 /\ Text(slots, Slot(next, letter, wide), letter) = Shown(args[k])
        <5>1. first \in Nat /\ next = (first + k) - 1
          OBVIOUS
        <5> HIDE DEF letter, next
        <5>2. Slot(next, letter, wide) = next /\ AfterSlot(next, letter, wide) = next + 1
              /\ Text(Slots(args, first), next, letter) = Shown(args[k])
          BY <5>1, <4>2, <3>7, <2>0, ConversionPrinted
        <5> QED
          BY <5>2 DEF slots
      <4>4. piece = Shown(args[k]) /\ Shown(args[k]) \in Strings
        <5>1. piece = Shown(args[k])
          BY <4>3, <3>7 DEF Piece
        <5>2. args[k] \in Arguments
          BY <4>2
        <5> QED
          BY <5>1, <5>2, ArgumentShown
      <4>5. g[i][k] = Shown(args[k]) \o g[i + 2][k + 1]
        <5>1. k \in DOMAIN args
          BY <4>2
        <5> QED
          BY <5>1, <2>4, <3>1, <3>7, <2>b DEF ExpAt
      <4>6. Agrees(f, g, first, i + 2, k + 1)
        <5>1. k + 1 \in Nat \ {0}
          OBVIOUS
        <5> HIDE DEF letter, piece, after, next
        <5> QED
          BY <5>1, <3>1, <4>2, <1>5
      <4>7. (first + (k + 1)) - 1 = after
        BY <4>3
      <4>8. f[i][next].over = f[i + 2][after].over /\ f[i][next].out = piece \o f[i + 2][after].out
        <5> DEFINE t == f[i + 2][after]
        <5>1. piece \in Strings /\ t \in Printed /\ f[i][next] = Adds(piece, t)
          BY <3>3, <3>5, <4>4
        <5> HIDE DEF letter, piece, after, next, t
        <5>2. f[i][next].over = t.over /\ f[i][next].out = piece \o t.out
          BY <5>1, AddsTyped
        <5> QED
          BY <5>2 DEF t
      <4>9. f[i + 2][after].over \/ f[i + 2][after].out = g[i + 2][k + 1]
        <5> HIDE DEF after
        <5> QED
          BY <4>6, <4>7 DEF Agrees
      <4>10. f[i][next].over \/ f[i][next].out = g[i][k]
        <5> HIDE DEF letter, piece, after, next
        <5> QED
          BY <4>4, <4>5, <4>8, <4>9
      <4> QED
        BY <4>10 DEF Agrees
    <3>8. CASE ~IsConv(letter)
      <4>1. c[i] = c[i + 2]
        <5>1. c[i + 2] \in Seq(Alphabet)
          BY <3>2 DEF Strings
        <5>2. <<>> \o c[i + 2] = c[i + 2]
          BY <5>1, ConcatEmptySeq
        <5> QED
          BY <5>2, <3>6, <3>8
      <4>2. Left(args, c, i + 2, k)
        BY <4>1 DEF Left
      <4>3. Agrees(f, g, first, i + 2, k)
        <5> HIDE DEF letter, piece, after, next
        <5> QED
          BY <3>1, <4>2, <1>5
      <4>4. after = next
        BY <3>8 DEF AfterSlot, IsConv
      <4>5. piece = <<letter>> /\ <<letter>> \in Strings
        <5>1. piece = <<letter>>
          BY <3>8 DEF Piece
        <5>2. <<letter>> \in Strings
          BY <3>2, Single DEF Strings
        <5> QED
          BY <5>1, <5>2
      <4>6. g[i][k] = <<letter>> \o g[i + 2][k]
        BY <2>4, <3>1, <3>8, <2>b DEF ExpAt
      <4>7. f[i][next].over = f[i + 2][after].over /\ f[i][next].out = piece \o f[i + 2][after].out
        <5> DEFINE t == f[i + 2][after]
        <5>1. piece \in Strings /\ t \in Printed /\ f[i][next] = Adds(piece, t)
          BY <3>3, <3>5, <4>5
        <5> HIDE DEF letter, piece, after, next, t
        <5>2. f[i][next].over = t.over /\ f[i][next].out = piece \o t.out
          BY <5>1, AddsTyped
        <5> QED
          BY <5>2 DEF t
      <4>8. f[i + 2][after].over \/ f[i + 2][after].out = g[i + 2][k]
        <5> HIDE DEF after
        <5> QED
          BY <4>3, <4>4 DEF Agrees
      <4>9. f[i][next].over \/ f[i][next].out = g[i][k]
        <5> HIDE DEF letter, piece, after, next
        <5> QED
          BY <4>5, <4>6, <4>7, <4>8
      <4> QED
        BY <4>9 DEF Agrees
    <3> QED
      BY <3>7, <3>8
  <2> QED
    BY <2>1, <2>2, <2>3, <2>4
<1>6. \A i \in 1 .. n + 1 : i \in S
  <2>1. n + 1 \in Nat
    OBVIOUS
  <2> HIDE DEF S
  <2> QED
    BY <2>1, <1>5, Backward
<1> QED
  BY <1>6

LEMMA PrintfRight ==
  ASSUME NEW fmt \in Formats, NEW args \in ArgumentLists, Fits(fmt, args),
         NEW first \in {1, 2}, NEW wide, Promised(args, wide),
         NEW o, o = vsprintf(fmt, Slots(args, first), first, wide)
  PROVE  o.over \/ o.out = Expected(fmt, args)
<1> DEFINE n == Len(fmt)
           slots == Slots(args, first)
           f == CHOOSE x : Vsp(fmt, n, slots, wide, x)
           g == CHOOSE x : Exp(fmt, n, args, x)
           c == CHOOSE x : Conv(fmt, n, x)
<1>1. n \in Nat /\ \A i \in 1 .. n : fmt[i] \in Alphabet
  BY CharsTyped
<1>2. args \in Seq(Arguments) /\ \A q \in DOMAIN args : args[q] \in Arguments
  <2>1. PICK m \in 0 .. 2 : args \in [1 .. m -> Arguments]
    BY DEF ArgumentLists
  <2> QED
    BY <2>1
<1>3. \A i \in DOMAIN slots : slots[i] \in Arguments
  <2>1. slots = [i \in first .. first + Len(args) - 1 |-> args[i - first + 1]]
    BY DEF Slots
  <2>2. Len(args) \in Nat /\ first \in Nat
    BY <1>2
  <2> HIDE DEF slots
  <2> SUFFICES ASSUME NEW i \in DOMAIN slots PROVE slots[i] \in Arguments
    OBVIOUS
  <2>3. i \in first .. first + Len(args) - 1 /\ slots[i] = args[i - first + 1]
    BY <2>1
  <2>4. i - first + 1 \in 1 .. Len(args)
    BY <2>2, <2>3
  <2>5. i - first + 1 \in DOMAIN args
    BY <2>4, <1>2
  <2> QED
    BY <2>3, <2>5, <1>2
<1>4. o = f[1][first] /\ Expected(fmt, args) = g[1][1] /\ Conversions(fmt) = c[1]
  BY VsprintfIs, ExpectedIs, ConversionsIs
<1> HIDE DEF n, slots
<1>5. Vsp(fmt, n, slots, wide, f)
  <2>1. \E x : Vsp(fmt, n, slots, wide, x)
    BY <1>1, <1>3, VspExists
  <2> QED
    BY <2>1
<1>6. Exp(fmt, n, args, g)
  <2>1. \E x : Exp(fmt, n, args, x)
    BY <1>1, <1>2, ExpExists
  <2> QED
    BY <2>1
<1>7. Conv(fmt, n, c)
  <2>1. \E x : Conv(fmt, n, x)
    BY <1>1, ConvExists
  <2> QED
    BY <2>1
<1> HIDE DEF f, g, c
<1>8. Left(args, c, 1, 1)
  <2>1. Len(args) = Len(c[1]) /\ \A q \in DOMAIN args : args[q].kind = c[1][q]
    BY <1>4 DEF Fits
  <2>2. Len(args) \in Nat /\ DOMAIN args = 1 .. Len(args)
    BY <1>2
  <2>3. Len(args) = (1 - 1) + Len(c[1])
    BY <2>1, <2>2
  <2>4. ASSUME NEW q \in 1 .. Len(c[1]) PROVE args[(1 - 1) + q].kind = c[1][q]
    <3>1. q \in DOMAIN args /\ (1 - 1) + q = q
      BY <2>1, <2>2
    <3> QED
      BY <3>1, <2>1
  <2> QED
    BY <2>3, <2>4 DEF Left
<1>9. Agrees(f, g, first, 1, 1)
  <2>1. 1 \in 1 .. n + 1 /\ 1 \in Nat \ {0} /\ first \in Nat \ {0}
    BY <1>1
  <2>2. Vsp(fmt, n, Slots(args, first), wide, f)
    BY <1>5 DEF slots
  <2>3. \A i \in 1 .. n + 1 : \A k \in Nat \ {0} : Left(args, c, i, k) => Agrees(f, g, first, i, k)
    BY <2>1, <2>2, <1>1, <1>2, <1>6, <1>7, PrintsAgree
  <2> QED
    BY <2>1, <2>3, <1>8
<1>10. (first + 1) - 1 = first
  OBVIOUS
<1> QED
  BY <1>4, <1>9, <1>10 DEF Agrees

(* printf puts out its format with every conversion replaced by its argument *)
(* in decimal, and atoi reads a decimal back: whatever the formats, texts    *)
(* and numbers, and whatever the range of an int (stdio.c:26-150,            *)
(* stdlib.c:22-30).                                                          *)
THEOREM PrintsRightHolds == Spec => []PrintsRight
<1>1. CallInv => PrintsRight
  <2> SUFFICES ASSUME CallInv, pc = "done" PROVE PrintsRight
    BY DEF PrintsRight
  <2>1. CASE call.fn = "printf"
    <3>1. out = Result(call) /\ call.fmt \in Formats /\ call.args \in ArgumentLists
          /\ call.first \in {1, 2} /\ Fits(call.fmt, call.args)
      BY <2>1 DEF CallInv, Calls, Dividing, CopyFns, StrFns
    <3>2. out = vsprintf(call.fmt, Slots(call.args, call.first), call.first, call.wide)
      BY <2>1, <3>1 DEF Result, Slots
    <3> SUFFICES ASSUME call.wide \/ \A i \in DOMAIN call.args : call.args[i].kind # "u"
                 PROVE  out.over \/ out.out = Expected(call.fmt, call.args)
      BY <2>1 DEF PrintsRight
    <3>3. Promised(call.args, call.wide)
      BY DEF Promised
    <3> QED
      BY <3>1, <3>2, <3>3, PrintfRight
  <2>2. CASE call.fn = "int_to_str"
    <3>1. out = Result(call) /\ call.n \in IntMin .. IntMax
      BY <2>2 DEF CallInv, Calls, Dividing, CopyFns, StrFns
    <3>2. out = int_to_str(call.n)
      BY <2>2, <3>1 DEF Result
    <3>3. out = Shown([kind |-> "d", value |-> call.n])
      BY <3>1, <3>2, IntRight
    <3>4. ASSUME call.n >= 0 PROVE atoi(<<" ">> \o out) = call.n
      <4>1. call.n \in Nat /\ ~(call.n < 0)
        BY <3>1, <3>4, Ints
      <4>2. Shown([kind |-> "d", value |-> call.n]) = <<>> \o Decimal[abs(call.n)]
        BY <4>1 DEF Shown
      <4>3. abs(call.n) = call.n
        BY <4>1 DEF abs
      <4>4. Decimal[call.n] \in Seq(Alphabet)
        BY <4>1, DecimalText DEF Strings
      <4>5. <<>> \o Decimal[call.n] = Decimal[call.n]
        BY <4>4, ConcatEmptySeq
      <4>6. out = Decimal[call.n]
        BY <3>3, <4>2, <4>3, <4>5
      <4> QED
        BY <4>1, <4>6, AtoiRight
    <3> QED
      BY <2>2, <3>3, <3>4 DEF PrintsRight
  <2>3. CASE call.fn # "printf" /\ call.fn # "int_to_str"
    BY <2>3 DEF PrintsRight
  <2> QED
    BY <2>1, <2>2, <2>3
<1> QED
  BY <1>1, CallInvHolds, PTL
==============================================================================
