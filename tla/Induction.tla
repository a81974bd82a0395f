------------------------------ MODULE Induction ------------------------------
(***************************************************************************)
(* Lemmas on numbers that the proofs have in common: induction as a fact   *)
(* about sets of naturals, division by any number, and that a definition   *)
(* by recursion has a function that meets it.                              *)
(***************************************************************************)
EXTENDS Integers, WellFoundedInduction, TLAPS

(* A set of naturals has a least element, and one with 0 that is closed      *)
(* under successor has them all.                                             *)
LEMMA LeastNat ==
  ASSUME NEW T, T \subseteq Nat, T # {}
  PROVE  \E x \in T : \A y \in T : x <= y
<1> DEFINE Less == {ss \in Nat \X Nat : ss[1] < ss[2]}
<1>1. IsWellFoundedOn(Less, Nat)
  BY NatLessThanWellFounded, Zenon DEF OpToRel
<1>2. PICK x \in T : \A y \in T : ~(<<y, x>> \in Less)
  <2> HIDE DEF Less
  <2> QED
    BY <1>1, WFMin, Zenon
<1>3. \A y \in T : <<y, x>> \in Less <=> y < x
  OBVIOUS
<1>4. \A y \in T : ~(y < x)
  <2> HIDE DEF Less
  <2> QED
    BY <1>2, <1>3
<1> HIDE DEF Less
<1> QED
  BY <1>4

LEMMA NatSteps ==
  ASSUME NEW S, 0 \in S, \A n \in Nat : n \in S => n + 1 \in S
  PROVE  Nat \subseteq S
<1> SUFFICES ASSUME Nat \ S # {} PROVE FALSE
  OBVIOUS
<1>1. PICK x \in Nat \ S : \A y \in Nat \ S : x <= y
  BY LeastNat
<1>2. x # 0 /\ x - 1 \in Nat /\ x - 1 \in S
  BY <1>1
<1> QED
  BY <1>1, <1>2

(* Division by any positive number: the remainder is in range, and no other  *)
(* pair of quotient and remainder in range gives the number.                 *)
LEMMA Division ==
  ASSUME NEW n \in Int, NEW d \in Nat \ {0}
  PROVE  /\ n \div d \in Int /\ n % d \in 0 .. d-1
         /\ n = d * (n \div d) + (n % d)
OBVIOUS

LEMMA Quotient ==
  ASSUME NEW d \in Nat \ {0}, NEW q \in Int, NEW r \in 0 .. d-1
  PROVE  (d * q + r) \div d = q /\ (d * q + r) % d = r
<1> DEFINE n == d * q + r
<1>0. d \in Int /\ d > 0 /\ r \in Int /\ 0 <= r /\ r < d
  OBVIOUS
<1>1. n \in Int
  BY <1>0
<1>e. n = d * q + r
  OBVIOUS
<1> HIDE DEF n
<1> DEFINE p == n \div d
           s == n % d
<1>2. p \in Int /\ s \in Int /\ 0 <= s /\ s < d /\ n = d * p + s
  <2>1. p \in Int /\ s \in 0 .. d-1 /\ n = d * p + s
    BY <1>1, Division
  <2> HIDE DEF p, s
  <2> QED
    BY <2>1, <1>0
<1> HIDE DEF p, s
<1>3. d * (p - q) = r - s
  BY <1>0, <1>e, <1>2
<1>4. p - q <= 0
  <2>1. SUFFICES ASSUME p - q >= 1 PROVE FALSE
    BY <1>2
  <2>2. d * (p - q) >= d
    BY <2>1, <1>0, <1>2
  <2> QED
    BY <2>2, <1>0, <1>2, <1>3
<1>5. p - q >= 0
  <2>1. SUFFICES ASSUME p - q <= -1 PROVE FALSE
    BY <1>2
  <2>2. d * (p - q) <= -d
    BY <2>1, <1>0, <1>2
  <2> QED
    BY <2>2, <1>0, <1>2, <1>3
<1>6. p = q
  BY <1>4, <1>5, <1>2
<1>7. s = r
  BY <1>6, <1>3, <1>2, <1>0
<1> QED
  BY <1>6, <1>7 DEF n, p, s

(* What a definition by recursion asks of a function f at x: x is a stop, or  *)
(* the value there is made from the value at nxt[x].                          *)
Unfolds(f, x, stops, base, nxt, G) == f[x] = IF x \in stops THEN base[x] ELSE G[x][f[nxt[x]]]
Shrinks(D, V, size, stops, base, nxt, G) ==
  /\ size \in [D -> Nat] /\ base \in [D -> V] /\ G \in [D -> [V -> V]]
  /\ \A x \in D \ stops : nxt[x] \in D /\ size[nxt[x]] < size[x]

LEMMA SameUnfolding ==
  ASSUME NEW D, NEW V, NEW size, NEW stops, NEW base, NEW nxt, NEW G,
         Shrinks(D, V, size, stops, base, nxt, G), NEW n \in Nat,
         NEW f, \A x \in D : size[x] < n => Unfolds(f, x, stops, base, nxt, G),
         NEW g, \A x \in D : size[x] < n => Unfolds(g, x, stops, base, nxt, G)
  PROVE  \A x \in D : size[x] < n => f[x] = g[x]
<1> DEFINE Differ == {x \in D : size[x] < n /\ f[x] # g[x]}
           T == {size[x] : x \in Differ}
<1>1. SUFFICES ASSUME Differ # {} PROVE FALSE
  OBVIOUS
<1>2. T \subseteq Nat /\ T # {}
  BY <1>1 DEF Shrinks
<1>3. PICK k \in T : \A j \in T : k <= j
  BY <1>2, LeastNat
<1>4. PICK x \in Differ : k = size[x]
  BY <1>3
<1>5. x \in D /\ size[x] < n /\ f[x] # g[x]
  BY <1>4
<1>6. Unfolds(f, x, stops, base, nxt, G) /\ Unfolds(g, x, stops, base, nxt, G)
  BY <1>5
<1>7. x \notin stops /\ f[nxt[x]] # g[nxt[x]]
  BY <1>5, <1>6 DEF Unfolds
<1>8. nxt[x] \in D /\ size[nxt[x]] < size[x] /\ size[nxt[x]] \in Nat /\ size[x] \in Nat
  BY <1>5, <1>7 DEF Shrinks
<1>9. nxt[x] \in Differ
  BY <1>5, <1>7, <1>8
<1>10. size[nxt[x]] \in T
  BY <1>9
<1> QED
  BY <1>3, <1>4, <1>8, <1>10

LEMMA Recursion ==
  ASSUME NEW D, NEW V, NEW size, NEW stops, NEW base, NEW nxt, NEW G,
         Shrinks(D, V, size, stops, base, nxt, G)
  PROVE  \E f \in [D -> V] : \A x \in D : Unfolds(f, x, stops, base, nxt, G)
<1> DEFINE Ok(f, n) == \A x \in D : size[x] < n => Unfolds(f, x, stops, base, nxt, G)
           T == {n \in Nat : \E f \in [D -> V] : Ok(f, n)}
<1>1. 0 \in T
  <2>1. base \in [D -> V] /\ \A x \in D : size[x] \in Nat
    BY DEF Shrinks
  <2>2. Ok(base, 0)
    BY <2>1
  <2> HIDE DEF Ok
  <2> QED
    BY <2>1, <2>2
<1>2. ASSUME NEW n \in Nat, n \in T PROVE n + 1 \in T
  <2>1. PICK f \in [D -> V] : Ok(f, n)
    BY <1>2
  <2> DEFINE g == [x \in D |-> IF x \in stops THEN base[x] ELSE G[x][f[nxt[x]]]]
  <2>2. g \in [D -> V]
    <3>1. \A x \in D : base[x] \in V
      BY DEF Shrinks
    <3>2. \A x \in D \ stops : G[x][f[nxt[x]]] \in V
      BY DEF Shrinks
    <3> QED
      BY <3>1, <3>2
  <2>3. ASSUME NEW x \in D, size[x] < n + 1 PROVE Unfolds(g, x, stops, base, nxt, G)
    <3>1. ASSUME x \notin stops PROVE g[nxt[x]] = f[nxt[x]]
      <4>1. nxt[x] \in D /\ size[nxt[x]] < size[x] /\ size[nxt[x]] \in Nat /\ size[x] \in Nat
        BY <3>1 DEF Shrinks
      <4>2. size[nxt[x]] < n
        BY <4>1, <2>3
      <4>3. Unfolds(f, nxt[x], stops, base, nxt, G)
        BY <4>1, <4>2, <2>1
      <4>4. g[nxt[x]] = IF nxt[x] \in stops THEN base[nxt[x]] ELSE G[nxt[x]][f[nxt[nxt[x]]]]
        BY <4>1
      <4> QED
        BY <4>3, <4>4 DEF Unfolds
    <3>2. g[x] = IF x \in stops THEN base[x] ELSE G[x][f[nxt[x]]]
      OBVIOUS
    <3> HIDE DEF g
    <3> QED
      BY <3>1, <3>2 DEF Unfolds
  <2>4. Ok(g, n + 1)
    <3> HIDE DEF g
    <3> QED
      BY <2>3
  <2> HIDE DEF Ok, g
  <2> QED
    BY <2>2, <2>4
<1>3. Nat \subseteq T
  <2> HIDE DEF T
  <2> QED
    BY <1>1, <1>2, NatSteps
<1> DEFINE upTo(n) == CHOOSE f : f \in [D -> V] /\ Ok(f, n)
           F == [x \in D |-> upTo(size[x] + 1)[x]]
<1>4. \A n \in Nat : upTo(n) \in [D -> V] /\ Ok(upTo(n), n)
  <2> SUFFICES ASSUME NEW n \in Nat PROVE upTo(n) \in [D -> V] /\ Ok(upTo(n), n)
    OBVIOUS
  <2>1. \E f \in [D -> V] : Ok(f, n)
    BY <1>3
  <2> HIDE DEF Ok
  <2> QED
    BY <2>1
<1> HIDE DEF upTo
<1>5. F \in [D -> V]
  BY <1>4 DEF Shrinks
<1>6. ASSUME NEW x \in D PROVE Unfolds(F, x, stops, base, nxt, G)
  <2> DEFINE f == upTo(size[x] + 1)
  <2>1. size[x] \in Nat /\ size[x] + 1 \in Nat
    BY DEF Shrinks
  <2>2. Unfolds(f, x, stops, base, nxt, G)
    BY <2>1, <1>4
  <2>3. ASSUME x \notin stops PROVE F[nxt[x]] = f[nxt[x]]
    <3> DEFINE y == nxt[x]
               h == upTo(size[y] + 1)
    <3>1. y \in D /\ size[y] \in Nat /\ size[y] < size[x] /\ size[y] + 1 \in Nat
      BY <2>1, <2>3 DEF Shrinks
    <3>2. \A z \in D : size[z] < size[y] + 1 => Unfolds(h, z, stops, base, nxt, G)
      BY <3>1, <1>4
    <3>3. \A z \in D : size[z] < size[y] + 1 => Unfolds(f, z, stops, base, nxt, G)
      <4>1. Ok(f, size[x] + 1)
        BY <2>1, <1>4
      <4> SUFFICES ASSUME NEW z \in D, size[z] < size[y] + 1 PROVE size[z] < size[x] + 1
        BY <4>1
      <4>2. size[z] \in Nat
        BY DEF Shrinks
      <4> QED
        BY <4>2, <3>1, <2>1
    <3> HIDE DEF y, h, f
    <3>4. \A z \in D : size[z] < size[y] + 1 => h[z] = f[z]
      BY <3>1, <3>2, <3>3, SameUnfolding
    <3>5. h[y] = f[y]
      BY <3>1, <3>4
    <3> QED
      BY <3>1, <3>5 DEF y, h
  <2>4. F[x] = f[x]
    OBVIOUS
  <2> HIDE DEF F, f
  <2> QED
    BY <2>2, <2>3, <2>4 DEF Unfolds
<1> HIDE DEF F
<1> QED
  BY <1>5, <1>6

(* A definition that makes each value of 0..n from all earlier ones.         *)
Makes(n, V, G) == \A k \in 0..n : \A h \in [0..k-1 -> V] : G[k][h] \in V
LEMMA CourseOfValues ==
  ASSUME NEW n \in Nat, NEW V, NEW G, Makes(n, V, G)
  PROVE  \E f \in [0..n -> V] : \A k \in 0..n : f[k] = G[k][[i \in 0..k-1 |-> f[i]]]
<1> DEFINE Ok(f, m) == \A k \in 0..m : f[k] = G[k][[i \in 0..k-1 |-> f[i]]]
           S == {m \in Nat : m <= n => \E f \in [0..m -> V] : Ok(f, m)}
<1>1. 0 \in S
  <2> DEFINE none == [i \in 0..0-1 |-> 0]
             f == [k \in 0..0 |-> G[0][none]]
  <2>1. none \in [0..0-1 -> V] /\ 0 \in 0..n
    OBVIOUS
  <2> HIDE DEF none
  <2>2. G[0][none] \in V
    BY <2>1 DEF Makes
  <2>3. f \in [0..0 -> V]
    BY <2>2
  <2>4. \A k \in 0..0 : k = 0 /\ f[k] = G[0][none]
    OBVIOUS
  <2>5. [i \in 0..0-1 |-> f[i]] = none
    BY DEF none
  <2> HIDE DEF f
  <2>6. Ok(f, 0)
    BY <2>4, <2>5
  <2> HIDE DEF Ok
  <2> QED
    BY <2>3, <2>6
<1>2. ASSUME NEW m \in Nat, m \in S PROVE m + 1 \in S
  <2> SUFFICES ASSUME m + 1 <= n PROVE \E f \in [0..m+1 -> V] : Ok(f, m + 1)
    OBVIOUS
  <2>1. PICK g \in [0..m -> V] : Ok(g, m)
    BY <1>2
  <2> DEFINE f == [k \in 0..m+1 |-> IF k = m + 1 THEN G[m+1][g] ELSE g[k]]
  <2>2. G[m+1][g] \in V
    <3>1. m + 1 \in 0..n /\ (m + 1) - 1 = m
      OBVIOUS
    <3> QED
      BY <2>1, <3>1 DEF Makes
  <2>3. f \in [0..m+1 -> V]
    BY <2>2
  <2>4. f[m+1] = G[m+1][g] /\ \A k \in 0..m : f[k] = g[k]
    OBVIOUS
  <2> HIDE DEF f
  <2>5. ASSUME NEW k \in 0..m+1 PROVE f[k] = G[k][[i \in 0..k-1 |-> f[i]]]
    <3>1. CASE k = m + 1
      <4>1. [i \in 0..k-1 |-> f[i]] = [i \in 0..m |-> g[i]]
        BY <3>1, <2>4
      <4>2. [i \in 0..m |-> g[i]] = g
        BY <2>1
      <4> QED
        BY <4>1, <4>2, <3>1, <2>4
    <3>2. CASE k # m + 1
      <4>1. k \in 0..m
        BY <3>2
      <4>2. [i \in 0..k-1 |-> f[i]] = [i \in 0..k-1 |-> g[i]]
        BY <4>1, <2>4
      <4> QED
        BY <4>1, <4>2, <2>1, <2>4
    <3> QED
      BY <3>1, <3>2
  <2> QED
    BY <2>3, <2>5
<1>3. Nat \subseteq S
  <2> HIDE DEF S
  <2> QED
    BY <1>1, <1>2, NatSteps
<1>4. n \in S
  BY <1>3
<1> QED
  BY <1>4

(* The same for definitions whose calls are of anything smaller, where      *)
(* sizes are bounded: G[x] looks at the function below the size of x alone. *)
Below(D, size, x, f, g) == \A y \in D : size[y] < size[x] => f[y] = g[y]
Lowers(D, V, size, n, G) ==
  /\ size \in [D -> 0..n]
  /\ \A x \in D : \A f \in [D -> V] : G[x][f] \in V
  /\ \A x \in D : \A f, g \in [D -> V] : Below(D, size, x, f, g) => G[x][f] = G[x][g]
LEMMA BoundedRecursion ==
  ASSUME NEW D, NEW V, NEW size, NEW n \in Nat, NEW G, V # {}, Lowers(D, V, size, n, G)
  PROVE  \E f \in [D -> V] : \A x \in D : f[x] = G[x][f]
<1> DEFINE Ok(f, m) == \A x \in D : size[x] < m => f[x] = G[x][f]
           S == {m \in Nat : \E f \in [D -> V] : Ok(f, m)}
<1>0. size \in [D -> 0..n]
  BY DEF Lowers
<1>1. 0 \in S
  <2>1. PICK v \in V : TRUE
    OBVIOUS
  <2>2. [x \in D |-> v] \in [D -> V]
    OBVIOUS
  <2>3. \A x \in D : ~(size[x] < 0)
    BY <1>0
  <2> QED
    BY <2>2, <2>3
<1>2. ASSUME NEW m \in Nat, m \in S PROVE m + 1 \in S
  <2>1. PICK f \in [D -> V] : Ok(f, m)
    BY <1>2
  <2> DEFINE g == [x \in D |-> IF size[x] < m THEN f[x] ELSE G[x][f]]
  <2>2. g \in [D -> V]
    BY <2>1 DEF Lowers
  <2>3. \A x \in D : g[x] = G[x][f]
    BY <2>1
  <2>4. \A x \in D : size[x] < m => g[x] = f[x]
    OBVIOUS
  <2> HIDE DEF g
  <2>5. ASSUME NEW x \in D, size[x] < m + 1 PROVE g[x] = G[x][g]
    <3>1. ASSUME NEW y \in D, size[y] < size[x] PROVE f[y] = g[y]
      <4>1. size[y] < m
        BY <3>1, <2>5, <1>0
      <4> QED
        BY <4>1, <2>4
    <3>2. Below(D, size, x, f, g)
      BY <3>1 DEF Below
    <3>3. G[x][f] = G[x][g]
      BY <3>2, <2>1, <2>2 DEF Lowers
    <3> QED
      BY <3>3, <2>3
  <2>6. Ok(g, m + 1)
    BY <2>5
  <2> HIDE DEF Ok
  <2> QED
    BY <2>2, <2>6
<1>3. Nat \subseteq S
  <2> HIDE DEF S
  <2> QED
    BY <1>1, <1>2, NatSteps
<1>4. PICK f \in [D -> V] : Ok(f, n + 1)
  <2>1. n + 1 \in S
    BY <1>3
  <2> HIDE DEF Ok
  <2> QED
    BY <2>1
<1>5. \A x \in D : size[x] < n + 1
  BY <1>0
<1> QED
  BY <1>4, <1>5

LEMMA BoundedSame ==
  ASSUME NEW D, NEW size \in [D -> Nat], NEW f, NEW g,
         \A x \in D : Below(D, size, x, f, g) => f[x] = g[x]
  PROVE  \A x \in D : f[x] = g[x]
<1> DEFINE Differ == {x \in D : f[x] # g[x]}
           T == {size[x] : x \in Differ}
<1>1. SUFFICES ASSUME Differ # {} PROVE FALSE
  OBVIOUS
<1>2. T \subseteq Nat /\ T # {}
  BY <1>1
<1>3. PICK k \in T : \A j \in T : k <= j
  BY <1>2, LeastNat
<1>4. PICK x \in Differ : k = size[x]
  BY <1>3
<1>5. ASSUME NEW y \in D, size[y] < size[x] PROVE f[y] = g[y]
  <2>1. y \in Differ => size[x] <= size[y]
    BY <1>3, <1>4
  <2> QED
    BY <2>1, <1>5, <1>4
<1> QED
  BY <1>4, <1>5 DEF Below
==============================================================================
