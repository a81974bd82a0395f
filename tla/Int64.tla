------------------------------- MODULE Int64 --------------------------------
(***************************************************************************)
(* The double-word arithmetic that klib and libgcc give a processor that   *)
(* has none: division (klib/src/int64.c), multiplication and shifts        *)
(* (libgcc).  A word has HalfBits bits and a double word has two of them;  *)
(* every operator works on the unsigned value of its bits.                 *)
(***************************************************************************)
EXTENDS Integers

CONSTANT HalfBits   \* the bits of a word: 32 in the code
ASSUME HalfBitsAssumption == HalfBits \in {4, 8, 16, 32}

\* The powers of two, as a function so that its recursion can be reasoned about.
Pow2[n \in Nat] == IF n = 0 THEN 1 ELSE 2 * Pow2[n - 1]

Half == Pow2[HalfBits]
Full == Pow2[2 * HalfBits]
UWord  == 0 .. Half - 1
UDword == 0 .. Full - 1

high(x) == x \div Half
low(x)  == x % Half
all(h, l) == h * Half + l
Signed(x) == IF x >= Full \div 2 THEN x - Full ELSE x
Bits(x)   == x % Full
Shr(x, n) == x \div Pow2[n]
Shl(x, n) == (x * Pow2[n]) % Half

(* x & y, x | y and x ^ y, bit by bit from the lowest.                     *)
And[x \in Nat] == [y \in Nat |->
    IF x = 0 THEN 0 ELSE 2 * And[x \div 2][y \div 2] + (IF x % 2 = 1 /\ y % 2 = 1 THEN 1 ELSE 0)]
Or[x \in Nat] == [y \in Nat |->
    IF x = 0 THEN y ELSE 2 * Or[x \div 2][y \div 2] + (IF x % 2 = 1 \/ y % 2 = 1 THEN 1 ELSE 0)]
Xor[x \in Nat] == [y \in Nat |->
    IF x = 0 THEN y ELSE 2 * Xor[x \div 2][y \div 2] + (IF x % 2 # y % 2 THEN 1 ELSE 0)]
IsPower(x) == And[x][x - 1] = 0

(* The number of leading zeros of a non-zero x of w bits: each round asks  *)
(* whether the upper half is empty and keeps the other one.                *)
Widths == {2, 4, 8, 16, 32}
clz[w \in Widths] == [x \in UWord |->
    IF w = 2 THEN IF x >= 2 THEN 0 ELSE 2 - x
    ELSE LET t == IF x \div Pow2[w \div 2] = 0 THEN w \div 2 ELSE 0
         IN  t + clz[w \div 2][Shr(x, (w \div 2) - t)]]
ctz[w \in Widths] == [x \in UWord |->
    IF w = 2 THEN IF x % 2 = 1 THEN 0 ELSE 2 - ((x % 4) \div 2)
    ELSE LET t == IF x % Pow2[w \div 2] = 0 THEN w \div 2 ELSE 0
         IN  t + ctz[w \div 2][Shr(x, t)]]
clzsi2(x) == clz[HalfBits][x]
ctzsi2(x) == ctz[HalfBits][x]
clzdi2(x) == IF high(x) = 0 THEN clzsi2(low(x)) + HalfBits ELSE clzsi2(high(x))
ctzdi2(x) == IF low(x) = 0 THEN ctzsi2(high(x)) + HalfBits ELSE ctzsi2(low(x))

-----------------------------------------------------------------------------
(* __udivmoddi4.  Begin either answers at once or gives the registers with *)
(* which the loop starts: the dividend shifted right by sr in r and left   *)
(* by the other bits in q.                                                 *)
Answered(q, r) == [done |-> TRUE, trap |-> FALSE, q |-> q, r |-> r, sr |-> 0, carry |-> 0]
Trap == [done |-> TRUE, trap |-> TRUE, q |-> 0, r |-> 0, sr |-> 0, carry |-> 0]
Loop(n, sr) == [done |-> FALSE, trap |-> FALSE, q |-> Bits(n * Pow2[2 * HalfBits - sr]),
                r |-> Shr(n, sr), sr |-> sr, carry |-> 0]

LowZero(n, d) ==
    LET sr == clzsi2(high(d)) - clzsi2(high(n))
    IN  CASE high(d) = 0 -> Trap
          [] high(d) # 0 /\ low(n) = 0 ->
                Answered(high(n) \div high(d), all(high(n) % high(d), 0))
          [] high(d) # 0 /\ low(n) # 0 /\ IsPower(high(d)) ->
                Answered(Shr(high(n), ctzsi2(high(d))), all(And[high(n)][high(d) - 1], low(n)))
          [] OTHER -> IF sr \in 0 .. HalfBits - 2 THEN Loop(n, sr + 1) ELSE Answered(0, n)

HighZero(n, d) ==
    IF IsPower(low(d))
    THEN Answered(Shr(n, ctzsi2(low(d))), And[low(n)][low(d) - 1])
    ELSE Loop(n, 1 + HalfBits + clzsi2(low(d)) - clzsi2(high(n)))

(* A slip: the sizes compared as for a divisor whose low word is zero, so  *)
(* that a difference of a whole word less one is answered with zero.       *)
BothWordsShort(n, d) ==
    LET sr == clzsi2(high(d)) - clzsi2(high(n))
    IN  IF sr \in 0 .. HalfBits - 2 THEN Loop(n, sr + 1) ELSE Answered(0, n)

BothWords(n, d) ==
    LET sr == clzsi2(high(d)) - clzsi2(high(n))
    IN  IF sr \in 0 .. HalfBits - 1 THEN Loop(n, sr + 1) ELSE Answered(0, n)

Begin(n, d) ==
    CASE high(n) = 0 /\ high(d) = 0 ->
            IF low(d) = 0 THEN Trap ELSE Answered(low(n) \div low(d), low(n) % low(d))
      [] high(n) = 0 /\ high(d) # 0 -> Answered(0, n)
      [] high(n) # 0 /\ low(d) = 0  -> LowZero(n, d)
      [] high(n) # 0 /\ low(d) # 0 /\ high(d) = 0 -> HighZero(n, d)
      [] OTHER -> BothWords(n, d)

(* A slip: the divisor taken away only when it is below the remainder.     *)
RoundStrict(s, d) ==
    LET r == Bits(2 * s.r) + (s.q \div (Full \div 2))
        fits == Bits(d - r) >= Full \div 2
    IN  [s EXCEPT !.q = Bits(2 * s.q) + s.carry,
                  !.r = IF fits THEN Bits(r - d) ELSE r,
                  !.carry = IF fits THEN 1 ELSE 0,
                  !.sr = s.sr - 1]

(* One round: shift r:q left, bring the last quotient bit in, subtract the *)
(* divisor when the sign of d - r - 1 says that it fits.                   *)
Round(s, d) ==
    LET r == Bits(2 * s.r) + (s.q \div (Full \div 2))
        fits == Bits(d - r - 1) >= Full \div 2
    IN  [s EXCEPT !.q = Bits(2 * s.q) + s.carry,
                  !.r = IF fits THEN Bits(r - d) ELSE r,
                  !.carry = IF fits THEN 1 ELSE 0,
                  !.sr = s.sr - 1]
Finish(s) == [s EXCEPT !.done = TRUE, !.q = Bits(2 * s.q) + s.carry, !.carry = 0]

Locals == [done : BOOLEAN, trap : BOOLEAN, q : UDword, r : UDword,
           sr : 0 .. 2 * HalfBits, carry : {0, 1}]
udivmoddi4(n, d) ==
    LET after[s \in Locals] ==
            IF s.done THEN s ELSE IF s.sr = 0 THEN Finish(s) ELSE after[Round(s, d)]
    IN  after[Begin(n, d)]

(* Negate when the mask is all ones: (x ^ s) - s.                          *)
Mask(x) == IF x >= Full \div 2 THEN Full - 1 ELSE 0
Fix(x, s) == Bits(Xor[x][s] - s)

divdi3(a, b) ==
    LET u == udivmoddi4(Fix(a, Mask(a)), Fix(b, Mask(b)))
    IN  Fix(u.q, Xor[Mask(a)][Mask(b)])
(* A slip: the remainder given the sign of the quotient.                   *)
moddi3Quotient(a, b) ==
    LET u == udivmoddi4(Fix(a, Mask(a)), Fix(b, Mask(b)))
    IN  Fix(u.r, Xor[Mask(a)][Mask(b)])
moddi3(a, b) ==
    LET u == udivmoddi4(Fix(a, Mask(a)), Fix(b, Mask(b)))
    IN  Fix(u.r, Mask(a))
divmoddi4(a, b) == [q |-> divdi3(a, b), r |-> Bits(a - divdi3(a, b) * b)]

-----------------------------------------------------------------------------
(* libgcc.  A word product by shift and add: the loop of multi3.c, whose   *)
(* high word is kept in two pieces, and the cross products.                *)
muluw3(a, b) == (a * b) % Half
MulWords == [u : UWord, v : UWord, w : UWord, h : UWord, t : UWord]
MulLoop[m \in MulWords] ==
    LET w2 == (m.w + m.u) % Half
        t2 == (m.t + m.h) % Half
        odd == m.v % 2 = 1
        n == [u |-> Shl(m.u, 1), v |-> Shr(m.v, 1),
              w |-> IF odd THEN w2 ELSE m.w,
              h |-> IF odd THEN ((IF w2 < m.w THEN 1 ELSE 0) + t2) % Half ELSE m.h,
              t |-> Shl(m.t, 1) + Shr(m.u, HalfBits - 1)]
    IN  IF n.v = 0 THEN n ELSE MulLoop[n]
multi3(u, v) ==
    LET m == MulLoop[[u |-> low(u), v |-> low(v), w |-> 0, h |-> 0, t |-> 0]]
    IN  all((m.h + muluw3(low(v), high(u)) + muluw3(low(u), high(v))) % Half, m.w)

ashldi3(u, b) ==
    CASE b = 0        -> u
      [] b >= HalfBits -> all(Shl(low(u), b - HalfBits), 0)
      [] OTHER        -> all(Or[Shl(high(u), b)][Shr(low(u), HalfBits - b)], Shl(low(u), b))

(* longlong.h: two-word sum, difference, product and quotient from words   *)
(* and half words.                                                         *)
ll_B == Pow2[HalfBits \div 2]
add_ssaaaa(ah, al, bh, bl) ==
    LET x == (al + bl) % Half IN all((ah + bh + (IF x < al THEN 1 ELSE 0)) % Half, x)
sub_ddmmss(ah, al, bh, bl) ==
    LET x == (al - bl) % Half IN all((ah - bh - (IF x > al THEN 1 ELSE 0)) % Half, x)
umul_ppmm(u, v) ==
    LET x0 == (u % ll_B) * (v % ll_B)
        x1 == ((u % ll_B) * (v \div ll_B) + (x0 \div ll_B)) % Half
        x2 == (u \div ll_B) * (v % ll_B)
        mid == (x1 + x2) % Half
        x3 == (u \div ll_B) * (v \div ll_B) + (IF mid < x2 THEN ll_B ELSE 0)
    IN  all((x3 + (mid \div ll_B)) % Half, ((mid % ll_B) * ll_B + (x0 % ll_B)) % Half)

(* The zeros of a word, from which quarter its top bit lies in and a table *)
(* of the sizes of the bytes.                                              *)
clz_tab[x \in 0 .. 255] == IF x = 0 THEN 0 ELSE 1 + clz_tab[x \div 2]
count_leading_zeros(x) ==
    LET bits4 == HalfBits \div 4
        a == CASE x < Pow2[bits4] -> 0
               [] x >= Pow2[bits4] /\ x < Pow2[2 * bits4] -> bits4
               [] x >= Pow2[2 * bits4] /\ x < Pow2[3 * bits4] -> 2 * bits4
               [] OTHER -> 3 * bits4
    IN  HalfBits - (clz_tab[Shr(x, a)] + a)
count_trailing_zeros(x) == HalfBits - 1 - count_leading_zeros(And[x][(-x) % Half])

(* One half word of the quotient: an estimate from the high half of d,     *)
(* corrected at most twice.                                                *)
QHalf(n, next, d) ==
    LET d1 == d \div ll_B
        q  == n \div d1
        mm == (q * (d % ll_B)) % Half
        r  == (((n % d1) * ll_B) % Half) + next
        r2 == (r + d) % Half
        r3 == (r2 + d) % Half
    IN  CASE r >= mm -> [q |-> q, r |-> (r - mm) % Half]
          [] r < mm /\ r2 >= d /\ r2 < mm -> [q |-> q - 2, r |-> (r3 - mm) % Half]
          [] OTHER -> [q |-> q - 1, r |-> (r2 - mm) % Half]
udiv_qrnnd_c(n1, n0, d) ==
    LET a == QHalf(n1, n0 \div ll_B, d)
        b == QHalf(a.r, n0 % ll_B, d)
    IN  [q |-> Or[(a.q * ll_B) % Half][b.q], r |-> b.r]
=============================================================================
