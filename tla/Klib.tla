-------------------------------- MODULE Klib --------------------------------
(***************************************************************************)
(* The library a program links against (abstract-machine/klib and libgcc): *)
(* first the operators for klib/src/string.c on a memory of Cells bytes,   *)
(* and for the conversions of stdio.c and stdlib.c, each of which gives    *)
(* the memory, or the answer, that the loop leaves; then one call, from    *)
(* its arguments to what it returns.  A byte is a value below Chars; as a  *)
(* plain char its upper half is negative where char is signed.  Division   *)
(* goes round by round through its loop; the other calls answer in one     *)
(* step.                                                                   *)
(***************************************************************************)
EXTENDS Int64, Sequences, SequencesExt

CONSTANTS Cells, Chars, SignedChar
ASSUME StringAssumption == Cells \in Nat \ {0} /\ Chars \in Nat \ {0, 1} /\ SignedChar \in BOOLEAN

Null == -1
Memory == [0 .. Cells - 1 -> 0 .. Chars - 1]
Char(b) == IF SignedChar /\ b >= Chars \div 2 THEN b - Chars ELSE b

Ends(m, s) == \E i \in s .. Cells - 1 : m[i] = 0
strlen(m, s) == CHOOSE n \in 0 .. Cells : m[s + n] = 0 /\ \A i \in 0 .. n - 1 : m[s + i] # 0

CopyUp(m, d, s, n) ==
    LET c[i \in 0 .. n] == IF i = 0 THEN m ELSE [c[i - 1] EXCEPT ![d + i - 1] = c[i - 1][s + i - 1]]
    IN  c[n]
CopyDown(m, d, s, n) ==
    LET c[i \in 0 .. n] == IF i = n THEN m ELSE [c[i + 1] EXCEPT ![d + i] = c[i + 1][s + i]]
    IN  c[0]
Fill(m, d, n, b) == [i \in DOMAIN m |-> IF i \in d .. d + n - 1 THEN b ELSE m[i]]

strcpy(m, d, s) == Fill(CopyUp(m, d, s, strlen(m, s)), d + strlen(m, s), 1, 0)
strncpy(m, d, s, n) ==
    LET k == IF strlen(m, s) < n THEN strlen(m, s) ELSE n
    IN  Fill(CopyUp(m, d, s, k), d + k, n - k, 0)
strcat(m, d, s) == strcpy(m, d + strlen(m, d), s)
memset(m, d, b, n) == IF d = Null THEN m ELSE Fill(m, d, n, b)
memcpy(m, d, s, n) == IF Null \in {d, s} THEN m ELSE CopyUp(m, d, s, n)

(* A slip: the directions exchanged.                                       *)
memmoveBackwards(m, d, s, n) ==
    CASE Null \in {d, s} \/ n = 0 -> m
      [] d < s  -> CopyDown(m, d, s, n)
      [] OTHER  -> CopyUp(m, d, s, n)
memmove(m, d, s, n) ==
    CASE Null \in {d, s} \/ n = 0 -> m
      [] d < s  -> CopyUp(m, d, s, n)
      [] OTHER  -> CopyDown(m, d, s, n)

(* The first position at which the loop stops, and the difference there.   *)
strcmp(m, a, b) ==
    LET stop[i \in 0 .. strlen(m, a)] ==
            IF m[a + i] = m[b + i] THEN IF m[a + i] = 0 THEN 0 ELSE stop[i + 1]
            ELSE Char(m[a + i]) - Char(m[b + i])
    IN  stop[0]
strncmp(m, a, b, n) ==
    LET stop[i \in 0 .. n] ==
            IF i < n /\ m[a + i] = m[b + i] THEN IF m[a + i] = 0 THEN 0 ELSE stop[i + 1]
            ELSE IF i = n THEN 0 ELSE Char(m[a + i]) - Char(m[b + i])
    IN  IF Null \in {a, b} THEN 0 ELSE stop[0]
memcmp(m, a, b, n) ==
    LET stop[i \in 0 .. n] ==
            IF i = n THEN 0
            ELSE IF m[a + i] # m[b + i] THEN Char(m[a + i]) - Char(m[b + i]) ELSE stop[i + 1]
    IN  stop[0]
----------------------------------------------------------------------------
(***************************************************************************)
(* Formatting (stdio.c) and atoi (stdlib.c).  A text is a sequence of      *)
(* characters, a character a string of length one, and a digit its value;  *)
(* an int has the range IntMin .. IntMax, whose least value the code       *)
(* prints from a literal.                                                  *)
(***************************************************************************)
CONSTANTS IntMin, IntMax,
          MinText    \* the literal int_to_str prints for IntMin
ASSUME PrintAssumption ==
    IntMin \in Int /\ IntMin < 0 /\ IntMax = -(IntMin + 1) /\ MinText \in Seq(STRING)

DigitChars == <<"0", "1", "2", "3", "4", "5", "6", "7", "8", "9">>
IsDigit(c) == \E d \in 1 .. 10 : DigitChars[d] = c
DigitValue(c) == (CHOOSE d \in 1 .. 10 : DigitChars[d] = c) - 1

(* The digits as the loop finds them, the last first.                      *)
Digits[n \in 0 .. 2 * IntMax + 1] ==
    IF n = 0 THEN <<>> ELSE <<DigitChars[(n % 10) + 1]>> \o Digits[n \div 10]

uint_to_str(n) == IF n = 0 THEN <<"0">> ELSE Reverse(Digits[n])

(* A slip: the reversal begins at the sign.                                *)
int_to_strAll(n) ==
    CASE n = IntMin -> MinText
      [] n # IntMin /\ n < 0 -> Reverse(<<"-">> \o Digits[-n])
      [] OTHER -> uint_to_str(n)
int_to_str(n) ==
    CASE n = IntMin -> MinText
      [] n # IntMin /\ n < 0 -> <<"-">> \o Reverse(Digits[-n])
      [] OTHER -> uint_to_str(n)

(* vsprintf.  slots is the argument area, one argument to a slot, and next *)
(* the slot to read; a slot of another kind prints as garbage.  %u reads a *)
(* 64-bit argument: one slot where a slot has 64 bits, and otherwise two,  *)
(* the first of them even, of which the low one is printed.  over says     *)
(* that the loop ran past the end of the format.                           *)
Even(i) == i + (i % 2)
ArgU(next, wide) == IF wide THEN next ELSE Even(next)
Text(slots, i, kind) ==
    IF i \notin DOMAIN slots \/ slots[i].kind # kind THEN <<"?">>
    ELSE CASE kind = "d" -> int_to_str(slots[i].value)
           [] kind = "u" -> uint_to_str(slots[i].value % (IntMax - IntMin + 1))
           [] kind = "s" -> slots[i].value

vsprintf(fmt, slots, first, wide) ==
    LET scan[i \in 1 .. Len(fmt) + 1] == [next \in Nat |->
            IF i = Len(fmt) + 1 THEN [out |-> <<>>, over |-> FALSE]
            ELSE IF fmt[i] # "%"
            THEN LET t == scan[i + 1][next] IN [t EXCEPT !.out = <<fmt[i]>> \o t.out]
            ELSE IF i = Len(fmt) THEN [out |-> <<"nul">>, over |-> TRUE]
            ELSE LET k == fmt[i + 1]
                     at == IF k = "u" THEN ArgU(next, wide) ELSE next
                     after == CASE k \in {"d", "s"} -> next + 1
                                [] k = "u" -> at + (IF wide THEN 1 ELSE 2)
                                [] OTHER -> next
                     t == scan[i + 2][after]
                 IN  [t EXCEPT !.out = (IF k \in {"d", "s", "u"} THEN Text(slots, at, k) ELSE <<k>>)
                                       \o t.out]]
    IN  scan[1][first]

atoi(text) ==
    LET skip[i \in 1 .. Len(text) + 1] ==
            IF i <= Len(text) /\ text[i] = " " THEN skip[i + 1] ELSE i
        read[i \in 1 .. Len(text) + 1] == [x \in Int |->
            IF i <= Len(text) /\ IsDigit(text[i]) THEN read[i + 1][x * 10 + DigitValue(text[i])] ELSE x]
    IN  read[skip[1]][0]
abs(x) == IF x < 0 THEN -x ELSE x

----------------------------------------------------------------------------
(* The calls.                                                              *)
CONSTANTS
    Operands,   \* double words given to the arithmetic other than division
    Texts,      \* strings given to printf
    Numbers,    \* ints given to printf
    Formats     \* formats given to printf
ASSUME OperandsAssumption == Operands \subseteq UDword
ASSUME PrintfAssumption ==   \* formats and texts are finite sequences
    (\A t \in Formats \cup Texts : t \in Seq(Range(t))) /\ Numbers \subseteq IntMin .. IntMax

VARIABLES
    call,   \* the function and its arguments
    pc,     \* "start", in the "loop" of __udivmoddi4, or "done"
    regs,   \* the locals of __udivmoddi4
    out     \* what the call returned
klibVars == <<call, pc, regs, out>>

Idle == Answered(0, 0)

(* The arguments callers may pass: a buffer lies in memory, a string ends, *)
(* and the str functions are given buffers that do not overlap.            *)
Room(p, n) == p + n <= Cells
Apart(d, s, n) == d + n <= s \/ s + n <= d
CopyFns == {"memmove", "memcpy", "memset", "memcmp"}
StrFns == {"strcpy", "strncpy", "strcat", "strcmp", "strncmp"}
LegalString(c) ==
    CASE c.fn \in {"memmove", "memcmp"} -> Room(c.d, c.n) /\ Room(c.s, c.n)
      [] c.fn = "memcpy" -> Room(c.d, c.n) /\ Room(c.s, c.n) /\ Apart(c.d, c.s, c.n)
      [] c.fn = "memset" -> Room(c.d, c.n) /\ c.s < Chars
      [] c.fn = "strncpy" -> /\ Ends(c.m, c.s) /\ Room(c.d, c.n)
                             /\ c.d + c.n <= c.s \/ c.s + strlen(c.m, c.s) < c.d
      [] c.fn = "strcpy" -> /\ Ends(c.m, c.s) /\ c.n = 0
                            /\ Room(c.d, strlen(c.m, c.s) + 1)
                            /\ Apart(c.d, c.s, strlen(c.m, c.s) + 1)
      [] c.fn = "strcat" -> /\ Ends(c.m, c.s) /\ Ends(c.m, c.d) /\ c.n = 0
                            /\ Room(c.d + strlen(c.m, c.d), strlen(c.m, c.s) + 1)
                            /\ \/ c.d + strlen(c.m, c.d) + strlen(c.m, c.s) < c.s
                               \/ c.s + strlen(c.m, c.s) < c.d
      [] c.fn = "strcmp" -> Ends(c.m, c.s) /\ Ends(c.m, c.d) /\ c.n = 0
      [] c.fn = "strncmp" -> Ends(c.m, c.s) /\ Ends(c.m, c.d)

(* Each conversion of the format has its argument in the next slot.        *)
Conversions(fmt) ==
    LET at[i \in 1 .. Len(fmt) + 2] ==
            IF i >= Len(fmt) THEN <<>>
            ELSE IF fmt[i] # "%" THEN at[i + 1]
            ELSE (IF fmt[i + 1] \in {"d", "s", "u"} THEN <<fmt[i + 1]>> ELSE <<>>) \o at[i + 2]
    IN  at[1]
Fits(fmt, args) ==
    /\ Len(args) = Len(Conversions(fmt))
    /\ \A i \in DOMAIN args : args[i].kind = Conversions(fmt)[i]
Arguments == [kind : {"d", "u"}, value : Numbers] \cup [kind : {"s"}, value : Texts]
ArgumentLists == UNION {[1 .. n -> Arguments] : n \in 0 .. 2}

Calls ==
    \/ call \in [fn : {"__udivmoddi4"}, a : UDword, b : UDword]
    \/ call \in [fn : {"__divdi3", "__moddi3", "__divmoddi4"}, a : Operands, b : Operands \ {0}]
    \/ call \in [fn : {"__muldi3"}, a : Operands, b : Operands]
    \/ call \in [fn : {"__ashldi3"}, a : Operands, b : 0 .. 2 * HalfBits - 1]
    \/ call \in [fn : {"__clzdi2", "__ctzdi2"}, a : UDword \ {0}, b : {0}]
    \/ call \in [fn : {"count_leading_zeros", "count_trailing_zeros"}, a : UWord \ {0}, b : {0}]
    \/ call \in [fn : {"umul_ppmm"}, a : UWord, b : UWord]
    \/ call \in [fn : {"add_ssaaaa", "sub_ddmmss"}, a : Operands, b : Operands]
    \/ /\ call \in [fn : {"udiv_qrnnd"}, a : UDword, b : Half \div 2 .. Half - 1]
       /\ high(call.a) < call.b
    \/ /\ call \in [fn : CopyFns \cup StrFns, m : Memory, d : 0 .. Cells - 1,
                    s : 0 .. Cells - 1, n : 0 .. Cells - 1]
       /\ LegalString(call)
    \/ /\ call \in [fn : {"printf"}, fmt : Formats, args : ArgumentLists,
                    first : {1, 2}, wide : BOOLEAN]
       /\ Fits(call.fmt, call.args)
    \/ call \in [fn : {"int_to_str"}, n : IntMin .. IntMax]

Result(c) ==
    CASE c.fn = "__divdi3"    -> divdi3(c.a, c.b)
      [] c.fn = "__moddi3"    -> moddi3(c.a, c.b)
      [] c.fn = "__divmoddi4" -> divmoddi4(c.a, c.b)
      [] c.fn = "__muldi3"    -> multi3(c.a, c.b)
      [] c.fn = "__ashldi3"   -> ashldi3(c.a, c.b)
      [] c.fn = "__clzdi2"    -> clzdi2(c.a)
      [] c.fn = "__ctzdi2"    -> ctzdi2(c.a)
      [] c.fn = "count_leading_zeros"  -> count_leading_zeros(c.a)
      [] c.fn = "count_trailing_zeros" -> count_trailing_zeros(c.a)
      [] c.fn = "umul_ppmm"   -> umul_ppmm(c.a, c.b)
      [] c.fn = "add_ssaaaa"  -> add_ssaaaa(high(c.a), low(c.a), high(c.b), low(c.b))
      [] c.fn = "sub_ddmmss"  -> sub_ddmmss(high(c.a), low(c.a), high(c.b), low(c.b))
      [] c.fn = "udiv_qrnnd"  -> udiv_qrnnd_c(high(c.a), low(c.a), c.b)
      [] c.fn = "memmove"     -> memmove(c.m, c.d, c.s, c.n)
      [] c.fn = "memcpy"      -> memcpy(c.m, c.d, c.s, c.n)
      [] c.fn = "memset"      -> memset(c.m, c.d, c.s, c.n)
      [] c.fn = "memcmp"      -> memcmp(c.m, c.d, c.s, c.n)
      [] c.fn = "strcpy"      -> strcpy(c.m, c.d, c.s)
      [] c.fn = "strncpy"     -> strncpy(c.m, c.d, c.s, c.n)
      [] c.fn = "strcat"      -> strcat(c.m, c.d, c.s)
      [] c.fn = "strcmp"      -> strcmp(c.m, c.d, c.s)
      [] c.fn = "strncmp"     -> strncmp(c.m, c.d, c.s, c.n)
      [] c.fn = "printf"      -> vsprintf(c.fmt, [i \in c.first .. c.first + Len(c.args) - 1 |->
                                                  c.args[i - c.first + 1]], c.first, c.wide)
      [] c.fn = "int_to_str"  -> int_to_str(c.n)

Init == Calls /\ pc = "start" /\ regs = Idle /\ out = <<>>

Divide ==
    /\ pc = "start" /\ call.fn = "__udivmoddi4"
    /\ regs' = Begin(call.a, call.b)
    /\ pc' = IF regs'.done THEN "done" ELSE "loop"
    /\ UNCHANGED <<call, out>>
DivideRound ==
    /\ pc = "loop" /\ regs.sr > 0
    /\ regs' = Round(regs, call.b)
    /\ UNCHANGED <<call, pc, out>>
DivideReturn ==
    /\ pc = "loop" /\ regs.sr = 0
    /\ regs' = Finish(regs) /\ pc' = "done"
    /\ UNCHANGED <<call, out>>
Answer ==
    /\ pc = "start" /\ call.fn # "__udivmoddi4"
    /\ out' = Result(call) /\ pc' = "done"
    /\ UNCHANGED <<call, regs>>

Next == Divide \/ DivideRound \/ DivideReturn \/ Answer
Spec == Init /\ [][Next]_klibVars

-----------------------------------------------------------------------------
(* In every round of the division's loop the dividend is what the quotient *)
(* bits found so far account for, plus the partial remainder and the bits  *)
(* still to come, and the remainder is below the divisor: no bit is lost   *)
(* by the shifts and the sign of d - r - 1 never lies (int64.c:597-620).   *)
LoopDivides ==
    pc = "loop" =>
        LET todo  == Pow2[regs.sr]
            found == Pow2[2 * HalfBits - regs.sr]
        IN  /\ regs.r < call.b
            /\ call.a = (2 * (regs.q % found) + regs.carry) * todo * call.b
                        + regs.r * todo + (regs.q \div found)

(* Every arithmetic call answers what the mathematical operation says, in  *)
(* two's complement where it is signed; division by zero alone traps       *)
(* (int64.c, libgcc/multi3.c, ashldi3.c and longlong.h).                   *)
Trunc(a, b) == IF (a < 0) = (b < 0) THEN (IF a < 0 THEN -a ELSE a) \div (IF b < 0 THEN -b ELSE b)
               ELSE -((IF a < 0 THEN -a ELSE a) \div (IF b < 0 THEN -b ELSE b))
LogFloor(x) == CHOOSE k \in 0 .. 2 * HalfBits : Pow2[k] <= x /\ x < Pow2[k + 1]
LowestBit(x) == CHOOSE k \in 0 .. 2 * HalfBits : x % Pow2[k] = 0 /\ x % Pow2[k + 1] # 0
ArithmeticRight ==
    pc = "done" =>
        LET a == call.a  b == call.b  sa == Signed(call.a)  sb == Signed(call.b) IN
        CASE call.fn = "__udivmoddi4" ->
                IF b = 0 THEN regs.trap ELSE ~regs.trap /\ regs.q = a \div b /\ regs.r = a % b
          [] call.fn = "__divdi3"  -> out = Bits(Trunc(sa, sb))
          [] call.fn = "__moddi3"  -> out = Bits(sa - sb * Trunc(sa, sb))
          [] call.fn = "__divmoddi4" -> out = [q |-> Bits(Trunc(sa, sb)),
                                               r |-> Bits(sa - sb * Trunc(sa, sb))]
          [] call.fn = "__muldi3"  -> out = Bits(sa * sb)
          [] call.fn = "__ashldi3" -> out = Bits(a * Pow2[b])
          [] call.fn = "__clzdi2"  -> out = 2 * HalfBits - 1 - LogFloor(a)
          [] call.fn = "__ctzdi2"  -> out = LowestBit(a)
          [] call.fn = "count_leading_zeros" -> out = HalfBits - 1 - LogFloor(a)
          [] call.fn = "count_trailing_zeros" -> out = LowestBit(a)
          [] call.fn = "umul_ppmm" -> out = a * b
          [] call.fn = "add_ssaaaa" -> out = Bits(a + b)
          [] call.fn = "sub_ddmmss" -> out = Bits(a - b)
          [] call.fn = "udiv_qrnnd" -> out = [q |-> a \div b, r |-> a % b]
          [] OTHER -> TRUE

(* The memory functions leave exactly the promised bytes, wherever the two *)
(* buffers of memmove overlap, and touch nothing else; a comparison tells  *)
(* equal from unequal, and orders strings as their chars (string.c).       *)
String(m, s) == [i \in 1 .. strlen(m, s) + 1 |-> m[s + i - 1]]
Block(m, s, n) == [i \in 1 .. n |-> m[s + i - 1]]
Copied(m, d, block) == [i \in DOMAIN m |-> IF i \in d .. d + Len(block) - 1 THEN block[i - d + 1] ELSE m[i]]
Order(a, b) ==
    LET stop == {i \in 1 .. Len(a) : i > Len(b) \/ a[i] # b[i]}
        i == CHOOSE k \in stop : \A j \in stop : k <= j
    IN  IF stop = {} THEN 0 ELSE IF Char(a[i]) < Char(b[i]) THEN -1 ELSE 1
Sign(x) == IF x = 0 THEN 0 ELSE IF x < 0 THEN -1 ELSE 1
FirstOf(t, n) == IF Len(t) <= n THEN t ELSE SubSeq(t, 1, n)
Padded(t, n) == [i \in 1 .. n |-> IF i <= Len(t) THEN t[i] ELSE 0]
StringsRight ==
    pc = "done" /\ call.fn \in CopyFns \cup StrFns =>
        LET m == call.m  d == call.d  s == call.s  n == call.n IN
        CASE call.fn \in {"memmove", "memcpy"} -> out = Copied(m, d, Block(m, s, n))
          [] call.fn = "memset"  -> out = Copied(m, d, [i \in 1 .. n |-> s])
          [] call.fn = "memcmp"  -> Sign(out) = Order(Block(m, d, n), Block(m, s, n))
          [] call.fn = "strcpy"  -> out = Copied(m, d, String(m, s))
          [] call.fn = "strncpy" -> out = Copied(m, d, Padded(String(m, s), n))
          [] call.fn = "strcat"  -> String(out, d) = Front(String(m, d)) \o String(m, s)
          [] call.fn = "strcmp"  -> Sign(out) = Order(String(m, d), String(m, s))
          [] call.fn = "strncmp" -> Sign(out) = Order(FirstOf(String(m, d), n), FirstOf(String(m, s), n))

(* printf puts out its format with every conversion replaced by its        *)
(* argument in decimal, also the least int; where a slot has 64 bits, or   *)
(* the format has no %u, and it does not end in a lone % (stdio.c:26).    *)
(* What it prints for an int that is not negative, atoi reads back.        *)
Decimal[n \in Nat] == IF n < 10 THEN <<DigitChars[n + 1]>>
                      ELSE Decimal[n \div 10] \o <<DigitChars[(n % 10) + 1]>>
ASSUME LiteralAssumption == MinText = <<"-">> \o Decimal[-IntMin]
Shown(arg) == CASE arg.kind = "d" -> (IF arg.value < 0 THEN <<"-">> ELSE <<>>) \o Decimal[abs(arg.value)]
                [] arg.kind = "u" -> Decimal[arg.value % (IntMax - IntMin + 1)]
                [] arg.kind = "s" -> arg.value
Expected(fmt, args) ==
    LET at[i \in 1 .. Len(fmt) + 1] == [k \in Nat |->
            IF i > Len(fmt) THEN <<>>
            ELSE IF fmt[i] # "%" THEN <<fmt[i]>> \o at[i + 1][k]
            ELSE IF i = Len(fmt) THEN <<>>
            ELSE IF fmt[i + 1] \in {"d", "s", "u"} /\ k \in DOMAIN args THEN Shown(args[k]) \o at[i + 2][k + 1]
            ELSE <<fmt[i + 1]>> \o at[i + 2][k]]
    IN  at[1][1]
PrintsRight ==
    pc = "done" =>
        CASE call.fn = "printf" /\ (call.wide \/ \A i \in DOMAIN call.args : call.args[i].kind # "u") ->
                out.over \/ out.out = Expected(call.fmt, call.args)
          [] call.fn = "int_to_str" ->
                /\ out = Shown([kind |-> "d", value |-> call.n])
                /\ call.n >= 0 => atoi(<<" ">> \o out) = call.n
          [] OTHER -> TRUE
=============================================================================
