----------------------------- MODULE SmallWords -----------------------------
(***************************************************************************)
(* RV32I on words of four small bytes, for TLC: the data operators IsaOps  *)
(* leaves as constants, computed as execute.v and memory.v compute them on *)
(* 32 bits.                                                                *)
(***************************************************************************)
EXTENDS Integers, Bitwise

CONSTANT BitsPerByte

B == 2 ^ BitsPerByte
W == B ^ 4
MCWord   == 0 .. W - 1
MCByte   == 0 .. B - 1
Signed(v) == IF v >= W \div 2 THEN v - W ELSE v
Bit(b)    == IF b THEN 1 ELSE 0

MCAlu(f, a, b) ==
    CASE f = "add"  -> (a + b) % W
      [] f = "sub"  -> (a + W - b) % W
      [] f = "sll"  -> (a * 2 ^ (b % (4 * BitsPerByte))) % W
      [] f = "slt"  -> Bit(Signed(a) < Signed(b))
      [] f = "sltu" -> Bit(a < b)
      [] f = "xor"  -> a ^^ b
      [] f = "srl"  -> a \div 2 ^ (b % (4 * BitsPerByte))
      [] f = "sra"  -> (Signed(a) \div 2 ^ (b % (4 * BitsPerByte))) % W
      [] f = "or"   -> a | b
      [] f = "and"  -> a & b

MCTaken(f, a, b) ==
    CASE f = "beq"  -> a = b
      [] f = "bne"  -> a # b
      [] f = "blt"  -> Signed(a) < Signed(b)
      [] f = "bge"  -> Signed(a) >= Signed(b)
      [] f = "bltu" -> a < b
      [] f = "bgeu" -> a >= b

(* Little endian: the first byte is the least significant.                 *)
MCLane(d, k) == (d \div B ^ k) % B
SignExtend(v, w) == IF v >= w \div 2 THEN v + W - w ELSE v
MCJoin(f, b0, b1, b2, b3) ==
    CASE f = "lb"  -> SignExtend(b0, B)
      [] f = "lbu" -> b0
      [] f = "lh"  -> SignExtend(b0 + B * b1, B ^ 2)
      [] f = "lhu" -> b0 + B * b1
      [] f = "lw"  -> b0 + B * b1 + B ^ 2 * b2 + B ^ 3 * b3

(* An instruction from its fields.                                         *)
I(t, f, rd, rs1, rs2, imm) ==
    [type |-> t, func |-> f, rd |-> rd, rs1 |-> rs1, rs2 |-> rs2, imm |-> imm]
=============================================================================
