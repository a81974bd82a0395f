----------------------------- MODULE MCDifftest -----------------------------
(***************************************************************************)
(* The simulator on eight-bit words (two-bit bytes): memory from address   *)
(* 128 on, the clock and the serial port above it, and every program of    *)
(* three instructions over an alphabet, closed by ebreak.                  *)
(***************************************************************************)
EXTENDS Difftest, SmallWords

CONSTANT Alphabet

MCReg == 0 .. 3
MCGpr == [r \in MCReg |-> IF r = 3 THEN 128 ELSE r]
MCInitMem == [v \in MCWord |-> IF v % 5 = 1 THEN 2 ELSE 0]
MCPmem == 128 .. 191
MCRtc == 224 .. 227
MCSerial == 240

Ebreak  == I("system", "ebreak", 0, 0, 1, 1)
Illegal == I("other", "none", 0, 0, 0, 0)
MCPrograms == [1 .. 3 -> Alphabet]
MCFetch(p, v) ==
    LET slot == (v - 128) \div 4 + 1
    IN  IF slot \in 1 .. 3 THEN p[slot] ELSE IF slot = 4 THEN Ebreak ELSE Illegal

(* Ordinary programs.  The last registers' sums leave the pc even.         *)
AlphabetPlain ==
    { I("I", "add", 1, 1, 0, 3),       I("R", "sub", 2, 3, 1, 0),
      I("load", "lw", 2, 3, 1, 33),    I("store", "sh", 0, 3, 2, 33),
      I("branch", "bne", 0, 1, 2, 8),  I("jal", "none", 1, 0, 0, 8),
      I("jalr", "none", 2, 3, 0, 8),   I("system", "ebreak", 0, 0, 1, 1) }
(* With the clock and the serial port.                                     *)
AlphabetDevice ==
    { I("I", "add", 1, 1, 0, 3),       I("load", "lw", 2, 3, 0, 96),
      I("store", "sb", 0, 3, 1, 112) }
(* With a failing result: register 2 is a0.                                *)
AlphabetFail == { I("I", "add", 2, 0, 0, 1), I("I", "add", 2, 0, 0, 0) }
=============================================================================
