----------------------------- MODULE MCPipeline -----------------------------
(***************************************************************************)
(* The core on four-bit words: a byte is one bit, so that sb, sh and sw    *)
(* write 1, 2 and 4 bits and the address space holds sixteen bytes, four   *)
(* instructions, after which the pc wraps.  The run explores every program *)
(* of four instructions over each of two alphabets.                        *)
(***************************************************************************)
EXTENDS PipelineProps, SmallWords

MCReg == 0 .. 2

(* Data hazards: writers of x1 and x2 of every kind, and their readers.    *)
AlphabetData ==
    { I("R", "sub", 1, 1, 2, 0),      I("I", "add", 2, 1, 0, 3),
      I("load", "lw", 1, 2, 0, 0),    I("load", "lh", 2, 1, 2, 1),
      I("store", "sw", 0, 2, 1, 0),   I("store", "sb", 0, 1, 2, 1),
      I("auipc", "none", 1, 2, 1, 5), I("branch", "blt", 0, 1, 2, 8),
      I("jal", "none", 2, 1, 1, 8) }
(* Control flow: every way to jump, with the operands just computed.       *)
AlphabetControl ==
    { I("I", "xor", 1, 1, 0, 4),      I("load", "lbu", 1, 2, 0, 3),
      I("jal", "none", 1, 0, 0, 8),   I("jalr", "none", 2, 1, 0, 4),
      I("jalr", "none", 0, 1, 0, 0),  I("branch", "bne", 0, 1, 2, 12),
      I("branch", "bgeu", 2, 2, 1, 4), I("lui", "none", 2, 0, 0, 8),
      I("system", "ebreak", 0, 0, 1, 1), I("store", "sw", 0, 1, 0, 0) }

(* A misaligned fetch straddles two words; it is given the first of them.  *)
MCPrograms == [0 .. 3 -> AlphabetData] \cup [0 .. 3 -> AlphabetControl]
MCFetch(p, v) == p[v \div 4]
MCGpr == [r \in MCReg |-> r]
MCInitMem == [v \in MCWord |-> IF v \in {1, 4, 7, 8, 9} THEN 1 ELSE 0]
=============================================================================
