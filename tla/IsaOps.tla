------------------------------ MODULE IsaOps -------------------------------
(***************************************************************************)
(* The instruction set as a sequential machine: one instruction per step.  *)
(* It is what a program on the five-stage core relies on, and what the     *)
(* reference processor of the difftest (a shared object loaded at run      *)
(* time, difftest.c:33-56) executes.                                       *)
(*                                                                         *)
(* Data is abstract: a word is a member of Word, a memory a function from  *)
(* addresses to bytes, and the ALU, the branch comparison and the way      *)
(* loads and stores cut words into bytes are operators given as constants. *)
(*  An instruction is a record    *)
(* of its fields; "type" is what its opcode selects and "func" what its    *)
(* func3/func7 bits select within the type.                                *)
(***************************************************************************)
EXTENDS Naturals

CONSTANTS
    Word,              \* register values and byte addresses
    Reg,               \* register numbers, 0 among them
    Byte,              \* memory cells
    Alu(_, _, _),      \* Alu(func, a, b)
    Taken(_, _, _),    \* Taken(func, a, b): does the branch compare true?
    Join(_, _, _, _, _), \* Join(func, b0, b1, b2, b3): the value a load makes of them
    Lane(_, _),        \* Lane(data, k): byte k of a word
    Programs,          \* the programs a run may start with
    Fetch(_, _),       \* Fetch(prog, addr): the instruction word at addr
    InitGpr, InitMem, ResetPc

AluFuncs    == {"add", "sub", "sll", "slt", "sltu", "xor", "srl", "sra", "or", "and"}
LoadFuncs   == {"lb", "lbu", "lh", "lhu", "lw"}
StoreFuncs  == {"sb", "sh", "sw"}
BranchFuncs == {"beq", "bne", "blt", "bge", "bltu", "bgeu"}

Fields(types, funcs, rds) ==
    [type : types, func : funcs, rd : rds, rs1 : Reg, rs2 : Reg, imm : Word]

(* The instructions of a program.  "system" stands for ebreak and the CSR  *)
(* opcodes; the core does not implement the CSR instructions, so only      *)
(* those that name register 0 as destination are programs' instructions.   *)
Instr ==
    Fields({"R", "I"}, AluFuncs, Reg)
      \cup Fields({"load"}, LoadFuncs, Reg)
      \cup Fields({"store"}, StoreFuncs, Reg)
      \cup Fields({"branch"}, BranchFuncs, Reg)
      \cup Fields({"jal", "jalr", "lui", "auipc", "other"}, {"none"}, Reg)
      \cup Fields({"system"}, {"none", "ebreak"}, {0})

ASSUME WordAssumption ==
    /\ 0 .. 4 \subseteq Word /\ Word \subseteq Nat
    /\ \A v \in Word : v - (v % 2) \in Word
ASSUME RegAssumption == 0 \in Reg
ASSUME AluAssumption ==
    /\ \A f \in AluFuncs : \A a, b \in Word : Alu(f, a, b) \in Word
    /\ \A v \in Word : Alu("add", 0, v) = v
ASSUME TakenAssumption ==
    \A f \in BranchFuncs : \A a, b \in Word : Taken(f, a, b) \in BOOLEAN
ASSUME ProgramsAssumption == \A p \in Programs : \A v \in Word : Fetch(p, v) \in Instr
ASSUME BytesAssumption ==
    /\ \A f \in LoadFuncs : \A a, b, c, d \in Byte : Join(f, a, b, c, d) \in Word
    /\ \A v \in Word : \A k \in 0 .. 3 : Lane(v, k) \in Byte
ASSUME InitAssumption ==
    InitGpr \in [Reg -> Word] /\ InitMem \in [Word -> Byte] /\ ResetPc \in Word

-----------------------------------------------------------------------------
Plus(a, b) == Alu("add", a, b)
ClearBit0(v) == v - (v % 2)

(* Four bytes are read whatever the width, and the load keeps what it is   *)
(* about; a store writes one, two or four.                                 *)
Load(f, m, a) == Join(f, m[a], m[Plus(a, 1)], m[Plus(a, 2)], m[Plus(a, 3)])
Store(f, m, a, d) ==
    CASE f = "sb" -> [m EXCEPT ![a] = Lane(d, 0)]
      [] f = "sh" -> [m EXCEPT ![a] = Lane(d, 0), ![Plus(a, 1)] = Lane(d, 1)]
      [] f = "sw" -> [m EXCEPT ![a] = Lane(d, 0), ![Plus(a, 1)] = Lane(d, 1),
                               ![Plus(a, 2)] = Lane(d, 2), ![Plus(a, 3)] = Lane(d, 3)]

WriteReg(regs, r, v) == IF r = 0 THEN regs ELSE [regs EXCEPT ![r] = v]
ReadReg(regs, r)     == IF r = 0 THEN 0 ELSE regs[r]

WritesReg(i) == i.type \in {"R", "I", "load", "jalr", "jal", "lui", "auipc", "system"}

(* What the instruction i at p writes to its  destination register.        *)
Value(i, p, a, b, m) ==
    CASE i.type = "R"                -> Alu(i.func, a, b)
      [] i.type = "I"                -> Alu(i.func, a, i.imm)
      [] i.type = "lui"              -> i.imm
      [] i.type = "auipc"            -> Plus(p, i.imm)
      [] i.type = "load"             -> Load(i.func, m, Plus(a, i.imm))
      [] i.type \in {"jal", "jalr"}  -> Plus(p, 4)
      [] OTHER                       -> 0

(* Where the instruction goes next.                                        *)
NextPc(i, p, a, b) ==
    CASE i.type = "jal"                                -> Plus(p, i.imm)
      [] i.type = "jalr"                               -> ClearBit0(Plus(a, i.imm))
      [] i.type = "branch" /\ Taken(i.func, a, b)      -> Plus(p, i.imm)
      [] OTHER                                         -> Plus(p, 4)

NextMem(i, a, b, m) ==
    IF i.type = "store" THEN Store(i.func, m, Plus(a, i.imm), b) ELSE m

-----------------------------------------------------------------------------
(***************************************************************************)
(* The dialect the core executes.  It leaves the instruction set in two    *)
(* places: a jalr jumps to the sum of its operands with bit 0 as it is     *)
(* (select_pc.v:8), and the word 0x0000a023, "sw x0, 0(x1)", stores        *)
(* nothing (decode.v:309).                                                 *)
(***************************************************************************)
IsSwallowedStore(i) ==
    i.type = "store" /\ i.func = "sw" /\ i.rs1 = 1 /\ i.rs2 = 0 /\ i.imm = 0

DialectPc(i, p, a, b) ==
    IF i.type = "jalr" THEN Plus(a, i.imm) ELSE NextPc(i, p, a, b)
DialectMem(i, a, b, m) ==
    IF IsSwallowedStore(i) THEN m ELSE NextMem(i, a, b, m)
=============================================================================
