-------------------------------- MODULE Isa --------------------------------
(***************************************************************************)
(* The sequential machine: Spec follows the instruction set, DialectSpec   *)
(* what the five-stage core makes of it (see IsaOps).                      *)
(***************************************************************************)
EXTENDS IsaOps

VARIABLES prog, pc, gpr, mem
isaVars == <<prog, pc, gpr, mem>>

Init ==
    /\ prog \in Programs
    /\ pc = ResetPc
    /\ gpr = InitGpr
    /\ mem = InitMem

Execute(i, a, b) ==
    /\ pc'  = NextPc(i, pc, a, b)
    /\ gpr' = IF WritesReg(i) THEN WriteReg(gpr, i.rd, Value(i, pc, a, b, mem)) ELSE gpr
    /\ mem' = NextMem(i, a, b, mem)
    /\ UNCHANGED prog

Step == LET i == Fetch(prog, pc) IN Execute(i, ReadReg(gpr, i.rs1), ReadReg(gpr, i.rs2))

Spec == Init /\ [][Step]_isaVars

-----------------------------------------------------------------------------
DialectExecute(i, a, b) ==
    /\ pc'  = DialectPc(i, pc, a, b)
    /\ gpr' = IF WritesReg(i) THEN WriteReg(gpr, i.rd, Value(i, pc, a, b, mem)) ELSE gpr
    /\ mem' = DialectMem(i, a, b, mem)
    /\ UNCHANGED prog

DialectStep ==
    LET i == Fetch(prog, pc) IN DialectExecute(i, ReadReg(gpr, i.rs1), ReadReg(gpr, i.rs2))

DialectSpec == Init /\ [][DialectStep]_isaVars

(* The instruction that comes next is one of the two places where the      *)
(* dialect leaves the instruction set.                                     *)
Departs ==
    LET i == Fetch(prog, pc)
        target == Plus(ReadReg(gpr, i.rs1), i.imm)
    IN  IsSwallowedStore(i) \/ (i.type = "jalr" /\ ClearBit0(target) # target)
=============================================================================
