------------------------------ MODULE Pipeline ------------------------------
(***************************************************************************)
(* The five-stage core of IP/pipeline-cpu, one step per clock edge.        *)
(*                                                                         *)
(* Each pipeline register is a variable and each "always @(posedge clk)"   *)
(* block a conjunct of Cycle; the wires between them are operators.  The   *)
(* program is kept apart from the data memory: an instruction that stores  *)
(* over the (at most four) instructions already fetched is outside this    *)
(* model, and outside what the core handles.                               *)
(***************************************************************************)
EXTENDS IsaOps

VARIABLES
    prog,   \* the program in memory, fixed during a run
    regF,   \* the pc being fetched
    regD,   \* between fetch and decode
    regE,   \* between decode and execute
    regM,   \* between execute and memory
    regW,   \* between memory and write back
    gpr,    \* the register file
    mem     \* the data memory
vars == <<prog, regF, regD, regE, regM, regW, gpr, mem>>

Nop == [type |-> "I", func |-> "add", rd |-> 0, rs1 |-> 0, rs2 |-> 0, imm |-> 0]
(* The value of an instruction register nothing has been written to:       *)
(* the build starts them at zero, which decodes as no instruction.         *)
NoInstr == [type |-> "other", func |-> "none", rd |-> 0, rs1 |-> 0, rs2 |-> 0, imm |-> 0]

BubbleD == [instr |-> Nop, pc |-> 0, prePc |-> 0, commit |-> FALSE]

(* A slip: the bubble's mem_rw left at zero, which is the code of lb.      *)
BubbleLoads(instr) ==
    [valA |-> 0, valB |-> 0, imm |-> 0, selA |-> "valA", selB |-> "valB",
     func |-> "add", memRw |-> "lb", wen |-> FALSE, rd |-> 0, selD |-> "valE",
     needJump |-> FALSE, isJalr |-> FALSE,
     instr |-> instr, pc |-> 0, prePc |-> 0, commit |-> FALSE]

(* A bubble clears every field of regE but the instruction word.           *)
BubbleE(instr) ==
    [valA |-> 0, valB |-> 0, imm |-> 0, selA |-> "valA", selB |-> "valB",
     func |-> "add", memRw |-> "none", wen |-> FALSE, rd |-> 0, selD |-> "valE",
     needJump |-> FALSE, isJalr |-> FALSE,
     instr |-> instr, pc |-> 0, prePc |-> 0, commit |-> FALSE]

-----------------------------------------------------------------------------
(* Execute: the ALU on the operands regE selects.                          *)
AluA(e) == CASE e.selA = "valA" -> e.valA
             [] e.selA = "pc"   -> e.pc
             [] e.selA = "zero" -> 0
AluB(e) == IF e.selB = "valB" THEN e.valB ELSE e.imm

ValE(e)  == Alu(e.func, AluA(e), AluB(e))
PrePc(e) == CASE e.isJalr                   -> ClearBit0(ValE(e))
              [] e.needJump /\ ~e.isJalr    -> ValE(e)
              [] OTHER                      -> e.prePc

(* Memory: a load reads while it is in this stage, a store writes at the   *)
(* edge that ends it.                                                      *)
ValM(r, m)   == IF r.memRw \in LoadFuncs THEN Load(r.memRw, m, r.valE) ELSE 0
MemOut(r, m) == IF r.memRw \in StoreFuncs THEN Store(r.memRw, m, r.valE, r.valB) ELSE m

(* Write back: the value for the register file.                            *)
ValD(w) == CASE w.selD = "valE" -> w.valE
             [] w.selD = "valP" -> Plus(w.pc, 4)
             [] w.selD = "valM" -> w.valM

-----------------------------------------------------------------------------
(* Decode: which registers an instruction is taken to read.                *)
Rs1(i) == IF i.type \in {"I", "load", "jalr", "system", "branch", "store", "R"}
          THEN i.rs1 ELSE 0
Rs2(i) == IF i.type \in {"branch", "store", "R"} THEN i.rs2 ELSE 0

Hits(r, stage) == r = stage.rd /\ stage.rd # 0 /\ stage.wen

(* A slip: the older stage asked before the younger.                       *)
ForwardOldest(r, raw, valM) ==
    CASE Hits(r, regW)                           -> ValD(regW)
      [] ~Hits(r, regW) /\ Hits(r, regM) /\ regM.selD = "valM" -> valM
      [] ~Hits(r, regW) /\ Hits(r, regM) /\ regM.selD = "valE" -> regM.valE
      [] ~Hits(r, regW) /\ ~(Hits(r, regM) /\ regM.selD # "valP")
           /\ Hits(r, regE)                      -> ValE(regE)
      [] OTHER                                   -> ReadReg(gpr, raw)

(* The operand read as register r, which names field raw of the            *)
(* instruction in the register file: the youngest of the three stages      *)
(* ahead that is about to write it wins, and "valP" is not forwarded out   *)
(* of the memory stage.  valM is the value the memory stage is reading.    *)
Forward(r, raw, valM) ==
    CASE Hits(r, regE)                           -> ValE(regE)
      [] ~Hits(r, regE) /\ Hits(r, regM) /\ regM.selD = "valM" -> valM
      [] ~Hits(r, regE) /\ Hits(r, regM) /\ regM.selD = "valE" -> regM.valE
      [] ~Hits(r, regE) /\ ~(Hits(r, regM) /\ regM.selD # "valP")
           /\ Hits(r, regW)                      -> ValD(regW)
      [] OTHER                                   -> ReadReg(gpr, raw)

SelA(i) == CASE i.type \in {"I", "load", "jalr", "system", "R", "store"} -> "valA"
             [] i.type \in {"jal", "branch", "auipc"}                    -> "pc"
             [] OTHER                                                    -> "zero"
SelB(i) == IF i.type \in {"R", "other"} THEN "valB" ELSE "imm"
SelD(i) == CASE i.type \in {"R", "I", "lui", "auipc"} -> "valE"
             [] i.type \in {"jal", "jalr"}            -> "valP"
             [] OTHER                                 -> "valM"
MemRw(i) == CASE IsSwallowedStore(i)                                  -> "none"
              [] i.type \in {"load", "store"} /\ ~IsSwallowedStore(i) -> i.func
              [] OTHER                                                -> "none"
NeedJump(i, a, b) ==
    i.type \in {"jal", "jalr"} \/ (i.type = "branch" /\ Taken(i.func, a, b))

(* What regE takes over when the instruction in regD moves on with the     *)
(* operands a and b.                                                       *)
Decoded(d, a, b) ==
    [valA |-> a, valB |-> b,
     imm  |-> IF d.instr.type \in {"R", "other"} THEN 0 ELSE d.instr.imm,
     selA |-> SelA(d.instr), selB |-> SelB(d.instr),
     func |-> IF d.instr.type \in {"R", "I"} THEN d.instr.func ELSE "add",
     memRw |-> MemRw(d.instr), wen |-> WritesReg(d.instr), rd |-> d.instr.rd,
     selD |-> SelD(d.instr),
     needJump |-> NeedJump(d.instr, a, b), isJalr |-> d.instr.type = "jalr",
     instr |-> d.instr, pc |-> d.pc, prePc |-> d.prePc, commit |-> d.commit]

-----------------------------------------------------------------------------
(* A slip: the second operand forgotten.                                   *)
LoadUseRs1 == regE.memRw \in LoadFuncs /\ regE.rd = Rs1(regD.instr)

(* Hazards: a load in execute that writes a register decode reads stalls   *)
(* fetch and decode; a jump in execute squashes what was fetched after it. *)
LoadUse ==
    /\ regE.memRw \in LoadFuncs
    /\ regE.rd \in {Rs1(regD.instr), Rs2(regD.instr)}
BranchBubble == regE.needJump

EdgeF == regF' = IF LoadUse THEN regF
                 ELSE IF regE.needJump THEN ValE(regE) ELSE Plus(regF, 4)

(* Slips: a 33-bit sum, and a jump that squashes nothing in decode.        *)
EdgeDWide == regD' = IF BranchBubble THEN BubbleD
                     ELSE IF LoadUse THEN regD
                     ELSE [instr |-> Fetch(prog, regF), pc |-> regF, prePc |-> regF + 4,
                           commit |-> TRUE]
EdgeDKeeps == regD' = IF LoadUse THEN regD
                      ELSE [instr |-> Fetch(prog, regF), pc |-> regF, prePc |-> Plus(regF, 4),
                            commit |-> TRUE]

EdgeD == regD' = IF BranchBubble THEN BubbleD
                 ELSE IF LoadUse THEN regD
                 ELSE [instr |-> Fetch(prog, regF), pc |-> regF, prePc |-> Plus(regF, 4),
                       commit |-> TRUE]

(* A slip: the bubble takes the word decode holds.                         *)
EdgeETakes(valM) ==
    regE' = IF BranchBubble \/ LoadUse THEN BubbleE(regD.instr)
            ELSE Decoded(regD, Forward(Rs1(regD.instr), regD.instr.rs1, valM),
                               Forward(Rs2(regD.instr), regD.instr.rs2, valM))

EdgeE(valM) ==
    regE' = IF BranchBubble \/ LoadUse THEN BubbleE(regE.instr)
            ELSE Decoded(regD, Forward(Rs1(regD.instr), regD.instr.rs1, valM),
                               Forward(Rs2(regD.instr), regD.instr.rs2, valM))

AsM(e) == [valE |-> ValE(e), valB |-> e.valB, memRw |-> e.memRw,
           wen |-> e.wen, rd |-> e.rd, selD |-> e.selD,
           instr |-> e.instr, pc |-> e.pc, prePc |-> PrePc(e), commit |-> e.commit]
EdgeM == regM' = AsM(regE)

AsW(r, valM) == [valE |-> r.valE, valM |-> valM,
                 wen |-> r.wen, rd |-> r.rd, selD |-> r.selD,
                 instr |-> r.instr, pc |-> r.pc, prePc |-> r.prePc, commit |-> r.commit]
EdgeW(valM) == regW' = AsW(regM, valM)

Commit(g, w) == IF w.wen THEN WriteReg(g, w.rd, ValD(w)) ELSE g
EdgeRegfile == gpr' = Commit(gpr, regW)

(* One clock edge; valM is what the memory stage reads and m the memory    *)
(* after its write (the harness answers for device addresses).             *)
CycleWith(valM, m) ==
    /\ EdgeF /\ EdgeD /\ EdgeE(valM) /\ EdgeM /\ EdgeW(valM) /\ EdgeRegfile
    /\ mem' = m
    /\ UNCHANGED prog

Cycle == CycleWith(ValM(regM, mem), MemOut(regM, mem))

(* The state npc_reset(3) leaves (sim.c:67-71).                            *)
Init ==
    /\ prog \in Programs
    /\ regF = ResetPc
    /\ regD = BubbleD
    /\ regE = BubbleE(NoInstr)
    /\ regM = [valE |-> 0, valB |-> 0, memRw |-> "none", wen |-> FALSE, rd |-> 0,
               selD |-> "valE", instr |-> NoInstr, pc |-> 0, prePc |-> 0, commit |-> FALSE]
    /\ regW = [valE |-> 0, valM |-> 0, wen |-> FALSE, rd |-> 0,
               selD |-> "valE", instr |-> NoInstr, pc |-> 0, prePc |-> 0, commit |-> FALSE]
    /\ gpr = InitGpr
    /\ mem = InitMem

Next == Cycle

Spec     == Init /\ [][Next]_vars
FairSpec == Spec /\ WF_vars(Next)
=============================================================================
