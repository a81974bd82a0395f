--------------------------- MODULE PipelineProps ---------------------------
(***************************************************************************)
(* What the five-stage core promises: seen through the instructions still  *)
(* in flight, it is the sequential machine of Isa.                         *)
(***************************************************************************)
EXTENDS Pipeline

RegDType == [instr : Instr, pc : Word, prePc : Word, commit : BOOLEAN]
RegEType ==
    [valA : Word, valB : Word, imm : Word, selA : {"valA", "pc", "zero"},
     selB : {"valB", "imm"}, func : AluFuncs,
     memRw : LoadFuncs \cup StoreFuncs \cup {"none"}, wen : BOOLEAN, rd : Reg,
     selD : {"valE", "valM", "valP"}, needJump : BOOLEAN, isJalr : BOOLEAN,
     instr : Instr, pc : Word, prePc : Word, commit : BOOLEAN]
RegMType ==
    [valE : Word, valB : Word, memRw : LoadFuncs \cup StoreFuncs \cup {"none"},
     wen : BOOLEAN, rd : Reg, selD : {"valE", "valM", "valP"},
     instr : Instr, pc : Word, prePc : Word, commit : BOOLEAN]
RegWType ==
    [valE : Word, valM : Word, wen : BOOLEAN, rd : Reg, selD : {"valE", "valM", "valP"},
     instr : Instr, pc : Word, prePc : Word, commit : BOOLEAN]

(* Every register of the core holds a value of its width; a sum that is    *)
(* not cut to the word, or a field a bubble forgets, breaks it.            *)
TypeOK ==
    /\ prog \in Programs
    /\ regF \in Word
    /\ regD \in RegDType /\ regE \in RegEType /\ regM \in RegMType /\ regW \in RegWType
    /\ gpr \in [Reg -> Word]
    /\ mem \in [Word -> Byte]

-----------------------------------------------------------------------------
(* The state the program will see once the instructions past decode have   *)
(* drained: the pc of the next instruction to leave decode, the register   *)
(* file with the results of regW, regM and regE written in that order,     *)
(* and the memory with the stores of regM and regE done.                   *)
DrainedE  == AsM(regE)
MemAfterM == MemOut(regM, mem)

VisPc  == IF regE.needJump THEN ValE(regE) ELSE IF regD.commit THEN regD.pc ELSE regF
VisMem == MemOut(DrainedE, MemAfterM)
VisGpr == Commit(Commit(Commit(gpr, regW),
                        AsW(regM, ValM(regM, mem))),
                 AsW(DrainedE, ValM(DrainedE, MemAfterM)))

Core == INSTANCE Isa WITH pc <- VisPc, gpr <- VisGpr, mem <- VisMem

(* The core implements the sequential machine: every clock edge is one     *)
(* instruction of the program, executed on the visible state, or changes   *)
(* nothing visible, whatever is stalled, squashed or forwarded (up to the  *)
(* two departures the dialect names).                                      *)
CoreRefinesDialect == Core!DialectSpec

(* The same against the instruction set itself.                            *)
CoreRefinesIsa == Core!Spec

(* The bookkeeping of the stages: a bubble can neither jump, write, load   *)
(* nor store; decode holds the fetched instruction just before the pc in   *)
(* fetch; a load never jumps; and while a jump's link value is in memory,  *)
(* where it is not forwarded, the two stages behind it are bubbles.        *)
StageInv ==
    /\ ~regD.commit => regD = BubbleD
    /\ regD.commit => /\ regD.instr = Fetch(prog, regD.pc)
                      /\ regD.prePc = Plus(regD.pc, 4)
                      /\ regF = regD.prePc
    /\ ~regE.commit => regE.rd = 0 /\ regE.memRw = "none" /\ ~regE.needJump /\ ~regE.isJalr
    /\ regE.memRw \in LoadFuncs => ~regE.needJump /\ regE.selD = "valM"
    /\ regE.isJalr => regE.needJump
    /\ regE.selD = "valP" => regE.needJump
    /\ regE.selD = "valM" /\ regE.wen /\ regE.rd # 0 => regE.memRw \in LoadFuncs
    /\ regM.selD = "valP" => ~regD.commit /\ ~regE.commit

(* An operand that decode passes on is the register's value after all the  *)
(* older instructions: the forwarding chain of decode.v:266-279 never      *)
(* serves an older writer over a younger one and never reads the register  *)
(* file too early.                                                         *)
Issues == regD.commit /\ ~LoadUse /\ ~BranchBubble
ForwardingCorrect ==
    Issues =>
        LET i == regD.instr
            valM == ValM(regM, mem)
        IN  /\ Rs1(i) # 0 => Forward(Rs1(i), i.rs1, valM) = VisGpr[Rs1(i)]
            /\ Rs2(i) # 0 => Forward(Rs2(i), i.rs2, valM) = VisGpr[Rs2(i)]

(* The stages hold consecutive instructions of the program: the next       *)
(* committing instruction after the one in write back, memory or execute   *)
(* is the one its prePc announces (bit 0 apart), so nothing on a wrong     *)
(* path is ever committed and nothing is skipped.  sim.c:97-98 hands these *)
(* two to the difftest.                                                    *)
Announces(prePc, p) == prePc \in {p, ClearBit0(p)}
CommitChain ==
    /\ regW.commit =>
         Announces(regW.prePc, IF regM.commit THEN regM.pc
                               ELSE IF regE.commit THEN regE.pc ELSE VisPc)
    /\ regM.commit => Announces(regM.prePc, IF regE.commit THEN regE.pc ELSE VisPc)
    /\ regE.commit => Announces(PrePc(regE), VisPc)

(* An ebreak word that reaches write back is an instruction that commits,  *)
(* never the word a bubble left in regE (the bubble clears every other     *)
(* field, regE.v:48-69): write_back.v:19-23 stops the simulation on the    *)
(* word alone.  The word of a bubble is that of a load or a jump.          *)
EbreakCommits ==
    /\ regW.instr.func = "ebreak" => regW.commit
    /\ regM.instr.func = "ebreak" => regM.commit
    /\ regE.instr.func = "ebreak" =>
         regE.commit /\ regE.memRw \notin LoadFuncs /\ ~regE.needJump

(* The core keeps committing: the loop of sim.c:94-96 that clocks it until *)
(* the next commit ends.                                                   *)
CommitsForever == []<>(regW.commit)
=============================================================================
