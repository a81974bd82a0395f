--------------------------- MODULE PipelineProofs ---------------------------
(***************************************************************************)
(* The core implements the sequential machine for every word width, every  *)
(* ALU, every memory and every program; and on the core the differential   *)
(* test raises no false alarm: the reference stands where the instructions *)
(* the core has committed left it, as long as the program keeps to what    *)
(* the comparison is made for.                                             *)
(***************************************************************************)
EXTENDS PipelineProps, Difftest, TLAPS

-----------------------------------------------------------------------------
(* Types of the wires                                                      *)

LEMMA SmallWords == 0 \in Word /\ 1 \in Word /\ 2 \in Word /\ 3 \in Word /\ 4 \in Word
  <1>1. 0 .. 4 \subseteq Word
    BY WordAssumption
  <1> QED BY <1>1

(* Sums stay words, and so does what a load reads.                         *)
LEMMA PlusType == \A a, b \in Word : Plus(a, b) \in Word
  BY AluAssumption DEF Plus, AluFuncs

LEMMA LoadType ==
  ASSUME NEW f \in LoadFuncs, NEW m \in [Word -> Byte], NEW a \in Word
  PROVE  Load(f, m, a) \in Word
  <1>1. Plus(a, 1) \in Word /\ Plus(a, 2) \in Word /\ Plus(a, 3) \in Word
    BY PlusType, SmallWords
  <1>2. m[a] \in Byte /\ m[Plus(a, 1)] \in Byte /\ m[Plus(a, 2)] \in Byte /\ m[Plus(a, 3)] \in Byte
    BY <1>1
  <1> QED BY <1>2, BytesAssumption DEF Load

LEMMA StoreType ==
  ASSUME NEW f \in StoreFuncs, NEW m \in [Word -> Byte], NEW a \in Word, NEW d \in Word
  PROVE  Store(f, m, a, d) \in [Word -> Byte]
  <1>1. \A k \in 0 .. 3 : Lane(d, k) \in Byte
    BY BytesAssumption
  <1>2. Lane(d, 0) \in Byte /\ Lane(d, 1) \in Byte /\ Lane(d, 2) \in Byte /\ Lane(d, 3) \in Byte
    BY <1>1
  <1> QED BY <1>2 DEF Store, StoreFuncs

(* The instruction fields every instruction has.                           *)
LEMMA InstrFields ==
  ASSUME NEW i \in Instr
  PROVE  /\ i.type \in {"R", "I", "load", "store", "branch", "jal", "jalr", "lui",
                        "auipc", "other", "system"}
         /\ i.rd \in Reg /\ i.rs1 \in Reg /\ i.rs2 \in Reg /\ i.imm \in Word
         /\ i.type \in {"R", "I"} => i.func \in AluFuncs
         /\ i.type = "load" => i.func \in LoadFuncs
         /\ i.type = "store" => i.func \in StoreFuncs
         /\ i.type = "branch" => i.func \in BranchFuncs
         /\ i.type = "system" => i.rd = 0
         /\ i.func = "ebreak" => i.type = "system"
  BY RegAssumption DEF Instr, Fields, AluFuncs, LoadFuncs, StoreFuncs, BranchFuncs

LEMMA NopType == Nop \in Instr /\ NoInstr \in Instr
  BY RegAssumption, SmallWords DEF Nop, NoInstr, Instr, Fields, AluFuncs

LEMMA ValEType ==
  ASSUME NEW e \in RegEType
  PROVE  ValE(e) \in Word
  <1>1. 0 \in Word
    BY SmallWords
  <1>2. AluA(e) \in Word /\ AluB(e) \in Word
    BY <1>1 DEF RegEType, AluA, AluB
  <1> QED BY <1>2, AluAssumption DEF ValE, RegEType

LEMMA PrePcType ==
  ASSUME NEW e \in RegEType
  PROVE  PrePc(e) \in Word
  BY ValEType, WordAssumption DEF PrePc, ClearBit0, RegEType

LEMMA AsMType ==
  ASSUME NEW e \in RegEType
  PROVE  AsM(e) \in RegMType
  BY ValEType, PrePcType DEF AsM, RegEType, RegMType

LEMMA ValMType ==
  ASSUME NEW r \in RegMType, NEW m \in [Word -> Byte]
  PROVE  ValM(r, m) \in Word
  BY LoadType, SmallWords DEF ValM, RegMType

LEMMA MemOutType ==
  ASSUME NEW r \in RegMType, NEW m \in [Word -> Byte]
  PROVE  MemOut(r, m) \in [Word -> Byte]
  BY StoreType DEF MemOut, RegMType

LEMMA AsWType ==
  ASSUME NEW r \in RegMType, NEW v \in Word
  PROVE  AsW(r, v) \in RegWType
  BY DEF AsW, RegMType, RegWType

LEMMA CommitType ==
  ASSUME NEW g \in [Reg -> Word], NEW w \in RegWType
  PROVE  Commit(g, w) \in [Reg -> Word]
  <1>1. ValD(w) \in Word
    BY PlusType, SmallWords DEF ValD, RegWType
  <1> QED BY <1>1 DEF Commit, WriteReg, RegWType

LEMMA BubbleTypes ==
  /\ BubbleD \in RegDType
  /\ \A i \in Instr : BubbleE(i) \in RegEType
  BY NopType, SmallWords, RegAssumption DEF BubbleD, BubbleE, RegDType, RegEType, AluFuncs

LEMMA DecodedType ==
  ASSUME NEW d \in RegDType, NEW a \in Word, NEW b \in Word
  PROVE  Decoded(d, a, b) \in RegEType
  <1> DEFINE i == d.instr
  <1>1. i \in Instr /\ d.pc \in Word /\ d.prePc \in Word /\ d.commit \in BOOLEAN
    BY DEF RegDType
  <1>2. SelA(i) \in {"valA", "pc", "zero"} /\ SelB(i) \in {"valB", "imm"}
        /\ SelD(i) \in {"valE", "valM", "valP"}
    BY DEF SelA, SelB, SelD
  <1>3. MemRw(i) \in LoadFuncs \cup StoreFuncs \cup {"none"}
    BY <1>1, InstrFields DEF MemRw
  <1>4. NeedJump(i, a, b) \in BOOLEAN
    BY <1>1, InstrFields, TakenAssumption DEF NeedJump
  <1>5. WritesReg(i) \in BOOLEAN /\ (i.type = "jalr") \in BOOLEAN
    BY DEF WritesReg
  <1>6. (IF i.type \in {"R", "other"} THEN 0 ELSE i.imm) \in Word
    BY <1>1, InstrFields, SmallWords
  <1>7. (IF i.type \in {"R", "I"} THEN i.func ELSE "add") \in AluFuncs
    BY <1>1, InstrFields DEF AluFuncs
  <1>8. i.rd \in Reg
    BY <1>1, InstrFields
  <1> QED BY <1>1, <1>2, <1>3, <1>4, <1>5, <1>6, <1>7, <1>8 DEF Decoded, RegEType

LEMMA ForwardType ==
  ASSUME TypeOK, NEW r, NEW raw \in Reg, NEW v \in Word
  PROVE  Forward(r, raw, v) \in Word
  <1>1. ValE(regE) \in Word
    BY ValEType DEF TypeOK
  <1>2. regM.valE \in Word /\ regM.selD \in {"valE", "valM", "valP"}
    BY DEF TypeOK, RegMType
  <1>3. ValD(regW) \in Word
    BY PlusType, SmallWords DEF ValD, TypeOK, RegWType
  <1>4. ReadReg(gpr, raw) \in Word
    BY SmallWords DEF ReadReg, TypeOK
  <1> QED BY <1>1, <1>2, <1>3, <1>4 DEF Forward

-----------------------------------------------------------------------------
(* Type correctness                                                        *)

LEMMA TypeInit == Init => TypeOK
  <1> SUFFICES ASSUME Init PROVE TypeOK
    OBVIOUS
  <1>1. regD \in RegDType /\ regE \in RegEType
    BY BubbleTypes, NopType DEF Init
  <1>2. regM \in RegMType /\ regW \in RegWType
    BY NopType, SmallWords, RegAssumption DEF Init, RegMType, RegWType
  <1> QED BY <1>1, <1>2, InitAssumption DEF Init, TypeOK

LEMMA TypeNext == TypeOK /\ [Next]_vars => TypeOK'
  <1> SUFFICES ASSUME TypeOK, [Next]_vars PROVE TypeOK'
    OBVIOUS
  <1>1. CASE UNCHANGED vars
    BY <1>1 DEF vars, TypeOK
  <1>2. CASE Cycle
    <2> DEFINE valM == ValM(regM, mem)
    <2>1. /\ EdgeF /\ EdgeD /\ EdgeE(valM) /\ EdgeM /\ EdgeW(valM) /\ EdgeRegfile
          /\ mem' = MemOut(regM, mem) /\ prog' = prog
      BY <1>2 DEF Cycle, CycleWith
    <2>2. valM \in Word
      BY ValMType DEF TypeOK
    <2>3. regF' \in Word
      BY <2>1, ValEType, PlusType, SmallWords DEF EdgeF, TypeOK
    <2>4. regD' \in RegDType
      <3>1. Fetch(prog, regF) \in Instr /\ Plus(regF, 4) \in Word
        BY ProgramsAssumption, PlusType, SmallWords DEF TypeOK
      <3> QED BY <2>1, <3>1, BubbleTypes DEF EdgeD, TypeOK, RegDType
    <2>5. regE' \in RegEType
      <3> DEFINE a == Forward(Rs1(regD.instr), regD.instr.rs1, valM)
                 b == Forward(Rs2(regD.instr), regD.instr.rs2, valM)
      <3>1. regD.instr \in Instr /\ regE.instr \in Instr
        BY DEF TypeOK, RegDType, RegEType
      <3>2. a \in Word /\ b \in Word
        BY <2>2, <3>1, InstrFields, ForwardType
      <3>3. Decoded(regD, a, b) \in RegEType
        BY <3>2, DecodedType DEF TypeOK
      <3>4. BubbleE(regE.instr) \in RegEType
        BY <3>1, BubbleTypes
      <3> QED BY <2>1, <3>3, <3>4 DEF EdgeE
    <2>6. regM' \in RegMType
      BY <2>1, AsMType DEF EdgeM, TypeOK
    <2>7. regW' \in RegWType
      BY <2>1, <2>2, AsWType DEF EdgeW, TypeOK
    <2>8. gpr' \in [Reg -> Word]
      BY <2>1, CommitType DEF EdgeRegfile, TypeOK
    <2>9. mem' \in [Word -> Byte]
      BY <2>1, MemOutType DEF TypeOK
    <2> QED BY <2>1, <2>3, <2>4, <2>5, <2>6, <2>7, <2>8, <2>9 DEF TypeOK
  <1> QED BY <1>1, <1>2 DEF Next

(* Every register of the core always holds a value of its width.           *)
THEOREM TypeCorrect == Spec => []TypeOK
  <1> QED BY TypeInit, TypeNext, PTL DEF Spec

-----------------------------------------------------------------------------
(* The bookkeeping of the stages                                           *)

(* The three ways an edge goes: a jump squashes, a load stalls, or the     *)
(* instruction in decode moves on.                                         *)
LEMMA EdgeCases ==
  ASSUME TypeOK, StageInv, Cycle
  PROVE  \/ /\ regE.needJump /\ ~LoadUse
            /\ regF' = ValE(regE) /\ regD' = BubbleD /\ regE' = BubbleE(regE.instr)
         \/ /\ ~regE.needJump /\ LoadUse
            /\ regF' = regF /\ regD' = regD /\ regE' = BubbleE(regE.instr)
         \/ /\ ~regE.needJump /\ ~LoadUse
            /\ regF' = Plus(regF, 4)
            /\ regD' = [instr |-> Fetch(prog, regF), pc |-> regF, prePc |-> Plus(regF, 4),
                        commit |-> TRUE]
            /\ regE' = Decoded(regD, Forward(Rs1(regD.instr), regD.instr.rs1, ValM(regM, mem)),
                                     Forward(Rs2(regD.instr), regD.instr.rs2, ValM(regM, mem)))
  <1>1. LoadUse => ~regE.needJump
    BY DEF LoadUse, StageInv
  <1>2. regE.needJump \in BOOLEAN
    BY DEF TypeOK, RegEType
  <1> QED BY <1>1, <1>2 DEF Cycle, CycleWith, EdgeF, EdgeD, EdgeE, BranchBubble

LEMMA StageInit == Init => StageInv
  BY DEF Init, StageInv, BubbleD, BubbleE, LoadFuncs

(* The bookkeeping of an instruction as decode makes it.                   *)
LEMMA DecodedShape ==
  ASSUME NEW d \in RegDType, NEW a, NEW b, ~d.commit => d = BubbleD
  PROVE  LET e == Decoded(d, a, b)
         IN  /\ e.commit = d.commit
             /\ ~e.commit => e.rd = 0 /\ e.memRw = "none" /\ ~e.needJump /\ ~e.isJalr
             /\ e.memRw \in LoadFuncs => ~e.needJump /\ e.selD = "valM"
             /\ e.isJalr => e.needJump
             /\ e.selD = "valP" => e.needJump
             /\ e.selD = "valM" /\ e.wen /\ e.rd # 0 => e.memRw \in LoadFuncs
  <1> DEFINE i == d.instr
             e == Decoded(d, a, b)
  <1>1. i \in Instr
    BY DEF RegDType
  <1>2. /\ e.commit = d.commit /\ e.rd = i.rd /\ e.memRw = MemRw(i)
        /\ e.needJump = NeedJump(i, a, b) /\ e.isJalr = (i.type = "jalr")
        /\ e.selD = SelD(i) /\ e.wen = WritesReg(i)
    BY DEF Decoded
  <1>3. ~d.commit => i.rd = 0 /\ i.type = "I"
    BY DEF BubbleD, Nop
  <1>4. MemRw(i) \in LoadFuncs <=> i.type = "load"
    BY <1>1, InstrFields DEF MemRw, IsSwallowedStore, LoadFuncs, StoreFuncs
  <1>5. i.type = "I" => MemRw(i) = "none"
    BY DEF MemRw, IsSwallowedStore
  <1>6. NeedJump(i, a, b) => i.type \in {"jal", "jalr", "branch"}
    BY DEF NeedJump
  <1>7. i.type \in {"jal", "jalr"} => NeedJump(i, a, b)
    BY DEF NeedJump
  <1>8. SelD(i) = "valP" <=> i.type \in {"jal", "jalr"}
    BY <1>1, InstrFields DEF SelD
  <1>9. SelD(i) = "valM" <=> i.type \in {"load", "store", "branch", "other", "system"}
    BY <1>1, InstrFields DEF SelD
  <1>10. WritesReg(i) /\ i.rd # 0 /\ SelD(i) = "valM" => i.type = "load"
    BY <1>1, <1>9, InstrFields DEF WritesReg
  <1> QED BY <1>2, <1>3, <1>4, <1>5, <1>6, <1>7, <1>8, <1>9, <1>10

LEMMA StageNext == TypeOK /\ StageInv /\ [Next]_vars => StageInv'
  <1> SUFFICES ASSUME TypeOK, StageInv, [Next]_vars PROVE StageInv'
    OBVIOUS
  <1>1. CASE UNCHANGED vars
    BY <1>1 DEF vars, StageInv
  <1>2. CASE Cycle
    <2>1. regM' = AsM(regE) /\ prog' = prog
      BY <1>2 DEF Cycle, CycleWith, EdgeM
    <2>2. regM'.selD = regE.selD
      BY <2>1 DEF AsM
    <2>3. CASE regD' = BubbleD /\ regE' = BubbleE(regE.instr)
      BY <2>3 DEF StageInv, BubbleD, BubbleE, LoadFuncs
    <2>4. CASE ~regE.needJump /\ regF' = regF /\ regD' = regD /\ regE' = BubbleE(regE.instr)
      <3>1. regE.selD # "valP"
        BY <2>4 DEF StageInv
      <3> QED BY <2>1, <2>2, <2>4, <3>1 DEF StageInv, BubbleE, LoadFuncs
    <2>5. CASE /\ ~regE.needJump
               /\ regF' = Plus(regF, 4)
               /\ regD' = [instr |-> Fetch(prog, regF), pc |-> regF, prePc |-> Plus(regF, 4),
                           commit |-> TRUE]
               /\ \E a, b \in Word : regE' = Decoded(regD, a, b)
      <3>1. PICK a, b \in Word : regE' = Decoded(regD, a, b)
        BY <2>5
      <3>2. regE.selD # "valP"
        BY <2>5 DEF StageInv
      <3>3. regD \in RegDType /\ (~regD.commit => regD = BubbleD)
        BY DEF TypeOK, StageInv
      <3>4. /\ ~regE'.commit => regE'.rd = 0 /\ regE'.memRw = "none" /\ ~regE'.needJump /\ ~regE'.isJalr
            /\ regE'.memRw \in LoadFuncs => ~regE'.needJump /\ regE'.selD = "valM"
            /\ regE'.isJalr => regE'.needJump
            /\ regE'.selD = "valP" => regE'.needJump
            /\ regE'.selD = "valM" /\ regE'.wen /\ regE'.rd # 0 => regE'.memRw \in LoadFuncs
        BY <3>1, <3>3, DecodedShape
      <3> QED BY <2>1, <2>2, <2>5, <3>2, <3>4 DEF StageInv
    <2>6. Forward(Rs1(regD.instr), regD.instr.rs1, ValM(regM, mem)) \in Word
          /\ Forward(Rs2(regD.instr), regD.instr.rs2, ValM(regM, mem)) \in Word
      BY InstrFields, ForwardType, ValMType DEF TypeOK, RegDType
    <2> QED BY <1>2, EdgeCases, <2>3, <2>4, <2>5, <2>6
  <1> QED BY <1>1, <1>2 DEF Next

(* Bubbles are inert, decode holds the instruction fetched just before     *)
(* the pc in fetch, and a link value is never asked for while it is in the *)
(* memory stage.                                                           *)
THEOREM StagesSound == Spec => []StageInv
  <1>1. Init => TypeOK /\ StageInv
    BY TypeInit, StageInit
  <1>2. TypeOK /\ StageInv /\ [Next]_vars => (TypeOK /\ StageInv)'
    BY TypeNext, StageNext
  <1> QED BY <1>1, <1>2, PTL DEF Spec

-----------------------------------------------------------------------------
(* Forwarding                                                              *)

(* Draining a stage writes the register it is about to write, no other.    *)
LEMMA CommitAt ==
  ASSUME NEW g \in [Reg -> Word], NEW w \in RegWType, NEW r \in Reg, r # 0
  PROVE  Commit(g, w)[r] = IF Hits(r, w) THEN ValD(w) ELSE g[r]
  BY DEF Commit, WriteReg, Hits, RegWType

LEMMA VisTypes ==
  ASSUME TypeOK
  PROVE  /\ MemAfterM \in [Word -> Byte]
         /\ VisMem \in [Word -> Byte]
         /\ AsW(regM, ValM(regM, mem)) \in RegWType
         /\ AsW(DrainedE, ValM(DrainedE, MemAfterM)) \in RegWType
         /\ Commit(gpr, regW) \in [Reg -> Word]
         /\ Commit(Commit(gpr, regW), AsW(regM, ValM(regM, mem))) \in [Reg -> Word]
         /\ VisGpr \in [Reg -> Word]
         /\ VisPc \in Word
  <1>1. DrainedE \in RegMType
    BY AsMType DEF DrainedE, TypeOK
  <1>2. MemAfterM \in [Word -> Byte]
    BY MemOutType DEF MemAfterM, TypeOK
  <1>3. VisMem \in [Word -> Byte]
    BY <1>1, <1>2, MemOutType DEF VisMem
  <1>4. AsW(regM, ValM(regM, mem)) \in RegWType
    BY ValMType, AsWType DEF TypeOK
  <1>5. AsW(DrainedE, ValM(DrainedE, MemAfterM)) \in RegWType
    BY <1>1, <1>2, ValMType, AsWType
  <1>6. Commit(gpr, regW) \in [Reg -> Word]
    BY CommitType DEF TypeOK
  <1>7. Commit(Commit(gpr, regW), AsW(regM, ValM(regM, mem))) \in [Reg -> Word]
    BY <1>4, <1>6, CommitType
  <1>8. VisGpr \in [Reg -> Word]
    BY <1>5, <1>7, CommitType DEF VisGpr
  <1>9. VisPc \in Word
    BY ValEType DEF VisPc, TypeOK, RegDType
  <1> QED BY <1>2, <1>3, <1>4, <1>5, <1>6, <1>7, <1>8, <1>9

LEMMA ForwardIsVisible ==
  ASSUME TypeOK, StageInv, regD.commit, ~regE.needJump, NEW r \in Reg, r # 0,
         ~(regE.memRw \in LoadFuncs /\ regE.rd = r)
  PROVE  Forward(r, r, ValM(regM, mem)) = VisGpr[r]
  <1> DEFINE v  == ValM(regM, mem)
             wM == AsW(regM, v)
             wE == AsW(DrainedE, ValM(DrainedE, MemAfterM))
             g1 == Commit(gpr, regW)
             g2 == Commit(g1, wM)
  <1>1. /\ wM \in RegWType /\ wE \in RegWType /\ regW \in RegWType
        /\ gpr \in [Reg -> Word] /\ g1 \in [Reg -> Word] /\ g2 \in [Reg -> Word]
    BY VisTypes DEF TypeOK
  <1>2. VisGpr = Commit(g2, wE)
    BY DEF VisGpr
  <1>3. Hits(r, wE) <=> Hits(r, regE)
    BY DEF Hits, AsW, DrainedE, AsM
  <1>4. Hits(r, wM) <=> Hits(r, regM)
    BY DEF Hits, AsW
  <1>5. VisGpr[r] = IF Hits(r, wE) THEN ValD(wE) ELSE g2[r]
    BY <1>1, <1>2, CommitAt
  <1>6. g2[r] = IF Hits(r, wM) THEN ValD(wM) ELSE g1[r]
    BY <1>1, CommitAt
  <1>7. g1[r] = IF Hits(r, regW) THEN ValD(regW) ELSE gpr[r]
    BY <1>1, CommitAt
  <1>8. Hits(r, regE) => ValD(wE) = ValE(regE)
    <2> SUFFICES ASSUME Hits(r, regE) PROVE ValD(wE) = ValE(regE)
      OBVIOUS
    <2>1. regE.rd = r /\ regE.wen
      BY DEF Hits
    <2>2. regE.selD # "valM" /\ regE.selD # "valP"
      BY <2>1 DEF StageInv
    <2>3. regE.selD = "valE"
      BY <2>2 DEF TypeOK, RegEType
    <2> QED BY <2>3 DEF ValD, AsW, DrainedE, AsM
  <1>9. regM.selD \in {"valE", "valM"}
    BY DEF StageInv, TypeOK, RegMType
  <1>10. /\ regM.selD = "valE" => ValD(wM) = regM.valE
         /\ regM.selD = "valM" => ValD(wM) = v
    BY DEF ValD, AsW
  <1>11. ReadReg(gpr, r) = gpr[r]
    BY DEF ReadReg
  <1>12. CASE Hits(r, regE)
    BY <1>12, <1>3, <1>5, <1>8 DEF Forward
  <1>13. CASE ~Hits(r, regE) /\ Hits(r, regM)
    BY <1>13, <1>3, <1>4, <1>5, <1>6, <1>9, <1>10 DEF Forward
  <1>14. CASE ~Hits(r, regE) /\ ~Hits(r, regM) /\ Hits(r, regW)
    BY <1>14, <1>3, <1>4, <1>5, <1>6, <1>7 DEF Forward
  <1>15. CASE ~Hits(r, regE) /\ ~Hits(r, regM) /\ ~Hits(r, regW)
    BY <1>15, <1>3, <1>4, <1>5, <1>6, <1>7, <1>11 DEF Forward
  <1> QED BY <1>12, <1>13, <1>14, <1>15

LEMMA ForwardingHolds == TypeOK /\ StageInv => ForwardingCorrect
  <1> SUFFICES ASSUME TypeOK, StageInv, Issues PROVE
        LET i == regD.instr
            valM == ValM(regM, mem)
        IN  /\ Rs1(i) # 0 => Forward(Rs1(i), i.rs1, valM) = VisGpr[Rs1(i)]
            /\ Rs2(i) # 0 => Forward(Rs2(i), i.rs2, valM) = VisGpr[Rs2(i)]
    BY DEF ForwardingCorrect
  <1> DEFINE i == regD.instr
  <1>1. i.rs1 \in Reg /\ i.rs2 \in Reg
    BY InstrFields DEF TypeOK, RegDType
  <1>2. regD.commit /\ ~regE.needJump /\ ~LoadUse
    BY DEF Issues, BranchBubble
  <1>3. (Rs1(i) # 0 => Rs1(i) = i.rs1) /\ (Rs2(i) # 0 => Rs2(i) = i.rs2)
    BY DEF Rs1, Rs2
  <1>4. ~(regE.memRw \in LoadFuncs /\ regE.rd = Rs1(i))
        /\ ~(regE.memRw \in LoadFuncs /\ regE.rd = Rs2(i))
    BY <1>2 DEF LoadUse
  <1> QED BY <1>1, <1>2, <1>3, <1>4, ForwardIsVisible

(* Every operand decode passes on is the register's value after all the    *)
(* older instructions.                                                     *)
THEOREM ForwardingSound == Spec => []ForwardingCorrect
  <1> QED BY TypeCorrect, StagesSound, ForwardingHolds, PTL

-----------------------------------------------------------------------------
(* Refinement                                                              *)

(* An edge moves every stage on without disturbing what is visible: the    *)
(* visible registers and memory after it are those before it, with the     *)
(* instruction that enters execute done on top.                            *)
LEMMA DrainNext ==
  ASSUME Cycle
  PROVE  /\ VisGpr' = Commit(VisGpr, AsW(AsM(regE'), ValM(AsM(regE'), VisMem)))
         /\ VisMem' = MemOut(AsM(regE'), VisMem)
  <1>1. /\ regM' = DrainedE /\ regW' = AsW(regM, ValM(regM, mem))
        /\ gpr' = Commit(gpr, regW) /\ mem' = MemAfterM
    BY DEF Cycle, CycleWith, EdgeM, EdgeW, EdgeRegfile, DrainedE, MemAfterM
  <1>2. MemAfterM' = VisMem
    <2>1. MemAfterM' = MemOut(regM', mem')
      BY DEF MemAfterM
    <2> QED BY <1>1, <2>1 DEF VisMem
  <1>3. DrainedE' = AsM(regE')
    BY DEF DrainedE
  <1>4. VisMem' = MemOut(AsM(regE'), VisMem)
    <2>1. VisMem' = MemOut(DrainedE', MemAfterM')
      BY DEF VisMem
    <2> QED BY <1>2, <1>3, <2>1
  <1>5. VisGpr' = Commit(Commit(Commit(gpr', regW'), AsW(regM', ValM(regM', mem'))),
                         AsW(DrainedE', ValM(DrainedE', MemAfterM')))
    BY DEF VisGpr
  <1>6. VisGpr = Commit(Commit(gpr', regW'), AsW(regM', ValM(regM', mem')))
    BY <1>1 DEF VisGpr
  <1> QED BY <1>2, <1>3, <1>4, <1>5, <1>6

(* A bubble entering execute changes nothing visible.                      *)
LEMMA InertE ==
  ASSUME NEW e, NEW g, NEW m, e.rd = 0, e.memRw = "none"
  PROVE  Commit(g, AsW(AsM(e), ValM(AsM(e), m))) = g /\ MemOut(AsM(e), m) = m
  BY DEF Commit, AsW, AsM, WriteReg, MemOut, StoreFuncs

(* The instruction decode passes to execute, drained, is that instruction  *)
(* executed by the dialect.                                                *)
LEMMA DecodedExecutes ==
  ASSUME NEW d \in RegDType, d.commit,
         NEW a \in Word, NEW b \in Word, NEW g, NEW m
  PROVE  LET i == d.instr
             e == Decoded(d, a, b)
         IN  /\ Commit(g, AsW(AsM(e), ValM(AsM(e), m))) =
                   IF WritesReg(i) THEN WriteReg(g, i.rd, Value(i, d.pc, a, b, m)) ELSE g
             /\ MemOut(AsM(e), m) = DialectMem(i, a, b, m)
             /\ e.needJump => ValE(e) = DialectPc(i, d.pc, a, b)
             /\ ~e.needJump => Plus(d.pc, 4) = DialectPc(i, d.pc, a, b)
             /\ d.prePc = Plus(d.pc, 4) => PrePc(e) = NextPc(i, d.pc, a, b)
  <1> DEFINE i == d.instr
             e == Decoded(d, a, b)
             w == AsW(AsM(e), ValM(AsM(e), m))
  <1>1. i \in Instr /\ d.pc \in Word
    BY DEF RegDType
  <1>2. /\ w.wen = WritesReg(i) /\ w.rd = i.rd /\ w.selD = SelD(i) /\ w.pc = d.pc
        /\ w.valE = ValE(e) /\ w.valM = ValM(AsM(e), m)
    BY DEF AsW, AsM, Decoded
  <1>3. /\ AsM(e).memRw = MemRw(i) /\ AsM(e).valE = ValE(e) /\ AsM(e).valB = b
        /\ e.needJump = NeedJump(i, a, b)
    BY DEF AsM, Decoded
  <1>4. /\ i.type = "R" => ValE(e) = Alu(i.func, a, b)
        /\ i.type = "I" => ValE(e) = Alu(i.func, a, i.imm)
        /\ i.type \in {"load", "store", "jalr"} => ValE(e) = Plus(a, i.imm)
        /\ i.type \in {"jal", "branch", "auipc"} => ValE(e) = Plus(d.pc, i.imm)
        /\ i.type = "lui" => ValE(e) = Plus(0, i.imm)
    BY DEF ValE, AluA, AluB, Decoded, SelA, SelB, Plus
  <1>5. i.type = "lui" => ValE(e) = i.imm
    BY <1>1, <1>4, InstrFields, AluAssumption DEF Plus
  <1>6. i.type = "load" => MemRw(i) = i.func /\ i.func \in LoadFuncs
    BY <1>1, InstrFields DEF MemRw, IsSwallowedStore
  <1>7. MemRw(i) \in StoreFuncs => i.type = "store" /\ ~IsSwallowedStore(i) /\ MemRw(i) = i.func
    BY <1>1, InstrFields DEF MemRw, IsSwallowedStore, LoadFuncs, StoreFuncs
  <1>8. i.type = "store" /\ ~IsSwallowedStore(i) => MemRw(i) \in StoreFuncs
    BY <1>1, InstrFields DEF MemRw
  <1>9. i.type = "load" => ValM(AsM(e), m) = Load(i.func, m, Plus(a, i.imm))
    BY <1>3, <1>4, <1>6 DEF ValM
  <1>10. WritesReg(i) /\ i.rd # 0 => ValD(w) = Value(i, d.pc, a, b, m)
    <2> SUFFICES ASSUME WritesReg(i), i.rd # 0 PROVE ValD(w) = Value(i, d.pc, a, b, m)
      OBVIOUS
    <2>1. i.type \in {"R", "I", "load", "jalr", "jal", "lui", "auipc"}
      BY <1>1, InstrFields DEF WritesReg
    <2>2. CASE i.type \in {"R", "I", "lui", "auipc"}
      BY <2>2, <1>2, <1>4, <1>5 DEF ValD, SelD, Value
    <2>3. CASE i.type \in {"jal", "jalr"}
      BY <2>3, <1>2 DEF ValD, SelD, Value
    <2>4. CASE i.type = "load"
      BY <2>4, <1>2, <1>9 DEF ValD, SelD, Value
    <2> QED BY <2>1, <2>2, <2>3, <2>4
  <1>11. Commit(g, w) = IF WritesReg(i) THEN WriteReg(g, i.rd, Value(i, d.pc, a, b, m)) ELSE g
    BY <1>2, <1>10 DEF Commit, WriteReg
  <1>12. MemOut(AsM(e), m) = DialectMem(i, a, b, m)
    <2>1. CASE i.type = "store" /\ ~IsSwallowedStore(i)
      BY <2>1, <1>3, <1>4, <1>7, <1>8 DEF MemOut, DialectMem, NextMem
    <2>2. CASE ~(i.type = "store" /\ ~IsSwallowedStore(i))
      BY <2>2, <1>3, <1>7 DEF MemOut, DialectMem, NextMem, IsSwallowedStore
    <2> QED BY <2>1, <2>2
  <1>13. e.needJump => ValE(e) = DialectPc(i, d.pc, a, b)
    BY <1>3, <1>4 DEF NeedJump, DialectPc, NextPc
  <1>14. ~e.needJump => Plus(d.pc, 4) = DialectPc(i, d.pc, a, b)
    BY <1>3 DEF NeedJump, DialectPc, NextPc
  <1>15. d.prePc = Plus(d.pc, 4) => PrePc(e) = NextPc(i, d.pc, a, b)
    <2>1. e.isJalr = (i.type = "jalr") /\ e.prePc = d.prePc
      BY DEF Decoded
    <2>2. CASE i.type = "jalr"
      BY <2>1, <2>2, <1>4 DEF PrePc, NextPc
    <2>3. CASE i.type # "jalr"
      BY <2>1, <2>3, <1>13, <1>14 DEF PrePc, DialectPc, NextPc, NeedJump
    <2> QED BY <2>2, <2>3
  <1> QED BY <1>11, <1>12, <1>13, <1>14, <1>15

(* The operands decode passes on may differ from the registers the         *)
(* instruction names only where it does not use them.                      *)
LEMMA UnusedOperands ==
  ASSUME NEW i \in Instr, NEW p, NEW m, NEW a, NEW b, NEW x, NEW y,
         i.type \in {"R", "I", "load", "store", "branch", "jalr"} => a = x,
         i.type \in {"R", "store", "branch"} => b = y
  PROVE  /\ Value(i, p, a, b, m) = Value(i, p, x, y, m)
         /\ DialectPc(i, p, a, b) = DialectPc(i, p, x, y)
         /\ DialectMem(i, a, b, m) = DialectMem(i, x, y, m)
         /\ NextPc(i, p, a, b) = NextPc(i, p, x, y)
  <1>1. i.type \in {"R", "I", "load", "store", "branch", "jal", "jalr", "lui",
                    "auipc", "other", "system"}
    BY InstrFields
  <1>2. Value(i, p, a, b, m) = Value(i, p, x, y, m)
    BY <1>1 DEF Value
  <1>3. DialectPc(i, p, a, b) = DialectPc(i, p, x, y)
    BY <1>1 DEF DialectPc, NextPc
  <1>4. DialectMem(i, a, b, m) = DialectMem(i, x, y, m)
    BY <1>1 DEF DialectMem, NextMem
  <1>5. NextPc(i, p, a, b) = NextPc(i, p, x, y)
    BY <1>1 DEF NextPc
  <1> QED BY <1>2, <1>3, <1>4, <1>5

LEMMA OperandsRead ==
  ASSUME TypeOK, StageInv, Issues
  PROVE  LET i == regD.instr
             a == Forward(Rs1(i), i.rs1, ValM(regM, mem))
             b == Forward(Rs2(i), i.rs2, ValM(regM, mem))
         IN  /\ a \in Word /\ b \in Word
             /\ Rs1(i) = i.rs1 => a = ReadReg(VisGpr, i.rs1)
             /\ Rs2(i) = i.rs2 => b = ReadReg(VisGpr, i.rs2)
  <1> DEFINE i == regD.instr
             v == ValM(regM, mem)
  <1>1. i.rs1 \in Reg /\ i.rs2 \in Reg /\ v \in Word
    BY InstrFields, ValMType DEF TypeOK, RegDType
  <1>2. Forward(Rs1(i), i.rs1, v) \in Word /\ Forward(Rs2(i), i.rs2, v) \in Word
    BY <1>1, ForwardType
  <1>3. \A r : ~Hits(0, r)
    BY DEF Hits
  <1>4. \A raw : raw = 0 => Forward(0, raw, v) = 0
    BY <1>3 DEF Forward, ReadReg
  <1>5. Rs1(i) # 0 => Forward(Rs1(i), i.rs1, v) = VisGpr[Rs1(i)]
    BY ForwardingHolds DEF ForwardingCorrect
  <1>6. Rs2(i) # 0 => Forward(Rs2(i), i.rs2, v) = VisGpr[Rs2(i)]
    BY ForwardingHolds DEF ForwardingCorrect
  <1>7. Rs1(i) = i.rs1 => Forward(Rs1(i), i.rs1, v) = ReadReg(VisGpr, i.rs1)
    BY <1>4, <1>5 DEF ReadReg
  <1>8. Rs2(i) = i.rs2 => Forward(Rs2(i), i.rs2, v) = ReadReg(VisGpr, i.rs2)
    BY <1>4, <1>6 DEF ReadReg
  <1> QED BY <1>2, <1>7, <1>8

(* The sequential machine's operators are those of the instruction set.    *)
LEMMA CoreOps ==
  ASSUME NEW i, NEW p, NEW a, NEW b, NEW m, NEW g, NEW r, NEW v
  PROVE  /\ Core!ReadReg(g, r) = ReadReg(g, r)
         /\ Core!WriteReg(g, r, v) = WriteReg(g, r, v)
         /\ Core!WritesReg(i) = WritesReg(i)
         /\ Core!Value(i, p, a, b, m) = Value(i, p, a, b, m)
         /\ Core!NextPc(i, p, a, b) = NextPc(i, p, a, b)
         /\ Core!NextMem(i, a, b, m) = NextMem(i, a, b, m)
         /\ Core!DialectPc(i, p, a, b) = DialectPc(i, p, a, b)
         /\ Core!DialectMem(i, a, b, m) = DialectMem(i, a, b, m)
  <1>1. Core!ReadReg(g, r) = ReadReg(g, r) /\ Core!WriteReg(g, r, v) = WriteReg(g, r, v)
    BY DEF Core!ReadReg, ReadReg, Core!WriteReg, WriteReg
  <1>2. Core!WritesReg(i) = WritesReg(i)
    BY DEF Core!WritesReg, WritesReg
  <1>3. \A x, y : Core!Plus(x, y) = Plus(x, y)
    BY DEF Core!Plus, Plus
  <1>4. \A f, x : Core!Load(f, m, x) = Load(f, m, x)
    BY <1>3 DEF Core!Load, Load
  <1>5. Core!Value(i, p, a, b, m) = Value(i, p, a, b, m)
    BY <1>3, <1>4 DEF Core!Value, Value
  <1>6. Core!NextPc(i, p, a, b) = NextPc(i, p, a, b)
        /\ Core!DialectPc(i, p, a, b) = DialectPc(i, p, a, b)
    BY <1>3 DEF Core!DialectPc, DialectPc, Core!NextPc, NextPc, Core!ClearBit0, ClearBit0
  <1>7. \A f, x, d : Core!Store(f, m, x, d) = Store(f, m, x, d)
    BY <1>3 DEF Core!Store, Store
  <1>8. Core!NextMem(i, a, b, m) = NextMem(i, a, b, m)
        /\ Core!DialectMem(i, a, b, m) = DialectMem(i, a, b, m)
    BY <1>3, <1>7 DEF Core!DialectMem, DialectMem, Core!NextMem, NextMem,
                      Core!IsSwallowedStore, IsSwallowedStore
  <1> QED BY <1>1, <1>2, <1>5, <1>6, <1>8

(* The instruction that leaves decode is executed on the visible state,    *)
(* and hands on as prePc the pc the instruction set gives.                 *)
LEMMA IssueExecutes ==
  ASSUME TypeOK, StageInv, Cycle, Issues
  PROVE  LET i == regD.instr
             x == ReadReg(VisGpr, i.rs1)
             y == ReadReg(VisGpr, i.rs2)
         IN  /\ i \in Instr /\ VisPc = regD.pc /\ Fetch(prog, VisPc) = i
             /\ regE'.commit /\ regE'.pc = regD.pc
             /\ VisGpr' = IF WritesReg(i) THEN WriteReg(VisGpr, i.rd, Value(i, VisPc, x, y, VisMem))
                          ELSE VisGpr
             /\ VisMem' = DialectMem(i, x, y, VisMem)
             /\ VisPc' = DialectPc(i, VisPc, x, y)
             /\ PrePc(regE') = NextPc(i, VisPc, x, y)
  <1> DEFINE i == regD.instr
             x == ReadReg(VisGpr, i.rs1)
             y == ReadReg(VisGpr, i.rs2)
             a == Forward(Rs1(i), i.rs1, ValM(regM, mem))
             b == Forward(Rs2(i), i.rs2, ValM(regM, mem))
  <1>1. /\ regD.commit /\ ~regE.needJump /\ ~LoadUse
        /\ regF = Plus(regD.pc, 4) /\ regD.prePc = Plus(regD.pc, 4)
    BY DEF Issues, BranchBubble, StageInv
  <1>2. regE' = Decoded(regD, a, b) /\ regD'.commit /\ regD'.pc = regF
    BY <1>1, EdgeCases
  <1>3. regD \in RegDType /\ i \in Instr
    BY DEF TypeOK, RegDType
  <1>4. /\ a \in Word /\ b \in Word
        /\ Rs1(i) = i.rs1 => a = x
        /\ Rs2(i) = i.rs2 => b = y
    BY OperandsRead
  <1>5. /\ i.type \in {"R", "I", "load", "store", "branch", "jalr"} => a = x
        /\ i.type \in {"R", "store", "branch"} => b = y
    BY <1>4 DEF Rs1, Rs2
  <1>6. VisPc = regD.pc /\ Fetch(prog, VisPc) = i
    BY <1>1 DEF VisPc, StageInv
  <1>7. /\ Value(i, VisPc, a, b, VisMem) = Value(i, VisPc, x, y, VisMem)
        /\ DialectPc(i, VisPc, a, b) = DialectPc(i, VisPc, x, y)
        /\ DialectMem(i, a, b, VisMem) = DialectMem(i, x, y, VisMem)
        /\ NextPc(i, VisPc, a, b) = NextPc(i, VisPc, x, y)
    BY <1>3, <1>5, UnusedOperands
  <1>8. /\ Commit(VisGpr, AsW(AsM(regE'), ValM(AsM(regE'), VisMem))) =
             IF WritesReg(i) THEN WriteReg(VisGpr, i.rd, Value(i, regD.pc, a, b, VisMem))
             ELSE VisGpr
        /\ MemOut(AsM(regE'), VisMem) = DialectMem(i, a, b, VisMem)
        /\ regE'.needJump => ValE(regE') = DialectPc(i, regD.pc, a, b)
        /\ ~regE'.needJump => Plus(regD.pc, 4) = DialectPc(i, regD.pc, a, b)
        /\ PrePc(regE') = NextPc(i, regD.pc, a, b)
    BY <1>1, <1>2, <1>3, <1>4, DecodedExecutes
  <1>9. VisGpr' = IF WritesReg(i) THEN WriteReg(VisGpr, i.rd, Value(i, VisPc, x, y, VisMem))
                  ELSE VisGpr
    BY <1>6, <1>7, <1>8, DrainNext
  <1>10. VisMem' = DialectMem(i, x, y, VisMem)
    BY <1>7, <1>8, DrainNext
  <1>11. VisPc' = DialectPc(i, VisPc, x, y)
    <2>1. VisPc' = IF regE'.needJump THEN ValE(regE') ELSE regF
      BY <1>2 DEF VisPc
    <2> QED BY <1>1, <1>6, <1>7, <1>8, <2>1
  <1>12. regE'.commit /\ regE'.pc = regD.pc
    BY <1>1, <1>2 DEF Decoded
  <1> QED BY <1>3, <1>6, <1>7, <1>8, <1>9, <1>10, <1>11, <1>12

(* An edge that issues no instruction changes nothing visible.             *)
LEMMA QuietEdge ==
  ASSUME TypeOK, StageInv, Cycle, ~Issues
  PROVE  UNCHANGED <<prog, VisPc, VisGpr, VisMem>> /\ ~regE'.commit
  <1>1. regE'.rd = 0 /\ regE'.memRw = "none" => UNCHANGED <<VisGpr, VisMem>>
    BY DrainNext, InertE
  <1>2. prog' = prog
    BY DEF Cycle, CycleWith
  <1>3. CASE regE.needJump /\ regF' = ValE(regE) /\ regD' = BubbleD /\ regE' = BubbleE(regE.instr)
    <2>1. VisPc' = VisPc /\ regE'.rd = 0 /\ regE'.memRw = "none" /\ ~regE'.commit
      BY <1>3 DEF VisPc, BubbleD, BubbleE
    <2> QED BY <1>1, <1>2, <2>1
  <1>4. CASE ~regE.needJump /\ regF' = regF /\ regD' = regD /\ regE' = BubbleE(regE.instr)
    <2>1. VisPc' = VisPc /\ regE'.rd = 0 /\ regE'.memRw = "none" /\ ~regE'.commit
      BY <1>4 DEF VisPc, BubbleE
    <2> QED BY <1>1, <1>2, <2>1
  <1>5. CASE ~regE.needJump /\ ~LoadUse
    <2> DEFINE a == Forward(Rs1(regD.instr), regD.instr.rs1, ValM(regM, mem))
               b == Forward(Rs2(regD.instr), regD.instr.rs2, ValM(regM, mem))
    <2>1. ~regD.commit /\ regD \in RegDType
      BY <1>5 DEF Issues, BranchBubble, TypeOK
    <2>2. regE' = Decoded(regD, a, b) /\ regD'.commit /\ regD'.pc = regF
      BY <1>5, EdgeCases
    <2>3. regE'.rd = 0 /\ regE'.memRw = "none" /\ ~regE'.needJump /\ ~regE'.commit
      BY <2>1, <2>2, DecodedShape DEF StageInv
    <2>4. VisPc' = VisPc
      BY <1>5, <2>1, <2>2, <2>3 DEF VisPc
    <2> QED BY <1>1, <1>2, <2>3, <2>4
  <1> QED BY EdgeCases, <1>3, <1>4, <1>5

(* A clock edge is one instruction of the visible machine or nothing.      *)
LEMMA CoreStep ==
  ASSUME TypeOK, StageInv, Cycle
  PROVE  [Core!DialectStep]_(Core!isaVars)
  <1>1. prog' = prog
    BY DEF Cycle, CycleWith
  <1>2. CASE ~Issues
    BY <1>2, QuietEdge DEF Core!isaVars
  <1>3. CASE Issues
    <2> DEFINE i == regD.instr
               x == ReadReg(VisGpr, i.rs1)
               y == ReadReg(VisGpr, i.rs2)
    <2>1. /\ Fetch(prog, VisPc) = i
          /\ VisGpr' = IF WritesReg(i) THEN WriteReg(VisGpr, i.rd, Value(i, VisPc, x, y, VisMem))
                       ELSE VisGpr
          /\ VisMem' = DialectMem(i, x, y, VisMem)
          /\ VisPc' = DialectPc(i, VisPc, x, y)
      BY <1>3, IssueExecutes
    <2>2. Core!DialectExecute(i, x, y)
      BY <1>1, <2>1, CoreOps DEF Core!DialectExecute
    <2>3. Core!DialectStep
      BY <2>1, <2>2, CoreOps DEF Core!DialectStep
    <2> QED BY <2>3
  <1> QED BY <1>2, <1>3

LEMMA CoreInit == Init => Core!Init
  <1> SUFFICES ASSUME Init PROVE Core!Init
    OBVIOUS
  <1>1. VisPc = ResetPc
    BY DEF Init, VisPc, BubbleD, BubbleE
  <1>2. VisGpr = InitGpr
    BY DEF Init, VisGpr, Commit, AsW, DrainedE, AsM, BubbleE
  <1>3. VisMem = InitMem
    BY DEF Init, VisMem, MemAfterM, DrainedE, MemOut, AsM, BubbleE, StoreFuncs
  <1> QED BY <1>1, <1>2, <1>3 DEF Init, Core!Init

(* The pipelined core implements the sequential machine.                   *)
THEOREM CoreRefinement == Spec => CoreRefinesDialect
  <1>1. TypeOK /\ StageInv /\ [Next]_vars => [Core!DialectStep]_(Core!isaVars)
    <2>1. CASE UNCHANGED vars
      BY <2>1 DEF vars, Core!isaVars, VisPc, VisGpr, VisMem, MemAfterM, DrainedE
    <2>2. ASSUME TypeOK, StageInv, Cycle PROVE [Core!DialectStep]_(Core!isaVars)
      BY <2>2, CoreStep
    <2> QED BY <2>1, <2>2 DEF Next
  <1> QED BY <1>1, CoreInit, TypeCorrect, StagesSound, PTL
          DEF Spec, CoreRefinesDialect, Core!DialectSpec

(* Where the dialect does not depart from the instruction set.             *)
LEMMA NoDeparture ==
  ASSUME ~Core!Departs
  PROVE  LET i == Fetch(prog, VisPc)
             x == ReadReg(VisGpr, i.rs1)
             y == ReadReg(VisGpr, i.rs2)
         IN  /\ DialectPc(i, VisPc, x, y) = NextPc(i, VisPc, x, y)
             /\ DialectMem(i, x, y, VisMem) = NextMem(i, x, y, VisMem)
  <1> DEFINE i == Fetch(prog, VisPc)
             x == ReadReg(VisGpr, i.rs1)
  <1>1. \A a, b : Core!Plus(a, b) = Plus(a, b)
    BY DEF Core!Plus, Plus
  <1>2. \A g, r : Core!ReadReg(g, r) = ReadReg(g, r)
    BY CoreOps
  <1>3. ~IsSwallowedStore(i) /\ (i.type = "jalr" => ClearBit0(Plus(x, i.imm)) = Plus(x, i.imm))
    BY <1>1, <1>2 DEF Core!Departs, Core!IsSwallowedStore, IsSwallowedStore, Core!ClearBit0, ClearBit0
  <1> QED BY <1>3 DEF DialectPc, DialectMem, NextPc

(* As long as the program keeps off those two places the core implements   *)
(* the instruction set itself.                                             *)
THEOREM IsaRefinement == Spec /\ []~Core!Departs => CoreRefinesIsa
  <1>1. ASSUME TypeOK, StageInv, ~Core!Departs, Cycle PROVE [Core!Step]_(Core!isaVars)
    <2>1. CASE ~Issues
      BY <1>1, <2>1, QuietEdge DEF Core!isaVars
    <2>2. CASE Issues
      <3> DEFINE i == Fetch(prog, VisPc)
                 x == ReadReg(VisGpr, i.rs1)
                 y == ReadReg(VisGpr, i.rs2)
      <3>1. /\ VisGpr' = IF WritesReg(i) THEN WriteReg(VisGpr, i.rd, Value(i, VisPc, x, y, VisMem))
                         ELSE VisGpr
            /\ VisMem' = NextMem(i, x, y, VisMem)
            /\ VisPc' = NextPc(i, VisPc, x, y)
        BY <1>1, <2>2, IssueExecutes, NoDeparture
      <3>2. prog' = prog
        BY <1>1 DEF Cycle, CycleWith
      <3>3. Core!Execute(i, x, y)
        BY <3>1, <3>2, CoreOps DEF Core!Execute
      <3>4. Core!Step
        BY <3>3, CoreOps DEF Core!Step
      <3> QED BY <3>4
    <2> QED BY <2>1, <2>2
  <1>2. TypeOK /\ StageInv /\ ~Core!Departs /\ [Next]_vars => [Core!Step]_(Core!isaVars)
    <2>1. CASE UNCHANGED vars
      BY <2>1 DEF vars, Core!isaVars, VisPc, VisGpr, VisMem, MemAfterM, DrainedE
    <2> QED BY <2>1, <1>1 DEF Next
  <1> QED BY <1>2, CoreInit, TypeCorrect, StagesSound, PTL DEF Spec, CoreRefinesIsa, Core!Spec

-----------------------------------------------------------------------------
(* The commit stream                                                       *)

(* The pc of the instruction that enters execute next.                     *)
LEMMA NextIntoE ==
  ASSUME TypeOK, StageInv, Cycle
  PROVE  VisPc = IF regE'.commit THEN regE'.pc ELSE VisPc'
  <1>1. CASE Issues
    BY <1>1, IssueExecutes
  <1>2. CASE ~Issues
    BY <1>2, QuietEdge
  <1> QED BY <1>1, <1>2

LEMMA ChainNext ==
  ASSUME TypeOK, StageInv, CommitChain, Cycle
  PROVE  CommitChain'
  <1>1. regM' = AsM(regE) /\ regW' = AsW(regM, ValM(regM, mem))
    BY DEF Cycle, CycleWith, EdgeM, EdgeW
  <1>2. /\ regM'.commit = regE.commit /\ regM'.pc = regE.pc /\ regM'.prePc = PrePc(regE)
        /\ regW'.commit = regM.commit /\ regW'.prePc = regM.prePc
    BY <1>1 DEF AsM, AsW
  <1>3. VisPc = IF regE'.commit THEN regE'.pc ELSE VisPc'
    BY NextIntoE
  <1>4. regW'.commit => Announces(regW'.prePc, IF regM'.commit THEN regM'.pc
                                               ELSE IF regE'.commit THEN regE'.pc ELSE VisPc')
    BY <1>2, <1>3 DEF CommitChain
  <1>5. regM'.commit => Announces(regM'.prePc, IF regE'.commit THEN regE'.pc ELSE VisPc')
    BY <1>2, <1>3 DEF CommitChain
  <1>6. regE'.commit => Announces(PrePc(regE'), VisPc')
    <2> SUFFICES ASSUME regE'.commit PROVE Announces(PrePc(regE'), VisPc')
      OBVIOUS
    <2> DEFINE i == regD.instr
               x == ReadReg(VisGpr, i.rs1)
               y == ReadReg(VisGpr, i.rs2)
    <2>1. Issues
      BY QuietEdge
    <2>2. PrePc(regE') = NextPc(i, VisPc, x, y) /\ VisPc' = DialectPc(i, VisPc, x, y)
      BY <2>1, IssueExecutes
    <2>3. NextPc(i, VisPc, x, y) \in {DialectPc(i, VisPc, x, y), ClearBit0(DialectPc(i, VisPc, x, y))}
      BY DEF NextPc, DialectPc
    <2> QED BY <2>2, <2>3 DEF Announces
  <1> QED BY <1>4, <1>5, <1>6 DEF CommitChain

(* The committed instructions follow one another: nothing on a wrong path  *)
(* commits and nothing is skipped or committed twice.                      *)
THEOREM CommitsInOrder == Spec => []CommitChain
  <1>1. Init => CommitChain
    BY DEF Init, CommitChain, BubbleE
  <1>2. TypeOK /\ StageInv /\ CommitChain /\ [Next]_vars => CommitChain'
    <2>1. CASE UNCHANGED vars
      BY <2>1 DEF vars, CommitChain, VisPc
    <2>2. ASSUME TypeOK, StageInv, CommitChain, Cycle PROVE CommitChain'
      BY <2>2, ChainNext
    <2> QED BY <2>1, <2>2 DEF Next
  <1> QED BY <1>1, <1>2, TypeCorrect, StagesSound, PTL DEF Spec

(* An ebreak word in write back is always an instruction that commits,     *)
(* never the word a bubble kept.                                           *)
THEOREM EbreakSound == Spec => []EbreakCommits
  <1>1. Init => EbreakCommits
    BY DEF Init, EbreakCommits, BubbleE, NoInstr
  <1>2. ASSUME TypeOK, StageInv, EbreakCommits, Cycle PROVE EbreakCommits'
    <2>1. regM'.instr = regE.instr /\ regM'.commit = regE.commit
      BY <1>2 DEF Cycle, CycleWith, EdgeM, AsM
    <2>2. regW'.instr = regM.instr /\ regW'.commit = regM.commit
      BY <1>2 DEF Cycle, CycleWith, EdgeW, AsW
    <2>3. regE'.instr.func = "ebreak" =>
            regE'.commit /\ regE'.memRw \notin LoadFuncs /\ ~regE'.needJump
      <3>1. CASE regE' = BubbleE(regE.instr) /\ (regE.needJump \/ LoadUse)
        <4>1. regE.instr.func # "ebreak"
          BY <1>2, <3>1 DEF EbreakCommits, LoadUse
        <4> QED BY <3>1, <4>1 DEF BubbleE
      <3>2. ASSUME NEW a, NEW b, regE' = Decoded(regD, a, b)
            PROVE  regE'.instr.func = "ebreak" =>
                     regE'.commit /\ regE'.memRw \notin LoadFuncs /\ ~regE'.needJump
        <4>1. /\ regE'.instr = regD.instr /\ regE'.commit = regD.commit
              /\ regE'.memRw = MemRw(regD.instr) /\ regE'.needJump = NeedJump(regD.instr, a, b)
          BY <3>2 DEF Decoded
        <4>2. regD.instr.func = "ebreak" => regD.instr.type = "system"
          BY <1>2, InstrFields DEF TypeOK, RegDType
        <4>3. regD.instr.func = "ebreak" => regD.commit
          BY <1>2 DEF StageInv, BubbleD, Nop
        <4> QED BY <4>1, <4>2, <4>3 DEF MemRw, NeedJump, LoadFuncs, IsSwallowedStore
      <3>3. regD.commit \in BOOLEAN
        BY <1>2 DEF TypeOK, RegDType
      <3> QED BY <1>2, EdgeCases, <3>1, <3>2
    <2> QED BY <1>2, <2>1, <2>2, <2>3 DEF EbreakCommits
  <1>3. TypeOK /\ StageInv /\ EbreakCommits /\ [Next]_vars => EbreakCommits'
    <2>1. CASE UNCHANGED vars
      BY <2>1 DEF vars, EbreakCommits
    <2> QED BY <2>1, <1>2 DEF Next
  <1> QED BY <1>1, <1>3, TypeCorrect, StagesSound, PTL DEF Spec

-----------------------------------------------------------------------------
(* The differential test.                                                   *)

(* What the comparison is made for: no access to the clock or the serial   *)
(* port, whose steps are skipped one instruction off; no load from address *)
(* 0, which the harness answers with 0 instead of memory; and neither of   *)
(* the two instructions that leave the instruction set.                    *)
Plain ==
    Alive => /\ ~ReadsClock(regM) /\ ~WritesPort(regM) /\ regF \notin RtcAddrs
             /\ ~(IsLoad(regM) /\ regM.valE = 0)
             /\ ~Core!Departs

-----------------------------------------------------------------------------
(* The invariant                                                           *)

(* A state of the reference, and the one after the instruction at pc p.    *)
State(p, g, m) == [pc |-> p, gpr |-> g, mem |-> m]
After(pr, p, g, m) ==
    LET i == Fetch(pr, p)
        a == ReadReg(g, i.rs1)
        b == ReadReg(g, i.rs2)
    IN  State(NextPc(i, p, a, b),
              IF WritesReg(i) THEN WriteReg(g, i.rd, Value(i, p, a, b, m)) ELSE g,
              NextMem(i, a, b, m))

(* The registers with the results of regW, and of regW and regM.           *)
GprW == Commit(gpr, regW)
GprM == Commit(GprW, AsW(regM, ValM(regM, mem)))

(* Each stage that commits holds one instruction of the reference, done    *)
(* but for its write back, on the state its elders leave; a bubble does    *)
(* nothing.                                                                *)
StageW == IF regW.commit THEN After(prog, regW.pc, gpr, ref.mem) = State(regW.prePc, GprW, mem)
          ELSE GprW = gpr /\ ref.mem = mem
StageM == IF regM.commit THEN After(prog, regM.pc, GprW, mem) = State(regM.prePc, GprM, MemAfterM)
          ELSE GprM = GprW /\ MemAfterM = mem
StageE == IF regE.commit THEN After(prog, regE.pc, GprM, MemAfterM) = State(PrePc(regE), VisGpr, VisMem)
          ELSE VisGpr = GprM /\ VisMem = MemAfterM

(* The pc of the next instruction to commit at or behind execute, memory   *)
(* and write back; the instruction in a stage goes to the next one's.      *)
PcE == IF regE.commit THEN regE.pc ELSE VisPc
PcM == IF regM.commit THEN regM.pc ELSE PcE
PcW == IF regW.commit THEN regW.pc ELSE PcM
Chained ==
    /\ regE.commit => PrePc(regE) = VisPc
    /\ regM.commit => regM.prePc = PcE
    /\ regW.commit => regW.prePc = PcM

RefType == ref = State(ref.pc, ref.gpr, ref.mem)
InStep ==
    /\ TypeOK /\ StageInv /\ RefType
    /\ ~skipRef
    /\ ref.pc = PcW /\ ref.gpr = gpr
    /\ StageW /\ StageM /\ StageE /\ Chained
DiffInv == outcome # "mismatch" /\ (Alive => InStep)

-----------------------------------------------------------------------------
LEMMA StateFields ==
  ASSUME NEW p, NEW g, NEW m
  PROVE  State(p, g, m).pc = p /\ State(p, g, m).gpr = g /\ State(p, g, m).mem = m
  BY DEF State

LEMMA RefSteps == RefNext(ref) = After(prog, ref.pc, ref.gpr, ref.mem)
  BY DEF RefNext, After, State

LEMMA DiffStarts == DifftestInit => DiffInv
  <1> SUFFICES ASSUME DifftestInit PROVE DiffInv
    OBVIOUS
  <1>1. TypeOK /\ StageInv
    BY TypeInit, StageInit DEF DifftestInit
  <1>2. RefType /\ ~skipRef /\ outcome # "mismatch"
    BY DEF DifftestInit, RefType, State
  <1>3. ~regE.commit /\ ~regM.commit /\ ~regW.commit /\ VisPc = ResetPc
    BY DEF DifftestInit, Init, VisPc, BubbleD, BubbleE
  <1>4. ref.pc = PcW /\ ref.gpr = gpr /\ Chained
    BY <1>3 DEF DifftestInit, Init, PcW, PcM, PcE, Chained
  <1>5. GprW = gpr /\ GprM = GprW
    BY DEF DifftestInit, Init, GprM, GprW, Commit, AsW
  <1>6. MemAfterM = mem /\ ref.mem = mem
    BY DEF DifftestInit, Init, MemAfterM, MemOut, StoreFuncs
  <1>7. VisGpr = GprM /\ VisMem = MemAfterM
    <2>1. regE.rd = 0 /\ regE.memRw = "none"
      BY DEF DifftestInit, Init, BubbleE
    <2> QED BY <2>1, InertE DEF VisGpr, GprM, GprW, VisMem, DrainedE
  <1> QED BY <1>1, <1>2, <1>3, <1>4, <1>5, <1>6, <1>7 DEF DiffInv, InStep, StageW, StageM, StageE

(* On plain programs the harness's answers are the memory's: a clock cycle *)
(* of the simulator is one of the core alone, and nothing is skipped.      *)
LEMMA PlainCycle ==
  ASSUME Alive, Plain, SingleCycle
  PROVE  Cycle
  <1>1. PICK now \in Times : CycleWith(Answer(regM, now), Written(regM))
    BY DEF SingleCycle
  <1>2. Answer(regM, now) = ValM(regM, mem)
    BY DEF Plain, Answer
  <1>3. Written(regM) = MemOut(regM, mem)
    BY DEF Plain, Written
  <1> QED BY <1>1, <1>2, <1>3 DEF Cycle

(* An edge hands each stage on to the next, done as it was.                *)
LEMMA StagesMove ==
  ASSUME InStep, Cycle, ref'.mem = mem, ~Core!Departs
  PROVE  /\ TypeOK' /\ StageInv' /\ StageW' /\ StageM' /\ StageE' /\ Chained'
         /\ PcW' = PcM /\ gpr' = GprW
  <1> DEFINE i == regD.instr
             x == ReadReg(VisGpr, i.rs1)
             y == ReadReg(VisGpr, i.rs2)
  <1>1. TypeOK /\ StageInv
    BY DEF InStep
  <1>2. TypeOK' /\ StageInv'
    BY <1>1, TypeNext, StageNext DEF Next
  <1>3. /\ regM' = AsM(regE) /\ regW' = AsW(regM, ValM(regM, mem))
        /\ gpr' = GprW /\ mem' = MemAfterM /\ prog' = prog
    BY DEF Cycle, CycleWith, EdgeM, EdgeW, EdgeRegfile, GprW, MemAfterM
  <1>4. /\ regM'.commit = regE.commit /\ regM'.pc = regE.pc /\ regM'.prePc = PrePc(regE)
        /\ regW'.commit = regM.commit /\ regW'.pc = regM.pc /\ regW'.prePc = regM.prePc
    BY <1>3 DEF AsM, AsW
  <1>5. GprW' = GprM
    BY <1>3 DEF GprW, GprM
  <1>6. MemAfterM' = VisMem
    <2>1. MemAfterM' = MemOut(regM', mem')
      BY DEF MemAfterM
    <2> QED BY <1>3, <2>1 DEF VisMem, DrainedE
  <1>7. GprM' = VisGpr
    <2>1. GprM' = Commit(GprW', AsW(regM', ValM(regM', mem')))
      BY DEF GprM
    <2> QED BY <1>3, <1>5, <2>1 DEF VisGpr, GprM, GprW, DrainedE
  <1>8. StageW'
    BY <1>3, <1>4, <1>5 DEF InStep, StageM, StageW
  <1>9. StageM'
    BY <1>3, <1>4, <1>5, <1>6, <1>7 DEF InStep, StageE, StageM
  <1>10. StageE'
    <2>1. CASE ~Issues
      BY <1>1, <1>6, <1>7, <2>1, QuietEdge DEF StageE
    <2>2. CASE Issues
      <3>1. /\ VisPc = regD.pc /\ Fetch(prog, VisPc) = i /\ regE'.commit /\ regE'.pc = regD.pc
            /\ VisGpr' = IF WritesReg(i) THEN WriteReg(VisGpr, i.rd, Value(i, VisPc, x, y, VisMem))
                         ELSE VisGpr
            /\ VisMem' = DialectMem(i, x, y, VisMem)
            /\ PrePc(regE') = NextPc(i, VisPc, x, y)
        BY <1>1, <2>2, IssueExecutes
      <3>2. DialectMem(i, x, y, VisMem) = NextMem(i, x, y, VisMem)
        BY <3>1, NoDeparture
      <3>3. After(prog, regD.pc, VisGpr, VisMem) = State(PrePc(regE'), VisGpr', VisMem')
        BY <3>1, <3>2 DEF After
      <3>4. PrePc(regE)' = PrePc(regE')
        OBVIOUS
      <3> QED BY <1>3, <1>6, <1>7, <3>1, <3>3, <3>4 DEF StageE
    <2> QED BY <2>1, <2>2
  <1>11. PcE' = VisPc
    BY <1>1, NextIntoE DEF PcE
  <1>12. PcM' = PcE /\ PcW' = PcM
    BY <1>4, <1>11 DEF PcM, PcE, PcW
  <1>13. Chained'
    <2>1. regE'.commit => PrePc(regE') = VisPc'
      <3> SUFFICES ASSUME regE'.commit PROVE PrePc(regE') = VisPc'
        OBVIOUS
      <3>1. Issues
        BY <1>1, QuietEdge
      <3>2. /\ Fetch(prog, VisPc) = i
            /\ VisPc' = DialectPc(i, VisPc, x, y) /\ PrePc(regE') = NextPc(i, VisPc, x, y)
        BY <1>1, <3>1, IssueExecutes
      <3> QED BY <3>2, NoDeparture
    <2>2. regM'.commit => regM'.prePc = PcE'
      BY <1>4, <1>11 DEF InStep, Chained
    <2>3. regW'.commit => regW'.prePc = PcM'
      BY <1>4, <1>12 DEF InStep, Chained
    <2> QED BY <2>1, <2>2, <2>3 DEF Chained
  <1> QED BY <1>2, <1>3, <1>8, <1>9, <1>10, <1>12, <1>13

(* A cycle that waits for a commit.                                        *)
LEMMA WaitKept == DiffInv /\ Plain /\ Plain' /\ WaitCycle => DiffInv'
  <1> SUFFICES ASSUME DiffInv, Plain, Plain', WaitCycle PROVE DiffInv'
    OBVIOUS
  <1>1. /\ Alive /\ InStep /\ ~regW.commit /\ SingleCycle /\ ref' = ref
        /\ skipRef' = (skipRef \/ SkipRaised)
        /\ outcome' \in {"ok", "badAddress"}
    BY DEF WaitCycle, DiffInv
  <1>2. Cycle /\ ~Core!Departs
    BY <1>1, PlainCycle DEF Plain
  <1>3. ref'.mem = mem
    BY <1>1 DEF InStep, StageW
  <1>4. /\ TypeOK' /\ StageInv' /\ StageW' /\ StageM' /\ StageE' /\ Chained'
        /\ PcW' = PcM /\ gpr' = GprW
    BY <1>1, <1>2, <1>3, StagesMove
  <1>5. GprW = gpr /\ PcW = PcM
    BY <1>1 DEF InStep, StageW, PcW
  <1>6. Alive' => ~skipRef'
    BY <1>1 DEF Plain, SkipRaised, InStep
  <1>7. RefType'
    BY <1>1 DEF InStep, RefType
  <1> QED BY <1>1, <1>4, <1>5, <1>6, <1>7 DEF DiffInv, InStep

(* The cycle that commits, and the comparison.                             *)
LEMMA CommitKept == DiffInv /\ Plain /\ Plain' /\ CommitCycle => DiffInv'
  <1> SUFFICES ASSUME DiffInv, Plain, Plain', CommitCycle PROVE DiffInv'
    OBVIOUS
  <1>1. Alive /\ InStep /\ regW.commit /\ SingleCycle /\ DifftestStep
    BY DEF CommitCycle, DiffInv
  <1>2. Cycle /\ ~Core!Departs
    BY <1>1, PlainCycle DEF Plain
  <1>3. RefNext(ref) = State(regW.prePc, GprW, mem)
    BY <1>1, RefSteps, StateFields DEF InStep, StageW, PcW
  <1>4. gpr' = GprW
    BY <1>2 DEF Cycle, CycleWith, EdgeRegfile, GprW
  <1>5. CASE skipRef \/ SkipRaised
    <2>1. outcome' \in {"ok", "badAddress"}
      BY <1>1, <1>5 DEF DifftestStep
    <2>2. ~Alive'
      BY <1>1, <1>5 DEF InStep, Plain, SkipRaised
    <2> QED BY <2>1, <2>2 DEF DiffInv
  <1>6. CASE ~(skipRef \/ SkipRaised)
    <2>1. /\ ref' = RefNext(ref) /\ skipRef' = FALSE
          /\ CheckRegs(ref', regW.prePc, gpr') => outcome' \in {"ok", "badAddress"}
      BY <1>1, <1>6 DEF DifftestStep
    <2>2. ref' = State(regW.prePc, gpr', mem)
      BY <1>3, <1>4, <2>1
    <2>3. ref'.pc = regW.prePc /\ ref'.gpr = gpr' /\ ref'.mem = mem
      BY <2>2, StateFields
    <2>4. outcome' \in {"ok", "badAddress"}
      BY <2>1, <2>3 DEF CheckRegs
    <2>5. /\ TypeOK' /\ StageInv' /\ StageW' /\ StageM' /\ StageE' /\ Chained'
          /\ PcW' = PcM
      BY <1>1, <1>2, <2>3, StagesMove
    <2>6. regW.prePc = PcM
      BY <1>1 DEF InStep, Chained
    <2>7. RefType'
      BY <2>2, <2>3 DEF RefType
    <2> QED BY <2>1, <2>3, <2>4, <2>5, <2>6, <2>7 DEF DiffInv, InStep
  <1> QED BY <1>5, <1>6

LEMMA DiffKept == DiffInv /\ Plain /\ Plain' /\ [DifftestNext]_allVars => DiffInv'
  <1> SUFFICES ASSUME DiffInv, Plain, Plain', [DifftestNext]_allVars PROVE DiffInv'
    OBVIOUS
  <1>1. ASSUME UNCHANGED <<vars, skipRef, ref, outcome>> PROVE DiffInv'
    <2>1. InStep => InStep'
      BY <1>1 DEF vars, InStep, TypeOK, StageInv, RefType, StageW, StageM, StageE, Chained,
                  PcW, PcM, PcE, GprW, GprM, VisPc, VisGpr, VisMem, MemAfterM, DrainedE
    <2> QED BY <1>1, <2>1 DEF DiffInv, Alive
  <1>2. CASE UNCHANGED allVars
    BY <1>1, <1>2 DEF allVars, simVars
  <1>3. ASSUME NEW n \in Steps, CpuExec(n) PROVE DiffInv'
    BY <1>1, <1>3 DEF CpuExec
  <1>4. CASE LoopTop
    BY <1>1, <1>4 DEF LoopTop
  <1>5. CASE Return
    BY <1>1, <1>5 DEF Return
  <1> QED BY <1>2, <1>3, <1>4, <1>5, WaitKept, CommitKept DEF DifftestNext

LEMMA DiffAlways == DifftestSpec /\ []Plain => []DiffInv
  <1> QED BY DiffStarts, DiffKept, PTL DEF DifftestSpec

-----------------------------------------------------------------------------
(* On plain programs the assertion of checkregs (difftest.c:77-97) never   *)
(* fires, whatever the programs, the commands and their timing.            *)
THEOREM NoFalseMismatch == DifftestSpec /\ []Plain => []NoMismatch
  <1>1. DiffInv => NoMismatch
    BY DEF DiffInv, NoMismatch
  <1> QED BY <1>1, DiffAlways, PTL

(* On plain programs the reference stands, between any two clock edges,    *)
(* where the committed instructions left it.                               *)
THEOREM RefInStepHolds == DifftestSpec /\ []Plain => []RefInStep
  <1>1. DiffInv => RefInStep
    <2> SUFFICES ASSUME DiffInv, Alive
                 PROVE  /\ ref.pc = NextCommitPc
                        /\ ref.gpr = gpr
                        /\ mem = IF regW.commit THEN RefNext(ref).mem ELSE ref.mem
      BY DEF RefInStep
    <2>1. InStep
      BY DEF DiffInv
    <2>2. PcW = NextCommitPc
      BY <2>1 DEF InStep, StageInv, PcW, PcM, PcE, VisPc, NextCommitPc
    <2>3. regW.commit => RefNext(ref).mem = mem
      BY <2>1, RefSteps, StateFields DEF InStep, StageW, PcW
    <2> QED BY <2>1, <2>2, <2>3 DEF InStep, StageW
  <1> QED BY <1>1, DiffAlways, PTL

(* Whatever the program, an ebreak ends the simulation for good.           *)
THEOREM TrapIsFinalHolds == DifftestSpec => TrapIsFinal
  <1>1. DifftestInit => haltRet = 0
    BY DEF DifftestInit
  <1>2. haltRet = 0 /\ [DifftestNext]_allVars => (haltRet = 0)'
    BY DEF DifftestNext, allVars, simVars, CpuExec, LoopTop, Return, WaitCycle, CommitCycle,
           DpiEbreak, TrapCode
  <1>3. haltRet = 0 /\ [DifftestNext]_allVars =>
          [simState = "END" => simState' = "END" /\ haltRet' = haltRet]_allVars
    BY DEF DifftestNext, CpuExec, LoopTop, Return, WaitCycle, CommitCycle,
           DpiEbreak, TrapCode
  <1> QED BY <1>1, <1>2, <1>3, PTL DEF DifftestSpec, TrapIsFinal
=============================================================================
