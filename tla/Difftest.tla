------------------------------ MODULE Difftest ------------------------------
(***************************************************************************)
(* The simulator around the core: cpu_exec and its loop (sim.c), the DPI   *)
(* calls the core makes for memory, devices and ebreak (dpi.c), and the    *)
(* comparison of every committed instruction with the reference processor  *)
(* (difftest.c).  The reference is the sequential machine of Isa.          *)
(***************************************************************************)
EXTENDS Pipeline

CONSTANTS
    Pmem,       \* addresses dpi.c takes for memory
    RtcAddrs,   \* the four bytes of the clock
    Serial,     \* the serial port
    Times,      \* what the clock may answer
    Steps,      \* the arguments given to cpu_exec
    Unbounded,  \* the argument of "c", which no run counts down to zero
    A0          \* the register a program leaves its result in

VARIABLES
    phase,      \* where cpu_exec is: "idle", at the "top" of execute's loop, or in "wait"
    left,       \* instructions still to execute
    simState,   \* sim_state.state
    haltRet,    \* sim_state.halt_ret
    skipRef,    \* is_skip_ref
    ref,        \* the reference processor
    outcome     \* "ok", or how the process exited: "mismatch" or "badAddress"
simVars == <<phase, left, simState, haltRet, skipRef, ref, outcome>>
allVars == <<vars, simVars>>

-----------------------------------------------------------------------------
(* DPI: a load is answered when it enters the memory stage, a store is     *)
(* done at the edge that ends it.                                          *)
IsLoad(r)      == r.memRw \in LoadFuncs
IsStore(r)     == r.memRw \in StoreFuncs
ReadsClock(r)  == IsLoad(r) /\ r.valE \in RtcAddrs
WritesPort(r)  == IsStore(r) /\ r.valE = Serial
BadLoad(r)     == IsLoad(r) /\ r.valE \notin Pmem \cup RtcAddrs \cup {0}
BadStore(r)    == IsStore(r) /\ r.valE \notin Pmem \cup {Serial}
BadFetch(p)    == p \notin Pmem \cup RtcAddrs \cup {0}

Answer(r, now) ==
    CASE ReadsClock(r)                 -> Join(r.memRw, Lane(now, 0), Lane(now, 1),
                                               Lane(now, 2), Lane(now, 3))
      [] IsLoad(r) /\ r.valE = 0       -> 0
      [] OTHER                         -> ValM(r, mem)
(* A slip: a store writes its whole word whatever its width.               *)
WrittenWide(r) == IF IsStore(r) /\ ~WritesPort(r) THEN Store("sw", mem, r.valE, r.valB) ELSE mem
Written(r) == IF WritesPort(r) THEN mem ELSE MemOut(r, mem)

(* npc_single_cycle: one clock edge and the calls the core makes in it.    *)
SingleCycle ==
    \E now \in Times : CycleWith(Answer(regM, now), Written(regM))
SkipRaised == ReadsClock(regM') \/ WritesPort(regM) \/ regF' \in RtcAddrs
Trapped    == regW'.instr.func = "ebreak"
ExitsBad   == BadFetch(regF') \/ BadLoad(regM') \/ BadStore(regM)

(* dpi_ebreak stops the simulation with code 0, whatever the program left  *)
(* in its result register.                                                 *)
TrapCode == 0
DpiEbreak ==
    /\ simState' = IF Trapped THEN "END" ELSE simState
    /\ haltRet'  = IF Trapped THEN TrapCode ELSE haltRet

-----------------------------------------------------------------------------
RefNext(r) ==
    LET i == Fetch(prog, r.pc)
        a == ReadReg(r.gpr, i.rs1)
        b == ReadReg(r.gpr, i.rs2)
    IN  [pc  |-> NextPc(i, r.pc, a, b),
         gpr |-> IF WritesReg(i) THEN WriteReg(r.gpr, i.rd, Value(i, r.pc, a, b, r.mem))
                 ELSE r.gpr,
         mem |-> NextMem(i, a, b, r.mem)]

CheckRegs(r, prePc, regs) == prePc = r.pc /\ r.gpr = regs

(* difftest_step for the instruction leaving write back.  cpu.pc is the pc *)
(* being fetched (CPU.v: cur_pc).  A skipped step copies the registers and *)
(* the pc to the reference and compares nothing.                           *)
DifftestStep ==
    IF skipRef \/ SkipRaised
    THEN /\ ref' = [ref EXCEPT !.pc = regF', !.gpr = gpr']
         /\ skipRef' = FALSE
         /\ outcome' = IF ExitsBad THEN "badAddress" ELSE "ok"
    ELSE /\ ref' = RefNext(ref)
         /\ skipRef' = FALSE
         /\ outcome' = IF ExitsBad THEN "badAddress"
                       ELSE IF CheckRegs(ref', regW.prePc, gpr') THEN "ok" ELSE "mismatch"

Alive == outcome = "ok"

(* cpu_exec(n): refused once the program has ended.                        *)
CpuExec(n) ==
    /\ Alive /\ phase = "idle" /\ simState # "END"
    /\ simState' = "RUNNING" /\ left' = n /\ phase' = "top"
    /\ UNCHANGED <<vars, haltRet, skipRef, ref, outcome>>

LoopTop ==
    /\ Alive /\ phase = "top" /\ left # 0 /\ simState = "RUNNING"
    /\ phase' = "wait"
    /\ UNCHANGED <<vars, left, simState, haltRet, skipRef, ref, outcome>>

(* A slip: every return of cpu_exec leaves the simulator stopped.          *)
ReturnStops ==
    /\ Alive /\ phase = "top" /\ (left = 0 \/ simState # "RUNNING")
    /\ phase' = "idle"
    /\ simState' = "STOP"
    /\ UNCHANGED <<vars, left, haltRet, skipRef, ref, outcome>>

Return ==
    /\ Alive /\ phase = "top" /\ (left = 0 \/ simState # "RUNNING")
    /\ phase' = "idle"
    /\ simState' = IF simState = "RUNNING" THEN "STOP" ELSE simState
    /\ UNCHANGED <<vars, left, haltRet, skipRef, ref, outcome>>

(* The loop that clocks the core until an instruction is about to commit.  *)
WaitCycle ==
    /\ Alive /\ phase = "wait" /\ ~regW.commit
    /\ SingleCycle
    /\ DpiEbreak
    /\ skipRef' = (skipRef \/ SkipRaised)
    /\ outcome' = IF ExitsBad THEN "badAddress" ELSE "ok"
    /\ UNCHANGED <<phase, left, ref>>

(* A slip: the cycle that commits not counted.                             *)
CommitCycleUncounted ==
    /\ Alive /\ phase = "wait" /\ regW.commit
    /\ SingleCycle
    /\ DpiEbreak
    /\ DifftestStep
    /\ phase' = "top"
    /\ UNCHANGED left

(* It commits: one more cycle, then the comparison.                        *)
CommitCycle ==
    /\ Alive /\ phase = "wait" /\ regW.commit
    /\ SingleCycle
    /\ DpiEbreak
    /\ DifftestStep
    /\ left' = IF left = Unbounded THEN left ELSE left - 1
    /\ phase' = "top"

DifftestInit ==
    /\ Init
    /\ phase = "idle" /\ left = 0 /\ simState = "STOP" /\ haltRet = 0
    /\ skipRef = FALSE /\ outcome = "ok"
    /\ ref = [pc |-> ResetPc, gpr |-> InitGpr, mem |-> InitMem]

DifftestNext ==
    \/ \E n \in Steps : CpuExec(n)
    \/ LoopTop \/ Return \/ WaitCycle \/ CommitCycle

(* The simulator is one thread: a command it has begun goes on.            *)
Progress == LoopTop \/ Return \/ WaitCycle \/ CommitCycle
DifftestSpec == DifftestInit /\ [][DifftestNext]_allVars /\ WF_allVars(Progress)

-----------------------------------------------------------------------------
(* The assertion of checkregs (difftest.c:77-97) never fires.              *)
NoMismatch == outcome # "mismatch"

(* Whenever the simulator is between two clock edges the reference stands  *)
(* where the instructions committed so far left it: at the pc that commits *)
(* next, with the core's registers, and with its memory but for the store  *)
(* of the instruction in write back, which the core has already done.      *)
NextCommitPc ==
    IF regW.commit THEN regW.pc ELSE IF regM.commit THEN regM.pc
    ELSE IF regE.commit THEN regE.pc ELSE IF regD.commit THEN regD.pc ELSE regF
RefInStep ==
    Alive => /\ ref.pc = NextCommitPc
             /\ ref.gpr = gpr
             /\ mem = IF regW.commit THEN RefNext(ref).mem ELSE ref.mem

(* Every instruction the reference executes is the one that committed.     *)
RefExecutesCommitted ==
    [][CommitCycle /\ ~(skipRef \/ SkipRaised) => ref.pc = regW.pc]_allVars

(* An ebreak ends the simulation for good: neither the end of cpu_exec nor *)
(* a later command makes it run or stop again.                             *)
TrapIsFinal == [][simState = "END" => simState' = "END" /\ haltRet' = haltRet]_allVars

(* A program that failed (halt(1), with the code in a0) is reported as     *)
(* failed.                                                                 *)
TrapTellsResult == simState = "END" => (haltRet = 0 <=> gpr[A0] = 0)

(* "si n" returns: the simulator never clocks a core that will not commit. *)
CommandReturns == (phase = "top" /\ left # Unbounded) ~> (phase = "idle" \/ ~Alive)
=============================================================================
