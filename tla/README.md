# CPU-Linux: models, checks and proofs

This directory holds TLA+ models of the processor cores of CPU-Linux, of the simulator
with its debugger, and of the abstract machine and the library that programs for them
are built with; the TLC configurations that check them on small instances, and proofs
that TLAPS checks. Every definition is translated from the source; `PROJECT.json`
maps definitions to lines.

Paths below are relative to the repository. "The core" is the five-stage core of
`IP/pipeline-cpu`; "the Linux core" is the larger one of `IP/Linux`.

## 1. The system

| Part | State | Operations | Talks to |
| --- | --- | --- | --- |
| Five-stage core (`IP/pipeline-cpu`) | pc, four pipeline registers, register file | one clock edge | memory and ebreak through DPI; commit wires read by the simulator |
| Simulator loop (`simulator/src/sim`) | `sim_state`, the command's count | `cpu_exec`, `execute`, `npc_single_cycle` | clocks the core; calls the difftest after each commit |
| DPI and memory (`sim/dpi.c`, `memory`) | `pmem`, the clock, the serial port | `dpi_mem_read`, `dpi_mem_write`, `dpi_ebreak` | called by the core in the middle of an edge; raises `is_skip_ref` |
| Difftest (`simulator/src/difftest`) | `is_skip_ref`, the reference processor | `difftest_step`, `checkregs` | reads the core's registers, drives the reference |
| Debugger (`monitor/sdb`) | watchpoint table, command line | commands, expressions, watchpoints | `cpu_exec`, registers, memory |
| Two-port queue (`IP/Linux/general/fifo.sv`) | ring, two pointers, count | two pushes, pop, flush per edge | instruction queues, AMO buffer |
| Frontend (`IP/Linux/frontend`, `双发射`) | next pc, fetch registers, BTB, BHT, RAS, instruction queue | predict, fetch, replay, kill | instruction cache, branch unit, controller |
| Decode and issue (`backend/decoder`, `backend/Issue`) | scoreboard ring, operand registers | decode, issue, write back, cancel | all functional units, commit |
| Store path (`store_unit`, `store_buffer`, `lsu_bypass`) | state machine, two rings, two-entry bypass | accept, push, commit, drain, flush | MMU, data cache, scoreboard, commit |
| Load path (`load_unit`, `amo_buffer`) | state machine, load buffer | request, abort, wait, answer | store buffer's offset check, MMU, cache |
| Arithmetic (`alu`, `branch_unit`, `multiplier`, `divider`, `csr_buffer`) | divider's registers | start, step, finish | issue and write-back |
| Commit and controller (`commit_stage`, `controller`) | two fence registers | retire, except, flush | everything |
| MMU (`IP/Linux/mmu`, `pmp`) | two TLBs, shared TLB, walker | look up, refill, walk, flush | fetch, load and store units, cache |
| Library (`abstract-machine/klib`, libgcc of `riscv/npc`) | the caller's buffers | double-word arithmetic, strings, `printf` | linked into every program |
| Abstract machine, native port (`am/src/native`) | per-processor `thiscpu`, contexts on kernel stacks, lists of mappings, the sound pipe | traps as signals, `map`, `__am_switch`, `mpe_init`, halt, audio | kernel's handler; host's signals, mmap, fork, SDL thread |
| Abstract machine, x86-qemu port (`am/src/x86/qemu`) | page tables, frames, boot record, `ap_ready`, frame buffer, `vbuf` | loader, start of processors, traps, `protect`/`map`/`unprotect`, display, clock, disk, halt | kernel's handler; local APICs, RTC, ATA disk |
| Abstract machine, spike port (`am/src/riscv/spike`) | `tohost`, `fromhost`, a one-place key buffer, a lock | putchar, getchar, system call, power-off | the host |
| Abstract machine, stub ports (`platform`, `*/nemu`, `riscv/npc`) | none | halt, single device accesses | run on the core and on NEMU |

**Hard behaviour.** In the core, an instruction's fate is decided while two younger
ones are in flight: forwarding from three stages, the load-use stall, the squash of a
wrong path, and their meeting in one cycle. In the simulator, the DPI calls of an
instruction happen one or two commits before the simulator looks at it, so every flag
that stands for "this instruction" may belong to another. In the Linux core, several
rings with counters are pushed, popped, moved and flushed in the same cycle under
back-pressure that is computed from that same cycle's inputs, and stores wait in three
places for answers that may come late or never. In the abstract machine, a signal or
interrupt may come between a trap and the handler of it, threads return from traps in
any order onto stacks and page tables that others changed, processors start on one
stack and are stopped at any point, and devices change while they are read.

**What makes each part correct.** The core: it is the sequential machine of the
instruction set. The simulator: it ends every command, the comparison never fires on a
correct core and always compares like with like, and the recorded end is the
program's. The queue: it is a bounded queue. The store path: memory is written by the
retired stores, in order and each once; a load is never let past an older store to its
address; every store leaves. The frontend: the backend is given the instructions of
one path, none twice and none left out. The scoreboard: commit in issue order.
The
divider: it divides. The TLBs: never a translation that was flushed. The debugger: an
expression has its value in C, a watchpoint stays as it was set, the reference is given
the program. The library: C's answers. The abstract machine: the handler is told the
event of the context it is given, user code runs in its own space and traps to its own
stack, every page table has one owner, user code starts on processors that are set up,
and devices lose, repeat and tear nothing.

`PROJECT.json` lists the hazards line by line, with the properties that cover them.

**State of the Linux core's sources.** Many files of `IP/Linux` do not elaborate as
they stand: signals are used without declaration (`flush` in `store_unit.sv`, the
status counters of `store_buffer.sv`), outputs are not assigned
(`store_buffer_empty_o`), `scoreboard.sv:134-135` overwrites both pointers with 0, and
`cache/dcache.sv` is empty. A file is modelled by its statements; where a name has no
declaration the model takes the evident one and the comment at the definition says so.

## 2. Modules

| Module | What it is |
| --- | --- |
| `IsaOps` | Instructions and what each does to pc, registers and memory; the two departures of the core ("dialect") |
| `Isa` | The sequential machine: `Spec` for the instruction set, `DialectSpec` for what the core makes of it |
| `Pipeline` | The core: one action per clock edge, all pipeline registers at once |
| `PipelineProps` | The visible state, the refinement and the invariants of the core |
| `PipelineProofs` | Seven theorems about the core; the proof that the comparison is silent on plain programs |
| `SmallWords`, `MCPipeline` | RV32I data operations on words of four small bytes; programs |
| `Difftest`, `MCDifftest` | The core inside the simulator, with memory, devices and the reference |
| `BoundedQueue` | What a two-port queue promises |
| `Fifo` | The ring of `fifo.sv` |
| `FrontendTypes`, `FetchPath` | Addresses, predictions and requests of the frontend; what it promises the backend |
| `Frontend`, `MCFrontend` | Next pc, fetch registers, instruction queue; the instance of it and of the ring |
| `FrontendProofs` | The proofs that the ring is the bounded queue, for every depth, and that the frontend gives one path |
| `StoreBuffer`, `LsuBypass` | The rings of `store_buffer.sv` and `lsu_bypass.sv`, as edges of shared actions |
| `StoreUnit` | The store path composed: issue register, bypass, state machine, buffer, commit |
| `StoreOrder` | What the store path promises memory |
| `StoreProps`, `StoreProofs` | Its invariants, refinement, fairness and liveness; the proofs of all but the liveness |
| `Expr` | The evaluator of `expr.c` from lexemes to value; trees, how C writes them and what they mean |
| `Sdb`, `MCSdb` | Start-up, prompt, commands, the table of watchpoints and the program's run behind them |
| `SdbProofs` | The proofs about the table, what the reference is given, and the value of every expression |
| `Int64` | Double-word arithmetic, as operators |
| `Klib`, `MCKlib` | Memory and strings, `printf` and `atoi`, as operators; one call of the library from arguments to answer, division round by round |
| `KlibProofs` | The proofs that the library's answers are right, at every width |
| `Induction` | Lemmas shared by the proofs: least naturals, induction for a set, division with remainder, functions defined by recursion |
| `AmThreads` | Threads, spaces and where execution stands, shared by the ports |
| `NativeCte` | Native: signals, contexts, mappings on one processor |
| `NativeMpe` | Native: processors as processes |
| `NativeSound` | Native: the sound pipe with its race |
| `NativeProofs` | Native: the proofs about events, kernel stacks, spaces and sound; lemmas on naturals and stacks |
| `QemuVme`, `QemuCte` | x86-qemu: page tables as operators; traps, contexts and spaces on one processor |
| `QemuMpe` | x86-qemu: start, multiprocessing and halt |
| `QemuBoot`, `QemuGpu`, `QemuClock` | x86-qemu: loader and table of processors; display; clock and disk |
| `Htif` | spike: console, system calls and power-off |
| `QemuProofs` | The proofs about page tables and contexts, loader, start, display, clock and disk of x86-qemu, the console of spike and all devices together |
| `AbstractMachine`, `MCAm` | The ports side by side |

**Core.** `regF`..`regW`, `gpr`, `mem` and `prog` are the state. `Cycle` is one
`posedge clk`: each stage's register is given by its own operator (`EdgeF`, `EdgeD`,
`EdgeE`, `EdgeM`, `EdgeW`, `EdgeRegfile`) and the combinational wires are operators
named as in the source (`LoadUse`, `BranchBubble`, `Forward`, `ValE`, `NeedJump`).
Words, bytes, the ALU and the byte lanes are constants with assumptions, so the model
speaks of any width; `SmallWords` gives them to TLC as the source computes them.

**Simulator.** `Difftest` wraps `Cycle`. `phase` says where `cpu_exec` stands; `WaitCycle`
is an iteration of the wait loop of `sim.c:94-96`, `CommitCycle` the edge after it with
`difftest_step`. The DPI calls an edge makes (`Answer`, `Written`, `SkipRaised`, `ExitsBad`,
`DpiEbreak`) happen inside that edge. The reference processor has no source; it is
`Isa`'s machine and marked external.

**Queue.** `Turn` is one edge with its two pushes and its pop, `Flush` one with
`flush_i`. Slots start with any contents, as the source does not reset them.

**Frontend.** `Cycle` is one clock edge of `frontend.sv` and `instr_queue.sv`. The queue
is `BoundedQueue`, which `FrontendProofs` shows the ring to implement. `NpcD`, `KillS1`,
`KillS2`, `BpValid`, `Replay` are the wires of those names. The predictions are any
values, since a wrong one may only cost time; the cache is external and is used as the
frontend uses it: it takes a fetch when ready and not killed, and answers it later
unless killed. `given` and `asked` record the ports of the cycle that ended, so that
`FetchPath` can speak of them. The frontend gives the ring one word a cycle, and the ring takes two; so
`MCFrontend` lets a ring of its own turn with any inputs first, and then resets it and lets the
frontend go, which keeps the instance to the sum of the two and not their product.

**Store path.** A store is a number that stands for its address, data and byte enables;
two stores never share an address, which makes the page-offset check an equality and
is the case in which it must not miss. `Cycle` is one clock edge of all five files. Its
inputs are the DTLB's hit and exception, the cache's grant, whether the commit stage
moves and whether another instruction flushes. `other` and `go` exclude one another:
a flush comes from the instruction at the head of the scoreboard, which is then not
the store being committed. So a commit and a flush meet in one cycle only when a store with an
exception commits, which is the run `stores_fault`; the properties of `stores` do not meet that cycle.

**Debugger.** A line is a command and an argument of lexemes: what the regular
expressions of `expr.c` leave of it. `eval` is a function on the ranges of tokens, as the
recursion of the code is, with `check_parentheses` and `getPosition` as its helpers; a
value carries whether `success` is still true and whether the process died on the way
(an assertion, a division by zero, a read outside memory). `Sdb` has an action for each
command, for start-up (`init_monitor` with options, image and log file in any
combination), batch mode, the end of input, and each instruction of a program that runs.
Where a command ends the process, the model goes to `crashed`. The table of watchpoints
is part of it: `Add`, `AddFails`, `AddRefused` and `Delete` are the ways through
`wp_add_watched` and `wp_del_watched`. The reference
definition of an expression is in `Expr`, apart from the evaluator: a tree is a sequence of
nodes, each after its operands; `Written` is how C writes it with no more parentheses than it
needs, `Meaning` its value in C, with numbers unwrapped until the last.

**Library.** Widths are constants: a word of `HalfBits` bits, a memory of `Cells` cells.
The operators keep the source's case split (`LowZero`, `HighZero`, `BothWords` are the
branches of `__udivmoddi4` before its loop, `Round` is one turn of it), so the division
runs as a state machine and every intermediate state is checked. `Memory` functions take
and give whole memories, so that "touches nothing else" is part of every answer.

**Abstract machine.** A program is built for one `ARCH`, so `AbstractMachine` lets one part
run in each behaviour. The kernel on top of it is the client and does anything the
interface allows: it creates threads and spaces, maps, allows interrupts, and returns any
saved context. `run` (native) and `at` (qemu) are a place of execution: thread, code,
stack, mask. On native `Trap` is `sig_handler` with `setup_stack`, `Enter` is `irq_handle`
up to the kernel's handler, `Leave` its rest with `__am_switch`, `iret` the second signal.
`spaces` keeps the list of `PageMap`s by next pointers, because pushing a page that is in
it already makes it a ring. On x86-qemu a table is a frame with entries, so that sharing,
leaks and double use can be seen; `teardown` is the set of frames it frees. In `QemuMpe`
and `NativeMpe` each processor has its own program counter and every access to shared
data is a step. In `NativeSound` `count += n` is a load and a store, and the test of `audio.c:20` and the
assignment behind it read `count` one after the other. In `Htif` each test of
a shared word is a step and the host (external) acts between them. `QemuClock` lets
seconds pass between register reads, which come in the order the compiler gives the
members of the initialiser in `read_rtc_async`: the second first. In `QemuGpu` a pointer between
canvases is the number of one, and links lead to smaller numbers; a tree of the program has no rings,
so it can be numbered so. The recursion of `render` is a function on these numbers (`Loop`).

## 3. Runs

| Run | Instance | What it shows |
| --- | --- | --- |
| `pipeline` | all 9^4 programs over nine data instructions and all 10^4 over ten control instructions, 3 registers, 4-bit words | refinement of the dialect, forwarding, stage bookkeeping, commit chain, ebreak, and that commits go on |
| `difftest` | 8^3 programs of plain instructions with ebreak, commands of 1, 2 and unbounded steps | no false mismatch, reference in step, final traps, commands return |
| `difftest_clock`, `difftest_trap` | with device accesses; with a failing result | counterexamples, section 6 |
| `frontend` | a ring of depth 3 with three words, any inputs; then a frontend with 3 words of addresses, queue of depth 2, conditional and register jumps | the ring: pointers agree, bounded queue; the frontend: one path through all stages, implements `FetchPath`, instructions keep coming |
| `frontend_return` | with predicted returns | counterexample, section 6 |
| `stores` | 6 stores, both rings of depth 2 | contents of the rings and bypass, page offset, order of writes; retired stores are written, no store is stuck |
| `stores_fault` | with stores that raise exceptions | counterexample, section 6 |
| `klib` | words of 4 bits, 4 cells of 4 values, 8-bit ints, formats of up to 4 characters; every argument a caller may pass | division round by round, all arithmetic, memory and strings, `printf` and `atoi` |
| `debugger` | every expression of two levels over three numbers; sessions of every command and start-up, two places for watchpoints | C's values, reference given the program, table of watchpoints |
| `debugger_full` | the same | counterexample, section 6 |
| `am` | two user threads in two spaces, two pages, traps nested twice, seven page-table frames; three processors; 3 by 2 pixels; sectors of two units; 3 characters sent, 2 typed; pipe of 3 bytes | events, spaces, page tables, start and halt of processors, devices |

**Bounds.** Four instructions reach every pair of stages that can interact: a result is
in flight for three edges, so the fourth instruction reads what the first wrote from
the register file. The pc wraps, so programs also run as loops. Four-bit words have
one-bit bytes, which keeps `sb`, `sh`, `sw` and the sign extensions apart. Depth 3 of
the queue is odd and lets a double push wrap; the theorem covers the others. In the
store path two entries per ring and six stores let both rings fill and wrap twice and
the stores of the bypass, the unit and the request register be there as well;
`MaxStores` is the only bound on behaviours. In the frontend three words keep an
instruction, the next one and a target apart; a queue of two fills while a fetch is in
each later stage, and the theorems cover the other sizes. Deadlock checking is off only in
runs where the system may stop: those of the difftest, whose process exits on a mismatch
or a bad address and whose command line rests after the end of the program; the debugger,
which closes; the library, whose call returns; the machine, which is halted, panics or,
on native, hangs in a list that became a ring.

Two-level expressions put every pair of operators in both orders with and without
parentheses; the theorem covers the deeper ones. Two places of watchpoints are filled by
three lines; the theorems cover the others. Words of four bits have all of the division's
cases (powers of two, zero words, every shift count); four cells let buffers overlap in
each direction. With three processors there is one that starts while another waits and a
third has not begun; two halting ones and one more show who stops whom. Two spaces and
two pages let a page be mapped in both, in one, twice in one, and changed while another
space is in use; two nested traps are a trap from user code and one inside the kernel.
Segments of up to three units and two-unit sectors reach every alignment of two
segments. The dates start just before the end of a minute, of a year and of a month.
Bounds that are named so in the modules: `NativeWanted`, `QemuWanted`, `MaxNested`,
`MaxSent`, `MaxTyped`, `MaxTicks`, `MaxCalls`, `MaxAsked`, `Images`, `MpTables`, `Draws`,
`Canvases`, `StartDates`, `Transfers`, `MemoryUnits`, and `Unbounded`, the argument of `c`.

**Fairness.** The core: weak fairness of the clock, since `sim.c:94-96` clocks it in a
single-threaded loop. The store path: the clock runs in cycles without a flush
(`Ticking`); a DTLB asked again and again answers with a hit, in the waiting states and
when the unit looks at a store (`Hitting`, since the walker refills what missed); a
cache asked again and again grants; a store with its result at the head of the
scoreboard is committed in the end (`Going`). Nothing is assumed of flushes. Processors
of the abstract machine: on native the host schedules every process that can go on, on
x86-qemu every processor that is not stopped runs and an INIT on its way arrives; nothing
is assumed of when a program halts. In behaviours of another port the processes and
processors are dead and fairness asks nothing. The frontend: in cycles without a request of the backend,
the cache is ready again and again while the frontend asks for a fetch, it answers
what it took, and the backend takes what the queue holds; the property speaks of
behaviours in which the backend in the end asks for no other path.

## 4. Proofs

`PipelineProofs` (assuming only the named assumptions of `IsaOps`: words closed under
the operators, register 0 exists, adding to 0 is the identity):

* `TypeCorrect`, by itself inductive.
* `StagesSound`: `StageInv`, inductive with `TypeOK`. It is the strengthening everything
  else needs: bubbles are inert, decode holds the instruction fetched just before the
  pc in fetch, and while a jump's link value is in the memory stage, where it is not
  forwarded, the two stages behind it are bubbles.
* `ForwardingSound`: in states of `StageInv` the forwarding chain gives the value of the
  visible register file, the one with the results of write back, memory and execute
  applied in that order.
* `CoreRefinement`: each edge either issues the instruction in decode, which is exactly a
  step of the sequential machine on the visible state, or leaves that state as it is.
* `CommitsInOrder` and `EbreakSound`, each inductive with `StageInv`.
* `IsaRefinement`: what the core is to the instruction set itself. `Isa!Departs` says that the
  next instruction is one of the two the dialect changes; in behaviours that never meet it a
  step of the dialect is a step of `Isa!Spec`, so the refinement carries over.

`PipelineProofs`, comparison (any word, registers and program): `NoFalseMismatch` and `RefInStepHolds`
assume `[]Plain`, that no instruction is a device access, a load from address 0 or one of the
two departures. Each part is needed: a device access is the finding of `difftest_clock`, which
reports a mismatch on a correct core; the harness answers a load from address 0 with 0
(`dpi.c`) and the reference with what is there; the departures make core and reference
differ by themselves. `Plain` does not exclude stores that a load reads back, jumps, branches or
stalls. The argument needs the contents of every stage and not only what is
compared: `DiffInv` says that the reference stands before the instruction in write back,
and that the values in write back, memory and execute are those the reference computes when
stepped once, twice and three times from there (`StageW`, `StageM`, `StageE`), bubbles
counting as no step; `Chained` ties the stages' pcs together. `ForwardingSound` gives the
operands, and an edge moves each stage's clause one stage on. `TrapIsFinalHolds` needs no
condition.

`FrontendProofs`, ring (assuming a depth of at least 2): `PointersSound`, inductive, and
`FifoRefinement`: an edge changes the sequence of the ring's contents as a turn of
`BoundedQueue` does. The steps compare the sequences elementwise after a lemma that
moving a pointer by `m` and then by `n` is moving it by `m + n` around the ring.

`FrontendProofs`, path (assuming that the predictors announce no returns, which section 6
shows to be necessary): `FrontendTyped`; `OnePathSound`, inductive with the types: what
each stage holds is where the next older one leads; `GivesOnePathSound`, by the
refinement mapping that takes the oldest stage that is not empty for what is due next.
A cycle without a flush is split by whether the queue is full and whether a prediction
redirects the fetch, and the queue's own step is a separate lemma about sequences in
which each entry leads to the next.

`SdbProofs` (any number of places and texts, options and image sizes, provided that
the built-in image fits into the size the reference is given when no file is loaded):
`WatchTableHolds` and `WatchStableHolds` from `TableShape`, which says
that the table is nothing but its three fields, so that an addition or deletion touches one
entry and one counter; `ReferenceHasImageHolds` from `ImageInv`, which adds to the property that
nothing is loaded or given before `init_monitor`, the only action that does either.

`SdbProofs`, expressions (words of any modulus, any registers and memory of numbers, trees of any
size and shape that `Departs` does not name; a line that carries a tree asks for its text):
`EvaluatorRight`, from which `ExprRightHolds` follows with an invariant of the session that ties
`line` to the phase. The evaluator works on ranges of tokens and the meaning on nodes, so what is
carried from node to node is `Reads`: tokens `p` to `q` close every parenthesis they open, have
no operator outside parentheses weaker than the node's, end in something that makes a following star
a product, and have the node's value by `eval`.

* `EvalIs` and `TokensAre` show first that `eval` and `make_token` are defined and have a value.
* Operands in parentheses keep `Reads` (`ParensRead`), as `check_parentheses` says "whole".
  At a binary operator `getPosition` is traced through the range: every operator of the
  left operand gives way to it and none of the right one replaces it (`JoinedPosition`,
  `ReplacesLeft`, `NotReplacedRight`), the comparisons of enumerators in `expr.c:332-345`.
* `Departs` is used at two places: `==` does not give way to `==` in `ReplacesLeft`, and a range
  that begins with a dereference loses its left operand in `BinaryReads`. Without it both fail.
* Wrapping at every digit and at the end are the same (`NumberRight`).

`StoreProofs` (rings of 2, 4, 8 or 16 entries, as their pointers wrap at `$clog2` bits, and any
number of stores): `SpeculativeSoundHolds`, `CommittedSoundHolds`, `BypassSoundHolds`,
`LoadsSeeStoresHolds` and the refinement `StoresInOrderHolds`. None of the properties is
inductive alone, because the two rings, the scoreboard and the bypass take stores from one
another on the same edge; `StoreInv` says of all of them what they hold. The scoreboard has
the last stores issued; those with a result come first and are the speculative ring; behind
them come, in order, the store in the unit's registers, those in the bypass and the one
arriving, and the unit is in `VALID_STORE` only while the speculative ring has room. The
committed ring is what retired less what is written, and every other slot of either ring is
invalid. Lemmas about going round a ring (`AfterTwice`, `AfterApart`, `Counts`) take each
pointer through an edge, one lemma per ring takes its contents, and the edge is split by
flush. The refinement needs no more: what drains is the head of the committed ring, the next
in the order of `StoreOrder`. All five assume that no translation of a store raises an
exception, which the finding of `stores_fault` shows to be necessary.

`NativeProofs`, events and stacks (any threads, spaces, pages, interrupts and depth of traps,
`None` being no sequence, page or list): `EventOfContextHolds` and `OwnStackHolds`. What
makes user code find its own kernel stack was decided when its context was saved, so the
inductive `CteInv` speaks of every context on every stack: each was saved in user code, in the
kernel or in its handler; one saved in user code is alone on its thread's stack and, once
`irq_handle` has filled it in, carries that stack as `ksp` and the thread's space as
`vm_head`. Signals are blocked from a trap to its handler and from the switch of spaces to
`iret`, so the processor's event stays that of the context on top, and `iret` finds the space
that was just made current.

`NativeProofs`, spaces (finitely many pages): `UserInOwnSpaceHolds`. `__am_switch` walks the list
of one space to unmap it and that of the other to map it, so what USER_SPACE holds is the result of
a recursion along next pointers. `SpaceInv` says that the list of every space, if it ends, holds
every page that has a mapping (`AllListed`), that every mapped page of the current space is
marked `is_mapped`, and that the host holds the mappings of the current space. That a list
walked to its end has visited its pages, and that pushing a page keeps the others on the list, is
shown by induction over the places of the list. A page mapped twice makes the list the ring
of section 6; a switch that would walk it never ends, so no step follows in the model.

`NativeProofs`, sound (any size of pipe, buffer and request): `SoundHolds`. `count` is the
length of the pipe, less what `audio_write` has put in and not counted, plus what
`audio_play` has taken and not subtracted; a load of one side stays true as long as the
other side stores nothing, which is what `mixed` records; it also records that the second read of
`audio.c:20` gave more than SDL asked for. The bytes heard, those in the
player's buffer, those in the pipe and those in the writer's buffer are together the
numbers from 1 on. A `count` that grows between the two reads and stays within what was asked for does no
harm (`SizeKept`). Once `mixed` is set nothing is promised.

`QemuProofs`, page tables and contexts: `SpacesOwnedHolds`, for any frames, indices,
threads, spaces and depth of traps, and two levels of tables, as in the 32-bit build; the
64-bit build makes the same walk with more rounds and is neither proved nor run. `Forest` says that the kernel's tables and each live
space's are disjoint trees of depth two, that every frame in use belongs to one, and that
the kernel's entries of every space are the kernel's. `pgalloc` gives a frame of no tree, so
a walk that allocates grows one tree (`GrowForest`); `teardown` gives back exactly the tree of
its space (`UnprotectForest`); the kernel's own tables are made by a fold over addresses, by
induction over its prefix (`KernelForest`). `Control` is about contexts, as on native: each saved
in user code carries the root of its thread's live space and that thread's stack. The two
are needed together: what is loaded into `cr3` by `iret` is a root that `Forest` says is
still a tree, since the kernel takes down no space whose root a context or the processor holds.

`QemuProofs`, loader (any files, tables and sizes of a sector): `BootRightHolds`. After `n` headers
the first `n` segments are placed and the argument is intact. A copy moves whole sectors, so it
also writes before and behind its segment; `Loadable` is what keeps an earlier segment: the
sectors read are not its own, or they hold, at the same distance, the bytes it has. The walk over
the BIOS's table jumps by 8 or 20 bytes, and its count is shown by induction from the end of the
table, since `EntryAt` is strictly increasing and so meets every entry once.

`QemuProofs`, start (1 to 8 processors, as the descriptor tables have room for):
`StartsInOrderHolds`. The order of the start rests on one flag and one word, so the
inductive `StartInv` says who may be starting at all: before `mpe_init` only the first;
after it only the processor `next` that the first one waits for, while `ap_ready` is 0;
an INIT on its way counts as a start unless the boot record spins already, which it does
from the first halt on. `next` never passes a processor that is not set up.

`QemuProofs`, clock and disk (any dates, fewer than 60 ticks in a call, requests below block
2^28): `ClockRightHolds`. There is a number of ticks since the second was read, at most
all ticks of the call; if it is 0 the registers read so far are the chip's, and if the second
reads the same again it must be 0, since 1 to 59 ticks move it. Block numbers go
out in four bytes; `Blocks` puts them together again.

`QemuProofs`, console of spike (any characters, both widths): `HtifRightHolds`. On rv64 at most
one read is anywhere between hart and host (`OneRead`): not asked for, in the hart's hand, in
`tohost`, at the host, or answered in `fromhost` or the buffer. So no key finds `fromhost` or the
buffer occupied. On rv32 one system call is under way at most and its answer is the one waited for.

`QemuProofs`, display (any sizes of screen and `vbuf`, any rectangles and trees): `GpuRightHolds`.
What a list of canvases paints is shown by induction over their numbers (`ListsPaint`). `Painted`
says that a list, given a picture to paint on that lies below the top of `vbuf`, changes of the memory
below that top only the pixels of its picture that one of its canvases covers, to the colour of
the last that does, and runs out of `vbuf` exactly when its subtrees need more than is left. The loop
over siblings puts one such picture over another (`LaterAbove`); a subtree paints its children in a
cleared piece of `vbuf` above the top, of which `Blit` then takes what its scale asks for
(`SubtreePaints`). A call that panics has spoilt nothing below the top (`Unspoilt`), so the display
is as it was. Two places of a picture are two numbers by the uniqueness of division with
remainder. That each canvas lies inside its parent is assumed (`Inside`): `render` cuts nothing off, and a
canvas that stands out paints into the next row or past the picture.

`QemuProofs`, all devices: `DevicesRightHolds`, of `AbstractMachine` itself. In each step of the
composition every part takes a step of its own module or rests (`PartsStep`), so the five theorems
about parts hold of it; it assumes that there is a file, a table, a date and a width to start with.

`KlibProofs` (words of twice 4, 8, 16 or 32 bits, of which the code has 64-bit ones and the run has
words of 4 bits; any operands in the range of a double word; memories and sizes of a byte of any
kind; any formats, texts and numbers of an int; the literal for the least int is that int in
decimal): `CallInvHolds`, `LoopDividesHolds`, `ArithmeticRightHolds`, `StringsRightHolds`,
`PrintsRightHolds`.

* Division. `Running` says that a round's registers are words and `Balance` that the dividend is
  the quotient bits found times the divisor, plus the remainder, and the bits to come; a round
  keeps it because the sign of `d - r - 1` is the comparison of `r` and `d`. `udiv_qrnnd` makes
  the quotient in two digits, each estimated too large by at most two, which its two corrections
  take back. Each case before the loop divides by itself; sign, product and shifts follow from
  the powers of two, which are recursive functions of the number of bits.
* Memory and strings. Each function is a recursion along the places of a buffer; what a step of
  it leaves is shown from the last place backwards.
* `printf` and `atoi`. The text put out from place `i` of the format, with the `k`-th argument
  next, is the expected one for every `k`, going backwards through the format. A number's digits
  come out reversed and are turned round; `atoi` on a prefix of them is the number's leading part.

Induction over data. The library's induction theorems cannot be used, but the naturals have a least
element of every non-empty subset (`WFMin` of `WellFoundedInduction` for `<`, `LeastNat`), from which
`NatSteps` gives induction for a set: a set of naturals with 0 and closed under successor has
them all. With the set of those `n` for which a statement holds, it proves what the recursive
functions and folds of the models compute. `Recursion` shows first that there is a function that
meets such a definition: one whose argument shrinks in some measure with every call;
`CourseOfValues` shows it of one that uses all smaller numbers, as the lists of canvases do;
`BoundedRecursion` of one that calls itself several times on anything smaller, as `eval` does. The recursive
functions of `Int64` and `Klib` take one argument at a time for that reason.

**Only model-checked**: liveness and what rests on fairness (`CommitsForever`, `CommandReturns`,
`RetiredStoresLand`, `StoresFinish`, `KeepsGiving`, `ProcessesEnter`, `LoneHaltPowersOff`), which
the prover does not handle; and the bit-level data operations of `SmallWords`.

## 5. Not modelled

Instructions and data share no memory in the core's model: a program does not write its
own code. CSR instructions with a destination register are left out of programs (the
core does not implement them). Registers start at 0, or at a value a run gives. The
waveform, timing, tracing, logging and options of the simulator, the disassembler, the
benchmarks and the combinational decoders are left out.

Debugger: `wp_check_and_update` and `print_tokens`, which nothing calls; expressions longer
than the token table.

Library and libgcc: the limit of `printf`'s buffer (`BUF_SIZE`), `rand` and `srand`, the functions that panic as unimplemented, the
assembler macros of `longlong.h` for other processors, the declarations of `libgcc2.h`,
and the assembler of `div.S` and `muldi3.S`, whose word operations are taken for the
mathematical ones.

Abstract machine: the stub ports (every event an error, no contexts, nothing mapped), the
assembler of trap and start-up beyond what the actions of its callers say, descriptor
tables and interrupt controllers, the key tables, `estimate_freq`, the floating-point
state of a context, and the native devices other than the sound, which are single calls
into SDL and the C library. The host's mmap, fork, pipe and signals, spike's host, the
clock chip and the disk are external and act as the code uses them.

The other parts are in the plan.

## 6. Findings

* `difftest_clock`: `is_skip_ref` is one flag, raised when a device access is in the
  memory stage; the commit that consumes it is an older instruction's. The reference
  then executes the access itself and is skipped past another instruction.
* `difftest_trap`: `dpi_ebreak` reports 0 whatever is in a0 (`dpi.c:13`).
* `frontend_return`: the loop of `frontend.sv:316-319` takes the bits of one `cf_type` for
  elements of an array, so a predicted return is queued as predicted and never fetched.
* `stores_fault`: a store with an exception asserts `commit_lsu_o`, which moves the oldest
  speculative store, a younger one, into the commit queue (`commit_stage.sv:92-106`).
* `debugger_full`: `WP is full, Please delete some watchpoints` (`watchpoint.c:34`) asks for what does
  not help: `wp_del_watched` leaves `wp_cnt`, so no addition is accepted afterwards.

Two departures of the core from the instruction set are part of its "dialect" and left
out of the difftest's programs: `jalr` keeps bit 0 of the pc it jumps to, while the
`pre_pc` that is compared clears it (`select_pc.v:8`, `execute.v:42`), and `sw x0, 0(x1)`
is decoded as no access (`decode.v:309`).

Where a property holds only under a condition, the condition is named and the code does
something else outside it:

* `ExprRight` leaves out what `Departs` names: a dereference at the left edge of a binary
  operator counts as 0 (`expr.c:299`), the star of `(*x)`, right after a
  parenthesis, is read as a product (`expr.c:388`), and `==` and `!=` group to the right (`expr.c:336`).
* `p`, and `x 3` without an expression, pass a null pointer on and end the process, as
  does a blank or a letter in a number; `x` looks at the first address only.
* `PrintsRight` leaves out `%u` on rv32, which reads 64 bits (`stdio.c:48`), and a format that
  ends in `%`, which is read past its end.
* `HtifRight`: power-off overwrites the last character if the host has not taken it.
* `LoneHaltPowersOff`: two processors that halt together may stop each other.
* `SoundRight`: nothing once the two threads' updates of `count` meet; once `count`, read twice in
  `audio.c:20`, is below `len` at the test and above it at the assignment, so that `read` runs past
  SDL's buffer and bytes are not heard; or for buffers longer than `PIPE_BUF`, of which a partial write
  is sent again from the beginning.
* On native a page mapped twice makes the list a ring and the next switch endless
  (`vme.c:113`); on x86-qemu a kernel thread keeps the page table of the last user thread
  (`cte.c:95`), so the kernel must not take that space down.
* `BootRight` holds for the files `Loadable` describes.
* `GpuRight` holds for canvases inside their parents and pictures with pixels enough; `render` and
  `gpu_fbdraw` check neither.

## 7. Plan

| Part | Modules | Abstract specification, properties | Theorems |
| --- | --- | --- | --- |
| A. Core | done | `Isa` | done |
| B. Simulator, difftest | done | reference in step | done for plain programs |
| C. Queues and frontend | `Fifo`, `Frontend` done; two-wide `DualQueue` | `FetchPath` | done for both |
| D. Memory path | store path done; `LoadUnit`, `AmoBuffer`, `Lsu`, rest of commit | a load returns the last older store; atomics run alone | done for the store path |
| E. Arithmetic | `Divider`, `Mult` | reference division over all small operands; no result lost at the shared port | the port's arbitration |
| F. Controller | `Controller` | a fence ends after the cache's acknowledge and only then | |
| G. MMU | `Tlb`, `SharedTlb`, `Ptw` | no hit on a flushed translation; no walk takes another's answer | TLB invariant |
| H. Predictors | `Bht`, `Btb`, `Ras` | counters saturate, RAS is a bounded stack | RAS |
| I. Issue | `Scoreboard`, `IssueRead` | in-order commit, no operand read too early | |
| J. Debugger | done | the evaluator agrees with C's grammar; watchpoints stay | done for the table and the image |
| K. Library | done | C's answers | done |
| L. Abstract machine | done but for the parts of section 5 | events, spaces, tables, start, devices | contexts and spaces of both ports, start and all devices done |
