------------------------------- MODULE QemuCte -------------------------------
(***************************************************************************)
(* Traps and contexts of the x86-qemu port (am/src/x86/qemu/cte.c, trap    *)
(* gates of trap64.S) on one processor, with the address spaces of         *)
(* QemuVme.  A trap pushes its frame on the stack in use, or from user     *)
(* code on the stack at tss.rsp0; the gate leaves interrupts as they are   *)
(* until cli.  The kernel is the client and returns any saved context.     *)
(***************************************************************************)
EXTENDS QemuVme

CONSTANT QemuWanted     \* bound: the pages the kernel maps, as <<space, address, physical page>>

\* An entry names a table or, in a last table, a page; NULL is neither one nor a table.
PageEntries == [to : Frames \cup KernelAddresses \cup {w[3] : w \in QemuWanted}, u : BOOLEAN]
PageTables == [Index -> PageEntries \cup {None}]

\* Where a thread may stand, and the Contexts; a missing stack is not one of them.
QemuPlaces == [th : Threads, pc : {"user", "kernel", "gate", "os"}, stk : Threads \cup {None},
               masked : BOOLEAN]
QemuContexts == [uc : QemuPlaces, cr3 : Frames \cup {None}, rsp0 : Threads \cup {None}]
ASSUME QemuAssumption ==
  /\ \A w \in QemuWanted : w[1] \in Spaces /\ w[2] \in UserAddresses
  /\ None \notin PageEntries \cup PageTables \cup Seq(QemuContexts)

VARIABLES mem,          \* all page tables
          live,         \* the AddrSpaces between protect and unprotect
          cpu,          \* cr3 and tss.rsp0
          at,           \* thread, place, stack and interrupt flag
          frames        \* the Contexts on each thread's kernel stack

qemuVars == <<mem, live, cpu, at, frames>>
Paging == mem[Kernel] # None
Root(a) == mem[a][0].to
Context_qemu(uc, cr3, rsp0) == [uc |-> uc, cr3 |-> cr3, rsp0 |-> rsp0]
LastFrame(stk) == frames[stk][Len(frames[stk])]

kcontext_qemu(t) == Context_qemu(Place(t, "kernel", t, FALSE), None, None)
ucontext_qemu(t) == Context_qemu(Place(t, "user", None, FALSE), Root(SpaceOf[t]), t)

\* The processor's part of a trap: switch to rsp0 from user code, push the frame.
Trap_qemu ==
  LET stk == IF at.pc = "user" THEN cpu.rsp0 ELSE at.stk
      tf  == Context_qemu(at, None, None)
  IN  /\ Len(frames[stk]) < MaxNested
      /\ frames' = [frames EXCEPT ![stk] = IF at.pc = "user" THEN <<tf>> ELSE Append(@, tf)]
      /\ at' = Place(at.th, "gate", stk, at.masked)
      /\ UNCHANGED <<mem, live, cpu>>
Interrupt_qemu == ~at.masked /\ Trap_qemu
yield_qemu == at.pc = "kernel" /\ Trap_qemu
SyscallOrFault == at.pc = "user" /\ Trap_qemu

\* cli, and __am_irq_handle up to the call of the kernel's handler.
am_irq_handle ==
  /\ at.pc = "gate"
  /\ frames' = [frames EXCEPT ![at.stk][Len(frames[at.stk])] =
                  Context_qemu(@.uc, cpu.cr3, cpu.rsp0)]
  /\ at' = Place(at.th, "os", at.stk, TRUE)
  /\ UNCHANGED <<mem, live, cpu>>

\* The handler returned the last context of thread t: load cr3 and rsp0, then iret.
\* A context without cr3 keeps those of the thread before it.
Loaded(c) == IF c.cr3 = None THEN cpu ELSE [cr3 |-> c.cr3, rsp0 |-> c.rsp0]
am_iret(t) ==
  /\ at.pc = "os" /\ at.masked /\ frames[t] \notin {None, <<>>}
  /\ cpu' = Loaded(LastFrame(t))
  /\ at' = LastFrame(t).uc
  /\ frames' = [frames EXCEPT ![t] = SubSeq(@, 1, Len(@) - 1)]
  /\ UNCHANGED <<mem, live>>
----------------------------------------------------------------------------
(***************************************************************************)
(* The kernel between traps.  It maps a page that is not mapped and unmaps *)
(* one that is (vme.c panics otherwise), and takes down a space only when  *)
(* no context holds its page table: __am_irq_handle saves cr3 in kernel    *)
(* threads too, which then keep the table of the last user thread.         *)
(***************************************************************************)
InKernel_qemu == at.pc \in {"kernel", "os"}
Enough(n) == Cardinality(Free(mem)) >= n
vme_init_qemu == /\ InKernel_qemu /\ ~Paging /\ Enough(1 + Cardinality(KernelTop))
            /\ mem' = vme_map_kernel(mem)
            /\ cpu' = [cpu EXCEPT !.cr3 = kpt(mem')]
            /\ UNCHANGED <<live, at, frames>>
protect_qemu(a) == /\ InKernel_qemu /\ Paging /\ a \notin live /\ Enough(1)
              /\ mem' = vme_protect(mem, a)
              /\ live' = live \cup {a}
              /\ UNCHANGED <<cpu, at, frames>>
map_qemu(a, va, pa) ==
  /\ InKernel_qemu /\ a \in live /\ Enough(Levels)
  /\ IF pa = None THEN vme_mapped(mem, a, va) ELSE ~vme_mapped(mem, a, va)
  /\ mem' = vme_map(mem, a, va, pa)
  /\ UNCHANGED <<live, cpu, at, frames>>
Holds(t, a) == frames[t] # None /\ \E i \in DOMAIN frames[t] : frames[t][i].cr3 = Root(a)
unprotect(a) ==
  /\ InKernel_qemu /\ a \in live /\ cpu.cr3 # Root(a) /\ \A t \in Threads : ~Holds(t, a)
  /\ \A t \in Users : SpaceOf[t] = a => frames[t] = None
  /\ mem' = vme_unprotect(mem, a)
  /\ live' = live \ {a}
  /\ UNCHANGED <<cpu, at, frames>>
Create_qemu(t, c) == /\ InKernel_qemu /\ frames[t] = None
                /\ frames' = [frames EXCEPT ![t] = <<c>>]
                /\ UNCHANGED <<mem, live, cpu, at>>
CreateKernel_qemu(t) == t \in Kernels /\ Create_qemu(t, kcontext_qemu(t))
CreateUser_qemu(t) == t \in Users /\ SpaceOf[t] \in live /\ Create_qemu(t, ucontext_qemu(t))
\* A thread ends inside the kernel, when its last context is on its stack.
Discard(t) == /\ InKernel_qemu /\ at.th # t /\ t # Boot /\ frames[t] # None
              /\ frames' = [frames EXCEPT ![t] = None]
              /\ UNCHANGED <<mem, live, cpu, at>>
iset_qemu(enable) == /\ InKernel_qemu /\ at.masked = enable
                /\ at' = [at EXCEPT !.masked = ~enable]
                /\ UNCHANGED <<mem, live, cpu, frames>>

QemuInit ==
  /\ mem = [t \in Tables |-> None] /\ live = {}
  /\ cpu = [cr3 |-> None, rsp0 |-> None]
  /\ at = Place(Boot, "kernel", Boot, TRUE)
  /\ frames = [t \in Threads |-> IF t = Boot THEN <<>> ELSE None]
QemuNext ==
  \/ Interrupt_qemu \/ yield_qemu \/ SyscallOrFault \/ am_irq_handle \/ vme_init_qemu
  \/ \E t \in Threads : am_iret(t) \/ CreateKernel_qemu(t) \/ CreateUser_qemu(t) \/ Discard(t)
  \/ \E a \in Spaces : protect_qemu(a) \/ unprotect(a)
  \/ \E w \in QemuWanted : map_qemu(w[1], w[2], w[3])
  \/ \E enable \in BOOLEAN : iset_qemu(enable)
QemuSpec == QemuInit /\ [][QemuNext]_qemuVars
----------------------------------------------------------------------------
\* The tables of the kernel and of the live spaces: teardown gives back all tables
\* of its space and none of the kernel's, which all spaces share.
TablesOwned ==
  /\ \A a \in live : \A b \in live : a # b => teardown(mem, a) \cap teardown(mem, b) = {}
  /\ Paging =>
       /\ \A a \in live : /\ teardown(mem, a) \cap KernelTables(mem) = {}
                          /\ \A i \in KernelTop : mem[Root(a)][i] = mem[kpt(mem)][i]
       /\ Frames \ Free(mem) = KernelTables(mem) \cup UNION {teardown(mem, a) : a \in live}

\* cr3 holds the live table of the running thread's space, rsp0 its empty stack.
UserOwnsTables ==
  at.pc = "user" =>
    /\ cpu.rsp0 = at.th /\ frames[at.th] = <<>>
    /\ SpaceOf[at.th] \in live /\ cpu.cr3 = Root(SpaceOf[at.th])

\* Every page pgalloc handed out is a table of the kernel or of exactly one live
\* space (vme.c:77, vme.c:124); and while user code runs, cr3 holds the live table
\* of its own space and the next trap finds its own kernel stack, empty
\* (cte.c:95-103, also with interrupts between the gate and cli).
SpacesOwned == TablesOwned /\ UserOwnsTables
=============================================================================
