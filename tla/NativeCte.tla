------------------------------ MODULE NativeCte ------------------------------
(***************************************************************************)
(* Contexts and address spaces of the native port of the abstract machine  *)
(* (am/src/native/cte.c, vme.c, platform.c) on one processor.  A trap is a *)
(* signal: sig_handler names the event, setup_stack saves a Context on the *)
(* kernel stack and lets the signal return into irq_handle, which calls    *)
(* the kernel, switches the address space and traps again to restore the   *)
(* Context the kernel gave back.  The kernel itself is the client: it      *)
(* creates threads and mappings and picks any saved context.               *)
(***************************************************************************)
EXTENDS AmThreads

CONSTANTS Pages,        \* virtual pages of USER_SPACE
          Backings,     \* what a page is mapped to: physical page and prot
          Writable(_),  \* the prot of a backing has MMAP_WRITE
          NativeWanted, \* bound: the mappings the kernel may ask for
          Irqs          \* the interrupts: timer (SIGVTALRM) and iodev (SIGUSR1)

\* Where a thread may stand, the events, and a Context with the event it was saved for.
Codes == {"user", "kernel", "entry", "os", "back", "kernel lib", "os lib", "panic", "hung"}
Running == [th : Threads, pc : Codes, stk : Threads \cup {None}, masked : BOOLEAN]
Events == [event : {"error", "yield", "syscall", "pagefault"} \cup Irqs,
           cause : {None, "read", "write"}]
Contexts == [uc : Running, vm_head : Spaces \cup {None}, ksp : Threads \cup {None},
             why : Events \cup {None}]

\* A VMHead: its list of PageMaps, each with its next, pa and is_mapped.
VMHeads == [head : Pages \cup {None}, next : [Pages -> Pages \cup {None}],
            pa : [Pages -> Backings \cup {None}], is_mapped : [Pages -> BOOLEAN]]

ASSUME NativeAssumption ==
  /\ IsFiniteSet(Pages) /\ None \notin Pages \cup Backings \cup Seq(Contexts) \cup VMHeads
  /\ NativeWanted \subseteq Spaces \X Pages \X Backings

VARIABLES vme_enable,   \* vme_init was called
          thiscpu,      \* vm_head, ksp and ev of the per-cpu structure
          run,          \* what the processor executes, and whether signals are blocked
          stacks,       \* the Contexts on each thread's kernel stack
          spaces,       \* the VMHead of each AddrSpace
          host          \* what mmap() holds at each page of USER_SPACE

nativeVars == <<vme_enable, thiscpu, run, stacks, spaces, host>>

Error == [event |-> "error", cause |-> None]
Event(e) == [event |-> e, cause |-> None]
PageFault(access) == [event |-> "pagefault", cause |-> access]
----------------------------------------------------------------------------
(***************************************************************************)
(* vme.c.  A PageMap is found by its page through the hash table, and is   *)
(* linked into the list that __am_switch walks.                            *)
(***************************************************************************)
EmptySpace ==
  [head |-> None, next |-> [v \in Pages |-> None],
   pa |-> [v \in Pages |-> None], is_mapped |-> [v \in Pages |-> FALSE]]

\* The node list_foreach stands at after n steps.
ListAt(s) ==
  LET at[n \in 0..Cardinality(Pages)] ==
        IF n = 0 THEN s.head
        ELSE IF at[n-1] = None THEN None ELSE s.next[at[n-1]]
  IN  at
Listed(s) == {ListAt(s)[n] : n \in DOMAIN ListAt(s)} \ {None}
WalkEnds(s) == ListAt(s)[Cardinality(Pages)] = None

in_userspace(pc) == vme_enable /\ thiscpu.vm_head # None /\ pc = "user"

\* map(): find or enter the PageMap, then push it on the list in both cases.  A
\* page mapped twice makes the list a ring, after which nothing more is mapped.
Pushed(s, v, b, now) ==
  [head |-> v, next |-> [s.next EXCEPT ![v] = s.head],
   pa |-> [s.pa EXCEPT ![v] = b], is_mapped |-> [s.is_mapped EXCEPT ![v] = now]]
map_native(a, v, b) ==
  LET now == a = thiscpu.vm_head
  IN  /\ spaces[a] # None /\ WalkEnds(spaces[a])
      /\ spaces' = [spaces EXCEPT ![a] = Pushed(@, v, b, now)]
      /\ host' = IF now THEN [host EXCEPT ![v] = b] ELSE host

\* The two walks of __am_switch: munmap what is mapped, mmap the new list.
Unmapped(s) == [s EXCEPT !.is_mapped = [v \in Pages |-> @[v] /\ v \notin Listed(s)]]
Mapped(s)   == [s EXCEPT !.is_mapped = [v \in Pages |-> @[v] \/ v \in Listed(s)]]
HostAfter(now, to) ==
  [v \in Pages |->
     IF to # None /\ v \in Listed(spaces[to]) THEN spaces[to].pa[v]
     ELSE IF now # None /\ v \in Listed(spaces[now]) /\ spaces[now].is_mapped[v] THEN None
     ELSE host[v]]
SwitchEnds(now, to) ==
  \/ now = to
  \/ /\ now = None \/ WalkEnds(spaces[now])
     /\ to = None \/ WalkEnds(spaces[to])
am_switch(to) ==
  LET now == thiscpu.vm_head
  IN  IF ~vme_enable THEN UNCHANGED <<thiscpu, spaces, host>>
      ELSE /\ thiscpu' = [thiscpu EXCEPT !.vm_head = to]
           /\ IF now = to THEN UNCHANGED <<spaces, host>>
              ELSE /\ host' = HostAfter(now, to)
                   /\ spaces' = [a \in Spaces |-> IF a = now THEN Unmapped(spaces[a])
                                                  ELSE IF a = to THEN Mapped(spaces[a])
                                                  ELSE spaces[a]]
----------------------------------------------------------------------------
(***************************************************************************)
(* cte.c.  A place of execution is the thread, where its rip stands, the   *)
(* stack it runs on and whether the interrupt signals are blocked.         *)
(***************************************************************************)
Context_native(uc, vm, ksp, why) == [uc |-> uc, vm_head |-> vm, ksp |-> ksp, why |-> why]
Top(stk) == stacks[stk][Len(stacks[stk])]

\* kcontext and ucontext: ksp of a kernel thread keeps what the stack held.
kcontext_native(t) == Context_native(Place(t, "kernel", t, FALSE), None, None, None)
ucontext_native(t) == Context_native(Place(t, "user", None, FALSE), SpaceOf[t], t, None)

\* setup_stack: from user space the Context goes to the end of the stack at ksp.
DisableInterruptNot(place) == place      \* a slip: the mask is not changed
DisableInterrupt(place) == [place EXCEPT !.masked = TRUE]
setup_stack(ev) ==
  LET user == in_userspace(run.pc)
      stk  == IF user THEN thiscpu.ksp ELSE run.stk
      c    == Context_native(run, None, None, ev)
  IN  /\ Len(stacks[stk]) < MaxNested
      /\ stacks' = [stacks EXCEPT ![stk] = IF user THEN <<c>> ELSE Append(@, c)]
      /\ run' = DisableInterrupt(Place(run.th, "entry", stk, run.masked))

\* sig_handler: every trap overwrites the event of the processor.
Trap(ev) ==
  /\ thiscpu' = [thiscpu EXCEPT !.ev = ev]
  /\ setup_stack(ev)
  /\ UNCHANGED <<vme_enable, spaces, host>>

\* SIGVTALRM and SIGUSR1, when not blocked, anywhere outside shared libraries.
Interrupt(e) == /\ ~run.masked /\ run.pc \in {"user", "kernel", "entry", "os", "back"}
                /\ Trap(Event(e))
\* In a shared library setup_stack returns at once and the interrupt is missed.
Missed(e) ==
  /\ ~run.masked /\ run.pc \in {"kernel lib", "os lib"}
  /\ thiscpu' = [thiscpu EXCEPT !.ev = Event(e)]
  /\ UNCHANGED <<vme_enable, run, stacks, spaces, host>>
yield_native == run.pc = "kernel" /\ Trap(Event("yield"))
Syscall == run.pc = "user" /\ Trap(Event("syscall"))
\* An access of user code the host's mapping does not allow.
Access(v, write) ==
  /\ run.pc = "user"
  /\ \/ host[v] = None /\ Trap(PageFault("read"))
     \/ host[v] # None /\ write /\ ~Writable(host[v]) /\ Trap(PageFault("write"))

\* irq_handle up to the call of the kernel's handler.
Enter ==
  /\ run.pc = "entry"
  /\ stacks' = [stacks EXCEPT ![run.stk][Len(stacks[run.stk])] =
                  [@ EXCEPT !.vm_head = thiscpu.vm_head, !.ksp = thiscpu.ksp, !.why = None]]
  /\ run' = [run EXCEPT !.pc = IF thiscpu.ev = Error THEN "panic" ELSE "os"]
  /\ UNCHANGED <<vme_enable, thiscpu, spaces, host>>

\* The handler returns the last context of some thread; __am_switch walks the
\* lists of both spaces, which never ends when one of them is a ring.
Leave(t) ==
  /\ run.pc = "os" /\ run.masked /\ stacks[t] \notin {None, <<>>}
  /\ IF vme_enable /\ ~SwitchEnds(thiscpu.vm_head, Top(t).vm_head)
     THEN /\ run' = [run EXCEPT !.pc = "hung"]
          /\ UNCHANGED <<thiscpu, spaces, host>>
     ELSE /\ run' = Place(t, "back", run.stk, TRUE)
          /\ am_switch(Top(t).vm_head)
  /\ UNCHANGED <<vme_enable, stacks>>

\* The magic call to 0x100008 ends in iret, inside sig_handler.
RestoreKspKept(c) == [thiscpu EXCEPT !.ev = Error]      \* a slip: ksp is not restored
RestoreKsp(c) == [thiscpu EXCEPT !.ev = Error, !.ksp = c.ksp]
iret ==
  /\ run.pc = "back"
  /\ run' = Top(run.th).uc
  /\ thiscpu' = RestoreKsp(Top(run.th))
  /\ stacks' = [stacks EXCEPT ![run.th] = SubSeq(@, 1, Len(@) - 1)]
  /\ UNCHANGED <<vme_enable, spaces, host>>
----------------------------------------------------------------------------
(***************************************************************************)
(* What the kernel does between traps: it creates spaces and threads, maps *)
(* pages, allows or blocks interrupts and calls library functions.         *)
(***************************************************************************)
InKernel_native == run.pc \in {"kernel", "os"}
vme_init_native == /\ InKernel_native /\ ~vme_enable /\ vme_enable' = TRUE
            /\ UNCHANGED <<thiscpu, run, stacks, spaces, host>>
protect_native(a) ==
  /\ InKernel_native /\ vme_enable /\ spaces[a] = None
  /\ spaces' = [spaces EXCEPT ![a] = EmptySpace]
  /\ UNCHANGED <<vme_enable, thiscpu, run, stacks, host>>
MapPage(a, v, b) ==
  /\ InKernel_native /\ map_native(a, v, b) /\ UNCHANGED <<vme_enable, thiscpu, run, stacks>>
\* A thread is created once: it has no context and is not running.
Create_native(t, c) ==
  /\ InKernel_native /\ stacks[t] = None
  /\ stacks' = [stacks EXCEPT ![t] = <<c>>]
  /\ UNCHANGED <<vme_enable, thiscpu, run, spaces, host>>
CreateKernel_native(t) == t \in Kernels /\ Create_native(t, kcontext_native(t))
CreateUser_native(t) == t \in Users /\ spaces[SpaceOf[t]] # None /\ Create_native(t, ucontext_native(t))
iset_native(enable) == /\ InKernel_native /\ run.masked = enable
                /\ run' = [run EXCEPT !.masked = ~enable]
                /\ UNCHANGED <<vme_enable, thiscpu, stacks, spaces, host>>
LibraryCall ==
  /\ \E in \in {<<"kernel", "kernel lib">>, <<"os", "os lib">>}, call \in BOOLEAN :
       /\ run.pc = in[IF call THEN 1 ELSE 2]
       /\ run' = [run EXCEPT !.pc = in[IF call THEN 2 ELSE 1]]
  /\ UNCHANGED <<vme_enable, thiscpu, stacks, spaces, host>>

\* init_platform and cte_init: main() runs with interrupts blocked.
NativeInit ==
  /\ vme_enable = FALSE
  /\ thiscpu = [vm_head |-> None, ksp |-> None, ev |-> Error]
  /\ run = Place(Boot, "kernel", Boot, TRUE)
  /\ stacks = [t \in Threads |-> IF t = Boot THEN <<>> ELSE None]
  /\ spaces = [a \in Spaces |-> None]
  /\ host = [v \in Pages |-> None]
NativeNext ==
  \/ \E e \in Irqs : Interrupt(e) \/ Missed(e)
  \/ yield_native \/ Syscall \/ Enter \/ iret \/ vme_init_native \/ LibraryCall
  \/ \E v \in Pages, write \in BOOLEAN : Access(v, write)
  \/ \E t \in Threads : Leave(t) \/ CreateKernel_native(t) \/ CreateUser_native(t)
  \/ \E a \in Spaces : protect_native(a)
  \/ \E w \in NativeWanted : MapPage(w[1], w[2], w[3])
  \/ \E enable \in BOOLEAN : iset_native(enable)
NativeSpec == NativeInit /\ [][NativeNext]_nativeVars
----------------------------------------------------------------------------
\* The handler is given the event for which the context it is given was saved
\* (irq_handle, cte.c:28): no signal came between the trap and the call.
EventOfContext == run.pc = "entry" => thiscpu.ev = Top(run.stk).why

\* A trap of the user code that runs will find the thread's own kernel stack, which
\* is empty, and the processor is in the thread's own space (setup_stack, cte.c:66).
OwnStack ==
  run.pc = "user" =>
    /\ thiscpu.ksp = run.th /\ stacks[run.th] = <<>>
    /\ thiscpu.vm_head = SpaceOf[run.th]

\* While user code runs, USER_SPACE holds exactly the mappings of its own space
\* with their last physical page and prot, and the next trap finds its own kernel
\* stack (OwnStack; __am_switch, vme.c:54-83).
UserInOwnSpace == OwnStack /\ (run.pc = "user" => host = spaces[SpaceOf[run.th]].pa)
=============================================================================
