------------------------------- MODULE QemuVme -------------------------------
(***************************************************************************)
(* Page tables of the x86-qemu port (am/src/x86/qemu/vme.c), as operators  *)
(* on the memory of tables.  A table is named by its frame; &as->ptr is a  *)
(* table of one entry of its own.  An entry holds where it points and its  *)
(* PTE_U flag; a virtual address is the sequence of its indices, the first *)
(* being 0, the only index of &as->ptr.                                    *)
(***************************************************************************)
EXTENDS AmThreads, FiniteSetsExt

CONSTANTS Frames,       \* what pgalloc hands out, numbers
          Kernel,       \* the AddrSpace on vme_init's stack
          Levels,       \* mmu.ptlevels
          Index,        \* indices of a table, with 0
          KernelTop     \* indices of the level-1 table that hold kernel areas

ASSUME QemuVmeAssumption ==
  /\ IsFiniteSet(Frames) /\ Frames \subseteq Nat /\ Levels \in Nat \ {0}
  /\ IsFiniteSet(Index) /\ 0 \in Index /\ KernelTop \subseteq Index /\ KernelTop # {}
  /\ Frames \cap Spaces = {} /\ Kernel \notin Frames \cup Spaces /\ None \notin Frames \cup {Kernel}

Tables == Frames \cup Spaces \cup {Kernel}
Addresses == {va \in [1..Levels+1 -> Index] : va[1] = 0}
KernelAddresses == {va \in Addresses : va[2] \in KernelTop}
UserAddresses == Addresses \ KernelAddresses

Entry(to, u) == [to |-> to, u |-> u]
Zeroed == [i \in Index |-> None]
Free(mem) == {f \in Frames : mem[f] = None}
pgalloc(mem) == CHOOSE f \in Free(mem) : \A g \in Free(mem) : f <= g
pgallocz(mem) == [mem EXCEPT ![pgalloc(mem)] = Zeroed]

\* ptwalk: the memory after the walk, with the tables it adds, and the last table.
ptwalk(mem0, a, va, u) ==
  LET walk[i \in 0..Levels] ==
        IF i = 0 THEN [mem |-> mem0, pt |-> a]
        ELSE LET mem == walk[i-1].mem   pt == walk[i-1].pt   e == mem[pt][va[i]]
             IN  IF e # None THEN [mem |-> mem, pt |-> e.to]
                 ELSE [mem |-> [pgallocz(mem) EXCEPT ![pt][va[i]] = Entry(pgalloc(mem), u)],
                       pt |-> pgalloc(mem)]
  IN  walk[Levels]
Slot(w, va) == w.mem[w.pt][va[Levels+1]]
SetSlot(w, va, e) == [w.mem EXCEPT ![w.pt][va[Levels+1]] = e]

\* vme_init (32 bits) maps every kernel page to itself; kpt is the table it built.
vme_map_kernel(mem) ==
  FoldSet(LAMBDA va, m : SetSlot(ptwalk(m, Kernel, va, FALSE), va, Entry(va, FALSE)),
          [mem EXCEPT ![Kernel] = Zeroed], KernelAddresses)
kpt(mem) == mem[Kernel][0].to

\* protect shares the kernel's level-1 entries.
vme_protect(mem, a) ==
  LET upt == pgalloc(mem)
  IN  [pgallocz(mem) EXCEPT ![a] = [Zeroed EXCEPT ![0] = Entry(upt, TRUE)],
                            ![upt] = [i \in Index |-> IF i \in KernelTop THEN mem[kpt(mem)][i] ELSE None]]

\* map, with prot MMAP_NONE when the physical page is None.
UserTable == TRUE
vme_map(mem, a, va, pa) ==
  SetSlot(ptwalk(mem, a, va, UserTable), va, IF pa = None THEN None ELSE Entry(pa, TRUE))
vme_mapped(mem, a, va) == Slot(ptwalk(mem, a, va, UserTable), va) # None

\* The tables that teardown frees: those it reaches through user entries.
DescendsAll(e) == e # None      \* a slip: the kernel's entries too
Descends(e) == e # None /\ e.u
teardown(mem, a) ==
  LET freed[level \in 0..Levels] ==
        [pt \in Tables |->
           (IF level >= 1 THEN {pt} ELSE {}) \cup
           (IF level = Levels \/ mem[pt] = None THEN {}
            ELSE UNION {freed[level+1][mem[pt][i].to] : i \in {j \in Index : Descends(mem[pt][j])}})]
  IN  freed[0][a]
vme_unprotect(mem, a) ==
  LET freed == teardown(mem, a) IN [t \in Tables |-> IF t \in freed THEN None ELSE mem[t]]

\* The tables of the kernel: all below kpt.
KernelTables(mem) ==
  {kpt(mem)} \cup {mem[kpt(mem)][i].to : i \in {j \in KernelTop : mem[kpt(mem)][j] # None /\ Levels > 1}}
=============================================================================
