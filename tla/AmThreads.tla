------------------------------ MODULE AmThreads ------------------------------
(***************************************************************************)
(* What the ports of the abstract machine with contexts and address spaces *)
(* have in common (am/include/am.h): the kernel's threads, their spaces,   *)
(* and where a thread is executing.                                        *)
(***************************************************************************)
EXTENDS Naturals, Sequences, FiniteSets

CONSTANTS Kernels,      \* kernel threads; Boot is the one that runs main()
          Boot,
          Users,        \* user threads, each with a kernel stack
          Spaces,       \* AddrSpaces
          SpaceOf,      \* the AddrSpace of each user thread
          None,         \* NULL
          MaxNested     \* bound: contexts on one kernel stack

ASSUME ThreadsAssumption ==
  /\ Boot \in Kernels /\ Kernels \cap Users = {}
  /\ SpaceOf \in [Users -> Spaces]
  /\ None \notin Spaces \cup Kernels \cup Users
  /\ MaxNested \in Nat

Threads == Kernels \cup Users
\* A thread, where its program counter is, the stack it runs on, and whether
\* interrupts are off.
Place(t, pc, stk, masked) == [th |-> t, pc |-> pc, stk |-> stk, masked |-> masked]
=============================================================================
