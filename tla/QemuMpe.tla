------------------------------- MODULE QemuMpe -------------------------------
(***************************************************************************)
(* Start, multiprocessing and halt of the x86-qemu port (am/src/x86/qemu/  *)
(* trm.c, mpe.c and the IPIs of ioe.c; boot/main.c for how a processor     *)
(* comes to _start_c).  All processors begin on one boot stack.  An INIT   *)
(* sent by one processor reaches the other some time later and makes it    *)
(* start over at the boot record.                                          *)
(***************************************************************************)
EXTENDS Naturals

CONSTANT Nprocs         \* __am_ncpu, as lapic_init counts it
ASSUME NprocsAssumption == Nprocs \in 1..8

VARIABLES pc,           \* where each processor stands
          boot_record,  \* what it will do when started: jmp_code and is_ap
          ap_ready,
          next,         \* the loop variable of mpe_init
          victim,       \* the loop variable of each processor's __am_stop_the_world
          ipis,         \* processors with an INIT and SIPI on the way
          percpu,       \* processors that did __am_percpu_init
          power         \* QEMU runs

smpVars == <<pc, boot_record, ap_ready, next, victim, ipis, percpu, power>>
Procs == 0..Nprocs-1
Others == Procs \ {0}
Go(c, to) == pc' = [pc EXCEPT ![c] = to]

SmpInit ==
  /\ pc = [c \in Procs |-> IF c = 0 THEN "boot" ELSE "off"]
  /\ boot_record = [jmp_code |-> "loader", is_ap |-> 0]
  /\ ap_ready = 0 /\ next = 0 /\ ipis = {} /\ percpu = {} /\ power = TRUE
  /\ victim = [c \in Procs |-> 0]

\* _start_c: only the flag in the boot record tells the processors apart.
_start_c(c) ==
  /\ power /\ pc[c] = "boot"
  /\ IF boot_record.is_ap = 1 THEN Go(c, "setup") /\ UNCHANGED percpu
     ELSE Go(c, "main") /\ percpu' = percpu \cup {c}
  /\ UNCHANGED <<boot_record, ap_ready, next, victim, ipis, power>>
mpe_init_qemu ==
  /\ power /\ pc[0] = "main"
  /\ boot_record' = [boot_record EXCEPT !.jmp_code = "loader"]
  /\ next' = 1 /\ Go(0, "next")
  /\ UNCHANGED <<ap_ready, victim, ipis, percpu, power>>
BootAp ==
  /\ power /\ pc[0] = "next"
  /\ IF next < Nprocs
     THEN /\ boot_record' = [boot_record EXCEPT !.is_ap = 1]
          /\ ipis' = ipis \cup {next} /\ Go(0, "wait")
     ELSE Go(0, "entry") /\ UNCHANGED <<boot_record, ipis>>
  /\ UNCHANGED <<ap_ready, next, victim, percpu, power>>
\* while (xchg(&ap_ready, 0) != 1) pause();
ApIsReadyAlways == TRUE      \* a slip: no wait for the last processor
ApIsReady == ap_ready = 1
WaitAp ==
  /\ power /\ pc[0] = "wait" /\ ApIsReady
  /\ ap_ready' = 0 /\ next' = next + 1 /\ Go(0, "next")
  /\ UNCHANGED <<boot_record, victim, ipis, percpu, power>>
\* The INIT arrives, whatever the processor does, and the SIPI starts it.
Restart(c) ==
  /\ power /\ c \in ipis
  /\ ipis' = ipis \ {c}
  /\ Go(c, IF boot_record.jmp_code = "loader" THEN "boot" ELSE "spin")
  /\ UNCHANGED <<boot_record, ap_ready, next, victim, percpu, power>>
\* othercpu_entry, in two steps.
am_percpu_init(c) ==
  /\ power /\ pc[c] = "setup"
  /\ percpu' = percpu \cup {c} /\ Go(c, "ready")
  /\ UNCHANGED <<boot_record, ap_ready, next, victim, ipis, power>>
othercpu_entry(c) ==
  /\ power /\ pc[c] = "ready"
  /\ ap_ready' = 1 /\ Go(c, "entry")
  /\ UNCHANGED <<boot_record, next, victim, ipis, percpu, power>>
\* halt: every other processor is sent to the boot record, which now spins.
halt(c) ==
  /\ power /\ pc[c] \in {"main", "entry"}
  /\ boot_record' = [boot_record EXCEPT !.jmp_code = "spin"]
  /\ victim' = [victim EXCEPT ![c] = 0] /\ Go(c, "stop")
  /\ UNCHANGED <<ap_ready, next, ipis, percpu, power>>
StopsAll(c, v) == TRUE      \* a slip: a processor stops itself too
Stops(c, v) == v # c
am_stop_the_world(c) ==
  /\ power /\ pc[c] = "stop"
  /\ IF victim[c] < Nprocs
     THEN /\ victim' = [victim EXCEPT ![c] = @ + 1]
          /\ ipis' = IF Stops(c, victim[c]) THEN ipis \cup {victim[c]} ELSE ipis
          /\ UNCHANGED pc
     ELSE Go(c, "print") /\ UNCHANGED <<victim, ipis>>
  /\ UNCHANGED <<boot_record, ap_ready, next, percpu, power>>
PowerOff(c) ==
  /\ power /\ pc[c] = "print" /\ power' = FALSE
  /\ UNCHANGED <<pc, boot_record, ap_ready, next, victim, ipis, percpu>>

Step(c) == \/ _start_c(c) \/ Restart(c) \/ am_percpu_init(c) \/ othercpu_entry(c)
           \/ am_stop_the_world(c) \/ PowerOff(c)
SmpNext == \/ mpe_init_qemu \/ BootAp \/ WaitAp
           \/ \E c \in Procs : Step(c) \/ halt(c)
\* Every processor that is not stopped runs.
SmpFairness == /\ WF_smpVars(mpe_init_qemu \/ BootAp \/ WaitAp)
               /\ \A c \in Procs : WF_smpVars(Step(c))
QemuMpeSpec == SmpInit /\ [][SmpNext]_smpVars /\ SmpFairness
----------------------------------------------------------------------------
\* One processor at a time uses the boot stack, and user code is entered only by
\* processors that set up their descriptor tables, local APIC and interrupts, by
\* the first one when all others did (mpe.c:17-22: the wait for ap_ready).
StartsInOrder ==
  /\ \A c, d \in Procs : pc[c] = "boot" /\ pc[d] = "boot" => c = d
  /\ \A c \in Procs : pc[c] = "entry" => c \in percpu /\ (c = 0 => percpu = Procs)

\* A processor that halts while no other does ends the machine (mpe.c:48, trm.c:39):
\* it stops the others and not itself.  Two that halt together may stop each other.
Halting(c) == pc[c] \in {"stop", "print"}
LoneHaltPowersOff ==
  \A c \in Procs : [](\A d \in Procs \ {c} : ~Halting(d)) /\ <>Halting(c) => <>(~power)
=============================================================================
