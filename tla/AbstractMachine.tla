---------------------------- MODULE AbstractMachine ----------------------------
(***************************************************************************)
(* The ports of the abstract machine side by side.  A program is built for *)
(* one ARCH: a behaviour takes the part of one port that port names and    *)
(* leaves the others where they start.                                     *)
(***************************************************************************)
EXTENDS NativeCte, QemuCte, NativeMpe, QemuMpe, Htif, QemuBoot, QemuGpu, QemuClock, NativeSound

\* There is a program to boot and to count processors for, a date and a width.
ASSUME AmAssumption == Images # {} /\ MpTables # {} /\ StartDates # {} /\ Xlens # {}

VARIABLE port

Ports == {"native", "native mpe", "native sound", "qemu", "qemu mpe", "qemu boot", "qemu gpu",
          "qemu clock", "spike"}
amVars == <<port, nativeVars, mpeVars, qemuVars, smpVars, bootVars, gpuVars,
            clockVars, diskVars, htifVars, soundVars>>
\* The steps of one part leave everything else alone.
Alone(others) == UNCHANGED <<port, others>>
Native ==
  port = "native" /\ NativeNext /\ Alone(<<mpeVars, qemuVars, smpVars, bootVars, gpuVars, clockVars, diskVars, htifVars, soundVars>>)
Processes ==
  port = "native mpe" /\ MpeNext /\ Alone(<<nativeVars, qemuVars, smpVars, bootVars, gpuVars, clockVars, diskVars, htifVars, soundVars>>)
Qemu ==
  port = "qemu" /\ QemuNext /\ Alone(<<nativeVars, mpeVars, smpVars, bootVars, gpuVars, clockVars, diskVars, htifVars, soundVars>>)
Processors ==
  port = "qemu mpe" /\ SmpNext /\ Alone(<<nativeVars, mpeVars, qemuVars, bootVars, gpuVars, clockVars, diskVars, htifVars, soundVars>>)
Boots ==
  port = "qemu boot" /\ BootNext /\ Alone(<<nativeVars, mpeVars, qemuVars, smpVars, gpuVars, clockVars, diskVars, htifVars, soundVars>>)
Displays ==
  port = "qemu gpu" /\ GpuNext /\ Alone(<<nativeVars, mpeVars, qemuVars, smpVars, bootVars, clockVars, diskVars, htifVars, soundVars>>)
Clocks ==
  port = "qemu clock" /\ ClockNext /\ Alone(<<nativeVars, mpeVars, qemuVars, smpVars, bootVars, gpuVars, htifVars, soundVars>>)
Spike ==
  port = "spike" /\ HtifNext /\ Alone(<<nativeVars, mpeVars, qemuVars, smpVars, bootVars, gpuVars, clockVars, diskVars, soundVars>>)

Sound ==
  port = "native sound" /\ SoundNext /\ Alone(<<nativeVars, mpeVars, qemuVars, smpVars, bootVars, gpuVars, clockVars, diskVars, htifVars>>)

\* Only the part that runs starts in each of its initial states.  The processes and
\* processors of the others are dead, so that nothing is asked of them.
SomeOf(S) == CHOOSE x \in S : TRUE
AmInit ==
  /\ port \in Ports
  /\ NativeInit /\ QemuInit /\ GpuInit /\ SoundInit
  /\ IF port = "qemu boot" THEN BootInit ELSE PowerOn(SomeOf(Images), SomeOf(MpTables))
  /\ IF port = "qemu clock" THEN ClockInit ELSE ClockAt(SomeOf(StartDates))
  /\ IF port = "spike" THEN HtifInit ELSE HtifReset(SomeOf(Xlens))
  /\ IF port = "native mpe" THEN init_platform
     ELSE /\ proc = [c \in Cpus |-> "dead"]
          /\ private = [c \in Cpus |-> [cpuid |-> 0, timer |-> FALSE]]
          /\ step = 0 /\ plus = 0 /\ ioe = FALSE /\ mpe = FALSE
  /\ IF port = "qemu mpe" THEN SmpInit
     ELSE /\ pc = [c \in Procs |-> "off"] /\ victim = [c \in Procs |-> 0]
          /\ boot_record = [jmp_code |-> "loader", is_ap |-> 0]
          /\ ap_ready = 0 /\ next = 0 /\ ipis = {} /\ percpu = {} /\ power = FALSE
AmNext == \/ Native \/ Processes \/ Qemu \/ Processors
          \/ Boots \/ Displays \/ Clocks \/ Spike \/ Sound
AmSpec == AmInit /\ [][AmNext]_amVars /\ MpeFairness /\ SmpFairness
----------------------------------------------------------------------------
\* What the devices hand over is right in every order of events: the console words
\* of spike, the sound of native, and on x86-qemu the loaded program, the display, the
\* clock and the disk (HtifRight, SoundRight, BootRight, GpuRight and ClockRight).
DevicesRight == HtifRight /\ SoundRight /\ BootRight /\ GpuRight /\ ClockRight
=============================================================================
