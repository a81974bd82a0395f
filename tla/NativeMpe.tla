------------------------------ MODULE NativeMpe ------------------------------
(***************************************************************************)
(* Processors of the native port are processes (am/src/native/mpe.c, trm.c *)
(* and the start-up of platform.c).  init_platform maps the data sections  *)
(* again as shared memory and the per-cpu structure as private memory, so  *)
(* that fork() gives a child its own thiscpu and nothing else.  mpe_init   *)
(* forks, lets the children wait on a pipe until the devices are ready,    *)
(* and writes one character for each of them.                              *)
(***************************************************************************)
EXTENDS Naturals

CONSTANT Ncpu           \* __am_ncpu, from the environment
ASSUME NcpuAssumption == Ncpu \in 1..16

VARIABLES proc,         \* where each process stands
          private,      \* its thiscpu->cpuid and whether its interval timer runs
          step,         \* the loop variable i of mpe_init
          plus,         \* characters in the pipe
          ioe,          \* the devices are initialised (shared data)
          mpe           \* __am_mpe_init (shared data)

mpeVars == <<proc, private, step, plus, ioe, mpe>>
Cpus == 0..Ncpu-1

\* init_platform and main() up to mpe_init, in the only process there is.
init_platform ==
  /\ proc = [c \in Cpus |-> IF c = 0 THEN "main" ELSE "none"]
  /\ private = [c \in Cpus |-> [cpuid |-> 0, timer |-> c = 0]]
  /\ step = 0 /\ plus = 0 /\ ioe = FALSE /\ mpe = FALSE

mpe_init ==
  /\ proc[0] = "main"
  /\ mpe' = TRUE /\ step' = 1
  /\ proc' = [proc EXCEPT ![0] = "fork"]
  /\ UNCHANGED <<private, plus, ioe>>
\* fork() copies private memory, but not the interval timer.
Fork ==
  /\ proc[0] = "fork"
  /\ IF step < Ncpu
     THEN /\ proc' = [proc EXCEPT ![step] = "read"]
          /\ private' = [private EXCEPT ![step] = [cpuid |-> private[0].cpuid, timer |-> FALSE]]
          /\ step' = step + 1
     ELSE proc' = [proc EXCEPT ![0] = "ioe"] /\ UNCHANGED <<private, step>>
  /\ UNCHANGED <<plus, ioe, mpe>>
am_ioe_init ==
  /\ proc[0] = "ioe"
  /\ ioe' = TRUE /\ step' = 1
  /\ proc' = [proc EXCEPT ![0] = "write"]
  /\ UNCHANGED <<private, plus, mpe>>
Release ==
  /\ proc[0] = "write"
  /\ IF step < Ncpu THEN plus' = plus + 1 /\ step' = step + 1 /\ UNCHANGED proc
     ELSE proc' = [proc EXCEPT ![0] = "entry"] /\ UNCHANGED <<plus, step>>
  /\ UNCHANGED <<private, ioe, mpe>>
\* A child holds both ends of the pipe while it waits: its read never ends early.
Read(c) ==
  /\ proc[c] = "read" /\ plus > 0
  /\ plus' = plus - 1
  /\ proc' = [proc EXCEPT ![c] = "released"]
  /\ UNCHANGED <<private, step, ioe, mpe>>
WrittenShared(c) == [d \in Cpus |-> [cpuid |-> c, timer |-> TRUE]]      \* a slip: thiscpu shared
Written(c) == [private EXCEPT ![c] = [cpuid |-> c, timer |-> TRUE]]
SetUp(c) ==
  /\ proc[c] = "released"
  /\ private' = Written(c)
  /\ proc' = [proc EXCEPT ![c] = "entry"]
  /\ UNCHANGED <<step, plus, ioe, mpe>>
\* halt(): SIGKILL to the whole group once there are several processes.
am_exit_platform(c) ==
  /\ proc[c] \in {"main", "entry"}
  /\ proc' = [d \in Cpus |-> IF d = c \/ (mpe /\ Ncpu > 1) THEN "dead" ELSE proc[d]]
  /\ UNCHANGED <<private, step, plus, ioe, mpe>>

MpeNext == \/ mpe_init \/ Fork \/ am_ioe_init \/ Release
           \/ \E c \in Cpus \ {0} : Read(c) \/ SetUp(c)
           \/ \E c \in Cpus : am_exit_platform(c)
\* The host schedules every process that can go on.
MpeFairness ==
  /\ WF_mpeVars(mpe_init) /\ WF_mpeVars(Fork) /\ WF_mpeVars(am_ioe_init) /\ WF_mpeVars(Release)
  /\ \A c \in Cpus \ {0} : WF_mpeVars(Read(c)) /\ WF_mpeVars(SetUp(c))
NativeMpeSpec == init_platform /\ [][MpeNext]_mpeVars /\ MpeFairness
----------------------------------------------------------------------------
\* Where cpu_current() can be called after mpe_init, the devices are ready and the
\* process has its own number and its own timer; and unless the program halts, all
\* get there (mpe.c:14-37: forks, characters written and characters read agree).
Enters(c) == proc[c] = "entry" /\ private[c] = [cpuid |-> c, timer |-> TRUE] /\ ioe
ProcessesEnter ==
  /\ [](\A c \in Cpus : proc[c] = "entry" => Enters(c))
  /\ <>((\A c \in Cpus : Enters(c)) \/ \E c \in Cpus : proc[c] = "dead")
=============================================================================
