----------------------------- MODULE NativeProofs -----------------------------
(***************************************************************************)
(* The native port of the abstract machine: its contexts (EventOfContext,  *)
(* OwnStack), on top of them the spaces (UserInOwnSpace), for any threads, *)
(* spaces, pages and depth of nesting; and its sound (SoundRight), for any *)
(* size of the pipe and the buffers.  First come lemmas on stacks.         *)
(***************************************************************************)
EXTENDS NativeCte, NativeSound, Induction, SequenceTheorems, FiniteSetTheorems, TLAPS

(* A stack with one element more, and one with one less.                     *)
LEMMA Longer ==
  ASSUME NEW S, NEW s \in Seq(S), NEW c \in S
  PROVE  /\ Append(s, c) \in Seq(S) /\ Len(Append(s, c)) = Len(s) + 1
         /\ Append(s, c)[Len(s) + 1] = c
         /\ \A i \in 1..Len(s) : Append(s, c)[i] = s[i]
OBVIOUS

LEMMA Shorter ==
  ASSUME NEW S, NEW s \in Seq(S), s # <<>>
  PROVE  /\ Len(s) \in Nat /\ Len(s) >= 1 /\ s[Len(s)] \in S
         /\ SubSeq(s, 1, Len(s) - 1) \in Seq(S)
         /\ Len(SubSeq(s, 1, Len(s) - 1)) = Len(s) - 1
         /\ \A i \in 1..(Len(s) - 1) : SubSeq(s, 1, Len(s) - 1)[i] = s[i]
         /\ Len(s) = 1 => SubSeq(s, 1, Len(s) - 1) = <<>>
<1>1. Len(s) \in Nat /\ Len(s) >= 1 /\ \A i \in 1..Len(s) : s[i] \in S
  OBVIOUS
<1> DEFINE n == Len(s) - 1
<1>2. 1 \in Int /\ n \in Int /\ n >= 0 /\ Len(s) \in 1..Len(s) /\ \A i \in 1..n : s[i] \in S
  BY <1>1
<1> HIDE DEF n
<1>3. /\ SubSeq(s, 1, n) \in Seq(S)
      /\ Len(SubSeq(s, 1, n)) = IF 1 <= n THEN n - 1 + 1 ELSE 0
      /\ \A i \in 1..(n - 1 + 1) : SubSeq(s, 1, n)[i] = s[1 + i - 1]
  BY <1>2, SubSeqProperties
<1>4. Len(SubSeq(s, 1, n)) = n /\ \A i \in 1..n : SubSeq(s, 1, n)[i] = s[i]
  BY <1>2, <1>3
<1>5. n = 0 => SubSeq(s, 1, n) = <<>>
  BY <1>2, SubSeqEmpty
<1> QED
  BY <1>1, <1>2, <1>3, <1>4, <1>5 DEF n

-----------------------------------------------------------------------------
(* The contexts of the native port.                                          *)
CteTypes ==
  /\ vme_enable \in BOOLEAN
  /\ thiscpu \in [vm_head : Spaces \cup {None}, ksp : Threads \cup {None}, ev : Events]
  /\ run \in Running
  /\ stacks \in [Threads -> Seq(Contexts) \cup {None}]
  /\ \A a \in Spaces : spaces[a] # None => vme_enable

\* What a context on the stack of t is good for; entered says that irq_handle has
\* filled it in.
Consistent(c, t, i, entered) ==
  /\ c.uc.pc \in {"user", "kernel", "os"}
  /\ c.uc.pc = "user" => /\ c.uc.th = t /\ t \in Users /\ i = 1 /\ vme_enable
                         /\ entered => c.ksp = t /\ c.vm_head = SpaceOf[t]
  /\ c.uc.pc # "user" => c.uc.stk = t
Entering(t, i) == run.pc = "entry" /\ run.stk = t /\ i = Len(stacks[t])
Saved == \A t \in Threads : stacks[t] # None =>
           \A i \in 1..Len(stacks[t]) : Consistent(stacks[t][i], t, i, ~Entering(t, i))

InUser == run.pc = "user" => run.th \in Users /\ vme_enable /\ stacks[run.th] = <<>>
OnStack == run.pc # "user" => run.stk \in Threads /\ stacks[run.stk] # None
AtEntry == run.pc = "entry" =>
             /\ run.masked /\ stacks[run.stk] # <<>> /\ thiscpu.ev = Top(run.stk).why
             /\ Top(run.stk).uc.pc = "user" => /\ thiscpu.ksp = run.stk
                                               /\ thiscpu.vm_head = SpaceOf[run.stk]
GoingBack == run.pc = "back" =>
               /\ run.masked /\ stacks[run.th] \notin {None, <<>>}
               /\ vme_enable => thiscpu.vm_head = Top(run.th).vm_head
CteInv == CteTypes /\ Saved /\ InUser /\ OwnStack /\ OnStack /\ AtEntry /\ GoingBack

LEMMA OneContext ==
  ASSUME NEW c \in Contexts
  PROVE  <<c>> \in Seq(Contexts) /\ Len(<<c>>) = 1 /\ <<c>>[1] = c
OBVIOUS

(* An empty stack is not a missing one, nor is any other.                   *)
LEMMA EmptyStack == <<>> \in Seq(Contexts) /\ \A s \in Seq(Contexts) : s # None
<1>1. <<>> \in Seq(Contexts)
  OBVIOUS
<1> QED
  BY <1>1, NativeAssumption

(* CteInv holds when main() starts.                                          *)
LEMMA CteStarts == NativeInit => CteInv
<1> SUFFICES ASSUME NativeInit PROVE CteInv
  OBVIOUS
<1>0. Boot \in Threads /\ <<>> \in Seq(Contexts) /\ <<>> # None
  BY EmptyStack, ThreadsAssumption DEF Threads
<1>1. CteTypes
  <2>1. stacks \in [Threads -> Seq(Contexts) \cup {None}]
    BY <1>0 DEF NativeInit
  <2>2. Error \in Events
    BY DEF Error, Events
  <2>3. run \in Running
    BY <1>0 DEF NativeInit, Place, Running, Codes
  <2> QED
    BY <2>1, <2>2, <2>3 DEF NativeInit, CteTypes
<1>2. Saved
  BY DEF NativeInit, Saved
<1>3. InUser /\ OwnStack /\ OnStack /\ AtEntry /\ GoingBack
  BY <1>0 DEF NativeInit, Place, InUser, OwnStack, OnStack, AtEntry, GoingBack
<1> QED
  BY <1>1, <1>2, <1>3 DEF CteInv

(* A trap from user code, from the kernel or from its handler.              *)
LEMMA TrapKept ==
  ASSUME CteInv, NEW ev \in Events, Trap(ev), run.pc \in {"user", "kernel", "os"}
  PROVE  CteInv'
<1> DEFINE user == run.pc = "user"
           stk  == IF user THEN thiscpu.ksp ELSE run.stk
           c    == Context_native(run, None, None, ev)
           new  == IF user THEN <<c>> ELSE Append(stacks[stk], c)
<1>0. CteTypes /\ Saved /\ InUser /\ OwnStack /\ OnStack
  BY DEF CteInv
<1>1. in_userspace(run.pc) <=> user
  BY <1>0, ThreadsAssumption DEF InUser, OwnStack, in_userspace
<1>2. /\ stk \in Threads /\ stacks[stk] \in Seq(Contexts) /\ stacks[stk] # None
      /\ user => /\ stk = run.th /\ run.th \in Users /\ thiscpu.vm_head = SpaceOf[run.th]
                 /\ vme_enable
  <2>1. CASE user
    BY <2>1, <1>0, EmptyStack DEF InUser, OwnStack, Threads
  <2>2. CASE ~user
    BY <2>2, <1>0 DEF OnStack, CteTypes
  <2> QED
    BY <2>1, <2>2
<1>3. c \in Contexts /\ c.uc = run /\ c.why = ev
  BY <1>0 DEF Context_native, Contexts, CteTypes
<1>4. /\ new \in Seq(Contexts) /\ Len(new) \in Nat /\ Len(new) >= 1 /\ new[Len(new)] = c
      /\ user => Len(new) = 1
      /\ ~user => Len(new) = Len(stacks[stk]) + 1
      /\ \A i \in 1..(Len(new) - 1) : new[i] = stacks[stk][i]
  <2>1. CASE user
    BY <2>1, <1>3, OneContext
  <2>2. CASE ~user
    <3>1. Len(stacks[stk]) \in Nat
      BY <1>2
    <3> QED
      BY <2>2, <3>1, <1>2, <1>3, Longer
  <2> QED
    BY <2>1, <2>2
<1>5. /\ stacks' = [stacks EXCEPT ![stk] = new]
      /\ run' = Place(run.th, "entry", stk, TRUE)
      /\ thiscpu' = [thiscpu EXCEPT !.ev = ev]
      /\ UNCHANGED <<vme_enable, spaces>>
  BY <1>1 DEF Trap, setup_stack, DisableInterrupt, Place
<1> HIDE DEF new, c, stk
<1>6. stacks' \in [Threads -> Seq(Contexts) \cup {None}] /\ stacks'[stk] = new
      /\ \A t \in Threads : t # stk => stacks'[t] = stacks[t]
  BY <1>0, <1>2, <1>4, <1>5 DEF CteTypes
<1>7. /\ run'.pc = "entry" /\ run'.stk = stk /\ run'.masked /\ run' \in Running
      /\ thiscpu'.ev = ev /\ thiscpu'.ksp = thiscpu.ksp /\ thiscpu'.vm_head = thiscpu.vm_head
      /\ thiscpu' \in [vm_head : Spaces \cup {None}, ksp : Threads \cup {None}, ev : Events]
  BY <1>0, <1>2, <1>5 DEF CteTypes, Running, Codes, Place
<1>8. CteTypes'
  BY <1>0, <1>5, <1>6, <1>7 DEF CteTypes
<1>9. Saved'
  <2> SUFFICES ASSUME NEW t \in Threads, stacks'[t] # None, NEW i \in 1..Len(stacks'[t])
               PROVE  Consistent(stacks[t][i], t, i, ~Entering(t, i))'
    BY DEF Saved
  <2>1. CASE t # stk
    <3>1. stacks'[t] = stacks[t] /\ Consistent(stacks[t][i], t, i, TRUE)
      BY <2>1, <1>0, <1>6 DEF Saved, Entering
    <3> QED
      BY <3>1, <1>5 DEF Consistent
  <2>2. CASE t = stk /\ i # Len(new)
    <3>1. i \in 1..(Len(new) - 1) /\ ~user
      BY <2>2, <1>4, <1>6
    <3>2. i \in 1..Len(stacks[stk]) /\ stacks'[t][i] = stacks[stk][i]
      BY <3>1, <2>2, <1>4, <1>6, <1>2
    <3>3. Consistent(stacks[stk][i], stk, i, TRUE)
      BY <3>2, <1>0, <1>2 DEF Saved, Entering
    <3> QED
      BY <3>2, <3>3, <2>2, <1>5 DEF Consistent
  <2>3. CASE t = stk /\ i = Len(new)
    <3>1. stacks'[t][i] = c /\ Entering(t, i)'
      BY <2>3, <1>4, <1>6, <1>7 DEF Entering
    <3>2. user => c.uc.th = t /\ t \in Users /\ i = 1 /\ vme_enable'
      BY <2>3, <1>2, <1>3, <1>4, <1>5
    <3>3. ~user => c.uc.stk = t
      BY <2>3, <1>3 DEF stk
    <3> QED
      BY <3>1, <3>2, <3>3, <1>3 DEF Consistent
  <2> QED
    BY <2>1, <2>2, <2>3
<1>10. AtEntry'
  <2>1. Top(run.stk)' = c
    BY <1>4, <1>6, <1>7 DEF Top
  <2>2. stacks'[run'.stk] # <<>>
    BY <1>4, <1>6, <1>7
  <2>3. user => thiscpu'.ksp = stk /\ thiscpu'.vm_head = SpaceOf[stk]
    BY <1>2, <1>7 DEF stk
  <2> QED
    BY <2>1, <2>2, <2>3, <1>3, <1>7 DEF AtEntry
<1>11. InUser' /\ OwnStack' /\ OnStack' /\ GoingBack'
  BY EmptyStack, <1>2, <1>4, <1>6, <1>7 DEF InUser, OwnStack, OnStack, GoingBack
<1> QED
  BY <1>8, <1>9, <1>10, <1>11 DEF CteInv

(* What the stacks hold stays good while no context is being filled in.      *)
LEMMA SameStacksKept ==
  ASSUME Saved, UNCHANGED stacks, run.pc # "entry", run'.pc # "entry", vme_enable => vme_enable'
  PROVE  Saved'
BY DEF Saved, Consistent, Entering

(* A step inside the kernel, its handler or its library functions that       *)
(* neither starts nor finishes a trap and pushes no context.                 *)
LEMMA KernelStepKept ==
  ASSUME CteInv, CteTypes', UNCHANGED stacks, vme_enable => vme_enable',
         run.pc \in {"kernel", "os", "kernel lib", "os lib"},
         run'.pc \in {"kernel", "os", "kernel lib", "os lib", "hung"}, run'.stk = run.stk
  PROVE  CteInv'
<1>1. Saved'
  BY SameStacksKept DEF CteInv
<1>2. InUser' /\ OwnStack' /\ OnStack' /\ AtEntry' /\ GoingBack'
  BY DEF CteInv, InUser, OwnStack, OnStack, AtEntry, GoingBack
<1> QED
  BY <1>1, <1>2 DEF CteInv

(* The steps of the kernel and of its libraries that leave the stacks alone. *)
LEMMA QuietStepsKept ==
  ASSUME CteInv,
         \/ \E e \in Irqs : Missed(e)
         \/ vme_init_native \/ LibraryCall
         \/ \E a \in Spaces : protect_native(a)
         \/ \E w \in NativeWanted : MapPage(w[1], w[2], w[3])
         \/ \E enable \in BOOLEAN : iset_native(enable)
  PROVE  CteInv'
<1>0. CteTypes
  BY DEF CteInv
<1>1. ASSUME NEW e \in Irqs, Missed(e) PROVE CteInv'
  <2>1. Event(e) \in Events
    BY DEF Event, Events
  <2>2. CteTypes'
    BY <1>0, <1>1, <2>1 DEF CteTypes, Missed
  <2> QED
    BY <1>1, <2>2, KernelStepKept DEF Missed
<1>2. CASE vme_init_native
  <2>1. CteTypes'
    BY <1>0, <1>2 DEF CteTypes, vme_init_native
  <2> QED
    BY <1>2, <2>1, KernelStepKept DEF vme_init_native, InKernel_native
<1>3. CASE LibraryCall
  <2>0. PICK in \in {<<"kernel", "kernel lib">>, <<"os", "os lib">>}, call \in BOOLEAN :
          /\ run.pc = in[IF call THEN 1 ELSE 2]
          /\ run' = [run EXCEPT !.pc = in[IF call THEN 2 ELSE 1]]
    BY <1>3 DEF LibraryCall
  <2> DEFINE to == in[IF call THEN 2 ELSE 1]
  <2>1. /\ {run.pc, to} \subseteq {"kernel", "os", "kernel lib", "os lib"}
        /\ run' = [run EXCEPT !.pc = to] /\ UNCHANGED <<vme_enable, thiscpu, stacks, spaces>>
    <3>1. CASE in = <<"kernel", "kernel lib">>
      BY <3>1, <2>0, <1>3 DEF LibraryCall
    <3>2. CASE in = <<"os", "os lib">>
      BY <3>2, <2>0, <1>3 DEF LibraryCall
    <3> QED
      BY <3>1, <3>2
  <2> HIDE DEF to
  <2>2. CteTypes' /\ run'.pc = to /\ run'.stk = run.stk
    BY <1>0, <2>1 DEF CteTypes, Running, Codes
  <2> QED
    BY <2>1, <2>2, KernelStepKept
<1>4. ASSUME NEW a \in Spaces, protect_native(a) PROVE CteInv'
  <2>1. CteTypes'
    BY <1>0, <1>4 DEF CteTypes, protect_native
  <2> QED
    BY <1>4, <2>1, KernelStepKept DEF protect_native, InKernel_native
<1>5. ASSUME NEW w \in NativeWanted, MapPage(w[1], w[2], w[3]) PROVE CteInv'
  <2>1. w[1] \in Spaces
    BY NativeAssumption
  <2>2. vme_enable
    BY <1>0, <1>5, <2>1 DEF CteTypes, MapPage, map_native
  <2>3. CteTypes'
    BY <1>0, <1>5, <2>2 DEF CteTypes, MapPage, map_native
  <2> QED
    BY <1>5, <2>3, KernelStepKept DEF MapPage, InKernel_native
<1>6. ASSUME NEW enable \in BOOLEAN, iset_native(enable) PROVE CteInv'
  <2>1. CteTypes' /\ run'.pc = run.pc /\ run'.stk = run.stk
    BY <1>0, <1>6 DEF CteTypes, Running, iset_native
  <2> QED
    BY <1>6, <2>1, KernelStepKept DEF iset_native, InKernel_native
<1> QED
  BY <1>1, <1>2, <1>3, <1>4, <1>5, <1>6

(* vme.c and kcontext: a new thread gets a stack with one context of its own. *)
LEMMA CreateKept ==
  ASSUME CteInv, NEW t \in Threads, CreateKernel_native(t) \/ CreateUser_native(t)
  PROVE  CteInv'
<1>0. CteTypes /\ Saved /\ InUser /\ OwnStack /\ OnStack
  BY DEF CteInv
<1>1. PICK c \in {kcontext_native(t), ucontext_native(t)} :
        /\ Create_native(t, c)
        /\ t \in Users => c = ucontext_native(t) /\ spaces[SpaceOf[t]] # None
        /\ t \notin Users => c = kcontext_native(t)
  BY ThreadsAssumption DEF CreateKernel_native, CreateUser_native
<1>2. /\ c \in Contexts /\ Consistent(c, t, 1, TRUE)
  <2>1. CASE t \in Users
    <3>1. SpaceOf[t] \in Spaces /\ vme_enable
      BY <2>1, <1>0, <1>1, ThreadsAssumption DEF CteTypes
    <3>2. c = Context_native(Place(t, "user", None, FALSE), SpaceOf[t], t, None)
      BY <2>1, <1>1 DEF ucontext_native
    <3>3. Place(t, "user", None, FALSE) \in Running
      BY DEF Place, Running, Codes
    <3>4. c \in Contexts /\ c.uc.pc = "user" /\ c.uc.th = t /\ c.ksp = t /\ c.vm_head = SpaceOf[t]
      BY <3>1, <3>2, <3>3 DEF Context_native, Contexts, Place
    <3> QED
      BY <2>1, <3>1, <3>4 DEF Consistent
  <2>2. CASE t \notin Users
    <3>1. c = Context_native(Place(t, "kernel", t, FALSE), None, None, None)
      BY <2>2, <1>1 DEF kcontext_native
    <3>2. Place(t, "kernel", t, FALSE) \in Running
      BY DEF Place, Running, Codes
    <3>3. c \in Contexts /\ c.uc.pc = "kernel" /\ c.uc.stk = t
      BY <3>1, <3>2 DEF Context_native, Contexts, Place
    <3> QED
      BY <3>3 DEF Consistent
  <2> QED
    BY <2>1, <2>2
<1>3. /\ stacks[t] = None /\ stacks' = [stacks EXCEPT ![t] = <<c>>]
      /\ UNCHANGED <<vme_enable, thiscpu, run, spaces>> /\ run.pc \in {"kernel", "os"}
  BY <1>1 DEF Create_native, InKernel_native
<1>4. <<c>> \in Seq(Contexts) /\ <<c>> # None /\ Len(<<c>>) = 1 /\ <<c>>[1] = c
  BY <1>2, OneContext, EmptyStack
<1>5. stacks'[t] = <<c>> /\ \A u \in Threads : u # t => stacks'[u] = stacks[u]
  BY <1>0, <1>3 DEF CteTypes
<1>6. CteTypes'
  BY <1>0, <1>3, <1>4 DEF CteTypes
<1>7. Saved'
  <2> SUFFICES ASSUME NEW u \in Threads, stacks'[u] # None, NEW i \in 1..Len(stacks'[u])
               PROVE  Consistent(stacks[u][i], u, i, ~Entering(u, i))'
    BY DEF Saved
  <2>1. CASE u = t
    <3>1. i = 1 /\ stacks'[u][i] = c
      BY <2>1, <1>4, <1>5
    <3> QED
      BY <2>1, <3>1, <1>2, <1>3 DEF Consistent
  <2>2. CASE u # t
    BY <2>2, <1>0, <1>3, <1>5 DEF Saved, Consistent, Entering
  <2> QED
    BY <2>1, <2>2
<1>8. InUser' /\ OwnStack' /\ OnStack' /\ AtEntry' /\ GoingBack'
  <2>1. run.stk # t
    BY <1>0, <1>3 DEF OnStack
  <2> QED
    BY <2>1, <1>0, <1>3, <1>5 DEF InUser, OwnStack, OnStack, AtEntry, GoingBack
<1> QED
  BY <1>6, <1>7, <1>8 DEF CteInv

(* irq_handle fills in the context on top and calls the kernel.              *)
LEMMA EnterKept == ASSUME CteInv, Enter PROVE CteInv'
<1> DEFINE t == run.stk
           n == Len(stacks[t])
           c == [Top(t) EXCEPT !.vm_head = thiscpu.vm_head, !.ksp = thiscpu.ksp, !.why = None]
           new == [stacks[t] EXCEPT ![n] = c]
<1>0. CteTypes /\ Saved /\ OnStack /\ AtEntry
  BY DEF CteInv
<1>1. /\ t \in Threads /\ stacks[t] # None /\ stacks[t] \in Seq(Contexts) /\ stacks[t] # <<>>
      /\ Top(t).uc.pc = "user" => thiscpu.ksp = t /\ thiscpu.vm_head = SpaceOf[t]
  BY <1>0 DEF Enter, CteTypes, OnStack, AtEntry
<1>2. n \in Nat /\ n >= 1 /\ Top(t) \in Contexts
  BY <1>1, Shorter DEF Top
<1>3. c \in Contexts /\ c.uc = Top(t).uc /\ c.vm_head = thiscpu.vm_head /\ c.ksp = thiscpu.ksp
  BY <1>0, <1>2 DEF Contexts, CteTypes
<1>4. /\ new \in Seq(Contexts) /\ Len(new) = n /\ new[n] = c
      /\ \A i \in 1..n : i # n => new[i] = stacks[t][i]
  <2> HIDE DEF c
  <2> QED
    BY <1>1, <1>2, <1>3
<1>5. /\ stacks' = [stacks EXCEPT ![t] = new] /\ UNCHANGED <<vme_enable, thiscpu, spaces>>
      /\ run.pc = "entry" /\ run' \in Running /\ run'.pc \in {"panic", "os"} /\ run'.stk = t
  BY <1>0 DEF Enter, Top, CteTypes, Running, Codes
<1>6. Consistent(Top(t), t, n, FALSE)
  <2>1. n \in 1..n /\ Entering(t, n)
    BY <1>2, <1>5 DEF Entering
  <2>2. Consistent(stacks[t][n], t, n, ~Entering(t, n))
    BY <1>0, <1>1, <2>1 DEF Saved
  <2> QED
    BY <2>1, <2>2 DEF Consistent, Top
<1> HIDE DEF new, c
<1>7. stacks'[t] = new /\ new # None /\ \A u \in Threads : u # t => stacks'[u] = stacks[u]
  BY <1>0, <1>1, <1>4, <1>5, EmptyStack DEF CteTypes
<1>8. CteTypes'
  BY <1>0, <1>4, <1>5 DEF CteTypes
<1>9. Saved'
  <2> SUFFICES ASSUME NEW u \in Threads, stacks'[u] # None, NEW i \in 1..Len(stacks'[u])
               PROVE  Consistent(stacks[u][i], u, i, ~Entering(u, i))'
    BY DEF Saved
  <2>1. CASE u = t /\ i = n
    BY <2>1, <1>1, <1>3, <1>4, <1>5, <1>6, <1>7 DEF Consistent
  <2>2. CASE ~(u = t /\ i = n)
    <3>1. stacks'[u][i] = stacks[u][i] /\ stacks[u] # None /\ i \in 1..Len(stacks[u])
      BY <2>2, <1>1, <1>4, <1>7
    <3>2. Consistent(stacks[u][i], u, i, TRUE)
      BY <2>2, <3>1, <1>0 DEF Saved, Entering
    <3> QED
      BY <3>1, <3>2, <1>5 DEF Consistent
  <2> QED
    BY <2>1, <2>2
<1>10. InUser' /\ OwnStack' /\ OnStack' /\ AtEntry' /\ GoingBack'
  BY <1>1, <1>5, <1>7 DEF InUser, OwnStack, OnStack, AtEntry, GoingBack
<1> QED
  BY <1>8, <1>9, <1>10 DEF CteInv

(* The kernel gives back a context; __am_switch makes its space current.     *)
LEMMA LeaveKept == ASSUME CteInv, NEW t \in Threads, Leave(t) PROVE CteInv'
<1>0. CteTypes /\ Saved /\ OnStack /\ run.pc = "os" /\ run.masked /\ UNCHANGED <<vme_enable, stacks>>
  BY DEF CteInv, Leave
<1>1. stacks[t] \in Seq(Contexts) /\ stacks[t] \notin {None, <<>>} /\ Top(t) \in Contexts
  <2>1. stacks[t] \in Seq(Contexts) /\ stacks[t] # <<>> /\ stacks[t] # None
    BY <1>0 DEF Leave, CteTypes
  <2> QED
    BY <2>1, Shorter DEF Top
<1>2. CASE run' = [run EXCEPT !.pc = "hung"] /\ UNCHANGED <<thiscpu, spaces>>
  <2>1. CteTypes' /\ run'.pc = "hung" /\ run'.stk = run.stk
    BY <1>0, <1>2 DEF CteTypes, Running, Codes
  <2> QED
    BY <2>1, <1>0, KernelStepKept
<1>3. CASE run' = Place(t, "back", run.stk, TRUE) /\ am_switch(Top(t).vm_head)
  <2>1. /\ thiscpu' \in [vm_head : Spaces \cup {None}, ksp : Threads \cup {None}, ev : Events]
        /\ vme_enable => thiscpu'.vm_head = Top(t).vm_head
        /\ ~vme_enable => spaces' = spaces
    BY <1>0, <1>1, <1>3 DEF am_switch, CteTypes, Contexts
  <2>2. run' \in Running /\ run'.pc = "back" /\ run'.masked /\ run'.stk = run.stk /\ run'.th = t
    BY <1>0, <1>3 DEF CteTypes, Running, Codes, Place, OnStack
  <2>3. CteTypes'
    BY <2>1, <2>2, <1>0 DEF CteTypes
  <2>4. Saved'
    BY <2>2, <1>0, SameStacksKept
  <2>5. InUser' /\ OwnStack' /\ OnStack' /\ AtEntry' /\ GoingBack'
    BY <2>1, <2>2, <1>0, <1>1 DEF InUser, OwnStack, OnStack, AtEntry, GoingBack, Top
  <2> QED
    BY <2>3, <2>4, <2>5 DEF CteInv
<1> QED
  BY <1>2, <1>3 DEF Leave

(* iret resumes the context on top, which leaves the stack.                  *)
LEMMA IretKept == ASSUME CteInv, iret PROVE CteInv'
<1> DEFINE t == run.th
           n == Len(stacks[t])
           c == stacks[t][n]
           new == SubSeq(stacks[t], 1, n - 1)
<1>0. CteTypes /\ Saved /\ GoingBack /\ run.pc = "back"
  BY DEF CteInv, iret
<1>1. t \in Threads /\ stacks[t] \in Seq(Contexts) /\ stacks[t] \notin {None, <<>>}
  BY <1>0 DEF CteTypes, Running, GoingBack
<1>2. /\ n \in Nat /\ n >= 1 /\ c \in Contexts /\ new \in Seq(Contexts) /\ Len(new) = n - 1
      /\ \A i \in 1..(n - 1) : new[i] = stacks[t][i]
      /\ n = 1 => new = <<>>
  BY <1>1, Shorter
<1>3. Consistent(c, t, n, TRUE)
  <2>1. n \in 1..n /\ ~Entering(t, n)
    BY <1>0, <1>2 DEF Entering
  <2>2. Consistent(c, t, n, ~Entering(t, n))
    BY <1>0, <1>1, <2>1 DEF Saved
  <2> QED
    BY <2>1, <2>2 DEF Consistent
<1>4. /\ run' = c.uc /\ stacks' = [stacks EXCEPT ![t] = new]
      /\ thiscpu' = [thiscpu EXCEPT !.ev = Error, !.ksp = c.ksp] /\ UNCHANGED <<vme_enable, spaces>>
  BY DEF iret, Top, RestoreKsp
<1>5. vme_enable => thiscpu.vm_head = c.vm_head
  BY <1>0 DEF GoingBack, Top
<1> HIDE DEF new, c, n
<1>6. /\ run' \in Running /\ run'.pc \in {"user", "kernel", "os"}
      /\ thiscpu'.ksp = c.ksp /\ thiscpu'.vm_head = thiscpu.vm_head
      /\ thiscpu' \in [vm_head : Spaces \cup {None}, ksp : Threads \cup {None}, ev : Events]
  <2>1. Error \in Events
    BY DEF Error, Events
  <2> QED
    BY <2>1, <1>0, <1>2, <1>3, <1>4 DEF CteTypes, Contexts, Consistent
<1>7. stacks'[t] = new /\ new # None /\ \A u \in Threads : u # t => stacks'[u] = stacks[u]
  BY <1>0, <1>1, <1>2, <1>4, EmptyStack DEF CteTypes
<1>8. CteTypes'
  BY <1>0, <1>2, <1>4, <1>6 DEF CteTypes
<1>9. Saved'
  <2> SUFFICES ASSUME NEW u \in Threads, stacks'[u] # None, NEW i \in 1..Len(stacks'[u])
               PROVE  Consistent(stacks[u][i], u, i, ~Entering(u, i))'
    BY DEF Saved
  <2>1. stacks'[u][i] = stacks[u][i] /\ stacks[u] # None /\ i \in 1..Len(stacks[u])
    BY <1>1, <1>2, <1>7 DEF n
  <2>2. Consistent(stacks[u][i], u, i, TRUE)
    BY <2>1, <1>0 DEF Saved, Entering
  <2> QED
    BY <2>1, <2>2, <1>4 DEF Consistent
<1>10. InUser' /\ OwnStack' /\ OnStack'
  <2>1. CASE c.uc.pc = "user"
    BY <2>1, <1>2, <1>3, <1>4, <1>5, <1>6, <1>7 DEF Consistent, InUser, OwnStack, OnStack
  <2>2. CASE c.uc.pc # "user"
    BY <2>2, <1>1, <1>3, <1>4, <1>7 DEF Consistent, InUser, OwnStack, OnStack
  <2> QED
    BY <2>1, <2>2
<1>11. AtEntry' /\ GoingBack'
  BY <1>6 DEF AtEntry, GoingBack
<1> QED
  BY <1>8, <1>9, <1>10, <1>11 DEF CteInv

(* Every step keeps CteInv; no interrupt comes between a trap and its handler *)
(* or between the switch of spaces and iret, where signals are blocked.      *)
LEMMA CteKept == CteInv /\ [NativeNext]_nativeVars => CteInv'
<1> SUFFICES ASSUME CteInv, [NativeNext]_nativeVars PROVE CteInv'
  OBVIOUS
<1>1. ASSUME NEW e \in Irqs, Interrupt(e) PROVE CteInv'
  <2>1. Event(e) \in Events
    BY DEF Event, Events
  <2>2. run.pc \in {"user", "kernel", "os"} /\ Trap(Event(e))
    BY <1>1 DEF Interrupt, CteInv, AtEntry, GoingBack
  <2> QED
    BY <2>1, <2>2, TrapKept
<1>2. CASE yield_native
  BY <1>2, TrapKept DEF yield_native, Event, Events
<1>3. CASE Syscall
  BY <1>3, TrapKept DEF Syscall, Event, Events
<1>4. ASSUME NEW v \in Pages, NEW write \in BOOLEAN, Access(v, write) PROVE CteInv'
  <2>1. PageFault("read") \in Events /\ PageFault("write") \in Events
    BY DEF PageFault, Events
  <2> QED
    BY <1>4, <2>1, TrapKept DEF Access
<1>5. CASE UNCHANGED nativeVars
  BY <1>5 DEF nativeVars, CteInv, CteTypes, Saved, Consistent, Entering, InUser, OwnStack, OnStack,
              AtEntry, GoingBack, Top
<1> QED
  BY <1>1, <1>2, <1>3, <1>4, <1>5, EnterKept, IretKept, LeaveKept, CreateKept, QuietStepsKept
     DEF NativeNext

(* Whatever the threads, the mappings and the interrupts, the handler is     *)
(* given the event for which the context it is given was saved               *)
(* (irq_handle, cte.c:28).                                                   *)
THEOREM EventOfContextHolds == NativeSpec => []EventOfContext
<1>1. CteInv => EventOfContext
  BY DEF CteInv, AtEntry, EventOfContext
<1> QED
  BY <1>1, CteStarts, CteKept, PTL DEF NativeSpec

(* Whatever the threads and the order in which the kernel resumes them, user *)
(* code runs with its own empty kernel stack as ksp and in its own space     *)
(* (setup_stack, cte.c:66; irq_handle, cte.c:50-52).                         *)
THEOREM OwnStackHolds == NativeSpec => []OwnStack
<1>1. CteInv => OwnStack
  BY DEF CteInv
<1> QED
  BY <1>1, CteStarts, CteKept, PTL DEF NativeSpec

-----------------------------------------------------------------------------
(* The spaces of the native port.  Last is how far __am_switch walks a list;  *)
(* Beyond is what list_foreach finds next.                                   *)
Last == Cardinality(Pages)
Beyond(s, u) == IF u = None THEN None ELSE s.next[u]

LEMMA LastIsNat == Last \in Nat
BY NativeAssumption, FS_CardinalityType DEF Last

LEMMA Lists ==
  ASSUME NEW s \in VMHeads
  PROVE  /\ ListAt(s) \in [0..Last -> Pages \cup {None}] /\ ListAt(s)[0] = s.head
         /\ \A n \in 0..(Last - 1) : ListAt(s)[n + 1] = Beyond(s, ListAt(s)[n])
<1> DEFINE Walk(k) == {at \in [0..k -> Pages \cup {None}] :
                         at[0] = s.head /\ \A n \in 0..(k - 1) : at[n + 1] = Beyond(s, at[n])}
           S == {k \in Nat : Walk(k) # {}}
<1>1. s.head \in Pages \cup {None} /\ \A u \in Pages \cup {None} : Beyond(s, u) \in Pages \cup {None}
  BY DEF VMHeads, Beyond
<1>2. 0 \in S
  <2>1. [n \in 0..0 |-> s.head] \in Walk(0)
    BY <1>1
  <2> QED
    BY <2>1
<1>3. ASSUME NEW k \in Nat, k \in S PROVE k + 1 \in S
  <2>1. PICK at \in Walk(k) : TRUE
    BY <1>3
  <2> DEFINE more == [n \in 0..(k + 1) |-> IF n <= k THEN at[n] ELSE Beyond(s, at[k])]
  <2>2. more \in [0..(k + 1) -> Pages \cup {None}]
    BY <2>1, <1>1
  <2>3. more[0] = s.head
    BY <2>1
  <2>4. ASSUME NEW n \in 0..((k + 1) - 1) PROVE more[n + 1] = Beyond(s, more[n])
    BY <2>1
  <2>5. more \in Walk(k + 1)
    BY <2>2, <2>3, <2>4
  <2> QED
    BY <2>5
<1>4. Last \in S
  <2> HIDE DEF S
  <2> QED
    BY <1>2, <1>3, NatSteps, LastIsNat
<1>5. PICK at \in Walk(Last) : TRUE
  BY <1>4
<1>6. at = [n \in 0..Last |-> IF n = 0 THEN s.head ELSE IF at[n-1] = None THEN None ELSE s.next[at[n-1]]]
  <2>1. ASSUME NEW n \in 0..Last, n # 0 PROVE at[n] = IF at[n-1] = None THEN None ELSE s.next[at[n-1]]
    <3>1. n - 1 \in 0..(Last - 1) /\ (n - 1) + 1 = n
      BY <2>1, LastIsNat
    <3> QED
      BY <3>1, <1>5 DEF Beyond
  <2> QED
    BY <2>1, <1>5
<1>7. ListAt(s) = [n \in 0..Last |-> IF n = 0 THEN s.head
                     ELSE IF ListAt(s)[n-1] = None THEN None ELSE s.next[ListAt(s)[n-1]]]
  BY <1>6 DEF ListAt, Last
<1>8. \A n \in 0..(Last - 1) : ListAt(s)[n + 1] = Beyond(s, ListAt(s)[n])
  <2> DEFINE to(k) == IF k = 0 THEN s.head ELSE Beyond(s, ListAt(s)[k-1])
  <2>1. ListAt(s) = [k \in 0..Last |-> to(k)]
    BY <1>7 DEF Beyond
  <2> HIDE DEF to
  <2>2. \A k \in 0..Last : ListAt(s)[k] = to(k)
    BY <2>1
  <2>3. ASSUME NEW n \in 0..(Last - 1) PROVE ListAt(s)[n + 1] = Beyond(s, ListAt(s)[n])
    <3>1. n + 1 \in 0..Last /\ n + 1 # 0 /\ (n + 1) - 1 = n
      BY LastIsNat
    <3> QED
      BY <3>1, <2>2 DEF to
  <2> QED
    BY <2>3
<1>9. ListAt(s)[0] = s.head
  BY <1>7, LastIsNat
<1>10. \A n \in 0..Last : ListAt(s)[n] \in Pages \cup {None}
  <2> DEFINE A == {n \in Nat : n <= Last => ListAt(s)[n] \in Pages \cup {None}}
  <2>1. 0 \in A
    BY <1>9, <1>1
  <2>2. ASSUME NEW n \in Nat, n \in A PROVE n + 1 \in A
    BY <2>2, <1>8, <1>1, LastIsNat
  <2>3. Nat \subseteq A
    <3> HIDE DEF A
    <3> QED
      BY <2>1, <2>2, NatSteps
  <2> QED
    BY <2>3, LastIsNat
<1>11. DOMAIN ListAt(s) = 0..Last /\ ListAt(s) = [n \in 0..Last |-> ListAt(s)[n]]
  BY <1>7
<1> QED
  BY <1>8, <1>9, <1>10, <1>11

(* The lists are of the heads and nexts only.                               *)
LEMMA SameList ==
  ASSUME NEW s, NEW t, s.head = t.head, s.next = t.next
  PROVE  ListAt(s) = ListAt(t)
BY DEF ListAt

LEMMA InList ==
  ASSUME NEW s \in VMHeads, NEW v \in Pages
  PROVE  v \in Listed(s) <=> \E n \in 0..Last : ListAt(s)[n] = v
<1>1. DOMAIN ListAt(s) = 0..Last
  BY Lists
<1> QED
  BY <1>1, NativeAssumption DEF Listed

AllListed(s) == WalkEnds(s) => \A v \in Pages : s.pa[v] # None => v \in Listed(s)

(* A page pushed on a list that ends leaves on it all that was there, unless *)
(* it was there itself: then the new list is a ring.                         *)
LEMMA PushedList ==
  ASSUME NEW s \in VMHeads, NEW v \in Pages, NEW b \in Backings, NEW now \in BOOLEAN,
         WalkEnds(s), AllListed(s)
  PROVE  Pushed(s, v, b, now) \in VMHeads /\ AllListed(Pushed(s, v, b, now))
<1> DEFINE t == Pushed(s, v, b, now)
           L == ListAt(s)
           M == ListAt(t)
<1>1. /\ t \in VMHeads /\ t.head = v /\ t.next = [s.next EXCEPT ![v] = s.head]
      /\ t.pa = [s.pa EXCEPT ![v] = b]
  BY DEF Pushed, VMHeads
<1> HIDE DEF t
<1>2. /\ L \in [0..Last -> Pages \cup {None}] /\ L[0] = s.head
      /\ \A n \in 0..(Last - 1) : L[n + 1] = Beyond(s, L[n])
  BY Lists
<1>3. /\ M \in [0..Last -> Pages \cup {None}] /\ M[0] = v
      /\ \A n \in 0..(Last - 1) : M[n + 1] = Beyond(t, M[n])
  BY Lists, <1>1
<1>4. L[Last] = None
  BY DEF WalkEnds, Last
<1>5. /\ Beyond(t, v) = s.head /\ Beyond(t, None) = None /\ Beyond(s, None) = None
      /\ \A u \in Pages : u # v => Beyond(t, u) = Beyond(s, u)
      /\ None \notin Pages
  BY <1>1, NativeAssumption DEF Beyond, VMHeads
<1> SUFFICES ASSUME M[Last] = None PROVE \A u \in Pages : t.pa[u] # None => u \in Listed(t)
  BY <1>1 DEF AllListed, WalkEnds, t, Last
<1> HIDE DEF L, M
<1>6. \A n \in 0..Last : L[n] # v
  <2> SUFFICES ASSUME \E n \in 0..Last : L[n] = v PROVE FALSE
    OBVIOUS
  <2> DEFINE V == {n \in 0..Last : L[n] = v}
  <2>1. PICK j \in V : \A i \in V : j <= i
    <3>1. V \subseteq Nat /\ V # {}
      BY LastIsNat
    <3> HIDE DEF V
    <3> QED
      BY <3>1, LeastNat
  <2>2. j \in Nat /\ j < Last /\ L[j] = v
    BY <2>1, <1>4, <1>5, LastIsNat
  <2>3. \A i \in 0..j : L[i] # None
    <3> SUFFICES ASSUME NEW i \in 0..j, L[i] = None PROVE FALSE
      OBVIOUS
    <3> DEFINE A == {n \in Nat : i + n <= j => L[i + n] = None}
    <3>1. 0 \in A
      OBVIOUS
    <3>2. ASSUME NEW n \in Nat, n \in A PROVE n + 1 \in A
      <4> SUFFICES ASSUME i + (n + 1) <= j PROVE L[i + (n + 1)] = None
        OBVIOUS
      <4>1. i + n \in 0..(Last - 1) /\ (i + n) + 1 = i + (n + 1) /\ L[i + n] = None
        BY <2>2, <3>2, LastIsNat
      <4> QED
        BY <4>1, <1>2, <1>5
    <3>3. j - i \in A
      <4> HIDE DEF A
      <4> QED
        BY <3>1, <3>2, NatSteps, <2>2
    <3> QED
      BY <3>3, <2>2, <1>5
  <2> DEFINE R == {n \in Nat : n <= Last => \E i \in 0..j : M[n] = L[i]}
  <2>4. 0 \in R
    BY <2>2, <1>3
  <2>5. ASSUME NEW n \in Nat, n \in R PROVE n + 1 \in R
    <3> SUFFICES ASSUME n + 1 <= Last PROVE \E i \in 0..j : M[n + 1] = L[i]
      OBVIOUS
    <3>1. PICK i \in 0..j : M[n] = L[i]
      BY <2>5, LastIsNat
    <3>2. n \in 0..(Last - 1) /\ M[n + 1] = Beyond(t, L[i])
      BY <3>1, <1>3, LastIsNat
    <3>3. CASE i = j
      BY <3>2, <3>3, <2>2, <1>2, <1>5
    <3>4. CASE i # j
      <4>1. i \in 0..(Last - 1) /\ i + 1 \in 0..j /\ L[i] \in Pages
        BY <3>4, <2>2, <2>3, <1>2, LastIsNat
      <4>2. L[i] # v
        BY <2>1, <2>2, <3>4, <4>1, LastIsNat
      <4>3. M[n + 1] = L[i + 1]
        BY <3>2, <4>1, <4>2, <1>2, <1>5
      <4> QED
        BY <4>1, <4>3
    <3> QED
      BY <3>3, <3>4
  <2>6. Last \in R
    <3> HIDE DEF R
    <3> QED
      BY <2>4, <2>5, NatSteps, LastIsNat
  <2> QED
    BY <2>3, <2>6, LastIsNat
<1>7. \A n \in 0..(Last - 1) : M[n + 1] = L[n]
  <2> DEFINE S == {n \in Nat : n <= Last - 1 => M[n + 1] = L[n]}
  <2>1. 0 \in S
    <3>1. ASSUME 0 <= Last - 1 PROVE M[1] = L[0]
      <4>1. 0 \in 0..(Last - 1) /\ 0 + 1 = 1
        BY <3>1, LastIsNat
      <4>2. M[1] = Beyond(t, M[0])
        BY <4>1, <1>3
      <4> QED
        BY <4>2, <1>2, <1>3, <1>5
    <3> QED
      BY <3>1
  <2>2. ASSUME NEW n \in Nat, n \in S PROVE n + 1 \in S
    <3> SUFFICES ASSUME n + 1 <= Last - 1 PROVE M[(n + 1) + 1] = L[n + 1]
      OBVIOUS
    <3>1. n \in 0..(Last - 1) /\ n + 1 \in 0..(Last - 1) /\ M[n + 1] = L[n]
      BY <2>2, LastIsNat
    <3>2. L[n] \in Pages \cup {None} /\ L[n] # v
      BY <3>1, <1>2, <1>6, LastIsNat
    <3> QED
      BY <3>1, <3>2, <1>2, <1>3, <1>5
  <2>3. Nat \subseteq S
    <3> HIDE DEF S
    <3> QED
      BY <2>1, <2>2, NatSteps
  <2> QED
    BY <2>3, LastIsNat
<1>8. ASSUME NEW u \in Pages, t.pa[u] # None PROVE u \in Listed(t)
  <2>1. CASE u = v
    BY <2>1, <1>1, <1>3, InList, LastIsNat DEF M
  <2>2. CASE u # v
    <3>1. s.pa[u] # None
      BY <2>2, <1>8, <1>1 DEF VMHeads
    <3>2. PICK n \in 0..Last : L[n] = u
      BY <3>1, InList DEF AllListed, L
    <3>3. n \in 0..(Last - 1) /\ n + 1 \in 0..Last
      BY <3>2, <1>4, <1>5, LastIsNat
    <3>4. M[n + 1] = u
      BY <3>2, <3>3, <1>7
    <3> QED
      BY <3>3, <3>4, <1>1, InList DEF M
  <2> QED
    BY <2>1, <2>2
<1> QED
  BY <1>8

(* The list of the space that is current, and the mappings the host holds.   *)
Mappings(a) == IF a = None THEN [v \in Pages |-> None] ELSE spaces[a].pa
Held(a) == a \in Spaces \cup {None} /\ (a # None => spaces[a] # None)
SpaceInv ==
  /\ spaces \in [Spaces -> VMHeads \cup {None}]
  /\ \A a \in Spaces : spaces[a] # None => AllListed(spaces[a])
  /\ Held(thiscpu.vm_head)
  /\ thiscpu.vm_head # None =>
       \A v \in Pages : spaces[thiscpu.vm_head].pa[v] # None => spaces[thiscpu.vm_head].is_mapped[v]
  /\ host = Mappings(thiscpu.vm_head)
  /\ \A t \in Threads : stacks[t] # None => \A i \in 1..Len(stacks[t]) : Held(stacks[t][i].vm_head)

LEMMA SpacesStart == NativeInit => SpaceInv
<1> SUFFICES ASSUME NativeInit PROVE SpaceInv
  OBVIOUS
<1>1. stacks[Boot] = <<>> /\ \A t \in Threads : t # Boot => stacks[t] = None
  BY ThreadsAssumption DEF NativeInit, Threads
<1>2. \A t \in Threads : stacks[t] # None => \A i \in 1..Len(stacks[t]) : Held(stacks[t][i].vm_head)
  BY <1>1
<1> QED
  BY <1>2 DEF NativeInit, SpaceInv, Held, Mappings

(* A step that leaves spaces and mappings alone and saves only contexts of  *)
(* spaces there are.                                                        *)
LEMMA SameSpaces ==
  ASSUME SpaceInv, UNCHANGED <<spaces, host>>, thiscpu'.vm_head = thiscpu.vm_head,
         \A t \in Threads : stacks'[t] # None =>
           stacks'[t] = stacks[t] \/ \A i \in 1..Len(stacks'[t]) : Held(stacks'[t][i].vm_head)
  PROVE  SpaceInv'
<1>1. \A a : Held(a)' <=> Held(a)
  BY DEF Held
<1>2. \A t \in Threads : stacks'[t] # None => \A i \in 1..Len(stacks'[t]) : Held(stacks'[t][i].vm_head)
  BY DEF SpaceInv
<1>3. Mappings(thiscpu.vm_head)' = Mappings(thiscpu.vm_head)
  BY DEF Mappings
<1> QED
  BY <1>1, <1>2, <1>3 DEF SpaceInv

LEMMA TrapSpaces ==
  ASSUME CteInv, SpaceInv, NEW ev \in Events, Trap(ev) PROVE SpaceInv'
<1> DEFINE user == in_userspace(run.pc)
           stk  == IF user THEN thiscpu.ksp ELSE run.stk
           c    == Context_native(run, None, None, ev)
<1>1. /\ stacks' = [stacks EXCEPT ![stk] = IF user THEN <<c>> ELSE Append(@, c)]
      /\ UNCHANGED <<spaces, host>> /\ thiscpu'.vm_head = thiscpu.vm_head
  BY DEF Trap, setup_stack, CteInv, CteTypes
<1>2. c.vm_head = None /\ c \in Contexts
  BY DEF Context_native, Contexts, CteInv, CteTypes
<1>0. CteTypes /\ (~user => stk = run.stk /\ stacks[stk] # None)
  BY ThreadsAssumption DEF in_userspace, CteInv, InUser, OwnStack, OnStack
<1> HIDE DEF c, stk, user
<1>3. ASSUME NEW t \in Threads, stacks'[t] # None, stacks'[t] # stacks[t], NEW i \in 1..Len(stacks'[t])
      PROVE  Held(stacks'[t][i].vm_head)
  <2>1. t = stk /\ stacks'[t] = IF user THEN <<c>> ELSE Append(stacks[t], c)
    BY <1>0, <1>1, <1>3 DEF CteTypes
  <2>2. CASE user
    BY <2>1, <2>2, <1>2, <1>3 DEF Held
  <2>3. CASE ~user
    <3>1. stacks[t] \in Seq(Contexts) /\ Len(stacks[t]) \in Nat
      BY <2>1, <2>3, <1>0 DEF CteTypes
    <3>2. i = Len(stacks[t]) + 1 \/ (i \in 1..Len(stacks[t]) /\ stacks'[t][i] = stacks[t][i])
      BY <3>1, <2>1, <2>3, <1>2, <1>3, Longer
    <3>3. i = Len(stacks[t]) + 1 => stacks'[t][i] = c
      BY <3>1, <2>1, <2>3, <1>2, Longer
    <3> QED
      BY <3>2, <3>3, <2>1, <2>3, <1>0, <1>2 DEF SpaceInv, Held
  <2> QED
    BY <2>2, <2>3
<1> QED
  BY <1>1, <1>3, SameSpaces

LEMMA EnterSpaces == ASSUME CteInv, SpaceInv, Enter PROVE SpaceInv'
<1> DEFINE t == run.stk
           n == Len(stacks[t])
           c == [stacks[t][n] EXCEPT !.vm_head = thiscpu.vm_head, !.ksp = thiscpu.ksp, !.why = None]
<1>1. t \in Threads /\ stacks[t] \in Seq(Contexts) /\ stacks[t] # None /\ stacks[t] # <<>>
  BY DEF Enter, CteInv, CteTypes, OnStack, AtEntry
<1>2. n \in Nat /\ n >= 1 /\ stacks[t][n] \in Contexts
  BY <1>1, Shorter
<1>3. c.vm_head = thiscpu.vm_head
  BY <1>2 DEF Contexts
<1>4. /\ stacks' = [stacks EXCEPT ![t] = [stacks[t] EXCEPT ![n] = c]]
      /\ UNCHANGED <<spaces, host, thiscpu>>
  BY DEF Enter
<1> HIDE DEF c, n
<1>5. ASSUME NEW u \in Threads, stacks'[u] # None, stacks'[u] # stacks[u], NEW i \in 1..Len(stacks'[u])
      PROVE  Held(stacks'[u][i].vm_head)
  <2>1. u = t /\ stacks'[u] = [stacks[t] EXCEPT ![n] = c]
    BY <1>4, <1>5 DEF CteInv, CteTypes
  <2>2. i \in 1..Len(stacks[t]) /\ stacks'[u][i] = IF i = n THEN c ELSE stacks[t][i]
    BY <2>1, <1>1, <1>2, <1>5
  <2> QED
    BY <2>2, <1>1, <1>3 DEF SpaceInv
<1> QED
  BY <1>4, <1>5, SameSpaces

LEMMA IretSpaces == ASSUME CteInv, SpaceInv, iret PROVE SpaceInv'
<1> DEFINE t == run.th
           new == SubSeq(stacks[t], 1, Len(stacks[t]) - 1)
<1>1. t \in Threads /\ stacks[t] \in Seq(Contexts) /\ stacks[t] # None /\ stacks[t] # <<>>
  BY DEF iret, CteInv, CteTypes, GoingBack, Running
<1>2. /\ Len(stacks[t]) \in Nat /\ Len(new) = Len(stacks[t]) - 1
      /\ \A i \in 1..(Len(stacks[t]) - 1) : new[i] = stacks[t][i]
  BY <1>1, Shorter
<1>3. /\ stacks' = [stacks EXCEPT ![t] = new] /\ UNCHANGED <<spaces, host>>
      /\ thiscpu'.vm_head = thiscpu.vm_head
  BY DEF iret, RestoreKsp, CteInv, CteTypes
<1> HIDE DEF new
<1>4. ASSUME NEW u \in Threads, stacks'[u] # None, stacks'[u] # stacks[u], NEW i \in 1..Len(stacks'[u])
      PROVE  Held(stacks'[u][i].vm_head)
  <2>1. u = t /\ stacks'[u] = new
    BY <1>3, <1>4 DEF CteInv, CteTypes
  <2>2. i \in 1..Len(stacks[t]) /\ stacks'[u][i] = stacks[t][i]
    BY <2>1, <1>2, <1>4
  <2> QED
    BY <2>1, <2>2, <1>1 DEF SpaceInv
<1> QED
  BY <1>3, <1>4, SameSpaces

LEMMA CreateSpaces ==
  ASSUME CteInv, SpaceInv, NEW t \in Threads, CreateKernel_native(t) \/ CreateUser_native(t)
  PROVE  SpaceInv'
<1>1. PICK c : /\ Create_native(t, c)
               /\ Held(c.vm_head)
  <2>1. CASE CreateKernel_native(t)
    BY <2>1 DEF CreateKernel_native, kcontext_native, Context_native, Held
  <2>2. CASE CreateUser_native(t)
    BY <2>2, ThreadsAssumption DEF CreateUser_native, ucontext_native, Context_native, Held
  <2> QED
    BY <2>1, <2>2
<1>2. stacks' = [stacks EXCEPT ![t] = <<c>>] /\ UNCHANGED <<spaces, host, thiscpu>>
  BY <1>1 DEF Create_native
<1>3. \A u \in Threads : stacks'[u] = IF u = t THEN <<c>> ELSE stacks[u]
  BY <1>2 DEF CteInv, CteTypes
<1> QED
  BY <1>1, <1>2, <1>3, SameSpaces

(* protect() makes a space that is not current, with nothing in it.          *)
LEMMA ProtectSpaces == ASSUME SpaceInv, NEW a \in Spaces, protect_native(a) PROVE SpaceInv'
<1>1. /\ spaces[a] = None /\ spaces' = [spaces EXCEPT ![a] = EmptySpace]
      /\ UNCHANGED <<thiscpu, stacks, host>>
  BY DEF protect_native
<1>2. EmptySpace \in VMHeads /\ EmptySpace # None /\ AllListed(EmptySpace)
  <2>1. EmptySpace \in VMHeads
    BY DEF EmptySpace, VMHeads
  <2>2. \A v \in Pages : EmptySpace.pa[v] = None
    BY DEF EmptySpace
  <2> QED
    BY <2>1, <2>2, NativeAssumption DEF AllListed
<1>3. \A b \in Spaces : spaces[b] # None => spaces'[b] = spaces[b]
  BY <1>1 DEF SpaceInv
<1>4. \A b : Held(b) => Held(b)'
  BY <1>1, <1>2, <1>3 DEF Held, SpaceInv
<1>5. Mappings(thiscpu.vm_head)' = Mappings(thiscpu.vm_head)
  BY <1>1, <1>3 DEF Mappings, SpaceInv, Held
<1> QED
  BY <1>1, <1>2, <1>3, <1>4, <1>5 DEF SpaceInv, Held

(* map() changes the mappings of the host where the space is current.        *)
LEMMA MapSpaces ==
  ASSUME SpaceInv, NEW a \in Spaces, NEW v \in Pages, NEW b \in Backings, MapPage(a, v, b)
  PROVE  SpaceInv'
<1> DEFINE now == a = thiscpu.vm_head
           s == Pushed(spaces[a], v, b, now)
<1>1. /\ spaces[a] # None /\ WalkEnds(spaces[a]) /\ spaces' = [spaces EXCEPT ![a] = s]
      /\ host' = IF now THEN [host EXCEPT ![v] = b] ELSE host
      /\ UNCHANGED <<thiscpu, stacks>>
  BY DEF MapPage, map_native
<1>2. spaces[a] \in VMHeads /\ AllListed(spaces[a])
  BY <1>1 DEF SpaceInv
<1>3. s \in VMHeads /\ AllListed(s) /\ s # None
  BY <1>1, <1>2, PushedList, NativeAssumption
<1>4. s.pa = [spaces[a].pa EXCEPT ![v] = b] /\ s.is_mapped = [spaces[a].is_mapped EXCEPT ![v] = now]
  BY DEF Pushed
<1> HIDE DEF s
<1>5. spaces' \in [Spaces -> VMHeads \cup {None}] /\ \A c \in Spaces : spaces'[c] = IF c = a THEN s ELSE spaces[c]
  BY <1>1, <1>3 DEF SpaceInv
<1>6. \A c : Held(c) => Held(c)'
  BY <1>3, <1>5 DEF Held
<1>7. host' = Mappings(thiscpu.vm_head)'
  BY <1>1, <1>2, <1>4, <1>5, ThreadsAssumption DEF Mappings, SpaceInv, Held
<1>8. thiscpu.vm_head # None =>
        \A u \in Pages : spaces'[thiscpu.vm_head].pa[u] # None => spaces'[thiscpu.vm_head].is_mapped[u]
  <2>1. CASE now
    <3>1. now = TRUE
      BY <2>1
    <3> HIDE DEF now
    <3>2. \A u \in Pages : s.is_mapped[u] = (u = v \/ spaces[a].is_mapped[u])
                           /\ (u # v => s.pa[u] = spaces[a].pa[u])
      BY <3>1, <1>2, <1>4 DEF VMHeads
    <3> QED
      BY <2>1, <3>2, <1>5 DEF SpaceInv, now
  <2>2. CASE ~now
    BY <2>2, <1>5 DEF SpaceInv, Held
  <2> QED
    BY <2>1, <2>2
<1> QED
  BY <1>1, <1>3, <1>5, <1>6, <1>7, <1>8 DEF SpaceInv

(* __am_switch takes away all that the old space had mapped and maps all the *)
(* new one holds, since both lists end and have every page that is entered.  *)
LEMMA SwitchSpaces ==
  ASSUME SpaceInv, NEW to, Held(to), vme_enable, SwitchEnds(thiscpu.vm_head, to), am_switch(to),
         UNCHANGED stacks, CteTypes
  PROVE  SpaceInv'
<1> DEFINE now == thiscpu.vm_head
<1>1. thiscpu' = [thiscpu EXCEPT !.vm_head = to] /\ thiscpu'.vm_head = to /\ Held(now)
  BY DEF am_switch, CteTypes, SpaceInv
<1>2. CASE now = to
  BY <1>1, <1>2, SameSpaces DEF am_switch
<1>3. CASE now # to
  <2>1. /\ host' = HostAfter(now, to)
        /\ spaces' = [a \in Spaces |-> IF a = now THEN Unmapped(spaces[a])
                                       ELSE IF a = to THEN Mapped(spaces[a]) ELSE spaces[a]]
    BY <1>3 DEF am_switch
  <2>2. ASSUME NEW s \in VMHeads, NEW t \in {s, Unmapped(s), Mapped(s)}
        PROVE  /\ t \in VMHeads /\ t # None /\ t.pa = s.pa /\ (AllListed(s) => AllListed(t))
    <3>0. PICK f \in [Pages -> BOOLEAN] : t = [s EXCEPT !.is_mapped = f]
      <4> DEFINE off == [v \in Pages |-> s.is_mapped[v] /\ v \notin Listed(s)]
                 on  == [v \in Pages |-> s.is_mapped[v] \/ v \in Listed(s)]
      <4>1. off \in [Pages -> BOOLEAN] /\ on \in [Pages -> BOOLEAN] /\ s.is_mapped \in [Pages -> BOOLEAN]
        BY DEF VMHeads
      <4>2. Unmapped(s) = [s EXCEPT !.is_mapped = off] /\ Mapped(s) = [s EXCEPT !.is_mapped = on]
        BY DEF Unmapped, Mapped
      <4>3. s = [s EXCEPT !.is_mapped = s.is_mapped]
        BY DEF VMHeads
      <4> HIDE DEF off, on
      <4> QED
        BY <2>2, <4>1, <4>2, <4>3
    <3>1. t \in VMHeads /\ t.head = s.head /\ t.next = s.next /\ t.pa = s.pa
      BY <3>0 DEF VMHeads
    <3>2. ListAt(t) = ListAt(s)
      BY <3>1, SameList
    <3> QED
      BY <3>1, <3>2, NativeAssumption DEF AllListed, WalkEnds, Listed
  <2>3. \A a \in Spaces : spaces'[a] = IF a = now THEN Unmapped(spaces[a])
                                       ELSE IF a = to THEN Mapped(spaces[a]) ELSE spaces[a]
    BY <2>1
  <2>4. ASSUME NEW a \in Spaces, spaces[a] # None
        PROVE  spaces'[a] \in VMHeads /\ spaces'[a] # None /\ spaces'[a].pa = spaces[a].pa /\ AllListed(spaces'[a])
    BY <2>2, <2>3, <2>4 DEF SpaceInv
  <2>5. ASSUME NEW a \in Spaces, spaces[a] = None PROVE spaces'[a] = None
    BY <2>3, <2>5, <1>1, ThreadsAssumption DEF Held
  <2>6. \A a : Held(a) => Held(a)'
    BY <2>4 DEF Held
  <2>7. ASSUME NEW a \in Spaces, a \in {now, to}, NEW v \in Pages, spaces[a].pa[v] # None
        PROVE  v \in Listed(spaces[a])
    BY <2>7, <1>1, <1>3, ThreadsAssumption DEF SwitchEnds, Held, SpaceInv, AllListed
  <2>8. to # None => \A v \in Pages : spaces'[to].pa[v] # None => spaces'[to].is_mapped[v]
    <3> SUFFICES ASSUME to # None, NEW v \in Pages, spaces'[to].pa[v] # None PROVE spaces'[to].is_mapped[v]
      OBVIOUS
    <3>1. to \in Spaces /\ spaces[to] \in VMHeads /\ spaces'[to] = Mapped(spaces[to])
      BY <2>3, <1>3 DEF Held, SpaceInv
    <3>2. v \in Listed(spaces[to])
      BY <3>1, <2>4, <2>7 DEF Held
    <3> DEFINE on == [u \in Pages |-> spaces[to].is_mapped[u] \/ u \in Listed(spaces[to])]
    <3>3. Mapped(spaces[to]).is_mapped = on
      BY <3>1 DEF Mapped, VMHeads
    <3>4. on[v]
      BY <3>2
    <3> QED
      BY <3>1, <3>3, <3>4
  <2>9. host' = Mappings(to)'
    <3>1. Mappings(to)' = Mappings(to)
      BY <2>4 DEF Mappings, Held
    <3>2. host = Mappings(now) /\ Mappings(now) \in [Pages -> Backings \cup {None}]
          /\ Mappings(to) \in [Pages -> Backings \cup {None}]
      BY <1>1 DEF SpaceInv, Mappings, Held, VMHeads
    <3>3. ASSUME NEW v \in Pages PROVE HostAfter(now, to)[v] = Mappings(to)[v]
      <4>1. CASE to # None /\ v \in Listed(spaces[to])
        BY <4>1 DEF HostAfter, Mappings
      <4>2. CASE ~(to # None /\ v \in Listed(spaces[to]))
        <5>1. Mappings(to)[v] = None
          BY <4>2, <2>7 DEF Mappings, Held
        <5>2. CASE now # None /\ v \in Listed(spaces[now]) /\ spaces[now].is_mapped[v]
          BY <4>2, <5>1, <5>2 DEF HostAfter
        <5>3. CASE ~(now # None /\ v \in Listed(spaces[now]) /\ spaces[now].is_mapped[v])
          <6>1. HostAfter(now, to)[v] = Mappings(now)[v]
            BY <4>2, <5>3, <3>2 DEF HostAfter
          <6>2. Mappings(now)[v] = None
            BY <5>3, <2>7, <1>1 DEF Mappings, Held, SpaceInv
          <6> QED
            BY <5>1, <6>1, <6>2
        <5> QED
          BY <5>2, <5>3
      <4> QED
        BY <4>1, <4>2
    <3>4. HostAfter(now, to) \in [Pages -> {HostAfter(now, to)[v] : v \in Pages}]
      BY DEF HostAfter
    <3> QED
      BY <2>1, <3>1, <3>2, <3>3, <3>4
  <2> QED
    BY <2>1, <2>4, <2>5, <2>6, <2>8, <2>9, <1>1 DEF SpaceInv
<1> QED
  BY <1>2, <1>3

LEMMA LeaveSpaces == ASSUME CteInv, SpaceInv, NEW t \in Threads, Leave(t) PROVE SpaceInv'
<1>1. stacks[t] \in Seq(Contexts) /\ stacks[t] \notin {None, <<>>} /\ UNCHANGED <<stacks, vme_enable>>
  BY DEF Leave, CteInv, CteTypes
<1>2. Held(Top(t).vm_head)
  <2>1. Len(stacks[t]) \in 1..Len(stacks[t])
    BY <1>1, Shorter
  <2> QED
    BY <2>1, <1>1 DEF SpaceInv, Top
<1>3. CASE UNCHANGED <<thiscpu, spaces, host>>
  BY <1>1, <1>3, SameSpaces
<1>4. CASE vme_enable /\ SwitchEnds(thiscpu.vm_head, Top(t).vm_head) /\ am_switch(Top(t).vm_head)
  BY <1>1, <1>2, <1>4, SwitchSpaces DEF CteInv
<1> QED
  BY <1>3, <1>4 DEF Leave, am_switch

LEMMA SpacesKept == CteInv /\ SpaceInv /\ [NativeNext]_nativeVars => SpaceInv'
<1> SUFFICES ASSUME CteInv, SpaceInv, [NativeNext]_nativeVars PROVE SpaceInv'
  OBVIOUS
<1>1. ASSUME NEW e \in Irqs, Interrupt(e) PROVE SpaceInv'
  <2>1. Event(e) \in Events
    BY DEF Event, Events
  <2> QED
    BY <1>1, <2>1, TrapSpaces DEF Interrupt
<1>2. CASE yield_native
  BY <1>2, TrapSpaces DEF yield_native, Event, Events
<1>3. CASE Syscall
  BY <1>3, TrapSpaces DEF Syscall, Event, Events
<1>4. ASSUME NEW v \in Pages, NEW write \in BOOLEAN, Access(v, write) PROVE SpaceInv'
  <2>1. PageFault("read") \in Events /\ PageFault("write") \in Events
    BY DEF PageFault, Events
  <2> QED
    BY <1>4, <2>1, TrapSpaces DEF Access
<1>5. CASE UNCHANGED <<thiscpu, stacks, spaces, host>>
  BY <1>5, SameSpaces
<1>6. ASSUME NEW e \in Irqs, Missed(e) PROVE SpaceInv'
  BY <1>6, SameSpaces DEF Missed, CteInv, CteTypes
<1>7. ASSUME NEW w \in NativeWanted, MapPage(w[1], w[2], w[3]) PROVE SpaceInv'
  BY <1>7, MapSpaces, NativeAssumption
<1>8. vme_init_native \/ LibraryCall \/ (\E enable \in BOOLEAN : iset_native(enable)) \/ UNCHANGED nativeVars
        => UNCHANGED <<thiscpu, stacks, spaces, host>>
  BY DEF vme_init_native, LibraryCall, iset_native, nativeVars
<1> QED
  BY <1>1, <1>2, <1>3, <1>4, <1>5, <1>6, <1>7, <1>8,
     EnterSpaces, IretSpaces, LeaveSpaces, CreateSpaces, ProtectSpaces DEF NativeNext

(* Whatever the kernel maps, in whatever order, and whenever it switches,    *)
(* user code finds in USER_SPACE the mappings of its own space and no other, *)
(* and traps to its own kernel stack (__am_switch and map, vme.c:54-121).    *)
THEOREM UserInOwnSpaceHolds == NativeSpec => []UserInOwnSpace
<1>1. CteInv /\ SpaceInv => UserInOwnSpace
  BY ThreadsAssumption DEF CteInv, CteTypes, Running, InUser, SpaceInv, Mappings, UserInOwnSpace, OwnStack
<1> QED
  BY <1>1, CteStarts, CteKept, SpacesStart, SpacesKept, PTL DEF NativeSpec

-----------------------------------------------------------------------------
(* The sound of the native port.                                             *)
Players == [at : {"idle", "size", "read", "load", "store"}, nread : Nat, b : Nat, stream : Seq(Nat), saw : Int]
Writers == [at : {"idle", "write", "load", "store"}, buf : Seq(Nat), n : Nat, nwrite : {0}, saw : Int]
SoundTypes == /\ pipe \in Seq(Nat) /\ count \in Int /\ player \in Players /\ writer \in Writers
              /\ asked \in Nat /\ heard \in Seq(Nat)

\* Bytes out of the pipe and still in count, and bytes in the pipe and not yet in it.
Taken == IF player.at \in {"load", "store"} THEN player.nread ELSE 0
Added == IF writer.at \in {"load", "store"} THEN writer.n ELSE 0
Promised == IF player.at = "read" THEN player.nread ELSE 0
CountRight == /\ count = Len(pipe) + Taken - Added
              /\ Len(pipe) >= Added + Promised
              /\ player.at = "store" => player.saw = count
              /\ writer.at = "store" => writer.saw = count
\* What was heard, what audio_play has taken and what the pipe holds follow on one another.
InOrder == /\ \A i \in 1..Len(heard) : heard[i] = i
           /\ Taken > 0 => \A i \in 1..Taken : player.stream[i] = Len(heard) + i
           /\ \A i \in 1..Len(pipe) : pipe[i] = Len(heard) + Taken + i
PlayerRight == /\ Len(player.stream) = player.nread /\ player.nread <= StreamLen
               /\ player.at = "read" => player.b = 0 /\ player.nread > 0
\* The writer's buffer is next, or all of it is in the pipe.
WriterRight ==
  LET L == Len(writer.buf)
      reached == Len(heard) + Taken + Len(pipe)
  IN  /\ L <= PipeBuf /\ (writer.at # "idle" => L > 0)
      /\ \A i \in 1..L : writer.buf[i] = asked - L + i
      /\ writer.at = "idle" => reached = asked
      /\ writer.at = "write" => reached = asked - L
      /\ writer.at \in {"load", "store"} => \/ writer.n = 0 /\ reached = asked - L
                                            \/ writer.n = L /\ reached = asked
SoundInv == mixed \in BOOLEAN /\ (~mixed => SoundTypes /\ CountRight /\ InOrder /\ PlayerRight /\ WriterRight)

(* What cutting, beginning and joining sequences of bytes gives.            *)
LEMMA Rest ==
  ASSUME NEW s \in Seq(Nat), NEW k \in Nat, k <= Len(s)
  PROVE  /\ SubSeq(s, k + 1, Len(s)) \in Seq(Nat) /\ Len(SubSeq(s, k + 1, Len(s))) = Len(s) - k
         /\ \A i \in 1..(Len(s) - k) : SubSeq(s, k + 1, Len(s))[i] = s[i + k]
OBVIOUS

LEMMA Start ==
  ASSUME NEW s \in Seq(Nat), NEW k \in Nat, k <= Len(s)
  PROVE  /\ SubSeq(s, 1, k) \in Seq(Nat) /\ Len(SubSeq(s, 1, k)) = k
         /\ \A i \in 1..k : SubSeq(s, 1, k)[i] = s[i]
OBVIOUS

LEMMA Join ==
  ASSUME NEW s \in Seq(Nat), NEW u \in Seq(Nat)
  PROVE  /\ s \o u \in Seq(Nat) /\ Len(s \o u) = Len(s) + Len(u)
         /\ \A i \in 1..Len(s) : (s \o u)[i] = s[i]
         /\ \A i \in 1..Len(u) : (s \o u)[Len(s) + i] = u[i]
OBVIOUS

(* Numbered bytes: n of them after base, and another m after those.         *)
LEMMA Numbered ==
  ASSUME NEW s \in Seq(Nat), NEW u \in Seq(Nat), NEW base \in Nat,
         \A i \in 1..Len(s) : s[i] = base + i, \A i \in 1..Len(u) : u[i] = base + Len(s) + i
  PROVE  \A i \in 1..Len(s \o u) : (s \o u)[i] = base + i
<1> SUFFICES ASSUME NEW i \in 1..(Len(s) + Len(u)) PROVE (s \o u)[i] = base + i
  BY Join
<1>1. CASE i <= Len(s)
  BY <1>1, Join
<1>2. CASE ~(i <= Len(s))
  <2>1. i - Len(s) \in 1..Len(u) /\ i = Len(s) + (i - Len(s))
    BY <1>2
  <2> QED
    BY <2>1, Join
<1> QED
  BY <1>1, <1>2

LEMMA SoundStarts == SoundInit => SoundInv
<1> SUFFICES ASSUME SoundInit PROVE SoundInv
  OBVIOUS
<1>1. SoundTypes
  BY SoundAssumption DEF SoundInit, SoundTypes, Players, Writers, Silence, Resting
<1>2. CountRight
  BY SoundAssumption DEF SoundInit, CountRight, Taken, Added, Promised, Silence, Resting
<1>3. InOrder /\ PlayerRight
  BY SoundAssumption DEF SoundInit, InOrder, Taken, PlayerRight, Silence, Resting
<1>4. WriterRight
  BY SoundAssumption DEF SoundInit, WriterRight, Taken, Silence, Resting
<1> QED
  BY <1>1, <1>2, <1>3, <1>4 DEF SoundInv, SoundInit

(* SoundInv with its parts, where no update was lost.                       *)
LEMMA SoundParts ==
  ASSUME SoundInv, ~mixed
  PROVE  /\ pipe \in Seq(Nat) /\ heard \in Seq(Nat) /\ count \in Int /\ asked \in Nat
         /\ player \in Players /\ writer \in Writers
         /\ player.at \in {"idle", "size", "read", "load", "store"} /\ player.nread \in Nat
         /\ player.stream \in Seq(Nat) /\ Len(player.stream) = player.nread /\ player.nread <= StreamLen
         /\ writer.at \in {"idle", "write", "load", "store"} /\ writer.buf \in Seq(Nat)
         /\ writer.n \in Nat /\ writer.nwrite = 0
         /\ Taken \in Nat /\ Added \in Nat /\ Promised \in Nat
         /\ Len(pipe) \in Nat /\ Len(heard) \in Nat /\ Len(writer.buf) \in Nat
<1>1. SoundTypes /\ PlayerRight
  BY DEF SoundInv
<1>2. /\ player.at \in {"idle", "size", "read", "load", "store"} /\ player.nread \in Nat
      /\ player.stream \in Seq(Nat)
      /\ writer.at \in {"idle", "write", "load", "store"} /\ writer.buf \in Seq(Nat)
      /\ writer.n \in Nat /\ writer.nwrite = 0
  BY <1>1 DEF SoundTypes, Players, Writers
<1>3. Taken \in Nat /\ Added \in Nat /\ Promised \in Nat
  BY <1>2 DEF Taken, Added, Promised
<1> QED
  BY <1>1, <1>2, <1>3 DEF SoundTypes, PlayerRight

(* Each of the steps of audio_play keeps SoundInv.                          *)
LEMMA SettledKept ==
  ASSUME SoundInv, ~mixed, NEW k \in Nat, k <= count, k <= StreamLen, player.at \in {"idle", "size"},
         Settled(k), UNCHANGED <<pipe, count, writer, asked, heard, mixed>>
  PROVE  SoundInv'
<1>0. CountRight /\ InOrder /\ WriterRight
  BY DEF SoundInv
<1>1. player' = [Silence EXCEPT !.at = IF k > 0 THEN "read" ELSE "load", !.nread = k,
                                !.stream = [i \in 1..k |-> 0]]
  BY DEF Settled
<1>2. Taken = 0 /\ Promised = 0
  BY DEF Taken, Promised
<1>3. /\ count = Len(pipe) + Taken - Added /\ Len(pipe) >= Added + Promised
      /\ (writer.at = "store" => writer.saw = count)
  BY <1>0 DEF CountRight
<1>5. [i \in 1..k |-> 0] \in Seq(Nat) /\ Len([i \in 1..k |-> 0]) = k
  OBVIOUS
<1>6. /\ player'.at = (IF k > 0 THEN "read" ELSE "load") /\ player'.nread = k /\ player'.b = 0
      /\ player'.stream = [i \in 1..k |-> 0] /\ player'.saw = 0 /\ player' \in Players
  <2> DEFINE s == [i \in 1..k |-> 0]
             to == IF k > 0 THEN "read" ELSE "load"
  <2>1. player' = [at |-> to, nread |-> k, b |-> 0, stream |-> s, saw |-> 0]
    BY <1>1 DEF Silence
  <2>2. s \in Seq(Nat) /\ to \in {"read", "load"}
    BY <1>5
  <2> HIDE DEF s, to
  <2>3. player' \in Players /\ player'.at = to /\ player'.stream = s /\ player'.nread = k /\ player'.b = 0 /\ player'.saw = 0
    BY <2>1, <2>2 DEF Players
  <2> QED
    BY <2>3 DEF s, to
<1>7. Taken' = 0 /\ Added' = Added /\ Promised' = k
  BY <1>6 DEF Taken, Added, Promised
<1>8. SoundTypes'
  BY <1>6, SoundParts DEF SoundTypes
<1>9. CountRight'
  BY <1>2, <1>3, <1>6, <1>7, SoundParts DEF CountRight
<1>10. InOrder'
  BY <1>0, <1>2, <1>7 DEF InOrder
<1>11. PlayerRight'
  BY <1>5, <1>6 DEF PlayerRight
<1>12. WriterRight'
  BY <1>0, <1>2, <1>7 DEF WriterRight
<1> QED
  BY <1>8, <1>9, <1>10, <1>11, <1>12 DEF SoundInv

LEMMA PlayStarts == SoundInv /\ ~mixed /\ audio_play => SoundInv'
<1> SUFFICES ASSUME SoundInv, ~mixed, audio_play PROVE SoundInv'
  OBVIOUS
<1>0. CountRight /\ InOrder /\ WriterRight
  BY DEF SoundInv
<1>1. player.at = "idle" /\ UNCHANGED <<pipe, count, writer, asked, heard, mixed>>
  BY DEF audio_play
<1>2. CASE count >= StreamLen /\ Settled(StreamLen)
  <2>1. StreamLen \in Nat /\ StreamLen <= count /\ StreamLen <= StreamLen
    BY <1>2, SoundParts, SoundAssumption
  <2> QED
    BY <1>1, <1>2, <2>1, SettledKept
<1>3. CASE player' = [Silence EXCEPT !.at = "size"]
  <2>1. player' = [at |-> "size", nread |-> 0, b |-> 0, stream |-> <<>>, saw |-> 0]
    BY <1>3 DEF Silence
  <2>2. player' \in Players /\ player'.at = "size" /\ player'.nread = 0 /\ Len(player'.stream) = 0
    BY <2>1 DEF Players
  <2>3. Taken = 0 /\ Promised = 0 /\ Taken' = 0 /\ Promised' = 0 /\ Added' = Added
    BY <1>1, <2>2 DEF Taken, Promised, Added
  <2>4. SoundTypes' /\ PlayerRight'
    BY <1>1, <2>2, SoundParts, SoundAssumption DEF SoundTypes, PlayerRight
  <2>5. CountRight' /\ InOrder' /\ WriterRight'
    BY <1>0, <1>1, <2>2, <2>3 DEF CountRight, InOrder, WriterRight
  <2> QED
    BY <1>1, <2>4, <2>5 DEF SoundInv
<1> QED
  BY <1>2, <1>3 DEF audio_play

LEMMA SizeKept == SoundInv /\ ~mixed /\ ~mixed' /\ PlaySize => SoundInv'
<1> SUFFICES ASSUME SoundInv, ~mixed, ~mixed', PlaySize PROVE SoundInv'
  OBVIOUS
<1>1. /\ player.at = "size" /\ Settled(count) /\ ~(count > StreamLen)
      /\ UNCHANGED <<pipe, count, writer, asked, heard>>
  BY DEF PlaySize
<1>2. mixed' = mixed
  BY <1>1 DEF PlaySize, SoundInv
<1>3. count = Len(pipe) + Taken - Added /\ Len(pipe) >= Added + Promised /\ Taken = 0
  BY <1>1 DEF SoundInv, CountRight, Taken
<1>4. count \in Nat /\ count <= StreamLen
  BY <1>1, <1>3, SoundParts, SoundAssumption
<1> QED
  BY <1>1, <1>2, <1>4, SettledKept

LEMMA ReadKept == SoundInv /\ ~mixed /\ PlayRead => SoundInv'
<1> SUFFICES ASSUME SoundInv, ~mixed, PlayRead PROVE SoundInv'
  OBVIOUS
<1>0. CountRight /\ InOrder /\ PlayerRight /\ WriterRight
  BY DEF SoundInv
<1> DEFINE k == player.nread
<1>1. /\ player.at = "read" /\ k \in Nat /\ k > 0 /\ player.b = 0 /\ Len(player.stream) = k
  BY <1>0, SoundParts DEF PlayRead, PlayerRight
<1>2. Taken = 0 /\ Promised = k
  BY <1>1 DEF Taken, Promised
<1>3. /\ count = Len(pipe) + Taken - Added /\ Len(pipe) >= Added + Promised
      /\ (writer.at = "store" => writer.saw = count)
  BY <1>0 DEF CountRight
<1>4. Smaller(player.nread, Len(pipe)) = k
  <2>1. Len(pipe) \in Nat /\ Added \in Nat
    BY SoundParts
  <2>2. k <= Len(pipe)
    <3> HIDE DEF k
    <3> QED
      BY <1>1, <1>2, <1>3, <2>1
  <2> QED
    BY <1>1, <2>1, <2>2 DEF Smaller
<1>5. /\ pipe' = SubSeq(pipe, k + 1, Len(pipe)) /\ player.b + k = k
      /\ player' = [player EXCEPT !.b = k, !.at = "load",
                      !.stream = [i \in DOMAIN player.stream |-> IF i <= k THEN pipe[i] ELSE player.stream[i]]]
      /\ UNCHANGED <<count, writer, asked, heard, mixed>>
  <2>1. player.b + k = k /\ ~(k < k)
    BY <1>1
  <2> QED
    BY <1>4, <2>1 DEF PlayRead
<1>6. k <= Len(pipe)
  BY <1>2, <1>3, SoundParts
<1> DEFINE read == [i \in DOMAIN player.stream |-> IF i <= k THEN pipe[i] ELSE player.stream[i]]
<1> HIDE DEF k
<1>7. /\ pipe' \in Seq(Nat) /\ Len(pipe') = Len(pipe) - k
      /\ \A i \in 1..Len(pipe') : pipe'[i] = pipe[i + k]
  <2>1. /\ SubSeq(pipe, k + 1, Len(pipe)) \in Seq(Nat)
        /\ Len(SubSeq(pipe, k + 1, Len(pipe))) = Len(pipe) - k
        /\ \A i \in 1..(Len(pipe) - k) : SubSeq(pipe, k + 1, Len(pipe))[i] = pipe[i + k]
    <3>1. pipe \in Seq(Nat) /\ k \in Nat /\ k <= Len(pipe)
      BY <1>1, <1>6, SoundParts
    <3> QED
      BY <3>1, Rest
  <2> QED
    BY <1>5, <2>1
<1>8. DOMAIN player.stream = 1..k
  BY <1>1, SoundParts
<1>9. /\ read \in Seq(Nat) /\ Len(read) = k /\ \A i \in 1..k : read[i] = pipe[i]
  <2>1. \A i \in 1..k : i \in 1..Len(pipe) /\ pipe[i] \in Nat
    <3>1. pipe \in Seq(Nat) /\ Len(pipe) \in Nat /\ k \in Nat
      BY <1>1, SoundParts
    <3> QED
      BY <1>6, <3>1
  <2>2. read = [i \in 1..k |-> pipe[i]]
    BY <1>8
  <2> HIDE DEF read
  <2> QED
    BY <1>1, <2>1, <2>2
<1> HIDE DEF read
<1>10. /\ player'.at = "load" /\ player'.nread = k /\ player'.stream = read /\ player' \in Players
  BY <1>1, <1>5, <1>9, SoundParts DEF Players, k, read
<1>11. Taken' = k /\ Added' = Added /\ Promised' = 0
  BY <1>5, <1>10 DEF Taken, Added, Promised
<1>12. SoundTypes'
  BY <1>5, <1>7, <1>10, SoundParts DEF SoundTypes
<1>13. CountRight'
  <2>1. count' = Len(pipe') + Taken' - Added' /\ Len(pipe') >= Added' + Promised'
    <3>1. Len(pipe') = Len(pipe) - k /\ count' = count /\ k \in Nat /\ Added \in Nat /\ Len(pipe) \in Nat
      BY <1>1, <1>5, <1>7, SoundParts
    <3> QED
      BY <1>2, <1>3, <1>11, <3>1
  <2> QED
    BY <1>3, <1>5, <1>10, <2>1 DEF CountRight
<1>14. InOrder'
  <2>1. \A i \in 1..Len(heard') : heard'[i] = i
    BY <1>0, <1>5 DEF InOrder
  <2>2. \A i \in 1..Len(pipe) : pipe[i] = Len(heard) + i
    BY <1>0, <1>2, SoundParts DEF InOrder
  <2>3. \A i \in 1..k : player'.stream[i] = Len(heard') + i
    <3>1. \A i \in 1..k : i \in 1..Len(pipe)
      BY <1>1, <1>6, SoundParts
    <3> QED
      BY <1>5, <1>9, <1>10, <2>2, <3>1
  <2>4. \A i \in 1..Len(pipe') : pipe'[i] = Len(heard') + k + i
    <3>1. \A i \in 1..Len(pipe') : i + k \in 1..Len(pipe) /\ Len(heard) + (i + k) = Len(heard) + k + i
      <4>1. Len(pipe') = Len(pipe) - k /\ k \in Nat /\ Len(pipe) \in Nat /\ Len(heard) \in Nat
        BY <1>1, <1>7, SoundParts
      <4> QED
        BY <4>1
    <3> QED
      BY <1>5, <1>7, <2>2, <3>1
  <2> QED
    BY <1>11, <2>1, <2>3, <2>4 DEF InOrder
<1>15. PlayerRight'
  <2>1. k <= StreamLen
    BY SoundParts DEF k
  <2> QED
    BY <1>9, <1>10, <2>1 DEF PlayerRight
<1>16. WriterRight'
  <2>1. (Len(heard) + Taken + Len(pipe))' = Len(heard) + Taken + Len(pipe)
    BY <1>1, <1>2, <1>5, <1>7, <1>11, SoundParts
  <2> QED
    BY <1>0, <1>5, <2>1 DEF WriterRight
<1> QED
  BY <1>5, <1>12, <1>13, <1>14, <1>15, <1>16 DEF SoundInv

LEMMA LoadKept == SoundInv /\ ~mixed /\ PlayLoad => SoundInv'
<1> SUFFICES ASSUME SoundInv, ~mixed, PlayLoad PROVE SoundInv'
  OBVIOUS
<1>0. SoundTypes /\ CountRight /\ InOrder /\ PlayerRight /\ WriterRight
  BY DEF SoundInv
<1>1. /\ player.at = "load" /\ player' = [player EXCEPT !.saw = count, !.at = "store"]
      /\ UNCHANGED <<pipe, count, writer, asked, heard, mixed>>
  BY DEF PlayLoad
<1>2. /\ player'.at = "store" /\ player'.saw = count /\ player'.nread = player.nread
      /\ player'.stream = player.stream /\ player' \in Players
  BY <1>1, SoundParts DEF Players
<1>3. Taken' = Taken /\ Added' = Added /\ Promised' = Promised
  BY <1>1, <1>2 DEF Taken, Added, Promised
<1>4. SoundTypes' /\ CountRight'
  BY <1>0, <1>1, <1>2, <1>3 DEF SoundTypes, CountRight
<1>5. InOrder' /\ PlayerRight'
  BY <1>0, <1>1, <1>2, <1>3 DEF InOrder, PlayerRight
<1>6. WriterRight'
  BY <1>0, <1>1, <1>3 DEF WriterRight
<1> QED
  BY <1>1, <1>4, <1>5, <1>6 DEF SoundInv

LEMMA StoreKept == SoundInv /\ ~mixed /\ ~mixed' /\ PlayStore => SoundInv'
<1> SUFFICES ASSUME SoundInv, ~mixed, ~mixed', PlayStore PROVE SoundInv'
  OBVIOUS
<1>0. CountRight /\ InOrder /\ PlayerRight /\ WriterRight
  BY DEF SoundInv
<1> DEFINE k == player.nread
<1>1. /\ player.at = "store" /\ writer.at # "store" /\ k \in Nat /\ Len(player.stream) = k
      /\ player.saw = count
      /\ count' = count - k /\ heard' = heard \o player.stream /\ player' = Silence
      /\ UNCHANGED <<pipe, writer, asked>> /\ mixed' \in BOOLEAN
  <2>1. SubSeq(player.stream, 1, Smaller(Len(player.stream), StreamLen)) = player.stream
    <3>1. Len(player.stream) <= StreamLen /\ Len(player.stream) \in Nat /\ player.stream \in Seq(Nat)
      BY SoundParts
    <3>2. Smaller(Len(player.stream), StreamLen) = Len(player.stream)
      BY <3>1, SoundAssumption DEF Smaller
    <3> QED
      BY <3>1, <3>2
  <2>2. player.at = "store" /\ mixed' = (mixed \/ writer.at = "store")
    BY DEF PlayStore
  <2>3. player.saw = count /\ k \in Nat /\ Len(player.stream) = k
    BY <1>0, <2>2, SoundParts DEF CountRight
  <2> QED
    BY <2>1, <2>2, <2>3 DEF PlayStore
<1> HIDE DEF k
<1>2. heard' \in Seq(Nat) /\ Len(heard') = Len(heard) + k
  BY <1>1, SoundParts, Join
<1>3. /\ player' \in Players /\ player'.at = "idle" /\ player'.nread = 0 /\ player'.stream = <<>>
  BY <1>1 DEF Silence, Players
<1>4. Taken = k /\ Taken' = 0 /\ Added' = Added /\ Promised' = 0 /\ Promised = 0
  BY <1>1, <1>3 DEF Taken, Added, Promised, k
<1>5. SoundTypes'
  BY <1>1, <1>2, <1>3, SoundParts DEF SoundTypes
<1>6. CountRight'
  <2>1. count = Len(pipe) + Taken - Added /\ Len(pipe) >= Added + Promised
    BY <1>0 DEF CountRight
  <2> QED
    BY <1>1, <1>3, <1>4, <2>1, SoundParts DEF CountRight
<1>7. InOrder'
  <2>1. \A i \in 1..k : player.stream[i] = Len(heard) + i
    BY <1>0, <1>1, <1>4 DEF InOrder
  <2>2. \A i \in 1..Len(heard') : heard'[i] = i
    <3>1. /\ \A i \in 1..Len(heard) : heard[i] = 0 + i
          /\ \A i \in 1..Len(player.stream) : player.stream[i] = 0 + Len(heard) + i
      BY <1>0, <1>1, <2>1, SoundParts DEF InOrder
    <3>2. \A i \in 1..Len(heard') : heard'[i] = 0 + i
      <4>1. \A i \in 1..Len(heard \o player.stream) : (heard \o player.stream)[i] = 0 + i
        <5>1. heard \in Seq(Nat) /\ player.stream \in Seq(Nat) /\ 0 \in Nat
          BY SoundParts
        <5> QED
          BY <3>1, <5>1, Numbered
      <4> QED
        BY <1>1, <4>1
    <3> QED
      BY <3>2, <1>2, SoundParts
  <2>3. \A i \in 1..Len(pipe') : pipe'[i] = Len(heard') + 0 + i
    BY <1>0, <1>1, <1>2, <1>4, SoundParts DEF InOrder
  <2> QED
    BY <1>4, <2>2, <2>3 DEF InOrder
<1>8. PlayerRight'
  BY <1>3, SoundAssumption DEF PlayerRight
<1>9. WriterRight'
  <2>1. (Len(heard) + Taken + Len(pipe))' = Len(heard) + Taken + Len(pipe)
    BY <1>1, <1>2, <1>4, SoundParts
  <2> QED
    BY <1>0, <1>1, <2>1 DEF WriterRight
<1> QED
  BY <1>1, <1>5, <1>6, <1>7, <1>8, <1>9 DEF SoundInv

(* Each of the steps of audio_write keeps SoundInv.                         *)
LEMMA WriteStarts ==
  ASSUME SoundInv, ~mixed, ~mixed', NEW len \in 1..MaxAsked, audio_write(len)
  PROVE  SoundInv'
<1>0. CountRight /\ InOrder /\ PlayerRight /\ WriterRight
  BY DEF SoundInv
<1> DEFINE whole == [i \in 1..len |-> asked + i]
<1>1. /\ writer.at = "idle" /\ asked' = asked + len /\ len \in Nat /\ len > 0
      /\ writer' = [Resting EXCEPT !.at = "write", !.buf = whole]
      /\ UNCHANGED <<pipe, count, player, heard>>
  <2>1. len \in Nat /\ len > 0
    BY SoundAssumption
  <2> QED
    BY <2>1 DEF audio_write
<1>2. len <= PipeBuf /\ mixed' = FALSE
  <2>1. mixed' = (mixed \/ len > PipeBuf)
    BY DEF audio_write
  <2> QED
    <3>1. ~(len > PipeBuf) /\ mixed' = FALSE
      BY <2>1
    <3> QED
      BY <1>1, <3>1, SoundAssumption
<1>3. whole \in Seq(Nat) /\ Len(whole) = len /\ \A i \in 1..len : whole[i] = asked + i
  <2>1. \A i \in 1..len : asked + i \in Nat
    BY <1>1, SoundParts
  <2> QED
    BY <1>1, <2>1
<1> HIDE DEF whole
<1>4. writer' \in Writers /\ writer'.at = "write" /\ writer'.buf = whole
  <2>1. writer' = [at |-> "write", buf |-> whole, n |-> 0, nwrite |-> 0, saw |-> 0]
    BY <1>1 DEF Resting
  <2> QED
    BY <1>3, <2>1 DEF Writers
<1>5. Taken' = Taken /\ Added' = 0 /\ Added = 0 /\ Promised' = Promised
  BY <1>1, <1>4 DEF Taken, Added, Promised
<1>6. SoundTypes'
  BY <1>1, <1>4, SoundParts DEF SoundTypes
<1>7. CountRight' /\ InOrder' /\ PlayerRight'
  BY <1>0, <1>1, <1>4, <1>5 DEF CountRight, InOrder, PlayerRight
<1>8. WriterRight'
  <2>1. Len(heard) + Taken + Len(pipe) = asked
    BY <1>0, <1>1 DEF WriterRight
  <2>2. Len(heard') + Taken' + Len(pipe') = asked' - Len(writer'.buf) /\ asked' = asked + len
    BY <1>1, <1>3, <1>4, <1>5, <2>1, SoundParts
  <2>3. \A i \in 1..Len(writer'.buf) : writer'.buf[i] = asked' - Len(writer'.buf) + i
    <3>1. \A i \in 1..len : asked + i = (asked + len) - len + i
      BY <1>1, SoundParts
    <3> QED
      BY <1>3, <1>4, <2>2, <3>1
  <2>4. Len(writer'.buf) <= PipeBuf /\ Len(writer'.buf) > 0
    BY <1>1, <1>2, <1>3, <1>4
  <2> QED
    BY <1>4, <2>2, <2>3, <2>4 DEF WriterRight
<1> QED
  BY <1>2, <1>6, <1>7, <1>8 DEF SoundInv

LEMMA PipeKept == SoundInv /\ ~mixed /\ PipeWrite => SoundInv'
<1> SUFFICES ASSUME SoundInv, ~mixed, PipeWrite PROVE SoundInv'
  OBVIOUS
<1>0. CountRight /\ InOrder /\ PlayerRight /\ WriterRight
  BY DEF SoundInv
<1> DEFINE L == Len(writer.buf)
           m == IF L <= PipeBuf /\ L > PipeSize - Len(pipe) THEN 0 ELSE Smaller(L, PipeSize - Len(pipe))
<1>1. /\ writer.at = "write" /\ L \in Nat /\ L > 0 /\ L <= PipeBuf
      /\ pipe' = pipe \o SubSeq(writer.buf, 1, m)
      /\ writer' = [writer EXCEPT !.n = m, !.at = "load"]
      /\ UNCHANGED <<count, player, asked, heard, mixed>>
  BY <1>0, SoundParts DEF PipeWrite, WriterRight
<1>2. m \in {0, L}
  <2>1. Len(pipe) \in Nat /\ PipeSize \in Nat
    BY SoundParts, SoundAssumption
  <2> HIDE DEF L
  <2> QED
    BY <1>1, <2>1 DEF Smaller
<1> HIDE DEF m
<1>3. SubSeq(writer.buf, 1, m) \in Seq(Nat) /\ Len(SubSeq(writer.buf, 1, m)) = m
      /\ \A i \in 1..m : SubSeq(writer.buf, 1, m)[i] = writer.buf[i]
  <2>1. writer.buf \in Seq(Nat) /\ m \in Nat /\ m <= Len(writer.buf)
    BY <1>1, <1>2, SoundParts
  <2> QED
    BY <2>1, Start
<1> HIDE DEF L
<1>4. pipe' \in Seq(Nat) /\ Len(pipe') = Len(pipe) + m /\ m \in Nat
  BY <1>1, <1>2, <1>3, SoundParts, Join
<1>5. /\ writer' \in Writers /\ writer'.at = "load" /\ writer'.buf = writer.buf /\ writer'.n = m
  BY <1>1, <1>4, SoundParts DEF Writers
<1>6. Taken' = Taken /\ Added' = m /\ Added = 0 /\ Promised' = Promised
  BY <1>1, <1>5 DEF Taken, Added, Promised
<1>7. SoundTypes'
  BY <1>1, <1>4, <1>5, SoundParts DEF SoundTypes
<1>8. CountRight'
  <2>1. /\ count = Len(pipe) + Taken - Added /\ Len(pipe) >= Added + Promised
        /\ player.at = "store" => player.saw = count
    BY <1>0 DEF CountRight
  <2> QED
    BY <1>1, <1>2, <1>4, <1>5, <1>6, <2>1, SoundParts DEF CountRight
<1>9. /\ Len(heard) + Taken + Len(pipe) = asked - L
      /\ \A i \in 1..L : writer.buf[i] = asked - L + i
  BY <1>0, <1>1 DEF WriterRight, L
<1>10. InOrder'
  <2>1. \A i \in 1..Len(pipe) : pipe[i] = Len(heard) + Taken + i
    BY <1>0 DEF InOrder
  <2>2. \A i \in 1..Len(pipe') : pipe'[i] = Len(heard) + Taken + i
    <3>1. \A i \in 1..m : SubSeq(writer.buf, 1, m)[i] = (Len(heard) + Taken) + Len(pipe) + i
      <4>1. CASE m = 0
        BY <4>1
      <4>2. CASE m = L
        BY <1>1, <1>3, <1>9, <4>2, SoundParts
      <4> QED
        BY <1>2, <4>1, <4>2
    <3> DEFINE base == Len(heard) + Taken
               u == SubSeq(writer.buf, 1, m)
    <3>2. base \in Nat /\ pipe \in Seq(Nat) /\ u \in Seq(Nat) /\ pipe' = pipe \o u
      <4>1. Len(heard) \in Nat /\ Taken \in Nat /\ pipe \in Seq(Nat)
        BY SoundParts
      <4> QED
        BY <1>1, <1>3, <4>1
    <3>3. /\ \A i \in 1..Len(pipe) : pipe[i] = base + i
          /\ \A i \in 1..Len(u) : u[i] = base + Len(pipe) + i
      BY <1>3, <2>1, <3>1
    <3> HIDE DEF base, u
    <3>4. \A i \in 1..Len(pipe') : pipe'[i] = base + i
      BY <3>2, <3>3, Numbered
    <3> QED
      BY <3>4 DEF base
  <2> QED
    BY <1>0, <1>1, <1>6, <2>2 DEF InOrder
<1>11. PlayerRight'
  BY <1>0, <1>1 DEF PlayerRight
<1>12. WriterRight'
  <2>1. (Len(heard) + Taken + Len(pipe))' = (Len(heard) + Taken + Len(pipe)) + m
    BY <1>1, <1>4, <1>6, SoundParts
  <2>2. \/ m = 0 /\ (Len(heard) + Taken + Len(pipe))' = asked - L
        \/ m = L /\ (Len(heard) + Taken + Len(pipe))' = asked
    <3>1. asked \in Nat /\ L \in Nat
      BY <1>1, SoundParts
    <3> QED
      BY <1>2, <1>9, <2>1, <3>1
  <2> QED
    BY <1>1, <1>5, <1>9, <2>2 DEF WriterRight, L
<1> QED
  BY <1>1, <1>7, <1>8, <1>10, <1>11, <1>12 DEF SoundInv

LEMMA WriteLoadKept == SoundInv /\ ~mixed /\ WriteLoad => SoundInv'
<1> SUFFICES ASSUME SoundInv, ~mixed, WriteLoad PROVE SoundInv'
  OBVIOUS
<1>0. SoundTypes /\ CountRight /\ InOrder /\ PlayerRight /\ WriterRight
  BY DEF SoundInv
<1>1. /\ writer.at = "load" /\ writer' = [writer EXCEPT !.saw = count, !.at = "store"]
      /\ UNCHANGED <<pipe, count, player, asked, heard, mixed>>
  BY DEF WriteLoad
<1>2. /\ writer'.at = "store" /\ writer'.saw = count /\ writer'.n = writer.n
      /\ writer'.buf = writer.buf /\ writer' \in Writers
  BY <1>1, SoundParts DEF Writers
<1>3. Taken' = Taken /\ Added' = Added /\ Promised' = Promised
  BY <1>1, <1>2 DEF Taken, Added, Promised
<1>4. SoundTypes' /\ CountRight'
  BY <1>0, <1>1, <1>2, <1>3 DEF SoundTypes, CountRight
<1>5. InOrder' /\ PlayerRight'
  BY <1>0, <1>1, <1>3 DEF InOrder, PlayerRight
<1>6. WriterRight'
  BY <1>0, <1>1, <1>2, <1>3 DEF WriterRight
<1> QED
  BY <1>1, <1>4, <1>5, <1>6 DEF SoundInv

LEMMA WriteStoreKept == SoundInv /\ ~mixed /\ ~mixed' /\ WriteStore => SoundInv'
<1> SUFFICES ASSUME SoundInv, ~mixed, ~mixed', WriteStore PROVE SoundInv'
  OBVIOUS
<1>0. CountRight /\ InOrder /\ PlayerRight /\ WriterRight
  BY DEF SoundInv
<1> DEFINE m == writer.n
           L == Len(writer.buf)
           reached == Len(heard) + Taken + Len(pipe)
<1>1. /\ writer.at = "store" /\ player.at # "store" /\ writer.saw = count /\ writer.nwrite = 0
      /\ count' = count + m /\ UNCHANGED <<pipe, player, asked, heard>> /\ mixed' = FALSE
      /\ writer' = IF m < L THEN [writer EXCEPT !.at = "write", !.nwrite = m] ELSE Resting
  <2>1. writer.at = "store" /\ mixed' = (mixed \/ player.at = "store")
    BY DEF WriteStore
  <2>2. player.at # "store" /\ mixed' = FALSE
    BY <2>1
  <2>3. writer.saw = count /\ writer.nwrite = 0 /\ 0 + m = m
    BY <1>0, <2>1, SoundParts DEF CountRight
  <2> QED
    BY <2>1, <2>2, <2>3 DEF WriteStore
<1>2. /\ L \in Nat /\ L > 0 /\ L <= PipeBuf /\ \A i \in 1..L : writer.buf[i] = asked - L + i
      /\ (m = 0 /\ reached = asked - L) \/ (m = L /\ reached = asked)
  BY <1>0, <1>1, SoundParts DEF WriterRight
<1>3. /\ writer'.at \in {"write", "idle"} /\ writer' \in Writers
      /\ m < L => m = 0 /\ writer'.at = "write" /\ writer'.buf = writer.buf
      /\ ~(m < L) => m = L /\ writer'.at = "idle" /\ writer'.buf = <<>>
  <2>1. Resting \in Writers /\ Resting.at = "idle" /\ Resting.buf = <<>>
    BY DEF Resting, Writers
  <2>2. CASE m < L
    <3>1. m = 0 /\ writer' = [writer EXCEPT !.at = "write", !.nwrite = 0]
      <4>1. m = 0
        BY <1>2, <2>2
      <4> QED
        BY <1>1, <2>2, <4>1
    <3> QED
      BY <2>2, <3>1, SoundParts DEF Writers
  <2>3. CASE ~(m < L)
    BY <1>1, <1>2, <2>1, <2>3
  <2> QED
    BY <2>2, <2>3
<1>4. Taken' = Taken /\ Added = m /\ Added' = 0 /\ Promised' = Promised
  BY <1>1, <1>3 DEF Taken, Added, Promised
<1>5. SoundTypes'
  BY <1>1, <1>3, SoundParts DEF SoundTypes
<1>6. CountRight'
  <2>1. count = Len(pipe) + Taken - Added /\ Len(pipe) >= Added + Promised
    BY <1>0 DEF CountRight
  <2>2. /\ Taken \in Nat /\ Added \in Nat /\ Promised \in Nat /\ Len(pipe) \in Nat /\ count \in Int
    BY SoundParts
  <2>3. count' = count + m /\ pipe' = pipe /\ player'.at # "store" /\ writer'.at # "store"
    BY <1>1, <1>3
  <2> HIDE DEF m
  <2>4. count' = Len(pipe') + Taken' - Added' /\ Len(pipe') >= Added' + Promised'
    BY <1>4, <2>1, <2>2, <2>3
  <2> QED
    BY <2>3, <2>4 DEF CountRight
<1>7. InOrder' /\ PlayerRight'
  BY <1>0, <1>1, <1>4 DEF InOrder, PlayerRight
<1>8. WriterRight'
  <2>1. reached' = reached
    BY <1>1, <1>4
  <2>2. CASE m < L
    BY <1>1, <1>2, <1>3, <2>1, <2>2 DEF WriterRight
  <2>3. CASE ~(m < L)
    <3>1. reached = asked /\ writer'.at = "idle" /\ writer'.buf = <<>> /\ asked' = asked
      BY <1>1, <1>2, <1>3, <2>3
    <3> QED
      BY <2>1, <3>1, SoundAssumption DEF WriterRight
  <2> QED
    BY <2>2, <2>3
<1> QED
  BY <1>1, <1>5, <1>6, <1>7, <1>8 DEF SoundInv

LEMMA SoundKept == SoundInv /\ [SoundNext]_soundVars => SoundInv'
<1> SUFFICES ASSUME SoundInv, [SoundNext]_soundVars PROVE SoundInv'
  OBVIOUS
<1>1. mixed' \in BOOLEAN /\ (mixed => mixed')
  BY DEF SoundInv, SoundNext, soundVars, audio_play, PlaySize, PlayRead, PlayLoad, PlayStore, audio_write, PipeWrite, WriteLoad, WriteStore
<1>2. CASE mixed'
  BY <1>1, <1>2 DEF SoundInv
<1>3. CASE ~mixed' /\ ~mixed
  <2>1. CASE UNCHANGED soundVars
    BY <2>1 DEF soundVars, SoundInv, SoundTypes, CountRight, Taken, Added, Promised, InOrder, PlayerRight, WriterRight
  <2> QED
    BY <1>3, <2>1, PlayStarts, SizeKept, ReadKept, LoadKept, StoreKept, WriteStarts, PipeKept, WriteLoadKept, WriteStoreKept
    DEF SoundNext
<1> QED
  BY <1>1, <1>2, <1>3

(* As long as no update of count is lost, count does not grow past len      *)
(* between the two reads of audio.c:20, and no buffer is longer than        *)
(* PIPE_BUF, sound is heard once, in order, and without a wait for bytes    *)
(* that are not there, for every size of pipe and buffers (audio.c:18-41).  *)
THEOREM SoundHolds == SoundSpec => []SoundRight
<1>1. SoundInv => SoundRight
  <2> SUFFICES ASSUME SoundInv, ~mixed PROVE SoundRight
    BY DEF SoundRight
  <2>1. \A i \in 1..Len(heard) : heard[i] = i
    BY DEF SoundInv, InOrder
  <2>2. count = Len(pipe) + Taken - Added /\ Len(pipe) >= Added + Promised
    BY DEF SoundInv, CountRight
  <2>3. player.at = "read" => Len(pipe) >= player.nread
    <3>1. player.at = "read" => Promised = player.nread
      BY DEF Promised
    <3> QED
      BY <2>2, <3>1, SoundParts
  <2>4. player.at = "idle" /\ writer.at \in {"idle", "write"} => count = Len(pipe)
    <3>1. player.at = "idle" /\ writer.at \in {"idle", "write"} => Taken = 0 /\ Added = 0
      BY DEF Taken, Added
    <3> QED
      BY <2>2, <3>1, SoundParts
  <2> QED
    BY <2>1, <2>3, <2>4 DEF SoundRight
<1> QED
  BY SoundStarts, SoundKept, <1>1, PTL DEF SoundSpec
=============================================================================
