------------------------------ MODULE QemuProofs ------------------------------
(***************************************************************************)
(* The x86-qemu port of the abstract machine: its page tables and contexts *)
(* (SpacesOwned), for any threads, spaces, frames, indices and depth of    *)
(* nesting, the start of its processors (StartsInOrder), for any number of *)
(* them, its clock and disk (ClockRight), for any dates and requests; the  *)
(* loader and the count of processors (BootRight), for any size of sector, *)
(* file and table; its display (GpuRight), for any screen, rectangles and  *)
(* trees of canvases; the console of the spike port (HtifRight), for any   *)
(* characters; and all devices of the ports together (DevicesRight).  The  *)
(* lemmas on stacks come from the native port's module.                    *)
(***************************************************************************)
EXTENDS NativeProofs, AbstractMachine

(* The page tables of the x86-qemu port, with the two levels of 32 bits.    *)
Mems == [Tables -> PageTables \cup {None}]
RootOf(m, a) == m[a][0].to
UserTops == Index \ KernelTop
Subs(m, a) == {m[RootOf(m, a)][i].to : i \in {j \in UserTops : m[RootOf(m, a)][j] # None}}
Own(m, a) == {RootOf(m, a)} \cup Subs(m, a)
KernelUp(m) ==
  /\ m[Kernel] # None /\ kpt(m) \in Frames /\ m[kpt(m)] # None
  /\ \A i \in KernelTop : /\ m[kpt(m)][i] # None /\ ~m[kpt(m)][i].u
                          /\ m[kpt(m)][i].to \in Frames /\ m[m[kpt(m)][i].to] # None
SpaceUp(m, a) ==
  /\ m[a] # None /\ m[a][0] # None /\ m[a][0].u /\ \A i \in Index \ {0} : m[a][i] = None
  /\ RootOf(m, a) \in Frames \ Subs(m, a) /\ m[RootOf(m, a)] # None
  /\ \A i \in KernelTop : m[RootOf(m, a)][i] = m[kpt(m)][i]
  /\ \A i \in UserTops : m[RootOf(m, a)][i] # None =>
       /\ m[RootOf(m, a)][i].u /\ m[RootOf(m, a)][i].to \in Frames /\ m[m[RootOf(m, a)][i].to] # None
Forest(m, spaces_) ==
  /\ m \in Mems /\ spaces_ \subseteq Spaces
  /\ KernelUp(m)
  /\ \A a \in spaces_ : SpaceUp(m, a) /\ Own(m, a) \cap KernelTables(m) = {}
  /\ \A a, b \in spaces_ : a # b => Own(m, a) \cap Own(m, b) = {}
  /\ Frames \ Free(m) = KernelTables(m) \cup UNION {Own(m, a) : a \in spaces_}

LEMMA Allocated ==
  ASSUME NEW m \in Mems, Free(m) # {}
  PROVE  /\ pgalloc(m) \in Frames /\ m[pgalloc(m)] = None /\ pgalloc(m) \in Tables
         /\ pgallocz(m) = [m EXCEPT ![pgalloc(m)] = Zeroed] /\ pgallocz(m) \in Mems
         /\ Zeroed \in PageTables /\ Zeroed # None /\ \A i \in Index : Zeroed[i] = None
<1>1. Free(m) \subseteq Nat
  BY QemuVmeAssumption DEF Free
<1>2. \E f \in Free(m) : \A g \in Free(m) : f <= g
  BY <1>1, LeastNat
<1>3. pgalloc(m) \in Free(m)
  BY <1>2 DEF pgalloc
<1>4. Zeroed \in PageTables /\ \A i \in Index : Zeroed[i] = None
  BY DEF Zeroed, PageTables
<1> QED
  BY <1>3, <1>4, QemuAssumption DEF Free, pgallocz, Mems, Tables

Down(w, x, u) ==
  IF w.mem[w.pt][x] # None THEN [mem |-> w.mem, pt |-> w.mem[w.pt][x].to]
  ELSE [mem |-> [pgallocz(w.mem) EXCEPT ![w.pt][x] = Entry(pgalloc(w.mem), u)], pt |-> pgalloc(w.mem)]

LEMMA WalkTwice ==
  Levels = 2 => \A m, a, va, u : ptwalk(m, a, va, u) = Down(Down([mem |-> m, pt |-> a], va[1], u), va[2], u)
<1> SUFFICES ASSUME Levels = 2, NEW m, NEW a, NEW va, NEW u
             PROVE  ptwalk(m, a, va, u) = Down(Down([mem |-> m, pt |-> a], va[1], u), va[2], u)
  OBVIOUS
<1> DEFINE w0 == [mem |-> m, pt |-> a]
           w1 == Down(w0, va[1], u)
           w2 == Down(w1, va[2], u)
           Walk(w) == [i \in 0..2 |-> IF i = 0 THEN w0 ELSE Down(w[i-1], va[i], u)]
           walk == CHOOSE w : w = Walk(w)
           f == [i \in 0..2 |-> IF i = 0 THEN w0 ELSE IF i = 1 THEN w1 ELSE w2]
<1>1. ptwalk(m, a, va, u) = walk[2]
  BY DEF ptwalk, Down
<1>2. f = Walk(f)
  <2> HIDE DEF w0
  <2>1. f[0] = w0 /\ f[1] = w1
    OBVIOUS
  <2>2. \A i \in 0..2 : f[i] = IF i = 0 THEN w0 ELSE Down(f[i-1], va[i], u)
    <3>1. \A i \in 0..2 : i = 0 \/ i = 1 \/ i = 2
      OBVIOUS
    <3> QED
      BY <2>1, <3>1
  <2> QED
    BY <2>2
<1> HIDE DEF Walk, f
<1>3. walk = Walk(walk)
  BY <1>2
<1> HIDE DEF walk
<1>4. \A i \in 0..2 : walk[i] = IF i = 0 THEN w0 ELSE Down(walk[i-1], va[i], u)
  BY <1>3 DEF Walk
<1>5. walk[0] = w0
  BY <1>4
<1>6. walk[1] = w1
  BY <1>4, <1>5
<1>7. walk[2] = w2
  BY <1>4, <1>6
<1> QED
  BY <1>1, <1>7

(* teardown unrolled: the root and the tables its user entries lead to.      *)
Reached(m, pt) == {m[pt][i].to : i \in {j \in Index : Descends(m[pt][j])}}
LEMMA TeardownUnrolled ==
  ASSUME Levels = 2, NEW m, NEW a \in Tables, m[a] # None, Reached(m, a) \subseteq Tables,
         \A pt \in Reached(m, a) : m[pt] # None /\ Reached(m, pt) \subseteq Tables
  PROVE  teardown(m, a) = UNION {{pt} \cup Reached(m, pt) : pt \in Reached(m, a)}
<1> DEFINE Into(g, pt) == IF m[pt] = None THEN {}
                          ELSE UNION {g[m[pt][i].to] : i \in {j \in Index : Descends(m[pt][j])}}
           Line(g, level, pt) == (IF level >= 1 THEN {pt} ELSE {}) \cup
                                 (IF level = 2 \/ m[pt] = None THEN {}
                                  ELSE UNION {g[level+1][m[pt][i].to] : i \in {j \in Index : Descends(m[pt][j])}})
           Torn(g, level) == [pt \in Tables |-> Line(g, level, pt)]
           Tear(g) == [level \in 0..2 |-> Torn(g, level)]
           F2 == [pt \in Tables |-> {pt}]
           F1 == [pt \in Tables |-> {pt} \cup Into(F2, pt)]
           F0 == [pt \in Tables |-> {} \cup Into(F1, pt)]
           freed == CHOOSE g : g = Tear(g)
           f == [level \in 0..2 |-> IF level = 0 THEN F0 ELSE IF level = 1 THEN F1 ELSE F2]
<1>1. teardown(m, a) = freed[0][a]
  BY DEF teardown
<1>0. ASSUME NEW g PROVE /\ Torn(g, 2) = [pt \in Tables |-> {pt}]
                         /\ Torn(g, 1) = [pt \in Tables |-> {pt} \cup Into(g[2], pt)]
                         /\ Torn(g, 0) = [pt \in Tables |-> {} \cup Into(g[1], pt)]
  <2>1. \A pt : Line(g, 2, pt) = {pt}
    OBVIOUS
  <2>2. \A pt : Line(g, 1, pt) = {pt} \cup Into(g[2], pt)
    <3>1. 1 + 1 = 2 /\ 1 # 2 /\ 1 >= 1
      OBVIOUS
    <3> QED
      BY <3>1
  <2>3. \A pt : Line(g, 0, pt) = {} \cup Into(g[1], pt)
    <3>1. 0 + 1 = 1 /\ 0 # 2 /\ ~(0 >= 1)
      OBVIOUS
    <3> QED
      BY <3>1
  <2> HIDE DEF Line, Into
  <2> QED
    BY <2>1, <2>2, <2>3
<1> HIDE DEF Torn, Into
<1>2. f = Tear(f)
  <2>1. f[0] = F0 /\ f[1] = F1 /\ f[2] = F2
    OBVIOUS
  <2> HIDE DEF f
  <2>2. F2 = Torn(f, 2) /\ F1 = Torn(f, 1) /\ F0 = Torn(f, 0)
    <3>1. F2 = Torn(f, 2)
      BY <1>0
    <3> HIDE DEF F2
    <3>2. F1 = Torn(f, 1)
      <4>1. F1 = [pt \in Tables |-> {pt} \cup Into(f[2], pt)]
        BY <2>1 DEF F1
      <4> QED
        BY <4>1, <1>0
    <3> HIDE DEF F1
    <3>3. F0 = Torn(f, 0)
      <4>1. F0 = [pt \in Tables |-> {} \cup Into(f[1], pt)]
        BY <2>1 DEF F0
      <4> QED
        BY <4>1, <1>0
    <3> QED
      BY <3>1, <3>2, <3>3
  <2> HIDE DEF F0, F1, F2
  <2>3. f = [level \in 0..2 |-> IF level = 0 THEN Torn(f, 0) ELSE IF level = 1 THEN Torn(f, 1) ELSE Torn(f, 2)]
    BY <2>2 DEF f
  <2>4. \A l \in 0..2 : (IF l = 0 THEN Torn(f, 0) ELSE IF l = 1 THEN Torn(f, 1) ELSE Torn(f, 2)) = Torn(f, l)
    <3>1. \A l \in 0..2 : l = 0 \/ l = 1 \/ l = 2
      OBVIOUS
    <3> QED
      BY <3>1
  <2> QED
    BY <2>3, <2>4
<1> HIDE DEF f
<1>3. freed = Tear(freed)
  <2> HIDE DEF Tear
  <2> QED
    BY <1>2
<1> HIDE DEF freed
<1>4. freed[2] = Torn(freed, 2) /\ freed[1] = Torn(freed, 1) /\ freed[0] = Torn(freed, 0)
  BY <1>3
<1>5. freed[1] = [pt \in Tables |-> {pt} \cup Into(freed[2], pt)] /\ freed[2] = [pt \in Tables |-> {pt}]
  BY <1>0, <1>4
<1>6. freed[0] = [pt \in Tables |-> {} \cup Into(freed[1], pt)]
  BY <1>0, <1>4
<1> HIDE DEF Tear
<1> USE DEF Into
<1>7. ASSUME NEW pt \in Reached(m, a) PROVE freed[1][pt] = {pt} \cup Reached(m, pt)
  <2>1. freed[1][pt] = {pt} \cup UNION {freed[2][m[pt][i].to] : i \in {j \in Index : Descends(m[pt][j])}}
    BY <1>5
  <2>2. \A i \in {j \in Index : Descends(m[pt][j])} : freed[2][m[pt][i].to] = {m[pt][i].to}
    BY <1>5 DEF Reached
  <2> QED
    BY <2>1, <2>2 DEF Reached
<1>8. freed[0][a] = UNION {freed[1][pt] : pt \in Reached(m, a)}
  BY <1>6 DEF Reached
<1> QED
  BY <1>1, <1>7, <1>8

LEMMA TearsOwn ==
  ASSUME Levels = 2, NEW m \in Mems, NEW a \in Spaces, KernelUp(m), SpaceUp(m, a)
  PROVE  teardown(m, a) = Own(m, a)
<1>1. Reached(m, a) = {RootOf(m, a)}
  BY QemuVmeAssumption DEF SpaceUp, Reached, Descends, RootOf
<1>2. Reached(m, RootOf(m, a)) = Subs(m, a)
  <2>1. \A i \in KernelTop : ~Descends(m[RootOf(m, a)][i])
    BY DEF KernelUp, SpaceUp, Descends
  <2>2. \A i \in UserTops : Descends(m[RootOf(m, a)][i]) <=> m[RootOf(m, a)][i] # None
    BY DEF SpaceUp, Descends
  <2> QED
    BY <2>1, <2>2, QemuVmeAssumption DEF Reached, Subs, UserTops
<1>3. RootOf(m, a) \in Tables /\ m[RootOf(m, a)] # None /\ Subs(m, a) \subseteq Tables /\ a \in Tables /\ m[a] # None
  BY DEF SpaceUp, Subs, Tables
<1>4. teardown(m, a) = UNION {{pt} \cup Reached(m, pt) : pt \in Reached(m, a)}
  BY <1>1, <1>2, <1>3, TeardownUnrolled
<1> QED
  BY <1>1, <1>2, <1>4 DEF Own

LEMMA KernelTablesAre ==
  ASSUME Levels = 2, NEW m, KernelUp(m)
  PROVE  KernelTables(m) = {kpt(m)} \cup {m[kpt(m)][i].to : i \in KernelTop}
BY DEF KernelTables, KernelUp

(* The kernel's tables and a space's stay what they are where memory is not  *)
(* changed above the last level.                                             *)
LEMMA SameKernel ==
  ASSUME Levels = 2, NEW m, NEW n, KernelUp(m), n[Kernel] = m[Kernel], n[kpt(m)] = m[kpt(m)],
         \A t \in KernelTables(m) : n[t] # None
  PROVE  KernelUp(n) /\ kpt(n) = kpt(m) /\ KernelTables(n) = KernelTables(m)
<1>1. kpt(n) = kpt(m)
  BY DEF kpt
<1>2. \A i \in KernelTop : n[m[kpt(m)][i].to] # None
  BY KernelTablesAre
<1>3. KernelUp(n)
  BY <1>1, <1>2 DEF KernelUp
<1>4. KernelTables(n) = {kpt(n)} \cup {n[kpt(n)][i].to : i \in KernelTop}
  BY <1>3, KernelTablesAre
<1>5. KernelTables(m) = {kpt(m)} \cup {m[kpt(m)][i].to : i \in KernelTop}
  BY KernelTablesAre
<1> QED
  BY <1>1, <1>3, <1>4, <1>5

LEMMA SameSpace ==
  ASSUME NEW m, NEW n, NEW a, SpaceUp(m, a), n[a] = m[a], n[RootOf(m, a)] = m[RootOf(m, a)],
         kpt(n) = kpt(m), n[kpt(m)] = m[kpt(m)], \A t \in Own(m, a) : n[t] # None
  PROVE  SpaceUp(n, a) /\ RootOf(n, a) = RootOf(m, a) /\ Own(n, a) = Own(m, a)
<1>1. RootOf(n, a) = RootOf(m, a)
  BY DEF RootOf
<1>2. Subs(n, a) = Subs(m, a)
  BY <1>1 DEF Subs
<1>3. \A i \in UserTops : m[RootOf(m, a)][i] # None => n[m[RootOf(m, a)][i].to] # None
  BY DEF Own, Subs
<1> QED
  BY <1>1, <1>2, <1>3 DEF SpaceUp, Own

LEMMA OwnFrames ==
  ASSUME NEW m, NEW L, Forest(m, L)
  PROVE  /\ \A a \in L : Own(m, a) \subseteq Frames /\ \A t \in Own(m, a) : m[t] # None
         /\ \A t \in KernelTables(m) : m[t] # None /\ t \in Frames
<1>1. \A a \in L : Own(m, a) \subseteq Frames
  BY DEF Forest, SpaceUp, Own, Subs
<1>2. \A t \in Frames \ Free(m) : m[t] # None
  BY DEF Free
<1> QED
  BY <1>1, <1>2 DEF Forest

(* Space a gets the frames in new.                                           *)
Grown(m, n, L, a, old, new) ==
  /\ Forest(m, L) /\ n \in Mems /\ a \in Spaces /\ old = (IF a \in L THEN Own(m, a) ELSE {}) /\ new \subseteq Free(m)
  /\ \A t \in Tables \ (old \cup new \cup {a}) : n[t] = m[t]
  /\ \A t \in old \cup new : n[t] # None
  /\ (kpt(n) = kpt(m) /\ n[kpt(m)] = m[kpt(m)]) => (SpaceUp(n, a) /\ Own(n, a) = old \cup new)
LEMMA GrowForest ==
  ASSUME Levels = 2, NEW m, NEW n, NEW L, NEW a, NEW old, NEW new, Grown(m, n, L, a, old, new)
  PROVE  Forest(n, L \cup {a}) /\ \A b \in L \ {a} : RootOf(n, b) = RootOf(m, b)
<1> USE DEF Grown
<1>1. /\ old \subseteq Frames /\ new \subseteq Frames /\ L \subseteq Spaces /\ KernelUp(m)
      /\ old \cap KernelTables(m) = {} /\ \A t \in new : m[t] = None
  <2>1. old \subseteq Frames
    BY DEF Forest, OwnFrames, SpaceUp, Own, Subs
  <2> QED
    BY <2>1 DEF Forest, Free
<1>2. \A b \in L \ {a} : Own(m, b) \cap old = {} /\ Own(m, b) \cap new = {}
  BY <1>1, OwnFrames DEF Forest
<1>3. n[Kernel] = m[Kernel] /\ \A t \in KernelTables(m) : n[t] = m[t]
  <2>1. Kernel \in Tables \ (old \cup new \cup {a})
    BY <1>1, QemuVmeAssumption DEF Tables
  <2>2. KernelTables(m) \subseteq Tables \ (old \cup new \cup {a})
    <3>1. \A t \in KernelTables(m) : m[t] # None /\ t \in Frames
      BY OwnFrames
    <3> QED
      BY <1>1, <3>1, QemuVmeAssumption DEF Tables
  <2> QED
    BY <2>1, <2>2
<1>4. kpt(m) \in KernelTables(m)
  BY DEF KernelTables
<1>5. KernelUp(n) /\ kpt(n) = kpt(m) /\ KernelTables(n) = KernelTables(m)
  BY <1>1, <1>3, <1>4, OwnFrames, SameKernel
<1>6. SpaceUp(n, a) /\ Own(n, a) = old \cup new
  BY <1>3, <1>4, <1>5
<1>7. ASSUME NEW b \in L \ {a}
      PROVE  SpaceUp(n, b) /\ RootOf(n, b) = RootOf(m, b) /\ Own(n, b) = Own(m, b)
  <2>1. SpaceUp(m, b) /\ Own(m, b) \subseteq Frames /\ b \in Spaces
    BY <1>1, OwnFrames DEF Forest
  <2>2. b \in Tables \ (old \cup new \cup {a})
    BY <1>1, <2>1, QemuVmeAssumption DEF Tables
  <2>3. Own(m, b) \subseteq Tables \ (old \cup new \cup {a})
    BY <1>1, <1>2, <2>1, QemuVmeAssumption DEF Tables
  <2>4. n[b] = m[b] /\ \A t \in Own(m, b) : n[t] = m[t]
    BY <2>2, <2>3
  <2>5. RootOf(m, b) \in Own(m, b)
    BY DEF Own
  <2>6. \A t \in Own(m, b) : m[t] # None
    BY OwnFrames
  <2> QED
    BY <2>1, <2>4, <2>5, <2>6, <1>3, <1>4, <1>5, SameSpace
<1>8. \A b \in L \cup {a} : SpaceUp(n, b) /\ Own(n, b) \cap KernelTables(n) = {}
  <2>1. new \cap KernelTables(m) = {}
    BY <1>1, OwnFrames
  <2> QED
    BY <1>1, <1>5, <1>6, <1>7, <2>1 DEF Forest
<1>9. \A b, c \in L \cup {a} : b # c => Own(n, b) \cap Own(n, c) = {}
  BY <1>2, <1>6, <1>7 DEF Forest
<1>10. Frames \ Free(n) = KernelTables(n) \cup UNION {Own(n, b) : b \in L \cup {a}}
  <2>1. UNION {Own(n, b) : b \in L \cup {a}} = new \cup UNION {Own(m, b) : b \in L}
    <3>1. UNION {Own(n, b) : b \in L \cup {a}} = Own(n, a) \cup UNION {Own(n, b) : b \in L \ {a}}
      OBVIOUS
    <3>2. UNION {Own(n, b) : b \in L \ {a}} = UNION {Own(m, b) : b \in L \ {a}}
      BY <1>7
    <3>3. old \cup UNION {Own(m, b) : b \in L \ {a}} = UNION {Own(m, b) : b \in L}
      <4>1. CASE a \in L
        BY <4>1
      <4>2. CASE a \notin L
        BY <4>2
      <4> QED
        BY <4>1, <4>2
    <3> QED
      BY <3>1, <3>2, <3>3, <1>6
  <2>2. Frames \ Free(n) = new \cup (Frames \ Free(m))
    <3>1. \A t \in Frames \ (old \cup new) : n[t] = m[t]
      BY QemuVmeAssumption DEF Tables
    <3>2. \A t \in old : m[t] # None
      BY OwnFrames
    <3> QED
      BY <1>1, <3>1, <3>2 DEF Free
  <2> QED
    BY <1>5, <2>1, <2>2 DEF Forest
<1> QED
  BY <1>1, <1>5, <1>7, <1>8, <1>9, <1>10 DEF Forest

Put(m, t, x, e) == [m EXCEPT ![t][x] = e]
WithEntry(m, n, t, x, e) ==
  /\ n \in Mems /\ n[t] # None /\ n[t] = [m[t] EXCEPT ![x] = e]
  /\ \A u \in Tables \ {t} : n[u] = m[u]
LEMMA PutEntry ==
  ASSUME NEW m \in Mems, NEW t \in Tables, m[t] # None, NEW x \in Index, NEW e \in PageEntries \cup {None}
  PROVE  WithEntry(m, Put(m, t, x, e), t, x, e)
<1>1. m[t] \in PageTables
  BY DEF Mems
<1>2. [m[t] EXCEPT ![x] = e] \in PageTables
  BY <1>1 DEF PageTables
<1> QED
  BY <1>1, <1>2, QemuAssumption DEF Mems, Put, WithEntry

LEMMA MapForest ==
  ASSUME Levels = 2, NEW m, NEW L, Forest(m, L), Free(m) # {}, NEW a \in L, NEW va \in UserAddresses,
         NEW e \in PageEntries \cup {None}
  PROVE  LET n == SetSlot(ptwalk(m, a, va, UserTable), va, e)
         IN  Forest(n, L) /\ \A b \in L : RootOf(n, b) = RootOf(m, b)
<1> DEFINE R == RootOf(m, a)
           w0 == [mem |-> m, pt |-> a]
           w1 == [mem |-> m, pt |-> R]
           w2 == Down(w1, va[2], UserTable)
           n == Put(w2.mem, w2.pt, va[3], e)
<1>1. /\ m \in Mems /\ a \in Spaces /\ SpaceUp(m, a) /\ KernelUp(m) /\ Own(m, a) \subseteq Frames /\ R \in Own(m, a)
      /\ \A t \in Own(m, a) : m[t] # None
  BY OwnFrames DEF Forest, Own
<1>2. va[1] = 0 /\ va[2] \in UserTops /\ va[3] \in Index
  BY QemuVmeAssumption DEF UserAddresses, KernelAddresses, Addresses, UserTops
<1>3. Down(w0, va[1], UserTable) = w1
  BY <1>1, <1>2 DEF Down, SpaceUp, RootOf
<1>4. SetSlot(ptwalk(m, a, va, UserTable), va, e) = n
  <2>1. ptwalk(m, a, va, UserTable) = w2
    <3>1. ptwalk(m, a, va, UserTable) = Down(Down(w0, va[1], UserTable), va[2], UserTable)
      BY WalkTwice
    <3> QED
      BY <1>3, <3>1, Zenon
  <2> HIDE DEF w2
  <2>2. va[Levels+1] = va[3]
    OBVIOUS
  <2> QED
    BY <2>1, <2>2 DEF SetSlot, Put
<1>5. a \in Tables /\ R \in Tables /\ a \notin Frames /\ Own(m, a) \subseteq Tables
  BY <1>1, QemuVmeAssumption DEF Tables
<1>6. R \notin KernelTables(m) /\ kpt(m) \in KernelTables(m) /\ kpt(m) \in Frames
  BY <1>1 DEF Forest, KernelTables, KernelUp
<1>7. CASE m[R][va[2]] # None
  <2> DEFINE P == m[R][va[2]].to
  <2>1. P \in Subs(m, a) /\ P # R /\ P \in Own(m, a)
    BY <1>1, <1>2, <1>7 DEF Subs, SpaceUp, Own
  <2>2. n = Put(m, P, va[3], e)
    BY <1>7 DEF Down
  <2> HIDE DEF n, P, R
  <2>3. n \in Mems /\ (\A u \in Tables \ {P} : n[u] = m[u]) /\ n[P] # None
    <3>1. m \in Mems /\ P \in Tables /\ m[P] # None /\ va[3] \in Index
      BY <2>1, <1>1, <1>2, <1>5
    <3>2. WithEntry(m, n, P, va[3], e)
      BY <3>1, <2>2, PutEntry
    <3> QED
      BY <3>2 DEF WithEntry
  <2>4. ASSUME kpt(n) = kpt(m), n[kpt(m)] = m[kpt(m)] PROVE SpaceUp(n, a) /\ Own(n, a) = Own(m, a) \cup {}
    <3>1. n[a] = m[a] /\ n[R] = m[R]
      BY <2>1, <2>3, <1>1, <1>5
    <3>2. \A t \in Own(m, a) : n[t] # None
      BY <2>3, <1>1, <1>5
    <3> QED
      BY <2>4, <3>1, <3>2, <1>1, SameSpace DEF R
  <2>5. \A t \in Tables \ (Own(m, a) \cup {} \cup {a}) : n[t] = m[t]
    BY <2>1, <2>3
  <2>6. \A t \in Own(m, a) \cup {} : n[t] # None
    BY <2>3, <1>1, <1>5
  <2>7. Forest(n, L \cup {a}) /\ \A b \in L \ {a} : RootOf(n, b) = RootOf(m, b)
    <3>1. Grown(m, n, L, a, Own(m, a), {})
      BY <1>1, <2>3, <2>4, <2>5, <2>6 DEF Grown
    <3> QED
      BY <3>1, GrowForest
  <2>8. RootOf(n, a) = RootOf(m, a)
    BY <2>1, <2>3, <1>1, <1>5 DEF RootOf
  <2>9. L \cup {a} = L
    OBVIOUS
  <2> QED
    BY <2>7, <2>8, <2>9, <1>4
<1>8. CASE m[R][va[2]] = None
  <2> DEFINE f == pgalloc(m)
             m1 == [m EXCEPT ![f] = Zeroed]
             m2 == Put(m1, R, va[2], Entry(f, UserTable))
  <2>1. /\ f \in Frames /\ m[f] = None /\ f \in Tables /\ pgallocz(m) = m1 /\ m1 \in Mems
        /\ Zeroed \in PageTables /\ Zeroed # None /\ f \in Free(m) /\ f \notin Own(m, a) /\ f # R /\ f # a
    BY <1>1, <1>5, Allocated DEF Free
  <2>2. n = Put(m2, f, va[3], e)
    BY <1>8, <2>1 DEF Down, Put
  <2>3. m1[R] = m[R] /\ m1[R] # None /\ m1[f] = Zeroed /\ \A u \in Tables \ {f} : m1[u] = m[u]
    BY <2>1, <1>1, <1>5 DEF Mems
  <2>4. Entry(f, UserTable) \in PageEntries /\ Entry(f, UserTable).to = f /\ Entry(f, UserTable).u /\ Entry(f, UserTable) # None
    <3>1. Entry(f, UserTable) \in PageEntries
      <4>1. UserTable \in BOOLEAN
        BY Zenon DEF UserTable
      <4> QED
        BY <2>1, <4>1 DEF Entry, PageEntries
    <3>2. Entry(f, UserTable).to = f /\ Entry(f, UserTable).u
      BY Zenon DEF Entry, UserTable
    <3> QED
      BY <3>1, <3>2, QemuAssumption
  <2> HIDE DEF n, R, f, m1
  <2>5. /\ m2 \in Mems /\ (\A u \in Tables \ {R} : m2[u] = m1[u])
        /\ m2[R] = [m[R] EXCEPT ![va[2]] = Entry(f, UserTable)] /\ m2[R] # None
    <3>1. m1 \in Mems /\ R \in Tables /\ m1[R] # None /\ va[2] \in Index /\ Entry(f, UserTable) \in PageEntries \cup {None}
      BY <2>1, <2>3, <2>4, <1>2, <1>5 DEF UserTops
    <3>2. WithEntry(m1, m2, R, va[2], Entry(f, UserTable))
      BY <3>1, PutEntry
    <3> QED
      BY <2>3, <3>2 DEF WithEntry
  <2>6. m2[f] = Zeroed
    BY <2>1, <2>3, <2>5
  <2> HIDE DEF m2
  <2>7. n \in Mems /\ (\A u \in Tables \ {f} : n[u] = m2[u]) /\ n[f] # None
    <3>1. m2 \in Mems /\ f \in Tables /\ m2[f] # None /\ va[3] \in Index
      BY <2>1, <2>5, <2>6, <1>2
    <3>2. WithEntry(m2, n, f, va[3], e)
      BY <3>1, <2>2, PutEntry
    <3> QED
      BY <3>2 DEF WithEntry
  <2>8. \A t \in Tables \ {f, R} : n[t] = m[t]
    BY <2>3, <2>5, <2>7
  <2>9. n[R] = [m[R] EXCEPT ![va[2]] = Entry(f, UserTable)] /\ n[a] = m[a] /\ n[R] # None
    BY <2>1, <2>5, <2>7, <2>8, <1>1, <1>5
  <2>10. RootOf(n, a) = R
    BY <2>9 DEF RootOf, R
  <2>11. m[R] \in [Index -> PageEntries \cup {None}]
    BY <1>1, <1>5 DEF Mems, PageTables
  <2>12. /\ n[R][va[2]] = Entry(f, UserTable)
         /\ \A i \in Index \ {va[2]} : n[R][i] = m[R][i]
    BY <2>9, <2>11, <1>2 DEF UserTops
  <2>13. Subs(n, a) = Subs(m, a) \cup {f}
    <3>1. Subs(n, a) = {n[R][i].to : i \in {j \in UserTops : n[R][j] # None}}
      BY <2>10 DEF Subs
    <3>2. Subs(m, a) = {m[R][i].to : i \in {j \in UserTops : m[R][j] # None}}
      BY DEF Subs, R
    <3>3. \A i \in UserTops \ {va[2]} : n[R][i] = m[R][i]
      BY <2>12 DEF UserTops
    <3>4. {j \in UserTops : n[R][j] # None} = {j \in UserTops : m[R][j] # None} \cup {va[2]}
      BY <3>3, <2>12, <2>4, <1>2
    <3>5. n[R][va[2]].to = f
      BY <2>12, <2>4
    <3>6. \A i \in {j \in UserTops : m[R][j] # None} : n[R][i] = m[R][i]
      BY <3>3, <1>8
    <3> QED
      BY <3>1, <3>2, <3>4, <3>5, <3>6
  <2>14. Own(n, a) = Own(m, a) \cup {f}
    BY <2>10, <2>13 DEF Own, R
  <2>15. \A t \in Own(m, a) \cup {f} : n[t] # None
    BY <2>7, <2>8, <2>9, <1>1, <1>5
  <2>16. ASSUME kpt(n) = kpt(m), n[kpt(m)] = m[kpt(m)] PROVE SpaceUp(n, a) /\ Own(n, a) = Own(m, a) \cup {f}
    <3>1. m[a][0] # None /\ m[a][0].u /\ (\A i \in Index \ {0} : m[a][i] = None) /\ R \in Frames \ Subs(m, a)
      BY <1>1 DEF SpaceUp, R
    <3>2. R \in Frames \ Subs(n, a)
      BY <3>1, <2>13, <2>1
    <3>3. \A i \in KernelTop : n[R][i] = n[kpt(n)][i]
      <4>1. \A i \in KernelTop : m[R][i] = m[kpt(m)][i]
        BY <1>1 DEF SpaceUp, R
      <4>2. \A i \in KernelTop : i \in Index \ {va[2]}
        BY <1>2, QemuVmeAssumption DEF UserTops
      <4> QED
        BY <4>1, <4>2, <2>12, <2>16
    <3>4. ASSUME NEW i \in UserTops, n[R][i] # None
          PROVE  n[R][i].u /\ n[R][i].to \in Frames /\ n[n[R][i].to] # None
      <4>1. CASE i = va[2]
        BY <4>1, <2>12, <2>4, <2>1, <2>15
      <4>2. CASE i # va[2]
        <5>1. n[R][i] = m[R][i]
          BY <4>2, <2>12 DEF UserTops
        <5>2. m[R][i].u /\ m[R][i].to \in Frames
          BY <5>1, <3>4, <1>1 DEF SpaceUp, R
        <5>3. m[R][i].to \in Own(m, a)
          BY <5>1, <3>4 DEF Own, Subs, R
        <5> QED
          BY <5>1, <5>2, <5>3, <2>15
      <4> QED
        BY <4>1, <4>2
    <3>5. n[a] # None /\ n[a][0] # None /\ n[a][0].u /\ \A i \in Index \ {0} : n[a][i] = None
      BY <3>1, <2>9, <1>1 DEF SpaceUp
    <3> QED
      BY <3>2, <3>3, <3>4, <3>5, <2>9, <2>10, <2>14 DEF SpaceUp
  <2>17. \A t \in Tables \ (Own(m, a) \cup {f} \cup {a}) : n[t] = m[t]
    BY <2>8, <1>1
  <2>18. {f} \subseteq Free(m)
    BY <2>1
  <2>19. Forest(n, L \cup {a}) /\ \A b \in L \ {a} : RootOf(n, b) = RootOf(m, b)
    <3>1. Grown(m, n, L, a, Own(m, a), {f})
      BY <1>1, <2>7, <2>15, <2>16, <2>17, <2>18 DEF Grown
    <3> QED
      BY <3>1, GrowForest
  <2>20. RootOf(n, a) = RootOf(m, a)
    BY <2>10 DEF R
  <2>21. L \cup {a} = L
    OBVIOUS
  <2> QED
    BY <2>19, <2>20, <2>21, <1>4
<1> QED
  BY <1>7, <1>8

LEMMA ProtectForest ==
  ASSUME Levels = 2, NEW m, NEW L, Forest(m, L), Free(m) # {}, NEW a \in Spaces, a \notin L
  PROVE  /\ Forest(vme_protect(m, a), L \cup {a})
         /\ \A b \in L : RootOf(vme_protect(m, a), b) = RootOf(m, b)
<1> DEFINE f == pgalloc(m)
           top == [Zeroed EXCEPT ![0] = Entry(f, TRUE)]
           upt == [i \in Index |-> IF i \in KernelTop THEN m[kpt(m)][i] ELSE None]
           n == vme_protect(m, a)
<1>1. m \in Mems /\ KernelUp(m) /\ kpt(m) \in Frames /\ m[kpt(m)] # None /\ kpt(m) \in Tables
  BY DEF Forest, KernelUp, Tables
<1>2. /\ f \in Frames /\ m[f] = None /\ f \in Tables /\ f \in Free(m) /\ pgallocz(m) = [m EXCEPT ![f] = Zeroed]
      /\ Zeroed \in PageTables /\ \A i \in Index : Zeroed[i] = None
  BY <1>1, Allocated DEF Free
<1>3. a \in Tables /\ a # f /\ a # kpt(m) /\ f # kpt(m)
  BY <1>1, <1>2, QemuVmeAssumption DEF Tables
<1>4. Entry(f, TRUE) \in PageEntries /\ Entry(f, TRUE).to = f /\ Entry(f, TRUE).u
  <2>1. Entry(f, TRUE) \in PageEntries
    BY <1>2 DEF Entry, PageEntries
  <2>2. Entry(f, TRUE).to = f /\ Entry(f, TRUE).u
    BY Zenon DEF Entry
  <2> QED
    BY <2>1, <2>2
<1>5. top \in PageTables /\ top[0] = Entry(f, TRUE) /\ \A i \in Index \ {0} : top[i] = None
  BY <1>2, <1>4, QemuVmeAssumption DEF PageTables
<1>6. upt \in PageTables /\ (\A i \in KernelTop : upt[i] = m[kpt(m)][i]) /\ \A i \in UserTops : upt[i] = None
  <2>1. m[kpt(m)] \in PageTables
    BY <1>1 DEF Mems
  <2> QED
    BY <2>1, QemuVmeAssumption DEF PageTables, UserTops
<1>7. n = [[m EXCEPT ![f] = Zeroed] EXCEPT ![a] = top, ![f] = upt]
  BY <1>2 DEF vme_protect
<1> HIDE DEF f, top, upt, n
<1>8. n \in Mems /\ n[a] = top /\ n[f] = upt /\ \A t \in Tables \ {a, f} : n[t] = m[t]
  BY <1>1, <1>2, <1>3, <1>5, <1>6, <1>7 DEF Mems
<1>9. n[a] # None /\ n[f] # None /\ Entry(f, TRUE) # None
  BY <1>4, <1>5, <1>6, <1>8, QemuAssumption
<1>10. ASSUME kpt(n) = kpt(m) /\ n[kpt(m)] = m[kpt(m)] PROVE SpaceUp(n, a) /\ Own(n, a) = {} \cup {f}
  <2>1. RootOf(n, a) = f
    BY <1>4, <1>5, <1>8 DEF RootOf
  <2>2. Subs(n, a) = {}
    BY <2>1, <1>6, <1>8 DEF Subs
  <2>3. \A i \in KernelTop : n[f][i] = n[kpt(n)][i]
    BY <1>6, <1>8, <1>10
  <2>4. \A i \in UserTops : n[f][i] = None
    BY <1>6, <1>8
  <2>5. n[a][0] # None /\ n[a][0].u /\ \A i \in Index \ {0} : n[a][i] = None
    BY <1>4, <1>5, <1>8, <1>9
  <2> QED
    BY <2>1, <2>2, <2>3, <2>4, <2>5, <1>2, <1>9 DEF SpaceUp, Own
<1>11. Grown(m, n, L, a, {}, {f})
  BY <1>2, <1>8, <1>9, <1>10 DEF Grown
<1>12. Forest(n, L \cup {a}) /\ \A b \in L \ {a} : RootOf(n, b) = RootOf(m, b)
  BY <1>11, GrowForest
<1> QED
  BY <1>12 DEF n

LEMMA UnprotectForest ==
  ASSUME Levels = 2, NEW m, NEW L, Forest(m, L), NEW a \in L
  PROVE  /\ Forest(vme_unprotect(m, a), L \ {a})
         /\ \A b \in L \ {a} : RootOf(vme_unprotect(m, a), b) = RootOf(m, b)
<1> DEFINE freed == teardown(m, a)
           n == vme_unprotect(m, a)
<1>1. m \in Mems /\ L \subseteq Spaces /\ KernelUp(m) /\ SpaceUp(m, a)
  BY DEF Forest
<1>2. freed = Own(m, a) /\ freed \subseteq Frames /\ freed \cap KernelTables(m) = {}
  BY <1>1, TearsOwn, OwnFrames DEF Forest
<1>3. n = [t \in Tables |-> IF t \in freed THEN None ELSE m[t]]
  BY DEF vme_unprotect
<1> HIDE DEF freed, n
<1>4. n \in Mems /\ (\A t \in Tables \ freed : n[t] = m[t]) /\ \A t \in freed : n[t] = None
  BY <1>1, <1>2, <1>3 DEF Mems, Tables
<1>5. \A t \in KernelTables(m) : t \in Frames /\ m[t] # None
  BY OwnFrames
<1>6. n[Kernel] = m[Kernel] /\ \A t \in KernelTables(m) : n[t] = m[t]
  BY <1>2, <1>4, <1>5, QemuVmeAssumption DEF Tables
<1>7. kpt(m) \in KernelTables(m)
  BY DEF KernelTables
<1>8. KernelUp(n) /\ kpt(n) = kpt(m) /\ KernelTables(n) = KernelTables(m)
  BY <1>1, <1>5, <1>6, <1>7, SameKernel
<1>9. ASSUME NEW b \in L \ {a}
      PROVE  SpaceUp(n, b) /\ RootOf(n, b) = RootOf(m, b) /\ Own(n, b) = Own(m, b)
  <2>1. SpaceUp(m, b) /\ Own(m, b) \subseteq Frames /\ b \in Spaces /\ Own(m, b) \cap freed = {}
    BY <1>1, <1>2, OwnFrames DEF Forest
  <2>2. n[b] = m[b] /\ \A t \in Own(m, b) : n[t] = m[t]
    BY <2>1, <1>2, <1>4, QemuVmeAssumption DEF Tables
  <2>3. RootOf(m, b) \in Own(m, b)
    BY DEF Own
  <2>4. \A t \in Own(m, b) : m[t] # None
    BY OwnFrames
  <2> QED
    BY <2>1, <2>2, <2>3, <2>4, <1>6, <1>7, <1>8, SameSpace
<1>10. Frames \ Free(n) = (Frames \ Free(m)) \ freed
  BY <1>2, <1>4 DEF Free, Tables
<1>11. Frames \ Free(n) = KernelTables(n) \cup UNION {Own(n, b) : b \in L \ {a}}
  <2>1. UNION {Own(n, b) : b \in L \ {a}} = UNION {Own(m, b) : b \in L \ {a}}
    BY <1>9
  <2>2. UNION {Own(m, b) : b \in L} = freed \cup UNION {Own(m, b) : b \in L \ {a}}
    BY <1>2
  <2>3. freed \cap UNION {Own(m, b) : b \in L \ {a}} = {}
    BY <1>2 DEF Forest
  <2> QED
    BY <1>2, <1>8, <1>10, <2>1, <2>2, <2>3 DEF Forest
<1>12. \A b \in L \ {a} : Own(n, b) \cap KernelTables(n) = {}
  BY <1>8, <1>9 DEF Forest
<1>13. \A b, c \in L \ {a} : b # c => Own(n, b) \cap Own(n, c) = {}
  BY <1>9 DEF Forest
<1>14. Forest(n, L \ {a})
  BY <1>1, <1>4, <1>8, <1>9, <1>11, <1>12, <1>13 DEF Forest
<1> QED
  BY <1>9, <1>14 DEF n

-----------------------------------------------------------------------------
(* vme_init: the fold over the kernel's pages, unrolled.                     *)
NotUser == FALSE
MapStep(m, va) == SetSlot(ptwalk(m, Kernel, va, NotUser), va, Entry(va, NotUser))
First(T) == CHOOSE x \in T : TRUE
Iter(f, D, base) == f = [T \in D |-> IF T = {} THEN base ELSE MapStep(f[T \ {First(T)}], First(T))]
TheIter(K, base) == CHOOSE f : Iter(f, SUBSET K, base)

LEMMA KernelMapped ==
  ASSUME NEW m
  PROVE  vme_map_kernel(m) = TheIter(KernelAddresses, [m EXCEPT ![Kernel] = Zeroed])[KernelAddresses]
BY Zenon DEF vme_map_kernel, FoldSet, MapThenFoldSet, MapStep, First, Iter, TheIter, NotUser

LEMMA IterExists ==
  ASSUME NEW K, IsFiniteSet(K), NEW base
  PROVE  \E f : Iter(f, SUBSET K, base)
<1> DEFINE Small(n) == {T \in SUBSET K : Cardinality(T) <= n}
           Reach == {n \in Nat : \E f : Iter(f, Small(n), base)}
<1>0. ASSUME NEW T \in SUBSET K, T # {}
      PROVE  /\ First(T) \in T /\ T \ {First(T)} \in SUBSET K /\ IsFiniteSet(T) /\ Cardinality(T) \in Nat
             /\ Cardinality(T \ {First(T)}) = Cardinality(T) - 1
  <2>1. First(T) \in T
    BY <1>0 DEF First
  <2>2. IsFiniteSet(T) /\ Cardinality(T) \in Nat
    BY FS_Subset, FS_CardinalityType
  <2> QED
    BY <2>1, <2>2, FS_RemoveElement
<1>1. 0 \in Reach
  <2>1. Small(0) = {{}}
    <3>1. \A T \in SUBSET K : IsFiniteSet(T) /\ (Cardinality(T) = 0 <=> T = {}) /\ Cardinality(T) \in Nat
      BY FS_Subset, FS_EmptySet, FS_CardinalityType
    <3>2. Cardinality({}) = 0
      BY FS_EmptySet
    <3> QED
      BY <3>1, <3>2
  <2>2. Iter([T \in {{}} |-> base], {{}}, base)
    <3>1. [T \in {{}} |-> base] = [T \in {{}} |-> IF T = {} THEN base ELSE MapStep([U \in {{}} |-> base][T \ {First(T)}], First(T))]
      OBVIOUS
    <3> QED
      BY <3>1, Zenon DEF Iter
  <2> QED
    BY <2>1, <2>2
<1>2. ASSUME NEW n \in Nat, n \in Reach PROVE n + 1 \in Reach
  <2>1. PICK f : Iter(f, Small(n), base)
    BY <1>2
  <2> DEFINE Line(h, T) == IF T = {} THEN base ELSE MapStep(h[T \ {First(T)}], First(T))
             g == [T \in Small(n+1) |-> Line(f, T)]
  <2>2. f = [T \in Small(n) |-> Line(f, T)]
    BY <2>1, Zenon DEF Iter
  <2>3. \A T \in Small(n) : T \in Small(n+1)
    <3>1. \A T \in SUBSET K : Cardinality(T) \in Nat
      BY FS_Subset, FS_CardinalityType
    <3> QED
      BY <3>1
  <2>4. \A T \in Small(n+1) : T # {} => T \ {First(T)} \in Small(n)
    BY <1>0
  <2> HIDE DEF Small
  <2>5. \A T \in Small(n) : g[T] = f[T]
    <3> HIDE DEF Line
    <3>1. \A T \in Small(n) : f[T] = Line(f, T)
      BY <2>2
    <3>2. \A T \in Small(n) : g[T] = Line(f, T)
      BY <2>3
    <3> QED
      BY <3>1, <3>2
  <2>6. \A T \in Small(n+1) : Line(f, T) = Line(g, T)
    <3> HIDE DEF g
    <3> QED
      BY <2>4, <2>5
  <2>7. g = [T \in Small(n+1) |-> Line(g, T)]
    <3>1. g = [T \in Small(n+1) |-> Line(f, T)]
      OBVIOUS
    <3> HIDE DEF g, Line
    <3> QED
      BY <2>6, <3>1
  <2>8. Iter(g, Small(n+1), base)
    <3> HIDE DEF g
    <3> QED
      BY <2>7, Zenon DEF Iter
  <2> QED
    BY <2>8
<1>3. Cardinality(K) \in Nat
  BY FS_CardinalityType
<1>4. Cardinality(K) \in Reach
  <2> HIDE DEF Reach
  <2> QED
    BY <1>1, <1>2, <1>3, NatSteps
<1>5. Small(Cardinality(K)) = SUBSET K
  BY FS_Subset
<1> QED
  BY <1>4, <1>5

LEMMA IterLines ==
  ASSUME NEW K, IsFiniteSet(K), NEW base
  PROVE  LET g == TheIter(K, base)
         IN  g[{}] = base /\ \A T \in SUBSET K : T # {} => g[T] = MapStep(g[T \ {First(T)}], First(T))
<1> DEFINE g == TheIter(K, base)
<1>1. Iter(g, SUBSET K, base)
  BY IterExists DEF TheIter
<1> HIDE DEF g
<1>2. g = [T \in SUBSET K |-> IF T = {} THEN base ELSE MapStep(g[T \ {First(T)}], First(T))]
  BY <1>1, Zenon DEF Iter
<1> QED
  BY <1>2 DEF g

LEMMA KernelAddressesFinite ==
  ASSUME Levels = 2
  PROVE  IsFiniteSet(KernelAddresses)
<1> DEFINE f == [q \in Index \X Index |-> [j \in 1..3 |-> IF j = 1 THEN 0 ELSE IF j = 2 THEN q[1] ELSE q[2]]]
           A == {va \in [1..3 -> Index] : va[1] = 0}
<1>1. IsFiniteSet(Index \X Index)
  BY FS_Product, QemuVmeAssumption
<1>2. f \in [Index \X Index -> A]
  BY QemuVmeAssumption
<1>3. ASSUME NEW va \in A PROVE \E q \in Index \X Index : f[q] = va
  <2>1. <<va[2], va[3]>> \in Index \X Index
    OBVIOUS
  <2>2. f[<<va[2], va[3]>>] = [j \in 1..3 |-> IF j = 1 THEN 0 ELSE IF j = 2 THEN va[2] ELSE va[3]]
    BY <2>1
  <2>3. va = [j \in 1..3 |-> va[j]]
    OBVIOUS
  <2>4. \A j \in 1..3 : va[j] = IF j = 1 THEN 0 ELSE IF j = 2 THEN va[2] ELSE va[3]
    <3>1. \A j \in 1..3 : j = 1 \/ j = 2 \/ j = 3
      OBVIOUS
    <3> QED
      BY <3>1
  <2>5. f[<<va[2], va[3]>>] = va
    BY <2>2, <2>3, <2>4
  <2> QED
    BY <2>1, <2>5
<1>4. f \in Surjection(Index \X Index, A)
  <2> HIDE DEF f, A
  <2> QED
    BY <1>2, <1>3 DEF Surjection
<1>5. IsFiniteSet(A)
  <2> HIDE DEF f, A
  <2> QED
    BY <1>1, <1>4, FS_Surjection
<1>6. KernelAddresses \subseteq A
  BY DEF KernelAddresses, Addresses
<1> HIDE DEF A
<1> QED
  BY <1>5, <1>6, FS_Subset

-----------------------------------------------------------------------------
(* The kernel's tables while vme_init fills them: those of the top indices   *)
(* in I are there.                                                           *)
Bare(m) ==
  /\ m \in Mems /\ m[Kernel] # None /\ m[Kernel][0] = None
  /\ \A t \in Tables \ {Kernel} : m[t] = None
KTree(m, I) ==
  /\ m \in Mems /\ m[Kernel] # None /\ m[Kernel][0] # None /\ \A a \in Spaces : m[a] = None
  /\ I \subseteq KernelTop /\ kpt(m) \in Frames /\ m[kpt(m)] # None
  /\ \A i \in KernelTop : m[kpt(m)][i] # None <=> i \in I
  /\ \A i \in I : /\ ~m[kpt(m)][i].u /\ m[kpt(m)][i].to \in Frames \ {kpt(m)}
                  /\ m[m[kpt(m)][i].to] # None
  /\ Frames \ Free(m) = {kpt(m)} \cup {m[kpt(m)][i].to : i \in I}
  /\ Cardinality(Frames \ Free(m)) = 1 + Cardinality(I)
EnoughFrames == Cardinality(Frames) >= 1 + Cardinality(KernelTop)

LEMMA NotUserEntry ==
  ASSUME NEW f \in Frames \cup KernelAddresses
  PROVE  /\ Entry(f, NotUser) \in PageEntries /\ Entry(f, NotUser).to = f /\ ~Entry(f, NotUser).u
         /\ Entry(f, NotUser) # None
<1>1. NotUser \in BOOLEAN
  BY Zenon DEF NotUser
<1>2. Entry(f, NotUser) \in PageEntries
  BY <1>1 DEF Entry, PageEntries
<1>3. Entry(f, NotUser).to = f /\ ~Entry(f, NotUser).u
  BY Zenon DEF Entry, NotUser
<1> QED
  BY <1>2, <1>3, QemuAssumption

LEMMA FreeLeft ==
  ASSUME EnoughFrames, NEW m, NEW n \in Nat, n <= Cardinality(KernelTop), Cardinality(Frames \ Free(m)) = n
  PROVE  Free(m) # {}
<1>1. Cardinality(KernelTop) \in Nat
  BY QemuVmeAssumption, FS_Subset, FS_CardinalityType
<1>2. Free(m) = {} => Frames \ Free(m) = Frames
  OBVIOUS
<1> QED
  BY <1>1, <1>2 DEF EnoughFrames

LEMMA FirstTable ==
  ASSUME EnoughFrames, NEW m, Bare(m)
  PROVE  LET w == Down([mem |-> m, pt |-> Kernel], 0, NotUser)
         IN  KTree(w.mem, {}) /\ w.pt = kpt(w.mem)
<1> DEFINE f == pgalloc(m)
           m1 == [m EXCEPT ![f] = Zeroed]
           n == Put(m1, Kernel, 0, Entry(f, NotUser))
<1>1. Free(m) = Frames /\ Frames \ Free(m) = {} /\ Cardinality({}) = 0 /\ Cardinality(KernelTop) \in Nat
  <2>1. \A f_ \in Frames : f_ \in Tables \ {Kernel}
    BY QemuVmeAssumption DEF Tables
  <2>2. Free(m) = Frames
    BY <2>1 DEF Bare, Free
  <2>3. Cardinality(KernelTop) \in Nat
    BY QemuVmeAssumption, FS_Subset, FS_CardinalityType
  <2> QED
    BY <2>2, <2>3, FS_EmptySet
<1>2. Free(m) # {}
  <2>1. Cardinality(Frames \ Free(m)) = 0
    BY <1>1
  <2> QED
    BY <1>1, <2>1, FreeLeft
<1>3. /\ m \in Mems /\ f \in Frames /\ f \in Tables /\ f # Kernel /\ Kernel \in Tables
      /\ pgallocz(m) = m1 /\ m1 \in Mems /\ Zeroed # None /\ \A i \in Index : Zeroed[i] = None
  BY <1>2, Allocated, QemuVmeAssumption DEF Bare, Tables
<1>4. Down([mem |-> m, pt |-> Kernel], 0, NotUser) = [mem |-> n, pt |-> f]
  BY <1>3 DEF Down, Bare, Put
<1>5. Entry(f, NotUser) \in PageEntries /\ Entry(f, NotUser).to = f /\ Entry(f, NotUser) # None
  BY <1>3, NotUserEntry
<1> HIDE DEF f
<1>6. m1[Kernel] = m[Kernel] /\ m1[Kernel] # None /\ m1[f] = Zeroed /\ \A t \in Tables \ {f} : m1[t] = m[t]
  BY <1>3 DEF Bare, Mems
<1> HIDE DEF m1
<1>7. WithEntry(m1, n, Kernel, 0, Entry(f, NotUser))
  BY <1>3, <1>5, <1>6, PutEntry, QemuVmeAssumption
<1> HIDE DEF n
<1>8. m1[Kernel] \in PageTables
  BY <1>3, <1>6 DEF Mems
<1>9. n[Kernel][0] = Entry(f, NotUser) /\ n[Kernel] # None /\ n \in Mems
  BY <1>7, <1>8, QemuVmeAssumption DEF WithEntry, PageTables
<1>10. kpt(n) = f
  BY <1>5, <1>9 DEF kpt
<1>11. n[f] = Zeroed /\ \A t \in Tables \ {f, Kernel} : n[t] = None
  BY <1>3, <1>6, <1>7 DEF WithEntry, Bare
<1>12. Frames \ Free(n) = {f}
  BY <1>3, <1>11, QemuVmeAssumption DEF Free, Tables
<1>13. Cardinality({f}) = 1
  BY FS_Singleton
<1>14. \A a \in Spaces : n[a] = None
  BY <1>3, <1>11, QemuVmeAssumption DEF Tables
<1>15. \A i \in KernelTop : n[f][i] = None
  BY <1>3, <1>11, QemuVmeAssumption
<1>16. KTree(n, {})
  <2>1. {n[f][i].to : i \in {}} = {}
    OBVIOUS
  <2>2. Cardinality(Frames \ Free(n)) = 1 + Cardinality({})
    BY <1>1, <1>12, <1>13
  <2>3. n[kpt(n)] # None
    BY <1>3, <1>10, <1>11
  <2> QED
    BY <2>1, <2>2, <2>3, <1>1, <1>3, <1>5, <1>9, <1>10, <1>11, <1>12, <1>13, <1>14, <1>15 DEF KTree
<1> QED
  BY <1>4, <1>10, <1>16

LEMMA NextTable ==
  ASSUME EnoughFrames, NEW m, NEW I, KTree(m, I), NEW i \in KernelTop
  PROVE  LET w == Down([mem |-> m, pt |-> kpt(m)], i, NotUser)
         IN  KTree(w.mem, I \cup {i}) /\ w.pt = w.mem[kpt(w.mem)][i].to
<1> DEFINE k == kpt(m)
<1>1. CASE i \in I
  <2>1. m[k][i] # None
    BY <1>1 DEF KTree
  <2>2. Down([mem |-> m, pt |-> k], i, NotUser) = [mem |-> m, pt |-> m[k][i].to]
    BY <2>1 DEF Down
  <2>3. I \cup {i} = I
    BY <1>1
  <2> QED
    BY <2>2, <2>3
<1>2. CASE i \notin I
  <2> DEFINE f == pgalloc(m)
             m1 == [m EXCEPT ![f] = Zeroed]
             n == Put(m1, k, i, Entry(f, NotUser))
  <2>1. IsFiniteSet(KernelTop) /\ IsFiniteSet(I) /\ Cardinality(I) \in Nat
    BY QemuVmeAssumption, FS_Subset, FS_CardinalityType DEF KTree
  <2>2. Cardinality(I \cup {i}) = Cardinality(I) + 1 /\ Cardinality(I \cup {i}) <= Cardinality(KernelTop)
    <3>1. Cardinality(I \cup {i}) = Cardinality(I) + 1
      BY <1>2, <2>1, FS_AddElement
    <3>2. I \cup {i} \in SUBSET KernelTop
      BY DEF KTree
    <3> QED
      BY <2>1, <3>1, <3>2, FS_Subset
  <2>3. Free(m) # {}
    <3>1. Cardinality(Frames \ Free(m)) = 1 + Cardinality(I)
      BY DEF KTree
    <3> QED
      BY <2>1, <2>2, <3>1, FreeLeft
  <2>4. /\ m \in Mems /\ f \in Frames /\ f \in Tables /\ m[f] = None /\ f # k /\ f # Kernel /\ k \in Tables
        /\ pgallocz(m) = m1 /\ m1 \in Mems /\ Zeroed # None /\ \A j \in Index : Zeroed[j] = None
    BY <2>3, Allocated, QemuVmeAssumption DEF KTree, Tables
  <2>5. Down([mem |-> m, pt |-> k], i, NotUser) = [mem |-> n, pt |-> f]
    BY <1>2, <2>4 DEF Down, KTree, Put
  <2>6. Entry(f, NotUser) \in PageEntries /\ Entry(f, NotUser).to = f /\ ~Entry(f, NotUser).u /\ Entry(f, NotUser) # None
    BY <2>4, NotUserEntry
  <2>7. i \in Index
    BY QemuVmeAssumption
  <2> HIDE DEF f, k
  <2>8. m1[k] = m[k] /\ m1[k] # None /\ m1[f] = Zeroed /\ \A t \in Tables \ {f} : m1[t] = m[t]
    BY <2>4 DEF KTree, k, Mems
  <2> HIDE DEF m1
  <2>9. WithEntry(m1, n, k, i, Entry(f, NotUser))
    BY <2>4, <2>6, <2>7, <2>8, PutEntry
  <2> HIDE DEF n
  <2>10. m[k] \in [Index -> PageEntries \cup {None}]
    BY <2>4, <2>8 DEF Mems, PageTables, KTree, k
  <2>11. n[k] # None /\ n[k][i] = Entry(f, NotUser) /\ \A j \in Index \ {i} : n[k][j] = m[k][j]
    BY <2>7, <2>8, <2>9, <2>10 DEF WithEntry
  <2>12. n \in Mems /\ n[f] = Zeroed /\ \A t \in Tables \ {f, k} : n[t] = m[t]
    BY <2>4, <2>8, <2>9 DEF WithEntry
  <2>13. n[Kernel] = m[Kernel] /\ \A a \in Spaces : n[a] = None
    BY <2>4, <2>12, QemuVmeAssumption DEF KTree, k, Tables
  <2>14. kpt(n) = k
    BY <2>13 DEF kpt, k
  <2>15. \A t \in Frames : (n[t] # None) <=> (t = f \/ m[t] # None)
    BY <2>4, <2>8, <2>11, <2>12 DEF Tables
  <2>16. Frames \ Free(n) = (Frames \ Free(m)) \cup {f}
    BY <2>4, <2>15 DEF Free
  <2>17. \A j \in I : n[k][j] = m[k][j]
    BY <1>2, <2>11, QemuVmeAssumption DEF KTree
  <2>18. \A j \in KernelTop : n[k][j] # None <=> j \in I \cup {i}
    BY <1>2, <2>6, <2>11, QemuVmeAssumption DEF KTree, k
  <2>19. {n[k][j].to : j \in I \cup {i}} = {m[k][j].to : j \in I} \cup {f}
    BY <2>6, <2>11, <2>17
  <2>20. ASSUME NEW j \in I \cup {i}
         PROVE  ~n[k][j].u /\ n[k][j].to \in Frames \ {k} /\ n[n[k][j].to] # None
    <3>1. CASE j = i
      BY <3>1, <2>4, <2>6, <2>11, <2>12
    <3>2. CASE j \in I
      BY <3>2, <2>15, <2>17 DEF KTree, k
    <3> QED
      BY <3>1, <3>2
  <2>21. Cardinality(Frames \ Free(n)) = 1 + Cardinality(I \cup {i})
    <3>1. IsFiniteSet(Frames \ Free(m))
      BY QemuVmeAssumption, FS_Difference
    <3>2. f \notin Frames \ Free(m)
      BY <2>4 DEF Free
    <3>3. Cardinality((Frames \ Free(m)) \cup {f}) = Cardinality(Frames \ Free(m)) + 1
      BY <3>1, <3>2, FS_AddElement
    <3>4. Cardinality(Frames \ Free(m)) = 1 + Cardinality(I)
      BY DEF KTree
    <3> QED
      BY <2>1, <2>2, <2>16, <3>3, <3>4
  <2>22. Frames \ Free(n) = {k} \cup {n[k][j].to : j \in I \cup {i}}
    <3>1. Frames \ Free(m) = {k} \cup {m[k][j].to : j \in I}
      BY DEF KTree, k
    <3> QED
      BY <3>1, <2>16, <2>19
  <2>23. k \in Frames /\ I \cup {i} \subseteq KernelTop /\ n[Kernel] # None /\ n[Kernel][0] # None
    BY <2>13 DEF KTree, k
  <2>24. KTree(n, I \cup {i})
    BY <2>11, <2>12, <2>13, <2>14, <2>18, <2>20, <2>21, <2>22, <2>23 DEF KTree
  <2>25. n[kpt(n)][i].to = f
    BY <2>6, <2>11, <2>14
  <2> QED
    BY <2>5, <2>24, <2>25 DEF k
<1> QED
  BY <1>1, <1>2

LEMMA LastTable ==
  ASSUME NEW m, NEW I, KTree(m, I), NEW i \in I, NEW x \in Index, NEW e \in PageEntries
  PROVE  KTree(Put(m, m[kpt(m)][i].to, x, e), I)
<1> DEFINE k == kpt(m)
           t == m[k][i].to
           n == Put(m, t, x, e)
<1>1. m \in Mems /\ k \in Frames /\ t \in Frames \ {k} /\ m[t] # None /\ t \in Tables /\ k \in Tables /\ m[k] # None
  BY DEF KTree, Tables
<1> HIDE DEF k, t
<1>2. WithEntry(m, n, t, x, e)
  BY <1>1, PutEntry
<1> HIDE DEF n
<1>3. n \in Mems /\ n[t] # None /\ \A u \in Tables \ {t} : n[u] = m[u]
  BY <1>2 DEF WithEntry
<1>4. n[k] = m[k] /\ n[Kernel] = m[Kernel] /\ (\A a \in Spaces : n[a] = m[a]) /\ kpt(n) = k
  BY <1>1, <1>3, QemuVmeAssumption DEF Tables, kpt, k
<1>5. \A f \in Frames : n[f] # None <=> m[f] # None
  BY <1>1, <1>3 DEF Tables
<1>6. Free(n) = Free(m)
  BY <1>5 DEF Free
<1>7. \A j \in I : n[n[k][j].to] # None
  BY <1>4, <1>5 DEF KTree, k
<1>8. KTree(n, I)
  BY <1>3, <1>4, <1>6, <1>7 DEF KTree, k
<1> QED
  BY <1>8 DEF n, t, k

TopsOf(T) == {va[2] : va \in T}
Half(m, T) == IF T = {} THEN Bare(m) ELSE KTree(m, TopsOf(T))
LEMMA KernelStep ==
  ASSUME Levels = 2, EnoughFrames, NEW m, NEW T \in SUBSET KernelAddresses, Half(m, T), NEW va \in KernelAddresses
  PROVE  KTree(MapStep(m, va), TopsOf(T \cup {va}))
<1> DEFINE w1 == Down([mem |-> m, pt |-> Kernel], 0, NotUser)
           w2 == Down(w1, va[2], NotUser)
<1>1. va[1] = 0 /\ va[2] \in KernelTop /\ va[3] \in Index
  BY DEF KernelAddresses, Addresses
<1>2. MapStep(m, va) = Put(w2.mem, w2.pt, va[3], Entry(va, NotUser))
  <2>1. ptwalk(m, Kernel, va, NotUser) = w2
    BY <1>1, WalkTwice
  <2>2. va[Levels+1] = va[3]
    OBVIOUS
  <2> HIDE DEF w2
  <2> QED
    BY <2>1, <2>2 DEF MapStep, SetSlot, Put
<1>3. KTree(w1.mem, TopsOf(T)) /\ w1 = [mem |-> w1.mem, pt |-> kpt(w1.mem)]
  <2>1. CASE T = {}
    <3>1. KTree(w1.mem, {}) /\ w1.pt = kpt(w1.mem)
      BY <2>1, FirstTable DEF Half
    <3>2. TopsOf(T) = {}
      BY <2>1 DEF TopsOf
    <3>3. w1 = [mem |-> w1.mem, pt |-> w1.pt]
      BY DEF Down
    <3> HIDE DEF w1
    <3> QED
      BY <3>1, <3>2, <3>3
  <2>2. CASE T # {}
    <3>1. KTree(m, TopsOf(T))
      BY <2>2 DEF Half
    <3>2. w1 = [mem |-> m, pt |-> kpt(m)]
      BY <3>1 DEF Down, kpt, KTree
    <3> HIDE DEF w1
    <3> QED
      BY <3>1, <3>2
  <2> QED
    BY <2>1, <2>2
<1> HIDE DEF w1
<1>4. KTree(w2.mem, TopsOf(T) \cup {va[2]}) /\ w2.pt = w2.mem[kpt(w2.mem)][va[2]].to
  <2> DEFINE v == Down([mem |-> w1.mem, pt |-> kpt(w1.mem)], va[2], NotUser)
  <2>1. KTree(v.mem, TopsOf(T) \cup {va[2]}) /\ v.pt = v.mem[kpt(v.mem)][va[2]].to
    BY <1>1, <1>3, NextTable
  <2>2. w2 = v
    BY <1>3
  <2> HIDE DEF v, w2
  <2> QED
    BY <2>1, <2>2
<1>5. Entry(va, NotUser) \in PageEntries
  BY NotUserEntry
<1> HIDE DEF w2
<1>6. KTree(Put(w2.mem, w2.pt, va[3], Entry(va, NotUser)), TopsOf(T) \cup {va[2]})
  <2>1. va[2] \in TopsOf(T) \cup {va[2]}
    OBVIOUS
  <2>2. KTree(Put(w2.mem, w2.mem[kpt(w2.mem)][va[2]].to, va[3], Entry(va, NotUser)), TopsOf(T) \cup {va[2]})
    BY <1>1, <1>4, <1>5, <2>1, LastTable
  <2> QED
    BY <1>4, <2>2
<1>7. TopsOf(T \cup {va}) = TopsOf(T) \cup {va[2]}
  BY DEF TopsOf
<1> QED
  BY <1>2, <1>6, <1>7

LEMMA KernelForest ==
  ASSUME Levels = 2, EnoughFrames, NEW m \in Mems, \A t \in Tables : m[t] = None
  PROVE  Forest(vme_map_kernel(m), {})
<1> DEFINE base == [m EXCEPT ![Kernel] = Zeroed]
           f == TheIter(KernelAddresses, base)
           Good == {n \in Nat : \A T \in SUBSET KernelAddresses : Cardinality(T) = n => Half(f[T], T)}
<1>1. IsFiniteSet(KernelAddresses) /\ Cardinality(KernelAddresses) \in Nat
  BY KernelAddressesFinite, FS_CardinalityType
<1>2. Bare(base)
  <2>1. Zeroed \in PageTables /\ Zeroed[0] = None /\ Zeroed # None
    <3>1. Zeroed \in PageTables
      BY DEF Zeroed, PageTables
    <3> QED
      BY <3>1, QemuVmeAssumption, QemuAssumption DEF Zeroed
  <2>2. Kernel \in Tables
    BY DEF Tables
  <2> QED
    BY <2>1, <2>2 DEF Bare, Mems
<1> HIDE DEF base
<1>3. f[{}] = base /\ \A T \in SUBSET KernelAddresses : T # {} => f[T] = MapStep(f[T \ {First(T)}], First(T))
  BY <1>1, IterLines
<1> HIDE DEF f
<1>4. 0 \in Good
  <2>1. \A T \in SUBSET KernelAddresses : Cardinality(T) = 0 => T = {}
    BY <1>1, FS_Subset, FS_EmptySet
  <2> QED
    BY <1>2, <1>3, <2>1 DEF Half
<1>5. ASSUME NEW n \in Nat, n \in Good PROVE n + 1 \in Good
  <2> SUFFICES ASSUME NEW T \in SUBSET KernelAddresses, Cardinality(T) = n + 1
               PROVE  Half(f[T], T)
    OBVIOUS
  <2> DEFINE x == First(T)
             U == T \ {x}
  <2>1. IsFiniteSet(T) /\ T # {}
    BY <1>1, FS_Subset, FS_EmptySet
  <2>2. x \in T /\ x \in KernelAddresses /\ U \in SUBSET KernelAddresses /\ T = U \cup {x}
    BY <2>1 DEF First
  <2>3. Cardinality(U) = n
    <3>1. Cardinality(T \ {x}) = Cardinality(T) - 1
      BY <2>1, <2>2, FS_RemoveElement
    <3> HIDE DEF x
    <3> QED
      BY <3>1
  <2>4. f[T] = MapStep(f[U], x)
    BY <1>3, <2>1
  <2>5. Half(f[U], U)
    BY <1>5, <2>2, <2>3
  <2> HIDE DEF x, U
  <2>6. KTree(f[T], TopsOf(T))
    BY <2>2, <2>4, <2>5, KernelStep
  <2> QED
    BY <2>1, <2>6 DEF Half
<1>6. Cardinality(KernelAddresses) \in Good
  <2> HIDE DEF Good
  <2> QED
    BY <1>1, <1>4, <1>5, NatSteps
<1>7. Half(f[KernelAddresses], KernelAddresses)
  BY <1>6
<1>8. TopsOf(KernelAddresses) = KernelTop /\ KernelAddresses # {}
  <2>1. ASSUME NEW i \in KernelTop PROVE \E va \in KernelAddresses : va[2] = i
    <3> DEFINE va == [j \in 1..3 |-> IF j = 2 THEN i ELSE 0]
    <3>1. va \in KernelAddresses /\ va[2] = i
      BY QemuVmeAssumption DEF KernelAddresses, Addresses
    <3> QED
      BY <3>1
  <2>2. \A va \in KernelAddresses : va[2] \in KernelTop
    BY DEF KernelAddresses
  <2> QED
    BY <2>1, <2>2, QemuVmeAssumption DEF TopsOf
<1> DEFINE n == f[KernelAddresses]
<1>9. KTree(n, KernelTop)
  BY <1>7, <1>8 DEF Half
<1>10. vme_map_kernel(m) = n
  BY KernelMapped DEF f, base
<1> HIDE DEF n
<1>11. KernelUp(n)
  BY <1>9 DEF KTree, KernelUp
<1>12. KernelTables(n) = {kpt(n)} \cup {n[kpt(n)][i].to : i \in KernelTop}
  BY <1>11, KernelTablesAre
<1>13. Frames \ Free(n) = KernelTables(n) \cup UNION {Own(n, a) : a \in {}}
  BY <1>9, <1>12 DEF KTree
<1>14. Forest(n, {})
  BY <1>9, <1>11, <1>13 DEF KTree, Forest
<1> QED
  BY <1>10, <1>14

-----------------------------------------------------------------------------
(* The trees of the live spaces, in every state.                             *)
Tree == IF Paging THEN Forest(mem, live)
        ELSE mem \in Mems /\ live = {} /\ \A t \in Tables : mem[t] = None

LEMMA TreeOwned == ASSUME Levels = 2, Tree PROVE TablesOwned
<1>1. CASE ~Paging
  BY <1>1 DEF Tree, TablesOwned
<1>2. CASE Paging
  <2>1. Forest(mem, live)
    BY <1>2 DEF Tree
  <2>2. \A a \in live : teardown(mem, a) = Own(mem, a)
    BY <2>1, TearsOwn DEF Forest
  <2>3. \A a \in live : \A i \in KernelTop : mem[Root(a)][i] = mem[kpt(mem)][i]
    BY <2>1 DEF Forest, SpaceUp, Root, RootOf
  <2>4. UNION {teardown(mem, a) : a \in live} = UNION {Own(mem, a) : a \in live}
    BY <2>2
  <2> QED
    BY <2>1, <2>2, <2>3, <2>4 DEF Forest, TablesOwned
<1> QED
  BY <1>1, <1>2

\* The page tables of live spaces stay where they are.
SameRoots == \A a \in live \cap live' : Root(a)' = Root(a)
LEMMA InitForest == ASSUME Levels = 2, Tree, vme_init_qemu PROVE Forest(mem', live') /\ live = {}
<1>1. ~Paging /\ mem \in Mems /\ live = {} /\ \A t \in Tables : mem[t] = None
  BY DEF Tree, vme_init_qemu
<1>2. Free(mem) = Frames
  BY <1>1 DEF Free, Tables
<1>3. EnoughFrames
  BY <1>2 DEF vme_init_qemu, Enough, EnoughFrames
<1>4. mem' = vme_map_kernel(mem) /\ live' = {}
  BY <1>1 DEF vme_init_qemu
<1> QED
  BY <1>1, <1>3, <1>4, KernelForest

LEMMA TreeKept ==
  ASSUME Levels = 2, Tree, [QemuNext]_qemuVars
  PROVE  Tree' /\ SameRoots
<1> USE DEF SameRoots
<1>1. CASE UNCHANGED <<mem, live>>
  BY <1>1 DEF Tree, Paging, Root
<1>2. CASE vme_init_qemu
  BY <1>2, InitForest DEF Tree, Paging, Forest, KernelUp, vme_init_qemu
<1>3. ASSUME NEW a \in Spaces, protect_qemu(a) PROVE Tree' /\ SameRoots
  <2>1. Forest(mem, live) /\ a \notin live /\ mem' = vme_protect(mem, a) /\ live' = live \cup {a}
    BY <1>3 DEF protect_qemu, Tree
  <2>2. Free(mem) # {}
    BY <1>3, FS_EmptySet DEF protect_qemu, Enough
  <2>3. Forest(mem', live') /\ \A b \in live : RootOf(mem', b) = RootOf(mem, b)
    BY <2>1, <2>2, ProtectForest
  <2> QED
    BY <2>3 DEF Tree, Paging, Forest, KernelUp, Root, RootOf
<1>4. ASSUME NEW a \in Spaces, unprotect(a) PROVE Tree' /\ SameRoots
  <2>1. a \in live /\ mem' = vme_unprotect(mem, a) /\ live' = live \ {a}
    BY <1>4 DEF unprotect
  <2>2. Forest(mem, live)
    BY <2>1 DEF Tree
  <2>3. Forest(mem', live') /\ \A b \in live \ {a} : RootOf(mem', b) = RootOf(mem, b)
    BY <2>1, <2>2, UnprotectForest
  <2> QED
    BY <2>1, <2>3 DEF Tree, Paging, Forest, KernelUp, Root, RootOf
<1>5. ASSUME NEW w \in QemuWanted, map_qemu(w[1], w[2], w[3]) PROVE Tree' /\ SameRoots
  <2> DEFINE e == IF w[3] = None THEN None ELSE Entry(w[3], TRUE)
  <2>1. w[1] \in live /\ mem' = vme_map(mem, w[1], w[2], w[3]) /\ live' = live
    BY <1>5 DEF map_qemu
  <2>2. Forest(mem, live)
    BY <2>1 DEF Tree
  <2>3. Cardinality({}) = 0 /\ Cardinality(Free(mem)) >= 2
    BY <1>5, FS_EmptySet DEF map_qemu, Enough
  <2>4. Free(mem) # {}
    BY <2>3
  <2>5. w[2] \in UserAddresses
    BY QemuAssumption
  <2>6. e \in PageEntries \cup {None}
    BY DEF Entry, PageEntries
  <2>7. vme_map(mem, w[1], w[2], w[3]) = SetSlot(ptwalk(mem, w[1], w[2], UserTable), w[2], e)
    BY Zenon DEF vme_map
  <2> HIDE DEF e
  <2>8. Forest(mem', live') /\ \A b \in live : RootOf(mem', b) = RootOf(mem, b)
    BY <2>1, <2>2, <2>4, <2>5, <2>6, <2>7, MapForest
  <2> QED
    BY <2>1, <2>8 DEF Tree, Paging, Forest, KernelUp, Root, RootOf
<1>6. CASE UNCHANGED qemuVars
  BY <1>1, <1>6 DEF qemuVars
<1>7. CASE Interrupt_qemu \/ yield_qemu \/ SyscallOrFault \/ am_irq_handle
  BY <1>1, <1>7 DEF Interrupt_qemu, yield_qemu, SyscallOrFault, Trap_qemu, am_irq_handle
<1>8. ASSUME NEW t \in Threads, am_iret(t) \/ CreateKernel_qemu(t) \/ CreateUser_qemu(t) \/ Discard(t)
      PROVE  Tree' /\ SameRoots
  BY <1>1, <1>8 DEF am_iret, CreateKernel_qemu, CreateUser_qemu, Create_qemu, Discard
<1>9. ASSUME NEW enable \in BOOLEAN, iset_qemu(enable) PROVE Tree' /\ SameRoots
  BY <1>1, <1>9 DEF iset_qemu
<1> QED
  BY <1>2, <1>3, <1>4, <1>5, <1>6, <1>7, <1>8, <1>9 DEF QemuNext

-----------------------------------------------------------------------------
(* The contexts of the x86-qemu port.  A chain is the frame of a user thread *)
(* with those of traps into the gate on it: the processor still holds, or    *)
(* will hold on its return, what belongs to the thread.  A frame is filled   *)
(* when its gate has passed cli.                                             *)
Its(m, t, cr3, rsp0) == cr3 = RootOf(m, SpaceOf[t]) /\ rsp0 = t
Chain(fs, n) == fs[1].uc.pc = "user" /\ \A j \in 2..n : fs[j].uc.pc = "gate"
Filled(fs, i, t, p) == IF i < Len(fs) THEN fs[i+1].uc.pc # "gate" ELSE ~(p.pc = "gate" /\ p.stk = t)
Good(fs, i, t, p, m) ==
  /\ fs[i].uc.th = t
  /\ IF fs[i].uc.pc = "user" THEN t \in Users /\ i = 1 ELSE fs[i].uc.stk = t
  /\ fs[i].uc.pc = "gate" => i >= 2
  /\ Filled(fs, i, t, p) /\ Chain(fs, i) => Its(m, t, fs[i].cr3, fs[i].rsp0)
StackGood(fs, t, p, m) == \A i \in 1..Len(fs) : Good(fs, i, t, p, m)
QSaved(fss, p, m) == \A t \in Threads : fss[t] # None => StackGood(fss[t], t, p, m)
QLive(fss, L) == \A t \in Users : fss[t] # None => SpaceOf[t] \in L
QAt(p, c, fss, m) ==
  /\ fss[p.th] # None
  /\ p.pc = "user" => p.th \in Users /\ fss[p.th] = <<>> /\ Its(m, p.th, c.cr3, c.rsp0)
  /\ p.pc # "user" => p.stk = p.th
  /\ p.pc = "gate" => /\ fss[p.th] # <<>>
                      /\ Chain(fss[p.th], Len(fss[p.th])) => Its(m, p.th, c.cr3, c.rsp0)
QTypes ==
  /\ at \in QemuPlaces /\ frames \in [Threads -> Seq(QemuContexts) \cup {None}]
  /\ cpu \in [cr3 : Frames \cup {None}, rsp0 : Threads \cup {None}]
Control == QTypes /\ QSaved(frames, at, mem) /\ QLive(frames, live) /\ QAt(at, cpu, frames, mem)

LEMMA AnyStack == <<>> \in Seq(QemuContexts) /\ \A s \in Seq(QemuContexts) : s # None
<1>1. <<>> \in Seq(QemuContexts)
  OBVIOUS
<1> QED
  BY <1>1, QemuAssumption

(* What a stack holds stays good when the processor moves between places     *)
(* that are not its gate, and while its thread's page table stays.           *)
LEMMA SameStack ==
  ASSUME NEW fs \in Seq(QemuContexts), NEW t, NEW p, NEW q, NEW m, NEW n, StackGood(fs, t, p, m),
         (p.pc = "gate" /\ p.stk = t) <=> (q.pc = "gate" /\ q.stk = t),
         t \in Users => RootOf(n, SpaceOf[t]) = RootOf(m, SpaceOf[t])
  PROVE  StackGood(fs, t, q, n)
<1> SUFFICES ASSUME NEW i \in 1..Len(fs) PROVE Good(fs, i, t, q, n)
  BY DEF StackGood
<1>1. Good(fs, i, t, p, m) /\ Good(fs, 1, t, p, m)
  BY DEF StackGood
<1>2. Filled(fs, i, t, q) <=> Filled(fs, i, t, p)
  BY DEF Filled
<1>3. Chain(fs, i) => t \in Users
  BY <1>1 DEF Chain, Good
<1> QED
  BY <1>1, <1>2, <1>3 DEF Good, Its

LEMMA PushGood ==
  ASSUME NEW fs \in Seq(QemuContexts), NEW c \in QemuContexts, NEW t \in Threads, NEW p \in QemuPlaces, NEW m,
         NEW q, StackGood(fs, t, p, m), c.uc = p, p.th = t, p.pc # "user", p.stk = t,
         p.pc = "gate" => fs # <<>>, q.pc = "gate" /\ q.stk = t
  PROVE  StackGood(Append(fs, c), t, q, m)
<1> DEFINE gs == Append(fs, c)
           l == Len(fs)
<1>1. gs \in Seq(QemuContexts) /\ Len(gs) = l + 1 /\ gs[l+1] = c /\ l \in Nat /\ \A i \in 1..l : gs[i] = fs[i]
  BY Longer
<1> HIDE DEF gs
<1> SUFFICES ASSUME NEW i \in 1..Len(gs) PROVE Good(gs, i, t, q, m)
  BY DEF StackGood, gs
<1>2. CASE i = l + 1
  <2>1. gs[i] = c /\ ~Filled(gs, i, t, q)
    BY <1>1, <1>2 DEF Filled
  <2>2. p.pc = "gate" => i >= 2
    BY <1>1, <1>2
  <2> QED
    BY <2>1, <2>2 DEF Good
<1>3. CASE i # l + 1
  <2>1. i \in 1..l /\ gs[i] = fs[i]
    BY <1>1, <1>3
  <2>2. Good(fs, i, t, p, m)
    BY <2>1 DEF StackGood
  <2>3. Filled(gs, i, t, q) => Filled(fs, i, t, p)
    <3>1. CASE i < l
      <4>1. gs[i+1] = fs[i+1]
        BY <3>1, <1>1, <2>1
      <4> QED
        BY <3>1, <4>1, <1>1, <2>1 DEF Filled
    <3>2. CASE i = l
      BY <3>2, <1>1, <2>1 DEF Filled
    <3> QED
      BY <3>1, <3>2, <2>1
  <2>4. Chain(gs, i) => Chain(fs, i)
    BY <1>1, <2>1 DEF Chain
  <2> QED
    BY <2>1, <2>2, <2>3, <2>4 DEF Good
<1> QED
  BY <1>2, <1>3

LEMMA PopGood ==
  ASSUME NEW fs \in Seq(QemuContexts), fs # <<>>, NEW t, NEW p, NEW q, NEW m, StackGood(fs, t, p, m),
         q = fs[Len(fs)].uc
  PROVE  StackGood(SubSeq(fs, 1, Len(fs) - 1), t, q, m)
<1> DEFINE gs == SubSeq(fs, 1, Len(fs) - 1)
           l == Len(fs) - 1
<1>1. gs \in Seq(QemuContexts) /\ Len(gs) = l /\ l \in Nat /\ \A i \in 1..l : gs[i] = fs[i]
  BY Shorter
<1>2. \A i \in 1..l+1 : Good(fs, i, t, p, m)
  BY <1>1 DEF StackGood
<1>3. q = fs[l+1].uc /\ Len(fs) = l + 1
  OBVIOUS
<1> HIDE DEF gs, l
<1> SUFFICES ASSUME NEW i \in 1..l PROVE Good(gs, i, t, q, m)
  BY <1>1 DEF StackGood, gs
<1>4. gs[i] = fs[i] /\ Good(fs, i, t, p, m) /\ Good(fs, l+1, t, p, m)
  BY <1>1, <1>2
<1>5. Filled(gs, i, t, q) => Filled(fs, i, t, p)
  <2>1. CASE i < l
    <3>1. gs[i+1] = fs[i+1]
      BY <2>1, <1>1
    <3> QED
      BY <2>1, <3>1, <1>1, <1>3 DEF Filled
  <2>2. CASE i = l
    <3>1. q.pc = "gate" => q.stk = t
      BY <1>3, <1>4 DEF Good
    <3> QED
      BY <2>2, <3>1, <1>1, <1>3 DEF Filled
  <2> QED
    BY <2>1, <2>2, <1>1
<1>6. Chain(gs, i) => Chain(fs, i)
  BY <1>1 DEF Chain
<1> QED
  BY <1>4, <1>5, <1>6 DEF Good

LEMMA ControlStarts == QemuInit => Control
<1> SUFFICES ASSUME QemuInit PROVE Control
  OBVIOUS
<1>1. Boot \in Threads /\ Boot \notin Users /\ <<>> \in Seq(QemuContexts) /\ <<>> # None
  BY AnyStack, ThreadsAssumption DEF Threads
<1>2. QTypes
  BY <1>1 DEF QTypes, QemuInit, QemuPlaces, Place
<1>3. \A t \in Threads : frames[t] = IF t = Boot THEN <<>> ELSE None
  BY DEF QemuInit
<1>4. QSaved(frames, at, mem)
  BY <1>3 DEF QSaved, StackGood
<1>5. QLive(frames, live)
  BY <1>1, <1>3 DEF QLive, Threads
<1>6. QAt(at, cpu, frames, mem)
  BY <1>1, <1>3 DEF QAt, QemuInit, Place
<1> QED
  BY <1>2, <1>4, <1>5, <1>6 DEF Control

(* A stack of t is put in place of the one there.                            *)
LEMMA OneStack ==
  ASSUME NEW fss \in [Threads -> Seq(QemuContexts) \cup {None}], NEW t \in Threads, NEW fs \in Seq(QemuContexts),
         NEW p, NEW q, NEW m, QSaved(fss, p, m), StackGood(fs, t, q, m),
         \A u \in Threads \ {t} : fss[u] # None => ((p.pc = "gate" /\ p.stk = u) <=> (q.pc = "gate" /\ q.stk = u))
  PROVE  /\ [fss EXCEPT ![t] = fs] \in [Threads -> Seq(QemuContexts) \cup {None}]
         /\ QSaved([fss EXCEPT ![t] = fs], q, m)
<1> SUFFICES ASSUME NEW u \in Threads \ {t}, fss[u] # None PROVE StackGood(fss[u], u, q, m)
  BY DEF QSaved
<1>1. StackGood(fss[u], u, p, m) /\ fss[u] \in Seq(QemuContexts)
  BY DEF QSaved
<1> QED
  BY <1>1, SameStack

LEMMA TrapControl == ASSUME Control, Trap_qemu PROVE Control'
<1> DEFINE t == at.th
           tf == Context_qemu(at, None, None)
           fs == IF at.pc = "user" THEN <<tf>> ELSE Append(frames[t], tf)
           q == Place(t, "gate", t, at.masked)
<1>1. QTypes /\ QSaved(frames, at, mem) /\ QLive(frames, live) /\ QAt(at, cpu, frames, mem)
  BY DEF Control
<1>2. (IF at.pc = "user" THEN cpu.rsp0 ELSE at.stk) = t
  BY <1>1 DEF QAt, Its
<1>3. frames' = [frames EXCEPT ![t] = fs] /\ at' = q /\ UNCHANGED <<mem, live, cpu>>
  BY <1>2 DEF Trap_qemu
<1>4. t \in Threads /\ at \in QemuPlaces /\ frames[t] \in Seq(QemuContexts) /\ frames[t] # None
  BY <1>1 DEF QTypes, QAt, QemuPlaces
<1>5. tf \in QemuContexts /\ tf.uc = at /\ q \in QemuPlaces /\ q.pc = "gate" /\ q.stk = t /\ q.th = t
  BY <1>4 DEF Context_qemu, QemuContexts, QemuPlaces, Place
<1> HIDE DEF tf, q
<1>6. fs \in Seq(QemuContexts) /\ fs # <<>> /\ fs # None /\ StackGood(fs, t, q, mem)
  <2>1. CASE at.pc = "user"
    <3>1. fs = <<tf>> /\ Len(fs) = 1 /\ fs[1] = tf /\ fs \in Seq(QemuContexts) /\ fs # <<>>
      BY <2>1, <1>5
    <3> HIDE DEF fs
    <3>2. Good(fs, 1, t, q, mem)
      BY <2>1, <3>1, <1>1, <1>5 DEF Good, Filled, QAt
    <3>3. StackGood(fs, t, q, mem)
      BY <3>1, <3>2 DEF StackGood
    <3> QED
      BY <3>1, <3>3, AnyStack
  <2>2. CASE at.pc # "user"
    <3>1. at.stk = t /\ (at.pc = "gate" => frames[t] # <<>>) /\ StackGood(frames[t], t, at, mem)
      BY <2>2, <1>1, <1>4 DEF QAt, QSaved
    <3>2. Append(frames[t], tf) \in Seq(QemuContexts) /\ Append(frames[t], tf) # <<>>
      BY <1>4, <1>5
    <3>3. StackGood(Append(frames[t], tf), t, q, mem)
      BY <2>2, <3>1, <1>4, <1>5, PushGood
    <3> QED
      BY <2>2, <3>2, <3>3, AnyStack
  <2> QED
    BY <2>1, <2>2
<1> HIDE DEF fs
<1>7. frames[t] # None => \A u \in Threads \ {t} : (at.pc = "gate" /\ at.stk = u) <=> (q.pc = "gate" /\ q.stk = u)
  BY <1>1, <1>5 DEF QAt
<1>8. frames' \in [Threads -> Seq(QemuContexts) \cup {None}] /\ QSaved(frames', at', mem')
  BY <1>1, <1>3, <1>4, <1>6, <1>7, OneStack DEF QTypes
<1>9. frames'[t] = fs /\ \A u \in Threads \ {t} : frames'[u] = frames[u]
  BY <1>1, <1>3, <1>4 DEF QTypes
<1>10. QLive(frames', live')
  BY <1>1, <1>3, <1>4, <1>9 DEF QLive, Threads
<1>11. Chain(fs, Len(fs)) => Its(mem, t, cpu.cr3, cpu.rsp0)
  <2>1. CASE at.pc = "user"
    BY <2>1, <1>1 DEF QAt
  <2>2. CASE at.pc # "user"
    <3> DEFINE l == Len(frames[t])
    <3>1. fs = Append(frames[t], tf) /\ Len(fs) = l + 1 /\ fs[l+1] = tf /\ l \in Nat /\ \A i \in 1..l : fs[i] = frames[t][i]
      BY <2>2, <1>4, <1>5, Longer DEF fs
    <3>2. SUFFICES ASSUME Chain(fs, Len(fs)) PROVE Its(mem, t, cpu.cr3, cpu.rsp0)
      OBVIOUS
    <3>3. l >= 1
      BY <2>2, <3>1, <3>2, <1>5 DEF Chain
    <3>4. at.pc = "gate"
      BY <3>1, <3>2, <3>3, <1>5 DEF Chain
    <3>5. Chain(frames[t], l)
      BY <3>1, <3>2, <3>3 DEF Chain
    <3> QED
      BY <3>4, <3>5, <1>1 DEF QAt
  <2> QED
    BY <2>1, <2>2
<1>12. QAt(at', cpu', frames', mem')
  BY <1>3, <1>5, <1>6, <1>9, <1>11 DEF QAt
<1>13. QTypes'
  BY <1>1, <1>3, <1>5, <1>8 DEF QTypes
<1> QED
  BY <1>8, <1>10, <1>12, <1>13 DEF Control

LEMMA FillControl == ASSUME Control, am_irq_handle PROVE Control'
<1> DEFINE t == at.th
           l == Len(frames[t])
           c == Context_qemu(frames[t][l].uc, cpu.cr3, cpu.rsp0)
           fs == [frames[t] EXCEPT ![l] = c]
           q == Place(t, "os", t, TRUE)
<1>1. QTypes /\ QSaved(frames, at, mem) /\ QLive(frames, live) /\ QAt(at, cpu, frames, mem) /\ at.pc = "gate"
  BY DEF Control, am_irq_handle
<1>2. at.stk = t /\ t \in Threads /\ frames[t] \in Seq(QemuContexts) /\ frames[t] # None /\ frames[t] # <<>>
  BY <1>1 DEF QTypes, QAt, QemuPlaces
<1>3. l \in Nat /\ l >= 1 /\ \A i \in 1..l : frames[t][i] \in QemuContexts
  BY <1>2
<1>4. frames' = [frames EXCEPT ![t] = fs] /\ at' = q /\ UNCHANGED <<mem, live, cpu>>
  <2>1. frames' = [frames EXCEPT ![t][l] = c]
    BY <1>2, Zenon DEF am_irq_handle, Context_qemu
  <2> QED
    BY <1>2, <2>1 DEF am_irq_handle
<1>5. c \in QemuContexts /\ c.uc = frames[t][l].uc /\ c.cr3 = cpu.cr3 /\ c.rsp0 = cpu.rsp0
  BY <1>1, <1>3 DEF Context_qemu, QemuContexts, QTypes
<1>6. q \in QemuPlaces /\ q.pc = "os" /\ q.stk = t /\ q.th = t
  BY <1>2 DEF QemuPlaces, Place
<1> HIDE DEF c, q
<1>7. /\ fs \in Seq(QemuContexts) /\ Len(fs) = l /\ fs[l] = c /\ fs # <<>> /\ fs # None
      /\ \A i \in 1..l : i # l => fs[i] = frames[t][i]
  BY <1>2, <1>3, <1>5, AnyStack
<1> HIDE DEF fs
<1>8. \A i \in 1..l : fs[i].uc = frames[t][i].uc
  BY <1>5, <1>7
<1>9. StackGood(fs, t, q, mem)
  <2> SUFFICES ASSUME NEW i \in 1..l PROVE Good(fs, i, t, q, mem)
    BY <1>7 DEF StackGood
  <2>1. Good(frames[t], i, t, at, mem) /\ fs[i].uc = frames[t][i].uc
    BY <1>1, <1>2, <1>8 DEF QSaved, StackGood
  <2>2. Chain(fs, i) <=> Chain(frames[t], i)
    BY <1>3, <1>8 DEF Chain
  <2>3. CASE i = l
    <3>1. Chain(fs, i) => Its(mem, t, fs[i].cr3, fs[i].rsp0)
      BY <2>2, <2>3, <1>1, <1>5, <1>7 DEF QAt
    <3> QED
      BY <2>1, <3>1 DEF Good
  <2>4. CASE i # l
    <3>1. fs[i] = frames[t][i] /\ i + 1 \in 1..l /\ i < l
      BY <2>4, <1>3, <1>7
    <3>2. Filled(fs, i, t, q) => Filled(frames[t], i, t, at)
      BY <3>1, <1>7, <1>8 DEF Filled
    <3> QED
      BY <2>1, <2>2, <3>1, <3>2 DEF Good
  <2> QED
    BY <2>3, <2>4
<1>10. \A u \in Threads \ {t} : (at.pc = "gate" /\ at.stk = u) <=> (q.pc = "gate" /\ q.stk = u)
  BY <1>2, <1>6
<1>11. frames' \in [Threads -> Seq(QemuContexts) \cup {None}] /\ QSaved(frames', at', mem')
  BY <1>1, <1>2, <1>4, <1>7, <1>9, <1>10, OneStack DEF QTypes
<1>12. frames'[t] = fs /\ \A u \in Threads \ {t} : frames'[u] = frames[u]
  BY <1>1, <1>2, <1>4 DEF QTypes
<1>13. QLive(frames', live')
  BY <1>1, <1>2, <1>4, <1>12 DEF QLive, Threads
<1>14. QAt(at', cpu', frames', mem')
  BY <1>4, <1>6, <1>7, <1>12 DEF QAt
<1>15. QTypes'
  BY <1>1, <1>4, <1>6, <1>11 DEF QTypes
<1> QED
  BY <1>11, <1>13, <1>14, <1>15 DEF Control

LEMMA LiveRoots == ASSUME Tree PROVE \A a \in live : RootOf(mem, a) \in Frames
BY DEF Tree, Forest, SpaceUp

LEMMA IretControl == ASSUME Control, Tree, NEW t \in Threads, am_iret(t) PROVE Control'
<1> DEFINE l == Len(frames[t])
           c == frames[t][l]
           fs == SubSeq(frames[t], 1, l - 1)
           q == c.uc
<1>1. QTypes /\ QSaved(frames, at, mem) /\ QLive(frames, live) /\ QAt(at, cpu, frames, mem) /\ at.pc = "os"
  BY DEF Control, am_iret
<1>2. frames[t] \in Seq(QemuContexts) /\ frames[t] # None /\ frames[t] # <<>>
  BY <1>1 DEF QTypes, am_iret
<1>3. l \in Nat /\ l >= 1 /\ c \in QemuContexts /\ l \in 1..l
  BY <1>2
<1>4. cpu' = Loaded(c) /\ at' = q /\ frames' = [frames EXCEPT ![t] = fs] /\ UNCHANGED <<mem, live>>
  BY <1>2 DEF am_iret, LastFrame
<1>5. q \in QemuPlaces
  BY <1>3 DEF QemuContexts
<1>6. /\ fs \in Seq(QemuContexts) /\ Len(fs) = l - 1 /\ (\A i \in 1..l-1 : fs[i] = frames[t][i]) /\ fs # None
      /\ l = 1 => fs = <<>>
  BY <1>2, Shorter, AnyStack
<1>7. StackGood(frames[t], t, at, mem)
  BY <1>1, <1>2 DEF QSaved
<1>8. StackGood(fs, t, q, mem)
  BY <1>2, <1>7, PopGood
<1>9. Good(frames[t], l, t, at, mem) /\ Filled(frames[t], l, t, at)
  BY <1>1, <1>3, <1>7 DEF StackGood, Filled
<1>10. q.th = t /\ (q.pc # "user" => q.stk = t)
  BY <1>9 DEF Good
<1>11. q.pc = "user" => t \in Users /\ l = 1 /\ fs = <<>>
  BY <1>6, <1>9 DEF Good
<1>12. q.pc = "gate" => fs # <<>>
  <2>1. q.pc = "gate" => l >= 2
    BY <1>9 DEF Good
  <2>2. Len(fs) = l - 1
    BY <1>6
  <2> HIDE DEF q, fs, l
  <2> QED
    BY <2>1, <2>2, <1>3
<1>13. q.pc = "user" => Chain(frames[t], l)
  BY <1>11 DEF Chain
<1>14. q.pc = "gate" /\ Chain(fs, l - 1) => Chain(frames[t], l)
  <2> SUFFICES ASSUME q.pc = "gate", Chain(fs, l - 1) PROVE Chain(frames[t], l)
    OBVIOUS
  <2>1. l >= 2
    BY <1>9 DEF Good
  <2>2. \A i \in 1..l-1 : fs[i] = frames[t][i]
    BY <1>6
  <2> HIDE DEF fs
  <2>3. frames[t][1].uc.pc = "user"
    BY <2>1, <2>2, <1>3 DEF Chain
  <2>4. \A j \in 2..l : frames[t][j].uc.pc = "gate"
    BY <2>1, <2>2, <1>3 DEF Chain
  <2> QED
    BY <2>3, <2>4 DEF Chain
<1>15. Chain(frames[t], l) => Its(mem, t, cpu'.cr3, cpu'.rsp0)
  <2> SUFFICES ASSUME Chain(frames[t], l) PROVE Its(mem, t, cpu'.cr3, cpu'.rsp0)
    OBVIOUS
  <2>1. Its(mem, t, c.cr3, c.rsp0)
    BY <1>9 DEF Good
  <2>2. t \in Users
    <3>1. Good(frames[t], 1, t, at, mem)
      BY <1>3, <1>7 DEF StackGood
    <3> QED
      BY <3>1 DEF Chain, Good
  <2>3. RootOf(mem, SpaceOf[t]) \in Frames
    BY <2>2, <1>1, <1>2, LiveRoots DEF QLive
  <2>4. c.cr3 # None
    BY <2>1, <2>3, QemuVmeAssumption DEF Its
  <2> HIDE DEF c
  <2> QED
    BY <2>1, <2>4, <1>4 DEF Loaded, Its
<1>16. cpu' \in [cr3 : Frames \cup {None}, rsp0 : Threads \cup {None}]
  <2>1. c.cr3 \in Frames \cup {None} /\ c.rsp0 \in Threads \cup {None}
    BY <1>3 DEF QemuContexts
  <2> HIDE DEF c
  <2> QED
    BY <2>1, <1>1, <1>4 DEF Loaded, QTypes
<1> HIDE DEF q, fs, c, l
<1>17. \A u \in Threads \ {t} : (at.pc = "gate" /\ at.stk = u) <=> (q.pc = "gate" /\ q.stk = u)
  BY <1>1, <1>10
<1>18. frames' \in [Threads -> Seq(QemuContexts) \cup {None}] /\ QSaved(frames', at', mem')
  BY <1>1, <1>4, <1>6, <1>8, <1>17, OneStack DEF QTypes
<1>19. frames'[t] = fs /\ \A u \in Threads \ {t} : frames'[u] = frames[u]
  BY <1>1, <1>4 DEF QTypes
<1>20. QLive(frames', live')
  BY <1>1, <1>2, <1>4, <1>19 DEF QLive, Threads
<1>21. QAt(at', cpu', frames', mem')
  BY <1>4, <1>6, <1>10, <1>11, <1>12, <1>13, <1>14, <1>15, <1>19 DEF QAt
<1>22. QTypes'
  BY <1>4, <1>5, <1>16, <1>18 DEF QTypes
<1> QED
  BY <1>18, <1>20, <1>21, <1>22 DEF Control

(* The kernel's own steps leave the processor in the kernel, the contexts    *)
(* where they are and the page tables of the threads with contexts in place. *)
LEMMA KernelControl ==
  ASSUME Control, InKernel_qemu, SameRoots, frames' = frames, QLive(frames, live)', QTypes',
         at'.th = at.th, at'.pc = at.pc, at'.stk = at.stk
  PROVE  Control'
<1>1. QTypes /\ QSaved(frames, at, mem) /\ QLive(frames, live) /\ QAt(at, cpu, frames, mem)
  BY DEF Control
<1>2. at.pc \notin {"user", "gate"}
  BY DEF InKernel_qemu
<1>3. ASSUME NEW u \in Threads, frames[u] # None PROVE StackGood(frames[u], u, at', mem')
  <2>1. StackGood(frames[u], u, at, mem) /\ frames[u] \in Seq(QemuContexts)
    BY <1>1, <1>3 DEF QSaved, QTypes
  <2>2. u \in Users => RootOf(mem', SpaceOf[u]) = RootOf(mem, SpaceOf[u])
    BY <1>1, <1>3 DEF QLive, SameRoots, Root, RootOf
  <2> QED
    BY <2>1, <2>2, SameStack
<1>4. QSaved(frames', at', mem')
  BY <1>3 DEF QSaved
<1>5. QAt(at', cpu', frames', mem')
  BY <1>1, <1>2 DEF QAt
<1> QED
  BY <1>4, <1>5 DEF Control

LEMMA ControlKept == ASSUME Levels = 2, Control, Tree, [QemuNext]_qemuVars PROVE Control'
<1>0. QTypes /\ QSaved(frames, at, mem) /\ QLive(frames, live) /\ QAt(at, cpu, frames, mem)
  BY DEF Control
<1>1. Tree' /\ SameRoots
  BY TreeKept
<1>2. CASE Interrupt_qemu \/ yield_qemu \/ SyscallOrFault
  BY <1>2, TrapControl DEF Interrupt_qemu, yield_qemu, SyscallOrFault
<1>3. CASE am_irq_handle
  BY <1>3, FillControl
<1>4. ASSUME NEW t \in Threads, am_iret(t) PROVE Control'
  BY <1>4, IretControl
<1>5. CASE vme_init_qemu
  <2>1. live' = live /\ frames' = frames /\ at' = at /\ InKernel_qemu /\ cpu' = [cpu EXCEPT !.cr3 = kpt(mem')]
    BY <1>5 DEF vme_init_qemu
  <2>2. kpt(mem') \in Frames
    BY <1>5, InitForest DEF Forest, KernelUp
  <2>3. QTypes'
    BY <1>0, <2>1, <2>2 DEF QTypes
  <2>4. QLive(frames, live)'
    BY <1>0, <2>1
  <2> QED
    BY <1>1, <2>1, <2>3, <2>4, KernelControl
<1>6. ASSUME NEW a \in Spaces, protect_qemu(a) PROVE Control'
  <2>1. live' = live \cup {a} /\ frames' = frames /\ at' = at /\ cpu' = cpu /\ InKernel_qemu
    BY <1>6 DEF protect_qemu
  <2>2. QTypes' /\ QLive(frames, live)'
    BY <1>0, <2>1 DEF QTypes, QLive
  <2> QED
    BY <1>1, <2>1, <2>2, KernelControl
<1>7. ASSUME NEW a \in Spaces, unprotect(a) PROVE Control'
  <2>1. /\ live' = live \ {a} /\ frames' = frames /\ at' = at /\ cpu' = cpu /\ InKernel_qemu
        /\ \A t \in Users : SpaceOf[t] = a => frames[t] = None
    BY <1>7 DEF unprotect
  <2>2. QTypes' /\ QLive(frames, live)'
    BY <1>0, <2>1 DEF QTypes, QLive
  <2> QED
    BY <1>1, <2>1, <2>2, KernelControl
<1>8. ASSUME NEW w \in QemuWanted, map_qemu(w[1], w[2], w[3]) PROVE Control'
  <2>1. live' = live /\ frames' = frames /\ at' = at /\ cpu' = cpu /\ InKernel_qemu
    BY <1>8 DEF map_qemu
  <2>2. QTypes' /\ QLive(frames, live)'
    BY <1>0, <2>1 DEF QTypes
  <2> QED
    BY <1>1, <2>1, <2>2, KernelControl
<1>9. ASSUME NEW enable \in BOOLEAN, iset_qemu(enable) PROVE Control'
  <2>1. live' = live /\ frames' = frames /\ at' = [at EXCEPT !.masked = ~enable] /\ cpu' = cpu /\ InKernel_qemu
    BY <1>9 DEF iset_qemu
  <2>2. at' \in QemuPlaces /\ at'.th = at.th /\ at'.pc = at.pc /\ at'.stk = at.stk
    BY <1>0, <2>1 DEF QTypes, QemuPlaces
  <2>3. QTypes' /\ QLive(frames, live)'
    BY <1>0, <2>1, <2>2 DEF QTypes
  <2> QED
    BY <1>1, <2>1, <2>2, <2>3, KernelControl
<1>10. ASSUME NEW t \in Threads, CreateKernel_qemu(t) \/ CreateUser_qemu(t) PROVE Control'
  <2>1. PICK c : /\ Create_qemu(t, c)
                 /\ \/ t \in Kernels /\ c = kcontext_qemu(t)
                    \/ t \in Users /\ SpaceOf[t] \in live /\ c = ucontext_qemu(t)
    BY <1>10 DEF CreateKernel_qemu, CreateUser_qemu
  <2>2. /\ frames' = [frames EXCEPT ![t] = <<c>>] /\ UNCHANGED <<mem, live, cpu, at>>
        /\ frames[t] = None /\ at.pc \notin {"user", "gate"}
    BY <2>1 DEF Create_qemu, InKernel_qemu
  <2>3. /\ c \in QemuContexts /\ c.uc.th = t
        /\ IF c.uc.pc = "user" THEN t \in Users /\ Its(mem, t, c.cr3, c.rsp0) ELSE c.uc.stk = t
        /\ c.uc.pc # "gate"
    <3>1. CASE c = kcontext_qemu(t)
      BY <3>1 DEF kcontext_qemu, Context_qemu, Place, QemuContexts, QemuPlaces
    <3>2. CASE t \in Users /\ SpaceOf[t] \in live /\ c = ucontext_qemu(t)
      <4>1. RootOf(mem, SpaceOf[t]) \in Frames
        BY <3>2, LiveRoots
      <4> QED
        BY <3>2, <4>1 DEF ucontext_qemu, Context_qemu, Place, QemuContexts, QemuPlaces, Its, Root, RootOf
    <3> QED
      BY <2>1, <3>1, <3>2
  <2>4. <<c>> \in Seq(QemuContexts) /\ Len(<<c>>) = 1 /\ <<c>>[1] = c /\ <<c>> # None
    <3>1. <<c>> \in Seq(QemuContexts) /\ Len(<<c>>) = 1 /\ <<c>>[1] = c
      BY <2>3
    <3> QED
      BY <3>1, AnyStack
  <2>5. StackGood(<<c>>, t, at, mem)
    <3>1. Good(<<c>>, 1, t, at, mem)
      BY <2>3, <2>4 DEF Good, Chain
    <3> QED
      BY <2>4, <3>1 DEF StackGood
  <2> DEFINE fs == <<c>>
  <2> HIDE DEF fs
  <2>6. frames' = [frames EXCEPT ![t] = fs] /\ fs \in Seq(QemuContexts) /\ StackGood(fs, t, at, mem) /\ fs # None
    BY <2>2, <2>4, <2>5 DEF fs
  <2>7. frames' \in [Threads -> Seq(QemuContexts) \cup {None}] /\ QSaved(frames', at', mem')
    <3>1. /\ [frames EXCEPT ![t] = fs] \in [Threads -> Seq(QemuContexts) \cup {None}]
          /\ QSaved([frames EXCEPT ![t] = fs], at, mem)
      BY <1>0, <2>6, OneStack DEF QTypes
    <3> QED
      BY <3>1, <2>2, <2>6
  <2>8. \A u \in Threads \ {t} : frames'[u] = frames[u]
    BY <1>0, <2>6 DEF QTypes
  <2>9. QLive(frames', live')
    BY <1>0, <2>1, <2>2, <2>8, ThreadsAssumption DEF QLive, Threads
  <2>10. QAt(at', cpu', frames', mem')
    <3>1. at.th \in Threads \ {t}
      BY <1>0, <2>2 DEF QAt, QTypes, QemuPlaces
    <3> QED
      BY <1>0, <2>2, <2>8, <3>1 DEF QAt
  <2>11. QTypes'
    BY <1>0, <2>2, <2>7 DEF QTypes
  <2> QED
    BY <2>7, <2>9, <2>10, <2>11 DEF Control
<1>11. ASSUME NEW t \in Threads, Discard(t) PROVE Control'
  <2>1. /\ frames' = [frames EXCEPT ![t] = None] /\ UNCHANGED <<mem, live, cpu, at>> /\ at.th # t
        /\ at.pc \notin {"user", "gate"}
    BY <1>11 DEF Discard, InKernel_qemu
  <2>2. frames'[t] = None /\ \A u \in Threads \ {t} : frames'[u] = frames[u]
    BY <1>0, <2>1 DEF QTypes
  <2>3. QTypes'
    BY <1>0, <2>1 DEF QTypes
  <2>4. QSaved(frames', at', mem') /\ QLive(frames', live')
    BY <1>0, <2>1, <2>2 DEF QSaved, QLive, Threads
  <2>5. QAt(at', cpu', frames', mem')
    <3>1. at.th \in Threads \ {t}
      BY <1>0, <2>1 DEF QTypes, QemuPlaces
    <3> QED
      BY <1>0, <2>1, <2>2, <3>1 DEF QAt
  <2> QED
    BY <2>3, <2>4, <2>5 DEF Control
<1>12. CASE UNCHANGED qemuVars
  BY <1>0, <1>12 DEF qemuVars, Control, QTypes
<1> QED
  BY <1>2, <1>3, <1>4, <1>5, <1>6, <1>7, <1>8, <1>9, <1>10, <1>11, <1>12 DEF QemuNext

(* With the two levels of 32 bits, for any threads, spaces, frames, indices  *)
(* and depth of nesting: pgalloc's pages are tables of the kernel or of one  *)
(* live space, teardown gives back exactly a space's own, and user code runs *)
(* on the live table of its space with its empty kernel stack at rsp0.       *)
THEOREM SpacesOwnedHolds == ASSUME Levels = 2 PROVE QemuSpec => []SpacesOwned
<1>1. QemuInit => Tree /\ Control
  <2>1. QemuInit => Tree
    BY DEF QemuInit, Tree, Paging, Mems, Tables
  <2> QED
    BY <2>1, ControlStarts
<1>2. Tree /\ Control /\ [QemuNext]_qemuVars => (Tree /\ Control)'
  BY TreeKept, ControlKept
<1>3. Tree /\ Control => SpacesOwned
  <2> SUFFICES ASSUME Tree, Control PROVE SpacesOwned
    OBVIOUS
  <2>1. TablesOwned
    BY TreeOwned
  <2>2. UserOwnsTables
    BY DEF Control, QAt, QLive, Its, UserOwnsTables, Root, RootOf
  <2> QED
    BY <2>1, <2>2 DEF SpacesOwned
<1> QED
  BY <1>1, <1>2, <1>3, PTL DEF QemuSpec

-----------------------------------------------------------------------------
(* The start of the processors of the x86-qemu port.                         *)
Places == {"off", "boot", "main", "next", "wait", "setup", "ready", "entry", "stop", "print", "spin"}
SmpTypes ==
  /\ pc \in [Procs -> Places]
  /\ boot_record \in [jmp_code : {"loader", "spin"}, is_ap : 0..1]
  /\ ap_ready \in 0..1 /\ next \in 0..Nprocs
  /\ victim \in [Procs -> Nat]
  /\ ipis \subseteq Procs /\ percpu \subseteq Procs

\* A processor that is on its way from INIT to the end of its set-up.
Starting(c) == \/ pc[c] \in {"boot", "setup", "ready"}
               \/ c \in ipis /\ boot_record.jmp_code = "loader"
\* Before mpe_init the first processor is alone.
Alone0 == pc[0] \in {"boot", "main"} =>
            /\ ipis = {} /\ ap_ready = 0 /\ percpu \subseteq {0}
            /\ \A c \in Others : pc[c] = "off"
            /\ pc[0] = "boot" => boot_record.is_ap = 0
            /\ pc[0] = "main" => 0 \in percpu
\* Afterwards only the one that mpe_init waits for is starting.
OneStarts == \A c \in Others : Starting(c) =>
               c = next /\ ap_ready = 0 /\ boot_record.is_ap = 1 /\ pc[0] \in {"wait", "spin"}
SentOnce == \A c \in Others : c \in ipis /\ boot_record.jmp_code = "loader" =>
               pc[c] \notin {"boot", "setup", "ready"}
ReadyIsNext == ap_ready = 1 => pc[0] \in {"wait", "spin"} /\ next \in percpu
Counted == /\ pc[0] \in {"next", "wait"} => next >= 1 /\ \A c \in Procs : c < next => c \in percpu
           /\ pc[0] = "wait" => next < Nprocs
           /\ pc[0] = "entry" => percpu = Procs
SetUpDone == \A c \in Others : pc[c] \in {"ready", "entry"} => c \in percpu
FirstNeverStarts == pc[0] \notin {"off", "setup", "ready"} /\ (0 \in ipis => boot_record.jmp_code = "spin")
OthersStayOut == \A c \in Others : pc[c] \notin {"main", "next", "wait"}
HaltSpins == \A c \in Procs : pc[c] \in {"stop", "print"} => boot_record.jmp_code = "spin"

StartInv == SmpTypes /\ Alone0 /\ OneStarts /\ SentOnce /\ ReadyIsNext /\ Counted /\ SetUpDone
            /\ FirstNeverStarts /\ OthersStayOut /\ HaltSpins

LEMMA FirstIsAProc == 0 \in Procs /\ Procs \subseteq Nat /\ Nprocs \in Nat /\ Nprocs >= 1
BY NprocsAssumption DEF Procs

LEMMA StartsAlone == SmpInit => StartInv
BY FirstIsAProc DEF SmpInit, StartInv, SmpTypes, Places, Alone0, OneStarts, SentOnce, Starting, ReadyIsNext,
   Counted, SetUpDone, FirstNeverStarts, OthersStayOut, HaltSpins, Others

(* Each step keeps StartInv. *)
LEMMA StartKept == StartInv /\ [SmpNext]_smpVars => StartInv'
<1> SUFFICES ASSUME StartInv, [SmpNext]_smpVars PROVE StartInv'
  OBVIOUS
<1> USE FirstIsAProc DEF StartInv, SmpTypes, Places, Alone0, OneStarts, SentOnce, Starting, ReadyIsNext,
   Counted, SetUpDone, FirstNeverStarts, OthersStayOut, HaltSpins, Others, Go
<1>1. CASE mpe_init_qemu
  BY <1>1 DEF mpe_init_qemu
<1>2. CASE BootAp
  <2>1. CASE next < Nprocs
    <3>1. next \in Others /\ next \in Procs
      BY <1>2, <2>1 DEF BootAp, Procs
    <3> QED
      BY <1>2, <2>1, <3>1 DEF BootAp
  <2>2. CASE ~(next < Nprocs)
    <3>1. next = Nprocs /\ pc[0] = "next"
      BY <1>2, <2>2 DEF BootAp
    <3>2. \A c \in Procs : c < next
      BY <3>1 DEF Procs
    <3>3. percpu = Procs
      BY <3>1, <3>2
    <3> QED
      BY <1>2, <2>2, <3>3 DEF BootAp
  <2> QED
    BY <2>1, <2>2
<1>3. CASE WaitAp
  BY <1>3 DEF WaitAp, ApIsReady
<1>4. ASSUME NEW c \in Procs, _start_c(c) PROVE StartInv'
  <2>1. CASE c = 0
    <3>1. /\ ipis = {} /\ ap_ready = 0 /\ boot_record.is_ap = 0
          /\ \A d \in Others : pc[d] = "off"
      BY <1>4, <2>1 DEF _start_c
    <3>2. /\ pc' = [pc EXCEPT ![0] = "main"] /\ percpu' = percpu \cup {0} /\ percpu \subseteq {0}
          /\ UNCHANGED <<boot_record, ap_ready, next, victim, ipis, power>>
      BY <1>4, <2>1, <3>1 DEF _start_c
    <3>3. SmpTypes' /\ pc'[0] = "main" /\ \A d \in Others : pc'[d] = "off"
      BY <3>1, <3>2
    <3> QED
      BY <3>1, <3>2, <3>3
  <2>2. CASE c # 0
    <3>1. c \in Others /\ c = next /\ ap_ready = 0 /\ boot_record.is_ap = 1 /\ pc[0] \in {"wait", "spin"}
      BY <1>4, <2>2 DEF _start_c
    <3>2. /\ pc' = [pc EXCEPT ![c] = "setup"]
          /\ UNCHANGED <<percpu, boot_record, ap_ready, next, victim, ipis, power>>
      BY <1>4, <3>1 DEF _start_c
    <3>3. /\ SmpTypes' /\ pc'[0] = pc[0] /\ \A d \in Procs \ {c} : pc'[d] = pc[d]
          /\ pc[c] = "boot" /\ pc'[c] = "setup"
      BY <1>4, <2>2, <3>2 DEF _start_c
    <3>4. Alone0' /\ ReadyIsNext' /\ Counted'
      BY <3>1, <3>2, <3>3
    <3>5. OneStarts' /\ SentOnce'
      BY <3>1, <3>2, <3>3
    <3>6. SetUpDone' /\ FirstNeverStarts' /\ OthersStayOut' /\ HaltSpins'
      BY <3>1, <3>2, <3>3
    <3> QED
      BY <3>3, <3>4, <3>5, <3>6
  <2> QED
    BY <2>1, <2>2
<1>5. ASSUME NEW c \in Procs, Restart(c) PROVE StartInv'
  BY <1>5 DEF Restart
<1>6. ASSUME NEW c \in Procs, am_percpu_init(c) PROVE StartInv'
  BY <1>6 DEF am_percpu_init
<1>7. ASSUME NEW c \in Procs, othercpu_entry(c) PROVE StartInv'
  <2>1. c \in Others /\ c = next /\ c \in percpu /\ pc[0] \in {"wait", "spin"}
    BY <1>7 DEF othercpu_entry
  <2>2. /\ ap_ready' = 1 /\ pc' = [pc EXCEPT ![c] = "entry"]
        /\ UNCHANGED <<boot_record, next, victim, ipis, percpu, power>>
    BY <1>7 DEF othercpu_entry
  <2>3. SmpTypes' /\ pc'[0] = pc[0] /\ pc'[c] = "entry" /\ \A d \in Procs \ {c} : pc'[d] = pc[d]
    BY <2>1, <2>2
  <2>4. \A d \in Others : ~Starting(d)'
    BY <2>1, <2>2, <2>3, <1>7 DEF othercpu_entry
  <2>5. Alone0' /\ OneStarts' /\ SentOnce' /\ ReadyIsNext'
    BY <2>1, <2>2, <2>3, <2>4
  <2>6. Counted' /\ FirstNeverStarts'
    BY <2>1, <2>2, <2>3
  <2>7. SetUpDone' /\ OthersStayOut' /\ HaltSpins'
    BY <2>1, <2>2, <2>3
  <2> QED
    BY <2>3, <2>5, <2>6, <2>7
<1>8. ASSUME NEW c \in Procs, halt(c) PROVE StartInv'
  <2>1. /\ boot_record' = [boot_record EXCEPT !.jmp_code = "spin"]
        /\ victim' = [victim EXCEPT ![c] = 0] /\ pc' = [pc EXCEPT ![c] = "stop"]
        /\ UNCHANGED <<ap_ready, next, ipis, percpu, power>> /\ pc[c] \in {"main", "entry"}
    BY <1>8 DEF halt
  <2>2. /\ SmpTypes' /\ pc'[c] = "stop" /\ \A d \in Procs \ {c} : pc'[d] = pc[d]
        /\ boot_record'.jmp_code = "spin" /\ boot_record'.is_ap = boot_record.is_ap
    BY <2>1
  <2>3. Alone0' /\ ReadyIsNext' /\ Counted'
    BY <2>1, <2>2
  <2>4. OneStarts' /\ SentOnce'
    BY <2>1, <2>2
  <2>5. SetUpDone' /\ FirstNeverStarts' /\ OthersStayOut' /\ HaltSpins'
    BY <2>1, <2>2
  <2> QED
    BY <2>2, <2>3, <2>4, <2>5
<1>9. ASSUME NEW c \in Procs, am_stop_the_world(c) PROVE StartInv'
  <2> DEFINE v == victim[c]
  <2>1. /\ boot_record.jmp_code = "spin" /\ pc[c] = "stop"
        /\ UNCHANGED <<boot_record, ap_ready, next, percpu, power>>
    BY <1>9 DEF am_stop_the_world
  <2>2. CASE v < Nprocs
    <3>1. /\ victim' = [victim EXCEPT ![c] = v + 1] /\ v \in Procs /\ pc' = pc
          /\ ipis' = ipis \/ ipis' = ipis \cup {v}
      BY <1>9, <2>2 DEF am_stop_the_world, Procs
    <3>2. pc[0] \notin {"boot", "main"}
      BY <2>1
    <3>3. SmpTypes' /\ FirstNeverStarts'
      <4>1. v + 1 \in Nat /\ v \in Procs
        BY <3>1
      <4>2. ipis' \subseteq Procs
        BY <3>1, <4>1
      <4> HIDE DEF v
      <4>3. victim' \in [Procs -> Nat]
        BY <3>1, <4>1
      <4> QED
        BY <2>1, <3>1, <4>2, <4>3
    <3>4. Alone0' /\ OneStarts' /\ SentOnce' /\ ReadyIsNext'
      BY <2>1, <3>1, <3>2
    <3>5. Counted' /\ SetUpDone' /\ OthersStayOut' /\ HaltSpins'
      BY <2>1, <3>1
    <3> QED
      BY <3>3, <3>4, <3>5
  <2>3. CASE ~(v < Nprocs)
    <3>1. pc' = [pc EXCEPT ![c] = "print"] /\ UNCHANGED <<victim, ipis>>
      BY <1>9, <2>3 DEF am_stop_the_world
    <3>2. /\ SmpTypes' /\ pc'[c] = "print" /\ \A d \in Procs \ {c} : pc'[d] = pc[d]
      BY <2>1, <3>1
    <3> QED
      BY <2>1, <3>1, <3>2
  <2> QED
    BY <2>2, <2>3
<1>10. ASSUME NEW c \in Procs, PowerOff(c) PROVE StartInv'
  BY <1>10 DEF PowerOff
<1>11. CASE UNCHANGED smpVars
  BY <1>11 DEF smpVars
<1> QED
  BY <1>1, <1>2, <1>3, <1>4, <1>5, <1>6, <1>7, <1>8, <1>9, <1>10, <1>11 DEF SmpNext, Step

(* One processor at a time is on the boot stack, and user code is entered  *)
(* only after the set-up, whatever processor halts when (mpe.c:12-30).     *)
THEOREM StartsInOrderHolds == QemuMpeSpec => []StartsInOrder
<1>1. StartInv => StartsInOrder
  BY FirstIsAProc DEF StartInv, SmpTypes, Alone0, OneStarts, Starting, Counted, SetUpDone, StartsInOrder, Others
<1> QED
  BY StartsAlone, StartKept, <1>1, PTL DEF QemuMpeSpec

(***************************************************************************)
(* The console of the spike port.  A live machine is one of two: on rv64   *)
(* at most one read command is anywhere between hart and host (OneRead),   *)
(* so no key meets another in fromhost or in the buffer; on rv32 at most   *)
(* one system call, so its answer is the one WaitReply expects.            *)
(***************************************************************************)
KeyWord(c) == Word(1, 0, c)
KeyWords == {KeyWord(c) : c \in Chars}
ReadKey == Word(1, 0, 0)
CharWords == {Word(1, 1, c) : c \in Chars}
CallWords == {Word(0, 0, c) : c \in Chars}
CallReply == Word(0, 0, 1)

HtifTypes ==
  /\ xlen \in {32, 64} /\ sent \in Seq(Chars) /\ shown \in Seq(Chars)
  /\ typed \in Seq(Chars) /\ got \in Seq(Chars) /\ keyboard \in Seq(Chars)
  /\ hart \in [pc : {"idle", "getchar", "send", "syscall", "reply", "off"},
               word : {Clear, ReadKey} \cup CharWords \cup CallWords]

\* The one read under way on rv64: not yet asked for or its key in the buffer, at the
\* hart, in tohost, at the host, or its key in fromhost.
Sending == hart.pc = "send" /\ hart.word = ReadKey
OneRead ==
  \/ console_buf # -1 /\ fromhost = Clear /\ reads = 0 /\ tohost # ReadKey /\ ~Sending
  \/ console_buf = -1 /\ fromhost # Clear /\ reads = 0 /\ tohost # ReadKey /\ ~Sending
  \/ console_buf = -1 /\ fromhost = Clear /\ reads = 1 /\ tohost # ReadKey /\ ~Sending
  \/ console_buf = -1 /\ fromhost = Clear /\ reads = 0 /\ tohost = ReadKey /\ ~Sending
  \/ console_buf = -1 /\ fromhost = Clear /\ reads = 0 /\ tohost # ReadKey /\ Sending
Wide == /\ fromhost \in {Clear} \cup KeyWords /\ tohost \in {Clear, ReadKey} \cup CharWords /\ replies = 0
        /\ hart.pc \in {"idle", "getchar", "send"}
        /\ hart.pc = "send" => hart.word \in {ReadKey} \cup CharWords
        /\ console_buf \in {-1, 0} \cup {c + 1 : c \in Chars}
        /\ OneRead
\* The one system call under way on rv32.
Narrow == /\ console_buf = 0 /\ reads = 0 /\ hart.pc \in {"idle", "syscall", "reply"}
          /\ hart.pc = "syscall" => hart.word \in CallWords
          /\ hart.pc # "reply" => tohost = Clear /\ fromhost = Clear /\ replies = 0
          /\ hart.pc = "reply" => /\ hart.word \in CallWords
                                  /\ \/ tohost = hart.word /\ fromhost = Clear /\ replies = 0
                                     \/ tohost = Clear /\ fromhost = Clear /\ replies = 1
                                     \/ tohost = Clear /\ fromhost = CallReply /\ replies = 0
KeysInv == typed = (IF console_buf >= 1 THEN Append(got, console_buf - 1)
                 ELSE IF fromhost # Clear /\ Dev(fromhost) = 1 THEN Append(got, Data(fromhost))
                 ELSE got) \o keyboard
InTohost == IF Writes(tohost) THEN Append(shown, Data(tohost)) ELSE shown
InHand == hart.pc \in {"send", "syscall"} /\ Writes(hart.word)
CharsInv == sent = IF InHand THEN Append(InTohost, Data(hart.word)) ELSE InTohost
HtifInv ==
  /\ HtifTypes
  /\ hart.pc # "off" => /\ IF xlen = 64 THEN Wide ELSE Narrow
                        /\ KeysInv /\ CharsInv
  /\ hart.pc = "off" => sent = shown \/ (xlen = 64 /\ SubSeq(sent, 1, Len(sent) - 1) = shown)

LEMMA WordsApart ==
  /\ \A d, c, x : Word(d, c, x) # Clear /\ Dev(Word(d, c, x)) = d /\ Cmd(Word(d, c, x)) = c /\ Data(Word(d, c, x)) = x
  /\ \A w : w \in KeyWords => w # Clear /\ Dev(w) = 1 /\ Cmd(w) = 0 /\ Data(w) \in Chars
  /\ \A w : w \in CharWords => w # Clear /\ w # ReadKey /\ Writes(w) /\ Dev(w) = 1 /\ Cmd(w) = 1 /\ Data(w) \in Chars
  /\ \A w : w \in CallWords => w # Clear /\ w # ReadKey /\ Writes(w) /\ Dev(w) = 0 /\ Cmd(w) = 0 /\ Data(w) \in Chars
  /\ ReadKey # Clear /\ ~Writes(ReadKey) /\ Dev(ReadKey) = 1 /\ Cmd(ReadKey) = 0 /\ ~Writes(Clear)
  /\ CallReply # Clear /\ Dev(CallReply) = 0 /\ Cmd(CallReply) = 0
BY DEF Word, Clear, Dev, Cmd, Data, KeyWords, KeyWord, CharWords, CallWords, ReadKey, CallReply, Writes

LEMMA Joins ==
  ASSUME NEW s \in Seq(Chars), NEW t \in Seq(Chars)
  PROVE  /\ \A c \in Chars : Append(s \o t, c) = s \o Append(t, c) /\ Append(t, c) \in Seq(Chars)
         /\ t # <<>> => /\ Head(t) \in Chars /\ Tail(t) \in Seq(Chars)
                        /\ s \o t = Append(s, Head(t)) \o Tail(t)
         /\ s \o t \in Seq(Chars)
<1>1. s \o t \in Seq(Chars)
  OBVIOUS
<1>2. ASSUME NEW c \in Chars PROVE Append(s \o t, c) = s \o Append(t, c)
  OBVIOUS
<1>3. ASSUME t # <<>> PROVE s \o t = Append(s, Head(t)) \o Tail(t)
  BY <1>3
<1>4. ASSUME NEW c \in Chars PROVE Append(t, c) \in Seq(Chars)
  OBVIOUS
<1>5. ASSUME t # <<>> PROVE Head(t) \in Chars /\ Tail(t) \in Seq(Chars)
  BY <1>5
<1> QED
  BY <1>1, <1>2, <1>3, <1>4, <1>5

LEMMA HtifStarts == HtifInit => HtifInv
<1> SUFFICES ASSUME NEW w \in Xlens, HtifReset(w) PROVE HtifInv
  BY DEF HtifInit
<1>1. <<>> \in Seq(Chars) /\ <<>> \o <<>> = <<>>
  OBVIOUS
<1>2. HtifTypes
  BY <1>1, HtifAssumption DEF HtifTypes, HtifReset, Idle
<1>3. Wide /\ Narrow
  BY WordsApart DEF Wide, Narrow, OneRead, Sending, HtifReset, Idle
<1>4. KeysInv
  BY <1>1 DEF KeysInv, HtifReset
<1>5. CharsInv
  BY WordsApart DEF CharsInv, InHand, InTohost, HtifReset, Idle
<1> QED
  BY <1>2, <1>3, <1>4, <1>5 DEF HtifInv, HtifReset, Idle

Live64 == xlen = 64 /\ hart.pc # "off" /\ HtifTypes /\ Wide /\ KeysInv /\ CharsInv
Live32 == xlen = 32 /\ hart.pc # "off" /\ HtifTypes /\ Narrow /\ KeysInv /\ CharsInv
PoweredOff == /\ hart.pc = "off" /\ HtifTypes
              /\ sent = shown \/ (xlen = 64 /\ SubSeq(sent, 1, Len(sent) - 1) = shown)

LEMMA LiveOrOff == HtifInv <=> Live64 \/ Live32 \/ PoweredOff
BY DEF HtifInv, Live64, Live32, PoweredOff, HtifTypes

LEMMA WideFacts ==
  ASSUME Live64
  PROVE  /\ fromhost # Clear => /\ Dev(fromhost) = 1 /\ Cmd(fromhost) = 0
                                /\ Data(fromhost) \in Chars /\ Data(fromhost) \in Nat
                                /\ console_buf = -1 /\ reads = 0 /\ tohost # ReadKey /\ ~Sending
         /\ console_buf \in Int /\ console_buf >= -1
         /\ console_buf >= 1 => console_buf - 1 \in Chars
<1>1. Chars \subseteq Nat
  BY HtifAssumption
<1>2. ASSUME fromhost # Clear
      PROVE  Dev(fromhost) = 1 /\ Cmd(fromhost) = 0 /\ Data(fromhost) \in Chars
  <2>1. fromhost \in KeyWords
    BY <1>2 DEF Live64, Wide
  <2> QED
    BY <2>1, WordsApart
<1>3. fromhost # Clear => console_buf = -1 /\ reads = 0 /\ tohost # ReadKey /\ ~Sending
  BY DEF Live64, Wide, OneRead
<1>4. console_buf \in {-1, 0} \cup {c + 1 : c \in Chars}
  BY DEF Live64, Wide
<1>5. console_buf = -1 \/ console_buf = 0 \/ \E c \in Chars : console_buf = c + 1
  BY <1>4
<1>6. console_buf \in Int /\ console_buf >= -1
  BY <1>5, <1>1
<1>7. console_buf >= 1 => console_buf - 1 \in Chars
  BY <1>5, <1>1
<1> QED
  BY <1>1, <1>2, <1>3, <1>6, <1>7

LEMMA WideSteps ==
  ASSUME Live64, HtifNext
  PROVE  Live64' \/ PoweredOff'
<1> USE DEF HtifTypes
<1> Chars \subseteq 0..255
  BY HtifAssumption
<1>a. xlen' = 64 /\ xlen = 64
  BY DEF Live64, HtifNext, htif_console_putchar, Type, htif_console_getchar, Getchar, Send,
         SendSyscall, SetTohost, WaitReply, htif_poweroff, TakeCommand, Answer, hostVars
<1>1. ASSUME NEW ch \in Chars, htif_console_putchar(ch) PROVE Live64'
  <2>1. sent' = Append(sent, ch) /\ hart' = [pc |-> "send", word |-> Word(1, 1, ch)]
        /\ hart.pc = "idle" /\ Word(1, 1, ch) \in CharWords
        /\ UNCHANGED <<xlen, tohost, fromhost, console_buf, got, hostVars>>
    BY <1>1, <1>a DEF htif_console_putchar, Call, CharWords
  <2>2. HtifTypes'
    BY <2>1 DEF Live64, hostVars
  <2>3. Wide'
    BY <2>1, WordsApart DEF Live64, Wide, OneRead, Sending, hostVars
  <2>4. KeysInv'
    BY <2>1 DEF Live64, KeysInv, hostVars
  <2>5. CharsInv'
    BY <2>1, WordsApart DEF Live64, CharsInv, InHand, InTohost, hostVars, Writes
  <2> QED
    BY <2>1, <2>2, <2>3, <2>4, <2>5, <1>a DEF Live64
<1>2. ASSUME NEW ch \in Chars, Type(ch) PROVE Live64'
  <2>1. UNCHANGED <<xlen, tohost, fromhost, console_buf, hart, reads, replies, sent, shown, got>>
        /\ typed' = Append(typed, ch) /\ keyboard' = Append(keyboard, ch)
    BY <1>2 DEF Type
  <2>2. HtifTypes'
    BY <2>1, Joins DEF Live64
  <2>3. Wide'
    BY <2>1 DEF Live64, Wide, OneRead, Sending
  <2>4. KeysInv'
    <3> DEFINE front == IF console_buf >= 1 THEN Append(got, console_buf - 1)
                        ELSE IF fromhost # Clear /\ Dev(fromhost) = 1 THEN Append(got, Data(fromhost))
                        ELSE got
    <3>1. front' = front /\ typed = front \o keyboard
      BY <2>1 DEF Live64, KeysInv
    <3>2. front \in Seq(Chars)
      BY WideFacts DEF Live64
    <3> HIDE DEF front
    <3>3. Append(front \o keyboard, ch) = front \o Append(keyboard, ch)
      <4>1. keyboard \in Seq(Chars)
        BY DEF Live64
      <4> QED
        BY <3>2, <4>1, Joins
    <3> QED
      BY <3>1, <3>3, <2>1 DEF front, KeysInv
  <2>5. CharsInv'
    BY <2>1 DEF Live64, CharsInv, InHand, InTohost, Writes
  <2> QED
    BY <2>1, <2>2, <2>3, <2>4, <2>5 DEF Live64
<1>3. ASSUME htif_console_getchar PROVE Live64'
  <2>1. hart.pc = "idle" /\ hart' = [pc |-> "getchar", word |-> Clear]
        /\ UNCHANGED <<xlen, tohost, fromhost, console_buf, sent, got, hostVars>>
    BY <1>3 DEF htif_console_getchar, Call
  <2> QED
    BY <2>1, WordsApart DEF Live64, Wide, OneRead, Sending, KeysInv, CharsInv, InHand, InTohost, hostVars, Writes
<1>4. ASSUME Getchar PROVE Live64'
  <2> DEFINE ch == IF fromhost # Clear /\ Cmd(fromhost) = 0 THEN 1 + Data(fromhost) ELSE console_buf
  <2>1. /\ hart.pc = "getchar" /\ console_buf' = -1 /\ fromhost' = Clear
        /\ hart' = (IF ch >= 0 THEN [pc |-> "send", word |-> ReadKey] ELSE Idle)
        /\ got' = (IF ch >= 1 THEN Append(got, ch - 1) ELSE got)
        /\ UNCHANGED <<xlen, tohost, sent, hostVars>>
    BY <1>4, WordsApart DEF Getchar, Live64, Wide, FromConsole, ReadKey
  <2>2. ch \in Int /\ (ch >= 1 => ch - 1 \in Chars)
    BY WideFacts
  <2>3. HtifTypes'
    <3>1. got' \in Seq(Chars)
      BY <2>1, <2>2 DEF Live64
    <3>2. hart' \in [pc : {"idle", "getchar", "send", "syscall", "reply", "off"},
                     word : {Clear, ReadKey} \cup CharWords \cup CallWords]
      BY <2>1 DEF Idle
    <3> QED
      BY <3>1, <3>2, <2>1 DEF Live64, hostVars
  <2>4. Wide' /\ hart'.pc # "off"
    <3>1. CASE ch >= 0
      <4>1. (console_buf # -1 \/ fromhost # Clear) /\ reads = 0 /\ tohost # ReadKey
        BY <3>1, <2>1, WordsApart DEF Live64, Wide, OneRead, Sending
      <4> QED
        BY <4>1, <3>1, <2>1 DEF Live64, Wide, OneRead, Sending, hostVars
    <3>2. CASE ~(ch >= 0)
      <4>1. console_buf = -1 /\ fromhost = Clear /\ ~Sending
        BY <3>2, <2>1, WideFacts DEF Sending
      <4> QED
        BY <4>1, <3>2, <2>1 DEF Live64, Wide, OneRead, Sending, hostVars, Idle
    <3> QED
      BY <3>1, <3>2
  <2>5. KeysInv'
    <3>1. got' = (IF console_buf >= 1 THEN Append(got, console_buf - 1)
                 ELSE IF fromhost # Clear /\ Dev(fromhost) = 1 THEN Append(got, Data(fromhost))
                 ELSE got)
      <4>1. CASE fromhost # Clear
        <5>1. ch = 1 + Data(fromhost) /\ Data(fromhost) \in Nat /\ Dev(fromhost) = 1 /\ console_buf = -1
          BY <4>1, WideFacts
        <5> QED
          BY <5>1, <4>1, <2>1
      <4>2. CASE fromhost = Clear
        BY <4>2, <2>1
      <4> QED
        BY <4>1, <4>2
    <3> QED
      BY <3>1, <2>1 DEF KeysInv, Live64, hostVars
  <2>6. CharsInv'
    BY <2>1, WordsApart DEF Live64, CharsInv, InHand, InTohost, hostVars, Idle, Writes
  <2> QED
    BY <2>3, <2>4, <2>5, <2>6, <1>a DEF Live64
<1>5. ASSUME Send PROVE Live64'
  <2>1. CASE tohost # Clear
    <3>1. /\ fromhost' = Clear /\ hart' = hart /\ tohost' = tohost
          /\ console_buf' = IF fromhost = Clear THEN console_buf ELSE 1 + Data(fromhost)
          /\ UNCHANGED <<xlen, sent, got, hostVars>>
      BY <1>5, <2>1, WordsApart DEF Send, SetTohost, check_fromhost, FromConsole, Live64, Wide
    <3>2. fromhost # Clear => /\ Data(fromhost) \in Chars /\ Dev(fromhost) = 1 /\ console_buf = -1
                              /\ reads = 0 /\ tohost # ReadKey /\ ~Sending
      BY WideFacts
    <3>3. Wide'
      <4>1. ASSUME fromhost # Clear
            PROVE  console_buf' \in {c + 1 : c \in Chars} /\ console_buf' # -1
        <5>1. console_buf' = Data(fromhost) + 1 /\ Data(fromhost) \in Chars /\ Data(fromhost) \in Nat
          BY <4>1, <3>1, WideFacts
        <5> QED
          BY <5>1
      <4>2. CASE fromhost = Clear
        BY <4>2, <3>1 DEF Live64, Wide, OneRead, Sending, hostVars
      <4>3. CASE fromhost # Clear
        BY <4>1, <4>3, <3>1, <3>2 DEF Live64, Wide, OneRead, Sending, hostVars
      <4> QED
        BY <4>2, <4>3
    <3>4. KeysInv'
      <4>1. CASE fromhost = Clear
        BY <4>1, <3>1 DEF Live64, KeysInv, hostVars
      <4>2. CASE fromhost # Clear
        <5>1. /\ console_buf = -1 /\ Dev(fromhost) = 1 /\ Data(fromhost) \in Nat
              /\ console_buf' = 1 + Data(fromhost)
          BY <4>2, <3>1, WideFacts
        <5>2. typed = Append(got, Data(fromhost)) \o keyboard
          <6>1. ~(console_buf >= 1) /\ KeysInv
            BY <5>1 DEF Live64
          <6> QED
            BY <4>2, <5>1, <6>1 DEF KeysInv
        <5>3. console_buf' >= 1 /\ console_buf' - 1 = Data(fromhost)
          BY <5>1
        <5> QED
          BY <5>2, <5>3, <3>1 DEF KeysInv, hostVars
      <4> QED
        BY <4>1, <4>2
    <3>5. CharsInv' /\ HtifTypes' /\ hart'.pc # "off"
      BY <3>1 DEF Live64, CharsInv, InHand, InTohost, hostVars, Writes
    <3> QED
      BY <3>3, <3>4, <3>5, <1>a DEF Live64
  <2>2. CASE tohost = Clear
    <3>1. /\ hart.pc = "send" /\ tohost' = hart.word /\ hart' = Idle
          /\ UNCHANGED <<fromhost, console_buf, xlen, sent, got, hostVars>>
      BY <1>5, <2>2 DEF Send, SetTohost
    <3>2. HtifTypes' /\ hart'.pc # "off"
      BY <3>1 DEF Live64, hostVars, Idle
    <3>3. Wide'
      BY <3>1, <2>2, WordsApart DEF Live64, Wide, OneRead, Sending, hostVars, Idle
    <3>4. KeysInv'
      BY <3>1 DEF Live64, KeysInv, hostVars
    <3>5. CharsInv'
      BY <3>1, <2>2, WordsApart DEF Live64, CharsInv, InHand, InTohost, hostVars, Idle, Wide
    <3> QED
      BY <3>2, <3>3, <3>4, <3>5, <1>a DEF Live64
  <2> QED
    BY <2>1, <2>2
<1>6. ~SendSyscall /\ ~WaitReply
  BY DEF SendSyscall, SetTohost, WaitReply, Live64, Wide
<1>7. ASSUME htif_poweroff PROVE PoweredOff'
  <2>1. hart.pc = "idle" /\ hart' = [Idle EXCEPT !.pc = "off"] /\ UNCHANGED <<xlen, sent, got, hostVars>>
    BY <1>7 DEF htif_poweroff
  <2>2. HtifTypes' /\ hart'.pc = "off"
    BY <2>1 DEF Live64, hostVars, Idle
  <2>3. sent = InTohost
    BY <2>1 DEF Live64, CharsInv, InHand
  <2>4. InTohost = shown \/ \E c \in Chars : InTohost = Append(shown, c)
    BY WordsApart DEF InTohost, Live64, Wide
  <2>5. ASSUME NEW c \in Chars PROVE SubSeq(Append(shown, c), 1, Len(Append(shown, c)) - 1) = shown
    BY DEF Live64
  <2> QED
    BY <2>1, <2>2, <2>3, <2>4, <2>5, <1>a DEF PoweredOff, hostVars
<1>8. ASSUME TakeCommand PROVE Live64'
  <2>1. /\ tohost # Clear /\ tohost' = Clear
        /\ UNCHANGED <<xlen, fromhost, console_buf, hart, keyboard, sent, typed, got>>
    BY <1>8 DEF TakeCommand
  <2>2. CASE tohost = ReadKey
    <3>1. reads' = reads + 1 /\ replies' = replies /\ shown' = shown
      BY <1>8, <2>2, WordsApart DEF TakeCommand
    <3>2. Wide'
      BY <2>1, <2>2, <3>1, WordsApart DEF Live64, Wide, OneRead, Sending
    <3>3. CharsInv'
      BY <2>1, <2>2, <3>1, WordsApart DEF Live64, CharsInv, InHand, InTohost, Writes
    <3> QED
      BY <2>1, <3>1, <3>2, <3>3 DEF Live64, KeysInv
  <2>3. CASE tohost \in CharWords
    <3>1. reads' = reads /\ replies' = replies /\ shown' = Append(shown, Data(tohost)) /\ Data(tohost) \in Chars
      BY <1>8, <2>3, WordsApart DEF TakeCommand
    <3>2. Wide'
      BY <2>1, <2>3, <3>1, WordsApart DEF Live64, Wide, OneRead, Sending
    <3>3. CharsInv'
      BY <2>1, <2>3, <3>1, WordsApart DEF Live64, CharsInv, InHand, InTohost, Writes
    <3>4. HtifTypes'
      BY <2>1, <3>1 DEF Live64
    <3> QED
      BY <2>1, <3>1, <3>2, <3>3, <3>4 DEF Live64, KeysInv
  <2> QED
    BY <2>1, <2>2, <2>3 DEF Live64, Wide
<1>9. ASSUME Answer PROVE Live64'
  <2>1. /\ fromhost = Clear /\ reads > 0 /\ keyboard # <<>> /\ fromhost' = Word(1, 0, Head(keyboard))
        /\ reads' = reads - 1 /\ keyboard' = Tail(keyboard) /\ replies' = replies
        /\ UNCHANGED <<xlen, tohost, console_buf, hart, sent, shown, typed, got>>
    BY <1>9 DEF Answer, Live64, Wide
  <2>2. console_buf = -1 /\ reads = 1 /\ tohost # ReadKey /\ ~Sending
    BY <2>1 DEF Live64, Wide, OneRead
  <2>3. Head(keyboard) \in Chars /\ Tail(keyboard) \in Seq(Chars)
    BY <2>1, Joins DEF Live64
  <2>4. HtifTypes'
    BY <2>1, <2>3 DEF Live64
  <2>5. fromhost' \in KeyWords /\ fromhost' # Clear /\ Dev(fromhost') = 1 /\ Data(fromhost') = Head(keyboard)
    BY <2>1, <2>3, WordsApart DEF KeyWords, KeyWord
  <2>6. Wide'
    BY <2>1, <2>2, <2>5 DEF Live64, Wide, OneRead, Sending
  <2>7. KeysInv'
    BY <2>1, <2>2, <2>5, Joins DEF Live64, KeysInv
  <2>8. CharsInv'
    BY <2>1 DEF Live64, CharsInv, InHand, InTohost, Writes
  <2> QED
    BY <2>1, <2>4, <2>6, <2>7, <2>8 DEF Live64
<1> QED
  BY <1>1, <1>2, <1>3, <1>4, <1>5, <1>6, <1>7, <1>8, <1>9 DEF HtifNext

LEMMA NarrowFacts ==
  ASSUME Live32
  PROVE  /\ typed = got \o keyboard /\ console_buf = 0 /\ reads = 0
         /\ fromhost # Clear => fromhost = CallReply /\ hart.pc = "reply" /\ tohost = Clear /\ replies = 0
         /\ tohost # Clear => tohost \in CallWords
         /\ hart.pc = "reply" => hart.word \in CallWords
<1>1. /\ console_buf = 0 /\ reads = 0
      /\ fromhost # Clear => fromhost = CallReply /\ hart.pc = "reply" /\ tohost = Clear /\ replies = 0
      /\ tohost # Clear => tohost \in CallWords
      /\ hart.pc = "reply" => hart.word \in CallWords
  BY DEF Live32, Narrow
<1>2. ~(console_buf >= 1) /\ ~(fromhost # Clear /\ Dev(fromhost) = 1)
  BY <1>1, WordsApart
<1>3. typed = got \o keyboard
  BY <1>2 DEF Live32, KeysInv
<1> QED
  BY <1>1, <1>3

LEMMA NarrowSteps ==
  ASSUME Live32, HtifNext
  PROVE  Live32' \/ PoweredOff'
<1> USE DEF HtifTypes
<1>a. xlen' = 32 /\ xlen = 32
  BY DEF Live32, HtifNext, htif_console_putchar, Type, htif_console_getchar, Getchar, Send,
         SendSyscall, SetTohost, WaitReply, htif_poweroff, TakeCommand, Answer, hostVars
<1>1. ASSUME NEW ch \in Chars, htif_console_putchar(ch) PROVE Live32'
  <2>1. sent' = Append(sent, ch) /\ hart' = [pc |-> "syscall", word |-> Word(0, 0, ch)]
        /\ hart.pc = "idle" /\ Word(0, 0, ch) \in CallWords
        /\ UNCHANGED <<xlen, tohost, fromhost, console_buf, got, hostVars>>
    BY <1>1, <1>a DEF htif_console_putchar, Call, CallWords
  <2>2. HtifTypes'
    BY <2>1 DEF Live32, hostVars
  <2>3. Narrow'
    BY <2>1, WordsApart DEF Live32, Narrow, hostVars
  <2>4. KeysInv'
    BY <2>1 DEF Live32, KeysInv, hostVars
  <2>5. CharsInv'
    BY <2>1, WordsApart DEF Live32, CharsInv, InHand, InTohost, hostVars, Writes
  <2> QED
    BY <2>1, <2>2, <2>3, <2>4, <2>5, <1>a DEF Live32
<1>2. ASSUME NEW ch \in Chars, Type(ch) PROVE Live32'
  <2>1. UNCHANGED <<xlen, tohost, fromhost, console_buf, hart, reads, replies, sent, shown, got>>
        /\ typed' = Append(typed, ch) /\ keyboard' = Append(keyboard, ch)
    BY <1>2 DEF Type
  <2>2. HtifTypes'
    BY <2>1, Joins DEF Live32
  <2>3. Narrow'
    BY <2>1 DEF Live32, Narrow
  <2>4. KeysInv'
    <3>1. got \in Seq(Chars) /\ keyboard \in Seq(Chars) /\ typed = got \o keyboard
      BY NarrowFacts DEF Live32
    <3>2. typed' = got \o keyboard'
      BY <3>1, <2>1, Joins
    <3> QED
      <4>1. ~(console_buf' >= 1)
        BY <2>1, NarrowFacts
      <4>2. ~(fromhost' # Clear /\ Dev(fromhost') = 1)
        BY <2>1, NarrowFacts, WordsApart
      <4>3. got' = got
        BY <2>1
      <4> QED
        BY <4>1, <4>2, <4>3, <3>2 DEF KeysInv
  <2>5. CharsInv'
    BY <2>1 DEF Live32, CharsInv, InHand, InTohost, Writes
  <2> QED
    BY <2>1, <2>2, <2>3, <2>4, <2>5 DEF Live32
<1>3. ~htif_console_getchar /\ ~Getchar /\ ~Send
  BY <1>a DEF htif_console_getchar, Getchar, Send, SetTohost, Live32, Narrow
<1>4. ASSUME SendSyscall PROVE Live32'
  <2>1. /\ hart.pc = "syscall" /\ tohost = Clear /\ fromhost = Clear /\ replies = 0
        /\ hart.word \in CallWords
        /\ tohost' = hart.word /\ hart' = [hart EXCEPT !.pc = "reply"]
        /\ UNCHANGED <<fromhost, console_buf, xlen, sent, got, hostVars>>
    BY <1>4 DEF SendSyscall, SetTohost, Live32, Narrow, Idle
  <2>2. HtifTypes' /\ hart'.pc = "reply" /\ hart'.word = hart.word
    BY <2>1 DEF Live32, hostVars
  <2>3. Narrow'
    BY <2>1, <2>2, WordsApart DEF Live32, Narrow, hostVars
  <2>4. KeysInv'
    BY <2>1 DEF Live32, KeysInv, hostVars
  <2>5. CharsInv'
    BY <2>1, <2>2, WordsApart DEF Live32, CharsInv, InHand, InTohost, hostVars
  <2> QED
    BY <2>2, <2>3, <2>4, <2>5, <1>a DEF Live32
<1>5. ASSUME WaitReply PROVE Live32'
  <2>1. /\ hart.pc = "reply" /\ fromhost = CallReply /\ tohost = Clear /\ replies = 0
        /\ hart.word \in CallWords
    BY <1>5, NarrowFacts DEF WaitReply
  <2>2. /\ fromhost' = Clear /\ hart' = Idle
        /\ UNCHANGED <<console_buf, xlen, tohost, sent, got, hostVars>>
    BY <1>5, <2>1, WordsApart DEF WaitReply
  <2>3. HtifTypes' /\ hart'.pc = "idle"
    BY <2>2 DEF Live32, hostVars, Idle
  <2>4. Narrow'
    BY <2>1, <2>2, <2>3 DEF Live32, Narrow, hostVars
  <2>5. KeysInv'
    BY <2>1, <2>2, NarrowFacts DEF KeysInv, hostVars
  <2>6. CharsInv'
    BY <2>1, <2>2, <2>3 DEF Live32, CharsInv, InHand, InTohost, hostVars, Writes
  <2> QED
    BY <2>3, <2>4, <2>5, <2>6, <1>a DEF Live32
<1>6. ASSUME htif_poweroff PROVE PoweredOff'
  <2>1. hart.pc = "idle" /\ hart' = [Idle EXCEPT !.pc = "off"] /\ UNCHANGED <<xlen, sent, got, hostVars>>
    BY <1>6 DEF htif_poweroff
  <2>2. HtifTypes' /\ hart'.pc = "off"
    BY <2>1 DEF Live32, hostVars, Idle
  <2>3. sent = shown
    BY <2>1, WordsApart DEF Live32, CharsInv, InHand, InTohost, Narrow
  <2> QED
    BY <2>1, <2>2, <2>3 DEF PoweredOff, hostVars
<1>7. ASSUME TakeCommand PROVE Live32'
  <2>1. /\ tohost # Clear /\ tohost' = Clear
        /\ UNCHANGED <<xlen, fromhost, console_buf, hart, keyboard, sent, typed, got>>
    BY <1>7 DEF TakeCommand
  <2>2. /\ hart.pc = "reply" /\ tohost = hart.word /\ tohost \in CallWords
        /\ fromhost = Clear /\ replies = 0
    BY <2>1 DEF Live32, Narrow
  <2>3. reads' = 0 /\ replies' = 1 /\ shown' = Append(shown, Data(tohost)) /\ Data(tohost) \in Chars
    BY <1>7, <2>2, WordsApart, NarrowFacts DEF TakeCommand
  <2>4. HtifTypes'
    BY <2>1, <2>3 DEF Live32
  <2>5. Narrow'
    BY <2>1, <2>2, <2>3 DEF Live32, Narrow
  <2>6. KeysInv'
    BY <2>1 DEF Live32, KeysInv
  <2>7. CharsInv'
    BY <2>1, <2>2, <2>3, WordsApart DEF Live32, CharsInv, InHand, InTohost
  <2> QED
    BY <2>1, <2>4, <2>5, <2>6, <2>7 DEF Live32
<1>8. ASSUME Answer PROVE Live32'
  <2>1. /\ fromhost = Clear /\ replies > 0 /\ fromhost' = CallReply /\ replies' = replies - 1
        /\ UNCHANGED <<xlen, tohost, console_buf, hart, sent, shown, typed, got, reads, keyboard>>
    BY <1>8, NarrowFacts DEF Answer, CallReply
  <2>2. hart.pc = "reply" /\ hart.word \in CallWords /\ tohost = Clear /\ replies = 1
    BY <2>1 DEF Live32, Narrow
  <2>3. HtifTypes'
    BY <2>1 DEF Live32
  <2>4. Narrow'
    BY <2>1, <2>2 DEF Live32, Narrow
  <2>5. KeysInv'
    BY <2>1, NarrowFacts, WordsApart DEF KeysInv
  <2>6. CharsInv'
    BY <2>1 DEF Live32, CharsInv, InHand, InTohost, Writes
  <2> QED
    BY <2>1, <2>3, <2>4, <2>5, <2>6 DEF Live32
<1> QED
  BY <1>1, <1>2, <1>3, <1>4, <1>5, <1>6, <1>7, <1>8 DEF HtifNext

\* Powered off, the hart does nothing and the host nothing more.
LEMMA Stopped == PoweredOff /\ HtifNext => FALSE
BY DEF PoweredOff, HtifNext, htif_console_putchar, Call, Type, htif_console_getchar, Getchar, Send,
       SendSyscall, SetTohost, WaitReply, htif_poweroff, TakeCommand, Answer

LEMMA HtifKept == HtifInv /\ [HtifNext]_htifVars => HtifInv'
<1> SUFFICES ASSUME HtifInv, [HtifNext]_htifVars PROVE HtifInv'
  OBVIOUS
<1>1. CASE HtifNext
  <2>1. Live64' \/ Live32' \/ PoweredOff'
    BY <1>1, LiveOrOff, WideSteps, NarrowSteps, Stopped
  <2> QED
    BY <2>1 DEF HtifInv, HtifTypes, Live64, Live32, PoweredOff
<1>2. CASE UNCHANGED htifVars
  BY <1>2 DEF htifVars, HtifInv, HtifTypes, Wide, Narrow, OneRead, Sending, KeysInv, CharsInv, InHand,
              InTohost, Writes
<1> QED
  BY <1>1, <1>2

LEMMA HtifImplies == HtifInv => HtifRight
<1> SUFFICES ASSUME HtifInv PROVE HtifRight
  OBVIOUS
<1>1. hart.pc # "panic"
  BY DEF HtifInv, HtifTypes
<1>2. ASSUME hart.pc # "off" PROVE typed = got \o Buffered \o Arriving \o keyboard
  <2>1. console_buf >= 1 => console_buf - 1 \in Chars /\ fromhost = Clear
    BY <1>2, LiveOrOff, WideFacts, NarrowFacts DEF PoweredOff
  <2>2. fromhost # Clear /\ Dev(fromhost) = 1 => Data(fromhost) \in Chars /\ ~(console_buf >= 1)
    BY <1>2, LiveOrOff, WideFacts, NarrowFacts, WordsApart DEF PoweredOff
  <2>3. got \in Seq(Chars) /\ keyboard \in Seq(Chars) /\ KeysInv
    BY <1>2 DEF HtifInv, HtifTypes
  <2>4. got \o <<>> = got /\ \A c \in Chars : got \o <<c>> = Append(got, c)
                                              /\ Append(got, c) \o <<>> = Append(got, c)
    BY <2>3
  <2>5. CASE console_buf >= 1
    BY <2>1, <2>3, <2>4, <2>5 DEF KeysInv, Buffered, Arriving
  <2>6. CASE ~(console_buf >= 1)
    BY <2>2, <2>3, <2>4, <2>6 DEF KeysInv, Buffered, Arriving
  <2> QED
    BY <2>5, <2>6
<1>3. ASSUME hart.pc # "off" PROVE sent = shown \o Leaving \o Waiting
  <2>1. Writes(tohost) => Data(tohost) \in Chars
    BY <1>3, LiveOrOff, WordsApart, NarrowFacts DEF PoweredOff, Live64, Wide, Writes
  <2>2. InHand => Data(hart.word) \in Chars
    BY <1>3, LiveOrOff, WordsApart DEF InHand, PoweredOff, Live64, Live32, Wide, Narrow
  <2>3. shown \in Seq(Chars) /\ CharsInv
    BY <1>3 DEF HtifInv, HtifTypes
  <2>4. \A s \in Seq(Chars) : s \o <<>> = s /\ \A c \in Chars : s \o <<c>> = Append(s, c)
    OBVIOUS
  <2>5. InTohost = shown \o Leaving /\ InTohost \in Seq(Chars)
    BY <2>1, <2>3, <2>4 DEF InTohost, Leaving
  <2>6. Waiting = IF InHand THEN <<Data(hart.word)>> ELSE <<>>
    BY DEF Waiting, InHand
  <2> QED
    BY <2>2, <2>3, <2>4, <2>5, <2>6 DEF CharsInv
<1> QED
  BY <1>1, <1>2, <1>3 DEF HtifRight, HtifInv

(* On either width no key and no character is lost, doubled or reordered    *)
(* between hart and host, no answer is unexpected, and halt loses at most   *)
(* the last character, on rv64 only (htif.c:20-111).                        *)
THEOREM HtifRightHolds == HtifSpec => []HtifRight
BY HtifStarts, HtifKept, HtifImplies, PTL DEF HtifSpec

(***************************************************************************)
(* The clock and the disk of the x86-qemu port.  The ticks since the       *)
(* second was read are fewer than sixty, so a second that reads the same   *)
(* again has not moved (ReadInv); the four bytes of a block number put     *)
(* together give it back (Blocks), so disk and written agree (DiskInv).    *)
(***************************************************************************)
\* The date read so far was on the chip, unless the second moved on since: the ticks
\* since it was read are fewer than a minute's.
Since(k) == /\ clock[1] = (rtc.read[1] + k) % 60
            /\ k = 0 => \A j \in DOMAIN rtc.read : rtc.read[j] = clock[j]
ClockTypes ==
  /\ clock \in Dates /\ ticks \in 0..MaxTicks
  /\ rtc \in [pc : {"idle", "reading", "again", "returned"}, read : Seq(Nat)]
ReadInv ==
  /\ rtc.pc = "idle" => rtc.read = <<>>
  /\ rtc.pc \in {"reading", "again"} => clock \in passed
  /\ rtc.pc = "reading" => Len(rtc.read) < 6
  /\ rtc.pc = "reading" /\ rtc.read # <<>> => /\ rtc.read[1] \in 0..59 /\ \E k \in 0..ticks : Since(k)
  /\ rtc.pc = "again" =>
       \E d \in Seq(Nat) : /\ Len(d) = 6 /\ rtc.read = Date(d) /\ d[1] \in 0..59
                           /\ \E k \in 0..ticks : /\ clock[1] = (d[1] + k) % 60
                                                  /\ k = 0 => \A j \in 1..6 : d[j] = clock[j]
  /\ rtc.pc = "returned" => rtc.read \in {Date(d) : d \in passed}
DiskInv ==
  /\ disk = written /\ disk = [s \in Sectors |-> disk[s]]
  /\ ~request.write => buffer = [i \in DOMAIN request.data |-> written[request.blkno + i - 1]]
ClockInv == ClockTypes /\ ReadInv /\ DiskInv

LEMMA Registers == ASSUME clock \in Dates, NEW i \in 1..6 PROVE read_rtc(i) = clock[i]
<1>1. clock[i] \in Nat /\ clock[i] < 100
  BY DEF Dates, Lowest, Highest, Units
<1> DEFINE c == clock[i]
<1>2. \A x \in Nat : x < 100 => ((x \div 10) * 16 + (x % 10)) % 16 = x % 10
                              /\ ((x \div 10) * 16 + (x % 10)) \div 16 = x \div 10
                              /\ (x % 10) + (x \div 10) * 10 = x
  OBVIOUS
<1> QED
  BY <1>1, <1>2 DEF read_rtc, Register

LEMMA Seconds == ASSUME NEW d \in Dates
                 PROVE  NextDate(d) \in Dates /\ NextDate(d)[1] = (d[1] + 1) % 60 /\ d[1] \in 0..59
<1>1. d[1] \in 0..59 /\ Highest(1) = 59 /\ Lowest[1] = 0
  BY DEF Dates, Lowest, Highest, Units
<1>2. NextDate(d)[1] = IF d[1] = 59 THEN 0 ELSE d[1] + 1
  BY <1>1 DEF NextDate, Wraps
<1>3. ASSUME NEW i \in 1..6 PROVE NextDate(d)[i] \in Lowest[i] .. Highest(i) /\ NextDate(d)[i] \in Nat
  <2>1. d[i] \in Nat /\ d[i] \in Lowest[i] .. Highest(i)
    BY DEF Dates
  <2>2. Lowest[i] \in Nat /\ Highest(i) \in Nat /\ Lowest[i] <= Highest(i)
    BY DEF Lowest, Highest, Units
  <2>3. ASSUME Wraps(d, i-1), ~Wraps(d, i) PROVE d[i] # Highest(i)
    <3>1. \A j \in 1..i : j = i \/ j \in 1..i-1
      OBVIOUS
    <3> QED
      BY <2>3, <3>1 DEF Wraps
  <2> HIDE DEF Wraps
  <2> QED
    BY <2>1, <2>2, <2>3 DEF NextDate
<1>4. NextDate(d) \in [1..6 -> Nat]
  BY <1>3 DEF NextDate
<1> QED
  BY <1>1, <1>2, <1>3, <1>4 DEF Dates

LEMMA Blocks == ASSUME NEW n \in Nat, n < 268435456 PROVE SentBlock(n) = n
<1> DEFINE a == n \div 256
           b == a \div 256
           c == b \div 256
<1>1. a \in Nat /\ b \in Nat /\ c \in Nat
  BY SMT
<1>2. n = 256 * a + (n % 256) /\ a = 256 * b + (a % 256) /\ b = 256 * c + (b % 256)
  BY SMT
<1>3. n \div 65536 = b
  BY SMT
<1>4. n \div 16777216 = c
  BY SMT
<1>5. c < 16
  BY SMT
<1>6. n \div 1 = n
  BY SMT
<1> HIDE DEF a, b, c
<1>7. c % 256 = c /\ c % 32 = c /\ (224 + c) % 16 = c
  BY <1>1, <1>5, SMT
<1>8. Byte(n, 1) = n % 256 /\ Byte(n, 256) = a % 256 /\ Byte(n, 65536) = b % 256 /\ Byte(n, 16777216) = c
  BY <1>3, <1>4, <1>6, <1>7, SMT DEF Byte, a
<1>9. SentBlock(n) = (n % 256) + 256 * (a % 256) + 65536 * (b % 256) + 16777216 * c
  BY <1>7, <1>8, SMT DEF SentBlock, SelectedLba
<1>10. n % 256 \in Nat /\ a % 256 \in Nat /\ b % 256 \in Nat
  BY <1>1, SMT
<1> QED
  BY <1>1, <1>2, <1>9, <1>10, SMT

LEMMA ClockStarts == ClockInit => ClockInv
<1> SUFFICES ASSUME NEW date \in StartDates, ClockAt(date) PROVE ClockInv
  BY DEF ClockInit
<1>1. clock \in Dates /\ MaxTicks \in Nat
  BY QemuClockAssumption DEF ClockAt
<1>2. ClockTypes /\ ReadInv
  BY <1>1 DEF ClockTypes, ReadInv, ClockAt
<1>3. DiskInv
  BY DEF DiskInv, ClockAt
<1> QED
  BY <1>2, <1>3 DEF ClockInv

LEMMA OwnBlocks ==
  ASSUME NEW req \in Transfers, NEW i \in DOMAIN req.data
  PROVE  i \in Nat /\ req.blkno \in Nat /\ req.blkno + i - 1 \in Sectors
         /\ SentBlocks(req)[i] = req.blkno + i - 1
<1>1. i \in Nat /\ req.blkno \in Nat /\ req.blkno + i - 1 \in Sectors
  BY QemuClockAssumption
<1>2. req.blkno + i - 1 \in Nat /\ req.blkno + i - 1 < 268435456
  BY <1>1, QemuClockAssumption
<1>3. SentBlock(req.blkno + i - 1) = req.blkno + i - 1
  BY <1>2, Blocks
<1> QED
  BY <1>1, <1>3 DEF SentBlocks

LEMMA DiskKept ==
  ASSUME DiskInv, NEW req \in Transfers, disk_blkio(req)
  PROVE  DiskInv'
<1> DEFINE sent_to == SentBlocks(req)
<1>1. request' = req /\ DOMAIN sent_to = DOMAIN req.data
  BY DEF disk_blkio, SentBlocks
<1>2. CASE req.write
  <2>1. /\ disk' = [s \in Sectors |->
                     IF \E i \in DOMAIN sent_to : sent_to[i] = s
                     THEN req.data[CHOOSE i \in DOMAIN sent_to : sent_to[i] = s] ELSE disk[s]]
        /\ written' = [s \in Sectors |-> IF s - req.blkno + 1 \in DOMAIN req.data
                                         THEN req.data[s - req.blkno + 1] ELSE written[s]]
    BY <1>2 DEF disk_blkio
  <2> HIDE DEF sent_to
  <2>2. ASSUME NEW s \in Sectors PROVE disk'[s] = written'[s]
    <3>0. s \in Int /\ req.blkno \in Int
      BY QemuClockAssumption
    <3>1. \A i \in DOMAIN sent_to : i \in Int /\ (sent_to[i] = s <=> i = s - req.blkno + 1)
      <4> SUFFICES ASSUME NEW i \in DOMAIN sent_to
                   PROVE  i \in Int /\ (sent_to[i] = s <=> i = s - req.blkno + 1)
        OBVIOUS
      <4>1. i \in Nat /\ sent_to[i] = req.blkno + i - 1
        BY <1>1, OwnBlocks DEF sent_to
      <4> QED
        BY <4>1, <3>0
    <3> DEFINE j == s - req.blkno + 1
    <3>2. \A i \in DOMAIN sent_to : sent_to[i] = s <=> i = j
      BY <3>1
    <3>3. disk'[s] = (IF \E i \in DOMAIN sent_to : sent_to[i] = s
                     THEN req.data[CHOOSE i \in DOMAIN sent_to : sent_to[i] = s] ELSE disk[s])
          /\ written'[s] = (IF j \in DOMAIN req.data THEN req.data[j] ELSE written[s])
      BY <2>1
    <3> HIDE DEF j
    <3>4. CASE j \in DOMAIN sent_to
      <4>1. (CHOOSE i \in DOMAIN sent_to : sent_to[i] = s) = j /\ \E i \in DOMAIN sent_to : sent_to[i] = s
        BY <3>2, <3>4
      <4> QED
        BY <4>1, <3>3, <3>4, <1>1
    <3>5. CASE j \notin DOMAIN sent_to
      <4>1. ~\E i \in DOMAIN sent_to : sent_to[i] = s
        BY <3>2, <3>5
      <4> QED
        BY <4>1, <3>3, <3>5, <1>1 DEF DiskInv
    <3> QED
      BY <3>4, <3>5
  <2>3. disk' = [s \in Sectors |-> disk'[s]] /\ written' = [s \in Sectors |-> written'[s]]
    BY <2>1
  <2>4. disk' = written'
    BY <2>2, <2>3
  <2> QED
    BY <2>3, <2>4, <1>1, <1>2 DEF DiskInv
<1>3. CASE ~req.write
  <2>1. disk' = disk /\ written' = written /\ buffer' = [i \in DOMAIN sent_to |-> disk[sent_to[i]]]
    BY <1>3 DEF disk_blkio
  <2> HIDE DEF sent_to
  <2>2. \A i \in DOMAIN req.data : disk[sent_to[i]] = written[req.blkno + i - 1]
    BY OwnBlocks DEF sent_to, DiskInv
  <2> QED
    BY <2>1, <2>2, <1>1 DEF DiskInv
<1> QED
  BY <1>2, <1>3

LEMMA TickKept == ASSUME ClockInv, Tick PROVE ClockInv'
<1>1. /\ ticks < MaxTicks /\ ticks' = ticks + 1 /\ clock' = NextDate(clock) /\ passed' = passed \cup {clock'}
      /\ rtc.pc \in {"reading", "again"} /\ UNCHANGED <<rtc, diskVars>>
  BY DEF Tick, ClockInv, ClockTypes
<1>2. MaxTicks \in 0..59 /\ ticks \in Nat /\ ticks' \in 0..MaxTicks /\ ticks' \in 1..59
  BY <1>1, QemuClockAssumption DEF ClockInv, ClockTypes
<1>3. clock' \in Dates /\ clock'[1] = (clock[1] + 1) % 60 /\ clock[1] \in 0..59
  BY <1>1, Seconds DEF ClockInv, ClockTypes
<1>4. \A x \in 0..59, k \in 0..ticks : clock[1] = (x + k) % 60
                                       => clock'[1] = (x + (k + 1)) % 60 /\ k + 1 \in 0..ticks' /\ k + 1 # 0
  <2> SUFFICES ASSUME NEW x \in 0..59, NEW k \in 0..ticks, clock[1] = (x + k) % 60
               PROVE  clock'[1] = (x + (k + 1)) % 60 /\ k + 1 \in 0..ticks' /\ k + 1 # 0
    OBVIOUS
  <2>1. \A y \in Nat : ((y % 60) + 1) % 60 = (y + 1) % 60
    OBVIOUS
  <2>2. x + k \in Nat /\ x + (k + 1) = (x + k) + 1
    BY <1>2
  <2> QED
    BY <2>1, <2>2, <1>1, <1>2, <1>3
<1>5. ClockTypes'
  BY <1>1, <1>2, <1>3 DEF ClockInv, ClockTypes
<1>6. ASSUME rtc.pc = "reading", rtc.read # <<>> PROVE \E k \in 0..ticks' : Since(k)'
  <2>1. PICK k \in 0..ticks : clock[1] = (rtc.read[1] + k) % 60
    BY <1>6 DEF ClockInv, ReadInv, Since
  <2>2. clock'[1] = (rtc.read[1] + (k + 1)) % 60 /\ k + 1 \in 0..ticks' /\ k + 1 # 0
    BY <2>1, <1>4, <1>6 DEF ClockInv, ReadInv
  <2> QED
    BY <2>2, <1>1 DEF Since
<1>7. ASSUME rtc.pc = "again"
      PROVE  \E d \in Seq(Nat) : /\ Len(d) = 6 /\ rtc.read = Date(d) /\ d[1] \in 0..59
                                 /\ \E k \in 0..ticks' : /\ clock'[1] = (d[1] + k) % 60
                                                         /\ k = 0 => \A j \in 1..6 : d[j] = clock'[j]
  <2>1. PICK d \in Seq(Nat) : /\ Len(d) = 6 /\ rtc.read = Date(d) /\ d[1] \in 0..59
                              /\ \E k \in 0..ticks : clock[1] = (d[1] + k) % 60
    BY <1>7 DEF ClockInv, ReadInv
  <2>2. PICK k \in 0..ticks : clock[1] = (d[1] + k) % 60
    BY <2>1
  <2>3. clock'[1] = (d[1] + (k + 1)) % 60 /\ k + 1 \in 0..ticks' /\ k + 1 # 0
    BY <2>1, <2>2, <1>4
  <2> QED
    BY <2>1, <2>3
<1>8. ReadInv'
  <2>1. clock' \in passed' /\ rtc'.pc = rtc.pc /\ rtc' = rtc
    BY <1>1
  <2>2. (rtc.pc = "reading" /\ rtc.read # <<>>) => rtc.read[1] \in 0..59
    BY DEF ClockInv, ReadInv
  <2>3. rtc.pc = "reading" => Len(rtc.read) < 6
    BY DEF ClockInv, ReadInv
  <2> QED
    BY <2>1, <2>2, <2>3, <1>1, <1>6, <1>7 DEF ReadInv
<1>9. DiskInv'
  BY <1>1 DEF ClockInv, DiskInv, diskVars
<1> QED
  BY <1>5, <1>8, <1>9 DEF ClockInv

LEMMA RegisterKept == ASSUME ClockInv, read_rtc_async PROVE ClockInv'
<1> DEFINE i == Len(rtc.read) + 1
           more == Append(rtc.read, read_rtc(i))
<1>1. /\ rtc.pc = "reading" /\ UNCHANGED <<clock, ticks, passed, diskVars>>
      /\ rtc' = IF Len(more) < 6 THEN [rtc EXCEPT !.read = more]
                ELSE [pc |-> "again", read |-> Date(more)]
  BY DEF read_rtc_async
<1>2. rtc.read \in Seq(Nat) /\ Len(rtc.read) < 6 /\ i \in 1..6
  <2>1. rtc.read \in Seq(Nat)
    BY DEF ClockInv, ClockTypes
  <2>2. Len(rtc.read) < 6
    BY <1>1 DEF ClockInv, ReadInv
  <2> QED
    BY <2>1, <2>2
<1>3. read_rtc(i) = clock[i] /\ clock[i] \in Nat
  BY <1>2, Registers DEF ClockInv, ClockTypes, Dates
<1>4. /\ more \in Seq(Nat) /\ Len(more) = i /\ more[i] = clock[i]
      /\ \A j \in 1..i-1 : more[j] = rtc.read[j]
  BY <1>2, <1>3
<1>5. ticks \in Nat /\ clock[1] \in 0..59
  BY QemuClockAssumption, Seconds DEF ClockInv, ClockTypes
<1>6. more[1] \in 0..59 /\ \E k \in 0..ticks : /\ clock[1] = (more[1] + k) % 60
                                               /\ k = 0 => \A j \in 1..i : more[j] = clock[j]
  <2>1. CASE rtc.read = <<>>
    <3>1. i = 1 /\ more[1] = clock[1]
      BY <2>1, <1>4
    <3>2. clock[1] = (more[1] + 0) % 60 /\ 0 \in 0..ticks
      <4>1. \A x \in 0..59 : x = (x + 0) % 60
        OBVIOUS
      <4> HIDE DEF more, i
      <4> QED
        BY <3>1, <1>5, <4>1
    <3>3. \A j \in 1..i : more[j] = clock[j]
      BY <3>1
    <3> HIDE DEF more, i
    <3> QED
      BY <3>1, <3>2, <3>3, <1>5
  <2>2. CASE rtc.read # <<>>
    <3>1. i - 1 >= 1 /\ more[1] = rtc.read[1] /\ DOMAIN rtc.read = 1..i-1
      BY <2>2, <1>2, <1>4
    <3>2. rtc.read[1] \in 0..59
      BY <2>2, <1>1 DEF ClockInv, ReadInv
    <3>3. PICK k \in 0..ticks : Since(k)
      BY <2>2, <1>1 DEF ClockInv, ReadInv
    <3>4. clock[1] = (more[1] + k) % 60
      BY <3>1, <3>3 DEF Since
    <3>5. ASSUME k = 0, NEW j \in 1..i PROVE more[j] = clock[j]
      <4>1. CASE j = i
        BY <4>1, <1>4
      <4>2. CASE j # i
        <5>1. j \in 1..i-1
          BY <4>2, <1>2
        <5>2. rtc.read[j] = clock[j]
          BY <5>1, <3>5, <3>3, <3>1 DEF Since
        <5> QED
          BY <5>1, <5>2, <1>4
      <4> QED
        BY <4>1, <4>2
    <3> HIDE DEF more, i
    <3> QED
      BY <3>1, <3>2, <3>4, <3>5
  <2> QED
    BY <2>1, <2>2
<1>7. CASE i < 6
  <2>1. rtc' = [rtc EXCEPT !.read = more] /\ rtc'.pc = "reading" /\ rtc'.read = more
    BY <1>1, <1>4, <1>7 DEF ClockInv, ClockTypes
  <2>2. DOMAIN more = 1..i
    BY <1>4
  <2> HIDE DEF more, i
  <2>3. PICK k \in 0..ticks : /\ clock[1] = (more[1] + k) % 60
                              /\ k = 0 => \A j \in 1..i : more[j] = clock[j]
    BY <1>6
  <2>4. Since(k)'
    BY <2>1, <2>2, <2>3, <1>1 DEF Since
  <2>5. ClockTypes'
    BY <1>1, <1>4, <2>1 DEF ClockInv, ClockTypes
  <2>6. ReadInv'
    BY <1>1, <1>4, <1>6, <1>7, <2>1, <2>4 DEF ReadInv, ClockInv
  <2> QED
    BY <2>5, <2>6, <1>1 DEF ClockInv, DiskInv, diskVars
<1>8. CASE i = 6
  <2>1. rtc' = [pc |-> "again", read |-> Date(more)]
    BY <1>1, <1>4, <1>8
  <2>2. Len(more) = 6 /\ more \in Seq(Nat)
    BY <1>4, <1>8
  <2> HIDE DEF more, i
  <2>3. Date(more) \in Seq(Nat)
    <3>1. more \in [1..6 -> Nat]
      <4>1. more \in [1..Len(more) -> Nat]
        BY <2>2, LenProperties
      <4> QED
        BY <4>1, <2>2
    <3>2. Date(more) \in [1..6 -> Nat]
      BY <3>1 DEF Date
    <3>3. Seq(Nat) = UNION {[1..n -> Nat] : n \in Nat}
      BY SeqDef
    <3> HIDE DEF Date
    <3> QED
      BY <3>2, <3>3
  <2>4. ClockTypes'
    BY <1>1, <2>1, <2>3 DEF ClockInv, ClockTypes
  <2>5. ReadInv'
    <3>1. rtc'.pc = "again" /\ rtc'.read = Date(more)
      BY <2>1
    <3>2. /\ Len(more) = 6 /\ more[1] \in 0..59
          /\ \E k \in 0..ticks' : /\ clock'[1] = (more[1] + k) % 60
                                  /\ k = 0 => \A j \in 1..6 : more[j] = clock'[j]
      BY <1>1, <1>6, <1>8, <2>2
    <3> QED
      BY <3>1, <3>2, <2>2, <1>1 DEF ReadInv, ClockInv
  <2> QED
    BY <2>4, <2>5, <1>1 DEF ClockInv, DiskInv, diskVars
<1> QED
  BY <1>2, <1>7, <1>8

LEMMA RereadKept == ASSUME ClockInv, Reread PROVE ClockInv'
<1>1. /\ rtc.pc = "again" /\ UNCHANGED <<clock, ticks, passed, diskVars>>
      /\ rtc' = IF SameSecond(read_rtc(1), rtc.read) THEN [rtc EXCEPT !.pc = "returned"]
                ELSE [pc |-> "reading", read |-> <<>>]
  BY DEF Reread
<1>2. ClockTypes'
  BY <1>1 DEF ClockInv, ClockTypes
<1>3. DiskInv'
  BY <1>1 DEF ClockInv, DiskInv, diskVars
<1>4. CASE SameSecond(read_rtc(1), rtc.read)
  <2>1. PICK d \in Seq(Nat) : /\ Len(d) = 6 /\ rtc.read = Date(d) /\ d[1] \in 0..59
                              /\ \E k \in 0..ticks : /\ clock[1] = (d[1] + k) % 60
                                                     /\ k = 0 => \A j \in 1..6 : d[j] = clock[j]
    BY <1>1 DEF ClockInv, ReadInv
  <2>2. PICK k \in 0..ticks : /\ clock[1] = (d[1] + k) % 60
                              /\ k = 0 => \A j \in 1..6 : d[j] = clock[j]
    BY <2>1
  <2>3. k \in 0..59
    BY QemuClockAssumption DEF ClockInv, ClockTypes
  <2>4. read_rtc(1) = clock[1]
    BY Registers DEF ClockInv, ClockTypes
  <2>5. rtc.read[1] = d[1]
    BY <2>1 DEF Date
  <2>6. clock[1] = d[1]
    BY <1>4, <2>4, <2>5 DEF SameSecond
  <2>7. k = 0
    <3>1. \A x \in 0..59, n \in 0..59 : x = (x + n) % 60 => n = 0
      OBVIOUS
    <3> QED
      BY <2>1, <2>2, <2>3, <2>6, <3>1
  <2>8. d = clock
    <3>1. \A j \in 1..6 : d[j] = clock[j]
      BY <2>2, <2>7
    <3>2. d = [j \in 1..6 |-> d[j]] /\ clock = [j \in 1..6 |-> clock[j]]
      BY <2>1 DEF ClockInv, ClockTypes, Dates
    <3> QED
      BY <3>1, <3>2
  <2>9. rtc'.pc = "returned" /\ rtc'.read = Date(clock) /\ clock \in passed
    BY <1>1, <1>4, <2>1, <2>8 DEF ClockInv, ClockTypes, ReadInv
  <2>10. ReadInv'
    BY <2>9, <1>1 DEF ReadInv
  <2> QED
    BY <2>10, <1>2, <1>3 DEF ClockInv
<1>5. CASE ~SameSecond(read_rtc(1), rtc.read)
  <2>1. rtc'.pc = "reading" /\ rtc'.read = <<>> /\ clock' \in passed'
    BY <1>1, <1>5 DEF ClockInv, ReadInv
  <2>2. ReadInv'
    BY <2>1 DEF ReadInv
  <2> QED
    BY <2>2, <1>2, <1>3 DEF ClockInv
<1> QED
  BY <1>4, <1>5

LEMMA ClockKept == ClockInv /\ [ClockNext]_<<clockVars, diskVars>> => ClockInv'
<1> SUFFICES ASSUME ClockInv, [ClockNext]_<<clockVars, diskVars>> PROVE ClockInv'
  OBVIOUS
<1>1. CASE Tick
  BY <1>1, TickKept
<1>2. CASE timer_rtc
  <2>1. /\ rtc'.pc = "reading" /\ rtc'.read = <<>> /\ clock' \in passed'
        /\ rtc' \in [pc : {"idle", "reading", "again", "returned"}, read : Seq(Nat)]
    BY <1>2 DEF timer_rtc
  <2>2. ReadInv'
    BY <2>1 DEF ReadInv
  <2> QED
    BY <2>1, <2>2, <1>2 DEF timer_rtc, ClockInv, ClockTypes, DiskInv, diskVars
<1>3. CASE read_rtc_async
  BY <1>3, RegisterKept
<1>4. CASE Reread
  BY <1>4, RereadKept
<1>5. ASSUME NEW req \in Transfers, disk_blkio(req) PROVE ClockInv'
  <2>1. DiskInv'
    BY <1>5, DiskKept DEF ClockInv
  <2>2. UNCHANGED <<clock, ticks, rtc, passed>>
    BY <1>5 DEF disk_blkio, clockVars
  <2>3. ClockTypes' /\ ReadInv'
    BY <2>2 DEF ClockInv, ClockTypes, ReadInv, Since
  <2> QED
    BY <2>1, <2>3 DEF ClockInv
<1>6. CASE UNCHANGED <<clockVars, diskVars>>
  BY <1>6 DEF clockVars, diskVars, ClockInv, ClockTypes, ReadInv, Since, DiskInv
<1> QED
  BY <1>1, <1>2, <1>3, <1>4, <1>5, <1>6 DEF ClockNext

(* timer_rtc returns a date the chip held during the call, whenever the     *)
(* second moves on between two registers (ioe.c:86-97), and a block read is *)
(* the one last written under its number (ioe.c:278-301).                   *)
THEOREM ClockRightHolds == ClockSpec => []ClockRight
<1>1. ClockInv => ClockRight
  <2> SUFFICES ASSUME ClockInv PROVE ClockRight
    OBVIOUS
  <2>1. rtc.pc = "returned" => rtc.read \in {Date(d) : d \in passed}
    BY DEF ClockInv, ReadInv
  <2>2. ASSUME NEW i \in DOMAIN buffer, ~request.write
        PROVE  buffer[i] = written[request.blkno + i - 1]
    BY <2>2 DEF ClockInv, DiskInv
  <2> QED
    BY <2>1, <2>2 DEF ClockRight
<1> QED
  BY ClockStarts, ClockKept, <1>1, PTL DEF ClockSpec

-----------------------------------------------------------------------------
(* The loader of the x86-qemu port.  Addresses round down to sectors.        *)
LEMMA Rounding ==
  ASSUME NEW a \in Int
  PROVE  /\ RoundDown(a) \in Int /\ RoundDown(a) <= a /\ a < RoundDown(a) + SectorUnits
         /\ RoundDown(a) = SectorUnits * (a \div SectorUnits) /\ a \div SectorUnits \in Int
<1>1. SectorUnits \in Nat \ {0}
  BY QemuBootAssumption
<1>2. a \div SectorUnits \in Int /\ a % SectorUnits \in 0 .. SectorUnits-1
      /\ a = SectorUnits * (a \div SectorUnits) + (a % SectorUnits)
  BY <1>1, Division
<1> DEFINE q == a \div SectorUnits
           r == a % SectorUnits
<1>3. SectorUnits * q \in Int
  BY <1>1, <1>2
<1> HIDE DEF q, r
<1>4. a = SectorUnits * q + r /\ r \in 0 .. SectorUnits-1 /\ q \in Int /\ RoundDown(a) = a - r
  BY <1>2 DEF q, r, RoundDown
<1> QED
  BY <1>1, <1>3, <1>4 DEF q

(* What lies in the sector that b begins in rounds down as b does.           *)
LEMMA SameSector ==
  ASSUME NEW a \in Int, NEW b \in Int, RoundDown(b) <= a, a < RoundDown(b) + SectorUnits
  PROVE  RoundDown(a) = RoundDown(b)
<1>1. SectorUnits \in Nat \ {0}
  BY QemuBootAssumption
<1> DEFINE q == b \div SectorUnits
           r == a - RoundDown(b)
<1>2. q \in Int /\ RoundDown(b) \in Int /\ RoundDown(b) = SectorUnits * q
  BY Rounding
<1>3. r \in 0 .. SectorUnits-1 /\ a = SectorUnits * q + r
  BY <1>1, <1>2
<1> HIDE DEF q, r
<1>4. a \div SectorUnits = q
  BY <1>1, <1>2, <1>3, Quotient
<1> QED
  BY <1>2, <1>4, Rounding

(* The sectors that are read reach as far as the bytes that are wanted, and  *)
(* when none are wanted from the start of a sector, none is read.            *)
LEMMA SectorsRead ==
  ASSUME NEW n \in Nat
  PROVE  LET read == ((n + SectorUnits - 1) \div SectorUnits) * SectorUnits
         IN  read \in Nat /\ n <= read /\ read < n + SectorUnits /\ (n = 0 => read = 0)
<1> DEFINE m == n + SectorUnits - 1
           q == m \div SectorUnits
           r == m % SectorUnits
<1>1. SectorUnits \in Nat \ {0}
  BY QemuBootAssumption
<1>2. m \in Int /\ m >= 0
  BY <1>1
<1> HIDE DEF m
<1>3. q \in Int /\ r \in 0 .. SectorUnits-1 /\ m = SectorUnits * q + r
  BY <1>1, <1>2, Division
<1> HIDE DEF q, r
<1>4. q * SectorUnits \in Int /\ q * SectorUnits = SectorUnits * q
  BY <1>1, <1>3
<1>5. q * SectorUnits = n + SectorUnits - 1 - r
  BY <1>1, <1>3, <1>4 DEF m
<1>6. n = 0 => q * SectorUnits = 0
  <2> SUFFICES ASSUME n = 0 PROVE q * SectorUnits = 0
    OBVIOUS
  <2>1. m = SectorUnits * 0 + m /\ m \in 0 .. SectorUnits-1
    BY <1>1 DEF m
  <2>2. q = 0
    BY <2>1, <1>1, Quotient DEF q
  <2> QED
    BY <2>2, <1>1
<1>7. q * SectorUnits \in Nat /\ n <= q * SectorUnits /\ q * SectorUnits < n + SectorUnits
  BY <1>1, <1>3, <1>5
<1> QED
  BY <1>6, <1>7 DEF q, m

FirstUnit(ph) == RoundDown(ph.paddr)
End(ph) == ph.paddr + ph.memsz
FileEnd(ph) == ph.paddr + ph.filesz
SameUnit(ph) == ph.paddr % SectorUnits = ph.offset % SectorUnits
Fitting(ph) == ph \in Headers /\ ph.filesz <= ph.memsz /\ ProgramAddr <= ph.paddr /\ End(ph) <= MemoryUnits
Addressed(m) == DOMAIN m = 0 .. MemoryUnits-1

(* Every unit of a segment that load_program reads is that of the file, what *)
(* it reads before the segment lies in the segment's first sector, and the   *)
(* rest stays.                                                               *)
LEMMA LoadProgram ==
  ASSUME NEW m, Addressed(m), NEW ph, Fitting(ph)
  PROVE  LET l == load_program(m, ph)
         IN  /\ Addressed(l)
             /\ \A a \in 0 .. FirstUnit(ph)-1 : l[a] = m[a]
             /\ \A a \in FirstUnit(ph) .. ph.paddr-1 : a \in 0 .. MemoryUnits-1 =>
                   IF FirstUnit(ph) < FileEnd(ph) /\ SameUnit(ph)
                   THEN l[a] = FileUnit(ph.offset + a - ph.paddr)
                   ELSE FirstUnit(ph) < FileEnd(ph) \/ l[a] = m[a]
             /\ SameUnit(ph) => \A a \in ph.paddr .. FileEnd(ph)-1 : l[a] = FileUnit(ph.offset + a - ph.paddr)
             /\ \A a \in FileEnd(ph) .. End(ph)-1 : l[a] = 0
<1> DEFINE start == RoundDown(ph.paddr)
           bytes == ph.paddr + ph.filesz - start
           read == ((bytes + SectorUnits - 1) \div SectorUnits) * SectorUnits
           unit(a) == 1 + FirstSector(ph.offset) * SectorUnits + (a - start)
           c == copy_from_disk(m, ph.paddr, ph.filesz, ph.offset)
           l == load_program(m, ph)
<1>1. /\ SectorUnits \in Nat \ {0} /\ MemoryUnits \in Nat
      /\ ph.paddr \in Nat /\ ph.offset \in Nat /\ ph.filesz \in Nat /\ ph.memsz \in Nat /\ ph.filesz <= ph.memsz
      /\ ph.paddr + ph.memsz <= MemoryUnits
  BY QemuBootAssumption DEF Fitting, Headers, End
<1>i. ph.paddr \in Int /\ ph.offset \in Int
  BY <1>1
<1>2. start \in Int /\ start <= ph.paddr /\ ph.paddr < start + SectorUnits
  BY <1>i, Rounding
<1>3. start >= 0
  <2>1. start = SectorUnits * (ph.paddr \div SectorUnits) /\ ph.paddr \div SectorUnits \in Int
    BY <1>i, Rounding
  <2> DEFINE q == ph.paddr \div SectorUnits
  <2> HIDE DEF start, q
  <2>2. start = SectorUnits * q /\ q \in Int
    BY <2>1 DEF q
  <2>3. SUFFICES ASSUME q <= -1 PROVE FALSE
    BY <2>2, <1>1
  <2>4. SectorUnits * q <= -SectorUnits
    BY <2>2, <2>3, <1>1
  <2> QED
    BY <2>4, <2>2, <1>1, <1>2
<1>4. bytes \in Nat
  BY <1>1, <1>2
<1>5. read \in Nat /\ bytes <= read /\ (bytes = 0 => read = 0)
  BY <1>4, SectorsRead
<1>6. c = [a \in DOMAIN m |-> IF a \in start .. start + read - 1 THEN unit(a) ELSE m[a]]
  BY DEF copy_from_disk
<1>7. l = [a \in DOMAIN m |-> IF a \in ph.paddr + ph.filesz .. ph.paddr + ph.memsz - 1 THEN 0 ELSE c[a]]
  BY DEF load_program
<1> HIDE DEF c, read, unit, start
<1> HIDE DEF l
<1>8. SameUnit(ph) => \A a \in Int : unit(a) = FileUnit(ph.offset + a - ph.paddr)
  <2> SUFFICES ASSUME SameUnit(ph), NEW a \in Int PROVE unit(a) = FileUnit(ph.offset + a - ph.paddr)
    OBVIOUS
  <2> DEFINE r == ph.paddr % SectorUnits
             k == ph.offset \div SectorUnits
  <2>1. start = ph.paddr - r /\ r \in 0 .. SectorUnits-1
    BY <1>1, <1>i, Division DEF RoundDown, start
  <2>2. k \in Int /\ ph.offset = SectorUnits * k + (ph.offset % SectorUnits)
    BY <1>1, <1>i, Division
  <2>3. unit(a) = 1 + (k + 2 + 1) * SectorUnits + (a - start)
    BY DEF unit, FirstSector, ArgSectors
  <2>4. FileUnit(ph.offset + a - ph.paddr) = 1 + (2 + 1) * SectorUnits + (ph.offset + a - ph.paddr)
    BY DEF FileUnit, ArgSectors
  <2>5. ph.offset % SectorUnits = r
    BY DEF SameUnit
  <2> HIDE DEF r, k
  <2>6. (k + 2 + 1) * SectorUnits = SectorUnits * k + (2 + 1) * SectorUnits
    BY <2>2, <1>1
  <2>7. SectorUnits * k \in Int /\ (2 + 1) * SectorUnits \in Int
    BY <2>2, <1>1
  <2> QED
    BY <2>1, <2>2, <2>3, <2>4, <2>5, <2>6, <2>7, <1>1, <1>2
<1>9. DOMAIN m = 0 .. MemoryUnits-1
  BY DEF Addressed
<1>10. Addressed(l)
  BY <1>7, <1>9 DEF Addressed
<1>11. \A a \in 0 .. MemoryUnits-1 : a < FileEnd(ph) =>
         l[a] = IF a \in start .. start + read - 1 THEN unit(a) ELSE m[a]
  BY <1>1, <1>6, <1>7, <1>9 DEF FileEnd, End
<1>12. \A a \in 0 .. start-1 : l[a] = m[a]
  BY <1>1, <1>2, <1>5, <1>11 DEF FileEnd
<1>13. \A a \in start .. ph.paddr-1 : a \in 0 .. MemoryUnits-1 =>
          IF start < FileEnd(ph) /\ SameUnit(ph)
          THEN l[a] = FileUnit(ph.offset + a - ph.paddr)
          ELSE start < FileEnd(ph) \/ l[a] = m[a]
  <2> SUFFICES ASSUME NEW a \in 0 .. MemoryUnits-1, a \in start .. ph.paddr-1
               PROVE  /\ start < FileEnd(ph) /\ SameUnit(ph) => l[a] = FileUnit(ph.offset + a - ph.paddr)
                      /\ ~(start < FileEnd(ph)) => l[a] = m[a]
    BY <1>2
  <2>1. l[a] = IF a \in start .. start + read - 1 THEN unit(a) ELSE m[a]
    BY <1>1, <1>2, <1>11 DEF FileEnd
  <2>2. ASSUME ~(start < FileEnd(ph)) PROVE l[a] = m[a]
    BY <2>2, <2>1, <1>1, <1>2, <1>5 DEF FileEnd
  <2>3. ASSUME start < FileEnd(ph), SameUnit(ph) PROVE l[a] = FileUnit(ph.offset + a - ph.paddr)
    <3>1. a \in start .. start + read - 1
      BY <2>3, <1>1, <1>2, <1>5 DEF FileEnd
    <3> QED
      BY <3>1, <2>1, <2>3, <1>8
  <2> QED
    BY <2>2, <2>3
<1>14. SameUnit(ph) => \A a \in ph.paddr .. FileEnd(ph)-1 : l[a] = FileUnit(ph.offset + a - ph.paddr)
  <2> SUFFICES ASSUME SameUnit(ph), NEW a \in ph.paddr .. FileEnd(ph)-1
               PROVE  l[a] = FileUnit(ph.offset + a - ph.paddr)
    OBVIOUS
  <2>1. a \in start .. start + read - 1 /\ a \in 0 .. MemoryUnits-1 /\ a < FileEnd(ph) /\ a \in Int
    BY <1>1, <1>2, <1>3, <1>5 DEF FileEnd
  <2> QED
    BY <2>1, <1>8, <1>11
<1>15. \A a \in FileEnd(ph) .. End(ph)-1 : l[a] = 0
  <2> SUFFICES ASSUME NEW a \in FileEnd(ph) .. End(ph)-1 PROVE l[a] = 0
    OBVIOUS
  <2>1. a \in 0 .. MemoryUnits-1
    BY <1>1 DEF FileEnd, End
  <2>2. a \in ph.paddr + ph.filesz .. ph.paddr + ph.memsz - 1
    BY <1>1 DEF FileEnd, End
  <2> QED
    BY <2>1, <2>2, <1>7, <1>9
<1> QED
  BY <1>10, <1>12, <1>13, <1>14, <1>15 DEF l, start, FirstUnit

(* A segment that is in memory stays there when a later one is loaded, if    *)
(* the two fit together as Loadable asks.                                    *)
PlacedIn(m, ph) ==
  /\ \A a \in ph.paddr .. FileEnd(ph)-1 : m[a] = FileUnit(ph.offset + a - ph.paddr)
  /\ \A a \in FileEnd(ph) .. End(ph)-1 : m[a] = 0
Before(ph, qh) ==
  /\ ph.paddr + ph.memsz <= qh.paddr
  /\ Spans(ph) \cap Reads(qh) # {} =>
        /\ ph.memsz = ph.filesz
        /\ qh.paddr - ph.paddr = qh.offset - ph.offset

LEMMA StaysPlaced ==
  ASSUME NEW m, Addressed(m), NEW ph, Fitting(ph), NEW qh, Fitting(qh), SameUnit(qh),
         Before(ph, qh), PlacedIn(m, ph)
  PROVE  PlacedIn(load_program(m, qh), ph)
<1> DEFINE l == load_program(m, qh)
           unit(a) == FileUnit(ph.offset + a - ph.paddr)
<1>1. /\ MemoryUnits \in Nat
      /\ ph.paddr \in Nat /\ ph.offset \in Nat /\ ph.filesz \in Nat /\ ph.memsz \in Nat /\ ph.filesz <= ph.memsz
      /\ qh.paddr \in Nat /\ qh.offset \in Nat /\ qh.filesz \in Nat
      /\ ph.paddr + ph.memsz <= MemoryUnits /\ ph.paddr + ph.memsz <= qh.paddr
  BY QemuBootAssumption DEF Fitting, Headers, End, Before
<1>2. FirstUnit(qh) \in Int /\ FirstUnit(qh) <= qh.paddr /\ qh.paddr < FirstUnit(qh) + SectorUnits
  <2>1. qh.paddr \in Int
    BY <1>1
  <2> QED
    BY <2>1, Rounding DEF FirstUnit
<1>3. \A a \in 0 .. FirstUnit(qh)-1 : l[a] = m[a]
  BY LoadProgram
<1>4. \A a \in FirstUnit(qh) .. qh.paddr-1 : a \in 0 .. MemoryUnits-1 =>
        IF FirstUnit(qh) < FileEnd(qh) /\ SameUnit(qh)
        THEN l[a] = FileUnit(qh.offset + a - qh.paddr)
        ELSE FirstUnit(qh) < FileEnd(qh) \/ l[a] = m[a]
  BY LoadProgram
<1> HIDE DEF l
<1>5. ASSUME NEW a \in ph.paddr .. End(ph)-1, l[a] # m[a]
      PROVE  ph.memsz = ph.filesz /\ l[a] = unit(a)
  <2>1. a \in Nat /\ a < ph.paddr + ph.memsz /\ a \in 0 .. MemoryUnits-1
    BY <1>1 DEF End
  <2>2. FirstUnit(qh) <= a /\ a < qh.paddr
    BY <2>1, <1>1, <1>2, <1>3, <1>5
  <2>3. FirstUnit(qh) < FileEnd(qh) /\ l[a] = FileUnit(qh.offset + a - qh.paddr)
    BY <2>1, <2>2, <1>1, <1>2, <1>4, <1>5
  <2>4. RoundDown(a) = FirstUnit(qh)
    <3>1. a \in Int /\ qh.paddr \in Int /\ RoundDown(qh.paddr) <= a /\ a < RoundDown(qh.paddr) + SectorUnits
      BY <2>1, <2>2, <1>1, <1>2, QemuBootAssumption DEF FirstUnit
    <3> QED
      BY <3>1, SameSector DEF FirstUnit
  <2>5. FirstUnit(qh) \in Spans(ph)
    BY <2>1, <2>4, <1>1 DEF Spans, SectorsOf, End
  <2>6. FirstUnit(qh) \in Reads(qh)
    <3>1. RoundDown(FirstUnit(qh)) = FirstUnit(qh)
      <4>1. FirstUnit(qh) \in Int /\ qh.paddr \in Int /\ RoundDown(qh.paddr) <= FirstUnit(qh)
            /\ FirstUnit(qh) < RoundDown(qh.paddr) + SectorUnits
        BY <1>1, <1>2, QemuBootAssumption DEF FirstUnit
      <4> QED
        BY <4>1, SameSector DEF FirstUnit
    <3>2. FirstUnit(qh) \in FirstUnit(qh) .. FileEnd(qh)-1
      BY <2>3, <1>1, <1>2 DEF FileEnd
    <3>3. FirstUnit(qh) \in SectorsOf(FirstUnit(qh), FileEnd(qh))
      BY <3>1, <3>2 DEF SectorsOf
    <3> QED
      BY <3>3, <2>3 DEF Reads, FirstUnit, FileEnd
  <2>7. ph.memsz = ph.filesz /\ qh.paddr - ph.paddr = qh.offset - ph.offset
    BY <2>5, <2>6 DEF Before
  <2>8. qh.offset + a - qh.paddr = ph.offset + a - ph.paddr
    BY <2>1, <2>7, <1>1
  <2> QED
    BY <2>3, <2>7, <2>8
<1>6. \A a \in ph.paddr .. FileEnd(ph)-1 : m[a] = unit(a)
  BY DEF PlacedIn
<1> HIDE DEF unit
<1>7. ASSUME NEW a \in ph.paddr .. FileEnd(ph)-1 PROVE l[a] = unit(a)
  <2>1. a \in ph.paddr .. End(ph)-1
    BY <1>1 DEF FileEnd, End
  <2> QED
    BY <2>1, <1>5, <1>6
<1>8. ASSUME NEW a \in FileEnd(ph) .. End(ph)-1 PROVE l[a] = 0
  <2>1. a \in ph.paddr .. End(ph)-1 /\ ph.memsz # ph.filesz
    BY <1>1 DEF FileEnd, End
  <2>2. m[a] = 0
    BY DEF PlacedIn
  <2> QED
    BY <2>1, <2>2, <1>5
<1> QED
  BY <1>7, <1>8 DEF PlacedIn, l, unit

(* The argument and the ELF header as load_kernel leaves them.               *)
LEMMA Argument ==
  ASSUME NEW m, Addressed(m)
  PROVE  LET arg == copy_from_disk(m, MainargAddr, ArgSectors * SectorUnits, -(ArgSectors * SectorUnits))
             elf == copy_from_disk(arg, ElfAddr, SectorUnits, 0)
         IN  Addressed(elf) /\ \A i \in 0 .. ArgSectors * SectorUnits - 1 : elf[i] = ArgUnit(i)
<1> DEFINE arg == copy_from_disk(m, MainargAddr, ArgSectors * SectorUnits, -(ArgSectors * SectorUnits))
           elf == copy_from_disk(arg, ElfAddr, SectorUnits, 0)
<1>1. SectorUnits \in Nat \ {0} /\ MemoryUnits \in Nat /\ 2 * SectorUnits + SectorUnits <= MemoryUnits
  BY QemuBootAssumption DEF ProgramAddr, ElfAddr, ArgSectors
<1>2. 0 \in 0 .. SectorUnits-1 /\ SectorUnits-1 \in 0 .. SectorUnits-1 /\ SectorUnits \in Int
  BY <1>1
<1>3. RoundDown(0) = 0 /\ RoundDown(2 * SectorUnits) = 2 * SectorUnits
  <2>1. (SectorUnits * 0 + 0) % SectorUnits = 0 /\ (SectorUnits * 2 + 0) % SectorUnits = 0
    BY <1>1, <1>2, Quotient
  <2>2. SectorUnits * 0 + 0 = 0 /\ SectorUnits * 2 + 0 = 2 * SectorUnits
    BY <1>2
  <2> QED
    BY <2>1, <2>2, <1>2 DEF RoundDown
<1>4. (0 + 2 * SectorUnits - 0 + SectorUnits - 1) \div SectorUnits = 2
  <2>1. (SectorUnits * 2 + (SectorUnits-1)) \div SectorUnits = 2
    BY <1>1, <1>2, Quotient
  <2>2. SectorUnits * 2 + (SectorUnits-1) = 0 + 2 * SectorUnits - 0 + SectorUnits - 1
    BY <1>2
  <2> QED
    BY <2>1, <2>2
<1>5. FirstSector(-(2 * SectorUnits)) = 1
  <2>1. (SectorUnits * (-2) + 0) \div SectorUnits = -2
    BY <1>1, <1>2, Quotient
  <2>2. SectorUnits * (-2) + 0 = -(2 * SectorUnits)
    BY <1>2
  <2> QED
    BY <2>1, <2>2 DEF FirstSector, ArgSectors
<1>6. arg = [a \in 0 .. MemoryUnits-1 |-> IF a \in 0 .. 0 + 2 * SectorUnits - 1
                                          THEN 1 + 1 * SectorUnits + (a - 0) ELSE m[a]]
  BY <1>3, <1>4, <1>5 DEF copy_from_disk, Addressed, ArgSectors, MainargAddr
<1> HIDE DEF arg
<1>7. DOMAIN arg = 0 .. MemoryUnits-1 /\ \A i \in 0 .. 2 * SectorUnits - 1 : arg[i] = 1 + SectorUnits + i
  BY <1>1, <1>2, <1>6
<1>8. DOMAIN elf = 0 .. MemoryUnits-1
  BY <1>7 DEF copy_from_disk
<1>9. \A i \in 0 .. 2 * SectorUnits - 1 : elf[i] = arg[i]
  <2> DEFINE sectors == (ElfAddr + SectorUnits - 2 * SectorUnits + SectorUnits - 1) \div SectorUnits
             onDisk(a) == 1 + FirstSector(0) * SectorUnits + (a - 2 * SectorUnits)
  <2>1. elf = [a \in DOMAIN arg |-> IF a \in 2 * SectorUnits .. 2 * SectorUnits + sectors * SectorUnits - 1
                                    THEN onDisk(a) ELSE arg[a]]
    BY <1>3 DEF copy_from_disk, ElfAddr, ArgSectors
  <2> HIDE DEF sectors, onDisk, elf
  <2> QED
    BY <2>1, <1>1, <1>2, <1>7
<1> QED
  BY <1>7, <1>8, <1>9 DEF Addressed, ArgUnit, ArgSectors, arg

(* The table of the BIOS: where its entries lie.                             *)
Kinds == {"cpu", "io"}
Cpus0(table, n) == {i \in 1..n : table[i] = "cpu"}

LEMMA NextEntry ==
  ASSUME NEW table \in Seq(Kinds), NEW n \in Nat
  PROVE  /\ IsFiniteSet(Cpus0(table, n)) /\ Cardinality(Cpus0(table, n)) \in Nat
         /\ EntryAt(table, n) \in Nat /\ EntryAt(table, 0) = 0
         /\ Cardinality(Cpus0(table, n+1)) = Cardinality(Cpus0(table, n)) + (IF table[n+1] = "cpu" THEN 1 ELSE 0)
         /\ EntryAt(table, n+1) = EntryAt(table, n) + 8 + Skip(table[n+1])
<1>1. IsFiniteSet(Cpus0(table, n)) /\ Cardinality(Cpus0(table, n)) \in Nat
  <2>1. IsFiniteSet(1..n) /\ Cpus0(table, n) \in SUBSET (1..n)
    BY FS_Interval DEF Cpus0
  <2>2. IsFiniteSet(Cpus0(table, n))
    BY <2>1, FS_Subset
  <2> QED
    BY <2>2, FS_CardinalityType
<1>2. Cardinality(Cpus0(table, n+1)) = Cardinality(Cpus0(table, n)) + (IF table[n+1] = "cpu" THEN 1 ELSE 0)
  <2>1. CASE table[n+1] = "cpu"
    <3>1. Cpus0(table, n+1) = Cpus0(table, n) \cup {n+1} /\ n+1 \notin Cpus0(table, n)
      BY <2>1 DEF Cpus0
    <3> QED
      BY <3>1, <2>1, <1>1, FS_AddElement
  <2>2. CASE table[n+1] # "cpu"
    <3>1. Cpus0(table, n+1) = Cpus0(table, n)
      BY <2>2 DEF Cpus0
    <3> QED
      BY <3>1, <2>2, <1>1
  <2> QED
    BY <2>1, <2>2
<1>3. Cardinality(Cpus0(table, 0)) = 0
  <2>1. Cpus0(table, 0) = {}
    BY DEF Cpus0
  <2> QED
    BY <2>1, FS_EmptySet
<1>4. \A k : EntryAt(table, k) = 8 * k + 12 * Cardinality(Cpus0(table, k))
  BY DEF EntryAt, Cpus0
<1>5. EntryAt(table, n) = 8 * n + 12 * Cardinality(Cpus0(table, n))
      /\ EntryAt(table, n+1) = 8 * (n+1) + 12 * Cardinality(Cpus0(table, n+1))
      /\ EntryAt(table, 0) = 0
  BY <1>3, <1>4
<1> QED
  BY <1>1, <1>2, <1>5 DEF Skip

LEMMA EntriesApart ==
  ASSUME NEW table \in Seq(Kinds), NEW i \in Nat, NEW j \in Nat, i < j
  PROVE  EntryAt(table, i) + 8 <= EntryAt(table, j)
<1> DEFINE Far == {k \in Nat : EntryAt(table, i) + 8 <= EntryAt(table, i + 1 + k)}
<1>1. \A k \in Nat : EntryAt(table, k) \in Nat /\ EntryAt(table, k) + 8 <= EntryAt(table, k+1)
  <2> SUFFICES ASSUME NEW k \in Nat
               PROVE  EntryAt(table, k) \in Nat /\ EntryAt(table, k) + 8 <= EntryAt(table, k+1)
    OBVIOUS
  <2>1. EntryAt(table, k) \in Nat /\ EntryAt(table, k+1) = EntryAt(table, k) + 8 + Skip(table[k+1])
    BY NextEntry
  <2>2. Skip(table[k+1]) \in Nat
    BY DEF Skip
  <2> QED
    BY <2>1, <2>2
<1>2. 0 \in Far
  <2>1. i + 1 + 0 = i + 1
    OBVIOUS
  <2>2. EntryAt(table, i) + 8 <= EntryAt(table, i + 1)
    BY <1>1
  <2> QED
    BY <2>1, <2>2
<1>3. ASSUME NEW k \in Nat, k \in Far PROVE k + 1 \in Far
  <2> DEFINE m == i + 1 + k
  <2>1. m \in Nat /\ i + 1 + (k + 1) = m + 1
    OBVIOUS
  <2>2. EntryAt(table, i) + 8 <= EntryAt(table, m)
    BY <1>3
  <2> HIDE DEF m
  <2>3. EntryAt(table, i) + 8 <= EntryAt(table, m + 1)
    <3>1. EntryAt(table, m) + 8 <= EntryAt(table, m + 1)
      BY <2>1, <1>1
    <3>2. m + 1 \in Nat
      BY <2>1
    <3> DEFINE k1 == m + 1
    <3> HIDE DEF k1
    <3>3. EntryAt(table, i) \in Nat /\ EntryAt(table, m) \in Nat /\ EntryAt(table, m + 1) \in Nat
      <4>1. EntryAt(table, i) \in Nat /\ EntryAt(table, m) \in Nat
        BY <2>1, NextEntry
      <4>2. EntryAt(table, k1) \in Nat
        <5>1. k1 \in Nat
          BY <3>2 DEF k1
        <5> QED
          BY <5>1, NextEntry
      <4> QED
        BY <4>1, <4>2 DEF k1
    <3> QED
      BY <3>1, <3>3, <2>2
  <2> QED
    BY <2>1, <2>3
<1>4. Nat \subseteq Far
  <2> HIDE DEF Far
  <2> QED
    BY <1>2, <1>3, NatSteps
<1>5. j - i - 1 \in Nat /\ i + 1 + (j - i - 1) = j
  OBVIOUS
<1>6. j - i - 1 \in Far
  BY <1>4, <1>5
<1> QED
  BY <1>5, <1>6

Found(table, ptr) == IF EntryOf(table, ptr) = {} THEN "inside an entry"
                     ELSE table[CHOOSE i \in EntryOf(table, ptr) : TRUE]
Ends(table) == EntryAt(table, Len(table))
Scan(table, scan) ==
  [ptr \in 0 .. Ends(table) + 20 |->
     IF ptr >= Ends(table) THEN 0
     ELSE (IF Found(table, ptr) = "cpu" THEN 1 ELSE 0) + scan[ptr + 8 + Skip(Found(table, ptr))]]

LEMMA ScanExists ==
  ASSUME NEW table \in Seq(Kinds)
  PROVE  \E scan : CountCpus(table) = scan[0] /\ scan = Scan(table, scan)
<1> DEFINE D == 0 .. Ends(table) + 20
           size == [p \in D |-> Ends(table) + 20 - p]
           stops == {p \in D : p >= Ends(table)}
           base == [p \in D |-> 0]
           nxt == [p \in D |-> p + 8 + Skip(Found(table, p))]
           G == [p \in D |-> [v \in Nat |-> (IF Found(table, p) = "cpu" THEN 1 ELSE 0) + v]]
<1>1. Ends(table) \in Nat
  BY NextEntry DEF Ends
<1>2. Shrinks(D, Nat, size, stops, base, nxt, G)
  <2>1. size \in [D -> Nat] /\ base \in [D -> Nat]
    BY <1>1
  <2>2. G \in [D -> [Nat -> Nat]]
    OBVIOUS
  <2>3. \A x \in D \ stops : nxt[x] \in D /\ size[nxt[x]] < size[x]
    BY <1>1 DEF Skip
  <2> HIDE DEF D, size, base, nxt, G, stops
  <2> QED
    BY <2>1, <2>2, <2>3 DEF Shrinks
<1>3. PICK f \in [D -> Nat] : \A x \in D : Unfolds(f, x, stops, base, nxt, G)
  <2> HIDE DEF D, size, base, nxt, G, stops
  <2> QED
    BY <1>2, Recursion
<1>4. ASSUME NEW x \in D
      PROVE  f[x] = IF x >= Ends(table) THEN 0
                    ELSE (IF Found(table, x) = "cpu" THEN 1 ELSE 0) + f[x + 8 + Skip(Found(table, x))]
  <2>1. f[x] = IF x \in stops THEN base[x] ELSE G[x][f[nxt[x]]]
    BY <1>3 DEF Unfolds
  <2>2. base[x] = 0 /\ (x \in stops <=> x >= Ends(table)) /\ nxt[x] = x + 8 + Skip(Found(table, x))
    OBVIOUS
  <2>3. x \notin stops => nxt[x] \in D
    BY <1>2 DEF Shrinks
  <2>4. \A v \in Nat : G[x][v] = (IF Found(table, x) = "cpu" THEN 1 ELSE 0) + v
    OBVIOUS
  <2> HIDE DEF D, stops, base, nxt, G
  <2> QED
    BY <2>1, <2>2, <2>3, <2>4
<1>5. f = Scan(table, f)
  BY <1>4 DEF Scan
<1> DEFINE s == CHOOSE scan : scan = Scan(table, scan)
<1>6. CountCpus(table) = s[0]
  BY DEF CountCpus, Scan, Found, Ends
<1> HIDE DEF D
<1>7. s = Scan(table, s)
  BY <1>5
<1> HIDE DEF s
<1> QED
  BY <1>6, <1>7

(* From the start of an entry the walk counts the processors from there on.  *)
LEMMA AllCounted ==
  ASSUME NEW table \in Seq(Kinds)
  PROVE  CountCpus(table) = Cardinality({i \in DOMAIN table : table[i] = "cpu"})
<1> DEFINE N(n) == Cardinality(Cpus0(table, n))
           L == Len(table)
<1>1. PICK scan : CountCpus(table) = scan[0] /\ scan = Scan(table, scan)
  BY ScanExists
<1>2. L \in Nat /\ DOMAIN table = 1..L /\ Ends(table) \in Nat /\ Ends(table) = EntryAt(table, L)
  BY NextEntry DEF Ends
<1>3. ASSUME NEW p \in 0 .. Ends(table) + 20
      PROVE  scan[p] = IF p >= Ends(table) THEN 0
                       ELSE (IF Found(table, p) = "cpu" THEN 1 ELSE 0) + scan[p + 8 + Skip(Found(table, p))]
  BY <1>1 DEF Scan
<1>4. ASSUME NEW n \in 0 .. L-1 PROVE Found(table, EntryAt(table, n)) = table[n+1]
  <2>1. n+1 \in EntryOf(table, EntryAt(table, n))
    BY <1>2 DEF EntryOf
  <2>2. ASSUME NEW i \in EntryOf(table, EntryAt(table, n)) PROVE i = n+1
    <3>1. i \in 1..L /\ EntryAt(table, i-1) = EntryAt(table, n) /\ i-1 \in Nat /\ n \in Nat
      BY <1>2 DEF EntryOf
    <3>2. EntryAt(table, i-1) \in Nat
      BY <3>1, NextEntry
    <3>3. ~(i-1 < n) /\ ~(n < i-1)
      BY <3>1, <3>2, EntriesApart
    <3> QED
      BY <3>1, <3>3
  <2> QED
    BY <2>1, <2>2 DEF Found
<1> DEFINE Left == {k \in Nat : k <= L => scan[EntryAt(table, L-k)] = N(L) - N(L-k)}
<1>5. 0 \in Left
  <2>1. scan[Ends(table)] = 0
    BY <1>2, <1>3
  <2>2. N(L) \in Nat
    BY <1>2, NextEntry
  <2> HIDE DEF N, L
  <2> QED
    BY <1>2, <2>1, <2>2
<1>6. ASSUME NEW k \in Nat, k \in Left PROVE k + 1 \in Left
  <2>1. SUFFICES ASSUME k + 1 <= L PROVE scan[EntryAt(table, L-(k+1))] = N(L) - N(L-(k+1))
    OBVIOUS
  <2> DEFINE n == L - (k+1)
             e == table[n+1]
             p == EntryAt(table, n)
  <2>2. n \in Nat /\ n < L /\ n \in 0 .. L-1 /\ L - k = n + 1 /\ k <= L
    BY <1>2, <2>1
  <2>3. scan[EntryAt(table, n+1)] = N(L) - N(n+1)
    BY <1>6, <2>2
  <2>4. /\ p \in Nat /\ N(n) \in Nat
        /\ N(n+1) = N(n) + (IF e = "cpu" THEN 1 ELSE 0)
        /\ EntryAt(table, n+1) = p + 8 + Skip(e)
    BY <2>2, NextEntry
  <2>5. N(L) \in Nat
    BY <1>2, NextEntry
  <2>6. p + 8 <= Ends(table)
    BY <1>2, <2>2, EntriesApart
  <2>7. Found(table, p) = e
    BY <2>2, <1>4
  <2> HIDE DEF N, n, e, p
  <2>8. scan[p] = (IF e = "cpu" THEN 1 ELSE 0) + scan[p + 8 + Skip(e)]
    <3>1. p \in 0 .. Ends(table) + 20 /\ ~(p >= Ends(table))
      BY <1>2, <2>4, <2>6
    <3> QED
      BY <3>1, <2>7, <1>3
  <2>9. scan[p] = N(L) - N(n)
    BY <2>3, <2>4, <2>5, <2>8
  <2> QED
    BY <2>9 DEF n, p
<1>7. Nat \subseteq Left
  <2> HIDE DEF Left
  <2> QED
    BY <1>5, <1>6, NatSteps
<1>8. scan[EntryAt(table, L-L)] = N(L) - N(L-L)
  BY <1>2, <1>7
<1>9. EntryAt(table, 0) = 0 /\ N(0) = 0 /\ N(L) \in Nat
  <2>1. Cpus0(table, 0) = {}
    BY DEF Cpus0
  <2>2. EntryAt(table, 0) = 0 /\ N(L) \in Nat
    BY <1>2, NextEntry
  <2> QED
    BY <2>1, <2>2, FS_EmptySet
<1>10. CountCpus(table) = N(L)
  <2>1. L - L = 0
    BY <1>2
  <2> HIDE DEF N, L
  <2> QED
    BY <1>1, <1>8, <1>9, <2>1
<1> QED
  BY <1>2, <1>10 DEF Cpus0

(* The loader, step by step.                                                 *)
BootTypes ==
  /\ booting \in {"bios", "load_elf", "_start_c", "main", "panic"}
  /\ headers \in Seq(Headers) /\ \A i \in DOMAIN headers : Fitting(headers[i])
  /\ mp_table \in Seq(Kinds) /\ Addressed(memory) /\ loaded \in 0 .. Len(headers)
ArgumentIn == booting # "bios" => \A i \in 0 .. ArgSectors * SectorUnits - 1 : memory[i] = ArgUnit(i)
SegmentsIn == Loadable(headers) => \A i \in 1..loaded : PlacedIn(memory, headers[i])
AllLoaded == booting = "bios" => loaded = 0
AllDone == booting \in {"_start_c", "main", "panic"} => loaded = Len(headers)
AllCpus == booting = "main" => am_ncpu = CountCpus(mp_table)
BootInv == BootTypes /\ ArgumentIn /\ SegmentsIn /\ AllLoaded /\ AllDone /\ AllCpus

LEMMA BootStarts == BootInit => BootInv
<1> SUFFICES ASSUME NEW phs \in Images, NEW table \in MpTables, PowerOn(phs, table) PROVE BootInv
  BY DEF BootInit
<1>1. booting = "bios" /\ headers = phs /\ loaded = 0 /\ mp_table = table /\ Addressed(memory)
  BY DEF PowerOn, Addressed
<1>2. /\ phs \in Seq(Headers) /\ \A i \in DOMAIN phs : Fitting(phs[i])
  <2>1. phs \in Seq(Headers) /\ \A i \in DOMAIN phs : /\ phs[i].filesz <= phs[i].memsz
                                                   /\ ProgramAddr <= phs[i].paddr
                                                   /\ phs[i].paddr + phs[i].memsz <= MemoryUnits
    BY QemuBootAssumption
  <2>2. \A i \in DOMAIN phs : phs[i] \in Headers
    BY <2>1
  <2> HIDE DEF Headers
  <2> QED
    BY <2>1, <2>2 DEF Fitting, End
<1>3. table \in Seq(Kinds)
  BY QemuBootAssumption DEF Kinds
<1>4. loaded \in 0 .. Len(headers) /\ 1..loaded = {}
  BY <1>1, <1>2
<1> QED
  BY <1>1, <1>2, <1>3, <1>4 DEF BootInv, BootTypes, ArgumentIn, SegmentsIn, AllLoaded, AllDone, AllCpus

LEMMA EarlierIndex ==
  ASSUME NEW n \in Nat, NEW l \in Nat, l + 1 <= n, NEW i \in 1..l
  PROVE  i \in 1..n /\ l + 1 \in i+1 .. n
OBVIOUS

LEMMA BootKept == BootInv /\ [BootNext]_bootVars => BootInv'
<1> SUFFICES ASSUME BootInv, [BootNext]_bootVars PROVE BootInv'
  OBVIOUS
<1> USE DEF BootInv, BootTypes, ArgumentIn, SegmentsIn, AllLoaded, AllDone, AllCpus
<1>1. CASE load_kernel
  <2>1. Addressed(memory') /\ \A i \in 0 .. ArgSectors * SectorUnits - 1 : memory'[i] = ArgUnit(i)
    BY <1>1, Argument DEF load_kernel
  <2>2. loaded' = 0 /\ 1..loaded' = {} /\ booting' = "load_elf" /\ headers' = headers /\ mp_table' = mp_table
        /\ loaded' \in 0 .. Len(headers)
    BY <1>1 DEF load_kernel
  <2> QED
    BY <2>1, <2>2
<1>2. CASE load_elf /\ loaded < Len(headers)
  <2> DEFINE ph == headers[loaded + 1]
  <2>1. /\ memory' = load_program(memory, ph) /\ loaded' = loaded + 1
        /\ headers' = headers /\ mp_table' = mp_table /\ booting = "load_elf" /\ booting' = "load_elf"
    BY <1>2 DEF load_elf
  <2>2. loaded \in Nat /\ loaded + 1 \in DOMAIN headers /\ Fitting(ph) /\ loaded + 1 <= Len(headers) /\ Len(headers) \in Nat
        /\ DOMAIN headers = 1..Len(headers)
    BY <1>2
  <2>3. loaded' \in 0 .. Len(headers)
    BY <2>1, <2>2
  <2>4. Addressed(memory')
    BY <2>1, <2>2, LoadProgram
  <2>5. ASSUME NEW i \in 0 .. ArgSectors * SectorUnits - 1 PROVE memory'[i] = ArgUnit(i)
    <3>1. /\ SectorUnits \in Nat \ {0} /\ ph.paddr \in Nat /\ 2 * SectorUnits + SectorUnits <= ph.paddr
      BY <2>2, QemuBootAssumption DEF Fitting, Headers, ProgramAddr, ElfAddr, ArgSectors
    <3>2. FirstUnit(ph) \in Int /\ ph.paddr < FirstUnit(ph) + SectorUnits
      <4>1. ph.paddr \in Int
        BY <3>1
      <4> QED
        BY <4>1, Rounding DEF FirstUnit
    <3>3. i \in 0 .. FirstUnit(ph)-1
      BY <3>1, <3>2 DEF ArgSectors
    <3>4. memory'[i] = memory[i]
      BY <3>3, <2>1, <2>2, LoadProgram
    <3> QED
      BY <3>4, <2>1
  <2>6. ASSUME Loadable(headers), NEW i \in 1..loaded' PROVE PlacedIn(memory', headers[i])
    <3>0. SameUnit(ph)
      BY <2>2, <2>6 DEF Loadable, SameUnit
    <3>1. CASE i = loaded + 1
      BY <3>0, <3>1, <2>1, <2>2, LoadProgram DEF PlacedIn
    <3>2. CASE i \in 1..loaded
      <4>1. PlacedIn(memory, headers[i])
        BY <2>6, <3>2
      <4>2. i \in DOMAIN headers /\ Fitting(headers[i]) /\ loaded + 1 \in i+1 .. Len(headers)
        <5>1. i \in 1..Len(headers) /\ loaded + 1 \in i+1 .. Len(headers)
          BY <2>2, <3>2, EarlierIndex
        <5>2. i \in DOMAIN headers
          BY <5>1, <2>2
        <5> QED
          BY <5>1, <5>2
      <4>3. Before(headers[i], ph)
        BY <2>6, <4>2 DEF Loadable, Before
      <4> HIDE DEF ph
      <4> QED
        BY <3>0, <4>1, <4>2, <4>3, <2>1, <2>2, StaysPlaced
    <3> QED
      BY <2>1, <2>2, <3>1, <3>2
  <2> HIDE DEF ph
  <2> QED
    BY <2>1, <2>3, <2>4, <2>5, <2>6
<1>3. CASE load_elf /\ ~(loaded < Len(headers))
  <2>1. /\ memory' = memory /\ loaded' = loaded /\ booting = "load_elf" /\ booting' = "_start_c"
        /\ headers' = headers /\ mp_table' = mp_table
    BY <1>3 DEF load_elf
  <2>2. loaded = Len(headers)
    BY <1>3
  <2> QED
    BY <2>1, <2>2
<1>4. CASE am_lapic_init
  <2>1. /\ memory' = memory /\ loaded' = loaded /\ headers' = headers /\ mp_table' = mp_table
        /\ booting = "_start_c" /\ booting' \in {"main", "panic"}
        /\ booting' = "main" => am_ncpu' = CountCpus(mp_table)
    BY <1>4 DEF am_lapic_init
  <2> QED
    BY <2>1
<1>5. CASE UNCHANGED bootVars
  <2>1. /\ memory' = memory /\ loaded' = loaded /\ headers' = headers /\ mp_table' = mp_table
        /\ booting' = booting /\ am_ncpu' = am_ncpu
    BY <1>5 DEF bootVars
  <2> QED
    BY <2>1
<1> QED
  BY <1>1, <1>2, <1>3, <1>4, <1>5 DEF BootNext

(* When the program starts, every segment of a file that can be loaded is in *)
(* memory with its zeros, the argument is as it was on the disk, and every   *)
(* processor of the table is counted (boot/main.c:23-92, trm.c:70-87).       *)
THEOREM BootRightHolds == BootSpec => []BootRight
<1>1. BootInv => BootRight
  <2> SUFFICES ASSUME BootInv, booting = "main"
               PROVE  /\ Loadable(headers) => \A i \in DOMAIN headers : Placed(headers[i])
                      /\ \A i \in 0 .. ArgSectors * SectorUnits - 1 : memory[MainargAddr + i] = ArgUnit(i)
                      /\ am_ncpu = Cardinality({i \in DOMAIN mp_table : mp_table[i] = "cpu"})
    BY DEF BootRight
  <2>1. ASSUME Loadable(headers), NEW i \in DOMAIN headers PROVE Placed(headers[i])
    <3> DEFINE ph == headers[i]
    <3>1. i \in 1..loaded
      BY DEF BootInv, BootTypes, AllDone
    <3>2. PlacedIn(memory, ph)
      BY <3>1, <2>1 DEF BootInv, SegmentsIn
    <3>3. ph.paddr \in Nat /\ ph.offset \in Nat /\ ph.filesz \in Nat /\ ph.memsz \in Nat
      BY DEF BootInv, BootTypes, Fitting, Headers
    <3> HIDE DEF ph
    <3>4. ASSUME NEW j \in 0 .. ph.filesz-1 PROVE memory[ph.paddr + j] = FileUnit(ph.offset + j)
      <4>1. ph.paddr + j \in ph.paddr .. FileEnd(ph)-1 /\ ph.offset + (ph.paddr + j) - ph.paddr = ph.offset + j
        BY <3>3 DEF FileEnd
      <4>2. memory[ph.paddr + j] = FileUnit(ph.offset + (ph.paddr + j) - ph.paddr)
        BY <4>1, <3>2 DEF PlacedIn
      <4> QED
        BY <4>1, <4>2
    <3>5. ASSUME NEW j \in ph.filesz .. ph.memsz-1 PROVE memory[ph.paddr + j] = 0
      <4>1. ph.paddr + j \in FileEnd(ph) .. End(ph)-1
        BY <3>3 DEF FileEnd, End
      <4> QED
        BY <4>1, <3>2 DEF PlacedIn
    <3> QED
      BY <3>4, <3>5 DEF Placed, ph
  <2>2. ASSUME NEW i \in 0 .. ArgSectors * SectorUnits - 1 PROVE memory[MainargAddr + i] = ArgUnit(i)
    <3>1. MainargAddr + i = i
      BY QemuBootAssumption DEF MainargAddr, ArgSectors
    <3> QED
      BY <3>1 DEF BootInv, ArgumentIn
  <2>3. am_ncpu = Cardinality({i \in DOMAIN mp_table : mp_table[i] = "cpu"})
    BY AllCounted DEF BootInv, BootTypes, AllCpus
  <2> QED
    BY <2>1, <2>2, <2>3
<1> QED
  BY BootStarts, BootKept, <1>1, PTL DEF BootSpec

-----------------------------------------------------------------------------
(* Pixels.  A place of a picture is one number of its column and row, and    *)
(* scaling keeps a column inside the picture.                                *)
LEMMA OnePlace ==
  ASSUME NEW w \in Nat \ {0}, NEW x \in 0..w-1, NEW y \in Int, NEW i \in 0..w-1, NEW j \in Int,
         At(w, x, y) = At(w, i, j)
  PROVE  x = i /\ y = j
<1>1. (w*y + x) \div w = y /\ (w*y + x) % w = x
  BY Quotient
<1>2. (w*j + i) \div w = j /\ (w*j + i) % w = i
  BY Quotient
<1>3. w*y + x = w*j + i
  BY DEF At
<1> DEFINE m == w*y + x
           n == w*j + i
<1> HIDE DEF m, n
<1>4. m = n
  BY <1>3 DEF m, n
<1>5. m \div w = y /\ m % w = x /\ n \div w = j /\ n % w = i
  BY <1>1, <1>2 DEF m, n
<1> QED
  BY <1>4, <1>5

LEMMA PlaceBelow ==
  ASSUME NEW w \in Nat \ {0}, NEW h \in Nat, NEW x \in 0..w-1, NEW y \in 0..h-1
  PROVE  At(w, x, y) \in 0 .. w*h - 1
<1>0. w \in Int /\ h \in Int /\ x \in Int /\ y \in Int /\ w > 0 /\ 0 <= x /\ x <= w - 1 /\ 0 <= y /\ y <= h - 1
  OBVIOUS
<1>1. w*y >= 0 /\ w*y \in Int
  BY <1>0
<1>2. w*h = w*y + w*(h - y) /\ w*(h - y) >= w
  BY <1>0
<1> DEFINE p == w*y
           q == w*h
           r == w*(h - y)
<1>3. p \in Int /\ q \in Int /\ r \in Int /\ p >= 0 /\ q = p + r /\ r >= w /\ At(w, x, y) = p + x
  BY <1>0, <1>1, <1>2 DEF At
<1> HIDE DEF p, q, r
<1>4. At(w, x, y) \in 0 .. q - 1
  BY <1>0, <1>3
<1> QED
  BY <1>4 DEF q

LEMMA Scaled ==
  ASSUME NEW w \in Nat, NEW v \in Nat \ {0}, NEW i \in 0..v-1, w # 0
  PROVE  (i * w) \div v \in 0..w-1
<1> DEFINE n == i * w
           q == n \div v
           r == n % v
<1>0. w \in Int /\ w > 0 /\ v \in Int /\ v > 0 /\ i \in Int /\ 0 <= i /\ i <= v - 1
  OBVIOUS
<1>1. n \in Int /\ n >= 0 /\ v*w - n = (v - i)*w
  BY <1>0
<1>2. (v - i)*w >= w /\ v*w \in Int
  BY <1>0
<1>3. n <= v*w - w
  <2> DEFINE a == (v - i)*w
             b == v*w
  <2>1. b - n = a /\ a >= w /\ a \in Int /\ b \in Int
    BY <1>0, <1>1, <1>2
  <2> HIDE DEF a, b, n
  <2>2. n <= b - w
    BY <2>1, <1>1, <1>0
  <2> QED
    BY <2>2 DEF b
<1>4. q \in Int /\ r \in Int /\ 0 <= r /\ r < v /\ n = v*q + r
  <2>1. q \in Int /\ r \in 0..v-1 /\ n = v*q + r
    BY <1>1, Division
  <2> HIDE DEF q, r
  <2> QED
    BY <2>1, <1>0
<1> HIDE DEF n
<1> HIDE DEF q, r
<1>5. q <= w - 1
  <2> SUFFICES ASSUME q >= w PROVE FALSE
    BY <1>0, <1>4
  <2>1. v*q >= v*w
    BY <1>0, <1>4
  <2>2. v*q \in Int /\ v*w \in Int
    BY <1>0, <1>4
  <2> QED
    BY <2>1, <2>2, <1>0, <1>1, <1>3, <1>4
<1>6. q >= 0
  <2> SUFFICES ASSUME q <= -1 PROVE FALSE
    BY <1>4
  <2>1. v*q <= -v /\ v*q \in Int
    BY <1>0, <1>4
  <2> QED
    BY <2>1, <1>0, <1>1, <1>4
<1>7. q \in 0..w-1
  BY <1>0, <1>4, <1>5, <1>6
<1> QED
  BY <1>7 DEF q, n

LEMMA Display == /\ Width \in Nat \ {0} /\ Height \in Nat \ {0} /\ VbufSize \in Nat
                 /\ Vbuf \in Nat \ {0}
BY QemuGpuAssumption DEF Vbuf

-----------------------------------------------------------------------------
(* What Blit does to each pixel.                                             *)
Source(cv, local, x, y) ==
  local[At(cv.w, ((x - cv.x1) * cv.w) \div cv.w1, ((y - cv.y1) * cv.h) \div cv.h1)]
Sized(cv) == /\ cv.w \in Nat \ {0} /\ cv.h \in Nat \ {0} /\ cv.x1 \in Nat /\ cv.y1 \in Nat
             /\ cv.w1 \in Nat /\ cv.h1 \in Nat
Target(st, h) == st.to .. st.to + st.w * h - 1

LEMMA SourceInside ==
  ASSUME NEW cv, Sized(cv), NEW x \in Nat, NEW y \in Nat, Covers(cv, x, y)
  PROVE  /\ ((x - cv.x1) * cv.w) \div cv.w1 \in 0 .. cv.w-1
         /\ ((y - cv.y1) * cv.h) \div cv.h1 \in 0 .. cv.h-1
         /\ At(cv.w, ((x - cv.x1) * cv.w) \div cv.w1, ((y - cv.y1) * cv.h) \div cv.h1)
              \in 0 .. cv.w * cv.h - 1
<1> DEFINE i == x - cv.x1
           j == y - cv.y1
           a == (i * cv.w) \div cv.w1
           b == (j * cv.h) \div cv.h1
<1>1. i \in 0 .. cv.w1 - 1 /\ j \in 0 .. cv.h1 - 1 /\ cv.w1 \in Nat \ {0} /\ cv.h1 \in Nat \ {0}
  BY DEF Sized, Covers
<1> HIDE DEF i, j
<1>2. a \in 0 .. cv.w-1 /\ b \in 0 .. cv.h-1
  BY <1>1, Scaled DEF Sized
<1> HIDE DEF a, b
<1>3. At(cv.w, a, b) \in 0 .. cv.w * cv.h - 1
  BY <1>2, PlaceBelow DEF Sized
<1> QED
  BY <1>2, <1>3 DEF a, b, i, j

LEMMA BlitAt ==
  ASSUME NEW st, st.w \in Nat \ {0}, st.to \in Nat, NEW cv, Sized(cv), NEW h \in Nat,
         Inside(cv, st.w, h), NEW px, NEW local,
         NEW x \in 0 .. st.w-1, NEW y \in Nat, st.to + At(st.w, x, y) \in Memory
  PROVE  Blit(st, cv, px, local)[st.to + At(st.w, x, y)] =
           IF Covers(cv, x, y) THEN Source(cv, local, x, y) ELSE px[st.to + At(st.w, x, y)]
<1> DEFINE a == st.to + At(st.w, x, y)
           hits == {p \in (0..cv.w1-1) \X (0..cv.h1-1) :
                      a = st.to + At(st.w, cv.x1 + p[1], cv.y1 + p[2])}
           q == CHOOSE p \in hits : TRUE
           b == local[At(cv.w, (q[1] * cv.w) \div cv.w1, (q[2] * cv.h) \div cv.h1)]
<1>1. Blit(st, cv, px, local)[a] = IF hits = {} THEN px[a] ELSE b
  BY DEF Blit
<1>2. ASSUME NEW p \in hits PROVE p[1] = x - cv.x1 /\ p[2] = y - cv.y1 /\ Covers(cv, x, y)
  <2> DEFINE i == p[1]
             j == p[2]
  <2>1. i \in 0..cv.w1-1 /\ j \in 0..cv.h1-1 /\ a = st.to + At(st.w, cv.x1 + i, cv.y1 + j)
    OBVIOUS
  <2> HIDE DEF i, j, hits
  <2>2. cv.x1 + i \in 0 .. st.w-1 /\ cv.y1 + j \in Nat
    BY <2>1 DEF Sized, Inside
  <2>3. At(st.w, x, y) \in Int /\ At(st.w, cv.x1 + i, cv.y1 + j) \in Int
    BY <2>2 DEF At
  <2>4. At(st.w, x, y) = At(st.w, cv.x1 + i, cv.y1 + j)
    BY <2>1, <2>3
  <2>5. x = cv.x1 + i /\ y = cv.y1 + j
    BY <2>2, <2>4, OnePlace
  <2>6. i = x - cv.x1 /\ j = y - cv.y1 /\ Covers(cv, x, y)
    BY <2>1, <2>5 DEF Sized, Covers
  <2> QED
    BY <2>6 DEF i, j
<1>3. ASSUME Covers(cv, x, y) PROVE <<x - cv.x1, y - cv.y1>> \in hits
  <2> DEFINE i == x - cv.x1
             j == y - cv.y1
  <2>1. i \in 0..cv.w1-1 /\ j \in 0..cv.h1-1 /\ cv.x1 + i = x /\ cv.y1 + j = y
    BY <1>3 DEF Sized, Covers
  <2> HIDE DEF i, j
  <2>2. <<i, j>> \in hits
    BY <2>1
  <2> QED
    BY <2>2 DEF i, j
<1>4. CASE Covers(cv, x, y)
  <2>1. hits # {}
    BY <1>3, <1>4
  <2>2. q \in hits
    BY <2>1
  <2> HIDE DEF hits, q
  <2>3. q[1] = x - cv.x1 /\ q[2] = y - cv.y1
    BY <2>2, <1>2
  <2>4. b = Source(cv, local, x, y)
    BY <2>3 DEF Source
  <2> HIDE DEF b, a
  <2>5. Blit(st, cv, px, local)[a] = Source(cv, local, x, y)
    BY <1>1, <2>1, <2>4
  <2> QED
    BY <2>5, <1>4 DEF a
<1>5. CASE ~Covers(cv, x, y)
  <2>1. hits = {}
    <3> HIDE DEF hits
    <3> QED
      BY <1>2, <1>5
  <2> HIDE DEF hits, b, a
  <2>2. Blit(st, cv, px, local)[a] = px[a]
    BY <1>1, <2>1
  <2> QED
    BY <2>2, <1>5 DEF a
<1> QED
  BY <1>4, <1>5

LEMMA BlitElsewhere ==
  ASSUME NEW st, st.w \in Nat \ {0}, st.to \in Nat, NEW cv, Sized(cv), NEW h \in Nat,
         Inside(cv, st.w, h), NEW px, NEW local, NEW a \in Memory, a \notin Target(st, h)
  PROVE  Blit(st, cv, px, local)[a] = px[a]
<1> DEFINE hits == {p \in (0..cv.w1-1) \X (0..cv.h1-1) :
                      a = st.to + At(st.w, cv.x1 + p[1], cv.y1 + p[2])}
<1>1. hits = {}
  <2> SUFFICES ASSUME NEW p \in hits PROVE FALSE
    OBVIOUS
  <2> DEFINE i == p[1]
             j == p[2]
  <2>1. i \in 0..cv.w1-1 /\ j \in 0..cv.h1-1 /\ a = st.to + At(st.w, cv.x1 + i, cv.y1 + j)
    OBVIOUS
  <2> HIDE DEF i, j, hits
  <2> DEFINE m == cv.x1 + i
             n == cv.y1 + j
  <2>2. m \in 0 .. st.w-1 /\ n \in 0 .. h-1
    BY <2>1 DEF Sized, Inside
  <2>3. a = st.to + At(st.w, m, n)
    BY <2>1
  <2> HIDE DEF m, n
  <2>4. At(st.w, m, n) \in 0 .. st.w * h - 1
    BY <2>2, PlaceBelow
  <2> DEFINE z == st.w * h
             c == At(st.w, m, n)
  <2>5. z \in Int /\ c \in 0 .. z-1 /\ a = st.to + c
    BY <2>3, <2>4
  <2> HIDE DEF z, c
  <2>6. a \in st.to .. st.to + z - 1
    BY <2>5
  <2> QED
    BY <2>6 DEF Target, z
<1> HIDE DEF hits
<1>2. Blit(st, cv, px, local)[a] = IF hits = {} THEN px[a]
        ELSE LET p == CHOOSE p \in hits : TRUE
             IN  local[At(cv.w, (p[1] * cv.w) \div cv.w1, (p[2] * cv.h) \div cv.h1)]
  BY DEF Blit, hits
<1> QED
  BY <1>1, <1>2

LEMMA BlitTyped ==
  ASSUME NEW st, NEW cv, Sized(cv), NEW px \in [Memory -> Nat],
         NEW local, \A i \in 0 .. cv.w * cv.h - 1 : local[i] \in Nat
  PROVE  Blit(st, cv, px, local) \in [Memory -> Nat]
<1> SUFFICES ASSUME NEW a \in Memory PROVE Blit(st, cv, px, local)[a] \in Nat
  BY DEF Blit
<1> DEFINE hits == {p \in (0..cv.w1-1) \X (0..cv.h1-1) :
                      a = st.to + At(st.w, cv.x1 + p[1], cv.y1 + p[2])}
           q == CHOOSE p \in hits : TRUE
<1>1. Blit(st, cv, px, local)[a] = IF hits = {} THEN px[a]
        ELSE local[At(cv.w, (q[1] * cv.w) \div cv.w1, (q[2] * cv.h) \div cv.h1)]
  BY DEF Blit
<1>2. ASSUME hits # {} PROVE q[1] \in 0..cv.w1-1 /\ q[2] \in 0..cv.h1-1
  <2>1. q \in hits
    BY <1>2
  <2> HIDE DEF q
  <2> QED
    BY <2>1
<1> HIDE DEF hits
<1> DEFINE i == q[1]
           j == q[2]
           b == (i * cv.w) \div cv.w1
           d == (j * cv.h) \div cv.h1
<1>3. ASSUME hits # {} PROVE local[At(cv.w, b, d)] \in Nat
  <2>1. i \in 0..cv.w1-1 /\ j \in 0..cv.h1-1
    BY <1>2, <1>3
  <2> HIDE DEF i, j
  <2>2. cv.w1 \in Nat \ {0} /\ cv.h1 \in Nat \ {0}
    BY <2>1 DEF Sized
  <2>3. b \in 0 .. cv.w-1 /\ d \in 0 .. cv.h-1
    BY <2>1, <2>2, Scaled DEF Sized
  <2> HIDE DEF b, d
  <2>4. At(cv.w, b, d) \in 0 .. cv.w * cv.h - 1
    BY <2>3, PlaceBelow DEF Sized
  <2> QED
    BY <2>4
<1> QED
  BY <1>1, <1>3

-----------------------------------------------------------------------------
(* The recursive definitions have functions that meet them.                  *)
LEMMA CanvasSized ==
  ASSUME NEW cv, Canvas(cv)
  PROVE  Sized(cv)
BY DEF Canvas, Sized

LEMMA AllocTyped ==
  ASSUME NEW st \in Painters, ~st.panic, NEW cv, Canvas(cv)
  PROVE  /\ vbuf_alloc(st, cv) \in Painters
         /\ VbufFits(st.head + cv.w * cv.h) =>
              LET room == vbuf_alloc(st, cv)
              IN  /\ room.head = st.head + cv.w * cv.h /\ room.w = cv.w /\ room.to = st.head
                  /\ ~room.panic
                  /\ \A a \in Memory : room.px[a] =
                       IF a \in st.head .. st.head + cv.w * cv.h - 1 THEN 0 ELSE st.px[a]
         /\ ~VbufFits(st.head + cv.w * cv.h) =>
              vbuf_alloc(st, cv).panic /\ vbuf_alloc(st, cv).px = st.px
<1>1. cv.w \in Nat /\ cv.h \in Nat
  BY CanvasSized DEF Sized
<1> DEFINE head == st.head + cv.w * cv.h
           room == vbuf_alloc(st, cv)
           px == [a \in Memory |-> IF a \in st.head .. head - 1 THEN 0 ELSE st.px[a]]
<1>2. head \in Nat
  BY <1>1 DEF Painters
<1>3. px \in [Memory -> Nat]
  BY DEF Painters
<1>4. room = IF ~VbufFits(head) THEN [st EXCEPT !.panic = TRUE]
             ELSE [st EXCEPT !.head = head, !.w = cv.w, !.to = st.head, !.px = px]
  BY DEF vbuf_alloc
<1>5. \A a \in Memory : px[a] = IF a \in st.head .. head - 1 THEN 0 ELSE st.px[a]
  OBVIOUS
<1>e. st.head + cv.w * cv.h = head
  OBVIOUS
<1> HIDE DEF head, px, room
<1>6. CASE VbufFits(head)
  <2>1. room = [px |-> px, head |-> head, panic |-> FALSE, w |-> cv.w, to |-> st.head]
    BY <1>4, <1>6 DEF Painters
  <2>2. room \in Painters
    BY <2>1, <1>1, <1>2, <1>3 DEF Painters
  <2>3. /\ room.head = head /\ room.w = cv.w /\ room.to = st.head /\ ~room.panic /\ room.px = px
    BY <2>1
  <2>4. \A a \in Memory : room.px[a] = IF a \in st.head .. head - 1 THEN 0 ELSE st.px[a]
    BY <2>3, <1>5
  <2>5. VbufFits(st.head + cv.w * cv.h)
    BY <1>6, <1>e, Zenon
  <2>6. /\ room.head = st.head + cv.w * cv.h /\ room.w = cv.w /\ room.to = st.head /\ ~room.panic
        /\ \A a \in Memory : room.px[a] =
                IF a \in st.head .. st.head + cv.w * cv.h - 1 THEN 0 ELSE st.px[a]
    <3>1. st.head + cv.w * cv.h - 1 = head - 1
      <4> DEFINE z == cv.w * cv.h
      <4>1. z \in Nat /\ st.head \in Nat /\ head = st.head + z
        BY <1>1, <1>e DEF Painters
      <4> HIDE DEF z
      <4>2. st.head + z - 1 = head - 1
        BY <4>1
      <4> QED
        BY <4>2 DEF z
    <3>2. room.head = st.head + cv.w * cv.h /\ room.w = cv.w /\ room.to = st.head /\ ~room.panic
      BY <2>3, <1>e
    <3>3. ASSUME NEW a \in Memory
          PROVE  room.px[a] = IF a \in st.head .. st.head + cv.w * cv.h - 1 THEN 0 ELSE st.px[a]
      <4>1. room.px[a] = IF a \in st.head .. head - 1 THEN 0 ELSE st.px[a]
        BY <2>4
      <4> QED
        BY <4>1, <3>1
    <3> QED
      BY <3>2, <3>3
  <2> QED
    BY <2>2, <2>5, <2>6, Zenon DEF room
<1>7. CASE ~VbufFits(head)
  <2>1. room = [st EXCEPT !.panic = TRUE]
    BY <1>4, <1>7
  <2>2. room \in Painters /\ room.panic /\ room.px = st.px
    BY <2>1 DEF Painters
  <2> QED
    BY <2>2, <1>7 DEF head, room
<1> QED
  BY <1>6, <1>7

Keepers == {g \in [Painters -> Painters] : \A s \in Painters : s.panic => g[s].panic}

\* What the local picture of a canvas is, and that its pixels are there.
Texels(cv) == [i \in 0..cv.w*cv.h-1 |-> cv.pixels[i+1]]
Local(cv, st, px) == [i \in 0..cv.w*cv.h-1 |-> px[st.head + i]]

LEMMA TexelsTyped ==
  ASSUME NEW cv, Canvas(cv), cv.type = "texture"
  PROVE  \A i \in 0 .. cv.w * cv.h - 1 : Texels(cv)[i] = cv.pixels[i+1] /\ Texels(cv)[i] \in Nat
<1> SUFFICES ASSUME NEW i \in 0 .. cv.w * cv.h - 1
             PROVE  Texels(cv)[i] = cv.pixels[i+1] /\ Texels(cv)[i] \in Nat
  OBVIOUS
<1>1. cv.pixels \in Seq(Nat) /\ cv.w * cv.h <= Len(cv.pixels) /\ cv.w \in Nat /\ cv.h \in Nat
  BY DEF Canvas
<1> DEFINE z == cv.w * cv.h
<1>2. z \in Nat /\ i \in 0 .. z-1 /\ z <= Len(cv.pixels)
  BY <1>1
<1>3. Texels(cv)[i] = cv.pixels[i+1]
  BY DEF Texels
<1> HIDE DEF z
<1>4. i + 1 \in 1 .. Len(cv.pixels)
  BY <1>1, <1>2
<1>5. cv.pixels[i+1] \in Nat
  BY <1>1, <1>4
<1> QED
  BY <1>3, <1>5

LEMMA BufferedTyped ==
  ASSUME NEW cv, Canvas(cv), NEW st \in Painters, VbufFits(st.head + cv.w * cv.h),
         NEW px \in [Memory -> Nat]
  PROVE  \A i \in 0 .. cv.w * cv.h - 1 :
            /\ st.head + i \in Memory
            /\ Local(cv, st, px)[i] = px[st.head + i] /\ Local(cv, st, px)[i] \in Nat
<1> SUFFICES ASSUME NEW i \in 0 .. cv.w * cv.h - 1
             PROVE  /\ st.head + i \in Memory
                    /\ Local(cv, st, px)[i] = px[st.head + i] /\ Local(cv, st, px)[i] \in Nat
  OBVIOUS
<1>1. cv.w \in Nat /\ cv.h \in Nat
  BY DEF Canvas
<1>2. Local(cv, st, px)[i] = px[st.head + i]
  BY DEF Local
<1> DEFINE z == cv.w * cv.h
<1>3. z \in Nat /\ i \in 0 .. z-1 /\ st.head + z <= Vbuf + VbufSize /\ st.head \in Nat
  BY <1>1 DEF VbufFits, Painters
<1> HIDE DEF z
<1>4. st.head + i \in Memory
  BY <1>3, Display DEF Memory
<1> QED
  BY <1>2, <1>4

\* What render gives, by kind of canvas.
LEMMA RenderIs ==
  ASSUME NEW st \in Painters, ~st.panic, NEW cv, Canvas(cv), NEW children
  PROVE  LET below == children[vbuf_alloc(st, cv)]
         IN  /\ cv.type = "texture" =>
                  render(st, cv, children) = [st EXCEPT !.px = Blit(st, cv, st.px, Texels(cv))]
             /\ cv.type = "subtree" =>
                  render(st, cv, children) =
                    [st EXCEPT !.head = below.head, !.panic = below.panic,
                               !.px = IF below.panic THEN below.px
                                      ELSE Blit(st, cv, below.px, Local(cv, st, below.px))]
BY DEF render, Texels, Local

LEMMA RenderTyped ==
  ASSUME NEW st \in Painters, ~st.panic, NEW cv, Canvas(cv), NEW children,
         cv.type = "subtree" => LET below == children[vbuf_alloc(st, cv)]
                                IN  /\ below \in Painters
                                    /\ vbuf_alloc(st, cv).panic => below.panic
  PROVE  /\ render(st, cv, children) \in Painters
         /\ render(st, cv, children).w = st.w /\ render(st, cv, children).to = st.to
<1> DEFINE r == render(st, cv, children)
           below == children[vbuf_alloc(st, cv)]
<1>0. Sized(cv) /\ cv.type \in {"texture", "subtree"}
  BY CanvasSized DEF Canvas
<1>1. CASE cv.type = "texture"
  <2> DEFINE px == Blit(st, cv, st.px, Texels(cv))
  <2>1. px \in [Memory -> Nat]
    BY <1>0, <1>1, TexelsTyped, BlitTyped DEF Painters
  <2>2. r = [st EXCEPT !.px = px]
    BY <1>1, RenderIs
  <2> HIDE DEF px, r
  <2>3. r \in Painters /\ r.w = st.w /\ r.to = st.to
    BY <2>1, <2>2 DEF Painters
  <2> QED
    BY <2>3 DEF r
<1>2. CASE cv.type = "subtree"
  <2> DEFINE px == IF below.panic THEN below.px
                   ELSE Blit(st, cv, below.px, Local(cv, st, below.px))
  <2>1. r = [st EXCEPT !.head = below.head, !.panic = below.panic, !.px = px]
    BY <1>2, RenderIs
  <2>2. below \in Painters /\ (vbuf_alloc(st, cv).panic => below.panic)
    BY <1>2
  <2> HIDE DEF below
  <2>3. ASSUME ~below.panic PROVE Blit(st, cv, below.px, Local(cv, st, below.px)) \in [Memory -> Nat]
    <3>1. VbufFits(st.head + cv.w * cv.h)
      BY <2>2, <2>3, AllocTyped
    <3>2. below.px \in [Memory -> Nat]
      BY <2>2 DEF Painters
    <3>3. \A i \in 0 .. cv.w * cv.h - 1 : Local(cv, st, below.px)[i] \in Nat
      BY <3>1, <3>2, BufferedTyped
    <3> QED
      BY <1>0, <3>2, <3>3, BlitTyped
  <2>4. px \in [Memory -> Nat]
    BY <2>2, <2>3 DEF Painters
  <2> HIDE DEF px, r
  <2>5. r \in Painters /\ r.w = st.w /\ r.to = st.to
    BY <2>1, <2>2, <2>4 DEF Painters
  <2> QED
    BY <2>5 DEF r
<1> QED
  BY <1>0, <1>1, <1>2

Links(t) ==
  /\ Len(t) \in Nat \ {0}
  /\ \A k \in 1..Len(t) : Canvas(t[k]) /\ t[k].sibling \in 0..k-1 /\ Child(t[k]) \in 0..k-1

LEMMA TreeLinks ==
  ASSUME NEW t, NEW parent, IsTree(t, parent)
  PROVE  Links(t)
BY DEF IsTree, Links

LoopAt(t, f, k, st) ==
  IF k = Null \/ st.panic THEN st ELSE f[t[k].sibling][render(st, t[k], f[Child(t[k])])]
Looped(t, f) == f = [k \in 0..Len(t) |-> [st \in Painters |-> LoopAt(t, f, k, st)]]

LEMMA LoopIs ==
  ASSUME NEW t, Links(t)
  PROVE  Looped(t, Loop(t))
<1> DEFINE n == Len(t)
           G == [k \in 0..n |-> [h \in [0..k-1 -> Keepers] |-> [st \in Painters |-> LoopAt(t, h, k, st)]]]
<1>0. n \in Nat
  BY DEF Links
<1>1. ASSUME NEW k \in 0..n, NEW h \in [0..k-1 -> Keepers]
      PROVE  G[k][h] = [st \in Painters |-> LoopAt(t, h, k, st)]
  OBVIOUS
<1>2. ASSUME NEW k \in 0..n, NEW h \in [0..k-1 -> Keepers]
      PROVE  [st \in Painters |-> LoopAt(t, h, k, st)] \in Keepers
  <2> DEFINE g == [st \in Painters |-> LoopAt(t, h, k, st)]
  <2>1. ASSUME NEW st \in Painters PROVE LoopAt(t, h, k, st) \in Painters
    <3>1. CASE k = Null \/ st.panic
      BY <3>1 DEF LoopAt
    <3>2. CASE ~(k = Null \/ st.panic)
      <4> DEFINE cv == t[k]
                 c == h[Child(cv)]
                 s == h[cv.sibling]
      <4>1. k \in 1..n
        BY <3>2 DEF Null
      <4>2. Canvas(cv) /\ cv.sibling \in 0..k-1 /\ Child(cv) \in 0..k-1
        BY <4>1 DEF Links
      <4>3. c \in Keepers /\ s \in Keepers
        BY <4>2
      <4> HIDE DEF c, s, cv
      <4>4. vbuf_alloc(st, cv) \in Painters
        BY <4>2, <3>2, AllocTyped
      <4>5. c[vbuf_alloc(st, cv)] \in Painters /\ (vbuf_alloc(st, cv).panic => c[vbuf_alloc(st, cv)].panic)
        BY <4>3, <4>4 DEF Keepers
      <4>6. render(st, cv, c) \in Painters
        BY <4>2, <4>5, <3>2, RenderTyped
      <4>7. s[render(st, cv, c)] \in Painters
        BY <4>3, <4>6 DEF Keepers
      <4>8. LoopAt(t, h, k, st) = s[render(st, cv, c)]
        BY <3>2 DEF LoopAt, s, c, cv
      <4> QED
        BY <4>7, <4>8
    <3> QED
      BY <3>1, <3>2
  <2>2. g \in [Painters -> Painters]
    BY <2>1
  <2>3. ASSUME NEW st \in Painters, st.panic PROVE g[st].panic
    BY <2>3 DEF LoopAt
  <2> HIDE DEF g
  <2>4. g \in Keepers
    BY <2>2, <2>3 DEF Keepers
  <2> QED
    BY <2>4 DEF g
<1> HIDE DEF G
<1>3. Makes(n, Keepers, G)
  BY <1>1, <1>2 DEF Makes
<1>4. PICK f \in [0..n -> Keepers] : \A k \in 0..n : f[k] = G[k][[i \in 0..k-1 |-> f[i]]]
  <2> HIDE DEF n
  <2> QED
    BY <1>0, <1>3, CourseOfValues
<1>5. ASSUME NEW k \in 0..n PROVE f[k] = [st \in Painters |-> LoopAt(t, f, k, st)]
  <2> DEFINE h == [i \in 0..k-1 |-> f[i]]
  <2>1. h \in [0..k-1 -> Keepers]
    BY <1>0
  <2>2. \A i \in 0..k-1 : h[i] = f[i]
    OBVIOUS
  <2>3. f[k] = G[k][h]
    BY <1>4
  <2> HIDE DEF h
  <2>4. f[k] = [st \in Painters |-> LoopAt(t, h, k, st)]
    BY <2>1, <2>3, <1>1
  <2>5. ASSUME NEW st \in Painters PROVE LoopAt(t, h, k, st) = LoopAt(t, f, k, st)
    <3>1. CASE k = Null
      BY <3>1 DEF LoopAt
    <3>2. CASE k # Null
      <4>1. k \in 1..n
        BY <3>2 DEF Null
      <4>2. t[k].sibling \in 0..k-1 /\ Child(t[k]) \in 0..k-1
        BY <4>1 DEF Links
      <4>3. h[t[k].sibling] = f[t[k].sibling] /\ h[Child(t[k])] = f[Child(t[k])]
        BY <4>2, <2>2
      <4> QED
        BY <4>3 DEF LoopAt
    <3> QED
      BY <3>1, <3>2
  <2> QED
    BY <2>4, <2>5
<1>6. f = [k \in 0..n |-> f[k]]
  BY <1>4
<1>7. Looped(t, f)
  BY <1>5, <1>6 DEF Looped
<1>8. Loop(t) = CHOOSE g : Looped(t, g)
  BY DEF Loop, Looped, LoopAt
<1> QED
  BY <1>7, <1>8

TopAt(t, f, k, p) ==
  IF k = Null THEN Unpainted
  ELSE IF f[t[k].sibling][p] # Unpainted THEN f[t[k].sibling][p]
  ELSE IF Covers(t[k], p[1], p[2]) THEN Colour(t[k], p[1], p[2], f[Child(t[k])])
  ELSE Unpainted
Topped(t, f) == f = [k \in 0..Len(t) |-> [p \in Nat \X Nat |-> TopAt(t, f, k, p)]]
Layers == [Nat \X Nat -> Nat \cup {Unpainted}]

LEMMA ColourTyped ==
  ASSUME NEW cv, Canvas(cv), NEW x \in Nat, NEW y \in Nat, Covers(cv, x, y), NEW children \in Layers
  PROVE  Colour(cv, x, y, children) \in Nat
<1> DEFINE i == ((x - cv.x1) * cv.w) \div cv.w1
           j == ((y - cv.y1) * cv.h) \div cv.h1
           a == At(cv.w, i, j)
<1>1. i \in 0 .. cv.w-1 /\ j \in 0 .. cv.h-1 /\ a \in 0 .. cv.w * cv.h - 1
  BY CanvasSized, SourceInside
<1>2. cv.w \in Nat /\ cv.h \in Nat
  BY DEF Canvas
<1> HIDE DEF i, j
<1>3. i \in Nat /\ j \in Nat
  BY <1>1, <1>2
<1>4. CASE cv.type = "texture"
  <2>1. Colour(cv, x, y, children) = cv.pixels[a + 1]
    BY <1>4 DEF Colour, i, j
  <2> HIDE DEF a
  <2> QED
    BY <2>1, <1>1, <1>4, TexelsTyped
<1>5. CASE cv.type # "texture"
  <2>1. Colour(cv, x, y, children) = IF children[<<i, j>>] = Unpainted THEN 0 ELSE children[<<i, j>>]
    BY <1>5 DEF Colour, i, j
  <2>2. children[<<i, j>>] \in Nat \cup {Unpainted}
    BY <1>3 DEF Layers
  <2> QED
    BY <2>1, <2>2
<1> QED
  BY <1>4, <1>5

LEMMA TopsIs ==
  ASSUME NEW t, Links(t)
  PROVE  Topped(t, Tops(t)) /\ \A k \in 0..Len(t) : Tops(t)[k] \in Layers
<1> DEFINE n == Len(t)
           G == [k \in 0..n |-> [h \in [0..k-1 -> Layers] |-> [p \in Nat \X Nat |-> TopAt(t, h, k, p)]]]
<1>0. n \in Nat
  BY DEF Links
<1>1. ASSUME NEW k \in 0..n, NEW h \in [0..k-1 -> Layers]
      PROVE  G[k][h] = [p \in Nat \X Nat |-> TopAt(t, h, k, p)]
  OBVIOUS
<1>a. ASSUME NEW k \in 0..n, NEW h, \A i \in 0..k-1 : h[i] \in Layers
      PROVE  [p \in Nat \X Nat |-> TopAt(t, h, k, p)] \in Layers
  <2>1. ASSUME NEW p \in Nat \X Nat PROVE TopAt(t, h, k, p) \in Nat \cup {Unpainted}
    <3>1. CASE k = Null
      BY <3>1 DEF TopAt
    <3>2. CASE k # Null
      <4> DEFINE cv == t[k]
                 c == h[Child(cv)]
                 s == h[cv.sibling]
      <4>1. k \in 1..n
        BY <3>2 DEF Null
      <4>2. Canvas(cv) /\ cv.sibling \in 0..k-1 /\ Child(cv) \in 0..k-1
        BY <4>1 DEF Links
      <4>3. c \in Layers /\ s \in Layers
        BY <4>2, <1>a
      <4>4. p[1] \in Nat /\ p[2] \in Nat
        OBVIOUS
      <4>5. TopAt(t, h, k, p) = IF s[p] # Unpainted THEN s[p]
                                ELSE IF Covers(cv, p[1], p[2]) THEN Colour(cv, p[1], p[2], c) ELSE Unpainted
        BY <3>2 DEF TopAt
      <4> HIDE DEF c, s, cv
      <4>6. s[p] \in Nat \cup {Unpainted}
        BY <4>3 DEF Layers
      <4>7. Covers(cv, p[1], p[2]) => Colour(cv, p[1], p[2], c) \in Nat
        BY <4>2, <4>3, <4>4, ColourTyped
      <4> QED
        BY <4>5, <4>6, <4>7
    <3> QED
      BY <3>1, <3>2
  <2> QED
    BY <2>1 DEF Layers
<1> HIDE DEF G
<1>3. Makes(n, Layers, G)
  <2> SUFFICES ASSUME NEW k \in 0..n, NEW h \in [0..k-1 -> Layers] PROVE G[k][h] \in Layers
    BY DEF Makes
  <2>1. \A i \in 0..k-1 : h[i] \in Layers
    OBVIOUS
  <2>2. [p \in Nat \X Nat |-> TopAt(t, h, k, p)] \in Layers
    BY <2>1, <1>a
  <2>3. G[k][h] = [p \in Nat \X Nat |-> TopAt(t, h, k, p)]
    BY <1>1
  <2> QED
    BY <2>2, <2>3
<1>4. PICK f \in [0..n -> Layers] : \A k \in 0..n : f[k] = G[k][[i \in 0..k-1 |-> f[i]]]
  <2> HIDE DEF n
  <2> QED
    BY <1>0, <1>3, CourseOfValues
<1>5. ASSUME NEW k \in 0..n PROVE f[k] = [p \in Nat \X Nat |-> TopAt(t, f, k, p)]
  <2> DEFINE h == [i \in 0..k-1 |-> f[i]]
  <2>1. h \in [0..k-1 -> Layers]
    BY <1>0
  <2>2. \A i \in 0..k-1 : h[i] = f[i]
    OBVIOUS
  <2>3. f[k] = G[k][h]
    BY <1>4
  <2> HIDE DEF h
  <2>4. f[k] = [p \in Nat \X Nat |-> TopAt(t, h, k, p)]
    BY <2>1, <2>3, <1>1
  <2>5. ASSUME NEW p \in Nat \X Nat PROVE TopAt(t, h, k, p) = TopAt(t, f, k, p)
    <3>1. CASE k = Null
      BY <3>1 DEF TopAt
    <3>2. CASE k # Null
      <4>1. k \in 1..n
        BY <3>2 DEF Null
      <4>2. t[k].sibling \in 0..k-1 /\ Child(t[k]) \in 0..k-1
        BY <4>1 DEF Links
      <4>3. h[t[k].sibling] = f[t[k].sibling] /\ h[Child(t[k])] = f[Child(t[k])]
        BY <4>2, <2>2
      <4> QED
        BY <4>3 DEF TopAt
    <3> QED
      BY <3>1, <3>2
  <2> QED
    BY <2>4, <2>5
<1>6. f = [k \in 0..n |-> f[k]]
  BY <1>4
<1>7. Topped(t, f)
  BY <1>5, <1>6 DEF Topped
<1>8. Tops(t) = CHOOSE g : Topped(t, g)
  BY DEF Tops, Topped, TopAt
<1>9. Topped(t, Tops(t))
  BY <1>7, <1>8
<1> DEFINE T == Tops(t)
           S == {m \in Nat : \A k \in 0..n : k < m => T[k] \in Layers}
<1>10. \A k \in 0..n : T[k] = [p \in Nat \X Nat |-> TopAt(t, T, k, p)]
  <2> HIDE DEF T
  <2>1. T = [k \in 0..n |-> [p \in Nat \X Nat |-> TopAt(t, T, k, p)]]
    BY <1>9 DEF Topped, T
  <2> QED
    BY <2>1
<1> HIDE DEF T
<1>11. 0 \in S
  BY <1>0
<1>12. ASSUME NEW m \in Nat, m \in S PROVE m + 1 \in S
  <2>1. ASSUME NEW k \in 0..n, k < m + 1 PROVE T[k] \in Layers
    <3>1. \A i \in 0..k-1 : T[i] \in Layers
      <4> SUFFICES ASSUME NEW i \in 0..k-1 PROVE T[i] \in Layers
        OBVIOUS
      <4>1. i \in 0..n /\ i < m
        BY <2>1, <1>0
      <4> QED
        BY <4>1, <1>12
    <3>2. [p \in Nat \X Nat |-> TopAt(t, T, k, p)] \in Layers
      BY <3>1, <1>a
    <3> QED
      BY <3>2, <1>10
  <2> QED
    BY <2>1
<1>13. Nat \subseteq S
  <2> HIDE DEF S
  <2> QED
    BY <1>11, <1>12, NatSteps
<1>14. ASSUME NEW k \in 0..n PROVE T[k] \in Layers
  <2>1. n + 1 \in S /\ k < n + 1
    BY <1>0, <1>13
  <2> QED
    BY <2>1
<1> QED
  BY <1>9, <1>14 DEF T

AreaAt(t, f, k) == IF k = Null THEN 0 ELSE Takes(t[k], f[Child(t[k])]) + f[t[k].sibling]
Summed(t, f) == f = [k \in 0..Len(t) |-> AreaAt(t, f, k)]

LEMMA TakesTyped ==
  ASSUME NEW cv, Canvas(cv), NEW n \in Nat
  PROVE  Takes(cv, n) \in Nat
<1>1. cv.w \in Nat /\ cv.h \in Nat
  BY DEF Canvas
<1>2. cv.w * cv.h \in Nat
  BY <1>1
<1> QED
  BY <1>2 DEF Takes

LEMMA AreasIs ==
  ASSUME NEW t, Links(t)
  PROVE  Summed(t, Areas(t)) /\ \A k \in 0..Len(t) : Areas(t)[k] \in Nat
<1> DEFINE n == Len(t)
           G == [k \in 0..n |-> [h \in [0..k-1 -> Nat] |-> AreaAt(t, h, k)]]
<1>0. n \in Nat
  BY DEF Links
<1>1. ASSUME NEW k \in 0..n, NEW h \in [0..k-1 -> Nat] PROVE G[k][h] = AreaAt(t, h, k)
  OBVIOUS
<1>a. ASSUME NEW k \in 0..n, NEW h, \A i \in 0..k-1 : h[i] \in Nat PROVE AreaAt(t, h, k) \in Nat
  <2>1. CASE k = Null
    BY <2>1 DEF AreaAt
  <2>2. CASE k # Null
    <3>1. k \in 1..n
      BY <2>2 DEF Null
    <3>2. Canvas(t[k]) /\ t[k].sibling \in 0..k-1 /\ Child(t[k]) \in 0..k-1
      BY <3>1 DEF Links
    <3>3. h[t[k].sibling] \in Nat /\ Takes(t[k], h[Child(t[k])]) \in Nat
      BY <3>2, <1>a, TakesTyped
    <3> QED
      BY <3>3, <2>2 DEF AreaAt
  <2> QED
    BY <2>1, <2>2
<1> HIDE DEF G
<1>3. Makes(n, Nat, G)
  BY <1>1, <1>a DEF Makes
<1>4. PICK f \in [0..n -> Nat] : \A k \in 0..n : f[k] = G[k][[i \in 0..k-1 |-> f[i]]]
  <2> HIDE DEF n
  <2> QED
    BY <1>0, <1>3, CourseOfValues
<1>5. ASSUME NEW k \in 0..n PROVE f[k] = AreaAt(t, f, k)
  <2> DEFINE h == [i \in 0..k-1 |-> f[i]]
  <2>1. h \in [0..k-1 -> Nat]
    BY <1>0
  <2>2. \A i \in 0..k-1 : h[i] = f[i]
    OBVIOUS
  <2>3. f[k] = G[k][h]
    BY <1>4
  <2> HIDE DEF h
  <2>4. f[k] = AreaAt(t, h, k)
    BY <2>1, <2>3, <1>1
  <2>5. CASE k = Null
    BY <2>4, <2>5 DEF AreaAt
  <2>6. CASE k # Null
    <3>1. k \in 1..n
      BY <2>6 DEF Null
    <3>2. t[k].sibling \in 0..k-1 /\ Child(t[k]) \in 0..k-1
      BY <3>1 DEF Links
    <3>3. h[t[k].sibling] = f[t[k].sibling] /\ h[Child(t[k])] = f[Child(t[k])]
      BY <3>2, <2>2
    <3> QED
      BY <3>3, <2>4 DEF AreaAt
  <2> QED
    BY <2>5, <2>6
<1>6. f = [k \in 0..n |-> f[k]]
  BY <1>4
<1>7. Summed(t, f)
  BY <1>5, <1>6 DEF Summed
<1>8. Areas(t) = CHOOSE g : Summed(t, g)
  BY DEF Areas, Summed, AreaAt
<1>9. Summed(t, Areas(t))
  BY <1>7, <1>8
<1> DEFINE T == Areas(t)
           S == {m \in Nat : \A k \in 0..n : k < m => T[k] \in Nat}
<1>10. \A k \in 0..n : T[k] = AreaAt(t, T, k)
  <2> HIDE DEF T
  <2>1. T = [k \in 0..n |-> AreaAt(t, T, k)]
    BY <1>9 DEF Summed, T
  <2> QED
    BY <2>1
<1> HIDE DEF T
<1>11. 0 \in S
  BY <1>0
<1>12. ASSUME NEW m \in Nat, m \in S PROVE m + 1 \in S
  <2>1. ASSUME NEW k \in 0..n, k < m + 1 PROVE T[k] \in Nat
    <3>1. \A i \in 0..k-1 : T[i] \in Nat
      <4> SUFFICES ASSUME NEW i \in 0..k-1 PROVE T[i] \in Nat
        OBVIOUS
      <4>1. i \in 0..n /\ i < m
        BY <2>1, <1>0
      <4> QED
        BY <4>1, <1>12
    <3>2. AreaAt(t, T, k) \in Nat
      BY <3>1, <1>a
    <3> QED
      BY <3>2, <1>10
  <2> QED
    BY <2>1
<1>13. Nat \subseteq S
  <2> HIDE DEF S
  <2> QED
    BY <1>11, <1>12, NatSteps
<1>14. ASSUME NEW k \in 0..n PROVE T[k] \in Nat
  <2>1. n + 1 \in S /\ k < n + 1
    BY <1>0, <1>13
  <2> QED
    BY <2>1
<1> QED
  BY <1>9, <1>14 DEF T

-----------------------------------------------------------------------------
(* What painting promises: of the picture that is the target, h pixels high, *)
(* those that show something change; nothing else below the top of vbuf      *)
(* does; and vbuf runs out exactly when the subtrees need more than it has.  *)
Ready(st, h) ==
  /\ st \in Painters /\ ~st.panic /\ st.w \in Nat \ {0} /\ h \in Nat
  /\ st.to + st.w * h <= st.head /\ VbufFits(st.head)
Kept(st, h, r) == \A a \in Memory : a < st.head /\ a \notin Target(st, h) => r.px[a] = st.px[a]
Shown(st, h, tops, r) ==
  \A x \in 0..st.w-1, y \in 0..h-1 :
     r.px[st.to + At(st.w, x, y)] =
       IF tops[<<x, y>>] = Unpainted THEN st.px[st.to + At(st.w, x, y)] ELSE tops[<<x, y>>]
Painted(st, h, area, tops, r) ==
  /\ r \in Painters /\ r.w = st.w /\ r.to = st.to
  /\ r.panic <=> ~VbufFits(st.head + area)
  /\ ~r.panic => r.head = st.head + area
  /\ Kept(st, h, r)
  /\ ~r.panic => Shown(st, h, tops, r)
\* What panics has spoilt nothing that was there.
Unspoilt(st, r) == r.panic => \A a \in Memory : a < st.head => r.px[a] = st.px[a]
Layer(cv, tops) ==
  [p \in Nat \X Nat |-> IF Covers(cv, p[1], p[2]) THEN Colour(cv, p[1], p[2], tops) ELSE Unpainted]

LEMMA TargetPlace ==
  ASSUME NEW st, NEW h, Ready(st, h), NEW x \in 0..st.w-1, NEW y \in 0..h-1
  PROVE  /\ st.to + At(st.w, x, y) \in Memory /\ st.to + At(st.w, x, y) < st.head
         /\ st.to + At(st.w, x, y) \in Target(st, h)
<1> DEFINE c == At(st.w, x, y)
           z == st.w * h
<1>1. st.w \in Nat \ {0} /\ h \in Nat /\ st.to \in Nat /\ st.head \in Nat
      /\ st.head <= Vbuf + VbufSize
  BY DEF Ready, Painters, VbufFits
<1>2. c \in 0 .. z - 1
  BY <1>1, PlaceBelow
<1>3. z \in Nat /\ st.to + z <= st.head
  BY <1>1 DEF Ready
<1> HIDE DEF c, z
<1>4. st.to + c \in Memory /\ st.to + c < st.head
  BY <1>1, <1>2, <1>3, Display DEF Memory
<1>5. st.to + c \in st.to .. (st.to + (z - 1))
  BY <1>1, <1>2, <1>3
<1> QED
  BY <1>4, <1>5 DEF c, z, Target

LEMMA BlitShown ==
  ASSUME NEW st, NEW h, Ready(st, h), NEW cv, Canvas(cv), Inside(cv, st.w, h),
         NEW px, \A a \in Memory : a < st.head => px[a] = st.px[a],
         NEW local, NEW tops, NEW r, r.px = Blit(st, cv, px, local),
         \A x \in Nat, y \in Nat :
            Covers(cv, x, y) => /\ Source(cv, local, x, y) = Colour(cv, x, y, tops)
                                /\ Colour(cv, x, y, tops) # Unpainted
  PROVE  Kept(st, h, r) /\ Shown(st, h, Layer(cv, tops), r)
<1>0. Sized(cv) /\ st.w \in Nat \ {0} /\ st.to \in Nat /\ h \in Nat
  BY CanvasSized DEF Ready, Painters
<1>1. Kept(st, h, r)
  <2> SUFFICES ASSUME NEW a \in Memory, a < st.head, a \notin Target(st, h)
               PROVE  r.px[a] = st.px[a]
    BY DEF Kept
  <2>1. Blit(st, cv, px, local)[a] = px[a]
    BY <1>0, BlitElsewhere
  <2> QED
    BY <2>1
<1>2. Shown(st, h, Layer(cv, tops), r)
  <2> SUFFICES ASSUME NEW x \in 0..st.w-1, NEW y \in 0..h-1
               PROVE  r.px[st.to + At(st.w, x, y)] =
                        IF Layer(cv, tops)[<<x, y>>] = Unpainted
                        THEN st.px[st.to + At(st.w, x, y)] ELSE Layer(cv, tops)[<<x, y>>]
    BY DEF Shown
  <2> DEFINE a == st.to + At(st.w, x, y)
  <2>1. x \in Nat /\ y \in Nat
    BY <1>0
  <2>2. a \in Memory /\ a < st.head
    BY TargetPlace
  <2>3. Blit(st, cv, px, local)[a] = IF Covers(cv, x, y) THEN Source(cv, local, x, y) ELSE px[a]
    BY <1>0, <2>1, <2>2, BlitAt
  <2> HIDE DEF a
  <2>4. px[a] = st.px[a]
    BY <2>2
  <2>5. <<x, y>> \in Nat \X Nat
    BY <2>1
  <2>6. Layer(cv, tops)[<<x, y>>] = IF Covers(cv, x, y) THEN Colour(cv, x, y, tops) ELSE Unpainted
    BY <2>5 DEF Layer
  <2>7. r.px[a] = IF Layer(cv, tops)[<<x, y>>] = Unpainted THEN st.px[a] ELSE Layer(cv, tops)[<<x, y>>]
    BY <2>1, <2>3, <2>4, <2>6
  <2> QED
    BY <2>7 DEF a
<1> QED
  BY <1>1, <1>2

LEMMA TexturePaints ==
  ASSUME NEW st, NEW h, Ready(st, h), NEW cv, Canvas(cv), cv.type = "texture",
         Inside(cv, st.w, h), NEW children, NEW area \in Nat, NEW tops
  PROVE  /\ Painted(st, h, Takes(cv, area), Layer(cv, tops), render(st, cv, children))
         /\ Unspoilt(st, render(st, cv, children))
<1> DEFINE r == render(st, cv, children)
           px == Blit(st, cv, st.px, Texels(cv))
<1>0. st \in Painters /\ ~st.panic /\ Sized(cv)
  BY CanvasSized DEF Ready
<1>1. r = [st EXCEPT !.px = px]
  BY <1>0, RenderIs
<1>2. r \in Painters /\ r.w = st.w /\ r.to = st.to
  BY <1>0, RenderTyped
<1>3. r.px = px /\ r.head = st.head /\ r.panic = st.panic /\ st.head \in Nat
  <2> HIDE DEF px, r
  <2> QED
    BY <1>1, <1>0 DEF Painters
<1> HIDE DEF r
<1>4. ASSUME NEW x \in Nat, NEW y \in Nat, Covers(cv, x, y)
      PROVE  /\ Source(cv, Texels(cv), x, y) = Colour(cv, x, y, tops)
             /\ Colour(cv, x, y, tops) # Unpainted
  <2> DEFINE a == At(cv.w, ((x - cv.x1) * cv.w) \div cv.w1, ((y - cv.y1) * cv.h) \div cv.h1)
  <2>1. a \in 0 .. cv.w * cv.h - 1
    BY <1>0, <1>4, SourceInside
  <2>2. Source(cv, Texels(cv), x, y) = Texels(cv)[a] /\ Colour(cv, x, y, tops) = cv.pixels[a + 1]
    BY DEF Source, Colour
  <2> HIDE DEF a
  <2>3. Texels(cv)[a] = cv.pixels[a + 1] /\ Texels(cv)[a] \in Nat
    BY <2>1, TexelsTyped
  <2> QED
    BY <2>2, <2>3 DEF Unpainted
<1>5. \A a \in Memory : a < st.head => st.px[a] = st.px[a]
  OBVIOUS
<1>6. Kept(st, h, r) /\ Shown(st, h, Layer(cv, tops), r)
  <2>1. r.px = Blit(st, cv, st.px, Texels(cv))
    BY <1>3
  <2> HIDE DEF px
  <2> QED
    BY <2>1, <1>4, <1>5, BlitShown
<1>7. Takes(cv, area) = 0 /\ st.head + 0 = st.head /\ VbufFits(st.head)
  BY <1>3 DEF Takes, Ready
<1>8. Painted(st, h, Takes(cv, area), Layer(cv, tops), r)
  <2> HIDE DEF px
  <2> QED
    BY <1>0, <1>2, <1>3, <1>6, <1>7 DEF Painted
<1>9. Unspoilt(st, r)
  BY <1>0, <1>3 DEF Unspoilt
<1> QED
  BY <1>8, <1>9 DEF r

LEMMA FitsMore ==
  ASSUME NEW a \in Nat, NEW b \in Nat
  PROVE  VbufFits(a + b) => VbufFits(a)
BY Display DEF VbufFits

LEMMA SubtreePaints ==
  ASSUME NEW st, NEW h, Ready(st, h), NEW cv, Canvas(cv), cv.type = "subtree",
         Inside(cv, st.w, h), NEW children, NEW area \in Nat, NEW tops,
         \A s \in Painters : s.panic => children[s] = s,
         \A s : Ready(s, cv.h) /\ s.w = cv.w => Painted(s, cv.h, area, tops, children[s])
  PROVE  /\ Painted(st, h, Takes(cv, area), Layer(cv, tops), render(st, cv, children))
         /\ Unspoilt(st, render(st, cv, children))
<1> DEFINE r == render(st, cv, children)
           room == vbuf_alloc(st, cv)
           below == children[room]
           z == cv.w * cv.h
           painted == IF below.panic THEN below.px ELSE Blit(st, cv, below.px, Local(cv, st, below.px))
<1>0. st \in Painters /\ ~st.panic /\ Sized(cv) /\ st.head \in Nat
  BY CanvasSized DEF Ready, Painters
<1>1. z \in Nat /\ Takes(cv, area) = z + area
  BY <1>0 DEF Sized, Takes
<1>2. r = [st EXCEPT !.head = below.head, !.panic = below.panic, !.px = painted]
  BY <1>0, RenderIs
<1>3. room \in Painters
  BY <1>0, AllocTyped
<1>4. below \in Painters /\ (room.panic => below.panic) => r \in Painters /\ r.w = st.w /\ r.to = st.to
  BY <1>0, RenderTyped
<1>5. r.head = below.head /\ r.panic = below.panic /\ r.px = painted
  <2> HIDE DEF painted, below, r
  <2> QED
    BY <1>0, <1>2 DEF Painters
<1>6. CASE ~VbufFits(st.head + z)
  <2>1. room.panic /\ room.px = st.px
    BY <1>0, <1>6, AllocTyped
  <2>2. below = room
    BY <2>1, <1>3
  <2>3. below \in Painters /\ below.panic /\ below.px = st.px
    BY <2>1, <2>2, <1>3
  <2> HIDE DEF below, room, r
  <2>4. r \in Painters /\ r.w = st.w /\ r.to = st.to /\ r.panic /\ r.px = st.px
    BY <2>3, <1>4, <1>5
  <2>5. ~VbufFits(st.head + Takes(cv, area))
    <3> HIDE DEF z
    <3>1. st.head + z \in Nat /\ (st.head + z) + area = st.head + (z + area)
      BY <1>0, <1>1
    <3> QED
      BY <3>1, <1>1, <1>6, FitsMore
  <2>6. Kept(st, h, r)
    BY <2>4 DEF Kept
  <2>7. Painted(st, h, Takes(cv, area), Layer(cv, tops), r)
    BY <2>4, <2>5, <2>6 DEF Painted
  <2>8. Unspoilt(st, r)
    BY <2>4 DEF Unspoilt
  <2> QED
    BY <2>7, <2>8 DEF r
<1>7. CASE VbufFits(st.head + z)
  <2>1. /\ room.head = st.head + z /\ room.w = cv.w /\ room.to = st.head /\ ~room.panic
        /\ \A a \in Memory : room.px[a] = IF a \in st.head .. st.head + z - 1 THEN 0 ELSE st.px[a]
    BY <1>0, <1>7, AllocTyped
  <2>2. Ready(room, cv.h)
    <3>1. room.to + room.w * cv.h = room.head
      BY <2>1
    <3>2. room.w \in Nat \ {0} /\ cv.h \in Nat /\ room.head \in Nat
      BY <2>1, <1>0, <1>3 DEF Sized, Painters
    <3> HIDE DEF room, z
    <3> QED
      BY <3>1, <3>2, <2>1, <1>3, <1>7 DEF Ready
  <2>3. Painted(room, cv.h, area, tops, below)
    BY <2>1, <2>2
  <2> HIDE DEF below, room, r
  <2>4. below \in Painters
    BY <2>3 DEF Painted
  <2>5. r \in Painters /\ r.w = st.w /\ r.to = st.to
    BY <2>4, <2>1, <1>4
  <2>6. st.head + Takes(cv, area) = room.head + area
    <3> HIDE DEF z
    <3> QED
      BY <1>0, <1>1, <2>1
  <2>7. /\ r.panic <=> ~VbufFits(st.head + Takes(cv, area))
        /\ ~r.panic => r.head = st.head + Takes(cv, area)
    BY <2>3, <2>6, <1>5 DEF Painted
  <2>8. ASSUME NEW a \in Memory, a < st.head PROVE below.px[a] = st.px[a]
    <3>0. a \in Int /\ st.head + z \in Nat
      BY <1>0, <1>1 DEF Memory
    <3>1. a \notin Target(room, cv.h) /\ a < room.head
      <4>1. Target(room, cv.h) = st.head .. st.head + z - 1
        BY <2>1 DEF Target
      <4> HIDE DEF z
      <4>2. a \notin st.head .. st.head + z - 1
        BY <2>8, <1>0, <1>1, <3>0
      <4>3. a < room.head
        BY <2>1, <2>8, <1>0, <1>1, <3>0
      <4> QED
        BY <4>1, <4>2, <4>3
    <3>2. below.px[a] = room.px[a]
      BY <3>1, <2>3 DEF Painted, Kept
    <3>3. room.px[a] = st.px[a]
      <4> HIDE DEF z
      <4> QED
        BY <2>1, <2>8, <3>0, <1>0, <1>1
    <3> QED
      BY <3>2, <3>3
  <2>9. CASE below.panic
    <3>1. r.px = below.px /\ r.panic
      BY <2>9, <1>5
    <3>2. Kept(st, h, r)
      BY <3>1, <2>8 DEF Kept
    <3>3. Painted(st, h, Takes(cv, area), Layer(cv, tops), r)
      BY <2>5, <2>7, <3>1, <3>2 DEF Painted
    <3>4. Unspoilt(st, r)
      BY <3>1, <2>8 DEF Unspoilt
    <3> QED
      BY <3>3, <3>4 DEF r
  <2>10. CASE ~below.panic
    <3> DEFINE local == Local(cv, st, below.px)
    <3>1. r.px = Blit(st, cv, below.px, local)
      BY <2>10, <1>5
    <3>2. ASSUME NEW x \in Nat, NEW y \in Nat, Covers(cv, x, y)
          PROVE  /\ Source(cv, local, x, y) = Colour(cv, x, y, tops)
                 /\ Colour(cv, x, y, tops) # Unpainted
      <4> DEFINE i == ((x - cv.x1) * cv.w) \div cv.w1
                 j == ((y - cv.y1) * cv.h) \div cv.h1
                 a == At(cv.w, i, j)
      <4>1. i \in 0 .. cv.w-1 /\ j \in 0 .. cv.h-1 /\ a \in 0 .. z - 1
        BY <1>0, <3>2, SourceInside
      <4>2. Source(cv, local, x, y) = local[a]
        BY DEF Source
      <4>3. Colour(cv, x, y, tops) = IF tops[<<i, j>>] = Unpainted THEN 0 ELSE tops[<<i, j>>]
        BY DEF Colour
      <4> HIDE DEF i, j
      <4>4. local[a] = below.px[st.head + a] /\ st.head + a \in Memory
        <5>1. below.px \in [Memory -> Nat]
          BY <2>4 DEF Painters
        <5> HIDE DEF a, local
        <5>2. a \in 0 .. cv.w * cv.h - 1
          BY <4>1
        <5> QED
          BY <5>1, <5>2, <1>0, <1>7, BufferedTyped DEF local
      <4>5. below.px[room.to + At(room.w, i, j)] =
              IF tops[<<i, j>>] = Unpainted THEN room.px[room.to + At(room.w, i, j)] ELSE tops[<<i, j>>]
        BY <2>1, <2>3, <2>10, <4>1 DEF Painted, Shown
      <4>6. below.px[st.head + a] =
              IF tops[<<i, j>>] = Unpainted THEN room.px[st.head + a] ELSE tops[<<i, j>>]
        BY <4>5, <2>1
      <4> HIDE DEF a, local
      <4>7. room.px[st.head + a] = 0
        <5> HIDE DEF z
        <5>1. st.head + a \in st.head .. st.head + z - 1
          BY <4>1, <1>0, <1>1
        <5> QED
          BY <5>1, <4>4, <2>1
      <4> QED
        BY <4>2, <4>3, <4>4, <4>6, <4>7 DEF Unpainted
    <3> HIDE DEF local
    <3>3. Kept(st, h, r) /\ Shown(st, h, Layer(cv, tops), r)
      BY <3>1, <3>2, <2>8, BlitShown
    <3>4. Painted(st, h, Takes(cv, area), Layer(cv, tops), r)
      BY <2>5, <2>7, <3>3 DEF Painted
    <3>5. Unspoilt(st, r)
      BY <2>10, <1>5 DEF Unspoilt
    <3> QED
      BY <3>4, <3>5 DEF r
  <2> QED
    BY <2>9, <2>10
<1> QED
  BY <1>6, <1>7

\* The canvases one after the other: what is painted later lies above.
LEMMA LaterAbove ==
  ASSUME NEW st, NEW h, Ready(st, h), NEW a1 \in Nat, NEW a2 \in Nat, NEW own, NEW later, NEW both,
         \A p \in Nat \X Nat : both[p] = IF later[p] # Unpainted THEN later[p] ELSE own[p],
         NEW r1, Painted(st, h, a1, own, r1), NEW r, r1.panic => r = r1,
         ~r1.panic => Ready(r1, h) /\ Painted(r1, h, a2, later, r)
  PROVE  Painted(st, h, a1 + a2, both, r)
<1>0. st.head \in Nat /\ st.head + a1 \in Nat /\ (st.head + a1) + a2 = st.head + (a1 + a2)
  BY DEF Ready, Painters
<1>1. CASE r1.panic
  <2>1. r = r1
    BY <1>1
  <2>2. ~VbufFits(st.head + (a1 + a2))
    <3>1. ~VbufFits(st.head + a1)
      BY <1>1 DEF Painted
    <3> QED
      BY <3>1, <1>0, FitsMore
  <2> QED
    BY <2>1, <2>2, <1>1 DEF Painted
<1>2. CASE ~r1.panic
  <2>1. /\ r1.head = st.head + a1 /\ r1.w = st.w /\ r1.to = st.to
        /\ Kept(st, h, r1) /\ Shown(st, h, own, r1)
    BY <1>2 DEF Painted
  <2>2. /\ r \in Painters /\ r.w = st.w /\ r.to = st.to
        /\ r.panic <=> ~VbufFits(st.head + (a1 + a2))
        /\ ~r.panic => r.head = st.head + (a1 + a2)
        /\ Kept(r1, h, r)
        /\ ~r.panic => Shown(r1, h, later, r)
    BY <1>0, <1>2, <2>1 DEF Painted
  <2>3. Target(r1, h) = Target(st, h)
    BY <2>1 DEF Target
  <2>4. Kept(st, h, r)
    <3> SUFFICES ASSUME NEW a \in Memory, a < st.head, a \notin Target(st, h)
                 PROVE  r.px[a] = st.px[a]
      BY DEF Kept
    <3>1. r1.px[a] = st.px[a]
      BY <2>1 DEF Kept
    <3>2. a < r1.head
      BY <1>0, <2>1 DEF Memory
    <3>3. r.px[a] = r1.px[a]
      BY <2>2, <2>3, <3>2 DEF Kept
    <3> QED
      BY <3>1, <3>3
  <2>5. ASSUME ~r.panic PROVE Shown(st, h, both, r)
    <3> SUFFICES ASSUME NEW x \in 0..st.w-1, NEW y \in 0..h-1
                 PROVE  r.px[st.to + At(st.w, x, y)] =
                          IF both[<<x, y>>] = Unpainted THEN st.px[st.to + At(st.w, x, y)]
                          ELSE both[<<x, y>>]
      BY DEF Shown
    <3> DEFINE a == st.to + At(st.w, x, y)
    <3>1. r1.px[a] = IF own[<<x, y>>] = Unpainted THEN st.px[a] ELSE own[<<x, y>>]
      BY <2>1 DEF Shown
    <3>2. r.px[a] = IF later[<<x, y>>] = Unpainted THEN r1.px[a] ELSE later[<<x, y>>]
      BY <2>1, <2>2, <2>5 DEF Shown
    <3>3. <<x, y>> \in Nat \X Nat
      BY DEF Ready
    <3>4. both[<<x, y>>] = IF later[<<x, y>>] # Unpainted THEN later[<<x, y>>] ELSE own[<<x, y>>]
      BY <3>3
    <3> HIDE DEF a
    <3>5. r.px[a] = IF both[<<x, y>>] = Unpainted THEN st.px[a] ELSE both[<<x, y>>]
      BY <3>1, <3>2, <3>4
    <3> QED
      BY <3>5 DEF a
  <2> QED
    BY <2>2, <2>4, <2>5 DEF Painted
<1> QED
  BY <1>1, <1>2

LEMMA StillReady ==
  ASSUME NEW st, NEW h, Ready(st, h), NEW area \in Nat, NEW tops, NEW r,
         Painted(st, h, area, tops, r), ~r.panic
  PROVE  Ready(r, h)
<1> DEFINE z == st.w * h
<1>1. st.w \in Nat \ {0} /\ h \in Nat /\ st.to \in Nat /\ st.head \in Nat /\ st.to + z <= st.head
  BY DEF Ready, Painters
<1>2. z \in Nat
  BY <1>1
<1>3. r \in Painters /\ r.w = st.w /\ r.to = st.to /\ r.head = st.head + area /\ VbufFits(r.head)
  BY DEF Painted
<1>e. r.w * h = z
  BY <1>3
<1> HIDE DEF z
<1>4. r.to + z <= r.head
  BY <1>1, <1>2, <1>3
<1> QED
  BY <1>1, <1>3, <1>4, <1>e DEF Ready

\* The picture that a canvas is painted on is that of its parent.
WidthFor(t, parent, k) == IF parent[k] = Null THEN Width ELSE t[parent[k]].w
HeightFor(t, parent, k) == IF parent[k] = Null THEN Height ELSE t[parent[k]].h
OnParent(t, parent, k, w, h) == k # Null => w = WidthFor(t, parent, k) /\ h = HeightFor(t, parent, k)
ListPaints(t, parent, k) ==
  \A st, h : Ready(st, h) /\ OnParent(t, parent, k, st.w, h)
               => Painted(st, h, Areas(t)[k], Tops(t)[k], Loop(t)[k][st])

LEMMA PanicStays ==
  ASSUME NEW t, Links(t), NEW k \in 0..Len(t), NEW st \in Painters, st.panic
  PROVE  Loop(t)[k][st] = st
<1> DEFINE f == Loop(t)
<1>1. f = [j \in 0..Len(t) |-> [s \in Painters |-> LoopAt(t, f, j, s)]]
  BY LoopIs DEF Looped
<1> HIDE DEF f
<1>2. f[k][st] = LoopAt(t, f, k, st)
  BY <1>1
<1>3. f[k][st] = st
  BY <1>2 DEF LoopAt
<1> QED
  BY <1>3 DEF f

LEMMA CanvasPaints ==
  ASSUME NEW t, NEW parent, IsTree(t, parent), NEW k \in 1..Len(t),
         Child(t[k]) # Null => ListPaints(t, parent, Child(t[k])),
         ListPaints(t, parent, Null),
         NEW st, NEW h, Ready(st, h), OnParent(t, parent, k, st.w, h)
  PROVE  LET r == render(st, t[k], Loop(t)[Child(t[k])])
         IN  /\ Painted(st, h, Takes(t[k], Areas(t)[Child(t[k])]), Layer(t[k], Tops(t)[Child(t[k])]), r)
             /\ Unspoilt(st, r)
<1> DEFINE cv == t[k]
           c == Child(cv)
           children == Loop(t)[c]
           area == Areas(t)[c]
           tops == Tops(t)[c]
<1>0. Links(t) /\ k # Null /\ Len(t) \in Nat
  <2>1. Links(t)
    BY TreeLinks
  <2> QED
    BY <2>1 DEF Null, Links
<1>1. /\ Canvas(cv) /\ c \in 0..k-1 /\ (c # Null => parent[c] = k)
      /\ Inside(cv, WidthFor(t, parent, k), HeightFor(t, parent, k))
  BY DEF IsTree, WidthFor, HeightFor
<1>2. Inside(cv, st.w, h)
  BY <1>0, <1>1 DEF OnParent
<1>3. area \in Nat
  BY <1>0, <1>1, AreasIs
<1>4. c \in 0..Len(t)
  BY <1>0, <1>1
<1>5. ListPaints(t, parent, c)
  BY DEF ListPaints
<1>6. CASE cv.type = "texture"
  <2> HIDE DEF cv, children, area, tops
  <2>1. Painted(st, h, Takes(cv, area), Layer(cv, tops), render(st, cv, children))
        /\ Unspoilt(st, render(st, cv, children))
    BY <1>1, <1>2, <1>3, <1>6, TexturePaints
  <2> QED
    BY <2>1 DEF cv, children, area, tops
<1>7. CASE cv.type = "subtree"
  <2>1. ASSUME NEW s \in Painters, s.panic PROVE children[s] = s
    BY <2>1, <1>0, <1>4, PanicStays
  <2>2. ASSUME NEW s, Ready(s, cv.h), s.w = cv.w PROVE Painted(s, cv.h, area, tops, children[s])
    <3>1. OnParent(t, parent, c, s.w, cv.h)
      BY <1>0, <1>1, <2>2 DEF OnParent, WidthFor, HeightFor
    <3> QED
      BY <3>1, <2>2, <1>5 DEF ListPaints
  <2> HIDE DEF cv, children, area, tops
  <2>3. Painted(st, h, Takes(cv, area), Layer(cv, tops), render(st, cv, children))
        /\ Unspoilt(st, render(st, cv, children))
    BY <1>1, <1>2, <1>3, <1>7, <2>1, <2>2, SubtreePaints
  <2> QED
    BY <2>3 DEF cv, children, area, tops
<1> QED
  BY <1>1, <1>6, <1>7 DEF Canvas

LEMMA NothingPaints ==
  ASSUME NEW t, Links(t), NEW parent
  PROVE  ListPaints(t, parent, Null)
<1> DEFINE f == Loop(t)  g == Tops(t)  a == Areas(t)
<1>0. Null \in 0..Len(t)
  BY DEF Null, Links
<1>1. f = [j \in 0..Len(t) |-> [s \in Painters |-> LoopAt(t, f, j, s)]]
  BY LoopIs DEF Looped
<1>2. g = [j \in 0..Len(t) |-> [p \in Nat \X Nat |-> TopAt(t, g, j, p)]]
  BY TopsIs DEF Topped
<1>3. a = [j \in 0..Len(t) |-> AreaAt(t, a, j)]
  BY AreasIs DEF Summed
<1> HIDE DEF f, g, a
<1> SUFFICES ASSUME NEW st, NEW h, Ready(st, h) PROVE Painted(st, h, a[Null], g[Null], f[Null][st])
  BY DEF ListPaints, f, g, a
<1>4. st \in Painters /\ st.w \in Nat /\ h \in Nat /\ st.head \in Nat /\ ~st.panic /\ VbufFits(st.head)
  BY DEF Ready, Painters
<1>5. f[Null][st] = st
  <2>1. f[Null] = [s \in Painters |-> LoopAt(t, f, Null, s)]
    BY <1>0, <1>1
  <2> QED
    BY <2>1, <1>4 DEF LoopAt
<1>6. \A p \in Nat \X Nat : g[Null][p] = Unpainted
  <2>1. g[Null] = [p \in Nat \X Nat |-> TopAt(t, g, Null, p)]
    BY <1>0, <1>2
  <2> QED
    BY <2>1 DEF TopAt
<1>7. a[Null] = 0
  BY <1>0, <1>3 DEF AreaAt
<1>8. Shown(st, h, g[Null], st)
  <2> SUFFICES ASSUME NEW x \in 0..st.w-1, NEW y \in 0..h-1 PROVE g[Null][<<x, y>>] = Unpainted
    BY DEF Shown
  <2>1. <<x, y>> \in Nat \X Nat
    BY <1>4
  <2> QED
    BY <2>1, <1>6
<1>9. st.head + a[Null] = st.head
  BY <1>4, <1>7
<1> QED
  BY <1>4, <1>5, <1>8, <1>9 DEF Painted, Kept

LEMMA ListStep ==
  ASSUME NEW t, NEW parent, IsTree(t, parent), NEW k \in 1..Len(t),
         \A i \in 0..k-1 : ListPaints(t, parent, i)
  PROVE  ListPaints(t, parent, k)
<1> DEFINE f == Loop(t)
           g == Tops(t)
           a == Areas(t)
           cv == t[k]
           c == Child(cv)
           n == cv.sibling
<1>0. Links(t) /\ k # Null /\ k \in 0..Len(t) /\ Len(t) \in Nat
  BY TreeLinks DEF Null, IsTree
<1>1. f = [j \in 0..Len(t) |-> [s \in Painters |-> LoopAt(t, f, j, s)]]
  BY <1>0, LoopIs DEF Looped
<1>2. g = [j \in 0..Len(t) |-> [p \in Nat \X Nat |-> TopAt(t, g, j, p)]]
  BY <1>0, TopsIs DEF Topped
<1>3. a = [j \in 0..Len(t) |-> AreaAt(t, a, j)]
  BY <1>0, AreasIs DEF Summed
<1>4. Canvas(cv) /\ c \in 0..k-1 /\ n \in 0..k-1 /\ (n # Null => parent[n] = parent[k])
  BY DEF IsTree
<1>5. a[n] \in Nat /\ Takes(cv, a[c]) \in Nat
  <2>1. n \in 0..Len(t) /\ c \in 0..Len(t)
    BY <1>0, <1>4
  <2>2. a[n] \in Nat /\ a[c] \in Nat
    BY <2>1, <1>0, AreasIs
  <2> QED
    BY <2>2, <1>4, TakesTyped
<1> SUFFICES ASSUME NEW st, NEW h, Ready(st, h), OnParent(t, parent, k, st.w, h)
             PROVE  Painted(st, h, a[k], g[k], f[k][st])
  BY DEF ListPaints
<1> DEFINE r1 == render(st, cv, f[c])
           r == f[n][r1]
           own == Layer(cv, g[c])
<1>6. Painted(st, h, Takes(cv, a[c]), own, r1)
  <2>1. ListPaints(t, parent, Null) /\ ListPaints(t, parent, c)
    BY <1>0, <1>4, NothingPaints
  <2> QED
    BY <2>1, CanvasPaints
<1>7. ASSUME r1.panic PROVE r = r1
  <2>1. r1 \in Painters /\ n \in 0..Len(t)
    BY <1>0, <1>4, <1>6 DEF Painted
  <2> QED
    BY <2>1, <1>0, <1>7, PanicStays
<1>8. ASSUME ~r1.panic PROVE Ready(r1, h) /\ Painted(r1, h, a[n], g[n], r)
  <2>1. Ready(r1, h)
    BY <1>5, <1>6, <1>8, StillReady
  <2>2. r1.w = st.w
    BY <1>6 DEF Painted
  <2>3. OnParent(t, parent, n, r1.w, h)
    BY <2>2, <1>0, <1>4 DEF OnParent, WidthFor, HeightFor
  <2>4. ListPaints(t, parent, n)
    BY <1>4
  <2> HIDE DEF r1
  <2> QED
    BY <2>1, <2>3, <2>4 DEF ListPaints
<1>9. \A p \in Nat \X Nat : g[k][p] = IF g[n][p] # Unpainted THEN g[n][p] ELSE own[p]
  <2> SUFFICES ASSUME NEW p \in Nat \X Nat
               PROVE  g[k][p] = IF g[n][p] # Unpainted THEN g[n][p] ELSE own[p]
    OBVIOUS
  <2>1. own[p] = IF Covers(cv, p[1], p[2]) THEN Colour(cv, p[1], p[2], g[c]) ELSE Unpainted
    BY DEF Layer
  <2> HIDE DEF g, own
  <2>2. g[k] = [q \in Nat \X Nat |-> TopAt(t, g, k, q)]
    BY <1>0, <1>2
  <2>3. g[k][p] = TopAt(t, g, k, p)
    BY <2>2
  <2> QED
    BY <2>1, <2>3, <1>0 DEF TopAt
<1>10. f[k][st] = r
  <2> HIDE DEF f
  <2>1. f[k] = [s \in Painters |-> LoopAt(t, f, k, s)]
    BY <1>0, <1>1
  <2>2. st \in Painters /\ ~st.panic
    BY DEF Ready
  <2> QED
    BY <2>1, <2>2, <1>0 DEF LoopAt
<1>11. a[k] = Takes(cv, a[c]) + a[n]
  <2> HIDE DEF a
  <2> QED
    BY <1>0, <1>3 DEF AreaAt
<1> HIDE DEF r1, r, own, a, g, f
<1>12. Painted(st, h, Takes(cv, a[c]) + a[n], g[k], r)
  BY <1>5, <1>6, <1>7, <1>8, <1>9, LaterAbove
<1> QED
  BY <1>10, <1>11, <1>12

LEMMA ListsPaint ==
  ASSUME NEW t, NEW parent, IsTree(t, parent)
  PROVE  \A k \in 0..Len(t) : ListPaints(t, parent, k)
<1> DEFINE S == {m \in Nat : \A k \in 0..Len(t) : k < m => ListPaints(t, parent, k)}
<1>0. Links(t) /\ Len(t) \in Nat
  BY TreeLinks DEF IsTree
<1>1. 0 \in S
  BY <1>0
<1>2. ASSUME NEW m \in Nat, m \in S PROVE m + 1 \in S
  <2>1. ASSUME NEW k \in 0..Len(t), k < m + 1 PROVE ListPaints(t, parent, k)
    <3>1. CASE k = Null
      BY <3>1, <1>0, NothingPaints
    <3>2. CASE k # Null
      <4>1. k \in 1..Len(t)
        BY <3>2 DEF Null
      <4>2. \A i \in 0..k-1 : ListPaints(t, parent, i)
        <5> SUFFICES ASSUME NEW i \in 0..k-1 PROVE ListPaints(t, parent, i)
          OBVIOUS
        <5>1. i \in 0..Len(t) /\ i < m
          BY <2>1, <1>0
        <5> QED
          BY <5>1, <1>2
      <4> QED
        BY <4>1, <4>2, ListStep
    <3> QED
      BY <3>1, <3>2
  <2> QED
    BY <2>1
<1>3. Nat \subseteq S
  <2> HIDE DEF S
  <2> QED
    BY <1>1, <1>2, NatSteps
<1>4. ASSUME NEW k \in 0..Len(t) PROVE ListPaints(t, parent, k)
  <2>1. Len(t) + 1 \in S /\ k < Len(t) + 1
    BY <1>0, <1>3
  <2> QED
    BY <2>1
<1> QED
  BY <1>4

-----------------------------------------------------------------------------
(* The two calls on the display.                                             *)
Visible(x, y) == x \in 0..Width-1 /\ y \in 0..Height-1

LEMMA OnScreen ==
  ASSUME NEW x, NEW y, Visible(x, y)
  PROVE  At(Width, x, y) \in Screen /\ x \in Nat /\ y \in Nat
<1>1. x \in 0..Width-1 /\ y \in 0..Height-1 /\ Width \in Nat \ {0} /\ Height \in Nat
  BY Display DEF Visible
<1>2. At(Width, x, y) \in 0 .. Width * Height - 1
  BY <1>1, PlaceBelow
<1> QED
  BY <1>1, <1>2 DEF Screen

LEMMA BlankReady ==
  ASSUME NEW fb \in [Screen -> Nat]
  PROVE  /\ Ready(Blank(fb), Height) /\ Blank(fb).w = Width /\ Blank(fb).to = 0
         /\ Blank(fb).head = Vbuf
         /\ \A a \in Screen : a \in Memory /\ a < Vbuf /\ Blank(fb).px[a] = fb[a]
<1> DEFINE st == Blank(fb)
           px == [a \in Memory |-> IF a \in Screen THEN fb[a] ELSE 9]
<1>1. px \in [Memory -> Nat]
  OBVIOUS
<1>2. st = [px |-> px, head |-> Vbuf, panic |-> FALSE, w |-> Width, to |-> 0]
  BY DEF Blank
<1>3. Width \in Nat \ {0} /\ Height \in Nat \ {0} /\ Vbuf \in Nat /\ VbufSize \in Nat
  BY Display
<1>4. Screen = 0 .. Vbuf - 1
  BY DEF Screen, Vbuf
<1>5. \A a \in Screen : a \in Memory /\ a < Vbuf
  BY <1>3, <1>4 DEF Memory
<1>6. \A a \in Screen : px[a] = fb[a]
  BY <1>5
<1> HIDE DEF px, st
<1>7. st \in Painters /\ ~st.panic /\ st.w = Width /\ st.to = 0 /\ st.head = Vbuf /\ st.px = px
  BY <1>1, <1>2, <1>3 DEF Painters
<1>8. st.to + st.w * Height <= st.head
  BY <1>3, <1>7 DEF Vbuf
<1>9. VbufFits(st.head)
  BY <1>3, <1>7 DEF VbufFits
<1>10. Ready(st, Height)
  BY <1>3, <1>7, <1>8, <1>9 DEF Ready
<1> QED
  BY <1>5, <1>6, <1>7, <1>10 DEF st

\* A tree: what its root covers is painted, unless vbuf is too small.
LEMMA TreeShown ==
  ASSUME NEW fb \in [Screen -> Nat], NEW t \in Canvases
  PROVE  LET r == gpu_render(fb, t)
             root == t[Len(t)]
             area == Takes(root, Areas(t)[Child(root)])
         IN  /\ \A a \in Screen : r.px[a] \in Nat
             /\ r.panic <=> area > VbufSize
             /\ \A x, y : Visible(x, y) =>
                  r.px[At(Width, x, y)] =
                    IF ~r.panic /\ Covers(root, x, y) THEN Colour(root, x, y, Tops(t)[Child(root)])
                    ELSE fb[At(Width, x, y)]
<1> DEFINE st == Blank(fb)
           root == t[Len(t)]
           c == Child(root)
           area == Takes(root, Areas(t)[c])
           tops == Tops(t)[c]
           r == render(st, root, Loop(t)[c])
<1>1. PICK parent : IsTree(t, parent)
  BY QemuGpuAssumption
<1>2. Links(t) /\ Len(t) \in Nat \ {0} /\ parent[Len(t)] = Null
  BY <1>1, TreeLinks DEF IsTree
<1>3. Len(t) \in 1..Len(t) /\ c \in 0..Len(t)-1 /\ Canvas(root)
  <2>1. Len(t) \in 1..Len(t)
    BY <1>2
  <2> QED
    BY <2>1, <1>2 DEF Links
<1>4. area \in Nat /\ tops \in Layers
  <2>1. c \in 0..Len(t)
    BY <1>2, <1>3
  <2>2. Areas(t)[c] \in Nat /\ tops \in Layers
    BY <2>1, <1>2, AreasIs, TopsIs
  <2> QED
    BY <2>2, <1>3, TakesTyped
<1>5. /\ Ready(st, Height) /\ st.w = Width /\ st.to = 0 /\ st.head = Vbuf
      /\ \A a \in Screen : a \in Memory /\ a < Vbuf /\ st.px[a] = fb[a]
  BY BlankReady
<1>6. OnParent(t, parent, Len(t), st.w, Height)
  BY <1>2, <1>5 DEF OnParent, WidthFor, HeightFor
<1>7. Painted(st, Height, area, Layer(root, tops), r) /\ Unspoilt(st, r)
  <2>1. ListPaints(t, parent, Null) /\ ListPaints(t, parent, c)
    <3>1. Null \in 0..Len(t) /\ c \in 0..Len(t)
      BY <1>2, <1>3 DEF Null
    <3> QED
      BY <3>1, <1>1, ListsPaint
  <2> HIDE DEF st
  <2> QED
    BY <2>1, <1>1, <1>3, <1>5, <1>6, CanvasPaints
<1>8. gpu_render(fb, t) = r
  BY DEF gpu_render
<1> HIDE DEF st, r, area, tops, c, root
<1>9. \A a \in Screen : r.px[a] \in Nat
  BY <1>5, <1>7 DEF Painted, Painters
<1>10. r.panic <=> area > VbufSize
  <2>1. r.panic <=> ~(Vbuf + area <= Vbuf + VbufSize)
    BY <1>5, <1>7 DEF Painted, VbufFits
  <2> QED
    BY <2>1, <1>4, Display
<1>11. ASSUME NEW x, NEW y, Visible(x, y)
       PROVE  r.px[At(Width, x, y)] =
                IF ~r.panic /\ Covers(root, x, y) THEN Colour(root, x, y, tops)
                ELSE fb[At(Width, x, y)]
  <2> DEFINE a == At(Width, x, y)
  <2>1. a \in Screen /\ x \in Nat /\ y \in Nat
    BY <1>11, OnScreen
  <2>2. a \in Memory /\ a < st.head /\ st.px[a] = fb[a]
    BY <2>1, <1>5
  <2>3. CASE r.panic
    <3> HIDE DEF a
    <3> QED
      BY <2>2, <2>3, <1>7 DEF Unspoilt, a
  <2>4. CASE ~r.panic
    <3>1. st.to + At(st.w, x, y) = a
      <4>1. a \in Int
        BY <2>1 DEF Screen
      <4> HIDE DEF a
      <4>2. 0 + a = a
        BY <4>1
      <4> QED
        BY <4>2, <1>5 DEF a
    <3>2. x \in 0..st.w-1 /\ y \in 0..Height-1
      BY <1>5, <1>11 DEF Visible
    <3>3. r.px[a] = IF Layer(root, tops)[<<x, y>>] = Unpainted THEN st.px[a] ELSE Layer(root, tops)[<<x, y>>]
      <4> HIDE DEF a
      <4>1. Shown(st, Height, Layer(root, tops), r)
        BY <1>7, <2>4 DEF Painted
      <4> QED
        BY <3>1, <3>2, <4>1 DEF Shown
    <3>4. Layer(root, tops)[<<x, y>>] = IF Covers(root, x, y) THEN Colour(root, x, y, tops) ELSE Unpainted
      BY <2>1 DEF Layer
    <3>5. Covers(root, x, y) => Colour(root, x, y, tops) # Unpainted
      <4>1. Covers(root, x, y) => Colour(root, x, y, tops) \in Nat
        BY <1>3, <1>4, <2>1, ColourTyped
      <4> QED
        BY <4>1 DEF Unpainted
    <3> HIDE DEF a
    <3>6. r.px[a] = IF Covers(root, x, y) THEN Colour(root, x, y, tops) ELSE fb[a]
      BY <3>3, <3>4, <3>5, <2>2
    <3> QED
      BY <3>6, <2>4 DEF a
  <2> QED
    BY <2>3, <2>4
<1> QED
  BY <1>8, <1>9, <1>10, <1>11 DEF area, tops, c, root

\* A rectangle, row by row.
LEMMA RowShown ==
  ASSUME NEW fb \in [Screen -> Nat], NEW d \in Draws, NEW j \in 0..d.h-1
  PROVE  /\ Row(fb, d, j) \in [Screen -> Nat]
         /\ \A x, y : Visible(x, y) =>
              Row(fb, d, j)[At(Width, x, y)] =
                IF y = d.y + j /\ x \in d.x .. d.x + d.w - 1 THEN d.pixels[At(d.w, x - d.x, j) + 1]
                ELSE fb[At(Width, x, y)]
<1> DEFINE n == RowLen(d.x, d.w)
<1>0. /\ d.x \in Nat /\ d.y \in Nat /\ d.w \in Nat /\ d.h \in Nat
      /\ d.pixels \in Seq(Nat) /\ d.w * d.h <= Len(d.pixels)
      /\ Width \in Nat \ {0} /\ Height \in Nat \ {0}
  BY QemuGpuAssumption
<1>1. n \in Int /\ n <= d.w /\ d.x + n <= Width
  BY <1>0 DEF RowLen
<1>2. \A i \in Int : i >= 0 => (i < n <=> i < d.w /\ d.x + i < Width)
  BY <1>0 DEF RowLen
<1> HIDE DEF n
<1>3. ASSUME NEW i \in 0..n-1 PROVE d.pixels[d.w * j + i + 1] \in Nat
  <2> DEFINE z == d.w * d.h
             b == At(d.w, i, j)
  <2>1. d.w \in Nat \ {0} /\ i \in 0..d.w-1 /\ j \in 0..d.h-1
    BY <1>0, <1>1
  <2>2. b \in 0..z-1 /\ z \in Nat
    <3>1. b \in 0..z-1
      BY <1>0, <2>1, PlaceBelow
    <3>2. z \in Nat
      BY <1>0
    <3> QED
      BY <3>1, <3>2
  <2>3. d.w * j + i + 1 = b + 1
    BY DEF At
  <2> HIDE DEF b, z
  <2>4. z <= Len(d.pixels)
    BY <1>0 DEF z
  <2>5. b + 1 \in 1 .. Len(d.pixels)
    BY <1>0, <2>2, <2>4
  <2>6. d.pixels[b + 1] \in Nat
    <3> DEFINE s == d.pixels
               p == b + 1
    <3>1. s \in Seq(Nat) /\ p \in 1 .. Len(s)
      BY <1>0, <2>5
    <3> HIDE DEF s, p
    <3>2. s[p] \in Nat
      BY <3>1
    <3> QED
      BY <3>2 DEF s, p
  <2> QED
    BY <2>3, <2>6
<1>4. CASE d.y + j >= Height
  <2>1. Row(fb, d, j) = fb
    BY <1>4 DEF Row
  <2>2. \A y \in 0..Height-1 : y # d.y + j
    BY <1>0, <1>4
  <2> QED
    BY <2>1, <2>2 DEF Visible
<1>5. CASE ~(d.y + j >= Height)
  <2> DEFINE v == d.y + j
             o == At(Width, d.x, v)
  <2>1. Row(fb, d, j) = [a \in Screen |-> IF a - o \in 0..n-1 THEN d.pixels[d.w * j + (a - o) + 1] ELSE fb[a]]
    BY <1>5 DEF Row, n
  <2>2. v \in 0..Height-1 /\ v \in Nat
    BY <1>0, <1>5
  <2> HIDE DEF v, o
  <2>3. Row(fb, d, j) \in [Screen -> Nat]
    <3> SUFFICES ASSUME NEW a \in Screen
                 PROVE  (IF a - o \in 0..n-1 THEN d.pixels[d.w * j + (a - o) + 1] ELSE fb[a]) \in Nat
      BY <2>1
    <3> QED
      BY <1>3
  <2>4. ASSUME NEW x, NEW y, Visible(x, y)
        PROVE  Row(fb, d, j)[At(Width, x, y)] =
                 IF y = v /\ x \in d.x .. d.x + d.w - 1 THEN d.pixels[At(d.w, x - d.x, j) + 1]
                 ELSE fb[At(Width, x, y)]
    <3> DEFINE a == At(Width, x, y)
               i == a - o
    <3>1. a \in Screen /\ x \in 0..Width-1 /\ y \in 0..Height-1 /\ x \in Nat /\ y \in Nat
      BY <2>4, OnScreen DEF Visible
    <3>2. Row(fb, d, j)[a] = IF i \in 0..n-1 THEN d.pixels[d.w * j + i + 1] ELSE fb[a]
      BY <2>1, <3>1
    <3>b. x \in Int /\ x >= 0 /\ x < Width /\ d.x \in Int /\ d.x >= 0 /\ d.w \in Int /\ Width \in Int
      BY <1>0, <3>1
    <3>3. a = Width*y + x /\ o = Width*v + d.x
      BY DEF At, o
    <3>4. Width*y \in Int /\ Width*v \in Int
      BY <1>0, <2>2, <3>1
    <3>5. i \in 0..n-1 <=> y = v /\ x \in d.x .. d.x + d.w - 1
      <4>1. ASSUME i \in 0..n-1 PROVE y = v /\ x \in d.x .. d.x + d.w - 1
        <5> DEFINE m == d.x + i
        <5> HIDE DEF i
        <5>1. i \in Nat /\ m \in 0..Width-1 /\ i <= d.w - 1
          BY <4>1, <3>b, <1>1
        <5>2. At(Width, x, y) = At(Width, m, v)
          <6>1. i = (Width*y + x) - (Width*v + d.x)
            BY <3>3 DEF i
          <6> DEFINE p == Width*y
                     q == Width*v
          <6>2. p \in Int /\ q \in Int /\ i = (p + x) - (q + d.x)
            BY <3>4, <6>1
          <6> HIDE DEF p, q
          <6>3. p + x = q + m
            BY <6>2, <5>1, <3>b
          <6> QED
            BY <6>3 DEF At, p, q
        <5> HIDE DEF m
        <5>3. x = m /\ y = v
          BY <5>1, <5>2, <3>1, <2>2, <1>0, OnePlace
        <5>4. x = d.x + i
          BY <5>3 DEF m
        <5> QED
          BY <5>1, <5>3, <5>4, <1>0
      <4>2. ASSUME y = v, x \in d.x .. d.x + d.w - 1 PROVE i \in 0..n-1
        <5>1. i = (Width*v + x) - (Width*v + d.x)
          BY <3>3, <4>2
        <5> DEFINE q == Width*v
        <5>2. q \in Int /\ i = (q + x) - (q + d.x)
          BY <3>4, <5>1
        <5> HIDE DEF q, i
        <5>3. i = x - d.x
          BY <5>2, <3>b
        <5>4. i \in Int /\ i >= 0 /\ i < d.w /\ d.x + i < Width
          BY <5>3, <4>2, <3>b
        <5>5. i < n
          BY <5>4, <1>2
        <5> QED
          BY <5>4, <5>5, <1>1
      <4> QED
        BY <4>1, <4>2
    <3>6. y = v => i = x - d.x
      <4> SUFFICES ASSUME y = v PROVE i = x - d.x
        OBVIOUS
      <4>1. i = (Width*v + x) - (Width*v + d.x)
        BY <3>3
      <4> DEFINE q == Width*v
      <4>2. q \in Int /\ i = (q + x) - (q + d.x)
        BY <3>4, <4>1
      <4> HIDE DEF q, i
      <4> QED
        BY <4>2, <3>b
    <3> HIDE DEF a, i
    <3>7. CASE i \in 0..n-1
      <4>1. At(d.w, x - d.x, j) + 1 = d.w * j + i + 1
        BY <3>5, <3>6, <3>7 DEF At
      <4> QED
        BY <4>1, <3>2, <3>5, <3>7 DEF a
    <3>8. CASE i \notin 0..n-1
      BY <3>2, <3>5, <3>8 DEF a
    <3> QED
      BY <3>7, <3>8
  <2> QED
    BY <2>3, <2>4 DEF v
<1> QED
  BY <1>4, <1>5

Drawn(fb, d, j, g) ==
  /\ g \in [Screen -> Nat]
  /\ \A x, y : Visible(x, y) =>
       g[At(Width, x, y)] =
         IF x \in d.x .. d.x + d.w - 1 /\ y \in d.y .. d.y + j - 1
         THEN d.pixels[At(d.w, x - d.x, y - d.y) + 1] ELSE fb[At(Width, x, y)]
RowsAt(fb, d, f, j) == IF j = 0 THEN fb ELSE Row(f[j-1], d, j-1)

LEMMA RectangleShown ==
  ASSUME NEW fb \in [Screen -> Nat], NEW d \in Draws
  PROVE  Drawn(fb, d, d.h, gpu_fbdraw(fb, d))
<1> DEFINE n == d.h
           V == [Screen -> Nat]
           G == [k \in 0..n |-> [h \in [0..k-1 -> V] |-> RowsAt(fb, d, h, k)]]
           Rowed(f) == f = [j \in 0..n |-> RowsAt(fb, d, f, j)]
<1>0. n \in Nat /\ d.y \in Nat
  BY QemuGpuAssumption
<1>1. ASSUME NEW k \in 0..n, NEW h \in [0..k-1 -> V] PROVE G[k][h] = RowsAt(fb, d, h, k)
  OBVIOUS
<1> HIDE DEF G
<1>2. ASSUME NEW k \in 0..n, NEW h \in [0..k-1 -> V] PROVE RowsAt(fb, d, h, k) \in V
  <2>1. CASE k = 0
    BY <2>1 DEF RowsAt
  <2>2. CASE k # 0
    <3>1. k-1 \in 0..k-1 /\ k-1 \in 0..n-1
      BY <1>0, <2>2
    <3>2. h[k-1] \in V
      BY <3>1
    <3> HIDE DEF V
    <3>3. Row(h[k-1], d, k-1) \in V
      BY <3>1, <3>2, RowShown DEF V
    <3> QED
      BY <3>3, <2>2 DEF RowsAt
  <2> QED
    BY <2>1, <2>2
<1>3. Makes(n, V, G)
  <2> HIDE DEF V
  <2> QED
    BY <1>1, <1>2 DEF Makes
<1>4. PICK f \in [0..n -> V] : \A k \in 0..n : f[k] = G[k][[i \in 0..k-1 |-> f[i]]]
  <2> HIDE DEF n, V
  <2> QED
    BY <1>0, <1>3, CourseOfValues
<1>5. ASSUME NEW k \in 0..n PROVE f[k] = RowsAt(fb, d, f, k)
  <2> DEFINE h == [i \in 0..k-1 |-> f[i]]
  <2>1. h \in [0..k-1 -> V]
    <3>1. \A i \in 0..k-1 : i \in 0..n
      BY <1>0
    <3> HIDE DEF n, V
    <3> QED
      BY <3>1
  <2>2. \A i \in 0..k-1 : h[i] = f[i]
    OBVIOUS
  <2>3. f[k] = G[k][h]
    BY <1>4
  <2> HIDE DEF h
  <2>4. f[k] = RowsAt(fb, d, h, k)
    BY <2>1, <2>3, <1>1
  <2>5. k # 0 => h[k-1] = f[k-1]
    BY <1>0, <2>2
  <2> QED
    BY <2>4, <2>5 DEF RowsAt
<1>6. f = [k \in 0..n |-> f[k]]
  BY <1>4
<1>7. Rowed(f)
  BY <1>5, <1>6
<1> DEFINE R == CHOOSE g : Rowed(g)
<1>8. gpu_fbdraw(fb, d) = R[n]
  BY DEF gpu_fbdraw, RowsAt
<1>9. Rowed(R)
  <2> HIDE DEF Rowed
  <2> QED
    BY <1>7
<1> HIDE DEF R
<1>10. \A j \in 0..n : R[j] = RowsAt(fb, d, R, j)
  BY <1>9
<1> DEFINE S == {m \in Nat : m <= n => Drawn(fb, d, m, R[m])}
<1>11. 0 \in S
  <2>1. R[0] = fb
    BY <1>0, <1>10 DEF RowsAt
  <2>2. d.y .. (d.y + (0 - 1)) = {}
    BY <1>0
  <2>3. Drawn(fb, d, 0, fb)
    BY <2>2 DEF Drawn
  <2> QED
    BY <2>1, <2>3
<1>12. ASSUME NEW m \in Nat, m \in S PROVE m + 1 \in S
  <2> SUFFICES ASSUME m + 1 <= n PROVE Drawn(fb, d, m + 1, R[m + 1])
    OBVIOUS
  <2>1. Drawn(fb, d, m, R[m]) /\ m \in 0..n-1
    BY <1>0, <1>12
  <2>2. R[m + 1] = Row(R[m], d, m)
    <3>1. m + 1 \in 0..n /\ m + 1 # 0 /\ (m + 1) - 1 = m
      BY <2>1, <1>0
    <3> QED
      BY <3>1, <1>10 DEF RowsAt
  <2>3. R[m] \in [Screen -> Nat]
    BY <2>1 DEF Drawn
  <2>4. R[m + 1] \in [Screen -> Nat]
    <3> DEFINE g == R[m]
    <3>1. g \in [Screen -> Nat] /\ m \in 0..d.h-1
      BY <1>0, <2>1, <2>3
    <3> HIDE DEF g
    <3>2. Row(g, d, m) \in [Screen -> Nat]
      BY <3>1, RowShown
    <3> QED
      BY <2>2, <3>2 DEF g
  <2>6. \A x, y : Visible(x, y) =>
          Row(R[m], d, m)[At(Width, x, y)] =
            IF y = d.y + m /\ x \in d.x .. d.x + d.w - 1 THEN d.pixels[At(d.w, x - d.x, m) + 1]
            ELSE R[m][At(Width, x, y)]
    <3> DEFINE g == R[m]
    <3>1. g \in [Screen -> Nat] /\ m \in 0..d.h-1
      BY <2>1, <2>3
    <3> HIDE DEF g
    <3>2. \A x, y : Visible(x, y) =>
            Row(g, d, m)[At(Width, x, y)] =
              IF y = d.y + m /\ x \in d.x .. d.x + d.w - 1 THEN d.pixels[At(d.w, x - d.x, m) + 1]
              ELSE g[At(Width, x, y)]
      BY <3>1, RowShown
    <3> QED
      BY <3>2 DEF g
  <2>5. ASSUME NEW x, NEW y, Visible(x, y)
        PROVE  R[m + 1][At(Width, x, y)] =
                 IF x \in d.x .. d.x + d.w - 1 /\ y \in d.y .. d.y + (m + 1) - 1
                 THEN d.pixels[At(d.w, x - d.x, y - d.y) + 1] ELSE fb[At(Width, x, y)]
    <3> DEFINE a == At(Width, x, y)
               across == x \in d.x .. d.x + d.w - 1
               new == d.pixels[At(d.w, x - d.x, m) + 1]
               colour == d.pixels[At(d.w, x - d.x, y - d.y) + 1]
    <3>1. y \in Nat
      BY <2>5, OnScreen
    <3>2. R[m + 1][a] = IF y = d.y + m /\ across THEN new ELSE R[m][a]
      BY <2>2, <2>5, <2>6
    <3>3. R[m][a] = IF across /\ y \in d.y .. d.y + m - 1 THEN colour ELSE fb[a]
      BY <2>1, <2>5 DEF Drawn
    <3>4. y - d.y = m <=> y = d.y + m
      BY <3>1, <1>0
    <3>5. y = d.y + m => new = colour
      BY <3>4
    <3>6. y \in d.y .. d.y + (m + 1) - 1 <=> y = d.y + m \/ y \in d.y .. d.y + m - 1
      <4> DEFINE v == d.y
      <4>1. y \in Int /\ v \in Int /\ m \in Int /\ m >= 0
        BY <3>1, <1>0
      <4> HIDE DEF v
      <4>2. y \in v .. v + (m + 1) - 1 <=> y = v + m \/ y \in v .. v + m - 1
        BY <4>1
      <4> QED
        BY <4>2 DEF v
    <3> HIDE DEF a, across, new, colour
    <3>7. R[m + 1][a] = IF across /\ y \in d.y .. d.y + (m + 1) - 1 THEN colour ELSE fb[a]
      BY <3>2, <3>3, <3>5, <3>6
    <3> QED
      BY <3>7 DEF a, across, colour
  <2> QED
    BY <2>4, <2>5 DEF Drawn
<1>13. Nat \subseteq S
  <2> HIDE DEF S
  <2> QED
    BY <1>11, <1>12, NatSteps
<1>14. n \in S
  BY <1>0, <1>13
<1> QED
  BY <1>0, <1>8, <1>14

-----------------------------------------------------------------------------
GpuTypes == display \in [Screen -> Nat]
GpuInv == GpuTypes /\ GpuRight

LEMMA GpuStarts == GpuInit => GpuInv
BY DEF GpuInit, GpuInv, GpuTypes, GpuRight

LEMMA FbdrawRight == ASSUME GpuInv, NEW d \in Draws, Fbdraw(d) PROVE GpuInv'
<1>1. display \in [Screen -> Nat] /\ call' = <<"fbdraw", d>> /\ earlier' = display
      /\ display' = gpu_fbdraw(display, d)
  BY DEF GpuInv, GpuTypes, Fbdraw
<1>2. Drawn(display, d, d.h, display')
  BY <1>1, RectangleShown
<1>3. GpuTypes'
  BY <1>2 DEF GpuTypes, Drawn
<1>4. call'[1] = "fbdraw" /\ call'[2] = d
  BY <1>1
<1>5. ASSUME NEW x \in 0..Width-1, NEW y \in 0..Height-1
      PROVE  display'[At(Width, x, y)] =
               IF x \in d.x .. d.x + d.w - 1 /\ y \in d.y .. d.y + d.h - 1
               THEN d.pixels[At(d.w, x - d.x, y - d.y) + 1] ELSE earlier'[At(Width, x, y)]
  BY <1>1, <1>2 DEF Drawn, Visible
<1>6. GpuRight'
  BY <1>4, <1>5 DEF GpuRight
<1> QED
  BY <1>3, <1>6 DEF GpuInv

LEMMA RenderRight == ASSUME GpuInv, NEW t \in Canvases, Render(t) PROVE GpuInv'
<1> DEFINE r == gpu_render(display, t)
           root == t[Len(t)]
           tops == Tops(t)[Child(root)]
           area == Takes(root, Areas(t)[Child(root)])
<1>1. /\ display \in [Screen -> Nat] /\ earlier' = display
      /\ call' = <<IF r.panic THEN "panic" ELSE "render", t>>
      /\ display' = [a \in Screen |-> r.px[a]]
  BY DEF GpuInv, GpuTypes, Render
<1>2. /\ \A a \in Screen : r.px[a] \in Nat
      /\ r.panic <=> area > VbufSize
      /\ \A x, y : Visible(x, y) =>
           r.px[At(Width, x, y)] =
             IF ~r.panic /\ Covers(root, x, y) THEN Colour(root, x, y, tops)
             ELSE display[At(Width, x, y)]
  BY <1>1, TreeShown
<1>3. call'[1] = (IF r.panic THEN "panic" ELSE "render") /\ call'[2] = t
  BY <1>1
<1> HIDE DEF r, area, tops
<1>4. GpuTypes'
  BY <1>1, <1>2 DEF GpuTypes
<1>5. ASSUME NEW x \in 0..Width-1, NEW y \in 0..Height-1
      PROVE  display'[At(Width, x, y)] =
               IF ~r.panic /\ Covers(root, x, y) THEN Colour(root, x, y, tops)
               ELSE earlier'[At(Width, x, y)]
  <2>1. Visible(x, y)
    BY DEF Visible
  <2>2. At(Width, x, y) \in Screen
    BY <2>1, OnScreen
  <2>3. display'[At(Width, x, y)] = r.px[At(Width, x, y)]
    BY <1>1, <2>2
  <2> HIDE DEF root
  <2> QED
    BY <1>1, <1>2, <2>1, <2>3
<1>6. CASE r.panic
  <2>1. call'[1] = "panic" /\ area > VbufSize
    BY <1>2, <1>3, <1>6
  <2>2. \A x \in 0..Width-1, y \in 0..Height-1 : display'[At(Width, x, y)] = earlier'[At(Width, x, y)]
    BY <1>5, <1>6
  <2>3. GpuRight'
    BY <1>3, <2>1, <2>2 DEF GpuRight, area
  <2> QED
    BY <2>3, <1>4 DEF GpuInv
<1>7. CASE ~r.panic
  <2>1. call'[1] = "render" /\ ~(area > VbufSize)
    BY <1>2, <1>3, <1>7
  <2>2. area <= VbufSize
    <3>1. area \in Nat
      <4>1. PICK parent : IsTree(t, parent)
        BY QemuGpuAssumption
      <4>2. Links(t)
        BY <4>1, TreeLinks
      <4>3. Canvas(root) /\ Child(root) \in 0..Len(t)
        BY <4>2 DEF Links
      <4>4. Areas(t)[Child(root)] \in Nat
        BY <4>2, <4>3, AreasIs
      <4> QED
        BY <4>3, <4>4, TakesTyped DEF area
    <3> QED
      BY <2>1, <3>1, Display
  <2>3. \A x \in 0..Width-1, y \in 0..Height-1 :
          display'[At(Width, x, y)] =
            IF Covers(root, x, y) THEN Colour(root, x, y, tops) ELSE earlier'[At(Width, x, y)]
    BY <1>5, <1>7
  <2>4. GpuRight'
    BY <1>3, <2>1, <2>2, <2>3 DEF GpuRight, area, tops
  <2> QED
    BY <2>4, <1>4 DEF GpuInv
<1> QED
  BY <1>6, <1>7

\* The display shows what was drawn or rendered last over what it showed before, each
\* canvas over the ones before it and scaled to its place, and gpu_render panics exactly
\* when its subtrees need more than vbuf (ioe.c:190-254), for every size of display and
\* of vbuf, every rectangle and every tree of canvases that stay inside their parents.
THEOREM GpuRightHolds == GpuSpec => []GpuRight
<1>1. GpuInit => GpuInv
  BY GpuStarts
<1>2. GpuInv /\ [GpuNext]_gpuVars => GpuInv'
  <2> SUFFICES ASSUME GpuInv, [GpuNext]_gpuVars PROVE GpuInv'
    OBVIOUS
  <2>1. CASE GpuNext
    BY <2>1, FbdrawRight, RenderRight DEF GpuNext
  <2>2. CASE UNCHANGED gpuVars
    BY <2>2 DEF gpuVars, GpuInv, GpuTypes, GpuRight
  <2> QED
    BY <2>1, <2>2
<1>3. GpuInv => GpuRight
  BY DEF GpuInv
<1> QED
  BY <1>1, <1>2, <1>3, PTL DEF GpuSpec

-----------------------------------------------------------------------------
(* All devices together: each part of the composed machine takes its own     *)
(* steps and nothing else disturbs it.                                       *)
LEMMA PartsStart ==
  AmInit => NativeInit /\ QemuInit /\ SoundInit /\ BootInit /\ GpuInit /\ ClockInit /\ HtifInit
<1>1. SomeOf(Images) \in Images /\ SomeOf(MpTables) \in MpTables
      /\ SomeOf(StartDates) \in StartDates /\ SomeOf(Xlens) \in Xlens
  BY AmAssumption DEF SomeOf
<1> QED
  BY <1>1, Zenon DEF AmInit, BootInit, ClockInit, HtifInit

LEMMA PartsStep ==
  [AmNext]_amVars =>
    /\ [NativeNext]_nativeVars /\ [QemuNext]_qemuVars /\ [SoundNext]_soundVars
    /\ [BootNext]_bootVars /\ [GpuNext]_gpuVars /\ [ClockNext]_<<clockVars, diskVars>>
    /\ [HtifNext]_htifVars
<1> SUFFICES ASSUME [AmNext]_amVars
             PROVE  /\ [NativeNext]_nativeVars /\ [QemuNext]_qemuVars /\ [SoundNext]_soundVars
                    /\ [BootNext]_bootVars /\ [GpuNext]_gpuVars
                    /\ [ClockNext]_<<clockVars, diskVars>> /\ [HtifNext]_htifVars
  OBVIOUS
<1>1. CASE Native
  BY <1>1 DEF Native, Alone
<1>2. CASE Processes
  BY <1>2 DEF Processes, Alone
<1>3. CASE Qemu
  BY <1>3 DEF Qemu, Alone
<1>4. CASE Processors
  BY <1>4 DEF Processors, Alone
<1>5. CASE Boots
  BY <1>5 DEF Boots, Alone
<1>6. CASE Displays
  BY <1>6 DEF Displays, Alone
<1>7. CASE Clocks
  BY <1>7 DEF Clocks, Alone
<1>8. CASE Spike
  BY <1>8 DEF Spike, Alone
<1>9. CASE Sound
  BY <1>9 DEF Sound, Alone
<1>10. CASE UNCHANGED amVars
  BY <1>10 DEF amVars
<1> QED
  BY <1>1, <1>2, <1>3, <1>4, <1>5, <1>6, <1>7, <1>8, <1>9, <1>10 DEF AmNext

\* In every behaviour of any port what the devices hand over is right: the console words of
\* spike, the sound of native, and on x86-qemu the loaded program and the count of processors,
\* the display, the date and the blocks of the disk.
THEOREM DevicesRightHolds == AmSpec => []DevicesRight
<1>1. AmSpec => SoundSpec /\ BootSpec /\ GpuSpec /\ ClockSpec /\ HtifSpec
  BY PartsStart, PartsStep, PTL DEF AmSpec, SoundSpec, BootSpec, GpuSpec, ClockSpec, HtifSpec
<1>2. AmSpec => []HtifRight /\ []SoundRight /\ []BootRight /\ []GpuRight /\ []ClockRight
  BY <1>1, HtifRightHolds, SoundHolds, BootRightHolds, GpuRightHolds, ClockRightHolds, PTL
<1>3. HtifRight /\ SoundRight /\ BootRight /\ GpuRight /\ ClockRight => DevicesRight
  BY DEF DevicesRight
<1> QED
  BY <1>2, <1>3, PTL
=============================================================================
