------------------------------ MODULE SdbProofs ------------------------------
(***************************************************************************)
(* The debugger for every session: the reference is given the image, by an *)
(* induction over SdbSpec; the table of watchpoints keeps what it holds,   *)
(* from its shape; and p prints what its expression means, by an induction *)
(* over the expression, below.  The types of the table's entries are       *)
(* proved over WpSpec, whose steps are additions of any text and of any    *)
(* integer for its value.                                                  *)
(***************************************************************************)
EXTENDS Sdb, Induction, FiniteSetTheorems, SequenceTheorems, TLAPS

-----------------------------------------------------------------------------
(* Only init_monitor changes what is in memory and what the reference has, *)
(* and nothing returns to the phase before it.                             *)
ImageInv ==
    /\ phase = "start" => loaded = Filled /\ given = {}
    /\ ReferenceHasImage

LEMMA StartGivesImage ==
    ASSUME init_monitor, ImageInv PROVE ImageInv'
<1>1. PICK opts \in Options, size \in Images, logOpens \in BOOLEAN :
        LET image == IF Has(opts, "image") THEN size ELSE NoFile
            usage == Has(opts, "other")
            fails == \/ Has(opts, "log") /\ ~logOpens
                     \/ Has(opts, "image") /\ size \in {NoFile, 0}
        IN  /\ Has(opts, "image") => image = NoFile \/ image <= PmemRight - PmemLeft + 1
            /\ phase' = IF usage THEN "closed" ELSE IF fails THEN "crashed" ELSE "prompt"
            /\ IF usage \/ fails THEN UNCHANGED <<loaded, given>>
               ELSE /\ loaded' = load_img(Copied(Filled, BuiltIn, "builtin"), image)
                    /\ given' = {a \in Pmem : a - PmemLeft < img_size(image)}
  BY DEF init_monitor
<1> DEFINE image == IF Has(opts, "image") THEN size ELSE NoFile
<1>2. CASE phase' # "prompt"
  BY <1>1, <1>2 DEF ImageInv, ReferenceHasImage
<1>3. CASE phase' = "prompt"
  <2>1. /\ loaded' = load_img(Copied(Filled, BuiltIn, "builtin"), image)
        /\ given' = {a \in Pmem : a - PmemLeft < img_size(image)}
        /\ image # NoFile => image \in Nat \ {0} /\ image <= PmemRight - PmemLeft + 1
    BY <1>1, <1>3, SizeAssumption
  <2> HIDE DEF image
  <2>2. CASE image = NoFile
    BY <2>1, <2>2, <1>3, SizeAssumption
    DEF ImageInv, ReferenceHasImage, load_img, img_size, Copied, Filled, Pmem
  <2>3. CASE image # NoFile
    <3>1. loaded' = Copied(Copied(Filled, BuiltIn, "builtin"), image, "image")
          /\ given' = {a \in Pmem : a - PmemLeft < image}
      BY <2>1, <2>3 DEF load_img, img_size
    <3>2. PmemLeft \in Pmem /\ loaded'[PmemLeft] = "image"
      BY <3>1, <2>1, <2>3, SizeAssumption DEF Copied, Pmem
    <3>3. {a \in Pmem : loaded'[a] = "image"} \subseteq given'
      BY <3>1, <2>1, <2>3, SizeAssumption DEF Copied, Filled
    <3> QED BY <3>2, <3>3, <1>3 DEF ImageInv, ReferenceHasImage
  <2> QED BY <2>2, <2>3
<1> QED BY <1>2, <1>3

(* In every session, whatever the options, the size of the image and the   *)
(* lines typed, the reference holds every byte of the program the core     *)
(* runs (monitor.c:26-43, 110-118).                                        *)
THEOREM ReferenceHasImageHolds == SdbSpec => []ReferenceHasImage
<1>1. SdbInit => ImageInv
  BY DEF SdbInit, ImageInv, ReferenceHasImage
<1>2. ImageInv /\ [SdbNext]_allVars => ImageInv'
  <2> SUFFICES ASSUME ImageInv, [SdbNext]_allVars PROVE ImageInv'
    OBVIOUS
  <2>1. CASE init_monitor
    BY <2>1, StartGivesImage
  <2>2. CASE UNCHANGED <<loaded, given>> /\ (phase' \in {"prompt", "running"} => phase = phase' \/ phase \in {"prompt", "running"})
             /\ phase' # "start"
    BY <2>2 DEF ImageInv, ReferenceHasImage
  <2>3. CASE UNCHANGED allVars
    BY <2>3 DEF ImageInv, ReferenceHasImage, allVars, sdbVars
  <2> DEFINE Still == UNCHANGED <<loaded, given>> /\ phase \in {"prompt", "running"} /\ phase' # "start"
  <2>4. CASE SdbNext /\ ~init_monitor
    <3> USE DEF Returns, Crash, Close, cpu_exec, Mainloop
    <3>1. EndOfInput \/ BatchEnds \/ cmd_q => Still
      BY DEF EndOfInput, BatchEnds, cmd_q
    <3>2. BatchMode \/ cmd_shows \/ cmd_c => Still
      BY DEF BatchMode, cmd_shows, cmd_c
    <3>3. cmd_si => Still
      BY DEF cmd_si
    <3>4. cmd_p => Still
      BY DEF cmd_p
    <3>5. cmd_x => Still
      BY DEF cmd_x
    <3>6. cmd_w => Still
      BY DEF cmd_w
    <3>7. cmd_d => Still
      BY DEF cmd_d
    <3>8. Instruction \/ ProgramExits \/ Stops => Still
      BY DEF Instruction, ProgramExits, Stops
    <3> QED BY <2>2, <2>4, <3>1, <3>2, <3>3, <3>4, <3>5, <3>6, <3>7, <3>8 DEF SdbNext
  <2> QED BY <2>1, <2>3, <2>4
<1> QED BY <1>1, <1>2, PTL DEF SdbSpec, ImageInv

-----------------------------------------------------------------------------
(* The table of watchpoints.  What an addition writes and a deletion clears *)
(* follows from its shape, whatever the texts and the values are.          *)
TableShape ==
    /\ wp = [i \in Entries |-> [keep |-> wp[i].keep, expr |-> wp[i].expr, value |-> wp[i].value]]
    /\ \A i \in Entries : wp[i].keep \in {0, 1}
    /\ wpCnt \in 0 .. WpNumber
    /\ \A i \in Kept : i <= wpCnt
Stable == \A i \in Kept : wp'[i] \in {wp[i], [wp[i] EXCEPT !.keep = 0]}

LEMMA InitShape == wp_init => TableShape
BY WpAssumption DEF wp_init, TableShape, Kept, Entries

LEMMA AddFailsShape ==
    ASSUME TableShape, NEW text, AddFails(text) PROVE TableShape' /\ Stable
<1> USE WpAssumption DEF TableShape, Entries
<1>1. wpCnt + 1 \in Entries /\ wpCnt' = wpCnt
  BY DEF AddFails, Full
<1>2. wp' = [i \in Entries |-> [keep |-> wp[i].keep,
                                expr |-> IF i = wpCnt + 1 THEN text ELSE wp[i].expr,
                                value |-> wp[i].value]]
  BY <1>1 DEF AddFails
<1>3. \A i \in Entries : /\ wp'[i].keep = wp[i].keep
                         /\ i # wpCnt + 1 => wp'[i] = wp[i]
  BY <1>2
<1>4. Kept' = Kept /\ wpCnt + 1 \notin Kept
  BY <1>3 DEF Kept
<1>5. TableShape'
  BY <1>1, <1>2, <1>3, <1>4
<1>6. Stable
  BY <1>1, <1>3, <1>4 DEF Stable, Kept
<1> QED BY <1>5, <1>6

LEMMA AddShape ==
    ASSUME TableShape, NEW text, NEW value, Add(text, value) PROVE TableShape' /\ Stable
<1> USE WpAssumption DEF TableShape, Entries
<1>1. wpCnt + 1 \in Entries /\ wpCnt' = wpCnt + 1
  BY DEF Add, Full
<1>2. wp' = [i \in Entries |-> IF i = wpCnt + 1 THEN [keep |-> 1, expr |-> text, value |-> value] ELSE wp[i]]
  BY <1>1 DEF Add
<1>3. \A i \in Entries : /\ i # wpCnt + 1 => wp'[i] = wp[i]
                         /\ i = wpCnt + 1 => wp'[i] = [keep |-> 1, expr |-> text, value |-> value]
  BY <1>2
<1>4. Kept' \subseteq Kept \cup {wpCnt'} /\ wpCnt + 1 \notin Kept
  BY <1>1, <1>3 DEF Kept
<1>5. \A i \in Entries : wp'[i] = [keep |-> wp'[i].keep, expr |-> wp'[i].expr, value |-> wp'[i].value]
                         /\ wp'[i].keep \in {0, 1}
  BY <1>3
<1>6. wpCnt' \in 0 .. WpNumber /\ \A i \in Kept' : i <= wpCnt'
  <2>1. wpCnt \in 0 .. WpNumber /\ Kept \subseteq Int /\ \A i \in Kept : i <= wpCnt
    BY DEF Kept
  <2> HIDE DEF TableShape
  <2> QED BY <1>1, <1>4, <2>1
<1>7. TableShape'
  BY <1>2, <1>5, <1>6
<1>8. Stable
  BY <1>1, <1>3, <1>4 DEF Stable, Kept
<1> QED BY <1>7, <1>8

LEMMA DeleteShape ==
    ASSUME TableShape, NEW n, Delete(n) PROVE TableShape' /\ Stable
<1> USE WpAssumption DEF TableShape, Entries
<1>1. CASE n \in Kept
  <2>1. n \in Entries /\ wpCnt' = wpCnt
    BY <1>1 DEF Delete, Kept
  <2>2. wp' = [i \in Entries |-> IF i = n THEN [wp[n] EXCEPT !.keep = 0] ELSE wp[i]]
    BY <1>1, <2>1 DEF Delete
  <2>3. \A i \in Entries : /\ i # n => wp'[i] = wp[i]
                           /\ i = n => wp'[i] = [keep |-> 0, expr |-> wp[n].expr, value |-> wp[n].value]
    BY <2>1, <2>2
  <2>4. Kept' \subseteq Kept
    BY <2>3, ZenonT(30) DEF Kept
  <2>5. ASSUME NEW i \in Entries
        PROVE wp'[i] = [keep |-> wp'[i].keep, expr |-> wp'[i].expr, value |-> wp'[i].value]
              /\ wp'[i].keep \in {0, 1}
    <3>1. CASE i = n
      BY <3>1, <2>3
    <3>2. CASE i # n
      <4>1. wp'[i] = wp[i]
        BY <3>2, <2>3
      <4>2. wp[i] = [keep |-> wp[i].keep, expr |-> wp[i].expr, value |-> wp[i].value]
            /\ wp[i].keep \in {0, 1}
        OBVIOUS
      <4> HIDE DEF TableShape
      <4> QED BY <4>1, <4>2
    <3> QED BY <3>1, <3>2
  <2>6. wpCnt' \in 0 .. WpNumber /\ \A i \in Kept' : i <= wpCnt'
    BY <2>1, <2>4
  <2>7. TableShape'
    BY <2>2, <2>5, <2>6
  <2>8. Stable
    BY <2>1, <2>2 DEF Stable, Kept
  <2> QED BY <2>1, <2>4, <2>7, <2>8
<1>2. CASE n \notin Kept
  BY <1>2 DEF Delete, wpVars, Stable, Kept
<1> QED BY <1>1, <1>2

LEMMA TableIdle ==
    ASSUME TableShape, UNCHANGED wpVars PROVE TableShape' /\ Stable
BY DEF TableShape, wpVars, Stable, Kept, Entries

(* A command changes the table by w or by d, if at all.                    *)
LEMMA SessionTable ==
    ASSUME TableShape, [SdbNext]_allVars PROVE TableShape' /\ Stable
<1>1. CASE UNCHANGED allVars
  BY <1>1, TableIdle DEF allVars
<1>2. CASE cmd_w
  <2>1. \E text, value : UNCHANGED wpVars \/ AddFails(text) \/ Add(text, value)
    BY <1>2 DEF cmd_w, Crash, AddRefused
  <2> QED BY <2>1, TableIdle, AddFailsShape, AddShape
<1>3. CASE cmd_d
  <2>1. \E n : UNCHANGED wpVars \/ Delete(n)
    BY <1>3 DEF cmd_d, Crash
  <2> QED BY <2>1, TableIdle, DeleteShape
<1>4. CASE SdbNext /\ ~cmd_w /\ ~cmd_d
  <2> DEFINE Idle == UNCHANGED wpVars
  <2>1. EndOfInput \/ BatchEnds \/ cmd_q \/ ProgramExits => Idle
    BY DEF EndOfInput, BatchEnds, cmd_q, ProgramExits, Close
  <2>2. init_monitor \/ BatchMode \/ cmd_shows \/ cmd_c \/ Instruction \/ Stops => Idle
    BY DEF init_monitor, BatchMode, cmd_shows, cmd_c, Instruction, Stops
  <2>3. cmd_si \/ cmd_p \/ cmd_x => Idle
    BY DEF cmd_si, cmd_p, cmd_x, Crash
  <2> QED BY <1>4, <2>1, <2>2, <2>3, TableIdle DEF SdbNext
<1> QED BY <1>1, <1>2, <1>3, <1>4

LEMMA SessionShape == SdbSpec => []TableShape
<1>1. SdbInit => TableShape
  BY InitShape DEF SdbInit
<1> QED BY <1>1, SessionTable, PTL DEF SdbSpec

(* No session loses or alters a watchpoint but by deleting it: the entry   *)
(* an addition writes is past every one given out (watchpoint.c:31-69).    *)
THEOREM WatchStableHolds == SdbSpec => WatchStable
<1>1. TableShape /\ [SdbNext]_allVars => [Stable]_wpVars
  BY SessionTable
<1> QED BY <1>1, SessionShape, PTL DEF SdbSpec, WatchStable, Stable

(* In every history of additions and deletions the entries not given out   *)
(* are free, and those kept hold one of the texts (watchpoint.c:20-69).    *)
THEOREM WatchTableHolds == WpSpec => []WatchTable
<1>1. wp_init => WatchTable
  BY WpAssumption DEF wp_init, WatchTable, Entry, Entries, Kept
<1>2. WatchTable /\ [WpNext]_wpVars => WatchTable'
  <2> SUFFICES ASSUME WatchTable, [WpNext]_wpVars PROVE WatchTable'
    OBVIOUS
  <2> USE WpAssumption DEF WatchTable, Entry, Entries, Kept
  <2>1. CASE UNCHANGED wpVars
    BY <2>1 DEF wpVars
  <2>2. ASSUME NEW text \in Texts, AddFails(text) PROVE WatchTable'
    BY <2>2 DEF AddFails, Full
  <2>3. ASSUME NEW text \in Texts, NEW v \in Int, Add(text, v) PROVE WatchTable'
    BY <2>3 DEF Add, Full
  <2>4. ASSUME NEW n \in Int, Delete(n) PROVE WatchTable'
    <3>1. CASE n \in Kept
      <4>1. wp' = [wp EXCEPT ![n].keep = 0] /\ wpCnt' = wpCnt
        BY <2>4, <3>1 DEF Delete
      <4>2. wp' \in [Entries -> Entry]
        BY <4>1
      <4>3. \A i \in Entries : wp'[i].keep = 1 => wp[i].keep = 1 /\ wp'[i].expr = wp[i].expr
        BY <4>1
      <4> QED BY <4>1, <4>2, <4>3
    <3>2. CASE n \notin Kept
      BY <2>4, <3>2, <2>1 DEF Delete
    <3> QED BY <3>1, <3>2
  <2> QED BY <2>1, <2>2, <2>3, <2>4 DEF WpNext, AddRefused
<1> QED BY <1>1, <1>2, PTL DEF WpSpec

-----------------------------------------------------------------------------
(* A definition that goes through an interval from the place before it.    *)
Scannable(a, b, V, first, step) ==
  a \in Int /\ b \in Int /\ a - 1 <= b /\ first \in V /\ step \in [a .. b -> [V -> V]]
Scanned(a, b, V, first, step, f) ==
  f \in [a-1 .. b -> V] /\ f[a-1] = first /\ \A i \in a .. b : f[i] = step[i][f[i-1]]
(* A definition that goes through an interval has a function that is it.   *)
LEMMA Scan ==
  ASSUME NEW a, NEW b, NEW V, NEW first, NEW step, Scannable(a, b, V, first, step)
  PROVE  \E f : Scanned(a, b, V, first, step, f)
<1>0. a \in Int /\ b \in Int /\ a - 1 <= b /\ first \in V /\ step \in [a .. b -> [V -> V]]
  BY DEF Scannable
<1> DEFINE D == a-1 .. b
           size == [x \in D |-> x - (a - 1)]
           G == [x \in D |-> [f \in [D -> V] |-> IF x = a-1 THEN first ELSE step[x][f[x-1]]]]
           n == b - (a - 1)
<1>1. n \in Nat /\ size \in [D -> 0..n]
  BY <1>0
<1>2. \A x \in D : size[x] = x - (a - 1)
  OBVIOUS
<1>3. \A x \in D, f \in [D -> V] : G[x][f] = IF x = a-1 THEN first ELSE step[x][f[x-1]]
  OBVIOUS
<1>4. \A x \in D : x # a-1 => x \in a .. b /\ x - 1 \in D /\ x - 1 - (a - 1) < x - (a - 1)
  BY <1>0
<1>5. a - 1 \in D /\ \A i \in a .. b : i \in D /\ i # a-1
  BY <1>0
<1> HIDE DEF D, size, G, n
<1>6. \A x \in D, f \in [D -> V] : G[x][f] \in V
  <2> SUFFICES ASSUME NEW x \in D, NEW f \in [D -> V], x # a-1 PROVE step[x][f[x-1]] \in V
    BY <1>0, <1>3
  <2>1. f[x-1] \in V /\ step[x] \in [V -> V]
    BY <1>0, <1>4
  <2> QED
    BY <2>1
<1>7. ASSUME NEW x \in D, NEW f \in [D -> V], NEW g \in [D -> V], Below(D, size, x, f, g)
      PROVE  G[x][f] = G[x][g]
  <2>1. x # a-1 => f[x-1] = g[x-1]
    BY <1>7, <1>2, <1>4 DEF Below
  <2> QED
    BY <2>1, <1>3
<1>8. Lowers(D, V, size, n, G)
  BY <1>1, <1>6, <1>7 DEF Lowers
<1>9. PICK f \in [D -> V] : \A x \in D : f[x] = G[x][f]
  BY <1>0, <1>1, <1>8, BoundedRecursion
<1>10. \A x \in D : f[x] = IF x = a-1 THEN first ELSE step[x][f[x-1]]
  BY <1>9, <1>3
<1>11. f \in [a-1 .. b -> V]
  BY <1>9 DEF D
<1>12. f[a-1] = first /\ \A i \in a .. b : f[i] = step[i][f[i-1]]
  BY <1>5, <1>10
<1> QED
  BY <1>11, <1>12 DEF Scanned

Follows(a, b, f, g) == f[a-1] = g[a-1] /\ \A i \in a .. b : f[i-1] = g[i-1] => f[i] = g[i]
Agree(a, b, f, g) == \A i \in a-1 .. b : f[i] = g[i]
(* Two functions that go through an interval alike are the same.           *)
LEMMA ScanSame ==
  ASSUME NEW a \in Int, NEW b \in Int, NEW f, NEW g, Follows(a, b, f, g)
  PROVE  Agree(a, b, f, g)
<1> DEFINE D == a-1 .. b
           size == [x \in D |-> x - (a - 1)]
<1>1. size \in [D -> Nat]
  OBVIOUS
<1>2. ASSUME NEW x \in D, Below(D, size, x, f, g) PROVE f[x] = g[x]
  <2>1. CASE x = a-1
    BY <2>1 DEF Follows
  <2>2. CASE x # a-1
    <3>1. x - 1 \in D /\ x \in a .. b /\ size[x-1] < size[x]
      BY <2>2
    <3>2. f[x-1] = g[x-1]
      <4> HIDE DEF D, size
      <4> QED
        BY <1>2, <3>1 DEF Below
    <3> QED
      BY <3>1, <3>2 DEF Follows
  <2> QED
    BY <2>1, <2>2
<1> HIDE DEF D, size
<1>3. \A x \in D : f[x] = g[x]
  BY <1>1, <1>2, BoundedSame
<1> QED
  BY <1>3 DEF D, Agree

-----------------------------------------------------------------------------
(* A remainder taken early changes no later one.                           *)
LEMMA ModShift ==
  ASSUME NEW m \in Nat \ {0}, NEW k \in Int, NEW x \in Int
  PROVE  (m * k + x) % m = x % m
<1> DEFINE q == x \div m
           r == x % m
<1>1. q \in Int /\ r \in 0 .. m-1 /\ x = m * q + r
  BY Division
<1> HIDE DEF q, r
<1>2. m * k + x = m * (k + q) + r
  BY <1>1
<1>3. (m * (k + q) + r) % m = r
  BY <1>1, Quotient
<1> QED
  BY <1>2, <1>3 DEF r

Digit == {"U"} \cup UNION {Glyphs[i] : i \in DOMAIN Glyphs}
(* A digit is worth a number.                                              *)
LEMMA DigitNumber ==
  ASSUME NEW c \in Digit, c # "U"
  PROVE  hex_char_to_num(c) \in Int
<1>1. \E n \in DOMAIN Glyphs : c \in Glyphs[n]
  BY DEF Digit
<1>2. DOMAIN Glyphs \subseteq Int
  BY DEF Glyphs
<1> QED
  BY <1>1, <1>2 DEF hex_char_to_num

WorthBy(str, base, f) ==
  f = [i \in 0 .. Len(str) |->
         IF i = 0 THEN 0 ELSE IF str[i] = "U" THEN f[i - 1] ELSE f[i - 1] * base + hex_char_to_num(str[i])]
NumberBy(str, base, f) ==
  f = [i \in 0 .. Len(str) |->
         IF i = 0 THEN 0 ELSE IF str[i] = "U" THEN f[i - 1]
         ELSE (f[i - 1] * base + hex_char_to_num(str[i])) % Modulus]

(* What digits are worth is a number.                                      *)
LEMMA WorthIs ==
  ASSUME NEW str \in Seq(Digit), NEW base \in Nat
  PROVE  \E f \in [0 .. Len(str) -> Int] : WorthBy(str, base, f) /\ Worth(str, base) = f[Len(str)]
<1> DEFINE n == Len(str)
           step == [i \in 1 .. n |-> [v \in Int |-> IF str[i] = "U" THEN v ELSE v * base + hex_char_to_num(str[i])]]
<1>0. n \in Nat /\ \A i \in 1 .. n : str[i] \in Digit
  OBVIOUS
<1>1. Scannable(1, n, Int, 0, step)
  BY <1>0, DigitNumber DEF Scannable
<1>2. \A i \in 1 .. n, v \in Int : step[i][v] = IF str[i] = "U" THEN v ELSE v * base + hex_char_to_num(str[i])
  OBVIOUS
<1> HIDE DEF step
<1>3. PICK f : Scanned(1, n, Int, 0, step, f)
  <2> HIDE DEF n
  <2> QED
    BY <1>1, Scan
<1>a. f \in [0 .. n -> Int] /\ f[0] = 0 /\ \A i \in 1 .. n : f[i] = step[i][f[i-1]]
  BY <1>3 DEF Scanned
<1>4. ASSUME NEW i \in 0 .. n
      PROVE  f[i] = IF i = 0 THEN 0 ELSE IF str[i] = "U" THEN f[i - 1] ELSE f[i - 1] * base + hex_char_to_num(str[i])
  <2>1. i # 0 => i \in 1 .. n /\ f[i-1] \in Int
    BY <1>0, <1>a
  <2> QED
    BY <2>1, <1>2, <1>a
<1>5. WorthBy(str, base, f)
  <2>1. f = [i \in 0 .. n |-> f[i]]
    BY <1>a
  <2> QED
    BY <2>1, <1>4 DEF WorthBy
<1> DEFINE h == CHOOSE g : WorthBy(str, base, g)
<1>6. Worth(str, base) = h[Len(str)]
  BY DEF Worth, WorthBy
<1>7. WorthBy(str, base, h)
  BY <1>5
<1> HIDE DEF h
<1>8. \A i \in 0 .. n : h[i] = f[i]
  <2>1. h[0] = f[0]
    BY <1>0, <1>5, <1>7 DEF WorthBy
  <2>2. ASSUME NEW i \in 1 .. n, h[i-1] = f[i-1] PROVE h[i] = f[i]
    <3>1. i \in 0 .. n /\ i # 0
      BY <1>0
    <3> QED
      BY <3>1, <2>2, <1>5, <1>7 DEF WorthBy
  <2>3. Follows(1, n, h, f)
    BY <2>1, <2>2 DEF Follows
  <2>4. Agree(1, n, h, f)
    <3>1. n \in Int /\ 1 \in Int
      BY <1>0
    <3> HIDE DEF n
    <3> QED
      BY <2>3, <3>1, ScanSame
  <2> QED
    BY <2>4 DEF Agree
<1> QED
  BY <1>0, <1>a, <1>5, <1>6, <1>8

(* What the evaluator's loop over the digits returns.                       *)
LEMMA NumberRight ==
  ASSUME NEW str \in Seq(Digit), NEW base \in Nat
  PROVE  Worth(str, base) \in Int /\ Number(str, base) = Worth(str, base) % Modulus
<1> DEFINE n == Len(str)
           Next(v, c) == (v * base + hex_char_to_num(c)) % Modulus
<1>0. n \in Nat /\ (\A i \in 1 .. n : str[i] \in Digit) /\ Modulus \in Nat \ {0}
  BY WordsAssumption
<1>1. PICK f \in [0 .. n -> Int] : WorthBy(str, base, f) /\ Worth(str, base) = f[n]
  BY WorthIs
<1>2. ASSUME NEW i \in 0 .. n
      PROVE  f[i] = IF i = 0 THEN 0 ELSE IF str[i] = "U" THEN f[i - 1] ELSE f[i - 1] * base + hex_char_to_num(str[i])
  BY <1>1 DEF WorthBy
<1> DEFINE g == [i \in 0 .. n |-> f[i] % Modulus]
<1>3. ASSUME NEW i \in 0 .. n
      PROVE  g[i] = IF i = 0 THEN 0 ELSE IF str[i] = "U" THEN g[i - 1] ELSE Next(g[i-1], str[i])
  <2>1. CASE i = 0
    BY <2>1, <1>0, <1>2
  <2>2. CASE i # 0
    <3>1. i - 1 \in 0 .. n /\ i \in 1 .. n
      BY <2>2, <1>0
    <3> DEFINE v == f[i - 1]  d == hex_char_to_num(str[i])
    <3>2. g[i] = f[i] % Modulus /\ g[i-1] = v % Modulus /\ v \in Int
      BY <3>1, <1>1
    <3>3. f[i] = IF str[i] = "U" THEN v ELSE v * base + d
      BY <2>2, <1>2
    <3>4. CASE str[i] = "U"
      BY <2>2, <3>2, <3>3, <3>4
    <3>5. CASE str[i] # "U"
      <4>1. d \in Int
        BY <3>1, <3>5, <1>0, DigitNumber
      <4>2. ((v % Modulus) * base + d) % Modulus = (v * base + d) % Modulus
        <5> HIDE DEF v, d
        <5> DEFINE q == v \div Modulus  r == v % Modulus  x == r * base + d
        <5>1. v \in Int /\ Modulus \in Nat \ {0}
          BY <3>2, <1>0
        <5>2. q \in Int /\ r \in 0 .. Modulus-1 /\ v = Modulus * q + r
          BY <5>1, Division
        <5> HIDE DEF q, r
        <5>3. x \in Int /\ q * base \in Int
          BY <5>2, <4>1
        <5>4. v * base + d = Modulus * (q * base) + x
          BY <5>2, <4>1, <1>0
        <5> HIDE DEF x
        <5>5. (v * base + d) % Modulus = x % Modulus
          BY <5>3, <5>4, <1>0, ModShift
        <5> QED
          BY <5>5 DEF x, r
      <4> QED
        BY <2>2, <3>2, <3>3, <3>5, <4>2
    <3> QED
      BY <3>4, <3>5
  <2> QED
    BY <2>1, <2>2
<1>4. g = [i \in 0 .. n |-> g[i]]
  OBVIOUS
<1>5. n \in 0 .. n /\ g[n] = Worth(str, base) % Modulus
  BY <1>0, <1>1
<1> HIDE DEF g
<1>6. NumberBy(str, base, g)
  BY <1>3, <1>4 DEF NumberBy
<1> DEFINE h == CHOOSE k : NumberBy(str, base, k)
<1>7. Number(str, base) = h[n]
  BY DEF Number, NumberBy
<1>8. NumberBy(str, base, h)
  BY <1>6
<1> HIDE DEF h
<1>9. Follows(1, n, h, g)
  <2>1. h[1-1] = g[1-1]
    BY <1>0, <1>6, <1>8 DEF NumberBy
  <2>2. ASSUME NEW i \in 1 .. n, h[i-1] = g[i-1] PROVE h[i] = g[i]
    <3>1. i \in 0 .. n /\ i # 0
      BY <1>0
    <3> QED
      BY <3>1, <2>2, <1>6, <1>8 DEF NumberBy
  <2> QED
    BY <2>1, <2>2 DEF Follows
<1>10. Agree(1, n, h, g)
  <2>1. n \in Int /\ 1 \in Int
    BY <1>0
  <2> HIDE DEF n
  <2> QED
    BY <1>9, <2>1, ScanSame
<1>11. h[n] = g[n]
  BY <1>0, <1>10 DEF Agree
<1>12. Worth(str, base) \in Int
  BY <1>0, <1>1
<1> QED
  BY <1>5, <1>7, <1>11, <1>12

-----------------------------------------------------------------------------
(* Parentheses counted over a range that is cut in two.                     *)
Brackets(t, p, k, c) == {i \in p .. k : t[i].type = c}

(* The brackets of a range are those of its two parts.                     *)
LEMMA BracketsSplit ==
  ASSUME NEW t, NEW c, NEW p \in Int, NEW m \in Int, NEW k \in Int, p - 1 <= m, m <= k
  PROVE  /\ Cardinality(Brackets(t, p, k, c)) \in Nat
         /\ Cardinality(Brackets(t, p, m, c)) \in Nat
         /\ Cardinality(Brackets(t, m + 1, k, c)) \in Nat
         /\ Cardinality(Brackets(t, p, k, c)) =
              Cardinality(Brackets(t, p, m, c)) + Cardinality(Brackets(t, m + 1, k, c))
<1> DEFINE A == Brackets(t, p, m, c)
           B == Brackets(t, m + 1, k, c)
           C == Brackets(t, p, k, c)
<1>1. A \subseteq p .. m /\ B \subseteq m + 1 .. k /\ C \subseteq p .. k
  BY DEF Brackets
<1>2. IsFiniteSet(A) /\ IsFiniteSet(B) /\ IsFiniteSet(C)
  <2>1. IsFiniteSet(p .. m) /\ IsFiniteSet(m + 1 .. k) /\ IsFiniteSet(p .. k)
    BY FS_Interval
  <2> HIDE DEF A, B, C
  <2> QED
    BY <1>1, <2>1, FS_Subset
<1>3. C = A \cup B /\ A \cap B = {}
  BY DEF Brackets
<1>4. Cardinality(A) \in Nat /\ Cardinality(B) \in Nat /\ Cardinality(C) \in Nat
  <2> HIDE DEF A, B, C
  <2> QED
    BY <1>2, FS_CardinalityType
<1>5. Cardinality(C) = Cardinality(A) + Cardinality(B)
  <2> HIDE DEF A, B, C
  <2>1. Cardinality(A \cap B) = 0
    BY <1>3, FS_EmptySet
  <2>2. Cardinality(A \cup B) = Cardinality(A) + Cardinality(B) - Cardinality(A \cap B)
    BY <1>2, FS_Union
  <2> QED
    BY <2>1, <2>2, <1>3, <1>4
<1> QED
  BY <1>4, <1>5

(* The depth in a range adds up over its two parts.                        *)
LEMMA DepthSplit ==
  ASSUME NEW t, NEW p \in Int, NEW m \in Int, NEW k \in Int, p - 1 <= m, m <= k
  PROVE  /\ Depth(t, p, k) \in Int /\ Depth(t, p, m) \in Int /\ Depth(t, m + 1, k) \in Int
         /\ Depth(t, p, k) = Depth(t, p, m) + Depth(t, m + 1, k)
<1> DEFINE N(x, y, c) == Cardinality(Brackets(t, x, y, c))
<1>1. \A c : /\ N(p, k, c) \in Nat /\ N(p, m, c) \in Nat /\ N(m + 1, k, c) \in Nat
             /\ N(p, k, c) = N(p, m, c) + N(m + 1, k, c)
  BY BracketsSplit
<1>2. \A x, y : Depth(t, x, y) = N(x, y, "(") - N(x, y, ")")
  BY DEF Depth, Brackets
<1> HIDE DEF N
<1> QED
  BY <1>1, <1>2

(* The depth of one token.                                                 *)
LEMMA DepthOne ==
  ASSUME NEW t, NEW k \in Int
  PROVE  Depth(t, k, k) = CASE t[k].type = "(" -> 1 [] t[k].type = ")" -> 0 - 1 [] OTHER -> 0
<1> DEFINE S(c) == {i \in k .. k : t[i].type = c}
<1>1. \A c : Cardinality(S(c)) = IF t[k].type = c THEN 1 ELSE 0
  <2> SUFFICES ASSUME NEW c PROVE Cardinality(S(c)) = IF t[k].type = c THEN 1 ELSE 0
    OBVIOUS
  <2>1. S(c) = IF t[k].type = c THEN {k} ELSE {}
    OBVIOUS
  <2> QED
    BY <2>1, FS_Singleton, FS_EmptySet
<1>2. Depth(t, k, k) = Cardinality(S("(")) - Cardinality(S(")"))
  BY DEF Depth
<1> HIDE DEF S
<1> QED
  BY <1>1, <1>2

(* No token, no depth.                                                     *)
LEMMA DepthNone ==
  ASSUME NEW t, NEW p \in Int
  PROVE  Depth(t, p, p - 1) = 0
<1>1. p .. p - 1 = {}
  OBVIOUS
<1>2. \A c : {i \in p .. p - 1 : t[i].type = c} = {}
  BY <1>1
<1> QED
  BY <1>2, FS_EmptySet DEF Depth

-----------------------------------------------------------------------------
(* The scan for the operator at which a range is split.                     *)
Operators(t, p, q) == {k \in p .. q : t[k].type \in DOMAIN Rank}
PosAt(t, p, k, old) ==
  IF t[k].type \in DOMAIN Rank /\ Depth(t, p, k) = 0 /\ (old = 0 \/ Replaces(t[k].type, t[old].type))
  THEN k ELSE old
PositionBy(t, p, q, f) == f = [k \in p - 1 .. q |-> IF k < p THEN 0 ELSE PosAt(t, p, k, f[k - 1])]

Found(t, p, q, g) ==
  /\ g \in [p - 1 .. q -> {0} \cup Operators(t, p, q)]
  /\ g[p - 1] = 0 /\ \A k \in p .. q : g[k] = PosAt(t, p, k, g[k - 1])
  /\ getPosition(t, p, q) = g[q]
(* getPosition is the last value of its scan.                              *)
LEMMA PositionIs ==
  ASSUME NEW t, NEW p \in Int, NEW q \in Int, p <= q
  PROVE  \E g : Found(t, p, q, g)
<1> DEFINE V == {0} \cup Operators(t, p, q)
           step == [k \in p .. q |-> [v \in V |-> PosAt(t, p, k, v)]]
<1>1. \A k \in p .. q, v \in V : PosAt(t, p, k, v) \in V
  BY DEF PosAt, Operators
<1>2. \A k \in p .. q, v \in V : step[k][v] = PosAt(t, p, k, v)
  OBVIOUS
<1>3. Scannable(p, q, V, 0, step)
  <2>1. step \in [p .. q -> [V -> V]]
    BY <1>1
  <2>2. 0 \in V /\ p - 1 <= q
    OBVIOUS
  <2> HIDE DEF V, step
  <2> QED
    BY <2>1, <2>2 DEF Scannable
<1> HIDE DEF V, step
<1>4. PICK f : Scanned(p, q, V, 0, step, f)
  BY <1>3, Scan
<1>5. f \in [p - 1 .. q -> V] /\ f[p - 1] = 0 /\ \A k \in p .. q : f[k] = step[k][f[k - 1]]
  BY <1>4 DEF Scanned
<1>6. \A k \in p .. q : f[k] = PosAt(t, p, k, f[k - 1])
  <2> SUFFICES ASSUME NEW k \in p .. q PROVE f[k] = PosAt(t, p, k, f[k - 1])
    OBVIOUS
  <2>1. k - 1 \in p - 1 .. q
    OBVIOUS
  <2>2. f[k - 1] \in V
    BY <2>1, <1>5
  <2> QED
    BY <2>2, <1>2, <1>5
<1>7. PositionBy(t, p, q, f)
  <2>1. f = [k \in p - 1 .. q |-> f[k]]
    BY <1>5
  <2>2. ASSUME NEW k \in p - 1 .. q PROVE f[k] = IF k < p THEN 0 ELSE PosAt(t, p, k, f[k - 1])
    <3>1. k < p => k = p - 1
      OBVIOUS
    <3>2. ~(k < p) => k \in p .. q
      OBVIOUS
    <3> QED
      BY <3>1, <3>2, <1>5, <1>6
  <2> QED
    BY <2>1, <2>2 DEF PositionBy
<1> DEFINE h == CHOOSE g : PositionBy(t, p, q, g)
<1>8. getPosition(t, p, q) = h[q]
  BY DEF getPosition, PositionBy, PosAt
<1>9. PositionBy(t, p, q, h)
  BY <1>7
<1> HIDE DEF h
<1>10. h[p - 1] = 0 /\ \A k \in p .. q : h[k] = PosAt(t, p, k, h[k - 1])
  <2>1. h[p - 1] = 0
    <3>1. p - 1 \in p - 1 .. q /\ p - 1 < p
      OBVIOUS
    <3> QED
      BY <3>1, <1>9 DEF PositionBy
  <2>2. ASSUME NEW k \in p .. q PROVE h[k] = PosAt(t, p, k, h[k - 1])
    <3>1. k \in p - 1 .. q /\ ~(k < p)
      OBVIOUS
    <3> QED
      BY <3>1, <1>9 DEF PositionBy
  <2> QED
    BY <2>1, <2>2
<1>11. Follows(p, q, h, f)
  <2>1. ASSUME NEW k \in p .. q, h[k - 1] = f[k - 1] PROVE h[k] = f[k]
    BY <2>1, <1>6, <1>10
  <2> QED
    BY <2>1, <1>5, <1>10 DEF Follows
<1>12. Agree(p, q, h, f)
  BY <1>11, ScanSame
<1>13. h[q] = f[q]
  <2>1. q \in p - 1 .. q
    OBVIOUS
  <2> QED
    BY <2>1, <1>12 DEF Agree
<1> QED
  BY <1>5, <1>6, <1>8, <1>13 DEF V, Found

(* getPosition gives 0 or an operator of the range.                        *)
LEMMA PositionTyped ==
  ASSUME NEW t, NEW p \in Int, NEW q \in Int, p <= q
  PROVE  getPosition(t, p, q) = 0
         \/ (getPosition(t, p, q) \in p .. q /\ t[getPosition(t, p, q)].type \in DOMAIN Rank)
<1>1. PICK g : Found(t, p, q, g)
  BY PositionIs
<1>2. q \in p - 1 .. q
  OBVIOUS
<1>3. g \in [p - 1 .. q -> {0} \cup Operators(t, p, q)] /\ getPosition(t, p, q) = g[q]
  BY <1>1 DEF Found
<1>4. g[q] \in {0} \cup Operators(t, p, q)
  BY <1>2, <1>3
<1> QED
  BY <1>3, <1>4 DEF Operators

-----------------------------------------------------------------------------
(* The evaluator's recursion on ranges.                                     *)
Results == [v : 0 .. Modulus - 1, ok : BOOLEAN, died : BOOLEAN]
Ranges(t) == (1 .. Len(t) + 1) \X (0 .. Len(t))
MemoryOfNumbers(mem) == \A a \in PmemLeft .. PmemRight - 3 : mem[a] \in Int
Sane(t, regs, mem) ==
  Len(t) \in Nat /\ (\A i \in 1 .. Len(t) : expr2val(t[i], regs) \in Results) /\ MemoryOfNumbers(mem)
EvalBy(t, regs, mem, f) == f = [r \in Ranges(t) |-> EvalRange(t, regs, mem, f, r[1], r[2])]

(* What the evaluator returns are words, in three forms.                   *)
LEMMA ValueTyped ==
  /\ \A x \in Int : Value(x) \in Results /\ Value(x) = [v |-> x % Modulus, ok |-> TRUE, died |-> FALSE]
  /\ Failed \in Results /\ Died \in Results /\ ~Died.ok /\ Died.died
<1>1. Modulus \in Nat \ {0}
  BY WordsAssumption
<1>2. \A x \in Int : x % Modulus \in 0 .. Modulus - 1
  BY <1>1, Division
<1>3. 0 \in 0 .. Modulus - 1
  BY <1>1
<1> QED
  BY <1>2, <1>3 DEF Value, Failed, Died, Results

(* A read of memory is a result.                                           *)
LEMMA ReadTyped ==
  ASSUME NEW mem, MemoryOfNumbers(mem), NEW a
  PROVE  pmem_read(mem, a) \in Results
BY ValueTyped DEF pmem_read, MemoryOfNumbers

(* An operator applied to words gives a result.                            *)
LEMMA ApplyTyped ==
  ASSUME NEW mem, MemoryOfNumbers(mem), NEW op \in DOMAIN Rank, NEW a \in Nat, NEW b \in Nat
  PROVE  Apply(op, a, b, mem) \in Results
<1>0. op \in {"&&", "==", "!=", "+", "-", "*", "/", "ref"}
  BY DEF Rank
<1>1. CASE op \in {"&&", "==", "!="}
  BY <1>1, ValueTyped DEF Apply
<1>2. CASE op \in {"+", "-", "*"}
  <2>1. a + b \in Int /\ a - b \in Int /\ a * b \in Int
    OBVIOUS
  <2> QED
    BY <1>2, <2>1, ValueTyped DEF Apply
<1>3. CASE op = "/"
  <2>1. b # 0 => a \div b \in Int
    OBVIOUS
  <2> QED
    BY <1>3, <2>1, ValueTyped DEF Apply
<1>4. CASE op = "ref"
  BY <1>4, ReadTyped DEF Apply
<1> QED
  BY <1>0, <1>1, <1>2, <1>3, <1>4

(* A range split at an operator gives a result when smaller ranges do.     *)
LEMMA SplitTyped ==
  ASSUME NEW t, Len(t) \in Nat, NEW mem, MemoryOfNumbers(mem), NEW f \in [Ranges(t) -> Results],
         NEW p \in 1 .. Len(t) + 1, NEW q \in 0 .. Len(t), p < q
  PROVE  Split(t, mem, f, p, q) \in Results
<1> DEFINE op == getPosition(t, p, q)
           left_ == IF op = 0 THEN Died ELSE IF t[p].type = "ref" THEN Value(0) ELSE f[<<p, op - 1>>]
           right == IF left_.ok THEN f[<<op + 1, q>>] ELSE Failed
           done == Apply(t[op].type, left_.v, right.v, mem)
<1>1. op = 0 \/ (op \in p .. q /\ t[op].type \in DOMAIN Rank)
  <2>1. p \in Int /\ q \in Int /\ p <= q
    OBVIOUS
  <2> QED
    BY <2>1, PositionTyped
<1>2. Split(t, mem, f, p, q) =
        IF left_.died \/ right.died THEN Died ELSE IF done.died THEN Died ELSE [done EXCEPT !.ok = right.ok]
  BY DEF Split
<1> HIDE DEF op
<1>3. left_ \in Results /\ (op = 0 => left_ = Died)
  <2>1. CASE op = 0
    BY <2>1, ValueTyped
  <2>2. CASE op # 0
    <3>1. <<p, op - 1>> \in Ranges(t)
      BY <1>1, <2>2 DEF Ranges
    <3>2. f[<<p, op - 1>>] \in Results
      BY <3>1
    <3> QED
      BY <2>2, <3>2, ValueTyped
  <2> QED
    BY <2>1, <2>2
<1>4. right \in Results
  <2>1. CASE op = 0
    BY <2>1, <1>3, ValueTyped
  <2>2. CASE op # 0
    <3>1. <<op + 1, q>> \in Ranges(t)
      BY <1>1, <2>2 DEF Ranges
    <3>2. f[<<op + 1, q>>] \in Results
      BY <3>1
    <3> QED
      BY <3>2, ValueTyped
  <2> QED
    BY <2>1, <2>2
<1> HIDE DEF left_, right
<1>5. CASE op = 0
  BY <1>2, <1>3, <1>5, ValueTyped
<1>6. CASE op # 0
  <2>1. left_.v \in Nat /\ right.v \in Nat /\ right.ok \in BOOLEAN
    BY <1>3, <1>4, WordsAssumption DEF Results
  <2>2. done \in Results
    BY <2>1, <1>1, <1>6, ApplyTyped
  <2> HIDE DEF done
  <2>3. [done EXCEPT !.ok = right.ok] \in Results
    BY <2>1, <2>2 DEF Results
  <2> QED
    BY <1>2, <2>3, ValueTyped
<1> QED
  BY <1>5, <1>6

(* Splitting a range looks at smaller ranges only.                         *)
LEMMA SplitLocal ==
  ASSUME NEW t, Len(t) \in Nat, NEW mem, NEW f, NEW g,
         NEW p \in 1 .. Len(t) + 1, NEW q \in 0 .. Len(t), p < q,
         \A r \in Ranges(t) : r[2] - r[1] < q - p => f[r] = g[r]
  PROVE  Split(t, mem, f, p, q) = Split(t, mem, g, p, q)
<1> DEFINE op == getPosition(t, p, q)
           L(e) == IF op = 0 THEN Died ELSE IF t[p].type = "ref" THEN Value(0) ELSE e[<<p, op - 1>>]
           R(e) == IF L(e).ok THEN e[<<op + 1, q>>] ELSE Failed
           done(e) == Apply(t[op].type, L(e).v, R(e).v, mem)
           S(e) == IF L(e).died \/ R(e).died THEN Died
                   ELSE IF done(e).died THEN Died ELSE [done(e) EXCEPT !.ok = R(e).ok]
<1>1. op = 0 \/ op \in p .. q
  <2>1. p \in Int /\ q \in Int /\ p <= q
    OBVIOUS
  <2> QED
    BY <2>1, PositionTyped
<1>2. Split(t, mem, f, p, q) = S(f) /\ Split(t, mem, g, p, q) = S(g)
  BY DEF Split
<1> HIDE DEF op
<1>3. op # 0 => f[<<p, op - 1>>] = g[<<p, op - 1>>] /\ f[<<op + 1, q>>] = g[<<op + 1, q>>]
  <2> SUFFICES ASSUME op # 0 PROVE f[<<p, op - 1>>] = g[<<p, op - 1>>] /\ f[<<op + 1, q>>] = g[<<op + 1, q>>]
    OBVIOUS
  <2>1. <<p, op - 1>> \in Ranges(t) /\ (op - 1) - p < q - p
    BY <1>1 DEF Ranges
  <2>2. <<op + 1, q>> \in Ranges(t) /\ q - (op + 1) < q - p
    BY <1>1 DEF Ranges
  <2> QED
    BY <2>1, <2>2
<1>4. L(f) = L(g)
  BY <1>3
<1>5. R(f) = R(g)
  <2>1. CASE op = 0
    <3>1. ~L(f).ok
      BY <2>1, ValueTyped
    <3> QED
      BY <3>1, <1>4
  <2>2. CASE op # 0
    BY <2>2, <1>3, <1>4
  <2> QED
    BY <2>1, <2>2
<1> HIDE DEF L, R
<1> QED
  BY <1>2, <1>4, <1>5

(* eval is defined on every range: its recursion ends.                     *)
LEMMA EvalIs ==
  ASSUME NEW t, NEW regs, NEW mem, Sane(t, regs, mem)
  PROVE  \E f \in [Ranges(t) -> Results] :
           EvalBy(t, regs, mem, f) /\ eval(t, regs, mem) = f[<<1, Len(t)>>]
<1> DEFINE n == Len(t)
           D == Ranges(t)
           E(f, r) == EvalRange(t, regs, mem, f, r[1], r[2])
           size == [r \in D |-> IF r[1] > r[2] THEN 0 ELSE r[2] - r[1] + 1]
           G == [r \in D |-> [f \in [D -> Results] |-> E(f, r)]]
<1>0. n \in Nat /\ MemoryOfNumbers(mem) /\ \A i \in 1 .. n : expr2val(t[i], regs) \in Results
  BY DEF Sane
<1>1. ASSUME NEW r \in D PROVE r[1] \in 1 .. n + 1 /\ r[2] \in 0 .. n
  BY DEF Ranges
<1>2. \A r \in D : size[r] = IF r[1] > r[2] THEN 0 ELSE r[2] - r[1] + 1
  OBVIOUS
<1>3. size \in [D -> 0 .. n + 1]
  <2>1. \A r \in D : (IF r[1] > r[2] THEN 0 ELSE r[2] - r[1] + 1) \in 0 .. n + 1
    BY <1>0, <1>1
  <2> HIDE DEF D
  <2> QED
    BY <2>1
<1>4. ASSUME NEW r \in D, r[1] < r[2] PROVE <<r[1] + 1, r[2] - 1>> \in D
  BY <1>0, <1>1, <1>4 DEF Ranges
<1>5. ASSUME NEW r \in D, NEW f \in [D -> Results] PROVE E(f, r) \in Results
  <2> DEFINE p == r[1]  q == r[2]
  <2>1. p \in 1 .. n + 1 /\ q \in 0 .. n
    BY <1>1
  <2>2. CASE p > q
    BY <2>2, ValueTyped DEF EvalRange
  <2>3. CASE p = q
    BY <2>1, <2>3, <1>0 DEF EvalRange
  <2>4. CASE p < q
    <3>1. f[<<p + 1, q - 1>>] \in Results
      BY <1>4, <2>4
    <3>2. Split(t, mem, f, p, q) \in Results
      BY <2>1, <2>4, <1>0, SplitTyped
    <3>3. ~(p > q) /\ p # q
      BY <2>1, <2>4
    <3> QED
      BY <3>1, <3>2, <3>3, ValueTyped DEF EvalRange
  <2> QED
    BY <2>1, <2>2, <2>3, <2>4
<1>6. ASSUME NEW r \in D, NEW f, NEW g, Below(D, size, r, f, g)
      PROVE  E(f, r) = E(g, r)
  <2> DEFINE p == r[1]  q == r[2]
  <2>1. p \in 1 .. n + 1 /\ q \in 0 .. n
    BY <1>1
  <2>2. CASE ~(p < q)
    BY <2>1, <2>2 DEF EvalRange
  <2>3. CASE p < q
    <3>1. ASSUME NEW s \in D, s[2] - s[1] < q - p PROVE f[s] = g[s]
      <4>1. size[s] < size[r]
        <5>1. s[1] \in Int /\ s[2] \in Int
          BY <1>1
        <5> QED
          BY <5>1, <2>1, <2>3, <3>1, <1>2
      <4> QED
        BY <4>1, <1>6 DEF Below
    <3>2. Split(t, mem, f, p, q) = Split(t, mem, g, p, q)
      BY <1>0, <2>1, <2>3, <3>1, SplitLocal
    <3>3. f[<<p + 1, q - 1>>] = g[<<p + 1, q - 1>>]
      <4>1. <<p + 1, q - 1>> \in D
        BY <1>4, <2>3
      <4>2. (q - 1) - (p + 1) < q - p
        BY <2>1
      <4> QED
        BY <4>1, <4>2, <3>1
    <3> QED
      BY <3>2, <3>3 DEF EvalRange
  <2> QED
    BY <2>2, <2>3
<1>7. \A r \in D, f \in [D -> Results] : G[r][f] = E(f, r)
  OBVIOUS
<1> HIDE DEF D, E, size, G
<1>8. Lowers(D, Results, size, n + 1, G)
  BY <1>3, <1>5, <1>6, <1>7 DEF Lowers
<1>9. Results # {} /\ n + 1 \in Nat
  BY <1>0, ValueTyped
<1>10. PICK f \in [D -> Results] : \A r \in D : f[r] = G[r][f]
  BY <1>8, <1>9, BoundedRecursion
<1>11. EvalBy(t, regs, mem, f)
  <2>1. f = [r \in D |-> f[r]]
    BY <1>10
  <2>2. \A r \in D : f[r] = E(f, r)
    BY <1>7, <1>10
  <2> QED
    BY <2>1, <2>2 DEF EvalBy, D, E
<1> DEFINE h == CHOOSE g : EvalBy(t, regs, mem, g)
<1>12. eval(t, regs, mem) = h[<<1, n>>]
  BY DEF eval, EvalBy, Ranges
<1>13. EvalBy(t, regs, mem, h)
  BY <1>11
<1> HIDE DEF h
<1>14. ASSUME NEW r \in D, Below(D, size, r, h, f) PROVE h[r] = f[r]
  <2>1. h[r] = E(h, r) /\ f[r] = E(f, r)
    BY <1>11, <1>13 DEF EvalBy, D, E
  <2> QED
    BY <2>1, <1>6, <1>14
<1>15. size \in [D -> Nat]
  BY <1>0, <1>3
<1>16. \A r \in D : h[r] = f[r]
  BY <1>14, <1>15, BoundedSame
<1>17. <<1, n>> \in D
  BY <1>0 DEF D, Ranges
<1>18. f \in [Ranges(t) -> Results]
  BY <1>10 DEF D
<1> QED
  BY <1>11, <1>12, <1>16, <1>17, <1>18

-----------------------------------------------------------------------------
(* The tokens of a line without blanks: a star is read by the lexeme before *)
(* it.                                                                      *)
Token(text, i) ==
  IF text[i].type = "*" /\ (i = 1 \/ ~PrevIsNum(text[i - 1])) THEN Op("ref") ELSE text[i]
TokensBy(text, f) ==
  f = [i \in 0 .. Len(text) |->
         IF i = 0 THEN <<>>
         ELSE IF text[i].type \in {"blank", "newline"} THEN f[i - 1]
         ELSE Append(f[i - 1], IF text[i].type = "*" /\ ~AfterNum(f[i - 1]) THEN Op("ref") ELSE text[i])]

(* Without blanks there is a token for each lexeme.                        *)
LEMMA TokensAre ==
  ASSUME NEW text, Len(text) \in Nat, \A i \in 1 .. Len(text) : text[i].type \notin {"blank", "newline"}
  PROVE  make_token(text) = [i \in 1 .. Len(text) |-> Token(text, i)]
<1> DEFINE n == Len(text)
           S == {Token(text, i) : i \in 1 .. n}
           g == [i \in 0 .. n |-> [j \in 1 .. i |-> Token(text, j)]]
<1>1. ASSUME NEW i \in 0 .. n PROVE g[i] \in Seq(S) /\ Len(g[i]) = i /\ \A j \in 1 .. i : g[i][j] = Token(text, j)
  <2>1. \A j \in 1 .. i : j \in 1 .. n
    OBVIOUS
  <2>2. \A j \in 1 .. i : Token(text, j) \in S
    BY <2>1
  <2>3. g[i] = [j \in 1 .. i |-> Token(text, j)] /\ i \in Nat
    OBVIOUS
  <2> HIDE DEF S, g
  <2>4. [j \in 1 .. i |-> Token(text, j)] \in Seq(S)
    BY <2>2, <2>3, IsASeq
  <2> QED
    BY <2>3, <2>4
<1>2. ASSUME NEW i \in 1 .. n
      PROVE  g[i] = Append(g[i - 1], IF text[i].type = "*" /\ ~AfterNum(g[i - 1]) THEN Op("ref") ELSE text[i])
  <2> DEFINE x == IF text[i].type = "*" /\ ~AfterNum(g[i - 1]) THEN Op("ref") ELSE text[i]
             s == g[i - 1]
  <2>1. i - 1 \in 0 .. n /\ i \in 0 .. n
    OBVIOUS
  <2>2. s \in Seq(S) /\ Len(s) = i - 1 /\ \A j \in 1 .. i - 1 : s[j] = Token(text, j)
    BY <1>1, <2>1
  <2>3. AfterNum(s) <=> i # 1 /\ PrevIsNum(text[i - 1])
    <3>1. CASE i = 1
      <4>1. Len(s) = 0
        BY <2>2, <3>1
      <4>2. s = <<>>
        BY <4>1, <2>2, EmptySeq
      <4> QED
        BY <3>1, <4>2 DEF AfterNum
    <3>2. CASE i # 1
      <4>1. i - 1 \in 1 .. i - 1
        BY <3>2
      <4>2. s # <<>> /\ s[Len(s)] = Token(text, i - 1)
        <5> HIDE DEF s
        <5>1. s[Len(s)] = Token(text, i - 1)
          BY <2>2, <4>1
        <5>2. Len(s) # 0
          BY <2>2, <4>1
        <5> QED
          BY <5>1, <5>2
      <4>3. PrevIsNum(Token(text, i - 1)) <=> PrevIsNum(text[i - 1])
        BY DEF Token, PrevIsNum, Op
      <4> QED
        BY <3>2, <4>2, <4>3 DEF AfterNum
    <3> QED
      BY <3>1, <3>2
  <2>4. x = Token(text, i)
    BY <2>3 DEF Token
  <2>5. Token(text, i) \in S
    OBVIOUS
  <2>6. g[i] \in Seq(S) /\ Len(g[i]) = i /\ \A j \in 1 .. i : g[i][j] = Token(text, j)
    BY <1>1, <2>1
  <2> HIDE DEF S, g, s, x
  <2>7. /\ Append(s, Token(text, i)) \in Seq(S) /\ Len(Append(s, Token(text, i))) = i
        /\ \A j \in 1 .. i : Append(s, Token(text, i))[j] = Token(text, j)
    BY <2>2, <2>5
  <2>8. g[i] = Append(s, Token(text, i))
    BY <2>6, <2>7, SeqEqual
  <2> QED
    BY <2>4, <2>8 DEF x, s
<1>3. TokensBy(text, g)
  <2>1. g[0] = <<>>
    OBVIOUS
  <2>2. g = [i \in 0 .. n |-> g[i]]
    OBVIOUS
  <2>3. \A i \in 0 .. n : i # 0 => i \in 1 .. n
    OBVIOUS
  <2> HIDE DEF g
  <2> QED
    BY <1>2, <2>1, <2>2, <2>3 DEF TokensBy
<1>4. g[n] = [i \in 1 .. n |-> Token(text, i)]
  OBVIOUS
<1> HIDE DEF g
<1> DEFINE h == CHOOSE k : TokensBy(text, k)
<1>5. make_token(text) = h[n]
  BY DEF make_token, TokensBy
<1>6. TokensBy(text, h)
  BY <1>3
<1> HIDE DEF h
<1>7. Follows(1, n, h, g)
  <2>1. h[1-1] = g[1-1]
    BY <1>3, <1>6 DEF TokensBy
  <2>2. ASSUME NEW i \in 1 .. n, h[i - 1] = g[i - 1] PROVE h[i] = g[i]
    <3>1. i \in 0 .. n /\ i # 0
      OBVIOUS
    <3>2. /\ h[i] = Append(h[i - 1], IF text[i].type = "*" /\ ~AfterNum(h[i - 1]) THEN Op("ref") ELSE text[i])
          /\ g[i] = Append(g[i - 1], IF text[i].type = "*" /\ ~AfterNum(g[i - 1]) THEN Op("ref") ELSE text[i])
      BY <3>1, <1>3, <1>6 DEF TokensBy
    <3> QED
      BY <3>2, <2>2, ZenonT(30)
  <2> QED
    BY <2>1, <2>2 DEF Follows
<1>8. Agree(1, n, h, g)
  <2>1. n \in Int /\ 1 \in Int
    OBVIOUS
  <2> HIDE DEF n
  <2> QED
    BY <1>7, <2>1, ScanSame
<1>9. h[n] = g[n]
  BY <1>8 DEF Agree
<1> QED
  BY <1>4, <1>5, <1>9

-----------------------------------------------------------------------------
(* What it is for the tokens p to q to be read as an expression with value  *)
(* v, none of whose operators outside parentheses binds less than least.    *)
Answer(v) == v = Died \/ (v \in Results /\ v.ok /\ ~v.died)
Level0(t, p, q) == Depth(t, p, q) = 0 /\ \A k \in p .. q : Depth(t, p, k) \in Nat
Binds(t, p, q, least) ==
  \A k \in p .. q : t[k].type \in DOMAIN Rank /\ Depth(t, p, k) = 0 => Level(t[k].type) >= least
Reads(t, f, p, q, least, v) ==
  /\ p \in 1 .. Len(t) /\ q \in 1 .. Len(t) /\ p <= q
  /\ Level0(t, p, q) /\ Binds(t, p, q, least)
  /\ PrevIsNum(t[q])
  /\ f[<<p, q>>] = v /\ Answer(v)
Evaluates(t, regs, mem, f) == Sane(t, regs, mem) /\ EvalBy(t, regs, mem, f)

(* An induction over an interval.                                          *)
LEMMA Climb ==
  ASSUME NEW a \in Int, NEW b \in Int, NEW S, a - 1 \in S, \A i \in a .. b : i - 1 \in S => i \in S
  PROVE  a - 1 .. b \subseteq S
<1> DEFINE f == [i \in a - 1 .. b |-> IF i \in S THEN 1 ELSE 0]
           g == [i \in a - 1 .. b |-> 1]
<1>1. CASE b < a - 1
  BY <1>1
<1>2. CASE b >= a - 1
  <2>1. f[a - 1] = g[a - 1]
    BY <1>2
  <2>2. \A i \in a .. b : f[i - 1] = g[i - 1] => f[i] = g[i]
    OBVIOUS
  <2>3. \A i \in a - 1 .. b : f[i] = g[i] => i \in S
    OBVIOUS
  <2> HIDE DEF f, g
  <2>4. Follows(a, b, f, g)
    BY <2>1, <2>2 DEF Follows
  <2>5. Agree(a, b, f, g)
    BY <2>4, ScanSame
  <2> QED
    BY <2>3, <2>5 DEF Agree
<1> QED
  BY <1>1, <1>2

(* One unfolding of eval.                                                  *)
LEMMA RangeValue ==
  ASSUME NEW t, NEW regs, NEW mem, NEW f, Evaluates(t, regs, mem, f),
         NEW p \in 1 .. Len(t), NEW q \in 1 .. Len(t)
  PROVE  f[<<p, q>>] = EvalRange(t, regs, mem, f, p, q)
<1>1. Len(t) \in Nat /\ f = [r \in Ranges(t) |-> EvalRange(t, regs, mem, f, r[1], r[2])]
  BY DEF Evaluates, Sane, EvalBy
<1>2. <<p, q>> \in Ranges(t)
  BY <1>1 DEF Ranges
<1> QED
  BY <1>1, <1>2

(* A number or a register is read as an expression.                        *)
LEMMA LeafReads ==
  ASSUME NEW t, NEW regs, NEW mem, NEW f, Evaluates(t, regs, mem, f), NEW p \in 1 .. Len(t),
         t[p].type \in {"dec", "hex", "reg"}, Answer(expr2val(t[p], regs))
  PROVE  Reads(t, f, p, p, 5, expr2val(t[p], regs))
<1>1. Len(t) \in Nat
  BY DEF Evaluates, Sane
<1>2. Depth(t, p, p) = 0
  BY DepthOne
<1>3. f[<<p, p>>] = expr2val(t[p], regs)
  <2>1. f[<<p, p>>] = EvalRange(t, regs, mem, f, p, p)
    BY RangeValue
  <2> QED
    BY <2>1 DEF EvalRange
<1>4. \A k \in p .. p : k = p
  OBVIOUS
<1>5. t[p].type \notin DOMAIN Rank
  BY DEF Rank
<1>6. Level0(t, p, p) /\ Binds(t, p, p, 5)
  BY <1>2, <1>4, <1>5 DEF Level0, Binds
<1> QED
  BY <1>3, <1>6 DEF Reads, PrevIsNum

(* So is an expression in parentheses, which binds as tightly as any.      *)
LEMMA ParensRead ==
  ASSUME NEW t, NEW regs, NEW mem, NEW f, Evaluates(t, regs, mem, f),
         NEW p \in 1 .. Len(t), NEW q \in 1 .. Len(t), NEW least, NEW v,
         Reads(t, f, p + 1, q - 1, least, v), t[p].type = "(", t[q].type = ")"
  PROVE  Reads(t, f, p, q, 5, v)
<1>0. p < q /\ p + 1 <= q - 1 /\ Level0(t, p + 1, q - 1) /\ f[<<p + 1, q - 1>>] = v /\ Answer(v)
  BY DEF Reads
<1>1. Depth(t, p, p) = 1 /\ Depth(t, q, q) = 0 - 1
  BY DepthOne
<1>2. ASSUME NEW k \in p .. q - 1 PROVE Depth(t, p, k) \in Nat /\ Depth(t, p, k) > 0
  <2>1. CASE k = p
    BY <2>1, <1>1
  <2>2. CASE k # p
    <3>1. Depth(t, p, k) = Depth(t, p, p) + Depth(t, p + 1, k)
      BY <2>2, DepthSplit
    <3>2. k \in p + 1 .. q - 1
      BY <2>2
    <3>3. Depth(t, p + 1, k) \in Nat
      BY <3>2, <1>0 DEF Level0
    <3> QED
      BY <3>1, <3>3, <1>1
  <2> QED
    BY <2>1, <2>2
<1>3. Depth(t, p, q) = 0
  <2>1. Depth(t, p, q) = Depth(t, p, q - 1) + Depth(t, (q - 1) + 1, q)
    BY <1>0, DepthSplit
  <2>2. Depth(t, p, q - 1) = Depth(t, p, p) + Depth(t, p + 1, q - 1)
    BY <1>0, DepthSplit
  <2>3. Depth(t, p + 1, q - 1) = 0 /\ (q - 1) + 1 = q
    BY <1>0 DEF Level0
  <2> QED
    BY <2>1, <2>2, <2>3, <1>1
<1>4. \A k \in p .. q : k \in p .. q - 1 \/ k = q
  OBVIOUS
<1>5. Level0(t, p, q)
  BY <1>2, <1>3, <1>4 DEF Level0
<1>6. Binds(t, p, q, 5)
  <2>1. \A k \in p .. q : Depth(t, p, k) = 0 => k = q
    BY <1>2, <1>4
  <2>2. t[q].type \notin DOMAIN Rank
    BY DEF Rank
  <2> QED
    BY <2>1, <2>2 DEF Binds
<1>7. check_parentheses(t, p, q) = "whole"
  <2>1. Balanced(t, p, q)
    BY <1>5 DEF Level0, Balanced
  <2>2. \A k \in p .. q - 1 : Depth(t, p, k) > 0
    BY <1>2
  <2> QED
    BY <2>1, <2>2 DEF check_parentheses
<1>8. f[<<p, q>>] = v
  <2>1. f[<<p, q>>] = EvalRange(t, regs, mem, f, p, q)
    BY RangeValue
  <2>2. ~(p > q) /\ p # q
    BY <1>0
  <2> QED
    BY <2>1, <2>2, <1>0, <1>7 DEF EvalRange
<1> QED
  BY <1>0, <1>5, <1>6, <1>8 DEF Reads, PrevIsNum

(* An operator applied to words gives a word, or the process dies.         *)
LEMMA ApplyAnswers ==
  ASSUME NEW mem, MemoryOfNumbers(mem), NEW op \in DOMAIN Rank, NEW a \in Nat, NEW b \in Nat
  PROVE  Answer(Apply(op, a, b, mem))
<1>0. op \in {"&&", "==", "!=", "+", "-", "*", "/", "ref"}
  BY DEF Rank
<1>1. \A x \in Int : Answer(Value(x))
  BY ValueTyped DEF Answer
<1>2. Answer(Died)
  BY DEF Answer
<1>3. CASE op \in {"&&", "==", "!="}
  BY <1>1, <1>3 DEF Apply
<1>4. CASE op \in {"+", "-", "*"}
  <2>1. a + b \in Int /\ a - b \in Int /\ a * b \in Int
    OBVIOUS
  <2> QED
    BY <1>1, <1>4, <2>1 DEF Apply
<1>5. CASE op = "/"
  <2>1. b # 0 => a \div b \in Int
    OBVIOUS
  <2> QED
    BY <1>1, <1>2, <1>5, <2>1 DEF Apply
<1>6. CASE op = "ref"
  BY <1>1, <1>2, <1>6 DEF Apply, pmem_read, MemoryOfNumbers
<1> QED
  BY <1>0, <1>3, <1>4, <1>5, <1>6

(* So does a read of memory.                                               *)
LEMMA ReadAnswers ==
  ASSUME NEW mem, MemoryOfNumbers(mem), NEW a
  PROVE  Answer(pmem_read(mem, a))
BY ValueTyped DEF pmem_read, MemoryOfNumbers, Answer

(* The operator found stays where what follows has none that replaces it.   *)
Stays(t, p, r, q) ==
  \A k \in r + 1 .. q : t[k].type \in DOMAIN Rank /\ Depth(t, p, k) = 0 => ~Replaces(t[k].type, t[r].type)
(* The operator found is where the range is split when none replaces it.   *)
LEMMA PositionKept ==
  ASSUME NEW t, NEW p \in Int, NEW q \in Int, NEW r \in p .. q, r # 0,
         NEW g, Found(t, p, q, g), g[r] = r, Stays(t, p, r, q)
  PROVE  getPosition(t, p, q) = r
<1> DEFINE S == {k \in r .. q : g[k] = r}
           a == r + 1
<1>1. \A k \in p .. q : g[k] = PosAt(t, p, k, g[k - 1])
  BY DEF Found
<1>2. a - 1 \in S
  OBVIOUS
<1>3. ASSUME NEW i \in a .. q, i - 1 \in S PROVE i \in S
  <2>1. i \in p .. q /\ i \in r .. q
    OBVIOUS
  <2>2. g[i] = PosAt(t, p, i, r)
    BY <2>1, <1>1, <1>3
  <2>3. PosAt(t, p, i, r) = r
    BY <1>3 DEF PosAt, Stays
  <2> QED
    BY <2>1, <2>2, <2>3
<1>4. a - 1 .. q \subseteq S
  <2>1. a \in Int
    OBVIOUS
  <2> HIDE DEF S, a
  <2> QED
    BY <1>2, <1>3, <2>1, Climb
<1>5. q \in a - 1 .. q
  OBVIOUS
<1>6. g[q] = r
  BY <1>4, <1>5
<1> QED
  BY <1>6 DEF Found

(* The operators of the evaluator.                                         *)
LEMMA Ranks ==
  /\ Rank["&&"] = 1 /\ Rank["=="] = 2 /\ Rank["!="] = 3 /\ Rank["+"] = 4
  /\ Rank["-"] = 5 /\ Rank["*"] = 6 /\ Rank["/"] = 7 /\ Rank["ref"] = 8
BY DEF Rank

(* An operator replaces what binds more tightly, and its like but == and !=. *)
LEMMA ReplacesLeft ==
  ASSUME NEW op \in BinaryOps, NEW old \in DOMAIN Rank, NEW least \in Int,
         Level(old) >= least, least >= Level(op), Level(op) = 2 => least # 2
  PROVE  Replaces(op, old)
<1>1. old \in {"&&", "==", "!=", "+", "-", "*", "/", "ref"}
  BY DEF Rank
<1>2. CASE op = "&&"
  BY <1>2 DEF Replaces
<1>3. CASE op \in {"==", "!="}
  <2>1. Level(op) = 2
    BY <1>3 DEF Level
  <2>2. Level(old) >= 3
    <3>1. least >= 3
      BY <2>1
    <3>2. Level(old) \in Int
      BY DEF Level
    <3> QED
      BY <3>1, <3>2
  <2>3. old \in {"+", "-", "*", "/", "ref"}
    BY <1>1, <2>2 DEF Level
  <2>4. Rank[old] >= Rank["+"]
    BY <2>3, Ranks
  <2> QED
    BY <1>3, <2>4 DEF Replaces
<1>4. CASE op \in {"+", "-"}
  <2>1. Level(op) = 3
    BY <1>4 DEF Level
  <2>2. Level(old) >= 3
    <3>1. Level(old) \in Int
      BY DEF Level
    <3> QED
      BY <3>1, <2>1
  <2>3. old \in {"+", "-", "*", "/", "ref"}
    BY <1>1, <2>2 DEF Level
  <2>4. Rank[old] >= Rank["+"]
    BY <2>3, Ranks
  <2> QED
    BY <1>4, <2>4 DEF Replaces
<1>5. CASE op \in {"*", "/"}
  <2>1. Level(op) = 4
    BY <1>5 DEF Level
  <2>2. Level(old) >= 4
    <3>1. Level(old) \in Int
      BY DEF Level
    <3> QED
      BY <3>1, <2>1
  <2>3. old \in {"*", "/", "ref"}
    BY <1>1, <2>2 DEF Level
  <2>4. Rank[old] >= Rank["*"]
    BY <2>3, Ranks
  <2> QED
    BY <1>5, <2>4 DEF Replaces
<1> QED
  BY <1>2, <1>3, <1>4, <1>5 DEF BinaryOps

(* What binds more tightly replaces no operator.                           *)
LEMMA NotReplacedRight ==
  ASSUME NEW op \in BinaryOps \cup {"ref"}, NEW new \in DOMAIN Rank,
         Level(new) >= Level(op) + 1 \/ (op = "ref" /\ Level(new) >= 5)
  PROVE  ~Replaces(new, op)
<1>1. new \in {"&&", "==", "!=", "+", "-", "*", "/", "ref"}
  BY DEF Rank
<1>2. CASE new = "ref"
  BY <1>2 DEF Replaces
<1>3. CASE new \in {"*", "/"}
  <2>1. op \in {"&&", "==", "!=", "+", "-"}
    BY <1>3 DEF Level, BinaryOps
  <2>2. ~(Rank[op] >= Rank["*"])
    BY <2>1, Ranks
  <2> QED
    BY <1>3, <2>2 DEF Replaces
<1>4. CASE new \in {"+", "-"}
  <2>1. op \in {"&&", "==", "!="}
    BY <1>4 DEF Level, BinaryOps
  <2>2. ~(Rank[op] >= Rank["+"])
    BY <2>1, Ranks
  <2> QED
    BY <1>4, <2>2 DEF Replaces
<1>5. CASE new \in {"==", "!="}
  <2>1. op = "&&"
    BY <1>5 DEF Level, BinaryOps
  <2>2. ~(Rank[op] >= Rank["+"])
    BY <2>1, Ranks
  <2> QED
    BY <1>5, <2>2 DEF Replaces
<1>6. CASE new = "&&"
  BY <1>6 DEF Level, BinaryOps
<1> QED
  BY <1>1, <1>2, <1>3, <1>4, <1>5, <1>6

(* A dereference of an expression that binds as tightly is an expression.  *)
LEMMA RefReads ==
  ASSUME NEW t, NEW regs, NEW mem, NEW f, Evaluates(t, regs, mem, f),
         NEW p \in 1 .. Len(t), NEW q \in 1 .. Len(t), NEW v,
         Reads(t, f, p + 1, q, 5, v), t[p].type = "ref"
  PROVE  Reads(t, f, p, q, 5, IF v.died THEN Died ELSE pmem_read(mem, v.v))
<1> DEFINE u == IF v.died THEN Died ELSE pmem_read(mem, v.v)
<1>0. /\ p < q /\ Level0(t, p + 1, q) /\ Binds(t, p + 1, q, 5) /\ f[<<p + 1, q>>] = v /\ Answer(v)
      /\ PrevIsNum(t[q]) /\ MemoryOfNumbers(mem)
  BY DEF Reads, Evaluates, Sane
<1>1. Depth(t, p, p) = 0
  BY DepthOne
<1>2. ASSUME NEW k \in p + 1 .. q PROVE Depth(t, p, k) = Depth(t, p + 1, k)
  <2>1. Depth(t, p, k) = Depth(t, p, p) + Depth(t, p + 1, k) /\ Depth(t, p + 1, k) \in Int
    BY DepthSplit
  <2> QED
    BY <2>1, <1>1
<1>3. \A k \in p .. q : k = p \/ k \in p + 1 .. q
  OBVIOUS
<1>4. q \in p + 1 .. q
  BY <1>0
<1>5. Level0(t, p, q)
  BY <1>0, <1>1, <1>2, <1>3, <1>4 DEF Level0
<1>6. Binds(t, p, q, 5)
  <2>1. Level(t[p].type) = 5
    BY DEF Level
  <2> QED
    BY <2>1, <1>0, <1>2, <1>3 DEF Binds
<1>7. check_parentheses(t, p, q) = "split"
  <2>1. Balanced(t, p, q)
    BY <1>5 DEF Level0, Balanced
  <2> QED
    BY <2>1 DEF check_parentheses
<1>8. getPosition(t, p, q) = p
  <2>1. p \in Int /\ q \in Int /\ p <= q /\ p # 0 /\ p \in p .. q
    BY <1>0
  <2>2. PICK g : Found(t, p, q, g)
    BY <2>1, PositionIs
  <2>3. g[p] = p
    <3>1. t[p].type \in DOMAIN Rank
      BY DEF Rank
    <3>2. g[p - 1] = 0 /\ g[p] = PosAt(t, p, p, g[p - 1])
      BY <2>1, <2>2 DEF Found
    <3> QED
      BY <3>1, <3>2, <1>1 DEF PosAt
  <2>4. ASSUME NEW k \in p + 1 .. q, t[k].type \in DOMAIN Rank, Depth(t, p, k) = 0
        PROVE  ~Replaces(t[k].type, t[p].type)
    <3>1. Level(t[k].type) >= 5
      BY <2>4, <1>0, <1>2 DEF Binds
    <3>2. "ref" \in BinaryOps \cup {"ref"}
      OBVIOUS
    <3> QED
      BY <2>4, <3>1, <3>2, NotReplacedRight
  <2>5. Stays(t, p, p, q)
    BY <2>4 DEF Stays
  <2> QED
    BY <2>1, <2>2, <2>3, <2>5, PositionKept
<1>9. f[<<p, q>>] = Split(t, mem, f, p, q)
  <2>1. f[<<p, q>>] = EvalRange(t, regs, mem, f, p, q)
    BY RangeValue
  <2>2. ~(p > q) /\ p # q
    BY <1>0
  <2> QED
    BY <2>1, <2>2, <1>7 DEF EvalRange
<1>10. Answer(u)
  BY <1>0, ReadAnswers DEF Answer
<1>11. Split(t, mem, f, p, q) = u
  <2> DEFINE right == IF Value(0).ok THEN f[<<p + 1, q>>] ELSE Failed
             done == Apply(t[p].type, Value(0).v, right.v, mem)
  <2>1. Split(t, mem, f, p, q) =
          IF Value(0).died \/ right.died THEN Died ELSE IF done.died THEN Died ELSE [done EXCEPT !.ok = right.ok]
    <3>1. p # 0
      OBVIOUS
    <3> QED
      BY <3>1, <1>8 DEF Split
  <2>2. Value(0).ok /\ ~Value(0).died
    BY ValueTyped
  <2>3. right = v
    BY <2>2, <1>0
  <2>4. done = pmem_read(mem, v.v)
    BY <2>3 DEF Apply
  <2> HIDE DEF right, done
  <2>5. CASE v.died
    BY <2>1, <2>3, <2>5
  <2>6. CASE ~v.died
    <3>1. v.ok = TRUE
      BY <2>6, <1>0, ValueTyped DEF Answer, Results
    <3>2. Answer(done)
      BY <2>4, <1>0, ReadAnswers
    <3>3. CASE done.died
      <4>1. done = Died
        BY <3>2, <3>3 DEF Answer
      <4> QED
        BY <2>1, <2>2, <2>3, <2>4, <2>6, <3>3, <4>1
    <3>4. CASE ~done.died
      <4>1. done \in Results /\ done.ok = TRUE
        BY <3>2, <3>4, ValueTyped DEF Answer, Results
      <4>2. [done EXCEPT !.ok = TRUE] = done
        BY <4>1 DEF Results
      <4> QED
        BY <2>1, <2>2, <2>3, <2>4, <2>6, <3>1, <3>4, <4>2
    <3> QED
      BY <3>3, <3>4
  <2> QED
    BY <2>5, <2>6
<1> QED
  BY <1>0, <1>5, <1>6, <1>9, <1>10, <1>11 DEF Reads

Combined(op, a, b, mem) == IF a.died \/ b.died THEN Died ELSE Apply(op, a.v, b.v, mem)

(* Two expressions with an operator between them.                           *)
Joins(t, f, p, r, q, l1, v1, l2, v2) ==
  /\ p \in 1 .. Len(t) /\ q \in 1 .. Len(t) /\ r \in p + 1 .. q - 1
  /\ Reads(t, f, p, r - 1, l1, v1) /\ Reads(t, f, r + 1, q, l2, v2)
  /\ t[r].type \in BinaryOps /\ t[p].type # "ref"
  /\ l1 \in Int /\ l1 >= Level(t[r].type) /\ (Level(t[r].type) = 2 => l1 # 2)
  /\ l2 \in Int /\ l2 >= Level(t[r].type) + 1

(* The depths of two expressions joined by an operator.                    *)
LEMMA JoinedDepth ==
  ASSUME NEW t, Len(t) \in Nat, NEW f, NEW p, NEW r, NEW q, NEW l1, NEW v1, NEW l2, NEW v2,
         Joins(t, f, p, r, q, l1, v1, l2, v2)
  PROVE  /\ Depth(t, p, r) = 0
         /\ \A k \in r + 1 .. q : Depth(t, p, k) = Depth(t, r + 1, k)
         /\ Level0(t, p, q) /\ Binds(t, p, q, Level(t[r].type))
<1>0. /\ p \in Int /\ q \in Int /\ r \in Int /\ p < r /\ r < q
      /\ Level0(t, p, r - 1) /\ Binds(t, p, r - 1, l1) /\ Level0(t, r + 1, q) /\ Binds(t, r + 1, q, l2)
  BY DEF Joins, Reads
<1>1. Depth(t, r, r) = 0
  BY <1>0, DepthOne DEF Joins, BinaryOps
<1>2. Depth(t, p, r) = 0
  <2>1. Depth(t, p, r) = Depth(t, p, r - 1) + Depth(t, (r - 1) + 1, r)
    BY <1>0, DepthSplit
  <2>2. Depth(t, p, r - 1) = 0 /\ (r - 1) + 1 = r
    BY <1>0 DEF Level0
  <2> QED
    BY <2>1, <2>2, <1>1
<1>3. ASSUME NEW k \in r + 1 .. q PROVE Depth(t, p, k) = Depth(t, r + 1, k)
  <2>1. Depth(t, p, k) = Depth(t, p, r) + Depth(t, r + 1, k) /\ Depth(t, r + 1, k) \in Int
    BY <1>0, DepthSplit
  <2> QED
    BY <2>1, <1>2
<1>4. \A k \in p .. q : k \in p .. r - 1 \/ k = r \/ k \in r + 1 .. q
  BY <1>0
<1>5. Level0(t, p, q)
  <2>1. q \in r + 1 .. q
    BY <1>0
  <2> QED
    BY <2>1, <1>0, <1>2, <1>3, <1>4 DEF Level0
<1>6. Binds(t, p, q, Level(t[r].type))
  <2> DEFINE least == Level(t[r].type)
  <2>1. \A x : Level(x) \in Int
    BY DEF Level
  <2>2. l1 \in Int /\ l2 \in Int /\ l1 >= least /\ l2 >= least + 1
    BY DEF Joins
  <2>3. ASSUME NEW k \in p .. q, t[k].type \in DOMAIN Rank, Depth(t, p, k) = 0 PROVE Level(t[k].type) >= least
    <3>1. CASE k \in p .. r - 1
      <4>1. Level(t[k].type) >= l1
        BY <3>1, <2>3, <1>0 DEF Binds
      <4> QED
        BY <4>1, <2>1, <2>2
    <3>2. CASE k = r
      BY <3>2, <2>1
    <3>3. CASE k \in r + 1 .. q
      <4>1. Level(t[k].type) >= l2
        BY <3>3, <2>3, <1>0, <1>3 DEF Binds
      <4> QED
        BY <4>1, <2>1, <2>2
    <3> QED
      BY <3>1, <3>2, <3>3, <1>4
  <2> QED
    BY <2>3 DEF Binds
<1> QED
  BY <1>2, <1>3, <1>5, <1>6

(* They are split at that operator.                                        *)
LEMMA JoinedPosition ==
  ASSUME NEW t, Len(t) \in Nat, NEW f, NEW p, NEW r, NEW q, NEW l1, NEW v1, NEW l2, NEW v2,
         Joins(t, f, p, r, q, l1, v1, l2, v2)
  PROVE  getPosition(t, p, q) = r
<1> DEFINE op == t[r].type
<1>0. /\ p \in Int /\ q \in Int /\ r \in Int /\ 0 < p /\ p < r /\ r < q
      /\ Binds(t, p, r - 1, l1) /\ Binds(t, r + 1, q, l2)
      /\ op \in BinaryOps /\ l1 \in Int /\ l1 >= Level(op) /\ (Level(op) = 2 => l1 # 2)
      /\ l2 \in Int /\ l2 >= Level(op) + 1
  BY DEF Joins, Reads
<1>1. PICK g : Found(t, p, q, g)
  <2>1. p <= q
    BY <1>0
  <2> QED
    BY <1>0, <2>1, PositionIs
<1>2. g[p - 1] = 0 /\ \A k \in p .. q : g[k] = PosAt(t, p, k, g[k - 1])
  BY <1>1 DEF Found
<1> DEFINE S == {k \in p - 1 .. r - 1 :
                   g[k] = 0 \/ (g[k] \in p .. r - 1 /\ t[g[k]].type \in DOMAIN Rank /\ Depth(t, p, g[k]) = 0)}
<1>3. p - 1 \in S
  BY <1>0, <1>2
<1>4. ASSUME NEW i \in p .. r - 1, i - 1 \in S PROVE i \in S
  <2>1. i \in p .. q /\ i \in p - 1 .. r - 1
    BY <1>0
  <2>2. g[i] = PosAt(t, p, i, g[i - 1])
    BY <2>1, <1>2
  <2>3. g[i] = g[i - 1] \/ (g[i] = i /\ t[i].type \in DOMAIN Rank /\ Depth(t, p, i) = 0)
    BY <2>2 DEF PosAt
  <2> QED
    BY <2>1, <2>3, <1>4
<1>5. p - 1 .. r - 1 \subseteq S
  <2>1. r - 1 \in Int
    BY <1>0
  <2> HIDE DEF S
  <2> QED
    BY <1>0, <1>3, <1>4, <2>1, Climb
<1>6. r - 1 \in S
  <2>1. r - 1 \in p - 1 .. r - 1
    BY <1>0
  <2> HIDE DEF S
  <2> QED
    BY <2>1, <1>5
<1>7. g[r - 1] = 0 \/ Replaces(op, t[g[r - 1]].type)
  <2> SUFFICES ASSUME g[r - 1] # 0 PROVE Replaces(op, t[g[r - 1]].type)
    OBVIOUS
  <2> DEFINE old == t[g[r - 1]].type
  <2>1. old \in DOMAIN Rank /\ Level(old) >= l1
    BY <1>6, <1>0 DEF Binds
  <2> HIDE DEF old, op
  <2>2. Replaces(op, old)
    BY <2>1, <1>0, ReplacesLeft
  <2> QED
    BY <2>2 DEF old, op
<1>8. g[r] = r
  <2>1. r \in p .. q
    BY <1>0
  <2>2. op \in DOMAIN Rank
    BY <1>0 DEF BinaryOps, Rank
  <2>3. Depth(t, p, r) = 0
    BY JoinedDepth
  <2> QED
    BY <2>1, <2>2, <2>3, <1>2, <1>7 DEF PosAt
<1>9. ASSUME NEW k \in r + 1 .. q, t[k].type \in DOMAIN Rank, Depth(t, p, k) = 0 PROVE ~Replaces(t[k].type, op)
  <2>1. Depth(t, r + 1, k) = 0
    BY <1>9, JoinedDepth
  <2>2. Level(t[k].type) >= l2
    BY <2>1, <1>9, <1>0 DEF Binds
  <2>3. \A x : Level(x) \in Int
    BY DEF Level
  <2>4. Level(t[k].type) >= Level(op) + 1
    BY <2>2, <2>3, <1>0
  <2> HIDE DEF op
  <2> QED
    BY <2>4, <1>0, <1>9, NotReplacedRight
<1>10. Stays(t, p, r, q)
  BY <1>9 DEF Stays
<1>11. r \in p .. q /\ r # 0
  BY <1>0
<1> QED
  BY <1>0, <1>1, <1>8, <1>10, <1>11, PositionKept

(* So they are read as the operator applied to both.                       *)
LEMMA BinaryReads ==
  ASSUME NEW t, NEW regs, NEW mem, NEW f, Evaluates(t, regs, mem, f),
         NEW p, NEW r, NEW q, NEW l1, NEW v1, NEW l2, NEW v2,
         Joins(t, f, p, r, q, l1, v1, l2, v2)
  PROVE  Reads(t, f, p, q, Level(t[r].type), Combined(t[r].type, v1, v2, mem))
<1> DEFINE op == t[r].type
           u == Combined(op, v1, v2, mem)
<1>0. /\ Len(t) \in Nat /\ MemoryOfNumbers(mem) /\ p \in 1 .. Len(t) /\ q \in 1 .. Len(t) /\ r \in Int /\ p < r /\ r < q
      /\ f[<<p, r - 1>>] = v1 /\ f[<<r + 1, q>>] = v2 /\ Answer(v1) /\ Answer(v2)
      /\ PrevIsNum(t[q]) /\ t[p].type # "ref" /\ Level0(t, p, r - 1)
  BY DEF Joins, Reads, Evaluates, Sane
<1>1. Level0(t, p, q) /\ Binds(t, p, q, Level(op))
  BY <1>0, JoinedDepth
<1>2. op \in DOMAIN Rank
  BY DEF Joins, BinaryOps, Rank
<1>3. check_parentheses(t, p, q) = "split"
  <2>1. Balanced(t, p, q)
    BY <1>1 DEF Level0, Balanced
  <2>2. r - 1 \in p .. q - 1 /\ ~(Depth(t, p, r - 1) > 0)
    BY <1>0 DEF Level0
  <2> QED
    BY <2>1, <2>2 DEF check_parentheses
<1>4. f[<<p, q>>] = Split(t, mem, f, p, q)
  <2>1. f[<<p, q>>] = EvalRange(t, regs, mem, f, p, q)
    BY <1>0, RangeValue
  <2>2. ~(p > q) /\ p # q
    BY <1>0
  <2> QED
    BY <2>1, <2>2, <1>3 DEF EvalRange
<1>5. getPosition(t, p, q) = r
  BY <1>0, JoinedPosition
<1> DEFINE right == IF v1.ok THEN v2 ELSE Failed
           done == Apply(op, v1.v, right.v, mem)
<1>6. Split(t, mem, f, p, q) =
        IF v1.died \/ right.died THEN Died ELSE IF done.died THEN Died ELSE [done EXCEPT !.ok = right.ok]
  <2>1. r # 0
    BY <1>0
  <2> QED
    BY <2>1, <1>0, <1>5 DEF Split
<1>7. Split(t, mem, f, p, q) = u /\ Answer(u)
  <2>1. CASE v1.died \/ v2.died
    <3>1. u = Died
      BY <2>1 DEF Combined
    <3>2. ~v1.died => v1.ok
      BY <1>0, ValueTyped DEF Answer
    <3> QED
      BY <2>1, <3>1, <3>2, <1>6 DEF Answer
  <2>2. CASE ~(v1.died \/ v2.died)
    <3>1. v1 \in Results /\ v2 \in Results /\ v1.ok = TRUE /\ v2.ok = TRUE
      BY <2>2, <1>0, ValueTyped DEF Answer, Results
    <3>2. v1.v \in Nat /\ v2.v \in Nat
      BY <3>1, WordsAssumption DEF Results
    <3>3. right = v2
      BY <3>1
    <3>4. u = done
      BY <2>2, <3>3 DEF Combined
    <3>5. Answer(done)
      <4> HIDE DEF op
      <4> QED
        BY <3>2, <3>3, <1>0, <1>2, ApplyAnswers
    <3> HIDE DEF right, done, op, u
    <3>6. CASE done.died
      <4>1. done = Died
        BY <3>5, <3>6 DEF Answer
      <4> QED
        BY <1>6, <2>2, <3>3, <3>4, <3>5, <3>6, <4>1
    <3>7. CASE ~done.died
      <4>1. done \in Results /\ done.ok = TRUE
        BY <3>5, <3>7, ValueTyped DEF Answer, Results
      <4>2. [done EXCEPT !.ok = TRUE] = done
        BY <4>1 DEF Results
      <4> QED
        BY <1>6, <2>2, <3>1, <3>3, <3>4, <3>5, <3>7, <4>2
    <3> QED
      BY <3>6, <3>7
  <2> QED
    BY <2>1, <2>2
<1> QED
  BY <1>0, <1>1, <1>4, <1>7 DEF Reads

-----------------------------------------------------------------------------
(* Trees: what their nodes are, and that their texts and values exist.      *)
Registers(regs) == \A x \in DOMAIN regs : regs[x] \in Int
Leafs(tree) == {tree[n].text : n \in {m \in DOMAIN tree : tree[m].op = "leaf"}}
Lexemes(tree) == Leafs(tree) \cup {Op(o) : o \in {"(", ")"} \cup BinaryOps}
Grown(tree, regs) ==
  /\ Len(tree) \in Nat \ {0} /\ DOMAIN tree = 1 .. Len(tree)
  /\ IsTree(tree, regs)

(* The three kinds of node.                                                *)
LEMMA Nodes ==
  ASSUME NEW tree, NEW regs, Grown(tree, regs), NEW n \in 1 .. Len(tree)
  PROVE  \/ /\ tree[n].op = "leaf" /\ IsLeaf(tree[n].text, regs) /\ tree[n].text \in Lexemes(tree)
         \/ /\ tree[n].op = "ref" /\ tree[n].of \in 1 .. n - 1
         \/ /\ tree[n].op \in BinaryOps /\ tree[n].op \notin {"leaf", "ref"}
            /\ tree[n].left \in 1 .. n - 1 /\ tree[n].right \in 1 .. n - 1
<1>1. n \in DOMAIN tree
  BY DEF Grown
<1>2. \/ tree[n].op = "leaf" /\ IsLeaf(tree[n].text, regs)
      \/ tree[n].op = "ref" /\ tree[n].of \in 1 .. n - 1
      \/ tree[n].op \in BinaryOps /\ {tree[n].left, tree[n].right} \subseteq 1 .. n - 1
  BY <1>1 DEF Grown, IsTree
<1>3. tree[n].op = "leaf" => tree[n].text \in Lexemes(tree)
  BY <1>1 DEF Lexemes, Leafs
<1>4. BinaryOps \cap {"leaf", "ref"} = {}
  BY DEF BinaryOps
<1> QED
  BY <1>2, <1>3, <1>4

(* A leaf has a value, and the evaluator gives it.                         *)
LEMMA LeafAnswers ==
  ASSUME NEW l, NEW regs, Registers(regs), IsLeaf(l, regs)
  PROVE  /\ l.type \in {"dec", "hex", "reg"}
         /\ expr2val(l, regs) = LeafValue(l, regs) /\ Answer(LeafValue(l, regs)) /\ LeafValue(l, regs) \in Results
<1>0. \A x \in Int : Answer(Value(x)) /\ Value(x) \in Results
  BY ValueTyped DEF Answer
<1>1. CASE l.type = "reg"
  <2>1. l.str \in DOMAIN regs
    BY <1>1 DEF IsLeaf
  <2>2. expr2val(l, regs) = Value(regs[l.str]) /\ LeafValue(l, regs) = Value(regs[l.str])
    BY <1>1, <2>1 DEF expr2val, get_reg_val, LeafValue
  <2> QED
    BY <1>0, <1>1, <2>1, <2>2 DEF Registers
<1>2. ASSUME NEW base \in Nat, l.str \in Seq(Digit)
      PROVE  Value(Number(l.str, base)) = Value(Worth(l.str, base)) /\ Worth(l.str, base) \in Int
  <2> DEFINE w == Worth(l.str, base)
  <2>1. w \in Int /\ Number(l.str, base) = w % Modulus
    BY <1>2, NumberRight
  <2> HIDE DEF w
  <2>2. w % Modulus \in 0 .. Modulus - 1 /\ Modulus \in Nat \ {0}
    BY <2>1, WordsAssumption, Division
  <2>3. (w % Modulus) % Modulus = w % Modulus
    <3>1. (Modulus * 0 + (w % Modulus)) % Modulus = w % Modulus
      BY <2>2, Quotient
    <3> QED
      BY <2>2, <3>1
  <2> QED
    BY <2>1, <2>3 DEF Value, w
<1>3. CASE l.type = "dec"
  <2>1. l.str \in Seq(Digit)
    BY <1>3 DEF IsLeaf, Digit
  <2>2. expr2val(l, regs) = Value(Number(l.str, 10)) /\ LeafValue(l, regs) = Value(Worth(l.str, 10))
    BY <1>3 DEF expr2val, LeafValue
  <2> QED
    BY <1>0, <1>2, <1>3, <2>1, <2>2
<1>4. CASE l.type = "hex"
  <2>1. l.str \in Seq(Digit)
    BY <1>4 DEF IsLeaf, Digit
  <2>2. expr2val(l, regs) = Value(Number(l.str, 16)) /\ LeafValue(l, regs) = Value(Worth(l.str, 16))
    BY <1>4 DEF expr2val, LeafValue
  <2> QED
    BY <1>0, <1>2, <1>4, <2>1, <2>2
<1> QED
  BY <1>1, <1>3, <1>4 DEF IsLeaf

(* A node has a value when the nodes before it have.                       *)
LEMMA NodeValueAnswers ==
  ASSUME NEW tree, NEW regs, NEW mem, Grown(tree, regs), Registers(regs), MemoryOfNumbers(mem),
         NEW n \in 1 .. Len(tree), NEW val, \A k \in 1 .. n - 1 : Answer(val[k])
  PROVE  Answer(NodeValue(val, regs, mem, tree[n]))
<1> DEFINE e == tree[n]
<1>1. CASE e.op = "leaf"
  <2>1. IsLeaf(e.text, regs)
    BY <1>1, Nodes DEF BinaryOps
  <2> QED
    BY <1>1, <2>1, LeafAnswers DEF NodeValue
<1>2. CASE e.op = "ref"
  BY <1>2, ReadAnswers DEF NodeValue, Answer
<1>3. CASE e.op \in BinaryOps
  <2>1. e.op \notin {"leaf", "ref"} /\ e.left \in 1 .. n - 1 /\ e.right \in 1 .. n - 1
    BY <1>3, Nodes DEF BinaryOps
  <2> DEFINE a == val[e.left]  b == val[e.right]
  <2>2. Answer(a) /\ Answer(b)
    BY <2>1
  <2>3. NodeValue(val, regs, mem, e) = Combined(e.op, a, b, mem)
    BY <2>1 DEF NodeValue, Combined
  <2>4. CASE a.died \/ b.died
    BY <2>3, <2>4 DEF Combined, Answer
  <2>5. CASE ~(a.died \/ b.died)
    <3>1. a.v \in Nat /\ b.v \in Nat
      <4> HIDE DEF a, b
      <4>1. a \in Results /\ b \in Results
        BY <2>2, <2>5, ValueTyped DEF Answer
      <4> QED
        BY <4>1, WordsAssumption DEF Results
    <3>2. e.op \in DOMAIN Rank
      BY <1>3 DEF BinaryOps, Rank
    <3> QED
      BY <2>3, <2>5, <3>1, <3>2, ApplyAnswers DEF Combined
  <2> QED
    BY <2>4, <2>5
<1> QED
  BY <1>1, <1>2, <1>3, Nodes

MeaningBy(tree, regs, mem, f) == f = [n \in 1 .. Len(tree) |-> NodeValue(f, regs, mem, tree[n])]
WrittenBy(tree, f) == f = [n \in 1 .. Len(tree) |-> NodeText(tree, f, tree[n])]

(* A node's value and its text come from those of the nodes before it.      *)
SameBefore(n, f, g) == \A k \in 1 .. n - 1 : f[k] = g[k]
LEMMA NodeLocal ==
  ASSUME NEW tree, NEW regs, NEW mem, Grown(tree, regs), NEW n \in 1 .. Len(tree),
         NEW f, NEW g, SameBefore(n, f, g)
  PROVE  /\ NodeValue(f, regs, mem, tree[n]) = NodeValue(g, regs, mem, tree[n])
         /\ NodeText(tree, f, tree[n]) = NodeText(tree, g, tree[n])
<1> DEFINE e == tree[n]
<1>1. CASE e.op = "leaf"
  BY <1>1 DEF NodeValue, NodeText
<1>2. CASE e.op = "ref"
  <2>1. e.of \in 1 .. n - 1
    BY <1>2, Nodes DEF BinaryOps
  <2>2. f[e.of] = g[e.of]
    BY <2>1 DEF SameBefore
  <2> QED
    BY <1>2, <2>2 DEF NodeValue, NodeText, Under
<1>3. CASE e.op \in BinaryOps
  <2>1. e.op \notin {"leaf", "ref"} /\ e.left \in 1 .. n - 1 /\ e.right \in 1 .. n - 1
    BY <1>3, Nodes DEF BinaryOps
  <2>2. f[e.left] = g[e.left] /\ f[e.right] = g[e.right]
    BY <2>1 DEF SameBefore
  <2> QED
    BY <2>1, <2>2 DEF NodeValue, NodeText, Under
<1> QED
  BY <1>1, <1>2, <1>3, Nodes

(* The values of a tree's nodes, of which Meaning is the last.             *)
LEMMA MeaningIs ==
  ASSUME NEW tree, NEW regs, NEW mem, Grown(tree, regs), Registers(regs), MemoryOfNumbers(mem)
  PROVE  \E f : /\ \A n \in 1 .. Len(tree) : Answer(f[n]) /\ f[n] = NodeValue(f, regs, mem, tree[n])
               /\ Meaning(tree, regs, mem) = f[Len(tree)]
<1> DEFINE N == Len(tree)
           D == 1 .. N
           V == {v \in Results : Answer(v)}
           size == [n \in D |-> n]
           G == [n \in D |-> [f \in [D -> V] |-> NodeValue(f, regs, mem, tree[n])]]
<1>0. N \in Nat \ {0}
  BY DEF Grown
<1>1. size \in [D -> 0 .. N] /\ \A n \in D : size[n] = n
  BY <1>0
<1>2. \A v : v \in V <=> Answer(v)
  BY ValueTyped DEF Answer
<1>3. \A n \in D, f \in [D -> V] : G[n][f] = NodeValue(f, regs, mem, tree[n])
  OBVIOUS
<1> HIDE DEF V, G, size
<1>4. ASSUME NEW n \in D, NEW f \in [D -> V] PROVE G[n][f] \in V
  <2>1. \A k \in 1 .. n - 1 : Answer(f[k])
    <3>1. \A k \in 1 .. n - 1 : k \in D
      BY <1>0
    <3> QED
      BY <3>1, <1>2
  <2> QED
    BY <2>1, <1>2, <1>3, NodeValueAnswers
<1>5. ASSUME NEW n \in D, NEW f, NEW g, Below(D, size, n, f, g)
      PROVE  NodeValue(f, regs, mem, tree[n]) = NodeValue(g, regs, mem, tree[n])
  <2>1. SameBefore(n, f, g)
    <3>1. \A k \in 1 .. n - 1 : k \in D /\ size[k] < size[n]
      BY <1>0, <1>1
    <3> QED
      BY <3>1, <1>5 DEF Below, SameBefore
  <2> QED
    BY <2>1, NodeLocal
<1>6. PICK f \in [D -> V] : \A n \in D : f[n] = G[n][f]
  <2>1. Lowers(D, V, size, N, G)
    BY <1>1, <1>3, <1>4, <1>5 DEF Lowers
  <2>2. V # {} /\ N \in Nat
    BY <1>0, <1>2 DEF Answer
  <2> HIDE DEF D, N
  <2> QED
    BY <2>1, <2>2, BoundedRecursion
<1>7. MeaningBy(tree, regs, mem, f)
  <2>1. f = [n \in D |-> f[n]]
    BY <1>6
  <2>2. \A n \in D : f[n] = NodeValue(f, regs, mem, tree[n])
    BY <1>3, <1>6
  <2> QED
    BY <2>1, <2>2 DEF MeaningBy
<1> DEFINE h == CHOOSE g : MeaningBy(tree, regs, mem, g)
<1>8. Meaning(tree, regs, mem) = h[N]
  BY DEF Meaning, MeaningBy
<1>9. MeaningBy(tree, regs, mem, h)
  BY <1>7
<1> HIDE DEF h
<1>10. \A n \in D : h[n] = NodeValue(h, regs, mem, tree[n]) /\ f[n] = NodeValue(f, regs, mem, tree[n])
  BY <1>7, <1>9 DEF MeaningBy
<1>11. \A n \in D : h[n] = f[n]
  <2>1. ASSUME NEW n \in D, Below(D, size, n, h, f) PROVE h[n] = f[n]
    BY <2>1, <1>5, <1>10
  <2>2. size \in [D -> Nat]
    BY <1>0, <1>1
  <2> HIDE DEF D
  <2> QED
    BY <2>1, <2>2, BoundedSame
<1>12. \A n \in D : Answer(h[n])
  BY <1>2, <1>6, <1>11
<1> QED
  BY <1>8, <1>10, <1>12

(* Sequences of lexemes put one after the other.                            *)
IsText(tree, s) == s \in Seq(Lexemes(tree)) /\ Len(s) \in Nat \ {0}

(* Two texts put together.                                                 *)
LEMMA TextConcat ==
  ASSUME NEW tree, NEW a, NEW b, IsText(tree, a), IsText(tree, b)
  PROVE  /\ IsText(tree, a \o b) /\ Len(a \o b) = Len(a) + Len(b)
         /\ \A i \in 1 .. Len(a) + Len(b) : (a \o b)[i] = IF i <= Len(a) THEN a[i] ELSE b[i - Len(a)]
BY ConcatProperties DEF IsText

(* A text of one lexeme.                                                   *)
LEMMA TextOne ==
  ASSUME NEW tree, NEW x \in Lexemes(tree)
  PROVE  IsText(tree, <<x>>) /\ Len(<<x>>) = 1 /\ <<x>>[1] = x
BY DEF IsText

(* The lexemes that are not of a leaf.                                     *)
LEMMA Signs ==
  ASSUME NEW tree
  PROVE  /\ Op("(") \in Lexemes(tree) /\ Op(")") \in Lexemes(tree) /\ Op("*") \in Lexemes(tree)
         /\ \A o \in BinaryOps : Op(o) \in Lexemes(tree)
BY DEF Lexemes, BinaryOps

(* An operand's text, with its parentheses if it has any.                  *)
LEMMA UnderText ==
  ASSUME NEW tree, NEW w, NEW k, NEW least, IsText(tree, w[k])
  PROVE  IsText(tree, Under(tree, w, k, least))
<1>1. IsText(tree, <<Op("(")>>) /\ IsText(tree, <<Op(")")>>)
  BY TextOne, Signs
<1>2. IsText(tree, <<Op("(")>> \o w[k])
  BY <1>1, TextConcat
<1>3. IsText(tree, <<Op("(")>> \o w[k] \o <<Op(")")>>)
  BY <1>1, <1>2, TextConcat
<1> QED
  BY <1>3 DEF Under, InParens

TextsBefore(tree, n, w) == \A k \in 1 .. n - 1 : IsText(tree, w[k])
(* A node has a text when the nodes before it have.                        *)
LEMMA NodeTextIs ==
  ASSUME NEW tree, NEW regs, Grown(tree, regs), NEW n \in 1 .. Len(tree), NEW w, TextsBefore(tree, n, w)
  PROVE  IsText(tree, NodeText(tree, w, tree[n]))
<1> DEFINE e == tree[n]
<1>1. CASE e.op = "leaf"
  <2>1. e.text \in Lexemes(tree)
    BY <1>1, Nodes DEF BinaryOps
  <2>2. IsText(tree, <<e.text>>)
    BY <2>1, TextOne
  <2> QED
    BY <1>1, <2>2 DEF NodeText
<1>2. CASE e.op = "ref"
  <2>1. e.of \in 1 .. n - 1
    BY <1>2, Nodes DEF BinaryOps
  <2> DEFINE u == Under(tree, w, e.of, 5)
  <2>2. IsText(tree, u)
    BY <2>1, UnderText DEF TextsBefore
  <2>3. IsText(tree, <<Op("*")>>)
    BY TextOne, Signs
  <2> HIDE DEF u
  <2>4. IsText(tree, <<Op("*")>> \o u)
    BY <2>2, <2>3, TextConcat
  <2> QED
    BY <1>2, <2>4 DEF NodeText, u
<1>3. CASE e.op \in BinaryOps
  <2>1. e.op \notin {"leaf", "ref"} /\ e.left \in 1 .. n - 1 /\ e.right \in 1 .. n - 1
    BY <1>3, Nodes DEF BinaryOps
  <2> DEFINE a == Under(tree, w, e.left, Level(e.op))
             b == Under(tree, w, e.right, Level(e.op) + 1)
  <2>2. IsText(tree, a) /\ IsText(tree, b)
    BY <2>1, UnderText DEF TextsBefore
  <2>3. IsText(tree, <<Op(e.op)>>)
    BY <1>3, TextOne, Signs
  <2>4. NodeText(tree, w, e) = a \o <<Op(e.op)>> \o b
    BY <2>1 DEF NodeText
  <2> HIDE DEF a, b, e
  <2>5. IsText(tree, a \o <<Op(e.op)>>)
    BY <2>2, <2>3, TextConcat
  <2>6. IsText(tree, a \o <<Op(e.op)>> \o b)
    BY <2>2, <2>5, TextConcat
  <2> QED
    BY <2>4, <2>6 DEF e
<1> QED
  BY <1>1, <1>2, <1>3, Nodes

(* The texts of a tree's nodes, of which Written is the last.              *)
LEMMA WrittenIs ==
  ASSUME NEW tree, NEW regs, Grown(tree, regs)
  PROVE  \E w : /\ \A n \in 1 .. Len(tree) : IsText(tree, w[n]) /\ w[n] = NodeText(tree, w, tree[n])
               /\ Written(tree) = w[Len(tree)]
<1> DEFINE N == Len(tree)
           D == 1 .. N
           V == {s \in Seq(Lexemes(tree)) : IsText(tree, s)}
           size == [n \in D |-> n]
           G == [n \in D |-> [f \in [D -> V] |-> NodeText(tree, f, tree[n])]]
<1>0. N \in Nat \ {0}
  BY DEF Grown
<1>1. size \in [D -> 0 .. N] /\ \A n \in D : size[n] = n
  BY <1>0
<1>2. \A s : s \in V <=> IsText(tree, s)
  BY DEF IsText
<1>3. \A n \in D, f \in [D -> V] : G[n][f] = NodeText(tree, f, tree[n])
  OBVIOUS
<1> HIDE DEF V, G, size
<1>4. ASSUME NEW n \in D, NEW f \in [D -> V] PROVE G[n][f] \in V
  <2>1. TextsBefore(tree, n, f)
    <3>1. \A k \in 1 .. n - 1 : k \in D
      BY <1>0
    <3> QED
      BY <3>1, <1>2 DEF TextsBefore
  <2> QED
    BY <2>1, <1>2, <1>3, NodeTextIs
<1>5. ASSUME NEW n \in D, NEW f, NEW g, Below(D, size, n, f, g)
      PROVE  NodeText(tree, f, tree[n]) = NodeText(tree, g, tree[n])
  <2>1. SameBefore(n, f, g)
    <3>1. \A k \in 1 .. n - 1 : k \in D /\ size[k] < size[n]
      BY <1>0, <1>1
    <3> QED
      BY <3>1, <1>5 DEF Below, SameBefore
  <2> QED
    BY <2>1, NodeLocal
<1>6. PICK f \in [D -> V] : \A n \in D : f[n] = G[n][f]
  <2>1. Lowers(D, V, size, N, G)
    BY <1>1, <1>3, <1>4, <1>5 DEF Lowers
  <2>2. V # {} /\ N \in Nat
    <3>1. IsText(tree, <<Op("(")>>)
      BY TextOne, Signs
    <3> QED
      BY <3>1, <1>0, <1>2
  <2> HIDE DEF D, N
  <2> QED
    BY <2>1, <2>2, BoundedRecursion
<1>7. WrittenBy(tree, f)
  <2>1. f = [n \in D |-> f[n]]
    BY <1>6
  <2>2. \A n \in D : f[n] = NodeText(tree, f, tree[n])
    BY <1>3, <1>6
  <2> QED
    BY <2>1, <2>2 DEF WrittenBy
<1> DEFINE h == CHOOSE g : WrittenBy(tree, g)
<1>8. Written(tree) = h[N]
  BY DEF Written, WrittenBy
<1>9. WrittenBy(tree, h)
  BY <1>7
<1> HIDE DEF h
<1>10. \A n \in D : h[n] = NodeText(tree, h, tree[n]) /\ f[n] = NodeText(tree, f, tree[n])
  BY <1>7, <1>9 DEF WrittenBy
<1>11. \A n \in D : h[n] = f[n]
  <2>1. ASSUME NEW n \in D, Below(D, size, n, h, f) PROVE h[n] = f[n]
    BY <2>1, <1>5, <1>10
  <2>2. size \in [D -> Nat]
    BY <1>0, <1>1
  <2> HIDE DEF D
  <2> QED
    BY <2>1, <2>2, BoundedSame
<1>12. \A n \in D : IsText(tree, h[n])
  BY <1>2, <1>6, <1>11
<1> QED
  BY <1>8, <1>10, <1>12

-----------------------------------------------------------------------------
(* An induction in which every smaller number may be used.                 *)
LEMMA UpTo ==
  ASSUME NEW n \in Nat, NEW S, \A k \in 1 .. n : (1 .. k - 1 \subseteq S) => k \in S
  PROVE  1 .. n \subseteq S
<1> DEFINE T == {k \in 0 .. n : 1 .. k \subseteq S}
<1>1. 1 - 1 \in T
  OBVIOUS
<1>2. ASSUME NEW i \in 1 .. n, i - 1 \in T PROVE i \in T
  <2>1. 1 .. i - 1 \subseteq S
    BY <1>2
  <2>2. i \in S
    BY <2>1
  <2>3. \A j \in 1 .. i : j = i \/ j \in 1 .. i - 1
    OBVIOUS
  <2> QED
    BY <2>1, <2>2, <2>3
<1>3. 1 - 1 .. n \subseteq T
  <2> HIDE DEF T
  <2>1. \A i \in 1 .. n : i - 1 \in T => i \in T
    BY <1>2
  <2>2. 1 \in Int /\ n \in Int
    OBVIOUS
  <2> QED
    BY <1>1, <2>1, <2>2, Climb
<1>4. n \in 1 - 1 .. n
  OBVIOUS
<1> QED
  BY <1>3, <1>4

(* The lexemes p to q of the text are those of s.                           *)
Spells(text, p, q, s) ==
  /\ p \in 1 .. Len(text) /\ q \in 1 .. Len(text) /\ q = p + Len(s) - 1
  /\ \A i \in 1 .. Len(s) : text[p + i - 1] = s[i]
(* A star there is a dereference.                                           *)
Fresh(text, p) == p = 1 \/ ~PrevIsNum(text[p - 1])

(* A range that spells two texts is cut between them.                      *)
LEMMA SpellsTwo ==
  ASSUME NEW text, Len(text) \in Nat, NEW tree, NEW a, NEW b, IsText(tree, a), IsText(tree, b),
         NEW p, NEW q, Spells(text, p, q, a \o b)
  PROVE  \E m \in p .. q - 1 : Spells(text, p, m, a) /\ Spells(text, m + 1, q, b) /\ m = p + Len(a) - 1
<1> DEFINE la == Len(a)  lb == Len(b)  s == a \o b  m == p + la - 1
<1>1. /\ la \in Nat \ {0} /\ lb \in Nat \ {0} /\ Len(s) = la + lb
      /\ \A i \in 1 .. la + lb : s[i] = IF i <= la THEN a[i] ELSE b[i - la]
  BY TextConcat DEF IsText
<1>2. /\ p \in 1 .. Len(text) /\ q \in 1 .. Len(text) /\ q = p + Len(s) - 1
      /\ \A i \in 1 .. Len(s) : text[p + i - 1] = s[i]
  BY DEF Spells
<1> HIDE DEF la, lb, s
<1>3. m \in p .. q - 1 /\ m \in 1 .. Len(text) /\ m + 1 \in 1 .. Len(text) /\ q = (m + 1) + lb - 1
  BY <1>1, <1>2
<1>4. ASSUME NEW i \in 1 .. la PROVE text[p + i - 1] = a[i]
  <2>1. i \in 1 .. la + lb /\ i <= la
    BY <1>1
  <2>2. s[i] = a[i]
    BY <2>1, <1>1
  <2> QED
    BY <2>1, <2>2, <1>1, <1>2
<1>5. ASSUME NEW i \in 1 .. lb PROVE text[(m + 1) + i - 1] = b[i]
  <2> DEFINE j == i + la
  <2>1. j \in 1 .. la + lb /\ ~(j <= la) /\ j - la = i /\ p + j - 1 = (m + 1) + i - 1
    BY <1>1, <1>2
  <2> HIDE DEF j, m
  <2>2. s[j] = b[i]
    BY <2>1, <1>1
  <2> QED
    BY <2>1, <2>2, <1>1, <1>2
<1>6. Spells(text, p, m, a)
  BY <1>2, <1>3, <1>4 DEF Spells, la
<1>7. Spells(text, m + 1, q, b)
  BY <1>2, <1>3, <1>5 DEF Spells, lb
<1> QED
  BY <1>3, <1>6, <1>7 DEF la

(* A range that spells one lexeme is a place.                              *)
LEMMA SpellsOne ==
  ASSUME NEW text, NEW p, NEW q, NEW x, Spells(text, p, q, <<x>>)
  PROVE  p = q /\ p \in 1 .. Len(text) /\ text[p] = x
<1>1. Len(<<x>>) = 1 /\ <<x>>[1] = x
  OBVIOUS
<1>2. p \in Int /\ q = p + 1 - 1 /\ text[p + 1 - 1] = x
  <2>1. 1 \in 1 .. Len(<<x>>)
    BY <1>1
  <2> QED
    BY <1>1, <2>1 DEF Spells
<1> QED
  BY <1>2 DEF Spells

(* A range that spells a text in parentheses has it within.                *)
LEMMA SpellsParens ==
  ASSUME NEW text, Len(text) \in Nat, NEW tree, NEW s, IsText(tree, s), NEW p, NEW q,
         Spells(text, p, q, InParens(s))
  PROVE  /\ text[p] = Op("(") /\ text[q] = Op(")") /\ Spells(text, p + 1, q - 1, s)
         /\ p \in 1 .. Len(text) /\ q \in 1 .. Len(text)
<1> DEFINE o == <<Op("(")>>  c == <<Op(")")>>
<1>1. IsText(tree, o) /\ IsText(tree, c)
  BY TextOne, Signs
<1>2. IsText(tree, o \o s)
  BY <1>1, TextConcat
<1>3. Spells(text, p, q, (o \o s) \o c)
  BY DEF InParens
<1>4. PICK m \in p .. q - 1 : Spells(text, p, m, o \o s) /\ Spells(text, m + 1, q, c)
  <2> HIDE DEF o, c
  <2> QED
    BY <1>1, <1>2, <1>3, SpellsTwo
<1>5. PICK k \in p .. m - 1 : Spells(text, p, k, o) /\ Spells(text, k + 1, m, s)
  <2> HIDE DEF o, c
  <2> QED
    BY <1>1, <1>4, SpellsTwo
<1>6. m + 1 = q /\ text[m + 1] = Op(")") /\ p = k /\ text[p] = Op("(")
  BY <1>4, <1>5, SpellsOne
<1>7. p \in 1 .. Len(text) /\ q \in 1 .. Len(text)
  BY DEF Spells
<1>8. m = q - 1
  BY <1>6
<1> QED
  BY <1>5, <1>6, <1>7, <1>8

-----------------------------------------------------------------------------
(* A tree, its text, and what the evaluator makes of it.                    *)
Reading(tree, regs, mem, text, t, f, w, val) ==
  /\ Grown(tree, regs) /\ Registers(regs) /\ ~Departs(tree)
  /\ IsText(tree, text) /\ t = [i \in 1 .. Len(text) |-> Token(text, i)]
  /\ Evaluates(t, regs, mem, f)
  /\ \A n \in 1 .. Len(tree) : IsText(tree, w[n]) /\ w[n] = NodeText(tree, w, tree[n])
  /\ \A n \in 1 .. Len(tree) : Answer(val[n]) /\ val[n] = NodeValue(val, regs, mem, tree[n])
NodeReads(tree, text, t, f, w, val, n) ==
  \A p \in 1 .. Len(text), q \in 1 .. Len(text) :
    Spells(text, p, q, w[n]) /\ (tree[n].op = "ref" => Fresh(text, p)) =>
      Reads(t, f, p, q, Level(tree[n].op), val[n]) /\ (t[p].type = "ref" => tree[n].op = "ref")

(* Which tokens are dereferences.                                          *)
LEMMA Tokens ==
  ASSUME NEW text, NEW i
  PROVE  /\ PrevIsNum(Token(text, i)) <=> PrevIsNum(text[i])
         /\ text[i].type # "*" => Token(text, i) = text[i]
         /\ text[i].type = "*" /\ Fresh(text, i) => Token(text, i) = Op("ref")
         /\ ~Fresh(text, i) => Token(text, i) = text[i]
BY DEF Token, PrevIsNum, Fresh, Op

(* The levels of the operators: only binary ones need parentheses.         *)
LEMMA Levels ==
  /\ \A x : Level(x) \in 1 .. 5
  /\ \A x \in BinaryOps : Level(x) \in 1 .. 4
  /\ Level("leaf") = 5 /\ Level("ref") = 5
BY DEF Level, BinaryOps

(* An operand is read as such, in parentheses or not.                      *)
ReadsUnder(tree, t, f, val, p, q, k, least) ==
  \E l \in Int : /\ l >= least /\ (l = 2 => Level(tree[k].op) = 2)
                 /\ Reads(t, f, p, q, l, val[k]) /\ (t[p].type = "ref" => tree[k].op = "ref")
LEMMA UnderReads ==
  ASSUME NEW tree, NEW regs, NEW mem, NEW text, NEW t, NEW f, NEW w, NEW val,
         Reading(tree, regs, mem, text, t, f, w, val),
         NEW k \in 1 .. Len(tree), NodeReads(tree, text, t, f, w, val, k),
         NEW least \in 1 .. 5, NEW p, NEW q, Spells(text, p, q, Under(tree, w, k, least)),
         tree[k].op = "ref" => Fresh(text, p)
  PROVE  ReadsUnder(tree, t, f, val, p, q, k, least)
<1> DEFINE op == tree[k].op
<1>0. /\ Len(text) \in Nat /\ IsText(tree, w[k]) /\ Evaluates(t, regs, mem, f)
      /\ \A i \in 1 .. Len(text) : t[i] = Token(text, i)
      /\ Len(t) = Len(text)
  BY DEF Reading, IsText
<1>1. p \in 1 .. Len(text) /\ q \in 1 .. Len(text)
  BY DEF Spells
<1>2. CASE Level(op) >= least
  <2>1. Spells(text, p, q, w[k])
    BY <1>2 DEF Under
  <2>2. Reads(t, f, p, q, Level(op), val[k]) /\ (t[p].type = "ref" => op = "ref")
    BY <2>1, <1>1 DEF NodeReads
  <2> QED
    BY <2>2, <1>2, Levels DEF ReadsUnder
<1>3. CASE ~(Level(op) >= least)
  <2>1. Spells(text, p, q, InParens(w[k])) /\ op # "ref"
    BY <1>3, Levels DEF Under
  <2>2. /\ text[p] = Op("(") /\ text[q] = Op(")") /\ Spells(text, p + 1, q - 1, w[k])
    BY <1>0, <2>1, SpellsParens
  <2>3. p + 1 \in 1 .. Len(text) /\ q - 1 \in 1 .. Len(text)
    BY <2>2 DEF Spells
  <2>4. Reads(t, f, p + 1, q - 1, Level(op), val[k])
    BY <2>1, <2>2, <2>3 DEF NodeReads
  <2>5. t[p] = Op("(") /\ t[q] = Op(")")
    BY <1>0, <1>1, <2>2, Tokens DEF Op
  <2>6. Reads(t, f, p, q, 5, val[k])
    BY <1>0, <1>1, <2>4, <2>5, ParensRead DEF Op
  <2>7. t[p].type # "ref"
    BY <2>5 DEF Op
  <2> QED
    BY <2>6, <2>7 DEF ReadsUnder
<1> QED
  BY <1>2, <1>3

-----------------------------------------------------------------------------
ReadBefore(tree, text, t, f, w, val, n) == \A k \in 1 .. n - 1 : NodeReads(tree, text, t, f, w, val, k)

(* The induction over a tree, for a leaf,                                  *)
LEMMA LeafNode ==
  ASSUME NEW tree, NEW regs, NEW mem, NEW text, NEW t, NEW f, NEW w, NEW val,
         Reading(tree, regs, mem, text, t, f, w, val),
         NEW n \in 1 .. Len(tree), tree[n].op = "leaf"
  PROVE  NodeReads(tree, text, t, f, w, val, n)
<1> DEFINE l == tree[n].text
<1>0. /\ Grown(tree, regs) /\ Registers(regs) /\ Evaluates(t, regs, mem, f)
      /\ \A i \in 1 .. Len(text) : t[i] = Token(text, i)
      /\ Len(t) = Len(text)
      /\ w[n] = NodeText(tree, w, tree[n]) /\ val[n] = NodeValue(val, regs, mem, tree[n])
  BY DEF Reading, IsText
<1>1. IsLeaf(l, regs)
  BY <1>0, Nodes DEF BinaryOps
<1>2. w[n] = <<l>> /\ val[n] = LeafValue(l, regs)
  BY <1>0 DEF NodeText, NodeValue
<1>3. l.type \in {"dec", "hex", "reg"} /\ expr2val(l, regs) = LeafValue(l, regs) /\ Answer(LeafValue(l, regs))
  BY <1>0, <1>1, LeafAnswers
<1> HIDE DEF l
<1>4. ASSUME NEW p \in 1 .. Len(text), NEW q \in 1 .. Len(text), Spells(text, p, q, w[n])
      PROVE  Reads(t, f, p, q, 5, val[n]) /\ t[p].type # "ref"
  <2>1. p = q /\ text[p] = l
    BY <1>2, <1>4, SpellsOne
  <2>2. t[p] = l
    <3>1. text[p].type # "*"
      BY <2>1, <1>3
    <3> QED
      BY <2>1, <3>1, <1>0, Tokens
  <2> QED
    BY <2>1, <2>2, <1>0, <1>2, <1>3, LeafReads
<1> QED
  BY <1>4, Levels DEF NodeReads

(* for a dereference,                                                      *)
LEMMA RefNode ==
  ASSUME NEW tree, NEW regs, NEW mem, NEW text, NEW t, NEW f, NEW w, NEW val,
         Reading(tree, regs, mem, text, t, f, w, val),
         NEW n \in 1 .. Len(tree), tree[n].op = "ref", ReadBefore(tree, text, t, f, w, val, n)
  PROVE  NodeReads(tree, text, t, f, w, val, n)
<1> DEFINE e == tree[n]  k == e.of  s == Under(tree, w, k, 5)  o == <<Op("*")>>
<1>0. /\ Grown(tree, regs) /\ Registers(regs) /\ Evaluates(t, regs, mem, f)
      /\ \A i \in 1 .. Len(text) : t[i] = Token(text, i)
      /\ Len(t) = Len(text) /\ Len(text) \in Nat /\ Len(tree) \in Nat
      /\ w[n] = NodeText(tree, w, tree[n]) /\ val[n] = NodeValue(val, regs, mem, tree[n])
      /\ \A i \in 1 .. Len(tree) : IsText(tree, w[i])
  BY DEF Reading, IsText, Grown
<1>1. k \in 1 .. n - 1
  BY <1>0, Nodes DEF BinaryOps
<1>2. w[n] = o \o s /\ val[n] = IF val[k].died THEN Died ELSE pmem_read(mem, val[k].v)
  BY <1>0 DEF NodeText, NodeValue
<1>3. k \in 1 .. Len(tree) /\ NodeReads(tree, text, t, f, w, val, k)
  BY <1>0, <1>1 DEF ReadBefore
<1>4. IsText(tree, o) /\ IsText(tree, s)
  BY <1>0, <1>3, TextOne, Signs, UnderText
<1>5. ASSUME NEW p \in 1 .. Len(text), NEW q \in 1 .. Len(text), Spells(text, p, q, w[n]), Fresh(text, p)
      PROVE  Reads(t, f, p, q, 5, val[n])
  <2>1. PICK m \in p .. q - 1 : Spells(text, p, m, o) /\ Spells(text, m + 1, q, s)
    <3> HIDE DEF o, s
    <3> QED
      BY <1>0, <1>2, <1>4, <1>5, SpellsTwo
  <2>2. p = m /\ text[p] = Op("*")
    BY <2>1, SpellsOne
  <2>3. t[p] = Op("ref")
    BY <1>0, <1>5, <2>2, Tokens DEF Op
  <2>4. Fresh(text, p + 1)
    BY <2>2 DEF Fresh, PrevIsNum, Op
  <2>5. PICK l \in Int : l >= 5 /\ Reads(t, f, p + 1, q, l, val[k])
    <3>1. Spells(text, p + 1, q, Under(tree, w, k, 5))
      BY <2>1, <2>2
    <3> HIDE DEF k
    <3>2. ReadsUnder(tree, t, f, val, p + 1, q, k, 5)
      BY <3>1, <2>4, <1>3, UnderReads
    <3> QED
      BY <3>2 DEF ReadsUnder
  <2>6. Reads(t, f, p + 1, q, 5, val[k])
    <3> HIDE DEF k
    <3>1. \A x : Level(x) >= l => Level(x) >= 5
      <4>1. \A x : Level(x) \in Int
        BY Levels
      <4> QED
        BY <2>5, <4>1
    <3>2. Reads(t, f, p + 1, q, l, val[k])
      BY <2>5
    <3>3. Binds(t, p + 1, q, 5)
      <4>1. Binds(t, p + 1, q, l)
        BY <3>2 DEF Reads
      <4> QED
        BY ONLY <3>1, <4>1 DEF Binds
    <3> QED
      BY ONLY <3>2, <3>3 DEF Reads
  <2>7. t[p].type = "ref"
    BY <2>3 DEF Op
  <2>8. p \in 1 .. Len(t) /\ q \in 1 .. Len(t)
    BY <1>0
  <2> HIDE DEF k
  <2>9. Reads(t, f, p, q, 5, IF val[k].died THEN Died ELSE pmem_read(mem, val[k].v))
    BY <2>6, <2>7, <2>8, <1>0, RefReads
  <2> QED
    BY <2>9, <1>2
<1> QED
  BY <1>5, Levels DEF NodeReads

(* and for a binary operator, where what Departs excludes would go wrong.  *)
LEMMA BinaryNode ==
  ASSUME NEW tree, NEW regs, NEW mem, NEW text, NEW t, NEW f, NEW w, NEW val,
         Reading(tree, regs, mem, text, t, f, w, val),
         NEW n \in 1 .. Len(tree), tree[n].op \in BinaryOps, ReadBefore(tree, text, t, f, w, val, n)
  PROVE  NodeReads(tree, text, t, f, w, val, n)
<1> DEFINE op == tree[n].op  i == tree[n].left  j == tree[n].right
           a == Under(tree, w, i, Level(op))  b == Under(tree, w, j, Level(op) + 1)  o == <<Op(op)>>
<1>0. /\ Grown(tree, regs) /\ Registers(regs) /\ Evaluates(t, regs, mem, f)
      /\ \A x \in 1 .. Len(text) : t[x] = Token(text, x)
      /\ Len(t) = Len(text) /\ Len(text) \in Nat /\ Len(tree) \in Nat /\ DOMAIN tree = 1 .. Len(tree)
      /\ w[n] = NodeText(tree, w, tree[n]) /\ val[n] = NodeValue(val, regs, mem, tree[n])
      /\ \A x \in 1 .. Len(tree) : IsText(tree, w[x])
      /\ ~Departs(tree)
  BY DEF Reading, IsText, Grown
<1>1. op \notin {"leaf", "ref"} /\ i \in 1 .. n - 1 /\ j \in 1 .. n - 1
  <2>1. op \notin {"leaf", "ref"}
    BY DEF BinaryOps
  <2> QED
    BY <1>0, <2>1, Nodes
<1>2. w[n] = (a \o o) \o b /\ val[n] = Combined(op, val[i], val[j], mem)
  <2>1. w[n] = (a \o o) \o b
    BY <1>0, <1>1 DEF NodeText
  <2>2. val[n] = Combined(op, val[i], val[j], mem)
    BY <1>0, <1>1 DEF NodeValue, Combined
  <2> QED
    BY <2>1, <2>2
<1>3. /\ i \in 1 .. Len(tree) /\ NodeReads(tree, text, t, f, w, val, i)
      /\ j \in 1 .. Len(tree) /\ NodeReads(tree, text, t, f, w, val, j)
  BY <1>0, <1>1 DEF ReadBefore
<1>4. IsText(tree, o) /\ IsText(tree, a) /\ IsText(tree, b)
  BY <1>0, <1>3, TextOne, Signs, UnderText
<1>5. tree[i].op # "ref" /\ ~(Level(tree[i].op) = 2 /\ Level(op) = 2)
  BY <1>0 DEF Departs
<1>6. Level(op) \in 1 .. 4
  BY Levels
<1>7. ASSUME NEW p \in 1 .. Len(text), NEW q \in 1 .. Len(text), Spells(text, p, q, w[n])
      PROVE  Reads(t, f, p, q, Level(op), val[n]) /\ t[p].type # "ref"
  <2>1. IsText(tree, a \o o)
    <3> HIDE DEF a, o
    <3> QED
      BY <1>4, TextConcat
  <2>2. PICK m \in p .. q - 1 : Spells(text, p, m, a \o o) /\ Spells(text, m + 1, q, b)
    <3> HIDE DEF a, o, b
    <3> QED
      BY <1>0, <1>2, <1>4, <1>7, <2>1, SpellsTwo
  <2>3. PICK k \in p .. m - 1 : Spells(text, p, k, a) /\ Spells(text, k + 1, m, o)
    <3> HIDE DEF a, o, b
    <3> QED
      BY <1>0, <1>4, <2>2, SpellsTwo
  <2>4. k + 1 = m /\ text[m] = Op(op)
    BY <2>3, SpellsOne
  <2>5. k = m - 1 /\ m \in p + 1 .. q - 1 /\ p \in Int /\ q \in Int /\ m \in Int
    <3>1. m + 1 <= q
      BY <2>2
    <3>2. m - 1 >= p
      BY <2>3, <2>4
    <3>3. m # q
      BY <3>1
    <3> QED
      BY <2>4, <3>1, <3>2
  <2>6. PICK l1 \in Int : /\ l1 >= Level(op) /\ (l1 = 2 => Level(tree[i].op) = 2)
                          /\ Reads(t, f, p, m - 1, l1, val[i]) /\ t[p].type # "ref"
    <3>1. Spells(text, p, m - 1, Under(tree, w, i, Level(op))) /\ Level(op) \in 1 .. 5
      BY <2>3, <2>5, <1>6
    <3>2. tree[i].op = "ref" => Fresh(text, p)
      BY <1>5
    <3> DEFINE least == Level(op)
    <3> HIDE DEF i, least
    <3>3. ReadsUnder(tree, t, f, val, p, m - 1, i, least)
      <4>1. Spells(text, p, m - 1, Under(tree, w, i, least)) /\ least \in 1 .. 5
        BY <3>1 DEF least
      <4>2. Reading(tree, regs, mem, text, t, f, w, val)
        OBVIOUS
      <4>3. i \in 1 .. Len(tree) /\ NodeReads(tree, text, t, f, w, val, i)
        BY <1>3
      <4> QED
        BY ONLY <4>1, <4>2, <4>3, <3>2, UnderReads
    <3> QED
      BY <3>3, <1>5 DEF i, least, ReadsUnder
  <2>7. Fresh(text, m + 1)
    <3>1. ~PrevIsNum(text[m])
      BY <2>4 DEF PrevIsNum, Op, BinaryOps
    <3> QED
      BY <3>1, <2>5 DEF Fresh
  <2>8. PICK l2 \in Int : l2 >= Level(op) + 1 /\ Reads(t, f, m + 1, q, l2, val[j])
    <3>1. Spells(text, m + 1, q, Under(tree, w, j, Level(op) + 1)) /\ Level(op) + 1 \in 1 .. 5
      BY <2>2, <1>6
    <3> DEFINE least == Level(op) + 1
    <3> HIDE DEF j, least
    <3>2. ReadsUnder(tree, t, f, val, m + 1, q, j, least)
      <4>1. Spells(text, m + 1, q, Under(tree, w, j, least)) /\ least \in 1 .. 5
        BY <3>1 DEF least
      <4> QED
        BY <4>1, <2>7, <1>3, UnderReads
    <3> QED
      BY <3>2 DEF j, least, ReadsUnder
  <2>9. t[m] = Op(op)
    <3>1. m \in 1 .. Len(text) /\ m - 1 \in 1 .. Len(text) /\ m # 1
      BY <2>5
    <3>2. PrevIsNum(t[m - 1])
      BY <2>6 DEF Reads
    <3>3. PrevIsNum(text[m - 1])
      BY <3>1, <3>2, <1>0, Tokens
    <3>4. ~Fresh(text, m)
      BY <3>1, <3>3 DEF Fresh
    <3> QED
      BY <3>1, <3>4, <2>4, <1>0, Tokens
  <2>10. t[m].type = op
    BY <2>9 DEF Op
  <2>11. Joins(t, f, p, m, q, l1, val[i], l2, val[j])
    BY <2>5, <2>6, <2>8, <2>10, <1>0, <1>5, <1>7 DEF Joins
  <2> HIDE DEF op, i, j
  <2>12. Reads(t, f, p, q, Level(op), Combined(op, val[i], val[j], mem))
    BY <2>10, <2>11, <1>0, BinaryReads
  <2> QED
    BY <2>6, <2>12, <1>2
<1> QED
  BY <1>7 DEF NodeReads

(* So the evaluator reads every node as the expression it is.              *)
LEMMA EveryNodeReads ==
  ASSUME NEW tree, NEW regs, NEW mem, NEW text, NEW t, NEW f, NEW w, NEW val,
         Reading(tree, regs, mem, text, t, f, w, val)
  PROVE  \A n \in 1 .. Len(tree) : NodeReads(tree, text, t, f, w, val, n)
<1> DEFINE S == {n \in 1 .. Len(tree) : NodeReads(tree, text, t, f, w, val, n)}
<1>0. Len(tree) \in Nat /\ Grown(tree, regs)
  BY DEF Reading, Grown
<1>1. ASSUME NEW n \in 1 .. Len(tree), 1 .. n - 1 \subseteq S PROVE n \in S
  <2>1. ReadBefore(tree, text, t, f, w, val, n)
    BY <1>1 DEF ReadBefore
  <2>2. tree[n].op \in {"leaf", "ref"} \cup BinaryOps
    BY <1>0, Nodes
  <2>3. NodeReads(tree, text, t, f, w, val, n)
    BY <2>1, <2>2, LeafNode, RefNode, BinaryNode
  <2> QED
    BY <2>3
<1>2. 1 .. Len(tree) \subseteq S
  <2> HIDE DEF S
  <2> QED
    BY <1>0, <1>1, UpTo
<1> QED
  BY <1>2

(* A tree is a sequence with a last node.                                  *)
LEMMA GrownIs ==
  ASSUME NEW tree, NEW regs, IsTree(tree, regs)
  PROVE  Grown(tree, regs)
<1> DEFINE S == {tree[n] : n \in DOMAIN tree}
<1>1. tree # <<>> /\ tree \in Seq(S)
  BY DEF IsTree
<1> HIDE DEF S
<1>2. Len(tree) \in Nat /\ DOMAIN tree = 1 .. Len(tree) /\ Len(tree) # 0
  BY <1>1, EmptySeq, LenProperties
<1> QED
  BY <1>2 DEF Grown

(* The tokens of a tree's text.                                             *)
LEMMA TextTokens ==
  ASSUME NEW tree, NEW regs, NEW mem, Grown(tree, regs), Registers(regs), MemoryOfNumbers(mem),
         NEW text, IsText(tree, text)
  PROVE  /\ make_token(text) = [i \in 1 .. Len(text) |-> Token(text, i)]
         /\ Len(make_token(text)) = Len(text) /\ Len(text) \in Nat \ {0}
         /\ Sane(make_token(text), regs, mem)
         /\ Matched(text)
<1>1. /\ Len(text) \in Nat \ {0} /\ DOMAIN text = 1 .. Len(text)
      /\ \A i \in 1 .. Len(text) : text[i] \in Lexemes(tree)
  BY LenProperties, ElementOfSeq DEF IsText
<1>2. ASSUME NEW x \in Lexemes(tree)
      PROVE  /\ x.type \in {"dec", "hex", "reg", "(", ")"} \cup BinaryOps
             /\ expr2val(x, regs) \in Results
  <2>1. CASE x \in Leafs(tree)
    <3>1. PICK n \in DOMAIN tree : tree[n].op = "leaf" /\ x = tree[n].text
      BY <2>1 DEF Leafs
    <3>2. IsLeaf(x, regs)
      BY <3>1, Nodes DEF Grown, BinaryOps
    <3> QED
      BY <3>2, LeafAnswers
  <2>2. CASE x \in {Op(o) : o \in {"(", ")"} \cup BinaryOps}
    <3>1. x.type \in {"(", ")"} \cup BinaryOps
      BY <2>2 DEF Op
    <3>2. x.type \notin {"dec", "hex", "reg"}
      BY <3>1 DEF BinaryOps
    <3>3. expr2val(x, regs) = Value(0)
      BY <3>2 DEF expr2val
    <3> QED
      BY <3>1, <3>3, ValueTyped
  <2> QED
    BY <2>1, <2>2 DEF Lexemes
<1>3. Matched(text)
  BY <1>1, <1>2 DEF Matched, rules, BinaryOps
<1>4. \A i \in 1 .. Len(text) : text[i].type \notin {"blank", "newline"}
  BY <1>1, <1>2 DEF BinaryOps
<1>5. make_token(text) = [i \in 1 .. Len(text) |-> Token(text, i)]
  BY <1>1, <1>4, TokensAre
<1>6. Len(make_token(text)) = Len(text)
  BY <1>1, <1>5
<1>7. expr2val(Op("ref"), regs) \in Results
  BY ValueTyped DEF expr2val, Op
<1>8. \A i \in 1 .. Len(text) : expr2val(Token(text, i), regs) \in Results
  BY <1>1, <1>2, <1>7 DEF Token
<1>9. Sane(make_token(text), regs, mem)
  BY <1>1, <1>5, <1>6, <1>8 DEF Sane
<1> QED
  BY <1>1, <1>3, <1>5, <1>6, <1>9

(* The evaluator agrees with C on every expression outside the departures:  *)
(* whatever its size, its registers and the memory, eval of the tokens of   *)
(* its text is its meaning, as long as the table of tokens holds them       *)
(* (expr.c:104-370).                                                        *)
THEOREM EvaluatorRight ==
  ASSUME NEW tree, NEW regs, NEW mem, Registers(regs), MemoryOfNumbers(mem), IsTree(tree, regs), ~Departs(tree)
  PROVE  expr(Written(tree), regs, mem) = Meaning(tree, regs, mem)
<1> DEFINE text == Written(tree)  t == make_token(text)  N == Len(tree)
<1>1. Grown(tree, regs) /\ N \in 1 .. N /\ N \in Nat
  BY GrownIs DEF Grown
<1>2. PICK w : /\ \A n \in 1 .. N : IsText(tree, w[n]) /\ w[n] = NodeText(tree, w, tree[n])
               /\ text = w[N]
  BY <1>1, WrittenIs
<1>3. PICK val : /\ \A n \in 1 .. N : Answer(val[n]) /\ val[n] = NodeValue(val, regs, mem, tree[n])
                 /\ Meaning(tree, regs, mem) = val[N]
  BY <1>1, MeaningIs
<1>4. IsText(tree, text)
  BY <1>1, <1>2
<1> HIDE DEF text, N
<1>5. /\ t = [i \in 1 .. Len(text) |-> Token(text, i)]
      /\ Len(t) = Len(text) /\ Len(text) \in Nat \ {0}
      /\ Sane(t, regs, mem) /\ Matched(text)
  BY <1>1, <1>4, TextTokens
<1> HIDE DEF t
<1>6. PICK f \in [Ranges(t) -> Results] : EvalBy(t, regs, mem, f) /\ eval(t, regs, mem) = f[<<1, Len(t)>>]
  <2>1. Sane(t, regs, mem)
    BY <1>5
  <2> QED
    BY ONLY <2>1, EvalIs
<1>7. Reading(tree, regs, mem, text, t, f, w, val)
  BY <1>1, <1>2, <1>3, <1>4, <1>5, <1>6 DEF Reading, Evaluates, N
<1>8. NodeReads(tree, text, t, f, w, val, N)
  BY <1>1, <1>7, EveryNodeReads DEF N
<1>9. Spells(text, 1, Len(text), w[N])
  <2>1. text = w[N] /\ 1 \in 1 .. Len(text) /\ Len(text) \in 1 .. Len(text) /\ Len(text) = 1 + Len(text) - 1
    BY <1>2, <1>5
  <2>2. \A i \in 1 .. Len(text) : text[1 + i - 1] = text[i]
    OBVIOUS
  <2> QED
    BY <2>1, <2>2 DEF Spells
<1>10. Reads(t, f, 1, Len(text), Level(tree[N].op), val[N])
  <2>1. Fresh(text, 1) /\ 1 \in 1 .. Len(text) /\ Len(text) \in 1 .. Len(text)
    BY <1>5 DEF Fresh
  <2> QED
    BY <2>1, <1>8, <1>9 DEF NodeReads
<1>11. eval(t, regs, mem) = val[N]
  BY <1>5, <1>6, <1>10 DEF Reads
<1>12. expr(text, regs, mem) = eval(t, regs, mem)
  BY <1>5 DEF expr, t
<1> QED
  BY <1>3, <1>11, <1>12 DEF text

-----------------------------------------------------------------------------
(* A session: the answer belongs to the line, the registers and the memory  *)
(* of the moment, as long as the line is the one being answered.            *)
ExprInv ==
    /\ user \in Users /\ cpu \in Regs
    /\ phase = "start" => line = NoLine
    /\ line.cmd = "p" => phase \in {"prompt", "crashed"}
    /\ ExprRight

(* The line a user types has the meaning p prints.                         *)
LEMMA AskedRight ==
  ASSUME ExprInv, NEW l \in LinesOf(user), Asks(l)
  PROVE  l.arg = "text" /\ get_expr_val(l.text) = Meaning(l.tree, cpu, Word)
<1>1. /\ l.arg = "text" /\ l.text = Written(l.tree) /\ IsTree(l.tree, cpu) /\ ~Departs(l.tree)
  BY LinesAssumption DEF ExprInv
<1>2. Registers(cpu) /\ MemoryOfNumbers(Word)
  BY WordsAssumption DEF ExprInv, Registers, MemoryOfNumbers
<1> QED
  BY <1>1, <1>2, EvaluatorRight DEF get_expr_val

(* The step that answers the line.                                         *)
LEMMA PrintsMeaning ==
  ASSUME ExprInv, cmd_p, user' = user
  PROVE  ExprInv'
<1>1. /\ line' \in LinesOf(user) /\ line'.cmd = "p"
      /\ phase' \in {"prompt", "crashed"} /\ cpu' = cpu
  BY DEF cmd_p, Mainloop, Returns, Crash
<1>2. ASSUME Asks(line') PROVE ExprRight'
  <2> DEFINE v == get_expr_val(line'.text)
  <2>1. line'.arg = "text" /\ v = Meaning(line'.tree, cpu', Word)
    BY <1>1, <1>2, AskedRight
  <2>2. IF v.died THEN phase' = "crashed" ELSE answer' = v /\ phase' = "prompt"
    BY <2>1 DEF cmd_p, Crash, Returns
  <2> HIDE DEF v
  <2> QED
    BY <2>1, <2>2 DEF ExprRight
<1>3. ExprRight'
  BY <1>2 DEF ExprRight
<1> QED
  BY <1>1, <1>3 DEF ExprInv

(* In every session p prints what its expression means in C, and the        *)
(* process dies of it only where C gives it no value (expr.c:104-370).      *)
THEOREM ExprRightHolds == SdbSpec => []ExprRight
<1>1. SdbInit => ExprInv
  BY DEF SdbInit, ExprInv, ExprRight, Asks, NoLine
<1>2. ExprInv /\ [SdbNext]_allVars => ExprInv'
  <2> SUFFICES ASSUME ExprInv, [SdbNext]_allVars PROVE ExprInv'
    OBVIOUS
  <2>1. CASE UNCHANGED allVars
    BY <2>1 DEF ExprInv, ExprRight, Asks, allVars, sdbVars
  <2>2. CASE SdbNext
    <3>1. CASE cmd_p
      BY <2>2, <3>1, PrintsMeaning DEF SdbNext
    <3>2. CASE init_monitor \/ Instruction \/ ProgramExits \/ Stops
      <4>1. line' = line /\ line'.cmd # "p" /\ phase' # "start" /\ cpu' \in Regs /\ user' = user
        BY <2>2, <3>2 DEF SdbNext, init_monitor, Instruction, ProgramExits, Stops, Close, ExprInv, NoLine
      <4> QED
        BY <4>1 DEF ExprInv, ExprRight, Asks
    <3>3. CASE \/ EndOfInput \/ BatchMode \/ BatchEnds \/ cmd_shows \/ cmd_c \/ cmd_q \/ cmd_si
               \/ cmd_x \/ cmd_w \/ cmd_d
      <4>1. line'.cmd # "p" /\ phase' # "start" /\ cpu' = cpu /\ user' = user
        BY <2>2, <3>3 DEF SdbNext, EndOfInput, BatchMode, BatchEnds, cmd_shows, cmd_c, cmd_q, cmd_si,
           cmd_x, cmd_w, cmd_d, Mainloop, cpu_exec, Returns, Crash, Close, NoLine
      <4> QED
        BY <4>1 DEF ExprInv, ExprRight, Asks
    <3> QED
      BY <2>2, <3>1, <3>2, <3>3 DEF SdbNext
  <2> QED
    BY <2>1, <2>2
<1>3. ExprInv => ExprRight
  BY DEF ExprInv
<1> QED
  BY <1>1, <1>2, <1>3, PTL DEF SdbSpec
==============================================================================
