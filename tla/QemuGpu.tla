-------------------------------- MODULE QemuGpu --------------------------------
(***************************************************************************)
(* The display of the x86-qemu port (am/src/x86/qemu/ioe.c): gpu_fbdraw    *)
(* copies the visible part of a rectangle to the frame buffer; gpu_render  *)
(* paints a tree of canvases, each subtree first into a buffer of its own  *)
(* taken from vbuf.  Memory is by pixel, the frame buffer and behind it    *)
(* vbuf.  The canvases of a tree are numbered so that links lead to lower  *)
(* numbers; the root is the last.                                          *)
(***************************************************************************)
EXTENDS Integers, Sequences

CONSTANTS Width, Height,        \* display.w and display.h
          VbufSize,             \* pixels of vbuf
          Draws,                \* bound: rectangles drawn
          Canvases,             \* bound: trees rendered
          MaxCalls              \* bound: calls on one frame buffer

Null == 0   \* AM_GPU_NULL
Child(cv) == IF cv.type = "subtree" THEN cv.child ELSE Null
\* A canvas has pixels enough, and lies inside its parent, w by h, as nothing cuts it off.
Canvas(cv) == /\ {cv.w, cv.h} \subseteq Nat \ {0} /\ {cv.x1, cv.y1, cv.w1, cv.h1} \subseteq Nat
              /\ cv.type \in {"texture", "subtree"}
              /\ cv.type = "texture" => cv.pixels \in Seq(Nat) /\ cv.w * cv.h <= Len(cv.pixels)
Inside(cv, w, h) == cv.x1 + cv.w1 <= w /\ cv.y1 + cv.h1 <= h
IsTree(t, parent) ==
  /\ Len(t) \in Nat \ {0} /\ parent[Len(t)] = Null
  /\ \A k \in 1..Len(t) :
       /\ Canvas(t[k]) /\ {t[k].sibling, Child(t[k])} \subseteq 0..k-1
       /\ Child(t[k]) # Null => parent[Child(t[k])] = k
       /\ t[k].sibling # Null => parent[t[k].sibling] = parent[k]
       /\ IF parent[k] = Null THEN Inside(t[k], Width, Height)
          ELSE Inside(t[k], t[parent[k]].w, t[parent[k]].h)
ASSUME QemuGpuAssumption ==
  /\ Width \in Nat \ {0} /\ Height \in Nat \ {0} /\ VbufSize \in Nat /\ MaxCalls \in Nat
  /\ \A d \in Draws : /\ {d.x, d.y, d.w, d.h} \subseteq Nat
                      /\ d.pixels \in Seq(Nat) /\ d.w * d.h <= Len(d.pixels)
  /\ \A t \in Canvases : \E parent \in [1..Len(t) -> 0..Len(t)] : IsTree(t, parent)

VARIABLES display,      \* the frame buffer
          earlier,      \* what it held before the last call
          call,         \* the last call and its argument
          calls

gpuVars == <<display, earlier, call, calls>>
Screen == 0 .. Width * Height - 1
At(w, x, y) == w * y + x

\* gpu_fbdraw: rows outside the display are skipped, rows that end outside cut.
RowLen(x, w) == IF x + w >= Width THEN Width - x ELSE w
Row(fb, d, j) ==
  IF d.y + j >= Height THEN fb
  ELSE [a \in DOMAIN fb |->
          LET i == a - At(Width, d.x, d.y + j)
          IN  IF i \in 0 .. RowLen(d.x, d.w) - 1 THEN d.pixels[d.w * j + i + 1] ELSE fb[a]]
gpu_fbdraw(fb, d) ==
  LET rows[j \in 0..d.h] == IF j = 0 THEN fb ELSE Row(rows[j-1], d, j-1) IN rows[d.h]

\* Where render stands: memory and the top of vbuf, and the picture of w pixels a row
\* from to on that the parent has it paint.
Vbuf == Width * Height
Memory == 0 .. Vbuf + VbufSize - 1
Painters == [px : [Memory -> Nat], head : Nat, panic : BOOLEAN, w : Nat, to : Nat]
\* vbuf_alloc: room for a subtree, cleared, which is then painted into.
VbufFits(head) == head <= Vbuf + VbufSize
vbuf_alloc(st, cv) ==
  LET head == st.head + cv.w * cv.h
  IN  IF ~VbufFits(head) THEN [st EXCEPT !.panic = TRUE]
      ELSE [st EXCEPT !.head = head, !.w = cv.w, !.to = st.head,
                      !.px = [a \in Memory |-> IF a \in st.head .. head - 1 THEN 0 ELSE @[a]]]
\* Draw the local canvas scaled to the rectangle of the parent.
Blit(st, cv, px, local) ==
  [a \in Memory |->
     LET hits == {h \in (0..cv.w1-1) \X (0..cv.h1-1) :
                    a = st.to + At(st.w, cv.x1 + h[1], cv.y1 + h[2])}
         hit == CHOOSE h \in hits : TRUE
     IN  IF hits = {} THEN px[a]
         ELSE local[At(cv.w, (hit[1] * cv.w) \div cv.w1, (hit[2] * cv.h) \div cv.h1)]]
\* One canvas; children is the loop over those of a subtree.
render(st, cv, children) ==
  IF cv.type = "texture"
  THEN [st EXCEPT !.px = Blit(st, cv, @, [i \in 0..cv.w*cv.h-1 |-> cv.pixels[i+1]])]
  ELSE LET below == children[vbuf_alloc(st, cv)]
       IN  [st EXCEPT !.head = below.head, !.panic = below.panic,
                      !.px = IF below.panic THEN below.px
                             ELSE Blit(st, cv, below.px,
                                       [i \in 0..cv.w*cv.h-1 |-> below.px[st.head + i]])]
\* The loop from canvas k on through its siblings; it ends the program where one panics.
Loop(t) ==
  LET loop[k \in 0..Len(t)] == [st \in Painters |->
        IF k = Null \/ st.panic THEN st
        ELSE loop[t[k].sibling][render(st, t[k], loop[Child(t[k])])]]
  IN  loop
\* gpu_render starts at the bottom of vbuf, which holds anything.
Blank(fb) == [px |-> [a \in Memory |-> IF a \in Screen THEN fb[a] ELSE 9],
              head |-> Vbuf, panic |-> FALSE, w |-> Width, to |-> 0]
gpu_render(fb, t) == render(Blank(fb), t[Len(t)], Loop(t)[Child(t[Len(t)])])

Fbdraw(d) == /\ call[1] # "panic" /\ calls < MaxCalls /\ calls' = calls + 1
             /\ earlier' = display /\ call' = <<"fbdraw", d>>
             /\ display' = gpu_fbdraw(display, d)
Render(cv) == /\ call[1] # "panic" /\ calls < MaxCalls /\ calls' = calls + 1
              /\ earlier' = display
              /\ LET st == gpu_render(display, cv)
                 IN  /\ call' = <<IF st.panic THEN "panic" ELSE "render", cv>>
                     /\ display' = [a \in Screen |-> st.px[a]]
GpuInit == /\ display = [a \in Screen |-> 0] /\ earlier = display /\ call = <<"none", <<>>>> /\ calls = 0
GpuNext == (\E d \in Draws : Fbdraw(d)) \/ (\E cv \in Canvases : Render(cv))
GpuSpec == GpuInit /\ [][GpuNext]_gpuVars
----------------------------------------------------------------------------
\* What the pixel x, y of a picture shows of the canvases from k on: the last that
\* covers it, at its scale, or nothing.
Unpainted == -1
Covers(cv, x, y) == x \in cv.x1 .. cv.x1 + cv.w1 - 1 /\ y \in cv.y1 .. cv.y1 + cv.h1 - 1
Colour(cv, x, y, children) ==
  LET i == ((x - cv.x1) * cv.w) \div cv.w1
      j == ((y - cv.y1) * cv.h) \div cv.h1
  IN  IF cv.type = "texture" THEN cv.pixels[At(cv.w, i, j) + 1]
      ELSE IF children[<<i, j>>] = Unpainted THEN 0 ELSE children[<<i, j>>]
Tops(t) ==
  LET top[k \in 0..Len(t)] == [p \in Nat \X Nat |->
        IF k = Null THEN Unpainted
        ELSE IF top[t[k].sibling][p] # Unpainted THEN top[t[k].sibling][p]
        ELSE IF Covers(t[k], p[1], p[2]) THEN Colour(t[k], p[1], p[2], top[Child(t[k])])
        ELSE Unpainted]
  IN  top
\* The pixels of vbuf that the canvases from k on take.
Takes(cv, children) == IF cv.type = "subtree" THEN cv.w * cv.h + children ELSE 0
Areas(t) ==
  LET area[k \in 0..Len(t)] ==
        IF k = Null THEN 0 ELSE Takes(t[k], area[Child(t[k])]) + area[t[k].sibling]
  IN  area

\* The part of a rectangle inside the display is drawn and nothing else changes
\* (ioe.c:190); the pixels of a rendered tree are those of the topmost canvases, and
\* it panics exactly when its subtrees need more than vbuf (ioe.c:216-254).
GpuRight ==
  call[1] # "none" =>
    LET op == call[1]  c == call[2]
        root == c[Len(c)]
        area == Takes(root, Areas(c)[Child(root)])
    IN  /\ op = "panic" => area > VbufSize
        /\ op = "render" => area <= VbufSize
        /\ \A x \in 0..Width-1, y \in 0..Height-1 :
             display[At(Width, x, y)] =
               CASE op = "fbdraw" /\ x \in c.x .. c.x + c.w - 1 /\ y \in c.y .. c.y + c.h - 1
                      -> c.pixels[At(c.w, x - c.x, y - c.y) + 1]
                 [] op = "render" /\ Covers(root, x, y) -> Colour(root, x, y, Tops(c)[Child(root)])
                 [] OTHER -> earlier[At(Width, x, y)]
=============================================================================
