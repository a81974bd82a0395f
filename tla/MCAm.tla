--------------------------------- MODULE MCAm ---------------------------------
(***************************************************************************)
(* A small instance of every port: two user threads in two spaces, three   *)
(* processors, a screen of three by two pixels, sectors of two units.      *)
(***************************************************************************)
EXTENDS AbstractMachine, TLC

CONSTANTS u1, u2, s1, s2, p, q, rw, ro

MCSpaceOf == (u1 :> s1) @@ (u2 :> s2)
MCWritable(b) == b = rw
MCNativeWanted == {<<s1, p, rw>>, <<s1, p, ro>>, <<s2, p, rw>>, <<s2, q, rw>>}
MCQemuWanted == {<<s1, <<0, 1, 0>>, p>>, <<s1, <<0, 1, 0>>, None>>, <<s2, <<0, 2, 1>>, p>>}

Segment(at_, offset, filesz, zeros) ==
  [paddr |-> at_, offset |-> offset, filesz |-> filesz, memsz |-> filesz + zeros]
Segments == {Segment(a, o, f, z) : a \in 6..8, o \in 1..3, f \in 0..3, z \in 0..2}
MCImages == {phs \in ({<<s>> : s \in Segments} \cup {<<s, t>> : s \in Segments, t \in Segments}) :
               Loadable(phs)}
MCMpTables == {<<"cpu", "io", "cpu", "io">>, <<"io", "cpu">>, <<"cpu", "cpu", "cpu">>}

Picture == <<1, 2, 3, 4, 5, 6, 7, 8>>
MCDraws == {[x |-> x, y |-> y, w |-> w, h |-> h, pixels |-> Picture] :
              x \in 0..4, y \in 0..3, w \in {0, 2, 4}, h \in 0..2}
\* Trees, each canvas behind those it leads to: a texture, some of them stretched; a subtree of two; a subtree
\* whose first child is a subtree, of one texture, with a texture or an empty one over it.
Texture(x, y, w1, h1, next_) ==
  [type |-> "texture", w |-> 2, h |-> 2, x1 |-> x, y1 |-> y, w1 |-> w1, h1 |-> h1,
   sibling |-> next_, pixels |-> Picture]
Subtree(x, y, w1, h1, next_, first) ==
  [type |-> "subtree", w |-> 3, h |-> 2, x1 |-> x, y1 |-> y, w1 |-> w1, h1 |-> h1,
   sibling |-> next_, child |-> first]
Leaves(n) == {Texture(x, y, w, 1, n) : x \in 0..1, y \in 0..1, w \in 1..2} \cup {Texture(0, 0, 3, 2, n)}
MCCanvases ==
  {<<a>> : a \in Leaves(0)}
  \cup {<<b, a, Subtree(1, 0, w, 2, 0, 2)>> : w \in {1, 2}, a \in Leaves(1), b \in Leaves(0)}
  \cup {<<b, a, Subtree(0, 0, 2, 1, 1, 2), Subtree(0, 0, 3, 2, 0, 3)>> : a \in Leaves(0), b \in Leaves(0)}
  \cup {<<Subtree(1, 1, 2, 1, 0, 0), a, Subtree(0, 0, 2, 1, 1, 2), Subtree(0, 0, 3, 2, 0, 3)>> :
           a \in Leaves(0)}

MCStartDates == {<<58, 59, 23, 31, 12, 9>>, <<57, 9, 9, 9, 9, 99>>, <<59, 59, 19, 30, 10, 19>>}
MCTransfers == {[write |-> w, blkno |-> b, data |-> d] :
                  w \in BOOLEAN, b \in {255, 16777215}, d \in {<<1, 2>>, <<3, 4>>}}
MCSectors == {255, 256, 16777215, 16777216}
=============================================================================
