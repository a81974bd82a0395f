------------------------------- MODULE MCKlib -------------------------------
(***************************************************************************)
(* The library on words of four bits, a memory of four bytes and ints of   *)
(* eight bits: every pair of double words is divided, and every format of  *)
(* four characters or fewer, over an alphabet, is printed.                 *)
(***************************************************************************)
EXTENDS Klib

MCOperands == {0, 1, 2, 3, 5, 7, 10, 15, 16, 17, 31, 100, 127, 128, 129, 200, 240, 253, 254, 255}
MCIntMin == -128
MCMinText == <<"-", "1", "2", "8">>
MCTexts == {<<>>, <<"a", "b">>}
MCNumbers == {-128, -10, 0, 42}
MCFormats == UNION {[1 .. n -> {"%", "d", "s", "u", "x"}] : n \in 0 .. 4}
=============================================================================
