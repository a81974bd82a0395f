-------------------------------- MODULE MCSdb --------------------------------
(***************************************************************************)
(* Small words, eight addresses of memory and two places for watchpoints.  *)
(* Expressions: every tree of two levels over three numbers that the       *)
(* evaluator reads as C does; the session's other lines are one per case   *)
(* of each command.                                                        *)
(***************************************************************************)
EXTENDS Sdb

-----------------------------------------------------------------------------
Dec(s) == [type |-> "dec", str |-> s]
Hex(s) == [type |-> "hex", str |-> s]
Reg(r) == [type |-> "reg", str |-> r]
MCRegs == {[a0 |-> 128, pc |-> 129, s0 |-> 128], [a0 |-> 0, pc |-> 130, s0 |-> 128]}
MCWord == [a \in 128 .. 132 |-> CASE a = 128 -> 130 [] a = 129 -> 0 [] a = 130 -> 3 [] OTHER -> 255]

\* Trees: a leaf, a dereference, and two operands, the nodes of the second after those of the first.
Leaf(l) == <<[op |-> "leaf", text |-> l]>>
Deref(x) == Append(x, [op |-> "ref", of |-> Len(x)])
Moved(x, by) ==
    [n \in DOMAIN x |->
        CASE x[n].op = "leaf" -> x[n]
          [] x[n].op = "ref" -> [x[n] EXCEPT !.of = @ + by]
          [] OTHER -> [x[n] EXCEPT !.left = @ + by, !.right = @ + by]]
Binary(o, x, y) == x \o Moved(y, Len(x)) \o <<[op |-> o, left |-> Len(x), right |-> Len(x) + Len(y)]>>
Leaves == {Leaf(Dec(<<"0">>)), Leaf(Hex(<<"8", "2", "U">>)), Leaf(Reg("s0"))}
Deeper(es) == es \cup {Deref(x) : x \in es} \cup {Binary(o, x, y) : o \in BinaryOps, x \in es, y \in es}
Trees == {t \in Deeper(Deeper(Leaves)) : ~Departs(t)}

Sum == <<Reg("a0"), [type |-> "blank", str |-> <<>>], Op("+"), Dec(<<"1">>)>>
NoReg == <<Reg("zz")>>
ByNoReg == <<Dec(<<"1">>), Op("/"), Reg("zz")>>
Unclosed == <<Op("("), Dec(<<"1">>)>>
NoRule == <<Dec(<<"1">>), [type |-> "none", str |-> <<>>]>>
Empty == <<[type |-> "blank", str |-> <<>>]>>
Last == <<Dec(<<"1", "3", "2">>)>>
MCTexts == {Sum, NoReg, ByNoReg, Last}
Numbers == {<<"0">>, <<"1">>, <<"2">>, <<"3">>, <<"2", "5", "8">>, <<"x">>}

SessionLines ==
    [cmd : {"help", "info", "clear", "blank", "unknown", "c", "q"}, arg : {"none"}]
    \cup [cmd : {"si", "p", "x", "w", "d"}, arg : {"none"}]
    \cup [cmd : {"si", "d"}, arg : {"some"}, num : Numbers]
    \cup [cmd : {"x"}, arg : {"some"}, num : {<<"0">>, <<"2">>, <<"x">>}, text : {<<>>, Sum, NoReg, ByNoReg, Last}]
    \cup [cmd : {"p"}, arg : {"text"}, text : {NoReg, ByNoReg, Unclosed, NoRule, Empty}]
    \cup [cmd : {"w"}, arg : {"text"}, text : MCTexts]
    \cup [cmd : {"w"}, arg : {"long"}]

(* A user asks for one expression and leaves, or types the other lines.    *)
Anyone == <<>>
MCUsers == Trees \cup {Anyone}
MCLinesOf(u) ==
    IF u = Anyone THEN SessionLines
    ELSE {[cmd |-> "p", arg |-> "text", text |-> Written(u), tree |-> u]}

MCOptions == {<<>>, <<"image">>, <<"batch">>, <<"batch", "image">>, <<"image", "batch">>,
              <<"log", "image">>, <<"other">>, <<"image", "other">>}

(* Who asks for an expression finds the simulator started without options. *)
Started ==
    /\ phase = "prompt" /\ batch = FALSE /\ sim = "STOP" /\ left = 0
    /\ cpu = CHOOSE r \in Regs : TRUE
    /\ loaded = Copied(Filled, BuiltIn, "builtin") /\ given = Pmem
    /\ line = NoLine /\ answer = Failed /\ wp_init
MCInit == (user = Anyone /\ SdbInit) \/ (Started /\ user \in Trees)
MCNext == SdbNext /\ (user = Anyone \/ line = NoLine)
MCSpec == MCInit /\ [][MCNext]_allVars
=============================================================================
