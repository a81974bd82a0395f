-------------------------------- MODULE Expr --------------------------------
(***************************************************************************)
(* The expressions of the debugger (simulator/src/monitor/sdb/expr.c).  A  *)
(* line is a sequence of lexemes [type, str]: the rule that matches and    *)
(* the characters it keeps: the digits of a number without a leading 0x,   *)
(* or the name of a register.                                              *)
(***************************************************************************)
EXTENDS Integers, Sequences, FiniteSets

CONSTANTS
    Modulus,          \* words are the numbers below it: 2^32 in the code
    PmemLeft, PmemRight   \* the addresses of physical memory

Op(t) == [type |-> t, str |-> <<>>]
Rank == [t \in {"&&", "==", "!=", "+", "-", "*", "/", "ref"} |->
            CASE t = "&&" -> 1 [] t = "==" -> 2 [] t = "!=" -> 3 [] t = "+" -> 4
              [] t = "-" -> 5  [] t = "*" -> 6  [] t = "/" -> 7  [] t = "ref" -> 8]

PrevIsNum(tok) == tok.type \in {"dec", "hex", "reg", "(", ")"}

(* make_token: every lexeme must have a rule, blanks and newlines are not  *)
(* kept, and a star is a dereference unless a number comes before it.      *)
rules == {"reg", "hex", "dec", "blank", "+", "-", "*", "/", "(", ")", "newline", "==", "!=", "&&"}
Matched(line) == \A i \in DOMAIN line : line[i].type \in rules
AfterNum(tok) == tok # <<>> /\ PrevIsNum(tok[Len(tok)])
make_token(line) ==
    LET tok[i \in 0 .. Len(line)] ==
            IF i = 0 THEN <<>>
            ELSE IF line[i].type \in {"blank", "newline"} THEN tok[i - 1]
            ELSE Append(tok[i - 1], IF line[i].type = "*" /\ ~AfterNum(tok[i - 1]) THEN Op("ref") ELSE line[i])
    IN  tok[Len(line)]

(* A value, whether success is still true, and whether the process died on *)
(* the way: of an assertion, a division by zero, or a read outside pmem,   *)
(* which is undefined.                                                     *)
Value(v) == [v |-> v % Modulus, ok |-> TRUE, died |-> FALSE]
Failed == [v |-> 0, ok |-> FALSE, died |-> FALSE]
Died == [v |-> 0, ok |-> FALSE, died |-> TRUE]

Glyphs == <<{"0"}, {"1"}, {"2"}, {"3"}, {"4"}, {"5"}, {"6"}, {"7"}, {"8"}, {"9"},
            {"a", "A"}, {"b", "B"}, {"c", "C"}, {"d", "D"}, {"e", "E"}, {"f", "F"}>>
hex_char_to_num(ch) == (CHOOSE n \in DOMAIN Glyphs : ch \in Glyphs[n]) - 1
(* The digits' number, wrapped; a U among them is passed over.             *)
Number(str, base) ==
    LET val[i \in 0 .. Len(str)] ==
            IF i = 0 THEN 0
            ELSE IF str[i] = "U" THEN val[i - 1]
            ELSE (val[i - 1] * base + hex_char_to_num(str[i])) % Modulus
    IN  val[Len(str)]
get_reg_val(cpu, name) == IF name \in DOMAIN cpu THEN Value(cpu[name]) ELSE Failed
expr2val(tok, cpu) ==
    CASE tok.type = "reg" -> get_reg_val(cpu, tok.str)
      [] tok.type = "dec" -> Value(Number(tok.str, 10))
      [] tok.type = "hex" -> Value(Number(tok.str, 16))
      [] OTHER -> Value(0)

pmem_read(mem, addr) == IF addr \in PmemLeft .. PmemRight - 3 THEN Value(mem[addr]) ELSE Died

-----------------------------------------------------------------------------
Depth(t, p, k) == Cardinality({i \in p .. k : t[i].type = "("})
                  - Cardinality({i \in p .. k : t[i].type = ")"})
Balanced(t, p, q) == Depth(t, p, q) = 0 /\ \A k \in p .. q : Depth(t, p, k) >= 0
check_parentheses(t, p, q) ==
    CASE ~Balanced(t, p, q) -> "bad"
      [] Balanced(t, p, q) /\ t[p].type = "(" /\ \A k \in p .. q - 1 : Depth(t, p, k) > 0 -> "whole"
      [] OTHER -> "split"

(* A slip: an operator of the same strength does not replace.              *)
ReplacesFirst(new, old) ==
    CASE new = "&&" -> TRUE
      [] new \in {"==", "!=", "+", "-"} -> Rank[old] >= Rank["*"]
      [] new \in {"*", "/"} -> Rank[old] >= Rank["*"]
      [] new = "ref" -> FALSE
(* The operator at which a range is split: a later one replaces the one    *)
(* found so far when that binds at least as tightly.  0 is none.           *)
Replaces(new, old) ==
    CASE new = "&&" -> TRUE
      [] new \in {"==", "!=", "+", "-"} -> Rank[old] >= Rank["+"]
      [] new \in {"*", "/"} -> Rank[old] >= Rank["*"]
      [] new = "ref" -> FALSE
getPosition(t, p, q) ==
    LET idx[k \in p - 1 .. q] ==
            IF k < p THEN 0
            ELSE IF t[k].type \in DOMAIN Rank /\ Depth(t, p, k) = 0
                    /\ (idx[k - 1] = 0 \/ Replaces(t[k].type, t[idx[k - 1]].type))
            THEN k ELSE idx[k - 1]
    IN  idx[q]

Apply(op, a, b, mem) ==
    CASE op = "&&" -> Value(IF a # 0 /\ b # 0 THEN 1 ELSE 0)
      [] op = "==" -> Value(IF a = b THEN 1 ELSE 0)
      [] op = "!=" -> Value(IF a = b THEN 0 ELSE 1)
      [] op = "+"  -> Value(a + b)
      [] op = "-"  -> Value(a - b)
      [] op = "*"  -> Value(a * b)
      [] op = "/"  -> IF b = 0 THEN Died ELSE Value(a \div b)
      [] op = "ref" -> pmem_read(mem, b)

(* eval of the tokens p to q, where ev is eval of the ranges within: the   *)
(* left operand is not evaluated when the range begins with a dereference; *)
(* the right one gives 0 at once when the left one failed, and the         *)
(* operator is applied all the same.                                       *)
Split(t, mem, ev, p, q) ==
    LET op == getPosition(t, p, q)
        left == IF op = 0 THEN Died
                ELSE IF t[p].type = "ref" THEN Value(0) ELSE ev[<<p, op - 1>>]
        right == IF left.ok THEN ev[<<op + 1, q>>] ELSE Failed
        done == Apply(t[op].type, left.v, right.v, mem)
    IN  IF left.died \/ right.died THEN Died
        ELSE IF done.died THEN Died ELSE [done EXCEPT !.ok = right.ok]
EvalRange(t, cpu, mem, ev, p, q) ==
    IF p > q THEN Failed
    ELSE IF p = q THEN expr2val(t[p], cpu)
    ELSE CASE check_parentheses(t, p, q) = "whole" -> ev[<<p + 1, q - 1>>]
           [] check_parentheses(t, p, q) = "bad" -> Failed
           [] OTHER -> Split(t, mem, ev, p, q)
eval(t, cpu, mem) ==
    LET ev[r \in (1 .. Len(t) + 1) \X (0 .. Len(t))] == EvalRange(t, cpu, mem, ev, r[1], r[2])
    IN  ev[<<1, Len(t)>>]

expr(line, cpu, mem) ==
    IF Matched(line) THEN eval(make_token(line), cpu, mem) ELSE Failed

-----------------------------------------------------------------------------
(* What an expression means, as a reference for the evaluator.  A tree of  *)
(* operators is a sequence of nodes, each after its operands, the whole    *)
(* expression last; C writes it with no more parentheses than it needs.    *)
BinaryOps == {"&&", "==", "!=", "+", "-", "*", "/"}
Level(op) == CASE op = "&&" -> 1 [] op \in {"==", "!="} -> 2 [] op \in {"+", "-"} -> 3
               [] op \in {"*", "/"} -> 4 [] OTHER -> 5
InParens(text) == <<Op("(")>> \o text \o <<Op(")")>>
(* The text of node e, where w is that of the nodes before it.             *)
Under(tree, w, k, least) == IF Level(tree[k].op) >= least THEN w[k] ELSE InParens(w[k])
NodeText(tree, w, e) ==
    CASE e.op = "leaf" -> <<e.text>>
      [] e.op = "ref" -> <<Op("*")>> \o Under(tree, w, e.of, 5)
      [] OTHER -> Under(tree, w, e.left, Level(e.op)) \o <<Op(e.op)>> \o Under(tree, w, e.right, Level(e.op) + 1)
Written(tree) ==
    LET w[n \in 1 .. Len(tree)] == NodeText(tree, w, tree[n])
    IN  w[Len(tree)]

(* A number is what its digits are worth; a register, what is in it.       *)
Worth(str, base) ==
    LET val[i \in 0 .. Len(str)] ==
            IF i = 0 THEN 0
            ELSE IF str[i] = "U" THEN val[i - 1]
            ELSE val[i - 1] * base + hex_char_to_num(str[i])
    IN  val[Len(str)]
LeafValue(l, cpu) ==
    CASE l.type = "reg" -> Value(cpu[l.str])
      [] l.type = "dec" -> Value(Worth(l.str, 10))
      [] l.type = "hex" -> Value(Worth(l.str, 16))
(* Both operands of a logical and are evaluated.                           *)
NodeValue(val, cpu, mem, e) ==
    CASE e.op = "leaf" -> LeafValue(e.text, cpu)
      [] e.op = "ref" -> IF val[e.of].died THEN Died ELSE pmem_read(mem, val[e.of].v)
      [] OTHER -> IF val[e.left].died \/ val[e.right].died THEN Died
                  ELSE Apply(e.op, val[e.left].v, val[e.right].v, mem)
Meaning(tree, cpu, mem) ==
    LET val[n \in 1 .. Len(tree)] == NodeValue(val, cpu, mem, tree[n])
    IN  val[Len(tree)]

(* Numbers in digits, and registers that cpu has.                          *)
IsLeaf(l, cpu) ==
    \/ l.type = "reg" /\ l.str \in DOMAIN cpu
    \/ l.type \in {"dec", "hex"} /\ l.str \in Seq({"U"} \cup UNION {Glyphs[i] : i \in DOMAIN Glyphs})
IsTree(tree, cpu) ==
    /\ tree # <<>> /\ tree \in Seq({tree[n] : n \in DOMAIN tree})
    /\ \A n \in DOMAIN tree :
        \/ tree[n].op = "leaf" /\ IsLeaf(tree[n].text, cpu)
        \/ tree[n].op = "ref" /\ tree[n].of \in 1 .. n - 1
        \/ tree[n].op \in BinaryOps /\ {tree[n].left, tree[n].right} \subseteq 1 .. n - 1
(* The expressions the evaluator does not read as C does: a dereference at *)
(* the left edge of a binary operator counts as 0 (expr.c:299), a star     *)
(* after a parenthesis is a product (expr.c:388), and == and != group to   *)
(* the right (expr.c:336).                                                 *)
Departs(tree) ==
    \E n \in DOMAIN tree :
        /\ tree[n].op \in BinaryOps
        /\ LET first == tree[tree[n].left].op
           IN  first = "ref" \/ (Level(first) = 2 /\ Level(tree[n].op) = 2)
=============================================================================
