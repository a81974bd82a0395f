--------------------------------- MODULE Sdb ---------------------------------
(***************************************************************************)
(* The simulator as its user meets it: start-up (monitor.c), the prompt    *)
(* and its commands (sdb.c), and the program's run behind c and si (sim.c, *)
(* whose cycles are the subject of Difftest).  A line is a command and its *)
(* argument, if any: num, the characters of a number, or text, the lexemes *)
(* of an expression, or for x both.  The table of watchpoints, which w and *)
(* d change, has a specification of its own, WpSpec.                       *)
(***************************************************************************)
EXTENDS Expr

CONSTANTS
    Users,        \* the users of a session
    LinesOf(_),   \* what each may type
    Options,      \* the command lines the simulator may be started with
    Images,       \* sizes the image file may have; 0 is an empty file, NoFile none
    NoFile,
    BuiltIn,      \* bytes of the image in monitor.c
    DefaultSize,  \* the size load_img gives when there is no image
    Word,         \* the word in memory at an address
    Regs,         \* the registers' values: a set of functions
    Unbounded,    \* the argument of c: a bound on one run of the program
    WpNumber,     \* places for watchpoints
    Texts,        \* the expressions that may be watched
    NoText
ASSUME WpAssumption == WpNumber \in Nat
(* The built-in image fits in what the reference is given without a file.  *)
ASSUME SizeAssumption ==
    /\ PmemLeft \in Int /\ PmemRight \in Int
    /\ BuiltIn \in Nat /\ DefaultSize \in Nat /\ BuiltIn <= DefaultSize
    /\ \A size \in Images : size # NoFile => size \in Nat
(* What a word, a place in memory and a register hold are numbers; a line  *)
(* that carries a tree asks for it, as C writes it.                        *)
ASSUME WordsAssumption ==
    /\ Modulus \in Nat \ {0}
    /\ \A a \in PmemLeft .. PmemRight - 3 : Word[a] \in Int
    /\ \A r \in Regs : \A x \in DOMAIN r : r[x] \in Int
Asks(l) == l.cmd = "p" /\ "tree" \in DOMAIN l
ASSUME LinesAssumption ==
    \A u \in Users : \A l \in LinesOf(u) :
        Asks(l) => /\ l.arg = "text" /\ l.text = Written(l.tree)
                   /\ \A r \in Regs : IsTree(l.tree, r)
                   /\ ~Departs(l.tree)

VARIABLES
    phase,     \* "start", "prompt", "running" (in cpu_exec), "closed", "crashed"
    batch,     \* is_batch_mode
    sim,       \* sim_state.state
    left,      \* instructions cpu_exec has still to execute
    cpu,       \* cpu: the registers an expression reads
    loaded,    \* whose byte lies at each address of memory
    given,     \* the addresses copied to the reference
    line,      \* the line being answered
    answer,    \* what p printed
    user,      \* who types
    wp,        \* wp[i].keep, wp[i].expr and wp[i].value
    wpCnt      \* wp_cnt: the places below it have been given out
wpVars == <<wp, wpCnt>>
sdbVars == <<phase, batch, sim, left, cpu, loaded, given, line, answer, user>>
allVars == <<sdbVars, wpVars>>

NoLine == [cmd |-> "none"]
Pmem == PmemLeft .. PmemRight

-----------------------------------------------------------------------------
(* The table of watchpoints (watchpoint.c).                                *)
Entry == [keep : {0, 1}, expr : Texts \cup {NoText}, value : Int]
Entries == 1 .. WpNumber
Kept == {i \in Entries : wp[i].keep = 1}

wp_init ==
    /\ wpCnt = 0
    /\ wp = [i \in Entries |-> [keep |-> 0, expr |-> NoText, value |-> 0]]

(* wp_add_watched: the text is copied before it is evaluated, and stays in *)
(* the free entry when that fails.  A value of type int stands for the     *)
(* evaluation, ok for its success.                                         *)
Full == wpCnt >= WpNumber
AddRefused == Full /\ UNCHANGED wpVars
(* A slip: kept before it is known to have a value.                        *)
AddFailsKept(text) ==
    /\ ~Full
    /\ wp' = [wp EXCEPT ![wpCnt + 1].expr = text, ![wpCnt + 1].keep = 1]
    /\ UNCHANGED wpCnt
AddFails(text) ==
    /\ ~Full
    /\ wp' = [wp EXCEPT ![wpCnt + 1].expr = text]
    /\ UNCHANGED wpCnt
Add(text, value) ==
    /\ ~Full
    /\ wp' = [wp EXCEPT ![wpCnt + 1] = [keep |-> 1, expr |-> text, value |-> value]]
    /\ wpCnt' = wpCnt + 1

(* A slip: the place given back, as if the last one had been deleted.      *)
DeleteCounted(n) ==
    IF n \in Kept
    THEN wp' = [wp EXCEPT ![n].keep = 0] /\ wpCnt' = wpCnt - 1
    ELSE UNCHANGED wpVars
Delete(n) ==
    IF n \in Kept
    THEN wp' = [wp EXCEPT ![n].keep = 0] /\ UNCHANGED wpCnt
    ELSE UNCHANGED wpVars

WpNext ==
    \/ AddRefused
    \/ \E text \in Texts : AddFails(text) \/ \E v \in Int : Add(text, v)
    \/ \E n \in Int : Delete(n)
WpSpec == wp_init /\ [][WpNext]_wpVars

-----------------------------------------------------------------------------
(* Leaving a command for the prompt, or the process.                       *)
Returns == phase' = "prompt" /\ UNCHANGED <<batch, sim, left, cpu, loaded, given>>
Crash == phase' = "crashed" /\ UNCHANGED <<batch, sim, left, cpu, loaded, given, answer, wpVars>>
Close == phase' = "closed" /\ UNCHANGED <<batch, sim, left, cpu, loaded, given, answer, wpVars>>

-----------------------------------------------------------------------------
(* parse_args: options count up to the image, which ends them; one that is *)
(* not known prints the usage and exits.                                   *)
Counted(opts) ==
    {i \in DOMAIN opts : \A j \in 1 .. i - 1 : opts[j] \notin {"image", "other"}}
Has(opts, o) == \E i \in Counted(opts) : opts[i] = o

(* init_mem fills memory with one random byte; load_builded_img copies its *)
(* image, then load_img the user's over it.  Neither looks at the size of  *)
(* memory.                                                                 *)
Filled == [a \in Pmem |-> "fill"]
Copied(m, size, whose) ==
    [a \in Pmem |-> IF a - PmemLeft < size THEN whose ELSE m[a]]
load_img(m, size) == IF size = NoFile THEN m ELSE Copied(m, size, "image")
(* A slip: the size of the built-in image given for every image.           *)
img_sizeDefault(size) == IF size = NoFile THEN DefaultSize ELSE BuiltIn
img_size(size) == IF size = NoFile THEN DefaultSize ELSE size

init_monitor ==
    /\ phase = "start"
    /\ \E opts \in Options, size \in Images, logOpens \in BOOLEAN :
        LET image == IF Has(opts, "image") THEN size ELSE NoFile
            usage == Has(opts, "other")
            fails == \/ Has(opts, "log") /\ ~logOpens
                     \/ Has(opts, "image") /\ size \in {NoFile, 0}
        IN  /\ Has(opts, "image") => image = NoFile \/ image <= PmemRight - PmemLeft + 1
            /\ phase' = IF usage THEN "closed" ELSE IF fails THEN "crashed" ELSE "prompt"
            /\ batch' = (Has(opts, "batch") /\ ~usage)
            /\ IF usage \/ fails THEN UNCHANGED <<loaded, given>>
               ELSE /\ loaded' = load_img(Copied(Filled, BuiltIn, "builtin"), image)
                    /\ given' = {a \in Pmem : a - PmemLeft < img_size(image)}
    /\ UNCHANGED <<sim, left, cpu, line, answer, wpVars>>

-----------------------------------------------------------------------------
(* cpu_exec: refused once the program has ended.                           *)
cpu_exec(n) ==
    IF sim \in {"END", "ABORT"} THEN Returns
    ELSE phase' = "running" /\ sim' = "RUNNING" /\ left' = n /\ UNCHANGED <<batch, cpu, loaded, given>>

Mainloop(cmds) ==
    /\ phase = "prompt" /\ ~batch
    /\ line' \in {l \in LinesOf(user) : l.cmd \in cmds}
(* rl_gets gives no line at the end of input.                              *)
EndOfInput == phase = "prompt" /\ ~batch /\ line' = NoLine /\ Close
BatchMode ==
    /\ phase = "prompt" /\ batch /\ line.cmd # "c"
    /\ line' = [cmd |-> "c"] /\ cpu_exec(Unbounded) /\ UNCHANGED <<answer, wpVars>>
BatchEnds == phase = "prompt" /\ batch /\ line.cmd = "c" /\ Close /\ UNCHANGED line

(* help, info, clear, a blank line and a command not known change nothing. *)
cmd_shows == Mainloop({"help", "info", "clear", "blank", "unknown"}) /\ Returns /\ UNCHANGED <<answer, wpVars>>
cmd_c == Mainloop({"c"}) /\ cpu_exec(Unbounded) /\ UNCHANGED <<answer, wpVars>>
cmd_q == Mainloop({"q"}) /\ Close

(* arg2val: the process stops at anything but a digit, a blank included.   *)
Digits(arg) == \A i \in DOMAIN arg : \E n \in 1 .. 10 : arg[i] \in Glyphs[n]
arg2val(arg) == Number(arg, 10)

cmd_si ==
    /\ Mainloop({"si"})
    /\ CASE line'.arg = "none" -> cpu_exec(1) /\ UNCHANGED <<answer, wpVars>>
         [] line'.arg = "some" /\ Digits(line'.num) -> cpu_exec(arg2val(line'.num)) /\ UNCHANGED <<answer, wpVars>>
         [] OTHER -> Crash

get_expr_val(text) == expr(text, cpu, Word)

cmd_p ==
    /\ Mainloop({"p"})
    /\ IF line'.arg = "none" \/ get_expr_val(line'.text).died THEN Crash
       ELSE answer' = get_expr_val(line'.text) /\ Returns /\ UNCHANGED wpVars

(* get_memory_val looks at the first address only.                         *)
Readable(first, n) == \A i \in 0 .. n - 1 : first + 4 * i \in PmemLeft .. PmemRight - 3
cmd_x ==
    /\ Mainloop({"x"})
    /\ CASE line'.arg = "none" -> Returns /\ UNCHANGED <<answer, wpVars>>
         [] line'.arg = "some" /\ Digits(line'.num) /\ line'.text # <<>> ->
              LET value == get_expr_val(line'.text)
              IN  IF \/ value.died
                     \/ value.ok /\ value.v \in Pmem /\ ~Readable(value.v, arg2val(line'.num))
                  THEN Crash ELSE Returns /\ UNCHANGED <<answer, wpVars>>
         [] OTHER -> Crash

(* wp_add_watched evaluates the text only when there is a place for it.    *)
cmd_w ==
    /\ Mainloop({"w"})
    /\ CASE line'.arg \in {"none", "long"} -> Returns /\ UNCHANGED <<answer, wpVars>>
         [] OTHER ->
              LET value == get_expr_val(line'.text)
              IN  IF ~Full /\ value.died THEN Crash
                  ELSE /\ Returns /\ UNCHANGED answer
                       /\ \/ AddRefused
                          \/ ~value.ok /\ AddFails(line'.text)
                          \/ value.ok /\ Add(line'.text, value.v)
cmd_d ==
    /\ Mainloop({"d"})
    /\ CASE line'.arg = "none" -> Returns /\ UNCHANGED <<answer, wpVars>>
         [] line'.arg = "some" /\ Digits(line'.num) -> Delete(arg2val(line'.num)) /\ Returns /\ UNCHANGED answer
         [] OTHER -> Crash

-----------------------------------------------------------------------------
(* execute: an instruction of the program changes the registers, traps, or *)
(* ends the process (an address outside memory, a failed comparison).      *)
Instruction ==
    /\ phase = "running" /\ sim = "RUNNING" /\ left > 0
    /\ left' = left - 1
    /\ cpu' \in Regs /\ sim' \in {"RUNNING", "END"}
    /\ UNCHANGED <<phase, batch, loaded, given, line, answer, wpVars>>
ProgramExits == phase = "running" /\ sim = "RUNNING" /\ left > 0 /\ Close /\ UNCHANGED line
Stops ==
    /\ phase = "running" /\ (left = 0 \/ sim # "RUNNING")
    /\ phase' = "prompt"
    /\ sim' = IF sim = "RUNNING" THEN "STOP" ELSE sim
    /\ UNCHANGED <<batch, left, cpu, loaded, given, line, answer, wpVars>>

SdbInit ==
    /\ phase = "start" /\ batch = FALSE /\ sim = "STOP" /\ left = 0
    /\ cpu \in Regs /\ loaded = Filled /\ given = {}
    /\ line = NoLine /\ answer = Failed /\ user \in Users
    /\ wp_init
SdbNext ==
    /\ UNCHANGED user
    /\ \/ init_monitor \/ EndOfInput \/ BatchMode \/ BatchEnds
       \/ cmd_shows \/ cmd_c \/ cmd_q \/ cmd_si \/ cmd_p \/ cmd_x \/ cmd_w \/ cmd_d
       \/ Instruction \/ ProgramExits \/ Stops
SdbSpec == SdbInit /\ [][SdbNext]_allVars

-----------------------------------------------------------------------------
(* The reference is given every byte of the program the core will run: the *)
(* user's image whole, and no part of the built-in one where it lies past  *)
(* the end of a shorter image (monitor.c:26-43, 110-118).                  *)
ReferenceHasImage ==
    phase \in {"prompt", "running"} =>
        {a \in Pmem : loaded[a] = "image"} \subseteq given
        /\ ((\A a \in Pmem : loaded[a] # "image") => {a \in Pmem : loaded[a] = "builtin"} \subseteq given)

(* The answer to p is the value the expression has in C, in words of the   *)
(* simulator, for every expression outside the departures named in         *)
(* Departs; and the process dies of one only where C gives it no value     *)
(* (expr.c:104-370).                                                       *)
ExprRight ==
    Asks(line) =>
        /\ phase = "prompt" => ~Meaning(line.tree, cpu, Word).died /\ answer = Meaning(line.tree, cpu, Word)
        /\ phase = "crashed" => Meaning(line.tree, cpu, Word).died

(* The entries are given out in order: those from wpCnt on are free, so    *)
(* the next addition, which writes its text there before it knows whether  *)
(* it will succeed, writes over no watchpoint (watchpoint.c:31-49).        *)
WatchTable ==
    /\ wp \in [Entries -> Entry] /\ wpCnt \in 0 .. WpNumber
    /\ \A i \in Kept : i <= wpCnt /\ wp[i].expr \in Texts

(* A watchpoint that is kept changes only by being deleted: additions that *)
(* succeed, fail or are refused and deletions of others leave its text and *)
(* its value alone (watchpoint.c:31-69).                                   *)
WatchStable ==
    [][\A i \in Kept : wp'[i] \in {wp[i], [wp[i] EXCEPT !.keep = 0]}]_wpVars

(* 'WP is full, Please delete some watchpoints' (watchpoint.c:34): once    *)
(* some watchpoint is deleted the table is not full.                       *)
DeletingMakesRoom == [][Kept \ Kept' # {} => ~Full']_wpVars
=============================================================================
