--------------------------------- MODULE Htif ---------------------------------
(***************************************************************************)
(* The console of the spike port (am/src/riscv/spike/htif.c, atomic.h,     *)
(* trm.c): one hart and the host share the words tohost and fromhost.  The *)
(* host (external) takes a command by clearing tohost and answers through  *)
(* fromhost when that is clear.  On rv64 characters go to the console      *)
(* device; on rv32 each is a system call the hart waits for.               *)
(***************************************************************************)
EXTENDS Naturals, Integers, Sequences

CONSTANTS Chars,        \* bytes
          Xlens,        \* __riscv_xlen: 32 or 64, one for each build
          MaxSent,      \* bound: characters the program prints
          MaxTyped      \* bound: characters typed at the host

ASSUME HtifAssumption ==
  /\ Chars \subseteq 0..255 /\ Xlens \subseteq {32, 64}
  /\ MaxSent \in Nat /\ MaxTyped \in Nat

VARIABLES xlen,
          tohost, fromhost,     \* 0, or a word with dev, cmd and data
          console_buf,          \* htif_console_buf
          lock,                 \* htif_lock
          hart,                 \* where the hart stands and the word it sends
          keyboard,             \* host: keys typed and not delivered
          reads,                \* host: read commands not answered
          replies,              \* host: system calls not answered
          sent, shown,          \* characters printed and those the host showed
          typed, got            \* keys typed and those getchar returned

htifVars == <<xlen, tohost, fromhost, console_buf, lock, hart, keyboard, reads,
              replies, sent, shown, typed, got>>
hostVars == <<keyboard, reads, replies, shown, typed>>

Word(dev, cmd, data) == <<dev, cmd, data>>
Clear == <<>>
Dev(w) == w[1]
Cmd(w) == w[2]
Data(w) == w[3]
Idle == [pc |-> "idle", word |-> Clear]

\* __check_fromhost: take a word of the console device; anything else is a panic.
FromConsole(w) == Dev(w) = 1 /\ Cmd(w) \in {0, 1}
check_fromhost ==
  IF fromhost = Clear THEN UNCHANGED <<fromhost, console_buf, hart>>
  ELSE /\ fromhost' = Clear
       /\ console_buf' = IF FromConsole(fromhost) /\ Cmd(fromhost) = 0
                         THEN 1 + Data(fromhost) ELSE console_buf
       /\ hart' = IF FromConsole(fromhost) THEN hart ELSE [hart EXCEPT !.pc = "panic"]

Call(pc, word) == /\ hart.pc = "idle" /\ lock = 0 /\ lock' = -1
                  /\ hart' = [pc |-> pc, word |-> word]
\* htif_console_putchar, by the console device or by a system call.
htif_console_putchar(ch) ==
  /\ Len(sent) < MaxSent
  /\ sent' = Append(sent, ch)
  /\ IF xlen = 64 THEN Call("send", Word(1, 1, ch)) ELSE Call("syscall", Word(0, 0, ch))
  /\ UNCHANGED <<xlen, tohost, fromhost, console_buf, got, hostVars>>
\* htif_console_getchar up to its call of __set_tohost.  It answers ch - 1: -1 at the
\* first call and -2 whenever no key came.
htif_console_getchar ==
  /\ xlen = 64 /\ Call("getchar", Clear)
  /\ UNCHANGED <<xlen, tohost, fromhost, console_buf, sent, got, hostVars>>
Getchar ==
  /\ hart.pc = "getchar"
  /\ LET ch == IF fromhost # Clear /\ Cmd(fromhost) = 0 THEN 1 + Data(fromhost) ELSE console_buf
     IN  /\ console_buf' = -1
         /\ hart' = IF fromhost # Clear /\ ~FromConsole(fromhost) THEN [Idle EXCEPT !.pc = "panic"]
                    ELSE IF ch >= 0 THEN [pc |-> "send", word |-> Word(1, 0, 0)] ELSE Idle
         /\ lock' = IF ch >= 0 THEN lock ELSE 0
         /\ got' = IF ch >= 1 THEN Append(got, ch - 1) ELSE got
  /\ fromhost' = Clear
  /\ UNCHANGED <<xlen, tohost, sent, hostVars>>
\* One turn of the loop of __set_tohost.
SetTohost(pc, after) ==
  /\ hart.pc = pc
  /\ IF tohost # Clear THEN check_fromhost /\ UNCHANGED <<tohost, lock>>
     ELSE /\ tohost' = hart.word
          /\ hart' = after /\ lock' = IF after = Idle THEN 0 ELSE lock
          /\ UNCHANGED <<fromhost, console_buf>>
  /\ UNCHANGED <<xlen, sent, got, hostVars>>
Send == SetTohost("send", Idle)
\* do_tohost_fromhost: send, then wait for the answer to this command.
SendSyscall == SetTohost("syscall", [hart EXCEPT !.pc = "reply"])
WaitReply ==
  /\ hart.pc = "reply" /\ fromhost # Clear
  /\ IF Dev(fromhost) = Dev(hart.word) /\ Cmd(fromhost) = Cmd(hart.word)
     THEN fromhost' = Clear /\ hart' = Idle /\ lock' = 0 /\ UNCHANGED console_buf
     ELSE check_fromhost /\ UNCHANGED lock
  /\ UNCHANGED <<xlen, tohost, sent, got, hostVars>>
\* halt: the exit command overwrites whatever tohost holds.
htif_poweroff ==
  /\ hart.pc = "idle"
  /\ hart' = [Idle EXCEPT !.pc = "off"] /\ fromhost' = Clear /\ tohost' = Word(0, 0, 1)
  /\ UNCHANGED <<xlen, console_buf, lock, sent, got, hostVars>>
----------------------------------------------------------------------------
(***************************************************************************)
(* The host, from how htif.c uses it.                                      *)
(***************************************************************************)
Type(ch) == /\ hart.pc # "off" /\ Len(typed) < MaxTyped
            /\ typed' = Append(typed, ch) /\ keyboard' = Append(keyboard, ch)
            /\ UNCHANGED <<xlen, tohost, fromhost, console_buf, lock, hart, reads, replies,
                           sent, shown, got>>
TakeCommand ==
  /\ hart.pc # "off" /\ tohost # Clear /\ tohost' = Clear
  /\ reads' = IF Dev(tohost) = 1 /\ Cmd(tohost) = 0 THEN reads + 1 ELSE reads
  /\ replies' = IF Dev(tohost) = 0 THEN replies + 1 ELSE replies
  /\ shown' = IF Dev(tohost) = 1 /\ Cmd(tohost) = 0 THEN shown ELSE Append(shown, Data(tohost))
  /\ UNCHANGED <<xlen, fromhost, console_buf, lock, hart, keyboard, sent, typed, got>>
Answer ==
  /\ hart.pc # "off" /\ fromhost = Clear
  /\ \/ /\ reads > 0 /\ keyboard # <<>>
        /\ fromhost' = Word(1, 0, Head(keyboard))
        /\ reads' = reads - 1 /\ keyboard' = Tail(keyboard) /\ UNCHANGED replies
     \/ /\ replies > 0
        /\ fromhost' = Word(0, 0, 1)
        /\ replies' = replies - 1 /\ UNCHANGED <<reads, keyboard>>
  /\ UNCHANGED <<xlen, tohost, console_buf, lock, hart, sent, shown, typed, got>>

HtifReset(width) ==
  /\ xlen = width /\ tohost = Clear /\ fromhost = Clear /\ console_buf = 0 /\ lock = 0
  /\ hart = Idle /\ keyboard = <<>> /\ reads = 0 /\ replies = 0
  /\ sent = <<>> /\ shown = <<>> /\ typed = <<>> /\ got = <<>>
HtifInit == \E width \in Xlens : HtifReset(width)
HtifNext ==
  \/ \E ch \in Chars : htif_console_putchar(ch) \/ Type(ch)
  \/ htif_console_getchar \/ Getchar \/ Send \/ SendSyscall \/ WaitReply \/ htif_poweroff
  \/ TakeCommand \/ Answer
HtifSpec == HtifInit /\ [][HtifNext]_htifVars
----------------------------------------------------------------------------
\* Words under way: what the buffer, fromhost and tohost hold of either stream.
Buffered == IF console_buf >= 1 THEN <<console_buf - 1>> ELSE <<>>
Arriving == IF fromhost # Clear /\ Dev(fromhost) = 1 THEN <<Data(fromhost)>> ELSE <<>>
Writes(w) == w # Clear /\ (Dev(w) = 0 \/ Cmd(w) = 1)
Leaving == IF Writes(tohost) THEN <<Data(tohost)>> ELSE <<>>
Waiting == IF hart.pc \in {"send", "syscall"} /\ Writes(hart.word) THEN <<Data(hart.word)>> ELSE <<>>

\* No key and no character is lost, doubled or reordered on the way through the two
\* words and the one-place buffer, and no answer meets __check_fromhost that it does
\* not expect (htif.c:27); only the last character can be lost, when halt overwrites
\* it before the host took it (htif.c:109), and never on rv32.
HtifRight ==
  /\ hart.pc # "panic"
  /\ hart.pc # "off" => /\ typed = got \o Buffered \o Arriving \o keyboard
                        /\ sent = shown \o Leaving \o Waiting
  /\ hart.pc = "off" => \/ sent = shown
                        \/ xlen = 64 /\ SubSeq(sent, 1, Len(sent) - 1) = shown
=============================================================================
