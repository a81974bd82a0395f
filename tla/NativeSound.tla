------------------------------ MODULE NativeSound ------------------------------
(***************************************************************************)
(* The sound of the native port (am/src/native/ioe/audio.c).  The program  *)
(* writes into a pipe that does not block, SDL's thread calls audio_play,  *)
(* and both change count without a lock: a load and a store each.          *)
(***************************************************************************)
EXTENDS Integers, Sequences

CONSTANTS PipeSize,     \* bytes the pipe holds
          PipeBuf,      \* PIPE_BUF: a write of at most so many bytes is never cut
          StreamLen,    \* bytes SDL asks for
          MaxAsked      \* bound: bytes the program plays in all

ASSUME SoundAssumption ==
  /\ PipeSize \in Nat /\ PipeBuf \in 1..PipeSize
  /\ StreamLen \in Nat \ {0} /\ MaxAsked \in Nat

VARIABLES pipe,         \* the bytes in it, numbered in the order played
          count,
          player,       \* audio_play: where it is, nread, b, stream and the count it loaded
          writer,       \* audio_write: where it is, buf, n, nwrite and the count it loaded
          asked, heard, \* bytes asked to be played; the bytes handed to SDL
          mixed         \* a count was stored between the other thread's load and store, or
                        \* grew past StreamLen between audio_play's test and its use, or a
                        \* buffer was longer than PIPE_BUF

soundVars == <<pipe, count, player, writer, asked, heard, mixed>>
Smaller(a, b) == IF a < b THEN a ELSE b
Silence == [at |-> "idle", nread |-> 0, b |-> 0, stream |-> <<>>, saw |-> 0]
Resting == [at |-> "idle", buf |-> <<>>, n |-> 0, nwrite |-> 0, saw |-> 0]

\* audio_play has settled on nread bytes.
Settled(nread) ==
  player' = [Silence EXCEPT !.at = IF nread > 0 THEN "read" ELSE "load", !.nread = nread,
                            !.stream = [i \in 1..nread |-> 0]]
\* audio_play: all of len, unless count < len.
audio_play ==
  /\ player.at = "idle"
  /\ \/ count < StreamLen /\ player' = [Silence EXCEPT !.at = "size"]
     \/ count >= StreamLen /\ Settled(StreamLen)
  /\ UNCHANGED <<pipe, count, writer, asked, heard, mixed>>
\* nread = count: count is volatile and read again, and may be more than len by now.
PlaySize ==
  /\ player.at = "size"
  /\ Settled(count)
  /\ mixed' = (mixed \/ count > StreamLen)
  /\ UNCHANGED <<pipe, count, writer, asked, heard>>
\* read(rfd, stream, nread): to the start of stream each time.
PlayRead ==
  /\ player.at = "read"
  /\ LET n == Smaller(player.nread, Len(pipe))
         b == player.b + n
     IN  /\ pipe' = SubSeq(pipe, n + 1, Len(pipe))
         /\ player' = [player EXCEPT !.b = b, !.at = IF b < player.nread THEN "read" ELSE "load",
                         !.stream = [i \in DOMAIN @ |-> IF i <= n THEN pipe[i] ELSE @[i]]]
  /\ UNCHANGED <<count, writer, asked, heard, mixed>>
\* count -= nread; what was read past the end of SDL's stream is not heard.
PlayLoad ==
  /\ player.at = "load"
  /\ player' = [player EXCEPT !.saw = count, !.at = "store"]
  /\ UNCHANGED <<pipe, count, writer, asked, heard, mixed>>
PlayStore ==
  /\ player.at = "store"
  /\ count' = player.saw - player.nread
  /\ heard' = heard \o SubSeq(player.stream, 1, Smaller(Len(player.stream), StreamLen))
  /\ mixed' = (mixed \/ writer.at = "store") /\ player' = Silence
  /\ UNCHANGED <<pipe, writer, asked>>

\* __am_audio_play and audio_write.
audio_write(len) ==
  /\ writer.at = "idle" /\ asked + len <= MaxAsked
  /\ asked' = asked + len
  /\ writer' = [Resting EXCEPT !.at = "write", !.buf = [i \in 1..len |-> asked + i]]
  /\ mixed' = (mixed \/ len > PipeBuf)
  /\ UNCHANGED <<pipe, count, player, heard>>
\* write(wfd, buf, len): the whole buffer each time; 0 stands for -1.
PipeWrite ==
  /\ writer.at = "write"
  /\ LET len == Len(writer.buf)
         free == PipeSize - Len(pipe)
         n == IF len <= PipeBuf /\ len > free THEN 0 ELSE Smaller(len, free)
     IN  pipe' = pipe \o SubSeq(writer.buf, 1, n) /\ writer' = [writer EXCEPT !.n = n, !.at = "load"]
  /\ UNCHANGED <<count, player, asked, heard, mixed>>
\* count += n
WriteLoad ==
  /\ writer.at = "load"
  /\ writer' = [writer EXCEPT !.saw = count, !.at = "store"]
  /\ UNCHANGED <<pipe, count, player, asked, heard, mixed>>
WriteStore ==
  /\ writer.at = "store"
  /\ count' = writer.saw + writer.n
  /\ LET nwrite == writer.nwrite + writer.n
     IN  writer' = IF nwrite < Len(writer.buf) THEN [writer EXCEPT !.at = "write", !.nwrite = nwrite]
                   ELSE Resting
  /\ mixed' = (mixed \/ player.at = "store")
  /\ UNCHANGED <<pipe, player, asked, heard>>

\* __am_audio_ctrl, once, starts SDL's thread with count = 0.
SoundInit == /\ pipe = <<>> /\ count = 0 /\ player = Silence /\ writer = Resting
             /\ asked = 0 /\ heard = <<>> /\ mixed = FALSE
SoundNext == \/ audio_play \/ PlaySize \/ PlayRead \/ PlayLoad \/ PlayStore
             \/ \E len \in 1..MaxAsked : audio_write(len)
             \/ PipeWrite \/ WriteLoad \/ WriteStore
SoundSpec == SoundInit /\ [][SoundNext]_soundVars
----------------------------------------------------------------------------
\* As long as no change of count was lost, count did not grow past len between the two
\* reads of audio.c:20, and no buffer is longer than PIPE_BUF, every byte is heard once and
\* in order, and audio_play never waits for a byte that the pipe does not hold
\* (audio.c:20-36).
SoundRight ==
  ~mixed => /\ \A i \in 1..Len(heard) : heard[i] = i
            /\ player.at = "read" => Len(pipe) >= player.nread
            /\ player.at = "idle" /\ writer.at \in {"idle", "write"} => count = Len(pipe)
=============================================================================
