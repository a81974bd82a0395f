------------------------------- MODULE QemuClock -------------------------------
(***************************************************************************)
(* The real-time clock and the ATA disk of the x86-qemu port               *)
(* (am/src/x86/qemu/ioe.c), which run while the processor reads them.      *)
(* timer_rtc reads one BCD register at a time and starts again when the    *)
(* second changed; disk_blkio moves one sector at a time.                  *)
(***************************************************************************)
EXTENDS Integers, Sequences

CONSTANTS StartDates,   \* bound: dates <<second, minute, hour, day, month, year - 2000>>
          MaxTicks,     \* bound: seconds that pass in one call of timer_rtc
          Sectors,      \* block numbers of the disk
          Transfers     \* bound: disk requests [write, blkno, data]; a read gives data for size


VARIABLES clock,        \* the date the chip holds
          ticks,
          rtc,          \* the caller: where it stands, what it read
          passed,       \* the dates since the call began
          disk,         \* the data of each sector
          request,      \* the last request and the buffer it left
          buffer,
          written       \* the data last written under each block number

clockVars == <<clock, ticks, rtc, passed>>
diskVars == <<disk, request, buffer, written>>

Units == <<60, 60, 24, 31, 12, 100>>    \* external: months of 31 days
Lowest == <<0, 0, 0, 1, 1, 0>>
Highest(i) == Units[i] - 1 + Lowest[i]
Dates == {d \in [1..6 -> Nat] : \A i \in 1..6 : d[i] \in Lowest[i] .. Highest(i)}
\* The date a second later: a unit that wraps carries into the next.
Wraps(d, i) == \A j \in 1..i : d[j] = Highest(j)
NextDate(d) ==
  [i \in 1..6 |-> IF Wraps(d, i) THEN Lowest[i] ELSE IF Wraps(d, i-1) THEN d[i] + 1 ELSE d[i]]

\* The chip holds a date, one pass over its registers takes less than a minute, and a
\* request stays on the disk, whose block numbers have 28 bits.
ASSUME QemuClockAssumption ==
  /\ StartDates \subseteq Dates
  /\ MaxTicks \in 0..59
  /\ \A s \in Sectors : s \in Nat /\ s < 268435456
  /\ \A req \in Transfers : /\ req.write \in BOOLEAN /\ req.blkno \in Nat
                            /\ \A i \in DOMAIN req.data : i \in Nat /\ req.blkno + i - 1 \in Sectors

Tick == /\ ticks < MaxTicks /\ rtc.pc \notin {"idle", "returned"} /\ ticks' = ticks + 1
        /\ clock' = NextDate(clock)
        /\ passed' = passed \cup {clock'}
        /\ UNCHANGED <<rtc, diskVars>>

\* read_rtc: the registers 0, 2, 4, 7, 8 and 9 hold two BCD digits each.
Register(i) == (clock[i] \div 10) * 16 + (clock[i] % 10)
read_rtc(i) == (Register(i) % 16) + (Register(i) \div 16) * 10
Date(d) == [d EXCEPT ![6] = @ + 2000]

timer_rtc ==
  /\ rtc.pc = "idle"
  /\ rtc' = [pc |-> "reading", read |-> <<>>] /\ passed' = {clock}
  /\ UNCHANGED <<clock, ticks, diskVars>>
read_rtc_async ==
  /\ rtc.pc = "reading"
  /\ rtc' = LET read == Append(rtc.read, read_rtc(Len(rtc.read) + 1))
            IN  IF Len(read) < 6 THEN [rtc EXCEPT !.read = read]
                ELSE [pc |-> "again", read |-> Date(read)]
  /\ UNCHANGED <<clock, ticks, passed, diskVars>>
\* do ... while (tmp != rtc->second)
SameSecondOnce(tmp, read) == TRUE      \* a slip: the date is read once
SameSecond(tmp, read) == tmp = read[1]
Reread ==
  /\ rtc.pc = "again"
  /\ rtc' = IF SameSecond(read_rtc(1), rtc.read) THEN [rtc EXCEPT !.pc = "returned"]
            ELSE [pc |-> "reading", read |-> <<>>]
  /\ UNCHANGED <<clock, ticks, passed, diskVars>>
----------------------------------------------------------------------------
(***************************************************************************)
(* disk_blkio: the block number goes out in four bytes, the last with the  *)
(* bits that select the drive and LBA; then the words of one sector.       *)
(***************************************************************************)
Byte(n, place) == (n \div place) % 256
SelectedLba(r3, r4, r5, r6) == r3 + 256 * r4 + 65536 * r5 + 16777216 * (r6 % 16)
SentBlock(blkno) == SelectedLba(Byte(blkno, 1), Byte(blkno, 256), Byte(blkno, 65536),
                                224 + (Byte(blkno, 16777216) % 32))
\* The loop of disk_blkio: block number i of the request goes to or comes from place i.
SentBlocks(req) == [i \in DOMAIN req.data |-> SentBlock(req.blkno + i - 1)]
disk_blkio(req) ==
  LET sent_to == SentBlocks(req)
  IN  /\ rtc.pc = "idle"
      /\ IF req.write
         THEN /\ disk' = [s \in Sectors |->
                           IF \E i \in DOMAIN sent_to : sent_to[i] = s
                           THEN req.data[CHOOSE i \in DOMAIN sent_to : sent_to[i] = s] ELSE disk[s]]
              /\ buffer' = req.data
         ELSE /\ buffer' = [i \in DOMAIN sent_to |-> disk[sent_to[i]]] /\ UNCHANGED disk
      /\ request' = req
      /\ written' = IF ~req.write THEN written
                    ELSE [s \in Sectors |-> IF s - req.blkno + 1 \in DOMAIN req.data
                                            THEN req.data[s - req.blkno + 1] ELSE written[s]]
      /\ UNCHANGED clockVars

ClockAt(date) ==
  /\ clock = date /\ ticks = 0 /\ passed = {}
  /\ rtc = [pc |-> "idle", read |-> <<>>]
  /\ disk = [s \in Sectors |-> 0] /\ written = disk /\ buffer = <<>>
  /\ request = [write |-> FALSE, blkno |-> 0, data |-> <<>>]
ClockInit == \E date \in StartDates : ClockAt(date)
ClockNext == Tick \/ timer_rtc \/ read_rtc_async \/ Reread \/ \E req \in Transfers : disk_blkio(req)
ClockSpec == ClockInit /\ [][ClockNext]_<<clockVars, diskVars>>
----------------------------------------------------------------------------
\* The date timer_rtc returns is one the chip held during the call, also when a
\* second, a day or a year ended between two registers (ioe.c:90); a block read from
\* the disk is the one last written under its number (ioe.c:281).
ClockRight ==
  /\ rtc.pc = "returned" => rtc.read \in {Date(d) : d \in passed}
  /\ \A i \in DOMAIN buffer : ~request.write => buffer[i] = written[request.blkno + i - 1]
=============================================================================
