------------------------------- MODULE QemuBoot -------------------------------
(***************************************************************************)
(* How the x86-qemu port starts (am/src/x86/qemu/boot/main.c and the part  *)
(* of trm.c the first processor runs): load_kernel copies the argument and *)
(* the segments of the ELF file from the disk, sector by sector, and       *)
(* __am_lapic_init counts the processors in the table of the BIOS.  An     *)
(* address is a number of units, SectorUnits of which fill a sector.       *)
(***************************************************************************)
EXTENDS Naturals, Integers, Sequences, FiniteSets

CONSTANTS SectorUnits,  \* units of a sector (SECTSIZE)
          MemoryUnits,  \* bound: the memory that is modelled
          Images,       \* bound: the program headers of an ELF file
          MpTables,     \* bound: the entries of the BIOS's table, "cpu" or "io"
          MaxCpu        \* MAX_CPU

VARIABLES booting,      \* where the first processor stands
          headers,      \* program headers of the file on the disk
          loaded,       \* how many of them load_elf has done
          memory,       \* each unit holds a unit of the disk, 0 or what was there
          mp_table, am_ncpu

bootVars == <<booting, headers, loaded, memory, mp_table, am_ncpu>>

\* MAINARG_ADDR and 0x8000 are below the program; a unit of the disk is named by its
\* number plus one, and the ELF file follows the boot sector and the argument.
ArgSectors == 2
MainargAddr == 0
ElfAddr == ArgSectors * SectorUnits
ProgramAddr == ElfAddr + SectorUnits
Junk == -1

\* A file is linked above what the loader uses (-Ttext-segment in scripts/platform/qemu.mk)
\* and what is modelled of memory holds it.
Headers == [paddr : Nat, offset : Nat, filesz : Nat, memsz : Nat]
ASSUME QemuBootAssumption ==
  /\ SectorUnits \in Nat \ {0} /\ MemoryUnits \in Nat /\ MaxCpu \in Nat
  /\ ProgramAddr <= MemoryUnits
  /\ \A phs \in Images : /\ phs \in Seq(Headers)
                         /\ \A i \in DOMAIN phs : /\ phs[i].filesz <= phs[i].memsz
                                                 /\ ProgramAddr <= phs[i].paddr
                                                 /\ phs[i].paddr + phs[i].memsz <= MemoryUnits
  /\ \A table \in MpTables : table \in Seq({"cpu", "io"})

FileUnit(offset) == 1 + (ArgSectors + 1) * SectorUnits + offset
ArgUnit(i) == 1 + SectorUnits + i

\* copy_from_disk: whole sectors, from the sector that holds the first byte on.
RoundDown(addr) == addr - (addr % SectorUnits)
FirstSector(disk_offset) == (disk_offset \div SectorUnits) + ArgSectors + 1
copy_from_disk(m, buf, nbytes, disk_offset) ==
  LET start == RoundDown(buf)
      sectors == (buf + nbytes - start + SectorUnits - 1) \div SectorUnits
  IN  [a \in DOMAIN m |->
         IF a \in start .. start + sectors * SectorUnits - 1
         THEN 1 + FirstSector(disk_offset) * SectorUnits + (a - start) ELSE m[a]]
load_program(m, ph) ==
  LET copied == copy_from_disk(m, ph.paddr, ph.filesz, ph.offset)
  IN  [a \in DOMAIN m |->
         IF a \in ph.paddr + ph.filesz .. ph.paddr + ph.memsz - 1 THEN 0 ELSE copied[a]]

\* load_kernel on the first processor: argument and ELF header, then each segment.
load_kernel ==
  /\ booting = "bios" /\ booting' = "load_elf"
  /\ memory' = copy_from_disk(copy_from_disk(memory, MainargAddr, ArgSectors * SectorUnits,
                                             -(ArgSectors * SectorUnits)),
                              ElfAddr, SectorUnits, 0)
  /\ UNCHANGED <<headers, loaded, mp_table, am_ncpu>>
load_elf ==
  /\ booting = "load_elf"
  /\ IF loaded < Len(headers)
     THEN /\ memory' = load_program(memory, headers[loaded + 1])
          /\ loaded' = loaded + 1 /\ UNCHANGED booting
     ELSE booting' = "_start_c" /\ UNCHANGED <<loaded, memory>>
  /\ UNCHANGED <<headers, mp_table, am_ncpu>>

\* __am_lapic_init: an entry is 8 bytes, that of a processor 20, so that entry n+1 is
\* at EntryAt(table, n); the walk stops at the end of the table.
EntryAt(table, n) == 8 * n + 12 * Cardinality({i \in 1..n : table[i] = "cpu"})
EntryOf(table, ptr) == {i \in DOMAIN table : EntryAt(table, i - 1) = ptr}
Skip(e) == IF e = "cpu" THEN 12 ELSE 0
CountCpus(table) ==
  LET scan[ptr \in 0 .. EntryAt(table, Len(table)) + 20] ==
        IF ptr >= EntryAt(table, Len(table)) THEN 0
        ELSE LET here == EntryOf(table, ptr)
                 e == IF here = {} THEN "inside an entry" ELSE table[CHOOSE i \in here : TRUE]
             IN  (IF e = "cpu" THEN 1 ELSE 0) + scan[ptr + 8 + Skip(e)]
  IN  scan[0]
am_lapic_init ==
  /\ booting = "_start_c"
  /\ IF CountCpus(mp_table) > MaxCpu THEN booting' = "panic" /\ UNCHANGED am_ncpu
     ELSE booting' = "main" /\ am_ncpu' = CountCpus(mp_table)
  /\ UNCHANGED <<headers, loaded, memory, mp_table>>

PowerOn(phs, table) ==
  /\ booting = "bios" /\ headers = phs /\ loaded = 0 /\ am_ncpu = 0
  /\ memory = [a \in 0..MemoryUnits-1 |-> Junk] /\ mp_table = table
BootInit == \E phs \in Images, table \in MpTables : PowerOn(phs, table)
BootNext == load_kernel \/ load_elf \/ am_lapic_init
BootSpec == BootInit /\ [][BootNext]_bootVars
----------------------------------------------------------------------------
\* Headers the loader can serve: each address and file offset agree modulo a sector,
\* no segment ends in zeros in a sector a later one reads, and segments that share a
\* sector are as far apart in the file as in memory.
SectorsOf(from, to) == {RoundDown(a) : a \in from .. to - 1}
Reads(ph) == LET ed == ph.paddr + ph.filesz
             IN  IF RoundDown(ph.paddr) < ed THEN SectorsOf(RoundDown(ph.paddr), ed) ELSE {}
Spans(ph) == SectorsOf(ph.paddr, ph.paddr + ph.memsz)
Loadable(phs) ==
  /\ \A i \in DOMAIN phs : phs[i].paddr % SectorUnits = phs[i].offset % SectorUnits
  /\ \A i \in DOMAIN phs : \A j \in i+1 .. Len(phs) :
       /\ phs[i].paddr + phs[i].memsz <= phs[j].paddr
       /\ Spans(phs[i]) \cap Reads(phs[j]) # {} =>
            /\ phs[i].memsz = phs[i].filesz
            /\ phs[j].paddr - phs[i].paddr = phs[j].offset - phs[i].offset

\* When the program starts, every segment is in memory with its zeros, the argument
\* is intact and all processors of the table are counted: no sector rounded up or
\* down spoils another segment (main.c:26), the walk meets every entry (trm.c:76).
Placed(ph) ==
  /\ \A i \in 0 .. ph.filesz-1 : memory[ph.paddr + i] = FileUnit(ph.offset + i)
  /\ \A i \in ph.filesz .. ph.memsz-1 : memory[ph.paddr + i] = 0
BootRight ==
  booting = "main" =>
    /\ Loadable(headers) => \A i \in DOMAIN headers : Placed(headers[i])
    /\ \A i \in 0 .. ArgSectors * SectorUnits - 1 : memory[MainargAddr + i] = ArgUnit(i)
    /\ am_ncpu = Cardinality({i \in DOMAIN mp_table : mp_table[i] = "cpu"})
=============================================================================
