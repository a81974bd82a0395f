-------------------------------- MODULE Fifo --------------------------------
(***************************************************************************)
(* The queue of IP/Linux/general/fifo.sv: a ring of Depth slots with two   *)
(* write ports, of which port 0 goes first, and one read port.  One step   *)
(* is one clock edge with the inputs of that cycle.                        *)
(***************************************************************************)
EXTENDS Naturals

CONSTANTS Depth, Data

(* amo_buffer.sv asks for a depth of 1 and leaves port 1 open; with both   *)
(* ports the subtraction DEPTH-2 needs a depth of 2.                       *)
ASSUME DepthAssumption == Depth \in Nat /\ Depth >= 2

VARIABLES
    slots,   \* fifo_q
    wr, rd,  \* wr_ptr_q, rd_ptr_q
    cnt      \* status_cnt_q
fifoVars == <<slots, wr, rd, cnt>>

Index == 0 .. Depth - 1

Full  == cnt = Depth
Empty == cnt = 0
Front == slots[rd]
Usage == cnt + 2 > Depth

(* A slip: the wrap of a pointer that moves by two, one slot late.         *)
AdvanceLate(p, n) == IF p + n > Depth THEN p + n - Depth ELSE p + n

(* A pointer n slots further, wrapping as the code's comparisons do.       *)
Advance(p, n) == IF p + n >= Depth THEN p + n - Depth ELSE p + n

Pops(pop) == pop /\ ~Empty

(* How many words the cycle takes: room is what it was before the pop.     *)
Pushes(push0, push1) ==
    CASE push0 /\ push1 /\ cnt <= Depth - 2                        -> 2
      [] (push0 \/ push1) /\ ~(push0 /\ push1 /\ cnt <= Depth - 2) /\ cnt < Depth -> 1
      [] OTHER                                                     -> 0

Filled(push0, d0, push1, d1) ==
    CASE Pushes(push0, push1) = 2 -> [slots EXCEPT ![wr] = d0, ![Advance(wr, 1)] = d1]
      [] Pushes(push0, push1) = 1 -> [slots EXCEPT ![wr] = IF push0 THEN d0 ELSE d1]
      [] Pushes(push0, push1) = 0 -> slots

(* A slip: the count of a cycle that both takes and gives.                 *)
TurnMiscounted(push0, d0, push1, d1, pop) ==
    /\ slots' = Filled(push0, d0, push1, d1)
    /\ wr' = Advance(wr, Pushes(push0, push1))
    /\ rd' = IF Pops(pop) THEN Advance(rd, 1) ELSE rd
    /\ cnt' = IF Pushes(push0, push1) > 0 THEN cnt + Pushes(push0, push1)
              ELSE IF Pops(pop) THEN cnt - 1 ELSE cnt

Turn(push0, d0, push1, d1, pop) ==
    /\ slots' = Filled(push0, d0, push1, d1)
    /\ wr' = Advance(wr, Pushes(push0, push1))
    /\ rd' = IF Pops(pop) THEN Advance(rd, 1) ELSE rd
    /\ cnt' = cnt + Pushes(push0, push1) - (IF Pops(pop) THEN 1 ELSE 0)

Flush ==
    /\ wr' = 0 /\ rd' = 0 /\ cnt' = 0
    /\ UNCHANGED slots

(* The slots are not reset: they start with whatever they hold.            *)
FifoInit ==
    /\ slots \in [Index -> Data]
    /\ wr = 0 /\ rd = 0 /\ cnt = 0

FifoNext ==
    \/ Flush
    \/ \E push0, push1, pop \in BOOLEAN : \E d0, d1 \in Data : Turn(push0, d0, push1, d1, pop)

FifoSpec == FifoInit /\ [][FifoNext]_fifoVars

-----------------------------------------------------------------------------
(* The pointers and the count stay in range and agree: the write pointer   *)
(* is count slots after the read pointer, also after wraps and in a cycle  *)
(* that writes two words and reads one.                                    *)
PointersAgree ==
    /\ slots \in [Index -> Data]
    /\ wr \in Index /\ rd \in Index /\ cnt \in 0 .. Depth
    /\ wr = Advance(rd, cnt)

(* What the ring holds, oldest first, is a bounded queue: nothing is lost, *)
(* duplicated or reordered, whatever the two writers and the reader do in  *)
(* the same cycle (fifo.sv:38-99).                                         *)
Contents == [i \in 1 .. cnt |-> slots[Advance(rd, i - 1)]]
Bounded == INSTANCE BoundedQueue WITH queue <- Contents
IsBoundedQueue == Bounded!Spec
=============================================================================
