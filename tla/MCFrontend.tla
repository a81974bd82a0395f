----------------------------- MODULE MCFrontend -----------------------------
(***************************************************************************)
(* The ring of fifo.sv and the frontend in one instance.  The ring is of a *)
(* depth of its own and takes two words in a cycle, which the frontend     *)
(* never gives it: it turns alone, with any inputs, until the reset that   *)
(* lets the frontend go, and rests from then on.                           *)
(***************************************************************************)
EXTENDS Frontend, Fifo

Rests == /\ slots' = [i \in Index |-> CHOOSE d \in Data : TRUE]
         /\ wr' = 0 /\ rd' = 0 /\ cnt' = 0
RingTurns == npcRst /\ FifoNext /\ UNCHANGED vars
FrontendTurns == Next /\ Rests

MCInit == Init /\ FifoInit
MCNext == RingTurns \/ FrontendTurns
MCSpec == MCInit /\ [][MCNext]_<<vars, fifoVars>> /\ Fairness
=============================================================================
