----------------------------- MODULE LsuBypass -----------------------------
(***************************************************************************)
(* The two-entry queue in front of the load and store units                *)
(* (IP/Linux/backend/excute/lsu_bypass.sv).  It says it is ready only when *)
(* it is empty, and a request issued on that word arrives a cycle later,   *)
(* when another may have been left behind: hence two entries.              *)
(***************************************************************************)
EXTENDS Naturals

VARIABLES
    byMem,         \* mem_q: 0 for an entry that is not valid
    byRd, byWr,    \* read_pointer_q, write_pointer_q: one bit each
    byCnt          \* status_cnt_q: two bits
bypassVars == <<byMem, byRd, byWr, byCnt>>

InitBypass == byMem = [i \in 0 .. 1 |-> 0] /\ byRd = 0 /\ byWr = 0 /\ byCnt = 0

BypassReady == byCnt = 0

(* The request the units see; req is the one arriving, 0 for none.         *)
Served(req) == IF byCnt = 0 THEN req ELSE byMem[byRd]

(* A slip: a request that is served as it arrives is kept as well.         *)
BypassEdgeKeeps(req, pop, flush) ==
    LET stored == IF req # 0 THEN [byMem EXCEPT ![byWr] = req] ELSE byMem
        gone   == pop /\ byCnt # 0
    IN  /\ byMem' = IF flush THEN [i \in 0 .. 1 |-> 0]
                    ELSE IF gone THEN [stored EXCEPT ![byRd] = 0] ELSE stored
        /\ byWr' = IF flush THEN 0 ELSE IF req # 0 THEN 1 - byWr ELSE byWr
        /\ byRd' = IF flush THEN 0 ELSE IF gone THEN 1 - byRd ELSE byRd
        /\ byCnt' = IF flush THEN 0
                    ELSE (byCnt + (IF req # 0 THEN 1 ELSE 0) + (IF gone THEN 3 ELSE 0)) % 4

(* One clock edge: the arrival first, then the pop, a flush over both; a   *)
(* pop of the empty queue counts below zero, as two bits do.               *)
BypassEdge(req, pop, flush) ==
    LET stored == IF req # 0 THEN [byMem EXCEPT ![byWr] = req] ELSE byMem
    IN  /\ byMem' = IF flush THEN [i \in 0 .. 1 |-> 0]
                    ELSE IF pop THEN [stored EXCEPT ![byRd] = 0] ELSE stored
        /\ byWr' = IF flush THEN 0 ELSE IF req # 0 THEN 1 - byWr ELSE byWr
        /\ byRd' = IF flush THEN 0 ELSE IF pop THEN 1 - byRd ELSE byRd
        /\ byCnt' = IF flush THEN 0
                    ELSE (byCnt + (IF req # 0 THEN 1 ELSE 0) + (IF pop THEN 3 ELSE 0)) % 4
=============================================================================
