---------------------------- MODULE StoreProps ----------------------------
(***************************************************************************)
(* What the store path promises, and the counters and rings it rests on.   *)
(***************************************************************************)
EXTENDS StoreUnit

Ids == 1 .. MaxStores
Done == {i \in DOMAIN inFlight : inFlight[i].res = "done"}

(* The speculative ring holds exactly the stores whose result the          *)
(* scoreboard has and that have not retired, in order, and counts them;    *)
(* it is never written over, although ready_o is already given on the      *)
(* count after this cycle's push and commit (store_buffer.sv:97).          *)
SpeculativeSound ==
    /\ Done = 1 .. specCnt /\ specCnt <= SpecDepth
    /\ specWr = (specRd + specCnt) % SpecDepth
    /\ \A k \in 0 .. SpecDepth - 1 :
         LET e == specQueue[(specRd + k) % SpecDepth]
         IN  IF k < specCnt THEN e = Entry(inFlight[k + 1].id) ELSE ~e.valid

(* The committed ring holds exactly the stores that retired and are not    *)
(* yet written, in order: its counter, on which fences and atomics wait    *)
(* (no_st_pending_o), is zero only when all are written.                   *)
CommittedSound ==
    /\ Len(retired) = Len(written) + comCnt /\ comCnt <= CommitDepth
    /\ comWr = (comRd + comCnt) % CommitDepth
    /\ \A k \in 0 .. CommitDepth - 1 :
         LET e == comQueue[(comRd + k) % CommitDepth]
         IN  IF k < comCnt THEN e = Entry(retired[Len(written) + k + 1]) ELSE ~e.valid
    /\ \A i \in DOMAIN written : written[i] = retired[i]

(* The bypass never loses a request and never serves one twice: the stores *)
(* without a result are, in order, the one in the unit's registers, those  *)
(* in the bypass and the one arriving.                                     *)
Busy == One(state = "VALID_STORE")
Arriving == One(request # 0)
Waits(s, i) == inFlight[specCnt + i].id = s
BypassSound ==
    /\ Len(inFlight) = specCnt + Busy + byCnt + Arriving
    /\ Busy = 1 => Waits(held, 1)
    /\ IF byCnt >= 1 THEN Waits(byMem[byRd], Busy + 1) ELSE byMem[byRd] = 0
    /\ IF byCnt = 2 THEN Waits(byMem[1 - byRd], Busy + 2) ELSE byMem[1 - byRd] = 0
    /\ Arriving = 1 => Waits(request, Busy + byCnt + 1)

(* A load to the address of an older store never slips past it: from the   *)
(* cycle after the store leaves the bypass until the cache has it, the     *)
(* page-offset check finds it (store_buffer.sv:144-163).                   *)
LoadsSeeStores ==
    LET arriving == IF state = "VALID_STORE" THEN held ELSE 0
        inside == {inFlight[i].id : i \in Done}
                    \cup {retired[i] : i \in Len(written) + 1 .. Len(retired)}
                    \cup ({arriving} \ {0})
    IN  \A s \in inside : Matches(s, arriving)

(* The cache is written by the retired stores, each once and in order.     *)
Order == INSTANCE StoreOrder WITH StoreIds <- Ids
StoresInOrder == Order!Spec

(* What "the pending store is committed" (commit_stage.sv:44) and "no      *)
(* unfinished speculation enters the commit queue" (store_unit.sv:13) say: *)
(* whatever the committed ring holds has retired.                          *)
OnlyRetiredStored ==
    \A i \in DOMAIN comQueue : comQueue[i].valid =>
        \E k \in DOMAIN retired : retired[k] = comQueue[i].store

-----------------------------------------------------------------------------
(* Fairness: the clock runs; a DTLB that is asked again and again hits,    *)
(* both while the unit waits for it and when it looks at a store; the      *)
(* cache grants; and the commit pointer comes to a store whose result is   *)
(* valid.  Nothing promises that other instructions flush, or stop to.     *)
Ticking == \E send, hit, go, grant \in BOOLEAN, ex \in Exceptions :
              Cycle(send, hit, ex, go, FALSE, grant)
Hitting(where) == \E send, go, other, grant \in BOOLEAN, ex \in Exceptions :
                     where /\ Cycle(send, TRUE, ex, go, other, grant)
Granting == \E send, hit, go, other \in BOOLEAN, ex \in Exceptions :
               comQueue[comRd].valid /\ Cycle(send, hit, ex, go, other, TRUE)
Going    == \E send, hit, grant \in BOOLEAN, ex \in Exceptions :
               Commits(TRUE) /\ Cycle(send, hit, ex, TRUE, FALSE, grant)
FairSpec ==
    /\ Spec /\ WF_vars(Ticking)
    /\ SF_vars(Hitting(Looks)) /\ SF_vars(Hitting(~Looks /\ Asks))
    /\ SF_vars(Granting) /\ SF_vars(Going)

(* Every store that retires is written in the end.                         *)
RetiredStoresLand == \A n \in Ids : Len(retired) = n ~> Len(written) >= n

(* No store is stuck: each one retires or is squashed, also when both      *)
(* rings were full and the unit waited for room.                           *)
StoresFinish ==
    \A s \in Ids : (\E i \in DOMAIN inFlight : inFlight[i].id = s)
                     ~> ~(\E i \in DOMAIN inFlight : inFlight[i].id = s)
=============================================================================
