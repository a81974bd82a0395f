---------------------------- MODULE StoreBuffer ----------------------------
(***************************************************************************)
(* The store buffer of IP/Linux/backend/excute/store_buffer.sv: a ring of  *)
(* speculative stores and a ring of committed ones.  The commit of a store *)
(* copies the head of the first to the tail of the second; the second is   *)
(* drained into the data cache.  A store is a number: its place in the     *)
(* order of issue, which stands for its address and data.                  *)
(***************************************************************************)
EXTENDS Naturals, Sequences

CONSTANTS SpecDepth, CommitDepth

(* The pointers wrap at the width $clog2 gives them.                       *)
ASSUME DepthsArePowersOfTwo ==
    /\ SpecDepth \in {2, 4, 8, 16} /\ CommitDepth \in {2, 4, 8, 16}

VARIABLES
    specQueue, specRd, specWr, specCnt,   \* speculative_*_q
    comQueue, comRd, comWr, comCnt        \* commit_*_q
bufferVars == <<specQueue, specRd, specWr, specCnt, comQueue, comRd, comWr, comCnt>>

NoEntry == [store |-> 0, valid |-> FALSE]
Entry(s) == [store |-> s, valid |-> TRUE]

InitBuffer ==
    /\ specQueue = [i \in 0 .. SpecDepth - 1 |-> NoEntry]
    /\ comQueue = [i \in 0 .. CommitDepth - 1 |-> NoEntry]
    /\ specRd = 0 /\ specWr = 0 /\ specCnt = 0
    /\ comRd = 0 /\ comWr = 0 /\ comCnt = 0

One(b) == IF b THEN 1 ELSE 0

(* The counters are one bit wider than the pointers.                       *)
SpecCount(push, commit) == (specCnt + One(push) + 2 * SpecDepth - One(commit)) % (2 * SpecDepth)

(* ready_o: room for one more store after this cycle.                      *)
Ready(push, commit, flush) ==
    (IF flush THEN 0 ELSE SpecCount(push, commit)) < SpecDepth \/ commit
CommitReady == comCnt < CommitDepth
NoneStored  == comCnt = 0

(* A slip: a store on its way into the ring goes unseen.                   *)
MatchesRings(s, arriving) ==
    \/ \E i \in DOMAIN comQueue  : comQueue[i] = Entry(s)
    \/ \E i \in DOMAIN specQueue : specQueue[i] = Entry(s)

(* A load at the address of store s meets the store: in one of the rings,  *)
(* or on its way into the first.                                           *)
Matches(s, arriving) ==
    \/ \E i \in DOMAIN comQueue  : comQueue[i] = Entry(s)
    \/ \E i \in DOMAIN specQueue : specQueue[i] = Entry(s)
    \/ arriving = s

(* A slip: a flush that leaves the writer where it was.                    *)
SpeculateOn(push, s, commit, flush) ==
    LET pushed == IF push THEN [specQueue EXCEPT ![specWr] = Entry(s)] ELSE specQueue
        taken  == IF commit THEN [pushed EXCEPT ![specRd].valid = FALSE] ELSE pushed
    IN  /\ specQueue' = IF flush THEN [i \in DOMAIN taken |-> [taken[i] EXCEPT !.valid = FALSE]]
                        ELSE taken
        /\ specRd' = (specRd + One(commit)) % SpecDepth
        /\ specWr' = (specWr + One(push)) % SpecDepth
        /\ specCnt' = IF flush THEN 0 ELSE SpecCount(push, commit)

(* The speculative ring: the push first, then the commit, and a flush over *)
(* both, which sets the writer back to where the reader stood.             *)
Speculate(push, s, commit, flush) ==
    LET pushed == IF push THEN [specQueue EXCEPT ![specWr] = Entry(s)] ELSE specQueue
        taken  == IF commit THEN [pushed EXCEPT ![specRd].valid = FALSE] ELSE pushed
    IN  /\ specQueue' = IF flush THEN [i \in DOMAIN taken |-> [taken[i] EXCEPT !.valid = FALSE]]
                        ELSE taken
        /\ specRd' = (specRd + One(commit)) % SpecDepth
        /\ specWr' = IF flush THEN specRd ELSE (specWr + One(push)) % SpecDepth
        /\ specCnt' = IF flush THEN 0 ELSE SpecCount(push, commit)

(* The head of the committed ring, when the cache takes it this cycle.     *)
Drains(grant) == comQueue[comRd].valid /\ grant

(* Slips: the drained entry stays valid; the reader stays beside a commit. *)
DrainKeeps(grant, commit) ==
    /\ comQueue' = IF commit THEN [comQueue EXCEPT ![comWr] = specQueue[specRd]] ELSE comQueue
    /\ comRd' = (comRd + One(Drains(grant))) % CommitDepth
    /\ comWr' = (comWr + One(commit)) % CommitDepth
    /\ comCnt' = (comCnt + One(commit) + 2 * CommitDepth - One(Drains(grant))) % (2 * CommitDepth)

DrainStays(grant, commit) ==
    LET drained == IF Drains(grant) THEN [comQueue EXCEPT ![comRd].valid = FALSE] ELSE comQueue
    IN  /\ comQueue' = IF commit THEN [drained EXCEPT ![comWr] = specQueue[specRd]] ELSE drained
        /\ comRd' = (comRd + One(Drains(grant) /\ ~commit)) % CommitDepth
        /\ comWr' = (comWr + One(commit)) % CommitDepth
        /\ comCnt' = (comCnt + One(commit) + 2 * CommitDepth - One(Drains(grant))) % (2 * CommitDepth)

(* The committed ring: a flush leaves it alone.                            *)
Drain(grant, commit) ==
    LET drained == IF Drains(grant) THEN [comQueue EXCEPT ![comRd].valid = FALSE] ELSE comQueue
    IN  /\ comQueue' = IF commit THEN [drained EXCEPT ![comWr] = specQueue[specRd]] ELSE drained
        /\ comRd' = (comRd + One(Drains(grant))) % CommitDepth
        /\ comWr' = (comWr + One(commit)) % CommitDepth
        /\ comCnt' = (comCnt + One(commit) + 2 * CommitDepth - One(Drains(grant))) % (2 * CommitDepth)

(* One clock edge of the buffer.                                           *)
BufferEdge(push, s, commit, flush, grant) ==
    /\ Speculate(push, s, commit, flush)
    /\ Drain(grant, commit)
=============================================================================
