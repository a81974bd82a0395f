------------------------------ MODULE Frontend ------------------------------
(***************************************************************************)
(* The frontend of IP/Linux/frontend: frontend.sv and the instruction      *)
(* queue of instr_queue.sv, whose ring is the bounded queue that Fifo is   *)
(* proved to implement.  One step is one clock cycle.  The predictors are  *)
(* inputs, since any answer of theirs must be safe; so are the cache's     *)
(* answers, the backend's readiness and what the backend asks for.         *)
(***************************************************************************)
EXTENDS FrontendTypes

CONSTANT QueueDepth
ASSUME QueueDepthAssumption == QueueDepth \in Nat /\ QueueDepth > 0

VARIABLES
    npcRst,    \* npc_rst_load_q
    npc,       \* npc_q
    fetched,   \* icache_vaddr_q, None while icache_valid_q is low
    pending,   \* the fetch in the second stage of the cache, or None
    queue,     \* what the instruction queue holds
    given,     \* fetch_entry_o of the cycle that just ended, or None
    asked      \* resolved_branch_i, eret_i, ex_valid_i, set_pc_commit_i in it
frontVars == <<npcRst, npc, fetched, pending, queue>>
vars == <<frontVars, given, asked>>

Queue == INSTANCE BoundedQueue WITH Depth <- QueueDepth, Data <- Entry

Init ==
    /\ npcRst = TRUE /\ npc = 0
    /\ fetched = None /\ pending = None
    /\ Queue!Init
    /\ given = None /\ asked = Nothing

-----------------------------------------------------------------------------
(* The wires of one cycle.                                                 *)
QueueFull == Len(queue) = QueueDepth

(* The instruction that came finds no room and is fetched again.           *)
Replay == QueueFull /\ fetched # None

(* The loop of frontend.sv:316-319 runs over the bits of the one cf_type:  *)
(* bit 0 or bit 1 must be set, which is so for Branch, Jump and JumpR and  *)
(* not for Return, and no single bit is ever equal to Return.              *)
BpValid(p) == p.cf \in {"Branch", "Jump", "JumpR"}

Base == IF npcRst THEN Boot ELSE npc
FetchAddress(p) == IF BpValid(p) THEN p.target ELSE Base

Asks(halt) == ~QueueFull /\ ~halt
IfReady(ready, halt) == ready /\ Asks(halt)

Flushes(request) == request # Nothing
KillS1(request) == Flushes(request) \/ Replay
(* A slip: a prediction does not squash the fetch behind it.               *)
KillS2Late(p, request) == KillS1(request)
KillS2(p, request) == KillS1(request) \/ BpValid(p)

(* A slip: the branch that was mispredicted wins over the commit stage.    *)
RedirectYounger(request) ==
    IF request.mispredict # None THEN request.mispredict ELSE CommitTarget(request.commit)

(* The assignments of select_pc that come last win: the commit stage, then *)
(* the mispredicted branch.                                                *)
Redirect(request) ==
    IF request.commit # None THEN CommitTarget(request.commit) ELSE request.mispredict

NpcD(p, ready, halt, request) ==
    IF Flushes(request) THEN Redirect(request)
    ELSE IF Replay THEN fetched
    ELSE IF IfReady(ready, halt) THEN Sequel(FetchAddress(p)) ELSE FetchAddress(p)

(* The cache, as the frontend uses it: it takes a fetch when it is ready   *)
(* and the first stage is not killed, and answers it in a later cycle      *)
(* unless the second stage is killed by then.                              *)
Answers(answer) == answer /\ pending # None
Takes(p, ready, halt, request) == IfReady(ready, halt) /\ ~KillS1(request)

Pending(p, ready, halt, answer, request) ==
    IF Takes(p, ready, halt, request) THEN FetchAddress(p)
    ELSE IF KillS2(p, request) \/ Answers(answer) THEN None ELSE pending

Fetched(p, answer, request) ==
    IF Answers(answer) /\ ~KillS2(p, request) THEN pending ELSE None

Offered(p) ==
    IF fetched # None /\ ~QueueFull
    THEN <<[addr |-> fetched, cf |-> p.cf, target |-> p.target]>> ELSE <<>>

QueueEdge(p, pop, request) ==
    IF Flushes(request) THEN Queue!Flush ELSE Queue!Turn(Offered(p), pop)

(* What the backend sees.  Its ready wire and the queue's valid wire       *)
(* depend on one another in the cycle (instr_queue.sv:106, id_stage.sv:54):*)
(* both low is as stable as both high, so pop may always be false.         *)
Give(pop) == IF pop /\ queue # <<>> THEN Head(queue) ELSE None

Cycle(p, ready, answer, halt, pop, request) ==
    /\ ready => pending = None \/ answer
    /\ npcRst' = FALSE
    /\ npc' = NpcD(p, ready, halt, request)
    /\ fetched' = Fetched(p, answer, request)
    /\ pending' = Pending(p, ready, halt, answer, request)
    /\ QueueEdge(p, pop, request)
    /\ given' = Give(pop)
    /\ asked' = request

(* A slip: is_branch and the others not masked by icache_valid_q.          *)
SeenStale == Predictions

(* Only an instruction that came is predicted.                             *)
Seen == IF fetched = None THEN {NoPrediction} ELSE Predictions

Next ==
    \E p \in Seen, request \in Requests, ready, answer, halt, pop \in BOOLEAN :
        Cycle(p, ready, answer, halt, pop, request)

Spec == Init /\ [][Next]_vars

-----------------------------------------------------------------------------
(* The registers and ports stay in range and the queue within its depth.   *)
TypeOK ==
    /\ npcRst \in BOOLEAN /\ npc \in Address
    /\ fetched \in Address \cup {None} /\ pending \in Address \cup {None}
    /\ queue \in Seq(Entry) /\ Len(queue) <= QueueDepth
    /\ given \in Entry \cup {None} /\ asked \in Requests

(* What each part of the frontend will give next, from the youngest.       *)
PendingDue == IF pending # None THEN pending ELSE Base
FetchedDue == IF fetched # None THEN fetched ELSE PendingDue
Due == IF queue # <<>> THEN Head(queue).addr ELSE FetchedDue

Chained(q) == \A i \in 1 .. Len(q) - 1 : q[i + 1].addr = Follower(q[i])

(* One path runs through the queue, the instruction that came, the fetch   *)
(* in the cache and the next pc, whatever was replayed, killed or answered *)
(* late: no stage holds what an older one does not lead to                 *)
(* (frontend.sv:296-370, instr_queue.sv:87-111).                           *)
OnePath ==
    /\ Chained(queue)
    /\ queue # <<>> => FetchedDue = Follower(queue[Len(queue)])
    /\ fetched # None => PendingDue = Sequel(fetched)
    /\ pending # None => Base = Sequel(pending)

(* The backend is given one path until it asks for another, and then that  *)
(* one, with the commit stage before the branch unit.                      *)
Path == INSTANCE FetchPath WITH due <- Due
GivesOnePath == Path!Spec

(* A return for which the return stack has a valid entry is a valid        *)
(* prediction (the comment at frontend.sv:318): the fetch goes where the   *)
(* entry given to the backend says.                                        *)
ReturnsFollowed ==
    [][given' # None /\ given'.cf = "Return" /\ asked' = Nothing => Due' = given'.target]_vars

(* The clock runs.  Without requests that last, the cache is ready again   *)
(* and again while the frontend asks, answers what it took, and the        *)
(* backend takes what the queue holds.                                     *)
Quiet(p, ready, answer, halt, pop) ==
    p \in Seen /\ Cycle(p, ready, answer, halt, pop, Nothing)
Fairness ==
    /\ SF_vars(/\ pending = None /\ ~QueueFull
               /\ \E p \in Predictions, pop \in BOOLEAN : Quiet(p, TRUE, FALSE, FALSE, pop))
    /\ SF_vars(/\ pending # None
               /\ \E p \in Predictions, ready, halt, pop \in BOOLEAN : Quiet(p, ready, TRUE, halt, pop))
    /\ SF_vars(/\ queue # <<>>
               /\ \E p \in Predictions, ready, answer, halt \in BOOLEAN : Quiet(p, ready, answer, halt, TRUE))
FairSpec == Spec /\ Fairness

(* Once the backend asks for no other path, instructions keep coming: no   *)
(* replay, kill or full queue stops the fetching for good.                 *)
KeepsGiving == <>[](asked = Nothing) => []<>(given # None)
=============================================================================
