----------------------------- MODULE StoreUnit -----------------------------
(***************************************************************************)
(* The path of a store: issued, translated by the state machine of         *)
(* IP/Linux/backend/excute/store_unit.sv, kept in the store buffer,        *)
(* committed by commit/commit_stage.sv and drained into the data cache.    *)
(* One step is one clock cycle.  Around it stand, as nondeterministic      *)
(* inputs, the DTLB (hit, exception), the data cache (grant), the commit   *)
(* pointer and the flushes other instructions cause.                       *)
(***************************************************************************)
EXTENDS StoreBuffer, LsuBypass

CONSTANTS
    MaxStores,   \* bound: stores issued in a behaviour
    Exceptions   \* what ex_i.valid may be: {FALSE} or BOOLEAN
ASSUME StoresAssumption == MaxStores \in Nat /\ Exceptions \in {{FALSE}, BOOLEAN}

VARIABLES
    state,     \* state_q
    held,      \* trans_id_q and st_data_q: the store the registers hold
    asked,     \* lsu_req_q of the MMU: a translation was asked for last cycle
    request,   \* lsu_valid_q and fu_data_q of issue_read: the store arriving
    inFlight,  \* the stores in the scoreboard, oldest first, with their result
    issued,    \* how many stores were issued
    retired, written   \* the stores that retired and those the cache took
unitVars == <<state, held, asked, request>>
vars == <<bufferVars, bypassVars, unitVars, inFlight, issued, retired, written>>

States == {"IDLE", "VALID_STORE", "WAIT_TRANSLATION", "WAIT_STORE_READY"}

Init ==
    /\ InitBuffer /\ InitBypass
    /\ state = "IDLE" /\ held = 0 /\ asked = FALSE /\ request = 0
    /\ inFlight = <<>> /\ issued = 0
    /\ retired = <<>> /\ written = <<>>

-----------------------------------------------------------------------------
(* The wires of one cycle.  ctrl is the store the bypass shows, 0 for none.*)
Ctrl == Served(request)

(* In these states the unit looks at a new store.                          *)
Looks == state \in {"IDLE", "VALID_STORE"} /\ Ctrl # 0

Faults(ex) == ex /\ state # "IDLE"
Push(ex, flush) == state = "VALID_STORE" /\ ~flush /\ ~Faults(ex)
Room(ex, commit, flush) == Ready(Push(ex, flush), commit, flush)

(* A slip: a store accepted without asking for room.                       *)
AcceptsBlindly(hit, ex, commit, flush) == Looks /\ hit
Accepts(hit, ex, commit, flush) == Looks /\ hit /\ Room(ex, commit, flush)
Pops(hit, ex, commit, flush) == Accepts(hit, ex, commit, flush) \/ Faults(ex)
Asks == Looks \/ state \in {"WAIT_TRANSLATION", "WAIT_STORE_READY"}
Results(ex) == state = "VALID_STORE" \/ Faults(ex)

NextState(hit, ex, commit, flush) ==
    CASE flush \/ Faults(ex)                            -> "IDLE"
      [] ~flush /\ ~Faults(ex) /\ Looks                 ->
            IF ~Room(ex, commit, flush) THEN "WAIT_STORE_READY"
            ELSE IF hit THEN "VALID_STORE" ELSE "WAIT_TRANSLATION"
      [] ~flush /\ ~Faults(ex) /\ state = "VALID_STORE" /\ ~Looks -> "IDLE"
      [] ~flush /\ ~Faults(ex) /\ state = "WAIT_STORE_READY" ->
            IF hit /\ Room(ex, commit, flush) THEN "IDLE" ELSE state
      [] ~flush /\ ~Faults(ex) /\ state = "WAIT_TRANSLATION" ->
            IF hit THEN "IDLE" ELSE state
      [] OTHER                                          -> state

UnitEdge(hit, ex, commit, flush) ==
    /\ state' = NextState(hit, ex, commit, flush)
    /\ held' = Ctrl
    /\ asked' = Asks

-----------------------------------------------------------------------------
(* The commit stage looks at the oldest store once its result is valid.    *)
AtHead(res) == inFlight # <<>> /\ inFlight[1].res = res

(* A slip: the room in the committed ring is not asked for.                *)
CommitsUnready(go) == go /\ (AtHead("done") \/ AtHead("fault"))

(* commit_lsu_o: also a store whose exception is taken is "committed", if  *)
(* the buffer has room for it.                                             *)
Commits(go) == go /\ CommitReady /\ (AtHead("done") \/ AtHead("fault"))
Retires(go) == Commits(go) /\ AtHead("done")
Excepts(go) == go /\ AtHead("fault")

(* A result is written to the store's entry of the scoreboard.             *)
WithResult(ex) ==
    [i \in DOMAIN inFlight |->
        IF Results(ex) /\ inFlight[i].id = held /\ inFlight[i].res = "none"
        THEN [inFlight[i] EXCEPT !.res = IF ex THEN "fault" ELSE "done"]
        ELSE inFlight[i]]

(* Issue sends the next store when the bypass says it is ready.            *)
Sends(send, flush) == send /\ ~flush /\ BypassReady /\ issued < MaxStores

Bookkeep(send, ex, go, flush) ==
    LET kept == IF Retires(go) THEN Tail(WithResult(ex)) ELSE WithResult(ex)
    IN  /\ request' = IF Sends(send, flush) THEN issued + 1 ELSE 0
        /\ issued' = issued + One(Sends(send, flush))
        /\ inFlight' = IF flush THEN <<>>
                       ELSE IF Sends(send, flush)
                            THEN Append(kept, [id |-> issued + 1, res |-> "none"])
                            ELSE kept
        /\ retired' = IF Retires(go) THEN Append(retired, inFlight[1].id) ELSE retired

(* The store buffer's write to the cache.                                  *)
Writes(grant) ==
    written' = IF Drains(grant) THEN Append(written, comQueue[comRd].store) ELSE written

(* One clock cycle.  The exception of a store flushes as it is taken; any  *)
(* other flush comes from an instruction that is not a store, so no store  *)
(* commits beside it.                                                      *)
Cycle(send, hit, ex, go, other, grant) ==
    LET flush == other \/ Excepts(go)
    IN  /\ ex => asked
        /\ ~(other /\ go)
        /\ BufferEdge(Push(ex, flush), held, Commits(go), flush, grant)
        /\ BypassEdge(request, Pops(hit, ex, Commits(go), flush), flush)
        /\ UnitEdge(hit, ex, Commits(go), flush)
        /\ Bookkeep(send, ex, go, flush)
        /\ Writes(grant)

Next ==
    \E send, hit, go, other, grant \in BOOLEAN, ex \in Exceptions :
        Cycle(send, hit, ex, go, other, grant)

Spec == Init /\ [][Next]_vars
=============================================================================
