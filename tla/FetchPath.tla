----------------------------- MODULE FetchPath -----------------------------
(***************************************************************************)
(* What the frontend promises the backend: it is given the instructions of *)
(* one path.  Each comes where the one before leads, by its own prediction *)
(* and to the next word without one; none twice and none left out, until   *)
(* the backend asks for another path.                                      *)
(***************************************************************************)
EXTENDS FrontendTypes

VARIABLES
    due,     \* the address of the next instruction to give
    given,   \* the instruction given in the cycle that just ended, or None
    asked    \* what the backend asked for in that cycle
pathVars == <<due, given, asked>>

Init == due = Boot /\ given = None /\ asked = Nothing

(* The instruction at the commit stage is older than any branch that is    *)
(* resolved, so what it asks for is what counts.                           *)
Wanted(request) ==
    IF request.commit # None THEN CommitTarget(request.commit) ELSE request.mispredict

(* An instruction given while the path is left is thrown away by who left. *)
Leave(e, request) ==
    /\ request # Nothing
    /\ e = None \/ e.addr = due
    /\ due' = Wanted(request)

Stay(e, request) ==
    /\ request = Nothing
    /\ e = None \/ e.addr = due
    /\ due' = IF e = None THEN due ELSE Follower(e)

Next ==
    /\ given' \in Entry \cup {None}
    /\ asked' \in Requests
    /\ Leave(given', asked') \/ Stay(given', asked')

Spec == Init /\ [][Next]_pathVars
=============================================================================
