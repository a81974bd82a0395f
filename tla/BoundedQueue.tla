---------------------------- MODULE BoundedQueue ----------------------------
(***************************************************************************)
(* What a hardware queue with two write ports and one read port promises:  *)
(* in one clock cycle it takes the longest prefix of what is offered that  *)
(* fits in the room it had when the cycle began, and gives its head away.  *)
(***************************************************************************)
EXTENDS Naturals, Sequences

CONSTANTS Depth, Data

VARIABLE queue

Offers == {<<>>} \cup {<<d>> : d \in Data} \cup {<<d, e>> : d \in Data, e \in Data}

Taken(offered) ==
    LET room == Depth - Len(queue)
    IN  IF Len(offered) <= room THEN offered
        ELSE IF room = 0 THEN <<>> ELSE <<offered[1]>>

Rest(pop) == IF pop /\ queue # <<>> THEN Tail(queue) ELSE queue

Turn(offered, pop) == queue' = Rest(pop) \o Taken(offered)
Flush == queue' = <<>>

Init == queue = <<>>
Next == Flush \/ \E offered \in Offers, pop \in BOOLEAN : Turn(offered, pop)
Spec == Init /\ [][Next]_queue
=============================================================================
