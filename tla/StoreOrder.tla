----------------------------- MODULE StoreOrder -----------------------------
(***************************************************************************)
(* What the store path promises: the memory is written by the stores that  *)
(* retire, each once, in the order in which they retire.                   *)
(***************************************************************************)
EXTENDS Naturals, Sequences

CONSTANT StoreIds

VARIABLES retired, written   \* in order

Init == retired = <<>> /\ written = <<>>

Retire(s) == retired' = Append(retired, s)
Write ==
    /\ Len(written) < Len(retired)
    /\ written' = Append(written, retired[Len(written) + 1])

(* A cycle may retire one store and write another.                         *)
Next ==
    \/ \E s \in StoreIds : Retire(s) /\ UNCHANGED written
    \/ Write /\ UNCHANGED retired
    \/ \E s \in StoreIds : Retire(s) /\ Write

Spec == Init /\ [][Next]_<<retired, written>>
=============================================================================
