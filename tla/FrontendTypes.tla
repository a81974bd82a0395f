--------------------------- MODULE FrontendTypes ---------------------------
(***************************************************************************)
(* Addresses, predictions and requests of the frontend of IP/Linux.        *)
(* Addresses count instruction words.                                      *)
(***************************************************************************)
EXTENDS Integers, Sequences

CONSTANTS
    Words,   \* how many words the address space has
    Boot,    \* boot_addr_i
    Flows,   \* the control flow the predictors may announce
    None     \* no address, no entry

ASSUME WordsAssumption == Words \in Nat /\ Words > 0
ASSUME BootAssumption == Boot \in 0 .. Words - 1
ASSUME FlowsAssumption == Flows \subseteq {"Branch", "Jump", "JumpR", "Return"}

Address == 0 .. Words - 1
ASSUME NoneAssumption == None \notin Address

(* A slip: the address after the last one.                                 *)
SequelWide(a) == a + 1

Sequel(a) == IF a = Words - 1 THEN 0 ELSE a + 1

(* cf_type and predict_address, which is 0 where nothing is predicted.  A  *)
(* return is announced here with the address a valid entry of the return   *)
(* stack holds; with an empty stack the branch unit finds a wrong address. *)
NoPrediction == [cf |-> "NoCF", target |-> 0]
Predictions == {NoPrediction} \cup [cf : Flows, target : Address]

(* What the queue keeps of an instruction.                                 *)
Entry == [addr : Address, cf : Flows \cup {"NoCF"}, target : Address]
ASSUME NoEntryAssumption == None \notin Entry

(* Where an instruction leads, by the prediction it carries.               *)
Follower(e) == IF e.cf = "NoCF" THEN Sequel(e.addr) ELSE e.target

(* What the commit stage asks for: the return from an exception to epc_i,  *)
(* the trap vector, or to go on after the instruction that committed; and  *)
(* the branch unit for the target of a misprediction.  The controller      *)
(* raises set_pc_commit only without the other two.                        *)
CommitRequest ==
    [kind : {"eret", "ex"}, pc : Address, halt : {FALSE}]
        \cup [kind : {"set_pc"}, pc : Address, halt : BOOLEAN]

CommitTarget(c) == IF c.kind = "set_pc" /\ ~c.halt THEN Sequel(c.pc) ELSE c.pc

Nothing == [mispredict |-> None, commit |-> None]
Requests == [mispredict : Address \cup {None}, commit : CommitRequest \cup {None}]
ASSUME NoRequestAssumption == None \notin CommitRequest
=============================================================================
