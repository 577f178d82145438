------------------------------ MODULE Outbox ------------------------------
(***************************************************************************)
(* What the forward queue promises, with no leases, batches, retries or    *)
(* crashes: an enqueued delivery is handed to the relay zero or more times *)
(* while it is pending, it becomes "sent" only after the relay has         *)
(* accepted it, and what has been settled stays settled.  ForwardQueue     *)
(* (the table, the worker and the relay) implements this.                  *)
(***************************************************************************)
EXTENDS Naturals

CONSTANT Job        \* deliveries: one message to one destination

VARIABLES
  status,           \* per job: "none", "pending", "sent" or "failed"
  copies            \* per job: how many copies the relay has accepted

ovars == <<status, copies>>

Init ==
  /\ status = [j \in Job |-> "none"]
  /\ copies = [j \in Job |-> 0]

Enqueue(j) ==
  /\ status[j] = "none"
  /\ status' = [status EXCEPT ![j] = "pending"]
  /\ UNCHANGED copies

(* The relay accepts one more copy; nobody may have learnt of the last one. *)
Deliver(j) ==
  /\ status[j] = "pending"
  /\ copies' = [copies EXCEPT ![j] = @ + 1]
  /\ UNCHANGED status

Settle(j) ==
  /\ status[j] = "pending"
  /\ copies[j] > 0
  /\ status' = [status EXCEPT ![j] = "sent"]
  /\ UNCHANGED copies

GiveUp(j) ==
  /\ status[j] = "pending"
  /\ status' = [status EXCEPT ![j] = "failed"]
  /\ UNCHANGED copies

Next == \E j \in Job : Enqueue(j) \/ Deliver(j) \/ Settle(j) \/ GiveUp(j)

Spec == Init /\ [][Next]_ovars
===========================================================================
