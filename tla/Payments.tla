------------------------------ MODULE Payments ------------------------------
(***************************************************************************)
(* What the payment service promises for every transfer it is given: its   *)
(* tokens move at most once, it is reported paid only when they moved for  *)
(* good, and a report that it is paid or has failed is never taken back.   *)
(* An error mark is no such report: a marked transfer may still be paid.   *)
(***************************************************************************)
EXTENDS Naturals

CONSTANT Transfers

VARIABLES
  status,   \* what the service says of a transfer
  moved,    \* how many transactions in the chain pay it
  settled   \* how many of them cannot be dropped from the chain any more

TypeOK ==
  /\ status \in [Transfers -> {"absent", "open", "marked", "paid", "failed"}]
  /\ moved \in [Transfers -> {0, 1}]
  /\ settled \in [Transfers -> {0, 1}]

Init ==
  /\ status = [t \in Transfers |-> "absent"]
  /\ moved = [t \in Transfers |-> 0]
  /\ settled = [t \in Transfers |-> 0]

(* f with value v for every transfer of S. *)
SetAll(f, S, v) == [t \in Transfers |-> IF t \in S THEN v ELSE f[t]]

Request(S) ==
  /\ \A t \in S : status[t] = "absent"
  /\ status' = SetAll(status, S, "open")
  /\ UNCHANGED <<moved, settled>>

(* One transaction pays all transfers of a batch. *)
Move(S) ==
  /\ \A t \in S : status[t] # "absent" /\ moved[t] = 0
  /\ moved' = SetAll(moved, S, 1)
  /\ UNCHANGED <<status, settled>>

Undo(S) ==
  /\ \A t \in S : moved[t] = 1 /\ settled[t] = 0
  /\ moved' = SetAll(moved, S, 0)
  /\ UNCHANGED <<status, settled>>

Settle(S) ==
  /\ \A t \in S : moved[t] = 1 /\ settled[t] = 0
  /\ settled' = SetAll(settled, S, 1)
  /\ UNCHANGED <<status, moved>>

ReportPaid(S) ==
  /\ \A t \in S : status[t] \in {"open", "marked"} /\ settled[t] = 1
  /\ status' = SetAll(status, S, "paid")
  /\ UNCHANGED <<moved, settled>>

(* The service may give up on transfers, paid or not. *)
ReportFailed(S) ==
  /\ \A t \in S : status[t] \in {"open", "marked"}
  /\ status' = SetAll(status, S, "failed")
  /\ UNCHANGED <<moved, settled>>

(* A transfer gets an error mark, and loses it when its row is removed. *)
Mark(S) ==
  /\ \A t \in S : status[t] = "open"
  /\ status' = SetAll(status, S, "marked")
  /\ UNCHANGED <<moved, settled>>

Reopen(S) ==
  /\ \A t \in S : status[t] = "marked"
  /\ status' = SetAll(status, S, "open")
  /\ UNCHANGED <<moved, settled>>

Next ==
  \E S \in SUBSET Transfers :
    \/ Request(S) \/ Move(S) \/ Undo(S) \/ Settle(S)
    \/ ReportPaid(S) \/ ReportFailed(S) \/ Mark(S) \/ Reopen(S)

Spec == Init /\ [][Next]_<<status, moved, settled>>
=============================================================================
