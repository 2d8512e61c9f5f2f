----------------------------- MODULE EventLedger -----------------------------
(***************************************************************************)
(* What the project workflow promises of the events it accepts, without    *)
(* its inbox, its owners or its loop: an event is accepted once, becomes   *)
(* at most one task or is absorbed by a running one, no more than Capacity *)
(* tasks run at once, and a task that has an answer is settled only when   *)
(* the answer has been reported.                                           *)
(***************************************************************************)
EXTENDS Integers, FiniteSets

CONSTANTS
  ID,          \* event ids
  Capacity     \* how many tasks may run at once

VARIABLE status    \* id -> how far the event is

Status == {"unseen", "absorbed", "queued", "running", "owed", "settled"}

Init == status = [id \in ID |-> "unseen"]

Move(id, from, to) ==
  /\ status[id] = from
  /\ status' = [status EXCEPT ![id] = to]

\* The event becomes a task to run, or joins a running task, or is dropped.
Accept(id) == Move(id, "unseen", "queued") \/ Move(id, "unseen", "absorbed")

Start(id) ==
  /\ Cardinality({i \in ID : status[i] = "running"}) < Capacity
  /\ Move(id, "queued", "running")

Close(id) == Move(id, "running", "owed") \/ Move(id, "running", "settled")

Report(id) == Move(id, "owed", "settled")

Next == \E id \in ID : Accept(id) \/ Start(id) \/ Close(id) \/ Report(id)

Spec == Init /\ [][Next]_status

\* A queued event is eventually run to its end and reported.
Promise == \A id \in ID : status[id] = "queued" ~> status[id] = "settled"

=============================================================================
