------------------------- MODULE ProjectRouterLedger -------------------------
(***************************************************************************)
(* ProjectRouter implements EventLedger as long as the recent-id window    *)
(* never forgets an id (RecentLimit is at least the number of ids).        *)
(***************************************************************************)
EXTENDS ProjectRouter

IsQueued(id) ==
  \/ \E e \in Range(queue) : e.id = id
  \/ pc = "start" /\ current.id = id

\* Where the router's state puts the event with this id.
StatusOf(id) ==
  CASE IsQueued(id) -> "queued"
    [] ~IsQueued(id) /\ task[id] = "running" -> "running"
    [] ~IsQueued(id) /\ task[id] = "answered" /\ reports[id] = 0 -> "owed"
    [] ~IsQueued(id) /\ task[id] = "answered" /\ reports[id] > 0 -> "settled"
    [] ~IsQueued(id) /\ task[id] = "silent" -> "settled"
    [] ~IsQueued(id) /\ task[id] = "none" /\ id \in Range(recent) -> "absorbed"
    [] OTHER -> "unseen"

Ledger == INSTANCE EventLedger
            WITH Capacity <- MaxActive, status <- [id \in ID |-> StatusOf(id)]

\* An event is accepted once, run at most once, and settled only after its
\* answer was reported: the router implements the ledger.
LedgerSpec == Ledger!Spec

\* A queued event is eventually run to its end and its answer reported.
LedgerPromise == Ledger!Promise

\* The part of the promise that holds: until the run has processed as many
\* events as make it continue as new.
PromiseBeforeRestart ==
  \A id \in ID :
    StatusOf(id) = "queued" ~> StatusOf(id) = "settled" \/ processed >= Threshold

\* Until the project continues as new, no event that was delivered is passed
\* over and none that was accepted is left undone; and never is one reported
\* twice.
HandledOnce == []ReportedOnce /\ DeliveredIsHandled /\ PromiseBeforeRestart

=============================================================================
