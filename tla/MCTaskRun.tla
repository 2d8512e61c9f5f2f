------------------------------ MODULE MCTaskRun ------------------------------
(***************************************************************************)
(* Instances of TaskRun for TLC.                                           *)
(***************************************************************************)
EXTENDS TaskRun

CONSTANTS server, app    \* a stop_on_finish process and one of the project

Make(name, of, body) == [name |-> name, kind |-> of, body |-> body]
Stop1   == Make(1, "cancel", TRUE)
Break1  == Make(3, "interrupt", TRUE)
Break2  == Make(4, "interrupt", FALSE)
Note1   == Make(5, "context", TRUE)

AllSignals      == {Stop1, Break1, Break2, Note1}
CancelThenBreak == {Stop1, Break2}

BothProcesses == {server, app}
OneProcess == {server}
ProjectProcesses == {app}
NoProcess == {}

AllPlans == {<<"exec", "exec">>, <<"memory", "agent">>, <<"authoring">>}
ExecPlan == {<<"exec">>}

NoFaults == {}

=============================================================================
