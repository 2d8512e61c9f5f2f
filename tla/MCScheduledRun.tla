---------------------------- MODULE MCScheduledRun ----------------------------
(***************************************************************************)
(* Instances of ScheduledRun for TLC.                                      *)
(***************************************************************************)
EXTENDS ScheduledRun

CONSTANTS alice, bob, run1, run2

MCOperators == {alice, bob}
MCRuns == {run1, run2}

\* Any two callers meet; the operators, and the runs, are alike.
Pairs == {{c, d} : c \in Caller, d \in Caller} \ {{c} : c \in Caller}
Alike == Permutations(MCOperators) \cup Permutations(MCRuns)
Operators == {{alice, bob}}

\* An edit falls between the steps of two operations, or of an operation and a
\* run.  Two runs share no more than a publication, which an operation makes with
\* the same steps, and the retention of their directories: they meet no edit.
AllEdits ==
  [callers \in Pairs |->
    IF callers = MCRuns THEN {}
    ELSE {<<"cron", "unset">>, <<"broken", "home">>, <<"oneshot", "home">>}]
OneShot == [callers \in Operators |-> {<<"oneshot", "home">>}]

AllFaults == {"store", "temporal", "cut"}
NoFaults == {}

=============================================================================
