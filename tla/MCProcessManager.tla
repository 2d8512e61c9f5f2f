-------------------------- MODULE MCProcessManager --------------------------
(***************************************************************************)
(* Instances of ProcessManager for TLC.                                    *)
(***************************************************************************)
EXTENDS ProcessManager

CONSTANTS stop1, stop2, check1, check2

OneStop == {stop1}
TwoStops == {stop1, stop2}
TwoChecks == {check1, check2}
Nobody == {}

=============================================================================
