------------------------ MODULE ProcessManagerProofs ------------------------
(***************************************************************************)
(* What the process record promises, for any number of calls of Stop and   *)
(* Check, wherever the worker crashes or the disk fails, and whatever the  *)
(* process leaves behind in its group.                                     *)
(***************************************************************************)
EXTENDS ProcessManager, TLAPS

\* Before Start wrote the record nobody else has written it or waits to.
Unrecorded ==
  start \in {"idle", "launched", "foreground"} =>
    record = "none" /\ waiter = "none" /\ \A c \in Call : call[c] = "idle"

\* The types of the state, for all constants.
THEOREM TypeCorrect == Spec => []TypeOK
<1>1. Init => TypeOK
  BY EnvironmentAssumption DEF Init, TypeOK, Outcome
<1>2. TypeOK /\ [Next]_vars => TypeOK'
  <2> SUFFICES ASSUME TypeOK, [Next]_vars PROVE TypeOK'
    OBVIOUS
  <2> USE DEF TypeOK, Outcome, Returned, Terminated, Running, Written
  <2>1. CASE Starting
    BY <2>1 DEF Starting, Launch, Record, RecordFails, StartSeesExit,
                StartExpires, StartWritesFailed, StartReturns
  <2>2. CASE Waiting
    BY <2>2 DEF Waiting, WaiterReads, WaiterWrites, WaiterCompletes
  <2>3. CASE GroupEnds
    BY <2>3 DEF GroupEnds
  <2>4. CASE Crash
    BY <2>4 DEF Crash, Returned
  <2>8. CASE Promoting
    BY <2>8 DEF Promoting, RunForeground, ForegroundEnds, ForegroundCut,
                Promote, TrackPromoted
  <2>9. CASE Expiring
    BY <2>9 DEF Expiring, PromotedExpires
  <2>5. ASSUME NEW code \in BOOLEAN, LeaderExits(code) PROVE TypeOK'
    BY <2>5 DEF LeaderExits
  <2>6. ASSUME NEW c \in Call, Calling(c) PROVE TypeOK'
    <3>7. diskFails' = diskFails
      BY <2>6 DEF Calling
    <3>1. CASE StopReads(c)
      BY <3>1, <3>7 DEF StopReads
    <3>2. CASE StopTerminates(c)
      BY <3>2, <3>7 DEF StopTerminates
    <3>3. CASE StopWrites(c)
      BY <3>3, <3>7 DEF StopWrites
    <3>4. CASE CheckReads(c)
      BY <3>4, <3>7 DEF CheckReads
    <3>5. CASE CheckWrites(c)
      BY <3>5, <3>7 DEF CheckWrites
    <3>6. CASE CallFails(c)
      BY <3>6, <3>7 DEF CallFails
    <3> QED
      BY <2>6, <3>1, <3>2, <3>3, <3>4, <3>5, <3>6 DEF Calling
  <2>7. CASE UNCHANGED vars
    BY <2>7 DEF vars
  <2> QED
    BY <2>1, <2>2, <2>3, <2>4, <2>5, <2>6, <2>7, <2>8, <2>9 DEF Next
<1> QED
  BY <1>1, <1>2, PTL DEF Spec

\* A step leaves the record to Start until Start has written it.
LEMMA UnrecordedStep ==
  ASSUME TypeOK, Unrecorded, [Next]_vars PROVE Unrecorded'
<1> USE DEF Unrecorded, Written
<1>1. CASE Starting
  BY <1>1 DEF Starting, Launch, Record, RecordFails, StartSeesExit,
              StartExpires, StartWritesFailed, StartReturns
<1>2. CASE Waiting
  BY <1>2 DEF Waiting, WaiterReads, WaiterWrites, WaiterCompletes
<1>3. CASE GroupEnds
  BY <1>3 DEF GroupEnds
<1>4. CASE Crash
  BY <1>4 DEF Crash, Returned
<1>8. CASE Promoting
  BY <1>8 DEF Promoting, RunForeground, ForegroundEnds, ForegroundCut,
              Promote, TrackPromoted
<1>9. CASE Expiring
  BY <1>9 DEF Expiring, PromotedExpires
<1>5. ASSUME NEW code \in BOOLEAN, LeaderExits(code) PROVE Unrecorded'
  BY <1>5 DEF LeaderExits
<1>6. ASSUME NEW c \in Call, Calling(c) PROVE Unrecorded'
  <2>1. start' = start /\ start \notin {"idle", "launched", "foreground"}
    BY <1>6 DEF Calling, StopReads, StopTerminates, StopWrites, CheckReads,
                CheckWrites, CallFails, Returned
  <2> QED
    BY <2>1
<1>7. CASE UNCHANGED vars
  BY <1>7 DEF vars
<1> QED
  BY <1>1, <1>2, <1>3, <1>4, <1>5, <1>6, <1>7, <1>8, <1>9 DEF Next

\* No step brings a record of an ended process back to running: the one
\* write of "running" is Start's first, and it finds no record.
THEOREM FinalCorrect == Spec => NeverBackToRunning
<1>1. Init => Unrecorded
  BY DEF Init, Unrecorded
<1>2. TypeOK /\ Unrecorded /\ [Next]_vars
        => [(record \in Outcome) => (record' \in Outcome)]_vars
  <2> SUFFICES ASSUME TypeOK, Unrecorded, Next, record \in Outcome
               PROVE record' \in Outcome
    BY DEF vars
  <2> USE DEF Outcome, Written
  <2>1. CASE Starting
    BY <2>1 DEF Unrecorded, Starting, Launch, Record, RecordFails,
                StartSeesExit, StartExpires, StartWritesFailed, StartReturns
  <2>2. CASE Waiting
    BY <2>2 DEF Waiting, WaiterReads, WaiterWrites, WaiterCompletes
  <2>5. CASE Promoting \/ Expiring
    BY <2>5 DEF Unrecorded, Promoting, RunForeground, ForegroundEnds,
                ForegroundCut, Promote, TrackPromoted, Expiring,
                PromotedExpires
  <2>3. CASE GroupEnds \/ Crash \/ \E code \in BOOLEAN : LeaderExits(code)
    BY <2>3 DEF GroupEnds, Crash, LeaderExits
  <2>4. ASSUME NEW c \in Call, Calling(c) PROVE record' \in Outcome
    BY <2>4 DEF Calling, StopReads, StopTerminates, StopWrites, CheckReads,
                CheckWrites, CallFails
  <2> QED
    BY <2>1, <2>2, <2>3, <2>4, <2>5 DEF Next
<1>3. TypeOK /\ Unrecorded /\ [Next]_vars => Unrecorded'
  BY UnrecordedStep
<1> QED
  BY <1>1, <1>2, <1>3, TypeCorrect, PTL DEF Spec, NeverBackToRunning

-----------------------------------------------------------------------------
(* The record and the process.                                             *)

\* Whoever has written or is about to write an outcome, and a start or a
\* command that is over under a living worker, knows that the process ended.
Ended ==
  \/ record \in Outcome
  \/ waiter \in {"completing", "done"}
  \/ start = "expired"
  \/ start \in {"error", "exited", "finished", "cut"} /\ waiter # "lost"
  \/ \E c \in Call : call[c] = "writing"

TruthInv ==
  /\ start # "idle" => os # "none"
  /\ start \in {"observing", "promoting", "ok", "promoted"}
       => record # "none"
  /\ Ended => os \in {"orphaned", "gone"}
  /\ start = "expired" \/ (start \in {"error", "cut"} /\ waiter # "lost")
       => os = "gone"

\* A step keeps the record true to the process.
LEMMA TruthStep ==
  ASSUME TypeOK, Unrecorded, TruthInv, [Next]_vars
  PROVE  TruthInv'
<1> USE DEF TypeOK, TruthInv, Ended, Outcome, Running, Terminated, Written
<1>1. CASE Starting
  <2>1. CASE Launch
    BY <2>1 DEF Launch, Unrecorded
  <2>2. CASE Record
    BY <2>2 DEF Record, Unrecorded
  <2>3. CASE RecordFails
    BY <2>3 DEF RecordFails
  <2>4. CASE StartSeesExit
    BY <2>4 DEF StartSeesExit
  <2>5. CASE StartExpires
    BY <2>5 DEF StartExpires
  <2>6. CASE StartWritesFailed
    BY <2>6 DEF StartWritesFailed
  <2>7. CASE StartReturns
    BY <2>7 DEF StartReturns
  <2> QED
    BY <1>1, <2>1, <2>2, <2>3, <2>4, <2>5, <2>6, <2>7 DEF Starting
<1>2. CASE Waiting
  <2>1. CASE WaiterReads
    BY <2>1 DEF WaiterReads
  <2>2. CASE WaiterWrites
    BY <2>2 DEF WaiterWrites, WaiterCompletes
  <2> QED
    BY <1>2, <2>1, <2>2 DEF Waiting
<1>3. CASE GroupEnds
  BY <1>3 DEF GroupEnds
<1>4. CASE Crash
  BY <1>4 DEF Crash, Returned
<1>8. CASE Promoting
  <2>1. CASE RunForeground
    BY <2>1 DEF RunForeground, Unrecorded
  <2>2. CASE ForegroundEnds
    BY <2>2 DEF ForegroundEnds
  <2>3. CASE ForegroundCut
    BY <2>3 DEF ForegroundCut
  <2>4. CASE Promote
    BY <2>4 DEF Promote, Unrecorded
  <2>5. CASE TrackPromoted
    BY <2>5 DEF TrackPromoted
  <2> QED
    BY <1>8, <2>1, <2>2, <2>3, <2>4, <2>5 DEF Promoting
<1>9. CASE Expiring
  BY <1>9 DEF Expiring, PromotedExpires
<1>5. ASSUME NEW code \in BOOLEAN, LeaderExits(code) PROVE TruthInv'
  BY <1>5 DEF LeaderExits
<1>6. ASSUME NEW c \in Call, Calling(c) PROVE TruthInv'
  <2>1. CASE StopReads(c)
    BY <2>1 DEF StopReads, Returned
  <2>2. CASE StopTerminates(c)
    <3>1. os # "none"
      BY <2>2 DEF StopTerminates, Unrecorded
    <3>2. os' = "gone"
      BY <2>2, <3>1 DEF StopTerminates
    <3> QED
      BY <2>2, <3>2 DEF StopTerminates
  <2>3. CASE StopWrites(c)
    BY <2>3 DEF StopWrites
  <2>4. CASE CheckReads(c)
    BY <2>4 DEF CheckReads, Returned
  <2>5. CASE CheckWrites(c)
    BY <2>5 DEF CheckWrites
  <2>6. CASE CallFails(c)
    BY <2>6 DEF CallFails, Returned
  <2> QED
    BY <1>6, <2>1, <2>2, <2>3, <2>4, <2>5, <2>6 DEF Calling
<1>7. CASE UNCHANGED vars
  BY <1>7 DEF vars
<1> QED
  BY <1>1, <1>2, <1>3, <1>4, <1>5, <1>6, <1>7, <1>8, <1>9 DEF Next

\* The whole invariant holds in every reachable state.
LEMMA TruthCorrect ==
  Spec => [](TypeOK /\ Unrecorded /\ TruthInv)
<1>1. Init => Unrecorded /\ TruthInv
  BY DEF Init, Unrecorded, TruthInv, Ended, Outcome
<1>2. TypeOK /\ Unrecorded /\ [Next]_vars => Unrecorded'
  BY UnrecordedStep
<1>3. TypeOK /\ Unrecorded /\ TruthInv /\ [Next]_vars => TruthInv'
  BY TruthStep
<1> QED
  BY <1>1, <1>2, <1>3, TypeCorrect, PTL DEF Spec

\* A record that says the process is over is true, whoever wrote it.
THEOREM OverCorrect ==
  Spec => []OverWhenRecorded
<1>1. TruthInv => OverWhenRecorded
  BY DEF TruthInv, Ended, OverWhenRecorded, Running
<1> QED
  BY <1>1, TruthCorrect, PTL

\* A start and a command that terminate their process leave nothing of its
\* group, and of one that ended by itself the leader is gone, unless the
\* worker crashed.
THEOREM FailedStartCorrect ==
  Spec => []FailedStartLeavesNothing
<1>1. TruthInv => FailedStartLeavesNothing
  BY DEF TruthInv, Ended, FailedStartLeavesNothing, Running
<1> QED
  BY <1>1, TruthCorrect, PTL

-----------------------------------------------------------------------------
(* The goroutine and the record.                                           *)

DoneInv == waiter = "done" /\ ~diskFails => record \in Outcome

\* A step keeps what the goroutine has written.
LEMMA DoneStep ==
  ASSUME TypeOK, Unrecorded, DoneInv, [Next]_vars PROVE DoneInv'
<1> USE DEF DoneInv, Outcome, Written
<1>1. CASE Starting
  BY <1>1 DEF Unrecorded, Starting, Launch, Record, RecordFails,
              StartSeesExit, StartExpires, StartWritesFailed, StartReturns
<1>2. CASE Promoting \/ Expiring
  BY <1>2 DEF Unrecorded, Promoting, RunForeground, ForegroundEnds,
              ForegroundCut, Promote, TrackPromoted, Expiring,
              PromotedExpires
<1>3. CASE Waiting
  BY <1>3 DEF Waiting, WaiterReads, WaiterWrites, WaiterCompletes
<1>4. CASE GroupEnds \/ Crash \/ \E code \in BOOLEAN : LeaderExits(code)
  BY <1>4 DEF GroupEnds, Crash, LeaderExits
<1>5. ASSUME NEW c \in Call, Calling(c) PROVE DoneInv'
  BY <1>5 DEF Calling, StopReads, StopTerminates, StopWrites, CheckReads,
              CheckWrites, CallFails
<1>6. CASE UNCHANGED vars
  BY <1>6 DEF vars
<1> QED
  BY <1>1, <1>2, <1>3, <1>4, <1>5, <1>6 DEF Next

\* While the disk works, a goroutine that is through has left an outcome in
\* the record.
THEOREM WaitedCorrect == Spec => []WaitedIsRecorded
<1>1. Init => Unrecorded /\ DoneInv
  BY DEF Init, Unrecorded, DoneInv
<1>2. TypeOK /\ Unrecorded /\ [Next]_vars => Unrecorded'
  BY UnrecordedStep
<1>3. TypeOK /\ Unrecorded /\ DoneInv /\ [Next]_vars => DoneInv'
  BY DoneStep
<1>4. DoneInv => WaitedIsRecorded
  BY DEF DoneInv, WaitedIsRecorded, Outcome
<1> QED
  BY <1>1, <1>2, <1>3, <1>4, TypeCorrect, PTL DEF Spec

=============================================================================
