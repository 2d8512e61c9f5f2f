--------------------------- MODULE ProcessManager ---------------------------
(***************************************************************************)
(* ProcessManager (internal/tools/exec): one process and the file that     *)
(* records its status.  Start launches a background process, writes the    *)
(* record and watches the process for a short while; the exec tool runs a  *)
(* process in the foreground and, when its grace period is over, promotes  *)
(* it to a background one.  A goroutine waits for the process to end and   *)
(* completes the record; Check and Stop come from other activities,        *)
(* perhaps of another worker.  Nobody locks: each reads the record, acts,  *)
(* and writes the record back, and the write (a rename) is atomic.         *)
(***************************************************************************)
EXTENDS Integers, FiniteSets

CONSTANTS
  Stopper,       \* the calls of Stop
  Checker,       \* the calls of Check
  Daemonizes,    \* the process may leave members in its group when it exits
  MayCrash,      \* the worker that started the process may die
  DiskFails      \* the record cannot always be read and written again

ASSUME CallAssumption == Stopper \cap Checker = {}
ASSUME EnvironmentAssumption ==
  Daemonizes \in BOOLEAN /\ MayCrash \in BOOLEAN /\ DiskFails \in BOOLEAN

VARIABLES
  os,       \* the process: its leader alive, only its group alive, or gone
  clean,    \* the leader exited with code zero
  record,   \* the status in the process file
  start,    \* the call of Start, or of the exec tool; it is over with a
            \* process (ok, promoted), after the process ended by itself
            \* (exited, finished), or after terminating it (error, cut)
  waiter,   \* the goroutine of Start
  call,     \* the calls of Stop and Check
  diskFails \* in this behaviour the disk fails now and then

vars == <<os, clean, record, start, waiter, call, diskFails>>

Call == Stopper \cup Checker
Outcome == {"exited", "failed", "stopped"}
\* A result that names the process has reached the task.
Returned == start \in {"ok", "promoted"}

\* managedProcessRunning
Running == os \in {"alive", "orphaned"}

Init ==
  /\ os = "none"
  /\ clean = TRUE
  /\ record = "none"
  /\ start = "idle"
  /\ waiter = "none"
  /\ call = [c \in Call |-> "idle"]
  /\ diskFails \in {FALSE, DiskFails}

\* A write of the record whose error nobody looks at.
Written(status) == record' = status \/ (diskFails /\ UNCHANGED record)

-----------------------------------------------------------------------------
(* The process.                                                            *)

LeaderExits(code) ==
  /\ os = "alive"
  /\ os' \in IF Daemonizes THEN {"orphaned", "gone"} ELSE {"gone"}
  /\ clean' = code
  /\ UNCHANGED <<record, start, waiter, call, diskFails>>

GroupEnds ==
  /\ os = "orphaned"
  /\ os' = "gone"
  /\ UNCHANGED <<clean, record, start, waiter, call, diskFails>>

LeftToExit == UNCHANGED <<os, clean>>
\* terminateManagedProcess: the whole group is gone
Terminated ==
  /\ os' = IF Running THEN "gone" ELSE os
  /\ clean' \in IF os = "alive" THEN BOOLEAN ELSE {clean}

-----------------------------------------------------------------------------
(* Start.                                                                  *)

Launch ==
  /\ start = "idle"
  /\ os' = "alive"
  /\ start' = "launched"
  /\ UNCHANGED <<clean, record, waiter, call>>

RecordAfterWaiting ==
  /\ start = "launched"
  /\ IF waiter = "none"
       THEN waiter' = "waiting" /\ UNCHANGED <<record, start>>
       ELSE record' = "running" /\ start' = "observing" /\ UNCHANGED waiter
  /\ UNCHANGED <<os, clean, call>>

\* The record is written before the goroutine starts to wait.
Record ==
  /\ start = "launched"
  /\ record' = "running"
  /\ waiter' = "waiting"
  /\ start' = "observing"
  /\ UNCHANGED <<os, clean, call>>

\* The record cannot be written: the process is terminated.
RecordFails ==
  /\ start = "launched"
  /\ Terminated
  /\ start' = "error"
  /\ UNCHANGED <<record, waiter, call>>

\* The goroutine reports that the process ended in the startup window.
StartSeesExit ==
  /\ start = "observing"
  /\ waiter = "done"
  /\ start' = "exited"
  /\ UNCHANGED <<os, clean, record, waiter, call>>

\* The context ends in the startup window: the process is terminated, and
\* then the copy Start holds is written as failed.
StartExpires ==
  /\ start = "observing"
  /\ Terminated
  /\ start' = "expired"
  /\ UNCHANGED <<record, waiter, call>>
StartWritesFailed ==
  /\ start = "expired"
  /\ Written("failed")
  /\ start' = "error"
  /\ UNCHANGED <<os, clean, waiter, call>>

\* The startup window is over.
StartReturns ==
  /\ start = "observing"
  /\ start' = "ok"
  /\ UNCHANGED <<os, clean, record, waiter, call>>

-----------------------------------------------------------------------------
(* The exec tool: runSingle, and runBatch, whose remaining actions are     *)
(* dropped when one of them is promoted.                                   *)

RunForeground ==
  /\ start = "idle"
  /\ os' = "alive"
  /\ start' = "foreground"
  /\ UNCHANGED <<clean, record, waiter, call>>

\* Wait returned: the result is complete and nothing is recorded.
ForegroundEnds ==
  /\ start = "foreground"
  /\ os \in {"orphaned", "gone"}
  /\ start' = "finished"
  /\ UNCHANGED <<os, clean, record, waiter, call>>

\* The context or the timeout ends, or the promotion cannot be written: the
\* process is terminated.
ForegroundCut ==
  /\ start = "foreground"
  /\ Terminated
  /\ start' = "cut"
  /\ UNCHANGED <<record, waiter, call>>

\* The grace period is over: the record is written, even of a process that
\* ended in the same moment.
Promote ==
  /\ start = "foreground"
  /\ record' = "running"
  /\ start' = "promoting"
  /\ UNCHANGED <<os, clean, waiter, call>>

PromoteUnwatched ==
  /\ start = "promoting"
  /\ start' = "promoted"
  /\ waiter' = "done"
  /\ UNCHANGED <<os, clean, record, call>>

\* trackPromotedProcess starts the goroutine, and the tool answers.
TrackPromoted ==
  /\ start = "promoting"
  /\ start' = "promoted"
  /\ waiter' = "waiting"
  /\ UNCHANGED <<os, clean, record, call>>

-----------------------------------------------------------------------------
(* The goroutine.                                                          *)

\* What was left of the timeout of a promoted process is over: it counts as
\* failed even when it had just ended well.
PromotedExpires ==
  /\ start = "promoted"
  /\ waiter = "waiting"
  /\ os' = IF Running THEN "gone" ELSE os
  /\ clean' = FALSE
  /\ UNCHANGED <<record, start, waiter, call>>

\* Wait returned, because the leader exited, and the record is read; when it
\* cannot be, the copy of Start, which says running, stands for it.
WaiterReads ==
  /\ waiter = "waiting"
  /\ os \in {"orphaned", "gone"}
  /\ \/ waiter' = IF record \in Outcome THEN "done" ELSE "completing"
     \/ diskFails /\ waiter' = "completing"
  /\ UNCHANGED <<os, clean, record, start, call>>

SuccessOnly ==
  /\ record' = IF clean THEN "exited" ELSE record
  /\ waiter' = "done"
\* The outcome is written over whatever the record says by now.
WaiterCompletes ==
  /\ Written(IF clean THEN "exited" ELSE "failed")
  /\ waiter' = "done"
WaiterWrites ==
  /\ waiter = "completing"
  /\ WaiterCompletes
  /\ UNCHANGED <<os, clean, start, call>>

-----------------------------------------------------------------------------
(* Stop and Check.  Both name a process by the id in the result of a Start *)
(* that succeeded: only such a result puts a process into a task's list.   *)

StopReads(c) ==
  /\ c \in Stopper
  /\ call[c] = "idle"
  /\ Returned
  /\ call' = [call EXCEPT ![c] = IF record = "running" THEN "terminating"
                                                       ELSE "writing"]
  /\ UNCHANGED <<os, clean, record, start, waiter>>

\* The record cannot be read, or by Stop not be written: the call fails.
CallFails(c) ==
  /\ diskFails
  /\ Returned
  /\ call[c] = "idle" \/ (c \in Stopper /\ call[c] = "writing")
  /\ call' = [call EXCEPT ![c] = "error"]
  /\ UNCHANGED <<os, clean, record, start, waiter>>

\* The signal may find the group just gone; then Stop fails with that error.
StopTerminates(c) ==
  /\ call[c] = "terminating"
  /\ Terminated
  /\ \E next \in {"writing", "error"} : call' = [call EXCEPT ![c] = next]
  /\ UNCHANGED <<record, start, waiter>>

StopWrites(c) ==
  /\ c \in Stopper
  /\ call[c] = "writing"
  /\ record' = "stopped"
  /\ call' = [call EXCEPT ![c] = "done"]
  /\ UNCHANGED <<os, clean, start, waiter>>

\* A record that says running is read, and the process is looked for.
CheckReads(c) ==
  /\ c \in Checker
  /\ call[c] = "idle"
  /\ Returned
  /\ call' = [call EXCEPT ![c] = IF record = "running" /\ ~Running
                                   THEN "writing" ELSE "done"]
  /\ UNCHANGED <<os, clean, record, start, waiter>>

CheckWrites(c) ==
  /\ c \in Checker
  /\ call[c] = "writing"
  /\ Written("exited")
  /\ call' = [call EXCEPT ![c] = "done"]
  /\ UNCHANGED <<os, clean, start, waiter>>

\* The worker dies with Start and its goroutine; the process lives on.
Crash ==
  /\ MayCrash
  /\ start # "idle" /\ waiter # "lost"
  /\ start' = IF Returned THEN start ELSE "error"
  /\ waiter' = "lost"
  /\ UNCHANGED <<os, clean, record, call, diskFails>>

-----------------------------------------------------------------------------
Starting ==
  /\ \/ Launch \/ Record \/ RecordFails \/ StartSeesExit
     \/ StartExpires \/ StartWritesFailed \/ StartReturns
  /\ UNCHANGED diskFails
Promoting ==
  /\ \/ RunForeground \/ ForegroundEnds \/ ForegroundCut
     \/ Promote \/ TrackPromoted
  /\ UNCHANGED diskFails
Waiting == (WaiterReads \/ WaiterWrites) /\ UNCHANGED diskFails
Expiring == PromotedExpires /\ UNCHANGED diskFails
Calling(c) ==
  /\ \/ StopReads(c) \/ StopTerminates(c) \/ StopWrites(c)
     \/ CheckReads(c) \/ CheckWrites(c) \/ CallFails(c)
  /\ UNCHANGED diskFails

Next ==
  \/ Starting \/ Promoting \/ Waiting \/ Expiring \/ GroupEnds \/ Crash
  \/ \E code \in BOOLEAN : LeaderExits(code)
  \/ \E c \in Call : Calling(c)

Spec == Init /\ [][Next]_vars

\* The goroutines run; a call that is made comes to its end.  Nobody has to
\* call, the process need not end, and a command may have no time limit.
FairSpec ==
  /\ Spec
  /\ WF_vars(start \notin {"idle", "foreground"} /\ (Starting \/ Promoting))
  /\ WF_vars(Waiting)
  /\ \A c \in Call : WF_vars(call[c] # "idle" /\ Calling(c))

-----------------------------------------------------------------------------
(* Properties.                                                             *)

\* Types of the state.
TypeOK ==
  /\ os \in {"none", "alive", "orphaned", "gone"}
  /\ clean \in BOOLEAN
  /\ record \in {"none", "running"} \cup Outcome
  /\ start \in {"idle", "launched", "observing", "expired", "ok", "error",
                "exited", "foreground", "promoting", "promoted", "finished",
                "cut"}
  /\ waiter \in {"none", "waiting", "completing", "done", "lost"}
  /\ call \in [Call -> {"idle", "terminating", "writing", "error", "done"}]
  /\ diskFails \in BOOLEAN

\* The record calls a process over only when the process itself has ended,
\* whoever wrote it, and nothing brings a record back to running.
OverWhenRecorded == record \in Outcome => os # "alive"
NeverBackToRunning == [][(record \in Outcome) => (record' \in Outcome)]_vars

\* A start and a command that terminate their process leave nothing of its
\* group behind.  Of a process that ended by itself, in the startup window or
\* in the foreground, the leader is gone; what it left in its group may live
\* on, and no result names it.  A worker that died leaves what it started.
FailedStartLeavesNothing ==
  waiter # "lost" =>
    /\ start \in {"error", "cut"} => os = "gone"
    /\ start \in {"exited", "finished"} => os # "alive"

\* When its goroutine is through, the record is no longer running.
WaitedIsRecorded == waiter = "done" /\ ~diskFails => record # "running"

\* A process that ended does not stay recorded as running, unless its worker
\* died or the disk fails.
EndIsRecorded ==
  os = "gone" /\ record = "running" /\ ~diskFails
    ~> record # "running" \/ waiter = "lost"

\* A Stop that succeeded left no member of the process group running.
StopMeansGone == \A c \in Stopper : call[c] = "done" => ~Running

=============================================================================
