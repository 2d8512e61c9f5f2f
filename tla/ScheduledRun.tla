----------------------------- MODULE ScheduledRun -----------------------------
(***************************************************************************)
(* WorkflowRunWorkflow (internal/runtime/workflows/workflow_run.go) with   *)
(* its activities: a run of a scheduled workflow publishes the source,     *)
(* unpacks the commit in a directory of its own, records itself, deletes   *)
(* directories of earlier runs, executes the steps and completes its       *)
(* record.  Runs overlap with each other and with the operations of        *)
(* WorkflowSchedule; a preparation goes on when its workflow has given it  *)
(* up, and an attempt of it that ran out of time may still be unpacking    *)
(* while the next one prepares the same directory, or while the steps run. *)
(***************************************************************************)
EXTENDS WorkflowSchedule

CONSTANTS
  KeepLast,     \* DefaultRunRetention
  MaxAttempts   \* the attempts of a preparation

ASSUME KeepLastAssumption == KeepLast \in Nat \ {0}
ASSUME AttemptAssumption == MaxAttempts \in Nat \ {0}

Is(r, pc) == runs[r].pc = pc
Move(r, pc) == runs' = [runs EXCEPT ![r].pc = pc]
\* The workflow of the run ends, well or with a failure, and what it knew goes
\* with it.
Ended == {"closed", "broke"}
Close(r, pc, excused, left) ==
  runs' = [runs EXCEPT ![r] = [pc |-> pc, attempt |-> 1, floor |-> 0,
             commit |-> None, victims |-> <<>>, excused |-> excused,
             left |-> left]]

\* Temporal starts the workflow of a schedule that is not paused.
Fire(r) ==
  /\ r \in cast
  /\ Is(r, "idle")
  /\ sched # None
  /\ sched.state = "active"
  /\ sched.spec = "oneshot" => due
  /\ runs' = [runs EXCEPT ![r].pc = "prepare", ![r].floor = tree.version]
  /\ UNCHANGED <<cast, source, record, sched, due, op, rec, dirs, order,
                 newer, disturbed>>

\* The last step of the trigger operation, on a paused schedule too.
Trigger(c) ==
  /\ At(c, "trigger")
  /\ \/ /\ sched = None \/ "temporal" \in Faults
        /\ Rest(c, "error")
        /\ UNCHANGED runs
     \/ /\ sched # None
        /\ Rest(c, "ok")
        /\ \E r \in Run \cap cast :
             Is(r, "idle") /\ runs' = [runs EXCEPT ![r].pc = "prepare",
                                                   ![r].floor = tree.version]
     \/ /\ sched # None
        /\ \A r \in Run \cap cast : ~Is(r, "idle")
        /\ Rest(c, "ok")
        /\ UNCHANGED runs
  /\ UNCHANGED <<cast, source, record, sched, due, rec, dirs, order, newer,
                 disturbed>>

\* Temporal itself pauses the schedule after a run that failed when the
\* manifest asks for it (pause_on_failure); the row is not told.
Trip(r) ==
  /\ Is(r, "broke")
  /\ sched # None
  /\ sched.state = "active"
  /\ sched' = [sched EXCEPT !.state = "tripped"]
  /\ Move(r, "closed")
  /\ UNCHANGED <<cast, source, record, due, op, rec, dirs, order, newer,
                 disturbed>>

-----------------------------------------------------------------------------
(* PrepareWorkflowRun.                                                     *)

PrepareScheduled(r) ==
  /\ Is(r, "prepare")
  /\ At(r, "idle")
  /\ sched # None
  /\ op' = [op EXCEPT ![r] = [Unread("prepare", "archive") EXCEPT
                               !.commit = sched.commit]]
  /\ UNCHANGED <<cast, source, record, sched, due, runState, disturbed>>

\* resolveWorkflowRunCommit publishes what the directory holds now.
Prepare(r) ==
  /\ Is(r, "prepare")
  /\ At(r, "idle")
  /\ Start(r, "prepare", "read")
  /\ UNCHANGED <<cast, source, record, sched, due, runState>>

Exists(r) == dirs[r] \in {"source", "empty", "remade", "mixed"}
\* The elements of s that are in T, in their order.
Kept(s, T) ==
  LET kept[n \in 0..Len(s)] ==
        IF n = 0 THEN <<>>
        ELSE IF s[n] \in T THEN Append(kept[n - 1], s[n]) ELSE kept[n - 1]
  IN kept[Len(s)]
\* The directory of r is made, and is the newest.
Make(r, state) ==
  /\ dirs' = [dirs EXCEPT ![r] = state]
  /\ order' = <<r>> \o Kept(order, Run \ {r})
  /\ newer' = [x \in Run |-> IF x # r /\ x \in Range(order) /\ newer[x] < KeepLast
                               THEN newer[x] + 1 ELSE newer[x]]

\* The directory of the run is made anew; git archive fails when the commit
\* is gone, and the manifest of the commit may be broken.
Archive(r) ==
  /\ At(r, "archive")
  /\ Make(r, IF op[r].commit \in repo THEN "source" ELSE "empty")
  /\ IF op[r].commit \in repo /\ Loadable(op[r].commit)
       THEN Goto(r, "running") ELSE Rest(r, "error")
  /\ UNCHANGED <<cast, source, record, sched, due, runs, rec, disturbed>>

CommitOnce(r, commit) == rec[r] = None
\* A commit is written over the one before; the completion, which has none,
\* keeps it.
WritesCommit(r, commit) == rec[r] = None \/ commit # None
\* UpsertScheduledWorkflowRun inserts the row again when it is gone.
UpsertRun(r, status, commit) ==
  rec' = [rec EXCEPT ![r] =
           [status |-> status,
            commit |-> IF WritesCommit(r, commit) THEN commit ELSE rec[r].commit]]

\* The record of the run is written last; then the activity answers.
RecordRun(r) ==
  /\ At(r, "running")
  /\ \/ /\ UpsertRun(r, "running", op[r].commit)
        /\ Goto(r, "ok")
     \/ /\ "store" \in Faults
        /\ Rest(r, "error") /\ UNCHANGED rec
  /\ UNCHANGED <<cast, source, record, sched, due, runs, dirs, order, newer,
                 disturbed>>

Prepared(r) ==
  /\ Is(r, "prepare")
  /\ At(r, "ok")
  /\ runs' = [runs EXCEPT ![r].pc = "cleanup", ![r].commit = op[r].commit]
  /\ Rest(r, "idle")
  /\ UNCHANGED <<cast, source, record, sched, due, rec, dirs, order, newer,
                 disturbed>>

\* The preparation is tried again, and the workflow fails after the last try.
TryAgain(r, excused, left) ==
  IF runs[r].attempt < MaxAttempts
    THEN runs' = [runs EXCEPT ![r].attempt = @ + 1, ![r].excused = excused,
                              ![r].left = left]
    ELSE Close(r, "broke", excused, left)

\* An attempt failed, or its answer was lost.
AttemptFails(r) ==
  /\ Is(r, "prepare")
  /\ At(r, "error") \/ (At(r, "ok") /\ "cut" \in Faults)
  /\ Rest(r, "idle")
  /\ TryAgain(r, runs[r].excused \/ At(r, "ok"), runs[r].left)
  /\ UNCHANGED <<cast, source, record, sched, due, rec, dirs, order, newer,
                 disturbed>>

\* An attempt runs out of time (StartToCloseTimeout), or its worker dies.  Its
\* context ends with its time, and git, SQLite and Temporal fail it from then
\* on; what it does with the files of its directory goes on.
TimesOut(r) ==
  /\ "cut" \in Faults
  /\ Is(r, "prepare")
  /\ op[r].pc \notin Resting
  /\ Rest(r, "idle")
  /\ \E goesOn \in {FALSE, At(r, "archive")} :
       TryAgain(r, runs[r].excused, runs[r].left \/ goesOn)
  /\ Disturb("torn")
  /\ UNCHANGED <<cast, source, record, sched, due, rec, dirs, order, newer>>

\* An attempt left behind removes the directory and makes it anew, or unpacks
\* its commit into what is there, beside whatever has been done since.
Late(r) ==
  /\ runs[r].left
  /\ \/ Make(r, "mixed")
     \/ /\ Exists(r)
        /\ dirs' = [dirs EXCEPT ![r] = "mixed"]
        /\ UNCHANGED <<order, newer>>
  /\ UNCHANGED <<cast, source, record, sched, due, op, runs, rec, disturbed>>

-----------------------------------------------------------------------------
(* CleanupWorkflowRuns.                                                    *)

Existing == Kept(order, {r \in Run : Exists(r)})
Beyond(r, keep) ==
  Kept(SubSeq(Existing, keep + 1, Len(Existing)), Run \ {r})

VictimsOffByOne(r) == Beyond(r, KeepLast - 1)
\* The directories beyond the newest KeepLast, but not the run's own.
Victims(r) == Beyond(r, KeepLast)

ListRuns(r) ==
  /\ Is(r, "cleanup")
  /\ runs' = [runs EXCEPT ![r].pc = "delete", ![r].victims = Victims(r)]
  /\ UNCHANGED <<cast, source, record, sched, due, op, rec, dirs, order,
                 newer, disturbed>>

\* scheduledWorkflowRunActive
NotActive(v) == rec[v] = None \/ rec[v].status # "running"

\* Each of them is deleted unless the record says that the run is active.
DeleteRun(r) ==
  /\ Is(r, "delete")
  /\ runs[r].victims # <<>>
  /\ LET v == Head(runs[r].victims) IN
       dirs' = [dirs EXCEPT ![v] = IF NotActive(v) THEN "none" ELSE @]
  /\ runs' = [runs EXCEPT ![r].victims = Tail(@)]
  /\ UNCHANGED <<cast, source, record, sched, due, op, rec, order, newer,
                 disturbed>>

\* The end of the cleanup, or an error of it, which is only logged.
CleanedUp(r) ==
  /\ Is(r, "delete")
  /\ runs[r].victims = <<>> \/ "store" \in Faults
  /\ runs' = [runs EXCEPT ![r].pc = "step", ![r].victims = <<>>]
  /\ UNCHANGED <<cast, source, record, sched, due, op, rec, dirs, order,
                 newer, disturbed>>

-----------------------------------------------------------------------------
(* The steps, and the end of the run.                                      *)

\* ExecuteWorkflowStep makes the directory when it is gone.  The run goes on
\* with its steps, or to its completion.
Step(r, next) ==
  /\ Is(r, "step")
  /\ next \in {"step", "succeeded", "failed"}
  /\ IF Exists(r)
       THEN UNCHANGED <<dirs, order, newer>>
       ELSE Make(r, IF dirs[r] = "none" THEN "empty" ELSE "remade")
  /\ Move(r, next)
  /\ UNCHANGED <<cast, source, record, sched, due, op, rec, disturbed>>

\* The workflow of a run that failed fails.
Finish(r) ==
  Close(r, IF Is(r, "failed") THEN "broke" ELSE "closed", runs[r].excused,
        runs[r].left)

CompleteSuccess(r) ==
  /\ runs[r].pc \in {"succeeded", "failed"}
  /\ IF Is(r, "failed") THEN UNCHANGED rec ELSE UpsertRun(r, runs[r].pc, None)
  /\ Finish(r)
  /\ UNCHANGED <<cast, source, record, sched, due, op, dirs, order, newer,
                 disturbed>>
\* CompleteWorkflowRun is retried until it is done; it writes the record
\* again when a delete has removed it.
Complete(r) ==
  /\ runs[r].pc \in {"succeeded", "failed"}
  /\ UpsertRun(r, runs[r].pc, None)
  /\ Finish(r)
  /\ UNCHANGED <<cast, source, record, sched, due, op, dirs, order, newer,
                 disturbed>>

\* The workflow is canceled.  In the cleanup and in the steps it completes as
\* failed; in the preparation and in its last completion it just ends, and
\* the activity may or may not be carried out.
Cancel(r) ==
  /\ "cut" \in Faults
  /\ \/ runs[r].pc \in {"cleanup", "delete", "step"} /\ Move(r, "failed")
     \/ runs[r].pc \in {"prepare", "succeeded"} /\ Close(r, "closed", TRUE, runs[r].left)
  /\ UNCHANGED <<cast, source, record, sched, due, op, rec, dirs, order,
                 newer, disturbed>>

-----------------------------------------------------------------------------
Publish(c) ==
  \/ Read(c) \/ Load(c) \/ Commit(c)
  \/ UpdateSchedule(c) \/ UpdateRecord(c) \/ RollBack(c)

Operate(c) ==
  \/ Check(c) \/ CreateSchedule(c) \/ CreateRecord(c) \/ UndoCreate(c)
  \/ Initialize(c) \/ Find(c) \/ Checkpoint(c)
  \/ Flip(c) \/ Look(c) \/ Mark(c)
  \/ Unschedule(c) \/ Forget(c) \/ RemoveSource(c) \/ Purge(c)
  \/ Trigger(c)

RunSteps(r) ==
  \/ Prepare(r) \/ Archive(r) \/ RecordRun(r) \/ Prepared(r)
  \/ AttemptFails(r) \/ TimesOut(r) \/ Late(r)
  \/ ListRuns(r) \/ DeleteRun(r) \/ CleanedUp(r)
  \/ (\E next \in {"step", "succeeded", "failed"} : Step(r, next))
  \/ Complete(r)

Next ==
  \/ \E c \in Operator, k \in Kind : Begin(c, k)
  \/ \E c \in Caller : Publish(c)
  \/ \E c \in Operator : Operate(c) \/ Cut(c)
  \/ \E r \in Run : Fire(r) \/ RunSteps(r) \/ Cancel(r) \/ Trip(r)
  \/ \E edit \in Edits[cast] : Edit(edit)
  \/ TimePasses

Spec == Init /\ [][Next]_vars

-----------------------------------------------------------------------------
(* Properties.                                                             *)

Version == 0..MaxVersion
TreeType == [version : Version,
             spec : {"absent", "bare", "broken", "cron", "oneshot"},
             target : {"unset", "home", "away"}]
RecordType == [status : {"active", "paused"}, commit : TreeType,
               source : {"home", "away"}]
ScheduleType == [commit : TreeType, spec : {"cron", "oneshot"},
                 target : {"home", "away"}, state : {"active", "paused", "tripped"}]
OpType ==
  [kind : Kind \cup {"none", "prepare"},
   pc : Resting \cup {"read", "load", "commit", "schedule", "record", "rollback",
          "check", "undo", "initialize", "find", "save", "flip", "look", "mark",
          "unschedule", "forget", "removing", "purge", "trigger", "archive",
          "running"},
   was : RecordType \cup {None}, loaded : TreeType \cup {None},
   commit : TreeType \cup {None}, prev : ScheduleType \cup {None}]
RunType ==
  [pc : {"idle", "prepare", "cleanup", "delete", "step", "succeeded", "failed",
         "closed", "broke"},
   attempt : 1..MaxAttempts, floor : Version, commit : TreeType \cup {None},
   victims : Seq(Run), excused : BOOLEAN, left : BOOLEAN]
RunRecordType == [status : {"running", "succeeded", "failed"},
                  commit : TreeType \cup {None}]

\* None is none of the things the stores hold.
ASSUME NoneAssumption == None \notin TreeType \cup RecordType \cup ScheduleType
                                    \cup RunRecordType

\* The state has its types, and what the three stores hold is well formed.
TypeOK ==
  /\ cast \in Casts
  /\ tree \in TreeType /\ repo \subseteq TreeType
  /\ record \in RecordType \cup {None}
  /\ sched \in ScheduleType \cup {None}
  /\ due \in BOOLEAN /\ disturbed \subseteq {"torn", "status", "row"}
  /\ op \in [Caller -> OpType]
  /\ runs \in [Run -> RunType]
  /\ rec \in [Run -> RunRecordType \cup {None}]
  /\ dirs \in [Run -> {"none", "purged", "source", "empty", "remade", "mixed"}]
  /\ order \in Seq(Run) /\ newer \in [Run -> 0..KeepLast]

\* A run executes a source no older than the one the directory held when the
\* run was started, whatever is published, edited or deleted meanwhile.
RunsAreFresh ==
  \A r \in Run : runs[r].commit # None =>
    runs[r].commit.version >= runs[r].floor

\* Whoever publishes, and whatever edits drop from the manifest, the failures
\* of a workflow are reported to the channel it was created from.
TargetKept ==
  /\ sched # None => sched.target = "home"
  /\ record # None => record.source = "home"

\* A pause holds until a resume, whether a person paused the schedule or
\* Temporal after a failed run: no publication that overlaps it starts the
\* schedule again, but a roll-back may.
PausedUntilResumed ==
  [][sched # None /\ sched.state # "active" /\ sched' # None
       /\ sched'.state = "active" =>
       \E c \in Caller : At(c, "rollback") \/ (At(c, "flip") /\ op[c].kind = "resume")]_vars

\* What Temporal does by itself is not in the row.
Follows(state, status) ==
  state = status \/ (state = "tripped" /\ status = "active")

\* While operations follow each other, none is cut short and no roll-back
\* fails, the record and the schedule agree at the end of each, whichever other
\* of their steps failed: there is no schedule without a record, and where both
\* exist they have the same commit, one that can be unpacked, and the schedule
\* its manifest names.  Two failures leave them apart and are named: a row
\* without its schedule, only after a delete that could not remove the row and
\* until one that can; a status that is not the schedule's, only after a pause
\* or resume that could not write the row and until one that can, but for the
\* pause that Temporal makes after a failed run.
AgreeWhenQuiet ==
  "torn" \notin disturbed /\ InProgress = {} =>
    /\ record = None => sched = None
    /\ record # None => record.commit \in repo
    /\ record # None /\ sched = None => "row" \in disturbed
    /\ record # None /\ sched # None =>
         /\ sched.commit = record.commit
         /\ sched.spec = record.commit.spec
         /\ Follows(sched.state, record.status) \/ "status" \in disturbed

\* An update that answers "already current" found a schedule of that commit,
\* when no other caller was at work.
CurrentIsScheduled ==
  [][\A c \in Operator :
       At(c, "commit") /\ op'[c].pc = "current" /\ InProgress = {c} =>
         sched # None /\ sched.commit = tree /\ sched.spec = tree.spec]_vars

\* A run whose workflow ended is not recorded as running, unless the answer of
\* its preparation was lost or it was canceled beside its steps.
NoRunLeftRunning ==
  \A r \in Run : runs[r].pc \in Ended /\ ~runs[r].excused => NotActive(r)

\* A run that executes its steps has its source, unless KeepLast directories
\* were made after its own, the workflow was deleted, or an attempt left behind
\* by a timeout has written to the directory since: nothing keeps that one out.
RecentRunsAreKept ==
  \A r \in Run :
    Is(r, "step") /\ dirs[r] \notin {"purged", "remade", "mixed"}
      /\ newer[r] < KeepLast
      => dirs[r] = "source"

\* The commit that a run executes is the one its record names, unless a delete
\* has removed the record.
RunsAreRecorded ==
  \A r \in Run :
    runs[r].commit # None /\ rec[r] # None => rec[r].commit = runs[r].commit

\* A run executes the source as it was when it was due or later, the commit it
\* is recorded with, in a directory that holds all of it but where
\* RecentRunsAreKept names why not.
RunsAreSound == RunsAreFresh /\ RecentRunsAreKept /\ RunsAreRecorded

\* The record and the Temporal schedule agree, and keep the conversation that
\* the workflow reports to.
RecordIsTrue == TypeOK /\ TargetKept /\ AgreeWhenQuiet

=============================================================================
