--------------------------- MODULE WorkflowSchedule ---------------------------
(***************************************************************************)
(* Scheduled workflows (internal/tools/workflowschedule): the operations   *)
(* create, update, trigger, pause, resume and delete, and the preparation  *)
(* of authoring, on one workflow.  Its state lives in three places nobody  *)
(* locks together: the source directory with its git repository, the       *)
(* record in SQLite, and the Temporal schedule.  Each call to one of them  *)
(* is one step here, and the callers interleave between steps.  Runs of    *)
(* the workflow publish its source with the same steps (ScheduledRun).     *)
(*                                                                         *)
(* A commit is named by the tree it holds: every edit has a version of its *)
(* own, so no two commits hold the same tree.  CommitBundle, and the       *)
(* reading and completing of the manifest, are taken as atomic.            *)
(***************************************************************************)
EXTENDS Integers, FiniteSets, Sequences, SequencesExt

CONSTANTS
  Operator,     \* calls of an operation
  Run,          \* runs of the workflow
  Casts,        \* the sets of callers that may meet in one behaviour
  Edits,        \* for each of them, what edits may make of the manifest: its
                \* spec and target
  MaxVersion,   \* bound on the edits
  Faults,       \* which faults happen
  None

Caller == Operator \cup Run
\* store: a write to SQLite fails; temporal: a schedule call fails; cut: a
\* caller ends in the middle (its worker dies, or its context ends)
ASSUME FaultAssumption == Faults \subseteq {"store", "temporal", "cut"}
ASSUME EditAssumption ==
  Edits \in [Casts -> SUBSET ({"cron", "oneshot", "broken"} \X {"home", "unset"})]
ASSUME CastAssumption == Casts \subseteq SUBSET Caller
ASSUME CallerAssumption == Operator \cap Run = {}
ASSUME VersionAssumption == MaxVersion \in Nat

VARIABLES
  cast,      \* the callers of this behaviour
  tree,      \* the source directory: its version, manifest and target
  repo,      \* the commits of its repository
  record,    \* the row of scheduled_workflows, or None
  sched,     \* the Temporal schedule, or None
  due,       \* the time a one-shot manifest names has passed
  op,        \* each caller: its operation, its step and what it has read
  runs,      \* each run: where its workflow is
  rec,       \* each row of scheduled_workflow_runs: its status and commit
  dirs,      \* each run's directory: none, or purged by a delete; with its
             \* source; made empty, or remade after a delete; or mixed,
             \* emptied or overwritten by an attempt that was given up
  order,     \* the runs by the last creation of their directory, newest first
  newer,     \* history: how many directories were made after each run's own
  disturbed  \* history: "torn", callers overlapped, one was cut short or a
             \* roll-back failed; "status", a schedule was paused or resumed
             \* and its row not written; "row", a schedule was deleted and its
             \* row not

source == <<tree, repo>>
runState == <<runs, rec, dirs, order, newer>>
vars == <<cast, source, record, sched, due, op, runState, disturbed>>

Kind == {"create", "update", "trigger", "pause", "resume", "delete",
         "author", "checkpoint"}
Resting == {"idle", "ok", "current", "error"}
\* A caller at a step, that has read nothing yet.
Unread(kind, pc) == [kind |-> kind, pc |-> pc, was |-> None, loaded |-> None,
                     commit |-> None, prev |-> None]
AtRest(pc) == Unread("none", pc)

\* LoadManifest: the directory holds a manifest that is valid
Loadable(t) == t.spec \in {"cron", "oneshot"}
Present(t) == t.spec # "absent"
Absent(v) == [version |-> v, spec |-> "absent", target |-> "unset"]
\* InitializeBundle: the directory has a repository and no manifest
Bare(v) == [version |-> v, spec |-> "bare", target |-> "unset"]
Tree0 == [version |-> 0, spec |-> "cron", target |-> "home"]

\* There is no workflow, or one was created from the channel "home".
Init ==
  /\ cast \in Casts
  /\ \/ /\ tree = Absent(0) /\ repo = {} /\ record = None /\ sched = None
     \/ /\ tree = Tree0 /\ repo = {Tree0}
        /\ record = [status |-> "active", commit |-> Tree0, source |-> "home"]
        /\ sched = [commit |-> Tree0, spec |-> "cron", target |-> "home",
                    state |-> "active"]
  /\ due = FALSE
  /\ op = [c \in Caller |-> AtRest("idle")]
  /\ runs = [r \in Run |-> [pc |-> "idle", attempt |-> 1, floor |-> 0,
                            commit |-> None, victims |-> <<>>, excused |-> FALSE,
                            left |-> FALSE]]
  /\ rec = [r \in Run |-> None]
  /\ dirs = [r \in Run |-> "none"]
  /\ order = <<>>
  /\ newer = [r \in Run |-> 0]
  /\ disturbed = {}

At(c, pc) == op[c].pc = pc
Goto(c, pc) == op' = [op EXCEPT ![c].pc = pc]
Rest(c, pc) == op' = [op EXCEPT ![c] = AtRest(pc)]
InProgress == {c \in Caller : op[c].pc \notin Resting}
Disturb(what) == disturbed' = disturbed \cup {what}
Overlaps == IF InProgress = {} THEN UNCHANGED disturbed ELSE Disturb("torn")

Start(c, kind, pc) ==
  /\ op' = [op EXCEPT ![c] = Unread(kind, pc)]
  /\ Overlaps

\* An operation starts with the first of its steps.
Begin(c, kind) ==
  /\ c \in cast \cap Operator
  /\ At(c, "idle")
  /\ Start(c, kind,
           CASE kind \in {"update", "trigger"} -> "read"
             [] kind \in {"create", "author"} -> "check"
             [] kind = "checkpoint" -> "find"
             [] kind \in {"pause", "resume"} -> "flip"
             [] kind = "delete" -> "unschedule")
  /\ UNCHANGED <<cast, source, record, sched, due, runState>>

\* A person, or the agent that authors the workflow, edits its files.
Edit(edit) ==
  /\ Present(tree)
  /\ tree.version < MaxVersion
  /\ tree' = [version |-> tree.version + 1, spec |-> edit[1],
              target |-> edit[2]]
  /\ Overlaps
  /\ UNCHANGED <<cast, repo, record, sched, due, op, runState>>

TimePasses ==
  /\ ~due
  /\ \E edit \in Edits[cast] : edit[1] = "oneshot"
  /\ due' = TRUE
  /\ UNCHANGED <<cast, source, record, sched, op, runState, disturbed>>

\* A caller stops where it is.
Cut(c) ==
  /\ "cut" \in Faults
  /\ c \in Operator
  /\ op[c].pc \notin Resting
  /\ Rest(c, "error")
  /\ Disturb("torn")
  /\ UNCHANGED <<cast, source, record, sched, due, runState>>

-----------------------------------------------------------------------------
(* commitAuthoredBundle, of create and of publishCurrentSource.            *)

FallbackSource(c) == "away"
\* preservedWorkflowSourceEvent: a record keeps the channel it was created
\* from, whoever publishes; operations on an existing workflow come from the
\* channel "away".
SourceOf(c) ==
  IF op[c].kind = "create" THEN "home" ELSE op[c].was.source

\* ensureManifestNotificationTarget: a manifest without a target gets the
\* channel of the workflow.
WithTarget(c) ==
  IF tree.target = "unset" THEN [tree EXCEPT !.target = SourceOf(c)] ELSE tree

LoadAsWritten(c) ==
  /\ At(c, "load")
  /\ IF Loadable(tree)
       THEN op' = [op EXCEPT ![c].pc = "commit", ![c].loaded = tree]
       ELSE Rest(c, "error")
  /\ UNCHANGED <<cast, source, record, sched, due, runState, disturbed>>
\* The manifest is loaded, and written back with its target.
Load(c) ==
  /\ At(c, "load")
  /\ IF Loadable(tree)
       THEN /\ tree' = WithTarget(c)
            /\ op' = [op EXCEPT ![c].pc = "commit", ![c].loaded = WithTarget(c)]
       ELSE Rest(c, "error") /\ UNCHANGED tree
  /\ UNCHANGED <<cast, repo, record, sched, due, runState, disturbed>>

\* What follows a publication: the trigger, the preparation of the run, or
\* the answer.
Published(c, commit, answer) ==
  op' = [op EXCEPT ![c] =
          [kind |-> op[c].kind,
           pc |-> CASE op[c].kind = "trigger" -> "trigger"
                    [] op[c].kind = "prepare" -> "archive"
                    [] OTHER -> answer,
           was |-> None, loaded |-> None, prev |-> None, commit |-> commit]]

\* The commit is the one of the record as it was read.
Current(c) == op[c].was # None /\ op[c].was.commit = tree
\* scheduleSpec rejects a one-shot whose time has passed.
TooLate(c) == op[c].loaded.spec = "oneshot" /\ due

\* CommitBundle commits whatever the directory holds by now.  A current
\* commit is the answer; otherwise the schedule is made of the manifest as it
\* was loaded.
Commit(c) ==
  /\ At(c, "commit")
  /\ IF ~Present(tree)
       THEN Rest(c, "error") /\ UNCHANGED repo
       ELSE /\ repo' = repo \cup {tree}
            /\ CASE Current(c) -> Published(c, tree, "current")
                 [] ~Current(c) /\ TooLate(c) -> Rest(c, "error")
                 [] OTHER ->
                      op' = [op EXCEPT ![c].commit = tree, ![c].pc = "schedule"]
  /\ UNCHANGED <<cast, tree, record, sched, due, runState, disturbed>>

\* scheduleOptions, of the commit and the loaded manifest
Scheduled(c, state) ==
  [commit |-> op[c].commit, spec |-> op[c].loaded.spec,
   target |-> op[c].loaded.target, state |-> state]

\* workflowRecord
Recorded(c, status) ==
  [status |-> status, commit |-> op[c].commit, source |-> SourceOf(c)]
\* UpsertScheduledWorkflow replaces every column, or inserts the row again; a
\* source event, which is never empty here, too.
Upsert(row) == record' = row

-----------------------------------------------------------------------------
(* publishCurrentSource.                                                   *)

Read(c) ==
  /\ At(c, "read")
  /\ IF record = None
       THEN Rest(c, "error")
       ELSE op' = [op EXCEPT ![c].pc = "load", ![c].was = record]
  /\ UNCHANGED <<cast, source, record, sched, due, runState, disturbed>>

StateAsRead(c) == op[c].was.status
\* scheduleUpdateFromOptions keeps the state the schedule has.
KeptState(c) == sched.state

UpdateSchedule(c) ==
  /\ At(c, "schedule")
  /\ op[c].kind # "create"
  /\ IF sched = None
       THEN Rest(c, "error") /\ UNCHANGED sched
       ELSE \/ /\ op' = [op EXCEPT ![c].pc = "record", ![c].prev = sched]
               /\ sched' = Scheduled(c, KeptState(c))
            \/ /\ "temporal" \in Faults
               /\ Rest(c, "error") /\ UNCHANGED sched
  /\ UNCHANGED <<cast, source, record, due, runState, disturbed>>

\* The record is written with the status it was read with, and again when it
\* has been deleted since; a write that fails is followed by the roll-back.
UpdateRecord(c) ==
  /\ At(c, "record")
  /\ op[c].kind # "create"
  /\ \/ /\ Upsert(Recorded(c, op[c].was.status))
        /\ Published(c, op[c].commit, "ok")
     \/ /\ "store" \in Faults
        /\ Goto(c, "rollback") /\ UNCHANGED record
  /\ UNCHANGED <<cast, source, sched, due, runState, disturbed>>

KeepUpdated(c) ==
  /\ At(c, "rollback")
  /\ Rest(c, "error")
  /\ UNCHANGED <<cast, source, record, sched, due, runState, disturbed>>
\* rollbackScheduleUpdate puts back the whole schedule as it was.
RollBack(c) ==
  /\ At(c, "rollback")
  /\ Rest(c, "error")
  /\ \/ sched # None /\ sched' = op[c].prev /\ UNCHANGED disturbed
     \/ sched = None /\ UNCHANGED <<sched, disturbed>>
     \/ "temporal" \in Faults /\ UNCHANGED sched /\ Disturb("torn")
  /\ UNCHANGED <<cast, source, record, due, runState>>

-----------------------------------------------------------------------------
(* create, and the preparation of authoring.                               *)

\* workflowExists asks the record only.
Check(c) ==
  /\ At(c, "check")
  /\ IF record # None THEN Rest(c, "error")
       ELSE Goto(c, IF op[c].kind = "create" THEN "load" ELSE "initialize")
  /\ UNCHANGED <<cast, source, record, sched, due, runState, disturbed>>

CreateSchedule(c) ==
  /\ At(c, "schedule")
  /\ op[c].kind = "create"
  /\ \/ /\ sched = None
        /\ sched' = Scheduled(c, "active")
        /\ Goto(c, "record")
     \/ /\ sched # None \/ "temporal" \in Faults
        /\ Rest(c, "error") /\ UNCHANGED sched
  /\ UNCHANGED <<cast, source, record, due, runState, disturbed>>

CreateRecord(c) ==
  /\ At(c, "record")
  /\ op[c].kind = "create"
  /\ \/ /\ Upsert(Recorded(c, "active"))
        /\ Rest(c, "ok")
     \/ /\ "store" \in Faults
        /\ Goto(c, "undo") /\ UNCHANGED record
  /\ UNCHANGED <<cast, source, sched, due, runState, disturbed>>

\* The schedule of a workflow that could not be recorded is deleted.
UndoCreate(c) ==
  /\ At(c, "undo")
  /\ Rest(c, "error")
  /\ \/ sched' = None /\ UNCHANGED disturbed
     \/ "temporal" \in Faults /\ UNCHANGED sched /\ Disturb("torn")
  /\ UNCHANGED <<cast, source, record, due, runState>>

\* prepareCreateAuthoring replaces what is in the directory.
Initialize(c) ==
  /\ At(c, "initialize")
  /\ tree' = Bare(tree.version)
  /\ repo' = {}
  /\ Rest(c, "ok")
  /\ UNCHANGED <<cast, record, sched, due, runState, disturbed>>

\* prepareUpdateAuthoring commits the local edits there are.
\* CleanupAuthoring, at the end, does nothing.
Find(c) ==
  /\ At(c, "find")
  /\ IF record # None /\ Present(tree) THEN Goto(c, "save") ELSE Rest(c, "error")
  /\ UNCHANGED <<cast, source, record, sched, due, runState, disturbed>>
Checkpoint(c) ==
  /\ At(c, "save")
  /\ Rest(c, IF Present(tree) THEN "ok" ELSE "error")
  /\ repo' = repo \cup {t \in {tree} : Present(t)}
  /\ UNCHANGED <<cast, tree, record, sched, due, runState, disturbed>>

-----------------------------------------------------------------------------
(* pauseState and delete.                                                  *)

\* statusFromPaused
StateAfter(c) == IF op[c].kind = "pause" THEN "paused" ELSE "active"

Flip(c) ==
  /\ At(c, "flip")
  /\ \/ /\ sched # None
        /\ sched' = [sched EXCEPT !.state = StateAfter(c)]
        /\ Goto(c, "look")
     \/ /\ sched = None \/ "temporal" \in Faults
        /\ Rest(c, "error") /\ UNCHANGED sched
  /\ UNCHANGED <<cast, source, record, due, runState, disturbed>>

Look(c) ==
  /\ At(c, "look")
  /\ IF record = None THEN Rest(c, "ok")
       ELSE op' = [op EXCEPT ![c].pc = "mark", ![c].was = record]
  /\ UNCHANGED <<cast, source, record, sched, due, runState, disturbed>>

\* The row is written back as it was read, with the new status.  When that
\* fails, or the read before it, the schedule stays as it is, paused or resumed.
Mark(c) ==
  /\ At(c, "mark")
  /\ \/ /\ Upsert([op[c].was EXCEPT !.status = StateAfter(c)])
        /\ Rest(c, "ok")
        /\ disturbed' = disturbed \ {"status"}
     \/ /\ "store" \in Faults
        /\ Rest(c, "error")
        /\ Disturb("status")
        /\ UNCHANGED record
  /\ UNCHANGED <<cast, source, sched, due, runState>>

\* A schedule that is not found is as good as deleted.
Unschedule(c) ==
  /\ At(c, "unschedule")
  /\ \/ sched' = None /\ Goto(c, "forget")
     \/ "temporal" \in Faults /\ Rest(c, "error") /\ UNCHANGED sched
  /\ UNCHANGED <<cast, source, record, due, runState, disturbed>>

\* DeleteScheduledWorkflow: the rows of the workflow and of its runs.  When
\* that fails, they stay without a schedule.
Forget(c) ==
  /\ At(c, "forget")
  /\ \/ /\ record' = None
        /\ rec' = [r \in Run |-> None]
        /\ Goto(c, "removing")
        /\ disturbed' = disturbed \ {"status", "row"}
     \/ /\ "store" \in Faults
        /\ Rest(c, "error")
        /\ Disturb("row")
        /\ UNCHANGED <<record, rec>>
  /\ UNCHANGED <<cast, source, sched, due, runs, dirs, order, newer>>

RemoveSource(c) ==
  /\ At(c, "removing")
  /\ tree' = Absent(tree.version)
  /\ repo' = {}
  /\ Goto(c, "purge")
  /\ UNCHANGED <<cast, record, sched, due, runState, disturbed>>

\* The directories of the runs, and the logs.
Purge(c) ==
  /\ At(c, "purge")
  /\ dirs' = [r \in Run |-> IF dirs[r] = "none" THEN "none" ELSE "purged"]
  /\ order' = <<>>
  /\ Rest(c, "ok")
  /\ UNCHANGED <<cast, source, record, sched, due, runs, rec, newer, disturbed>>

=============================================================================
