# TLA+ models of OpenCTO

OpenCTO is a Go program that runs an AI technical operator on Temporal: messages
from Discord, Telegram or the command line reach one long-running workflow per
project, which starts a child workflow per task; a task asks a language model
what to do, runs tools and sub-agents, and reports. This directory models the
parts of it whose correctness depends on the order in which things happen, on
what fails in between, or on boundaries that are hard to hit; it checks the
models with TLC and proves the main invariants of the core with TLAPS. Paths
below are relative to `src/internal`.

## The system

| Part | State | Operations | Model |
|---|---|---|---|
| project workflow, `runtime/workflows/project.go` | queue, recent event ids, processed count, active map, owners of messages and threads, pending reports | receive an event, start a child, collect a result, report it, continue as new | `ProjectRouter`, `EventLedger` |
| task workflow, `runtime/workflows/task.go` | cycle, additional events, process list, the flags of the running step | decide, run a tool, take a signal, complete | `TaskRun` |
| agent workflow, `runtime/workflows/agent.go`; next-action activity | turns, results, observations, work item, completion tool | drain, compress, decide, run tools, publish, hand over | `AgentRun`, `Transcript` |
| process manager and exec tool, `tools/exec` | OS process, its record file | start, promote, wait, check, stop | `ProcessManager` |
| schedule publishing, `tools/workflowschedule`, `workflowbundle` | source directory with its commits, database record, Temporal schedule | create, update, trigger, pause, resume, delete, prepare authoring | `WorkflowSchedule` |
| scheduled run, `runtime/workflows/workflow_run.go` and its activities | run record, run directory | prepare, retain, execute, complete | `ScheduledRun` |
| onboarding, `runtime/activities/onboarding.go` | the project's onboarding row | prepare, finalize, skip | `Onboarding` |
| memory tools, `runtime/activities/memory_*.go`, `storage/sqlite` | memories, text index, embeddings | add, update, forget, search, recent | `MemoryStore` |
| conversation, `runtime/activities/*conversation*.go`, `storage/sqlite` | messages, threads, summaries | append, compress, show, answer, reset | `Conversation` |
| migrations, `storage/sqlite/store.go` | schema, applied versions | open, migrate, verify | `Migration` |
| channels, `channels` | handlers of messages, Discord's cache of threads, downloads, reports under way | place, download, enqueue, answer, post | `Channel`, `TextSplit` |
| file and search tools, `tools/{read,write,edit,glob,grep}` | the files | each of them, in batches | `Workspace` |
| dispatcher, scheduled events | none | signal-with-start | `Deliver` of `ProjectRouter`, `Enqueue` of `Channel` |
| language model client | none | build the transcript, accept answers | `Transcript` |
| configuration, prompts, skills, media, CLI | | | not modelled |

How they interact. A channel handler places a message, downloads its files and
signals the project workflow (signal-with-start). The project workflow starts
task workflows as children, signals them (cancel, interrupt, additional
context), waits for their futures and runs the report activity, which posts in
the channel and then writes the rows of the conversation. A task runs activities
and agent children and waits in a selector for a result or a signal; it prepares
the onboarding, compresses and reads the conversation and the memories before it
asks the model. Tools start processes through the process manager, change files
that several agents share, and publish scheduled workflows. A schedule's run
publishes the source itself before it unpacks and executes it; a schedule's
tick sends the project workflow an event.

What is hard here: signals that arrive while a workflow is inside a blocking
call; duplicates after a window forgets; activities whose answer is lost and
which are retried after they had an effect, or run on after their workflow
stopped waiting; several callers of one file, one row or one schedule without a
lock; a service called between two transactions; an index fetched before it is
filtered; times compared as text; crashes between migrations. Each such place is
a hazard in `PROJECT.json`, with the property that covers it.

## Modules

`EventLedger` - the promise of the project workflow, without its mechanics: per
event a status `unseen`, `absorbed`, `queued`, `running`, `owed` (an answer not
yet reported) or `settled`.

`ProjectRouter` - `ProjectWorkflow`. The workflow is one coroutine that gives up
control only in its blocking calls; `pc` says in which one it is (`report`,
`start`, `context`, `cancel`, `interrupt`) or where in the loop it goes on
(`top`, `fill`, `select`). The variables are the fields of
`ProjectWorkflowState` (`queue`, `recent`, `processed`) and the locals of the
function (`active`, `messageOwner`, `threadOwner`, `pending`, `started`). Handling
one signal is one action per outcome: `DropDuplicate`, `Drop`, `Enqueue`,
`Route`, `Control`. The children and the dispatcher are the environment:
`Deliver`, `TaskCloses`. `ContinueAsNew` keeps what the snapshot has and loses
the rest. `ProjectRouterLedger` is the refinement mapping to `EventLedger`.

`TaskRun` - `TaskWorkflow` with its steps. `pc` is `drain`, `decide`, `step` (the
tool loop), `tool` (inside a selector), `final` (after the last cycle),
`completion` or `done`. `proc` is what runs in the operating system, `refs` what
the task knows of it; a tool that the task abandoned may still start a process,
which is then `adrift`.
`Faults`: a NextAction fails or is retried after it stopped processes
(`decision`), a process cannot be stopped (`stop`), a worker is lost (`lost`). An
agent is its outcome here; `AgentRun` has its inside.

`AgentRun` - the task's agent step (`parent`) and the child: each turn drains the
signals (`Drain`), compresses what is older than `Recent` observations
(`Compress`), decides, and runs the tools of the answer one by one. `last` are the
results of the turn, `history` the observations, `summary` what compression took
from them, `item` the status of the work item. The agent of a workflow author
has a completion tool, which publishes; `late` is an activity that was left behind.
`Transcript` says which histories the client can turn into messages that the
provider accepts.

`ProcessManager` - one process, its record, `Start` or a foreground command that is
promoted, its goroutine, and any number of concurrent `Stop` and `Check` calls. A
read and the following write are two actions. `Daemonizes` lets the process leave
members in its group, `MayCrash` lets the worker die, `DiskFails` lets reads and
later writes of the record fail.

`WorkflowSchedule` and `ScheduledRun` - one scheduled workflow. Its state is in
three places that nobody locks together: `tree` and `repo` (the directory and its
commits), `record` (the row), `sched` (Temporal). Each call to one of them is a
step; `op[c]` holds what the caller has read. A run goes through `prepare`,
publishing with the same steps, unpacking, recording, retention (`Victims`), the
steps and `Complete`. An attempt of the preparation that runs out of its minute
(`TimesOut`) may still unpack (`left`, `Late`) while the next one prepares the
same directory, or while the steps run; that directory is then `mixed`, for nothing
in the code keeps the old attempt out. `rec` has the status and the commit that a
run is recorded with. A failed run makes Temporal pause its schedule by itself
(`Trip`), and the row is not told: `sched.state` is `active`, `paused` or `tripped`.
`disturbed` remembers, by kind, what the record and the schedule cannot be expected
to survive: callers overlapped, one was cut short, or a roll-back failed (`torn`); a
pause or resume could not write the row (`status`); a delete could not (`row`).

`Onboarding`, `MemoryStore`, `Migration`, `Conversation` - the database. Every
statement or transaction is a step, and each task, call, turn or process holds
what it read. `Conversation` composes the four: a task's onboarding ends with a
memory call, a reset deletes memories beside messages. A time is a number of half
seconds, and `Formatted` orders times as the texts the store compares.

`Workspace`, `TextSplit`, `Channel` - the edge. A file is a sequence of lines, with an
inode generation and a time; writing is truncation and then writing. `Channel`
has a handler for each message (`inbox`), the cache of threads (`threads`), the
events sent (`events`) and the reports under way (`reports`), and downloads into
the files of `Workspace`. A Discord message belongs to the thread it carries
(`tag`: the one it is in, or the one started from it in the parent channel), any
other to the channel it is written in (`Home`). `TextSplit` has the cutting of long texts, as
operators on positions.

`MC*` modules instantiate these for TLC; `*Proofs` modules hold the theorems.

In `Conversation`, `AgentRun`, `Channel` and `WorkflowSchedule` a variable `cast` is
chosen at the start and never changes: who acts in this behaviour and what may
fail. It keeps apart actors that share no state (two readers of a file and two
chunked reports), so that the pairs and triples that do meet are explored in all
their interleavings. The casts are enumerated in the MC modules.

## Runs

| Run | Question | Bounds | Result |
|---|---|---|---|
| `router_chat` | ownership, single reporting, handling, and the ledger refined | a message, a reply that opens a thread, a message in it and a reset there; 4 deliveries, so every event can come or one can come up to four times; 2 task slots, continue-as-new after 3 | holds, 117,853 states |
| `router_eviction` | what survives a window of one id; one task per schedule | a message, an attachment, a cancel, two ticks of a schedule; 5 deliveries; 2 slots; child starts are refused | holds, 1,074,409 |
| `router_can` | the ledger's promise past the continue-as-new threshold | 2 tasks, threshold 1 | violated, see Findings |
| `task_signals` | what a task keeps whatever arrives when, and that it closes | a cancel, two interrupts (one blank), a context message; exec, memory, agent and authoring steps; a stop_on_finish and a project process; every fault; 2 cycles | holds, 639,281 |
| `task_cancel_forgotten` | an interrupt during a canceled step | a cancel, an interrupt | violated, see Findings |
| `agent` | a step and its sub-agent | 3 turns, answers of one or two calls (one that is refused), a cancel and an interrupt or context, failing, lost and unnamed calls, two processes, the completion tool | holds, 243,766 |
| `process` | is the record true and final, and complete in the end | two Stops, two Checks, crash of the worker, failing disk, groups that outlive their leader | holds, 22,366 |
| `process_group` | does Stop stop the group | one Stop | violated, see Findings |
| `schedule` | operations and runs against each other | two callers of eight operations, or an operation and a run, or two runs (operators are alike, and runs are); one edit (to a one-shot, without the target, or breaking the manifest), not beside two runs; a one-shot's time; SQLite, Temporal and worker failures; two attempts, either of which may time out; Temporal's own pause; retention of 1 | holds, 368,880 |
| `schedule_current` | is a publication that says "current" right | two operations, one edit | violated, see Findings |
| `context` | what the agent remembers | three tasks in onboarding with a memory call; two memory calls of any of twelve requests, or three that rival for the same rows; two or three turns in a channel and its thread; a reset of either beside turns and calls; two processes that open a database of any version; failing statements, embeddings and lost answers | holds, 753,023 |
| `edge` | messages, reports and files | two callers of the file tools on three files; a Discord, command, Telegram or console message (on Discord also one that started a thread) with files of all sizes around the limit and its report; failures (two per behaviour), posts that Discord's client makes twice, redeliveries, a restart; every text of up to five characters of six kinds on Discord, and every one of seven characters over word, # and line on Telegram | holds, 159,304 |

A property that is a conjunction of named parts has one part per way to go wrong,
each with its own comment in the module and, in `PROJECT.json`, a mutant of the
code that breaks that part.

Why the bounds are enough. An ownership conflict needs two tasks and a third
event that moves a message or thread between them; the races of a schedule's ticks
need two of them; duplicates after eviction need one id more than the window
holds. A task's second cycle, and an agent's third turn, meet everything the ones
before left behind, and the last is met at the bound; with one recent observation
the second turn already compresses. The races for a record or a schedule need two
writers; retention of one makes the second run delete the first. Two runs meet no edit: what they
share is a publication, which an operation makes with the same steps and meets
every edit beside a run, and the retention of their directories, which an edit does not
change. The rival memory
calls include a third, which can come between a write and its embedding after the
second has changed the row. History, recent messages and trigger of one make
the second message of a place be summarized and the third be cut off. A text of
five characters against a limit of three has every cut between every pair of
kinds; headings before headings need seven. `MaxDeliveries`, `MaxTime`,
`MaxVersion`, `MaxFaults` and `MaxTrouble` bound the environment and are the only
bounds that the code does not have (its own are constants here: cycles, turns,
attempts, slots, windows, limits).

Deadlock is not checked where the system stops by itself: when nothing is
delivered, when the task has closed, when the process has ended and nobody calls,
when every caller is done. `AgentRun` and `Channel` say how they end, and deadlock
is checked there.

## Fairness

* `ProjectRouter`: Temporal schedules the coroutine (`WF(Step)`), answers each
  blocking call (`WF(Answer)`: the report activity has a timeout of one minute and
  one attempt; starts and signals are answered by the server), and each child
  closes (`WF(TaskCloses)`, which `Closes` of `TaskRun` supports). Nobody has to
  deliver.
* `TaskRun`: the workflow moves (`WF(Coroutine)`); a NextAction has a timeout of
  two minutes and five attempts (`WF(Decision)`, so lost answers do not go on for
  ever); a tool has a timeout of ten minutes and one attempt, an agent a bounded
  number of turns (`WF(Return)`). Processes need not end and signals need not come.
* `AgentRun`: the task and the child move (`WF(Task)`, `WF(Agent)`), and a running
  activity ends, by its own timeout if not otherwise (`WF(Activity)`).
* `ProcessManager`: `Start` and its goroutine run, and a call that has begun ends.
  The process need not end, and nobody has to call.
* `Channel`: each message's handler goes on, and Telegram sends an update again
  until it is answered (`WF(Inbound)` per message). The failures of a behaviour are
  bounded, as the wait for an answer would not end otherwise.

The other modules state no liveness: their callers may always end early.

## Proofs

All theorems hold for every value of the constants that satisfies the named
assumptions of the modules. What these assume: events, calls, contents and
processes are what the code can be given (`RequestAssumption`, `ContentAssumption`,
`BodyAssumption`, `AgentAssumption`, `PlanAssumption`, `WorkspaceAssumption`,
`CastAssumption`, `ChannelAssumption`); `None` and `NoRow` are none of the values they
stand beside (`NoneAssumption`, `NoRowAssumption`, `NothingAssumption`); times are
numbers and the ids of messages have an order (`TimeAssumption`,
`OrderAssumption`); the memories and databases of the start are those that the
program itself could have written (`SeedAssumption`, `Earlier`); and limits are
natural numbers, positive where the code makes them so (`SizeAssumption`,
`LimitAssumption`, `KeepLastAssumption`).

The proof modules have the state of a component in layers: types, then what the
property needs of the steps in between, then the property. A component whose
steps touch few variables at a time has a lemma that sorts its steps into kinds
by what they change (`SignalKind`, `TurnKinds`), so that a part of an
invariant is disturbed by two or three kinds only.

### Router

`ProjectRouterProofs`. `TypeCorrect`: `TypeOK` is not inductive, since an action
that ends a blocking call uses the event the call was made for; `CurrentIsSet`
adds that `current` is an event while a call is open. `OwnersCorrect`,
`TrackingCorrect` and `BoundCorrect` follow from one invariant, `ActiveInv`: the
active map has one entry per id and at most `MaxActive` of them, strictly fewer
while a child start is open (`ActiveShape`); every owner is an active id; every
running child is an active id (`RunningIsTracked`, which only the proof
establishes). The bound on running children is then a fact about cardinalities
of subsets. `ScheduleCorrect` is inductive on its own given the types: a scheduled
event is queued only when neither queue nor active map has its schedule, and no
signal is handled while a child is being started, so the event in flight can be
in neither.

The second part of the module is what rests on duplicate suppression:
`ReportsCorrect`, `OpenerCorrect` and `LedgerImplemented`, the refinement of
`EventLedger`. All three are conditional on `WindowHolds`: there are no more ids than
the window remembers (1000 in the code). Without it they are false: a redelivery
of a forgotten id is a new task, and `router_eviction` checks what holds then.
`OpenerCorrect` also needs that two events share a message only when they are
the same event or ticks of one schedule (`OwnMessages`; the dispatcher makes the id
of an event from its message). The invariant `LedgerInv` says that an id is in one place at a time (queue, child
start, active map, pending reports), that the state of its child and its count of
reports say in which one, and that the window has every id that was ever in one.
The refinement, `LedgerRefined`, goes by the actions of the router: each moves one
event of the ledger (`OneMoves`) or none.

### Tasks and agents

`TaskRunProofs`. `TypeCorrect` by cases on the actions. `PersistedCorrect`: what
was received is persisted or in `taken`, which is empty outside a step
(`PersistInv`). `ConsideredCorrect`: `additional` has every message received, and
a task that has not closed has no outcome (`ConsiderInv`). `DraftCorrect`: a draft
is prepared only while the authoring step waits (`DraftInv`). `CanceledCorrect`,
for tasks without interrupts and authoring steps: from the step that takes a
cancel the task goes only to its completion request or its end. The two
conditions are needed: `task_cancel_forgotten` shows what an interrupt does, and an
authoring step that published ignores a cancel by design. `NothingLeftCorrect`: what
still runs of the processes that results named to a closed task is of the project,
or could not be stopped (`KnownInv`: the task's list is what runs and has a name;
what an abandoned tool starts has none, and is `adrift`).

`AgentRunProofs`. `ResultCorrect` needs three invariants, one per thing that the
result tells: a completed item is the agent's last act unless a result reopens it or an
interrupt dropped that result (`ItemInv`); what was published is in the completion
tool that just ended or in a result that says so (`PublicationInv`); a process that
was left running is in the agent's list, in the tool that just ends, or in the
result (`ProcessInv`). `CancelHolds` follows from `CancelInv`: the agent that took
a cancel ends with the tool it runs at the latest. `KeepsResults` (`KeptInv`) says that a persisted result is before the model or in the summary,
through `Compress`, which moves a prefix of the observations into it.
`AcceptsTranscript` (`TranscriptInv`) holds for models that name their calls: no two
observations are of one call, and a call that runs or is planned has not been
observed. That every observation is of a group that ends (`GroupEnds`) is shown
with a least number (`LeastNumber`), where a recursion over the observations would
need induction.

### Processes

`ProcessManagerProofs`. `FinalCorrect`: the only write of `running` is the first one of
`Start`, which finds no record. `OverCorrect` and `FailedStartCorrect` follow from one
invariant: whoever wrote or is about to write an outcome, and a start or command that
is over, knows how the process ended. A start or a command that terminates its
process leaves nothing of its group; one whose process ended by itself (`exited`,
`finished`) only knows that the leader is gone, and what the leader left in its group
may live on, as the child of `sh -c "sleep 30 &"` does. A worker that died is exempt.
`WaitedCorrect`: while the disk works, the goroutine that is through has left an outcome.

### Schedules

`ScheduledRunProofs`. `RecordCorrect`: the types; the channel that a workflow reports to, which is kept
because no manifest names another one and so nothing that was read of one does
(`TargetInv`); and the agreement of record and schedule when nothing is under way
and no two callers have overlapped, for which `QuietInv` says how far record,
schedule and directory are apart at each step of an operation (`Midway`), failed row writes
included.
`RunsCorrect` and `RunsEnd` follow from `RunInv`: a directory has moved behind at
least those before it in the order (`Ordered`), one that is to be deleted behind
`KeepLast` of them (`Outlived`), a filled one keeps its source till then unless an older attempt writes to it (`Sourced`),
a run has committed nothing older than the directory was at its start (`Fresh`),
and a row that is running has a run that will complete it, or is excused
(`Completes`). What `Kept` leaves of a sequence is proved by a minimal
counterexample over the natural numbers, which needs no induction theorem.
`PauseHolds` goes through the steps that write the schedule: of all of them only a
resume and a roll-back start a paused one, whether a person paused it or Temporal.
`QuietIsCurrent` is what is left of the claim that `schedule_current` refutes: when
no two callers overlapped, none was cut short and no roll-back failed, an update
that answers "already current" is right (`QuietInv`), but for the row that a failed
delete left without a schedule.

What these do not say. `AgreeWhenQuiet` names two disagreements that a failed row
write leaves behind, as nothing in the code repairs them before the same
operation is done again: a status that is not the schedule's, after a pause or
resume, and a row without its schedule, after a delete; and Temporal's pause after a
failed run, which never reaches the row. `RunsCorrect` leaves out the steps of a run
whose directory was removed by a delete, has fallen behind `KeepLast` newer ones, or
was written to by an attempt left behind. `RunsEnd` leaves out the runs whose
preparation's answer was lost and those canceled in their preparation or their last
completion: they stay `running` in their record. `PauseHolds` leaves out the
roll-back, which puts back the whole schedule it had read.

### Database

`ConversationProofs`. `MemoriesCorrect`: memories and both indexes change in
single transactions, so keys and the indexes are inductive with the types.
`VectorIsCurrent` is not, since a memory and its embedding are written in two
steps: `WriterInv` orders the writers of a memory by their time, `TextInv`
says that the last of them wrote its text, and `EmbeddedInv` and `DoneInv` that its
embedding is stored or about to be. The attempt to prove it showed that the property was
first stated too strongly: a call that leaves the text as it is leaves a stale
embedding of an earlier call too, so the property asks of every writer that it was
alone and did not fail. `SearchesFind`: of any two embedded memories one is nearer, since memories are
finitely many, no two have one time, and every embedding has a point (`PlacedInv`).
The order that the search sorts by (`ByDistance`) puts each memory
at the place that the count of nearer ones gives it (`Ranks`), so that the
list is a beginning of the sorted ones that match (`NearestFound`). The attempt to prove it as
an invariant showed that it was none: a later forget takes nearer embeddings
away and leaves the list as it was. So the property is about the step that searches.
`ForgetsWhatItMay` (`ForgetInv`): of what was selected, the rows that were not written since are as
the call asked for. `OnboardingCorrect` is conditional: while no two tasks overlap in
it, one task at a time has the onboarding (`TurnsInv`), a call with an answer is waited for by the task that
made it (`CallInv`), and who answers was asked (`AsksInv`). `UpgradesCorrect`: the
database is always one that some version could have left, with all that was written to
it (`DatabaseInv`; `Earlier` says which those are), and what a process has looked
up before it applies a migration still holds when it does (`StarterInv`), or a
migration of another process has been recorded, and the one it is about to record
fails.

`ContextProofs`. Its invariant `ContextInv` takes `Upkeep` from there and adds
`Reading`: rows are as their ids say and of the epoch of their place
(`MessageInv`, `ThreadInv`, `WholeInv`); a reset has selected every memory that was
written before it (`ForgotInv`); a compression goes on from the end of a summary,
and covers all it saw between that and its own end, unless its place was reset
meanwhile (`TurnInv`); behind the end of a summary there is only what one up to
there tells, or what came late (`SummaryInv`); and a turn that is about to read
holds the newest summaries of its places (`ToldInv`) and a bound that is the time
of its root (`BoundInv`). `ResetsForget` follows from the first two. `ContextIsRight`
combines them at the one step that reads the messages: what is not listed is crowded out
or behind the cursor, and the summary at the cursor answers for it. The
sequences of rows are sorted by a community operator; `LatestKey`, `ListOrder` and
`NewestOrder` are what is needed of it.

The attempt to prove it corrected the model twice. `ContextIsWhole` was an
invariant, of what a turn had been shown; that is false when the place is
reset after it read (TLC had no such cast and now has one), so it is about the
step that reads. And the model had the report activity post again after
a failed write, which its single attempt (project.go:137) does not.

### Edge

`ChannelProofs`. Each step of a handler is of one of four kinds (`Starts`, `Places`,
`Records`, `Ends`), whichever platform its message came from, and a handler or an
event carries what is true of its message (`InboundInv`): the identifier is the
digest for Telegram and a random one that no other handler has otherwise
(`IdsDiffer`); the place is the true one, or, for Discord only, the message's own
channel after a request that failed; and each file that was taken is one of the
sizes offered, whole (`LargestIsOffered`, `WhatFitsIsWhole`). The cache of threads holds
only true parents (`CacheTyped`), because a failure is not written to it. What
Discord delivers once is sent once (`SentOnce`): its handler has ended when its event
exists, and an ended handler never starts again. `EventsCorrect` follows. Telegram's
events may repeat, and `PlaceOk` and the digest make the repetitions agree.
`AnswersCorrect` adds `OutboundInv`: a report begins only when its message has an
event; the first such event is the one it answers (`AnsweredIsEvent`); and the target
of an event whose place is unsure is the channel the message was written in
(`TargetIsRight`).

`FilesCorrect` is about the file tools and the downloads that write beside them.
`EditsInv` has two parts: who is about to write, or has truncated a file, holds
what was in it as long as nobody else touched it (`WriterTrue`), and a line that must be
kept is in its file, or an edit that rewrites that line in has it open
(`KeptTrue`). `SearchInv` says what the parts of a call have shown: files only get
younger (`FilesAge`), so that a file whose time is the listed one has not changed since;
of the names visited so far those that match were found, once each; and if such an unchanged
file holds the line that is looked for, rg finds something. A batch of searches
answers by the exit code of its last one (grep.go:173), and what lies before an offset
is not shown: the answer "nothing" speaks for the last search and for those without
an offset (`GrepTellsTheTruth`), and of an earlier one that matched only before its
offset it is false, as is the answer of an rg that could not be run. The newest-first
order of the names is a rank again (`Ranks`). Pages whose
windows follow one another join to the file (`PagesJoin`).

`ReportsRead` is about texts of any length. Each chunk and file is posted in its
turn whatever fails; a repetition is one that Discord's client makes of the post it
is at (`once`), and no other channel has any. What is
told is compared without its blanks (`Ink`), which a recursive function over
positions defines; it exists and is unique by a least number (`InkExists`, `InkIs`),
and the ink of two texts put together is their inks put together (`InkJoins`).
A cut is behind a blank, behind a sentence, or at the limit (`CutFits`,
`BestIs`), so a chunk fits, is not empty, and chunk and rest have the ink of what
was cut (`ChunkTrue`). The invariant `ReadsInv` says of each report by how far it is: what is left
is the text from one of its characters to its last (`LeftFrom`), each chunk
was the first of what was left when it was posted (`ChunkLed`), and files come only
after all of the text, as a beginning of those asked for. A place in the text is told by
the ink before it (`OnePlace`), which gives each chunk the one place it was cut
at; there, a cut that was moved before a heading leaves that heading to the next
chunk (`HeadingLeads`).

### Model-checked only

Every invariant and action property that a passing run checks is proved, some of them
under the conditions named above. What is left to TLC is liveness: `HandledOnce` of
`ProjectRouterLedger`, `Closes` of `TaskRun` and of `AgentRun`, `EndIsRecorded` of
`ProcessManager` and `TelegramArrives` of `Channel`. Fairness and `ENABLED` are
beyond the prover. Some community operators that sort and filter are opaque to it as
well; where a proof has to know what they do, the models have definitions
of their own (`ByDistance`, `NewestFirst`, `Ink`).

## Findings

* `router_can` (`project.go:47`). `ProcessedEvents` is carried into the next run
  and never reset. From the threshold on (1000 by default) every run continues as
  new whenever its active map is empty, before it starts a queued event.
* `task_cancel_forgotten` (`task.go:526`). A tool step that took a cancel waits for
  its activity to end; an interrupt that comes meanwhile makes it return as
  interrupted only, and the task goes on and may complete. `AgentRun` has the
  same, for it uses the same step.
* `process_group` (`process_manager.go:238`). The goroutine records a process as
  over when its leader exits; `Stop` then reports it stopped without ending the
  members of its group.
* `schedule_current` (`workflowschedule.go:916`). A publication loads the manifest
  and then commits the directory. An edit between the two is committed and recorded
  under the schedule of the manifest before it, and every later publication finds
  the commit recorded and answers that the schedule is current.

## Abstractions

* Events are records of the fields the code branches on. The window, the task
  slots, thresholds, the number of cycles and turns and all limits are constants.
* The signals a workflow has buffered are one sequence (project), or a sequence or
  set per channel (task, agent); Temporal keeps the order within a channel.
* The newest version of each workflow is modelled; branches on older versions are
  left out. So are the completion after an agent's last turn, which its forced
  decision makes unreachable, and the termination of a child by an operator.
* Activities that persist retry without limit. The workflow models take them as
  part of the action that awaits them, which assumes that the database comes back;
  what they do statement by statement is in `Conversation`.
* The cleanup of a workflow draft is the call of the cleanup activity; its body is
  commented out in `CleanupAuthoring`, and the activity succeeds.
* A commit is the tree it holds: each edit has a version of its own. Committing, and
  reading and completing a manifest, are atomic.
* A memory's content is a text, its words, a point for its embedding and whether
  the policy accepts it; the ranking of the full-text index is any order.
* A migration is the set of tables and columns it makes, and what it does to the
  memories. The foreign-key check that follows two of them cannot fail there.
* A text is a sequence of characters of the kinds that the cutting tells apart; all
  characters are one byte. File names and paths of attachments are parameters.
* The write of a process record is a rename and atomic. A process that cannot be
  launched at all leaves nothing and is left out. The process manager has no clock:
  a timeout may strike at any moment or never.
* Temporal's pause of a schedule (`Trip`) may come any time after a failed run,
  whether or not the manifest asks for it, and may even meet a schedule that was made
  anew since; the program sees no more than that from it.
* Once an attempt has run out of time, git, SQLite and Temporal fail it, since its context has
  ended; only what it does to the files of its directory goes on. A preparation unpacks and
  reads the manifest in one step, so that such an attempt does not come between the
  two. Operations see the write of their row fail or the
  process cut; a read of the row that fails in a pause or resume is taken with
  its write.
* Discord's client sends a request up to three times more after a 502. The posts it
  makes so are one post that is marked as repeated.
* The handlers of one Telegram update follow each other, as Telegram waits for the
  answer or for its own timeout before it sends the update again.

## Not modelled

* Prompts, the calls to model providers and to the embedding service, and the text
  of observations, summaries and reports: their outcome is a choice.
* The parsing and validation of manifests, requests, configuration and tool
  arguments; the listing and describing of schedules. They read and hold no state.
* Glob pattern syntax, rg itself, and the reading of PDF, notebook and image files.
  The tracker of files read is never wired in by the program (it is nil).
* Checks of bots and secrets, decoding of updates, registration of commands, typing
  indicators and the response session, which only keeps them alive.
* What a step of a scheduled workflow executes, its retry policy, and the notice of
  a failed run: `ScheduledRun` has the step's outcome.
* Work items beyond the one that the next-action activity follows, execution
  records, skills, media, and the command line.
* Replay: that the order of a Go map may differ between an execution and its
  replay (`project.go:97`) relates two executions of one history.

## Plan

What would come next is a refinement: `TaskRun`'s agent step by `AgentRun`. The two
share the signals and the processes, so the mapping needs a task in which each
tool step may be an agent of its own.
