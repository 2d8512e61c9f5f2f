---------------------------- MODULE ProjectRouter ----------------------------
(***************************************************************************)
(* ProjectWorkflow (internal/runtime/workflows/project.go): the one        *)
(* workflow of a project.  It reads channel events from a signal channel,  *)
(* drops duplicates, and either queues an event as a new task, hands it to *)
(* the running task that owns the message or the thread it answers, or     *)
(* turns it into a cancel or interrupt signal.  Up to MaxActive child task *)
(* workflows run at once; the result of each is reported to its channel.   *)
(*                                                                         *)
(* The workflow is one coroutine.  It gives up control only inside four    *)
(* blocking calls - starting a child, signalling a child, the report       *)
(* activity, and the selector - and pc says which.  Everything else that   *)
(* moves (the dispatcher, the children) moves between its steps.           *)
(*                                                                         *)
(* A task workflow is named by the id of its event: taskWorkflowID is      *)
(* injective in the event id.  Every id is non-blank: the adapters, the    *)
(* injector and EventID all build one.                                     *)
(***************************************************************************)
EXTENDS Integers, Sequences, FiniteSets, FiniteSetsExt

CONSTANTS
  Event,           \* the channel events that can be delivered
  ID,              \* event ids
  MessageID,       \* message ids of the channel (Provenance.SourceID)
  Place,           \* channel and thread ids
  Schedule,        \* schedule ids
  None,            \* the blank string
  MaxActive,       \* maxActiveProjectTasks
  RecentLimit,     \* recentProjectEventIDLimit
  Threshold,       \* ContinueAsNewAfterEvents
  MaxDeliveries    \* bound: how many signals the channels send

(***************************************************************************)
(* kind is what the router branches on: a scheduled task event, a          *)
(* conversation reset or onboarding command, a cancel or interrupt request *)
(* (by metadata or by body), a message without text (an attachment), or a  *)
(* plain message.  hosted: it came from Discord or Telegram.               *)
(***************************************************************************)
Kind == {"scheduled", "command", "cancel", "interrupt", "media", "message"}

EventType ==
  [id : ID, kind : Kind, schedule : Schedule \cup {None},
   message : MessageID \cup {None}, replyTo : MessageID \cup {None},
   channel : Place \cup {None}, thread : Place \cup {None}, hosted : BOOLEAN]

ASSUME EventAssumption == Event \subseteq EventType
\* Only EventFromDispatch writes a schedule id, together with the policy that
\* makes the event a scheduled one.
ASSUME ScheduleAssumption ==
  \A e \in Event : e.schedule # None => e.kind = "scheduled"
ASSUME IdAssumption == ID \subseteq Nat
ASSUME NoneAssumption ==
  /\ None \notin Event
  /\ None \notin ID
  /\ None \notin MessageID
  /\ None \notin Place
  /\ None \notin Schedule
ASSUME LimitAssumption ==
  /\ MaxActive \in Nat \ {0}
  /\ RecentLimit \in Nat \ {0}
  /\ Threshold \in Nat \ {0}
  /\ MaxDeliveries \in Nat

VARIABLES
  inbox,           \* the buffered SignalEnqueueEvent signals
  deliveries,      \* how many signals have been sent (bounded)
  queue,           \* state.Queue
  recent,          \* state.RecentEventIDs
  processed,       \* state.ProcessedEvents
  active,          \* the Event of every entry of the active map, keyed by id
  messageOwner,    \* message id -> task that owns it
  threadOwner,     \* thread key -> task that owns it
  pending,         \* pendingReports: the event of each result still to report
  pc,              \* where the coroutine is
  started,         \* the start loop's flag
  current,         \* the event of the blocking call
  target,          \* the task a blocking signal call addresses
  task,            \* id -> the child workflow execution with that id
  reports          \* id -> report activities run for that task

loopVars == <<queue, recent, processed, active, messageOwner, threadOwner,
              pending, pc, started, current, target, reports>>
vars == <<inbox, deliveries, loopVars, task>>

(***************************************************************************)
(* The child: never started, running, closed with a result to report (an   *)
(* answer or a failure), or closed with nothing to say.                    *)
(***************************************************************************)
TaskState == {"none", "running", "answered", "silent"}
Closed == {"answered", "silent"}

Blocked == {"report", "start", "context", "cancel", "interrupt"}
Local == {"top", "fill", "select"}
ThreadKey == (Place \cup {None}) \X Place

ActiveIds == {e.id : e \in active}

-----------------------------------------------------------------------------
(* Duplicate suppression.                                                  *)

TrimLate(ids) ==
  IF Len(ids) <= RecentLimit + 1
    THEN ids
    ELSE SubSeq(ids, Len(ids) - RecentLimit + 1, Len(ids))

\* trimRecentProjectEventIDs
Trim(ids) ==
  IF Len(ids) <= RecentLimit
    THEN ids
    ELSE SubSeq(ids, Len(ids) - RecentLimit + 1, Len(ids))

SeenInWork(e) == e.id \in ActiveIds \cup {q.id : q \in Range(queue)}
Seen(e) == e.id \in Range(recent)

\* rememberProjectEventID, for an id it does not know
Remember(e) == recent' = Trim(Append(recent, e.id))

-----------------------------------------------------------------------------
(* Ownership of messages and threads.                                      *)

\* threadOwnerKey: a blank channel leaves the bare thread id as the key
Key(channel, thread) == <<channel, thread>>

\* registerRoutedEventOwnership (the third registration repeats the second:
\* when channel and thread are equal the keys are equal too)
Register(e, id) ==
  /\ messageOwner' = IF e.message = None THEN messageOwner
                     ELSE [messageOwner EXCEPT ![e.message] = id]
  /\ threadOwner' = IF e.thread = None THEN threadOwner
                    ELSE [threadOwner EXCEPT ![Key(e.channel, e.thread)] = id]

ReleaseMessages(id) ==
  /\ messageOwner' = [m \in MessageID |->
                        IF messageOwner[m] = id THEN None ELSE messageOwner[m]]
  /\ UNCHANGED threadOwner
ReleaseThreads(id) ==
  /\ threadOwner' = [k \in ThreadKey |->
                        IF threadOwner[k] = id THEN None ELSE threadOwner[k]]
  /\ UNCHANGED messageOwner
ReleaseAll(id) ==
  /\ messageOwner' = [m \in MessageID |-> None]
  /\ threadOwner' = [k \in ThreadKey |-> None]

\* clearTaskOwnership
Release(id) ==
  /\ messageOwner' = [m \in MessageID |->
                        IF messageOwner[m] = id THEN None ELSE messageOwner[m]]
  /\ threadOwner' = [k \in ThreadKey |->
                        IF threadOwner[k] = id THEN None ELSE threadOwner[k]]

\* taskRouteOwnerByReply
ReplyOwner(e) == IF e.replyTo = None THEN None ELSE messageOwner[e.replyTo]

\* The owners taskRouteOwnerByThread looks up, in its order.
ThreadLookups(e) ==
  LET Of(channel, thread) ==
        IF thread = None THEN None ELSE threadOwner[Key(channel, thread)]
  IN <<Of(e.channel, e.thread), Of(None, e.thread),
       Of(e.channel, e.channel), Of(None, e.channel)>>

\* taskRouteOwnerByThread: the first of them that is set
ThreadOwner(e) ==
  LET found == {i \in 1..4 : ThreadLookups(e)[i] # None}
  IN IF found = {} THEN None
     ELSE ThreadLookups(e)[Min(found)]

\* The reply route is tried before the thread route.
Owner(e) == IF ReplyOwner(e) # None THEN ReplyOwner(e) ELSE ThreadOwner(e)

-----------------------------------------------------------------------------
(* Where an event goes.                                                    *)

OverlapsQueued(e) ==
  /\ e.schedule # None
  /\ \E other \in Range(queue) : other.schedule = e.schedule

\* scheduledTaskOverlaps
Overlaps(e) ==
  /\ e.schedule # None
  /\ \E other \in Range(queue) \cup active : other.schedule = e.schedule

\* isStandaloneChannelMainEvent
Standalone(e) == e.hosted /\ e.thread = None /\ e.replyTo = None

\* Scheduled tasks and commands are never routed to a running task.
Routable(e) == e.kind \notin {"scheduled", "command"}

IsControl(e) == e.kind \in {"cancel", "interrupt"}

\* Every path of handleProjectEventSignal that appends to state.Queue.
OpensTask(e) ==
  \/ e.kind = "scheduled" /\ ~Overlaps(e)
  \/ e.kind = "command"
  \/ Routable(e) /\ Owner(e) = None /\ (Standalone(e) \/ ~IsControl(e))

\* firstActiveTaskWorkflowID: the least id of the active map
FirstActive == Min(ActiveIds)

-----------------------------------------------------------------------------
Init ==
  /\ inbox = <<>>
  /\ deliveries = 0
  /\ queue = <<>>
  /\ recent = <<>>
  /\ processed = 0
  /\ active = {}
  /\ messageOwner = [m \in MessageID |-> None]
  /\ threadOwner = [k \in ThreadKey |-> None]
  /\ pending = <<>>
  /\ pc = "top"
  /\ started = FALSE
  /\ current = None
  /\ target = None
  /\ task = [id \in ID |-> "none"]
  /\ reports = [id \in ID |-> 0]

-----------------------------------------------------------------------------
(* The dispatcher and the children.                                        *)

\* Dispatcher.EnqueueEvent: a channel delivers an event, perhaps again.
Deliver(e) ==
  /\ deliveries < MaxDeliveries
  /\ deliveries' = deliveries + 1
  /\ inbox' = Append(inbox, e)
  /\ UNCHANGED <<loopVars, task>>

\* A child closes: with something to report, or silently (an ignored event,
\* a canceled task).
TaskCloses(id, outcome) ==
  /\ task[id] = "running"
  /\ outcome \in Closed
  /\ task' = [task EXCEPT ![id] = outcome]
  /\ UNCHANGED <<inbox, deliveries, loopVars>>

-----------------------------------------------------------------------------
(* The head of the loop.                                                   *)

\* reportTaskResult of the first pending result: the activity is scheduled.
ReportNext ==
  /\ pc = "top"
  /\ pending # <<>>
  /\ current' = Head(pending)
  /\ pending' = Tail(pending)
  /\ pc' = "report"
  /\ UNCHANGED <<inbox, deliveries, queue, recent, processed, active,
                 messageOwner, threadOwner, started, target, task, reports>>

\* The one attempt of the report activity ends; an error is only logged.
ReportDone ==
  /\ pc = "report"
  /\ reports' = [reports EXCEPT ![current.id] = @ + 1]
  /\ pc' = "top"
  /\ current' = None
  /\ UNCHANGED <<inbox, deliveries, queue, recent, processed, active,
                 messageOwner, threadOwner, pending, started, target, task>>

MustContinueAsNewEarly == active = {}
MustContinueAsNew == processed >= Threshold /\ active = {}

\* The run ends and the next one starts from the snapshot.  The signals the
\* ended run had buffered but not received stay with it.
ContinueAsNew ==
  /\ pc = "top"
  /\ pending = <<>>
  /\ MustContinueAsNew
  /\ inbox' = <<>>
  /\ recent' = Trim(recent)
  /\ active' = {}
  /\ messageOwner' = [m \in MessageID |-> None]
  /\ threadOwner' = [k \in ThreadKey |-> None]
  /\ UNCHANGED <<deliveries, queue, processed, pending, pc, started, current,
                 target, task, reports>>

EnterStartLoop ==
  /\ pc = "top"
  /\ pending = <<>>
  /\ ~MustContinueAsNew
  /\ pc' = "fill"
  /\ started' = FALSE
  /\ UNCHANGED <<inbox, deliveries, queue, recent, processed, active,
                 messageOwner, threadOwner, pending, current, target, task,
                 reports>>

-----------------------------------------------------------------------------
(* The start loop.                                                         *)

CanStartOneMore == Cardinality(ActiveIds) <= MaxActive /\ queue # <<>>
CanStart == Cardinality(ActiveIds) < MaxActive /\ queue # <<>>

\* Pop the queue and ask for the child workflow.
StartNext ==
  /\ pc = "fill"
  /\ CanStart
  /\ current' = Head(queue)
  /\ queue' = Tail(queue)
  /\ pc' = "start"
  /\ UNCHANGED <<inbox, deliveries, recent, processed, active, messageOwner,
                 threadOwner, pending, started, target, task, reports>>

\* The child starts: it enters the active map (under its id, replacing what
\* was there) and owns its message and its thread.
ChildStarts ==
  /\ pc = "start"
  /\ task[current.id] # "running"
  /\ task' = [task EXCEPT ![current.id] = "running"]
  /\ active' = {e \in active : e.id # current.id} \cup {current}
  /\ Register(current, current.id)
  /\ started' = TRUE
  /\ pc' = "fill"
  /\ current' = None
  /\ UNCHANGED <<inbox, deliveries, queue, recent, processed, pending, target,
                 reports>>

\* A workflow with that id is still running: the start is refused and a
\* failure report is left pending.
ChildRefused ==
  /\ pc = "start"
  /\ task[current.id] = "running"
  /\ pending' = Append(pending, current)
  /\ processed' = processed + 1
  /\ pc' = "fill"
  /\ current' = None
  /\ UNCHANGED <<inbox, deliveries, queue, recent, active, messageOwner,
                 threadOwner, started, target, task, reports>>

LeaveStartLoop ==
  /\ pc = "fill"
  /\ ~CanStart
  /\ pc' = IF started THEN "top" ELSE "select"
  /\ UNCHANGED <<inbox, deliveries, queue, recent, processed, active,
                 messageOwner, threadOwner, pending, started, current, target,
                 task, reports>>

-----------------------------------------------------------------------------
(* The selector.  Receives come before futures in the order the cases were *)
(* added, so a buffered signal always wins over a closed child.            *)

\* Take the first buffered signal.
Receive(e) ==
  /\ pc = "select"
  /\ inbox # <<>>
  /\ e = Head(inbox)
  /\ inbox' = Tail(inbox)

DropDuplicate(e) ==
  /\ Receive(e)
  /\ Seen(e)
  /\ pc' = "top"
  /\ UNCHANGED <<deliveries, queue, recent, processed, active, messageOwner,
                 threadOwner, pending, started, current, target, task, reports>>

\* An overlapping scheduled task, or a control request with no task to
\* control: remembered, and nothing else.
Drop(e) ==
  /\ Receive(e)
  /\ ~Seen(e)
  /\ \/ e.kind = "scheduled" /\ Overlaps(e)
     \/ /\ IsControl(e) /\ Owner(e) = None /\ ~Standalone(e)
        /\ active = {}
  /\ Remember(e)
  /\ pc' = "top"
  /\ UNCHANGED <<deliveries, queue, processed, active, messageOwner,
                 threadOwner, pending, started, current, target, task, reports>>

Enqueue(e) ==
  /\ Receive(e)
  /\ ~Seen(e)
  /\ OpensTask(e)
  /\ Remember(e)
  /\ queue' = Append(queue, e)
  /\ pc' = "top"
  /\ UNCHANGED <<deliveries, processed, active, messageOwner, threadOwner,
                 pending, started, current, target, task, reports>>

\* An event of a running task: its message and thread become the task's, and
\* its text, when it has one, is signalled to the task.
Route(e) ==
  /\ Receive(e)
  /\ ~Seen(e)
  /\ Routable(e)
  /\ Owner(e) # None
  /\ Remember(e)
  /\ Register(e, Owner(e))
  /\ IF e.kind = "media"
       THEN pc' = "top" /\ UNCHANGED <<current, target>>
       ELSE pc' = "context" /\ current' = e /\ target' = Owner(e)
  /\ UNCHANGED <<deliveries, queue, processed, active, pending, started, task,
                 reports>>

\* A cancel or interrupt that belongs to no task goes to the first active one.
Control(e) ==
  /\ Receive(e)
  /\ ~Seen(e)
  /\ IsControl(e)
  /\ Owner(e) = None
  /\ ~Standalone(e)
  /\ active # {}
  /\ Remember(e)
  /\ pc' = e.kind
  /\ current' = e
  /\ target' = FirstActive
  /\ UNCHANGED <<deliveries, queue, processed, active, messageOwner,
                 threadOwner, pending, started, task, reports>>

\* SignalExternalWorkflow returns: the signal reached the task, or the task
\* had closed and the error is only logged.
SignalDone ==
  /\ pc \in {"context", "cancel", "interrupt"}
  /\ pc' = "top"
  /\ current' = None
  /\ target' = None
  /\ UNCHANGED <<inbox, deliveries, queue, recent, processed, active,
                 messageOwner, threadOwner, pending, started, task, reports>>

CollectedNever(e) == pending

\* The pending reports with the result of this task, if it has one to report.
Collected(e) == IF task[e.id] = "answered" THEN Append(pending, e) ELSE pending

\* The future of a closed child, when no signal is buffered.
Finish(e) ==
  /\ pc = "select"
  /\ inbox = <<>>
  /\ e \in active
  /\ task[e.id] \in Closed
  /\ pending' = Collected(e)
  /\ Release(e.id)
  /\ active' = active \ {e}
  /\ processed' = processed + 1
  /\ pc' = "top"
  /\ UNCHANGED <<inbox, deliveries, queue, recent, started, current, target,
                 task, reports>>

-----------------------------------------------------------------------------
Step ==
  \/ ReportNext \/ ContinueAsNew \/ EnterStartLoop
  \/ StartNext \/ LeaveStartLoop
  \/ \E e \in Event : \/ DropDuplicate(e) \/ Drop(e) \/ Enqueue(e)
                      \/ Route(e) \/ Control(e) \/ Finish(e)

\* What Temporal answers to a blocking call.
Answer == ReportDone \/ ChildStarts \/ ChildRefused \/ SignalDone

Next ==
  \/ Step
  \/ Answer
  \/ \E e \in Event : Deliver(e)
  \/ \E id \in ID, outcome \in Closed : TaskCloses(id, outcome)

Spec == Init /\ [][Next]_vars

(***************************************************************************)
(* Fairness.  Temporal keeps scheduling workflow tasks, so the coroutine   *)
(* moves while it can (Step); every blocking call is answered: the report  *)
(* activity has a one minute timeout and one attempt, the server answers a *)
(* child start and an external signal (Answer); a task closes: its loop is *)
(* bounded by maxExecutionCycles, and its activities by their timeouts,    *)
(* provided the database behind the persistence activities, which retry    *)
(* for ever, is eventually available (TaskCloses).  Nobody has to deliver. *)
(***************************************************************************)
Fairness ==
  /\ WF_vars(Step)
  /\ WF_vars(Answer)
  /\ \A id \in ID : WF_vars(\E outcome \in Closed : TaskCloses(id, outcome))

FairSpec == Spec /\ Fairness

-----------------------------------------------------------------------------
(* Properties.                                                             *)

\* Types of the state (ProjectWorkflowState and the locals of ProjectWorkflow).
TypeOK ==
  /\ inbox \in Seq(Event)
  /\ deliveries \in Nat
  /\ queue \in Seq(Event)
  /\ recent \in Seq(ID) /\ Len(recent) <= RecentLimit
  /\ processed \in Nat
  /\ active \subseteq Event
  /\ messageOwner \in [MessageID -> ID \cup {None}]
  /\ threadOwner \in [ThreadKey -> ID \cup {None}]
  /\ pending \in Seq(Event)
  /\ pc \in Local \cup Blocked
  /\ started \in BOOLEAN
  /\ current \in Event \cup {None}
  /\ target \in ID \cup {None}
  /\ task \in [ID -> TaskState]
  /\ reports \in [ID -> Nat]

\* Every owner of a message or of a thread is a task of the active map: no
\* reply is ever routed to a task the project has already finished with, in
\* whatever order replies, takeovers of a thread and completions come.
OwnersAreActive ==
  /\ \A m \in MessageID : messageOwner[m] # None => messageOwner[m] \in ActiveIds
  /\ \A k \in ThreadKey : threadOwner[k] # None => threadOwner[k] \in ActiveIds

\* At most maxActiveProjectTasks child workflows run, counting those the
\* server runs and not only those the active map remembers.
RunningBounded ==
  Cardinality({id \in ID : task[id] = "running"}) <= MaxActive

\* No orphan: a running child is in the active map, so its result will be
\* collected and a cancel can reach it, continue-as-new included.
RunningIsTracked == \A id \in ID : task[id] = "running" => id \in ActiveIds

\* The events that hold a place in the project, one entry per place: the
\* queue, the child start in flight, and the active map.
InStart == IF pc = "start" THEN {current} ELSE {}

\* The skip policy of schedules: of one schedule at most one event is queued,
\* starting or active, although ticks arrive while another is being started.
OneTaskPerSchedule ==
  /\ \A i, j \in DOMAIN queue :
       queue[i].schedule # None /\ queue[i].schedule = queue[j].schedule => i = j
  /\ \A e, f \in active :
       e.schedule # None /\ e.schedule = f.schedule => e = f
  /\ \A e \in active \cup InStart, i \in DOMAIN queue :
       e.schedule # None => e.schedule # queue[i].schedule
  /\ \A e \in active, f \in InStart :
       e.schedule # None => e.schedule # f.schedule

\* While a task is active, a reply to the message that opened it is routed to
\* it, whatever else took or released ownership meanwhile.
OpenerIsOwned ==
  \A e \in active : e.message # None => messageOwner[e.message] = e.id

\* A task is reported at most once, and only when it had something to say.
ReportedOnce ==
  \A id \in ID : /\ reports[id] <= 1
                 /\ reports[id] = 1 => task[id] = "answered"

\* A delivered event is eventually handled, until the run has processed so
\* many that it continues as new (and drops its inbox).
DeliveredIsHandled ==
  \A e \in Event :
    e \in Range(inbox) ~> e.id \in Range(recent) \/ processed >= Threshold

=============================================================================
