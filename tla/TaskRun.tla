------------------------------- MODULE TaskRun -------------------------------
(***************************************************************************)
(* TaskWorkflow (internal/runtime/workflows/task.go): the loop of one      *)
(* task.  Each cycle asks the NextAction activity what to do; the answer   *)
(* closes the task or names tools, run one after another as an activity    *)
(* (executeToolStep) or as a child agent workflow (executeAgentWorkflow-   *)
(* Step in agent.go, executeWorkflowAuthoringStep).  While a step waits,   *)
(* the task receives cancel, interrupt and context signals.  A tool may    *)
(* start an OS process; the NextAction activity that closes the task stops *)
(* the ones the task knows of, unless their scope is the project.          *)
(*                                                                         *)
(* The persistence activities retry without limit, so they are part of the *)
(* action that awaits them; of their writes only the persisted signals are *)
(* kept.  The reset and onboarding commands, the response session and the  *)
(* versions of the workflow are left out.                                  *)
(***************************************************************************)
EXTENDS Integers, Sequences, FiniteSets, Functions

CONSTANTS
  Signal,          \* the signals that can be sent to the task
  Process,         \* the OS processes its tools may start
  ProjectScoped,   \* those started with process_scope "project"
  Plans,           \* the sequences of tools a decision may name
  MaxCycles,       \* maxExecutionCycles
  Faults,          \* which faults happen
  None

SignalKind == {"cancel", "interrupt", "context"}
ToolKind == {"exec", "memory", "agent", "authoring"}
\* decision: a NextAction activity fails or its answer is lost; stop: a
\* process cannot be stopped; lost: a tool activity dies and its process lives.
FaultKind == {"decision", "stop", "lost"}

ASSUME SignalAssumption ==
  \A s \in Signal : s.kind \in SignalKind /\ s.body \in BOOLEAN
ASSUME PlanAssumption == Plans \subseteq Seq(ToolKind)
ASSUME ProcessAssumption == ProjectScoped \subseteq Process /\ None \notin Process
ASSUME CycleAssumption == MaxCycles \in Nat \ {0}
ASSUME FaultAssumption == Faults \subseteq FaultKind

VARIABLES
  channel,      \* the signal channel of each kind
  sent,         \* the signals sent so far
  pc,           \* where the workflow is
  cycle,        \* the execution cycle
  plan,         \* the tools of this cycle still to run
  additional,   \* the signals whose events are in additionalEvents
  refs,         \* the status of each process in the task's process list
  kind,         \* the kind of the step that runs
  canceled,     \* the step's canceled flag
  interrupted,  \* the agent step's interrupted flag
  taken,        \* the step's signalEvents
  tool,         \* the activity or child of the step: its future, its process
  outcome,      \* how the task closed
  abandoned,    \* tool activities that run on after an interrupt left them
  proc,         \* the state of each process in the operating system; adrift
                \* runs too, and nothing the task will see names it
  draft,        \* the authoring draft: prepared, published or cleaned up
  persisted,    \* the signals whose events are in the database
  received,     \* history: the signals taken from the channels
  considered    \* history: additionalEvents of the last decision

flow == <<pc, cycle, plan, kind, canceled, interrupted, taken, outcome>>
history == <<persisted, received, considered>>
vars == <<channel, sent, flow, additional, refs, tool, abandoned, proc, draft,
          history>>

IsAgent == kind \in {"agent", "authoring"}
Idle == [state |-> "idle", proc |-> None]
Pending == tool.state = "running"

\* The event of a signal joins additionalEvents: context always, an
\* interrupt when its body is not blank, a cancel never.
Carries(s) == s.kind = "context" \/ (s.kind = "interrupt" /\ s.body)

-----------------------------------------------------------------------------
Init ==
  /\ channel = [k \in SignalKind |-> <<>>]
  /\ sent = {}
  /\ pc = "drain"
  /\ cycle = 1
  /\ plan = <<>>
  /\ additional = {}
  /\ refs = [p \in Process |-> "none"]
  /\ kind = "exec"
  /\ canceled = FALSE
  /\ interrupted = FALSE
  /\ taken = {}
  /\ tool = Idle
  /\ outcome = [status |-> "open", stopFailed |-> FALSE]
  /\ abandoned = 0
  /\ proc = [p \in Process |-> "none"]
  /\ draft = "none"
  /\ persisted = {}
  /\ received = {}
  /\ considered = {}

\* The project workflow signals the task.
Send(s) ==
  /\ pc # "done"
  /\ s \notin sent
  /\ sent' = sent \cup {s}
  /\ channel' = [channel EXCEPT ![s.kind] = Append(@, s)]
  /\ UNCHANGED <<flow, additional, refs, tool, abandoned, proc, draft, history>>

-----------------------------------------------------------------------------
(* Decisions.                                                              *)

DrainWithoutPersisting(events) == UNCHANGED persisted
DrainPersists(events) == persisted' = persisted \cup events

\* drainTaskSignals takes the context signals only; then they are persisted.
Drain ==
  LET events == Range(channel["context"]) IN
  /\ pc = "drain"
  /\ channel' = [channel EXCEPT !["context"] = <<>>]
  /\ additional' = additional \cup events
  /\ received' = received \cup events
  /\ DrainPersists(events)
  /\ pc' = "decide"
  /\ UNCHANGED <<sent, cycle, plan, kind, canceled, interrupted, taken, outcome,
                 refs, tool, abandoned, proc, draft, considered>>

\* The decision names tools.
DecideTools(p) ==
  /\ pc = "decide"
  /\ plan' = p
  /\ pc' = "step"
  /\ considered' = additional
  /\ UNCHANGED <<channel, sent, cycle, kind, canceled, interrupted, taken,
                 outcome, additional, refs, tool, abandoned, proc, draft,
                 persisted, received>>

OwnedOfAnyScope == {p \in Process : refs[p] = "running"}
\* The processes a closing decision stops.
Owned == {p \in Process \ ProjectScoped : refs[p] = "running"}

\* cleanupTaskProcesses, where the processes in failing cannot be stopped
Cleaned(failing) ==
  [p \in Process |-> IF p \in Owned \ failing /\ proc[p] = "running"
                       THEN "stopped" ELSE proc[p]]
MayFail(failing) == failing = {} \/ "stop" \in Faults

\* completeTask: the processes are stopped and the task closes; a process
\* that cannot be stopped turns any status into failed.
CloseAs(status, failing) ==
  /\ MayFail(failing)
  /\ proc' = Cleaned(failing)
  /\ outcome' = [status |-> IF failing = {} THEN status ELSE "failed",
                 stopFailed |-> failing # {}]
  /\ pc' = "done"

\* A terminal status; the decision after the last cycle is forced to be one
\* (blocked), and counts as failed.
DecideClose(status, failing) ==
  /\ pc = "decide" \/ (pc = "final" /\ status = "failed")
  /\ CloseAs(status, failing)
  /\ considered' = additional
  /\ UNCHANGED <<channel, sent, cycle, plan, kind, canceled, interrupted, taken,
                 additional, refs, tool, abandoned, draft, persisted, received>>

\* The attempt that closes the task stopped its processes, and then it timed
\* out or its worker died: the activity is retried, and decides anew.
DecisionLost ==
  /\ "decision" \in Faults
  /\ pc \in {"decide", "final", "completion"}
  /\ proc' = Cleaned({})
  /\ UNCHANGED <<channel, sent, flow, additional, refs, tool, abandoned, draft,
                 history>>

CloseAtOnce(list, status) ==
  pc' = "done" /\ outcome' = [outcome EXCEPT !.status = status]

\* completeIncompleteTask, with the process list of the next state
CloseIncomplete(list, status) ==
  IF \A p \in Process : list[p] = "none"
    THEN /\ pc' = "done"
         /\ outcome' = [outcome EXCEPT !.status = status]
    ELSE pc' = "completion" /\ UNCHANGED outcome

\* All attempts fail: completeTaskAfterProcessStart.
DecisionFails ==
  /\ "decision" \in Faults
  /\ pc \in {"decide", "final"}
  /\ CloseIncomplete(refs, "error")
  /\ considered' = additional
  /\ UNCHANGED <<channel, sent, cycle, plan, kind, canceled, interrupted, taken,
                 additional, refs, tool, abandoned, proc, draft, persisted,
                 received>>

\* The NextAction activity with a completion request.
Complete(failing) ==
  /\ pc = "completion"
  /\ CloseAs("failed", failing)
  /\ UNCHANGED <<channel, sent, cycle, plan, kind, canceled, interrupted, taken,
                 additional, refs, tool, abandoned, draft, history>>

CompletionFails ==
  /\ "decision" \in Faults
  /\ pc = "completion"
  /\ outcome' = [outcome EXCEPT !.status = "error"]
  /\ pc' = "done"
  /\ UNCHANGED <<channel, sent, cycle, plan, kind, canceled, interrupted, taken,
                 additional, refs, tool, abandoned, proc, draft, history>>

-----------------------------------------------------------------------------
(* Steps.                                                                  *)

\* The next tool of the plan starts; an authoring tool has its draft prepared.
BeginStep ==
  /\ pc = "step"
  /\ plan # <<>>
  /\ kind' = Head(plan)
  /\ plan' = Tail(plan)
  /\ tool' = [state |-> "running", proc |-> None]
  /\ canceled' = FALSE
  /\ interrupted' = FALSE
  /\ taken' = {}
  /\ draft' = IF Head(plan) = "authoring" THEN "prepared" ELSE draft
  /\ pc' = "tool"
  /\ UNCHANGED <<channel, sent, cycle, additional, refs, outcome, abandoned,
                 proc, history>>

\* PrepareWorkflowAuthoring refuses: the step fails before it waits.
PrepareRefused ==
  /\ pc = "step"
  /\ plan # <<>>
  /\ Head(plan) = "authoring"
  /\ plan' = Tail(plan)
  /\ UNCHANGED <<channel, sent, pc, cycle, kind, canceled, interrupted, taken,
                 outcome, additional, refs, tool, abandoned, proc, draft,
                 history>>

PastLastCycle == cycle > MaxCycles
IsLastCycle == cycle = MaxCycles
SameCycle == cycle
FollowingCycle == cycle + 1

NextCycle ==
  /\ pc = "step"
  /\ plan = <<>>
  /\ IF IsLastCycle THEN pc' = "final" /\ UNCHANGED cycle
                    ELSE pc' = "drain" /\ cycle' = FollowingCycle
  /\ UNCHANGED <<channel, sent, plan, kind, canceled, interrupted, taken,
                 outcome, additional, refs, tool, abandoned, proc, draft,
                 history>>

\* The selector receives the first signal of a kind, when the future is not
\* ready and no channel added before it has one.
Receive(s) ==
  /\ pc = "tool"
  /\ Pending
  /\ channel[s.kind] # <<>>
  /\ s = Head(channel[s.kind])
  /\ s.kind # "cancel" => channel["cancel"] = <<>>
  /\ s.kind = "context" => channel["interrupt"] = <<>>
  /\ channel' = [channel EXCEPT ![s.kind] = Tail(@)]
  /\ received' = received \cup {s}

\* The activity is asked to stop, and its result awaited; a memory tool does
\* not wait for cancellation, so its future fails at once.  An agent gets the
\* signal and its result is awaited.
TakeCancel(s) ==
  /\ Receive(s)
  /\ s.kind = "cancel"
  /\ canceled' = TRUE
  /\ taken' = taken \cup {s}
  /\ tool' = IF kind = "memory" THEN [tool EXCEPT !.state = "failed"] ELSE tool
  /\ UNCHANGED <<sent, pc, cycle, plan, kind, interrupted, outcome, additional,
                 refs, abandoned, proc, draft, persisted, considered>>

TakeContext(s) ==
  /\ Receive(s)
  /\ s.kind = "context"
  /\ taken' = taken \cup {s}
  /\ additional' = additional \cup {s}
  /\ UNCHANGED <<sent, pc, cycle, plan, kind, canceled, interrupted, outcome,
                 refs, tool, abandoned, proc, draft, persisted, considered>>

AddNothing(s) == additional
AddBody(s) == IF s.body THEN additional \cup {s} ELSE additional

Adrift(q) ==
  [p \in Process |-> IF p = q /\ proc[p] = "running" THEN "adrift" ELSE proc[p]]

\* A tool step returns at once, whatever its flags say: the result that the
\* activity still produces goes nowhere, and the rest of the plan is dropped.
InterruptTool(s) ==
  /\ Receive(s)
  /\ s.kind = "interrupt"
  /\ ~IsAgent
  /\ additional' = AddBody(s)
  /\ persisted' = persisted \cup taken \cup {s}
  /\ taken' = {}
  /\ tool' = Idle
  /\ abandoned' = IF kind = "exec" /\ tool.proc = None
                    THEN abandoned + 1 ELSE abandoned
  /\ proc' = Adrift(tool.proc)
  /\ plan' = <<>>
  /\ pc' = "step"
  /\ UNCHANGED <<sent, cycle, kind, canceled, interrupted, outcome, refs, draft,
                 considered>>

\* An agent gets the signal and its result is awaited.
InterruptAgent(s) ==
  /\ Receive(s)
  /\ s.kind = "interrupt"
  /\ IsAgent
  /\ additional' = AddBody(s)
  /\ interrupted' = TRUE
  /\ taken' = taken \cup {s}
  /\ UNCHANGED <<sent, pc, cycle, plan, kind, canceled, outcome, refs, tool,
                 abandoned, proc, draft, persisted, considered>>

MergedNever == refs
\* mergeTaskProcesses of the result: the process of a tool that succeeded; of
\* an agent, its process whatever its status, stopped if the agent stopped it.
Merged ==
  IF tool.proc = None \/ (~IsAgent /\ tool.state = "failed") THEN refs
  ELSE [refs EXCEPT ![tool.proc] =
          IF IsAgent /\ proc[tool.proc] = "stopped" THEN "stopped" ELSE "running"]

\* executeWorkflowAuthoringStep: after a success a cancel is not passed on.
Published == kind = "authoring" /\ tool.state = "ended"
CanceledByChild == tool.state = "canceled" /\ ~Published
StepCanceled == (canceled \/ tool.state = "canceled") /\ ~Published

CleanedUnlessCanceled ==
  IF Published THEN "published" ELSE IF canceled THEN draft ELSE "cleaned"
\* CleanupWorkflowAuthoring, unless the workflow was published
SettledDraft == IF Published THEN "published" ELSE "cleaned"

\* The future is ready: the result is merged, the step's signals persisted,
\* and the task goes on with the plan or closes.
StepEnds ==
  /\ pc = "tool"
  /\ ~Pending
  /\ refs' = Merged
  /\ persisted' = persisted \cup taken
  /\ taken' = {}
  /\ tool' = Idle
  /\ draft' = IF kind = "authoring" THEN SettledDraft ELSE draft
  /\ IF StepCanceled
       THEN CloseIncomplete(Merged, "incomplete") /\ UNCHANGED plan
       ELSE /\ pc' = "step"
            /\ plan' = IF interrupted THEN <<>> ELSE plan
            /\ UNCHANGED outcome
  /\ UNCHANGED <<channel, sent, cycle, kind, canceled, interrupted, additional,
                 abandoned, proc, received, considered>>

-----------------------------------------------------------------------------
(* Activities, children and processes.                                     *)

Starts(p) ==
  /\ proc[p] = "none"
  /\ proc' = [proc EXCEPT ![p] = "running"]

ToolStarts(p) ==
  /\ pc = "tool" /\ Pending
  /\ kind # "memory"
  /\ tool.proc = None
  /\ Starts(p)
  /\ tool' = [tool EXCEPT !.proc = p]
  /\ UNCHANGED <<channel, sent, flow, additional, refs, abandoned, draft, history>>

\* The tool activity ends: it succeeded; it failed, and its process is gone;
\* or it was lost, and its process is not.
ToolReturns ==
  /\ pc = "tool" /\ Pending /\ ~IsAgent
  /\ \/ tool' = [tool EXCEPT !.state = "ended"] /\ UNCHANGED proc
     \/ /\ tool' = [tool EXCEPT !.state = "failed"]
        /\ proc' = [p \in Process |-> IF p = tool.proc THEN "exited" ELSE proc[p]]
     \/ /\ "lost" \in Faults
        /\ tool' = [tool EXCEPT !.state = "failed"]
        /\ proc' = Adrift(tool.proc)
  /\ UNCHANGED <<channel, sent, flow, additional, refs, abandoned, draft, history>>

\* The agent closes: one that decided to close stopped its process; one that
\* failed otherwise or was canceled leaves that to its parent.
AgentReturns(state, stops) ==
  /\ pc = "tool" /\ Pending /\ IsAgent
  /\ state = "ended" => stops
  /\ state = "canceled" => canceled /\ ~stops
  /\ tool' = [tool EXCEPT !.state = state]
  /\ proc' = [p \in Process |->
                IF stops /\ p = tool.proc /\ p \notin ProjectScoped
                   /\ proc[p] = "running"
                  THEN "stopped" ELSE proc[p]]
  /\ UNCHANGED <<channel, sent, flow, additional, refs, abandoned, draft, history>>

\* An activity an interrupt left behind starts its process, or ends.
AbandonedStarts(p) ==
  /\ abandoned > 0
  /\ proc[p] = "none"
  /\ proc' = [proc EXCEPT ![p] = "adrift"]
  /\ abandoned' = abandoned - 1
  /\ UNCHANGED <<channel, sent, flow, additional, refs, tool, draft, history>>

AbandonedEnds ==
  /\ abandoned > 0
  /\ abandoned' = abandoned - 1
  /\ UNCHANGED <<channel, sent, flow, additional, refs, tool, proc, draft, history>>

ProcessExits(p) ==
  /\ proc[p] \in {"running", "adrift"}
  /\ proc' = [proc EXCEPT ![p] = "exited"]
  /\ UNCHANGED <<channel, sent, flow, additional, refs, tool, abandoned, draft,
                 history>>

-----------------------------------------------------------------------------
Decision ==
  \/ \E p \in Plans : DecideTools(p)
  \/ \E status \in {"completed", "failed"}, failing \in SUBSET Owned :
       DecideClose(status, failing)
  \/ DecisionFails
  \/ \E failing \in SUBSET Owned : Complete(failing)
  \/ CompletionFails

Coroutine ==
  \/ Drain \/ BeginStep \/ PrepareRefused \/ NextCycle \/ StepEnds
  \/ \E s \in Signal : \/ TakeCancel(s) \/ TakeContext(s)
                       \/ InterruptTool(s) \/ InterruptAgent(s)

Return ==
  \/ ToolReturns
  \/ \E state \in {"ended", "failed", "canceled"}, stops \in BOOLEAN :
       AgentReturns(state, stops)

Next ==
  \/ Decision \/ DecisionLost \/ Coroutine \/ Return \/ AbandonedEnds
  \/ \E s \in Signal : Send(s)
  \/ \E p \in Process : ToolStarts(p) \/ AbandonedStarts(p) \/ ProcessExits(p)

Spec == Init /\ [][Next]_vars

(***************************************************************************)
(* Fairness.  Temporal schedules the workflow (Coroutine); NextAction has  *)
(* a two minute timeout and five attempts (Decision, so DecisionLost does  *)
(* not go on for ever); a tool activity has a ten minute timeout and one   *)
(* attempt, and an agent child a bounded number of turns (Return).         *)
(***************************************************************************)
FairSpec ==
  Spec /\ WF_vars(Coroutine) /\ WF_vars(Decision) /\ WF_vars(Return)

-----------------------------------------------------------------------------
(* Properties.                                                             *)

\* Types of the state (the locals of TaskWorkflow and of its steps).
TypeOK ==
  /\ channel \in [SignalKind -> Seq(Signal)]
  /\ sent \subseteq Signal
  /\ pc \in {"drain", "decide", "step", "tool", "final", "completion", "done"}
  /\ cycle \in 1..MaxCycles
  /\ plan \in Seq(ToolKind)
  /\ additional \subseteq Signal
  /\ refs \in [Process -> {"none", "running", "stopped"}]
  /\ kind \in ToolKind
  /\ canceled \in BOOLEAN
  /\ interrupted \in BOOLEAN
  /\ taken \subseteq Signal
  /\ tool \in [state : {"idle", "running", "ended", "failed", "canceled"},
               proc : Process \cup {None}]
  /\ outcome \in [status : {"open", "completed", "failed", "incomplete", "error"},
                  stopFailed : BOOLEAN]
  /\ abandoned \in Nat
  /\ proc \in [Process -> {"none", "running", "adrift", "exited", "stopped"}]
  /\ draft \in {"none", "prepared", "published", "cleaned"}
  /\ persisted \subseteq Signal
  /\ received \subseteq Signal
  /\ considered \subseteq Signal

\* A task that took a cancel does not end as completed, as long as it takes no
\* interrupt and authors no workflow.
Canceled == \E s \in received : s.kind = "cancel"
Undisturbed == draft = "none" /\ \A s \in received : s.kind # "interrupt"
CanceledStopsIncomplete ==
  pc = "done" /\ Canceled /\ Undisturbed => outcome.status # "completed"

\* A task that took a cancel does not end as completed, whatever else it was
\* told meanwhile.  (Only an authoring step that published overrides a cancel.)
CancelIsFinal == pc = "done" /\ Canceled => outcome.status # "completed"

\* When a task has ended, no stop_on_finish process that a result named runs on
\* unless stopping it failed, or the task could not even ask; a process of the
\* project is never stopped by a task.
NothingLeftRunning ==
  /\ pc = "done" /\ outcome.status # "error"
       => \A p \in Process \ ProjectScoped :
            proc[p] = "running" => outcome.stopFailed
  /\ \A p \in ProjectScoped : proc[p] # "stopped"

\* Every signal the task took is in the database before it decides or closes.
ReceivedIsPersisted == pc # "tool" => received \subseteq persisted

\* A task completes only by a decision that saw every message it took, those
\* that came with an interrupt included.
ReceivedIsConsidered ==
  outcome.status = "completed" => \A s \in received : Carries(s) => s \in considered

\* A workflow draft is published, or was handed to its cleanup activity (whose
\* body the code has commented out for now), before the task goes on.
DraftIsSettled == pc # "tool" => draft # "prepared"

\* Every task closes.
Closes == <>(pc = "done")

=============================================================================
