------------------------------ MODULE AgentRun ------------------------------
(***************************************************************************)
(* A sub-agent (internal/runtime/workflows/agent.go): the step of the task *)
(* that starts it, passes signals on and waits (executeAgentWorkflowStep), *)
(* and the child's own loop (AgentWorkflow).  Each turn the child drains   *)
(* its signals, compresses its observations, asks the NextAction activity  *)
(* (activities/next_action.go) and runs the tools it names; the agent of a *)
(* workflow author publishes with a completion tool before it succeeds.    *)
(*                                                                         *)
(* The persistence activities retry without limit and are part of the      *)
(* action that awaits them.  The decision after the last turn is forced to *)
(* be blocked, so the completion tool that follows it in the code is never *)
(* reached and is left out, like a child that an operator terminates.      *)
(***************************************************************************)
EXTENDS Integers, Sequences, FiniteSets, Transcript

CONSTANTS
  Casts,           \* the behaviours that are explored: see CastType
  Process,         \* the OS processes the tools may start
  ProjectScoped,   \* those started with process_scope "project"
  Answers,         \* the tool calls an answer of the model may hold
  Allowed,         \* the agent's allowed tools
  MaxTurns,        \* max_turns of the request
  Recent,          \* the newest observations that are never compressed
  None

SignalKind == {"cancel", "interrupt", "context"}
\* decision: a NextAction or compression activity fails, or its answer is
\* lost; stop: a process cannot be stopped; tool: a tool fails; lost: its
\* activity dies.
FaultKind == {"decision", "stop", "tool", "lost"}
\* authoring: there is a completion tool; unnamed: the model gives its tool
\* calls no ids; signals: those the task receives; procs: the processes the
\* tools start; faults: those that happen
CastType == [authoring : BOOLEAN, unnamed : BOOLEAN, procs : SUBSET Process,
             signals : SUBSET SignalKind, faults : SUBSET FaultKind]

ASSUME CastAssumption == Casts \subseteq CastType /\ Casts # {}
ASSUME AgentAssumption ==
  /\ ProjectScoped \subseteq Process /\ None \notin Process
  /\ \A calls \in Answers : calls \in Seq([tool : STRING, decodes : BOOLEAN])
  /\ MaxTurns \in Nat \ {0} /\ Recent \in Nat \ {0}

VARIABLES
  cast,       \* who acts and what fails in this behaviour; never changes
  sent,       \* the signals sent to the task
  channel,    \* those in the task's channels
  inbox,      \* those in the agent's channels
  parent,     \* the task's step: its place, its flags, its result
  pc,         \* where the agent is
  turn,
  last,       \* lastResults
  history,    \* observationHistory
  summary,    \* the results runSummary covers
  item,       \* the status of the work item of currentAction
  plan,       \* the indexes of the tool calls of this turn still to run
  batch,      \* the ids of all the calls of this turn
  tool,       \* the tool step that runs
  refs,       \* the status of each process in the agent's list
  proc,       \* the state of each process in the operating system; adrift
              \* runs too, and nothing names it
  records,    \* the tool calls whose results are in the database
  published,  \* how often the completion tool published
  late,       \* a completion activity runs on after an interrupt left it
  result      \* what AgentWorkflow returned

signals == <<sent, channel, inbox>>
outside == <<proc, published, late>>
seen == <<last, history, summary, item>>
vars == <<cast, signals, parent, pc, turn, seen, plan, batch, tool, refs,
          outside, records, result>>

Idle == [state |-> "idle", index |-> 0, canceled |-> FALSE, proc |-> None]
\* The completion tool is none of the calls of an answer.
CompletionIndex == -1
Pending == tool.state = "running"
IsCompletion == tool.index = CompletionIndex
NoList == [p \in Process |-> "none"]
NoResult == [status |-> "none", why |-> "none", procs |-> NoList]
Taken(k) == k \in sent /\ k \notin channel /\ k \notin inbox

\* ensureToolChoiceMetadata names a call without an id after the item and the
\* cycle; the completion tool's id ends with the turn.
CallID(i) ==
  IF cast.unnamed /\ i # CompletionIndex THEN <<turn, 0>> ELSE <<turn, i>>
Feedback(i, status) ==
  [turn |-> turn, id |-> CallID(i), status |-> status,
   batch |-> IF i = CompletionIndex THEN <<CallID(i)>> ELSE batch]
Ids(fs) == {fs[i].id : i \in DOMAIN fs}

-----------------------------------------------------------------------------
Init ==
  /\ cast \in Casts
  /\ sent = {} /\ channel = {} /\ inbox = {}
  /\ parent = [pc |-> "start", canceled |-> FALSE, interrupted |-> FALSE,
               result |-> NoResult]
  /\ pc = "off"
  /\ turn = 1
  /\ last = <<>> /\ history = <<>> /\ summary = {}
  /\ item = "none"
  /\ plan = <<>> /\ batch = <<>>
  /\ tool = Idle
  /\ refs = NoList
  /\ proc = NoList
  /\ records = {}
  /\ published = 0 /\ late = FALSE
  /\ result = NoResult

-----------------------------------------------------------------------------
(* The task's step.                                                        *)

Send(k) ==
  /\ k \in cast.signals \ sent
  /\ parent.pc # "done"
  /\ sent' = sent \cup {k}
  /\ channel' = channel \cup {k}
  /\ UNCHANGED <<cast, inbox, parent, pc, turn, seen, plan, batch, tool, refs,
                 outside, records, result>>

StartAgent ==
  /\ parent.pc = "start"
  /\ parent' = [parent EXCEPT !.pc = "wait"]
  /\ pc' = "drain"
  /\ UNCHANGED <<cast, signals, turn, seen, plan, batch, tool, refs, outside,
                 records, result>>

\* The child workflow does not start: a failed result.
StartFails ==
  /\ parent.pc = "start"
  /\ "decision" \in cast.faults
  /\ parent' = [parent EXCEPT !.pc = "done",
                              !.result = [NoResult EXCEPT !.status = "failed"]]
  /\ UNCHANGED <<cast, signals, pc, turn, seen, plan, batch, tool, refs,
                 outside, records, result>>

\* The selector takes the future first, then a cancel, an interrupt, a context.
\* A signal is passed on; that it comes too late is only logged.
PassOn(k) ==
  /\ parent.pc = "wait" /\ pc # "done"
  /\ k \in channel
  /\ k # "cancel" => "cancel" \notin channel
  /\ k = "context" => "interrupt" \notin channel
  /\ channel' = channel \ {k}
  /\ inbox' = inbox \cup {k}
  /\ parent' = [parent EXCEPT !.canceled = @ \/ k = "cancel",
                              !.interrupted = @ \/ k = "interrupt"]
  /\ UNCHANGED <<cast, sent, pc, turn, seen, plan, batch, tool, refs, outside,
                 records, result>>

\* The task gets the agent's result; a canceled agent cancels the step.
StepEnds ==
  /\ parent.pc = "wait" /\ pc = "done"
  /\ parent' = [parent EXCEPT !.pc = "done", !.result = result,
                              !.canceled = @ \/ result.status = "canceled"]
  /\ UNCHANGED <<cast, signals, pc, turn, seen, plan, batch, tool, refs,
                 outside, records, result>>

-----------------------------------------------------------------------------
(* The agent: a turn up to its decision.                                   *)

Forgotten(list) == NoList
Handed(list) == list

\* AgentWorkflow returns; whatever its status the result lists the processes.
Return(status, why, list) ==
  /\ pc' = "done"
  /\ result' = [status |-> status, why |-> why, procs |-> Handed(list)]

\* The turns are over: the decision is forced to be final.
ForcedOneLate == turn > MaxTurns + 1
Forced == turn > MaxTurns

\* What a drain heeds of the signals it receives
DrainedContextOnly(s) == s \cap {"context"}
Drained(s) == s

\* drainAgentWorkflowSignals: a cancel ends the agent, and an interrupt drops
\* the results the model has not seen.
Drain ==
  LET taken == Drained(inbox) IN
  /\ pc = "drain" /\ ~Forced
  /\ inbox' = {}
  /\ IF "cancel" \in taken
       THEN Return("canceled", "signal", refs) /\ UNCHANGED last
       ELSE /\ pc' = "compress"
            /\ last' = IF "interrupt" \in taken THEN <<>> ELSE last
            /\ UNCHANGED result
  /\ UNCHANGED <<cast, sent, channel, parent, turn, history, summary, item, plan,
                 batch, tool, refs, outside, records>>

\* CompressAgentObservations: all but the newest go into the summary, which
\* repeats the one before it; or there is too little, or the compressor fails
\* and the raw history still fits.
Older == SubSeq(history, 1, Len(history) - Recent)
NewestButOne == SubSeq(history, Len(history) - Recent + 2, Len(history))
Newest == SubSeq(history, Len(history) - Recent + 1, Len(history))
Summarized == summary \cup Ids(Older)

Compress ==
  /\ pc = "compress"
  /\ \/ UNCHANGED <<history, summary>>
     \/ /\ Len(history) > Recent
        /\ summary' = Summarized
        /\ history' = Newest
  /\ pc' = "decide"
  /\ UNCHANGED <<cast, signals, parent, turn, last, item, plan, batch, tool, refs,
                 outside, records, result>>

CompressFails ==
  /\ "decision" \in cast.faults
  /\ pc = "compress"
  /\ Len(history) > Recent
  /\ Return("failed", "compress", refs)
  /\ UNCHANGED <<cast, signals, parent, turn, seen, plan, batch, tool, refs,
                 outside, records>>

-----------------------------------------------------------------------------
(* The NextAction activity.                                                *)

Deciding == pc = "decide" \/ (pc = "drain" /\ Forced)

\* applyObservationToNextAction: a result makes the item ready again, a
\* canceled one blocks it; a missing item is created ready.
KeptIfCompleted(status) == IF item = "completed" THEN item ELSE status
Reopened(status) == status
ItemNow ==
  CASE last # <<>> -> Reopened(IF last[Len(last)].status = "canceled"
                                 THEN "blocked" ELSE "ready")
    [] last = <<>> /\ item = "none" -> "ready"
    [] OTHER -> item

Shown == history \o last
CanBeShown == IsAccepted(Shown)

\* The engine refuses the transcript, or the answers of all attempts; or the
\* item of a tool choice cannot be told.
DecisionFails(why) ==
  /\ Deciding
  /\ CASE why = "transcript" -> ~CanBeShown
       [] why = "item" -> CanBeShown /\ ItemNow = "completed" /\ ~Forced
       [] why = "decision" -> "decision" \in cast.faults
  /\ Return("failed", why, refs)
  /\ UNCHANGED <<cast, signals, parent, turn, seen, plan, batch, tool, refs,
                 outside, records>>

\* prepareToolNextAction
DecideTools(calls) ==
  /\ Deciding /\ ~Forced
  /\ CanBeShown
  /\ AnswerIsTaken(calls, Allowed)
  /\ ItemNow # "completed"
  /\ item' = "running"
  /\ plan' = [i \in DOMAIN calls |-> i]
  /\ batch' = [i \in DOMAIN calls |-> CallID(i)]
  /\ history' = Shown
  /\ last' = <<>>
  /\ pc' = "step"
  /\ UNCHANGED <<cast, signals, parent, turn, summary, tool, refs, outside,
                 records, result>>

\* cleanupTaskProcesses, where those in failing cannot be stopped
Owned == {p \in Process \ ProjectScoped : refs[p] = "running"}
Stopped(failing) == Owned \ failing
Stops(failing) ==
  /\ failing = {} \/ "stop" \in cast.faults
  /\ proc' = [p \in Process |->
                IF p \in Stopped(failing) /\ proc[p] = "running"
                  THEN "stopped" ELSE proc[p]]

\* The attempt that closes stopped the processes and its answer is lost.
DecisionLost ==
  /\ "decision" \in cast.faults
  /\ Deciding /\ CanBeShown
  /\ Owned # {}
  /\ Stops({})
  /\ UNCHANGED <<cast, signals, parent, pc, turn, seen, plan, batch, tool, refs,
                 published, late, records, result>>

\* finishNextAction: the model answered without tools, or had to.
DecideClose(failing) ==
  LET status == CASE failing # {} -> "failed"
                  [] failing = {} /\ Forced -> "blocked"
                  [] OTHER -> "completed"
      closed == IF Forced /\ ItemNow # "completed" THEN "blocked" ELSE "completed"
      list == [p \in Process |-> IF p \in Stopped(failing) THEN "stopped" ELSE refs[p]]
  IN
  /\ Deciding
  /\ CanBeShown
  /\ Stops(failing)
  /\ refs' = list
  /\ item' = closed
  /\ history' = Shown
  /\ last' = <<>>
  /\ IF status = "completed" /\ cast.authoring
       THEN /\ tool' = [Idle EXCEPT !.state = "running", !.index = CompletionIndex]
            /\ pc' = "tool"
            /\ UNCHANGED result
       ELSE /\ Return(IF status = "completed" THEN "succeeded" ELSE "failed",
                      status, list)
            /\ UNCHANGED tool
  /\ UNCHANGED <<cast, signals, parent, turn, summary, plan, batch, published,
                 late, records>>

-----------------------------------------------------------------------------
(* The agent's tools (executeToolStep).                                    *)

BeginTool ==
  /\ pc = "step" /\ plan # <<>>
  /\ tool' = [Idle EXCEPT !.state = "running", !.index = Head(plan)]
  /\ plan' = Tail(plan)
  /\ pc' = "tool"
  /\ UNCHANGED <<cast, signals, parent, turn, seen, batch, refs, outside,
                 records, result>>

SameTurn == turn
FollowingTurn == turn + 1

NextTurn ==
  /\ pc = "step" /\ plan = <<>>
  /\ turn' = FollowingTurn
  /\ pc' = "drain"
  /\ UNCHANGED <<cast, signals, parent, seen, plan, batch, tool, refs, outside,
                 records, result>>

Receive(k) ==
  /\ pc = "tool" /\ Pending
  /\ k \in inbox
  /\ k # "cancel" => "cancel" \notin inbox
  /\ k = "context" => "interrupt" \notin inbox
  /\ inbox' = inbox \ {k}

\* A cancel asks the activity to end and waits; a context is only added.
TakeSignal(k) ==
  /\ Receive(k)
  /\ k \in {"cancel", "context"}
  /\ tool' = [tool EXCEPT !.canceled = @ \/ k = "cancel"]
  /\ UNCHANGED <<cast, sent, channel, parent, pc, turn, seen, plan, batch, refs,
                 outside, records, result>>

\* The result is persisted and waits for the next decision.
GoOn(i, status) ==
  /\ records' = records \cup {CallID(i)}
  /\ last' = Append(last, Feedback(i, status))
  /\ pc' = "step"
  /\ UNCHANGED result

\* An interrupt returns at once: the activity is left to itself, the rest of
\* the plan is dropped, and a cancel received before is forgotten.
TakeInterrupt ==
  /\ Receive("interrupt")
  /\ GoOn(tool.index, "canceled")
  /\ plan' = <<>>
  /\ tool' = Idle
  /\ proc' = [p \in Process |->
                IF p = tool.proc /\ proc[p] = "running" THEN "adrift" ELSE proc[p]]
  /\ late' = (late \/ IsCompletion)
  /\ UNCHANGED <<cast, sent, channel, parent, turn, history, summary, item, batch,
                 refs, published>>

\* mergeAgentProcessReferences of a result that succeeded
Merged == IF tool.proc = None \/ tool.state = "failed" THEN refs
          ELSE [refs EXCEPT ![tool.proc] = "running"]

CompletionSucceeded == IsCompletion /\ tool.state = "ended"
SucceededUnlessCanceled == CompletionSucceeded /\ ~tool.canceled
Succeeds == CompletionSucceeded

\* The future is ready.  A publication is the agent's success even when a
\* cancel came; a cancel ends it; any other result goes to the next decision.
ToolEnds ==
  LET status == IF tool.state = "ended" THEN "succeeded" ELSE "failed" IN
  /\ pc = "tool" /\ tool.state \in {"ended", "failed"}
  /\ refs' = Merged
  /\ tool' = Idle
  /\ CASE Succeeds ->
            /\ Return("succeeded", "published", Merged)
            /\ records' = records \cup {CallID(tool.index)}
            /\ UNCHANGED last
       [] ~Succeeds /\ tool.canceled ->
            /\ Return("canceled", "signal", Merged)
            /\ records' = IF IsCompletion THEN records \cup {CallID(tool.index)}
                          ELSE records
            /\ UNCHANGED last
       [] OTHER -> GoOn(tool.index, status)
  /\ UNCHANGED <<cast, signals, parent, turn, history, summary, item, plan, batch,
                 outside>>

-----------------------------------------------------------------------------
(* Activities and processes.                                               *)

ToolStarts(p) ==
  /\ pc = "tool" /\ Pending /\ ~IsCompletion
  /\ tool.proc = None
  /\ p \in cast.procs /\ proc[p] = "none"
  /\ proc' = [proc EXCEPT ![p] = "running"]
  /\ tool' = [tool EXCEPT !.proc = p]
  /\ UNCHANGED <<cast, signals, parent, pc, turn, seen, plan, batch, refs,
                 published, late, records, result>>

ProcessBecomes(state) ==
  proc' = [p \in Process |-> IF p = tool.proc THEN state ELSE proc[p]]

\* The activity ends, fails and its process with it, or dies and leaves what
\* it did.
ToolReturns(state, lost) ==
  /\ pc = "tool" /\ Pending
  /\ state = "failed" => (IF lost THEN "lost" ELSE "tool") \in cast.faults
  /\ lost => state = "failed"
  /\ tool' = [tool EXCEPT !.state = state]
  /\ CASE state = "ended" -> UNCHANGED proc
       [] state = "failed" /\ ~lost -> ProcessBecomes("exited")
       [] lost -> ProcessBecomes("adrift")
  /\ published' = IF IsCompletion /\ (state = "ended" \/ lost)
                    THEN published + 1 ELSE published
  /\ UNCHANGED <<cast, signals, parent, pc, turn, seen, plan, batch, refs, late,
                 records, result>>

LatePublishes ==
  /\ late
  /\ late' = FALSE
  /\ published' = published + 1
  /\ UNCHANGED <<cast, signals, parent, pc, turn, seen, plan, batch, tool, refs,
                 proc, records, result>>

-----------------------------------------------------------------------------
Task == StartAgent \/ StartFails \/ StepEnds \/ \E k \in SignalKind : PassOn(k)

Agent ==
  \/ Drain \/ Compress \/ CompressFails
  \/ \E why \in {"transcript", "item", "decision"} : DecisionFails(why)
  \/ \E calls \in Answers : DecideTools(calls)
  \/ \E failing \in SUBSET Owned : DecideClose(failing)
  \/ BeginTool \/ NextTurn \/ TakeInterrupt \/ ToolEnds
  \/ \E k \in SignalKind : TakeSignal(k)

Activity == \E state \in {"ended", "failed"}, lost \in BOOLEAN :
              ToolReturns(state, lost)

Finished == parent.pc = "done" /\ UNCHANGED vars

Next ==
  \/ Task \/ Agent \/ Activity
  \/ \E k \in SignalKind : Send(k)
  \/ DecisionLost \/ LatePublishes
  \/ \E p \in Process : ToolStarts(p)
  \/ Finished

\* Temporal runs the workflows, retries activities and times them out.
Fairness == WF_vars(Task) /\ WF_vars(Agent) /\ WF_vars(Activity)

Spec == Init /\ [][Next]_vars /\ Fairness

-----------------------------------------------------------------------------
FeedbackType == [turn : 1 .. MaxTurns, id : (1 .. MaxTurns) \X Int,
                 batch : Seq((1 .. MaxTurns) \X Int),
                 status : {"succeeded", "failed", "canceled"}]

\* Types; the agent takes at most MaxTurns turns, and one decision after them.
TypeOK ==
  /\ cast \in CastType
  /\ channel \subseteq sent /\ inbox \subseteq sent /\ sent \subseteq cast.signals
  /\ parent.pc \in {"start", "wait", "done"}
  /\ pc \in {"off", "drain", "compress", "decide", "step", "tool", "done"}
  /\ turn \in 1 .. MaxTurns + 1
  /\ last \in Seq(FeedbackType) /\ history \in Seq(FeedbackType)
  /\ item \in {"none", "ready", "running", "blocked", "completed"}
  /\ tool.state \in {"idle", "running", "ended", "failed"}
  /\ refs \in [Process -> {"none", "running", "stopped"}]
  /\ proc \in [Process -> {"none", "running", "stopped", "exited", "adrift"}]

\* Every tool result in the database is before the model too (as the last
\* results, in the history, or in its summary) while the agent works, unless
\* an interrupt dropped it (agent.go:104) (compressAgentObservations).
ResultsAreKept ==
  (parent.pc = "wait" /\ pc # "done" /\ ~Taken("interrupt"))
    => records \subseteq Ids(Shown) \cup summary

\* Whatever part of a batch an interrupt or the compression leaves, the
\* messages built from it have a result for every call and a call for every
\* result, when the model names its calls (validateToolTranscriptMessages).
TranscriptIsAccepted == (Deciding /\ ~cast.unnamed) => CanBeShown

\* The agent loses its work item, completed by a decision whose publication
\* failed, only when an interrupt drops that failure (agent.go:103 and
\* prepareToolNextAction).
ItemIsReopened == result.why = "item" => Taken("interrupt")

\* A workflow that was published makes its agent succeed, and is published
\* once, a cancel notwithstanding; unless an interrupt left the completion
\* tool or its answer was lost (agent.go:167-197).
PublishedIsReported ==
  (published > 0 /\ pc = "done" /\ ~Taken("interrupt") /\ "lost" \notin cast.faults)
    => published = 1 /\ result.status = "succeeded"

\* Whichever way the agent ends, its parent learns of every process that a
\* tool left running (mergeAgentProcessReferences, agentWorkflowToolResult).
ProcessesAreHandedOver ==
  parent.pc = "done" =>
    \A p \in Process : proc[p] = "running" => parent.result.procs[p] = "running"

\* After the agent took a cancel it starts no tool; the interrupt that makes
\* executeToolStep forget the cancel aside (task.go:526).
CancelStopsAgent ==
  [][(pc # "tool" /\ pc' = "tool") => ~Taken("cancel") \/ Taken("interrupt")]_vars

\* The step ends (maxTurns; each wait ends by a result or a signal).
Closes == parent.pc = "wait" ~> parent.pc = "done"

\* What the task learns of its agent is true: how it ended, what it published
\* and the processes it leaves.
ResultIsTrue == TypeOK /\ ItemIsReopened /\ PublishedIsReported /\ ProcessesAreHandedOver

=============================================================================
