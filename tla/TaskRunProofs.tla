---------------------------- MODULE TaskRunProofs ----------------------------
(***************************************************************************)
(* What a task does with its signals and its workflow draft, for any       *)
(* signals, processes, plans, faults and number of cycles.                 *)
(***************************************************************************)
EXTENDS TaskRun, SequenceTheorems, TLAPS

-----------------------------------------------------------------------------
(* Types.                                                                  *)

\* Decisions, and attempts whose answer is lost, keep the types.
LEMMA DecisionTypes ==
  ASSUME TypeOK, Decision \/ DecisionLost PROVE TypeOK'
<1> USE DEF TypeOK, flow, history
<1>1. ASSUME NEW p \in Plans, DecideTools(p) PROVE TypeOK'
  BY <1>1, PlanAssumption DEF DecideTools
<1>2. ASSUME NEW status \in {"completed", "failed"},
             NEW failing \in SUBSET Owned, DecideClose(status, failing)
      PROVE TypeOK'
  BY <1>2 DEF DecideClose, CloseAs, Cleaned
<1>3. CASE DecisionFails
  BY <1>3 DEF DecisionFails, CloseIncomplete
<1>4. ASSUME NEW failing \in SUBSET Owned, Complete(failing) PROVE TypeOK'
  BY <1>4 DEF Complete, CloseAs, Cleaned
<1>5. CASE CompletionFails
  BY <1>5 DEF CompletionFails
<1>6. CASE DecisionLost
  BY <1>6 DEF DecisionLost, Cleaned
<1> QED
  BY <1>1, <1>2, <1>3, <1>4, <1>5, <1>6 DEF Decision

\* What a signal taken from its channel does to the channels.
LEMMA ReceiveTypes ==
  ASSUME TypeOK, NEW s \in Signal, Receive(s)
  PROVE  /\ channel' \in [SignalKind -> Seq(Signal)]
         /\ received' \subseteq Signal
BY SignalAssumption, HeadTailProperties DEF TypeOK, Receive

\* The steps of the workflow keep the types.
LEMMA CoroutineTypes == ASSUME TypeOK, Coroutine PROVE TypeOK'
<1> USE DEF TypeOK, flow, history
<1>1. CASE Drain
  <2>1. Range(channel["context"]) \subseteq Signal
    BY DEF Range, SignalKind
  <2> QED
    BY <1>1, <2>1, EmptySeq DEF Drain, DrainPersists, SignalKind
<1>2. CASE BeginStep
  <2>1. Head(plan) \in ToolKind /\ Tail(plan) \in Seq(ToolKind)
    BY <1>2, HeadTailProperties DEF BeginStep
  <2> QED
    BY <1>2, <2>1 DEF BeginStep
<1>3. CASE PrepareRefused
  <2>1. Tail(plan) \in Seq(ToolKind)
    BY <1>3, HeadTailProperties DEF PrepareRefused
  <2> QED
    BY <1>3, <2>1 DEF PrepareRefused
<1>4. CASE NextCycle
  BY <1>4, CycleAssumption DEF NextCycle, IsLastCycle, FollowingCycle
<1>5. CASE StepEnds
  <2>1. Merged \in [Process -> {"none", "running", "stopped"}]
    <3> DEFINE entry == IF IsAgent /\ proc[tool.proc] = "stopped"
                          THEN "stopped" ELSE "running"
    <3>1. entry \in {"none", "running", "stopped"}
      OBVIOUS
    <3>2. [refs EXCEPT ![tool.proc] = entry]
            \in [Process -> {"none", "running", "stopped"}]
      BY <3>1
    <3> QED
      BY <3>2 DEF Merged
  <2>2. plan' \in Seq(ToolKind)
    <3>1. plan' \in {plan, <<>>}
      BY <1>5 DEF StepEnds
    <3> QED
      BY <3>1, EmptySeq
  <2>3. /\ pc' \in {"step", "done", "completion"}
        /\ outcome' \in {outcome, [outcome EXCEPT !.status = "incomplete"]}
    BY <1>5 DEF StepEnds, CloseIncomplete
  <2>4. outcome' \in [status : {"open", "completed", "failed", "incomplete", "error"},
                      stopFailed : BOOLEAN]
    BY <2>3
  <2>5. /\ refs' = Merged /\ tool' = Idle /\ taken' = {}
        /\ persisted' = persisted \cup taken
        /\ draft' \in {draft, "published", "cleaned"}
        /\ UNCHANGED <<channel, sent, cycle, kind, canceled, interrupted,
                       additional, abandoned, proc, received, considered>>
    BY <1>5 DEF StepEnds, SettledDraft
  <2>6. Idle \in [state : {"idle", "running", "ended", "failed", "canceled"},
                  proc : Process \cup {None}]
    BY DEF Idle
  <2> QED
    BY <2>1, <2>2, <2>3, <2>4, <2>5, <2>6
<1>6. ASSUME NEW s \in Signal, TakeCancel(s) PROVE TypeOK'
  <2>1. tool' \in {tool, [tool EXCEPT !.state = "failed"]}
    BY <1>6 DEF TakeCancel
  <2>2. tool' \in [state : {"idle", "running", "ended", "failed", "canceled"},
                   proc : Process \cup {None}]
    BY <2>1
  <2> QED
    BY <1>6, <2>2, ReceiveTypes DEF TakeCancel
<1>7. ASSUME NEW s \in Signal, TakeContext(s) PROVE TypeOK'
  BY <1>7, ReceiveTypes DEF TakeContext
<1>8. ASSUME NEW s \in Signal, InterruptTool(s) PROVE TypeOK'
  BY <1>8, ReceiveTypes DEF InterruptTool, AddBody, Idle, Adrift
<1>9. ASSUME NEW s \in Signal, InterruptAgent(s) PROVE TypeOK'
  BY <1>9, ReceiveTypes DEF InterruptAgent, AddBody
<1> QED
  BY <1>1, <1>2, <1>3, <1>4, <1>5, <1>6, <1>7, <1>8, <1>9 DEF Coroutine

\* The types of the state, for all constants.
THEOREM TypeCorrect == Spec => []TypeOK
<1>1. Init => TypeOK
  <2> SUFFICES ASSUME Init PROVE TypeOK
    OBVIOUS
  <2>1. channel \in [SignalKind -> Seq(Signal)] /\ plan \in Seq(ToolKind)
    BY EmptySeq DEF Init
  <2>2. cycle \in 1..MaxCycles /\ kind \in ToolKind
    BY CycleAssumption DEF Init, ToolKind
  <2> QED
    BY <2>1, <2>2 DEF Init, TypeOK, Idle
<1>2. TypeOK /\ [Next]_vars => TypeOK'
  <2> SUFFICES ASSUME TypeOK, [Next]_vars PROVE TypeOK'
    OBVIOUS
  <2>1. CASE Decision \/ DecisionLost
    BY <2>1, DecisionTypes
  <2>2. CASE Coroutine
    BY <2>2, CoroutineTypes
  <2> USE DEF TypeOK, flow, history
  <2>3. CASE ToolReturns
    BY <2>3 DEF ToolReturns, Adrift
  <2>4. ASSUME NEW state \in {"ended", "failed", "canceled"},
               NEW stops \in BOOLEAN, AgentReturns(state, stops)
        PROVE TypeOK'
    BY <2>4 DEF AgentReturns
  <2>5. CASE AbandonedEnds
    BY <2>5 DEF AbandonedEnds
  <2>6. ASSUME NEW s \in Signal, Send(s) PROVE TypeOK'
    <3>1. channel' \in [SignalKind -> Seq(Signal)]
      BY <2>6, SignalAssumption, AppendProperties DEF Send
    <3> QED
      BY <2>6, <3>1 DEF Send
  <2>7. ASSUME NEW p \in Process,
               ToolStarts(p) \/ AbandonedStarts(p) \/ ProcessExits(p)
        PROVE TypeOK'
    <3>1. CASE ToolStarts(p)
      BY <3>1 DEF ToolStarts, Starts
    <3>2. CASE AbandonedStarts(p)
      <4>1. abandoned - 1 \in Nat
        BY <3>2 DEF AbandonedStarts
      <4> QED
        BY <3>2, <4>1 DEF AbandonedStarts, Starts
    <3>3. CASE ProcessExits(p)
      BY <3>3 DEF ProcessExits
    <3> QED
      BY <2>7, <3>1, <3>2, <3>3
  <2>8. CASE UNCHANGED vars
    BY <2>8 DEF vars
  <2> QED
    BY <2>1, <2>2, <2>3, <2>4, <2>5, <2>6, <2>7, <2>8 DEF Next, Return
<1> QED
  BY <1>1, <1>2, PTL DEF Spec

-----------------------------------------------------------------------------
(* Signals and the draft.                                                  *)

\* While a step waits, the signals it took are on their way to the database;
\* at any other time nothing is.
PersistInv ==
  /\ received \subseteq persisted \cup taken
  /\ pc # "tool" => taken = {}

\* A signal the task took has reached the database before the task decides,
\* starts another step or closes.
THEOREM PersistedCorrect == Spec => []ReceivedIsPersisted
<1>1. Init => PersistInv
  BY DEF Init, PersistInv
<1>2. PersistInv /\ [Next]_vars => PersistInv'
  <2> SUFFICES ASSUME PersistInv, [Next]_vars PROVE PersistInv'
    OBVIOUS
  <2> USE DEF PersistInv, flow, history
  <2>1. CASE Decision
    BY <2>1 DEF Decision, DecideTools, DecideClose, CloseAs, DecisionFails,
                CloseIncomplete, Complete, CompletionFails
  <2>2. CASE Coroutine
    <3>1. CASE Drain
      BY <3>1 DEF Drain, DrainPersists
    <3>2. CASE BeginStep \/ PrepareRefused \/ NextCycle
      BY <3>2 DEF BeginStep, PrepareRefused, NextCycle
    <3>3. CASE StepEnds
      BY <3>3 DEF StepEnds
    <3>4. ASSUME NEW s \in Signal, TakeCancel(s) \/ TakeContext(s) \/ InterruptAgent(s)
          PROVE PersistInv'
      BY <3>4 DEF TakeCancel, TakeContext, InterruptAgent, Receive
    <3>5. ASSUME NEW s \in Signal, InterruptTool(s) PROVE PersistInv'
      BY <3>5 DEF InterruptTool, Receive
    <3> QED
      BY <2>2, <3>1, <3>2, <3>3, <3>4, <3>5 DEF Coroutine
  <2>3. CASE Return \/ DecisionLost \/ AbandonedEnds
    BY <2>3 DEF Return, ToolReturns, AgentReturns, DecisionLost, AbandonedEnds
  <2>4. ASSUME NEW s \in Signal, Send(s) PROVE PersistInv'
    BY <2>4 DEF Send
  <2>5. ASSUME NEW p \in Process,
               ToolStarts(p) \/ AbandonedStarts(p) \/ ProcessExits(p)
        PROVE PersistInv'
    BY <2>5 DEF ToolStarts, AbandonedStarts, ProcessExits
  <2>6. CASE UNCHANGED vars
    BY <2>6 DEF vars
  <2> QED
    BY <2>1, <2>2, <2>3, <2>4, <2>5, <2>6 DEF Next
<1>3. PersistInv => ReceivedIsPersisted
  BY DEF PersistInv, ReceivedIsPersisted
<1> QED
  BY <1>1, <1>2, <1>3, PTL DEF Spec

\* additionalEvents has every message the task took; a closing decision has
\* seen them, and after it the task takes no more.
ConsiderInv ==
  /\ \A s \in received : Carries(s) => s \in additional
  /\ pc # "done" => outcome.status = "open"
  /\ ReceivedIsConsidered

\* A task completes only by a decision that saw every message it took.
THEOREM ConsideredCorrect == Spec => []ReceivedIsConsidered
<1>1. Init => ConsiderInv
  BY DEF Init, ConsiderInv, ReceivedIsConsidered
<1>2. TypeOK /\ ConsiderInv /\ [Next]_vars => ConsiderInv'
  <2> SUFFICES ASSUME TypeOK, ConsiderInv, [Next]_vars PROVE ConsiderInv'
    OBVIOUS
  <2> USE DEF ConsiderInv, ReceivedIsConsidered, flow, history
  <2>0. outcome \in [status : {"open", "completed", "failed", "incomplete", "error"},
                     stopFailed : BOOLEAN]
    BY DEF TypeOK
  <2>1. CASE Decision
    <3>1. ASSUME NEW p \in Plans, DecideTools(p) PROVE ConsiderInv'
      BY <3>1 DEF DecideTools
    <3>2. ASSUME NEW status \in {"completed", "failed"},
                 NEW failing \in SUBSET Owned, DecideClose(status, failing)
          PROVE ConsiderInv'
      BY <3>2 DEF DecideClose, CloseAs
    <3>3. CASE DecisionFails
      BY <2>0, <3>3 DEF DecisionFails, CloseIncomplete
    <3>4. ASSUME NEW failing \in SUBSET Owned, Complete(failing) PROVE ConsiderInv'
      BY <3>4 DEF Complete, CloseAs
    <3>5. CASE CompletionFails
      BY <2>0, <3>5 DEF CompletionFails
    <3> QED
      BY <2>1, <3>1, <3>2, <3>3, <3>4, <3>5 DEF Decision
  <2>2. CASE Coroutine
    <3>1. CASE Drain
      BY <3>1 DEF Drain
    <3>2. CASE BeginStep \/ PrepareRefused \/ NextCycle
      BY <3>2 DEF BeginStep, PrepareRefused, NextCycle
    <3>3. CASE StepEnds
      <4>1. /\ UNCHANGED <<received, additional, considered>>
            /\ outcome' \in {outcome, [outcome EXCEPT !.status = "incomplete"]}
            /\ pc' # "done" => outcome' = outcome
            /\ pc = "tool"
        BY <3>3 DEF StepEnds, CloseIncomplete
      <4> QED
        BY <2>0, <4>1
    <3>4. ASSUME NEW s \in Signal, TakeCancel(s) \/ TakeContext(s) PROVE ConsiderInv'
      BY <3>4 DEF TakeCancel, TakeContext, Receive, Carries
    <3>5. ASSUME NEW s \in Signal, InterruptTool(s) \/ InterruptAgent(s)
          PROVE ConsiderInv'
      BY <3>5 DEF InterruptTool, InterruptAgent, Receive, Carries, AddBody
    <3> QED
      BY <2>2, <3>1, <3>2, <3>3, <3>4, <3>5 DEF Coroutine
  <2>3. CASE Return \/ DecisionLost \/ AbandonedEnds
    BY <2>3 DEF Return, ToolReturns, AgentReturns, DecisionLost, AbandonedEnds
  <2>4. ASSUME NEW s \in Signal, Send(s) PROVE ConsiderInv'
    BY <2>4 DEF Send
  <2>5. ASSUME NEW p \in Process,
               ToolStarts(p) \/ AbandonedStarts(p) \/ ProcessExits(p)
        PROVE ConsiderInv'
    BY <2>5 DEF ToolStarts, AbandonedStarts, ProcessExits
  <2>6. CASE UNCHANGED vars
    BY <2>6 DEF vars
  <2> QED
    BY <2>1, <2>2, <2>3, <2>4, <2>5, <2>6 DEF Next
<1>3. ConsiderInv => ReceivedIsConsidered
  BY DEF ConsiderInv
<1> QED
  BY <1>1, <1>2, <1>3, TypeCorrect, PTL DEF Spec

\* A draft is prepared only while the authoring step that wants it waits.
DraftInv == draft = "prepared" => pc = "tool" /\ kind = "authoring"

\* A workflow draft is published or cleaned up before the task goes on, whether
\* its step succeeded, failed, was canceled or interrupted.
THEOREM DraftCorrect == Spec => []DraftIsSettled
<1>1. Init => DraftInv
  BY DEF Init, DraftInv
<1>2. DraftInv /\ [Next]_vars => DraftInv'
  <2> SUFFICES ASSUME DraftInv, [Next]_vars PROVE DraftInv'
    OBVIOUS
  <2> USE DEF DraftInv, flow, history
  <2>1. CASE Decision
    BY <2>1 DEF Decision, DecideTools, DecideClose, CloseAs, DecisionFails,
                CloseIncomplete, Complete, CompletionFails
  <2>2. CASE Coroutine
    <3>1. CASE Drain \/ BeginStep \/ PrepareRefused \/ NextCycle
      BY <3>1 DEF Drain, BeginStep, PrepareRefused, NextCycle
    <3>2. CASE StepEnds
      BY <3>2 DEF StepEnds, SettledDraft
    <3>3. ASSUME NEW s \in Signal, TakeCancel(s) \/ TakeContext(s) \/ InterruptAgent(s)
          PROVE DraftInv'
      BY <3>3 DEF TakeCancel, TakeContext, InterruptAgent
    <3>4. ASSUME NEW s \in Signal, InterruptTool(s) PROVE DraftInv'
      BY <3>4 DEF InterruptTool, Receive, IsAgent
    <3> QED
      BY <2>2, <3>1, <3>2, <3>3, <3>4 DEF Coroutine
  <2>3. CASE Return \/ DecisionLost \/ AbandonedEnds
    BY <2>3 DEF Return, ToolReturns, AgentReturns, DecisionLost, AbandonedEnds
  <2>4. ASSUME NEW s \in Signal, Send(s) PROVE DraftInv'
    BY <2>4 DEF Send
  <2>5. ASSUME NEW p \in Process,
               ToolStarts(p) \/ AbandonedStarts(p) \/ ProcessExits(p)
        PROVE DraftInv'
    BY <2>5 DEF ToolStarts, AbandonedStarts, ProcessExits
  <2>6. CASE UNCHANGED vars
    BY <2>6 DEF vars
  <2> QED
    BY <2>1, <2>2, <2>3, <2>4, <2>5, <2>6 DEF Next
<1>3. DraftInv => DraftIsSettled
  BY DEF DraftInv, DraftIsSettled
<1> QED
  BY <1>1, <1>2, <1>3, PTL DEF Spec

-----------------------------------------------------------------------------
(* Cancellation, of a task that is not interrupted and authors no workflow.*)

\* The channel that drainTaskSignals empties has context signals only.
ContextSignal == {s \in Signal : s.kind = "context"}
ContextOnly == channel["context"] \in Seq(ContextSignal)

\* Signals are queued in the channel of their kind and taken from its head.
LEMMA ContextOnlyStep ==
  ASSUME TypeOK, ContextOnly, [Next]_vars PROVE ContextOnly'
<1> USE DEF ContextOnly, flow, history
<1>0. "context" \in SignalKind /\ channel \in [SignalKind -> Seq(Signal)]
  BY DEF TypeOK, SignalKind
<1>1. ASSUME UNCHANGED channel PROVE ContextOnly'
  BY <1>1
<1>2. CASE Decision \/ DecisionLost \/ Return \/ AbandonedEnds
  BY <1>1, <1>2 DEF Decision, DecideTools, DecideClose, DecisionFails, Complete,
                    CompletionFails, DecisionLost, Return, ToolReturns,
                    AgentReturns, AbandonedEnds
<1>3. CASE Coroutine
  <2>1. CASE Drain
    BY <1>0, <2>1, EmptySeq DEF Drain
  <2>2. CASE BeginStep \/ PrepareRefused \/ NextCycle \/ StepEnds
    BY <1>1, <2>2 DEF BeginStep, PrepareRefused, NextCycle, StepEnds
  <2>3. ASSUME NEW s \in Signal, Receive(s) PROVE ContextOnly'
    <3>1. CASE s.kind = "context"
      <4>1. channel'["context"] = Tail(channel["context"])
        BY <1>0, <2>3, <3>1 DEF Receive
      <4> QED
        BY <2>3, <3>1, <4>1, HeadTailProperties DEF Receive
    <3>2. CASE s.kind # "context"
      BY <1>0, <2>3, <3>2 DEF Receive
    <3> QED
      BY <3>1, <3>2
  <2>4. ASSUME NEW s \in Signal, TakeCancel(s) \/ TakeContext(s)
                                  \/ InterruptTool(s) \/ InterruptAgent(s)
        PROVE ContextOnly'
    BY <2>3, <2>4 DEF TakeCancel, TakeContext, InterruptTool, InterruptAgent
  <2> QED
    BY <1>3, <2>1, <2>2, <2>4 DEF Coroutine
<1>4. ASSUME NEW s \in Signal, Send(s) PROVE ContextOnly'
  <2>1. CASE s.kind = "context"
    <3>1. channel'["context"] = Append(channel["context"], s)
      BY <1>0, <1>4, <2>1 DEF Send
    <3>2. s \in ContextSignal
      BY <2>1 DEF ContextSignal
    <3> QED
      BY <3>1, <3>2, AppendProperties
  <2>2. CASE s.kind # "context"
    BY <1>0, <1>4, <2>2 DEF Send
  <2> QED
    BY <2>1, <2>2
<1>5. ASSUME NEW p \in Process,
             ToolStarts(p) \/ AbandonedStarts(p) \/ ProcessExits(p)
      PROVE ContextOnly'
  BY <1>1, <1>5 DEF ToolStarts, AbandonedStarts, ProcessExits
<1>6. CASE UNCHANGED vars
  BY <1>1, <1>6 DEF vars
<1> QED
  BY <1>2, <1>3, <1>4, <1>5, <1>6 DEF Next

\* From the step that takes a cancel, while nothing disturbs the task, it goes
\* to its completion request or closes, and not as completed.
CancelInv ==
  /\ pc # "done" => outcome.status = "open"
  /\ pc = "tool" /\ kind = "authoring" => draft # "none"
  /\ Canceled /\ Undisturbed => \/ pc = "tool" /\ canceled
                                \/ pc = "completion"
                                \/ pc = "done" /\ outcome.status # "completed"

\* A task that took a cancel and is not disturbed does not end as completed.
THEOREM CanceledCorrect == Spec => []CanceledStopsIncomplete
<1>1. Init => CancelInv
  BY DEF Init, CancelInv, Canceled
<1>2. TypeOK /\ ContextOnly /\ CancelInv /\ [Next]_vars => CancelInv'
  <2> SUFFICES ASSUME TypeOK, ContextOnly, CancelInv, [Next]_vars PROVE CancelInv'
    OBVIOUS
  <2> USE DEF CancelInv, Canceled, Undisturbed, flow, history
  <2>0. outcome \in [status : {"open", "completed", "failed", "incomplete", "error"},
                     stopFailed : BOOLEAN]
    BY DEF TypeOK
  <2>1. CASE Decision
    <3>1. ASSUME NEW p \in Plans, DecideTools(p) PROVE CancelInv'
      BY <3>1 DEF DecideTools
    <3>2. ASSUME NEW status \in {"completed", "failed"},
                 NEW failing \in SUBSET Owned, DecideClose(status, failing)
          PROVE CancelInv'
      BY <3>2 DEF DecideClose, CloseAs
    <3>3. CASE DecisionFails
      BY <2>0, <3>3 DEF DecisionFails, CloseIncomplete
    <3>4. ASSUME NEW failing \in SUBSET Owned, Complete(failing) PROVE CancelInv'
      BY <3>4 DEF Complete, CloseAs
    <3>5. CASE CompletionFails
      BY <2>0, <3>5 DEF CompletionFails
    <3> QED
      BY <2>1, <3>1, <3>2, <3>3, <3>4, <3>5 DEF Decision
  <2>2. CASE Coroutine
    <3>1. CASE Drain
      <4>1. \A s \in Range(channel["context"]) : s.kind # "cancel"
        BY DEF ContextOnly, ContextSignal, Range
      <4> QED
        BY <3>1, <4>1 DEF Drain
    <3>2. CASE BeginStep
      BY <3>2 DEF BeginStep
    <3>3. CASE PrepareRefused
      BY <3>3 DEF PrepareRefused
    <3>4. CASE NextCycle
      BY <3>4 DEF NextCycle
    <3>5. CASE StepEnds
      <4>1. /\ UNCHANGED <<received, kind>> /\ pc = "tool"
            /\ kind # "authoring" => draft' = draft
            /\ kind = "authoring" => draft' # "none"
        BY <3>5 DEF StepEnds, SettledDraft
      <4>2. CASE StepCanceled
        <5>1. /\ pc' \in {"done", "completion"}
              /\ outcome' = IF pc' = "done" THEN [outcome EXCEPT !.status = "incomplete"]
                                            ELSE outcome
          BY <3>5, <4>2 DEF StepEnds, CloseIncomplete
        <5> QED
          BY <2>0, <4>1, <5>1
      <4>3. CASE ~StepCanceled
        <5>1. kind # "authoring" => ~canceled
          BY <4>3 DEF StepCanceled, Published
        <5>2. pc' = "step" /\ outcome' = outcome
          BY <3>5, <4>3 DEF StepEnds
        <5> QED
          BY <4>1, <5>1, <5>2
      <4> QED
        BY <4>2, <4>3
    <3>6. ASSUME NEW s \in Signal, TakeCancel(s) PROVE CancelInv'
      BY <3>6 DEF TakeCancel, Receive
    <3>7. ASSUME NEW s \in Signal, TakeContext(s) PROVE CancelInv'
      BY <3>7 DEF TakeContext, Receive
    <3>8. ASSUME NEW s \in Signal, InterruptTool(s) \/ InterruptAgent(s)
          PROVE CancelInv'
      BY <3>8 DEF InterruptTool, InterruptAgent, Receive
    <3> QED
      BY <2>2, <3>1, <3>2, <3>3, <3>4, <3>5, <3>6, <3>7, <3>8 DEF Coroutine
  <2>3. CASE Return \/ DecisionLost \/ AbandonedEnds
    BY <2>3 DEF Return, ToolReturns, AgentReturns, DecisionLost, AbandonedEnds
  <2>4. ASSUME NEW s \in Signal, Send(s) PROVE CancelInv'
    BY <2>4 DEF Send
  <2>5. ASSUME NEW p \in Process,
               ToolStarts(p) \/ AbandonedStarts(p) \/ ProcessExits(p)
        PROVE CancelInv'
    BY <2>5 DEF ToolStarts, AbandonedStarts, ProcessExits
  <2>6. CASE UNCHANGED vars
    BY <2>6 DEF vars
  <2> QED
    BY <2>1, <2>2, <2>3, <2>4, <2>5, <2>6 DEF Next
<1>3. CancelInv => CanceledStopsIncomplete
  BY DEF CancelInv, CanceledStopsIncomplete
<1>4. Init => ContextOnly
  BY EmptySeq DEF Init, ContextOnly, SignalKind
<1>5. TypeOK /\ ContextOnly /\ [Next]_vars => ContextOnly'
  BY ContextOnlyStep
<1> QED
  BY <1>1, <1>2, <1>3, <1>4, <1>5, TypeCorrect, PTL DEF Spec

-----------------------------------------------------------------------------
(* Processes.                                                              *)

\* A process that runs and can be stopped is known: to the list, or to the
\* step that waits for its tool; when the task is done, its stop failed.
KnownInv ==
  /\ \A p \in Process \ ProjectScoped :
       proc[p] = "running" =>
         \/ pc # "done" /\ refs[p] = "running"
         \/ pc = "tool" /\ tool.proc = p
         \/ pc = "done" /\ (outcome.status = "error" \/ outcome.stopFailed)
  /\ pc = "tool" /\ ~IsAgent /\ tool.state = "failed" /\ tool.proc \in Process
       => proc[tool.proc] # "running"
  /\ pc = "tool" /\ kind = "memory" => tool.proc = None
  /\ \A p \in ProjectScoped : proc[p] # "stopped"

\* A step keeps the processes known.
LEMMA KnownStep == ASSUME TypeOK, KnownInv, [Next]_vars PROVE KnownInv'
<1> USE ProcessAssumption DEF KnownInv, IsAgent, flow, history
<1>0. /\ proc \in [Process -> {"none", "running", "adrift", "exited", "stopped"}]
      /\ refs \in [Process -> {"none", "running", "stopped"}]
      /\ tool \in [state : {"idle", "running", "ended", "failed", "canceled"},
                   proc : Process \cup {None}]
      /\ outcome \in [status : {"open", "completed", "failed", "incomplete", "error"},
                      stopFailed : BOOLEAN]
  BY DEF TypeOK
<1>1. CASE Decision \/ DecisionLost
  <2>1. ASSUME NEW p \in Plans, DecideTools(p) PROVE KnownInv'
    BY <2>1 DEF DecideTools
  <2>2. ASSUME NEW status, NEW failing \in SUBSET Owned, pc \notin {"tool", "done"},
               CloseAs(status, failing), UNCHANGED <<refs, tool, kind>>
        PROVE KnownInv'
    <3>1. \A p \in Process \ ProjectScoped :
            proc'[p] = "running" => outcome'.stopFailed
      BY <1>0, <2>2 DEF CloseAs, Cleaned, Owned
    <3>2. \A p \in ProjectScoped : proc'[p] # "stopped"
      BY <1>0, <2>2 DEF CloseAs, Cleaned, Owned
    <3>3. pc' = "done"
      BY <2>2 DEF CloseAs
    <3> QED
      BY <3>1, <3>2, <3>3
  <2>3. ASSUME NEW status \in {"completed", "failed"},
               NEW failing \in SUBSET Owned, DecideClose(status, failing)
        PROVE KnownInv'
    BY <2>2, <2>3 DEF DecideClose
  <2>4. CASE DecisionFails
    BY <1>0, <2>4 DEF DecisionFails, CloseIncomplete
  <2>5. ASSUME NEW failing \in SUBSET Owned, Complete(failing) PROVE KnownInv'
    BY <2>2, <2>5 DEF Complete
  <2>6. CASE CompletionFails
    BY <1>0, <2>6 DEF CompletionFails
  <2>7. CASE DecisionLost
    BY <1>0, <2>7 DEF DecisionLost, Cleaned, Owned
  <2> QED
    BY <1>1, <2>1, <2>3, <2>4, <2>5, <2>6, <2>7 DEF Decision
<1>2. CASE Coroutine
  <2>1. CASE Drain
    BY <2>1 DEF Drain
  <2>2. CASE BeginStep
    BY <1>0, <2>2 DEF BeginStep
  <2>3. CASE PrepareRefused
    BY <2>3 DEF PrepareRefused
  <2>4. CASE NextCycle
    BY <2>4 DEF NextCycle
  <2>5. CASE StepEnds
    <3>1. /\ pc = "tool" /\ refs' = Merged /\ proc' = proc /\ pc' # "tool"
          /\ pc' = "done" => \A p \in Process : Merged[p] = "none"
      BY <2>5 DEF StepEnds, CloseIncomplete
    <3>2. ASSUME NEW p \in Process \ ProjectScoped, proc[p] = "running"
          PROVE  Merged[p] = "running"
      BY <1>0, <3>1, <3>2 DEF Merged
    <3> QED
      BY <1>0, <3>1, <3>2
  <2>6. ASSUME NEW s \in Signal, TakeCancel(s) PROVE KnownInv'
    BY <1>0, <2>6 DEF TakeCancel, Receive, Pending
  <2>7. ASSUME NEW s \in Signal, TakeContext(s) \/ InterruptAgent(s)
        PROVE KnownInv'
    BY <2>7 DEF TakeContext, InterruptAgent
  <2>8. ASSUME NEW s \in Signal, InterruptTool(s) PROVE KnownInv'
    <3>1. pc = "tool" /\ pc' = "step" /\ refs' = refs /\ proc' = Adrift(tool.proc)
      BY <2>8 DEF InterruptTool, Receive
    <3> QED
      BY <1>0, <3>1 DEF Adrift
  <2> QED
    BY <1>2, <2>1, <2>2, <2>3, <2>4, <2>5, <2>6, <2>7, <2>8 DEF Coroutine
<1>3. CASE ToolReturns
  BY <1>0, <1>3 DEF ToolReturns, Adrift
<1>4. ASSUME NEW state \in {"ended", "failed", "canceled"},
             NEW stops \in BOOLEAN, AgentReturns(state, stops)
      PROVE KnownInv'
  BY <1>0, <1>4 DEF AgentReturns
<1>5. CASE AbandonedEnds
  BY <1>5 DEF AbandonedEnds
<1>6. ASSUME NEW s \in Signal, Send(s) PROVE KnownInv'
  BY <1>6 DEF Send
<1>7. ASSUME NEW p \in Process, ToolStarts(p) PROVE KnownInv'
  BY <1>0, <1>7 DEF ToolStarts, Starts, Pending
<1>8. ASSUME NEW p \in Process, AbandonedStarts(p) \/ ProcessExits(p)
      PROVE KnownInv'
  BY <1>0, <1>8 DEF AbandonedStarts, ProcessExits
<1>9. CASE UNCHANGED vars
  BY <1>9 DEF vars
<1> QED
  BY <1>1, <1>2, <1>3, <1>4, <1>5, <1>6, <1>7, <1>8, <1>9 DEF Next, Return

\* When a task has ended, what still runs of the processes named to it is of
\* the project, or could not be stopped.
THEOREM NothingLeftCorrect == Spec => []NothingLeftRunning
<1>1. Init => KnownInv
  BY ProcessAssumption DEF Init, KnownInv, Idle
<1>2. TypeOK /\ KnownInv /\ [Next]_vars => KnownInv'
  BY KnownStep
<1>3. KnownInv => NothingLeftRunning
  BY DEF KnownInv, NothingLeftRunning
<1> QED
  BY <1>1, <1>2, <1>3, TypeCorrect, PTL DEF Spec

=============================================================================
