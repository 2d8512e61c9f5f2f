---------------------------- MODULE AgentRunProofs ----------------------------
(***************************************************************************)
(* Proofs about AgentRun: for any answers of the model, any number of      *)
(* turns, any processes, signals and faults, and any number of             *)
(* observations that are never compressed.                                 *)
(***************************************************************************)
EXTENDS AgentRun, SequenceTheorems, WellFoundedInduction, TLAPS

USE CastAssumption, AgentAssumption

-----------------------------------------------------------------------------
(* The inductive invariants.                                               *)

CallIDs == (1 .. MaxTurns) \X Int
Lists == [Process -> {"none", "running", "stopped"}]
Statuses == {"none", "succeeded", "failed", "canceled"}
Reasons == {"none", "signal", "compress", "transcript", "item", "decision",
            "completed", "failed", "blocked", "published"}
ResultType == [status : Statuses, why : Reasons, procs : Lists]
ParentType == [pc : {"start", "wait", "done"}, canceled : BOOLEAN,
               interrupted : BOOLEAN, result : ResultType]
ToolType == [state : {"idle", "running", "ended", "failed"}, index : Int,
             canceled : BOOLEAN, proc : Process \cup {None}]

\* The types; a tool runs or is idle; only the last decision is made after the
\* turns are over; a signal is in one channel at a time.
TypeInv ==
  /\ TypeOK
  /\ channel \cap inbox = {}
  /\ parent \in ParentType
  /\ result \in ResultType
  /\ plan \in Seq(Nat) /\ batch \in Seq(CallIDs)
  /\ tool \in ToolType
  /\ published \in Nat /\ late \in BOOLEAN
  /\ pc \in {"compress", "decide", "step", "tool"} => turn <= MaxTurns
  /\ pc = "tool" \/ tool = Idle
  /\ parent.pc = "start" => pc = "off"

\* A completed item is the agent's last act, unless a result reopens it or an
\* interrupt dropped that result.
ItemInv ==
  /\ item = "completed" /\ pc # "done" =>
       (pc = "tool" /\ IsCompletion) \/ last # <<>> \/ Taken("interrupt")
  /\ result.why = "item" => Taken("interrupt")

\* The publication, between the completion tool and the result
PublicationInv ==
  ~Taken("interrupt") /\ "lost" \notin cast.faults =>
    /\ ~late
    /\ \/ published = 0
       \/ /\ published = 1
          /\ \/ pc = "tool" /\ IsCompletion /\ tool.state = "ended"
             \/ pc = "done" /\ result.status = "succeeded"

\* The process that a tool left running is in the list of the agent, of the
\* tool that just ends, or of the result.
ProcessInv ==
  /\ parent.pc = "done" => pc = "off" \/ (pc = "done" /\ parent.result = result)
  /\ \A x \in Process : proc[x] = "running" =>
       /\ pc # "off"
       /\ pc # "done" =>
            refs[x] = "running" \/ (pc = "tool" /\ tool.proc = x /\ tool.state # "failed")
       /\ pc = "done" => result.procs[x] = "running"

\* The agent that took a cancel ends, with the tool it runs at the latest.
CancelInv ==
  Taken("cancel") /\ ~Taken("interrupt") =>
    pc = "done" \/ (pc = "tool" /\ tool.canceled)

\* What the model is to see, between decisions
KeptInv ==
  pc # "done" /\ ~Taken("interrupt") => records \subseteq Ids(Shown) \cup summary

Distinct(fs) == \A i, j \in DOMAIN fs : fs[i].id = fs[j].id => i = j
PlanIsEmpty == pc \in {"off", "drain", "compress", "decide"} => plan = <<>>

\* When the model names its calls, no two observations are of one call, those
\* of earlier turns do not have the turn's number, and a call that runs or is
\* planned has not been observed.
TranscriptInv ==
  pc # "done" /\ ~cast.unnamed =>
    /\ Distinct(Shown)
    /\ \A d \in Ids(Shown) :
         /\ d[1] <= turn
         /\ pc \in {"off", "drain", "compress", "decide"} => d[1] < turn
         /\ pc = "tool" => d # CallID(tool.index)
         /\ \A j \in DOMAIN plan : d # CallID(plan[j])
    /\ \A i, j \in DOMAIN plan : plan[i] = plan[j] => i = j
    /\ pc = "tool" => \A j \in DOMAIN plan : plan[j] # tool.index

-----------------------------------------------------------------------------
(* Types.                                                                  *)

LEMMA CallIDType ==
  ASSUME NEW i \in Int, turn \in 1 .. MaxTurns
  PROVE  CallID(i) \in CallIDs
BY DEF CallID, CallIDs

\* What a finished tool tells the next decision.
LEMMA FeedbackTyped ==
  ASSUME TypeInv, turn <= MaxTurns, NEW i \in Int,
         NEW status \in {"succeeded", "failed", "canceled"}
  PROVE  Feedback(i, status) \in FeedbackType
<1>1. turn \in 1 .. MaxTurns
  BY DEF TypeInv, TypeOK
<1>2. CallID(i) \in CallIDs /\ batch \in Seq(CallIDs)
  BY <1>1, CallIDType DEF TypeInv
<1>3. <<CallID(i)>> \in Seq(CallIDs)
  BY <1>2
<1> QED BY <1>1, <1>2, <1>3 DEF Feedback, FeedbackType, CallIDs

\* The calls of an answer and their ids
LEMMA AnswerTyped ==
  ASSUME turn \in 1 .. MaxTurns, NEW calls \in Answers
  PROVE  /\ [i \in DOMAIN calls |-> i] \in Seq(Nat)
         /\ [i \in DOMAIN calls |-> CallID(i)] \in Seq(CallIDs)
<1>1. calls \in Seq([tool : STRING, decodes : BOOLEAN])
  BY DEF AgentAssumption
<1>2. Len(calls) \in Nat /\ DOMAIN calls = 1 .. Len(calls)
  BY <1>1
<1>3. \A i \in 1 .. Len(calls) : CallID(i) \in CallIDs
  BY <1>2, CallIDType
<1>4. [i \in 1 .. Len(calls) |-> CallID(i)] \in [1 .. Len(calls) -> CallIDs]
  BY <1>3
<1>5. [i \in 1 .. Len(calls) |-> i] \in [1 .. Len(calls) -> Nat]
  BY <1>2
<1> QED BY <1>2, <1>4, <1>5, SeqDef

\* Compression keeps a part of the history.
LEMMA NewestTyped ==
  ASSUME NEW S, history \in Seq(S), Len(history) > Recent
  PROVE  /\ Older \in Seq(S) /\ Newest \in Seq(S)
         /\ history = Older \o Newest
         /\ Len(Older) = Len(history) - Recent /\ Len(Newest) = Recent
<1> DEFINE n == Len(history) - Recent
<1>1. /\ Len(history) \in Nat /\ \A i \in 1 .. Len(history) : history[i] \in S
      /\ n \in Nat /\ n >= 1 /\ n <= Len(history) /\ Recent \in Nat
  BY DEF AgentAssumption
<1>6. /\ Older = SubSeq(history, 1, n)
      /\ Newest = SubSeq(history, n + 1, Len(history))
      /\ Len(history) - n = Recent /\ n = Len(history) - Recent
  BY <1>1 DEF Older, Newest
<1> HIDE DEF n
<1>2. SubSeq(history, 1, n) \in Seq(S) /\ Len(SubSeq(history, 1, n)) = n
  BY <1>1, SubSeqProperties
<1>3. /\ SubSeq(history, n + 1, Len(history)) \in Seq(S)
      /\ Len(SubSeq(history, n + 1, Len(history))) = Len(history) - n
  BY <1>1, SubSeqProperties
<1>4. SubSeq(history, 1, n) \o SubSeq(history, n + 1, Len(history))
        = SubSeq(history, 1, Len(history))
  BY <1>1, ConcatAdjacentSubSeq
<1>5. SubSeq(history, 1, Len(history)) = history
  BY SubSeqFull
<1> QED BY <1>2, <1>3, <1>4, <1>5, <1>6

LEMMA NothingTyped ==
  /\ NoList \in Lists /\ NoResult \in ResultType
  /\ Idle \in ToolType /\ Idle.state = "idle"
  /\ [NoResult EXCEPT !.status = "failed"] \in ResultType
<1>1. NoList \in Lists
  BY DEF NoList, Lists
<1>2. NoResult \in ResultType
  BY <1>1 DEF NoResult, ResultType, Statuses, Reasons
<1>3. [NoResult EXCEPT !.status = "failed"] \in ResultType
  BY <1>2 DEF ResultType, Statuses
<1>4. Idle \in ToolType /\ Idle.state = "idle"
  BY DEF Idle, ToolType
<1> QED BY <1>1, <1>2, <1>3, <1>4

LEMMA ReturnTyped ==
  ASSUME NEW status \in Statuses, NEW why \in Reasons, NEW list \in Lists,
         Return(status, why, list)
  PROVE  pc' = "done" /\ result' \in ResultType
BY DEF Return, Handed, ResultType

LEMMA BegunTyped ==
  ASSUME NEW i \in Int
  PROVE  [Idle EXCEPT !.state = "running", !.index = i] \in ToolType
BY DEF Idle, ToolType

LEMMA InitTyped == Init => TypeInv
<1> SUFFICES ASSUME Init PROVE TypeInv
  OBVIOUS
<1>1. cast \in CastType /\ sent \subseteq cast.signals
  BY DEF Init, CastAssumption
<1>2. NoResult \in ResultType /\ NoList \in Lists /\ Idle \in ToolType
  BY NothingTyped
<1>3. 1 \in 1 .. MaxTurns + 1
  BY DEF AgentAssumption
<1>4. TypeOK
  BY <1>1, <1>2, <1>3 DEF Init, TypeOK, Idle, NoList
<1>5. parent \in ParentType /\ tool \in ToolType
  BY <1>2 DEF Init, ParentType, ToolType, Idle
<1>6. <<>> \in Seq(Nat) /\ <<>> \in Seq(CallIDs)
  BY EmptySeq
<1> QED BY <1>2, <1>4, <1>5, <1>6 DEF TypeInv, Init

LEMMA StepTyped == TypeInv /\ [Next]_vars => TypeInv'
<1> SUFFICES ASSUME TypeInv, [Next]_vars PROVE TypeInv'
  OBVIOUS
<1> USE DEF TypeInv, TypeOK, signals, outside, seen, Statuses, Reasons
<1>0. NoResult \in ResultType /\ Idle \in ToolType /\ Idle.state = "idle"
  BY NothingTyped
<1>1. CASE StartAgent
  <2>1. parent' \in ParentType
    BY <1>1 DEF StartAgent, ParentType
  <2> QED BY <1>1, <2>1 DEF StartAgent
<1>2. CASE StartFails
  <2>1. [NoResult EXCEPT !.status = "failed"] \in ResultType
    BY NothingTyped
  <2> QED BY <1>2, <2>1 DEF StartFails, ParentType
<1>3. CASE StepEnds
  BY <1>3 DEF StepEnds, ParentType
<1>4. ASSUME NEW k \in SignalKind, PassOn(k) PROVE TypeInv'
  <2>1. parent' \in ParentType
    BY <1>4 DEF PassOn, ParentType
  <2> QED BY <1>4, <2>1 DEF PassOn, ParentType
<1>5. CASE Drain
  <2>1. refs \in Lists
    BY DEF Lists
  <2>2. result' \in ResultType
    BY <1>5, <2>1, ReturnTyped DEF Drain
  <2>3. last' \in Seq(FeedbackType)
    BY <1>5, EmptySeq DEF Drain
  <2>4. ~Forced /\ turn <= MaxTurns
    BY <1>5 DEF Drain, Forced, AgentAssumption
  <2> QED BY <1>5, <2>2, <2>3, <2>4 DEF Drain, Return
<1>6. CASE Compress
  <2>1. history' \in Seq(FeedbackType)
    BY <1>6, NewestTyped DEF Compress
  <2> QED BY <1>6, <2>1 DEF Compress
<1>8. refs \in Lists
  BY DEF Lists
<1>9. CASE CompressFails
  <2>1. result' \in ResultType
    BY ReturnTyped, <1>8, <1>9 DEF CompressFails
  <2> QED BY <1>9, <2>1 DEF CompressFails, Return
<1>10. ASSUME NEW why \in {"transcript", "item", "decision"}, DecisionFails(why)
       PROVE  TypeInv'
  <2>1. result' \in ResultType
    BY ReturnTyped, <1>8, <1>10 DEF DecisionFails
  <2>2. tool = Idle
    BY <1>10 DEF DecisionFails, Deciding
  <2>3. pc' = "done" /\ UNCHANGED <<cast, signals, parent, turn, seen, plan, batch, tool, refs, outside, records>>
    BY <1>10 DEF DecisionFails, Return
  <2>4. parent.pc # "start"
    BY <1>10 DEF DecisionFails, Deciding
  <2> QED BY <2>1, <2>2, <2>3, <2>4
<1>11. ASSUME NEW calls \in Answers, DecideTools(calls) PROVE TypeInv'
  <2>1. turn \in 1 .. MaxTurns /\ tool = Idle
    BY <1>11 DEF DecideTools, Deciding, Forced, AgentAssumption
  <2>2. plan' \in Seq(Nat) /\ batch' \in Seq(CallIDs)
    BY <1>11, <2>1, AnswerTyped DEF DecideTools
  <2>3. history' \in Seq(FeedbackType) /\ last' \in Seq(FeedbackType)
    BY <1>11, ConcatProperties DEF DecideTools, Shown
  <2>4. /\ pc' = "step" /\ item' = "running"
        /\ UNCHANGED <<cast, signals, parent, turn, summary, tool, refs, outside, records, result>>
    BY <1>11 DEF DecideTools
  <2>5. parent.pc # "start"
    BY <1>11 DEF DecideTools, Deciding
  <2> QED BY <2>1, <2>2, <2>3, <2>4, <2>5
<1>12. ASSUME NEW failing, Stops(failing)
       PROVE  proc' \in [Process -> {"none", "running", "stopped", "exited", "adrift"}]
  BY <1>12 DEF Stops
<1>13. ASSUME NEW failing \in SUBSET Owned, DecideClose(failing) PROVE TypeInv'
  <2>1. refs' \in Lists
    BY <1>13 DEF DecideClose, Lists
  <2>2. history' \in Seq(FeedbackType) /\ last' \in Seq(FeedbackType)
    BY <1>13, ConcatProperties DEF DecideClose, Shown
  <2>3. item' \in {"blocked", "completed"} /\ proc' \in [Process -> {"none", "running", "stopped", "exited", "adrift"}]
    BY <1>12, <1>13 DEF DecideClose
  <2>4. \/ /\ tool' = [Idle EXCEPT !.state = "running", !.index = CompletionIndex]
           /\ pc' = "tool" /\ UNCHANGED result /\ ~Forced
        \/ /\ tool' = tool
           /\ \/ Return("succeeded", "completed", refs')
              \/ Return("failed", "completed", refs')
              \/ Return("failed", "failed", refs')
              \/ Return("failed", "blocked", refs')
    BY <1>13 DEF DecideClose, Return
  <2>5. tool = Idle /\ (~Forced => turn <= MaxTurns)
    BY <1>13 DEF DecideClose, Deciding, Forced, AgentAssumption
  <2>10. tool' \in ToolType
    <3> HIDE DEF TypeInv, TypeOK
    <3>1. [Idle EXCEPT !.state = "running", !.index = CompletionIndex] \in ToolType
      <4>1. CompletionIndex \in Int
        BY DEF CompletionIndex
      <4> QED BY <4>1, BegunTyped
    <3> QED BY <1>0, <2>4, <2>5, <3>1
  <2>11. result' \in ResultType
    BY <2>1, <2>4 DEF Return, Handed, ResultType
  <2>6. tool' \in ToolType /\ result' \in ResultType
    BY <2>10, <2>11
  <2>7. UNCHANGED <<cast, signals, parent, turn, summary, plan, batch, published, late, records>>
    BY <1>13 DEF DecideClose
  <2>8. refs' \in [Process -> {"none", "running", "stopped"}]
    BY <2>1 DEF Lists
  <2>9. (pc' = "tool" /\ turn <= MaxTurns) \/ (pc' = "done" /\ tool' = Idle)
    BY <2>4, <2>5 DEF Return
  <2>12. parent.pc # "start"
    BY <1>13 DEF DecideClose, Deciding
  <2>13. tool'.state \in {"idle", "running", "ended", "failed"}
    BY <2>6 DEF ToolType
  <2>14. /\ UNCHANGED <<cast, sent, channel, inbox, parent, turn, plan, batch, published, late>>
    BY <2>7
  <2>15. TypeOK'
    BY <2>2, <2>3, <2>8, <2>9, <2>13, <2>14
  <2> HIDE DEF TypeOK
  <2> QED BY <2>6, <2>9, <2>12, <2>14, <2>15
<1>14. CASE BeginTool
  <2>1. Head(plan) \in Nat /\ Tail(plan) \in Seq(Nat)
    BY <1>14, HeadTailProperties DEF BeginTool
  <2>4. Head(plan) \in Int /\ tool' = [Idle EXCEPT !.state = "running", !.index = Head(plan)]
    BY <1>14, <2>1 DEF BeginTool
  <2>2. tool' \in ToolType
    <3> HIDE DEF TypeInv, TypeOK
    <3> QED BY <2>4, BegunTyped
  <2>3. turn <= MaxTurns /\ pc' = "tool"
        /\ UNCHANGED <<cast, signals, parent, turn, seen, batch, refs, outside, records, result>>
    BY <1>14 DEF BeginTool
  <2> QED BY <1>14, <2>1, <2>2, <2>3 DEF BeginTool
<1>15. CASE NextTurn
  BY <1>15 DEF NextTurn, FollowingTurn, AgentAssumption
<1>16. ASSUME NEW status \in {"succeeded", "failed", "canceled"}, turn <= MaxTurns,
              GoOn(tool.index, status)
       PROVE  last' \in Seq(FeedbackType) /\ pc' = "step" /\ result' = result
  <2>1. tool.index \in Int
    BY DEF ToolType
  <2>2. Feedback(tool.index, status) \in FeedbackType
    BY <1>16, <2>1, FeedbackTyped
  <2> QED BY <1>16, <2>2, AppendProperties DEF GoOn
<1>17. CASE TakeInterrupt
  <2>1. turn <= MaxTurns
    BY <1>17 DEF TakeInterrupt, Receive
  <2>2. last' \in Seq(FeedbackType) /\ pc' = "step" /\ result' = result
    BY <1>16, <1>17, <2>1 DEF TakeInterrupt
  <2>3. proc' \in [Process -> {"none", "running", "stopped", "exited", "adrift"}]
    BY <1>17 DEF TakeInterrupt
  <2>4. plan' \in Seq(Nat) /\ late' \in BOOLEAN
    BY <1>17 DEF TakeInterrupt
  <2>5. /\ inbox' = inbox \ {"interrupt"} /\ parent.pc # "start" /\ tool' = Idle
        /\ UNCHANGED <<cast, sent, channel, parent, turn, history, summary, item, batch, refs, published>>
    BY <1>17 DEF TakeInterrupt, Receive
  <2> QED BY <1>0, <2>1, <2>2, <2>3, <2>4, <2>5
<1>18. CASE ToolEnds
  <2>1. turn <= MaxTurns
    BY <1>18 DEF ToolEnds
  <2>2. Merged \in Lists
    BY DEF Merged, Lists, ToolType
  <2>3. /\ refs' = Merged /\ tool' = Idle /\ parent.pc # "start"
        /\ UNCHANGED <<cast, signals, parent, turn, history, summary, item, plan, batch, outside>>
    BY <1>18 DEF ToolEnds
  <2>4. CASE Return("succeeded", "published", Merged) /\ UNCHANGED last
    <3>1. result' \in ResultType /\ pc' = "done"
      BY <2>2, <2>4, ReturnTyped
    <3> QED BY <1>0, <2>1, <2>2, <2>3, <2>4, <3>1 DEF Lists
  <2>5. CASE Return("canceled", "signal", Merged) /\ UNCHANGED last
    <3>1. result' \in ResultType /\ pc' = "done"
      BY <2>2, <2>5, ReturnTyped
    <3> QED BY <1>0, <2>1, <2>2, <2>3, <2>5, <3>1 DEF Lists
  <2>6. ASSUME NEW status \in {"succeeded", "failed"}, GoOn(tool.index, status)
        PROVE  TypeInv'
    <3>1. last' \in Seq(FeedbackType) /\ pc' = "step" /\ result' = result
      BY <1>16, <2>1, <2>6
    <3> QED BY <1>0, <2>1, <2>2, <2>3, <3>1 DEF Lists
  <2> QED BY <1>18, <2>4, <2>5, <2>6 DEF ToolEnds
<1>19. ASSUME NEW k \in SignalKind, TakeSignal(k) PROVE TypeInv'
  <2>1. tool' \in ToolType
    BY <1>19 DEF TakeSignal, ToolType
  <2> QED BY <1>19, <2>1 DEF TakeSignal, Receive
<1>20. ASSUME NEW state \in {"ended", "failed"}, NEW lost \in BOOLEAN, ToolReturns(state, lost)
       PROVE  TypeInv'
  <2>1. tool' \in ToolType
    BY <1>20 DEF ToolReturns, ToolType
  <2>2. proc' \in [Process -> {"none", "running", "stopped", "exited", "adrift"}]
    BY <1>20 DEF ToolReturns, ProcessBecomes
  <2>3. published' \in Nat
    BY <1>20 DEF ToolReturns
  <2>4. tool'.state = state
    BY <1>20 DEF ToolReturns, ToolType
  <2> QED BY <1>20, <2>1, <2>2, <2>3, <2>4 DEF ToolReturns
<1>21. ASSUME NEW k \in SignalKind, Send(k) PROVE TypeInv'
  BY <1>21 DEF Send
<1>22. CASE DecisionLost
  BY <1>12, <1>22 DEF DecisionLost
<1>23. CASE LatePublishes
  <2>1. late' \in BOOLEAN
    BY <1>23 DEF LatePublishes
  <2>2. published' \in Nat
    BY <1>23 DEF LatePublishes
  <2>3. UNCHANGED <<cast, signals, parent, pc, turn, seen, plan, batch, tool, refs, proc, records, result>>
    BY <1>23 DEF LatePublishes
  <2> QED BY <2>1, <2>2, <2>3
<1>24. ASSUME NEW x \in Process, ToolStarts(x) PROVE TypeInv'
  <2>1. tool' \in ToolType
    BY <1>24 DEF ToolStarts, ToolType
  <2>2. tool'.state = tool.state
    BY <1>24 DEF ToolStarts, ToolType
  <2> QED BY <1>24, <2>1, <2>2 DEF ToolStarts
<1>25. CASE UNCHANGED vars
  BY <1>25 DEF vars
<1> QED
  BY <1>1, <1>2, <1>3, <1>4, <1>5, <1>6, <1>9, <1>10, <1>11, <1>13, <1>14, <1>15,
     <1>17, <1>18, <1>19, <1>20, <1>21, <1>22, <1>23, <1>24, <1>25
  DEF Next, Task, Agent, Activity, Finished

LEMMA TypeInvariant == Spec => []TypeInv
BY InitTyped, StepTyped, PTL DEF Spec

-----------------------------------------------------------------------------
(* What the steps of an activity and of the agent's tool have in common.   *)

\* A signal that was taken stays so, and only three actions take one.
LEMMA TakenKept ==
  ASSUME TypeInv, [Next]_vars, NEW k \in SignalKind
  PROVE  /\ Taken(k) => Taken(k)'
         /\ ~Taken(k) /\ Taken(k)' =>
              (Drain /\ k \in inbox) \/ TakeSignal(k) \/ (TakeInterrupt /\ k = "interrupt")
<1> USE DEF Taken, signals
<1>1. channel \cap inbox = {} /\ channel \subseteq sent /\ inbox \subseteq sent
  BY DEF TypeInv, TypeOK
<1>2. CASE UNCHANGED signals
  BY <1>2
<1>3. CASE UNCHANGED <<sent, channel>> /\ \E e \in SignalKind : inbox' = inbox \ {e} /\
             (TakeSignal(e) \/ (TakeInterrupt /\ e = "interrupt"))
  BY <1>1, <1>3
<1>4. CASE Drain
  BY <1>1, <1>4 DEF Drain
<1>5. ASSUME NEW e \in SignalKind, PassOn(e) PROVE (Taken(k) <=> Taken(k)')
  BY <1>1, <1>5 DEF PassOn
<1>6. ASSUME NEW e \in SignalKind, Send(e) PROVE (Taken(k) <=> Taken(k)')
  BY <1>1, <1>6 DEF Send
<1>7. CASE Task
  <2>1. CASE StartAgent \/ StartFails \/ StepEnds
    BY <1>2, <2>1 DEF StartAgent, StartFails, StepEnds
  <2> QED BY <1>5, <1>7, <2>1 DEF Task
<1>8. CASE Agent
  <2>1. CASE \/ Compress \/ CompressFails \/ BeginTool \/ NextTurn \/ ToolEnds
    BY <1>2, <2>1 DEF Compress, CompressFails, BeginTool, NextTurn, ToolEnds
  <2>2. ASSUME NEW why \in {"transcript", "item", "decision"}, DecisionFails(why)
        PROVE  UNCHANGED signals
    BY <2>2 DEF DecisionFails
  <2>3. ASSUME NEW calls \in Answers, DecideTools(calls) PROVE UNCHANGED signals
    BY <2>3 DEF DecideTools
  <2>4. ASSUME NEW failing \in SUBSET Owned, DecideClose(failing) PROVE UNCHANGED signals
    BY <2>4 DEF DecideClose
  <2>5. CASE TakeInterrupt
    BY <1>3, <2>5 DEF TakeInterrupt, Receive, SignalKind
  <2>6. ASSUME NEW e \in SignalKind, TakeSignal(e)
        PROVE  UNCHANGED <<sent, channel>> /\ inbox' = inbox \ {e}
    BY <2>6 DEF TakeSignal, Receive
  <2> QED BY <1>2, <1>3, <1>4, <1>8, <2>1, <2>2, <2>3, <2>4, <2>5, <2>6 DEF Agent
<1>9. CASE Activity \/ DecisionLost \/ LatePublishes \/ (\E x \in Process : ToolStarts(x))
        \/ UNCHANGED vars
  BY <1>2, <1>9 DEF Activity, ToolReturns, DecisionLost, LatePublishes, ToolStarts, vars
<1> QED BY <1>6, <1>7, <1>8, <1>9 DEF Next, Finished

\* The tool that runs keeps its place in the turn.
LEMMA ToolStep ==
  ASSUME TypeInv
  PROVE  /\ \A k \in SignalKind : TakeSignal(k) =>
              /\ pc = "tool" /\ tool.state = "running" /\ tool' \in ToolType
              /\ tool' = [tool EXCEPT !.canceled = tool.canceled \/ k = "cancel"]
              /\ tool'.index = tool.index /\ tool'.state = tool.state /\ tool'.proc = tool.proc
              /\ tool'.canceled = (tool.canceled \/ k = "cancel")
         /\ \A state \in {"ended", "failed"}, lost \in BOOLEAN : ToolReturns(state, lost) =>
              /\ pc = "tool" /\ tool.state = "running"
              /\ tool'.index = tool.index /\ tool'.state = state /\ tool'.proc = tool.proc
              /\ tool'.canceled = tool.canceled
         /\ \A x \in Process : ToolStarts(x) =>
              /\ pc = "tool" /\ tool.state = "running"
              /\ tool'.index = tool.index /\ tool'.state = tool.state /\ tool'.proc = x
              /\ tool'.canceled = tool.canceled
<1>1. tool \in ToolType
  BY DEF TypeInv
<1>2. ASSUME NEW k \in SignalKind, TakeSignal(k)
      PROVE  /\ pc = "tool" /\ tool.state = "running" /\ tool' \in ToolType
             /\ tool' = [tool EXCEPT !.canceled = tool.canceled \/ k = "cancel"]
             /\ tool'.index = tool.index /\ tool'.state = tool.state /\ tool'.proc = tool.proc
             /\ tool'.canceled = (tool.canceled \/ k = "cancel")
  BY <1>1, <1>2 DEF TakeSignal, Receive, Pending, ToolType
<1>3. ASSUME NEW state \in {"ended", "failed"}, NEW lost \in BOOLEAN, ToolReturns(state, lost)
      PROVE  /\ pc = "tool" /\ tool.state = "running"
             /\ tool'.index = tool.index /\ tool'.state = state /\ tool'.proc = tool.proc
             /\ tool'.canceled = tool.canceled
  BY <1>1, <1>3 DEF ToolReturns, Pending, ToolType
<1>4. ASSUME NEW x \in Process, ToolStarts(x)
      PROVE  /\ pc = "tool" /\ tool.state = "running"
             /\ tool'.index = tool.index /\ tool'.state = tool.state /\ tool'.proc = x
             /\ tool'.canceled = tool.canceled
  BY <1>1, <1>4 DEF ToolStarts, Pending, ToolType
<1> QED BY <1>2, <1>3, <1>4

-----------------------------------------------------------------------------
(* The work item.                                                          *)

LEMMA InitItem == Init => ItemInv
BY DEF Init, ItemInv, NoResult

LEMMA ItemStep == TypeInv /\ ItemInv /\ [Next]_vars => ItemInv'
<1> SUFFICES ASSUME TypeInv, ItemInv, [Next]_vars PROVE ItemInv'
  OBVIOUS
<1> USE DEF ItemInv, IsCompletion, seen
<1>0. Taken("interrupt") => Taken("interrupt")'
  BY TakenKept DEF SignalKind
<1>1. CASE UNCHANGED <<last, item, result, pc, tool>>
  BY <1>0, <1>1
<1>2. CASE Task
  <2>1. CASE StartAgent
    BY <1>0, <2>1 DEF StartAgent, TypeInv
  <2>2. CASE StartFails \/ StepEnds
    BY <1>1, <2>2 DEF StartFails, StepEnds
  <2>3. ASSUME NEW k \in SignalKind, PassOn(k) PROVE ItemInv'
    BY <1>1, <2>3 DEF PassOn
  <2> QED BY <1>2, <2>1, <2>2, <2>3 DEF Task
<1>3. CASE Drain
  <2>1. CASE pc' = "done" /\ result'.why = "signal"
    BY <1>0, <2>1
  <2>2. CASE pc' = "compress" /\ UNCHANGED result /\ item' = item
    <3>1. CASE "interrupt" \in inbox
      <4>1. Taken("interrupt")'
        BY <1>3, <3>1 DEF Drain, Taken, TypeInv, TypeOK
      <4> QED BY <4>1
    <3>2. CASE "interrupt" \notin inbox
      <4>1. UNCHANGED <<last, tool>> /\ pc = "drain"
        BY <1>3, <2>2, <3>2 DEF Drain, Drained, Return
      <4> QED BY <1>0, <2>2, <4>1
    <3> QED BY <3>1, <3>2
  <2> QED BY <1>3, <2>1, <2>2 DEF Drain, Return
<1>4. CASE Compress
  BY <1>0, <1>4 DEF Compress
<1>5. CASE CompressFails
  BY <1>0, <1>5 DEF CompressFails, Return
<1>6. ASSUME NEW why \in {"transcript", "item", "decision"}, DecisionFails(why)
      PROVE  ItemInv'
  <2>1. pc' = "done" /\ result'.why = why /\ Deciding
    BY <1>6 DEF DecisionFails, Return
  <2>2. CASE why # "item"
    BY <2>1, <2>2
  <2>3. CASE why = "item"
    <3>1. ItemNow = "completed"
      BY <1>6, <2>3 DEF DecisionFails
    <3>2. last = <<>> /\ item = "completed"
      BY <3>1 DEF ItemNow, Reopened
    <3>3. pc \in {"drain", "decide"}
      BY <2>1 DEF Deciding
    <3>4. Taken("interrupt")
      BY <3>2, <3>3
    <3> QED BY <1>0, <2>1, <3>4
  <2> QED BY <2>2, <2>3
<1>7. ASSUME NEW calls \in Answers, DecideTools(calls) PROVE ItemInv'
  BY <1>0, <1>7 DEF DecideTools
<1>8. ASSUME NEW failing \in SUBSET Owned, DecideClose(failing) PROVE ItemInv'
  <2>1. \/ pc' = "tool" /\ UNCHANGED result
           /\ tool' = [Idle EXCEPT !.state = "running", !.index = CompletionIndex]
        \/ pc' = "done" /\ result'.why \in {"completed", "failed", "blocked"}
    BY <1>8 DEF DecideClose, Return
  <2>2. [Idle EXCEPT !.state = "running", !.index = CompletionIndex].index = CompletionIndex
    BY DEF Idle
  <2> QED BY <1>0, <2>1, <2>2
<1>9. CASE BeginTool
  BY <1>0, <1>9 DEF BeginTool
<1>10. CASE NextTurn
  BY <1>0, <1>10 DEF NextTurn
<1>11. ASSUME NEW status \in {"succeeded", "failed", "canceled"},
              pc = "tool", turn <= MaxTurns, GoOn(tool.index, status)
       PROVE  ItemInv'
  <2>1. tool.index \in Int /\ last \in Seq(FeedbackType)
    BY DEF TypeInv, TypeOK, ToolType
  <2>2. Feedback(tool.index, status) \in FeedbackType
    BY <1>11, <2>1, FeedbackTyped
  <2>3. last' # <<>> /\ UNCHANGED result
    BY <1>11, <2>1, <2>2, AppendProperties DEF GoOn
  <2> QED BY <1>0, <2>3
<1>12. pc = "tool" => turn <= MaxTurns
  BY DEF TypeInv
<1>13. CASE TakeInterrupt
  BY <1>11, <1>12, <1>13 DEF TakeInterrupt, Receive
<1>14. CASE ToolEnds
  BY <1>0, <1>11, <1>12, <1>14 DEF ToolEnds, Return
<1>15. ASSUME tool'.index = tool.index, UNCHANGED <<last, item, result, pc>>
       PROVE  ItemInv'
  BY <1>0, <1>15
<1>16. ASSUME NEW k \in SignalKind, TakeSignal(k) PROVE ItemInv'
  BY <1>15, <1>16, ToolStep DEF TakeSignal
<1>17. ASSUME NEW state \in {"ended", "failed"}, NEW lost \in BOOLEAN, ToolReturns(state, lost)
       PROVE  ItemInv'
  BY <1>15, <1>17, ToolStep DEF ToolReturns
<1>18. ASSUME NEW x \in Process, ToolStarts(x) PROVE ItemInv'
  BY <1>15, <1>18, ToolStep DEF ToolStarts
<1>19. CASE DecisionLost \/ LatePublishes \/ UNCHANGED vars
  BY <1>1, <1>19 DEF DecisionLost, LatePublishes, vars
<1>20. ASSUME NEW k \in SignalKind, Send(k) PROVE ItemInv'
  BY <1>1, <1>20 DEF Send
<1> QED
  BY <1>2, <1>3, <1>4, <1>5, <1>6, <1>7, <1>8, <1>9, <1>10, <1>13, <1>14, <1>16,
     <1>17, <1>18, <1>19, <1>20
  DEF Next, Agent, Activity, Finished

\* Who acts and what fails is settled at the start.
LEMMA CastKept == [Next]_vars => cast' = cast
<1> SUFFICES ASSUME [Next]_vars PROVE cast' = cast
  OBVIOUS
<1>1. CASE Task
  BY <1>1 DEF Task, StartAgent, StartFails, StepEnds, PassOn
<1>2. CASE Agent
  BY <1>2 DEF Agent, Drain, Compress, CompressFails, DecisionFails, DecideTools,
              DecideClose, BeginTool, NextTurn, TakeInterrupt, ToolEnds, TakeSignal
<1>3. CASE Activity \/ DecisionLost \/ LatePublishes
  BY <1>3 DEF Activity, ToolReturns, DecisionLost, LatePublishes
<1>4. CASE \/ \E k \in SignalKind : Send(k)
           \/ \E x \in Process : ToolStarts(x)
           \/ UNCHANGED vars
  BY <1>4 DEF Send, ToolStarts, vars
<1> QED BY <1>1, <1>2, <1>3, <1>4 DEF Next, Finished

-----------------------------------------------------------------------------
(* The publication.                                                        *)

LEMMA InitPublication == Init => PublicationInv
BY DEF Init, PublicationInv

LEMMA PublicationStep == TypeInv /\ PublicationInv /\ [Next]_vars => PublicationInv'
<1> SUFFICES ASSUME TypeInv, PublicationInv, [Next]_vars,
                    ~Taken("interrupt")', "lost" \notin cast.faults
             PROVE  /\ ~late'
                    /\ \/ published' = 0
                       \/ /\ published' = 1
                          /\ \/ pc' = "tool" /\ IsCompletion' /\ tool'.state = "ended"
                             \/ pc' = "done" /\ result'.status = "succeeded"
  BY CastKept DEF PublicationInv
<1> DEFINE Goal == /\ ~late'
                   /\ \/ published' = 0
                      \/ /\ published' = 1
                         /\ \/ pc' = "tool" /\ IsCompletion' /\ tool'.state = "ended"
                            \/ pc' = "done" /\ result'.status = "succeeded"
<1> USE DEF IsCompletion, outside
<1>0. ~Taken("interrupt")
  BY TakenKept DEF SignalKind
<1>1. /\ ~late
      /\ \/ published = 0
         \/ /\ published = 1
            /\ \/ pc = "tool" /\ IsCompletion /\ tool.state = "ended"
               \/ pc = "done" /\ result.status = "succeeded"
  BY <1>0 DEF PublicationInv
<1>2. CASE UNCHANGED <<published, late, pc, tool, result>>
  BY <1>1, <1>2
<1>3. CASE UNCHANGED <<published, late>> /\ published = 0
  BY <1>1, <1>3
<1>4. CASE Task
  <2>1. CASE StartAgent
    BY <1>1, <1>3, <2>1 DEF StartAgent, TypeInv
  <2>2. CASE StartFails \/ StepEnds
    BY <1>2, <2>2 DEF StartFails, StepEnds
  <2>3. ASSUME NEW k \in SignalKind, PassOn(k) PROVE Goal
    BY <1>2, <2>3 DEF PassOn
  <2> QED BY <1>4, <2>1, <2>2, <2>3 DEF Task
<1>5. CASE Drain \/ Compress \/ CompressFails
  BY <1>1, <1>3, <1>5 DEF Drain, Compress, CompressFails
<1>6. ASSUME NEW why \in {"transcript", "item", "decision"}, DecisionFails(why)
      PROVE  Goal
  BY <1>1, <1>3, <1>6 DEF DecisionFails, Deciding
<1>7. ASSUME NEW calls \in Answers, DecideTools(calls) PROVE Goal
  BY <1>1, <1>3, <1>7 DEF DecideTools, Deciding
<1>8. ASSUME NEW failing \in SUBSET Owned, DecideClose(failing) PROVE Goal
  BY <1>1, <1>3, <1>8 DEF DecideClose, Deciding
<1>9. CASE BeginTool \/ NextTurn
  BY <1>1, <1>3, <1>9 DEF BeginTool, NextTurn
<1>10. CASE TakeInterrupt
  <2>1. Taken("interrupt")'
    BY <1>10 DEF TakeInterrupt, Receive, Taken, TypeInv, TypeOK
  <2> QED BY <2>1
<1>11. CASE ToolEnds
  <2>1. CASE published = 0
    BY <1>3, <1>11, <2>1 DEF ToolEnds
  <2>2. CASE published = 1
    <3>1. Succeeds
      BY <1>1, <1>11, <2>2 DEF ToolEnds, Succeeds, CompletionSucceeded
    <3>2. pc' = "done" /\ result'.status = "succeeded" /\ UNCHANGED <<published, late>>
      BY <1>11, <3>1 DEF ToolEnds, Return
    <3> QED BY <1>1, <2>2, <3>2
  <2> QED BY <1>1, <2>1, <2>2
<1>12. ASSUME NEW k \in SignalKind, TakeSignal(k) PROVE Goal
  BY <1>1, <1>3, <1>12, ToolStep DEF TakeSignal
<1>13. ASSUME NEW state \in {"ended", "failed"}, NEW lost \in BOOLEAN, ToolReturns(state, lost)
       PROVE  Goal
  <2>1. ~lost
    BY <1>13 DEF ToolReturns
  <2>2. published = 0 /\ UNCHANGED <<late, pc>> /\ pc = "tool"
    BY <1>1, <1>13, ToolStep DEF ToolReturns
  <2>3. tool'.index = tool.index /\ tool'.state = state
    BY <1>13, ToolStep
  <2>4. published' = IF IsCompletion /\ state = "ended" THEN 1 ELSE 0
    BY <1>13, <2>1, <2>2 DEF ToolReturns
  <2> QED BY <1>1, <2>2, <2>3, <2>4
<1>14. ASSUME NEW x \in Process, ToolStarts(x) PROVE Goal
  BY <1>1, <1>3, <1>14, ToolStep DEF ToolStarts
<1>15. CASE DecisionLost \/ UNCHANGED vars
  BY <1>2, <1>15 DEF DecisionLost, vars
<1>16. CASE LatePublishes
  BY <1>1, <1>16 DEF LatePublishes
<1>17. ASSUME NEW k \in SignalKind, Send(k) PROVE Goal
  BY <1>2, <1>17 DEF Send
<1> QED
  BY <1>4, <1>5, <1>6, <1>7, <1>8, <1>9, <1>10, <1>11, <1>12, <1>13, <1>14, <1>15,
     <1>16, <1>17
  DEF Next, Agent, Activity, Finished

-----------------------------------------------------------------------------
(* The processes.                                                          *)

\* What ProcessInv says of one process
ProcessNamed(x) ==
  proc[x] = "running" =>
    /\ pc # "off"
    /\ pc # "done" =>
         refs[x] = "running" \/ (pc = "tool" /\ tool.proc = x /\ tool.state # "failed")
    /\ pc = "done" => result.procs[x] = "running"

LEMMA ParentStep ==
  TypeInv /\ ProcessInv /\ [Next]_vars =>
    (parent'.pc = "done" => pc' = "off" \/ (pc' = "done" /\ parent'.result = result'))
<1> SUFFICES ASSUME TypeInv, ProcessInv, [Next]_vars, parent'.pc = "done"
             PROVE  pc' = "off" \/ (pc' = "done" /\ parent'.result = result')
  OBVIOUS
<1>0. parent \in ParentType /\ (parent.pc = "start" => pc = "off")
  BY DEF TypeInv
<1>1. CASE UNCHANGED <<parent, pc, result>>
  BY <1>1 DEF ProcessInv
<1>2. CASE parent.pc = "done" /\ pc = "off" /\ UNCHANGED pc
  BY <1>2
<1>3. CASE Task
  <2>1. CASE StartAgent
    BY <1>0, <2>1 DEF StartAgent, ParentType
  <2>2. CASE StartFails
    BY <1>0, <2>2 DEF StartFails
  <2>3. CASE StepEnds
    BY <1>0, <2>3 DEF StepEnds, ParentType
  <2>4. ASSUME NEW k \in SignalKind, PassOn(k)
        PROVE  parent'.pc = "wait"
    BY <1>0, <2>4 DEF PassOn, ParentType
  <2> QED BY <1>3, <2>1, <2>2, <2>3, <2>4 DEF Task
<1>4. parent' = parent => pc \in {"off", "done"}
  BY DEF ProcessInv
<1>5. CASE Agent
  BY <1>4, <1>5 DEF Agent, Drain, Compress, CompressFails, DecisionFails, DecideTools,
     DecideClose, Deciding, BeginTool, NextTurn, TakeInterrupt, ToolEnds, TakeSignal, Receive
<1>6. CASE Activity \/ DecisionLost \/ LatePublishes \/ UNCHANGED vars
  BY <1>1, <1>6 DEF Activity, ToolReturns, DecisionLost, LatePublishes, vars
<1>7. CASE (\E k \in SignalKind : Send(k)) \/ \E x \in Process : ToolStarts(x)
  BY <1>1, <1>7 DEF Send, ToolStarts
<1> QED BY <1>3, <1>5, <1>6, <1>7 DEF Next, Finished

LEMMA ProcessStep == TypeInv /\ ProcessInv /\ [Next]_vars => ProcessInv'
<1> SUFFICES ASSUME TypeInv, ProcessInv, [Next]_vars, NEW x \in Process
             PROVE  ProcessNamed(x)'
  BY ParentStep DEF ProcessInv, ProcessNamed
<1> USE DEF ProcessNamed, outside
<1>0. ProcessNamed(x)
  BY DEF ProcessInv
<1>1. CASE UNCHANGED <<pc, proc, tool, refs, result>>
  BY <1>0, <1>1
<1>2. CASE Task
  <2>1. CASE StartAgent
    BY <1>0, <2>1 DEF StartAgent, TypeInv
  <2>2. CASE StartFails \/ StepEnds
    BY <1>1, <2>2 DEF StartFails, StepEnds
  <2>3. ASSUME NEW k \in SignalKind, PassOn(k) PROVE ProcessNamed(x)'
    BY <1>1, <2>3 DEF PassOn
  <2> QED BY <1>2, <2>1, <2>2, <2>3 DEF Task
<1>3. ASSUME NEW status, NEW why, Return(status, why, refs), UNCHANGED <<proc, refs>>,
             pc \notin {"off", "tool", "done"}
      PROVE  ProcessNamed(x)'
  BY <1>0, <1>3 DEF Return, Handed
<1>4. CASE pc \notin {"off", "tool", "done"} /\ pc' \notin {"off", "done"} /\ UNCHANGED <<proc, refs>>
  BY <1>0, <1>4
<1>5. CASE Drain
  BY <1>3, <1>4, <1>5 DEF Drain
<1>6. CASE Compress
  BY <1>4, <1>6 DEF Compress
<1>7. CASE CompressFails
  BY <1>3, <1>7 DEF CompressFails
<1>8. ASSUME NEW why \in {"transcript", "item", "decision"}, DecisionFails(why)
      PROVE  ProcessNamed(x)'
  BY <1>3, <1>8 DEF DecisionFails, Deciding
<1>9. ASSUME NEW calls \in Answers, DecideTools(calls) PROVE ProcessNamed(x)'
  BY <1>4, <1>9 DEF DecideTools, Deciding
<1>10. ASSUME NEW failing, Stops(failing), proc'[x] = "running"
       PROVE  proc[x] = "running" /\ x \notin Stopped(failing)
  BY <1>10 DEF Stops
<1>11. ASSUME NEW failing \in SUBSET Owned, DecideClose(failing), proc'[x] = "running"
       PROVE  ProcessNamed(x)'
  <2>1. proc[x] = "running" /\ x \notin Stopped(failing)
    BY <1>10, <1>11 DEF DecideClose
  <2>2. refs'[x] = "running"
    BY <1>0, <1>11, <2>1 DEF DecideClose, Deciding
  <2>3. pc' = "tool" \/ (pc' = "done" /\ result'.procs = refs')
    BY <1>11 DEF DecideClose, Return, Handed
  <2> QED BY <2>2, <2>3
<1>12. CASE BeginTool
  BY <1>4, <1>12 DEF BeginTool
<1>13. CASE NextTurn
  BY <1>4, <1>13 DEF NextTurn
<1>14. CASE TakeInterrupt
  <2>1. pc = "tool" /\ pc' = "step" /\ refs' = refs
    BY <1>14 DEF TakeInterrupt, Receive, GoOn
  <2>2. proc'[x] = "running" => proc[x] = "running" /\ x # tool.proc
    BY <1>14 DEF TakeInterrupt
  <2> QED BY <1>0, <2>1, <2>2
<1>15. CASE ToolEnds
  <2>1. pc = "tool" /\ refs' = Merged /\ UNCHANGED proc
    BY <1>15 DEF ToolEnds
  <2>2. pc' = "step" \/ (pc' = "done" /\ result'.procs = Merged)
    BY <1>15 DEF ToolEnds, GoOn, Return, Handed
  <2>3. proc[x] = "running" => Merged[x] = "running"
    BY <1>0, <2>1 DEF Merged, TypeInv, TypeOK, AgentAssumption
  <2> QED BY <2>1, <2>2, <2>3
<1>16. ASSUME NEW k \in SignalKind, TakeSignal(k) PROVE ProcessNamed(x)'
  BY <1>0, <1>16, ToolStep DEF TakeSignal
<1>17. ASSUME NEW state \in {"ended", "failed"}, NEW lost \in BOOLEAN, ToolReturns(state, lost)
       PROVE  ProcessNamed(x)'
  <2>1. /\ pc = "tool" /\ pc' = "tool" /\ refs' = refs /\ tool'.proc = tool.proc
        /\ tool'.state = state
    BY <1>17, ToolStep DEF ToolReturns
  <2>2. CASE state = "ended"
    BY <1>0, <1>17, <2>1, <2>2, ToolStep DEF ToolReturns
  <2>3. CASE state = "failed"
    <3>1. proc'[x] = "running" => proc[x] = "running" /\ x # tool.proc
      BY <1>17, <2>3 DEF ToolReturns, ProcessBecomes
    <3> QED BY <1>0, <2>1, <3>1
  <2> QED BY <2>2, <2>3
<1>18. ASSUME NEW y \in Process, ToolStarts(y) PROVE ProcessNamed(x)'
  <2>1. /\ pc = "tool" /\ pc' = "tool" /\ refs' = refs /\ tool.proc = None
        /\ tool'.proc = y /\ tool'.state = "running" /\ tool.state = "running"
    BY <1>18, ToolStep DEF ToolStarts, Pending
  <2>2. x # y => proc'[x] = proc[x]
    BY <1>18 DEF ToolStarts, TypeInv, TypeOK
  <2>3. x # None
    BY DEF AgentAssumption
  <2> QED BY <1>0, <2>1, <2>2, <2>3
<1>19. CASE DecisionLost
  <2>1. UNCHANGED <<pc, tool, refs, result>>
    BY <1>19 DEF DecisionLost
  <2>2. proc'[x] = "running" => proc[x] = "running"
    BY <1>10, <1>19 DEF DecisionLost
  <2> QED BY <1>0, <2>1, <2>2
<1>20. CASE LatePublishes \/ UNCHANGED vars
  BY <1>1, <1>20 DEF LatePublishes, vars
<1>21. ASSUME NEW k \in SignalKind, Send(k) PROVE ProcessNamed(x)'
  BY <1>1, <1>21 DEF Send
<1> QED
  BY <1>2, <1>5, <1>6, <1>7, <1>8, <1>9, <1>11, <1>12, <1>13, <1>14, <1>15, <1>16,
     <1>17, <1>18, <1>19, <1>20, <1>21
  DEF Next, Agent, Activity, Finished

LEMMA InitProcess == Init => ProcessInv
BY DEF Init, ProcessInv, NoList

\* Whatever the model answers and whatever fails, what the task learns of its
\* agent is true: how it ended, what it published, which processes it leaves.
THEOREM ResultCorrect == Spec => []ResultIsTrue
<1>1. Init => TypeInv /\ ItemInv /\ PublicationInv /\ ProcessInv
  BY InitTyped, InitItem, InitPublication, InitProcess
<1>2. TypeInv /\ ItemInv /\ PublicationInv /\ ProcessInv /\ [Next]_vars
        => (TypeInv /\ ItemInv /\ PublicationInv /\ ProcessInv)'
  BY StepTyped, ItemStep, PublicationStep, ProcessStep
<1>3. TypeInv /\ ItemInv /\ PublicationInv /\ ProcessInv => ResultIsTrue
  <2> SUFFICES ASSUME TypeInv, ItemInv, PublicationInv, ProcessInv PROVE ResultIsTrue
    OBVIOUS
  <2>1. TypeOK /\ ItemIsReopened
    BY DEF TypeInv, ItemInv, ItemIsReopened
  <2>2. PublishedIsReported
    BY DEF PublicationInv, PublishedIsReported, TypeInv
  <2>3. ProcessesAreHandedOver
    BY DEF ProcessInv, ProcessesAreHandedOver
  <2> QED BY <2>1, <2>2, <2>3 DEF ResultIsTrue
<1> QED BY <1>1, <1>2, <1>3, PTL DEF Spec

-----------------------------------------------------------------------------
(* A cancel.                                                               *)

LEMMA InitCancel == Init => CancelInv
BY DEF Init, CancelInv, Taken

LEMMA CancelStep == TypeInv /\ CancelInv /\ [Next]_vars => CancelInv'
<1> SUFFICES ASSUME TypeInv, CancelInv, [Next]_vars, Taken("cancel")', ~Taken("interrupt")'
             PROVE  pc' = "done" \/ (pc' = "tool" /\ tool'.canceled)
  BY DEF CancelInv
<1>1. ~Taken("interrupt")
  BY TakenKept DEF SignalKind
<1>2. CASE ~Taken("cancel")
  <2>1. (Drain /\ "cancel" \in inbox) \/ TakeSignal("cancel")
    BY <1>2, TakenKept DEF SignalKind
  <2>2. Drain /\ "cancel" \in inbox => pc' = "done"
    BY DEF Drain, Drained, Return
  <2>3. TakeSignal("cancel") => pc' = "tool" /\ tool'.canceled
    BY ToolStep DEF TakeSignal, SignalKind
  <2> QED BY <2>1, <2>2, <2>3
<1>3. CASE Taken("cancel")
  <2>1. pc = "done" \/ (pc = "tool" /\ tool.canceled)
    BY <1>1, <1>3 DEF CancelInv
  <2>2. tool \in ToolType /\ (parent.pc = "start" => pc = "off")
    BY DEF TypeInv
  <2>3. CASE UNCHANGED <<pc, tool>>
    BY <2>1, <2>3
  <2>4. CASE Task
    BY <2>1, <2>2, <2>3, <2>4 DEF Task, StartAgent, StartFails, StepEnds, PassOn
  <2>5. CASE Agent
    <3>1. CASE ToolEnds
      BY <2>1, <3>1 DEF ToolEnds, Return
    <3>2. CASE TakeInterrupt
      BY <1>1, <3>2 DEF TakeInterrupt, Receive, Taken, TypeInv, TypeOK
    <3>3. ASSUME NEW k \in SignalKind, TakeSignal(k)
          PROVE  pc' = "tool" /\ tool'.canceled
      BY <2>1, <3>3, ToolStep DEF TakeSignal, Receive
    <3>4. pc \notin {"drain", "compress", "decide", "step"}
      BY <2>1
    <3> QED BY <2>5, <3>1, <3>2, <3>3, <3>4 DEF Agent, Drain, Compress, CompressFails,
        DecisionFails, DecideTools, DecideClose, Deciding, BeginTool, NextTurn
  <2>6. CASE Activity
    <3>1. PICK state \in {"ended", "failed"}, lost \in BOOLEAN : ToolReturns(state, lost)
      BY <2>6 DEF Activity
    <3> QED BY <2>1, <3>1, ToolStep DEF ToolReturns
  <2>7. CASE \E x \in Process : ToolStarts(x)
    BY <2>1, <2>7, ToolStep DEF ToolStarts
  <2>8. CASE DecisionLost \/ LatePublishes \/ (\E k \in SignalKind : Send(k)) \/ UNCHANGED vars
    BY <2>3, <2>8 DEF DecisionLost, LatePublishes, Send, vars
  <2> QED BY <2>4, <2>5, <2>6, <2>7, <2>8 DEF Next, Finished
<1> QED BY <1>2, <1>3

\* Once the agent has taken a cancel it starts no tool, unless an interrupt
\* made the step of a tool forget the cancel.
THEOREM CancelHolds == Spec => CancelStopsAgent
<1>1. TypeInv /\ CancelInv /\ [Next]_vars
        => [(pc # "tool" /\ pc' = "tool") => ~Taken("cancel") \/ Taken("interrupt")]_vars
  <2> SUFFICES ASSUME TypeInv, CancelInv, [Next]_vars, pc # "tool", pc' = "tool",
                      Taken("cancel"), ~Taken("interrupt")
               PROVE  FALSE
    BY Zenon
  <2>1. pc = "done"
    BY DEF CancelInv
  <2> QED BY <2>1 DEF Next, Task, Agent, Activity, Finished, StartAgent, StartFails, StepEnds,
      PassOn, Drain, Compress, CompressFails, DecisionFails, DecideTools, DecideClose,
      Deciding, BeginTool, NextTurn, TakeInterrupt, Receive, ToolEnds, TakeSignal,
      ToolReturns, Send, DecisionLost, LatePublishes, ToolStarts, vars, TypeInv
<1>2. Spec => [](TypeInv /\ CancelInv)
  BY InitTyped, StepTyped, InitCancel, CancelStep, PTL DEF Spec
<1> QED BY <1>1, <1>2, PTL DEF Spec, CancelStopsAgent

-----------------------------------------------------------------------------
(* What the model is shown.                                                *)

LEMMA IdsConcat ==
  ASSUME NEW S, NEW s \in Seq(S), NEW t \in Seq(S)
  PROVE  /\ Ids(s \o t) = Ids(s) \cup Ids(t)
         /\ Distinct(s \o t) => Distinct(s) /\ Distinct(t)
<1>1. /\ DOMAIN s = 1 .. Len(s) /\ DOMAIN t = 1 .. Len(t)
      /\ Len(s) \in Nat /\ Len(t) \in Nat
  BY LenProperties
<1>2. /\ DOMAIN (s \o t) = 1 .. (Len(s) + Len(t))
      /\ \A i \in 1 .. (Len(s) + Len(t)) :
           (s \o t)[i] = IF i <= Len(s) THEN s[i] ELSE t[i - Len(s)]
  BY ConcatProperties, LenProperties
<1>3. \A i \in 1 .. Len(s) : i \in 1 .. (Len(s) + Len(t)) /\ (s \o t)[i] = s[i]
  BY <1>1, <1>2
<1>4. \A i \in 1 .. Len(t) :
        i + Len(s) \in 1 .. (Len(s) + Len(t)) /\ (s \o t)[i + Len(s)] = t[i]
  BY <1>1, <1>2
<1>5. \A i \in 1 .. (Len(s) + Len(t)) :
        (i \in 1 .. Len(s) /\ (s \o t)[i] = s[i])
        \/ (i - Len(s) \in 1 .. Len(t) /\ (s \o t)[i] = t[i - Len(s)])
  BY <1>1, <1>2
<1>6. Ids(s) \cup Ids(t) \subseteq Ids(s \o t)
  <2>1. ASSUME NEW i \in 1 .. Len(s) PROVE s[i].id \in Ids(s \o t)
    BY <1>2, <1>3 DEF Ids
  <2>2. ASSUME NEW i \in 1 .. Len(t) PROVE t[i].id \in Ids(s \o t)
    BY <1>2, <1>4 DEF Ids
  <2> QED BY <1>1, <2>1, <2>2 DEF Ids
<1>7. Ids(s \o t) \subseteq Ids(s) \cup Ids(t)
  BY <1>1, <1>2, <1>5 DEF Ids
<1>8. ASSUME Distinct(s \o t) PROVE Distinct(s)
  BY <1>1, <1>2, <1>3, <1>8 DEF Distinct
<1>9. ASSUME Distinct(s \o t) PROVE Distinct(t)
  <2> SUFFICES ASSUME NEW i \in 1 .. Len(t), NEW j \in 1 .. Len(t), t[i].id = t[j].id
               PROVE  i = j
    BY <1>1 DEF Distinct
  <2>1. i + Len(s) = j + Len(s)
    BY <1>2, <1>4, <1>9 DEF Distinct
  <2> QED BY <1>1, <2>1
<1> QED BY <1>6, <1>7, <1>8, <1>9

LEMMA IdsAppend ==
  ASSUME NEW S, NEW s \in Seq(S), NEW f \in S
  PROVE  /\ Ids(Append(s, f)) = Ids(s) \cup {f.id}
         /\ Distinct(s) /\ f.id \notin Ids(s) => Distinct(Append(s, f))
<1>1. /\ DOMAIN s = 1 .. Len(s) /\ Len(s) \in Nat
      /\ DOMAIN Append(s, f) = 1 .. (Len(s) + 1)
      /\ \A i \in 1 .. Len(s) : Append(s, f)[i] = s[i]
      /\ Append(s, f)[Len(s) + 1] = f
  BY AppendProperties, LenProperties
<1>2. \A i \in 1 .. (Len(s) + 1) : i \in 1 .. Len(s) \/ i = Len(s) + 1
  BY <1>1
<1>3. Len(s) + 1 \in 1 .. (Len(s) + 1) /\ 1 .. Len(s) \subseteq 1 .. (Len(s) + 1)
  BY <1>1
<1>4. Ids(Append(s, f)) = Ids(s) \cup {f.id}
  BY <1>1, <1>2, <1>3 DEF Ids
<1>5. Distinct(s) /\ f.id \notin Ids(s) => Distinct(Append(s, f))
  BY <1>1, <1>2 DEF Ids, Distinct
<1> QED BY <1>4, <1>5

LEMMA NothingShown == Ids(<<>>) = {} /\ Distinct(<<>>)
BY DEF Ids, Distinct

\* A result that waits for the next decision is shown last.
LEMMA ShownGrows ==
  ASSUME TypeInv, NEW f \in FeedbackType, last' = Append(last, f), history' = history
  PROVE  Shown' = Append(Shown, f)
<1>1. last \in Seq(FeedbackType) /\ history \in Seq(FeedbackType)
  BY DEF TypeInv, TypeOK
<1>2. <<f>> \in Seq(FeedbackType) /\ Shown \in Seq(FeedbackType)
  BY <1>1, ConcatProperties DEF Shown
<1>3. Append(last, f) = last \o <<f>> /\ Append(Shown, f) = Shown \o <<f>>
  BY <1>1, <1>2, AppendIsConcat
<1>4. (history \o last) \o <<f>> = history \o (last \o <<f>>)
  BY <1>1, <1>2, ConcatAssociative
<1> QED BY <1>3, <1>4 DEF Shown

\* A decision takes the last results over into the history.
LEMMA ShownStays ==
  ASSUME TypeInv, last' = <<>>, history' = Shown
  PROVE  Shown' = Shown
<1>1. Shown \in Seq(FeedbackType)
  BY ConcatProperties DEF TypeInv, TypeOK, Shown
<1> QED BY <1>1, ConcatEmptySeq DEF Shown

\* Compression keeps the end of it and the results of the rest.
LEMMA ShownShrinks ==
  ASSUME TypeInv, Len(history) > Recent, history' = Newest, last' = last
  PROVE  /\ Ids(Shown) = Ids(Older) \cup Ids(Shown')
         /\ Distinct(Shown) => Distinct(Shown')
<1>1. last \in Seq(FeedbackType) /\ history \in Seq(FeedbackType)
  BY DEF TypeInv, TypeOK
<1>2. /\ Older \in Seq(FeedbackType) /\ Newest \in Seq(FeedbackType)
      /\ history = Older \o Newest
  BY <1>1, NewestTyped
<1>3. Newest \o last \in Seq(FeedbackType)
  BY <1>1, <1>2, ConcatProperties
<1>4. Shown = Older \o (Newest \o last)
  BY <1>1, <1>2, ConcatAssociative DEF Shown
<1>5. Shown' = Newest \o last
  BY DEF Shown
<1> DEFINE shown == Newest \o last
<1> HIDE DEF shown
<1>8. shown \in Seq(FeedbackType)
  BY <1>3 DEF shown
<1>6. /\ Ids(Older \o shown) = Ids(Older) \cup Ids(shown)
      /\ Distinct(Older \o shown) => Distinct(shown)
  BY <1>2, <1>8, IdsConcat
<1>7. Shown = Older \o shown /\ Shown' = shown
  BY <1>4, <1>5 DEF shown
<1> QED BY <1>6, <1>7

-----------------------------------------------------------------------------
(* The results are kept.                                                   *)

LEMMA InitKept == Init => KeptInv
BY DEF Init, KeptInv

LEMMA KeptStep == TypeInv /\ KeptInv /\ [Next]_vars => KeptInv'
<1> SUFFICES ASSUME TypeInv, KeptInv, [Next]_vars, pc' # "done", ~Taken("interrupt")'
             PROVE  records' \subseteq Ids(Shown') \cup summary'
  BY DEF KeptInv
<1> DEFINE Goal == records' \subseteq Ids(Shown') \cup summary'
<1>0. ~Taken("interrupt")
  BY TakenKept DEF SignalKind
<1>1. CASE pc # "done"
  <2>1. records \subseteq Ids(Shown) \cup summary
    BY <1>0, <1>1 DEF KeptInv
  <2>2. CASE UNCHANGED <<records, history, last, summary>>
    BY <2>1, <2>2 DEF Shown
  <2>3. CASE Shown' = Shown /\ UNCHANGED <<records, summary>>
    BY <2>1, <2>3
  <2>4. CASE Task
    BY <2>2, <2>4 DEF Task, StartAgent, StartFails, StepEnds, PassOn, seen
  <2>5. CASE Drain
    <3>1. "interrupt" \notin inbox
      BY <1>0, <2>5 DEF Drain, Taken, TypeInv, TypeOK
    <3>2. UNCHANGED last
      BY <2>5, <3>1 DEF Drain, Drained
    <3> QED BY <2>2, <2>5, <3>2 DEF Drain
  <2>6. CASE Compress
    <3>1. CASE UNCHANGED <<history, summary>>
      BY <2>2, <2>6, <3>1 DEF Compress
    <3>2. CASE Len(history) > Recent /\ summary' = Summarized /\ history' = Newest
      <4>1. Ids(Shown) = Ids(Older) \cup Ids(Shown')
        BY <2>6, <3>2, ShownShrinks DEF Compress
      <4>2. UNCHANGED records /\ summary' = summary \cup Ids(Older)
        BY <2>6, <3>2 DEF Compress, Summarized
      <4> QED BY <2>1, <4>1, <4>2
    <3> QED BY <2>6, <3>1, <3>2 DEF Compress
  <2>7. CASE CompressFails \/ BeginTool \/ NextTurn
    BY <2>2, <2>7 DEF CompressFails, BeginTool, NextTurn, seen
  <2>8. ASSUME NEW why \in {"transcript", "item", "decision"}, DecisionFails(why) PROVE Goal
    BY <2>2, <2>8 DEF DecisionFails, seen
  <2>9. ASSUME NEW calls \in Answers, DecideTools(calls) PROVE Goal
    BY <2>3, <2>9, ShownStays DEF DecideTools
  <2>10. ASSUME NEW failing \in SUBSET Owned, DecideClose(failing) PROVE Goal
    BY <2>3, <2>10, ShownStays DEF DecideClose
  <2>11. ASSUME NEW status \in {"succeeded", "failed", "canceled"}, GoOn(tool.index, status),
                pc = "tool", UNCHANGED <<history, summary>>
         PROVE  Goal
    <3> DEFINE f == Feedback(tool.index, status)
    <3>1. tool.index \in Int /\ turn <= MaxTurns
      BY <2>11 DEF TypeInv, ToolType
    <3>2. f \in FeedbackType /\ f.id = CallID(tool.index)
      BY <3>1, FeedbackTyped DEF Feedback
    <3>3. last' = Append(last, f) /\ records' = records \cup {CallID(tool.index)}
      BY <2>11 DEF GoOn
    <3> HIDE DEF f
    <3>4. Shown' = Append(Shown, f)
      BY <2>11, <3>2, <3>3, ShownGrows
    <3>5. Shown \in Seq(FeedbackType)
      BY ConcatProperties DEF TypeInv, TypeOK, Shown
    <3>6. Ids(Append(Shown, f)) = Ids(Shown) \cup {f.id}
      BY <3>2, <3>5, IdsAppend
    <3> QED BY <2>1, <2>11, <3>2, <3>3, <3>4, <3>6
  <2>12. CASE TakeInterrupt
    BY <2>11, <2>12 DEF TakeInterrupt, Receive
  <2>13. CASE ToolEnds
    BY <2>11, <2>13 DEF ToolEnds, Return
  <2>14. ASSUME NEW k \in SignalKind, TakeSignal(k) PROVE Goal
    BY <2>2, <2>14 DEF TakeSignal, seen
  <2>15. CASE Activity \/ DecisionLost \/ LatePublishes \/ UNCHANGED vars
    BY <2>2, <2>15 DEF Activity, ToolReturns, DecisionLost, LatePublishes, vars, seen
  <2>16. CASE (\E k \in SignalKind : Send(k)) \/ \E x \in Process : ToolStarts(x)
    BY <2>2, <2>16 DEF Send, ToolStarts, seen
  <2> QED
    BY <2>4, <2>5, <2>6, <2>7, <2>8, <2>9, <2>10, <2>12, <2>13, <2>14, <2>15, <2>16
    DEF Next, Agent, Finished
<1>2. CASE pc = "done"
  <2>1. pc' = "done"
    BY <1>2 DEF Next, Task, Agent, Activity, Finished, StartAgent, StartFails, StepEnds,
      PassOn, Drain, Compress, CompressFails, DecisionFails, DecideTools, DecideClose,
      Deciding, BeginTool, NextTurn, TakeInterrupt, Receive, ToolEnds, TakeSignal,
      ToolReturns, Send, DecisionLost, LatePublishes, ToolStarts, vars, TypeInv
  <2> QED BY <2>1
<1> QED BY <1>1, <1>2

\* Until the agent is done, every result in the database is before the model
\* too, in full or in the summary, unless an interrupt dropped it.
THEOREM KeepsResults == Spec => []ResultsAreKept
<1>1. KeptInv => ResultsAreKept
  BY DEF KeptInv, ResultsAreKept
<1> QED BY <1>1, InitTyped, StepTyped, InitKept, KeptStep, PTL DEF Spec

-----------------------------------------------------------------------------
(* The transcript is accepted.                                             *)

\* A set of numbers that is not empty has a least element.
LEMMA LeastNumber ==
  ASSUME NEW S \in SUBSET Nat, S # {}
  PROVE  \E n \in S : \A m \in S : n <= m
<1>1. PICK n \in S : \A m \in S : <<m, n>> \notin OpToRel(<, Nat)
  BY NatLessThanWellFounded, WFMin
<1>2. \A m \in S : ~(m < n)
  BY <1>1 DEF OpToRel
<1> QED BY <1>2

\* Each group of a history has an end, and holds what is between its ends.
LEMMA GroupEnds ==
  ASSUME NEW fs \in Seq(FeedbackType), NEW i \in 1 .. Len(fs)
  PROVE  \E e \in i .. Len(fs) : Group(fs, i) = SubSeq(fs, i, e)
<1> DEFINE P(e) == /\ \A j \in i + 1 .. e : ~IsHead(fs, j)
                   /\ e < Len(fs) => IsHead(fs, e + 1)
           T == {e \in i .. Len(fs) : e = Len(fs) \/ IsHead(fs, e + 1)}
<1>1. Len(fs) \in Nat /\ Len(fs) \in T /\ T \in SUBSET Nat
  BY LenProperties
<1>2. PICK n \in T : \A m \in T : n <= m
  BY <1>1, LeastNumber
<1>3. ASSUME NEW j \in i + 1 .. n PROVE ~IsHead(fs, j)
  <2>1. j - 1 \in i .. Len(fs) /\ j - 1 < n /\ (j - 1) + 1 = j
    BY <1>1, <1>2, <1>3
  <2>2. j - 1 \notin T
    <3>1. n \in Nat /\ j - 1 \in Nat /\ \A m \in T : n <= m
      BY <1>1, <1>2, <2>1
    <3> HIDE DEF T
    <3> QED BY <2>1, <3>1
  <2> QED BY <2>1, <2>2
<1>4. n \in i .. Len(fs) /\ P(n)
  BY <1>2, <1>3
<1>5. (CHOOSE e \in i .. Len(fs) : P(e)) \in i .. Len(fs)
  <2> HIDE DEF P
  <2> QED BY <1>4
<1> QED BY <1>5 DEF Group

\* A history of distinct calls is accepted, however it falls into groups.
LEMMA DistinctAccepted ==
  ASSUME NEW fs \in Seq(FeedbackType), Distinct(fs)
  PROVE  IsAccepted(fs)
<1> SUFFICES ASSUME NEW i \in 1 .. Len(fs)
             PROVE  /\ IsInjective(ResultsOf(Group(fs, i)))
                    /\ Range(ResultsOf(Group(fs, i))) = CallsOf(Group(fs, i))
  BY LenProperties DEF IsAccepted
<1>1. Len(fs) \in Nat /\ DOMAIN fs = 1 .. Len(fs)
  BY LenProperties
<1>2. PICK e \in i .. Len(fs) : Group(fs, i) = SubSeq(fs, i, e)
  BY GroupEnds
<1> DEFINE g == SubSeq(fs, i, e)
<1>3. /\ DOMAIN g = 1 .. (e - i + 1)
      /\ \A k \in 1 .. (e - i + 1) : g[k] = fs[i + k - 1] /\ i + k - 1 \in 1 .. Len(fs)
  <2>1. \A k \in i .. e : fs[k] \in FeedbackType
    BY <1>1, ElementOfSeq
  <2>2. /\ g \in Seq(FeedbackType) /\ Len(g) = e - i + 1
        /\ \A k \in 1 .. (e - i + 1) : g[k] = fs[i + k - 1]
    BY <2>1, SubSeqProperties
  <2>3. \A k \in 1 .. (e - i + 1) : i + k - 1 \in 1 .. Len(fs)
    BY <1>1
  <2> QED BY <2>2, <2>3, LenProperties
<1> HIDE DEF g
<1>4. \A j, k \in DOMAIN g : g[j].id = g[k].id => j = k
  <2> SUFFICES ASSUME NEW j \in 1 .. (e - i + 1), NEW k \in 1 .. (e - i + 1),
                      g[j].id = g[k].id
               PROVE  j = k
    BY <1>3
  <2>1. i + j - 1 = i + k - 1
    BY <1>1, <1>3 DEF Distinct
  <2> QED BY <2>1
<1>5. IsInjective(ResultsOf(g))
  BY <1>4 DEF IsInjective, ResultsOf
<1>6. Range(ResultsOf(g)) = CallsOf(g)
  BY DEF Range, ResultsOf, CallsOf
<1> QED BY <1>2, <1>5, <1>6 DEF g

LEMMA InitTranscript == Init => PlanIsEmpty /\ TranscriptInv
<1> SUFFICES ASSUME Init PROVE PlanIsEmpty /\ TranscriptInv
  OBVIOUS
<1>1. Shown = <<>>
  <2>1. <<>> \in Seq(FeedbackType)
    BY EmptySeq
  <2> QED BY <2>1, ConcatEmptySeq DEF Init, Shown
<1>2. DOMAIN plan = {}
  BY DEF Init
<1>3. pc = "off" /\ plan = <<>>
  BY DEF Init
<1> QED BY <1>1, <1>2, <1>3, NothingShown DEF PlanIsEmpty, TranscriptInv

LEMMA PlanStep == TypeInv /\ PlanIsEmpty /\ [Next]_vars => PlanIsEmpty'
<1> SUFFICES ASSUME TypeInv, PlanIsEmpty, [Next]_vars PROVE PlanIsEmpty'
  OBVIOUS
<1> USE DEF PlanIsEmpty
<1>1. CASE Task
  BY <1>1 DEF Task, StartAgent, StartFails, StepEnds, PassOn, TypeInv
<1>2. CASE Agent
  BY <1>2 DEF Agent, Drain, Compress, CompressFails, DecisionFails, DecideTools, Return,
     DecideClose, BeginTool, NextTurn, TakeInterrupt, ToolEnds, GoOn, TakeSignal
<1>3. CASE Activity \/ DecisionLost \/ LatePublishes \/ UNCHANGED vars
  BY <1>3 DEF Activity, ToolReturns, DecisionLost, LatePublishes, vars
<1>4. CASE (\E k \in SignalKind : Send(k)) \/ \E x \in Process : ToolStarts(x)
  BY <1>4 DEF Send, ToolStarts
<1> QED BY <1>1, <1>2, <1>3, <1>4 DEF Next, Finished

\* The parts of the invariant
Named ==
  \A d \in Ids(Shown) :
    /\ d[1] <= turn
    /\ pc \in {"off", "drain", "compress", "decide"} => d[1] < turn
    /\ pc = "tool" => d # CallID(tool.index)
    /\ \A j \in DOMAIN plan : d # CallID(plan[j])
Planned ==
  /\ \A i, j \in DOMAIN plan : plan[i] = plan[j] => i = j
  /\ pc = "tool" => \A j \in DOMAIN plan : plan[j] # tool.index

LEMMA TranscriptStep ==
  TypeInv /\ PlanIsEmpty /\ TranscriptInv /\ [Next]_vars => TranscriptInv'
<1> SUFFICES ASSUME TypeInv, PlanIsEmpty, TranscriptInv, [Next]_vars,
                    pc' # "done", ~cast.unnamed
             PROVE  Distinct(Shown') /\ Named' /\ Planned'
  BY CastKept DEF TranscriptInv, Named, Planned
<1> DEFINE Goal == Distinct(Shown') /\ Named' /\ Planned'
<1>0. pc # "done"
  BY DEF Next, Task, Agent, Activity, Finished, StartAgent, StartFails, StepEnds,
    PassOn, Drain, Compress, CompressFails, DecisionFails, DecideTools, DecideClose,
    Deciding, BeginTool, NextTurn, TakeInterrupt, Receive, ToolEnds, TakeSignal,
    ToolReturns, Send, DecisionLost, LatePublishes, ToolStarts, vars, TypeInv
<1>1. Distinct(Shown) /\ Named /\ Planned
  BY <1>0 DEF TranscriptInv, Named, Planned
<1>2. /\ \A i : CallID(i) = <<turn, i>>
      /\ \A i : CallID(i)' = <<turn', i>>
  BY CastKept DEF CallID
<1>3. /\ Shown \in Seq(FeedbackType) /\ last \in Seq(FeedbackType)
      /\ history \in Seq(FeedbackType) /\ plan \in Seq(Nat) /\ tool \in ToolType
      /\ turn \in Nat /\ turn >= 1
  BY ConcatProperties DEF TypeInv, TypeOK, Shown, AgentAssumption
<1>4. \A d \in Ids(Shown) : d[1] \in Int
  <2>2. \A i \in DOMAIN Shown : Shown[i] \in FeedbackType
    BY <1>3, LenProperties, ElementOfSeq
  <2>1. \A i \in DOMAIN Shown : Shown[i].id \in (1 .. MaxTurns) \X Int
    BY <2>2 DEF FeedbackType
  <2> QED BY <2>1 DEF Ids, AgentAssumption
\* Nothing of it changes but what is shown, which may shrink, and the place.
<1>5. ASSUME UNCHANGED <<turn, plan>>, Ids(Shown') \subseteq Ids(Shown), Distinct(Shown'),
             pc' # "tool" \/ (pc = "tool" /\ tool'.index = tool.index),
             pc' \in {"off", "drain", "compress", "decide"} =>
               pc \in {"off", "drain", "compress", "decide"}
      PROVE  Goal
  BY <1>1, <1>2, <1>5 DEF Named, Planned
<1>6. UNCHANGED <<history, last>> => Shown' = Shown
  BY DEF Shown
<1>7. CASE Task
  <2>1. /\ UNCHANGED <<turn, plan, history, last, tool>>
        /\ pc' = pc \/ (pc = "off" /\ pc' = "drain")
    BY <1>7 DEF Task, StartAgent, StartFails, StepEnds, PassOn, seen, TypeInv
  <2> QED BY <1>1, <1>5, <1>6, <2>1
<1>8. CASE Drain
  <2>1. /\ UNCHANGED <<turn, plan, history>> /\ pc = "drain" /\ pc' = "compress"
        /\ last' = last \/ last' = <<>>
    BY <1>8 DEF Drain, Return
  <2>2. CASE last' = last
    BY <1>1, <1>5, <1>6, <2>1, <2>2
  <2>3. CASE last' = <<>>
    <3>1. Shown' = history
      BY <1>3, <2>1, <2>3, ConcatEmptySeq DEF Shown
    <3>2. Ids(Shown) = Ids(history) \cup Ids(last) /\ (Distinct(Shown) => Distinct(history))
      BY <1>3, IdsConcat DEF Shown
    <3> QED BY <1>1, <1>5, <2>1, <3>1, <3>2
  <2> QED BY <2>1, <2>2, <2>3
<1>9. CASE Compress
  <2>1. UNCHANGED <<turn, plan, last>> /\ pc = "compress" /\ pc' = "decide"
    BY <1>9 DEF Compress
  <2>2. Ids(Shown') \subseteq Ids(Shown) /\ Distinct(Shown')
    BY <1>1, <1>6, <1>9, <2>1, ShownShrinks DEF Compress
  <2> QED BY <1>5, <2>1, <2>2
<1>10. CASE CompressFails \/ \E why \in {"transcript", "item", "decision"} : DecisionFails(why)
  BY <1>10 DEF CompressFails, DecisionFails, Return
<1>11. ASSUME NEW calls \in Answers, DecideTools(calls) PROVE Goal
  <2>1. /\ pc \in {"drain", "decide"} /\ pc' = "step" /\ turn' = turn
        /\ plan' = [i \in DOMAIN calls |-> i]
    BY <1>11 DEF DecideTools, Deciding
  <2>2. Shown' = Shown
    BY <1>11, ShownStays DEF DecideTools
  <2>3. ASSUME NEW d \in Ids(Shown), NEW i PROVE d # CallID(i)'
    BY <1>1, <1>2, <1>3, <1>4, <2>1, <2>3 DEF Named
  <2> QED BY <1>1, <2>1, <2>2, <2>3 DEF Named, Planned
<1>12. ASSUME NEW failing \in SUBSET Owned, DecideClose(failing) PROVE Goal
  <2>1. /\ pc \in {"drain", "decide"} /\ pc' = "tool" /\ UNCHANGED <<turn, plan>>
        /\ plan = <<>>
    BY <1>12 DEF DecideClose, Deciding, PlanIsEmpty, Return
  <2>2. Shown' = Shown
    BY <1>12, ShownStays DEF DecideClose
  <2>3. ASSUME NEW d \in Ids(Shown), NEW i PROVE d # CallID(i)'
    BY <1>1, <1>2, <1>3, <1>4, <2>1, <2>3 DEF Named
  <2> QED BY <1>1, <2>1, <2>2, <2>3 DEF Named, Planned
<1>13. CASE BeginTool
  <2>1. /\ pc = "step" /\ plan # <<>> /\ plan' = Tail(plan) /\ turn' = turn
        /\ pc' = "tool" /\ UNCHANGED <<history, last>>
        /\ tool' = [Idle EXCEPT !.state = "running", !.index = Head(plan)]
    BY <1>13 DEF BeginTool, seen
  <2>2. tool'.index = Head(plan)
    BY <2>1 DEF Idle
  <2>3. /\ Len(plan) \in Nat \ {0} /\ DOMAIN plan = 1 .. Len(plan)
        /\ plan' \in Seq(Nat) /\ Len(plan') = Len(plan) - 1
        /\ \A j \in 1 .. Len(plan') : plan'[j] = plan[j + 1]
    BY <1>3, <2>1, HeadTailProperties, LenProperties, EmptySeq
  <2>4. Head(plan) = plan[1] /\ DOMAIN plan' = 1 .. Len(plan')
    BY <1>3, <2>1, <2>3, LenProperties
  <2>5. \A j \in DOMAIN plan' : j + 1 \in DOMAIN plan /\ plan'[j] = plan[j + 1] /\ j + 1 # 1
    BY <2>3, <2>4
  <2>6. 1 \in DOMAIN plan
    BY <2>3
  <2>7. Planned'
    <3>1. ASSUME NEW i \in DOMAIN plan', NEW j \in DOMAIN plan', plan'[i] = plan'[j]
          PROVE  i = j
      <4>1. i + 1 = j + 1
        BY <1>1, <2>5, <3>1 DEF Planned
      <4> QED BY <2>3, <2>4, <4>1
    <3>2. \A j \in DOMAIN plan' : plan'[j] # plan[1]
      BY <1>1, <2>5, <2>6 DEF Planned
    <3> QED BY <2>2, <2>4, <3>1, <3>2 DEF Planned
  <2>8. Named'
    <3>1. \A i : CallID(i)' = CallID(i)
      BY <1>2, <2>1
    <3> QED BY <1>1, <1>6, <2>1, <2>2, <2>4, <2>5, <2>6, <3>1 DEF Named
  <2> QED BY <1>1, <1>6, <2>1, <2>7, <2>8
<1>14. CASE NextTurn
  <2>1. plan = <<>> /\ plan' = <<>> /\ turn' = turn + 1 /\ pc' = "drain" /\ UNCHANGED <<history, last>>
    BY <1>14 DEF NextTurn, FollowingTurn, seen
  <2>2. \A d \in Ids(Shown) : d[1] < turn'
    BY <1>1, <1>3, <1>4, <2>1 DEF Named
  <2>3. \A d \in Ids(Shown) : d[1] <= turn'
    BY <1>3, <1>4, <2>1, <2>2
  <2>4. DOMAIN plan' = {}
    BY <2>1
  <2> QED BY <1>1, <1>6, <2>1, <2>2, <2>3, <2>4 DEF Named, Planned
<1>15. ASSUME NEW status \in {"succeeded", "failed", "canceled"}, GoOn(tool.index, status),
              pc = "tool", UNCHANGED <<history, turn>>, plan' = plan \/ plan' = <<>>
       PROVE  Goal
  <2> DEFINE f == Feedback(tool.index, status)
  <2>1. tool.index \in Int /\ turn <= MaxTurns
    BY <1>15 DEF TypeInv, ToolType
  <2>2. f \in FeedbackType /\ f.id = CallID(tool.index)
    BY <2>1, FeedbackTyped DEF Feedback
  <2>3. last' = Append(last, f) /\ pc' = "step"
    BY <1>15 DEF GoOn
  <2> HIDE DEF f
  <2>4. Shown' = Append(Shown, f)
    BY <1>15, <2>2, <2>3, ShownGrows
  <2>5. Ids(Shown') = Ids(Shown) \cup {CallID(tool.index)}
    BY <1>3, <2>2, <2>4, IdsAppend
  <2>6. f.id \notin Ids(Shown)
    BY <1>1, <1>15, <2>2 DEF Named
  <2>7. Distinct(Shown')
    BY <1>1, <1>3, <2>2, <2>4, <2>6, IdsAppend
  <2>8. \A j \in DOMAIN plan' : j \in DOMAIN plan /\ plan'[j] = plan[j]
    BY <1>15
  <2>9. Planned'
    BY <1>1, <2>3, <2>8 DEF Planned
  <2>10. \A j \in DOMAIN plan : plan[j] # tool.index
    BY <1>1, <1>15 DEF Planned
  <2>11. CallID(tool.index)[1] = turn
    BY <1>2
  <2>13. ASSUME NEW d \in Ids(Shown'), NEW j \in DOMAIN plan' PROVE d # <<turn, plan'[j]>>
    <3>1. plan'[j] = plan[j] /\ j \in DOMAIN plan /\ plan[j] # tool.index
      BY <2>8, <2>10
    <3>2. CASE d \in Ids(Shown)
      BY <1>1, <1>2, <3>1, <3>2 DEF Named
    <3>3. CASE d = CallID(tool.index)
      BY <1>2, <3>1, <3>3
    <3> QED BY <2>5, <3>2, <3>3
  <2>14. \A d \in Ids(Shown') : d[1] <= turn'
    BY <1>1, <1>3, <1>15, <2>5, <2>11 DEF Named
  <2>15. Named'
    BY <1>2, <1>15, <2>3, <2>13, <2>14 DEF Named
  <2> QED BY <2>7, <2>9, <2>15
<1>16. CASE TakeInterrupt
  BY <1>15, <1>16 DEF TakeInterrupt, Receive
<1>17. CASE ToolEnds
  BY <1>15, <1>17 DEF ToolEnds, Return
<1>18. ASSUME NEW k \in SignalKind, TakeSignal(k) PROVE Goal
  BY <1>1, <1>5, <1>6, <1>18, ToolStep DEF TakeSignal, seen
<1>19. ASSUME NEW state \in {"ended", "failed"}, NEW lost \in BOOLEAN, ToolReturns(state, lost)
       PROVE  Goal
  BY <1>1, <1>5, <1>6, <1>19, ToolStep DEF ToolReturns, seen
<1>20. ASSUME NEW x \in Process, ToolStarts(x) PROVE Goal
  BY <1>1, <1>5, <1>6, <1>20, ToolStep DEF ToolStarts, seen
<1>21. CASE DecisionLost \/ LatePublishes \/ (\E k \in SignalKind : Send(k)) \/ UNCHANGED vars
  <2>1. UNCHANGED <<turn, plan, history, last, pc, tool>>
    BY <1>21 DEF DecisionLost, LatePublishes, Send, vars, seen
  <2> QED BY <1>1, <1>5, <1>6, <2>1
<1> QED
  BY <1>7, <1>8, <1>9, <1>10, <1>11, <1>12, <1>13, <1>14, <1>16, <1>17, <1>18, <1>19,
     <1>20, <1>21
  DEF Next, Agent, Activity, Finished

\* As long as the model names its calls, the transcript of every decision has
\* one result for each call and no other, whatever an interrupt or the
\* compression left of a batch.
THEOREM AcceptsTranscript == Spec => []TranscriptIsAccepted
<1>1. TypeInv /\ TranscriptInv => TranscriptIsAccepted
  <2> SUFFICES ASSUME TypeInv, TranscriptInv, Deciding, ~cast.unnamed
               PROVE  IsAccepted(Shown)
    BY DEF TranscriptIsAccepted, CanBeShown
  <2>1. Distinct(Shown)
    BY DEF TranscriptInv, Deciding
  <2>2. Shown \in Seq(FeedbackType)
    BY ConcatProperties DEF TypeInv, TypeOK, Shown
  <2> QED BY <2>1, <2>2, DistinctAccepted
<1>2. Init => TypeInv /\ PlanIsEmpty /\ TranscriptInv
  BY InitTyped, InitTranscript
<1>3. TypeInv /\ PlanIsEmpty /\ TranscriptInv /\ [Next]_vars
        => (TypeInv /\ PlanIsEmpty /\ TranscriptInv)'
  BY StepTyped, PlanStep, TranscriptStep
<1> QED BY <1>1, <1>2, <1>3, PTL DEF Spec

=============================================================================
