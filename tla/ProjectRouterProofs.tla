------------------------- MODULE ProjectRouterProofs -------------------------
(***************************************************************************)
(* Proofs about ProjectRouter, for every set of events and ids and every   *)
(* value of the limits.                                                    *)
(***************************************************************************)
EXTENDS ProjectRouterLedger, FiniteSetTheorems, SequenceTheorems, TLAPS

(***************************************************************************)
(* TypeOK alone is not inductive: the blocking calls use the event they    *)
(* were issued for, so pc must say when current is an event.               *)
(***************************************************************************)
CurrentIsSet ==
  pc \in {"report", "start", "context", "cancel", "interrupt"} => current \in Event

TypeInv == TypeOK /\ CurrentIsSet

USE EventAssumption, NoneAssumption, LimitAssumption DEF EventType

-----------------------------------------------------------------------------
(* Lemmas about the operators.                                             *)

\* The trimmed window holds ids, no more than the limit.
LEMMA TrimType ==
  ASSUME NEW s \in Seq(ID)
  PROVE  Trim(s) \in Seq(ID) /\ Len(Trim(s)) <= RecentLimit
<1>1. CASE Len(s) <= RecentLimit
  BY <1>1 DEF Trim
<1>2. CASE ~(Len(s) <= RecentLimit)
  <2>1. /\ Len(s) \in Nat
        /\ Len(s) - RecentLimit + 1 \in 1..Len(s)
    BY <1>2
  <2>2. /\ SubSeq(s, Len(s) - RecentLimit + 1, Len(s)) \in Seq(ID)
        /\ Len(SubSeq(s, Len(s) - RecentLimit + 1, Len(s))) = RecentLimit
    BY <2>1, SubSeqProperties
  <2> QED BY <1>2, <2>2 DEF Trim
<1> QED BY <1>1, <1>2

\* Whatever a lookup finds is a recorded owner.
LEMMA OwnerIsRecorded ==
  ASSUME TypeOK, NEW e \in Event, Owner(e) # None
  PROVE  \/ \E m \in MessageID : Owner(e) = messageOwner[m]
         \/ \E k \in ThreadKey : Owner(e) = threadOwner[k]
<1>1. CASE ReplyOwner(e) # None
  <2>1. e.replyTo \in MessageID
    BY <1>1 DEF ReplyOwner
  <2> QED BY <1>1, <2>1 DEF Owner, ReplyOwner
<1>2. CASE ReplyOwner(e) = None
  <2> DEFINE found == {i \in 1..4 : ThreadLookups(e)[i] # None}
  <2>1. ThreadOwner(e) # None
    BY <1>2 DEF Owner
  <2>2. found # {} /\ ThreadOwner(e) = ThreadLookups(e)[Min(found)]
    BY <2>1 DEF ThreadOwner
  <2>3. Min(found) \in found
    <3>1. PICK n \in found : \A m \in found : n <= m
      BY <2>2
    <3> QED BY <3>1 DEF Min
  <2>4. \A i \in found : \E k \in ThreadKey : ThreadLookups(e)[i] = threadOwner[k]
    <3> SUFFICES ASSUME NEW i \in found
                 PROVE  \E k \in ThreadKey : ThreadLookups(e)[i] = threadOwner[k]
      OBVIOUS
    <3>1. e.channel \in Place \cup {None} /\ e.thread \in Place \cup {None}
      OBVIOUS
    <3> QED BY <3>1 DEF ThreadLookups, Key, ThreadKey
  <2> QED BY <1>2, <2>2, <2>3, <2>4 DEF Owner
<1> QED BY <1>1, <1>2

\* A lookup finds a task id or nothing.
LEMMA OwnerType ==
  ASSUME TypeOK, NEW e \in Event
  PROVE  Owner(e) \in ID \cup {None}
<1>1. /\ \A m \in MessageID : messageOwner[m] \in ID \cup {None}
      /\ \A k \in ThreadKey : threadOwner[k] \in ID \cup {None}
  BY DEF TypeOK
<1>2. CASE Owner(e) # None
  BY <1>1, <1>2, OwnerIsRecorded
<1> QED BY <1>2

\* Registering an event keeps both owner maps typed.
LEMMA RegisterType ==
  ASSUME TypeOK, NEW e \in Event, NEW id \in ID, Register(e, id)
  PROVE  /\ messageOwner' \in [MessageID -> ID \cup {None}]
         /\ threadOwner' \in [ThreadKey -> ID \cup {None}]
BY DEF TypeOK, Register, Key, ThreadKey

\* Releasing a task keeps both owner maps typed.
LEMMA ReleaseType ==
  ASSUME TypeOK, NEW id \in ID, Release(id)
  PROVE  /\ messageOwner' \in [MessageID -> ID \cup {None}]
         /\ threadOwner' \in [ThreadKey -> ID \cup {None}]
BY DEF TypeOK, Release

\* The first active task is one of the active ids.
LEMMA FirstActiveType ==
  ASSUME TypeOK, active # {}
  PROVE  FirstActive \in ActiveIds /\ FirstActive \in ID
<1>1. ActiveIds \subseteq ID /\ ActiveIds # {}
  BY DEF TypeOK, ActiveIds
<1>2. ActiveIds \subseteq Nat
  BY <1>1, IdAssumption
<1>3. \E n \in ActiveIds : \A m \in ActiveIds : n <= m
  <2>1. PICK n \in ActiveIds : \A m \in ActiveIds : <<m, n>> \notin OpToRel(<, Nat)
    BY <1>1, <1>2, NatLessThanWellFounded, WFMin
  <2>2. \A m \in ActiveIds : ~(m < n)
    BY <1>2, <2>1 DEF OpToRel
  <2> QED BY <1>2, <2>2
<1> QED BY <1>1, <1>3 DEF FirstActive, Min

-----------------------------------------------------------------------------
(* Type correctness.                                                       *)

\* The initial state is typed.
LEMMA InitType == Init => TypeInv
<1> SUFFICES ASSUME Init PROVE TypeInv
  OBVIOUS
<1>1. /\ inbox \in Seq(Event) /\ queue \in Seq(Event) /\ pending \in Seq(Event)
      /\ recent \in Seq(ID) /\ Len(recent) <= RecentLimit
  BY EmptySeq DEF Init
<1>2. /\ deliveries \in Nat /\ processed \in Nat
      /\ active \subseteq Event /\ started \in BOOLEAN
      /\ current \in Event \cup {None} /\ target \in ID \cup {None}
      /\ pc \in Local
  BY DEF Init, Local
<1>3. /\ messageOwner \in [MessageID -> ID \cup {None}]
      /\ threadOwner \in [ThreadKey -> ID \cup {None}]
      /\ task \in [ID -> TaskState]
      /\ reports \in [ID -> Nat]
  BY DEF Init, TaskState
<1>4. CurrentIsSet
  BY DEF Init, CurrentIsSet
<1> QED BY <1>1, <1>2, <1>3, <1>4 DEF TypeInv, TypeOK

\* Every step keeps the state typed.
LEMMA StepType == TypeInv /\ [Next]_vars => TypeInv'
<1> SUFFICES ASSUME TypeInv, [Next]_vars PROVE TypeInv'
  OBVIOUS
<1> USE DEF TypeInv, CurrentIsSet, Local, Blocked
<1>1. CASE UNCHANGED vars
  BY <1>1 DEF vars, loopVars, TypeOK, ThreadKey
<1>2. ASSUME NEW e \in Event, Deliver(e) PROVE TypeInv'
  BY <1>2 DEF Deliver, loopVars, TypeOK
<1>3. ASSUME NEW id \in ID, NEW outcome \in Closed, TaskCloses(id, outcome)
      PROVE  TypeInv'
  BY <1>3 DEF TaskCloses, loopVars, TypeOK, Closed, TaskState
<1>4. CASE ReportNext
  BY <1>4 DEF ReportNext, TypeOK
<1>5. CASE ContinueAsNew
  BY <1>5, TrimType, EmptySeq DEF ContinueAsNew, TypeOK
<1>6. CASE EnterStartLoop
  BY <1>6 DEF EnterStartLoop, TypeOK
<1>7. CASE StartNext
  BY <1>7 DEF StartNext, CanStart, TypeOK
<1>8. CASE LeaveStartLoop
  BY <1>8 DEF LeaveStartLoop, TypeOK
<1>9. ASSUME NEW e \in Event, DropDuplicate(e) PROVE TypeInv'
  BY <1>9 DEF DropDuplicate, Receive, TypeOK
<1>10. ASSUME NEW e \in Event, Remember(e), TypeOK 
       PROVE recent' \in Seq(ID) /\ Len(recent') <= RecentLimit
  <2>1. e.id \in ID /\ recent \in Seq(ID)
    BY <1>10 DEF TypeOK
  <2>2. Append(recent, e.id) \in Seq(ID)
    BY <2>1
  <2> QED BY <1>10, <2>2, TrimType DEF Remember
<1>11. ASSUME NEW e \in Event, Drop(e) PROVE TypeInv'
  <2>1. recent' \in Seq(ID) /\ Len(recent') <= RecentLimit
    BY <1>10, <1>11 DEF Drop
  <2> QED BY <1>11, <2>1 DEF Drop, Receive, TypeOK
<1>12. ASSUME NEW e \in Event, Enqueue(e) PROVE TypeInv'
  <2>1. recent' \in Seq(ID) /\ Len(recent') <= RecentLimit
    BY <1>10, <1>12 DEF Enqueue
  <2> QED BY <1>12, <2>1 DEF Enqueue, Receive, TypeOK
<1>13. ASSUME NEW e \in Event, Route(e) PROVE TypeInv'
  <2>1. recent' \in Seq(ID) /\ Len(recent') <= RecentLimit
    BY <1>10, <1>13 DEF Route
  <2>2. Owner(e) \in ID
    BY <1>13, OwnerType DEF Route
  <2>3. /\ messageOwner' \in [MessageID -> ID \cup {None}]
        /\ threadOwner' \in [ThreadKey -> ID \cup {None}]
    BY <1>13, <2>2, RegisterType DEF Route
  <2> QED BY <1>13, <2>1, <2>2, <2>3 DEF Route, Receive, TypeOK
<1>14. ASSUME NEW e \in Event, Control(e) PROVE TypeInv'
  <2>1. recent' \in Seq(ID) /\ Len(recent') <= RecentLimit
    BY <1>10, <1>14 DEF Control
  <2>2. FirstActive \in ID
    BY <1>14, FirstActiveType DEF Control
  <2> QED BY <1>14, <2>1, <2>2 DEF Control, Receive, IsControl, TypeOK
<1>15. ASSUME NEW e \in Event, Finish(e) PROVE TypeInv'
  <2>1. e.id \in ID
    OBVIOUS
  <2>2. /\ messageOwner' \in [MessageID -> ID \cup {None}]
        /\ threadOwner' \in [ThreadKey -> ID \cup {None}]
    BY <1>15, <2>1, ReleaseType DEF Finish
  <2> QED BY <1>15, <2>2 DEF Finish, Collected, TypeOK
<1>16. CASE ReportDone
  BY <1>16 DEF ReportDone, TypeOK
<1>17. CASE ChildStarts
  <2>1. current \in Event /\ current.id \in ID
    BY <1>17 DEF ChildStarts
  <2>2. /\ messageOwner' \in [MessageID -> ID \cup {None}]
        /\ threadOwner' \in [ThreadKey -> ID \cup {None}]
    BY <1>17, <2>1, RegisterType DEF ChildStarts
  <2> QED BY <1>17, <2>1, <2>2 DEF ChildStarts, TypeOK, TaskState
<1>18. CASE ChildRefused
  BY <1>18 DEF ChildRefused, TypeOK
<1>19. CASE SignalDone
  BY <1>19 DEF SignalDone, TypeOK
<1> QED
  BY <1>1, <1>2, <1>3, <1>4, <1>5, <1>6, <1>7, <1>8, <1>9, <1>11, <1>12,
     <1>13, <1>14, <1>15, <1>16, <1>17, <1>18, <1>19
  DEF Next, Step, Answer

\* The state keeps its types: in particular every queued, active or pending
\* event is a real event and every recorded owner is a task id.
THEOREM TypeCorrect == Spec => []TypeOK
<1>1. Init => TypeInv
  BY InitType
<1>2. TypeInv /\ [Next]_vars => TypeInv'
  BY StepType
<1>3. TypeInv => TypeOK
  BY DEF TypeInv
<1> QED BY <1>1, <1>2, <1>3, PTL DEF Spec

-----------------------------------------------------------------------------
(* Ownership and the active map.                                           *)

(***************************************************************************)
(* The start loop tests its limit before the child start and adds the task *)
(* after it; the active map is a map; both are needed to count.            *)
(***************************************************************************)
ActiveShape ==
  /\ IsFiniteSet(ActiveIds)
  /\ Cardinality(ActiveIds) <= MaxActive
  /\ pc = "start" => Cardinality(ActiveIds) < MaxActive
  /\ \A e, f \in active : e.id = f.id => e = f

ActiveInv == ActiveShape /\ OwnersAreActive /\ RunningIsTracked

\* A start that succeeds adds one id to the active map.
LEMMA ActiveIdsAfterStart ==
  ASSUME TypeInv, ChildStarts
  PROVE  ActiveIds' = ActiveIds \cup {current.id}
BY DEF ChildStarts, ActiveIds, TypeInv, TypeOK

\* A task that finishes leaves the active map.
LEMMA ActiveIdsAfterFinish ==
  ASSUME TypeInv, ActiveShape, NEW e \in Event, Finish(e)
  PROVE  ActiveIds' = ActiveIds \ {e.id}
BY DEF Finish, ActiveIds, TypeInv, TypeOK, ActiveShape

\* Nothing is active or owned at first.
LEMMA InitActive == Init => ActiveInv
<1> SUFFICES ASSUME Init PROVE ActiveInv
  OBVIOUS
<1>1. active = {} /\ ActiveIds = {} /\ pc = "top"
  BY DEF Init, ActiveIds
<1>2. ActiveShape
  BY <1>1, FS_EmptySet DEF ActiveShape
<1>3. OwnersAreActive /\ RunningIsTracked
  BY DEF Init, OwnersAreActive, RunningIsTracked
<1> QED BY <1>2, <1>3 DEF ActiveInv

\* Every step keeps the active map to one entry per id.
LEMMA ShapeStep == TypeInv /\ ActiveShape /\ [Next]_vars => ActiveShape'
<1> SUFFICES ASSUME TypeInv, ActiveShape, [Next]_vars PROVE ActiveShape'
  OBVIOUS
<1>1. ASSUME active' = active, pc' = "start" => pc = "start" PROVE ActiveShape'
  BY <1>1 DEF ActiveShape, ActiveIds
<1>2. CASE StartNext
  BY <1>2 DEF StartNext, CanStart, ActiveShape, ActiveIds
<1>3. CASE ChildStarts
  <2>1. ActiveIds' = ActiveIds \cup {current.id}
    BY <1>3, ActiveIdsAfterStart
  <2>2. /\ IsFiniteSet(ActiveIds')
        /\ Cardinality(ActiveIds') <= Cardinality(ActiveIds) + 1
        /\ Cardinality(ActiveIds) \in Nat
    <3>1. IsFiniteSet(ActiveIds) /\ Cardinality(ActiveIds) \in Nat
      BY FS_CardinalityType DEF ActiveShape
    <3>2. /\ IsFiniteSet(ActiveIds \cup {current.id})
          /\ Cardinality(ActiveIds \cup {current.id})
               = IF current.id \in ActiveIds THEN Cardinality(ActiveIds)
                 ELSE Cardinality(ActiveIds) + 1
      BY <3>1, FS_AddElement
    <3> QED BY <2>1, <3>1, <3>2
  <2>3. Cardinality(ActiveIds) < MaxActive /\ pc' = "fill"
    BY <1>3 DEF ChildStarts, ActiveShape
  <2>4. \A e, f \in active' : e.id = f.id => e = f
    BY <1>3 DEF ChildStarts, ActiveShape
  <2>5. Cardinality(ActiveIds') \in Nat
    BY <2>2, FS_CardinalityType
  <2> QED BY <2>2, <2>3, <2>4, <2>5 DEF ActiveShape
<1>4. ASSUME NEW e \in Event, Finish(e) PROVE ActiveShape'
  <2>1. ActiveIds' = ActiveIds \ {e.id}
    BY <1>4, ActiveIdsAfterFinish
  <2>2. /\ IsFiniteSet(ActiveIds')
        /\ Cardinality(ActiveIds') <= Cardinality(ActiveIds)
        /\ Cardinality(ActiveIds') \in Nat
        /\ Cardinality(ActiveIds) \in Nat
    BY <2>1, FS_Subset, FS_CardinalityType DEF ActiveShape
  <2>3. pc' = "top" /\ active' \subseteq active
    BY <1>4 DEF Finish
  <2> QED BY <2>2, <2>3 DEF ActiveShape
<1>5. CASE UNCHANGED vars
  BY <1>1, <1>5 DEF vars, loopVars
<1>6. ASSUME NEW e \in Event, Deliver(e) PROVE ActiveShape'
  BY <1>1, <1>6 DEF Deliver, loopVars
<1>7. ASSUME NEW id \in ID, NEW outcome \in Closed, TaskCloses(id, outcome)
      PROVE  ActiveShape'
  BY <1>1, <1>7 DEF TaskCloses, loopVars
<1>8. CASE ReportNext \/ ContinueAsNew \/ EnterStartLoop \/ LeaveStartLoop
           \/ ReportDone \/ ChildRefused \/ SignalDone
  BY <1>1, <1>8 DEF ReportNext, ContinueAsNew, MustContinueAsNew,
     EnterStartLoop, LeaveStartLoop, ReportDone, ChildRefused, SignalDone
<1>9. ASSUME NEW e \in Event,
             DropDuplicate(e) \/ Drop(e) \/ Enqueue(e) \/ Route(e) \/ Control(e)
      PROVE  ActiveShape'
  BY <1>1, <1>9 DEF DropDuplicate, Drop, Enqueue, Route, Control, Receive,
     IsControl
<1> QED
  BY <1>2, <1>3, <1>4, <1>5, <1>6, <1>7, <1>8, <1>9 DEF Next, Step, Answer

\* Every step keeps the owners among the active tasks.
LEMMA OwnersStep ==
  TypeInv /\ ActiveShape /\ OwnersAreActive /\ [Next]_vars => OwnersAreActive'
<1> SUFFICES ASSUME TypeInv, ActiveShape, OwnersAreActive, [Next]_vars
             PROVE  OwnersAreActive'
  OBVIOUS
<1>1. ASSUME UNCHANGED <<active, messageOwner, threadOwner>> PROVE OwnersAreActive'
  BY <1>1 DEF OwnersAreActive, ActiveIds
<1>2. CASE ContinueAsNew
  BY <1>2 DEF ContinueAsNew, OwnersAreActive
<1>3. CASE ChildStarts
  <2>1. ActiveIds' = ActiveIds \cup {current.id}
    BY <1>3, ActiveIdsAfterStart
  <2> QED BY <1>3, <2>1 DEF ChildStarts, Register, OwnersAreActive, TypeInv, TypeOK
<1>4. ASSUME NEW e \in Event, Route(e) PROVE OwnersAreActive'
  <2>1. Owner(e) \in ActiveIds
    BY <1>4, OwnerIsRecorded DEF Route, OwnersAreActive, TypeInv
  <2>2. ActiveIds' = ActiveIds
    BY <1>4 DEF Route, ActiveIds
  <2> QED BY <1>4, <2>1, <2>2 DEF Route, Register, OwnersAreActive, TypeInv, TypeOK
<1>5. ASSUME NEW e \in Event, Finish(e) PROVE OwnersAreActive'
  <2>1. ActiveIds' = ActiveIds \ {e.id}
    BY <1>5, ActiveIdsAfterFinish
  <2> QED BY <1>5, <2>1 DEF Finish, Release, OwnersAreActive, TypeInv, TypeOK
<1>6. CASE UNCHANGED vars
  BY <1>1, <1>6 DEF vars, loopVars
<1>7. ASSUME NEW e \in Event, Deliver(e) PROVE OwnersAreActive'
  BY <1>1, <1>7 DEF Deliver, loopVars
<1>8. ASSUME NEW id \in ID, NEW outcome \in Closed, TaskCloses(id, outcome)
      PROVE  OwnersAreActive'
  BY <1>1, <1>8 DEF TaskCloses, loopVars
<1>9. CASE ReportNext \/ EnterStartLoop \/ StartNext \/ LeaveStartLoop
           \/ ReportDone \/ ChildRefused \/ SignalDone
  BY <1>1, <1>9 DEF ReportNext, EnterStartLoop, StartNext, LeaveStartLoop,
     ReportDone, ChildRefused, SignalDone
<1>10. ASSUME NEW e \in Event,
              DropDuplicate(e) \/ Drop(e) \/ Enqueue(e) \/ Control(e)
       PROVE  OwnersAreActive'
  BY <1>1, <1>10 DEF DropDuplicate, Drop, Enqueue, Control
<1> QED
  BY <1>2, <1>3, <1>4, <1>5, <1>6, <1>7, <1>8, <1>9, <1>10 DEF Next, Step, Answer

\* Every step keeps the running children in the active map.
LEMMA TrackStep ==
  TypeInv /\ ActiveShape /\ RunningIsTracked /\ [Next]_vars => RunningIsTracked'
<1> SUFFICES ASSUME TypeInv, ActiveShape, RunningIsTracked, [Next]_vars
             PROVE  RunningIsTracked'
  OBVIOUS
<1>1. ASSUME UNCHANGED <<active, task>> PROVE RunningIsTracked'
  BY <1>1 DEF RunningIsTracked, ActiveIds
<1>2. ASSUME NEW id \in ID, NEW outcome \in Closed, TaskCloses(id, outcome)
      PROVE  RunningIsTracked'
  BY <1>2 DEF TaskCloses, loopVars, Closed, RunningIsTracked, ActiveIds, TypeInv,
     TypeOK
<1>3. CASE ChildStarts
  <2>1. ActiveIds' = ActiveIds \cup {current.id}
    BY <1>3, ActiveIdsAfterStart
  <2> QED BY <1>3, <2>1 DEF ChildStarts, RunningIsTracked, TypeInv, TypeOK
<1>4. ASSUME NEW e \in Event, Finish(e) PROVE RunningIsTracked'
  <2>1. ActiveIds' = ActiveIds \ {e.id}
    BY <1>4, ActiveIdsAfterFinish
  <2> QED BY <1>4, <2>1 DEF Finish, Closed, RunningIsTracked, TypeInv, TypeOK
<1>5. CASE UNCHANGED vars
  BY <1>1, <1>5 DEF vars, loopVars
<1>6. ASSUME NEW e \in Event, Deliver(e) PROVE RunningIsTracked'
  BY <1>1, <1>6 DEF Deliver, loopVars
<1>7. CASE ReportNext \/ ContinueAsNew \/ EnterStartLoop \/ StartNext
           \/ LeaveStartLoop \/ ReportDone \/ ChildRefused \/ SignalDone
  BY <1>1, <1>7 DEF ReportNext, ContinueAsNew, MustContinueAsNew,
     EnterStartLoop, StartNext,
     LeaveStartLoop, ReportDone, ChildRefused, SignalDone
<1>8. ASSUME NEW e \in Event,
             DropDuplicate(e) \/ Drop(e) \/ Enqueue(e) \/ Route(e) \/ Control(e)
      PROVE  RunningIsTracked'
  BY <1>1, <1>8 DEF DropDuplicate, Drop, Enqueue, Route, Control
<1> QED
  BY <1>2, <1>3, <1>4, <1>5, <1>6, <1>7, <1>8 DEF Next, Step, Answer

\* The invariant of the active map holds always.
LEMMA ActiveCorrect == Spec => [](TypeInv /\ ActiveInv)
<1>1. Init => TypeInv /\ ActiveInv
  BY InitType, InitActive
<1>2. TypeInv /\ ActiveInv /\ [Next]_vars => (TypeInv /\ ActiveInv)'
  BY StepType, ShapeStep, OwnersStep, TrackStep DEF ActiveInv
<1> QED BY <1>1, <1>2, PTL DEF Spec

\* No message and no thread is owned by a task the project has finished with.
THEOREM OwnersCorrect == Spec => []OwnersAreActive
<1>1. TypeInv /\ ActiveInv => OwnersAreActive
  BY DEF ActiveInv
<1> QED BY <1>1, ActiveCorrect, PTL

\* Every child the server runs is in the active map.
THEOREM TrackingCorrect == Spec => []RunningIsTracked
<1>1. TypeInv /\ ActiveInv => RunningIsTracked
  BY DEF ActiveInv
<1> QED BY <1>1, ActiveCorrect, PTL

\* No more than MaxActive children run at once.
THEOREM BoundCorrect == Spec => []RunningBounded
<1>1. TypeInv /\ ActiveInv => RunningBounded
  <2> SUFFICES ASSUME TypeInv, ActiveInv PROVE RunningBounded
    OBVIOUS
  <2>1. {id \in ID : task[id] = "running"} \subseteq ActiveIds
    BY DEF ActiveInv, RunningIsTracked
  <2>2. /\ Cardinality({id \in ID : task[id] = "running"}) <= Cardinality(ActiveIds)
        /\ Cardinality({id \in ID : task[id] = "running"}) \in Nat
        /\ Cardinality(ActiveIds) \in Nat
    BY <2>1, FS_Subset, FS_CardinalityType DEF ActiveInv, ActiveShape
  <2> QED BY <2>2 DEF ActiveInv, ActiveShape, RunningBounded
<1> QED BY <1>1, ActiveCorrect, PTL

-----------------------------------------------------------------------------
(* The skip policy of schedules.                                           *)

\* A scheduled event enters the queue only when nothing holds its schedule;
\* the event being started is not in the queue, but no signal is handled then.
LEMMA ScheduleStep ==
  TypeInv /\ OneTaskPerSchedule /\ [Next]_vars => OneTaskPerSchedule'
<1> SUFFICES ASSUME TypeInv, OneTaskPerSchedule, [Next]_vars
             PROVE  OneTaskPerSchedule'
  OBVIOUS
<1>1. ASSUME UNCHANGED <<queue, active>>, pc' # "start"
      PROVE  OneTaskPerSchedule'
  BY <1>1 DEF OneTaskPerSchedule, InStart
<1>2. ASSUME UNCHANGED <<queue, active, pc, current>> PROVE OneTaskPerSchedule'
  BY <1>2 DEF OneTaskPerSchedule, InStart
<1>3. ASSUME NEW e \in Event, Enqueue(e) PROVE OneTaskPerSchedule'
  <2>1. /\ queue \in Seq(Event) /\ queue' = Append(queue, e)
        /\ active' = active /\ pc' = "top" /\ e.kind \in Kind
    BY <1>3 DEF Enqueue, TypeInv, TypeOK
  <2>2. InStart' = {}
    BY <2>1 DEF InStart
  <2>3. e.schedule # None =>
          /\ \A i \in DOMAIN queue : queue[i].schedule # e.schedule
          /\ \A f \in active : f.schedule # e.schedule
    <3>1. e.schedule # None => e.kind = "scheduled"
      BY ScheduleAssumption
    <3>2. e.schedule # None => ~Overlaps(e)
      BY <1>3, <3>1 DEF Enqueue, OpensTask, Routable
    <3> QED BY <3>2 DEF Overlaps, Range
  <2>4. /\ DOMAIN queue' = DOMAIN queue \cup {Len(queue) + 1}
        /\ Len(queue) + 1 \notin DOMAIN queue
        /\ queue'[Len(queue) + 1] = e
        /\ \A i \in DOMAIN queue : queue'[i] = queue[i]
    BY <2>1
  <2>5. \A i, j \in DOMAIN queue' :
          queue'[i].schedule # None /\ queue'[i].schedule = queue'[j].schedule
            => i = j
    BY <2>3, <2>4 DEF OneTaskPerSchedule
  <2>6. \A f \in active', i \in DOMAIN queue' :
          f.schedule # None => f.schedule # queue'[i].schedule
    BY <2>1, <2>3, <2>4 DEF OneTaskPerSchedule
  <2> QED BY <2>1, <2>2, <2>5, <2>6 DEF OneTaskPerSchedule
<1>4. CASE StartNext
  <2>1. /\ queue \in Seq(Event) /\ queue # <<>> /\ queue' = Tail(queue)
        /\ active' = active /\ current' = Head(queue) /\ pc' = "start"
    BY <1>4 DEF StartNext, CanStart, TypeInv, TypeOK
  <2>2. /\ InStart' = {queue[1]} /\ 1 \in DOMAIN queue
        /\ \A i \in DOMAIN queue' : /\ i + 1 \in DOMAIN queue
                                    /\ queue'[i] = queue[i + 1]
                                    /\ i \in Nat \ {0}
    BY <2>1 DEF InStart
  <2>3. \A i, j \in DOMAIN queue' :
          queue'[i].schedule # None /\ queue'[i].schedule = queue'[j].schedule
            => i = j
    <3> SUFFICES ASSUME NEW i \in DOMAIN queue', NEW j \in DOMAIN queue',
                        queue'[i].schedule # None,
                        queue'[i].schedule = queue'[j].schedule
                 PROVE  i = j
      OBVIOUS
    <3>1. i + 1 = j + 1
      BY <2>2 DEF OneTaskPerSchedule
    <3> QED BY <2>2, <3>1
  <2>4. \A f \in active' \cup InStart', i \in DOMAIN queue' :
          f.schedule # None => f.schedule # queue'[i].schedule
    <3>1. \A i \in DOMAIN queue' : i + 1 # 1
      BY <2>2
    <3> QED BY <2>1, <2>2, <3>1 DEF OneTaskPerSchedule
  <2>5. \A f \in active', g \in InStart' :
          f.schedule # None => f.schedule # g.schedule
    BY <2>1, <2>2 DEF OneTaskPerSchedule
  <2> QED BY <2>1, <2>3, <2>4, <2>5 DEF OneTaskPerSchedule
<1>5. CASE ChildStarts
  <2>1. /\ queue' = queue /\ pc' = "fill" /\ InStart = {current}
        /\ active' \subseteq active \cup {current}
    BY <1>5 DEF ChildStarts, InStart
  <2>2. InStart' = {}
    BY <2>1 DEF InStart
  <2> QED BY <2>1, <2>2 DEF OneTaskPerSchedule
<1>6. ASSUME NEW e \in Event, Finish(e) PROVE OneTaskPerSchedule'
  <2>1. /\ queue' = queue /\ pc' = "top" /\ active' \subseteq active
    BY <1>6 DEF Finish
  <2>2. InStart' = {}
    BY <2>1 DEF InStart
  <2> QED BY <2>1, <2>2 DEF OneTaskPerSchedule
<1>7. CASE UNCHANGED vars
  BY <1>2, <1>7 DEF vars, loopVars
<1>8. ASSUME NEW e \in Event, Deliver(e) PROVE OneTaskPerSchedule'
  BY <1>2, <1>8 DEF Deliver, loopVars
<1>9. ASSUME NEW id \in ID, NEW outcome \in Closed, TaskCloses(id, outcome)
      PROVE  OneTaskPerSchedule'
  BY <1>2, <1>9 DEF TaskCloses, loopVars
<1>10. CASE ReportNext \/ ContinueAsNew \/ EnterStartLoop \/ LeaveStartLoop
            \/ ReportDone \/ ChildRefused \/ SignalDone
  BY <1>1, <1>10 DEF ReportNext, ContinueAsNew, MustContinueAsNew,
     EnterStartLoop, LeaveStartLoop,
     ReportDone, ChildRefused, SignalDone
<1>11. ASSUME NEW e \in Event,
              DropDuplicate(e) \/ Drop(e) \/ Route(e) \/ Control(e)
       PROVE  OneTaskPerSchedule'
  BY <1>1, <1>11 DEF DropDuplicate, Drop, Route, Control, IsControl
<1> QED
  BY <1>3, <1>4, <1>5, <1>6, <1>7, <1>8, <1>9, <1>10, <1>11
  DEF Next, Step, Answer

\* At most one event of a schedule is queued, starting or active.
THEOREM ScheduleCorrect == Spec => []OneTaskPerSchedule
<1>1. Init => TypeInv /\ OneTaskPerSchedule
  BY InitType DEF Init, OneTaskPerSchedule, InStart
<1>2. TypeInv /\ OneTaskPerSchedule /\ [Next]_vars
        => (TypeInv /\ OneTaskPerSchedule)'
  BY StepType, ScheduleStep
<1> QED BY <1>1, <1>2, PTL DEF Spec

-----------------------------------------------------------------------------
(***************************************************************************)
(* An event is handled once: the router reports a task at most once,       *)
(* implements EventLedger, and routes an answer to the task of the message *)
(* it answers.                                                             *)
(*                                                                         *)
(* All of it rests on duplicate suppression, so on the window of recent    *)
(* ids: a redelivery whose id the window has forgotten is a new task.  The *)
(* theorems say so with WindowHolds.                                       *)
(***************************************************************************)

\* No more ids are ever delivered than the window remembers
\* (recentProjectEventIDLimit).
WindowHolds == IsFiniteSet(ID) /\ Cardinality(ID) <= RecentLimit

\* Two events have one message id only when they are the same event, or ticks
\* of one schedule (EventFromDispatch makes the schedule id the message id).
OwnMessages ==
  \A e, f \in Event :
    e.message # None /\ e.message = f.message =>
      \/ e.id = f.id
      \/ e.schedule # None /\ e.schedule = f.schedule

-----------------------------------------------------------------------------
(***************************************************************************)
(* The inductive invariant.  A task goes through the queue, the child      *)
(* start, the active map and the pending reports; an id is in one of these *)
(* places at a time, its child execution and its report count say in which *)
(* one, and the window knows every id that ever was in one.                *)
(***************************************************************************)
Fresh(id) == task[id] = "none" /\ reports[id] = 0
Owed(id) == task[id] = "answered" /\ reports[id] = 0

WindowIsWhole ==
  /\ \A i, j \in DOMAIN recent : recent[i] = recent[j] => i = j
  /\ \A id \in ID : task[id] # "none" => id \in Range(recent)
QueueIsFresh ==
  /\ \A i, j \in DOMAIN queue : queue[i].id = queue[j].id => i = j
  /\ \A i \in DOMAIN queue : Fresh(queue[i].id) /\ queue[i].id \in Range(recent)
StartIsFresh ==
  pc = "start" => /\ Fresh(current.id) /\ current.id \in Range(recent)
                  /\ \A i \in DOMAIN queue : queue[i].id # current.id
ActiveIsUnreported ==
  \A e \in active : task[e.id] # "none" /\ reports[e.id] = 0
PendingIsOwed ==
  /\ \A i, j \in DOMAIN pending : pending[i].id = pending[j].id => i = j
  /\ \A i \in DOMAIN pending :
       Owed(pending[i].id) /\ \A e \in active : e.id # pending[i].id
ReportIsOwed ==
  pc = "report" => /\ Owed(current.id) /\ \A e \in active : e.id # current.id
                   /\ \A i \in DOMAIN pending : pending[i].id # current.id

LedgerInv ==
  /\ WindowIsWhole
  /\ QueueIsFresh
  /\ StartIsFresh
  /\ ActiveIsUnreported
  /\ PendingIsOwed
  /\ ReportIsOwed
  /\ ReportedOnce

-----------------------------------------------------------------------------
(* Lemmas about the window.                                                *)

\* A window without duplicates is no longer than the set of ids.
LEMMA WindowLength ==
  ASSUME WindowHolds, NEW s \in Seq(ID),
         \A i, j \in DOMAIN s : s[i] = s[j] => i = j
  PROVE  Len(s) <= RecentLimit
<1>1. Len(s) \in Nat /\ DOMAIN s = 1..Len(s) /\ s \in [1..Len(s) -> ID]
  BY LenProperties
<1>2. s \in Injection(1..Len(s), ID)
  BY <1>1 DEF Injection, IsInjective
<1>3. /\ Cardinality(1..Len(s)) <= Cardinality(ID)
      /\ Cardinality(1..Len(s)) = Len(s)
  <2>1. Cardinality(1..Len(s)) <= Cardinality(ID)
    BY <1>2, FS_Injection DEF WindowHolds
  <2>2. 1 \in Int /\ Len(s) \in Int
    BY <1>1
  <2>3. Cardinality(1..Len(s)) = IF 1 > Len(s) THEN 0 ELSE Len(s) - 1 + 1
    BY <2>2, FS_Interval
  <2> QED BY <1>1, <2>1, <2>3
<1>4. Cardinality(ID) \in Nat
  BY FS_CardinalityType DEF WindowHolds
<1> QED BY <1>1, <1>3, <1>4 DEF WindowHolds

\* Remembering a new id forgets none: the window grows by that id alone.
LEMMA RememberGrows ==
  ASSUME WindowHolds, TypeInv, WindowIsWhole,
         NEW e \in Event, ~Seen(e), Remember(e)
  PROVE  /\ \A i, j \in DOMAIN recent' : recent'[i] = recent'[j] => i = j
         /\ \A id : id \in Range(recent') <=> id \in Range(recent) \/ id = e.id
<1> DEFINE longer == Append(recent, e.id)
<1>1. recent \in Seq(ID) /\ e.id \in ID
  BY DEF TypeInv, TypeOK
<1>2. /\ longer \in Seq(ID) /\ Len(longer) = Len(recent) + 1
      /\ Len(recent) \in Nat
      /\ DOMAIN recent = 1..Len(recent) /\ DOMAIN longer = 1..Len(longer)
      /\ \A i \in 1..Len(recent) : longer[i] = recent[i]
      /\ longer[Len(recent) + 1] = e.id
  BY <1>1, AppendProperties, LenProperties
<1>3. \A i \in DOMAIN recent : recent[i] # e.id
  BY DEF Seen, Range
<1>4. \A i, j \in DOMAIN longer : longer[i] = longer[j] => i = j
  <2> SUFFICES ASSUME NEW i \in DOMAIN longer, NEW j \in DOMAIN longer,
                      longer[i] = longer[j]
               PROVE  i = j
    OBVIOUS
  <2>1. /\ i \in DOMAIN recent \/ i = Len(recent) + 1
        /\ j \in DOMAIN recent \/ j = Len(recent) + 1
    BY <1>2
  <2> QED BY <1>2, <1>3, <2>1 DEF WindowIsWhole
<1>5. Len(longer) <= RecentLimit
  BY <1>2, <1>4, WindowLength
<1>6. recent' = longer
  BY <1>5 DEF Remember, Trim
<1>7. ASSUME NEW id PROVE id \in Range(longer) <=> id \in Range(recent) \/ id = e.id
  <2>1. ASSUME id \in Range(longer) PROVE id \in Range(recent) \/ id = e.id
    <3>1. PICK i \in DOMAIN longer : longer[i] = id
      BY <2>1 DEF Range
    <3> QED BY <1>2, <3>1 DEF Range
  <2>2. ASSUME id \in Range(recent) PROVE id \in Range(longer)
    <3>1. PICK i \in DOMAIN recent : recent[i] = id
      BY <2>2 DEF Range
    <3>2. i \in DOMAIN longer /\ longer[i] = id
      BY <1>2, <3>1
    <3> QED BY <3>2 DEF Range
  <2>3. e.id \in Range(longer)
    <3>1. Len(recent) + 1 \in DOMAIN longer
      BY <1>2
    <3> QED BY <1>2, <3>1 DEF Range
  <2> QED BY <2>1, <2>2, <2>3
<1> QED BY <1>4, <1>6, <1>7

\* A window that holds every id is not trimmed when the run continues as new.
LEMMA TrimKeeps == TypeInv => Trim(recent) = recent
BY DEF Trim, TypeInv, TypeOK

-----------------------------------------------------------------------------
(* Lemmas about the two sequences of events, the queue and the reports.    *)

\* What an appended sequence of events holds.
LEMMA AppendEvent ==
  ASSUME NEW s \in Seq(Event), NEW e \in Event
  PROVE  /\ \A i \in DOMAIN Append(s, e) :
              \/ i \in DOMAIN s /\ Append(s, e)[i] = s[i]
              \/ i = Len(s) + 1 /\ Append(s, e)[i] = e
         /\ Len(s) + 1 \in DOMAIN Append(s, e) /\ Append(s, e)[Len(s) + 1] = e
         /\ \A i \in DOMAIN s : i \in DOMAIN Append(s, e) /\ Append(s, e)[i] = s[i]
<1>1. /\ Len(s) \in Nat /\ DOMAIN s = 1..Len(s)
      /\ Append(s, e) \in Seq(Event) /\ Len(Append(s, e)) = Len(s) + 1
      /\ DOMAIN Append(s, e) = 1..(Len(s) + 1)
      /\ \A i \in 1..Len(s) : Append(s, e)[i] = s[i]
      /\ Append(s, e)[Len(s) + 1] = e
  BY AppendProperties, LenProperties
<1> QED BY <1>1

\* An event with an id of its own keeps the ids distinct.
LEMMA AppendDistinct ==
  ASSUME NEW s \in Seq(Event), NEW e \in Event,
         \A i, j \in DOMAIN s : s[i].id = s[j].id => i = j,
         \A i \in DOMAIN s : s[i].id # e.id
  PROVE  \A i, j \in DOMAIN Append(s, e) :
           Append(s, e)[i].id = Append(s, e)[j].id => i = j
BY AppendEvent

\* The head and the tail share the elements between them.
LEMMA TailEvents ==
  ASSUME NEW s \in Seq(Event), s # <<>>
  PROVE  /\ 1 \in DOMAIN s /\ Head(s) = s[1] /\ Head(s) \in Event
         /\ \A i \in DOMAIN Tail(s) : /\ i + 1 \in DOMAIN s /\ i + 1 # 1
                                      /\ Tail(s)[i] = s[i + 1]
         /\ \A i \in DOMAIN s : i = 1 \/ \E j \in DOMAIN Tail(s) : Tail(s)[j] = s[i]
<1>1. /\ Len(s) \in Nat \ {0} /\ DOMAIN s = 1..Len(s)
      /\ Head(s) = s[1] /\ Head(s) \in Event
      /\ Tail(s) \in Seq(Event) /\ Len(Tail(s)) = Len(s) - 1
      /\ DOMAIN Tail(s) = 1..(Len(s) - 1)
      /\ \A i \in 1..(Len(s) - 1) : Tail(s)[i] = s[i + 1]
  BY HeadTailProperties, LenProperties, EmptySeq
<1>2. ASSUME NEW i \in DOMAIN s, i # 1
      PROVE  \E j \in DOMAIN Tail(s) : Tail(s)[j] = s[i]
  <2>1. i - 1 \in DOMAIN Tail(s) /\ (i - 1) + 1 = i
    BY <1>1, <1>2
  <2> QED BY <1>1, <2>1
<1> QED BY <1>1, <1>2

\* Taking the head keeps the ids distinct and out of the tail.
LEMMA TailDistinct ==
  ASSUME NEW s \in Seq(Event), s # <<>>,
         \A i, j \in DOMAIN s : s[i].id = s[j].id => i = j
  PROVE  /\ \A i, j \in DOMAIN Tail(s) : Tail(s)[i].id = Tail(s)[j].id => i = j
         /\ \A i \in DOMAIN Tail(s) : Tail(s)[i].id # Head(s).id
<1>1. ASSUME NEW i \in DOMAIN Tail(s), NEW j \in DOMAIN Tail(s),
             Tail(s)[i].id = Tail(s)[j].id
      PROVE  i = j
  <2>1. i + 1 = j + 1
    BY <1>1, TailEvents
  <2>2. i \in Nat /\ j \in Nat
    BY HeadTailProperties, LenProperties
  <2> QED BY <2>1, <2>2
<1>2. \A i \in DOMAIN Tail(s) : Tail(s)[i].id # Head(s).id
  BY TailEvents
<1> QED BY <1>1, <1>2

-----------------------------------------------------------------------------
(* The invariant is inductive.                                             *)

\* No id is anywhere at first.
LEMMA InitLedger == Init => LedgerInv
BY DEF Init, LedgerInv, WindowIsWhole, QueueIsFresh, StartIsFresh,
   ActiveIsUnreported, PendingIsOwed, ReportIsOwed, ReportedOnce

\* A step that only remembers the event it received keeps the invariant.
LEMMA ReceiveLedger ==
  ASSUME WindowHolds, TypeInv, LedgerInv, NEW e \in Event, ~Seen(e), Remember(e),
         UNCHANGED <<active, pending, task, reports>>,
         pc' \notin {"start", "report"},
         \/ queue' = queue
         \/ queue' = Append(queue, e)
  PROVE  LedgerInv'
<1>1. /\ \A i, j \in DOMAIN recent' : recent'[i] = recent'[j] => i = j
      /\ \A id : id \in Range(recent') <=> id \in Range(recent) \/ id = e.id
  BY RememberGrows DEF LedgerInv
<1>2. WindowIsWhole'
  BY <1>1 DEF LedgerInv, WindowIsWhole
<1>3. QueueIsFresh'
  <2>1. CASE queue' = queue
    BY <1>1, <2>1 DEF LedgerInv, QueueIsFresh, Fresh
  <2>2. CASE queue' = Append(queue, e)
    <3>1. queue \in Seq(Event) /\ e.id \in ID /\ e.id \notin Range(recent)
      BY DEF TypeInv, TypeOK, Seen
    <3>2. \A i \in DOMAIN queue : queue[i].id # e.id
      BY <3>1 DEF LedgerInv, QueueIsFresh
    <3>3. \A i, j \in DOMAIN queue' : queue'[i].id = queue'[j].id => i = j
      BY <2>2, <3>1, <3>2, AppendDistinct DEF LedgerInv, QueueIsFresh
    <3>4. task[e.id] = "none"
      BY <3>1 DEF LedgerInv, WindowIsWhole
    <3>5. Fresh(e.id)
      <4>1. reports[e.id] \in Nat /\ reports[e.id] <= 1 /\ reports[e.id] # 1
        BY <3>1, <3>4 DEF LedgerInv, ReportedOnce, TypeInv, TypeOK
      <4> QED BY <3>4, <4>1 DEF Fresh
    <3>6. \A i \in DOMAIN queue' : Fresh(queue'[i].id) /\ queue'[i].id \in Range(recent')
      BY <1>1, <2>2, <3>1, <3>5, AppendEvent DEF LedgerInv, QueueIsFresh
    <3> QED BY <3>3, <3>6 DEF QueueIsFresh, Fresh
  <2> QED BY <2>1, <2>2
<1>4. StartIsFresh' /\ ReportIsOwed'
  BY DEF StartIsFresh, ReportIsOwed
<1>5. ActiveIsUnreported' /\ PendingIsOwed' /\ ReportedOnce'
  BY DEF LedgerInv, ActiveIsUnreported, PendingIsOwed, Owed, ReportedOnce
<1> QED BY <1>2, <1>3, <1>4, <1>5 DEF LedgerInv

\* Every step keeps the invariant.
LEMMA LedgerStep ==
  ASSUME WindowHolds
  PROVE  TypeInv /\ ActiveInv /\ LedgerInv /\ [Next]_vars => LedgerInv'
<1> SUFFICES ASSUME TypeInv, ActiveInv, LedgerInv, [Next]_vars PROVE LedgerInv'
  OBVIOUS
<1> USE DEF LedgerInv
<1>1. ASSUME UNCHANGED <<recent, queue, active, pending, task, reports>>,
             pc' \notin {"start", "report"}
      PROVE  LedgerInv'
  BY <1>1 DEF WindowIsWhole, QueueIsFresh, StartIsFresh, ActiveIsUnreported,
     PendingIsOwed, ReportIsOwed, ReportedOnce, Fresh, Owed
<1>2. ASSUME UNCHANGED loopVars, UNCHANGED task PROVE LedgerInv'
  BY <1>2 DEF loopVars, WindowIsWhole, QueueIsFresh, StartIsFresh,
     ActiveIsUnreported, PendingIsOwed, ReportIsOwed, ReportedOnce, Fresh, Owed
<1>3. ASSUME NEW id \in ID, NEW outcome \in Closed, TaskCloses(id, outcome)
      PROVE  LedgerInv'
  <2>1. /\ UNCHANGED loopVars /\ task[id] = "running" /\ outcome # "none"
        /\ task' = [task EXCEPT ![id] = outcome]
        /\ task \in [ID -> TaskState]
    BY <1>3 DEF TaskCloses, Closed, TypeInv, TypeOK
  <2>2. \A i \in ID : (i # id => task'[i] = task[i]) /\ (task'[i] = "none" <=> task[i] = "none")
    BY <2>1
  <2>3. WindowIsWhole'
    BY <2>1, <2>2 DEF loopVars, WindowIsWhole
  <2>4. QueueIsFresh'
    BY <2>1, <2>2 DEF loopVars, QueueIsFresh, Fresh, TypeInv, TypeOK
  <2>5. StartIsFresh'
    BY <2>1, <2>2 DEF loopVars, StartIsFresh, Fresh, TypeInv, CurrentIsSet
  <2>6. ActiveIsUnreported'
    BY <2>1, <2>2 DEF loopVars, ActiveIsUnreported, TypeInv, TypeOK
  <2>7. PendingIsOwed'
    BY <2>1, <2>2 DEF loopVars, PendingIsOwed, Owed, TypeInv, TypeOK
  <2>8. ReportIsOwed'
    BY <2>1, <2>2 DEF loopVars, ReportIsOwed, Owed, TypeInv, CurrentIsSet
  <2>9. ReportedOnce'
    BY <2>1, <2>2 DEF loopVars, ReportedOnce
  <2> QED BY <2>3, <2>4, <2>5, <2>6, <2>7, <2>8, <2>9
<1>4. CASE ReportNext
  <2>1. /\ pending \in Seq(Event) /\ pending # <<>> /\ pending' = Tail(pending)
        /\ current' = Head(pending) /\ pc' = "report"
        /\ UNCHANGED <<recent, queue, active, task, reports>>
    BY <1>4 DEF ReportNext, TypeInv, TypeOK
  <2>2. PendingIsOwed'
    <3>1. \A i, j \in DOMAIN pending' : pending'[i].id = pending'[j].id => i = j
      BY <2>1, TailDistinct DEF PendingIsOwed
    <3>2. \A i \in DOMAIN pending' : \E j \in DOMAIN pending : pending'[i] = pending[j]
      BY <2>1, TailEvents
    <3> QED BY <2>1, <3>1, <3>2 DEF PendingIsOwed, Owed
  <2>3. ReportIsOwed'
    BY <2>1, TailEvents, TailDistinct DEF PendingIsOwed, ReportIsOwed, Owed
  <2> QED BY <2>1, <2>2, <2>3 DEF WindowIsWhole, QueueIsFresh, StartIsFresh,
          ActiveIsUnreported, ReportedOnce, Fresh
<1>5. CASE ReportDone
  <2>1. /\ current \in Event /\ current.id \in ID /\ Owed(current.id)
        /\ reports \in [ID -> Nat]
        /\ reports' = [reports EXCEPT ![current.id] = @ + 1] /\ pc' = "top"
        /\ UNCHANGED <<recent, queue, active, pending, task>>
    BY <1>5 DEF ReportDone, ReportIsOwed, TypeInv, TypeOK, CurrentIsSet
  <2>2. /\ reports'[current.id] = 1 /\ task[current.id] = "answered"
        /\ \A i \in ID : i # current.id => reports'[i] = reports[i]
    BY <2>1 DEF Owed
  <2>3. QueueIsFresh'
    BY <2>1, <2>2 DEF QueueIsFresh, Fresh, TypeInv, TypeOK
  <2>4. ActiveIsUnreported'
    BY <1>5, <2>1, <2>2 DEF ReportDone, ActiveIsUnreported, ReportIsOwed, TypeInv, TypeOK
  <2>5. PendingIsOwed'
    BY <1>5, <2>1, <2>2 DEF ReportDone, PendingIsOwed, ReportIsOwed, Owed, TypeInv, TypeOK
  <2>6. ReportedOnce'
    BY <2>1, <2>2 DEF ReportedOnce
  <2> QED BY <2>1, <2>3, <2>4, <2>5, <2>6 DEF WindowIsWhole, StartIsFresh, ReportIsOwed
<1>6. CASE ContinueAsNew
  <2>1. /\ recent' = recent /\ active' = active /\ pc' = "top"
        /\ UNCHANGED <<queue, pending, task, reports>>
    BY <1>6, TrimKeeps DEF ContinueAsNew, MustContinueAsNew
  <2> QED BY <1>1, <2>1
<1>7. CASE StartNext
  <2>1. /\ queue \in Seq(Event) /\ queue # <<>> /\ queue' = Tail(queue)
        /\ current' = Head(queue) /\ pc' = "start"
        /\ UNCHANGED <<recent, active, pending, task, reports>>
    BY <1>7 DEF StartNext, CanStart, TypeInv, TypeOK
  <2>2. QueueIsFresh'
    <3>1. \A i, j \in DOMAIN queue' : queue'[i].id = queue'[j].id => i = j
      BY <2>1, TailDistinct DEF QueueIsFresh
    <3>2. \A i \in DOMAIN queue' : \E j \in DOMAIN queue : queue'[i] = queue[j]
      BY <2>1, TailEvents
    <3> QED BY <2>1, <3>1, <3>2 DEF QueueIsFresh, Fresh
  <2>3. StartIsFresh'
    BY <2>1, TailEvents, TailDistinct DEF QueueIsFresh, StartIsFresh, Fresh
  <2> QED BY <2>1, <2>2, <2>3 DEF WindowIsWhole, ActiveIsUnreported,
          PendingIsOwed, ReportIsOwed, ReportedOnce, Owed
<1>8. CASE ChildStarts
  <2>1. /\ current \in Event /\ current.id \in ID /\ Fresh(current.id)
        /\ current.id \in Range(recent)
        /\ task \in [ID -> TaskState]
        /\ task' = [task EXCEPT ![current.id] = "running"] /\ pc' = "fill"
        /\ active' = {e \in active : e.id # current.id} \cup {current}
        /\ UNCHANGED <<recent, queue, pending, reports>>
    BY <1>8 DEF ChildStarts, StartIsFresh, TypeInv, TypeOK, CurrentIsSet
  <2>2. /\ task'[current.id] = "running"
        /\ \A i \in ID : i # current.id => task'[i] = task[i]
    BY <2>1
  <2>3. WindowIsWhole'
    BY <2>1, <2>2 DEF WindowIsWhole
  <2>4. QueueIsFresh'
    BY <1>8, <2>1, <2>2 DEF ChildStarts, QueueIsFresh, StartIsFresh, Fresh, TypeInv, TypeOK
  <2>5. ActiveIsUnreported'
    BY <2>1, <2>2 DEF ActiveIsUnreported, Fresh, TypeInv, TypeOK
  <2>6. \A i \in DOMAIN pending : pending[i] \in Event /\ pending[i].id # current.id
    BY <2>1 DEF PendingIsOwed, Owed, Fresh, TypeInv, TypeOK
  <2>7. PendingIsOwed'
    BY <2>1, <2>2, <2>6 DEF PendingIsOwed, Owed
  <2>8. ReportedOnce'
    BY <2>1, <2>2 DEF ReportedOnce, Fresh
  <2> QED BY <2>1, <2>3, <2>4, <2>5, <2>7, <2>8 DEF StartIsFresh, ReportIsOwed
<1>9. CASE ChildRefused
  BY <1>9 DEF ChildRefused, StartIsFresh, Fresh
<1>10. ASSUME NEW e \in Event, Drop(e) \/ Enqueue(e) \/ Route(e) \/ Control(e)
       PROVE  LedgerInv'
  <2>1. /\ ~Seen(e) /\ Remember(e) /\ UNCHANGED <<active, pending, task, reports>>
        /\ pc' \notin {"start", "report"}
        /\ queue' = queue \/ queue' = Append(queue, e)
    BY <1>10 DEF Drop, Enqueue, Route, Control, IsControl
  <2> QED BY <2>1, ReceiveLedger
<1>11. ASSUME NEW e \in Event, Finish(e) PROVE LedgerInv'
  <2>1. /\ e \in active /\ e.id \in ID /\ active' = active \ {e} /\ pc' = "top"
        /\ pending \in Seq(Event)
        /\ pending' = IF task[e.id] = "answered" THEN Append(pending, e) ELSE pending
        /\ UNCHANGED <<recent, queue, task, reports>>
    BY <1>11 DEF Finish, Collected, TypeInv, TypeOK
  <2>2. \A f \in active' : f.id # e.id
    BY <2>1 DEF ActiveInv, ActiveShape
  <2>3. \A i \in DOMAIN pending : pending[i].id # e.id
    BY <2>1 DEF PendingIsOwed
  <2>4. CASE task[e.id] = "answered"
    <3>1. Owed(e.id)
      BY <2>1, <2>4 DEF ActiveIsUnreported, Owed
    <3>2. \A i, j \in DOMAIN pending' : pending'[i].id = pending'[j].id => i = j
      BY <2>1, <2>3, <2>4, AppendDistinct DEF PendingIsOwed
    <3>3. \A i \in DOMAIN pending' :
            Owed(pending'[i].id) /\ \A f \in active' : f.id # pending'[i].id
      BY <2>1, <2>2, <2>4, <3>1, AppendEvent DEF PendingIsOwed
    <3> QED BY <2>1, <3>2, <3>3 DEF WindowIsWhole, QueueIsFresh, StartIsFresh,
            ActiveIsUnreported, PendingIsOwed, ReportIsOwed, ReportedOnce, Fresh, Owed
  <2>5. CASE task[e.id] # "answered"
    BY <2>1, <2>5 DEF WindowIsWhole, QueueIsFresh, StartIsFresh,
       ActiveIsUnreported, PendingIsOwed, ReportIsOwed, ReportedOnce, Fresh, Owed
  <2> QED BY <2>4, <2>5
<1>12. CASE UNCHANGED vars
  BY <1>2, <1>12 DEF vars
<1>13. ASSUME NEW e \in Event, Deliver(e) PROVE LedgerInv'
  BY <1>2, <1>13 DEF Deliver
<1>14. CASE EnterStartLoop \/ LeaveStartLoop \/ SignalDone
  BY <1>1, <1>14 DEF EnterStartLoop, LeaveStartLoop, SignalDone
<1>15. ASSUME NEW e \in Event, DropDuplicate(e) PROVE LedgerInv'
  BY <1>1, <1>15 DEF DropDuplicate
<1> QED
  BY <1>3, <1>4, <1>5, <1>6, <1>7, <1>8, <1>9, <1>10, <1>11, <1>12, <1>13,
     <1>14, <1>15
  DEF Next, Step, Answer

\* The invariant holds always, beside those of the active map.
LEMMA LedgerCorrect ==
  ASSUME WindowHolds
  PROVE  Spec => [](TypeInv /\ ActiveInv /\ LedgerInv)
<1>1. Init => TypeInv /\ ActiveInv /\ LedgerInv
  BY InitType, InitActive, InitLedger
<1>2. TypeInv /\ ActiveInv /\ LedgerInv /\ [Next]_vars
        => (TypeInv /\ ActiveInv /\ LedgerInv)'
  BY StepType, ShapeStep, OwnersStep, TrackStep, LedgerStep DEF ActiveInv
<1> QED BY <1>1, <1>2, PTL DEF Spec

\* A task is reported at most once, and only when it closed with an answer,
\* whatever is redelivered, as long as the window holds every id.
THEOREM ReportsCorrect == WindowHolds => (Spec => []ReportedOnce)
<1> SUFFICES ASSUME WindowHolds PROVE Spec => []ReportedOnce
  OBVIOUS
<1>1. LedgerInv => ReportedOnce
  BY DEF LedgerInv
<1> QED BY <1>1, LedgerCorrect, PTL

-----------------------------------------------------------------------------
(* An answer goes to the task of the message it answers.                   *)

\* Every step keeps the active tasks the owners of the messages that opened
\* them: only a task with the same message id could take one over, and such a
\* task is either the same one or a tick that the skip policy keeps out.
LEMMA OpenerStep ==
  ASSUME WindowHolds, OwnMessages
  PROVE  TypeInv /\ ActiveInv /\ LedgerInv /\ OneTaskPerSchedule /\ OpenerIsOwned
           /\ [Next]_vars => OpenerIsOwned'
<1> SUFFICES ASSUME TypeInv, ActiveInv, LedgerInv, OneTaskPerSchedule,
                    OpenerIsOwned, [Next]_vars
             PROVE  OpenerIsOwned'
  OBVIOUS
<1>1. ASSUME UNCHANGED <<active, messageOwner>> PROVE OpenerIsOwned'
  BY <1>1 DEF OpenerIsOwned
<1>2. CASE ContinueAsNew
  BY <1>2 DEF ContinueAsNew, OpenerIsOwned
<1>3. CASE ChildStarts
  <2>1. /\ current \in Event /\ pc = "start" /\ active \subseteq Event
        /\ messageOwner \in [MessageID -> ID \cup {None}]
        /\ messageOwner' = IF current.message = None THEN messageOwner
                           ELSE [messageOwner EXCEPT ![current.message] = current.id]
        /\ active' = {e \in active : e.id # current.id} \cup {current}
    BY <1>3 DEF ChildStarts, Register, TypeInv, TypeOK, CurrentIsSet
  <2>2. \A e \in active : e.message # None => e.message # current.message
    <3> SUFFICES ASSUME NEW e \in active, e.message # None,
                        e.message = current.message
                 PROVE  FALSE
      OBVIOUS
    <3>1. e.id # current.id
      BY <2>1 DEF LedgerInv, StartIsFresh, Fresh, ActiveIsUnreported
    <3>2. ~(e.schedule # None /\ e.schedule = current.schedule)
      BY <2>1 DEF OneTaskPerSchedule, InStart
    <3> QED BY <2>1, <3>1, <3>2 DEF OwnMessages
  <2>3. ASSUME NEW e \in active', e.message # None
        PROVE  messageOwner'[e.message] = e.id
    <3>1. e \in Event /\ e.message \in MessageID
      BY <2>1, <2>3
    <3>2. CASE e = current
      BY <2>1, <2>3, <3>1, <3>2
    <3>3. CASE e # current
      BY <2>1, <2>2, <2>3, <3>1, <3>3 DEF OpenerIsOwned
    <3> QED BY <3>2, <3>3
  <2> QED BY <2>3 DEF OpenerIsOwned
<1>4. ASSUME NEW e \in Event, Route(e) PROVE OpenerIsOwned'
  <2>1. /\ ~Seen(e) /\ Routable(e) /\ active' = active /\ active \subseteq Event
        /\ messageOwner \in [MessageID -> ID \cup {None}]
        /\ messageOwner' = IF e.message = None THEN messageOwner
                           ELSE [messageOwner EXCEPT ![e.message] = Owner(e)]
    BY <1>4 DEF Route, Register, TypeInv, TypeOK
  <2>2. \A f \in active : f.message # None => f.message # e.message
    <3> SUFFICES ASSUME NEW f \in active, f.message # None, f.message = e.message
                 PROVE  FALSE
      OBVIOUS
    <3>1. f \in Event /\ f.id \in ID /\ f.id \in Range(recent)
      BY <2>1 DEF LedgerInv, ActiveIsUnreported, WindowIsWhole
    <3>2. f.id # e.id
      BY <2>1, <3>1 DEF Seen
    <3>3. e.schedule = None
      BY <2>1, ScheduleAssumption DEF Routable
    <3> QED BY <3>1, <3>2, <3>3 DEF OwnMessages
  <2>3. \A f \in active : f.message # None => f.message \in MessageID
    BY <2>1
  <2> QED BY <2>1, <2>2, <2>3 DEF OpenerIsOwned
<1>5. ASSUME NEW e \in Event, Finish(e) PROVE OpenerIsOwned'
  <2>1. /\ e \in active /\ active' = active \ {e} /\ active \subseteq Event
        /\ messageOwner' = [m \in MessageID |->
                              IF messageOwner[m] = e.id THEN None ELSE messageOwner[m]]
    BY <1>5 DEF Finish, Release, TypeInv, TypeOK
  <2>2. \A f \in active' : f.id # e.id
    BY <2>1 DEF ActiveInv, ActiveShape
  <2>3. \A f \in active : f.message # None => f.message \in MessageID
    BY <2>1
  <2> QED BY <2>1, <2>2, <2>3 DEF OpenerIsOwned
<1>6. CASE UNCHANGED vars
  BY <1>1, <1>6 DEF vars, loopVars
<1>7. ASSUME NEW e \in Event, Deliver(e) PROVE OpenerIsOwned'
  BY <1>1, <1>7 DEF Deliver, loopVars
<1>8. ASSUME NEW id \in ID, NEW outcome \in Closed, TaskCloses(id, outcome)
      PROVE  OpenerIsOwned'
  BY <1>1, <1>8 DEF TaskCloses, loopVars
<1>9. CASE ReportNext \/ EnterStartLoop \/ StartNext \/ LeaveStartLoop
           \/ ReportDone \/ ChildRefused \/ SignalDone
  BY <1>1, <1>9 DEF ReportNext, EnterStartLoop, StartNext, LeaveStartLoop,
     ReportDone, ChildRefused, SignalDone
<1>10. ASSUME NEW e \in Event,
              DropDuplicate(e) \/ Drop(e) \/ Enqueue(e) \/ Control(e)
       PROVE  OpenerIsOwned'
  BY <1>1, <1>10 DEF DropDuplicate, Drop, Enqueue, Control
<1> QED
  BY <1>2, <1>3, <1>4, <1>5, <1>6, <1>7, <1>8, <1>9, <1>10 DEF Next, Step, Answer

\* While a task is active, a reply to the message that opened it is routed to
\* it, whatever replies, takeovers of its thread and completions come between.
THEOREM OpenerCorrect ==
  WindowHolds /\ OwnMessages => (Spec => []OpenerIsOwned)
<1> SUFFICES ASSUME WindowHolds, OwnMessages PROVE Spec => []OpenerIsOwned
  OBVIOUS
<1> DEFINE All == /\ TypeInv /\ ActiveInv /\ LedgerInv /\ OneTaskPerSchedule
                  /\ OpenerIsOwned
<1>1. Init => All
  <2>1. Init => OneTaskPerSchedule /\ OpenerIsOwned
    BY DEF Init, OneTaskPerSchedule, InStart, OpenerIsOwned
  <2> QED BY <2>1, InitType, InitActive, InitLedger
<1>2. All /\ [Next]_vars => All'
  BY StepType, ShapeStep, OwnersStep, TrackStep, LedgerStep, ScheduleStep,
     OpenerStep DEF ActiveInv
<1>3. All => OpenerIsOwned
  OBVIOUS
<1> QED BY <1>1, <1>2, <1>3, PTL DEF Spec

-----------------------------------------------------------------------------
(* The router implements EventLedger.                                      *)

\* The status of an id depends on four facts about it.
LEMMA StatusFrame ==
  ASSUME NEW id, IsQueued(id)' <=> IsQueued(id), task'[id] = task[id],
         reports'[id] = reports[id],
         id \in Range(recent') <=> id \in Range(recent)
  PROVE  StatusOf(id)' = StatusOf(id)
BY DEF StatusOf

\* An id is queued when the queue or the child start in flight holds it.
LEMMA QueuedIds ==
  ASSUME NEW id
  PROVE  IsQueued(id) <=> \/ \E i \in DOMAIN queue : queue[i].id = id
                          \/ pc = "start" /\ current.id = id
BY DEF IsQueued, Range

\* The status of a queued id, and of one that is not.
LEMMA StatusValues ==
  ASSUME NEW id, task[id] \in TaskState, reports[id] \in Nat
  PROVE  /\ IsQueued(id) => StatusOf(id) = "queued"
         /\ ~IsQueued(id) =>
              /\ task[id] = "running" => StatusOf(id) = "running"
              /\ task[id] = "answered" /\ reports[id] = 0 => StatusOf(id) = "owed"
              /\ task[id] = "answered" /\ reports[id] > 0 => StatusOf(id) = "settled"
              /\ task[id] = "silent" => StatusOf(id) = "settled"
              /\ task[id] = "none" /\ id \in Range(recent) => StatusOf(id) = "absorbed"
              /\ task[id] = "none" /\ id \notin Range(recent) => StatusOf(id) = "unseen"
BY DEF StatusOf, TaskState

\* An event received for the first time was unseen and becomes queued or
\* absorbed; no other id moves.
LEMMA ReceiveStatus ==
  ASSUME WindowHolds, TypeInv, LedgerInv, NEW e \in Event, ~Seen(e), Remember(e),
         UNCHANGED <<task, reports>>, pc # "start", pc' # "start",
         queue' = queue \/ queue' = Append(queue, e)
  PROVE  /\ StatusOf(e.id) = "unseen"
         /\ StatusOf(e.id)' \in {"queued", "absorbed"}
         /\ \A id \in ID \ {e.id} : StatusOf(id)' = StatusOf(id)
<1>1. /\ e.id \in ID /\ queue \in Seq(Event) /\ task[e.id] \in TaskState
      /\ reports[e.id] \in Nat
  BY DEF TypeInv, TypeOK
<1>2. \A id : id \in Range(recent') <=> id \in Range(recent) \/ id = e.id
  BY RememberGrows DEF LedgerInv
<1>3. task[e.id] = "none" /\ e.id \notin Range(recent)
  BY <1>1 DEF Seen, LedgerInv, WindowIsWhole
<1>4. StatusOf(e.id) = "unseen"
  <2>1. ~IsQueued(e.id)
    BY <1>3, QueuedIds DEF LedgerInv, QueueIsFresh
  <2> QED BY <1>1, <1>3, <2>1, StatusValues
<1>5. StatusOf(e.id)' \in {"queued", "absorbed"}
  BY <1>2, <1>3 DEF StatusOf
<1>6. ASSUME NEW id \in ID, id # e.id PROVE StatusOf(id)' = StatusOf(id)
  <2>1. (\E i \in DOMAIN queue' : queue'[i].id = id)
          <=> (\E i \in DOMAIN queue : queue[i].id = id)
    <3>1. CASE queue' = queue
      BY <3>1
    <3>2. CASE queue' = Append(queue, e)
      BY <1>1, <1>6, <3>2, AppendEvent
    <3> QED BY <3>1, <3>2
  <2>2. IsQueued(id)' <=> IsQueued(id)
    BY <2>1 DEF IsQueued, Range
  <2> QED BY <1>2, <1>6, <2>2, StatusFrame
<1> QED BY <1>4, <1>5, <1>6

\* The status function after a step that moves one id.
LEMMA OneMoves ==
  ASSUME NEW x \in ID, NEW to, StatusOf(x)' = to,
         \A id \in ID \ {x} : StatusOf(id)' = StatusOf(id)
  PROVE  [id \in ID |-> StatusOf(id)]'
           = [[id \in ID |-> StatusOf(id)] EXCEPT ![x] = to]
OBVIOUS

\* Every step of the router is a step of the ledger, or moves no event.
LEMMA LedgerRefined ==
  ASSUME WindowHolds
  PROVE  TypeInv /\ ActiveInv /\ LedgerInv /\ [Next]_vars
           => [Ledger!Next]_[id \in ID |-> StatusOf(id)]
<1> DEFINE status == [id \in ID |-> StatusOf(id)]
<1> SUFFICES ASSUME TypeInv, ActiveInv, LedgerInv, [Next]_vars
             PROVE  Ledger!Next \/ status' = status
  OBVIOUS
<1>1. ASSUME NEW id \in ID PROVE task[id] \in TaskState /\ reports[id] \in Nat
  BY <1>1 DEF TypeInv, TypeOK
<1>2. ASSUME \A id \in ID : StatusOf(id)' = StatusOf(id)
      PROVE  status' = status
  BY <1>2
<1>3. ASSUME UNCHANGED <<queue, recent, task, reports>>,
             pc # "start", pc' # "start"
      PROVE  status' = status
  <2>1. \A id \in ID : IsQueued(id)' <=> IsQueued(id)
    BY <1>3 DEF IsQueued
  <2>2. \A id \in ID : StatusOf(id)' = StatusOf(id)
    BY <1>3, <2>1, StatusFrame
  <2> QED BY <1>2, <2>2
<1>4. ASSUME UNCHANGED loopVars, UNCHANGED task PROVE status' = status
  BY <1>4 DEF loopVars, StatusOf, IsQueued
<1>5. ASSUME NEW id \in ID, NEW outcome \in Closed, TaskCloses(id, outcome)
      PROVE  Ledger!Next
  <2>1. /\ task[id] = "running" /\ outcome \in {"answered", "silent"}
        /\ task \in [ID -> TaskState] /\ task' = [task EXCEPT ![id] = outcome]
        /\ UNCHANGED loopVars
    BY <1>5 DEF TaskCloses, Closed, TypeInv, TypeOK
  <2>2. ~IsQueued(id) /\ (IsQueued(id)' <=> IsQueued(id))
    <3>1. ~IsQueued(id)
      BY <2>1, QueuedIds DEF LedgerInv, QueueIsFresh, StartIsFresh, Fresh
    <3> QED BY <2>1, <3>1 DEF loopVars, IsQueued
  <2>3. StatusOf(id) = "running"
    BY <1>1, <2>1, <2>2, StatusValues
  <2>4. reports[id] = 0
    <3>1. reports[id] \in Nat /\ reports[id] <= 1 /\ reports[id] # 1
      BY <1>1, <2>1 DEF LedgerInv, ReportedOnce
    <3> QED BY <3>1
  <2>5. StatusOf(id)' \in {"owed", "settled"}
    BY <2>1, <2>2, <2>4 DEF StatusOf, loopVars
  <2>6. \A i \in ID \ {id} : StatusOf(i)' = StatusOf(i)
    <3> SUFFICES ASSUME NEW i \in ID, i # id PROVE StatusOf(i)' = StatusOf(i)
      OBVIOUS
    <3>1. (IsQueued(i)' <=> IsQueued(i)) /\ task'[i] = task[i] /\ reports' = reports
          /\ recent' = recent
      BY <2>1 DEF IsQueued, loopVars
    <3> QED BY <3>1, StatusFrame
  <2>7. \/ Ledger!Move(id, "running", "owed")
        \/ Ledger!Move(id, "running", "settled")
    BY <2>3, <2>5, <2>6, OneMoves DEF Ledger!Move
  <2> QED BY <2>7 DEF Ledger!Next, Ledger!Close
<1>6. ASSUME NEW e \in Event, Drop(e) \/ Enqueue(e) \/ Route(e) \/ Control(e)
      PROVE  Ledger!Next
  <2>1. /\ ~Seen(e) /\ Remember(e) /\ UNCHANGED <<task, reports>>
        /\ pc # "start" /\ pc' # "start"
        /\ queue' = queue \/ queue' = Append(queue, e)
    BY <1>6 DEF Drop, Enqueue, Route, Control, IsControl, Receive
  <2>2. /\ StatusOf(e.id) = "unseen"
        /\ StatusOf(e.id)' \in {"queued", "absorbed"}
        /\ \A id \in ID \ {e.id} : StatusOf(id)' = StatusOf(id)
    BY <2>1, ReceiveStatus
  <2>3. e.id \in ID
    OBVIOUS
  <2>4. \/ Ledger!Move(e.id, "unseen", "queued")
        \/ Ledger!Move(e.id, "unseen", "absorbed")
    BY <2>2, <2>3, OneMoves DEF Ledger!Move
  <2> QED BY <2>3, <2>4 DEF Ledger!Next, Ledger!Accept
<1>7. CASE StartNext
  <2>1. /\ queue \in Seq(Event) /\ queue # <<>> /\ queue' = Tail(queue)
        /\ current' = Head(queue) /\ pc = "fill" /\ pc' = "start"
        /\ UNCHANGED <<recent, task, reports>>
    BY <1>7 DEF StartNext, CanStart, TypeInv, TypeOK
  <2>2. ASSUME NEW id \in ID PROVE IsQueued(id)' <=> IsQueued(id)
    <3>1. (\E i \in DOMAIN queue : queue[i].id = id)
            <=> \/ \E i \in DOMAIN queue' : queue'[i].id = id
                \/ current'.id = id
      <4>1. /\ 1 \in DOMAIN queue /\ current' = queue[1]
            /\ \A i \in DOMAIN queue' : i + 1 \in DOMAIN queue /\ queue'[i] = queue[i + 1]
            /\ \A i \in DOMAIN queue : i = 1 \/ \E j \in DOMAIN queue' : queue'[j] = queue[i]
        BY <2>1, TailEvents
      <4> QED BY <4>1
    <3> QED BY <2>1, <3>1 DEF IsQueued, Range
  <2>3. \A id \in ID : StatusOf(id)' = StatusOf(id)
    BY <2>1, <2>2, StatusFrame
  <2> QED BY <1>2, <2>3
<1>8. CASE ChildStarts
  <2>0. PICK x \in ID : x = current.id
    BY <1>8 DEF ChildStarts, TypeInv, CurrentIsSet
  <2>1. /\ x \in ID /\ pc = "start" /\ pc' = "fill" /\ task[x] = "none"
        /\ \A i \in DOMAIN queue : queue[i].id # x
        /\ task \in [ID -> TaskState] /\ task' = [task EXCEPT ![x] = "running"]
        /\ UNCHANGED <<queue, recent, reports>>
    BY <1>8, <2>0 DEF ChildStarts, LedgerInv, StartIsFresh, Fresh, TypeInv, TypeOK,
       CurrentIsSet
  <2>2. IsQueued(x) /\ ~IsQueued(x)'
    BY <2>0, <2>1 DEF IsQueued, Range
  <2>3. StatusOf(x) = "queued" /\ StatusOf(x)' = "running"
    BY <2>1, <2>2 DEF StatusOf
  <2>4. \A i \in ID \ {x} : StatusOf(i)' = StatusOf(i)
    <3> SUFFICES ASSUME NEW i \in ID, i # x PROVE StatusOf(i)' = StatusOf(i)
      OBVIOUS
    <3>1. /\ IsQueued(i)' <=> IsQueued(i)
          /\ task'[i] = task[i] /\ reports' = reports /\ recent' = recent
      BY <2>0, <2>1 DEF IsQueued
    <3> QED BY <3>1, StatusFrame
  <2>5. Cardinality({i \in ID : status[i] = "running"}) < MaxActive
    <3>1. {i \in ID : status[i] = "running"} \subseteq ActiveIds
      <4> SUFFICES ASSUME NEW i \in ID, StatusOf(i) = "running" PROVE i \in ActiveIds
        OBVIOUS
      <4>1. task[i] = "running"
        BY DEF StatusOf
      <4> QED BY <4>1 DEF ActiveInv, RunningIsTracked
    <3>2. /\ Cardinality({i \in ID : status[i] = "running"}) <= Cardinality(ActiveIds)
          /\ Cardinality({i \in ID : status[i] = "running"}) \in Nat
          /\ Cardinality(ActiveIds) \in Nat /\ Cardinality(ActiveIds) < MaxActive
      BY <2>1, <3>1, FS_Subset, FS_CardinalityType DEF ActiveInv, ActiveShape
    <3> HIDE DEF status
    <3> QED BY <3>2
  <2>6. Ledger!Start(x)
    <3>1. Ledger!Move(x, "queued", "running")
      BY <2>1, <2>3, <2>4, OneMoves DEF Ledger!Move
    <3>2. Ledger!Cardinality({i \in ID : status[i] = "running"}) < MaxActive
      BY <2>5 DEF Ledger!Cardinality, Cardinality
    <3> QED BY <3>1, <3>2 DEF Ledger!Start
  <2> QED BY <2>1, <2>6 DEF Ledger!Next
<1>9. CASE ChildRefused
  BY <1>9 DEF ChildRefused, LedgerInv, StartIsFresh, Fresh
<1>10. CASE ReportDone
  <2>0. PICK x \in ID : x = current.id
    BY <1>10 DEF ReportDone, TypeInv, CurrentIsSet
  <2>1. /\ x \in ID /\ pc = "report" /\ pc' = "top"
        /\ task[x] = "answered" /\ reports[x] = 0
        /\ reports \in [ID -> Nat] /\ reports' = [reports EXCEPT ![x] = @ + 1]
        /\ UNCHANGED <<queue, recent, task>>
    BY <1>10, <2>0 DEF ReportDone, LedgerInv, ReportIsOwed, Owed, TypeInv, TypeOK,
       CurrentIsSet
  <2>2. \A i \in ID : IsQueued(i)' <=> IsQueued(i)
    BY <2>1 DEF IsQueued
  <2>3. ~IsQueued(x)
    BY <2>1, QueuedIds DEF LedgerInv, QueueIsFresh, Fresh
  <2>4. StatusOf(x) = "owed"
    BY <1>1, <2>1, <2>3, StatusValues
  <2>5. StatusOf(x)' = "settled"
    <3>1. reports'[x] = 1 /\ task'[x] = "answered" /\ ~IsQueued(x)'
      BY <2>1, <2>2, <2>3
    <3> QED BY <3>1 DEF StatusOf
  <2>6. \A i \in ID \ {x} : StatusOf(i)' = StatusOf(i)
    BY <2>1, <2>2, StatusFrame
  <2>7. Ledger!Report(x)
    BY <2>1, <2>4, <2>5, <2>6, OneMoves DEF Ledger!Report, Ledger!Move
  <2> QED BY <2>1, <2>7 DEF Ledger!Next
<1>11. CASE ContinueAsNew
  BY <1>3, <1>11, TrimKeeps DEF ContinueAsNew
<1>12. CASE ReportNext \/ EnterStartLoop \/ LeaveStartLoop \/ SignalDone
  BY <1>3, <1>12 DEF ReportNext, EnterStartLoop, LeaveStartLoop, SignalDone
<1>13. ASSUME NEW e \in Event, DropDuplicate(e) \/ Finish(e) PROVE status' = status
  BY <1>3, <1>13 DEF DropDuplicate, Finish, Receive
<1>14. CASE UNCHANGED vars
  BY <1>4, <1>14 DEF vars
<1>15. ASSUME NEW e \in Event, Deliver(e) PROVE status' = status
  BY <1>4, <1>15 DEF Deliver
<1> HIDE DEF status
<1> QED
  BY <1>5, <1>6, <1>7, <1>8, <1>9, <1>10, <1>11, <1>12, <1>13, <1>14, <1>15
  DEF Next, Step, Answer

\* The router implements EventLedger: an event is accepted once, run at most
\* once, at most MaxActive run at a time, and an event that has an answer is
\* settled only when the answer was reported.
THEOREM LedgerImplemented == WindowHolds => (Spec => LedgerSpec)
<1> SUFFICES ASSUME WindowHolds PROVE Spec => LedgerSpec
  OBVIOUS
<1>1. Init => Ledger!Init
  BY DEF Init, Ledger!Init, StatusOf, IsQueued, Range
<1>2. TypeInv /\ ActiveInv /\ LedgerInv /\ [Next]_vars
        => [Ledger!Next]_[id \in ID |-> StatusOf(id)]
  BY LedgerRefined
<1> QED BY <1>1, <1>2, LedgerCorrect, PTL DEF Spec, LedgerSpec, Ledger!Spec

=============================================================================
