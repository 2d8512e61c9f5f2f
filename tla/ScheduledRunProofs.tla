-------------------------- MODULE ScheduledRunProofs --------------------------
(***************************************************************************)
(* Proofs about ScheduledRun: for any operators and runs, any edits, any   *)
(* faults, and any number of directories kept.                             *)
(***************************************************************************)
EXTENDS ScheduledRun, SequenceTheorems, WellFoundedInduction, TLAPS

USE EditAssumption, CallerAssumption, VersionAssumption, KeepLastAssumption,
    AttemptAssumption, NoneAssumption
    DEF Caller

-----------------------------------------------------------------------------
(* Lemmas about the operators.                                             *)

\* A set of numbers that is not empty has a least element.
LEMMA LeastNumber ==
  ASSUME NEW S \in SUBSET Nat, S # {}
  PROVE  \E n \in S : \A m \in S : n <= m
<1>1. PICK n \in S : \A m \in S : <<m, n>> \notin OpToRel(<, Nat)
  BY NatLessThanWellFounded, WFMin
<1>2. \A m \in S : ~(m < n)
  BY <1>1 DEF OpToRel
<1> QED BY <1>2

\* What Kept keeps comes from the sequence, from no earlier a place.
LEMMA KeptElements ==
  ASSUME NEW S, NEW s \in Seq(S), NEW T
  PROVE  /\ Kept(s, T) \in Seq(S)
         /\ \A j \in DOMAIN Kept(s, T) :
              \E i \in DOMAIN s : i >= j /\ Kept(s, T)[j] = s[i] /\ s[i] \in T
<1> DEFINE Grow(f, n) == IF s[n] \in T THEN Append(f[n - 1], s[n]) ELSE f[n - 1]
           Body(f) == [n \in 0..Len(s) |-> IF n = 0 THEN <<>> ELSE Grow(f, n)]
           Good(k, n) == /\ k \in Seq(S) /\ Len(k) <= n
                         /\ \A j \in 1..Len(k) :
                              \E i \in 1..n : i >= j /\ k[j] = s[i] /\ s[i] \in T
           Part(n, f) == /\ f \in [0..n -> Seq(S)] /\ f[0] = <<>>
                         /\ \A i \in 1..n : f[i] = Grow(f, i)
                         /\ \A i \in 0..n : Good(f[i], i)
           Bad == {n \in 0..Len(s) : ~\E f : Part(n, f)}
           kept == CHOOSE f : f = Body(f)
<1>0. Len(s) \in Nat /\ \A i \in 1..Len(s) : s[i] \in S
  BY LenProperties
<1>1. Kept(s, T) = kept[Len(s)]
  BY DEF Kept
<1>2. 0 \notin Bad
  <2> DEFINE g == [i \in 0..0 |-> <<>>]
  <2>1. g \in [0..0 -> Seq(S)] /\ g[0] = <<>> /\ g[0] \in Seq(S) /\ Len(g[0]) = 0
    BY EmptySeq
  <2>2. 0..0 = {0} /\ 1..0 = {}
    OBVIOUS
  <2> HIDE DEF g
  <2>3. Part(0, g)
    BY <2>1, <2>2
  <2> QED BY <2>3
<1>3. ASSUME NEW n \in 1..Len(s), NEW f, Part(n - 1, f) PROVE \E g : Part(n, g)
  <2> DEFINE g == [i \in 0..n |-> IF i = n THEN Grow(f, n) ELSE f[i]]
  <2>1. n \in Nat /\ n - 1 \in 0..(n - 1) /\ n - 1 >= 0 /\ n # 0
    BY <1>0
  <2>2. f[n - 1] \in Seq(S) /\ Good(f[n - 1], n - 1)
    BY <1>3, <2>1
  <2>3. Good(Grow(f, n), n)
    <3>1. CASE s[n] \in T
      <4> DEFINE k == f[n - 1]
      <4>1. /\ Append(k, s[n]) \in Seq(S) /\ Len(Append(k, s[n])) = Len(k) + 1
            /\ Len(k) \in Nat
            /\ \A j \in 1..Len(k) : Append(k, s[n])[j] = k[j]
            /\ Append(k, s[n])[Len(k) + 1] = s[n]
        BY <1>0, <2>2, AppendProperties, LenProperties
      <4>2. Len(k) <= n - 1 /\ \A j \in 1..Len(k) :
              \E i \in 1..(n - 1) : i >= j /\ k[j] = s[i] /\ s[i] \in T
        BY <2>2
      <4>3. Len(k) + 1 <= n
        BY <2>1, <4>1, <4>2
      <4> HIDE DEF k
      <4>4. ASSUME NEW j \in 1..(Len(k) + 1)
            PROVE  \E i \in 1..n : i >= j /\ Append(k, s[n])[j] = s[i] /\ s[i] \in T
        <5>1. CASE j = Len(k) + 1
          BY <2>1, <3>1, <4>1, <4>3, <5>1
        <5>2. CASE j \in 1..Len(k)
          <6>1. PICK i \in 1..(n - 1) : i >= j /\ k[j] = s[i] /\ s[i] \in T
            BY <4>2, <5>2
          <6> QED BY <2>1, <4>1, <5>2, <6>1
        <5> QED BY <4>1, <5>1, <5>2
      <4>5. Good(Append(k, s[n]), n)
        BY <4>1, <4>3, <4>4
      <4> QED BY <3>1, <4>5 DEF k
    <3>2. CASE s[n] \notin T
      BY <2>1, <2>2, <3>2
    <3> QED BY <3>1, <3>2
  <2>4. g \in [0..n -> Seq(S)]
    <3>1. \A i \in 0..n : i = n \/ i \in 0..(n - 1)
      BY <2>1
    <3> HIDE DEF Grow
    <3> QED BY <1>3, <2>3, <3>1
  <2>5. \A i \in 0..(n - 1) : g[i] = f[i] /\ Good(g[i], i)
    BY <1>3, <2>1
  <2>6. g[n] = Grow(f, n) /\ g[n - 1] = f[n - 1]
    BY <2>1
  <2>7. \A i \in 1..n : (i = n \/ i \in 1..(n - 1)) /\ i - 1 \in 0..(n - 1)
    BY <2>1
  <2> HIDE DEF g
  <2>8. \A i \in 1..n : g[i] = Grow(g, i)
    <3>1. Grow(g, n) = Grow(f, n)
      BY <2>6
    <3>2. ASSUME NEW i \in 1..(n - 1) PROVE g[i] = Grow(g, i)
      <4>1. i \in 0..(n - 1) /\ i - 1 \in 0..(n - 1)
        BY <2>1
      <4>2. g[i] = f[i] /\ g[i - 1] = f[i - 1]
        BY <2>5, <4>1
      <4>3. f[i] = Grow(f, i)
        BY <1>3
      <4> QED BY <4>2, <4>3
    <3> HIDE DEF Grow
    <3> QED BY <2>6, <2>7, <3>1, <3>2
  <2>9. \A i \in 0..n : Good(g[i], i)
    <3>1. \A i \in 0..n : i = n \/ i \in 0..(n - 1)
      BY <2>1
    <3> HIDE DEF Good
    <3> QED BY <2>3, <2>5, <2>6, <3>1
  <2>10. g[0] = <<>>
    BY <1>3, <2>1, <2>5
  <2> HIDE DEF Grow, Good
  <2> QED BY <2>4, <2>8, <2>9, <2>10
<1>4. Bad = {}
  <2> SUFFICES ASSUME Bad # {} PROVE FALSE
    OBVIOUS
  <2>0. Bad \in SUBSET Nat
    BY <1>0
  <2>1. PICK n \in Bad : \A m \in Bad : n <= m
    <3> HIDE DEF Bad
    <3> QED BY <2>0, LeastNumber
  <2> HIDE DEF Part
  <2>2. n \in 1..Len(s) /\ n - 1 \in 0..Len(s) /\ n - 1 \notin Bad
    <3>1. n \in 0..Len(s) /\ n # 0
      BY <1>2, <2>1
    <3> HIDE DEF Bad
    <3> QED BY <1>0, <2>1, <3>1
  <2> QED BY <1>3, <2>1, <2>2
<1>5. PICK f : Part(Len(s), f)
  <2> HIDE DEF Part
  <2> QED BY <1>0, <1>4
<1>6. f = Body(f)
  <2>1. \A n \in 0..Len(s) : f[n] = IF n = 0 THEN <<>> ELSE Grow(f, n)
    <3>1. \A n \in 0..Len(s) : n = 0 \/ n \in 1..Len(s)
      BY <1>0
    <3> HIDE DEF Grow, Good
    <3> QED BY <1>5, <3>1
  <2>2. f \in [0..Len(s) -> Seq(S)]
    BY <1>5
  <2> HIDE DEF Grow
  <2> QED BY <2>1, <2>2
<1>7. kept = Body(kept)
  <2> HIDE DEF Body
  <2> QED BY <1>6
<1>8. kept[Len(s)] = f[Len(s)]
  <2> DEFINE Differ == {n \in 0..Len(s) : kept[n] # f[n]}
  <2> SUFFICES ASSUME Differ # {} PROVE FALSE
    <3> HIDE DEF kept
    <3> QED BY <1>0
  <2>0. Differ \in SUBSET Nat
    <3> HIDE DEF kept
    <3> QED BY <1>0
  <2>1. PICK n \in Differ : \A m \in Differ : n <= m
    <3> HIDE DEF Differ
    <3> QED BY <2>0, LeastNumber
  <2>2. ASSUME NEW m \in 0..Len(s)
        PROVE  /\ f[m] = IF m = 0 THEN <<>> ELSE Grow(f, m)
               /\ kept[m] = IF m = 0 THEN <<>> ELSE Grow(kept, m)
    <3>1. \A h : Body(h)[m] = IF m = 0 THEN <<>> ELSE Grow(h, m)
      OBVIOUS
    <3>2. f[m] = Body(f)[m] /\ kept[m] = Body(kept)[m]
      <4> HIDE DEF Body, kept
      <4> QED BY <1>6, <1>7
    <3> HIDE DEF Body, kept, Grow
    <3> QED BY <3>1, <3>2
  <2>3. n # 0
    BY <2>1, <2>2
  <2>4. n - 1 \in 0..Len(s) /\ n - 1 \notin Differ
    <3>1. n \in 0..Len(s)
      OBVIOUS
    <3> HIDE DEF Differ
    <3> QED BY <1>0, <2>1, <2>3, <3>1
  <2>5. Grow(f, n) = Grow(kept, n)
    <3> HIDE DEF kept
    <3> QED BY <2>4
  <2> QED BY <2>1, <2>2, <2>3, <2>5
<1>9. Good(f[Len(s)], Len(s))
  <2> HIDE DEF Good
  <2> QED BY <1>0, <1>5
<1>10. DOMAIN s = 1..Len(s)
  BY LenProperties
<1>11. \A k \in Seq(S) : DOMAIN k = 1..Len(k)
  BY LenProperties
<1>12. Kept(s, T) = f[Len(s)]
  BY <1>1, <1>8
<1>13. Good(Kept(s, T), Len(s))
  <2> HIDE DEF Good
  <2> QED BY <1>9, <1>12
<1>14. /\ Kept(s, T) \in Seq(S)
       /\ \A j \in 1..Len(Kept(s, T)) :
            \E i \in 1..Len(s) : i >= j /\ Kept(s, T)[j] = s[i] /\ s[i] \in T
  BY <1>13
<1>15. DOMAIN Kept(s, T) = 1..Len(Kept(s, T))
  BY <1>11, <1>14
<1> QED BY <1>10, <1>14, <1>15

-----------------------------------------------------------------------------
(* Type correctness.                                                       *)

(***************************************************************************)
(* TypeOK is not inductive: a step uses what its caller has read at        *)
(* earlier steps, so a caller's pc must say what it has read.              *)
(***************************************************************************)
Publishing == {"load", "commit", "schedule", "record", "rollback"}
ShapeOf(c, o) ==
  /\ o.kind = "create" => o.was = None
  /\ o.pc = "read" => o.kind \in {"update", "trigger", "prepare"}
  /\ o.pc \in {"flip", "look", "mark"} => o.kind \in {"pause", "resume"}
  /\ o.pc \in Publishing => o.kind = "create" \/ o.was # None
  /\ o.pc \in {"commit", "schedule", "record", "rollback", "undo"} =>
       o.loaded # None /\ Loadable(o.loaded) /\ o.loaded.target # "unset"
  /\ o.pc \in {"schedule", "record", "rollback", "undo"} => o.commit # None
  /\ o.pc = "record" => o.kind = "create" \/ o.prev # None
  /\ o.pc = "rollback" => o.prev # None
  /\ o.pc = "mark" => o.was # None
  /\ c \in Run /\ o.pc \notin {"idle", "error"} => o.kind = "prepare"
  /\ c \in Run /\ o.pc \in {"archive", "running", "ok"} => o.commit # None

StoresTyped ==
  /\ cast \in Casts
  /\ tree \in TreeType /\ repo \subseteq TreeType
  /\ record \in RecordType \cup {None}
  /\ sched \in ScheduleType \cup {None}
  /\ due \in BOOLEAN /\ disturbed \subseteq {"torn", "status", "row"}
OpsTyped ==
  /\ op \in [Caller -> OpType]
  /\ \A c \in Caller : ShapeOf(c, op[c])
RunsTyped ==
  /\ runs \in [Run -> RunType]
  /\ rec \in [Run -> RunRecordType \cup {None}]
  /\ dirs \in [Run -> {"none", "purged", "source", "empty", "remade", "mixed"}]
  /\ order \in Seq(Run) /\ newer \in [Run -> 0..KeepLast]

TypeInv == StoresTyped /\ OpsTyped /\ RunsTyped

\* The initial state is typed.
LEMMA InitType == Init => TypeInv
<1> SUFFICES ASSUME Init PROVE TypeInv
  OBVIOUS
<1>0. /\ 0 \in Version /\ Absent(0) \in TreeType /\ Tree0 \in TreeType
      /\ Loadable(Tree0)
  BY DEF Absent, Tree0, TreeType, Version, Loadable
<1>1. /\ cast \in Casts /\ due \in BOOLEAN
      /\ disturbed \subseteq {"torn", "status", "row"}
      /\ tree \in TreeType /\ repo \subseteq TreeType
  BY <1>0 DEF Init
<1>2. record \in RecordType \cup {None} /\ sched \in ScheduleType \cup {None}
  <2>1. [status |-> "active", commit |-> Tree0, source |-> "home"] \in RecordType
    BY <1>0 DEF RecordType
  <2>2. [commit |-> Tree0, spec |-> "cron", target |-> "home", state |-> "active"]
          \in ScheduleType
    BY <1>0 DEF ScheduleType
  <2> QED BY <2>1, <2>2 DEF Init
<1>3. op \in [Caller -> OpType]
  BY DEF Init, AtRest, Unread, OpType, Resting
<1>4. /\ runs \in [Run -> RunType]
      /\ rec \in [Run -> RunRecordType \cup {None}]
      /\ dirs \in [Run -> {"none", "purged", "source", "empty", "remade", "mixed"}]
      /\ order \in Seq(Run) /\ newer \in [Run -> 0..KeepLast]
  BY EmptySeq DEF Init, RunType, Version
<1>5. \A c \in Caller : ShapeOf(c, op[c])
  BY DEF Init, AtRest, Unread, ShapeOf, Publishing
<1> QED BY <1>1, <1>2, <1>3, <1>4, <1>5 DEF TypeInv, StoresTyped, OpsTyped, RunsTyped

\* A caller that goes on to a state of its type leaves the callers typed.
LEMMA OpStep ==
  ASSUME OpsTyped, NEW c \in Caller, NEW o \in OpType, ShapeOf(c, o),
         op' = [op EXCEPT ![c] = o]
  PROVE  OpsTyped'
BY DEF OpsTyped, ShapeOf

\* A caller that rests leaves the callers typed.
LEMMA RestStep ==
  ASSUME OpsTyped, NEW c \in Caller, NEW pc \in Resting,
         c \in Run => pc \in {"idle", "error"}, Rest(c, pc)
  PROVE  OpsTyped'
<1>1. AtRest(pc) \in OpType
  BY DEF AtRest, Unread, OpType
<1>2. ShapeOf(c, AtRest(pc))
  BY DEF AtRest, Unread, ShapeOf, Resting, Publishing
<1> QED BY <1>1, <1>2, OpStep DEF Rest

\* A caller that begins leaves the callers typed.
LEMMA BeginStep ==
  ASSUME OpsTyped, NEW c \in Caller, NEW kind \in Kind \cup {"prepare"},
         NEW pc \in {"read", "check", "find", "flip", "unschedule"},
         c \in Run => kind = "prepare",
         pc = "read" => kind \in {"update", "trigger", "prepare"},
         pc = "flip" => kind \in {"pause", "resume"},
         Start(c, kind, pc)
  PROVE  OpsTyped'
<1>1. Unread(kind, pc) \in OpType
  BY DEF Unread, OpType
<1>2. ShapeOf(c, Unread(kind, pc))
  BY DEF Unread, ShapeOf, Publishing
<1> QED BY <1>1, <1>2, OpStep DEF Start

\* A caller that goes to a step for which it has read what it needs leaves
\* the callers typed.
LEMMA GotoStep ==
  ASSUME OpsTyped, NEW c \in Caller,
         NEW pc \in {"record", "rollback", "load", "initialize", "undo", "save",
                     "look", "forget", "removing", "purge", "running", "ok"},
         pc = "load" => op[c].kind = "create",
         pc \in {"record", "rollback"} =>
           ShapeOf(c, [op[c] EXCEPT !.pc = pc]),
         pc = "undo" => op[c].pc = "record",
         pc = "look" => op[c].pc = "flip",
         c \in Run => op[c].kind = "prepare" /\ op[c].commit # None,
         Goto(c, pc)
  PROVE  OpsTyped'
<1> DEFINE o == [op[c] EXCEPT !.pc = pc]
<1>1. op' = [op EXCEPT ![c] = o]
  BY DEF Goto
<1>2. o \in OpType
  BY DEF OpsTyped, OpType, Resting
<1>3. ShapeOf(c, o)
  BY DEF OpsTyped, OpType, ShapeOf, Publishing
<1> HIDE DEF o
<1> QED BY <1>1, <1>2, <1>3, OpStep

\* What a publication records and schedules is typed.
LEMMA PublicationTypes ==
  ASSUME TypeInv, NEW c \in Caller
  PROVE  /\ op[c].pc \in Publishing => SourceOf(c) \in {"home", "away"}
         /\ op[c].pc = "load" /\ Loadable(tree) =>
              /\ WithTarget(c) \in TreeType /\ Loadable(WithTarget(c))
              /\ WithTarget(c).target # "unset"
         /\ op[c].pc \in {"schedule", "record"} =>
              /\ \A state \in {"active", "paused", "tripped"} :
                   Scheduled(c, state) \in ScheduleType
              /\ \A status \in {"active", "paused"} :
                   Recorded(c, status) \in RecordType
<1>1. /\ op[c] \in OpType /\ ShapeOf(c, op[c]) /\ tree \in TreeType
  BY DEF TypeInv, OpsTyped, StoresTyped
<1>2. op[c].pc \in Publishing => SourceOf(c) \in {"home", "away"}
  BY <1>1 DEF ShapeOf, SourceOf, OpType, RecordType
<1>3. op[c].pc = "load" /\ Loadable(tree) =>
        /\ WithTarget(c) \in TreeType /\ Loadable(WithTarget(c))
        /\ WithTarget(c).target # "unset"
  BY <1>1, <1>2 DEF WithTarget, TreeType, Loadable, Publishing
<1>4. op[c].pc \in {"schedule", "record"} =>
        /\ op[c].commit \in TreeType /\ op[c].loaded \in TreeType
        /\ op[c].loaded.spec \in {"cron", "oneshot"}
        /\ op[c].loaded.target \in {"home", "away"}
  BY <1>1 DEF ShapeOf, OpType, TreeType, Loadable
<1>5. op[c].pc \in {"schedule", "record"} =>
        \A state \in {"active", "paused", "tripped"} :
                   Scheduled(c, state) \in ScheduleType
  BY <1>4 DEF Scheduled, ScheduleType
<1>6. op[c].pc \in {"schedule", "record"} =>
        \A status \in {"active", "paused"} : Recorded(c, status) \in RecordType
  BY <1>2, <1>4 DEF Recorded, RecordType, Publishing
<1> QED BY <1>2, <1>3, <1>5, <1>6

\* The steps of a publication keep the callers typed.
LEMMA PublishOps ==
  ASSUME TypeInv, NEW c \in Caller, Publish(c)
  PROVE  OpsTyped'
<1>1. /\ op[c] \in OpType /\ ShapeOf(c, op[c]) /\ tree \in TreeType /\ OpsTyped
      /\ record \in RecordType \cup {None} /\ sched \in ScheduleType \cup {None}
  BY DEF TypeInv, OpsTyped, StoresTyped
<1>2. Rest(c, "error") => OpsTyped'
  BY <1>1, RestStep DEF Resting
<1>3. ASSUME NEW commit \in TreeType, NEW answer \in {"current", "ok"},
             op[c].pc \in Publishing, op[c].kind # "create",
             Published(c, commit, answer)
      PROVE  OpsTyped'
  <2> DEFINE o == [kind |-> op[c].kind,
                   pc |-> CASE op[c].kind = "trigger" -> "trigger"
                            [] op[c].kind = "prepare" -> "archive"
                            [] OTHER -> answer,
                   was |-> None, loaded |-> None, prev |-> None, commit |-> commit]
  <2>1. o \in OpType
    BY <1>1, <1>3 DEF OpType, Resting
  <2>2. ShapeOf(c, o)
    BY <1>1, <1>3 DEF ShapeOf, Publishing, OpType
  <2>3. op' = [op EXCEPT ![c] = o]
    BY <1>3 DEF Published
  <2> HIDE DEF o
  <2> QED BY <1>1, <2>1, <2>2, <2>3, OpStep
<1>4. CASE Read(c)
  <2>1. CASE record # None
    <3> DEFINE o == [op[c] EXCEPT !.pc = "load", !.was = record]
    <3>1. op' = [op EXCEPT ![c] = o]
      BY <1>4, <2>1 DEF Read
    <3>2. o \in OpType /\ ShapeOf(c, o)
      BY <1>1, <1>4, <2>1 DEF OpType, ShapeOf, Publishing, Read, At
    <3> HIDE DEF o
    <3> QED BY <1>1, <3>1, <3>2, OpStep
  <2> QED BY <1>2, <1>4, <2>1 DEF Read
<1>5. CASE Load(c)
  <2>1. CASE Loadable(tree)
    <3> DEFINE o == [op[c] EXCEPT !.pc = "commit", !.loaded = WithTarget(c)]
    <3>1. op' = [op EXCEPT ![c] = o]
      BY <1>5, <2>1 DEF Load
    <3>2. /\ WithTarget(c) \in TreeType /\ Loadable(WithTarget(c))
          /\ WithTarget(c).target # "unset"
      BY <1>5, <2>1, PublicationTypes DEF Load, At
    <3>3. o \in OpType /\ ShapeOf(c, o)
      BY <1>1, <1>5, <3>2 DEF OpType, ShapeOf, Publishing, Load, At
    <3> HIDE DEF o
    <3> QED BY <1>1, <3>1, <3>3, OpStep
  <2> QED BY <1>2, <1>5, <2>1 DEF Load
<1>6. CASE Commit(c)
  <2>1. CASE Present(tree) /\ Current(c)
    <3>1. op[c].kind # "create" /\ op[c].pc \in Publishing
      BY <1>1, <1>6, <2>1 DEF Commit, At, Current, ShapeOf, Publishing
    <3> QED BY <1>1, <1>3, <1>6, <2>1, <3>1 DEF Commit
  <2>2. CASE Present(tree) /\ ~Current(c) /\ ~TooLate(c)
    <3> DEFINE o == [op[c] EXCEPT !.commit = tree, !.pc = "schedule"]
    <3>1. op' = [op EXCEPT ![c] = o]
      BY <1>6, <2>2 DEF Commit
    <3>2. o \in OpType /\ ShapeOf(c, o)
      BY <1>1, <1>6 DEF OpType, ShapeOf, Publishing, Commit, At
    <3> HIDE DEF o
    <3> QED BY <1>1, <3>1, <3>2, OpStep
  <2> QED BY <1>2, <1>6, <2>1, <2>2 DEF Commit
<1>7. CASE UpdateSchedule(c)
  <2>1. CASE sched # None /\ ~Rest(c, "error")
    <3> DEFINE o == [op[c] EXCEPT !.pc = "record", !.prev = sched]
    <3>1. op' = [op EXCEPT ![c] = o]
      BY <1>7, <2>1 DEF UpdateSchedule
    <3>2. o \in OpType /\ ShapeOf(c, o)
      BY <1>1, <1>7, <2>1 DEF OpType, ShapeOf, Publishing, UpdateSchedule, At
    <3> HIDE DEF o
    <3> QED BY <1>1, <3>1, <3>2, OpStep
  <2> QED BY <1>2, <1>7, <2>1 DEF UpdateSchedule
<1>8. CASE UpdateRecord(c)
  <2>1. CASE Published(c, op[c].commit, "ok")
    BY <1>1, <1>3, <1>8, <2>1 DEF UpdateRecord, At, Publishing, ShapeOf, OpType
  <2>2. CASE Goto(c, "rollback")
    <3>1. ShapeOf(c, [op[c] EXCEPT !.pc = "rollback"])
      BY <1>1, <1>8 DEF UpdateRecord, At, ShapeOf, OpType, Publishing
    <3>2. c \in Run => op[c].kind = "prepare" /\ op[c].commit # None
      BY <1>1, <1>8 DEF UpdateRecord, At, ShapeOf
    <3> QED BY <1>1, <2>2, <3>1, <3>2, GotoStep
  <2> QED BY <1>8, <2>1, <2>2 DEF UpdateRecord
<1>9. CASE RollBack(c)
  BY <1>2, <1>9 DEF RollBack
<1> QED BY <1>4, <1>5, <1>6, <1>7, <1>8, <1>9 DEF Publish

\* The steps of the operations keep the callers typed.
LEMMA OperateOps ==
  ASSUME TypeInv, NEW c \in Operator, Operate(c)
  PROVE  OpsTyped'
<1>1. /\ c \in Caller /\ c \notin Run
      /\ op[c] \in OpType /\ ShapeOf(c, op[c]) /\ OpsTyped
      /\ record \in RecordType \cup {None}
  BY DEF TypeInv, OpsTyped, StoresTyped
<1>2. Rest(c, "error") \/ Rest(c, "ok") => OpsTyped'
  BY <1>1, RestStep DEF Resting
<1>3. ASSUME NEW pc \in {"initialize", "save", "forget", "removing", "purge"},
             Goto(c, pc)
      PROVE  OpsTyped'
  BY <1>1, <1>3, GotoStep
<1>4. CASE Check(c)
  <2>1. CASE Goto(c, "load") /\ op[c].kind = "create"
    BY <1>1, <2>1, GotoStep
  <2> QED BY <1>2, <1>3, <1>4, <2>1 DEF Check
<1>5. CASE CreateSchedule(c)
  <2>1. CASE Goto(c, "record")
    <3>1. ShapeOf(c, [op[c] EXCEPT !.pc = "record"])
      BY <1>1, <1>5 DEF CreateSchedule, At, ShapeOf, OpType, Publishing
    <3> QED BY <1>1, <2>1, <3>1, GotoStep
  <2> QED BY <1>2, <1>5, <2>1 DEF CreateSchedule
<1>6. CASE CreateRecord(c)
  <2>1. CASE Goto(c, "undo")
    BY <1>1, <1>6, <2>1, GotoStep DEF CreateRecord, At
  <2> QED BY <1>2, <1>6, <2>1 DEF CreateRecord
<1>7. CASE Flip(c)
  <2>1. CASE Goto(c, "look")
    BY <1>1, <1>7, <2>1, GotoStep DEF Flip, At
  <2> QED BY <1>2, <1>7, <2>1 DEF Flip
<1>8. CASE Look(c)
  <2>1. CASE record # None
    <3> DEFINE o == [op[c] EXCEPT !.pc = "mark", !.was = record]
    <3>1. op' = [op EXCEPT ![c] = o]
      BY <1>8, <2>1 DEF Look
    <3>2. o \in OpType /\ ShapeOf(c, o)
      BY <1>1, <1>8, <2>1 DEF OpType, ShapeOf, Publishing, Look, At
    <3> HIDE DEF o
    <3> QED BY <1>1, <3>1, <3>2, OpStep
  <2> QED BY <1>2, <1>8, <2>1 DEF Look
<1>9. CASE UndoCreate(c) \/ Initialize(c) \/ Find(c) \/ Checkpoint(c) \/ Mark(c)
  BY <1>2, <1>3, <1>9 DEF UndoCreate, Initialize, Find, Checkpoint, Mark
<1>10. CASE Unschedule(c) \/ Forget(c) \/ RemoveSource(c) \/ Purge(c) \/ Trigger(c)
  BY <1>2, <1>3, <1>10 DEF Unschedule, Forget, RemoveSource, Purge, Trigger
<1> QED BY <1>4, <1>5, <1>6, <1>7, <1>8, <1>9, <1>10 DEF Operate

\* The beginning and the end of an operation, and the steps of a run.
LEMMA OtherOps ==
  ASSUME TypeInv,
         \/ \E c \in Operator, k \in Kind : Begin(c, k)
         \/ \E c \in Operator : Cut(c)
         \/ \E r \in Run : Fire(r) \/ RunSteps(r) \/ Cancel(r) \/ Trip(r)
         \/ \E edit \in Edits[cast] : Edit(edit)
         \/ TimePasses
         \/ UNCHANGED vars
  PROVE  OpsTyped'
<1>1. OpsTyped
  BY DEF TypeInv
<1>2. op' = op => OpsTyped'
  BY <1>1 DEF OpsTyped, ShapeOf
<1>3. ASSUME NEW c \in Operator, NEW k \in Kind, Begin(c, k) PROVE OpsTyped'
  <2>1. c \in Caller /\ c \notin Run
    OBVIOUS
  <2> DEFINE pc == CASE k \in {"update", "trigger"} -> "read"
                     [] k \in {"create", "author"} -> "check"
                     [] k = "checkpoint" -> "find"
                     [] k \in {"pause", "resume"} -> "flip"
                     [] k = "delete" -> "unschedule"
  <2>2. /\ pc \in {"read", "check", "find", "flip", "unschedule"}
        /\ pc = "read" => k \in {"update", "trigger", "prepare"}
        /\ pc = "flip" => k \in {"pause", "resume"}
    BY DEF Kind
  <2>3. Start(c, k, pc)
    BY <1>3 DEF Begin
  <2> HIDE DEF pc
  <2> QED BY <1>1, <2>1, <2>2, <2>3, BeginStep
<1>4. ASSUME NEW c \in Operator, Cut(c) PROVE OpsTyped'
  BY <1>1, <1>4, RestStep DEF Cut, Resting
<1>5. ASSUME NEW r \in Run, RunSteps(r) PROVE OpsTyped'
  <2>1. /\ r \in Caller /\ op[r] \in OpType /\ ShapeOf(r, op[r])
    BY <1>1 DEF OpsTyped
  <2>2. Rest(r, "error") \/ Rest(r, "idle") => OpsTyped'
    BY <1>1, <2>1, RestStep DEF Resting
  <2>3. CASE Prepare(r)
    BY <1>1, <2>1, <2>3, BeginStep DEF Prepare
  <2>4. CASE Archive(r)
    <3>1. CASE Goto(r, "running")
      BY <1>1, <2>1, <2>4, <3>1, GotoStep DEF Archive, At, ShapeOf
    <3> QED BY <2>2, <2>4, <3>1 DEF Archive
  <2>5. CASE RecordRun(r)
    <3>1. CASE Goto(r, "ok")
      BY <1>1, <2>1, <2>5, <3>1, GotoStep DEF RecordRun, At, ShapeOf
    <3> QED BY <2>2, <2>5, <3>1 DEF RecordRun
  <2>6. CASE Prepared(r) \/ AttemptFails(r) \/ TimesOut(r)
    BY <2>2, <2>6 DEF Prepared, AttemptFails, TimesOut
  <2>7. CASE ListRuns(r) \/ DeleteRun(r) \/ CleanedUp(r) \/ Complete(r) \/ Late(r)
             \/ \E next \in {"step", "succeeded", "failed"} : Step(r, next)
    BY <1>2, <2>7 DEF ListRuns, DeleteRun, CleanedUp, Complete, Step, Late
  <2> QED BY <1>5, <2>3, <2>4, <2>5, <2>6, <2>7 DEF RunSteps
<1>6. ASSUME NEW r \in Run, Fire(r) \/ Cancel(r) \/ Trip(r) PROVE OpsTyped'
  BY <1>2, <1>6 DEF Fire, Cancel, Trip
<1>7. ASSUME NEW edit \in Edits[cast], Edit(edit) PROVE OpsTyped'
  BY <1>2, <1>7 DEF Edit
<1>8. CASE TimePasses \/ UNCHANGED vars
  BY <1>2, <1>8 DEF TimePasses, vars
<1> QED BY <1>3, <1>4, <1>5, <1>6, <1>7, <1>8

\* Every step keeps the three stores typed.
LEMMA StoresStep == TypeInv /\ [Next]_vars => StoresTyped'
<1> SUFFICES ASSUME TypeInv, [Next]_vars PROVE StoresTyped'
  OBVIOUS
<1>1. StoresTyped /\ op \in [Caller -> OpType]
  BY DEF TypeInv, OpsTyped
<1>2. disturbed' \subseteq {"torn", "status", "row"} /\ due' \in BOOLEAN /\ cast' = cast
  <2> USE <1>1 DEF StoresTyped
  <2>1. ASSUME NEW c \in Operator, NEW k \in Kind, Begin(c, k)
        PROVE  disturbed' \subseteq {"torn", "status", "row"} /\ due' \in BOOLEAN /\ cast' = cast
    BY <2>1 DEF Begin, Start, Overlaps, Disturb
  <2>2. ASSUME NEW c \in Caller, Publish(c)
        PROVE  disturbed' \subseteq {"torn", "status", "row"} /\ due' \in BOOLEAN /\ cast' = cast
    BY <2>2 DEF Publish, Read, Load, Commit, UpdateSchedule, UpdateRecord, RollBack,
       Disturb
  <2>3. ASSUME NEW c \in Operator, Operate(c)
        PROVE  disturbed' \subseteq {"torn", "status", "row"} /\ due' \in BOOLEAN /\ cast' = cast
    <3>1. CASE Check(c) \/ CreateSchedule(c) \/ CreateRecord(c) \/ UndoCreate(c)
               \/ Initialize(c) \/ Find(c) \/ Checkpoint(c)
      BY <3>1 DEF Check, CreateSchedule, CreateRecord, UndoCreate, Initialize,
         Find, Checkpoint, Disturb
    <3>2. CASE Flip(c) \/ Look(c) \/ Mark(c) \/ Unschedule(c) \/ Forget(c)
               \/ RemoveSource(c) \/ Purge(c) \/ Trigger(c)
      BY <3>2 DEF Flip, Look, Mark, Unschedule, Forget, RemoveSource, Purge, Trigger,
         Disturb
    <3> QED BY <2>3, <3>1, <3>2 DEF Operate
  <2>4. ASSUME NEW c \in Operator, Cut(c)
        PROVE  disturbed' \subseteq {"torn", "status", "row"} /\ due' \in BOOLEAN /\ cast' = cast
    BY <2>4 DEF Cut, Disturb
  <2>5. ASSUME NEW r \in Run, Fire(r) \/ RunSteps(r) \/ Cancel(r) \/ Trip(r)
        PROVE  disturbed' \subseteq {"torn", "status", "row"} /\ due' \in BOOLEAN /\ cast' = cast
    BY <2>5 DEF Fire, Cancel, Trip, RunSteps, Prepare, Start, Overlaps, Archive,
       RecordRun, Prepared, AttemptFails, TimesOut, Late, Disturb, ListRuns,
       DeleteRun, CleanedUp, Step, Complete
  <2>6. ASSUME NEW edit \in Edits[cast], Edit(edit)
        PROVE  disturbed' \subseteq {"torn", "status", "row"} /\ due' \in BOOLEAN /\ cast' = cast
    BY <2>6 DEF Edit, Overlaps, Disturb
  <2>7. CASE TimePasses \/ UNCHANGED vars
    BY <2>7 DEF TimePasses, vars
  <2> QED BY <2>1, <2>2, <2>3, <2>4, <2>5, <2>6, <2>7 DEF Next
<1>3. ASSUME UNCHANGED <<source, record, sched>> PROVE StoresTyped'
  BY <1>1, <1>2, <1>3 DEF StoresTyped, source
<1>4. ASSUME NEW c \in Caller, Publish(c) PROVE StoresTyped'
  <2>1. op[c] \in OpType /\ ShapeOf(c, op[c])
    BY DEF TypeInv, OpsTyped
  <2>2. CASE Load(c)
    BY <1>1, <1>2, <2>2, PublicationTypes DEF Load, At, StoresTyped
  <2>3. CASE Commit(c)
    BY <1>1, <1>2, <2>3 DEF Commit, StoresTyped
  <2>4. CASE UpdateSchedule(c)
    <3>1. sched # None => KeptState(c) \in {"active", "paused", "tripped"}
      BY <1>1 DEF StoresTyped, ScheduleType, KeptState
    <3>2. sched' \in ScheduleType \cup {None}
      BY <1>1, <2>4, <3>1, PublicationTypes DEF UpdateSchedule, At, StoresTyped
    <3> QED BY <1>1, <1>2, <2>4, <3>2 DEF UpdateSchedule, StoresTyped, source
  <2>5. CASE UpdateRecord(c)
    <3>1. op[c].was.status \in {"active", "paused"}
      BY <2>1, <2>5 DEF UpdateRecord, At, ShapeOf, OpType, RecordType, Publishing
    <3>2. record' \in RecordType \cup {None}
      BY <1>1, <2>5, <3>1, PublicationTypes DEF UpdateRecord, Upsert, At, StoresTyped
    <3> QED BY <1>1, <1>2, <2>5, <3>2 DEF UpdateRecord, StoresTyped, source
  <2>6. CASE RollBack(c)
    <3>1. op[c].prev \in ScheduleType
      BY <2>1, <2>6 DEF RollBack, At, ShapeOf, OpType
    <3>2. sched' \in ScheduleType \cup {None}
      BY <1>1, <2>6, <3>1 DEF RollBack, StoresTyped
    <3> QED BY <1>1, <1>2, <2>6, <3>2 DEF RollBack, StoresTyped, source
  <2>7. CASE Read(c)
    BY <1>3, <2>7 DEF Read
  <2> QED BY <1>4, <2>2, <2>3, <2>4, <2>5, <2>6, <2>7 DEF Publish
<1>5. ASSUME NEW c \in Operator, Operate(c) PROVE StoresTyped'
  <2>1. c \in Caller /\ op[c] \in OpType /\ ShapeOf(c, op[c])
    BY DEF TypeInv, OpsTyped
  <2>2. CASE CreateSchedule(c)
    <3>1. sched' \in ScheduleType \cup {None}
      BY <1>1, <2>1, <2>2, PublicationTypes DEF CreateSchedule, At, StoresTyped
    <3> QED BY <1>1, <1>2, <2>2, <3>1 DEF CreateSchedule, StoresTyped, source
  <2>3. CASE CreateRecord(c)
    <3>1. record' \in RecordType \cup {None}
      BY <1>1, <2>1, <2>3, PublicationTypes DEF CreateRecord, Upsert, At, StoresTyped
    <3> QED BY <1>1, <1>2, <2>3, <3>1 DEF CreateRecord, StoresTyped, source
  <2>4. CASE Initialize(c) \/ RemoveSource(c)
    <3>1. Bare(tree.version) \in TreeType /\ Absent(tree.version) \in TreeType
      BY <1>1 DEF StoresTyped, TreeType, Bare, Absent
    <3> QED BY <1>1, <1>2, <2>4, <3>1 DEF Initialize, RemoveSource, StoresTyped
  <2>5. CASE Checkpoint(c)
    BY <1>1, <1>2, <2>5 DEF Checkpoint, StoresTyped
  <2>6. CASE Flip(c)
    <3>1. sched # None =>
            [sched EXCEPT !.state = StateAfter(c)] \in ScheduleType
      BY <1>1 DEF StoresTyped, ScheduleType, StateAfter
    <3>2. sched' \in ScheduleType \cup {None}
      BY <1>1, <2>6, <3>1 DEF Flip, StoresTyped
    <3> QED BY <1>1, <1>2, <2>6, <3>2 DEF Flip, StoresTyped, source
  <2>7. CASE Mark(c)
    <3>1. [op[c].was EXCEPT !.status = StateAfter(c)] \in RecordType
      BY <2>1, <2>7 DEF Mark, At, ShapeOf, OpType, RecordType, StateAfter
    <3>2. record' \in RecordType \cup {None}
      BY <1>1, <2>7, <3>1 DEF Mark, Upsert, StoresTyped
    <3> QED BY <1>1, <1>2, <2>7, <3>2 DEF Mark, StoresTyped, source
  <2>8. CASE UndoCreate(c) \/ Unschedule(c) \/ Forget(c)
    BY <1>1, <1>2, <2>8 DEF UndoCreate, Unschedule, Forget, StoresTyped, source
  <2>9. CASE Check(c) \/ Find(c) \/ Look(c) \/ Purge(c) \/ Trigger(c)
    BY <1>3, <2>9 DEF Check, Find, Look, Purge, Trigger
  <2> QED BY <1>5, <2>2, <2>3, <2>4, <2>5, <2>6, <2>7, <2>8, <2>9 DEF Operate
<1>6. ASSUME NEW edit \in Edits[cast], Edit(edit) PROVE StoresTyped'
  <2>1. /\ tree.version + 1 \in Version
        /\ edit[1] \in {"cron", "oneshot", "broken"} /\ edit[2] \in {"home", "unset"}
    <3>1. Edits[cast] \subseteq {"cron", "oneshot", "broken"} \X {"home", "unset"}
      BY <1>1 DEF StoresTyped
    <3> QED BY <1>1, <1>6, <3>1 DEF Edit, StoresTyped, TreeType, Version
  <2>2. tree' \in TreeType
    BY <1>6, <2>1 DEF Edit, TreeType
  <2> QED BY <1>1, <1>2, <1>6, <2>2 DEF Edit, StoresTyped
<1>7. ASSUME NEW c \in Operator, NEW k \in Kind, Begin(c, k) PROVE StoresTyped'
  BY <1>3, <1>7 DEF Begin
<1>8. ASSUME NEW c \in Operator, Cut(c) PROVE StoresTyped'
  BY <1>3, <1>8 DEF Cut
<1>9. ASSUME NEW r \in Run, Fire(r) \/ RunSteps(r) \/ Cancel(r) PROVE StoresTyped'
  BY <1>3, <1>9 DEF Fire, RunSteps, Cancel, Prepare, Archive, RecordRun, Prepared,
     AttemptFails, TimesOut, Late, ListRuns, DeleteRun, CleanedUp, Step, Complete
<1>10. CASE TimePasses \/ UNCHANGED vars
  BY <1>3, <1>10 DEF TimePasses, vars
<1>11. ASSUME NEW r \in Run, Trip(r) PROVE StoresTyped'
  <2>1. [sched EXCEPT !.state = "tripped"] \in ScheduleType
    BY <1>1, <1>11 DEF Trip, StoresTyped, ScheduleType
  <2> QED BY <1>1, <1>2, <1>11, <2>1 DEF Trip, StoresTyped, source
<1> QED BY <1>4, <1>5, <1>6, <1>7, <1>8, <1>9, <1>10, <1>11 DEF Next

\* Making a directory keeps the runs' directories typed.
LEMMA MakeTypes ==
  ASSUME RunsTyped, NEW r \in Run, NEW state \in {"source", "empty", "remade", "mixed"},
         Make(r, state)
  PROVE  /\ dirs' \in [Run -> {"none", "purged", "source", "empty", "remade", "mixed"}]
         /\ order' \in Seq(Run) /\ newer' \in [Run -> 0..KeepLast]
<1>1. Kept(order, Run \ {r}) \in Seq(Run) /\ <<r>> \in Seq(Run)
  BY KeptElements DEF RunsTyped
<1>2. order' \in Seq(Run)
  BY <1>1, ConcatProperties DEF Make
<1>3. newer' \in [Run -> 0..KeepLast]
  BY DEF Make, RunsTyped
<1> QED BY <1>2, <1>3 DEF Make, RunsTyped

\* The same, of runs.
LEMMA KeptRuns ==
  \A T : \A s \in Seq(Run) :
    /\ Kept(s, T) \in Seq(Run)
    /\ \A j \in DOMAIN Kept(s, T) :
         \E i \in DOMAIN s : i >= j /\ Kept(s, T)[j] = s[i] /\ s[i] \in T
BY KeptElements, Zenon

\* What the cleanup of a run lists are runs.
LEMMA VictimTypes ==
  ASSUME RunsTyped, NEW r \in Run
  PROVE  Existing \in Seq(Run) /\ Victims(r) \in Seq(Run)
<1>1. Existing \in Seq(Run)
  BY KeptElements DEF RunsTyped, Existing
<1>2. /\ KeepLast + 1 \in Nat /\ KeepLast + 1 >= 1
      /\ Len(Existing) \in Nat /\ \A i \in 1..Len(Existing) : Existing[i] \in Run
  BY <1>1, LenProperties
<1>3. SubSeq(Existing, KeepLast + 1, Len(Existing)) \in Seq(Run)
  BY <1>1, <1>2, SubSeqProperties
<1>4. Kept(SubSeq(Existing, KeepLast + 1, Len(Existing)), Run \ {r}) \in Seq(Run)
  BY <1>3, KeptRuns, Zenon
<1> QED BY <1>1, <1>4 DEF Victims, Beyond

\* Every step keeps the runs typed.
LEMMA RunsStep == TypeInv /\ [Next]_vars => RunsTyped'
<1> SUFFICES ASSUME TypeInv, [Next]_vars PROVE RunsTyped'
  OBVIOUS
<1>1. RunsTyped /\ OpsTyped /\ tree.version \in Version /\ 0 \in Version
      /\ 1 \in 1..MaxAttempts
  BY DEF TypeInv, StoresTyped, TreeType, Version
<1>2. ASSUME UNCHANGED runState PROVE RunsTyped'
  BY <1>1, <1>2 DEF RunsTyped, runState
<1>3. ASSUME NEW r \in Run, NEW o \in RunType, runs' = [runs EXCEPT ![r] = o],
             UNCHANGED <<rec, dirs, order, newer>>
      PROVE  RunsTyped'
  BY <1>1, <1>3 DEF RunsTyped
<1>4. ASSUME NEW r \in Run, NEW pc \in Ended, NEW excused \in BOOLEAN,
             NEW left \in BOOLEAN, Close(r, pc, excused, left)
      PROVE  runs' \in [Run -> RunType]
  <2> DEFINE e == [pc |-> pc, attempt |-> 1, floor |-> 0, commit |-> None,
                   victims |-> <<>>, excused |-> excused, left |-> left]
  <2>1. /\ pc \in {"closed", "broke"} /\ 0 \in Version
        /\ <<>> \in Seq(Run) /\ 1 \in 1..MaxAttempts
    BY <1>1, EmptySeq DEF Ended
  <2>2. e \in RunType
    BY <2>1 DEF RunType
  <2>3. runs' = [runs EXCEPT ![r] = e]
    BY <1>4 DEF Close
  <2> HIDE DEF e
  <2> QED BY <1>1, <2>2, <2>3 DEF RunsTyped
<1>4a. ASSUME NEW r \in Run, NEW pc \in {"idle", "prepare", "cleanup", "delete",
                       "step", "succeeded", "failed", "closed", "broke"}
       PROVE  /\ [runs[r] EXCEPT !.pc = pc] \in RunType
              /\ [runs[r] EXCEPT !.pc = pc, !.floor = tree.version] \in RunType
  <2>1. runs[r] \in RunType
    BY <1>1 DEF RunsTyped
  <2> QED BY <1>1, <2>1 DEF RunType
<1>4b. ASSUME NEW r \in Run, runs' = [runs EXCEPT ![r].pc = "prepare",
                                                  ![r].floor = tree.version],
              UNCHANGED <<rec, dirs, order, newer>>
       PROVE  RunsTyped'
  <2> DEFINE o == [runs[r] EXCEPT !.pc = "prepare", !.floor = tree.version]
  <2>1. o \in RunType /\ runs' = [runs EXCEPT ![r] = o]
    BY <1>4a, <1>4b
  <2> HIDE DEF o
  <2> QED BY <1>3, <1>4b, <2>1
<1>4c. ASSUME NEW r \in Run, NEW pc \in {"failed", "step", "succeeded", "closed"},
              Move(r, pc)
       PROVE  runs' \in [Run -> RunType]
  <2> DEFINE o == [runs[r] EXCEPT !.pc = pc]
  <2>1. o \in RunType /\ runs' = [runs EXCEPT ![r] = o]
    BY <1>4a, <1>4c DEF Move
  <2> HIDE DEF o
  <2> QED BY <1>1, <2>1 DEF RunsTyped
<1>4d. ASSUME NEW r \in Run, NEW excused \in BOOLEAN, NEW left \in BOOLEAN,
              TryAgain(r, excused, left)
       PROVE  runs' \in [Run -> RunType]
  <2>1. CASE runs[r].attempt < MaxAttempts
    <3> DEFINE o == [runs[r] EXCEPT !.attempt = @ + 1, !.excused = excused,
                                    !.left = left]
    <3>1. o \in RunType
      <4>1. runs[r] \in RunType /\ runs[r].attempt + 1 \in 1..MaxAttempts
        BY <1>1, <2>1 DEF RunsTyped, RunType
      <4> QED BY <4>1 DEF RunType
    <3>2. runs' = [runs EXCEPT ![r] = o]
      BY <1>4d, <2>1 DEF TryAgain
    <3> HIDE DEF o
    <3> QED BY <1>1, <3>1, <3>2 DEF RunsTyped
  <2>2. CASE ~(runs[r].attempt < MaxAttempts)
    BY <1>4, <1>4d, <2>2 DEF TryAgain, Ended
  <2> QED BY <2>1, <2>2
<1>4e. ASSUME NEW r \in Run, NEW status \in {"running", "succeeded", "failed"},
              NEW commit \in TreeType \cup {None}, UpsertRun(r, status, commit)
       PROVE  rec' \in [Run -> RunRecordType \cup {None}]
  <2>1. rec[r] # None => rec[r].commit \in TreeType \cup {None}
    BY <1>1 DEF RunsTyped, RunRecordType
  <2> DEFINE kept == IF WritesCommit(r, commit) THEN commit ELSE rec[r].commit
  <2>2. kept \in TreeType \cup {None}
    BY <2>1 DEF WritesCommit
  <2>3. rec' = [rec EXCEPT ![r] = [status |-> status, commit |-> kept]]
    BY <1>4e DEF UpsertRun
  <2> HIDE DEF kept
  <2>4. [status |-> status, commit |-> kept] \in RunRecordType
    BY <2>2 DEF RunRecordType
  <2> QED BY <1>1, <2>3, <2>4 DEF RunsTyped
<1>5. ASSUME NEW c \in Caller, Publish(c) PROVE RunsTyped'
  BY <1>2, <1>5 DEF Publish, Read, Load, Commit, UpdateSchedule, UpdateRecord,
     RollBack
<1>6. ASSUME NEW c \in Operator, Operate(c) PROVE RunsTyped'
  <2>1. CASE Forget(c)
    BY <1>1, <2>1 DEF Forget, RunsTyped
  <2>2. CASE Purge(c)
    BY <1>1, <2>2, EmptySeq DEF Purge, RunsTyped
  <2>3. CASE Trigger(c)
    <3>1. ASSUME NEW r \in Run,
                 runs' = [runs EXCEPT ![r].pc = "prepare", ![r].floor = tree.version]
          PROVE  RunsTyped'
      BY <1>4b, <2>3, <3>1 DEF Trigger
    <3>2. runs' = runs => RunsTyped'
      BY <1>2, <2>3 DEF Trigger, runState
    <3> QED BY <2>3, <3>1, <3>2 DEF Trigger
  <2>4. CASE Check(c) \/ CreateSchedule(c) \/ CreateRecord(c) \/ UndoCreate(c)
             \/ Initialize(c) \/ Find(c) \/ Checkpoint(c)
             \/ Flip(c) \/ Look(c) \/ Mark(c) \/ Unschedule(c) \/ RemoveSource(c)
    BY <1>2, <2>4 DEF Check, CreateSchedule, CreateRecord, UndoCreate,
       Initialize, Find, Checkpoint, Flip, Look, Mark, Unschedule, RemoveSource
  <2> QED BY <1>6, <2>1, <2>2, <2>3, <2>4 DEF Operate
<1>7. ASSUME NEW r \in Run, Fire(r) \/ Cancel(r) \/ Trip(r) PROVE RunsTyped'
  <2>1. CASE Fire(r)
    BY <1>4b, <2>1 DEF Fire
  <2>2. CASE Cancel(r)
    <3>1. CASE Move(r, "failed")
      BY <1>1, <1>4c, <2>2, <3>1 DEF Cancel, RunsTyped
    <3>2. CASE Close(r, "closed", TRUE, runs[r].left)
      <4>1. runs[r].left \in BOOLEAN
        BY <1>1 DEF RunsTyped, RunType
      <4>2. runs' \in [Run -> RunType]
        BY <1>4, <3>2, <4>1 DEF Ended
      <4> QED BY <1>1, <2>2, <4>2 DEF Cancel, RunsTyped
    <3> QED BY <2>2, <3>1, <3>2 DEF Cancel
  <2>3. CASE Trip(r)
    BY <1>1, <1>4c, <2>3 DEF Trip, RunsTyped
  <2> QED BY <1>7, <2>1, <2>2, <2>3
<1>8. ASSUME NEW r \in Run, RunSteps(r) PROVE RunsTyped'
  <2>0. /\ runs[r] \in RunType /\ r \in Caller
        /\ op[r] \in OpType /\ ShapeOf(r, op[r])
    BY <1>1 DEF RunsTyped, OpsTyped
  <2>1. CASE Prepare(r)
    BY <1>2, <2>1 DEF Prepare
  <2>2. CASE Archive(r)
    BY <1>1, <2>2, MakeTypes DEF Archive, RunsTyped
  <2>3. CASE RecordRun(r)
    <3>1. op[r].commit \in TreeType \cup {None}
      BY <2>0 DEF OpType
    <3>2. rec' \in [Run -> RunRecordType \cup {None}]
      BY <1>1, <1>4e, <2>3, <3>1 DEF RecordRun, RunsTyped
    <3> QED BY <1>1, <2>3, <3>2 DEF RecordRun, RunsTyped
  <2>4. CASE Prepared(r)
    <3> DEFINE o == [runs[r] EXCEPT !.pc = "cleanup", !.commit = op[r].commit]
    <3>1. o \in RunType
      BY <2>0, <2>4 DEF Prepared, At, RunType, OpType
    <3>2. runs' = [runs EXCEPT ![r] = o]
      BY <2>4 DEF Prepared
    <3> HIDE DEF o
    <3> QED BY <1>3, <2>4, <3>1, <3>2 DEF Prepared
  <2>5. CASE AttemptFails(r)
    <3>1. (runs[r].excused \/ At(r, "ok")) \in BOOLEAN /\ runs[r].left \in BOOLEAN
      BY <2>0 DEF RunType
    <3>2. runs' \in [Run -> RunType]
      BY <1>4d, <2>5, <3>1 DEF AttemptFails
    <3> QED BY <1>1, <2>5, <3>2 DEF AttemptFails, RunsTyped
  <2>5a. CASE TimesOut(r)
    <3>1. PICK goesOn \in BOOLEAN : TryAgain(r, runs[r].excused, runs[r].left \/ goesOn)
      BY <2>5a DEF TimesOut
    <3>2. runs[r].excused \in BOOLEAN /\ (runs[r].left \/ goesOn) \in BOOLEAN
      BY <2>0 DEF RunType
    <3>3. runs' \in [Run -> RunType]
      BY <1>4d, <3>1, <3>2
    <3> QED BY <1>1, <2>5a, <3>3 DEF TimesOut, RunsTyped
  <2>5b. CASE Late(r)
    <3>1. CASE Make(r, "mixed")
      BY <1>1, <2>5b, <3>1, MakeTypes DEF Late, RunsTyped
    <3>2. CASE ~Make(r, "mixed")
      BY <1>1, <2>5b, <3>2 DEF Late, RunsTyped
    <3> QED BY <3>1, <3>2
  <2>6. CASE ListRuns(r)
    <3> DEFINE o == [runs[r] EXCEPT !.pc = "delete", !.victims = Victims(r)]
    <3>1. Victims(r) \in Seq(Run)
      BY <1>1, VictimTypes
    <3>2. o \in RunType
      <4> DEFINE v == Victims(r)
      <4> HIDE DEF v
      <4>1. [runs[r] EXCEPT !.pc = "delete", !.victims = v] \in RunType
        BY <2>0, <3>1 DEF v, RunType
      <4> QED BY <4>1 DEF v
    <3>3. runs' = [runs EXCEPT ![r] = o]
      BY <2>6 DEF ListRuns
    <3> HIDE DEF o
    <3> QED BY <1>3, <2>6, <3>2, <3>3 DEF ListRuns
  <2>7. CASE DeleteRun(r)
    <3> DEFINE o == [runs[r] EXCEPT !.victims = Tail(@)]
    <3>1. runs[r].victims \in Seq(Run) /\ runs[r].victims # <<>>
      BY <2>0, <2>7 DEF DeleteRun, RunType
    <3>2. Tail(runs[r].victims) \in Seq(Run)
      BY <3>1, HeadTailProperties
    <3>3. o \in RunType
      BY <2>0, <3>2 DEF RunType
    <3>4. runs' = [runs EXCEPT ![r] = o]
      BY <2>7 DEF DeleteRun
    <3>5. dirs' \in [Run -> {"none", "purged", "source", "empty", "remade", "mixed"}]
      BY <1>1, <2>7 DEF DeleteRun, RunsTyped
    <3> HIDE DEF o
    <3>6. runs' \in [Run -> RunType]
      BY <1>1, <3>3, <3>4 DEF RunsTyped
    <3>7. UNCHANGED <<rec, order, newer>>
      BY <2>7 DEF DeleteRun
    <3> QED BY <1>1, <3>5, <3>6, <3>7 DEF RunsTyped
  <2>8. CASE CleanedUp(r)
    <3> DEFINE o == [runs[r] EXCEPT !.pc = "step", !.victims = <<>>]
    <3>1. o \in RunType
      BY <2>0, EmptySeq DEF RunType
    <3>2. runs' = [runs EXCEPT ![r] = o]
      BY <2>8 DEF CleanedUp
    <3> HIDE DEF o
    <3> QED BY <1>3, <2>8, <3>1, <3>2 DEF CleanedUp
  <2>9. ASSUME NEW next \in {"step", "succeeded", "failed"}, Step(r, next)
        PROVE  RunsTyped'
    <3>1. runs' \in [Run -> RunType]
      BY <1>4c, <2>9 DEF Step
    <3>2. /\ dirs' \in [Run -> {"none", "purged", "source", "empty", "remade", "mixed"}]
          /\ order' \in Seq(Run) /\ newer' \in [Run -> 0..KeepLast]
      <4>1. CASE Exists(r)
        BY <1>1, <2>9, <4>1 DEF Step, RunsTyped
      <4>2. CASE ~Exists(r)
        BY <1>1, <2>9, <4>2, MakeTypes DEF Step
      <4> QED BY <4>1, <4>2
    <3> QED BY <1>1, <2>9, <3>1, <3>2 DEF Step, RunsTyped
  <2>10. CASE Complete(r)
    <3>1. runs' \in [Run -> RunType]
      <4>1. runs[r].excused \in BOOLEAN /\ runs[r].left \in BOOLEAN
        BY <2>0 DEF RunType
      <4> QED BY <1>4, <2>10, <4>1 DEF Complete, Finish, Ended
    <3>2. rec' \in [Run -> RunRecordType \cup {None}]
      BY <1>4e, <2>10 DEF Complete
    <3> QED BY <1>1, <2>10, <3>1, <3>2 DEF Complete, RunsTyped
  <2> QED BY <1>8, <2>1, <2>2, <2>3, <2>4, <2>5, <2>5a, <2>5b, <2>6, <2>7, <2>8,
             <2>9, <2>10 DEF RunSteps
<1>9. ASSUME NEW c \in Operator, NEW k \in Kind, Begin(c, k) PROVE RunsTyped'
  BY <1>2, <1>9 DEF Begin
<1>10. ASSUME NEW c \in Operator, Cut(c) PROVE RunsTyped'
  BY <1>2, <1>10 DEF Cut
<1>11. ASSUME NEW edit \in Edits[cast], Edit(edit) PROVE RunsTyped'
  BY <1>2, <1>11 DEF Edit
<1>12. CASE TimePasses \/ UNCHANGED vars
  BY <1>2, <1>12 DEF TimePasses, vars
<1> QED BY <1>5, <1>6, <1>7, <1>8, <1>9, <1>10, <1>11, <1>12 DEF Next

\* Every step keeps the state typed.
LEMMA StepType == TypeInv /\ [Next]_vars => TypeInv'
<1> SUFFICES ASSUME TypeInv, [Next]_vars PROVE TypeInv'
  OBVIOUS
<1>1. OpsTyped'
  BY PublishOps, OperateOps, OtherOps DEF Next
<1> QED BY <1>1, StoresStep, RunsStep DEF TypeInv

LEMMA TypeInvariant == Spec => []TypeInv
BY InitType, StepType, PTL DEF Spec

\* The state of the typed specification is of the types TLC checks.
LEMMA TypesSuffice == TypeInv => TypeOK
BY DEF TypeInv, StoresTyped, OpsTyped, RunsTyped, TypeOK

-----------------------------------------------------------------------------
(* The channel the workflow reports to.                                    *)

(***************************************************************************)
(* No manifest names another channel, and so nothing that is read of one,  *)
(* of the record or of the schedule does.                                  *)
(***************************************************************************)
HomeOnly(o) ==
  /\ o.was # None => o.was.source = "home"
  /\ o.loaded # None => o.loaded.target = "home"
  /\ o.prev # None => o.prev.target = "home"
TargetInv ==
  /\ TargetKept
  /\ tree.target \in {"unset", "home"}
  /\ \A c \in Caller : HomeOnly(op[c])

LEMMA InitTarget == Init => TargetInv
BY DEF Init, TargetInv, TargetKept, HomeOnly, AtRest, Unread, Tree0, Absent

\* A publication keeps the channel.
LEMMA PublishTarget ==
  ASSUME TypeInv, TargetInv, NEW c \in Caller, Publish(c)
  PROVE  TargetInv'
<1>1. /\ op \in [Caller -> OpType] /\ op[c] \in OpType /\ ShapeOf(c, op[c])
      /\ tree \in TreeType
      /\ record \in RecordType \cup {None} /\ sched \in ScheduleType \cup {None}
      /\ \A d \in Caller : HomeOnly(op[d])
  BY DEF TypeInv, OpsTyped, StoresTyped, TargetInv
<1>2. ASSUME NEW o, HomeOnly(o), op' = [op EXCEPT ![c] = o]
      PROVE  \A d \in Caller : HomeOnly(op'[d])
  BY <1>1, <1>2
<1>3. ASSUME NEW pc, Rest(c, pc) \/ Goto(c, pc)
      PROVE  \A d \in Caller : HomeOnly(op'[d])
  <2>1. CASE Rest(c, pc)
    BY <1>2, <2>1 DEF Rest, AtRest, Unread, HomeOnly
  <2>2. CASE Goto(c, pc)
    <3> DEFINE o == [op[c] EXCEPT !.pc = pc]
    <3>1. HomeOnly(o) /\ op' = [op EXCEPT ![c] = o]
      BY <1>1, <2>2 DEF Goto, HomeOnly, OpType
    <3> HIDE DEF o
    <3> QED BY <1>2, <3>1
  <2> QED BY <1>3, <2>1, <2>2
<1>4. op[c].pc \in Publishing => SourceOf(c) = "home"
  BY <1>1 DEF SourceOf, HomeOnly, ShapeOf
<1>5. CASE Read(c)
  <2>1. CASE record # None
    <3> DEFINE o == [op[c] EXCEPT !.pc = "load", !.was = record]
    <3>1. HomeOnly(o)
      BY <1>1, <2>1 DEF TargetInv, TargetKept, HomeOnly, OpType
    <3>2. op' = [op EXCEPT ![c] = o]
      BY <1>5, <2>1 DEF Read
    <3> HIDE DEF o
    <3> QED BY <1>2, <1>5, <3>1, <3>2 DEF Read, source, TargetInv, TargetKept
  <2> QED BY <1>3, <1>5, <2>1 DEF Read, source, TargetInv, TargetKept
<1>6. CASE Load(c)
  <2>1. CASE Loadable(tree)
    <3> DEFINE o == [op[c] EXCEPT !.pc = "commit", !.loaded = WithTarget(c)]
    <3>1. WithTarget(c).target = "home"
      BY <1>1, <1>4, <1>6 DEF Load, At, Publishing, WithTarget, TargetInv, TreeType
    <3>2. HomeOnly(o)
      BY <1>1, <3>1 DEF HomeOnly, OpType
    <3>3. op' = [op EXCEPT ![c] = o] /\ tree' = WithTarget(c)
      BY <1>6, <2>1 DEF Load
    <3> HIDE DEF o
    <3> QED BY <1>2, <1>6, <3>1, <3>2, <3>3 DEF Load, TargetInv, TargetKept
  <2> QED BY <1>3, <1>6, <2>1 DEF Load, TargetInv, TargetKept
<1>7. ASSUME NEW commit, NEW answer, Published(c, commit, answer)
      PROVE  \A d \in Caller : HomeOnly(op'[d])
  BY <1>2, <1>7 DEF Published, HomeOnly
<1>8. CASE Commit(c)
  <2>1. CASE op' = [op EXCEPT ![c].commit = tree, ![c].pc = "schedule"]
    <3> DEFINE o == [op[c] EXCEPT !.commit = tree, !.pc = "schedule"]
    <3>1. HomeOnly(o) /\ op' = [op EXCEPT ![c] = o]
      BY <1>1, <2>1 DEF HomeOnly, OpType
    <3> HIDE DEF o
    <3> QED BY <1>2, <1>8, <3>1 DEF Commit, TargetInv, TargetKept
  <2> QED BY <1>3, <1>7, <1>8, <2>1 DEF Commit, TargetInv, TargetKept
<1>9. CASE UpdateSchedule(c)
  <2>1. CASE Rest(c, "error") /\ sched' = sched
    BY <1>3, <1>9, <2>1 DEF UpdateSchedule, source, TargetInv, TargetKept
  <2>2. CASE ~(Rest(c, "error") /\ sched' = sched)
    <3> DEFINE o == [op[c] EXCEPT !.pc = "record", !.prev = sched]
    <3>1. op' = [op EXCEPT ![c] = o] /\ sched' = Scheduled(c, KeptState(c))
      BY <1>9, <2>2 DEF UpdateSchedule
    <3>2. HomeOnly(o)
      BY <1>1 DEF HomeOnly, OpType, TargetInv, TargetKept
    <3>3. op[c].loaded # None
      BY <1>1, <1>9 DEF UpdateSchedule, At, ShapeOf
    <3> HIDE DEF o
    <3>4. \A d \in Caller : HomeOnly(op'[d])
      BY <1>2, <3>1, <3>2
    <3>5. sched'.target = "home"
      BY <1>1, <3>1, <3>3 DEF Scheduled, HomeOnly
    <3> QED BY <1>9, <3>4, <3>5 DEF UpdateSchedule, source, TargetInv, TargetKept
  <2> QED BY <2>1, <2>2
<1>10. CASE UpdateRecord(c)
  <2>1. CASE Upsert(Recorded(c, op[c].was.status)) /\ Published(c, op[c].commit, "ok")
    <3>1. record'.source = "home"
      BY <1>4, <1>10, <2>1 DEF UpdateRecord, At, Publishing, Upsert, Recorded
    <3> QED BY <1>7, <1>10, <2>1, <3>1 DEF UpdateRecord, source, TargetInv, TargetKept
  <2>2. CASE Goto(c, "rollback") /\ UNCHANGED record
    BY <1>3, <1>10, <2>2 DEF UpdateRecord, source, TargetInv, TargetKept
  <2> QED BY <1>10, <2>1, <2>2 DEF UpdateRecord
<1>11. CASE RollBack(c)
  <2>1. sched' # None => sched'.target = "home"
    BY <1>1, <1>11 DEF RollBack, At, ShapeOf, HomeOnly, TargetInv, TargetKept
  <2> QED BY <1>3, <1>11, <2>1 DEF RollBack, source, TargetInv, TargetKept
<1> QED BY <1>5, <1>6, <1>8, <1>9, <1>10, <1>11 DEF Publish

\* So does every step.
LEMMA TargetStep == TypeInv /\ TargetInv /\ [Next]_vars => TargetInv'
<1> SUFFICES ASSUME TypeInv, TargetInv, [Next]_vars PROVE TargetInv'
  OBVIOUS
<1>1. /\ op \in [Caller -> OpType] /\ tree \in TreeType
      /\ record \in RecordType \cup {None} /\ sched \in ScheduleType \cup {None}
      /\ \A c \in Caller : HomeOnly(op[c]) /\ ShapeOf(c, op[c])
  BY DEF TypeInv, OpsTyped, StoresTyped, TargetInv
<1>2. ASSUME NEW c \in Caller, NEW o, HomeOnly(o), op' = [op EXCEPT ![c] = o]
      PROVE  \A d \in Caller : HomeOnly(op'[d])
  BY <1>1, <1>2
<1>3. ASSUME NEW c \in Caller, NEW pc, Rest(c, pc)
      PROVE  \A d \in Caller : HomeOnly(op'[d])
  BY <1>2, <1>3 DEF Rest, AtRest, Unread, HomeOnly
<1>4. ASSUME NEW c \in Caller, NEW pc, Goto(c, pc)
      PROVE  \A d \in Caller : HomeOnly(op'[d])
  <2> DEFINE o == [op[c] EXCEPT !.pc = pc]
  <2>1. HomeOnly(o) /\ op' = [op EXCEPT ![c] = o]
    BY <1>1, <1>4 DEF Goto, HomeOnly, OpType
  <2> HIDE DEF o
  <2> QED BY <1>2, <2>1
<1>5. ASSUME NEW c \in Caller, NEW kind, NEW pc, op' = [op EXCEPT ![c] = Unread(kind, pc)]
      PROVE  \A d \in Caller : HomeOnly(op'[d])
  BY <1>2, <1>5 DEF Unread, HomeOnly
<1>6. ASSUME UNCHANGED <<tree, record, sched>>, \A c \in Caller : HomeOnly(op'[c])
      PROVE  TargetInv'
  BY <1>6 DEF TargetInv, TargetKept
<1>7. ASSUME UNCHANGED <<tree, record, sched, op>> PROVE TargetInv'
  BY <1>7 DEF TargetInv, TargetKept
<1>8. ASSUME NEW c \in Operator, Operate(c) PROVE TargetInv'
  <2>1. c \in Caller /\ op[c] \in OpType /\ ShapeOf(c, op[c]) /\ HomeOnly(op[c])
    BY <1>1
  <2>2. CASE CreateSchedule(c)
    <3>1. sched' # None => sched'.target = "home"
      BY <2>1, <2>2 DEF CreateSchedule, At, ShapeOf, Scheduled, HomeOnly, TargetInv,
         TargetKept
    <3>2. \A d \in Caller : HomeOnly(op'[d])
      BY <1>3, <1>4, <2>1, <2>2 DEF CreateSchedule
    <3> QED BY <2>2, <3>1, <3>2 DEF CreateSchedule, source, TargetInv, TargetKept
  <2>3. CASE CreateRecord(c)
    <3>1. record' # None => record'.source = "home"
      BY <2>3 DEF CreateRecord, Upsert, Recorded, SourceOf, TargetInv, TargetKept
    <3>2. \A d \in Caller : HomeOnly(op'[d])
      BY <1>3, <1>4, <2>1, <2>3 DEF CreateRecord
    <3> QED BY <2>3, <3>1, <3>2 DEF CreateRecord, source, TargetInv, TargetKept
  <2>4. CASE Initialize(c) \/ RemoveSource(c)
    <3>1. \A d \in Caller : HomeOnly(op'[d])
      BY <1>3, <1>4, <2>1, <2>4 DEF Initialize, RemoveSource
    <3>2. tree'.target = "unset"
      BY <2>4 DEF Initialize, RemoveSource, Bare, Absent
    <3> QED BY <2>4, <3>1, <3>2 DEF Initialize, RemoveSource, TargetInv, TargetKept
  <2>5. CASE Flip(c)
    <3>1. sched' # None => sched'.target = "home"
      BY <1>1, <2>5 DEF Flip, ScheduleType, TargetInv, TargetKept
    <3>2. \A d \in Caller : HomeOnly(op'[d])
      BY <1>3, <1>4, <2>1, <2>5 DEF Flip
    <3> QED BY <2>5, <3>1, <3>2 DEF Flip, source, TargetInv, TargetKept
  <2>6. CASE Look(c)
    <3>1. CASE record # None
      <4> DEFINE o == [op[c] EXCEPT !.pc = "mark", !.was = record]
      <4>1. HomeOnly(o)
        BY <2>1, <3>1 DEF TargetInv, TargetKept, HomeOnly, OpType
      <4>2. op' = [op EXCEPT ![c] = o]
        BY <2>6, <3>1 DEF Look
      <4> HIDE DEF o
      <4>3. \A d \in Caller : HomeOnly(op'[d])
        BY <1>2, <2>1, <4>1, <4>2
      <4> QED BY <1>6, <2>6, <4>3 DEF Look, source
    <3> QED BY <1>3, <1>6, <2>1, <2>6, <3>1 DEF Look, source
  <2>7. CASE Mark(c)
    <3>1. op[c].was \in RecordType /\ op[c].was.source = "home"
      BY <2>1, <2>7 DEF Mark, At, ShapeOf, OpType, HomeOnly
    <3>2. record' # None => record'.source = "home"
      BY <2>7, <3>1 DEF Mark, Upsert, RecordType, TargetInv, TargetKept
    <3>3. \A d \in Caller : HomeOnly(op'[d])
      BY <1>3, <2>1, <2>7 DEF Mark
    <3> QED BY <2>7, <3>2, <3>3 DEF Mark, source, TargetInv, TargetKept
  <2>8. CASE UndoCreate(c) \/ Unschedule(c) \/ Forget(c)
    <3>1. \A d \in Caller : HomeOnly(op'[d])
      BY <1>3, <1>4, <2>1, <2>8 DEF UndoCreate, Unschedule, Forget
    <3> QED BY <2>8, <3>1 DEF UndoCreate, Unschedule, Forget, source, TargetInv,
            TargetKept
  <2>9. CASE Check(c) \/ Find(c) \/ Checkpoint(c) \/ Purge(c) \/ Trigger(c)
    <3>1. \A d \in Caller : HomeOnly(op'[d])
      BY <1>3, <1>4, <2>1, <2>9 DEF Check, Find, Checkpoint, Purge, Trigger
    <3> QED BY <1>6, <2>9, <3>1 DEF Check, Find, Checkpoint, Purge, Trigger, source
  <2> QED BY <1>8, <2>2, <2>3, <2>4, <2>5, <2>6, <2>7, <2>8, <2>9 DEF Operate
<1>9. ASSUME NEW c \in Operator, NEW k \in Kind, Begin(c, k) PROVE TargetInv'
  BY <1>5, <1>6, <1>9 DEF Begin, Start, source
<1>10. ASSUME NEW c \in Operator, Cut(c) PROVE TargetInv'
  BY <1>3, <1>6, <1>10 DEF Cut, source
<1>11. ASSUME NEW r \in Run, RunSteps(r) PROVE TargetInv'
  <2>1. CASE Prepare(r)
    BY <1>5, <1>6, <2>1 DEF Prepare, Start, source
  <2>2. CASE Archive(r) \/ RecordRun(r) \/ Prepared(r) \/ AttemptFails(r)
             \/ TimesOut(r)
    <3>1. \A d \in Caller : HomeOnly(op'[d])
      BY <1>3, <1>4, <2>2 DEF Archive, RecordRun, Prepared, AttemptFails, TimesOut
    <3> QED BY <1>6, <2>2, <3>1 DEF Archive, RecordRun, Prepared, AttemptFails,
            TimesOut, source
  <2>3. CASE ListRuns(r) \/ DeleteRun(r) \/ CleanedUp(r) \/ Complete(r) \/ Late(r)
             \/ \E next \in {"step", "succeeded", "failed"} : Step(r, next)
    BY <1>7, <2>3 DEF ListRuns, DeleteRun, CleanedUp, Complete, Late, Step, source
  <2> QED BY <1>11, <2>1, <2>2, <2>3 DEF RunSteps
<1>12. ASSUME NEW r \in Run, Fire(r) \/ Cancel(r) PROVE TargetInv'
  BY <1>7, <1>12 DEF Fire, Cancel, source
<1>13. ASSUME NEW edit \in Edits[cast], Edit(edit) PROVE TargetInv'
  <2>1. edit[2] \in {"home", "unset"}
    BY <1>13 DEF TypeInv, StoresTyped
  <2> QED BY <1>13, <2>1 DEF Edit, TargetInv, TargetKept
<1>14. CASE TimePasses \/ UNCHANGED vars
  BY <1>7, <1>14 DEF TimePasses, vars, source
<1>15. ASSUME NEW r \in Run, Trip(r) PROVE TargetInv'
  <2>1. sched'.target = sched.target /\ sched # None
    BY <1>1, <1>15 DEF Trip, ScheduleType
  <2> QED BY <1>15, <2>1 DEF Trip, source, TargetInv, TargetKept
<1> QED BY <1>8, <1>9, <1>10, <1>11, <1>12, <1>13, <1>14, <1>15, PublishTarget
        DEF Next

-----------------------------------------------------------------------------
(* The record and the schedule.                                            *)

Quiet == "torn" \notin disturbed

\* The schedule is of the commit that the row names.
Same(row, schedule) ==
  schedule.commit = row.commit /\ schedule.spec = row.commit.spec

\* The row and the schedule are of the same workflow, but for what a failed
\* write has left.
Agree(row, schedule) ==
  /\ row = None => schedule = None
  /\ row # None => row.commit \in repo
  /\ row # None /\ schedule = None => "row" \in disturbed
  /\ row # None /\ schedule # None =>
       /\ Same(row, schedule)
       /\ Follows(schedule.state, row.status) \/ "status" \in disturbed

(***************************************************************************)
(* The caller at work has read what the stores still hold; where it has    *)
(* changed one store and not yet the other, what it knows would make them  *)
(* agree again, by going on or by putting back.                            *)
(***************************************************************************)
Midway(c) ==
  LET o == op[c] IN
  /\ o.pc \in {"read", "load", "commit", "schedule", "check", "initialize", "find",
               "save", "flip", "unschedule", "trigger", "archive", "running"} =>
       Agree(record, sched)
  /\ o.pc \in {"load", "commit", "schedule"} => o.was = record
  /\ o.pc = "initialize" => record = None
  /\ o.pc = "commit" => o.loaded = tree
  /\ o.pc \in {"schedule", "record"} => o.commit = o.loaded /\ o.commit \in repo
  /\ o.pc = "record" => sched # None /\ sched = Scheduled(c, sched.state)
  /\ o.pc = "record" /\ o.kind # "create" =>
       /\ o.was = record /\ Agree(record, o.prev)
       /\ Follows(sched.state, record.status) \/ "status" \in disturbed
  /\ o.pc = "record" /\ o.kind = "create" =>
       record = None /\ Follows(sched.state, "active")
  /\ o.pc = "rollback" => sched # None /\ Agree(record, o.prev)
  /\ o.pc = "undo" => record = None
  /\ o.pc \in {"look", "mark"} =>
       /\ record # None /\ sched # None
       /\ record.commit \in repo /\ Same(record, sched)
       /\ Follows(sched.state, StateAfter(c))
  /\ o.pc = "mark" => o.was = record
  /\ o.pc \in {"forget", "removing", "purge"} => sched = None
  /\ o.pc = "forget" /\ record # None => record.commit \in repo
  /\ o.pc \in {"removing", "purge"} => record = None

QuietInv ==
  Quiet =>
    /\ \A c, d \in InProgress : c = d
    /\ InProgress = {} => Agree(record, sched)
    /\ \A c \in InProgress : Midway(c)

LEMMA InitQuiet == Init => QuietInv
<1> SUFFICES ASSUME Init PROVE QuietInv
  OBVIOUS
<1>1. InProgress = {}
  BY DEF Init, InProgress, AtRest, Unread, Resting
<1>2. Agree(record, sched)
  <2>1. CASE record = None /\ sched = None
    BY <2>1 DEF Agree
  <2>2. CASE ~(record = None /\ sched = None)
    <3>1. /\ record = [status |-> "active", commit |-> Tree0, source |-> "home"]
          /\ sched = [commit |-> Tree0, spec |-> "cron", target |-> "home",
                      state |-> "active"]
          /\ Tree0 \in repo /\ Tree0.spec = "cron"
      BY <2>2 DEF Init, Tree0
    <3>2. record # None /\ sched # None
      <4>1. Tree0 \in TreeType
        BY DEF Tree0, TreeType, Version
      <4>2. record \in RecordType /\ sched \in ScheduleType
        BY <3>1, <4>1 DEF RecordType, ScheduleType
      <4> QED BY <4>2
    <3> QED BY <3>1, <3>2 DEF Agree, Same, Follows
  <2> QED BY <2>1, <2>2
<1> QED BY <1>1, <1>2 DEF QuietInv

\* The one caller at work goes on, or comes to rest.
LEMMA WorkStep ==
  ASSUME TypeInv, QuietInv, Quiet, NEW c \in InProgress, NEW o,
         op' = [op EXCEPT ![c] = o],
         o.pc \in Resting => Agree(record, sched)',
         o.pc \notin Resting => Midway(c)'
  PROVE  QuietInv'
<1>1. \A d \in InProgress : d = c
  BY DEF QuietInv
<1>2. op \in [Caller -> OpType] /\ c \in Caller
  BY DEF TypeInv, OpsTyped, InProgress
<1>3. op'[c] = o /\ \A d \in Caller : d # c => op'[d] = op[d]
  BY <1>2
<1>4. InProgress' = IF o.pc \in Resting THEN {} ELSE {c}
  BY <1>1, <1>2, <1>3 DEF InProgress
<1>5. /\ \A d, e \in InProgress' : d = e
      /\ InProgress' = {} => Agree(record, sched)'
      /\ \A d \in InProgress' : d = c /\ Midway(c)'
  BY <1>4
<1>6. \A d \in InProgress' : Midway(d)'
  BY <1>5
<1> QED BY <1>5, <1>6 DEF QuietInv

\* A caller at rest begins, or rests otherwise.
LEMMA FromRest ==
  ASSUME TypeInv, QuietInv, NEW c \in Caller, op[c].pc \in Resting, NEW o,
         op' = [op EXCEPT ![c] = o], UNCHANGED <<source, record, sched>>,
         \/ o.pc \in Resting /\ disturbed' = disturbed
         \/ /\ o.pc \in {"read", "check", "find", "flip", "unschedule"}
            /\ Overlaps
  PROVE  QuietInv'
<1> SUFFICES ASSUME Quiet' PROVE QuietInv'
  BY DEF QuietInv
<1>1. op \in [Caller -> OpType]
  BY DEF TypeInv, OpsTyped
<1>2. op'[c] = o /\ \A d \in Caller : d # c => op'[d] = op[d]
  BY <1>1
<1>3. CASE o.pc \in Resting
  <2>1. InProgress' = InProgress /\ Quiet /\ disturbed' = disturbed
    BY <1>2, <1>3 DEF InProgress, Resting, Quiet
  <2>2. ASSUME NEW d \in InProgress PROVE Midway(d)'
    <3>1. Midway(d) /\ op'[d] = op[d]
      BY <1>2, <2>1 DEF QuietInv, InProgress
    <3> QED BY <2>1, <3>1 DEF Midway, Agree, Scheduled, StateAfter, source
  <2>3. Agree(record, sched)' = Agree(record, sched)
    BY <2>1 DEF Agree, source
  <2> QED BY <2>1, <2>2, <2>3 DEF QuietInv
<1>4. CASE o.pc \notin Resting
  <2>1. /\ Quiet /\ InProgress = {} /\ disturbed' = disturbed
        /\ o.pc \in {"read", "check", "find", "flip", "unschedule"}
    BY <1>4 DEF Overlaps, Disturb, Quiet
  <2>2. InProgress' = {c}
    BY <1>2, <1>4, <2>1 DEF InProgress
  <2>3. Agree(record, sched)'
    BY <2>1 DEF QuietInv, Agree, source
  <2>4. Midway(c)'
    <3>1. op'[c].pc \in {"read", "check", "find", "flip", "unschedule"}
      BY <1>2, <2>1
    <3>2. Midway(c)' <=> Agree(record, sched)'
      BY <3>1 DEF Midway
    <3> QED BY <2>3, <3>2
  <2>5. \A d \in InProgress' : d = c
    BY <2>2
  <2>6. \A d \in InProgress' : Midway(d)'
    BY <2>4, <2>5
  <2> QED BY <2>2, <2>5, <2>6 DEF QuietInv
<1> QED BY <1>3, <1>4

\* A publication of the one caller at work.
LEMMA PublishQuiet ==
  ASSUME TypeInv, QuietInv, NEW c \in Caller, Publish(c)
  PROVE  QuietInv'
<1> SUFFICES ASSUME Quiet' PROVE QuietInv'
  BY DEF QuietInv
<1>1. /\ op \in [Caller -> OpType] /\ op[c] \in OpType /\ ShapeOf(c, op[c])
      /\ tree \in TreeType
      /\ record \in RecordType \cup {None} /\ sched \in ScheduleType \cup {None}
  BY DEF TypeInv, OpsTyped, StoresTyped
<1>2. Quiet /\ disturbed' = disturbed
  BY <1>1 DEF Publish, Read, Load, Commit, UpdateSchedule, UpdateRecord, RollBack,
     Disturb, Quiet
<1>3. op[c].pc \in {"read", "load", "commit", "schedule", "record", "rollback"}
  BY DEF Publish, Read, Load, Commit, UpdateSchedule, UpdateRecord, RollBack, At
<1>4. c \in InProgress /\ Midway(c)
  BY <1>2, <1>3 DEF InProgress, Resting, QuietInv
<1>5. ASSUME NEW o, op' = [op EXCEPT ![c] = o], o.pc \in Resting, Agree(record, sched)'
      PROVE  QuietInv'
  BY <1>2, <1>4, <1>5, WorkStep
<1>6. ASSUME NEW o, op' = [op EXCEPT ![c] = o], o.pc \notin Resting, Midway(c)'
      PROVE  QuietInv'
  BY <1>2, <1>4, <1>6, WorkStep
<1>7. ASSUME NEW pc \in Resting, Rest(c, pc), Agree(record, sched)'
      PROVE  QuietInv'
  <2>1. AtRest(pc).pc \in Resting /\ op' = [op EXCEPT ![c] = AtRest(pc)]
    BY <1>7 DEF Rest, AtRest, Unread
  <2> QED BY <1>5, <1>7, <2>1
<1>8. ASSUME NEW commit, NEW answer \in {"current", "ok"},
             Published(c, commit, answer), Agree(record, sched)'
      PROVE  QuietInv'
  <2> DEFINE o == [kind |-> op[c].kind,
                   pc |-> CASE op[c].kind = "trigger" -> "trigger"
                            [] op[c].kind = "prepare" -> "archive"
                            [] OTHER -> answer,
                   was |-> None, loaded |-> None, prev |-> None, commit |-> commit]
  <2>1. op' = [op EXCEPT ![c] = o] /\ op'[c] = o
    BY <1>1, <1>8 DEF Published
  <2>2. o.pc \in {"trigger", "archive"} \/ o.pc \in Resting
    BY <1>8 DEF Resting
  <2> HIDE DEF o
  <2>3. CASE o.pc \in {"trigger", "archive"}
    <3>1. Midway(c)'
      BY <1>8, <2>1, <2>3 DEF Midway
    <3> QED BY <1>6, <2>1, <2>3, <3>1 DEF Resting
  <2>4. CASE o.pc \in Resting
    BY <1>5, <1>8, <2>1, <2>4
  <2> QED BY <2>2, <2>3, <2>4
<1>9. ASSUME Agree(record, sched), UNCHANGED <<record, sched, disturbed>>,
             repo \subseteq repo'
      PROVE  Agree(record, sched)'
  BY <1>9 DEF Agree
<1>10. CASE Read(c)
  <2>1. Agree(record, sched)'
    BY <1>2, <1>4, <1>9, <1>10 DEF Midway, Read, At, source
  <2>2. CASE record # None
    <3> DEFINE o == [op[c] EXCEPT !.pc = "load", !.was = record]
    <3>1. op' = [op EXCEPT ![c] = o] /\ op'[c] = o
      BY <1>1, <1>10, <2>2 DEF Read
    <3>2. o.pc = "load" /\ o.was = record
      BY <1>1 DEF OpType
    <3>3. Midway(c)'
      BY <1>10, <2>1, <3>1, <3>2 DEF Midway, Read
    <3> HIDE DEF o
    <3> QED BY <1>6, <3>1, <3>2, <3>3 DEF Resting
  <2> QED BY <1>7, <1>10, <2>1, <2>2 DEF Read, Resting
<1>11. CASE Load(c)
  <2>1. Agree(record, sched)' /\ op[c].was = record /\ record' = record
    BY <1>2, <1>4, <1>9, <1>11 DEF Midway, Load, At
  <2>2. CASE Loadable(tree)
    <3> DEFINE o == [op[c] EXCEPT !.pc = "commit", !.loaded = WithTarget(c)]
    <3>1. op' = [op EXCEPT ![c] = o] /\ op'[c] = o /\ tree' = WithTarget(c)
      BY <1>1, <1>11, <2>2 DEF Load
    <3>2. o.pc = "commit" /\ o.was = op[c].was /\ o.loaded = WithTarget(c)
      BY <1>1 DEF OpType
    <3> HIDE DEF o
    <3>3. Midway(c)'
      BY <2>1, <3>1, <3>2 DEF Midway
    <3> QED BY <1>6, <3>1, <3>2, <3>3 DEF Resting
  <2> QED BY <1>7, <1>11, <2>1, <2>2 DEF Load, Resting
<1>12. CASE Commit(c)
  <2>1. /\ Agree(record, sched)' /\ op[c].was = record /\ record' = record
        /\ op[c].loaded = tree /\ tree' = tree
    BY <1>2, <1>4, <1>9, <1>12 DEF Midway, Commit, At
  <2>2. CASE op' = [op EXCEPT ![c].commit = tree, ![c].pc = "schedule"]
             /\ tree \in repo'
    <3> DEFINE o == [op[c] EXCEPT !.commit = tree, !.pc = "schedule"]
    <3>1. op' = [op EXCEPT ![c] = o] /\ op'[c] = o
      BY <1>1, <2>2
    <3>2. /\ o.pc = "schedule" /\ o.was = op[c].was /\ o.loaded = op[c].loaded
          /\ o.commit = tree
      BY <1>1 DEF OpType
    <3> HIDE DEF o
    <3>3. Midway(c)'
      BY <2>1, <2>2, <3>1, <3>2 DEF Midway
    <3> QED BY <1>6, <3>1, <3>2, <3>3 DEF Resting
  <2> QED BY <1>7, <1>8, <1>12, <2>1, <2>2 DEF Commit, Resting
<1>13. CASE UpdateSchedule(c)
  <2>1. /\ Agree(record, sched) /\ op[c].was = record /\ record' = record
        /\ op[c].commit = op[c].loaded /\ op[c].commit \in repo /\ repo' = repo
        /\ op[c].kind # "create"
    BY <1>4, <1>13 DEF Midway, UpdateSchedule, At, source
  <2>2. CASE Rest(c, "error") /\ sched' = sched
    BY <1>2, <1>7, <1>9, <2>1, <2>2 DEF Resting
  <2>3. CASE ~(Rest(c, "error") /\ sched' = sched)
    <3> DEFINE o == [op[c] EXCEPT !.pc = "record", !.prev = sched]
    <3>1. /\ op' = [op EXCEPT ![c] = o] /\ op'[c] = o
          /\ sched # None /\ sched' = Scheduled(c, sched.state)
      BY <1>1, <1>13, <2>3 DEF UpdateSchedule, KeptState
    <3>2. /\ o.pc = "record" /\ o.was = op[c].was /\ o.loaded = op[c].loaded
          /\ o.commit = op[c].commit /\ o.prev = sched /\ o.kind = op[c].kind
      BY <1>1 DEF OpType
    <3> HIDE DEF o
    <3>3. Agree(record, op[c].prev)'
      BY <1>2, <2>1, <3>1, <3>2 DEF Agree
    <3>4. sched' # None /\ sched'.state = sched.state
      <4>1. sched.state \in {"active", "paused", "tripped"}
        BY <1>1, <3>1 DEF ScheduleType
      <4>2. Scheduled(c, sched.state) \in ScheduleType
        BY <1>13, <4>1, PublicationTypes DEF UpdateSchedule, At
      <4> QED BY <3>1, <4>2 DEF Scheduled
    <3>5. sched' = Scheduled(c, sched.state)'
      BY <3>1, <3>2, <3>4 DEF Scheduled
    <3>6. record # None /\ (Follows(sched.state, record.status) \/ "status" \in disturbed)
      BY <1>1, <1>13, <2>1, <3>1 DEF Agree, UpdateSchedule, At, ShapeOf, Publishing
    <3>7. Midway(c)'
      BY <1>2, <2>1, <3>1, <3>2, <3>3, <3>4, <3>5, <3>6 DEF Midway
    <3> QED BY <1>6, <3>1, <3>2, <3>7 DEF Resting
  <2> QED BY <2>2, <2>3
<1>14. CASE UpdateRecord(c)
  <2>1. /\ op[c].kind # "create" /\ op[c].was = record /\ Agree(record, op[c].prev)
        /\ op[c].was # None /\ sched = Scheduled(c, sched.state) /\ sched # None
        /\ Follows(sched.state, record.status) \/ "status" \in disturbed
        /\ op[c].commit = op[c].loaded /\ op[c].commit \in repo
        /\ sched' = sched /\ repo' = repo
    BY <1>1, <1>4, <1>14 DEF Midway, UpdateRecord, At, source, ShapeOf, Publishing
  <2>2. CASE Upsert(Recorded(c, op[c].was.status)) /\ Published(c, op[c].commit, "ok")
    <3>1. Recorded(c, op[c].was.status) \in RecordType
      <4>1. op[c].was.status \in {"active", "paused"}
        BY <1>1, <1>14, <2>1 DEF UpdateRecord, At, ShapeOf, OpType, RecordType
      <4> QED BY <1>14, <4>1, PublicationTypes DEF UpdateRecord, At
    <3>2. /\ record' # None /\ record'.commit = op[c].commit
          /\ record'.status = record.status
      BY <2>1, <2>2, <3>1 DEF Upsert, Recorded
    <3>3. sched.commit = op[c].commit /\ sched.spec = op[c].loaded.spec
      BY <2>1 DEF Scheduled
    <3>4. Agree(record, sched)'
      BY <1>2, <2>1, <3>2, <3>3 DEF Agree, Same
    <3> QED BY <1>8, <2>2, <3>4
  <2>3. CASE Goto(c, "rollback") /\ UNCHANGED record
    <3> DEFINE o == [op[c] EXCEPT !.pc = "rollback"]
    <3>1. op' = [op EXCEPT ![c] = o] /\ op'[c] = o
      BY <1>1, <2>3 DEF Goto
    <3>2. /\ o.pc = "rollback" /\ o.prev = op[c].prev
      BY <1>1 DEF OpType
    <3> HIDE DEF o
    <3>3. Midway(c)'
      BY <1>2, <2>1, <2>3, <3>1, <3>2 DEF Midway, Agree
    <3> QED BY <1>6, <3>1, <3>2, <3>3 DEF Resting
  <2> QED BY <1>14, <2>2, <2>3 DEF UpdateRecord
<1>15. CASE RollBack(c)
  <2>1. sched # None /\ Agree(record, op[c].prev) /\ UNCHANGED <<record, repo>>
    BY <1>4, <1>15 DEF Midway, RollBack, At, source
  <2>2. sched' = op[c].prev
    BY <1>15, <2>1 DEF RollBack, Disturb, Quiet
  <2>3. Agree(record, sched)'
    BY <1>2, <2>1, <2>2 DEF Agree
  <2> QED BY <1>7, <1>15, <2>3 DEF RollBack, Resting
<1> QED BY <1>10, <1>11, <1>12, <1>13, <1>14, <1>15 DEF Publish

\* A step of another operation, by the one caller at work.
LEMMA OperateQuiet ==
  ASSUME TypeInv, QuietInv, NEW c \in Operator, Operate(c)
  PROVE  QuietInv'
<1> SUFFICES ASSUME Quiet' PROVE QuietInv'
  BY DEF QuietInv
<1>1. /\ op \in [Caller -> OpType] /\ op[c] \in OpType /\ ShapeOf(c, op[c])
      /\ c \in Caller
      /\ record \in RecordType \cup {None} /\ sched \in ScheduleType \cup {None}
  BY DEF TypeInv, OpsTyped, StoresTyped
<1>2. Quiet /\ (~Mark(c) /\ ~Forget(c) => disturbed' = disturbed)
  BY <1>1 DEF Operate, Check, CreateSchedule, CreateRecord, UndoCreate, Initialize,
     Find, Checkpoint, Flip, Look, Mark, Unschedule, Forget, RemoveSource, Purge,
     Trigger, Disturb, Quiet
<1>3. op[c].pc \in {"check", "schedule", "record", "undo", "initialize", "find",
                    "save", "flip", "look", "mark", "unschedule", "forget",
                    "removing", "purge", "trigger"}
  BY DEF Operate, Check, CreateSchedule, CreateRecord, UndoCreate, Initialize,
     Find, Checkpoint, Flip, Look, Mark, Unschedule, Forget, RemoveSource, Purge,
     Trigger, At
<1>4. c \in InProgress /\ Midway(c)
  BY <1>1, <1>2, <1>3 DEF InProgress, Resting, QuietInv
<1>5. ASSUME NEW o, op' = [op EXCEPT ![c] = o], o.pc \notin Resting, Midway(c)'
      PROVE  QuietInv'
  BY <1>2, <1>4, <1>5, WorkStep
<1>6. ASSUME NEW pc \in Resting, Rest(c, pc), Agree(record, sched)'
      PROVE  QuietInv'
  <2>1. AtRest(pc).pc \in Resting /\ op' = [op EXCEPT ![c] = AtRest(pc)]
    BY <1>6 DEF Rest, AtRest, Unread
  <2> QED BY <1>2, <1>4, <1>6, <2>1, WorkStep
<1>7. ASSUME NEW pc, pc \notin Resting, Goto(c, pc), Midway(c)'
      PROVE  QuietInv'
  <2> DEFINE o == [op[c] EXCEPT !.pc = pc]
  <2>1. op' = [op EXCEPT ![c] = o] /\ o.pc = pc
    BY <1>1, <1>7 DEF Goto, OpType
  <2> HIDE DEF o
  <2> QED BY <1>5, <1>7, <2>1
<1>8. ASSUME NEW pc, Goto(c, pc)
      PROVE  /\ op'[c].pc = pc /\ op'[c].was = op[c].was /\ op'[c].prev = op[c].prev
             /\ op'[c].loaded = op[c].loaded /\ op'[c].commit = op[c].commit
             /\ op'[c].kind = op[c].kind
  BY <1>1, <1>8 DEF Goto, OpType
<1>9. ASSUME Agree(record, sched), UNCHANGED <<record, sched, disturbed>>,
             repo \subseteq repo'
      PROVE  Agree(record, sched)'
  BY <1>9 DEF Agree
<1>10. CASE Check(c)
  <2>1. Agree(record, sched)' /\ record' = record /\ disturbed' = disturbed
    BY <1>4, <1>9, <1>10 DEF Midway, Check, At, source
  <2>2. CASE record = None /\ Goto(c, "load")
    <3>1. op[c].kind = "create"
      BY <1>8, <1>10, <2>2 DEF Check
    <3>2. op'[c].was = None
      BY <1>1, <1>8, <2>2, <3>1 DEF ShapeOf
    <3>g. /\ op'[c].pc = "load" /\ op'[c].was = op[c].was
          /\ op'[c].loaded = op[c].loaded /\ op'[c].commit = op[c].commit
          /\ op'[c].kind = op[c].kind
      BY <1>8, <2>1, <2>2, <3>2
    <3>3. Midway(c)'
      BY <3>g, <2>1, <2>2, <3>2 DEF Midway
    <3> QED BY <1>7, <2>2, <3>3 DEF Resting
  <2>3. CASE record = None /\ Goto(c, "initialize")
    <3>g. /\ op'[c].pc = "initialize" /\ op'[c].was = op[c].was
          /\ op'[c].loaded = op[c].loaded /\ op'[c].commit = op[c].commit
          /\ op'[c].kind = op[c].kind
      BY <1>8, <2>1, <2>3
    <3>1. Midway(c)'
      BY <3>g, <2>1, <2>3 DEF Midway
    <3> QED BY <1>7, <2>3, <3>1 DEF Resting
  <2> QED BY <1>6, <1>10, <2>1, <2>2, <2>3 DEF Check, Resting
<1>11. CASE CreateSchedule(c)
  <2>1. /\ Agree(record, sched) /\ op[c].was = record /\ record' = record
        /\ op[c].commit = op[c].loaded /\ op[c].commit \in repo /\ repo' = repo
        /\ op[c].kind = "create" /\ op[c].was = None /\ disturbed' = disturbed
    BY <1>1, <1>4, <1>11 DEF Midway, CreateSchedule, At, source, ShapeOf
  <2>2. CASE sched' = Scheduled(c, "active") /\ Goto(c, "record")
    <3>1. sched' # None /\ sched'.state = "active"
      <4>1. Scheduled(c, "active") \in ScheduleType
        BY <1>1, <1>11, PublicationTypes DEF CreateSchedule, At
      <4> QED BY <2>2, <4>1 DEF Scheduled
    <3>g. /\ op'[c].pc = "record" /\ op'[c].was = op[c].was
          /\ op'[c].loaded = op[c].loaded /\ op'[c].commit = op[c].commit
          /\ op'[c].kind = op[c].kind
      BY <1>8, <2>1, <2>2, <3>1
    <3>2. sched' = Scheduled(c, sched.state)'
      BY <2>2, <3>1, <3>g DEF Scheduled
    <3>3. Midway(c)'
      BY <3>g, <2>1, <3>1, <3>2 DEF Midway, Follows
    <3> QED BY <1>7, <2>2, <3>3 DEF Resting
  <2>3. CASE Rest(c, "error") /\ UNCHANGED sched
    BY <1>6, <1>9, <2>1, <2>3 DEF Resting
  <2> QED BY <1>11, <2>2, <2>3 DEF CreateSchedule
<1>12. CASE CreateRecord(c)
  <2>1. /\ record = None /\ sched # None /\ sched = Scheduled(c, sched.state)
        /\ Follows(sched.state, "active")
        /\ op[c].commit = op[c].loaded /\ op[c].commit \in repo
        /\ sched' = sched /\ repo' = repo /\ disturbed' = disturbed
    BY <1>4, <1>12 DEF Midway, CreateRecord, At, source
  <2>2. CASE Upsert(Recorded(c, "active")) /\ Rest(c, "ok")
    <3>1. Recorded(c, "active") \in RecordType
      BY <1>1, <1>12, PublicationTypes DEF CreateRecord, At
    <3>2. /\ record' # None /\ record'.commit = op[c].commit
          /\ record'.status = "active"
      BY <2>2, <3>1 DEF Upsert, Recorded
    <3>3. sched.commit = op[c].commit /\ sched.spec = op[c].loaded.spec
      BY <2>1 DEF Scheduled
    <3>4. Agree(record, sched)'
      BY <2>1, <3>2, <3>3 DEF Agree, Same
    <3> QED BY <1>6, <2>2, <3>4 DEF Resting
  <2>3. CASE Goto(c, "undo") /\ UNCHANGED record
    <3>g. /\ op'[c].pc = "undo" /\ op'[c].was = op[c].was
          /\ op'[c].loaded = op[c].loaded /\ op'[c].commit = op[c].commit
          /\ op'[c].kind = op[c].kind
      BY <1>8, <2>1, <2>3
    <3>1. Midway(c)'
      BY <3>g, <2>1, <2>3 DEF Midway
    <3> QED BY <1>7, <2>3, <3>1 DEF Resting
  <2> QED BY <1>12, <2>2, <2>3 DEF CreateRecord
<1>13. CASE UndoCreate(c)
  <2>1. record' = None /\ sched' = None
    BY <1>4, <1>13 DEF Midway, UndoCreate, At, Disturb, Quiet
  <2>2. Agree(record, sched)'
    BY <2>1 DEF Agree
  <2> QED BY <1>6, <1>13, <2>2 DEF UndoCreate, Resting
<1>14. CASE Initialize(c)
  <2>1. record' = None /\ sched' = None
    BY <1>4, <1>14 DEF Midway, Initialize, At, Agree
  <2>2. Agree(record, sched)'
    BY <2>1 DEF Agree
  <2> QED BY <1>6, <1>14, <2>2 DEF Initialize, Resting
<1>15. CASE Find(c) \/ Checkpoint(c) \/ Trigger(c)
  <2>1. Agree(record, sched)'
    BY <1>4, <1>9, <1>15 DEF Midway, Find, Checkpoint, Trigger, At, source
  <2>2. CASE Goto(c, "save")
    <3>g. /\ op'[c].pc = "save" /\ op'[c].was = op[c].was
          /\ op'[c].loaded = op[c].loaded /\ op'[c].commit = op[c].commit
          /\ op'[c].kind = op[c].kind
      BY <1>8, <2>1, <2>2
    <3>1. Midway(c)'
      BY <3>g, <2>1, <2>2 DEF Midway
    <3> QED BY <1>7, <2>2, <3>1 DEF Resting
  <2> QED BY <1>6, <1>15, <2>1, <2>2 DEF Find, Checkpoint, Trigger, Resting
<1>16. CASE Flip(c)
  <2>1. Agree(record, sched) /\ UNCHANGED <<record, repo, disturbed>>
    BY <1>4, <1>16 DEF Midway, Flip, At, source
  <2>2. CASE sched # None /\ Goto(c, "look")
             /\ sched' = [sched EXCEPT !.state = StateAfter(c)]
    <3>1. /\ sched \in ScheduleType /\ sched' \in ScheduleType
          /\ sched'.state = StateAfter(c)
          /\ sched'.commit = sched.commit /\ sched'.spec = sched.spec
      BY <1>1, <2>2 DEF ScheduleType, StateAfter
    <3>2. /\ record # None /\ sched' # None
          /\ record.commit \in repo /\ Same(record, sched)'
      BY <2>1, <2>2, <3>1 DEF Agree, Same
    <3>g. /\ op'[c].pc = "look" /\ op'[c].was = op[c].was
          /\ op'[c].loaded = op[c].loaded /\ op'[c].commit = op[c].commit
          /\ op'[c].kind = op[c].kind
      BY <1>8, <2>1, <2>2, <3>1, <3>2
    <3>4. Follows(sched.state, StateAfter(c))'
      BY <3>1, <3>g DEF Follows, StateAfter
    <3>5. Midway(c)'
      BY <3>g, <2>1, <3>2, <3>4 DEF Midway
    <3> QED BY <1>7, <2>2, <3>5 DEF Resting
  <2>3. CASE Rest(c, "error") /\ UNCHANGED sched
    BY <1>6, <1>9, <2>1, <2>3 DEF Resting
  <2> QED BY <1>16, <2>2, <2>3 DEF Flip
<1>17. CASE Look(c)
  <2> DEFINE o == [op[c] EXCEPT !.pc = "mark", !.was = record]
  <2>1. /\ record # None /\ sched # None
        /\ record.commit \in repo /\ Same(record, sched)
        /\ Follows(sched.state, StateAfter(c))
        /\ UNCHANGED <<record, sched, repo>>
    BY <1>4, <1>17 DEF Midway, Look, At, source
  <2>2. op' = [op EXCEPT ![c] = o] /\ op'[c] = o
    BY <1>1, <1>17, <2>1 DEF Look
  <2>3. o.pc = "mark" /\ o.was = record /\ o.kind = op[c].kind
    BY <1>1 DEF OpType
  <2> HIDE DEF o
  <2>4. /\ Same(record, sched)' /\ Follows(sched.state, StateAfter(c))'
    BY <2>1, <2>2, <2>3 DEF Same, StateAfter
  <2>5. Midway(c)'
    BY <2>1, <2>2, <2>3, <2>4 DEF Midway
  <2> QED BY <1>5, <2>2, <2>5, <2>3 DEF Resting
<1>18. CASE Mark(c)
  <2>1. /\ record # None /\ sched # None
        /\ record.commit \in repo /\ Same(record, sched)
        /\ Follows(sched.state, StateAfter(c)) /\ op[c].was = record
        /\ UNCHANGED <<sched, repo>>
    BY <1>4, <1>18 DEF Midway, Mark, At, source
  <2>2. CASE record' = [record EXCEPT !.status = StateAfter(c)] /\ Rest(c, "ok")
    <3>1. /\ record' \in RecordType /\ record'.commit = record.commit
          /\ record'.status = StateAfter(c)
      BY <1>1, <2>1, <2>2 DEF RecordType, StateAfter
    <3>2. record' # None
      BY <3>1
    <3>3. Agree(record, sched)'
      BY <2>1, <3>1, <3>2 DEF Agree, Same
    <3> QED BY <1>6, <2>2, <3>3 DEF Resting
  <2>3. CASE Rest(c, "error") /\ Disturb("status") /\ UNCHANGED record
    <3>1. Agree(record, sched)'
      BY <2>1, <2>3 DEF Agree, Same, Disturb
    <3> QED BY <1>6, <2>3, <3>1 DEF Resting
  <2> QED BY <1>18, <2>1, <2>2, <2>3 DEF Mark, Upsert
<1>19. CASE Unschedule(c)
  <2>1. Agree(record, sched) /\ UNCHANGED <<record, repo, disturbed>>
    BY <1>4, <1>19 DEF Midway, Unschedule, At, source
  <2>2. CASE sched' = None /\ Goto(c, "forget")
    <3>g. /\ op'[c].pc = "forget" /\ op'[c].was = op[c].was
          /\ op'[c].loaded = op[c].loaded /\ op'[c].commit = op[c].commit
          /\ op'[c].kind = op[c].kind
      BY <1>8, <2>2
    <3>1. Midway(c)'
      BY <3>g, <2>1, <2>2 DEF Midway, Agree
    <3> QED BY <1>7, <2>2, <3>1 DEF Resting
  <2>3. CASE Rest(c, "error") /\ UNCHANGED sched
    BY <1>6, <1>9, <2>1, <2>3 DEF Resting
  <2> QED BY <1>19, <2>2, <2>3 DEF Unschedule
<1>20. CASE Forget(c)
  <2>1. /\ sched = None /\ sched' = None /\ repo' = repo
        /\ record # None => record.commit \in repo
    BY <1>4, <1>20 DEF Midway, Forget, At, source
  <2>2. CASE record' = None /\ Goto(c, "removing")
    <3>g. /\ op'[c].pc = "removing" /\ op'[c].was = op[c].was
          /\ op'[c].loaded = op[c].loaded /\ op'[c].commit = op[c].commit
          /\ op'[c].kind = op[c].kind
      BY <1>8, <2>2
    <3>1. Midway(c)'
      BY <3>g, <2>1, <2>2 DEF Midway
    <3> QED BY <1>7, <2>2, <3>1 DEF Resting
  <2>3. CASE Rest(c, "error") /\ Disturb("row") /\ UNCHANGED record
    <3>1. Agree(record, sched)'
      BY <2>1, <2>3 DEF Agree, Disturb
    <3> QED BY <1>6, <2>3, <3>1 DEF Resting
  <2> QED BY <1>20, <2>2, <2>3 DEF Forget
<1>21. CASE RemoveSource(c)
  <2>1. record' = None /\ sched' = None /\ Goto(c, "purge")
    BY <1>4, <1>21 DEF Midway, RemoveSource, At
  <2>g. /\ op'[c].pc = "purge" /\ op'[c].was = op[c].was
        /\ op'[c].loaded = op[c].loaded /\ op'[c].commit = op[c].commit
        /\ op'[c].kind = op[c].kind
    BY <1>8, <2>1
  <2>2. Midway(c)'
    BY <2>g, <2>1 DEF Midway
  <2> QED BY <1>7, <2>1, <2>2 DEF Resting
<1>22. CASE Purge(c)
  <2>1. record' = None /\ sched' = None
    BY <1>4, <1>22 DEF Midway, Purge, At
  <2>2. Agree(record, sched)'
    BY <2>1 DEF Agree
  <2> QED BY <1>6, <1>22, <2>2 DEF Purge, Resting
<1> QED BY <1>10, <1>11, <1>12, <1>13, <1>14, <1>15, <1>16, <1>17, <1>18, <1>19,
           <1>20, <1>21, <1>22 DEF Operate

\* Every step keeps the stores of a quiet workflow in agreement.
LEMMA QuietStep == TypeInv /\ QuietInv /\ [Next]_vars => QuietInv'
<1> SUFFICES ASSUME TypeInv, QuietInv, [Next]_vars PROVE QuietInv'
  OBVIOUS
<1>1. op \in [Caller -> OpType] /\ \A c \in Caller : op[c] \in OpType /\ ShapeOf(c, op[c])
  BY DEF TypeInv, OpsTyped
<1>2. ASSUME UNCHANGED <<source, record, sched, op, disturbed>> PROVE QuietInv'
  BY <1>2 DEF QuietInv, Quiet, InProgress, Midway, Agree, Scheduled, StateAfter, source
<1>3. ASSUME NEW r \in Run, RunSteps(r) PROVE QuietInv'
  <2> SUFFICES ASSUME Quiet' PROVE QuietInv'
    BY DEF QuietInv
  <2>0. r \in Caller /\ op[r] \in OpType
    BY <1>1
  <2>1. CASE Prepare(r)
    <3> DEFINE o == Unread("prepare", "read")
    <3>1. op' = [op EXCEPT ![r] = o] /\ o.pc = "read" /\ Overlaps
      BY <2>1 DEF Prepare, Start, Unread
    <3>2. op[r].pc \in Resting
      BY <2>1 DEF Prepare, At, Resting
    <3> HIDE DEF o
    <3> QED BY <2>0, <2>1, <3>1, <3>2, FromRest DEF Prepare
  <2>2. ASSUME NEW pc \in Resting, Rest(r, pc), op[r].pc \in Resting,
               UNCHANGED <<source, record, sched, disturbed>>
        PROVE  QuietInv'
    <3>1. AtRest(pc).pc \in Resting /\ op' = [op EXCEPT ![r] = AtRest(pc)]
      BY <2>2 DEF Rest, AtRest, Unread
    <3> QED BY <2>0, <2>2, <3>1, FromRest
  <2>3. CASE Prepared(r) \/ AttemptFails(r)
    BY <2>2, <2>3 DEF Prepared, AttemptFails, At, Resting
  <2>4. CASE Archive(r) \/ RecordRun(r)
    <3>1. /\ op[r].pc \in {"archive", "running"} /\ Quiet
          /\ UNCHANGED <<source, record, sched, disturbed>>
      BY <2>4 DEF Archive, RecordRun, At, Quiet
    <3>2. r \in InProgress /\ Midway(r)
      BY <2>0, <3>1 DEF InProgress, Resting, QuietInv
    <3>3. Agree(record, sched)'
      BY <3>1, <3>2 DEF Midway, Agree, source
    <3>4. ASSUME NEW pc \in Resting, Rest(r, pc) PROVE QuietInv'
      <4>1. AtRest(pc).pc \in Resting /\ op' = [op EXCEPT ![r] = AtRest(pc)]
        BY <3>4 DEF Rest, AtRest, Unread
      <4> QED BY <3>1, <3>2, <3>3, <4>1, WorkStep
    <3>5. ASSUME NEW pc \in {"running", "ok"}, Goto(r, pc) PROVE QuietInv'
      <4> DEFINE o == [op[r] EXCEPT !.pc = pc]
      <4>1. op' = [op EXCEPT ![r] = o] /\ o.pc = pc /\ op'[r] = o
        BY <1>1, <2>0, <3>5 DEF Goto, OpType
      <4> HIDE DEF o
      <4>2. Midway(r)'
        BY <3>3, <4>1 DEF Midway
      <4> QED BY <3>1, <3>2, <3>3, <4>1, <4>2, WorkStep
    <3> QED BY <2>4, <3>4, <3>5 DEF Archive, RecordRun, Resting
  <2>5. CASE ListRuns(r) \/ DeleteRun(r) \/ CleanedUp(r) \/ Complete(r) \/ Late(r)
             \/ \E next \in {"step", "succeeded", "failed"} : Step(r, next)
    BY <1>2, <2>5 DEF ListRuns, DeleteRun, CleanedUp, Complete, Late, Step
  <2>6. CASE TimesOut(r)
    BY <2>6 DEF TimesOut, Disturb, Quiet
  <2> QED BY <1>3, <2>1, <2>3, <2>4, <2>5, <2>6 DEF RunSteps
<1>4. ASSUME NEW c \in Operator, NEW k \in Kind, Begin(c, k) PROVE QuietInv'
  <2> DEFINE pc == CASE k \in {"update", "trigger"} -> "read"
                     [] k \in {"create", "author"} -> "check"
                     [] k = "checkpoint" -> "find"
                     [] k \in {"pause", "resume"} -> "flip"
                     [] k = "delete" -> "unschedule"
             o == Unread(k, pc)
  <2>1. pc \in {"read", "check", "find", "flip", "unschedule"}
    BY DEF Kind
  <2>2. op' = [op EXCEPT ![c] = o] /\ Overlaps /\ op[c].pc \in Resting
    BY <1>4 DEF Begin, Start, At, Resting
  <2> HIDE DEF pc
  <2>3. o.pc \in {"read", "check", "find", "flip", "unschedule"}
    BY <2>1 DEF Unread
  <2> HIDE DEF o
  <2> QED BY <1>4, <2>2, <2>3, FromRest DEF Begin
<1>5. ASSUME NEW c \in Operator, Cut(c) PROVE QuietInv'
  BY <1>5 DEF Cut, Disturb, Quiet, QuietInv
<1>6. ASSUME NEW r \in Run, Fire(r) \/ Cancel(r) PROVE QuietInv'
  BY <1>2, <1>6 DEF Fire, Cancel
<1>7. ASSUME NEW edit \in Edits[cast], Edit(edit) PROVE QuietInv'
  <2> SUFFICES ASSUME Quiet' PROVE QuietInv'
    BY DEF QuietInv
  <2>1. /\ Quiet /\ InProgress = {} /\ InProgress' = {} /\ Agree(record, sched)
        /\ disturbed' = disturbed
    BY <1>7 DEF Edit, Overlaps, Disturb, Quiet, InProgress, QuietInv
  <2>2. Agree(record, sched)'
    BY <1>7, <2>1 DEF Edit, Agree
  <2> QED BY <2>1, <2>2 DEF QuietInv
<1>8. CASE TimePasses \/ UNCHANGED vars
  BY <1>2, <1>8 DEF TimePasses, vars
<1>9. ASSUME NEW r \in Run, Trip(r) PROVE QuietInv'
  <2> SUFFICES ASSUME Quiet' PROVE QuietInv'
    BY DEF QuietInv
  <2>1. /\ Quiet /\ UNCHANGED <<record, repo, tree, op, disturbed>>
        /\ InProgress' = InProgress
    BY <1>9 DEF Trip, Quiet, InProgress, source
  <2>2. /\ sched # None /\ sched' # None
        /\ sched.state = "active" /\ sched'.state = "tripped"
        /\ sched'.commit = sched.commit /\ sched'.spec = sched.spec
        /\ sched' = [sched EXCEPT !.state = "tripped"] /\ sched \in ScheduleType
    <3>1. sched \in ScheduleType /\ sched' = [sched EXCEPT !.state = "tripped"]
      BY <1>9 DEF Trip, TypeInv, StoresTyped
    <3>2. sched' \in ScheduleType
      BY <3>1 DEF ScheduleType
    <3> QED BY <1>9, <3>1, <3>2 DEF Trip, ScheduleType
  <2>3. \A status : Follows(sched.state, status) => Follows(sched'.state, status)
    BY <2>2 DEF Follows
  <2>4. Agree(record, sched) => Agree(record, sched)'
    BY <2>1, <2>2, <2>3 DEF Agree, Same
  <2>5. ASSUME NEW c \in InProgress PROVE Midway(c)'
    <3>1. Midway(c) /\ op' = op
      BY <2>1 DEF QuietInv
    <3>2. sched = Scheduled(c, sched.state) => sched' = Scheduled(c, sched.state)'
      BY <2>1, <2>2 DEF Scheduled
    <3>3. Same(record, sched) => Same(record, sched)'
      BY <2>1, <2>2 DEF Same
    <3>4. \A o : Agree(record, o) <=> Agree(record, o)'
      BY <2>1 DEF Agree
    <3>5. StateAfter(c)' = StateAfter(c)
      BY <3>1 DEF StateAfter
    <3> QED BY <2>1, <2>2, <2>3, <2>4, <3>1, <3>2, <3>3, <3>4, <3>5 DEF Midway
  <2> QED BY <2>1, <2>4, <2>5 DEF QuietInv
<1> QED BY <1>3, <1>4, <1>5, <1>6, <1>7, <1>8, <1>9, PublishQuiet, OperateQuiet DEF Next

(***************************************************************************)
(* The record is true: for any callers, edits and faults the state has its *)
(* types, the channel a workflow was created from is kept by the record    *)
(* and by the schedule, and operations that follow each other leave the    *)
(* record and the schedule in agreement, or in one of the two disagreements*)
(* that AgreeWhenQuiet names.                                              *)
(***************************************************************************)
THEOREM RecordCorrect == Spec => []RecordIsTrue
<1>1. Init => TypeInv /\ TargetInv /\ QuietInv
  BY InitType, InitTarget, InitQuiet
<1>2. TypeInv /\ TargetInv /\ QuietInv /\ [Next]_vars
        => TypeInv' /\ TargetInv' /\ QuietInv'
  BY StepType, TargetStep, QuietStep
<1>3. TypeInv /\ TargetInv /\ QuietInv => RecordIsTrue
  BY TypesSuffice DEF TargetInv, QuietInv, Quiet, Agree, Same, RecordIsTrue,
     AgreeWhenQuiet
<1> QED BY <1>1, <1>2, <1>3, PTL DEF Spec

-----------------------------------------------------------------------------
(* The runs.                                                               *)

\* The activities of a run are over before it starts and after its
\* preparation; those it has given up go on, and excuse it.
Phase(r) ==
  /\ Is(r, "idle") => At(r, "idle") /\ op[r].commit = None /\ runs[r].commit = None
  /\ runs[r].pc \in {"cleanup", "delete", "step", "succeeded", "failed"} =>
       At(r, "idle")
  /\ runs[r].pc \in Ended /\ ~At(r, "idle") => runs[r].excused
  /\ runs[r].pc \in {"prepare"} \cup Ended => runs[r].commit = None

\* What a run has committed is no older than the directory was at its start.
Fresh(r) ==
  /\ runs[r].floor <= tree.version
  /\ op[r].commit # None => op[r].commit.version >= runs[r].floor
  /\ runs[r].commit # None => runs[r].commit.version >= runs[r].floor

\* A directory that was filled keeps its source.
Sourced(r) ==
  \/ Is(r, "prepare") /\ op[r].pc \in {"running", "ok"}
  \/ runs[r].pc \in {"cleanup", "delete", "step"}
  => dirs[r] \in {"source", "purged", "remade", "mixed"} \/ newer[r] = KeepLast

\* The run of a row that is running will complete it, or is excused.
Completes(r) ==
  ~NotActive(r) =>
    \/ runs[r].excused
    \/ Is(r, "prepare") /\ At(r, "ok")
    \/ runs[r].pc \in {"cleanup", "delete", "step", "succeeded", "failed"}

\* What has been written down of a run is what it has prepared.
Written(r) ==
  rec[r] # None =>
    /\ Is(r, "prepare") /\ At(r, "ok") => rec[r].commit = op[r].commit
    /\ runs[r].commit # None => rec[r].commit = runs[r].commit

\* A directory has moved behind at least those before it in the order.
Ordered ==
  \A i \in DOMAIN order : newer[order[i]] >= i - 1 \/ newer[order[i]] = KeepLast
\* A directory that is to be deleted has moved behind KeepLast of them.
Outlived(victims) == \A i \in DOMAIN victims : newer[victims[i]] = KeepLast

RunOK(r) ==
  /\ Phase(r) /\ Fresh(r) /\ Sourced(r) /\ Completes(r) /\ Written(r)
  /\ Outlived(runs[r].victims)
RunInv == Ordered /\ \A r \in Run : RunOK(r)

LEMMA InitRuns == Init => RunInv
<1> SUFFICES ASSUME Init PROVE RunInv
  OBVIOUS
<1>1. /\ \A r \in Run : /\ op[r].pc = "idle" /\ op[r].commit = None
                        /\ runs[r].pc = "idle" /\ runs[r].floor = 0
                        /\ runs[r].commit = None /\ runs[r].victims = <<>>
                        /\ rec[r] = None
      /\ order = <<>> /\ tree.version = 0
  BY DEF Init, AtRest, Unread, Absent, Tree0
<1>2. DOMAIN <<>> = {}
  OBVIOUS
<1>3. Ordered /\ \A r \in Run : Outlived(runs[r].victims)
  BY <1>1, <1>2 DEF Ordered, Outlived
<1>4. \A r \in Run : Phase(r) /\ Fresh(r) /\ Sourced(r) /\ Completes(r) /\ Written(r)
  BY <1>1 DEF Phase, Fresh, Sourced, Completes, Written, NotActive, Ended, Is, At
<1> QED BY <1>3, <1>4 DEF RunInv, RunOK

\* A run that does not move is disturbed neither by edits and deletes nor by
\* the directories of others.
LEMMA OtherRun ==
  ASSUME TypeInv, NEW r \in Run, RunOK(r),
         tree'.version \in Nat, tree.version <= tree'.version,
         runs'[r] = runs[r], op'[r] = op[r], rec'[r] \in {rec[r], None},
         dirs'[r] \in {dirs[r], "purged"} \/ newer'[r] = KeepLast,
         \A x \in Run : newer[x] = KeepLast => newer'[x] = KeepLast
  PROVE  RunOK(r)'
<1>1. /\ runs[r].floor \in Nat /\ tree.version \in Nat /\ runs[r].victims \in Seq(Run)
  BY DEF TypeInv, StoresTyped, RunsTyped, RunType, TreeType, Version
<1>2. Phase(r)' /\ Fresh(r)' /\ Completes(r)' /\ Written(r)'
  BY <1>1 DEF RunOK, Phase, Fresh, Completes, Written, NotActive, Ended, Is, At
<1>3. Sourced(r)'
  BY DEF RunOK, Sourced, Is
<1>4. Outlived(runs[r].victims)'
  <2>1. \A i \in DOMAIN runs[r].victims : runs[r].victims[i] \in Run
    BY <1>1, LenProperties
  <2> QED BY <2>1 DEF RunOK, Outlived
<1> QED BY <1>2, <1>3, <1>4 DEF RunOK

\* A step that moves no run keeps what holds of them.
LEMMA RunFrame ==
  ASSUME TypeInv, RunInv, UNCHANGED runState,
         tree'.version \in Nat, tree.version <= tree'.version,
         \A r \in Run : op'[r] = op[r]
  PROVE  RunInv'
<1>1. ASSUME NEW r \in Run PROVE RunOK(r)'
  BY OtherRun DEF RunInv, runState
<1>2. Ordered'
  BY DEF RunInv, Ordered, runState
<1> QED BY <1>1, <1>2 DEF RunInv

\* A run starts.
LEMMA StartedRun ==
  ASSUME TypeInv, RunInv, NEW r \in Run, Is(r, "idle"),
         runs' = [runs EXCEPT ![r].pc = "prepare", ![r].floor = tree.version],
         UNCHANGED <<tree, rec, dirs, order, newer>>,
         \A x \in Run : op'[x] = op[x]
  PROVE  RunInv'
<1>1. /\ runs \in [Run -> RunType] /\ tree.version \in Nat
  BY DEF TypeInv, StoresTyped, RunsTyped, TreeType, Version
<1>2. /\ runs'[r].pc = "prepare" /\ runs'[r].floor = tree.version
      /\ runs'[r].commit = runs[r].commit /\ runs'[r].victims = runs[r].victims
      /\ runs'[r].excused = runs[r].excused
  BY <1>1 DEF RunType
<1>3. RunOK(r) /\ At(r, "idle") /\ op[r].commit = None /\ runs[r].commit = None
  BY DEF RunInv, RunOK, Phase
<1>4. RunOK(r)'
  <2>1. Phase(r)' /\ Sourced(r)' /\ Outlived(runs[r].victims)'
    BY <1>2, <1>3 DEF RunOK, Phase, Sourced, Outlived, Ended, Is, At
  <2>2. Fresh(r)'
    BY <1>1, <1>2, <1>3 DEF Fresh
  <2>3. Completes(r)' /\ Written(r)'
    BY <1>2, <1>3 DEF RunOK, Completes, Written, NotActive, Is, At
  <2> QED BY <2>1, <2>2, <2>3 DEF RunOK
<1>5. ASSUME NEW x \in Run, x # r PROVE RunOK(x)'
  <2>1. runs'[x] = runs[x]
    BY <1>1, <1>5
  <2> QED BY <1>1, <2>1, OtherRun DEF RunInv
<1>6. Ordered'
  BY DEF RunInv, Ordered
<1> QED BY <1>4, <1>5, <1>6 DEF RunInv

\* Making a directory moves the others one place behind.
LEMMA MakeOrder ==
  ASSUME TypeInv, Ordered, NEW r \in Run, NEW state, Make(r, state)
  PROVE  /\ Ordered'
         /\ \A x \in Run : newer[x] = KeepLast => newer'[x] = KeepLast
         /\ dirs'[r] = state /\ \A x \in Run : x # r => dirs'[x] = dirs[x]
<1> DEFINE k == Kept(order, Run \ {r})
<1>1. /\ order \in Seq(Run) /\ newer \in [Run -> 0..KeepLast]
      /\ dirs \in [Run -> {"none", "purged", "source", "empty", "remade", "mixed"}]
  BY DEF TypeInv, RunsTyped
<1>2. /\ k \in Seq(Run)
      /\ \A j \in DOMAIN k : \E i \in DOMAIN order :
           i >= j /\ k[j] = order[i] /\ order[i] \in Run \ {r}
  <2>1. \A T : /\ Kept(order, T) \in Seq(Run)
                /\ \A j \in DOMAIN Kept(order, T) : \E i \in DOMAIN order :
                     i >= j /\ Kept(order, T)[j] = order[i] /\ order[i] \in T
    BY <1>1, KeptRuns
  <2> QED BY <2>1, Zenon
<1> HIDE DEF k
<1>3. /\ order' = <<r>> \o k
      /\ newer' = [x \in Run |-> IF x # r /\ x \in Range(order) /\ newer[x] < KeepLast
                                   THEN newer[x] + 1 ELSE newer[x]]
  BY DEF Make, k
<1>4. /\ DOMAIN k = 1..Len(k) /\ Len(k) \in Nat
      /\ DOMAIN order = 1..Len(order) /\ Len(order) \in Nat
  BY <1>1, <1>2, LenProperties
<1>5. /\ DOMAIN order' = 1..(Len(k) + 1) /\ order'[1] = r
      /\ \A j \in 1..Len(k) : order'[j + 1] = k[j]
  <2>1. /\ <<r>> \in Seq(Run) /\ Len(<<r>>) = 1 /\ <<r>>[1] = r
    OBVIOUS
  <2>2. /\ order' \in Seq(Run) /\ Len(order') = 1 + Len(k)
        /\ \A i \in 1..(1 + Len(k)) :
             order'[i] = IF i <= 1 THEN <<r>>[i] ELSE k[i - 1]
    BY <1>2, <1>3, <2>1, ConcatProperties
  <2>3. DOMAIN order' = 1..(1 + Len(k))
    BY <2>2, LenProperties
  <2> QED BY <1>4, <2>1, <2>2, <2>3
<1>6. ASSUME NEW j \in 1..Len(k)
      PROVE  newer'[k[j]] >= j \/ newer'[k[j]] = KeepLast
  <2>1. PICK i \in DOMAIN order : i >= j /\ k[j] = order[i] /\ order[i] \in Run \ {r}
    BY <1>2, <1>4
  <2>2. newer[order[i]] >= i - 1 \/ newer[order[i]] = KeepLast
    BY DEF Ordered
  <2>3. order[i] \in Range(order)
    BY DEF Range
  <2>4. newer[order[i]] \in 0..KeepLast /\ i \in Nat /\ j \in Nat
    BY <1>1, <1>4, <2>1
  <2>5. newer'[order[i]] = IF newer[order[i]] < KeepLast THEN newer[order[i]] + 1
                           ELSE newer[order[i]]
    BY <1>3, <2>1, <2>3
  <2>6. newer'[order[i]] >= j \/ newer'[order[i]] = KeepLast
    BY <2>1, <2>2, <2>4, <2>5
  <2> QED BY <2>1, <2>6
<1>7. newer'[r] >= 0
  BY <1>1, <1>3
<1>8. ASSUME NEW n \in 1..(Len(k) + 1)
      PROVE  newer'[order'[n]] >= n - 1 \/ newer'[order'[n]] = KeepLast
  <2>1. CASE n = 1
    BY <1>5, <1>7, <2>1
  <2>2. CASE n # 1
    <3>1. n - 1 \in 1..Len(k) /\ (n - 1) + 1 = n
      BY <1>4, <2>2
    <3>2. order'[n] = k[n - 1]
      BY <1>5, <3>1
    <3> QED BY <1>6, <3>1, <3>2
  <2> QED BY <2>1, <2>2
<1>9. Ordered'
  BY <1>5, <1>8 DEF Ordered
<1>10. \A x \in Run : newer[x] = KeepLast => newer'[x] = KeepLast
  BY <1>3
<1>11. dirs'[r] = state /\ \A x \in Run : x # r => dirs'[x] = dirs[x]
  BY <1>1 DEF Make
<1> QED BY <1>9, <1>10, <1>11

\* What a cleanup lists was made before KeepLast other directories.
LEMMA VictimsOutlived ==
  ASSUME TypeInv, Ordered, NEW r \in Run
  PROVE  Outlived(Victims(r))
<1> DEFINE e == Existing
           s == SubSeq(e, KeepLast + 1, Len(e))
           v == Kept(s, Run \ {r})
<1>1. order \in Seq(Run) /\ newer \in [Run -> 0..KeepLast]
  BY DEF TypeInv, RunsTyped
<1>2. /\ e \in Seq(Run)
      /\ \A j \in DOMAIN e : \E i \in DOMAIN order : i >= j /\ e[j] = order[i]
  <2>1. \A T : /\ Kept(order, T) \in Seq(Run)
                /\ \A j \in DOMAIN Kept(order, T) : \E i \in DOMAIN order :
                     i >= j /\ Kept(order, T)[j] = order[i] /\ order[i] \in T
    BY <1>1, KeptRuns
  <2>2. PICK T : e = Kept(order, T)
    BY DEF Existing
  <2>3. /\ Kept(order, T) \in Seq(Run)
        /\ \A j \in DOMAIN Kept(order, T) : \E i \in DOMAIN order :
             i >= j /\ Kept(order, T)[j] = order[i]
    BY <2>1
  <2> HIDE DEF e
  <2> QED BY <2>2, <2>3
<1> HIDE DEF e
<1>3. DOMAIN e = 1..Len(e) /\ Len(e) \in Nat /\ \A i \in 1..Len(e) : e[i] \in Run
  BY <1>2, LenProperties
<1>4. /\ s \in Seq(Run)
      /\ \A i \in DOMAIN s : KeepLast + i \in 1..Len(e) /\ s[i] = e[KeepLast + i]
                            /\ i \in Nat /\ i >= 1
  <2>1. /\ KeepLast + 1 \in Int /\ KeepLast + 1 >= 1
    OBVIOUS
  <2>2. /\ s \in Seq(Run)
        /\ Len(s) = IF KeepLast + 1 <= Len(e) THEN Len(e) - (KeepLast + 1) + 1 ELSE 0
        /\ \A i \in 1..(Len(e) - (KeepLast + 1) + 1) : s[i] = e[KeepLast + 1 + i - 1]
    BY <1>2, <1>3, <2>1, SubSeqProperties
  <2>3. DOMAIN s = 1..Len(s) /\ Len(s) \in Nat
    BY <2>2, LenProperties
  <2> HIDE DEF s
  <2>4. ASSUME NEW i \in DOMAIN s
        PROVE  KeepLast + i \in 1..Len(e) /\ s[i] = e[KeepLast + i] /\ i \in Nat /\ i >= 1
    <3>1. i \in Nat /\ i >= 1 /\ i <= Len(s)
      BY <2>3
    <3>2. KeepLast \in Nat /\ Len(e) \in Nat /\ Len(s) \in Nat
      BY <1>3, <2>3
    <3>3. KeepLast + 1 <= Len(e) /\ Len(s) = Len(e) - KeepLast
      BY <2>2, <3>1, <3>2
    <3>4. /\ i \in 1..(Len(e) - (KeepLast + 1) + 1)
          /\ KeepLast + 1 + i - 1 = KeepLast + i /\ KeepLast + i \in 1..Len(e)
      BY <3>1, <3>2, <3>3
    <3> QED BY <2>2, <3>1, <3>4
  <2> QED BY <2>2, <2>4
<1> HIDE DEF s
<1>5. \A j \in DOMAIN v : \E i \in DOMAIN s : v[j] = s[i]
  BY <1>4, KeptElements
<1> HIDE DEF v
<1>6. ASSUME NEW j \in DOMAIN v PROVE newer[v[j]] = KeepLast
  <2>1. PICK i \in DOMAIN s : v[j] = s[i]
    BY <1>5
  <2>2. KeepLast + i \in 1..Len(e) /\ s[i] = e[KeepLast + i] /\ i \in Nat /\ i >= 1
    BY <1>4
  <2>3. PICK n \in DOMAIN order : n >= KeepLast + i /\ e[KeepLast + i] = order[n]
    BY <1>2, <1>3, <2>2
  <2>4. newer[order[n]] >= n - 1 \/ newer[order[n]] = KeepLast
    BY DEF Ordered
  <2>5. n \in Nat /\ order[n] \in Run
    BY <1>1, LenProperties
  <2>6. newer[order[n]] \in 0..KeepLast
    BY <1>1, <2>5
  <2>7. newer[order[n]] = KeepLast
    BY <2>2, <2>3, <2>4, <2>5, <2>6
  <2> QED BY <2>1, <2>2, <2>3, <2>7
<1> QED BY <1>6 DEF Outlived, Victims, Beyond, v, s, e

\* A publication moves no run past its preparation, and commits the source
\* as it is.
LEMMA PublishRuns ==
  ASSUME TypeInv, RunInv, NEW c \in Caller, Publish(c)
  PROVE  RunInv'
<1>1. /\ op \in [Caller -> OpType] /\ op[c] \in OpType /\ ShapeOf(c, op[c])
      /\ tree \in TreeType /\ tree.version \in Nat
  BY DEF TypeInv, OpsTyped, StoresTyped, TreeType, Version
<1>2. UNCHANGED runState /\ tree'.version = tree.version
  BY <1>1 DEF Publish, Read, Load, Commit, UpdateSchedule, UpdateRecord, RollBack,
     source, WithTarget, TreeType
<1>3. op[c].pc \in {"read", "load", "commit", "schedule", "record", "rollback"}
  BY DEF Publish, Read, Load, Commit, UpdateSchedule, UpdateRecord, RollBack, At
<1>4. \A x \in Caller : x # c => op'[x] = op[x]
  BY <1>1 DEF Publish, Read, Load, Commit, UpdateSchedule, UpdateRecord, RollBack,
     Rest, Goto, Published
<1>5. CASE c \notin Run
  BY <1>1, <1>2, <1>4, <1>5, RunFrame
<1>6. CASE c \in Run
  <2>1. op[c].kind = "prepare"
    BY <1>1, <1>3, <1>6 DEF ShapeOf
  <2>2. /\ op'[c].commit \in {None, tree, op[c].commit}
        /\ op'[c].pc \notin {"idle", "running", "ok"}
    <3>1. ASSUME NEW pc, pc \notin {"idle", "running", "ok"}, Rest(c, pc) \/ Goto(c, pc)
          PROVE  /\ op'[c].commit \in {None, op[c].commit}
                 /\ op'[c].pc \notin {"idle", "running", "ok"}
      BY <1>1, <3>1 DEF Rest, AtRest, Unread, Goto, OpType
    <3>2. ASSUME NEW commit, NEW answer, Published(c, commit, answer)
          PROVE  op'[c].commit = commit /\ op'[c].pc = "archive"
      BY <1>1, <2>1, <3>2 DEF Published
    <3>3. CASE Read(c) \/ Load(c)
      BY <1>1, <3>1, <3>3 DEF Read, Load, OpType
    <3>4. CASE Commit(c)
      BY <1>1, <3>1, <3>2, <3>4 DEF Commit, OpType
    <3>5. CASE UpdateSchedule(c)
      BY <1>1, <3>1, <3>5 DEF UpdateSchedule, OpType
    <3>6. CASE UpdateRecord(c) \/ RollBack(c)
      BY <3>1, <3>2, <3>6 DEF UpdateRecord, RollBack
    <3> QED BY <3>3, <3>4, <3>5, <3>6 DEF Publish
  <2>3. RunOK(c)'
    <3>1. RunOK(c)
      BY <1>6 DEF RunInv
    <3>2. runs[c].pc \in {"prepare"} \cup Ended
      BY <1>3, <1>6, <3>1 DEF RunOK, Phase, Ended, Is, At, TypeInv, RunsTyped, RunType
    <3>3. Phase(c)' /\ Sourced(c)' /\ Outlived(runs[c].victims)'
      BY <1>2, <1>3, <2>2, <3>1, <3>2 DEF RunOK, Phase, Sourced, Outlived, Ended, Is, At, runState
    <3>4. Fresh(c)'
      BY <1>1, <1>2, <2>2, <3>1 DEF RunOK, Fresh, runState
    <3>5. Completes(c)' /\ Written(c)'
      BY <1>2, <1>3, <2>2, <3>1
         DEF RunOK, Completes, Written, NotActive, Is, At, runState
    <3> QED BY <3>3, <3>4, <3>5 DEF RunOK
  <2>4. ASSUME NEW x \in Run, x # c PROVE RunOK(x)'
    BY <1>1, <1>2, <1>4, <2>4, OtherRun DEF RunInv, runState
  <2>5. Ordered'
    BY <1>2 DEF RunInv, Ordered, runState
  <2> QED BY <2>3, <2>4, <2>5 DEF RunInv
<1> QED BY <1>5, <1>6

\* The other operations leave the runs alone, but for a trigger and a delete.
LEMMA OperateRuns ==
  ASSUME TypeInv, RunInv, NEW c \in Operator, Operate(c)
  PROVE  RunInv'
<1>1. /\ op \in [Caller -> OpType] /\ c \in Caller /\ c \notin Run
      /\ tree \in TreeType /\ tree.version \in Nat
  BY DEF TypeInv, OpsTyped, StoresTyped, TreeType, Version
<1>2. \A x \in Run : op'[x] = op[x]
  <2>1. \E o : op' = [op EXCEPT ![c] = o]
    <3>1. ASSUME NEW pc, Rest(c, pc) \/ Goto(c, pc) PROVE \E o : op' = [op EXCEPT ![c] = o]
      BY <3>1 DEF Rest, Goto
    <3>2. CASE Look(c)
      BY <3>1, <3>2 DEF Look
    <3>3. CASE ~Look(c)
      BY <3>1, <3>3 DEF Operate, Check, CreateSchedule, CreateRecord, UndoCreate,
         Initialize, Find, Checkpoint, Flip, Mark, Unschedule, Forget,
         RemoveSource, Purge, Trigger
    <3> QED BY <3>2, <3>3
  <2> QED BY <1>1, <2>1
<1>3. tree'.version = tree.version
  <2>1. CASE Initialize(c) \/ RemoveSource(c)
    BY <2>1 DEF Initialize, RemoveSource, Bare, Absent
  <2>2. CASE ~(Initialize(c) \/ RemoveSource(c))
    BY <2>2 DEF Operate, Check, CreateSchedule, CreateRecord, UndoCreate, Find,
       Checkpoint, Flip, Look, Mark, Unschedule, Forget, Purge, Trigger, source
  <2> QED BY <2>1, <2>2
<1>4. CASE Trigger(c)
  <2>1. ASSUME NEW r \in Run, Is(r, "idle"),
               runs' = [runs EXCEPT ![r].pc = "prepare", ![r].floor = tree.version]
        PROVE  RunInv'
    BY <1>2, <1>4, <2>1, StartedRun DEF Trigger, source
  <2>2. CASE runs' = runs
    BY <1>1, <1>2, <1>3, <1>4, <2>2, RunFrame DEF Trigger, runState
  <2> QED BY <1>4, <2>1, <2>2 DEF Trigger
<1>5. CASE Forget(c)
  <2>1. UNCHANGED <<runs, dirs, order, newer>> /\ \A x \in Run : rec'[x] \in {rec[x], None}
    BY <1>5 DEF Forget
  <2>2. ASSUME NEW x \in Run PROVE RunOK(x)'
    BY <1>1, <1>2, <1>3, <2>1, OtherRun DEF RunInv
  <2>3. Ordered'
    BY <2>1 DEF RunInv, Ordered
  <2> QED BY <2>2, <2>3 DEF RunInv
<1>6. CASE Purge(c)
  <2>1. /\ UNCHANGED <<runs, rec, newer>> /\ order' = <<>>
        /\ \A x \in Run : dirs'[x] \in {dirs[x], "purged"}
    BY <1>6 DEF Purge
  <2>2. ASSUME NEW x \in Run PROVE RunOK(x)'
    BY <1>1, <1>2, <1>3, <2>1, OtherRun DEF RunInv
  <2>3. Ordered'
    <3>1. DOMAIN <<>> = {}
      OBVIOUS
    <3> QED BY <2>1, <3>1 DEF Ordered
  <2> QED BY <2>2, <2>3 DEF RunInv
<1>7. CASE Check(c) \/ CreateSchedule(c) \/ CreateRecord(c) \/ UndoCreate(c)
           \/ Initialize(c) \/ Find(c) \/ Checkpoint(c) \/ Flip(c) \/ Look(c)
           \/ Mark(c) \/ Unschedule(c) \/ RemoveSource(c)
  <2>1. UNCHANGED runState
    BY <1>7 DEF Check, CreateSchedule, CreateRecord, UndoCreate, Initialize, Find,
       Checkpoint, Flip, Look, Mark, Unschedule, RemoveSource
  <2> QED BY <1>1, <1>2, <1>3, <2>1, RunFrame
<1> QED BY <1>4, <1>5, <1>6, <1>7 DEF Operate

\* A step of one run.
LEMMA OneRun ==
  ASSUME TypeInv, RunInv, NEW r \in Run,
         UNCHANGED tree, RunOK(r)', Ordered',
         \A x \in Run : x # r =>
           /\ runs'[x] = runs[x] /\ op'[x] = op[x] /\ rec'[x] = rec[x]
           /\ dirs'[x] = dirs[x] \/ newer'[x] = KeepLast,
         \A x \in Run : newer[x] = KeepLast => newer'[x] = KeepLast
  PROVE  RunInv'
<1>1. tree.version \in Nat
  BY DEF TypeInv, StoresTyped, TreeType, Version
<1>2. ASSUME NEW x \in Run, x # r PROVE RunOK(x)'
  BY <1>1, <1>2, OtherRun DEF RunInv
<1> QED BY <1>2 DEF RunInv

\* The steps of a run keep what holds of it and of the others.
LEMMA RunStepsRuns ==
  ASSUME TypeInv, RunInv, NEW r \in Run, RunSteps(r) \/ Cancel(r)
  PROVE  RunInv'
<1>1. /\ op \in [Caller -> OpType] /\ r \in Caller /\ op[r] \in OpType
      /\ ShapeOf(r, op[r])
      /\ runs \in [Run -> RunType] /\ runs[r] \in RunType
      /\ rec \in [Run -> RunRecordType \cup {None}]
      /\ dirs \in [Run -> {"none", "purged", "source", "empty", "remade", "mixed"}]
      /\ newer \in [Run -> 0..KeepLast]
      /\ tree.version \in Nat
  BY DEF TypeInv, OpsTyped, RunsTyped, StoresTyped, TreeType, Version
<1>2. /\ Ordered /\ Phase(r) /\ Fresh(r) /\ Sourced(r) /\ Completes(r)
      /\ Outlived(runs[r].victims)
  BY DEF RunInv, RunOK
<1>3. /\ runs[r].pc \in {"idle", "prepare", "cleanup", "delete", "step", "succeeded",
                         "failed", "closed", "broke"}
      /\ runs[r].floor \in Nat /\ runs[r].victims \in Seq(Run) /\ runs[r].excused \in BOOLEAN
      /\ runs[r].left \in BOOLEAN /\ Written(r)
      /\ op[r].commit \in TreeType \cup {None}
      /\ op[r].commit # None => op[r].commit.version \in Nat
  BY <1>1 DEF RunInv, RunOK, RunType, OpType, TreeType, Version
<1>4. DOMAIN <<>> = {}
  OBVIOUS
<1>5. CASE Prepare(r)
  <2>1. /\ op' = [op EXCEPT ![r] = Unread("prepare", "read")]
        /\ UNCHANGED <<tree, runs, rec, dirs, order, newer>>
        /\ Is(r, "prepare") /\ At(r, "idle")
    BY <1>5 DEF Prepare, Start, source, runState
  <2>2. op'[r].pc = "read" /\ op'[r].commit = None
    BY <1>1, <2>1 DEF Unread
  <2>3. RunOK(r)'
    BY <1>2, <1>3, <2>1, <2>2
       DEF RunOK, Phase, Fresh, Sourced, Completes, Written, NotActive, Outlived, Ended,
           Is, At
  <2>4. Ordered'
    BY <1>2, <2>1 DEF Ordered
  <2>5. \A x \in Run : x # r => op'[x] = op[x]
    BY <1>1, <2>1
  <2> QED BY <2>1, <2>3, <2>4, <2>5, OneRun
<1>6. CASE Archive(r)
  <2> DEFINE state == IF op[r].commit \in repo THEN "source" ELSE "empty"
  <2>1. /\ Make(r, state) /\ UNCHANGED <<tree, runs, rec>> /\ op[r].pc = "archive"
    BY <1>6 DEF Archive, source, At
  <2>2. /\ Ordered' /\ dirs'[r] = state
        /\ \A x \in Run : newer[x] = KeepLast => newer'[x] = KeepLast
        /\ \A x \in Run : x # r => dirs'[x] = dirs[x]
    BY <1>2, <2>1, MakeOrder
  <2>3. /\ op'[r].pc \in {"running", "error"} /\ op'[r].commit \in {None, op[r].commit}
        /\ op'[r].pc = "running" => dirs'[r] = "source"
    BY <1>1, <1>6, <2>2 DEF Archive, Goto, Rest, AtRest, Unread, OpType
  <2>4. \A x \in Run : x # r => op'[x] = op[x]
    BY <1>1, <1>6 DEF Archive, Goto, Rest
  <2> HIDE DEF state
  <2>5. runs[r].pc \in {"prepare"} \cup Ended
    BY <1>2, <1>3, <2>1 DEF Phase, Ended, Is, At
  <2>6. Phase(r)' /\ Fresh(r)' /\ Completes(r)' /\ Written(r)'
    BY <1>2, <1>3, <2>1, <2>3, <2>5
       DEF Phase, Fresh, Completes, Written, NotActive, Ended, Is, At
  <2>7. Sourced(r)'
    BY <2>1, <2>3, <2>5 DEF Sourced, Ended, Is
  <2>8. Outlived(runs[r].victims)'
    <3>1. \A i \in DOMAIN runs[r].victims : runs[r].victims[i] \in Run
      BY <1>3, LenProperties
    <3> QED BY <1>2, <2>1, <2>2, <3>1 DEF Outlived
  <2>9. RunOK(r)'
    BY <2>6, <2>7, <2>8 DEF RunOK
  <2> QED BY <2>1, <2>2, <2>4, <2>9, OneRun
<1>7. CASE RecordRun(r)
  <2>1. /\ UNCHANGED <<tree, runs, dirs, order, newer>> /\ op[r].pc = "running"
        /\ \A x \in Run : x # r => rec'[x] = rec[x] /\ op'[x] = op[x]
    BY <1>1, <1>7 DEF RecordRun, UpsertRun, source, At, Goto, Rest
  <2>2. /\ op'[r].pc = "ok" \/ (op'[r].pc = "error" /\ rec' = rec)
        /\ op'[r].commit \in {None, op[r].commit}
    BY <1>1, <1>7 DEF RecordRun, Goto, Rest, AtRest, Unread, OpType
  <2>3. runs[r].pc \in {"prepare"} \cup Ended
    BY <1>2, <1>3, <2>1 DEF Phase, Ended, Is, At
  <2>4. Phase(r)' /\ Fresh(r)' /\ Sourced(r)' /\ Outlived(runs[r].victims)'
    BY <1>2, <1>3, <2>1, <2>2, <2>3 DEF Phase, Fresh, Sourced, Outlived, Ended, Is, At
  <2>5. Completes(r)'
    BY <1>2, <1>3, <2>1, <2>2, <2>3 DEF Phase, Completes, NotActive, Ended, Is, At
  <2>6. Written(r)'
    <3>1. runs[r].commit = None
      BY <1>2, <2>3 DEF Phase
    <3>2. CASE op'[r].pc = "error"
      BY <2>1, <3>1, <3>2 DEF Written, At
    <3>3. CASE op'[r].pc # "error"
      <4>1. UpsertRun(r, "running", op[r].commit) /\ Goto(r, "ok")
        BY <1>1, <1>7, <3>3 DEF RecordRun, Rest, AtRest, Unread
      <4>2. op'[r].commit = op[r].commit /\ op[r].commit # None
        BY <1>1, <2>1, <4>1 DEF Goto, OpType, ShapeOf
      <4>3. rec'[r].commit = op[r].commit
        BY <1>1, <4>1, <4>2 DEF UpsertRun, WritesCommit
      <4> QED BY <2>1, <3>1, <4>2, <4>3 DEF Written
    <3> QED BY <3>2, <3>3
  <2>7. Ordered' /\ RunOK(r)'
    BY <1>2, <2>1, <2>4, <2>5, <2>6 DEF Ordered, RunOK
  <2> QED BY <2>1, <2>7, OneRun
<1>8. CASE Prepared(r)
  <2>1. /\ UNCHANGED <<tree, rec, dirs, order, newer>> /\ Is(r, "prepare") /\ At(r, "ok")
        /\ runs' = [runs EXCEPT ![r].pc = "cleanup", ![r].commit = op[r].commit]
        /\ Rest(r, "idle")
    BY <1>8 DEF Prepared, source
  <2>2. /\ runs'[r].pc = "cleanup" /\ runs'[r].commit = op[r].commit
        /\ runs'[r].floor = runs[r].floor /\ runs'[r].victims = runs[r].victims
        /\ runs'[r].excused = runs[r].excused
        /\ op'[r].pc = "idle" /\ op'[r].commit = None
        /\ \A x \in Run : x # r => runs'[x] = runs[x] /\ op'[x] = op[x]
    BY <1>1, <2>1 DEF RunType, Rest, AtRest, Unread
  <2>3. Phase(r)' /\ Fresh(r)' /\ Completes(r)' /\ Written(r)'
    BY <1>2, <1>3, <2>1, <2>2
       DEF Phase, Fresh, Completes, Written, NotActive, Ended, Is, At
  <2>4. Sourced(r)' /\ Outlived(runs[r].victims)'
    <3>1. Sourced(r)'
      BY <1>2, <2>1, <2>2 DEF Sourced, Is, At
    <3>2. Outlived(runs[r].victims)'
      BY <1>2, <2>1, <2>2 DEF Outlived
    <3> QED BY <3>1, <3>2
  <2>5. Ordered' /\ RunOK(r)'
    BY <1>2, <2>1, <2>3, <2>4 DEF Ordered, RunOK
  <2> QED BY <2>1, <2>2, <2>5, OneRun
<1>9. ASSUME NEW pc \in Ended, NEW excused \in BOOLEAN, NEW left \in BOOLEAN,
             Close(r, pc, excused, left),
             UNCHANGED <<tree, dirs, order, newer>>,
             op'[r] = op[r] \/ op'[r] = AtRest("idle"),
             \A x \in Run : x # r => rec'[x] = rec[x] /\ op'[x] = op[x],
             excused \/ (op'[r].pc = "idle" /\ NotActive(r)')
      PROVE  RunInv'
  <2>1. /\ runs'[r].pc \in Ended /\ runs'[r].floor = 0 /\ runs'[r].commit = None
        /\ runs'[r].victims = <<>> /\ runs'[r].excused = excused
        /\ \A x \in Run : x # r => runs'[x] = runs[x]
    BY <1>1, <1>9 DEF Close
  <2>2. op'[r].commit \in {None, op[r].commit} /\ op'[r].pc \in {"idle", op[r].pc}
    BY <1>9 DEF AtRest, Unread
  <2>3. /\ Phase(r)' /\ Sourced(r)' /\ Completes(r)' /\ Written(r)'
        /\ Outlived(runs[r].victims)'
    BY <1>4, <1>9, <2>1 DEF Phase, Sourced, Completes, Written, Outlived, Ended, Is, At
  <2>4. Fresh(r)'
    BY <1>1, <1>3, <1>9, <2>1, <2>2 DEF Fresh
  <2>5. Ordered' /\ RunOK(r)'
    BY <1>2, <1>9, <2>3, <2>4 DEF Ordered, RunOK
  <2> QED BY <1>9, <2>1, <2>5, OneRun
<1>10. ASSUME NEW excused \in BOOLEAN, NEW left \in BOOLEAN, TryAgain(r, excused, left),
              UNCHANGED <<tree, rec, dirs, order, newer>>, Is(r, "prepare"), Rest(r, "idle"),
              runs[r].excused => excused, NotActive(r) \/ excused
       PROVE  RunInv'
  <2>1. /\ op'[r] = AtRest("idle") /\ op'[r].pc = "idle" /\ op'[r].commit = None
        /\ \A x \in Run : x # r => op'[x] = op[x]
    BY <1>1, <1>10 DEF Rest, AtRest, Unread
  <2>2. CASE runs[r].attempt < MaxAttempts
    <3>1. runs' = [runs EXCEPT ![r].attempt = @ + 1, ![r].excused = excused,
                               ![r].left = left]
      BY <1>10, <2>2 DEF TryAgain
    <3>2. /\ runs'[r].pc = runs[r].pc /\ runs'[r].floor = runs[r].floor
          /\ runs'[r].commit = runs[r].commit /\ runs'[r].victims = runs[r].victims
          /\ runs'[r].excused = excused
          /\ \A x \in Run : x # r => runs'[x] = runs[x]
      BY <1>1, <3>1 DEF RunType
    <3>3. Phase(r)' /\ Fresh(r)' /\ Sourced(r)' /\ Outlived(runs[r].victims)'
      BY <1>2, <1>10, <2>1, <3>2 DEF Phase, Fresh, Sourced, Outlived, Ended, Is, At
    <3>4. Completes(r)' /\ Written(r)'
      BY <1>2, <1>3, <1>10, <2>1, <3>2 DEF Completes, Written, NotActive, Phase, Is, At
    <3>5. Ordered' /\ RunOK(r)'
      BY <1>2, <1>10, <3>3, <3>4 DEF Ordered, RunOK
    <3> QED BY <1>10, <2>1, <3>2, <3>5, OneRun
  <2>3. CASE ~(runs[r].attempt < MaxAttempts)
    <3>1. Close(r, "broke", excused, left)
      BY <1>10, <2>3 DEF TryAgain
    <3>2. NotActive(r)' \/ excused
      BY <1>10 DEF NotActive
    <3>3. "broke" \in Ended
      BY DEF Ended
    <3> QED BY <1>9, <1>10, <2>1, <3>1, <3>2, <3>3
  <2> QED BY <2>2, <2>3
<1>19. CASE AttemptFails(r)
  <2>1. /\ UNCHANGED <<tree, rec, dirs, order, newer>> /\ Is(r, "prepare")
        /\ op[r].pc \in {"error", "ok"} /\ Rest(r, "idle")
        /\ TryAgain(r, runs[r].excused \/ At(r, "ok"), runs[r].left)
    BY <1>19 DEF AttemptFails, source, At
  <2>2. /\ (runs[r].excused \/ At(r, "ok")) \in BOOLEAN
        /\ NotActive(r) \/ runs[r].excused \/ At(r, "ok")
    BY <1>2, <1>3, <2>1 DEF Completes, Is, At
  <2> QED BY <1>3, <1>10, <2>1, <2>2
<1>20. CASE TimesOut(r)
  <2>1. /\ UNCHANGED <<tree, rec, dirs, order, newer>> /\ Is(r, "prepare")
        /\ ~At(r, "ok") /\ Rest(r, "idle")
    BY <1>20 DEF TimesOut, Resting, source, At
  <2>2. PICK goesOn \in {FALSE, At(r, "archive")} :
          TryAgain(r, runs[r].excused, runs[r].left \/ goesOn)
    BY <1>20 DEF TimesOut
  <2>3. (runs[r].left \/ goesOn) \in BOOLEAN
    BY <1>3 DEF At
  <2>4. NotActive(r) \/ runs[r].excused
    BY <1>2, <1>3, <2>1 DEF Completes, Is
  <2> QED BY <1>3, <1>10, <2>1, <2>2, <2>3, <2>4
<1>21. CASE Late(r)
  <2>1. UNCHANGED <<tree, op, runs, rec>>
    BY <1>21 DEF Late, source
  <2>2. /\ Ordered' /\ dirs'[r] = "mixed"
        /\ \A x \in Run : newer[x] = KeepLast => newer'[x] = KeepLast
        /\ \A x \in Run : x # r => dirs'[x] = dirs[x]
    <3>1. CASE Make(r, "mixed")
      BY <1>2, <3>1, MakeOrder
    <3>2. CASE dirs' = [dirs EXCEPT ![r] = "mixed"] /\ UNCHANGED <<order, newer>>
      BY <1>1, <1>2, <3>2 DEF Ordered
    <3> QED BY <1>21, <3>1, <3>2 DEF Late
  <2>3. Phase(r)' /\ Fresh(r)' /\ Sourced(r)' /\ Completes(r)' /\ Written(r)'
    BY <1>2, <1>3, <2>1, <2>2
       DEF Phase, Fresh, Sourced, Completes, Written, NotActive, Is, At
  <2>4. Outlived(runs[r].victims)'
    <3>1. \A i \in DOMAIN runs[r].victims : runs[r].victims[i] \in Run
      BY <1>3, LenProperties
    <3> QED BY <1>2, <2>1, <2>2, <3>1 DEF Outlived
  <2>5. RunOK(r)'
    BY <2>3, <2>4 DEF RunOK
  <2> QED BY <2>1, <2>2, <2>5, OneRun
<1>11. CASE ListRuns(r)
  <2>1. /\ UNCHANGED <<tree, op, rec, dirs, order, newer>> /\ Is(r, "cleanup")
        /\ runs' = [runs EXCEPT ![r].pc = "delete", ![r].victims = Victims(r)]
    BY <1>11 DEF ListRuns, source
  <2>2. /\ runs'[r].pc = "delete" /\ runs'[r].floor = runs[r].floor
        /\ runs'[r].commit = runs[r].commit /\ runs'[r].victims = Victims(r)
        /\ runs'[r].excused = runs[r].excused
        /\ \A x \in Run : x # r => runs'[x] = runs[x]
    BY <1>1, <2>1 DEF RunType
  <2>3. Outlived(runs[r].victims)'
    <3>1. Outlived(Victims(r))
      BY <1>2, VictimsOutlived
    <3> QED BY <2>1, <2>2, <3>1 DEF Outlived
  <2>4. Phase(r)' /\ Fresh(r)' /\ Sourced(r)' /\ Completes(r)' /\ Written(r)'
    BY <1>2, <1>3, <2>1, <2>2
       DEF Phase, Fresh, Sourced, Completes, Written, NotActive, Ended, Is, At
  <2>5. Ordered' /\ RunOK(r)'
    BY <1>2, <2>1, <2>3, <2>4 DEF Ordered, RunOK
  <2> QED BY <2>1, <2>2, <2>5, OneRun
<1>12. CASE DeleteRun(r)
  <2> DEFINE v == Head(runs[r].victims)
  <2>1. /\ UNCHANGED <<tree, op, rec, order, newer>> /\ Is(r, "delete")
        /\ runs[r].victims # <<>>
        /\ runs' = [runs EXCEPT ![r].victims = Tail(@)]
        /\ \A x \in Run : x # v => dirs'[x] = dirs[x]
    BY <1>1, <1>12 DEF DeleteRun, source
  <2>2. /\ runs'[r].pc = runs[r].pc /\ runs'[r].floor = runs[r].floor
        /\ runs'[r].commit = runs[r].commit /\ runs'[r].victims = Tail(runs[r].victims)
        /\ runs'[r].excused = runs[r].excused
        /\ \A x \in Run : x # r => runs'[x] = runs[x]
    BY <1>1, <2>1 DEF RunType
  <2>3. /\ Len(runs[r].victims) \in Nat \ {0} /\ DOMAIN runs[r].victims = 1..Len(runs[r].victims)
        /\ v = runs[r].victims[1]
        /\ DOMAIN Tail(runs[r].victims) = 1..(Len(runs[r].victims) - 1)
        /\ \A i \in 1..(Len(runs[r].victims) - 1) :
             Tail(runs[r].victims)[i] = runs[r].victims[i + 1]
    <3>1. /\ Len(Tail(runs[r].victims)) = Len(runs[r].victims) - 1
          /\ Tail(runs[r].victims) \in Seq(Run)
          /\ v = runs[r].victims[1]
          /\ \A i \in 1..Len(Tail(runs[r].victims)) :
               Tail(runs[r].victims)[i] = runs[r].victims[i + 1]
      BY <1>3, <2>1, HeadTailProperties
    <3>2. /\ DOMAIN runs[r].victims = 1..Len(runs[r].victims) /\ Len(runs[r].victims) \in Nat
          /\ DOMAIN Tail(runs[r].victims) = 1..Len(Tail(runs[r].victims))
          /\ Len(runs[r].victims) # 0
      BY <1>3, <2>1, <3>1, LenProperties, EmptySeq
    <3> QED BY <3>1, <3>2
  <2> HIDE DEF v
  <2>4. newer[v] = KeepLast
    BY <1>2, <2>3 DEF Outlived
  <2>5. Outlived(runs[r].victims)'
    <3>1. \A i \in 1..(Len(runs[r].victims) - 1) : i + 1 \in 1..Len(runs[r].victims)
      BY <2>3
    <3> QED BY <1>2, <2>1, <2>2, <2>3, <3>1 DEF Outlived
  <2>6. Phase(r)' /\ Fresh(r)' /\ Completes(r)' /\ Written(r)'
    BY <1>2, <1>3, <2>1, <2>2
       DEF Phase, Fresh, Completes, Written, NotActive, Ended, Is, At
  <2>7. Sourced(r)'
    BY <1>2, <2>1, <2>2, <2>4 DEF Sourced, Is
  <2>8. Ordered' /\ RunOK(r)'
    BY <1>2, <2>1, <2>5, <2>6, <2>7 DEF Ordered, RunOK
  <2>9. \A x \in Run : dirs'[x] = dirs[x] \/ newer'[x] = KeepLast
    BY <2>1, <2>4
  <2> QED BY <2>1, <2>2, <2>8, <2>9, OneRun
<1>13. ASSUME NEW pc \in {"step", "succeeded", "failed"},
              runs[r].pc \in {"cleanup", "delete", "step"},
              runs'[r].pc = pc, runs'[r].floor = runs[r].floor,
              runs'[r].commit = runs[r].commit,
              runs'[r].victims \in {<<>>, runs[r].victims},
              runs'[r].excused = runs[r].excused,
              \A x \in Run : x # r => runs'[x] = runs[x],
              UNCHANGED <<tree, op, rec>>, Ordered',
              \A x \in Run : newer[x] = KeepLast => newer'[x] = KeepLast,
              \A x \in Run : x # r => dirs'[x] = dirs[x],
              dirs'[r] \in {dirs[r], "remade"} \/ newer'[r] = KeepLast
       PROVE  RunInv'
  <2>1. Phase(r)' /\ Fresh(r)' /\ Completes(r)' /\ Written(r)'
    BY <1>2, <1>3, <1>13
       DEF Phase, Fresh, Completes, Written, NotActive, Ended, Is, At
  <2>2. Sourced(r)'
    BY <1>2, <1>13 DEF Sourced, Is
  <2>3. Outlived(runs[r].victims)'
    <3>1. \A i \in DOMAIN runs[r].victims : runs[r].victims[i] \in Run
      BY <1>3, LenProperties
    <3> QED BY <1>2, <1>4, <1>13, <3>1 DEF Outlived
  <2>4. RunOK(r)'
    BY <2>1, <2>2, <2>3 DEF RunOK
  <2> QED BY <1>13, <2>4, OneRun
<1>14. CASE CleanedUp(r)
  <2>1. /\ UNCHANGED <<tree, op, rec, dirs, order, newer>> /\ Is(r, "delete")
        /\ runs' = [runs EXCEPT ![r].pc = "step", ![r].victims = <<>>]
    BY <1>14 DEF CleanedUp, source
  <2>2. /\ runs'[r].pc = "step" /\ runs'[r].floor = runs[r].floor
        /\ runs'[r].commit = runs[r].commit /\ runs'[r].victims = <<>>
        /\ runs'[r].excused = runs[r].excused
        /\ \A x \in Run : x # r => runs'[x] = runs[x]
    BY <1>1, <2>1 DEF RunType
  <2>3. Ordered'
    BY <1>2, <2>1 DEF Ordered
  <2> QED BY <1>13, <2>1, <2>2, <2>3 DEF Is
<1>15. ASSUME NEW pc, Move(r, pc)
       PROVE  /\ runs'[r].pc = pc /\ runs'[r].floor = runs[r].floor
              /\ runs'[r].commit = runs[r].commit /\ runs'[r].victims = runs[r].victims
              /\ runs'[r].excused = runs[r].excused
              /\ \A x \in Run : x # r => runs'[x] = runs[x]
  BY <1>1, <1>15 DEF Move, RunType
<1>16. ASSUME NEW next \in {"step", "succeeded", "failed"}, Step(r, next)
       PROVE  RunInv'
  <2>1. /\ UNCHANGED <<tree, op, rec>> /\ Is(r, "step") /\ Move(r, next)
    BY <1>16 DEF Step, source
  <2>2. /\ runs'[r].pc = next /\ runs'[r].floor = runs[r].floor
        /\ runs'[r].commit = runs[r].commit /\ runs'[r].victims = runs[r].victims
        /\ runs'[r].excused = runs[r].excused
        /\ \A x \in Run : x # r => runs'[x] = runs[x]
    BY <1>15, <2>1
  <2>3. CASE Exists(r)
    <3>1. UNCHANGED <<dirs, order, newer>>
      BY <1>16, <2>3 DEF Step
    <3>2. Ordered'
      BY <1>2, <3>1 DEF Ordered
    <3> QED BY <1>13, <2>1, <2>2, <3>1, <3>2 DEF Is
  <2>4. CASE ~Exists(r)
    <3> DEFINE state == IF dirs[r] = "none" THEN "empty" ELSE "remade"
    <3>1. Make(r, state)
      BY <1>16, <2>4 DEF Step
    <3>2. /\ Ordered' /\ dirs'[r] = state
          /\ \A x \in Run : newer[x] = KeepLast => newer'[x] = KeepLast
          /\ \A x \in Run : x # r => dirs'[x] = dirs[x]
      BY <1>2, <3>1, MakeOrder
    <3>3. dirs'[r] = "remade" \/ newer'[r] = KeepLast
      BY <1>2, <2>1, <3>2 DEF Sourced, Is
    <3> HIDE DEF state
    <3> QED BY <1>13, <2>1, <2>2, <3>2, <3>3 DEF Is
  <2> QED BY <2>3, <2>4
<1>17. CASE Complete(r)
  <2>1. /\ UNCHANGED <<tree, op, dirs, order, newer>> /\ runs[r].pc \in {"succeeded", "failed"}
        /\ UpsertRun(r, runs[r].pc, None) /\ Finish(r)
    BY <1>17 DEF Complete, source
  <2>2. PICK pc \in Ended : Close(r, pc, runs[r].excused, runs[r].left)
    BY <2>1 DEF Finish, Ended
  <2>3. /\ op'[r].pc = "idle" /\ rec'[r].status = runs[r].pc
        /\ \A x \in Run : x # r => rec'[x] = rec[x]
    BY <1>1, <1>2, <2>1 DEF UpsertRun, Phase, At
  <2>4. NotActive(r)'
    BY <2>1, <2>3 DEF NotActive
  <2> QED BY <1>3, <1>9, <2>1, <2>2, <2>3, <2>4
<1>18. CASE Cancel(r)
  <2>1. UNCHANGED <<tree, op, rec, dirs, order, newer>>
    BY <1>18 DEF Cancel, source
  <2>2. CASE runs[r].pc \in {"cleanup", "delete", "step"} /\ Move(r, "failed")
    <3>1. Ordered'
      BY <1>2, <2>1 DEF Ordered
    <3>2. /\ runs'[r].pc = "failed" /\ runs'[r].floor = runs[r].floor
          /\ runs'[r].commit = runs[r].commit /\ runs'[r].victims = runs[r].victims
          /\ runs'[r].excused = runs[r].excused
          /\ \A x \in Run : x # r => runs'[x] = runs[x]
      BY <1>15, <2>2
    <3> QED BY <1>13, <2>1, <2>2, <3>1, <3>2
  <2>3. CASE Close(r, "closed", TRUE, runs[r].left)
    <3>1. "closed" \in Ended
      BY DEF Ended
    <3> QED BY <1>3, <1>9, <2>1, <2>3, <3>1
  <2> QED BY <1>18, <2>2, <2>3 DEF Cancel
<1> QED BY <1>5, <1>6, <1>7, <1>8, <1>11, <1>12, <1>14, <1>16, <1>17, <1>18, <1>19,
           <1>20, <1>21
        DEF RunSteps

\* Every step keeps what holds of the runs.
LEMMA RunStep == TypeInv /\ RunInv /\ [Next]_vars => RunInv'
<1> SUFFICES ASSUME TypeInv, RunInv, [Next]_vars PROVE RunInv'
  OBVIOUS
<1>1. op \in [Caller -> OpType] /\ tree.version \in Nat
  BY DEF TypeInv, OpsTyped, StoresTyped, TreeType, Version
<1>2. ASSUME NEW c \in Operator, NEW o, op' = [op EXCEPT ![c] = o]
      PROVE  \A x \in Run : op'[x] = op[x]
  BY <1>1, <1>2
<1>3. ASSUME NEW c \in Operator, NEW k \in Kind, Begin(c, k) PROVE RunInv'
  <2>1. UNCHANGED runState /\ tree' = tree /\ \A x \in Run : op'[x] = op[x]
    BY <1>2, <1>3 DEF Begin, Start, source
  <2> QED BY <1>1, <2>1, RunFrame
<1>4. ASSUME NEW c \in Operator, Cut(c) PROVE RunInv'
  <2>1. UNCHANGED runState /\ tree' = tree /\ \A x \in Run : op'[x] = op[x]
    BY <1>2, <1>4 DEF Cut, Rest, source
  <2> QED BY <1>1, <2>1, RunFrame
<1>5. ASSUME NEW r \in Run, Fire(r) PROVE RunInv'
  BY <1>5, StartedRun DEF Fire, source
<1>6. ASSUME NEW edit \in Edits[cast], Edit(edit) PROVE RunInv'
  <2>1. /\ UNCHANGED runState /\ op' = op /\ tree'.version = tree.version + 1
    BY <1>6 DEF Edit
  <2> QED BY <1>1, <2>1, RunFrame
<1>7. CASE TimePasses \/ UNCHANGED vars
  <2>1. UNCHANGED runState /\ op' = op /\ tree' = tree
    BY <1>7 DEF TimePasses, vars, source
  <2> QED BY <1>1, <2>1, RunFrame
<1>8. ASSUME NEW r \in Run, Trip(r) PROVE RunInv'
  <2>1. /\ UNCHANGED <<tree, op, rec, dirs, order, newer>> /\ Is(r, "broke")
        /\ Move(r, "closed")
    BY <1>8 DEF Trip, source
  <2>2. /\ runs'[r].pc = "closed" /\ runs'[r].floor = runs[r].floor
        /\ runs'[r].commit = runs[r].commit /\ runs'[r].victims = runs[r].victims
        /\ runs'[r].excused = runs[r].excused
        /\ \A x \in Run : x # r => runs'[x] = runs[x]
    BY <2>1 DEF Move, TypeInv, RunsTyped, RunType
  <2>3. RunOK(r)
    BY DEF RunInv
  <2>4. Ordered' /\ RunOK(r)'
    BY <2>1, <2>2, <2>3 DEF RunInv, Ordered, RunOK, Phase, Fresh, Sourced, Completes,
       Written, NotActive, Outlived, Ended, Is, At
  <2> QED BY <2>1, <2>2, <2>4, OneRun
<1> QED BY <1>3, <1>4, <1>5, <1>6, <1>7, <1>8, PublishRuns, OperateRuns, RunStepsRuns
        DEF Next

LEMMA RunInvariant == Spec => [](TypeInv /\ RunInv)
<1>1. Init => TypeInv /\ RunInv
  BY InitType, InitRuns
<1>2. TypeInv /\ RunInv /\ [Next]_vars => TypeInv' /\ RunInv'
  BY StepType, RunStep
<1> QED BY <1>1, <1>2, PTL DEF Spec

(***************************************************************************)
(* The runs are sound: however they overlap with each other, with edits,   *)
(* publications and deletes, and however often a preparation is tried or   *)
(* runs out of time, a run executes a source no older than the one at its  *)
(* start, of the commit its record names, in a directory that no cleanup   *)
(* has taken unless KeepLast were made after it.  What an attempt that ran *)
(* out of time still writes there is exempt: the code does not keep it out.*)
(***************************************************************************)
THEOREM RunsCorrect == Spec => []RunsAreSound
<1>1. TypeInv /\ RunInv => RunsAreSound
  <2> SUFFICES ASSUME TypeInv, RunInv PROVE RunsAreSound
    OBVIOUS
  <2>1. RunsAreFresh
    BY DEF RunInv, RunOK, Fresh, RunsAreFresh
  <2>2. KeepLast \notin 0..(KeepLast - 1) /\ ~(KeepLast < KeepLast)
    OBVIOUS
  <2>3. RecentRunsAreKept
    BY <2>2 DEF RunInv, RunOK, Sourced, RecentRunsAreKept, Is
  <2>4. RunsAreRecorded
    BY DEF RunInv, RunOK, Written, RunsAreRecorded
  <2> QED BY <2>1, <2>3, <2>4 DEF RunsAreSound
<1> QED BY <1>1, RunInvariant, PTL

(***************************************************************************)
(* No row is left running: the record of a run whose workflow ended says   *)
(* so, unless the answer of its preparation was lost or it was canceled    *)
(* beside its steps.                                                       *)
(***************************************************************************)
THEOREM RunsEnd == Spec => []NoRunLeftRunning
<1>1. TypeInv /\ RunInv => NoRunLeftRunning
  BY DEF RunInv, RunOK, Completes, NoRunLeftRunning, Ended, Is
<1> QED BY <1>1, RunInvariant, PTL

-----------------------------------------------------------------------------
(* Steps.                                                                  *)

(***************************************************************************)
(* A pause holds until a resume: of all the callers, whatever they have    *)
(* read before, only a resume or a roll-back starts a schedule again that  *)
(* a person has paused, or Temporal after a failed run.                    *)
(***************************************************************************)
THEOREM PauseHolds == Spec => PausedUntilResumed
<1> DEFINE Held == sched # None /\ sched.state # "active" /\ sched' # None
               /\ sched'.state = "active" =>
             \E c \in Caller : At(c, "rollback") \/ (At(c, "flip") /\ op[c].kind = "resume")
<1>1. TypeInv /\ [Next]_vars => Held
  <2> SUFFICES ASSUME TypeInv, [Next]_vars, sched # None, sched.state # "active",
                      sched' # None, sched'.state = "active"
               PROVE  \E c \in Caller :
                        At(c, "rollback") \/ (At(c, "flip") /\ op[c].kind = "resume")
    OBVIOUS
  <2>1. sched \in ScheduleType /\ \A c \in Caller : ShapeOf(c, op[c])
    BY DEF TypeInv, StoresTyped, OpsTyped
  <2>2. sched' # sched
    OBVIOUS
  <2>3. ASSUME NEW c \in Caller, Publish(c) PROVE At(c, "rollback")
    <3>1. ~UpdateSchedule(c)
      BY <2>2 DEF UpdateSchedule, Scheduled, KeptState
    <3> QED BY <2>2, <2>3, <3>1 DEF Publish, Read, Load, Commit, UpdateRecord, RollBack
  <2>4. ASSUME NEW c \in Operator, Operate(c)
        PROVE  At(c, "flip") /\ op[c].kind = "resume"
    <3>1. ~(Check(c) \/ CreateSchedule(c) \/ CreateRecord(c) \/ UndoCreate(c)
            \/ Initialize(c) \/ Find(c) \/ Checkpoint(c))
      BY <2>2 DEF Check, CreateSchedule, CreateRecord, UndoCreate, Initialize, Find,
         Checkpoint
    <3>2. ~(Look(c) \/ Mark(c) \/ Unschedule(c) \/ Forget(c) \/ RemoveSource(c)
            \/ Purge(c) \/ Trigger(c))
      BY <2>2 DEF Look, Mark, Unschedule, Forget, RemoveSource, Purge, Trigger
    <3>3. Flip(c)
      BY <2>4, <3>1, <3>2 DEF Operate
    <3>4. /\ At(c, "flip") /\ sched' = [sched EXCEPT !.state = StateAfter(c)]
      BY <2>2, <3>3 DEF Flip
    <3>5. op[c].kind # "pause"
      BY <2>1, <3>4 DEF ScheduleType, StateAfter
    <3>6. op[c].kind \in {"pause", "resume"}
      BY <2>1, <3>4 DEF At, ShapeOf
    <3> QED BY <3>4, <3>5, <3>6
  <2>5. ASSUME NEW c \in Operator, NEW k \in Kind, Begin(c, k) PROVE FALSE
    BY <2>2, <2>5 DEF Begin
  <2>6. ASSUME NEW c \in Operator, Cut(c) PROVE FALSE
    BY <2>2, <2>6 DEF Cut
  <2>7. ASSUME NEW r \in Run, Fire(r) \/ RunSteps(r) \/ Cancel(r) \/ Trip(r)
        PROVE  FALSE
    <3>1. ~Trip(r)
      BY <2>1 DEF Trip
    <3> QED BY <2>2, <2>7, <3>1 DEF Fire, RunSteps, Cancel, Prepare, Archive, RecordRun,
       Prepared, AttemptFails, TimesOut, Late, ListRuns, DeleteRun, CleanedUp, Step, Complete
  <2>8. ASSUME NEW edit \in Edits[cast], Edit(edit) PROVE FALSE
    BY <2>2, <2>8 DEF Edit
  <2>9. ~(TimePasses \/ UNCHANGED vars)
    BY <2>2 DEF TimePasses, vars
  <2> QED BY <2>3, <2>4, <2>5, <2>6, <2>7, <2>8, <2>9 DEF Next
<1>2. TypeInv /\ [Next]_vars => [Held]_vars
  BY <1>1
<1> QED BY <1>2, TypeInvariant, PTL DEF Spec, PausedUntilResumed

(***************************************************************************)
(* While callers do not overlap, none is cut short and no roll-back fails, *)
(* an update that answers "already current" found the schedule of that     *)
(* commit, with the schedule its manifest names, or no schedule, after a   *)
(* delete that could not remove the row.  An edit between a load and a     *)
(* commit is what breaks CurrentIsScheduled.                               *)
(***************************************************************************)
CurrentWhenQuiet ==
  [][\A c \in Operator :
       At(c, "commit") /\ op'[c].pc = "current" /\ "torn" \notin disturbed =>
         \/ sched # None /\ sched.commit = tree /\ sched.spec = tree.spec
         \/ sched = None /\ "row" \in disturbed]_vars
THEOREM QuietIsCurrent == Spec => CurrentWhenQuiet
<1> DEFINE Found ==
             \A c \in Operator :
               At(c, "commit") /\ op'[c].pc = "current" /\ "torn" \notin disturbed =>
                 \/ sched # None /\ sched.commit = tree /\ sched.spec = tree.spec
                 \/ sched = None /\ "row" \in disturbed
<1>1. TypeInv /\ QuietInv /\ [Next]_vars => Found
  <2> SUFFICES ASSUME TypeInv, QuietInv, [Next]_vars, NEW c \in Operator,
                      At(c, "commit"), op'[c].pc = "current",
                      "torn" \notin disturbed
               PROVE  \/ sched # None /\ sched.commit = tree /\ sched.spec = tree.spec
                      \/ sched = None /\ "row" \in disturbed
    OBVIOUS
  <2>1. c \in Caller /\ op \in [Caller -> OpType] /\ op'[c] # op[c]
    BY DEF TypeInv, OpsTyped, At
  <2>2. c \in InProgress /\ Midway(c) /\ Agree(record, sched) /\ op[c].was = record
    BY <2>1 DEF InProgress, At, Resting, QuietInv, Quiet, Midway
  <2>3. Commit(c) => Current(c)
    <3> SUFFICES ASSUME Commit(c), ~Current(c) PROVE FALSE
      OBVIOUS
    <3>1. Rest(c, "error") => op'[c].pc = "error"
      BY <2>1 DEF Rest, AtRest, Unread
    <3>2. op' = [op EXCEPT ![c].commit = tree, ![c].pc = "schedule"]
            => op'[c].pc = "schedule"
      BY <2>1 DEF OpType
    <3> QED BY <3>1, <3>2 DEF Commit
  <2>4. Current(c) =>
          \/ sched # None /\ sched.commit = tree /\ sched.spec = tree.spec
          \/ sched = None /\ "row" \in disturbed
    BY <2>2 DEF Current, Agree, Same
  <2>5. ASSUME NEW d \in Caller, Publish(d) \/ (d \in Operator /\ Operate(d)) \/ Cut(d)
        PROVE  Commit(c)
    <3>1. \E o : op' = [op EXCEPT ![d] = o]
      <4>1. ASSUME NEW pc, Rest(d, pc) \/ Goto(d, pc) PROVE \E o : op' = [op EXCEPT ![d] = o]
        BY <4>1 DEF Rest, Goto
      <4>2. ASSUME NEW commit, NEW answer, Published(d, commit, answer)
            PROVE  \E o : op' = [op EXCEPT ![d] = o]
        BY <4>2 DEF Published
      <4>3. CASE Publish(d)
        BY <4>1, <4>2, <4>3 DEF Publish, Read, Load, Commit, UpdateSchedule,
           UpdateRecord, RollBack
      <4>4. CASE Operate(d)
        <5>1. CASE Look(d)
          BY <4>1, <5>1 DEF Look
        <5>2. CASE ~Look(d)
          BY <4>1, <4>4, <5>2 DEF Operate, Check, CreateSchedule, CreateRecord,
             UndoCreate, Initialize, Find, Checkpoint, Flip, Mark, Unschedule,
             Forget, RemoveSource, Purge, Trigger
        <5> QED BY <5>1, <5>2
      <4>5. CASE Cut(d)
        BY <4>1, <4>5 DEF Cut
      <4> QED BY <2>5, <4>3, <4>4, <4>5
    <3>2. d = c
      BY <2>1, <3>1
    <3>3. ~Cut(c)
      BY <2>1 DEF Cut, Rest, AtRest, Unread
    <3> QED BY <2>5, <3>2, <3>3 DEF Publish, Operate, Read, Load, UpdateSchedule,
            UpdateRecord, RollBack, Check, CreateSchedule, CreateRecord, UndoCreate,
            Initialize, Find, Checkpoint, Flip, Look, Mark, Unschedule, Forget,
            RemoveSource, Purge, Trigger, At
  <2>6. ASSUME NEW d \in Operator, NEW k \in Kind, Begin(d, k) PROVE FALSE
    <3>1. d # c
      BY <2>6 DEF Begin, At
    <3> QED BY <2>1, <2>6, <3>1 DEF Begin, Start
  <2>7. ASSUME NEW r \in Run, Fire(r) \/ RunSteps(r) \/ Cancel(r) \/ Trip(r)
        PROVE  FALSE
    <3>1. r # c
      OBVIOUS
    <3> QED BY <2>1, <2>7, <3>1 DEF Fire, RunSteps, Cancel, Trip, Prepare, Start, Archive,
            RecordRun, Prepared, AttemptFails, TimesOut, Late, Rest, Goto, ListRuns, DeleteRun,
            CleanedUp, Step, Complete
  <2>8. ASSUME NEW edit \in Edits[cast], Edit(edit) PROVE FALSE
    BY <2>1, <2>8 DEF Edit
  <2>9. ~(TimePasses \/ UNCHANGED vars)
    BY <2>1 DEF TimePasses, vars
  <2> QED BY <2>3, <2>4, <2>5, <2>6, <2>7, <2>8, <2>9 DEF Next
<1>2. TypeInv /\ QuietInv /\ [Next]_vars => [Found]_vars
  BY <1>1
<1>3. Spec => [](TypeInv /\ QuietInv)
  BY InitType, InitQuiet, StepType, QuietStep, PTL DEF Spec
<1> QED BY <1>2, <1>3, PTL DEF Spec, CurrentWhenQuiet

=============================================================================
