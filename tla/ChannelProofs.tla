---------------------------- MODULE ChannelProofs ----------------------------
(***************************************************************************)
(* Proofs about Channel: what the project workflow is sent of a message,   *)
(* and where it is answered; then what the file tools keep and what they   *)
(* tell; for any messages with any files, reports, tool calls and          *)
(* failures.                                                               *)
(***************************************************************************)
EXTENDS Channel, FiniteSetTheorems, SequenceTheorems, WellFoundedInduction, TLAPS

-----------------------------------------------------------------------------
(* Types.                                                                  *)

Body == Seq(STRING)
HandlerOk(h) ==
  /\ {"pc", "id", "body", "ref", "chan", "thread", "shown", "unsure", "atts", "told"}
       \subseteq DOMAIN h
  /\ h.pc \in {"sent", "place", "files", "done", "failed"}
  /\ h.atts \in Seq(Body)
FileOk(f) ==
  /\ {"there", "gen", "time", "body"} \subseteq DOMAIN f
  /\ f.there \in BOOLEAN /\ (f.there \/ f.body = <<>>)
IsSequence(s) == \E S : s \in Seq(S)
CallOk(c) ==
  /\ {"n", "pc", "done"} \subseteq DOMAIN calls[c]
  /\ calls[c].n \in 0 .. Len(cast.plan[c])
  /\ calls[c].pc # "ready" => Busy(c)
  /\ IsSequence(calls[c].done) /\ Len(calls[c].done) = calls[c].n
ReportOk(r) ==
  /\ {"pc", "left", "posts"} \subseteq DOMAIN reports[r]
  /\ reports[r].pc \in {"waiting", "text", "files", "done", "failed"}
  /\ IsSequence(reports[r].posts)

FilesTyped == DOMAIN files = Path /\ \A p \in Path : FileOk(files[p])
CallsTyped == DOMAIN calls = Caller /\ \A c \in Caller : CallOk(c)
ReportsTyped == DOMAIN reports = Report /\ \A r \in Report : ReportOk(r)
InboxTyped == DOMAIN inbox = Message /\ \A m \in Message : HandlerOk(inbox[m])
CacheTyped ==
  DOMAIN threads \subseteq DOMAIN ThreadOf /\ \A k \in DOMAIN threads : threads[k] = ThreadOf[k]
SentTyped ==
  /\ IsSequence(events) /\ \A i \in DOMAIN events : events[i].msg \in Message
  /\ ids \in Nat
PlayTyped == cast \in Casts /\ spent \in 0 .. MaxFaults

TypeInv ==
  /\ FilesTyped /\ CallsTyped
  /\ ReportsTyped /\ InboxTyped /\ CacheTyped /\ SentTyped /\ PlayTyped

\* The plan of each caller is so many calls.
CallType == UNION {CallOf(tool) : tool \in Tool}
LEMMA PlanTyped ==
  ASSUME cast \in Casts, NEW c \in Caller
  PROVE  /\ Len(cast.plan[c]) \in Nat
         /\ \A i \in 1 .. Len(cast.plan[c]) : cast.plan[c][i] \in CallType
<1>1. \A i \in 1 .. Len(cast.plan[c]) :
        cast.plan[c][i].op \in Tool /\ cast.plan[c][i] \in CallOf(cast.plan[c][i].op)
  BY PlanAssumption
<1> QED BY <1>1, PlanAssumption DEF CallType

LEMMA TypesSuffice == TypeInv => TypeOK
<1> SUFFICES ASSUME TypeInv PROVE TypeOK
  OBVIOUS
<1>1. Message \subseteq MessageID
  BY CastAssumption DEF TypeInv, PlayTyped, Message
<1>2. \A p \in Path : files[p].there \/ files[p].body = <<>>
  BY DEF TypeInv, FilesTyped, FileOk
<1>3. \A c \in Caller : calls[c].n <= Len(cast.plan[c]) /\ Len(calls[c].done) = calls[c].n
  <2>1. \A c \in Caller : Len(cast.plan[c]) \in Nat
    BY PlanTyped DEF TypeInv, PlayTyped
  <2> SUFFICES ASSUME NEW c \in Caller
               PROVE  calls[c].n <= Len(cast.plan[c]) /\ Len(calls[c].done) = calls[c].n
    OBVIOUS
  <2>2. calls[c].n \in 0 .. Len(cast.plan[c]) /\ Len(calls[c].done) = calls[c].n
    BY DEF TypeInv, CallsTyped, CallOk
  <2> QED BY <2>1, <2>2
<1>4. \A m \in Message : inbox[m].pc \in {"sent", "place", "files", "done", "failed"}
  BY DEF TypeInv, InboxTyped, HandlerOk
<1> QED
  BY <1>1, <1>2, <1>3, <1>4
  DEF TypeInv, TypeOK, PlayTyped, CacheTyped, SentTyped, ReportsTyped, ReportOk

\* The cast of a behaviour, and its messages
LEMMA MessageFacts ==
  ASSUME cast \in Casts, NEW m \in Message
  PROVE  /\ m \in MessageID
         /\ \E via \in Ways : Sent(m) \in MessageType(via)
         /\ Sent(m).via \in Ways
         /\ Sent(m).chan \in DOMAIN ThreadOf /\ Sent(m).chan # ""
         /\ Sent(m).hidden \in BOOLEAN
         /\ Home(m) # ""
         /\ Sent(m).tag # "" => Sent(m).via = "discord" /\ ThreadOf[Sent(m).tag] # ""
<1>1. PICK via \in Ways : Sent(m) \in MessageType(via)
  <2>1. Sent(m).via \in Ways /\ Sent(m) \in MessageType(Sent(m).via)
    BY CastAssumption DEF Message, Sent
  <2> QED BY <2>1
<1>2. m \in MessageID
  BY CastAssumption DEF Message
<1>3. DOMAIN ThreadOf \subseteq STRING \ {""} /\ ThreadOf \in [DOMAIN ThreadOf -> STRING]
  BY ChannelAssumption
<1>4. /\ Sent(m).chan \in DOMAIN ThreadOf /\ Sent(m).chan # "" /\ Sent(m).hidden \in BOOLEAN
      /\ Sent(m).via = via
  BY <1>1, <1>3 DEF MessageType
<1>5. Sent(m).tag # "" => /\ Sent(m).via = "discord" /\ ThreadOf[Sent(m).tag] # ""
  BY <1>1, <1>4 DEF MessageType
<1>6. Home(m) # ""
  BY <1>4 DEF Home
<1> QED BY <1>1, <1>2, <1>4, <1>5, <1>6

LEMMA EmptySequence == IsSequence(<<>>) /\ Len(<<>>) = 0
BY EmptySeq DEF IsSequence
LEMMA AppendSequence ==
  ASSUME NEW s, IsSequence(s), NEW x
  PROVE  /\ IsSequence(Append(s, x)) /\ Len(s) \in Nat /\ Len(Append(s, x)) = Len(s) + 1
         /\ DOMAIN s = 1 .. Len(s) /\ DOMAIN Append(s, x) = 1 .. Len(s) + 1
         /\ \A i \in 1 .. Len(s) : Append(s, x)[i] = s[i]
         /\ Append(s, x)[Len(s) + 1] = x
<1>1. PICK S : s \in Seq(S)
  BY DEF IsSequence
<1>2. PICK T : x \in T /\ S \subseteq T
  <2>1. x \in S \cup {x} /\ S \subseteq S \cup {x}
    OBVIOUS
  <2> QED BY <2>1
<1>3. Len(s) \in Nat /\ DOMAIN s = 1 .. Len(s)
  BY <1>1, LenProperties
<1>4. s \in Seq(T)
  BY <1>1, <1>2, SeqMonotonic
<1>5. /\ Append(s, x) \in Seq(T) /\ Len(Append(s, x)) = Len(s) + 1
      /\ \A i \in 1 .. Len(s) : Append(s, x)[i] = s[i]
      /\ Append(s, x)[Len(s) + 1] = x
  BY <1>2, <1>4, AppendProperties
<1>6. DOMAIN Append(s, x) = 1 .. Len(s) + 1
  BY <1>5, LenProperties
<1> QED BY <1>3, <1>5, <1>6 DEF IsSequence

LEMMA NothingTyped == HandlerOk(NoHandler)
<1>1. <<>> \in Seq(Body)
  BY EmptySeq
<1> QED BY <1>1 DEF HandlerOk, NoHandler

LEMMA InitTypes == Init => TypeInv
<1> SUFFICES ASSUME Init PROVE TypeInv
  OBVIOUS
<1>1. FilesTyped
  BY DEF Init, InitWorkspace, FilesTyped, FileOk
<1>2. CallsTyped
  <2>1. calls = [c \in Caller |-> Idle] /\ cast \in Casts
    BY DEF Init, InitWorkspace
  <2>2. /\ {"n", "pc", "done"} \subseteq DOMAIN Idle
        /\ Idle.n = 0 /\ Idle.done = <<>> /\ Idle.pc = "ready"
    BY DEF Idle
  <2>3. \A c \in Caller : calls[c] = Idle /\ Len(cast.plan[c]) \in Nat
    BY <2>1, PlanTyped
  <2> QED BY <2>1, <2>2, <2>3, EmptySequence DEF CallsTyped, CallOk
<1>3. ReportsTyped
  BY EmptySequence DEF Init, ReportsTyped, ReportOk
<1>4. InboxTyped
  BY NothingTyped DEF Init, InboxTyped
<1>5. CacheTyped /\ SentTyped /\ PlayTyped
  <2>1. events = <<>> /\ IsSequence(events) /\ DOMAIN events = {}
    BY EmptySequence DEF Init
  <2> QED BY <2>1, WorkspaceAssumption DEF Init, CacheTyped, SentTyped, PlayTyped
<1> QED BY <1>1, <1>2, <1>3, <1>4, <1>5 DEF TypeInv

-----------------------------------------------------------------------------
(* The tools                                                               *)

\* A step of a call goes on with it, or returns its result.
Advances(c, new) ==
  /\ {"n", "pc", "done"} \subseteq DOMAIN new
  /\ \/ new.n = calls[c].n /\ new.done = calls[c].done
     \/ /\ new.n = calls[c].n + 1 /\ new.pc = "ready"
        /\ \E x : new.done = Append(calls[c].done, x)
Goes(c) == \E new : Step(c, new) /\ Advances(c, new)

LEMMA IdleFields ==
  /\ DOMAIN Idle = {"n", "pc", "step", "next", "inode", "alone", "listed", "todo", "found",
                    "bad", "parts", "done"}
  /\ Idle.pc = "ready" /\ Idle.n = 0 /\ Idle.done = <<>>
BY DEF Idle

LEMMA ReturnGoes ==
  ASSUME NEW c \in Caller, NEW ok, NEW parts, Return(c, ok, parts)
  PROVE  Goes(c)
<1>1. PICK x : x = [call |-> Call(c), ok |-> ok, parts |-> parts]
  OBVIOUS
<1>2. PICK new : new = [Idle EXCEPT !.n = calls[c].n + 1, !.done = Append(calls[c].done, x)]
  OBVIOUS
<1>3. Step(c, new)
  BY <1>1, <1>2 DEF Return
<1>4. /\ DOMAIN new = DOMAIN Idle /\ new.n = calls[c].n + 1 /\ new.pc = "ready"
      /\ new.done = Append(calls[c].done, x)
  BY <1>2, IdleFields
<1> QED BY <1>3, <1>4, IdleFields DEF Goes, Advances

LEMMA AdvanceGoes ==
  ASSUME NEW c \in Caller, NEW part, Advance(c, part)
  PROVE  Goes(c)
<1>1. PICK parts : parts = Append(calls[c].parts, part)
  OBVIOUS
<1>2. CASE calls[c].step = Len(Call(c).actions)
  BY <1>1, <1>2, ReturnGoes DEF Advance
<1>3. CASE calls[c].step # Len(Call(c).actions)
  <2>1. PICK new : new = [Idle EXCEPT !.n = calls[c].n, !.done = calls[c].done,
                            !.step = calls[c].step + 1, !.parts = parts]
    OBVIOUS
  <2>2. Step(c, new)
    BY <1>1, <1>3, <2>1 DEF Advance
  <2>3. DOMAIN new = DOMAIN Idle /\ new.n = calls[c].n /\ new.done = calls[c].done
    BY <2>1, IdleFields
  <2> QED BY <2>2, <2>3, IdleFields DEF Goes, Advances
<1> QED BY <1>2, <1>3

\* Each tool returns, goes on, or chooses what it will write.
LEMMA ToolKind ==
  ASSUME CallsTyped, NEW c \in Caller, ToolStep(c)
  PROVE  Busy(c) /\ (Goes(c) \/ \E p, body : Choose(c, p, body))
<1> USE DEF At
<1>0. {"n", "pc", "done"} \subseteq DOMAIN calls[c]
  BY DEF CallsTyped, CallOk
<1>1. CASE EditReads(c) \/ WriteChecks(c)
  BY <1>1 DEF EditReads, WriteChecks
<1>2. CASE EditRefuses(c) \/ TooLateToWrite(c) \/ FillFails(c) \/ ReadFails(c)
           \/ GlobLosesFile(c) \/ GlobLate(c)
  BY <1>2, ReturnGoes
  DEF EditRefuses, TooLateToWrite, FillFails, ReadFails, GlobLosesFile, GlobLate, Abort
<1>3. CASE FillFile(c) \/ RemoveFile(c)
  BY <1>3, ReturnGoes DEF FillFile, RemoveFile
<1>4. CASE OpenFile(c)
  <2>1. PICK new : new = [calls[c] EXCEPT !.pc = "open", !.inode = files'[Call(c).path].gen]
    OBVIOUS
  <2>2. Step(c, new) /\ Busy(c)
    BY <1>4, <2>1 DEF OpenFile
  <2>3. DOMAIN new = DOMAIN calls[c] /\ new.n = calls[c].n /\ new.done = calls[c].done
    BY <1>0, <2>1
  <2> QED BY <1>0, <2>2, <2>3 DEF Goes, Advances
<1>5. CASE ReadPage(c)
  BY <1>5, AdvanceGoes DEF ReadPage
<1>6. CASE GlobLists(c)
  <2>1. PICK new : new = [calls[c] EXCEPT !.pc = "walk", !.listed = Listing,
                              !.todo = Present \intersect Action(c)]
    OBVIOUS
  <2>2. Step(c, new) /\ Busy(c)
    BY <1>6, <2>1 DEF GlobLists
  <2>3. DOMAIN new = DOMAIN calls[c] /\ new.n = calls[c].n /\ new.done = calls[c].done
    BY <1>0, <2>1
  <2> QED BY <1>0, <2>2, <2>3 DEF Goes, Advances
<1>7. CASE GlobVisits(c)
  <2>1. PICK new : new = [calls[c] EXCEPT !.todo = @ \ {Min(calls[c].todo)},
            !.found = Append(@, <<files[Min(calls[c].todo)].time, Min(calls[c].todo)>>)]
    OBVIOUS
  <2>2. Step(c, new) /\ Busy(c)
    BY <1>7, <2>1 DEF GlobVisits
  <2>3. DOMAIN new = DOMAIN calls[c] /\ new.n = calls[c].n /\ new.done = calls[c].done
    BY <1>0, <2>1
  <2> QED BY <1>0, <2>2, <2>3 DEF Goes, Advances
<1>8. CASE GlobEnds(c)
  BY <1>8, AdvanceGoes DEF GlobEnds, GlobAnswers
<1>9. CASE GrepStarts(c)
  <2>1. PICK new : new = [calls[c] EXCEPT !.pc = "walk", !.listed = Listing,
                !.todo = Present \intersect Action(c).root,
                !.bad = Cardinality(Action(c).root) = 1 /\ Present \intersect Action(c).root = {}]
    OBVIOUS
  <2>2. Step(c, new) /\ Busy(c)
    BY <1>9, <2>1 DEF GrepStarts
  <2>3. DOMAIN new = DOMAIN calls[c] /\ new.n = calls[c].n /\ new.done = calls[c].done
    BY <1>0, <2>1
  <2> QED BY <1>0, <2>2, <2>3 DEF Goes, Advances
<1>10. CASE GrepScans(c)
  <2>1. PICK p \in calls[c].todo :
          Step(c, [calls[c] EXCEPT !.todo = @ \ {p}, !.bad = @ \/ ~files[p].there,
                     !.found = @ \o Output(p, Action(c))])
    BY <1>10 DEF GrepScans
  <2>2. PICK new : new = [calls[c] EXCEPT !.todo = @ \ {p}, !.bad = @ \/ ~files[p].there,
                            !.found = @ \o Output(p, Action(c))]
    OBVIOUS
  <2>3. DOMAIN new = DOMAIN calls[c] /\ new.n = calls[c].n /\ new.done = calls[c].done
    BY <1>0, <2>2
  <2>4. Step(c, new) /\ Busy(c)
    BY <1>10, <2>1, <2>2 DEF GrepScans
  <2> QED BY <1>0, <2>3, <2>4 DEF Goes, Advances
<1>11. CASE GrepDoesNotStart(c) \/ GrepEnds(c) \/ GrepKilled(c)
  <2>1. PICK how : GrepAnswers(c, how)
    BY <1>11 DEF GrepDoesNotStart, GrepEnds, GrepKilled
  <2>2. Goes(c)
    BY <2>1, AdvanceGoes, ReturnGoes DEF GrepAnswers
  <2> QED BY <1>11, <2>2 DEF GrepDoesNotStart, GrepEnds, GrepKilled
<1> QED
  BY <1>1, <1>2, <1>3, <1>4, <1>5, <1>6, <1>7, <1>8, <1>9, <1>10, <1>11 DEF ToolStep

LEMMA CallsGo ==
  ASSUME CallsTyped, PlayTyped, cast' = cast, NEW c \in Caller, Busy(c), Goes(c)
  PROVE  CallsTyped'
<1>1. PICK new : Step(c, new) /\ Advances(c, new)
  BY DEF Goes
<1>2. /\ DOMAIN calls' = Caller /\ calls'[c] = new
      /\ \A d \in Caller : d # c => calls'[d] = calls[d]
  BY <1>1 DEF Step, CallsTyped
<1>3. /\ calls[c].n \in 0 .. Len(cast.plan[c]) /\ calls[c].n < Len(cast.plan[c])
      /\ IsSequence(calls[c].done) /\ Len(calls[c].done) = calls[c].n
  BY DEF CallsTyped, CallOk, Busy
<1>4. Len(cast.plan[c]) \in Nat
  BY PlanTyped DEF PlayTyped
<1>5. /\ new.n \in 0 .. Len(cast.plan[c])
      /\ new.pc # "ready" => new.n < Len(cast.plan[c])
      /\ IsSequence(new.done) /\ Len(new.done) = new.n
  <2>1. CASE new.n = calls[c].n /\ new.done = calls[c].done
    BY <1>3, <2>1
  <2>2. ASSUME NEW x, new.n = calls[c].n + 1, new.pc = "ready",
               new.done = Append(calls[c].done, x)
        PROVE  /\ new.n \in 0 .. Len(cast.plan[c])
               /\ new.pc # "ready" => new.n < Len(cast.plan[c])
               /\ IsSequence(new.done) /\ Len(new.done) = new.n
    <3>1. IsSequence(new.done) /\ Len(new.done) = calls[c].n + 1
      BY <1>3, <2>2, AppendSequence
    <3> QED BY <1>3, <1>4, <2>2, <3>1
  <2> QED BY <1>1, <2>1, <2>2 DEF Advances
<1>6. CallOk(c)'
  BY <1>1, <1>2, <1>5 DEF CallOk, Advances, Busy
<1>7. ASSUME NEW d \in Caller, d # c PROVE CallOk(d)'
  BY <1>2, <1>7 DEF CallOk, CallsTyped, Busy
<1> QED BY <1>2, <1>6, <1>7 DEF CallsTyped

LEMMA CallsChoose ==
  ASSUME CallsTyped, PlayTyped, cast' = cast, NEW c \in Caller, Busy(c),
         NEW p, NEW body, Choose(c, p, body)
  PROVE  CallsTyped'
<1>1. DOMAIN calls' = Caller
  BY DEF Choose
<1>2. ASSUME NEW d \in Caller
      PROVE  /\ {"n", "pc", "done"} \subseteq DOMAIN calls'[d]
             /\ calls'[d].n = calls[d].n /\ calls'[d].done = calls[d].done
             /\ calls'[d].pc = calls[d].pc \/ d = c
  <2>0. {"n", "pc", "done"} \subseteq DOMAIN calls[d]
    BY DEF CallsTyped, CallOk
  <2>1. PICK alone : calls'[d] = [calls[d] EXCEPT !.pc = "chosen", !.next = body,
                                                  !.alone = alone]
                     \/ (d # c /\ calls'[d] = [calls[d] EXCEPT !.alone = FALSE])
                     \/ (d # c /\ calls'[d] = calls[d])
    BY DEF Choose
  <2>2. CASE calls'[d] = [calls[d] EXCEPT !.pc = "chosen", !.next = body, !.alone = alone]
             /\ d = c
    BY <2>0, <2>2
  <2>3. CASE d # c
    BY <2>0, <2>3 DEF Choose
  <2> QED BY <2>1, <2>2, <2>3
<1>3. ASSUME NEW d \in Caller PROVE CallOk(d)'
  BY <1>2 DEF CallsTyped, CallOk, Busy
<1> QED BY <1>1, <1>3 DEF CallsTyped

LEMMA ToolFiles ==
  ASSUME FilesTyped, NEW c \in Caller, ToolStep(c)
  PROVE  FilesTyped'
<1>1. UNCHANGED files \/ OpenFile(c) \/ FillFile(c) \/ RemoveFile(c)
  BY DEF ToolStep, EditReads, WriteChecks, EditRefuses, TooLateToWrite, FillFails, ReadFails,
     GlobLosesFile, GlobLate, ReadPage, GlobLists, GlobVisits, GlobEnds, GrepStarts, GrepScans,
     GrepDoesNotStart, GrepEnds, GrepKilled
<1>2. CASE UNCHANGED files
  BY <1>2 DEF FilesTyped, FileOk
<1>3. CASE OpenFile(c)
  <2>1. PICK f : f = Opened(Call(c).path)
    OBVIOUS
  <2>2. FileOk(f)
    BY <2>1 DEF Opened, FileOk
  <2> QED BY <1>3, <2>1, <2>2 DEF OpenFile, FilesTyped
<1>4. CASE FillFile(c)
  <2>1. PICK p : p = Call(c).path
    OBVIOUS
  <2>2. \/ UNCHANGED files
        \/ /\ files[p].there
           /\ \E body, time : files' = [files EXCEPT ![p].body = body, ![p].time = time]
    BY <1>4, <2>1 DEF FillFile, StillOpen
  <2>3. ASSUME NEW body, NEW time, files[p].there,
               files' = [files EXCEPT ![p].body = body, ![p].time = time]
        PROVE  FilesTyped'
    <3>1. ASSUME NEW q \in Path PROVE FileOk(files'[q])
      BY <2>3 DEF FilesTyped, FileOk
    <3> QED BY <2>3, <3>1 DEF FilesTyped
  <2> QED BY <1>2, <2>2, <2>3
<1>5. CASE RemoveFile(c)
  <2>1. PICK p : p = Call(c).path
    OBVIOUS
  <2>2. files' = [files EXCEPT ![p].there = FALSE, ![p].body = <<>>]
    BY <1>5, <2>1 DEF RemoveFile
  <2>3. ASSUME NEW q \in Path PROVE FileOk(files'[q])
    BY <2>2 DEF FilesTyped, FileOk
  <2> QED BY <2>2, <2>3 DEF FilesTyped
<1> QED BY <1>1, <1>2, <1>3, <1>4, <1>5

-----------------------------------------------------------------------------
(* What a step may change                                                  *)

LEMMA CastKept == [Next]_vars => cast' = cast
<1> SUFFICES ASSUME [Next]_vars PROVE cast' = cast
  OBVIOUS
<1>1. ASSUME NEW m \in Message, Inbound(m) PROVE cast' = cast
  BY <1>1 DEF Inbound, BeginDiscord, BeginCommand, BeginTelegram, BeginInject, Begins,
     PlaceDiscord, PlaceOther, Download, DownloadFails, Ignore, Enqueue, EnqueueFails
<1>2. ASSUME NEW r \in Report, Outbound(r) PROVE cast' = cast
  BY <1>2 DEF Outbound, BeginReport, PostChunk, TextDone, PostDiscordFiles,
     PostTelegramFile, FileIsGone
<1> QED BY <1>1, <1>2 DEF Next, Tools, Restart, Stopped, vars

LEMMA PlayStep == PlayTyped /\ [Next]_vars => PlayTyped'
<1> SUFFICES ASSUME PlayTyped, [Next]_vars PROVE PlayTyped'
  OBVIOUS
<1> DEFINE Bounded == NoFault \/ \E f : Fault(f)
<1>1. ASSUME NEW m \in Message, Inbound(m) PROVE Bounded
  BY <1>1 DEF Inbound, BeginDiscord, BeginCommand, BeginTelegram, BeginInject, Begins,
     PlaceDiscord, PlaceOther, Download, DownloadFails, Ignore, Enqueue, EnqueueFails
<1>2. ASSUME NEW r \in Report, Outbound(r) PROVE Bounded
  BY <1>2 DEF Outbound, BeginReport, PostChunk, TextDone, PostDiscordFiles,
     PostTelegramFile, FileIsGone, Post
<1>3. ASSUME NEW c \in Caller, Tools(c) PROVE Bounded
  BY <1>3 DEF Tools, ToolStep, EditReads, WriteChecks, EditRefuses, TooLateToWrite, OpenFile,
     FillFile, FillFails, RemoveFile, ReadPage, ReadFails,
     GlobLosesFile, GlobLate, GlobLists, GlobVisits, GlobEnds, GrepStarts, GrepScans,
     GrepDoesNotStart, GrepEnds, GrepKilled
<1>4. ASSUME Restart \/ Stopped \/ UNCHANGED vars PROVE Bounded
  BY <1>4 DEF Restart, Stopped, vars, NoFault
<1>5. Bounded
  BY <1>1, <1>2, <1>3, <1>4 DEF Next
<1>6. spent' \in 0 .. MaxFaults
  BY <1>5, WorkspaceAssumption DEF NoFault, Fault, PlayTyped
<1> QED BY <1>6, CastKept DEF PlayTyped

\* A message's handler changes as long as it has not ended.
LEMMA Handles ==
  ASSUME InboxTyped, cast' = cast, NEW m \in Message, NEW h, Handle(m, h)
  PROVE  /\ Message' = Message
         /\ inbox'[m] = h /\ \A o \in Message : o # m => inbox'[o] = inbox[o]
         /\ HandlerOk(h) => InboxTyped'
<1>1. /\ Message' = Message /\ DOMAIN inbox' = Message /\ inbox'[m] = h
      /\ \A o \in Message : o # m => inbox'[o] = inbox[o]
  BY DEF Handle, InboxTyped, Message
<1>2. ASSUME HandlerOk(h), NEW o \in Message PROVE HandlerOk(inbox'[o])
  BY <1>1, <1>2 DEF InboxTyped
<1> QED BY <1>1, <1>2 DEF InboxTyped

-----------------------------------------------------------------------------
(* The reports                                                             *)

LEMMA ReportBecomes ==
  ASSUME ReportsTyped, cast' = cast, NEW r \in Report, NEW new, Becomes(r, new),
         {"pc", "left", "posts"} \subseteq DOMAIN new,
         new.pc \in {"waiting", "text", "files", "done", "failed"}, IsSequence(new.posts)
  PROVE  /\ Report' = Report /\ ReportsTyped'
         /\ reports'[r] = new /\ \A q \in Report : q # r => reports'[q] = reports[q]
<1>1. /\ Report' = Report /\ DOMAIN reports' = Report /\ reports'[r] = new
      /\ \A q \in Report : q # r => reports'[q] = reports[q]
  BY DEF Becomes, ReportsTyped, Report
<1>2. ASSUME NEW q \in Report PROVE ReportOk(q)'
  BY <1>1 DEF ReportOk, ReportsTyped
<1> QED BY <1>1, <1>2 DEF ReportsTyped

\* The report of an event posts nothing more, or one post to its place.
PostsOne(r) ==
  \E text, paths, once :
    /\ once = TRUE \/ Via(r) \in {"discord", "command"}
    /\ reports'[r].posts = Posted(r, text, paths, once)
ReportStep(r) ==
  /\ ReportsTyped' /\ Report' = Report
  /\ \A q \in Report : q # r => reports'[q] = reports[q]
  /\ \/ reports'[r].posts = reports[r].posts
     \/ PostsOne(r) /\ reports[r].pc # "waiting"
  /\ reports[r].pc = "waiting" => \E i \in DOMAIN events : events[i].msg = Asked(r).to

LEMMA PostStep ==
  ASSUME ReportsTyped, cast' = cast, NEW r \in Report, NEW text, NEW paths, NEW after,
         Post(r, text, paths, after), reports[r].pc # "waiting",
         {"pc", "left", "posts"} \subseteq DOMAIN after,
         after.pc \in {"text", "files", "done"}
  PROVE  ReportStep(r)
<1>1. {"pc", "left", "posts"} \subseteq DOMAIN reports[r] /\ IsSequence(reports[r].posts)
  BY DEF ReportsTyped, ReportOk
<1>4. PICK ended : ended = GivesUp(r)
  OBVIOUS
<1>5. /\ {"pc", "left", "posts"} \subseteq DOMAIN ended
      /\ ended.pc = "failed" /\ ended.posts = reports[r].posts
  BY <1>1, <1>4 DEF GivesUp
<1>6. ASSUME NEW once, once = TRUE \/ Via(r) \in {"discord", "command"}, NEW end,
             Becomes(r, [end EXCEPT !.posts = Posted(r, text, paths, once)]),
             {"pc", "left", "posts"} \subseteq DOMAIN end,
             end.pc \in {"text", "files", "done", "failed"}
      PROVE  ReportStep(r)
  <2>1. PICK posts : posts = Posted(r, text, paths, once)
    OBVIOUS
  <2>2. IsSequence(posts)
    BY <1>1, <2>1, AppendSequence DEF Posted
  <2>3. PICK new : new = [end EXCEPT !.posts = posts]
    OBVIOUS
  <2>4. /\ {"pc", "left", "posts"} \subseteq DOMAIN new /\ new.posts = posts
        /\ new.pc \in {"text", "files", "done", "failed"}
    BY <1>6, <2>3
  <2>5. Becomes(r, new)
    BY <1>6, <2>1, <2>3
  <2>6. /\ Report' = Report /\ ReportsTyped'
        /\ reports'[r] = new /\ \A q \in Report : q # r => reports'[q] = reports[q]
    BY <2>2, <2>4, <2>5, ReportBecomes
  <2>7. PostsOne(r)
    BY <1>6, <2>1, <2>4, <2>6 DEF PostsOne
  <2> QED BY <2>6, <2>7 DEF ReportStep
<1>7. CASE Becomes(r, ended)
  <2>1. /\ Report' = Report /\ ReportsTyped'
        /\ reports'[r] = ended /\ \A q \in Report : q # r => reports'[q] = reports[q]
    BY <1>1, <1>5, <1>7, ReportBecomes
  <2> QED BY <1>5, <2>1 DEF ReportStep
<1>8. CASE Becomes(r, [after EXCEPT !.posts = Posted(r, text, paths, TRUE)])
  BY <1>6, <1>8
<1>9. CASE Becomes(r, [ended EXCEPT !.posts = Posted(r, text, paths, TRUE)])
  BY <1>5, <1>6, <1>9
<1>10. CASE /\ Via(r) \in {"discord", "command"}
            /\ \E end \in {after, ended} :
                 Becomes(r, [end EXCEPT !.posts = Posted(r, text, paths, FALSE)])
  <2>1. PICK end \in {after, ended} :
          Becomes(r, [end EXCEPT !.posts = Posted(r, text, paths, FALSE)])
    BY <1>10
  <2>2. {"pc", "left", "posts"} \subseteq DOMAIN end /\ end.pc \in {"text", "files", "done", "failed"}
    BY <1>5
  <2> QED BY <1>6, <1>10, <2>1, <2>2
<1>11. \/ Becomes(r, [after EXCEPT !.posts = Posted(r, text, paths, TRUE)])
       \/ Becomes(r, ended)
       \/ Becomes(r, [ended EXCEPT !.posts = Posted(r, text, paths, TRUE)])
       \/ /\ Via(r) \in {"discord", "command"}
          /\ \E end \in {after, ended} :
               Becomes(r, [end EXCEPT !.posts = Posted(r, text, paths, FALSE)])
  BY <1>4 DEF Post
<1> QED BY <1>7, <1>8, <1>9, <1>10, <1>11

\* A step of a report that posts nothing
LEMMA SilentStep ==
  ASSUME ReportsTyped, cast' = cast, NEW r \in Report, NEW new, Becomes(r, new),
         DOMAIN new = DOMAIN reports[r], new.posts = reports[r].posts,
         new.pc \in {"waiting", "text", "files", "done", "failed"},
         reports[r].pc = "waiting" => \E i \in DOMAIN events : events[i].msg = Asked(r).to
  PROVE  ReportStep(r)
<1>1. {"pc", "left", "posts"} \subseteq DOMAIN reports[r] /\ IsSequence(reports[r].posts)
  BY DEF ReportsTyped, ReportOk
<1>2. /\ Report' = Report /\ ReportsTyped'
      /\ reports'[r] = new /\ \A q \in Report : q # r => reports'[q] = reports[q]
  BY <1>1, ReportBecomes
<1> QED BY <1>2 DEF ReportStep

LEMMA OutboundStep ==
  ASSUME ReportsTyped, cast' = cast, NEW r \in Report, Outbound(r)
  PROVE  ReportStep(r) /\ UNCHANGED <<workspace, threads, inbox, events, ids>>
<1>0. {"pc", "left", "posts"} \subseteq DOMAIN reports[r]
  BY DEF ReportsTyped, ReportOk
<1>1. UNCHANGED <<workspace, threads, inbox, events, ids>>
  BY DEF Outbound, BeginReport, PostChunk, TextDone, PostDiscordFiles, PostTelegramFile,
     FileIsGone
<1>2. CASE BeginReport(r)
  <2>1. PICK new : /\ Becomes(r, new)
                   /\ \/ new = [reports[r] EXCEPT !.pc = "text", !.left = Trim(Asked(r).text)]
                      \/ new = [reports[r] EXCEPT !.pc = "failed"]
    BY <1>2 DEF BeginReport
  <2>2. /\ DOMAIN new = DOMAIN reports[r] /\ new.posts = reports[r].posts
        /\ new.pc \in {"text", "failed"}
    BY <1>0, <2>1
  <2> QED BY <1>1, <1>2, <2>1, <2>2, SilentStep DEF BeginReport
<1>3. CASE PostChunk(r)
  <2>1. PICK after : after = [reports[r] EXCEPT !.left = RestOf(@, MaxChars[Via(r)])]
    OBVIOUS
  <2>2. DOMAIN after = DOMAIN reports[r] /\ after.pc = reports[r].pc
    BY <1>0, <2>1
  <2>3. reports[r].pc = "text" /\ \E text : Post(r, text, <<>>, after)
    BY <1>3, <2>1 DEF PostChunk, Reporting
  <2> QED BY <1>0, <1>1, <2>2, <2>3, PostStep
<1>4. CASE TextDone(r)
  <2>1. PICK new : /\ Becomes(r, new)
                   /\ \/ new = [reports[r] EXCEPT !.pc = "done"]
                      \/ new = [reports[r] EXCEPT !.pc = "files"]
    BY <1>4 DEF TextDone
  <2>2. /\ DOMAIN new = DOMAIN reports[r] /\ new.posts = reports[r].posts
        /\ new.pc \in {"done", "files"}
    BY <1>0, <2>1
  <2> QED BY <1>1, <1>4, <2>1, <2>2, SilentStep DEF TextDone, Reporting
<1>5. CASE PostDiscordFiles(r)
  <2>1. PICK after : after = [reports[r] EXCEPT !.pc = "done"]
    OBVIOUS
  <2>2. DOMAIN after = DOMAIN reports[r] /\ after.pc = "done"
    BY <1>0, <2>1
  <2>3. reports[r].pc = "files" /\ Post(r, <<>>, Asked(r).files, after)
    BY <1>5, <2>1 DEF PostDiscordFiles, Reporting
  <2> QED BY <1>0, <1>1, <2>2, <2>3, PostStep
<1>6. CASE PostTelegramFile(r)
  <2>1. PICK after : after = [reports[r] EXCEPT !.pc =
          IF FilesPosted(r) + 1 = Len(Asked(r).files) THEN "done" ELSE @]
    OBVIOUS
  <2>2. /\ DOMAIN after = DOMAIN reports[r]
        /\ after.pc = "done" \/ after.pc = reports[r].pc
    BY <1>0, <2>1
  <2>3. reports[r].pc = "files" /\ Post(r, <<>>, NextPosted(r), after)
    BY <1>6, <2>1 DEF PostTelegramFile, Reporting
  <2> QED BY <1>0, <1>1, <2>2, <2>3, PostStep
<1>7. CASE FileIsGone(r)
  <2>1. PICK new : new = GivesUp(r)
    OBVIOUS
  <2>2. /\ DOMAIN new = DOMAIN reports[r] /\ new.posts = reports[r].posts
        /\ new.pc = "failed"
    BY <1>0, <2>1 DEF GivesUp
  <2>3. reports[r].pc = "files" /\ Becomes(r, new)
    BY <1>7, <2>1 DEF FileIsGone, Reporting
  <2> QED BY <1>1, <2>2, <2>3, SilentStep
<1> QED BY <1>2, <1>3, <1>4, <1>5, <1>6, <1>7 DEF Outbound

-----------------------------------------------------------------------------
(* What comes in.  A handler carries what is true of its message, and the  *)
(* events carry what their handlers did.                                   *)

IdOk(m, id) ==
  IF Sent(m).via = "telegram" THEN id = <<m, 0>> ELSE \E n \in 1 .. ids : id = <<"id", n>>
RefOk(m, ref) == ref = Sent(m).ref \/ Sent(m).hidden
AttsOk(m, atts) ==
  /\ IsSequence(atts)
  /\ \A k \in DOMAIN atts : atts[k] \in BodiesOf(m, k) \union {<<>>}
\* The place that a handler or an event names
PlaceOk(m, at) ==
  IF at.unsure THEN Sent(m).via # "telegram" /\ at.chan = Home(m) /\ at.thread = ""
  ELSE [chan |-> at.chan, thread |-> at.thread] = TruePlace(Home(m))

HandlerTrue(m) ==
  /\ inbox[m].pc # "sent" => IdOk(m, inbox[m].id) /\ RefOk(m, inbox[m].ref)
  /\ inbox[m].pc = "place" => inbox[m].atts = <<>>
  /\ inbox[m].pc = "files" => PlaceOk(m, inbox[m]) /\ AttsOk(m, inbox[m].atts)
  /\ inbox[m].told = "started" => \E i \in DOMAIN events : events[i].msg = m
EventTrue(e) ==
  /\ IdOk(e.msg, e.id) /\ RefOk(e.msg, e.ref) /\ AttsOk(e.msg, e.atts) /\ PlaceOk(e.msg, e)
  /\ Sent(e.msg).via # "telegram" =>
       inbox[e.msg].pc \in {"done", "failed"} /\ inbox[e.msg].id = e.id

HandlersTrue == \A m \in Message : HandlerTrue(m)
EventsTrue == \A i \in DOMAIN events : EventTrue(events[i])
\* Random identifiers differ, and one that is delivered once is sent once.
IdsDiffer ==
  \A m, o \in Message :
    (/\ Sent(m).via # "telegram" /\ Sent(o).via # "telegram"
     /\ inbox[m].pc # "sent" /\ inbox[o].pc # "sent"
     /\ inbox[m].id = inbox[o].id) => m = o
SentOnce ==
  \A i, j \in DOMAIN events :
    (events[i].msg = events[j].msg /\ Sent(events[i].msg).via # "telegram") => i = j

InboundInv == HandlersTrue /\ EventsTrue /\ IdsDiffer /\ SentOnce

PostTrue(r, post) ==
  LET home == Home(Asked(r).to) IN
  /\ post.to = IF Via(r) = "telegram" THEN TruePlace(home) ELSE [chan |-> home, thread |-> ""]
  /\ RefOk(Asked(r).to, post.ref)
  /\ post.once = TRUE \/ Via(r) \in {"discord", "command"}
ReportTrue(r) ==
  /\ reports[r].pc # "waiting" => \E i \in DOMAIN events : events[i].msg = Asked(r).to
  /\ \A i \in DOMAIN reports[r].posts : PostTrue(r, reports[r].posts[i])
OutboundInv == \A r \in Report : ReportTrue(r)

-----------------------------------------------------------------------------
(* The files of a message                                                  *)

\* A set of numbers has a least one.
LEMMA LeastNumber ==
  ASSUME NEW S \in SUBSET Nat, S # {}
  PROVE  \E n \in S : \A m \in S : n <= m
<1>1. PICK n \in S : \A m \in S : <<m, n>> \notin OpToRel(<, Nat)
  BY NatLessThanWellFounded, WFMin
<1>2. \A m \in S : ~(m < n)
  BY <1>1 DEF OpToRel
<1> QED BY <1>2

\* The size that is taken of a photo is one of those offered (Largest).
LEMMA LargestIsOffered ==
  ASSUME NEW vs \in Seq(FileType), vs # <<>>
  PROVE  \E i \in DOMAIN vs : Largest(vs) = vs[i]
<1> DEFINE score == [i \in 1 .. Len(vs) |-> Score(vs[i])]
           Best(i, k) == \A j \in 1 .. k : score[j] <= score[i]
           B == {k \in 1 .. Len(vs) : \A i \in 1 .. k : ~Best(i, k)}
           T == {i \in 1 .. Len(vs) : Best(i, Len(vs))}
<1>1. Len(vs) \in Nat \ {0} /\ DOMAIN vs = 1 .. Len(vs)
  BY EmptySeq, LenProperties
<1>2. \A i \in 1 .. Len(vs) : score[i] \in Nat
  <2>1. \A i \in 1 .. Len(vs) : vs[i] \in FileType
    BY <1>1, ElementOfSeq
  <2>2. ASSUME NEW i \in 1 .. Len(vs) PROVE Score(vs[i]) \in Nat
    <3>1. vs[i].declared \in Nat /\ vs[i].area \in Nat
      BY <2>1 DEF FileType
    <3> QED BY <3>1 DEF Score
  <2> QED BY <2>2
<1> HIDE DEF score
<1>3. B = {}
  <2> SUFFICES ASSUME B # {} PROVE FALSE
    OBVIOUS
  <2>0. B \in SUBSET Nat
    BY <1>1
  <2>1. PICK k \in B : \A m \in B : k <= m
    <3> HIDE DEF B
    <3> QED BY <2>0, LeastNumber
  <2>2. k \in 1 .. Len(vs) /\ \A i \in 1 .. k : \E j \in 1 .. k : ~(score[j] <= score[i])
    OBVIOUS
  <2>3. k # 1
    <3>1. 1 \in 1 .. Len(vs) /\ score[1] <= score[1]
      <4>1. 1 \in 1 .. Len(vs)
        BY <1>1
      <4>2. PICK n \in Nat : n = score[1]
        BY <1>2, <4>1
      <4>3. n <= n
        OBVIOUS
      <4> QED BY <4>1, <4>2, <4>3
    <3>2. \A j \in 1 .. 1 : j = 1
      OBVIOUS
    <3> QED BY <2>2, <3>1, <3>2
  <2>4. k - 1 \in 1 .. Len(vs) /\ k - 1 \notin B
    <3>1. k - 1 \in 1 .. Len(vs) /\ ~(k <= k - 1)
      BY <1>1, <2>2, <2>3
    <3> HIDE DEF B
    <3> QED BY <2>1, <3>1
  <2>5. PICK i \in 1 .. k - 1 : \A j \in 1 .. k - 1 : score[j] <= score[i]
    BY <2>4
  <2> HIDE DEF B
  <2>6. /\ i \in 1 .. k /\ k \in 1 .. k
        /\ \A j \in 1 .. k : j \in 1 .. k - 1 \/ j = k
        /\ \A j \in 1 .. k : score[j] \in Nat
    <3>1. k \in 1 .. Len(vs)
      BY <2>2
    <3>2. /\ i \in 1 .. k /\ k \in 1 .. k
          /\ \A j \in 1 .. k : (j \in 1 .. k - 1 \/ j = k) /\ j \in 1 .. Len(vs)
      BY <1>1, <2>5, <3>1
    <3> QED BY <1>2, <3>2
  <2>7. CASE score[k] <= score[i]
    BY <2>2, <2>5, <2>6, <2>7
  <2>8. CASE ~(score[k] <= score[i])
    <3>1. score[i] <= score[k] /\ score[k] <= score[k]
      BY <2>6, <2>8
    <3>2. \A j \in 1 .. k : score[j] <= score[k]
      BY <2>5, <2>6, <3>1
    <3> QED BY <2>2, <2>6, <3>2
  <2> QED BY <2>7, <2>8
<1>4. T # {} /\ T \in SUBSET Nat
  <2>1. Len(vs) \in 1 .. Len(vs)
    BY <1>1
  <2>2. Len(vs) \notin B
    BY <1>3
  <2> QED BY <1>1, <2>1, <2>2
<1>5. PICK t \in T : \A i \in T : t <= i
  <2> HIDE DEF T
  <2> QED BY <1>4, LeastNumber
<1>6. ASSUME NEW j \in 1 .. t - 1 PROVE score[j] < score[t]
  <2>1. j \in 1 .. Len(vs) /\ t \in 1 .. Len(vs) /\ ~(t <= j)
    BY <1>1
  <2>2. j \notin T
    <3> HIDE DEF T
    <3> QED BY <1>5, <2>1
  <2>3. PICK l \in 1 .. Len(vs) : ~(score[l] <= score[j])
    BY <2>1, <2>2
  <2>4. score[l] <= score[t]
    OBVIOUS
  <2> QED BY <1>2, <2>1, <2>3, <2>4
<1>7. \E i \in DOMAIN vs : /\ \A j \in DOMAIN vs : Score(vs[j]) <= Score(vs[i])
                           /\ \A j \in 1 .. i - 1 : Score(vs[j]) < Score(vs[i])
  <2>1. t \in DOMAIN vs /\ \A j \in DOMAIN vs : score[j] <= score[t]
    BY <1>1, <1>5
  <2>2. \A j \in 1 .. t - 1 : j \in 1 .. Len(vs)
    BY <1>1, <2>1
  <2> QED BY <1>1, <1>6, <2>1, <2>2 DEF score
<1> QED BY <1>7 DEF Largest

\* What fits is copied whole (downloadAttachment).
LEMMA WhatFitsIsWhole ==
  ASSUME NEW att \in FileType, DiscordFits(att)
  PROVE  Copied(att.body) = att.body /\ att.body \in Body
<1>1. att.body \in Seq(STRING)
  BY DEF FileType
<1>2. PICK body : body = att.body
  OBVIOUS
<1>3. body \in Seq(STRING) /\ Len(body) \in Nat /\ MaxFileBytes \in Nat
  BY <1>1, <1>2, ChannelAssumption, LenProperties
<1>4. Len(Copied(body)) <= MaxFileBytes
  BY <1>2 DEF DiscordFits
<1>5. Smaller(Len(body), MaxFileBytes + 1) \in 0 .. Len(body)
  BY <1>3 DEF Smaller
<1>6. \A n \in 0 .. Len(body) : Len(SubSeq(body, 1, n)) = n
  <2> SUFFICES ASSUME NEW n \in 0 .. Len(body) PROVE Len(SubSeq(body, 1, n)) = n
    OBVIOUS
  <2>1. n + 1 - 1 = n /\ n \in Int /\ (n = 0 => SubSeq(body, 1, n) = <<>>)
    BY <1>3, SubSeqProperties
  <2> QED BY <1>3, <2>1, SubSeqProperties, EmptySeq
<1>7. Smaller(Len(body), MaxFileBytes + 1) <= MaxFileBytes
  BY <1>4, <1>5, <1>6 DEF Copied
<1>8. Smaller(Len(body), MaxFileBytes + 1) = Len(body)
  BY <1>3, <1>7 DEF Smaller
<1>9. SubSeq(body, 1, Len(body)) = body
  BY <1>3, SubSeqFull
<1> QED BY <1>2, <1>3, <1>8, <1>9 DEF Copied, Body

\* The next file of a message is one that was sent with it; one that fits is
\* recorded whole.
LEMMA NextFileIsSent ==
  ASSUME cast \in Casts, NEW m \in Message, HandlerOk(inbox[m]), HasNextFile(m)
  PROVE  /\ NextFile(m) \in FileType
         /\ NextFile(m).body \in BodiesOf(m, Len(inbox[m].atts) + 1)
<1>1. PICK k : k = Len(inbox[m].atts) + 1
  OBVIOUS
<1>2. Len(inbox[m].atts) \in Nat
  BY LenProperties DEF HandlerOk
<1>3. PICK via \in Ways : Sent(m) \in MessageType(via)
  BY MessageFacts
<1>4. /\ Sent(m).via = via
      /\ via = "telegram" => Sent(m).files \in Seq(Seq(FileType) \ {<<>>})
      /\ via # "telegram" => Sent(m).files \in Seq(FileType)
  BY <1>3 DEF MessageType
<1>5. inbox[m].shown
  <2> SUFFICES ASSUME ~inbox[m].shown PROVE FALSE
    OBVIOUS
  <2>1. FilesOf(m) = <<>> /\ Len(FilesOf(m)) = 0
    BY EmptySequence DEF FilesOf
  <2> QED BY <1>2, <2>1 DEF HasNextFile
<1>6. CASE via # "telegram"
  <2>1. FilesOf(m) = Sent(m).files
    BY <1>4, <1>5, <1>6 DEF FilesOf
  <2>2. PICK fs \in Seq(FileType) : fs = Sent(m).files
    BY <1>4, <1>6
  <2>3. Len(inbox[m].atts) < Len(fs)
    BY <2>1, <2>2 DEF HasNextFile
  <2>4. k \in 1 .. Len(fs)
    <3>1. Len(fs) \in Nat
      BY LenProperties
    <3> QED BY <1>1, <1>2, <2>3, <3>1
  <2>5. fs[k] \in FileType
    BY <2>4, ElementOfSeq
  <2> QED BY <1>1, <1>4, <1>6, <2>1, <2>2, <2>5 DEF NextFile, BodiesOf
<1>7. CASE via = "telegram"
  <2>1. FilesOf(m) = TelegramFiles(m)
    BY <1>4, <1>5, <1>7 DEF FilesOf
  <2>2. PICK fs \in Seq(Seq(FileType) \ {<<>>}) : fs = Sent(m).files
    BY <1>4, <1>7
  <2>3. Len(fs) \in Nat /\ DOMAIN fs = 1 .. Len(fs)
    BY LenProperties
  <2>4. TelegramFiles(m) = [j \in 1 .. Len(fs) |-> Largest(fs[j])]
    BY <2>2, <2>3 DEF TelegramFiles
  <2>5. ASSUME NEW j \in 1 .. Len(fs)
        PROVE  \E i \in DOMAIN fs[j] : /\ Largest(fs[j]) = fs[j][i]
                                       /\ fs[j][i] \in FileType
    <3>1. fs[j] \in Seq(FileType) /\ fs[j] # <<>>
      BY <2>5, ElementOfSeq
    <3>2. PICK i \in DOMAIN fs[j] : Largest(fs[j]) = fs[j][i]
      BY <3>1, LargestIsOffered
    <3>3. fs[j][i] \in FileType
      BY <3>1, ElementOfSeq, LenProperties
    <3> QED BY <3>2, <3>3
  <2>6. TelegramFiles(m) \in Seq(FileType) /\ Len(TelegramFiles(m)) = Len(fs)
    <3>1. \A j \in 1 .. Len(fs) : Largest(fs[j]) \in FileType
      BY <2>5
    <3>2. TelegramFiles(m) \in [1 .. Len(fs) -> FileType]
      BY <2>4, <3>1
    <3>3. TelegramFiles(m) \in Seq(FileType)
      <4>1. PICK f : f \in [1 .. Len(fs) -> FileType] /\ f = TelegramFiles(m)
        BY <3>2
      <4>2. f \in UNION {[1 .. k0 -> FileType] : k0 \in Nat}
        BY <2>3, <4>1
      <4>3. Seq(FileType) = UNION {[1 .. k0 -> FileType] : k0 \in Nat}
        BY SeqDef
      <4> QED BY <4>1, <4>2, <4>3
    <3>4. DOMAIN TelegramFiles(m) = 1 .. Len(fs)
      BY <2>4
    <3> QED BY <2>3, <3>3, <3>4, LenProperties
  <2>7. Len(inbox[m].atts) < Len(fs)
    BY <2>1, <2>6 DEF HasNextFile
  <2>8. k \in 1 .. Len(fs)
    BY <1>1, <1>2, <2>3, <2>7
  <2>9. PICK i \in DOMAIN fs[k] : Largest(fs[k]) = fs[k][i] /\ fs[k][i] \in FileType
    BY <2>5, <2>8
  <2>10. NextFile(m) = fs[k][i]
    BY <1>1, <2>1, <2>4, <2>8, <2>9 DEF NextFile
  <2> QED BY <1>1, <1>4, <1>7, <2>2, <2>9, <2>10 DEF BodiesOf
<1> QED BY <1>6, <1>7

-----------------------------------------------------------------------------
(* The steps of a handler                                                  *)

\* How a message's handler goes on: it starts, is placed, records a file, ends.
Starts(m) ==
  /\ inbox[m].pc = "sent" /\ inbox'[m].pc = "place"
  /\ inbox'[m].id = EventID(m) /\ RefOk(m, inbox'[m].ref)
  /\ inbox'[m].atts = <<>> /\ inbox'[m].told = ""
  /\ ids' = IF Sent(m).via = "telegram" THEN ids ELSE ids + 1
  /\ UNCHANGED events
Remembers(m) == inbox'[m].id = inbox[m].id /\ inbox'[m].ref = inbox[m].ref
Places(m) ==
  /\ inbox[m].pc = "place" /\ inbox'[m].pc = "files"
  /\ Remembers(m) /\ PlaceOk(m, inbox'[m])
  /\ inbox'[m].atts = inbox[m].atts /\ inbox'[m].told = inbox[m].told
  /\ UNCHANGED <<events, ids>>
Records(m) ==
  /\ inbox[m].pc = "files" /\ inbox'[m].pc = "files"
  /\ Remembers(m) /\ inbox'[m].told = inbox[m].told
  /\ inbox'[m].chan = inbox[m].chan /\ inbox'[m].thread = inbox[m].thread
  /\ inbox'[m].unsure = inbox[m].unsure
  /\ \E local \in BodiesOf(m, Len(inbox[m].atts) + 1) \union {<<>>} :
       inbox'[m].atts = Append(inbox[m].atts, local)
  /\ UNCHANGED <<events, ids>>
Ends(m) ==
  /\ inbox[m].pc = "files" /\ inbox'[m].pc \in {"sent", "done", "failed"}
  /\ inbox'[m].pc = "sent" => Sent(m).via = "telegram"
  /\ inbox'[m].pc # "sent" => Remembers(m)
  /\ events' = events \/ events' = Append(events, Event(m))
  /\ inbox'[m].told = "started" => inbox[m].told = "started" \/ events' # events
  /\ UNCHANGED ids
InboundStep(m) ==
  /\ Message' = Message /\ InboxTyped'
  /\ \A o \in Message : o # m => inbox'[o] = inbox[o]
  /\ FilesTyped' /\ CacheTyped' /\ UNCHANGED <<calls, reports>>
  /\ Starts(m) \/ Places(m) \/ Records(m) \/ Ends(m)

\* A handler that goes on with the rest of the system unchanged
LEMMA HandlerGoes ==
  ASSUME TypeInv, cast' = cast, NEW m \in Message, NEW h, Handle(m, h), HandlerOk(h),
         FilesTyped', CacheTyped', UNCHANGED <<calls, reports>>,
         Starts(m) \/ Places(m) \/ Records(m) \/ Ends(m)
  PROVE  InboundStep(m)
BY Handles DEF TypeInv, InboundStep

LEMMA BeginStep ==
  ASSUME TypeInv, cast' = cast, NEW m \in Message,
         BeginDiscord(m) \/ BeginCommand(m) \/ BeginTelegram(m) \/ BeginInject(m)
  PROVE  InboundStep(m)
<1>1. PICK h : /\ Handle(m, h)
               /\ \/ h = Begun(m)
                  \/ Sent(m).hidden /\ h = [Begun(m) EXCEPT !.body = "", !.ref = "", !.shown = FALSE]
  BY DEF BeginDiscord, BeginCommand, BeginTelegram, BeginInject, Begins
<1>2. /\ Handling(m, "sent") /\ UNCHANGED <<files, calls, threads, events, reports>>
      /\ ids' = IF EventID(m) = RandomID(m) THEN ids + 1 ELSE ids
  BY DEF BeginDiscord, BeginCommand, BeginTelegram, BeginInject, Begins, workspace
<1>3. /\ HandlerOk(h) /\ h.pc = "place" /\ h.id = EventID(m) /\ h.atts = <<>> /\ h.told = ""
      /\ h.ref = Sent(m).ref \/ Sent(m).hidden
  <2>1. PICK b : b = Begun(m)
    OBVIOUS
  <2>2. /\ HandlerOk(b) /\ b.pc = "place" /\ b.id = EventID(m) /\ b.atts = <<>>
        /\ b.told = "" /\ b.ref = Sent(m).ref
    <3>1. <<>> \in Seq(Body)
      BY EmptySeq
    <3> QED BY <2>1, <3>1 DEF Begun, NoHandler, HandlerOk
  <2>3. CASE h = b
    BY <2>2, <2>3
  <2>4. CASE Sent(m).hidden /\ h = [b EXCEPT !.body = "", !.ref = "", !.shown = FALSE]
    <3>1. /\ DOMAIN h = DOMAIN b /\ h.pc = b.pc /\ h.id = b.id /\ h.atts = b.atts
          /\ h.told = b.told
      BY <2>4
    <3> QED BY <2>2, <2>4, <3>1 DEF HandlerOk
  <2> QED BY <1>1, <2>1, <2>3, <2>4
<1>4. inbox'[m] = h
  BY <1>1, Handles DEF TypeInv
<1>5. ids' = IF Sent(m).via = "telegram" THEN ids ELSE ids + 1
  <2>1. ids \in Nat
    BY DEF TypeInv, SentTyped
  <2>2. <<m, 0>> # <<"id", ids + 1>>
    BY <2>1
  <2> QED BY <1>2, <2>2 DEF EventID, RandomID
<1>6. Starts(m)
  <2>1. RefOk(m, h.ref)
    BY <1>3 DEF RefOk
  <2> QED BY <1>2, <1>3, <1>4, <1>5, <2>1 DEF Starts, Handling
<1>7. FilesTyped' /\ CacheTyped'
  BY <1>2 DEF TypeInv, FilesTyped, FileOk, CacheTyped
<1> QED BY <1>1, <1>2, <1>3, <1>6, <1>7, HandlerGoes

\* A handler that knows the true parent of its channel places its message
\* truly; one that could not ask leaves it where it was written.
LEMMA PlaceIsRight ==
  ASSUME TypeInv, cast' = cast, NEW m \in Message, NEW thread, NEW parent, NEW unsure,
         Handling(m, "place"), PlacedIn(m, thread, parent, unsure),
         \/ /\ parent = ThreadOf[Home(m)] /\ unsure = FALSE
            /\ thread = IF parent = "" THEN "" ELSE Home(m)
            /\ parent = "" => Home(m) = Sent(m).chan
         \/ thread = "" /\ unsure = TRUE /\ Sent(m).via # "telegram" /\ Sent(m).tag = "",
         FilesTyped', CacheTyped', UNCHANGED <<calls, reports, events, ids>>
  PROVE  InboundStep(m)
<1>1. PICK h : h = [inbox[m] EXCEPT !.pc = "files", !.thread = thread, !.unsure = unsure,
                      !.chan = IF thread # "" /\ parent # "" THEN parent ELSE Sent(m).chan]
  OBVIOUS
<1>2. HandlerOk(inbox[m]) /\ inbox[m].pc = "place"
  BY DEF TypeInv, InboxTyped, Handling
<1>3. /\ DOMAIN h = DOMAIN inbox[m] /\ h.pc = "files" /\ h.thread = thread /\ h.unsure = unsure
      /\ h.chan = IF thread # "" /\ parent # "" THEN parent ELSE Sent(m).chan
      /\ h.id = inbox[m].id /\ h.ref = inbox[m].ref /\ h.atts = inbox[m].atts
      /\ h.told = inbox[m].told
  BY <1>1, <1>2 DEF HandlerOk
<1>4. Handle(m, h) /\ HandlerOk(h) /\ inbox'[m] = h
  <2>1. Handle(m, h)
    BY <1>1 DEF PlacedIn
  <2>2. HandlerOk(h)
    BY <1>2, <1>3 DEF HandlerOk
  <2> QED BY <2>1, <2>2, Handles DEF TypeInv
<1>5. PlaceOk(m, h)
  <2>1. Home(m) # ""
    BY MessageFacts DEF TypeInv, PlayTyped
  <2>2. CASE unsure = TRUE /\ thread = "" /\ Sent(m).via # "telegram" /\ Sent(m).tag = ""
    BY <1>3, <2>2 DEF PlaceOk, Home
  <2>3. CASE /\ parent = ThreadOf[Home(m)] /\ unsure = FALSE
             /\ thread = IF parent = "" THEN "" ELSE Home(m)
             /\ parent = "" => Home(m) = Sent(m).chan
    <3>1. CASE parent = ""
      BY <1>3, <2>3, <3>1 DEF PlaceOk, TruePlace
    <3>2. CASE parent # ""
      BY <1>3, <2>1, <2>3, <3>2 DEF PlaceOk, TruePlace
    <3> QED BY <3>1, <3>2
  <2> QED BY <2>2, <2>3
<1>6. Places(m)
  BY <1>2, <1>3, <1>4, <1>5 DEF Places, Remembers
<1> QED BY <1>4, <1>6, HandlerGoes

LEMMA PlaceStep ==
  ASSUME TypeInv, cast' = cast, NEW m \in Message, PlaceDiscord(m) \/ PlaceOther(m)
  PROVE  InboundStep(m)
<1>1. /\ Handling(m, "place") /\ UNCHANGED <<calls, reports, events, ids>> /\ FilesTyped'
      /\ CacheTyped
  BY DEF PlaceDiscord, PlaceOther, workspace, TypeInv, FilesTyped, FileOk
<1>2. ASSUME PlacedLike(m, ThreadOf[Sent(m).chan]), Sent(m).tag = "", CacheTyped'
      PROVE  InboundStep(m)
  <2>1. Home(m) = Sent(m).chan
    BY <1>2 DEF Home
  <2> QED BY <1>1, <1>2, <2>1, PlaceIsRight DEF PlacedLike
<1>3. CASE UNCHANGED threads /\ Sent(m).tag = "" /\ PlacedLike(m, ThreadOf[Sent(m).chan])
  BY <1>1, <1>2, <1>3 DEF CacheTyped
<1>4. CASE /\ UNCHANGED threads /\ Sent(m).tag = "" /\ Sent(m).chan \in DOMAIN threads
           /\ PlacedLike(m, threads[Sent(m).chan])
  <2>1. threads[Sent(m).chan] = ThreadOf[Sent(m).chan]
    BY <1>1, <1>4 DEF CacheTyped
  <2> QED BY <1>3, <1>4, <2>1
<1>5. CASE /\ Sent(m).tag = "" /\ threads' = CacheOf(Sent(m).chan, ThreadOf[Sent(m).chan])
           /\ PlacedLike(m, ThreadOf[Sent(m).chan])
  <2>1. Sent(m).chan \in DOMAIN ThreadOf
    BY MessageFacts DEF TypeInv, PlayTyped
  <2>2. CacheTyped'
    BY <1>1, <1>5, <2>1 DEF CacheOf, CacheTyped
  <2> QED BY <1>2, <1>5, <2>2
<1>6. CASE /\ UNCHANGED threads /\ PlacedIn(m, "", "", TRUE)
           /\ Sent(m).via \in {"discord", "command"} /\ Sent(m).tag = ""
  <2>1. CacheTyped'
    BY <1>1, <1>6 DEF CacheTyped
  <2> QED BY <1>1, <1>6, <2>1, PlaceIsRight
<1>7. CASE /\ UNCHANGED threads /\ Sent(m).tag # ""
           /\ PlacedIn(m, Sent(m).tag, ThreadOf[Sent(m).tag], FALSE)
  <2>1. CacheTyped'
    BY <1>1, <1>7 DEF CacheTyped
  <2>2. Home(m) = Sent(m).tag /\ ThreadOf[Sent(m).tag] # ""
    BY <1>7, MessageFacts DEF Home, TypeInv, PlayTyped
  <2> QED BY <1>1, <1>7, <2>1, <2>2, PlaceIsRight
<1>8. CASE PlaceOther(m)
  <2>1. Sent(m).via # "discord" /\ PlacedLike(m, ThreadOf[Sent(m).chan]) /\ UNCHANGED threads
    BY <1>8 DEF PlaceOther
  <2>2. Sent(m).tag = ""
    BY <2>1, MessageFacts DEF TypeInv, PlayTyped
  <2> QED BY <1>3, <2>1, <2>2
<1>9. CASE PlaceDiscord(m)
  BY <1>3, <1>4, <1>5, <1>6, <1>7, <1>9 DEF PlaceDiscord, AfterFailedLookup
<1> QED BY <1>8, <1>9

LEMMA RecordStep ==
  ASSUME TypeInv, cast' = cast, NEW m \in Message, Download(m) \/ DownloadFails(m)
  PROVE  InboundStep(m)
<1>0. HandlerOk(inbox[m]) /\ inbox[m].pc = "files" /\ cast \in Casts
  BY DEF TypeInv, InboxTyped, PlayTyped, Download, DownloadFails, HasNextFile, Handling
<1>1. HasNextFile(m) /\ UNCHANGED <<calls, threads, reports, events, ids>>
  BY DEF Download, DownloadFails, workspace
<1>2. /\ NextFile(m) \in FileType
      /\ NextFile(m).body \in BodiesOf(m, Len(inbox[m].atts) + 1)
  BY <1>0, <1>1, NextFileIsSent
<1>3. CacheTyped'
  BY <1>1 DEF TypeInv, CacheTyped
<1>4. ASSUME NEW local \in Body, Recorded(m, local), FilesTyped',
             local \in BodiesOf(m, Len(inbox[m].atts) + 1) \union {<<>>}
      PROVE  InboundStep(m)
  <2>1. PICK h : h = [inbox[m] EXCEPT !.atts = Append(@, local)]
    OBVIOUS
  <2>2. /\ DOMAIN h = DOMAIN inbox[m] /\ h.pc = "files" /\ h.atts = Append(inbox[m].atts, local)
        /\ h.id = inbox[m].id /\ h.ref = inbox[m].ref /\ h.told = inbox[m].told
        /\ h.chan = inbox[m].chan /\ h.thread = inbox[m].thread /\ h.unsure = inbox[m].unsure
    BY <1>0, <2>1 DEF HandlerOk
  <2>3. h.atts \in Seq(Body)
    BY <1>0, <1>4, <2>2, AppendProperties DEF HandlerOk
  <2>4. HandlerOk(h) /\ Handle(m, h)
    BY <1>0, <1>4, <2>1, <2>2, <2>3 DEF HandlerOk, Recorded
  <2>5. inbox'[m] = h
    BY <2>4, Handles DEF TypeInv
  <2>6. Records(m)
    BY <1>0, <1>1, <1>4, <2>2, <2>5 DEF Records, Remembers
  <2> QED BY <1>1, <1>3, <1>4, <2>4, <2>6, HandlerGoes
<1>5. CASE DownloadFails(m)
  <2>1. <<>> \in Body /\ Recorded(m, <<>>) /\ UNCHANGED files
    BY <1>5, EmptySeq DEF Body, DownloadFails, workspace
  <2>2. FilesTyped'
    BY <2>1 DEF TypeInv, FilesTyped, FileOk
  <2> QED BY <1>4, <2>1, <2>2
<1>6. CASE Download(m)
  <2>1. DiscordFits(NextFile(m))
    BY <1>6 DEF Download, Fits, TelegramFits
  <2>2. /\ Copied(NextFile(m).body) = NextFile(m).body /\ NextFile(m).body \in Body
    BY <1>2, <2>1, WhatFitsIsWhole
  <2>3. PICK p : p = NextFile(m).path
    OBVIOUS
  <2>4. PICK f : f = Renamed(p, Copied(NextFile(m).body))
    OBVIOUS
  <2>5. FileOk(f)
    BY <2>4 DEF Renamed, FileOk
  <2>6. files' = [files EXCEPT ![p] = f]
    BY <1>6, <2>3, <2>4 DEF Download
  <2>7. FilesTyped'
    <3>1. ASSUME NEW q \in Path PROVE FileOk(files'[q])
      BY <2>5, <2>6 DEF TypeInv, FilesTyped
    <3> QED BY <2>6, <3>1 DEF TypeInv, FilesTyped
  <2>8. Recorded(m, NextFile(m).body)
    BY <1>6, <2>2 DEF Download
  <2> QED BY <1>2, <1>4, <2>2, <2>7, <2>8
<1> QED BY <1>5, <1>6

\* A handler that ends remembers its message, unless Telegram will send it
\* again.
LEMMA EndedHandlers ==
  ASSUME NEW m, HandlerOk(inbox[m]), NEW text, NEW h,
         \/ h = CommandAnswered(m, AfterFailure(m), text)
         \/ h = CommandAnswered(m, [inbox[m] EXCEPT !.pc = "done"], text)
         \/ h = [inbox[m] EXCEPT !.pc = "done"] \/ h = AfterFailure(m)
  PROVE  /\ HandlerOk(h) /\ h.pc \in {"sent", "done", "failed"}
         /\ h.pc = "sent" => Sent(m).via = "telegram"
         /\ h.pc # "sent" => h.id = inbox[m].id /\ h.ref = inbox[m].ref
         /\ h.told \in {"", text, inbox[m].told}
<1>1. ASSUME NEW e, e \in {[inbox[m] EXCEPT !.pc = "done"], [inbox[m] EXCEPT !.pc = "failed"]}
      PROVE  /\ HandlerOk(e) /\ e.pc \in {"done", "failed"}
             /\ e.id = inbox[m].id /\ e.ref = inbox[m].ref /\ e.told = inbox[m].told
  <2>1. /\ DOMAIN e = DOMAIN inbox[m] /\ e.pc \in {"done", "failed"} /\ e.atts = inbox[m].atts
        /\ e.id = inbox[m].id /\ e.ref = inbox[m].ref /\ e.told = inbox[m].told
    BY <1>1 DEF HandlerOk
  <2> QED BY <2>1 DEF HandlerOk
<1>2. PICK e : /\ \/ Sent(m).via = "telegram" /\ e = NoHandler
                  \/ e \in {[inbox[m] EXCEPT !.pc = "done"], [inbox[m] EXCEPT !.pc = "failed"]}
               /\ h = e \/ h = CommandAnswered(m, e, text)
  BY DEF AfterFailure
<1>3. /\ HandlerOk(e) /\ e.pc \in {"sent", "done", "failed"}
      /\ e.pc = "sent" => Sent(m).via = "telegram"
      /\ e.pc # "sent" => e.id = inbox[m].id /\ e.ref = inbox[m].ref
      /\ e.told \in {"", inbox[m].told}
  <2>1. CASE Sent(m).via = "telegram" /\ e = NoHandler
    BY <2>1, NothingTyped DEF NoHandler
  <2>2. CASE e \in {[inbox[m] EXCEPT !.pc = "done"], [inbox[m] EXCEPT !.pc = "failed"]}
    BY <1>1, <2>2
  <2> QED BY <1>2, <2>1, <2>2
<1>4. CASE h = CommandAnswered(m, e, text)
  <2>1. h = [e EXCEPT !.told = IF Sent(m).via = "command" THEN text ELSE ""]
    BY <1>4 DEF CommandAnswered
  <2>2. /\ DOMAIN h = DOMAIN e /\ h.pc = e.pc /\ h.id = e.id /\ h.ref = e.ref
        /\ h.atts = e.atts /\ h.told \in {"", text}
    BY <1>3, <2>1 DEF HandlerOk
  <2> QED BY <1>3, <2>2 DEF HandlerOk
<1> QED BY <1>2, <1>3, <1>4

LEMMA EndStep ==
  ASSUME TypeInv, cast' = cast, NEW m \in Message, Ignore(m) \/ Enqueue(m) \/ EnqueueFails(m)
  PROVE  InboundStep(m)
<1>0. HandlerOk(inbox[m]) /\ inbox[m].pc = "files"
  BY DEF TypeInv, InboxTyped, Ignore, Enqueue, EnqueueFails, Complete, Handling
<1>1. UNCHANGED <<files, calls, threads, reports, ids>>
  BY DEF Ignore, Enqueue, EnqueueFails, workspace
<1>2. FilesTyped' /\ CacheTyped'
  BY <1>1 DEF TypeInv, FilesTyped, FileOk, CacheTyped
<1> DEFINE Ending(h, text) ==
             \/ h = CommandAnswered(m, AfterFailure(m), text)
             \/ h = CommandAnswered(m, [inbox[m] EXCEPT !.pc = "done"], text)
             \/ h = [inbox[m] EXCEPT !.pc = "done"] \/ h = AfterFailure(m)
<1>3. ASSUME NEW text, NEW h, Handle(m, h), Ending(h, text),
             \/ UNCHANGED events /\ text # "started"
             \/ events' = Append(events, Event(m))
      PROVE  InboundStep(m)
  <2>1. /\ HandlerOk(h) /\ h.pc \in {"sent", "done", "failed"}
        /\ h.pc = "sent" => Sent(m).via = "telegram"
        /\ h.pc # "sent" => h.id = inbox[m].id /\ h.ref = inbox[m].ref
        /\ h.told \in {"", text, inbox[m].told}
    BY <1>0, <1>3, EndedHandlers
  <2>2. inbox'[m] = h
    BY <1>3, Handles DEF TypeInv
  <2>3. events' = Append(events, Event(m)) => events' # events
    <3>1. IsSequence(events)
      BY DEF TypeInv, SentTyped
    <3>2. Len(events) \in Nat /\ Len(Append(events, Event(m))) = Len(events) + 1
      BY <3>1, AppendSequence
    <3> QED BY <3>2
  <2>4. Ends(m)
    BY <1>0, <1>1, <1>3, <2>1, <2>2, <2>3 DEF Ends, Remembers
  <2> QED BY <1>1, <1>2, <1>3, <2>1, <2>4, HandlerGoes
<1>4. CASE Ignore(m)
  BY <1>3, <1>4 DEF Ignore
<1>5. CASE Enqueue(m)
  <2>1. PICK text, h :
          /\ Handle(m, h) /\ events' = Append(events, Event(m))
          /\ Ending(h, text)
    <3>1. CASE Handle(m, CommandAnswered(m, [inbox[m] EXCEPT !.pc = "done"], "started"))
      BY <1>5, <3>1 DEF Enqueue
    <3>2. CASE Handle(m, CommandAnswered(m, AfterFailure(m), "could not"))
      BY <1>5, <3>2 DEF Enqueue
    <3>3. CASE Handle(m, [inbox[m] EXCEPT !.pc = "done"])
      BY <1>5, <3>3 DEF Enqueue
    <3> QED BY <1>5, <3>1, <3>2, <3>3 DEF Enqueue
  <2> HIDE DEF Ending
  <2> QED BY <1>3, <2>1
<1>6. CASE EnqueueFails(m)
  <2>1. PICK text, h : Handle(m, h) /\ Ending(h, text) /\ text = "could not"
    BY <1>6 DEF EnqueueFails
  <2>2. UNCHANGED events /\ text # "started"
    BY <1>6, <2>1 DEF EnqueueFails
  <2> HIDE DEF Ending
  <2> QED BY <1>3, <2>1, <2>2
<1> QED BY <1>4, <1>5, <1>6

LEMMA InboundSteps ==
  ASSUME TypeInv, cast' = cast, NEW m \in Message, Inbound(m)
  PROVE  InboundStep(m)
BY BeginStep, PlaceStep, RecordStep, EndStep DEF Inbound

-----------------------------------------------------------------------------
(* What is true of messages and events stays true.                         *)

\* Whatever happens, identifiers and events are only added.
Grows ==
  /\ cast' = cast /\ ids \in Nat /\ ids' \in Nat /\ ids <= ids'
  /\ \A i \in DOMAIN events : i \in DOMAIN events' /\ events'[i] = events[i]

LEMMA TruthsLast ==
  ASSUME Grows, NEW m
  PROVE  /\ Sent(m)' = Sent(m) /\ Home(m)' = Home(m)
         /\ \A k : BodiesOf(m, k)' = BodiesOf(m, k)
         /\ \A chan : TruePlace(chan)' = TruePlace(chan)
         /\ (\E i \in DOMAIN events : events[i].msg = m)
              => (\E i \in DOMAIN events : events[i].msg = m)'
         /\ 1 .. ids \subseteq (1 .. ids)'
<1>1. Sent(m)' = Sent(m) /\ Home(m)' = Home(m)
  BY DEF Grows, Sent, Home
<1>2. \A k : BodiesOf(m, k)' = BodiesOf(m, k)
  BY DEF Grows, Sent, BodiesOf
<1>3. \A chan : TruePlace(chan)' = TruePlace(chan)
  BY DEF TruePlace
<1>4. 1 .. ids \subseteq (1 .. ids)'
  BY DEF Grows
<1> QED BY <1>1, <1>2, <1>3, <1>4 DEF Grows

LEMMA IdLasts ==
  ASSUME Grows, NEW m, NEW id, IdOk(m, id)
  PROVE  IF Sent(m)'.via = "telegram" THEN id = <<m, 0>>
         ELSE \E n \in (1 .. ids)' : id = <<"id", n>>
BY TruthsLast DEF IdOk

\* A handler that does not move keeps what is true of it.
LEMMA HandlerLasts ==
  ASSUME Grows, NEW m, inbox'[m] = inbox[m], HandlerTrue(m)
  PROVE  HandlerTrue(m)'
<1>1. ASSUME inbox[m].pc # "sent" PROVE IdOk(m, inbox[m].id)' /\ RefOk(m, inbox[m].ref)'
  <2>1. IdOk(m, inbox[m].id) /\ RefOk(m, inbox[m].ref)
    BY <1>1 DEF HandlerTrue
  <2>2. PICK id : id = inbox[m].id
    OBVIOUS
  <2>3. IdOk(m, inbox[m].id)'
    BY <2>1, <2>2, IdLasts DEF IdOk
  <2> QED BY <2>1, <2>3, TruthsLast DEF RefOk
<1>2. ASSUME inbox[m].pc = "files" PROVE PlaceOk(m, inbox[m])' /\ AttsOk(m, inbox[m].atts)'
  <2>1. PlaceOk(m, inbox[m]) /\ AttsOk(m, inbox[m].atts)
    BY <1>2 DEF HandlerTrue
  <2>2. PlaceOk(m, inbox[m])'
    BY <2>1, TruthsLast DEF PlaceOk
  <2>3. AttsOk(m, inbox[m].atts)'
    BY <2>1, TruthsLast DEF AttsOk, IsSequence
  <2> QED BY <2>2, <2>3
<1> QED BY <1>1, <1>2, TruthsLast DEF HandlerTrue

\* So does an event, while the handler of a message that is delivered once
\* does not move.
LEMMA EventLasts ==
  ASSUME Grows, NEW i \in DOMAIN events, EventTrue(events[i]),
         Sent(events[i].msg).via # "telegram" => inbox'[events[i].msg] = inbox[events[i].msg]
  PROVE  EventTrue(events[i])'
<1>1. PICK e : e = events[i] /\ e = events'[i]
  BY DEF Grows
<1>2. EventTrue(e)
  BY <1>1
<1>3. IdOk(e.msg, e.id)'
  BY <1>2, IdLasts DEF EventTrue, IdOk
<1>4. RefOk(e.msg, e.ref)'
  BY <1>2, TruthsLast DEF EventTrue, RefOk
<1>5. AttsOk(e.msg, e.atts)'
  BY <1>2, TruthsLast DEF EventTrue, AttsOk, IsSequence
<1>6. PlaceOk(e.msg, e)'
  BY <1>2, TruthsLast DEF EventTrue, PlaceOk
<1>7. Sent(e.msg)'.via # "telegram" =>
        inbox'[e.msg].pc \in {"done", "failed"} /\ inbox'[e.msg].id = e.id
  BY <1>1, <1>2, TruthsLast DEF EventTrue
<1>8. EventTrue(e)'
  BY <1>3, <1>4, <1>5, <1>6, <1>7 DEF EventTrue
<1> QED
  BY <1>1, <1>8 DEF EventTrue, IdOk, RefOk, AttsOk, PlaceOk

\* A handler's step adds to the identifiers and the events.
LEMMA InboundGrows ==
  ASSUME TypeInv, cast' = cast, NEW m \in Message, InboundStep(m)
  PROVE  /\ Grows /\ SentTyped' /\ Event(m).msg = m
         /\ \/ UNCHANGED events
            \/ /\ Ends(m) /\ events' = Append(events, Event(m))
               /\ DOMAIN events' = DOMAIN events \union {Len(events) + 1}
               /\ Len(events) + 1 \notin DOMAIN events
               /\ events'[Len(events) + 1] = Event(m)
<1>0. Event(m).msg = m
  BY DEF Event
<1>1. ids \in Nat /\ IsSequence(events)
  BY DEF TypeInv, SentTyped
<1>2. ids' \in {ids, ids + 1}
  BY DEF InboundStep, Starts, Places, Records, Ends
<1>3. \/ UNCHANGED events
      \/ Ends(m) /\ events' = Append(events, Event(m))
  BY DEF InboundStep, Starts, Places, Records, Ends
<1>4. ids' \in Nat /\ ids <= ids'
  BY <1>1, <1>2
<1>5. CASE UNCHANGED events
  BY <1>0, <1>1, <1>4, <1>5 DEF Grows, TypeInv, SentTyped, InboundStep
<1>6. CASE Ends(m) /\ events' = Append(events, Event(m))
  <2>1. PICK e : e = Event(m)
    OBVIOUS
  <2>2. e.msg = m
    BY <2>1 DEF Event
  <2>3. /\ IsSequence(events') /\ Len(events) \in Nat
        /\ DOMAIN events = 1 .. Len(events) /\ DOMAIN events' = 1 .. Len(events) + 1
        /\ \A i \in 1 .. Len(events) : events'[i] = events[i]
        /\ events'[Len(events) + 1] = e
    BY <1>1, <1>6, <2>1, AppendSequence
  <2>4. /\ DOMAIN events' = DOMAIN events \union {Len(events) + 1}
        /\ Len(events) + 1 \notin DOMAIN events
    BY <2>3
  <2>5. Grows
    BY <1>1, <1>4, <2>3, <2>4 DEF Grows
  <2>6. \A i \in DOMAIN events' : events'[i].msg \in Message
    BY <2>2, <2>3, <2>4 DEF TypeInv, SentTyped
  <2>7. SentTyped'
    BY <1>4, <2>3, <2>6 DEF SentTyped, InboundStep, IsSequence
  <2> QED BY <1>0, <1>6, <2>1, <2>3, <2>4, <2>5, <2>7
<1> QED BY <1>3, <1>5, <1>6

-----------------------------------------------------------------------------
(* The invariant is kept.                                                  *)

\* A handler that moves is true of its message.
LEMMA MovesTrue ==
  ASSUME TypeInv, InboundInv, cast' = cast, NEW m \in Message, InboundStep(m)
  PROVE  HandlerTrue(m)'
<1>0. Grows /\ ids \in Nat
  BY InboundGrows DEF TypeInv, SentTyped
<1>1. HandlerTrue(m)
  BY DEF InboundInv, HandlersTrue
<1>2. ASSUME Remembers(m), inbox[m].pc # "sent"
      PROVE  IdOk(m, inbox[m].id)' /\ RefOk(m, inbox[m].ref)'
  <2>1. PICK id, ref : /\ id = inbox[m].id /\ id = inbox'[m].id
                       /\ ref = inbox[m].ref /\ ref = inbox'[m].ref
    BY <1>2 DEF Remembers
  <2>2. IdOk(m, id) /\ RefOk(m, ref)
    BY <1>1, <1>2, <2>1 DEF HandlerTrue
  <2>3. IdOk(m, inbox[m].id)'
    BY <1>0, <2>1, <2>2, IdLasts DEF IdOk
  <2>4. RefOk(m, inbox[m].ref)'
    BY <1>0, <2>1, <2>2, TruthsLast DEF RefOk
  <2> QED BY <2>3, <2>4
<1>3. CASE Starts(m)
  <2>1. IdOk(m, inbox[m].id)'
    <3>1. CASE Sent(m).via = "telegram"
      <4>1. inbox'[m].id = <<m, 0>>
        BY <1>3, <3>1 DEF Starts, EventID
      <4>2. Sent(m)'.via = "telegram"
        BY <1>0, <3>1, TruthsLast
      <4> QED BY <4>1, <4>2 DEF IdOk
    <3>2. CASE Sent(m).via # "telegram"
      <4>1. inbox'[m].id = <<"id", ids + 1>> /\ ids' = ids + 1
        BY <1>3, <3>2 DEF Starts, EventID, RandomID
      <4>2. ids + 1 \in 1 .. ids'
        BY <1>0, <4>1
      <4> QED BY <1>0, <3>2, <4>1, <4>2, TruthsLast DEF IdOk
    <3> QED BY <3>1, <3>2
  <2>2. RefOk(m, inbox[m].ref)'
    BY <1>0, <1>3, TruthsLast DEF Starts, RefOk
  <2> QED BY <1>3, <2>1, <2>2 DEF HandlerTrue, Starts
<1>4. CASE Places(m)
  <2>1. IdOk(m, inbox[m].id)' /\ RefOk(m, inbox[m].ref)'
    BY <1>2, <1>4 DEF Places
  <2>2. PlaceOk(m, inbox[m])'
    <3>1. PICK at : at = inbox'[m] /\ PlaceOk(m, at)
      BY <1>4 DEF Places
    <3> QED BY <3>1 DEF PlaceOk, Home, Sent, TruePlace
  <2>3. inbox'[m].atts = <<>>
    BY <1>1, <1>4 DEF HandlerTrue, Places
  <2>4. AttsOk(m, inbox[m].atts)'
    BY <2>3, EmptySequence DEF AttsOk, IsSequence
  <2>5. inbox'[m].told = "started" => (\E i \in DOMAIN events : events[i].msg = m)'
    BY <1>0, <1>1, <1>4, TruthsLast DEF HandlerTrue, Places
  <2> QED BY <1>4, <2>1, <2>2, <2>4, <2>5 DEF HandlerTrue, Places
<1>5. CASE Records(m)
  <2>1. IdOk(m, inbox[m].id)' /\ RefOk(m, inbox[m].ref)'
    BY <1>2, <1>5 DEF Records
  <2>2. PlaceOk(m, inbox[m])'
    <3>1. PlaceOk(m, inbox[m])
      BY <1>1, <1>5 DEF HandlerTrue, Records
    <3> QED BY <1>0, <1>5, <3>1, TruthsLast DEF Records, PlaceOk
  <2>3. AttsOk(m, inbox[m].atts)'
    <3>1. PICK atts : atts = inbox[m].atts
      OBVIOUS
    <3>2. AttsOk(m, atts)
      BY <1>1, <1>5, <3>1 DEF HandlerTrue, Records
    <3>3. PICK local \in BodiesOf(m, Len(atts) + 1) \union {<<>>} :
            inbox'[m].atts = Append(atts, local)
      BY <1>5, <3>1 DEF Records
    <3>4. PICK new : new = Append(atts, local)
      OBVIOUS
    <3>5. /\ IsSequence(new) /\ DOMAIN new = 1 .. Len(atts) + 1 /\ Len(atts) \in Nat
          /\ DOMAIN atts = 1 .. Len(atts)
          /\ \A k \in 1 .. Len(atts) : new[k] = atts[k]
          /\ new[Len(atts) + 1] = local
      BY <3>2, <3>4, AppendSequence DEF AttsOk
    <3>6. \A k \in DOMAIN new : k \in DOMAIN atts \/ k = Len(atts) + 1
      BY <3>5
    <3>7. \A k \in DOMAIN new : new[k] \in BodiesOf(m, k) \union {<<>>}
      BY <3>2, <3>3, <3>5, <3>6 DEF AttsOk
    <3> QED BY <1>0, <3>3, <3>4, <3>5, <3>7, TruthsLast DEF AttsOk, IsSequence
  <2>4. inbox'[m].told = "started" => (\E i \in DOMAIN events : events[i].msg = m)'
    BY <1>0, <1>1, <1>5, TruthsLast DEF HandlerTrue, Records
  <2> QED BY <1>5, <2>1, <2>2, <2>3, <2>4 DEF HandlerTrue, Records
<1>6. CASE Ends(m)
  <2>1. inbox'[m].pc # "sent" => IdOk(m, inbox[m].id)' /\ RefOk(m, inbox[m].ref)'
    BY <1>2, <1>6 DEF Ends
  <2>2. inbox'[m].told = "started" => (\E i \in DOMAIN events : events[i].msg = m)'
    <3>1. ASSUME events' # events PROVE (\E i \in DOMAIN events : events[i].msg = m)'
      <4>1. PICK i : i \in DOMAIN events' /\ events'[i] = Event(m)
        BY <3>1, InboundGrows
      <4> QED BY <4>1, InboundGrows
    <3> QED BY <1>0, <1>1, <1>6, <3>1, TruthsLast DEF HandlerTrue, Ends
  <2> QED BY <1>6, <2>1, <2>2 DEF HandlerTrue, Ends
<1> QED BY <1>3, <1>4, <1>5, <1>6 DEF InboundStep

LEMMA InboundKept ==
  ASSUME TypeInv, InboundInv, cast' = cast, NEW m \in Message, InboundStep(m)
  PROVE  InboundInv'
<1>0. Grows /\ ids \in Nat /\ Message' = Message
  BY InboundGrows DEF TypeInv, SentTyped, InboundStep
<1>1. HandlersTrue'
  <2>1. ASSUME NEW o \in Message, o # m PROVE HandlerTrue(o)'
    BY <1>0, <2>1, HandlerLasts DEF InboundInv, HandlersTrue, InboundStep
  <2>2. HandlerTrue(m)'
    BY MovesTrue
  <2> QED BY <1>0, <2>1, <2>2 DEF HandlersTrue
\* The handler of a message that is delivered once and was sent has ended.
<1>2. ASSUME NEW i \in DOMAIN events, Sent(events[i].msg).via # "telegram"
      PROVE  events[i].msg # m
  <2>1. inbox[events[i].msg].pc \in {"done", "failed"}
    BY <1>2 DEF InboundInv, EventsTrue, EventTrue
  <2> QED BY <2>1 DEF InboundStep, Starts, Places, Records, Ends
<1>3. EventsTrue'
  <2>1. ASSUME NEW i \in DOMAIN events PROVE EventTrue(events[i])'
    <3>1. events[i].msg \in Message
      BY DEF TypeInv, SentTyped
    <3>2. Sent(events[i].msg).via # "telegram" =>
            inbox'[events[i].msg] = inbox[events[i].msg]
      BY <1>2, <3>1 DEF InboundStep
    <3> QED BY <1>0, <3>2, EventLasts DEF InboundInv, EventsTrue
  <2>2. ASSUME NEW i \in DOMAIN events', i \notin DOMAIN events PROVE EventTrue(events[i])'
    <3>1. PICK e : e = Event(m)
      OBVIOUS
    <3>2. Ends(m) /\ events'[i] = e
      BY <2>2, <3>1, InboundGrows
    <3>3. /\ e.msg = m /\ e.id = inbox[m].id /\ e.ref = inbox[m].ref /\ e.atts = inbox[m].atts
          /\ e.chan = inbox[m].chan /\ e.thread = inbox[m].thread /\ e.unsure = inbox[m].unsure
      BY <3>1 DEF Event
    <3>4. HandlerTrue(m) /\ inbox[m].pc = "files"
      BY <3>2 DEF InboundInv, HandlersTrue, Ends
    <3>5. IdOk(m, e.id) /\ RefOk(m, e.ref) /\ PlaceOk(m, inbox[m]) /\ AttsOk(m, e.atts)
      BY <3>3, <3>4 DEF HandlerTrue
    <3>6. IdOk(m, e.id)'
      BY <1>0, <3>5, IdLasts DEF IdOk
    <3>7. RefOk(m, e.ref)'
      BY <1>0, <3>5, TruthsLast DEF RefOk
    <3>8. AttsOk(m, e.atts)'
      BY <1>0, <3>5, TruthsLast DEF AttsOk, IsSequence
    <3>9. PlaceOk(m, e)'
      BY <1>0, <3>3, <3>5, TruthsLast DEF PlaceOk
    <3>10. Sent(m)'.via # "telegram" =>
             inbox'[m].pc \in {"done", "failed"} /\ inbox'[m].id = e.id
      BY <1>0, <3>2, <3>3, TruthsLast DEF Ends, Remembers
    <3>11. EventTrue(e)'
      BY <3>3, <3>6, <3>7, <3>8, <3>9, <3>10 DEF EventTrue
    <3> QED
      BY <3>2, <3>11 DEF EventTrue, IdOk, RefOk, AttsOk, PlaceOk
  <2> QED BY <2>1, <2>2 DEF EventsTrue
<1>4. IdsDiffer'
  <2> SUFFICES ASSUME NEW o \in Message, NEW q \in Message, o # q,
                      Sent(o).via # "telegram", Sent(q).via # "telegram",
                      inbox'[o].pc # "sent", inbox'[q].pc # "sent",
                      inbox'[o].id = inbox'[q].id
               PROVE  FALSE
    BY <1>0, TruthsLast DEF IdsDiffer
  <2>1. ASSUME NEW a \in Message, NEW b \in Message, a # b,
               Sent(a).via # "telegram", Sent(b).via # "telegram",
               inbox'[a].pc # "sent", inbox'[b].pc # "sent",
               inbox'[a].id = inbox'[b].id, b # m
        PROVE  FALSE
    <3>1. inbox[b].pc # "sent" /\ inbox'[b] = inbox[b]
      BY <2>1 DEF InboundStep
    <3>2. CASE inbox[a].pc # "sent" /\ inbox'[a].id = inbox[a].id
      BY <2>1, <3>1, <3>2 DEF InboundInv, IdsDiffer
    <3>3. CASE a = m /\ Starts(m)
      <4>1. inbox'[a].id = <<"id", ids + 1>>
        BY <2>1, <3>3 DEF Starts, EventID, RandomID
      <4>2. PICK n \in 1 .. ids : inbox[b].id = <<"id", n>>
        BY <2>1, <3>1 DEF InboundInv, HandlersTrue, HandlerTrue, IdOk
      <4>3. n = ids + 1
        BY <2>1, <3>1, <4>1, <4>2
      <4> QED BY <1>0, <4>3
    <3> QED BY <2>1, <3>2, <3>3 DEF InboundStep, Places, Records, Ends, Remembers
  <2> QED BY <2>1
<1>5. SentOnce'
  <2> SUFFICES ASSUME NEW i \in DOMAIN events', NEW j \in DOMAIN events',
                      events'[i].msg = events'[j].msg, Sent(events'[i].msg).via # "telegram"
               PROVE  i = j
    BY <1>0, TruthsLast DEF SentOnce
  <2>1. CASE i \in DOMAIN events /\ j \in DOMAIN events
    BY <1>0, <2>1 DEF InboundInv, SentOnce, Grows
  <2>2. ASSUME NEW a \in DOMAIN events, NEW b \in DOMAIN events', b \notin DOMAIN events,
               events'[a].msg = events'[b].msg, Sent(events'[a].msg).via # "telegram"
        PROVE  FALSE
    <3>1. events'[b].msg = m
      BY <2>2, InboundGrows
    <3> QED BY <1>0, <1>2, <2>2, <3>1 DEF Grows
  <2>3. i \notin DOMAIN events /\ j \notin DOMAIN events => i = j
    BY InboundGrows
  <2> QED BY <2>1, <2>2, <2>3
<1> QED BY <1>1, <1>3, <1>4, <1>5 DEF InboundInv

-----------------------------------------------------------------------------
(* A restart                                                               *)

\* A handler that a restart drops: Telegram sends its message again.
Drops(m) ==
  /\ inbox[m].pc \in {"place", "files"} /\ inbox'[m].pc \in {"sent", "failed"}
  /\ inbox'[m].pc = "sent" => Sent(m).via = "telegram"
  /\ inbox'[m].pc # "sent" => Remembers(m)
  /\ inbox'[m].told \in {"", inbox[m].told}
RestartStep ==
  /\ UNCHANGED <<events, ids>> /\ Message' = Message /\ Report' = Report
  /\ FilesTyped' /\ CallsTyped' /\ ReportsTyped' /\ InboxTyped' /\ CacheTyped' /\ SentTyped'
  /\ \A m \in Message : inbox'[m] = inbox[m] \/ Drops(m)
  /\ \A r \in Report : /\ reports'[r].posts = reports[r].posts
                       /\ reports'[r].pc # "waiting" => reports[r].pc # "waiting"

LEMMA RestartSteps ==
  ASSUME TypeInv, cast' = cast, Restart
  PROVE  RestartStep
<1>1. UNCHANGED <<events, ids, files>> /\ Message' = Message /\ Report' = Report
  BY DEF Restart, Message, Report
<1>2. FilesTyped' /\ SentTyped'
  BY <1>1 DEF TypeInv, FilesTyped, FileOk, SentTyped, IsSequence
<1>3. CacheTyped'
  <2>1. threads' = <<>>
    BY DEF Restart
  <2> QED BY <2>1 DEF CacheTyped
<1>4. ASSUME NEW m \in Message
      PROVE  HandlerOk(inbox'[m]) /\ (inbox'[m] = inbox[m] \/ Drops(m))
  <2>1. HandlerOk(inbox[m])
    BY DEF TypeInv, InboxTyped
  <2>2. CASE inbox[m].pc \in {"place", "files"}
    <3>1. PICK h : h = AfterFailure(m) /\ inbox'[m] = h
      BY <2>2 DEF Restart
    <3>2. /\ HandlerOk(h) /\ h.pc \in {"sent", "failed"}
          /\ h.pc = "sent" => Sent(m).via = "telegram"
          /\ h.pc # "sent" => h.id = inbox[m].id /\ h.ref = inbox[m].ref
          /\ h.told \in {"", inbox[m].told}
      <4>1. /\ HandlerOk(h)
            /\ h.pc = "sent" => Sent(m).via = "telegram"
            /\ h.pc # "sent" => h.id = inbox[m].id /\ h.ref = inbox[m].ref
            /\ h.told \in {"", "", inbox[m].told}
        BY <2>1, <3>1, EndedHandlers
      <4>2. h.pc \in {"sent", "failed"}
        <5>1. CASE h = NoHandler
          BY <5>1 DEF NoHandler
        <5>2. CASE h = [inbox[m] EXCEPT !.pc = "failed"]
          BY <2>1, <5>2 DEF HandlerOk
        <5> QED BY <3>1, <5>1, <5>2 DEF AfterFailure
      <4> QED BY <4>1, <4>2
    <3> QED BY <2>2, <3>1, <3>2 DEF Drops, Remembers
  <2>3. CASE inbox[m].pc \notin {"place", "files"}
    BY <2>1, <2>3 DEF Restart
  <2> QED BY <2>2, <2>3
<1>5. InboxTyped'
  BY <1>1, <1>4 DEF Restart, InboxTyped
<1>6. ASSUME NEW r \in Report
      PROVE  /\ ReportOk(r)' /\ reports'[r].posts = reports[r].posts
             /\ reports'[r].pc # "waiting" => reports[r].pc # "waiting"
  <2>1. ReportOk(r)
    BY DEF TypeInv, ReportsTyped
  <2>2. CASE reports[r].pc \in {"text", "files"}
    <3>1. PICK new : new = GivesUp(r) /\ reports'[r] = new
      BY <2>2 DEF Restart
    <3>2. DOMAIN new = DOMAIN reports[r] /\ new.pc = "failed" /\ new.posts = reports[r].posts
      BY <2>1, <3>1 DEF GivesUp, ReportOk
    <3> QED BY <2>1, <2>2, <3>1, <3>2 DEF ReportOk, IsSequence
  <2>3. CASE reports[r].pc \notin {"text", "files"}
    <3>1. reports'[r] = reports[r]
      BY <2>3 DEF Restart
    <3> QED BY <2>1, <3>1 DEF ReportOk, IsSequence
  <2> QED BY <2>2, <2>3
<1>7. ReportsTyped'
  BY <1>1, <1>6 DEF Restart, ReportsTyped
<1>8. CallsTyped'
  <2>1. DOMAIN calls' = Caller
    BY DEF Restart
  <2>2. ASSUME NEW c \in Caller PROVE CallOk(c)'
    <3>1. /\ CallOk(c) /\ Len(cast.plan[c]) \in Nat
      BY PlanTyped DEF TypeInv, CallsTyped, PlayTyped
    <3>2. CASE c \in Interrupted
      <4>1. PICK x : x = [call |-> Call(c), ok |-> FALSE, parts |-> <<>>]
        OBVIOUS
      <4>2. PICK new : new = [Idle EXCEPT !.n = calls[c].n + 1,
                                          !.done = Append(calls[c].done, x)]
        OBVIOUS
      <4>3. calls'[c] = new
        BY <3>2, <4>1, <4>2 DEF Restart
      <4>4. /\ DOMAIN new = DOMAIN Idle /\ new.n = calls[c].n + 1 /\ new.pc = "ready"
            /\ new.done = Append(calls[c].done, x)
        BY <4>2, IdleFields
      <4>5. /\ calls[c].n \in 0 .. Len(cast.plan[c]) /\ calls[c].n < Len(cast.plan[c])
            /\ IsSequence(calls[c].done) /\ Len(calls[c].done) = calls[c].n
        BY <3>1, <3>2 DEF Interrupted, CallOk, Busy
      <4>6. IsSequence(new.done) /\ Len(new.done) = calls[c].n + 1
        BY <4>4, <4>5, AppendSequence
      <4>7. new.n \in 0 .. Len(cast.plan[c])
        BY <3>1, <4>4, <4>5
      <4> QED BY <4>3, <4>4, <4>6, <4>7, IdleFields DEF CallOk, IsSequence
    <3>3. CASE c \notin Interrupted
      <4>1. calls'[c] = calls[c]
        BY <3>3 DEF Restart
      <4> QED BY <3>1, <4>1 DEF CallOk, Busy, IsSequence
    <3> QED BY <3>2, <3>3
  <2> QED BY <2>1, <2>2 DEF CallsTyped
<1> QED
  BY <1>1, <1>2, <1>3, <1>4, <1>5, <1>6, <1>7, <1>8 DEF RestartStep

LEMMA RestartKept ==
  ASSUME TypeInv, InboundInv, cast' = cast, RestartStep
  PROVE  InboundInv'
<1>0. Grows /\ Message' = Message
  BY DEF TypeInv, SentTyped, Grows, RestartStep
<1>1. HandlersTrue'
  <2>1. ASSUME NEW m \in Message PROVE HandlerTrue(m)'
    <3>1. HandlerTrue(m)
      BY DEF InboundInv, HandlersTrue
    <3>2. CASE inbox'[m] = inbox[m]
      BY <1>0, <3>1, <3>2, HandlerLasts
    <3>3. CASE Drops(m)
      <4>1. inbox'[m].pc # "sent" => IdOk(m, inbox[m].id)' /\ RefOk(m, inbox[m].ref)'
        <5> SUFFICES ASSUME inbox'[m].pc # "sent"
                     PROVE  IdOk(m, inbox[m].id)' /\ RefOk(m, inbox[m].ref)'
          OBVIOUS
        <5>1. PICK id, ref : /\ id = inbox[m].id /\ id = inbox'[m].id
                             /\ ref = inbox[m].ref /\ ref = inbox'[m].ref
          BY <3>3 DEF Drops, Remembers
        <5>2. IdOk(m, id) /\ RefOk(m, ref)
          BY <3>1, <3>3, <5>1 DEF HandlerTrue, Drops
        <5>3. IdOk(m, inbox[m].id)'
          BY <1>0, <5>1, <5>2, IdLasts DEF IdOk
        <5>4. RefOk(m, inbox[m].ref)'
          BY <1>0, <5>1, <5>2, TruthsLast DEF RefOk
        <5> QED BY <5>3, <5>4
      <4>2. inbox'[m].told = "started" => (\E i \in DOMAIN events : events[i].msg = m)'
        BY <1>0, <3>1, <3>3, TruthsLast DEF HandlerTrue, Drops
      <4> QED BY <3>3, <4>1, <4>2 DEF HandlerTrue, Drops
    <3> QED BY <3>2, <3>3 DEF RestartStep
  <2> QED BY <1>0, <2>1 DEF HandlersTrue
<1>2. EventsTrue'
  <2>1. ASSUME NEW i \in DOMAIN events PROVE EventTrue(events[i])'
    <3>1. events[i].msg \in Message
      BY DEF TypeInv, SentTyped
    <3>2. Sent(events[i].msg).via # "telegram" =>
            inbox'[events[i].msg] = inbox[events[i].msg]
      BY <3>1 DEF InboundInv, EventsTrue, EventTrue, RestartStep, Drops
    <3> QED BY <1>0, <3>2, EventLasts DEF InboundInv, EventsTrue
  <2> QED BY <2>1 DEF EventsTrue, RestartStep
<1>3. IdsDiffer'
  <2>1. ASSUME NEW m \in Message, inbox'[m].pc # "sent"
        PROVE  inbox[m].pc # "sent" /\ inbox'[m].id = inbox[m].id
    BY <2>1 DEF RestartStep, Drops, Remembers
  <2>2. ASSUME NEW m \in Message, NEW o \in Message,
               Sent(m).via # "telegram", Sent(o).via # "telegram",
               inbox'[m].pc # "sent", inbox'[o].pc # "sent", inbox'[m].id = inbox'[o].id
        PROVE  m = o
    BY <2>1, <2>2 DEF InboundInv, IdsDiffer
  <2> QED BY <1>0, <2>2, TruthsLast DEF IdsDiffer
<1>4. SentOnce'
  BY <1>0, TruthsLast DEF InboundInv, SentOnce, RestartStep
<1> QED BY <1>1, <1>2, <1>3, <1>4 DEF InboundInv

\* Nothing that is true of messages and events depends on the rest.
LEMMA InboundSame ==
  ASSUME SentTyped, InboundInv, UNCHANGED <<cast, inbox, events, ids>>
  PROVE  InboundInv'
<1>1. Message' = Message /\ Grows
  BY DEF Message, SentTyped, Grows
<1>2. ASSUME NEW m, HandlerTrue(m) PROVE HandlerTrue(m)'
  BY <1>1, <1>2, HandlerLasts
<1>3. ASSUME NEW i \in DOMAIN events, EventTrue(events[i]) PROVE EventTrue(events[i])'
  BY <1>1, <1>3, EventLasts
<1>4. IdsDiffer' /\ SentOnce'
  BY <1>1 DEF InboundInv, IdsDiffer, SentOnce, Sent
<1> QED
  BY <1>1, <1>2, <1>3, <1>4 DEF InboundInv, HandlersTrue, EventsTrue

-----------------------------------------------------------------------------
(* Where reports go                                                        *)

LEMMA AskedIsMessage ==
  ASSUME cast \in Casts, NEW r \in Report
  PROVE  Asked(r).to \in Message
BY CastAssumption DEF Report, Message, Asked

\* A report answers an event of the message that asked for it (Answered).
LEMMA AnsweredIsEvent ==
  ASSUME IsSequence(events), NEW r, \E i \in DOMAIN events : events[i].msg = Asked(r).to
  PROVE  \E i \in DOMAIN events : Answered(r) = events[i] /\ events[i].msg = Asked(r).to
<1> DEFINE I == {i \in 1 .. Len(events) : events[i].msg = Asked(r).to}
<1>1. DOMAIN events = 1 .. Len(events) /\ Len(events) \in Nat
  BY AppendSequence
<1>2. I # {} /\ I \in SUBSET Nat
  BY <1>1
<1>3. \E n \in I : \A k \in I : n <= k
  <2> HIDE DEF I
  <2> QED BY <1>2, LeastNumber
<1>4. PICK n : n = Min(I)
  OBVIOUS
<1>5. n \in I
  <2> HIDE DEF I
  <2> QED BY <1>3, <1>4 DEF Min
<1>6. SelectInSeq(events, LAMBDA e : e.msg = Asked(r).to) = n
  BY <1>2, <1>4 DEF SelectInSeq
<1>7. Answered(r) = events[n]
  BY <1>6 DEF Answered
<1> QED BY <1>1, <1>5, <1>7

\* What is posted goes back to where the message was written
\* (discordOutboundChannelID).
LEMMA TargetIsRight ==
  ASSUME cast \in Casts, NEW r \in Report, NEW e, e.msg = Asked(r).to, PlaceOk(e.msg, e)
  PROVE  Target(r, e) = IF Via(r) = "telegram" THEN TruePlace(Home(Asked(r).to))
                        ELSE [chan |-> Home(Asked(r).to), thread |-> ""]
<1>1. PICK m \in Message : m = Asked(r).to
  BY AskedIsMessage
<1>2. Via(r) = Sent(m).via /\ PlaceOk(m, e) /\ Home(m) # ""
  BY <1>1, MessageFacts DEF Via
<1>3. CASE e.unsure
  BY <1>1, <1>2, <1>3 DEF PlaceOk, Target, DiscordTarget
<1>4. CASE ~e.unsure
  <2>1. PICK place : place = [chan |-> e.chan, thread |-> e.thread] /\ place = TruePlace(Home(m))
    BY <1>2, <1>4 DEF PlaceOk
  <2>2. CASE Sent(m).via = "telegram"
    BY <1>1, <1>2, <2>1, <2>2 DEF Target, TelegramTarget
  <2>3. CASE Sent(m).via # "telegram"
    <3>1. place.chan = e.chan /\ place.thread = e.thread
      BY <2>1
    <3>2. CASE ThreadOf[Home(m)] = ""
      <4>1. e.chan = Home(m) /\ e.thread = ""
        <5>1. place = [chan |-> Home(m), thread |-> ""]
          BY <2>1, <3>2 DEF TruePlace
        <5>2. place.chan = Home(m) /\ place.thread = ""
          BY <5>1
        <5> QED BY <3>1, <5>2
      <4> QED BY <1>1, <1>2, <2>3, <4>1 DEF Target, DiscordTarget
    <3>3. CASE ThreadOf[Home(m)] # ""
      <4>1. e.thread = Home(m)
        <5>1. place = [chan |-> ThreadOf[Home(m)], thread |-> Home(m)]
          BY <2>1, <3>3 DEF TruePlace
        <5>2. place.thread = Home(m)
          BY <5>1
        <5> QED BY <3>1, <5>2
      <4> QED BY <1>1, <1>2, <2>3, <4>1 DEF Target, DiscordTarget
    <3> QED BY <3>2, <3>3
  <2> QED BY <2>2, <2>3
<1> QED BY <1>3, <1>4

\* A report whose posts and whose beginning do not change keeps what is true.
LEMMA ReportLasts ==
  ASSUME Grows, NEW r \in Report, ReportTrue(r),
         reports'[r].posts = reports[r].posts,
         \/ reports'[r].pc # "waiting" => reports[r].pc # "waiting"
         \/ \E i \in DOMAIN events : events[i].msg = Asked(r).to
  PROVE  ReportTrue(r)'
<1>1. Asked(r)' = Asked(r) /\ Via(r)' = Via(r)
  BY DEF Grows, Asked, Via, Sent
<1>2. reports'[r].pc # "waiting" => (\E i \in DOMAIN events : events[i].msg = Asked(r).to)'
  BY <1>1, TruthsLast DEF ReportTrue
<1>3. ASSUME NEW i \in DOMAIN reports'[r].posts PROVE PostTrue(r, reports[r].posts[i])'
  <2>1. PostTrue(r, reports[r].posts[i])
    BY <1>3 DEF ReportTrue
  <2> QED BY <1>1, <2>1, TruthsLast DEF PostTrue, RefOk
<1> QED BY <1>2, <1>3 DEF ReportTrue

LEMMA ReportsKept ==
  ASSUME TypeInv, InboundInv, OutboundInv, cast' = cast, NEW r \in Report, ReportStep(r),
         UNCHANGED <<events, ids>>
  PROVE  OutboundInv'
<1>0. Grows /\ Report' = Report /\ cast \in Casts
  BY DEF TypeInv, SentTyped, PlayTyped, Grows, ReportStep
<1>1. ASSUME NEW q \in Report, q # r PROVE ReportTrue(q)'
  BY <1>0, <1>1, ReportLasts DEF OutboundInv, ReportStep
<1>2. ReportTrue(r)'
  <2>1. \E i \in DOMAIN events : events[i].msg = Asked(r).to
    BY DEF OutboundInv, ReportTrue, ReportStep
  <2>2. CASE reports'[r].posts = reports[r].posts
    BY <1>0, <2>1, <2>2, ReportLasts DEF OutboundInv
  <2>3. CASE PostsOne(r)
    <3>1. PICK i \in DOMAIN events : Answered(r) = events[i] /\ events[i].msg = Asked(r).to
      BY <2>1, AnsweredIsEvent DEF TypeInv, SentTyped
    <3>2. PICK e : e = events[i]
      OBVIOUS
    <3>3. EventTrue(e) /\ e = Answered(r) /\ e.msg = Asked(r).to
      BY <3>1, <3>2 DEF InboundInv, EventsTrue
    <3>4. PICK text, paths, once : /\ once = TRUE \/ Via(r) \in {"discord", "command"}
                                   /\ reports'[r].posts = Posted(r, text, paths, once)
      BY <2>3 DEF PostsOne
    <3>5. PICK post : post = [to |-> Target(r, e), ref |-> e.ref, text |-> text, files |-> paths,
                              once |-> once]
      OBVIOUS
    <3>6. reports'[r].posts = Append(reports[r].posts, post)
      BY <3>3, <3>4, <3>5 DEF Posted
    <3>7. PostTrue(r, post)
      <4>1. post.to = Target(r, e) /\ post.ref = e.ref /\ post.once = once
        BY <3>5
      <4>2. RefOk(Asked(r).to, e.ref) /\ PlaceOk(e.msg, e)
        BY <3>3 DEF EventTrue
      <4> QED BY <1>0, <3>3, <3>4, <4>1, <4>2, TargetIsRight DEF PostTrue
    <3>8. PICK posts : posts = reports[r].posts
      OBVIOUS
    <3>9. IsSequence(posts) /\ \A j \in DOMAIN posts : PostTrue(r, posts[j])
      BY <3>8 DEF TypeInv, ReportsTyped, ReportOk, OutboundInv, ReportTrue
    <3>10. PICK new : new = Append(posts, post)
      OBVIOUS
    <3>11. \A j \in DOMAIN new : new[j] = post \/ (j \in DOMAIN posts /\ new[j] = posts[j])
      <4>1. /\ Len(posts) \in Nat /\ DOMAIN posts = 1 .. Len(posts)
            /\ DOMAIN new = 1 .. Len(posts) + 1 /\ new[Len(posts) + 1] = post
            /\ \A j \in 1 .. Len(posts) : new[j] = posts[j]
        BY <3>9, <3>10, AppendSequence
      <4> QED BY <4>1
    <3>12. \A j \in DOMAIN new : PostTrue(r, new[j])
      BY <3>7, <3>9, <3>11
    <3>13. Asked(r)' = Asked(r) /\ Via(r)' = Via(r)
      BY DEF Asked, Via, Sent
    <3>14. (\A j \in DOMAIN reports[r].posts : PostTrue(r, reports[r].posts[j]))'
      <4>1. reports'[r].posts = new
        BY <3>6, <3>8, <3>10
      <4>2. ASSUME NEW j \in DOMAIN reports'[r].posts PROVE PostTrue(r, reports[r].posts[j])'
        <5>1. PICK one : one = reports'[r].posts[j]
          OBVIOUS
        <5>2. PostTrue(r, one)
          BY <3>12, <4>1, <4>2, <5>1
        <5>3. PICK message, home :
                /\ message = Sent(Asked(r).to) /\ message = Sent(Asked(r).to)'
                /\ home = Home(Asked(r).to) /\ home = Home(Asked(r).to)'
          BY DEF Asked, Sent, Home
        <5>4. /\ one.to = IF Via(r)' = "telegram" THEN TruePlace(home)
                          ELSE [chan |-> home, thread |-> ""]
              /\ one.ref = message.ref \/ message.hidden
              /\ one.once = TRUE \/ Via(r)' \in {"discord", "command"}
          BY <3>13, <5>2, <5>3 DEF PostTrue, RefOk
        <5> QED BY <5>1, <5>3, <5>4 DEF PostTrue, RefOk, TruePlace
      <4> QED BY <4>2
    <3>15. (\E j \in DOMAIN events : events[j].msg = Asked(r).to)'
      BY <1>0, <2>1, <3>13, TruthsLast
    <3> QED BY <3>14, <3>15 DEF ReportTrue
  <2> QED BY <2>2, <2>3 DEF ReportStep
<1> QED BY <1>0, <1>1, <1>2 DEF OutboundInv

LEMMA ReportsSame ==
  ASSUME Grows, OutboundInv,
         \A r \in Report : /\ reports'[r].posts = reports[r].posts
                           /\ reports'[r].pc # "waiting" => reports[r].pc # "waiting"
  PROVE  OutboundInv'
<1>1. Report' = Report
  BY DEF Grows, Report
<1>2. ASSUME NEW r \in Report PROVE ReportTrue(r)'
  BY <1>2, ReportLasts DEF OutboundInv
<1> QED BY <1>1, <1>2 DEF OutboundInv

-----------------------------------------------------------------------------
(* The inductive invariant                                                 *)

IInv == TypeInv /\ InboundInv /\ OutboundInv

LEMMA InitTrue == Init => IInv
<1> SUFFICES ASSUME Init PROVE IInv
  OBVIOUS
<1>1. TypeInv
  BY InitTypes
<1>2. DOMAIN events = {} /\ \A m \in Message : inbox[m].pc = "sent" /\ inbox[m].told = ""
  <2>1. events = <<>> /\ inbox = [m \in Message |-> NoHandler]
    BY DEF Init
  <2>2. NoHandler.pc = "sent" /\ NoHandler.told = ""
    BY DEF NoHandler
  <2>3. DOMAIN events = {}
    BY <2>1
  <2>4. \A m \in Message : inbox[m] = NoHandler
    BY <2>1
  <2> QED BY <2>2, <2>3, <2>4
<1>3. InboundInv
  BY <1>2 DEF InboundInv, HandlersTrue, HandlerTrue, EventsTrue, IdsDiffer, SentOnce
<1>4. OutboundInv
  <2>1. \A r \in Report : reports[r] = [pc |-> "waiting", left |-> <<>>, posts |-> <<>>]
    BY DEF Init
  <2>2. \A r \in Report : reports[r].pc = "waiting" /\ reports[r].posts = <<>>
    BY <2>1
  <2> QED BY <2>2 DEF OutboundInv, ReportTrue
<1> QED BY <1>1, <1>3, <1>4 DEF IInv

LEMMA NextTrue == IInv /\ [Next]_vars => IInv'
<1> SUFFICES ASSUME IInv, [Next]_vars PROVE IInv'
  OBVIOUS
<1>0. /\ cast' = cast /\ PlayTyped' /\ TypeInv /\ InboundInv /\ OutboundInv
      /\ FilesTyped /\ CallsTyped /\ ReportsTyped /\ InboxTyped /\ CacheTyped /\ SentTyped
      /\ PlayTyped
  BY CastKept, PlayStep DEF IInv, TypeInv
\* A step that leaves the channels alone
<1>1. ASSUME FilesTyped', CallsTyped', UNCHANGED channel PROVE IInv'
  <2>1. UNCHANGED <<threads, inbox, events, ids, reports>>
    BY <1>1 DEF channel
  <2>2. Grows
    BY <1>0, <2>1 DEF Grows, SentTyped
  <2>3. ReportsTyped' /\ InboxTyped' /\ CacheTyped' /\ SentTyped'
    <3>1. Message' = Message /\ Report' = Report
      BY <1>0 DEF Message, Report
    <3> QED
      BY <1>0, <2>1, <3>1 DEF ReportsTyped, ReportOk, IsSequence, InboxTyped, CacheTyped, SentTyped
  <2>4. InboundInv'
    BY <1>0, <2>1, InboundSame
  <2>5. OutboundInv'
    BY <1>0, <2>1, <2>2, ReportsSame
  <2> QED BY <1>0, <1>1, <2>3, <2>4, <2>5 DEF IInv, TypeInv
<1>2. ASSUME NEW m \in Message, Inbound(m) PROVE IInv'
  <2>1. InboundStep(m)
    BY <1>0, <1>2, InboundSteps
  <2>2. Grows /\ SentTyped'
    BY <1>0, <2>1, InboundGrows
  <2>3. InboundInv'
    BY <1>0, <2>1, InboundKept
  <2>4. OutboundInv'
    BY <1>0, <2>1, <2>2, ReportsSame DEF InboundStep
  <2>5. FilesTyped' /\ CacheTyped' /\ InboxTyped' /\ UNCHANGED <<calls, reports>>
    BY <2>1 DEF InboundStep
  <2>6. CallsTyped' /\ ReportsTyped'
    BY <1>0, <2>5 DEF CallsTyped, CallOk, Busy, IsSequence, ReportsTyped, ReportOk, Report
  <2> QED BY <1>0, <2>2, <2>3, <2>4, <2>5, <2>6 DEF IInv, TypeInv
<1>3. ASSUME NEW r \in Report, Outbound(r) PROVE IInv'
  <2>1. ReportStep(r) /\ UNCHANGED <<workspace, threads, inbox, events, ids>>
    BY <1>0, <1>3, OutboundStep
  <2>2. OutboundInv'
    BY <1>0, <2>1, ReportsKept
  <2>3. InboundInv'
    BY <1>0, <2>1, InboundSame
  <2>4. UNCHANGED <<files, calls>> /\ ReportsTyped' /\ Message' = Message
    BY <1>0, <2>1 DEF workspace, ReportStep, Message
  <2>5. FilesTyped' /\ CallsTyped'
    BY <1>0, <2>4 DEF FilesTyped, FileOk, CallsTyped, CallOk, Busy, IsSequence
  <2>6. InboxTyped' /\ CacheTyped' /\ SentTyped'
    BY <1>0, <2>1, <2>4 DEF InboxTyped, CacheTyped, SentTyped, IsSequence
  <2> QED BY <1>0, <2>2, <2>3, <2>4, <2>5, <2>6 DEF IInv, TypeInv
<1>4. ASSUME NEW c \in Caller, Tools(c) PROVE IInv'
  <2>1. ToolStep(c) /\ UNCHANGED channel
    BY <1>4 DEF Tools
  <2>2. FilesTyped'
    BY <1>0, <2>1, ToolFiles
  <2>3. CallsTyped'
    BY <1>0, <2>1, ToolKind, CallsGo, CallsChoose
  <2> QED BY <1>1, <2>1, <2>2, <2>3
<1>5. CASE Restart
  <2>1. RestartStep
    BY <1>0, <1>5, RestartSteps
  <2>2. InboundInv'
    BY <1>0, <2>1, RestartKept
  <2>3. Grows
    BY <1>0, <2>1 DEF Grows, RestartStep, SentTyped
  <2>4. OutboundInv'
    BY <1>0, <2>1, <2>3, ReportsSame DEF RestartStep
  <2> QED BY <1>0, <2>1, <2>2, <2>4 DEF IInv, TypeInv, RestartStep
<1>6. CASE UNCHANGED vars
  <2>1. UNCHANGED <<files, calls>> /\ UNCHANGED channel
    BY <1>6 DEF vars, workspace
  <2>2. FilesTyped' /\ CallsTyped'
    BY <1>0, <2>1 DEF FilesTyped, FileOk, CallsTyped, CallOk, Busy, IsSequence
  <2> QED BY <1>1, <2>1, <2>2
<1> QED BY <1>2, <1>3, <1>4, <1>5, <1>6 DEF Next, Stopped

-----------------------------------------------------------------------------
(* What follows                                                            *)

\* The invariant says where each message is from: two events of one message
\* carry one identifier and one place, and no other event carries it.
LEMMA EventsFollow == IInv => EventsAreTrue
<1> SUFFICES ASSUME IInv PROVE EventsAreTrue
  OBVIOUS
<1>1. TypeInv /\ TypeOK
  BY TypesSuffice DEF IInv
<1>2. ASSUME NEW i \in DOMAIN events
      PROVE  EventTrue(events[i]) /\ events[i].msg \in Message
  BY <1>1 DEF IInv, InboundInv, EventsTrue, TypeInv, SentTyped
<1>3. ContextIsTrue
  BY <1>2 DEF ContextIsTrue, EventTrue, PlaceOk
<1>4. LocalFilesAreWhole
  BY <1>2 DEF LocalFilesAreWhole, EventTrue, AttsOk
<1>5. RedeliveriesAreDuplicates
  <2>1. ASSUME NEW i \in DOMAIN events, NEW j \in DOMAIN events
        PROVE  /\ (events[i].msg = events[j].msg) <=> (events[i].id = events[j].id)
               /\ events[i].msg = events[j].msg =>
                    events[i].chan = events[j].chan /\ events[i].thread = events[j].thread
    <3>1. PICK e, f : e = events[i] /\ f = events[j]
      OBVIOUS
    <3>2. EventTrue(e) /\ EventTrue(f) /\ e.msg \in Message /\ f.msg \in Message
      BY <1>2, <3>1
    <3>3. ids \in Nat
      BY <1>1 DEF TypeInv, SentTyped
    <3>4. CASE Sent(e.msg).via = "telegram" /\ Sent(f.msg).via = "telegram"
      <4>1. e.id = <<e.msg, 0>> /\ f.id = <<f.msg, 0>>
        BY <3>2, <3>4 DEF EventTrue, IdOk
      <4>2. e.msg = f.msg => e.chan = f.chan /\ e.thread = f.thread
        <5> SUFFICES ASSUME e.msg = f.msg PROVE e.chan = f.chan /\ e.thread = f.thread
          OBVIOUS
        <5>1. PICK place, other :
                /\ place = [chan |-> e.chan, thread |-> e.thread]
                /\ other = [chan |-> f.chan, thread |-> f.thread]
          OBVIOUS
        <5>2. place = other
          BY <3>2, <3>4, <5>1 DEF EventTrue, PlaceOk
        <5>3. place.chan = other.chan /\ place.thread = other.thread
          BY <5>2
        <5> QED BY <5>1, <5>3
      <4> QED BY <3>1, <4>1, <4>2
    <3>5. CASE Sent(e.msg).via # "telegram" /\ Sent(f.msg).via # "telegram"
      <4>1. /\ inbox[e.msg].pc # "sent" /\ inbox[e.msg].id = e.id
            /\ inbox[f.msg].pc # "sent" /\ inbox[f.msg].id = f.id
        BY <3>2, <3>5 DEF EventTrue
      <4>2. e.id = f.id => e.msg = f.msg
        BY <3>2, <3>5, <4>1 DEF IInv, InboundInv, IdsDiffer
      <4>3. e.msg = f.msg => i = j
        BY <3>1, <3>5 DEF IInv, InboundInv, SentOnce
      <4> QED BY <3>1, <4>2, <4>3
    <3>6. ASSUME NEW a, NEW b, EventTrue(a), EventTrue(b),
                 Sent(a.msg).via = "telegram", Sent(b.msg).via # "telegram"
          PROVE  a.msg # b.msg /\ a.id # b.id
      <4>1. a.id = <<a.msg, 0>>
        BY <3>6 DEF EventTrue, IdOk
      <4>2. PICK n \in 1 .. ids : b.id = <<"id", n>>
        BY <3>6 DEF EventTrue, IdOk
      <4>3. n # 0
        BY <3>3
      <4> QED BY <3>6, <4>1, <4>2, <4>3
    <3> QED BY <3>1, <3>2, <3>4, <3>5, <3>6
  <2> QED BY <2>1 DEF RedeliveriesAreDuplicates
<1> QED BY <1>1, <1>3, <1>4, <1>5 DEF EventsAreTrue

LEMMA AnswersFollow == IInv => AnswersAreTrue
<1> SUFFICES ASSUME IInv PROVE AnswersAreTrue
  OBVIOUS
<1>1. AnswersGoBack
  BY DEF IInv, OutboundInv, ReportTrue, PostTrue, RefOk, AnswersGoBack
<1>2. ToldIsTrue
  BY DEF IInv, InboundInv, HandlersTrue, HandlerTrue, ToldIsTrue
<1> QED BY <1>1, <1>2 DEF AnswersAreTrue

LEMMA Invariance == Spec => []IInv
BY InitTrue, NextTrue, PTL DEF Spec

\* Whatever fails and whatever is delivered twice, the project workflow is
\* sent the true place of a message, its files whole, and one identifier for
\* all its deliveries (internal/channels, domain.TopicEvent).
THEOREM EventsCorrect == Spec => []EventsAreTrue
BY Invariance, EventsFollow, PTL

\* Reports are posted where their messages were written, and who is told that
\* a command has started something has it in the project workflow
\* (discordOutboundChannelID, handleInteractionCreate).
THEOREM AnswersCorrect == Spec => []AnswersAreTrue
BY Invariance, AnswersFollow, PTL

-----------------------------------------------------------------------------
(* What a caller is doing                                                  *)

LEMMA BusyCall ==
  ASSUME CallsTyped, PlayTyped, NEW c \in Caller, Busy(c)
  PROVE  Call(c) \in CallType
<1>1. /\ calls[c].n \in 0 .. Len(cast.plan[c]) /\ calls[c].n < Len(cast.plan[c])
  BY DEF CallsTyped, CallOk, Busy
<1>2. /\ Len(cast.plan[c]) \in Nat
      /\ \A i \in 1 .. Len(cast.plan[c]) : cast.plan[c][i] \in CallType
  BY PlanTyped DEF PlayTyped
<1>3. calls[c].n + 1 \in 1 .. Len(cast.plan[c])
  BY <1>1, <1>2
<1> QED BY <1>2, <1>3 DEF Call

BatchOp == {"read", "glob", "grep"}
LEMMA CallFields ==
  ASSUME NEW call \in CallType
  PROVE  /\ call.op \in Tool /\ call \in CallOf(call.op)
         /\ call.op \in {"edit", "write", "remove"} => call.path \in Path
         /\ call.op = "edit" => call.old \in STRING /\ call.new \in STRING
         /\ call.op = "write" => call.body \in Seq(STRING)
<1>1. PICK tool \in Tool : call \in CallOf(tool)
  BY DEF CallType
<1>2. call.op = tool
  BY <1>1 DEF CallOf, Tool
<1>3. CASE tool = "edit"
  BY <1>1, <1>2, <1>3 DEF CallOf
<1>4. CASE tool = "write"
  BY <1>1, <1>2, <1>4 DEF CallOf
<1>5. CASE tool = "remove"
  BY <1>1, <1>2, <1>5 DEF CallOf
<1> QED BY <1>1, <1>2, <1>3, <1>4, <1>5

LEMMA BatchFields ==
  ASSUME NEW call \in CallType, call.op \in BatchOp
  PROVE  /\ Len(call.actions) \in Nat \ {0}
         /\ DOMAIN call.actions = 1 .. Len(call.actions)
         /\ \A i \in 1 .. Len(call.actions) :
              /\ call.op = "read" =>
                   call.actions[i] \in [path : Path, offset : Nat, limit : Nat]
              /\ call.op = "glob" => call.actions[i] \in SUBSET Path
              /\ call.op = "grep" =>
                   call.actions[i] \in [line : STRING, root : SUBSET Path, offset : Nat,
                                        head : Nat \union {-1}, mode : OutputMode]
<1>1. ASSUME NEW S, call.actions \in Batch(S)
      PROVE  /\ Len(call.actions) \in Nat \ {0}
             /\ DOMAIN call.actions = 1 .. Len(call.actions)
             /\ \A i \in 1 .. Len(call.actions) : call.actions[i] \in S
  <2>1. call.actions \in Seq(S) /\ call.actions # <<>>
    BY <1>1 DEF Batch
  <2> QED BY <2>1, LenProperties, ElementOfSeq, EmptySeq
<1>2. CASE call.op = "read"
  <2>1. call.actions \in Batch([path : Path, offset : Nat, limit : Nat])
    BY <1>2, CallFields DEF CallOf
  <2> QED BY <1>1, <1>2, <2>1
<1>3. CASE call.op = "glob"
  <2>1. call.actions \in Batch(SUBSET Path)
    BY <1>3, CallFields DEF CallOf
  <2> QED BY <1>1, <1>3, <2>1
<1>4. CASE call.op = "grep"
  <2>1. call.actions \in Batch([line : STRING, root : SUBSET Path, offset : Nat,
                                head : Nat \union {-1}, mode : OutputMode])
    BY <1>4, CallFields DEF CallOf
  <2> QED BY <1>1, <1>4, <2>1
<1> QED BY <1>2, <1>3, <1>4 DEF BatchOp

-----------------------------------------------------------------------------
(* The files, and the edits that survive in them                           *)

Writes(c) == calls[c].pc \in {"chosen", "open"}
Occurs(body, line) == \E i \in DOMAIN body : body[i] = line
OpenOn(c, p) == Touches(c, p) /\ calls[c].pc = "open"

\* Every record of a call has the same fields.
Shaped == \A c \in Caller : DOMAIN calls[c] = DOMAIN Idle
ContentTyped == \A p \in Path : files[p].body \in Seq(STRING) /\ files[p].gen \in Nat

\* A caller that has chosen what to write has a call that writes it; while it
\* is alone, no one else has chosen anything for its file.
WriterTrue(c) ==
  Writes(c) =>
    /\ Call(c).op \in {"edit", "write"} /\ calls[c].next \in Seq(STRING)
    /\ Call(c).op = "edit" => Occurs(calls[c].next, Call(c).new)
    /\ calls[c].alone => \A o \in Caller \ {c} : ~Touches(o, Call(c).path)

\* What was kept is in its file, or the file is open and empty; whoever has it
\* open is an edit that will write it again, or that replaces just that.
KeptTrue(k) ==
  /\ k \in Path \X STRING /\ files[k[1]].there
  /\ \/ Occurs(files[k[1]].body, k[2])
     \/ files[k[1]].body = <<>> /\ \E c \in Caller : OpenOn(c, k[1])
  /\ \A c \in Caller : Touches(c, k[1]) =>
       /\ calls[c].pc = "open" => Call(c).op = "edit" /\ StillOpen(c)
       /\ Call(c).op = "edit" => Occurs(calls[c].next, k[2]) \/ Call(c).old = k[2]

EditsInv ==
  /\ Shaped /\ ContentTyped
  /\ \A c \in Caller : WriterTrue(c)
  /\ \A k \in kept : KeptTrue(k)

LEMMA OccursIff ==
  ASSUME NEW body, NEW line PROVE Occurs(body, line) <=> Occurrences(body, line) # {}
BY DEF Occurs, Occurrences

LEMMA IsSeq ==
  ASSUME NEW S, NEW n \in Nat, NEW f \in [1 .. n -> S]
  PROVE  f \in Seq(S) /\ Len(f) = n
<1>1. f \in Seq(S)
  BY SeqDef
<1>2. Len(f) \in Nat /\ 1 .. Len(f) = 1 .. n
  BY <1>1, LenProperties
<1> QED BY <1>1, <1>2

LEMMA ReplacedTrue ==
  ASSUME NEW body \in Seq(STRING), NEW old, NEW new \in STRING
  PROVE  /\ Replaced(body, old, new) \in Seq(STRING)
         /\ Occurs(body, old) => Occurs(Replaced(body, old, new), new)
         /\ \A line : Occurs(body, line) /\ line # old => Occurs(Replaced(body, old, new), line)
<1>1. Len(body) \in Nat /\ DOMAIN body = 1 .. Len(body)
      /\ \A i \in 1 .. Len(body) : body[i] \in STRING
  BY LenProperties, ElementOfSeq
<1>2. /\ DOMAIN Replaced(body, old, new) = DOMAIN body
      /\ \A i \in DOMAIN body : Replaced(body, old, new)[i] =
                                  IF body[i] = old THEN new ELSE body[i]
  BY DEF Replaced
<1>3. Replaced(body, old, new) \in Seq(STRING)
  <2>1. Replaced(body, old, new) \in [1 .. Len(body) -> STRING]
    BY <1>1 DEF Replaced
  <2> QED BY <1>1, <2>1, IsSeq
<1> QED BY <1>2, <1>3 DEF Occurs

LEMMA OverTrue ==
  ASSUME NEW new \in Seq(STRING), NEW old \in Seq(STRING)
  PROVE  /\ Over(new, old) \in Seq(STRING)
         /\ \A line : Occurs(new, line) => Occurs(Over(new, old), line)
<1>1. /\ Len(new) \in Nat /\ Len(old) \in Nat /\ DOMAIN new = 1 .. Len(new)
  BY LenProperties
<1>2. PICK end : end = SubSeq(old, Len(new) + 1, Len(old))
  OBVIOUS
<1>3. end \in Seq(STRING)
  <2>1. \A i \in Len(new) + 1 .. Len(old) : i \in 1 .. Len(old) /\ old[i] \in STRING
    BY <1>1, ElementOfSeq
  <2>2. Len(new) + 1 \in Int /\ Len(old) \in Int
    BY <1>1
  <2> QED BY <1>2, <2>1, <2>2, SubSeqProperties
<1>4. /\ new \o end \in Seq(STRING) /\ Len(new \o end) = Len(new) + Len(end)
      /\ \A i \in 1 .. Len(new) + Len(end) :
           (new \o end)[i] = IF i <= Len(new) THEN new[i] ELSE end[i - Len(new)]
  BY <1>3, ConcatProperties
<1>5. Len(end) \in Nat /\ DOMAIN (new \o end) = 1 .. Len(new) + Len(end)
  BY <1>3, <1>4, LenProperties
<1>6. \A i \in 1 .. Len(new) :
        i \in 1 .. Len(new) + Len(end) /\ (new \o end)[i] = new[i]
  BY <1>1, <1>4, <1>5
<1> QED BY <1>1, <1>2, <1>4, <1>5, <1>6 DEF Over, Occurs

LEMMA AcceptedOccurs ==
  ASSUME NEW call, Accepts(call)
  PROVE  files[call.path].there /\ Occurs(files[call.path].body, call.old)
<1>1. PICK n : n = Cardinality(Occurrences(Content(call.path), call.old))
  OBVIOUS
<1>2. (n = 1 \/ n > 1) /\ files[call.path].there
  BY <1>1 DEF Accepts
<1>3. Occurrences(files[call.path].body, call.old) # {}
  <2>1. Cardinality({}) = 0
    BY FS_EmptySet
  <2>2. n = 1 \/ n > 1 => n # 0
    OBVIOUS
  <2> QED BY <1>1, <1>2, <2>1, <2>2 DEF Content, BodyNow
<1> QED BY <1>2, <1>3, OccursIff

\* A caller whose call was not touched does what it did.
LEMMA SameCall ==
  ASSUME cast' = cast, NEW o \in Caller, calls'[o] = calls[o]
  PROVE  /\ Call(o)' = Call(o) /\ Writes(o)' = Writes(o) /\ Busy(o)' = Busy(o)
         /\ \A p : Touches(o, p)' <=> Touches(o, p)
         /\ \A p : OpenOn(o, p)' <=> OpenOn(o, p)
BY DEF Call, Writes, Busy, Touches, OpenOn

\* One caller goes on and writes nothing (any more).
Leaves(c) ==
  \E new : /\ Step(c, new) /\ DOMAIN new = DOMAIN Idle
           /\ new.pc \notin {"chosen", "open"}
LEMMA WritersLeave ==
  ASSUME CallsTyped, Shaped, \A o \in Caller : WriterTrue(o), cast' = cast,
         NEW c \in Caller, Leaves(c)
  PROVE  /\ Shaped' /\ \A o \in Caller : WriterTrue(o)'
         /\ \A o \in Caller : o # c => calls'[o] = calls[o]
         /\ \A p : ~Touches(c, p)'
<1>1. PICK new : /\ Step(c, new) /\ DOMAIN new = DOMAIN Idle
                 /\ new.pc \notin {"chosen", "open"}
  BY DEF Leaves
<1>2. /\ calls'[c] = new
      /\ \A o \in Caller : o # c => calls'[o] = calls[o]
  BY <1>1 DEF Step, CallsTyped
<1>3. \A p : ~Touches(c, p)'
  BY <1>1, <1>2 DEF Touches
<1>4. \A o \in Caller : \A p : Touches(o, p)' => Touches(o, p)
  BY <1>2, <1>3, SameCall
<1>5. ASSUME NEW o \in Caller PROVE WriterTrue(o)'
  <2>1. CASE o = c
    BY <1>1, <1>2, <2>1 DEF WriterTrue, Writes
  <2>2. CASE o # c
    <3>1. WriterTrue(o) /\ calls'[o] = calls[o] /\ Call(o)' = Call(o) /\ Writes(o)' = Writes(o)
      BY <1>2, <2>2, SameCall
    <3>2. ASSUME Writes(o)' PROVE WriterTrue(o)'
      <4>1. /\ Call(o).op \in {"edit", "write"} /\ calls[o].next \in Seq(STRING)
            /\ Call(o).op = "edit" => Occurs(calls[o].next, Call(o).new)
            /\ calls[o].alone => \A x \in Caller \ {o} : ~Touches(x, Call(o).path)
        BY <3>1, <3>2 DEF WriterTrue
      <4>2. PICK call : call = Call(o) /\ call = Call(o)'
        BY <3>1
      <4>3. calls[o].alone => \A x \in Caller \ {o} : ~Touches(x, call.path)'
        BY <1>4, <4>1, <4>2
      <4> QED BY <3>1, <4>1, <4>2, <4>3 DEF WriterTrue, Occurs
    <3> QED BY <3>2 DEF WriterTrue
  <2> QED BY <2>1, <2>2
<1>6. Shaped'
  BY <1>1, <1>2 DEF Shaped
<1> QED BY <1>2, <1>3, <1>5, <1>6

\* The files stay, and so does what was kept, when no one leaves an open file.
LEMMA QuietKeeps ==
  ASSUME CallsTyped, EditsInv, cast' = cast,
         NEW c \in Caller, Leaves(c), calls[c].pc # "open", UNCHANGED <<files, kept>>
  PROVE  EditsInv'
<1>1. /\ Shaped' /\ \A o \in Caller : WriterTrue(o)'
      /\ \A o \in Caller : o # c => calls'[o] = calls[o]
      /\ \A p : ~Touches(c, p)'
  BY WritersLeave DEF EditsInv
<1>2. ASSUME NEW k \in kept PROVE KeptTrue(k)'
  <2>1. KeptTrue(k)
    BY DEF EditsInv
  <2>2. Occurs(files[k[1]].body, k[2])' <=> Occurs(files[k[1]].body, k[2])
    BY DEF Occurs
  <2>3. (\E o \in Caller : OpenOn(o, k[1])) => (\E o \in Caller : OpenOn(o, k[1]))'
    <3> SUFFICES ASSUME NEW o \in Caller, OpenOn(o, k[1]) PROVE OpenOn(o, k[1])'
      OBVIOUS
    <3>1. o # c
      BY DEF OpenOn
    <3> QED BY <1>1, <3>1, SameCall
  <2>4. ASSUME NEW o \in Caller, Touches(o, k[1])'
        PROVE  /\ calls'[o].pc = "open" => Call(o)'.op = "edit" /\ StillOpen(o)'
               /\ Call(o)'.op = "edit" => Occurs(calls'[o].next, k[2]) \/ Call(o)'.old = k[2]
    <3>1. calls'[o] = calls[o] /\ Call(o)' = Call(o) /\ Touches(o, k[1])
      BY <1>1, <2>4, SameCall
    <3>2. StillOpen(o)' = StillOpen(o)
      BY <3>1 DEF StillOpen
    <3> QED BY <2>1, <3>1, <3>2 DEF KeptTrue
  <2> QED BY <2>1, <2>2, <2>3, <2>4 DEF KeptTrue, Occurs
<1> QED BY <1>1, <1>2 DEF EditsInv, ContentTyped

LEMMA ReturnLeaves ==
  ASSUME NEW c \in Caller, NEW ok, NEW parts, Return(c, ok, parts)
  PROVE  Leaves(c)
<1>1. PICK x : x = [call |-> Call(c), ok |-> ok, parts |-> parts]
  OBVIOUS
<1>2. PICK new : new = [Idle EXCEPT !.n = calls[c].n + 1, !.done = Append(calls[c].done, x)]
  OBVIOUS
<1>3. Step(c, new)
  BY <1>1, <1>2 DEF Return
<1>4. DOMAIN new = DOMAIN Idle /\ new.pc = "ready"
  BY <1>2, IdleFields
<1> QED BY <1>3, <1>4 DEF Leaves

LEMMA AdvanceLeaves ==
  ASSUME NEW c \in Caller, NEW part, Advance(c, part)
  PROVE  Leaves(c)
<1>1. PICK parts : parts = Append(calls[c].parts, part)
  OBVIOUS
<1>2. CASE calls[c].step = Len(Call(c).actions)
  BY <1>1, <1>2, ReturnLeaves DEF Advance
<1>3. CASE calls[c].step # Len(Call(c).actions)
  <2>1. PICK new : new = [Idle EXCEPT !.n = calls[c].n, !.done = calls[c].done,
                            !.step = calls[c].step + 1, !.parts = parts]
    OBVIOUS
  <2>2. Step(c, new)
    BY <1>1, <1>3, <2>1 DEF Advance
  <2>3. DOMAIN new = DOMAIN Idle /\ new.pc = "ready"
    BY <2>1, IdleFields
  <2> QED BY <2>2, <2>3 DEF Leaves
<1> QED BY <1>2, <1>3

Chooses(c) == EditReads(c) \/ WriteChecks(c)
Quiet(c) == Leaves(c) /\ calls[c].pc # "open" /\ UNCHANGED <<files, kept>>
LEMMA EditKinds ==
  ASSUME Shaped, NEW c \in Caller, ToolStep(c)
  PROVE  Quiet(c) \/ Chooses(c) \/ OpenFile(c) \/ FillFile(c) \/ FillFails(c) \/ RemoveFile(c)
<1> USE DEF At, Quiet
<1>0. DOMAIN calls[c] = DOMAIN Idle
  BY DEF Shaped
<1>1. CASE EditRefuses(c) \/ TooLateToWrite(c) \/ ReadFails(c) \/ GlobLosesFile(c) \/ GlobLate(c)
  BY <1>1, ReturnLeaves DEF EditRefuses, TooLateToWrite, ReadFails, GlobLosesFile, GlobLate, Abort
<1>2. CASE ReadPage(c) \/ GlobEnds(c)
  BY <1>2, AdvanceLeaves DEF ReadPage, GlobEnds, GlobAnswers
<1>3. CASE GlobLists(c)
  <2>1. PICK new : new = [calls[c] EXCEPT !.pc = "walk", !.listed = Listing,
                              !.todo = Present \intersect Action(c)]
    OBVIOUS
  <2>2. Step(c, new) /\ calls[c].pc # "open" /\ UNCHANGED <<files, kept>>
    BY <1>3, <2>1 DEF GlobLists
  <2>3. DOMAIN new = DOMAIN Idle /\ new.pc = "walk"
    BY <1>0, <2>1, IdleFields
  <2> QED BY <2>2, <2>3 DEF Leaves
<1>4. CASE GlobVisits(c)
  <2>1. PICK new : new = [calls[c] EXCEPT !.todo = @ \ {Min(calls[c].todo)},
            !.found = Append(@, <<files[Min(calls[c].todo)].time, Min(calls[c].todo)>>)]
    OBVIOUS
  <2>2. Step(c, new) /\ calls[c].pc = "walk" /\ UNCHANGED <<files, kept>>
    BY <1>4, <2>1 DEF GlobVisits
  <2>3. DOMAIN new = DOMAIN Idle /\ new.pc = "walk"
    BY <1>0, <2>1, <2>2, IdleFields
  <2> QED BY <2>2, <2>3 DEF Leaves
<1>5. CASE GrepStarts(c)
  <2>1. PICK new : new = [calls[c] EXCEPT !.pc = "walk", !.listed = Listing,
                !.todo = Present \intersect Action(c).root,
                !.bad = Cardinality(Action(c).root) = 1 /\ Present \intersect Action(c).root = {}]
    OBVIOUS
  <2>2. Step(c, new) /\ calls[c].pc # "open" /\ UNCHANGED <<files, kept>>
    BY <1>5, <2>1 DEF GrepStarts
  <2>3. DOMAIN new = DOMAIN Idle /\ new.pc = "walk"
    BY <1>0, <2>1, IdleFields
  <2> QED BY <2>2, <2>3 DEF Leaves
<1>6. CASE GrepScans(c)
  <2>1. PICK p \in calls[c].todo :
          Step(c, [calls[c] EXCEPT !.todo = @ \ {p}, !.bad = @ \/ ~files[p].there,
                     !.found = @ \o Output(p, Action(c))])
    BY <1>6 DEF GrepScans
  <2>2. PICK new : new = [calls[c] EXCEPT !.todo = @ \ {p}, !.bad = @ \/ ~files[p].there,
                            !.found = @ \o Output(p, Action(c))]
    OBVIOUS
  <2>3. Step(c, new) /\ calls[c].pc = "walk" /\ UNCHANGED <<files, kept>>
    BY <1>6, <2>1, <2>2 DEF GrepScans
  <2>4. DOMAIN new = DOMAIN Idle /\ new.pc = "walk"
    BY <1>0, <2>2, <2>3, IdleFields
  <2> QED BY <2>3, <2>4 DEF Leaves
<1>7. CASE GrepDoesNotStart(c) \/ GrepEnds(c) \/ GrepKilled(c)
  <2>1. PICK how : GrepAnswers(c, how)
    BY <1>7 DEF GrepDoesNotStart, GrepEnds, GrepKilled
  <2>2. Leaves(c)
    BY <2>1, AdvanceLeaves, ReturnLeaves DEF GrepAnswers
  <2> QED BY <1>7, <2>2 DEF GrepDoesNotStart, GrepEnds, GrepKilled
<1> QED
  BY <1>1, <1>2, <1>3, <1>4, <1>5, <1>6, <1>7 DEF ToolStep, Chooses

LEMMA ChooseKeeps ==
  ASSUME CallsTyped, PlayTyped, EditsInv, cast' = cast, NEW c \in Caller, Chooses(c)
  PROVE  EditsInv'
<1>1. Busy(c) /\ calls[c].pc = "ready" /\ UNCHANGED <<files, kept>>
  BY DEF Chooses, EditReads, WriteChecks, At
<1>2. PICK call : call = Call(c) /\ call \in CallType
  BY <1>1, BusyCall
<1>3. PICK p \in Path : p = call.path
  <2>1. call.op \in {"edit", "write", "remove"}
    BY <1>2 DEF Chooses, EditReads, WriteChecks, At
  <2> QED BY <1>2, <2>1, CallFields
<1>4. PICK body \in Seq(STRING) :
        /\ Choose(c, p, body) /\ call.op \in {"edit", "write"}
        /\ call.op = "edit" =>
             /\ Occurs(body, call.new)
             /\ \A k \in kept : k[1] = p => Occurs(body, k[2]) \/ call.old = k[2]
  <2>1. CASE EditReads(c)
    <3>1. PICK body : body = Replaced(files[p].body, call.old, call.new)
      OBVIOUS
    <3>2. Choose(c, p, body) /\ call.op = "edit" /\ Accepts(call)
      BY <1>2, <1>3, <2>1, <3>1 DEF EditReads, At, Content, BodyNow
    <3>3. files[p].body \in Seq(STRING) /\ call.new \in STRING
      BY <1>2, <3>2, CallFields DEF EditsInv, ContentTyped
    <3>4. Occurs(files[p].body, call.old)
      BY <1>3, <3>2, AcceptedOccurs
    <3>5. /\ body \in Seq(STRING) /\ Occurs(body, call.new)
          /\ \A line : Occurs(files[p].body, line) /\ line # call.old => Occurs(body, line)
      BY <3>1, <3>3, <3>4, ReplacedTrue
    <3>6. ASSUME NEW k \in kept, k[1] = p PROVE Occurs(files[p].body, k[2])
      <4>1. Occurs(files[p].body, k[2]) \/ files[p].body = <<>>
        BY <3>6 DEF EditsInv, KeptTrue
      <4>2. files[p].body # <<>>
        BY <3>4, EmptySeq DEF Occurs
      <4> QED BY <4>1, <4>2
    <3> QED BY <3>2, <3>5, <3>6
  <2>2. CASE WriteChecks(c)
    <3>1. Choose(c, p, call.body) /\ call.op = "write"
      BY <1>2, <1>3, <2>2 DEF WriteChecks, At
    <3>2. call.body \in Seq(STRING)
      BY <1>2, <3>1, CallFields
    <3> QED BY <3>1, <3>2
  <2> QED BY <2>1, <2>2 DEF Chooses
<1>5. PICK new : new = [calls[c] EXCEPT !.pc = "chosen", !.next = body,
                          !.alone = \A x \in Caller \ {c} : ~Touches(x, p)]
  OBVIOUS
<1>6. /\ calls'[c] = new
      /\ \A o \in Caller \ {c} :
           calls'[o] = IF Touches(o, p) THEN [calls[o] EXCEPT !.alone = FALSE] ELSE calls[o]
  BY <1>4, <1>5 DEF Choose
<1>7. /\ new.pc = "chosen" /\ new.next = body /\ new.n = calls[c].n
      /\ new.alone <=> \A x \in Caller \ {c} : ~Touches(x, p)
      /\ DOMAIN new = DOMAIN Idle
  <2>1. DOMAIN calls[c] = DOMAIN Idle
    BY DEF EditsInv, Shaped
  <2> QED BY <1>5, <2>1, IdleFields
<1>8. ASSUME NEW o \in Caller, o # c
      PROVE  /\ DOMAIN calls'[o] = DOMAIN Idle
             /\ calls'[o].pc = calls[o].pc /\ calls'[o].n = calls[o].n
             /\ calls'[o].next = calls[o].next /\ calls'[o].inode = calls[o].inode
             /\ calls'[o].alone => calls[o].alone /\ ~Touches(o, p)
             /\ Call(o)' = Call(o) /\ (\A q : Touches(o, q)' <=> Touches(o, q))
  <2>1. DOMAIN calls[o] = DOMAIN Idle
    BY DEF EditsInv, Shaped
  <2>2. /\ DOMAIN calls'[o] = DOMAIN Idle
        /\ calls'[o].pc = calls[o].pc /\ calls'[o].n = calls[o].n
        /\ calls'[o].next = calls[o].next /\ calls'[o].inode = calls[o].inode
        /\ calls'[o].alone => calls[o].alone /\ ~Touches(o, p)
    <3>1. CASE Touches(o, p)
      <4>1. calls'[o] = [calls[o] EXCEPT !.alone = FALSE]
        BY <1>6, <1>8, <3>1
      <4> QED BY <2>1, <4>1, IdleFields
    <3>2. CASE ~Touches(o, p)
      BY <1>6, <1>8, <2>1, <3>2
    <3> QED BY <3>1, <3>2
  <2> QED BY <2>2 DEF Call, Touches
<1>9. Call(c)' = call
  BY <1>2, <1>6, <1>7 DEF Call
<1>10. Shaped' /\ ContentTyped'
  BY <1>1, <1>6, <1>7, <1>8 DEF Shaped, ContentTyped, EditsInv
<1>11. WriterTrue(c)'
  <2>1. ASSUME new.alone PROVE \A o \in Caller \ {c} : ~Touches(o, p)'
    BY <1>7, <1>8, <2>1
  <2> QED BY <1>3, <1>4, <1>6, <1>7, <1>9, <2>1 DEF WriterTrue, Occurs
<1>12. ASSUME NEW o \in Caller, o # c PROVE WriterTrue(o)'
  <2>1. WriterTrue(o) /\ Writes(o)' = Writes(o)
    BY <1>8, <1>12 DEF EditsInv, Writes
  <2>2. ASSUME Writes(o)' PROVE WriterTrue(o)'
    <3>1. PICK his : his = Call(o) /\ his = Call(o)'
      BY <1>8, <1>12
    <3>2. /\ his.op \in {"edit", "write"} /\ calls[o].next \in Seq(STRING)
          /\ his.op = "edit" => Occurs(calls[o].next, his.new)
          /\ calls[o].alone => \A x \in Caller \ {o} : ~Touches(x, his.path)
      BY <2>1, <2>2, <3>1 DEF WriterTrue
    <3>3. ASSUME calls'[o].alone PROVE \A x \in Caller \ {o} : ~Touches(x, his.path)'
      <4>1. calls[o].alone /\ ~Touches(o, p) /\ Writes(o)
        BY <1>8, <1>12, <2>1, <2>2, <3>3
      <4>2. his.path # p
        BY <3>1, <4>1 DEF Touches, Writes
      <4>3. ~Touches(c, his.path)'
        BY <1>3, <1>9, <4>2 DEF Touches
      <4>4. ASSUME NEW x \in Caller \ {o}, x # c PROVE ~Touches(x, his.path)'
        BY <1>8, <3>2, <4>1, <4>4
      <4> QED BY <4>3, <4>4
    <3> QED BY <1>8, <1>12, <3>1, <3>2, <3>3 DEF WriterTrue, Occurs
  <2> QED BY <2>2 DEF WriterTrue
<1>13. ASSUME NEW k \in kept PROVE KeptTrue(k)'
  <2>1. KeptTrue(k)
    BY DEF EditsInv
  <2>2. (\E o \in Caller : OpenOn(o, k[1])) => (\E o \in Caller : OpenOn(o, k[1]))'
    <3> SUFFICES ASSUME NEW o \in Caller, OpenOn(o, k[1]) PROVE OpenOn(o, k[1])'
      OBVIOUS
    <3>1. o # c
      BY <1>1 DEF OpenOn
    <3> QED BY <1>8, <3>1 DEF OpenOn
  <2>3. ASSUME NEW o \in Caller, Touches(o, k[1])'
        PROVE  /\ calls'[o].pc = "open" => Call(o)'.op = "edit" /\ StillOpen(o)'
               /\ Call(o)'.op = "edit" => Occurs(calls'[o].next, k[2]) \/ Call(o)'.old = k[2]
    <3>1. CASE o = c
      <4>1. k[1] = p
        BY <1>3, <1>9, <2>3, <3>1 DEF Touches
      <4> QED BY <1>4, <1>6, <1>7, <1>9, <3>1, <4>1
    <3>2. CASE o # c
      <4>1. Touches(o, k[1]) /\ Call(o)' = Call(o)
        BY <1>8, <2>3, <3>2
      <4>2. StillOpen(o)' = StillOpen(o)
        BY <1>1, <1>8, <3>2 DEF StillOpen
      <4> QED BY <1>8, <2>1, <3>2, <4>1, <4>2 DEF KeptTrue
    <3> QED BY <3>1, <3>2
  <2> QED BY <1>1, <2>1, <2>2, <2>3 DEF KeptTrue, Occurs
<1> QED BY <1>1, <1>10, <1>11, <1>12, <1>13 DEF EditsInv

LEMMA OpenKeeps ==
  ASSUME CallsTyped, FilesTyped, EditsInv, PlayTyped, cast' = cast,
         NEW c \in Caller, OpenFile(c)
  PROVE  EditsInv'
<1>1. Busy(c) /\ calls[c].pc = "chosen"
  BY DEF OpenFile
<1>2. PICK call : call = Call(c) /\ call \in CallType /\ call.op \in {"edit", "write"}
  BY <1>1, BusyCall DEF EditsInv, WriterTrue, Writes
<1>3. PICK p \in Path : p = call.path
  BY <1>2, CallFields
<1>4. Touches(c, p)
  BY <1>1, <1>2, <1>3 DEF Touches
<1>5. PICK f : f = Opened(p)
  OBVIOUS
<1>6. /\ f.there /\ f.body = <<>> /\ f.gen = files[p].gen + (IF files[p].there THEN 0 ELSE 1)
  BY <1>5 DEF Opened
<1>7. files' = [files EXCEPT ![p] = f] /\ DOMAIN files = Path
  BY <1>2, <1>3, <1>5 DEF OpenFile, FilesTyped
<1>8. PICK new : new = [calls[c] EXCEPT !.pc = "open", !.inode = files'[p].gen]
  OBVIOUS
<1>9. DOMAIN calls[c] = DOMAIN Idle
  BY DEF EditsInv, Shaped
<1>10. /\ new.pc = "open" /\ new.inode = f.gen /\ new.next = calls[c].next
       /\ new.alone = calls[c].alone /\ new.n = calls[c].n /\ DOMAIN new = DOMAIN Idle
  <2>1. files'[p] = f
    BY <1>7
  <2> QED BY <1>8, <1>9, <2>1, IdleFields
<1>11. /\ calls'[c] = new
       /\ \A o \in Caller : o # c => calls'[o] = calls[o]
  BY <1>2, <1>3, <1>8 DEF OpenFile, Step, CallsTyped
<1>12. /\ Call(c)' = Call(c) /\ \A q : Touches(c, q)' <=> Touches(c, q)
  BY <1>1, <1>10, <1>11 DEF Call, Touches
<1>13. \A o \in Caller : /\ Call(o)' = Call(o) /\ Writes(o)' = Writes(o)
                         /\ \A q : Touches(o, q)' <=> Touches(o, q)
  <2>1. Writes(c)' = Writes(c)
    BY <1>1, <1>10, <1>11 DEF Writes
  <2> QED BY <1>11, <1>12, <2>1, SameCall
<1>14. Shaped'
  BY <1>10, <1>11 DEF EditsInv, Shaped
<1>15. ContentTyped'
  <2>1. <<>> \in Seq(STRING)
    BY EmptySeq
  <2>2. f.gen \in Nat
    BY <1>6 DEF EditsInv, ContentTyped
  <2> QED BY <1>6, <1>7, <2>1, <2>2 DEF EditsInv, ContentTyped
<1>16. ASSUME NEW o \in Caller PROVE WriterTrue(o)'
  <2>1. /\ calls'[o].next = calls[o].next /\ calls'[o].alone = calls[o].alone
    BY <1>10, <1>11
  <2>2. WriterTrue(o) /\ Call(o)' = Call(o) /\ Writes(o)' = Writes(o)
    BY <1>13 DEF EditsInv
  <2>3. PICK his : his = Call(o) /\ his = Call(o)'
    BY <2>2
  <2>4. (\A x \in Caller \ {o} : ~Touches(x, his.path)) =>
          (\A x \in Caller \ {o} : ~Touches(x, his.path)')
    BY <1>13
  <2> QED BY <2>1, <2>2, <2>3, <2>4 DEF WriterTrue, Occurs
<1>17. ASSUME NEW k \in kept' PROVE KeptTrue(k)'
  <2>1. k \in kept /\ (k[1] = p => call.op = "edit")
    BY <1>2, <1>3 DEF OpenFile
  <2>2. KeptTrue(k)
    BY <2>1 DEF EditsInv
  <2>3. CASE k[1] = p
    <3>1. files'[p] = f /\ files[p].there /\ f.gen = files[p].gen + 0
      BY <1>6, <1>7, <2>2, <2>3 DEF KeptTrue
    <3>2. OpenOn(c, p)'
      BY <1>4, <1>10, <1>11, <1>12 DEF OpenOn
    <3>3. ASSUME NEW o \in Caller, Touches(o, p)'
          PROVE  /\ calls'[o].pc = "open" => Call(o)'.op = "edit" /\ StillOpen(o)'
                 /\ Call(o)'.op = "edit" => Occurs(calls'[o].next, k[2]) \/ Call(o)'.old = k[2]
      <4>1. Touches(o, p) /\ Call(o)' = Call(o) /\ calls'[o].next = calls[o].next
        BY <1>10, <1>11, <1>13, <3>3
      <4>2. Call(o)'.op = "edit" => Occurs(calls'[o].next, k[2]) \/ Call(o)'.old = k[2]
        BY <2>2, <2>3, <4>1 DEF KeptTrue
      <4>3. CASE o = c
        <5>1. StillOpen(o)'
          BY <1>2, <1>3, <1>10, <1>11, <1>12, <1>6, <3>1, <4>3 DEF StillOpen
        <5> QED BY <1>2, <1>12, <2>1, <2>3, <4>2, <4>3, <5>1
      <4>4. CASE o # c
        <5>1. calls'[o] = calls[o]
          BY <1>11, <4>4
        <5>2. ASSUME calls[o].pc = "open" PROVE Call(o).op = "edit" /\ StillOpen(o)'
          <6>1. Call(o).op = "edit" /\ StillOpen(o)
            BY <2>2, <2>3, <4>1, <5>2 DEF KeptTrue
          <6>2. Call(o).path = p
            BY <4>1 DEF Touches
          <6>3. calls[o].inode = files[p].gen /\ files[p].gen = f.gen
            <7>1. files[p].gen = calls[o].inode
              BY <6>1, <6>2 DEF StillOpen
            <7>2. f.gen = files[p].gen
              BY <3>1 DEF EditsInv, ContentTyped
            <7> QED BY <7>1, <7>2
          <6> QED BY <1>6, <3>1, <4>1, <5>1, <6>1, <6>2, <6>3 DEF StillOpen
        <5> QED BY <4>1, <4>2, <5>1, <5>2
      <4> QED BY <4>3, <4>4
    <3> QED BY <1>3, <1>6, <2>2, <2>3, <3>1, <3>2, <3>3 DEF KeptTrue
  <2>4. CASE k[1] # p
    <3>1. files'[k[1]] = files[k[1]]
      BY <1>7, <2>2, <2>4 DEF KeptTrue
    <3>2. \A o \in Caller : Touches(o, k[1])' => o # c /\ Touches(o, k[1]) /\ calls'[o] = calls[o]
      <4>1. ~Touches(c, k[1])
        BY <1>2, <1>3, <2>4 DEF Touches
      <4> QED BY <1>11, <1>13, <4>1
    <3>3. (\E o \in Caller : OpenOn(o, k[1])) => (\E o \in Caller : OpenOn(o, k[1]))'
      BY <1>2, <1>3, <1>11, <2>4, SameCall DEF OpenOn, Touches
    <3>4. ASSUME NEW o \in Caller, Touches(o, k[1])'
          PROVE  /\ calls'[o].pc = "open" => Call(o)'.op = "edit" /\ StillOpen(o)'
                 /\ Call(o)'.op = "edit" => Occurs(calls'[o].next, k[2]) \/ Call(o)'.old = k[2]
      <4>1. Touches(o, k[1]) /\ calls'[o] = calls[o] /\ Call(o)' = Call(o)
        BY <1>13, <3>2, <3>4
      <4>2. StillOpen(o)' = StillOpen(o)
        BY <3>1, <4>1 DEF StillOpen, Touches
      <4> QED BY <2>2, <4>1, <4>2 DEF KeptTrue
    <3> QED BY <2>2, <3>1, <3>3, <3>4 DEF KeptTrue, Occurs
  <2> QED BY <2>3, <2>4
<1> QED BY <1>14, <1>15, <1>16, <1>17 DEF EditsInv

\* What a call that leaves keeps of another's file, and of its own
LEMMA LeavesKeeps ==
  ASSUME CallsTyped, EditsInv, cast' = cast, NEW c \in Caller, Leaves(c),
         NEW k \in kept, KeptTrue(k),
         files'[k[1]].there, files'[k[1]].gen = files[k[1]].gen,
         \/ Occurs(files'[k[1]].body, k[2])
         \/ files'[k[1]].body = files[k[1]].body /\ ~OpenOn(c, k[1])
  PROVE  KeptTrue(k)'
<1>1. /\ \A o \in Caller : o # c => calls'[o] = calls[o]
      /\ \A p : ~Touches(c, p)'
  BY WritersLeave DEF EditsInv
<1>2. ~OpenOn(c, k[1]) =>
        ((\E o \in Caller : OpenOn(o, k[1])) => (\E o \in Caller : OpenOn(o, k[1]))')
  BY <1>1, SameCall
<1>3. ASSUME NEW o \in Caller, Touches(o, k[1])'
      PROVE  /\ calls'[o].pc = "open" => Call(o)'.op = "edit" /\ StillOpen(o)'
             /\ Call(o)'.op = "edit" => Occurs(calls'[o].next, k[2]) \/ Call(o)'.old = k[2]
  <2>1. o # c /\ calls'[o] = calls[o] /\ Call(o)' = Call(o) /\ Touches(o, k[1])
    BY <1>1, <1>3, SameCall
  <2>2. Call(o).path = k[1]
    BY <2>1 DEF Touches
  <2>3. StillOpen(o) => StillOpen(o)'
    BY <2>1, <2>2 DEF StillOpen
  <2> QED BY <2>1, <2>3 DEF KeptTrue
<1>4. \/ Occurs(files'[k[1]].body, k[2])
      \/ files'[k[1]].body = <<>> /\ (\E o \in Caller : OpenOn(o, k[1]))'
  <2>1. CASE files'[k[1]].body = files[k[1]].body /\ ~OpenOn(c, k[1])
    BY <1>2, <2>1 DEF KeptTrue, Occurs
  <2> QED BY <2>1
<1> QED BY <1>3, <1>4 DEF KeptTrue, Occurs

LEMMA FillKeeps ==
  ASSUME CallsTyped, FilesTyped, EditsInv, PlayTyped, cast' = cast,
         NEW c \in Caller, FillFile(c)
  PROVE  EditsInv'
<1>1. Busy(c) /\ calls[c].pc = "open" /\ Leaves(c)
  BY ReturnLeaves DEF FillFile
<1>2. PICK call : call = Call(c) /\ call \in CallType /\ call.op \in {"edit", "write"}
  BY <1>1, BusyCall DEF EditsInv, WriterTrue, Writes
<1>3. PICK p \in Path : p = call.path
  BY <1>2, CallFields
<1>4. OpenOn(c, p)
  BY <1>1, <1>2, <1>3 DEF OpenOn, Touches
<1>5. PICK next \in Seq(STRING) :
        next = calls[c].next /\ (call.op = "edit" => Occurs(next, call.new))
  BY <1>1, <1>2 DEF EditsInv, WriterTrue, Writes
<1>6. PICK body : body = Over(next, files[p].body)
  OBVIOUS
<1>7. body \in Seq(STRING) /\ \A line : Occurs(next, line) => Occurs(body, line)
  BY <1>3, <1>6, OverTrue DEF EditsInv, ContentTyped
<1>8. files' = IF ~StillOpen(c) THEN files
               ELSE [files EXCEPT ![p].body = body, ![p].time = clock + 1]
  BY <1>2, <1>3, <1>5, <1>6 DEF FillFile
<1>9. /\ DOMAIN files = Path
      /\ \A q \in Path : {"there", "gen", "time", "body"} \subseteq DOMAIN files[q]
  BY DEF FilesTyped, FileOk
<1>10. /\ \A q \in Path : files'[q].there = files[q].there /\ files'[q].gen = files[q].gen
       /\ \A q \in Path : q # p => files'[q] = files[q]
       /\ files'[p].body = IF StillOpen(c) THEN body ELSE files[p].body
  <2>1. CASE ~StillOpen(c)
    BY <1>8, <2>1
  <2>2. CASE StillOpen(c)
    <3>1. files' = [files EXCEPT ![p].body = body, ![p].time = clock + 1]
      BY <1>8, <2>2
    <3> QED BY <1>9, <2>2, <3>1
  <2> QED BY <2>1, <2>2
<1>11. /\ Shaped' /\ \A o \in Caller : WriterTrue(o)'
       /\ \A o \in Caller : o # c => calls'[o] = calls[o]
       /\ \A q : ~Touches(c, q)'
  BY <1>1, WritersLeave DEF EditsInv
<1>12. ContentTyped'
  BY <1>3, <1>7, <1>10 DEF EditsInv, ContentTyped
<1>13. ASSUME NEW k \in kept, KeptTrue(k), k[1] = p => call.op = "edit" /\ call.old # k[2]
       PROVE  KeptTrue(k)'
  <2>1. k[1] \in Path /\ files[k[1]].there
    BY <1>13 DEF KeptTrue
  <2>2. CASE k[1] = p
    <3>1. Touches(c, p) /\ Call(c).op = "edit" /\ StillOpen(c)
      BY <1>1, <1>2, <1>4, <1>13, <2>2 DEF KeptTrue, OpenOn
    <3>2. Occurs(next, k[2])
      BY <1>2, <1>5, <1>13, <2>2, <3>1 DEF KeptTrue
    <3>3. Occurs(files'[p].body, k[2])
      BY <1>7, <1>10, <3>1, <3>2
    <3> QED BY <1>1, <1>10, <1>13, <2>1, <2>2, <3>3, LeavesKeeps
  <2>3. CASE k[1] # p
    <3>1. ~OpenOn(c, k[1])
      BY <1>2, <1>3, <2>3 DEF OpenOn, Touches
    <3>2. files'[k[1]] = files[k[1]]
      BY <1>10, <2>1, <2>3
    <3> QED BY <1>1, <1>13, <2>1, <3>1, <3>2, LeavesKeeps
  <2> QED BY <2>2, <2>3
<1>14. ASSUME NEW k \in kept' PROVE KeptTrue(k)'
  <2>1. CASE call.op # "edit"
    <3>1. k \in kept
      BY <1>2, <1>14, <2>1 DEF FillFile, KeptAfter
    <3>2. KeptTrue(k)
      BY <3>1 DEF EditsInv
    <3>3. k[1] # p
      BY <1>1, <1>2, <1>4, <2>1, <3>2 DEF KeptTrue, OpenOn
    <3> QED BY <1>13, <3>1, <3>2, <3>3
  <2>2. CASE call.op = "edit"
    <3>1. kept' = (kept \ {<<p, call.old>>}) \union
                  {x \in {<<p, call.new>>} : calls[c].alone /\ StillOpen(c)}
      BY <1>2, <1>3, <2>2 DEF FillFile, KeptAfter
    <3>2. CASE k \in kept /\ (k[1] = p => k[2] # call.old)
      BY <1>13, <2>2, <3>2 DEF EditsInv
    <3>3. CASE k = <<p, call.new>> /\ calls[c].alone /\ StillOpen(c)
      <4>1. files'[p].there /\ Occurs(files'[p].body, call.new)
        BY <1>2, <1>3, <1>5, <1>7, <1>10, <2>2, <3>3 DEF StillOpen
      <4>2. \A o \in Caller : ~Touches(o, p)'
        <5>1. \A o \in Caller \ {c} : ~Touches(o, p)
          BY <1>1, <1>2, <1>3, <3>3 DEF EditsInv, WriterTrue, Writes
        <5> QED BY <1>11, <5>1, SameCall
      <4>3. k[1] = p /\ k[2] = call.new
        BY <3>3
      <4>4. k \in Path \X STRING
        BY <1>2, <1>3, <2>2, <3>3, CallFields
      <4> QED BY <1>3, <4>1, <4>2, <4>3, <4>4 DEF KeptTrue, Occurs
    <3>4. ASSUME k \in kept, k[1] = p, k[2] = call.old PROVE k = <<p, call.old>>
      <4>1. k \in Path \X STRING
        BY <3>4 DEF EditsInv, KeptTrue
      <4> QED BY <3>4, <4>1
    <3> QED BY <3>1, <3>2, <3>3, <3>4
  <2> QED BY <2>1, <2>2
<1> QED BY <1>11, <1>12, <1>14 DEF EditsInv

LEMMA EndKeeps ==
  ASSUME CallsTyped, FilesTyped, EditsInv, PlayTyped, cast' = cast,
         NEW c \in Caller, FillFails(c) \/ RemoveFile(c)
  PROVE  EditsInv'
<1>1. Busy(c) /\ Leaves(c)
  BY ReturnLeaves DEF FillFails, RemoveFile, Abort, At
<1>2. PICK p \in Path : p = Call(c).path
  <2>1. Call(c).op \in {"edit", "write", "remove"}
    BY <1>1 DEF EditsInv, WriterTrue, Writes, FillFails, RemoveFile, At
  <2> QED BY <1>1, <2>1, BusyCall, CallFields
<1>3. /\ Shaped' /\ \A o \in Caller : WriterTrue(o)'
  BY <1>1, WritersLeave DEF EditsInv
<1>4. kept' = {k \in kept : k[1] # p}
  BY <1>2 DEF FillFails, RemoveFile
<1>5. /\ \A q \in Path : q # p => files'[q] = files[q]
      /\ files'[p].gen = files[p].gen
      /\ files'[p].body = <<>> \/ files'[p].body = files[p].body
  <2>1. CASE UNCHANGED files
    BY <2>1
  <2>2. CASE files' = [files EXCEPT ![p].there = FALSE, ![p].body = <<>>]
    <3>1. DOMAIN files = Path /\ {"there", "gen", "time", "body"} \subseteq DOMAIN files[p]
      BY DEF FilesTyped, FileOk
    <3> QED BY <2>2, <3>1
  <2> QED BY <1>2, <2>1, <2>2 DEF FillFails, RemoveFile
<1>6. ContentTyped'
  BY <1>2, <1>5, EmptySeq DEF EditsInv, ContentTyped
<1>7. ASSUME NEW k \in kept' PROVE KeptTrue(k)'
  <2>1. k \in kept /\ k[1] # p /\ KeptTrue(k)
    BY <1>4 DEF EditsInv
  <2>2. files'[k[1]] = files[k[1]] /\ files[k[1]].there
    BY <1>5, <2>1 DEF KeptTrue
  <2>3. ~OpenOn(c, k[1])
    BY <1>2, <2>1 DEF OpenOn, Touches
  <2> QED BY <1>1, <2>1, <2>2, <2>3, LeavesKeeps
<1> QED BY <1>3, <1>6, <1>7 DEF EditsInv

\* Nobody's call goes on, and files change only where nothing is kept.
LEMMA OthersKeep ==
  ASSUME EditsInv, cast' = cast, calls' = calls, kept' \subseteq kept,
         ContentTyped', \A k \in kept' : files'[k[1]] = files[k[1]]
  PROVE  EditsInv'
<1>1. \A o \in Caller : /\ Call(o)' = Call(o) /\ Writes(o)' = Writes(o)
                        /\ \A q : Touches(o, q)' <=> Touches(o, q)
                        /\ \A q : OpenOn(o, q)' <=> OpenOn(o, q)
  BY SameCall
<1>2. ASSUME NEW o \in Caller PROVE WriterTrue(o)'
  <2>1. WriterTrue(o)
    BY DEF EditsInv
  <2>2. PICK his : his = Call(o) /\ his = Call(o)'
    BY <1>1
  <2>3. (\A x \in Caller \ {o} : ~Touches(x, his.path)) =>
          (\A x \in Caller \ {o} : ~Touches(x, his.path)')
    BY <1>1
  <2> QED BY <1>1, <2>1, <2>2, <2>3 DEF WriterTrue, Occurs
<1>3. ASSUME NEW k \in kept' PROVE KeptTrue(k)'
  <2>1. KeptTrue(k) /\ files'[k[1]] = files[k[1]]
    BY DEF EditsInv
  <2>2. ASSUME NEW o \in Caller, Touches(o, k[1])'
        PROVE  /\ calls'[o].pc = "open" => Call(o)'.op = "edit" /\ StillOpen(o)'
               /\ Call(o)'.op = "edit" => Occurs(calls'[o].next, k[2]) \/ Call(o)'.old = k[2]
    <3>1. Touches(o, k[1]) /\ Call(o)' = Call(o) /\ calls'[o] = calls[o]
      BY <1>1, <2>2
    <3>2. StillOpen(o)' = StillOpen(o)
      BY <2>1, <3>1 DEF StillOpen, Touches
    <3> QED BY <2>1, <3>1, <3>2 DEF KeptTrue
  <2>3. (\E o \in Caller : OpenOn(o, k[1])) => (\E o \in Caller : OpenOn(o, k[1]))'
    BY <1>1
  <2> QED BY <2>1, <2>2, <2>3 DEF KeptTrue, Occurs
<1> QED BY <1>2, <1>3 DEF EditsInv, Shaped

LEMMA DownloadKeeps ==
  ASSUME TypeInv, EditsInv, cast' = cast, NEW m \in Message, Download(m)
  PROVE  EditsInv'
<1>1. HandlerOk(inbox[m]) /\ HasNextFile(m) /\ cast \in Casts
  BY DEF TypeInv, InboxTyped, PlayTyped, Download
<1>2. NextFile(m) \in FileType
  BY <1>1, NextFileIsSent
<1>3. DiscordFits(NextFile(m))
  BY DEF Download, Fits, TelegramFits
<1>4. Copied(NextFile(m).body) \in Seq(STRING)
  BY <1>2, <1>3, WhatFitsIsWhole DEF Body
<1>5. PICK p \in Path : p = NextFile(m).path
  BY <1>2 DEF FileType
<1>6. PICK f : f = Renamed(p, Copied(NextFile(m).body))
  OBVIOUS
<1>7. f.body \in Seq(STRING) /\ f.gen = files[p].gen + 1
  BY <1>4, <1>6 DEF Renamed
<1>8. /\ files' = [files EXCEPT ![p] = f] /\ DOMAIN files = Path
      /\ kept' = {k \in kept : k[1] # p} /\ calls' = calls
  BY <1>5, <1>6 DEF Download, TypeInv, FilesTyped
<1>9. ContentTyped'
  <2>1. f.gen \in Nat
    BY <1>7 DEF EditsInv, ContentTyped
  <2> QED BY <1>7, <1>8, <2>1 DEF EditsInv, ContentTyped
<1>10. \A k \in kept' : files'[k[1]] = files[k[1]]
  <2>1. ASSUME NEW k \in kept' PROVE files'[k[1]] = files[k[1]]
    <3>1. k \in kept /\ k[1] # p
      BY <1>8
    <3>2. k[1] \in Path
      BY <3>1 DEF EditsInv, KeptTrue
    <3> QED BY <1>8, <3>1, <3>2
  <2> QED BY <2>1
<1> QED BY <1>8, <1>9, <1>10, OthersKeep

LEMMA RestartKeeps ==
  ASSUME CallsTyped, EditsInv, cast' = cast, Restart
  PROVE  EditsInv'
<1>1. ASSUME NEW c \in Caller
      PROVE  calls'[c].pc = "ready" /\ DOMAIN calls'[c] = DOMAIN Idle
  <2>1. CASE c \in Interrupted
    <3>1. PICK x : x = [call |-> Call(c), ok |-> FALSE, parts |-> <<>>]
      OBVIOUS
    <3>2. PICK new : new = [Idle EXCEPT !.n = calls[c].n + 1,
                                        !.done = Append(calls[c].done, x)]
      OBVIOUS
    <3>3. calls'[c] = new
      BY <2>1, <3>1, <3>2 DEF Restart
    <3> QED BY <3>2, <3>3, IdleFields
  <2>2. CASE c \notin Interrupted
    BY <2>2 DEF Restart, Interrupted, EditsInv, Shaped
  <2> QED BY <2>1, <2>2
<1>2. \A c \in Caller : \A p : ~Touches(c, p)'
  BY <1>1 DEF Touches
<1>3. Shaped' /\ \A c \in Caller : WriterTrue(c)'
  BY <1>1 DEF Shaped, WriterTrue, Writes
<1>4. UNCHANGED files
  BY DEF Restart
<1>5. ASSUME NEW k \in kept' PROVE KeptTrue(k)'
  <2>1. KeptTrue(k) /\ \A c \in Interrupted : ~(calls[c].pc = "open" /\ Touches(c, k[1]))
    BY DEF Restart, EditsInv
  <2>2. \A c \in Caller : ~OpenOn(c, k[1])
    BY <2>1 DEF OpenOn, Interrupted
  <2> QED BY <1>2, <1>4, <2>1, <2>2 DEF KeptTrue, Occurs
<1> QED BY <1>3, <1>4, <1>5 DEF EditsInv, ContentTyped

LEMMA EditsInit == Init => EditsInv
<1> SUFFICES ASSUME Init PROVE EditsInv
  OBVIOUS
<1>1. calls = [c \in Caller |-> Idle] /\ kept = {}
  BY DEF Init, InitWorkspace
<1>2. \A c \in Caller : calls[c] = Idle
  BY <1>1
<1>3. ContentTyped
  <2>1. \A p \in Path : InitialFiles[p] \in Seq(STRING)
    BY WorkspaceAssumption
  <2> QED BY <2>1 DEF Init, InitWorkspace, ContentTyped
<1> QED BY <1>1, <1>2, <1>3, IdleFields DEF EditsInv, Shaped, WriterTrue, Writes

LEMMA EditsKept == TypeInv /\ EditsInv /\ [Next]_vars => EditsInv'
<1> SUFFICES ASSUME TypeInv, EditsInv, [Next]_vars PROVE EditsInv'
  OBVIOUS
<1> USE DEF TypeInv
<1>1. cast' = cast
  BY CastKept
<1>2. ASSUME UNCHANGED workspace PROVE EditsInv'
  <2>1. ContentTyped'
    BY <1>2 DEF workspace, EditsInv, ContentTyped
  <2> QED BY <1>1, <1>2, <2>1, OthersKeep DEF workspace
<1>3. ASSUME NEW m \in Message, Inbound(m) PROVE EditsInv'
  <2>1. UNCHANGED workspace \/ Download(m)
    BY <1>3 DEF Inbound, BeginDiscord, BeginCommand, BeginTelegram, BeginInject, Begins,
       PlaceDiscord, PlaceOther, DownloadFails, Ignore, Enqueue, EnqueueFails
  <2> QED BY <1>1, <1>2, <2>1, DownloadKeeps
<1>4. ASSUME NEW r \in Report, Outbound(r) PROVE EditsInv'
  BY <1>2, <1>4 DEF Outbound, BeginReport, PostChunk, TextDone, PostDiscordFiles,
     PostTelegramFile, FileIsGone
<1>5. ASSUME NEW c \in Caller, Tools(c) PROVE EditsInv'
  <2>1. Quiet(c) \/ Chooses(c) \/ OpenFile(c) \/ FillFile(c) \/ FillFails(c) \/ RemoveFile(c)
    BY <1>5, EditKinds DEF Tools, EditsInv
  <2>2. CASE Quiet(c)
    BY <1>1, <2>2, QuietKeeps DEF Quiet
  <2>3. CASE Chooses(c)
    BY <1>1, <2>3, ChooseKeeps
  <2>4. CASE OpenFile(c)
    BY <1>1, <2>4, OpenKeeps
  <2>5. CASE FillFile(c)
    BY <1>1, <2>5, FillKeeps
  <2>6. CASE FillFails(c) \/ RemoveFile(c)
    BY <1>1, <2>6, EndKeeps
  <2> QED BY <2>1, <2>2, <2>3, <2>4, <2>5, <2>6
<1>6. CASE Restart
  BY <1>1, <1>6, RestartKeeps
<1>7. CASE Stopped \/ UNCHANGED vars
  BY <1>2, <1>7 DEF Stopped, vars
<1> QED BY <1>3, <1>4, <1>5, <1>6, <1>7 DEF Next

LEMMA EditsFollow == EditsInv => EditsSurvive
<1> SUFFICES ASSUME EditsInv, NEW k \in kept,
                    \A c \in Caller : ~(calls[c].pc = "open" /\ Touches(c, k[1]))
             PROVE  files[k[1]].there /\ Occurrences(BodyNow(k[1]), k[2]) # {}
  BY DEF EditsSurvive
<1>1. files[k[1]].there /\ Occurs(files[k[1]].body, k[2])
  BY DEF EditsInv, KeptTrue, OpenOn
<1> QED BY <1>1, OccursIff DEF BodyNow

-----------------------------------------------------------------------------
(* What the tools tell                                                     *)

ClockTrue == clock \in Nat /\ \A p \in Path : files[p].time \in 0 .. clock

\* What an answer says is true of what its action asked and was shown.
ReadTrue(a, part) ==
  /\ part.seen \in Seq(STRING)
  /\ part.lines = Window(part.seen, a.offset, LimitOf(a))
  /\ part.truncated <=> a.offset + LimitOf(a) < Len(part.seen)
Names(found) == {found[j][2] : j \in DOMAIN found}
GlobTrue(part) ==
  /\ part.always \subseteq Names(part.matches)
  /\ \A j, k \in DOMAIN part.matches : j < k => Before(part.matches[j], part.matches[k])
GrepTrue(a, part) ==
  part.lines = <<>> /\ part.ran /\ (part.code = 1 \/ a.offset = 0) => part.held = {}
PartTrue(call, i, part) ==
  /\ call.op = "read" => ReadTrue(call.actions[i], part)
  /\ call.op = "glob" => GlobTrue(part)
  /\ call.op = "grep" => GrepTrue(call.actions[i], part)
PartsTrue(call, parts) ==
  /\ IsSequence(parts) /\ Len(parts) <= Len(call.actions)
  /\ \A i \in 1 .. Len(parts) : PartTrue(call, i, parts[i])

\* A search that failed may have told of an action that it did not finish; a
\* glob has not.
ResultTrue(r) ==
  /\ r.call \in CallType
  /\ r.call.op \in BatchOp =>
       /\ r.ok \/ r.call.op = "glob" => PartsTrue(r.call, r.parts)
       /\ r.ok => Len(r.parts) = Len(r.call.actions)

\* What was listed and need not be visited any more was found, each name once.
GlobWalk(c) ==
  /\ calls[c].found \in Seq(Nat \X Path)
  /\ Action(c) \intersect DOMAIN calls[c].listed \subseteq calls[c].todo \union Names(calls[c].found)
  /\ Names(calls[c].found) \intersect calls[c].todo = {}
  /\ \A i, j \in DOMAIN calls[c].found :
       calls[c].found[i][2] = calls[c].found[j][2] => i = j

\* What was visited, is as it was listed and holds the line was found.
AsListed(c, p) == files[p].there /\ files[p].time = calls[c].listed[p].time
GrepWalk(c) ==
  /\ calls[c].found \in Seq(Path)
  /\ \A p \in (Action(c).root \intersect DOMAIN calls[c].listed) \ calls[c].todo :
       AsListed(c, p) /\ Occurs(files[p].body, Action(c).line) => calls[c].found # <<>>
WalkTrue(c) ==
  /\ \A p \in DOMAIN calls[c].listed : p \in Path /\ calls[c].listed[p].time \in 0 .. clock
  /\ calls[c].todo \subseteq Path
  /\ Call(c).op = "glob" => GlobWalk(c)
  /\ Call(c).op = "grep" => GrepWalk(c)
BatchTrue(c) ==
  /\ calls[c].step = Len(calls[c].parts) + 1 /\ calls[c].step <= Len(Call(c).actions)
  /\ PartsTrue(Call(c), calls[c].parts)
  /\ calls[c].pc = "walk" => WalkTrue(c)
CallTrue(c) ==
  /\ Busy(c) /\ Call(c).op \in BatchOp => BatchTrue(c)
  /\ calls[c].pc = "ready" => calls[c].found = <<>>
  /\ \A i \in 1 .. Len(calls[c].done) : ResultTrue(calls[c].done[i])
SearchInv == ClockTrue /\ \A c \in Caller : CallTrue(c)

LEMMA IdleMore ==
  Idle.step = 1 /\ Idle.parts = <<>> /\ Idle.found = <<>>
BY DEF Idle

LEMMA NothingTold == ASSUME NEW call \in CallType, call.op \in BatchOp
                     PROVE  PartsTrue(call, <<>>) /\ Len(<<>>) = 0 /\ 1 <= Len(call.actions)
<1>1. Len(call.actions) \in Nat \ {0}
  BY BatchFields
<1> QED BY <1>1, EmptySequence DEF PartsTrue

\* The files only get younger.
FilesAge ==
  /\ clock' \in Nat /\ clock <= clock'
  /\ \A p \in Path : files'[p].there =>
       \/ files[p].there /\ files'[p].time = files[p].time /\ files'[p].body = files[p].body
       \/ files'[p].time > clock
SameWork(c) ==
  /\ calls'[c].n = calls[c].n /\ calls'[c].pc = calls[c].pc /\ calls'[c].step = calls[c].step
  /\ calls'[c].parts = calls[c].parts /\ calls'[c].done = calls[c].done
  /\ calls'[c].listed = calls[c].listed /\ calls'[c].todo = calls[c].todo
  /\ calls'[c].found = calls[c].found

LEMMA StayTrue ==
  ASSUME ClockTrue, FilesAge, cast' = cast, NEW c \in Caller, SameWork(c), CallTrue(c)
  PROVE  CallTrue(c)'
<1>1. Call(c)' = Call(c) /\ Busy(c)' = Busy(c)
  BY DEF SameWork, Call, Busy
<1>2. PICK call : call = Call(c) /\ call = Call(c)'
  BY <1>1
<1>3. ASSUME Busy(c), call.op \in BatchOp PROVE BatchTrue(c)'
  <2>1. BatchTrue(c)
    BY <1>2, <1>3 DEF CallTrue
  <2>2. PartsTrue(call, calls'[c].parts)
    BY <1>2, <2>1 DEF BatchTrue, SameWork
  <2>3. ASSUME calls'[c].pc = "walk" PROVE WalkTrue(c)'
    <3>1. WalkTrue(c)
      BY <2>1, <2>3 DEF BatchTrue, SameWork
    <3>2. /\ Action(c)' = Action(c) /\ calls'[c].found = calls[c].found
          /\ calls'[c].listed = calls[c].listed /\ calls'[c].todo = calls[c].todo
      BY <1>2 DEF Action, SameWork
    <3>3. \A p \in DOMAIN calls[c].listed :
            p \in Path /\ calls[c].listed[p].time \in 0 .. clock
      BY <3>1 DEF WalkTrue
    <3>4. \A p \in DOMAIN calls[c].listed : calls[c].listed[p].time \in 0 .. clock'
      BY <3>3 DEF FilesAge, ClockTrue
    <3>5. call.op = "glob" => GlobWalk(c)'
      BY <1>2, <3>1, <3>2 DEF WalkTrue, GlobWalk
    <3>6. ASSUME call.op = "grep" PROVE GrepWalk(c)'
      <4>1. GrepWalk(c)
        BY <1>2, <3>1, <3>6 DEF WalkTrue
      <4>2. ASSUME NEW p \in DOMAIN calls[c].listed, AsListed(c, p)'
            PROVE  AsListed(c, p) /\ files'[p].body = files[p].body
        <5>1. /\ files'[p].there /\ files'[p].time = calls[c].listed[p].time /\ p \in Path
              /\ calls[c].listed[p].time <= clock /\ calls[c].listed[p].time \in Nat
          BY <3>2, <3>3, <4>2 DEF AsListed, ClockTrue
        <5> QED BY <5>1 DEF FilesAge, AsListed, ClockTrue
      <4> QED BY <3>2, <4>1, <4>2 DEF GrepWalk, Occurs
    <3> QED BY <1>2, <3>1, <3>2, <3>3, <3>4, <3>5, <3>6 DEF WalkTrue
  <2> QED BY <1>2, <2>1, <2>2, <2>3 DEF BatchTrue, SameWork
<1> QED BY <1>1, <1>2, <1>3 DEF CallTrue, SameWork

\* The call after this one is one of the plan.
LEMMA NextCall ==
  ASSUME PlayTyped, CallsTyped, cast' = cast, NEW c \in Caller, Busy(c),
         calls'[c].n = calls[c].n + 1, Busy(c)'
  PROVE  Call(c)' \in CallType
<1>1. calls[c].n \in 0 .. Len(cast.plan[c]) /\ calls'[c].n < Len(cast.plan[c])
  BY DEF CallsTyped, CallOk, Busy
<1>2. /\ Len(cast.plan[c]) \in Nat
      /\ \A i \in 1 .. Len(cast.plan[c]) : cast.plan[c][i] \in CallType
  BY PlanTyped DEF PlayTyped
<1>3. calls'[c].n + 1 \in 1 .. Len(cast.plan[c])
  BY <1>1, <1>2
<1> QED BY <1>2, <1>3 DEF Call

LEMMA ReturnTrue ==
  ASSUME CallsTyped, PlayTyped, cast' = cast, NEW c \in Caller, Busy(c), CallTrue(c),
         NEW r, ResultTrue(r),
         calls'[c] = [Idle EXCEPT !.n = calls[c].n + 1, !.done = Append(calls[c].done, r)]
  PROVE  CallTrue(c)'
<1>1. PICK new : new = [Idle EXCEPT !.n = calls[c].n + 1, !.done = Append(calls[c].done, r)]
  OBVIOUS
<1>2. calls'[c] = new
  BY <1>1 DEF CallsTyped
<1>3. /\ new.n = calls[c].n + 1 /\ new.done = Append(calls[c].done, r) /\ new.pc = "ready"
      /\ new.step = 1 /\ new.parts = <<>> /\ new.found = <<>>
  BY <1>1, IdleFields, IdleMore
<1>4. ASSUME Busy(c)', Call(c)'.op \in BatchOp PROVE BatchTrue(c)'
  <2>1. Call(c)' \in CallType
    BY <1>2, <1>3, <1>4, NextCall
  <2>2. PICK call : call = Call(c)'
    OBVIOUS
  <2>3. PartsTrue(call, <<>>) /\ Len(<<>>) = 0 /\ 1 <= Len(call.actions)
    BY <1>4, <2>1, <2>2, NothingTold
  <2>4. PICK none : none = <<>> /\ PartsTrue(call, none) /\ Len(none) = 0
    BY <2>3
  <2>5. calls'[c].parts = none /\ calls'[c].step = 1 /\ calls'[c].pc = "ready"
    BY <1>2, <1>3, <2>4
  <2> QED BY <2>2, <2>3, <2>4, <2>5 DEF BatchTrue
<1>5. \A i \in 1 .. Len(new.done) : ResultTrue(new.done[i])
  <2>1. IsSequence(calls[c].done)
    BY DEF CallsTyped, CallOk
  <2>2. /\ Len(calls[c].done) \in Nat /\ Len(new.done) = Len(calls[c].done) + 1
        /\ \A i \in 1 .. Len(calls[c].done) : new.done[i] = calls[c].done[i]
        /\ new.done[Len(calls[c].done) + 1] = r
    BY <1>3, <2>1, AppendSequence
  <2>3. \A i \in 1 .. Len(calls[c].done) : ResultTrue(calls[c].done[i])
    BY DEF CallTrue
  <2> QED BY <2>2, <2>3
<1> QED BY <1>2, <1>3, <1>4, <1>5 DEF CallTrue

\* A call goes on: it keeps what it told.
LEMMA WorkTrue ==
  ASSUME cast' = cast, NEW c \in Caller, CallTrue(c),
         calls'[c].n = calls[c].n, calls'[c].done = calls[c].done, calls'[c].pc # "ready",
         calls'[c].step = calls[c].step, calls'[c].parts = calls[c].parts,
         Busy(c) /\ Call(c).op \in BatchOp /\ calls'[c].pc = "walk" => WalkTrue(c)'
  PROVE  CallTrue(c)'
<1>1. Call(c)' = Call(c) /\ Busy(c)' = Busy(c)
  BY DEF Call, Busy
<1>2. PICK call : call = Call(c) /\ call = Call(c)'
  BY <1>1
<1> QED BY <1>1, <1>2 DEF CallTrue, BatchTrue

LEMMA AdvanceTrue ==
  ASSUME CallsTyped, PlayTyped, cast' = cast, NEW c \in Caller, Busy(c), CallTrue(c),
         Call(c).op \in BatchOp,
         NEW part, PartTrue(Call(c), calls[c].step, part), Advance(c, part)
  PROVE  CallTrue(c)'
<1>1. PICK call \in CallType : call = Call(c)
  BY BusyCall
<1>2. PICK parts : parts = Append(calls[c].parts, part)
  OBVIOUS
<1>3. /\ BatchTrue(c) /\ Len(call.actions) \in Nat
  BY <1>1, BatchFields DEF CallTrue
<1>4. PICK told : told = calls[c].parts /\ IsSequence(told)
  BY <1>3 DEF BatchTrue, PartsTrue
<1>5. /\ IsSequence(parts) /\ Len(told) \in Nat /\ Len(parts) = Len(told) + 1
      /\ \A i \in 1 .. Len(told) : parts[i] = told[i]
      /\ parts[Len(told) + 1] = part
  BY <1>2, <1>4, AppendSequence
<1>6. calls[c].step = Len(told) + 1 /\ calls[c].step <= Len(call.actions)
  BY <1>1, <1>3, <1>4 DEF BatchTrue
<1>7. PartsTrue(call, parts)
  <2>1. \A i \in 1 .. Len(told) : PartTrue(call, i, told[i])
    BY <1>1, <1>3, <1>4 DEF BatchTrue, PartsTrue
  <2>2. PartTrue(call, Len(told) + 1, part)
    BY <1>1, <1>6
  <2>3. ASSUME NEW i \in 1 .. Len(parts) PROVE PartTrue(call, i, parts[i])
    <3>1. i \in 1 .. Len(told) \/ i = Len(told) + 1
      BY <1>5
    <3> QED BY <1>5, <2>1, <2>2, <3>1
  <2> QED BY <1>3, <1>5, <1>6, <2>3 DEF PartsTrue
<1>8. CASE calls[c].step = Len(call.actions)
  <2>1. PICK r : r = [call |-> call, ok |-> TRUE, parts |-> parts]
    OBVIOUS
  <2>2. ResultTrue(r)
    BY <1>5, <1>6, <1>7, <1>8, <2>1 DEF ResultTrue
  <2>3. calls'[c] = [Idle EXCEPT !.n = calls[c].n + 1, !.done = Append(calls[c].done, r)]
    BY <1>1, <1>2, <1>8, <2>1 DEF Advance, Return, Step, CallsTyped
  <2> QED BY <2>2, <2>3, ReturnTrue
<1>9. CASE calls[c].step # Len(call.actions)
  <2>1. PICK new : new = [Idle EXCEPT !.n = calls[c].n, !.done = calls[c].done,
                            !.step = calls[c].step + 1, !.parts = parts]
    OBVIOUS
  <2>2. calls'[c] = new
    BY <1>1, <1>2, <1>9, <2>1 DEF Advance, Step, CallsTyped
  <2>3. /\ new.n = calls[c].n /\ new.done = calls[c].done /\ new.pc = "ready"
        /\ new.step = calls[c].step + 1 /\ new.parts = parts /\ new.found = <<>>
    BY <2>1, IdleFields, IdleMore
  <2>4. Call(c)' = call
    BY <1>1, <2>2, <2>3 DEF Call
  <2>5. BatchTrue(c)'
    <3>1. new.step = Len(new.parts) + 1 /\ new.step <= Len(call.actions)
      BY <1>3, <1>5, <1>6, <1>9, <2>3
    <3> QED BY <1>7, <2>2, <2>3, <2>4, <3>1 DEF BatchTrue
  <2> QED BY <2>2, <2>3, <2>5 DEF CallTrue
<1> QED BY <1>8, <1>9

-----------------------------------------------------------------------------
(* Sorting by rank                                                         *)

Strict(R, S) ==
  /\ \A a \in S : <<a, a>> \notin R
  /\ \A a, b \in S : a = b \/ <<a, b>> \in R \/ <<b, a>> \in R
  /\ \A a, b, c \in S : <<a, b>> \in R /\ <<b, c>> \in R => <<a, c>> \in R
Ahead(R, S, e) == {o \in S : <<o, e>> \in R}
RankIn(R, S, e) == Cardinality(Ahead(R, S, e))

\* In a finite set with a strict order, every rank is taken, by one element.
Ranked(R, S) ==
  /\ Cardinality(S) \in Nat
  /\ \A a \in S : RankIn(R, S, a) \in 0 .. Cardinality(S) - 1
  /\ \A a, b \in S : <<a, b>> \in R <=> RankIn(R, S, a) < RankIn(R, S, b)
  /\ \A k \in 0 .. Cardinality(S) - 1 : \E a \in S : RankIn(R, S, a) = k
LEMMA Ranks == ASSUME NEW S, IsFiniteSet(S), NEW R, Strict(R, S) PROVE Ranked(R, S)
<1> DEFINE n == Cardinality(S)
           f == [a \in S |-> RankIn(R, S, a)]
<1>1. n \in Nat
  BY FS_CardinalityType
<1>2. ASSUME NEW a \in S
      PROVE  /\ IsFiniteSet(Ahead(R, S, a)) /\ RankIn(R, S, a) \in 0 .. n - 1
  <2>1. Ahead(R, S, a) \in SUBSET S /\ a \notin Ahead(R, S, a)
    BY DEF Ahead, Strict
  <2>2. /\ IsFiniteSet(Ahead(R, S, a)) /\ Cardinality(Ahead(R, S, a)) <= n
        /\ Cardinality(Ahead(R, S, a)) # n
    BY <2>1, FS_Subset
  <2>3. Cardinality(Ahead(R, S, a)) \in Nat
    BY <2>2, FS_CardinalityType
  <2> HIDE DEF n
  <2> QED BY <1>1, <2>2, <2>3 DEF RankIn
<1>3. ASSUME NEW a \in S, NEW b \in S, <<a, b>> \in R
      PROVE  RankIn(R, S, a) < RankIn(R, S, b)
  <2>1. /\ Ahead(R, S, a) \in SUBSET Ahead(R, S, b)
        /\ a \in Ahead(R, S, b) /\ a \notin Ahead(R, S, a)
    BY <1>3 DEF Ahead, Strict
  <2>2. /\ Cardinality(Ahead(R, S, a)) <= Cardinality(Ahead(R, S, b))
        /\ Cardinality(Ahead(R, S, a)) # Cardinality(Ahead(R, S, b))
    BY <1>2, <2>1, FS_Subset
  <2> QED BY <1>1, <1>2, <2>2 DEF RankIn
<1>4. ASSUME NEW a \in S, NEW b \in S, RankIn(R, S, a) < RankIn(R, S, b)
      PROVE  <<a, b>> \in R
  <2>1. RankIn(R, S, a) \in Int /\ RankIn(R, S, b) \in Int
    BY <1>2
  <2>2. a # b /\ <<b, a>> \notin R
    BY <1>3, <1>4, <2>1
  <2> QED BY <2>2 DEF Strict
<1>5. \A a, b \in S : RankIn(R, S, a) = RankIn(R, S, b) => a = b
  <2> SUFFICES ASSUME NEW a \in S, NEW b \in S, RankIn(R, S, a) = RankIn(R, S, b) PROVE a = b
    OBVIOUS
  <2>1. RankIn(R, S, a) \in Int /\ <<a, b>> \notin R /\ <<b, a>> \notin R
    BY <1>2, <1>3
  <2> QED BY <2>1 DEF Strict
<1>6. f \in Injection(S, 0 .. n - 1)
  <2>1. f \in [S -> 0 .. n - 1] /\ \A a, b \in S : f[a] = f[b] => a = b
    BY <1>2, <1>5
  <2> HIDE DEF f, n
  <2> QED BY <2>1 DEF Injection, IsInjective
<1>7. IsFiniteSet(0 .. n - 1) /\ Cardinality(0 .. n - 1) = n
  <2>1. 0 \in Int /\ n - 1 \in Int
    BY <1>1
  <2>2. IsFiniteSet(0 .. n - 1) /\ Cardinality(0 .. n - 1) = IF 0 > n - 1 THEN 0 ELSE n - 1 - 0 + 1
    BY <2>1, FS_Interval
  <2> QED BY <1>1, <2>2
<1>8. f \in Surjection(S, 0 .. n - 1)
  BY <1>6, <1>7, FS_Injection
<1>9. \A k \in 0 .. n - 1 : \E a \in S : RankIn(R, S, a) = k
  BY <1>8 DEF Surjection
<1> QED BY <1>1, <1>2, <1>3, <1>4, <1>9 DEF Ranked

\* Names that were found once each are sorted: each is there, the newest first.
LEMMA NewestFirstTrue ==
  ASSUME NEW found \in Seq(Nat \X Path),
         \A i, j \in DOMAIN found : found[i][2] = found[j][2] => i = j
  PROVE  /\ Names(found) \subseteq Names(NewestFirst(found))
         /\ \A j, k \in DOMAIN NewestFirst(found) :
              j < k => Before(NewestFirst(found)[j], NewestFirst(found)[k])
<1>1. Len(found) \in Nat /\ DOMAIN found = 1 .. Len(found)
      /\ \A i \in 1 .. Len(found) : found[i] \in Nat \X Path
  BY LenProperties, ElementOfSeq
<1>2. PICK S : S = ToSet(found)
  OBVIOUS
<1>3. S = {found[i] : i \in 1 .. Len(found)} /\ S \subseteq Nat \X Nat
  <2>1. S = {found[i] : i \in 1 .. Len(found)}
    BY <1>1, <1>2 DEF ToSet
  <2>2. Nat \X Path \subseteq Nat \X Nat
    BY WorkspaceAssumption
  <2> QED BY <1>1, <2>1, <2>2
<1>4. IsFiniteSet(S) /\ Cardinality(S) = Len(found)
  <2>1. found \in [1 .. Len(found) -> S]
    BY <1>1, <1>3
  <2>2. found \in Bijection(1 .. Len(found), S)
    BY <1>1, <1>3, <2>1 DEF Bijection, Injection, Surjection, IsInjective
  <2>3. ExistsBijection(1 .. Len(found), S)
    BY <2>2 DEF ExistsBijection
  <2> QED BY <1>1, <2>3, FS_CountingElements, FS_NatBijection
<1>5. PICK R : R = {x \in S \X S : Before(x[1], x[2])}
  OBVIOUS
<1>6. \A a, b \in S : <<a, b>> \in R <=> Before(a, b)
  BY <1>5
<1>7. Strict(R, S)
  <2>1. ASSUME NEW a \in S, NEW b \in S, NEW c \in S
        PROVE  /\ ~Before(a, a)
               /\ a = b \/ Before(a, b) \/ Before(b, a)
               /\ Before(a, b) /\ Before(b, c) => Before(a, c)
    <3>1. /\ a = <<a[1], a[2]>> /\ b = <<b[1], b[2]>>
          /\ a[1] \in Nat /\ a[2] \in Nat /\ b[1] \in Nat /\ b[2] \in Nat
          /\ c[1] \in Nat /\ c[2] \in Nat
      BY <1>3
    <3>2. a = b \/ Before(a, b) \/ Before(b, a)
      <4>1. a[1] = b[1] /\ a[2] = b[2] => a = b
        BY <3>1
      <4> QED BY <3>1, <4>1 DEF Before
    <3> QED BY <3>1, <3>2 DEF Before
  <2> QED BY <1>6, <2>1 DEF Strict
<1>8. /\ \A a, b \in S : <<a, b>> \in R <=> RankIn(R, S, a) < RankIn(R, S, b)
      /\ \A a \in S : RankIn(R, S, a) \in 0 .. Len(found) - 1
      /\ \A k \in 0 .. Len(found) - 1 : \E a \in S : RankIn(R, S, a) = k
  <2>1. Ranked(R, S)
    BY <1>4, <1>7, Ranks
  <2>2. PICK n : n = Cardinality(S) /\ n = Len(found)
    BY <1>4
  <2> QED BY <2>1, <2>2 DEF Ranked
<1>9. PICK sorted : sorted = NewestFirst(found)
  OBVIOUS
<1>10. \A e \in S : {o \in S : Before(o, e)} = Ahead(R, S, e)
  BY <1>6 DEF Ahead
<1>11. /\ DOMAIN sorted = 1 .. Len(found)
       /\ \A i \in 1 .. Len(found) :
            sorted[i] = CHOOSE e \in S : Cardinality({o \in S : Before(o, e)}) = i - 1
  BY <1>1, <1>2, <1>9 DEF NewestFirst
<1>12. ASSUME NEW i \in 1 .. Len(found)
       PROVE  sorted[i] \in S /\ RankIn(R, S, sorted[i]) = i - 1
  <2>1. i - 1 \in 0 .. Len(found) - 1
    BY <1>1
  <2>2. PICK a \in S : RankIn(R, S, a) = i - 1
    BY <1>8, <2>1
  <2>3. Cardinality({o \in S : Before(o, a)}) = i - 1
    BY <1>10, <2>2 DEF RankIn
  <2>4. sorted[i] \in S /\ Cardinality({o \in S : Before(o, sorted[i])}) = i - 1
    BY <1>11, <2>3
  <2> QED BY <1>10, <2>4 DEF RankIn
<1>13. ASSUME NEW j \in 1 .. Len(found), NEW k \in 1 .. Len(found), j < k
       PROVE  Before(sorted[j], sorted[k])
  <2>1. RankIn(R, S, sorted[j]) < RankIn(R, S, sorted[k])
    BY <1>12, <1>13
  <2> QED BY <1>6, <1>8, <1>12, <2>1
<1>14. ASSUME NEW i \in 1 .. Len(found)
       PROVE  \E j \in 1 .. Len(found) : sorted[j] = found[i]
  <2>1. PICK a \in S : a = found[i]
    BY <1>3
  <2>2. PICK j : j = RankIn(R, S, a) + 1
    OBVIOUS
  <2>3. j \in 1 .. Len(found) /\ RankIn(R, S, a) = j - 1
    BY <1>1, <1>8, <2>2
  <2>4. sorted[j] \in S /\ RankIn(R, S, sorted[j]) = RankIn(R, S, a)
    BY <1>12, <2>3
  <2>5. sorted[j] = a
    <3>1. RankIn(R, S, a) \in Int
      BY <1>8
    <3>2. <<a, sorted[j]>> \notin R /\ <<sorted[j], a>> \notin R
      BY <1>8, <2>4, <3>1
    <3> QED BY <1>7, <2>4, <3>2 DEF Strict
  <2> QED BY <2>1, <2>3, <2>5
<1>15. Names(found) \subseteq Names(sorted)
  <2> SUFFICES ASSUME NEW i \in 1 .. Len(found)
               PROVE  found[i][2] \in Names(sorted)
    BY <1>1 DEF Names
  <2>1. PICK j \in 1 .. Len(found) : sorted[j] = found[i]
    BY <1>14
  <2> QED BY <1>11, <2>1 DEF Names
<1> QED BY <1>9, <1>11, <1>13, <1>15

-----------------------------------------------------------------------------
(* Time                                                                    *)

LEMMA UntouchedAge ==
  ASSUME ClockTrue, UNCHANGED files, clock' \in {clock, clock + 1}
  PROVE  FilesAge /\ ClockTrue'
<1>1. clock' \in Nat /\ clock <= clock'
  BY DEF ClockTrue
<1> QED BY <1>1 DEF FilesAge, ClockTrue

LEMMA TouchedAge ==
  ASSUME ClockTrue, DOMAIN files = Path, NEW p \in Path, NEW f,
         f.time \in 0 .. clock + 1, f.there => f.time = clock + 1,
         files' = [files EXCEPT ![p] = f], clock' = clock + 1
  PROVE  FilesAge /\ ClockTrue'
<1>1. clock' \in Nat /\ clock <= clock' /\ clock \in Nat /\ clock + 1 > clock
  BY DEF ClockTrue
<1>2. \A q \in Path : files'[q] = IF q = p THEN f ELSE files[q]
  OBVIOUS
<1>3. \A q \in Path : files'[q].time \in 0 .. clock'
  BY <1>1, <1>2 DEF ClockTrue
<1> QED BY <1>1, <1>2, <1>3 DEF FilesAge, ClockTrue

LEMMA ToolAge ==
  ASSUME FilesTyped, CallsTyped, PlayTyped, EditsInv, ClockTrue, NEW c \in Caller, ToolStep(c)
  PROVE  FilesAge /\ ClockTrue'
<1>1. \/ UNCHANGED <<files, clock>> \/ OpenFile(c) \/ FillFile(c) \/ RemoveFile(c)
  BY DEF ToolStep, EditReads, WriteChecks, EditRefuses, TooLateToWrite, FillFails, ReadFails,
     GlobLosesFile, GlobLate, ReadPage, GlobLists, GlobVisits, GlobEnds, GrepStarts, GrepScans,
     GrepDoesNotStart, GrepEnds, GrepKilled
<1>2. clock \in Nat /\ clock + 1 \in 0 .. clock + 1
  BY DEF ClockTrue
<1>3. ASSUME calls[c].pc \in {"chosen", "open"}, Busy(c) PROVE Call(c).path \in Path
  <2>1. Call(c).op \in {"edit", "write"} /\ Call(c) \in CallType
    BY <1>3, BusyCall DEF EditsInv, WriterTrue, Writes
  <2> QED BY <2>1, CallFields
<1>4. CASE UNCHANGED <<files, clock>>
  BY <1>4, UntouchedAge
<1>5. CASE OpenFile(c)
  <2>1. PICK p \in Path : p = Call(c).path
    BY <1>3, <1>5 DEF OpenFile
  <2>2. PICK f : f = Opened(p)
    OBVIOUS
  <2>3. f.time = clock + 1
    BY <2>2 DEF Opened
  <2>4. files' = [files EXCEPT ![p] = f] /\ clock' = clock + 1
    BY <1>5, <2>1, <2>2 DEF OpenFile
  <2> QED BY <1>2, <2>3, <2>4, TouchedAge DEF FilesTyped
<1>6. CASE FillFile(c)
  <2>1. PICK p \in Path : p = Call(c).path
    BY <1>3, <1>6 DEF FillFile
  <2>2. CASE ~StillOpen(c)
    BY <1>6, <2>2, UntouchedAge DEF FillFile
  <2>3. CASE StillOpen(c)
    <3>1. PICK f : f = [files[p] EXCEPT !.body = Over(calls[c].next, files[p].body),
                                        !.time = clock + 1]
      OBVIOUS
    <3>2. f.time = clock + 1
      BY <3>1 DEF FilesTyped, FileOk
    <3>3. files' = [files EXCEPT ![p] = f] /\ clock' = clock + 1
      BY <1>6, <2>1, <2>3, <3>1 DEF FillFile, FilesTyped
    <3> QED BY <1>2, <3>2, <3>3, TouchedAge DEF FilesTyped
  <2> QED BY <2>2, <2>3
<1>7. CASE RemoveFile(c)
  <2>1. PICK p \in Path : p = Call(c).path
    <3>1. Call(c).op = "remove" /\ Call(c) \in CallType
      BY <1>7, BusyCall DEF RemoveFile, At
    <3> QED BY <3>1, CallFields
  <2>2. PICK f : f = [files[p] EXCEPT !.there = FALSE, !.body = <<>>]
    OBVIOUS
  <2>3. ~f.there /\ f.time = files[p].time
    BY <2>2 DEF FilesTyped, FileOk
  <2>4. f.time \in 0 .. clock + 1
    <3>1. files[p].time \in 0 .. clock
      BY DEF ClockTrue
    <3> QED BY <1>2, <2>3, <3>1
  <2>5. files' = [files EXCEPT ![p] = f] /\ clock' = clock + 1
    BY <1>7, <2>1, <2>2 DEF RemoveFile, FilesTyped
  <2> QED BY <2>3, <2>4, <2>5, TouchedAge DEF FilesTyped
<1> QED BY <1>1, <1>4, <1>5, <1>6, <1>7

LEMMA DownloadAge ==
  ASSUME TypeInv, ClockTrue, NEW m \in Message, Download(m)
  PROVE  FilesAge /\ ClockTrue'
<1>1. HandlerOk(inbox[m]) /\ HasNextFile(m) /\ cast \in Casts
  BY DEF TypeInv, InboxTyped, PlayTyped, Download
<1>2. NextFile(m) \in FileType
  BY <1>1, NextFileIsSent
<1>3. PICK p \in Path : p = NextFile(m).path
  BY <1>2 DEF FileType
<1>4. PICK f : f = Renamed(p, Copied(NextFile(m).body))
  OBVIOUS
<1>5. f.time = clock + 1 /\ f.time \in 0 .. clock + 1
  BY <1>4 DEF Renamed, ClockTrue
<1>6. files' = [files EXCEPT ![p] = f] /\ DOMAIN files = Path /\ clock' = clock + 1
  BY <1>3, <1>4 DEF Download, TypeInv, FilesTyped
<1> QED BY <1>5, <1>6, TouchedAge

-----------------------------------------------------------------------------
(* Each tool tells the truth                                               *)

Stands ==
  /\ CallsTyped /\ PlayTyped /\ EditsInv /\ ClockTrue /\ cast' = cast
  /\ \A c \in Caller : CallTrue(c)

\* A call that fails tells nothing but, if it is a glob, what was true before.
LEMMA FailedTrue ==
  ASSUME Stands, NEW c \in Caller, Busy(c), NEW parts, Return(c, FALSE, parts),
         Call(c).op = "glob" => PartsTrue(Call(c), parts)
  PROVE  CallTrue(c)'
<1>1. PICK r : r = [call |-> Call(c), ok |-> FALSE, parts |-> parts]
  OBVIOUS
<1>2. ResultTrue(r)
  BY <1>1, BusyCall DEF Stands, ResultTrue
<1>3. calls'[c] = [Idle EXCEPT !.n = calls[c].n + 1, !.done = Append(calls[c].done, r)]
  BY <1>1 DEF Return, Step, Stands, CallsTyped
<1> QED BY <1>2, <1>3, ReturnTrue DEF Stands

LEMMA AbortTrue ==
  ASSUME Stands, NEW c \in Caller, Busy(c), Abort(c)
  PROVE  CallTrue(c)'
<1>1. Call(c).op = "glob" => PartsTrue(Call(c), calls[c].parts)
  BY DEF Stands, CallTrue, BatchTrue, BatchOp
<1> QED BY <1>1, FailedTrue DEF Abort

LEMMA PlainTrue ==
  ASSUME Stands, NEW c \in Caller, Busy(c), NEW ok, NEW parts, Return(c, ok, parts),
         Call(c).op \notin BatchOp
  PROVE  CallTrue(c)'
<1>1. PICK r : r = [call |-> Call(c), ok |-> ok, parts |-> parts]
  OBVIOUS
<1>2. ResultTrue(r)
  BY <1>1, BusyCall DEF Stands, ResultTrue
<1>3. calls'[c] = [Idle EXCEPT !.n = calls[c].n + 1, !.done = Append(calls[c].done, r)]
  BY <1>1 DEF Return, Step, Stands, CallsTyped
<1> QED BY <1>2, <1>3, ReturnTrue DEF Stands

LEMMA WritersTrue ==
  ASSUME Stands, NEW c \in Caller,
         \/ EditReads(c) \/ EditRefuses(c) \/ WriteChecks(c) \/ TooLateToWrite(c)
         \/ OpenFile(c) \/ FillFile(c) \/ FillFails(c) \/ RemoveFile(c)
  PROVE  CallTrue(c)'
<1>1. Writes(c) => Call(c).op \notin BatchOp
  BY DEF Stands, EditsInv, WriterTrue, BatchOp
<1>2. CallTrue(c) /\ cast' = cast /\ DOMAIN calls = Caller /\ DOMAIN calls[c] = DOMAIN Idle
  BY DEF Stands, EditsInv, Shaped, CallsTyped
<1>3. CASE EditReads(c) \/ WriteChecks(c)
  <2>1. PICK p, body : Choose(c, p, body)
    BY <1>3 DEF EditReads, WriteChecks
  <2>2. Call(c).op \notin BatchOp
    BY <1>3 DEF EditReads, WriteChecks, At, BatchOp
  <2>3. PICK new : new = [calls[c] EXCEPT !.pc = "chosen", !.next = body,
                                          !.alone = \A x \in Caller \ {c} : ~Touches(x, p)]
    OBVIOUS
  <2>4. calls'[c] = new
    BY <2>1, <2>3 DEF Choose
  <2>5. /\ new.n = calls[c].n /\ new.done = calls[c].done /\ new.pc = "chosen"
        /\ new.step = calls[c].step /\ new.parts = calls[c].parts
    BY <1>2, <2>3, IdleFields
  <2> QED BY <1>2, <2>2, <2>4, <2>5, WorkTrue
<1>4. CASE EditRefuses(c) \/ TooLateToWrite(c) \/ FillFails(c)
  <2>1. Busy(c) /\ Abort(c)
    BY <1>4 DEF EditRefuses, TooLateToWrite, FillFails, At
  <2> QED BY <2>1, AbortTrue
<1>5. CASE OpenFile(c)
  <2>1. PICK new : new = [calls[c] EXCEPT !.pc = "open", !.inode = files'[Call(c).path].gen]
    OBVIOUS
  <2>2. calls'[c] = new /\ Writes(c)
    BY <1>2, <1>5, <2>1 DEF OpenFile, Step, Writes
  <2>3. /\ new.n = calls[c].n /\ new.done = calls[c].done /\ new.pc = "open"
        /\ new.step = calls[c].step /\ new.parts = calls[c].parts
    BY <1>2, <2>1, IdleFields
  <2> QED BY <1>1, <1>2, <2>2, <2>3, WorkTrue
<1>6. CASE FillFile(c) \/ RemoveFile(c)
  <2>1. Busy(c) /\ Return(c, TRUE, <<>>) /\ Call(c).op \notin BatchOp
    BY <1>1, <1>6 DEF FillFile, RemoveFile, At, Writes, BatchOp
  <2> QED BY <2>1, PlainTrue
<1> QED BY <1>3, <1>4, <1>5, <1>6

LEMMA ReadsTrue ==
  ASSUME Stands, NEW c \in Caller, ReadPage(c) \/ ReadFails(c)
  PROVE  CallTrue(c)'
<1>1. CASE ReadFails(c)
  BY <1>1, AbortTrue DEF ReadFails, At
<1>2. CASE ReadPage(c)
  <2>1. PICK call \in CallType : call = Call(c) /\ call.op = "read"
    BY <1>2, BusyCall DEF Stands, ReadPage, At
  <2>2. PICK a : a = call.actions[calls[c].step] /\ a = Action(c)
    BY <2>1 DEF Action
  <2>3. a.path \in Path
    <3>1. BatchTrue(c)
      BY <1>2, <2>1 DEF Stands, CallTrue, ReadPage, At, BatchOp
    <3>2. calls[c].step \in 1 .. Len(call.actions)
      <4>1. Len(calls[c].parts) \in Nat
        <5>1. IsSequence(calls[c].parts)
          BY <3>1 DEF BatchTrue, PartsTrue
        <5> QED BY <5>1, AppendSequence
      <4>2. Len(call.actions) \in Nat
        BY <2>1, BatchFields DEF BatchOp
      <4> QED BY <2>1, <3>1, <4>1, <4>2 DEF BatchTrue
    <3>3. a \in [path : Path, offset : Nat, limit : Nat]
      <4>1. \A i \in 1 .. Len(call.actions) :
              call.actions[i] \in [path : Path, offset : Nat, limit : Nat]
        BY <2>1, BatchFields DEF BatchOp
      <4> QED BY <2>2, <3>2, <4>1
    <3> QED BY <3>3
  <2>4. PICK part : part = [seen |-> BodyNow(a.path),
                            lines |-> Window(BodyNow(a.path), a.offset, LimitOf(a)),
                            truncated |-> a.offset + LimitOf(a) < Len(BodyNow(a.path))]
    OBVIOUS
  <2>5. ReadTrue(a, part)
    <3>1. BodyNow(a.path) \in Seq(STRING)
      BY <2>3 DEF Stands, EditsInv, ContentTyped, BodyNow
    <3> QED BY <2>4, <3>1 DEF ReadTrue
  <2>6. PartTrue(call, calls[c].step, part)
    BY <2>1, <2>2, <2>5 DEF PartTrue
  <2>7. Advance(c, part) /\ Busy(c)
    BY <1>2, <2>2, <2>4 DEF ReadPage, At
  <2> QED BY <2>1, <2>6, <2>7, AdvanceTrue DEF Stands, BatchOp
<1> QED BY <1>1, <1>2

LEMMA ActionTyped ==
  ASSUME Stands, NEW c \in Caller, Busy(c), Call(c).op \in BatchOp
  PROVE  /\ BatchTrue(c) /\ DOMAIN calls = Caller /\ DOMAIN calls[c] = DOMAIN Idle
         /\ Call(c).op = "grep" =>
              Action(c) \in [line : STRING, root : SUBSET Path, offset : Nat,
                             head : Nat \union {-1}, mode : OutputMode]
<1>1. PICK call \in CallType : call = Call(c) /\ call.op \in BatchOp
  BY BusyCall DEF Stands
<1>2. BatchTrue(c)
  BY DEF Stands, CallTrue
<1>3. Len(calls[c].parts) \in Nat
  <2>1. IsSequence(calls[c].parts)
    BY <1>2 DEF BatchTrue, PartsTrue
  <2> QED BY <2>1, AppendSequence
<1>4. Len(call.actions) \in Nat
  BY <1>1, BatchFields
<1>5. calls[c].step \in 1 .. Len(call.actions)
  BY <1>1, <1>2, <1>3, <1>4 DEF BatchTrue
<1>6. call.op = "grep" =>
        call.actions[calls[c].step] \in [line : STRING, root : SUBSET Path, offset : Nat,
                                         head : Nat \union {-1}, mode : OutputMode]
  BY <1>1, <1>5, BatchFields
<1> QED BY <1>1, <1>2, <1>6 DEF Action, Stands, CallsTyped, EditsInv, Shaped

LEMMA ListingTrue ==
  ASSUME ClockTrue
  PROVE  DOMAIN Listing = Present /\ Present \subseteq Path
         /\ \A p \in Present : Listing[p].time = files[p].time /\ files[p].time \in 0 .. clock
BY DEF Listing, Present, ClockTrue

\* A search that goes on: what it asks, and what it does not change.
LEMMA WalkOn ==
  ASSUME Stands, NEW c \in Caller, Busy(c), Call(c).op \in BatchOp, clock' = clock,
         NEW new, Step(c, new), new.n = calls[c].n, new.done = calls[c].done, new.pc = "walk",
         new.step = calls[c].step, new.parts = calls[c].parts,
         \A p \in DOMAIN new.listed : p \in Path /\ new.listed[p].time \in 0 .. clock,
         new.todo \subseteq Path,
         Call(c).op = "glob" => GlobWalk(c)', Call(c).op = "grep" => GrepWalk(c)'
  PROVE  CallTrue(c)'
<1>1. calls'[c] = new /\ CallTrue(c) /\ cast' = cast
  BY DEF Stands, CallsTyped, Step
<1>2. PICK call : call = Call(c) /\ call = Call(c)'
  BY <1>1 DEF Call
<1>3. WalkTrue(c)'
  BY <1>1, <1>2 DEF WalkTrue
<1> QED BY <1>1, <1>3, WorkTrue

LEMMA GlobsTrue ==
  ASSUME Stands, NEW c \in Caller,
         GlobLists(c) \/ GlobVisits(c) \/ GlobLosesFile(c) \/ GlobLate(c) \/ GlobEnds(c)
  PROVE  CallTrue(c)'
<1>1. PICK call \in CallType : call = Call(c) /\ call.op = "glob" /\ Busy(c)
  BY BusyCall DEF Stands, GlobLists, GlobVisits, GlobLosesFile, GlobLate, GlobEnds, At
<1>2. /\ BatchTrue(c) /\ DOMAIN calls = Caller /\ DOMAIN calls[c] = DOMAIN Idle
      /\ CallTrue(c) /\ cast' = cast /\ ClockTrue
  BY <1>1, ActionTyped DEF Stands, BatchOp
<1>3. ASSUME NEW new, Step(c, new), new.n = calls[c].n, new.step = calls[c].step
      PROVE  calls'[c] = new /\ Call(c)' = call /\ Action(c)' = Action(c)
  BY <1>1, <1>2, <1>3 DEF Step, Call, Action
<1>4. CASE GlobLosesFile(c) \/ GlobLate(c)
  BY <1>4, AbortTrue DEF GlobLosesFile, GlobLate, At
<1>5. CASE GlobLists(c)
  <2>1. PICK new : new = [calls[c] EXCEPT !.pc = "walk", !.listed = Listing,
                                          !.todo = Present \intersect Action(c)]
    OBVIOUS
  <2>2. /\ Step(c, new) /\ calls[c].found = <<>> /\ clock' = clock
    BY <1>2, <1>5, <2>1 DEF GlobLists, At, CallTrue
  <2>3. /\ new.n = calls[c].n /\ new.done = calls[c].done /\ new.pc = "walk"
        /\ new.step = calls[c].step /\ new.parts = calls[c].parts
        /\ new.listed = Listing /\ new.todo = Present \intersect Action(c)
        /\ new.found = calls[c].found
    BY <1>2, <2>1, IdleFields
  <2>4. calls'[c] = new /\ Call(c)' = call /\ Action(c)' = Action(c)
    BY <1>3, <2>2, <2>3
  <2>5. PICK act : act = Action(c) /\ act = Action(c)'
    BY <2>4
  <2>6. PICK none : none = <<>> /\ none \in Seq(Nat \X Path) /\ DOMAIN none = {}
    <3>1. <<>> \in Seq(Nat \X Path) /\ DOMAIN <<>> = {}
      BY EmptySeq
    <3> QED BY <3>1
  <2>7. GlobWalk(c)'
    BY <2>2, <2>3, <2>4, <2>5, <2>6, <1>2, ListingTrue DEF GlobWalk, Names
  <2>8. /\ \A p \in DOMAIN new.listed : p \in Path /\ new.listed[p].time \in 0 .. clock
        /\ new.todo \subseteq Path
    BY <1>2, <2>3, ListingTrue
  <2> QED BY <1>1, <2>2, <2>3, <2>7, <2>8, WalkOn DEF BatchOp
<1>6. CASE GlobVisits(c)
  <2>0. WalkTrue(c) /\ GlobWalk(c) /\ calls[c].todo \subseteq Path /\ calls[c].todo # {}
    BY <1>1, <1>2, <1>6 DEF GlobVisits, At, BatchTrue, WalkTrue
  <2>1. PICK p \in calls[c].todo : p = Min(calls[c].todo)
    <3>1. calls[c].todo \in SUBSET Nat
      BY <2>0, WorkspaceAssumption
    <3>2. \E x \in calls[c].todo : \A y \in calls[c].todo : x <= y
      BY <2>0, <3>1, LeastNumber
    <3> QED BY <3>2 DEF Min
  <2>2. PICK e : e = <<files[p].time, p>>
    OBVIOUS
  <2>3. PICK new : new = [calls[c] EXCEPT !.todo = calls[c].todo \ {p},
                                          !.found = Append(calls[c].found, e)]
    OBVIOUS
  <2>4. Step(c, new) /\ calls[c].pc = "walk" /\ clock' = clock
    BY <1>6, <2>1, <2>2, <2>3 DEF GlobVisits, At
  <2>5. /\ new.n = calls[c].n /\ new.done = calls[c].done /\ new.pc = "walk"
        /\ new.step = calls[c].step /\ new.parts = calls[c].parts
        /\ new.listed = calls[c].listed /\ new.todo = calls[c].todo \ {p}
        /\ new.found = Append(calls[c].found, e)
    BY <1>2, <2>3, <2>4, IdleFields
  <2>6. calls'[c] = new /\ Call(c)' = call /\ Action(c)' = Action(c)
    BY <1>3, <2>4, <2>5
  <2>7. PICK found : found = calls[c].found /\ found \in Seq(Nat \X Path)
    BY <2>0 DEF GlobWalk
  <2>8. e \in Nat \X Path /\ e[2] = p
    <3>1. files[p].time \in Nat /\ p \in Path
      BY <1>2, <2>0 DEF ClockTrue
    <3> QED BY <2>2, <3>1
  <2>9. PICK next : next = Append(found, e)
    OBVIOUS
  <2>10. /\ next \in Seq(Nat \X Path) /\ Len(found) \in Nat
         /\ DOMAIN found = 1 .. Len(found) /\ DOMAIN next = 1 .. Len(found) + 1
         /\ \A i \in 1 .. Len(found) : next[i] = found[i]
         /\ next[Len(found) + 1] = e
    <3>1. next \in Seq(Nat \X Path)
      BY <2>7, <2>8, <2>9, AppendProperties
    <3>2. IsSequence(found)
      BY <2>7 DEF IsSequence
    <3> QED BY <2>9, <3>1, <3>2, AppendSequence
  <2>11. \A i \in DOMAIN next : i \in DOMAIN found \/ i = Len(found) + 1
    BY <2>10
  <2>12. \A i \in DOMAIN found : found[i][2] # p /\ i \in DOMAIN next /\ next[i] = found[i]
    <3>1. \A i \in DOMAIN found : found[i][2] # p
      BY <2>0, <2>1, <2>7 DEF GlobWalk, Names
    <3> QED BY <2>10, <3>1
  <2>13. Len(found) + 1 \in DOMAIN next /\ next[Len(found) + 1][2] = p
    BY <2>8, <2>10
  <2>14. Names(next) = Names(found) \union {p}
    BY <2>11, <2>12, <2>13 DEF Names
  <2>15. \A i, j \in DOMAIN next : next[i][2] = next[j][2] => i = j
    BY <2>0, <2>7, <2>11, <2>12, <2>13 DEF GlobWalk
  <2>16. PICK act : act = Action(c) /\ act = Action(c)'
    BY <2>6
  <2>17. /\ act \intersect DOMAIN new.listed \subseteq new.todo \union Names(next)
         /\ Names(next) \intersect new.todo = {}
    BY <2>0, <2>5, <2>7, <2>14, <2>16 DEF GlobWalk
  <2>18. GlobWalk(c)'
    BY <2>5, <2>6, <2>7, <2>9, <2>10, <2>15, <2>16, <2>17 DEF GlobWalk
  <2>19. /\ \A q \in DOMAIN new.listed : q \in Path /\ new.listed[q].time \in 0 .. clock
         /\ new.todo \subseteq Path
    BY <2>0, <2>5 DEF WalkTrue
  <2> QED BY <1>1, <2>4, <2>5, <2>18, <2>19, WalkOn DEF BatchOp
<1>7. CASE GlobEnds(c)
  <2>1. /\ GlobWalk(c) /\ calls[c].todo = {} /\ GlobAnswers(c)
    BY <1>1, <1>2, <1>7 DEF GlobEnds, At, BatchTrue, WalkTrue
  <2>2. PICK part : part = [matches |-> NewestFirst(calls[c].found),
              always |-> {p \in Action(c) \intersect DOMAIN calls[c].listed :
                            /\ files[p].there
                            /\ files[p].gen = calls[c].listed[p].gen}]
    OBVIOUS
  <2>3. /\ part.matches = NewestFirst(calls[c].found)
        /\ part.always \subseteq Action(c) \intersect DOMAIN calls[c].listed
    BY <2>2
  <2>4. PICK found \in Seq(Nat \X Path) : found = calls[c].found
    BY <2>1 DEF GlobWalk
  <2>5. PICK sorted : sorted = NewestFirst(found)
    OBVIOUS
  <2>6. /\ Names(found) \subseteq Names(sorted)
        /\ \A j, k \in DOMAIN sorted : j < k => Before(sorted[j], sorted[k])
    <3>1. \A i, j \in DOMAIN found : found[i][2] = found[j][2] => i = j
      BY <2>1, <2>4 DEF GlobWalk
    <3> QED BY <2>4, <2>5, <3>1, NewestFirstTrue
  <2>7. Action(c) \intersect DOMAIN calls[c].listed \subseteq Names(found)
    BY <2>1, <2>4 DEF GlobWalk
  <2>8. GlobTrue(part)
    BY <2>3, <2>4, <2>5, <2>6, <2>7 DEF GlobTrue
  <2>9. PartTrue(call, calls[c].step, part)
    BY <1>1, <2>8 DEF PartTrue
  <2>10. Advance(c, part)
    BY <2>1, <2>2 DEF GlobAnswers
  <2> QED BY <1>1, <2>9, <2>10, AdvanceTrue DEF Stands, BatchOp
<1> QED BY <1>4, <1>5, <1>6, <1>7

\* What rg writes about a file that holds the line is not nothing.
LEMMA OutputTrue ==
  ASSUME NEW p \in Path, NEW a, files[p].body \in Seq(STRING)
  PROVE  /\ Output(p, a) \in Seq(Path)
         /\ Occurs(files[p].body, a.line) => Len(Output(p, a)) >= 1
<1>1. PICK S : S = Occurrences(files[p].body, a.line)
  OBVIOUS
<1>2. Len(files[p].body) \in Nat /\ DOMAIN files[p].body = 1 .. Len(files[p].body)
  BY LenProperties
<1>3. S \in SUBSET (1 .. Len(files[p].body))
  BY <1>1, <1>2 DEF Occurrences
<1>4. IsFiniteSet(S)
  <2>1. IsFiniteSet(1 .. Len(files[p].body))
    BY <1>2, FS_Interval
  <2> QED BY <1>3, <2>1, FS_Subset
<1>5. PICK n : n = Cardinality(S) /\ n \in Nat
  BY <1>4, FS_CardinalityType
<1>6. Occurs(files[p].body, a.line) => n # 0
  <2>1. n = 0 <=> S = {}
    BY <1>4, <1>5, FS_EmptySet
  <2> QED BY <1>1, <2>1, OccursIff
<1>7. PICK k \in Nat : /\ k = IF a.mode = "content" \/ n = 0 THEN n ELSE 1
                       /\ n # 0 => k >= 1
  BY <1>5
<1>8. Output(p, a) = [i \in 1 .. k |-> p]
  BY <1>1, <1>5, <1>7 DEF Output, BodyNow
<1>9. Output(p, a) \in Seq(Path) /\ Len(Output(p, a)) = k
  <2>1. Output(p, a) \in [1 .. k -> Path]
    BY <1>8
  <2> QED BY <2>1, IsSeq
<1> QED BY <1>6, <1>7, <1>9

\* The first page of something is not empty.
LEMMA FirstPage ==
  ASSUME NEW found \in Seq(Path), found # <<>>, NEW a, a.offset = 0, a.head \in Nat \union {-1}
  PROVE  Page(found, a) # <<>>
<1>1. Len(found) \in Nat /\ Len(found) # 0 /\ DOMAIN found = 1 .. Len(found)
  BY LenProperties, EmptySeq
<1>2. HeadOf(a) \in Nat
  BY WorkspaceAssumption DEF HeadOf
<1>3. PICK last : last = IF HeadOf(a) = 0 THEN Len(found) ELSE Smaller(Len(found), a.offset + HeadOf(a))
  OBVIOUS
<1>4. last \in 1 .. Len(found)
  BY <1>1, <1>2, <1>3 DEF Smaller
<1>5. Page(found, a) = SubSeq(found, 1, last)
  BY <1>3 DEF Page
<1>6. \A i \in 1 .. last : found[i] \in Path
  BY <1>1, <1>4, ElementOfSeq
<1>7. Len(SubSeq(found, 1, last)) = last
  <2>1. 1 \in Int /\ last \in Int
    BY <1>4
  <2>2. Len(SubSeq(found, 1, last)) = IF 1 <= last THEN last - 1 + 1 ELSE 0
    BY <1>6, <2>1, SubSeqProperties
  <2> QED BY <1>4, <2>2
<1>8. Len(<<>>) = 0
  BY EmptySeq
<1> QED BY <1>4, <1>5, <1>7, <1>8

LEMMA Exits ==
  /\ ExitCode("matched") = 0 /\ ExitCode("nothing") = 1 /\ ExitCode("error") = 2
  /\ ExitCode("killed") = -1 /\ ExitCode("late") = 124 /\ ExitCode("absent") = 1
BY DEF ExitCode

\* An answer of rg is true if nothing is said only when nothing was found.
LEMMA AnswerTrue ==
  ASSUME Stands, NEW c \in Caller, Busy(c), Call(c).op = "grep", NEW how, GrepAnswers(c, how),
         ExitCode(how) \in {0, 1} =>
           \/ how = "absent"
           \/ /\ calls[c].found \in Seq(Path) /\ (calls[c].found = <<>> => Held(c) = {})
              /\ ExitCode(how) = 1 => calls[c].found = <<>>
  PROVE  CallTrue(c)'
<1>1. PICK call \in CallType : call = Call(c) /\ call.op = "grep"
  BY BusyCall DEF Stands
<1>2. PICK a : a = Action(c) /\ a.head \in Nat \union {-1}
  BY ActionTyped DEF BatchOp
<1>3. PICK part : part = [code |-> ExitCode(how), lines |-> Page(calls[c].found, a),
                          ran |-> how # "absent", held |-> Held(c)]
  OBVIOUS
<1>4. CASE ExitCode(how) \in {0, 1}
  <2>1. /\ part.lines = Page(calls[c].found, a) /\ part.held = Held(c)
        /\ part.ran <=> how # "absent"
        /\ part.code = ExitCode(how)
    BY <1>3
  <2>2. GrepTrue(a, part)
    <3> SUFFICES ASSUME part.lines = <<>>, part.ran, part.code = 1 \/ a.offset = 0
                 PROVE  part.held = {}
      BY DEF GrepTrue
    <3>1. /\ calls[c].found \in Seq(Path) /\ (calls[c].found = <<>> => Held(c) = {})
          /\ ExitCode(how) = 1 => calls[c].found = <<>>
      BY <1>4, <2>1
    <3>2. CASE a.offset = 0
      <4>1. calls[c].found = <<>>
        BY <1>2, <2>1, <3>1, <3>2, FirstPage
      <4> QED BY <2>1, <3>1, <4>1
    <3>3. CASE part.code = 1
      BY <2>1, <3>1, <3>3
    <3> QED BY <3>2, <3>3
  <2>3. PartTrue(call, calls[c].step, part)
    BY <1>1, <1>2, <2>2 DEF PartTrue, Action
  <2>4. Advance(c, part)
    BY <1>2, <1>3, <1>4 DEF GrepAnswers
  <2> QED BY <1>1, <2>3, <2>4, AdvanceTrue DEF Stands, BatchOp
<1>5. CASE ExitCode(how) \notin {0, 1}
  <2>1. Return(c, FALSE, Append(calls[c].parts, part))
    BY <1>2, <1>3, <1>5 DEF GrepAnswers
  <2> QED BY <1>1, <2>1, FailedTrue
<1> QED BY <1>4, <1>5

LEMMA GrepsTrue ==
  ASSUME Stands, NEW c \in Caller,
         \/ GrepStarts(c) \/ GrepDoesNotStart(c) \/ GrepScans(c) \/ GrepEnds(c) \/ GrepKilled(c)
  PROVE  CallTrue(c)'
<1>1. PICK call \in CallType : call = Call(c) /\ call.op = "grep" /\ Busy(c)
  BY BusyCall DEF Stands, GrepStarts, GrepDoesNotStart, GrepScans, GrepEnds, GrepKilled, At
<1>2. /\ BatchTrue(c) /\ DOMAIN calls = Caller /\ DOMAIN calls[c] = DOMAIN Idle
      /\ CallTrue(c) /\ cast' = cast /\ ClockTrue
  BY <1>1, ActionTyped DEF Stands, BatchOp
<1>3. ASSUME NEW new, Step(c, new), new.n = calls[c].n, new.step = calls[c].step
      PROVE  calls'[c] = new /\ Call(c)' = call /\ Action(c)' = Action(c)
  BY <1>1, <1>2, <1>3 DEF Step, Call, Action
<1>4. CASE GrepDoesNotStart(c) \/ GrepKilled(c)
  <2>1. PICK how \in {"late", "absent", "killed"} : GrepAnswers(c, how)
    BY <1>4 DEF GrepDoesNotStart, GrepKilled
  <2>2. ExitCode(how) \in {0, 1} => how = "absent"
    BY Exits
  <2> QED BY <1>1, <2>1, <2>2, AnswerTrue
<1>5. CASE GrepStarts(c)
  <2>1. PICK new : new = [calls[c] EXCEPT !.pc = "walk", !.listed = Listing,
                !.todo = Present \intersect Action(c).root,
                !.bad = Cardinality(Action(c).root) = 1 /\ Present \intersect Action(c).root = {}]
    OBVIOUS
  <2>2. /\ Step(c, new) /\ calls[c].found = <<>> /\ clock' = clock
    BY <1>2, <1>5, <2>1 DEF GrepStarts, At, CallTrue
  <2>3. /\ new.n = calls[c].n /\ new.done = calls[c].done /\ new.pc = "walk"
        /\ new.step = calls[c].step /\ new.parts = calls[c].parts
        /\ new.listed = Listing /\ new.todo = Present \intersect Action(c).root
        /\ new.found = calls[c].found
    BY <1>2, <2>1, IdleFields
  <2>4. calls'[c] = new /\ Call(c)' = call /\ Action(c)' = Action(c)
    BY <1>3, <2>2, <2>3
  <2>5. PICK act : act = Action(c) /\ act = Action(c)'
    BY <2>4
  <2>6. PICK none : none = <<>> /\ none \in Seq(Path)
    <3>1. <<>> \in Seq(Path)
      BY EmptySeq
    <3> QED BY <3>1
  <2>7. GrepWalk(c)'
    BY <2>2, <2>3, <2>4, <2>5, <2>6, <1>2, ListingTrue DEF GrepWalk
  <2>8. /\ \A p \in DOMAIN new.listed : p \in Path /\ new.listed[p].time \in 0 .. clock
        /\ new.todo \subseteq Path
    BY <1>2, <2>3, ListingTrue
  <2> QED BY <1>1, <2>2, <2>3, <2>7, <2>8, WalkOn DEF BatchOp
<1>6. CASE GrepScans(c)
  <2>0. WalkTrue(c) /\ GrepWalk(c) /\ calls[c].todo \subseteq Path
    BY <1>1, <1>2, <1>6 DEF GrepScans, At, BatchTrue, WalkTrue
  <2>1. PICK act : act = Action(c)
    OBVIOUS
  <2>2. PICK p \in calls[c].todo :
          Step(c, [calls[c] EXCEPT !.todo = @ \ {p}, !.bad = @ \/ ~files[p].there,
                     !.found = @ \o Output(p, act)])
    BY <1>6, <2>1 DEF GrepScans
  <2>3. PICK found \in Seq(Path) : found = calls[c].found
    BY <2>0 DEF GrepWalk
  <2>4. PICK out \in Seq(Path) :
          out = Output(p, act) /\ (Occurs(files[p].body, act.line) => Len(out) >= 1)
    <3>1. p \in Path /\ files[p].body \in Seq(STRING)
      BY <2>0 DEF Stands, EditsInv, ContentTyped
    <3> QED BY <3>1, OutputTrue
  <2>5. PICK more : more = found \o out
    OBVIOUS
  <2>6. PICK new : new = [calls[c] EXCEPT !.todo = calls[c].todo \ {p},
                            !.bad = calls[c].bad \/ ~files[p].there, !.found = more]
    OBVIOUS
  <2>7. Step(c, new) /\ calls[c].pc = "walk" /\ UNCHANGED <<files, clock>>
    BY <1>6, <2>2, <2>3, <2>4, <2>5, <2>6 DEF GrepScans, At
  <2>8. /\ new.n = calls[c].n /\ new.done = calls[c].done /\ new.pc = "walk"
        /\ new.step = calls[c].step /\ new.parts = calls[c].parts
        /\ new.listed = calls[c].listed /\ new.todo = calls[c].todo \ {p}
        /\ new.found = more
    BY <1>2, <2>6, <2>7, IdleFields
  <2>9. calls'[c] = new /\ Call(c)' = call /\ Action(c)' = act
    BY <1>3, <2>1, <2>7, <2>8
  <2>10. more \in Seq(Path) /\ Len(more) = Len(found) + Len(out)
    BY <2>5, ConcatProperties
  <2>11. (found # <<>> \/ Len(out) >= 1) => more # <<>>
    <3>1. Len(found) \in Nat /\ Len(out) \in Nat /\ (found # <<>> => Len(found) # 0)
      BY EmptySeq, LenProperties
    <3>2. Len(<<>>) = 0
      BY EmptySeq
    <3> QED BY <2>10, <3>1, <3>2
  <2>12. ASSUME NEW q \in (act.root \intersect DOMAIN new.listed) \ new.todo,
                AsListed(c, q), Occurs(files[q].body, act.line)
         PROVE  more # <<>>
    <3>1. CASE q = p
      BY <2>4, <2>11, <2>12, <3>1
    <3>2. CASE q # p
      <4>1. found # <<>>
        BY <2>0, <2>1, <2>3, <2>8, <2>12, <3>2 DEF GrepWalk
      <4> QED BY <2>11, <4>1
    <3> QED BY <3>1, <3>2
  <2>13. GrepWalk(c)'
    <3>1. \A q : AsListed(c, q)' <=> AsListed(c, q)
      BY <2>7, <2>8, <2>9 DEF AsListed
    <3> QED BY <2>7, <2>8, <2>9, <2>10, <2>12, <3>1 DEF GrepWalk, Occurs
  <2>14. /\ \A q \in DOMAIN new.listed : q \in Path /\ new.listed[q].time \in 0 .. clock
         /\ new.todo \subseteq Path
    BY <2>0, <2>8 DEF WalkTrue
  <2> QED BY <1>1, <2>7, <2>8, <2>13, <2>14, WalkOn DEF BatchOp
<1>7. CASE GrepEnds(c)
  <2>1. GrepWalk(c) /\ calls[c].todo = {}
    BY <1>1, <1>2, <1>7 DEF GrepEnds, At, BatchTrue, WalkTrue
  <2>2. PICK how : /\ GrepAnswers(c, how)
                   /\ how = IF calls[c].bad THEN "error"
                            ELSE IF calls[c].found = <<>> THEN "nothing" ELSE "matched"
    BY <1>7 DEF GrepEnds
  <2>3. calls[c].found = <<>> => Held(c) = {}
    <3> SUFFICES ASSUME calls[c].found = <<>>, NEW p \in Held(c) PROVE FALSE
      OBVIOUS
    <3>1. /\ p \in Action(c).root \intersect DOMAIN calls[c].listed /\ AsListed(c, p)
          /\ Occurs(files[p].body, Action(c).line)
      BY OccursIff DEF Held, AsListed, BodyNow
    <3> QED BY <2>1, <3>1 DEF GrepWalk
  <2>4. ExitCode(how) = 1 => calls[c].found = <<>>
    BY <2>2, Exits
  <2> QED BY <1>1, <2>1, <2>2, <2>3, <2>4, AnswerTrue DEF GrepWalk
<1> QED BY <1>4, <1>5, <1>6, <1>7

-----------------------------------------------------------------------------
(* Pages that follow one another                                           *)

\* What holds of the first number and from each to the next holds of all.
LEMMA Upward ==
  ASSUME NEW n \in Nat, NEW P, 1 \in P, \A i \in 2 .. n : i - 1 \in P => i \in P
  PROVE  1 .. n \subseteq P
<1>1. PICK S : S = (1 .. n) \ P
  OBVIOUS
<1>2. CASE S = {}
  BY <1>1, <1>2
<1>3. CASE S # {}
  <2>1. PICK i \in S : \A j \in S : i <= j
    <3>1. S \in SUBSET Nat
      BY <1>1
    <3> QED BY <1>3, <3>1, LeastNumber
  <2>2. i \in 2 .. n /\ i - 1 \in 1 .. n /\ ~(i <= i - 1)
    BY <1>1, <2>1
  <2>3. i - 1 \in P
    BY <1>1, <2>1, <2>2
  <2> QED BY <1>1, <2>1, <2>2, <2>3
<1> QED BY <1>2, <1>3

\* What a sequence of sequences is when it is joined, up to each of them
JoinsOf(parts, n, g) ==
  /\ Len(parts) = n /\ \E S : g \in [1 .. n -> S]
  /\ g[1] = parts[1] /\ \A i \in 2 .. n : g[i] = g[i - 1] \o parts[i]
LEMMA Joined ==
  ASSUME NEW n \in Nat \ {0}, NEW parts, NEW g, JoinsOf(parts, n, g)
  PROVE  FlattenSeq(parts) = g[n]
<1> USE DEF JoinsOf
<1>0. \A i \in 1 .. n : g[i] = IF i = 1 THEN parts[i] ELSE g[i - 1] \o parts[i]
  <2>1. \A i \in 1 .. n : i = 1 \/ i \in 2 .. n
    OBVIOUS
  <2> QED BY <2>1, Zenon
<1>1. PICK f : /\ f = [i \in 1 .. n |-> IF i = 1 THEN parts[i] ELSE f[i - 1] \o parts[i]]
               /\ FlattenSeq(parts) = f[n]
  <2>1. g = [i \in 1 .. Len(parts) |-> IF i = 1 THEN parts[i] ELSE g[i - 1] \o parts[i]]
    BY <1>0
  <2>2. Len(parts) # 0
    OBVIOUS
  <2>3. \E f : /\ f = [i \in 1 .. Len(parts) |-> IF i = 1 THEN parts[i] ELSE f[i - 1] \o parts[i]]
               /\ FlattenSeq(parts) = f[Len(parts)]
    BY <2>1, <2>2, Zenon DEF FlattenSeq
  <2> QED BY <2>3
<1>3. ASSUME NEW i \in 1 .. n
      PROVE  /\ f[i] = IF i = 1 THEN parts[i] ELSE f[i - 1] \o parts[i]
             /\ g[i] = IF i = 1 THEN parts[i] ELSE g[i - 1] \o parts[i]
  BY <1>0, <1>1, Zenon
<1>4. 1 .. n \subseteq {i \in 1 .. n : f[i] = g[i]}
  <2>1. PICK P : P = {i \in 1 .. n : f[i] = g[i]}
    OBVIOUS
  <2>2. 1 \in P
    <3>1. 1 \in 1 .. n
      OBVIOUS
    <3>2. f[1] = parts[1] /\ g[1] = parts[1]
      BY <1>3, <3>1
    <3> QED BY <2>1, <3>1, <3>2
  <2>3. ASSUME NEW i \in 2 .. n, i - 1 \in P PROVE i \in P
    <3>1. i \in 1 .. n /\ i # 1 /\ f[i - 1] = g[i - 1]
      BY <2>1, <2>3
    <3>2. f[i] = f[i - 1] \o parts[i] /\ g[i] = g[i - 1] \o parts[i]
      BY <1>3, <3>1
    <3> QED BY <2>1, <3>1, <3>2
  <2> QED BY <2>1, <2>2, <2>3, Upward
<1>5. f[n] = g[n]
  <2>1. n \in 1 .. n
    OBVIOUS
  <2> QED BY <1>4, <2>1
<1> QED BY <1>1, <1>5

\* A beginning and the window that follows it
LEMMA WindowJoins ==
  ASSUME NEW body \in Seq(STRING), NEW start \in Nat, NEW size \in Nat
  PROVE  SubSeq(body, 1, Smaller(Len(body), start)) \o Window(body, start, size)
           = SubSeq(body, 1, Smaller(Len(body), start + size))
<1>1. PICK len \in Nat : len = Len(body)
  BY LenProperties
<1>2. CASE len <= start
  <2>1. Smaller(len, start) = len /\ Smaller(len, start + size) = len
    BY <1>2 DEF Smaller
  <2>2. Window(body, start, size) = <<>>
    <3>1. start + 1 \in Int /\ len \in Int /\ len < start + 1
      BY <1>2
    <3> QED BY <1>1, <2>1, <3>1, SubSeqEmpty DEF Window
  <2>3. SubSeq(body, 1, Len(body)) = body
    BY SubSeqFull
  <2>4. body \o <<>> = body
    BY ConcatEmptySeq
  <2> QED BY <1>1, <2>1, <2>2, <2>3, <2>4
<1>3. CASE start < len
  <2>1. PICK last : last = Smaller(len, start + size)
    OBVIOUS
  <2>2. Smaller(len, start) = start /\ last \in start .. len
    BY <1>3, <2>1 DEF Smaller
  <2>3. 1 \in 1 .. Len(body) + 1 /\ start \in 1 - 1 .. Len(body) /\ last \in start .. Len(body)
    BY <1>1, <1>3, <2>2
  <2>4. SubSeq(body, 1, start) \o SubSeq(body, start + 1, last) = SubSeq(body, 1, last)
    BY <2>3, ConcatAdjacentSubSeq
  <2>5. Window(body, start, size) = SubSeq(body, start + 1, last)
    BY <1>1, <2>1 DEF Window
  <2>6. /\ Smaller(Len(body), start) = start
        /\ Smaller(Len(body), start + size) = last
    BY <1>1, <2>1, <2>2
  <2> QED BY <2>4, <2>5, <2>6
<1>4. len <= start \/ start < len
  OBVIOUS
<1> QED BY <1>2, <1>3, <1>4

PagesOf(body, n, start, size) ==
  /\ \A i \in 1 .. n : start[i] \in Nat /\ size[i] \in Nat
  /\ start[1] = 0 /\ \A i \in 1 .. n - 1 : start[i + 1] = start[i] + size[i]
  /\ ~(start[n] + size[n] < Len(body))
LEMMA PagesJoin ==
  ASSUME NEW n \in Nat \ {0}, NEW body \in Seq(STRING), NEW start, NEW size,
         PagesOf(body, n, start, size), NEW pages,
         pages = [i \in 1 .. n |-> Window(body, start[i], size[i])]
  PROVE  FlattenSeq(pages) = body
<1> USE DEF PagesOf
<1>1. PICK len \in Nat : len = Len(body)
  BY LenProperties
<1>2. PICK g : g = [i \in 1 .. n |-> SubSeq(body, 1, Smaller(len, start[i] + size[i]))]
  OBVIOUS
<1>3. ASSUME NEW i \in 1 .. n
      PROVE  g[i] = IF i = 1 THEN pages[i] ELSE g[i - 1] \o pages[i]
  <2>1. /\ g[i] = SubSeq(body, 1, Smaller(len, start[i] + size[i]))
        /\ pages[i] = Window(body, start[i], size[i])
    BY <1>2
  <2>2. SubSeq(body, 1, Smaller(len, start[i])) \o pages[i] = g[i]
    BY <1>1, <2>1, WindowJoins
  <2>3. CASE i = 1
    <3>1. start[i] = 0 /\ size[i] \in Nat
      BY <2>3
    <3>2. g[i] = Window(body, start[i], size[i])
      BY <1>1, <2>1, <3>1 DEF Window
    <3> QED BY <2>1, <2>3, <3>2
  <2>4. CASE i # 1
    <3>1. i - 1 \in 1 .. n /\ i - 1 \in 1 .. n - 1 /\ i - 1 + 1 = i
      BY <2>4
    <3>2. start[i] = start[i - 1] + size[i - 1]
      BY <3>1
    <3>3. g[i - 1] = SubSeq(body, 1, Smaller(len, start[i]))
      BY <1>2, <3>1, <3>2
    <3> QED BY <2>2, <2>4, <3>3
  <2> QED BY <2>3, <2>4
<1>4. Len(pages) = n
  <2>1. pages \in [1 .. n -> {pages[i] : i \in 1 .. n}]
    OBVIOUS
  <2> QED BY <2>1, IsSeq
<1>5. FlattenSeq(pages) = g[n]
  <2>1. PICK S : S = {g[i] : i \in 1 .. n}
    OBVIOUS
  <2>2. g \in [1 .. n -> S]
    BY <1>2, <2>1
  <2>3. g[1] = pages[1] /\ \A i \in 2 .. n : g[i] = g[i - 1] \o pages[i]
    <3>1. 1 \in 1 .. n /\ \A i \in 2 .. n : i \in 1 .. n /\ i # 1
      OBVIOUS
    <3> QED BY <1>3, <3>1
  <2>4. JoinsOf(pages, n, g)
    BY <1>4, <2>2, <2>3 DEF JoinsOf
  <2> QED BY <2>4, Joined
<1>6. Smaller(len, start[n] + size[n]) = len
  <2>1. start[n] \in Nat /\ size[n] \in Nat
    OBVIOUS
  <2> QED BY <1>1, <2>1 DEF Smaller
<1>7. SubSeq(body, 1, Len(body)) = body
  BY SubSeqFull
<1> QED BY <1>1, <1>2, <1>5, <1>6, <1>7

-----------------------------------------------------------------------------
(* Every step keeps what was told true                                     *)

LEMMA OthersStay ==
  ASSUME CallsTyped, EditsInv, NEW c \in Caller, ToolStep(c), NEW o \in Caller, o # c
  PROVE  SameWork(o)
<1>1. Goes(c) \/ \E p, body : Choose(c, p, body)
  BY ToolKind
<1>2. CASE Goes(c)
  <2>1. calls'[o] = calls[o]
    BY <1>2 DEF Goes, Step, CallsTyped
  <2> QED BY <2>1 DEF SameWork
<1>3. ASSUME NEW p, NEW body, Choose(c, p, body) PROVE SameWork(o)
  <2>1. calls'[o] = calls[o] \/ calls'[o] = [calls[o] EXCEPT !.alone = FALSE]
    BY <1>3 DEF Choose
  <2>2. DOMAIN calls[o] = DOMAIN Idle
    BY DEF EditsInv, Shaped
  <2> QED BY <2>1, <2>2, IdleFields DEF SameWork
<1> QED BY <1>1, <1>2, <1>3

LEMMA InterruptedTrue ==
  ASSUME CallsTyped, PlayTyped, ClockTrue, cast' = cast, NEW c \in Caller, CallTrue(c), Restart
  PROVE  CallTrue(c)'
<1>1. CASE c \in Interrupted
  <2>1. Busy(c)
    BY <1>1 DEF Interrupted, CallsTyped, CallOk
  <2>2. PICK call \in CallType : call = Call(c)
    BY <2>1, BusyCall
  <2>3. PICK r : r = [call |-> call, ok |-> FALSE, parts |-> <<>>]
    OBVIOUS
  <2>4. ResultTrue(r)
    BY <2>2, <2>3, NothingTold DEF ResultTrue
  <2>5. calls'[c] = [Idle EXCEPT !.n = calls[c].n + 1, !.done = Append(calls[c].done, r)]
    BY <1>1, <2>2, <2>3 DEF Restart
  <2> QED BY <2>1, <2>4, <2>5, ReturnTrue
<1>2. CASE c \notin Interrupted
  <2>1. SameWork(c) /\ UNCHANGED <<files, clock>>
    BY <1>2 DEF Restart, SameWork
  <2>2. FilesAge
    BY <2>1, UntouchedAge
  <2> QED BY <2>1, <2>2, StayTrue
<1> QED BY <1>1, <1>2

LEMMA SearchInit == Init => SearchInv
<1> SUFFICES ASSUME Init PROVE SearchInv
  OBVIOUS
<1>1. ClockTrue
  BY DEF Init, InitWorkspace, ClockTrue
<1>2. ASSUME NEW c \in Caller PROVE CallTrue(c)
  <2>1. calls[c] = Idle /\ cast \in Casts
    BY DEF Init, InitWorkspace
  <2>2. PICK none : none = <<>> /\ none = Idle.parts /\ none = Idle.done /\ Len(none) = 0
    BY IdleMore, IdleFields, EmptySequence
  <2>3. ASSUME Busy(c), Call(c).op \in BatchOp PROVE BatchTrue(c)
    <3>1. CallsTyped /\ PlayTyped
      BY InitTypes DEF TypeInv
    <3>2. PICK call \in CallType : call = Call(c)
      BY <2>3, <3>1, BusyCall
    <3>3. PartsTrue(call, none) /\ 1 <= Len(call.actions)
      BY <2>2, <2>3, <3>2, NothingTold
    <3> QED BY <2>1, <2>2, <3>2, <3>3, IdleMore, IdleFields DEF BatchTrue
  <2> QED BY <2>1, <2>2, <2>3, IdleMore DEF CallTrue
<1> QED BY <1>1, <1>2 DEF SearchInv

LEMMA SearchKept == TypeInv /\ EditsInv /\ SearchInv /\ [Next]_vars => SearchInv'
<1> SUFFICES ASSUME TypeInv, EditsInv, SearchInv, [Next]_vars PROVE SearchInv'
  OBVIOUS
<1> USE DEF TypeInv
<1>1. cast' = cast
  BY CastKept
<1>2. ClockTrue /\ \A c \in Caller : CallTrue(c)
  BY DEF SearchInv
<1>3. ASSUME calls' = calls, FilesAge, ClockTrue' PROVE SearchInv'
  <2>1. \A c \in Caller : SameWork(c)
    BY <1>3 DEF SameWork
  <2> QED BY <1>1, <1>2, <1>3, <2>1, StayTrue DEF SearchInv
<1>4. ASSUME UNCHANGED workspace PROVE SearchInv'
  BY <1>2, <1>3, <1>4, UntouchedAge DEF workspace
<1>5. ASSUME NEW m \in Message, Inbound(m) PROVE SearchInv'
  <2>1. UNCHANGED workspace \/ Download(m)
    BY <1>5 DEF Inbound, BeginDiscord, BeginCommand, BeginTelegram, BeginInject, Begins,
       PlaceDiscord, PlaceOther, DownloadFails, Ignore, Enqueue, EnqueueFails
  <2>2. CASE Download(m)
    <3>1. calls' = calls
      BY <2>2 DEF Download
    <3> QED BY <1>2, <1>3, <2>2, <3>1, DownloadAge
  <2> QED BY <1>4, <2>1, <2>2
<1>6. ASSUME NEW r \in Report, Outbound(r) PROVE SearchInv'
  BY <1>4, <1>6 DEF Outbound, BeginReport, PostChunk, TextDone, PostDiscordFiles,
     PostTelegramFile, FileIsGone
<1>7. ASSUME NEW c \in Caller, Tools(c) PROVE SearchInv'
  <2>1. ToolStep(c)
    BY <1>7 DEF Tools
  <2>2. FilesAge /\ ClockTrue'
    BY <1>2, <2>1, ToolAge
  <2>3. Stands
    BY <1>1, <1>2 DEF Stands
  <2>4. CallTrue(c)'
    BY <2>1, <2>3, WritersTrue, ReadsTrue, GlobsTrue, GrepsTrue DEF ToolStep
  <2>5. ASSUME NEW o \in Caller, o # c PROVE CallTrue(o)'
    <3>1. SameWork(o)
      BY <2>1, <2>5, OthersStay
    <3> QED BY <1>1, <1>2, <2>2, <3>1, StayTrue
  <2> QED BY <2>2, <2>4, <2>5 DEF SearchInv
<1>8. CASE Restart
  <2>1. ClockTrue'
    BY <1>2, <1>8, UntouchedAge DEF Restart
  <2> QED BY <1>1, <1>2, <1>8, <2>1, InterruptedTrue DEF SearchInv
<1>9. CASE Stopped \/ UNCHANGED vars
  BY <1>4, <1>9 DEF Stopped, vars
<1> QED BY <1>5, <1>6, <1>7, <1>8, <1>9 DEF Next

-----------------------------------------------------------------------------
(* What was told is what the properties say                                *)

LEMMA ResultsTrue ==
  ASSUME CallsTyped, SearchInv, NEW op \in BatchOp, NEW r \in ResultsOf(op)
  PROVE  /\ r.call \in CallType /\ r.call.op = op
         /\ r.ok \/ op = "glob" =>
              /\ PartsTrue(r.call, r.parts) /\ DOMAIN r.parts = 1 .. Len(r.parts)
         /\ r.ok => Len(r.parts) = Len(r.call.actions)
<1>0. PICK c \in Caller :
        \E i \in DOMAIN calls[c].done : r = calls[c].done[i] /\ calls[c].done[i].call.op = op
  BY DEF ResultsOf
<1>1. PICK i \in DOMAIN calls[c].done : r = calls[c].done[i] /\ calls[c].done[i].call.op = op
  BY <1>0
<1>2. i \in 1 .. Len(calls[c].done)
  <2>1. IsSequence(calls[c].done)
    BY DEF CallsTyped, CallOk
  <2> QED BY <1>1, <2>1, AppendSequence
<1>3. ResultTrue(r)
  BY <1>1, <1>2 DEF SearchInv, CallTrue
<1>4. IsSequence(r.parts) => DOMAIN r.parts = 1 .. Len(r.parts)
  BY AppendSequence
<1> QED BY <1>1, <1>3, <1>4 DEF ResultTrue, PartsTrue

LEMMA GlobFollows == CallsTyped /\ SearchInv => GlobIsComplete
<1> SUFFICES ASSUME CallsTyped, SearchInv,
                    NEW r \in ResultsOf("glob"), NEW i \in DOMAIN r.parts
             PROVE  GlobTrue(r.parts[i])
  BY DEF GlobIsComplete, GlobTrue, Names
<1> QED BY ResultsTrue DEF BatchOp, PartsTrue, PartTrue

LEMMA GrepFollows == CallsTyped /\ SearchInv => GrepTellsTheTruth
<1> SUFFICES ASSUME CallsTyped, SearchInv, NEW r \in ResultsOf("grep"), SaysNothing(r),
                    NEW i \in DOMAIN r.parts, r.parts[i].ran,
                    i = Len(r.parts) \/ r.call.actions[i].offset = 0
             PROVE  r.parts[i].held = {}
  BY DEF GrepTellsTheTruth
<1>1. r.ok /\ r.parts[i].lines = <<>> /\ r.parts[Len(r.parts)].code = 1
  BY DEF SaysNothing, Last
<1>2. GrepTrue(r.call.actions[i], r.parts[i])
  BY <1>1, ResultsTrue DEF BatchOp, PartsTrue, PartTrue
<1> QED BY <1>1, <1>2 DEF GrepTrue

LEMMA PagesFollow == CallsTyped /\ SearchInv => PagesCover
<1> SUFFICES ASSUME CallsTyped, SearchInv, NEW r \in ResultsOf("read"), r.ok,
                    NEW a, a = r.call.actions,
                    a[1].offset = 0, ~Last(r.parts).truncated,
                    \A i \in 1 .. Len(a) - 1 : /\ a[i + 1].path = a[i].path
                                               /\ a[i + 1].offset = a[i].offset + LimitOf(a[i])
                                               /\ r.parts[i + 1].seen = r.parts[i].seen
             PROVE  FlattenSeq([i \in DOMAIN a |-> r.parts[i].lines]) = r.parts[1].seen
  BY DEF PagesCover
<1>1. /\ r.call \in CallType /\ r.call.op = "read" /\ PartsTrue(r.call, r.parts)
      /\ Len(r.parts) = Len(a)
  BY ResultsTrue DEF BatchOp
<1>2. PICK n \in Nat \ {0} : n = Len(a)
  BY <1>1, BatchFields DEF BatchOp
<1>3. /\ DOMAIN a = 1 .. n
      /\ \A i \in 1 .. n : a[i].offset \in Nat /\ LimitOf(a[i]) \in Nat
  <2>1. DOMAIN a = 1 .. n /\ \A i \in 1 .. n : a[i] \in [path : Path, offset : Nat, limit : Nat]
    BY <1>1, <1>2, BatchFields DEF BatchOp
  <2> QED BY <2>1, WorkspaceAssumption DEF LimitOf
<1>4. \A i \in 1 .. n : ReadTrue(a[i], r.parts[i])
  BY <1>1, <1>2 DEF PartsTrue, PartTrue
<1>5. PICK body : body = r.parts[1].seen
  OBVIOUS
<1>6. \A i \in 1 .. n : r.parts[i].seen = body
  <2>1. PICK P : P = {i \in 1 .. n : r.parts[i].seen = body}
    OBVIOUS
  <2>2. 1 \in P
    BY <1>5, <2>1
  <2>3. ASSUME NEW i \in 2 .. n, i - 1 \in P PROVE i \in P
    <3>1. i \in 1 .. n /\ i - 1 \in 1 .. Len(a) - 1 /\ i - 1 + 1 = i
      BY <1>2
    <3>2. r.parts[i].seen = r.parts[i - 1].seen
      BY <3>1
    <3> QED BY <2>1, <2>3, <3>1, <3>2
  <2>4. 1 .. n \subseteq P
    BY <2>2, <2>3, Upward
  <2> QED BY <2>1, <2>4
<1>7. body \in Seq(STRING)
  BY <1>4, <1>5 DEF ReadTrue
<1>8. PICK start, size : /\ start = [i \in 1 .. n |-> a[i].offset]
                         /\ size = [i \in 1 .. n |-> LimitOf(a[i])]
  OBVIOUS
<1>9. PICK pages : pages = [i \in 1 .. n |-> Window(body, start[i], size[i])]
  OBVIOUS
<1>10. [i \in DOMAIN a |-> r.parts[i].lines] = pages
  <2>1. \A i \in 1 .. n : r.parts[i].lines = Window(body, start[i], size[i])
    BY <1>4, <1>6, <1>8 DEF ReadTrue
  <2> QED BY <1>3, <1>9, <2>1
<1>11. /\ \A i \in 1 .. n : start[i] \in Nat /\ size[i] \in Nat
       /\ start[1] = 0 /\ \A i \in 1 .. n - 1 : start[i + 1] = start[i] + size[i]
  <2>1. \A i \in 1 .. n : start[i] \in Nat /\ size[i] \in Nat
    BY <1>3, <1>8
  <2>2. start[1] = 0
    BY <1>2, <1>8
  <2>3. ASSUME NEW i \in 1 .. n - 1 PROVE start[i + 1] = start[i] + size[i]
    <3>1. i \in 1 .. n /\ i + 1 \in 1 .. n /\ a[i + 1].offset = a[i].offset + LimitOf(a[i])
      BY <1>2
    <3> QED BY <1>8, <3>1
  <2> QED BY <2>1, <2>2, <2>3
<1>12. ~(start[n] + size[n] < Len(body))
  <2>1. Last(r.parts) = r.parts[n] /\ n \in 1 .. n
    BY <1>1, <1>2 DEF Last
  <2>2. ReadTrue(a[n], r.parts[n]) /\ r.parts[n].seen = body
    BY <1>4, <1>6, <2>1
  <2> QED BY <1>8, <2>1, <2>2 DEF ReadTrue
<1>13. FlattenSeq(pages) = body
  <2>1. PagesOf(body, n, start, size)
    BY <1>11, <1>12 DEF PagesOf
  <2> QED BY <1>7, <1>9, <2>1, PagesJoin
<1> QED BY <1>5, <1>10, <1>13

LEMMA FilesInvariance == Spec => [](TypeInv /\ EditsInv /\ SearchInv)
<1>1. Init => IInv /\ EditsInv /\ SearchInv
  BY InitTrue, EditsInit, SearchInit
<1>2. IInv /\ EditsInv /\ SearchInv /\ [Next]_vars => (IInv /\ EditsInv /\ SearchInv)'
  BY NextTrue, EditsKept, SearchKept DEF IInv
<1>3. IInv /\ EditsInv /\ SearchInv => TypeInv /\ EditsInv /\ SearchInv
  BY DEF IInv
<1> QED BY <1>1, <1>2, <1>3, PTL DEF Spec

\* What an agent edits is kept in the file until it is taken away, pages that
\* follow one another show a file whole, a search for names does not miss what
\* was there all the time, and when a batch of searches for text says that nothing
\* matched, no file held the line of its last search, or of one without an offset,
\* all the time; what an earlier search found before its offset it may hide
\* (internal/tools/edit, write, read, glob, grep).
THEOREM FilesCorrect == Spec => []FilesAreTrue
<1>1. TypeInv /\ EditsInv /\ SearchInv => FilesAreTrue
  BY EditsFollow, PagesFollow, GlobFollows, GrepFollows DEF TypeInv, FilesAreTrue
<1> QED BY <1>1, FilesInvariance, PTL

-----------------------------------------------------------------------------
(* Texts                                                                   *)
Text == Seq(CharKind)

LEMMA UpwardFromZero ==
  ASSUME NEW n \in Nat, NEW P, 0 \in P, \A i \in 1 .. n : i - 1 \in P => i \in P
  PROVE  0 .. n \subseteq P
<1>1. PICK S : S = (0 .. n) \ P
  OBVIOUS
<1>2. CASE S = {}
  BY <1>1, <1>2
<1>3. CASE S # {}
  <2>1. PICK i \in S : \A j \in S : i <= j
    <3>1. S \in SUBSET Nat
      BY <1>1
    <3> QED BY <1>3, <3>1, LeastNumber
  <2>2. i \in 1 .. n /\ i - 1 \in 0 .. n /\ ~(i <= i - 1)
    BY <1>1, <2>1
  <2> QED BY <1>1, <2>1, <2>2
<1> QED BY <1>2, <1>3

LEMMA Greater ==
  ASSUME NEW n \in Nat, NEW S \in SUBSET (0 .. n), S # {}
  PROVE  Max(S) \in S /\ \A x \in S : x <= Max(S)
<1>1. PICK T : T = {n - x : x \in S}
  OBVIOUS
<1>2. T \in SUBSET Nat /\ T # {}
  <2>1. \A x \in S : x \in 0 .. n
    OBVIOUS
  <2>2. \A x \in S : n - x \in Nat
    BY <2>1
  <2> QED BY <1>1, <2>2
<1>3. PICK y \in T : \A z \in T : y <= z
  BY <1>2, LeastNumber
<1>4. PICK x \in S : y = n - x
  BY <1>1, <1>3
<1>5. \A z \in S : x >= z
  <2>1. \A z \in S : n - z \in T
    BY <1>1
  <2> QED BY <1>3, <1>4, <2>1
<1> QED BY <1>4, <1>5 DEF Max

LEMMA Lesser ==
  ASSUME NEW S \in SUBSET Nat, S # {}
  PROVE  Min(S) \in S /\ \A x \in S : Min(S) <= x
<1>1. PICK x \in S : \A y \in S : x <= y
  BY LeastNumber
<1> QED BY <1>1 DEF Min

LEMMA GreatestIs ==
  ASSUME NEW n \in Nat, NEW S \in SUBSET (1 .. n)
  PROVE  /\ Greatest(S) \in 0 .. n /\ \A x \in S : x <= Greatest(S)
         /\ (Greatest(S) = 0) <=> (S = {})
         /\ S # {} => Greatest(S) \in S
<1>1. CASE S = {}
  BY <1>1 DEF Greatest
<1>2. CASE S # {}
  <2>1. S \in SUBSET (0 .. n)
    OBVIOUS
  <2>2. Max(S) \in S /\ \A x \in S : x <= Max(S)
    BY <1>2, <2>1, Greater
  <2>3. Max(S) \in 1 .. n /\ Greatest(S) = Max(S)
    BY <1>2, <2>2 DEF Greatest
  <2> QED BY <1>2, <2>2, <2>3
<1> QED BY <1>1, <1>2

\* Parts of a text
LEMMA Parts ==
  ASSUME NEW t \in Text, NEW n \in 0 .. Len(t)
  PROVE  /\ Len(t) \in Nat /\ DOMAIN t = 1 .. Len(t) /\ \A i \in 1 .. Len(t) : t[i] \in CharKind
         /\ Prefix(t, n) \in Text /\ Len(Prefix(t, n)) = n
         /\ \A i \in 1 .. n : Prefix(t, n)[i] = t[i]
         /\ Rest(t, n) \in Text /\ Len(Rest(t, n)) = Len(t) - n
         /\ \A i \in 1 .. Len(t) - n : Rest(t, n)[i] = t[n + i]
         /\ t = Prefix(t, n) \o Rest(t, n)
<1>1. Len(t) \in Nat /\ DOMAIN t = 1 .. Len(t) /\ \A i \in 1 .. Len(t) : t[i] \in CharKind
  BY LenProperties, ElementOfSeq DEF Text
<1>2. PICK len \in Nat : len = Len(t)
  BY <1>1
<1>3. /\ Prefix(t, n) \in Text /\ Len(Prefix(t, n)) = n
      /\ \A i \in 1 .. n : Prefix(t, n)[i] = t[i]
  <2>1. \A i \in 1 .. n : t[i] \in CharKind
    BY <1>1
  <2>2. n \in Int /\ 1 \in Int
    BY <1>1
  <2>3. /\ SubSeq(t, 1, n) \in Seq(CharKind)
        /\ Len(SubSeq(t, 1, n)) = IF 1 <= n THEN n - 1 + 1 ELSE 0
        /\ \A i \in 1 .. n - 1 + 1 : SubSeq(t, 1, n)[i] = t[1 + i - 1]
    BY <2>1, <2>2, SubSeqProperties
  <2>4. n \in Nat /\ n - 1 + 1 = n /\ \A i \in 1 .. n : 1 + i - 1 = i
    BY <1>1
  <2> QED BY <2>3, <2>4 DEF Prefix, Text
<1>4. /\ Rest(t, n) \in Text /\ Len(Rest(t, n)) = Len(t) - n
      /\ \A i \in 1 .. Len(t) - n : Rest(t, n)[i] = t[n + i]
  <2>1. \A i \in n + 1 .. len : t[i] \in CharKind
    BY <1>1, <1>2
  <2>2. n + 1 \in Int /\ len \in Int
    BY <1>1
  <2>3. /\ SubSeq(t, n + 1, len) \in Seq(CharKind)
        /\ Len(SubSeq(t, n + 1, len)) = IF n + 1 <= len THEN len - (n + 1) + 1 ELSE 0
        /\ \A i \in 1 .. len - (n + 1) + 1 : SubSeq(t, n + 1, len)[i] = t[n + 1 + i - 1]
    BY <2>1, <2>2, SubSeqProperties
  <2>4. n \in Nat /\ n <= len /\ len - (n + 1) + 1 = len - n /\ \A i \in 1 .. len - n : n + 1 + i - 1 = n + i
    BY <1>1, <1>2
  <2> QED BY <1>2, <2>3, <2>4 DEF Rest, Text
<1>5. t = Prefix(t, n) \o Rest(t, n)
  <2>1. 1 \in 1 .. Len(t) + 1 /\ n \in 1 - 1 .. Len(t) /\ Len(t) \in n .. Len(t)
    BY <1>1
  <2>2. SubSeq(t, 1, n) \o SubSeq(t, n + 1, Len(t)) = SubSeq(t, 1, Len(t))
    BY <2>1, ConcatAdjacentSubSeq DEF Text
  <2> QED BY <2>2, SubSeqFull DEF Prefix, Rest, Text
<1> QED BY <1>1, <1>3, <1>4, <1>5

LEMMA NextPrefix ==
  ASSUME NEW t \in Text, NEW n \in 1 .. Len(t)
  PROVE  /\ Prefix(t, n) = Append(Prefix(t, n - 1), t[n])
         /\ Prefix(t, n - 1) \in Text /\ t[n] \in CharKind
<1>1. Len(t) \in Nat /\ n - 1 \in 0 .. Len(t) /\ 1 \in 1 .. Len(t) /\ n \in 1 .. Len(t) /\ t[n] \in CharKind
  BY LenProperties, ElementOfSeq DEF Text
<1>2. Prefix(t, n - 1) \in Text
  BY <1>1, Parts
<1>3. SubSeq(t, 1, n) = SubSeq(t, 1, n - 1) \o <<t[n]>>
  BY <1>1, SubSeqRecursiveSecond DEF Text
<1> QED BY <1>1, <1>2, <1>3, AppendIsConcat DEF Prefix, Text

\* The ink of a text, up to each of its characters
InkUpTo(t, k, f) ==
  /\ f \in [0 .. k -> Text] /\ f[0] = <<>>
  /\ \A n \in 1 .. k : f[n] = IF t[n] \in Blank THEN f[n - 1] ELSE Append(f[n - 1], t[n])

LEMMA InkExists ==
  ASSUME NEW t \in Text
  PROVE  \E f : InkUpTo(t, Len(t), f)
<1>1. PICK P : P = {k \in 0 .. Len(t) : \E f : InkUpTo(t, k, f)}
  OBVIOUS
<1>2. Len(t) \in Nat
  BY LenProperties DEF Text
<1>3. 0 \in P
  <2>1. <<>> \in Text
    BY EmptySeq DEF Text
  <2>2. PICK f : f = [k \in 0 .. 0 |-> <<>>]
    OBVIOUS
  <2>3. f \in [0 .. 0 -> Text] /\ f[0] = <<>> /\ 1 .. 0 = {}
    BY <2>1, <2>2
  <2> QED BY <1>1, <1>2, <2>3 DEF InkUpTo
<1>4. ASSUME NEW i \in 1 .. Len(t), i - 1 \in P PROVE i \in P
  <2>1. PICK f : InkUpTo(t, i - 1, f)
    BY <1>1, <1>4
  <2>2. PICK x : x = IF t[i] \in Blank THEN f[i - 1] ELSE Append(f[i - 1], t[i])
    OBVIOUS
  <2>3. x \in Text
    <3>1. f[i - 1] \in Text /\ t[i] \in CharKind
      BY <1>2, <2>1, ElementOfSeq DEF InkUpTo, Text
    <3> QED BY <2>2, <3>1, AppendProperties DEF Text
  <2>4. PICK g : g = [k \in 0 .. i |-> IF k = i THEN x ELSE f[k]]
    OBVIOUS
  <2>5. g \in [0 .. i -> Text]
    <3>1. \A k \in 0 .. i : k = i \/ k \in 0 .. i - 1
      BY <1>2
    <3>2. \A k \in 0 .. i - 1 : f[k] \in Text
      BY <2>1 DEF InkUpTo
    <3> QED BY <2>3, <2>4, <3>1, <3>2
  <2>6. g[i] = x /\ \A k \in 0 .. i - 1 : g[k] = f[k]
    BY <1>2, <2>4
  <2>7. ASSUME NEW n \in 1 .. i
        PROVE  g[n] = IF t[n] \in Blank THEN g[n - 1] ELSE Append(g[n - 1], t[n])
    <3>1. n - 1 \in 0 .. i - 1
      BY <1>2
    <3>2. CASE n = i
      BY <2>2, <2>6, <3>1, <3>2
    <3>3. CASE n # i
      <4>1. n \in 1 .. i - 1 /\ n \in 0 .. i - 1
        BY <1>2, <3>3
      <4> QED BY <2>1, <2>6, <3>1, <4>1 DEF InkUpTo
    <3> QED BY <3>2, <3>3
  <2>8. g[0] = <<>>
    <3>1. 0 \in 0 .. i - 1
      BY <1>2
    <3> QED BY <2>1, <2>6, <3>1 DEF InkUpTo
  <2>9. InkUpTo(t, i, g)
    BY <2>5, <2>7, <2>8 DEF InkUpTo
  <2>10. i \in 0 .. Len(t)
    BY <1>2
  <2> QED BY <1>1, <2>9, <2>10
<1>5. 0 .. Len(t) \subseteq P
  BY <1>2, <1>3, <1>4, UpwardFromZero
<1>6. Len(t) \in P
  BY <1>2, <1>5
<1> QED BY <1>1, <1>6

LEMMA InkIs ==
  ASSUME NEW t \in Text, NEW g, InkUpTo(t, Len(t), g)
  PROVE  Ink(t) = g[Len(t)]
<1>1. PICK len \in Nat : len = Len(t)
  BY LenProperties DEF Text
<1>2. \A n \in 0 .. len : n = 0 \/ n \in 1 .. len
  OBVIOUS
<1>3. \A n \in 0 .. len :
        g[n] = IF n = 0 THEN <<>>
               ELSE IF t[n] \in Blank THEN g[n - 1] ELSE Append(g[n - 1], t[n])
  BY <1>1, <1>2, Zenon DEF InkUpTo
<1>4. DOMAIN g = 0 .. len /\ g \in [0 .. len -> Text]
  BY <1>1 DEF InkUpTo
<1>5. g = [n \in 0 .. len |->
             IF n = 0 THEN <<>>
             ELSE IF t[n] \in Blank THEN g[n - 1] ELSE Append(g[n - 1], t[n])]
  BY <1>3, <1>4
<1>6. PICK f : /\ f = [n \in 0 .. len |->
                         IF n = 0 THEN <<>>
                         ELSE IF t[n] \in Blank THEN f[n - 1] ELSE Append(f[n - 1], t[n])]
               /\ Ink(t) = f[len]
  <2>1. g = [n \in 0 .. Len(t) |->
             IF n = 0 THEN <<>>
             ELSE IF t[n] \in Blank THEN g[n - 1] ELSE Append(g[n - 1], t[n])]
    BY <1>1, <1>5
  <2>2. \E f : /\ f = [n \in 0 .. Len(t) |->
                         IF n = 0 THEN <<>>
                         ELSE IF t[n] \in Blank THEN f[n - 1] ELSE Append(f[n - 1], t[n])]
               /\ Ink(t) = f[Len(t)]
    BY <2>1, Zenon DEF Ink
  <2> QED BY <1>1, <2>2
<1>7. ASSUME NEW n \in 0 .. len
      PROVE  /\ f[n] = IF n = 0 THEN <<>>
                       ELSE IF t[n] \in Blank THEN f[n - 1] ELSE Append(f[n - 1], t[n])
             /\ g[n] = IF n = 0 THEN <<>>
                       ELSE IF t[n] \in Blank THEN g[n - 1] ELSE Append(g[n - 1], t[n])
  BY <1>3, <1>6, Zenon
<1>8. PICK P : P = {n \in 0 .. len : f[n] = g[n]}
  OBVIOUS
<1>9. 0 \in P
  <2>1. 0 \in 0 .. len
    OBVIOUS
  <2>2. f[0] = <<>> /\ g[0] = <<>>
    BY <1>7, <2>1
  <2> QED BY <1>8, <2>1, <2>2
<1>10. ASSUME NEW i \in 1 .. len, i - 1 \in P PROVE i \in P
  <2>1. i \in 0 .. len /\ i # 0 /\ f[i - 1] = g[i - 1]
    BY <1>8, <1>10
  <2>2. /\ f[i] = IF t[i] \in Blank THEN f[i - 1] ELSE Append(f[i - 1], t[i])
        /\ g[i] = IF t[i] \in Blank THEN g[i - 1] ELSE Append(g[i - 1], t[i])
    BY <1>7, <2>1
  <2> QED BY <1>8, <2>1, <2>2
<1>11. 0 .. len \subseteq P
  BY <1>9, <1>10, UpwardFromZero
<1>12. len \in P
  BY <1>11
<1> QED BY <1>1, <1>6, <1>8, <1>12

LEMMA InkTyped ==
  ASSUME NEW t \in Text
  PROVE  Ink(t) \in Text
<1>1. PICK f : InkUpTo(t, Len(t), f)
  BY InkExists
<1>2. Len(t) \in 0 .. Len(t)
  BY LenProperties DEF Text
<1> QED BY <1>1, <1>2, InkIs DEF InkUpTo

LEMMA InkOfNothing == Ink(<<>>) = <<>>
<1>1. <<>> \in Text /\ Len(<<>>) = 0
  BY EmptySeq DEF Text
<1>2. PICK f : InkUpTo(<<>>, Len(<<>>), f)
  BY <1>1, InkExists
<1> QED BY <1>1, <1>2, InkIs DEF InkUpTo

LEMMA InkAppend ==
  ASSUME NEW t \in Text, NEW ch \in CharKind
  PROVE  Ink(Append(t, ch)) = IF ch \in Blank THEN Ink(t) ELSE Append(Ink(t), ch)
<1>1. PICK len \in Nat : len = Len(t)
  BY LenProperties DEF Text
<1>2. PICK s : s = Append(t, ch)
  OBVIOUS
<1>3. s \in Text /\ Len(s) = len + 1 /\ s[len + 1] = ch /\ \A i \in 1 .. len : s[i] = t[i]
  BY <1>1, <1>2, AppendProperties DEF Text
<1>4. PICK f : InkUpTo(s, len + 1, f)
  BY <1>3, InkExists
<1>5. Ink(s) = f[len + 1]
  BY <1>3, <1>4, InkIs
<1>6. PICK g : g = [k \in 0 .. len |-> f[k]]
  OBVIOUS
<1>7. InkUpTo(t, len, g)
  <2>1. \A k \in 0 .. len : f[k] \in Text /\ g[k] = f[k]
    BY <1>4, <1>6 DEF InkUpTo
  <2>2. g \in [0 .. len -> Text]
    BY <1>6, <2>1
  <2>3. g[0] = <<>>
    BY <1>4, <2>1 DEF InkUpTo
  <2>4. ASSUME NEW n \in 1 .. len
        PROVE  g[n] = IF t[n] \in Blank THEN g[n - 1] ELSE Append(g[n - 1], t[n])
    <3>1. n \in 1 .. len + 1 /\ n \in 0 .. len /\ n - 1 \in 0 .. len
      OBVIOUS
    <3> QED BY <1>3, <1>4, <2>1, <3>1 DEF InkUpTo
  <2> QED BY <2>2, <2>3, <2>4 DEF InkUpTo
<1>8. Ink(t) = g[len]
  BY <1>1, <1>7, InkIs
<1>9. g[len] = f[len]
  BY <1>6
<1>10. f[len + 1] = IF s[len + 1] \in Blank THEN f[len] ELSE Append(f[len], s[len + 1])
  <2>1. PICK k : k = len + 1
    OBVIOUS
  <2>2. k \in 1 .. len + 1 /\ k - 1 = len
    BY <2>1
  <2> QED BY <1>4, <2>1, <2>2 DEF InkUpTo
<1> QED BY <1>2, <1>3, <1>5, <1>8, <1>9, <1>10

LEMMA InkJoins ==
  ASSUME NEW a \in Text, NEW b \in Text
  PROVE  a \o b \in Text /\ Ink(a \o b) = Ink(a) \o Ink(b)
<1>1. PICK P : P = {n \in 0 .. Len(b) : Ink(a \o Prefix(b, n)) = Ink(a) \o Ink(Prefix(b, n))}
  OBVIOUS
<1>2. Len(b) \in Nat /\ Ink(a) \in Text
  BY LenProperties, InkTyped DEF Text
<1>3. 0 \in P
  <2>1. Prefix(b, 0) = <<>>
    <3>1. 0 < 1 /\ 0 \in Int /\ 1 \in Int
      OBVIOUS
    <3> QED BY <3>1, SubSeqEmpty DEF Prefix
  <2>2. a \o <<>> = a /\ Ink(a) \o <<>> = Ink(a)
    BY <1>2, ConcatEmptySeq DEF Text
  <2>3. Ink(a \o Prefix(b, 0)) = Ink(a) \o Ink(Prefix(b, 0))
    BY <2>1, <2>2, InkOfNothing
  <2> QED BY <1>1, <1>2, <2>3
<1>4. ASSUME NEW i \in 1 .. Len(b), i - 1 \in P PROVE i \in P
  <2>1. PICK p : p = Prefix(b, i - 1)
    OBVIOUS
  <2>2. PICK ch : ch = b[i]
    OBVIOUS
  <2>3. p \in Text /\ ch \in CharKind /\ Prefix(b, i) = Append(p, ch)
    BY <2>1, <2>2, NextPrefix
  <2>4. a \o p \in Text /\ a \o Append(p, ch) = Append(a \o p, ch)
    <3>1. a \o p \in Seq(CharKind) /\ <<ch>> \in Seq(CharKind)
      BY <2>3, ConcatProperties DEF Text
    <3>2. Append(p, ch) = p \o <<ch>> /\ Append(a \o p, ch) = (a \o p) \o <<ch>>
      BY <2>3, <3>1, AppendIsConcat DEF Text
    <3>3. (a \o p) \o <<ch>> = a \o (p \o <<ch>>)
      <4>1. a \in Seq(CharKind) /\ p \in Seq(CharKind) /\ <<ch>> \in Seq(CharKind)
        BY <2>3, <3>1 DEF Text
      <4> QED BY <4>1, ConcatAssociative
    <3> QED BY <3>1, <3>2, <3>3 DEF Text
  <2>5. Ink(a \o p) = Ink(a) \o Ink(p)
    BY <1>1, <1>4, <2>1
  <2>6. Ink(p) \in Text
    BY <2>3, InkTyped
  <2>7. Ink(a) \o Append(Ink(p), ch) = Append(Ink(a) \o Ink(p), ch)
    <3>0. PICK x \in Seq(CharKind), y \in Seq(CharKind), z \in Seq(CharKind) :
            x = Ink(a) /\ y = Ink(p) /\ z = <<ch>>
      <4>1. <<ch>> \in Seq(CharKind) /\ Ink(a) \in Seq(CharKind) /\ Ink(p) \in Seq(CharKind)
        BY <1>2, <2>3, <2>6 DEF Text
      <4> QED BY <4>1, Zenon
    <3>1. x \o y \in Seq(CharKind)
      BY <3>0, ConcatProperties
    <3>2. Append(y, ch) = y \o z /\ Append(x \o y, ch) = (x \o y) \o z
      BY <2>3, <3>0, <3>1, AppendIsConcat
    <3>3. (x \o y) \o z = x \o (y \o z)
      BY ConcatAssociative
    <3> QED BY <3>0, <3>2, <3>3
  <2>8. /\ Ink(Append(p, ch)) = IF ch \in Blank THEN Ink(p) ELSE Append(Ink(p), ch)
        /\ Ink(Append(a \o p, ch)) = IF ch \in Blank THEN Ink(a \o p) ELSE Append(Ink(a \o p), ch)
    BY <2>3, <2>4, InkAppend
  <2>9. Ink(a \o Prefix(b, i)) = Ink(a) \o Ink(Prefix(b, i))
    BY <2>3, <2>4, <2>5, <2>7, <2>8
  <2>10. i \in 0 .. Len(b)
    BY <1>2
  <2> QED BY <1>1, <2>9, <2>10
<1>5. 0 .. Len(b) \subseteq P
  BY <1>2, <1>3, <1>4, UpwardFromZero
<1>6. Len(b) \in P
  BY <1>2, <1>5
<1>7. Prefix(b, Len(b)) = b
  BY SubSeqFull DEF Prefix, Text
<1>8. a \o b \in Text
  BY ConcatProperties DEF Text
<1> QED BY <1>1, <1>6, <1>7, <1>8

LEMMA BlankInk ==
  ASSUME NEW t \in Text, \A i \in 1 .. Len(t) : t[i] \in Blank
  PROVE  Ink(t) = <<>>
<1>1. PICK P : P = {n \in 0 .. Len(t) : Ink(Prefix(t, n)) = <<>>}
  OBVIOUS
<1>2. Len(t) \in Nat
  BY LenProperties DEF Text
<1>3. 0 \in P
  <2>1. 0 < 1 /\ 0 \in Int /\ 1 \in Int
    OBVIOUS
  <2>2. Prefix(t, 0) = <<>>
    BY <2>1, SubSeqEmpty DEF Prefix
  <2> QED BY <1>1, <1>2, <2>2, InkOfNothing
<1>4. ASSUME NEW i \in 1 .. Len(t), i - 1 \in P PROVE i \in P
  <2>1. PICK p : p = Prefix(t, i - 1)
    OBVIOUS
  <2>2. PICK ch : ch = t[i]
    OBVIOUS
  <2>3. p \in Text /\ ch \in CharKind /\ Prefix(t, i) = Append(p, ch) /\ ch \in Blank
    BY <2>1, <2>2, NextPrefix
  <2>4. Ink(Append(p, ch)) = Ink(p)
    BY <2>3, InkAppend
  <2>5. Ink(p) = <<>> /\ i \in 0 .. Len(t)
    BY <1>1, <1>2, <1>4, <2>1
  <2> QED BY <1>1, <2>3, <2>4, <2>5
<1>5. 0 .. Len(t) \subseteq P
  BY <1>2, <1>3, <1>4, UpwardFromZero
<1>6. Len(t) \in P
  BY <1>2, <1>5
<1>7. Prefix(t, Len(t)) = t
  BY SubSeqFull DEF Prefix, Text
<1> QED BY <1>1, <1>6, <1>7

\* What is written before a character that is not blank is less than what is
\* written up to it.
LEMMA InkGrows ==
  ASSUME NEW t \in Text, NEW m \in 0 .. Len(t), NEW n \in 0 .. Len(t), m < n,
         t[m + 1] \notin Blank
  PROVE  Ink(Prefix(t, m)) # Ink(Prefix(t, n))
<1>1. PICK k : k = m + 1
  OBVIOUS
<1>2. Len(t) \in Nat /\ k \in 1 .. Len(t) /\ k - 1 = m /\ k \in 0 .. n
  BY <1>1, LenProperties DEF Text
<1>3. /\ Prefix(t, k) = Append(Prefix(t, m), t[k])
      /\ Prefix(t, m) \in Text /\ t[k] \in CharKind
  BY <1>2, NextPrefix
<1>4. PICK a : a = Ink(Prefix(t, m))
  OBVIOUS
<1>5. a \in Text
  BY <1>3, <1>4, InkTyped
<1>6. Ink(Prefix(t, k)) = Append(a, t[k])
  BY <1>1, <1>3, <1>4, InkAppend
<1>7. PICK whole : whole = Prefix(t, n)
  OBVIOUS
<1>8. whole \in Text /\ Len(whole) = n
  BY <1>7, Parts
<1>9. PICK rest \in Text : whole = Prefix(t, k) \o rest
  <2>1. Prefix(whole, k) = Prefix(t, k)
    <3>1. 1 \in 1 .. Len(t) + 1
      BY <1>2
    <3>2. Prefix(whole, k) \in Text /\ Len(Prefix(whole, k)) = k /\ \A i \in 1 .. k : Prefix(whole, k)[i] = whole[i]
      BY <1>2, <1>8, Parts
    <3>3. Prefix(t, k) \in Text /\ Len(Prefix(t, k)) = k /\ \A i \in 1 .. k : Prefix(t, k)[i] = t[i]
      <4>1. k \in 0 .. Len(t)
        BY <1>2
      <4> QED BY <4>1, Parts
    <3>4. \A i \in 1 .. n : whole[i] = t[i]
      BY <1>7, Parts
    <3>5. \A i \in 1 .. k : i \in 1 .. n
      BY <1>2
    <3>6. \A i \in 1 .. Len(Prefix(t, k)) : Prefix(whole, k)[i] = Prefix(t, k)[i]
      BY <3>2, <3>3, <3>4, <3>5
    <3> QED BY <3>2, <3>3, <3>6, SeqEqual DEF Text
  <2>2. k \in 0 .. Len(whole)
    BY <1>2, <1>8
  <2>3. Rest(whole, k) \in Text /\ whole = Prefix(whole, k) \o Rest(whole, k)
    BY <1>8, <2>2, Parts
  <2> QED BY <2>1, <2>3
<1>10. Prefix(t, k) \in Text
  <2>1. k \in 0 .. Len(t)
    BY <1>2
  <2> QED BY <2>1, Parts
<1>11. Ink(whole) = Append(a, t[k]) \o Ink(rest) /\ Ink(rest) \in Text
  BY <1>6, <1>9, <1>10, InkJoins, InkTyped
<1>12. /\ Append(a, t[k]) \in Seq(CharKind) /\ Len(Append(a, t[k])) = Len(a) + 1
       /\ Len(a) \in Nat
  BY <1>3, <1>5, AppendProperties, LenProperties DEF Text
<1>13. Len(Ink(whole)) = Len(a) + 1 + Len(Ink(rest)) /\ Len(Ink(rest)) \in Nat
  BY <1>11, <1>12, ConcatProperties, LenProperties DEF Text
<1> QED BY <1>4, <1>7, <1>12, <1>13

-----------------------------------------------------------------------------
(* Trimming                                                                *)

LEMMA Part ==
  ASSUME NEW t \in Text, NEW m \in 1 .. Len(t) + 1, NEW n \in m - 1 .. Len(t)
  PROVE  /\ SubSeq(t, m, n) \in Text /\ Len(SubSeq(t, m, n)) = n - m + 1
         /\ \A i \in 1 .. n - m + 1 : SubSeq(t, m, n)[i] = t[m + i - 1]
<1>1. Len(t) \in Nat /\ m \in Int /\ n \in Int /\ \A i \in m .. n : i \in 1 .. Len(t)
  BY LenProperties DEF Text
<1>2. \A i \in m .. n : t[i] \in CharKind
  BY <1>1, ElementOfSeq DEF Text
<1>3. /\ SubSeq(t, m, n) \in Seq(CharKind)
      /\ Len(SubSeq(t, m, n)) = IF m <= n THEN n - m + 1 ELSE 0
      /\ \A i \in 1 .. n - m + 1 : SubSeq(t, m, n)[i] = t[m + i - 1]
  BY <1>1, <1>2, SubSeqProperties
<1>4. m <= n \/ n - m + 1 = 0
  BY <1>1
<1>5. Len(SubSeq(t, m, n)) = n - m + 1
  BY <1>3, <1>4
<1> QED BY <1>3, <1>5 DEF Text

\* The ink of t begins at m and ends at n.
InkSpans(t, m, n) ==
  /\ t[m] \notin Blank /\ t[n] \notin Blank
  /\ \A i \in 1 .. Len(t) : t[i] \notin Blank => m <= i /\ i <= n

LEMMA TrimAs ==
  ASSUME NEW t \in Text, NEW m \in 1 .. Len(t), NEW n \in m .. Len(t), InkSpans(t, m, n)
  PROVE  /\ Trim(t) = SubSeq(t, m, n) /\ TrimRight(t) = Prefix(t, n)
         /\ Greatest(InkOf(t)) = n /\ InkOf(t) # {}
<1>1. Len(t) \in Nat /\ DOMAIN t = 1 .. Len(t) /\ n \in 1 .. Len(t)
  BY LenProperties DEF Text
<1>2. PICK S : S = InkOf(t)
  OBVIOUS
<1>3. /\ S \in SUBSET (1 .. Len(t)) /\ m \in S /\ n \in S
      /\ \A i \in S : m <= i /\ i <= n
  BY <1>1, <1>2 DEF InkOf, InkSpans
<1>4. Greatest(S) = n
  <2>1. PICK g : g = Greatest(S)
    OBVIOUS
  <2>2. g \in S /\ n <= g
    <3>1. Greatest(S) \in S /\ \A x \in S : x <= Greatest(S)
      BY <1>1, <1>3, GreatestIs
    <3> QED BY <1>3, <2>1, <3>1
  <2>3. g \in Int /\ n \in Int /\ g <= n
    BY <1>1, <1>3, <2>2
  <2>4. g = n
    BY <2>2, <2>3
  <2> QED BY <2>1, <2>4
<1>5. Min(S) = m
  <2>1. S \in SUBSET Nat
    BY <1>3
  <2>2. PICK g : g = Min(S)
    OBVIOUS
  <2>3. g \in S /\ g <= m
    <3>1. Min(S) \in S /\ \A x \in S : Min(S) <= x
      BY <1>3, <2>1, Lesser
    <3> QED BY <1>3, <2>2, <3>1
  <2>4. g \in Int /\ m \in Int /\ m <= g
    BY <1>1, <1>3, <2>3
  <2>5. g = m
    BY <2>3, <2>4
  <2> QED BY <2>2, <2>5
<1>6. TrimRight(t) = Prefix(t, n)
  BY <1>2, <1>4 DEF TrimRight
<1>7. PICK p : p = Prefix(t, n)
  OBVIOUS
<1>8. p \in Text /\ Len(p) = n /\ \A i \in 1 .. n : p[i] = t[i]
  <2>1. n \in 0 .. Len(t)
    BY <1>1
  <2> QED BY <1>7, <2>1, Parts
<1>9. Trim(t) = SubSeq(p, m - 1 + 1, n)
  BY <1>2, <1>3, <1>5, <1>6, <1>7, <1>8 DEF Trim, Rest
<1>10. SubSeq(p, m, n) = SubSeq(t, m, n)
  <2>1. m \in 1 .. Len(p) + 1 /\ n \in m - 1 .. Len(p) /\ m \in 1 .. Len(t) + 1 /\ n \in m - 1 .. Len(t)
    BY <1>1, <1>8
  <2>2. /\ SubSeq(p, m, n) \in Text /\ Len(SubSeq(p, m, n)) = n - m + 1
        /\ \A i \in 1 .. n - m + 1 : SubSeq(p, m, n)[i] = p[m + i - 1]
    BY <1>8, <2>1, Part
  <2>3. /\ SubSeq(t, m, n) \in Text /\ Len(SubSeq(t, m, n)) = n - m + 1
        /\ \A i \in 1 .. n - m + 1 : SubSeq(t, m, n)[i] = t[m + i - 1]
    BY <2>1, Part
  <2>4. \A i \in 1 .. n - m + 1 : m + i - 1 \in 1 .. n
    BY <1>1
  <2>5. \A i \in 1 .. Len(SubSeq(p, m, n)) : SubSeq(p, m, n)[i] = SubSeq(t, m, n)[i]
    BY <1>8, <2>2, <2>3, <2>4
  <2> QED BY <2>2, <2>3, <2>5, SeqEqual DEF Text
<1>11. m - 1 + 1 = m
  OBVIOUS
<1> QED BY <1>2, <1>3, <1>4, <1>6, <1>9, <1>10, <1>11

LEMMA InkFound ==
  ASSUME NEW t \in Text, NEW i \in 1 .. Len(t), t[i] \notin Blank
  PROVE  \E m \in 1 .. Len(t) : \E n \in m .. Len(t) : InkSpans(t, m, n)
<1>1. Len(t) \in Nat
  BY LenProperties DEF Text
<1>2. PICK S : S = {k \in 1 .. Len(t) : t[k] \notin Blank}
  OBVIOUS
<1>3. S \in SUBSET (1 .. Len(t)) /\ S \in SUBSET Nat /\ S # {} /\ i \in S
  BY <1>1, <1>2
<1>4. Min(S) \in S /\ \A x \in S : Min(S) <= x
  BY <1>3, Lesser
<1>5. Greatest(S) \in S /\ \A x \in S : x <= Greatest(S)
  BY <1>1, <1>3, GreatestIs
<1>6. PICK m \in 1 .. Len(t), n \in 1 .. Len(t) : m = Min(S) /\ n = Greatest(S)
  BY <1>3, <1>4, <1>5
<1>7. n \in m .. Len(t)
  BY <1>4, <1>5, <1>6
<1>8. InkSpans(t, m, n)
  BY <1>2, <1>4, <1>5, <1>6 DEF InkSpans
<1> QED BY <1>7, <1>8

LEMMA TrimNothing ==
  ASSUME NEW t \in Text, \A i \in 1 .. Len(t) : t[i] \in Blank
  PROVE  Trim(t) = <<>> /\ Ink(t) = <<>>
<1>1. InkOf(t) = {}
  BY LenProperties DEF InkOf, Text
<1> QED BY <1>1, BlankInk DEF Trim

\* A text that neither begins nor ends blank
Clean(t) == t \in Text /\ (t = <<>> \/ (t[1] \notin Blank /\ t[Len(t)] \notin Blank))

LEMMA TrimCleans ==
  ASSUME NEW t \in Text
  PROVE  Clean(Trim(t)) /\ Ink(Trim(t)) = Ink(t) /\ Len(Trim(t)) <= Len(t)
<1>1. Len(t) \in Nat
  BY LenProperties DEF Text
<1>2. CASE \A i \in 1 .. Len(t) : t[i] \in Blank
  <2>1. Trim(t) = <<>> /\ Ink(t) = <<>>
    BY <1>2, TrimNothing
  <2>2. <<>> \in Text /\ Len(<<>>) = 0
    BY EmptySeq DEF Text
  <2> QED BY <1>1, <2>1, <2>2, InkOfNothing DEF Clean
<1>3. CASE \E i \in 1 .. Len(t) : t[i] \notin Blank
  <2>1. PICK m \in 1 .. Len(t) : \E n \in m .. Len(t) : InkSpans(t, m, n)
    BY <1>3, InkFound
  <2>2. PICK n \in m .. Len(t) : InkSpans(t, m, n)
    BY <2>1
  <2>3. PICK s : s = SubSeq(t, m, n)
    OBVIOUS
  <2>4. Trim(t) = s
    BY <2>2, <2>3, TrimAs
  <2>5. /\ s \in Text /\ Len(s) = n - m + 1
        /\ \A i \in 1 .. n - m + 1 : s[i] = t[m + i - 1]
    <3>1. m \in 1 .. Len(t) + 1 /\ n \in m - 1 .. Len(t)
      BY <1>1
    <3> QED BY <2>3, <3>1, Part
  <2>6. s[1] = t[m] /\ s[Len(s)] = t[n]
    <3>1. PICK k : k = n - m + 1
      OBVIOUS
    <3>2. k \in 1 .. n - m + 1 /\ m + k - 1 = n /\ 1 \in 1 .. n - m + 1 /\ m + 1 - 1 = m
      BY <1>1, <3>1
    <3> QED BY <2>5, <3>1, <3>2
  <2>7. Clean(s)
    BY <2>2, <2>5, <2>6 DEF Clean, InkSpans
  <2>8. Ink(s) = Ink(t)
    <3>1. PICK a : a = Prefix(t, m - 1)
      OBVIOUS
    <3>2. PICK b : b = Rest(t, n)
      OBVIOUS
    <3>3. PICK c : c = Prefix(t, n)
      OBVIOUS
    <3>4. m - 1 \in 0 .. Len(t) /\ n \in 0 .. Len(t)
      BY <1>1
    <3>5. /\ a \in Text /\ Len(a) = m - 1 /\ \A i \in 1 .. m - 1 : a[i] = t[i]
          /\ b \in Text /\ Len(b) = Len(t) - n /\ \A i \in 1 .. Len(t) - n : b[i] = t[n + i]
          /\ c \in Text /\ Len(c) = n
      BY <3>1, <3>2, <3>3, <3>4, Parts
    <3>6. Ink(a) = <<>>
      <4>1. \A i \in 1 .. m - 1 : i \in 1 .. Len(t) /\ ~(m <= i)
        BY <1>1
      <4>2. \A i \in 1 .. m - 1 : t[i] \in Blank
        BY <2>2, <4>1 DEF InkSpans
      <4> QED BY <3>5, <4>2, BlankInk
    <3>7. Ink(b) = <<>>
      <4>1. \A i \in 1 .. Len(t) - n : n + i \in 1 .. Len(t) /\ ~(n + i <= n)
        BY <1>1
      <4>2. \A i \in 1 .. Len(t) - n : t[n + i] \in Blank
        BY <2>2, <4>1 DEF InkSpans
      <4> QED BY <3>5, <4>2, BlankInk
    <3>8. t = c \o b
      BY <3>2, <3>3, <3>4, Parts
    <3>9. c = a \o s
      <4>1. PICK k \in Int : k = m - 1
        OBVIOUS
      <4>2. 1 \in 1 .. Len(t) + 1 /\ k \in 1 - 1 .. Len(t) /\ n \in k .. Len(t) /\ k + 1 = m
        BY <1>1, <4>1
      <4>3. SubSeq(t, 1, k) \o SubSeq(t, k + 1, n) = SubSeq(t, 1, n)
        BY <4>2, ConcatAdjacentSubSeq DEF Text
      <4> QED BY <2>3, <3>1, <3>3, <4>1, <4>2, <4>3 DEF Prefix
    <3>10. Ink(t) = Ink(c) \o Ink(b) /\ Ink(c) = Ink(a) \o Ink(s)
      BY <2>5, <3>5, <3>8, <3>9, InkJoins
    <3>11. Ink(s) \in Seq(CharKind)
      BY <2>5, InkTyped DEF Text
    <3>12. <<>> \o Ink(s) = Ink(s) /\ Ink(s) \o <<>> = Ink(s)
      BY <3>11, ConcatEmptySeq
    <3> QED BY <3>6, <3>7, <3>10, <3>12
  <2> QED BY <1>1, <2>4, <2>5, <2>7, <2>8
<1> QED BY <1>2, <1>3

-----------------------------------------------------------------------------
(* Where a text is cut                                                     *)

LEMMA ClosingEndIs ==
  ASSUME NEW t \in Text, NEW cut \in 1 .. Len(t), NEW i \in 1 .. cut
  PROVE  /\ ClosingEnd(t, i, cut) \in i .. cut
         /\ ClosingEnd(t, i, cut) = i \/ t[ClosingEnd(t, i, cut)] = ")"
<1>1. Len(t) \in Nat /\ cut \in Nat
  BY LenProperties DEF Text
<1>2. PICK E : E = {e \in i .. cut : \A j \in i + 1 .. e : t[j] = ")"}
  OBVIOUS
<1>3. E \in SUBSET (1 .. cut) /\ i \in E
  <2>1. i \in i .. cut /\ i + 1 .. i = {} /\ \A e \in i .. cut : e \in 1 .. cut
    BY <1>1
  <2> QED BY <1>2, <2>1
<1>4. PICK e : e = Greatest(E)
  OBVIOUS
<1>5. e \in E /\ \A x \in E : x <= e
  BY <1>1, <1>3, <1>4, GreatestIs
<1>6. e \in i .. cut /\ \A j \in i + 1 .. e : t[j] = ")"
  BY <1>2, <1>5
<1>7. e < cut => t[e + 1] # ")"
  <2> SUFFICES ASSUME e < cut, t[e + 1] = ")" PROVE FALSE
    OBVIOUS
  <2>1. e + 1 \in i .. cut /\ ~(e + 1 <= e)
    BY <1>1, <1>6
  <2>2. \A j \in i + 1 .. e + 1 : j \in i + 1 .. e \/ j = e + 1
    BY <1>1, <1>6
  <2>3. \A j \in i + 1 .. e + 1 : t[j] = ")"
    BY <1>6, <2>2
  <2> QED BY <1>2, <1>5, <2>1, <2>3
<1>8. \E x \in i .. cut : /\ \A j \in i + 1 .. x : t[j] = ")"
                          /\ x < cut => t[x + 1] # ")"
  BY <1>6, <1>7
<1>9. PICK c : c = ClosingEnd(t, i, cut)
  OBVIOUS
<1>10. c \in i .. cut /\ \A j \in i + 1 .. c : t[j] = ")"
  BY <1>8, <1>9 DEF ClosingEnd
<1>11. c = i \/ c \in i + 1 .. c
  BY <1>1, <1>10
<1> QED BY <1>9, <1>10, <1>11

\* A cut is behind a blank, a dot or a parenthesis.
CutAfter(t, limit, b) == b \in 0 .. limit /\ (b > 0 => t[b] \in Blank \cup {".", ")"})

LEMMA BehindBlank ==
  ASSUME NEW t \in Text, NEW limit \in 0 .. Len(t), NEW S,
         \A i \in S : i \in 1 .. limit /\ Prefix(t, limit)[i] \in Blank
  PROVE  CutAfter(t, limit, Greatest(S))
<1>1. Len(t) \in Nat /\ limit \in Nat /\ \A i \in 1 .. limit : Prefix(t, limit)[i] = t[i]
  BY Parts
<1>2. S \in SUBSET (1 .. limit)
  OBVIOUS
<1>3. PICK g : g = Greatest(S)
  OBVIOUS
<1>4. g \in 0 .. limit /\ (g = 0 \/ g \in S)
  BY <1>1, <1>2, <1>3, GreatestIs
<1> QED BY <1>1, <1>3, <1>4 DEF CutAfter

LEMMA BehindDot ==
  ASSUME NEW t \in Text, NEW limit \in 1 .. Len(t)
  PROVE  CutAfter(t, limit, lastDotBoundary(t, limit))
<1>1. Len(t) \in Nat /\ limit \in Nat
  BY Parts, LenProperties DEF Text
<1>2. PICK ends : ends = {i \in 1 .. limit : t[i] = "." /\
                 LET e == ClosingEnd(t, i, limit) IN e < Len(t) /\ t[e + 1] \in Blank}
  OBVIOUS
<1>3. lastDotBoundary(t, limit) = IF ends = {} THEN 0 ELSE ClosingEnd(t, Max(ends), limit)
  BY <1>2 DEF lastDotBoundary
<1>4. CASE ends = {}
  BY <1>1, <1>3, <1>4 DEF CutAfter
<1>5. CASE ends # {}
  <2>1. ends \in SUBSET (0 .. limit)
    BY <1>2
  <2>2. Max(ends) \in ends
    BY <1>1, <1>5, <2>1, Greater
  <2>3. PICK i \in 1 .. limit : i = Max(ends) /\ t[i] = "."
    BY <1>2, <2>2
  <2>4. PICK c : c = ClosingEnd(t, i, limit)
    OBVIOUS
  <2>5. c \in i .. limit /\ (c = i \/ t[c] = ")")
    BY <2>4, ClosingEndIs
  <2>6. c \in 0 .. limit /\ t[c] \in {".", ")"}
    BY <1>1, <2>3, <2>5
  <2> QED BY <1>3, <1>5, <2>3, <2>4, <2>6 DEF CutAfter
<1> QED BY <1>4, <1>5

LEMMA TrimRightFits ==
  ASSUME NEW t \in Text
  PROVE  /\ TrimRight(t) \in Text /\ Len(TrimRight(t)) \in 0 .. Len(t)
         /\ LineStart(TrimRight(t)) \in 0 .. Len(TrimRight(t))
<1>1. Len(t) \in Nat
  BY LenProperties DEF Text
<1>2. InkOf(t) \in SUBSET (1 .. Len(t))
  BY LenProperties DEF InkOf, Text
<1>3. PICK g \in 0 .. Len(t) : g = Greatest(InkOf(t))
  BY <1>1, <1>2, GreatestIs
<1>4. PICK c : c = TrimRight(t)
  OBVIOUS
<1>5. c \in Text /\ Len(c) = g
  BY <1>3, <1>4, Parts DEF TrimRight
<1>6. DOMAIN c = 1 .. Len(c) /\ Len(c) \in Nat
  BY <1>5, LenProperties DEF Text
<1>7. {i \in DOMAIN c : c[i] = "line"} \in SUBSET (1 .. Len(c))
  BY <1>6
<1>8. LineStart(c) \in 0 .. Len(c)
  BY <1>6, <1>7, GreatestIs DEF LineStart
<1> QED BY <1>1, <1>3, <1>4, <1>5, <1>8

LEMMA SafeSplitFits ==
  ASSUME NEW t \in Text, NEW b \in 1 .. Len(t)
  PROVE  markdownHeadingSafeSplit(t, b) \in 0 .. b
<1>1. Len(t) \in Nat /\ b \in Nat /\ b \in 0 .. Len(t)
  BY LenProperties DEF Text
<1>2. PICK p : p = Prefix(t, b)
  OBVIOUS
<1>3. p \in Text /\ Len(p) = b
  BY <1>1, <1>2, Parts
<1>4. LineStart(TrimRight(p)) \in 0 .. b
  <2>1. Len(TrimRight(p)) \in 0 .. b /\ LineStart(TrimRight(p)) \in 0 .. Len(TrimRight(p))
    BY <1>3, TrimRightFits
  <2> QED BY <1>1, <2>1
<1>5. avoidTrailingMarkdownHeading(t, b) \in 0 .. b
  BY <1>1, <1>2, <1>4 DEF avoidTrailingMarkdownHeading
<1> QED BY <1>1, <1>5 DEF markdownHeadingSafeSplit

LEMMA BestIs ==
  ASSUME NEW t \in Text, NEW limit \in 1 .. Len(t)
  PROVE  \/ bestTextSplit(t, limit) = 0
         \/ \E b \in 1 .. limit :
              /\ CutAfter(t, limit, b) /\ bestTextSplit(t, limit) = markdownHeadingSafeSplit(t, b)
              /\ bestTextSplit(t, limit) > 0
<1>1. Len(t) \in Nat /\ limit \in Nat /\ limit \in 0 .. Len(t)
  BY LenProperties DEF Text
<1>2. PICK p : p = Prefix(t, limit)
  OBVIOUS
<1>3. p \in Text /\ Len(p) = limit /\ DOMAIN p = 1 .. limit
  <2>1. p \in Text /\ Len(p) = limit
    BY <1>1, <1>2, Parts
  <2> QED BY <2>1, LenProperties DEF Text
<1>4. PICK b1 : b1 = lastMultiLineBoundary(p)
  OBVIOUS
<1>5. PICK b2 : b2 = lastLineBoundary(p)
  OBVIOUS
<1>6. PICK b3 : b3 = lastDotBoundary(t, limit)
  OBVIOUS
<1>7. PICK b4 : b4 = lastWhitespaceBoundary(p)
  OBVIOUS
<1>8. CutAfter(t, limit, b1)
  <2>1. PICK S : S = {i \in 3 .. Len(p) : p[i] = "line" /\ p[i - 1] = "line"}
    OBVIOUS
  <2>2. b1 = Greatest(S)
    BY <1>4, <2>1 DEF lastMultiLineBoundary
  <2>3. \A i \in S : i \in 1 .. limit /\ Prefix(t, limit)[i] \in Blank
    BY <1>1, <1>2, <1>3, <2>1 DEF Blank
  <2> QED BY <1>1, <2>2, <2>3, BehindBlank
<1>9. CutAfter(t, limit, b2)
  <2>1. PICK S : S = {i \in 2 .. Len(p) : p[i] = "line"}
    OBVIOUS
  <2>2. b2 = Greatest(S)
    BY <1>5, <2>1 DEF lastLineBoundary
  <2>3. \A i \in S : i \in 1 .. limit /\ Prefix(t, limit)[i] \in Blank
    BY <1>1, <1>2, <1>3, <2>1 DEF Blank
  <2> QED BY <1>1, <2>2, <2>3, BehindBlank
<1>10. CutAfter(t, limit, b3)
  BY <1>6, BehindDot
<1>11. CutAfter(t, limit, b4)
  <2>1. PICK S : S = {i \in 2 .. Len(p) : p[i] \in Blank}
    OBVIOUS
  <2>2. b4 = Greatest(S)
    BY <1>7, <2>1 DEF lastWhitespaceBoundary
  <2>3. \A i \in S : i \in 1 .. limit /\ Prefix(t, limit)[i] \in Blank
    BY <1>1, <1>2, <1>3, <2>1
  <2> QED BY <1>1, <2>2, <2>3, BehindBlank
<1>12. PICK bs : bs = <<b1, b2, b3, b4>>
  OBVIOUS
<1>13. \A k \in 1 .. 4 : CutAfter(t, limit, bs[k])
  BY <1>8, <1>9, <1>10, <1>11, <1>12
<1>14. PICK safe : safe = {k \in 1 .. 4 : bs[k] > 0 /\ markdownHeadingSafeSplit(t, bs[k]) > 0}
  OBVIOUS
<1>15. bestTextSplit(t, limit) = IF safe = {} THEN 0 ELSE markdownHeadingSafeSplit(t, bs[Min(safe)])
  BY <1>2, <1>4, <1>5, <1>6, <1>7, <1>12, <1>14 DEF bestTextSplit
<1>16. CASE safe = {}
  BY <1>15, <1>16
<1>17. CASE safe # {}
  <2>1. safe \in SUBSET Nat
    BY <1>14
  <2>2. Min(safe) \in safe
    BY <1>17, <2>1, Lesser
  <2>3. PICK b : b = bs[Min(safe)]
    OBVIOUS
  <2>4. CutAfter(t, limit, b) /\ b > 0 /\ markdownHeadingSafeSplit(t, b) > 0
    BY <1>13, <1>14, <2>2, <2>3
  <2>5. b \in 1 .. limit
    BY <1>1, <2>4 DEF CutAfter
  <2> QED BY <1>15, <1>17, <2>3, <2>4, <2>5
<1> QED BY <1>16, <1>17

LEMMA CutFits ==
  ASSUME NEW t \in Text, t # <<>>, NEW limit \in Nat \ {0}
  PROVE  CutAt(t, limit) \in 1 .. Len(t) /\ CutAt(t, limit) <= limit
<1>1. Len(t) \in Nat \ {0}
  BY EmptySeq DEF Text
<1>2. CASE Len(t) <= limit
  BY <1>1, <1>2 DEF CutAt
<1>3. CASE limit < Len(t)
  <2>1. limit \in 1 .. Len(t)
    BY <1>1, <1>3
  <2>2. PICK best : best = bestTextSplit(t, limit)
    OBVIOUS
  <2>3. CutAt(t, limit) = IF best > 0 THEN best ELSE limit
    BY <1>1, <1>3, <2>2 DEF CutAt
  <2>4. best \in 0 .. limit
    <3>1. CASE best = 0
      BY <3>1
    <3>2. ASSUME NEW b \in 1 .. limit, best = markdownHeadingSafeSplit(t, b) PROVE best \in 0 .. limit
      <4>1. b \in 1 .. Len(t)
        BY <1>1, <1>3
      <4>2. best \in 0 .. b
        BY <3>2, <4>1, SafeSplitFits
      <4> QED BY <4>2
    <3> QED BY <2>1, <2>2, <3>1, <3>2, BestIs
  <2> QED BY <1>1, <1>3, <2>3, <2>4
<1> QED BY <1>1, <1>2, <1>3

\* A chunk fits the channel, and it and the rest are the text.
LEMMA ChunkTrue ==
  ASSUME NEW t, Clean(t), t # <<>>, NEW limit \in Nat \ {0}
  PROVE  /\ ChunkOf(t, limit) \in Text /\ Len(ChunkOf(t, limit)) \in 1 .. limit
         /\ Ink(ChunkOf(t, limit)) \o Ink(RestOf(t, limit)) = Ink(t)
<1>1. t \in Text /\ t[1] \notin Blank
  BY DEF Clean
<1>2. PICK cut : cut = CutAt(t, limit)
  OBVIOUS
<1>3. cut \in 1 .. Len(t) /\ cut <= limit /\ cut \in 0 .. Len(t) /\ cut \in Nat
  BY <1>1, <1>2, CutFits
<1>4. PICK p : p = Prefix(t, cut)
  OBVIOUS
<1>5. PICK r : r = Rest(t, cut)
  OBVIOUS
<1>6. p \in Text /\ Len(p) = cut /\ (\A i \in 1 .. cut : p[i] = t[i]) /\ r \in Text /\ t = p \o r
  BY <1>1, <1>3, <1>4, <1>5, Parts
<1>7. ChunkOf(t, limit) = Trim(p) /\ RestOf(t, limit) = Trim(r)
  BY <1>2, <1>4, <1>5 DEF ChunkOf, RestOf
<1>8. /\ Clean(Trim(p)) /\ Ink(Trim(p)) = Ink(p) /\ Len(Trim(p)) <= Len(p)
      /\ Ink(Trim(r)) = Ink(r)
  BY <1>6, TrimCleans
<1>9. Ink(p) \o Ink(r) = Ink(t)
  BY <1>6, InkJoins
<1>10. Trim(p) # <<>>
  <2>1. 1 \in 1 .. Len(p) /\ p[1] \notin Blank
    BY <1>1, <1>3, <1>6
  <2>2. PICK m \in 1 .. Len(p) : \E n \in m .. Len(p) : InkSpans(p, m, n)
    BY <1>6, <2>1, InkFound
  <2>3. PICK n \in m .. Len(p) : InkSpans(p, m, n)
    BY <2>2
  <2>4. Trim(p) = SubSeq(p, m, n)
    BY <1>6, <2>3, TrimAs
  <2>5. m \in 1 .. Len(p) + 1 /\ n \in m - 1 .. Len(p)
    BY <1>3, <1>6
  <2>6. Len(SubSeq(p, m, n)) = n - m + 1
    BY <1>6, <2>5, Part
  <2>7. Len(SubSeq(p, m, n)) # 0
    BY <1>3, <1>6, <2>6
  <2> QED BY <2>4, <2>7, EmptySeq
<1>11. Len(Trim(p)) \in 1 .. limit
  <2>1. Trim(p) \in Text /\ Len(Trim(p)) \in Nat \ {0}
    BY <1>8, <1>10, EmptySeq DEF Clean, Text
  <2> QED BY <1>3, <1>6, <1>8, <2>1
<1> QED BY <1>7, <1>8, <1>9, <1>11 DEF Clean

-----------------------------------------------------------------------------
(* Sequences of sequences                                                  *)

JoinsUpTo(parts, S, k, g) ==
  /\ g \in [1 .. k -> Seq(S)] /\ g[1] = parts[1]
  /\ \A i \in 2 .. k : g[i] = g[i - 1] \o parts[i]
LEMMA JoinsExist ==
  ASSUME NEW S, NEW parts \in Seq(Seq(S)), parts # <<>>
  PROVE  \E g \in [1 .. Len(parts) -> Seq(S)] : JoinsOf(parts, Len(parts), g)
<1>1. PICK n \in Nat \ {0} : n = Len(parts)
  BY EmptySeq
<1>2. \A i \in 1 .. n : parts[i] \in Seq(S)
  BY <1>1, ElementOfSeq
<1>3. PICK P : P = {k \in 1 .. n : \E g : JoinsUpTo(parts, S, k, g)}
  OBVIOUS
<1>4. 1 \in P
  <2>1. PICK g : g = [k \in 1 .. 1 |-> parts[1]]
    OBVIOUS
  <2>2. g[1] = parts[1] /\ g \in [1 .. 1 -> Seq(S)] /\ 2 .. 1 = {}
    BY <1>2, <2>1
  <2>3. JoinsUpTo(parts, S, 1, g)
    BY <2>2 DEF JoinsUpTo
  <2>4. 1 \in 1 .. n
    OBVIOUS
  <2> QED BY <1>3, <2>3, <2>4
<1>5. ASSUME NEW i \in 2 .. n, i - 1 \in P PROVE i \in P
  <2>1. PICK f : JoinsUpTo(parts, S, i - 1, f)
    BY <1>3, <1>5
  <2>2. f[i - 1] \in Seq(S) /\ parts[i] \in Seq(S)
    BY <1>2, <2>1 DEF JoinsUpTo
  <2>3. PICK x \in Seq(S) : x = f[i - 1] \o parts[i]
    BY <2>2, ConcatProperties
  <2>4. PICK g : g = [k \in 1 .. i |-> IF k = i THEN x ELSE f[k]]
    OBVIOUS
  <2>5. g[i] = x /\ \A k \in 1 .. i - 1 : g[k] = f[k]
    BY <2>4
  <2>6. g \in [1 .. i -> Seq(S)]
    <3>1. \A k \in 1 .. i : k = i \/ k \in 1 .. i - 1
      OBVIOUS
    <3>2. \A k \in 1 .. i - 1 : f[k] \in Seq(S)
      BY <2>1 DEF JoinsUpTo
    <3> QED BY <2>4, <3>1, <3>2
  <2>7. g[1] = parts[1]
    <3>1. 1 \in 1 .. i - 1
      OBVIOUS
    <3> QED BY <2>1, <2>5, <3>1 DEF JoinsUpTo
  <2>8. ASSUME NEW k \in 2 .. i PROVE g[k] = g[k - 1] \o parts[k]
    <3>1. k - 1 \in 1 .. i - 1 /\ (k = i \/ (k \in 2 .. i - 1 /\ k \in 1 .. i - 1))
      OBVIOUS
    <3> QED BY <2>1, <2>3, <2>5, <3>1 DEF JoinsUpTo
  <2>9. JoinsUpTo(parts, S, i, g)
    BY <2>6, <2>7, <2>8 DEF JoinsUpTo
  <2>10. i \in 1 .. n
    OBVIOUS
  <2> QED BY <1>3, <2>9, <2>10
<1>6. 1 .. n \subseteq P
  BY <1>4, <1>5, Upward
<1>7. n \in P
  BY <1>6
<1>8. PICK g : JoinsUpTo(parts, S, n, g)
  BY <1>3, <1>7
<1>9. JoinsOf(parts, n, g)
  BY <1>1, <1>8 DEF JoinsOf, JoinsUpTo
<1> QED BY <1>1, <1>8, <1>9 DEF JoinsUpTo

LEMMA FlatNothing == FlattenSeq(<<>>) = <<>>
<1>1. Len(<<>>) = 0
  BY EmptySeq
<1> QED BY <1>1 DEF FlattenSeq

LEMMA FlatTyped ==
  ASSUME NEW S, NEW parts \in Seq(Seq(S))
  PROVE  FlattenSeq(parts) \in Seq(S)
<1>1. CASE parts = <<>>
  BY <1>1, FlatNothing, EmptySeq
<1>2. CASE parts # <<>>
  <2>1. PICK g \in [1 .. Len(parts) -> Seq(S)] : JoinsOf(parts, Len(parts), g)
    BY <1>2, JoinsExist
  <2>2. Len(parts) \in Nat \ {0}
    BY <1>2, EmptySeq
  <2>3. FlattenSeq(parts) = g[Len(parts)]
    BY <2>1, <2>2, Joined
  <2>4. Len(parts) \in 1 .. Len(parts)
    BY <2>2
  <2> QED BY <2>1, <2>3, <2>4
<1> QED BY <1>1, <1>2

LEMMA FlatAppends ==
  ASSUME NEW S, NEW parts \in Seq(Seq(S)), NEW part \in Seq(S)
  PROVE  FlattenSeq(Append(parts, part)) = FlattenSeq(parts) \o part
<1>1. PICK more : more = Append(parts, part)
  OBVIOUS
<1>2. PICK n \in Nat : n = Len(parts)
  BY LenProperties
<1>3. /\ more \in Seq(Seq(S)) /\ Len(more) = n + 1 /\ more[n + 1] = part
      /\ \A i \in 1 .. n : more[i] = parts[i]
  BY <1>1, <1>2, AppendProperties
<1>4. PICK m : m = n + 1
  OBVIOUS
<1>5. m \in Nat \ {0} /\ m \in 1 .. m /\ m - 1 = n /\ m = Len(more) /\ more[m] = part
  <2>1. m \in Nat \ {0} /\ m \in 1 .. m /\ m - 1 = n
    BY <1>4
  <2> QED BY <1>3, <1>4, <2>1
<1>6. more # <<>>
  BY <1>5, EmptySeq
<1>7. PICK g \in [1 .. m -> Seq(S)] : JoinsOf(more, m, g)
  BY <1>3, <1>5, <1>6, JoinsExist
<1>8. FlattenSeq(more) = g[m]
  BY <1>5, <1>7, Joined
<1>9. CASE n = 0
  <2>1. parts = <<>>
    BY <1>2, <1>9, EmptySeq
  <2>2. g[1] = part
    BY <1>5, <1>7, <1>9 DEF JoinsOf
  <2>3. <<>> \o part = part
    BY ConcatEmptySeq
  <2> QED BY <1>1, <1>5, <1>8, <1>9, <2>1, <2>2, <2>3, FlatNothing
<1>10. CASE n # 0
  <2>1. g[m] = g[n] \o part
    <3>1. m \in 2 .. m
      BY <1>5, <1>10
    <3> QED BY <1>5, <1>7, <3>1 DEF JoinsOf
  <2>2. PICK h : h = [i \in 1 .. n |-> g[i]]
    OBVIOUS
  <2>3. \A i \in 1 .. n : h[i] = g[i] /\ g[i] \in Seq(S)
    <3>1. \A i \in 1 .. n : i \in 1 .. m
      BY <1>5
    <3> QED BY <2>2, <3>1
  <2>4. JoinsOf(parts, n, h)
    <3>1. h \in [1 .. n -> Seq(S)]
      BY <2>2, <2>3
    <3>2. h[1] = parts[1]
      <4>1. 1 \in 1 .. n
        BY <1>10
      <4> QED BY <1>3, <1>7, <2>3, <4>1 DEF JoinsOf
    <3>3. ASSUME NEW i \in 2 .. n PROVE h[i] = h[i - 1] \o parts[i]
      <4>1. i \in 1 .. n /\ i - 1 \in 1 .. n /\ i \in 2 .. m
        BY <1>5
      <4> QED BY <1>3, <1>7, <2>3, <4>1 DEF JoinsOf
    <3> QED BY <1>2, <3>1, <3>2, <3>3 DEF JoinsOf
  <2>5. FlattenSeq(parts) = h[n]
    BY <1>10, <2>4, Joined
  <2>6. h[n] = g[n]
    <3>1. n \in 1 .. n
      BY <1>10
    <3> QED BY <2>3, <3>1
  <2> QED BY <1>1, <1>8, <2>1, <2>5, <2>6
<1> QED BY <1>9, <1>10

-----------------------------------------------------------------------------
(* What is left of a text                                                  *)

LEMMA PartOfPart ==
  ASSUME NEW t \in Text, NEW m \in 1 .. Len(t) + 1, NEW n \in m - 1 .. Len(t),
         NEW i \in 1 .. n - m + 2, NEW j \in i - 1 .. n - m + 1
  PROVE  SubSeq(SubSeq(t, m, n), i, j) = SubSeq(t, m + i - 1, m + j - 1)
<1>1. Len(t) \in Nat
  BY LenProperties DEF Text
<1>2. PICK s : s = SubSeq(t, m, n)
  OBVIOUS
<1>3. s \in Text /\ Len(s) = n - m + 1 /\ \A k \in 1 .. n - m + 1 : s[k] = t[m + k - 1]
  BY <1>2, Part
<1>4. PICK a : a = SubSeq(s, i, j)
  OBVIOUS
<1>5. a \in Text /\ Len(a) = j - i + 1 /\ \A k \in 1 .. j - i + 1 : a[k] = s[i + k - 1]
  <2>1. i \in 1 .. Len(s) + 1 /\ j \in i - 1 .. Len(s)
    BY <1>1, <1>3
  <2> QED BY <1>3, <1>4, <2>1, Part
<1>6. PICK x : x = m + i - 1
  OBVIOUS
<1>7. PICK y : y = m + j - 1
  OBVIOUS
<1>8. x \in 1 .. Len(t) + 1 /\ y \in x - 1 .. Len(t) /\ y - x + 1 = j - i + 1
  BY <1>1, <1>6, <1>7
<1>9. PICK b : b = SubSeq(t, x, y)
  OBVIOUS
<1>10. b \in Text /\ Len(b) = y - x + 1 /\ \A k \in 1 .. y - x + 1 : b[k] = t[x + k - 1]
  BY <1>8, <1>9, Part
<1>11. ASSUME NEW k \in 1 .. j - i + 1 PROVE a[k] = b[k]
  <2>1. PICK l : l = i + k - 1
    OBVIOUS
  <2>2. l \in 1 .. n - m + 1 /\ m + l - 1 = x + k - 1
    BY <1>1, <1>6, <2>1
  <2>3. a[k] = s[l] /\ s[l] = t[m + l - 1] /\ b[k] = t[x + k - 1]
    BY <1>3, <1>5, <1>8, <1>10, <2>1, <2>2
  <2> QED BY <2>2, <2>3
<1>12. a = b
  BY <1>5, <1>8, <1>10, <1>11, SeqEqual DEF Text
<1> QED BY <1>2, <1>4, <1>6, <1>7, <1>9, <1>12

LEMMA InkUpward ==
  ASSUME NEW t \in Text, NEW k \in 0 .. Len(t), NEW n \in k .. Len(t)
  PROVE  /\ Prefix(t, k) \in Text /\ SubSeq(t, k + 1, n) \in Text
         /\ Ink(Prefix(t, n)) = Ink(Prefix(t, k)) \o Ink(SubSeq(t, k + 1, n))
         /\ (\A i \in k + 1 .. n : t[i] \in Blank) => Ink(Prefix(t, n)) = Ink(Prefix(t, k))
<1>1. Len(t) \in Nat
  BY LenProperties DEF Text
<1>2. 1 \in 1 .. Len(t) + 1 /\ k \in 1 - 1 .. Len(t) /\ k + 1 \in 1 .. Len(t) + 1 /\ n \in k + 1 - 1 .. Len(t)
  BY <1>1
<1>3. PICK a : a = Prefix(t, k)
  OBVIOUS
<1>4. PICK b : b = SubSeq(t, k + 1, n)
  OBVIOUS
<1>5. a \in Text
  BY <1>3, Parts
<1>6. b \in Text /\ Len(b) = n - (k + 1) + 1 /\ \A i \in 1 .. n - (k + 1) + 1 : b[i] = t[k + 1 + i - 1]
  BY <1>2, <1>4, Part
<1>7. Prefix(t, n) = a \o b
  BY <1>2, <1>3, <1>4, ConcatAdjacentSubSeq DEF Prefix, Text
<1>8. Ink(Prefix(t, n)) = Ink(a) \o Ink(b)
  BY <1>5, <1>6, <1>7, InkJoins
<1>9. ASSUME \A i \in k + 1 .. n : t[i] \in Blank PROVE Ink(Prefix(t, n)) = Ink(a)
  <2>1. ASSUME NEW i \in 1 .. Len(b) PROVE b[i] \in Blank
    <3>1. i \in 1 .. n - (k + 1) + 1 /\ k + 1 + i - 1 \in k + 1 .. n
      BY <1>1, <1>6
    <3> QED BY <1>6, <1>9, <3>1
  <2>2. Ink(b) = <<>>
    BY <1>6, <2>1, BlankInk
  <2>3. Ink(a) \in Seq(CharKind)
    BY <1>5, InkTyped DEF Text
  <2>4. Ink(a) \o <<>> = Ink(a)
    BY <2>3, ConcatEmptySeq
  <2> QED BY <1>8, <2>2, <2>4
<1> QED BY <1>3, <1>4, <1>5, <1>6, <1>8, <1>9

\* What is left of a text when so much was told: its end, from one of its
\* characters to the last that is not blank.
End(text) == Greatest(InkOf(text))
LeftAt(text, told, from) ==
  text[from + 1] \notin Blank /\ Ink(Prefix(text, from)) = Ink(told)
LeftFrom(text, told, left) ==
  \/ left = <<>> /\ Ink(told) = Ink(text)
  \/ \E from \in 0 .. Len(text) - 1 :
       LeftAt(text, told, from) /\ left = SubSeq(text, from + 1, End(text))

LEMMA EndIs ==
  ASSUME NEW text \in Text
  PROVE  /\ End(text) \in 0 .. Len(text)
         /\ \A i \in 1 .. Len(text) : text[i] \notin Blank => i <= End(text)
         /\ End(text) > 0 => text[End(text)] \notin Blank
<1>1. Len(text) \in Nat /\ DOMAIN text = 1 .. Len(text)
  BY LenProperties DEF Text
<1>2. InkOf(text) \in SUBSET (1 .. Len(text))
  BY <1>1 DEF InkOf
<1>3. PICK g : g = End(text)
  OBVIOUS
<1>4. g \in 0 .. Len(text) /\ (\A x \in InkOf(text) : x <= g) /\ (g = 0 \/ g \in InkOf(text))
  BY <1>1, <1>2, <1>3, GreatestIs DEF End
<1>5. \A i \in 1 .. Len(text) : text[i] \notin Blank => i <= g
  BY <1>1, <1>4 DEF InkOf
<1>6. g > 0 => text[g] \notin Blank
  BY <1>4 DEF InkOf
<1> QED BY <1>3, <1>4, <1>5, <1>6

LEMMA LeftAtStart ==
  ASSUME NEW text \in Text
  PROVE  LeftFrom(text, <<>>, Trim(text))
<1>1. Len(text) \in Nat
  BY LenProperties DEF Text
<1>2. CASE \A i \in 1 .. Len(text) : text[i] \in Blank
  BY <1>2, TrimNothing, InkOfNothing DEF LeftFrom
<1>3. CASE \E i \in 1 .. Len(text) : text[i] \notin Blank
  <2>1. PICK m \in 1 .. Len(text) : \E n \in m .. Len(text) : InkSpans(text, m, n)
    BY <1>3, InkFound
  <2>2. PICK n \in m .. Len(text) : InkSpans(text, m, n)
    BY <2>1
  <2>3. Trim(text) = SubSeq(text, m, n) /\ n = End(text)
    BY <2>2, TrimAs DEF End
  <2>4. PICK from : from = m - 1
    OBVIOUS
  <2>5. from \in 0 .. Len(text) - 1 /\ from + 1 = m /\ from \in 0 .. Len(text)
    BY <1>1, <2>4
  <2>6. 0 \in 0 .. Len(text) /\ from \in 0 .. Len(text) /\ \A i \in 0 + 1 .. from : i \in 1 .. Len(text) /\ ~(m <= i)
    BY <1>1, <2>5
  <2>7. \A i \in 0 + 1 .. from : text[i] \in Blank
    BY <2>2, <2>6 DEF InkSpans
  <2>8. Ink(Prefix(text, from)) = Ink(Prefix(text, 0))
    BY <2>6, <2>7, InkUpward
  <2>9. Prefix(text, 0) = <<>>
    <3>1. 0 < 1 /\ 0 \in Int /\ 1 \in Int
      OBVIOUS
    <3> QED BY <3>1, SubSeqEmpty DEF Prefix
  <2>10. LeftAt(text, <<>>, from)
    BY <2>2, <2>5, <2>8, <2>9 DEF LeftAt, InkSpans
  <2> QED BY <2>3, <2>5, <2>10 DEF LeftFrom
<1> QED BY <1>2, <1>3

\* A text that is left is clean.
LEMMA LeftIsClean ==
  ASSUME NEW text \in Text, NEW from \in 0 .. Len(text) - 1, text[from + 1] \notin Blank,
         NEW left, left = SubSeq(text, from + 1, End(text))
  PROVE  /\ Clean(left) /\ left # <<>> /\ from < End(text) /\ Len(left) = End(text) - from
         /\ \A i \in 1 .. End(text) - from : left[i] = text[from + i]
<1>1. Len(text) \in Nat
  BY LenProperties DEF Text
<1>2. PICK n : n = End(text)
  OBVIOUS
<1>3. PICK m : m = from + 1
  OBVIOUS
<1>4. m \in 1 .. Len(text) /\ text[m] \notin Blank
  BY <1>1, <1>3
<1>5. n \in 0 .. Len(text) /\ m <= n /\ text[n] \notin Blank
  <2>1. n \in 0 .. Len(text) /\ m <= n /\ (n > 0 => text[n] \notin Blank)
    BY <1>2, <1>4, EndIs
  <2> QED BY <1>1, <1>4, <2>1
<1>6. left \in Text /\ Len(left) = n - m + 1 /\ \A i \in 1 .. n - m + 1 : left[i] = text[m + i - 1]
  <2>1. m \in 1 .. Len(text) + 1 /\ n \in m - 1 .. Len(text)
    BY <1>1, <1>4, <1>5
  <2> QED BY <1>2, <1>3, <2>1, Part
<1>7. n - m + 1 = n - from /\ from < n /\ \A i \in 1 .. n - from : m + i - 1 = from + i
  BY <1>1, <1>3, <1>5
<1>8. left[1] = text[m] /\ left[Len(left)] = text[n]
  <2>1. PICK k : k = n - m + 1
    OBVIOUS
  <2>2. k \in 1 .. n - m + 1 /\ m + k - 1 = n /\ 1 \in 1 .. n - m + 1 /\ m + 1 - 1 = m
    BY <1>1, <1>4, <1>5, <2>1
  <2> QED BY <1>6, <2>1, <2>2
<1>9. left # <<>>
  <2>1. n - m + 1 # 0
    BY <1>1, <1>4, <1>5
  <2>2. Len(left) = n - m + 1
    BY <1>6
  <2> QED BY <2>1, <2>2, EmptySeq
<1>10. Clean(left)
  BY <1>4, <1>5, <1>6, <1>8 DEF Clean
<1> QED BY <1>2, <1>6, <1>7, <1>9, <1>10

LEMMA LeftGoesOn ==
  ASSUME NEW text \in Text, NEW told \in Text, NEW left, LeftFrom(text, told, left), left # <<>>,
         NEW limit \in Nat \ {0}
  PROVE  LeftFrom(text, told \o ChunkOf(left, limit), RestOf(left, limit))
<1>1. Len(text) \in Nat
  BY LenProperties DEF Text
<1>2. PICK from \in 0 .. Len(text) - 1 :
        LeftAt(text, told, from) /\ left = SubSeq(text, from + 1, End(text))
  BY DEF LeftFrom
<1>3. PICK n \in Nat : n = End(text) /\ n \in 0 .. Len(text)
  BY <1>1, EndIs
<1>4. /\ Clean(left) /\ left \in Text /\ from < n /\ Len(left) = n - from
      /\ \A i \in 1 .. n - from : left[i] = text[from + i]
  <2>1. text[from + 1] \notin Blank /\ left = SubSeq(text, from + 1, End(text))
    BY <1>2 DEF LeftAt
  <2>2. Clean(left) /\ from < End(text) /\ Len(left) = End(text) - from
    BY <2>1, LeftIsClean
  <2>3. \A i \in 1 .. End(text) - from : left[i] = text[from + i]
    BY <2>1, LeftIsClean
  <2>4. left \in Text
    BY <2>2 DEF Clean
  <2> QED BY <1>3, <2>2, <2>3, <2>4
<1>5. PICK cut : cut = CutAt(left, limit)
  OBVIOUS
<1>6. cut \in 1 .. n - from
  BY <1>4, <1>5, CutFits
<1>7. PICK k : k = from + cut
  OBVIOUS
<1>8. k \in 0 .. Len(text) /\ from <= k /\ k <= n /\ from \in 0 .. Len(text) /\ k \in from .. Len(text)
  BY <1>1, <1>3, <1>6, <1>7
<1>9. PICK chunk : chunk = ChunkOf(left, limit)
  OBVIOUS
<1>10. chunk \in Text /\ Ink(chunk) = Ink(Prefix(left, cut))
  <2>1. cut \in 0 .. Len(left)
    BY <1>1, <1>4, <1>6
  <2>2. Prefix(left, cut) \in Text
    BY <1>4, <2>1, Parts
  <2> QED BY <1>5, <1>9, <2>2, TrimCleans DEF ChunkOf, Clean
<1>11. Prefix(left, cut) = SubSeq(text, from + 1, k)
  <2>1. PICK m : m = from + 1
    OBVIOUS
  <2>2. /\ m \in 1 .. Len(text) + 1 /\ n \in m - 1 .. Len(text) /\ 1 \in 1 .. n - m + 2
        /\ cut \in 1 - 1 .. n - m + 1 /\ m + 1 - 1 = m /\ m + cut - 1 = k
    BY <1>1, <1>3, <1>6, <1>7, <2>1, SMTT(20)
  <2>3. SubSeq(SubSeq(text, m, n), 1, cut) = SubSeq(text, m + 1 - 1, m + cut - 1)
    BY <2>2, PartOfPart
  <2> QED BY <1>2, <1>3, <2>1, <2>2, <2>3 DEF Prefix
<1>12. Ink(told \o chunk) = Ink(Prefix(text, k))
  <2>1. Ink(told \o chunk) = Ink(told) \o Ink(chunk)
    BY <1>10, InkJoins
  <2>2. Ink(Prefix(text, k)) = Ink(Prefix(text, from)) \o Ink(SubSeq(text, from + 1, k))
    BY <1>8, InkUpward
  <2> QED BY <1>2, <1>10, <1>11, <2>1, <2>2 DEF LeftAt
<1>13. PICK r : r = Rest(left, cut)
  OBVIOUS
<1>14. RestOf(left, limit) = Trim(r)
  BY <1>5, <1>13 DEF RestOf
<1>15. r \in Text /\ Len(r) = n - k /\ \A i \in 1 .. n - k : r[i] = text[k + i]
  <2>1. cut \in 0 .. Len(left) /\ Len(left) - cut = n - k
    BY <1>1, <1>3, <1>4, <1>6, <1>7
  <2>2. r \in Text /\ Len(r) = Len(left) - cut /\ \A i \in 1 .. Len(left) - cut : r[i] = left[cut + i]
    BY <1>4, <1>13, <2>1, Parts
  <2>3. \A i \in 1 .. n - k : cut + i \in 1 .. n - from /\ from + (cut + i) = k + i
    BY <1>1, <1>3, <1>6, <1>7
  <2> QED BY <1>4, <2>1, <2>2, <2>3
<1>16. CASE k = n
  <2>1. Trim(r) = <<>>
    <3>1. \A i \in 1 .. Len(r) : r[i] \in Blank
      BY <1>15, <1>16
    <3> QED BY <1>15, <3>1, TrimNothing
  <2>2. Ink(Prefix(text, k)) = Ink(text)
    <3>1. ASSUME NEW i \in k + 1 .. Len(text) PROVE text[i] \in Blank
      <4>1. i \in 1 .. Len(text) /\ ~(i <= n)
        BY <1>1, <1>8, <1>16
      <4> QED BY <1>3, <4>1, EndIs
    <3>2. Len(text) \in k .. Len(text)
      BY <1>1, <1>8
    <3>3. Ink(Prefix(text, Len(text))) = Ink(Prefix(text, k))
      BY <1>8, <3>1, <3>2, InkUpward
    <3>4. Prefix(text, Len(text)) = text
      BY SubSeqFull DEF Prefix, Text
    <3> QED BY <3>3, <3>4
  <2> QED BY <1>9, <1>12, <1>14, <2>1, <2>2 DEF LeftFrom
<1>17. CASE k # n
  <2>1. Len(r) \in 1 .. Len(r) /\ r[Len(r)] \notin Blank
    <3>1. PICK l : l = n - k
      OBVIOUS
    <3>2. l \in 1 .. n - k /\ k + l = n /\ n > 0
      BY <1>3, <1>8, <1>17, <3>1, SMTT(20)
    <3>3. text[n] \notin Blank
      BY <1>3, <3>2, EndIs
    <3> QED BY <1>15, <3>1, <3>2, <3>3
  <2>2. PICK a \in 1 .. Len(r) : \E b \in a .. Len(r) : InkSpans(r, a, b)
    BY <1>15, <2>1, InkFound
  <2>3. PICK b \in a .. Len(r) : InkSpans(r, a, b)
    BY <2>2
  <2>4. b = n - k
    <3>1. Len(r) <= b
      BY <2>1, <2>3 DEF InkSpans
    <3> QED BY <1>3, <1>8, <1>15, <2>1, <3>1
  <2>5. Trim(r) = SubSeq(r, a, b)
    BY <1>15, <2>3, TrimAs
  <2>6. PICK next : next = k + a - 1
    OBVIOUS
  <2>7. /\ next \in 0 .. Len(text) - 1 /\ next + 1 = k + a /\ a \in 1 .. n - k
        /\ next \in k .. Len(text) /\ k <= next
    BY <1>1, <1>3, <1>8, <1>15, <2>6, SMTT(20)
  <2>8. text[next + 1] \notin Blank
    BY <1>15, <2>3, <2>7 DEF InkSpans
  <2>9. Ink(Prefix(text, next)) = Ink(Prefix(text, k))
    <3>1. ASSUME NEW i \in k + 1 .. next PROVE text[i] \in Blank
      <4>1. PICK j : j = i - k
        OBVIOUS
      <4>2. j \in 1 .. n - k /\ ~(a <= j) /\ k + j = i
        BY <1>1, <1>3, <1>8, <2>6, <2>7, <4>1, SMTT(20)
      <4>3. r[j] \in Blank
        BY <1>15, <2>3, <4>2 DEF InkSpans
      <4> QED BY <1>15, <4>2, <4>3
    <3> QED BY <1>8, <2>7, <3>1, InkUpward
  <2>10. Trim(r) = SubSeq(text, next + 1, n)
    <3>0. /\ n \in Int /\ from \in Int /\ cut \in Int /\ k \in Int /\ a \in Int /\ b \in Int
          /\ 0 <= from /\ 1 <= cut /\ k = from + cut /\ 1 <= a /\ a <= n - k /\ b = n - k
          /\ next = k + a - 1
      <4>1. 1 .. n - k \subseteq Int /\ n \in Int /\ from \in Int /\ cut \in Int /\ k \in Int
        BY <1>1, <1>3, <1>6, <1>7
      <4>2. 0 <= from /\ 1 <= cut
        BY <1>1, <1>3, <1>6
      <4> QED BY <1>7, <2>4, <2>6, <2>7, <4>1, <4>2
    <3>1. PICK c : c = cut + a
      OBVIOUS
    <3>2. PICK m : m = from + 1
      OBVIOUS
    <3>3. /\ m \in 1 .. Len(text) + 1 /\ n \in m - 1 .. Len(text)
          /\ c \in 1 .. n - m + 2 /\ n - from \in c - 1 .. n - m + 1
          /\ m + c - 1 = next + 1 /\ m + (n - from) - 1 = n
      <4>1. m + c - 1 = next + 1 /\ m + (n - from) - 1 = n
        BY <3>0, <3>1, <3>2
      <4>2. m \in 1 .. Len(text) + 1 /\ n \in m - 1 .. Len(text)
        BY <1>1, <1>3, <1>8, <3>2, <1>4
      <4>3. c \in 1 .. n - m + 2
        BY <3>0, <3>1, <3>2
      <4>4. n - from \in c - 1 .. n - m + 1
        BY <3>0, <3>1, <3>2
      <4> QED BY <4>1, <4>2, <4>3, <4>4
    <3>4. SubSeq(SubSeq(text, m, n), c, n - from) = SubSeq(text, m + c - 1, m + (n - from) - 1)
      BY <3>3, PartOfPart
    <3>5. left = SubSeq(text, m, n)
      BY <1>2, <1>3, <3>2
    <3>6. SubSeq(r, a, b) = SubSeq(left, c, n - from)
      <4>1. PICK d : d = cut + 1
        OBVIOUS
      <4>2. PICK e : e = n - from
        OBVIOUS
      <4>3. /\ d \in 1 .. Len(left) + 1 /\ e \in d - 1 .. Len(left)
            /\ a \in 1 .. e - d + 2 /\ b \in a - 1 .. e - d + 1
            /\ d + a - 1 = c /\ d + b - 1 = e
        <5>1. Len(left) = e /\ e \in Nat
          BY <1>1, <1>3, <1>4, <4>2
        <5>2. d \in 1 .. e + 1 /\ e \in d - 1 .. e
          BY <1>1, <1>3, <1>6, <4>1, <4>2, SMTT(20)
        <5>3. a \in 1 .. e - d + 2 /\ b \in a - 1 .. e - d + 1
          <6>1. e - d + 2 = n - k + 1 /\ e - d + 1 = n - k
            BY <3>0, <4>1, <4>2
          <6>2. a \in 1 .. n - k + 1 /\ b \in a - 1 .. n - k
            BY <3>0
          <6> QED BY <6>1, <6>2
        <5>4. d + a - 1 = c /\ d + b - 1 = e
          BY <3>0, <3>1, <4>1, <4>2
        <5> QED BY <5>1, <5>2, <5>3, <5>4
      <4>4. SubSeq(SubSeq(left, d, e), a, b) = SubSeq(left, d + a - 1, d + b - 1)
        BY <1>4, <4>3, PartOfPart
      <4>5. r = SubSeq(left, d, e)
        BY <1>4, <1>13, <4>1, <4>2 DEF Rest
      <4> QED BY <4>2, <4>3, <4>4, <4>5
    <3> QED BY <2>5, <3>3, <3>4, <3>5, <3>6
  <2>11. LeftAt(text, told \o chunk, next)
    BY <1>12, <2>8, <2>9 DEF LeftAt
  <2> QED BY <1>3, <1>9, <1>14, <2>7, <2>10, <2>11 DEF LeftFrom
<1> QED BY <1>16, <1>17

\* What was told is a beginning of the text.
LEMMA LeftIsRest ==
  ASSUME NEW text \in Text, NEW told \in Text, NEW left, LeftFrom(text, told, left)
  PROVE  Clean(left) /\ Ink(told) \o Ink(left) = Ink(text)
<1>1. Len(text) \in Nat /\ Ink(told) \in Seq(CharKind)
  BY LenProperties, InkTyped DEF Text
<1>2. CASE left = <<>> /\ Ink(told) = Ink(text)
  <2>1. Ink(told) \o <<>> = Ink(told) /\ <<>> \in Text
    BY <1>1, ConcatEmptySeq, EmptySeq DEF Text
  <2> QED BY <1>2, <2>1, InkOfNothing DEF Clean
<1>3. ASSUME NEW from \in 0 .. Len(text) - 1, LeftAt(text, told, from),
             left = SubSeq(text, from + 1, End(text))
      PROVE  Clean(left) /\ Ink(told) \o Ink(left) = Ink(text)
  <2>1. PICK n \in Nat : n = End(text) /\ n \in 0 .. Len(text)
    BY <1>1, EndIs
  <2>2. Clean(left) /\ from < n
    BY <1>3, <2>1, LeftIsClean DEF LeftAt
  <2>3. from \in 0 .. Len(text) /\ n \in from .. Len(text) /\ Len(text) \in n .. Len(text)
    BY <1>1, <2>1, <2>2
  <2>4. Ink(Prefix(text, n)) = Ink(Prefix(text, from)) \o Ink(left)
    BY <1>3, <2>1, <2>3, InkUpward
  <2>5. Ink(Prefix(text, Len(text))) = Ink(Prefix(text, n))
    <3>1. ASSUME NEW i \in n + 1 .. Len(text) PROVE text[i] \in Blank
      <4>1. i \in 1 .. Len(text) /\ ~(i <= n)
        BY <1>1, <2>1
      <4> QED BY <2>1, <4>1, EndIs
    <3> QED BY <2>1, <2>3, <3>1, InkUpward
  <2>6. Prefix(text, Len(text)) = text
    BY SubSeqFull DEF Prefix, Text
  <2> QED BY <1>3, <2>2, <2>4, <2>5, <2>6 DEF LeftAt
<1> QED BY <1>2, <1>3 DEF LeftFrom

-----------------------------------------------------------------------------
(* Headings                                                                *)

LEMMA TrimFromStart ==
  ASSUME NEW t \in Text, t # <<>>, t[1] \notin Blank
  PROVE  \E n \in 1 .. Len(t) :
           InkSpans(t, 1, n) /\ Trim(t) = Prefix(t, n) /\ TrimRight(t) = Prefix(t, n)
<1>1. Len(t) \in Nat \ {0} /\ 1 \in 1 .. Len(t)
  BY EmptySeq DEF Text
<1>2. PICK m \in 1 .. Len(t) : \E n \in m .. Len(t) : InkSpans(t, m, n)
  BY <1>1, InkFound
<1>3. PICK n \in m .. Len(t) : InkSpans(t, m, n)
  BY <1>2
<1>4. m = 1
  <2>1. m <= 1
    BY <1>1, <1>3 DEF InkSpans
  <2> QED BY <1>1, <2>1
<1>5. Trim(t) = SubSeq(t, 1, n) /\ TrimRight(t) = Prefix(t, n)
  BY <1>1, <1>3, <1>4, TrimAs
<1> QED BY <1>3, <1>4, <1>5 DEF Prefix

LEMMA TrimOfClean ==
  ASSUME NEW t, Clean(t), t # <<>>
  PROVE  Trim(t) = t
<1>1. t \in Text /\ t[1] \notin Blank /\ t[Len(t)] \notin Blank /\ Len(t) \in Nat \ {0}
  BY EmptySeq DEF Clean, Text
<1>2. PICK n \in 1 .. Len(t) : InkSpans(t, 1, n) /\ Trim(t) = Prefix(t, n)
  BY <1>1, TrimFromStart
<1>3. n = Len(t)
  <2>1. Len(t) \in 1 .. Len(t)
    BY <1>1
  <2>2. Len(t) <= n
    BY <1>1, <1>2, <2>1 DEF InkSpans
  <2> QED BY <1>1, <2>2
<1> QED BY <1>1, <1>2, <1>3, SubSeqFull DEF Prefix, Text

\* A line that begins with a heading, or with its marks and a space, is one.
LEMMA HeadingGoesOn ==
  ASSUME NEW line \in Text, isMarkdownHeading(line), NEW more \in Text, Len(line) <= Len(more),
         \A i \in 1 .. Len(line) : more[i] = line[i],
         Len(line) < Len(more) /\ line[Len(line)] = "#" => more[Len(line) + 1] = "space"
  PROVE  isMarkdownHeading(more)
<1>1. PICK len \in Nat : len = Len(line)
  BY LenProperties DEF Text
<1>2. PICK size \in Nat : size = Len(more) /\ len <= size
  BY <1>1, LenProperties DEF Text
<1>3. PICK M : M = {n \in 1 .. len : \A i \in 1 .. n : line[i] = "#"}
  OBVIOUS
<1>4. PICK N : N = {n \in 1 .. size : \A i \in 1 .. n : more[i] = "#"}
  OBVIOUS
<1>5. PICK g : g = Greatest(M)
  OBVIOUS
<1>6. g \in 1 .. 6 /\ (g = len \/ line[g + 1] = "space")
  BY <1>1, <1>3, <1>5 DEF isMarkdownHeading
<1>7. g \in M /\ \A x \in M : x <= g
  <2>1. M \in SUBSET (1 .. len)
    BY <1>3
  <2>2. (g = 0 <=> M = {}) /\ (M # {} => g \in M) /\ \A x \in M : x <= g
    BY <1>5, <2>1, GreatestIs
  <2> QED BY <1>6, <2>2
<1>8. g \in 1 .. len /\ \A i \in 1 .. g : line[i] = "#"
  BY <1>3, <1>7
<1>9. g \in N
  BY <1>1, <1>2, <1>4, <1>8
<1>10. g = size \/ more[g + 1] = "space"
  <2>1. CASE g = len
    <3>1. line[len] = "#"
      BY <1>8, <2>1
    <3>2. len = size \/ len < size
      BY <1>2
    <3> QED BY <1>1, <1>2, <2>1, <3>1, <3>2
  <2>2. CASE g # len
    <3>1. g + 1 \in 1 .. len
      BY <1>8, <2>2
    <3> QED BY <1>1, <1>6, <2>2, <3>1
  <2> QED BY <2>1, <2>2
<1>11. \A x \in N : x <= g
  <2> SUFFICES ASSUME NEW x \in N, ~(x <= g) PROVE FALSE
    OBVIOUS
  <2>1. x \in 1 .. size /\ \A i \in 1 .. x : more[i] = "#"
    BY <1>4
  <2>2. g + 1 \in 1 .. x /\ g # size
    BY <1>8, <2>1
  <2>3. more[g + 1] = "#"
    BY <2>1, <2>2
  <2> QED BY <1>10, <2>2, <2>3
<1>12. Greatest(N) = g
  <2>1. N \in SUBSET (1 .. size) /\ N # {}
    BY <1>4, <1>9
  <2>2. PICK f : f = Greatest(N)
    OBVIOUS
  <2>3. f \in N /\ \A x \in N : x <= f
    BY <2>1, <2>2, GreatestIs
  <2>4. f <= g /\ g <= f /\ f \in Int /\ g \in Int
    BY <1>6, <1>9, <1>11, <2>1, <2>3
  <2>5. f = g
    BY <2>4
  <2> QED BY <2>2, <2>5
<1>13. (Greatest(N) \in 1 .. 6) /\ (Greatest(N) = size \/ more[Greatest(N) + 1] = "space")
  BY <1>6, <1>10, <1>12
<1> QED BY <1>2, <1>4, <1>13 DEF isMarkdownHeading

LEMMA LineStartIs ==
  ASSUME NEW t \in Text
  PROVE  /\ LineStart(t) \in 0 .. Len(t)
         /\ LineStart(t) > 0 => t[LineStart(t)] = "line"
         /\ \A i \in 1 .. Len(t) : t[i] = "line" => i <= LineStart(t)
<1>1. Len(t) \in Nat /\ DOMAIN t = 1 .. Len(t)
  BY LenProperties DEF Text
<1>2. PICK S : S = {i \in DOMAIN t : t[i] = "line"}
  OBVIOUS
<1>3. PICK g : g = LineStart(t)
  OBVIOUS
<1>4. g = Greatest(S) /\ S \in SUBSET (1 .. Len(t))
  BY <1>1, <1>2, <1>3 DEF LineStart
<1>5. g \in 0 .. Len(t) /\ (g = 0 \/ g \in S) /\ \A x \in S : x <= g
  BY <1>1, <1>4, GreatestIs
<1>6. g > 0 => t[g] = "line"
  BY <1>2, <1>5
<1>7. \A i \in 1 .. Len(t) : t[i] = "line" => i <= g
  BY <1>1, <1>2, <1>5
<1> QED BY <1>3, <1>5, <1>6, <1>7

LEMMA FirstLineIs ==
  ASSUME NEW t \in Text, t # <<>>, t[1] \notin Blank, NEW k \in 1 .. Len(t), t[k] \notin Blank,
         \A i \in 1 .. k : t[i] # "line"
  PROVE  \E z \in k .. Len(t) : /\ FirstLine(t) = Prefix(t, z)
                                /\ k < z => t[k + 1] # "line"
<1>1. PICK len \in Nat \ {0} : len = Len(t) /\ DOMAIN t = 1 .. len
  BY EmptySeq, LenProperties DEF Text
<1>2. PICK S : S = {n \in DOMAIN t : n = Len(t) \/ t[n + 1] = "line"}
  OBVIOUS
<1>3. S \in SUBSET Nat /\ len \in S
  BY <1>1, <1>2
<1>4. PICK w : w = Min(S)
  OBVIOUS
<1>5. w \in S /\ \A x \in S : w <= x
  BY <1>3, <1>4, Lesser
<1>6. w \in 1 .. len /\ (w = len \/ t[w + 1] = "line")
  BY <1>1, <1>2, <1>5
<1>7. k <= w
  <2> SUFFICES ASSUME ~(k <= w) PROVE FALSE
    OBVIOUS
  <2>1. w + 1 \in 1 .. k /\ w # len
    BY <1>1, <1>6
  <2> QED BY <1>6, <2>1
<1>8. PICK p : p = Prefix(t, w)
  OBVIOUS
<1>9. p \in Text /\ Len(p) = w /\ \A i \in 1 .. w : p[i] = t[i]
  <2>1. w \in 0 .. Len(t)
    BY <1>1, <1>6
  <2> QED BY <1>8, <2>1, Parts
<1>10. p # <<>> /\ p[1] \notin Blank
  <2>1. 1 \in 1 .. w /\ w # 0
    BY <1>6
  <2> QED BY <1>9, <2>1, EmptySeq
<1>11. PICK z \in 1 .. w : InkSpans(p, 1, z) /\ Trim(p) = Prefix(p, z)
  BY <1>9, <1>10, TrimFromStart
<1>12. k <= z
  <2>1. k \in 1 .. w /\ p[k] \notin Blank
    BY <1>1, <1>7, <1>9
  <2> QED BY <1>9, <1>11, <2>1 DEF InkSpans
<1>13. Prefix(p, z) = Prefix(t, z)
  <2>1. /\ 1 \in 1 .. Len(t) + 1 /\ w \in 1 - 1 .. Len(t) /\ 1 \in 1 .. w - 1 + 2
        /\ z \in 1 - 1 .. w - 1 + 1 /\ 1 + 1 - 1 = 1 /\ 1 + z - 1 = z
    BY <1>1, <1>6, <1>11
  <2>2. SubSeq(SubSeq(t, 1, w), 1, z) = SubSeq(t, 1 + 1 - 1, 1 + z - 1)
    BY <2>1, PartOfPart
  <2> QED BY <1>8, <2>1, <2>2 DEF Prefix
<1>14. FirstLine(t) = Trim(p)
  BY <1>2, <1>4, <1>8 DEF FirstLine
<1>15. k < z => t[k + 1] # "line"
  <2> SUFFICES ASSUME k < z, t[k + 1] = "line" PROVE FALSE
    OBVIOUS
  <2>1. k \in S
    BY <1>1, <1>2
  <2> QED BY <1>1, <1>5, <1>6, <1>11, <2>1
<1>16. z \in k .. Len(t)
  BY <1>1, <1>6, <1>11, <1>12
<1> QED BY <1>11, <1>13, <1>14, <1>15, <1>16

\* A cut of left at b is moved to l, before the heading, and chunk ends there.
MovedTo(left, b, cand, l, chunk) ==
  cand = TrimRight(Prefix(left, b)) /\ l = LineStart(cand) /\ chunk = Trim(Prefix(left, l))
Others(all, chunk) == Trim(Rest(all, Len(chunk)))
LeftAndAll(text, from, left, all) == left = SubSeq(text, from + 1, End(text)) /\ all = Rest(text, from)

\* What a cut that was moved leaves to the others begins with the heading.
LEMMA MovedHeadingLeads ==
  ASSUME NEW left, Clean(left), left # <<>>, NEW all \in Text, Len(left) <= Len(all),
         \A i \in 1 .. Len(left) : all[i] = left[i],
         \A i \in Len(left) + 1 .. Len(all) : all[i] \in Blank,
         NEW limit \in 1 .. Len(left), NEW b \in 1 .. limit, limit < Len(left),
         CutAfter(left, limit, b),
         NEW cand, NEW l, NEW chunk, MovedTo(left, b, cand, l, chunk), l > 0,
         isMarkdownHeading(LastLine(cand))
  PROVE  isMarkdownHeading(FirstLine(Others(all, chunk)))
<1>1. /\ left \in Text /\ left[1] \notin Blank /\ left[Len(left)] \notin Blank
      /\ Len(left) \in Nat \ {0} /\ Len(all) \in Nat
  BY EmptySeq, LenProperties DEF Clean, Text
<1>2. PICK len \in Nat \ {0} : len = Len(left)
  BY <1>1
<1>3. /\ b \in 1 .. len /\ b < len /\ b \in 0 .. len
      /\ len <= Len(all) /\ left[len] \notin Blank
      /\ \A i \in 1 .. len : all[i] = left[i]
      /\ \A i \in len + 1 .. Len(all) : all[i] \in Blank
  BY <1>1, <1>2
<1>4. PICK p : p = Prefix(left, b)
  OBVIOUS
<1>5. p \in Text /\ Len(p) = b /\ \A i \in 1 .. b : p[i] = left[i]
  BY <1>1, <1>2, <1>3, <1>4, Parts
<1>6. PICK n \in 1 .. b : InkSpans(p, 1, n) /\ TrimRight(p) = Prefix(p, n)
  <2>1. p # <<>> /\ p[1] \notin Blank
    <3>1. 1 \in 1 .. b /\ b # 0
      BY <1>3
    <3> QED BY <1>1, <1>5, <3>1, EmptySeq
  <2> QED BY <1>5, <2>1, TrimFromStart
<1>7. cand \in Text /\ Len(cand) = n /\ \A i \in 1 .. n : cand[i] = left[i]
  <2>1. n \in 0 .. Len(p) /\ \A i \in 1 .. n : i \in 1 .. b
    BY <1>3, <1>5, <1>6
  <2>2. cand = Prefix(p, n)
    BY <1>4, <1>6 DEF MovedTo
  <2>3. /\ Prefix(p, n) \in Text /\ Len(Prefix(p, n)) = n
        /\ \A i \in 1 .. n : Prefix(p, n)[i] = p[i]
    BY <1>5, <2>1, Parts
  <2> QED BY <1>5, <2>1, <2>2, <2>3
<1>8. /\ l \in 0 .. n /\ cand[l] = "line" /\ \A i \in 1 .. n : cand[i] = "line" => i <= l
  BY <1>7, LineStartIs DEF MovedTo
<1>9. left[n] \notin Blank /\ l \in 1 .. n - 1 /\ n \in 1 .. len
  <2>1. p[n] \notin Blank /\ n \in Nat
    BY <1>6 DEF InkSpans
  <2>2. cand[n] \notin Blank /\ cand[l] \in Blank
    BY <1>5, <1>6, <1>7, <1>8, <2>1 DEF Blank
  <2>3. l # n
    BY <2>2
  <2> QED BY <1>3, <1>5, <1>6, <1>8, <2>1, <2>3

(* The heading stands behind q. *)
<1>10. PICK h : h = LastLine(cand)
  OBVIOUS
<1>11. PICK q \in l .. n - 1 :
         /\ h \in Text /\ Len(h) = n - q /\ \A i \in 1 .. n - q : h[i] = left[q + i]
         /\ left[q + 1] \notin Blank /\ \A i \in l + 1 .. q : left[i] \in Blank
  <2>1. PICK r : r = Rest(cand, l)
    OBVIOUS
  <2>2. r \in Text /\ Len(r) = n - l /\ \A i \in 1 .. n - l : r[i] = left[l + i]
    <3>1. l \in 0 .. Len(cand) /\ \A i \in 1 .. n - l : l + i \in 1 .. n
      BY <1>7, <1>9
    <3>2. r \in Text /\ Len(r) = Len(cand) - l /\ \A i \in 1 .. Len(cand) - l : r[i] = cand[l + i]
      <4>1. cand \in Text
        BY <1>7
      <4>2. /\ Rest(cand, l) \in Text /\ Len(Rest(cand, l)) = Len(cand) - l
            /\ \A i \in 1 .. Len(cand) - l : Rest(cand, l)[i] = cand[l + i]
        BY <3>1, <4>1, Parts
      <4> QED BY <2>1, <4>2
    <3> QED BY <1>7, <3>1, <3>2
  <2>3. PICK k : k = n - l
    OBVIOUS
  <2>4. k \in 1 .. n - l /\ l + k = n /\ k \in Nat
    BY <1>9, <2>3
  <2>5. k \in 1 .. Len(r) /\ r[k] \notin Blank
    BY <1>9, <2>2, <2>4
  <2>6. PICK a \in 1 .. Len(r) : \E e \in a .. Len(r) : InkSpans(r, a, e)
    BY <2>2, <2>5, InkFound
  <2>7. PICK e \in a .. Len(r) : InkSpans(r, a, e)
    BY <2>6
  <2>8. e = k /\ a \in 1 .. k
    <3>1. k <= e /\ Len(r) = k
      BY <2>2, <2>3, <2>5, <2>7 DEF InkSpans
    <3> QED BY <2>4, <3>1
  <2>9. h = SubSeq(r, a, k)
    <3>1. Trim(r) = SubSeq(r, a, e)
      BY <2>2, <2>7, TrimAs
    <3>2. h = Trim(r)
      BY <1>10, <2>1 DEF LastLine, MovedTo
    <3> QED BY <2>8, <3>1, <3>2
  <2>10. h \in Text /\ Len(h) = k - a + 1 /\ \A i \in 1 .. k - a + 1 : h[i] = r[a + i - 1]
    <3>1. a \in 1 .. Len(r) + 1 /\ k \in a - 1 .. Len(r)
      BY <2>4, <2>5, <2>8
    <3> QED BY <2>2, <2>9, <3>1, Part
  <2>11. PICK q : q = l + a - 1
    OBVIOUS
  <2>12. q \in l .. n - 1 /\ k - a + 1 = n - q /\ q + 1 = l + a
    BY <1>9, <2>4, <2>8, <2>11
  <2>13. ASSUME NEW i \in 1 .. n - q PROVE h[i] = left[q + i]
    <3>1. PICK j : j = a + i - 1
      OBVIOUS
    <3>2. j \in 1 .. n - l /\ l + j = q + i /\ i \in 1 .. k - a + 1
      BY <1>9, <2>4, <2>8, <2>11, <2>12, <3>1
    <3> QED BY <2>2, <2>10, <3>1, <3>2
  <2>14. left[q + 1] \notin Blank
    BY <2>2, <2>7, <2>8, <2>12, <2>4 DEF InkSpans
  <2>15. ASSUME NEW i \in l + 1 .. q PROVE left[i] \in Blank
    <3>1. PICK j : j = i - l
      OBVIOUS
    <3>2. j \in 1 .. n - l /\ l + j = i /\ ~(a <= j) /\ j \in 1 .. Len(r)
      BY <1>9, <2>2, <2>4, <2>8, <2>11, <2>12, <3>1
    <3>3. r[j] \in Blank
      BY <2>7, <3>2 DEF InkSpans
    <3> QED BY <2>2, <3>2, <3>3
  <2> QED BY <2>10, <2>12, <2>13, <2>14, <2>15
<1>12. isMarkdownHeading(h)
  BY <1>10

(* The chunk ends before it. *)
<1>13. PICK c \in 1 .. l : Len(chunk) = c /\ \A i \in c + 1 .. l : left[i] \in Blank
  <2>1. PICK s : s = Prefix(left, l)
    OBVIOUS
  <2>2. s \in Text /\ Len(s) = l /\ \A i \in 1 .. l : s[i] = left[i]
    <3>1. l \in 0 .. Len(left)
      BY <1>2, <1>9
    <3> QED BY <1>1, <2>1, <3>1, Parts
  <2>3. s # <<>> /\ s[1] \notin Blank
    <3>1. 1 \in 1 .. l /\ l # 0
      BY <1>9
    <3> QED BY <1>1, <2>2, <3>1, EmptySeq
  <2>4. PICK c \in 1 .. l : InkSpans(s, 1, c) /\ Trim(s) = Prefix(s, c)
    BY <2>2, <2>3, TrimFromStart
  <2>5. c \in 0 .. Len(s)
    BY <1>9, <2>2
  <2>6. Len(chunk) = c
    <3>1. Len(Prefix(s, c)) = c
      BY <2>2, <2>5, Parts
    <3> QED BY <2>1, <2>4, <3>1 DEF MovedTo
  <2>7. ASSUME NEW i \in c + 1 .. l PROVE left[i] \in Blank
    <3>1. i \in 1 .. l /\ ~(i <= c)
      BY <1>9
    <3>2. s[i] \in Blank
      BY <2>2, <2>4, <3>1 DEF InkSpans
    <3> QED BY <2>2, <3>1, <3>2
  <2> QED BY <2>6, <2>7

(* The others begin with it. *)
<1>0. PICK others : others = Others(all, chunk)
  OBVIOUS
<1>14. /\ others \in Text /\ Len(others) = len - q
       /\ \A i \in 1 .. len - q : others[i] = left[q + i]
  <2>1. PICK size \in Nat : size = Len(all) /\ len <= size
    BY <1>1, <1>3
  <2>2. PICK r : r = Rest(all, c)
    OBVIOUS
  <2>3. r \in Text /\ Len(r) = size - c /\ \A i \in 1 .. size - c : r[i] = all[c + i]
    <3>1. c \in 0 .. Len(all)
      BY <1>9, <2>1
    <3> QED BY <2>1, <2>2, <3>1, Parts
  <2>4. PICK u : u = q + 1 - c
    OBVIOUS
  <2>5. PICK v : v = len - c
    OBVIOUS
  <2>6. u \in 1 .. size - c /\ v \in u .. size - c /\ c + u = q + 1 /\ c + v = len /\ q + 1 \in 1 .. len
    BY <1>9, <1>11, <1>13, <2>1, <2>4, <2>5
  <2>7. InkSpans(r, u, v)
    <3>1. r[u] \notin Blank /\ r[v] \notin Blank
      <4>1. v \in 1 .. size - c /\ len \in 1 .. len
        BY <2>6
      <4>2. r[u] = left[q + 1] /\ r[v] = left[len]
        BY <1>3, <2>3, <2>6, <4>1
      <4> QED BY <1>3, <1>11, <4>2
    <3>2. ASSUME NEW i \in 1 .. Len(r), r[i] \notin Blank PROVE u <= i /\ i <= v
      <4>1. PICK j : j = c + i
        OBVIOUS
      <4>2. j \in c + 1 .. size /\ all[j] \notin Blank /\ i \in Nat
        BY <1>9, <1>13, <2>1, <2>3, <3>2, <4>1
      <4>3. j <= len
        <5>1. j \in len + 1 .. Len(all) \/ j <= len
          BY <1>9, <1>13, <2>1, <4>2
        <5> QED BY <1>3, <4>2, <5>1
      <4>4. j \in 1 .. len /\ left[j] \notin Blank
        BY <1>3, <1>13, <4>2, <4>3
      <4>5. ~(j \in c + 1 .. l) /\ ~(j \in l + 1 .. q)
        BY <1>11, <1>13, <4>4
      <4>6. q + 1 <= j
        BY <1>9, <1>11, <1>13, <4>2, <4>5
      <4> QED BY <1>9, <1>11, <1>13, <2>4, <2>5, <4>1, <4>2, <4>3, <4>6
    <3> QED BY <3>1, <3>2 DEF InkSpans
  <2>8. others = SubSeq(r, u, v)
    <3>1. u \in 1 .. Len(r) /\ v \in u .. Len(r)
      BY <2>3, <2>6
    <3>2. Trim(r) = SubSeq(r, u, v)
      BY <2>3, <2>7, <3>1, TrimAs
    <3> QED BY <1>0, <1>13, <2>2, <3>2 DEF Others
  <2>9. others \in Text /\ Len(others) = v - u + 1 /\ \A i \in 1 .. v - u + 1 : others[i] = r[u + i - 1]
    <3>1. u \in 1 .. Len(r) + 1 /\ v \in u - 1 .. Len(r)
      BY <2>3, <2>6
    <3> QED BY <2>3, <2>8, <3>1, Part
  <2>10. v - u + 1 = len - q
    BY <1>9, <1>11, <1>13, <2>4, <2>5
  <2>11. ASSUME NEW i \in 1 .. len - q PROVE others[i] = left[q + i]
    <3>1. PICK j : j = u + i - 1
      OBVIOUS
    <3>2. j \in 1 .. size - c /\ c + j = q + i /\ q + i \in 1 .. len
      BY <1>9, <1>11, <1>13, <2>1, <2>4, <2>6, <3>1
    <3>3. others[i] = r[j] /\ r[j] = all[c + j] /\ all[q + i] = left[q + i]
      BY <1>3, <2>3, <2>9, <2>10, <3>1, <3>2
    <3> QED BY <3>2, <3>3
  <2> QED BY <2>9, <2>10, <2>11
<1>15. PICK k : k = n - q
  OBVIOUS
<1>16. /\ k \in 1 .. len - q /\ q + k = n /\ k \in 1 .. Len(others) /\ Len(h) = k
       /\ 1 \in 1 .. len - q /\ k < len - q
  BY <1>3, <1>9, <1>11, <1>14, <1>15
<1>17. /\ others # <<>> /\ others[1] \notin Blank /\ others[k] \notin Blank
       /\ \A i \in 1 .. k : others[i] # "line"
  <2>1. others # <<>>
    BY <1>14, <1>16, EmptySeq
  <2>2. others[1] \notin Blank /\ others[k] \notin Blank
    BY <1>9, <1>11, <1>14, <1>16
  <2>3. ASSUME NEW i \in 1 .. k PROVE others[i] # "line"
    <3>1. i \in 1 .. len - q /\ q + i \in 1 .. n /\ ~(q + i <= l)
      BY <1>9, <1>11, <1>15, <1>16
    <3>2. others[i] = cand[q + i]
      BY <1>7, <1>14, <3>1
    <3> QED BY <1>8, <3>1, <3>2
  <2> QED BY <2>1, <2>2, <2>3
<1>18. PICK z \in k .. Len(others) : /\ FirstLine(others) = Prefix(others, z)
                                     /\ k < z => others[k + 1] # "line"
  BY <1>14, <1>16, <1>17, FirstLineIs
<1>19. PICK f : f = Prefix(others, z)
  OBVIOUS
<1>20. f \in Text /\ Len(f) = z /\ \A i \in 1 .. z : f[i] = others[i]
  <2>1. z \in 0 .. Len(others)
    BY <1>16
  <2> QED BY <1>14, <1>19, <2>1, Parts
<1>21. \A i \in 1 .. k : f[i] = h[i]
  <2>1. \A i \in 1 .. k : i \in 1 .. z /\ i \in 1 .. len - q /\ i \in 1 .. n - q
    BY <1>15, <1>16
  <2> QED BY <1>11, <1>14, <1>20, <2>1
<1>22. k < z /\ h[k] = "#" => f[k + 1] = "space"
  <2> SUFFICES ASSUME k < z, h[k] = "#" PROVE f[k + 1] = "space"
    OBVIOUS
  <2>1. left[n] = "#"
    BY <1>11, <1>15, <1>16
  <2>2. n # b
    BY <1>3, <2>1 DEF CutAfter, Blank
  <2>3. n + 1 \in 1 .. b /\ ~(n + 1 <= n)
    BY <1>3, <1>9, <2>2
  <2>4. left[n + 1] \in Blank
    <3>1. p[n + 1] \in Blank
      BY <1>5, <1>6, <2>3 DEF InkSpans
    <3> QED BY <1>5, <2>3, <3>1
  <2>5. PICK j : j = k + 1
    OBVIOUS
  <2>6. j \in 1 .. z /\ j \in 1 .. len - q /\ q + j = n + 1
    BY <1>9, <1>11, <1>14, <1>15, <1>16, <2>5
  <2>7. f[j] = others[j] /\ others[j] = left[q + j]
    BY <1>14, <1>20, <2>6
  <2>8. others[j] \in Blank /\ others[j] # "line"
    BY <1>18, <2>4, <2>5, <2>6, <2>7
  <2> QED BY <2>5, <2>7, <2>8 DEF Blank
<1>23. Len(h) <= Len(f) /\ (Len(h) < Len(f) /\ h[Len(h)] = "#" => f[Len(h) + 1] = "space")
  BY <1>16, <1>20, <1>22
<1>24. \A i \in 1 .. Len(h) : f[i] = h[i]
  BY <1>16, <1>21
<1>25. isMarkdownHeading(f)
  BY <1>11, <1>12, <1>20, <1>23, <1>24, HeadingGoesOn
<1> QED BY <1>0, <1>18, <1>19, <1>25

LEMMA HeadingLeads ==
  ASSUME NEW text \in Text, NEW from \in 0 .. Len(text) - 1, text[from + 1] \notin Blank,
         NEW limit \in Nat \ {0}, NEW left, NEW all, LeftAndAll(text, from, left, all),
         isMarkdownHeading(LastLine(ChunkOf(left, limit))), Others(all, ChunkOf(left, limit)) # <<>>
  PROVE  \/ Trim(Prefix(all, limit)) = ChunkOf(left, limit)
         \/ isMarkdownHeading(FirstLine(Others(all, ChunkOf(left, limit))))
<1>0. PICK chunk : chunk = ChunkOf(left, limit)
  OBVIOUS
<1>1. Len(text) \in Nat /\ from \in 0 .. Len(text)
  BY LenProperties DEF Text
<1>2. PICK end \in Nat : end = End(text) /\ end \in 0 .. Len(text)
  BY <1>1, EndIs
<1>3. /\ Clean(left) /\ left # <<>> /\ from < end /\ Len(left) = end - from
      /\ \A i \in 1 .. end - from : left[i] = text[from + i]
  <2>1. left = SubSeq(text, from + 1, End(text))
    BY DEF LeftAndAll
  <2>2. Clean(left) /\ left # <<>> /\ from < End(text) /\ Len(left) = End(text) - from
    BY <2>1, LeftIsClean
  <2>3. \A i \in 1 .. End(text) - from : left[i] = text[from + i]
    BY <2>1, LeftIsClean
  <2> QED BY <1>2, <2>2, <2>3
<1>4. left \in Text /\ left[1] \notin Blank
  BY <1>3 DEF Clean
<1>5. PICK len : len = end - from
  OBVIOUS
<1>6. len \in Nat \ {0} /\ len = Len(left) /\ len <= Len(text) - from
  BY <1>1, <1>2, <1>3, <1>5
<1>7. all \in Text /\ Len(all) = Len(text) - from /\ \A i \in 1 .. Len(text) - from : all[i] = text[from + i]
  <2>1. /\ Rest(text, from) \in Text /\ Len(Rest(text, from)) = Len(text) - from
        /\ \A i \in 1 .. Len(text) - from : Rest(text, from)[i] = text[from + i]
    BY <1>1, Parts
  <2> QED BY <2>1 DEF LeftAndAll
<1>8. \A i \in 1 .. len : all[i] = left[i]
  <2>1. \A i \in 1 .. len : i \in 1 .. Len(text) - from /\ i \in 1 .. end - from
    BY <1>1, <1>5, <1>6
  <2> QED BY <1>3, <1>7, <2>1
<1>9. ASSUME NEW i \in len + 1 .. Len(all) PROVE all[i] \in Blank
  <2>1. i \in 1 .. Len(text) - from /\ from + i \in 1 .. Len(text) /\ ~(from + i <= end)
    BY <1>1, <1>2, <1>5, <1>6, <1>7
  <2>2. text[from + i] \in Blank
    BY <1>2, <2>1, EndIs
  <2> QED BY <1>7, <2>1, <2>2
<1>10. CASE len <= limit
  <2>1. CutAt(left, limit) = Len(left)
    BY <1>6, <1>10 DEF CutAt
  <2>2. chunk = left
    <3>1. Prefix(left, Len(left)) = left
      BY <1>4, SubSeqFull DEF Prefix, Text
    <3> QED BY <1>0, <1>3, <2>1, <3>1, TrimOfClean DEF ChunkOf
  <2>3. PICK r : r = Rest(all, len)
    OBVIOUS
  <2>4. r \in Text /\ Len(r) = Len(all) - len /\ \A i \in 1 .. Len(all) - len : r[i] = all[len + i]
    <3>1. len \in 0 .. Len(all)
      BY <1>1, <1>6, <1>7
    <3> QED BY <1>7, <2>3, <3>1, Parts
  <2>5. ASSUME NEW i \in 1 .. Len(r) PROVE r[i] \in Blank
    <3>1. len + i \in len + 1 .. Len(all) /\ i \in 1 .. Len(all) - len
      BY <1>1, <1>6, <1>7, <2>4
    <3> QED BY <1>9, <2>4, <3>1
  <2>6. Trim(r) = <<>>
    BY <2>4, <2>5, TrimNothing
  <2> QED BY <1>0, <1>6, <2>2, <2>3, <2>6 DEF Others
<1>11. CASE limit < len
  <2>1. limit \in 1 .. Len(left) /\ limit < Len(left)
    BY <1>6, <1>11
  <2>2. PICK best : best = bestTextSplit(left, limit)
    OBVIOUS
  <2>3. CutAt(left, limit) = IF best > 0 THEN best ELSE limit
    BY <1>6, <1>11, <2>2 DEF CutAt
  <2>4. CASE best = 0
    <3>1. chunk = Trim(Prefix(left, limit))
      BY <1>0, <2>3, <2>4 DEF ChunkOf
    <3>2. limit \in 0 .. Len(left) /\ limit \in 0 .. Len(all)
      BY <1>1, <1>6, <1>7, <2>1
    <3>3. /\ Prefix(left, limit) \in Text /\ Len(Prefix(left, limit)) = limit
          /\ \A i \in 1 .. limit : Prefix(left, limit)[i] = left[i]
      BY <1>4, <3>2, Parts
    <3>4. /\ Prefix(all, limit) \in Text /\ Len(Prefix(all, limit)) = limit
          /\ \A i \in 1 .. limit : Prefix(all, limit)[i] = all[i]
      BY <1>7, <3>2, Parts
    <3>5. \A i \in 1 .. limit : i \in 1 .. len
      BY <1>6, <1>11
    <3>6. \A i \in 1 .. Len(Prefix(all, limit)) : Prefix(all, limit)[i] = Prefix(left, limit)[i]
      BY <1>8, <3>3, <3>4, <3>5
    <3>7. Prefix(all, limit) = Prefix(left, limit)
      BY <3>3, <3>4, <3>6, SeqEqual DEF Text
    <3> QED BY <1>0, <3>1, <3>7
  <2>5. ASSUME NEW b \in 1 .. limit, CutAfter(left, limit, b), best = markdownHeadingSafeSplit(left, b),
               best > 0
        PROVE  isMarkdownHeading(FirstLine(Others(all, chunk)))
    <3>1. PICK moved : moved = avoidTrailingMarkdownHeading(left, b)
      OBVIOUS
    <3>2. best = moved /\ ~leavesOnlyMarkdownHeading(left, moved)
      BY <2>5, <3>1 DEF markdownHeadingSafeSplit
    <3>3. chunk = Trim(Prefix(left, moved))
      BY <1>0, <2>3, <2>5, <3>2 DEF ChunkOf
    <3>4. ~("line" \notin Range(chunk) /\ isMarkdownHeading(chunk))
      BY <3>2, <3>3 DEF leavesOnlyMarkdownHeading
    <3>5. PICK cand : cand = TrimRight(Prefix(left, b))
      OBVIOUS
    <3>6. PICK l : l = LineStart(cand)
      OBVIOUS
    <3>7. moved = IF l > 0 /\ isMarkdownHeading(LastLine(cand)) THEN l ELSE b
      BY <3>1, <3>5, <3>6 DEF avoidTrailingMarkdownHeading
    <3>8. CASE l > 0 /\ isMarkdownHeading(LastLine(cand))
      <4>1. chunk = Trim(Prefix(left, l))
        BY <3>3, <3>7, <3>8
      <4>2. Len(left) <= Len(all) /\ (\A i \in 1 .. Len(left) : all[i] = left[i])
            /\ \A i \in Len(left) + 1 .. Len(all) : all[i] \in Blank
        BY <1>6, <1>7, <1>8, <1>9
      <4>3. MovedTo(left, b, cand, l, chunk)
        BY <3>5, <3>6, <4>1 DEF MovedTo
      <4> QED BY <1>3, <1>7, <2>1, <2>5, <3>8, <4>2, <4>3, MovedHeadingLeads
    <3>9. CASE ~(l > 0 /\ isMarkdownHeading(LastLine(cand)))
      <4>1. PICK p : p = Prefix(left, b)
        OBVIOUS
      <4>2. p \in Text /\ p # <<>> /\ p[1] \notin Blank
        <5>1. b \in 0 .. Len(left) /\ b # 0 /\ 1 \in 1 .. b
          BY <2>1
        <5>2. p \in Text /\ Len(p) = b /\ \A i \in 1 .. b : p[i] = left[i]
          BY <1>4, <4>1, <5>1, Parts
        <5> QED BY <1>4, <5>1, <5>2, EmptySeq
      <4>3. \E n \in 1 .. Len(p) : InkSpans(p, 1, n) /\ Trim(p) = Prefix(p, n) /\ TrimRight(p) = Prefix(p, n)
        BY <4>2, TrimFromStart
      <4>4. chunk = cand
        BY <3>3, <3>5, <3>7, <3>9, <4>1, <4>3
      <4>5. Clean(chunk) /\ chunk \in Text
        BY <3>3, <3>7, <3>9, <4>1, <4>2, TrimCleans DEF Clean
      <4>6. l \in 0 .. Len(chunk) /\ \A i \in 1 .. Len(chunk) : chunk[i] = "line" => i <= l
        BY <3>6, <4>4, <4>5, LineStartIs
      <4>7. l = 0
        BY <1>0, <3>9, <4>4, <4>6
      <4>8. DOMAIN chunk = 1 .. Len(chunk) /\ Len(chunk) \in Nat
        BY <4>5, LenProperties DEF Text
      <4>9. "line" \notin Range(chunk)
        BY <4>6, <4>7, <4>8 DEF Range
      <4>10. LastLine(chunk) = chunk
        <5>1. Rest(chunk, 0) = chunk
          <6>1. 0 + 1 = 1
            OBVIOUS
          <6> QED BY <4>5, <6>1, SubSeqFull DEF Rest, Text
        <5>2. LastLine(chunk) = Trim(chunk)
          BY <3>6, <4>4, <4>7, <5>1 DEF LastLine
        <5>3. CASE chunk = <<>>
          <6>1. chunk \in Text /\ 1 .. Len(chunk) = {}
            BY <4>5, <5>3, EmptySeq
          <6>2. Trim(chunk) = <<>>
            BY <6>1, TrimNothing
          <6> QED BY <5>2, <5>3, <6>2
        <5>4. CASE chunk # <<>>
          BY <4>5, <5>2, <5>4, TrimOfClean
        <5> QED BY <5>3, <5>4
      <4> QED BY <1>0, <3>4, <4>9, <4>10
    <3> QED BY <3>8, <3>9
  <2>6. \/ best = 0
        \/ \E b \in 1 .. limit :
             CutAfter(left, limit, b) /\ best = markdownHeadingSafeSplit(left, b) /\ best > 0
    BY <1>4, <2>1, <2>2, BestIs
  <2> QED BY <1>0, <2>4, <2>5, <2>6
<1>12. len <= limit \/ limit < len
  BY <1>6
<1> QED BY <1>10, <1>11, <1>12

-----------------------------------------------------------------------------
(* What a report has posted                                                *)

Told(posts) == FlattenSeq([j \in 1 .. Len(posts) |-> posts[j].text])
Shown(posts) == FlattenSeq([i \in DOMAIN posts |-> posts[i].files])
ToldBefore(posts, i) == FlattenSeq([j \in 1 .. i - 1 |-> posts[j].text])
PostsTyped(posts) ==
  IsSequence(posts) /\ \A i \in DOMAIN posts : posts[i].text \in Text /\ posts[i].files \in Seq(Path)

LEMMA NothingPosted == PostsTyped(<<>>) /\ Told(<<>>) = <<>> /\ Shown(<<>>) = <<>>
<1>1. IsSequence(<<>>) /\ Len(<<>>) = 0 /\ DOMAIN <<>> = 1 .. 0
  BY EmptySequence, EmptySeq, LenProperties
<1>2. 1 .. 0 = {}
  OBVIOUS
<1>3. PostsTyped(<<>>)
  BY <1>1, <1>2 DEF PostsTyped
<1>4. PICK posts : posts = <<>>
  OBVIOUS
<1>5. Len(posts) = 0 /\ DOMAIN posts = {}
  BY <1>1, <1>2, <1>4
<1>6. [j \in 1 .. Len(posts) |-> posts[j].text] = <<>>
  BY <1>2, <1>5
<1>7. [i \in DOMAIN posts |-> posts[i].files] = <<>>
  BY <1>5
<1> QED BY <1>3, <1>4, <1>6, <1>7, FlatNothing DEF Told, Shown

LEMMA FunctionIsSeq ==
  ASSUME NEW S, NEW n \in Nat, NEW f, f \in [1 .. n -> S]
  PROVE  f \in Seq(S) /\ Len(f) = n
BY DEF Seq

LEMMA LenIs ==
  ASSUME NEW S, NEW f \in Seq(S), NEW n \in Nat, DOMAIN f = 1 .. n
  PROVE  Len(f) = n
BY LenProperties

\* What posts tell is a text, and what they show are files.
LEMMA PostsShape ==
  ASSUME NEW posts, PostsTyped(posts)
  PROVE  /\ [j \in 1 .. Len(posts) |-> posts[j].text] \in Seq(Text)
         /\ [j \in DOMAIN posts |-> posts[j].files] \in Seq(Seq(Path))
         /\ Told(posts) \in Text /\ Shown(posts) \in Seq(Path)
         /\ Len(posts) \in Nat /\ DOMAIN posts = 1 .. Len(posts)
<1>1. Len(posts) \in Nat /\ DOMAIN posts = 1 .. Len(posts)
  BY LenProperties DEF PostsTyped, IsSequence
<1>2. PICK n \in Nat : n = Len(posts)
  BY <1>1
<1>3. \A j \in 1 .. n : posts[j].text \in Text /\ posts[j].files \in Seq(Path)
  BY <1>1, <1>2 DEF PostsTyped
<1>4. PICK f : f = [j \in 1 .. n |-> posts[j].text]
  OBVIOUS
<1>5. PICK g : g = [j \in 1 .. n |-> posts[j].files]
  OBVIOUS
<1>6. f \in [1 .. n -> Text] /\ g \in [1 .. n -> Seq(Path)]
  BY <1>3, <1>4, <1>5
<1>7. f \in Seq(Text) /\ g \in Seq(Seq(Path))
  BY <1>6, FunctionIsSeq
<1>8. FlattenSeq(f) \in Text /\ FlattenSeq(g) \in Seq(Path)
  BY <1>7, FlatTyped DEF Text
<1> QED BY <1>1, <1>2, <1>4, <1>5, <1>7, <1>8 DEF Told, Shown

\* One post more, which tells and shows what it has behind all the others
MoreIs(posts, post, more) ==
  /\ PostsTyped(more) /\ Len(posts) \in Nat /\ DOMAIN more = 1 .. Len(posts) + 1
  /\ Told(more) = Told(posts) \o post.text
  /\ Shown(more) = Shown(posts) \o post.files
  /\ more[Len(posts) + 1] = post /\ ToldBefore(more, Len(posts) + 1) = Told(posts)
  /\ \A i \in 1 .. Len(posts) :
       more[i] = posts[i] /\ ToldBefore(more, i) = ToldBefore(posts, i)
LEMMA MorePosted ==
  ASSUME NEW posts, PostsTyped(posts), NEW post, post.text \in Text, post.files \in Seq(Path)
  PROVE  MoreIs(posts, post, Append(posts, post))
<1>0. PICK more : more = Append(posts, post)
  OBVIOUS
<1>1. PICK n \in Nat : n = Len(posts) /\ DOMAIN posts = 1 .. n
  BY PostsShape
<1>2. /\ IsSequence(more) /\ Len(more) = n + 1 /\ DOMAIN more = 1 .. n + 1
      /\ (\A i \in 1 .. n : more[i] = posts[i]) /\ more[n + 1] = post
  BY <1>0, <1>1, AppendSequence DEF PostsTyped
<1>3. PostsTyped(more)
  <2>1. \A i \in 1 .. n + 1 : i = n + 1 \/ i \in 1 .. n
    OBVIOUS
  <2> QED BY <1>1, <1>2, <2>1 DEF PostsTyped
<1>4. PICK f : f = [j \in 1 .. n |-> posts[j].text]
  OBVIOUS
<1>5. PICK g : g = [j \in 1 .. n |-> posts[j].files]
  OBVIOUS
<1>6. f \in Seq(Text) /\ g \in Seq(Seq(Path)) /\ Len(f) = n /\ Len(g) = n
  <2>1. f \in Seq(Text) /\ g \in Seq(Seq(Path))
    BY <1>1, <1>4, <1>5, PostsShape
  <2> QED BY <1>4, <1>5, <2>1, LenIs
<1>7. PICK f1 : f1 = [j \in 1 .. n + 1 |-> more[j].text]
  OBVIOUS
<1>8. PICK g1 : g1 = [j \in 1 .. n + 1 |-> more[j].files]
  OBVIOUS
<1>9. f1 \in Seq(Text) /\ g1 \in Seq(Seq(Path)) /\ Len(f1) = n + 1 /\ Len(g1) = n + 1
  <2>1. f1 \in Seq(Text) /\ g1 \in Seq(Seq(Path))
    BY <1>2, <1>3, <1>7, <1>8, PostsShape
  <2>2. n + 1 \in Nat /\ DOMAIN f1 = 1 .. n + 1 /\ DOMAIN g1 = 1 .. n + 1
    BY <1>7, <1>8
  <2>3. Len(f1) = n + 1
    BY <2>1, <2>2, LenIs
  <2>4. Len(g1) = n + 1
    BY <2>1, <2>2, LenIs
  <2> QED BY <2>1, <2>3, <2>4
<1>10. f1 = Append(f, post.text)
  <2>1. /\ Append(f, post.text) \in Seq(Text) /\ Len(Append(f, post.text)) = n + 1
        /\ \A j \in 1 .. n : Append(f, post.text)[j] = f[j]
        /\ Append(f, post.text)[n + 1] = post.text
    BY <1>6, AppendProperties
  <2>2. ASSUME NEW j \in 1 .. n + 1 PROVE f1[j] = Append(f, post.text)[j]
    <3>1. CASE j = n + 1
      BY <1>2, <1>7, <2>1, <3>1
    <3>2. CASE j # n + 1
      <4>1. j \in 1 .. n
        BY <3>2
      <4> QED BY <1>2, <1>4, <1>7, <2>1, <4>1
    <3> QED BY <3>1, <3>2
  <2> QED BY <1>9, <2>1, <2>2, SeqEqual
<1>11. g1 = Append(g, post.files)
  <2>1. /\ Append(g, post.files) \in Seq(Seq(Path)) /\ Len(Append(g, post.files)) = n + 1
        /\ \A j \in 1 .. n : Append(g, post.files)[j] = g[j]
        /\ Append(g, post.files)[n + 1] = post.files
    BY <1>6, AppendProperties
  <2>2. ASSUME NEW j \in 1 .. n + 1 PROVE g1[j] = Append(g, post.files)[j]
    <3>1. CASE j = n + 1
      BY <1>2, <1>8, <2>1, <3>1
    <3>2. CASE j # n + 1
      <4>1. j \in 1 .. n
        BY <3>2
      <4> QED BY <1>2, <1>5, <1>8, <2>1, <4>1
    <3> QED BY <3>1, <3>2
  <2> QED BY <1>9, <2>1, <2>2, SeqEqual
<1>12. Told(more) = FlattenSeq(f1) /\ Told(posts) = FlattenSeq(f)
  BY <1>1, <1>2, <1>4, <1>7 DEF Told
<1>13. Shown(more) = FlattenSeq(g1) /\ Shown(posts) = FlattenSeq(g)
  BY <1>1, <1>2, <1>5, <1>8 DEF Shown
<1>14. FlattenSeq(f1) = FlattenSeq(f) \o post.text
  BY <1>6, <1>10, FlatAppends DEF Text
<1>15. FlattenSeq(g1) = FlattenSeq(g) \o post.files
  BY <1>6, <1>11, FlatAppends
<1>16. ASSUME NEW k \in 1 .. n + 1
       PROVE  [j \in 1 .. k - 1 |-> more[j].text] = [j \in 1 .. k - 1 |-> posts[j].text]
  <2>1. \A j \in 1 .. k - 1 : more[j] = posts[j]
    <3>1. \A j \in 1 .. k - 1 : j \in 1 .. n
      OBVIOUS
    <3> QED BY <1>2, <3>1
  <2> QED BY <2>1
<1>17. ToldBefore(more, n + 1) = Told(posts)
  <2>1. PICK k : k = n + 1
    OBVIOUS
  <2>2. k \in 1 .. n + 1
    BY <2>1
  <2>3. k - 1 = n
    BY <2>1
  <2>4. [j \in 1 .. k - 1 |-> more[j].text] = [j \in 1 .. k - 1 |-> posts[j].text]
    BY <1>16, <2>2
  <2>5. ToldBefore(more, k) = FlattenSeq([j \in 1 .. n |-> posts[j].text])
    BY <2>3, <2>4 DEF ToldBefore
  <2> QED BY <1>1, <2>1, <2>5 DEF Told
<1>18. ASSUME NEW i \in 1 .. n PROVE ToldBefore(more, i) = ToldBefore(posts, i)
  <2>1. i \in 1 .. n + 1
    OBVIOUS
  <2> QED BY <1>16, <2>1 DEF ToldBefore
<1> QED BY <1>0, <1>1, <1>2, <1>3, <1>12, <1>13, <1>14, <1>15, <1>17, <1>18 DEF MoreIs

\* One sequence begins with another.
IsBeginning(S, a, b) == \E rest \in Seq(S) : a \o rest = b

LEMMA Beginnings ==
  ASSUME NEW S, NEW a \in Seq(S)
  PROVE  /\ IsBeginning(S, a, a) /\ IsBeginning(S, <<>>, a)
         /\ \A b \in Seq(S) : IsBeginning(S, a, b) => IsPrefix(a, b)
<1>1. <<>> \in Seq(S) /\ a \o <<>> = a /\ <<>> \o a = a
  BY EmptySeq, ConcatEmptySeq
<1>2. ASSUME NEW b \in Seq(S), NEW rest \in Seq(S), a \o rest = b
      PROVE  IsPrefix(a, b)
  <2>1. Len(a) \in Nat /\ Len(rest) \in Nat /\ Len(b) = Len(a) + Len(rest)
    BY <1>2, LenProperties, ConcatProperties
  <2>2. Len(a) <= Len(b)
    BY <2>1
  <2>3. SubSeq(a, 1, Len(a)) = a
    BY SubSeqFull
  <2>4. SubSeq(b, 1, Len(a)) = a
    <3>1. SubSeq(a \o rest, 1, Len(a)) = a
      BY SubSeqOfConcat1, <2>1, <2>3
    <3> QED BY <1>2, <3>1
  <2> QED BY <2>2, <2>3, <2>4 DEF IsPrefix
<1> QED BY <1>1, <1>2 DEF IsBeginning

\* A chunk is the first of what was left when it was posted.
ChunkLed(text, before, chunk, limit) ==
  \E from \in 0 .. Len(text) - 1 :
    LeftAt(text, before, from) /\ chunk = ChunkOf(SubSeq(text, from + 1, End(text)), limit)
PostOk(text, limit, before, post) ==
  \/ /\ post.files = <<>> /\ Len(post.text) \in 1 .. limit
     /\ ChunkLed(text, before, post.text, limit)
  \/ post.files # <<>> /\ post.text = <<>>
PostsRead(text, paths, limit, posts) ==
  /\ PostsTyped(posts)
  /\ \A i \in DOMAIN posts : PostOk(text, limit, ToldBefore(posts, i), posts[i])
  /\ IsBeginning(CharKind, Ink(Told(posts)), Ink(text)) /\ IsBeginning(Path, Shown(posts), paths)
  /\ Shown(posts) # <<>> => Ink(Told(posts)) = Ink(text)

LEMMA NothingRead ==
  ASSUME NEW text \in Text, NEW paths \in Seq(Path), NEW limit
  PROVE  PostsRead(text, paths, limit, <<>>)
<1>1. Ink(text) \in Seq(CharKind) /\ DOMAIN <<>> = {}
  BY InkTyped, EmptySeq DEF Text
<1>2. IsBeginning(CharKind, <<>>, Ink(text)) /\ IsBeginning(Path, <<>>, paths)
  BY <1>1, Beginnings
<1> QED BY <1>1, <1>2, NothingPosted, InkOfNothing DEF PostsRead

\* Each post is right when the new one is.
LEMMA PostsStayRight ==
  ASSUME NEW text, NEW limit, NEW posts, PostsTyped(posts),
         \A i \in DOMAIN posts : PostOk(text, limit, ToldBefore(posts, i), posts[i]),
         NEW post, post.text \in Text, post.files \in Seq(Path),
         PostOk(text, limit, Told(posts), post)
  PROVE  \A i \in DOMAIN Append(posts, post) :
           PostOk(text, limit, ToldBefore(Append(posts, post), i), Append(posts, post)[i])
<1>1. PICK more : more = Append(posts, post)
  OBVIOUS
<1>2. PICK n \in Nat : n = Len(posts) /\ DOMAIN posts = 1 .. n
  BY PostsShape
<1>3. /\ DOMAIN more = 1 .. n + 1
      /\ more[n + 1] = post /\ ToldBefore(more, n + 1) = Told(posts)
      /\ \A i \in 1 .. n : more[i] = posts[i] /\ ToldBefore(more, i) = ToldBefore(posts, i)
  BY <1>1, <1>2, MorePosted DEF MoreIs
<1>4. ASSUME NEW i \in 1 .. n + 1 PROVE PostOk(text, limit, ToldBefore(more, i), more[i])
  <2>1. CASE i = n + 1
    BY <1>3, <2>1
  <2>2. CASE i \in 1 .. n
    BY <1>2, <1>3, <2>2
  <2> QED BY <2>1, <2>2
<1> QED BY <1>1, <1>3, <1>4

LEMMA ChunkPosted ==
  ASSUME NEW text \in Text, NEW paths \in Seq(Path), NEW limit \in Nat \ {0},
         NEW posts, PostsRead(text, paths, limit, posts), Shown(posts) = <<>>,
         NEW left, LeftFrom(text, Told(posts), left), left # <<>>,
         NEW post, post.text = ChunkOf(left, limit), post.files = <<>>
  PROVE  /\ PostsRead(text, paths, limit, Append(posts, post))
         /\ Shown(Append(posts, post)) = <<>>
         /\ LeftFrom(text, Told(Append(posts, post)), RestOf(left, limit))
<1>1. PostsTyped(posts) /\ Told(posts) \in Text
  BY PostsShape DEF PostsRead
<1>2. PICK more : more = Append(posts, post)
  OBVIOUS
<1>3. Clean(left) /\ Ink(Told(posts)) \o Ink(left) = Ink(text)
  BY <1>1, LeftIsRest
<1>4. ChunkOf(left, limit) \in Text /\ Len(ChunkOf(left, limit)) \in 1 .. limit
  BY <1>3, ChunkTrue
<1>5. post.text \in Text /\ post.files \in Seq(Path)
  BY <1>4, EmptySeq
<1>6. PostsTyped(more) /\ Told(more) = Told(posts) \o post.text /\ Shown(more) = Shown(posts) \o post.files
  BY <1>1, <1>2, <1>5, MorePosted DEF MoreIs
<1>7. Shown(more) = <<>>
  BY <1>6, EmptySeq, ConcatEmptySeq
<1>8. LeftFrom(text, Told(more), RestOf(left, limit))
  BY <1>1, <1>6, LeftGoesOn
<1>9. PostOk(text, limit, Told(posts), post)
  <2>1. PICK from \in 0 .. Len(text) - 1 :
          LeftAt(text, Told(posts), from) /\ left = SubSeq(text, from + 1, End(text))
    BY DEF LeftFrom
  <2>2. ChunkLed(text, Told(posts), post.text, limit)
    BY <2>1 DEF ChunkLed
  <2> QED BY <1>4, <2>2 DEF PostOk
<1>10. \A i \in DOMAIN more : PostOk(text, limit, ToldBefore(more, i), more[i])
  BY <1>1, <1>2, <1>5, <1>9, PostsStayRight DEF PostsRead
<1>11. IsBeginning(CharKind, Ink(Told(more)), Ink(text))
  <2>1. Told(more) \in Text
    BY <1>6, PostsShape
  <2>2. PICK rest : rest = RestOf(left, limit)
    OBVIOUS
  <2>3. Clean(rest) /\ Ink(Told(more)) \o Ink(rest) = Ink(text)
    BY <1>8, <2>1, <2>2, LeftIsRest
  <2>4. Ink(rest) \in Seq(CharKind)
    BY <2>3, InkTyped DEF Clean, Text
  <2> QED BY <2>3, <2>4 DEF IsBeginning
<1>12. IsBeginning(Path, Shown(more), paths)
  BY <1>7, Beginnings
<1> QED BY <1>2, <1>6, <1>7, <1>8, <1>10, <1>11, <1>12 DEF PostsRead

\* A post of files leaves what was told as it is.
MoreFiles(text, paths, limit, posts, post) ==
  /\ PostsRead(text, paths, limit, Append(posts, post))
  /\ Shown(Append(posts, post)) = Shown(posts) \o post.files
  /\ Ink(Told(Append(posts, post))) = Ink(text)
LEMMA FilesArePosted ==
  ASSUME NEW text \in Text, NEW paths \in Seq(Path), NEW limit \in Nat \ {0},
         NEW posts, PostsRead(text, paths, limit, posts), Ink(Told(posts)) = Ink(text),
         NEW post, post.text = <<>>, post.files \in Seq(Path), post.files # <<>>,
         IsBeginning(Path, Shown(posts) \o post.files, paths)
  PROVE  MoreFiles(text, paths, limit, posts, post)
<1>1. PostsTyped(posts) /\ Told(posts) \in Text
  BY PostsShape DEF PostsRead
<1>2. PICK more : more = Append(posts, post)
  OBVIOUS
<1>3. post.text \in Text
  BY EmptySeq DEF Text
<1>4. PostsTyped(more) /\ Told(more) = Told(posts) \o post.text /\ Shown(more) = Shown(posts) \o post.files
  BY <1>1, <1>2, <1>3, MorePosted DEF MoreIs
<1>5. Told(more) = Told(posts)
  <2>1. Told(posts) \o <<>> = Told(posts)
    BY <1>1, ConcatEmptySeq DEF Text
  <2> QED BY <1>4, <2>1
<1>6. PostOk(text, limit, Told(posts), post)
  BY DEF PostOk
<1>7. \A i \in DOMAIN more : PostOk(text, limit, ToldBefore(more, i), more[i])
  BY <1>1, <1>2, <1>3, <1>6, PostsStayRight DEF PostsRead
<1> QED BY <1>2, <1>4, <1>5, <1>7 DEF PostsRead, MoreFiles

\* There is more in b than a.
MoreFollow(S, a, b) == \E more \in Seq(S) : more # <<>> /\ a \o more = b

\* The next of some elements, after those that came before
LEMMA NextJoins ==
  ASSUME NEW S, NEW a \in Seq(S), NEW rest \in Seq(S), rest # <<>>, NEW b, a \o rest = b
  PROVE  /\ <<b[Len(a) + 1]>> \in Seq(S) /\ <<b[Len(a) + 1]>> # <<>>
         /\ IsBeginning(S, a \o <<b[Len(a) + 1]>>, b)
         /\ Len(a) + 1 = Len(b) => a \o <<b[Len(a) + 1]>> = b
         /\ Len(a) + 1 # Len(b) => MoreFollow(S, a \o <<b[Len(a) + 1]>>, b)
<1>1. PICK n \in Nat : n = Len(a)
  BY LenProperties
<1>2. PICK k \in Nat : k = Len(rest) /\ k # 0
  BY LenProperties, EmptySeq
<1>3. Len(b) = n + k /\ \A i \in 1 .. n + k : b[i] = IF i <= n THEN a[i] ELSE rest[i - n]
  BY <1>1, <1>2, ConcatProperties
<1>4. PICK at : at = n + 1
  OBVIOUS
<1>5. at \in 1 .. n + k /\ ~(at <= n) /\ at - n = 1
  BY <1>2, <1>4
<1>6. b[at] = rest[1]
  BY <1>3, <1>5
<1>7. PICK one : one = <<b[at]>>
  OBVIOUS
<1>8. 1 \in 1 .. Len(rest) /\ 1 .. Len(rest) = DOMAIN rest /\ rest[1] \in S
  <2>1. 1 \in 1 .. Len(rest)
    BY <1>2
  <2> QED BY <2>1, LenProperties, ElementOfSeq
<1>9. one \in Seq(S) /\ one # <<>> /\ Len(one) = 1 /\ one[1] = rest[1]
  BY <1>6, <1>7, <1>8
<1>10. PICK more : more = Tail(rest)
  OBVIOUS
<1>11. more \in Seq(S) /\ Len(more) = k - 1 /\ \A i \in 1 .. k - 1 : more[i] = rest[i + 1]
  <2>1. more \in Seq(S) /\ Len(more) = Len(rest) - 1
    BY <1>10, HeadTailProperties
  <2>2. \A i \in 1 .. Len(more) : more[i] = rest[i + 1]
    BY <1>10, HeadTailProperties
  <2> QED BY <1>2, <2>1, <2>2
<1>18. one \in Seq(S) /\ more \in Seq(S)
  BY <1>9, <1>11
<1>12. one \o more = rest
  <2>1. /\ one \o more \in Seq(S) /\ Len(one \o more) = Len(one) + Len(more)
        /\ \A i \in 1 .. Len(one) + Len(more) :
             (one \o more)[i] = IF i <= Len(one) THEN one[i] ELSE more[i - Len(one)]
    BY <1>18, ConcatProperties
  <2>2. Len(one) + Len(more) = k
    BY <1>2, <1>9, <1>11
  <2>3. ASSUME NEW i \in 1 .. k PROVE (one \o more)[i] = rest[i]
    <3>1. CASE i = 1
      BY <1>9, <2>1, <2>2, <3>1
    <3>2. CASE i # 1
      <4>1. PICK j : j = i - 1
        OBVIOUS
      <4>2. j \in 1 .. k - 1 /\ j + 1 = i /\ ~(i <= 1)
        BY <1>2, <3>2, <4>1
      <4>3. (one \o more)[i] = more[j]
        BY <1>9, <2>1, <2>2, <4>1, <4>2
      <4> QED BY <1>11, <4>2, <4>3
    <3> QED BY <3>1, <3>2
  <2> QED BY <1>2, <2>1, <2>2, <2>3, SeqEqual
<1>13. (a \o one) \o more = b
  <2>1. (a \o one) \o more = a \o (one \o more)
    BY <1>18, ConcatAssociative
  <2> QED BY <1>12, <2>1
<1>14. IsBeginning(S, a \o one, b)
  BY <1>11, <1>13 DEF IsBeginning
<1>15. ASSUME Len(a) + 1 = Len(b) PROVE a \o one = b
  <2>1. k = 1
    BY <1>1, <1>2, <1>3, <1>15
  <2>2. Len(more) = 0
    BY <1>11, <2>1
  <2>3. more = <<>>
    BY <1>11, <2>2, EmptySeq
  <2>4. a \o one \in Seq(S)
    BY <1>9, ConcatProperties
  <2> QED BY <1>13, <2>3, <2>4, ConcatEmptySeq
<1>16. ASSUME Len(a) + 1 # Len(b) PROVE more # <<>>
  <2>1. k # 1
    BY <1>1, <1>2, <1>3, <1>16
  <2>2. Len(more) # 0
    BY <1>2, <1>11, <2>1
  <2> QED BY <2>2, EmptySeq
<1>17. one = <<b[Len(a) + 1]>>
  BY <1>1, <1>4, <1>7
<1>19. one \in Seq(S) /\ one # <<>>
  BY <1>9
<1> QED BY <1>11, <1>13, <1>14, <1>15, <1>16, <1>17, <1>19 DEF MoreFollow

-----------------------------------------------------------------------------
(* What each report has posted so far                                      *)

SoFar(text, paths, via, rec) ==
  /\ rec.pc = "waiting" => rec.posts = <<>>
  /\ rec.pc = "text" => Shown(rec.posts) = <<>> /\ LeftFrom(text, Told(rec.posts), rec.left)
  /\ rec.pc = "files" =>
       /\ via # "cli" /\ Ink(Told(rec.posts)) = Ink(text)
       /\ \E rest \in Seq(Path) : rest # <<>> /\ Shown(rec.posts) \o rest = paths
       /\ via # "telegram" => Shown(rec.posts) = <<>>
  /\ rec.pc = "done" =>
       Ink(Told(rec.posts)) = Ink(text) /\ (via # "cli" => Shown(rec.posts) = paths)
ReadsOk(text, paths, via, limit, rec) ==
  PostsRead(text, paths, limit, rec.posts) /\ SoFar(text, paths, via, rec)

ReportReads(r) ==
  ReadsOk(Asked(r).text, Asked(r).files, Via(r), MaxChars[Via(r)], reports[r])
ReadsInv == \A r \in Report : ReportReads(r)

LEMMA AskedTyped ==
  ASSUME cast \in Casts, NEW r \in Report
  PROVE  /\ Asked(r).text \in Text /\ Asked(r).files \in Seq(Path)
         /\ Via(r) \in Ways /\ MaxChars[Via(r)] \in Nat \ {0}
<1>1. Asked(r).text \in Text /\ Asked(r).files \in Seq(Path)
  BY CastAssumption DEF Report, Asked, Text
<1>2. Via(r) \in Ways
  BY AskedIsMessage, MessageFacts DEF Via
<1> QED BY <1>1, <1>2, ChannelAssumption

\* A report that becomes right
LEMMA BecomesRight ==
  ASSUME cast' = cast, NEW r, NEW rec, reports'[r] = rec,
         ReadsOk(Asked(r).text, Asked(r).files, Via(r), MaxChars[Via(r)], rec)
  PROVE  ReportReads(r)'
<1>1. PICK text, paths, via : /\ text = Asked(r).text /\ text = Asked(r).text'
                              /\ paths = Asked(r).files /\ paths = Asked(r).files'
                              /\ via = Via(r) /\ via = Via(r)'
  BY DEF Asked, Via, Sent
<1> QED BY <1>1 DEF ReportReads

\* A report that gives up
LEMMA GivenUp ==
  ASSUME cast' = cast, NEW r \in Report, ReportReads(r), reports'[r].pc = "failed",
         reports'[r].posts = reports[r].posts
  PROVE  ReportReads(r)'
<1>1. PICK rec : rec = reports'[r]
  OBVIOUS
<1>2. SoFar(Asked(r).text, Asked(r).files, Via(r), rec)
  BY <1>1 DEF SoFar
<1> QED BY <1>1, <1>2, BecomesRight DEF ReportReads, ReadsOk

\* What comes of a post
Made(r, text, paths, once, after) ==
  \/ reports'[r] = [after EXCEPT !.posts = Posted(r, text, paths, once)]
  \/ reports'[r] = GivesUp(r)
  \/ reports'[r] = [GivesUp(r) EXCEPT !.posts = Posted(r, text, paths, once)]

LEMMA PostMakes ==
  ASSUME ReportsTyped, NEW r \in Report, NEW text, NEW paths, NEW after, Post(r, text, paths, after)
  PROVE  \E once : Made(r, text, paths, once, after)
<1>1. DOMAIN reports = Report
  BY DEF ReportsTyped
<1>2. ASSUME NEW new, Becomes(r, new) PROVE reports'[r] = new
  BY <1>1, <1>2 DEF Becomes
<1>3. CASE \E end \in {after, GivesUp(r)} :
             Becomes(r, [end EXCEPT !.posts = Posted(r, text, paths, FALSE)])
  <2>1. PICK end \in {after, GivesUp(r)} :
          Becomes(r, [end EXCEPT !.posts = Posted(r, text, paths, FALSE)])
    BY <1>3
  <2>2. reports'[r] = [end EXCEPT !.posts = Posted(r, text, paths, FALSE)]
    BY <1>2, <2>1
  <2>3. CASE end = after
    BY <2>2, <2>3 DEF Made
  <2>4. CASE end = GivesUp(r)
    BY <2>2, <2>4 DEF Made
  <2> QED BY <2>1, <2>3, <2>4
<1>4. CASE Becomes(r, [after EXCEPT !.posts = Posted(r, text, paths, TRUE)])
  BY <1>2, <1>4 DEF Made
<1>5. CASE Becomes(r, GivesUp(r))
  BY <1>2, <1>5 DEF Made
<1>6. CASE Becomes(r, [GivesUp(r) EXCEPT !.posts = Posted(r, text, paths, TRUE)])
  BY <1>2, <1>6 DEF Made
<1> QED BY <1>3, <1>4, <1>5, <1>6 DEF Post

\* A post that is right when it is made is right, whether it is answered or not,
\* and also when it was made again.
LEMMA PostReads ==
  ASSUME ReportsTyped, cast' = cast, NEW r \in Report, ReportReads(r),
         NEW text, NEW paths, NEW once, NEW after, Made(r, text, paths, once, after),
         {"pc", "left", "posts"} \subseteq DOMAIN after,
         PostsRead(Asked(r).text, Asked(r).files, MaxChars[Via(r)], Posted(r, text, paths, once)),
         SoFar(Asked(r).text, Asked(r).files, Via(r),
               [after EXCEPT !.posts = Posted(r, text, paths, once)])
  PROVE  ReportReads(r)'
<1>1. {"pc", "left", "posts"} \subseteq DOMAIN reports[r] /\ DOMAIN reports = Report
  BY DEF ReportsTyped, ReportOk
<1>2. PICK posts : posts = Posted(r, text, paths, once)
  OBVIOUS
<1>3. PICK ended : ended = GivesUp(r)
  OBVIOUS
<1>4. /\ {"pc", "left", "posts"} \subseteq DOMAIN ended
      /\ ended.pc = "failed" /\ ended.posts = reports[r].posts
  BY <1>1, <1>3 DEF GivesUp
<1>5. \/ reports'[r] = [after EXCEPT !.posts = posts]
      \/ reports'[r] = ended
      \/ reports'[r] = [ended EXCEPT !.posts = posts]
  BY <1>2, <1>3 DEF Made
<1>6. CASE reports'[r] = [after EXCEPT !.posts = posts]
  <2>1. PICK new : new = [after EXCEPT !.posts = posts]
    OBVIOUS
  <2>2. new.posts = posts
    BY <2>1
  <2>3. SoFar(Asked(r).text, Asked(r).files, Via(r), new)
    BY <1>2, <2>1
  <2>4. ReadsOk(Asked(r).text, Asked(r).files, Via(r), MaxChars[Via(r)], new)
    BY <1>2, <2>2, <2>3 DEF ReadsOk
  <2> QED BY <1>6, <2>1, <2>4, BecomesRight
<1>7. CASE reports'[r] = ended
  BY <1>4, <1>7, GivenUp
<1>8. CASE reports'[r] = [ended EXCEPT !.posts = posts]
  <2>1. PICK new : new = [ended EXCEPT !.posts = posts]
    OBVIOUS
  <2>2. new.posts = posts /\ new.pc = "failed"
    BY <1>4, <2>1
  <2>3. SoFar(Asked(r).text, Asked(r).files, Via(r), new)
    BY <2>2 DEF SoFar
  <2>4. ReadsOk(Asked(r).text, Asked(r).files, Via(r), MaxChars[Via(r)], new)
    BY <1>2, <2>2, <2>3 DEF ReadsOk
  <2> QED BY <1>8, <2>1, <2>4, BecomesRight
<1> QED BY <1>5, <1>6, <1>7, <1>8

-----------------------------------------------------------------------------
(* Each step                                                               *)

LEMMA BeginReads ==
  ASSUME cast \in Casts, ReportsTyped, cast' = cast, NEW r \in Report, ReportReads(r), BeginReport(r)
  PROVE  ReportReads(r)'
<1>1. {"pc", "left", "posts"} \subseteq DOMAIN reports[r] /\ DOMAIN reports = Report
  BY DEF ReportsTyped, ReportOk
<1>2. PICK text \in Text, paths \in Seq(Path) : text = Asked(r).text /\ paths = Asked(r).files
  BY AskedTyped
<1>3. PICK new : /\ reports'[r] = new
                 /\ \/ new = [reports[r] EXCEPT !.pc = "text", !.left = Trim(text)]
                    \/ new = [reports[r] EXCEPT !.pc = "failed"]
  BY <1>1, <1>2 DEF BeginReport, Becomes
<1>4. CASE new = [reports[r] EXCEPT !.pc = "failed"]
  <2>1. new.pc = "failed" /\ new.posts = reports[r].posts
    BY <1>1, <1>4
  <2> QED BY <1>3, <2>1, GivenUp
<1>5. CASE new = [reports[r] EXCEPT !.pc = "text", !.left = Trim(text)]
  <2>1. new.pc = "text" /\ new.left = Trim(text) /\ new.posts = reports[r].posts
    BY <1>1, <1>5
  <2>2. reports[r].posts = <<>>
    BY DEF BeginReport, Reporting, ReportReads, ReadsOk, SoFar
  <2>3. Shown(new.posts) = <<>> /\ LeftFrom(text, Told(new.posts), new.left)
    BY <2>1, <2>2, NothingPosted, LeftAtStart
  <2>4. SoFar(text, paths, Via(r), new)
    BY <2>1, <2>3 DEF SoFar
  <2>5. ReadsOk(Asked(r).text, Asked(r).files, Via(r), MaxChars[Via(r)], new)
    BY <1>2, <2>1, <2>4 DEF ReadsOk, ReportReads
  <2> QED BY <1>3, <2>5, BecomesRight
<1> QED BY <1>3, <1>4, <1>5

LEMMA ChunkReads ==
  ASSUME cast \in Casts, ReportsTyped, cast' = cast, NEW r \in Report, ReportReads(r), PostChunk(r)
  PROVE  ReportReads(r)'
<1>1. {"pc", "left", "posts"} \subseteq DOMAIN reports[r]
  BY DEF ReportsTyped, ReportOk
<1>2. PICK text \in Text, paths \in Seq(Path), limit \in Nat \ {0} :
        text = Asked(r).text /\ paths = Asked(r).files /\ limit = MaxChars[Via(r)]
  BY AskedTyped
<1>3. PICK left, posts : left = reports[r].left /\ posts = reports[r].posts
  OBVIOUS
<1>4. PICK chunk : chunk = ChunkOf(left, limit)
  OBVIOUS
<1>5. PICK after : after = [reports[r] EXCEPT !.left = RestOf(left, limit)]
  OBVIOUS
<1>6. Post(r, chunk, <<>>, after)
  BY <1>2, <1>3, <1>4, <1>5 DEF PostChunk
<1>7. PICK once : Made(r, chunk, <<>>, once, after)
  BY <1>6, PostMakes
<1>8. PICK post : /\ Posted(r, chunk, <<>>, once) = Append(posts, post)
                  /\ post.text = chunk /\ post.files = <<>>
  BY <1>3 DEF Posted
<1>9. /\ reports[r].pc = "text" /\ left # <<>>
      /\ Shown(posts) = <<>> /\ LeftFrom(text, Told(posts), left)
      /\ PostsRead(text, paths, limit, posts)
  BY <1>2, <1>3 DEF PostChunk, Reporting, ReportReads, ReadsOk, SoFar
<1>10. PICK more : more = Append(posts, post)
  OBVIOUS
<1>11. /\ PostsRead(text, paths, limit, more)
      /\ Shown(more) = <<>>
      /\ LeftFrom(text, Told(more), RestOf(left, limit))
  BY <1>4, <1>8, <1>9, <1>10, ChunkPosted
<1>12. {"pc", "left", "posts"} \subseteq DOMAIN after
  BY <1>1, <1>5
<1>13. SoFar(text, paths, Via(r), [after EXCEPT !.posts = more])
  <2>1. PICK new : new = [after EXCEPT !.posts = more]
    OBVIOUS
  <2>2. new.pc = "text" /\ new.left = RestOf(left, limit) /\ new.posts = more
    BY <1>1, <1>9, <1>5, <1>12, <2>1
  <2>3. SoFar(text, paths, Via(r), new)
    BY <1>11, <2>2 DEF SoFar
  <2> QED BY <2>1, <2>3
<1>14. more = Posted(r, chunk, <<>>, once)
  BY <1>8, <1>10
<1> QED BY <1>7, <1>2, <1>11, <1>6, <1>12, <1>13, <1>14, PostReads

LEMMA DoneReads ==
  ASSUME cast \in Casts, ReportsTyped, cast' = cast, NEW r \in Report, ReportReads(r), TextDone(r)
  PROVE  ReportReads(r)'
<1>1. {"pc", "left", "posts"} \subseteq DOMAIN reports[r] /\ DOMAIN reports = Report
  BY DEF ReportsTyped, ReportOk
<1>2. PICK text \in Text, paths \in Seq(Path) : text = Asked(r).text /\ paths = Asked(r).files
  BY AskedTyped
<1>3. PICK via, posts : via = Via(r) /\ posts = reports[r].posts
  OBVIOUS
<1>4. PICK new : /\ reports'[r] = new
                 /\ new = [reports[r] EXCEPT !.pc = IF via = "cli" \/ paths = <<>> THEN "done" ELSE "files"]
  BY <1>1, <1>2, <1>3 DEF TextDone, Becomes
<1>5. new.pc = (IF via = "cli" \/ paths = <<>> THEN "done" ELSE "files") /\ new.posts = posts
  BY <1>1, <1>3, <1>4
<1>6. /\ reports[r].left = <<>> /\ Shown(posts) = <<>> /\ LeftFrom(text, Told(posts), <<>>)
      /\ PostsRead(text, paths, MaxChars[Via(r)], posts)
  BY <1>2, <1>3 DEF TextDone, Reporting, ReportReads, ReadsOk, SoFar
<1>7. Ink(Told(posts)) = Ink(text)
  <2>1. Told(posts) \in Text
    BY <1>6, PostsShape DEF PostsRead
  <2>2. Ink(Told(posts)) \o Ink(<<>>) = Ink(text)
    BY <1>6, <2>1, LeftIsRest
  <2>3. Ink(Told(posts)) \in Seq(CharKind)
    BY <2>1, InkTyped DEF Text
  <2> QED BY <2>2, <2>3, InkOfNothing, ConcatEmptySeq
<1>8. paths \in Seq(Path) /\ <<>> \o paths = paths
  BY ConcatEmptySeq
<1>9. SoFar(text, paths, via, new)
  <2>1. CASE via = "cli" \/ paths = <<>>
    BY <1>5, <1>6, <1>7, <2>1 DEF SoFar
  <2>2. CASE ~(via = "cli" \/ paths = <<>>)
    BY <1>5, <1>6, <1>7, <1>8, <2>2 DEF SoFar
  <2> QED BY <2>1, <2>2
<1>10. ReadsOk(Asked(r).text, Asked(r).files, Via(r), MaxChars[Via(r)], new)
  BY <1>2, <1>3, <1>5, <1>6, <1>9 DEF ReadsOk
<1> QED BY <1>4, <1>10, BecomesRight

LEMMA DiscordReads ==
  ASSUME cast \in Casts, ReportsTyped, cast' = cast, NEW r \in Report, ReportReads(r),
         PostDiscordFiles(r)
  PROVE  ReportReads(r)'
<1>1. {"pc", "left", "posts"} \subseteq DOMAIN reports[r]
  BY DEF ReportsTyped, ReportOk
<1>2. PICK text \in Text, paths \in Seq(Path), limit \in Nat \ {0} :
        text = Asked(r).text /\ paths = Asked(r).files /\ limit = MaxChars[Via(r)]
  BY AskedTyped
<1>3. PICK posts : posts = reports[r].posts
  OBVIOUS
<1>4. PICK after : after = [reports[r] EXCEPT !.pc = "done"]
  OBVIOUS
<1>5. Post(r, <<>>, paths, after) /\ {"pc", "left", "posts"} \subseteq DOMAIN after
  BY <1>1, <1>2, <1>4 DEF PostDiscordFiles
<1>6. PICK once : Made(r, <<>>, paths, once, after)
  BY <1>5, PostMakes
<1>7. PICK post : /\ Posted(r, <<>>, paths, once) = Append(posts, post)
                  /\ post.text = <<>> /\ post.files = paths
  BY <1>3 DEF Posted
<1>8. /\ Ink(Told(posts)) = Ink(text) /\ Shown(posts) = <<>>
      /\ \E rest \in Seq(Path) : rest # <<>> /\ Shown(posts) \o rest = paths
      /\ PostsRead(text, paths, limit, posts)
  BY <1>2, <1>3 DEF PostDiscordFiles, Reporting, ReportReads, ReadsOk, SoFar
<1>9. paths # <<>> /\ Shown(posts) \o paths = paths
  <2>1. PICK rest \in Seq(Path) : rest # <<>> /\ Shown(posts) \o rest = paths
    BY <1>8
  <2>2. <<>> \o rest = rest /\ <<>> \o paths = paths
    BY ConcatEmptySeq
  <2> QED BY <1>8, <2>1, <2>2
<1>10. IsBeginning(Path, Shown(posts) \o post.files, paths)
  BY <1>7, <1>9, Beginnings
<1>11. PICK more : more = Append(posts, post)
  OBVIOUS
<1>12. post.files \in Seq(Path) /\ post.files # <<>>
  BY <1>7, <1>9
<1>13. /\ PostsRead(text, paths, limit, more) /\ Shown(more) = Shown(posts) \o post.files
       /\ Ink(Told(more)) = Ink(text)
  <2>1. MoreFiles(text, paths, limit, posts, post)
    BY <1>7, <1>8, <1>10, <1>12, FilesArePosted
  <2> QED BY <1>11, <2>1 DEF MoreFiles
<1>14. SoFar(text, paths, Via(r), [after EXCEPT !.posts = more])
  <2>1. PICK new : new = [after EXCEPT !.posts = more]
    OBVIOUS
  <2>2. new.pc = "done" /\ new.posts = more
    BY <1>1, <1>4, <1>5, <2>1
  <2>3. Shown(more) = paths
    BY <1>7, <1>9, <1>13
  <2>4. SoFar(text, paths, Via(r), new)
    BY <1>13, <2>2, <2>3 DEF SoFar
  <2> QED BY <2>1, <2>4
<1>15. more = Posted(r, <<>>, paths, once)
  BY <1>7, <1>11
<1> QED BY <1>6, <1>2, <1>13, <1>5, <1>14, <1>15, PostReads

LEMMA TelegramReads ==
  ASSUME cast \in Casts, ReportsTyped, cast' = cast, NEW r \in Report, ReportReads(r),
         PostTelegramFile(r)
  PROVE  ReportReads(r)'
<1>1. {"pc", "left", "posts"} \subseteq DOMAIN reports[r]
  BY DEF ReportsTyped, ReportOk
<1>2. PICK text \in Text, paths \in Seq(Path), limit \in Nat \ {0} :
        text = Asked(r).text /\ paths = Asked(r).files /\ limit = MaxChars[Via(r)]
  BY AskedTyped
<1>3. PICK posts : posts = reports[r].posts
  OBVIOUS
<1>4. PICK shown : shown = Shown(posts)
  OBVIOUS
<1>5. FilesPosted(r) = Len(shown)
  BY <1>3, <1>4 DEF FilesPosted, PostedFiles, Shown
<1>6. PICK next : next = <<paths[Len(shown) + 1]>>
  OBVIOUS
<1>7. NextPosted(r) = next
  BY <1>2, <1>5, <1>6 DEF NextPosted
<1>8. /\ reports[r].pc = "files" /\ Via(r) = "telegram" /\ Ink(Told(posts)) = Ink(text)
      /\ \E rest \in Seq(Path) : rest # <<>> /\ shown \o rest = paths
      /\ PostsRead(text, paths, limit, posts)
  BY <1>2, <1>3, <1>4 DEF PostTelegramFile, Reporting, ReportReads, ReadsOk, SoFar
<1>9. PICK pc : pc = IF Len(shown) + 1 = Len(paths) THEN "done" ELSE "files"
  OBVIOUS
<1>10. PICK after : after = [reports[r] EXCEPT !.pc = pc]
  OBVIOUS
<1>11. Post(r, <<>>, next, after) /\ {"pc", "left", "posts"} \subseteq DOMAIN after
  <2>1. after = [reports[r] EXCEPT !.pc = IF FilesPosted(r) + 1 = Len(Asked(r).files) THEN "done" ELSE @]
    BY <1>2, <1>5, <1>8, <1>9, <1>10
  <2> QED BY <1>1, <1>7, <1>10, <2>1 DEF PostTelegramFile
<1>12. PICK once : Made(r, <<>>, next, once, after)
  BY <1>11, PostMakes
<1>13. PICK post : /\ Posted(r, <<>>, next, once) = Append(posts, post)
                  /\ post.text = <<>> /\ post.files = next
  BY <1>3 DEF Posted
<1>14. shown \in Seq(Path)
  BY <1>4, <1>8, PostsShape DEF PostsRead
<1>15. PICK rest \in Seq(Path) : rest # <<>> /\ shown \o rest = paths
  BY <1>8
<1>16. next \in Seq(Path) /\ next # <<>> /\ IsBeginning(Path, shown \o next, paths)
  BY <1>6, <1>14, <1>15, NextJoins
<1>17. Len(shown) + 1 = Len(paths) => shown \o next = paths
  BY <1>6, <1>14, <1>15, NextJoins
<1>18. Len(shown) + 1 # Len(paths) =>
         \E others \in Seq(Path) : others # <<>> /\ (shown \o next) \o others = paths
  <2>1. ASSUME Len(shown) + 1 # Len(paths)
        PROVE  MoreFollow(Path, shown \o <<paths[Len(shown) + 1]>>, paths)
    BY <1>14, <1>15, <2>1, NextJoins
  <2> QED BY <1>6, <2>1 DEF MoreFollow
<1>19. PICK more : more = Append(posts, post)
  OBVIOUS
<1>20. post.files \in Seq(Path) /\ post.files # <<>> /\ IsBeginning(Path, Shown(posts) \o post.files, paths)
  BY <1>4, <1>13, <1>16
<1>21. /\ PostsRead(text, paths, limit, more) /\ Shown(more) = shown \o next
       /\ Ink(Told(more)) = Ink(text)
  <2>1. /\ PostsRead(text, paths, limit, more) /\ Shown(more) = Shown(posts) \o post.files
        /\ Ink(Told(more)) = Ink(text)
    <3>1. MoreFiles(text, paths, limit, posts, post)
      BY <1>13, <1>8, <1>20, FilesArePosted
    <3> QED BY <1>19, <3>1 DEF MoreFiles
  <2> QED BY <1>4, <1>13, <2>1
<1>22. SoFar(text, paths, Via(r), [after EXCEPT !.posts = more])
  <2>1. PICK new : new = [after EXCEPT !.posts = more]
    OBVIOUS
  <2>2. new.pc = pc /\ new.posts = more
    BY <1>1, <1>10, <1>11, <2>1
  <2>3. CASE Len(shown) + 1 = Len(paths)
    <3>1. SoFar(text, paths, Via(r), new)
      BY <1>17, <1>21, <1>9, <2>2, <2>3 DEF SoFar
    <3> QED BY <2>1, <3>1
  <2>4. CASE Len(shown) + 1 # Len(paths)
    <3>1. \E others \in Seq(Path) : others # <<>> /\ Shown(more) \o others = paths
      BY <1>18, <1>21, <2>4
    <3>2. SoFar(text, paths, Via(r), new)
      BY <1>8, <1>21, <1>9, <2>2, <2>4, <3>1 DEF SoFar
    <3> QED BY <2>1, <3>2
  <2> QED BY <2>3, <2>4
<1>23. more = Posted(r, <<>>, next, once)
  BY <1>13, <1>19
<1> QED BY <1>12, <1>2, <1>21, <1>11, <1>22, <1>23, PostReads

LEMMA OutboundReads ==
  ASSUME cast \in Casts, ReportsTyped, cast' = cast, NEW r \in Report, ReportReads(r), Outbound(r)
  PROVE  ReportReads(r)'
<1>1. CASE FileIsGone(r)
  <2>1. {"pc", "left", "posts"} \subseteq DOMAIN reports[r] /\ DOMAIN reports = Report
    BY DEF ReportsTyped, ReportOk
  <2>2. PICK new : new = [reports[r] EXCEPT !.pc = "failed"] /\ reports'[r] = new
    BY <1>1, <2>1 DEF FileIsGone, GivesUp, Becomes
  <2>3. new.pc = "failed" /\ new.posts = reports[r].posts
    BY <2>1, <2>2
  <2> QED BY <2>2, <2>3, GivenUp
<1> QED BY <1>1, BeginReads, ChunkReads, DoneReads, DiscordReads, TelegramReads DEF Outbound

LEMMA ReadsInit == Init => ReadsInv
<1> SUFFICES ASSUME Init, NEW r \in Report PROVE ReportReads(r)
  BY DEF ReadsInv
<1>1. reports[r].pc = "waiting" /\ reports[r].posts = <<>>
  BY DEF Init
<1>2. Asked(r).text \in Text /\ Asked(r).files \in Seq(Path)
  BY AskedTyped DEF Init
<1>3. PostsRead(Asked(r).text, Asked(r).files, MaxChars[Via(r)], <<>>)
  BY <1>2, NothingRead
<1>4. SoFar(Asked(r).text, Asked(r).files, Via(r), reports[r])
  BY <1>1 DEF SoFar
<1> QED BY <1>1, <1>3, <1>4 DEF ReportReads, ReadsOk

LEMMA ReadsKept == TypeInv /\ ReadsInv /\ [Next]_vars => ReadsInv'
<1> SUFFICES ASSUME TypeInv, ReadsInv, [Next]_vars PROVE ReadsInv'
  OBVIOUS
<1>0. /\ cast' = cast /\ Report' = Report /\ cast \in Casts /\ ReportsTyped
      /\ \A r \in Report : ReportReads(r)
  BY CastKept DEF TypeInv, PlayTyped, ReadsInv, Report
<1>1. ASSUME NEW r \in Report, reports'[r] = reports[r] PROVE ReportReads(r)'
  BY <1>0, <1>1, BecomesRight DEF ReportReads
<1>2. CASE reports' = reports
  BY <1>0, <1>1, <1>2 DEF ReadsInv
<1>3. ASSUME NEW m \in Message, Inbound(m) PROVE reports' = reports
  BY <1>3 DEF Inbound, BeginDiscord, BeginCommand, BeginTelegram, BeginInject, Begins,
     PlaceDiscord, PlaceOther, Download, DownloadFails, Ignore, Enqueue, EnqueueFails
<1>4. ASSUME NEW q \in Report, Outbound(q) PROVE ReadsInv'
  <2>1. ReportReads(q)'
    BY <1>0, <1>4, OutboundReads
  <2>2. \A r \in Report : r # q => reports'[r] = reports[r]
    BY <1>0, <1>4, OutboundStep DEF ReportStep
  <2> QED BY <1>0, <1>1, <2>1, <2>2 DEF ReadsInv
<1>5. ASSUME NEW c \in Caller, Tools(c) PROVE reports' = reports
  BY <1>5 DEF Tools, channel
<1>6. CASE Restart
  <2>1. ASSUME NEW r \in Report PROVE ReportReads(r)'
    <3>1. CASE reports[r].pc \in {"text", "files"}
      <4>1. {"pc", "left", "posts"} \subseteq DOMAIN reports[r]
        BY <1>0 DEF ReportsTyped, ReportOk
      <4>2. PICK new : new = [reports[r] EXCEPT !.pc = "failed"] /\ reports'[r] = new
        BY <1>6, <3>1 DEF Restart, GivesUp
      <4>3. new.pc = "failed" /\ new.posts = reports[r].posts
        BY <4>1, <4>2
      <4> QED BY <1>0, <4>2, <4>3, GivenUp
    <3>2. CASE reports[r].pc \notin {"text", "files"}
      <4>1. reports'[r] = reports[r]
        BY <1>6, <3>2 DEF Restart
      <4> QED BY <1>1, <4>1
    <3> QED BY <3>1, <3>2
  <2> QED BY <1>0, <2>1 DEF ReadsInv
<1>7. UNCHANGED vars => reports' = reports
  BY DEF vars, channel
<1> QED BY <1>2, <1>3, <1>4, <1>5, <1>6, <1>7 DEF Next, Stopped

-----------------------------------------------------------------------------
(* What follows for the reports                                            *)

LEMMA TextsAre ==
  ASSUME NEW r, PostsTyped(reports[r].posts)
  PROVE  /\ Texts(r) = Told(reports[r].posts) /\ PostedFiles(r) = Shown(reports[r].posts)
         /\ \A i : TextsBefore(r, i) = ToldBefore(reports[r].posts, i)
<1>1. PICK posts : posts = reports[r].posts
  OBVIOUS
<1>2. PICK n \in Nat : n = Len(posts)
  BY <1>1, PostsShape
<1>3. PICK k : k = n + 1
  OBVIOUS
<1>4. k - 1 = n
  BY <1>3
<1>5. Texts(r) = FlattenSeq([j \in 1 .. k - 1 |-> posts[j].text])
  BY <1>1, <1>2, <1>3 DEF Texts, TextsBefore
<1>6. Texts(r) = Told(posts)
  BY <1>2, <1>4, <1>5 DEF Told
<1>7. PostedFiles(r) = Shown(posts) /\ \A i : TextsBefore(r, i) = ToldBefore(posts, i)
  BY <1>1 DEF PostedFiles, Shown, TextsBefore, ToldBefore
<1> QED BY <1>1, <1>6, <1>7

LEMMA OrderFollows == IInv /\ ReadsInv => ReportedInOrder
<1> SUFFICES ASSUME TypeInv, OutboundInv, ReadsInv, NEW r \in Report
             PROVE  /\ IsPrefix(Ink(Texts(r)), Ink(Asked(r).text))
                    /\ IsPrefix(PostedFiles(r), Asked(r).files)
                    /\ reports[r].pc = "text" =>
                         Ink(Texts(r)) \o Ink(reports[r].left) = Ink(Asked(r).text)
                    /\ (PostedFiles(r) # <<>> \/ reports[r].pc = "done") =>
                         Ink(Texts(r)) = Ink(Asked(r).text)
                    /\ (reports[r].pc = "done" /\ Via(r) # "cli") => PostedFiles(r) = Asked(r).files
                    /\ \A i \in DOMAIN reports[r].posts :
                         reports[r].posts[i].once \/ Via(r) \in {"discord", "command"}
  BY DEF ReportedInOrder, IInv
<1>1. PICK text \in Text, paths \in Seq(Path) : text = Asked(r).text /\ paths = Asked(r).files
  BY AskedTyped DEF TypeInv, PlayTyped
<1>2. PICK posts : posts = reports[r].posts
  OBVIOUS
<1>3. PostsRead(text, paths, MaxChars[Via(r)], posts) /\ SoFar(text, paths, Via(r), reports[r])
  BY <1>1, <1>2 DEF ReadsInv, ReportReads, ReadsOk
<1>4. /\ Told(posts) \in Text /\ Shown(posts) \in Seq(Path)
      /\ Texts(r) = Told(posts) /\ PostedFiles(r) = Shown(posts)
  BY <1>2, <1>3, TextsAre, PostsShape DEF PostsRead
<1>5. Ink(Told(posts)) \in Seq(CharKind) /\ Ink(text) \in Seq(CharKind)
  BY <1>4, InkTyped DEF Text
<1>6. IsPrefix(Ink(Told(posts)), Ink(text)) /\ IsPrefix(Shown(posts), paths)
  BY <1>3, <1>4, <1>5, Beginnings DEF PostsRead
<1>7. reports[r].pc = "text" => Ink(Told(posts)) \o Ink(reports[r].left) = Ink(text)
  BY <1>2, <1>3, <1>4, LeftIsRest DEF SoFar
<1>8. Shown(posts) # <<>> \/ reports[r].pc = "done" => Ink(Told(posts)) = Ink(text)
  BY <1>2, <1>3 DEF PostsRead, SoFar
<1>9. reports[r].pc = "done" /\ Via(r) # "cli" => Shown(posts) = paths
  BY <1>2, <1>3 DEF SoFar
<1>10. \A i \in DOMAIN reports[r].posts :
         reports[r].posts[i].once \/ Via(r) \in {"discord", "command"}
  BY DEF OutboundInv, ReportTrue, PostTrue
<1> QED BY <1>1, <1>4, <1>6, <1>7, <1>8, <1>9, <1>10

LEMMA FitFollows == ReadsInv => ChunksFit
<1> SUFFICES ASSUME ReadsInv, NEW r \in Report, NEW i \in DOMAIN reports[r].posts
             PROVE  LET post == reports[r].posts[i] IN
                    IF post.files = <<>> THEN Len(post.text) \in 1 .. MaxChars[Via(r)]
                    ELSE post.text = <<>>
  BY DEF ChunksFit
<1>1. PostOk(Asked(r).text, MaxChars[Via(r)], ToldBefore(reports[r].posts, i), reports[r].posts[i])
  BY DEF ReadsInv, ReportReads, ReadsOk, PostsRead
<1> QED BY <1>1 DEF PostOk

\* So much of a text was told in one place only.
LEMMA OnePlace ==
  ASSUME NEW text \in Text, NEW told, NEW m \in 0 .. Len(text) - 1, NEW n \in 0 .. Len(text) - 1,
         LeftAt(text, told, m), LeftAt(text, told, n)
  PROVE  m = n
<1>1. Len(text) \in Nat
  BY LenProperties DEF Text
<1>2. m \in 0 .. Len(text) /\ n \in 0 .. Len(text) /\ (m < n \/ n < m \/ m = n)
  BY <1>1
<1>3. ~(m < n) /\ ~(n < m)
  BY <1>2, InkGrows DEF LeftAt
<1> QED BY <1>2, <1>3

LEMMA HeadingsFollow == TypeInv /\ ReadsInv => HeadingsLead
<1> SUFFICES ASSUME TypeInv, ReadsInv, NEW r \in Report, NEW i \in DOMAIN reports[r].posts,
                    NEW chunk, chunk = reports[r].posts[i].text,
                    chunk # <<>>, isMarkdownHeading(LastLine(chunk)),
                    NEW at \in 0 .. Len(Asked(r).text) - 1,
                    StartsAt(r, i, at), Trim(Rest(Rest(Asked(r).text, at), Len(chunk))) # <<>>
             PROVE  \/ Trim(Prefix(Rest(Asked(r).text, at), MaxChars[Via(r)])) = chunk
                    \/ isMarkdownHeading(FirstLine(Trim(Rest(Rest(Asked(r).text, at), Len(chunk)))))
  BY DEF HeadingsLead
<1>1. PICK text \in Text, limit \in Nat \ {0} : text = Asked(r).text /\ limit = MaxChars[Via(r)]
  BY AskedTyped DEF TypeInv, PlayTyped
<1>2. PICK before : before = ToldBefore(reports[r].posts, i)
  OBVIOUS
<1>3. PostOk(text, limit, before, reports[r].posts[i]) /\ PostsTyped(reports[r].posts)
  BY <1>1, <1>2 DEF ReadsInv, ReportReads, ReadsOk, PostsRead
<1>4. PICK from \in 0 .. Len(text) - 1 :
        LeftAt(text, before, from) /\ chunk = ChunkOf(SubSeq(text, from + 1, End(text)), limit)
  BY <1>3 DEF PostOk, ChunkLed
<1>5. LeftAt(text, before, at)
  BY <1>1, <1>2, <1>3, TextsAre DEF StartsAt, LeftAt
<1>6. at \in 0 .. Len(text) - 1
  BY <1>1
<1>7. at = from
  BY <1>4, <1>5, <1>6, OnePlace
<1>8. PICK left : left = SubSeq(text, from + 1, End(text))
  OBVIOUS
<1>9. PICK all : all = Rest(text, from)
  OBVIOUS
<1>10. LeftAndAll(text, from, left, all)
  BY <1>8, <1>9 DEF LeftAndAll
<1>11. /\ isMarkdownHeading(LastLine(ChunkOf(left, limit)))
       /\ Others(all, ChunkOf(left, limit)) # <<>> /\ chunk = ChunkOf(left, limit)
  BY <1>1, <1>4, <1>7, <1>8, <1>9 DEF Others
<1>12. \/ Trim(Prefix(all, limit)) = ChunkOf(left, limit)
       \/ isMarkdownHeading(FirstLine(Others(all, ChunkOf(left, limit))))
  BY <1>4, <1>10, <1>11, HeadingLeads DEF LeftAt
<1> QED BY <1>1, <1>7, <1>9, <1>11, <1>12 DEF Others

\* A report arrives as one text, in order and once, but for a post that Discord's
\* client made again when its answer was lost, in chunks that fit; a chunk that
\* others follow ends with a heading only where there was no other place to cut or
\* another heading comes next, whatever fails and is given up (SplitText, the
\* adapters' Report).
THEOREM ReportsRead == Spec => []ReportsReadWell
<1>1. Init => IInv /\ ReadsInv
  BY InitTrue, ReadsInit
<1>2. IInv /\ ReadsInv /\ [Next]_vars => (IInv /\ ReadsInv)'
  BY NextTrue, ReadsKept DEF IInv
<1>3. IInv /\ ReadsInv => ReportsReadWell
  BY OrderFollows, FitFollows, HeadingsFollow DEF IInv, ReportsReadWell
<1> QED BY <1>1, <1>2, <1>3, PTL DEF Spec

==============================================================================
