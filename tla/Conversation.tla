----------------------------- MODULE Conversation -----------------------------
(***************************************************************************)
(* What the agent remembers of a channel and its threads: the messages,    *)
(* threads and summaries of the store, as the turns of concurrent tasks    *)
(* write and read them (internal/runtime/activities: persist_event,        *)
(* compress_conversation, conversation_context, persist_next_action,       *)
(* report_response and reset_conversation_context), and the memories that  *)
(* a reset deletes with them.  Every statement is one step.                *)
(*                                                                         *)
(* One Discord channel.  Time: an event of the channel comes at a whole    *)
(* second, what the agent writes has a fraction.  The store compares times *)
(* as text, and RFC3339Nano leaves out a fraction of zero: "…:07Z" sorts   *)
(* after "…:07.5Z".  A time is the number of half seconds, so an even one  *)
(* is a whole second.                                                      *)
(***************************************************************************)
EXTENDS MemoryStore, Migration

CONSTANTS
  Event,     \* [name, order, thread, at, body, source, posts]: the place of its
             \* id among the ids, where and when it came, its own message, and
             \* the message that answers it
  Casts,     \* [tasks, calls, asks, events, starters, databases, faults]: who
             \* may meet in one behaviour, on what, and what may happen
  History,   \* how many messages of a scope are shown
  Recent_,   \* how many messages compression leaves out
  Trigger,   \* how many messages are worth a summary
  Batch,     \* how many messages one compression reads
  MaxTime    \* bound on the clock, in seconds

ASSUME BodyAssumption ==
  \A e \in Event : e.body \in {"text", "control", "reset"}
ASSUME OrderAssumption ==
  /\ IsFiniteSet(Event)
  /\ \A e, f \in Event :
       e.order \in 0 .. Cardinality(Event) - 1 /\ (e.order = f.order => e = f)
ASSUME SizeAssumption ==
  History \in Nat /\ Recent_ \in Nat /\ Trigger \in Nat \ {0} /\ Batch \in Nat
ASSUME NothingAssumption == NoRow \notin Event \cup (Int \X Int)
ASSUME TimeAssumption == \A e \in Event : e.at \in Nat
ASSUME CastAssumption ==
  \A who \in Casts : /\ who.tasks \subseteq Task /\ who.calls \subseteq Call
                     /\ who.events \subseteq Event /\ who.starters \subseteq Starter
                     /\ \A d \in who.databases : Earlier(d)

VARIABLES
  cast,       \* who acts in this behaviour
  now,        \* the wall clock
  events,     \* the rows of events
  messages,   \* the rows of conversation_messages, by id
  threads,    \* the rows of conversation_threads, by thread
  summaries,  \* the rows of conversation_summaries
  posted,     \* the messages of the agent in the channel
  turns,      \* each event: where its task is, and what it has read
  epoch,      \* history: how often each place was reset
  forgotAt    \* history: when the last reset of a place selected its memories

conversationVars ==
  <<cast, now, events, messages, threads, summaries, posted, turns, epoch, forgotAt>>
vars == <<conversationVars, memoryVars, onboardingVars, migrationVars>>
tables == <<events, messages, threads, summaries>>
others == <<cast, now, epoch, forgotAt, memoryVars, onboardingVars, migrationVars>>

Place == {""} \cup {e.thread : e \in Event} \cup {e.posts : e \in Event}
NoCursor == <<-1, 0>>

ConversationInit ==
  /\ cast \in Casts
  /\ now = 1
  /\ events = {} /\ messages = <<>> /\ threads = <<>> /\ summaries = {}
  /\ posted = {}
  /\ turns = [e \in Event |-> [pc |-> "idle", cursor |-> NoCursor, batch |-> <<>>,
                               seen |-> {}, gen |-> 0, bound |-> NoRow,
                               told |-> {}, shown |-> {}, ids |-> {}, since |-> 0]]
  /\ epoch = [p \in Place |-> 0]
  /\ forgotAt = [p \in Place |-> 0]

TurnAt(e, pc) == turns[e].pc = pc
TurnTo(e, pc) == turns' = [turns EXCEPT ![e].pc = pc]
StoreFault == "store" \in cast.faults
-----------------------------------------------------------------------------
\* The order of the store: formatted time, then id.
Formatted(at) == IF at % 2 = 0 THEN at + 1 ELSE at - 1
Rank(id) == 3 * id.event.order + id.rank
Key(id) == <<Formatted(messages[id].at), Rank(id)>>
Behind(a, b) == a[1] < b[1] \/ (a[1] = b[1] /\ a[2] <= b[2])

Listed(thread, except, after, upto) ==
  {id \in DOMAIN messages :
     /\ messages[id].thread = thread
     /\ messages[id].event # except
     /\ ~messages[id].control
     /\ ~Behind(Key(id), after)
     /\ upto = NoRow \/ Behind(Key(id), upto)}
Before(a, b) == a # b /\ Behind(Key(a), Key(b))
Ordered(S) ==
  [i \in 1 .. Cardinality(S) |->
     CHOOSE id \in S : Cardinality({other \in S : Before(other, id)}) = i - 1]
Newest(n, S) == LET s == Ordered(S)
                IN  ToSet(SubSeq(s, IF Len(s) > n THEN Len(s) - n + 1 ELSE 1, Len(s)))

\* The summaries of a place up to a bound, the newest of them, and where the
\* newest ends.
SummariesOf(thread, upto) ==
  {s \in summaries : s.thread = thread /\ (upto = NoRow \/ Behind(s.to, upto))}
Later(s, t) ==
  s # t /\ Behind(t.to, s.to) /\ (s.to = t.to => Behind(t.from, s.from))
LastOf(n, S) == {s \in S : Cardinality({t \in S : Later(t, s)}) < n}
CursorOf(S) ==
  IF S = {} THEN NoCursor ELSE (CHOOSE s \in S : \A t \in S : Behind(t.to, s.to)).to

Row(e, thread, at, control, source) ==
  [event |-> e, thread |-> thread, at |-> at, control |-> control,
   source |-> source, gen |-> epoch[thread]]
Id(rank, e, source) == [rank |-> rank, event |-> e, source |-> source]

\* A thread keeps the root it has unless it is given one, and its beginning.
UpsertThread(thread, root, at) ==
  threads' = IF thread \in DOMAIN threads
             THEN [threads EXCEPT ![thread].root = IF root = "" THEN @ ELSE root]
             ELSE With(threads, thread, [root |-> root, at |-> at])
-----------------------------------------------------------------------------
\* A message comes: a thread hangs on a message that is there.
BeginTurn(e) ==
  /\ TurnAt(e, "idle") /\ now >= e.at \div 2
  /\ e.thread = "" \/ e.thread \in posted
       \/ \E x \in Event : x.source = e.thread /\ x.at < e.at
  /\ TurnTo(e, IF e.body = "reset" THEN "select" ELSE "append")
  /\ UNCHANGED <<tables, posted, others>>

\* PersistEvent: three rows one after the other; a failure, or an answer that
\* is lost, runs all of it again.
AppendEvent(e) ==
  /\ TurnAt(e, "append")
  /\ events' = events \cup {e}
  /\ TurnTo(e, "message")
  /\ UNCHANGED <<messages, threads, summaries, posted, others>>

PersistMessage(e) ==
  /\ TurnAt(e, "message")
  /\ \/ /\ messages' = With(messages, Id(0, e, e.source),
                            Row(e, e.thread, e.at, e.body = "control", ""))
        /\ TurnTo(e, "thread")
     \/ StoreFault /\ TurnTo(e, "append") /\ UNCHANGED messages
  /\ UNCHANGED <<events, threads, summaries, posted, others>>

PersistThread(e) ==
  /\ TurnAt(e, "thread")
  /\ \/ /\ IF e.thread = "" THEN UNCHANGED threads
           ELSE UpsertThread(e.thread, e.thread, e.at)
        /\ \E pc \in {"latest"} \cup (IF "lost" \in cast.faults THEN {"append"} ELSE {}) :
             TurnTo(e, pc)
     \/ StoreFault /\ TurnTo(e, "append") /\ UNCHANGED threads
  /\ UNCHANGED <<events, messages, summaries, posted, others>>

\* CompressConversation: read the last summary, read what follows it, ask the
\* model, write the summary.  A failed compression does not stop the task.
LatestSummary(e) ==
  /\ TurnAt(e, "latest")
  /\ turns' = [turns EXCEPT ![e].pc = "list",
                 ![e].cursor = CursorOf(SummariesOf(e.thread, NoRow)),
                 ![e].gen = epoch[e.thread]]
  /\ UNCHANGED <<tables, posted, others>>

Candidates(list) == FirstOf(Len(list) - Recent_, list)
ListCandidates(e) ==
  LET list == FirstOf(Batch, Ordered(Listed(e.thread, NoRow, turns[e].cursor, NoRow)))
      batch == IF Len(list) > Recent_ THEN Candidates(list) ELSE <<>>
  IN  /\ TurnAt(e, "list")
      /\ turns' = [turns EXCEPT
                     ![e].pc = IF Len(batch) >= Trigger THEN "compress" ELSE "context",
                     ![e].batch = [i \in DOMAIN batch |->
                                     [key |-> Key(batch[i]), id |-> batch[i],
                                      gen |-> messages[batch[i]].gen]],
                     ![e].seen = {id \in DOMAIN messages :
                                    messages[id].thread = e.thread}]
      /\ UNCHANGED <<tables, posted, others>>

Compress(e) ==
  /\ TurnAt(e, "compress")
  /\ TurnTo(e, "summarise") \/ TurnTo(e, "latest") \/ TurnTo(e, "context")
  /\ UNCHANGED <<tables, posted, others>>

Summary(e) ==
  LET batch == turns[e].batch
  IN  [thread |-> e.thread, from |-> batch[1].key, to |-> batch[Len(batch)].key,
       covers |-> {[id |-> b.id, gen |-> b.gen] : b \in ToSet(batch)},
       seen |-> turns[e].seen, gen |-> turns[e].gen]
\* Two summaries of the same first and last message are one row.
UpsertSummary(e) ==
  LET new == Summary(e)
  IN  /\ TurnAt(e, "summarise")
      /\ \/ /\ summaries' = {s \in summaries : <<s.thread, s.from, s.to>>
                                               # <<new.thread, new.from, new.to>>}
                              \cup {new}
            /\ TurnTo(e, "context")
         \/ StoreFault /\ UNCHANGED summaries
              /\ (TurnTo(e, "latest") \/ TurnTo(e, "context"))
      /\ UNCHANGED <<events, messages, threads, posted, others>>
-----------------------------------------------------------------------------
\* The context of the next action.  A thread begins at its root message, or
\* when its row was made; it shows the channel up to there.
Roots(messageID) ==
  {id \in DOMAIN messages :
     /\ messages[id].thread \in {"", messageID}
     /\ \/ messages[id].event \in events /\ messages[id].event.source = messageID
        \/ messages[id].source = messageID}
ThreadRoot(e) ==
  IF e.thread \in DOMAIN threads /\ threads[e.thread].root # ""
  THEN threads[e.thread].root ELSE e.thread
Boundary(e) ==
  LET roots == Ordered(Roots(ThreadRoot(e)))
  IN  IF e.thread = "" THEN NoRow
      ELSE IF roots # <<>>
      THEN [key |-> Key(roots[1]), at |-> messages[roots[1]].at, root |-> {roots[1]}]
      ELSE IF e.thread \in DOMAIN threads
      THEN [key |-> <<Formatted(threads[e.thread].at), 3 * Cardinality(Event)>>,
            at |-> threads[e.thread].at, root |-> {}]
      ELSE NoRow

ReadBoundary(e) ==
  /\ TurnAt(e, "context")
  /\ turns' = [turns EXCEPT ![e].pc = "summaries", ![e].bound = Boundary(e)]
  /\ UNCHANGED <<tables, posted, others>>

\* The thread shows all of the channel (mutant of Bound).
BoundNone(e) == NoRow
Bound(e) == IF turns[e].bound = NoRow THEN NoRow ELSE turns[e].bound.key
LoadSummaries(e) ==
  /\ TurnAt(e, "summaries")
  /\ turns' = [turns EXCEPT ![e].pc = "history",
       ![e].told = IF e.thread = "" THEN LastOf(3, SummariesOf("", NoRow))
                   ELSE LastOf(3, SummariesOf(e.thread, NoRow))
                          \cup LastOf(1, SummariesOf("", Bound(e)))]
  /\ UNCHANGED <<tables, posted, others>>

\* The cursor of a place is the end of the latest summary that is shown of it;
\* the latest by the time itself, not by its text.
Time(key) == <<Formatted(key[1]), key[2]>>
LatestOf(S) ==
  IF S = {} THEN NoCursor
  ELSE (CHOOSE s \in S : \A t \in S : Behind(Time(t.to), Time(s.to))).to
\* Any summary that is shown will do (mutant of Cutoff).
CutoffAny(e, thread) == LatestOf(turns[e].told)
Cutoff(e, thread) == LatestOf({s \in turns[e].told : s.thread = thread})
InScope(e) ==
  IF e.thread = "" THEN Listed("", e, NoCursor, NoRow)
  ELSE Listed(e.thread, e, NoCursor, NoRow) \cup Listed("", e, NoCursor, Bound(e))
LoadHistory(e) ==
  LET here == Newest(History, Listed(e.thread, e, Cutoff(e, e.thread), NoRow))
      above == Newest(History, Listed("", e, Cutoff(e, ""), Bound(e)))
      root == IF turns[e].bound = NoRow THEN {}
              ELSE turns[e].bound.root \cap DOMAIN messages
  IN  /\ TurnAt(e, "history")
      /\ turns' = [turns EXCEPT ![e].pc = "answer",
                     ![e].shown = IF e.thread = "" THEN here ELSE here \cup above \cup root]
      /\ UNCHANGED <<tables, posted, others>>

\* PersistNextAction: the answer, where the event came from.
PersistNextAction(e) ==
  /\ TurnAt(e, "answer")
  /\ \/ /\ messages' = With(messages, Id(1, e, ""),
                            Row(e, e.thread, 2 * now + 1, FALSE, ""))
        /\ TurnTo(e, "report")
     \/ StoreFault /\ TurnTo(e, "answer") /\ UNCHANGED messages
  /\ UNCHANGED <<events, threads, summaries, posted, others>>

\* ReportResponse: the answer is posted, then a copy of it begins the thread
\* that may hang on it, then the row of that thread is written.  It runs once:
\* when a write fails the rest is left out (project.go:133-145).
Report(e) ==
  /\ TurnAt(e, "report")
  /\ posted' = posted \cup {e.posts}
  /\ TurnTo(e, IF e.thread = "" THEN "reported" ELSE "done")
  /\ UNCHANGED <<tables, others>>

PersistReported(e) ==
  /\ TurnAt(e, "reported")
  /\ \/ /\ messages' = With(messages, Id(2, e, e.posts),
                            Row(e, e.posts, 2 * now + 1, FALSE, e.posts))
        /\ TurnTo(e, "threads")
     \/ StoreFault /\ TurnTo(e, "done") /\ UNCHANGED messages
  /\ UNCHANGED <<events, threads, summaries, posted, others>>

PersistReportedThread(e) ==
  /\ TurnAt(e, "threads")
  /\ \/ UpsertThread(e.posts, e.posts, 2 * now + 1) /\ TurnTo(e, "done")
     \/ StoreFault /\ TurnTo(e, "done") /\ UNCHANGED threads
  /\ UNCHANGED <<events, messages, summaries, posted, others>>
-----------------------------------------------------------------------------
\* Reset: the memories are selected, then one transaction deletes them with
\* the messages and the summaries of the thread, or of the channel and of all
\* its threads.
Covered(e, p) == IF e.thread = "" THEN TRUE ELSE p = e.thread
PlaceOf(m) == m.key.thread
\* A channel keeps the memories of its threads (mutant of Resettable).
ResettableHere(e) ==
  {id \in DOMAIN memories :
     /\ memories[id].key.scope = IF e.thread = "" THEN "channel" ELSE "thread"
     /\ Covered(e, PlaceOf(memories[id]))}
Resettable(e) ==
  {id \in DOMAIN memories :
     /\ memories[id].key.scope \in IF e.thread = "" THEN {"channel", "thread"} ELSE {"thread"}
     /\ Covered(e, PlaceOf(memories[id]))}

SelectMemories(e) ==
  /\ TurnAt(e, "select")
  /\ turns' = [turns EXCEPT ![e].pc = "reset", ![e].ids = Resettable(e),
                            ![e].since = clock]
  /\ UNCHANGED <<tables, posted, others>>

ResetContext(e) ==
  /\ TurnAt(e, "reset")
  /\ \/ /\ messages' = Without(messages, {id \in DOMAIN messages :
                                            Covered(e, messages[id].thread)})
        /\ summaries' = {s \in summaries : ~Covered(e, s.thread)}
        /\ threads' = IF e.thread = "" THEN <<>> ELSE threads
        /\ DeleteMemories(turns[e].ids)
        /\ epoch' = [p \in Place |-> epoch[p] + IF Covered(e, p) THEN 1 ELSE 0]
        /\ forgotAt' = [p \in Place |-> IF Covered(e, p) THEN turns[e].since
                                        ELSE forgotAt[p]]
        /\ TurnTo(e, "done")
     \/ /\ StoreFault /\ TurnTo(e, "select")
        /\ UNCHANGED <<messages, summaries, threads, memories, fts, vectors,
                       epoch, forgotAt>>
  /\ UNCHANGED <<cast, now, events, posted, calls, clock, onboardingVars, migrationVars>>

Tick ==
  /\ now < MaxTime /\ cast.events # {}
  /\ now' = now + 1
  /\ UNCHANGED <<cast, tables, posted, turns, epoch, forgotAt, memoryVars,
                 onboardingVars, migrationVars>>

TurnStep(e) ==
  \/ BeginTurn(e)
  \/ AppendEvent(e) \/ PersistMessage(e) \/ PersistThread(e)
  \/ LatestSummary(e) \/ ListCandidates(e) \/ Compress(e) \/ UpsertSummary(e)
  \/ ReadBoundary(e) \/ LoadSummaries(e) \/ LoadHistory(e)
  \/ PersistNextAction(e)
  \/ Report(e) \/ PersistReported(e) \/ PersistReportedThread(e)
  \/ SelectMemories(e) \/ ResetContext(e)

Init ==
  /\ OnboardingInit /\ MemoryInit /\ ConversationInit
  /\ database \in cast.databases /\ MigrationInit
Next ==
  \/ \E e \in cast.events : TurnStep(e)
  \/ \E c \in cast.calls :
       /\ CallStep(c) /\ UNCHANGED <<conversationVars, migrationVars>>
       /\ CallAt(c, "idle") => Req(c)' \in cast.asks
  \/ \E t \in cast.tasks :
       /\ OnbAt(t, "agent") => Answered(t)
       /\ OnboardingStep(t)
       /\ UNCHANGED <<conversationVars, memoryVars, migrationVars>>
  \/ \E s \in cast.starters :
       StartStep(s) /\ UNCHANGED <<conversationVars, memoryVars, onboardingVars>>
  \/ Tick
Spec == Init /\ [][Next]_vars
-----------------------------------------------------------------------------
TypeOK ==
  /\ onboarding \in {"none", "prompted"} \cup Terminal
  /\ DOMAIN messages \subseteq [rank : 0..2, event : Event,
                                source : {e.source : e \in Event}
                                           \cup {e.posts : e \in Event} \cup {""}]
  /\ \A id \in DOMAIN messages : messages[id].thread \in Place
  /\ DOMAIN threads \subseteq Place
  /\ \A s \in summaries : s.thread \in Place /\ s.covers # {}
  /\ \A id \in DOMAIN memories : KeyIsWhole(memories[id].key)

\* What a task reads of its conversation lacks nothing: a message it is not
\* shown is told by a summary, or older than History messages that are shown, or
\* behind the end of a summary that had been read before the message came or
\* before its place was reset (conversation_context.go:98-168,
\* compress_conversation.go:42-100).
Of(s, id) == s.thread = messages[id].thread /\ Behind(Key(id), s.to)
Tells(s, id) == [id |-> id, gen |-> messages[id].gen] \in s.covers
Late(s, id) == id \notin s.seen \/ s.gen # messages[id].gen
Crowded(e, id) ==
  Cardinality({o \in turns'[e].shown : /\ messages[o].thread = messages[id].thread
                                       /\ Before(id, o)}) >= History
Reads(e) == TurnAt(e, "history") /\ turns'[e].pc = "answer"
NothingLost(e) ==
  \A id \in InScope(e) :
    \/ id \in turns'[e].shown
    \/ Crowded(e, id)
    \/ \E s \in summaries : Of(s, id) /\ Tells(s, id)
    \/ \E s \in summaries \cup turns[e].told : Of(s, id) /\ Late(s, id)

\* A thread is never shown what was written in the channel after the second in
\* which the thread began (conversation_context.go:131-134).
BeginsThere(e) ==
  e.thread # "" /\ turns[e].bound # NoRow =>
    \A id \in turns'[e].shown :
      messages[id].thread = "" => messages[id].at \div 2 <= turns[e].bound.at \div 2

\* After a reset of a place no message and no memory from before it is left,
\* and no summary tells of one, save the one a compression was already writing
\* (store.go:1658-1741, reset_conversation_context.go:30).
ResetForgets ==
  /\ \A id \in DOMAIN messages : messages[id].gen = epoch[messages[id].thread]
  /\ \A s \in summaries :
       s.gen = epoch[s.thread] => \A c \in s.covers : c.gen = s.gen
  /\ \A id \in DOMAIN memories :
       memories[id].key.scope \in {"channel", "thread"} /\ PlaceOf(memories[id]) \in Place
         => memories[id].at > forgotAt[PlaceOf(memories[id])]

\* What a task is shown of its conversation has all that it should have, and
\* nothing of the channel that its thread should not.
ContextIsWhole ==
  []TypeOK /\ [][\A e \in Event : Reads(e) => NothingLost(e) /\ BeginsThere(e)]_vars

=============================================================================
