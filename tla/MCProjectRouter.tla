--------------------------- MODULE MCProjectRouter ---------------------------
(***************************************************************************)
(* Instances of ProjectRouter for TLC, and the refinement of EventLedger.  *)
(***************************************************************************)
EXTENDS ProjectRouterLedger

CONSTANTS m1, m2, m3, m4, m5, tick, chat, thread1, sched

MCMessages == {m1, m2, m3, m4, m5, tick}
MCPlaces == {chat, thread1}
MCSchedules == {sched}

Make(id, kind, schedule, message, replyTo, channel, thread, hosted) ==
  [id |-> id, kind |-> kind, schedule |-> schedule, message |-> message,
   replyTo |-> replyTo, channel |-> channel, thread |-> thread,
   hosted |-> hosted]

\* A message in a channel, an answer to it that opens a thread, a message in
\* that thread, and an attachment in it.
Opener     == Make(1, "message", None, m1, None, chat, None, TRUE)
Answer1    == Make(2, "message", None, m2, m1, chat, thread1, TRUE)
InThread   == Make(3, "message", None, m3, None, chat, thread1, TRUE)
Attachment == Make(4, "media", None, m4, m1, chat, None, TRUE)
\* A reset in the thread, and a cancel from the command line.
Reset      == Make(5, "command", None, m5, None, chat, thread1, TRUE)
CliCancel  == Make(6, "cancel", None, None, None, None, None, FALSE)
\* Two ticks of one schedule.
Tick1      == Make(7, "scheduled", sched, tick, None, chat, None, TRUE)
Tick2      == Make(8, "scheduled", sched, tick, None, chat, None, TRUE)

ChatEvents     == {Opener, Answer1, InThread, Reset}
ControlEvents  == {Opener, Attachment, CliCancel, Tick1, Tick2}
PairOfTasks    == {Opener, Reset}

IdsOf(events) == {e.id : e \in events}
ChatIds == IdsOf(ChatEvents)
ControlIds == IdsOf(ControlEvents)
PairIds == IdsOf(PairOfTasks)

=============================================================================
