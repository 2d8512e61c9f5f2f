------------------------------- MODULE Channel -------------------------------
(***************************************************************************)
(* The channels between people and the project workflow                    *)
(* (internal/channels/discord, telegram, local and outbound.go): messages  *)
(* come in, are placed in a conversation, their files are downloaded, and  *)
(* they are enqueued; reports go out in chunks, then their files.  Each    *)
(* message has a handler of its own (a goroutine of the Discord session or *)
(* of the webhook's server, or the caller of Inject).                      *)
(* Telegram sends an update again until the webhook answers 200; Discord   *)
(* delivers a message once.  The files are those of Workspace.             *)
(***************************************************************************)
EXTENDS Workspace, TextSplit

CONSTANTS MessageID,    \* the messages that the casts use
          ThreadOf,     \* [channel id -> parent id, or "" for no thread]
          MaxFileBytes, \* of a download and of a report's file
          MaxFiles, MaxTotalBytes,
          MaxChars      \* of a message, for each way that messages come

Ways == {"discord", "command", "telegram", "cli"}
ASSUME ChannelAssumption ==
  /\ MaxFileBytes \in Nat /\ MaxFiles \in Nat /\ MaxTotalBytes \in Nat
  /\ MaxChars \in [Ways -> Nat \ {0}]
  /\ DOMAIN ThreadOf \subseteq STRING \ {""} /\ ThreadOf \in [DOMAIN ThreadOf -> STRING]

\* A message of Discord may carry the thread it is in or has started (its tag).
\* A photo of Telegram comes in several sizes, any other file in one.
FileType == [path : Path, declared : Nat, known : Nat, length : Int, area : Nat,
             body : Seq(STRING)]
MessageType(via) ==
  [via : {via}, chan : DOMAIN ThreadOf, body : STRING, ref : STRING,
   tag : {""} \union {t \in DOMAIN ThreadOf : via = "discord" /\ ThreadOf[t] # ""},
   hidden : BOOLEAN,
   files : IF via = "telegram" THEN Seq(Seq(FileType) \ {<<>>}) ELSE Seq(FileType)]
ASSUME CastAssumption ==
  \A who \in Casts :
    /\ DOMAIN who.messages \subseteq MessageID
    /\ \A m \in DOMAIN who.messages :
         LET sent == who.messages[m] IN
         /\ sent.via \in Ways /\ sent \in MessageType(sent.via)
         /\ sent.tag # "" => sent.chan \in {sent.tag, ThreadOf[sent.tag]}
    /\ \A r \in DOMAIN who.reports :
         /\ who.reports[r].to \in DOMAIN who.messages
         /\ who.reports[r].text \in Seq(CharKind) /\ who.reports[r].files \in Seq(Path)

VARIABLES threads, \* Discord's cache: [channel id -> parent or ""], of those known
          inbox,   \* per message of the cast: the handler of it
          events,  \* what the project workflow was sent, in order
          ids,     \* random identifiers given out
          reports  \* per report of the cast: what became of it

channel == <<threads, inbox, events, ids, reports>>
vars == <<workspace, channel, cast, spent>>

Message == DOMAIN cast.messages
Report == DOMAIN cast.reports
Sent(m) == cast.messages[m]
\* The thread or the channel that a message belongs to
Home(m) == IF Sent(m).tag = "" THEN Sent(m).chan ELSE Sent(m).tag

NoHandler == [pc |-> "sent", id |-> <<"", 0>>, body |-> "", ref |-> "", chan |-> "", thread |-> "",
              shown |-> TRUE, unsure |-> FALSE, atts |-> <<>>, told |-> ""]

Init ==
  /\ cast \in Casts
  /\ InitWorkspace
  /\ spent = 0
  /\ threads = <<>>
  /\ inbox = [m \in Message |-> NoHandler]
  /\ events = <<>>
  /\ ids = 0
  /\ reports = [r \in Report |-> [pc |-> "waiting", left |-> <<>>, posts |-> <<>>]]

(***************************************************************************)
(* Inbound                                                                 *)
(***************************************************************************)
Handle(m, new) == inbox' = [inbox EXCEPT ![m] = new]
Handling(m, pc) == m \in Message /\ inbox[m].pc = pc

RandomID(m) == <<"id", ids + 1>>
\* stableTelegramEventID is a digest of the update, the chat and the message.
EventID(m) == IF Sent(m).via = "telegram" THEN <<m, 0>> ELSE RandomID(m)

Begun(m) == [NoHandler EXCEPT !.pc = "place", !.id = EventID(m), !.body = Sent(m).body, !.ref = Sent(m).ref]
Begins(m, via, handler) ==
  /\ Handling(m, "sent") /\ Sent(m).via = via
  /\ ids' = IF EventID(m) = RandomID(m) THEN ids + 1 ELSE ids
  /\ Handle(m, handler)
  /\ UNCHANGED <<workspace, cast, threads, events, reports>>

\* A message that arrives empty is fetched again; a fetch that fails leaves it
\* empty.
BeginDiscord(m) ==
  \/ Begins(m, "discord", Begun(m)) /\ NoFault
  \/ /\ Begins(m, "discord", [Begun(m) EXCEPT !.body = "", !.ref = "", !.shown = FALSE])
     /\ Sent(m).hidden /\ Fault("fetch")

\* A command of Discord is an interaction; the adapter supplies its text.
BeginCommand(m) == Begins(m, "command", Begun(m)) /\ NoFault

\* An update is a message or a channel post of someone who is not a bot.
BeginTelegram(m) == Begins(m, "telegram", Begun(m)) /\ NoFault

BeginInject(m) == Begins(m, "cli", Begun(m)) /\ NoFault

\* The handler knows its place: a thread and its parent, or a channel.
PlacedIn(m, thread, parent, unsure) ==
  Handle(m, [inbox[m] EXCEPT !.pc = "files", !.thread = thread, !.unsure = unsure,
               !.chan = IF thread # "" /\ parent # "" THEN parent ELSE Sent(m).chan])
PlacedLike(m, parent) == PlacedIn(m, IF parent = "" THEN "" ELSE Sent(m).chan, parent, FALSE)

\* discordThreadContext and discordChannelThreadContext: the message's own
\* thread, else the cache, else the gateway's state or a request, whose answer
\* is cached.  A failed request places the message in a channel of its own.
CacheOf(chan, parent) == [k \in DOMAIN threads \union {chan} |-> IF k = chan THEN parent ELSE threads[k]]
RememberedFailure(chan) == CacheOf(chan, "")
AfterFailedLookup(chan) == threads

PlaceDiscord(m) ==
  /\ Handling(m, "place") /\ Sent(m).via \in {"discord", "command"}
  /\ LET chan == Sent(m).chan IN
     \/ /\ Sent(m).tag # ""
        /\ PlacedIn(m, Sent(m).tag, ThreadOf[Sent(m).tag], FALSE)
        /\ NoFault /\ UNCHANGED threads
     \/ /\ Sent(m).tag = "" /\ chan \in DOMAIN threads
        /\ PlacedLike(m, threads[chan])
        /\ NoFault /\ UNCHANGED threads
     \/ /\ Sent(m).tag = "" /\ chan \notin DOMAIN threads
        /\ PlacedLike(m, ThreadOf[chan])
        /\ threads' = CacheOf(chan, ThreadOf[chan])
        /\ NoFault
     \/ /\ Sent(m).tag = "" /\ chan \notin DOMAIN threads /\ Fault("lookup")
        /\ PlacedIn(m, "", "", TRUE)
        /\ threads' = AfterFailedLookup(chan)
  /\ UNCHANGED <<workspace, cast, events, ids, reports>>

\* A Telegram message carries its chat and its thread; the injector has one
\* channel.
PlaceOther(m) ==
  /\ Handling(m, "place") /\ Sent(m).via \in {"telegram", "cli"}
  /\ PlacedLike(m, ThreadOf[Sent(m).chan])
  /\ NoFault
  /\ UNCHANGED <<workspace, cast, threads, events, ids, reports>>

\* downloadAttachment: the size that the message declares, the length that the
\* answer declares (-1 for none) and what is read are each held against the
\* limit; one byte more than the limit is read to notice a longer file.
\* The file appears under its name only when it is complete.
CopiedUpToLimit(body) == SubSeq(body, 1, Smaller(Len(body), MaxFileBytes))
Copied(body) == SubSeq(body, 1, Smaller(Len(body), MaxFileBytes + 1))

DiscordFits(att) ==
  /\ att.declared <= MaxFileBytes
  /\ att.length <= MaxFileBytes
  /\ Len(Copied(att.body)) <= MaxFileBytes

\* The size that getFile tells is held against the limit as well.
TelegramFits(att) == att.known <= MaxFileBytes /\ DiscordFits(att)
Fits(m, att) == IF Sent(m).via = "telegram" THEN TelegramFits(att) ELSE DiscordFits(att)

\* A photo comes in several sizes: the first of the largest is taken, by the
\* declared size, or by the area when none is declared.
Score(att) == IF att.declared > 0 THEN att.declared ELSE att.area
Largest(variants) ==
  variants[CHOOSE i \in DOMAIN variants :
             /\ \A j \in DOMAIN variants : Score(variants[j]) <= Score(variants[i])
             /\ \A j \in 1 .. i - 1 : Score(variants[j]) < Score(variants[i])]

\* telegramAttachmentCandidates: one file of each kind, in a fixed order
TelegramFiles(m) == [k \in DOMAIN Sent(m).files |-> Largest(Sent(m).files[k])]
FilesOf(m) ==
  IF ~inbox[m].shown THEN <<>>
  ELSE IF Sent(m).via = "telegram" THEN TelegramFiles(m) ELSE Sent(m).files

HasNextFile(m) == Handling(m, "files") /\ Len(inbox[m].atts) < Len(FilesOf(m))
NextFile(m) == FilesOf(m)[Len(inbox[m].atts) + 1]
Recorded(m, local) ==
  Handle(m, [inbox[m] EXCEPT !.atts = Append(@, local)])

\* os.Rename puts a new file in the place of the one that was there.
Renamed(p, body) == [there |-> TRUE, gen |-> files[p].gen + 1, time |-> clock + 1, body |-> body]

Download(m) ==
  /\ HasNextFile(m)
  /\ Fits(m, NextFile(m))
  /\ files' = [files EXCEPT ![NextFile(m).path] =
                 Renamed(NextFile(m).path, Copied(NextFile(m).body))]
  /\ clock' = clock + 1
  /\ kept' = {k \in kept : k[1] # NextFile(m).path}
  /\ Recorded(m, Copied(NextFile(m).body))
  /\ NoFault
  /\ UNCHANGED <<calls, cast, threads, events, ids, reports>>

\* The error is noted in the event, which is sent without the file.
DownloadFails(m) ==
  /\ HasNextFile(m)
  /\ \/ ~Fits(m, NextFile(m)) /\ NoFault
     \/ Fault("download")
  /\ Recorded(m, <<>>)
  /\ UNCHANGED <<workspace, cast, threads, events, ids, reports>>

Event(m) == [msg |-> m, id |-> inbox[m].id, chan |-> inbox[m].chan, thread |-> inbox[m].thread,
             unsure |-> inbox[m].unsure, ref |-> inbox[m].ref, atts |-> inbox[m].atts]
IsEmpty(m) == inbox[m].body = "" /\ inbox[m].atts = <<>>
Complete(m) == Handling(m, "files") /\ ~HasNextFile(m)

\* An empty message is ignored, and Telegram is told that it was handled.
Ignore(m) ==
  /\ Complete(m) /\ IsEmpty(m)
  /\ Handle(m, [inbox[m] EXCEPT !.pc = "done"])
  /\ NoFault
  /\ UNCHANGED <<workspace, cast, threads, events, ids, reports>>

\* How a handler ends.  The webhook answers 500 after a failure and the update
\* comes again; Discord's handler writes to the log, the injector tells its
\* caller.  A command is answered in either case, if the answer can be sent.
AlwaysAnswers200(m) == [inbox[m] EXCEPT !.pc = "failed"]
AfterFailure(m) == IF Sent(m).via = "telegram" THEN NoHandler ELSE [inbox[m] EXCEPT !.pc = "failed"]

AnsweredBoldly(m, ended, text) == [ended EXCEPT !.told = IF Sent(m).via = "command" THEN "started" ELSE ""]
CommandAnswered(m, ended, text) == [ended EXCEPT !.told = IF Sent(m).via = "command" THEN text ELSE ""]

Enqueue(m) ==
  /\ Complete(m) /\ ~IsEmpty(m)
  /\ events' = Append(events, Event(m))
  /\ LET done == [inbox[m] EXCEPT !.pc = "done"] IN
     \/ NoFault /\ Handle(m, CommandAnswered(m, done, "started"))
     \/ Fault("answer") /\ Handle(m, CommandAnswered(m, AfterFailure(m), "could not"))
     \/ Sent(m).via = "command" /\ Fault("respond") /\ Handle(m, done)
  /\ UNCHANGED <<workspace, cast, threads, ids, reports>>

EnqueueFails(m) ==
  /\ Complete(m) /\ ~IsEmpty(m) /\ Fault("temporal")
  /\ Handle(m, CommandAnswered(m, AfterFailure(m), "could not"))
  /\ UNCHANGED <<workspace, cast, threads, events, ids, reports>>

(***************************************************************************)
(* Outbound.  A report answers an event; the activity is tried once        *)
(* (project.go:136), so that whatever fails, it sends nothing again; but   *)
(* Discord's client makes a post again when the answer to it is a 502.     *)
(***************************************************************************)
Asked(r) == cast.reports[r]
Answered(r) == events[SelectInSeq(events, LAMBDA e : e.msg = Asked(r).to)]
Via(r) == Sent(Asked(r).to).via

\* Discord's threads are channels; a Telegram message names its chat and its
\* thread.
DiscordTargetIgnoringThread(e) == [chan |-> e.chan, thread |-> ""]
DiscordTarget(e) == [chan |-> IF e.thread # "" THEN e.thread ELSE e.chan, thread |-> ""]
TelegramTarget(e) == [chan |-> e.chan, thread |-> e.thread]
Target(r, e) == IF Via(r) = "telegram" THEN TelegramTarget(e) ELSE DiscordTarget(e)

SizeOf(p) == Len(BodyNow(p))
TotalSize(paths) == FoldLeft(LAMBDA n, p : n + SizeOf(p), 0, paths)
ResolvesFile(p) == files[p].there /\ SizeOf(p) <= MaxFileBytes
\* ResolveReport; the injector's reporter has no use for files.
Resolves(r) ==
  \/ Via(r) = "cli" \/ Asked(r).files = <<>>
  \/ /\ Len(Asked(r).files) <= MaxFiles
     /\ \A i \in DOMAIN Asked(r).files : ResolvesFile(Asked(r).files[i])
     /\ TotalSize(Asked(r).files) <= MaxTotalBytes

Reporting(r, pc) == r \in Report /\ reports[r].pc = pc
Becomes(r, new) == reports' = [reports EXCEPT ![r] = new]

BeginReport(r) ==
  /\ Reporting(r, "waiting")
  /\ \E i \in DOMAIN events : events[i].msg = Asked(r).to
  /\ Becomes(r, IF Resolves(r) THEN [reports[r] EXCEPT !.pc = "text", !.left = Trim(Asked(r).text)]
                ELSE [reports[r] EXCEPT !.pc = "failed"])
  /\ NoFault
  /\ UNCHANGED <<workspace, cast, threads, inbox, events, ids>>

Posted(r, text, paths, once) ==
  Append(reports[r].posts, [to |-> Target(r, Answered(r)), ref |-> Answered(r).ref,
                            text |-> text, files |-> paths, once |-> once])

FromTheStart(r) == [reports[r] EXCEPT !.pc = "waiting"]
GivesUp(r) == [reports[r] EXCEPT !.pc = "failed"]

\* A post is made, or fails, or is made and its answer lost.  The session of
\* Discord sends a request again, three times at most, when the answer is a 502,
\* and the post may have been made each time; a typing notice is not (line 1033).
Post(r, text, paths, after) ==
  \/ NoFault /\ Becomes(r, [after EXCEPT !.posts = Posted(r, text, paths, TRUE)])
  \/ Fault("post") /\ Becomes(r, GivesUp(r))
  \/ Fault("answer") /\ Becomes(r, [GivesUp(r) EXCEPT !.posts = Posted(r, text, paths, TRUE)])
  \/ /\ Via(r) \in {"discord", "command"} /\ Fault("again")
     /\ \E end \in {after, GivesUp(r)} :
          Becomes(r, [end EXCEPT !.posts = Posted(r, text, paths, FALSE)])

PostChunk(r) ==
  /\ Reporting(r, "text") /\ reports[r].left # <<>>
  /\ Post(r, ChunkOf(reports[r].left, MaxChars[Via(r)]), <<>>,
          [reports[r] EXCEPT !.left = RestOf(@, MaxChars[Via(r)])])
  /\ UNCHANGED <<workspace, cast, threads, inbox, events, ids>>

TextDone(r) ==
  /\ Reporting(r, "text") /\ reports[r].left = <<>>
  /\ Becomes(r, [reports[r] EXCEPT !.pc =
       IF Via(r) = "cli" \/ Asked(r).files = <<>> THEN "done" ELSE "files"])
  /\ NoFault
  /\ UNCHANGED <<workspace, cast, threads, inbox, events, ids>>

PostedFiles(r) == FlattenSeq([i \in DOMAIN reports[r].posts |-> reports[r].posts[i].files])
FilesPosted(r) == Len(PostedFiles(r))

\* Discord takes all files in one message and opens each before it; Telegram
\* takes one file in a message.  A file is read when it is posted.
Opens(paths) == \A i \in DOMAIN paths : files[paths[i]].there

PostDiscordFiles(r) ==
  /\ Reporting(r, "files") /\ Via(r) \in {"discord", "command"} /\ Opens(Asked(r).files)
  /\ Post(r, <<>>, Asked(r).files, [reports[r] EXCEPT !.pc = "done"])
  /\ UNCHANGED <<workspace, cast, threads, inbox, events, ids>>

NextPosted(r) == <<Asked(r).files[FilesPosted(r) + 1]>>
PostTelegramFile(r) ==
  /\ Reporting(r, "files") /\ Via(r) = "telegram" /\ Opens(NextPosted(r))
  /\ Post(r, <<>>, NextPosted(r),
          [reports[r] EXCEPT !.pc = IF FilesPosted(r) + 1 = Len(Asked(r).files) THEN "done" ELSE @])
  /\ UNCHANGED <<workspace, cast, threads, inbox, events, ids>>

FileIsGone(r) ==
  /\ Reporting(r, "files")
  /\ ~Opens(IF Via(r) = "telegram" THEN NextPosted(r) ELSE Asked(r).files)
  /\ Becomes(r, GivesUp(r))
  /\ NoFault
  /\ UNCHANGED <<workspace, cast, threads, inbox, events, ids>>

\* The process ends: handlers, tool calls, the cache and reports under way are
\* lost.  Telegram sends its unanswered updates again.
Interrupted == {c \in Caller : calls[c].pc # "ready"}

Restart ==
  /\ Fault("crash")
  /\ threads' = <<>>
  /\ inbox' = [m \in Message |-> IF inbox[m].pc \in {"place", "files"} THEN AfterFailure(m) ELSE inbox[m]]
  /\ reports' = [r \in Report |-> IF reports[r].pc \in {"text", "files"} THEN GivesUp(r) ELSE reports[r]]
  /\ calls' = [c \in Caller |->
       IF c \in Interrupted
         THEN [Idle EXCEPT !.n = calls[c].n + 1,
                 !.done = Append(calls[c].done, [call |-> Call(c), ok |-> FALSE, parts |-> <<>>])]
         ELSE calls[c]]
  /\ kept' = {k \in kept : \A c \in Interrupted : ~(calls[c].pc = "open" /\ Touches(c, k[1]))}
  /\ UNCHANGED <<files, clock, cast, events, ids>>

Stopped ==
  /\ \A c \in Caller : ~Busy(c)
  /\ \A m \in Message : inbox[m].pc \in {"done", "failed"}
  /\ \A r \in Report : reports[r].pc \in {"waiting", "done", "failed"}
  /\ UNCHANGED vars

Inbound(m) ==
  \/ BeginDiscord(m) \/ BeginCommand(m) \/ BeginTelegram(m) \/ BeginInject(m)
  \/ PlaceDiscord(m) \/ PlaceOther(m) \/ Download(m) \/ DownloadFails(m)
  \/ Ignore(m) \/ Enqueue(m) \/ EnqueueFails(m)
Outbound(r) ==
  BeginReport(r) \/ PostChunk(r) \/ TextDone(r) \/ PostDiscordFiles(r) \/ PostTelegramFile(r) \/ FileIsGone(r)
Tools(c) == ToolStep(c) /\ UNCHANGED <<cast, channel>>

Next ==
  \/ \E m \in Message : Inbound(m)
  \/ \E r \in Report : Outbound(r)
  \/ \E c \in Caller : Tools(c)
  \/ Restart
  \/ Stopped

\* A handler that runs goes on, and an update that was not answered is sent
\* again; with at most MaxFaults failures, one of its handlers succeeds.
Fairness == \A m \in MessageID : WF_vars(m \in Message /\ Inbound(m))
Spec == Init /\ [][Next]_vars /\ Fairness

(***************************************************************************)
(* Properties                                                              *)
(***************************************************************************)
TypeOK ==
  /\ Message \subseteq MessageID /\ spent \in 0 .. MaxFaults
  /\ \A p \in Path : files[p].there \/ files[p].body = <<>>
  /\ \A c \in Caller : calls[c].n <= Len(cast.plan[c]) /\ Len(calls[c].done) = calls[c].n
  /\ DOMAIN threads \subseteq DOMAIN ThreadOf
  /\ \A m \in Message : inbox[m].pc \in {"sent", "place", "files", "done", "failed"}
  /\ \A i \in DOMAIN events : events[i].msg \in Message
  /\ ids \in Nat
  /\ \A r \in Report : reports[r].pc \in {"waiting", "text", "files", "done", "failed"}

\* An event names the thread and the channel that its message belongs to,
\* unless the request for exactly this message failed: a failed request is not
\* remembered for the messages that follow (cacheDiscordThreadContext).
TruePlace(chan) ==
  IF ThreadOf[chan] = "" THEN [chan |-> chan, thread |-> ""]
  ELSE [chan |-> ThreadOf[chan], thread |-> chan]

ContextIsTrue ==
  \A i \in DOMAIN events :
    events[i].unsure \/
      [chan |-> events[i].chan, thread |-> events[i].thread] = TruePlace(Home(events[i].msg))

\* An answer is posted where the message belongs, in its thread, even when
\* the request for the thread failed, and refers to the message that this one
\* referred to, unless that was never seen (discordOutboundChannelID,
\* reportReplyFromEvent).
AnswersGoBack ==
  \A r \in Report : \A i \in DOMAIN reports[r].posts :
    LET post == reports[r].posts[i]  message == Asked(r).to IN
    /\ post.to = IF Via(r) = "telegram" THEN TruePlace(Home(message))
                 ELSE [chan |-> Home(message), thread |-> ""]
    /\ post.ref = Sent(message).ref \/ Sent(message).hidden

\* Someone who is told that a command has started something has it in the
\* project workflow (handleInteractionCreate).
ToldIsTrue ==
  \A m \in Message : inbox[m].told = "started" => \E i \in DOMAIN events : events[i].msg = m

\* A file that an event says was downloaded was downloaded whole, whatever the
\* sizes that the sender and the server declared (downloadAttachment).
BodiesOf(m, k) ==
  IF Sent(m).via # "telegram" THEN {Sent(m).files[k].body}
  ELSE {Sent(m).files[k][i].body : i \in DOMAIN Sent(m).files[k]}
LocalFilesAreWhole ==
  \A i \in DOMAIN events : \A k \in DOMAIN events[i].atts :
    events[i].atts[k] \in BodiesOf(events[i].msg, k) \union {<<>>}

\* Two events of one message carry one identifier, by which the project
\* workflow drops the second, and one place; events of different messages
\* never share an identifier (stableTelegramEventID).
RedeliveriesAreDuplicates ==
  \A i, j \in DOMAIN events :
    /\ (events[i].msg = events[j].msg) <=> (events[i].id = events[j].id)
    /\ events[i].msg = events[j].msg =>
         events[i].chan = events[j].chan /\ events[i].thread = events[j].thread

\* What a report has posted is a beginning of its text, in order, each
\* character that is not blank once, and no file before all of the text; what
\* is finished is the whole text and each file once, whatever failed and was
\* given up (SplitText, the adapters' Report, one attempt in project.go:136).
\* Once is but for the posts that Discord's client made more than once in a row
\* because their answers were lost; no other channel's does.
Ink(text) ==
  LET ink[n \in 0 .. Len(text)] ==
        IF n = 0 THEN <<>>
        ELSE IF text[n] \in Blank THEN ink[n - 1] ELSE Append(ink[n - 1], text[n])
  IN ink[Len(text)]
TextsBefore(r, i) == FlattenSeq([j \in 1 .. i - 1 |-> reports[r].posts[j].text])
Texts(r) == TextsBefore(r, Len(reports[r].posts) + 1)

ReportedInOrder ==
  \A r \in Report :
    /\ IsPrefix(Ink(Texts(r)), Ink(Asked(r).text))
    /\ IsPrefix(PostedFiles(r), Asked(r).files)
    /\ reports[r].pc = "text" => Ink(Texts(r)) \o Ink(reports[r].left) = Ink(Asked(r).text)
    /\ (PostedFiles(r) # <<>> \/ reports[r].pc = "done") => Ink(Texts(r)) = Ink(Asked(r).text)
    /\ (reports[r].pc = "done" /\ Via(r) # "cli") => PostedFiles(r) = Asked(r).files
    /\ \A i \in DOMAIN reports[r].posts :
         reports[r].posts[i].once \/ Via(r) \in {"discord", "command"}

\* A chunk is neither empty nor longer than the channel takes
\* (longestPrefixByRunes).
ChunksFit ==
  \A r \in Report : \A i \in DOMAIN reports[r].posts :
    LET post == reports[r].posts[i] IN
    IF post.files = <<>> THEN Len(post.text) \in 1 .. MaxChars[Via(r)] ELSE post.text = <<>>

\* A chunk that others follow ends with a heading only where the limit of the
\* channel left no other place to cut, or where another heading comes next
\* (markdownHeadingSafeSplit moves a cut before one heading, not before two).
StartsAt(r, i, at) ==
  /\ Asked(r).text[at + 1] \notin Blank
  /\ Ink(Prefix(Asked(r).text, at)) = Ink(TextsBefore(r, i))
FirstLine(t) == Trim(Prefix(t, Min({n \in DOMAIN t : n = Len(t) \/ t[n + 1] = "line"})))

HeadingsLead ==
  \A r \in Report : \A i \in DOMAIN reports[r].posts :
    LET text == reports[r].posts[i].text IN
    text # <<>> /\ isMarkdownHeading(LastLine(text)) =>
      \A at \in 0 .. Len(Asked(r).text) - 1 :
        LET left == Rest(Asked(r).text, at)
            others == Trim(Rest(left, Len(text)))
        IN StartsAt(r, i, at) /\ others # <<>> =>
             \/ Trim(Prefix(left, MaxChars[Via(r)])) = text
             \/ isMarkdownHeading(FirstLine(others))

\* A Telegram message that says something reaches the project workflow, through
\* failed downloads, failed signals, lost answers and a restart.
TelegramArrives ==
  \A m \in MessageID :
    (/\ m \in Message
     /\ Sent(m).via = "telegram"
     /\ Sent(m).body # "" \/ Sent(m).files # <<>>) ~> (\E i \in DOMAIN events : events[i].msg = m)

\* What the project workflow is sent of a message is true: its place, its
\* files, and whether it is new.
EventsAreTrue == TypeOK /\ ContextIsTrue /\ LocalFilesAreWhole
                 /\ RedeliveriesAreDuplicates

\* Whoever wrote is answered there, and with what happened.
AnswersAreTrue == AnswersGoBack /\ ToldIsTrue

\* A report arrives as one text: in order, in chunks that fit, whose headings
\* stand before what they head.
ReportsReadWell == ReportedInOrder /\ ChunksFit /\ HeadingsLead

=============================================================================
