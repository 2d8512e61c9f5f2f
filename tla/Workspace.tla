------------------------------ MODULE Workspace ------------------------------
(***************************************************************************)
(* The file tools of the agents (internal/tools/edit, write, read, glob    *)
(* and grep), called at the same time by the agents of several tasks on    *)
(* one directory.  A file is a sequence of lines; os.WriteFile is two      *)
(* steps, truncation and writing, because other callers see the file in    *)
(* between.  Time is a counter of changes; the first files share one time. *)
(***************************************************************************)
EXTENDS Integers, Sequences, SequencesExt, FiniteSetsExt

CONSTANTS Path,         \* numbers, in the order of the names
          Caller,
          Casts,        \* who does what in a behaviour, and what may fail
          InitialFiles, \* [Path -> sequences of lines], <<>> for no file
          DefaultLimit, \* lines of a read that asks for no number
          DefaultHead,  \* lines of the output of a search that sets no number
          MaxFaults     \* bound: failures in one behaviour

ASSUME WorkspaceAssumption ==
  /\ Path \subseteq Nat /\ IsFiniteSet(Path)
  /\ InitialFiles \in [Path -> Seq(STRING)]
  /\ DefaultLimit \in Nat \ {0} /\ DefaultHead \in Nat /\ MaxFaults \in Nat

\* What a tool can be asked; a limit of 0 and a head of -1 were left out.
Tool == {"edit", "write", "remove", "read", "glob", "grep"}
OutputMode == {"content", "files_with_matches", "count"}
Batch(Actions) == Seq(Actions) \ {<<>>}
CallOf(tool) ==
  CASE tool = "edit" -> [op : {tool}, path : Path, old : STRING, new : STRING, all : BOOLEAN]
    [] tool = "write" -> [op : {tool}, path : Path, body : Seq(STRING)]
    [] tool = "remove" -> [op : {tool}, path : Path]
    [] tool = "read" -> [op : {tool}, actions : Batch([path : Path, offset : Nat, limit : Nat])]
    [] tool = "glob" -> [op : {tool}, actions : Batch(SUBSET Path)]
    [] tool = "grep" ->
         [op : {tool}, actions : Batch([line : STRING, root : SUBSET Path, offset : Nat,
                                        head : Nat \union {-1}, mode : OutputMode])]
ASSUME PlanAssumption ==
  \A who \in Casts, c \in Caller :
    /\ Len(who.plan[c]) \in Nat
    /\ \A i \in 1 .. Len(who.plan[c]) :
         who.plan[c][i].op \in Tool /\ who.plan[c][i] \in CallOf(who.plan[c][i].op)

VARIABLES cast,   \* the member of Casts that this behaviour plays
          files, clock,
          calls,  \* what each caller is doing, and the results it was given
          kept,   \* history: <<path, line>> that a finished edit put there
          spent   \* failures so far

workspace == <<files, clock, calls, kept>>

Idle == [n |-> 0, pc |-> "ready", step |-> 1, next |-> <<>>, inode |-> 0, alone |-> TRUE,
         listed |-> <<>>, todo |-> {}, found |-> <<>>, bad |-> FALSE, parts |-> <<>>, done |-> <<>>]

InitWorkspace ==
  /\ files = [p \in Path |-> [there |-> InitialFiles[p] # <<>>, gen |-> 0, time |-> 0,
                              body |-> InitialFiles[p]]]
  /\ clock = 0
  /\ calls = [c \in Caller |-> Idle]
  /\ kept = {}

Fault(f) == f \in cast.faults /\ spent < MaxFaults /\ spent' = spent + 1
NoFault == UNCHANGED spent

\* A caller makes the calls of its plan one after the other; a call that has
\* several actions performs them in order.
Busy(c) == calls[c].n < Len(cast.plan[c])
Call(c) == cast.plan[c][calls[c].n + 1]
At(c, op, pc) == Busy(c) /\ Call(c).op = op /\ calls[c].pc = pc
Action(c) == Call(c).actions[calls[c].step]
Step(c, new) == calls' = [calls EXCEPT ![c] = new]

ReturnUnrecorded(c, ok, parts) ==
  Step(c, [Idle EXCEPT !.n = calls[c].n + 1, !.done = calls[c].done])
Return(c, ok, parts) ==
  Step(c, [Idle EXCEPT !.n = calls[c].n + 1,
                       !.done = Append(calls[c].done, [call |-> Call(c), ok |-> ok, parts |-> parts])])

\* runBatch: the answer of one action, then the next action or the result.
Advance(c, part) ==
  LET parts == Append(calls[c].parts, part) IN
  IF calls[c].step = Len(Call(c).actions) THEN Return(c, TRUE, parts)
  ELSE Step(c, [Idle EXCEPT !.n = calls[c].n, !.done = calls[c].done,
                            !.step = calls[c].step + 1, !.parts = parts])
Abort(c) == Return(c, FALSE, calls[c].parts)

(***************************************************************************)
(* Edit and write                                                          *)
(***************************************************************************)
Touches(c, p) == calls[c].pc \in {"chosen", "open"} /\ Call(c).path = p

\* The new content is chosen; from here to the end of the call, another edit
\* or write of the file overlaps it.
Choose(c, p, body) ==
  calls' = [o \in Caller |->
    IF o = c THEN [calls[c] EXCEPT !.pc = "chosen", !.next = body,
                                   !.alone = \A x \in Caller \ {c} : ~Touches(x, p)]
    ELSE IF Touches(o, p) THEN [calls[o] EXCEPT !.alone = FALSE]
    ELSE calls[o]]

BodyNow(p) == files[p].body
CachedContent(p) == InitialFiles[p]
Content(p) == BodyNow(p)
Occurrences(body, line) == {i \in DOMAIN body : body[i] = line}
Replaced(body, old, new) == [i \in DOMAIN body |-> IF body[i] = old THEN new ELSE body[i]]

\* edit.Run before the write: the file is there, and the old text occurs once,
\* or at all when every occurrence is to be replaced.
Accepts(call) ==
  LET n == Cardinality(Occurrences(Content(call.path), call.old)) IN
  /\ call.old # call.new
  /\ files[call.path].there
  /\ n = 1 \/ (n > 1 /\ call.all)

EditReads(c) ==
  /\ At(c, "edit", "ready") /\ Accepts(Call(c))
  /\ Choose(c, Call(c).path, Replaced(Content(Call(c).path), Call(c).old, Call(c).new))
  /\ NoFault /\ UNCHANGED <<files, clock, kept>>

EditRefuses(c) ==
  /\ At(c, "edit", "ready") /\ ~Accepts(Call(c))
  /\ Abort(c)
  /\ NoFault /\ UNCHANGED <<files, clock, kept>>

WriteChecks(c) ==
  /\ At(c, "write", "ready")
  /\ Choose(c, Call(c).path, Call(c).body)
  /\ NoFault /\ UNCHANGED <<files, clock, kept>>

\* The context has ended before the file is touched.
TooLateToWrite(c) ==
  /\ Busy(c) /\ calls[c].pc = "chosen" /\ Fault("late")
  /\ Abort(c)
  /\ UNCHANGED <<files, clock, kept>>

Opened(p) == [there |-> TRUE, gen |-> files[p].gen + (IF files[p].there THEN 0 ELSE 1),
              time |-> clock + 1, body |-> <<>>]

\* os.WriteFile opens the file, creating it when it is not there (any more).
OpenFile(c) ==
  /\ Busy(c) /\ calls[c].pc = "chosen"
  /\ files' = [files EXCEPT ![Call(c).path] = Opened(Call(c).path)]
  /\ clock' = clock + 1
  /\ Step(c, [calls[c] EXCEPT !.pc = "open", !.inode = files'[Call(c).path].gen])
  /\ kept' = {k \in kept : k[1] # Call(c).path \/ Call(c).op = "edit"}
  /\ NoFault

\* Two writers of one file overwrite each other from its beginning.
Over(new, old) == new \o SubSeq(old, Len(new) + 1, Len(old))
StillOpen(c) == LET f == files[Call(c).path] IN f.there /\ f.gen = calls[c].inode

KeptAfter(c) ==
  IF Call(c).op # "edit" THEN kept
  ELSE (kept \ {<<Call(c).path, Call(c).old>>}) \union
       {k \in {<<Call(c).path, Call(c).new>>} : calls[c].alone /\ StillOpen(c)}

FillFile(c) ==
  /\ Busy(c) /\ calls[c].pc = "open"
  /\ files' = IF ~StillOpen(c) THEN files
              ELSE [files EXCEPT ![Call(c).path].body = Over(calls[c].next, @),
                                 ![Call(c).path].time = clock + 1]
  /\ clock' = clock + 1
  /\ kept' = KeptAfter(c)
  /\ Return(c, TRUE, <<>>)
  /\ NoFault

\* A full disk, or the end of the process: the file stays truncated.
FillFails(c) ==
  /\ Busy(c) /\ calls[c].pc = "open" /\ Fault("disk")
  /\ kept' = {k \in kept : k[1] # Call(c).path}
  /\ Abort(c)
  /\ UNCHANGED <<files, clock>>

\* A command of the exec tool removes a file.
RemoveFile(c) ==
  /\ At(c, "remove", "ready")
  /\ files' = [files EXCEPT ![Call(c).path].there = FALSE, ![Call(c).path].body = <<>>]
  /\ clock' = clock + 1
  /\ kept' = {k \in kept : k[1] # Call(c).path}
  /\ Return(c, TRUE, <<>>)
  /\ NoFault

(***************************************************************************)
(* Read                                                                    *)
(***************************************************************************)
LimitOf(a) == IF a.limit = 0 THEN DefaultLimit ELSE a.limit
Smaller(a, b) == IF a < b THEN a ELSE b
WindowShort(body, offset, limit) == SubSeq(body, offset + 1, Smaller(Len(body), offset + limit - 1))
Window(body, offset, limit) == SubSeq(body, offset + 1, Smaller(Len(body), offset + limit))

ReadPage(c) ==
  /\ At(c, "read", "ready")
  /\ files[Action(c).path].there
  /\ LET a == Action(c)  body == BodyNow(a.path) IN
     Advance(c, [seen |-> body, lines |-> Window(body, a.offset, LimitOf(a)),
                 truncated |-> a.offset + LimitOf(a) < Len(body)])
  /\ NoFault /\ UNCHANGED <<files, clock, kept>>

ReadFails(c) ==
  /\ At(c, "read", "ready")
  /\ ~files[Action(c).path].there
  /\ Abort(c)
  /\ NoFault /\ UNCHANGED <<files, clock, kept>>

(***************************************************************************)
(* Glob: the directory is listed, and each matching name examined after it *)
(***************************************************************************)
Present == {p \in Path : files[p].there}
\* What the property compares with at the end: the files as they were listed
Listing == [p \in Present |-> [gen |-> files[p].gen, time |-> files[p].time]]

GlobLists(c) ==
  /\ At(c, "glob", "ready")
  /\ Step(c, [calls[c] EXCEPT !.pc = "walk", !.listed = Listing,
                              !.todo = Present \intersect Action(c)])
  /\ NoFault /\ UNCHANGED <<files, clock, kept>>

GlobVisits(c) ==
  /\ At(c, "glob", "walk") /\ calls[c].todo # {}
  /\ LET p == Min(calls[c].todo) IN
     /\ files[p].there
     /\ Step(c, [calls[c] EXCEPT !.todo = @ \ {p}, !.found = Append(@, <<files[p].time, p>>)])
  /\ NoFault /\ UNCHANGED <<files, clock, kept>>

\* A name that vanished after the listing ends the search with an error.
GlobLosesFile(c) ==
  /\ At(c, "glob", "walk") /\ calls[c].todo # {} /\ ~files[Min(calls[c].todo)].there
  /\ Abort(c)
  /\ NoFault /\ UNCHANGED <<files, clock, kept>>

GlobLate(c) ==
  /\ At(c, "glob", "walk") /\ Fault("late")
  /\ Abort(c)
  /\ UNCHANGED <<files, clock, kept>>

\* Newest first, by name when the times are equal
Before(a, b) == a[1] > b[1] \/ (a[1] = b[1] /\ a[2] < b[2])
NewestFirst(found) ==
  LET entries == ToSet(found) IN
  [i \in DOMAIN found |->
     CHOOSE e \in entries : Cardinality({o \in entries : Before(o, e)}) = i - 1]

GlobAnswers(c) ==
  Advance(c, [matches |-> NewestFirst(calls[c].found),
              always |-> {p \in Action(c) \intersect DOMAIN calls[c].listed :
                            /\ files[p].there
                            /\ files[p].gen = calls[c].listed[p].gen}])

\* As if the walk stopped at a vanished name without an error
GlobEndsEarly(c) ==
  /\ At(c, "glob", "walk")
  /\ \A p \in calls[c].todo : p > Min(calls[c].todo) \/ ~files[p].there
  /\ GlobAnswers(c)
  /\ NoFault /\ UNCHANGED <<files, clock, kept>>

GlobEnds(c) ==
  /\ At(c, "glob", "walk") /\ calls[c].todo = {}
  /\ GlobAnswers(c)
  /\ NoFault /\ UNCHANGED <<files, clock, kept>>

(***************************************************************************)
(* Grep: rg reads the files in any order                                   *)
(***************************************************************************)
\* The code of an execution: what rg exits with, -1 for a process that a
\* signal ended, 124 when the deadline had passed before, and 1, which also
\* says that nothing matched, for every other failure to run it.
ExitCodeOfAnyEnd(how) ==
  [matched |-> 0, nothing |-> 1, error |-> 2, killed |-> 1, late |-> 124, absent |-> 1][how]
ExitCode(how) ==
  [matched |-> 0, nothing |-> 1, error |-> 2, killed |-> -1, late |-> 124, absent |-> 1][how]

\* limitOutput; 0 is no limit, and -1 stands for a head_limit left out.
HeadOf(a) == IF a.head = -1 THEN DefaultHead ELSE a.head
Page(lines, a) ==
  SubSeq(lines, a.offset + 1, IF HeadOf(a) = 0 THEN Len(lines) ELSE Smaller(Len(lines), a.offset + HeadOf(a)))

\* What rg writes about a file: each line that matches, or one line with the
\* name or the count.
Output(p, a) ==
  LET n == Cardinality(Occurrences(BodyNow(p), a.line)) IN
  [i \in 1 .. (IF a.mode = "content" \/ n = 0 THEN n ELSE 1) |-> p]

\* Files that held the line from the start of the search to now, unchanged
Held(c) == {p \in Action(c).root \intersect DOMAIN calls[c].listed :
              /\ files[p].there
              /\ files[p].time = calls[c].listed[p].time
              /\ Occurrences(BodyNow(p), Action(c).line) # {}}

\* An error unless rg succeeded, or the code says that nothing matched
GrepAnswers(c, how) ==
  LET part == [code |-> ExitCode(how), lines |-> Page(calls[c].found, Action(c)),
               ran |-> how # "absent", held |-> Held(c)] IN
  IF ExitCode(how) \in {0, 1} THEN Advance(c, part)
  ELSE Return(c, FALSE, Append(calls[c].parts, part))

GrepStarts(c) ==
  /\ At(c, "grep", "ready")
  /\ Step(c, [calls[c] EXCEPT !.pc = "walk", !.listed = Listing,
                !.todo = Present \intersect Action(c).root,
                !.bad = Cardinality(Action(c).root) = 1 /\ Present \intersect Action(c).root = {}])
  /\ NoFault /\ UNCHANGED <<files, clock, kept>>

GrepDoesNotStart(c) ==
  /\ At(c, "grep", "ready")
  /\ \/ Fault("late") /\ GrepAnswers(c, "late")
     \/ Fault("absent") /\ GrepAnswers(c, "absent")
  /\ UNCHANGED <<files, clock, kept>>

GrepScans(c) ==
  /\ At(c, "grep", "walk")
  /\ \E p \in calls[c].todo :
       Step(c, [calls[c] EXCEPT !.todo = @ \ {p}, !.bad = @ \/ ~files[p].there,
                  !.found = @ \o Output(p, Action(c))])
  /\ NoFault /\ UNCHANGED <<files, clock, kept>>

GrepEnds(c) ==
  /\ At(c, "grep", "walk") /\ calls[c].todo = {}
  /\ GrepAnswers(c, IF calls[c].bad THEN "error"
                    ELSE IF calls[c].found = <<>> THEN "nothing" ELSE "matched")
  /\ NoFault /\ UNCHANGED <<files, clock, kept>>

GrepKilled(c) ==
  /\ At(c, "grep", "walk") /\ Fault("late")
  /\ GrepAnswers(c, "killed")
  /\ UNCHANGED <<files, clock, kept>>

\* grepObservation says "No matches found."
SaysNothing(result) ==
  /\ result.ok
  /\ \A i \in DOMAIN result.parts : result.parts[i].lines = <<>>
  /\ Last(result.parts).code = 1

ToolStep(c) ==
  \/ EditReads(c) \/ EditRefuses(c) \/ WriteChecks(c) \/ TooLateToWrite(c)
  \/ OpenFile(c) \/ FillFile(c) \/ FillFails(c) \/ RemoveFile(c)
  \/ ReadPage(c) \/ ReadFails(c)
  \/ GlobLists(c) \/ GlobVisits(c) \/ GlobLosesFile(c) \/ GlobLate(c) \/ GlobEnds(c)
  \/ GrepStarts(c) \/ GrepDoesNotStart(c) \/ GrepScans(c) \/ GrepEnds(c) \/ GrepKilled(c)

(***************************************************************************)
(* Properties                                                              *)
(***************************************************************************)
ResultsOf(op) ==
  UNION {{calls[c].done[i] : i \in {j \in DOMAIN calls[c].done : calls[c].done[j].call.op = op}} :
           c \in Caller}

\* What an edit that overlapped no other change of its file has written stays
\* in the file, through every later edit of other lines, until a write, a
\* removal, a failed write or an edit of that line takes it away
\* (edit.Run reads the file again on each call).
EditsSurvive ==
  \A k \in kept :
    (\A c \in Caller : ~(calls[c].pc = "open" /\ Touches(c, k[1]))) =>
      /\ files[k[1]].there
      /\ Occurrences(BodyNow(k[1]), k[2]) # {}

\* A batch of reads whose windows follow one another and end a file shows the
\* file whole, each line once, if no one changed it (read.formatContent).
PagesCover ==
  \A r \in ResultsOf("read") :
    LET a == r.call.actions IN
    (/\ r.ok
     /\ a[1].offset = 0 /\ ~Last(r.parts).truncated
     /\ \A i \in 1 .. Len(a) - 1 : /\ a[i + 1].path = a[i].path
                                   /\ a[i + 1].offset = a[i].offset + LimitOf(a[i])
                                   /\ r.parts[i + 1].seen = r.parts[i].seen) =>
      FlattenSeq([i \in DOMAIN a |-> r.parts[i].lines]) = r.parts[1].seen

\* A search for names that succeeds lists every matching file that was there
\* from its start to its end, each once and the newest first
\* (glob.runSingle: an entry that cannot be examined is an error).
GlobIsComplete ==
  \A r \in ResultsOf("glob") : \A i \in DOMAIN r.parts :
    LET found == r.parts[i].matches IN
    /\ r.parts[i].always \subseteq {found[j][2] : j \in DOMAIN found}
    /\ \A j, k \in DOMAIN found : j < k => Before(found[j], found[k])

\* A batch of searches says that nothing matched only if no file held the line
\* of its last search, or of one without an offset, during all of that search;
\* one that a deadline cut short never says so (grep.exitCode).  What matched in
\* an earlier search and lay before its offset is hidden: limitOutput (grep.go:474)
\* cuts it, only the last exit code counts (grep.go:173), and the agent reads "No
\* matches found." (tool_observations.go:138).  A search for which rg could not be
\* run says the same of everything, which is the hazard at grep.go:520.
GrepTellsTheTruth ==
  \A r \in ResultsOf("grep") : SaysNothing(r) =>
    \A i \in DOMAIN r.parts :
      r.parts[i].ran /\ (i = Len(r.parts) \/ r.call.actions[i].offset = 0) =>
        r.parts[i].held = {}

\* What an agent edits is kept, and what it is shown was in the files: reads
\* page by page, searches for names and searches for text.
FilesAreTrue == EditsSurvive /\ PagesCover /\ GlobIsComplete /\ GrepTellsTheTruth

=============================================================================
