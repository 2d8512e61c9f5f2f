----------------------------- MODULE Transcript -----------------------------
(***************************************************************************)
(* What the model is shown of the tools that ran (internal/agent/llm/      *)
(* next_action.go), and which of its answers become tool choices           *)
(* (tool_selection.go).                                                    *)
(*                                                                         *)
(* A feedback is [turn, id, batch, status]: its execution cycle, the id of *)
(* the tool call, the ids of all calls of that answer, how it ended.       *)
(***************************************************************************)
EXTENDS Integers, Sequences, SequencesExt

\* Two feedbacks of one answer that named several tools
SameAnswer(f, g) ==
  /\ Len(f.batch) > 1
  /\ f.turn = g.turn
  /\ f.batch = g.batch

\* Where the groups of a history begin, and the group that begins at i
IsHead(history, i) == i > 1 => ~SameAnswer(history[i - 1], history[i])

Group(history, i) ==
  LET end == CHOOSE e \in i .. Len(history) :
               /\ \A j \in i + 1 .. e : ~IsHead(history, j)
               /\ e < Len(history) => IsHead(history, e + 1)
  IN SubSeq(history, i, end)

\* nextActionTranscriptMessages: the assistant message repeats the calls of
\* the feedbacks there are; one message for each result follows it.
AllCalls(group) == Range(group[1].batch)
CallsOf(group) == {group[i].id : i \in DOMAIN group}
ResultsOf(group) == [i \in DOMAIN group |-> group[i].id]

\* validateToolTranscriptMessages: a result answers a call that has none yet,
\* and all calls are answered before the next message that is no result.
IsAccepted(history) ==
  \A i \in DOMAIN history : IsHead(history, i) =>
    LET group == Group(history, i)
    IN IsInjective(ResultsOf(group)) /\ Range(ResultsOf(group)) = CallsOf(group)

\* toolChoicesFromToolCalls: an answer is taken whole or not at all.
Offered(call, allowed) == call.tool \in allowed /\ call.decodes
AnswerIsTaken(calls, allowed) ==
  calls # <<>> /\ \A i \in DOMAIN calls : Offered(calls[i], allowed)
FirstCallIsTaken(calls, allowed) == calls # <<>> /\ Offered(calls[1], allowed)
=============================================================================
