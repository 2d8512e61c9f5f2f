------------------------------- MODULE MCEdge -------------------------------
EXTENDS Channel

MCThreadOf == [room |-> "", thread |-> "room", chat |-> "", topic |-> "chat"]
MCMaxChars == [discord |-> 3, command |-> 3, cli |-> 3, telegram |-> 6]
MCInitialFiles == <<<<"a", "b", "c">>, <<"a", "a">>, <<"b">>>>

(* Tool calls *)
Edit(p, old, new, all) == [op |-> "edit", path |-> p, old |-> old, new |-> new, all |-> all]
Write(p, body) == [op |-> "write", path |-> p, body |-> body]
RemoveOf(p) == [op |-> "remove", path |-> p]
Page_(p, offset, limit) == [path |-> p, offset |-> offset, limit |-> limit]
Read(actions) == [op |-> "read", actions |-> actions]
Glob(actions) == [op |-> "glob", actions |-> actions]
Grep(actions) == [op |-> "grep", actions |-> actions]
Search(line, root, offset, head) ==
  [line |-> line, root |-> root, offset |-> offset, head |-> head, mode |-> "content"]
Names(line, root) == [Search(line, root, 0, -1) EXCEPT !.mode = "files_with_matches"]

NoPlan == [c1 |-> <<>>, c2 |-> <<>>]
Plans(first, second) == [c1 |-> first, c2 |-> second]
Nobody == [plan |-> NoPlan, faults |-> {}, messages |-> <<>>, reports |-> <<>>]

Editing ==
  {[Nobody EXCEPT !.plan = Plans(<<Edit(1, "a", "x", FALSE), Edit(1, "c", "z", FALSE)>>, second),
                  !.faults = {"late", "disk"}] :
     second \in {<<Edit(1, "b", "y", FALSE), RemoveOf(1)>>, <<RemoveOf(1), Edit(1, "b", "y", FALSE)>>,
                 <<Write(1, <<"c", "b">>), Edit(1, "x", "a", FALSE)>>}}
  \cup {[Nobody EXCEPT !.plan = Plans(<<Edit(2, "a", "x", TRUE), Edit(2, "a", "y", FALSE)>>,
                                      <<Edit(2, "a", "z", FALSE), RemoveOf(2), Write(2, <<"a">>)>>)]}

Searching ==
  {[Nobody EXCEPT !.plan = Plans(<<search>>, <<change, RemoveOf(2), Write(2, <<"a">>)>>),
                  !.faults = {"late", "absent"}] :
     search \in {Glob(<<{1, 2, 3}>>), Glob(<<{2}, {1, 2}>>),
                 Grep(<<Search("a", {1, 2, 3}, 0, 0), Search("z", {2}, 0, 1)>>),
                 Grep(<<Names("a", {2})>>), Grep(<<Search("a", {2}, 1, 1)>>), Grep(<<Search("z", {1, 3}, 0, 0), Search("b", {1, 3}, 1, 1)>>),
                 Read(<<Page_(1, 0, 2), Page_(1, 2, 0)>>), Read(<<Page_(2, 0, 1), Page_(2, 1, 1)>>)},
     change \in {Write(3, <<"z", "a">>), Edit(1, "a", "z", FALSE)}}

(* Messages and reports *)
Message_(via, chan, body) ==
  [via |-> via, chan |-> chan, body |-> body, ref |-> "", tag |-> "", hidden |-> FALSE, files |-> <<>>]
File(p, declared, length, body) ==
  [path |-> p, declared |-> declared, known |-> declared, length |-> length, area |-> 1, body |-> body]
Document(p, declared, length, body) == <<File(p, declared, length, body)>>
Photo(p) == <<[File(p, 0, -1, <<"a">>) EXCEPT !.area = 2], File(p, 1, 1, <<"c">>), File(p, 3, 3, <<"c", "c", "c">>),
              [File(p, 3, 3, <<"b", "b", "b">>) EXCEPT !.known = 4]>>
Say(to, text, paths) == [to |-> to, text |-> text, files |-> paths]
Words == <<"word", ".", "space", "word", "word">>

Discord ==
  {[Nobody EXCEPT !.messages = [d1 |-> [Message_("discord", "thread", "hello") EXCEPT !.ref = "earlier"],
                                d2 |-> second],
                  !.reports = [r1 |-> Say("d1", Words, <<2, 3>>)],
                  !.faults = faults] :
     second \in {Message_("command", "thread", "/reset"),
                 [Message_("discord", "thread", "hello") EXCEPT !.tag = "thread", !.ref = "earlier"],
                 [Message_("discord", "room", "hello") EXCEPT !.hidden = TRUE,
                    !.files = <<File(3, 1, 1, <<"c">>)>>]},
     faults \in {{"lookup", "fetch"}, {"temporal", "crash"}, {"answer", "post", "respond"}, {"again", "respond"}}}
  \cup {[Nobody EXCEPT !.messages = [d1 |-> [Message_("discord", "room", "hello") EXCEPT !.tag = "thread"]],
                       !.reports = [r1 |-> Say("d1", Words, <<2>>)],
                       !.faults = {"lookup", "again", "post"}]}

Telegram ==
  {[Nobody EXCEPT !.messages = [t1 |-> [Message_("telegram", "topic", body) EXCEPT !.files = atts]],
                  !.reports = [r1 |-> Say("t1", Words \o Words, <<1, 3>>)],
                  !.plan = Plans(<<RemoveOf(3)>>, <<Write(1, <<"a", "a">>)>>),
                  !.faults = faults] :
     body \in {"", "hello"},
     atts \in {<<>>, <<Document(3, 0, -1, <<"c", "c", "c">>)>>, <<Photo(3)>>,
               <<Document(3, 3, 3, <<"c", "c", "c", "c">>), Document(2, 2, 4, <<"c", "c">>)>>,
               <<Document(3, 0, -1, <<"c", "c", "c", "c">>), Document(2, 9, 2, <<"c", "c">>)>>},
     faults \in {{"download", "temporal", "answer"}, {"crash", "post"}}}

Console ==
  {[Nobody EXCEPT !.messages = [i1 |-> Message_("cli", "room", "hello")],
                  !.reports = [r1 |-> Say("i1", Words, <<2>>)],
                  !.faults = {"temporal", "answer"}]}

Texts_ == UNION {[1 .. n -> CharKind] : n \in 1 .. 5}
LongTexts == [1 .. 7 -> {"word", "#", "line"}]
Chunking ==
  {[Nobody EXCEPT !.messages = [d1 |-> Message_("discord", "room", "hello")],
                  !.reports = [r1 |-> Say("d1", text, <<>>)]] : text \in Texts_}
  \cup {[Nobody EXCEPT !.messages = [t1 |-> Message_("telegram", "chat", "hello")],
                       !.reports = [r1 |-> Say("t1", text, <<>>)]] : text \in LongTexts}

MCCasts == Editing \cup Searching \cup Discord \cup Telegram \cup Console \cup Chunking
=============================================================================
