---------------------------- MODULE MCConversation ----------------------------
(***************************************************************************)
(* Instances of Conversation for TLC.                                      *)
(***************************************************************************)
EXTENDS Conversation

CONSTANTS t1, t2, t3, c1, c2, c3

MCTasks == {t1, t2, t3}
MCCalls == {c1, c2, c3}

\* The channel, two messages in it and three in the thread on the first answer;
\* a reset of either.
First  == [name |-> "first",  order |-> 0, thread |-> "", at |-> 2, body |-> "text",
           source |-> "m1", posts |-> "a1"]
Second == [name |-> "second", order |-> 2, thread |-> "", at |-> 6, body |-> "text",
           source |-> "m2", posts |-> "a2"]
Inside == [name |-> "inside", order |-> 1, thread |-> "a1", at |-> 4, body |-> "text",
           source |-> "m3", posts |-> "a3"]
Again  == [name |-> "again",  order |-> 3, thread |-> "a1", at |-> 6, body |-> "text",
           source |-> "m4", posts |-> "a4"]
ResetChannel == [name |-> "reset", order |-> 4, thread |-> "", at |-> 6, body |-> "reset",
                 source |-> "m5", posts |-> "a5"]
ResetThread == [name |-> "close", order |-> 5, thread |-> "a1", at |-> 6, body |-> "reset",
                source |-> "m6", posts |-> "a6"]
Third  == [name |-> "third",  order |-> 6, thread |-> "a1", at |-> 6, body |-> "text",
           source |-> "m7", posts |-> "a7"]
MCEvents == {First, Second, Inside, Again, Third, ResetChannel, ResetThread}

\* Two users in the channel and the thread; what may be said of them.
Ann == [user |-> "ann", channel |-> "ch", thread |-> ""]
AnnInside == [Ann EXCEPT !.thread = "a1"]
Bob == [Ann EXCEPT !.user = "bob"]

Tea == [text |-> "tea", terms |-> {"tea"}, point |-> 1, accepted |-> TRUE]
Milk == [text |-> "milk", terms |-> {"milk"}, point |-> 2, accepted |-> TRUE]
Secret == [text |-> "secret", terms |-> {}, point |-> 9, accepted |-> FALSE]

SeedRow(id, scope, src, content, tags, at) ==
  [id |-> id, key |-> KeyOf(scope, src), content |-> content, tags |-> tags,
   pinned |-> FALSE, at |-> at]
MCSeed ==
  {SeedRow("s1", "user", Ann, Tea, {"taste"}, 1),
   SeedRow("s2", "user", Bob, Milk, {"taste"}, 2),
   SeedRow("s3", "thread", AnnInside, Milk, {}, 3)}

Ask(op, src, scope) ==
  [op |-> op, src |-> src, scope |-> scope, content |-> NoRow, tags |-> {},
   pinned |-> FALSE, id |-> "", ids |-> {}, retag |-> FALSE,
   onboarding |-> FALSE, terms |-> {}, point |-> 0, fallback |-> FALSE]
MCRequests ==
  {[Ask("add", Ann, "user") EXCEPT !.content = Milk, !.pinned = TRUE],
   [Ask("add", AnnInside, "") EXCEPT !.content = Tea, !.onboarding = TRUE,
                                     !.tags = {"onboarding"}],
   [Ask("add", Ann, "") EXCEPT !.content = Secret],
   [Ask("add", Ann, "thread") EXCEPT !.content = Tea],
   [Ask("update", Ann, "") EXCEPT !.id = "s1", !.content = Milk],
   [Ask("update", AnnInside, "channel") EXCEPT !.id = "s1", !.retag = TRUE],
   [Ask("update", Ann, "user") EXCEPT !.id = "s3"],
   [Ask("update", Ann, "user") EXCEPT !.id = "s1"],
   [Ask("forget", Ann, "user") EXCEPT !.tags = {"taste"}],
   [Ask("forget", AnnInside, "all") EXCEPT !.ids = {"s1", "s2", "s3"}],
   [Ask("search", Ann, "") EXCEPT !.terms = {"tea"}, !.point = 2],
   [Ask("search", AnnInside, "all") EXCEPT !.point = 3, !.tags = {"taste"}],
   Ask("recent", Bob, "")}

AllFaults == {"store", "lost", "embedder"}

Tagged == {r \in MCRequests : r.onboarding}
Rewrites == {r \in MCRequests : r.op = "update" /\ r.id = "s1"}
Rivals == {r \in MCRequests : \/ r.content = Milk \/ r.id = "s3"
                              \/ r.op = "forget" /\ r.ids = {}}

\* The databases of all versions; before the fourth the column of the users
\* may be missing, and at the tenth the one of the Temporal runs.
DatabaseAt(k, without) ==
  LET schema == SchemaAt(k) \ without
      old == IF k = 0 THEN {} ELSE {"old"} IN
  [applied |-> 1 .. k, schema |-> schema, project |-> k > 0,
   memories |-> [m \in old |-> [c \in ScopeColumn |-> IF c \in schema THEN m ELSE ""]],
   embedded |-> IF k < 3 THEN {} ELSE old]
Current == DatabaseAt(12, {})
MCDatabases ==
  {DatabaseAt(k, {}) : k \in 0 .. 12} \cup {DatabaseAt(k, {"user"}) : k \in 1 .. 3}
    \cup {DatabaseAt(10, {"run id"})}

Cast(tasks, named, asked, acting, faulty) ==
  [tasks |-> tasks, calls |-> named, asks |-> asked, events |-> acting,
   starters |-> {}, databases |-> {Current}, faults |-> faulty]
Turns(acting, faulty) == Cast({}, {}, {}, acting, faulty)
MCCasts ==
  {Cast(MCTasks, {c1}, Tagged, {}, {}),
   Cast({}, {c1, c2}, MCRequests, {}, {}),
   Cast({}, MCCalls, Rivals, {}, {}),
   Cast({}, MCCalls, Rewrites, {}, {}),
   Turns({First, Second}, AllFaults),
   Turns({First, Second, Inside}, {}),
   Turns({First, Inside, Again}, {}),
   Turns({First, Again, Third}, {}),
   Turns({First, Second, ResetChannel}, {"lost"}),
   Turns({First, Inside, ResetChannel}, AllFaults),
   Turns({First, Inside, ResetThread}, AllFaults),
   Cast({}, {c1}, MCRequests, {ResetChannel}, AllFaults),
   Cast({}, {c1}, MCRequests, {First, ResetThread}, {}),
   [Cast({}, {}, {}, {}, {}) EXCEPT !.starters = Starter, !.databases = MCDatabases]}

=============================================================================
