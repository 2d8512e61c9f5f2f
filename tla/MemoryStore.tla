------------------------------ MODULE MemoryStore ------------------------------
(***************************************************************************)
(* The memories of the agent: the tables memories, memory_fts and          *)
(* memory_embeddings (internal/storage/sqlite/store.go) and the memory     *)
(* tools that use them (internal/runtime/activities/memory_tool.go).       *)
(* A transaction is one step.  Between its steps a call talks to the       *)
(* embedding service, and other calls run: a memory may change or go       *)
(* between the transaction that wrote it and the write of its embedding,   *)
(* and between the statement that selects what to forget and the           *)
(* transaction that deletes it.                                            *)
(*                                                                         *)
(* One project, one channel type.  A content is a record: its normalised   *)
(* text, its words, the place of its embedding, and whether the policy of  *)
(* memory_policy.go accepts it.  The order in which the full-text index    *)
(* ranks is any order.                                                     *)
(***************************************************************************)
EXTENDS Onboarding, Integers, Sequences, SequencesExt, FiniteSetsExt

CONSTANTS
  Call,      \* calls of memory tools; an added memory has the id of its call
  Request,   \* what a call may ask
  Seed,      \* the memories there are at first
  Limit,     \* how many memories a search or a list returns
  MinFetch,  \* the least number of nearest embeddings fetched (10)
  NoRow

ASSUME LimitAssumption == Limit \in Nat \ {0} /\ MinFetch \in Nat
ASSUME RequestAssumption ==
  \A r \in Request : r.op \in {"add", "update", "forget", "search", "recent"}
ASSUME ContentAssumption ==
  \A r \in Request :
    /\ r.point \in Int /\ r.pinned \in BOOLEAN
    /\ r.op = "add" => r.content # NoRow
    /\ r.content # NoRow => r.content.point \in Int
ASSUME NoRowAssumption == NoRow \notin Call \cup {s.id : s \in Seed}

VARIABLES
  memories,  \* the rows of memories, by id
  fts,       \* the rows of memory_fts, by id
  vectors,   \* the text each embedding was made of, by memory id
  calls,     \* each call: its step, its request and what it holds
  clock      \* the time of the last write

memoryVars == <<memories, fts, vectors, calls, clock>>

Scope == {"thread", "channel", "project", "user", "global"}

\* What a scope keeps of the event a memory comes from.
KeyOf(scope, src) ==
  [scope |-> scope,
   user |-> IF scope = "user" THEN src.user ELSE "",
   channel |-> IF scope \in {"channel", "thread"} THEN src.channel ELSE "",
   thread |-> IF scope = "thread" THEN src.thread ELSE ""]
KeyIsWhole(key) ==
  /\ key.scope = "user" => key.user # ""
  /\ key.scope \in {"channel", "thread"} => key.channel # ""
  /\ key.scope = "thread" => key.thread # ""

\* The scopes an event reads by itself, and those a request names.
AutoScopes(src) ==
  {"project", "user", "global"}
    \cup (IF src.channel # "" \/ src.thread # "" THEN {"channel"} ELSE {})
    \cup (IF src.thread # "" THEN {"thread"} ELSE {})
ScopesOf(scope, src) ==
  IF scope \in {"", "all"} THEN AutoScopes(src) ELSE {scope}
AddScope(scope, src) ==
  IF scope # "" THEN scope
  ELSE IF src.thread # "" THEN "thread"
  ELSE IF src.channel # "" THEN "channel" ELSE "project"

Visible(m, src, scopes) ==
  /\ m.key.scope \in scopes
  /\ KeyIsWhole(m.key)
  /\ m.key = KeyOf(m.key.scope, src)

\* Another memory of the same key has the same text.
Duplicate(id, key, content) ==
  \E other \in DOMAIN memories \ {id} :
    /\ memories[other].key = key
    /\ memories[other].content.text = content.text
\* Only new memories are compared; or a scope may lack its context (mutants).
RefusedNew(id, key, content) ==
  \/ ~content.accepted \/ ~KeyIsWhole(key)
  \/ id \notin DOMAIN memories /\ Duplicate(id, key, content)
RefusedByPolicy(id, key, content) ==
  ~content.accepted \/ Duplicate(id, key, content)
Refused(id, key, content) ==
  ~content.accepted \/ ~KeyIsWhole(key) \/ Duplicate(id, key, content)

\* The memories there are at first were written by earlier calls.
ASSUME SeedAssumption ==
  /\ IsFiniteSet(Seed)
  /\ \A s \in Seed :
       /\ s.at \in Nat \ {0} /\ KeyIsWhole(s.key) /\ s.key = KeyOf(s.key.scope, s.key)
       /\ s.content.point \in Int /\ s.pinned \in BOOLEAN
  /\ \A s, t \in Seed :
       \/ s.id = t.id \/ s.at = t.at
       \/ s.key = t.key /\ s.content.text = t.content.text
       => s = t

Text(m) == [content |-> m.content, tags |-> m.tags]
Without(table, ids) == [id \in DOMAIN table \ ids |-> table[id]]
With(table, id, row) ==
  [x \in DOMAIN table \cup {id} |-> IF x = id THEN row ELSE table[x]]
Joined(f, g) ==
  [x \in DOMAIN f \cup DOMAIN g |-> IF x \in DOMAIN f THEN f[x] ELSE g[x]]
-----------------------------------------------------------------------------
\* What a search finds
Match(q, m, src) ==
  Visible(m, src, ScopesOf(q.scope, src)) /\ q.tags \subseteq m.tags

AtMost(n, S) == IF Cardinality(S) < n THEN Cardinality(S) ELSE n
Rankings(S) == {r \in SetToAllKPermutations(S) : Len(r) = AtMost(Limit, S)}
Lexical(q, src) ==
  Rankings({id \in DOMAIN fts \cap DOMAIN memories :
              /\ fts[id].content.terms \cap q.terms # {}
              /\ Match(q, memories[id], src)})

Distance(id, q) ==
  LET d == vectors[id].content.point - q.point IN IF d < 0 THEN -d ELSE d
\* No more embeddings are fetched than are returned (mutant of Fetch).
FetchLimit == Limit
Fetch == IF 3 * Limit < MinFetch THEN MinFetch ELSE 3 * Limit
Newer(a, b) ==
  \/ memories[a].pinned /\ ~memories[b].pinned
  \/ memories[a].pinned = memories[b].pinned /\ memories[a].at > memories[b].at
Nearer(q, a, b) ==
  \/ Distance(a, q) < Distance(b, q)
  \/ Distance(a, q) = Distance(b, q) /\ Newer(a, b)
FirstOf(n, s) == SubSeq(s, 1, IF Len(s) < n THEN Len(s) ELSE n)
ByDistance(q, ids) ==
  [i \in 1 .. Cardinality(ids) |->
     CHOOSE id \in ids : Cardinality({other \in ids : Nearer(q, other, id)}) = i - 1]
\* The nearest embeddings are fetched first, whosever they are, and those the
\* caller may not see are dropped after.
Nearest(q, src) ==
  LET near == FirstOf(Fetch, ByDistance(q, DOMAIN vectors))
  IN  FirstOf(Limit, ByDistance(q, {id \in ToSet(near) : Match(q, memories[id], src)}))

Recent(q, src) ==
  FirstOf(Limit, SetToSortSeq({id \in DOMAIN memories : Match(q, memories[id], src)},
                              Newer))

\* Reciprocal ranks of both lists are added up, in units of 10^-9; a pinned
\* memory gets 0.001 more.
RankScore(id, list) ==
  FoldSet(LAMBDA i, sum : sum + (IF list[i] = id THEN 1000000000 \div (60 + i) ELSE 0),
          0, DOMAIN list)
Fused(a, b, rows) ==
  LET score(id) == RankScore(id, a) + RankScore(id, b)
                     + (IF rows[id].pinned THEN 1000000 ELSE 0)
      ahead(x, y) ==
        \/ score(x) > score(y)
        \/ score(x) = score(y) /\ rows[x].pinned /\ ~rows[y].pinned
        \/ /\ score(x) = score(y)
           /\ rows[x].pinned = rows[y].pinned
           /\ rows[x].at > rows[y].at
  IN  FirstOf(Limit, SetToSortSeq(ToSet(a) \cup ToSet(b), ahead))
-----------------------------------------------------------------------------
Seeded(s) == [key |-> s.key, content |-> s.content, tags |-> s.tags,
              pinned |-> s.pinned, at |-> s.at]

MemoryInit ==
  /\ memories = [id \in {s.id : s \in Seed} |->
                   Seeded(CHOOSE s \in Seed : s.id = id)]
  /\ fts = [id \in DOMAIN memories |-> Text(memories[id])]
  /\ vectors = fts
  /\ calls = [c \in Call |-> [pc |-> "idle", by |-> NoRow, req |-> NoRow, id |-> NoRow,
                              text |-> NoRow, ids |-> {}, beside |-> {}, rows |-> <<>>,
                              found |-> <<>>, near |-> NoRow, at |-> 0]]
  /\ clock = Max({0} \cup {s.at : s \in Seed})

CallAt(c, pc) == calls[c].pc = pc
CallTo(c, pc) == calls' = [calls EXCEPT ![c].pc = pc]
Req(c) == calls[c].req
Over == {"idle", "done", "found", "rejected", "error", "embedded", "unembedded"}
\* A task waits for its calls before it ends.
Answered(t) == \A c \in Call : calls[c].by = t => calls[c].pc \in Over
Busy == {c \in Call : calls[c].pc \notin Over}
OnboardingTagged(req, tags) == req.onboarding /\ "onboarding" \in tags

\* A tool call of a task; only the model of a task that has the onboarding
\* active marks its choice with it.
BeginCall(c, req) ==
  /\ CallAt(c, "idle")
  /\ \E t \in IF req.onboarding THEN Task ELSE {NoRow} :
       /\ req.onboarding => OnbAt(t, "agent") /\ onb[t].source # "none"
       /\ calls' = [calls EXCEPT ![c].pc = req.op, ![c].by = t, ![c].req = req]
  /\ UNCHANGED <<memories, fts, vectors, clock, onboardingVars>>

StoreFails(c) ==
  /\ "store" \in Faults
  /\ CallTo(c, "error")
  /\ UNCHANGED <<memories, fts, vectors, clock>>

\* One transaction writes the row and its full-text row, or refuses.
Write(c, id, row, after) ==
  \/ /\ ~Refused(id, row.key, row.content)
     /\ memories' = With(memories, id, [row EXCEPT !.at = clock + 1])
     /\ fts' = With(fts, id, Text(row))
     /\ clock' = clock + 1
     /\ calls' = [calls EXCEPT ![c].pc = after, ![c].id = id,
                               ![c].text = Text(row), ![c].at = clock + 1,
                               ![c].beside = Busy \ {c}]
     /\ UNCHANGED vectors
  \/ /\ Refused(id, row.key, row.content)
     /\ CallTo(c, "rejected")
     /\ UNCHANGED <<memories, fts, vectors, clock>>
  \/ StoreFails(c)

After(req, tags, affects) ==
  IF OnboardingTagged(req, tags) THEN "complete" ELSE IF affects THEN "embed" ELSE "done"

RememberMemory(c) ==
  LET r == Req(c)
  IN  /\ CallAt(c, "add")
      /\ Write(c, c, [key |-> KeyOf(AddScope(r.scope, r.src), r.src),
                      content |-> r.content, tags |-> r.tags,
                      pinned |-> r.pinned, at |-> 0],
               After(r, r.tags, TRUE))
      /\ UNCHANGED onboardingVars

\* What the request leaves out is kept; a scope takes the context of the event.
Updated(m, r) ==
  [m EXCEPT !.content = IF r.content = NoRow THEN @ ELSE r.content,
            !.key = IF r.scope = "" THEN @ ELSE KeyOf(r.scope, r.src),
            !.tags = IF r.retag THEN r.tags ELSE @]
\* The tags are not thought of as part of the text (mutant of AffectsEmbedding).
ContentOnly(r) == r.content # NoRow
AffectsEmbedding(r) == r.content # NoRow \/ r.retag
UpdateMemory(c) ==
  LET r == Req(c)
      found == r.id \in DOMAIN memories /\ Visible(memories[r.id], r.src, Scope)
  IN  /\ CallAt(c, "update")
      /\ IF found
         THEN Write(c, r.id, Updated(memories[r.id], r),
                    After(r, Updated(memories[r.id], r).tags, AffectsEmbedding(r)))
         ELSE CallTo(c, "done") /\ UNCHANGED <<memories, fts, vectors, clock>>
      /\ UNCHANGED onboardingVars

CompleteOnboarding(c) ==
  /\ CallAt(c, "complete")
  /\ \/ /\ MarkCompleted
        /\ CallTo(c, IF Req(c).op = "add" \/ AffectsEmbedding(Req(c))
                     THEN "embed" ELSE "done")
        /\ UNCHANGED <<memories, fts, vectors, clock, onb, disturbed>>
     \/ StoreFails(c) /\ UNCHANGED onboardingVars

\* The service answers for the text the call wrote, or fails: the memory is
\* kept without a new embedding.
Embed(c) ==
  /\ CallAt(c, "embed")
  /\ \/ CallTo(c, "vector")
     \/ "embedder" \in Faults /\ CallTo(c, "unembedded")
  /\ UNCHANGED <<memories, fts, vectors, clock, onboardingVars>>

\* The embedding of a memory that is gone is refused by its foreign key.
UpsertMemoryEmbedding(c) ==
  LET id == calls[c].id
  IN  /\ CallAt(c, "vector")
      /\ \/ /\ id \in DOMAIN memories
            /\ vectors' = With(vectors, id, calls[c].text)
            /\ clock' = clock + 1
            /\ CallTo(c, "embedded")
         \/ /\ id \notin DOMAIN memories \/ "store" \in Faults
            /\ CallTo(c, "unembedded")
            /\ UNCHANGED <<vectors, clock>>
      /\ UNCHANGED <<memories, fts, onboardingVars>>
-----------------------------------------------------------------------------
\* Forgetting: a statement selects, a transaction deletes what it selected.
SelectedAnyTag(r) ==  \* the tags are not looked at (mutant of Selected)
  {id \in DOMAIN memories :
     /\ Visible(memories[id], r.src, ScopesOf(r.scope, r.src))
     /\ r.ids # {} => id \in r.ids}
Selected(r) ==
  {id \in DOMAIN memories :
     /\ Visible(memories[id], r.src, ScopesOf(r.scope, r.src))
     /\ r.ids # {} => id \in r.ids
     /\ r.tags \subseteq memories[id].tags}

SelectForgotten(c) ==
  LET ids == Selected(Req(c))
  IN  /\ CallAt(c, "forget")
      /\ calls' = [calls EXCEPT ![c].pc = IF ids = {} THEN "done" ELSE "delete",
                                ![c].ids = ids, ![c].at = clock]
      /\ UNCHANGED <<memories, fts, vectors, clock, onboardingVars>>

\* The embeddings stay (mutant of DeleteMemories).
DeleteRowsOnly(ids) ==
  /\ memories' = Without(memories, ids)
  /\ fts' = Without(fts, ids)
  /\ UNCHANGED vectors
DeleteMemories(ids) ==
  /\ vectors' = Without(vectors, ids)
  /\ memories' = Without(memories, ids)
  /\ fts' = Without(fts, ids)

ForgetMemories(c) ==
  /\ CallAt(c, "delete")
  /\ \/ DeleteMemories(calls[c].ids) /\ CallTo(c, "done") /\ UNCHANGED clock
     \/ StoreFails(c)
  /\ UNCHANGED onboardingVars

\* Searching: the query is embedded, then up to three statements are run.
EmbedQuery(c) ==
  /\ CallAt(c, "search")
  /\ \E near \in {TRUE} \cup (IF "embedder" \in Faults THEN {FALSE} ELSE {}) :
       calls' = [calls EXCEPT ![c].pc = "lexical",
                              ![c].near = IF near THEN <<>> ELSE NoRow]
  /\ UNCHANGED <<memories, fts, vectors, clock, onboardingVars>>

Rows(list) == [id \in ToSet(list) |-> memories[id]]
SearchFTS(c) ==
  /\ CallAt(c, "lexical")
  /\ \E found \in IF Req(c).terms = {} THEN {<<>>} ELSE Lexical(Req(c), Req(c).src) :
       calls' = [calls EXCEPT ![c].pc = "nearest", ![c].found = found,
                              ![c].rows = Rows(found)]
  /\ UNCHANGED <<memories, fts, vectors, clock, onboardingVars>>

\* Both lists are fused; when both are empty the newest memories are taken,
\* if nothing was asked for or the caller falls back on them.  When the
\* nearest cannot be read all is done again without them.
SearchVectors(c) ==
  LET r == Req(c)
      near == IF calls[c].near = NoRow THEN <<>> ELSE Nearest(r, r.src)
      none == calls[c].found = <<>> /\ near = <<>>
  IN  /\ CallAt(c, "nearest")
      /\ \/ calls' = [calls EXCEPT
              ![c].pc = IF none /\ (r.terms = {} \/ r.fallback) THEN "recent" ELSE "found",
              ![c].near = IF calls[c].near = NoRow THEN NoRow ELSE near,
              ![c].found = Fused(calls[c].found, near, Joined(calls[c].rows, Rows(near)))]
         \/ /\ "store" \in Faults /\ calls[c].near # NoRow
            /\ calls' = [calls EXCEPT ![c].pc = "lexical", ![c].near = NoRow]
      /\ UNCHANGED <<memories, fts, vectors, clock, onboardingVars>>

RecentMemories(c) ==
  /\ CallAt(c, "recent")
  /\ calls' = [calls EXCEPT ![c].pc = "done", ![c].found = Recent(Req(c), Req(c).src)]
  /\ UNCHANGED <<memories, fts, vectors, clock, onboardingVars>>

CallStep(c) ==
  \/ \E req \in Request : BeginCall(c, req)
  \/ RememberMemory(c)
  \/ UpdateMemory(c)
  \/ CompleteOnboarding(c)
  \/ Embed(c)
  \/ UpsertMemoryEmbedding(c)
  \/ SelectForgotten(c)
  \/ ForgetMemories(c)
  \/ EmbedQuery(c)
  \/ SearchFTS(c)
  \/ SearchVectors(c)
  \/ RecentMemories(c)
-----------------------------------------------------------------------------
\* No scope holds the same text twice, though a memory may be moved from one
\* scope to another while a second call adds it there (store.go:1909-1923,
\* 2311-2317).
NoDuplicates ==
  \A a, b \in DOMAIN memories :
    /\ memories[a].key = memories[b].key
    /\ memories[a].content.text = memories[b].content.text
    => a = b

\* The full-text index holds each memory as it is, and no embedding outlives
\* its memory (store.go:1924-1958, 2335-2346, 2630-2648).
IndexesAgree ==
  /\ DOMAIN fts = DOMAIN memories
  /\ \A id \in DOMAIN fts : fts[id] = Text(memories[id])
  /\ DOMAIN vectors \subseteq DOMAIN memories

\* No other call that wrote this memory was under way when this one did.
Alone(c) == \A d \in calls[c].beside : calls[d].id # calls[c].id

\* The embedding of a memory is of its present text once the last call that
\* wrote it is over, and no other write of it was under way meanwhile: calls
\* that overlap may store theirs in the other order.  A call that leaves the
\* text as it is leaves the embedding too, so then it must be true of every
\* call that wrote the memory, and none may have failed (memory_tool.go:62-67,
\* 227-232; memory_helpers.go:133-175).
VectorIsCurrent ==
  \A id \in DOMAIN memories, c \in Call :
    /\ calls[c].id = id /\ memories[id].at = calls[c].at
    /\ \/ calls[c].pc = "embedded" /\ Alone(c)
       \/ /\ calls[c].pc = "done"
          /\ \A d \in Call : calls[d].id = id =>
               Alone(d) /\ calls[d].pc \notin {"unembedded", "error"}
    => id \in DOMAIN vectors /\ vectors[id] = Text(memories[id])

\* What a call forgets had every tag it named, was one of the ids it named and
\* was visible to it, unless the memory was written after the call had selected
\* it (store.go:2580-2648).
ForgetIsScoped ==
  [][\A c \in Call, id \in DOMAIN memories :
       /\ CallAt(c, "delete") /\ calls'[c].pc = "done" /\ id \notin DOMAIN memories'
       /\ memories[id].at <= calls[c].at
       => /\ Req(c).tags \subseteq memories[id].tags
          /\ Req(c).ids # {} => id \in Req(c).ids
          /\ memories[id].key = KeyOf(memories[id].key.scope, Req(c).src)]_memoryVars

\* A memory the caller may see that the nearest list leaves out is farther from
\* the query than a full fetch of embeddings, or the list is full of nearer ones
\* (store.go:2079-2102).
SearchFindsNearest ==
  [][\A c \in Call :
       LET list == calls'[c].near IN
       CallAt(c, "nearest") /\ calls'[c].pc \in {"found", "recent"} /\ list # NoRow =>
         \A id \in DOMAIN vectors \ ToSet(list) :
           Match(Req(c), memories[id], Req(c).src) =>
             \/ Cardinality({other \in DOMAIN vectors : Nearer(Req(c), other, id)})
                  >= 3 * Limit
             \/ /\ Len(list) = Limit
                /\ \A other \in ToSet(list) : Nearer(Req(c), other, id)]_memoryVars

\* A memory is stored once, and its two indexes are about what it says.
MemoriesAgree == NoDuplicates /\ IndexesAgree /\ VectorIsCurrent

=============================================================================
