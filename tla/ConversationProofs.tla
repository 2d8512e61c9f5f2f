-------------------------- MODULE ConversationProofs --------------------------
(***************************************************************************)
(* Proofs about Conversation: the memories and their indexes, what is      *)
(* forgotten, the onboarding, the resets and the migrations.               *)
(***************************************************************************)
EXTENDS Conversation, FiniteSetTheorems, WellFoundedInduction, TLAPS

USE LimitAssumption, RequestAssumption, NoRowAssumption, CastAssumption

-----------------------------------------------------------------------------
(* Lemmas about the operators.                                             *)

\* A set of numbers that is not empty has a least element, ...
LEMMA LeastNumber ==
  ASSUME NEW S \in SUBSET Nat, S # {}
  PROVE  \E n \in S : \A m \in S : n <= m
<1>1. PICK n \in S : \A m \in S : <<m, n>> \notin OpToRel(<, Nat)
  BY NatLessThanWellFounded, WFMin
<1>2. \A m \in S : ~(m < n)
  BY <1>1 DEF OpToRel
<1> QED BY <1>2

\* ... and a finite one has a greatest: the one with the fewest above it.
LEMMA MaxOfFinite ==
  ASSUME NEW S \in SUBSET Nat, S # {}, IsFiniteSet(S)
  PROVE  Max(S) \in S /\ \A y \in S : y <= Max(S)
<1> DEFINE Above(x) == {y \in S : y > x}
           Counts == {k \in Nat : \E x \in S : k = Cardinality(Above(x))}
<1>0. \A x \in S : x \in Nat
  OBVIOUS
<1>1. \A x \in S : IsFiniteSet(Above(x)) /\ Cardinality(Above(x)) \in Nat
  BY FS_Subset, FS_CardinalityType
<1>2. Counts \in SUBSET Nat /\ Counts # {}
  BY <1>1
<1>3. PICK n \in Counts : \A m \in Counts : n <= m
  BY <1>2, LeastNumber
<1>4. PICK x \in S : n = Cardinality(Above(x))
  BY <1>3
<1>5. ASSUME NEW y \in S, y > x PROVE FALSE
  <2>0. x \in Nat /\ y \in Nat /\ ~(y > y)
    BY <1>0
  <2>1. Above(y) \in SUBSET Above(x) /\ y \in Above(x) /\ y \notin Above(y)
    <3>1. \A z \in S : z > y => z > x
      BY <1>0, <1>5, <2>0
    <3> QED BY <1>5, <2>0, <3>1
  <2> HIDE DEF Above
  <2>2. Cardinality(Above(y)) <= n /\ Cardinality(Above(y)) # n
    BY <1>1, <1>4, <2>1, FS_Subset
  <2>3. n <= Cardinality(Above(y))
    BY <1>1, <1>3
  <2> QED BY <1>1, <1>4, <2>2, <2>3
<1>6. \A y \in S : x >= y
  BY <1>0, <1>5
<1> QED BY <1>6 DEF Max

-----------------------------------------------------------------------------
\* Who acts
CastInv == cast \in Casts

\* A turn touches neither the onboarding nor a migration nor a call, and only a
\* reset touches the memories.
LEMMA TurnFrame ==
  ASSUME NEW e, TurnStep(e)
  PROVE  /\ UNCHANGED <<cast, calls, clock, onboardingVars, migrationVars>>
         /\ ~ResetContext(e) => UNCHANGED <<memories, fts, vectors, epoch, forgotAt>>
<1> DEFINE Goal == /\ UNCHANGED <<cast, calls, clock, onboardingVars, migrationVars>>
                   /\ UNCHANGED <<memories, fts, vectors, epoch, forgotAt>>
<1>1. BeginTurn(e) \/ AppendEvent(e) \/ PersistMessage(e) \/ PersistThread(e) => Goal
  BY DEF BeginTurn, AppendEvent, PersistMessage, PersistThread, others, memoryVars
<1>2. LatestSummary(e) \/ ListCandidates(e) \/ Compress(e) \/ UpsertSummary(e) => Goal
  BY DEF LatestSummary, ListCandidates, Compress, UpsertSummary, others, memoryVars
<1>3. ReadBoundary(e) \/ LoadSummaries(e) \/ LoadHistory(e) \/ PersistNextAction(e) => Goal
  BY DEF ReadBoundary, LoadSummaries, LoadHistory, PersistNextAction, others, memoryVars
<1>4. (Report(e) \/ PersistReported(e) \/ PersistReportedThread(e) \/ SelectMemories(e))
        => Goal
  BY DEF Report, PersistReported, PersistReportedThread, SelectMemories, others, memoryVars
<1>5. ResetContext(e) => UNCHANGED <<cast, calls, clock, onboardingVars, migrationVars>>
  BY DEF ResetContext
<1> HIDE DEF Goal
<1>6. Goal \/ ResetContext(e)
  BY <1>1, <1>2, <1>3, <1>4 DEF TurnStep
<1> QED BY <1>5, <1>6 DEF Goal

LEMMA CastKept == CastInv /\ [Next]_vars => CastInv'
<1> SUFFICES ASSUME CastInv, [Next]_vars PROVE cast' = cast
  BY DEF CastInv
<1>1. CASE \E e \in cast.events : TurnStep(e)
  BY <1>1, TurnFrame
<1>2. CASE Tick \/ UNCHANGED vars
  BY <1>2 DEF Tick, vars, conversationVars
<1> QED BY <1>1, <1>2 DEF Next, conversationVars

\* What a step does to the memories: a call of a tool, the deletion of a reset,
\* or nothing.
LEMMA MemorySteps ==
  ASSUME CastInv, [Next]_vars
  PROVE  \/ \E c \in Call : CallStep(c)
         \/ \E ids : DeleteMemories(ids) /\ UNCHANGED <<calls, clock>>
         \/ UNCHANGED memoryVars
<1>1. CASE \E e \in cast.events : TurnStep(e)
  <2> PICK e \in cast.events : TurnStep(e)
    BY <1>1
  <2>1. CASE ResetContext(e)
    BY <2>1 DEF ResetContext, memoryVars
  <2>2. CASE ~ResetContext(e)
    BY <2>2, TurnFrame DEF memoryVars
  <2> QED BY <2>1, <2>2
<1>2. CASE Tick \/ UNCHANGED vars
  BY <1>2 DEF Tick, vars
<1> QED BY <1>1, <1>2 DEF Next, CastInv

-----------------------------------------------------------------------------
\* What the steps of a call do

CallRow(r) ==
  r = [pc |-> r.pc, by |-> r.by, req |-> r.req, id |-> r.id, text |-> r.text,
       ids |-> r.ids, beside |-> r.beside, rows |-> r.rows, found |-> r.found,
       near |-> r.near, at |-> r.at]
MemoryRow(m) ==
  m = [key |-> m.key, content |-> m.content, tags |-> m.tags,
       pinned |-> m.pinned, at |-> m.at]
Ranges(m) == m.content.point \in Int /\ m.pinned \in BOOLEAN

\* Where a call has written nothing yet, and where it has.
Before_ == {"idle", "add", "update", "forget", "search", "recent", "delete",
            "lexical", "nearest", "found", "rejected"}
Behind_ == {"complete", "embed", "vector", "embedded", "unembedded"}
Affects(r) == r.op = "add" \/ AffectsEmbedding(r)
WillEmbed(r) == r.pc \in {"embed", "vector"} \/ (r.pc = "complete" /\ Affects(r.req))

CallOk(r, time) ==
  /\ CallRow(r)
  /\ r.pc \in Before_ \cup Behind_ \cup {"done", "error"}
  /\ r.pc # "idle" => r.req \in Request
  /\ r.pc \in {"add", "update"} => r.pc = r.req.op
  /\ r.pc \in Before_ => r.id = NoRow
  /\ r.pc \in Behind_ => r.id # NoRow
  /\ r.pc \in {"complete", "embed", "vector"} => r.text.content.point \in Int
  /\ r.pc = "complete" => r.req.onboarding
  /\ r.at \in 0 .. time
  /\ r.beside \subseteq Call
CallType == DOMAIN calls = Call /\ \A c \in Call : CallOk(calls[c], clock)
MemoryType ==
  /\ clock \in Nat
  /\ \A id \in DOMAIN memories :
       /\ id # NoRow
       /\ MemoryRow(memories[id]) /\ Ranges(memories[id])
       /\ memories[id].at \in 1 .. clock
       /\ memories[id].key = KeyOf(memories[id].key.scope, memories[id].key)


\* A call goes on without a write, ...
Goes(c) ==
  /\ UNCHANGED <<memories, fts, vectors, clock>>
  /\ calls'[c].id = calls[c].id /\ calls'[c].text = calls[c].text
  /\ calls'[c].beside = calls[c].beside
  /\ \/ calls[c].pc \in Before_ /\ calls'[c].pc \in Before_ \cup {"done", "error"}
     \/ /\ calls[c].pc \in Behind_ /\ calls'[c].pc \in {"error", "unembedded"}
        /\ calls'[c].at = calls[c].at
     \/ /\ calls[c].pc \in {"complete", "embed"}
        /\ calls'[c].pc = CASE calls[c].pc = "embed" -> "vector"
                            [] calls[c].pc = "complete" ->
                                 IF Affects(calls[c].req) THEN "embed" ELSE "done"
        /\ calls'[c].at = calls[c].at /\ calls'[c].req = calls[c].req
\* ... writes a memory, ...
Writes(c, id, row) ==
  /\ ~Refused(id, row.key, row.content) /\ id # NoRow /\ MemoryRow(row) /\ Ranges(row)
  /\ row.key = KeyOf(row.key.scope, row.key)
  /\ memories' = With(memories, id, [row EXCEPT !.at = clock + 1])
  /\ fts' = With(fts, id, Text(row))
  /\ clock' = clock + 1 /\ UNCHANGED vectors
  /\ calls[c].pc \in {"add", "update"} /\ calls'[c].req = calls[c].req
  /\ calls'[c].id = id /\ calls'[c].text = Text(row)
  /\ calls'[c].at = clock + 1 /\ calls'[c].beside = Busy \ {c}
  /\ \/ calls'[c].pc \in {"complete", "embed"} /\ WillEmbed(calls'[c])
     \/ /\ calls'[c].pc \in {"complete", "done"} /\ ~WillEmbed(calls'[c])
        /\ id \in DOMAIN memories /\ Text(row) = Text(memories[id])
\* ... stores its embedding, ...
Stores(c) ==
  /\ calls[c].pc = "vector" /\ calls[c].id \in DOMAIN memories
  /\ vectors' = With(vectors, calls[c].id, calls[c].text)
  /\ clock' = clock + 1 /\ UNCHANGED <<memories, fts>>
  /\ calls' = [calls EXCEPT ![c].pc = "embedded"]
\* ... or forgets.
Forgets(c) ==
  /\ calls[c].pc = "delete" /\ DeleteMemories(calls[c].ids) /\ UNCHANGED clock
  /\ calls' = [calls EXCEPT ![c].pc = "done"]

\* A call begins, or goes on with what it was asked; one that an answer of the
\* onboarding came with completes it.
Begins(c) == \E req \in Request : BeginCall(c, req)
Continues(c) ==
  /\ calls[c].pc \notin Over /\ calls'[c].by = calls[c].by /\ calls'[c].req = calls[c].req
  /\ \/ UNCHANGED onboardingVars
     \/ calls[c].pc = "complete" /\ MarkCompleted /\ UNCHANGED <<onb, disturbed>>
  /\ calls'[c].pc = "delete" => SelectForgotten(c)

LEMMA KeyOfKey ==
  \A scope, src, key : key = KeyOf(scope, src) => key = KeyOf(key.scope, key)
<1> SUFFICES ASSUME NEW scope, NEW src, NEW key, key = KeyOf(scope, src)
             PROVE  key = KeyOf(key.scope, key)
  OBVIOUS
<1>1. /\ key.scope = scope
      /\ key.user = IF scope = "user" THEN src.user ELSE ""
      /\ key.channel = IF scope \in {"channel", "thread"} THEN src.channel ELSE ""
      /\ key.thread = IF scope = "thread" THEN src.thread ELSE ""
  BY DEF KeyOf
<1>2. key = [scope |-> key.scope, user |-> key.user, channel |-> key.channel,
             thread |-> key.thread]
  BY DEF KeyOf
<1> QED BY <1>1, <1>2 DEF KeyOf

LEMMA UpdatedRow ==
  ASSUME NEW m, NEW r, MemoryRow(m), NEW n, n = Updated(m, r)
  PROVE  /\ MemoryRow(n)
         /\ r.content = NoRow => n.content = m.content
         /\ n.key = m.key \/ n.key = KeyOf(r.scope, r.src)
         /\ r.retag \/ n.tags = m.tags
         /\ r.content # NoRow => n.content = r.content
         /\ n.pinned = m.pinned
<1>1. MemoryRow(n)
  BY DEF Updated, MemoryRow
<1>2. r.content = NoRow => n.content = m.content
  BY DEF Updated, MemoryRow
<1>3. n.key = IF r.scope = "" THEN m.key ELSE KeyOf(r.scope, r.src)
  BY DEF Updated, MemoryRow
<1>4. r.retag \/ n.tags = m.tags
  BY DEF Updated, MemoryRow
<1>5. (r.content # NoRow => n.content = r.content) /\ n.pinned = m.pinned
  BY DEF Updated, MemoryRow
<1> QED BY <1>1, <1>2, <1>3, <1>4, <1>5

LEMMA Effects ==
  ASSUME CallType, MemoryType, NEW c \in Call, CallStep(c)
  PROVE  /\ DOMAIN calls' = Call
         /\ \A d \in Call \ {c} : calls'[d] = calls[d]
         /\ CallOk(calls'[c], clock')
         /\ Goes(c) \/ Stores(c) \/ Forgets(c) \/ \E id, row : Writes(c, id, row)
         /\ Begins(c) \/ Continues(c)
<1> DEFINE Goal == /\ DOMAIN calls' = Call
                   /\ \A d \in Call \ {c} : calls'[d] = calls[d]
                   /\ CallOk(calls'[c], clock')
                   /\ Goes(c) \/ Stores(c) \/ Forgets(c) \/ \E id, row : Writes(c, id, row)
                   /\ Begins(c) \/ Continues(c)
<1>0. /\ clock \in Nat /\ DOMAIN calls = Call /\ CallOk(calls[c], clock)
      /\ CallRow(calls[c])
  BY DEF CallType, MemoryType, CallOk
<1> USE DEF CallAt, CallTo, Req
<1>1. CASE \E req \in Request : BeginCall(c, req)
  <2> PICK req \in Request : BeginCall(c, req)
    BY <1>1
  <2> PICK t : calls' = [calls EXCEPT ![c].pc = req.op, ![c].by = t, ![c].req = req]
    BY DEF BeginCall
  <2>1. /\ calls[c].pc = "idle" /\ UNCHANGED <<memories, fts, vectors, clock>>
        /\ req.op \in {"add", "update", "forget", "search", "recent"}
    BY DEF BeginCall
  <2> QED BY <1>0, <1>1, <2>1 DEF Goes, CallOk, CallRow, Before_, Behind_, Begins
<1>2. ASSUME StoreFails(c), calls[c].pc \in {"add", "update", "complete", "delete"},
             UNCHANGED onboardingVars
      PROVE  Goal
  BY <1>0, <1>2 DEF StoreFails, Goes, CallOk, CallRow, Before_, Behind_, Continues, Over
<1>3. ASSUME NEW id, NEW row, NEW after, id # NoRow, MemoryRow(row), Ranges(row),
             row.key = KeyOf(row.key.scope, row.key),
             Write(c, id, row, after), calls[c].pc \in {"add", "update"},
             UNCHANGED onboardingVars, after = "complete" => calls[c].req.onboarding,
             \/ after = "complete" /\ Affects(calls[c].req)
             \/ after = "embed"
             \/ /\ after \in {"complete", "done"} /\ ~Affects(calls[c].req)
                /\ id \in DOMAIN memories /\ Text(row) = Text(memories[id])
      PROVE  Goal
  <2>1. CASE StoreFails(c)
    BY <1>2, <1>3, <2>1
  <2>2. CASE Refused(id, row.key, row.content) /\ CallTo(c, "rejected")
             /\ UNCHANGED <<memories, fts, vectors, clock>>
    BY <1>0, <1>3, <2>2 DEF Goes, CallOk, CallRow, Before_, Behind_, Continues, Over
  <2>3. CASE ~Refused(id, row.key, row.content) /\ ~StoreFails(c)
    <3>1. /\ memories' = With(memories, id, [row EXCEPT !.at = clock + 1])
          /\ fts' = With(fts, id, Text(row))
          /\ clock' = clock + 1 /\ UNCHANGED vectors
          /\ calls' = [calls EXCEPT ![c].pc = after, ![c].id = id,
                               ![c].text = Text(row), ![c].at = clock + 1,
                               ![c].beside = Busy \ {c}]
      BY <1>3, <2>3, Zenon DEF Write
    <3>2. /\ DOMAIN calls' = Call /\ \A d \in Call \ {c} : calls'[d] = calls[d]
          /\ CallRow(calls'[c])
          /\ calls'[c].pc = after /\ calls'[c].id = id /\ calls'[c].text = Text(row)
          /\ calls'[c].at = clock + 1 /\ calls'[c].beside = Busy \ {c}
          /\ calls'[c].req = calls[c].req /\ calls'[c].by = calls[c].by
      BY <1>0, <3>1 DEF CallRow
    <3>3. after \in {"complete", "embed", "done"}
      BY <1>3
    <3>8. calls'[c].text.content.point \in Int
      BY <1>3, <3>2 DEF Text, Ranges
    <3>4. CallOk(calls'[c], clock')
      BY <1>0, <1>3, <3>1, <3>2, <3>3, <3>8 DEF CallOk, Before_, Behind_, Busy
    <3>5. \/ calls'[c].pc \in {"complete", "embed"} /\ WillEmbed(calls'[c])
          \/ /\ calls'[c].pc \in {"complete", "done"} /\ ~WillEmbed(calls'[c])
             /\ id \in DOMAIN memories /\ Text(row) = Text(memories[id])
      BY <1>3, <3>2 DEF WillEmbed
    <3>6. Writes(c, id, row)
      BY <1>3, <2>3, <3>1, <3>2, <3>5, Zenon DEF Writes
    <3>7. Continues(c)
      BY <1>3, <3>2, <3>3 DEF Continues, Over
    <3> QED BY <3>2, <3>4, <3>6, <3>7
  <2> QED BY <1>3, <2>1, <2>2, <2>3 DEF Write
<1>4. CASE RememberMemory(c)
  <2> DEFINE r == calls[c].req
             row == [key |-> KeyOf(AddScope(r.scope, r.src), r.src),
                     content |-> r.content, tags |-> r.tags,
                     pinned |-> r.pinned, at |-> 0]
             after == After(r, r.tags, TRUE)
  <2>1. Write(c, c, row, after) /\ calls[c].pc = "add" /\ r.op = "add"
        /\ UNCHANGED onboardingVars
    BY <1>0, <1>4 DEF RememberMemory, CallOk
  <2>2. /\ after \in {"complete", "embed"} /\ Affects(r)
        /\ after = "complete" => r.onboarding
    BY <2>1 DEF After, Affects, OnboardingTagged
  <2>3. c # NoRow /\ MemoryRow(row) /\ row.key = KeyOf(row.key.scope, row.key)
    BY KeyOfKey DEF MemoryRow
  <2>4. Ranges(row)
    <3>1. r \in Request
      BY <1>0, <2>1 DEF CallOk
    <3> QED BY <2>1, <3>1, ContentAssumption DEF Ranges
  <2> HIDE DEF row, after
  <2> QED BY <1>3, <2>1, <2>2, <2>3, <2>4 DEF r
<1>5. CASE UpdateMemory(c)
  <2> DEFINE r == calls[c].req
             row == Updated(memories[r.id], r)
             after == After(r, row.tags, AffectsEmbedding(r))
  <2>1. /\ calls[c].pc = "update" /\ r.op = "update" /\ UNCHANGED onboardingVars
        /\ \/ Write(c, r.id, row, after) /\ r.id \in DOMAIN memories
           \/ CallTo(c, "done") /\ UNCHANGED <<memories, fts, vectors, clock>>
    BY <1>0, <1>5 DEF UpdateMemory, CallOk
  <2>2. CASE CallTo(c, "done") /\ UNCHANGED <<memories, fts, vectors, clock>>
    BY <1>0, <2>1, <2>2 DEF Goes, CallOk, CallRow, Before_, Behind_, Continues, Over
  <2>3. CASE Write(c, r.id, row, after) /\ r.id \in DOMAIN memories
    <3>1. Affects(r) <=> AffectsEmbedding(r)
      BY <2>1 DEF Affects
    <3>2. \/ after = "complete" /\ r.onboarding
          \/ after = IF AffectsEmbedding(r) THEN "embed" ELSE "done"
      BY DEF After, OnboardingTagged
    <3>3. /\ MemoryRow(memories[r.id]) /\ Ranges(memories[r.id]) /\ r.id # NoRow
          /\ memories[r.id].key = KeyOf(memories[r.id].key.scope, memories[r.id].key)
      BY <2>3 DEF MemoryType
    <3>4. row = Updated(memories[r.id], r)
      OBVIOUS
    <3> HIDE DEF row, after
    <3>5. /\ MemoryRow(row) /\ Ranges(row)
          /\ AffectsEmbedding(r) \/ Text(row) = Text(memories[r.id])
          /\ row.key = KeyOf(row.key.scope, row.key)
      <4> DEFINE m == memories[r.id]
      <4>1. /\ MemoryRow(m) /\ row = Updated(m, r) /\ m.key = KeyOf(m.key.scope, m.key)
            /\ Ranges(m)
        BY <3>3, <3>4
      <4> HIDE DEF m
      <4>2. /\ MemoryRow(row)
            /\ r.content = NoRow => row.content = m.content
            /\ row.key = m.key \/ row.key = KeyOf(r.scope, r.src)
            /\ r.retag \/ row.tags = m.tags
            /\ r.content # NoRow => row.content = r.content
            /\ row.pinned = m.pinned
        BY <4>1, UpdatedRow
      <4>3. AffectsEmbedding(r) \/ (row.content = m.content /\ row.tags = m.tags)
        BY <4>2 DEF AffectsEmbedding
      <4>4. row.key = KeyOf(row.key.scope, row.key)
        BY <4>1, <4>2, KeyOfKey
      <4>5. Ranges(row)
        <5>1. r \in Request
          BY <1>0, <2>1 DEF CallOk
        <5> HIDE DEF r
        <5> QED BY <4>1, <4>2, <5>1, ContentAssumption DEF Ranges
      <4> QED BY <4>2, <4>3, <4>4, <4>5 DEF Text, m
    <3> QED BY <1>3, <2>1, <2>3, <3>1, <3>2, <3>3, <3>5 DEF r
  <2> QED BY <2>1, <2>2, <2>3
<1>6. CASE CompleteOnboarding(c)
  <2>1. calls[c].pc = "complete"
    BY <1>6 DEF CompleteOnboarding
  <2>2. CASE StoreFails(c) /\ UNCHANGED onboardingVars
    BY <1>2, <2>1, <2>2
  <2>3. CASE ~(StoreFails(c) /\ UNCHANGED onboardingVars)
    <3>1. /\ calls' = [calls EXCEPT ![c].pc = IF Affects(calls[c].req) THEN "embed" ELSE "done"]
          /\ UNCHANGED <<memories, fts, vectors, clock, onb, disturbed>> /\ MarkCompleted
      BY <1>6, <2>3 DEF CompleteOnboarding, Affects
    <3> QED BY <1>0, <2>1, <3>1 DEF Goes, CallOk, CallRow, Before_, Behind_, Continues, Over
  <2> QED BY <2>2, <2>3
<1>7. CASE Embed(c)
  BY <1>0, <1>7 DEF Embed, Goes, CallOk, CallRow, Before_, Behind_, Continues, Over
<1>8. CASE UpsertMemoryEmbedding(c)
  BY <1>0, <1>8 DEF UpsertMemoryEmbedding, Goes, Stores, CallOk, CallRow, Before_, Behind_,
       Continues, Over
<1>9. ASSUME /\ DOMAIN calls' = Call /\ \A d \in Call \ {c} : calls'[d] = calls[d]
             /\ CallRow(calls'[c]) /\ calls'[c].req = calls[c].req
             /\ calls'[c].id = calls[c].id /\ calls'[c].text = calls[c].text
             /\ calls'[c].beside = calls[c].beside /\ calls'[c].at \in {calls[c].at, clock}
             /\ calls[c].pc \in {"forget", "search", "lexical", "nearest", "recent"}
             /\ calls'[c].pc \in {"delete", "lexical", "nearest", "found", "recent", "done"},
             calls'[c].by = calls[c].by, calls'[c].pc = "delete" => SelectForgotten(c),
             UNCHANGED <<memories, fts, vectors, clock, onboardingVars>>
      PROVE  Goal
  BY <1>0, <1>9 DEF Goes, CallOk, Before_, Behind_, Continues, Over
<1>10. CASE SelectForgotten(c)
  <2>1. PICK pc, ids :
          /\ calls' = [calls EXCEPT ![c].pc = pc, ![c].ids = ids, ![c].at = clock]
          /\ pc \in {"delete", "done"}
    BY <1>10, Zenon DEF SelectForgotten
  <2>2. calls[c].pc = "forget" /\ UNCHANGED <<memories, fts, vectors, clock, onboardingVars>>
    BY <1>10 DEF SelectForgotten
  <2> QED BY <1>0, <1>9, <1>10, <2>1, <2>2 DEF CallRow, Before_
<1>11. CASE ForgetMemories(c)
  BY <1>0, <1>2, <1>11 DEF ForgetMemories, Forgets, CallOk, CallRow, Before_, Behind_,
       Continues, Over
<1>12. CASE EmbedQuery(c)
  <2>1. PICK near : calls' = [calls EXCEPT ![c].pc = "lexical", ![c].near = near]
    BY <1>12, Zenon DEF EmbedQuery
  <2>2. calls[c].pc = "search" /\ UNCHANGED <<memories, fts, vectors, clock, onboardingVars>>
    BY <1>12 DEF EmbedQuery
  <2> QED BY <1>0, <1>9, <2>1, <2>2 DEF CallRow, Before_
<1>13. CASE SearchFTS(c)
  <2>1. PICK found : calls' = [calls EXCEPT ![c].pc = "nearest", ![c].found = found,
                                            ![c].rows = Rows(found)]
    BY <1>13, Zenon DEF SearchFTS
  <2>2. calls[c].pc = "lexical" /\ UNCHANGED <<memories, fts, vectors, clock, onboardingVars>>
    BY <1>13 DEF SearchFTS
  <2> QED BY <1>0, <1>9, <2>1, <2>2 DEF CallRow, Before_
<1>14. CASE SearchVectors(c)
  <2>1. calls[c].pc = "nearest" /\ UNCHANGED <<memories, fts, vectors, clock, onboardingVars>>
    BY <1>14 DEF SearchVectors
  <2> DEFINE r == calls[c].req
             near == IF calls[c].near = NoRow THEN <<>> ELSE Nearest(r, r.src)
             none == calls[c].found = <<>> /\ near = <<>>
             pc == IF none /\ (r.terms = {} \/ r.fallback) THEN "recent" ELSE "found"
             kept == IF calls[c].near = NoRow THEN NoRow ELSE near
             found == Fused(calls[c].found, near, Joined(calls[c].rows, Rows(near)))
  <2>2. \/ calls' = [calls EXCEPT ![c].pc = "lexical", ![c].near = NoRow]
        \/ calls' = [calls EXCEPT ![c].pc = pc, ![c].near = kept,
                                  ![c].found = found]
    BY <1>14, Zenon DEF SearchVectors
  <2>5. pc \in {"recent", "found"}
    OBVIOUS
  <2> HIDE DEF pc, kept, found, none, near
  <2>3. CASE calls' = [calls EXCEPT ![c].pc = "lexical", ![c].near = NoRow]
    BY <1>0, <1>9, <2>1, <2>3 DEF CallRow, Before_
  <2>4. CASE calls' = [calls EXCEPT ![c].pc = pc, ![c].near = kept,
                                    ![c].found = found]
    BY <1>0, <1>9, <2>1, <2>4, <2>5 DEF CallRow, Before_
  <2> QED BY <2>2, <2>3, <2>4
<1>15. CASE RecentMemories(c)
  <2>1. PICK found : calls' = [calls EXCEPT ![c].pc = "done", ![c].found = found]
    BY <1>15, Zenon DEF RecentMemories
  <2>2. calls[c].pc = "recent" /\ UNCHANGED <<memories, fts, vectors, clock, onboardingVars>>
    BY <1>15 DEF RecentMemories
  <2> QED BY <1>0, <1>9, <2>1, <2>2 DEF CallRow, Before_
<1> HIDE DEF Goal
<1> QED BY <1>1, <1>4, <1>5, <1>6, <1>7, <1>8, <1>10, <1>11, <1>12, <1>13, <1>14,
           <1>15
        DEF CallStep


LEMMA StoreKept ==
  ASSUME CastInv, CallType, MemoryType, [Next]_vars
  PROVE  CallType' /\ MemoryType'
<1>0. clock \in Nat
  BY DEF MemoryType
<1>1. ASSUME NEW c \in Call, CallStep(c)
      PROVE  CallType' /\ MemoryType'
  <2>1. /\ DOMAIN calls' = Call
        /\ \A d \in Call \ {c} : calls'[d] = calls[d]
        /\ CallOk(calls'[c], clock')
        /\ Goes(c) \/ Stores(c) \/ Forgets(c) \/ \E id, row : Writes(c, id, row)
    BY <1>1, Effects
  <2>2. clock' \in {clock, clock + 1}
    BY <2>1 DEF Goes, Stores, Forgets, Writes
  <2>3. \A d \in Call : CallOk(calls[d], clock) => CallOk(calls[d], clock')
    BY <1>0, <2>2 DEF CallOk
  <2>4. CallType'
    BY <2>1, <2>3 DEF CallType
  <2>5. CASE Goes(c) \/ Stores(c)
    BY <1>0, <2>2, <2>4, <2>5 DEF Goes, Stores, MemoryType
  <2>6. CASE Forgets(c)
    BY <2>4, <2>6 DEF Forgets, DeleteMemories, Without, MemoryType
  <2>7. CASE \E id, row : Writes(c, id, row)
    <3> PICK id, row : Writes(c, id, row)
      BY <2>7
    <3> DEFINE new == [row EXCEPT !.at = clock + 1]
    <3>1. /\ memories' = With(memories, id, new)
          /\ clock' = clock + 1 /\ id # NoRow /\ MemoryRow(row) /\ Ranges(row)
          /\ row.key = KeyOf(row.key.scope, row.key)
      BY DEF Writes
    <3>2. /\ MemoryRow(new) /\ Ranges(new)
          /\ new.at = clock + 1 /\ new.key = row.key
      BY <3>1 DEF MemoryRow, Ranges
    <3> HIDE DEF new
    <3> QED BY <1>0, <2>4, <3>1, <3>2 DEF With, MemoryType
  <2> QED BY <2>1, <2>4, <2>5, <2>6, <2>7
<1>2. ASSUME NEW ids, DeleteMemories(ids), UNCHANGED <<calls, clock>>
      PROVE  CallType' /\ MemoryType'
  <2>1. CallType'
    BY <1>2 DEF CallType
  <2> QED BY <1>2, <2>1 DEF DeleteMemories, Without, MemoryType
<1>3. CASE UNCHANGED memoryVars
  <2>1. CallType'
    BY <1>3 DEF memoryVars, CallType
  <2> QED BY <1>3, <2>1 DEF memoryVars, MemoryType
<1> QED BY <1>1, <1>2, <1>3, MemorySteps

-----------------------------------------------------------------------------
\* The rows of the first memories, and the time of the latest of them.
LEMMA StoreStart ==
  ASSUME Init
  PROVE  /\ CastInv /\ CallType /\ MemoryType
         /\ \A c \in Call : calls[c].id = NoRow /\ calls[c].pc = "idle"
         /\ NoDuplicates /\ IndexesAgree
<1> USE SeedAssumption
<1> DEFINE Times == {0} \cup {s.at : s \in Seed}
           first(id) == CHOOSE s \in Seed : s.id = id
<1>1. clock \in Nat /\ \A s \in Seed : s.at \in 1 .. clock
  <2>1. IsFiniteSet({s.at : s \in Seed})
    <3>1. [s \in Seed |-> s.at] \in Surjection(Seed, {s.at : s \in Seed})
      BY DEF Surjection
    <3> QED BY <3>1, FS_Surjection
  <2>2. IsFiniteSet(Times)
    BY <2>1, FS_AddElement
  <2>3. Times \in SUBSET Nat /\ Times # {}
    OBVIOUS
  <2>4. clock = Max(Times)
    BY DEF Init, MemoryInit
  <2> HIDE DEF Times
  <2>5. clock \in Times /\ \A y \in Times : y <= clock
    BY <2>2, <2>3, <2>4, MaxOfFinite
  <2> QED BY <2>5 DEF Times
<1>2. ASSUME NEW id \in DOMAIN memories
      PROVE  /\ first(id) \in Seed /\ first(id).id = id
             /\ memories[id] = Seeded(first(id))
  BY DEF Init, MemoryInit
<1> HIDE DEF first
<1>3. \A id \in DOMAIN memories :
        /\ id # NoRow /\ MemoryRow(memories[id])
        /\ memories[id].key = first(id).key /\ memories[id].at = first(id).at
        /\ memories[id].content = first(id).content
        /\ Ranges(memories[id])
  BY <1>2 DEF Seeded, MemoryRow, Ranges
<1>4. MemoryType
  BY <1>1, <1>2, <1>3 DEF MemoryType
<1>5. NoDuplicates
  BY <1>2, <1>3 DEF NoDuplicates
<1>6. IndexesAgree
  BY DEF Init, MemoryInit, IndexesAgree
<1>7. CallType
  <2>1. ASSUME NEW c \in Call PROVE CallOk(calls[c], clock)
    <3>1. calls[c] = [pc |-> "idle", by |-> NoRow, req |-> NoRow, id |-> NoRow,
                      text |-> NoRow, ids |-> {}, beside |-> {}, rows |-> <<>>,
                      found |-> <<>>, near |-> NoRow, at |-> 0]
      BY DEF Init, MemoryInit
    <3> QED BY <1>1, <3>1 DEF CallOk, CallRow, Before_, Behind_
  <2> QED BY <2>1 DEF Init, MemoryInit, CallType
<1>8. \A c \in Call : calls[c].id = NoRow /\ calls[c].pc = "idle"
  BY DEF Init, MemoryInit
<1>9. CastInv
  BY DEF Init, ConversationInit, CastInv
<1> QED BY <1>4, <1>5, <1>6, <1>7, <1>8, <1>9

\* A memory is written only where its scope does not hold its text yet.
LEMMA RowsKept ==
  ASSUME CastInv, CallType, MemoryType, NoDuplicates, IndexesAgree, [Next]_vars
  PROVE  NoDuplicates' /\ IndexesAgree'
<1>1. ASSUME NEW ids, DeleteMemories(ids)
      PROVE  NoDuplicates' /\ IndexesAgree'
  BY <1>1 DEF DeleteMemories, Without, NoDuplicates, IndexesAgree
<1>2. CASE UNCHANGED <<memories, fts, vectors>>
  BY <1>2 DEF NoDuplicates, IndexesAgree
<1>3. ASSUME NEW c \in Call, Stores(c)
      PROVE  NoDuplicates' /\ IndexesAgree'
  BY <1>3 DEF Stores, With, NoDuplicates, IndexesAgree
<1>4. ASSUME NEW c \in Call, NEW id, NEW row, Writes(c, id, row)
      PROVE  NoDuplicates' /\ IndexesAgree'
  <2> DEFINE new == [row EXCEPT !.at = clock + 1]
  <2>1. /\ memories' = With(memories, id, new) /\ fts' = With(fts, id, Text(row))
        /\ UNCHANGED vectors /\ MemoryRow(row) /\ ~Duplicate(id, row.key, row.content)
    BY <1>4 DEF Writes, Refused
  <2>2. new.key = row.key /\ new.content = row.content /\ Text(new) = Text(row)
    BY <2>1 DEF MemoryRow, Text
  <2> HIDE DEF new
  <2>3. IndexesAgree'
    BY <2>1, <2>2 DEF With, IndexesAgree
  <2>4. /\ DOMAIN memories' = DOMAIN memories \cup {id}
        /\ memories'[id] = new /\ \A x \in DOMAIN memories \ {id} : memories'[x] = memories[x]
    BY <2>1 DEF With
  <2>5. \A x \in DOMAIN memories \ {id} :
          ~(memories[x].key = new.key /\ memories[x].content.text = new.content.text)
    BY <2>1, <2>2 DEF Duplicate
  <2>6. NoDuplicates'
    BY <2>4, <2>5 DEF NoDuplicates
  <2> QED BY <2>3, <2>6
<1>5. ASSUME NEW c \in Call, CallStep(c)
      PROVE  NoDuplicates' /\ IndexesAgree'
  BY <1>1, <1>2, <1>3, <1>4, <1>5, Effects DEF Goes, Forgets
<1> QED BY <1>1, <1>2, <1>5, MemorySteps DEF memoryVars

-----------------------------------------------------------------------------
\* The embedding of a memory.  A call that wrote a memory is its writer; the
\* last one has the time of the memory.
Pending(r) == r.pc \in {"complete", "embed", "vector"}
Failed(r) == r.pc \in {"unembedded", "error"}
Current_(id) == id \in DOMAIN vectors /\ vectors[id] = Text(memories[id])

\* A writer that another one comes after is done by then, or beside it.
WriterInv ==
  \A c, d \in Call : calls[c].id = calls[d].id /\ calls[c].id # NoRow =>
    /\ calls[c].at = calls[d].at => c = d
    /\ calls[d].at < calls[c].at /\ Pending(calls[d]) => d \in calls[c].beside
\* The last writer of a memory wrote what it says.
TextInv ==
  \A id \in DOMAIN memories, c \in Call : calls[c].id = id =>
    /\ calls[c].at <= memories[id].at
    /\ calls[c].at = memories[id].at => calls[c].text = Text(memories[id])
    /\ \E w \in Call : calls[w].id = id /\ calls[w].at = memories[id].at
\* Where the last writer was alone and has stored its embedding, and ...
EmbeddedInv ==
  \A id \in DOMAIN memories, c \in Call :
    /\ calls[c].id = id /\ calls[c].at = memories[id].at
    /\ calls[c].pc = "embedded" /\ Alone(c)
    => Current_(id)
\* ... where all were alone and none failed, unless the last one is about to.
Sound(id) == \A c \in Call : calls[c].id = id => Alone(c) /\ ~Failed(calls[c])
DoneInv ==
  \A id \in DOMAIN memories : Sound(id) =>
    \/ Current_(id)
    \/ \E w \in Call : /\ calls[w].id = id /\ calls[w].at = memories[id].at
                       /\ WillEmbed(calls[w])
VectorInv == WriterInv /\ TextInv /\ EmbeddedInv /\ DoneInv

LEMMA VectorInvIsEnough ==
  ASSUME CallType, MemoryType, VectorInv
  PROVE  VectorIsCurrent
<1> SUFFICES ASSUME NEW id \in DOMAIN memories, NEW c \in Call,
                    calls[c].id = id, memories[id].at = calls[c].at,
                    \/ calls[c].pc = "embedded" /\ Alone(c)
                    \/ calls[c].pc = "done" /\ Sound(id)
             PROVE  Current_(id)
  BY DEF VectorIsCurrent, Sound, Failed, Current_
<1>1. CASE calls[c].pc = "embedded" /\ Alone(c)
  BY <1>1 DEF VectorInv, EmbeddedInv
<1>2. CASE calls[c].pc = "done" /\ Sound(id)
  <2>1. ~WillEmbed(calls[c]) /\ id # NoRow
    BY <1>2 DEF WillEmbed, MemoryType
  <2>2. \A w \in Call : calls[w].id = id /\ calls[w].at = memories[id].at => w = c
    BY <2>1 DEF VectorInv, WriterInv
  <2> QED BY <1>2, <2>1, <2>2 DEF VectorInv, DoneInv
<1> QED BY <1>1, <1>2

\* What the steps that write no memory have in common.
Steady ==
  /\ \A d \in Call :
       /\ calls'[d].id = calls[d].id
       /\ calls[d].id # NoRow =>
            /\ calls'[d].at = calls[d].at /\ calls'[d].text = calls[d].text
            /\ calls'[d].beside = calls[d].beside
            /\ Pending(calls'[d]) => Pending(calls[d])
            /\ Failed(calls[d]) => Failed(calls'[d])
            /\ WillEmbed(calls[d]) =>
                 WillEmbed(calls'[d]) \/ Failed(calls'[d]) \/ Stores(d)
            /\ calls'[d].pc = "embedded" => calls[d].pc = "embedded" \/ Stores(d)
  /\ \A id \in DOMAIN memories' : id \in DOMAIN memories /\ memories'[id] = memories[id]
  /\ \A id \in DOMAIN memories' : Current_(id) /\ ~Current_(id)' =>
       \E d \in Call : Stores(d) /\ calls[d].id = id

LEMMA SteadySteps ==
  ASSUME CallType, MemoryType, NEW c \in Call,
         \A d \in Call \ {c} : calls'[d] = calls[d],
         Goes(c) \/ Stores(c) \/ Forgets(c)
  PROVE  Steady
<1>0. CallOk(calls[c], clock) /\ CallRow(calls[c]) /\ c \in DOMAIN calls
  BY DEF CallType, CallOk
<1>1. CASE Goes(c)
  <2>1. calls[c].id # NoRow => calls[c].pc \notin Before_
    BY <1>0 DEF CallOk
  <2>2. calls[c].id # NoRow =>
            /\ calls'[c].at = calls[c].at
            /\ Pending(calls'[c]) => Pending(calls[c])
            /\ Failed(calls[c]) => Failed(calls'[c])
            /\ WillEmbed(calls[c]) => WillEmbed(calls'[c]) \/ Failed(calls'[c])
            /\ calls'[c].pc # "embedded"
    BY <1>1, <2>1 DEF Goes, Pending, Failed, WillEmbed, Behind_
  <2> QED BY <1>1, <2>2 DEF Goes, Steady, Current_
<1>2. CASE Stores(c)
  <2>1. /\ calls'[c].id = calls[c].id /\ calls'[c].text = calls[c].text
        /\ calls'[c].at = calls[c].at /\ calls'[c].beside = calls[c].beside
        /\ calls'[c].pc = "embedded" /\ calls[c].pc = "vector"
    BY <1>0, <1>2 DEF Stores, CallRow
  <2>2. ~Pending(calls'[c]) /\ ~Failed(calls[c])
    BY <2>1 DEF Pending, Failed
  <2>3. \A id \in DOMAIN memories \ {calls[c].id} : Current_(id) => Current_(id)'
    BY <1>2 DEF Stores, With, Current_
  <2>4. UNCHANGED memories
    BY <1>2 DEF Stores
  <2> QED BY <1>2, <2>1, <2>2, <2>3, <2>4, Zenon DEF Steady
<1>3. CASE Forgets(c)
  <2>1. calls[c].id = NoRow /\ calls'[c].id = NoRow
    BY <1>0, <1>3 DEF Forgets, CallOk, CallRow, Before_
  <2>2. \A id \in DOMAIN memories' :
          /\ id \in DOMAIN memories /\ memories'[id] = memories[id]
          /\ Current_(id) => Current_(id)'
    BY <1>3 DEF Forgets, DeleteMemories, Without, Current_
  <2> QED BY <2>1, <2>2, Zenon DEF Steady
<1> QED BY <1>1, <1>2, <1>3

LEMMA SteadyKeeps ==
  ASSUME CallType, MemoryType, VectorInv, Steady,
         \A d \in Call : Stores(d) => vectors' = With(vectors, calls[d].id, calls[d].text)
  PROVE  VectorInv'
<1>1. /\ \A id \in DOMAIN memories' : /\ id \in DOMAIN memories /\ id # NoRow
                                      /\ memories'[id] = memories[id]
      /\ \A d \in Call : calls'[d].id = calls[d].id
  BY DEF Steady, MemoryType
<1>2. \A d \in Call : calls[d].id # NoRow => (Alone(d)' <=> Alone(d))
  BY DEF Steady, Alone, CallType, CallOk
<1>3. ASSUME NEW id \in DOMAIN memories', NEW d \in Call, Stores(d), calls[d].id = id,
             NEW c \in Call, calls[c].id = id, Alone(c), calls[c].at = memories[id].at
      PROVE  Current_(id)'
  <2>1. id \in DOMAIN memories /\ id # NoRow /\ memories'[id] = memories[id]
    BY <1>1, <1>3
  <2>2. Pending(calls[d])
    BY <1>3 DEF Stores, Pending
  <2>3. calls[d].at <= calls[c].at /\ calls[d].at \in Nat /\ calls[c].at \in Nat
    BY <1>3, <2>1 DEF VectorInv, TextInv, CallType, CallOk, MemoryType
  <2>4. d \notin calls[c].beside
    BY <1>3 DEF Alone
  <2>5. calls[d].at = calls[c].at
    BY <1>3, <2>1, <2>2, <2>3, <2>4 DEF VectorInv, WriterInv
  <2>6. c = d
    BY <1>3, <2>1, <2>5 DEF VectorInv, WriterInv
  <2>7. calls[d].text = Text(memories[id])
    BY <1>3, <2>1, <2>6 DEF VectorInv, TextInv
  <2>8. id \in DOMAIN vectors' /\ vectors'[id] = calls[d].text
    BY <1>3 DEF With
  <2> QED BY <2>1, <2>7, <2>8 DEF Current_
<1>4. WriterInv'
  BY <1>1 DEF VectorInv, WriterInv, Steady
<1>5. TextInv'
  BY <1>1 DEF VectorInv, TextInv, Steady
<1>6. EmbeddedInv'
  <2> SUFFICES ASSUME NEW id \in DOMAIN memories', NEW c \in Call,
                      calls'[c].id = id, calls'[c].at = memories'[id].at,
                      calls'[c].pc = "embedded", Alone(c)'
               PROVE  Current_(id)'
    BY DEF EmbeddedInv
  <2>1. /\ calls[c].id = id /\ calls[c].at = memories[id].at /\ Alone(c)
        /\ id \in DOMAIN memories /\ id # NoRow
        /\ calls[c].pc = "embedded" \/ Stores(c)
    BY <1>1, <1>2 DEF Steady
  <2>2. CASE Stores(c)
    BY <1>3, <2>1, <2>2
  <2>3. CASE calls[c].pc = "embedded"
    <3>1. Current_(id)
      BY <2>1, <2>3 DEF VectorInv, EmbeddedInv
    <3>2. ASSUME NEW d \in Call, Stores(d), calls[d].id = id
          PROVE  Current_(id)'
      BY <1>3, <2>1, <3>2
    <3> QED BY <3>1, <3>2 DEF Steady
  <2> QED BY <2>1, <2>2, <2>3
<1>7. DoneInv'
  <2> SUFFICES ASSUME NEW id \in DOMAIN memories', Sound(id)', ~Current_(id)'
               PROVE  \E w \in Call : /\ calls'[w].id = id /\ calls'[w].at = memories'[id].at
                                      /\ WillEmbed(calls'[w])
    BY DEF DoneInv
  <2>1. id \in DOMAIN memories /\ id # NoRow /\ memories'[id] = memories[id]
    BY <1>1
  <2>2. Sound(id)
    BY <1>1, <1>2, <2>1 DEF Sound, Steady
  <2>3. ASSUME NEW d \in Call, Stores(d), calls[d].id = id
        PROVE  FALSE
    <3>1. PICK c \in Call : calls[c].id = id /\ calls[c].at = memories[id].at
      BY <2>1, <2>3 DEF VectorInv, TextInv
    <3> QED BY <1>3, <2>1, <2>2, <2>3, <3>1 DEF Sound
  <2>4. ~Current_(id)
    BY <2>3 DEF Steady
  <2>5. PICK w \in Call : /\ calls[w].id = id /\ calls[w].at = memories[id].at
                          /\ WillEmbed(calls[w])
    BY <2>1, <2>2, <2>4 DEF VectorInv, DoneInv
  <2>6. ~Failed(calls'[w]) /\ ~Stores(w)
    BY <1>1, <2>3, <2>5 DEF Sound
  <2> QED BY <2>1, <2>5, <2>6 DEF Steady
<1> QED BY <1>4, <1>5, <1>6, <1>7 DEF VectorInv

LEMMA WritesKeep ==
  ASSUME CallType, MemoryType, VectorInv, NEW c \in Call, NEW id, NEW row,
         \A d \in Call \ {c} : calls'[d] = calls[d], Writes(c, id, row)
  PROVE  VectorInv'
<1> DEFINE new == [row EXCEPT !.at = clock + 1]
<1>1. /\ memories' = With(memories, id, new) /\ UNCHANGED vectors
      /\ MemoryRow(row) /\ id # NoRow /\ clock \in Nat
      /\ calls[c].pc \in {"add", "update"}
      /\ calls'[c].id = id /\ calls'[c].text = Text(row)
      /\ calls'[c].at = clock + 1 /\ calls'[c].beside = Busy \ {c}
      /\ \/ calls'[c].pc \in {"complete", "embed"} /\ WillEmbed(calls'[c])
         \/ /\ calls'[c].pc \in {"complete", "done"} /\ ~WillEmbed(calls'[c])
            /\ id \in DOMAIN memories /\ Text(row) = Text(memories[id])
  BY Zenon DEF Writes, MemoryType
<1>2. new.at = clock + 1 /\ Text(new) = Text(row)
  BY <1>1 DEF MemoryRow, Text
<1> HIDE DEF new
<1>3. /\ DOMAIN memories' = DOMAIN memories \cup {id} /\ memories'[id] = new
      /\ \A x \in DOMAIN memories \ {id} : memories'[x] = memories[x]
  BY <1>1 DEF With
<1>4. calls[c].id = NoRow
  BY <1>1 DEF CallType, CallOk, Before_
<1>5. \A d \in Call : calls[d].at \in Nat /\ calls[d].at < clock + 1
  BY <1>1 DEF CallType, CallOk
<1>6. \A d \in Call \ {c} : Pending(calls[d]) => d \in Busy
  BY DEF Pending, Busy, Over
<1>7. \A d \in Call \ {c} : calls[d].id # NoRow =>
        /\ Alone(d)' => Alone(d)
        /\ calls[d].id # id => (Alone(d) => Alone(d)')
  BY <1>1, <1>4 DEF Alone, CallType, CallOk
<1>8. WriterInv'
  BY <1>1, <1>4, <1>5, <1>6 DEF VectorInv, WriterInv
<1>9. TextInv'
  <2> SUFFICES ASSUME NEW x \in DOMAIN memories', NEW d \in Call, calls'[d].id = x
               PROVE  /\ calls'[d].at <= memories'[x].at
                      /\ calls'[d].at = memories'[x].at =>
                           calls'[d].text = Text(memories'[x])
                      /\ \E w \in Call : calls'[w].id = x /\ calls'[w].at = memories'[x].at
    BY DEF TextInv
  <2>1. CASE x = id
    <3>1. memories'[x].at = clock + 1 /\ Text(memories'[x]) = Text(row)
      BY <1>2, <1>3, <2>1
    <3>2. d # c => calls'[d].at < clock + 1 /\ calls'[d].at \in Nat
      BY <1>5
    <3> QED BY <1>1, <2>1, <3>1, <3>2
  <2>2. CASE x # id
    <3>1. /\ x \in DOMAIN memories /\ memories'[x] = memories[x]
          /\ d # c /\ calls[d].id = x /\ x # NoRow
      BY <1>1, <1>3, <2>2 DEF MemoryType
    <3>2. PICK w \in Call : calls[w].id = x /\ calls[w].at = memories[x].at
      BY <3>1 DEF VectorInv, TextInv
    <3>3. w # c
      BY <1>4, <3>1, <3>2
    <3> QED BY <3>1, <3>2, <3>3 DEF VectorInv, TextInv
  <2> QED BY <2>1, <2>2
<1>10. EmbeddedInv'
  <2> SUFFICES ASSUME NEW x \in DOMAIN memories', NEW d \in Call,
                      calls'[d].id = x, calls'[d].at = memories'[x].at,
                      calls'[d].pc = "embedded", Alone(d)'
               PROVE  Current_(x)'
    BY DEF EmbeddedInv
  <2>1. d # c
    BY <1>1
  <2>2. x # id
    BY <1>2, <1>3, <1>5, <2>1
  <2>3. x \in DOMAIN memories /\ x # NoRow /\ memories'[x] = memories[x]
    BY <1>3, <2>2 DEF MemoryType
  <2> QED BY <1>1, <1>7, <2>1, <2>2, <2>3 DEF VectorInv, EmbeddedInv, Current_
<1>11. DoneInv'
  <2> SUFFICES ASSUME NEW x \in DOMAIN memories', Sound(x)'
               PROVE  \/ Current_(x)'
                      \/ \E w \in Call : /\ calls'[w].id = x /\ calls'[w].at = memories'[x].at
                                         /\ WillEmbed(calls'[w])
    BY DEF DoneInv
  <2>1. CASE x # id
    <3>1. x \in DOMAIN memories /\ x # NoRow /\ memories'[x] = memories[x]
      BY <1>3, <2>1 DEF MemoryType
    <3>2. Sound(x)
      BY <1>4, <1>7, <3>1 DEF Sound
    <3>3. Current_(x)' <=> Current_(x)
      BY <1>1, <3>1 DEF Current_
    <3>4. \/ Current_(x)
          \/ \E w \in Call : /\ calls[w].id = x /\ calls[w].at = memories[x].at
                             /\ WillEmbed(calls[w])
      BY <3>1, <3>2 DEF VectorInv, DoneInv
    <3> QED BY <1>4, <3>1, <3>3, <3>4
  <2>2. CASE x = id /\ WillEmbed(calls'[c])
    BY <1>1, <1>2, <1>3, <2>2
  <2>3. CASE x = id /\ ~WillEmbed(calls'[c])
    <3>1. id \in DOMAIN memories /\ Text(row) = Text(memories[id])
      BY <1>1, <2>3
    <3>2. Sound(id)
      BY <1>1, <1>4, <1>7, <2>3 DEF Sound
    <3>3. ASSUME NEW w \in Call, calls[w].id = id, WillEmbed(calls[w])
          PROVE  FALSE
      <4>1. w # c /\ w \in Busy
        BY <1>1, <1>4, <1>6, <3>3 DEF WillEmbed, Pending
      <4>2. Alone(c)'
        BY <1>1, <2>3 DEF Sound
      <4> QED BY <1>1, <3>3, <4>1, <4>2 DEF Alone
    <3>4. Current_(id)
      BY <3>1, <3>2, <3>3 DEF VectorInv, DoneInv
    <3> QED BY <1>1, <1>2, <1>3, <2>3, <3>1, <3>4 DEF Current_
  <2> QED BY <2>1, <2>2, <2>3
<1> QED BY <1>8, <1>9, <1>10, <1>11 DEF VectorInv

LEMMA VectorKept ==
  ASSUME CastInv, CallType, MemoryType, VectorInv, [Next]_vars
  PROVE  VectorInv'
<1>1. ASSUME NEW c \in Call, CallStep(c) PROVE VectorInv'
  <2>1. /\ \A d \in Call \ {c} : calls'[d] = calls[d]
        /\ Goes(c) \/ Stores(c) \/ Forgets(c) \/ \E id, row : Writes(c, id, row)
    BY <1>1, Effects
  <2>2. CASE \E id, row : Writes(c, id, row)
    BY <2>1, <2>2, WritesKeep
  <2>3. CASE Goes(c) \/ Stores(c) \/ Forgets(c)
    <3>1. Steady
      BY <2>1, <2>3, SteadySteps
    <3>2. \A d \in Call : Stores(d) => vectors' = With(vectors, calls[d].id, calls[d].text)
      BY DEF Stores
    <3> QED BY <3>1, <3>2, SteadyKeeps
  <2> QED BY <2>1, <2>2, <2>3
<1>2. ASSUME \/ \E ids : DeleteMemories(ids) /\ UNCHANGED <<calls, clock>>
             \/ UNCHANGED memoryVars
      PROVE  VectorInv'
  <2>1. UNCHANGED calls
    BY <1>2 DEF memoryVars
  <2>2. \A id \in DOMAIN memories' :
          /\ id \in DOMAIN memories /\ memories'[id] = memories[id]
          /\ Current_(id) => Current_(id)'
    BY <1>2 DEF memoryVars, DeleteMemories, Without, Current_
  <2>3. Steady
    BY <2>1, <2>2, Zenon DEF Steady
  <2>4. \A d \in Call : Stores(d) => vectors' = With(vectors, calls[d].id, calls[d].text)
    BY DEF Stores
  <2> QED BY <2>3, <2>4, SteadyKeeps
<1> QED BY <1>1, <1>2, MemorySteps

\* No scope holds a text twice, the indexes are about the memories there are,
\* and an embedding is of the present text of its memory when the last call
\* that wrote it is over and no other write of it was under way meanwhile.
THEOREM MemoriesCorrect == Spec => []MemoriesAgree
<1> DEFINE Inv == /\ CastInv /\ CallType /\ MemoryType
                  /\ NoDuplicates /\ IndexesAgree /\ VectorInv
<1>1. Init => Inv
  <2> SUFFICES ASSUME Init PROVE VectorInv
    BY StoreStart
  <2>1. /\ \A c \in Call : calls[c].id = NoRow
        /\ \A id \in DOMAIN memories : id # NoRow
    BY StoreStart DEF MemoryType
  <2>2. \A id \in DOMAIN memories : Current_(id)
    BY DEF Init, MemoryInit, Current_
  <2> QED BY <2>1, <2>2 DEF VectorInv, WriterInv, TextInv, EmbeddedInv, DoneInv
<1>2. Inv /\ [Next]_vars => Inv'
  BY CastKept, StoreKept, RowsKept, VectorKept
<1>3. Inv => MemoriesAgree
  BY VectorInvIsEnough DEF MemoriesAgree
<1> QED BY <1>1, <1>2, <1>3, PTL DEF Spec

-----------------------------------------------------------------------------
\* What a call has selected to forget was in its scope when it was selected,
\* and is now, unless it was written since.
Scoped(c, id) ==
  /\ calls[c].req.tags \subseteq memories[id].tags
  /\ calls[c].req.ids # {} => id \in calls[c].req.ids
  /\ memories[id].key = KeyOf(memories[id].key.scope, calls[c].req.src)
ForgetInv ==
  \A c \in Call : calls[c].pc = "delete" =>
    \A id \in calls[c].ids \cap DOMAIN memories :
      memories[id].at <= calls[c].at => Scoped(c, id)

LEMMA SelectionScoped ==
  ASSUME CallType, NEW c \in Call, SelectForgotten(c)
  PROVE  \A id \in calls'[c].ids \cap DOMAIN memories' : Scoped(c, id)'
<1>1. /\ calls'[c].ids = Selected(calls[c].req) /\ calls'[c].req = calls[c].req
      /\ UNCHANGED memories
  <2>1. CallRow(calls[c]) /\ c \in DOMAIN calls
    BY DEF CallType, CallOk
  <2> DEFINE ids == Selected(calls[c].req)
             pc == IF ids = {} THEN "done" ELSE "delete"
  <2>2. /\ calls' = [calls EXCEPT ![c].pc = pc, ![c].ids = ids, ![c].at = clock]
        /\ UNCHANGED memories
    BY DEF SelectForgotten, Req
  <2> HIDE DEF ids, pc
  <2>3. calls'[c].ids = ids /\ calls'[c].req = calls[c].req
    BY <2>1, <2>2 DEF CallRow
  <2> QED BY <2>2, <2>3 DEF ids
<1> QED BY <1>1 DEF Selected, Visible, Scoped

LEMMA ForgetKept ==
  ASSUME CastInv, CallType, MemoryType, ForgetInv, [Next]_vars
  PROVE  ForgetInv'
<1>1. ASSUME NEW ids, DeleteMemories(ids), UNCHANGED <<calls, clock>>
      PROVE  ForgetInv'
  BY <1>1 DEF DeleteMemories, Without, ForgetInv, Scoped
<1>2. CASE UNCHANGED memoryVars
  BY <1>2 DEF memoryVars, ForgetInv, Scoped
<1>3. ASSUME NEW c \in Call, CallStep(c)
      PROVE  ForgetInv'
  <2>1. /\ \A d \in Call \ {c} : calls'[d] = calls[d]
        /\ Goes(c) \/ Stores(c) \/ Forgets(c) \/ \E id, row : Writes(c, id, row)
        /\ Begins(c) \/ Continues(c)
    BY <1>3, Effects
  <2>2. ASSUME NEW d \in Call \ {c}, calls[d].pc = "delete",
               NEW id \in calls[d].ids \cap DOMAIN memories',
               memories'[id].at <= calls[d].at
        PROVE  Scoped(d, id)'
    <3>1. calls'[d] = calls[d] /\ calls[d].at \in 0 .. clock /\ clock \in Nat
      BY <2>1 DEF CallType, CallOk, MemoryType
    <3>2. id \in DOMAIN memories /\ memories'[id] = memories[id]
      <4>1. CASE Goes(c) \/ Stores(c) \/ Forgets(c)
        BY <4>1 DEF Goes, Stores, Forgets, DeleteMemories, Without
      <4>2. ASSUME NEW x, NEW row, Writes(c, x, row)
            PROVE  id \in DOMAIN memories /\ memories'[id] = memories[id]
        <5> DEFINE n == [row EXCEPT !.at = clock + 1]
        <5>1. memories' = With(memories, x, n) /\ MemoryRow(row)
          BY <4>2 DEF Writes
        <5>2. n.at = clock + 1
          BY <5>1 DEF MemoryRow
        <5> HIDE DEF n
        <5> QED BY <2>2, <3>1, <5>1, <5>2 DEF With
      <4> QED BY <2>1, <4>1, <4>2
    <3> QED BY <2>2, <3>1, <3>2 DEF ForgetInv, Scoped
  <2>3. ASSUME calls'[c].pc = "delete"
        PROVE  \A id \in calls'[c].ids \cap DOMAIN memories' : Scoped(c, id)'
    <3>1. ~Begins(c)
      <4>1. DOMAIN calls = Call /\ CallRow(calls[c])
        BY DEF CallType, CallOk
      <4>2. ASSUME NEW req \in Request, BeginCall(c, req) PROVE FALSE
        <5>1. PICK t : calls' = [calls EXCEPT ![c].pc = req.op, ![c].by = t, ![c].req = req]
          BY <4>2 DEF BeginCall
        <5> QED BY <2>3, <4>1, <5>1 DEF CallRow
      <4> QED BY <4>2 DEF Begins
    <3> QED BY <2>1, <2>3, <3>1, SelectionScoped DEF Continues
  <2> QED BY <2>1, <2>2, <2>3 DEF ForgetInv
<1> QED BY <1>1, <1>2, <1>3, MemorySteps

\* What is forgotten had every tag that the call named, was one of the ids it
\* named and belonged to where the call came from, unless it was written after
\* the call had selected it (store.go:2580-2648).
THEOREM ForgetsWhatItMay == Spec => ForgetIsScoped
<1> DEFINE IInv == CastInv /\ CallType /\ MemoryType /\ ForgetInv
<1>1. Init => IInv
  BY StoreStart DEF ForgetInv
<1>2. IInv /\ [Next]_vars => IInv'
  BY CastKept, StoreKept, ForgetKept
<1>3. ASSUME IInv, [Next]_vars,
             NEW c \in Call, NEW id \in DOMAIN memories,
             CallAt(c, "delete"), calls'[c].pc = "done", id \notin DOMAIN memories',
             memories[id].at <= calls[c].at
      PROVE  Scoped(c, id)
  <2>1. CallStep(c)
    <3>1. ASSUME NEW d \in Call, d # c, CallStep(d) PROVE FALSE
      BY <1>3, <3>1, Effects DEF CallAt
    <3> QED BY <1>3, <3>1, MemorySteps DEF CallAt, memoryVars
  <2>2. Goes(c) \/ Stores(c) \/ Forgets(c) \/ \E x, row : Writes(c, x, row)
    BY <1>3, <2>1, Effects
  <2>3. Forgets(c)
    BY <1>3, <2>2 DEF Goes, Stores, Writes, CallAt
  <2>4. id \in calls[c].ids
    BY <1>3, <2>3 DEF Forgets, DeleteMemories, Without
  <2> QED BY <1>3, <2>4 DEF ForgetInv, CallAt
<1> DEFINE A == \A c \in Call, id \in DOMAIN memories :
       /\ CallAt(c, "delete") /\ calls'[c].pc = "done" /\ id \notin DOMAIN memories'
       /\ memories[id].at <= calls[c].at
       => /\ Req(c).tags \subseteq memories[id].tags
          /\ Req(c).ids # {} => id \in Req(c).ids
          /\ memories[id].key = KeyOf(memories[id].key.scope, Req(c).src)
<1>4. IInv /\ [Next]_vars => [A]_memoryVars
  <2> SUFFICES ASSUME IInv, [Next]_vars PROVE A
    OBVIOUS
  <2> QED BY <1>3 DEF Scoped, Req
<1>5. ForgetIsScoped <=> [][A]_memoryVars
  BY PTL DEF ForgetIsScoped
<1> HIDE DEF IInv, A
<1> QED BY <1>1, <1>2, <1>4, <1>5, PTL DEF Spec

-----------------------------------------------------------------------------
(* Searching: the embeddings are sorted by their rank.                     *)

Strict(R, S) ==
  /\ \A a \in S : <<a, a>> \notin R
  /\ \A a, b \in S : a = b \/ <<a, b>> \in R \/ <<b, a>> \in R
  /\ \A a, b, c \in S : <<a, b>> \in R /\ <<b, c>> \in R => <<a, c>> \in R
Ahead(R, S, e) == {o \in S : <<o, e>> \in R}
RankIn(R, S, e) == Cardinality(Ahead(R, S, e))

\* In a finite set with a strict order, every rank is taken, by one element.
Ranked(R, S) ==
  /\ Cardinality(S) \in Nat
  /\ \A a \in S : RankIn(R, S, a) \in 0 .. Cardinality(S) - 1
  /\ \A a, b \in S : <<a, b>> \in R <=> RankIn(R, S, a) < RankIn(R, S, b)
  /\ \A k \in 0 .. Cardinality(S) - 1 : \E a \in S : RankIn(R, S, a) = k
LEMMA Ranks == ASSUME NEW S, IsFiniteSet(S), NEW R, Strict(R, S) PROVE Ranked(R, S)
<1> DEFINE n == Cardinality(S)
           f == [a \in S |-> RankIn(R, S, a)]
<1>1. n \in Nat
  BY FS_CardinalityType
<1>2. ASSUME NEW a \in S
      PROVE  /\ IsFiniteSet(Ahead(R, S, a)) /\ RankIn(R, S, a) \in 0 .. n - 1
  <2>1. Ahead(R, S, a) \in SUBSET S /\ a \notin Ahead(R, S, a)
    BY DEF Ahead, Strict
  <2>2. /\ IsFiniteSet(Ahead(R, S, a)) /\ Cardinality(Ahead(R, S, a)) <= n
        /\ Cardinality(Ahead(R, S, a)) # n
    BY <2>1, FS_Subset
  <2>3. Cardinality(Ahead(R, S, a)) \in Nat
    BY <2>2, FS_CardinalityType
  <2> HIDE DEF n
  <2> QED BY <1>1, <2>2, <2>3 DEF RankIn
<1>3. ASSUME NEW a \in S, NEW b \in S, <<a, b>> \in R
      PROVE  RankIn(R, S, a) < RankIn(R, S, b)
  <2>1. /\ Ahead(R, S, a) \in SUBSET Ahead(R, S, b)
        /\ a \in Ahead(R, S, b) /\ a \notin Ahead(R, S, a)
    BY <1>3 DEF Ahead, Strict
  <2>2. /\ Cardinality(Ahead(R, S, a)) <= Cardinality(Ahead(R, S, b))
        /\ Cardinality(Ahead(R, S, a)) # Cardinality(Ahead(R, S, b))
    BY <1>2, <2>1, FS_Subset
  <2> QED BY <1>1, <1>2, <2>2 DEF RankIn
<1>4. ASSUME NEW a \in S, NEW b \in S, RankIn(R, S, a) < RankIn(R, S, b)
      PROVE  <<a, b>> \in R
  <2>1. RankIn(R, S, a) \in Int /\ RankIn(R, S, b) \in Int
    BY <1>2
  <2>2. a # b /\ <<b, a>> \notin R
    BY <1>3, <1>4, <2>1
  <2> QED BY <2>2 DEF Strict
<1>5. \A a, b \in S : RankIn(R, S, a) = RankIn(R, S, b) => a = b
  <2> SUFFICES ASSUME NEW a \in S, NEW b \in S, RankIn(R, S, a) = RankIn(R, S, b) PROVE a = b
    OBVIOUS
  <2>1. RankIn(R, S, a) \in Int /\ <<a, b>> \notin R /\ <<b, a>> \notin R
    BY <1>2, <1>3
  <2> QED BY <2>1 DEF Strict
<1>6. f \in Injection(S, 0 .. n - 1)
  <2>1. f \in [S -> 0 .. n - 1] /\ \A a, b \in S : f[a] = f[b] => a = b
    BY <1>2, <1>5
  <2> HIDE DEF f, n
  <2> QED BY <2>1 DEF Injection, IsInjective
<1>7. IsFiniteSet(0 .. n - 1) /\ Cardinality(0 .. n - 1) = n
  <2>1. 0 \in Int /\ n - 1 \in Int
    BY <1>1
  <2>2. IsFiniteSet(0 .. n - 1) /\ Cardinality(0 .. n - 1) = IF 0 > n - 1 THEN 0 ELSE n - 1 - 0 + 1
    BY <2>1, FS_Interval
  <2> QED BY <1>1, <2>2
<1>8. f \in Surjection(S, 0 .. n - 1)
  BY <1>6, <1>7, FS_Injection
<1>9. \A k \in 0 .. n - 1 : \E a \in S : RankIn(R, S, a) = k
  BY <1>8 DEF Surjection
<1> QED BY <1>1, <1>2, <1>3, <1>4, <1>9 DEF Ranked

\* There are finitely many memories, each of its own time; embeddings have places.
PlacedInv ==
  /\ IsFiniteSet(DOMAIN memories)
  /\ \A a, b \in DOMAIN memories : memories[a].at = memories[b].at => a = b
  /\ \A id \in DOMAIN vectors : vectors[id].content.point \in Int

LEMMA PlacedStart == ASSUME Init PROVE PlacedInv
<1> USE SeedAssumption
<1>1. IsFiniteSet({s.id : s \in Seed})
  <2>1. [s \in Seed |-> s.id] \in Surjection(Seed, {s.id : s \in Seed})
    BY DEF Surjection
  <2> QED BY <2>1, FS_Surjection
<1> DEFINE first(id) == CHOOSE s \in Seed : s.id = id
<1>2. ASSUME NEW id \in DOMAIN memories
      PROVE  /\ first(id) \in Seed /\ first(id).id = id
             /\ memories[id] = Seeded(first(id)) /\ vectors[id] = Text(memories[id])
  BY DEF Init, MemoryInit
<1> HIDE DEF first
<1>3. DOMAIN memories = {s.id : s \in Seed} /\ DOMAIN vectors = DOMAIN memories
  BY DEF Init, MemoryInit
<1>4. \A a, b \in DOMAIN memories : memories[a].at = memories[b].at => a = b
  BY <1>2 DEF Seeded
<1>5. ASSUME NEW id \in DOMAIN vectors PROVE vectors[id].content.point \in Int
  <2>1. PICK s \in Seed : memories[id] = Seeded(s) /\ vectors[id] = Text(memories[id])
    BY <1>2, <1>3
  <2>2. vectors[id].content = s.content
    BY <2>1 DEF Seeded, Text
  <2> QED BY <2>2
<1> QED BY <1>1, <1>3, <1>4, <1>5 DEF PlacedInv

LEMMA PlacedKept ==
  ASSUME CastInv, CallType, MemoryType, PlacedInv, [Next]_vars
  PROVE  PlacedInv'
<1>1. ASSUME NEW ids, DeleteMemories(ids) PROVE PlacedInv'
  <2>1. DOMAIN memories' \subseteq DOMAIN memories
    BY <1>1 DEF DeleteMemories, Without
  <2>2. IsFiniteSet(DOMAIN memories')
    BY <2>1, FS_Subset DEF PlacedInv
  <2> QED BY <1>1, <2>2 DEF DeleteMemories, Without, PlacedInv
<1>2. CASE UNCHANGED <<memories, fts, vectors>>
  BY <1>2 DEF PlacedInv
<1>3. ASSUME NEW c \in Call, Stores(c) PROVE PlacedInv'
  <2>1. calls[c].text.content.point \in Int
    BY <1>3 DEF CallType, CallOk, Stores
  <2> QED BY <1>3, <2>1 DEF Stores, With, PlacedInv
<1>4. ASSUME NEW c \in Call, NEW id, NEW row, Writes(c, id, row) PROVE PlacedInv'
  <2> DEFINE new == [row EXCEPT !.at = clock + 1]
  <2>1. memories' = With(memories, id, new) /\ UNCHANGED vectors /\ new.at = clock + 1
    BY <1>4 DEF Writes, MemoryRow
  <2> HIDE DEF new
  <2>2. /\ DOMAIN memories' = DOMAIN memories \cup {id}
        /\ memories'[id] = new /\ \A x \in DOMAIN memories \ {id} : memories'[x] = memories[x]
    BY <2>1 DEF With
  <2>3. IsFiniteSet(DOMAIN memories')
    BY <2>2, FS_AddElement DEF PlacedInv
  <2>4. clock \in Nat /\ \A x \in DOMAIN memories : memories[x].at \in 1 .. clock
    BY DEF MemoryType
  <2>5. \A x \in DOMAIN memories : memories[x].at # new.at
    BY <2>1, <2>4
  <2>6. \A a, b \in DOMAIN memories' : memories'[a].at = memories'[b].at => a = b
    BY <2>2, <2>5 DEF PlacedInv
  <2> QED BY <2>1, <2>3, <2>6 DEF PlacedInv
<1>5. ASSUME NEW c \in Call, CallStep(c) PROVE PlacedInv'
  BY <1>1, <1>2, <1>3, <1>4, <1>5, Effects DEF Goes, Forgets
<1> QED BY <1>1, <1>2, <1>5, MemorySteps DEF memoryVars

\* Of two embedded memories one is nearer than the other.
LEMMA NearerOrder ==
  ASSUME MemoryType, IndexesAgree, PlacedInv, NEW q, q.point \in Int,
         NEW a \in DOMAIN vectors, NEW b \in DOMAIN vectors, NEW c \in DOMAIN vectors
  PROVE  /\ ~Nearer(q, a, a)
         /\ a = b \/ Nearer(q, a, b) \/ Nearer(q, b, a)
         /\ Nearer(q, a, b) /\ Nearer(q, b, c) => Nearer(q, a, c)
<1>1. Distance(a, q) \in Int /\ Distance(b, q) \in Int /\ Distance(c, q) \in Int
  <2>1. ASSUME NEW x \in DOMAIN vectors PROVE Distance(x, q) \in Int
    BY DEF Distance, PlacedInv
  <2> QED BY <2>1
<1>2. a \in DOMAIN memories /\ b \in DOMAIN memories /\ c \in DOMAIN memories
  BY DEF IndexesAgree
<1>3. /\ memories[a].at \in Int /\ memories[b].at \in Int /\ memories[c].at \in Int
      /\ memories[a].pinned \in BOOLEAN /\ memories[b].pinned \in BOOLEAN
      /\ memories[c].pinned \in BOOLEAN
      /\ memories[a].at = memories[b].at => a = b
  BY <1>2 DEF MemoryType, Ranges, PlacedInv
<1>4. /\ ~Newer(a, a)
      /\ a = b \/ Newer(a, b) \/ Newer(b, a)
      /\ Newer(a, b) /\ Newer(b, c) => Newer(a, c)
  BY <1>3 DEF Newer
<1> QED BY <1>1, <1>4 DEF Nearer

\* A list has every member of the set once, the nearest first, each at its rank.
NearestFirst(q, ids, list) ==
  /\ Cardinality(ids) \in Nat /\ list \in [1 .. Cardinality(ids) -> ids]
  /\ \A id \in ids : \E i \in 1 .. Cardinality(ids) : list[i] = id
  /\ \A i \in 1 .. Cardinality(ids) :
       Cardinality({other \in ids : Nearer(q, other, list[i])}) = i - 1
  /\ \A i, j \in 1 .. Cardinality(ids) : i < j => Nearer(q, list[i], list[j])

LEMMA ByDistanceSorts ==
  ASSUME MemoryType, IndexesAgree, PlacedInv, NEW q, q.point \in Int,
         NEW ids \in SUBSET DOMAIN vectors
  PROVE  NearestFirst(q, ids, ByDistance(q, ids))
<1>1. IsFiniteSet(ids)
  BY FS_Subset DEF IndexesAgree, PlacedInv
<1>2. PICK R : R = {x \in ids \X ids : Nearer(q, x[1], x[2])}
  OBVIOUS
<1>3. \A a, b \in ids : <<a, b>> \in R <=> Nearer(q, a, b)
  BY <1>2
<1>4. Strict(R, ids)
  <2>1. ASSUME NEW a \in ids, NEW b \in ids, NEW c \in ids
        PROVE  /\ ~Nearer(q, a, a)
               /\ a = b \/ Nearer(q, a, b) \/ Nearer(q, b, a)
               /\ Nearer(q, a, b) /\ Nearer(q, b, c) => Nearer(q, a, c)
    <3>1. a \in DOMAIN vectors /\ b \in DOMAIN vectors /\ c \in DOMAIN vectors
      OBVIOUS
    <3> QED BY <3>1, NearerOrder
  <2> QED BY <1>3, <2>1 DEF Strict
<1>5. PICK n : n = Cardinality(ids)
  OBVIOUS
<1>6. /\ n \in Nat
      /\ \A a, b \in ids : <<a, b>> \in R <=> RankIn(R, ids, a) < RankIn(R, ids, b)
      /\ \A a \in ids : RankIn(R, ids, a) \in 0 .. n - 1
      /\ \A k \in 0 .. n - 1 : \E a \in ids : RankIn(R, ids, a) = k
  <2>1. Ranked(R, ids)
    BY <1>1, <1>4, Ranks
  <2> QED BY <1>5, <2>1 DEF Ranked
<1>7. \A id \in ids : {other \in ids : Nearer(q, other, id)} = Ahead(R, ids, id)
  BY <1>3 DEF Ahead
<1>8. PICK list : list = ByDistance(q, ids)
  OBVIOUS
<1>9. /\ DOMAIN list = 1 .. n
      /\ (\A i \in 1 .. n : list[i] \in ids) => list \in [1 .. n -> ids]
      /\ \A i \in 1 .. n :
           list[i] = CHOOSE id \in ids : Cardinality({o \in ids : Nearer(q, o, id)}) = i - 1
  <2>1. list = [i \in 1 .. n |->
                  CHOOSE id \in ids : Cardinality({o \in ids : Nearer(q, o, id)}) = i - 1]
    BY <1>5, <1>8 DEF ByDistance
  <2>2. PICK F : F = [i \in 1 .. n |->
                        CHOOSE id \in ids : Cardinality({o \in ids : Nearer(q, o, id)}) = i - 1]
    OBVIOUS
  <2>3. list = F /\ DOMAIN F = 1 .. n
    BY <2>1, <2>2
  <2>4. \A i \in 1 .. n :
          F[i] = CHOOSE id \in ids : Cardinality({o \in ids : Nearer(q, o, id)}) = i - 1
    BY <2>2
  <2>5. (\A i \in 1 .. n : F[i] \in ids) => F \in [1 .. n -> ids]
    BY <2>2
  <2> QED BY <2>3, <2>4, <2>5
<1>10. ASSUME NEW i \in 1 .. n
       PROVE  /\ list[i] \in ids /\ RankIn(R, ids, list[i]) = i - 1
              /\ Cardinality({o \in ids : Nearer(q, o, list[i])}) = i - 1
  <2>1. i - 1 \in 0 .. n - 1
    BY <1>6
  <2>2. PICK a \in ids : RankIn(R, ids, a) = i - 1
    BY <1>6, <2>1
  <2>3. Cardinality({o \in ids : Nearer(q, o, a)}) = i - 1
    BY <1>7, <2>2 DEF RankIn
  <2>4. list[i] \in ids /\ Cardinality({o \in ids : Nearer(q, o, list[i])}) = i - 1
    BY <1>9, <2>3
  <2> QED BY <1>7, <2>4 DEF RankIn
<1>11. ASSUME NEW j \in 1 .. n, NEW k \in 1 .. n, j < k
       PROVE  Nearer(q, list[j], list[k])
  <2>1. RankIn(R, ids, list[j]) = j - 1 /\ RankIn(R, ids, list[k]) = k - 1
    BY <1>10
  <2>2. j - 1 < k - 1
    BY <1>6, <1>11
  <2>3. RankIn(R, ids, list[j]) < RankIn(R, ids, list[k])
    BY <2>1, <2>2
  <2> QED BY <1>3, <1>6, <1>10, <2>3
<1>12. ASSUME NEW id \in ids PROVE \E i \in 1 .. n : list[i] = id
  <2>1. PICK k : k = RankIn(R, ids, id)
    OBVIOUS
  <2>2. k \in 0 .. n - 1 /\ k + 1 \in 1 .. n /\ k + 1 - 1 = k
    BY <1>6, <2>1
  <2>7. PICK i \in 1 .. n : i = k + 1
    BY <2>2
  <2>6. RankIn(R, ids, list[i]) = i - 1 /\ list[i] \in ids
    BY <1>10
  <2>3. RankIn(R, ids, list[k + 1]) = k /\ list[k + 1] \in ids
    BY <2>2, <2>6, <2>7
  <2>4. <<id, list[k + 1]>> \notin R /\ <<list[k + 1], id>> \notin R
    BY <1>6, <2>1, <2>2, <2>3
  <2>5. list[k + 1] = id
    BY <1>4, <2>3, <2>4 DEF Strict
  <2> QED BY <2>2, <2>5
<1>13. list \in [1 .. n -> ids]
  BY <1>9, <1>10
<1> QED BY <1>5, <1>6, <1>8, <1>10, <1>11, <1>12, <1>13 DEF NearestFirst

\* The first of a list are its first members, all of them when they are few.
LEMMA FirstOfSorted ==
  ASSUME NEW q, NEW ids, NEW list, NearestFirst(q, ids, list), NEW n \in Nat
  PROVE  /\ Len(FirstOf(n, list)) \in 0 .. n
         /\ \A id \in ids : \/ id \in ToSet(FirstOf(n, list))
                            \/ \E i \in n + 1 .. Cardinality(ids) : list[i] = id
         /\ \A id \in ToSet(FirstOf(n, list)) :
              \E i \in 1 .. n : i <= Cardinality(ids) /\ list[i] = id
         /\ Len(FirstOf(n, list)) = IF Cardinality(ids) < n THEN Cardinality(ids) ELSE n
<1>1. PICK m : m = Cardinality(ids)
  OBVIOUS
<1>2. m \in Nat /\ list \in [1 .. m -> ids] /\ \A id \in ids : \E i \in 1 .. m : list[i] = id
  BY <1>1 DEF NearestFirst
<1>3. list \in Seq(ids) /\ Len(list) = m
  BY <1>2
<1>4. PICK k : k = IF m < n THEN m ELSE n
  OBVIOUS
<1>5. PICK firsts : firsts = FirstOf(n, list)
  OBVIOUS
<1>6. firsts = SubSeq(list, 1, k) /\ k \in Nat /\ k <= m /\ k <= n
  BY <1>2, <1>3, <1>4, <1>5 DEF FirstOf
<1>7. Len(firsts) = k /\ DOMAIN firsts = 1 .. k /\ \A i \in 1 .. k : firsts[i] = list[i]
  BY <1>2, <1>3, <1>6
<1>8. ToSet(firsts) = {list[i] : i \in 1 .. k}
  BY <1>7 DEF ToSet
<1>9. ASSUME NEW id \in ids, id \notin ToSet(firsts)
      PROVE  \E i \in n + 1 .. m : list[i] = id
  <2>1. PICK i \in 1 .. m : list[i] = id
    BY <1>2
  <2>2. i > k
    BY <1>2, <1>6, <1>8, <1>9, <2>1
  <2>3. i \in n + 1 .. m
    BY <1>2, <1>4, <2>2
  <2> QED BY <2>1, <2>3
<1>10. ASSUME NEW id \in ToSet(firsts) PROVE \E i \in 1 .. n : i <= m /\ list[i] = id
  <2>1. PICK i \in 1 .. k : list[i] = id
    BY <1>8
  <2>2. i \in 1 .. n /\ i <= m
    BY <1>2, <1>6
  <2> QED BY <2>1, <2>2
<1> QED BY <1>1, <1>2, <1>4, <1>5, <1>6, <1>7, <1>9, <1>10

\* What the nearest list leaves out
LEMMA NearestFound ==
  ASSUME MemoryType, IndexesAgree, PlacedInv, NEW q, q.point \in Int, NEW src,
         NEW id \in DOMAIN vectors, Match(q, memories[id], src),
         NEW list, list = Nearest(q, src), id \notin ToSet(list)
  PROVE  \/ Cardinality({other \in DOMAIN vectors : Nearer(q, other, id)}) >= 3 * Limit
         \/ Len(list) = Limit /\ \A other \in ToSet(list) : Nearer(q, other, id)
<1>1. PICK all : all = ByDistance(q, DOMAIN vectors)
  OBVIOUS
<1>2. PICK near : near = FirstOf(Fetch, all)
  OBVIOUS
<1>3. PICK ids : ids = {x \in ToSet(near) : Match(q, memories[x], src)}
  OBVIOUS
<1>4. PICK sorted : sorted = ByDistance(q, ids)
  OBVIOUS
<1>5. list = FirstOf(Limit, sorted)
  BY <1>1, <1>2, <1>3, <1>4 DEF Nearest
<1>6. Fetch \in Nat /\ Fetch >= 3 * Limit
  BY DEF Fetch
<1>7. NearestFirst(q, DOMAIN vectors, all)
  BY <1>1, ByDistanceSorts
<1>8. PICK n : n = Cardinality(DOMAIN vectors)
  OBVIOUS
<1>9. /\ n \in Nat /\ all \in [1 .. n -> DOMAIN vectors]
      /\ \A i \in 1 .. n : Cardinality({o \in DOMAIN vectors : Nearer(q, o, all[i])}) = i - 1
  BY <1>7, <1>8 DEF NearestFirst
<1>10. /\ id \in ToSet(near) \/ \E i \in Fetch + 1 .. n : all[i] = id
       /\ \A x \in ToSet(near) : \E i \in 1 .. Fetch : i <= n /\ all[i] = x
  <2> HIDE DEF Fetch
  <2> QED BY <1>2, <1>6, <1>7, <1>8, FirstOfSorted
<1>11. CASE \E i \in Fetch + 1 .. n : all[i] = id
  <2> PICK i \in Fetch + 1 .. n : all[i] = id
    BY <1>11
  <2>1. i \in 1 .. n /\ i - 1 >= 3 * Limit
    BY <1>6, <1>9
  <2> QED BY <1>9, <2>1
<1>12. CASE id \in ToSet(near)
  <2>1. ids \in SUBSET DOMAIN vectors
    BY <1>3, <1>9, <1>10
  <2>2. NearestFirst(q, ids, sorted)
    BY <1>4, <2>1, ByDistanceSorts
  <2>3. PICK m : m = Cardinality(ids)
    OBVIOUS
  <2>4. /\ id \in ToSet(list) \/ \E i \in Limit + 1 .. m : sorted[i] = id
        /\ \A x \in ToSet(list) : \E i \in 1 .. Limit : i <= m /\ sorted[i] = x
        /\ Len(list) = IF m < Limit THEN m ELSE Limit
    <3>1. id \in ids /\ Limit \in Nat
      BY <1>3, <1>12
    <3>2. \/ id \in ToSet(FirstOf(Limit, sorted))
          \/ \E i \in Limit + 1 .. Cardinality(ids) : sorted[i] = id
      BY <2>2, <3>1, FirstOfSorted
    <3>3. \A x \in ToSet(FirstOf(Limit, sorted)) :
            \E i \in 1 .. Limit : i <= Cardinality(ids) /\ sorted[i] = x
      BY <2>2, <3>1, FirstOfSorted
    <3>4. Len(FirstOf(Limit, sorted)) =
            IF Cardinality(ids) < Limit THEN Cardinality(ids) ELSE Limit
      BY <2>2, <3>1, FirstOfSorted
    <3> QED BY <1>5, <2>3, <3>2, <3>3, <3>4
  <2>5. PICK i \in Limit + 1 .. m : sorted[i] = id
    BY <2>4
  <2>6. m \in Nat /\ \A j, k \in 1 .. m : j < k => Nearer(q, sorted[j], sorted[k])
    BY <2>2, <2>3 DEF NearestFirst
  <2>7. ASSUME NEW x \in ToSet(list) PROVE Nearer(q, x, id)
    <3>1. PICK j \in 1 .. Limit : j <= m /\ sorted[j] = x
      BY <2>4
    <3>2. j \in 1 .. m /\ i \in 1 .. m /\ j < i
      BY <2>6, <3>1
    <3> QED BY <2>5, <2>6, <3>1, <3>2
  <2> QED BY <2>4, <2>5, <2>6, <2>7
<1> QED BY <1>10, <1>11, <1>12

\* A memory the caller may see that the nearest list leaves out is farther from
\* the query than a full fetch of embeddings, or than all of a full list.
THEOREM SearchesFind == Spec => SearchFindsNearest
<1> DEFINE IInv == /\ CastInv /\ CallType /\ MemoryType
                   /\ NoDuplicates /\ IndexesAgree /\ PlacedInv
           A == \A c \in Call :
                  LET list == calls'[c].near IN
                  CallAt(c, "nearest") /\ calls'[c].pc \in {"found", "recent"} /\ list # NoRow =>
                    \A id \in DOMAIN vectors \ ToSet(list) :
                      Match(Req(c), memories[id], Req(c).src) =>
                        \/ Cardinality({other \in DOMAIN vectors : Nearer(Req(c), other, id)})
                             >= 3 * Limit
                        \/ /\ Len(list) = Limit
                           /\ \A other \in ToSet(list) : Nearer(Req(c), other, id)
<1>1. Init => IInv
  BY StoreStart, PlacedStart
<1>2. IInv /\ [Next]_vars => IInv'
  BY CastKept, StoreKept, RowsKept, PlacedKept
<1>3. ASSUME IInv, [Next]_vars, NEW c \in Call, calls[c].pc = "nearest",
             calls'[c].pc \in {"found", "recent"}, calls'[c].near # NoRow
      PROVE  calls'[c].near = Nearest(calls[c].req, calls[c].req.src)
  <2>1. calls'[c] # calls[c]
    BY <1>3
  <2>2. ASSUME NEW d \in Call, CallStep(d) PROVE d = c
    <3>1. \A o \in Call \ {d} : calls'[o] = calls[o]
      BY <1>3, <2>2, Effects
    <3> QED BY <2>1, <3>1
  <2>3. CallStep(c)
    BY <1>3, <2>1, <2>2, MemorySteps DEF memoryVars
  <2>4. SearchVectors(c)
    BY <1>3, <2>3 DEF CallStep, CallAt, BeginCall, RememberMemory, UpdateMemory,
         CompleteOnboarding, Embed, UpsertMemoryEmbedding, SelectForgotten, ForgetMemories,
         EmbedQuery, SearchFTS, RecentMemories
  <2>5. CallRow(calls[c]) /\ DOMAIN calls = Call
    BY <1>3 DEF CallType, CallOk
  <2> DEFINE r == calls[c].req
             near == IF calls[c].near = NoRow THEN <<>> ELSE Nearest(r, r.src)
             none == calls[c].found = <<>> /\ near = <<>>
             pc == IF none /\ (r.terms = {} \/ r.fallback) THEN "recent" ELSE "found"
             kept == IF calls[c].near = NoRow THEN NoRow ELSE near
             found == Fused(calls[c].found, near, Joined(calls[c].rows, Rows(near)))
  <2>6. \/ calls' = [calls EXCEPT ![c].pc = "lexical", ![c].near = NoRow]
        \/ calls' = [calls EXCEPT ![c].pc = pc, ![c].near = kept, ![c].found = found]
    BY <2>4, Zenon DEF SearchVectors, Req
  <2>7. kept # NoRow => kept = Nearest(r, r.src)
    OBVIOUS
  <2> HIDE DEF pc, kept, found, none, near
  <2>8. calls' # [calls EXCEPT ![c].pc = "lexical", ![c].near = NoRow]
    BY <1>3, <2>5 DEF CallRow
  <2>9. calls'[c].near = kept
    BY <2>5, <2>6, <2>8 DEF CallRow
  <2> QED BY <1>3, <2>7, <2>9 DEF r
<1>4. IInv /\ [Next]_vars => [A]_memoryVars
  <2> SUFFICES ASSUME IInv, [Next]_vars, NEW c \in Call, calls[c].pc = "nearest",
                      calls'[c].pc \in {"found", "recent"}, calls'[c].near # NoRow,
                      NEW id \in DOMAIN vectors \ ToSet(calls'[c].near),
                      Match(calls[c].req, memories[id], calls[c].req.src)
               PROVE  \/ Cardinality({other \in DOMAIN vectors :
                                        Nearer(calls[c].req, other, id)}) >= 3 * Limit
                      \/ /\ Len(calls'[c].near) = Limit
                         /\ \A other \in ToSet(calls'[c].near) : Nearer(calls[c].req, other, id)
    BY DEF CallAt, Req
  <2>1. PICK q : q = calls[c].req
    OBVIOUS
  <2>2. q \in Request /\ q.point \in Int
    BY <2>1, ContentAssumption DEF CallType, CallOk
  <2>3. PICK list : list = calls'[c].near
    OBVIOUS
  <2>4. list = Nearest(q, q.src)
    BY <1>3, <2>1, <2>3
  <2> QED BY <2>1, <2>2, <2>3, <2>4, NearestFound
<1>5. SearchFindsNearest <=> [][A]_memoryVars
  BY PTL DEF SearchFindsNearest
<1> HIDE DEF IInv, A
<1> QED BY <1>1, <1>2, <1>4, <1>5, PTL DEF Spec

-----------------------------------------------------------------------------
\* The onboarding
Status == {"none", "prompted", "completed", "skipped"}
OnbRow(r) == r = [pc |-> r.pc, said |-> r.said, source |-> r.source] /\ r.said \in Said
OnbType ==
  /\ DOMAIN onb = Task /\ \A t \in Task : OnbRow(onb[t])
  /\ onboarding \in Status /\ disturbed \in BOOLEAN

\* What a task does as long as nothing is disturbed
Keeps(t, from, to) ==
  onb[t].pc = from /\ onb'[t].pc = to /\ onb'[t].source = onb[t].source
Moves(t) ==
  \/ /\ Keeps(t, "idle", "prepare") /\ UNCHANGED onboarding
     /\ \A u \in Task \ {t} : ~Onboarding(u)
  \/ /\ onb[t].pc = "prepare" /\ UNCHANGED onboarding
     /\ \/ onb'[t].pc = "prompt" /\ onb'[t].source = "command"
        \/ onb'[t].pc = "prompt" /\ onb'[t].source = "automatic" /\ onboarding = "none"
        \/ onb'[t].pc = "agent" /\ onb'[t].source = "none"
        \/ onb'[t].pc = "agent" /\ onb'[t].source = "answer" /\ onboarding = "prompted"
  \/ Keeps(t, "prompt", "agent") /\ onboarding' = "prompted"
  \/ /\ onb[t].pc = "prompt" /\ UNCHANGED onboarding
     /\ onb'[t].pc = "prepare" /\ onb'[t].source = "none"
  \/ /\ UNCHANGED onboarding
     /\ \/ Keeps(t, "agent", "finalize") \/ Keeps(t, "agent", "ended")
        \/ Keeps(t, "finalize", "ended") \/ Keeps(t, "skip", "finalize")
        \/ Keeps(t, "finalize", "skip") /\ onboarding = "prompted"
  \/ Keeps(t, "skip", "ended") /\ onboarding' = "skipped"

LEMMA OnboardingMoves ==
  ASSUME OnbType, NEW t \in Task, OnboardingStep(t)
  PROVE  /\ OnbType'
         /\ \A u \in Task \ {t} : onb'[u] = onb[u]
         /\ ~disturbed' => ~disturbed /\ Moves(t)
<1> DEFINE Goal == /\ OnbType'
                   /\ \A u \in Task \ {t} : onb'[u] = onb[u]
                   /\ ~disturbed' => ~disturbed /\ Moves(t)
<1>0. /\ DOMAIN onb = Task /\ OnbRow(onb[t]) /\ onboarding \in Status
      /\ disturbed \in BOOLEAN /\ \A u \in Task : OnbRow(onb[u])
  BY DEF OnbType
<1>1. ASSUME NEW pc, NEW source, Onboard(t, pc, source),
             onboarding' \in Status, disturbed' \in BOOLEAN
      PROVE  /\ OnbType' /\ \A u \in Task \ {t} : onb'[u] = onb[u]
             /\ onb'[t].pc = pc /\ onb'[t].source = source
  BY <1>0, <1>1 DEF Onboard, OnbType, OnbRow
<1> USE DEF OnbAt
<1>2. ASSUME NEW pc, NEW source, NEW again, Answer(t, pc, source, again),
             onboarding' \in Status
      PROVE  /\ OnbType' /\ \A u \in Task \ {t} : onb'[u] = onb[u]
             /\ ~disturbed' => ~disturbed /\ onb'[t].pc = pc /\ onb'[t].source = source
  <2>1. CASE Onboard(t, pc, source) /\ UNCHANGED disturbed
    BY <1>0, <1>1, <1>2, <2>1
  <2>2. CASE Onboard(t, again, onb[t].source) /\ disturbed' = TRUE
    BY <1>0, <1>1, <1>2, <2>2
  <2> QED BY <1>2, <2>1, <2>2 DEF Answer
<1>3. ASSUME NEW said \in Said, BeginOnboarding(t, said) PROVE Goal
  <2>1. /\ onb[t].pc = "idle" /\ UNCHANGED onboarding
        /\ onb' = [onb EXCEPT ![t].pc = "prepare", ![t].said = said]
        /\ disturbed' = (disturbed \/ \E u \in Task \ {t} : Onboarding(u))
    BY <1>3 DEF BeginOnboarding
  <2>2. disturbed' \in BOOLEAN /\ (disturbed' <=> disturbed \/ \E u \in Task \ {t} : Onboarding(u))
    BY <1>0, <2>1
  <2>3. OnbType'
    BY <1>0, <2>1, <2>2 DEF OnbType, OnbRow
  <2>4. Keeps(t, "idle", "prepare") /\ \A u \in Task \ {t} : onb'[u] = onb[u]
    BY <1>0, <2>1 DEF OnbRow, Keeps
  <2> QED BY <2>1, <2>2, <2>3, <2>4 DEF Moves
<1>4. CASE PrepareOnboarding(t)
  <2> DEFINE source == SourceOf(onb[t].said, onboarding)
  <2>1. /\ onb[t].pc = "prepare" /\ UNCHANGED onboarding
        /\ \/ /\ source \in {"command", "automatic"}
              /\ Onboard(t, "prompt", source) /\ UNCHANGED disturbed
           \/ /\ source \notin {"command", "automatic"}
              /\ Answer(t, "agent", source, "prepare")
    BY <1>4 DEF PrepareOnboarding
  <2>2. \/ source \in {"command", "none"}
        \/ source = "automatic" /\ onboarding = "none"
        \/ source = "answer" /\ onboarding = "prompted"
    BY <1>0 DEF OnbRow, Said, SourceOf, Status, Terminal
  <2> HIDE DEF source
  <2> QED BY <1>0, <1>1, <1>2, <2>1, <2>2 DEF Moves
<1>5. CASE MarkPrompted(t)
  <2>1. CASE onboarding' = "prompted" /\ Answer(t, "agent", onb[t].source, "prepare")
    BY <1>0, <1>2, <1>5, <2>1 DEF MarkPrompted, Moves, Keeps, Status
  <2>2. CASE Onboard(t, "prepare", "none") /\ UNCHANGED <<onboarding, disturbed>>
    BY <1>0, <1>1, <1>5, <2>2 DEF MarkPrompted, Moves
  <2> QED BY <1>5, <2>1, <2>2 DEF MarkPrompted
<1>6. CASE EndTask(t)
  <2>1. PICK pc \in {"finalize", "ended"} : Onboard(t, pc, onb[t].source)
    BY <1>6 DEF EndTask
  <2> QED BY <1>0, <1>1, <1>6, <2>1 DEF EndTask, Moves, Keeps
<1>7. CASE FinalizeOnboarding(t)
  BY <1>0, <1>1, <1>7 DEF FinalizeOnboarding, Moves, Keeps
<1>8. CASE MarkSkipped(t)
  <2>1. CASE onboarding' = "skipped" /\ Answer(t, "ended", onb[t].source, "finalize")
    BY <1>0, <1>2, <1>8, <2>1 DEF MarkSkipped, Moves, Keeps, Status
  <2>2. CASE Onboard(t, "finalize", onb[t].source) /\ UNCHANGED <<onboarding, disturbed>>
    BY <1>0, <1>1, <1>8, <2>2 DEF MarkSkipped, Moves, Keeps
  <2> QED BY <1>8, <2>1, <2>2 DEF MarkSkipped
<1>9. CASE \E said \in Said : BeginOnboarding(t, said)
  BY <1>3, <1>9, Zenon
<1> QED BY <1>4, <1>5, <1>6, <1>7, <1>8, <1>9, Zenon DEF OnboardingStep

\* Who touches the onboarding: a task, or a call that a task waits for.
LEMMA OnboardingSteps ==
  ASSUME CastInv, [Next]_vars
  PROVE  \/ \E t \in Task : /\ OnbAt(t, "agent") => Answered(t)
                            /\ OnboardingStep(t) /\ UNCHANGED calls
         \/ \E c \in Call : CallStep(c)
         \/ UNCHANGED <<onboardingVars, calls>>
<1>1. CASE \E e \in cast.events : TurnStep(e)
  BY <1>1, TurnFrame
<1>2. CASE Tick \/ UNCHANGED vars
  BY <1>2 DEF Tick, vars, memoryVars
<1> QED BY <1>1, <1>2 DEF Next, CastInv, memoryVars

\* A call that came with an answer of the onboarding is waited for.
CallInv ==
  \A c \in Call : calls[c].pc \notin Over /\ calls[c].req.onboarding =>
    calls[c].by \in Task /\ onb[calls[c].by].pc = "agent"
\* As long as nothing is disturbed one task at a time has the onboarding; it
\* asks by itself when nobody has, and ends it when somebody has; who answers
\* was asked by a task that has ended.
TurnsInv ==
  ~disturbed =>
    /\ \A t, u \in Task : Onboarding(t) /\ Onboarding(u) => t = u
    /\ \A t \in Task :
         /\ onb[t].pc \in {"idle", "prepare"} => onb[t].source = "none"
         /\ onb[t].pc = "prompt" => onb[t].source \in {"command", "automatic"}
         /\ onb[t].source = "automatic" =>
              IF onb[t].pc = "prompt" THEN onboarding = "none" ELSE onboarding # "none"
         /\ onb[t].pc = "skip" => onboarding = "prompted"
AsksInv ==
  ~disturbed =>
    /\ \A t, u \in Task : onb[t].source = "automatic" /\ onb[u].source = "automatic" => t = u
    /\ onboarding = "prompted" =>
         \E u \in Task : /\ onb[u].source \in {"automatic", "command"}
                         /\ onb[u].pc \in {"agent", "finalize", "skip", "ended"}
    /\ \A t \in Task : onb[t].source = "answer" =>
         \E u \in Task \ {t} : /\ onb[u].source \in {"automatic", "command"}
                               /\ onb[u].pc = "ended"

LEMMA CallsWaitedFor ==
  ASSUME CastInv, CallType, MemoryType, OnbType, CallInv, [Next]_vars
  PROVE  OnbType' /\ CallInv'
<1>1. ASSUME NEW t \in Task, OnbAt(t, "agent") => Answered(t), OnboardingStep(t),
             UNCHANGED calls
      PROVE  OnbType' /\ CallInv'
  <2>1. OnbType' /\ \A u \in Task \ {t} : onb'[u] = onb[u]
    BY <1>1, OnboardingMoves
  <2> QED BY <1>1, <2>1 DEF CallInv, OnbAt, Answered
<1>2. ASSUME NEW c \in Call, CallStep(c)
      PROVE  OnbType' /\ CallInv'
  <2>1. /\ \A d \in Call \ {c} : calls'[d] = calls[d]
        /\ Begins(c) \/ Continues(c)
    BY <1>2, Effects
  <2>2. UNCHANGED <<onb, disturbed>> /\ onboarding' \in Status
    BY <2>1 DEF Begins, BeginCall, Continues, MarkCompleted, onboardingVars, OnbType, Status
  <2>3. ASSUME calls'[c].req.onboarding, calls'[c].pc \notin Over
        PROVE  calls'[c].by \in Task /\ onb[calls'[c].by].pc = "agent"
    <3>1. CASE Continues(c)
      BY <2>3, <3>1 DEF Continues, CallInv
    <3>2. ASSUME NEW req \in Request, BeginCall(c, req)
          PROVE  calls'[c].by \in Task /\ onb[calls'[c].by].pc = "agent"
      <4>1. PICK t \in IF req.onboarding THEN Task ELSE {NoRow} :
              /\ req.onboarding => OnbAt(t, "agent")
              /\ calls' = [calls EXCEPT ![c].pc = req.op, ![c].by = t, ![c].req = req]
        BY <3>2 DEF BeginCall
      <4>2. CallRow(calls[c]) /\ DOMAIN calls = Call
        BY DEF CallType, CallOk
      <4>3. calls'[c].by = t /\ calls'[c].req = req
        BY <4>1, <4>2 DEF CallRow
      <4> QED BY <2>3, <4>1, <4>3 DEF OnbAt
    <3> QED BY <2>1, <3>1, <3>2 DEF Begins
  <2>4. OnbType'
    BY <2>2 DEF OnbType
  <2>5. \A d \in Call : calls'[d].pc \notin Over /\ calls'[d].req.onboarding =>
          calls'[d].by \in Task /\ onb'[calls'[d].by].pc = "agent"
    BY <2>1, <2>2, <2>3 DEF CallInv
  <2> QED BY <2>4, <2>5 DEF CallInv
<1>3. CASE UNCHANGED <<onboardingVars, calls>>
  BY <1>3 DEF onboardingVars, OnbType, CallInv
<1> QED BY <1>1, <1>2, <1>3, OnboardingSteps

LEMMA TurnsKept ==
  ASSUME CastInv, CallType, MemoryType, OnbType, CallInv, TurnsInv, AsksInv, [Next]_vars
  PROVE  TurnsInv' /\ AsksInv'
<1>1. ASSUME NEW t \in Task, OnboardingStep(t), ~disturbed'
      PROVE  TurnsInv' /\ AsksInv'
  <2>1. /\ \A u \in Task \ {t} : onb'[u] = onb[u]
        /\ ~disturbed /\ Moves(t)
    BY <1>1, OnboardingMoves
  <2>2. TurnsInv'
    BY <2>1 DEF TurnsInv, Moves, Keeps, Onboarding
  <2>3. AsksInv'
    BY <2>1 DEF TurnsInv, AsksInv, Moves, Keeps, Onboarding
  <2> QED BY <2>2, <2>3
<1>2. ASSUME NEW c \in Call, CallStep(c), ~disturbed'
      PROVE  TurnsInv' /\ AsksInv'
  <2>1. Begins(c) \/ Continues(c)
    BY <1>2, Effects
  <2>2. CASE UNCHANGED onboardingVars
    BY <2>2 DEF TurnsInv, AsksInv, onboardingVars, Onboarding
  <2>3. CASE calls[c].pc = "complete" /\ MarkCompleted /\ UNCHANGED <<onb, disturbed>>
    <3>1. calls[c].by \in Task /\ onb[calls[c].by].pc = "agent"
      BY <2>3 DEF CallType, CallOk, CallInv, Over
    <3> QED BY <1>2, <2>3, <3>1 DEF TurnsInv, AsksInv, MarkCompleted, Onboarding
  <2> QED BY <2>1, <2>2, <2>3 DEF Begins, BeginCall, Continues
<1>3. CASE disturbed' \/ UNCHANGED <<onboardingVars, calls>>
  BY <1>3 DEF onboardingVars, TurnsInv, AsksInv, Onboarding
<1> QED BY <1>1, <1>2, <1>3, OnboardingSteps

\* Without overlap a project is prompted by itself at most once, what is taken
\* for the answer followed a question, and a stored answer completes the
\* onboarding until the command opens it again (onboarding.go:38-107).
THEOREM OnboardingCorrect == Spec => OnboardedOnce
<1> DEFINE IInv == /\ CastInv /\ CallType /\ MemoryType
                   /\ OnbType /\ CallInv /\ TurnsInv /\ AsksInv
<1>1. Init => IInv
  <2> SUFFICES ASSUME Init PROVE OnbType /\ CallInv /\ TurnsInv /\ AsksInv
    BY StoreStart
  <2>1. OnbType /\ onboarding = "none" /\ \A t \in Task : onb[t].pc = "idle" /\ onb[t].source = "none"
    BY DEF Init, OnboardingInit, Fresh, OnbType, OnbRow, Said, Status
  <2>2. \A c \in Call : calls[c].pc = "idle"
    BY StoreStart
  <2> QED BY <2>1, <2>2 DEF CallInv, Over, TurnsInv, AsksInv, Onboarding
<1>2. IInv /\ [Next]_vars => IInv'
  BY CastKept, StoreKept, CallsWaitedFor, TurnsKept
<1>3. IInv => AnswersFollowQuestions
  <2> SUFFICES ASSUME AsksInv, ~disturbed
               PROVE  Cardinality({t \in Task : onb[t].source = "automatic"}) <= 1
    BY DEF AnswersFollowQuestions, AsksInv
  <2> DEFINE S == {t \in Task : onb[t].source = "automatic"}
  <2>1. S = {} \/ \E t : S = {t}
    BY DEF AsksInv
  <2> HIDE DEF S
  <2>2. Cardinality(S) = 0 \/ Cardinality(S) = 1
    BY <2>1, FS_EmptySet, FS_Singleton, Zenon
  <2> QED BY <2>2 DEF S
<1>4. ASSUME IInv, [Next]_vars, onboarding = "completed", ~disturbed,
             onboarding' # "completed"
      PROVE  \E t \in Task : onb[t].source = "command" /\ OnbAt(t, "prompt")
  <2>1. ASSUME NEW c \in Call, CallStep(c) PROVE FALSE
    BY <1>4, <2>1, Effects DEF Begins, BeginCall, Continues, onboardingVars, MarkCompleted
  <2>2. PICK t \in Task : OnboardingStep(t)
    BY <1>4, <2>1, OnboardingSteps DEF onboardingVars
  <2>3. CASE MarkPrompted(t)
    BY <1>4, <2>3 DEF TurnsInv, MarkPrompted, OnbAt
  <2>4. CASE MarkSkipped(t)
    BY <1>4, <2>4 DEF TurnsInv, MarkSkipped, OnbAt
  <2> QED BY <1>4, <2>2, <2>3, <2>4 DEF OnboardingStep, BeginOnboarding, PrepareOnboarding,
            EndTask, FinalizeOnboarding
<1> DEFINE A == /\ onboarding = "completed" /\ ~disturbed
                /\ onboarding' # "completed"
                => \E t \in Task : onb[t].source = "command" /\ OnbAt(t, "prompt")
<1>5. IInv /\ [Next]_vars => [A]_onboardingVars
  BY <1>4
<1>6. CompletedStays <=> [][A]_onboardingVars
  BY PTL DEF CompletedStays
<1> HIDE DEF IInv, A
<1> QED BY <1>1, <1>2, <1>3, <1>5, <1>6, PTL DEF Spec, OnboardedOnce

-----------------------------------------------------------------------------
\* The migrations

\* What the next migration adds, and which scope columns there are before it.
LEMMA SchemaGrows ==
  ASSUME NEW n \in 0 .. 11
  PROVE  SchemaAt(n + 1) = SchemaAt(n) \cup Makes(n + 1)
<1>1. 1 .. n + 1 = (1 .. n) \cup {n + 1}
  OBVIOUS
<1> QED BY <1>1 DEF SchemaAt

LEMMA ScopeColumns ==
  /\ SchemaAt(3) \cap ScopeColumn \subseteq {"user"}
  /\ SchemaAt(4) \cap ScopeColumn \subseteq {"user"}
  /\ SchemaAt(6) \cap ScopeColumn \subseteq {"user", "thread"}
  /\ SchemaAt(12) = Everything
<1>1. SchemaAt(3) \cap ScopeColumn \subseteq {"user"}
  <2>1. SchemaAt(0) = {}
    BY DEF SchemaAt
  <2>2. /\ SchemaAt(1) = SchemaAt(0) \cup Makes(1) /\ SchemaAt(2) = SchemaAt(1) \cup Makes(2)
        /\ SchemaAt(3) = SchemaAt(2) \cup Makes(3)
    BY SchemaGrows
  <2>3. /\ Makes(1) = {"tables", "user"} /\ Makes(2) = {"place of messages"}
        /\ Makes(3) = {"embeddings"}
    BY DEF Makes, FirstTables
  <2>4. SchemaAt(3) = ({} \cup {"tables", "user"}) \cup {"place of messages"} \cup {"embeddings"}
    BY <2>1, <2>2, <2>3, Zenon
  <2> QED BY <2>4 DEF ScopeColumn
<1>2. SchemaAt(4) \cap ScopeColumn \subseteq {"user"}
  <2>1. SchemaAt(4) = SchemaAt(3) \cup Makes(4)
    BY SchemaGrows
  <2> QED BY <1>1, <2>1 DEF Makes
<1>3. SchemaAt(6) \cap ScopeColumn \subseteq {"user", "thread"}
  <2>1. SchemaAt(5) = SchemaAt(4) \cup Makes(5) /\ SchemaAt(6) = SchemaAt(5) \cup Makes(6)
    BY SchemaGrows
  <2> QED BY <1>2, <2>1 DEF Makes, ScopeColumn
<1>4. SchemaAt(12) = Everything
  BY DEF SchemaAt, Everything, Version
<1> QED BY <1>1, <1>2, <1>3, <1>4

\* The database is always one that an earlier version, or this one, could have
\* left, with all that was written to it.
DatabaseInv ==
  /\ Earlier(database)
  /\ written.memories = database.memories /\ written.embedded = database.embedded
  /\ written = [memories |-> written.memories, embedded |-> written.embedded]
\* What a process has read of it is still true when the process may commit.
Accurate(r, schema, v) ==
  /\ v \in LooksUp => (r.found <=> Column(v) \in schema)
  /\ v \notin LooksUp => r.found
  /\ r.foreignKeys <=> ~Rebuilds(v, r.found)
StarterOk(r, d) ==
  /\ r = [pc |-> r.pc, known |-> r.known, found |-> r.found, foreignKeys |-> r.foreignKeys]
  /\ r.pc \in {"down", "migrate", "apply", "ready"}
  /\ r.known \subseteq d.applied
  /\ \E n \in 0 .. 12 : r.known = 1 .. n /\ (r.pc = "apply" => n < 12)
  /\ r.pc = "ready" => r.known = Version
  /\ r.pc # "apply" => r.foreignKeys = TRUE
  /\ \A v \in Version :
       r.pc = "apply" /\ r.known = 1 .. v - 1 /\ d.applied = 1 .. v - 1
         => Accurate(r, d.schema, v)
StarterInv ==
  DOMAIN starters = Starter /\ \A s \in Starter : StarterOk(starters[s], database)

\* Rows that say nothing in the columns that are not there; it does no harm to
\* add a column, nor to copy only those that are there.
RowsFit(rows, columns) ==
  rows = [m \in DOMAIN rows |->
            [c \in ScopeColumn |-> IF c \in columns THEN rows[m][c] ELSE ""]]
LEMMA RowsCopied ==
  ASSUME NEW rows, NEW columns, RowsFit(rows, columns),
         NEW v, columns \cap ScopeColumn \subseteq Copied_(v)
  PROVE  /\ \A m \in DOMAIN rows : rows[m] = Rebuilt(v, rows[m])
         /\ rows = [m \in DOMAIN rows |-> rows[m]]
<1>1. ASSUME NEW m \in DOMAIN rows
      PROVE  rows[m] = Rebuilt(v, rows[m])
  <2> DEFINE f == [x \in ScopeColumn |-> IF x \in columns THEN rows[m][x] ELSE ""]
             g == [x \in ScopeColumn |-> IF x \in Copied_(v) THEN rows[m][x] ELSE ""]
  <2>1. rows[m] = f
    BY DEF RowsFit
  <2>2. ASSUME NEW c \in ScopeColumn PROVE f[c] = g[c]
    <3>1. c \notin columns => f[c] = ""
      OBVIOUS
    <3>2. c \notin columns => rows[m][c] = ""
      <4> HIDE DEF f
      <4> QED BY <2>1, <3>1
    <3> QED BY <3>2
  <2>3. f = g
    BY <2>2
  <2>4. Rebuilt(v, rows[m]) = g
    BY DEF Rebuilt
  <2> HIDE DEF f, g
  <2> QED BY <2>1, <2>3, <2>4
<1>2. rows = [m \in DOMAIN rows |-> rows[m]]
  BY DEF RowsFit
<1> QED BY <1>1, <1>2

LEMMA RowsStay ==
  ASSUME NEW rows, NEW columns, RowsFit(rows, columns), NEW more
  PROVE  RowsFit(rows, columns \cup more)
<1>1. ASSUME NEW m \in DOMAIN rows, NEW c \in ScopeColumn, c \notin columns
      PROVE  rows[m][c] = ""
  <2> DEFINE f == [x \in ScopeColumn |-> IF x \in columns THEN rows[m][x] ELSE ""]
  <2>1. rows[m] = f
    BY DEF RowsFit
  <2>2. f[c] = ""
    BY <1>1
  <2> HIDE DEF f
  <2> QED BY <2>1, <2>2
<1>2. ASSUME NEW copied, columns \cap ScopeColumn \subseteq copied
      PROVE  rows = [m \in DOMAIN rows |->
                       [c \in ScopeColumn |-> IF c \in copied THEN rows[m][c] ELSE ""]]
  <2>1. ASSUME NEW m \in DOMAIN rows
        PROVE  [c \in ScopeColumn |-> IF c \in columns THEN rows[m][c] ELSE ""]
                 = [c \in ScopeColumn |-> IF c \in copied THEN rows[m][c] ELSE ""]
    BY <1>1, <1>2
  <2> QED BY <2>1 DEF RowsFit
<1> QED BY <1>2 DEF RowsFit

LEMMA NextVersion ==
  ASSUME NEW s, NEW n \in 0 .. 11, starters[s].known = 1 .. n
  PROVE  Next_(s) = n + 1 /\ Missing(s) # {} /\ n + 1 \in Version
<1>1. Missing(s) = n + 1 .. 12
  BY DEF Missing, Version
<1>2. n + 1 \in Missing(s) /\ \A w \in Missing(s) : n + 1 <= w
  BY <1>1
<1>3. \A v \in Missing(s) : (\A w \in Missing(s) : v <= w) => v = n + 1
  <2> SUFFICES ASSUME NEW v \in Missing(s), \A w \in Missing(s) : v <= w
               PROVE  v = n + 1
    OBVIOUS
  <2>1. v <= n + 1 /\ v \in n + 1 .. 12
    BY <1>1, <1>2
  <2> QED BY <2>1
<1>4. Next_(s) = n + 1
  BY <1>2, <1>3 DEF Next_
<1> QED BY <1>2, <1>4 DEF Version

\* A migration that commits leaves a database of the next version, and every
\* memory as it is.
Same(d) == d.memories = database.memories /\ d.embedded = database.embedded
LEMMA MigratedRight ==
  ASSUME Earlier(database), NEW v \in 1 .. 12, database.applied = 1 .. v - 1,
         NEW r, Accurate(r, database.schema, v), ~Refuses(v, r.found),
         NEW d, d = Migrated(v, r.found, r.foreignKeys)
  PROVE  Earlier(d) /\ Same(d)
<1> DEFINE schema == database.schema
           found == r.found
           foreignKeys == r.foreignKeys
<1>10. /\ v \in LooksUp => (found <=> Column(v) \in schema)
       /\ v \notin LooksUp => found
       /\ foreignKeys <=> ~Rebuilds(v, found)
  BY DEF Accurate
<1>0. /\ schema \subseteq SchemaAt(v - 1) /\ SchemaAt(v - 1) \ schema \subseteq MayLack(v - 1)
      /\ RowsFit(database.memories, schema)
  <2>1. PICK k \in {0} \cup Version :
          /\ database.applied = 1 .. k /\ schema \subseteq SchemaAt(k)
          /\ SchemaAt(k) \ schema \subseteq MayLack(k)
    BY DEF Earlier
  <2>2. k = v - 1
    <3>1. /\ v \in 1 .. v - 1 <=> v \in 1 .. k
          /\ k + 1 \in 1 .. v - 1 <=> k + 1 \in 1 .. k
      BY <2>1
    <3> QED BY <3>1 DEF Version
  <2> QED BY <2>1, <2>2 DEF Earlier, RowsFit
<1>1. d.applied = 1 .. v
  BY DEF Migrated
<1>2. Rebuilds(v, found) => /\ Copied_(v) \subseteq schema
                            /\ schema \cap ScopeColumn \subseteq Copied_(v)
  <2> SUFFICES ASSUME Rebuilds(v, found)
               PROVE  schema \cap ScopeColumn \subseteq Copied_(v) /\ Copied_(v) \subseteq schema
    OBVIOUS
  <2>1. v \in {4, 5, 7} /\ Column(v) \notin schema
    BY <1>10 DEF Rebuilds, LooksUp
  <2>2. Copied_(v) \subseteq schema
    BY DEF Refuses
  <2>3. CASE v = 4
    <3>1. v - 1 = 3 /\ Column(v) = "user" /\ Copied_(v) = {}
      BY <2>3 DEF Copied_, Column
    <3> QED BY <1>0, <2>1, <2>2, <3>1, ScopeColumns DEF ScopeColumn
  <2>4. CASE v = 5
    <3>1. v - 1 = 4 /\ Column(v) = "thread" /\ Copied_(v) = {"user"}
      BY <2>4 DEF Copied_, Column
    <3> QED BY <1>0, <2>1, <2>2, <3>1, ScopeColumns DEF ScopeColumn
  <2>5. CASE v = 7
    <3>1. v - 1 = 6 /\ Column(v) = "channel" /\ Copied_(v) = {"user", "thread"}
      BY <2>5 DEF Copied_, Column
    <3> QED BY <1>0, <2>1, <2>2, <3>1, ScopeColumns DEF ScopeColumn
  <2> QED BY <2>1, <2>2, <2>3, <2>4, <2>5
<1>3. d.schema = schema \cup Makes(v)
  <2>1. d.schema = (IF Rebuilds(v, found) THEN (schema \ ScopeColumn) \cup Copied_(v)
                    ELSE schema) \cup Makes(v)
    BY DEF Migrated
  <2> QED BY <1>2, <2>1
<1>4. d.schema \subseteq SchemaAt(v) /\ SchemaAt(v) \ d.schema \subseteq MayLack(v)
  <2>1. SchemaAt(v) = SchemaAt(v - 1) \cup Makes(v)
    <3>1. v - 1 \in 0 .. 11 /\ (v - 1) + 1 = v
      OBVIOUS
    <3> QED BY <3>1, SchemaGrows
  <2>2. MayLack(v - 1) \subseteq MayLack(v) \cup Makes(v)
    <3>1. CASE v < 4
      <4>0. v - 1 < 4
        BY <3>1
      <4>1. MayLack(v - 1) = {"user"}
        BY <4>0 DEF MayLack
      <4>2. MayLack(v) = {"user"}
        BY <3>1 DEF MayLack
      <4> QED BY <4>1, <4>2
    <3>2. CASE v = 4
      <4>1. MayLack(v - 1) = {"user"} /\ Makes(v) = {"user"}
        BY <3>2 DEF MayLack, Makes
      <4> QED BY <4>1
    <3>3. CASE v = 11
      <4>1. MayLack(v - 1) = {"run id"} /\ Makes(v) = {"run id"}
        BY <3>3 DEF MayLack, Makes
      <4> QED BY <4>1
    <3>4. CASE v > 4 /\ v # 11
      <4>1. MayLack(v - 1) = {}
        BY <3>4 DEF MayLack
      <4> QED BY <4>1
    <3> QED BY <3>1, <3>2, <3>3, <3>4
  <2> QED BY <1>0, <1>3, <2>1, <2>2
<1>5. d.memories = database.memories
  <2>1. CASE Rebuilds(v, found)
    <3>1. d.memories = [m \in DOMAIN database.memories |-> Rebuilt(v, database.memories[m])]
      BY <2>1 DEF Migrated
    <3>2. database.memories = [m \in DOMAIN database.memories |->
                                 Rebuilt(v, database.memories[m])]
      <4>1. schema \cap ScopeColumn \subseteq Copied_(v)
        BY <1>2, <2>1
      <4>2. /\ \A m \in DOMAIN database.memories :
                  database.memories[m] = Rebuilt(v, database.memories[m])
            /\ database.memories = [m \in DOMAIN database.memories |-> database.memories[m]]
        BY <1>0, <4>1, RowsCopied, Zenon
      <4> QED BY <4>2
    <3> QED BY <3>1, <3>2, Zenon
  <2>2. CASE ~Rebuilds(v, found)
    BY <2>2 DEF Migrated
  <2> QED BY <2>1, <2>2
<1>6. d.embedded = database.embedded
  BY <1>10 DEF Migrated
<1>7. RowsFit(d.memories, d.schema)
  <2>1. RowsFit(database.memories, schema \cup Makes(v))
    BY <1>0, RowsStay
  <2> QED BY <1>3, <1>5, <2>1
<1>8. d = [applied |-> d.applied, schema |-> d.schema, memories |-> d.memories,
           embedded |-> d.embedded, project |-> d.project]
  BY DEF Migrated
<1> QED BY <1>0, <1>1, <1>4, <1>5, <1>6, <1>7, <1>8 DEF Earlier, RowsFit, Same, Version

LEMMA MigrationSteps ==
  ASSUME CastInv, [Next]_vars
  PROVE  (\E s \in Starter : StartStep(s)) \/ UNCHANGED migrationVars
<1>1. CASE \E e \in cast.events : TurnStep(e)
  BY <1>1, TurnFrame
<1>2. CASE Tick \/ UNCHANGED vars
  BY <1>2 DEF Tick, vars
<1> QED BY <1>1, <1>2 DEF Next, CastInv

Whole(d) == d = [applied |-> d.applied, schema |-> d.schema, memories |-> d.memories,
                 embedded |-> d.embedded, project |-> d.project]
Has(d, n) == /\ d.applied = 1 .. n /\ d.schema \subseteq SchemaAt(n)
             /\ SchemaAt(n) \ d.schema \subseteq MayLack(n)
LEMMA EarlierParts ==
  ASSUME NEW d
  PROVE  Earlier(d) <=> /\ Whole(d) /\ RowsFit(d.memories, d.schema)
                        /\ \E n \in 0 .. 12 : Has(d, n)
<1>1. \A n : n \in {0} \cup Version <=> n \in 0 .. 12
  BY DEF Version
<1> QED BY <1>1, Zenon DEF Earlier, Whole, Has, RowsFit

Row_(r) == r = [pc |-> r.pc, known |-> r.known, found |-> r.found,
                foreignKeys |-> r.foreignKeys]
LEMMA OtherParts ==
  ASSUME NEW d, Earlier(d), NEW e, Whole(e), e.applied = d.applied, e.schema = d.schema,
         RowsFit(e.memories, e.schema)
  PROVE  Earlier(e)
<1>1. \E n \in 0 .. 12 : Has(d, n)
  BY EarlierParts
<1>2. \E n \in 0 .. 12 : Has(e, n)
  BY <1>1 DEF Has
<1> QED BY <1>2, EarlierParts

\* The row of a process that is not about to commit, and of one that is
LEMMA AtRest ==
  ASSUME NEW d, NEW r, NEW pc \in {"down", "migrate", "ready"}, NEW n \in 0 .. 12,
         NEW found, NEW known, known = 1 .. n, known \subseteq d.applied,
         pc = "ready" => n = 12,
         r = [pc |-> pc, known |-> known, found |-> found, foreignKeys |-> TRUE]
  PROVE  StarterOk(r, d)
BY DEF StarterOk, Version

LEMMA AtWork ==
  ASSUME NEW d, NEW r, NEW v \in 1 .. 12, NEW found, NEW keys,
         NEW known, known = 1 .. v - 1, known \subseteq d.applied,
         r = [pc |-> "apply", known |-> known, found |-> found, foreignKeys |-> keys],
         Accurate(r, d.schema, v)
  PROVE  StarterOk(r, d)
<1>1. /\ r.pc = "apply" /\ r.known = 1 .. v - 1 /\ Row_(r)
      /\ v - 1 \in 0 .. 12 /\ v - 1 < 12
  BY DEF Row_
<1>2. ASSUME NEW w \in Version, r.known = 1 .. w - 1 PROVE w = v
  <2>1. /\ v \in 1 .. v - 1 <=> v \in 1 .. w - 1
        /\ w \in 1 .. v - 1 <=> w \in 1 .. w - 1
    BY <1>1, <1>2
  <2> QED BY <2>1 DEF Version
<1> QED BY <1>1, <1>2 DEF StarterOk, Row_

LEMMA DownIsOk == \A d : StarterOk(Down, d)
<1>1. {} = 1 .. 0 /\ {} = 1 .. 0
  OBVIOUS
<1>2. Down = [pc |-> "down", known |-> 1 .. 0, found |-> FALSE, foreignKeys |-> TRUE]
  BY <1>1 DEF Down
<1>3. \A d : 1 .. 0 \subseteq d.applied
  OBVIOUS
<1> QED BY <1>2, <1>3, AtRest

LEMMA StartersKept ==
  ASSUME DatabaseInv, StarterInv, NEW s \in Starter, StartStep(s)
  PROVE  DatabaseInv' /\ StarterInv'
<1> DEFINE r == starters[s]
<1>0. StarterOk(r, database) /\ s \in DOMAIN starters
  BY DEF StarterInv
<1> USE DEF At_, Step_
<1>1. ASSUME NEW new, starters' = [starters EXCEPT ![s] = new],
             UNCHANGED <<database, written>>, StarterOk(new, database)
      PROVE  DatabaseInv' /\ StarterInv'
  BY <1>1 DEF DatabaseInv, StarterInv
<1>2. CASE ListApplied(s)
  <2> PICK new : new = [Down EXCEPT !.pc = "migrate", !.known = database.applied]
    OBVIOUS
  <2>1. starters' = [starters EXCEPT ![s] = new] /\ UNCHANGED <<database, written>>
    BY <1>2 DEF ListApplied
  <2>2. PICK n \in 0 .. 12 : database.applied = 1 .. n
    BY EarlierParts DEF DatabaseInv, Has
  <2>3. new = [pc |-> "migrate", known |-> database.applied, found |-> FALSE,
               foreignKeys |-> TRUE]
    BY DEF Down
  <2> QED BY <1>1, <2>1, <2>2, <2>3, AtRest
<1>3. CASE ApplyFails(s) \/ Dies(s)
  <2>1. starters' = [starters EXCEPT ![s] = Down] /\ UNCHANGED <<database, written>>
    BY <1>3 DEF ApplyFails, AfterError, Dies
  <2> QED BY <1>1, <2>1, DownIsOk
<1>4. PICK n \in 0 .. 12 : r.known = 1 .. n /\ (r.pc = "apply" => n < 12)
  BY <1>0 DEF StarterOk
<1>5. /\ Row_(r) /\ 1 .. n \subseteq database.applied
      /\ r.pc = "migrate" => r.foreignKeys = TRUE
  BY <1>0, <1>4 DEF StarterOk, Row_
<1> DEFINE v == n + 1
<1>6. n < 12 => v \in 1 .. 12 /\ v - 1 = n /\ Next_(s) = v
  <2> SUFFICES ASSUME n < 12 PROVE v \in 1 .. 12 /\ v - 1 = n /\ Next_(s) = v
    OBVIOUS
  <2>1. n \in 0 .. 11 /\ starters[s].known = 1 .. n
    BY <1>4
  <2>2. Next_(s) = n + 1
    BY <2>1, NextVersion
  <2> QED BY <2>1, <2>2
<1>7. Missing(s) # {} => n < 12
  BY <1>4 DEF Missing, Version
<1> HIDE DEF v
<1>8. CASE LookUp(s) \/ Begin(s)
  <2>1. /\ n < 12 /\ r.pc = "migrate"
        /\ v \in 1 .. 12 /\ v - 1 = n /\ Next_(s) = v
    BY <1>6, <1>7, <1>8 DEF LookUp, Begin
  <2>2. ASSUME NEW new, NEW found, NEW keys,
               new = [pc |-> "apply", known |-> r.known, found |-> found, foreignKeys |-> keys],
               starters' = [starters EXCEPT ![s] = new], UNCHANGED <<database, written>>,
               Accurate(new, database.schema, v)
        PROVE  DatabaseInv' /\ StarterInv'
    <3>1. StarterOk(new, database)
      BY <1>4, <1>5, <2>1, <2>2, AtWork
    <3> QED BY <1>1, <2>2, <3>1
  <2>3. CASE LookUp(s)
    <3> DEFINE found == Column(Next_(s)) \in database.schema
               keys == ~Rebuilds(Next_(s), found)
    <3>1. starters' = [starters EXCEPT ![s] =
                         [r EXCEPT !.pc = "apply", !.found = found, !.foreignKeys = keys]]
      BY <2>3 DEF LookUp
    <3>2. (found <=> Column(v) \in database.schema) /\ (keys <=> ~Rebuilds(v, found))
      BY <2>1
    <3>6. UNCHANGED <<database, written>> /\ v \in LooksUp
      BY <2>1, <2>3 DEF LookUp
    <3> HIDE DEF found, keys
    <3>3. PICK new : new = [r EXCEPT !.pc = "apply", !.found = found, !.foreignKeys = keys]
      OBVIOUS
    <3>4. new = [pc |-> "apply", known |-> r.known, found |-> found, foreignKeys |-> keys]
      BY <1>5, <3>3 DEF Row_
    <3>5. Accurate(new, database.schema, v)
      BY <3>2, <3>4, <3>6 DEF Accurate
    <3> QED BY <2>2, <3>1, <3>3, <3>4, <3>5, <3>6
  <2>4. CASE Begin(s)
    <3>1. PICK new : new = [r EXCEPT !.pc = "apply", !.found = TRUE]
      OBVIOUS
    <3>2. /\ starters' = [starters EXCEPT ![s] = new] /\ UNCHANGED <<database, written>>
          /\ v \notin LooksUp
      BY <2>1, <2>4, <3>1 DEF Begin
    <3>3. new = [pc |-> "apply", known |-> r.known, found |-> TRUE, foreignKeys |-> TRUE]
      BY <1>5, <2>1, <3>1 DEF Row_
    <3>4. new.found = TRUE /\ new.foreignKeys = TRUE
      BY <3>3
    <3>5. Accurate(new, database.schema, v)
      BY <3>2, <3>4 DEF Accurate, Rebuilds
    <3> QED BY <2>2, <3>2, <3>3, <3>5
  <2> QED BY <1>8, <2>3, <2>4
<1>9. CASE Apply(s)
  <2> PICK new : new = [r EXCEPT !.pc = "migrate", !.known = r.known \cup {v},
                                 !.foreignKeys = TRUE]
    OBVIOUS
  <2>1. /\ r.pc = "apply" /\ n < 12
        /\ v \in 1 .. 12 /\ v - 1 = n /\ Next_(s) = v
    BY <1>4, <1>6, <1>9 DEF Apply
  <2>2. /\ v \notin database.applied /\ ~Refuses(v, r.found)
        /\ database' = Migrated(v, r.found, r.foreignKeys)
        /\ starters' = [starters EXCEPT ![s] = new] /\ UNCHANGED written
    BY <1>9, <2>1 DEF Apply, Commits
  <2>3. database.applied = 1 .. v - 1
    <3>1. PICK k \in 0 .. 12 : database.applied = 1 .. k
      BY EarlierParts DEF DatabaseInv, Has
    <3>2. ~(v <= k)
      BY <2>1, <2>2, <3>1
    <3>3. n = 0 \/ n <= k
      BY <1>5, <3>1
    <3>4. k = v - 1
      BY <2>1, <3>2, <3>3
    <3> QED BY <3>1, <3>4
  <2>4. Accurate(r, database.schema, v)
    BY <1>0, <1>4, <2>1, <2>3 DEF StarterOk, Version
  <2>5. /\ Earlier(database') /\ database'.applied = 1 .. v
        /\ database'.memories = database.memories /\ database'.embedded = database.embedded
    <3>1. Earlier(database)
      BY DEF DatabaseInv
    <3>2. PICK x, d : x = r /\ d = Migrated(v, r.found, r.foreignKeys)
      OBVIOUS
    <3>3. /\ database.applied = 1 .. v - 1 /\ Accurate(x, database.schema, v)
          /\ ~Refuses(v, x.found) /\ d = Migrated(v, x.found, x.foreignKeys)
          /\ v \in 1 .. 12
      BY <2>1, <2>2, <2>3, <2>4, <3>2
    <3>4. Earlier(d) /\ Same(d)
      BY <3>1, <3>3, MigratedRight
    <3>5. d.applied = 1 .. v
      BY <3>3 DEF Migrated
    <3> QED BY <2>2, <3>2, <3>4, <3>5 DEF Same
  <2>6. DatabaseInv'
    BY <2>2, <2>5 DEF DatabaseInv
  <2>7. StarterOk(new, database')
    <3>1. r.known \cup {v} = 1 .. v
      BY <1>4, <2>1
    <3>2. new = [pc |-> "migrate", known |-> r.known \cup {v}, found |-> r.found,
                 foreignKeys |-> TRUE]
      BY <1>5 DEF Row_
    <3>3. PICK known : known = 1 .. v
      OBVIOUS
    <3>4. known \subseteq database'.applied /\ v \in 0 .. 12
      BY <2>1, <2>5, <3>3
    <3>5. new = [pc |-> "migrate", known |-> known, found |-> r.found, foreignKeys |-> TRUE]
      BY <3>1, <3>2, <3>3
    <3> QED BY <3>3, <3>4, <3>5, AtRest
  <2>8. ASSUME NEW u \in Starter \ {s} PROVE StarterOk(starters[u], database')
    <3>1. StarterOk(starters[u], database)
      BY DEF StarterInv
    <3>2. database.applied \subseteq database'.applied /\ v \in database'.applied
      BY <2>1, <2>3, <2>5
    <3>3. starters[u].known # database'.applied
      BY <2>2, <3>1, <3>2 DEF StarterOk
    <3> QED BY <3>1, <3>2, <3>3 DEF StarterOk
  <2> QED BY <1>0, <2>2, <2>6, <2>7, <2>8 DEF StarterInv
<1>10. ASSUME database'.applied = database.applied, database'.schema = database.schema,
              StarterInv
       PROVE  \A x : StarterOk(x, database) => StarterOk(x, database')
  BY <1>10 DEF StarterOk
<1>11. CASE EnsureProject(s)
  <2> PICK new : new = [r EXCEPT !.pc = "ready"]
    OBVIOUS
  <2>1. /\ database' = [database EXCEPT !.project = TRUE]
        /\ starters' = [starters EXCEPT ![s] = new] /\ UNCHANGED written
        /\ r.pc = "migrate" /\ Missing(s) = {}
    BY <1>11 DEF EnsureProject
  <2>2. /\ Earlier(database')
        /\ database'.applied = database.applied /\ database'.schema = database.schema
        /\ database'.memories = database.memories /\ database'.embedded = database.embedded
    <3>1. /\ Earlier(database) /\ Whole(database)
          /\ RowsFit(database.memories, database.schema)
      BY EarlierParts DEF DatabaseInv
    <3>2. /\ Whole(database')
          /\ database'.applied = database.applied /\ database'.schema = database.schema
          /\ database'.memories = database.memories /\ database'.embedded = database.embedded
      BY <2>1, <3>1 DEF Whole
    <3> QED BY <3>1, <3>2, OtherParts
  <2>3. n = 12
    <3>1. 12 \in starters[s].known
      BY <2>1 DEF Missing, Version
    <3> QED BY <1>4, <3>1
  <2>5. new = [pc |-> "ready", known |-> r.known, found |-> r.found, foreignKeys |-> TRUE]
    BY <1>5, <2>1 DEF Row_
  <2>6. StarterOk(new, database)
    BY <1>4, <1>5, <2>3, <2>5, AtRest
  <2>7. StarterInv'
    BY <1>0, <1>10, <2>1, <2>2, <2>6 DEF StarterInv
  <2> QED BY <2>1, <2>2, <2>7 DEF DatabaseInv
<1>12. CASE Remembers(s)
  <2>1. r.pc = "ready" /\ UNCHANGED starters
    BY <1>12 DEF Remembers
  <2> DEFINE kept(rows) == [m \in DOMAIN rows \cup {s} |->
                              IF m = s THEN [c \in ScopeColumn |-> s] ELSE rows[m]]
             mine == kept(database.memories)
             put == database.embedded \cup {s}
  <2>2. /\ database' = [database EXCEPT !.memories = mine, !.embedded = put]
        /\ written' = [memories |-> mine, embedded |-> put]
    BY <1>12 DEF Remembers, DatabaseInv
  <2>3. ScopeColumn \subseteq database.schema
    <3>1. PICK k \in 0 .. 12 : Has(database, k)
      BY EarlierParts DEF DatabaseInv
    <3>2. k = 12
      <4>1. 12 \in database.applied
        BY <1>0, <2>1 DEF StarterOk, Version
      <4> QED BY <3>1, <4>1 DEF Has
    <3>3. MayLack(12) = {} /\ SchemaAt(12) = Everything
      BY ScopeColumns DEF MayLack
    <3>4. ScopeColumn \subseteq Everything
      <4>1. Makes(4) = {"user"} /\ Makes(5) = {"threads", "thread"} /\ Makes(7) = {"channel"}
        BY DEF Makes
      <4>2. 4 \in Version /\ 5 \in Version /\ 7 \in Version
        BY DEF Version
      <4> QED BY <4>1, <4>2 DEF Everything, ScopeColumn
    <3> QED BY <3>1, <3>2, <3>3, <3>4 DEF Has
  <2> HIDE DEF mine, put
  <2>4. RowsFit(mine, database.schema)
    <3>1. RowsFit(database.memories, database.schema)
      BY EarlierParts DEF DatabaseInv
    <3> QED BY <2>3, <3>1 DEF RowsFit, mine
  <2>5. /\ Earlier(database')
        /\ database'.applied = database.applied /\ database'.schema = database.schema
        /\ database'.memories = mine /\ database'.embedded = put
    <3>1. Earlier(database) /\ Whole(database)
      BY EarlierParts DEF DatabaseInv
    <3>2. /\ Whole(database')
          /\ database'.applied = database.applied /\ database'.schema = database.schema
          /\ database'.memories = mine /\ database'.embedded = put
      BY <2>2, <3>1 DEF Whole
    <3> QED BY <2>4, <3>1, <3>2, OtherParts
  <2>6. DatabaseInv'
    BY <2>2, <2>5 DEF DatabaseInv
  <2>7. StarterInv'
    BY <1>10, <2>1, <2>5 DEF StarterInv
  <2> QED BY <2>6, <2>7
<1> QED BY <1>2, <1>3, <1>8, <1>9, <1>11, <1>12 DEF StartStep

\* Whenever the database says that it is current, or a process is ready, all
\* tables and columns are there, and no upgrade has cost a memory or an
\* embedding (store.go:131-144, 205-365).
THEOREM UpgradesCorrect == Spec => []UpgradesAreSafe
<1> DEFINE IInv == CastInv /\ DatabaseInv /\ StarterInv
<1>1. Init => IInv
  <2> SUFFICES ASSUME Init PROVE IInv
    OBVIOUS
  <2>1. CastInv /\ Earlier(database)
    BY DEF Init, ConversationInit, CastInv
  <2>2. DatabaseInv
    BY <2>1 DEF Init, MigrationInit, DatabaseInv
  <2> QED BY <2>1, <2>2, DownIsOk DEF Init, MigrationInit, StarterInv
<1>2. IInv /\ [Next]_vars => IInv'
  <2> SUFFICES ASSUME IInv, [Next]_vars PROVE DatabaseInv' /\ StarterInv'
    BY CastKept
  <2>1. CASE UNCHANGED migrationVars
    BY <2>1 DEF migrationVars, DatabaseInv, StarterInv
  <2> QED BY <2>1, MigrationSteps, StartersKept
<1>3. IInv => UpgradesAreSafe
  <2> SUFFICES ASSUME IInv PROVE SchemaIsWhole
    BY DEF UpgradesAreSafe, MemoriesSurvive, DatabaseInv
  <2>1. PICK k \in 0 .. 12 : Has(database, k)
    BY EarlierParts DEF DatabaseInv
  <2>2. MayLack(12) = {} /\ SchemaAt(12) = Everything
    BY ScopeColumns DEF MayLack
  <2>3. (\E s \in Starter : At_(s, "ready")) => 12 \in database.applied
    BY DEF At_, StarterInv, StarterOk, Version
  <2>4. 12 \in database.applied => k = 12
    BY <2>1 DEF Has
  <2> QED BY <2>1, <2>2, <2>3, <2>4 DEF Has, SchemaIsWhole, Verifies
<1> HIDE DEF IInv
<1> QED BY <1>1, <1>2, <1>3, PTL DEF Spec

=============================================================================
