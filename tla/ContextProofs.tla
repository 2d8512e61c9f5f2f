----------------------------- MODULE ContextProofs -----------------------------
(***************************************************************************)
(* Proofs about Conversation: what a task reads of its conversation, and   *)
(* what a reset leaves.                                                    *)
(***************************************************************************)
EXTENDS ConversationProofs, SequenceTheorems

-----------------------------------------------------------------------------
(* The order of the store                                                  *)

LEMMA BehindOrder ==
  ASSUME NEW a \in Int \X Int, NEW b \in Int \X Int, NEW c \in Int \X Int
  PROVE  /\ Behind(a, a)
         /\ Behind(a, b) \/ Behind(b, a)
         /\ Behind(a, b) /\ Behind(b, a) => a = b
         /\ Behind(a, b) /\ Behind(b, c) => Behind(a, c)
  BY DEF Behind

\* A finite set of keys has a greatest: the one with the fewest above it.
LEMMA LatestKey ==
  ASSUME NEW S, IsFiniteSet(S), S # {}, NEW key \in [S -> Int \X Int]
  PROVE  \E s \in S : \A t \in S : Behind(key[t], key[s])
<1> DEFINE Above(x) == {y \in S : ~Behind(key[y], key[x])}
           Counts == {k \in Nat : \E x \in S : k = Cardinality(Above(x))}
<1>1. \A x \in S : IsFiniteSet(Above(x)) /\ Cardinality(Above(x)) \in Nat
  BY FS_Subset, FS_CardinalityType
<1>2. Counts \in SUBSET Nat /\ Counts # {}
  BY <1>1
<1>3. PICK n \in Counts : \A m \in Counts : n <= m
  BY <1>2, LeastNumber
<1>4. PICK x \in S : n = Cardinality(Above(x))
  BY <1>3
<1>5. ASSUME NEW y \in S, ~Behind(key[y], key[x]) PROVE FALSE
  <2>1. Above(y) \in SUBSET Above(x) /\ y \in Above(x) /\ y \notin Above(y)
    <3>1. \A z \in S : /\ Behind(key[y], key[y])
                       /\ ~Behind(key[z], key[y]) => ~Behind(key[z], key[x])
      BY <1>5, BehindOrder
    <3> QED BY <1>5, <3>1
  <2> HIDE DEF Above
  <2>2. Cardinality(Above(y)) <= n /\ Cardinality(Above(y)) # n
    BY <1>1, <1>4, <2>1, FS_Subset
  <2>3. n <= Cardinality(Above(y))
    BY <1>1, <1>3
  <2> QED BY <1>1, <1>4, <2>2, <2>3
<1> QED BY <1>5

\* The place a message belongs to, and the rows it may have.
Home(id) == IF id.rank = 2 THEN id.event.posts ELSE id.event.thread
IdOk(id) == \E e \in Event : id \in {Id(0, e, e.source), Id(1, e, ""), Id(2, e, e.posts)}
RowOk(id, row) ==
  /\ row = [event |-> id.event, thread |-> Home(id), at |-> row.at,
            control |-> row.control, source |-> row.source, gen |-> row.gen]
  /\ row.at \in Nat
  /\ id.rank = 0 => /\ row.at = id.event.at /\ row.control = (id.event.body = "control")
                    /\ row.source = ""
Rows_ ==
  /\ IsFiniteSet(DOMAIN messages)
  /\ \A id \in DOMAIN messages : IdOk(id) /\ RowOk(id, messages[id])

Made(rank, e) ==
  Id(rank, e, IF rank = 0 THEN e.source ELSE IF rank = 1 THEN "" ELSE e.posts)

LEMMA OneIsNotZero == 1 # 0
  OBVIOUS

LEMMA IdParts ==
  ASSUME NEW id, IdOk(id)
  PROVE  /\ id.event \in Event /\ id.rank \in {0, 1, 2}
         /\ id = Made(id.rank, id.event)
         /\ Home(id) \in Place
<1> PICK e \in Event : id \in {Id(0, e, e.source), Id(1, e, ""), Id(2, e, e.posts)}
  BY DEF IdOk
<1>1. CASE id = Id(0, e, e.source)
  BY <1>1 DEF Id, Home, Place, Made
<1>2. CASE id = Id(1, e, "")
  <2>0. Made(1, e) = Id(1, e, "")
    BY OneIsNotZero, Zenon DEF Made
  <2>1. id.rank = 1 /\ id.event = e /\ id = Made(1, e)
    BY <1>2, <2>0 DEF Id
  <2> QED BY <2>1 DEF Home, Place
<1>3. CASE id = Id(2, e, e.posts)
  <2>1. id.rank = 2 /\ id.event = e /\ id = Made(2, e)
    BY <1>3 DEF Id, Made
  <2> QED BY <2>1 DEF Home, Place
<1> QED BY <1>1, <1>2, <1>3

LEMMA RowParts ==
  ASSUME NEW id, NEW row, RowOk(id, row)
  PROVE  row.thread = Home(id) /\ row.event = id.event /\ row.at \in Nat
<1>1. row = [event |-> id.event, thread |-> Home(id), at |-> row.at,
             control |-> row.control, source |-> row.source, gen |-> row.gen]
  BY DEF RowOk
<1>2. \A e, h, at, c, x, g :
        row = [event |-> e, thread |-> h, at |-> at, control |-> c, source |-> x, gen |-> g]
          => row.thread = h /\ row.event = e
  OBVIOUS
<1>3. row.thread = Home(id) /\ row.event = id.event
  BY <1>1, <1>2, Zenon
<1> QED BY <1>3 DEF RowOk

LEMMA Keys ==
  ASSUME Rows_, NEW a \in DOMAIN messages
  PROVE  /\ Key(a) \in Int \X Int /\ Key(a)[1] >= 0
         /\ messages[a].thread = Home(a) /\ messages[a].event = a.event
         /\ messages[a].at \in Nat
<1>1. /\ a.event \in Event /\ a.rank \in {0, 1, 2}
      /\ messages[a].thread = Home(a) /\ messages[a].event = a.event
      /\ messages[a].at \in Nat
  <2>1. IdOk(a) /\ RowOk(a, messages[a])
    BY DEF Rows_
  <2>2. a.event \in Event /\ a.rank \in {0, 1, 2}
    BY <2>1, IdParts
  <2>3. messages[a].thread = Home(a) /\ messages[a].event = a.event /\ messages[a].at \in Nat
    BY <2>1, RowParts
  <2> QED BY <2>2, <2>3
<1>2. a.event.order \in Int
  BY <1>1, OrderAssumption
<1>3. Rank(a) \in Int
  BY <1>1, <1>2 DEF Rank
<1>4. Formatted(messages[a].at) \in Int /\ Formatted(messages[a].at) >= 0
  BY <1>1 DEF Formatted
<1> QED BY <1>1, <1>3, <1>4 DEF Key

LEMMA Thirds ==
  ASSUME NEW x \in Int, NEW y \in Int, NEW r \in {0, 1, 2}, NEW s \in {0, 1, 2},
         3 * x + r = 3 * y + s
  PROVE  x = y /\ r = s
  OBVIOUS

LEMMA KeysApart ==
  ASSUME Rows_, NEW a \in DOMAIN messages, NEW b \in DOMAIN messages, Key(a) = Key(b)
  PROVE  a = b
<1>0. IdOk(a) /\ IdOk(b)
  BY DEF Rows_
<1>1. /\ a.event \in Event /\ a.rank \in {0, 1, 2}
      /\ b.event \in Event /\ b.rank \in {0, 1, 2}
  BY <1>0, IdParts
<1>2. a.event.order \in Int /\ b.event.order \in Int
  BY <1>1, OrderAssumption
<1>3. 3 * a.event.order + a.rank = 3 * b.event.order + b.rank
  BY DEF Key, Rank
<1>4. a.event.order = b.event.order /\ a.rank = b.rank
  <2> DEFINE x == a.event.order  y == b.event.order  k == a.rank  l == b.rank
  <2>1. x \in Int /\ y \in Int /\ k \in {0, 1, 2} /\ l \in {0, 1, 2} /\ 3 * x + k = 3 * y + l
    BY <1>1, <1>2, <1>3
  <2> HIDE DEF x, y, k, l
  <2>2. x = y /\ k = l
    BY <2>1, Thirds
  <2> QED BY <2>2 DEF x, y, k, l
<1>5. a.event = b.event
  BY <1>1, <1>4, OrderAssumption
<1> QED BY <1>0, <1>4, <1>5, IdParts

LEMMA BeforeOrder ==
  ASSUME Rows_, NEW a \in DOMAIN messages, NEW b \in DOMAIN messages,
         NEW c \in DOMAIN messages
  PROVE  /\ ~Before(a, a)
         /\ a = b \/ Before(a, b) \/ Before(b, a)
         /\ Before(a, b) /\ Before(b, c) => Before(a, c)
         /\ Before(a, b) => ~Behind(Key(b), Key(a))
<1>1. /\ Key(a) \in Int \X Int /\ Key(b) \in Int \X Int /\ Key(c) \in Int \X Int
  BY Keys
<1>2. (Key(a) = Key(b) => a = b) /\ (Key(a) = Key(c) => a = c)
  BY KeysApart
<1>3. Before(a, b) => ~Behind(Key(b), Key(a))
  BY <1>1, <1>2, BehindOrder DEF Before
<1>4. a = b \/ Before(a, b) \/ Before(b, a)
  BY <1>1, BehindOrder DEF Before
<1>5. Before(a, b) /\ Before(b, c) => Before(a, c)
  <2> SUFFICES ASSUME Before(a, b), Before(b, c) PROVE Before(a, c)
    OBVIOUS
  <2>1. Behind(Key(a), Key(c))
    BY <1>1, BehindOrder DEF Before
  <2>2. a # c
    BY <1>3 DEF Before
  <2> QED BY <2>1, <2>2 DEF Before
<1> QED BY <1>3, <1>4, <1>5 DEF Before

\* Where a message is in the order of a set of messages.
Above_(S, id) == {other \in S : Before(other, id)}
Index(S, id) == Cardinality(Above_(S, id))

LEMMA Indexes ==
  ASSUME Rows_, NEW S \in SUBSET DOMAIN messages
  PROVE  /\ IsFiniteSet(S) /\ Cardinality(S) \in Nat
         /\ \A id \in S : Index(S, id) \in 0 .. Cardinality(S) - 1
         /\ \A a, b \in S : Before(a, b) => Index(S, a) < Index(S, b)
<1>1. IsFiniteSet(S) /\ Cardinality(S) \in Nat
  BY FS_Subset, FS_CardinalityType DEF Rows_
<1>2. ASSUME NEW id \in S
      PROVE  /\ IsFiniteSet(Above_(S, id)) /\ Index(S, id) \in Nat
             /\ Index(S, id) < Cardinality(S)
  <2>1. Above_(S, id) \in SUBSET S /\ id \notin Above_(S, id)
    BY BeforeOrder DEF Above_
  <2>2. /\ IsFiniteSet(Above_(S, id)) /\ Cardinality(Above_(S, id)) <= Cardinality(S)
        /\ Cardinality(Above_(S, id)) # Cardinality(S)
    BY <1>1, <2>1, FS_Subset
  <2>3. Cardinality(Above_(S, id)) \in Nat
    BY <2>2, FS_CardinalityType
  <2> QED BY <1>1, <2>2, <2>3 DEF Index
<1>3. ASSUME NEW a \in S, NEW b \in S, Before(a, b)
      PROVE  Index(S, a) < Index(S, b)
  <2>1. /\ Above_(S, a) \in SUBSET Above_(S, b)
        /\ a \in Above_(S, b) /\ a \notin Above_(S, a)
    BY <1>3, BeforeOrder DEF Above_
  <2>2. /\ Cardinality(Above_(S, a)) <= Cardinality(Above_(S, b))
        /\ Cardinality(Above_(S, a)) # Cardinality(Above_(S, b))
    BY <1>2, <2>1, FS_Subset
  <2> QED BY <1>2, <2>2 DEF Index
<1> QED BY <1>1, <1>2, <1>3

\* Every place in the order is taken, so a list has the messages of its set, ...
LEMMA ListOrder ==
  ASSUME Rows_, NEW S \in SUBSET DOMAIN messages
  PROVE  /\ DOMAIN Ordered(S) = 1 .. Cardinality(S) /\ Len(Ordered(S)) = Cardinality(S)
         /\ \A i \in 1 .. Cardinality(S) :
              Ordered(S)[i] \in S /\ Index(S, Ordered(S)[i]) = i - 1
         /\ \A id \in S : Ordered(S)[Index(S, id) + 1] = id
<1> DEFINE n == Cardinality(S)
           f == [id \in S |-> Index(S, id)]
<1>1. /\ IsFiniteSet(S) /\ n \in Nat
      /\ \A id \in S : Index(S, id) \in 0 .. n - 1
      /\ \A a, b \in S : Before(a, b) => Index(S, a) < Index(S, b)
  BY Indexes
<1>2. \A a, b \in S : Index(S, a) = Index(S, b) => a = b
  <2> SUFFICES ASSUME NEW a \in S, NEW b \in S, Index(S, a) = Index(S, b) PROVE a = b
    OBVIOUS
  <2>1. Index(S, a) \in Int /\ ~Before(a, b) /\ ~Before(b, a)
    BY <1>1
  <2> QED BY <2>1, BeforeOrder
<1>3. f \in Injection(S, 0 .. n - 1)
  <2>1. f \in [S -> 0 .. n - 1] /\ \A a, b \in S : f[a] = f[b] => a = b
    BY <1>1, <1>2
  <2> HIDE DEF f, n
  <2> QED BY <2>1 DEF Injection, IsInjective
<1>4. IsFiniteSet(0 .. n - 1) /\ Cardinality(0 .. n - 1) = n
  <2>1. 0 \in Int /\ n - 1 \in Int
    BY <1>1
  <2>2. IsFiniteSet(0 .. n - 1) /\ Cardinality(0 .. n - 1) = IF 0 > n - 1 THEN 0 ELSE n - 1 - 0 + 1
    BY <2>1, FS_Interval
  <2> QED BY <1>1, <2>2
<1>5. f \in Surjection(S, 0 .. n - 1)
  BY <1>3, <1>4, FS_Injection
<1>6. \A k \in 0 .. n - 1 : \E id \in S : Index(S, id) = k
  BY <1>5 DEF Surjection
<1>7. DOMAIN Ordered(S) = 1 .. n /\ Len(Ordered(S)) = n
  BY <1>1 DEF Ordered
<1>8. ASSUME NEW i \in 1 .. n
      PROVE  Ordered(S)[i] \in S /\ Index(S, Ordered(S)[i]) = i - 1
  <2>1. Ordered(S)[i] = CHOOSE id \in S : Index(S, id) = i - 1
    BY DEF Ordered, Index, Above_
  <2>2. \E id \in S : Index(S, id) = i - 1
    BY <1>1, <1>6
  <2> QED BY <2>1, <2>2, Zenon
<1>9. ASSUME NEW id \in S PROVE Ordered(S)[Index(S, id) + 1] = id
  <2> DEFINE i == Index(S, id) + 1
  <2>1. i \in 1 .. n /\ i - 1 = Index(S, id)
    BY <1>1
  <2> QED BY <1>2, <1>8, <2>1
<1> QED BY <1>7, <1>8, <1>9

\* ... its first messages come before the others, ...
Firsts(p, S) ==
  \E k \in 0 .. Cardinality(S) :
    DOMAIN p = 1 .. k /\ Len(p) = k /\ \A i \in 1 .. k : p[i] = Ordered(S)[i]

LEMMA FirstsOfList ==
  ASSUME Rows_, NEW S \in SUBSET DOMAIN messages, NEW p, NEW n \in Nat,
         p = Ordered(S) \/ Firsts(p, S)
  PROVE  Firsts(FirstOf(n, p), S)
<1>1. /\ Cardinality(S) \in Nat
      /\ DOMAIN Ordered(S) = 1 .. Cardinality(S) /\ Len(Ordered(S)) = Cardinality(S)
      /\ \A i \in 1 .. Cardinality(S) : Ordered(S)[i] \in S
  BY Indexes, ListOrder
<1>2. PICK k \in 0 .. Cardinality(S) :
        DOMAIN p = 1 .. k /\ Len(p) = k /\ \A i \in 1 .. k : p[i] = Ordered(S)[i]
  BY <1>1 DEF Firsts
<1> DEFINE m == IF Len(p) < n THEN Len(p) ELSE n
           q == SubSeq(p, 1, m)
<1>3. m \in 0 .. k
  BY <1>1, <1>2
<1>4. \A i \in 1 .. m : p[i] \in S
  BY <1>1, <1>2, <1>3
<1>5. q \in Seq(S) /\ Len(q) = m /\ \A i \in 1 .. m : q[i] = p[i]
  <2> HIDE DEF m
  <2>1. 1 \in Int /\ m \in Int
    BY <1>1, <1>3
  <2>2. /\ q \in Seq(S) /\ Len(q) = IF 1 <= m THEN m - 1 + 1 ELSE 0
        /\ \A i \in 1 .. m - 1 + 1 : q[i] = p[1 + i - 1]
    BY <1>4, <2>1, SubSeqProperties
  <2>3. m - 1 + 1 = m /\ \A i \in 1 .. m : 1 + i - 1 = i
    BY <2>1
  <2>4. Len(q) = m
    BY <1>1, <1>3, <2>1, <2>2
  <2> QED BY <2>2, <2>3, <2>4
<1>6. DOMAIN q = 1 .. m
  BY <1>5, LenProperties
<1>7. FirstOf(n, p) = q
  BY DEF FirstOf
<1> HIDE DEF q, m
<1>8. m \in 0 .. Cardinality(S) /\ \A i \in 1 .. m : q[i] = Ordered(S)[i]
  BY <1>1, <1>2, <1>3, <1>5
<1> QED BY <1>5, <1>6, <1>7, <1>8 DEF Firsts

LEMMA FirstsComeFirst ==
  ASSUME Rows_, NEW S \in SUBSET DOMAIN messages, NEW p, Firsts(p, S)
  PROVE  /\ \A i \in DOMAIN p : p[i] \in S
         /\ Len(p) \in Nat /\ DOMAIN p = 1 .. Len(p)
         /\ p # <<>> => Len(p) > 0
         /\ Len(p) > 0 => \A id \in S : Behind(Key(id), Key(p[Len(p)])) =>
                                          \E i \in DOMAIN p : p[i] = id
<1>1. PICK k \in 0 .. Cardinality(S) :
        DOMAIN p = 1 .. k /\ Len(p) = k /\ \A i \in 1 .. k : p[i] = Ordered(S)[i]
  BY DEF Firsts
<1>2. /\ Cardinality(S) \in Nat
      /\ \A i \in 1 .. Cardinality(S) : Ordered(S)[i] \in S /\ Index(S, Ordered(S)[i]) = i - 1
      /\ \A id \in S : Ordered(S)[Index(S, id) + 1] = id
      /\ \A id \in S : Index(S, id) \in 0 .. Cardinality(S) - 1
      /\ \A a, b \in S : Before(a, b) => Index(S, a) < Index(S, b)
  BY Indexes, ListOrder
<1>3. k \in Nat /\ \A i \in 1 .. k : p[i] \in S /\ Index(S, p[i]) = i - 1
  BY <1>1, <1>2
<1>4. ASSUME k > 0, NEW id \in S, Behind(Key(id), Key(p[k]))
      PROVE  \E i \in DOMAIN p : p[i] = id
  <2>1. p[k] \in S /\ Index(S, p[k]) = k - 1
    BY <1>3, <1>4
  <2>2. id = p[k] \/ Before(id, p[k])
    BY <1>4 DEF Before
  <2>3. Index(S, id) + 1 \in 1 .. k
    BY <1>2, <1>3, <2>1, <2>2
  <2> QED BY <1>1, <1>2, <2>3
<1>5. p = <<>> \/ k > 0
  <2> SUFFICES ASSUME k = 0 PROVE p = <<>>
    BY <1>3
  <2>1. DOMAIN p = {}
    BY <1>1
  <2> QED BY <1>1
<1> QED BY <1>1, <1>3, <1>4, <1>5

\* ... and its newest after them.
LEMMA NewestOrder ==
  ASSUME Rows_, NEW S \in SUBSET DOMAIN messages, NEW n \in Nat
  PROVE  /\ Newest(n, S) \in SUBSET S
         /\ \A id \in S \ Newest(n, S) :
              /\ Cardinality(Newest(n, S)) = n
              /\ \A o \in Newest(n, S) : Before(id, o)
<1> DEFINE c == Cardinality(S)
           lo == IF c > n THEN c - n + 1 ELSE 1
           s == Ordered(S)
           q == SubSeq(s, lo, c)
           W == {s[i] : i \in lo .. c}
<1>1. /\ c \in Nat /\ DOMAIN s = 1 .. c /\ Len(s) = c
      /\ \A i \in 1 .. c : s[i] \in S /\ Index(S, s[i]) = i - 1
      /\ \A id \in S : s[Index(S, id) + 1] = id /\ Index(S, id) \in 0 .. c - 1
      /\ \A a, b \in S : Before(a, b) => Index(S, a) < Index(S, b)
  BY Indexes, ListOrder
<1>2. lo \in 1 .. c + 1 /\ (c > n => lo = c - n + 1) /\ (c <= n => lo = 1)
  BY <1>1
<1> HIDE DEF c, lo, s
<1>3. Newest(n, S) = W
  <2>1. Newest(n, S) = {q[i] : i \in DOMAIN q}
    BY <1>1 DEF Newest, ToSet, lo, c, s
  <2>2. lo \in Int /\ c \in Int /\ \A i \in lo .. c : s[i] \in S
    BY <1>1, <1>2
  <2>3. /\ q \in Seq(S) /\ Len(q) = IF lo <= c THEN c - lo + 1 ELSE 0
        /\ \A i \in 1 .. c - lo + 1 : q[i] = s[lo + i - 1]
    BY <2>2, SubSeqProperties
  <2>4. DOMAIN q = 1 .. c - lo + 1
    <3>1. DOMAIN q = 1 .. Len(q)
      BY <2>3, LenProperties
    <3>2. lo <= c \/ c - lo + 1 = 0
      BY <1>1, <1>2
    <3> QED BY <2>2, <2>3, <3>1, <3>2
  <2> HIDE DEF q
  <2>5. \A i \in DOMAIN q : q[i] \in W
    BY <1>1, <1>2, <2>3, <2>4
  <2>6. \A i \in lo .. c : i - lo + 1 \in DOMAIN q /\ q[i - lo + 1] = s[i]
    <3> SUFFICES ASSUME NEW i \in lo .. c
                 PROVE  i - lo + 1 \in DOMAIN q /\ q[i - lo + 1] = s[i]
      OBVIOUS
    <3> DEFINE j == i - lo + 1
    <3>1. j \in 1 .. c - lo + 1 /\ lo + j - 1 = i
      BY <1>1, <1>2
    <3> QED BY <2>3, <2>4, <3>1
  <2> QED BY <2>1, <2>5, <2>6
<1>4. W \in SUBSET S
  BY <1>1, <1>2
<1>5. ASSUME NEW id \in S \ W
      PROVE  Cardinality(W) = n /\ \A o \in W : Before(id, o)
  <2>1. Index(S, id) + 1 \in 1 .. lo - 1
    BY <1>1, <1>2, <1>5
  <2>2. c > n /\ lo = c - n + 1
    BY <1>1, <1>2, <2>1
  <2>3. \A o \in W : Before(id, o)
    <3> SUFFICES ASSUME NEW i \in lo .. c PROVE Before(id, s[i])
      OBVIOUS
    <3>1. s[i] \in S /\ Index(S, s[i]) = i - 1
      BY <1>1, <1>2
    <3>2. id # s[i] /\ ~Before(s[i], id)
      BY <1>1, <1>2, <2>1, <3>1
    <3> QED BY <3>1, <3>2, BeforeOrder
  <2>4. Cardinality(W) = n
    <3> DEFINE f == [i \in lo .. c |-> s[i]]
    <3>1. f \in Surjection(lo .. c, W)
      BY DEF Surjection, IsInjective
    <3>2. f \in Injection(lo .. c, W)
      <4>1. f \in [lo .. c -> W]
        OBVIOUS
      <4>2. \A i, j \in lo .. c : s[i] = s[j] => i = j
        <5> SUFFICES ASSUME NEW i \in lo .. c, NEW j \in lo .. c, s[i] = s[j] PROVE i = j
          OBVIOUS
        <5>1. i - 1 = j - 1
          BY <1>1, <1>2
        <5> QED BY <1>1, <1>2, <5>1
      <4>3. \A i, j \in lo .. c : f[i] = f[j] => i = j
        BY <4>2
      <4>4. DOMAIN f = lo .. c
        OBVIOUS
      <4> HIDE DEF f
      <4> QED BY <4>1, <4>3, <4>4 DEF Injection, IsInjective
    <3>3. IsFiniteSet(lo .. c) /\ Cardinality(lo .. c) = n
      <4>1. lo \in Int /\ c \in Int
        BY <1>1, <1>2
      <4>2. /\ IsFiniteSet(lo .. c)
            /\ Cardinality(lo .. c) = IF lo > c THEN 0 ELSE c - lo + 1
        BY <4>1, FS_Interval
      <4> QED BY <1>1, <2>2, <4>2
    <3> HIDE DEF f, W
    <3>4. Cardinality(W) = Cardinality(lo .. c)
      BY <3>1, <3>2, <3>3, FS_Surjection
    <3> QED BY <3>3, <3>4
  <2> QED BY <2>3, <2>4
<1> HIDE DEF W
<1> QED BY <1>3, <1>4, <1>5

-----------------------------------------------------------------------------
(* What the steps of a turn do                                             *)

TurnRow(r) ==
  r = [pc |-> r.pc, cursor |-> r.cursor, batch |-> r.batch, seen |-> r.seen,
       gen |-> r.gen, bound |-> r.bound, told |-> r.told, shown |-> r.shown,
       ids |-> r.ids, since |-> r.since]
TurnType == DOMAIN turns = Event /\ \A e \in Event : TurnRow(turns[e])

\* Where a turn has read nothing that it still goes by, and where it has stored
\* its answer and the copy of it.
Free == {"idle", "append", "message", "thread", "latest", "context", "answer",
         "report", "reported", "threads", "select", "done"}
Answered_ == {"report", "reported", "threads", "done"}
Reported_ == {"threads", "done"}

Only(e) ==
  /\ DOMAIN turns' = Event /\ TurnRow(turns'[e])
  /\ \A d \in Event \ {e} : turns'[d] = turns[d]
SameBatch(e) ==
  /\ turns'[e].cursor = turns[e].cursor /\ turns'[e].batch = turns[e].batch
  /\ turns'[e].seen = turns[e].seen /\ turns'[e].gen = turns[e].gen
SameView(e) == turns'[e].bound = turns[e].bound /\ turns'[e].told = turns[e].told
SameChoice(e) == turns'[e].ids = turns[e].ids /\ turns'[e].since = turns[e].since
Same_(e) == Only(e) /\ SameBatch(e) /\ SameView(e) /\ SameChoice(e)
NoTables == UNCHANGED <<messages, summaries, epoch>>

\* A turn goes on, ...
Moves_(e) ==
  /\ Same_(e) /\ NoTables /\ ~TurnAt(e, "history")
  /\ turns'[e].pc \in Free \/ (TurnAt(e, "compress") /\ turns'[e].pc = "summarise")
  /\ turns[e].pc \in Answered_ => turns'[e].pc \in Answered_
  /\ turns[e].pc \in Reported_ => turns'[e].pc \in Reported_
\* ... stores a message, ...
Posts(e, id, row, from, to) ==
  /\ Same_(e) /\ TurnAt(e, from) /\ turns'[e].pc = to
  /\ messages' = With(messages, id, row) /\ UNCHANGED <<summaries, epoch>>
Adds(e) ==
  \/ Posts(e, Id(0, e, e.source), Row(e, e.thread, e.at, e.body = "control", ""),
           "message", "thread")
  \/ Posts(e, Id(1, e, ""), Row(e, e.thread, 2 * now + 1, FALSE, ""), "answer", "report")
  \/ Posts(e, Id(2, e, e.posts), Row(e, e.posts, 2 * now + 1, FALSE, e.posts),
           "reported", "threads")
\* ... finds where the last summary ends, ...
Finds(e) ==
  /\ Only(e) /\ SameView(e) /\ SameChoice(e) /\ NoTables
  /\ TurnAt(e, "latest") /\ turns'[e].pc = "list"
  /\ turns'[e].cursor = CursorOf(SummariesOf(e.thread, NoRow))
  /\ turns'[e].gen = epoch[e.thread]
\* ... takes what to tell of, ...
Listed_(e) == Listed(e.thread, NoRow, turns[e].cursor, NoRow)
Read_(e) == FirstOf(Batch, Ordered(Listed_(e)))
Takes(e, batch) ==
  /\ batch = IF Len(Read_(e)) > Recent_ THEN Candidates(Read_(e)) ELSE <<>>
  /\ Only(e) /\ SameView(e) /\ SameChoice(e) /\ NoTables
  /\ TurnAt(e, "list") /\ turns'[e].pc \in {"compress", "context"}
  /\ turns'[e].pc = "compress" => Len(batch) >= Trigger
  /\ turns'[e].cursor = turns[e].cursor /\ turns'[e].gen = turns[e].gen
  /\ turns'[e].seen = {id \in DOMAIN messages : messages[id].thread = e.thread}
  /\ turns'[e].batch = [i \in DOMAIN batch |-> [key |-> Key(batch[i]), id |-> batch[i],
                                                gen |-> messages[batch[i]].gen]]
\* ... and tells it; ...
Tells_(e) ==
  /\ Same_(e) /\ TurnAt(e, "summarise") /\ turns'[e].pc = "context"
  /\ summaries' = {s \in summaries : <<s.thread, s.from, s.to>>
                      # <<Summary(e).thread, Summary(e).from, Summary(e).to>>}
                    \cup {Summary(e)}
  /\ UNCHANGED <<messages, epoch>>
\* ... reads where its thread begins, the summaries and the messages; ...
Bounds(e) ==
  /\ Only(e) /\ SameBatch(e) /\ SameChoice(e) /\ NoTables
  /\ TurnAt(e, "context") /\ turns'[e].pc = "summaries"
  /\ turns'[e].bound = Boundary(e) /\ turns'[e].told = turns[e].told
Hears(e) ==
  /\ Only(e) /\ SameBatch(e) /\ SameChoice(e) /\ NoTables
  /\ TurnAt(e, "summaries") /\ turns'[e].pc = "history"
  /\ turns'[e].bound = turns[e].bound
  /\ turns'[e].told = IF e.thread = "" THEN LastOf(3, SummariesOf("", NoRow))
                      ELSE LastOf(3, SummariesOf(e.thread, NoRow))
                             \cup LastOf(1, SummariesOf("", Bound(e)))
Sees(e) ==
  LET here == Newest(History, Listed(e.thread, e, Cutoff(e, e.thread), NoRow))
      above == Newest(History, Listed("", e, Cutoff(e, ""), Bound(e)))
      root == IF turns[e].bound = NoRow THEN {}
              ELSE turns[e].bound.root \cap DOMAIN messages
  IN  /\ Same_(e) /\ NoTables
      /\ TurnAt(e, "history") /\ turns'[e].pc = "answer"
      /\ turns'[e].shown = IF e.thread = "" THEN here ELSE here \cup above \cup root
\* ... or it is a reset, which selects the memories and deletes everything.
Selects(e) ==
  /\ Only(e) /\ SameBatch(e) /\ SameView(e) /\ NoTables
  /\ TurnAt(e, "select") /\ turns'[e].pc = "reset"
  /\ turns'[e].ids = Resettable(e) /\ turns'[e].since = clock
Clears(e) ==
  /\ Same_(e) /\ TurnAt(e, "reset") /\ turns'[e].pc = "done"
  /\ messages' = Without(messages, {id \in DOMAIN messages :
                                      Covered(e, messages[id].thread)})
  /\ summaries' = {s \in summaries : ~Covered(e, s.thread)}
  /\ DeleteMemories(turns[e].ids)
  /\ epoch' = [p \in Place |-> epoch[p] + IF Covered(e, p) THEN 1 ELSE 0]
  /\ forgotAt' = [p \in Place |-> IF Covered(e, p) THEN turns[e].since ELSE forgotAt[p]]

LEMMA Goes_ ==
  ASSUME TurnType, NEW e \in Event, NEW pc, TurnTo(e, pc)
  PROVE  Same_(e) /\ turns'[e].pc = pc
<1>0. DOMAIN turns = Event /\ TurnRow(turns[e])
  BY DEF TurnType
<1> QED BY <1>0 DEF TurnTo, Same_, Only, SameBatch, SameView, SameChoice, TurnRow

LEMMA TurnKinds ==
  ASSUME TurnType, NEW e \in Event, TurnStep(e)
  PROVE  /\ UNCHANGED now
         /\ \/ Moves_(e) \/ Adds(e) \/ Finds(e) \/ (\E batch : Takes(e, batch))
            \/ Tells_(e) \/ Bounds(e) \/ Hears(e) \/ Sees(e)
            \/ Selects(e) \/ Clears(e)
<1>0. DOMAIN turns = Event /\ TurnRow(turns[e])
  BY DEF TurnType
<1>n. UNCHANGED now
  BY DEF TurnStep, others, BeginTurn, AppendEvent, PersistMessage, PersistThread,
         LatestSummary, ListCandidates, Compress, UpsertSummary, ReadBoundary,
         LoadSummaries, LoadHistory, PersistNextAction, Report, PersistReported,
         PersistReportedThread, SelectMemories, ResetContext
<1>1. ASSUME NEW pc, TurnTo(e, pc), NoTables, ~TurnAt(e, "history"),
             pc \in Free \/ (TurnAt(e, "compress") /\ pc = "summarise"),
             turns[e].pc \in Answered_ => pc \in Answered_,
             turns[e].pc \in Reported_ => pc \in Reported_
      PROVE  Moves_(e)
  BY <1>1, Goes_ DEF Moves_
<1> USE DEF TurnAt
<1>2. CASE BeginTurn(e) \/ AppendEvent(e)
  <2>1. PICK pc : TurnTo(e, pc) /\ pc \in {"select", "append", "message"}
    BY <1>2 DEF BeginTurn, AppendEvent
  <2>2. Moves_(e)
    BY <1>1, <1>2, <2>1
       DEF BeginTurn, AppendEvent, tables, others, NoTables, Free, Answered_, Reported_
  <2> QED BY <1>n, <2>2
<1>3. CASE PersistMessage(e)
  <2>1. CASE TurnTo(e, "append") /\ UNCHANGED messages
    <3>1. Moves_(e)
      BY <1>1, <1>3, <2>1
         DEF PersistMessage, others, NoTables, Free, Answered_, Reported_
    <3> QED BY <1>n, <3>1
  <2>2. CASE ~(TurnTo(e, "append") /\ UNCHANGED messages)
    <3>1. TurnTo(e, "thread")
      BY <1>3, <2>2 DEF PersistMessage
    <3>2. Same_(e) /\ turns'[e].pc = "thread"
      BY <3>1, Goes_
    <3>3. Posts(e, Id(0, e, e.source), Row(e, e.thread, e.at, e.body = "control", ""),
                "message", "thread")
      BY <1>3, <2>2, <3>2 DEF PersistMessage, others, Posts
    <3>4. Adds(e)
      BY <3>3 DEF Adds
    <3> QED BY <1>n, <3>4
  <2> QED BY <2>1, <2>2
<1>4. CASE PersistThread(e) \/ Compress(e)
  <2>1. PICK pc : TurnTo(e, pc) /\ (pc \in {"append", "latest", "context"}
                                   \/ (TurnAt(e, "compress") /\ pc = "summarise"))
    BY <1>4 DEF PersistThread, Compress
  <2>2. Moves_(e)
    BY <1>1, <1>4, <2>1
       DEF PersistThread, Compress, tables, others, NoTables, Free, Answered_, Reported_
  <2> QED BY <1>n, <2>2
<1>5. CASE LatestSummary(e)
  <2>1. Finds(e)
    BY <1>0, <1>5 DEF LatestSummary, Finds, Only, SameView, SameChoice, NoTables, TurnRow,
                      tables, others
  <2> QED BY <1>n, <2>1
<1>6. CASE ListCandidates(e)
  <2> DEFINE list == FirstOf(Batch, Ordered(Listed(e.thread, NoRow, turns[e].cursor, NoRow)))
             taken == IF Len(list) > Recent_ THEN Candidates(list) ELSE <<>>
             Pc(batch) == IF Len(batch) >= Trigger THEN "compress" ELSE "context"
             Told_(batch) == [i \in DOMAIN batch |-> [key |-> Key(batch[i]), id |-> batch[i],
                                                      gen |-> messages[batch[i]].gen]]
             seen == {id \in DOMAIN messages : messages[id].thread = e.thread}
  <2>1. turns' = [turns EXCEPT ![e].pc = Pc(taken), ![e].batch = Told_(taken),
                               ![e].seen = seen]
    BY <1>6 DEF ListCandidates
  <2>2. PICK batch : batch = taken
    OBVIOUS
  <2>a. PICK pc : pc = Pc(batch)
    OBVIOUS
  <2>b. PICK new : new = Told_(batch)
    OBVIOUS
  <2>c. turns' = [turns EXCEPT ![e].pc = pc, ![e].batch = new, ![e].seen = seen]
    <3> HIDE DEF taken, Pc, Told_, seen
    <3> QED BY <2>1, <2>2, <2>a, <2>b
  <2>d. batch = IF Len(Read_(e)) > Recent_ THEN Candidates(Read_(e)) ELSE <<>>
    BY <2>2 DEF Read_, Listed_
  <2> HIDE DEF taken, list
  <2>3. TurnAt(e, "list") /\ NoTables
    BY <1>6 DEF ListCandidates, NoTables, tables, others
  <2>4. /\ pc \in {"compress", "context"} /\ (pc = "compress" => Len(batch) >= Trigger)
        /\ Only(e) /\ SameView(e) /\ SameChoice(e)
        /\ turns'[e].cursor = turns[e].cursor /\ turns'[e].gen = turns[e].gen
        /\ turns'[e].seen = seen /\ turns'[e].batch = new /\ turns'[e].pc = pc
    <3>1. pc \in {"compress", "context"} /\ (pc = "compress" => Len(batch) >= Trigger)
      BY <2>a
    <3> HIDE DEF seen
    <3> QED BY <1>0, <2>c, <3>1 DEF Only, SameView, SameChoice, TurnRow
  <2>5. Takes(e, batch)
    BY <2>b, <2>d, <2>3, <2>4 DEF Takes
  <2> QED BY <1>n, <2>5
<1>7. CASE UpsertSummary(e)
  <2>1. CASE \E pc \in {"latest", "context"} : TurnTo(e, pc) /\ UNCHANGED summaries
    <3>1. PICK pc \in {"latest", "context"} : TurnTo(e, pc) /\ UNCHANGED summaries
      BY <2>1
    <3>2. Moves_(e)
      BY <1>1, <1>7, <3>1 DEF UpsertSummary, others, NoTables, Free, Answered_, Reported_
    <3> QED BY <1>n, <3>2
  <2>2. CASE ~\E pc \in {"latest", "context"} : TurnTo(e, pc) /\ UNCHANGED summaries
    <3>1. TurnTo(e, "context")
      BY <1>7, <2>2 DEF UpsertSummary
    <3>2. Same_(e) /\ turns'[e].pc = "context"
      BY <3>1, Goes_
    <3>3. Tells_(e)
      BY <1>7, <2>2, <3>2 DEF UpsertSummary, others, Tells_
    <3> QED BY <1>n, <3>3
  <2> QED BY <2>1, <2>2
<1>8. CASE ReadBoundary(e)
  <2>1. Bounds(e)
    BY <1>0, <1>8 DEF ReadBoundary, Bounds, Only, SameBatch, SameChoice, NoTables, TurnRow,
                      tables, others
  <2> QED BY <1>n, <2>1
<1>9. CASE LoadSummaries(e)
  <2> DEFINE Told(told) ==
        /\ told = IF e.thread = "" THEN LastOf(3, SummariesOf("", NoRow))
                  ELSE LastOf(3, SummariesOf(e.thread, NoRow))
                         \cup LastOf(1, SummariesOf("", Bound(e)))
        /\ turns' = [turns EXCEPT ![e].pc = "history", ![e].told = told]
  <2>1. \E told : Told(told)
    BY <1>9, Zenon DEF LoadSummaries
  <2>2. PICK told : Told(told)
    BY <2>1, Zenon
  <2>3. TurnAt(e, "summaries") /\ NoTables
    BY <1>9 DEF LoadSummaries, NoTables, tables, others
  <2>4. /\ Only(e) /\ SameBatch(e) /\ SameChoice(e) /\ turns'[e].pc = "history"
        /\ turns'[e].bound = turns[e].bound /\ turns'[e].told = told
    <3>1. turns' = [turns EXCEPT ![e].pc = "history", ![e].told = told]
      BY <2>2
    <3> QED BY <1>0, <3>1 DEF Only, SameBatch, SameChoice, TurnRow
  <2>5. Hears(e)
    BY <2>2, <2>3, <2>4 DEF Hears
  <2> QED BY <1>n, <2>5
<1>10. CASE LoadHistory(e)
  <2> DEFINE here == Newest(History, Listed(e.thread, e, Cutoff(e, e.thread), NoRow))
             above == Newest(History, Listed("", e, Cutoff(e, ""), Bound(e)))
             root == IF turns[e].bound = NoRow THEN {}
                     ELSE turns[e].bound.root \cap DOMAIN messages
             Shown(shown) ==
               /\ shown = IF e.thread = "" THEN here ELSE here \cup above \cup root
               /\ turns' = [turns EXCEPT ![e].pc = "answer", ![e].shown = shown]
  <2>1. \E shown : Shown(shown)
    BY <1>10, Zenon DEF LoadHistory
  <2>2. PICK shown : Shown(shown)
    BY <2>1, Zenon
  <2>3. TurnAt(e, "history") /\ NoTables
    BY <1>10 DEF LoadHistory, NoTables, tables, others
  <2>4. turns'[e].shown = shown /\ Same_(e) /\ turns'[e].pc = "answer"
    <3>1. turns' = [turns EXCEPT ![e].pc = "answer", ![e].shown = shown]
      BY <2>2
    <3> QED BY <1>0, <3>1 DEF Same_, Only, SameBatch, SameView, SameChoice, TurnRow
  <2>5. Sees(e)
    BY <2>2, <2>3, <2>4 DEF Sees
  <2> QED BY <1>n, <2>5
<1>11. CASE PersistNextAction(e)
  <2>1. CASE TurnTo(e, "answer") /\ UNCHANGED messages
    <3>1. Moves_(e)
      BY <1>1, <1>11, <2>1
         DEF PersistNextAction, others, NoTables, Free, Answered_, Reported_
    <3> QED BY <1>n, <3>1
  <2>2. CASE ~(TurnTo(e, "answer") /\ UNCHANGED messages)
    <3>1. TurnTo(e, "report")
      BY <1>11, <2>2 DEF PersistNextAction
    <3>2. Same_(e) /\ turns'[e].pc = "report"
      BY <3>1, Goes_
    <3>3. Posts(e, Id(1, e, ""), Row(e, e.thread, 2 * now + 1, FALSE, ""), "answer",
                "report")
      BY <1>11, <2>2, <3>2 DEF PersistNextAction, others, Posts
    <3>4. Adds(e)
      BY <3>3 DEF Adds
    <3> QED BY <1>n, <3>4
  <2> QED BY <2>1, <2>2
<1>12. CASE Report(e) \/ PersistReportedThread(e)
  <2>1. PICK pc : TurnTo(e, pc) /\ pc \in {"reported", "done"}
                  /\ (turns[e].pc \in Reported_ => pc = "done")
    BY <1>12 DEF Report, PersistReportedThread, Reported_
  <2>2. Moves_(e)
    BY <1>1, <1>12, <2>1
       DEF Report, PersistReportedThread, tables, others, NoTables, Free, Answered_,
           Reported_
  <2> QED BY <1>n, <2>2
<1>13. CASE PersistReported(e)
  <2>1. CASE TurnTo(e, "done") /\ UNCHANGED messages
    <3>1. Moves_(e)
      BY <1>1, <1>13, <2>1
         DEF PersistReported, others, NoTables, Free, Answered_, Reported_
    <3> QED BY <1>n, <3>1
  <2>2. CASE ~(TurnTo(e, "done") /\ UNCHANGED messages)
    <3>1. TurnTo(e, "threads")
      BY <1>13, <2>2 DEF PersistReported
    <3>2. Same_(e) /\ turns'[e].pc = "threads"
      BY <3>1, Goes_
    <3>3. Posts(e, Id(2, e, e.posts), Row(e, e.posts, 2 * now + 1, FALSE, e.posts),
                "reported", "threads")
      BY <1>13, <2>2, <3>2 DEF PersistReported, others, Posts
    <3>4. Adds(e)
      BY <3>3 DEF Adds
    <3> QED BY <1>n, <3>4
  <2> QED BY <2>1, <2>2
<1>14. CASE SelectMemories(e)
  <2>1. Selects(e)
    BY <1>0, <1>14 DEF SelectMemories, Selects, Only, SameBatch, SameView, NoTables,
                       TurnRow, tables, others
  <2> QED BY <1>n, <2>1
<1>15. CASE ResetContext(e)
  <2>1. CASE TurnTo(e, "select") /\ UNCHANGED <<messages, summaries, epoch>>
    <3>1. Moves_(e)
      BY <1>1, <1>15, <2>1 DEF ResetContext, NoTables, Free, Answered_, Reported_
    <3> QED BY <1>n, <3>1
  <2>2. CASE ~(TurnTo(e, "select") /\ UNCHANGED <<messages, summaries, epoch>>)
    <3>1. TurnTo(e, "done")
      BY <1>15, <2>2 DEF ResetContext
    <3>2. Same_(e) /\ turns'[e].pc = "done"
      BY <3>1, Goes_
    <3>3. Clears(e)
      BY <1>15, <2>2, <3>2 DEF ResetContext, Clears
    <3> QED BY <1>n, <3>3
  <2> QED BY <2>1, <2>2
<1> QED BY <1>2, <1>3, <1>4, <1>5, <1>6, <1>7, <1>8, <1>9, <1>10, <1>11, <1>12, <1>13,
           <1>14, <1>15 DEF TurnStep

-----------------------------------------------------------------------------
(* Messages                                                                *)

\* A message has the row its id says, and was written after the last reset of
\* its place; an answer and its copy are written once.
Epochs == DOMAIN epoch = Place /\ \A p \in Place : epoch[p] \in Nat
Written ==
  \A id \in DOMAIN messages :
    /\ messages[id].gen = epoch[Home(id)]
    /\ id.rank = 1 => turns[id.event].pc \in Answered_
    /\ id.rank = 2 => turns[id.event].pc \in Reported_
MessageInv == TurnType /\ now \in Nat /\ Epochs /\ Rows_ /\ Written

\* A message is added, or written again as it is.
Grew(id) ==
  /\ IdOk(id) /\ DOMAIN messages' = DOMAIN messages \cup {id}
  /\ \A x \in DOMAIN messages : messages'[x] = messages[x]
  /\ RowOk(id, messages'[id]) /\ messages'[id].gen = epoch[Home(id)]
  /\ id.rank = 1 => turns[id.event].pc = "answer" /\ turns'[id.event].pc = "report"
  /\ id.rank = 2 => turns[id.event].pc = "reported" /\ turns'[id.event].pc = "threads"
Cleared(e) ==
  /\ \A id : id \in DOMAIN messages' <=>
               id \in DOMAIN messages /\ ~Covered(e, messages[id].thread)
  /\ \A x \in DOMAIN messages' : messages'[x] = messages[x]

\* The message comes before the answer, and the answer before its copy, so only
\* the first can be there already.
LEMMA Grows ==
  ASSUME MessageInv, NEW e \in Event, Adds(e)
  PROVE  \E id : Grew(id)
<1>0. now \in Nat /\ e.at \in Nat
  BY TimeAssumption DEF MessageInv
<1>1. ASSUME NEW id, NEW row, IdOk(id), RowOk(id, row), row.gen = epoch[Home(id)],
             messages' = With(messages, id, row),
             id \in DOMAIN messages => messages[id] = row,
             id.rank = 1 => turns[id.event].pc = "answer" /\ turns'[id.event].pc = "report",
             id.rank = 2 => turns[id.event].pc = "reported" /\ turns'[id.event].pc = "threads"
      PROVE  Grew(id)
  <2>1. messages'[id] = row /\ DOMAIN messages' = DOMAIN messages \cup {id}
    BY <1>1 DEF With
  <2>2. \A x \in DOMAIN messages : messages'[x] = messages[x]
    BY <1>1 DEF With
  <2> QED BY <1>1, <2>1, <2>2 DEF Grew
<1>2. CASE Posts(e, Id(0, e, e.source), Row(e, e.thread, e.at, e.body = "control", ""),
                 "message", "thread")
  <2> DEFINE control == e.body = "control"
  <2>1. PICK id : id = Id(0, e, e.source)
    OBVIOUS
  <2>2. PICK row : row = Row(e, e.thread, e.at, control, "")
    OBVIOUS
  <2>3. id.rank = 0 /\ id.event = e /\ Home(id) = e.thread /\ IdOk(id)
    <3>1. id.rank = 0 /\ id.event = e
      BY <2>1 DEF Id
    <3>2. Home(id) = e.thread
      BY <3>1 DEF Home
    <3>3. IdOk(id)
      BY <2>1 DEF IdOk
    <3> QED BY <3>1, <3>2, <3>3
  <2> HIDE DEF control
  <2>4. row = [event |-> e, thread |-> e.thread, at |-> e.at, control |-> control,
               source |-> "", gen |-> epoch[e.thread]]
    BY <2>2 DEF Row
  <2>5. /\ RowOk(id, row) /\ row.gen = epoch[Home(id)]
    BY <1>0, <2>3, <2>4 DEF RowOk, control
  <2>6. ASSUME id \in DOMAIN messages PROVE messages[id] = row
    <3>1. PICK old : old = messages[id]
      OBVIOUS
    <3>2. RowOk(id, old) /\ old.gen = epoch[Home(id)]
      BY <2>6, <3>1 DEF MessageInv, Rows_, Written
    <3>3. /\ old = [event |-> e, thread |-> e.thread, at |-> old.at,
                    control |-> old.control, source |-> old.source, gen |-> old.gen]
          /\ old.at = e.at /\ old.control = control /\ old.source = ""
          /\ old.gen = epoch[e.thread]
      BY <2>3, <3>2 DEF RowOk, control
    <3> QED BY <2>4, <3>1, <3>3
  <2>7. messages' = With(messages, id, row)
    BY <1>2, <2>1, <2>2 DEF Posts, control
  <2> QED BY <1>1, <2>3, <2>5, <2>6, <2>7
<1>3. CASE Posts(e, Id(1, e, ""), Row(e, e.thread, 2 * now + 1, FALSE, ""), "answer", "report")
  <2>1. PICK id : id = Id(1, e, "")
    OBVIOUS
  <2>2. PICK row : row = Row(e, e.thread, 2 * now + 1, FALSE, "")
    OBVIOUS
  <2>3. id.rank = 1 /\ id.event = e /\ Home(id) = e.thread /\ IdOk(id)
    <3>1. id.rank = 1 /\ id.event = e
      BY <2>1 DEF Id
    <3>2. Home(id) = e.thread
      BY <3>1 DEF Home
    <3>3. IdOk(id)
      BY <2>1 DEF IdOk
    <3> QED BY <3>1, <3>2, <3>3
  <2>4. RowOk(id, row) /\ row.gen = epoch[Home(id)]
    <3>0. row.at \in Nat
      <4>1. row.at = 2 * now + 1
        BY <2>2 DEF Row
      <4> QED BY <1>0, <4>1
    <3>1. id.rank # 0
      BY <2>3, OneIsNotZero, Zenon
    <3>2. row = [event |-> id.event, thread |-> Home(id), at |-> row.at,
                 control |-> row.control, source |-> row.source, gen |-> row.gen]
      BY <2>2, <2>3 DEF Row
    <3>3. row.gen = epoch[Home(id)]
      BY <2>2, <2>3 DEF Row
    <3> QED BY <3>0, <3>1, <3>2, <3>3 DEF RowOk
  <2>5. /\ messages' = With(messages, id, row)
        /\ turns[e].pc = "answer" /\ turns'[e].pc = "report"
    BY <1>3, <2>1, <2>2 DEF Posts, TurnAt
  <2>6. id \notin DOMAIN messages
    BY <2>3, <2>5 DEF MessageInv, Written, Answered_
  <2> QED BY <1>1, <2>3, <2>4, <2>5, <2>6
<1>4. CASE Posts(e, Id(2, e, e.posts), Row(e, e.posts, 2 * now + 1, FALSE, e.posts),
                 "reported", "threads")
  <2>1. PICK id : id = Id(2, e, e.posts)
    OBVIOUS
  <2>2. PICK row : row = Row(e, e.posts, 2 * now + 1, FALSE, e.posts)
    OBVIOUS
  <2>3. id.rank = 2 /\ id.event = e /\ Home(id) = e.posts /\ IdOk(id)
    <3>1. id.rank = 2 /\ id.event = e
      BY <2>1 DEF Id
    <3>2. Home(id) = e.posts
      BY <3>1 DEF Home
    <3>3. IdOk(id)
      BY <2>1 DEF IdOk
    <3> QED BY <3>1, <3>2, <3>3
  <2>4. RowOk(id, row) /\ row.gen = epoch[Home(id)]
    <3>1. row.at \in Nat /\ id.rank # 0
      BY <1>0, <2>2, <2>3 DEF Row
    <3>2. row = [event |-> id.event, thread |-> Home(id), at |-> row.at,
                 control |-> row.control, source |-> row.source, gen |-> row.gen]
      BY <2>2, <2>3 DEF Row
    <3>3. row.gen = epoch[Home(id)]
      BY <2>2, <2>3 DEF Row
    <3> QED BY <3>1, <3>2, <3>3 DEF RowOk
  <2>5. /\ messages' = With(messages, id, row)
        /\ turns[e].pc = "reported" /\ turns'[e].pc = "threads"
    BY <1>4, <2>1, <2>2 DEF Posts, TurnAt
  <2>6. id \notin DOMAIN messages
    BY <2>3, <2>5 DEF MessageInv, Written, Reported_
  <2> QED BY <1>1, <2>3, <2>4, <2>5, <2>6
<1> QED BY <1>1, <1>2, <1>3, <1>4 DEF Adds

\* What a turn does to itself and to the messages.
Follows(e) ==
  /\ TurnType' /\ Only(e)
  /\ turns[e].pc \in Answered_ => turns'[e].pc \in Answered_
  /\ turns[e].pc \in Reported_ => turns'[e].pc \in Reported_
Resets_(e) ==
  /\ Cleared(e) /\ DOMAIN epoch' = Place
  /\ \A p \in Place : epoch'[p] = epoch[p] + IF Covered(e, p) THEN 1 ELSE 0

LEMMA Follow ==
  ASSUME TurnType, NEW e \in Event, TurnStep(e)
  PROVE  Follows(e)
<1>1. Only(e)
  <2>1. \/ Moves_(e) \/ Adds(e) \/ Finds(e) \/ (\E batch : Takes(e, batch))
        \/ Tells_(e) \/ Bounds(e) \/ Hears(e) \/ Sees(e) \/ Selects(e) \/ Clears(e)
    BY TurnKinds
  <2>2. Adds(e) => Only(e)
    BY DEF Adds, Posts, Same_
  <2> QED BY <2>1, <2>2 DEF Moves_, Finds, Takes, Tells_, Bounds, Hears, Sees, Selects,
                            Clears, Same_
<1>2. TurnType'
  BY <1>1 DEF Only, TurnType
<1>3. /\ turns[e].pc \in Answered_ => turns'[e].pc \in Answered_
      /\ turns[e].pc \in Reported_ => turns'[e].pc \in Reported_
  <2>1. CASE Moves_(e)
    BY <2>1 DEF Moves_
  <2>2. CASE Adds(e)
    BY <2>2 DEF Adds, Posts, TurnAt, Answered_, Reported_
  <2>3. CASE \/ Finds(e) \/ (\E batch : Takes(e, batch)) \/ Tells_(e) \/ Bounds(e)
             \/ Hears(e) \/ Sees(e) \/ Selects(e) \/ Clears(e)
    BY <2>3 DEF Finds, Takes, Tells_, Bounds, Hears, Sees, Selects, Clears, TurnAt,
                Answered_, Reported_
  <2> QED BY <2>1, <2>2, <2>3, TurnKinds
<1> QED BY <1>1, <1>2, <1>3 DEF Follows

LEMMA MessageSteps ==
  ASSUME MessageInv, NEW e \in Event, TurnStep(e)
  PROVE  \/ UNCHANGED <<messages, epoch>>
         \/ (\E id : Grew(id)) /\ UNCHANGED epoch
         \/ Resets_(e)
<1>0. TurnType /\ Epochs
  BY DEF MessageInv
<1>1. CASE Adds(e)
  <2>1. UNCHANGED epoch
    BY <1>1 DEF Adds, Posts
  <2> QED BY <1>1, <2>1, Grows
<1>2. CASE Clears(e)
  <2>1. Cleared(e)
    BY <1>2 DEF Clears, Cleared, Without
  <2>2. DOMAIN epoch' = Place /\ \A p \in Place : epoch'[p] = epoch[p] + IF Covered(e, p) THEN 1 ELSE 0
    BY <1>2 DEF Clears
  <2> QED BY <2>1, <2>2 DEF Resets_
<1>3. CASE \/ Moves_(e) \/ Finds(e) \/ (\E batch : Takes(e, batch)) \/ Tells_(e)
           \/ Bounds(e) \/ Hears(e) \/ Sees(e) \/ Selects(e)
  BY <1>3 DEF Moves_, Finds, Takes, Tells_, Bounds, Hears, Sees, Selects, NoTables
<1> QED BY <1>0, <1>1, <1>2, <1>3, TurnKinds

LEMMA ConversationSteps ==
  ASSUME CastInv, [Next]_vars
  PROVE  \/ \E e \in Event : TurnStep(e)
         \/ /\ UNCHANGED <<events, messages, threads, summaries, turns, epoch, forgotAt>>
            /\ now' \in {now, now + 1}
<1>1. CASE \E e \in cast.events : TurnStep(e)
  BY <1>1, CastAssumption DEF CastInv
<1>2. CASE Tick \/ UNCHANGED vars
  BY <1>2 DEF Tick, vars, conversationVars, tables
<1> QED BY <1>1, <1>2 DEF Next, conversationVars

LEMMA MessageKept ==
  ASSUME CastInv, MessageInv, [Next]_vars
  PROVE  MessageInv'
<1>0. TurnType /\ now \in Nat /\ Epochs /\ Rows_ /\ Written
  BY DEF MessageInv
<1>1. CASE /\ UNCHANGED <<events, messages, threads, summaries, turns, epoch, forgotAt>>
           /\ now' \in {now, now + 1}
  <2>1. TurnType' /\ Epochs' /\ Rows_' /\ Written' /\ now' \in Nat
    BY <1>0, <1>1 DEF TurnType, Epochs, Rows_, Written
  <2> QED BY <2>1 DEF MessageInv
<1>2. ASSUME NEW e \in Event, TurnStep(e)
      PROVE  MessageInv'
  <2>1. Follows(e) /\ now' = now
    BY <1>0, <1>2, Follow, TurnKinds
  <2>2. \A id : IdOk(id) => /\ id.event \in Event /\ id.rank \in {0, 1, 2}
                            /\ Home(id) \in Place
    BY IdParts
  <2>3. \A d \in Event : /\ turns[d].pc \in Answered_ => turns'[d].pc \in Answered_
                         /\ turns[d].pc \in Reported_ => turns'[d].pc \in Reported_
    BY <2>1 DEF Follows, Only
  <2>4. CASE UNCHANGED <<messages, epoch>>
    <3>1. Epochs' /\ Rows_'
      BY <1>0, <2>4 DEF Epochs, Rows_
    <3>2. Written'
      BY <1>0, <2>2, <2>3, <2>4 DEF Rows_, Written
    <3> QED BY <1>0, <2>1, <3>1, <3>2 DEF MessageInv, Follows
  <2>5. CASE (\E id : Grew(id)) /\ UNCHANGED epoch
    <3> PICK id : Grew(id)
      BY <2>5
    <3>1. Epochs'
      BY <1>0, <2>5 DEF Epochs
    <3>2. Rows_'
      <4>1. IsFiniteSet(DOMAIN messages')
        BY <1>0, FS_AddElement DEF Grew, Rows_
      <4> QED BY <1>0, <4>1 DEF Grew, Rows_
    <3>3. Written'
      <4>1. ASSUME NEW x \in DOMAIN messages' PROVE
              /\ messages'[x].gen = epoch'[Home(x)]
              /\ x.rank = 1 => turns'[x.event].pc \in Answered_
              /\ x.rank = 2 => turns'[x.event].pc \in Reported_
        <5>1. CASE x \in DOMAIN messages
          BY <1>0, <2>2, <2>3, <2>5, <5>1 DEF Grew, Rows_, Written
        <5>2. CASE x = id
          BY <2>5, <5>2 DEF Grew, Answered_, Reported_
        <5> QED BY <5>1, <5>2 DEF Grew
      <4> QED BY <4>1 DEF Written
    <3> QED BY <1>0, <2>1, <3>1, <3>2, <3>3 DEF MessageInv, Follows
  <2>6. CASE Resets_(e)
    <3>1. Epochs'
      BY <1>0, <2>6 DEF Epochs, Resets_
    <3>2. Rows_'
      <4>1. DOMAIN messages' \in SUBSET DOMAIN messages
        BY <2>6 DEF Resets_, Cleared
      <4>2. IsFiniteSet(DOMAIN messages')
        BY <1>0, <4>1, FS_Subset DEF Rows_
      <4> QED BY <1>0, <2>6, <4>1, <4>2 DEF Resets_, Cleared, Rows_
    <3>3. Written'
      <4>1. ASSUME NEW x \in DOMAIN messages' PROVE
              /\ messages'[x].gen = epoch'[Home(x)]
              /\ x.rank = 1 => turns'[x.event].pc \in Answered_
              /\ x.rank = 2 => turns'[x.event].pc \in Reported_
        <5>1. /\ x \in DOMAIN messages /\ messages'[x] = messages[x] /\ IdOk(x)
              /\ ~Covered(e, messages[x].thread)
          BY <1>0, <2>6 DEF Resets_, Cleared, Rows_
        <5>2. messages[x].thread = Home(x) /\ Home(x) \in Place
          BY <1>0, <2>2, <5>1, Keys
        <5>3. epoch'[Home(x)] = epoch[Home(x)]
          BY <1>0, <2>6, <5>1, <5>2 DEF Resets_, Epochs
        <5> QED BY <1>0, <2>2, <2>3, <5>1, <5>3 DEF Written
      <4> QED BY <4>1 DEF Written
    <3> QED BY <1>0, <2>1, <3>1, <3>2, <3>3 DEF MessageInv, Follows
  <2> QED BY <1>2, <2>4, <2>5, <2>6, MessageSteps
<1> QED BY <1>1, <1>2, ConversationSteps

-----------------------------------------------------------------------------
(* Memories                                                                *)

\* A reset has selected every memory of its places that was written before,
\* and none is left from before the last reset that was done.
ForgotInv ==
  /\ DOMAIN forgotAt = Place /\ \A p \in Place : forgotAt[p] \in 0 .. clock
  /\ \A e \in Event : turns[e].pc = "reset" =>
       /\ turns[e].since \in 0 .. clock
       /\ \A id \in Resettable(e) : memories[id].at <= turns[e].since => id \in turns[e].ids
  /\ \A id \in DOMAIN memories :
       memories[id].key.scope \in {"channel", "thread"} /\ PlaceOf(memories[id]) \in Place
         => memories[id].at > forgotAt[PlaceOf(memories[id])]
WholeInv == \A id \in DOMAIN memories : KeyIsWhole(memories[id].key)

\* A memory stays as it is, or is written now.
Written_ ==
  /\ clock' \in Nat /\ clock' >= clock
  /\ \A id \in DOMAIN memories' :
       \/ id \in DOMAIN memories /\ memories'[id] = memories[id]
       \/ /\ clock' = clock + 1 /\ memories'[id].at = clock'
          /\ KeyIsWhole(memories'[id].key)

LEMMA CallWrites ==
  ASSUME CallType, MemoryType, NEW c \in Call, CallStep(c)
  PROVE  Written_
<1>0. clock \in Nat
  BY DEF MemoryType
<1>1. CASE Goes(c) \/ Stores(c) \/ Forgets(c)
  BY <1>0, <1>1 DEF Goes, Stores, Forgets, DeleteMemories, Without, Written_
<1>2. ASSUME NEW id, NEW row, Writes(c, id, row) PROVE Written_
  <2> DEFINE new == [row EXCEPT !.at = clock + 1]
  <2>1. /\ memories' = With(memories, id, new) /\ clock' = clock + 1
        /\ MemoryRow(row) /\ KeyIsWhole(row.key)
    BY <1>2 DEF Writes, Refused
  <2>2. new.at = clock + 1 /\ new.key = row.key
    BY <2>1 DEF MemoryRow
  <2> HIDE DEF new
  <2> QED BY <1>0, <2>1, <2>2 DEF With, Written_
<1> QED BY <1>1, <1>2, Effects

LEMMA ForgetSteps ==
  ASSUME CastInv, CallType, MemoryType, [Next]_vars
  PROVE  \/ Written_ /\ UNCHANGED <<turns, forgotAt>>
         \/ \E e \in Event : TurnStep(e)
<1>1. CASE \E e \in cast.events : TurnStep(e)
  BY <1>1, CastAssumption DEF CastInv
<1>2. CASE \E c \in cast.calls : CallStep(c) /\ UNCHANGED conversationVars
  <2>1. PICK c \in Call : CallStep(c) /\ UNCHANGED conversationVars
    BY <1>2, CastAssumption DEF CastInv
  <2> QED BY <2>1, CallWrites DEF conversationVars
<1>3. CASE UNCHANGED memoryVars /\ UNCHANGED <<turns, forgotAt>>
  BY <1>3 DEF memoryVars, Written_, MemoryType
<1> QED BY <1>1, <1>2, <1>3 DEF Next, Tick, vars, conversationVars

\* Of a turn only the deletion of a reset touches the memories, and only the
\* selection before it begins one.
LEMMA ResetSteps ==
  ASSUME TurnType, NEW e \in Event, TurnStep(e)
  PROVE  /\ UNCHANGED clock /\ Only(e)
         /\ \/ /\ UNCHANGED <<memories, forgotAt>>
               /\ turns'[e].pc # "reset" \/ Selects(e)
            \/ Clears(e)
<1>0. UNCHANGED clock /\ Only(e)
  BY TurnFrame, Follow DEF Follows
<1>1. turns'[e].pc # "reset" \/ Selects(e) \/ Clears(e)
  <2>1. CASE Moves_(e)
    BY <2>1 DEF Moves_, Free
  <2>2. CASE Adds(e)
    BY <2>2 DEF Adds, Posts
  <2>3. CASE \/ Finds(e) \/ (\E batch : Takes(e, batch)) \/ Tells_(e) \/ Bounds(e)
             \/ Hears(e) \/ Sees(e)
    BY <2>3 DEF Finds, Takes, Tells_, Bounds, Hears, Sees
  <2> QED BY <2>1, <2>2, <2>3, TurnKinds
<1>2. CASE ~ResetContext(e)
  BY <1>0, <1>1, <1>2, TurnFrame
<1>3. CASE ResetContext(e)
  <2>1. CASE UNCHANGED <<memories, forgotAt>> /\ TurnTo(e, "select")
    <3>1. turns'[e].pc = "select"
      BY <2>1, Goes_
    <3> QED BY <1>0, <2>1, <3>1
  <2>2. CASE ~(UNCHANGED <<memories, forgotAt>> /\ TurnTo(e, "select"))
    <3>1. TurnTo(e, "done")
      BY <1>3, <2>2 DEF ResetContext
    <3>2. Same_(e) /\ turns'[e].pc = "done"
      BY <3>1, Goes_
    <3>3. Clears(e)
      BY <1>3, <2>2, <3>2 DEF ResetContext, Clears
    <3> QED BY <1>0, <3>3
  <2> QED BY <2>1, <2>2
<1> QED BY <1>2, <1>3

LEMMA WholeKept ==
  ASSUME CastInv, CallType, MemoryType, WholeInv, [Next]_vars
  PROVE  WholeInv'
<1>1. ASSUME NEW c \in Call, CallStep(c) PROVE WholeInv'
  BY <1>1, CallWrites DEF Written_, WholeInv
<1>2. ASSUME NEW ids, DeleteMemories(ids) PROVE WholeInv'
  BY <1>2 DEF DeleteMemories, Without, WholeInv
<1>3. CASE UNCHANGED memoryVars
  BY <1>3 DEF memoryVars, WholeInv
<1> QED BY <1>1, <1>2, <1>3, MemorySteps

LEMMA ThreadOfKey ==
  ASSUME NEW key, key = KeyOf(key.scope, key), key.thread # ""
  PROVE  key.scope = "thread"
<1>1. \A scope, src : KeyOf(scope, src).thread = IF scope = "thread" THEN src.thread ELSE ""
  BY DEF KeyOf
<1>2. key.thread = IF key.scope = "thread" THEN key.thread ELSE ""
  BY <1>1, Zenon
<1> QED BY <1>2

LEMMA ForgotKept ==
  ASSUME CastInv, CallType, MemoryType, TurnType, ForgotInv, [Next]_vars
  PROVE  ForgotInv'
<1>0. /\ clock \in Nat
      /\ DOMAIN forgotAt = Place /\ \A p \in Place : forgotAt[p] \in 0 .. clock
  BY DEF MemoryType, ForgotInv
<1>1. CASE Written_ /\ UNCHANGED <<turns, forgotAt>>
  <2>1. \A p \in Place : forgotAt'[p] \in 0 .. clock'
    BY <1>0, <1>1 DEF Written_
  <2>2. ASSUME NEW e \in Event, turns'[e].pc = "reset"
        PROVE  /\ turns'[e].since \in 0 .. clock'
               /\ \A id \in Resettable(e)' :
                    memories'[id].at <= turns'[e].since => id \in turns'[e].ids
    <3>1. turns'[e].since \in 0 .. clock /\ turns'[e] = turns[e] /\ turns[e].pc = "reset"
      BY <1>1, <2>2 DEF ForgotInv
    <3>2. ASSUME NEW id \in Resettable(e)', memories'[id].at <= turns'[e].since
          PROVE  id \in turns'[e].ids
      <4>1. id \in DOMAIN memories /\ memories'[id] = memories[id]
        <5>1. id \in DOMAIN memories'
          BY <3>2 DEF Resettable
        <5>2. PICK at : at = memories'[id].at
          OBVIOUS
        <5>3. ~(at = clock' /\ clock' = clock + 1)
          BY <1>0, <3>1, <3>2, <5>2
        <5> QED BY <1>1, <5>1, <5>2, <5>3 DEF Written_
      <4>2. id \in Resettable(e)
        BY <3>2, <4>1 DEF Resettable
      <4> QED BY <3>1, <3>2, <4>1, <4>2 DEF ForgotInv
    <3> QED BY <1>0, <1>1, <3>1, <3>2 DEF Written_
  <2>3. ASSUME NEW id \in DOMAIN memories',
               memories'[id].key.scope \in {"channel", "thread"},
               PlaceOf(memories'[id]) \in Place
        PROVE  memories'[id].at > forgotAt'[PlaceOf(memories'[id])]
    BY <1>0, <1>1, <2>3 DEF Written_, ForgotInv
  <2> QED BY <1>0, <1>1, <2>1, <2>2, <2>3 DEF ForgotInv
<1>2. ASSUME NEW e \in Event, TurnStep(e)
      PROVE  ForgotInv'
  <2>0. UNCHANGED clock /\ Only(e)
    BY <1>2, ResetSteps
  <2>1. ASSUME UNCHANGED <<memories, forgotAt>>, turns'[e].pc # "reset" \/ Selects(e)
        PROVE  ForgotInv'
    <3>1. ASSUME NEW d \in Event, turns'[d].pc = "reset"
          PROVE  /\ turns'[d].since \in 0 .. clock'
                 /\ \A id \in Resettable(d)' :
                      memories'[id].at <= turns'[d].since => id \in turns'[d].ids
      <4>1. Resettable(d)' = Resettable(d)
        BY <2>1 DEF Resettable
      <4>2. CASE d = e
        BY <1>0, <2>0, <2>1, <3>1, <4>1, <4>2 DEF Selects
      <4>3. CASE d # e
        BY <2>0, <2>1, <3>1, <4>1, <4>3 DEF Only, ForgotInv
      <4> QED BY <4>2, <4>3
    <3>2. \A id \in DOMAIN memories' :
            memories'[id].key.scope \in {"channel", "thread"} /\ PlaceOf(memories'[id]) \in Place
              => memories'[id].at > forgotAt'[PlaceOf(memories'[id])]
      BY <2>1 DEF ForgotInv
    <3> QED BY <1>0, <2>0, <2>1, <3>1, <3>2 DEF ForgotInv
  <2>2. ASSUME Clears(e)
        PROVE  ForgotInv'
    <3>0. /\ memories' = Without(memories, turns[e].ids) /\ turns'[e].pc = "done"
          /\ turns[e].pc = "reset" /\ DOMAIN forgotAt' = Place
          /\ \A p \in Place : forgotAt'[p] = IF Covered(e, p) THEN turns[e].since
                                             ELSE forgotAt[p]
      BY <2>2 DEF Clears, DeleteMemories, TurnAt
    <3>1. /\ turns[e].since \in 0 .. clock
          /\ \A id \in Resettable(e) : memories[id].at <= turns[e].since => id \in turns[e].ids
      BY <3>0 DEF ForgotInv
    <3>2. \A id \in DOMAIN memories' : /\ id \in DOMAIN memories /\ id \notin turns[e].ids
                                       /\ memories'[id] = memories[id]
      BY <3>0 DEF Without
    <3>3. ASSUME NEW d \in Event, turns'[d].pc = "reset"
          PROVE  /\ turns'[d].since \in 0 .. clock'
                 /\ \A id \in Resettable(d)' :
                      memories'[id].at <= turns'[d].since => id \in turns'[d].ids
      <4>1. turns'[d] = turns[d]
        BY <2>0, <3>0, <3>3 DEF Only
      <4>2. \A id \in Resettable(d)' : id \in Resettable(d) /\ memories'[id] = memories[id]
        BY <3>2 DEF Resettable
      <4> QED BY <2>0, <3>3, <4>1, <4>2 DEF ForgotInv
    <3>4. ASSUME NEW id \in DOMAIN memories',
                 memories'[id].key.scope \in {"channel", "thread"},
                 PlaceOf(memories'[id]) \in Place
          PROVE  memories'[id].at > forgotAt'[PlaceOf(memories'[id])]
      <4> DEFINE p == PlaceOf(memories[id])
      <4>1. /\ id \in DOMAIN memories /\ id \notin turns[e].ids /\ memories'[id] = memories[id]
            /\ memories[id].at \in 1 .. clock
            /\ memories[id].key.scope \in {"channel", "thread"} /\ p \in Place
        BY <3>2, <3>4 DEF MemoryType
      <4>2. CASE ~Covered(e, p)
        <5>1. memories[id].at > forgotAt[p] /\ forgotAt'[p] = forgotAt[p]
          BY <3>0, <4>1, <4>2 DEF ForgotInv
        <5> QED BY <4>1, <5>1
      <4>3. CASE Covered(e, p)
        <5>1. id \in Resettable(e)
          <6>1. CASE e.thread = ""
            BY <4>1, <6>1 DEF Resettable, Covered
          <6>2. CASE e.thread # ""
            <7>1. memories[id].key.thread # ""
              BY <4>3, <6>2 DEF Covered, PlaceOf
            <7>2. memories[id].key = KeyOf(memories[id].key.scope, memories[id].key)
              BY <4>1 DEF MemoryType
            <7>3. memories[id].key.scope = "thread"
              BY <7>1, <7>2, ThreadOfKey
            <7> QED BY <4>1, <4>3, <6>2, <7>3 DEF Resettable
          <6> QED BY <6>1, <6>2
        <5>2. ~(memories[id].at <= turns[e].since) /\ forgotAt'[p] = turns[e].since
          BY <3>0, <3>1, <4>1, <4>3, <5>1
        <5> QED BY <1>0, <3>1, <4>1, <5>2
      <4> QED BY <4>2, <4>3
    <3>5. \A p \in Place : forgotAt'[p] \in 0 .. clock'
      BY <1>0, <2>0, <3>0, <3>1
    <3> QED BY <3>0, <3>3, <3>4, <3>5 DEF ForgotInv
  <2> QED BY <1>2, <2>1, <2>2, ResetSteps
<1> QED BY <1>1, <1>2, ForgetSteps

-----------------------------------------------------------------------------
(* Summaries                                                               *)

\* Nothing of a place is lost.
NoLoss(p) ==
  /\ \A id \in DOMAIN messages :
       messages[id].thread = p => id \in DOMAIN messages' /\ messages'[id] = messages[id]
  /\ \A s \in summaries : s.thread = p => \E t \in summaries' : t.thread = p /\ t.to = s.to

\* A turn that compresses goes by the end of a summary of its place; what it
\* tells of is all that it has seen between there and the last it tells of.  If
\* its place was reset meanwhile nothing is said of it.
Current(e) == turns[e].gen = epoch[e.thread]
CursorOk(e) ==
  /\ turns[e].cursor \in Int \X Int
  /\ turns[e].gen \in 0 .. epoch[e.thread]
  /\ Current(e) => \/ turns[e].cursor = NoCursor
                   \/ \E s \in summaries : s.thread = e.thread /\ s.to = turns[e].cursor
End(e) == turns[e].batch[Len(turns[e].batch)].key
ShapeOk(e) ==
  /\ Len(turns[e].batch) \in Nat \ {0}
  /\ DOMAIN turns[e].batch = 1 .. Len(turns[e].batch)
  /\ End(e) \in Int \X Int /\ ~Behind(End(e), turns[e].cursor)
CoversOk(e) ==
  Current(e) =>
    /\ \A id \in turns[e].seen : id \in DOMAIN messages /\ messages[id].thread = e.thread
    /\ \A i \in DOMAIN turns[e].batch : turns[e].batch[i].gen = turns[e].gen
    /\ \A id \in turns[e].seen :
         ~messages[id].control /\ Behind(Key(id), End(e)) =>
           \/ \E i \in DOMAIN turns[e].batch : turns[e].batch[i].id = id
           \/ Behind(Key(id), turns[e].cursor)
TurnInv ==
  \A e \in Event :
    /\ turns[e].pc \in {"list", "compress", "summarise"} => CursorOk(e)
    /\ turns[e].pc \in {"compress", "summarise"} => ShapeOk(e) /\ CoversOk(e)

LEMMA PlacesKept ==
  ASSUME MessageInv, NEW e \in Event, TurnStep(e), NEW p \in Place
  PROVE  /\ epoch[p] \in Nat /\ epoch'[p] \in Nat
         /\ epoch'[p] > epoch[p] \/ (epoch'[p] = epoch[p] /\ NoLoss(p))
<1>0. TurnType /\ epoch[p] \in Nat
  BY DEF MessageInv, Epochs
<1>1. CASE Clears(e)
  <2>1. /\ epoch'[p] = epoch[p] + IF Covered(e, p) THEN 1 ELSE 0
        /\ messages' = Without(messages, {id \in DOMAIN messages :
                                            Covered(e, messages[id].thread)})
        /\ summaries' = {s \in summaries : ~Covered(e, s.thread)}
    BY <1>1 DEF Clears
  <2>2. ~Covered(e, p) => NoLoss(p)
    BY <2>1 DEF Without, NoLoss
  <2> QED BY <1>0, <2>1, <2>2
<1>2. CASE Tells_(e)
  <2>1. \A s \in summaries : \E t \in summaries' : t.thread = s.thread /\ t.to = s.to
    <3>1. ASSUME NEW s \in summaries
          PROVE  \E t \in summaries' : t.thread = s.thread /\ t.to = s.to
      <4>1. CASE <<s.thread, s.from, s.to>>
                   = <<Summary(e).thread, Summary(e).from, Summary(e).to>>
        <5>1. Summary(e) \in summaries'
          BY <1>2 DEF Tells_
        <5>2. Summary(e).thread = s.thread /\ Summary(e).to = s.to
          BY <4>1
        <5> QED BY <5>1, <5>2
      <4>2. CASE <<s.thread, s.from, s.to>>
                   # <<Summary(e).thread, Summary(e).from, Summary(e).to>>
        BY <1>2, <4>2 DEF Tells_
      <4> QED BY <4>1, <4>2
    <3> QED BY <3>1
  <2>2. UNCHANGED <<messages, epoch>>
    BY <1>2 DEF Tells_
  <2>3. NoLoss(p)
    BY <2>1, <2>2 DEF NoLoss
  <2> QED BY <1>0, <2>2, <2>3
<1>3. CASE Adds(e)
  <2>1. UNCHANGED <<summaries, epoch>>
    BY <1>3 DEF Adds, Posts
  <2>2. PICK id : Grew(id)
    BY <1>3, Grows
  <2>3. NoLoss(p)
    BY <2>1, <2>2 DEF Grew, NoLoss
  <2> QED BY <1>0, <2>1, <2>3
<1>4. CASE NoTables
  BY <1>0, <1>4 DEF NoTables, NoLoss
<1> QED BY <1>0, <1>1, <1>2, <1>3, <1>4, TurnKinds
       DEF Moves_, Finds, Takes, Bounds, Hears, Sees, Selects

LEMMA PlaceOfEvent == \A e \in Event : e.thread \in Place /\ e.posts \in Place
  BY DEF Place

LEMMA CursorKept ==
  ASSUME MessageInv, NEW e \in Event, TurnStep(e), NEW d \in Event, SameBatch(d), CursorOk(d)
  PROVE  CursorOk(d)'
<1>1. /\ epoch[d.thread] \in Nat /\ epoch'[d.thread] \in Nat
      /\ epoch'[d.thread] > epoch[d.thread]
         \/ (epoch'[d.thread] = epoch[d.thread] /\ NoLoss(d.thread))
  BY PlacesKept, PlaceOfEvent
<1>2. turns'[d].gen = turns[d].gen /\ turns'[d].cursor = turns[d].cursor
  BY DEF SameBatch
<1>3. turns[d].gen \in 0 .. epoch[d.thread] /\ turns[d].cursor \in Int \X Int
  BY DEF CursorOk
<1>4. turns'[d].gen \in 0 .. epoch'[d.thread]
  BY <1>1, <1>2, <1>3
<1>5. CASE epoch'[d.thread] > epoch[d.thread]
  <2>1. turns'[d].gen # epoch'[d.thread]
    BY <1>1, <1>2, <1>3, <1>5
  <2> QED BY <1>2, <1>3, <1>4, <2>1 DEF CursorOk, Current
<1>6. CASE epoch'[d.thread] = epoch[d.thread] /\ NoLoss(d.thread)
  BY <1>2, <1>3, <1>4, <1>6 DEF CursorOk, Current, NoLoss
<1> QED BY <1>1, <1>5, <1>6

LEMMA CoversKept ==
  ASSUME MessageInv, NEW e \in Event, TurnStep(e), NEW d \in Event, SameBatch(d),
         CursorOk(d), ShapeOk(d), CoversOk(d)
  PROVE  ShapeOk(d)' /\ CoversOk(d)'
<1>1. /\ epoch[d.thread] \in Nat /\ epoch'[d.thread] \in Nat
      /\ epoch'[d.thread] > epoch[d.thread]
         \/ (epoch'[d.thread] = epoch[d.thread] /\ NoLoss(d.thread))
  BY PlacesKept, PlaceOfEvent
<1>2. /\ turns'[d].gen = turns[d].gen /\ turns'[d].cursor = turns[d].cursor
      /\ turns'[d].batch = turns[d].batch /\ turns'[d].seen = turns[d].seen
      /\ End(d)' = End(d)
  BY DEF SameBatch, End
<1>3. ShapeOk(d)'
  BY <1>2 DEF ShapeOk
<1>4. CASE epoch'[d.thread] > epoch[d.thread]
  <2>1. turns'[d].gen # epoch'[d.thread]
    BY <1>1, <1>2, <1>4 DEF CursorOk
  <2> QED BY <1>3, <2>1 DEF CoversOk, Current
<1>5. CASE epoch'[d.thread] = epoch[d.thread] /\ NoLoss(d.thread)
  <2> SUFFICES ASSUME Current(d)' PROVE CoversOk(d)'
    BY <1>3 DEF CoversOk
  <2>1. Current(d)
    BY <1>2, <1>5 DEF Current
  <2>2. \A id \in turns[d].seen :
          /\ id \in DOMAIN messages /\ messages[id].thread = d.thread
          /\ id \in DOMAIN messages' /\ messages'[id] = messages[id] /\ Key(id)' = Key(id)
    BY <1>5, <2>1 DEF CoversOk, NoLoss, Key
  <2> QED BY <1>2, <2>1, <2>2 DEF CoversOk
<1> QED BY <1>1, <1>4, <1>5

\* A summary is of what its turn had seen, and whatever is behind its end is told
\* by a summary up to there, or had not been seen or was not of the time since
\* the last reset when that one was written.
SummaryOk(s) ==
  /\ s.thread \in Place /\ s.to \in Int \X Int /\ s.covers # {}
  /\ s.gen \in 0 .. epoch[s.thread]
  /\ s.gen = epoch[s.thread] =>
       /\ \A id \in s.seen : id \in DOMAIN messages /\ messages[id].thread = s.thread
       /\ \A c \in s.covers : c.gen = s.gen
Good(id, key) ==
  \E s \in summaries : Of(s, id) /\ Behind(s.to, key) /\ (Tells(s, id) \/ Late(s, id))
SummaryInv ==
  /\ IsFiniteSet(summaries) /\ \A s \in summaries : SummaryOk(s)
  /\ \A s \in summaries, id \in DOMAIN messages :
       Of(s, id) /\ ~messages[id].control => Good(id, s.to)

LEMMA SummarySteps ==
  ASSUME TurnType, NEW e \in Event, TurnStep(e)
  PROVE  UNCHANGED summaries \/ Tells_(e) \/ Clears(e)
<1>1. Adds(e) => UNCHANGED summaries
  BY DEF Adds, Posts
<1> QED BY <1>1, TurnKinds
       DEF Moves_, Finds, Takes, Bounds, Hears, Sees, Selects, NoTables

LEMMA CursorFound ==
  ASSUME NEW S, IsFiniteSet(S), \A s \in S : s.to \in Int \X Int
  PROVE  /\ CursorOf(S) \in Int \X Int
         /\ CursorOf(S) = NoCursor \/ \E s \in S : s.to = CursorOf(S)
<1>1. CASE S = {}
  BY <1>1 DEF CursorOf, NoCursor
<1>2. CASE S # {}
  <2> DEFINE key == [s \in S |-> s.to]
             Latest(s) == \A t \in S : Behind(t.to, s.to)
  <2>1. key \in [S -> Int \X Int]
    OBVIOUS
  <2> HIDE DEF key
  <2>2. \E s \in S : \A t \in S : Behind(key[t], key[s])
    BY <1>2, <2>1, LatestKey
  <2>3. \E s \in S : Latest(s)
    BY <2>2 DEF key
  <2>4. CursorOf(S) = (CHOOSE s \in S : Latest(s)).to
    BY <1>2 DEF CursorOf
  <2> HIDE DEF Latest
  <2>5. (CHOOSE s \in S : Latest(s)) \in S
    BY <2>3, Zenon
  <2> QED BY <2>4, <2>5
<1> QED BY <1>1, <1>2

\* What a turn takes to tell of begins behind the cursor and leaves nothing out.
LEMMA TakesAll ==
  ASSUME Rows_, NEW e \in Event, NEW batch, Len(batch) >= Trigger,
         batch = IF Len(Read_(e)) > Recent_ THEN Candidates(Read_(e)) ELSE <<>>
  PROVE  /\ Len(batch) \in Nat \ {0} /\ DOMAIN batch = 1 .. Len(batch)
         /\ \A i \in DOMAIN batch : batch[i] \in Listed_(e)
         /\ \A id \in Listed_(e) :
              Behind(Key(id), Key(batch[Len(batch)])) => \E i \in DOMAIN batch : batch[i] = id
<1>0. Trigger \in Nat \ {0} /\ Recent_ \in Nat /\ Batch \in Nat
  BY SizeAssumption
<1>1. Listed_(e) \in SUBSET DOMAIN messages
  BY DEF Listed_, Listed
<1>2. Firsts(Read_(e), Listed_(e))
  BY <1>0, <1>1, FirstsOfList DEF Read_
<1>3. Len(Read_(e)) \in Nat
  BY <1>1, <1>2, FirstsComeFirst
<1>4. Len(Read_(e)) > Recent_
  <2> SUFFICES ASSUME ~(Len(Read_(e)) > Recent_) PROVE FALSE
    OBVIOUS
  <2>1. batch = <<>>
    OBVIOUS
  <2>2. Len(batch) = 0
    BY <2>1
  <2> QED BY <1>0, <2>2
<1>5. batch = FirstOf(Len(Read_(e)) - Recent_, Read_(e))
  BY <1>4 DEF Candidates
<1>6. Firsts(batch, Listed_(e))
  <2>0. Len(Read_(e)) - Recent_ \in Nat
    BY <1>0, <1>3, <1>4
  <2>1. PICK n : n \in Nat /\ n = Len(Read_(e)) - Recent_
    BY <2>0, Zenon
  <2>2. PICK read : read = Read_(e)
    OBVIOUS
  <2>3. Firsts(FirstOf(n, read), Listed_(e))
    <3>1. n \in Nat /\ Firsts(read, Listed_(e))
      BY <1>2, <2>1, <2>2
    <3> QED BY <1>1, <3>1, FirstsOfList
  <2> QED BY <1>5, <2>1, <2>2, <2>3
<1>7. Len(batch) \in Nat /\ DOMAIN batch = 1 .. Len(batch)
  BY <1>1, <1>6, FirstsComeFirst
<1>8. Len(batch) > 0
  BY <1>0, <1>7
<1>9. /\ \A i \in DOMAIN batch : batch[i] \in Listed_(e)
      /\ \A id \in Listed_(e) :
           Behind(Key(id), Key(batch[Len(batch)])) => \E i \in DOMAIN batch : batch[i] = id
  BY <1>1, <1>6, <1>8, FirstsComeFirst
<1> QED BY <1>7, <1>8, <1>9

LEMMA Taken ==
  ASSUME MessageInv, NEW e \in Event, NEW batch, Takes(e, batch), CursorOk(e),
         turns'[e].pc = "compress"
  PROVE  ShapeOk(e)' /\ CoversOk(e)'
<1>0. Rows_ /\ Written /\ UNCHANGED <<messages, epoch>>
  BY DEF MessageInv, Takes, NoTables
<1>1. /\ Len(batch) \in Nat \ {0} /\ DOMAIN batch = 1 .. Len(batch)
      /\ \A i \in DOMAIN batch : batch[i] \in Listed_(e)
      /\ \A id \in Listed_(e) :
           Behind(Key(id), Key(batch[Len(batch)])) => \E i \in DOMAIN batch : batch[i] = id
  BY <1>0, TakesAll DEF Takes
<1> DEFINE n == Len(batch)
           new == [i \in 1 .. n |-> [key |-> Key(batch[i]), id |-> batch[i],
                                     gen |-> messages[batch[i]].gen]]
<1>2. /\ turns'[e].batch = new /\ turns'[e].cursor = turns[e].cursor
      /\ turns'[e].gen = turns[e].gen
      /\ turns'[e].seen = {id \in DOMAIN messages : messages[id].thread = e.thread}
  BY <1>1 DEF Takes
<1>3. Len(new) = n /\ DOMAIN new = 1 .. n
  BY <1>1
<1>4. \A i \in 1 .. n : /\ new[i].key = Key(batch[i]) /\ new[i].id = batch[i]
                        /\ new[i].gen = messages[batch[i]].gen
  OBVIOUS
<1> HIDE DEF new
<1>5. End(e)' = Key(batch[n])
  BY <1>1, <1>2, <1>3, <1>4 DEF End
<1>6. \A i \in 1 .. n : /\ batch[i] \in DOMAIN messages /\ messages[batch[i]].thread = e.thread
                        /\ ~Behind(Key(batch[i]), turns[e].cursor)
  BY <1>1 DEF Listed_, Listed
<1>7. ShapeOk(e)'
  <2>1. Key(batch[n]) \in Int \X Int /\ ~Behind(Key(batch[n]), turns[e].cursor)
    BY <1>0, <1>1, <1>6, Keys
  <2> QED BY <1>1, <1>2, <1>3, <1>5, <2>1 DEF ShapeOk
<1>8. ASSUME Current(e)'
      PROVE  CoversOk(e)'
  <2>1. turns[e].gen = epoch[e.thread]
    BY <1>0, <1>2, <1>8 DEF Current
  <2>2. \A i \in 1 .. n : new[i].gen = turns[e].gen
    <3>1. \A i \in 1 .. n : Home(batch[i]) = e.thread
      BY <1>0, <1>6, Keys
    <3> QED BY <1>0, <1>4, <1>6, <2>1, <3>1 DEF Written
  <2>3. ASSUME NEW id \in DOMAIN messages, messages[id].thread = e.thread,
               ~messages[id].control, Behind(Key(id), Key(batch[n])),
               ~Behind(Key(id), turns[e].cursor)
        PROVE  \E i \in 1 .. n : new[i].id = id
    <3>1. messages[id].event # NoRow
      <4>1. messages[id].event = id.event /\ IdOk(id)
        BY <1>0, Keys DEF Rows_
      <4>2. id.event \in Event
        BY <4>1, IdParts
      <4> QED BY <4>1, <4>2, NothingAssumption
    <3>2. id \in Listed_(e)
      BY <2>3, <3>1 DEF Listed_, Listed
    <3> QED BY <1>1, <1>4, <2>3, <3>2
  <2>4. \A id : Key(id)' = Key(id)
    BY <1>0 DEF Key
  <2> QED BY <1>0, <1>2, <1>3, <1>5, <2>2, <2>3, <2>4 DEF CoversOk
<1> QED BY <1>7, <1>8 DEF CoversOk

LEMMA TurnKept ==
  ASSUME MessageInv, SummaryInv, TurnInv, NEW e \in Event, TurnStep(e)
  PROVE  TurnInv'
<1>0. TurnType /\ Only(e)
  BY Follow DEF MessageInv, Follows
<1>1. ASSUME NEW d \in Event, SameBatch(d)
      PROVE  /\ CursorOk(d) => CursorOk(d)'
             /\ CursorOk(d) /\ ShapeOk(d) /\ CoversOk(d) => ShapeOk(d)' /\ CoversOk(d)'
  BY <1>1, CursorKept, CoversKept
<1>2. ASSUME NEW d \in Event, d # e
      PROVE  /\ turns'[d].pc \in {"list", "compress", "summarise"} => CursorOk(d)'
             /\ turns'[d].pc \in {"compress", "summarise"} => ShapeOk(d)' /\ CoversOk(d)'
  <2>1. SameBatch(d) /\ turns'[d].pc = turns[d].pc
    BY <1>0, <1>2 DEF Only, SameBatch
  <2> QED BY <1>1, <2>1 DEF TurnInv
<1>3. /\ turns'[e].pc \in {"list", "compress", "summarise"} => CursorOk(e)'
      /\ turns'[e].pc \in {"compress", "summarise"} => ShapeOk(e)' /\ CoversOk(e)'
  <2>1. CASE Moves_(e)
    <3>1. SameBatch(e)
      BY <2>1 DEF Moves_, Same_
    <3>2. turns'[e].pc \in {"list", "compress", "summarise"} =>
            turns[e].pc = "compress" /\ turns'[e].pc = "summarise"
      BY <2>1 DEF Moves_, Free, TurnAt
    <3> QED BY <1>1, <3>1, <3>2 DEF TurnInv
  <2>2. CASE Finds(e)
    <3>1. /\ turns'[e].pc = "list" /\ turns'[e].gen = epoch[e.thread]
          /\ turns'[e].cursor = CursorOf(SummariesOf(e.thread, NoRow))
          /\ UNCHANGED <<messages, summaries, epoch>>
      BY <2>2 DEF Finds, NoTables
    <3> DEFINE S == SummariesOf(e.thread, NoRow)
    <3>2. /\ IsFiniteSet(S) /\ \A s \in S : s \in summaries /\ s.thread = e.thread
          /\ \A s \in S : s.to \in Int \X Int
      <4>1. S \in SUBSET summaries /\ \A s \in S : s.thread = e.thread
        BY DEF SummariesOf
      <4>2. IsFiniteSet(S)
        BY <4>1, FS_Subset DEF SummaryInv
      <4> QED BY <4>1, <4>2 DEF SummaryInv, SummaryOk
    <3> HIDE DEF S
    <3>3. /\ CursorOf(S) \in Int \X Int
          /\ CursorOf(S) = NoCursor \/ \E s \in S : s.to = CursorOf(S)
      BY <3>2, CursorFound
    <3>4. epoch[e.thread] \in 0 .. epoch[e.thread]
      BY PlaceOfEvent DEF MessageInv, Epochs
    <3>5. CursorOk(e)'
      BY <3>1, <3>2, <3>3, <3>4 DEF CursorOk, S
    <3> QED BY <3>1, <3>5
  <2>3. ASSUME NEW batch, Takes(e, batch)
        PROVE  /\ turns'[e].pc \in {"list", "compress", "summarise"} => CursorOk(e)'
               /\ turns'[e].pc \in {"compress", "summarise"} => ShapeOk(e)' /\ CoversOk(e)'
    <3>1. CursorOk(e)
      BY <2>3 DEF Takes, TurnAt, TurnInv
    <3>2. CursorOk(e)'
      BY <2>3, <3>1 DEF Takes, NoTables, CursorOk, Current
    <3>3. turns'[e].pc \in {"compress", "context"}
      BY <2>3 DEF Takes
    <3> QED BY <2>3, <3>1, <3>2, <3>3, Taken
  <2>4. CASE Adds(e) \/ Tells_(e) \/ Bounds(e) \/ Hears(e) \/ Sees(e) \/ Selects(e) \/ Clears(e)
    BY <2>4 DEF Adds, Posts, Tells_, Bounds, Hears, Sees, Selects, Clears
  <2> QED BY <1>0, <2>1, <2>2, <2>3, <2>4, TurnKinds
<1> QED BY <1>2, <1>3 DEF TurnInv

\* The row a compression writes: what it tells of, and what it leaves to the
\* summaries before it.
LEMMA SummaryMade ==
  ASSUME MessageInv, SummaryInv, TurnInv, NEW e \in Event, TurnAt(e, "summarise"),
         NEW n, n = Summary(e)
  PROVE  /\ SummaryOk(n)
         /\ \A id \in DOMAIN messages :
              Of(n, id) /\ ~messages[id].control =>
                \/ Tells(n, id) \/ Late(n, id)
                \/ \E s \in summaries : /\ Of(s, id) /\ (Tells(s, id) \/ Late(s, id))
                                        /\ Behind(s.to, n.to) /\ s.to # n.to
<1>1. CursorOk(e) /\ ShapeOk(e) /\ CoversOk(e)
  BY DEF TurnAt, TurnInv
<1>2. /\ n.thread = e.thread /\ n.to = End(e) /\ n.seen = turns[e].seen
      /\ n.gen = turns[e].gen
      /\ n.covers = {[id |-> b.id, gen |-> b.gen] : b \in ToSet(turns[e].batch)}
  BY DEF Summary, End
<1>3. \A c : c \in n.covers <=>
               \E i \in DOMAIN turns[e].batch :
                 c = [id |-> turns[e].batch[i].id, gen |-> turns[e].batch[i].gen]
  BY <1>2 DEF ToSet
<1>4. n.thread \in Place /\ n.to \in Int \X Int /\ n.gen \in 0 .. epoch[n.thread]
  BY <1>1, <1>2, PlaceOfEvent DEF CursorOk, ShapeOk
<1>5. SummaryOk(n)
  <2>1. 1 \in DOMAIN turns[e].batch
    BY <1>1 DEF ShapeOk
  <2>2. n.covers # {}
    BY <1>3, <2>1
  <2>3. ASSUME n.gen = epoch[n.thread], NEW c \in n.covers PROVE c.gen = n.gen
    <3>1. PICK i \in DOMAIN turns[e].batch :
            c = [id |-> turns[e].batch[i].id, gen |-> turns[e].batch[i].gen]
      BY <1>3
    <3> QED BY <1>1, <1>2, <2>3, <3>1 DEF CoversOk, Current
  <2>4. n.gen = epoch[n.thread] =>
          \A id \in n.seen : id \in DOMAIN messages /\ messages[id].thread = n.thread
    BY <1>1, <1>2 DEF CoversOk, Current
  <2> QED BY <1>4, <2>2, <2>3, <2>4 DEF SummaryOk
<1>6. ASSUME NEW id \in DOMAIN messages, Of(n, id), ~messages[id].control, ~Late(n, id),
             ~Tells(n, id)
      PROVE  \E s \in summaries : /\ Of(s, id) /\ (Tells(s, id) \/ Late(s, id))
                                  /\ Behind(s.to, n.to) /\ s.to # n.to
  <2>1. /\ messages[id].thread = e.thread /\ Behind(Key(id), End(e))
        /\ id \in turns[e].seen /\ turns[e].gen = messages[id].gen
    BY <1>2, <1>6 DEF Of, Late
  <2>2. Home(id) = e.thread /\ Key(id) \in Int \X Int /\ Key(id)[1] >= 0
    BY <2>1, Keys DEF MessageInv
  <2>3. Current(e)
    BY <2>1, <2>2 DEF MessageInv, Written, Current
  <2>4. ~\E i \in DOMAIN turns[e].batch : turns[e].batch[i].id = id
    <3> SUFFICES ASSUME NEW i \in DOMAIN turns[e].batch, turns[e].batch[i].id = id
                 PROVE  FALSE
      OBVIOUS
    <3>1. turns[e].batch[i].gen = messages[id].gen
      BY <1>1, <2>1, <2>3 DEF CoversOk
    <3>2. [id |-> id, gen |-> messages[id].gen] \in n.covers
      BY <1>3, <3>1
    <3> QED BY <1>6, <3>2 DEF Tells
  <2>5. Behind(Key(id), turns[e].cursor)
    BY <1>1, <1>6, <2>1, <2>3, <2>4 DEF CoversOk
  <2>6. turns[e].cursor # NoCursor
    BY <2>2, <2>5 DEF NoCursor, Behind
  <2>7. PICK s \in summaries : s.thread = e.thread /\ s.to = turns[e].cursor
    BY <1>1, <2>3, <2>6 DEF CursorOk
  <2>8. Of(s, id)
    BY <2>1, <2>5, <2>7 DEF Of
  <2>9. PICK t \in summaries :
          Of(t, id) /\ Behind(t.to, s.to) /\ (Tells(t, id) \/ Late(t, id))
    BY <1>6, <2>8 DEF SummaryInv, Good
  <2>10. t.to \in Int \X Int /\ s.to \in Int \X Int /\ n.to \in Int \X Int
    BY <1>4 DEF SummaryInv, SummaryOk
  <2>11. ~Behind(n.to, s.to)
    BY <1>1, <1>2, <2>7 DEF ShapeOk
  <2>12. Behind(t.to, n.to) /\ t.to # n.to
    BY <2>9, <2>10, <2>11, BehindOrder
  <2> QED BY <2>9, <2>12
<1> QED BY <1>5, <1>6

LEMMA SummaryStays ==
  ASSUME NEW s, SummaryOk(s), epoch'[s.thread] = epoch[s.thread], NoLoss(s.thread)
  PROVE  SummaryOk(s)'
<1>1. \A id \in DOMAIN messages :
        messages[id].thread = s.thread => id \in DOMAIN messages' /\ messages'[id] = messages[id]
  BY DEF NoLoss
<1> QED BY <1>1 DEF SummaryOk

LEMMA SummariesStay ==
  ASSUME MessageInv, SummaryInv, NEW e \in Event, TurnStep(e), UNCHANGED <<summaries, epoch>>
  PROVE  \A s \in summaries : SummaryOk(s)'
<1> SUFFICES ASSUME NEW s \in summaries PROVE SummaryOk(s)'
  OBVIOUS
<1>1. SummaryOk(s) /\ s.thread \in Place
  BY DEF SummaryInv, SummaryOk
<1>2. /\ epoch[s.thread] \in Nat /\ epoch'[s.thread] \in Nat
      /\ epoch'[s.thread] > epoch[s.thread]
         \/ (epoch'[s.thread] = epoch[s.thread] /\ NoLoss(s.thread))
  BY <1>1, PlacesKept
<1>3. NoLoss(s.thread)
  BY <1>2
<1> QED BY <1>1, <1>3, SummaryStays

LEMMA SummaryKept ==
  ASSUME MessageInv, SummaryInv, TurnInv, NEW e \in Event, TurnStep(e)
  PROVE  SummaryInv'
<1>0. TurnType /\ Rows_ /\ Written /\ Epochs
  BY DEF MessageInv
<1>1. CASE NoTables
  <2>1. \A s \in summaries, id \in DOMAIN messages :
          Of(s, id) /\ ~messages[id].control => Good(id, s.to)
    BY DEF SummaryInv
  <2>2. \A s : SummaryOk(s) => SummaryOk(s)'
    BY <1>1 DEF NoTables, SummaryOk
  <2>3. \A s, id : /\ Of(s, id)' <=> Of(s, id)
                   /\ Tells(s, id)' <=> Tells(s, id)
                   /\ Late(s, id)' <=> Late(s, id)
    BY <1>1 DEF NoTables, Of, Tells, Late, Key
  <2>4. \A id, key : Good(id, key) => Good(id, key)'
    BY <1>1, <2>3 DEF NoTables, Good
  <2>5. \A s \in summaries', id \in DOMAIN messages' :
          Of(s, id)' /\ ~messages'[id].control => Good(id, s.to)'
    BY <1>1, <2>1, <2>3, <2>4 DEF NoTables
  <2> QED BY <1>1, <2>2, <2>5 DEF NoTables, SummaryInv
<1>2. CASE Adds(e)
  <2>0. UNCHANGED <<summaries, epoch>>
    BY <1>2 DEF Adds, Posts
  <2>1. PICK new : Grew(new)
    BY <1>2, Grows
  <2>2. \A x \in DOMAIN messages : messages'[x] = messages[x] /\ Key(x)' = Key(x)
    BY <2>1 DEF Grew, Key
  <2>3. \A s, x : x \in DOMAIN messages => /\ Of(s, x)' <=> Of(s, x)
                                           /\ Tells(s, x)' <=> Tells(s, x)
                                           /\ Late(s, x)' <=> Late(s, x)
    BY <2>2 DEF Of, Tells, Late
  <2>4. ASSUME NEW s \in summaries, NEW x \in DOMAIN messages', Of(s, x)',
               ~messages'[x].control
        PROVE  Good(x, s.to)'
    <3>1. CASE x \in DOMAIN messages
      <4>1. Of(s, x) /\ ~messages[x].control
        BY <2>2, <2>3, <2>4, <3>1
      <4>2. Good(x, s.to)
        BY <3>1, <4>1 DEF SummaryInv
      <4> QED BY <2>0, <2>3, <3>1, <4>2 DEF Good
    <3>2. CASE x \notin DOMAIN messages
      <4>1. x = new /\ messages'[x].thread = Home(x) /\ messages'[x].gen = epoch[Home(x)]
        BY <2>1, <2>4, <3>2, RowParts DEF Grew
      <4>2. s.thread = Home(x) /\ SummaryOk(s)
        BY <2>4, <4>1 DEF Of, SummaryInv
      <4>3. Late(s, x)'
        BY <3>2, <4>1, <4>2 DEF SummaryOk, Late
      <4>4. Behind(s.to, s.to)
        BY <4>2, BehindOrder DEF SummaryOk
      <4> QED BY <2>0, <2>4, <4>3, <4>4 DEF Good
    <3> QED BY <3>1, <3>2
  <2>5. \A s \in summaries : SummaryOk(s)'
    BY <2>0, SummariesStay
  <2> QED BY <2>0, <2>4, <2>5 DEF SummaryInv
<1>3. CASE Tells_(e)
  <2>0. /\ TurnAt(e, "summarise") /\ UNCHANGED <<messages, epoch>>
        /\ summaries' = {s \in summaries : <<s.thread, s.from, s.to>>
                            # <<Summary(e).thread, Summary(e).from, Summary(e).to>>}
                          \cup {Summary(e)}
    BY <1>3 DEF Tells_
  <2>1. PICK n : n = Summary(e)
    OBVIOUS
  <2>2. /\ SummaryOk(n)
        /\ \A id \in DOMAIN messages :
             Of(n, id) /\ ~messages[id].control =>
               \/ Tells(n, id) \/ Late(n, id)
               \/ \E s \in summaries : /\ Of(s, id) /\ (Tells(s, id) \/ Late(s, id))
                                       /\ Behind(s.to, n.to) /\ s.to # n.to
    BY <2>0, <2>1, SummaryMade
  <2>3. /\ n \in summaries'
        /\ \A s \in summaries' : s \in summaries \/ s = n
        /\ \A s \in summaries : s \in summaries' \/ (s.thread = n.thread /\ s.to = n.to)
    <3>1. \A s : <<s.thread, s.from, s.to>> = <<n.thread, n.from, n.to>> =>
                   s.thread = n.thread /\ s.to = n.to
      OBVIOUS
    <3> QED BY <2>0, <2>1, <3>1
  <2>4. \A s, x : /\ Of(s, x)' <=> Of(s, x)
                  /\ Tells(s, x)' <=> Tells(s, x)
                  /\ Late(s, x)' <=> Late(s, x)
    BY <2>0 DEF Of, Tells, Late, Key
  <2>5. ASSUME NEW x \in DOMAIN messages, Of(n, x), ~messages[x].control
        PROVE  Good(x, n.to)'
    <3>1. Behind(n.to, n.to)
      BY <2>2, BehindOrder DEF SummaryOk
    <3>2. \/ Tells(n, x) \/ Late(n, x)
          \/ \E s \in summaries' : /\ Of(s, x) /\ (Tells(s, x) \/ Late(s, x))
                                   /\ Behind(s.to, n.to)
      BY <2>2, <2>3, <2>5
    <3> QED BY <2>3, <2>4, <2>5, <3>1, <3>2 DEF Good
  <2>6. ASSUME NEW s \in summaries, NEW x \in DOMAIN messages, Of(s, x),
               ~messages[x].control
        PROVE  Good(x, s.to)'
    <3>1. PICK t \in summaries :
            Of(t, x) /\ Behind(t.to, s.to) /\ (Tells(t, x) \/ Late(t, x))
      BY <2>6 DEF SummaryInv, Good
    <3>2. CASE t \in summaries'
      BY <2>4, <3>1, <3>2 DEF Good
    <3>3. CASE t.thread = n.thread /\ t.to = n.to
      <4>1. Of(n, x)
        BY <3>1, <3>3 DEF Of
      <4>2. Good(x, n.to)'
        BY <2>5, <2>6, <4>1
      <4>3. PICK u \in summaries' :
              Of(u, x)' /\ Behind(u.to, n.to) /\ (Tells(u, x)' \/ Late(u, x)')
        BY <4>2 DEF Good
      <4>4. u.to \in Int \X Int /\ n.to \in Int \X Int /\ s.to \in Int \X Int
        BY <2>2, <2>3 DEF SummaryInv, SummaryOk
      <4>5. Behind(u.to, s.to)
        BY <3>1, <3>3, <4>3, <4>4, BehindOrder
      <4> QED BY <4>3, <4>5 DEF Good
    <3> QED BY <2>3, <3>2, <3>3
  <2>7. \A s : SummaryOk(s) => SummaryOk(s)'
    BY <2>0 DEF SummaryOk
  <2>8. \A s \in summaries' : SummaryOk(s)'
    BY <2>2, <2>3, <2>7 DEF SummaryInv
  <2>9. IsFiniteSet(summaries')
    <3>1. {s \in summaries : <<s.thread, s.from, s.to>>
              # <<Summary(e).thread, Summary(e).from, Summary(e).to>>} \in SUBSET summaries
      OBVIOUS
    <3> QED BY <2>0, <3>1, FS_Subset, FS_AddElement DEF SummaryInv
  <2>10. \A s \in summaries', x \in DOMAIN messages' :
           Of(s, x)' /\ ~messages'[x].control => Good(x, s.to)'
    BY <2>0, <2>3, <2>4, <2>5, <2>6
  <2> QED BY <2>8, <2>9, <2>10 DEF SummaryInv
<1>4. CASE Clears(e)
  <2>0. /\ messages' = Without(messages, {id \in DOMAIN messages :
                                            Covered(e, messages[id].thread)})
        /\ summaries' = {s \in summaries : ~Covered(e, s.thread)}
        /\ \A p \in Place : epoch'[p] = epoch[p] + IF Covered(e, p) THEN 1 ELSE 0
    BY <1>4 DEF Clears
  <2>1. \A x \in DOMAIN messages' : /\ x \in DOMAIN messages /\ messages'[x] = messages[x]
                                    /\ ~Covered(e, messages[x].thread) /\ Key(x)' = Key(x)
    BY <2>0 DEF Without, Key
  <2>2. ASSUME NEW s \in summaries' PROVE SummaryOk(s)'
    <3>1. SummaryOk(s) /\ s.thread \in Place /\ ~Covered(e, s.thread)
      BY <2>0, <2>2 DEF SummaryInv, SummaryOk
    <3>2. epoch'[s.thread] = epoch[s.thread]
      BY <1>0, <2>0, <3>1 DEF Epochs
    <3>3. NoLoss(s.thread)
      BY <2>0, <3>1 DEF Without, NoLoss
    <3> QED BY <3>1, <3>2, <3>3, SummaryStays
  <2>3. \A s, x : x \in DOMAIN messages' => /\ Of(s, x)' <=> Of(s, x)
                                            /\ Tells(s, x)' <=> Tells(s, x)
                                            /\ Late(s, x)' <=> Late(s, x)
    BY <2>1 DEF Of, Tells, Late
  <2>4. ASSUME NEW s \in summaries', NEW x \in DOMAIN messages', Of(s, x)',
               ~messages'[x].control
        PROVE  Good(x, s.to)'
    <3>1. PICK t \in summaries :
            Of(t, x) /\ Behind(t.to, s.to) /\ (Tells(t, x) \/ Late(t, x))
      BY <2>0, <2>1, <2>3, <2>4 DEF SummaryInv, Good
    <3>2. t \in summaries'
      BY <2>0, <2>1, <2>4, <3>1 DEF Of
    <3> QED BY <2>3, <2>4, <3>1, <3>2 DEF Good
  <2>5. IsFiniteSet(summaries')
    <3>1. summaries' \in SUBSET summaries
      BY <2>0
    <3> QED BY <3>1, FS_Subset DEF SummaryInv
  <2> QED BY <2>2, <2>4, <2>5 DEF SummaryInv
<1> QED BY <1>0, <1>1, <1>2, <1>3, <1>4, TurnKinds
       DEF Moves_, Finds, Takes, Bounds, Hears, Sees, Selects

-----------------------------------------------------------------------------
(* What a turn has read                                                    *)

\* The summaries a turn shows are of its place's time, or were there then and
\* have an equal now.
ToldOk(e) ==
  /\ IsFiniteSet(turns[e].told)
  /\ \A s \in turns[e].told :
       /\ s.thread \in Place /\ s.to \in Int \X Int /\ s.gen \in 0 .. epoch[s.thread]
       /\ s.gen = epoch[s.thread] =>
            \E t \in summaries : t.thread = s.thread /\ t.to = s.to
ToldInv == \A e \in Event : turns[e].pc = "history" => ToldOk(e)

LEMMA ToldStays ==
  ASSUME MessageInv, NEW e \in Event, TurnStep(e), NEW d \in Event,
         turns'[d].told = turns[d].told, ToldOk(d)
  PROVE  ToldOk(d)'
<1>1. ASSUME NEW s \in turns[d].told
      PROVE  /\ s.gen \in 0 .. epoch'[s.thread]
             /\ s.gen = epoch'[s.thread] =>
                  \E t \in summaries' : t.thread = s.thread /\ t.to = s.to
  <2> DEFINE p == s.thread
  <2>1. /\ p \in Place /\ s.gen \in 0 .. epoch[p]
        /\ s.gen = epoch[p] => \E t \in summaries : t.thread = p /\ t.to = s.to
    BY DEF ToldOk
  <2>2. /\ epoch[p] \in Nat /\ epoch'[p] \in Nat
        /\ epoch'[p] > epoch[p] \/ (epoch'[p] = epoch[p] /\ NoLoss(p))
    BY <2>1, PlacesKept
  <2>3. CASE epoch'[p] > epoch[p]
    BY <2>1, <2>2, <2>3
  <2>4. CASE epoch'[p] = epoch[p] /\ NoLoss(p)
    <3>1. \A t \in summaries : t.thread = p => \E u \in summaries' : u.thread = p /\ u.to = t.to
      BY <2>4 DEF NoLoss
    <3> QED BY <2>1, <2>4, <3>1
  <2> QED BY <2>2, <2>3, <2>4
<1> QED BY <1>1 DEF ToldOk

LEMMA ToldKept ==
  ASSUME MessageInv, SummaryInv, ToldInv, NEW e \in Event, TurnStep(e)
  PROVE  ToldInv'
<1>0. TurnType /\ Only(e)
  BY Follow DEF MessageInv, Follows
<1>1. ASSUME NEW d \in Event, d # e, turns'[d].pc = "history" PROVE ToldOk(d)'
  <2>1. turns'[d] = turns[d]
    BY <1>0, <1>1 DEF Only
  <2> QED BY <1>1, <2>1, ToldStays DEF ToldInv
<1>2. ASSUME turns'[e].pc = "history" PROVE ToldOk(e)'
  <2>1. ~Moves_(e)
    BY <1>2 DEF Moves_, Free
  <2>2. ~Adds(e)
    BY <1>2 DEF Adds, Posts
  <2>3. Hears(e)
    BY <1>0, <1>2, <2>1, <2>2, TurnKinds DEF Finds, Takes, Tells_, Bounds, Sees, Selects, Clears
  <2>4. turns'[e].told \in SUBSET summaries /\ UNCHANGED <<summaries, epoch>>
    BY <2>3 DEF Hears, NoTables, LastOf, SummariesOf
  <2>5. IsFiniteSet(turns'[e].told)
    BY <2>4, FS_Subset DEF SummaryInv
  <2> QED BY <2>4, <2>5 DEF ToldOk, SummaryInv, SummaryOk
<1> QED BY <1>1, <1>2 DEF ToldInv

\* A thread is in a place and began at some time.
ThreadInv ==
  \A t \in DOMAIN threads :
    /\ t \in Place /\ threads[t].at \in Nat
    /\ threads[t] = [root |-> threads[t].root, at |-> threads[t].at]

LEMMA ThreadMade ==
  ASSUME ThreadInv, NEW t \in Place, NEW root, NEW at \in Nat, UpsertThread(t, root, at)
  PROVE  ThreadInv'
<1>1. CASE t \in DOMAIN threads
  <2> PICK kept : kept = IF root = "" THEN threads[t].root ELSE root
    OBVIOUS
  <2>1. threads' = [threads EXCEPT ![t].root = kept]
    BY <1>1 DEF UpsertThread
  <2>2. /\ DOMAIN threads' = DOMAIN threads
        /\ \A x \in DOMAIN threads \ {t} : threads'[x] = threads[x]
        /\ threads'[t] = [threads[t] EXCEPT !.root = kept]
    BY <1>1, <2>1
  <2>3. threads'[t] = [root |-> kept, at |-> threads[t].at] /\ threads[t].at \in Nat
    BY <1>1, <2>2 DEF ThreadInv
  <2> QED BY <2>2, <2>3 DEF ThreadInv
<1>2. CASE t \notin DOMAIN threads
  BY <1>2 DEF UpsertThread, With, ThreadInv
<1> QED BY <1>1, <1>2

LEMMA ThreadKept ==
  ASSUME ThreadInv, now \in Nat, NEW e \in Event, TurnStep(e)
  PROVE  ThreadInv'
<1>0. e.at \in Nat /\ 2 * now + 1 \in Nat
  BY TimeAssumption
<1>1. \/ UNCHANGED threads \/ threads' = <<>>
      \/ UpsertThread(e.thread, e.thread, e.at) \/ UpsertThread(e.posts, e.posts, 2 * now + 1)
  BY DEF TurnStep, tables, BeginTurn, AppendEvent, PersistMessage, PersistThread,
         LatestSummary, ListCandidates, Compress, UpsertSummary, ReadBoundary,
         LoadSummaries, LoadHistory, PersistNextAction, Report, PersistReported,
         PersistReportedThread, SelectMemories, ResetContext
<1>2. UNCHANGED threads \/ threads' = <<>> => ThreadInv'
  BY DEF ThreadInv
<1> QED BY <1>0, <1>1, <1>2, ThreadMade, PlaceOfEvent

\* Where a thread begins is the time of its root message, as long as that is
\* there, for a message is written once.
BoundOk(e) ==
  turns[e].bound # NoRow =>
    /\ turns[e].bound.at \in Nat /\ turns[e].bound.key \in Int \X Int
    /\ turns[e].bound.key[1] = Formatted(turns[e].bound.at)
    /\ \A id \in turns[e].bound.root :
         /\ IdOk(id)
         /\ id.rank = 0 => turns[e].bound.at = id.event.at
         /\ id.rank = 1 => turns[id.event].pc \in Answered_
         /\ id.rank = 2 => turns[id.event].pc \in Reported_
         /\ id \in DOMAIN messages => messages[id].at = turns[e].bound.at
BoundInv == \A e \in Event : turns[e].pc \in {"summaries", "history"} => BoundOk(e)

LEMMA BoundStays ==
  ASSUME MessageInv, NEW e \in Event, TurnStep(e), NEW d \in Event,
         turns'[d].bound = turns[d].bound, BoundOk(d)
  PROVE  BoundOk(d)'
<1>0. \A x \in Event : /\ turns[x].pc \in Answered_ => turns'[x].pc \in Answered_
                       /\ turns[x].pc \in Reported_ => turns'[x].pc \in Reported_
  BY Follow DEF MessageInv, Follows, Only
<1>1. ASSUME turns[d].bound # NoRow, NEW id \in turns[d].bound.root
      PROVE  /\ IdOk(id)
             /\ id.rank = 0 => turns[d].bound.at = id.event.at
             /\ id.rank = 1 => turns'[id.event].pc \in Answered_
             /\ id.rank = 2 => turns'[id.event].pc \in Reported_
             /\ id \in DOMAIN messages' => messages'[id].at = turns[d].bound.at
  <2>1. /\ IdOk(id)
        /\ id.rank = 0 => turns[d].bound.at = id.event.at
        /\ id.rank = 1 => turns[id.event].pc \in Answered_
        /\ id.rank = 2 => turns[id.event].pc \in Reported_
        /\ id \in DOMAIN messages => messages[id].at = turns[d].bound.at
    BY <1>1 DEF BoundOk
  <2>2. id.event \in Event /\ id.rank \in {0, 1, 2}
    BY <2>1, IdParts
  <2>3. ASSUME id \in DOMAIN messages' PROVE messages'[id].at = turns[d].bound.at
    <3>1. CASE UNCHANGED messages \/ Resets_(e)
      BY <2>1, <2>3, <3>1 DEF Resets_, Cleared
    <3>2. ASSUME NEW new, Grew(new) PROVE messages'[id].at = turns[d].bound.at
      <4>1. CASE id \in DOMAIN messages
        BY <2>1, <3>2, <4>1 DEF Grew
      <4>2. CASE id \notin DOMAIN messages
        <5>1. id = new
          BY <2>3, <3>2, <4>2 DEF Grew
        <5>2. id.rank # 1 /\ id.rank # 2
          BY <2>1, <3>2, <5>1 DEF Grew, Answered_, Reported_
        <5>3. id.rank = 0
          BY <2>2, <5>2
        <5> QED BY <2>1, <3>2, <5>1, <5>3 DEF Grew, RowOk
      <4> QED BY <4>1, <4>2
    <3> QED BY <3>1, <3>2, MessageSteps
  <2> QED BY <1>0, <2>1, <2>2, <2>3
<1> QED BY <1>1 DEF BoundOk

LEMMA RootFirst ==
  ASSUME Rows_, NEW S \in SUBSET DOMAIN messages, Ordered(S) # <<>>
  PROVE  Ordered(S)[1] \in S
<1>1. Cardinality(S) \in Nat /\ DOMAIN Ordered(S) = 1 .. Cardinality(S)
      /\ Len(Ordered(S)) = Cardinality(S)
  BY Indexes, ListOrder
<1>2. Firsts(Ordered(S), S)
  BY <1>1 DEF Firsts
<1>3. Len(Ordered(S)) > 0 /\ \A i \in DOMAIN Ordered(S) : Ordered(S)[i] \in S
  BY <1>2, FirstsComeFirst
<1> QED BY <1>1, <1>3

LEMMA BoundMade ==
  ASSUME MessageInv, ThreadInv, NEW e \in Event, NEW bound, bound = Boundary(e),
         bound # NoRow
  PROVE  /\ bound.at \in Nat /\ bound.key \in Int \X Int
         /\ bound.key[1] = Formatted(bound.at)
         /\ \A id \in bound.root : id \in DOMAIN messages /\ messages[id].at = bound.at
<1>0. Rows_
  BY DEF MessageInv
<1> DEFINE S == Roots(ThreadRoot(e))
<1>1. CASE Ordered(S) # <<>>
  <2>1. S \in SUBSET DOMAIN messages
    BY DEF Roots
  <2>2. PICK id : id = Ordered(S)[1]
    OBVIOUS
  <2>3. bound = [key |-> Key(id), at |-> messages[id].at, root |-> {id}]
    BY <1>1, <2>2 DEF Boundary
  <2> HIDE DEF S
  <2>4. id \in DOMAIN messages
    BY <1>0, <1>1, <2>1, <2>2, RootFirst
  <2>5. Key(id) \in Int \X Int /\ messages[id].at \in Nat
        /\ Key(id)[1] = Formatted(messages[id].at)
    BY <1>0, <2>4, Keys DEF Key
  <2> QED BY <2>3, <2>4, <2>5
<1>2. CASE Ordered(S) = <<>>
  <2> DEFINE at == threads[e.thread].at
             last == 3 * Cardinality(Event)
  <2>1. /\ e.thread \in DOMAIN threads
        /\ bound = [key |-> <<Formatted(at), last>>, at |-> at, root |-> {}]
    BY <1>2 DEF Boundary
  <2>2. at \in Nat /\ last \in Int
    <3>1. Cardinality(Event) \in Nat
      BY OrderAssumption, FS_CardinalityType
    <3> QED BY <2>1, <3>1 DEF ThreadInv
  <2>3. Formatted(at) \in Int
    BY <2>2 DEF Formatted
  <2> HIDE DEF at, last
  <2> QED BY <2>1, <2>2, <2>3
<1> QED BY <1>1, <1>2

LEMMA BoundKept ==
  ASSUME MessageInv, ThreadInv, BoundInv, NEW e \in Event, TurnStep(e)
  PROVE  BoundInv'
<1>0. TurnType /\ Only(e) /\ Rows_ /\ Written
  BY Follow DEF MessageInv, Follows
<1>1. ASSUME NEW d \in Event, d # e, turns'[d].pc \in {"summaries", "history"}
      PROVE  BoundOk(d)'
  <2>1. turns'[d] = turns[d]
    BY <1>0, <1>1 DEF Only
  <2> QED BY <1>1, <2>1, BoundStays DEF BoundInv
<1>2. ASSUME turns'[e].pc \in {"summaries", "history"} PROVE BoundOk(e)'
  <2>1. ~Moves_(e)
    BY <1>2 DEF Moves_, Free
  <2>2. ~Adds(e)
    BY <1>2 DEF Adds, Posts
  <2>3. Bounds(e) \/ Hears(e)
    BY <1>0, <1>2, <2>1, <2>2, TurnKinds DEF Finds, Takes, Tells_, Sees, Selects, Clears
  <2>4. CASE Hears(e)
    <3>1. turns[e].pc = "summaries" /\ turns'[e].bound = turns[e].bound
      BY <2>4 DEF Hears, TurnAt
    <3> QED BY <3>1, BoundStays DEF BoundInv
  <2>5. CASE Bounds(e)
    <3>1. /\ turns'[e].bound = Boundary(e) /\ UNCHANGED messages
          /\ turns[e].pc = "context"
      BY <2>5 DEF Bounds, NoTables, TurnAt
    <3> SUFFICES ASSUME turns'[e].bound # NoRow PROVE BoundOk(e)'
      BY DEF BoundOk
    <3> PICK bound : bound = turns'[e].bound
      OBVIOUS
    <3>2. /\ bound.at \in Nat /\ bound.key \in Int \X Int
          /\ bound.key[1] = Formatted(bound.at)
          /\ \A id \in bound.root : id \in DOMAIN messages /\ messages[id].at = bound.at
      BY <3>1, BoundMade
    <3>3. ASSUME NEW id \in bound.root
          PROVE  /\ IdOk(id)
                 /\ id.rank = 0 => bound.at = id.event.at
                 /\ id.rank = 1 => turns'[id.event].pc \in Answered_
                 /\ id.rank = 2 => turns'[id.event].pc \in Reported_
                 /\ messages'[id].at = bound.at
      <4>1. id \in DOMAIN messages /\ messages[id].at = bound.at
        BY <3>2
      <4>2. IdOk(id) /\ (id.rank = 0 => messages[id].at = id.event.at)
        BY <1>0, <4>1 DEF Rows_, RowOk
      <4>3. id.event \in Event
        BY <4>2, IdParts
      <4>4. /\ turns[id.event].pc \in Answered_ => turns'[id.event].pc \in Answered_
            /\ turns[id.event].pc \in Reported_ => turns'[id.event].pc \in Reported_
        BY <1>0, <4>3, Follow DEF Follows, Only
      <4> QED BY <1>0, <3>1, <4>1, <4>2, <4>4 DEF Written
    <3> QED BY <3>2, <3>3 DEF BoundOk
  <2> QED BY <2>3, <2>4, <2>5
<1> QED BY <1>1, <1>2 DEF BoundInv

-----------------------------------------------------------------------------
(* What a turn shows                                                       *)

LEMMA CutFound ==
  ASSUME NEW S, IsFiniteSet(S), \A s \in S : s.to \in Int \X Int, LatestOf(S) # NoCursor
  PROVE  \E s \in S : s.to = LatestOf(S)
<1>1. S # {}
  BY DEF LatestOf
<1> DEFINE key == [s \in S |-> Time(s.to)]
           Latest(s) == \A t \in S : Behind(Time(t.to), Time(s.to))
<1>2. key \in [S -> Int \X Int]
  BY DEF Time, Formatted
<1> HIDE DEF key
<1>3. \E s \in S : \A t \in S : Behind(key[t], key[s])
  BY <1>1, <1>2, LatestKey
<1>4. \E s \in S : Latest(s)
  BY <1>3 DEF key
<1>5. LatestOf(S) = (CHOOSE s \in S : Latest(s)).to
  BY <1>1 DEF LatestOf
<1> HIDE DEF Latest
<1>6. (CHOOSE s \in S : Latest(s)) \in S
  BY <1>4, Zenon
<1> QED BY <1>5, <1>6

\* A message of a place is shown, or crowded out of it by newer ones, or behind
\* the cursor and then told of.
LEMMA NoneLost ==
  ASSUME MessageInv, SummaryInv, NEW e \in Event, ToldOk(e), NEW p, NEW upto,
         NEW id \in Listed(p, e, NoCursor, upto),
         Newest(History, Listed(p, e, Cutoff(e, p), upto)) \in SUBSET turns'[e].shown,
         turns'[e].shown \in SUBSET DOMAIN messages
  PROVE  \/ id \in turns'[e].shown
         \/ Crowded(e, id)
         \/ \E s \in summaries : Of(s, id) /\ Tells(s, id)
         \/ \E s \in summaries \cup turns[e].told : Of(s, id) /\ Late(s, id)
<1> DEFINE L == Listed(p, e, Cutoff(e, p), upto)
           W == Newest(History, L)
           shown == turns'[e].shown
<1>0. Rows_ /\ Written
  BY DEF MessageInv
<1>1. id \in DOMAIN messages /\ messages[id].thread = p /\ ~messages[id].control
  BY DEF Listed
<1>2. L \in SUBSET DOMAIN messages /\ \A o \in L : messages[o].thread = p
  BY DEF Listed
<1>3. CASE ~Behind(Key(id), Cutoff(e, p))
  <2>1. id \in L
    BY <1>3 DEF Listed
  <2> HIDE DEF L
  <2>2. /\ W \in SUBSET L
        /\ id \notin W => Cardinality(W) = History /\ \A o \in W : Before(id, o)
    BY <1>0, <1>2, <2>1, SizeAssumption, NewestOrder
  <2>3. W \in SUBSET shown
    BY DEF L
  <2> HIDE DEF W
  <2>4. ASSUME id \notin shown PROVE Crowded(e, id)
    <3> DEFINE C == {o \in shown : messages[o].thread = messages[id].thread /\ Before(id, o)}
    <3>1. W \in SUBSET C
      BY <1>1, <1>2, <2>2, <2>3, <2>4
    <3>2. C \in SUBSET DOMAIN messages
      OBVIOUS
    <3> HIDE DEF C
    <3>3. IsFiniteSet(C)
      BY <1>0, <3>2, FS_Subset DEF Rows_
    <3>4. IsFiniteSet(W) /\ Cardinality(W) <= Cardinality(C)
      BY <3>1, <3>3, FS_Subset
    <3>5. Cardinality(W) = History /\ Cardinality(C) \in Nat /\ History \in Nat
      BY <2>2, <2>3, <2>4, <3>3, FS_CardinalityType, SizeAssumption
    <3>6. Cardinality(C) >= History
      BY <3>4, <3>5
    <3> QED BY <3>6 DEF C, Crowded
  <2> QED BY <2>4
<1>4. CASE Behind(Key(id), Cutoff(e, p))
  <2> DEFINE T == {s \in turns[e].told : s.thread = p}
  <2>1. /\ T \in SUBSET turns[e].told /\ \A s \in T : s.thread = p
        /\ Cutoff(e, p) = LatestOf(T)
    BY DEF Cutoff
  <2> HIDE DEF T
  <2>2. IsFiniteSet(T) /\ \A s \in T : s.to \in Int \X Int
    BY <2>1, FS_Subset DEF ToldOk
  <2>3. LatestOf(T) # NoCursor
    <3>1. Key(id) \in Int \X Int /\ Key(id)[1] >= 0
      BY <1>0, <1>1, Keys
    <3>2. ~Behind(Key(id), NoCursor)
      BY <3>1 DEF NoCursor, Behind
    <3> QED BY <1>4, <2>1, <3>2
  <2>4. PICK s \in T : s.to = LatestOf(T)
    BY <2>2, <2>3, CutFound
  <2>5. Of(s, id) /\ s \in turns[e].told
    BY <1>1, <1>4, <2>1, <2>4 DEF Of
  <2>6. CASE s.gen # messages[id].gen
    BY <2>5, <2>6 DEF Late
  <2>7. CASE s.gen = messages[id].gen
    <3>1. s.thread = p /\ s.gen = epoch[p]
      BY <1>0, <1>1, <2>1, <2>7, Keys DEF Written
    <3>2. PICK t \in summaries : t.thread = p /\ t.to = s.to
      BY <2>5, <3>1 DEF ToldOk
    <3>3. Of(t, id)
      BY <1>1, <2>5, <3>2 DEF Of
    <3> QED BY <1>1, <3>3 DEF SummaryInv, Good
  <2> QED BY <2>6, <2>7
<1> QED BY <1>3, <1>4

LEMMA ShowsWhole ==
  ASSUME MessageInv, SummaryInv, NEW e \in Event, ToldOk(e), Sees(e)
  PROVE  NothingLost(e)
<1>0. Rows_ /\ History \in Nat
  BY SizeAssumption DEF MessageInv
<1> DEFINE L == Listed(e.thread, e, Cutoff(e, e.thread), NoRow)
           A == Listed("", e, Cutoff(e, ""), Bound(e))
           here == Newest(History, L)
           above == Newest(History, A)
           root == IF turns[e].bound = NoRow THEN {}
                   ELSE turns[e].bound.root \cap DOMAIN messages
<1>1. turns'[e].shown = IF e.thread = "" THEN here ELSE here \cup above \cup root
  BY DEF Sees
<1>2. /\ L \in SUBSET DOMAIN messages /\ A \in SUBSET DOMAIN messages
      /\ root \in SUBSET DOMAIN messages
  BY DEF Listed
<1> HIDE DEF L, A, root
<1>3. here \in SUBSET DOMAIN messages /\ above \in SUBSET DOMAIN messages
  BY <1>0, <1>2, NewestOrder
<1> HIDE DEF here, above
<1>4. turns'[e].shown \in SUBSET DOMAIN messages
  BY <1>1, <1>2, <1>3
<1>5. here \in SUBSET turns'[e].shown
  BY <1>1
<1>6. e.thread # "" => above \in SUBSET turns'[e].shown
  BY <1>1
<1> DEFINE Kept(id) ==
      \/ id \in turns'[e].shown
      \/ Crowded(e, id)
      \/ \E s \in summaries : Of(s, id) /\ Tells(s, id)
      \/ \E s \in summaries \cup turns[e].told : Of(s, id) /\ Late(s, id)
<1>7. ASSUME NEW id \in Listed(e.thread, e, NoCursor, NoRow) PROVE Kept(id)
  <2>1. Newest(History, Listed(e.thread, e, Cutoff(e, e.thread), NoRow))
          \in SUBSET turns'[e].shown
    BY <1>5 DEF here, L
  <2> QED BY <1>4, <2>1, NoneLost
<1>8. ASSUME e.thread # "", NEW id \in Listed("", e, NoCursor, Bound(e)) PROVE Kept(id)
  <2>1. Newest(History, Listed("", e, Cutoff(e, ""), Bound(e))) \in SUBSET turns'[e].shown
    BY <1>6, <1>8 DEF above, A
  <2> QED BY <1>4, <1>8, <2>1, NoneLost
<1>9. \A id \in InScope(e) :
        \/ id \in Listed(e.thread, e, NoCursor, NoRow)
        \/ e.thread # "" /\ id \in Listed("", e, NoCursor, Bound(e))
  BY DEF InScope
<1>10. \A id \in InScope(e) : Kept(id)
  <2> HIDE DEF Kept
  <2> QED BY <1>7, <1>8, <1>9
<1> QED BY <1>10 DEF NothingLost

InOrder(a, b) == a \div 2 <= b \div 2
LEMMA Halves ==
  ASSUME NEW a \in Nat, NEW b \in Nat, Formatted(a) <= Formatted(b)
  PROVE  InOrder(a, b)
<1>1. \A n \in Nat : Formatted(n) \in {2 * (n \div 2), 2 * (n \div 2) + 1}
                     /\ n \div 2 \in Nat
  BY DEF Formatted
<1> QED BY <1>1 DEF InOrder

LEMMA SameSecond == \A n \in Nat : InOrder(n, n)
<1>1. \A n \in Nat : n \div 2 \in Nat
  OBVIOUS
<1> QED BY <1>1 DEF InOrder

LEMMA BehindFirst ==
  ASSUME NEW a \in Int \X Int, NEW b \in Int \X Int, Behind(a, b)
  PROVE  a[1] <= b[1]
  BY DEF Behind

LEMMA ShowsFromThere ==
  ASSUME MessageInv, NEW e \in Event, BoundOk(e), Sees(e)
  PROVE  BeginsThere(e)
<1>0. Rows_ /\ History \in Nat
  BY SizeAssumption DEF MessageInv
<1> SUFFICES ASSUME e.thread # "", turns[e].bound # NoRow, NEW id \in turns'[e].shown,
                    messages[id].thread = ""
             PROVE  InOrder(messages[id].at, turns[e].bound.at)
  BY DEF BeginsThere, InOrder
<1> DEFINE L == Listed(e.thread, e, Cutoff(e, e.thread), NoRow)
           A == Listed("", e, Cutoff(e, ""), Bound(e))
           root == turns[e].bound.root \cap DOMAIN messages
<1>1. id \in Newest(History, L) \cup Newest(History, A) \cup root
  BY DEF Sees
<1>2. /\ L \in SUBSET DOMAIN messages /\ A \in SUBSET DOMAIN messages
      /\ \A o \in L : messages[o].thread = e.thread
  BY DEF Listed
<1>3. Newest(History, L) \in SUBSET L /\ Newest(History, A) \in SUBSET A
  <2> HIDE DEF L, A
  <2> QED BY <1>0, <1>2, NewestOrder
<1>4. id \in A \/ id \in root
  BY <1>1, <1>2, <1>3
<1>5. /\ turns[e].bound.at \in Nat /\ turns[e].bound.key \in Int \X Int
      /\ turns[e].bound.key[1] = Formatted(turns[e].bound.at)
      /\ \A x \in root : messages[x].at = turns[e].bound.at
  BY DEF BoundOk
<1>6. CASE id \in A
  <2>1. Bound(e) = turns[e].bound.key /\ Bound(e) # NoRow
    BY <1>5, NothingAssumption DEF Bound
  <2>2. Behind(Key(id), turns[e].bound.key) /\ id \in DOMAIN messages
    BY <1>6, <2>1 DEF Listed
  <2>3. /\ messages[id].at \in Nat /\ Key(id) \in Int \X Int
        /\ Key(id)[1] = Formatted(messages[id].at)
    BY <1>0, <2>2, Keys DEF Key
  <2>4. PICK a : a = messages[id].at
    OBVIOUS
  <2>5. PICK b : b = turns[e].bound.at
    OBVIOUS
  <2>6. Formatted(a) <= Formatted(b)
    <3>1. Key(id)[1] <= turns[e].bound.key[1]
      BY <1>5, <2>2, <2>3, BehindFirst
    <3> QED BY <1>5, <2>3, <2>4, <2>5, <3>1
  <2>7. InOrder(a, b)
    BY <1>5, <2>3, <2>4, <2>5, <2>6, Halves
  <2> QED BY <2>4, <2>5, <2>7
<1>7. CASE id \in root
  <2>1. messages[id].at = turns[e].bound.at /\ turns[e].bound.at \in Nat
    BY <1>5, <1>7
  <2> QED BY <2>1, SameSecond
<1> QED BY <1>4, <1>6, <1>7

-----------------------------------------------------------------------------
(* The theorems                                                            *)

Upkeep == CastInv /\ CallType /\ MemoryType /\ OnbType /\ CallInv /\ TurnsInv /\ AsksInv
Reading == /\ MessageInv /\ SummaryInv /\ TurnInv /\ ToldInv /\ ThreadInv /\ BoundInv
           /\ WholeInv /\ ForgotInv
ContextInv == Upkeep /\ Reading

LEMMA UpkeepKept == Upkeep /\ [Next]_vars => Upkeep'
<1> SUFFICES ASSUME Upkeep, [Next]_vars PROVE Upkeep'
  OBVIOUS
<1> USE DEF Upkeep
<1>1. CastInv' /\ CallType' /\ MemoryType'
  BY CastKept, StoreKept
<1>2. OnbType' /\ CallInv'
  BY CallsWaitedFor
<1>3. TurnsInv' /\ AsksInv'
  BY TurnsKept
<1> QED BY <1>1, <1>2, <1>3

LEMMA ContextStarts == Init => ContextInv
<1> SUFFICES ASSUME Init PROVE ContextInv
  OBVIOUS
<1>1. Upkeep
  <2>1. CastInv /\ CallType /\ MemoryType
    BY StoreStart
  <2>2. OnbType /\ onboarding = "none" /\ \A t \in Task : onb[t].pc = "idle" /\ onb[t].source = "none"
    BY DEF Init, OnboardingInit, Fresh, OnbType, OnbRow, Said, Status
  <2>3. \A c \in Call : calls[c].pc = "idle"
    BY StoreStart
  <2>4. CallInv /\ TurnsInv /\ AsksInv
    BY <2>2, <2>3 DEF CallInv, Over, TurnsInv, AsksInv, Onboarding
  <2> QED BY <2>1, <2>2, <2>4 DEF Upkeep
<1>2. /\ now = 1 /\ messages = <<>> /\ threads = <<>> /\ summaries = {}
      /\ epoch = [p \in Place |-> 0] /\ forgotAt = [p \in Place |-> 0]
      /\ DOMAIN turns = Event
      /\ \A e \in Event : TurnRow(turns[e]) /\ turns[e].pc = "idle"
  BY DEF Init, ConversationInit, TurnRow
<1>3. DOMAIN messages = {} /\ DOMAIN threads = {}
  BY <1>2
<1>4. MessageInv
  <2>1. IsFiniteSet(DOMAIN messages)
    BY <1>3, FS_EmptySet
  <2> QED BY <1>2, <1>3, <2>1 DEF MessageInv, TurnType, Epochs, Rows_, Written
<1>5. SummaryInv /\ TurnInv /\ ToldInv /\ ThreadInv /\ BoundInv
  <2>1. IsFiniteSet(summaries)
    BY <1>2, FS_EmptySet
  <2> QED BY <1>2, <1>3, <2>1 DEF SummaryInv, TurnInv, ToldInv, ThreadInv, BoundInv
<1>6. WholeInv
  <2>1. ASSUME NEW id \in DOMAIN memories PROVE KeyIsWhole(memories[id].key)
    <3>1. PICK s \in Seed : s.id = id /\ memories[id] = Seeded(s)
      BY DEF Init, MemoryInit
    <3>2. memories[id].key = s.key
      BY <3>1 DEF Seeded
    <3> QED BY <3>2, SeedAssumption
  <2> QED BY <2>1 DEF WholeInv
<1>7. ForgotInv
  <2>1. /\ clock \in Nat /\ \A id \in DOMAIN memories : memories[id].at \in 1 .. clock
    BY <1>1 DEF Upkeep, MemoryType
  <2>2. \A p \in Place : forgotAt[p] = 0
    BY <1>2
  <2> QED BY <1>2, <2>1, <2>2 DEF ForgotInv
<1> QED BY <1>1, <1>4, <1>5, <1>6, <1>7 DEF ContextInv, Reading

LEMMA ContextKept == ContextInv /\ [Next]_vars => ContextInv'
<1> SUFFICES ASSUME ContextInv, [Next]_vars PROVE ContextInv'
  OBVIOUS
<1>0. Upkeep /\ Reading /\ CastInv /\ CallType /\ MemoryType /\ TurnType /\ now \in Nat
  BY DEF ContextInv, Upkeep, Reading, MessageInv
<1>1. Upkeep' /\ MessageInv' /\ WholeInv' /\ ForgotInv'
  BY <1>0, UpkeepKept, MessageKept, WholeKept, ForgotKept DEF Reading
<1>2. SummaryInv' /\ TurnInv' /\ ToldInv' /\ ThreadInv' /\ BoundInv'
  <2>1. ASSUME NEW e \in Event, TurnStep(e)
        PROVE  SummaryInv' /\ TurnInv' /\ ToldInv' /\ ThreadInv' /\ BoundInv'
    BY <1>0, <2>1, SummaryKept, TurnKept, ToldKept, ThreadKept, BoundKept DEF Reading
  <2>2. CASE UNCHANGED <<events, messages, threads, summaries, turns, epoch, forgotAt>>
    <3>1. SummaryInv'
      <4>1. /\ \A s : SummaryOk(s)' <=> SummaryOk(s)
            /\ \A s, id : /\ Of(s, id)' <=> Of(s, id)
                          /\ Tells(s, id)' <=> Tells(s, id)
                          /\ Late(s, id)' <=> Late(s, id)
        BY <2>2 DEF SummaryOk, Of, Tells, Late, Key
      <4>2. \A id, key : Good(id, key)' <=> Good(id, key)
        BY <2>2, <4>1 DEF Good
      <4> QED BY <1>0, <2>2, <4>1, <4>2 DEF Reading, SummaryInv
    <3>2. TurnInv'
      BY <1>0, <2>2 DEF Reading, TurnInv, CursorOk, ShapeOk, CoversOk, Current, End, Key
    <3>3. ToldInv' /\ ThreadInv' /\ BoundInv'
      BY <1>0, <2>2 DEF Reading, ToldInv, ToldOk, ThreadInv, BoundInv, BoundOk
    <3> QED BY <3>1, <3>2, <3>3
  <2> QED BY <1>0, <2>1, <2>2, ConversationSteps
<1> QED BY <1>1, <1>2 DEF ContextInv, Reading

\* After a reset no message and no memory from before it is left of its places,
\* and no summary tells of one, but for the one that was being written
\* (store.go:1658-1741, reset_conversation_context.go:30).
THEOREM ResetsForget == Spec => []ResetForgets
<1>1. ContextInv => ResetForgets
  <2> SUFFICES ASSUME ContextInv PROVE ResetForgets
    OBVIOUS
  <2>1. MessageInv /\ SummaryInv /\ ForgotInv
    BY DEF ContextInv, Reading
  <2>2. \A id \in DOMAIN messages : messages[id].gen = epoch[messages[id].thread]
    BY <2>1, Keys DEF MessageInv, Written
  <2>3. \A s \in summaries : s.gen = epoch[s.thread] => \A c \in s.covers : c.gen = s.gen
    BY <2>1 DEF SummaryInv, SummaryOk
  <2>4. \A id \in DOMAIN memories :
          memories[id].key.scope \in {"channel", "thread"} /\ PlaceOf(memories[id]) \in Place
            => memories[id].at > forgotAt[PlaceOf(memories[id])]
    BY <2>1 DEF ForgotInv
  <2> QED BY <2>2, <2>3, <2>4 DEF ResetForgets
<1> QED BY <1>1, ContextStarts, ContextKept, PTL DEF Spec

LEMMA TypesRight == ContextInv => TypeOK
<1> SUFFICES ASSUME ContextInv PROVE TypeOK
  OBVIOUS
<1>1. OnbType /\ MessageInv /\ SummaryInv /\ ThreadInv /\ WholeInv
  BY DEF ContextInv, Upkeep, Reading
<1>2. onboarding \in {"none", "prompted"} \cup Terminal
  BY <1>1 DEF OnbType, Status, Terminal
<1>3. ASSUME NEW id \in DOMAIN messages
      PROVE  /\ id \in [rank : 0..2, event : Event,
                        source : {e.source : e \in Event} \cup {e.posts : e \in Event} \cup {""}]
             /\ messages[id].thread \in Place
  <2>1. IdOk(id) /\ messages[id].thread = Home(id)
    BY <1>1, Keys DEF MessageInv, Rows_
  <2>2. Home(id) \in Place
    BY <2>1, IdParts
  <2>3. PICK e \in Event : id \in {Id(0, e, e.source), Id(1, e, ""), Id(2, e, e.posts)}
    BY <2>1 DEF IdOk
  <2> DEFINE Sources == {x.source : x \in Event} \cup {x.posts : x \in Event} \cup {""}
             Ids == [rank : 0..2, event : Event, source : Sources]
  <2>4. ASSUME NEW rank \in 0..2, NEW source \in Sources PROVE Id(rank, e, source) \in Ids
    BY DEF Id
  <2>5. 0 \in 0..2 /\ 1 \in 0..2 /\ 2 \in 0..2
    OBVIOUS
  <2>6. e.source \in Sources /\ e.posts \in Sources /\ "" \in Sources
    OBVIOUS
  <2> HIDE DEF Sources, Ids
  <2>7. id \in Ids
    BY <2>3, <2>4, <2>5, <2>6
  <2> QED BY <2>1, <2>2, <2>7 DEF Ids, Sources
<1>4. /\ DOMAIN threads \subseteq Place
      /\ \A s \in summaries : s.thread \in Place /\ s.covers # {}
      /\ \A id \in DOMAIN memories : KeyIsWhole(memories[id].key)
  BY <1>1 DEF ThreadInv, SummaryInv, SummaryOk, WholeInv
<1> QED BY <1>2, <1>3, <1>4 DEF TypeOK

\* What a task is shown of its conversation lacks nothing but what a summary
\* tells of, what newer messages crowd out and what came behind a summary that
\* had been read before; and a thread is shown nothing of its channel from after
\* the second in which it began (conversation_context.go:98-184,
\* compress_conversation.go:42-100).
THEOREM ContextIsRight == Spec => ContextIsWhole
<1> DEFINE A == \A e \in Event : Reads(e) => NothingLost(e) /\ BeginsThere(e)
<1>1. ContextInv /\ [Next]_vars => [A]_vars
  <2> SUFFICES ASSUME ContextInv, [Next]_vars, NEW e \in Event, Reads(e)
               PROVE  NothingLost(e) /\ BeginsThere(e)
    OBVIOUS
  <2>0. /\ CastInv /\ MessageInv /\ SummaryInv /\ ToldInv /\ BoundInv /\ TurnType
        /\ turns[e].pc = "history" /\ turns'[e].pc = "answer"
    BY DEF ContextInv, Upkeep, Reading, MessageInv, Reads, TurnAt
  <2>1. PICK d \in Event : TurnStep(d)
    BY <2>0, ConversationSteps
  <2>2. d = e
    BY <2>0, <2>1, Follow DEF Follows, Only
  <2>3. ~Moves_(e) /\ ~Adds(e)
    BY <2>0 DEF Moves_, Adds, Posts, TurnAt
  <2>4. Sees(e)
    BY <2>0, <2>1, <2>2, <2>3, TurnKinds
       DEF Finds, Takes, Tells_, Bounds, Hears, Selects, Clears, TurnAt
  <2>5. ToldOk(e) /\ BoundOk(e)
    BY <2>0 DEF ToldInv, BoundInv
  <2> QED BY <2>0, <2>4, <2>5, ShowsWhole, ShowsFromThere
<1>2. ContextIsWhole <=> []TypeOK /\ [][A]_vars
  BY PTL DEF ContextIsWhole
<1> HIDE DEF A
<1> QED BY <1>1, <1>2, ContextStarts, ContextKept, TypesRight, PTL DEF Spec
=============================================================================
