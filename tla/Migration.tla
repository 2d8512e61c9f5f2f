------------------------------- MODULE Migration -------------------------------
(***************************************************************************)
(* The database when a process starts (internal/storage/sqlite/store.go:   *)
(* Open, Migrate, the twelve migrations, EnsureProject).  A migration is a *)
(* transaction, and the row of schema_migrations that it ends with has the *)
(* version for its key; but the list of what was applied is read before    *)
(* all of them, and the columns that some of them depend on are looked up  *)
(* before the transaction.  Two processes may start at once, one may work  *)
(* while another starts, and any may die.                                  *)
(*                                                                         *)
(* Of the tables the model keeps which there are, with the columns that    *)
(* came later, the scope columns of the memories, and which memories have  *)
(* an embedding.                                                           *)
(***************************************************************************)
EXTENDS Integers, FiniteSets

CONSTANTS
  Starter,     \* processes that open the database
  MaxTrouble   \* bound: crashes and failing transactions in one behaviour

ASSUME TroubleAssumption == MaxTrouble \in Nat

VARIABLES
  database,    \* what the file holds
  starters,    \* each process: its step and what it has read
  written,     \* history: the memories as they were written, and their embeddings
  trouble      \* crashes and failures so far

migrationVars == <<database, starters, written, trouble>>

Version == 1 .. 12
ScopeColumn == {"user", "channel", "thread"}

\* The first tables, and what a later migration makes if it is not there
FirstTables == {"tables", "user"}
Makes(v) ==
  CASE v = 1 -> FirstTables
    [] v = 2 -> {"place of messages"}
    [] v = 3 -> {"embeddings"}
    [] v = 4 -> {"user"}
    [] v = 5 -> {"threads", "thread"}
    [] v = 6 -> {"summaries"}
    [] v = 7 -> {"channel"}
    [] v = 8 -> {}
    [] v = 9 -> {"threads"}
    [] v = 10 -> {"schedules", "run id"}
    [] v = 11 -> {"run id"}
    [] v = 12 -> {"onboarding"}
Everything == UNION {Makes(v) : v \in Version}

\* The column that a migration looks up; without it three of them build the
\* table of memories anew and copy the scope columns they know.
Column(v) == CASE v = 4 -> "user" [] v = 5 -> "thread" [] v = 7 -> "channel" [] v = 11 -> "run id"
LooksUp == {4, 5, 7, 11}
Copied_(v) == CASE v = 4 -> {} [] v = 5 -> {"user"} [] v = 7 -> {"user", "thread"}
Rebuilds(v, found) == v \in {4, 5, 7} /\ ~found

\* A database of an earlier version has what its migrations made, save what two
\* of them had not made yet when they were released; a memory says nothing in a
\* column that is not there.
SchemaAt(n) == UNION {Makes(v) : v \in 1 .. n}
MayLack(n) == IF n < 4 THEN {"user"} ELSE IF n = 10 THEN {"run id"} ELSE {}
Earlier(d) ==
  /\ d = [applied |-> d.applied, schema |-> d.schema, memories |-> d.memories,
          embedded |-> d.embedded, project |-> d.project]
  /\ \E n \in {0} \union Version :
       /\ d.applied = 1 .. n /\ d.schema \subseteq SchemaAt(n)
       /\ SchemaAt(n) \ d.schema \subseteq MayLack(n)
  /\ d.memories = [m \in DOMAIN d.memories |->
                     [c \in ScopeColumn |-> IF c \in d.schema THEN d.memories[m][c] ELSE ""]]

Down == [pc |-> "down", known |-> {}, found |-> FALSE, foreignKeys |-> TRUE]

MigrationInit ==
  /\ starters = [s \in Starter |-> Down]
  /\ written = [memories |-> database.memories, embedded |-> database.embedded]
  /\ trouble = 0

At_(s, pc) == starters[s].pc = pc
Step_(s, new) == starters' = [starters EXCEPT ![s] = new]
NoTrouble == UNCHANGED trouble
Trouble == trouble < MaxTrouble /\ trouble' = trouble + 1

\* Open, and the first transaction of Migrate
ListApplied(s) ==
  /\ At_(s, "down")
  /\ Step_(s, [Down EXCEPT !.pc = "migrate", !.known = database.applied])
  /\ NoTrouble /\ UNCHANGED <<database, written>>

Missing(s) == Version \ starters[s].known
Next_(s) == CHOOSE v \in Missing(s) : \A w \in Missing(s) : v <= w

\* tableHasColumn; the check of foreign keys is switched off on this
\* connection, for with it the dropped table would take the embeddings along.
LookUp(s) ==
  /\ At_(s, "migrate") /\ Missing(s) # {} /\ Next_(s) \in LooksUp
  /\ LET found == Column(Next_(s)) \in database.schema IN
     Step_(s, [starters[s] EXCEPT !.pc = "apply", !.found = found,
                                  !.foreignKeys = ~Rebuilds(Next_(s), found)])
  /\ NoTrouble /\ UNCHANGED <<database, written>>

Begin(s) ==
  /\ At_(s, "migrate") /\ Missing(s) # {} /\ Next_(s) \notin LooksUp
  /\ Step_(s, [starters[s] EXCEPT !.pc = "apply", !.found = TRUE])
  /\ NoTrouble /\ UNCHANGED <<database, written>>

\* A statement of the migration fails: a column is there already, or one that
\* is copied is not.
Refuses(v, found) ==
  \/ v = 2 /\ Makes(2) \subseteq database.schema
  \/ v = 11 /\ ~found /\ Makes(11) \subseteq database.schema
  \/ Rebuilds(v, found) /\ ~(Copied_(v) \subseteq database.schema)

\* The version is the key of its row (mutant: a row that is there is kept).
Ignored(v, found) == ~Refuses(v, found)
Commits(v, found) == ~Refuses(v, found) /\ v \notin database.applied

Rebuilt(v, row) == [c \in ScopeColumn |-> IF c \in Copied_(v) THEN row[c] ELSE ""]
Migrated(v, found, foreignKeys) ==
  [applied |-> database.applied \union {v},
   schema |-> (IF Rebuilds(v, found) THEN (database.schema \ ScopeColumn) \union Copied_(v)
               ELSE database.schema) \union Makes(v),
   memories |-> IF Rebuilds(v, found)
                  THEN [m \in DOMAIN database.memories |-> Rebuilt(v, database.memories[m])]
                  ELSE database.memories,
   embedded |-> IF Rebuilds(v, found) /\ foreignKeys THEN {} ELSE database.embedded,
   project |-> database.project]

Apply(s) ==
  LET v == Next_(s)  found == starters[s].found IN
  /\ At_(s, "apply") /\ Commits(v, found)
  /\ database' = Migrated(v, found, starters[s].foreignKeys)
  /\ Step_(s, [starters[s] EXCEPT !.pc = "migrate", !.known = starters[s].known \union {v}, !.foreignKeys = TRUE])
  /\ NoTrouble /\ UNCHANGED written

\* Migrate returns the error, and the process ends (mutant: it goes on).
GoesOn(s) == [starters[s] EXCEPT !.pc = "migrate", !.known = @ \union {Next_(s)}, !.foreignKeys = TRUE]
AfterError(s) == Down

ApplyFails(s) ==
  /\ At_(s, "apply")
  /\ \/ ~Commits(Next_(s), starters[s].found) /\ NoTrouble
     \/ Trouble
  /\ Step_(s, AfterError(s))
  /\ UNCHANGED <<database, written>>

EnsureProject(s) ==
  /\ At_(s, "migrate") /\ Missing(s) = {}
  /\ database' = [database EXCEPT !.project = TRUE]
  /\ Step_(s, [starters[s] EXCEPT !.pc = "ready"])
  /\ NoTrouble /\ UNCHANGED written

\* A process that is ready keeps one memory, in all its scope columns, and the
\* embedding of it.
Remembers(s) ==
  /\ At_(s, "ready") /\ s \notin DOMAIN database.memories
  /\ LET Kept(rows) == [m \in DOMAIN rows \union {s} |->
                          IF m = s THEN [c \in ScopeColumn |-> s] ELSE rows[m]] IN
     /\ database' = [database EXCEPT !.memories = Kept(@), !.embedded = @ \union {s}]
     /\ written' = [memories |-> Kept(written.memories), embedded |-> written.embedded \union {s}]
  /\ NoTrouble /\ UNCHANGED starters

Dies(s) ==
  /\ ~At_(s, "down") /\ Trouble
  /\ Step_(s, Down)
  /\ UNCHANGED <<database, written>>

StartStep(s) ==
  \/ ListApplied(s) \/ LookUp(s) \/ Begin(s) \/ Apply(s) \/ ApplyFails(s)
  \/ EnsureProject(s) \/ Remembers(s) \/ Dies(s)

(***************************************************************************)
(* Properties                                                              *)
(***************************************************************************)
\* VerifySchema looks at the greatest version only: whenever it says that the
\* schema is current, and whenever a process is ready, all of it is there,
\* whoever else was migrating and wherever one of them stopped.
Verifies == 12 \in database.applied
SchemaIsWhole ==
  Verifies \/ (\E s \in Starter : At_(s, "ready")) => database.schema = Everything

\* No migration takes a memory, a column of it or its embedding away, neither
\* from an old database nor from a process that works while another one, which
\* listed the versions earlier, still migrates (the key of schema_migrations
\* undoes the second rebuilding; the foreign keys are off during the first).
MemoriesSurvive ==
  /\ database.memories = written.memories
  /\ database.embedded = written.embedded

\* An upgrade is complete when it says so, and costs no memory.
UpgradesAreSafe == SchemaIsWhole /\ MemoriesSurvive

=============================================================================
