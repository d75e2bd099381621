---------------------------- MODULE TableGeneration ----------------------------
(***************************************************************************)
(* The tables of generated entities (generate.rs): what boot, a reload and  *)
(* POST /generate/table send to the database, what each dialect makes of    *)
(* it, which errors are passed over, and what several processes, restarted  *)
(* and reloaded while the configuration is edited, find there.              *)
(* Names are sequences of words; a name too long is not cut here.           *)
(***************************************************************************)
EXTENDS Integers, Sequences, FiniteSetsExt, TLC

CONSTANTS
  Designs,     \* the configurations: each the entities of routes.json, in order
  Own,         \* flx_sequences and flx_outbox
  OutboxTable, \* table of the latter
  Audit,       \* columns every generated table gets
  AuthOn,      \* require_auth
  Replicas,
  MaxDeploys,  \* bound on edits of the configuration
  MaxMishaps   \* bound on failed statements and lost commits

VARIABLES
  dialect,
  deployed,  \* the configuration on disk
  deploys, mishaps,
  db,        \* table -> its columns, indexes and foreign keys
  proc,      \* each process: pc, configuration it serves and prepares, places in its plan to generate,
             \* and history: prepared one served before, a statement failed by itself
  served,    \* history: configurations some process has served
  lost       \* history: tables and indexes whose commit was lost

vars == <<dialect, deployed, deploys, mishaps, db, proc, served, lost>>

Index == [name : Seq(STRING), columns : SUBSET STRING]

Entity ==
  [route : STRING, table : Seq(STRING), core : BOOLEAN, auto : BOOLEAN, columns : SUBSET STRING, pk : SUBSET STRING,
   indexes : SUBSET Index, keys : SUBSET [column : STRING, ref : Seq(STRING)], search : SUBSET STRING,
   types : SUBSET STRING]

TableGenerationAssumption ==
  /\ Designs \in Seq(Seq(Entity)) /\ Own \in Seq(Entity) /\ AuthOn \in BOOLEAN
  /\ MaxDeploys \in Nat /\ MaxMishaps \in Nat

Down == [pc |-> "down", live |-> 0, next |-> 0, todo |-> {}, again |-> FALSE, torn |-> FALSE, worker |-> FALSE]

Init ==
  /\ dialect \in {"postgres", "mysql", "sqlite", "mssql", "mongodb"}
  /\ deployed \in DOMAIN Designs /\ deploys = 0 /\ mishaps = 0
  /\ db = <<>> /\ served = {} /\ lost = {}
  /\ proc = [r \in Replicas |-> Down]

----------------------------------------------------------------------------
(* generate_table and the compilation to the dialect *)

\* Core tables follow require_auth, others their flag.
Generates(e) == IF e.core THEN AuthOn ELSE e.auto

Holds(name, table) == \E i \in 0..(Len(name) - Len(table)) : SubSeq(name, i + 1, i + Len(table)) = table

\* The table's name is put before an index name that does not hold it.
IndexName(e, ix) == IF Holds(ix.name, e.table) THEN ix.name ELSE e.table \o ix.name

\* An index without columns, or on the primary key alone, is left out; `search`
\* columns get an index on PostgreSQL.
IndexesOf(e) ==
  {[name |-> IndexName(e, ix), columns |-> ix.columns] :
     ix \in {i \in e.indexes : i.columns # {} /\ ~(Cardinality(e.pk) = 1 /\ i.columns = e.pk)}}
  \cup (IF dialect = "postgres"
        THEN {[name |-> <<"idx">> \o e.table \o <<c, "trgm">>, columns |-> {c}] : c \in e.search}
        ELSE {})

----------------------------------------------------------------------------
(* What the database makes of the statements *)

TableThere(e) == e.table \in DOMAIN db

ColumnsOf(e) == e.columns \cup Audit

\* CREATE TABLE IF NOT EXISTS leaves a table as it is.
Created(e) ==
  IF TableThere(e) THEN db[e.table]
  ELSE [columns |-> ColumnsOf(e), indexes |-> {}, keys |-> IF dialect = "mssql" THEN {} ELSE e.keys]

\* Column types are those of the file, which one dialect knows and another does
\* not; a foreign key in the CREATE TABLE needs its parent, except on SQLite.
CreateRefused(e) ==
  /\ ~TableThere(e)
  /\ \/ dialect \notin e.types
     \/ dialect \in {"postgres", "mysql"} /\ \E k \in e.keys : k.ref \notin DOMAIN db \cup {e.table}

\* SQL Server adds foreign keys in statements of their own, when both tables
\* are there; it refuses one that is there already.
AltersOf(e) == {k \in e.keys : dialect = "mssql" /\ k.ref \in DOMAIN db \cup {e.table}}

AlterRefused(e, k) == k \in Created(e).keys \/ k.column \notin Created(e).columns

NewKeys(e) == {k \in AltersOf(e) : ~AlterRefused(e, k)}

\* Index names are those of the whole database or of one table.
NameTaken(e, name) ==
  \E t \in DOMAIN db :
    /\ dialect \in {"postgres", "sqlite"} \/ t = e.table
    /\ \E ix \in db[t].indexes : ix.name = name

Covered(e, ix) == ix.columns \subseteq Created(e).columns

\* Mutant: a duplicate index ends the generation on MySQL, too.
IndexRefusedAgain(e, ix) ==
  IF dialect = "mysql" THEN NameTaken(e, ix.name)
  ELSE ~Covered(e, ix) /\ (dialect = "postgres" \/ ~NameTaken(e, ix.name))

\* Errors that end the generation.  On MySQL "Duplicate key name" and "Key
\* column ... doesn't exist" are passed over; PostgreSQL says "does not exist",
\* and looks for the columns before the name.
IndexRefused(e, ix) ==
  /\ ~Covered(e, ix)
  /\ \/ dialect = "postgres"
     \/ dialect \in {"sqlite", "mssql"} /\ ~NameTaken(e, ix.name)

NewIndexes(e) == {ix \in IndexesOf(e) : Covered(e, ix) /\ ~NameTaken(e, ix.name)}

\* MongoDB has no transactions here, so begin_tx fails.
Accepted(e) ==
  /\ dialect # "mongodb"
  /\ ~CreateRefused(e)
  /\ \A k \in AltersOf(e) : ~AlterRefused(e, k)
  /\ \A ix \in IndexesOf(e) : ~IndexRefused(e, ix)

\* The database with the table of e, some of its new indexes and keys.
With(e, ixs, keys) ==
  LET made == [columns |-> Created(e).columns, indexes |-> Created(e).indexes \cup ixs,
               keys |-> Created(e).keys \cup keys] IN
  [t \in DOMAIN db \cup {e.table} |-> IF t = e.table THEN made ELSE db[t]]

----------------------------------------------------------------------------
(* execute_generate_table: one transaction for an entity *)

Commits(e) ==
  /\ Accepted(e) /\ db' = With(e, NewIndexes(e), NewKeys(e))
  /\ UNCHANGED <<mishaps, lost>>

Mishap == mishaps < MaxMishaps /\ mishaps' = mishaps + 1

\* The answer of COMMIT is discarded: success all the same.  On MySQL each
\* statement has committed itself.
CommitLost(e) ==
  /\ Accepted(e) /\ dialect # "mysql" /\ Mishap
  /\ lost' = lost \cup ({e.table} \ DOMAIN db) \cup {ix.name : ix \in NewIndexes(e)}
  /\ UNCHANGED db

\* A statement fails for a reason of its own (the connection, rows that break
\* a unique index) and the others are still sent; the rollback undoes them,
\* but not on MySQL.
StatementFails(e) ==
  /\ Mishap /\ UNCHANGED lost
  /\ \/ UNCHANGED db
     \/ dialect = "mysql" /\ ~CreateRefused(e) /\ \E S \in SUBSET NewIndexes(e) : db' = With(e, S, {})

Reported(e) == Commits(e) \/ CommitLost(e)

Refused(e) == ~Accepted(e) /\ UNCHANGED <<db, mishaps, lost>>

----------------------------------------------------------------------------
(* Boot, reload and requests *)

Becomes(r, fields) == proc' = [proc EXCEPT ![r] = fields]

Serving(r) == proc[r].pc \in {"up", "kept", "reload"}

\* The entities of a boot and main's own tables after them; the entities a
\* reload adds, and then those it changes.
Plan(p) == Designs[p.next] \o (IF p.pc = "reload" THEN Designs[p.next] ELSE Own)
IsOwn(p, i) == p.pc = "boot" /\ i > Len(Designs[p.next])
First(p) == Min(p.todo)
Behind(n, places) == {n + i : i \in places}

\* With require_auth the core tables come first, not on MongoDB.
Boot(r) ==
  /\ proc[r].pc \in {"down", "refused"}
  /\ LET design == Designs[deployed] IN
     Becomes(r, [Down EXCEPT !.pc = "accounts", !.next = deployed, !.again = deployed \in served,
                   !.todo = {i \in DOMAIN design : design[i].core /\ AuthOn /\ dialect # "mongodb"}])
  /\ UNCHANGED <<dialect, deployed, deploys, mishaps, db, served, lost>>

\* generate_users: each statement by itself, whatever becomes of it.
EnsureAccounts(r) ==
  /\ proc[r].pc = "accounts" /\ proc[r].todo # {}
  /\ LET e == Plan(proc[r])[First(proc[r])] IN
       \/ db' = (IF CreateRefused(e) THEN db ELSE With(e, NewIndexes(e), NewKeys(e))) /\ UNCHANGED mishaps
       \/ Mishap /\ (UNCHANGED db \/ (~CreateRefused(e) /\ \E S \in SUBSET NewIndexes(e) : db' = With(e, S, {})))
  /\ Becomes(r, [proc[r] EXCEPT !.todo = @ \ {First(proc[r])}])
  /\ UNCHANGED <<dialect, deployed, deploys, served, lost>>

\* main's own tables come after those of the configuration, not on MongoDB.
Prepare(r) ==
  /\ proc[r].pc = "accounts" /\ proc[r].todo = {}
  /\ LET design == Designs[proc[r].next] IN
     Becomes(r, [proc[r] EXCEPT !.pc = "boot",
                   !.todo = {i \in DOMAIN design : Generates(design[i])}
                            \cup (IF dialect = "mongodb" THEN {} ELSE Behind(Len(design), DOMAIN Own))])
  /\ UNCHANGED <<dialect, deployed, deploys, mishaps, db, served, lost>>

\* Routes the running registry lacks, then those whose file differs; none on
\* MongoDB.
ToGenerate(r) ==
  LET old == Designs[proc[r].live]
      new == Designs[deployed]
      here == {i \in DOMAIN new : Generates(new[i])}
      known == {i \in here : \E k \in DOMAIN old : old[k].route = new[i].route}
      changed == {i \in known : new[i] \notin Range(old)} IN
  IF dialect = "mongodb" THEN {} ELSE (here \ known) \cup Behind(Len(new), changed)

Reload(r) ==
  /\ proc[r].pc \in {"up", "kept"}
  /\ Becomes(r, [proc[r] EXCEPT !.pc = "reload", !.next = deployed, !.again = deployed \in served,
                          !.todo = ToGenerate(r), !.torn = FALSE])
  /\ UNCHANGED <<dialect, deployed, deploys, mishaps, db, served, lost>>

\* The process goes on after a failure at one of its own tables, without the
\* outbox worker when it was that one; any other ends the boot, or the reload.
GiveUp(r, torn) ==
  IF IsOwn(proc[r], First(proc[r]))
    THEN Becomes(r, [proc[r] EXCEPT !.todo = @ \ {First(proc[r])}])
    ELSE Becomes(r, [proc[r] EXCEPT !.pc = IF @ = "boot" THEN "refused" ELSE "kept", !.todo = {}, !.torn = torn])

GenerateNext(r) ==
  /\ proc[r].pc \in {"boot", "reload"} /\ proc[r].todo # {}
  /\ LET e == Plan(proc[r])[First(proc[r])] IN
       \/ /\ Reported(e)
          /\ Becomes(r, [proc[r] EXCEPT !.todo = @ \ {First(proc[r])}, !.worker = @ \/ e.table = OutboxTable])
       \/ Refused(e) /\ GiveUp(r, FALSE)
       \/ StatementFails(e) /\ GiveUp(r, TRUE)
  /\ UNCHANGED <<dialect, deployed, deploys, served>>

\* The server binds, or the registry is swapped.
Serve(r) ==
  /\ proc[r].pc \in {"boot", "reload"} /\ proc[r].todo = {}
  /\ Becomes(r, [proc[r] EXCEPT !.pc = "up", !.live = proc[r].next])
  /\ served' = served \cup {proc[r].next}
  /\ UNCHANGED <<dialect, deployed, deploys, mishaps, db, lost>>

\* POST /generate/table/<route>, not for core tables.
CreateTable(r) ==
  /\ Serving(r)
  /\ \E i \in DOMAIN Designs[proc[r].live] :
       LET e == Designs[proc[r].live][i] IN
       /\ e.auto /\ ~e.core /\ dialect # "mongodb"
       /\ Reported(e) \/ StatementFails(e)
  /\ UNCHANGED <<dialect, deployed, deploys, proc, served>>

Stop(r) ==
  /\ proc[r].pc # "down" /\ Becomes(r, Down)
  /\ UNCHANGED <<dialect, deployed, deploys, mishaps, db, served, lost>>

Deploy ==
  /\ deploys < MaxDeploys /\ deploys' = deploys + 1
  /\ \E d \in DOMAIN Designs \ {deployed} : deployed' = d
  /\ UNCHANGED <<dialect, mishaps, db, proc, served, lost>>

Next ==
  \/ Deploy
  \/ \E r \in Replicas :
       \/ Boot(r) \/ EnsureAccounts(r) \/ Prepare(r) \/ GenerateNext(r) \/ Serve(r)
       \/ Reload(r) \/ CreateTable(r) \/ Stop(r)

----------------------------------------------------------------------------
(* Properties *)

\* Two indexes of the configurations share a name where they may not both be.
Entities == Range(Own) \cup UNION {Range(Designs[d]) : d \in DOMAIN Designs}
Ambiguous(e, ix) ==
  \E f \in Entities : \E other \in IndexesOf(f) :
    other.name = ix.name /\ (f.table # e.table \/ other.columns # ix.columns)

\* What a process serves is in the database: the table of each generated
\* entity, its indexes as far as an older table has their columns and their
\* names mean one thing, and the outbox of a running worker.
InPlace ==
  \A r \in Replicas : Serving(r) /\ dialect # "mongodb" =>
    /\ proc[r].worker => OutboxTable \in DOMAIN db \cup lost
    /\ \A i \in DOMAIN Designs[proc[r].live] :
         LET e == Designs[proc[r].live][i] IN
         Generates(e) => 
           \/ e.table \in DOMAIN db /\ \A ix \in IndexesOf(e) :
                ix \in db[e.table].indexes \/ ~Covered(e, ix) \/ ix.name \in lost \/ Ambiguous(e, ix)
           \/ e.table \in lost

\* A configuration that was once served is generated again without an error,
\* unless a statement failed for a reason of its own, a commit of its tables was
\* lost, or it is MongoDB, or SQL Server with foreign keys.
Again ==
  \A r \in Replicas : proc[r].pc \in {"refused", "kept"} /\ proc[r].again /\ ~proc[r].torn =>
    \/ dialect = "mongodb"
    \/ \E i \in DOMAIN Designs[proc[r].next] :
         LET e == Designs[proc[r].next][i] IN e.table \in lost \/ (dialect = "mssql" /\ e.keys # {})

\* registry.rs:158, "idempotent CREATE IF NOT EXISTS": over restarts, reloads,
\* requests, replicas and edits, what is served is in place and what was
\* served once can be served again.
TablesFit == InPlace /\ Again

================================================================================
