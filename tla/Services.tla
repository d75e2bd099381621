------------------------------- MODULE Services -------------------------------
(***************************************************************************)
(* The services between the router and the database: a request under the   *)
(* rules that change beside it (Requests), the values of its body           *)
(* (FieldValues), the children of a record it deletes (References), imports  *)
(* and seeding (Import), the pages of a client (Paging), the statements of   *)
(* the configurations the lint lets pass (ConfigLint), the tool calls that   *)
(* stand for requests (Mcp), the tables generated for entities               *)
(* (TableGeneration), and the triggers that a write fires (Triggers).  They  *)
(* share no state, so a behaviour is one of them.                           *)
(***************************************************************************)
EXTENDS Integers, Sequences, FiniteSets, TLC

CONSTANTS
  Param, Rules, Schemas, Callers, Calls, QueueOn,
  Columns, Values, Whole, Decimal, Dates, Yes, No, Double,
  Imports, Posts, Files, Existing, Counter0, BatchSize, TenToWidth, MaxFaults,
  Parents, Children, ChildTable, Refs, Deletes, Adds,
  Ids, SortValues, Null, TablesRead, Asks, Orderable, OrderBy, LimitMax, LimitDefault, MaxInt, MaxPage, MaxChanges,
  Configs, Malformed, Operators, Events, Expr,
  Worlds, CoreTables, PublicRoutes, ToolCalls, Holder, MaxRows, Secret, MaxFound, Cut, Unfit,
  Designs, Own, OutboxTable, Audit, AuthOn, Replicas, MaxDeploys, MaxMishaps,
  MaxDoc, Products, Statuses, Wanted, Reqs, Nobody, Lines, Lines0, OnDelete, Plans, Totals, Cost, Stock0, MinQty, MaxFailures

VARIABLES
  part,
  gen, call, caller, queued, pc, method, columns, since, schema, checked, filter, job,
  column, cell, told, sent, wrote,
  backend, mode, ids, counter, file, step, nextNum, inserted, open, jobs, answer, seen, posts, faults,
  parent, child, del, add, raced,
  table, ask, nullLargest, cursor, pageNumber, shown, ends, touched, doubts, reading,
  config, lintMode, report, phase, stmt, outcome,
  world, transport, requireAuth, writeTools, token, offered, tool, opened, taken, ruled, at, used, ignored,
  effect, stale, reply, given,
  dialect, deployed, deploys, mishaps, db, proc, served, lostTables,
  fkAction, status, lines, stock, invoiced, posted, lock, wanted, progress, old, own, nextStep, lookedUp, acc, qty, mine,
  moves, staleDocs, detached, failed

calls == <<gen, call, caller, queued, pc, method, columns, since, schema, checked, filter, job>>
values == <<column, cell, told, sent, wrote>>
imports == <<backend, mode, ids, counter, file, step, nextNum, inserted, open, jobs, answer, seen, posts, faults>>
references == <<parent, child, del, add, raced>>
pages == <<table, ask, nullLargest, cursor, pageNumber, shown, ends, touched, doubts, reading>>
lints == <<config, lintMode, report, phase, stmt, outcome>>
tools == <<world, transport, requireAuth, writeTools, token, offered, tool, opened, taken, ruled, at, used, ignored,
           effect, stale, reply, given>>
generation == <<dialect, deployed, deploys, mishaps, db, proc, served, lostTables>>
triggers == <<fkAction, status, lines, stock, invoiced, posted, lock, wanted, progress, old, own, nextStep, lookedUp, acc,
              qty, mine, moves, staleDocs, detached, failed>>

R == INSTANCE Requests
V == INSTANCE FieldValues
I == INSTANCE Import
D == INSTANCE References WITH TableOf <- ChildTable
P == INSTANCE Paging WITH page <- pageNumber, Tables <- TablesRead
L == INSTANCE ConfigLint
M == INSTANCE Mcp
G == INSTANCE TableGeneration WITH lost <- lostTables
A == INSTANCE Triggers WITH ask <- wanted, at <- progress, next <- nextStep, found <- lookedUp, stale <- staleDocs,
                            Asks <- Wanted, Total <- Totals

ASSUME ServicesAssumption ==
  /\ DOMAIN Rules = DOMAIN Schemas /\ 1 \in DOMAIN Rules
  /\ V!FieldValuesAssumption
  /\ I!ImportAssumption
  /\ M!McpAssumption
  /\ L!ConfigLintAssumption
  /\ DOMAIN ChildTable = Children /\ D!ReferencesAssumption
  /\ P!PagingAssumption
  /\ G!TableGenerationAssumption
  /\ A!TriggersAssumption

AnyOf(S) == CHOOSE x \in S : TRUE

\* The parts that do not run are at one of their initial states.
ServicesInit ==
  /\ part \in {"requests", "values", "imports", "references", "pages", "lint", "mcp", "generation", "triggers"}
  /\ part = "requests" \/ (call = AnyOf(Calls) /\ caller = AnyOf(Callers) /\ queued = FALSE)
  /\ part = "values" \/ column = AnyOf(Columns)
  /\ part = "imports" \/ (/\ backend = "sql" /\ mode = [i \in Imports |-> "rows"]
                          /\ file = [i \in Imports |-> AnyOf(Files)])
  /\ part = "references" \/
       (/\ child = [c \in Children |-> D!NoRow]
        /\ del = [r \in Deletes |-> [pc |-> "new", parent |-> AnyOf(Parents), next |-> 1,
                                    own |-> [c \in Children |-> D!NoRow]]])
  /\ part = "pages" \/ (table = AnyOf(TablesRead) /\ ask = AnyOf(Asks) /\ nullLargest = FALSE)
  /\ part = "lint" \/ (config = AnyOf(Configs) /\ lintMode = "off")
  /\ part = "mcp" \/ (transport = "http" /\ requireAuth = TRUE /\ writeTools = TRUE /\ tool = AnyOf(ToolCalls))
  /\ part = "generation" \/ (dialect = "mysql" /\ deployed = 1)
  /\ part = "triggers" \/ (/\ wanted = AnyOf(Wanted) /\ status = [d \in 1..MaxDoc |-> AnyOf(Statuses)]
                           /\ fkAction = AnyOf(OnDelete))
  /\ R!Init /\ V!Init /\ I!Init /\ D!Init /\ P!Init /\ L!Init /\ M!Init /\ G!Init /\ A!Init

ServicesNext ==
  \/ part = "requests" /\ R!Next /\ UNCHANGED <<part, values, imports, references, pages, lints, tools, generation, triggers>>
  \/ part = "values" /\ V!Next /\ UNCHANGED <<part, calls, imports, references, pages, lints, tools, generation, triggers>>
  \/ part = "imports" /\ I!Next /\ UNCHANGED <<part, calls, values, references, pages, lints, tools, generation, triggers>>
  \/ part = "references" /\ D!Next /\ UNCHANGED <<part, calls, values, imports, pages, lints, tools, generation, triggers>>
  \/ part = "pages" /\ P!Next /\ UNCHANGED <<part, calls, values, imports, references, lints, tools, generation, triggers>>
  \/ part = "lint" /\ L!Next /\ UNCHANGED <<part, calls, values, imports, references, pages, tools, generation, triggers>>
  \/ part = "mcp" /\ M!Next /\ UNCHANGED <<part, calls, values, imports, references, pages, lints, generation, triggers>>
  \/ part = "generation" /\ G!Next /\ UNCHANGED <<part, calls, values, imports, references, pages, lints, tools, triggers>>
  \/ part = "triggers" /\ A!Next /\ UNCHANGED <<part, calls, values, imports, references, pages, lints, tools, generation>>

ServicesSpec ==
  ServicesInit
    /\ [][ServicesNext]_<<part, calls, values, imports, references, pages, lints, tools, generation, triggers>>

DoneUnderRules == R!DoneUnderRules
RefusedForCause == R!RefusedForCause
StoredAsMeant == V!StoredAsMeant
ImportWhole == I!ImportWhole
DuplicatesHaveCauses == I!DuplicatesHaveCauses
OrphansRaced == D!OrphansRaced
PagesComplete == P!PagesComplete
LintedRuns == L!LintedRuns
McpLikeRest == M!McpLikeRest
TablesFit == G!TablesFit
StockMatchesDocuments == A!StockMatchesDocuments
BooksBalance == A!BooksBalance

===============================================================================
