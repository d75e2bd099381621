# TLA+ verification of flx-nocode-api

flx-nocode-api serves REST entities described by JSON files: each route gets
create, read, update and delete handlers, with state machines, document locks,
action triggers, webhooks, queued writes, caches and tokens on top of a SQL or
MongoDB database and an optional Redis.  This directory models it in TLA+: its
concurrent and failure-prone parts, and the rules by which it decides what a
request may do, means and stores.  TLC checks the models on small instances,
and TLAPS proves the main safety results for all values of the constants.

Paths below are relative to the repository; `nocode/` means `src/nocode/`.

## 1. The system

| Component | State it keeps | Operations | Talks to |
|---|---|---|---|
| Governed writes (`nocode/repositories/data_{create,update,delete}_repo.rs`) | database rows, row locks, transactions | `perform_insert`, `perform_update`, `perform_delete_sql` | database, trigger engine, foreign keys, outbox |
| Webhook outbox (`nocode/outbox.rs`) | table `flx_outbox`, the worker's polled batch | `enqueue_in_tx`, poll, claim, `deliver`, record the result | database, receivers |
| Write queue (`nocode/consumer.rs`, `nocode/stream_queue.rs`) | Redis stream, consumer group, pending list, dead letters | `enqueue_job`, `migrate_legacy_lists`, `read_batch`, `claim_stale`, `handle_entry` | Redis, write services |
| Email queue (`nocode/email_queue.rs`, `nocode/email_handler.rs`) | the same for mails | the same, with SMTP as the effect | Redis, SMTP |
| Running numbers (`nocode/sequences.rs`) | table `flx_sequences` | `try_increment`, `seed_and_take` | the caller's transaction |
| Trigger engine (`nocode/trigger_engine.rs`) | none of its own | `execute_triggers`: insert, update and delete actions, stock guards, `{seq:}`; `set` expressions | the caller's transaction |
| Foreign keys (`nocode/foreign_key.rs`) | none of its own | restrict, cascade, set null on delete | the caller's transaction |
| Route cache (`database/redis.rs`, `services/data_read_service.rs`) | L1 pages, Redis pages, a version per route, local and in Redis | `route_version`, `bump_route_version`, single-flight load | Redis, database |
| Registry (`registry.rs`, `config/mod.rs`) | the live configuration and its generation | `reload` (SIGHUP, `POST /admin/reload`) | lint, DDL, route cache |
| Table generation (`nocode/generate.rs`, `startup/mod.rs`, `main.rs`) | the tables, indexes and foreign keys of the database | boot, reload, `POST /generate/table` | database, registry |
| Configuration lint (`nocode/validate.rs`, `startup/mod.rs`) | none | the lint at boot and at reload | registry |
| Tokens (`auth.rs`, `core.rs`) | denylist, local and in Redis | login, refresh, logout, revocation sync | Redis, database |
| Rules (`auth.rs`, `config/auth_config.rs`) | `rules.json`, in the registry | `check_access`, `enforce_allowed_fields` | every service |
| Rate limiter (`rate_limit.rs`) | fixed windows in bounded shards | `check_and_increment` | middleware |
| Audit log (`audit.rs`) | bounded channel | `write_audit`, `flush` | writes, shutdown |
| Shutdown (`shutdown.rs`, `main.rs`) | a flag and an in-flight counter | `begin`, `drain` | queue, outbox and email workers |
| Write services (`services/data_{create,update,delete}_service.rs`, `nocode/routes/`) | none that outlives a request | dispatch, rules, checks and conversion of values, queueing | registry, queue, write repositories |
| Import and seeding (`services/data_import_service.rs`, `seed.rs`) | one transaction per file | rows, batches, generated ids | database, queue |
| Reads and exports (`data_read_repo.rs`, `data_export_service.rs`) | none | filters, search, sorting, cursors, pages | database, route cache |
| MCP server (`mcp/`) | sessions, their identity | listing of entities, tool calls | registry, services |
| Crypto, helpers, metrics, CLI | counters | conversions, option parsing | everything above |

What is hard: requests, queue threads and replicas interleave inside database
transactions; workers crash between a claim and its result, or between an
effect and its acknowledgement; Redis and database calls fail after they took
effect; cached and polled copies, rules and schemas are used after they went
stale; and the same question (which rows, which value, who may) is answered by
several pieces of code that should agree.  What makes each part correct:

- writes: the guards of an update (state machine, lock, version) hold for the
  row it hits, not only for the one it read; a write and its webhook row commit
  or vanish together; stock and ledger follow the documents that committed;
- outbox: an event is not sent by two replicas at once, is not given up early,
  and is in the end decided; queues: an acknowledged job was executed or
  dead-lettered, a delivered job is never forgotten, an accepted job is in the
  end done; audit: what committed reaches the file before the process ends;
- running numbers: distinct and without gaps; imports: whole or nothing;
- cache: no page older than the last write beyond the refresh window; registry:
  what is in service is servable, and old pages go with the old schema; tables:
  what is served is in the database, and what was served once can be again;
- tokens: a revoked token stays revoked and the revocation spreads; rules: what
  is done was allowed, what is refused had a cause; limiter: bounded bursts;
- reads: a client that pages sees every row once, and the rows shown are those
  asked for; MCP: a tool does what the REST request it stands for does.

## 2. Plan

Done, in this order: the write path with its proofs (`RecordTx`), the outbox
and the proof that it keeps its promise, the write queue with its proofs, the
route cache, running numbers with their proofs; then tokens and limiter
(`Access`) with their proofs, reloads with theirs (`Registry`), mail, audit and
shutdown (`Background`), formulas and filters (`Evaluation`), and the services
between router and database, foreign keys, triggers and the generation of tables
among them (`Services`); then the proofs about the cache, the background tasks, the limiter,
foreign keys, imports, requests, values, tools, the lint, pages, generated tables
and triggers.

What is left, the most valuable first:

1. Several routes in the cache, so that the pages a trigger, a cascade or an
   import leaves stale are part of the model (findings describe them).
2. The MongoDB path: writes without transactions, numbers without a counter.
3. Export files and their limit of concurrent requests, and the trace.

Modules that are proved about declare no RECURSIVE operator, take their
parameters as CONSTANTS under named assumptions, and keep their proofs in a
module of their own.

## 3. The models

Every action covers one stretch of a handler between two points where another
actor can get in (a database statement, a Redis call, an `.await` on either);
what the code does in that stretch without yielding is in the same action.
`PROJECT.json` maps each definition to its lines.  A definition commented
"Mutant" is a plausible bug and is used by no specification; `PROJECT.json`
names the property that finds it.

Four modules put parts side by side that share no state: `Access`, `Background`,
`Evaluation` and `Services`.  `Evaluation` and `Services` have a variable
`part` that says which part a behaviour is about; the others stay at one initial
state, so that TLC does not multiply them.  The parts are INSTANCEd and declare no
assumption; the composing module states those of all of them.  `Evaluation` has
the recursive ones.  `Services` calls its specification `ServicesSpec`, so that
one module of proofs can extend it and `Registry`.

### RecordTx

State: the committed rows (`row`), row locks (`lock`), and for each request its
progress (`pc`), its `old_record` (`old`) and the row it wrote (`new`); `outbox`
is the committed part of `flx_outbox`.  A PUT (PATCH takes the same path) runs
`BeginTx`, `ReadForUpdate` (the `FOR UPDATE` read), `Reject` or `Update`, and
`Commit`; `UpdateMisses` is an UPDATE that hits no row.  A DELETE reads without
a lock (`ReadForDelete`) and ignores an error of that read; a POST inserts.
`Fail` is any other failure: foreign keys, formulas, triggers, a lost
connection, a crash.  A lost answer of COMMIT is the outcome `unknown`.

Assumed of the database: READ COMMITTED visibility and row locks held to the
end of the transaction, as PostgreSQL, MySQL and MSSQL give them.  (MySQL's
default REPEATABLE READ differs for plain reads only; the guards use a locking
read.)  SQLite writes through a pool of one connection (`database/connection.rs`)
and has the serial ones of these behaviours.  A missing version and a NULL one
are both 0.  "Settled" records are those of single-column key that no request
creates: with a composite key `old_record` is read by the first key column
alone and is empty, so the guards do not apply, and a record that appears
between the read and the UPDATE is updated unchecked.  The properties about
guards say which records they are for.

### WebhookDelivery and Outbox

`WebhookDelivery` is the promise: an event is called delivered only if it was
received, given up only after `MaxAttempts` attempts, and not sent again once it
is decided; of an event that goes astray nothing is promised.
`Outbox` has the table (`status`, `attempts`, `due`), and each replica's loop:
`Poll` copies due rows into `batch`; per row `Claim` (conditional on the status
alone, and writing the polled attempts), `Deliver`, `Settle`, `Advance`.
Failures: `ClaimFails`, `ClaimUncommitted` (the answer of `commit()` is
discarded), a lost receiver's answer, `SettleFails`, `Crash`.  `torn` and
`received` are history variables.  `Fate` is the refinement mapping.

### WriteQueue

State: the Redis stream, its group (`last`, the pending list `owner`, `stale`
for entries idle beyond `WRITE_CLAIM_IDLE_MS`), the dead letters, and for each
HTTP request and each worker where it is.  `CheckLen`, `Publish` and
`PublishFails` are `enqueue_job`; `Start`, `Pop` and `Push` the boot with the
migration of legacy lists; `ReadBatch`, `IdleTick` and `ClaimStale` the loop;
`Execute`, `Bury` and `Ack` with their failures are `handle_entry`.  Redis keeps
its data across crashes of any process.  A reply that is lost or late ends the
call in an error after the command took effect (`ReadLost`, `PublishFails`,
`AckFails`).  A worker is a replica with one queue thread.  `skipped` and
`reclaimed` are history variables.

### RouteCache

State: versions (`remote` in Redis, `local` in each replica with whether it is
within the refresh window), pages in both tiers, requests, and the detached
tasks: L2 writes (`fills`) and the SET that republishes a version.  A page is
the number of writes its data reflects.  `Begin`, `Ask` and `StoreVersion` are
`route_version`, split where it awaits; `BumpLocal`, `Incr` and `StoreBumped`
are `bump_route_version`.  Assumed: `REDIS_CACHE_TIMEOUT_MS` is shorter than
`ROUTE_VERSION_REFRESH_MS` (100 and 1000 by default), so that a version bumped
locally does not age while its INCR runs (`OldEnough`).  Only the order of the
events matters: pages may expire, and versions age, at any time.

### RunningNumbers

State: the committed `seq_value` (`seqValue`), the transaction holding its row
(`holder`), and the progress and number of each transaction.  Two callers share
it: `perform_insert` (kind `id`: a primary key, errors end the request) and
`query_next_sequence` (kind `token`: no unique index, errors fall back to the
legacy lookup).  `Increment` is `try_increment`, `ReadMax` the legacy lookup,
`Seed` and `SeedFails` are `seed_and_take`, whose savepoint isolates the failed
INSERT.  `guessed` records who got a number that neither the counter nor a true
maximum gave, `leftOpen` whose transaction was not ended: on SQL Server (`mssql`) a
transaction that is dropped goes back to the pool as it is (`DropTx`), after an
early return (`RetryFails`, `Abandon`) or with a request that is dropped.  What
later requests do inside it is left out: the properties speak of a scope nobody
left open, and `EveryoneEnds` excepts a row that such a transaction has locked.
The other models of transactions take a dropped one as rolled back.  Numbers stand for formatted ids: padding and prefixes are left
out, and with them that the lookup compares text (`Import` has that).

### Access: Sessions and RateLimit

`Sessions`: the tokens of one account on several replicas.  `LoginVerified`,
`Rehash`, `ReadRoles` and `LoginDone` are login, split at its queries;
`RefreshVerify`, `RefreshUser`, `ReadRoles` and `Rotate` are refresh; `Logout`
revokes.  A revocation enters the denylist of the process (`deny`) and is sent to
Redis by a detached task (`Send`, `SendFails`); `Sync` replaces each replica's
list by what has not expired of it and what Redis has.  Beside them the account
is edited, time passes, keys expire and processes restart.
`RateLimit`: one shard.  A caller takes the time before it waits for the lock, so
callers enter with their times out of order; `Known` and `Unknown` are
`check_and_increment` for a key with and without a window, with the eviction of
a full shard.

### Registry

State: the files (`disk`), the registry in service (`live`), the tables of the
database, and each reload's progress.  `ReadRoutes`, `ReadEntity` and
`ReadRules` read the files one by one, so that edits fall in between; `Refuse` is
the verdict of the lint and of the check for tables declared twice; `Diff`,
`Generate`, `Swap` and `Bump` are the rest of `reload`.  Nothing keeps two reloads
apart.  A GET takes a schema (`Resolve`) and caches its page under the version of
the moment (`Load`).  A version of an entity file is a `Text`.  `lost` (history) holds
the tables whose COMMIT failed unnoticed.

### Background: EmailQueue and AuditLog

`EmailQueue` has the stream operations of `WriteQueue` and looks at what the mail
server sees: `inbox` counts the copies, `causes` the lost answers and changes of
hand that may repeat one.  `AuditLog`: workers run queued writes (`Start`,
`Trigger`, `Commit` or `RollBack`, `Audit`) and hand lines to the bounded channel,
which drops what does not fit; `WriteLine` and `WriteFlush` are the writing task
with its buffer, `Begin`, `Drained` and `GiveUp` the shutdown.  The file may not
open (`opened`; the task then drops what it receives), a `writeln` may fail (its
line is in `lost`, a history variable) and a flush may leave a part in the buffer
(`failed`); the task goes on in each case, and acknowledges every flush.  A line
of which a part was written counts as lost.

### Evaluation: Formulas, Filters

`Formulas`: what the `set` of an action writes.  An expression is a tree and is
read as the symbols it is written with: tokens are interpolated, the result is
parsed by the recursive descent of the code (`ParseExpr`, `ParseTerm`,
`ParseFactor`, `ParsePrimary`) and evaluated, or split at a sign, or written as it
stands.  Numbers are fractions where the code has floats.
`Filters`: a condition is the set of rows it selects; parameters, filter trees,
search and deleted rows on GET and on the export, which has a reading of its own.

### Services

- `AccessRules` is the decision of `rules.json`: which rule speaks for a path and
  the caller's claims, what it allows, and the columns it restricts to.
- `Requests`: one request through dispatch, access control, queue and service,
  while reloads change the configuration: `Resolve`, `CheckAccess`, `Restrict` (a
  second look at the rules), `Show` or `Perform`, or `Enqueue` and, in a worker,
  `Take`, which checks again.  What the write does to its row is `RecordTx`.
- `FieldValues`: the checks and conversions that take one JSON value into a
  column, by POST, PUT, line items of either, and seed files, and what the
  answer says is stored (`Told`).  A number that is no integer becomes the f64
  next to it (`Double`); blanks around a text are trimmed, or kept by a seed file.
- `Import`: files in batches, direct, queued or seeded, with the ids they generate
  beside POSTs that take theirs from the counter.  Numbers are padded and
  compare as texts (`TextLess`).
- `References`: `reference_foreign_keys` on DELETE, statement by statement, beside
  children inserted with a checked key or without one.
- `Paging`: a client that reads a table page by page, by cursor or by number,
  while others change it.  A page is any order of rows that ORDER BY allows.
- `ConfigLint`: the rules of the lint (`Problems`), what boot does with them, and
  what the statements of a request make of the configuration that passed:
  `Statements` holds what a request runs of every declaration, also of those that no
  rule looks at (`Unlinted`): the types, parts and columns of trigger actions,
  expressions, raw conditions, the allow-list of ORDER BY.
- `TableGeneration`: processes on one database of any of five dialects boot
  (`Boot`, `EnsureAccounts` for the core tables, `Prepare`, `GenerateNext` per
  entity, `Serve`), reload, create a table on request, stop and start again,
  while the configuration is edited.  A table has columns, indexes and foreign
  keys; a process holds the places that are left in its `Plan`;
  `CreateRefused`, `AlterRefused` and `IndexRefused` are what each dialect
  refuses and the code does not pass over.  `served`, `lost` and a process's
  `again` and `torn` are history.
- `TriggerPlans` and `Triggers`: PUTs and DELETEs of documents whose status drives
  stock, invoices and the ledger.  Between the header and the triggers a PUT
  replaces the detail rows by those of its body (`SyncLines`) and a DELETE
  processes the foreign keys of the configuration (`ForeignKeys`), which remove
  them, detach them, leave them or refuse.  `own` is the version of the rows the
  transaction finds then; `Plan` is what a transition fires over them, by event and
  condition, as the steps to execute (`AllPlans` has those of every transition, the
  constant `Plans` is its value); they run one statement at a time (`Start`, `Iterate`,
  `Lookup`, `Accumulate`, `ReadRow`, `UpdateRow`, `Insert`, `InsertBatch`) under row
  locks; a statement that waits is disabled, a deadlock or an error is
  `StatementFails`, which rolls back.  `mine` is what the transaction wrote, `moves`
  (history) the committed shipments of each document and the lots they have out.
- `Mcp`: a tool call beside the REST request it stands for (`Served`, `Admitted`),
  over HTTP or stdio, with reloads, an ended token and cancellation.  A write whose
  COMMIT is not answered, or a procedure that fails after its effect, ends the call
  with `effect` unsure (`FailLate`, `CancelLate`); an id goes into the path as it is
  (`Segment`, `Build`).

## 4. What is checked

| Run | Instance | Shows |
|---|---|---|
| `record_tx` | 3 requests out of 15 bodies, a plain, a versioned soft-deleted and a composite-key record, 4 states of which 2 locked | guards, optimistic locking, event chain and atomicity under every interleaving |
| `record_tx_delete` | 2 requests | violation: a locked record is deleted |
| `outbox` | 2 events, 2 replicas, batches of 2, 2 attempts, 1 fault | one sender at a time, refinement of the promise, every event decided |
| `outbox_stuck` | 1 event, 1 replica, 1 fault | violation: an event stays in `sending` |
| `write_queue` | 1 job, 1 malformed legacy job, 2 workers, 1 fault | nothing acknowledged undone or forgotten, everything done in the end |
| `route_cache` | 2 GETs, 2 writes, 2 replicas, 1 fault | no reuse of versions, fresh answers after asking Redis |
| `running_numbers` | 3 transactions, legacy documents 1 and 3, 1 fault | no gap, no duplicate, no refusal, no endless wait |
| `access` | 2 requests, 2 replicas, 2 passwords, 1 edit or fault, clock to 2; 4 callers, 2 keys, a shard of 1, limit 1, window 3 | revoked tokens stay refused and revocations spread, the hash migration keeps the password, bursts are bounded |
| `registry` | 2 reloads, 2 GETs, 2 edits, 2 routes, 4 texts of which one is broken, 2 tables, any of whose commits may be lost | the registry in service is servable, old pages go |
| `background` | 2 mails (1 cannot be built), 2 workers, 2 faults; 2 audited writes, channel of 2, a flush every 3 lines, any failures of the file | mails settled once acknowledged, copies explained, lines in order and on disk |
| `evaluation` | formulas of at most two operators; filters of depth 2 with 3 leaves | columns set to what their formula means, rows shown as asked |
| `services` | 3 configurations; 6 kinds of columns; 2 files beside 2 POSTs in batches of 2, 1 fault; 2 DELETEs of 2 customers with 4 children; tables of at most 4 rows, 1 change; configurations with up to two slips out of 37; one tool call over 3 generations; 4 configurations on 5 dialects, 2 processes, 1 edit, 1 failed statement or lost commit; 3 requests on 2 orders over 2 lots, 3 foreign-key actions, 1 failure | done under rules and refused for cause, values stored as meant, imports whole, no orphans but raced ones, pages complete, linted configurations run, tables fit, stock and books match the documents, MCP like REST |

Why the bounds are enough.

- The races of `RecordTx` need two writers of a record and one to observe or to
  follow; three requests also give a write, a race and a retry.
- The outbox's races are between a stale batch of one replica and the progress of
  another, for which two replicas, a batch of two and one retry suffice; one
  fault is enough for each failure, which no other one enables.
- In the queues two workers are needed for claims and a boot race, and a batch of
  two for entries that wait in a batch; the mails have two faults, so that a
  lost answer can follow a claim.
- In the cache two replicas disagree, two writes give one version two meanings,
  and two GETs are a reader that fills a cache and one that is misled.
- Three transactions are one that seeds, one that waits and one that comes late.
- Tokens: two requests race for one refresh token or one account, on one replica
  or on two; the clock reaches an access token's expiry, the end of its leeway
  and a refresh token's expiry.  Limiter: two adjacent windows and an eviction need four calls.
- Registry: two reloads overlap, each with an edit before, between or after its
  reads; a GET before and one after a swap.
- Triggers: three requests give two that race for the same lots in opposite
  orders and one that follows; one lot is short.  Every kind of action occurs.
  The requests are alike, so that one order of what they ask is enough; a PUT
  that returns an order brings other rows, and the DELETE meets a key that
  detaches, one that leaves the rows and one that refuses.
- Imports: three rows make two batches of two; the ids reach the width of their
  padding, which one digit shows as well as eight.
- Pages of 1 to 3 rows over 4 rows: a full page, a short one and a tie at the end
  of a page.  Integers are clipped at 3 as `i32` is at its end.
- Table generation: one edit makes an old and a new configuration, which two
  processes serve side by side; a third start finds what both left.  The four
  configurations add a column with an index, a child before its parent, an index
  name of two tables, an account table whose types two dialects lack, and an
  entity that is not generated.
- The lint's rules look at one or two names at a time: two slips meet.

`MaxFaults`, `MaxFailures` and `MaxEvents` bound failed calls, crashes and edits;
`MaxTime`, `MaxClock` and `MaxWait` the clocks, `MaxEdits` and `MaxChanges` what
others change, `MaxDeploys` and `MaxMishaps` edits and failures of generation, `MaxDepth`, `MaxLeaves`, `MaxFound`, `MaxPage` and `MaxInt` sizes.

Requests, reloads, replicas, GETs and writes are interchangeable where SYMMETRY is used,
and those runs check no liveness.  Deadlock is checked except in `access`,
`registry`, `background`, `evaluation` and `services`, whose requests end and
leave nothing to do; there the actions that should end them are checked by
liveness properties (`access`, `background`) or by what they leave behind.

Fairness.  `Outbox`, `WriteQueue` and `EmailQueue`: the loops of each process run
on (weak fairness of a worker's step; a crash or failure is never forced), a
request in flight ends by its timeout, and time passes (a row becomes due, an
entry becomes stale).  `RunningNumbers`: a request is run to its end, which is
weak fairness of its own steps without `Abort` and `Abandon`; waiting for the row lock is a
disabled step, and only the end of the other transaction enables it (never, if it
was left open).
`Sessions`: the loop of `spawn_denylist_sync` goes on (weak fairness of `Sync`).
`AuditLog`: the writing task waits on its channel (weak fairness of `WriteLine
\/ WriteFlush`).  The other modules make no liveness claim.

## 5. What is proved

`RecordTxProofs`, for any requests, records, columns, states and transition
matrix that satisfy the named assumptions:

- `TypeCorrect`: `Spec => []TypeOK`.
- `InductiveInvariant`: `TypeOK /\ Inductive`.  `ReadIsCurrent` alone is not
  inductive; what makes it so is that a PUT which found its record holds the
  lock (`ReadsHeld`), that only such a transaction holds it (`LockOwners`), that
  who wrote knows the row it is about to replace (`WritesHeld`), and that absent
  rows are empty (`EmptyRows`).
- `Currency`: `[]ReadIsCurrent`, read off the invariant.
- `TransitionsLegal` and `LockKept`: the action properties, by the invariant and
  a case split on who commits.  `TransitionsLegal` is for any list of transitions
  and takes the first that matches, as the code does; of a record that is not
  settled it says that the transition matches its status or a missing one, which
  is what the guard saw.

It then looks back at what was committed, on top of that invariant:

- `NothingLost`: `NoLostUpdate`.  What makes it inductive is `Superseded`: a
  version that an applied PUT asserted lies behind the record.  It holds if no
  version of a live record is NULL at the start (`VersionsGiven`): no assertion
  is compared with a NULL, so two PUTs that assert version 1 could both pass.
- `EventsMatchWrites`: `EventIffApplied`, by `Signed` (whoever left a trace in a
  row or in the uncommitted row of another was applied) and `OneEventEach`, if
  the first rows are nobody's (`RowsUnsigned`).
- `EventsChain`: `EventChain`, by `Announced` (the last event of a live record
  announced the row as it is) and `GoneStays` (a DELETE that found no row of a
  settled record finds none later, so its event announces nothing new).

`OutboxProofs`, for any events, replicas, crashes, batch size and limit of
attempts: `TypeCorrect`; `NeverTwoSenders`: `Spec => []OneSender`; and
`PromiseKept`: the outbox implements `WebhookDelivery`.  `OneSender` alone is
inductive, but the promise needs more: that an answered POST was taken and that
a replica which gives an event up has counted no more attempts than were made,
although it counts from the attempts it polled (`Counted`, `Answered`).  The
proof of the refinement goes action by action over the fate of the one event
that the step concerns.

`WriteQueueProofs`, for any jobs, workers, batch size, limits and failures:
`TypeCorrect`; `NothingLost`: `Spec => []AckedIsDone`; `AllClaimable`: `Spec =>
[]NothingForgotten`.  The invariant adds that a worker about to acknowledge has
its entry done (`HandledIsDone`) and that without a group nothing was delivered
(`GroupFirst`); that several workers may hold one entry does no harm because
what is done stays done.

`AccessProofs`, for any replicas, requests and times to live:
`RevokedStaysRevoked`: `Spec => []RevokedHere`.  The invariant adds to it that a
refresh under way holds an issued token (`RefreshHolds`) and that a process lists
each unexpired id it revoked (`Listed`), which the sync keeps because it drops
expired ids only.  `PasswordMigrates`: while the password is stored in its
old form nobody changed it, so that a login about to hash it holds it (`Migrating`).  `BurstsBounded`: `Spec =>
[]BurstBounded`, for any callers, keys, limit, window and size of a shard.  The
calls let through for a key are split in two sets of at most `Limit`, those of
the window in the shard and those of the one before; every older one lies more
than a window before what can still be let through (`Windowed`), a caller's wait
included.  `RolesOnlyAdd` says of every `rules.json`, path and method that another
role never takes a permission away.

`BackgroundProofs`, for any mails, workers, batches, failures, lines and sizes:
`MailsSettled`: the invariant counts, per entry, the copies there are and the
workers that may still send one against the causes (`Owed`), and adds what the
outcome of a worker stands for (`Outcome`).  `FlushKept`, for any failures of the file: the task
wrote, into the file or the buffer, what it received and did not lose
(`WroteInOrder`), the channel holds the rest in order, and the mark of a flush
stands behind the lines it was promised.

`RouteCacheProofs`, for any replicas, GETs, writes and failures: `AskedIsFresh`
and `VersionsOnlyGrow`.  Both rest on a count (`VersionsCount`): while no INCR is lost, the version
in Redis and the INCRs still to come make the number of writes (`Counted`); a
replica is ahead of Redis by no more than its own INCRs to come (`VersionsKnown`),
lets no version go out of date before, and so never republishes an older one
(`Outdated`); and a page has at least as many writes as its version counts (`PagesDated`).

`NumbersAndTriggersProofs` has what transactions take and leave.  Of
`RunningNumbers`, for any transactions, legacy documents and number of
failures: `NumbersGapFree`, `NobodyRefused`, `CounterMonotone` and
`TypeCorrect`.  The inductive invariant adds to the properties that the holder of
the row has a number beyond the counter or was left open (`LockHeld`) and, while
nobody guessed and nothing was left open (`Orderly`), that whoever has a number holds the row and has the next one, and that whoever
is about to seed an unused scope has seen the legacy maximum (`NextInLine`).

Of `Triggers`, for any documents, lots, detail rows, requests and triggers
(`TriggersAssumption`): `StockFollowsDocuments` and `BooksStayBalanced`.  It is
assumed of the configuration that each plan fits its transition when it is
executed alone (`Fits`): its updates add up to what the transition should move by
the detail rows it finds, and a shipment is invoiced and then posted.  Proved is
that races, failed statements, deadlocks and rollbacks change nothing of it, and
that the rows found are those of the document, unless the DELETE of a shipped one
had them removed before (`detached`).  Of a request under way
the invariant says (`RequestHeld`) that it holds the lock of its document, whose
status is still the one it read, and of each lot it wrote, whose new quantity is
the committed one and what its plan has done so far (`OwnLots`); and that it has
booked nothing, what it had accumulated, or the total of its document
(`OwnBooks`).  A sum over steps or documents is handled by its running total,
which exists and is unique by the least place where it would not
(`RunningExists`, `RunningAgree`, `SumMoves`).  Both are theorems of `ServicesSpec`,
a step of which is one of the triggers or leaves them alone (`TriggersPart`).

`ServicesProofs`, for any routes, texts, tables and any number of reloads, GETs
and edits: `TypeCorrect`, and `Servable`: `Spec => []LiveIsServable`.  The
invariant adds `Prepared`: between its diff and its swap a reload holds a sound
configuration, and every generated entity of it has its table, or lost it to a
failed COMMIT, or is on the list of those still to be generated.  What makes this survive an overlapping reload
is that tables are never dropped, and that an entity the diff finds unchanged
has its table because the registry in service is servable.  `NoPageStale`: a
page of the current version that no swap overtook shows the schema in service, or
some reload has yet to bump its route (`PagesOwed`).

The same module has `Services`, under `ServicesAssumption`, which says of each part
what its named assumption says.  A step of `ServicesSpec` is, for each part, a step
of its own or none (`PartsInit`, `PartsNext`), so that the invariant of a part is
one of the whole:

- `AllDoneUnderRules` and `RefusalsHaveCauses`: for any rules, schemas and reloads.
  A request carries the generations it looked at, and what it passed there
  (`Passed`, `AsAsked`).
- `RowsHoldWhatWasMeant`: for any columns and values, by cases over the kinds of
  column and the services (`FieldValuesAssumption`).
- `ToolsLikeRest`: for any tools, generations and reloads (`McpAssumption`).  The
  invariant says what each stage of a call has looked up and where (`Come`,
  `Told`, `Answers`); a listing that asks the rules about the record "{id}" gets
  the answer of any other record unless a rule names it (`SameAnswer`).  Nothing is
  said of the pages after a write that is `unsure`, nor of the rule for an id that
  the URI cuts (`Cuts`).
- `CleanLintRuns`: for any finite configurations (`ConfigLintAssumption`).  A
  statement that fails is one that no rule looks at (`Unlinted`), or names
  something, and the rule of the lint that looks at this name has a case for it; the table map is the least entity of an order.
- `ImportsWhole` and `RefusalsByKeyCaused`: for any files, batch sizes, counters and
  POSTs beside them (`ImportAssumption`).  The first counts the rows of a transaction
  against the place in its file, batch by batch; the second follows the greatest
  number that an import has seen and the ids it and others have put in since.
- `OrphansHaveRaced`: for any tables, children and DELETEs (`ReferencesAssumption`).
  Past a reference, a DELETE sees no child of its table that refers to the parent,
  but those written since it began (`Swept`).
- `PagesWhole`: for any tables, orders, limits and changes (`PagingAssumption`).
  With cursors, what was shown lies before the cursor and every untouched row that
  a cursor can reach lies behind it or was shown (`Forward`); by number, the pages
  shown so far are the first rows of the order (`ByNumber`).  That a page is a
  prefix of some order the query allows needs that order to be total on its keys
  (`Total`, `PastOrBefore`).
- `GeneratedTablesFit`: for any configurations, edits, processes and mishaps
  (`TableGenerationAssumption`).  A process has settled every entity of its plan
  that is not on its list (`ProcFits`): its table is there with the indexes its
  columns allow.  A configuration served once is settled for good, since tables,
  columns and indexes are only added (`WithGrows`), so nothing of it can be refused
  again but for the causes named (`RefusedCause`).

`Currency`, `CounterMonotone` and `RolesOnlyAdd` are theorems only; no run checks them.

What the proofs showed of the models.  A first form of `RefusedForCause` blamed the
configuration of the moment; a request that reads the rules twice can be refused
by neither of them alone.  `BurstBounded` holds for a span that is shorter than the window by
twice what a caller may wait, which a window of 2 did not show.  A reference with
"no action" leaves orphans without any race.  `LintedRuns` has exceptions that
two slips per configuration had not brought up: a table that is named as another
route is, a body that names a qualified column (neither the lint nor the service
says a word), and the input of a generator in `put.columns`, which is a finding.

Only model-checked:

- all liveness (`EventuallyDecided`, `EventuallyDone`, `EveryoneEnds`,
  `RevocationSpreads`, `EveryMailSettled`, `LinesReachDisk`), which with ENABLED is
  beyond the provers used here;
- `SetMeansItsFormula` and `ShownIsAsked`, about recursive evaluators: induction
  over data, which cannot be had from theorems that take an operator as a
  parameter;
- that the triggers of the instance fit their transitions, which TLC evaluates as
  part of `TriggersAssumption`.

## 6. Where the code and its documentation disagree

`PROJECT.json` lists the findings with the lines quoted.  Two have a run whose
counterexample shows them:

- a locked document can be deleted by a DELETE that read it earlier
  (`record_tx_delete`);
- a webhook event whose worker dies between claim and result is neither sent
  again nor failed (`outbox_stuck`).

The others were met while modelling and are visible in the models: where a
property would be broken by one, it names the exception (`stale`, `detached` and `raced` in
triggers and references, `Garbled` and `Echoed` in field values, `Wide` in imports, `doubts`
in paging, `Odd` in filters, `Ambiguous`, `LetPass`, `Unjoined` and `Unlinted` in the lint, `Gap` and `EndsInSign` in
formulas, `OneRegistry` in requests, `guessed` and `leftOpen` in numbers,
`failed` and `lost` in the audit log, `lost` and `torn` in tables, `Settled` in
governed writes, `Cuts`, `unsure` and cancelled calls in MCP).  Among them:

- a lost INCR leaves other replicas with old pages beyond the refresh window; an
  import, a trigger and a cascade invalidate no page of the tables they write;
- records with a composite key are updated without their guards;
- an error of COMMIT may hide a write that took effect, whose old pages stay; a tool
  puts the id unencoded into the path that the rules are asked about;
- line items of a locked record are replaced through an excepted column, and the
  version column itself counts as a change of a locked record;
- an overlapping reload reports a generation that another one has, and the older
  configuration may win; a broken `rules.json` becomes the empty one;
- a dropped transaction stays open on SQL Server, with its locks, and the next
  request of its connection commits into it; the audit log acknowledges a flush
  that failed;
- a DELETE processes its foreign keys before its triggers, which find no detail
  rows any more: what was shipped is not returned to stock;
- a trigger's number is guessed when a statement fails; an import counts on from
  the greatest text of the ids and leaves the counter behind;
- the first page of a cursor has no order unless one is asked for; the export
  does not read every operator that GET reads, and shows what an entity's
  `get.where_clause` hides on GET (`Exportable`);
- decimals go through an f64; the answer of a POST repeats a text as it was sent,
  not as it was trimmed and stored;
- a `set` formula that cannot be evaluated is split at its first sign, and
  the number behind it taken from or added to the column;
- a boot or a reload reports success when the COMMIT of a table failed; on SQL
  Server a foreign key makes every later boot fail, on PostgreSQL, SQLite and SQL
  Server an index over a new column does; equal index names hide one another; the
  embedded account tables do not suit PostgreSQL and SQL Server;
- a PUT refuses the input of a generator, which the lint lets pass in
  `put.columns` as a key "the create/update path skips";
- the lint looks at no more of a trigger's actions than their tables, and at no
  raw SQL, so that a configuration without a warning fails at every write or GET
  (`Unlinted`);
- a password that is changed during a login is overwritten by the hash of the
  old one.

## 7. Not modelled

- The MongoDB path (no transactions, no counter), except for imports.
- Multi-row PATCH, file uploads, the endpoint that can replace a counter, the
  renaming of a legacy sequence column.
- SQL text: dialects, joins and groups, the wording of generated DDL and the
  shortening of its names, qualified filter names and JSON paths.  Conditions are
  the rows they select.  Rows that break a new unique index are a failed statement.
- `sql` actions of triggers, which are any statement, and detail rows written by
  requests to their own entity between those of their document.
- Date and string functions and number formats of templates; patterns and lengths
  of field rules; encrypted columns; numbers that are not finite.
- The registration of users and the seeding of the first administrator and of the
  roles; tokens of other issuers; ETags; the cache without Redis and several routes in it.
- CSV and XLSX files, the limit of concurrent exports, the trace.
- OpenAPI, status codes and headers; prompts, completions and descriptions of the
  MCP server and the wording of its schemas.
- Signals: a shutdown begins at any time.
- Crypto, helpers, metrics and the command line: conversions and counters whose
  state nothing else depends on.
