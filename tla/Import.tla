-------------------------------- MODULE Import --------------------------------
(***************************************************************************)
(* Imports of files, and seeding from them, into an entity whose id is a    *)
(* custom one (prefix and running number), beside POSTs that take theirs    *)
(* from the counter of flx_sequences: data_import_service.rs,               *)
(* data_import_repo.rs and seed.rs.  An id is its number; numbers are       *)
(* padded to the width of the id's token, and ids compare as texts.  A row  *)
(* of a file, or a statement of an SQL one, is [id, ref]: the id it brings, *)
(* 0 for none, and whether the parent it names exists.                      *)
(***************************************************************************)
EXTENDS Integers, Sequences, FiniteSets

CONSTANTS
  Imports, Posts,
  Files,      \* sequences of rows
  Existing,   \* numbers in the table before
  Counter0,   \* seq_value of the prefix, 0 while it has no row
  BatchSize,  \* IMPORT_BATCH_SIZE
  TenToWidth, \* the first number that is longer than the padding
  MaxFaults   \* bound on failed statements

VARIABLES
  backend,    \* "sql" or "mongo"
  mode,       \* of each import: "rows", "queue" (?isqueue=true) or "seed"
  ids,        \* committed documents: [id, by]
  counter,    \* seq_value of the prefix
  file, step, \* each import: its rows and its progress
  nextNum,    \* last number of its id_ctx
  inserted,   \* rows it has counted
  open,       \* ids in its open transaction
  jobs,       \* rows it put on the queue
  answer,     \* total_data of its answer
  seen,       \* ids in the table when it read the maximum
  posts,      \* each POST: "new", "done" or "refused"
  faults

vars == <<backend, mode, ids, counter, file, step, nextNum, inserted, open, jobs, answer, seen, posts, faults>>
request == <<backend, mode, file>>

Old == "old"

\* The numbers in the table before are those of the counter, once it has a row.
ImportAssumption ==
  /\ BatchSize \in Nat \ {0} /\ TenToWidth \in Nat \ {0} /\ Counter0 \in Nat
  /\ Files \subseteq Seq([id : Nat, ref : BOOLEAN])
  /\ Existing \subseteq Nat \ {0}
  /\ Counter0 = 0 \/ \A n \in Existing : n <= Counter0
  /\ Imports \cap Posts = {} /\ Old \notin Imports \cup Posts

Init ==
  /\ backend \in {"sql", "mongo"} /\ mode \in [Imports -> {"rows", "queue", "seed"}]
  /\ ids = {[id |-> n, by |-> Old] : n \in Existing}
  /\ counter = Counter0
  /\ file \in [Imports -> Files]
  /\ step = [i \in Imports |-> "new"]
  /\ nextNum = [i \in Imports |-> 0] /\ inserted = [i \in Imports |-> 0]
  /\ open = [i \in Imports |-> {}]
  /\ jobs = [i \in Imports |-> 0] /\ answer = [i \in Imports |-> 0]
  /\ seen = [i \in Imports |-> {}]
  /\ posts = [p \in Posts |-> "new"]
  /\ faults = 0

Numbers == {n \in {r.id : r \in ids} : n > 0}
Left(i) == {r \in ids : r.by = i}
Fault == faults < MaxFaults /\ faults' = faults + 1

\* Order of ids as texts, for numbers of the width and of one digit more.
TextLess(m, n) ==
  IF (m < TenToWidth) = (n < TenToWidth) THEN m < n
  ELSE IF m < TenToWidth THEN m <= n \div 10 ELSE m \div 10 < n

IsMax(m, ns) == m \in ns \cup {0} /\ \A n \in ns : n = m \/ TextLess(n, m)

----------------------------------------------------------------------------
(* process_import_request and seed_table *)

Seeding(i) == mode[i] = "seed"

End(i, how, total) ==
  /\ step' = [step EXCEPT ![i] = how]
  /\ answer' = [answer EXCEPT ![i] = total]

\* The file is parsed, and calculate_max_id read before any transaction.
Begin(i) ==
  /\ step[i] = "new" /\ ~Seeding(i)
  /\ \/ \E m \in Numbers \cup {0} : IsMax(m, Numbers) /\ nextNum' = [nextNum EXCEPT ![i] = m]
                                     /\ UNCHANGED faults
     \/ Fault /\ UNCHANGED nextNum
  /\ seen' = [seen EXCEPT ![i] = IF faults' = faults THEN Numbers ELSE {}]
  /\ step' = [step EXCEPT ![i] = IF mode[i] = "queue" THEN "queue" ELSE "open"]
  /\ UNCHANGED <<request, ids, counter, inserted, open, jobs, answer, posts>>

\* Seeding numbers nothing.
BeginSeed(i) ==
  /\ step[i] = "new" /\ Seeding(i)
  /\ seen' = [seen EXCEPT ![i] = Numbers]
  /\ step' = [step EXCEPT ![i] = "open"]
  /\ UNCHANGED <<request, ids, counter, nextNum, inserted, open, jobs, answer, posts, faults>>

\* Rows of the next batch: an import binds a batch, in MongoDB a document at
\* a time, and so does seeding.
Batch(i) ==
  LET size == IF backend = "sql" /\ ~Seeding(i) THEN BatchSize ELSE 1
      last == IF inserted[i] + size < Len(file[i]) THEN inserted[i] + size ELSE Len(file[i]) IN
  (inserted[i] + 1)..last

\* Rows without an id are numbered in the order of the file.
Blank(i, upto) == {k \in 1..upto : file[i][k].id = 0}

\* Mutant: the number is used before it is incremented.
IdOfLate(i, k) ==
  IF file[i][k].id # 0 \/ Seeding(i) THEN file[i][k].id
  ELSE nextNum[i] + Cardinality(Blank(i, k)) - Cardinality(Blank(i, inserted[i])) - 1

\* nextNum already counts the rows of earlier batches.  A seeded row is not
\* numbered: MongoDB makes up an id, here -k, and SQL refuses the NULL.
IdOf(i, k) ==
  IF file[i][k].id # 0 THEN file[i][k].id
  ELSE IF Seeding(i) THEN IF backend = "mongo" THEN -k ELSE 0
  ELSE nextNum[i] + Cardinality(Blank(i, k)) - Cardinality(Blank(i, inserted[i]))

NewIds(i) == {IdOf(i, k) : k \in Batch(i)}
Referring(i) == Seeding(i) \/ \A k \in Batch(i) : file[i][k].ref

\* The primary key takes the ids of a batch neither twice nor NULL.
Duplicate(i) ==
  \/ 0 \in NewIds(i)
  \/ NewIds(i) \cap (Numbers \cup open[i]) # {}
  \/ \E j, k \in Batch(i) : j # k /\ IdOf(i, j) = IdOf(i, k)

\* A row that another transaction inserted, and may still take back.
Waits(by, new) == \E j \in Imports \ {by} : new \cap open[j] # {}

Working(i) == step[i] = "open" /\ inserted[i] < Len(file[i])

\* A parent that does not exist: the rows before it in MongoDB stay.
RejectReference(i) ==
  /\ Working(i) /\ ~Referring(i)
  /\ End(i, "rejected", inserted[i])
  /\ open' = [open EXCEPT ![i] = {}]
  /\ UNCHANGED <<request, ids, counter, nextNum, inserted, jobs, seen, posts, faults>>

Advance(i) ==
  /\ inserted' = [inserted EXCEPT ![i] = @ + Cardinality(Batch(i))]
  /\ nextNum' = [nextNum EXCEPT ![i] = @ + Cardinality({k \in Batch(i) : file[i][k].id = 0})]

\* Mutant: every batch is its own transaction.
InsertBatchCommitted(i) ==
  /\ Working(i) /\ Referring(i)
  /\ ~Waits(i, NewIds(i)) /\ ~Duplicate(i)
  /\ Advance(i)
  /\ ids' = ids \cup {[id |-> n, by |-> i] : n \in NewIds(i)}
  /\ UNCHANGED <<request, counter, step, open, jobs, answer, seen, posts, faults>>

\* perform_bulk_insert_sql in the transaction; store.insert in MongoDB.
InsertBatch(i) ==
  /\ Working(i) /\ Referring(i)
  /\ ~Waits(i, NewIds(i)) /\ ~Duplicate(i)
  /\ Advance(i)
  /\ IF backend = "sql"
       THEN open' = [open EXCEPT ![i] = @ \cup NewIds(i)] /\ UNCHANGED ids
       ELSE ids' = ids \cup {[id |-> n, by |-> i] : n \in NewIds(i)} /\ UNCHANGED open
  /\ UNCHANGED <<request, counter, step, jobs, answer, seen, posts, faults>>

\* The primary key refuses the statement; the transaction is rolled back.
RefuseDuplicate(i) ==
  /\ Working(i) /\ Referring(i)
  /\ ~Waits(i, NewIds(i)) /\ Duplicate(i)
  /\ End(i, "refused", inserted[i])
  /\ open' = [open EXCEPT ![i] = {}]
  /\ UNCHANGED <<request, ids, counter, nextNum, inserted, jobs, seen, posts, faults>>

\* A statement fails, or the database ends a wait.
InsertFails(i) ==
  /\ Working(i)
  /\ Fault \/ (Waits(i, NewIds(i)) /\ UNCHANGED faults)
  /\ End(i, "failed", inserted[i])
  /\ open' = [open EXCEPT ![i] = {}]
  /\ UNCHANGED <<request, ids, counter, nextNum, inserted, jobs, seen, posts>>

Commit(i) ==
  /\ step[i] = "open" /\ inserted[i] = Len(file[i])
  /\ End(i, "done", inserted[i])
  /\ ids' = ids \cup {[id |-> n, by |-> i] : n \in open[i]}
  /\ open' = [open EXCEPT ![i] = {}]
  /\ UNCHANGED <<request, counter, nextNum, inserted, jobs, seen, posts, faults>>

\* COMMIT fails, or takes effect and its answer is lost.
CommitFails(i) ==
  /\ step[i] = "open" /\ backend = "sql" /\ inserted[i] = Len(file[i])
  /\ Fault
  /\ End(i, "torn", IF Seeding(i) THEN 0 ELSE inserted[i])
  /\ \/ ids' = ids \cup {[id |-> n, by |-> i] : n \in open[i]}
     \/ UNCHANGED ids
  /\ open' = [open EXCEPT ![i] = {}]
  /\ UNCHANGED <<request, counter, nextNum, inserted, jobs, seen, posts>>

\* ?isqueue: a job for every row, one XADD after the other.
EnqueueRow(i) ==
  /\ step[i] = "queue" /\ jobs[i] < Len(file[i])
  /\ jobs' = [jobs EXCEPT ![i] = @ + 1]
  /\ UNCHANGED <<request, ids, counter, step, nextNum, inserted, open, answer, seen, posts, faults>>

EnqueueFails(i) ==
  /\ step[i] = "queue" /\ jobs[i] < Len(file[i])
  /\ Fault
  /\ End(i, "failed", 0)
  /\ UNCHANGED <<request, ids, counter, nextNum, inserted, open, jobs, seen, posts>>

Enqueued(i) ==
  /\ step[i] = "queue" /\ jobs[i] = Len(file[i])
  /\ End(i, "done", jobs[i])
  /\ UNCHANGED <<request, ids, counter, nextNum, inserted, open, jobs, seen, posts, faults>>

----------------------------------------------------------------------------
(* POST on a SQL database, whose transaction RunningNumbers has in detail *)

\* The last digits of the last id, or the committed counter.
Drawn ==
  IF counter > 0 THEN {counter + 1}
  ELSE {(m % TenToWidth) + 1 : m \in {n \in Numbers \cup {0} : IsMax(n, Numbers)}}

Post(p) ==
  \E n \in Drawn :
    /\ posts[p] = "new" /\ backend = "sql"
    /\ ~Waits(p, {n})
    /\ IF n \in Numbers
         THEN posts' = [posts EXCEPT ![p] = "refused"] /\ UNCHANGED <<ids, counter>>
         ELSE /\ posts' = [posts EXCEPT ![p] = "done"]
              /\ ids' = ids \cup {[id |-> n, by |-> p]}
              /\ counter' = n
    /\ UNCHANGED <<request, file, step, nextNum, inserted, open, jobs, answer, seen, faults>>

Next ==
  \/ \E i \in Imports :
       \/ Begin(i) \/ BeginSeed(i) \/ RejectReference(i) \/ InsertBatch(i) \/ RefuseDuplicate(i) \/ InsertFails(i)
       \/ Commit(i) \/ CommitFails(i)
       \/ EnqueueRow(i) \/ EnqueueFails(i) \/ Enqueued(i)
  \/ \E p \in Posts : Post(p)

----------------------------------------------------------------------------
(* Properties *)

\* README 17: an import or a seeding answers success when all of its rows are
\* in the table or on the queue.  One that fails left nothing on a SQL database, whichever
\* batch it was in, and in MongoDB the rows that its answer counts.
ImportWhole ==
  \A i \in Imports :
    LET rows == Cardinality(Left(i)) IN
    /\ step[i] = "done" => Len(file[i]) = IF mode[i] = "queue" THEN jobs[i] ELSE rows
    /\ step[i] \in {"rejected", "refused", "failed"} =>
         rows = IF backend = "sql" THEN 0 ELSE answer[i]
    /\ step[i] = "torn" => rows \in {0, Len(file[i])}

\* Ids of one digit more than the padding are no longer found as the last.
Wide == \E n \in Numbers : n >= TenToWidth

\* Numbers that an import gives out continue those of the table, and those of
\* POSTs continue the counter: a duplicate is due to an id in the file, to
\* somebody who wrote after the maximum was read, to a maximum that could not
\* be read, to numbers past the width, or, for a POST, to an import past the
\* counter.
DuplicatesHaveCauses ==
  /\ \A i \in Imports : step[i] = "refused" =>
       \/ Seeding(i) \/ \E k \in 1..Len(file[i]) : file[i][k].id # 0
       \/ \E r \in ids : r.by # i /\ r.id \notin seen[i]
       \/ Wide
  /\ \A p \in Posts : posts[p] = "refused" => (\E r \in ids : r.by \in Imports /\ r.id > Counter0) \/ Wide

===============================================================================
