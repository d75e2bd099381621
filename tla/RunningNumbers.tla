--------------------------- MODULE RunningNumbers ---------------------------
(***************************************************************************)
(* One scope of flx_sequences (sequences.rs): the running number of a       *)
(* custom id prefix (perform_insert) or of a trigger's {seq:...} token      *)
(* (query_next_sequence), taken by concurrent transactions on a SQL         *)
(* database.  A document written with a number stands for all that its      *)
(* transaction writes.  The counter row is locked from its UPDATE or        *)
(* INSERT to the end of the transaction.                                    *)
(***************************************************************************)
EXTENDS Naturals

CONSTANTS
  Txs,        \* transactions that take a number
  Legacy,     \* numbers of the documents older than the counter
  Last,       \* the largest of them, 0 if there is none
  Unlocked,   \* no transaction
  MaxErrors   \* bound on failed statements

ASSUME RunningNumbersAssumption ==
  /\ Last \in Nat /\ Legacy \subseteq 1..Last
  /\ Last \in Legacy \cup {0}
  /\ Unlocked \notin Txs
  /\ MaxErrors \in Nat

VARIABLES
  kind,     \* "id": a custom id, a primary key; "token": a trigger's token
  seqValue, \* committed seq_value, 0 while the scope has no row
  holder,   \* the transaction whose change of the row is not committed
  stage,    \* progress of each transaction
  seed,     \* seed_last, the legacy maximum it read
  number,   \* the number it took
  guessed,  \* transactions with a number not from the counter or a true maximum
  mssql,    \* the database is SQL Server
  leftOpen, \* transactions the pool took back with their connection, unended
  errors

vars == <<kind, seqValue, holder, stage, seed, number, guessed, mssql, leftOpen, errors>>
database == <<mssql, leftOpen>>

Active == {"new", "seed", "insert", "retry", "numbered"}
Ended == {"committed", "refused", "aborted"}

\* Numbers of the committed documents.
Used == Legacy \cup {number[t] : t \in {u \in Txs : stage[u] = "committed"}}

\* The row a SELECT ... ORDER BY ... DESC LIMIT 1 finds, 0 for none.
IsLast(m) == m \in Used \cup {0} /\ \A n \in Used : n <= m

Goto(t, where) == stage' = [stage EXCEPT ![t] = where]

Fault == errors < MaxErrors /\ errors' = errors + 1

Init ==
  /\ kind \in {"id", "token"}
  /\ seqValue = 0 /\ holder = Unlocked
  /\ stage = [t \in Txs |-> "new"]
  /\ seed = [t \in Txs |-> 0] /\ number = [t \in Txs |-> 0]
  /\ guessed = {}
  /\ mssql \in BOOLEAN /\ leftOpen = {}
  /\ errors = 0

----------------------------------------------------------------------------
(* Taking a number *)

Take(t, n) ==
  /\ number' = [number EXCEPT ![t] = n]
  /\ Goto(t, "numbered")

\* Mutant: the increment is read and written back without the row lock.
TakeUnlocked(t) ==
  /\ seqValue > 0
  /\ holder' = t
  /\ Take(t, seqValue + 1)

\* UPDATE flx_sequences SET seq_value = seq_value + 1; waits for the row lock.
TakeNext(t) ==
  /\ seqValue > 0 /\ holder = Unlocked
  /\ holder' = t
  /\ Take(t, seqValue + 1)

\* try_increment; a row inserted by an open transaction is not seen.
Increment(t) ==
  /\ stage[t] = "new"
  /\ \/ TakeNext(t)
     \/ seqValue = 0 /\ Goto(t, "seed") /\ UNCHANGED <<holder, number>>
  /\ UNCHANGED <<kind, seqValue, seed, guessed, errors, database>>

\* query_next_number_from_max, legacy_next_sequence
ReadMax(t) ==
  /\ stage[t] = "seed"
  /\ \E m \in Used \cup {0} : IsLast(m) /\ seed' = [seed EXCEPT ![t] = m]
  /\ Goto(t, "insert")
  /\ UNCHANGED <<kind, seqValue, holder, number, guessed, errors, database>>

\* An error of that SELECT counts as no row.
ReadMaxFails(t) ==
  /\ stage[t] = "seed" /\ Fault
  /\ guessed' = guessed \cup {t}
  /\ Goto(t, "insert")
  /\ UNCHANGED <<kind, seqValue, holder, seed, number, database>>

\* seed_and_take: the INSERT waits for that of an open transaction.
Seed(t) ==
  /\ stage[t] = "insert" /\ seqValue = 0 /\ holder = Unlocked
  /\ holder' = t
  /\ Take(t, seed[t] + 1)
  /\ UNCHANGED <<kind, seqValue, seed, guessed, errors, database>>

\* Mutant: a duplicate key leaves the seeded value in use.
KeepSeed(t) ==
  /\ stage[t] = "insert" /\ seqValue > 0
  /\ Take(t, seed[t] + 1)
  /\ UNCHANGED <<kind, seqValue, holder, seed, guessed, errors, database>>

\* Duplicate key, or another error: ROLLBACK TO SAVEPOINT, then try_increment.
SeedFails(t) ==
  /\ stage[t] = "insert"
  /\ \/ seqValue > 0 /\ UNCHANGED errors
     \/ Fault
  /\ Goto(t, "retry")
  /\ UNCHANGED <<kind, seqValue, holder, seed, number, guessed, database>>

Retry(t) ==
  /\ stage[t] = "retry"
  /\ TakeNext(t)
  /\ UNCHANGED <<kind, seqValue, seed, guessed, errors, database>>

\* An early return drops the transaction.  sqlx rolls it back; on SQL Server the
\* pool takes the connection as it is.
DropTx(t) == leftOpen' = IF mssql THEN leftOpen \cup {t} ELSE leftOpen

\* An error: a custom id gives up, a trigger uses the legacy lookup.
GiveUp(t, m) ==
  \/ /\ kind = "id"
     /\ Goto(t, "aborted")
     /\ UNCHANGED <<number, guessed>>
  \/ /\ kind = "token"
     /\ Take(t, m + 1)
     /\ guessed' = guessed \cup {t}

\* The lookup after a failed UPDATE may fail as well.
IncrementFails(t) ==
  /\ stage[t] = "new" /\ Fault
  /\ \E m \in Used \cup {0} : (m = 0 \/ IsLast(m)) /\ GiveUp(t, m)
  /\ UNCHANGED <<kind, seqValue, holder, seed, database>>

\* "could not be initialised", or an error of the UPDATE: for a custom id an
\* early return.
RetryFails(t) ==
  /\ stage[t] = "retry"
  /\ (seqValue = 0 /\ UNCHANGED errors) \/ Fault
  /\ GiveUp(t, seed[t])
  /\ IF kind = "id" THEN DropTx(t) ELSE UNCHANGED leftOpen
  /\ UNCHANGED <<kind, seqValue, holder, seed, mssql>>

----------------------------------------------------------------------------
(* The rest of the transaction *)

Release(t) == holder' = IF holder = t THEN Unlocked ELSE holder

Commit(t) ==
  /\ stage[t] = "numbered"
  /\ kind = "id" => number[t] \notin Used
  /\ seqValue' = IF holder = t THEN number[t] ELSE seqValue
  /\ Release(t)
  /\ Goto(t, "committed")
  /\ UNCHANGED <<kind, seed, number, guessed, errors, database>>

\* The primary key refuses a custom id that exists.
Refuse(t) ==
  /\ stage[t] = "numbered" /\ kind = "id" /\ number[t] \in Used
  /\ Release(t)
  /\ Goto(t, "refused")
  /\ UNCHANGED <<kind, seqValue, seed, number, guessed, errors, database>>

\* Mutant: an error path that does not roll back.
AbortOpen(t) ==
  /\ stage[t] \in Active
  /\ Goto(t, "aborted")
  /\ UNCHANGED <<kind, seqValue, holder, seed, number, guessed, errors, database>>

\* Validation or a later statement with its rollback, or a crash.
Abort(t) ==
  /\ stage[t] \in Active
  /\ Release(t)
  /\ Goto(t, "aborted")
  /\ UNCHANGED <<kind, seqValue, seed, number, guessed, errors, database>>

\* An early return, or the request is dropped, with the row of the counter
\* locked or not.
Abandon(t) ==
  /\ mssql /\ stage[t] \in Active
  /\ DropTx(t)
  /\ Goto(t, "aborted")
  /\ UNCHANGED <<kind, seqValue, holder, seed, number, guessed, mssql, errors>>

Proceed(t) ==
  \/ Increment(t) \/ IncrementFails(t) \/ ReadMax(t) \/ ReadMaxFails(t)
  \/ Seed(t) \/ SeedFails(t) \/ Retry(t) \/ RetryFails(t)
  \/ Commit(t) \/ Refuse(t)

Next ==
  \/ \E t \in Txs : Proceed(t) \/ Abort(t) \/ Abandon(t)
  \/ (\A t \in Txs : stage[t] \in Ended) /\ UNCHANGED vars

\* Every request is run to its end; it waits for the lock of the row only.
Spec == Init /\ [][Next]_vars /\ \A t \in Txs : WF_vars(Proceed(t))

----------------------------------------------------------------------------
(* Properties *)

TypeOK ==
  /\ kind \in {"id", "token"}
  /\ seqValue \in Nat /\ holder \in Txs \cup {Unlocked}
  /\ stage \in [Txs -> Active \cup Ended]
  /\ seed \in [Txs -> Nat] /\ number \in [Txs -> Nat]
  /\ guessed \subseteq Txs /\ errors \in 0..MaxErrors
  /\ mssql \in BOOLEAN /\ leftOpen \subseteq Txs

\* Nobody had to guess, and no transaction was left open.  (On SQL Server a later
\* request runs inside the open one, and its COMMIT ends nothing.)
Orderly == guessed = {} /\ leftOpen = {}

\* sequences.rs: "gap-free per committed transaction and never duplicated".
\* While that is so, the documents of committed transactions carry exactly the
\* numbers from the legacy maximum to the counter, each once, whichever
\* transactions seeded, waited, failed or rolled back.
GapFree ==
  Orderly =>
    LET committed == {t \in Txs : stage[t] = "committed"} IN
    /\ {number[t] : t \in committed} = IF seqValue = 0 THEN {} ELSE (Last + 1)..seqValue
    /\ \A t, u \in committed : number[t] = number[u] => t = u

\* While that is so, no POST is refused for an id that exists.
NeverRefused == Orderly => \A t \in Txs : stage[t] # "refused"

\* The counter only grows, also when a guessed number is committed: what was
\* handed out by it and committed is not handed out again.
CounterGrows == [][seqValue' >= seqValue]_vars

\* Nobody waits for ever on the lock of the scope, unless a transaction that was
\* left open has it.
EveryoneEnds == \A t \in Txs : <>(stage[t] \in Ended \/ holder \in leftOpen)

=============================================================================
