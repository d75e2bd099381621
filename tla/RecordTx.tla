------------------------------- MODULE RecordTx -------------------------------
(***************************************************************************)
(* The write path of governed documents: POST, PUT/PATCH and DELETE        *)
(* requests run concurrently, each in one database transaction, against    *)
(* records whose schema declares `state_machine`, `locked_when`, an        *)
(* optional `version` column and webhooks                                  *)
(* (perform_insert, perform_update, perform_delete_sql).                   *)
(*                                                                         *)
(* The database is what src/ relies on: READ COMMITTED visibility, an      *)
(* exclusive row lock held to the end of the transaction by a locking read *)
(* or by a write (PostgreSQL, MySQL, MSSQL).  SQLite's single writer       *)
(* connection allows the serial ones of these behaviours.  A record stands *)
(* for one row of some entity, so the schema options are sets of records.  *)
(***************************************************************************)
EXTENDS Integers, Sequences

CONSTANTS
  Requests,       \* write requests, each handled once
  Records,        \* primary keys
  Columns,        \* business columns other than the status and the version
  ExceptColumns,  \* locked_when.except_columns
  States,         \* values of the state_machine field
  NoState,        \* the status absent from a body, or NULL in a row
  Locked,         \* locked_when.<status>
  DefaultState,   \* the status column's database default
  DefaultVersion, \* the version column's, 0 for NULL
  Transitions,    \* of the state_machine, in order: [from, to, roles], roles {} for anyone
  AnyState,       \* "*" in a `from`
  Roles,
  Inputs,         \* the requests clients send
  Databases,      \* the rows the database may hold at the start
  Versioned,      \* records of entities with a `version` column
  SoftDeleted,    \* records of entities with delete.type_delete = "soft"
  Composite,      \* records of entities whose primary key has several columns
  FlakyReads,     \* requests whose first SELECT may return an error
  Nobody

InputType ==
  [op : {"POST", "PUT", "DELETE"}, rec : Records, cols : SUBSET Columns,
   state : States \cup {NoState}, items : BOOLEAN, expect : Nat, role : Roles]

Row ==
  [live : {"none", "live", "trash"}, state : States \cup {NoState}, ver : Nat,
   by : [Columns -> Requests \cup {Nobody}], items : Requests \cup {Nobody}]

NoRow ==
  [live |-> "none", state |-> NoState, ver |-> 0,
   by |-> [c \in Columns |-> Nobody], items |-> Nobody]

ASSUME InputsAssumption == Inputs \subseteq InputType

\* An absent row is empty.
ASSUME DatabasesAssumption ==
  \A db \in Databases :
    db \in [Records -> Row] /\ \A k \in Records : db[k].live = "none" => db[k] = NoRow

ASSUME NobodyAssumption == Nobody \notin Requests

ASSUME StatesAssumption ==
  /\ NoState \notin States /\ AnyState \notin States \cup {NoState}
  /\ Locked \subseteq States
  /\ DefaultState \in States \cup {NoState}
  /\ DefaultVersion \in Nat

\* "status" and "version" name columns of their own.
ASSUME ColumnsAssumption ==
  /\ {"status", "version"} \cap Columns = {}
  /\ ExceptColumns \subseteq Columns

VARIABLES
  row,     \* the committed rows
  lock,    \* the transaction holding a record's row lock
  pc,      \* progress, then outcome, of each request
  req,     \* what each request asks
  old,     \* `old_record` of each transaction
  new,     \* the uncommitted row each transaction wrote
  outbox   \* committed webhook rows (flx_outbox), in commit order

vars == <<row, lock, pc, req, old, new, outbox>>

----------------------------------------------------------------------------
(* Events, outcomes and what a write leaves *)

Event ==
  [rec : Records, by : Requests, op : {"POST", "PUT", "DELETE"}, old : Row, new : Row]

InFlight == {"begun", "read", "written"}

Verdicts == {"conflict", "illegal", "forbidden", "locked"}

Refusals == Verdicts \cup {"notfound", "failed"}

\* "unknown": the commit took effect and its answer was lost.
Applied == {"ok", "unknown"}

Rec(r) == req[r].rec

\* Whether transaction r can take, or already has, the row lock of k.
CanLock(r, k) == lock[k] \in {Nobody, r}

\* The row r's UPDATE leaves when it hits x: the patched columns, the next
\* version (read from old_record), and the replaced line items.
Patched(r, x) ==
  [live |-> x.live,
   state |-> IF req[r].state = NoState THEN x.state ELSE req[r].state,
   ver |-> IF Rec(r) \in Versioned THEN old[r].ver + 1 ELSE x.ver,
   by |-> [c \in Columns |-> IF c \in req[r].cols THEN r ELSE x.by[c]],
   items |-> IF req[r].items THEN r ELSE x.items]

\* A `version` in the body of a POST is stored as it is.
Inserted(r) ==
  [live |-> "live",
   state |-> IF req[r].state = NoState THEN DefaultState ELSE req[r].state,
   ver |-> IF Rec(r) \notin Versioned THEN 0
           ELSE IF req[r].expect = 0 THEN DefaultVersion ELSE req[r].expect,
   by |-> [c \in Columns |-> IF c \in req[r].cols THEN r ELSE Nobody],
   items |-> IF req[r].items THEN r ELSE Nobody]

Removed(r, x) ==
  IF Rec(r) \in SoftDeleted /\ x.live # "none" THEN [x EXCEPT !.live = "trash"] ELSE NoRow

----------------------------------------------------------------------------
(* The guards of perform_update, evaluated on old_record *)

\* Mutant: the version the client read is not compared.
IgnoreExpected(r) == FALSE

VersionMismatch(r) ==
  /\ Rec(r) \in Versioned
  /\ old[r].ver # 0 /\ req[r].expect # 0
  /\ req[r].expect # old[r].ver

Moves(r) == req[r].state # NoState /\ req[r].state # old[r].state

Matching(from, to) ==
  {i \in DOMAIN Transitions :
     Transitions[i].to = to /\ Transitions[i].from \cap {from, AnyState} # {}}

\* The first transition that matches; its roles.
Authorises(from, to) ==
  LET found == Matching(from, to)
      first == CHOOSE i \in found : \A j \in found : i <= j
  IN IF Transitions[first].roles = {} THEN Roles ELSE Transitions[first].roles

\* <<from, to>> |-> who may move a record so.
Machine ==
  [t \in {t \in (States \cup {NoState}) \X States : Matching(t[1], t[2]) # {}}
     |-> Authorises(t[1], t[2])]

Transition(r) == <<old[r].state, req[r].state>>

ModifiedKeys(r) ==
  req[r].cols
    \cup (IF req[r].state = NoState THEN {} ELSE {"status"})
    \cup (IF Rec(r) \in Versioned THEN {"version"} ELSE {})

\* Reached after the state machine check, so a status that moves is authorised.
AllowedKeys(r) == ExceptColumns \cup (IF Moves(r) THEN {"status"} ELSE {})

\* Mutant: an authorised transition unlocks every column.
AnyMoveUnlocks(r) == old[r].state \in Locked /\ ~Moves(r)

OutsideLock(r) ==
  old[r].state \in Locked /\ (ModifiedKeys(r) = {} \/ ~(ModifiedKeys(r) \subseteq AllowedKeys(r)))

\* The checks in the order of the code; the first that fails answers.
Verdict(r) ==
  IF VersionMismatch(r) THEN "conflict"
  ELSE IF Moves(r) /\ Transition(r) \notin DOMAIN Machine THEN "illegal"
  ELSE IF Moves(r) /\ req[r].role \notin Machine[Transition(r)] THEN "forbidden"
  ELSE IF OutsideLock(r) THEN "locked"
  ELSE "pass"

\* The WHERE clause of the UPDATE: primary key, deleted_at IS NULL, and the
\* version read before when there was one.
VersionGuard(r) == Rec(r) \in Versioned /\ old[r].ver # 0

WhereMatches(r) ==
  LET x == row[Rec(r)] IN x.live = "live" /\ (VersionGuard(r) => x.ver = old[r].ver)

----------------------------------------------------------------------------
(* Transactions *)

Init ==
  /\ row \in Databases
  /\ lock = [k \in Records |-> Nobody]
  /\ pc = [r \in Requests |-> "new"]
  /\ req \in [Requests -> Inputs]
  /\ old = [r \in Requests |-> NoRow]
  /\ new = [r \in Requests |-> NoRow]
  /\ outbox = <<>>

\* begin_tx
BeginTx(r) ==
  /\ pc[r] = "new"
  /\ pc' = [pc EXCEPT ![r] = "begun"]
  /\ UNCHANGED <<row, lock, req, old, new, outbox>>

\* Mutant: the current row is read without FOR UPDATE.
PlainRead(r) ==
  /\ req[r].op = "PUT" /\ pc[r] = "begun"
  /\ old' = [old EXCEPT ![r] = IF Rec(r) \in Composite THEN NoRow ELSE row[Rec(r)]]
  /\ pc' = [pc EXCEPT ![r] = "read"]
  /\ UNCHANGED <<row, lock, req, new, outbox>>

\* SELECT * ... WHERE <first key column> = <whole id> FOR UPDATE: finds nothing,
\* and locks nothing, when the key has several columns or the row is missing.
ReadForUpdate(r) ==
  LET k == Rec(r)
      found == k \notin Composite /\ row[k].live # "none"
  IN /\ req[r].op = "PUT" /\ pc[r] = "begun"
     /\ found => CanLock(r, k)
     /\ old' = [old EXCEPT ![r] = IF found THEN row[k] ELSE NoRow]
     /\ lock' = IF found THEN [lock EXCEPT ![k] = r] ELSE lock
     /\ pc' = [pc EXCEPT ![r] = "read"]
     /\ UNCHANGED <<row, req, new, outbox>>

\* DELETE reads the row without a lock, and goes on with an empty old_record
\* when the SELECT fails.
ReadForDelete(r) ==
  LET k == Rec(r) IN
  /\ req[r].op = "DELETE" /\ pc[r] = "begun"
  /\ \E x \in {row[k]} \cup (IF r \in FlakyReads THEN {NoRow} ELSE {}) :
       old' = [old EXCEPT ![r] = IF k \in Composite THEN NoRow ELSE x]
  /\ pc' = [pc EXCEPT ![r] = "read"]
  /\ UNCHANGED <<row, lock, req, new, outbox>>

\* Mutant: a rolled back transaction leaves its row behind.
KeepPartial(r, outcome) ==
  /\ row' = IF lock[Rec(r)] = r /\ pc[r] = "written" THEN [row EXCEPT ![Rec(r)] = new[r]] ELSE row
  /\ lock' = [k \in Records |-> IF lock[k] = r THEN Nobody ELSE lock[k]]
  /\ pc' = [pc EXCEPT ![r] = outcome]
  /\ UNCHANGED <<req, old, new, outbox>>

\* tx.rollback: locks released, nothing kept.
RolledBack(r, outcome) ==
  /\ lock' = [k \in Records |-> IF lock[k] = r THEN Nobody ELSE lock[k]]
  /\ pc' = [pc EXCEPT ![r] = outcome]
  /\ UNCHANGED <<row, req, old, new, outbox>>

\* A PUT whose read fails is rolled back at once.
ReadError(r) ==
  /\ req[r].op = "PUT" /\ pc[r] = "begun" /\ r \in FlakyReads
  /\ RolledBack(r, "failed")

\* A guard of perform_update fails.
Reject(r) ==
  /\ req[r].op = "PUT" /\ pc[r] = "read"
  /\ Verdict(r) # "pass"
  /\ RolledBack(r, Verdict(r))

\* The row r wrote is private to r, and locked, until r ends.
Wrote(r, x) ==
  /\ new' = [new EXCEPT ![r] = x]
  /\ lock' = [lock EXCEPT ![Rec(r)] = r]
  /\ pc' = [pc EXCEPT ![r] = "written"]
  /\ UNCHANGED <<row, req, old, outbox>>

Update(r) ==
  /\ req[r].op = "PUT" /\ pc[r] = "read"
  /\ Verdict(r) = "pass"
  /\ CanLock(r, Rec(r)) /\ WhereMatches(r)
  /\ Wrote(r, Patched(r, row[Rec(r)]))

\* UPDATE ... -> 0 rows.
UpdateMisses(r) ==
  /\ req[r].op = "PUT" /\ pc[r] = "read"
  /\ Verdict(r) = "pass"
  /\ row[Rec(r)].live = "none" \/ CanLock(r, Rec(r))
  /\ ~WhereMatches(r)
  /\ RolledBack(r, IF VersionGuard(r) THEN "conflict" ELSE "notfound")

RejectDelete(r) ==
  /\ req[r].op = "DELETE" /\ pc[r] = "read"
  /\ old[r].state \in Locked
  /\ RolledBack(r, "locked")

\* The DELETE, or the soft UPDATE of deleted_at, whose WHERE is the primary key
\* alone; 0 rows is a success too.
Delete(r) ==
  /\ req[r].op = "DELETE" /\ pc[r] = "read"
  /\ old[r].state \notin Locked
  /\ \/ /\ row[Rec(r)].live # "none" /\ CanLock(r, Rec(r))
        /\ Wrote(r, Removed(r, row[Rec(r)]))
     \/ /\ row[Rec(r)].live = "none"
        /\ pc' = [pc EXCEPT ![r] = "written"]
        /\ UNCHANGED <<row, lock, req, old, new, outbox>>

Insert(r) ==
  /\ req[r].op = "POST" /\ pc[r] = "begun"
  /\ CanLock(r, Rec(r)) /\ row[Rec(r)].live = "none"
  /\ Wrote(r, Inserted(r))

\* The unique index refuses the key.
InsertDuplicate(r) ==
  /\ req[r].op = "POST" /\ pc[r] = "begun"
  /\ CanLock(r, Rec(r)) /\ row[Rec(r)].live # "none"
  /\ RolledBack(r, "conflict")

\* What enqueue_in_tx records: old_record with the patch applied, or the columns
\* the POST supplied, not the row as stored.
EventOf(r) ==
  [rec |-> Rec(r), by |-> r, op |-> req[r].op, old |-> old[r],
   new |-> CASE req[r].op = "PUT" -> Patched(r, old[r])
             [] req[r].op = "POST" ->
                  [new[r] EXCEPT !.state = req[r].state,
                                 !.ver = IF Rec(r) \in Versioned THEN req[r].expect ELSE 0]
             [] req[r].op = "DELETE" -> NoRow]

\* The transaction commits, with the details, trigger effects and webhook row
\* it wrote; the answer may be lost (client-side timeout around COMMIT).
Commit(r) ==
  /\ pc[r] = "written"
  /\ row' = IF lock[Rec(r)] = r THEN [row EXCEPT ![Rec(r)] = new[r]] ELSE row
  /\ outbox' = Append(outbox, EventOf(r))
  /\ lock' = [k \in Records |-> IF lock[k] = r THEN Nobody ELSE lock[k]]
  /\ \E outcome \in Applied : pc' = [pc EXCEPT ![r] = outcome]
  /\ UNCHANGED <<req, old, new>>

\* A later check, statement, trigger action or the commit itself fails.
Fail(r) ==
  /\ pc[r] \in InFlight
  /\ RolledBack(r, "failed")

Step(r) ==
  \/ BeginTx(r)
  \/ ReadForUpdate(r)
  \/ ReadForDelete(r)
  \/ ReadError(r)
  \/ Reject(r)
  \/ Update(r)
  \/ UpdateMisses(r)
  \/ RejectDelete(r)
  \/ Delete(r)
  \/ Insert(r)
  \/ InsertDuplicate(r)
  \/ Commit(r)
  \/ Fail(r)

Finished == \A r \in Requests : pc[r] \notin InFlight \cup {"new"}

Next ==
  \/ \E r \in Requests : Step(r)
  \/ Finished /\ UNCHANGED vars

Spec == Init /\ [][Next]_vars

----------------------------------------------------------------------------
(* Properties *)

TypeOK ==
  /\ row \in [Records -> Row]
  /\ lock \in [Records -> Requests \cup {Nobody}]
  /\ pc \in [Requests -> {"new"} \cup InFlight \cup Applied \cup Refusals]
  /\ req \in [Requests -> Inputs]
  /\ old \in [Requests -> Row]
  /\ new \in [Requests -> Row]
  /\ outbox \in Seq(Event)

\* The record a PUT found is, until the PUT ends, the record as committed: what
\* the state machine, locked_when and version checks saw is what the UPDATE hits
\* and what the triggers receive (the FOR UPDATE of perform_update).
ReadIsCurrent ==
  \A r \in Requests :
    (req[r].op = "PUT" /\ pc[r] \in {"read", "written"} /\ old[r].live # "none")
      => old[r] = row[Rec(r)]

\* Records of single-column key that exist, or never will: no POST makes them.
Settled == {k \in Records \ Composite : \A i \in Inputs : i.op = "POST" => i.rec # k}

\* A record marked absent holds nothing.
EmptyRows ==
  /\ \A k \in Records : row[k].live = "none" => row[k] = NoRow
  /\ \A r \in Requests : old[r].live = "none" => old[r] = NoRow
  /\ \A r \in Requests : new[r].live = "none" => new[r] = NoRow

\* Only a transaction that has read or written a record holds its lock.
LockOwners ==
  \A r \in Requests, k \in Records :
    lock[k] = r => Rec(r) = k /\ pc[r] \in {"read", "written"}

\* A PUT that found its record holds the lock and an up-to-date copy; one that
\* found nothing of a settled record is right as long as it lives.
ReadsHeld ==
  \A r \in Requests :
    (req[r].op = "PUT" /\ pc[r] \in {"read", "written"}) =>
      /\ old[r].live # "none" => lock[Rec(r)] = r /\ old[r] = row[Rec(r)]
      /\ (old[r].live = "none" /\ Rec(r) \in Settled) => row[Rec(r)].live = "none"

\* What a transaction that wrote knows of the row it is about to replace.
WritesHeld ==
  \A r \in Requests :
    /\ (req[r].op = "PUT" /\ pc[r] = "written") =>
         /\ Verdict(r) = "pass" /\ lock[Rec(r)] = r
         /\ row[Rec(r)].live = "live" /\ new[r] = Patched(r, row[Rec(r)])
    /\ req[r].op = "DELETE" =>
         new[r].live # "live" /\ (lock[Rec(r)] = r => row[Rec(r)].live # "none")
    /\ (req[r].op = "POST" /\ pc[r] = "written") =>
         lock[Rec(r)] = r /\ row[Rec(r)].live = "none"

\* The strengthening of ReadIsCurrent that the proofs use.
Inductive == EmptyRows /\ LockOwners /\ ReadsHeld /\ WritesHeld

\* A committed status change of a live record is a declared transition, made by
\* a request whose role the first that matches admits, whatever runs concurrently.
\* Of a record that is not settled, it may be one declared for a missing status:
\* with a composite key the row is not found, and nothing is locked.
LegalTransitions ==
  [][\A k \in Records :
       (row[k].live = "live" /\ row'[k].live = "live" /\ row'[k].state # row[k].state) =>
         \E r \in Requests, from \in {row[k].state} \cup (IF k \in Settled THEN {} ELSE {NoState}) :
           /\ pc[r] = "written" /\ pc'[r] \in Applied /\ Rec(r) = k
           /\ <<from, row'[k].state>> \in DOMAIN Machine
           /\ req[r].role \in Machine[<<from, row'[k].state>>]]_vars

\* While a settled record is in a locked status, no commit changes a column
\* outside except_columns, however updates and transitions interleave.
LockedColumnsKept ==
  [][\A k \in Settled :
       (row[k].live = "live" /\ row[k].state \in Locked /\ row'[k].live = "live") =>
         \A c \in Columns \ ExceptColumns : row'[k].by[c] = row[k].by[c]]_vars

\* Of the PUTs that assert the same version of a settled record (If-Match or
\* `version` in the body), at most one is applied, where no version is NULL.
NoLostUpdate ==
  \A q, r \in Requests :
    (/\ pc[q] \in Applied /\ pc[r] \in Applied
     /\ req[q].op = "PUT" /\ req[r].op = "PUT"
     /\ Rec(q) = Rec(r) /\ Rec(r) \in Settled \cap Versioned
     /\ req[q].expect = req[r].expect /\ req[r].expect # 0) => q = r

\* The webhook events of a settled record form a chain: the previous state an
\* on_update event reports is the one the preceding event announced.
EventChain ==
  \A i, j \in 1..Len(outbox) :
    (/\ i < j /\ outbox[i].rec = outbox[j].rec /\ outbox[j].rec \in Settled
     /\ outbox[j].op = "PUT"
     /\ \A m \in (i + 1)..(j - 1) : outbox[m].rec # outbox[j].rec)
      => outbox[j].old = outbox[i].new

\* A request has exactly one webhook row when its write took effect, and none,
\* nor any trace in the rows, when it was refused or rolled back.
EventIffApplied ==
  \A r \in Requests :
    LET events == {i \in 1..Len(outbox) : outbox[i].by = r}
    IN /\ pc[r] \in Applied <=> events # {}
       /\ \A i, j \in events : i = j
       /\ pc[r] \notin Applied =>
            \A k \in Records : row[k].items # r /\ \A c \in Columns : row[k].by[c] # r

\* README 11.1: "Deleting a locked record is strictly forbidden."
DeleteRespectsLock ==
  [][\A k \in Records :
       (row[k].live = "live" /\ row[k].state \in Locked) => row'[k].live = "live"]_vars

=============================================================================
