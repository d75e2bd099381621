------------------------------- MODULE Triggers -------------------------------
(***************************************************************************)
(* Action triggers (trigger_engine.rs) inside the transactions that fire    *)
(* them: PUT and DELETE of documents whose status drives stock, invoices    *)
(* and the ledger.  Rows are locked from the statement that writes them, or *)
(* reads them FOR UPDATE, to the end of the transaction; plain reads see    *)
(* committed data and the transaction's own.  Templates and formulas are    *)
(* the numbers they amount to.  The detail rows of a document are one of     *)
(* finitely many versions; only PUTs and DELETEs of the document write them.  *)
(***************************************************************************)
EXTENDS Integers, Sequences

CONSTANTS
  MaxDoc,     \* documents are 1..MaxDoc
  Products,
  Statuses,   \* values of the status column
  Asks,       \* what the requests may ask together: functions to [op, doc, status, lines]
  Reqs, Nobody,
  Lines, Lines0, \* version -> detail rows of [key, product, qty]; the one each document has at first
  OnDelete,   \* on_delete_action of their foreign key, which a configuration picks
  Plans,      \* what each transition fires over each version: TriggerPlans
  Total,      \* doc -> its total_net
  Cost,       \* products of the catalog -> cost_price
  Stock0, MinQty, \* initial qty of the lots, validate.min
  MaxFailures \* bound on failed statements

VARIABLES
  fkAction,   \* the on_delete_action of the configuration
  status,     \* committed status of each document, Gone once it is deleted
  lines,      \* committed version of its detail rows
  stock, invoiced, posted, \* committed lots, invoice and ledger amounts
  lock,       \* row -> the transaction that holds its lock
  ask, at,    \* what each request asks, and its progress
  old, own,   \* status in old_record, version of the detail rows its transaction finds
  next,       \* place of the step to execute in the plan of the request
  found, acc, \* runtime: last row looked up, accumulated total
  qty,        \* what an update read
  mine,       \* uncommitted rows: lots, invoice and ledger amounts
  moves,      \* each document's committed shipments, and the lots it has out by them
  stale,      \* documents a DELETE removed in another status than it read
  detached,   \* shipped documents whose DELETE left its triggers no detail rows
  failed

vars == <<fkAction, status, lines, stock, invoiced, posted, lock, ask, at, old, own, next, found, acc, qty, mine, moves,
          stale, detached, failed>>
database == <<fkAction, status, lines, stock, invoiced, posted>>
request == <<old, own>>
runtime == <<found, acc, qty>>
ghosts == <<moves, stale, detached, failed>>

Docs == 1..MaxDoc

Gone == "gone"
NoLines == "none"
Keep == "keep" \* a PUT whose body names no detail rows
NothingYet == [stock |-> <<>>, invoiced |-> 0, posted |-> 0]

\* The total of the first n of f.
Sum(f, n) == LET total[i \in 0..n] == IF i = 0 THEN 0 ELSE total[i - 1] + f[i] IN total[n]

Init ==
  /\ fkAction \in OnDelete
  /\ status \in [Docs -> Statuses] /\ lines = Lines0
  /\ stock = Stock0
  /\ invoiced = [d \in Docs |-> 0] /\ posted = [d \in Docs |-> 0]
  /\ lock = [x \in Docs \cup Products |-> Nobody]
  /\ ask \in Asks
  /\ at = [r \in Reqs |-> "new"]
  /\ old = [r \in Reqs |-> Gone] /\ own = [r \in Reqs |-> NoLines]
  /\ next = [r \in Reqs |-> 1]
  /\ found = [r \in Reqs |-> 0] /\ acc = [r \in Reqs |-> 0] /\ qty = [r \in Reqs |-> 0]
  /\ mine = [r \in Reqs |-> NothingYet]
  /\ moves = [d \in Docs |-> [shipments |-> 0, net |-> [p \in Products |-> 0]]]
  /\ stale = {} /\ detached = {} /\ failed = 0

----------------------------------------------------------------------------
(* The write around them *)

NewStatus(r) == IF ask[r].op = "delete" THEN Gone ELSE ask[r].status

\* Mutant: the conditions see the record as it was.
PlanOfOld(r) == Plans[own[r]][old[r]][old[r]]

Plan(r) == Plans[own[r]][old[r]][NewStatus(r)]

Free(r, row) == lock[row] \in {Nobody, r}

\* UPDATE of the header: it was read FOR UPDATE, or does not exist (404).
Write(r) ==
  LET d == ask[r].doc IN
  /\ at[r] = "new" /\ ask[r].op = "put" /\ Free(r, d)
  /\ IF status[d] = Gone
       THEN at' = [at EXCEPT ![r] = "missing"] /\ UNCHANGED <<lock, old>>
       ELSE /\ at' = [at EXCEPT ![r] = "lines"]
            /\ lock' = [lock EXCEPT ![d] = r]
            /\ old' = [old EXCEPT ![r] = status[d]]
  /\ UNCHANGED <<database, ask, own, next, runtime, mine, ghosts>>

\* A DELETE reads the record without a lock.
ReadOld(r) ==
  /\ at[r] = "new" /\ ask[r].op = "delete"
  /\ old' = [old EXCEPT ![r] = status[ask[r].doc]]
  /\ at' = [at EXCEPT ![r] = "delete"]
  /\ UNCHANGED <<database, lock, ask, own, next, runtime, mine, ghosts>>

\* Nobody counts the rows its statement removed.
Delete(r) ==
  LET d == ask[r].doc IN
  /\ at[r] = "delete" /\ Free(r, d)
  /\ lock' = [lock EXCEPT ![d] = r]
  /\ at' = [at EXCEPT ![r] = "lines"]
  /\ stale' = IF old[r] = status[d] THEN stale ELSE stale \cup {d}
  /\ UNCHANGED <<database, ask, request, next, runtime, mine, moves, detached, failed>>

Unlocked(r) == [x \in DOMAIN lock |-> IF lock[x] = r THEN Nobody ELSE lock[x]]

\* An error ends the transaction in a rollback.
RollBack(r) ==
  /\ at' = [at EXCEPT ![r] = "failed"]
  /\ lock' = Unlocked(r)
  /\ next' = [next EXCEPT ![r] = 1]
  /\ mine' = [mine EXCEPT ![r] = NothingYet]
  /\ UNCHANGED <<database, ask, request, runtime, moves, stale, detached>>

\* A PUT deletes the detail rows and inserts those of its body, if it has any.
SyncLines(r) ==
  LET d == ask[r].doc IN
  /\ at[r] = "lines" /\ ask[r].op = "put"
  /\ own' = [own EXCEPT ![r] = IF ask[r].lines = Keep THEN lines[d] ELSE ask[r].lines]
  /\ at' = [at EXCEPT ![r] = "act"]
  /\ UNCHANGED <<database, lock, ask, old, next, runtime, mine, ghosts>>

\* Detail rows that are deleted or whose reference is set to NULL are not found
\* afterwards; those marked as deleted, or left, are.
Removed(action) == action \in {"cascade hard", "set null"}

\* process_foreign_keys_delete_update_txstore, before the on_delete triggers.
ForeignKeys(r) ==
  LET d == ask[r].doc IN
  /\ at[r] = "lines" /\ ask[r].op = "delete"
  /\ IF fkAction = "restrict" /\ Lines[lines[d]] # <<>>
       THEN RollBack(r) /\ UNCHANGED failed
       ELSE /\ own' = [own EXCEPT ![r] = IF Removed(fkAction) THEN NoLines ELSE lines[d]]
            /\ at' = [at EXCEPT ![r] = "act"]
            /\ UNCHANGED <<database, lock, ask, old, next, runtime, mine, ghosts>>

----------------------------------------------------------------------------
(* execute_action *)

Ended(r) == next[r] > Len(Plan(r))
Act(r) == Plan(r)[next[r]].act
Item(r) == Plan(r)[next[r]].item
At(r, type) == at[r] = "act" /\ ~Ended(r) /\ Act(r).type = type

Advance(r) == next' = [next EXCEPT ![r] = @ + 1]

\* TriggerRuntime::default()
Start(r) ==
  /\ At(r, "start") /\ Advance(r)
  /\ found' = [found EXCEPT ![r] = 0] /\ acc' = [acc EXCEPT ![r] = 0]
  /\ UNCHANGED <<database, lock, ask, at, request, qty, mine, ghosts>>

\* The SELECT of the detail rows.
Iterate(r) ==
  /\ At(r, "iterate_detail") /\ Advance(r)
  /\ UNCHANGED <<database, lock, ask, at, request, runtime, mine, ghosts>>

\* An optional lookup without a row leaves the alias as the last item set it.
Lookup(r) ==
  /\ At(r, "lookup")
  /\ IF Item(r).product \in DOMAIN Cost
       THEN /\ found' = [found EXCEPT ![r] = Cost[Item(r).product]]
            /\ Advance(r) /\ UNCHANGED <<database, lock, ask, at, request, acc, qty, mine, ghosts>>
       ELSE IF Act(r).optional
              THEN Advance(r) /\ UNCHANGED <<database, lock, ask, at, request, runtime, mine, ghosts>>
              ELSE RollBack(r) /\ UNCHANGED failed

Accumulate(r) ==
  /\ At(r, "accumulate") /\ Advance(r)
  /\ acc' = [acc EXCEPT ![r] = @ + Item(r).qty * found[r]]
  /\ UNCHANGED <<database, lock, ask, at, request, found, qty, mine, ghosts>>

OwnStock(r, p) == IF p \in DOMAIN mine[r].stock THEN mine[r].stock[p] ELSE stock[p]

\* SELECT ... FOR UPDATE, when the action is atomic.
ReadRow(r) ==
  LET p == Item(r).product IN
  /\ At(r, "update") /\ Free(r, p)
  /\ lock' = [lock EXCEPT ![p] = r]
  /\ qty' = [qty EXCEPT ![r] = OwnStock(r, p)]
  /\ at' = [at EXCEPT ![r] = "update"]
  /\ UNCHANGED <<database, ask, request, next, found, acc, mine, ghosts>>

Changed(r) == qty[r] + Act(r).sign * Item(r).qty

TooLow(r) == Changed(r) < MinQty

\* Mutant: the statement runs on a connection of the pool.
UpdateRowOnPool(r) ==
  LET p == Item(r).product IN
  /\ at[r] = "update" /\ Free(r, p)
  /\ IF TooLow(r)
       THEN RollBack(r) /\ UNCHANGED failed
       ELSE /\ stock' = [stock EXCEPT ![p] = Changed(r)]
            /\ at' = [at EXCEPT ![r] = "act"] /\ Advance(r)
            /\ UNCHANGED <<fkAction, status, lines, invoiced, posted, lock, ask, request, runtime, mine, ghosts>>

UpdateRow(r) ==
  LET p == Item(r).product IN
  /\ at[r] = "update" /\ Free(r, p)
  /\ IF TooLow(r)
       THEN RollBack(r) /\ UNCHANGED failed
       ELSE /\ lock' = [lock EXCEPT ![p] = r]
            /\ mine' = [mine EXCEPT ![r].stock = [x \in DOMAIN @ \cup {p} |-> IF x = p THEN Changed(r) ELSE @[x]]]
            /\ at' = [at EXCEPT ![r] = "act"] /\ Advance(r)
            /\ UNCHANGED <<database, ask, request, runtime, ghosts>>

Insert(r) ==
  /\ At(r, "insert") /\ Advance(r)
  /\ mine' = [mine EXCEPT ![r].invoiced = acc[r]]
  /\ UNCHANGED <<database, lock, ask, at, request, runtime, ghosts>>

\* assert_balanced: the debits (accumulated) must equal the credits (total_net).
InsertBatch(r) ==
  /\ At(r, "insert_batch")
  /\ IF acc[r] # Total[ask[r].doc]
       THEN RollBack(r) /\ UNCHANGED failed
       ELSE /\ mine' = [mine EXCEPT ![r].posted = Total[ask[r].doc]] /\ Advance(r)
            /\ UNCHANGED <<database, lock, ask, at, request, runtime, ghosts>>

\* A statement fails, or the database ends a wait: a deadlock or a time limit.
StatementFails(r) ==
  /\ at[r] \in {"act", "update", "delete", "lines"}
  /\ \/ failed < MaxFailures /\ failed' = failed + 1
     \/ /\ \/ At(r, "update") /\ ~Free(r, Item(r).product)
           \/ at[r] = "delete" /\ ~Free(r, ask[r].doc)
        /\ UNCHANGED failed
  /\ RollBack(r)

Ships(before, after) == IF before = "draft" /\ after = "shipped" THEN 1 ELSE 0
Returns(before, after) == IF before = "shipped" /\ after \in {"returned", Gone} THEN 1 ELSE 0

\* What the detail rows of a version come to.
QtyOf(version, p) ==
  LET rows == Lines[version] IN
  Sum([i \in DOMAIN rows |-> IF rows[i].product = p THEN rows[i].qty ELSE 0], Len(rows))

\* The lots a committed transition means are those of the rows of the document:
\* as the PUT leaves them, as they were when a DELETE came.
Meant(r) == IF ask[r].op = "delete" THEN lines[ask[r].doc] ELSE own[r]
Moved(m, before, after, version) ==
  [shipments |-> m.shipments + Ships(before, after),
   net |-> [p \in Products |-> m.net[p] + (Ships(before, after) - Returns(before, after)) * QtyOf(version, p)]]

Commit(r) ==
  LET d == ask[r].doc IN
  /\ at[r] = "act" /\ Ended(r)
  /\ at' = [at EXCEPT ![r] = "committed"]
  /\ status' = [status EXCEPT ![d] = NewStatus(r)]
  /\ lines' = [lines EXCEPT ![d] = own[r]]
  /\ stock' = [p \in Products |-> OwnStock(r, p)]
  /\ invoiced' = [invoiced EXCEPT ![d] = @ + mine[r].invoiced]
  /\ posted' = [posted EXCEPT ![d] = @ + mine[r].posted]
  /\ moves' = [moves EXCEPT ![d] = Moved(@, status[d], NewStatus(r), Meant(r))]
  /\ detached' = IF Returns(status[d], NewStatus(r)) = 1 /\ own[r] # Meant(r) THEN detached \cup {d} ELSE detached
  /\ lock' = Unlocked(r)
  /\ mine' = [mine EXCEPT ![r] = NothingYet]
  /\ UNCHANGED <<fkAction, ask, request, next, runtime, stale, failed>>

Next ==
  \E r \in Reqs :
    \/ Write(r) \/ ReadOld(r) \/ Delete(r) \/ SyncLines(r) \/ ForeignKeys(r)
    \/ Start(r) \/ Iterate(r) \/ Lookup(r) \/ Accumulate(r)
    \/ ReadRow(r) \/ UpdateRow(r) \/ Insert(r) \/ InsertBatch(r)
    \/ StatementFails(r) \/ Commit(r)

----------------------------------------------------------------------------
(* The configuration *)

\* What a plan does to a lot, step by step.
Effects(plan, p) ==
  [i \in DOMAIN plan |->
     IF plan[i].act.type = "update" /\ plan[i].item.product = p THEN plan[i].act.sign * plan[i].item.qty ELSE 0]

Bookings(plan) == {i \in DOMAIN plan : plan[i].act.type \in {"insert", "insert_batch"}}

\* Executed alone, the triggers of a transition take the lots to where it should
\* take them by the detail rows they find, and book one invoice, with its posting right after, of a shipment.
Fits(version, before, after, plan) ==
  /\ Len(plan) \in Nat /\ DOMAIN plan = 1..Len(plan)
  /\ \A i \in DOMAIN plan :
       /\ plan[i].act.type \in {"update", "accumulate"} => plan[i].item.qty \in Int
       /\ plan[i].act.type = "update" => plan[i].item.product \in Products /\ plan[i].act.sign \in {1, -1}
  /\ \A p \in Products :
       Sum(Effects(plan, p), Len(plan)) = (Returns(before, after) - Ships(before, after)) * QtyOf(version, p)
  /\ IF Ships(before, after) = 0 THEN Bookings(plan) = {}
     ELSE \E i \in DOMAIN plan :
            /\ Bookings(plan) = {i, i + 1}
            /\ plan[i].act.type = "insert" /\ plan[i + 1].act.type = "insert_batch"

TriggersAssumption ==
  /\ MaxDoc \in Nat /\ MaxFailures \in Nat /\ MinQty \in Int
  /\ Gone \notin Statuses /\ Nobody \notin Reqs
  /\ NoLines \in DOMAIN Lines /\ Lines[NoLines] = <<>> /\ Keep \notin DOMAIN Lines /\ Lines0 \in [Docs -> DOMAIN Lines]
  /\ Asks \subseteq [Reqs -> [op : {"put"}, doc : Docs, status : Statuses, lines : DOMAIN Lines \cup {Keep}]
                               \cup [op : {"delete"}, doc : Docs, status : {Gone}, lines : {Keep}]]
  /\ Total \in [Docs -> Int] /\ Stock0 \in [Products -> Int] /\ Cost \in [DOMAIN Cost -> Int]
  /\ \A v \in DOMAIN Lines, p \in Products : QtyOf(v, p) \in Int
  /\ \A v \in DOMAIN Lines, before \in Statuses \cup {Gone}, after \in Statuses \cup {Gone} :
       Fits(v, before, after, Plans[v][before][after])

----------------------------------------------------------------------------
(* Properties *)

Shipped(p) == Sum([d \in Docs |-> moves[d].net[p]], MaxDoc)

\* README 10.2: a trigger "fires only when `status` actually transitions", and
\* all or nothing of it: the lots are what the committed transitions of the
\* documents make them, whoever raced, failed or was rolled back, unless a
\* DELETE fired on a status it had not locked, or after its foreign keys had
\* taken the detail rows away.
StockMatchesDocuments ==
  stale = {} /\ detached = {} => \A p \in Products : stock[p] = Stock0[p] - Shipped(p)

\* Every committed shipment, and nothing else, is invoiced and posted once with
\* the total of its document.
BooksBalance ==
  \A d \in Docs : invoiced[d] = posted[d] /\ posted[d] = moves[d].shipments * Total[d]

===============================================================================
