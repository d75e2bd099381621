---------------------------- MODULE RecordTxProofs ----------------------------
(***************************************************************************)
(* Proofs about RecordTx for any set of requests, records, columns, states *)
(* and any transition matrix: types, settled records, cancelled requests,  *)
(* and, looking back at what was committed, which versions were asserted,  *)
(* who left a trace, and what the webhook rows say.                        *)
(***************************************************************************)
EXTENDS RecordTx, TLAPS

LEMMA NoRowType == NoRow \in Row
  BY DEF NoRow, Row

\* What an UPDATE, an INSERT and a DELETE leave is a row.
LEMMA PatchedType ==
  ASSUME TypeOK, NEW r \in Requests, NEW x \in Row
  PROVE  /\ Patched(r, x) \in Row
         /\ Patched(r, x).live = x.live
  <1>1. req[r] \in InputType /\ old[r].ver \in Nat
    BY InputsAssumption DEF TypeOK, Row
  <1>2. QED
    BY <1>1 DEF Patched, Row, InputType

LEMMA InsertedType ==
  ASSUME TypeOK, NEW r \in Requests
  PROVE  Inserted(r) \in Row
  <1>1. req[r] \in InputType
    BY InputsAssumption DEF TypeOK
  <1>2. QED
    BY <1>1, StatesAssumption DEF Inserted, Row, InputType

LEMMA RemovedType ==
  ASSUME TypeOK, NEW r \in Requests, NEW x \in Row
  PROVE  /\ Removed(r, x) \in Row
         /\ Removed(r, x).live # "live"
         /\ Removed(r, x).live = "none" => Removed(r, x) = NoRow
  BY NoRowType DEF Removed, Row, NoRow

LEMMA RecType ==
  ASSUME TypeOK, NEW r \in Requests
  PROVE  Rec(r) \in Records /\ req[r].op \in {"POST", "PUT", "DELETE"}
  BY InputsAssumption DEF TypeOK, Rec, InputType

LEMMA EventType ==
  ASSUME TypeOK, NEW r \in Requests
  PROVE  EventOf(r) \in Event
  <1>1. old[r] \in Row /\ new[r] \in Row
    BY DEF TypeOK
  <1>2. Patched(r, old[r]) \in Row
    BY <1>1, PatchedType
  <1>3. CASE req[r].op = "POST"
    <2>1. req[r] \in InputType
      BY InputsAssumption DEF TypeOK
    <2>2. [new[r] EXCEPT !.state = req[r].state,
                         !.ver = IF Rec(r) \in Versioned THEN req[r].expect ELSE 0] \in Row
      BY <1>1, <2>1 DEF Row, InputType
    <2>3. QED
      BY <1>1, <1>3, <2>2, RecType DEF EventOf, Event
  <1>4. CASE req[r].op # "POST"
    BY <1>1, <1>2, <1>4, RecType, NoRowType DEF EventOf, Event
  <1>5. QED
    BY <1>3, <1>4

\* A refusal's outcome is one the type allows.
LEMMA VerdictType ==
  ASSUME NEW r \in Requests
  PROVE  Verdict(r) \in Verdicts \cup {"pass"}
  BY DEF Verdict, Verdicts

LEMMA RolledBackType ==
  ASSUME TypeOK, NEW r \in Requests, NEW outcome \in Refusals, RolledBack(r, outcome)
  PROVE  TypeOK'
  BY DEF TypeOK, RolledBack

LEMMA WroteType ==
  ASSUME TypeOK, NEW r \in Requests, NEW x \in Row, Wrote(r, x)
  PROVE  TypeOK'
  BY RecType DEF TypeOK, Wrote, InFlight

\* Type correctness.
THEOREM TypeCorrect == Spec => []TypeOK
  <1>1. Init => TypeOK
    BY NoRowType, DatabasesAssumption DEF Init, TypeOK
  <1>2. TypeOK /\ [Next]_vars => TypeOK'
    <2> SUFFICES ASSUME TypeOK, [Next]_vars PROVE TypeOK'
      OBVIOUS
    <2>1. ASSUME NEW r \in Requests, BeginTx(r) PROVE TypeOK'
      BY <2>1 DEF BeginTx, TypeOK, InFlight
    <2>2. ASSUME NEW r \in Requests, ReadForUpdate(r) PROVE TypeOK'
      BY <2>2, RecType, NoRowType DEF ReadForUpdate, TypeOK, InFlight
    <2>3. ASSUME NEW r \in Requests, ReadForDelete(r) PROVE TypeOK'
      BY <2>3, RecType, NoRowType DEF ReadForDelete, TypeOK, InFlight
    <2>4. ASSUME NEW r \in Requests, ReadError(r) PROVE TypeOK'
      BY <2>4, RolledBackType DEF ReadError, Refusals
    <2>5. ASSUME NEW r \in Requests, Reject(r) PROVE TypeOK'
      BY <2>5, RolledBackType, VerdictType DEF Reject, Refusals
    <2>6. ASSUME NEW r \in Requests, Update(r) PROVE TypeOK'
      <3>1. row[Rec(r)] \in Row
        BY RecType DEF TypeOK
      <3>2. QED
        BY <2>6, <3>1, PatchedType, WroteType DEF Update
    <2>7. ASSUME NEW r \in Requests, UpdateMisses(r) PROVE TypeOK'
      BY <2>7, RolledBackType DEF UpdateMisses, Refusals, Verdicts
    <2>8. ASSUME NEW r \in Requests, RejectDelete(r) PROVE TypeOK'
      BY <2>8, RolledBackType DEF RejectDelete, Refusals, Verdicts
    <2>9. ASSUME NEW r \in Requests, Delete(r) PROVE TypeOK'
      <3>1. row[Rec(r)] \in Row
        BY RecType DEF TypeOK
      <3>2. CASE Wrote(r, Removed(r, row[Rec(r)]))
        BY <3>1, <3>2, RemovedType, WroteType
      <3>3. CASE pc' = [pc EXCEPT ![r] = "written"] /\ UNCHANGED <<row, lock, req, old, new, outbox>>
        BY <3>3 DEF TypeOK, InFlight
      <3>4. QED
        BY <2>9, <3>2, <3>3 DEF Delete
    <2>10. ASSUME NEW r \in Requests, Insert(r) PROVE TypeOK'
      BY <2>10, InsertedType, WroteType DEF Insert
    <2>11. ASSUME NEW r \in Requests, InsertDuplicate(r) PROVE TypeOK'
      BY <2>11, RolledBackType DEF InsertDuplicate, Refusals, Verdicts
    <2>12. ASSUME NEW r \in Requests, Commit(r) PROVE TypeOK'
      <3>1. outbox' \in Seq(Event)
        BY <2>12, EventType DEF Commit, TypeOK
      <3>2. QED
        BY <2>12, <3>1, RecType DEF Commit, TypeOK
    <2>13. ASSUME NEW r \in Requests, Fail(r) PROVE TypeOK'
      BY <2>13, RolledBackType DEF Fail, Refusals
    <2>14. CASE UNCHANGED vars
      BY <2>14 DEF vars, TypeOK
    <2>15. QED
      BY <2>1, <2>2, <2>3, <2>4, <2>5, <2>6, <2>7, <2>8, <2>9, <2>10, <2>11, <2>12,
         <2>13, <2>14 DEF Next, Step
  <1>3. QED
    BY <1>1, <1>2, PTL DEF Spec

----------------------------------------------------------------------------
(* The inductive invariant *)

\* Ending a transaction without effect keeps the invariant.
LEMMA RolledBackInductive ==
  ASSUME TypeOK, Inductive, NEW r \in Requests, NEW outcome \in Refusals,
         RolledBack(r, outcome)
  PROVE  Inductive'
  <1>1. outcome \notin InFlight
    BY DEF Refusals, Verdicts, InFlight
  <1>2. \A q \in Requests : q # r => pc'[q] = pc[q]
    BY DEF RolledBack, TypeOK
  <1>3. pc'[r] = outcome
    BY DEF RolledBack, TypeOK
  <1>4. \A k \in Records : lock'[k] = IF lock[k] = r THEN Nobody ELSE lock[k]
    BY DEF RolledBack
  <1>5. \A q \in Requests : Rec(q) \in Records /\ Rec(q)' = Rec(q) /\ (Verdict(q))' = Verdict(q)
    BY RecType DEF RolledBack, Rec, Verdict, VersionMismatch, Moves, Transition, OutsideLock,
       ModifiedKeys, AllowedKeys
  <1>6. QED
    <2>1. EmptyRows'
      BY DEF Inductive, EmptyRows, RolledBack, NoRow
    <2>2. LockOwners'
      BY <1>1, <1>2, <1>3, <1>4, <1>5, NobodyAssumption DEF Inductive, LockOwners
    <2>3. ReadsHeld'
      BY <1>1, <1>2, <1>3, <1>4, <1>5 DEF Inductive, ReadsHeld, RolledBack, InFlight, Settled
    <2>4. WritesHeld'
      BY <1>1, <1>2, <1>3, <1>4, <1>5, NobodyAssumption DEF Inductive, WritesHeld, RolledBack, InFlight,
         Patched, Rec
    <2>5. QED
      BY <2>1, <2>2, <2>3, <2>4 DEF Inductive

\* The guards of a transaction read its request and its old_record only.
LEMMA VerdictFrame ==
  ASSUME TypeOK, NEW q \in Requests, UNCHANGED req, old'[q] = old[q]
  PROVE  /\ Rec(q) \in Records /\ Rec(q)' = Rec(q)
         /\ (Verdict(q))' = Verdict(q)
         /\ \A x : (Patched(q, x))' = Patched(q, x)
  BY RecType DEF Rec, Verdict, VersionMismatch, Moves, Transition, OutsideLock, ModifiedKeys,
     AllowedKeys, Patched

LEMMA BeginTxInductive ==
  ASSUME TypeOK, Inductive, NEW r \in Requests, BeginTx(r)
  PROVE  Inductive'
  <1>1. \A q \in Requests : q # r => pc'[q] = pc[q]
    BY DEF BeginTx, TypeOK
  <1>2. pc[r] = "new" /\ pc'[r] = "begun"
    BY DEF BeginTx, TypeOK
  <1>3. \A q \in Requests : /\ Rec(q)' = Rec(q) /\ (Verdict(q))' = Verdict(q)
                            /\ \A x : (Patched(q, x))' = Patched(q, x)
    BY VerdictFrame DEF BeginTx
  <1>4. UNCHANGED <<row, lock, req, old, new>>
    BY DEF BeginTx
  <1>5. EmptyRows'
    BY <1>4 DEF Inductive, EmptyRows, NoRow
  <1>6. LockOwners'
    BY <1>1, <1>2, <1>3, <1>4 DEF Inductive, LockOwners
  <1>7. ReadsHeld'
    BY <1>1, <1>2, <1>3, <1>4 DEF Inductive, ReadsHeld, Settled
  <1>8. WritesHeld'
    BY <1>1, <1>2, <1>3, <1>4 DEF Inductive, WritesHeld
  <1>9. QED
    BY <1>5, <1>6, <1>7, <1>8 DEF Inductive

LEMMA ReadForUpdateInductive ==
  ASSUME TypeOK, Inductive, NEW r \in Requests, ReadForUpdate(r)
  PROVE  Inductive'
  <1> DEFINE k == Rec(r)
             found == k \notin Composite /\ row[k].live # "none"
  <1>1. \A q \in Requests : q # r => pc'[q] = pc[q] /\ old'[q] = old[q]
    BY DEF ReadForUpdate, TypeOK
  <1>2. /\ req[r].op = "PUT" /\ pc[r] = "begun" /\ pc'[r] = "read"
        /\ old'[r] = IF found THEN row[k] ELSE NoRow
        /\ UNCHANGED <<row, req, new>>
    BY DEF ReadForUpdate, TypeOK
  <1>3. \A q \in Requests \ {r} : /\ Rec(q)' = Rec(q) /\ (Verdict(q))' = Verdict(q)
                                  /\ \A x : (Patched(q, x))' = Patched(q, x)
    BY <1>1, <1>2, VerdictFrame
  <1>4. k \in Records /\ Rec(r)' = k
    BY <1>2, RecType DEF Rec
  <1>5. /\ found => lock[k] \in {Nobody, r} /\ lock'[k] = r
        /\ \A j \in Records : (~found \/ j # k) => lock'[j] = lock[j]
    BY <1>4 DEF ReadForUpdate, CanLock, TypeOK
  <1>6. EmptyRows'
    BY <1>1, <1>2, <1>4 DEF Inductive, EmptyRows, NoRow
  <1>7. LockOwners'
    BY <1>1, <1>2, <1>3, <1>4, <1>5 DEF Inductive, LockOwners
  <1>8. ReadsHeld'
    <2>1. ASSUME NEW q \in Requests, q # r, req[q].op = "PUT", pc[q] \in {"read", "written"}
          PROVE  old[q].live # "none" => lock'[Rec(q)] = q
      BY <1>1, <1>5, <2>1, RecType, NobodyAssumption DEF Inductive, ReadsHeld
    <2>2. k \in Settled => (old'[r].live = "none" => row[k].live = "none")
      BY <1>2 DEF Settled, NoRow
    <2>3. old'[r].live # "none" => found /\ old'[r] = row[k]
      BY <1>2 DEF NoRow
    <2>4. Settled' = Settled
      BY DEF Settled
    <2>5. QED
      BY <1>1, <1>2, <1>3, <1>4, <1>5, <2>1, <2>2, <2>3, <2>4 DEF Inductive, ReadsHeld
  <1>9. WritesHeld'
    <2>1. ASSUME NEW q \in Requests, q # r, lock[Rec(q)] = q
          PROVE  lock'[Rec(q)] = q
      BY <1>5, <2>1, RecType, NobodyAssumption
    <2>2. ASSUME NEW q \in Requests, q # r, lock'[Rec(q)] = q
          PROVE  lock[Rec(q)] = q
      BY <1>5, <2>2, RecType
    <2>3. QED
      BY <1>1, <1>2, <1>3, <2>1, <2>2 DEF Inductive, WritesHeld
  <1>10. QED
    BY <1>6, <1>7, <1>8, <1>9 DEF Inductive

LEMMA ReadForDeleteInductive ==
  ASSUME TypeOK, Inductive, NEW r \in Requests, ReadForDelete(r)
  PROVE  Inductive'
  <1>1. \A q \in Requests : q # r => pc'[q] = pc[q] /\ old'[q] = old[q]
    BY DEF ReadForDelete, TypeOK
  <1>2. /\ req[r].op = "DELETE" /\ pc[r] = "begun" /\ pc'[r] = "read"
        /\ UNCHANGED <<row, lock, req, new>>
    BY DEF ReadForDelete, TypeOK
  <1>3. old'[r] \in {row[Rec(r)], NoRow}
    BY DEF ReadForDelete, TypeOK
  <1>4. \A q \in Requests \ {r} : /\ Rec(q)' = Rec(q) /\ (Verdict(q))' = Verdict(q)
                                  /\ \A x : (Patched(q, x))' = Patched(q, x)
    BY <1>1, <1>2, VerdictFrame
  <1>5. Rec(r) \in Records /\ Rec(r)' = Rec(r)
    BY <1>2, RecType DEF Rec
  <1>6. EmptyRows'
    BY <1>1, <1>2, <1>3, <1>5 DEF Inductive, EmptyRows, NoRow
  <1>7. LockOwners'
    BY <1>1, <1>2, <1>4, <1>5 DEF Inductive, LockOwners
  <1>8. ReadsHeld'
    BY <1>1, <1>2, <1>4 DEF Inductive, ReadsHeld, Settled
  <1>9. WritesHeld'
    BY <1>1, <1>2, <1>4, <1>5 DEF Inductive, WritesHeld
  <1>10. QED
    BY <1>6, <1>7, <1>8, <1>9 DEF Inductive

\* A row is written under its lock, by a transaction entitled to what it writes.
LEMMA WroteInductive ==
  ASSUME TypeOK, Inductive, NEW r \in Requests, NEW x \in Row, Wrote(r, x),
         CanLock(r, Rec(r)), pc[r] \in InFlight,
         x.live = "none" => x = NoRow,
         req[r].op = "PUT" => /\ pc[r] = "read" /\ Verdict(r) = "pass"
                              /\ row[Rec(r)].live = "live" /\ x = Patched(r, row[Rec(r)]),
         req[r].op = "DELETE" => x.live # "live" /\ row[Rec(r)].live # "none",
         req[r].op = "POST" => row[Rec(r)].live = "none"
  PROVE  Inductive'
  <1>1. /\ \A q \in Requests : q # r => pc'[q] = pc[q] /\ new'[q] = new[q]
        /\ pc'[r] = "written" /\ new'[r] = x
        /\ UNCHANGED <<row, req, old>>
    BY DEF Wrote, TypeOK
  <1>2. \A q \in Requests : /\ Rec(q) \in Records /\ Rec(q)' = Rec(q) /\ (Verdict(q))' = Verdict(q)
                            /\ \A y : (Patched(q, y))' = Patched(q, y)
    BY <1>1, VerdictFrame
  <1>3. /\ lock'[Rec(r)] = r
        /\ \A j \in Records : j # Rec(r) => lock'[j] = lock[j]
        /\ lock[Rec(r)] \in {Nobody, r}
    BY <1>2 DEF Wrote, TypeOK, CanLock
  <1>4. \A q \in Requests : lock[Rec(q)] = q => lock'[Rec(q)] = q
    BY <1>2, <1>3, NobodyAssumption
  <1>5. \A q \in Requests : q # r /\ lock'[Rec(q)] = q => lock[Rec(q)] = q
    BY <1>2, <1>3
  <1>6. EmptyRows'
    BY <1>1 DEF Inductive, EmptyRows, NoRow
  <1>7. LockOwners'
    BY <1>1, <1>2, <1>3 DEF Inductive, LockOwners
  <1>8. ReadsHeld'
    BY <1>1, <1>2, <1>4 DEF Inductive, ReadsHeld, Settled
  <1>9. WritesHeld'
    BY <1>1, <1>2, <1>3, <1>4, <1>5 DEF Inductive, WritesHeld
  <1>10. QED
    BY <1>6, <1>7, <1>8, <1>9 DEF Inductive

LEMMA UpdateInductive ==
  ASSUME TypeOK, Inductive, NEW r \in Requests, Update(r)
  PROVE  Inductive'
  <1>1. row[Rec(r)] \in Row /\ row[Rec(r)].live = "live"
    BY RecType DEF TypeOK, Update, WhereMatches
  <1>2. Patched(r, row[Rec(r)]) \in Row /\ Patched(r, row[Rec(r)]).live = "live"
    BY <1>1, PatchedType
  <1>3. QED
    BY <1>1, <1>2, WroteInductive DEF Update, InFlight

LEMMA DeleteInductive ==
  ASSUME TypeOK, Inductive, NEW r \in Requests, Delete(r)
  PROVE  Inductive'
  <1>1. CASE /\ row[Rec(r)].live # "none" /\ CanLock(r, Rec(r))
             /\ Wrote(r, Removed(r, row[Rec(r)]))
    <2>1. row[Rec(r)] \in Row
      BY RecType DEF TypeOK
    <2>2. QED
      BY <1>1, <2>1, RemovedType, WroteInductive DEF Delete, InFlight
  <1>2. CASE /\ pc' = [pc EXCEPT ![r] = "written"]
             /\ UNCHANGED <<row, lock, req, old, new, outbox>>
    <2>1. /\ \A q \in Requests : q # r => pc'[q] = pc[q]
          /\ req[r].op = "DELETE" /\ pc'[r] = "written"
      BY <1>2 DEF Delete, TypeOK
    <2>2. \A q \in Requests : /\ Rec(q)' = Rec(q) /\ (Verdict(q))' = Verdict(q)
                              /\ \A x : (Patched(q, x))' = Patched(q, x)
      BY <1>2, VerdictFrame
    <2>3. EmptyRows'
      BY <1>2 DEF Inductive, EmptyRows, NoRow
    <2>4. LockOwners'
      BY <1>2, <2>1, <2>2 DEF Inductive, LockOwners
    <2>5. ReadsHeld'
      BY <1>2, <2>1, <2>2 DEF Inductive, ReadsHeld, Settled
    <2>6. WritesHeld'
      BY <1>2, <2>1, <2>2 DEF Inductive, WritesHeld
    <2>7. QED
      BY <2>3, <2>4, <2>5, <2>6 DEF Inductive
  <1>3. QED
    BY <1>1, <1>2 DEF Delete

LEMMA InsertInductive ==
  ASSUME TypeOK, Inductive, NEW r \in Requests, Insert(r)
  PROVE  Inductive'
  <1>1. Inserted(r) \in Row /\ Inserted(r).live = "live"
    BY InsertedType DEF Inserted
  <1>2. QED
    BY <1>1, WroteInductive DEF Insert, InFlight

\* A commit publishes a row no other transaction has locked, and never brings a
\* settled record into being.
LEMMA CommitInductive ==
  ASSUME TypeOK, Inductive, NEW r \in Requests, Commit(r)
  PROVE  Inductive'
  <1> DEFINE k == Rec(r)
  <1>1. /\ \A q \in Requests : q # r => pc'[q] = pc[q]
        /\ pc[r] = "written" /\ pc'[r] \notin {"read", "written"}
        /\ UNCHANGED <<req, old, new>>
    BY DEF Commit, TypeOK, Applied
  <1>2. \A q \in Requests : /\ Rec(q) \in Records /\ Rec(q)' = Rec(q) /\ (Verdict(q))' = Verdict(q)
                            /\ \A x : (Patched(q, x))' = Patched(q, x)
    BY <1>1, VerdictFrame
  <1>3. \A j \in Records : lock'[j] = IF lock[j] = r THEN Nobody ELSE lock[j]
    BY DEF Commit
  <1>4. /\ lock[k] = r => row'[k] = new[r]
        /\ \A j \in Records : (lock[k] # r \/ j # k) => row'[j] = row[j]
    BY <1>2 DEF Commit, TypeOK
  <1>5. EmptyRows'
    BY <1>1, <1>2, <1>4 DEF Inductive, EmptyRows, NoRow
  <1>6. LockOwners'
    BY <1>1, <1>2, <1>3, NobodyAssumption DEF Inductive, LockOwners
  <1>7. \A q \in Requests : (q # r /\ lock[Rec(q)] = q) => row'[Rec(q)] = row[Rec(q)]
    BY <1>2, <1>4
  <1>8. \A q \in Requests : q # r => (lock'[Rec(q)] = q <=> lock[Rec(q)] = q)
    BY <1>2, <1>3, NobodyAssumption
  <1>9. ReadsHeld'
    <2>1. ASSUME NEW q \in Requests, Rec(q) \in Settled, row[Rec(q)].live = "none"
          PROVE  row'[Rec(q)].live = "none"
      <3>1. CASE Rec(q) = k /\ lock[k] = r
        <4>1. req[r] \in Inputs
          BY DEF TypeOK
        <4>2. req[r].op # "POST"
          BY <2>1, <3>1, <4>1 DEF Settled, Rec
        <4>3. req[r].op \in {"PUT", "DELETE"}
          BY <4>2, RecType
        <4>4. QED
          BY <1>1, <2>1, <3>1, <4>3 DEF Inductive, WritesHeld
      <3>2. CASE ~(Rec(q) = k /\ lock[k] = r)
        BY <1>2, <1>4, <2>1, <3>2
      <3>3. QED
        BY <3>1, <3>2
    <2>2. Settled' = Settled
      BY DEF Settled
    <2>3. QED
      BY <1>1, <1>2, <1>7, <1>8, <2>1, <2>2 DEF Inductive, ReadsHeld
  <1>10. WritesHeld'
    BY <1>1, <1>2, <1>3, <1>7, <1>8, NobodyAssumption DEF Inductive, WritesHeld
  <1>11. QED
    BY <1>5, <1>6, <1>9, <1>10 DEF Inductive

LEMMA StutterInductive ==
  ASSUME TypeOK, Inductive, UNCHANGED vars
  PROVE  Inductive'
  <1>1. UNCHANGED <<row, lock, pc, req, old, new>>
    BY DEF vars
  <1>2. \A q \in Requests : /\ Rec(q)' = Rec(q) /\ (Verdict(q))' = Verdict(q)
                            /\ \A x : (Patched(q, x))' = Patched(q, x)
    BY <1>1, VerdictFrame
  <1>3. QED
    BY <1>1, <1>2 DEF Inductive, EmptyRows, LockOwners, ReadsHeld, WritesHeld, Settled, NoRow

\* The lock, copy and entitlement facts hold of every reachable state.
THEOREM InductiveInvariant == Spec => [](TypeOK /\ Inductive)
  <1>1. Init => TypeOK /\ Inductive
    <2> SUFFICES ASSUME Init PROVE TypeOK /\ Inductive
      OBVIOUS
    <2>1. TypeOK
      BY NoRowType, DatabasesAssumption DEF Init, TypeOK
    <2>2. EmptyRows
      BY DatabasesAssumption DEF Init, EmptyRows
    <2>3. LockOwners /\ ReadsHeld
      BY NobodyAssumption DEF Init, LockOwners, ReadsHeld
    <2>4. WritesHeld
      BY <2>1, RecType, NobodyAssumption DEF Init, WritesHeld, NoRow
    <2>5. QED
      BY <2>1, <2>2, <2>3, <2>4 DEF Inductive
  <1>2. TypeOK /\ Inductive /\ [Next]_vars => Inductive'
    <2> SUFFICES ASSUME TypeOK, Inductive, [Next]_vars PROVE Inductive'
      OBVIOUS
    <2>1. ASSUME NEW r \in Requests, Step(r) PROVE Inductive'
      <3>1. ASSUME NEW outcome \in Refusals, RolledBack(r, outcome) PROVE Inductive'
        BY <3>1, RolledBackInductive
      <3>2. ReadError(r) \/ Fail(r) => Inductive'
        BY <3>1 DEF ReadError, Fail, Refusals
      <3>3. Reject(r) => Inductive'
        BY <3>1, VerdictType DEF Reject, Refusals
      <3>4. UpdateMisses(r) => Inductive'
        BY <3>1 DEF UpdateMisses, Refusals, Verdicts
      <3>5. RejectDelete(r) \/ InsertDuplicate(r) => Inductive'
        BY <3>1 DEF RejectDelete, InsertDuplicate, Refusals, Verdicts
      <3>6. QED
        BY <2>1, <3>2, <3>3, <3>4, <3>5, BeginTxInductive, ReadForUpdateInductive,
           ReadForDeleteInductive, UpdateInductive, DeleteInductive, InsertInductive,
           CommitInductive DEF Step
    <2>2. QED
      BY <2>1, StutterInductive DEF Next
  <1>3. QED
    BY <1>1, <1>2, TypeCorrect, PTL DEF Spec

\* What the checks of an update saw is what the UPDATE replaces.
THEOREM Currency == Spec => []ReadIsCurrent
  <1>1. Inductive => ReadIsCurrent
    BY DEF Inductive, ReadsHeld, ReadIsCurrent
  <1>2. QED
    BY <1>1, InductiveInvariant, PTL

----------------------------------------------------------------------------
(* What a commit may change *)

\* A step that leaves a live record live but different commits a PUT that passed
\* the guards, read this very row unless it found none, and patches it.
LEMMA LiveRowChange ==
  ASSUME TypeOK, Inductive, [Next]_vars, NEW k \in Records,
         row[k].live = "live", row'[k].live = "live", row'[k] # row[k]
  PROVE  \E r \in Requests :
           /\ pc[r] = "written" /\ pc'[r] \in Applied /\ Rec(r) = k
           /\ req[r].op = "PUT" /\ Verdict(r) = "pass"
           /\ row'[k] = Patched(r, row[k])
           /\ old[r] = row[k] \/ (old[r] = NoRow /\ k \notin Settled)
  <1>1. PICK r \in Requests : Commit(r)
    BY DEF Next, Step, vars, BeginTx, ReadForUpdate, ReadForDelete, ReadError, Reject, Update,
       UpdateMisses, RejectDelete, Delete, Insert, InsertDuplicate, Fail, RolledBack, Wrote
  <1>2. k = Rec(r) /\ lock[k] = r /\ row'[k] = new[r] /\ pc[r] = "written" /\ pc'[r] \in Applied
    BY <1>1, RecType DEF Commit, TypeOK
  <1>3. req[r].op = "PUT"
    BY <1>2, RecType DEF Inductive, WritesHeld
  <1>4. Verdict(r) = "pass" /\ new[r] = Patched(r, row[k])
    BY <1>2, <1>3 DEF Inductive, WritesHeld
  <1>5. old[r] = row[k] \/ (old[r] = NoRow /\ k \notin Settled)
    BY <1>2, <1>3 DEF Inductive, ReadsHeld, EmptyRows
  <1>6. QED
    BY <1>2, <1>3, <1>4, <1>5

\* Every status change that commits is declared and authorised.
THEOREM TransitionsLegal == Spec => LegalTransitions
  <1> DEFINE Froms(k) == {row[k].state} \cup (IF k \in Settled THEN {} ELSE {NoState})
             Legal(k) ==
        (row[k].live = "live" /\ row'[k].live = "live" /\ row'[k].state # row[k].state) =>
          \E r \in Requests, from \in Froms(k) :
            /\ pc[r] = "written" /\ pc'[r] \in Applied /\ Rec(r) = k
            /\ <<from, row'[k].state>> \in DOMAIN Machine
            /\ req[r].role \in Machine[<<from, row'[k].state>>]
  <1>1. TypeOK /\ Inductive /\ [Next]_vars => \A k \in Records : Legal(k)
    <2> SUFFICES ASSUME TypeOK, Inductive, [Next]_vars, NEW k \in Records,
                        row[k].live = "live", row'[k].live = "live",
                        row'[k].state # row[k].state
                 PROVE  Legal(k)
      OBVIOUS
    <2>1. PICK r \in Requests :
            /\ pc[r] = "written" /\ pc'[r] \in Applied /\ Rec(r) = k
            /\ req[r].op = "PUT" /\ Verdict(r) = "pass"
            /\ row'[k] = Patched(r, row[k])
            /\ old[r] = row[k] \/ (old[r] = NoRow /\ k \notin Settled)
      BY LiveRowChange
    <2>2. req[r].state # NoState /\ row'[k].state = req[r].state
      BY <2>1 DEF Patched
    <2>3. Moves(r)
      BY <2>1, <2>2 DEF Moves, NoRow
    <2>4. Transition(r) \in DOMAIN Machine /\ req[r].role \in Machine[Transition(r)]
      BY <2>1, <2>3 DEF Verdict
    <2>5. old[r].state \in Froms(k)
      BY <2>1 DEF NoRow
    <2>6. Transition(r) = <<old[r].state, row'[k].state>>
      BY <2>2 DEF Transition
    <2>7. QED
      BY <2>1, <2>4, <2>5, <2>6
  <1>2. TypeOK /\ Inductive /\ [Next]_vars => [\A k \in Records : Legal(k)]_vars
    BY <1>1
  <1>3. QED
    BY <1>2, InductiveInvariant, PTL DEF Spec, LegalTransitions

\* In a locked status only except_columns are ever edited.
THEOREM LockKept == Spec => LockedColumnsKept
  <1> DEFINE Kept(k) ==
        (row[k].live = "live" /\ row[k].state \in Locked /\ row'[k].live = "live") =>
          \A c \in Columns \ ExceptColumns : row'[k].by[c] = row[k].by[c]
  <1>1. TypeOK /\ Inductive /\ [Next]_vars => \A k \in Settled : Kept(k)
    <2> SUFFICES ASSUME TypeOK, Inductive, [Next]_vars, NEW k \in Settled,
                        row[k].live = "live", row[k].state \in Locked, row'[k].live = "live",
                        NEW c \in Columns \ ExceptColumns, row'[k] # row[k]
                 PROVE  row'[k].by[c] = row[k].by[c]
      OBVIOUS
    <2>1. k \in Records
      BY DEF Settled
    <2>2. PICK r \in Requests :
            /\ req[r].op = "PUT" /\ Verdict(r) = "pass"
            /\ row'[k] = Patched(r, row[k]) /\ old[r] = row[k]
      BY <2>1, LiveRowChange
    <2>3. ~OutsideLock(r)
      BY <2>2 DEF Verdict
    <2>4. ModifiedKeys(r) \subseteq ExceptColumns \cup {"status"}
      BY <2>2, <2>3 DEF OutsideLock, AllowedKeys
    <2>5. c \notin req[r].cols
      BY <2>4, ColumnsAssumption DEF ModifiedKeys
    <2>6. QED
      BY <2>2, <2>5 DEF Patched
  <1>2. TypeOK /\ Inductive /\ [Next]_vars => [\A k \in Settled : Kept(k)]_vars
    BY <1>1
  <1>3. QED
    BY <1>2, InductiveInvariant, PTL DEF Spec, LockedColumnsKept

----------------------------------------------------------------------------
(* What is assumed of the rows the database starts with *)

\* No version of a settled live record is NULL.
VersionsGiven ==
  \A db \in Databases, k \in Settled \cap Versioned : db[k].live = "live" => db[k].ver # 0

\* The first rows were written by nobody.
RowsUnsigned ==
  \A db \in Databases, k \in Records :
    db[k].items = Nobody /\ \A c \in Columns : db[k].by[c] = Nobody

----------------------------------------------------------------------------
(* The strengthenings *)

\* A version that an applied PUT asserted lies behind the record.
Superseded ==
  /\ \A k \in Settled \cap Versioned : row[k].live = "live" => row[k].ver # 0
  /\ \A r \in Requests :
       (/\ pc[r] \in Applied /\ req[r].op = "PUT" /\ req[r].expect # 0
        /\ Rec(r) \in Settled \cap Versioned /\ row[Rec(r)].live = "live")
         => row[Rec(r)].ver > req[r].expect

Traced(r, x) == x.items = r \/ \E c \in Columns : x.by[c] = r

\* Traces are left by who committed, and in a row not yet committed by its
\* transaction, too.
Signed ==
  /\ \A r \in Requests, k \in Records : Traced(r, row[k]) => pc[r] \in Applied
  /\ \A q, r \in Requests : q # r /\ Traced(q, new[r]) => pc[q] \in Applied

\* One webhook row for each applied request.
OneEventEach ==
  /\ \A r \in Requests : pc[r] \in Applied <=> \E i \in 1..Len(outbox) : outbox[i].by = r
  /\ \A i, j \in 1..Len(outbox) : outbox[i].by = outbox[j].by => i = j

\* A DELETE that found no row of a settled record finds none later.
GoneStays ==
  \A r \in Requests :
    (/\ req[r].op = "DELETE" /\ pc[r] = "written"
     /\ Rec(r) \in Settled /\ lock[Rec(r)] # r) => row[Rec(r)].live = "none"

\* The last event of a settled live record announced the row as it is.
Announced ==
  \A i \in 1..Len(outbox) :
    (/\ outbox[i].rec \in Settled /\ row[outbox[i].rec].live = "live"
     /\ \A j \in (i + 1)..Len(outbox) : outbox[j].rec # outbox[i].rec)
      => outbox[i].new = row[outbox[i].rec]

----------------------------------------------------------------------------
(* Commits are the only steps that publish anything *)

LEMMA RolledBackIsUnapplied ==
  ASSUME TypeOK, NEW r \in Requests, NEW outcome \in Refusals, RolledBack(r, outcome), pc[r] \in InFlight
  PROVE  /\ UNCHANGED <<row, outbox, req>>
         /\ \A q \in Requests : pc'[q] \in Applied <=> pc[q] \in Applied
  BY DEF RolledBack, TypeOK, Refusals, Verdicts, InFlight, Applied

LEMMA WroteIsUnapplied ==
  ASSUME TypeOK, NEW r \in Requests, NEW x, Wrote(r, x), pc[r] \in InFlight
  PROVE  /\ UNCHANGED <<row, outbox, req>>
         /\ \A q \in Requests : pc'[q] \in Applied <=> pc[q] \in Applied
  BY DEF Wrote, TypeOK, InFlight, Applied

\* A step publishes by committing, or it changes no row, no event and nobody's success.
LEMMA OnlyCommits ==
  ASSUME TypeOK, [Next]_vars, \A r \in Requests : ~Commit(r)
  PROVE  /\ UNCHANGED <<row, outbox, req>>
         /\ \A q \in Requests : pc'[q] \in Applied <=> pc[q] \in Applied
  <1> DEFINE Unapplied ==
        /\ UNCHANGED <<row, outbox, req>>
        /\ \A q \in Requests : pc'[q] \in Applied <=> pc[q] \in Applied
  <1>1. CASE UNCHANGED vars
    BY <1>1 DEF vars
  <1>2. ASSUME NEW r \in Requests, Step(r) PROVE Unapplied
    <2>1. ASSUME NEW outcome \in Refusals, RolledBack(r, outcome), pc[r] \in InFlight PROVE Unapplied
      BY <2>1, RolledBackIsUnapplied
    <2>2. ASSUME NEW x, Wrote(r, x), pc[r] \in InFlight PROVE Unapplied
      BY <2>2, WroteIsUnapplied
    <2>3. BeginTx(r) \/ ReadForUpdate(r) \/ ReadForDelete(r) => Unapplied
      BY DEF BeginTx, ReadForUpdate, ReadForDelete, TypeOK, Applied
    <2>4. ReadError(r) \/ Fail(r) => Unapplied
      BY <2>1 DEF ReadError, Fail, Refusals, InFlight
    <2>5. Reject(r) => Unapplied
      BY <2>1, VerdictType DEF Reject, Refusals, InFlight
    <2>6. UpdateMisses(r) => Unapplied
      BY <2>1 DEF UpdateMisses, Refusals, Verdicts, InFlight
    <2>7. RejectDelete(r) \/ InsertDuplicate(r) => Unapplied
      BY <2>1 DEF RejectDelete, InsertDuplicate, Refusals, Verdicts, InFlight
    <2>8. Update(r) \/ Insert(r) => Unapplied
      BY <2>2 DEF Update, Insert, InFlight
    <2>9. Delete(r) => Unapplied
      <3>1. CASE Wrote(r, Removed(r, row[Rec(r)])) /\ pc[r] \in InFlight
        BY <2>2, <3>1
      <3>2. CASE /\ pc[r] = "read" /\ pc' = [pc EXCEPT ![r] = "written"]
                 /\ UNCHANGED <<row, lock, req, old, new, outbox>>
        BY <3>2 DEF TypeOK, Applied
      <3>3. QED
        BY <3>1, <3>2 DEF Delete, InFlight
    <2>10. QED
      BY <1>2, <2>3, <2>4, <2>5, <2>6, <2>7, <2>8, <2>9 DEF Step
  <1>3. QED
    BY <1>1, <1>2 DEF Next

\* What a commit publishes.
LEMMA CommitPublishes ==
  ASSUME TypeOK, NEW r \in Requests, Commit(r)
  PROVE  /\ pc[r] = "written" /\ pc'[r] \in Applied
         /\ \A q \in Requests : q # r => pc'[q] = pc[q]
         /\ UNCHANGED <<req, old, new>>
         /\ Rec(r) \in Records /\ \A q \in Requests : Rec(q)' = Rec(q)
         /\ lock[Rec(r)] = r => row' = [row EXCEPT ![Rec(r)] = new[r]]
         /\ lock[Rec(r)] # r => row' = row
         /\ outbox' = Append(outbox, EventOf(r)) /\ EventOf(r) \in Event
         /\ EventOf(r).by = r /\ EventOf(r).rec = Rec(r) /\ EventOf(r).op = req[r].op
  BY RecType, EventType DEF Commit, TypeOK, Rec, EventOf

\* A PUT of a settled record that commits replaces the live row it read.
LEMMA PutOfSettled ==
  ASSUME TypeOK, Inductive, NEW r \in Requests, Commit(r), req[r].op = "PUT", Rec(r) \in Settled
  PROVE  /\ lock[Rec(r)] = r /\ row[Rec(r)].live = "live" /\ old[r] = row[Rec(r)]
         /\ Verdict(r) = "pass" /\ row'[Rec(r)] = Patched(r, row[Rec(r)])
  <1>1. pc[r] = "written" /\ Rec(r) \in Records
    BY CommitPublishes
  <1>2. /\ Verdict(r) = "pass" /\ lock[Rec(r)] = r
        /\ row[Rec(r)].live = "live" /\ new[r] = Patched(r, row[Rec(r)])
    BY <1>1 DEF Inductive, WritesHeld
  <1>3. old[r] = row[Rec(r)]
    BY <1>1, <1>2 DEF Inductive, ReadsHeld
  <1>4. row'[Rec(r)] = new[r]
    BY <1>1, <1>2, CommitPublishes DEF TypeOK
  <1>5. QED
    BY <1>2, <1>3, <1>4

\* Any other commit leaves a settled record as it is or no longer live.
LEMMA NoRevival ==
  ASSUME TypeOK, Inductive, NEW r \in Requests, Commit(r), NEW k \in Settled,
         row'[k].live = "live", ~(req[r].op = "PUT" /\ Rec(r) = k)
  PROVE  row'[k] = row[k]
  <1>1. k \in Records
    BY DEF Settled
  <1>2. CASE Rec(r) = k /\ lock[k] = r
    <2>1. req[r].op # "POST"
      BY <1>2 DEF Settled, TypeOK, Rec
    <2>2. req[r].op = "DELETE"
      BY <1>2, <2>1, RecType
    <2>3. row'[k] = new[r]
      BY <1>1, <1>2, CommitPublishes DEF TypeOK
    <2>4. QED
      BY <2>2, <2>3 DEF Inductive, WritesHeld
  <1>3. CASE ~(Rec(r) = k /\ lock[k] = r)
    BY <1>1, <1>3, CommitPublishes DEF TypeOK
  <1>4. QED
    BY <1>2, <1>3

----------------------------------------------------------------------------
(* Optimistic locking *)

LEMMA SupersededStep ==
  ASSUME TypeOK, Inductive, Superseded, NoLostUpdate, [Next]_vars
  PROVE  Superseded' /\ NoLostUpdate'
  <1>1. CASE \A r \in Requests : ~Commit(r)
    <2>1. /\ UNCHANGED <<row, req>>
          /\ \A q \in Requests : pc'[q] \in Applied <=> pc[q] \in Applied
      BY <1>1, OnlyCommits
    <2>2. \A q \in Requests : Rec(q)' = Rec(q)
      BY <2>1 DEF Rec
    <2>3. QED
      BY <2>1, <2>2 DEF Superseded, NoLostUpdate, Settled
  <1>2. ASSUME NEW r \in Requests, Commit(r) PROVE Superseded' /\ NoLostUpdate'
    <2> DEFINE k == Rec(r)
               Guarded == req[r].op = "PUT" /\ k \in Settled \cap Versioned
    <2>1. /\ \A q \in Requests : q # r => pc'[q] = pc[q]
          /\ pc[r] = "written" /\ pc'[r] \in Applied /\ UNCHANGED req
          /\ k \in Records /\ \A q \in Requests : Rec(q)' = Rec(q)
      BY <1>2, CommitPublishes
    <2>2. \A j \in Settled : j \in Records /\ row[j].ver \in Nat
      BY DEF Settled, TypeOK, Row
    <2>3. \A q \in Requests : req[q].expect \in Nat
      BY InputsAssumption DEF TypeOK, InputType
    <2>4. Guarded => /\ row[k].live = "live" /\ row[k].ver # 0
                     /\ row'[k].ver = row[k].ver + 1
                     /\ req[r].expect # 0 => req[r].expect = row[k].ver
      <3> SUFFICES ASSUME Guarded
                   PROVE  /\ row[k].live = "live" /\ row[k].ver # 0
                          /\ row'[k].ver = row[k].ver + 1
                          /\ req[r].expect # 0 => req[r].expect = row[k].ver
        OBVIOUS
      <3>1. /\ row[k].live = "live" /\ old[r] = row[k] /\ Verdict(r) = "pass"
            /\ row'[k] = Patched(r, row[k])
        BY <1>2, PutOfSettled
      <3>2. row[k].ver # 0
        BY <3>1 DEF Superseded
      <3>3. ~VersionMismatch(r)
        BY <3>1 DEF Verdict
      <3>4. row'[k].ver = row[k].ver + 1
        BY <3>1 DEF Patched
      <3>5. QED
        BY <3>1, <3>2, <3>3, <3>4 DEF VersionMismatch
    <2>5. \A j \in Settled : row'[j].live = "live" =>
            row'[j] = row[j] \/ (req[r].op = "PUT" /\ j = k)
      BY <1>2, NoRevival
    <2>6. Superseded'
      <3>1. ASSUME NEW j \in Settled \cap Versioned, row'[j].live = "live" PROVE row'[j].ver # 0
        <4>1. CASE row'[j] = row[j]
          BY <3>1, <4>1 DEF Superseded
        <4>2. CASE req[r].op = "PUT" /\ j = k
          BY <2>2, <2>4, <4>2
        <4>3. QED
          BY <2>5, <3>1, <4>1, <4>2
      <3>2. ASSUME NEW q \in Requests, pc'[q] \in Applied, req[q].op = "PUT", req[q].expect # 0,
                   Rec(q) \in Settled \cap Versioned, row'[Rec(q)].live = "live"
            PROVE  row'[Rec(q)].ver > req[q].expect
        <4>1. CASE q = r
          BY <2>2, <2>3, <2>4, <3>2, <4>1
        <4>2. CASE q # r /\ row'[Rec(q)] = row[Rec(q)]
          BY <2>1, <3>2, <4>2 DEF Superseded
        <4>3. CASE q # r /\ req[r].op = "PUT" /\ Rec(q) = k
          <5>1. row[k].ver > req[q].expect
            BY <2>1, <2>4, <3>2, <4>3 DEF Superseded
          <5>2. QED
            BY <2>2, <2>3, <2>4, <3>2, <4>3, <5>1
        <4>4. QED
          BY <2>5, <3>2, <4>1, <4>2, <4>3
      <3>3. QED
        BY <2>1, <3>1, <3>2 DEF Superseded, Settled
    <2>7. NoLostUpdate'
      <3>1. ASSUME NEW q \in Requests, q # r, pc[q] \in Applied, req[q].op = "PUT", Guarded,
                   Rec(q) = k, req[q].expect = req[r].expect, req[r].expect # 0
            PROVE  FALSE
        <4>1. row[k].ver > req[q].expect
          BY <2>4, <3>1 DEF Superseded
        <4>2. QED
          BY <2>2, <2>4, <3>1, <4>1
      <3>2. QED
        BY <2>1, <3>1 DEF NoLostUpdate, Settled
    <2>8. QED
      BY <2>6, <2>7
  <1>3. QED
    BY <1>1, <1>2

\* Of the PUTs that assert one version of a settled record, at most one is applied.
THEOREM NothingLost == VersionsGiven => (Spec => []NoLostUpdate)
  <1> SUFFICES ASSUME VersionsGiven PROVE Spec => []NoLostUpdate
    OBVIOUS
  <1>1. Init => Superseded /\ NoLostUpdate
    BY DEF Init, Superseded, NoLostUpdate, VersionsGiven, Applied
  <1>2. TypeOK /\ Inductive /\ Superseded /\ NoLostUpdate /\ [Next]_vars => (Superseded /\ NoLostUpdate)'
    BY SupersededStep
  <1>3. QED
    BY <1>1, <1>2, InductiveInvariant, PTL DEF Spec

----------------------------------------------------------------------------
(* One webhook row for each write that took effect *)

\* What is written carries the traces of the writer and of the row it replaces.
LEMMA TracesWritten ==
  ASSUME TypeOK, NEW q \in Requests, NEW r \in Requests, NEW x \in Row, q # r
  PROVE  /\ Traced(q, Patched(r, x)) => Traced(q, x)
         /\ ~Traced(q, Inserted(r))
         /\ Traced(q, Removed(r, x)) => Traced(q, x)
         /\ ~Traced(q, NoRow)
  BY NobodyAssumption DEF Traced, Patched, Inserted, Removed, NoRow, Row

LEMMA WroteSigned ==
  ASSUME TypeOK, Signed, NEW r \in Requests, NEW x \in Row, Wrote(r, x), pc[r] \in InFlight,
         \A q \in Requests : q # r /\ Traced(q, x) => pc[q] \in Applied
  PROVE  Signed'
  <1>1. /\ new'[r] = x /\ \A q \in Requests : q # r => new'[q] = new[q]
    BY DEF Wrote, TypeOK
  <1>2. UNCHANGED row /\ \A q \in Requests : pc'[q] \in Applied <=> pc[q] \in Applied
    BY WroteIsUnapplied
  <1>3. QED
    BY <1>1, <1>2 DEF Signed, Traced

LEMMA CommitSigned ==
  ASSUME TypeOK, Signed, NEW r \in Requests, Commit(r)
  PROVE  Signed'
  <1>1. /\ pc'[r] \in Applied /\ \A q \in Requests : q # r => pc'[q] = pc[q]
        /\ UNCHANGED new
        /\ \A k \in Records : row'[k] \in {row[k], new[r]}
    BY CommitPublishes DEF TypeOK
  <1>2. ASSUME NEW q \in Requests, NEW k \in Records, Traced(q, row'[k]) PROVE pc'[q] \in Applied
    <2>1. CASE q = r
      BY <1>1, <2>1
    <2>2. CASE q # r
      BY <1>1, <1>2, <2>2 DEF Signed
    <2>3. QED
      BY <2>1, <2>2
  <1>3. ASSUME NEW p \in Requests, NEW q \in Requests, p # q, Traced(q, new[p]) PROVE pc'[q] \in Applied
    BY <1>1, <1>3 DEF Signed
  <1>4. QED
    BY <1>1, <1>2, <1>3 DEF Signed, Traced

LEMMA SignedStep ==
  ASSUME TypeOK, Signed, [Next]_vars
  PROVE  Signed'
  <1>1. CASE UNCHANGED new /\ \A r \in Requests : ~Commit(r)
    <2>1. UNCHANGED row /\ \A q \in Requests : pc'[q] \in Applied <=> pc[q] \in Applied
      BY <1>1, OnlyCommits
    <2>2. QED
      BY <1>1, <2>1 DEF Signed, Traced
  <1>2. ASSUME NEW r \in Requests, Commit(r) PROVE Signed'
    BY <1>2, CommitSigned
  <1>3. ASSUME NEW r \in Requests, Update(r) \/ Insert(r) \/ Delete(r), ~(UNCHANGED new) PROVE Signed'
    <2>1. Rec(r) \in Records /\ row[Rec(r)] \in Row /\ pc[r] \in InFlight
      BY <1>3, RecType DEF Update, Insert, Delete, InFlight, TypeOK
    <2>2. \A q \in Requests : Traced(q, row[Rec(r)]) => pc[q] \in Applied
      BY <2>1 DEF Signed
    <2>3. PICK x \in {Patched(r, row[Rec(r)]), Inserted(r), Removed(r, row[Rec(r)])} : Wrote(r, x)
      BY <1>3 DEF Update, Insert, Delete
    <2>4. x \in Row
      BY <2>1, PatchedType, InsertedType, RemovedType
    <2>5. \A q \in Requests : q # r /\ Traced(q, x) => pc[q] \in Applied
      BY <2>1, <2>2, TracesWritten
    <2>6. QED
      BY <2>1, <2>3, <2>4, <2>5, WroteSigned
  <1>4. QED
    BY <1>1, <1>2, <1>3 DEF Next, Step, vars, BeginTx, ReadForUpdate, ReadForDelete, ReadError, Reject,
       UpdateMisses, RejectDelete, InsertDuplicate, Fail, RolledBack

LEMMA OneEventEachStep ==
  ASSUME TypeOK, OneEventEach, [Next]_vars
  PROVE  OneEventEach'
  <1>1. CASE \A r \in Requests : ~Commit(r)
    BY <1>1, OnlyCommits DEF OneEventEach
  <1>2. ASSUME NEW r \in Requests, Commit(r) PROVE OneEventEach'
    <2>1. /\ pc[r] = "written" /\ pc'[r] \in Applied
          /\ \A q \in Requests : q # r => pc'[q] = pc[q]
          /\ outbox' = Append(outbox, EventOf(r)) /\ EventOf(r) \in Event /\ EventOf(r).by = r
      BY <1>2, CommitPublishes
    <2>2. outbox \in Seq(Event) /\ Len(outbox) \in Nat
      BY DEF TypeOK
    <2>3. /\ Len(outbox') = Len(outbox) + 1
          /\ \A i \in 1..Len(outbox) : outbox'[i] = outbox[i]
          /\ outbox'[Len(outbox) + 1] = EventOf(r)
      BY <2>1, <2>2
    <2>4. \A i \in 1..Len(outbox) : outbox[i].by \in Requests /\ outbox[i].by # r
      <3>1. pc[r] \notin Applied
        BY <2>1 DEF Applied
      <3>2. \A i \in 1..Len(outbox) : outbox[i] \in Event
        BY <2>2
      <3>3. QED
        BY <3>1, <3>2 DEF OneEventEach, Event
    <2>5. \A q \in Requests : pc'[q] \in Applied <=> \E i \in 1..Len(outbox') : outbox'[i].by = q
      <3>1. ASSUME NEW q \in Requests, q # r
            PROVE  (\E i \in 1..Len(outbox') : outbox'[i].by = q) <=> \E i \in 1..Len(outbox) : outbox[i].by = q
        BY <2>1, <2>2, <2>3, <3>1
      <3>2. \E i \in 1..Len(outbox') : outbox'[i].by = r
        BY <2>1, <2>2, <2>3
      <3>3. QED
        BY <2>1, <3>1, <3>2 DEF OneEventEach
    <2>6. \A i, j \in 1..Len(outbox') : outbox'[i].by = outbox'[j].by => i = j
      BY <2>1, <2>2, <2>3, <2>4 DEF OneEventEach
    <2>7. QED
      BY <2>5, <2>6 DEF OneEventEach
  <1>3. QED
    BY <1>1, <1>2

\* A request has one webhook row when its write took effect, and otherwise neither
\* a webhook row nor a trace in any row.
THEOREM EventsMatchWrites == RowsUnsigned => (Spec => []EventIffApplied)
  <1> SUFFICES ASSUME RowsUnsigned PROVE Spec => []EventIffApplied
    OBVIOUS
  <1>1. Init => Signed /\ OneEventEach
    BY NobodyAssumption DEF Init, Signed, OneEventEach, RowsUnsigned, Traced, NoRow, Applied
  <1>2. TypeOK /\ Signed /\ OneEventEach /\ [Next]_vars => (Signed /\ OneEventEach)'
    BY SignedStep, OneEventEachStep
  <1>3. Signed /\ OneEventEach => EventIffApplied
    BY DEF Signed, OneEventEach, EventIffApplied, Traced
  <1>4. QED
    BY <1>1, <1>2, <1>3, TypeCorrect, PTL DEF Spec

----------------------------------------------------------------------------
(* The chain of webhook events *)

LEMMA GoneStaysStep ==
  ASSUME TypeOK, Inductive, GoneStays, [Next]_vars
  PROVE  GoneStays'
  <1>1. \A q \in Requests : Rec(q) \in Records
    BY RecType
  <1>2. CASE UNCHANGED vars
    BY <1>2 DEF vars, GoneStays, Rec, Settled
  <1>3. ASSUME NEW r \in Requests, Commit(r) PROVE GoneStays'
    <2>1. ASSUME NEW q \in Requests, req[q].op = "DELETE", pc'[q] = "written", Rec(q) \in Settled,
                 lock'[Rec(q)] # q
          PROVE  row'[Rec(q)].live = "none"
      <3>1. q # r /\ pc[q] = "written" /\ lock[Rec(q)] # q
        BY <1>1, <1>3, <2>1, CommitPublishes, NobodyAssumption DEF Commit, Applied, TypeOK
      <3>2. row[Rec(q)].live = "none"
        BY <2>1, <3>1 DEF GoneStays
      <3>3. CASE Rec(r) = Rec(q) /\ lock[Rec(r)] = r
        <4>1. req[r].op # "POST"
          BY <2>1, <3>3 DEF Settled, TypeOK, Rec
        <4>2. req[r].op \in {"PUT", "DELETE"} /\ pc[r] = "written"
          BY <1>3, <4>1, RecType DEF Commit
        <4>3. QED
          BY <3>2, <3>3, <4>2 DEF Inductive, WritesHeld
      <3>4. CASE ~(Rec(r) = Rec(q) /\ lock[Rec(r)] = r)
        BY <1>1, <1>3, <3>2, <3>4, CommitPublishes DEF TypeOK
      <3>5. QED
        BY <3>3, <3>4
    <2>2. UNCHANGED req /\ \A q \in Requests : Rec(q)' = Rec(q)
      BY <1>3, CommitPublishes
    <2>3. QED
      BY <2>1, <2>2 DEF GoneStays, Settled
  <1>4. ASSUME NEW r \in Requests, Step(r), ~Commit(r) PROVE GoneStays'
    <2>1. \A q \in Requests : q # r => pc'[q] = pc[q]
      BY <1>4 DEF Step, BeginTx, ReadForUpdate, ReadForDelete, ReadError, Reject, Update, UpdateMisses,
         RejectDelete, Delete, Insert, InsertDuplicate, Fail, RolledBack, Wrote, TypeOK
    <2>2. UNCHANGED <<row, req>>
      BY <1>4 DEF Step, BeginTx, ReadForUpdate, ReadForDelete, ReadError, Reject, Update, UpdateMisses,
         RejectDelete, Delete, Insert, InsertDuplicate, Fail, RolledBack, Wrote
    <2>3. \A q \in Requests : Rec(q)' = Rec(q)
      BY <2>2 DEF Rec
    <2>4. ASSUME NEW q \in Requests, q # r, lock[Rec(q)] = q PROVE lock'[Rec(q)] = q
      <3>1. ~(\E k \in Records : CanLock(r, k) /\ k = Rec(q))
        BY <2>4, NobodyAssumption DEF CanLock
      <3>2. QED
        BY <1>1, <1>4, <2>4, <3>1, NobodyAssumption
        DEF Step, BeginTx, ReadForUpdate, ReadForDelete, ReadError, Reject, Update, UpdateMisses,
            RejectDelete, Delete, Insert, InsertDuplicate, Fail, RolledBack, Wrote, TypeOK
    <2>5. ASSUME req[r].op = "DELETE", pc'[r] = "written", lock'[Rec(r)] # r
          PROVE  row[Rec(r)].live = "none"
      BY <1>1, <1>4, <2>5 DEF Step, BeginTx, ReadForUpdate, ReadForDelete, ReadError, Reject, Update, UpdateMisses,
         RejectDelete, Delete, Insert, InsertDuplicate, Fail, RolledBack, Wrote, TypeOK, Refusals,
         Verdicts, Verdict
    <2>6. QED
      BY <2>1, <2>2, <2>3, <2>4, <2>5 DEF GoneStays, Settled
  <1>5. QED
    BY <1>2, <1>3, <1>4 DEF Next

LEMMA ChainStep ==
  ASSUME TypeOK, Inductive, GoneStays, Announced, EventChain, [Next]_vars
  PROVE  Announced' /\ EventChain'
  <1>1. CASE \A r \in Requests : ~Commit(r)
    BY <1>1, OnlyCommits DEF Announced, EventChain, Settled
  <1>2. ASSUME NEW r \in Requests, Commit(r) PROVE Announced' /\ EventChain'
    <2> DEFINE k == Rec(r)
               last == Len(outbox) + 1
    <2>1. /\ k \in Records /\ outbox' = Append(outbox, EventOf(r)) /\ EventOf(r) \in Event
          /\ EventOf(r).rec = k /\ EventOf(r).op = req[r].op /\ EventOf(r).old = old[r]
      BY <1>2, CommitPublishes DEF EventOf
    <2>2. outbox \in Seq(Event) /\ Len(outbox) \in Nat
      BY DEF TypeOK
    <2>3. /\ Len(outbox') = last
          /\ \A i \in 1..Len(outbox) : outbox'[i] = outbox[i] /\ outbox[i] \in Event
          /\ outbox'[last] = EventOf(r)
      BY <2>1, <2>2
    <2>4. \A j \in Records : j # k => row'[j] = row[j]
      BY <1>2, CommitPublishes DEF TypeOK
    <2>5. (k \in Settled /\ row'[k].live = "live") => req[r].op = "PUT"
      <3> SUFFICES ASSUME k \in Settled, row'[k].live = "live", req[r].op # "PUT" PROVE FALSE
        OBVIOUS
      <3>1. req[r].op = "DELETE"
        BY RecType DEF Settled, TypeOK, Rec
      <3>2. row'[k] = row[k]
        BY <1>2, NoRevival
      <3>3. lock[k] # r
        BY <1>2, <2>1, <3>1, CommitPublishes DEF Inductive, WritesHeld, TypeOK
      <3>4. QED
        BY <1>2, <3>1, <3>2, <3>3, CommitPublishes DEF GoneStays
    <2>6. (k \in Settled /\ req[r].op = "PUT") =>
             /\ row[k].live = "live" /\ old[r] = row[k] /\ EventOf(r).new = row'[k]
      BY <1>2, PutOfSettled DEF EventOf
    <2>7. Announced'
      <3>1. ASSUME NEW i \in 1..last, outbox'[i].rec \in Settled, row'[outbox'[i].rec].live = "live",
                   \A j \in (i + 1)..last : outbox'[j].rec # outbox'[i].rec
            PROVE  outbox'[i].new = row'[outbox'[i].rec]
        <4>1. CASE i = last
          BY <2>1, <2>3, <2>5, <2>6, <3>1, <4>1
        <4>2. CASE i \in 1..Len(outbox)
          <5>1. outbox[i].rec # k
            <6>1. last \in (i + 1)..last
              BY <2>2, <4>2
            <6>2. outbox'[last].rec # outbox'[i].rec
              BY <3>1, <6>1
            <6>3. QED
              BY <2>1, <2>3, <4>2, <6>2
          <5>2. outbox[i].rec \in Records
            BY <2>3, <4>2 DEF Event
          <5>3. \A j \in (i + 1)..Len(outbox) : outbox[j].rec # outbox[i].rec
            BY <2>2, <2>3, <3>1, <4>2
          <5>4. QED
            BY <2>3, <2>4, <3>1, <4>2, <5>1, <5>2, <5>3 DEF Announced
        <4>3. QED
          BY <2>2, <4>1, <4>2
      <3>2. QED
        BY <2>3, <3>1 DEF Announced, Settled
    <2>8. EventChain'
      <3>1. ASSUME NEW i \in 1..last, NEW j \in 1..last, i < j, outbox'[i].rec = outbox'[j].rec,
                   outbox'[j].rec \in Settled, outbox'[j].op = "PUT",
                   \A m \in (i + 1)..(j - 1) : outbox'[m].rec # outbox'[j].rec
            PROVE  outbox'[j].old = outbox'[i].new
        <4>1. i \in 1..Len(outbox)
          BY <2>2, <3>1
        <4>2. CASE j = last
          <5>1. \A m \in (i + 1)..Len(outbox) : outbox[m].rec # outbox[i].rec
            BY <2>2, <2>3, <3>1, <4>1, <4>2
          <5>2. outbox[i].rec = k /\ k \in Settled /\ req[r].op = "PUT"
            BY <2>1, <2>3, <3>1, <4>1, <4>2
          <5>3. outbox[i].new = row[k]
            BY <2>6, <4>1, <5>1, <5>2 DEF Announced
          <5>4. QED
            BY <2>1, <2>3, <2>6, <4>1, <4>2, <5>2, <5>3
        <4>3. CASE j \in 1..Len(outbox)
          <5>1. \A m \in (i + 1)..(j - 1) : outbox[m].rec # outbox[j].rec
            BY <2>2, <2>3, <3>1, <4>1, <4>3
          <5>2. QED
            BY <2>3, <3>1, <4>1, <4>3, <5>1 DEF EventChain
        <4>4. QED
          BY <2>2, <4>2, <4>3
      <3>2. QED
        BY <2>3, <3>1 DEF EventChain, Settled
    <2>9. QED
      BY <2>7, <2>8
  <1>3. QED
    BY <1>1, <1>2

\* The previous state an event reports is the one the record's last event announced.
THEOREM EventsChain == Spec => []EventChain
  <1>1. Init => GoneStays /\ Announced /\ EventChain
    BY DEF Init, GoneStays, Announced, EventChain
  <1>2. TypeOK /\ Inductive /\ GoneStays /\ Announced /\ EventChain /\ [Next]_vars
          => (GoneStays /\ Announced /\ EventChain)'
    BY GoneStaysStep, ChainStep
  <1>3. QED
    BY <1>1, <1>2, InductiveInvariant, PTL DEF Spec

===============================================================================
