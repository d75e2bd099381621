------------------------------ MODULE MCRecordTx ------------------------------
(***************************************************************************)
(* Three requests against three records: `a` plain, `b` versioned and      *)
(* soft-deleted, `n` under a composite key and created by POST.            *)
(***************************************************************************)
EXTENDS RecordTx, TLC

CONSTANTS a, b, n, draft, confirmed, shipped, void, qty, memo, clerk, boss, anyState

MCRecords == {a, b, n}

MCColumns == {qty, memo}

MCExceptColumns == {memo}

MCStates == {draft, confirmed, shipped, void}

MCLocked == {shipped, void}

MCRoles == {clerk, boss}

\* draft -> confirmed -> shipped; a boss may void a draft, anyone what is not one.
MCTransitions ==
  << [from |-> {draft}, to |-> confirmed, roles |-> {}],
     [from |-> {confirmed}, to |-> shipped, roles |-> {boss}],
     [from |-> {draft}, to |-> void, roles |-> {boss}],
     [from |-> {anyState}, to |-> void, roles |-> {clerk, boss}] >>

Put(k, cols, state, role) ==
  [op |-> "PUT", rec |-> k, cols |-> cols, state |-> state, items |-> FALSE,
   expect |-> 0, role |-> role]

MCInputs ==
  { Put(a, {qty}, NoState, clerk),
    Put(a, {memo}, NoState, clerk),
    Put(a, {}, confirmed, clerk),
    Put(a, {qty}, shipped, boss),
    Put(a, {}, shipped, clerk),
    Put(a, {}, void, clerk),
    Put(a, {qty}, void, boss),
    [Put(b, {qty}, NoState, clerk) EXCEPT !.expect = 1],
    [Put(b, {}, confirmed, boss) EXCEPT !.expect = 2],
    Put(n, {}, void, clerk),
    [Put(n, {qty}, NoState, clerk) EXCEPT !.items = TRUE] }
  \cup { [Put(k, {}, NoState, clerk) EXCEPT !.op = "DELETE"] : k \in MCRecords }
  \cup { [Put(n, {qty}, NoState, clerk) EXCEPT !.op = "POST"] }

\* A clerk deletes a document while a boss ships it.
RaceInputs ==
  { Put(a, {}, shipped, boss), [Put(a, {}, NoState, clerk) EXCEPT !.op = "DELETE"] }

Live(state, ver) ==
  [live |-> "live", state |-> state, ver |-> ver,
   by |-> [c \in MCColumns |-> Nobody], items |-> Nobody]

MCDatabases ==
  { (a :> Live(s, 0)) @@ (b :> Live(draft, 1)) @@ (n :> NoRow) : s \in {draft, shipped} }

ConfirmedDatabases ==
  { (a :> Live(confirmed, 0)) @@ (b :> Live(draft, 1)) @@ (n :> NoRow) }

Symmetry == Permutations(Requests)

=============================================================================
