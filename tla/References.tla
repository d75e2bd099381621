------------------------------ MODULE References ------------------------------
(***************************************************************************)
(* reference_foreign_keys on a DELETE (foreign_key.rs), beside inserts of    *)
(* children whose entity declares a foreign key, so that the parent is      *)
(* looked up first, or declares none.  The tables are taken to have no      *)
(* constraint of their own, which could only refuse more.                   *)
(***************************************************************************)
EXTENDS Naturals, Sequences

CONSTANTS
  Parents, Children,
  TableOf,    \* child -> its table
  Refs,       \* sequence of [table, action, type_delete]
  Deletes,    \* DELETE requests
  Adds        \* requests that insert a child: [child, parent, checked]

VARIABLES
  parent,     \* committed parents: "live" or "gone"
  child,      \* committed children: [state, ref]
  del,        \* progress of each DELETE
  add,        \* progress of each insert
  raced       \* children written while a DELETE of their parent was under way

vars == <<parent, child, del, add, raced>>

ReferencesAssumption ==
  /\ Refs \in Seq([table : STRING, action : STRING, type_delete : STRING])
  /\ Adds \subseteq [child : Children, parent : Parents, checked : BOOLEAN]
  /\ "null" \notin Parents

NoRef == "null"
NoRow == [state |-> "none", ref |-> NoRef]
Row(p) == [state |-> "live", ref |-> p]

Init ==
  /\ parent = [p \in Parents |-> "live"]
  /\ child \in [Children -> {NoRow} \cup {Row(p) : p \in Parents}]
  /\ \A a \in Adds : child[a.child] = NoRow
  /\ \E to \in [Deletes -> Parents] :
       del = [r \in Deletes |-> [pc |-> "new", parent |-> to[r], next |-> 1, own |-> [c \in Children |-> NoRow]]]
  /\ add = [a \in Adds |-> "new"]
  /\ raced = {}

----------------------------------------------------------------------------
(* perform_delete_sql, process_foreign_keys_delete_update_txstore *)

RowHolder(p) == {r \in Deletes : del[r].parent = p /\ del[r].pc = "refs"}

\* The parent's row, whether or not the statement removes any.
RemoveParent(r) ==
  /\ del[r].pc = "new" /\ RowHolder(del[r].parent) = {}
  /\ del' = [del EXCEPT ![r].pc = "refs"]
  /\ UNCHANGED <<parent, child, add, raced>>

\* What the transaction sees: children committed by now, with its own changes.
Seen(r) ==
  [c \in Children |-> IF del[r].own[c] = NoRow THEN child[c] ELSE del[r].own[c]]

Hit(r, fk) ==
  {c \in Children : /\ TableOf[c] = fk.table
                    /\ Seen(r)[c].state \notin {"none", "removed"} /\ Seen(r)[c].ref = del[r].parent}

\* References that execute a statement which changes children: "no action" is
\* passed over, like a cascade whose type_delete is neither soft nor hard.
Changes(fk) ==
  fk.action = "set null" \/ (fk.action = "cascade" /\ fk.type_delete \in {"soft", "hard"})

After(fk, row) ==
  IF fk.action = "set null" THEN [row EXCEPT !.ref = NoRef]
  ELSE [row EXCEPT !.state = IF fk.type_delete = "soft" THEN "deleted" ELSE "removed"]

\* Mutant: a child that refuses does not end the loop.
Forgiving(r, fk) == TRUE

\* restrict: a child of any state refuses, soft-deleted ones too.
Allowed(r, fk) == fk.action = "restrict" => Hit(r, fk) = {}

Reference(r) ==
  LET fk == Refs[del[r].next] IN
  /\ del[r].pc = "refs" /\ del[r].next <= Len(Refs)
  /\ IF Allowed(r, fk)
       THEN del' = [del EXCEPT ![r].next = @ + 1,
              ![r].own = [c \in Children |->
                IF Changes(fk) /\ c \in Hit(r, fk) THEN After(fk, Seen(r)[c]) ELSE del[r].own[c]]]
       ELSE del' = [del EXCEPT ![r].pc = "refused"]
  /\ UNCHANGED <<parent, child, add, raced>>

ReferenceFails(r) ==
  /\ del[r].pc = "refs"
  /\ del' = [del EXCEPT ![r].pc = "refused"]
  /\ UNCHANGED <<parent, child, add, raced>>

\* Only the rows that the statements found are changed.
CommitDelete(r) ==
  /\ del[r].pc = "refs" /\ del[r].next > Len(Refs)
  /\ parent' = [parent EXCEPT ![del[r].parent] = "gone"]
  /\ child' = [c \in Children |->
       IF del[r].own[c].state = "removed" THEN NoRow
       ELSE IF del[r].own[c] = NoRow THEN child[c] ELSE del[r].own[c]]
  /\ del' = [del EXCEPT ![r].pc = "done"]
  /\ raced' = raced \cup {a.child : a \in {b \in Adds : add[b] = "checked" /\ b.parent = del[r].parent}}
  /\ UNCHANGED add

----------------------------------------------------------------------------
(* Inserts of children *)

\* validate_foreign_keys_batch of a POST or PUT, in its transaction, and
\* check_data_foreign_key of an import, outside of one: a plain read.
Check(a) ==
  /\ add[a] = "new" /\ a.checked
  /\ add' = [add EXCEPT ![a] = IF parent[a.parent] = "live" THEN "checked" ELSE "refused"]
  /\ UNCHANGED <<parent, child, del, raced>>

\* An error counts as missing.
CheckFails(a) ==
  /\ add[a] = "new" /\ a.checked
  /\ add' = [add EXCEPT ![a] = "refused"]
  /\ UNCHANGED <<parent, child, del, raced>>

InsertChild(a) ==
  /\ add[a] = (IF a.checked THEN "checked" ELSE "new")
  /\ child' = [child EXCEPT ![a.child] = Row(a.parent)]
  /\ add' = [add EXCEPT ![a] = "done"]
  /\ raced' = IF RowHolder(a.parent) # {} \/ ~a.checked THEN raced \cup {a.child} ELSE raced
  /\ UNCHANGED <<parent, del>>

Next ==
  \/ \E r \in Deletes : RemoveParent(r) \/ Reference(r) \/ ReferenceFails(r) \/ CommitDelete(r)
  \/ \E a \in Adds : Check(a) \/ CheckFails(a) \/ InsertChild(a)

----------------------------------------------------------------------------
(* Properties *)

Acts(fk) == Changes(fk) \/ fk.action = "restrict"
Governed(c) == \E i \in 1..Len(Refs) : Refs[i].table = TableOf[c] /\ Acts(Refs[i])

\* README 7, on_delete cascade, restrict and set null: a committed DELETE leaves
\* no child that refers to the parent in a table with such a reference, except those
\* that were inserted unchecked, or while it was under way.
OrphansRaced ==
  \A c \in Children :
    child[c].state = "live" /\ Governed(c) /\ child[c].ref \in Parents =>
      parent[child[c].ref] = "live" \/ c \in raced

===============================================================================
