-------------------------------- MODULE Paging --------------------------------
(***************************************************************************)
(* A client that reads a table page by page (data_read_repo.rs) while       *)
(* others change it.  Rows are told apart by their primary key, a number;    *)
(* `key` is the other column they can be sorted by.  A page is any order    *)
(* of rows that the ORDER BY of its query allows.                           *)
(***************************************************************************)
EXTENDS Integers, Sequences, FiniteSets, TLC

CONSTANTS
  Ids,         \* primary keys
  SortValues,  \* numbers
  Null,
  Tables,      \* what the table may hold at first: id -> [key, live]
  Asks,        \* how the client asks: [sort, mode, limit, showsKey]
  Orderable,   \* columns of the ORDER BY allow-list
  OrderBy,     \* get.order_by of the entity
  LimitMax, LimitDefault,
  MaxInt,      \* largest i32
  MaxPage, MaxChanges

VARIABLES
  table,       \* id -> [key, live]; a deleted row keeps its id
  ask,
  nullLargest, \* Postgres sorts NULL last, the others first
  cursor,      \* values of X-Next-Cursor that the client sends, <<>> for none
  page,
  shown,       \* ids in the order they were delivered
  ends,        \* cursors it was handed
  touched,     \* rows changed since it began
  doubts,      \* what spoils the traversal, see ReadPage
  reading

Token == [col : STRING, asc : BOOLEAN]

PagingAssumption ==
  /\ Ids \subseteq Int /\ IsFiniteSet(Ids) /\ SortValues \subseteq Int /\ Null \notin Ids \cup SortValues
  /\ Tables \subseteq [Ids -> [key : SortValues \cup {Null}, live : BOOLEAN]]
  /\ Asks \subseteq [sort : Seq(Token), mode : {"after", "page"}, limit : Nat, showsKey : BOOLEAN]
  /\ OrderBy \in Seq(Token)
  /\ LimitMax \in Nat /\ LimitDefault \in 1..LimitMax /\ MaxInt \in Nat /\ LimitMax <= MaxInt

pagingVars == <<table, ask, nullLargest, cursor, page, shown, ends, touched, doubts, reading>>

Init ==
  /\ table \in Tables /\ ask \in Asks /\ nullLargest \in BOOLEAN
  /\ cursor = <<>> /\ page = 1
  /\ shown = <<>> /\ ends = {} /\ touched = {} /\ doubts = {} /\ reading = TRUE

----------------------------------------------------------------------------
(* build_read_query *)

Limit == IF ask.limit = 0 THEN LimitDefault ELSE IF ask.limit > LimitMax THEN LimitMax ELSE ask.limit

\* Tokens of ?sort= that the allow-list knows, at their places, else the
\* entity's order.
Known == {i \in DOMAIN ask.sort : ask.sort[i].col \in Orderable}
Sort == IF Known # {} THEN [i \in Known |-> ask.sort[i]] ELSE OrderBy

PrimaryKey == <<[col |-> "id", asc |-> TRUE]>>

\* The keys of the cursor, and those that the query orders by.
SortKeys == IF DOMAIN Sort # {} THEN Sort ELSE PrimaryKey
Ordering == IF cursor # <<>> THEN SortKeys ELSE Sort

ValueOf(id, col) == IF col = "id" THEN id ELSE table[id].key

Beyond(v, w, asc) == IF asc THEN v > w ELSE v < w

\* Mutant: every key of the row must lie beyond the cursor.
AllBeyond(id) ==
  \A i \in DOMAIN SortKeys :
    LET v == ValueOf(id, SortKeys[i].col) IN v # Null /\ Beyond(v, cursor[i], SortKeys[i].asc)

\* keyset_filter: no comparison with NULL holds.
Passes(id) ==
  \E i \in DOMAIN SortKeys :
    LET v == ValueOf(id, SortKeys[i].col) IN
    /\ v # Null /\ Beyond(v, cursor[i], SortKeys[i].asc)
    /\ \A j \in DOMAIN SortKeys : j < i => ValueOf(id, SortKeys[j].col) = cursor[j]

Matching == {id \in Ids : table[id].live /\ (cursor # <<>> => Passes(id))}

\* The database's order of values, NULL among them.
Below(v, w) ==
  \/ v # Null /\ w # Null /\ v < w
  \/ nullLargest /\ v # Null /\ w = Null
  \/ ~nullLargest /\ v = Null /\ w # Null

\* Whether the ORDER BY puts row a before row b.
Before(a, b) ==
  \E i \in DOMAIN Ordering :
    LET v == ValueOf(a, Ordering[i].col)
        w == ValueOf(b, Ordering[i].col) IN
    /\ IF Ordering[i].asc THEN Below(v, w) ELSE Below(w, v)
    /\ \A j \in DOMAIN Ordering : j < i => ValueOf(a, Ordering[j].col) = ValueOf(b, Ordering[j].col)

\* (page - 1) * limit in 32 bits, negative ones as 0.  A page number that is no
\* i32 counts as 1.
Wrapped(n) == ((n + MaxInt + 1) % (2 * (MaxInt + 1))) - (MaxInt + 1)
Offset ==
  LET p == IF cursor # <<>> \/ page > MaxInt THEN 1 ELSE page
      n == Wrapped((p - 1) * Limit) IN
  IF n < 0 THEN 0 ELSE n

----------------------------------------------------------------------------
(* compile_query_with_dialect, as the database answers it *)

Least(a, b) == IF a < b THEN a ELSE b

\* Sequences of n rows that come first in some order the query allows.
Firsts(rows, n) ==
  {s \in [1..n -> rows] :
     /\ \A i, j \in 1..n : i < j => s[i] # s[j] /\ ~Before(s[j], s[i])
     /\ \A r \in rows \ {s[i] : i \in 1..n} : \A i \in 1..n : ~Before(r, s[i])}

Answers ==
  LET size == Cardinality(Matching)
      upto == Least(size, Offset + Limit) IN
  {SubSeq(s, Offset + 1, upto) : s \in Firsts(Matching, upto)}

----------------------------------------------------------------------------
(* fetch_dynamic_data *)

\* next_cursor_from_row: none if a key is NULL or not among the columns shown.
CursorAfter(id) ==
  LET values == [i \in DOMAIN SortKeys |-> ValueOf(id, SortKeys[i].col)] IN
  IF \E i \in DOMAIN SortKeys : values[i] = Null \/ (SortKeys[i].col = "key" /\ ~ask.showsKey)
    THEN <<>> ELSE values

Doubts(full, next) ==
  {d \in {"unordered", "no cursor", "wrapped"} :
     \/ d = "unordered" /\ DOMAIN Ordering = {}
     \/ d = "no cursor" /\ full /\ next = <<>>
     \/ d = "wrapped" /\ cursor = <<>> /\ Offset # (page - 1) * Limit}

ReadPage ==
  /\ reading
  /\ \E rows \in Answers :
       LET full == Len(rows) >= Limit
           next == IF full THEN CursorAfter(rows[Len(rows)]) ELSE <<>> IN
       /\ shown' = shown \o rows
       /\ doubts' = doubts \cup Doubts(full, next)
       /\ ends' = ends \cup ({next} \ {<<>>})
       /\ IF ask.mode = "after"
            THEN cursor' = next /\ reading' = (next # <<>>) /\ UNCHANGED page
            ELSE /\ page < MaxPage \/ ~full
                 /\ page' = page + 1 /\ reading' = full /\ UNCHANGED cursor
  /\ UNCHANGED <<table, ask, nullLargest, touched>>

\* Another request inserts, edits or deletes a row.
Change(id) ==
  /\ reading /\ Cardinality(touched) < MaxChanges
  /\ \E row \in [key : SortValues \cup {Null}, live : BOOLEAN] :
       row # table[id] /\ table' = [table EXCEPT ![id] = row]
  /\ touched' = touched \cup {id}
  /\ UNCHANGED <<ask, nullLargest, cursor, page, shown, ends, doubts, reading>>

Next == ReadPage \/ \E id \in Ids : Change(id)

----------------------------------------------------------------------------
(* Properties *)

Times(id) == Cardinality({i \in DOMAIN shown : shown[i] = id})

Untouched == {id \in Ids \ touched : table[id].live}

KeysOf(id) == [i \in DOMAIN SortKeys |-> ValueOf(id, SortKeys[i].col)]

\* A row that a cursor cannot reach: it ties with the end of a page, or has no
\* value in a sort column.
OutOfReach(id) == KeysOf(id) \in ends \/ \E i \in DOMAIN SortKeys : KeysOf(id)[i] = Null

Unique == \E i \in DOMAIN SortKeys : SortKeys[i].col = "id"

\* README 25.2: keyset paging delivers a row that nobody touches exactly once,
\* whatever happens to others, unless the order left the row out of reach, the
\* first page came in no order, or a full page gave no cursor.  Offset paging
\* does so only while nothing changes and the order is unique.
PagesComplete ==
  /\ ask.mode = "after" /\ "unordered" \notin doubts =>
       \A id \in Untouched :
         /\ Times(id) <= 1
         /\ ~reading /\ doubts = {} => Times(id) = 1 \/ OutOfReach(id)
  /\ ask.mode = "page" /\ touched = {} /\ doubts = {} /\ Unique =>
       \A id \in Untouched : Times(id) <= 1 /\ (~reading => Times(id) = 1)

===============================================================================
