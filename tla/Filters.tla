------------------------------- MODULE Filters -------------------------------
(***************************************************************************)
(* Which rows a query shows: the parameters an entity declares, ?filter=,   *)
(* ?search= and the rows that are deleted, on GET (data_read_repo.rs) and   *)
(* on GET /export (data_export_service.rs).  A condition is the set of the  *)
(* rows it selects.                                                         *)
(*   argument   [text, vals]: "list" for values separated by commas or, with *)
(*              none, for []; else "empty", "null" (of JSON), "NULL",       *)
(*              "NOT NULL" or "no" (false, 0, no)                           *)
(*   parameter  [of, arg], `of` the alternatives <<col, op>> of its name,   *)
(*              op the suffix it is written with, or ""                     *)
(*   node       [kind, of]: "list" of nodes, "object" of keys; a key is     *)
(*              "and" or "or" of nodes, or a leaf [kind, col, op, arg]      *)
(***************************************************************************)
EXTENDS Integers, Sequences, FiniteSets

CONSTANTS
  Rows,          \* column -> value or Null, `deleted_at` among the columns
  Null,
  Word,          \* a value of no row: a text where a number belongs
  Starts, Ends, Parts, \* value -> values that start with, end with, contain it
  TypeOf,        \* column -> "text", "number" or "other"
  SearchColumns,
  Queries,       \* [via, declared, clause, params, tree, search]; of the entity
                 \* declared is get.parameters, a set of [of, star], and clause
                 \* get.where_clause, the conditions that hold of each row shown
  MaxDepth, MaxLeaves

VARIABLES query, found, stage

filterVars == <<query, found, stage>>

Init == query \in Queries /\ found = {} /\ stage = "asked"

Deletion == "deleted_at"

----------------------------------------------------------------------------
(* One condition *)

\* compile_filter_for: what a condition selects.  No comparison with NULL holds.
Selected(col, t, vals) ==
  {r \in Rows :
     LET x == r[col]
         one == vals[1] IN
     CASE t = "null" -> x = Null
       [] t = "not null" -> x # Null
       [] t = "not in" -> vals = <<>> \/ (x # Null /\ \A i \in DOMAIN vals : x # vals[i])
       [] t = "in" -> x # Null /\ \E i \in DOMAIN vals : x = vals[i]
       [] t = "<>" -> x # Null /\ x # one
       [] t = "<" -> x # Null /\ x < one
       [] t = "<=" -> x # Null /\ x <= one
       [] t = ">" -> x # Null /\ x > one
       [] t = ">=" -> x # Null /\ x >= one
       [] t = "between" -> x # Null /\ one <= x /\ x <= vals[2]
       [] t = "like" -> x \in Parts[one]
       [] t = "not like" -> x # Null /\ x \notin Parts[one]
       [] t = "starts" -> x \in Starts[one]
       [] t = "ends" -> x \in Ends[one]}

\* SUPPORTED_OPERATORS
Suffixes ==
  {"eq", "ne", "neq", "lt", "lte", "gt", "gte", "like", "ilike", "nlike", "notlike", "startswith",
   "endswith", "contains", "is", "isnull", "notnull", "isnotnull", "in", "nin", "between"}

\* operator_query
Symbol(op) ==
  CASE op = "eq" -> "="
    [] op \in {"ne", "neq"} -> "<>"
    [] op = "lt" -> "<"
    [] op = "lte" -> "<="
    [] op = "gt" -> ">"
    [] op = "gte" -> ">="
    [] op \in {"nlike", "notlike"} -> "nlike"
    [] op \in {"notnull", "isnotnull"} -> "notnull"
    [] op \in {"like", "ilike", "startswith", "endswith", "contains", "is", "isnull", "in", "nin", "between"} -> op
    [] OTHER -> ""

\* parse_param_key: another suffix, or none, is `=`.
Canonical(op) == IF Symbol(op) = "" THEN "=" ELSE Symbol(op)

\* The text of an argument as one value.
Verbatim(arg) == IF arg.text = "list" /\ Len(arg.vals) = 1 THEN arg.vals ELSE <<Word>>

\* build_leaf_filter: no condition for an empty value.
Leaf(col, op, arg) ==
  LET negated == arg.text = "no"
      sel(t, vals) == {Selected(col, t, vals)} IN
  CASE op = "isnull" -> sel(IF negated THEN "not null" ELSE "null", <<>>)
    [] op = "notnull" -> sel(IF negated THEN "null" ELSE "not null", <<>>)
    [] op \notin {"isnull", "notnull"} /\ arg.text = "empty" -> {}
    [] OTHER ->
      CASE op = "is" /\ arg.text = "NULL" -> sel("null", <<>>)
        [] op = "is" /\ arg.text = "NOT NULL" -> sel("not null", <<>>)
        [] op \in {"=", "in"} -> sel("in", IF arg.text = "list" THEN arg.vals ELSE <<Word>>)
        [] op = "nin" -> sel("not in", IF arg.text = "list" THEN arg.vals ELSE <<Word>>)
        [] op \in {"like", "ilike", "contains"} -> sel("like", Verbatim(arg))
        [] op = "nlike" -> sel("not like", Verbatim(arg))
        [] op = "startswith" -> sel("starts", Verbatim(arg))
        [] op = "endswith" -> sel("ends", Verbatim(arg))
        [] op = "between" /\ Len(arg.vals) = 2 -> sel("between", arg.vals)
        [] op \in {"<>", "<", "<=", ">", ">="} -> sel(op, Verbatim(arg))
        [] OTHER -> sel("in", Verbatim(arg))

\* build_filter_clause of the export, which knows fewer operators and takes the
\* others for `=`; a list of several values ends a range at its second.
ExportLeaf(col, op, arg) ==
  IF arg.text = "empty" THEN {}
  ELSE IF op \in {"=", "<", "<=", ">", ">=", "like", "nin", "is"} THEN Leaf(col, op, arg)
  ELSE IF op = "between" /\ Len(arg.vals) > 1 THEN Leaf(col, op, [arg EXCEPT !.vals = SubSeq(@, 1, 2)])
  ELSE {Selected(col, "in", Verbatim(arg))}

All(conditions) == {r \in Rows : \A c \in conditions : r \in c}

\* A group without conditions is no condition.
Grouped(kind, conditions) ==
  IF conditions = {} THEN {} ELSE {IF kind = "or" THEN UNION conditions ELSE All(conditions)}

----------------------------------------------------------------------------
(* ?filter= *)

Declared == query.declared
DeclaredColumns == UNION {{p.of[i][1] : i \in DOMAIN p.of} : p \in Declared}

RECURSIVE Depth(_), Leaves(_), Conditions(_)

\* How deep nodes are nested; keys add nothing.
Depth(n) ==
  IF n.kind = "leaf" THEN 0
  ELSE LET inner == {Depth(n.of[i]) : i \in DOMAIN n.of} \cup {0}
           most == CHOOSE d \in inner : \A e \in inner : e <= d IN
       IF n.kind \in {"and", "or"} THEN most ELSE most + 1

Leaves(n) ==
  IF n.kind = "leaf" THEN {n} ELSE UNION {Leaves(n.of[i]) : i \in DOMAIN n.of}

\* The conditions of a node that was accepted.
Conditions(n) ==
  IF n.kind = "leaf"
    THEN LET op == Canonical(n.op) IN
         CASE n.arg.text = "null" /\ op \in {"=", "is"} -> {Selected(n.col, "null", <<>>)}
           [] n.arg.text = "null" /\ op = "<>" -> {Selected(n.col, "not null", <<>>)}
           [] OTHER -> Leaf(n.col, op, n.arg)
    ELSE Grouped(n.kind, UNION {Conditions(n.of[i]) : i \in DOMAIN n.of})

\* parse_filter_node: an unknown suffix, a value that is empty, or null for
\* another operator, a column that is not declared and too large a tree are refused.
Acceptable(n) ==
  /\ Depth(n) <= MaxDepth /\ Cardinality(Leaves(n)) <= MaxLeaves
  /\ \A l \in Leaves(n) :
       /\ l.col \in DeclaredColumns
       /\ l.op \in Suffixes \cup {""}
       /\ l.arg.text = "empty" => Canonical(l.op) \in {"isnull", "notnull"}
       /\ l.arg.text = "null" => Canonical(l.op) \in {"isnull", "notnull", "=", "is", "<>"}

----------------------------------------------------------------------------
(* GET and export *)

Given(p) == {q \in query.params : q.of = p.of}

\* A declared parameter that the request must name with a value.
RequiredGiven == \A p \in Declared : p.star => \E q \in Given(p) : q.arg.text # "empty"

ParamConditions(p) ==
  UNION {Grouped("or", UNION {Leaf(q.of[i][1], Canonical(q.of[i][2]), q.arg) : i \in DOMAIN q.of}) : q \in Given(p)}

Mentions(q) == \E i \in DOMAIN q.of : q.of[i][1] = Deletion

\* build_search_filter: numbers are compared, texts searched, other columns not.
Search ==
  IF query.search = <<>> THEN {}
  ELSE Grouped("or", {Selected(c, IF TypeOf[c] = "text" THEN "like" ELSE "in", query.search) :
                        c \in {d \in SearchColumns : TypeOf[d] # "other"}})

\* Deleted rows are hidden from whoever does not ask about deletion.
Undeleted(named) == IF named THEN {} ELSE {Selected(Deletion, "null", <<>>)}

\* Mutant: only parameters, not ?filter=, decide whether deleted rows show.
GetWithTreeForgotten ==
  All(query.clause \cup Search \cup UNION {Conditions(n) : n \in query.tree}
      \cup UNION {ParamConditions(p) : p \in Declared}
      \cup Undeleted(\E p \in Declared : \E q \in Given(p) : Mentions(q)))

Get ==
  All(query.clause \cup Search \cup UNION {Conditions(n) : n \in query.tree}
      \cup UNION {ParamConditions(p) : p \in Declared}
      \cup Undeleted(\/ \E p \in Declared : \E q \in Given(p) : Mentions(q)
                     \/ \E n \in query.tree : \E l \in Leaves(n) : l.col = Deletion))

\* The export looks a parameter up by its whole declaration, star included, and
\* has no where_clause, no ?filter= and, unless it is declared, no ?search=.
Exported ==
  LET known == {p \in Declared : ~p.star}
      conditions(p) ==
        UNION {Grouped("or", UNION {ExportLeaf(q.of[i][1], Canonical(q.of[i][2]), q.arg) : i \in DOMAIN q.of}) : q \in Given(p)} IN
  All(UNION {conditions(p) : p \in known}
      \cup Undeleted(\E p \in known : \E q \in Given(p) : Mentions(q)))

Answer(outcome, rows) == stage' = outcome /\ found' = rows /\ UNCHANGED query

Refuse ==
  /\ stage = "asked"
  /\ ~RequiredGiven \/ (query.via = "get" /\ \E n \in query.tree : ~Acceptable(n))
  /\ Answer("refused", {})

Read ==
  /\ stage = "asked" /\ query.via = "get"
  /\ RequiredGiven /\ \A n \in query.tree : Acceptable(n)
  /\ Answer("done", Get)

Export ==
  /\ stage = "asked" /\ query.via = "export"
  /\ RequiredGiven
  /\ Answer("done", Exported)

Next == Refuse \/ Read \/ Export

----------------------------------------------------------------------------
(* Properties *)

\* The operators as README 25.2 describes them.
Means(op, arg, x) ==
  LET named == {arg.vals[i] : i \in DOMAIN arg.vals} IN
  CASE op \in {"eq", "", "in"} -> x \in named
    [] op \in {"nin", "ne", "neq"} -> x # Null /\ x \notin named
    [] op \in {"isnull", "is"} -> (x = Null) = (arg.text \notin {"no", "NOT NULL"})
    [] op \in {"notnull", "isnotnull"} -> (x # Null) = (arg.text # "no")
    [] op = "between" -> x # Null /\ (\E v \in named : v <= x) /\ \E v \in named : x <= v
    [] op \in {"like", "ilike", "contains"} -> \E v \in named : x \in Parts[v]
    [] op \in {"nlike", "notlike"} -> x # Null /\ \A v \in named : x \notin Parts[v]
    [] op = "startswith" -> \E v \in named : x \in Starts[v]
    [] op = "endswith" -> \E v \in named : x \in Ends[v]
    [] OTHER -> x # Null /\ \A v \in named :
                  (v < x /\ op \in {"gt", "gte"}) \/ (x < v /\ op \in {"lt", "lte"}) \/ (x = v /\ op \in {"lte", "gte"})

RECURSIVE Wanted(_, _)
Wanted(n, r) ==
  CASE n.kind = "leaf" /\ n.arg.text = "null" -> (r[n.col] = Null) = (n.op \notin {"ne", "neq", "notnull", "isnotnull"})
    [] n.kind = "leaf" /\ n.arg.text # "null" -> Means(n.op, n.arg, r[n.col])
    [] n.kind = "or" -> \E i \in DOMAIN n.of : Wanted(n.of[i], r)
    [] OTHER -> \A i \in DOMAIN n.of : Wanted(n.of[i], r)

\* The words that the code takes for something else than they say: an `or` over
\* nothing, a range without two ends, NOT IN over no values, an empty value.
RECURSIVE Odd(_)
OddArg(op, arg) ==
  \/ op = "between" /\ ~(Len(arg.vals) = 2 /\ arg.vals[1] <= arg.vals[2])
  \/ op = "nin" /\ arg.vals = <<>>
  \/ arg.text = "empty"
Odd(n) ==
  IF n.kind = "leaf" THEN OddArg(n.op, n.arg)
  ELSE \/ n.kind = "or" /\ (n.of = <<>> \/ \E i \in DOMAIN n.of : Conditions(n.of[i]) = {})
       \/ \E i \in DOMAIN n.of : Odd(n.of[i])

OddParams == \E q \in query.params : \E i \in DOMAIN q.of : OddArg(q.of[i][2], q.arg)

Asked(r) ==
  /\ \A c \in query.clause : r \in c
  /\ \A n \in query.tree : Wanted(n, r)
  /\ \A p \in Declared : \A q \in Given(p) : \E i \in DOMAIN q.of : Means(q.of[i][2], q.arg, r[q.of[i][1]])
  /\ query.search # <<>> /\ (\E c \in SearchColumns : TypeOf[c] # "other") =>
       \E c \in SearchColumns : \/ TypeOf[c] = "text" /\ r[c] \in Parts[query.search[1]]
                                \/ TypeOf[c] = "number" /\ r[c] = query.search[1]

\* What the export reads as GET does.
Exportable ==
  /\ query.clause = {} /\ query.tree = {} /\ query.search = <<>>
  /\ \A q \in query.params : \A i \in DOMAIN q.of :
       q.of[i][2] \notin {"ne", "neq", "in", "nlike", "notlike", "ilike", "isnull", "notnull", "isnotnull",
                         "startswith", "endswith", "contains"}
  /\ \A p \in Declared : p.star => Given(p) = {}

\* README 25.2 and 17: the rows shown are those that satisfy the entity's where_clause,
\* every parameter and the whole filter tree, deleted ones only if a condition is
\* about deletion; conditions are about declared columns; and an export shows what
\* GET does, of an entity without where_clause and as far as it knows the operators.
ShownIsAsked ==
  stage = "done" =>
    LET named == \/ \E p \in Declared : \E q \in Given(p) : Mentions(q)
                 \/ \E n \in query.tree : \E l \in Leaves(n) : l.col = Deletion IN
    /\ query.via = "get" =>
         \A n \in query.tree : \A l \in Leaves(n) : l.col \in DeclaredColumns
    /\ (query.via = "get" \/ Exportable) /\ ~OddParams /\ (\A n \in query.tree : ~Odd(n)) =>
         found = {r \in Rows : Asked(r) /\ (named \/ r[Deletion] = Null)}

==============================================================================
