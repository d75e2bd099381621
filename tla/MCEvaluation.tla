---------------------------- MODULE MCEvaluation ----------------------------
(***************************************************************************)
(* An instance of Evaluation: small formulas; and parameters, trees and      *)
(* terms of queries.                                                        *)
(***************************************************************************)
EXTENDS Evaluation

\* Names of every scope: a quantity, a negative one, a text that is a number,
\* a word and a null; and the column itself, which a detail row has as well.
MCColumn == "qty"
Num(n) == <<"num", <<n, 1>>>>
MCLexed == ("seven" :> <<Num(7)>>) @@ ("word" :> <<<<"name", "", "word">>>>)
  @@ ("day" :> <<Num(2026), <<"op", "-">>, Num(9), <<"op", "-">>, Num(6)>>)
MCScopes ==
  [acc |-> ("total" :> <<"num", <<5, 2>>>>),
   item |-> ("qty" :> Num(3)) @@ ("back" :> Num(-2)) @@ ("note" :> <<"null">>),
   lookup |-> ("cost" :> <<"text", "seven">>) @@ ("total" :> <<"text", "word">>),
   new |-> ("note" :> Num(4)) @@ ("due" :> <<"text", "day">>),
   old |-> ("rate" :> Num(2)),
   request |-> ("rate" :> Num(9))]

Plain ==
  {Num(2), Num(0), <<"name", "", "qty">>, <<"name", "item", "qty">>, <<"name", "", "ghost">>,
   <<"token", "item", "back", <<>>>>, <<"token", "", "note", <<>>>>, <<"token", "", "total", <<>>>>,
   <<"token", "parent", "rate", <<>>>>, <<"token", "parent", "due", <<>>>>}
Defaulted ==
  {<<"token", "item", "ghost", <<Num(1)>>>>,
   <<"if", ">=", <<"name", "item", "qty">>, Num(3), "seven", "word">>}
Few == {Num(0), <<"name", "", "qty">>, <<"token", "item", "back", <<>>>>, <<"token", "", "note", <<>>>>}
Signs == {"-", "/", "*"}
Trees(leaves) ==
  leaves
    \cup {<<o, l, r>> : o \in Signs \cup {"+", "%"}, l \in leaves, r \in leaves}
    \cup {<<o, <<p, a, b>>, c>> : o \in Signs, p \in Signs, a \in Few, b \in Few, c \in Few}
    \cup {<<o, a, <<p, b, c>>>> : o \in Signs, p \in Signs, a \in Few, b \in Few, c \in Few}
    \cup {<<"neg", <<o, l, r>>>> : o \in Signs, l \in Few, r \in Few}
    \cup {<<"call", f, <<"/", l, Num(3)>>, Num(1)>> : f \in {"round", "min", "max", "floor"}, l \in Few}
\* A {calc:} holds no default and no {if:} of its own.
MCFormulas == [calc : {TRUE}, tree : Trees(Plain)] \cup [calc : {FALSE}, tree : Trees(Plain \cup Defaulted)]
MCCurrents == {Num(8), <<"text", "word">>}
MCMin == <<0, 1>>

\* Filters, trees and terms over three rows.
MCRows == [a : {1, 2, 12, Null}, b : {1, 2}, deleted_at : {1, Null}]
MCStarts == (0 :> {}) @@ (1 :> {1, 12}) @@ (2 :> {2}) @@ (12 :> {12})
MCEnds == (0 :> {}) @@ (1 :> {1}) @@ (2 :> {2, 12}) @@ (12 :> {12})
MCParts == (0 :> {}) @@ (1 :> {1, 12}) @@ (2 :> {2, 12}) @@ (12 :> {12})
MCTypeOf == [a |-> "text", b |-> "number", deleted_at |-> "other"]

List(vals) == [text |-> "list", vals |-> vals]
Text(t) == [text |-> t, vals |-> <<>>]
LeafOf(c, o, arg) == [kind |-> "leaf", col |-> c, op |-> o, arg |-> arg]
Group(k, of) == [kind |-> k, of |-> of]
Ops == {"eq", "", "ne", "neq", "lt", "lte", "gt", "gte", "like", "ilike", "nlike", "notlike", "startswith", "endswith", "contains"}
Conds == {<<c, o, List(<<v>>)>> : c \in {"a", "b"}, o \in Ops, v \in {1, 2}}
 \cup {<<"a", o, List(vs)>> : o \in {"eq", "in", "nin", "between"}, vs \in {<<>>, <<1>>, <<1, 2>>, <<12, 2>>, <<2,12,1>>}}
 \cup {<<c, "is", Text(t)>> : c \in {"a", "deleted_at"}, t \in {"NULL", "NOT NULL"}}
 \cup {<<c, o, Text(t)>> : c \in {"a", "deleted_at"}, o \in {"isnull", "notnull", "isnotnull"}, t \in {"empty", "no", "null"}}
 \cup {<<"a", o, Text(t)>> : o \in {"eq", "ne", "lt"}, t \in {"empty", "null"}}
Decl(c, star) == [of |-> <<<<c[1], c[2]>>>>, star |-> star]
Named(c) == [of |-> <<<<c[1], c[2]>>>>, arg |-> c[3]]
Either == <<<<"a", "eq">>, <<"b", "lt">>>>
Where(via, clause, declared, params, tree, search) ==
  [via |-> via, clause |-> clause, declared |-> declared, params |-> params, tree |-> tree, search |-> search]
Query(via, declared, params, tree, search) == Where(via, {}, declared, params, tree, search)
\* get.where_clause: ["b = 1"] and ["b = 1", "a IS NOT NULL"].
First == {r \in MCRows : r.b = 1}
Clauses == {{First}, {First, {r \in MCRows : r.a # Null}}}
Base == {[of |-> <<<<"b", "eq">>>>, star |-> FALSE], [of |-> <<<<"deleted_at", "isnull">>>>, star |-> FALSE]}
ParamQueries ==
  {Query(via, Base \cup {Decl(c, star)}, {Named(c)}, {}, <<>>) : via \in {"get", "export"}, star \in BOOLEAN, c \in {d \in Conds : d[3].text # "null"}}
  \cup {Query(via, Base \cup {[of |-> Either, star |-> FALSE]}, {[of |-> Either, arg |-> g], Named(<<"b", "eq", List(<<v>>)>>)}, {}, s) :
        via \in {"get", "export"}, g \in {List(<<2>>), List(<<1, 2>>), Text("empty")}, v \in {1, 2}, s \in {<<>>, <<1>>, <<2>>}}
Only(c) == LeafOf(c[1], c[2], c[3])
FilterTrees ==
  LET l == Only(<<"a", "eq", List(<<1>>)>>)
      k == Only(<<"b", "lt", List(<<2>>)>>)
      e == Group("object", <<Group("or", <<>>)>>)
      x == Group("object", <<l, k>>) 
      some == {Group("object", <<l>>), Group("object", <<k>>), e, x, Group("object", <<>>),
               Group("list", <<Group("object", <<k>>), Group("object", <<l>>)>>)} IN
  {Group("object", <<Only(c)>>) : c \in Conds}
  \cup {Group("object", <<Group(kind, <<m, n>>)>>) : kind \in {"and", "or"}, m, n \in some}
  \cup {Group("object", <<Group("or", <<m>>), Only(c)>>) : m \in some, c \in {<<"a", "like", List(<<2>>)>>, <<"deleted_at", "is", Text("NOT NULL")>>, <<"c", "eq", List(<<1>>)>>, <<"a", "equals", List(<<1>>)>>}}
MCQueries == ParamQueries \cup
  {Query("get", Base \cup {[of |-> <<<<"a", "like">>>>, star |-> FALSE]}, ps, {t}, <<>>) : t \in FilterTrees, ps \in {{}, {Named(<<"b", "eq", List(<<1>>)>>)}}}
  \cup {Where(via, k, Base \cup {Decl(c, FALSE)}, {Named(c)}, {}, s) :
        via \in {"get", "export"}, k \in Clauses, c \in {d \in Conds : d[1] = "a" /\ d[3].text = "list"}, s \in {<<>>, <<2>>}}

===============================================================================
