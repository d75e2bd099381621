------------------------------ MODULE MCServices ------------------------------
(***************************************************************************)
(* An instance of Services: three configurations of the entity `order`,     *)
(* whose rules and switches differ; every kind of column; files of two and  *)
(* three rows over a table whose ids reach the width of their padding;      *)
(* tables of a few rows with ties to page through; a customer whose          *)
(* addresses cascade, whose notes are detached and whose invoices restrict   *)
(* its deletion; a sound configuration with up to two slips for the lint;    *)
(* tool calls under two reloads; three configurations whose tables are       *)
(* generated on five dialects; and two orders that ship, are returned or      *)
(* deleted (README 10) and need the same two lots, one of which is short,     *)
(* with the detail rows of the second in the other order.                    *)
(***************************************************************************)
EXTENDS Services

CONSTANTS c1, c2, address, note, invoice, memo, lotA, lotB, w1, w2, w3

Rule(match, allows) == [match |-> match, allows |-> allows]
Allow(verb, cond, fields) == [method |-> verb, if |-> cond, fields |-> fields]
Orders == <<"entity", "order">>
Order == <<"entity", "order", "id">>
AnyOrder == <<"entity", "order", Param>>
Anyone == {{}}
Clerk == {{<<"$user.role", "clerk">>}}
ClerkSelf == {{<<"$user.role", "clerk">>, <<"$user.id", "7">>}, {<<"$user.role", "boss">>}}

MCRules ==
  << << Rule(Orders, <<Allow("POST", Anyone, {"name"}), Allow("GET", Clerk, {"name"})>>),
        Rule(AnyOrder, <<Allow("PUT", Anyone, {"name"}), Allow("PATCH", Clerk, {}), Allow("DELETE", ClerkSelf, {})>>) >>,
     << Rule(<<"entity", Param>>, <<Allow("POST", Clerk, {"name", "price"}), Allow("GET", Anyone, {})>>),
        Rule(Orders, <<Allow("POST", Anyone, {})>>),
        Rule(AnyOrder, <<Allow("PUT", Clerk, {}), Allow("DELETE", Anyone, {})>>) >>,
     << Rule(Orders, <<Allow("POST", Anyone, {}), Allow("GET", ClerkSelf, {"price"})>>),
        Rule(AnyOrder, <<Allow("PUT", ClerkSelf, {"price", "name"}), Allow("PATCH", Anyone, {"price"})>>) >> >>

Required == [create |-> {"name"}, update |-> {}, procedure |-> {}, read |-> {}]
MCSchemas ==
  << [enabled |-> {"post", "put", "del", "patch", "get"}, table |-> TRUE, required |-> Required],
     [enabled |-> {"post", "put", "patch", "get"}, table |-> TRUE, required |-> [Required EXCEPT !.update = {"name"}]],
     [enabled |-> {"post", "del", "get"}, table |-> FALSE, required |-> Required] >>

MCCallers ==
  {[id |-> "7", roles |-> {"clerk"}], [id |-> "8", roles |-> {"clerk"}],
   [id |-> "9", roles |-> {"boss", "clerk"}], [id |-> "10", roles |-> {}]}

Ask(service, verb, path, cols) == [service |-> service, method |-> verb, path |-> path, columns |-> cols]
Bodies == {{}, {"name"}, {"name", "price"}}
MCCalls ==
  {Ask("create", "POST", Orders, b) : b \in Bodies}
  \cup {Ask("update", verb, Order, b) : verb \in {"PUT", "PATCH"}, b \in Bodies}
  \cup {Ask("delete", "DELETE", Order, {}), Ask("procedure", "PATCH", Orders, {}),
        Ask("read", "GET", Orders, {"name", "price"})}

Json(type, text) == [json |-> type, text |-> text, padded |-> FALSE]
Long == "0.10000000000000001" \* no f64
Tenth == "0.1"
MCDouble == [t \in {"7", "1", Tenth, Long} |-> IF t = Long THEN Tenth ELSE t]
MCValues ==
  {Json("absent", ""), Json("null", ""), Json("string", ""), Json("string", "null"), Json("string", "7"),
   Json("number", "7"), Json("number", "1"), Json("number", Tenth), Json("string", Long), Json("bool", "true"),
   Json("string", "yes"), Json("string", "word"), Json("string", "2024-01-31")}
  \cup [json : {"string"}, text : {"", "7", "word", "2024-01-31"}, padded : {TRUE}]
MCColumns ==
  [kind : {"int", "float", "decimal", "bool", "date", "text"}, nullable : BOOLEAN, default : BOOLEAN, star : BOOLEAN,
   admits : {MCValues, {Json("number", "7"), Json("string", "word")}}]

Line(id, ref) == [id |-> id, ref |-> ref]
MCFiles ==
  {<<Line(0, TRUE), Line(0, TRUE), Line(0, TRUE)>>, <<Line(0, TRUE), Line(9, TRUE)>>,
   <<Line(0, TRUE), Line(0, TRUE), Line(0, FALSE)>>}

Token(col, asc) == [col |-> col, asc |-> asc]
NoOrder == <<>>
Paged(how, sort, limit, shows) == [mode |-> how, sort |-> sort, limit |-> limit, showsKey |-> shows]
Up == Token("key", TRUE)
MCAsks ==
  {Paged("after", s, l, TRUE) : s \in {<<>>, <<Up>>, <<Up, Token("id", FALSE)>>}, l \in {0, 1}}
  \cup {Paged("after", <<Token("key", FALSE)>>, 0, TRUE), Paged("after", <<Up, Token("id", TRUE)>>, 9, FALSE),
        Paged("after", <<Token("alias", TRUE), Token("id", FALSE)>>, 0, FALSE), Paged("page", <<Token("key", FALSE)>>, 0, TRUE)}
  \cup {Paged("page", <<Up, Token("id", TRUE)>>, l, TRUE) : l \in {0, 1}}
Stored(k) == [key |-> k, live |-> TRUE]
Gone == [key |-> 1, live |-> FALSE]
MCTables ==
  {<<Stored(1), Stored(1), Stored(2), Stored(1)>>, <<Stored(2), Stored(Null), Stored(1), Gone>>,
   <<Stored(1), Stored(2), Stored(1), Stored(2)>>}

MCChildTable == (address :> "addresses") @@ (note :> "notes") @@ (invoice :> "invoices") @@ (memo :> "invoices")
MCRefs ==
  <<[table |-> "addresses", action |-> "cascade", type_delete |-> "soft"],
    [table |-> "notes", action |-> "no action", type_delete |-> ""],
    [table |-> "notes", action |-> "set null", type_delete |-> ""],
    [table |-> "invoices", action |-> "restrict", type_delete |-> ""],
    [table |-> "addresses", action |-> "cascade", type_delete |-> "hard"]>>
MCAdds ==
  {[child |-> memo, parent |-> c1, checked |-> TRUE]}

\* Orders with items and customers, with up to two of the slips of an author.
R0(col) == [q |-> "", col |-> col]
Q(q, col) == [q |-> q, col |-> col]
Entity(name, cols) ==
  [table |-> name, columns |-> cols, pk |-> {"id"}, indexed |-> {}, search |-> {}, inputs |-> {}, fks |-> {},
   get |-> {R0("id")}, order |-> {}, params |-> {[ref |-> R0("id"), op |-> "eq"]}, joins |-> {}, post |-> {}, put |-> {}, details |-> {},
   raw |-> {}, joined |-> {}, indexes |-> {}, twice |-> {}, bare |-> {}, except |-> {},
   triggers |-> {}, state |-> {}, locked |-> {}, webhooks |-> {}, unknown |-> {}]
Detail(target, fk, cols) == [field |-> "lines", target |-> target, fk |-> fk, columns |-> cols, parent |-> "id"]
Trigger(event, field, actions) == [event |-> event, field |-> field, actions |-> actions]
Act(type, parts, t, cols) == [type |-> type, parts |-> parts, table |-> t, cols |-> cols]
Setting == {"filter", "set"}
OrderEntity ==
  [Entity("trx_order", {"id", "code", "status", "customer_id", "version"}) EXCEPT
     !.indexed = {"code", "customer_id"}, !.search = {"code"}, !.inputs = {"branch"},
     !.fks = {[column |-> "customer_id", table |-> "customer", ref |-> "id"]},
     !.get = {R0("code"), Q("customer", "name")}, !.joins = {"customer"}, !.order = {R0("code")},
     !.params = {[ref |-> R0("code"), op |-> "eq"]},
     !.post = {R0("code"), R0("branch")}, !.put = {R0("status")},
     !.details = {Detail("item", "order_id", {"qty"})},
     !.raw = {R0("status")}, !.joined = {"name"}, !.indexes = {"ix_code"}, !.except = {"status"},
     !.triggers = {Trigger("update", "status", {Act("update", Setting, "customer", {"id", "name"}),
                                                Act("iterate_detail", {}, "item", {"order_id"})})},
     !.state = {"status"}, !.locked = {"status"}, !.webhooks = {[ok |-> TRUE]}]
Sound ==
  [routes |-> <<"order", "customer", "item">>,
   entity |-> ("order" :> OrderEntity) @@ ("customer" :> Entity("customer", {"id", "name", "tier"}))
                @@ ("item" :> Entity("item", {"id", "order_id", "qty"}))]

Slips == 1..37
Slip(n, c) ==
  CASE n = 1 -> [c EXCEPT !.entity["order"].get = @ \cup {R0("ghost")}]
    [] n = 2 -> [c EXCEPT !.entity["order"].get = @ \cup {Q("item", "qty")}]
    [] n = 3 -> [c EXCEPT !.entity["order"].get = @ \cup {Q("order", "code")}]
    [] n = 4 -> [c EXCEPT !.entity["order"].get = @ \cup {Q("customer", "ghost")}]
    [] n = 5 -> [c EXCEPT !.entity["order"].order = {R0("ghost")}]
    [] n = 6 -> [c EXCEPT !.entity["order"].params = {[ref |-> R0("status"), op |-> "eq"]}]
    [] n = 7 -> [c EXCEPT !.entity["order"].params = {[ref |-> R0("code"), op |-> "is"]}]
    [] n = 8 -> [c EXCEPT !.entity["order"].post = @ \cup {R0("ghost")}]
    [] n = 9 -> [c EXCEPT !.entity["order"].inputs = {}]
    [] n = 10 -> [c EXCEPT !.entity["item"].table = "trx_item"]
    [] n = 11 -> [c EXCEPT !.entity["order"].details = {Detail("trx_item", "order_id", {})}]
    [] n = 12 -> [c EXCEPT !.entity["order"].details = {Detail("item", "ghost", {})}]
    [] n = 13 -> [c EXCEPT !.entity["order"].details = {Detail("nowhere", "order_id", {})}]
    [] n = 14 -> [c EXCEPT !.entity["order"].triggers = {Trigger("update", "", {Act("insert", {"fields"}, "order", {"code"})})}]
    [] n = 15 -> [c EXCEPT !.entity["order"].triggers = {Trigger("updated", "", {Act("insert_batch", {}, "ledger", {"debit"})})}]
    [] n = 16 -> [c EXCEPT !.entity["order"].fks = {[column |-> "customer_id", table |-> "customer", ref |-> "code"]}]
    [] n = 17 -> [c EXCEPT !.entity["customer"].columns = {"id"}]
    [] n = 18 -> [c EXCEPT !.entity["customer"].table = "trx_order"]
    [] n = 19 -> [c EXCEPT !.entity["order"].columns = @ \ {"version", "status"}]
    [] n = 20 -> [c EXCEPT !.routes = <<"order", "item", "ledger">>]
    [] n = 21 -> [c EXCEPT !.entity["order"].joins = {}]
    [] n = 22 -> [c EXCEPT !.entity["customer"].table = "", !.entity["item"].pk = {"drop table"}]
    [] n = 23 -> [c EXCEPT !.entity["item"].unknown = {"trigers"}, !.entity["order"].search = {"ghost"}]
    [] n = 25 -> [c EXCEPT !.entity["item"].params = {}]
    [] n = 26 -> [c EXCEPT !.entity["order"].order = {R0("status")}]
    [] n = 27 -> [c EXCEPT !.entity["order"].post = @ \cup {Q("customer", "name")}]
    [] n = 28 -> [c EXCEPT !.entity["order"].put = @ \cup {R0("branch")}]
    [] n = 29 -> [c EXCEPT !.entity["item"].table = "order",
                           !.entity["order"].fks = {[column |-> "customer_id", table |-> "order", ref |-> "code"]}]
    [] n = 30 -> [c EXCEPT !.entity["order"].triggers = {Trigger("create", "", {Act("update", Setting, "item", {"ghost"})})}]
    [] n = 31 -> [c EXCEPT !.entity["order"].triggers = {Trigger("delete", "", {Act("update", {"set"}, "item", {"qty"})})}]
    [] n = 32 -> [c EXCEPT !.entity["order"].triggers = {Trigger("update", "", {Act("iterate_detail", {}, "item", {}),
                                                                              Act("transfer", {}, "", {})})}]
    [] n = 33 -> [c EXCEPT !.entity["order"].get = @ \cup {Q(Expr, "ghost")}]
    [] n = 34 -> [c EXCEPT !.entity["order"].raw = {R0("ghost")}, !.entity["order"].order = {Q("customer", "tier")}]
    [] n = 35 -> [c EXCEPT !.entity["order"].except = {"ghost"}, !.entity["item"].bare = {"qty"}]
    [] n = 36 -> [c EXCEPT !.entity["order"].details = {[d EXCEPT !.field = ""] : d \in @}]
    [] n = 37 -> [c EXCEPT !.entity["item"].twice = {"qty"}, !.entity["item"].indexes = {"drop table"}]
    [] n = 24 -> [c EXCEPT !.entity["order"].webhooks = {[ok |-> FALSE]}, !.entity["item"].columns = @ \cup {"drop table"}]
MCConfigs == {Sound} \cup {Slip(n, Sound) : n \in Slips} \cup {Slip(m, Slip(n, Sound)) : m \in Slips, n \in Slips}

\* Two reloads that change switches, rules and declared parameters.
Can(ops, params) == [enabled |-> ops, declared |-> params]
Full == {"read", "create", "update", "delete", "run_procedure"}
OneOrder == <<"order", Param>>
ToolRules ==
  << Rule(<<"order">>, <<Allow("GET", Clerk, {}), Allow("POST", Anyone, {}), Allow("PATCH", ClerkSelf, {})>>),
     Rule(<<"order", "5">>, <<Allow("DELETE", {}, {}), Allow("PUT", Anyone, {})>>),
     Rule(OneOrder, <<Allow("PUT", {{<<"$user.role", "boss">>}}, {}), Allow("PATCH", Clerk, {}), Allow("DELETE", Clerk, {})>>),
     Rule(<<"validate", Param>>, <<Allow("GET", Anyone, {})>>) >>
Entities(order) ==
  ("order" :> order) @@ ("flx_users" :> Can(Full, {})) @@ ("news" :> Can({"read"}, {}))
MCWorlds ==
  << [rules |-> ToolRules, entity |-> Entities(Can(Full, {"limit", "code.eq"}))],
     [rules |-> Tail(ToolRules), entity |-> Entities(Can({"read", "update"}, {"code.eq"}))],
     [rules |-> <<ToolRules[1], ToolRules[3]>>, entity |-> ("order" :> Can(Full, {"limit"}))] >>
MCHolder == [id |-> "8", roles |-> {"clerk"}]

ToolCall(op, entity, id) ==
  [op |-> op, entity |-> entity, id |-> id, data |-> {"code", "token"}, params |-> {}, nulls |-> {}, limit |-> 0]
MCCut == "5?x" :> "5"
Reading(entity, params, n) == [ToolCall("read", entity, "") EXCEPT !.params = params, !.limit = n]
MCToolCalls ==
  {ToolCall(op, "order", id) : op \in {"update", "patch", "delete"}, id \in {"", "5", "7"}}
  \cup {ToolCall("update", "order", "5?x"), ToolCall("delete", "order", "5?x"), ToolCall("update", "order", "5 x")}
  \cup {ToolCall(op, e, "") : op \in {"create", "run_procedure", "validate", "read"}, e \in {"order", "flx_users"}}
  \cup {[ToolCall("create", "order", "") EXCEPT !.data = {}], ToolCall("create", "news", ""), ToolCall("create", "order", "7"), ToolCall("read", "ghost", "")}
  \cup {[Reading(e, {"limit", "code.eq"}, 3) EXCEPT !.nulls = n] : e \in {"order", "news"}, n \in {{}, {"code.eq"}}}

\* A child named before its parent, a column that comes with an index of its
\* own, an index name that two tables give, a core table whose types two dialects
\* lack, and a table made by hand: all pass the lint.
Generate(route, name, cols) ==
  [route |-> route, table |-> name, core |-> FALSE, auto |-> TRUE, columns |-> {"id"} \cup cols,
   pk |-> {"id"}, indexes |-> {}, keys |-> {}, search |-> {},
   types |-> {"postgres", "mysql", "sqlite", "mssql"}]
On(name, col) == [name |-> name, columns |-> {col}]
AccountTable ==
  [Generate("flx_users", <<"flx_users">>, {"email"}) EXCEPT !.core = TRUE, !.auto = FALSE,
     !.types = {"mysql", "sqlite"}, !.indexes = {On(<<"email">>, "email")}]
OldOrder ==
  [Generate("order", <<"order">>, {"code"}) EXCEPT !.indexes = {On(<<"line", "code">>, "code"), On(<<"pk">>, "id")}]
NewOrder ==
  [OldOrder EXCEPT !.columns = @ \cup {"note"}, !.indexes = {On(<<"order", "note">>, "note")}, !.search = {"code"}]
LineTable ==
  [Generate("line", <<"order", "line">>, {"order_id", "code"}) EXCEPT
     !.indexes = {On(<<"code">>, "code")}, !.keys = {[column |-> "order_id", ref |-> <<"order">>]}]
MCDesigns == << <<OldOrder>>, <<AccountTable, LineTable, OldOrder>>, <<NewOrder, LineTable>>,
   <<[OldOrder EXCEPT !.auto = FALSE]>> >>
MCOutbox == <<"flx_outbox">>
MCOwn == <<[Generate("flx_outbox", MCOutbox, {"status"}) EXCEPT !.indexes = {On(<<"status">>, "status")}]>>

MCStatuses == {"draft", "shipped", "returned"}
Row(key, p, n) == [key |-> key, product |-> p, qty |-> n]
MCLines ==
  [none |-> <<>>, first |-> <<Row(1, lotA, 2), Row(2, lotB, 1)>>, \* ids 9 and 10 of the second, "10" being before "9"
   second |-> <<Row(2, lotA, 2), Row(1, lotB, 1)>>, other |-> <<Row(1, lotB, 2)>>]
MCLines0 == <<"first", "second">>
MCTotals == <<4, 4>>
MCCost == (lotA :> 1) @@ (lotB :> 2)
MCStock == (lotA :> 3) @@ (lotB :> 2)

Action(type) == [type |-> type, when |-> {}]
Deduct(sign) == [type |-> "update", when |-> {}, sign |-> sign]
Iterates(actions) == [type |-> "iterate_detail", when |-> {}, actions |-> actions]
From(from, to) == {[from |-> from, to |-> to]}
ShipActions ==
  <<Iterates(<<[type |-> "lookup", when |-> {}, optional |-> FALSE], Deduct(-1), Action("accumulate")>>),
    Action("insert"), Action("insert_batch")>>
TakeBack == <<[Iterates(<<Deduct(1)>>) EXCEPT !.when = From({"shipped"}, {"returned", "gone"})]>>
MCTriggers ==
  <<[event |-> "update", when |-> From({"draft"}, {"shipped"}), actions |-> ShipActions],
    [event |-> "status_change", when |-> {}, actions |-> TakeBack],
    [event |-> "delete", when |-> From({"shipped"}, MCStatuses \cup {"gone"}), actions |-> TakeBack]>>

T == INSTANCE TriggerPlans WITH ActionTriggers <- MCTriggers
MCPlans == T!AllPlans

Put(d, s, rows) == [op |-> "put", doc |-> d, status |-> s, lines |-> rows]
Requested ==
  <<Put(1, "shipped", "keep"), Put(2, "shipped", "keep"), Put(1, "returned", "other"),
    [op |-> "delete", doc |-> 1, status |-> "gone", lines |-> "keep"]>>
\* The requests are alike: one order of what they ask is enough.
MCWanted ==
  {[r \in Reqs |-> Requested[n[r]]] : n \in {n \in [Reqs -> DOMAIN Requested] : n[w1] <= n[w2] /\ n[w2] <= n[w3]}}

Interchangeable == Permutations(Replicas)

===============================================================================
