------------------------------ MODULE ConfigLint ------------------------------
(***************************************************************************)
(* The lint of the configuration at boot (validate.rs, startup/mod.rs), and *)
(* what the statements of a request then make of the names it let pass.     *)
(* A reference to a column is [q, col]: its qualifier, or "", and its name; *)
(* inside an expression, the qualifier is Expr.                             *)
(***************************************************************************)
EXTENDS FiniteSets, Sequences, SequencesExt

CONSTANTS
  Configs,    \* [routes: sequence, entity: route -> schema]
  Malformed,  \* names that are no SQL identifiers
  Operators,  \* operators of GET parameters
  Events,     \* events of triggers
  Expr        \* the qualifier of a column that an expression names

VARIABLES
  config, lintMode,
  report,     \* set of [level, route, about]
  phase,      \* boot, refused, or serving
  stmt, outcome \* the statement that was run, and how it ended

vars == <<config, lintMode, report, phase, stmt, outcome>>

\* Names are strings, and a configuration has a finite number of files.
ConfigLintAssumption ==
  /\ Expr # ""
  /\ \A cfg \in Configs :
       cfg.routes \in Seq(STRING) /\ DOMAIN cfg.entity \subseteq STRING /\ IsFiniteSet(DOMAIN cfg.entity)

NoRef == [q |-> "", col |-> ""]
NoStatement == [kind |-> "none", route |-> "", ref |-> NoRef]

\* Listed routes first, then the entities no route lists.
Order(cfg) == cfg.routes \o SetToSeq(DOMAIN cfg.entity \ ToSet(cfg.routes))

\* The table map: of the entities that declare a table, the first.
Owner(cfg, table) ==
  SelectInSeq(Order(cfg), LAMBDA r : r \in DOMAIN cfg.entity /\ cfg.entity[r].table = table)

Loaded(cfg, name) == name \in DOMAIN cfg.entity \/ Owner(cfg, name) # 0

\* find_schema: a name is a route first, then a table.
SchemaOf(cfg, name) ==
  IF name \in DOMAIN cfg.entity THEN cfg.entity[name] ELSE cfg.entity[Order(cfg)[Owner(cfg, name)]]

----------------------------------------------------------------------------
(* lint_schemas *)

\* resolve: of the entity itself, or of a loaded entity, joined or not; a joined
\* table that is not loaded has any column.  An expression is not looked into.
Resolved(cfg, r, ref) ==
  LET s == cfg.entity[r] IN
  CASE ref.q = Expr -> "ok"
    [] ref.q \in {"", s.table, r} -> IF ref.col \in s.columns THEN "ok" ELSE "missing"
    [] ref.q \notin {Expr, "", s.table, r} /\ Loaded(cfg, ref.q) ->
         IF ref.col \in SchemaOf(cfg, ref.q).columns THEN "ok" ELSE "unknown"
    [] OTHER -> IF ref.q \in s.joins THEN "ok" ELSE "unknown"

Local(cols) == {[q |-> "", col |-> c] : c \in cols}

\* Mutant: an input nobody reads is let pass too.
RequestInputUnread(s, ref) == ref.col \notin s.columns

\* is_request_input: it is no column, and a generator reads {request.<name>}.
RequestInput(s, ref) == ref.q = "" /\ ref.col \notin s.columns /\ ref.col \in s.inputs

\* What check_col is asked.
Checked(s) ==
  Local(s.pk) \cup Local({fk.column : fk \in s.fks}) \cup Local(s.indexed)
    \cup s.get \cup s.order \cup {p.ref : p \in s.params}
    \cup {ref \in s.post \cup s.put : ~RequestInput(s, ref)}

\* target_table and detail_table of the actions, nested ones too.
Actions(s) == UNION {t.actions : t \in s.triggers}
TriggerTargets(s) == {a.table : a \in Actions(s)} \ {""}

\* check_identifier: every name that is spliced into SQL.
Names(s) ==
  {s.table} \cup s.columns \cup s.pk \cup s.indexed \cup s.indexes
    \cup UNION {{fk.column, fk.table, fk.ref} : fk \in s.fks}
    \cup UNION {{d.target, d.fk, d.parent} \ {""} : d \in s.details}
    \cup TriggerTargets(s)

\* is_valid_identifier
Identifier(name) == name \notin Malformed

Error(about, S) == {<<"error", about>> : x \in S}
Warning(about, S) == {<<"warning", about>> : x \in S}

ColumnProblems(cfg, r) ==
  LET refs(how) == {ref \in Checked(cfg.entity[r]) : Resolved(cfg, r, ref) = how}
  IN Error("missing column", refs("missing")) \cup Warning("unknown column", refs("unknown"))

\* Of the table itself: joined ones are not judged.
Unindexed(s, r) ==
  {ref \in {p.ref : p \in s.params} \cup s.order :
     ref.q \in {"", s.table, r} /\ ref.col \in s.columns \ (s.pk \cup s.indexed)}

ParameterProblems(s) ==
  Error("operator", {p \in s.params : p.op \notin Operators})
    \cup Warning("no parameters", IF s.params = {} THEN {s} ELSE {})

TriggerProblems(cfg, s) ==
  Error("event", {t \in s.triggers : t.event \notin Events})
    \cup Warning("condition", {t \in s.triggers : t.field \notin s.columns \cup {""}})
    \cup Warning("target", {n \in TriggerTargets(s) : ~Loaded(cfg, n)})

ReferenceProblems(cfg, s) ==
  Warning("reference",
    {fk \in s.fks : ~Loaded(cfg, fk.table) \/ fk.ref \notin SchemaOf(cfg, fk.table).columns})

DetailProblems(cfg, s) ==
  LET lost == {d \in s.details : d.target = "" \/ ~Loaded(cfg, d.target)}
      column(d) == ({d.fk} \cup d.columns) \ SchemaOf(cfg, d.target).columns
  IN Error("detail target", lost)
     \cup Error("detail column", UNION {column(d) : d \in s.details \ lost})
     \cup Error("detail parent", {d.parent : d \in s.details \ lost} \ (s.columns \cup {""}))

StateProblems(s) ==
  Error("state", s.state \ s.columns) \cup Error("locked", s.locked \ s.columns)

\* Warned of: what locked_when excepts is no column.
ExceptProblems(s) == Warning("except", s.except \ s.columns)

\* A name declared twice; a default of a text column without quotes.
DeclarationProblems(s) == Error("duplicate", s.twice) \cup Warning("default", s.bare)

Versionless(s) == IF "version" \in s.columns THEN {} ELSE s.state \cup s.locked

\* On PostgreSQL.
SearchProblems(s) == Error("search", s.search \ s.columns)

WebhookProblems(s) == Error("webhook", {w \in s.webhooks : ~w.ok})

UnknownKeys(s) == Warning("key", s.unknown)

Problems(cfg, r) ==
  LET s == cfg.entity[r]
  IN Error("identifier", {n \in Names(s) : ~Identifier(n)}) \cup Warning("version", Versionless(s))
     \cup ColumnProblems(cfg, r) \cup Warning("index", Unindexed(s, r)) \cup SearchProblems(s)
     \cup ParameterProblems(s) \cup TriggerProblems(cfg, s) \cup ReferenceProblems(cfg, s)
     \cup DetailProblems(cfg, s) \cup StateProblems(s) \cup ExceptProblems(s) \cup DeclarationProblems(s)
     \cup WebhookProblems(s) \cup UnknownKeys(s)

TableTwice(cfg) ==
  {r \in DOMAIN cfg.entity :
     LET order == Order(cfg)
         at == SelectInSeq(order, LAMBDA x : x = r)
     IN cfg.entity[r].table # "" /\ Owner(cfg, cfg.entity[r].table) < at}

Lint(cfg) ==
  LET listed == ToSet(cfg.routes)
      of(r, problems) == {[level |-> p[1], route |-> r, about |-> p[2]] : p \in problems}
      lintOne(r) == IF cfg.entity[r].table = "" THEN Error("no table", {r}) ELSE Problems(cfg, r)
  IN UNION ({of(r, Error("table twice", {r})) : r \in TableTwice(cfg)}
            \cup {of(r, Error("no schema", {r})) : r \in listed \ DOMAIN cfg.entity}
            \cup {of(r, lintOne(r)) : r \in DOMAIN cfg.entity})

----------------------------------------------------------------------------
(* Boot, and the requests after it *)

\* CONFIG_LINT
Modes == {"strict", "warn", "off"}

Init ==
  /\ config \in Configs /\ lintMode \in Modes
  /\ report = {} /\ phase = "boot"
  /\ stmt = NoStatement /\ outcome = "none"

Errors(rep) == {p \in rep : p.level = "error"}

\* run_config_lint: only the errors of a strict lint keep it from serving.
Boot ==
  /\ phase = "boot"
  /\ report' = IF lintMode = "off" THEN {} ELSE Lint(config)
  /\ phase' = IF lintMode = "strict" /\ Errors(report') # {} THEN "refused" ELSE "serving"
  /\ UNCHANGED <<config, lintMode, stmt, outcome>>

\* Tables of the database: those of the entities; any other may exist outside.
IsTable(t) == \E r \in DOMAIN config.entity : config.entity[r].table = t
ColumnsOf(t) == UNION {config.entity[r].columns : r \in {x \in DOMAIN config.entity : config.entity[x].table = t}}
InTable(t, col) == IsTable(t) => col \in ColumnsOf(t)

\* A name that stands for a table in a statement: an entity's route does not.
TableExists(t) == IsTable(t) \/ t \notin DOMAIN config.entity

\* What execute_action asks of an action of each type, sub-actions included.
Needs ==
  [lookup |-> {"table", "filter"}, accumulate |-> {}, iterate_detail |-> {"table"},
   update |-> {"table", "filter", "set"}, insert |-> {"table", "fields"},
   insert_batch |-> {"table"}, sql |-> {"statement"}]

Executable(a) ==
  a.type \in DOMAIN Needs /\ Needs[a.type] \ {"table"} \subseteq a.parts /\ ("table" \in Needs[a.type] => a.table # "")

\* What filter, set, fields, rows and the text of a statement name; iterate_detail
\* has a default.
ActionColumns(a) == IF a.type = "iterate_detail" /\ a.cols = {} THEN {"sales_order_id"} ELSE a.cols

\* Its table ("" for the column), and its columns.
ActionRefs(a) == {[q |-> a.table, col |-> col] : col \in ActionColumns(a) \cup {""}}
OnTables(s) == {a \in Actions(s) : Executable(a) /\ a.table # ""}
TriggerRefs(s) == UNION {ActionRefs(a) : a \in OnTables(s)}

\* What a request runs of each declaration.  raw: where_clause, having, groups and
\* the conditions of joins.
Statements(r) ==
  LET s == config.entity[r]
      all(kind, refs) == {[kind |-> kind, route |-> r, ref |-> ref] : ref \in refs}
      items(ds) == {[q |-> d.target, col |-> d.fk] : d \in ds}
      nameless == {d \in s.details : d.field = ""}
  IN all("select", s.get \cup {p.ref : p \in s.params}) \cup all("order", s.order) \cup all("raw", s.raw)
     \cup all("post", s.post) \cup all("put", s.put)
     \cup all("items", items(s.details \ nameless)) \cup all("embed", items(s.details \ nameless))
     \cup all("nameless", items(nameless))
     \cup all("trigger", TriggerRefs(s))
     \cup all("action", {[q |-> a.table, col |-> a.type] : a \in {x \in Actions(s) : ~Executable(x)}})
     \cup all("reference", {[q |-> fk.table, col |-> fk.ref] : fk \in s.fks})

Runs(b) == IF b THEN "ran" ELSE "failed"

\* A column of the query: of the table itself, or of a table it joins.
Readable(s, ref) ==
  LET of == IF ref.q \in {"", Expr} THEN s.table ELSE ref.q
  IN of \in {s.table} \cup s.joins /\ InTable(of, ref.col)

\* The allow-list of ORDER BY; what it does not hold is passed over.
Orders(s) == {ref.col : ref \in s.get} \cup s.indexed \cup s.pk \cup s.joined

\* A POST binds the columns that are named; a generator may read any other key.
PostTakes(s, ref) == ref.q = "" /\ ref.col \in s.columns \cup s.inputs

\* A PUT refuses a key that is no column.
PutTakes(s, ref) == ref.q = "" /\ ref.col \in s.columns

\* The items of a body go to the table of the route that is named, if there is one.
ItemsOutcome(ref) ==
  IF ref.q \notin DOMAIN config.entity THEN "dropped" ELSE Runs(TableExists(ref.q) /\ InTable(ref.q, ref.col))

\* A GET embeds them from the table of that name, and passes over an error.
EmbedOutcome(ref) == IF TableExists(ref.q) /\ InTable(ref.q, ref.col) THEN "ran" ELSE "dropped"

\* execute_action: an error undoes the write.
TriggerOutcome(ref) == Runs(TableExists(ref.q) /\ (ref.col # "" => InTable(ref.q, ref.col)))

\* check_data_foreign_key: an error of its query refuses the write.
ReferenceOutcome(ref) == Runs(TableExists(ref.q) /\ InTable(ref.q, ref.col))

\* How each ends: what no code looks up is passed over without a word.
Outcome(st) ==
  LET s == config.entity[st.route]
      ref == st.ref
  IN CASE st.kind \in {"select", "raw"} -> Runs(Readable(s, ref))
       [] st.kind = "order" -> IF ref.col \in Orders(s) THEN Runs(Readable(s, ref)) ELSE "dropped"
       [] st.kind = "post" -> IF PostTakes(s, ref) THEN "ran" ELSE "dropped"
       [] st.kind = "put" -> Runs(PutTakes(s, ref))
       [] st.kind = "items" -> ItemsOutcome(ref)
       [] st.kind = "embed" -> EmbedOutcome(ref)
       [] st.kind = "nameless" -> "dropped"
       [] st.kind = "trigger" -> TriggerOutcome(ref)
       [] st.kind = "action" -> "failed"
       [] st.kind = "reference" -> ReferenceOutcome(ref)

Run ==
  /\ phase = "serving" /\ stmt = NoStatement
  /\ \E r \in ToSet(config.routes) \cap DOMAIN config.entity : \E st \in Statements(r) :
       stmt' = st /\ outcome' = Outcome(st)
  /\ UNCHANGED <<config, lintMode, report, phase>>

Next == Boot \/ Run

----------------------------------------------------------------------------
(* Properties *)

\* A name that the lint takes for a route or for a table alike: the route of an
\* entity with another table, where a statement wants a table; or, where a handler
\* looks up a route, a table under another one.
Ambiguous(st) ==
  /\ Loaded(config, st.ref.q)
  /\ \/ st.ref.q \in DOMAIN config.entity /\ config.entity[st.ref.q].table # st.ref.q
     \/ st.kind = "items" /\ st.ref.q \notin DOMAIN config.entity

\* A column of a body that the lint passes and the service does not take.
LetPass(st) ==
  \/ st.kind \in {"post", "put"} /\ st.ref.q # ""
  \/ st.kind = "put" /\ RequestInput(config.entity[st.route], st.ref)

\* What no rule looks at: raw SQL and expressions, the form of an action and the
\* columns it names, a field of details without a name, and whether an order_by is
\* in the allow-list.
Unlinted(st) ==
  \/ st.kind \in {"raw", "action", "nameless"} \/ st.ref.q = Expr
  \/ st.kind = "trigger" /\ ~InTable(st.ref.q, st.ref.col)
  \/ st.kind = "order" /\ st.ref.col \notin Orders(config.entity[st.route])

\* A GET qualifies a column with an entity that it does not join.
Unjoined(st) ==
  st.kind \in {"select", "order"} /\ st.ref.q \notin {"", Expr} \cup config.entity[st.route].joins

\* README ("semantic config mistakes surface as a clear startup failure instead of
\* a runtime SQL error or a silent no-op", validate.rs:178): what the lint had
\* nothing to say of runs, unless no rule looks at it, a name is a route in one
\* place and a table in the other, a GET qualifies a column with an entity it does
\* not join, or a body names a qualified column, or, in a PUT, the input of a
\* generator.
LintedRuns ==
  (lintMode # "off" /\ report = {} /\ outcome \notin {"none", "ran"})
    => Unlinted(stmt) \/ Ambiguous(stmt) \/ LetPass(stmt) \/ Unjoined(stmt)

===============================================================================
