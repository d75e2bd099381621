----------------------------- MODULE FieldValues -----------------------------
(***************************************************************************)
(* What becomes of one column of a JSON body: the checks and conversions of *)
(* POST, of PUT and of the line items of either (data_create_service.rs,    *)
(* data_update_service.rs, pk_utils.rs), those of a seed file (seed.rs),    *)
(* and what the database then does.                                         *)
(* A JSON value is [json, text, padded]: its type, the trimmed text of a    *)
(* string, the digits of a number as it was parsed, and whether there were  *)
(* blanks around the text.  Texts that differ denote different numbers.     *)
(* Rules of a column (field_rules.rs) are the set of values they admit.     *)
(* Left out: encrypted columns, formulas in post.columns.                   *)
(***************************************************************************)
EXTENDS Naturals, FiniteSets

CONSTANTS
  Columns,    \* [kind, nullable, default, star, admits]
  Values,     \* JSON values
  Whole, Decimal, Dates, Yes, No, \* texts that parse as i64, f64, a date, true, false
  Double      \* text of a number -> text of the f64 it is rounded to

VARIABLES
  column,
  cell,       \* what the row holds, or NoRow
  told,       \* what the answer said it holds
  sent,       \* the last value that was not passed over
  wrote       \* the kind of write that took it

vars == <<column, cell, told, sent, wrote>>

Cell(type, t) == [type |-> type, text |-> t, padded |-> FALSE]
NULL == Cell("null", "")
Default == Cell("default", "")
NoRow == Cell("none", "")
JsonNull == [json |-> "null", text |-> "", padded |-> FALSE]
Absent == [json |-> "absent", text |-> "", padded |-> FALSE]

\* Nothing parses from an empty text; null, and a key that is not there, have none.
FieldValuesAssumption ==
  /\ Whole \subseteq Decimal /\ Yes \cap No = {}
  /\ "" \notin Decimal \cup Dates \cup Yes \cup No
  /\ \A c \in Columns : c.kind \in {"int", "float", "decimal", "bool", "date", "text"}
  /\ \A v \in Values :
       /\ v = [json |-> v.json, text |-> v.text, padded |-> v.padded]
       /\ v.json \in {"null", "absent"} => v.text = ""
       /\ v.padded \in BOOLEAN /\ (v.padded => v.json = "string")

Str(t) == Cell("text", t)
Num(t) == Cell("number", t)
Truth(t) == Cell("bool", IF t \in Yes THEN "true" ELSE "false")

Refused == {}

Boolean(c) == c.kind = "bool"
Numeric(c) == c.kind \in {"int", "float", "decimal"}
Numerals(c) == IF c.kind = "int" THEN Whole ELSE Decimal
TruthWord(v) == v.text \in Yes \cup No /\ v.json \in {"bool", "number", "string"}

\* value_is_present
Present(v) == v.json \notin {"absent", "null"} /\ v.text \notin {"", "null"}

\* validate_field: null and keys that are not there pass.
RulesAdmit(c, v) == v.json \in {"absent", "null"} \/ v \in c.admits

\* column_is_mandatory, or marked.
Mandatory(c) == c.star \/ (~c.nullable /\ ~c.default)

\* A body value as the column takes it: an i64 or f64, a truth value, or the
\* trimmed text.
Typed(c, v) ==
  IF Boolean(c) /\ TruthWord(v) THEN Truth(v.text)
  ELSE IF Numeric(c) /\ v.text \in Numerals(c) THEN Num(IF c.kind = "int" THEN v.text ELSE Double[v.text])
  ELSE Str(v.text)

EmptyDate(c, v) == c.kind = "date" /\ v.text \in {"", "null"} /\ v.json \in {"string", "null"}

\* An empty date is null from the start.
Normal(c, v) == IF EmptyDate(c, v) THEN JsonNull ELSE v

Misread(c, v) == Boolean(c) /\ v.text # "" /\ ~TruthWord(v)

\* process_insert_request: the parameters bound, none when it is refused.
PostBinds(c, v) ==
  LET w == Normal(c, v) IN
  IF (Mandatory(c) /\ ~Present(w)) \/ ~RulesAdmit(c, w) \/ Misread(c, w) THEN Refused
  ELSE IF w = Absent \/ (w = JsonNull /\ ~c.nullable /\ c.default) THEN {Default}
  ELSE IF w.text = "" /\ (c.kind \in {"bool", "date"} \/ (Numeric(c) /\ c.nullable)) THEN {NULL}
  ELSE {Typed(c, w)}

\* process_update_request; Default stands for a column that is left alone.
PutBinds(c, v) ==
  IF c.star /\ ~Present(v) THEN Refused
  ELSE IF v = Absent THEN {Default}
  ELSE IF v.json = "null" THEN IF c.nullable THEN {NULL} ELSE Refused
  ELSE IF v.text = "" THEN {Default}
  ELSE IF ~RulesAdmit(c, v) \/ Misread(c, v) THEN Refused
  ELSE {Typed(c, v)}

\* A line item binds every column, and no number it cannot read.
ItemBinds(c, v) ==
  IF ~RulesAdmit(c, v) \/ Misread(c, v) THEN Refused
  ELSE IF (Boolean(c) /\ v.text = "") \/ (Numeric(c) /\ v.text \notin Numerals(c)) THEN {NULL}
  ELSE {Typed(c, v)}

\* Line items of a POST are checked for columns that are NOT NULL, defaults
\* or not; those of a PUT are not checked.
ItemMissing(c, v) == (c.star \/ ~c.nullable) /\ ~Present(v)

\* convert_field_value on a field of a CSV file; no column is checked, and a text
\* is kept as it stands, blanks included.
SeedBinds(c, v) ==
  IF v = Absent THEN {Default}
  ELSE IF v.json # "string" THEN Refused
  ELSE IF v.text = "null" \/ (v.text = "" /\ (c.nullable \/ c.kind # "text")) THEN {NULL}
  ELSE IF c.kind = "text" THEN {[Str(v.text) EXCEPT !.padded = v.padded]}
  ELSE {Typed(c, v)}

\* The database: a typed column takes no other text, NOT NULL no NULL.
Takes(c, param) ==
  /\ param = NULL => c.nullable
  /\ param.type = "text" => c.kind = "text" \/ (c.kind = "date" /\ param.text \in Dates)
  /\ param = Default => c.default \/ c.nullable

\* A value of the body as an answer shows it.
Echo(v) ==
  IF v.json = "null" THEN NULL
  ELSE [type |-> IF v.json = "string" THEN "text" ELSE v.json, text |-> v.text, padded |-> v.padded]

\* Mutant: the answer repeats every null of a POST, defaults or not.
ToldBody(kind, v, param) ==
  IF kind = "post" /\ v.json = "null" THEN NULL
  ELSE IF \/ kind \in {"put", "seed"} \/ v = Absent \/ Boolean(column)
          \/ param.type \in {"number", "default"} \/ (kind = "post" /\ param = NULL)
    THEN param ELSE Echo(v)

\* A PUT answers what it bound, and so do the others of truth values, numbers and
\* what was left to the database; else they repeat the body.
Told(kind, v, param) ==
  IF \/ kind \in {"put", "seed"} \/ v = Absent \/ Boolean(column)
     \/ param.type \in {"number", "default"} \/ (kind = "post" /\ param = NULL)
    THEN param ELSE Echo(v)

Store(kind, v, param) ==
  /\ cell' = param /\ told' = Told(kind, v, param) /\ sent' = v /\ wrote' = kind
  /\ UNCHANGED column

Init ==
  /\ column \in Columns
  /\ cell = NoRow /\ told = NoRow /\ sent = Absent /\ wrote = "none"

Post(v) ==
  \E param \in PostBinds(column, v) :
    cell = NoRow /\ Takes(column, param) /\ Store("post", v, param)

Put(v) ==
  \E param \in PutBinds(column, v) :
    /\ cell # NoRow /\ wrote # "item" /\ param # Default
    /\ Takes(column, param) /\ Store("put", v, param)

PostItem(v) ==
  \E param \in ItemBinds(column, v) :
    cell = NoRow /\ ~ItemMissing(column, v) /\ Takes(column, param) /\ Store("item", v, param)

\* A PUT replaces the line items.
PutItem(v) ==
  \E param \in ItemBinds(column, v) :
    wrote = "item" /\ Takes(column, param) /\ Store("item", v, param)

\* A seed file has its rows inserted as they are, and nothing is told.
Seed(v) ==
  \E param \in SeedBinds(column, v) :
    cell = NoRow /\ Takes(column, param) /\ Store("seed", v, param)

Next == \E v \in Values : Seed(v) \/ Post(v) \/ Put(v) \/ PostItem(v) \/ PutItem(v)

----------------------------------------------------------------------------
(* Properties *)

\* The value a client means, whoever converts it: JSON null, an empty number,
\* truth value or date are NULL, anything else is itself.
Means(c, v, kind, param) ==
  IF kind = "seed" /\ v.text = "null" THEN param = NULL
  ELSE IF v.json \in {"null", "absent"} THEN param \in {NULL, Default}
  ELSE IF v.text = "" THEN param \in {Default, NULL, Str("")}
  ELSE IF Boolean(c) THEN param = Truth(v.text)
  ELSE IF Numeric(c) THEN param = Num(IF c.kind = "float" THEN Double[v.text] ELSE v.text)
  ELSE param = Str(v.text) \/ (EmptyDate(c, v) /\ param \in {NULL, Default})

\* Known departures: a POST stores "" for null in a text column, and a line item
\* "" for a missing text and NULL for a number it cannot read; a decimal is
\* rounded to an f64 on its way; a seed file keeps the blanks around a text.
Garbled(c, v, kind) ==
  \/ kind \in {"post", "item"} /\ c.kind = "text" /\ v.json \in {"null", "absent"}
  \/ kind = "item" /\ Numeric(c) /\ v.text \notin Numerals(c)
  \/ c.kind = "decimal" /\ v.text \in Decimal /\ Double[v.text] # v.text
  \/ kind = "seed" /\ c.kind = "text" /\ v.padded

\* The answer of a POST, or of a line item, repeats a text or date column as it was
\* sent, where the row holds the trimmed text of it.
Echoed(c, v, kind) ==
  /\ kind \in {"post", "item"} /\ c.kind \in {"text", "date"}
  /\ v.padded \/ v.json \notin {"string", "null", "absent"}

\* README 25.3: a row holds what its last writer meant, and what it was
\* told it holds; what cannot be meant is refused by the service or the
\* database, whichever of POST, PUT, line items and seed files carried it.
StoredAsMeant ==
  cell # NoRow /\ ~Garbled(column, sent, wrote) =>
    Means(column, sent, wrote, cell) /\ (~Echoed(column, sent, wrote) => told = cell)

===============================================================================
