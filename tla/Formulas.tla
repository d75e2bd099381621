------------------------------- MODULE Formulas -------------------------------
(***************************************************************************)
(* What the `set` of an update action writes to a column                    *)
(* (trigger_engine.rs): tokens are replaced in the text of the expression,  *)
(* the text is parsed and evaluated, and what cannot be is guessed at or    *)
(* written as it stands.                                                    *)
(* An expression is what the author meant, a tree, and is read as the       *)
(* sequence of symbols it is written with.  Numbers are fractions <<n, d>>, *)
(* not the floats of the code; the text of a value is its symbols.          *)
(***************************************************************************)
EXTENDS Integers, SequencesExt

CONSTANTS
  Column,       \* the column that is set
  Scopes,       \* scope -> name -> value
  Lexed,        \* text -> its symbols
  Formulas,     \* [calc, tree] a set expression may be
  Currents,     \* values the column may have
  MinValue,     \* validate.min of the column
  CalcScale     \* a {calc:} is rounded to 1/CalcScale, in the code 1/10000

VARIABLES
  formula, current,
  stored        \* what became of the column

vars == <<formula, current, stored>>

None == <<>>
Untouched == [kind |-> "untouched", val |-> None]
Refused == [kind |-> "refused", val |-> None]
NumberStored(q) == [kind |-> "number", val |-> q]
TextStored(ss) == [kind |-> "text", val |-> ss]

\* Symbols: operators, digits, and names, which have a scope or "".
Op(o) == <<"op", o>>
Digits(q) == <<"num", q>>
Name(pre, base) == <<"name", pre, base>>

----------------------------------------------------------------------------
(* Fractions *)

Neg(a) == <<-a[1], a[2]>>
Add(a, b) == <<a[1] * b[2] + b[1] * a[2], a[2] * b[2]>>
Sub(a, b) == Add(a, Neg(b))
Times(a, b) == <<a[1] * b[1], a[2] * b[2]>>
Over(a, b) == IF b[1] > 0 THEN <<a[1] * b[2], a[2] * b[1]>> ELSE <<-a[1] * b[2], -a[2] * b[1]>>
AtMost(a, b) == a[1] * b[2] <= b[1] * a[2]
Same(a, b) == a[1] * b[2] = b[1] * a[2]
Floor(a) == <<a[1] \div a[2], 1>>
Ceil(a) == Neg(Floor(Neg(a)))
Size(a) == IF a[1] < 0 THEN Neg(a) ELSE a

\* Half away from zero.
Rounded(a) ==
  IF a[1] < 0 THEN Neg(Floor(Add(Neg(a), <<1, 2>>))) ELSE Floor(Add(a, <<1, 2>>))
RoundedTo(a, scale) == Over(Rounded(Times(a, <<scale, 1>>)), <<scale, 1>>)

\* The remainder has the sign of the dividend.
Rem(a, b) ==
  LET whole == Floor(Over(Size(a), Size(b))) IN
  IF a[1] < 0 THEN Neg(Sub(Size(a), Times(whole, Size(b)))) ELSE Sub(a, Times(whole, Size(b)))

Apply(o, a, b) ==
  CASE a = None \/ b = None -> None
    [] o \in {"/", "%"} /\ b[1] = 0 -> None
    [] o = "+" -> Add(a, b)
    [] o = "-" -> Sub(a, b)
    [] o = "*" -> Times(a, b)
    [] o = "/" -> Over(a, b)
    [] o = "%" -> Rem(a, b)

Call(f, args) ==
  CASE \E i \in DOMAIN args : args[i] = None -> None
    [] f = "round" /\ Len(args) = 1 -> Rounded(args[1])
    [] f = "round" /\ Len(args) = 2 -> RoundedTo(args[1], 10 ^ (args[2][1] \div args[2][2]))
    [] f = "floor" /\ Len(args) = 1 -> Floor(args[1])
    [] f = "ceil" /\ Len(args) = 1 -> Ceil(args[1])
    [] f = "abs" /\ Len(args) = 1 -> Size(args[1])
    [] f = "min" /\ Len(args) = 2 -> IF AtMost(args[1], args[2]) THEN args[1] ELSE args[2]
    [] f = "max" /\ Len(args) = 2 -> IF AtMost(args[1], args[2]) THEN args[2] ELSE args[1]
    [] OTHER -> None

----------------------------------------------------------------------------
(* What a name stands for.  A value is <<"num", q>>, <<"text", t>> or null. *)

Has(scope, base) == base \in DOMAIN Scopes[scope]

\* parse::<f64>() of a text.
ParsedNumber(ss) ==
  CASE Len(ss) = 1 /\ ss[1][1] = "num" -> ss[1][2]
    [] Len(ss) = 2 /\ ss[1] = Op("-") /\ ss[2][1] = "num" -> Neg(ss[2][2])
    [] OTHER -> None

NumberOf(v) ==
  CASE v[1] = "num" -> v[2]
    [] v[1] = "text" -> ParsedNumber(Lexed[v[2]])
    [] OTHER -> None

PrefixScopes(pre) == IF pre = "parent" THEN <<"new", "old">> ELSE <<pre>>

FirstOf(order, base, Fits(_)) ==
  LET at == SelectInSeq(order, LAMBDA s : Has(s, base) /\ Fits(Scopes[s][base]))
  IN IF at = 0 THEN None ELSE Scopes[order[at]][base]

\* resolve_numeric_var: what is not a number is passed over.
Numeric(pre, base) ==
  LET order == IF pre = "" THEN <<"acc", "item", "lookup", "new">> ELSE PrefixScopes(pre)
      v == FirstOf(order, base, LAMBDA x : NumberOf(x) # None)
  IN IF v = None THEN None ELSE NumberOf(v)

\* resolve_single_token: the first scope that has the name, null or not.
Textual(pre, base) ==
  FirstOf(IF pre = "" THEN <<"item", "lookup", "acc", "new", "old", "request">> ELSE PrefixScopes(pre),
          base, LAMBDA x : TRUE)

NumberText(q) == IF q[1] < 0 THEN <<Op("-"), Digits(Neg(q))>> ELSE <<Digits(q)>>

\* json_val_to_str
TextOf(v) ==
  CASE v[1] = "num" -> NumberText(v[2])
    [] v[1] = "text" -> Lexed[v[2]]
    [] v[1] = "null" -> <<>>

TokenText(pre, base, default) ==
  IF Textual(pre, base) = None THEN default ELSE TextOf(Textual(pre, base))

----------------------------------------------------------------------------
(* MathParser.  A rule is given how far it is, the number so far and the    *)
(* next symbol, and returns the same: None is an error.  `cur` is the value *)
(* the column's own name has.                                               *)

Found(num, at) == [num |-> num, at |-> at]
At(p) == Found(None, p)

Bound(sym, cur) ==
  IF cur # None /\ sym[2] = "" /\ sym[3] \in {Column, "current"} THEN cur ELSE Numeric(sym[2], sym[3])

OpAt(ss, p, ops) == p <= Len(ss) /\ ss[p] \in {Op(o) : o \in ops}

RECURSIVE Parse(_, _, _, _)

\* Mutant: what follows a sign is subtracted as a whole.
ParseExprRight(here, ss, cur) ==
  LET left == Parse("term", here, ss, cur) IN
  IF left.num # None /\ OpAt(ss, left.at, {"+", "-"})
    THEN LET right == Parse("expr", At(left.at + 1), ss, cur)
         IN Found(Apply(ss[left.at][2], left.num, right.num), right.at)
    ELSE left

ParseExpr(here, ss, cur) == Parse("sums", Parse("term", here, ss, cur), ss, cur)

ParseTerm(here, ss, cur) == Parse("products", Parse("factor", here, ss, cur), ss, cur)

\* The loops over operators of one strength, from the left.
More(rule, ops, operand, left, ss, cur) ==
  IF left.num # None /\ OpAt(ss, left.at, ops)
    THEN LET right == Parse(operand, At(left.at + 1), ss, cur)
         IN Parse(rule, Found(Apply(ss[left.at][2], left.num, right.num), right.at), ss, cur)
    ELSE left

ParseFactor(here, ss, cur) ==
  IF OpAt(ss, here.at, {"+", "-"})
    THEN LET f == Parse("factor", At(here.at + 1), ss, cur)
         IN IF f.num # None /\ OpAt(ss, here.at, {"-"}) THEN Found(Neg(f.num), f.at) ELSE f
    ELSE Parse("primary", here, ss, cur)

Parenthesised(here, ss, cur) ==
  LET inner == Parse("expr", At(here.at + 1), ss, cur)
  IN Found(IF OpAt(ss, inner.at, {")"}) THEN inner.num ELSE None, inner.at + 1)

\* The arguments up to the closing parenthesis, each after the first past a comma.
RECURSIVE Arguments(_, _, _, _, _)
Arguments(f, args, p, ss, cur) ==
  LET arg == Parse("expr", At(p), ss, cur) IN
  CASE args = <<>> /\ OpAt(ss, p, {")"}) -> Found(None, p + 1)
    [] arg.num # None /\ OpAt(ss, arg.at, {","}) -> Arguments(f, Append(args, arg.num), arg.at + 1, ss, cur)
    [] arg.num # None /\ OpAt(ss, arg.at, {")"}) -> Found(Call(f, Append(args, arg.num)), arg.at + 1)
    [] OTHER -> At(arg.at)

ParsePrimary(here, ss, cur) ==
  LET p == here.at IN
  CASE p > Len(ss) -> At(p)
    [] OpAt(ss, p, {"("}) -> Parenthesised(here, ss, cur)
    [] p <= Len(ss) /\ ss[p][1] = "num" -> Found(ss[p][2], p + 1)
    [] p <= Len(ss) /\ ss[p][1] = "name" ->
         IF OpAt(ss, p + 1, {"("}) THEN Arguments(ss[p][3], <<>>, p + 2, ss, cur) ELSE Found(Bound(ss[p], cur), p + 1)
    [] OTHER -> At(p + 1)

Parse(rule, here, ss, cur) ==
  CASE rule = "expr" -> ParseExpr(here, ss, cur)
    [] rule = "sums" -> More("sums", {"+", "-"}, "term", here, ss, cur)
    [] rule = "term" -> ParseTerm(here, ss, cur)
    [] rule = "products" -> More("products", {"*", "/", "%"}, "factor", here, ss, cur)
    [] rule = "factor" -> ParseFactor(here, ss, cur)
    [] rule = "primary" -> ParsePrimary(here, ss, cur)

\* eval_math_expr
Evaluate(ss, cur) ==
  LET e == Parse("expr", At(1), ss, cur) IN IF e.at <= Len(ss) THEN None ELSE e.num

----------------------------------------------------------------------------
(* The text of an expression *)

\* eval_boolean_condition: numbers when both sides are, else their text, which
\* has no order.  Bare names and digits are not tokens: their text is themselves.
Condition(o, left, right) ==
  LET side(s) == IF s[1] = "name" THEN Numeric(s[2], s[3]) ELSE s[2]
      l == side(left)
      r == side(right)
  IN IF l # None /\ r # None
       THEN CASE o = ">=" -> AtMost(r, l)
              [] o = "<=" -> AtMost(l, r)
              [] o = "!=" -> ~Same(l, r)
              [] o = "==" -> Same(l, r)
              [] o = ">" -> ~AtMost(l, r)
              [] o = "<" -> ~AtMost(r, l)
       ELSE (o = "==" /\ left = right) \/ (o = "!=" /\ left # right)

RECURSIVE Written(_, _)

Strength(tree) ==
  CASE tree[1] \in {"+", "-"} -> 1
    [] tree[1] \in {"*", "/", "%"} -> 2
    [] OTHER -> 3

\* How an author writes a tree: parentheses where they are needed, and a token
\* replaced by its text, unless the expression is a {calc:}, whose braces go.
Written(tree, calc) ==
  LET part(t, least) ==
        IF Strength(t) < least THEN <<Op("(")>> \o Written(t, calc) \o <<Op(")")>> ELSE Written(t, calc)
  IN CASE tree[1] = "num" -> <<tree>>
       [] tree[1] = "name" -> <<tree>>
       [] tree[1] = "token" /\ calc -> <<Name(tree[2], tree[3])>>
       [] tree[1] = "token" /\ ~calc -> TokenText(tree[2], tree[3], tree[4])
       [] tree[1] = "if" -> IF Condition(tree[2], tree[3], tree[4]) THEN Lexed[tree[5]] ELSE Lexed[tree[6]]
       [] tree[1] = "call" ->
            <<Name("", tree[2]), Op("(")>> \o Written(tree[3], calc) \o <<Op(",")>>
              \o Written(tree[4], calc) \o <<Op(")")>>
       [] tree[1] = "neg" -> <<Op("-")>> \o part(tree[2], 3)
       [] OTHER -> part(tree[2], Strength(tree)) \o <<Op(tree[1])>> \o part(tree[3], Strength(tree) + 1)

\* CalcScale: four decimals; and the message of an error.
CalcText(q) ==
  IF q = None THEN <<Name("", "error"), Name("", "message")>> ELSE NumberText(RoundedTo(q, CalcScale))

\* interpolate_string_full
Interpolated(f) ==
  IF f.calc THEN CalcText(Evaluate(Written(f.tree, TRUE), None)) ELSE Written(f.tree, FALSE)

----------------------------------------------------------------------------
(* The column *)

CurrentNumber(v) == IF NumberOf(v) = None THEN <<0, 1>> ELSE NumberOf(v)

\* The number after the first sign, as if the column stood before it.
AfterSign(ss, o, cur) ==
  LET at == SelectInSeq(ss, LAMBDA s : s = Op(o)) IN
  IF at = 0 THEN None ELSE Apply(o, cur, ParsedNumber(SubSeq(ss, at + 1, Len(ss))))

\* compute_set_value_full
SetValue(ss, cur) ==
  CASE Evaluate(ss, cur) # None -> Evaluate(ss, cur)
    [] Evaluate(ss, cur) = None /\ AfterSign(ss, "-", cur) # None -> AfterSign(ss, "-", cur)
    [] OTHER -> AfterSign(ss, "+", cur)

\* coerce_dbparam
Coerced(ss) == IF ParsedNumber(ss) # None THEN NumberStored(ParsedNumber(ss)) ELSE TextStored(ss)

\* is_date_format: the text starts with a year and two numbers of two digits.
IsDate(ss) ==
  /\ Len(ss) >= 5
  /\ ss[2] = Op("-") /\ ss[4] = Op("-")
  /\ \A i \in {1, 3, 5} : ss[i][1] = "num"
  /\ ss[1][2][1] \in 1000..9999 /\ ss[3][2][1] \in 1..12 /\ ss[5][2][1] \in 1..31

Computed(q, cur) == IF AtMost(MinValue, q) THEN NumberStored(q) ELSE Refused

Arithmetic(ss) == \E i \in DOMAIN ss : ss[i] \in {Op(o) : o \in {"+", "-", "*", "/"}}

\* What an update action makes of the column.
SetColumn ==
  /\ stored = Untouched
  /\ LET ss == Interpolated(formula)
         cur == CurrentNumber(current)
         q == SetValue(ss, cur)
         tried == formula.calc \/ Arithmetic(ss) \/ current[1] = "num"
     IN stored' = CASE IsDate(ss) -> TextStored(ss)
                    [] ~IsDate(ss) /\ tried /\ q # None -> Computed(q, cur)
                    [] ~IsDate(ss) /\ tried /\ q = None /\ formula.calc -> Refused
                    [] OTHER -> Coerced(ss)
  /\ UNCHANGED <<formula, current>>

Init ==
  /\ formula \in Formulas /\ current \in Currents
  /\ stored = Untouched

Next == SetColumn

----------------------------------------------------------------------------
(* Properties *)

RECURSIVE Meant(_)

\* The number a tree means, None when a name has none or a divisor is 0: in a
\* {calc:} and out of it, a token is the value of the first scope that has it.
Meant(tree) ==
  CASE tree[1] = "num" -> tree[2]
    [] tree[1] = "name" ->
         IF ~formula.calc THEN Bound(tree, CurrentNumber(current)) ELSE Bound(tree, None)
    [] tree[1] = "token" ->
         IF formula.calc THEN Numeric(tree[2], tree[3]) ELSE ParsedNumber(TokenText(tree[2], tree[3], tree[4]))
    [] tree[1] = "if" ->
         ParsedNumber(IF Condition(tree[2], tree[3], tree[4]) THEN Lexed[tree[5]] ELSE Lexed[tree[6]])
    [] tree[1] = "call" -> Call(tree[2], <<Meant(tree[3]), Meant(tree[4])>>)
    [] tree[1] = "neg" -> IF Meant(tree[2]) = None THEN None ELSE Neg(Meant(tree[2]))
    [] OTHER -> Apply(tree[1], Meant(tree[2]), Meant(tree[3]))

\* A formula that ends in a sign and a number, which is taken for "<column> - <number>".
EndsInSign(ss) == \E o \in {"-", "+"} : AfterSign(ss, o, <<0, 1>>) # None

RECURSIVE Gap(_)

\* A token whose text is no operand, but nothing or an expression of its own.
Gap(tree) ==
  CASE tree[1] = "token" ->
         LET ss == Written(tree, formula.calc) IN Len(ss) # 1 /\ ParsedNumber(ss) = None
    [] tree[1] \in {"num", "name", "if"} -> FALSE
    [] tree[1] = "neg" -> Gap(tree[2])
    [] tree[1] = "call" -> Gap(tree[3]) \/ Gap(tree[4])
    [] OTHER -> Gap(tree[2]) \/ Gap(tree[3])

\* README 10.3 (a formula has "standard operator precedence", and `validate.min`
\* guards what it comes to): a column is set to the number its formula means, if
\* the minimum admits it; a formula that means no number is refused or written
\* as text, unless the text of a token is no operand or it ends like "<column> - <number>".
SetMeansItsFormula ==
  stored # Untouched =>
    LET q == IF formula.calc /\ Meant(formula.tree) # None
               THEN RoundedTo(Meant(formula.tree), CalcScale) ELSE Meant(formula.tree)
        unguarded == current[1] # "num" /\ ~formula.calc /\ ~Arithmetic(Interpolated(formula))
    IN
    IF q # None
      THEN \/ stored = Refused /\ ~AtMost(MinValue, q)
           \/ stored.kind = "text" /\ unguarded /\ (formula.tree[1] = "name" \/ Op("%") \in ToSet(stored.val))
           \/ stored.kind = "number" /\ Same(stored.val, q) /\ (AtMost(MinValue, q) \/ unguarded)
      ELSE \/ stored.kind # "number"
           \/ Gap(formula.tree) \/ EndsInSign(Interpolated(formula))

===============================================================================
