----------------------------- MODULE AccessRules -----------------------------
(***************************************************************************)
(* How rules.json decides a request (auth.rs).  A path is the sequence of   *)
(* its non-empty segments; Param stands for any {name} segment of a         *)
(* pattern.  A condition is kept as the set of its alternatives, each a set *)
(* of equalities that must all hold: `and` and `or` have no negation, so    *)
(* every condition has this form.                                           *)
(*   claims  [id, roles]                                                    *)
(*   rule    [match, allows], allows a sequence of                          *)
(*           [method, if, fields]; `if` Always when it is absent            *)
(***************************************************************************)
EXTENDS Naturals, Sequences

CONSTANT Param

Always == {{}}

\* evaluate_condition on one `eq`; an unknown field never holds.
EqHolds(eq, claims) ==
  \/ eq[1] = "$user.role" /\ eq[2] \in claims.roles
  \/ eq[1] = "$user.id" /\ eq[2] = claims.id

CondHolds(cond, claims) == \E all \in cond : \A eq \in all : EqHolds(eq, claims)

RouteMatches(pattern, path) ==
  /\ Len(pattern) = Len(path)
  /\ \A i \in DOMAIN path : pattern[i] \in {Param, path[i]}

\* The least index with the property, as `find` returns it; 0 for none.
FirstIndex(I) == IF I = {} THEN 0 ELSE CHOOSE i \in I : \A j \in I : i <= j

\* Mutant: a rule whose condition does not hold is passed over.
RuleForClaims(rules, claims, path, method) ==
  FirstIndex({i \in DOMAIN rules : /\ RouteMatches(rules[i].match, path)
                                   /\ \A j \in DOMAIN rules[i].allows :
                                        rules[i].allows[j].method = method =>
                                          CondHolds(rules[i].allows[j].if, claims)})

RuleFor(rules, claims, path, method) ==
  FirstIndex({i \in DOMAIN rules : RouteMatches(rules[i].match, path)})

AllowFor(rule, method) ==
  FirstIndex({j \in DOMAIN rule.allows : rule.allows[j].method = method})

\* match_allow: the entry that decides, or none.
MatchAllow(rules, claims, path, method) ==
  LET i == RuleFor(rules, claims, path, method)
      j == AllowFor(rules[i], method) IN
  IF i = 0 \/ j = 0 THEN {}
  ELSE {a \in {rules[i].allows[j]} : CondHolds(a.if, claims)}

\* evaluate_access
Permits(rules, claims, path, method) == MatchAllow(rules, claims, path, method) # {}

\* allowed_fields_in: the sets of columns to which the request is restricted,
\* none when it is refused or the entry lists no fields.
Restrictions(rules, claims, path, method) ==
  {a.fields : a \in {b \in MatchAllow(rules, claims, path, method) : b.fields # {}}}

\* enforce_fields_on: the primary key is always allowed.
FieldsPass(restrictions, columns) == \A f \in restrictions : columns \subseteq f \cup {"id"}

\* retain_fields_on
Retained(restrictions, columns) == {c \in columns : FieldsPass(restrictions, {c})}

==============================================================================
