------------------------------ MODULE MCRegistry ------------------------------
(* Two routes; texts a and b declare a table of their own, c one of b's name; *)
(* `torn` does not pass the lint.                                             *)
EXTENDS Registry, TLC

CONSTANTS r1, r2, a, b, c, torn, ta, tb, rules, empty

MCTableOf == [t \in Texts |-> IF t = a THEN ta ELSE tb]

MCBoot == [routes |-> {r1}, entity |-> [r \in Routes |-> IF r = r1 THEN a ELSE c], rules |-> rules]

Interchangeable == Permutations(Reloads) \cup Permutations(Readers)

===============================================================================
