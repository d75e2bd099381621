SPECIFICATION Spec
CONSTANTS
  r1 = r1
  r2 = r2
  a = a
  b = b
  c = c
  torn = torn
  ta = ta
  tb = tb
  rules = rules
  empty = empty
  Routes = {r1, r2}
  Texts = {a, b, c, torn}
  Tables = {ta, tb}
  TableOf <- MCTableOf
  Generated = {a, b}
  Broken = {torn}
  RuleFiles = {rules, empty}
  Refusing = empty
  BootDisk <- MCBoot
  Reloads = {p1, p2}
  Readers = {q1, q2}
  MaxEdits = 2
SYMMETRY Interchangeable
INVARIANTS LiveIsServable NoStalePage
CHECK_DEADLOCK FALSE
