SPECIFICATION Spec
CONSTANTS
  Txs = {t1, t2, t3}
  Legacy = {1, 3}
  Last = 3
  Unlocked = Unlocked
  MaxErrors = 1
INVARIANTS
  GapFree
  NeverRefused
PROPERTIES
  EveryoneEnds
