SPECIFICATION Spec
CONSTANTS
  a = a
  b = b
  n = n
  draft = draft
  confirmed = confirmed
  shipped = shipped
  void = void
  qty = qty
  memo = memo
  clerk = clerk
  boss = boss
  r1 = r1
  r2 = r2
  r3 = r3
  NoState = NoState
  Nobody = Nobody
  Requests = {r1, r2, r3}
  Records <- MCRecords
  Columns <- MCColumns
  ExceptColumns <- MCExceptColumns
  States <- MCStates
  Locked <- MCLocked
  DefaultState = draft
  DefaultVersion = 0
  Transitions <- MCTransitions
  anyState = anyState
  AnyState = anyState
  Roles <- MCRoles
  Inputs <- MCInputs
  Databases <- MCDatabases
  Versioned = {b, n}
  SoftDeleted = {b}
  Composite = {n}
  FlakyReads = {r1, r2, r3}
SYMMETRY Symmetry
INVARIANTS
  NoLostUpdate
  EventChain
  EventIffApplied
PROPERTIES
  LegalTransitions
  LockedColumnsKept
