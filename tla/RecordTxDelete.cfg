SPECIFICATION Spec
CONSTANTS
  a = a
  b = b
  n = n
  draft = draft
  confirmed = confirmed
  shipped = shipped
  void = void
  qty = qty
  memo = memo
  clerk = clerk
  boss = boss
  r1 = r1
  r2 = r2
  NoState = NoState
  Nobody = Nobody
  Requests = {r1, r2}
  Records <- MCRecords
  Columns <- MCColumns
  ExceptColumns <- MCExceptColumns
  States <- MCStates
  Locked <- MCLocked
  DefaultState = draft
  DefaultVersion = 0
  Transitions <- MCTransitions
  anyState = anyState
  AnyState = anyState
  Roles <- MCRoles
  Inputs <- RaceInputs
  Databases <- ConfirmedDatabases
  Versioned = {b, n}
  SoftDeleted = {b}
  Composite = {n}
  FlakyReads = {}
SYMMETRY Symmetry
PROPERTIES
  DeleteRespectsLock
