SPECIFICATION ServicesSpec
CONSTANTS
  c1 = c1
  c2 = c2
  address = address
  note = note
  invoice = invoice
  memo = memo
  Param = "{}"
  Rules <- MCRules
  Schemas <- MCSchemas
  Callers <- MCCallers
  Calls <- MCCalls
  QueueOn = TRUE
  Columns <- MCColumns
  Values <- MCValues
  Whole = {"7", "1"}
  Decimal = {"7", "1", "0.1", "0.10000000000000001"}
  Double <- MCDouble
  Dates = {"2024-01-31"}
  Yes = {"true", "yes", "1"}
  No = {"false", "no", "0"}
  Imports = {i1, i2}
  Posts = {p1, p2}
  Files <- MCFiles
  Existing = {6, 7}
  Counter0 = 7
  BatchSize = 2
  TenToWidth = 10
  MaxFaults = 1
  Parents = {c1, c2}
  Children = {address, note, invoice, memo}
  ChildTable <- MCChildTable
  Refs <- MCRefs
  Deletes = {x1, x2}
  Adds <- MCAdds
  Ids = {1, 2, 3, 4}
  SortValues = {1, 2}
  Null = Null
  TablesRead <- MCTables
  Asks <- MCAsks
  Orderable = {"id", "key"}
  OrderBy <- NoOrder
  LimitMax = 3
  LimitDefault = 2
  MaxInt = 3
  MaxPage = 4
  MaxChanges = 1
  Configs <- MCConfigs
  Malformed = {"drop table"}
  Operators = {"eq"}
  Events = {"update", "create", "delete"}
  Expr = "("
  Worlds <- MCWorlds
  CoreTables = {"flx_users"}
  PublicRoutes = {"news"}
  ToolCalls <- MCToolCalls
  Holder <- MCHolder
  MaxRows = 2
  Secret = {"token"}
  MaxFound = 3
  Cut <- MCCut
  Unfit = {"5 x"}
  Designs <- MCDesigns
  Own <- MCOwn
  OutboxTable <- MCOutbox
  Audit = {"created_at"}
  AuthOn = TRUE
  Replicas = {r1, r2}
  MaxDeploys = 1
  MaxMishaps = 1
  lotA = lotA
  lotB = lotB
  w1 = w1
  w2 = w2
  w3 = w3
  MaxDoc = 2
  Products = {lotA, lotB}
  Statuses <- MCStatuses
  Wanted <- MCWanted
  Reqs = {w1, w2, w3}
  Nobody = Nobody
  Lines <- MCLines
  Lines0 <- MCLines0
  OnDelete = {"set null", "cascade soft", "restrict"}
  Plans <- MCPlans
  Totals <- MCTotals
  Cost <- MCCost
  Stock0 <- MCStock
  MinQty = 0
  MaxFailures = 1
SYMMETRY Interchangeable
INVARIANTS
  DoneUnderRules
  RefusedForCause
  StoredAsMeant
  ImportWhole
  DuplicatesHaveCauses
  OrphansRaced
  PagesComplete
  LintedRuns
  McpLikeRest
  TablesFit
  
  BooksBalance
CHECK_DEADLOCK FALSE
