SPECIFICATION Spec
CONSTANTS
  Rows <- MCRows
  Word = 0
  Starts <- MCStarts
  Ends <- MCEnds
  Parts <- MCParts
  TypeOf <- MCTypeOf
  SearchColumns = {"a", "b"}
  Queries <- MCQueries
  MaxDepth = 2
  MaxLeaves = 3
  Null = Null
  Column <- MCColumn
  Scopes <- MCScopes
  Lexed <- MCLexed
  Formulas <- MCFormulas
  Currents <- MCCurrents
  MinValue <- MCMin
  CalcScale = 10
INVARIANTS
  SetMeansItsFormula
  ShownIsAsked
CHECK_DEADLOCK FALSE
