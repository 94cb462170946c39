CONSTANTS
  Columns <- MCColumns
  Values <- MCValues
  Malformed <- MCMalformed
  GroupBy = "t"
  Null = Null
  Pseudo <- MCPseudo
  Tables <- MCTables
  Height <- MCHeight
  Wheres <- NegatedWheres
  Grouped <- NegatedWheres
  MaxHops = 1
SPECIFICATION Spec
INVARIANT RowsExact
