CONSTANTS
  Columns <- MCColumns
  Values <- MCValues
  Malformed <- MCMalformed
  GroupBy = "t"
  Null = Null
  Pseudo <- MCPseudo
  Tables <- IndexedTables
  Height <- MCHeight
  Wheres <- NumberWheres
  Grouped <- MCGrouped
  MaxHops = 1
SPECIFICATION Spec
INVARIANT NothingReadCold
