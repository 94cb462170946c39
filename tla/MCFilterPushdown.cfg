CONSTANTS
  Columns <- MCColumns
  Values <- MCValues
  Malformed <- MCMalformed
  GroupBy = "t"
  Null = Null
  Pseudo <- MCPseudo
  Tables <- MCTables
  Height <- MCHeight
  Wheres <- MCWheres
  Grouped <- MCGrouped
  MaxHops = 2
SPECIFICATION Spec
INVARIANT TypeOK
INVARIANT RowsExact
INVARIANT CachedQueryFresh
INVARIANT WarmupCoversQuery
INVARIANT IInv
