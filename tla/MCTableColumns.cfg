SPECIFICATION Spec
CONSTANTS
    Tables <- MCTables
    HalfI64 <- MCHalfI64
    Precision <- MCPrecision
INVARIANTS
    TypeOK
    PlannedIsServable
    SelfDerivedReadable
    TypesIndependentOfOrder
    RowsExact
    NoRowLost
