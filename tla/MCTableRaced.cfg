SPECIFICATION Spec
CONSTANTS
    Tables <- GrowingTables
    HalfI64 <- MCHalfI64
    Precision <- MCPrecision
INVARIANTS
    SelfDerivedExecutable
