CONSTANTS
  Docs <- MCDocs
  Rankings <- MCRankings
  Limits <- MCLimits
  BatchSizes <- MCBatchSizes
  U32Max = 3
SPECIFICATION Spec
INVARIANT TypeOK
INVARIANT BestFirst
INVARIANT Complete
INVARIANT IInv
