CONSTANTS
  s1 = s1
  s2 = s2
  s3 = s3
  t1 = t1
  t2 = t2
  t3 = t3
  Splits <- MCSplits
  Tasks <- MCTasks
  Local <- MCLocal
  Itinerary <- MCItinerary
  FreshPrepare = FALSE
SPECIFICATION FairSpec
INVARIANT TypeOK
INVARIANT WarmsOnce
INVARIANT WarmBeforeRead
INVARIANT IInv
PROPERTY EveryOpenEnds
