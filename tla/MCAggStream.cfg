CONSTANTS
  MaxSplits = 2
  Partitions <- MCPartitions
SPECIFICATION PollingSpec
INVARIANT TypeOK
INVARIANT SplitsCountedOnce
INVARIANT NoSilentEnd
INVARIANT OneLateClosure
INVARIANT IInv
PROPERTY StreamsEnd
PROPERTY ImplementsContract
