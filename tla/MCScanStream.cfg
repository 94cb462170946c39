CONSTANTS
  Plans <- MCPlans
  Capacity = 2
SPECIFICATION PollingSpec
INVARIANT TypeOK
INVARIANT DeliveredInOrder
INVARIANT CleanEndIsComplete
INVARIANT WorkerErrorReported
INVARIANT BoundedRunahead
INVARIANT IInv
PROPERTY ImplementsContract
PROPERTY StreamEnds
PROPERTY Released
