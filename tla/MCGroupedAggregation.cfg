CONSTANTS
  Null = Null
  Tables <- MCTables
  Plans <- MCPlans
SPECIFICATION Spec
INVARIANT TypeOK
INVARIANT AnswerExact
