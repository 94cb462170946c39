CONSTANTS
  Null = Null
  Tables <- KeylessTables
  Plans <- MCPlans
SPECIFICATION Spec
INVARIANT AnswerExact
