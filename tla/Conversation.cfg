SPECIFICATION Spec
CONSTANTS
  Providers <- MCProviders
  Answers <- MCAnswers
  Strategies <- MCStrategies
  MaxTokens = 20
  MaxMessages = 5
  MaxDisturbances = 2
INVARIANTS
  RequestsArePaired
  SaidIsReplayed
  CompactionKeepsTheThread
PROPERTIES
  PromptOnlyGrows
CHECK_DEADLOCK FALSE
