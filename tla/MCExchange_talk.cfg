\* conversations of three calls over any mix of the dialects
SPECIFICATION Spec
CONSTANTS
  Null = Null
  U32 = 9000
  Dialects <- AllDialects
  Requests <- SomeRequests
  Foreign <- AllForeign
  Answers <- SomeAnswers
  Failures <- SomeFailures
  Styles <- AllStyles
  MaxSends = 3
INVARIANTS
  ConversationKept
  ResultsAfterCalls
  ThinkingUnforged
  MarkersOnTheirBlocks
  SettingsKept
  ReplayAccepted
  ReplyTrue
  OutcomeTrue
  ErrorsTyped
CHECK_DEADLOCK FALSE
