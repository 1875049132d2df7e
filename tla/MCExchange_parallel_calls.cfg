\* two calls of one turn sent back over Responses
SPECIFICATION Spec
CONSTANTS
  Null = Null
  U32 = 9000
  Dialects <- ResponsesAlone
  Requests <- PlainRequest
  Foreign <- NoForeign
  Answers <- SomeAnswers
  Failures <- SomeFailures
  Styles <- AllStyles
  MaxSends = 2
INVARIANT
  ResultsFollowCalls
CHECK_DEADLOCK FALSE
