\* which failure a client of the chat dialect is told of
SPECIFICATION Spec
CONSTANTS
  Null = Null
  U32 = 9000
  Dialects <- ChatAlone
  Requests <- PlainRequest
  Foreign <- NoForeign
  Answers <- SomeAnswers
  Failures <- SomeFailures
  Styles <- AllStyles
  MaxSends = 2
INVARIANT
  RateLimitTold
CHECK_DEADLOCK FALSE
