\* The gateway relays a 503 of the server beyond it.
CONSTANTS
  Posts = {1, 2, 3}
  QueueSize = 2
  MaxTries = 2
  Answers <- AnyAnswer
  None = None
  Users = {"admin"}
SPECIFICATION MCSpec
INVARIANT NoDoublePost
CHECK_DEADLOCK FALSE
