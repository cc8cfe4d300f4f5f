\* Three posts through the notifier by itself; two, filed by handlers of three
\* listeners or by the bridge, around a replica that goes down.
CONSTANTS
  Posts = {1, 2, 3}
  QueueSize = 2
  MaxTries = 2
  Answers <- AnyAnswer
  None = None
  Users = {"inbound", "mcp", "admin", "bridge"}
SPECIFICATION MCSpec
INVARIANTS TwiceOnlyRelayed PostedInOrder ZeroLeavesOnlyTheHand ExitInTimeSettlesAll
PROPERTIES ShutdownEnds EveryPostSettled
CHECK_DEADLOCK FALSE
