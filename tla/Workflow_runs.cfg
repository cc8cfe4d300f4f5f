\* Five steps, two requests, two deciders; a run, or one interrupted and run again.
SPECIFICATION MCSpec
CONSTANTS
  Steps <- FiveSteps
  Keys <- CallKeys
  Bounds <- TagBounds
  Allowlist = {}
  ReqIds = {r1, r2}
  People = {"ann", "bob"}
  Options <- AnyOptions
  GrantUses = {1}
  Page = 2
  MaxPolls = 1
  MaxRows = 3
  MaxRuns = 2
  None = None
INVARIANTS ActedUnderItsApproval ReportedWasRecorded
PROPERTY RunEnds
CHECK_DEADLOCK FALSE
