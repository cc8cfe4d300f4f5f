\* Two operators, six commands, one hand edit, two pods; the map exists or one command makes it.
SPECIFICATION MCSpec
CONSTANTS
  Operators = {o1, o2}
  Proxies = {p1, p2}
  Keys = {"a", "e", "v", "w"}
  Upstreams = {"a", "b", "e"}
  Credentials = {"c"}
  Base = {"b"}
  Jobs <- AllJobs
  HandEdits <- SomeEdits
  InitOverlays <- EitherMap
  MaxVer = 3
  MaxRolls = 2
  Nil = Nil
INVARIANTS WrittenIsServed
PROPERTIES ForeignFragmentsKept RolloutsComplete
CHECK_DEADLOCK FALSE
