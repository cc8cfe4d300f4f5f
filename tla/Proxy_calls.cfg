\* Two requests on one replica, sent again and again through outages and restarts, while a
\* cents budget is set and lifted.
SPECIFICATION FairSpec
CONSTANTS
  r1 = r1
  r2 = r2
  p1 = p1
  Requests = {r1, r2}
  Replicas = {p1}
  Home <- OneHome
  Budgets <- NoneOrCents
INVARIANT CallsAccounted
PROPERTY DegradedRecovers
