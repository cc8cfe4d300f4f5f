\* Three calls: two months under a budget that changes and goes, or one month
\* and grants over two caps exceeded at once.  Fairness, so no symmetry.
SPECIFICATION MCSpec
CONSTANTS
  c1 = c1
  c2 = c2
  c3 = c3
  g1 = g1
  Calls = {c1, c2, c3}
  Priced = {c1, c2}
  GrantIds = {g1, g2}
  MaxUse = 1
  HoldTTL = 2
  CallLimit = 1
  Budgets <- SomeBudgets
  MaxAmount = 1
  MaxGrantUses = 1
  MaxTime = 2
  MaxMonth = 1
  None = None
INVARIANTS CapBoundsMonth LiveCallKeepsHold GrantUsesExact
PROPERTIES AdmissionFitsCap EveryAdmissionDecided
CHECK_DEADLOCK FALSE
