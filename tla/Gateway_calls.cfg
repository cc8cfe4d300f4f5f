\* Two messages, two overlapping turns, one grant.
SPECIFICATION MCSpec
CONSTANTS
  pay = pay
  look = look
  Calls = {c1, c2}
  Grants = {g1, g2}
  Runs = {r1, r2, r3}
  People = {ann, bob}
  Tools = {pay, look}
  Args = {"small", "large"}
  Messages <- AnyMessage
  Allowlist = {pay, look}
  Bounds <- SmallPayments
  RunTTL = 2
  TurnLimit = 1
  MaxUses = 1
  MaxTime = 2
  None = None
SYMMETRY Symmetry
INVARIANTS SentWasCleared RecordTellsAll NeverTheWrongPerson
PROPERTY FailureShutsGate
CHECK_DEADLOCK FALSE
