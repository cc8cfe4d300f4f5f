\* Two events, each sent again and again to a replica with two workers.
SPECIFICATION Spec
CONSTANTS
  w1 = w1
  w2 = w2
  p1 = p1
  Deliveries = {d1, d2}
  Attempts = {a1, a2}
  Replicas = {p1}
  Workers = {w1, w2}
  On <- OneReplica
  Creds <- BudgetThenTools
  QueueSize = 2
  MaxLeft = 1
  None = None
SYMMETRY InboundSymmetry
INVARIANTS SlotsReturned TurnAttributed RunsClosed
PROPERTY ImplementsDelivery
CHECK_DEADLOCK FALSE
