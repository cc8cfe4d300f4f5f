SPECIFICATION MCSpec
CONSTANTS
  None = None
  Texts = {0, 1, 2, 3, 4, 5, 6, 7, 8}
  Words = {4, 5, 6, 7, 8}
  Joined = 5
  DefaultRate = 2
  DefaultBurst = 2
  MaxTTL = 5
  DnsAnswers <- MCDnsAnswers
  Lengths = {0, 1, 2, 3}
  Chunks = {1, 2}
  MaxResponseBytes = 2
  BufferSize = 2
  PerMinute = 3
  LastTick = 6
  MaxEvents = 5
  Bases <- MCBases
  Overlays <- MCOverlays
  Blueprints <- MCBlueprints
  Givens <- MCGivens
  Offers <- MCOffers
  Calls <- MCCalls
  MaxFiled = 2
  Shown <- MCShown
  Splits <- MCSplits
  Named = 8
INVARIANTS ValidatedIsServed GovernedAsDeclared AdmittedAsShown EdgesHold
CHECK_DEADLOCK FALSE
