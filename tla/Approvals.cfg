\* Two people decide three requests while the agent refiles; two tool calls or
\* inbound events race for the uses of an old verb-level grant and of a new one.
SPECIFICATION MCSpec
CONSTANTS
  ReqIds = {r1, r2, r3}
  GrantIds = {g1, g2}
  Keys <- MCKeys
  Uses = {u1, u2}
  Deciders = {admin, slack}
  OldReq = r1
  OldGrant = g1
  OldKey <- Verb
  NoDigest = "none"
  MaxUses = 2
  MaxTime = 1
  None = None
SYMMETRY UseSymmetry
INVARIANTS TrailTellsAll UseWasApproved
PROPERTY ImplementsPermit
CHECK_DEADLOCK FALSE
