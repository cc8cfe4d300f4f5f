SPECIFICATION MCSpec
CONSTANTS
  People = {p1, p2}
  Presets = {"hello-world-model", "ollama", "governed"}
  Keyless = "hello-world-model"
  Contents = {1, 2}
  Creds = {"c", "d"}
  Secrets = {"s"}
  Tokens = {1, 2}
  Orders <- MCOrders
  MaxGen = 3
  MaxRevision = 3
  Nil = Nil
  Crew = {c1, c2}
  Slots = {s1, s2}
  Replicas = 1
  Builds = {"a", "b"}
  Dumps = {"f"}
  Errands <- MCErrands
  LastVersion = 1
  LastRestart = 2
  Unset = Unset
  Hands = {h1, h2}
  Engines = {"docker", "podman"}
  Chores = {"up", "quickstart", "cluster", "ollama", "model", "kagent", "agent", "tools-agent", "down"}
  NoChore = NoChore
INVARIANTS SwitchReachesPods WiringIsKept PlaneRunsWhatWasMade RestoreIsSafe BringupIsWhole
PROPERTY TokenIsKept
SYMMETRY Symmetric
CHECK_DEADLOCK FALSE
