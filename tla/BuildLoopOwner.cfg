CONSTANTS
  Hubs = {h1}
  Builds = {b1}
  Rebuilds = {r1}
  Nobody = Nobody
  BuildOnStart = TRUE
  MaxDeaths = 0
SPECIFICATION LoopSpec
INVARIANTS SomeHubOwnsTheLoop
CHECK_DEADLOCK FALSE
