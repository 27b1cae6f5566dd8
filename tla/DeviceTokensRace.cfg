CONSTANTS
  kindle = kindle
  d1 = d1
  d2 = d2
  bad = bad
  Devices = {kindle}
  Digests = {d1, d2, bad}
  Malformed = {bad}
  Seeders = {hub, build}
  Operator = operator
  Secrets <- MCSecrets
  Nil = Nil
  MaxStarts = 3
  MaxCommands = 3
SPECIFICATION TokensSpec
INVARIANT NoRaceSlipsThrough
CHECK_DEADLOCK FALSE
