CONSTANTS
  Hubs = {h1, h2}
  Builds = {b1, b2}
  Rebuilds = {q1, q2}
  Nobody = Nobody
  BuildOnStart = TRUE
  MaxDeaths = 2
  kindle = kindle
  d1 = d1
  d2 = d2
  bad = bad
  Devices = {kindle}
  Digests = {d1, d2, bad}
  Malformed = {bad}
  Seeders = {hub, build}
  Operator = operator
  Secrets <- MCSecrets
  Nil = Nil
  MaxStarts = 3
  MaxCommands = 3
  Sids = {s1}
  Threads = {t1, t2}
  Epochs = {e1, e2}
  Absent = Absent
  Day = 2
  IdleDays = 2
  AbsoluteDays = 4
  MaxTime = 10
  MaxRotations = 2
  Docs = {1, 2, 3}
  Titles = {1, 2}
  NoRow = NoRow
  PageSize = 2
  MaxClock = 2
  MaxCommits = 2
  MaxWalks = 2
  Files = {1, 2}
  Readers = {r1, r2}
  NoFile = NoFile
  TTL = 2
  MaxTick = 4
  MaxChanges = 1
  Names = {"a", "b", "c"}
  Paths = {1, 2, 3}
  NameOf <- MCNameOf
  Headings = {"", "x", "y"}
  MaxLines = 5
  Workers = {w1}
  Tokens = {k1}
  NoToken = NoToken
  Peers = {home, away}
  LoginThreads = {l1, l2, l3}
  Slots = 2
  Wait = 1
SPECIFICATION HubSpec
INVARIANTS HubTypeOK OneSweeper NoLostRequest LastSeenLag ActiveIsAccepted StaleOnlyWhenSilent WalkShowsAll ListingIsRecent ShelvesFollowManifest FreshAdmission RefusedOnlyIfWedged EveryUseIsLogged RefusedOnlyUnderLoad
PROPERTIES LoopServes LoginsAnswered OnlyARaceRevives DroppedStaysDropped StaleIsRefused
CHECK_DEADLOCK FALSE
