CONSTANTS
  Sids = {s1, s2}
  Threads = {w1, w2}
  Epochs = {e1, e2}
  Absent = Absent
  Day = 2
  IdleDays = 2
  AbsoluteDays = 4
  MaxTime = 10
  MaxRotations = 2
SPECIFICATION SessionsSpec
INVARIANTS CookieSlides
CHECK_DEADLOCK FALSE
