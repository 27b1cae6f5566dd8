CONSTANTS
  Workers = {w1}
  Tokens = {t1}
  NoToken = NoToken
  Peers = {home, away}
SPECIFICATION DoorSpec
INVARIANT DroppedIsOut
CHECK_DEADLOCK FALSE
