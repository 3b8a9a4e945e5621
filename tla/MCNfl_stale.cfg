SPECIFICATION Spec
CONSTANTS
  c1 = c1
  c2 = c2
  Co = {c1}
  Info = {i1, i2}
  NoInfo = NoInfo
  Garbage = Garbage
  Delays = {1, 2}
  MaxClock = 3
  Client = FALSE
  MayStop = FALSE
  Listening = FALSE
  Kicks <- NoKicks
  Nested = FALSE
  MaxLag = 1
  Horizon = 4
PROPERTY NoStaleTimer
