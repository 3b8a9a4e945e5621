SPECIFICATION FairSpec
CONSTANTS
  c1 = c1
  c2 = c2
  Co = {c1, c2}
  Info = {i1, i2}
  NoInfo = NoInfo
  Garbage = Garbage
  Delays = {1}
  MaxClock = 1
  Client = TRUE
  MayStop = FALSE
  Listening = TRUE
  Kicks <- Selfish
  Nested = TRUE
  MaxLag = 1
  Horizon = 2
INVARIANTS TypeOK RunQueueSound RefCount SleepSafe
PROPERTIES TimerDelivered TimersFire ClientReturns EveryoneRuns
