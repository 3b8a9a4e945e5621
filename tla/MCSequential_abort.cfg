SPECIFICATION MCSpec
CONSTANTS
  Co = {c1}
  Info = {i1}
  NoInfo = NoInfo
  Garbage = Garbage
  Delays = {1}
  MaxClock = 0
  NoMark = NoMark
  Texts <- ShortTexts
  Options <- ManyOptions
  NoLimit = 1000
  Messages <- ShortMessages
  Foreign <- ShortForeign
  Behind = 68
  Margins = {1}
  Registers <- SmallRegisters
  Part = {"base64"}
INVARIANT OwnTextNeverAborts
CHECK_DEADLOCK FALSE
