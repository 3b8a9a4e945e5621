SPECIFICATION MCSpec
CONSTANTS
  Co = {c1, c2}
  Info = {i1, i2, i3, i4, i5}
  NoInfo = NoInfo
  Garbage = Garbage
  Delays = {1, 2}
  MaxClock = 2
  NoMark = NoMark
  Texts <- ShortTexts
  Options <- ManyOptions
  NoLimit = 1000
  Messages <- ShortMessages
  Foreign <- ShortForeign
  Behind = 68
  Margins = {1, 2}
  Registers <- SmallRegisters
  Part = {"queue", "wrap", "base64", "lfsr"}
SYMMETRY InfoSymmetry
INVARIANTS
  TypeOK IndexInHeap HeapOrdered
  TypesOK LinesFit NothingDropped RoundTrip StrictIsCanonical Period
PROPERTIES ImplementsBag Progress
CHECK_DEADLOCK FALSE
