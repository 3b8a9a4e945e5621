SPECIFICATION FairSpec
CONSTANTS
  Nil = Nil
  Reader <- SmallReader
  Writer <- SmallWriter
  Secure <- SmallSecure
INVARIANTS
  TypeOK
  NothingLost
  InOrder
  AllWritten
  RightEvent
PROPERTIES
  LineWhole
  Served
