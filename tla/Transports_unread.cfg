SPECIFICATION Spec
CONSTANTS
  Nil = Nil
  Reader <- SmallReader
  Writer <- SmallWriter
  Secure <- SmallSecure
PROPERTY EndIsEnd
