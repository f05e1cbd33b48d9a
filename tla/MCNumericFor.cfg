CONSTANTS
  Ints <- MCInts
  NaN = NaN
  NumStrs <- MCNumStrs
  StrNum <- MCStrNum
  Others <- MCOthers
  Nil <- Nil_
  Nil_ = Nil_
  BadStr = BadStr
  Str2 = Str2
  BodyValues <- MCBodyValues
SPECIFICATION Spec
PROPERTIES
  ForLoopMatchesLua
  LoopTerminates
