CONSTANTS
  Ints <- MCInts
  NaN = NaN
  Int32s <- MCInt32s
  Others <- MCOthers
  Nil = Nil
  Str = Str
  One32 = One32
  Int32Payload <- MCInt32Payload
INIT Init
NEXT Next
INVARIANT
  BranchMatchesLua
