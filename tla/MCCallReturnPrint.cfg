CONSTANTS
  Callees <- MCAllCallees
  RootSlots = 4
  MaxDepth = 3
  FuncSlots = {0, 1}
  NumFixed = {0, 1, 2}
  NumFixedRets = {0, 1, 4}
  MaxAddr = 30
  MaxCalls = 2
  Nil = Nil
  Hdr = Hdr
  Garbage = Garbage

SPECIFICATION Spec

INVARIANTS
  ResultsAdjusted
