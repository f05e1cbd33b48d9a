CONSTANTS
  G = G
  T = T
  A1 = A1
  A2 = A2
  Half = Half
  Slots = {1, 2, 3}
  Ids <- MCIds
  GlobalObject = G
  InitHeap <- MCInitHeap
  InitLocals <- MCInitLocals
  StrConsts <- MCStrConsts
  TplConsts <- MCTplConsts
  Literals <- MCLiterals
  Fractions <- MCFractions
  MaxBytecodes = 3
SPECIFICATION Spec
\* A run ends at an unimplemented operation (ReleaseAssert) or after
\* MaxBytecodes bytecodes.
CHECK_DEADLOCK FALSE
INVARIANTS TemplatesIntact
PROPERTIES LuaTablesRefined
