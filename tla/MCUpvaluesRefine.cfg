CONSTANTS
  NumLocals = 2
  MaxDepth = 2
  MaxClosures = 2
  MaxUvPerClosure = 1
  MaxUpvalueObjs = 2
  MaxCells = 6
  Nil = Nil
  One = One
  Values <- MCNilOnly
  NilValue = Nil
  NoUpvalue = NoUpvalue
  OwnTv = OwnTv
  Uninit = Uninit
  Dead = Dead

SPECIFICATION Spec

PROPERTIES
  UpvalueSemanticsRefined
