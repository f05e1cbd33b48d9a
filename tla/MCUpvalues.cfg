CONSTANTS
  NumLocals = 2
  MaxDepth = 2
  MaxClosures = 2
  MaxUvPerClosure = 2
  MaxUpvalueObjs = 3
  MaxCells = 6
  Nil = Nil
  One = One
  Values <- MCNilOnly
  NilValue = Nil
  NoUpvalue = NoUpvalue
  OwnTv = OwnTv
  Uninit = Uninit
  Dead = Dead

SPECIFICATION Spec

INVARIANTS
  TypeOK
  OpenListSorted
