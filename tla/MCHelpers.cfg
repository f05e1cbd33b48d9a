CONSTANTS
  NegZero_ = NegZero_
  NaN_ = NaN_
  Unset_ = Unset_
  Nil_ = Nil_
  Str_ = Str_

SPECIFICATION Spec

INVARIANTS
  ModMatchesFlooredDefinition
  EqualKeysHashEqual
  PiecewiseMatchesWhole
  ArgumentListIsArgsThenVarRets
  PaddingMinimal
