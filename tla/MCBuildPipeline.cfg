SPECIFICATION Spec

INVARIANTS
  HeaderJsonPaired
  OutputsAllOrNothing
  GeneratedTablesConsistent
