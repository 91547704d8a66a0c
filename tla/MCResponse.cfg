SPECIFICATION Spec
CONSTANTS
  Names <- MCNames
  Depth = 3
  Given <- MCGiven
INVARIANTS
  TypeOK
  FilteredExactly
  RenamedInAnyOrder
  CompletedFromSuccess
  ErrorNotDisguised
