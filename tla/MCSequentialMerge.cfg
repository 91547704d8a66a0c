SPECIFICATION FairSpec
CONSTANTS
  N = 3
  Nil = Nil
  id = id
  name = name
  Keys <- MCKeys
  KeySets <- MCKeySets
  Filtered <- MCFiltered
  Replacements <- MCReplacements
  Blank <- MCBlank
INVARIANTS
  TypeOK
  StopsAtFirstTrouble
  LastWriterWins
PROPERTIES
  KeepsPromise
  ParamsStable
  Returns
