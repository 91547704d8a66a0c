SPECIFICATION FairSpec
CONSTANTS
  N = 3
  Nil = Nil
  name = name
  Keys <- MCKeys
  KeySets <- MCKeySets
  Filtered <- MCFiltered
INVARIANTS
  TypeOK
  NoSenderWaits
  CompleteIsHonest
  EveryBackendAccounted
PROPERTIES
  Returns
  KeepsPromise
