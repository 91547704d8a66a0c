SPECIFICATION FairSpec
CONSTANTS
  N = 3
  Nil = Nil
  Deaf <- MCDeaf
INVARIANTS
  TypeOK
  NoSenderWaits
PROPERTIES
  KeepsPromise
  GivesUpOnlyWithoutSuccess
  CallsEnd
  ReturnsByDeadline
