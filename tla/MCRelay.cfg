SPECIFICATION FairSpec
CONSTANTS
  Chunks = 2
  Nil = Nil
  Concurrency <- MCConcurrency
INVARIANTS
  TypeOK
  WholeBodyOfOneCall
PROPERTIES
  Prompt
  Released
