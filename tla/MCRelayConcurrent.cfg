SPECIFICATION Spec
CONSTANTS
  Chunks = 2
  Nil = Nil
  Concurrency <- MCConcurrency
INVARIANT
  WholeBody
