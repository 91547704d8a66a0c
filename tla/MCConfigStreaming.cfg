SPECIFICATION Spec
CONSTANTS
  Bad = Bad
  Methods = {"", "GET", "POST"}
  NameOrder <- MCNameOrder
  StrictNames <- MCStrictNames
  SequentialNames <- MCSequentialNames
  Key <- MCKey
  Given <- MCGiven
INVARIANTS
  StreamingUnmanipulated
