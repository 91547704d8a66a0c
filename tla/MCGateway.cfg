SPECIFICATION Spec
CONSTANTS
  c1 = c1
  c2 = c2
  Nil = Nil
  Client <- MCClient
  Path <- MCPath
  Configurations <- MCConfigurations
CHECK_DEADLOCK FALSE
INVARIANT
  RoutedAsConfigured
PROPERTIES
  CutsNoRequestShort
  Stops
