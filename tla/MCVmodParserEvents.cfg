SPECIFICATION ParserSpec
CONSTANTS
  T = T
  U = U
  N = N
  SharedTypes = {T, U}
  Names = {N}
  Menu <- MCMenu
  Heads <- MCHeads
  MaxFuncs = 1
  MaxParts = 2
  None = None
INVARIANT
  EventsAsDocumented
CHECK_DEADLOCK FALSE
