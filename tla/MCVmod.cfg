SPECIFICATION VmodSpec
CONSTANTS
  T = T
  U = U
  N = N
  SharedTypes = {T, U}
  Names = {N}
  Menu <- MCMenu
  Heads <- MCHeads
  MaxFuncs = 2
  MaxParts = 3
  None = None
  cell = cell
  mutating = mutating
  each = each
  later = later
  Vmods = {cell, mutating}
  Forms <- MCForms
  Objects = {o1, o2}
  Depth = 2
  NULL = NULL
  ABSENT = ABSENT
  Methods = {"vcl_recv", "vcl_deliver", "vcl_backend_fetch"}
  Groups <- MCGroups
  Functions <- MCFunctions
  Subs <- MCSubs
  MaxRoom = 2
SYMMETRY MCSymmetry
INVARIANTS
  ParserTypeOK
  AcceptsLegal
  SlotTyped
  AbiAgrees
  CallsTypeOK
  SoleOwner
  OnlyWhereAllowed
  ValueFaithful
PROPERTIES
  LostOnlyInPut
  RefsLostOnlyToMut
