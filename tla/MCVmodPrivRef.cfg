SPECIFICATION Spec
CONSTANTS
  cell = cell
  mutating = mutating
  Vmods = {cell, mutating}
  Forms <- MCForms
  Objects = {o1, o2, o3}
  Depth = 2
  NULL = NULL
INVARIANTS
  RefsStay
