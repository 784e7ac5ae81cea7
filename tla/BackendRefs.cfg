SPECIFICATION Spec
CONSTANTS
  Backends = {be}
  Directors = {dir}
  Native = {nat}
  Static = {vclbe}
  Tasks = {t1, t2}
  NULL = NULL
INVARIANTS
  TypeOK
  RefsExact
  NoFault
