SPECIFICATION Spec
CONSTANTS
  Vcls = {v1, v2}
  Fetch = {lower}
  Delivery = {flipper}
  Boxes = {b1, b2, b3, b4}
  NULL = NULL
INVARIANTS
  TypeOK
  FiltersAgree
  NothingLost
