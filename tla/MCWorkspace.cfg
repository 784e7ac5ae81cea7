SPECIFICATION Spec
CONSTANTS
  Base = 4
  Size = 22
  Align = 4
  U32 = 64
  Kinds <- MCKinds
  Lengths = {0, 1, 3, 4, 9}
  Blob <- MCBlob
  SharedUse = FALSE
  NULL = NULL
INVARIANT TypeOK
INVARIANT GivenApart
INVARIANT BuilderSafe
INVARIANT BlobsAligned
