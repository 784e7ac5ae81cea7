SPECIFICATION RequestSpec
CONSTANTS
  Lengths = {0, 1, 2, 3}
  MaxAttempts = 3
  ETag = ETag
  etag = etag
  host = host
  http11 = http11
  text = text
  Names = {ETag, etag, host}
  Fold <- MCFold
  Etag = ETag
  v = v
  Headers <- MCHeaders
  Old = http11
  Lines = {text}
  Version <- MCVersion
  NULL = NULL
  Room = 3
INVARIANTS
  TypeOK
  
  ReadersServed
  HttpTypeOK
PROPERTIES
  RetryReadable
  ImplementsList
