SPECIFICATION Spec
CONSTANTS
  c1 = c1
  c2 = c2
  Clients <- TwoClients
  Leaving = {}
  CanQuit = TRUE
  Nobody = Nobody
  BUFSIZ = 2
  Bytes <- MCBytes
  Requests <- WithLong
  Accepted <- LongAllowed
  Store <- MCStore
  InitialStore = "0"
  Fate <- MCFate
  Effect <- MCEffect
  Reply <- MCReply
  BadRequest = BadRequest
INVARIANTS
  TypeOK
  MutualExclusion
PROPERTIES
  Serial
CHECK_DEADLOCK FALSE
