SPECIFICATION FairSpec
CONSTANTS
  c1 = c1
  c2 = c2
  Clients <- TwoClients
  Leaving <- OneLeaves
  CanQuit = FALSE
  Nobody = Nobody
  BUFSIZ = 3
  Bytes <- MCBytes
  Requests <- WithOdd
  Accepted <- WithOddAllowed
  Store <- MCStore
  InitialStore = "0"
  Fate <- MCFate
  Effect <- MCEffect
  Reply <- MCReply
  BadRequest = BadRequest
INVARIANTS
  NothingLeftOver
PROPERTIES
  OnlyForAReason
  Serial
  AnsweredUnlessOvertaken
CHECK_DEADLOCK FALSE
