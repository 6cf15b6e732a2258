SPECIFICATION BoundedSpec
CONSTANTS
  Thread = {1, 2}
  Value = {"a", "b"}
  Address = {1, 2, 3, 4, 5, 6, 7, 8}
  Owner = {2}
  LIST = 1
  NODE = 1
  PROP = 2
  ULLONG = 16
  MaxSize <- MCMaxSize
  MaxAsked = 8
  MaxRaced = 3
INVARIANTS
  TypeOK
  BothWays
  NothingElseLost
  BytesHeld
  NeverMore
  ExactUnlessRaced
PROPERTIES
  Implements
CHECK_DEADLOCK FALSE
