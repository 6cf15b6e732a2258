SPECIFICATION BoundedSpec
CONSTANTS
  Char <- MCChar
  PROPERTY_KEY_SIZE = 2
  PROPERTY_VALUE_SIZE = 1
  RELATION_NAME_SIZE = 2
  LABELS_STRING = 4
  PROPS_STRING = 8
  Leftover <- MCLeftover
  Padding <- MCPadding
  Queries <- InvalidQueries
  NodeId = {1, 2}
  FirstNode = 1
  UINT16 = 65536
  MaxLabels = 2
  MaxCount = 1
PROPERTIES
  OnlyAsTyped
CHECK_DEADLOCK FALSE
