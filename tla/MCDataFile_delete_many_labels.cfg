SPECIFICATION KeptSpec
CONSTANTS
  MAX_BLOCKS = 9
  NODES_IN_CONTROL_BLOCK = 3
  NODES_IN_BLOCK = 2
  LABELS_IN_BLOCK = 2
  ATTRIBUTES_IN_BLOCK = 2
  RELATIONS_IN_BLOCK = 2
  STRING_DATA = 10
  String <- MCString
  strlen <- MCstrlen
  Unwritten = Unwritten
  ALL = ALL
  UINT16 = 65536
  Commands <- ManyLabelsCommands
  KillPoints <- NoPoints
  QuitPoints <- NoPoints
INVARIANT
  CellsOwnedOnce
