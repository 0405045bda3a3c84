CONSTANTS
  None = None
  Unreadable = Unreadable
  Superscript = Superscript
  MAX_PORT = 15
  DEFAULT_PORT = 7
  MAX_INT = 40
  PortInfos <- SomePortInfos
  TakenPorts <- SomeTaken
  TransferInfos <- SomeTransferInfos
SPECIFICATION Spec
INVARIANTS
  TypeOK
  ServerUp
  SamePortMeets
  LinesFound
CHECK_DEADLOCK FALSE
