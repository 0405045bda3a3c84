CONSTANTS
  Length <- FewBytes
  CodeLength = 2
  Networks <- SomeNetworks
  NUMBER_OF_FILE_SENDING = 3
SPECIFICATION FairSpec
INVARIANTS TypeOK InStep ReadWhole AnswerInStep MarkedIsFile
PROPERTY SessionEnds
CHECK_DEADLOCK FALSE
