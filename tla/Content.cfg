CONSTANTS
  Word = 320
  Block = 16
  Sizes <- Lengths
  Files <- SomeFiles
  Edits <- SomeEdits
  Chunk = 100
SPECIFICATION ContentSpec
INVARIANTS ContentTypeOK FittingStored CksumExact VerifiedIsRead
CHECK_DEADLOCK FALSE
