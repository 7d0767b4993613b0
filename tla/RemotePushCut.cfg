CONSTANTS
  NameSeq <- TwoNames
  Contents <- OneAndTwoChunks
  Chunk = 2
  SyncEvery = 2
  Edited = {"g"}
  MaxEdits = 1
  MaxFaults = 1
SPECIFICATION Spec
INVARIANT SuccessIsPublished
