CONSTANTS
  NameSeq <- TwoNames
  Contents <- OneAndTwoChunks
  Chunk = 2
  SyncEvery = 2
  Edited = {"f"}
  MaxEdits = 2
  MaxFaults = 1
SPECIFICATION FairSpec
INVARIANTS TransferIsSound UncutSuccessIsPublished
PROPERTY EventuallyPushed
