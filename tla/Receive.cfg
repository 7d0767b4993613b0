CONSTANTS
  Served = {"m2a", "m2d", "m2fj", "m2j"}
  FileSeq <- F1
  Versions = {1, 2}
  Size = 2
  SyncEvery = 1
  MaxRestarts = 1
  MaxPushes = 2
  MaxFaults = 1
SPECIFICATION Spec
INVARIANTS InStep BooksAgree SuccessIsPublished
PROPERTY SessionEnds
