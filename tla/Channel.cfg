CONSTANTS
    MaxQueueDepth = 3
    Payloads = {1, 2, 3}
    MaxFrame = 2
    MaxCalls = 5
    MaxRebinds = 1
SPECIFICATION Spec
INVARIANT QueueNeverEnds
CHECK_DEADLOCK FALSE
