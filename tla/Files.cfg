CONSTANTS
    DeviceSize = 24
    NUM_DIRECT = 1
    NUM_SINGLE_INDIRECT = 1
    LongNames = {"long"}
    Procs = {0, 1}
    MAX_FILES = 4
    MAX_GLOBAL_FILES = 2
    PGSIZE = 4
    Paths <- MCPaths
    Sizes = {6}
    StartSizes = {6, 38}
    Transfers <- MCTransfers
    MaxCalls = 4
SPECIFICATION Spec
INVARIANTS SectorsAccounted ContentsKept HandlesCounted StopsForCause
