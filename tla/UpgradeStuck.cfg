\* Three users of one lock.
CONSTANTS
    Procs = {1, 2, 3}
    Blocks = {1, 2}
    NoProc = 0
    SectorsOf <- MCSectorsOf
    DeviceSize = 4
    Casts <- LockCasts
SPECIFICATION FairSpec
CHECK_DEADLOCK FALSE
PROPERTY UpgradeCompletes
