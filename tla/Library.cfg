CONSTANTS
    MaxList = 5
    MaxVal = 2
    MaxStr = 4
    MaxBits = 7
    MaxFill = 17
    MaxFree = 3
    MaxEvents = 4
    MaxBlocks = 3
SPECIFICATION Spec
INVARIANTS ContainersCorrect TextCorrect DevicesCorrect StartupCorrect HeapCorrect
