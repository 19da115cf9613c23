\* Uses of one lock, and of the cache; upgrades and downgrades can block for ever.
CONSTANTS
    Procs = {1, 2, 3}
    Blocks = {1, 2}
    NoProc = 0
    SectorsOf <- MCSectorsOf
    DeviceSize = 4
    Casts <- MCCasts
SPECIFICATION FairSpec
CHECK_DEADLOCK FALSE
INVARIANTS TypeOK RwExclusion DowngradeAssertion CacheCoherent
PROPERTIES AbsSpec EveryOperationReturns
