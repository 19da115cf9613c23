\* Four threads of rising priority, one lock and one semaphore, between timer ticks.
CONSTANTS
    t1 = t1
    t2 = t2
    t3 = t3
    t4 = t4
    l1 = l1
    Threads = {t1, t2, t3, t4}
    Idle = idle
    PRI_MAX = 3
    TIME_SLICE = 1
    Main = t1
    InitPri <- PriRising
    Locks = {l1}
    LockRank <- RankL1First
    Semas = {s1}
    SemaValue <- SemaZero
    NoThread = NoThread
    NoLock = NoLock
    NoSema = NoSema
    Ops = {"lock", "try", "sema"}
    MaxCalls = 6
    MaxSleep = 0
SPECIFICATION Spec
INVARIANTS NoPriorityInversion HighestRuns
