\* The assertion of cond_signal.
CONSTANTS
    t1 = t1
    t2 = t2
    t3 = t3
    t4 = t4
    l1 = l1
    Threads = {t1, t2, t3}
    Idle = idle
    PRI_MAX = 2
    TIME_SLICE = 1
    Main = t1
    InitPri <- PriEqual
    Locks = {l1}
    LockRank <- RankL1First
    Semas = {}
    SemaValue <- SemaZero
    NoThread = NoThread
    NoLock = NoLock
    NoSema = NoSema
    Ops = {"lock", "cond", "tick"}
    MaxCalls = 4
    MaxSleep = 0
SPECIFICATION Spec
INVARIANTS SignalFindsWaiter
