\* Every call by three threads of rising priority, one lock with its condition
\* and one semaphore; the timer may end the time slice after any step.
CONSTANTS
    t1 = t1
    t2 = t2
    t3 = t3
    t4 = t4
    l1 = l1
    Threads = {t1, t2, t3}
    Idle = idle
    PRI_MAX = 2
    TIME_SLICE = 2
    Main = t1
    InitPri <- PriRising
    Locks = {l1}
    LockRank <- RankL1First
    Semas = {s1}
    SemaValue <- SemaZero
    NoThread = NoThread
    NoLock = NoLock
    NoSema = NoSema
    Ops = {"lock", "try", "sema", "cond", "sleep", "setpri", "tick"}
    MaxCalls = 4
    MaxSleep = 1
SPECIFICATION Spec
INVARIANTS TypeOK LockExclusion NoLostWakeup ElemOnOneList
