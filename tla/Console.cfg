\* Two readers and two writers; buffers of three slots, two of them used.
CONSTANTS
    INTQ_BUFSIZE = 3
    NoThread = NoThread
    NoByte = NoByte
    Readers = {r1, r2}
    Writers = {w1, w2}
    Main = w1
    MsgLen = 2
    MaxKeys = 3
    MaxPrints = 2
SPECIFICATION FairSpec
INVARIANTS TypeOK WaiterSound IerCovers OutputNotMixed
PROPERTIES OutSpec InSpec PrintReturns
CHECK_DEADLOCK FALSE
