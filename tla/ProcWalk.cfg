\* Four threads and a table of four, programs that leave children.
CONSTANTS
    t1 = t1
    t2 = t2
    t3 = t3
    t4 = t4
    Threads = {t1, t2, t3, t4}
    InitThread = t1
    NoThread = NoThread
    MAX_PROCESSES = 4
    Codes = {}
    d1 = d1
    d2 = d2
    Dirs = {d1, d2}
    NoDir = NoDir
    Settings <- MCAbandon
SPECIFICATION Spec
INVARIANTS WalkAssertion
