\* Four threads and a table of five entries, in each of the settings.
CONSTANTS
    t1 = t1
    t2 = t2
    t3 = t3
    t4 = t4
    Threads = {t1, t2, t3, t4}
    InitThread = t1
    NoThread = NoThread
    MAX_PROCESSES = 5
    Codes = {}
    d1 = d1
    d2 = d2
    Dirs = {d1, d2}
    NoDir = NoDir
    Settings <- MCSettings
SPECIFICATION FairSpec
INVARIANTS TypeOK OneThreadPerEntry WaitAfterExit ListsSound NoEntryLost NoStaleParent AssertionsHold
PROPERTIES CallsReturn
