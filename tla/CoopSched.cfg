SPECIFICATION Spec
CONSTANTS
    Threads = {t1, t2, t3}
    Mutexes = {}
    Queues = {}
    CVs = {}
    Fds = {f}
    Main = Main
    Stale = Stale
    None = None
    MainOps = {"spawn", "join", "joinfor", "sleepfor", "fd", "pass", "kill", "yield"}
    ThreadOps = {"spawn", "join", "joinfor", "sleep", "sleepfor", "fd", "pass", "yield", "kill"}
    Inline = {FALSE}
    Rescues = FALSE
    Slice = 2
    MaxItems = 1
    MaxDepth = 0
SYMMETRY Symmetry
INVARIANTS
    NoLostThread
    ParkedOnOneList
    RunqExact
    KillIsPending
    JoinMeansDone
    DeadlockIsReal
PROPERTIES
    ResumesOnlySuspended
