SPECIFICATION Spec
CONSTANTS
    Threads = {t1, t2, t3}
    Mutexes = {m}
    Queues = {q}
    CVs = {}
    Fds = {}
    Main = Main
    Stale = Stale
    None = None
    MainOps = {"spawn", "join", "lock", "push", "kill"}
    ThreadOps = {"lock", "push", "pop", "pass", "kill", "sleepfor", "wakeup"}
    Inline = {TRUE, FALSE}
    Rescues = FALSE
    Slice = 2
    MaxItems = 1
    MaxDepth = 0
SYMMETRY Symmetry
INVARIANTS
    NoLostThread
PROPERTIES
    ResumesOnlySuspended
