SPECIFICATION Spec
SYMMETRY Symmetry
CONSTANTS
    Threads = {t1, t2}
    Mutexes = {m}
    Queues = {q}
    CVs = {cv}
    Fds = {}
    Main = Main
    Stale = Stale
    None = None
    MainOps = {"spawn", "join", "lock", "push", "pop", "close", "clear", "wait", "waitfor", "signal", "broadcast"}
    ThreadOps = {"lock", "trylock", "push", "pop", "wait", "waitfor", "signal", "broadcast"}
    Inline = {FALSE}
    Rescues = FALSE
    Slice = 3
    MaxItems = 2
    MaxDepth = 1
INVARIANTS
    MutualExclusion
    NoStrandedLocker
    NoStrandedPopper
    DeadlockIsDetected
