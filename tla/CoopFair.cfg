SPECIFICATION FairSpec
CONSTANTS
    Threads = {t1, t2}
    Mutexes = {m}
    Queues = {q}
    CVs = {}
    Fds = {}
    Main = Main
    Stale = Stale
    None = None
    MainOps = {"spawn", "join"}
    ThreadOps = {"lock", "push", "pop", "pass", "yield", "sleepfor", "kill", "join"}
    Inline = {FALSE}
    Rescues = FALSE
    Slice = 3
    MaxItems = 1
    MaxDepth = 0
PROPERTIES RunnableRuns KilledDies
