SPECIFICATION Spec
CONSTANTS
    Threads = {t1}
    NoThread = NoThread
    Probes = 1
    MaxTasks = 1
INVARIANT ExclusivePort
