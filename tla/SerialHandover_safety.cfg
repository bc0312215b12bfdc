SPECIFICATION Spec
CONSTANTS
    Threads = {t1, t2}
    NoThread = NoThread
    Probes = 1
    MaxTasks = 2
SYMMETRY ThreadSymmetry
INVARIANTS OneSource NoOrphanGate ParkedQuiet
PROPERTIES KeepsLifecycle
