SPECIFICATION LiveSpec
CONSTANTS
    Actions = {"diagnose", "write", "dryRun", "measure", "restore"}
    Pids = {1, 2}
    Default = 115200
    Official = {115200, 460800}
    NoRate = 0
    MaxTasks = 2
    MaxKills = 1
    MaxFaults = 1
CHECK_DEADLOCK FALSE
INVARIANTS InterruptionShown NoticeTrue NoFalseAllClear WayBack
PROPERTIES CancelEnds
