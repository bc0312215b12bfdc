SPECIFICATION FairSpec
CONSTANTS
    Items = {pkg}
    Package = pkg
    Records = {r1}
    Handlers = {h1, h2}
    MaxRuns = 2
    PidReuse = TRUE
INVARIANTS SuccessIsNew RunsInstalled RollbackPossible NotLeftStopped
PROPERTIES ActiveEnds
