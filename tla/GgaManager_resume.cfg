SPECIFICATION Spec
CONSTANTS
    Positions = {1, 2, 3, 4, 5}
    Lines = {1, 2, 3, 4}
    StaleLimit = 4
    KeepAlive = 2
    MaxDrop = 3

PROPERTY ReportsResume
