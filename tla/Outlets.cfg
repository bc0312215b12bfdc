SPECIFICATION Spec
CONSTANTS
    Peers = {p1, p2}
    NoPeer = NoPeer
    MaxClients = 1
    ClientQueue = 1
    MaxPackets = 3
    SenderQueue = 2
    MaxInstances = 2
    MaxHandles = 2
    MaxBlocks = 3
    Frames = 3
    HeaderLength = 2
    FrameLength = 4
    FalseSync = {3}
    MaxChunk = 5
    MaxBuffer = 8
    MaxSuffix = 2
    Addresses = {1, 2}
CHECK_DEADLOCK FALSE
INVARIANTS TypeOK NoHandleLeft FramesArrive AnnouncedAsShown
PROPERTIES NoGap PlacesComeBack SentInOrder StoppedSilent StoppedEnds AddressFollows
