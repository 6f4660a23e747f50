SPECIFICATION FairSpec
CONSTANTS
    Block <- MCBlock
    Genesis = "g"
    NoBlock = "none"
    Parent <- MCParent
    Level <- MCLevel
    KeyOrder <- MCKeyOrder
    Sound <- MCSound
    ForkOk <- MCBlock
    Mined = {"a1", "a2"}
    Peer = {"p", "q"}
    NoPeer = "nobody"
    PeerChain <- MCPeerChain
    FirstTip <- MCFirstTip
    Strays = {"a1", "b4"}
    LIMIT = 2
    STEP = 1
    RESET_STEP = 2
    RESET_LIMIT = 4
    MaxFaults = 1
PROPERTY
    SyncResumes
CHECK_DEADLOCK FALSE
