SPECIFICATION Spec
CONSTANTS
    Block <- MCBlock
    Genesis = "g"
    NoBlock = "none"
    MaxLevel = 3
    Parent <- MCParent
    Level <- MCLevel
    Root <- MCRoot
    NoRoot = "empty"
    StateRoot <- MCStateRoot
    Exec <- MCExec
    ForkExec <- MCForkExec
    Sound <- MCSound
    RetargetRef <- MCRetargetRef
    RETARGETING_INTERVAL = 2
    Thread = {"main", "miner"}
    NoThread = "nobody"
    Main = "main"
    Batches <- MCBatches
    Broadcasts = {"b2"}
    MaxCrashes = 1
INVARIANTS
    TypeOK
    HeadStatePersisted
    StateMatchesHead
    IndexNeverDangles
    StoreComplete
    ExecutedChainStored
PROPERTIES
    HeadFallsOnlyInRollback
