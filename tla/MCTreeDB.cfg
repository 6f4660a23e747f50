SPECIFICATION FairSpec
CONSTANTS
    Key = {"m", "a"}
    Value = {0, 1}
    Absent = Absent
    Deleted = Deleted
    Nothing = Nothing
    Reader = {"r"}
    Age <- MCAge
    Batches <- MCBatches
    Writes <- MCWrites
    MaxTrees = 3
INVARIANTS
    ReadIsRight
PROPERTIES
    ReadEnds
    ImplementsVersionedState
