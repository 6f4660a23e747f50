CONSTANTS
    Address <- MCAddress
    Zero = "zero"
    Registry = "reg"
    RegistryCode = "regcode"
    AppOf <- MCAppOf
    SeedOf <- MCSeedOf
    OrgOf <- MCOrgOf
    Restricted = {"odax"}
    Slot = {"odax", "org", "slot"}
    Code = {"regcode", "c1", "c2"}
    Method <- MCMethod
    Program <- MCProgram
    Block <- MCBlock
    Supply = 5
    Reward = 3
    MaxLevel = 3
    MaxHeaders = 4
SPECIFICATION Spec
INVARIANTS TypeOK   PlainForkAccepted  
