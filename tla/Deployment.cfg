SPECIFICATION Spec
CONSTANTS
    p1 = p1
    p2 = p2
    t1 = t1
    t2 = t2
    t3 = t3
    NoId = NoId
    NoLatent = NoLatent
    Procs <- MCProcs
    Threads <- MCThreads
    Home <- MCHome
    Colls = {"a"}
    Ids = {i1, i2}
    MaxDim = 2
    MaxClients = 2
    MaxFaults = 1
    Builtin = {5}
    Configs = {"A", "A2", "M", "N", "F"}
    Config <- MCConfig
    PresetsOf <- MCPresets
    OwnFiles <- MCOwnFiles
    Default = "F"
    MaxLaunches = 2
SYMMETRY Alike
CHECK_DEADLOCK FALSE
INVARIANTS TypeOK OwnConfig Findable DimsTrue MissIsSaved
