SPECIFICATION Spec
CONSTANTS
    conf = conf
    vlan = vlan
    svi = svi
    route = route
    refresh = refresh
    save = save
    NoProc = NoProc
    Proc = {conf, vlan, svi, save, refresh}
    Op <- OpOf
    Batch <- BatchOf
    Budget <- LossyLink
    Rejectable <- RefusedConfig
    MaxExits = 5
INVARIANTS
    LockDiscipline
    NeverInterleaved
    ReadBackIsolated
    ContextSafety
    SuccessMeansApplied
    OwnAnswer
    ModeAgreement
    AtMostTwice
    SaveMeansSaved
PROPERTIES
    SerialOperations
