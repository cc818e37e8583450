SPECIFICATION Spec
CONSTANTS
    conf = conf
    vlan = vlan
    svi = svi
    route = route
    refresh = refresh
    save = save
    NoProc = NoProc
    Proc = {conf, vlan, save, refresh}
    Op <- OpOf
    Batch <- BatchOf
    Budget <- SlowSwitch
    Rejectable <- RefusedAny
    MaxExits = 5
INVARIANTS
    TypeOK
    SuccessMeansApplied
    ReadBackIsolated
