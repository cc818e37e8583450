SPECIFICATION FairSpec
CONSTANTS
    conf = conf
    vlan = vlan
    svi = svi
    route = route
    refresh = refresh
    save = save
    NoProc = NoProc
    Proc = {conf, vlan, route, refresh}
    Op <- OpOf
    Batch <- BatchOf
    Budget <- LossyLink
    Rejectable <- RefusedAny
    MaxExits = 5
PROPERTIES
    EveryOperationReturns
    SerialAndFair
