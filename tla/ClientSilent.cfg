SPECIFICATION SilentSwitchSpec
CONSTANTS
    conf = conf
    vlan = vlan
    svi = svi
    route = route
    refresh = refresh
    save = save
    NoProc = NoProc
    Proc = {conf, vlan}
    Op <- OpOf
    Batch <- BatchOf
    Budget <- OneTimeout
    Rejectable <- RefusedConfig
    MaxExits = 5
PROPERTIES
    EveryCommandReturns
