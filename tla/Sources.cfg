CONSTANTS
    m1 = m1
    m2 = m2
    m3 = m3
    s1 = s1
    s2 = s2
    Searches <- MCSearches
    Names = 3
    NIfs = 3
    Lo = {3}
    Macs <- MCMacs
    Mac <- MCMac
    Confs <- MCConfs
    MaxClients = 4
    MaxEvents = 4
    MaxFaults = 1
    FewEvents = 3
SPECIFICATION MCSpec
INVARIANTS ReadyFirst InterfaceConfigured DevicePointers SearchesSound
CHECK_DEADLOCK FALSE
