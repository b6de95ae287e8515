SPECIFICATION Spec
CONSTANTS
    None = None
    NoUuid = NoUuid
    NoTemp = NoTemp
    net = net
    disk1 = disk1
    disk2 = disk2
    onet = onet
    odisk = odisk
    oalt = oalt
    oplain = oplain
    t1 = t1
    t2 = t2
    w1 = w1
    w2 = w2
    w3 = w3
    Devices = {net, disk2}
    Options = {onet, oalt, oplain}
    DefaultOptions = {onet, oalt}
    Tasks = {t1, t2}
    Timers = {w1, w2}
    MaxAge = 2
    DevInfo <- MCDevInfo
    OptDevice <- MCOptDevice
    Configs <- MCConfigs
    TempChoices <- MCTemp
SYMMETRY Addresses
CHECK_DEADLOCK FALSE
INVARIANTS
    SingleBoot
    DefaultBootCancellable
    NoDanglingDefault
PROPERTY
    HigherPriorityWins
