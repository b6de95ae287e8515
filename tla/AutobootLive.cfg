SPECIFICATION FairSpec
CONSTANTS
    None = None
    NoUuid = NoUuid
    NoTemp = NoTemp
    net = net
    disk1 = disk1
    disk2 = disk2
    onet = onet
    odisk = odisk
    oalt = oalt
    oplain = oplain
    t1 = t1
    t2 = t2
    w1 = w1
    w2 = w2
    w3 = w3
    Devices = {net, disk1}
    Options = {onet, odisk}
    DefaultOptions = {onet, odisk}
    Tasks = {t1, t2}
    Timers = {w1, w2}
    MaxAge = 2
    DevInfo <- MCDevInfo
    OptDevice <- MCOptDevice
    Configs <- MCLiveConfigs
    TempChoices <- MCTemp
CHECK_DEADLOCK FALSE
PROPERTIES
    CountdownEnds
