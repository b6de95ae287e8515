CONSTANTS
    NoRam = NoRam
    sda = sda
    sdb = sdb
    sdc = sdc
    luks = luks
    eth0 = eth0
    local = local
    o1 = o1
    o2 = o2
    o3 = o3
    o4 = o4
    o5 = o5
    Block = {sda, sdb, sdc}
    Crypt = {luks}
    Net = {eth0}
    Local = {local}
    Inner <- MCInner
    Options <- MCOptions
    Owner <- MCOwner
    Needs <- MCNeeds
    MaxDevices = 4
    Devices <- Disks
    Journal <- MCJournal
    MaxRam = 2
    MaxScans = 1
SPECIFICATION MCSpec
CHECK_DEADLOCK FALSE
INVARIANTS
    
    PointersAlive
    QueueFresh
    DiskUntouched
    OneOwner
PROPERTY WritesKept
