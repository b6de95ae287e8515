SPECIFICATION MCSpec
CONSTANTS
    Addr = {w1, w2, w3}
    Delays <- MCDelays
    MaxTime = 2
    p1 = p1
    p2 = p2
    p3 = p3
    image = image
    initrd = initrd
    dtb = dtb
    image_sig = image_sig
    Proc = {p1, p2, p3}
    Keep = {p1}
    Stdin = {p2}
    MaxFd = 4
    MaxOut = 1
    MaxSig = 1
    Basic = {image, initrd, dtb}
    Rank <- MCRank
    Image = image
    Signatures = {image_sig}
INVARIANTS CopyAllocated ReferencesHeld 
PROPERTIES TimersFire ExitNoticed KexecComplete JobSpec BootEnds
CHECK_DEADLOCK FALSE
