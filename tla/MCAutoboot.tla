----------------------------- MODULE MCAutoboot -----------------------------
(* Instances of Autoboot: a network device and disks, in a boot order that  *)
(* prefers the network.                                                     *)
EXTENDS Autoboot, TLC

CONSTANTS net, disk1, disk2, onet, odisk, oalt, oplain, t1, t2, w1, w2, w3

TypeIs(t) == [boot_type |-> "type", value |-> t]
UuidIs(u) == [boot_type |-> "uuid", value |-> u]

MCDevInfo == [d \in Devices |->
    CASE d = net   -> [type |-> "network", uuid |-> "mac"]
      [] d = disk1 -> [type |-> "disk", uuid |-> "u1"]
      [] OTHER     -> [type |-> "disk", uuid |-> NoUuid]]
MCOptDevice == [o \in Options |->
    CASE o = onet -> net [] o = odisk -> disk1 [] OTHER -> disk2]

NetworkFirst(sec) ==
    [autoboot_enabled |-> TRUE, autoboot_timeout_sec |-> sec,
     ipmi_bootdev |-> "none",
     autoboot_opts |-> <<TypeIs("network"), TypeIs("any")>>]
AnyDevice ==
    [autoboot_enabled |-> TRUE, autoboot_timeout_sec |-> 2,
     ipmi_bootdev |-> "none", autoboot_opts |-> <<>>]
IpmiDisk == [NetworkFirst(1) EXCEPT !.ipmi_bootdev = "disk"]
NetworkOnly ==
    [NetworkFirst(0) EXCEPT !.autoboot_opts = <<TypeIs("network")>>]
ByUuid ==
    [NetworkFirst(1) EXCEPT !.autoboot_opts = <<UuidIs("mac"), TypeIs("any")>>]

MCConfigs == {NetworkFirst(1), NetworkOnly, ByUuid}
MCLiveConfigs == {AnyDevice, IpmiDisk}
MCTemp == {TypeIs("disk")}

Addresses == Permutations(Tasks) \cup Permutations(Timers)
=============================================================================
