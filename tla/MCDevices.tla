----------------------------- MODULE MCDevices -----------------------------
(***************************************************************************)
(* An instance of DeviceHandler with block and encrypted devices whose     *)
(* options need resources of one another, one with a network interface     *)
(* next to the "local" device of configuration URLs, and one of Storage    *)
(* with two disks, one of which has a journal.  They share no option, no   *)
(* resource and no disk, so a behaviour is about one of them: `side' is    *)
(* chosen at the start.                                                    *)
(***************************************************************************)
EXTENDS DeviceHandler, Storage, TLC

CONSTANTS sda, sdb, sdc, luks, eth0, local, o1, o2, o3, o4, o5

VARIABLE side

MCInner == (luks :> sdc)

(* o1 has its kernel on sda and its initrd on sdb, o2 the other way round   *)
(* and a third resource inside the encrypted device, o3 is complete.        *)
MCOptions == {o1, o2, o3, o4, o5}
MCOwner == (o1 :> sda) @@ (o2 :> sdb) @@ (o3 :> sdc) @@ (o4 :> eth0) @@ (o5 :> local)
MCNeeds == (o1 :> <<sda, sdb>>) @@ (o2 :> <<sdc, sda>>) @@
           (o3 :> <<>>) @@ (o4 :> <<>>) @@ (o5 :> <<>>)

UserNext(ds) == \E d \in ds : DeviceRemove(d) \/ \E os \in Fresh(d) : UserAdd(d, os)

Disks == {"sda1", "sdb1"}
MCJournal == [d \in Disks |-> IF d = "sdb1" THEN "none" ELSE "norecovery"]

MCInit ==
    /\ Init
    /\ \/ /\ side \in {"disk", "net"}
          /\ allow = FALSE /\ snaps = TRUE /\ trk = <<>> /\ asked = {} /\ scans = 0
          /\ dev = [d \in Disks |-> Absent]
       \/ side = "storage" /\ StorageInit

MCNext ==
    /\ \/ /\ \/ side = "disk" /\ (BlockNext \/ UserNext(Block \cup Crypt))
             \/ side = "net" /\ (NetNext \/ UserNext(Net \cup Local))
             \/ side # "storage" /\ (Reinit \/ Connect \/ Disconnect)
          /\ UNCHANGED svars
       \/ side = "storage" /\ StorageNext /\ UNCHANGED vars
    /\ UNCHANGED side

MCSpec == MCInit /\ [][MCNext]_<<vars, svars, side>>
=============================================================================
