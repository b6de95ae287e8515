------------------------------ MODULE Storage ------------------------------
(***************************************************************************)
(* Block devices as pb-discover uses them: the udev events that bring them *)
(* in and out, the ramdisks that back device-mapper snapshots, and the     *)
(* mounts on top.  A snapshot stack is three mappings, "base" over the     *)
(* disk, "origin" over base, and "snapshot", whose writes go to a ramdisk. *)
(* Every step of a stack's life can fail; f is the set of the steps of one *)
(* callback that do: one, or two in a sync.  The kernel's side (maps,      *)
(* store, mnt, cow) and the daemon's (ram, mounted, rw, unmount, and trk,  *)
(* what a ramdisk_device records) are kept apart: the code forgets more    *)
(* than it undoes.                                                         *)
(***************************************************************************)
EXTENDS Integers, FiniteSets, FiniteSetsExt

CONSTANTS Devices,      \* disks and USB devices with distinct file systems
          Journal,      \* "norecovery" (ext4, xfs), "always" or "none"
          NoRam,        \* no ramdisk
          MaxRam,       \* bound: ramdisks tracked
          MaxScans      \* bound: reinits

ASSUME NoRamAssumption == NoRam \notin Nat

VARIABLES allow,        \* config->allow_writes
          snaps,        \* ~config->disable_snapshots
          trk,          \* handler->ramdisks: what each one records
          dev,          \* per device, see Absent
          asked,        \* devices a user or the configuration let write to
          scans

svars == <<allow, snaps, trk, dev, asked, scans>>

Tracked == DOMAIN trk

Absent == [phase |-> "absent", ram |-> NoRam, mounted |-> FALSE,
           rw |-> FALSE, unmount |-> FALSE, maps |-> {}, store |-> NoRam,
           mnt |-> "none", cow |-> FALSE, wrote |-> FALSE]

(* The daemon starts; a device without a snapshot may be mounted already. *)
StorageInit ==
  /\ allow \in BOOLEAN
  /\ snaps \in BOOLEAN
  /\ trk = [r \in {} |-> {}]
  /\ dev \in [Devices -> {[Absent EXCEPT !.mnt = m] :
                          m \in {"none"} \cup (IF snaps THEN {} ELSE {"disk"})}]
  /\ asked = {}
  /\ scans = 0

---------------------------------------------------------------------------
(* A callback's work on one device: w is the device's record with tr, what *)
(* its ramdisk records.                                                    *)

View(d) == [dev |-> dev[d],
            tr  |-> IF dev[d].ram = NoRam THEN {} ELSE trk[dev[d].ram]]

Path(w) == IF w.dev.ram = NoRam THEN "disk"
           ELSE IF "snapshot" \in w.tr THEN "snap" ELSE "null"

Rm == [snapshot |-> "rm_snapshot", origin |-> "rm_origin", base |-> "rm_base"]

(* The steps libdm and sysfs take for the daemon: each has several ways to *)
(* fail and one result.  A mapping cannot be made twice, nor over a disk   *)
(* that is mounted.                                                        *)
RunCreateTask(w, m, f) ==
  m \notin f /\ m \notin w.dev.maps /\ (m = "base" => w.dev.mnt # "disk")
SetDeviceActive(step, f) == step \notin f
GetBlockSectors(f) == "sectors" \notin f
SnapshotMergeComplete(f) == "status" \notin f
ReloadSnapshot(f) == "reload" \notin f
DestroyDevice(m, f) == Rm[m] \notin f

Make(w, m, f) ==
  IF ~RunCreateTask(w, m, f) THEN w
  ELSE [dev |-> [w.dev EXCEPT !.maps = @ \cup {m},
                              !.store = IF m = "snapshot" THEN w.dev.ram ELSE @],
        tr  |-> w.tr \cup {m}]

ReleaseRamdisk(w) == [dev |-> [w.dev EXCEPT !.ram = NoRam], tr |-> {}]

(* The mappings are removed in order; a failure leaves the rest in place,  *)
(* and the ramdisk is released all the same.                               *)
Removed(w, f) ==
  LET order == <<"snapshot", "origin", "base">>
      stuck == {i \in 1..3 : order[i] \in w.tr /\ ~DestroyDevice(order[i], f)}
      gone  == {order[i] : i \in {j \in 1..3 : \A k \in stuck : j < k}} \cap w.tr
      left  == w.dev.maps \ gone
  IN [w EXCEPT !.dev.maps = left,
               !.dev.cow = @ /\ "snapshot" \in left,
               !.dev.store = IF "snapshot" \in left THEN @ ELSE NoRam]

DestroySnapshot(w, f) ==
  IF w.dev.ram = NoRam \/ w.dev.mounted THEN w
  ELSE ReleaseRamdisk(Removed(w, f))

InitSnapshot(w, r, f) ==
  LET w0 == [w EXCEPT !.dev.ram = r]
      w1 == Make(w0, "base", f)
      w2 == Make(w1, "origin", f)
      w3 == Make(w2, "snapshot", f)
  IN IF ~GetBlockSectors(f) THEN w
     ELSE IF w1 = w0 THEN DestroySnapshot(w0, f)
     ELSE IF w2 = w1 \/ ~SetDeviceActive("suspend", f) THEN DestroySnapshot(w2, f)
     ELSE IF w3 = w2 \/ ~SetDeviceActive("resume", f) THEN DestroySnapshot(w3, f)
     ELSE w3

Attempt == [snap |-> [plain |-> "snap_plain", safe |-> "snap_safe"],
            disk |-> [plain |-> "disk_plain", safe |-> "disk_safe"]]

(* One mount(2).  The kernel holds a disk under a mapping exclusively.     *)
(* Mounting a dirty file system replays its journal unless told not to.    *)
Mounts(w, path, how, f) ==
  /\ path # "null" /\ Attempt[path][how] \notin f
  /\ path = "snap" => "snapshot" \in w.dev.maps
  /\ path = "disk" => w.dev.maps = {}

Mounted(d, w, path, how) ==
  LET replay == \/ Journal[d] = "always"
                \/ Journal[d] = "norecovery" /\ how = "plain"
  IN [w EXCEPT !.dev.mnt = path,
               !.dev.cow = @ \/ (path = "snap" /\ replay),
               !.dev.wrote = @ \/ (path = "disk" /\ replay)]

(* Mutant: recovery is attempted on the device itself. *)
TryMountRecovers(d, w, ro, f) ==
  LET path == Path(w)
  IN IF Mounts(w, path, "plain", f) THEN Mounted(d, w, path, "plain")
     ELSE w

TryMount(d, w, ro, f) ==
  LET path == Path(w)
  IN IF w.dev.ram # NoRam /\ Mounts(w, path, "plain", f)
     THEN Mounted(d, w, path, "plain")
     ELSE IF /\ w.dev.ram = NoRam \/ (ro /\ Journal[d] = "norecovery")
             /\ Mounts(w, path, "safe", f)
     THEN Mounted(d, w, path, "safe")
     ELSE w

CheckExistingMount(w) == w.dev.mnt = "disk" /\ Path(w) = "disk"

MountDevice(d, w, f) ==
  LET first  == TryMount(d, w, TRUE, f)
      clean  == DestroySnapshot(w, f)
      second == TryMount(d, clean, TRUE, f)
      done   == IF first.dev.mnt = Path(w) THEN first
                ELSE IF w.dev.ram # NoRam THEN second ELSE w
  IN IF CheckExistingMount(w)
     THEN {[w EXCEPT !.dev.mounted = TRUE, !.dev.rw = b] : b \in BOOLEAN}
     ELSE IF done.dev.mnt = Path(done) /\ "mkdir" \notin f
     THEN {[done EXCEPT !.dev.mounted = TRUE, !.dev.rw = FALSE,
                        !.dev.unmount = TRUE]}
     ELSE {IF "mkdir" \in f THEN w ELSE done}

Umounts(w, f) == w.dev.mnt # "none" /\ "umount" \notin f

UmountDevice(w, f) ==
  IF w.dev.mounted /\ w.dev.unmount /\ Umounts(w, f)
  THEN [w EXCEPT !.dev.mounted = FALSE, !.dev.mnt = "none"]
  ELSE w

---------------------------------------------------------------------------
(* A write request, its release, and the merge of a snapshot.              *)

MayWrite(w) == allow /\ w.dev.mounted

(* Mounting read-write; when that fails the device is mounted read-only    *)
(* again, and stays "mounted" even if that fails too.                      *)
RequestWrite(d, w, f) ==
  LET down == [w EXCEPT !.dev.mnt = "none"]
      up   == TryMount(d, down, FALSE, f)
      back == IF "again" \in f THEN down ELSE TryMount(d, down, TRUE, {})
  IN IF w.dev.rw \/ ~Umounts(w, f) THEN w
     ELSE IF up.dev.mnt # "none" THEN [up EXCEPT !.dev.rw = TRUE]
     ELSE back

(* devmapper_merge_snapshot.  Only the failure to suspend, to remove the   *)
(* snapshot or to make it again is noticed.                                *)
MergeSnapshot(w, f) ==
  LET bare   == [w EXCEPT !.dev.maps = @ \ {"snapshot"}, !.tr = @ \ {"snapshot"}]
      merges == w.dev.cow /\ ReloadSnapshot(f) /\ SetDeviceActive("resume", f)
      merged == [bare EXCEPT !.dev.wrote = @ \/ merges,
                             !.dev.cow = @ /\ ~(merges /\ SnapshotMergeComplete(f))]
  IN IF w.dev.mounted \/ ~SetDeviceActive("suspend", f)
        \/ "snapshot" \notin w.tr \/ ~DestroyDevice("snapshot", f)
     THEN w
     ELSE Make(merged, "snapshot", f)

(* Mutant: the stack is taken down when its snapshot cannot be remade. *)
ReleaseWriteDrops(d, w, f) ==
  LET down   == [w EXCEPT !.dev.mnt = "none", !.dev.mounted = FALSE, !.dev.rw = FALSE]
      merged == IF w.dev.ram = NoRam THEN down ELSE MergeSnapshot(down, f)
      kept   == IF "snapshot" \in merged.tr THEN merged ELSE DestroySnapshot(merged, f)
      up     == TryMount(d, kept, TRUE, f)
  IN IF ~Umounts(w, f) THEN w
     ELSE [up EXCEPT !.dev.mounted = up.dev.mnt # "none"]

ReleaseWrite(d, w, f) ==
  LET down   == [w EXCEPT !.dev.mnt = "none", !.dev.mounted = FALSE, !.dev.rw = FALSE]
      merged == IF w.dev.ram = NoRam THEN down ELSE MergeSnapshot(down, f)
      up     == TryMount(d, merged, TRUE, f)
  IN IF ~Umounts(w, f) THEN w
     ELSE [up EXCEPT !.dev.mounted = up.dev.mnt # "none"]

---------------------------------------------------------------------------
(* The handlers.                                                           *)

Put(d, r, w) ==
  /\ dev' = [dev EXCEPT ![d] = w.dev]
  /\ trk' = [q \in Tracked \cup ({r} \ {NoRam}) |-> IF q = r THEN w.tr ELSE trk[q]]

Idle == \A d \in Devices : dev[d].phase # "parsing"

Fault(steps) == {{}} \cup {{a} : a \in steps}
Faults(steps) == {{}} \cup {{a, b} : a, b \in steps}

(* Mutant: a ramdisk whose snapshot is gone is taken to be free. *)
FreeRamdisksSnapshot == {r \in Tracked : "snapshot" \notin trk[r]}

FreeRamdisks == {r \in Tracked : trk[r] = {}}

GetRamdisk(f) ==
  IF FreeRamdisks # {} THEN Min(FreeRamdisks)
  ELSE IF "mknod" \in f THEN NoRam ELSE Cardinality(Tracked)

(* udev reports the ramdisks in the order of their numbers. *)
RamdiskFound ==
  /\ Idle /\ Cardinality(Tracked) < MaxRam
  /\ trk' = [q \in Tracked \cup {Cardinality(Tracked)} |->
               IF q \in Tracked THEN trk[q] ELSE {}]
  /\ UNCHANGED <<allow, snaps, dev, asked, scans>>

(* udev_handle_block_add up to the parsers: the device gets a snapshot if  *)
(* one can be made, and is not heard of again if it cannot be mounted.     *)
HandleBlockAdd(d) ==
  /\ Idle /\ dev[d].phase = "absent"
  /\ FreeRamdisks # {} \/ Cardinality(Tracked) < MaxRam
  /\ \E f \in Fault({"mknod", "sectors", "base", "origin", "suspend", "snapshot",
                       "resume", "rm_snapshot", "rm_origin", "rm_base", "mkdir",
                       "snap_plain", "snap_safe", "disk_safe"}) :
       LET r  == IF snaps THEN GetRamdisk(f) ELSE NoRam
           w0 == [dev |-> [dev[d] EXCEPT !.mounted = FALSE, !.rw = FALSE,
                                         !.unmount = FALSE, !.ram = NoRam],
                  tr |-> {}]
           w1 == IF r = NoRam THEN w0 ELSE InitSnapshot(w0, r, f)
       IN \E w \in MountDevice(d, w1, f) :
            Put(d, r, [w EXCEPT !.dev.phase =
                         IF w.dev.mounted THEN "parsing" ELSE "absent"])
  /\ UNCHANGED <<allow, snaps, asked, scans>>

(* parser_replace_file: a parser writes a file of the device it parses. *)
ReplaceFile(d) ==
  /\ dev[d].phase = "parsing" /\ MayWrite(View(d))
  /\ \E f \in Fault({"umount", "again", "snap_plain", "snap_safe",
                      "disk_safe"}),
        g \in Fault({"umount", "suspend", "rm_snapshot", "reload", "resume",
                     "status", "snapshot", "snap_plain", "snap_safe", "disk_safe"}) :
       LET w    == RequestWrite(d, View(d), f)
           file == [w EXCEPT !.dev.cow = @ \/ w.dev.mnt = "snap",
                             !.dev.wrote = @ \/ w.dev.mnt = "disk"]
           done == IF ~w.dev.rw THEN w
                   ELSE IF dev[d].rw THEN file ELSE ReleaseWrite(d, file, g)
       IN Put(d, dev[d].ram, done)
  /\ asked' = IF allow THEN asked \cup {d} ELSE asked
  /\ UNCHANGED <<allow, snaps, scans>>

Discovered(d) ==
  /\ dev[d].phase = "parsing"
  /\ dev' = [dev EXCEPT ![d].phase = "known"]
  /\ UNCHANGED <<allow, snaps, trk, asked, scans>>

(* A user writes to a mounted snapshot from the shell. *)
UserWrites(d) ==
  /\ Idle /\ dev[d].mnt = "snap"
  /\ dev' = [dev EXCEPT ![d].cow = TRUE, ![d].wrote = FALSE]
  /\ UNCHANGED <<allow, snaps, trk, asked, scans>>

SyncFaults == Faults({"umount", "suspend", "rm_snapshot", "reload", "resume",
                      "status", "snapshot", "snap_plain", "snap_safe"})

(* The sync event for one device; for all of them it is one after another. *)
Sync(d) ==
  /\ Idle /\ dev[d].phase = "known" /\ dev[d].ram # NoRam
  /\ \E f \in SyncFaults : Put(d, dev[d].ram, ReleaseWrite(d, View(d), f))
  /\ asked' = asked \cup {d}
  /\ UNCHANGED <<allow, snaps, scans>>

(* destroy_device: what the talloc destructor of a device undoes. *)
Destroyed(d, f) ==
  LET w == DestroySnapshot(UmountDevice(View(d), f), f)
  IN [w EXCEPT !.dev = [@ EXCEPT !.phase = "absent", !.ram = NoRam,
                                 !.mounted = FALSE, !.rw = FALSE, !.unmount = FALSE]]

RemovalFaults == Fault({"umount", "rm_snapshot", "rm_origin", "rm_base"})

HandleDevRemove(d) ==
  /\ Idle /\ dev[d].phase = "known"
  /\ \E f \in RemovalFaults : Put(d, dev[d].ram, Destroyed(d, f))
  /\ UNCHANGED <<allow, snaps, asked, scans>>

(* device_handler_reinit: every device goes, then the list of ramdisks.    *)
(* One removal may fail.                                                   *)
ReinitStorage ==
  /\ Idle /\ scans < MaxScans
  /\ \E x \in Devices, f \in RemovalFaults :
       dev' = [d \in Devices |->
                 IF dev[d].phase = "known"
                 THEN Destroyed(d, IF d = x THEN f ELSE {}).dev ELSE dev[d]]
  /\ trk' = [r \in {} |-> {}]
  /\ scans' = scans + 1
  /\ UNCHANGED <<allow, snaps, asked>>

SetConfig ==
  /\ Idle
  /\ allow' = ~allow
  /\ UNCHANGED <<snaps, trk, dev, asked, scans>>

StorageNext ==
  \/ RamdiskFound \/ ReinitStorage \/ SetConfig
  \/ \E d \in Devices : \/ HandleBlockAdd(d) \/ ReplaceFile(d) \/ Discovered(d)
                         \/ UserWrites(d) \/ Sync(d) \/ HandleDevRemove(d)

StorageSpec == StorageInit /\ [][StorageNext]_svars

---------------------------------------------------------------------------
(* A disk is written only where the configuration allowed the boot loader  *)
(* to, or a user asked for a sync: mounting, falling back from a snapshot  *)
(* to the disk, re-mounting and giving snapshots up write nothing.  File   *)
(* systems that replay a journal whatever they are told are left out.      *)
DiskUntouched ==
  \A d \in Devices : dev[d].wrote => d \in asked \/ Journal[d] = "always"

(* A ramdisk belongs to one of the devices in use, also when a merge       *)
(* failed halfway and left it without a snapshot.                          *)
OneOwner ==
  \A d, e \in {x \in Devices : dev[x].phase # "absent"} :
    dev[d].ram = dev[e].ram => d = e \/ dev[d].ram = NoRam

(* What a user wrote to a device that stays is not lost: a sync, whichever *)
(* of its steps fail, merges it or keeps it.                               *)
KeepsWrites ==
  \A d \in Devices : dev[d].cow /\ ~dev'[d].cow => dev'[d].wrote \/ dev'[d].phase = "absent"
WritesKept == [][KeepsWrites]_svars

(* "Check if free ramdisk exists": a ramdisk holds the writes of at most   *)
(* one snapshot.  Refuted: a snapshot that could not be destroyed gives    *)
(* its ramdisk back all the same.                                          *)
StoreExclusive ==
  \A d, e \in Devices : dev[d].store = dev[e].store => d = e \/ dev[d].store = NoRam
=============================================================================
