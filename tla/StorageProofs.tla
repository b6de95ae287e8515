---------------------------- MODULE StorageProofs ----------------------------
(* Proofs about Storage, for any devices, any number of ramdisks and any       *)
(* number of reinits.                                                          *)
EXTENDS Storage, FiniteSetTheorems, WellFoundedInduction, TLAPS

Mapping == {"snapshot", "origin", "base"}

(* Mappings are made and removed one on top of the other. *)
Stacks == {{}, {"base"}, {"base", "origin"}, Mapping}

Records ==
    [phase : {"absent", "parsing", "known"}, ram : Nat \cup {NoRam}, mounted : BOOLEAN,
     rw : BOOLEAN, unmount : BOOLEAN, maps : Stacks, store : Nat \cup {NoRam},
     mnt : {"none", "disk", "snap"}, cow : BOOLEAN, wrote : BOOLEAN]

(* What is written to or mounted is there.  Writes outlive their snapshot only *)
(* while the device is in use, with a ramdisk, between a merge and the next.   *)
Founded(r) ==
    /\ r.cow => "base" \in r.maps
    /\ r.cow /\ (r.phase = "absent" \/ r.ram = NoRam) => "snapshot" \in r.maps
    /\ r.mnt = "snap" => "snapshot" \in r.maps

(* A device in use has a ramdisk that records its mappings, the two lower ones *)
(* at least, so that the ramdisk does not pass for a free one.                 *)
Backed(d) ==
    dev[d].phase # "absent" =>
        /\ dev[d].ram # NoRam =>
             /\ dev[d].ram \in Tracked /\ trk[dev[d].ram] = dev[d].maps
             /\ "origin" \in dev[d].maps
             /\ dev[d].mounted => "snapshot" \in dev[d].maps
        /\ dev[d].mnt = "snap" => dev[d].mounted

StorageIInv ==
    /\ allow \in BOOLEAN /\ snaps \in BOOLEAN /\ asked \subseteq Devices /\ scans \in Nat
    /\ dev \in [Devices -> Records]
    /\ \E n \in Nat : Tracked = 0 .. n - 1
    /\ trk \in [Tracked -> SUBSET Mapping]
    /\ \A d \in Devices : Founded(dev[d]) /\ Backed(d)
    /\ DiskUntouched
    /\ OneOwner
-----------------------------------------------------------------------------
(* The record a callback works on *)
Work(w) ==
    /\ w \in [dev : Records, tr : SUBSET Mapping]
    /\ Founded(w.dev)
    /\ w.dev.ram # NoRam => w.tr = w.dev.maps

(* What mounting leaves alone *)
Same(w, x) ==
    /\ x.tr = w.tr /\ x.dev.phase = w.dev.phase /\ x.dev.ram = w.dev.ram
    /\ x.dev.maps = w.dev.maps /\ x.dev.mounted = w.dev.mounted /\ x.dev.rw = w.dev.rw

(* Nothing is written to the disk of d. *)
Unwritten(d, w, x) == x.dev.wrote => w.dev.wrote \/ Journal[d] = "always"

Kept(w, x) == w.dev.cow /\ ~x.dev.cow => x.dev.wrote

LEMMA MountedKeeps ==
  ASSUME NEW d, NEW w, Work(w), NEW path \in {"snap", "disk"}, NEW how,
         path = "snap" => "snapshot" \in w.dev.maps
  PROVE  LET x == Mounted(d, w, path, how)
         IN /\ Work(x) /\ Same(w, x) /\ x.dev.mnt = path /\ (w.dev.cow => x.dev.cow)
            /\ ~(path = "disk" /\ how = "plain") => Unwritten(d, w, x)
  <1> DEFINE x == Mounted(d, w, path, how)
             replay == Journal[d] = "always" \/ (Journal[d] = "norecovery" /\ how = "plain")
  <1>1. w \in [dev : Records, tr : SUBSET Mapping]
    BY DEF Work
  <1>2. /\ x \in [dev : Records, tr : SUBSET Mapping] /\ Same(w, x) /\ x.dev.mnt = path
        /\ x.dev.cow <=> w.dev.cow \/ (path = "snap" /\ replay)
        /\ x.dev.wrote <=> w.dev.wrote \/ (path = "disk" /\ replay)
    BY <1>1, Zenon DEF Mounted, Same, Records
  <1>3. "snapshot" \in w.dev.maps => "base" \in w.dev.maps
    BY <1>1 DEF Records, Stacks, Mapping
  <1> HIDE DEF x
  <1>4. Work(x)
    BY <1>2, <1>3 DEF Same, Work, Founded
  <1> QED BY <1>2, <1>4 DEF x, Unwritten

LEMMA TryMountKeeps ==
  ASSUME NEW d, NEW w, Work(w), NEW ro, NEW f
  PROVE  LET x == TryMount(d, w, ro, f)
         IN /\ Work(x) /\ Same(w, x) /\ Unwritten(d, w, x) /\ (w.dev.cow => x.dev.cow)
            /\ x.dev.mnt \in {w.dev.mnt, Path(w)}
            /\ x.dev.mnt # w.dev.mnt => (x.dev.mnt = "snap" <=> w.dev.ram # NoRam)
  <1> DEFINE path == Path(w)
  <1>1. path \in {"disk", "snap", "null"} /\ (path = "disk" <=> w.dev.ram = NoRam)
    BY DEF Path
  <1>2. ASSUME NEW how, Mounts(w, path, how, f)
        PROVE  path \in {"snap", "disk"} /\ (path = "snap" => "snapshot" \in w.dev.maps)
    BY <1>1, <1>2 DEF Mounts
  <1>3. CASE w.dev.ram # NoRam /\ Mounts(w, path, "plain", f)
    <2>1. TryMount(d, w, ro, f) = Mounted(d, w, path, "plain")
      BY <1>3 DEF TryMount
    <2> QED BY <1>1, <1>2, <1>3, <2>1, MountedKeeps
  <1>4. CASE Mounts(w, path, "safe", f) /\ ~(w.dev.ram # NoRam /\ Mounts(w, path, "plain", f))
             /\ (w.dev.ram = NoRam \/ (ro /\ Journal[d] = "norecovery"))
    <2>1. TryMount(d, w, ro, f) = Mounted(d, w, path, "safe")
      BY <1>4 DEF TryMount
    <2> QED BY <1>1, <1>2, <1>4, <2>1, MountedKeeps
  <1>5. CASE TryMount(d, w, ro, f) = w
    BY <1>5 DEF Same, Unwritten
  <1> QED BY <1>3, <1>4, <1>5, Zenon DEF TryMount

(* A stack taken down from the top is a stack. *)
LEMMA RemovedKeeps ==
  ASSUME NEW w, w \in [dev : Records, tr : SUBSET Mapping], NEW f,
         w.tr = w.dev.maps \/ (w.tr = {} /\ Founded(w.dev))
  PROVE  LET x == Removed(w, f)
         IN /\ x \in [dev : Records, tr : SUBSET Mapping]
            /\ x.tr = w.tr /\ x.dev.phase = w.dev.phase /\ x.dev.ram = w.dev.ram
            /\ x.dev.mounted = w.dev.mounted /\ x.dev.rw = w.dev.rw
            /\ x.dev.mnt = w.dev.mnt /\ x.dev.wrote = w.dev.wrote
            /\ x.dev.cow => w.dev.cow /\ "snapshot" \in x.dev.maps
            /\ w.tr = {} => x.dev.maps = w.dev.maps
                           /\ (w.dev.cow /\ "snapshot" \in w.dev.maps => x.dev.cow)
  <1> DEFINE order == <<"snapshot", "origin", "base">>
             stuck == {i \in 1..3 : order[i] \in w.tr /\ ~DestroyDevice(order[i], f)}
             gone  == {order[i] : i \in {j \in 1..3 : \A k \in stuck : j < k}} \cap w.tr
             left  == w.dev.maps \ gone
  <1>1. left \in Stacks /\ (w.tr = {} => left = w.dev.maps)
    <2>1. w.dev.maps \in Stacks
      BY DEF Records
    <2>2. CASE w.tr = {}
      BY <2>1, <2>2
    <2>3. CASE w.tr = w.dev.maps
      <3>1. \A i \in 1..3 : order[i] \in gone <=> order[i] \in w.tr /\ \A k \in stuck : i < k
        OBVIOUS
      <3>2. /\ "snapshot" \in left <=> "snapshot" \in w.tr /\ 1 \in stuck
            /\ "origin" \in left <=> "origin" \in w.tr /\ (1 \in stuck \/ 2 \in stuck)
            /\ "base" \in left <=> "base" \in w.tr /\ (1 \in stuck \/ 2 \in stuck \/ 3 \in stuck)
        <4>1. stuck \subseteq {1, 2, 3}
          OBVIOUS
        <4> QED BY <2>3, <3>1, <4>1
      <3>3. (1 \in stuck => "snapshot" \in w.tr) /\ (2 \in stuck => "origin" \in w.tr)
        OBVIOUS
      <3>4. left \subseteq Mapping
        BY <2>1 DEF Stacks, Mapping
      <3> HIDE DEF left, stuck, gone
      <3>5. left = {} \/ left = {"base"} \/ left = {"base", "origin"} \/ left = Mapping
        BY <2>1, <2>3, <3>2, <3>3, <3>4, Zenon DEF Stacks, Mapping
      <3> QED BY <2>2, <2>3, <3>5 DEF Stacks
    <2> QED BY <2>2, <2>3
  <1> DEFINE x == [w EXCEPT !.dev.maps = left,
                           !.dev.cow = @ /\ "snapshot" \in left,
                           !.dev.store = IF "snapshot" \in left THEN @ ELSE NoRam]
  <1> HIDE DEF left, order, stuck, gone
  <1>3. /\ x.tr = w.tr /\ x.dev.phase = w.dev.phase /\ x.dev.ram = w.dev.ram
        /\ x.dev.mounted = w.dev.mounted /\ x.dev.rw = w.dev.rw
        /\ x.dev.mnt = w.dev.mnt /\ x.dev.wrote = w.dev.wrote /\ x.dev.maps = left
        /\ x.dev.cow <=> w.dev.cow /\ "snapshot" \in left
    BY Zenon DEF Records
  <1>4. x \in [dev : Records, tr : SUBSET Mapping]
    BY <1>1, Zenon DEF Records
  <1>5. Removed(w, f) = x
    BY DEF Removed, left, order, stuck, gone
  <1> HIDE DEF x
  <1> QED BY <1>1, <1>3, <1>4, <1>5

(* A ramdisk is given up, with the mappings that could not be removed. *)
LEMMA DestroySnapshotKeeps ==
  ASSUME NEW w, w \in [dev : Records, tr : SUBSET Mapping], NEW f,
         \/ w.tr = w.dev.maps /\ w.dev.mnt # "snap"
         \/ w.tr = {} /\ Founded(w.dev),
         w.dev.ram # NoRam, ~w.dev.mounted
  PROVE  LET x == DestroySnapshot(w, f)
         IN /\ Work(x) /\ x.tr = {} /\ x.dev.phase = w.dev.phase /\ x.dev.ram = NoRam
            /\ x.dev.mounted = w.dev.mounted /\ x.dev.rw = w.dev.rw
            /\ x.dev.mnt = w.dev.mnt /\ x.dev.wrote = w.dev.wrote
            /\ w.tr = {} /\ w.dev.cow /\ "snapshot" \in w.dev.maps => x.dev.cow
  <1> DEFINE y == Removed(w, f)
             x == ReleaseRamdisk(y)
  <1>1. /\ y \in [dev : Records, tr : SUBSET Mapping]
        /\ y.tr = w.tr /\ y.dev.phase = w.dev.phase /\ y.dev.ram = w.dev.ram
        /\ y.dev.mounted = w.dev.mounted /\ y.dev.rw = w.dev.rw
        /\ y.dev.mnt = w.dev.mnt /\ y.dev.wrote = w.dev.wrote
        /\ y.dev.cow => w.dev.cow /\ "snapshot" \in y.dev.maps
        /\ w.tr = {} => y.dev.maps = w.dev.maps
                       /\ (w.dev.cow /\ "snapshot" \in w.dev.maps => y.dev.cow)
    BY RemovedKeeps
  <1> HIDE DEF y
  <1>2. /\ x \in [dev : Records, tr : SUBSET Mapping] /\ x.tr = {} /\ x.dev.ram = NoRam
        /\ x.dev.phase = y.dev.phase /\ x.dev.mounted = y.dev.mounted /\ x.dev.rw = y.dev.rw
        /\ x.dev.mnt = y.dev.mnt /\ x.dev.wrote = y.dev.wrote
        /\ x.dev.cow = y.dev.cow /\ x.dev.maps = y.dev.maps
    BY <1>1 DEF ReleaseRamdisk, Records
  <1>3. DestroySnapshot(w, f) = x
    BY DEF DestroySnapshot, y
  <1> HIDE DEF x
  <1>4. x.dev.maps \in Stacks /\ ("snapshot" \in x.dev.maps => "base" \in x.dev.maps)
    BY <1>2 DEF Records, Stacks, Mapping
  <1>5. x.dev.mnt = "snap" => "snapshot" \in x.dev.maps
    BY <1>1, <1>2 DEF Founded
  <1> QED BY <1>1, <1>2, <1>3, <1>4, <1>5 DEF Work, Founded

Made(w, m, x) ==
    /\ m \notin w.dev.maps /\ x \in [dev : Records, tr : SUBSET Mapping]
    /\ x.dev.maps = w.dev.maps \cup {m} /\ x.tr = w.tr \cup {m}
    /\ x.dev.phase = w.dev.phase /\ x.dev.ram = w.dev.ram
    /\ x.dev.mounted = w.dev.mounted /\ x.dev.rw = w.dev.rw
    /\ x.dev.mnt = w.dev.mnt /\ x.dev.wrote = w.dev.wrote /\ x.dev.cow = w.dev.cow

(* A mapping on top of those there are *)
LEMMA MakeKeeps ==
  ASSUME NEW w, w \in [dev : Records, tr : SUBSET Mapping], NEW f,
         NEW m \in Mapping, w.dev.maps \cup {m} \in Stacks
  PROVE  Make(w, m, f) = w \/ Made(w, m, Make(w, m, f))
  <1>1. CASE ~RunCreateTask(w, m, f)
    BY <1>1 DEF Make
  <1>2. CASE RunCreateTask(w, m, f)
    <2> DEFINE x == [dev |-> [w.dev EXCEPT !.maps = @ \cup {m},
                                           !.store = IF m = "snapshot" THEN w.dev.ram ELSE @],
                     tr  |-> w.tr \cup {m}]
    <2>1. Make(w, m, f) = x
      BY <1>2 DEF Make
    <2>2. m \notin w.dev.maps
      BY <1>2 DEF RunCreateTask
    <2>3. /\ x.dev.maps = w.dev.maps \cup {m} /\ x.tr = w.tr \cup {m}
          /\ x.dev.phase = w.dev.phase /\ x.dev.ram = w.dev.ram
          /\ x.dev.mounted = w.dev.mounted /\ x.dev.rw = w.dev.rw
          /\ x.dev.mnt = w.dev.mnt /\ x.dev.wrote = w.dev.wrote /\ x.dev.cow = w.dev.cow
      BY Zenon DEF Records
    <2>4. x \in [dev : Records, tr : SUBSET Mapping]
      BY Zenon DEF Records
    <2> HIDE DEF x
    <2> QED BY <2>1, <2>2, <2>3, <2>4 DEF Made
  <1> QED BY <1>1, <1>2

(* A stack is built whole, on a disk that has none, or given up. *)
LEMMA InitSnapshotKeeps ==
  ASSUME NEW w, Work(w), w.dev.ram = NoRam, w.tr = {}, ~w.dev.mounted,
         w.dev.phase = "absent", NEW r \in Nat, NEW f
  PROVE  LET x == InitSnapshot(w, r, f)
         IN /\ Work(x) /\ x.dev.phase = w.dev.phase /\ ~x.dev.mounted
            /\ x.dev.mnt = w.dev.mnt /\ x.dev.wrote = w.dev.wrote
            /\ x.dev.ram \in {NoRam, r} /\ (w.dev.cow => x.dev.cow)
            /\ x.dev.ram = NoRam => x.tr = {}
            /\ x.dev.ram = r => x.dev.maps = Mapping /\ ~w.dev.cow /\ w.dev.mnt # "snap"
  <1> DEFINE w0 == [w EXCEPT !.dev.ram = r]
             w1 == Make(w0, "base", f)
             w2 == Make(w1, "origin", f)
             w3 == Make(w2, "snapshot", f)
             x == InitSnapshot(w, r, f)
             Like(y) == /\ y \in [dev : Records, tr : SUBSET Mapping] /\ y.dev.ram = r
                        /\ y.dev.phase = w.dev.phase /\ ~y.dev.mounted
                        /\ y.dev.mnt = w.dev.mnt /\ y.dev.wrote = w.dev.wrote
                        /\ y.dev.cow = w.dev.cow
  <1>0. r # NoRam
    BY NoRamAssumption
  <1>1. Like(w0) /\ w0.tr = {} /\ w0.dev.maps = w.dev.maps
    BY DEF Work, Records
  <1>2. Founded(w0.dev)
    BY <1>0, <1>1 DEF Work, Founded
  <1> HIDE DEF w0
  <1>3. CASE w1 = w0
    <2>1. x = w \/ x = DestroySnapshot(w0, f)
      BY <1>3 DEF InitSnapshot, w0
    <2>2. w.dev.cow => "snapshot" \in w0.dev.maps
      BY <1>1 DEF Work, Founded
    <2>3. CASE x = w
      BY <1>0, <2>3
    <2>4. CASE x = DestroySnapshot(w0, f)
      BY <1>0, <1>1, <1>2, <2>2, <2>4, DestroySnapshotKeeps, SMTT(30)
    <2> QED BY <2>1, <2>3, <2>4
  <1>4. CASE w1 # w0
    <2>1. Like(w1) /\ w.dev.maps = {} /\ w1.dev.maps = {"base"} /\ w1.tr = w1.dev.maps
      <3>1. w0.dev.maps \cup {"base"} \in Stacks
        BY <1>1 DEF Records, Stacks, Mapping
      <3>2. "base" \notin w0.dev.maps /\ w1.dev.maps = w0.dev.maps \cup {"base"}
            /\ w1.tr = {"base"} /\ Like(w1)
        <4>1. Made(w0, "base", w1)
          <5>1. "base" \in Mapping
            BY DEF Mapping
          <5> QED BY <1>1, <1>4, <3>1, <5>1, MakeKeeps
        <4> QED BY <1>1, <4>1 DEF Made
      <3>3. w0.dev.maps = {}
        BY <1>1, <3>2 DEF Records, Stacks, Mapping
      <3> QED BY <1>1, <3>2, <3>3
    <2>2. ~w.dev.cow /\ w.dev.mnt # "snap"
      BY <2>1 DEF Work, Founded
    <2> HIDE DEF w1
    <2>3. Like(w2) /\ w2.tr = w2.dev.maps /\ (w2 # w1 => w2.dev.maps = {"base", "origin"})
      <3>1. w1.dev.maps \cup {"origin"} \in Stacks
        BY <2>1 DEF Stacks
      <3>2. w2 = w1 \/ Made(w1, "origin", w2)
        <4>1. "origin" \in Mapping
          BY DEF Mapping
        <4> QED BY <2>1, <3>1, <4>1, MakeKeeps
      <3> QED BY <2>1, <3>2 DEF Made
    <2> HIDE DEF w2
    <2>4. w2 # w1 => Like(w3) /\ w3.tr = w3.dev.maps /\ (w3 # w2 => w3.dev.maps = Mapping)
      <3>1. w2 # w1 => w2.dev.maps \cup {"snapshot"} \in Stacks
        BY <2>3 DEF Stacks, Mapping
      <3>2. w2 # w1 => w3 = w2 \/ Made(w2, "snapshot", w3)
        <4>1. "snapshot" \in Mapping
          BY DEF Mapping
        <4> QED BY <2>3, <3>1, <4>1, MakeKeeps
      <3> QED BY <2>3, <3>2 DEF Made, Mapping
    <2> HIDE DEF w3
    <2>5. \/ x = w
          \/ x = DestroySnapshot(w2, f)
          \/ w2 # w1 /\ x = DestroySnapshot(w3, f)
          \/ w2 # w1 /\ w3 # w2 /\ x = w3
      BY <1>4 DEF InitSnapshot, w0, w1, w2, w3
    <2>6. CASE x = w
      BY <1>0, <2>6
    <2>7. CASE x = DestroySnapshot(w2, f)
      BY <1>0, <2>2, <2>3, <2>7, DestroySnapshotKeeps
    <2>8. CASE w2 # w1 /\ x = DestroySnapshot(w3, f)
      BY <1>0, <2>2, <2>4, <2>8, DestroySnapshotKeeps
    <2>9. CASE w2 # w1 /\ w3 # w2 /\ x = w3
      BY <1>0, <2>2, <2>4, <2>9, SMTT(30) DEF Work, Founded, Mapping
    <2> QED BY <2>5, <2>6, <2>7, <2>8, <2>9
  <1> QED BY <1>3, <1>4

(* A device that has just been added, with or without a snapshot *)
New(w) ==
    /\ Work(w) /\ w.dev.phase = "absent"
    /\ w.dev.ram = NoRam => w.tr = {}
    /\ w.dev.ram # NoRam => w.dev.maps = Mapping

(* Mounting falls back from the snapshot to the disk, and writes to neither    *)
(* the disk nor a snapshot that was there before.                              *)
LEMMA MountDeviceKeeps ==
  ASSUME NEW d, NEW w, New(w), ~w.dev.mounted, w.dev.ram # NoRam => w.dev.mnt # "snap",
         NEW f, NEW x \in MountDevice(d, w, f)
  PROVE  /\ New(x) /\ Unwritten(d, w, x) /\ x.dev.ram \in {NoRam, w.dev.ram}
         /\ w.dev.ram = NoRam /\ w.dev.cow => x.dev.cow
  <1> DEFINE first  == TryMount(d, w, TRUE, f)
             clean  == DestroySnapshot(w, f)
             second == TryMount(d, clean, TRUE, f)
             done   == IF first.dev.mnt = Path(w) THEN first
                       ELSE IF w.dev.ram # NoRam THEN second ELSE w
             Good(y) == /\ New(y) /\ Unwritten(d, w, y) /\ y.dev.ram \in {NoRam, w.dev.ram}
                        /\ w.dev.ram = NoRam /\ w.dev.cow => y.dev.cow
  <1>1. Good(w)
    BY DEF Unwritten
  <1>2. Good(first)
    <2>1. Work(first) /\ Same(w, first) /\ Unwritten(d, w, first)
          /\ (w.dev.cow => first.dev.cow)
      BY TryMountKeeps, Zenon DEF New
    <2> HIDE DEF first
    <2> QED BY <2>1 DEF New, Same
  <1>3. w.dev.ram # NoRam => Good(second)
    <2> SUFFICES ASSUME w.dev.ram # NoRam PROVE Good(second)
      OBVIOUS
    <2>1. /\ Work(clean) /\ clean.tr = {} /\ clean.dev.phase = w.dev.phase
          /\ clean.dev.ram = NoRam /\ clean.dev.wrote = w.dev.wrote
      BY DestroySnapshotKeeps DEF New, Work
    <2> HIDE DEF clean
    <2>2. Work(second) /\ Same(clean, second) /\ Unwritten(d, clean, second)
      BY <2>1, TryMountKeeps, Zenon
    <2> HIDE DEF second
    <2> QED BY <2>1, <2>2 DEF New, Same, Unwritten
  <1>4. Good(done)
    BY <1>1, <1>2, <1>3, Zenon
  <1> DEFINE there(b) == [w EXCEPT !.dev.mounted = TRUE, !.dev.rw = b]
             up == [done EXCEPT !.dev.mounted = TRUE, !.dev.rw = FALSE, !.dev.unmount = TRUE]
  <1>5. (\E b \in BOOLEAN : x = there(b)) \/ x = up \/ x = w \/ x = done
    BY Zenon DEF MountDevice
  <1> HIDE DEF done
  <1>6. ASSUME NEW b \in BOOLEAN PROVE Good(there(b))
    <2> DEFINE y == there(b)
    <2>1. w \in [dev : Records, tr : SUBSET Mapping]
      BY DEF New, Work
    <2>2. /\ y \in [dev : Records, tr : SUBSET Mapping] /\ y.tr = w.tr
          /\ y.dev.phase = w.dev.phase /\ y.dev.ram = w.dev.ram /\ y.dev.maps = w.dev.maps
          /\ y.dev.mnt = w.dev.mnt /\ y.dev.cow = w.dev.cow /\ y.dev.wrote = w.dev.wrote
      BY <2>1, Zenon DEF Records
    <2> HIDE DEF y
    <2>3. Good(y)
      BY <2>2 DEF New, Work, Founded, Unwritten
    <2> QED BY <2>3 DEF y
  <1>7. Good(up)
    <2>1. done \in [dev : Records, tr : SUBSET Mapping]
      BY <1>4 DEF New, Work
    <2>2. /\ up \in [dev : Records, tr : SUBSET Mapping] /\ up.tr = done.tr
          /\ up.dev.phase = done.dev.phase /\ up.dev.ram = done.dev.ram
          /\ up.dev.maps = done.dev.maps /\ up.dev.mnt = done.dev.mnt
          /\ up.dev.cow = done.dev.cow /\ up.dev.wrote = done.dev.wrote
      BY <2>1, Zenon DEF Records
    <2> HIDE DEF up
    <2> QED BY <1>4, <2>2 DEF New, Work, Founded, Unwritten
  <1> QED BY <1>1, <1>4, <1>5, <1>6, <1>7, Zenon

(* A device in use: see Backed *)
Live(w) ==
    /\ Work(w) /\ w.dev.phase # "absent"
    /\ w.dev.ram # NoRam =>
         "origin" \in w.dev.maps /\ (w.dev.mounted => "snapshot" \in w.dev.maps)
    /\ w.dev.mnt = "snap" => w.dev.mounted

(* A merge that fails halfway keeps the lower mappings, and the writes. *)
LEMMA MergeSnapshotKeeps ==
  ASSUME NEW w, Live(w), w.dev.ram # NoRam, w.dev.mnt = "none", NEW f
  PROVE  LET x == MergeSnapshot(w, f)
         IN /\ Live(x) /\ x.dev.phase = w.dev.phase /\ x.dev.ram = w.dev.ram
            /\ x.dev.mounted = w.dev.mounted /\ x.dev.mnt = "none" /\ Kept(w, x)
  <1> DEFINE bare   == [w EXCEPT !.dev.maps = @ \ {"snapshot"}, !.tr = @ \ {"snapshot"}]
             merges == w.dev.cow /\ ReloadSnapshot(f) /\ SetDeviceActive("resume", f)
             merged == [bare EXCEPT !.dev.wrote = @ \/ merges,
                                    !.dev.cow = @ /\ ~(merges /\ SnapshotMergeComplete(f))]
             x == MergeSnapshot(w, f)
  <1>1. CASE x = w
    BY <1>1 DEF Kept
  <1>2. CASE x # w
    <2>1. ~w.dev.mounted /\ "snapshot" \in w.tr /\ x = Make(merged, "snapshot", f)
      BY <1>2 DEF MergeSnapshot
    <2>2. w \in [dev : Records, tr : SUBSET Mapping] /\ w.tr = w.dev.maps
      BY DEF Live, Work
    <2>3. w.dev.maps = Mapping /\ w.dev.maps \ {"snapshot"} = {"base", "origin"}
      BY <2>1, <2>2 DEF Records, Stacks, Mapping
    <2>4. /\ bare \in [dev : Records, tr : SUBSET Mapping]
          /\ bare.dev.maps = {"base", "origin"} /\ bare.tr = {"base", "origin"}
          /\ bare.dev.phase = w.dev.phase /\ bare.dev.ram = w.dev.ram
          /\ bare.dev.mounted = w.dev.mounted /\ bare.dev.mnt = w.dev.mnt
          /\ bare.dev.cow = w.dev.cow /\ bare.dev.wrote = w.dev.wrote
      <3>1. {"base", "origin"} \in Stacks
        BY DEF Stacks
      <3> QED BY <2>2, <2>3, <3>1, Zenon DEF Records
    <2> HIDE DEF bare
    <2>5. /\ merged \in [dev : Records, tr : SUBSET Mapping]
          /\ merged.dev.maps = bare.dev.maps /\ merged.tr = bare.tr
          /\ merged.dev.phase = w.dev.phase /\ merged.dev.ram = w.dev.ram
          /\ merged.dev.mounted = w.dev.mounted /\ merged.dev.mnt = w.dev.mnt
          /\ merged.dev.wrote <=> bare.dev.wrote \/ merges
          /\ merged.dev.cow <=> bare.dev.cow /\ ~(merges /\ SnapshotMergeComplete(f))
      BY <2>4, Zenon DEF Records
    <2> HIDE DEF merged
    <2>6. x = merged \/ Made(merged, "snapshot", x)
      <3>1. merged.dev.maps \cup {"snapshot"} \in Stacks /\ "snapshot" \in Mapping
        BY <2>4, <2>5 DEF Stacks, Mapping
      <3> QED BY <2>1, <2>5, <3>1, MakeKeeps
    <2>7. /\ x \in [dev : Records, tr : SUBSET Mapping] /\ x.tr = x.dev.maps
          /\ "base" \in x.dev.maps /\ "origin" \in x.dev.maps
          /\ x.dev.phase = w.dev.phase /\ x.dev.ram = w.dev.ram
          /\ x.dev.mounted = w.dev.mounted /\ x.dev.mnt = w.dev.mnt
          /\ x.dev.wrote = merged.dev.wrote /\ x.dev.cow = merged.dev.cow
      BY <2>4, <2>5, <2>6 DEF Made
    <2> HIDE DEF x
    <2>8. Kept(w, x)
      BY <2>4, <2>5, <2>7 DEF Kept
    <2>9. Live(x)
      BY <2>1, <2>7 DEF Live, Work, Founded
    <2> QED BY <2>7, <2>8, <2>9 DEF x
  <1> QED BY <1>1, <1>2

LEMMA ReleaseWriteKeeps ==
  ASSUME NEW d, NEW w, Live(w), NEW f
  PROVE  LET x == ReleaseWrite(d, w, f)
         IN Live(x) /\ x.dev.ram = w.dev.ram /\ Kept(w, x)
  <1> DEFINE down   == [w EXCEPT !.dev.mnt = "none", !.dev.mounted = FALSE, !.dev.rw = FALSE]
             merged == IF w.dev.ram = NoRam THEN down ELSE MergeSnapshot(down, f)
             up     == TryMount(d, merged, TRUE, f)
             x      == [up EXCEPT !.dev.mounted = up.dev.mnt # "none"]
  <1>1. CASE ReleaseWrite(d, w, f) = w
    BY <1>1 DEF Kept
  <1>2. CASE ReleaseWrite(d, w, f) # w
    <2>1. ReleaseWrite(d, w, f) = x
      BY <1>2, Zenon DEF ReleaseWrite
    <2>2. w \in [dev : Records, tr : SUBSET Mapping]
      BY DEF Live, Work
    <2>3. /\ down \in [dev : Records, tr : SUBSET Mapping] /\ down.tr = w.tr
          /\ down.dev.phase = w.dev.phase /\ down.dev.ram = w.dev.ram
          /\ down.dev.maps = w.dev.maps /\ ~down.dev.mounted /\ down.dev.mnt = "none"
          /\ down.dev.cow = w.dev.cow /\ down.dev.wrote = w.dev.wrote
      BY <2>2, Zenon DEF Records
    <2> HIDE DEF down
    <2>4. Live(down) /\ Kept(w, down)
      BY <2>3 DEF Live, Work, Founded, Kept
    <2>5. /\ Live(merged) /\ merged.dev.ram = w.dev.ram /\ merged.dev.phase = w.dev.phase
          /\ merged.dev.mnt = "none" /\ ~merged.dev.mounted /\ Kept(w, merged)
      <3>1. CASE w.dev.ram = NoRam
        BY <2>3, <2>4, <3>1
      <3>2. CASE w.dev.ram # NoRam
        BY <2>3, <2>4, <3>2, MergeSnapshotKeeps DEF Kept
      <3> QED BY <3>1, <3>2
    <2> HIDE DEF merged
    <2>6. /\ Work(up) /\ Same(merged, up) /\ (merged.dev.cow => up.dev.cow)
          /\ merged.dev.wrote => up.dev.wrote
          /\ up.dev.mnt # "none" => (up.dev.mnt = "snap" <=> w.dev.ram # NoRam)
      <3>1. merged.dev.wrote => up.dev.wrote
        BY <2>5 DEF TryMount, Mounted, Live, Work, Records
      <3> QED BY <2>5, <3>1, TryMountKeeps, Zenon DEF Live
    <2> HIDE DEF up
    <2>7. /\ x \in [dev : Records, tr : SUBSET Mapping] /\ x.tr = up.tr
          /\ x.dev.phase = up.dev.phase /\ x.dev.ram = up.dev.ram
          /\ x.dev.maps = up.dev.maps /\ (x.dev.mounted <=> up.dev.mnt # "none")
          /\ x.dev.mnt = up.dev.mnt /\ x.dev.cow = up.dev.cow /\ x.dev.wrote = up.dev.wrote
      BY <2>6, Zenon DEF Work, Records
    <2> HIDE DEF x
    <2>8. Live(x)
      BY <2>5, <2>6, <2>7 DEF Live, Work, Founded, Same
    <2> QED BY <2>1, <2>5, <2>6, <2>7, <2>8 DEF Kept, Same
  <1> QED BY <1>1, <1>2

LEMMA RequestWriteKeeps ==
  ASSUME NEW d, NEW w, Live(w), w.dev.mounted, NEW f
  PROVE  LET x == RequestWrite(d, w, f)
         IN Live(x) /\ x.dev.ram = w.dev.ram /\ x.dev.mounted /\ (w.dev.cow => x.dev.cow)
  <1> DEFINE down == [w EXCEPT !.dev.mnt = "none"]
             up   == TryMount(d, down, FALSE, f)
             back == IF "again" \in f THEN down ELSE TryMount(d, down, TRUE, {})
             x    == RequestWrite(d, w, f)
             Good(y) == Live(y) /\ y.dev.ram = w.dev.ram /\ y.dev.mounted
                        /\ (w.dev.cow => y.dev.cow)
  <1>1. w \in [dev : Records, tr : SUBSET Mapping]
    BY DEF Live, Work
  <1>2. /\ down \in [dev : Records, tr : SUBSET Mapping] /\ down.tr = w.tr
        /\ down.dev.phase = w.dev.phase /\ down.dev.ram = w.dev.ram
        /\ down.dev.maps = w.dev.maps /\ down.dev.mounted = w.dev.mounted
        /\ down.dev.mnt = "none" /\ down.dev.cow = w.dev.cow
    BY <1>1, Zenon DEF Records
  <1>3. x = w \/ x = [up EXCEPT !.dev.rw = TRUE] \/ x = back
    BY Zenon DEF RequestWrite
  <1> HIDE DEF down
  <1>4. Good(down)
    BY <1>2 DEF Live, Work, Founded
  <1>5. ASSUME NEW ro, NEW g PROVE Good(TryMount(d, down, ro, g))
    <2> DEFINE y == TryMount(d, down, ro, g)
    <2>1. Work(y) /\ Same(down, y) /\ (down.dev.cow => y.dev.cow)
      BY <1>4, TryMountKeeps DEF Live
    <2> HIDE DEF y
    <2>2. Good(y)
      BY <1>2, <1>4, <2>1 DEF Live, Same
    <2> QED BY <2>2 DEF y
  <1>6. Good(up)
    BY <1>5, Zenon
  <1> HIDE DEF up
  <1> DEFINE z == [up EXCEPT !.dev.rw = TRUE]
  <1>7. Good(z)
    <2>1. /\ z \in [dev : Records, tr : SUBSET Mapping] /\ z.tr = up.tr
          /\ z.dev.phase = up.dev.phase /\ z.dev.ram = up.dev.ram
          /\ z.dev.maps = up.dev.maps /\ z.dev.mounted = up.dev.mounted
          /\ z.dev.mnt = up.dev.mnt /\ z.dev.cow = up.dev.cow
      BY <1>6, Zenon DEF Live, Work, Records
    <2> HIDE DEF z
    <2> QED BY <1>6, <2>1 DEF Live, Work, Founded
  <1>8. Good(back)
    BY <1>4, <1>5, Zenon
  <1> HIDE DEF z, back
  <1>9. Good(x)
    BY <1>3, <1>7, <1>8, Zenon DEF z
  <1> QED BY <1>9

LEMMA ViewLive ==
  ASSUME StorageIInv, NEW d \in Devices, dev[d].phase # "absent"
  PROVE  Live(View(d)) /\ View(d).dev = dev[d]
  <1>1. dev[d] \in Records /\ Founded(dev[d]) /\ Backed(d)
    BY DEF StorageIInv
  <1>2. CASE dev[d].ram = NoRam
    BY <1>1, <1>2 DEF View, Live, Work, Backed, Mapping
  <1>3. CASE dev[d].ram # NoRam
    <2>1. View(d) = [dev |-> dev[d], tr |-> dev[d].maps]
      BY <1>1, <1>3 DEF View, Backed
    <2>2. dev[d].maps \in SUBSET Mapping
      BY <1>1 DEF Records, Stacks, Mapping
    <2> QED BY <1>1, <1>3, <2>1, <2>2 DEF Live, Work, Backed
  <1> QED BY <1>2, <1>3

LEMMA DestroyedKeeps ==
  ASSUME StorageIInv, NEW d \in Devices, dev[d].phase # "absent", NEW f
  PROVE  LET x == Destroyed(d, f)
         IN /\ x \in [dev : Records, tr : SUBSET Mapping] /\ Founded(x.dev)
            /\ x.dev.phase = "absent" /\ x.dev.wrote = dev[d].wrote
  <1> DEFINE v == View(d)
             u == UmountDevice(v, f)
             w == DestroySnapshot(u, f)
             x == [w EXCEPT !.dev = [@ EXCEPT !.phase = "absent", !.ram = NoRam,
                                 !.mounted = FALSE, !.rw = FALSE, !.unmount = FALSE]]
  <1>1. Live(v) /\ v.dev = dev[d]
    BY ViewLive
  <1> HIDE DEF v
  <1>2. Live(u) /\ u.dev.wrote = v.dev.wrote
    <2>1. CASE u = v
      BY <1>1, <2>1
    <2>2. CASE u # v
      <3>1. u = [v EXCEPT !.dev.mounted = FALSE, !.dev.mnt = "none"]
        BY <2>2 DEF UmountDevice
      <3>2. /\ u \in [dev : Records, tr : SUBSET Mapping] /\ u.tr = v.tr
            /\ u.dev.phase = v.dev.phase /\ u.dev.ram = v.dev.ram
            /\ u.dev.maps = v.dev.maps /\ ~u.dev.mounted /\ u.dev.mnt = "none"
            /\ u.dev.cow = v.dev.cow /\ u.dev.wrote = v.dev.wrote
        <4> HIDE DEF u
        <4>1. v \in [dev : Records, tr : SUBSET Mapping]
          BY <1>1 DEF Live, Work
        <4> QED BY <3>1, <4>1, Zenon DEF Records
      <3> HIDE DEF u
      <3> QED BY <1>1, <3>2 DEF Live, Work, Founded
    <2> QED BY <2>1, <2>2
  <1> HIDE DEF u
  <1>3. /\ Work(w) /\ w.dev.wrote = u.dev.wrote
        /\ w.dev.cow => "snapshot" \in w.dev.maps
    <2>1. CASE u.dev.ram = NoRam \/ u.dev.mounted
      BY <1>2, <2>1 DEF DestroySnapshot, Live, Work, Founded
    <2>2. CASE u.dev.ram # NoRam /\ ~u.dev.mounted
      BY <1>2, <2>2, DestroySnapshotKeeps DEF Live, Work, Founded
    <2> QED BY <2>1, <2>2
  <1> HIDE DEF w
  <1>4. /\ x \in [dev : Records, tr : SUBSET Mapping] /\ x.dev.phase = "absent"
        /\ x.dev.maps = w.dev.maps /\ x.dev.mnt = w.dev.mnt
        /\ x.dev.cow = w.dev.cow /\ x.dev.wrote = w.dev.wrote
    BY <1>3, Zenon DEF Work, Records
  <1>5. Destroyed(d, f) = x
    BY DEF Destroyed, w, u, v
  <1> HIDE DEF x
  <1>6. Founded(x.dev)
    BY <1>3, <1>4 DEF Work, Founded
  <1> QED BY <1>1, <1>2, <1>3, <1>4, <1>5, <1>6

(* A callback on one device and its ramdisk leaves the others alone. *)
LEMMA PutKeeps ==
  ASSUME StorageIInv, NEW d \in Devices, NEW w, NEW r \in Nat \cup {NoRam},
         w \in [dev : Records, tr : SUBSET Mapping], Founded(w.dev),
         r = NoRam \/ r \in Tracked \/ Tracked = 0 .. r - 1,
         \A e \in Devices \ {d} : dev[e].phase # "absent" => dev[e].ram # r \/ r = NoRam,
         w.dev.phase # "absent" => Live(w) /\ w.dev.ram \in {NoRam, r},
         allow' \in BOOLEAN, snaps' \in BOOLEAN, scans' \in Nat,
         asked \subseteq asked', asked' \subseteq Devices,
         w.dev.wrote => d \in asked' \/ Journal[d] = "always",
         Put(d, r, w)
  PROVE  StorageIInv'
  <1>1. /\ dev' = [dev EXCEPT ![d] = w.dev]
        /\ trk' = [q \in Tracked \cup ({r} \ {NoRam}) |-> IF q = r THEN w.tr ELSE trk[q]]
    BY DEF Put
  <1>2. /\ dev \in [Devices -> Records] /\ trk \in [Tracked -> SUBSET Mapping]
        /\ \E n \in Nat : Tracked = 0 .. n - 1
        /\ \A e \in Devices : Founded(dev[e]) /\ Backed(e)
    BY DEF StorageIInv
  <1>3. dev' \in [Devices -> Records] /\ dev'[d] = w.dev
        /\ \A e \in Devices \ {d} : dev'[e] = dev[e]
    BY <1>1, <1>2
  <1>4. Tracked' = Tracked \cup ({r} \ {NoRam}) /\ trk' \in [Tracked' -> SUBSET Mapping]
    BY <1>1, <1>2 DEF Tracked
  <1>5. \E n \in Nat : Tracked' = 0 .. n - 1
    <2>1. CASE r = NoRam \/ r \in Tracked
      BY <1>2, <1>4, <2>1
    <2>2. CASE r # NoRam /\ Tracked = 0 .. r - 1
      <3>1. r + 1 \in Nat /\ Tracked' = 0 .. (r + 1) - 1
        BY <1>4, <2>2
      <3> QED BY <3>1, Zenon
    <2> QED BY <2>1, <2>2
  <1>6. ASSUME NEW e \in Devices PROVE Founded(dev[e])' /\ Backed(e)'
    <2>1. CASE e = d
      <3>1. Founded(dev[e])'
        BY <1>3, <2>1 DEF Founded
      <3>2. w.dev.phase # "absent" /\ w.dev.ram # NoRam =>
              w.dev.ram \in Tracked' /\ trk'[w.dev.ram] = w.dev.maps
        BY <1>1, <1>4 DEF Live, Work
      <3> QED BY <1>3, <2>1, <3>1, <3>2 DEF Backed, Live
    <2>2. CASE e # d
      <3>1. Founded(dev[e])'
        BY <1>2, <1>3, <2>2 DEF Founded
      <3>2. dev[e].phase # "absent" /\ dev[e].ram # NoRam =>
              dev[e].ram \in Tracked' /\ trk'[dev[e].ram] = trk[dev[e].ram]
        BY <1>1, <1>2, <1>4, <2>2 DEF Backed
      <3> QED BY <1>2, <1>3, <2>2, <3>1, <3>2, SMTT(30) DEF Backed
    <2> QED BY <2>1, <2>2
  <1>7. DiskUntouched'
    BY <1>3 DEF DiskUntouched, StorageIInv
  <1>8. OneOwner'
    <2> SUFFICES ASSUME NEW e \in Devices, NEW g \in Devices,
                        dev'[e].phase # "absent", dev'[g].phase # "absent",
                        dev'[e].ram = dev'[g].ram, e # g
                 PROVE  dev'[e].ram = NoRam
      BY DEF OneOwner
    <2>1. CASE e = d
      BY <1>3, <2>1
    <2>2. CASE g = d
      BY <1>3, <2>2
    <2>3. CASE e # d /\ g # d
      BY <1>3, <2>3 DEF OneOwner, StorageIInv
    <2> QED BY <2>1, <2>2, <2>3
  <1> QED BY <1>3, <1>4, <1>5, <1>6, <1>7, <1>8 DEF StorageIInv

(* A set of numbers has a least one. *)
LEMMA MinOf ==
  ASSUME NEW S \in SUBSET Nat, S # {}
  PROVE  Min(S) \in S /\ \A y \in S : Min(S) <= y
  <1>1. \E x \in S : \A y \in S : x <= y
    <2> DEFINE R == OpToRel(<, Nat)
    <2>1. IsWellFoundedOn(R, Nat)
      BY NatLessThanWellFounded, Zenon
    <2>2. \A x, y \in Nat : y < x => <<y, x>> \in R
      BY DEF OpToRel
    <2> HIDE DEF R
    <2>3. \E x \in S : \A y \in S : ~(<<y, x>> \in R)
      BY <2>1, WFMin, Zenon
    <2>4. PICK x \in S : \A y \in S : ~(<<y, x>> \in R)
      BY <2>3
    <2>5. ASSUME NEW y \in S PROVE x <= y
      <3>1. x \in Nat /\ y \in Nat /\ ~(y < x)
        BY <2>2, <2>4, Zenon
      <3> QED BY <3>1
    <2> QED BY <2>5
  <1> QED BY <1>1, Zenon DEF Min

(* The ramdisk for a new device is not the one of any device in use. *)
LEMMA GetRamdiskFree ==
  ASSUME StorageIInv, NEW f
  PROVE  LET r == GetRamdisk(f)
         IN /\ r \in Nat \cup {NoRam}
            /\ r = NoRam \/ r \in Tracked \/ Tracked = 0 .. r - 1
            /\ \A e \in Devices : dev[e].phase # "absent" => dev[e].ram # r \/ r = NoRam
  <1>1. PICK n \in Nat : Tracked = 0 .. n - 1
    BY DEF StorageIInv
  <1>2. Cardinality(Tracked) = n
    BY <1>1, FS_Interval
  <1>3. \A e \in Devices : Backed(e)
    BY DEF StorageIInv
  <1>4. CASE FreeRamdisks # {}
    <2>1. FreeRamdisks \in SUBSET Nat
      BY <1>1 DEF FreeRamdisks
    <2>2. GetRamdisk(f) \in FreeRamdisks
      BY <1>4, <2>1, MinOf DEF GetRamdisk
    <2> QED BY <1>3, <2>1, <2>2 DEF FreeRamdisks, Backed
  <1>5. CASE FreeRamdisks = {} /\ "mknod" \in f
    BY <1>5 DEF GetRamdisk
  <1>6. CASE FreeRamdisks = {} /\ "mknod" \notin f
    <2>1. GetRamdisk(f) = n
      BY <1>2, <1>6 DEF GetRamdisk
    <2>2. n \notin Tracked
      BY <1>1
    <2> QED BY <1>1, <1>3, <2>1, <2>2 DEF Backed
  <1> QED BY <1>4, <1>5, <1>6

LEMMA HandleBlockAddKeeps ==
  ASSUME StorageIInv, NEW d \in Devices, HandleBlockAdd(d)
  PROVE  StorageIInv' /\ KeepsWrites
  <1> DEFINE w0 == [dev |-> [dev[d] EXCEPT !.mounted = FALSE, !.rw = FALSE,
                                           !.unmount = FALSE, !.ram = NoRam],
                    tr |-> {}]
             r(f)  == IF snaps THEN GetRamdisk(f) ELSE NoRam
             w1(f) == IF r(f) = NoRam THEN w0 ELSE InitSnapshot(w0, r(f), f)
             End(w) == [w EXCEPT !.dev.phase = IF w.dev.mounted THEN "parsing" ELSE "absent"]
  <1>1. dev[d].phase = "absent" /\ allow' = allow /\ snaps' = snaps /\ asked' = asked
        /\ scans' = scans
    BY DEF HandleBlockAdd
  <1>2. \E f, w : w \in MountDevice(d, w1(f), f) /\ Put(d, r(f), End(w))
    BY DEF HandleBlockAdd
  <1>3. PICK f, w : w \in MountDevice(d, w1(f), f) /\ Put(d, r(f), End(w))
    BY <1>2
  <1>4. dev[d] \in Records /\ Founded(dev[d])
    BY DEF StorageIInv
  <1>5. /\ w0 \in [dev : Records, tr : SUBSET Mapping] /\ w0.tr = {} /\ w0.dev.ram = NoRam
        /\ w0.dev.phase = "absent" /\ ~w0.dev.mounted /\ w0.dev.maps = dev[d].maps
        /\ w0.dev.mnt = dev[d].mnt /\ w0.dev.cow = dev[d].cow /\ w0.dev.wrote = dev[d].wrote
    BY <1>1, <1>4, Zenon DEF Records
  <1> HIDE DEF w0
  <1>6. New(w0)
    BY <1>1, <1>4, <1>5 DEF New, Work, Founded
  <1> DEFINE q == r(f)
             v == w1(f)
             x == End(w)
  <1>7. /\ q \in Nat \cup {NoRam} /\ (q = NoRam \/ q \in Tracked \/ Tracked = 0 .. q - 1)
        /\ \A e \in Devices : dev[e].phase # "absent" => dev[e].ram # q \/ q = NoRam
    BY GetRamdiskFree
  <1>8. w \in MountDevice(d, v, f) /\ Put(d, q, x)
    BY <1>3, SMTT(30)
  <1>9. /\ New(v) /\ ~v.dev.mounted /\ (v.dev.ram # NoRam => v.dev.mnt # "snap" /\ ~dev[d].cow)
        /\ v.dev.wrote = dev[d].wrote /\ v.dev.ram \in {NoRam, q}
        /\ (dev[d].cow => v.dev.cow)
    <2>1. CASE q = NoRam
      BY <1>5, <1>6, <2>1
    <2>2. CASE q # NoRam
      <3>1. q \in Nat /\ v = InitSnapshot(w0, q, f)
        BY <1>7, <2>2
      <3> HIDE DEF q, v
      <3> QED BY <1>5, <1>6, <2>2, <3>1, InitSnapshotKeeps DEF New
    <2> QED BY <2>1, <2>2
  <1> HIDE DEF q, v
  <1>10. /\ New(w) /\ Unwritten(d, v, w) /\ w.dev.ram \in {NoRam, v.dev.ram}
         /\ v.dev.ram = NoRam /\ v.dev.cow => w.dev.cow
    BY <1>8, <1>9, MountDeviceKeeps
  <1>11. /\ x \in [dev : Records, tr : SUBSET Mapping] /\ x.tr = w.tr
         /\ x.dev.phase = (IF w.dev.mounted THEN "parsing" ELSE "absent")
         /\ x.dev.ram = w.dev.ram /\ x.dev.maps = w.dev.maps /\ x.dev.mounted = w.dev.mounted
         /\ x.dev.mnt = w.dev.mnt /\ x.dev.cow = w.dev.cow /\ x.dev.wrote = w.dev.wrote
    BY <1>10 DEF New, Work, Records
  <1> HIDE DEF x
  <1>12. Founded(x.dev) /\ (x.dev.phase # "absent" => Live(x))
    BY <1>10, <1>11, SMTT(30) DEF New, Work, Founded, Live, Mapping
  <1>13. StorageIInv'
    <2>1. allow \in BOOLEAN /\ snaps \in BOOLEAN /\ scans \in Nat /\ asked \subseteq Devices
          /\ (dev[d].wrote => d \in asked \/ Journal[d] = "always")
      BY DEF StorageIInv, DiskUntouched
    <2>2. x.dev.wrote => d \in asked \/ Journal[d] = "always"
      BY <1>9, <1>10, <1>11, <2>1 DEF Unwritten
    <2> QED BY <1>1, <1>7, <1>8, <1>9, <1>10, <1>11, <1>12, <2>1, <2>2, PutKeeps
  <1>14. KeepsWrites
    <2>1. dev' = [dev EXCEPT ![d] = x.dev] /\ dev \in [Devices -> Records]
      BY <1>8 DEF Put, StorageIInv
    <2>2. dev[d].cow => x.dev.cow
      BY <1>9, <1>10, <1>11
    <2> QED BY <2>1, <2>2 DEF KeepsWrites
  <1> QED BY <1>13, <1>14

(* A callback on a device in use *)
LEMMA PutLiveKeeps ==
  ASSUME StorageIInv, NEW d \in Devices, dev[d].phase # "absent", NEW x,
         Live(x), x.dev.ram = dev[d].ram, Kept(View(d), x), Put(d, dev[d].ram, x),
         asked' \in {asked, asked \cup {d}}, x.dev.wrote /\ asked' = asked => d \in asked,
         UNCHANGED <<allow, snaps, scans>>
  PROVE  StorageIInv' /\ KeepsWrites
  <1> DEFINE r == dev[d].ram
  <1>1. dev[d] \in Records /\ Backed(d) /\ dev \in [Devices -> Records] /\ OneOwner
    BY DEF StorageIInv
  <1>2. r \in Nat \cup {NoRam} /\ (r = NoRam \/ r \in Tracked)
    BY <1>1 DEF Backed, Records
  <1>3. \A e \in Devices \ {d} : dev[e].phase # "absent" => dev[e].ram # r \/ r = NoRam
    BY <1>1 DEF OneOwner
  <1>4. x \in [dev : Records, tr : SUBSET Mapping] /\ Founded(x.dev)
    BY DEF Live, Work
  <1>5. /\ allow' \in BOOLEAN /\ snaps' \in BOOLEAN /\ scans' \in Nat
        /\ asked \subseteq asked' /\ asked' \subseteq Devices /\ (x.dev.wrote => d \in asked')
    BY DEF StorageIInv
  <1>6. StorageIInv'
    BY <1>2, <1>3, <1>4, <1>5, PutKeeps, Zenon
  <1>7. KeepsWrites
    <2>1. dev' = [dev EXCEPT ![d] = x.dev]
      BY DEF Put
    <2>2. dev[d].cow /\ ~x.dev.cow => x.dev.wrote
      BY ViewLive DEF Kept
    <2> QED BY <1>1, <2>1, <2>2 DEF KeepsWrites
  <1> QED BY <1>6, <1>7

LEMMA SyncKeeps ==
  ASSUME StorageIInv, NEW d \in Devices, Sync(d)
  PROVE  StorageIInv' /\ KeepsWrites
  <1>1. PICK f : Put(d, dev[d].ram, ReleaseWrite(d, View(d), f))
    BY DEF Sync
  <1>2. dev[d].phase # "absent" /\ asked' = asked \cup {d} /\ UNCHANGED <<allow, snaps, scans>>
    BY DEF Sync
  <1>3. Live(View(d)) /\ View(d).dev = dev[d]
    BY <1>2, ViewLive
  <1> DEFINE x == ReleaseWrite(d, View(d), f)
  <1>4. Live(x) /\ x.dev.ram = dev[d].ram /\ Kept(View(d), x)
    BY <1>3, ReleaseWriteKeeps
  <1> HIDE DEF x
  <1>5. Put(d, dev[d].ram, x) /\ asked' \in {asked, asked \cup {d}}
        /\ (x.dev.wrote /\ asked' = asked => d \in asked)
    BY <1>1, <1>2 DEF x
  <1> QED BY <1>2, <1>4, <1>5, PutLiveKeeps

LEMMA ReplaceFileKeeps ==
  ASSUME StorageIInv, NEW d \in Devices, ReplaceFile(d)
  PROVE  StorageIInv' /\ KeepsWrites
  <1> DEFINE w(f) == RequestWrite(d, View(d), f)
             file(f) == [w(f) EXCEPT !.dev.cow = @ \/ w(f).dev.mnt = "snap",
                                     !.dev.wrote = @ \/ w(f).dev.mnt = "disk"]
             done(f, g) == IF ~w(f).dev.rw THEN w(f)
                           ELSE IF dev[d].rw THEN file(f) ELSE ReleaseWrite(d, file(f), g)
  <1>1. \E f, g : Put(d, dev[d].ram, done(f, g))
    BY Zenon DEF ReplaceFile
  <1>2. PICK f, g : Put(d, dev[d].ram, done(f, g))
    BY <1>1, Zenon
  <1>3. /\ dev[d].phase # "absent" /\ MayWrite(View(d)) /\ UNCHANGED <<allow, snaps, scans>>
        /\ asked' = asked \cup {d}
    BY DEF ReplaceFile, MayWrite
  <1>4. Live(View(d)) /\ View(d).dev = dev[d] /\ View(d).dev.mounted
    BY <1>3, ViewLive DEF MayWrite
  <1> DEFINE y == w(f)
             z == file(f)
             x == done(f, g)
  <1>5. Live(y) /\ y.dev.ram = dev[d].ram /\ y.dev.mounted /\ (dev[d].cow => y.dev.cow)
    BY <1>4, RequestWriteKeeps
  <1>6. z = [y EXCEPT !.dev.cow = @ \/ y.dev.mnt = "snap", !.dev.wrote = @ \/ y.dev.mnt = "disk"]
        /\ (x = y \/ x = z \/ x = ReleaseWrite(d, z, g))
    OBVIOUS
  <1> HIDE DEF y, z, x
  <1>7. Live(z) /\ z.dev.ram = dev[d].ram /\ (dev[d].cow => z.dev.cow)
    <2>1. y \in [dev : Records, tr : SUBSET Mapping]
      BY <1>5 DEF Live, Work
    <2>2. /\ z \in [dev : Records, tr : SUBSET Mapping] /\ z.tr = y.tr
          /\ z.dev.phase = y.dev.phase /\ z.dev.ram = y.dev.ram
          /\ z.dev.maps = y.dev.maps /\ z.dev.mounted = y.dev.mounted
          /\ z.dev.mnt = y.dev.mnt /\ (z.dev.cow <=> y.dev.cow \/ y.dev.mnt = "snap")
      BY <1>6, <2>1, Zenon DEF Records
    <2>3. "snapshot" \in y.dev.maps => "base" \in y.dev.maps
      BY <2>1 DEF Records, Stacks, Mapping
    <2> QED BY <1>5, <2>2, <2>3 DEF Live, Work, Founded
  <1>8. Live(x) /\ x.dev.ram = dev[d].ram /\ (dev[d].cow /\ ~x.dev.cow => x.dev.wrote)
    <2>1. CASE x = y \/ x = z
      BY <1>5, <1>7, <2>1
    <2>2. CASE x = ReleaseWrite(d, z, g)
      BY <1>7, <2>2, ReleaseWriteKeeps DEF Kept
    <2> QED BY <1>6, <2>1, <2>2
  <1>9. /\ Put(d, dev[d].ram, x) /\ asked' \in {asked, asked \cup {d}}
        /\ (x.dev.wrote /\ asked' = asked => d \in asked) /\ Kept(View(d), x)
    BY <1>2, <1>3, <1>4, <1>8, Zenon DEF x, Kept
  <1> QED BY <1>3, <1>8, <1>9, PutLiveKeeps, SMTT(30)

LEMMA HandleDevRemoveKeeps ==
  ASSUME StorageIInv, NEW d \in Devices, HandleDevRemove(d)
  PROVE  StorageIInv' /\ KeepsWrites
  <1>1. PICK f : Put(d, dev[d].ram, Destroyed(d, f))
    BY DEF HandleDevRemove
  <1>2. dev[d].phase # "absent" /\ UNCHANGED <<allow, snaps, asked, scans>>
    BY DEF HandleDevRemove
  <1> DEFINE x == Destroyed(d, f)
             r == dev[d].ram
  <1>3. /\ x \in [dev : Records, tr : SUBSET Mapping] /\ Founded(x.dev)
        /\ x.dev.phase = "absent" /\ x.dev.wrote = dev[d].wrote
    BY <1>2, DestroyedKeeps
  <1>4. dev[d] \in Records /\ Backed(d) /\ dev \in [Devices -> Records] /\ OneOwner
    BY DEF StorageIInv
  <1>5. r \in Nat \cup {NoRam} /\ (r = NoRam \/ r \in Tracked)
    BY <1>2, <1>4 DEF Backed, Records
  <1>6. \A e \in Devices \ {d} : dev[e].phase # "absent" => dev[e].ram # r \/ r = NoRam
    BY <1>2, <1>4 DEF OneOwner
  <1>7. /\ allow' \in BOOLEAN /\ snaps' \in BOOLEAN /\ scans' \in Nat
        /\ asked \subseteq asked' /\ asked' \subseteq Devices
        /\ (x.dev.wrote => d \in asked' \/ Journal[d] = "always")
    BY <1>2, <1>3 DEF StorageIInv, DiskUntouched
  <1> HIDE DEF x
  <1>8. Put(d, r, x)
    BY <1>1 DEF x
  <1> HIDE DEF r
  <1>9. StorageIInv'
    BY <1>3, <1>5, <1>6, <1>7, <1>8, PutKeeps
  <1>10. KeepsWrites
    BY <1>3, <1>4, <1>8 DEF Put, KeepsWrites
  <1> QED BY <1>9, <1>10

LEMMA ReinitStorageKeeps ==
  ASSUME StorageIInv, ReinitStorage
  PROVE  StorageIInv' /\ KeepsWrites
  <1> DEFINE Gone(x, f) == [d \in Devices |->
                 IF dev[d].phase = "known"
                 THEN Destroyed(d, IF d = x THEN f ELSE {}).dev ELSE dev[d]]
  <1>1. \E x \in Devices, f \in RemovalFaults : dev' = Gone(x, f)
    BY Zenon DEF ReinitStorage
  <1>2. PICK x \in Devices, f \in RemovalFaults : dev' = Gone(x, f)
    BY <1>1
  <1>3. /\ \A d \in Devices : dev[d].phase # "parsing"
        /\ trk' = [r \in {} |-> {}] /\ scans' = scans + 1 /\ UNCHANGED <<allow, snaps, asked>>
    BY DEF ReinitStorage, Idle
  <1>4. dev \in [Devices -> Records] /\ \A d \in Devices : Founded(dev[d])
    BY DEF StorageIInv
  <1>5. ASSUME NEW d \in Devices
        PROVE  /\ dev'[d] \in Records /\ Founded(dev'[d])
               /\ dev'[d].phase = "absent" /\ dev'[d].wrote = dev[d].wrote
    <2>1. CASE dev[d].phase = "known"
      <3> DEFINE y == Destroyed(d, IF d = x THEN f ELSE {})
      <3>1. dev'[d] = y.dev
        BY <1>2, <2>1
      <3>2. /\ y \in [dev : Records, tr : SUBSET Mapping] /\ Founded(y.dev)
            /\ y.dev.phase = "absent" /\ y.dev.wrote = dev[d].wrote
        BY <2>1, DestroyedKeeps
      <3> HIDE DEF y
      <3> QED BY <3>1, <3>2
    <2>2. CASE dev[d].phase # "known"
      BY <1>2, <1>3, <1>4, <2>2 DEF Records
    <2> QED BY <2>1, <2>2
  <1>6. dev' \in [Devices -> Records]
    BY <1>2, <1>5
  <1>7. Tracked' = 0 .. 0 - 1 /\ trk' \in [Tracked' -> SUBSET Mapping]
    BY <1>3 DEF Tracked
  <1>8. \A d \in Devices : Founded(dev[d])' /\ Backed(d)'
    BY <1>5 DEF Founded, Backed
  <1>9. DiskUntouched' /\ OneOwner'
    BY <1>3, <1>5 DEF DiskUntouched, OneOwner, StorageIInv
  <1>10. StorageIInv'
    <2>1. \E n \in Nat : Tracked' = 0 .. n - 1
      BY <1>7
    <2> QED BY <1>3, <1>6, <1>7, <1>8, <1>9, <2>1 DEF StorageIInv
  <1> QED BY <1>5, <1>10 DEF KeepsWrites

LEMMA RamdiskFoundKeeps ==
  ASSUME StorageIInv, RamdiskFound
  PROVE  StorageIInv' /\ KeepsWrites
  <1>1. PICK n \in Nat : Tracked = 0 .. n - 1
    BY DEF StorageIInv
  <1>2. Cardinality(Tracked) = n
    BY <1>1, FS_Interval
  <1>3. /\ trk' = [q \in Tracked \cup {n} |-> IF q \in Tracked THEN trk[q] ELSE {}]
        /\ UNCHANGED <<allow, snaps, dev, asked, scans>>
    BY <1>2 DEF RamdiskFound
  <1>4. /\ Tracked' = Tracked \cup {n} /\ trk' \in [Tracked' -> SUBSET Mapping]
        /\ \A q \in Tracked : trk'[q] = trk[q]
    BY <1>3 DEF Tracked, StorageIInv, Mapping
  <1>5. n + 1 \in Nat /\ Tracked' = 0 .. (n + 1) - 1
    BY <1>1, <1>4
  <1>6. \E m \in Nat : Tracked' = 0 .. m - 1
    BY <1>5, Zenon
  <1>7. \A d \in Devices : Founded(dev[d])' /\ Backed(d)'
    BY <1>3, <1>4 DEF StorageIInv, Founded, Backed
  <1>8. DiskUntouched' /\ OneOwner'
    BY <1>3 DEF StorageIInv, DiskUntouched, OneOwner
  <1>9. StorageIInv'
    BY <1>3, <1>4, <1>6, <1>7, <1>8 DEF StorageIInv
  <1>10. KeepsWrites
    BY <1>3 DEF KeepsWrites
  <1> QED BY <1>9, <1>10

(* Steps that change one device and no ramdisk *)
LEMMA TouchKeeps ==
  ASSUME StorageIInv, NEW d \in Devices, Discovered(d) \/ UserWrites(d)
  PROVE  StorageIInv' /\ KeepsWrites
  <1>1. dev[d] \in Records /\ Founded(dev[d]) /\ Backed(d) /\ dev \in [Devices -> Records]
    BY DEF StorageIInv
  <1>2. "snapshot" \in dev[d].maps => "base" \in dev[d].maps
    BY <1>1 DEF Records, Stacks, Mapping
  <1>3. UNCHANGED <<allow, snaps, trk, asked, scans>>
    BY DEF Discovered, UserWrites
  <1>4. /\ dev' \in [Devices -> Records] /\ (\A e \in Devices \ {d} : dev'[e] = dev[e])
        /\ dev'[d].ram = dev[d].ram /\ dev'[d].maps = dev[d].maps
        /\ dev'[d].mounted = dev[d].mounted /\ dev'[d].mnt = dev[d].mnt
        /\ (dev'[d].wrote => dev[d].wrote) /\ (dev[d].cow => dev'[d].cow)
        /\ (dev'[d].cow => dev[d].cow \/ dev[d].mnt = "snap")
        /\ (dev'[d].phase # "absent" <=> dev[d].phase # "absent")
    <2>1. CASE Discovered(d)
      <3> DEFINE y == [dev[d] EXCEPT !.phase = "known"]
      <3>1. dev' = [dev EXCEPT ![d] = y] /\ dev[d].phase = "parsing"
        BY <2>1 DEF Discovered
      <3>2. /\ y \in Records /\ y.phase = "known" /\ y.ram = dev[d].ram /\ y.maps = dev[d].maps
            /\ y.mounted = dev[d].mounted /\ y.mnt = dev[d].mnt /\ y.cow = dev[d].cow
            /\ y.wrote = dev[d].wrote
        BY <1>1 DEF Records
      <3> HIDE DEF y
      <3> QED BY <1>1, <3>1, <3>2
    <2>2. CASE UserWrites(d)
      <3> DEFINE y == [dev[d] EXCEPT !.cow = TRUE, !.wrote = FALSE]
      <3>1. dev' = [dev EXCEPT ![d] = y] /\ dev[d].mnt = "snap"
        BY <2>2, Zenon DEF UserWrites
      <3>2. /\ y \in Records /\ y.phase = dev[d].phase /\ y.ram = dev[d].ram
            /\ y.maps = dev[d].maps /\ y.mounted = dev[d].mounted /\ y.mnt = dev[d].mnt
            /\ y.cow = TRUE /\ y.wrote = FALSE
        BY <1>1, Zenon DEF Records
      <3> HIDE DEF y
      <3> QED BY <1>1, <3>1, <3>2
    <2> QED BY <2>1, <2>2
  <1>5. ASSUME NEW e \in Devices PROVE Founded(dev[e])' /\ Backed(e)'
    <2>1. CASE e = d
      BY <1>1, <1>2, <1>3, <1>4, <2>1, SMTT(30) DEF Founded, Backed, Tracked
    <2>2. CASE e # d
      BY <1>3, <1>4, <2>2 DEF Founded, Backed, Tracked, StorageIInv
    <2> QED BY <2>1, <2>2, SMTT(30)
  <1>6. DiskUntouched'
    BY <1>3, <1>4 DEF DiskUntouched, StorageIInv
  <1>7. OneOwner'
    BY <1>4 DEF OneOwner, StorageIInv
  <1>8. StorageIInv'
    BY <1>3, <1>4, <1>5, <1>6, <1>7, SMTT(30) DEF StorageIInv, Tracked
  <1>9. KeepsWrites
    BY <1>4 DEF KeepsWrites
  <1> QED BY <1>8, <1>9

LEMMA StorageStep ==
  ASSUME StorageIInv, [StorageNext]_svars
  PROVE  StorageIInv' /\ [KeepsWrites]_svars
  <1>1. CASE RamdiskFound
    BY <1>1, RamdiskFoundKeeps
  <1>2. CASE ReinitStorage
    BY <1>2, ReinitStorageKeeps
  <1>3. CASE SetConfig
    BY <1>3 DEF SetConfig, StorageIInv, Founded, Backed, Tracked, DiskUntouched, OneOwner, KeepsWrites
  <1>4. ASSUME NEW d \in Devices, HandleBlockAdd(d) PROVE StorageIInv' /\ KeepsWrites
    BY <1>4, HandleBlockAddKeeps
  <1>5. ASSUME NEW d \in Devices, ReplaceFile(d) PROVE StorageIInv' /\ KeepsWrites
    BY <1>5, ReplaceFileKeeps
  <1>6. ASSUME NEW d \in Devices, Discovered(d) \/ UserWrites(d) PROVE StorageIInv' /\ KeepsWrites
    BY <1>6, TouchKeeps
  <1>7. ASSUME NEW d \in Devices, Sync(d) PROVE StorageIInv' /\ KeepsWrites
    BY <1>7, SyncKeeps
  <1>8. ASSUME NEW d \in Devices, HandleDevRemove(d) PROVE StorageIInv' /\ KeepsWrites
    BY <1>8, HandleDevRemoveKeeps
  <1>9. CASE UNCHANGED svars
    BY <1>9 DEF svars, StorageIInv, Founded, Backed, Tracked, DiskUntouched, OneOwner
  <1> QED BY <1>1, <1>2, <1>3, <1>4, <1>5, <1>6, <1>7, <1>8, <1>9 DEF StorageNext

LEMMA StorageStart ==
  ASSUME StorageInit
  PROVE  StorageIInv
  <1>1. \A d \in Devices : dev[d] = [Absent EXCEPT !.mnt = "none"]
                           \/ dev[d] = [Absent EXCEPT !.mnt = "disk"]
    BY DEF StorageInit
  <1>2. {} \in Stacks
    BY DEF Stacks
  <1>3. \A d \in Devices :
          /\ dev[d] \in Records /\ dev[d].phase = "absent" /\ dev[d].cow = FALSE
          /\ dev[d].wrote = FALSE /\ dev[d].mnt # "snap"
    <2>1. Absent \in Records
      BY <1>2, SMTT(30) DEF Absent, Records
    <2>2. Absent.phase = "absent" /\ Absent.cow = FALSE /\ Absent.wrote = FALSE
      BY DEF Absent
    <2>3. ASSUME NEW m \in {"none", "disk"}
          PROVE  LET r == [Absent EXCEPT !.mnt = m]
                 IN  /\ r \in Records /\ r.mnt = m /\ r.phase = Absent.phase
                     /\ r.cow = Absent.cow /\ r.wrote = Absent.wrote
      BY <2>1, SMTT(30) DEF Records
    <2> QED BY <1>1, <2>2, <2>3, Zenon
  <1>4. dev \in [Devices -> Records]
    BY <1>3 DEF StorageInit
  <1>5. Tracked = 0 .. 0 - 1 /\ trk \in [Tracked -> SUBSET Mapping]
    BY DEF StorageInit, Tracked
  <1>6. \E n \in Nat : Tracked = 0 .. n - 1
    BY <1>5
  <1>7. \A d \in Devices : Founded(dev[d]) /\ Backed(d)
    BY <1>3 DEF Founded, Backed
  <1>8. DiskUntouched /\ OneOwner
    BY <1>3 DEF DiskUntouched, OneOwner
  <1> QED BY <1>4, <1>5, <1>6, <1>7, <1>8 DEF StorageIInv, StorageInit

LEMMA StorageInvariance == StorageSpec => []StorageIInv
  <1>1. StorageInit => StorageIInv
    BY StorageStart
  <1>2. StorageIInv /\ [StorageNext]_svars => StorageIInv'
    BY StorageStep
  <1> QED BY <1>1, <1>2, PTL DEF StorageSpec

(* Whatever fails while devices are added, mounted, remounted, synced and      *)
(* removed, a disk is written only where the configuration or a user let it.   *)
THEOREM DiskUntouchedHolds == StorageSpec => []DiskUntouched
  <1>1. StorageIInv => DiskUntouched
    BY DEF StorageIInv
  <1> QED BY <1>1, StorageInvariance, PTL

(* get_ramdisk() never gives a ramdisk to a second device in use.              *)
THEOREM OneOwnerHolds == StorageSpec => []OneOwner
  <1>1. StorageIInv => OneOwner
    BY DEF StorageIInv
  <1> QED BY <1>1, StorageInvariance, PTL

(* devmapper_merge_snapshot() and device_release_write() never lose what a     *)
(* user wrote, whichever steps fail: it is merged, or the snapshot's ramdisk   *)
(* still has it.                                                               *)
THEOREM WritesKeptHolds == StorageSpec => WritesKept
  <1>1. StorageIInv /\ [StorageNext]_svars => [KeepsWrites]_svars
    BY StorageStep
  <1> QED BY <1>1, StorageInvariance, PTL DEF StorageSpec, WritesKept
=============================================================================
