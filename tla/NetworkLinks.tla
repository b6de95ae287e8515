---------------------------- MODULE NetworkLinks ----------------------------
(***************************************************************************)
(* Network's handlers of a new or changed link and of udev's report, which *)
(* configure interfaces, keep the inductive invariant.                     *)
(***************************************************************************)
EXTENDS NetworkLemmas

(* A message msg about the interface i has been read, and q is left. *)
LinkRead(i, msg, q) ==
    /\ i \in Ifs /\ msg.mac \in Macs /\ msg.up \in BOOLEAN /\ msg.link \in BOOLEAN
    /\ q \in Seq(MessageT)
    /\ (\A x \in DOMAIN inbox : inbox[x].mac = Mac[inbox[x].if]) =>
         msg.mac = Mac[i] /\ \A x \in DOMAIN q : q[x].mac = Mac[q[x].if]
    /\ ~NoneFor(i, inbox)
    /\ \A j : j # i => (NoneFor(j, inbox) <=> NoneFor(j, q))
    /\ \A j, m : LastFor(j, inbox, m) => LastFor(j, q, m)
    /\ \A m : LastFor(i, inbox, m) /\ NoneFor(i, q) => msg = m
    /\ UNCHANGED <<conf, udev, deaf, changed>>

(* Its interface is at `at' in n; r is what it becomes, and upd the list.   *)
LinkFound(i, msg, n, at, r, upd) ==
    /\ Enters(n, at, i, msg.mac)
    /\ r \in IfT /\ r.if = i /\ r.mac = msg.mac
    /\ r.ready = n[at].ready /\ r.state = n[at].state
    /\ upd \in Seq(IfT) /\ DOMAIN upd = DOMAIN n /\ upd[at] = r
    /\ \A x \in DOMAIN n : x # at => upd[x] = n[x]
    /\ devs \subseteq devs' /\ devs' \subseteq Macs
    /\ NetOk(net, devs, timer, client) /\ Addresses =>
         /\ r.dev = msg.mac /\ msg.mac \in devs' /\ msg.mac = Mac[i]
         /\ NetOk(upd, devs', timer, client)

LEMMA FoundBefore ==
  ASSUME NEW i \in Ifs, NEW msg, NEW n, NEW at, NEW r, NEW upd, LinkFound(i, msg, n, at, r, upd),
         NetOk(net, devs, timer, client), Told, Alone(i), kernel[i].st = "here"
  PROVE  /\ Seen(i) /\ i \notin Lo /\ (i \in udev <=> ~r.ready)
         /\ \A ready, s : Listed(net, i, ready, s) => r.ready = ready /\ r.state = s
  <1>1. Seen(i) /\ i \notin Lo
    BY DEF Told, Alone
  <1>2. Enters(n, at, i, msg.mac) /\ r.ready = n[at].ready /\ r.state = n[at].state
    BY DEF LinkFound
  <1>3. /\ i \in udev <=> ~n[at].ready
        /\ \A ready, s : Listed(net, i, ready, s) => n[at].ready = ready /\ n[at].state = s
    BY <1>1, <1>2, KnownBefore
  <1> QED BY <1>1, <1>2, <1>3, Zenon

LEMMA FoundOnly ==
  ASSUME NEW i, NEW msg, NEW n, NEW at, NEW r, NEW upd, LinkFound(i, msg, n, at, r, upd),
         DOMAIN net' = DOMAIN n, net'[at].if = i,
         \A x \in DOMAIN n : x # at => net'[x] = n[x]
  PROVE  Only(at, i)
  BY DEF LinkFound, Enters, Only

(* A message about an interface whose address another one has is dropped. *)
LEMMA LinkDropped ==
  ASSUME IInv, fate = "run", ~changed, NEW i, NEW msg, NEW q, LinkRead(i, msg, q),
         ByIndex(net, i) = 0, ByMac(net, msg.mac) # 0, inbox' = q,
         UNCHANGED <<kernel, net, client, devs, timer, faults>>
  PROVE  IInv'
  <1>1. /\ net \in Seq(IfT) /\ NetTypeOK /\ NetOk(net, devs, timer, client) /\ Addresses
        /\ faults = 0 => Told
    BY DEF IInv, NetTypeOK
  <1>2. NetTypeOK'
    BY <1>1 DEF LinkRead, NetTypeOK
  <1>3. Addresses'
    BY <1>1 DEF LinkRead, Addresses
  <1>4. ASSUME Told PROVE Told'
    <2>1. kernel[i].st # "absent"
      BY <1>4 DEF LinkRead, Told, Unseen
    <2>2. ~Alone(i)
      <3>1. msg.mac = Mac[i] /\ msg.mac \in Macs /\ i \in Ifs
        BY <1>1 DEF LinkRead, Addresses
      <3>2. PICK x \in DOMAIN net : net[x].mac = Mac[i]
        BY <1>1, <3>1, Lookup, NetDistinct
      <3>3. net[x].if # i
        BY <1>1, <3>1, Lookup, NetDistinct
      <3>4. net[x].mac = Mac[net[x].if] /\ net[x].if \in Ifs
        <4>1. net[x] \in IfT
          BY <1>1
        <4> QED BY <1>1, <4>1 DEF NetOk, IfT
      <3> QED BY <3>1, <3>2, <3>3, <3>4 DEF Alone
    <2>3. \A j : SameFor(j)
      BY DEF SameFor
    <2>4. OthersAlike(i)
      BY <2>3 DEF LinkRead, OthersAlike
    <2>5. i \in Ifs /\ UNCHANGED <<conf, deaf>> /\ kernel'[i].st = kernel[i].st
      BY DEF LinkRead
    <2> QED BY <1>4, <2>1, <2>2, <2>4, <2>5, OthersTold
  <1> QED BY <1>1, <1>2, <1>3, <1>4 DEF IInv

(* One about an interface that udev has not named is noted. *)
LEMMA LinkWaits ==
  ASSUME IInv, fate = "run", ~changed, NEW i, NEW msg, NEW q, LinkRead(i, msg, q),
         NEW n, NEW at, NEW r, NEW upd, LinkFound(i, msg, n, at, r, upd),
         NotReady(r), inbox' = q, net' = upd, UNCHANGED <<kernel, client, timer, faults>>
  PROVE  IInv'
  <1>1. UNCHANGED <<conf, udev, deaf, changed>>
    BY DEF LinkRead
  <1>2. /\ net \in Seq(IfT) /\ client \in [Clients -> ClientT] /\ inbox \in Seq(MessageT)
        /\ kernel \in [Ifs -> KernelT] /\ faults \in Nat
        /\ devs \subseteq Macs /\ timer \subseteq Macs \cup {"null", "stale"} /\ NetTypeOK
        /\ NetOk(net, devs, timer, client) /\ Addresses /\ (faults = 0 => Told)
    BY DEF IInv, NetTypeOK
  <1>3. /\ q \in Seq(MessageT) /\ msg.mac = Mac[i]
        /\ \A x \in DOMAIN q : q[x].mac = Mac[q[x].if]
        /\ ~NoneFor(i, inbox)
        /\ \A j : j # i => (NoneFor(j, inbox) <=> NoneFor(j, q))
        /\ \A j, m : LastFor(j, inbox, m) => LastFor(j, q, m)
        /\ \A m : LastFor(i, inbox, m) /\ NoneFor(i, q) => msg = m
    BY <1>2 DEF LinkRead, Addresses
  <1>4. i \in Ifs /\ msg.mac \in Macs /\ msg.up \in BOOLEAN /\ msg.link \in BOOLEAN
    BY DEF LinkRead
  <1>5. /\ r \in IfT /\ r.if = i /\ r.mac = Mac[i] /\ r.dev = Mac[i] /\ Mac[i] \in devs'
        /\ upd \in Seq(IfT) /\ DOMAIN upd = DOMAIN n /\ upd[at] = r /\ at \in DOMAIN n
        /\ \A x \in DOMAIN n : x # at => upd[x] = n[x]
        /\ devs \subseteq devs' /\ devs' \subseteq Macs /\ NetOk(upd, devs', timer, client)
    BY <1>2, <1>3, SMTT(30) DEF LinkFound, Enters
  <1>6. Told => kernel[i].st # "absent"
    BY <1>3, <1>4 DEF Told, Unseen
  <1>7. NetTypeOK'
    BY <1>1, <1>2, <1>3, <1>5, SMTT(30) DEF NetTypeOK
  <1>8. Addresses'
    BY <1>2, <1>3 DEF Addresses
  <1>9. NetOk(net', devs', timer', client')
    BY <1>5
  <1>10. ASSUME Told PROVE Told'
    <2>1. Only(at, i)
      BY <1>5, FoundOnly, Zenon
    <2>2. ASSUME Alone(i), kernel[i].st = "here" PROVE Seen(i)'
      <3>1. Seen(i) /\ i \in udev
        BY <1>2, <1>4, <1>10, <2>2, FoundBefore DEF NotReady
      <3>2. at \in DOMAIN net' /\ net'[at].if = i /\ ~net'[at].ready
        BY <1>5 DEF NotReady
      <3>3. \A g : LastFor(i, inbox, g) => LastFor(i, inbox', g)
        BY <1>3, Zenon
      <3>4. UNCHANGED <<kernel, udev>>
        BY <1>1
      <3> QED BY <1>4, <1>9, <3>1, <3>2, <3>3, <3>4, SeenWaiting
    <2>3. OthersAlike(i)
      <3>1. /\ \A j : j # i => SameFor(j)
            /\ \A x \in DOMAIN net' : net'[x].if = i \/ \E y \in DOMAIN net : net[y].if = net'[x].if
        BY <2>1, OnlySame, SMTT(30)
      <3>2. UNCHANGED <<kernel, udev>>
        BY <1>1
      <3> QED BY <1>3, <3>1, <3>2 DEF OthersAlike
    <2> QED BY <1>1, <1>4, <1>6, <1>10, <2>2, <2>3, OthersTold
  <1> QED BY <1>1, <1>2, <1>7, <1>8, <1>9, <1>10 DEF IInv

(* One about an interface that udev has named is applied. *)
LEMMA LinkApplied ==
  ASSUME IInv, fate = "run", ~changed, NEW i, NEW msg, NEW q, LinkRead(i, msg, q),
         NEW n, NEW at, NEW r, NEW upd, LinkFound(i, msg, n, at, r, upd), ~NotReady(r),
         NEW ok \in BOOLEAN, NEW ok4 \in BOOLEAN, NEW ok6 \in BOOLEAN,
         Apply(upd, at, msg.up, msg.link, q, ok, ok4, ok6)
  PROVE  IInv'
  <1>1. UNCHANGED <<conf, udev, deaf, changed>>
    BY DEF LinkRead
  <1>2. /\ net \in Seq(IfT) /\ client \in [Clients -> ClientT] /\ inbox \in Seq(MessageT)
        /\ kernel \in [Ifs -> KernelT] /\ faults \in Nat
        /\ devs \subseteq Macs /\ timer \subseteq Macs \cup {"null", "stale"} /\ NetTypeOK
        /\ NetOk(net, devs, timer, client) /\ Addresses /\ (faults = 0 => Told)
    BY SMTT(30) DEF IInv, NetTypeOK
  <1>3. /\ q \in Seq(MessageT) /\ msg.mac = Mac[i]
        /\ \A x \in DOMAIN q : q[x].mac = Mac[q[x].if]
        /\ ~NoneFor(i, inbox)
        /\ \A j : j # i => (NoneFor(j, inbox) <=> NoneFor(j, q))
        /\ \A j, m : LastFor(j, inbox, m) => LastFor(j, q, m)
        /\ \A m : LastFor(i, inbox, m) /\ NoneFor(i, q) => msg = m
    BY <1>2, SMTT(30) DEF LinkRead, Addresses
  <1>4. i \in Ifs /\ msg.mac \in Macs /\ msg.up \in BOOLEAN /\ msg.link \in BOOLEAN
    BY SMTT(30) DEF LinkRead
  <1>5. /\ r \in IfT /\ r.if = i /\ r.mac = Mac[i] /\ r.dev = Mac[i] /\ Mac[i] \in devs'
        /\ upd \in Seq(IfT) /\ DOMAIN upd = DOMAIN n /\ upd[at] = r /\ at \in DOMAIN n
        /\ \A x \in DOMAIN n : x # at => upd[x] = n[x]
        /\ devs \subseteq devs' /\ devs' \subseteq Macs /\ NetOk(upd, devs', timer, client)
    BY <1>2, <1>3, Zenon DEF LinkFound, Enters
  <1>6. Told => kernel[i].st # "absent"
    BY <1>3, <1>4, Zenon DEF Told, Unseen
  <1>7. Applied(upd, at, msg.up, msg.link, q, ok, ok4, ok6)
    <2>1. NetTypeOK
      BY <1>2
    <2>2. upd \in Seq(IfT) /\ at \in DOMAIN upd
      BY <1>5, Zenon
    <2> QED BY <1>4, <2>1, <2>2, ApplyOne, SMTT(30)
  <1> DEFINE o == Configure(r, msg.up, msg.link)
             raised == /\ kernel[i].st = "here" /\ ~kernel[i].up
                       /\ kernel' \in [Ifs -> KernelT] /\ inbox' = Append(q, Message(i, kernel'))
                       /\ \A j \in Ifs : j # i => kernel'[j] = kernel[j]
                       /\ kernel'[i].up /\ kernel'[i].st = "here" /\ kernel'[i].mac = kernel[i].mac
  <1>8. r.if = i
    BY <1>5
  <1>9. /\ Alike(upd, net') /\ net'[at].state = o.state
        /\ \A x \in DOMAIN upd : /\ net'[x].ready = upd[x].ready /\ net'[x].dev = upd[x].dev
                                 /\ x # at => net'[x] = upd[x]
        /\ client' \in [Clients -> ClientT]
        /\ faults' \in Nat /\ (faults' = 0 => faults = 0)
        /\ timer' \subseteq timer \cup {r.dev}
        /\ (UNCHANGED kernel /\ inbox' = q) \/ raised
    BY <1>5, <1>7, <1>8, Zenon DEF Applied
  <1>10. /\ kernel' \in [Ifs -> KernelT]
         /\ \A j \in Ifs : /\ j # i => kernel'[j] = kernel[j]
                           /\ kernel'[j].st = kernel[j].st /\ kernel'[j].mac = kernel[j].mac
    <2>1. CASE UNCHANGED kernel
      BY <1>2, <2>1
    <2>2. CASE raised
      BY <1>4, <2>2
    <2> QED BY <1>9, <2>1, <2>2
  <1> DEFINE m == Message(i, kernel')
  <1>11. m \in MessageT /\ m.if = i /\ m.mac = kernel'[i].mac
    BY <1>4, <1>10, MessageOf
  <1>12. inbox' = q \/ inbox' = Append(q, m)
    BY <1>9, SMTT(30)
  <1> HIDE DEF m, o
  <1>13. /\ inbox' \in Seq(MessageT)
         /\ (\A x \in DOMAIN q : q[x].mac = Mac[q[x].if]) /\ m.mac = Mac[m.if] =>
             \A x \in DOMAIN inbox' : inbox'[x].mac = Mac[inbox'[x].if]
         /\ \A j : m.if # j =>
              /\ NoneFor(j, q) <=> NoneFor(j, inbox')
              /\ \A g : LastFor(j, q, g) => LastFor(j, inbox', g)
    BY <1>3, <1>11, <1>12, MaybeQueued, Zenon
  <1> HIDE DEF raised
  <1>14. NetTypeOK'
    <2>1. r.dev \in Macs \cup {"null", "stale"}
      BY <1>5 DEF IfT
    <2>2. timer' \subseteq Macs \cup {"null", "stale"}
      BY <1>2, <1>9, <2>1, SMTT(30)
    <2> QED BY <1>1, <1>2, <1>5, <1>9, <1>10, <1>13, <2>2, Zenon DEF NetTypeOK, Alike
  <1>15. Addresses'
    <2>1. m.mac = Mac[m.if]
      BY <1>2, <1>4, <1>10, <1>11, SMTT(30) DEF Addresses
    <2> QED BY <1>2, <1>3, <1>10, <1>13, <2>1, SMTT(30) DEF Addresses
  <1>16. NetOk(net', devs', timer', client')
    <2>1. Named(upd[at])
      BY <1>5 DEF NotReady, Named
    <2> QED BY <1>4, <1>5, <1>7, <2>1, AppliedOk, SMTT(30)
  <1>17. ASSUME Told PROVE Told'
    <2>1. Only(at, i)
      <3>1. DOMAIN net' = DOMAIN n /\ net'[at].if = i
        BY <1>5, <1>9, SMTT(30) DEF Alike
      <3>2. \A x \in DOMAIN n : x # at => net'[x] = n[x]
        BY <1>5, <1>9
      <3> QED BY <3>1, <3>2, FoundOnly, SMTT(30)
    <2>2. ASSUME Alone(i), kernel[i].st = "here" PROVE Seen(i)'
      <3>1. /\ Seen(i) /\ i \notin Lo /\ (i \in udev <=> ~r.ready)
            /\ \A ready, s : Listed(net, i, ready, s) => r.ready = ready /\ r.state = s
        BY <1>2, <1>4, <1>17, <2>2, FoundBefore
      <3>2. conf \in [Macs -> {"dhcp", "static", "ignore", "none"}] /\ UNCHANGED <<conf, udev>>
        BY <1>1, <1>2 DEF NetTypeOK
      <3>3. \A g : LastFor(i, inbox, g) => LastFor(i, q, g) /\ (NoneFor(i, q) => msg = g)
        BY <1>3, Zenon
      <3>4. kernel[i].up \/ o.do = "nothing" => UNCHANGED kernel /\ inbox' = q
        <4>1. CASE kernel[i].up
          BY <1>9, <4>1, SMTT(30) DEF raised
        <4>2. CASE o.do = "nothing"
          BY <1>5, <1>7, <4>2, Zenon DEF Applied, o
        <4> QED BY <4>1, <4>2, SMTT(30)
      <3>5. at \in DOMAIN net' /\ net'[at].if = i /\ net'[at].ready = r.ready
        BY <1>5, <1>9, <2>1, Zenon DEF Only
      <3>6. o = Configure(r, msg.up, msg.link)
        BY DEF o
      <3>7. MessageApplied(i, r, msg, q, o, at)
        BY <1>4, <1>5, <1>9, <3>1, <3>3, <3>4, <3>5, <3>6, Zenon DEF MessageApplied
      <3> QED BY <3>1, <3>2, <3>7, SeenApplied
    <2>3. \A j \in Ifs : j # i =>
            /\ j \in udev' <=> j \in udev
            /\ NoneFor(j, inbox) <=> NoneFor(j, inbox')
            /\ \A g : LastFor(j, inbox, g) => LastFor(j, inbox', g)
      BY <1>1, <1>3, <1>11, <1>13
    <2>4. OthersAlike(i)
      <3>1. /\ \A j : j # i => SameFor(j)
            /\ \A x \in DOMAIN net' : net'[x].if = i \/ \E y \in DOMAIN net : net[y].if = net'[x].if
        BY <2>1, OnlySame
      <3> QED BY <1>10, <2>3, <3>1, Zenon DEF OthersAlike
    <2>5. i \in Ifs /\ UNCHANGED <<conf, deaf>> /\ kernel'[i].st = kernel[i].st
      BY <1>1, <1>4, <1>10
    <2> QED BY <1>6, <1>17, <2>2, <2>4, <2>5, OthersTold
  <1> QED BY <1>1, <1>2, <1>9, <1>14, <1>15, <1>16, <1>17, SMTT(30) DEF IInv

(* network_handle_nlmsg(): a message that is about an interface. *)
LEMMA NewlinkKeeps ==
  ASSUME IInv, fate = "run", ~changed, NEW ok \in BOOLEAN, NEW ok4 \in BOOLEAN, NEW ok6 \in BOOLEAN,
         Newlink(ok, ok4, ok6), conf' = conf
  PROVE  IInv'
  <1> SUFFICES ASSUME NEW i, i = Head(inbox).if
               PROVE  IInv'
    OBVIOUS
  <1> DEFINE msg == Head(inbox)
             old == ByIndex(net, i)
             n == IF old = 0 THEN Append(net, NewInterface(i, msg.mac, msg.name)) ELSE net
             at == ByIndex(n, i)
             rename == n[at].name # msg.name
             r == [n[at] EXCEPT !.mac = msg.mac, !.name = msg.name,
                                !.dev = IF @ = "null" THEN msg.mac ELSE @]
             upd == [n EXCEPT ![at] = r]
             q == Tail(inbox)
             drop == old = 0 /\ ByMac(net, msg.mac) # 0
             dies == rename /\ n[at].dev \notin Macs
  <1>1. /\ fate = "run" /\ ~deaf /\ inbox # <<>> /\ ~msg.del
        /\ devs' = IF \/ old = 0 /\ ByMac(net, msg.mac) = 0
                      \/ old # 0 /\ n[at].dev = "null" /\ ~rename
                   THEN devs \cup {msg.mac} ELSE devs
        /\ drop => inbox' = q /\ UNCHANGED <<kernel, net, client, timer, faults>>
        /\ ~drop /\ dies => /\ inbox' = q /\ UNCHANGED <<kernel, net, client, timer, faults>>
                            /\ fate' # "run"
        /\ ~drop /\ ~dies /\ NotReady(r) =>
              inbox' = q /\ net' = upd /\ UNCHANGED <<kernel, client, timer, faults>>
        /\ ~drop /\ ~dies /\ ~NotReady(r) => Apply(upd, at, msg.up, msg.link, q, ok, ok4, ok6)
        /\ UNCHANGED <<udev, deaf, changed>>
    BY Zenon DEF Newlink
  <1>2. /\ net \in Seq(IfT) /\ client \in [Clients -> ClientT] /\ inbox \in Seq(MessageT)
        /\ kernel \in [Ifs -> KernelT] /\ faults \in Nat
        /\ devs \subseteq Macs /\ timer \subseteq Macs \cup {"null", "stale"} /\ NetTypeOK
    BY DEF IInv, NetTypeOK
  <1>3. /\ msg \in MessageT /\ q \in Seq(MessageT)
        /\ (\A x \in DOMAIN inbox : inbox[x].mac = Mac[inbox[x].if]) =>
             msg.mac = Mac[i] /\ \A x \in DOMAIN q : q[x].mac = Mac[q[x].if]
        /\ ~NoneFor(i, inbox)
        /\ \A j : j # i => (NoneFor(j, inbox) <=> NoneFor(j, q))
        /\ \A j, m : LastFor(j, inbox, m) => LastFor(j, q, m)
        /\ \A m : LastFor(i, inbox, m) /\ NoneFor(i, q) => msg = m
    BY <1>1, <1>2, ReadOne, ZenonT(30)
  <1>4. i \in Ifs /\ msg.mac \in Macs /\ msg.name \in {0, 1} /\ msg.up \in BOOLEAN /\ msg.link \in BOOLEAN
    BY <1>3 DEF MessageT
  <1>5. ~drop => Enters(n, at, i, msg.mac) /\ (at \in DOMAIN net <=> old # 0)
    BY <1>2, <1>4, EnterOne, NetDistinct
  <1>6. devs \subseteq devs' /\ devs' \subseteq devs \cup {msg.mac} /\ devs' \subseteq Macs
    BY <1>1, <1>2, <1>4, Zenon
  <1> HIDE DEF msg, n, at, q, old
  <1>7. ASSUME ~drop
        PROVE  /\ n[at] \in IfT /\ r \in IfT /\ r.if = i /\ r.mac = msg.mac
               /\ r.dev = (IF n[at].dev = "null" THEN msg.mac ELSE n[at].dev)
               /\ r.state = n[at].state /\ r.p4 = n[at].p4 /\ r.p6 = n[at].p6 /\ r.ready = n[at].ready
               /\ upd \in Seq(IfT) /\ DOMAIN upd = DOMAIN n /\ upd[at] = r /\ at \in DOMAIN n
               /\ \A x \in DOMAIN n : x # at => upd[x] = n[x]
    <2>1. n \in Seq(IfT) /\ at \in DOMAIN n /\ n[at] \in IfT /\ n[at].if = i
      BY <1>5, <1>7 DEF Enters
    <2>2. /\ r \in IfT /\ r.if = i /\ r.mac = msg.mac
          /\ r.dev = (IF n[at].dev = "null" THEN msg.mac ELSE n[at].dev)
          /\ r.state = n[at].state /\ r.p4 = n[at].p4 /\ r.p6 = n[at].p6 /\ r.ready = n[at].ready
      BY <1>4, <2>1, Zenon DEF IfT
    <2> HIDE DEF r
    <2> QED BY <2>1, <2>2, ChangeOne
  <1> HIDE DEF r, upd, rename
  <1>8. LinkRead(i, msg, q)
    BY <1>1, <1>3, <1>4 DEF LinkRead
  <1>9. CASE drop
    <2>1. inbox' = q /\ UNCHANGED <<kernel, net, client, timer, faults>>
      BY <1>1, <1>9
    <2>2. devs' = devs
      BY <1>1, <1>9
    <2>3. ByIndex(net, i) = 0 /\ ByMac(net, msg.mac) # 0
      BY <1>9 DEF old
    <2> QED BY <1>8, <2>1, <2>2, <2>3, LinkDropped, SMTT(30)
  <1>10. CASE ~drop /\ dies
    BY <1>1, <1>10, SMTT(30) DEF IInv
  <1>11. ASSUME ~drop, ~dies PROVE LinkFound(i, msg, n, at, r, upd)
    <2>1. ASSUME NetOk(net, devs, timer, client), Addresses
          PROVE  /\ r.dev = msg.mac /\ msg.mac \in devs' /\ msg.mac = Mac[i]
                 /\ NetOk(upd, devs', timer, client)
      <3>1. msg.mac = Mac[i]
        BY <1>3, <1>11, <2>1 DEF Addresses
      <3>2. msg.mac # "null" /\ "null" \notin Macs
        BY <1>4, NetAssumption
      <3>3. r.dev = msg.mac /\ msg.mac \in devs'
        <4>1. Enters(n, at, i, Mac[i])
          BY <1>5, <1>11, <2>1, <3>1, Zenon
        <4>2. at \notin DOMAIN net \/ n[at].dev = "null" => Mac[i] \in devs'
          BY <1>1, <1>5, <1>11, <2>1, <3>1, <3>2, SMTT(30)
        <4>3. Mac[i] = (IF n[at].dev = "null" THEN Mac[i] ELSE n[at].dev) /\ Mac[i] \in devs'
          BY <1>4, <1>6, <1>11, <2>1, <3>1, <3>2, <4>1, <4>2, DeviceEntered, SMTT(30)
        <4> QED BY <1>7, <1>11, <2>1, <3>1, <4>3
      <3>4. NetOk(upd, devs', timer, client)
        <4>1. Enters(n, at, i, Mac[i])
          BY <1>5, <1>11, <2>1, <3>1, SMTT(30)
        <4>2. r.dev = IF Mac[i] \in devs' THEN Mac[i] ELSE "null"
          BY <3>1, <3>3
        <4> QED BY <1>4, <1>6, <1>7, <1>11, <2>1, <3>1, <4>1, <4>2, EnteredOk, SMTT(30) DEF upd
      <3> QED BY <3>1, <3>3, <3>4, SMTT(30)
    <2> QED BY <1>5, <1>6, <1>7, <1>11, <2>1, SMTT(30) DEF LinkFound
  <1>12. CASE ~drop /\ ~dies /\ NotReady(r)
    <2>1. inbox' = q /\ net' = upd /\ UNCHANGED <<kernel, client, timer, faults>>
      BY <1>1, <1>12
    <2> QED BY <1>8, <1>11, <1>12, <2>1, LinkWaits
  <1>13. CASE ~drop /\ ~dies /\ ~NotReady(r)
    <2>1. Apply(upd, at, msg.up, msg.link, q, ok, ok4, ok6)
      BY <1>1, <1>13
    <2> QED BY <1>8, <1>11, <1>13, <2>1, LinkApplied
  <1> QED BY <1>9, <1>10, <1>12, <1>13

(* network_mark_interface_ready(): udev has named an interface. *)
LEMMA MarkReadyKeeps ==
  ASSUME IInv, fate = "run", ~changed, NEW i \in Ifs, NEW ok \in BOOLEAN, MarkReady(i, ok), conf' = conf
  PROVE  IInv'
  <1> DEFINE mac == kernel[i].mac
             name == kernel[i].name
             old == ByIndex(net, i)
             n == IF old = 0 THEN Append(net, NewInterface(i, mac, name)) ELSE net
             at == ByIndex(n, i)
             r == [n[at] EXCEPT !.ready = TRUE, !.name = name]
             upd == [n EXCEPT ![at] = r]
             drop == old = 0 /\ ByMac(net, mac) # 0
             skip == i \in Lo \/ drop \/ n[at].ready
             dies == n[at].name # name /\ n[at].dev \notin Macs
  <1>1. /\ fate = "run" /\ i \in udev /\ udev' = udev \ {i}
        /\ devs' = IF i \notin Lo /\ old = 0 /\ ByMac(net, mac) = 0 THEN devs \cup {mac} ELSE devs
        /\ skip => UNCHANGED <<fate, kernel, inbox, net, client, timer, faults>>
        /\ ~skip /\ dies => UNCHANGED <<kernel, inbox, net, client, timer, faults>> /\ fate' # "run"
        /\ ~skip /\ ~dies =>
              Apply([n EXCEPT ![at].ready = TRUE, ![at].name = name], at, FALSE, FALSE, inbox,
                    ok, TRUE, TRUE)
        /\ UNCHANGED <<deaf, changed>>
    BY Zenon DEF MarkReady
  <1>2. /\ net \in Seq(IfT) /\ client \in [Clients -> ClientT] /\ inbox \in Seq(MessageT)
        /\ kernel \in [Ifs -> KernelT] /\ faults \in Nat /\ udev \subseteq Ifs
        /\ devs \subseteq Macs /\ timer \subseteq Macs \cup {"null", "stale"} /\ NetTypeOK
    BY DEF IInv, NetTypeOK
  <1>3. mac \in Macs /\ name \in {0, 1}
    <2>1. kernel[i] \in KernelT
      BY <1>2
    <2> QED BY <2>1 DEF KernelT
  <1> HIDE DEF mac, name
  <1>4. ~drop => Enters(n, at, i, mac) /\ (at \in DOMAIN net <=> old # 0)
    BY <1>2, <1>3, EnterOne, NetDistinct, SMTT(30)
  <1>5. devs \subseteq devs' /\ devs' \subseteq devs \cup {mac} /\ devs' \subseteq Macs
    BY <1>1, <1>2, <1>3
  <1> HIDE DEF n, at, old
  <1>6. ASSUME ~drop
        PROVE  /\ n[at] \in IfT /\ r \in IfT /\ r.if = i /\ r.mac = n[at].mac /\ r.dev = n[at].dev
               /\ r.state = n[at].state /\ r.p4 = n[at].p4 /\ r.p6 = n[at].p6 /\ r.ready
               /\ upd \in Seq(IfT) /\ DOMAIN upd = DOMAIN n /\ upd[at] = r /\ at \in DOMAIN n
               /\ \A x \in DOMAIN n : x # at => upd[x] = n[x]
               /\ [n EXCEPT ![at].ready = TRUE, ![at].name = name] = upd
    <2>1. n \in Seq(IfT) /\ at \in DOMAIN n /\ n[at] \in IfT /\ n[at].if = i
      BY <1>4, <1>6 DEF Enters
    <2>2. /\ r \in IfT /\ r.if = i /\ r.mac = n[at].mac /\ r.dev = n[at].dev
          /\ r.state = n[at].state /\ r.p4 = n[at].p4 /\ r.p6 = n[at].p6 /\ r.ready
      BY <1>3, <2>1, Zenon DEF IfT
    <2>3. [n EXCEPT ![at].ready = TRUE, ![at].name = name] = upd
      BY <2>1, Zenon
    <2> HIDE DEF r
    <2> QED BY <2>1, <2>2, <2>3, ChangeOne
  <1> HIDE DEF r, upd
  (* What is known before udev reports the interface *)
  <1>7. ASSUME NetOk(net, devs, timer, client), Addresses, Told
        PROVE  /\ kernel[i].st # "absent"
               /\ Alone(i) /\ kernel[i].st = "here" =>
                    /\ ~skip /\ Seen(i) /\ ~kernel[i].up /\ n[at].state = "new" /\ i \notin Lo
    <2>1. kernel[i].st # "absent"
      BY <1>1, <1>7 DEF Told, Unseen
    <2>2. mac = Mac[i]
      BY <1>7 DEF Addresses, mac
    <2>3. ASSUME Alone(i), kernel[i].st = "here"
          PROVE  ~skip /\ Seen(i) /\ ~kernel[i].up /\ n[at].state = "new" /\ i \notin Lo
      <3>1. /\ Seen(i) /\ i \notin Lo /\ ~kernel[i].up /\ \A s : ~Listed(net, i, TRUE, s)
        BY <1>1, <1>7, <2>3, Zenon DEF Told, Alone, Seen
      <3>2. ~drop
        <4>1. SUFFICES ASSUME drop PROVE FALSE
          OBVIOUS
        <4>2. PICK x \in DOMAIN net : net[x].mac = Mac[i]
          BY <1>2, <2>2, <4>1, Lookup, NetDistinct
        <4>3. net[x].if # i
          BY <1>2, <4>1, Lookup, NetDistinct, SMTT(30) DEF old
        <4>4. net[x].mac = Mac[net[x].if] /\ net[x].if \in Ifs
          <5>1. net[x] \in IfT
            BY <1>2
          <5> QED BY <1>7, <5>1 DEF NetOk, IfT
        <4> QED BY <2>3, <4>2, <4>3, <4>4 DEF Alone
      <3>3. ~n[at].ready /\ n[at].state = "new"
        <4>1. CASE at \in DOMAIN net
          <5>1. net[at].if = i /\ n[at] = net[at] /\ n[at] \in IfT
            BY <1>4, <1>6, <3>2, <4>1 DEF Enters
          <5>2. net[at].ready # TRUE /\ net[at].ready \in BOOLEAN
            BY <3>1, <4>1, <5>1, Zenon DEF Listed, IfT
          <5>3. ~Named(net[at])
            BY <3>1, <5>1, <5>2, Zenon DEF Named
          <5> QED BY <1>7, <4>1, <5>1, <5>2, <5>3, Zenon DEF NetOk
        <4>2. CASE at \notin DOMAIN net
          BY <1>4, <3>2, <4>2 DEF Enters
        <4> QED BY <4>1, <4>2
      <3> QED BY <3>1, <3>2, <3>3
    <2> QED BY <2>1, <2>3
  <1>8. CASE skip
    <2>1. UNCHANGED <<fate, kernel, inbox, net, client, timer, faults>>
      BY <1>1, <1>8
    <2>2. devs' = devs
      <3>1. n[at].ready /\ ~drop => old # 0
        BY <1>4 DEF Enters
      <3> QED BY <1>1, <1>8, <3>1
    <2>3. NetTypeOK'
      BY <1>1, <1>2, <2>1, <2>2 DEF NetTypeOK
    <2>4. Addresses => Addresses'
      BY <2>1, SMTT(30) DEF Addresses
    <2>5. ASSUME NetOk(net, devs, timer, client), Addresses, Told PROVE Told'
      <3>1. kernel[i].st # "absent" /\ ~(Alone(i) /\ kernel[i].st = "here")
        BY <1>7, <1>8, <2>5
      <3>2. \A j : SameFor(j)
        BY <2>1 DEF SameFor
      <3>3. \A j \in Ifs : j # i => (j \in udev' <=> j \in udev)
        BY <1>1
      <3>4. OthersAlike(i)
        BY <2>1, <3>2, <3>3 DEF OthersAlike
      <3>5. UNCHANGED <<conf, deaf>> /\ kernel'[i].st = kernel[i].st
        BY <1>1, <2>1
      <3> QED BY <2>5, <3>1, <3>4, <3>5, OthersTold
    <2> QED BY <1>1, <2>1, <2>2, <2>3, <2>4, <2>5 DEF IInv
  <1>9. CASE ~skip /\ dies
    <2>1. UNCHANGED <<kernel, inbox, net, client, timer, faults>> /\ fate' # "run"
      BY <1>1, <1>9
    <2>2. NetTypeOK'
      BY <1>1, <1>2, <1>5, <2>1 DEF NetTypeOK
    <2> QED BY <2>1, <2>2 DEF IInv
  <1>10. CASE ~skip /\ ~dies
    <2>1. /\ ~drop /\ upd \in Seq(IfT) /\ at \in DOMAIN upd /\ upd[at] = r /\ r \in IfT
          /\ Apply(upd, at, FALSE, FALSE, inbox, ok, TRUE, TRUE) /\ r.if = i
      BY <1>1, <1>6, <1>10, Zenon
    <2>2. Applied(upd, at, FALSE, FALSE, inbox, ok, TRUE, TRUE)
      BY <1>2, <2>1, ApplyOne, Zenon
    <2> DEFINE o == Configure(r, FALSE, FALSE)
               raised == /\ kernel[i].st = "here" /\ ~kernel[i].up
                         /\ kernel' \in [Ifs -> KernelT] /\ inbox' = Append(inbox, Message(i, kernel'))
                         /\ \A j \in Ifs : j # i => kernel'[j] = kernel[j]
                         /\ kernel'[i].up /\ kernel'[i].st = "here" /\ kernel'[i].mac = kernel[i].mac
    <2>3. /\ Alike(upd, net') /\ net'[at].state = o.state
          /\ \A x \in DOMAIN upd : /\ net'[x].ready = upd[x].ready /\ net'[x].dev = upd[x].dev
                                   /\ x # at => net'[x] = upd[x]
          /\ client' \in [Clients -> ClientT]
          /\ faults' \in Nat /\ (faults' = 0 => faults = 0 /\ ok)
          /\ timer' = timer
          /\ \/ /\ UNCHANGED kernel /\ inbox' = inbox
                /\ o.do # "up" \/ ~ok \/ kernel[i].st # "here" \/ kernel[i].up
             \/ o.do \in {"up", "static"} /\ raised
      BY <2>1, <2>2, Zenon DEF Applied
    <2>4. /\ kernel' \in [Ifs -> KernelT]
          /\ \A j \in Ifs : /\ j # i => kernel'[j] = kernel[j]
                            /\ kernel'[j].st = kernel[j].st /\ kernel'[j].mac = kernel[j].mac
      <3>1. CASE UNCHANGED kernel
        BY <1>2, <3>1
      <3>2. CASE raised
        BY <3>2
      <3> QED BY <2>3, <3>1, <3>2, Zenon
    <2> DEFINE m == Message(i, kernel')
    <2>5. /\ m \in MessageT /\ m.if = i /\ m.mac = kernel'[i].mac
          /\ kernel'[i].st # "gone" => ~m.del
      BY <2>4, MessageOf
    <2>6. inbox' = inbox \/ inbox' = Append(inbox, m)
      BY <2>3, Zenon
    <2> HIDE DEF m, o
    <2>7. /\ inbox' \in Seq(MessageT)
          /\ (\A x \in DOMAIN inbox : inbox[x].mac = Mac[inbox[x].if]) /\ m.mac = Mac[m.if] =>
              \A x \in DOMAIN inbox' : inbox'[x].mac = Mac[inbox'[x].if]
          /\ \A j : i # j =>
               /\ NoneFor(j, inbox) <=> NoneFor(j, inbox')
               /\ \A g : LastFor(j, inbox, g) => LastFor(j, inbox', g)
      BY <1>2, <2>5, <2>6, MaybeQueued, Zenon
    <2> HIDE DEF raised
    <2>8. NetTypeOK'
      BY <1>1, <1>2, <1>5, <2>3, <2>4, <2>7 DEF NetTypeOK, Alike
    <2>9. ASSUME Addresses PROVE Addresses'
      <3>1. m.mac = Mac[m.if]
        BY <2>4, <2>5, <2>9 DEF Addresses
      <3> QED BY <2>4, <2>7, <2>9, <3>1, SMTT(30) DEF Addresses
    <2>10. ASSUME NetOk(net, devs, timer, client), Addresses PROVE NetOk(net', devs', timer', client')
      <3>1. mac = Mac[i]
        BY <2>10 DEF Addresses, mac
      <3>2. r.mac = Mac[i] /\ r.dev = IF Mac[i] \in devs' THEN Mac[i] ELSE "null"
        <4>1. CASE at \in DOMAIN net
          <5>1. n[at] = net[at] /\ net[at].if = i /\ old # 0
            BY <1>4, <2>1, <4>1 DEF Enters
          <5>2. devs' = devs
            BY <1>1, <5>1
          <5> QED BY <1>6, <2>1, <2>10, <4>1, <5>1, <5>2, SMTT(30) DEF NetOk
        <4>2. CASE at \notin DOMAIN net
          <5>1. n[at].mac = mac /\ n[at].dev = mac /\ old = 0
            BY <1>4, <2>1, <4>2 DEF Enters
          <5>2. mac \in devs'
            BY <1>1, <1>10, <5>1
          <5> QED BY <1>6, <2>1, <3>1, <5>1, <5>2
        <4> QED BY <4>1, <4>2
      <3>3. Enters(n, at, i, Mac[i]) /\ r.ready
        BY <1>4, <1>6, <2>1, <3>1
      <3>4. NetOk(upd, devs', timer, client)
        BY <1>5, <1>6, <2>1, <2>10, <3>1, <3>2, <3>3, EnteredOk, SMTT(30) DEF upd
      <3>5. Named(upd[at])
        BY <2>1, <3>3 DEF Named
      <3> QED BY <1>5, <2>1, <2>2, <3>4, <3>5, AppliedOk, Zenon
    <2>11. ASSUME NetOk(net, devs, timer, client), Addresses, Told, ok PROVE Told'
      <3>1. Only(at, i)
        <4>1. net' \in Seq(IfT) /\ DOMAIN net' = DOMAIN n /\ net'[at].if = i
          BY <1>6, <2>1, <2>3 DEF Alike
        <4>2. \A x \in DOMAIN n : x # at => net'[x] = n[x]
          BY <1>6, <2>1, <2>3
        <4> QED BY <1>4, <2>1, <4>1, <4>2 DEF Enters, Only
      <3>2. ASSUME Alone(i), kernel[i].st = "here" PROVE Seen(i)'
        <4>1. Seen(i) /\ ~kernel[i].up /\ n[at].state = "new" /\ i \notin Lo
          BY <1>7, <2>11, <3>2
        <4>2. r.mac = Mac[i]
          <5>1. net'[at].mac = r.mac /\ at \in DOMAIN net' /\ net'[at].if = i
            BY <2>1, <2>3 DEF Alike
          <5>2. NetOk(net', devs', timer', client')
            BY <2>10, <2>11, SMTT(30)
          <5> QED BY <5>1, <5>2, SMTT(30) DEF NetOk
        <4>3. IF Ignored(Mac[i]) THEN o.state = "ignored" /\ o.do = "nothing"
              ELSE o.state = "new" /\ o.do = "up"
          <5>1. r.if \notin Lo /\ r.state = "new" => IF Ignored(r.mac) THEN o.state = "ignored" /\ o.do = "nothing"
                                                     ELSE o.state = "new" /\ o.do = "up"
            BY <1>2, <2>1, ConfigureOne, Zenon DEF NetTypeOK, o
          <5>2. r.state = "new" /\ r.if = i
            BY <1>6, <2>1, <4>1
          <5> QED BY <4>1, <4>2, <5>1, <5>2, SMTT(30)
        <4>4. Listed(net', i, TRUE, o.state)
          <5>1. at \in DOMAIN net' /\ net'[at].if = i
            BY <3>1 DEF Only
          <5>2. r.ready = TRUE
            BY <1>6, <2>1 DEF IfT
          <5>3. net'[at].ready = TRUE /\ net'[at].state = o.state
            BY <2>1, <2>3, <5>2
          <5> QED BY <5>1, <5>3 DEF Listed
        <4>5. Ignored(Mac[i])' = Ignored(Mac[i])
          BY DEF Ignored, Manual
        <4>6. i \notin udev'
          BY <1>1
        <4>7. CASE Ignored(Mac[i])
          <5>1. o.state = "ignored" /\ UNCHANGED kernel /\ inbox' = inbox
            BY <2>3, <4>3, <4>7
          <5>2. LastFor(i, inbox', Message(i, kernel')) /\ ~kernel'[i].up
            BY <4>1, <5>1 DEF Seen
          <5>3. Listed(net', i, TRUE, "ignored")
            BY <4>4, <5>1, Zenon
          <5> QED BY <4>6, <5>2, <5>3, Zenon DEF Seen
        <4>8. CASE ~Ignored(Mac[i])
          <5>1. o.state = "new" /\ raised
            BY <2>3, <2>11, <3>2, <4>1, <4>3, <4>8
          <5>2. kernel'[i].up /\ inbox' = Append(inbox, m) /\ kernel'[i].st = "here"
            BY <5>1, SMTT(30) DEF raised, m
          <5>3. LastFor(i, inbox', m) /\ ~NoneFor(i, inbox')
            BY <1>2, <2>5, <4>1, <5>2, QueueOne DEF Seen
          <5>4. Listed(net', i, TRUE, "new")
            BY <4>4, <5>1, Zenon
          <5>5. ~Ignored(Mac[i])'
            BY <4>5, <4>8
          <5>6. LastFor(i, inbox', Message(i, kernel'))
            BY <5>3 DEF m
          <5> QED BY <4>6, <5>2, <5>3, <5>4, <5>5, <5>6, Zenon DEF Seen
        <4> QED BY <4>7, <4>8, SMTT(30)
      <3>3. \A j : j # i => SameFor(j)
        BY <3>1, OnlySame, SMTT(30)
      <3>4. \A x \in DOMAIN net' : net'[x].if = i \/ \E y \in DOMAIN net : net[y].if = net'[x].if
        BY <3>1, OnlySame
      <3>5. \A j \in Ifs : j # i =>
              /\ j \in udev' <=> j \in udev
              /\ NoneFor(j, inbox) <=> NoneFor(j, inbox')
              /\ \A g : LastFor(j, inbox, g) => LastFor(j, inbox', g)
        BY <1>1, <2>7, SMTT(30)
      <3>6. kernel[i].st # "absent"
        BY <1>7, <2>11, Zenon
      <3>7. OthersAlike(i)
        BY <2>4, <3>3, <3>4, <3>5 DEF OthersAlike
      <3>8. UNCHANGED <<conf, deaf>> /\ kernel'[i].st = kernel[i].st
        BY <1>1, <2>4
      <3> QED BY <2>11, <3>2, <3>6, <3>7, <3>8, OthersTold, SMTT(30)
    <2> QED BY <1>1, <2>3, <2>8, <2>9, <2>10, <2>11 DEF IInv
  <1> QED BY <1>8, <1>9, <1>10, SMTT(30)

-----------------------------------------------------------------------------
=============================================================================
