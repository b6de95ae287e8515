--------------------------- MODULE NetworkProofs ----------------------------
(***************************************************************************)
(* Network's other steps keep the inductive invariant, and the theorems that *)
(* follow from it.                                                         *)
(***************************************************************************)
EXTENDS NetworkLinks

LEMMA TakeOne ==
  ASSUME NEW n \in Seq(IfT), NEW at \in DOMAIN n
  PROVE  LET t == Without(n, at)
         IN  /\ t \in Seq(IfT)
             /\ \A x \in DOMAIN t : IF x < at THEN x \in DOMAIN n /\ t[x] = n[x]
                                    ELSE x + 1 \in DOMAIN n /\ t[x] = n[x + 1]
             /\ \A x \in DOMAIN n : x # at =>
                    \E y \in DOMAIN t : t[y] = n[x] /\ y = IF x < at THEN x ELSE x - 1
  <1> DEFINE a == SubSeq(n, 1, at - 1)
             b == SubSeq(n, at + 1, Len(n))
             t == a \o b
  <1>1. at \in 1 .. Len(n) /\ Len(n) \in Nat /\ DOMAIN n = 1 .. Len(n)
    OBVIOUS
  <1>2. a \in Seq(IfT) /\ Len(a) = at - 1 /\ \A x \in 1 .. at - 1 : a[x] = n[x]
    BY <1>1
  <1>3. b \in Seq(IfT) /\ Len(b) = Len(n) - at /\ \A x \in 1 .. Len(n) - at : b[x] = n[at + x]
    BY <1>1
  <1> HIDE DEF a, b
  <1>4. a \in Seq(IfT) /\ b \in Seq(IfT)
    BY <1>2, <1>3
  <1>5. /\ t \in Seq(IfT) /\ Len(t) = Len(a) + Len(b) /\ DOMAIN t = 1 .. Len(t)
        /\ \A x \in 1 .. Len(a) + Len(b) : t[x] = IF x <= Len(a) THEN a[x] ELSE b[x - Len(a)]
    BY <1>4
  <1> HIDE DEF t
  <1>6. Len(t) = Len(n) - 1 /\ DOMAIN t = 1 .. Len(n) - 1
    BY <1>1, <1>2, <1>3, <1>5
  <1>7. ASSUME NEW x \in DOMAIN t
        PROVE  IF x < at THEN x \in DOMAIN n /\ t[x] = n[x]
               ELSE x + 1 \in DOMAIN n /\ t[x] = n[x + 1]
    <2>1. t[x] = IF x <= Len(a) THEN a[x] ELSE b[x - Len(a)]
      BY <1>5, <1>6
    <2>2. CASE x < at
      BY <1>1, <1>2, <1>6, <2>1, <2>2
    <2>3. CASE ~(x < at)
      <3>1. x - Len(a) \in 1 .. Len(n) - at /\ at + (x - Len(a)) = x + 1 /\ ~(x <= Len(a))
        BY <1>1, <1>2, <1>6, <2>3
      <3>2. b[x - Len(a)] = n[at + (x - Len(a))]
        BY <1>3, <3>1
      <3>3. x + 1 \in DOMAIN n
        BY <1>1, <1>6
      <3> QED BY <2>1, <2>3, <3>1, <3>2, <3>3
    <2> QED BY <2>2, <2>3
  <1>8. ASSUME NEW x \in DOMAIN n, x # at
        PROVE  \E y \in DOMAIN t : t[y] = n[x] /\ y = IF x < at THEN x ELSE x - 1
    <2>1. CASE x < at
      BY <1>1, <1>6, <1>7, <2>1
    <2>2. CASE x > at
      <3>1. x - 1 \in DOMAIN t /\ ~(x - 1 < at) /\ (x - 1) + 1 = x
        BY <1>1, <1>6, <2>2
      <3>2. t[x - 1] = n[x]
        BY <1>7, <3>1
      <3> QED BY <1>1, <2>2, <3>1, <3>2
    <2> QED BY <1>1, <1>8, <2>1, <2>2
  <1> QED BY <1>5, <1>7, <1>8, Zenon DEF Without, t, a, b

LEMMA ListedAlike ==
  ASSUME NEW n, NEW t, NEW i, DOMAIN t = DOMAIN n,
         \A x \in DOMAIN n : /\ t[x].if = n[x].if
                             /\ n[x].if = i => t[x].ready = n[x].ready /\ t[x].state = n[x].state
  PROVE  \A ready, s : Listed(t, i, ready, s) <=> Listed(n, i, ready, s)
  BY DEF Listed

(* Every interface is seen as before when all that has changed in the list *)
(* are devices and clients.                                                *)
LEMMA ToldKept ==
  ASSUME NetTypeOK, Told, Alike(net, net'), UNCHANGED <<kernel, udev, inbox, conf, deaf>>,
         \A x \in DOMAIN net : net'[x].ready = net[x].ready /\ net'[x].state = net[x].state
  PROVE  Told'
  <1>1. ASSUME NEW i \in Ifs, kernel[i].st = "absent" PROVE Unseen(i)'
    BY <1>1 DEF Told, Unseen, Alike
  <1>2. ASSUME NEW i \in Ifs, Alone(i), kernel[i].st = "here" PROVE Seen(i)'
    <2>1. SameFor(i)
      BY ListedAlike DEF Alike, SameFor
    <2>2. Seen(i)
      BY <1>2 DEF Told
    <2>3. LastFor(i, inbox', Message(i, kernel)) /\ (NoneFor(i, inbox') => NoneFor(i, inbox))
      BY <2>2 DEF Seen
    <2> QED BY <2>1, <2>2, <2>3, SeenKept
  <1> QED BY <1>1, <1>2 DEF Told, Alone

-----------------------------------------------------------------------------
(* Steps of devices, timers and DHCP clients leave what the handler knows  *)
(* of the interfaces alone.                                                *)
LEMMA DevicesKeep ==
  ASSUME IInv, fate = "run", ~changed, UNCHANGED <<kernel, udev, inbox, conf, deaf, changed>>,
         faults' \in Nat, faults' = 0 => faults = 0, Alike(net, net'),
         \A x \in DOMAIN net : net'[x].ready = net[x].ready /\ net'[x].state = net[x].state,
         client' \in [Clients -> ClientT], devs' \subseteq Macs,
         timer' \subseteq Macs \cup {"null", "stale"},
         fate' = "run" /\ NetOk(net, devs, timer, client) => NetOk(net', devs', timer', client')
  PROVE  IInv'
  <1>1. NetTypeOK'
    BY DEF IInv, NetTypeOK, Alike
  <1>2. Addresses => Addresses'
    BY DEF Addresses
  <1>3. Told => Told'
    BY ToldKept DEF IInv
  <1> QED BY <1>1, <1>2, <1>3 DEF IInv

LEMMA ClientExitKeeps ==
  ASSUME IInv, fate = "run", ~changed, NEW c \in Clients, ClientExit(c), conf' = conf
  PROVE  IInv'
  <1> DEFINE at == ByIndex(net, client[c].own)
             q == [client[c] EXCEPT !.st = "done", !.held = FALSE, !.own = 0, !.cb = FALSE]
  <1>1. /\ fate = "run"
        /\ UNCHANGED <<kernel, udev, inbox, conf, deaf, devs, timer, changed, faults>>
        /\ client' = [client EXCEPT ![c] = q]
        /\ fate' = "run" => (client[c].cb => at # 0)
        /\ fate' = "run" \/ net' = net
        /\ fate' = "run" => net' = IF ~client[c].cb THEN net
                          ELSE IF net[at].p4 = c THEN [net EXCEPT ![at].p4 = 0]
                          ELSE [net EXCEPT ![at].p6 = 0]
    BY DEF ClientExit
  <1>2. /\ net \in Seq(IfT) /\ client \in [Clients -> ClientT] /\ faults \in Nat
        /\ devs \subseteq Macs /\ timer \subseteq Macs \cup {"null", "stale"}
    BY DEF IInv, NetTypeOK
  <1>3. /\ client' \in [Clients -> ClientT]
        /\ \A d \in Clients : client'[d].own \in {0, client[d].own}
    <2>1. q \in ClientT /\ q.own = 0
      BY <1>2, Zenon DEF ClientT
    <2> HIDE DEF q
    <2> QED BY <1>1, <1>2, <2>1
  <1>4. /\ Alike(net, net')
        /\ \A x \in DOMAIN net :
             /\ net'[x].ready = net[x].ready /\ net'[x].state = net[x].state
             /\ net'[x].dev = net[x].dev
             /\ net'[x].p4 \in {0, net[x].p4} /\ net'[x].p6 \in {0, net[x].p6}
    <2>1. CASE net' = net
      BY <1>2, <2>1 DEF Alike
    <2>2. CASE net' # net
      <3>1. at \in DOMAIN net
        BY <1>1, <1>2, <2>2, Lookup, NetDistinct
      <3> DEFINE r4 == [net[at] EXCEPT !.p4 = 0]
                 r6 == [net[at] EXCEPT !.p6 = 0]
      <3>2. net[at] \in IfT
        BY <1>2, <3>1
      <3>3. /\ r4 \in IfT /\ r6 \in IfT
            /\ \A r \in {r4, r6} : /\ r.if = net[at].if /\ r.mac = net[at].mac /\ r.dev = net[at].dev
                                   /\ r.ready = net[at].ready /\ r.state = net[at].state
                                   /\ r.p4 \in {0, net[at].p4} /\ r.p6 \in {0, net[at].p6}
        BY <3>2 DEF IfT
      <3>4. PICK r \in {r4, r6} : net' = [net EXCEPT ![at] = r]
        BY <1>1, <2>2
      <3> HIDE DEF r4, r6
      <3>5. /\ net' \in Seq(IfT) /\ DOMAIN net' = DOMAIN net /\ net'[at] = r
            /\ \A x \in DOMAIN net : x # at => net'[x] = net[x]
        BY <1>2, <3>1, <3>3, <3>4, ChangeOne
      <3> QED BY <3>3, <3>5 DEF Alike
    <2> QED BY <2>1, <2>2
  <1>5. ASSUME NetOk(net, devs, timer, client) PROVE NetOk(net', devs', timer', client')
    <2>1. \A x \in DOMAIN net :
          /\ net'[x].dev = IF net'[x].mac \in devs' THEN net'[x].mac ELSE "null"
          /\ net'[x].state # "new" \/ net'[x].p4 # 0 \/ net'[x].p6 # 0 => Named(net'[x])
      BY <1>1, <1>4, <1>5 DEF NetOk, Alike, Named
    <2>2. \A m \in timer' : m \in devs' /\ m \in timer
      BY <1>1, <1>5 DEF NetOk
    <2> QED BY <1>2, <1>3, <1>4, <1>5, <2>1, <2>2, NetOkAlike
  <1> QED BY <1>1, <1>2, <1>3, <1>4, <1>5, DevicesKeep

(* network_unregister_device(): the one interface that has the address     *)
LEMMA UnregisterOne ==
  ASSUME NEW n \in Seq(IfT), NEW m \in Macs
  PROVE  LET t == Unregister(n, m)
         IN  /\ Alike(n, t)
             /\ \A x \in DOMAIN n :
                  /\ t[x].ready = n[x].ready /\ t[x].state = n[x].state
                  /\ t[x].p4 = n[x].p4 /\ t[x].p6 = n[x].p6
                  /\ t[x].dev = IF x = ByMac(n, m) THEN "null"
                                ELSE IF n[x].dev = m THEN "stale" ELSE n[x].dev
  <1> DEFINE b == ByMac(n, m)
             w(x) == IF x = b THEN "null" ELSE IF n[x].dev = m THEN "stale" ELSE n[x].dev
             e(x) == [n[x] EXCEPT !.dev = w(x)]
             t == Unregister(n, m)
  <1>1. t = [x \in 1 .. Len(n) |-> e(x)]
    BY DEF Unregister
  <1>2. ASSUME NEW x \in DOMAIN n
        PROVE  /\ e(x) \in IfT /\ e(x).if = n[x].if /\ e(x).mac = n[x].mac
               /\ e(x).ready = n[x].ready /\ e(x).state = n[x].state
               /\ e(x).p4 = n[x].p4 /\ e(x).p6 = n[x].p6 /\ e(x).dev = w(x)
    <2>1. n[x] \in IfT
      OBVIOUS
    <2>2. w(x) \in Macs \cup {"null", "stale"}
      BY <2>1 DEF IfT
    <2> HIDE DEF w
    <2> QED BY <2>1, <2>2 DEF IfT
  <1>3. DOMAIN n = 1 .. Len(n) /\ Len(n) \in Nat
    OBVIOUS
  <1> HIDE DEF e, t
  <1>4. t \in Seq(IfT) /\ DOMAIN t = DOMAIN n /\ \A x \in DOMAIN n : t[x] = e(x)
    BY <1>1, <1>2, <1>3
  <1> HIDE DEF b
  <1>5. Alike(n, t)
    BY <1>2, <1>4 DEF Alike
  <1> QED BY <1>2, <1>4, <1>5 DEF t, b

(* What remove_interface() leaves in the other interfaces, with a device or *)
(* without one.                                                             *)
DeviceTaken(n, d, t) ==
    /\ Alike(n, t)
    /\ \A x \in DOMAIN n :
         /\ t[x].ready = n[x].ready /\ t[x].state = n[x].state
         /\ t[x].p4 = n[x].p4 /\ t[x].p6 = n[x].p6
         /\ d \in Macs => t[x].dev = IF x = ByMac(n, d) THEN "null"
                                      ELSE IF n[x].dev = d THEN "stale" ELSE n[x].dev
         /\ d \notin Macs => t[x] = n[x]

LEMMA TakeDevice ==
  ASSUME NEW n \in Seq(IfT), NEW d
  PROVE  DeviceTaken(n, d, IF d \in Macs THEN Unregister(n, d) ELSE n)
  <1>1. CASE d \in Macs
    <2> DEFINE t == Unregister(n, d)
    <2>1. /\ Alike(n, t)
          /\ \A x \in DOMAIN n :
               /\ t[x].ready = n[x].ready /\ t[x].state = n[x].state
               /\ t[x].p4 = n[x].p4 /\ t[x].p6 = n[x].p6
               /\ t[x].dev = IF x = ByMac(n, d) THEN "null"
                             ELSE IF n[x].dev = d THEN "stale" ELSE n[x].dev
      BY <1>1, UnregisterOne
    <2> HIDE DEF t
    <2>2. DeviceTaken(n, d, t)
      BY <1>1, <2>1 DEF DeviceTaken
    <2> QED BY <1>1, <2>2 DEF t
  <1>2. CASE d \notin Macs
    BY <1>2 DEF DeviceTaken, Alike
  <1> QED BY <1>1, <1>2

LEMMA DeviceRemovedKeeps ==
  ASSUME IInv, fate = "run", ~changed, NEW m \in Macs, DeviceRemoved(m), conf' = conf
  PROVE  IInv'
  <1>1. /\ fate = "run" /\ net' = Unregister(net, m) /\ devs' = devs \ {m} /\ timer' = timer \ {m}
        /\ UNCHANGED <<fate, kernel, udev, inbox, conf, deaf, client, changed, faults>>
    BY DEF DeviceRemoved
  <1>2. /\ net \in Seq(IfT) /\ client \in [Clients -> ClientT] /\ faults \in Nat
        /\ devs \subseteq Macs /\ timer \subseteq Macs \cup {"null", "stale"}
    BY DEF IInv, NetTypeOK
  <1>3. /\ Alike(net, net')
        /\ \A x \in DOMAIN net :
             /\ net'[x].ready = net[x].ready /\ net'[x].state = net[x].state
             /\ net'[x].p4 = net[x].p4 /\ net'[x].p6 = net[x].p6
             /\ net'[x].dev = IF x = ByMac(net, m) THEN "null"
                              ELSE IF net[x].dev = m THEN "stale" ELSE net[x].dev
    BY <1>1, <1>2, UnregisterOne, SMTT(30)
  <1>4. ASSUME NetOk(net, devs, timer, client) PROVE NetOk(net', devs', timer', client')
    <2>1. ASSUME NEW x \in DOMAIN net
          PROVE  net'[x].dev = IF net'[x].mac \in devs' THEN net'[x].mac ELSE "null"
      <3>1. net[x].dev = (IF net[x].mac \in devs THEN net[x].mac ELSE "null") /\ net'[x].mac = net[x].mac
        BY <1>3, <1>4 DEF NetOk, Alike
      <3>2. x = ByMac(net, m) <=> net[x].mac = m
        BY <1>2, <1>4, Lookup, NetDistinct DEF NetOk
      <3>3. m # "null"
        BY NetAssumption
      <3> QED BY <1>1, <1>3, <3>1, <3>2, <3>3
    <2>2. \A x \in DOMAIN net :
            net'[x].state # "new" \/ net'[x].p4 # 0 \/ net'[x].p6 # 0 => Named(net'[x])
      BY <1>3, <1>4 DEF NetOk, Alike, Named
    <2>3. \A k \in timer' : k \in devs' /\ k \in timer
      BY <1>1, <1>4 DEF NetOk
    <2>4. \A c \in Clients : client'[c].own \in {0, client[c].own}
      BY <1>1
    <2> QED BY <1>2, <1>3, <1>4, <2>1, <2>2, <2>3, <2>4, NetOkAlike
  <1>5. devs' \subseteq Macs /\ timer' \subseteq Macs \cup {"null", "stale"}
    BY <1>1, <1>2
  <1> QED BY <1>1, <1>2, <1>3, <1>4, <1>5, DevicesKeep

LEMMA LeasedKeeps ==
  ASSUME IInv, fate = "run", ~changed, NEW m \in Macs, NEW arm \in BOOLEAN, Leased(m, arm), conf' = conf
  PROVE  IInv'
  <1> DEFINE at == ByMac(net, m)
             r == [net[at] EXCEPT !.dev = m]
  <1>1. /\ fate = "run" /\ at # 0 /\ devs' = devs \cup {m}
        /\ \E c \in Clients : client[c].own = net[at].if
        /\ net' = IF m \in devs THEN net ELSE [net EXCEPT ![at] = r]
        /\ timer' = IF arm THEN timer \cup {m} ELSE timer
        /\ UNCHANGED <<fate, kernel, udev, inbox, conf, deaf, client, changed, faults>>
    BY DEF Leased
  <1>2. /\ net \in Seq(IfT) /\ client \in [Clients -> ClientT] /\ faults \in Nat
        /\ devs \subseteq Macs /\ timer \subseteq Macs \cup {"null", "stale"}
    BY DEF IInv, NetTypeOK
  <1>3. at \in DOMAIN net /\ net[at].mac = m
    BY <1>1, <1>2, Lookup, NetDistinct
  <1>4. /\ r \in IfT /\ r.if = net[at].if /\ r.mac = m /\ r.ready = net[at].ready /\ r.dev = m
        /\ r.state = net[at].state /\ r.p4 = net[at].p4 /\ r.p6 = net[at].p6
    <2>1. net[at] \in IfT
      BY <1>2, <1>3
    <2> QED BY <1>3, <2>1 DEF IfT
  <1> HIDE DEF r, at
  <1>5. /\ Alike(net, net')
        /\ \A x \in DOMAIN net :
             /\ net'[x].ready = net[x].ready /\ net'[x].state = net[x].state
             /\ net'[x].p4 = net[x].p4 /\ net'[x].p6 = net[x].p6
             /\ net'[x].dev = IF x = at /\ m \notin devs THEN m ELSE net[x].dev
    <2>1. CASE m \in devs
      BY <1>1, <1>2, <2>1 DEF Alike
    <2>2. CASE m \notin devs
      <3>1. /\ net' \in Seq(IfT) /\ DOMAIN net' = DOMAIN net /\ net'[at] = r
            /\ \A x \in DOMAIN net : x # at => net'[x] = net[x]
        BY <1>1, <1>2, <1>3, <1>4, <2>2, ChangeOne, SMTT(30)
      <3> QED BY <1>3, <1>4, <2>2, <3>1 DEF Alike
    <2> QED BY <2>1, <2>2
  <1>6. ASSUME NetOk(net, devs, timer, client) PROVE NetOk(net', devs', timer', client')
    <2>1. ASSUME NEW x \in DOMAIN net
          PROVE  net'[x].dev = IF net'[x].mac \in devs' THEN net'[x].mac ELSE "null"
      <3>1. net[x].dev = (IF net[x].mac \in devs THEN net[x].mac ELSE "null") /\ net'[x].mac = net[x].mac
        BY <1>5, <1>6 DEF NetOk, Alike
      <3>2. x = at <=> net[x].mac = m
        BY <1>3, <1>6 DEF NetOk
      <3> QED BY <1>1, <1>5, <3>1, <3>2
    <2>2. \A x \in DOMAIN net :
            net'[x].state # "new" \/ net'[x].p4 # 0 \/ net'[x].p6 # 0 => Named(net'[x])
      BY <1>5, <1>6 DEF NetOk, Alike, Named
    <2>3. Named(net'[at])
      <3>1. PICK c \in Clients : client[c].own = net[at].if
        BY <1>1
      <3>2. net[at].if # 0
        <4>1. net[at] \in IfT
          BY <1>2, <1>3
        <4>2. net[at].if \in Ifs
          BY <4>1 DEF IfT
        <4> QED BY <4>2 DEF Ifs
      <3>3. PICK x \in DOMAIN net : net[x].if = net[at].if /\ Named(net[x])
        BY <1>6, <3>1, <3>2 DEF NetOk
      <3>4. x = at
        BY <1>3, <1>6, <3>3 DEF NetOk
      <3> QED BY <1>3, <1>5, <3>3, <3>4 DEF Alike, Named
    <2>4. \A k \in timer' : k \in devs' /\ (k \in timer \/ \E x \in DOMAIN net : net'[x].mac = k /\ Named(net'[x]))
      <3>1. \A k \in timer : k \in devs
        BY <1>6 DEF NetOk
      <3>2. net'[at].mac = m
        BY <1>3, <1>5 DEF Alike
      <3> QED BY <1>1, <1>3, <2>3, <3>1, <3>2
    <2>5. \A c \in Clients : client'[c].own \in {0, client[c].own}
      BY <1>1
    <2> QED BY <1>2, <1>5, <1>6, <2>1, <2>2, <2>4, <2>5, NetOkAlike
  <1>7. devs' \subseteq Macs /\ timer' \subseteq Macs \cup {"null", "stale"}
    BY <1>1, <1>2
  <1> QED BY <1>1, <1>2, <1>5, <1>6, <1>7, DevicesKeep

LEMMA RequeryKeeps ==
  ASSUME IInv, fate = "run", ~changed, NEW m \in Macs, NEW ok4 \in BOOLEAN, NEW ok6 \in BOOLEAN, Requery(m, ok4, ok6),
         conf' = conf
  PROVE  IInv'
  <1> DEFINE at == ByMac(net, m)
             ps == IF at = 0 THEN {} ELSE {net[at].p4, net[at].p6} \ {0}
             cl == Released(ps)
  <1>1. /\ fate = "run" /\ m \in timer /\ timer' \in {timer, timer \ {m}}
        /\ faults' \in {faults, faults + 1}
        /\ \/ UNCHANGED <<net, client>>
           \/ UNCHANGED net /\ client' = cl
           \/ at # 0 /\ Room /\ StartDhcp(net, at, cl, ok4, ok6)
        /\ UNCHANGED <<kernel, udev, inbox, conf, deaf, devs, changed>>
    BY DEF Requery
  <1>2. /\ net \in Seq(IfT) /\ client \in [Clients -> ClientT] /\ faults \in Nat
        /\ devs \subseteq Macs /\ timer \subseteq Macs \cup {"null", "stale"}
    BY SMTT(30) DEF IInv, NetTypeOK
  <1>3. cl \in [Clients -> ClientT] /\ \A c \in Clients : cl[c].own = client[c].own
    <2>1. \A c \in Clients : LET q == [client[c] EXCEPT !.cb = FALSE, !.held = FALSE]
                             IN  q \in ClientT /\ q.own = client[c].own
      BY <1>2, Zenon DEF ClientT
    <2> QED BY <1>2, <2>1, Zenon DEF Released
  <1>4. faults' \in Nat /\ (faults' = 0 => faults = 0) /\ timer' \subseteq Macs \cup {"null", "stale"}
    BY <1>1, <1>2
  <1> HIDE DEF cl
  <1>5. CASE UNCHANGED net /\ client' \in {client, cl}
    <2>1. Alike(net, net')
      BY <1>2, <1>5, SMTT(30) DEF Alike
    <2>2. ASSUME NetOk(net, devs, timer, client) PROVE NetOk(net', devs', timer', client')
      <3>1. \A k \in timer' : k \in devs' /\ k \in timer
        BY <1>1, <2>2 DEF NetOk
      <3>2. \A c \in Clients : client'[c].own \in {0, client[c].own}
        BY <1>3, <1>5
      <3>3. \A x \in DOMAIN net :
            /\ net'[x].dev = IF net'[x].mac \in devs' THEN net'[x].mac ELSE "null"
            /\ net'[x].state # "new" \/ net'[x].p4 # 0 \/ net'[x].p6 # 0 => Named(net'[x])
        BY <1>1, <1>5, <2>2 DEF NetOk
      <3> QED BY <1>2, <2>1, <2>2, <3>1, <3>2, <3>3, NetOkAlike
    <2>3. client' \in [Clients -> ClientT]
      BY <1>2, <1>3, <1>5
    <2> QED BY <1>1, <1>2, <1>4, <1>5, <2>1, <2>2, <2>3, DevicesKeep
  <1>6. CASE at # 0 /\ Room /\ StartDhcp(net, at, cl, ok4, ok6)
    <2>1. at \in DOMAIN net /\ net[at].mac = m
      BY <1>2, <1>6, Lookup, NetDistinct
    <2> HIDE DEF at
    <2>2. /\ client' \in [Clients -> ClientT]
          /\ \A c \in Clients : client'[c].own \in {cl[c].own, net[at].if}
          /\ net' \in Seq(IfT) /\ DOMAIN net' = DOMAIN net
          /\ \A x \in DOMAIN net : x # at => net'[x] = net[x]
          /\ net'[at].if = net[at].if /\ net'[at].mac = net[at].mac /\ net'[at].ready = net[at].ready
          /\ net'[at].dev = net[at].dev /\ net'[at].state = net[at].state
      BY <1>2, <1>3, <1>6, <2>1, StartDhcpOne
    <2>3. /\ Alike(net, net')
          /\ \A x \in DOMAIN net : /\ net'[x].ready = net[x].ready /\ net'[x].state = net[x].state
                                   /\ net'[x].dev = net[x].dev
      BY <2>1, <2>2 DEF Alike
    <2>4. ASSUME NetOk(net, devs, timer, client) PROVE NetOk(net', devs', timer', client')
      <3>1. Named(net'[at])
        <4>1. PICK x \in DOMAIN net : net[x].mac = m /\ Named(net[x])
          BY <1>1, <2>4 DEF NetOk
        <4>2. x = at
          BY <2>1, <2>4, <4>1 DEF NetOk
        <4> QED BY <2>1, <2>3, <4>1, <4>2 DEF Alike, Named
      <3>2. \A k \in timer' : k \in devs' /\ k \in timer
        BY <1>1, <2>4 DEF NetOk
      <3>3. \A c \in Clients : client'[c].own \in {0, client[c].own}
                               \/ \E x \in DOMAIN net : net'[x].if = client'[c].own /\ Named(net'[x])
        BY <1>3, <2>1, <2>2, <3>1
      <3>4. ASSUME NEW x \in DOMAIN net
            PROVE  /\ net'[x].dev = IF net'[x].mac \in devs' THEN net'[x].mac ELSE "null"
                   /\ net'[x].state # "new" \/ net'[x].p4 # 0 \/ net'[x].p6 # 0 => Named(net'[x])
        <4>1. net'[x].dev = IF net'[x].mac \in devs' THEN net'[x].mac ELSE "null"
          BY <1>1, <2>3, <2>4 DEF NetOk, Alike
        <4>2. CASE x = at
          BY <3>1, <4>1, <4>2
        <4>3. CASE x # at
          BY <2>2, <2>4, <4>1, <4>3, SMTT(30) DEF NetOk
        <4> QED BY <4>2, <4>3
      <3> QED BY <1>2, <2>3, <2>4, <3>2, <3>3, <3>4, NetOkAlike
    <2> QED BY <1>1, <1>2, <1>4, <2>2, <2>3, <2>4, DevicesKeep
  <1> QED BY <1>1, <1>5, <1>6

LEMMA OverflowKeeps ==
  ASSUME IInv, fate = "run", ~changed, Overflow, conf' = conf
  PROVE  IInv'
  <1>1. NetTypeOK'
    BY DEF IInv, NetTypeOK, Overflow
  <1>2. faults' # 0
    BY DEF IInv, NetTypeOK, Overflow
  <1> QED BY <1>1, <1>2 DEF IInv, Overflow, Addresses

LEMMA MtuZeroKeeps ==
  ASSUME IInv, fate = "run", ~changed, NEW i \in Ifs, MtuZero(i), conf' = conf
  PROVE  IInv'
  <1> DEFINE m == [Message(i, kernel) EXCEPT !.del = TRUE]
  <1>1. /\ fate = "run" /\ inbox' = Append(inbox, m) /\ faults' = faults + 1
        /\ UNCHANGED <<fate, kernel, udev, conf, deaf, net, client, devs, timer, changed>>
    BY DEF MtuZero
  <1>2. kernel \in [Ifs -> KernelT] /\ inbox \in Seq(MessageT) /\ faults \in Nat
    BY DEF IInv, NetTypeOK
  <1>3. m \in MessageT /\ m.mac = kernel[i].mac /\ m.if = i
    <2> DEFINE g == Message(i, kernel)
    <2>1. g \in MessageT /\ g.if = i /\ g.mac = kernel[i].mac
      BY <1>2, MessageOf
    <2> HIDE DEF g
    <2>2. m = [g EXCEPT !.del = TRUE]
      BY DEF g
    <2> QED BY <2>1, <2>2, Zenon DEF MessageT
  <1> HIDE DEF m
  <1>4. /\ inbox' \in Seq(MessageT)
        /\ (\A x \in DOMAIN inbox : inbox[x].mac = Mac[inbox[x].if]) /\ m.mac = Mac[m.if] =>
             \A x \in DOMAIN inbox' : inbox'[x].mac = Mac[inbox'[x].if]
    BY <1>1, <1>2, <1>3, QueueOne, SMTT(30)
  <1>5. NetTypeOK' /\ faults' # 0
    BY <1>1, <1>2, <1>4, SMTT(30) DEF IInv, NetTypeOK
  <1>6. Addresses => Addresses'
    BY <1>1, <1>3, <1>4 DEF Addresses
  <1> QED BY <1>1, <1>5, <1>6 DEF IInv

(* The kernel's own steps: an interface appears or goes, or its link or its *)
(* name changes.                                                            *)
KernelStep(i, k, u) ==
    \/ /\ kernel[i].st = "absent" /\ k = [kernel[i] EXCEPT !.st = "here"]
       /\ u = IF i \in Lo THEN udev ELSE udev \cup {i}
    \/ k.st = "gone" /\ k.mac = kernel[i].mac /\ u = udev \ {i}
    \/ /\ k.st = kernel[i].st /\ k.up = kernel[i].up /\ k.mac = kernel[i].mac /\ u = udev
       /\ kernel[i].st = "here" \/ kernel[i].up
    \/ k.mac # kernel[i].mac /\ u = udev

LEMMA KernelSteps ==
  ASSUME IInv, fate = "run", ~changed, NEW i \in Ifs, KernelNext(i)
  PROVE  \E k \in KernelT, u \in SUBSET Ifs : Kernel(i, k, u) /\ KernelStep(i, k, u)
  <1> DEFINE k == kernel[i]
  <1>1. k \in KernelT /\ udev \in SUBSET Ifs
    BY DEF IInv, NetTypeOK
  <1> DEFINE k1 == [k EXCEPT !.st = "here"]
             k2 == [k EXCEPT !.st = "gone", !.up = FALSE, !.link = FALSE]
             k3 == [k EXCEPT !.link = ~@]
             k4 == [k EXCEPT !.name = 1]
             k5(m) == [k EXCEPT !.mac = m]
             u1 == IF i \in Lo THEN udev ELSE udev \cup {i}
  <1>2. \/ k.st = "absent" /\ Kernel(i, k1, u1)
        \/ Kernel(i, k2, udev \ {i})
        \/ k.up /\ Kernel(i, k3, udev)
        \/ k.st = "here" /\ Kernel(i, k4, udev)
        \/ \E m \in {Mac[j] : j \in Ifs \ Lo} : Kernel(i, k5(m), udev)
    BY Zenon DEF KernelNext
  <1>3. CASE k.st = "absent" /\ Kernel(i, k1, u1)
    <2>1. k1 \in KernelT /\ u1 \in SUBSET Ifs
      BY <1>1 DEF KernelT
    <2> QED BY <1>3, <2>1 DEF KernelStep
  <1>4. CASE Kernel(i, k2, udev \ {i})
    <2>1. k2 \in KernelT /\ k2.st = "gone" /\ k2.mac = k.mac /\ udev \ {i} \in SUBSET Ifs
      BY <1>1, Zenon DEF KernelT
    <2> QED BY <1>4, <2>1, Zenon DEF KernelStep
  <1>5. CASE k.up /\ Kernel(i, k3, udev)
    <2>1. k3 \in KernelT /\ k3.st = k.st /\ k3.mac = k.mac /\ k3.up = k.up
      BY <1>1, Zenon DEF KernelT
    <2> QED BY <1>1, <1>5, <2>1, Zenon DEF KernelStep
  <1>6. CASE k.st = "here" /\ Kernel(i, k4, udev)
    <2>1. k4 \in KernelT /\ k4.st = k.st /\ k4.mac = k.mac /\ k4.up = k.up
      BY <1>1 DEF KernelT
    <2> QED BY <1>1, <1>6, <2>1, Zenon DEF KernelStep
  <1>7. CASE \E m \in {Mac[j] : j \in Ifs \ Lo} : Kernel(i, k5(m), udev)
    <2>1. PICK m \in Macs : Kernel(i, k5(m), udev)
      BY <1>7, NetAssumption, Zenon
    <2>2. k5(m) \in KernelT /\ k5(m).mac = m /\ k5(m) # k
      BY <1>1, <2>1 DEF KernelT, Kernel
    <2>3. m # k.mac
      BY <1>1, <2>2 DEF KernelT
    <2> QED BY <1>1, <2>1, <2>2, <2>3, Zenon DEF KernelStep
  <1> QED BY <1>2, <1>3, <1>4, <1>5, <1>6, <1>7, Zenon

LEMMA KernelKeeps ==
  ASSUME IInv, fate = "run", ~changed, NEW i \in Ifs, KernelNext(i), conf' = conf
  PROVE  IInv'
  <1>1. PICK k \in KernelT, u \in SUBSET Ifs : Kernel(i, k, u) /\ KernelStep(i, k, u)
    BY KernelSteps
  <1> DEFINE m == Message(i, kernel')
  <1>2. /\ fate = "run" /\ kernel' = [kernel EXCEPT ![i] = k] /\ udev' = u
        /\ inbox' = IF deaf THEN inbox ELSE Append(inbox, m)
        /\ changed' = (changed \/ k.mac # kernel[i].mac)
        /\ UNCHANGED <<fate, conf, deaf, net, client, devs, timer, faults>>
    BY <1>1 DEF Kernel
  <1>3. /\ kernel \in [Ifs -> KernelT] /\ inbox \in Seq(MessageT)
        /\ kernel' \in [Ifs -> KernelT] /\ kernel'[i] = k
        /\ \A j \in Ifs : j # i => kernel'[j] = kernel[j]
    BY <1>2 DEF IInv, NetTypeOK
  <1>4. m \in MessageT /\ m.if = i /\ m.mac = k.mac /\ (k.st # "gone" => ~m.del)
    BY <1>3, MessageOf, SMTT(30)
  <1>5. inbox' \in Seq(MessageT)
    BY <1>2, <1>3, <1>4, QueueOne
  <1>6. NetTypeOK'
    BY <1>2, <1>3, <1>5 DEF IInv, NetTypeOK
  <1>7. ASSUME fate' = "run", ~changed', Addresses PROVE Addresses'
    <2>1. \A j \in Ifs : kernel'[j].mac = Mac[j]
      BY <1>2, <1>3, <1>7, Zenon DEF Addresses
    <2>2. CASE deaf
      BY <1>2, <1>7, <2>1, <2>2 DEF Addresses
    <2>3. CASE ~deaf
      <3>1. m.mac = Mac[m.if]
        BY <1>3, <1>4, <2>1
      <3>2. \A x \in DOMAIN inbox : inbox[x].mac = Mac[inbox[x].if]
        BY <1>7 DEF Addresses
      <3>3. \A x \in DOMAIN Append(inbox, m) : Append(inbox, m)[x].mac = Mac[Append(inbox, m)[x].if]
        BY <1>3, <1>4, <3>1, <3>2, QueueOne
      <3>4. inbox' = Append(inbox, m)
        BY <1>2, <2>3
      <3> HIDE DEF m
      <3> QED BY <2>1, <3>3, <3>4 DEF Addresses
    <2> QED BY <2>2, <2>3
  <1>8. ASSUME ~changed', Told PROVE Told'
    <2>1. ~deaf /\ inbox' = Append(inbox, m)
      BY <1>2, <1>8 DEF Told
    <2>2. k.mac = kernel[i].mac
      BY <1>2, <1>8, Zenon
    <2>3. \A j : SameFor(j)
      BY <1>2 DEF SameFor
    <2>4. ASSUME NEW j \in Ifs, j # i
          PROVE  /\ kernel'[j].st = "absent" => Unseen(j)'
                 /\ Alone(j) /\ kernel'[j].st = "here" => Seen(j)'
      <3>1. j \in udev' <=> j \in udev
        BY <1>1, <1>2, <2>4, SMTT(30) DEF KernelStep
      <3>2. /\ NoneFor(j, inbox) <=> NoneFor(j, inbox')
            /\ \A msg : LastFor(j, inbox, msg) => LastFor(j, inbox', msg)
        BY <1>3, <1>4, <2>1, <2>4, QueueOne
      <3>3. kernel'[j].st = "absent" => Unseen(j)'
        BY <1>2, <1>3, <1>8, <2>4, <3>1, <3>2 DEF Told, Unseen
      <3>4. ASSUME Alone(j), kernel'[j].st = "here" PROVE Seen(j)'
        <4>1. Seen(j)
          BY <1>3, <1>8, <2>4, <3>4, SMTT(30) DEF Told
        <4>2. LastFor(j, inbox', Message(j, kernel))
          BY <3>2, <4>1 DEF Seen
        <4>3. SameFor(j) /\ kernel'[j] = kernel[j]
          BY <1>3, <2>3, <2>4
        <4> QED BY <1>2, <3>1, <3>2, <4>1, <4>2, <4>3, SeenKept, Zenon
      <3> QED BY <3>3, <3>4
    <2>5. kernel'[i].st = "absent" => Unseen(i)'
      BY <1>1, <1>3, <1>8, <2>2 DEF KernelStep, Told, Unseen, KernelT
    <2>6. ASSUME Alone(i), kernel'[i].st = "here" PROVE Seen(i)'
      <3>1. /\ ~NoneFor(i, inbox')
            /\ \A msg : LastFor(i, inbox, msg) => LastFor(i, inbox', m)
        BY <1>3, <1>4, <2>1, <2>6, QueueOne
      <3>2. CASE kernel[i].st = "absent"
        <4>1. Unseen(i)
          BY <1>8, <3>2 DEF Told
        <4>2. i \in udev' /\ ~kernel'[i].up
          BY <1>1, <1>2, <1>3, <2>2, <2>6, <3>2, <4>1, SMTT(30) DEF KernelStep, KernelT, Unseen, Alone
        <4>3. LastFor(i, inbox', m)
          BY <3>1, <4>1 DEF Unseen, NoneFor, LastFor
        <4>4. \A ready, s : ~Listed(net', i, ready, s)
          BY <1>2, <4>1 DEF Unseen, Listed
        <4> QED BY <4>2, <4>3, <4>4, Zenon DEF Seen
      <3>3. CASE kernel[i].st # "absent"
        <4>1. kernel[i].st = "here" /\ kernel'[i].up = kernel[i].up /\ udev' = udev
          BY <1>1, <1>2, <1>3, <2>2, <2>6, <3>3, SMTT(30) DEF KernelStep
        <4>2. Seen(i)
          BY <1>8, <2>6, <4>1, SMTT(30) DEF Told
        <4>3. LastFor(i, inbox', m)
          BY <3>1, <4>2 DEF Seen
        <4>4. Ignored(Mac[i])' = Ignored(Mac[i])
          BY <1>2 DEF Ignored, Manual
        <4> HIDE DEF m
        <4>5. i \in udev' => ~kernel'[i].up /\ \A s : ~Listed(net', i, TRUE, s)
          BY <1>2, <4>1, <4>2, Zenon DEF Seen
        <4>6. i \notin udev' => \E s : Listed(net', i, TRUE, s) /\ (s = "ignored" \/ kernel'[i].up)
          BY <1>2, <4>1, <4>2, Zenon DEF Seen
        <4>7. kernel'[i].up =>
                ~Ignored(Mac[i]) /\ \E ready, s : s # "ignored" /\ Listed(net', i, ready, s)
          BY <1>2, <4>1, <4>2 DEF Seen
        <4> QED BY <3>1, <4>3, <4>4, <4>5, <4>6, <4>7, Zenon DEF Seen, m
      <3> QED BY <3>2, <3>3, SMTT(30)
    <2>7. ASSUME NEW j \in Ifs
          PROVE  /\ kernel'[j].st = "absent" => Unseen(j)'
                 /\ Alone(j) /\ kernel'[j].st = "here" => Seen(j)'
      BY <2>4, <2>5, <2>6
    <2>8. \A j \in Ifs : Alone(j)' = Alone(j)
      BY DEF Alone
    <2> QED BY <1>2, <2>1, <2>7, <2>8 DEF Told
  <1>9. changed => changed'
    BY <1>2, Zenon
  <1> QED BY <1>2, <1>6, <1>7, <1>8, <1>9 DEF IInv, NetOk

LEMMA ReinitKeeps ==
  ASSUME IInv, fate = "run", ~changed, NetReinit
  PROVE  IInv'
  <1> DEFINE down == {i \in Ifs \ Lo : \E r \in Range(net) : r.if = i /\ r.state # "ignored"}
             there == {i \in Ifs : kernel[i].st = "here"}
             off(i) == [kernel[i] EXCEPT !.up = FALSE, !.link = FALSE]
  <1>1. /\ fate = "run" /\ udev' = there \ Lo /\ deaf' = FALSE /\ net' = <<>>
        /\ kernel' = [i \in Ifs |-> IF i \in down THEN off(i) ELSE kernel[i]]
        /\ client' = [c \in Clients |-> [client[c] EXCEPT !.cb = FALSE, !.held = FALSE,
                                                          !.own = 0]]
        /\ devs' = {} /\ timer' = {} /\ conf' \in Confs /\ UNCHANGED <<changed, faults>>
    BY Zenon DEF NetReinit
  <1>2. \E n \in Nat : \E order \in [1 .. n -> there] :
          inbox' = [x \in 1 .. n |-> Message(order[x], kernel')]
    <2>1. \E n \in 0 .. NIfs : \E order \in [1 .. n -> there] :
            inbox' = [x \in 1 .. n |-> Message(order[x], kernel')]
      BY Zenon DEF NetReinit, Bijection, Injection
    <2>2. \A n \in 0 .. NIfs : n \in Nat
      BY NetAssumption
    <2> QED BY <2>1, <2>2, Zenon
  <1>3. /\ kernel \in [Ifs -> KernelT] /\ client \in [Clients -> ClientT]
        /\ changed \in BOOLEAN /\ faults \in Nat
    BY SMTT(30) DEF IInv, NetTypeOK
  <1>4. /\ kernel' \in [Ifs -> KernelT]
        /\ \A i \in Ifs : /\ kernel'[i].st = kernel[i].st /\ kernel'[i].mac = kernel[i].mac
                          /\ i \in down => ~kernel'[i].up
                          /\ i \notin down => kernel'[i] = kernel[i]
    <2>1. ASSUME NEW i \in Ifs
          PROVE  /\ off(i) \in KernelT /\ off(i).st = kernel[i].st /\ off(i).mac = kernel[i].mac
                 /\ ~off(i).up
      BY <1>3, Zenon DEF KernelT
    <2> HIDE DEF off, down, there
    <2> QED BY <1>1, <1>3, <2>1, Zenon
  <1> HIDE DEF off, down
  <1>5. net' \in Seq(IfT) /\ DOMAIN net' = {}
    <2>1. net' = <<>>
      BY <1>1, Zenon
    <2> QED BY <2>1
  <1>6. client' \in [Clients -> ClientT] /\ \A c \in Clients : client'[c].own = 0
    <2>1. \A c \in Clients : LET q == [client[c] EXCEPT !.cb = FALSE, !.held = FALSE, !.own = 0]
                             IN  q \in ClientT /\ q.own = 0
      BY <1>3, Zenon DEF ClientT
    <2> QED BY <1>1, <2>1, Zenon
  <1>7. /\ inbox' \in Seq(MessageT)
        /\ \A x \in DOMAIN inbox' :
             /\ inbox'[x].if \in there /\ inbox'[x] = Message(inbox'[x].if, kernel')
             /\ ~inbox'[x].del /\ inbox'[x].mac = kernel[inbox'[x].if].mac
    <2>2. PICK n \in Nat : \E order \in [1 .. n -> there] :
            inbox' = [x \in 1 .. n |-> Message(order[x], kernel')]
      BY <1>2, Zenon
    <2>5. PICK order \in [1 .. n -> there] :
            inbox' = [x \in 1 .. n |-> Message(order[x], kernel')]
      BY <2>2, Zenon
    <2>1. ASSUME NEW x \in 1 .. n
          PROVE  LET m == Message(order[x], kernel')
                 IN  /\ m \in MessageT /\ m.if = order[x] /\ order[x] \in there
                     /\ ~m.del /\ m.mac = kernel[order[x]].mac
      <3>1. order[x] \in there /\ order[x] \in Ifs /\ kernel'[order[x]].st = "here"
        BY <1>4
      <3> QED BY <1>4, <3>1, MessageOf
    <2>3. \A x \in 1 .. n : Message(order[x], kernel') \in MessageT
      BY <2>1
    <2>4. inbox' \in Seq(MessageT) /\ DOMAIN inbox' = 1 .. n
      BY <2>5, <2>3, SMTT(30)
    <2> QED BY <2>5, <2>1, <2>4
  <1> HIDE DEF there
  <1>8. NetTypeOK'
    <2>1. conf' \in [Macs -> {"dhcp", "static", "ignore", "none"}]
      BY <1>1, NetAssumption, Zenon
    <2>2. udev' \subseteq Ifs
      BY <1>1, Zenon DEF there
    <2> QED BY <1>1, <1>3, <1>4, <1>6, <1>7, <1>5, <2>1, <2>2, Zenon DEF NetTypeOK
  <1>9. NetOk(net', devs', timer', client')
    BY <1>1, <1>6, <1>5, Zenon DEF NetOk
  <1>10. Addresses => Addresses'
    BY <1>4, <1>7, SMTT(30) DEF Addresses, there
  <1>11. ASSUME Told PROVE Told'
    <2>1. \A i, ready, s : ~Listed(net', i, ready, s)
      BY <1>5 DEF Listed
    <2>2. ASSUME NEW i \in Ifs, kernel'[i].st = "absent" PROVE Unseen(i)'
      <3>1. ~kernel'[i].up
        BY <1>4, <1>11, <2>2, SMTT(30) DEF Told, Unseen
      <3>2. NoneFor(i, inbox') /\ i \notin udev'
        BY <1>1, <1>4, <1>7, <2>2, Zenon DEF NoneFor, there
      <3> QED BY <1>5, <3>1, <3>2 DEF Unseen
    <2>3. ASSUME NEW i \in Ifs, Alone(i), kernel'[i].st = "here" PROVE Seen(i)'
      <3>1. Seen(i) /\ i \notin Lo
        BY <1>4, <1>11, <2>3 DEF Told, Alone
      <3>2. i \in udev'
        BY <1>1, <1>4, <2>3, <3>1, Zenon DEF there
      <3>3. LastFor(i, inbox', Message(i, kernel'))
        BY <1>7 DEF LastFor
      <3>4. ~kernel'[i].up
        <4>1. CASE i \in down
          BY <1>4, <4>1
        <4>2. CASE i \notin down
          <5>1. kernel[i].up => \E x \in DOMAIN net : net[x].if = i /\ net[x].state # "ignored"
            BY <3>1 DEF Seen, Listed
          <5>2. ~kernel[i].up
            BY <3>1, <4>2, <5>1 DEF Range, down
          <5> QED BY <1>4, <4>2, <5>2
        <4> QED BY <4>1, <4>2
      <3> QED BY <2>1, <3>2, <3>3, <3>4, Zenon DEF Seen
    <2>4. \A i \in Ifs : Alone(i)' = Alone(i)
      BY DEF Alone
    <2> QED BY <1>1, <2>2, <2>3, <2>4, Zenon DEF Told
  <1> QED BY <1>1, <1>8, <1>9, <1>10, <1>11, Zenon DEF IInv

LEMMA LinkDeletedKeeps ==
  ASSUME IInv, fate = "run", ~changed, LinkDeleted, conf' = conf
  PROVE  IInv'
  <1> DEFINE msg == Head(inbox)
             at == ByIndex(net, msg.if)
  <1>1. /\ fate = "run" /\ ~deaf /\ inbox # <<>> /\ msg.del /\ inbox' = Tail(inbox)
        /\ IF at = 0 THEN UNCHANGED <<net, client, devs, timer, fate>> ELSE RemoveInterface(at)
        /\ UNCHANGED <<kernel, udev, conf, deaf, changed, faults>>
    BY DEF LinkDeleted
  <1>2. /\ net \in Seq(IfT) /\ client \in [Clients -> ClientT] /\ inbox \in Seq(MessageT)
        /\ devs \subseteq Macs /\ timer \subseteq Macs \cup {"null", "stale"}
    BY DEF IInv, NetTypeOK
  <1>3. /\ msg \in MessageT /\ inbox' \in Seq(MessageT)
        /\ (\A x \in DOMAIN inbox : inbox[x].mac = Mac[inbox[x].if]) =>
             \A x \in DOMAIN inbox' : inbox'[x].mac = Mac[inbox'[x].if]
        /\ \A i : /\ msg.if # i /\ NoneFor(i, inbox') => NoneFor(i, inbox)
                  /\ NoneFor(i, inbox) => NoneFor(i, inbox')
        /\ \A i, m : LastFor(i, inbox, m) => LastFor(i, inbox', m) /\ (msg.if = i => ~msg.del)
    BY <1>1, <1>2, ReadOne
  <1>4. Addresses => Addresses'
    BY <1>1, <1>3 DEF Addresses
  <1> HIDE DEF msg
  (* The other interfaces are still there. *)
  <1>5. ASSUME \A i \in Ifs : i # msg.if => SameFor(i),
               \A x \in DOMAIN net' : \E y \in DOMAIN net : net[y].if = net'[x].if, Told
        PROVE  Told'
    <2>1. ASSUME NEW i \in Ifs, kernel'[i].st = "absent" PROVE Unseen(i)'
      BY <1>1, <1>3, <1>5, <2>1, SMTT(30) DEF Told, Unseen
    <2>2. ASSUME NEW i \in Ifs, Alone(i), kernel'[i].st = "here" PROVE Seen(i)'
      <3>1. Seen(i)
        BY <1>1, <1>5, <2>2, SMTT(30) DEF Told
      <3>2. LastFor(i, inbox', Message(i, kernel)) /\ i # msg.if
        BY <1>1, <1>3, <3>1, SMTT(30) DEF Seen
      <3>3. NoneFor(i, inbox') => NoneFor(i, inbox)
        BY <1>3, <3>2
      <3>4. SameFor(i) /\ kernel'[i] = kernel[i] /\ (i \in udev' <=> i \in udev)
        BY <1>1, <1>5, <3>2
      <3> QED BY <1>1, <3>1, <3>2, <3>3, <3>4, SeenKept, SMTT(30)
    <2>3. \A i \in Ifs : Alone(i)' = Alone(i)
      BY SMTT(30) DEF Alone
    <2> QED BY <1>1, <2>1, <2>2, <2>3, SMTT(30) DEF Told
  <1>6. CASE at = 0
    <2>1. UNCHANGED <<net, client, devs, timer, fate>>
      BY <1>1, <1>6
    <2>2. Told => Told'
      BY <1>5, <2>1, SMTT(30) DEF SameFor
    <2>3. NetTypeOK'
      BY <1>1, <1>3, <2>1, Zenon DEF IInv, NetTypeOK
    <2> QED BY <1>1, <1>4, <2>1, <2>2, <2>3 DEF IInv, NetOk
  <1>7. CASE at # 0
    <2> DEFINE d == net[at].dev
               t == IF d \in Macs THEN Unregister(net, d) ELSE net
    <2>1. at \in DOMAIN net /\ net[at].if = msg.if
      BY <1>2, <1>7, Lookup, NetDistinct
    <2>2. /\ net' = Without(t, at) /\ devs' = devs \ {d} /\ timer' = timer \ {d}
          /\ client' = [c \in Clients |-> IF client[c].own = net[at].if
                                          THEN [client[c] EXCEPT !.own = 0] ELSE client[c]]
          /\ fate' = IF d = "stale" THEN "stale_dev" ELSE "run"
      BY <1>1, <1>7 DEF RemoveInterface
    <2> HIDE DEF at
    <2>3. /\ client' \in [Clients -> ClientT]
          /\ \A c \in Clients : client'[c].own = IF client[c].own = net[at].if THEN 0 ELSE client[c].own
      <3>1. \A c \in Clients : LET q == [client[c] EXCEPT !.own = 0] IN q \in ClientT /\ q.own = 0
        BY <1>2, Zenon DEF ClientT
      <3> QED BY <1>2, <2>2, <3>1
    <2>4. DeviceTaken(net, d, t)
      BY <1>2, TakeDevice, Zenon
    <2> HIDE DEF t, d
    <2> USE DEF DeviceTaken
    <2>5. t \in Seq(IfT) /\ at \in DOMAIN t
      BY <2>1, <2>4 DEF Alike
    <2>6. /\ net' \in Seq(IfT)
          /\ \A x \in DOMAIN net' : IF x < at THEN x \in DOMAIN t /\ net'[x] = t[x]
                                    ELSE x + 1 \in DOMAIN t /\ net'[x] = t[x + 1]
          /\ \A x \in DOMAIN t : x # at =>
                    \E y \in DOMAIN net' : net'[y] = t[x] /\ y = IF x < at THEN x ELSE x - 1
      BY <2>2, <2>5, TakeOne
    <2>7. at \in Nat /\ \A x \in DOMAIN net' : x \in Nat
      BY <1>2, <2>1, <2>6, SMTT(30)
    <2>8. /\ \A x \in DOMAIN net' : \E y \in DOMAIN net : y # at /\ net'[x] = t[y] /\ y = IF x < at THEN x ELSE x + 1
          /\ \A y \in DOMAIN net : y # at => \E x \in DOMAIN net' : net'[x] = t[y]
      BY <2>4, <2>6, <2>7, SMTT(30) DEF Alike
    <2>9. NetTypeOK'
      <3>1. devs' \subseteq Macs /\ timer' \subseteq Macs \cup {"null", "stale"}
        BY <1>2, <2>2
      <3> QED BY <1>1, <1>3, <2>3, <2>6, <3>1 DEF IInv, NetTypeOK
    <2>10. Told => Told'
      <3>1. ASSUME NEW i \in Ifs, i # msg.if PROVE SameFor(i)
        BY <2>1, <2>4, <2>8, <3>1, SMTT(30) DEF SameFor, Listed, Alike
      <3>2. \A x \in DOMAIN net' : \E y \in DOMAIN net : net[y].if = net'[x].if
        BY <2>4, <2>8, SMTT(30) DEF Alike
      <3> QED BY <1>5, <3>1, <3>2, SMTT(30)
    <2>11. ASSUME NetOk(net, devs, timer, client) PROVE NetOk(net', devs', timer', client')
      <3>1. d = IF net[at].mac \in devs THEN net[at].mac ELSE "null"
        BY <2>1, <2>11 DEF NetOk, d
      <3>2. "null" \notin Macs /\ "null" \notin devs /\ net[at].mac \in Macs
        <4>1. net[at] \in IfT
          BY <1>2, <2>1
        <4>2. net[at].mac \in Macs
          BY <4>1 DEF IfT
        <4>3. "null" \notin Macs
          BY NetAssumption, SMTT(30)
        <4> QED BY <1>2, <4>2, <4>3
      <3>3. ASSUME NEW y \in DOMAIN net, y # at
            PROVE  /\ net[y].mac # net[at].mac /\ net[y].if # net[at].if
                   /\ t[y].mac = net[y].mac /\ t[y].if = net[y].if
                   /\ t[y].mac = Mac[t[y].if]
                   /\ t[y].dev = IF t[y].mac \in devs' THEN t[y].mac ELSE "null"
                   /\ t[y].state # "new" \/ t[y].p4 # 0 \/ t[y].p6 # 0 => Named(t[y])
                   /\ Named(net[y]) => Named(t[y])
        <4>1. /\ net[y].mac # net[at].mac /\ net[y].mac = Mac[net[y].if] /\ net[at].mac = Mac[net[at].if]
              /\ net[y].dev = IF net[y].mac \in devs THEN net[y].mac ELSE "null"
              /\ net[y].state # "new" \/ net[y].p4 # 0 \/ net[y].p6 # 0 => Named(net[y])
          BY <2>1, <2>11, <3>3, SMTT(30) DEF NetOk
        <4>2. t[y].mac = net[y].mac /\ t[y].if = net[y].if /\ (Named(net[y]) => Named(t[y]))
          BY <2>4 DEF Alike, Named
        <4>3. t[y].dev = net[y].dev
          <5>1. CASE d \in Macs
            <6>1. d = net[at].mac
              BY <3>1, <3>2, <5>1, SMTT(30)
            <6>2. y # ByMac(net, d)
              BY <1>2, <4>1, <6>1, Lookup, NetDistinct, SMTT(30)
            <6>3. net[y].dev # d
              BY <3>2, <4>1, <5>1, <6>1, SMTT(30)
            <6> QED BY <2>4, <5>1, <6>2, <6>3
          <5>2. CASE d \notin Macs
            BY <2>4, <5>2
          <5> QED BY <5>1, <5>2
        <4>4. net[y].mac \in devs' <=> net[y].mac \in devs
          BY <2>2, <3>1, <3>2, <4>1, <1>2, SMTT(30)
        <4> QED BY <2>4, <4>1, <4>2, <4>3, <4>4, SMTT(30)
      <3>4. \A x \in DOMAIN net' :
              /\ net'[x].mac = Mac[net'[x].if]
              /\ net'[x].dev = IF net'[x].mac \in devs' THEN net'[x].mac ELSE "null"
              /\ net'[x].state # "new" \/ net'[x].p4 # 0 \/ net'[x].p6 # 0 => Named(net'[x])
        BY <2>8, <3>3
      <3>5. ASSUME NEW x \in DOMAIN net', NEW y \in DOMAIN net', net'[x].mac = net'[y].mac PROVE x = y
        <4>1. PICK v \in DOMAIN net : v # at /\ net'[x] = t[v] /\ v = IF x < at THEN x ELSE x + 1
          BY <2>8
        <4>2. PICK w \in DOMAIN net : w # at /\ net'[y] = t[w] /\ w = IF y < at THEN y ELSE y + 1
          BY <2>8, SMTT(30)
        <4>3. v = w
          BY <2>4, <2>11, <3>5, <4>1, <4>2, SMTT(30) DEF Alike, NetOk
        <4> QED BY <2>7, <4>1, <4>2, <4>3
      <3>6. ASSUME NEW m \in timer' PROVE m \in devs' /\ \E x \in DOMAIN net' : net'[x].mac = m /\ Named(net'[x])
        <4>1. m \in devs' /\ m # d /\ m \in devs /\ m \in timer
          BY <2>2, <2>11, SMTT(30) DEF NetOk
        <4>2. PICK y \in DOMAIN net : net[y].mac = m /\ Named(net[y])
          BY <2>11, <4>1 DEF NetOk
        <4>3. y # at
          BY <3>1, <4>1, <4>2, SMTT(30)
        <4> QED BY <2>8, <3>3, <4>1, <4>2, <4>3
      <3>7. ASSUME NEW c \in Clients, client'[c].own # 0
            PROVE  \E x \in DOMAIN net' : net'[x].if = client'[c].own /\ Named(net'[x])
        <4>1. client'[c].own = client[c].own /\ client[c].own # net[at].if /\ client[c].own # 0
          BY <2>3, <3>7, SMTT(30)
        <4>2. PICK y \in DOMAIN net : net[y].if = client[c].own /\ Named(net[y])
          BY <2>11, <4>1 DEF NetOk
        <4>3. y # at
          BY <4>1, <4>2
        <4> QED BY <2>8, <3>3, <4>1, <4>2, <4>3
      <3> QED BY <3>4, <3>5, <3>6, <3>7, SMTT(30) DEF NetOk
    <2> QED BY <1>1, <1>4, <2>9, <2>10, <2>11, SMTT(30) DEF IInv
  <1> QED BY <1>6, <1>7

LEMMA NetInitInv ==
  ASSUME NetInit
  PROVE  IInv
  <1>1. /\ net = <<>> /\ inbox = <<>> /\ udev = {} /\ devs = {} /\ timer = {} /\ ~deaf
        /\ deaf \in BOOLEAN /\ changed \in BOOLEAN /\ faults \in Nat /\ conf \in Confs
        /\ kernel = [i \in Ifs |-> [st |-> "absent", up |-> FALSE, link |-> FALSE,
                                    mac |-> Mac[i], name |-> 0]]
        /\ client = [c \in Clients |-> [own |-> 0, st |-> "unused", cb |-> FALSE, held |-> FALSE]]
    BY Zenon DEF NetInit
  <1>2. /\ net \in Seq(IfT) /\ DOMAIN net = {} /\ inbox \in Seq(MessageT) /\ DOMAIN inbox = {}
    BY <1>1
  <1>3. /\ kernel \in [Ifs -> KernelT]
        /\ \A i \in Ifs : kernel[i].st = "absent" /\ ~kernel[i].up /\ kernel[i].mac = Mac[i]
    BY <1>1, NetAssumption, SMTT(30) DEF KernelT
  <1>4. client \in [Clients -> ClientT] /\ \A c \in Clients : client[c].own = 0
    BY <1>1 DEF ClientT
  <1>5. NetTypeOK
    BY <1>1, <1>2, <1>3, <1>4, NetAssumption, SMTT(30) DEF NetTypeOK
  <1>6. NetOk(net, devs, timer, client)
    BY <1>1, <1>2, <1>4 DEF NetOk
  <1>7. Addresses
    BY <1>2, <1>3, SMTT(30) DEF Addresses
  <1>8. Told
    BY <1>1, <1>2, <1>3 DEF Told, Unseen, NoneFor
  <1> QED BY <1>5, <1>6, <1>7, <1>8 DEF IInv

LEMMA NetStepInv ==
  ASSUME IInv, [NetNext]_nvars
  PROVE  IInv'
  <1> SUFFICES ASSUME fate = "run", ~changed PROVE IInv'
    <2>1. fate # "run" => fate' # "run"
      BY Zenon DEF NetNext, NetReinit, Step, Netlink, LinkDeleted, Newlink, Udev, MarkReady, Overflow,
                   Requery, DeviceRemoved, Leased, ClientExit, KernelNext, Kernel, MtuZero, nvars
    <2>2. changed => changed'
      BY Zenon DEF NetNext, NetReinit, Step, Netlink, LinkDeleted, Newlink, Udev, MarkReady, Overflow,
             Requery, DeviceRemoved, Leased, ClientExit, KernelNext, Kernel, MtuZero, nvars
    <2> QED BY <2>1, <2>2 DEF IInv
  <1>1. CASE NetReinit
    BY <1>1, ReinitKeeps
  <1>2. CASE Step /\ UNCHANGED conf
    <2>1. CASE Netlink
      BY <1>2, <2>1, LinkDeletedKeeps, NewlinkKeeps DEF Netlink
    <2>2. CASE Udev
      BY <1>2, <2>2, MarkReadyKeeps DEF Udev
    <2>3. CASE Overflow
      BY <1>2, <2>3, OverflowKeeps
    <2>4. ASSUME NEW m \in Macs, \/ \E ok4, ok6 \in BOOLEAN : Requery(m, ok4, ok6)
                                 \/ DeviceRemoved(m)
                                 \/ \E arm \in BOOLEAN : Leased(m, arm)
          PROVE  IInv'
      BY <1>2, <2>4, RequeryKeeps, DeviceRemovedKeeps, LeasedKeeps
    <2>5. ASSUME NEW c \in Clients, ClientExit(c) PROVE IInv'
      BY <1>2, <2>5, ClientExitKeeps
    <2>6. ASSUME NEW i \in Ifs, KernelNext(i) \/ MtuZero(i) PROVE IInv'
      BY <1>2, <2>6, KernelKeeps, MtuZeroKeeps, SMTT(30)
    <2> QED BY <1>2, <2>1, <2>2, <2>3, <2>4, <2>5, <2>6 DEF Step
  <1>3. CASE UNCHANGED nvars
    <2>1. UNCHANGED <<conf, fate, kernel, udev, inbox, net, client, devs, timer, deaf, changed, faults>>
      BY <1>3 DEF nvars
    <2>2. NetTypeOK' /\ (NetOk(net, devs, timer, client) => NetOk(net', devs', timer', client'))
      BY <2>1 DEF IInv, NetTypeOK
    <2>3. Addresses => Addresses'
      BY <2>1, SMTT(30) DEF Addresses
    <2>4. \A i \in Ifs : (Unseen(i) => Unseen(i)') /\ (Seen(i) => Seen(i)')
      BY <2>1, Zenon DEF Unseen, Seen, Ignored, Manual, Message
    <2>5. Told => Told'
      BY <2>1, <2>4 DEF Told, Alone
    <2> QED BY <2>1, <2>2, <2>3, <2>5 DEF IInv
  <1> QED BY <1>1, <1>2, <1>3 DEF NetNext

THEOREM NetInductive == NetSpec => []IInv
BY NetInitInv, NetStepInv, PTL DEF NetSpec

(* configure_interface() is only reached for an interface that udev has    *)
(* named, whatever the order of netlink's messages and udev's.              *)
THEOREM AlwaysReadyFirst == NetSpec => []ReadyFirst
<1>1. IInv => ReadyFirst
  BY SMTT(30) DEF IInv, ReadyFirst, NetOk, Named, Range
<1> QED BY <1>1, NetInductive, PTL

(* No interface points to a device that has been freed.                     *)
THEOREM AlwaysDevicePointers == NetSpec => []DevicePointers
<1>1. IInv => DevicePointers
  <2> SUFFICES ASSUME IInv, fate = "run", ~changed, NEW x \in DOMAIN net
               PROVE  net[x].dev # "stale"
    BY DEF DevicePointers, Range
  <2>1. net[x] \in IfT
    BY DEF IInv, NetTypeOK
  <2>2. net[x].mac # "stale"
    BY <2>1, NetAssumption DEF IfT
  <2> QED BY <2>2 DEF IInv, NetOk
<1> QED BY <1>1, NetInductive, PTL

(* When every message has been read and udev is done, an interface is       *)
(* ignored, or up and configured if it has a link.                          *)
THEOREM AlwaysInterfaceConfigured == NetSpec => []InterfaceConfigured
<1>1. IInv => InterfaceConfigured
  <2> SUFFICES ASSUME IInv, fate = "run", faults = 0, ~changed, inbox = <<>>,
                      NEW i \in Ifs \ (Lo \cup udev), kernel[i].st = "here", Alone(i)
               PROVE  \E r \in Range(net) :
                        /\ r.if = i
                        /\ \/ r.state = "ignored"
                           \/ kernel[i].up /\ (kernel[i].link => r.state = "configured")
    BY DEF InterfaceConfigured, Alone
  <2>1. Seen(i)
    BY DEF IInv, Told
  <2>2. DOMAIN inbox = {}
    OBVIOUS
  <2>3. NoneFor(i, inbox)
    BY <2>2 DEF NoneFor
  <2>4. PICK s : /\ Listed(net, i, TRUE, s)
                 /\ s = "ignored" \/ kernel[i].up
                 /\ s = "ignored" \/ (kernel[i].link => s = "configured")
    BY <2>1, <2>3, Zenon DEF Seen
  <2> QED BY <2>4 DEF Listed, Range
<1> QED BY <1>1, NetInductive, PTL
=============================================================================
