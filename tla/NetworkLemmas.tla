--------------------------- MODULE NetworkLemmas ----------------------------
(***************************************************************************)
(* Proofs about Network, for any interfaces, addresses and configurations  *)
(* and any bounds on events, faults and DHCP clients: the inductive        *)
(* invariant, and what find_interface(), configure_interface() and the     *)
(* helpers of the handlers do to one interface and its device.             *)
(***************************************************************************)
EXTENDS Network, TLAPS

IfT == [if : Ifs, state : {"new", "waiting", "configured", "ignored"}, ready : BOOLEAN,
        mac : Macs, name : {0, 1}, dev : Macs \cup {"null", "stale"},
        p4 : Clients \cup {0}, p6 : Clients \cup {0}]
KernelT == [st : {"absent", "here", "gone"}, up : BOOLEAN, link : BOOLEAN, mac : Macs,
            name : {0, 1}]
MessageT == [if : Ifs, del : BOOLEAN, up : BOOLEAN, link : BOOLEAN, mac : Macs, name : {0, 1}]
ClientT == [own : Ifs \cup {0}, st : {"unused", "running", "done"}, cb : BOOLEAN,
            held : BOOLEAN]

NetTypeOK ==
    /\ conf \in [Macs -> {"dhcp", "static", "ignore", "none"}]
    /\ kernel \in [Ifs -> KernelT] /\ udev \subseteq Ifs
    /\ inbox \in Seq(MessageT) /\ net \in Seq(IfT)
    /\ client \in [Clients -> ClientT]
    /\ devs \subseteq Macs /\ timer \subseteq Macs \cup {"null", "stale"}
    /\ deaf \in BOOLEAN /\ changed \in BOOLEAN /\ faults \in Nat

(* udev has named the interface, or need not. *)
Named(r) == r.if \in Lo \/ r.ready

(* The interfaces n, with the devices ds, their timers tm and the DHCP     *)
(* clients cl: addresses are those the interfaces came with, each belongs  *)
(* to one of them, an interface points to its device as long as there is   *)
(* one, and only interfaces that have been named have a timer or a client. *)
NetOk(n, ds, tm, cl) ==
    /\ \A x \in DOMAIN n :
         /\ n[x].mac = Mac[n[x].if]
         /\ n[x].dev = IF n[x].mac \in ds THEN n[x].mac ELSE "null"
         /\ n[x].state # "new" \/ n[x].p4 # 0 \/ n[x].p6 # 0 => Named(n[x])
    /\ \A x, y \in DOMAIN n : n[x].mac = n[y].mac => x = y
    /\ \A m \in tm : m \in ds /\ \E x \in DOMAIN n : n[x].mac = m /\ Named(n[x])
    /\ \A c \in Clients :
         cl[c].own # 0 => \E x \in DOMAIN n : n[x].if = cl[c].own /\ Named(n[x])

Addresses ==
    /\ \A i \in Ifs : kernel[i].mac = Mac[i]
    /\ \A x \in DOMAIN inbox : inbox[x].mac = Mac[inbox[x].if]

Ignored(m) == conf[m] = "ignore" \/ (Manual /\ conf[m] = "none")

(* The messages in ib about the interface i. *)
NoneFor(i, ib) == \A x \in DOMAIN ib : ib[x].if # i
LastFor(i, ib, msg) ==
    \A x \in DOMAIN ib : ib[x].if = i =>
        /\ ~ib[x].del
        /\ (\A y \in DOMAIN ib : y > x => ib[y].if # i) => ib[x] = msg

Listed(n, i, ready, state) ==
    \E x \in DOMAIN n : n[x].if = i /\ n[x].ready = ready /\ n[x].state = state

(* Nobody has heard of an interface that has not appeared. *)
Unseen(i) ==
    /\ ~kernel[i].up /\ i \notin udev
    /\ \A x \in DOMAIN net : net[x].if # i
    /\ NoneFor(i, inbox)

(* The last message about an interface says what the kernel has.  Until    *)
(* udev reports it, it is down and not ready.  Then it is ignored, or it   *)
(* is up, and configured unless a message about it is still to be read.    *)
Seen(i) ==
    /\ LastFor(i, inbox, Message(i, kernel))
    /\ i \in udev => ~kernel[i].up /\ \A s : ~Listed(net, i, TRUE, s)
    /\ i \notin udev => \E s :
         /\ Listed(net, i, TRUE, s)
         /\ s = "ignored" \/ kernel[i].up
         /\ NoneFor(i, inbox) => s = "ignored" \/ (kernel[i].link => s = "configured")
    /\ kernel[i].up =>
         ~Ignored(Mac[i]) /\ \E ready, s : s # "ignored" /\ Listed(net, i, ready, s)

(* No other interface has its address. *)
Alone(i) == i \notin Lo /\ \A j \in Ifs : Mac[j] = Mac[i] => j = i

Told ==
    /\ ~deaf
    /\ \A i \in Ifs : kernel[i].st = "absent" => Unseen(i)
    /\ \A i \in Ifs : Alone(i) /\ kernel[i].st = "here" => Seen(i)

(* As long as no address has changed *)
IInv ==
    fate = "run" /\ ~changed =>
        NetTypeOK /\ NetOk(net, devs, timer, client) /\ Addresses /\ (faults = 0 => Told)

-----------------------------------------------------------------------------
(* No two of the interfaces n have the same index or address. *)
Distinct(n) == \A x, y \in DOMAIN n : n[x].if = n[y].if \/ n[x].mac = n[y].mac => x = y

LEMMA FirstOf ==
  ASSUME NEW ps \in SUBSET (Nat \ {0}), \A p, q \in ps : p = q
  PROVE  /\ First(ps) = 0 => ps = {}
         /\ First(ps) # 0 => First(ps) \in ps
  <1>1. CASE ps = {}
    BY <1>1, Zenon DEF First
  <1>2. CASE ps # {}
    <2>1. \E p \in ps : \A q \in ps : p <= q
      <3>1. PICK p \in ps : TRUE
        BY <1>2, Zenon
      <3>2. ASSUME NEW q \in ps PROVE p <= q
        <4>1. q = p /\ p \in Nat
          BY Zenon
        <4> QED BY <4>1
      <3> QED BY <3>2, Zenon
    <2>2. First(ps) \in ps
      BY <2>1, Zenon DEF First
    <2> QED BY <2>2
  <1> QED BY <1>1, <1>2

(* find_interface_by_ifindex() and find_interface_by_uuid() *)
LEMMA Lookup ==
  ASSUME NEW n \in Seq(IfT), Distinct(n)
  PROVE  /\ \A i : \/ ByIndex(n, i) = 0 /\ \A x \in DOMAIN n : n[x].if # i
                   \/ ByIndex(n, i) \in DOMAIN n /\ n[ByIndex(n, i)].if = i /\ ByIndex(n, i) # 0
         /\ \A m : \/ ByMac(n, m) = 0 /\ \A x \in DOMAIN n : n[x].mac # m
                   \/ ByMac(n, m) \in DOMAIN n /\ n[ByMac(n, m)].mac = m /\ ByMac(n, m) # 0
  <1>1. DOMAIN n \subseteq Nat \ {0}
    OBVIOUS
  <1>2. ASSUME NEW i
        PROVE  \/ ByIndex(n, i) = 0 /\ \A x \in DOMAIN n : n[x].if # i
               \/ ByIndex(n, i) \in DOMAIN n /\ n[ByIndex(n, i)].if = i /\ ByIndex(n, i) # 0
    <2> DEFINE ps == {p \in DOMAIN n : n[p].if = i}
    <2>1. ps \in SUBSET (Nat \ {0}) /\ \A p, q \in ps : p = q
      BY <1>1 DEF Distinct
    <2>2. (First(ps) = 0 => ps = {}) /\ (First(ps) # 0 => First(ps) \in ps)
      BY <2>1, FirstOf, Zenon
    <2>3. ByIndex(n, i) = First(ps)
      BY DEF ByIndex
    <2> HIDE DEF ByIndex
    <2> QED BY <2>2, <2>3
  <1>3. ASSUME NEW m
        PROVE  \/ ByMac(n, m) = 0 /\ \A x \in DOMAIN n : n[x].mac # m
               \/ ByMac(n, m) \in DOMAIN n /\ n[ByMac(n, m)].mac = m /\ ByMac(n, m) # 0
    <2> DEFINE ps == {p \in DOMAIN n : n[p].mac = m}
    <2>1. ps \in SUBSET (Nat \ {0}) /\ \A p, q \in ps : p = q
      BY <1>1 DEF Distinct
    <2>2. (First(ps) = 0 => ps = {}) /\ (First(ps) # 0 => First(ps) \in ps)
      BY <2>1, FirstOf, Zenon
    <2>3. ByMac(n, m) = First(ps)
      BY DEF ByMac
    <2> QED BY <2>2, <2>3
  <1> QED BY <1>2, <1>3

LEMMA NetDistinct ==
  ASSUME IInv, fate = "run", ~changed
  PROVE  net \in Seq(IfT) /\ Distinct(net)
  BY DEF IInv, NetTypeOK, NetOk, Distinct

-----------------------------------------------------------------------------
(* Messages are read at the front and queued at the end. *)
LEMMA ReadOne ==
  ASSUME NEW ib \in Seq(MessageT), ib # <<>>
  PROVE  /\ Head(ib) \in MessageT /\ Tail(ib) \in Seq(MessageT)
         /\ (\A x \in DOMAIN ib : ib[x].mac = Mac[ib[x].if]) =>
              /\ Head(ib).mac = Mac[Head(ib).if]
              /\ \A x \in DOMAIN Tail(ib) : Tail(ib)[x].mac = Mac[Tail(ib)[x].if]
         /\ \A i : /\ Head(ib).if # i /\ NoneFor(i, Tail(ib)) => NoneFor(i, ib)
                   /\ NoneFor(i, ib) => NoneFor(i, Tail(ib)) /\ Head(ib).if # i
         /\ \A i, msg : LastFor(i, ib, msg) =>
              /\ LastFor(i, Tail(ib), msg)
              /\ Head(ib).if = i => ~Head(ib).del
              /\ Head(ib).if = i /\ NoneFor(i, Tail(ib)) => Head(ib) = msg
  <1> DEFINE h == Head(ib)
             t == Tail(ib)
  <1>1. /\ h = ib[1] /\ 1 \in DOMAIN ib /\ h \in MessageT
        /\ t \in Seq(MessageT) /\ Len(t) = Len(ib) - 1 /\ Len(ib) \in Nat
        /\ DOMAIN t = 1 .. Len(t) /\ DOMAIN ib = 1 .. Len(ib)
        /\ \A x \in DOMAIN t : t[x] = ib[x + 1] /\ x + 1 \in DOMAIN ib
    OBVIOUS
  <1>2. \A x \in DOMAIN ib : x = 1 \/ (x - 1 \in DOMAIN t /\ t[x - 1] = ib[x])
    BY <1>1
  <1> HIDE DEF h, t
  <1>3. (\A x \in DOMAIN ib : ib[x].mac = Mac[ib[x].if]) =>
          h.mac = Mac[h.if] /\ \A x \in DOMAIN t : t[x].mac = Mac[t[x].if]
    BY <1>1
  <1>4. ASSUME NEW i
        PROVE  /\ h.if # i /\ NoneFor(i, t) => NoneFor(i, ib)
               /\ NoneFor(i, ib) => NoneFor(i, t) /\ h.if # i
    BY <1>1, <1>2 DEF NoneFor
  <1>5. ASSUME NEW i, NEW msg, LastFor(i, ib, msg)
        PROVE  /\ LastFor(i, t, msg) /\ (h.if = i => ~h.del)
               /\ h.if = i /\ NoneFor(i, t) => h = msg
    <2>1. h.if = i => ~h.del
      BY <1>1, <1>5 DEF LastFor
    <2>2. ASSUME NEW x \in DOMAIN t, t[x].if = i
          PROVE  ~t[x].del /\ ((\A y \in DOMAIN t : y > x => t[y].if # i) => t[x] = msg)
      <3>1. x + 1 \in DOMAIN ib /\ ib[x + 1] = t[x]
        BY <1>1
      <3>2. ASSUME \A y \in DOMAIN t : y > x => t[y].if # i,
                   NEW y \in DOMAIN ib, y > x + 1
            PROVE  ib[y].if # i
        <4>1. y - 1 \in DOMAIN t /\ t[y - 1] = ib[y] /\ y - 1 > x
          BY <1>1, <1>2, <3>2
        <4> QED BY <3>2, <4>1
      <3> QED BY <1>5, <2>2, <3>1, <3>2 DEF LastFor
    <2>3. ASSUME h.if = i, NoneFor(i, t) PROVE h = msg
      <3>1. ASSUME NEW y \in DOMAIN ib, y > 1 PROVE ib[y].if # i
        BY <1>1, <1>2, <2>3, <3>1 DEF NoneFor
      <3> QED BY <1>1, <1>5, <2>3, <3>1 DEF LastFor
    <2> QED BY <2>1, <2>2, <2>3 DEF LastFor
  <1> QED BY <1>1, <1>3, <1>4, <1>5 DEF h, t

LEMMA QueueOne ==
  ASSUME NEW ib \in Seq(MessageT), NEW m \in MessageT
  PROVE  /\ Append(ib, m) \in Seq(MessageT)
         /\ (\A x \in DOMAIN ib : ib[x].mac = Mac[ib[x].if]) /\ m.mac = Mac[m.if] =>
              \A x \in DOMAIN Append(ib, m) : Append(ib, m)[x].mac = Mac[Append(ib, m)[x].if]
         /\ \A i : /\ m.if = i => ~NoneFor(i, Append(ib, m))
                   /\ NoneFor(i, Append(ib, m)) => NoneFor(i, ib)
                   /\ m.if # i /\ NoneFor(i, ib) => NoneFor(i, Append(ib, m))
         /\ \A i, msg : LastFor(i, ib, msg) =>
              /\ m.if # i => LastFor(i, Append(ib, m), msg)
              /\ m.if = i /\ ~m.del => LastFor(i, Append(ib, m), m)
  <1> DEFINE t == Append(ib, m)
  <1>1. /\ t \in Seq(MessageT) /\ Len(t) = Len(ib) + 1 /\ Len(ib) \in Nat
        /\ DOMAIN t = 1 .. Len(t) /\ DOMAIN ib = 1 .. Len(ib) /\ t[Len(t)] = m
        /\ \A x \in DOMAIN ib : t[x] = ib[x]
    OBVIOUS
  <1> HIDE DEF t
  <1>2. \A x \in DOMAIN t : x = Len(t) \/ x \in DOMAIN ib
    BY <1>1
  <1>3. (\A x \in DOMAIN ib : ib[x].mac = Mac[ib[x].if]) /\ m.mac = Mac[m.if] =>
          \A x \in DOMAIN t : t[x].mac = Mac[t[x].if]
    BY <1>1, <1>2
  <1>4. Len(t) \in DOMAIN t /\ \A x \in DOMAIN ib : x \in DOMAIN t /\ Len(t) > x
    BY <1>1
  <1>5. ASSUME NEW i
        PROVE  /\ m.if = i => ~NoneFor(i, t)
               /\ NoneFor(i, t) => NoneFor(i, ib)
               /\ m.if # i /\ NoneFor(i, ib) => NoneFor(i, t)
    BY <1>1, <1>2, <1>4 DEF NoneFor
  <1>6. ASSUME NEW i, NEW msg, LastFor(i, ib, msg), m.if # i PROVE LastFor(i, t, msg)
    <2> SUFFICES ASSUME NEW x \in DOMAIN t, t[x].if = i
                 PROVE  ~t[x].del /\ ((\A y \in DOMAIN t : y > x => t[y].if # i) => t[x] = msg)
      BY DEF LastFor
    <2>1. x \in DOMAIN ib /\ t[x] = ib[x]
      BY <1>1, <1>2, <1>6
    <2>2. (\A y \in DOMAIN t : y > x => t[y].if # i) => \A y \in DOMAIN ib : y > x => ib[y].if # i
      BY <1>1, <1>4
    <2> QED BY <1>6, <2>1, <2>2 DEF LastFor
  <1>7. ASSUME NEW i, NEW msg, LastFor(i, ib, msg), m.if = i, ~m.del PROVE LastFor(i, t, m)
    <2> SUFFICES ASSUME NEW x \in DOMAIN t, t[x].if = i
                 PROVE  ~t[x].del /\ ((\A y \in DOMAIN t : y > x => t[y].if # i) => t[x] = m)
      BY DEF LastFor
    <2>1. CASE x = Len(t)
      BY <1>1, <1>7, <2>1
    <2>2. CASE x \in DOMAIN ib
      BY <1>1, <1>4, <1>7, <2>2 DEF LastFor
    <2> QED BY <1>2, <2>1, <2>2
  <1> QED BY <1>1, <1>3, <1>5, <1>6, <1>7 DEF t

-----------------------------------------------------------------------------
(* The list of interfaces: one is changed, added or taken out. *)
LEMMA ChangeOne ==
  ASSUME NEW n \in Seq(IfT), NEW at \in DOMAIN n, NEW r \in IfT
  PROVE  LET t == [n EXCEPT ![at] = r]
         IN  /\ t \in Seq(IfT) /\ DOMAIN t = DOMAIN n /\ t[at] = r
             /\ \A x \in DOMAIN n : x # at => t[x] = n[x]
  OBVIOUS

LEMMA AddOne ==
  ASSUME NEW n \in Seq(IfT), NEW r \in IfT
  PROVE  LET t == Append(n, r)
         IN  /\ t \in Seq(IfT) /\ Len(t) \in DOMAIN t /\ t[Len(t)] = r /\ Len(t) \notin DOMAIN n
             /\ \A x \in DOMAIN t : x = Len(t) \/ x \in DOMAIN n
             /\ \A x \in DOMAIN n : x \in DOMAIN t /\ t[x] = n[x]
  OBVIOUS

(* What the handler knows of an interface does not change when others do. *)
SameFor(i) == \A ready, s : Listed(net', i, ready, s) <=> Listed(net, i, ready, s)

LEMMA SeenKept ==
  ASSUME NEW i \in Ifs, Seen(i), SameFor(i), kernel'[i] = kernel[i], i \in udev' <=> i \in udev,
         conf' = conf, LastFor(i, inbox', Message(i, kernel)), NoneFor(i, inbox') => NoneFor(i, inbox)
  PROVE  Seen(i)'
  <1>1. Message(i, kernel') = Message(i, kernel)
    BY DEF Message
  <1>2. Ignored(Mac[i])' = Ignored(Mac[i])
    BY DEF Ignored, Manual
  <1>3. i \in udev' => ~kernel'[i].up /\ \A s : ~Listed(net', i, TRUE, s)
    BY Zenon DEF Seen, SameFor
  <1>4. i \notin udev' => \E s :
         /\ Listed(net', i, TRUE, s)
         /\ s = "ignored" \/ kernel'[i].up
         /\ NoneFor(i, inbox') => s = "ignored" \/ (kernel'[i].link => s = "configured")
    BY Zenon DEF Seen, SameFor
  <1>5. kernel'[i].up =>
         ~Ignored(Mac[i]) /\ \E ready, s : s # "ignored" /\ Listed(net', i, ready, s)
    BY DEF Seen, SameFor
  <1> QED BY <1>1, <1>2, <1>3, <1>4, <1>5, Zenon DEF Seen

-----------------------------------------------------------------------------
(* The list t has the interfaces of n, which may have been named, and have *)
(* another device, state or other clients.                                 *)
Alike(n, t) ==
    /\ t \in Seq(IfT) /\ DOMAIN t = DOMAIN n
    /\ \A x \in DOMAIN n : t[x].if = n[x].if /\ t[x].mac = n[x].mac /\ (n[x].ready => t[x].ready)

LEMMA NetOkAlike ==
  ASSUME NEW n \in Seq(IfT), NEW t, NEW ds, NEW tm, NEW cl, NEW es, NEW um, NEW dl,
         NetOk(n, ds, tm, cl), Alike(n, t),
         \A x \in DOMAIN n :
            /\ t[x].dev = IF t[x].mac \in es THEN t[x].mac ELSE "null"
            /\ t[x].state # "new" \/ t[x].p4 # 0 \/ t[x].p6 # 0 => Named(t[x]),
         \A m \in um : m \in es /\ (m \in tm \/ \E x \in DOMAIN n : t[x].mac = m /\ Named(t[x])),
         \A c \in Clients : dl[c].own \in {0, cl[c].own}
                            \/ \E x \in DOMAIN n : t[x].if = dl[c].own /\ Named(t[x])
  PROVE  NetOk(t, es, um, dl)
  <1>1. \A x \in DOMAIN n : Named(n[x]) => Named(t[x])
    BY DEF Alike, Named
  <1>2. \A x \in DOMAIN t : t[x].mac = Mac[t[x].if]
    BY DEF Alike, NetOk
  <1>3. \A x, y \in DOMAIN t : t[x].mac = t[y].mac => x = y
    BY DEF Alike, NetOk
  <1>4. \A m \in um : m \in es /\ \E x \in DOMAIN t : t[x].mac = m /\ Named(t[x])
    BY <1>1 DEF Alike, NetOk
  <1>5. \A c \in Clients : dl[c].own # 0 =>
          \E x \in DOMAIN t : t[x].if = dl[c].own /\ Named(t[x])
    BY <1>1 DEF Alike, NetOk
  <1> QED BY <1>2, <1>3, <1>4, <1>5 DEF Alike, NetOk

(* configure_interface_dhcp() gives the interface clients of its own. *)
LEMMA StartDhcpOne ==
  ASSUME NEW n \in Seq(IfT), NEW at \in DOMAIN n, NEW cl \in [Clients -> ClientT],
         NEW ok4 \in BOOLEAN, NEW ok6 \in BOOLEAN, Room, StartDhcp(n, at, cl, ok4, ok6)
  PROVE  /\ client' \in [Clients -> ClientT]
         /\ \A c \in Clients : client'[c].own \in {cl[c].own, n[at].if}
         /\ net' \in Seq(IfT) /\ DOMAIN net' = DOMAIN n
         /\ \A x \in DOMAIN n : x # at => net'[x] = n[x]
         /\ net'[at].if = n[at].if /\ net'[at].mac = n[at].mac /\ net'[at].ready = n[at].ready
         /\ net'[at].dev = n[at].dev /\ net'[at].state = n[at].state
  <1> DEFINE four == CHOOSE c \in Free : TRUE
             six == IF ok4 THEN CHOOSE c \in Free \ {four} : TRUE ELSE four
             new == [own |-> n[at].if, st |-> "running", cb |-> TRUE, held |-> TRUE]
             r == [n[at] EXCEPT !.p4 = IF ok4 THEN four ELSE @, !.p6 = IF ok6 THEN six ELSE @]
  <1>1. four \in Clients /\ six \in Clients
    BY Zenon DEF Room, Free
  <1>2. n[at] \in IfT
    OBVIOUS
  <1>3. new \in ClientT /\ new.own = n[at].if
    BY <1>2 DEF ClientT, IfT
  <1>4. /\ client' = [c \in Clients |-> IF (ok4 /\ c = four) \/ (ok6 /\ c = six)
                                        THEN new ELSE cl[c]]
        /\ net' = [n EXCEPT ![at] = r]
    BY DEF StartDhcp
  <1> HIDE DEF four, six
  <1>5. /\ r \in IfT /\ r.if = n[at].if /\ r.mac = n[at].mac /\ r.ready = n[at].ready
        /\ r.dev = n[at].dev /\ r.state = n[at].state
    BY <1>1, <1>2, Zenon DEF IfT
  <1> HIDE DEF new, r
  <1>6. /\ client' \in [Clients -> ClientT]
        /\ \A c \in Clients : client'[c].own \in {cl[c].own, n[at].if}
    BY <1>3, <1>4
  <1>7. /\ net' \in Seq(IfT) /\ DOMAIN net' = DOMAIN n /\ net'[at] = r
        /\ \A x \in DOMAIN n : x # at => net'[x] = n[x]
    BY <1>4, <1>5, ChangeOne
  <1> QED BY <1>5, <1>6, <1>7

LEMMA MessageOf ==
  ASSUME NEW k \in [Ifs -> KernelT], NEW i \in Ifs
  PROVE  LET m == Message(i, k)
         IN  /\ m \in MessageT /\ m.if = i /\ m.mac = k[i].mac /\ m.up = k[i].up
             /\ m.link = k[i].link /\ (k[i].st # "gone" => ~m.del)
  BY Zenon DEF Message, MessageT, KernelT

(* configure_interface(): an interface that is ignored stays so; another    *)
(* one that is up and has a link is configured at once; one that is down is *)
(* ignored or brought up.                                                   *)
LEMMA ConfigureOne ==
  ASSUME NEW r \in IfT, NEW up \in BOOLEAN, NEW link \in BOOLEAN,
         conf \in [Macs -> {"dhcp", "static", "ignore", "none"}]
  PROVE  LET o == Configure(r, up, link)
         IN  /\ o.state \in {"new", "waiting", "configured", "ignored"}
             /\ o.do \in {"nothing", "up", "static", "dhcp"}
             /\ o.do = "static" => link
             /\ r.state = "ignored" => o.state = "ignored" /\ o.do = "nothing"
             /\ r.if \notin Lo /\ r.state # "ignored" /\ ~Ignored(r.mac) =>
                  /\ o.state # "ignored"
                  /\ up /\ link => o.state = "configured"
             /\ r.if \notin Lo /\ r.state = "new" /\ ~up =>
                  IF Ignored(r.mac) THEN o.state = "ignored" /\ o.do = "nothing"
                  ELSE o.state = "new" /\ o.do = "up"
  <1> DEFINE was == IF r.state # "configured" THEN r.state
                    ELSE IF ~up THEN "new" ELSE IF ~link THEN "waiting" ELSE "configured"
             o == Configure(r, up, link)
  <1>1. was \in {"new", "waiting", "configured", "ignored"}
    BY DEF IfT
  <1>2. CASE was \in {"ignored", "configured"}
    <2>1. o = Outcome(was, "nothing")
      BY <1>2 DEF Configure
    <2> QED BY <1>2, <2>1 DEF Outcome
  <1>3. CASE was \notin {"ignored", "configured"} /\ r.if \in Lo
    <2>1. o = Outcome("configured", IF was = "new" THEN "up" ELSE "nothing")
      BY <1>3 DEF Configure
    <2> QED BY <1>1, <1>3, <2>1 DEF Outcome
  <1>4. CASE was \notin {"ignored", "configured"} /\ r.if \notin Lo /\ Ignored(r.mac)
    <2>1. o = Outcome("ignored", "nothing")
      BY <1>4 DEF Configure, Ignored
    <2> QED BY <1>4, <2>1 DEF Outcome
  <1>5. CASE was \notin {"ignored", "configured"} /\ r.if \notin Lo /\ ~Ignored(r.mac)
    <2>1. CASE was = "new" /\ ~up
      <3>1. o = Outcome("new", "up")
        BY <1>5, <2>1 DEF Configure, Ignored
      <3> QED BY <1>5, <2>1, <3>1 DEF Outcome
    <2>2. CASE ~(was = "new" /\ ~up) /\ ~link
      <3>1. o = Outcome("waiting", "nothing")
        BY <1>5, <2>2 DEF Configure, Ignored
      <3> QED BY <1>5, <2>2, <3>1 DEF Outcome
    <2>3. CASE ~(was = "new" /\ ~up) /\ link
      <3>1. o = Outcome("configured", IF conf[r.mac] = "static" THEN "static" ELSE "dhcp")
        BY <1>5, <2>3 DEF Configure, Ignored
      <3>2. o.state = "configured" /\ o.do \in {"static", "dhcp"}
        BY <3>1 DEF Outcome
      <3>3. r.state # "ignored" /\ (r.state = "new" => up) /\ link
        BY <1>5, <2>3
      <3> QED BY <1>5, <3>2, <3>3, Zenon
    <2> QED BY <2>1, <2>2, <2>3
  <1> QED BY <1>2, <1>3, <1>4, <1>5

(* interface_up() changes one flag, and queues one message if it does. *)
LEMMA SetUpOne ==
  ASSUME kernel \in [Ifs -> KernelT], NEW i \in Ifs, NEW ok \in BOOLEAN, NEW q, SetUp(i, ok, q)
  PROVE  \/ UNCHANGED kernel /\ inbox' = q /\ (~ok \/ kernel[i].st # "here" \/ kernel[i].up)
         \/ /\ ok /\ kernel[i].st = "here" /\ ~kernel[i].up
            /\ kernel' \in [Ifs -> KernelT] /\ inbox' = Append(q, Message(i, kernel'))
            /\ \A j \in Ifs : j # i => kernel'[j] = kernel[j]
            /\ kernel'[i].up /\ kernel'[i].st = "here" /\ kernel'[i].mac = kernel[i].mac
            /\ kernel'[i].link = kernel[i].link
  <1> DEFINE k == [kernel[i] EXCEPT !.up = TRUE]
  <1>1. CASE ok /\ kernel[i].st = "here" /\ ~kernel[i].up
    <2>1. kernel' = [kernel EXCEPT ![i] = k] /\ inbox' = Append(q, Message(i, kernel'))
      BY <1>1 DEF SetUp
    <2>2. k \in KernelT /\ k.up /\ k.st = kernel[i].st /\ k.mac = kernel[i].mac /\ k.link = kernel[i].link
      BY Zenon DEF KernelT
    <2> HIDE DEF k
    <2>3. /\ kernel' \in [Ifs -> KernelT] /\ kernel'[i] = k
          /\ \A j \in Ifs : j # i => kernel'[j] = kernel[j]
      BY <2>1, <2>2
    <2> QED BY <1>1, <2>1, <2>2, <2>3
  <1>2. CASE ~(ok /\ kernel[i].st = "here" /\ ~kernel[i].up)
    BY <1>2, SMTT(30) DEF SetUp
  <1> QED BY <1>1, <1>2

(* What configure_interface() leaves: the list with one interface's state   *)
(* and clients set, and the kernel and its messages as they were or with    *)
(* that interface up.                                                       *)
Applied(n, at, up, link, q, ok, ok4, ok6) ==
    LET o == Configure(n[at], up, link)
        i == n[at].if
    IN  /\ Alike(n, net') /\ net'[at].state = o.state
        /\ \A x \in DOMAIN n : /\ net'[x].ready = n[x].ready /\ net'[x].dev = n[x].dev
                               /\ x # at => net'[x] = n[x]
        /\ client' \in [Clients -> ClientT]
        /\ \A c \in Clients : client'[c].own \in {client[c].own, i}
        /\ faults' \in Nat /\ (faults' = 0 => faults = 0 /\ ok /\ ok4 /\ ok6)
        /\ timer' = timer \/ (timer' = timer \cup {n[at].dev} /\ link)
        /\ \/ /\ UNCHANGED kernel /\ inbox' = q
              /\ o.do # "up" \/ ~ok \/ kernel[i].st # "here" \/ kernel[i].up
           \/ /\ o.do \in {"up", "static"} /\ kernel[i].st = "here" /\ ~kernel[i].up
              /\ kernel' \in [Ifs -> KernelT] /\ inbox' = Append(q, Message(i, kernel'))
              /\ \A j \in Ifs : j # i => kernel'[j] = kernel[j]
              /\ kernel'[i].up /\ kernel'[i].st = "here" /\ kernel'[i].mac = kernel[i].mac
              /\ kernel'[i].link = kernel[i].link

LEMMA ApplyOne ==
  ASSUME NetTypeOK, NEW n \in Seq(IfT), NEW at \in DOMAIN n, NEW up \in BOOLEAN,
         NEW link \in BOOLEAN, NEW q, NEW ok \in BOOLEAN, NEW ok4 \in BOOLEAN, NEW ok6 \in BOOLEAN,
         Apply(n, at, up, link, q, ok, ok4, ok6)
  PROVE  Applied(n, at, up, link, q, ok, ok4, ok6)
  <1> DEFINE o == Configure(n[at], up, link)
             i == n[at].if
             r == [n[at] EXCEPT !.state = o.state]
             m == [n EXCEPT ![at] = r]
  <1>1. n[at] \in IfT
    OBVIOUS
  <1>2. i \in Ifs
    BY <1>1 DEF IfT
  <1>3. /\ o.state \in {"new", "waiting", "configured", "ignored"}
        /\ o.do \in {"nothing", "up", "static", "dhcp"} /\ (o.do = "static" => link)
    BY <1>1, ConfigureOne DEF NetTypeOK
  <1>4. /\ faults' = IF ok /\ ok4 /\ ok6 THEN faults ELSE faults + 1
        /\ IF o.do \in {"up", "static"} THEN SetUp(i, ok, q) ELSE UNCHANGED kernel /\ inbox' = q
        /\ timer' = IF o.do = "static" /\ ok THEN timer \cup {n[at].dev} ELSE timer
        /\ IF o.do = "dhcp" THEN Room /\ StartDhcp(m, at, client, ok4, ok6)
           ELSE net' = m /\ UNCHANGED client
    BY DEF Apply
  <1> HIDE DEF o
  <1>5. /\ r \in IfT /\ r.state = o.state /\ r.if = i /\ r.mac = n[at].mac /\ r.ready = n[at].ready
        /\ r.dev = n[at].dev
    BY <1>1, <1>3 DEF IfT
  <1> HIDE DEF r, i
  <1>6. /\ m \in Seq(IfT) /\ DOMAIN m = DOMAIN n /\ m[at] = r
        /\ \A x \in DOMAIN n : x # at => m[x] = n[x]
    BY <1>5, ChangeOne
  <1> HIDE DEF m
  <1>7. /\ net' \in Seq(IfT) /\ DOMAIN net' = DOMAIN n /\ client' \in [Clients -> ClientT]
        /\ \A c \in Clients : client'[c].own \in {client[c].own, i}
        /\ \A x \in DOMAIN n : x # at => net'[x] = n[x]
        /\ net'[at].if = r.if /\ net'[at].mac = r.mac /\ net'[at].ready = r.ready
        /\ net'[at].dev = r.dev /\ net'[at].state = r.state
    <2>1. client \in [Clients -> ClientT]
      BY DEF NetTypeOK
    <2>2. CASE o.do = "dhcp"
      <3>1. Room /\ StartDhcp(m, at, client, ok4, ok6)
        BY <1>4, <2>2
      <3>2. /\ client' \in [Clients -> ClientT]
            /\ \A c \in Clients : client'[c].own \in {client[c].own, m[at].if}
            /\ net' \in Seq(IfT) /\ DOMAIN net' = DOMAIN m
            /\ \A x \in DOMAIN m : x # at => net'[x] = m[x]
            /\ net'[at].if = m[at].if /\ net'[at].mac = m[at].mac /\ net'[at].ready = m[at].ready
            /\ net'[at].dev = m[at].dev /\ net'[at].state = m[at].state
        BY <1>6, <2>1, <3>1, StartDhcpOne
      <3> QED BY <1>5, <1>6, <3>2
    <2>3. CASE o.do # "dhcp"
      BY <1>4, <1>6, <2>1, <2>3
    <2> QED BY <2>2, <2>3
  <1>8. /\ Alike(n, net') /\ net'[at].state = o.state
        /\ \A x \in DOMAIN n : /\ net'[x].ready = n[x].ready /\ net'[x].dev = n[x].dev
                               /\ x # at => net'[x] = n[x]
    BY <1>5, <1>7, SMTT(30) DEF Alike, i
  <1>9. faults' \in Nat /\ (faults' = 0 => faults = 0 /\ ok /\ ok4 /\ ok6)
    BY <1>4 DEF NetTypeOK
  <1>10. \/ /\ UNCHANGED kernel /\ inbox' = q
            /\ o.do # "up" \/ ~ok \/ kernel[i].st # "here" \/ kernel[i].up
         \/ /\ o.do \in {"up", "static"} /\ kernel[i].st = "here" /\ ~kernel[i].up
            /\ kernel' \in [Ifs -> KernelT] /\ inbox' = Append(q, Message(i, kernel'))
            /\ \A j \in Ifs : j # i => kernel'[j] = kernel[j]
            /\ kernel'[i].up /\ kernel'[i].st = "here" /\ kernel'[i].mac = kernel[i].mac
            /\ kernel'[i].link = kernel[i].link
    <2>1. CASE o.do \in {"up", "static"}
      <3>1. SetUp(i, ok, q) /\ kernel \in [Ifs -> KernelT]
        BY <1>4, <2>1 DEF NetTypeOK
      <3> QED BY <1>2, <2>1, <3>1, SetUpOne, SMTT(30)
    <2>2. CASE o.do \notin {"up", "static"}
      BY <1>4, <2>2
    <2> QED BY <2>1, <2>2
  <1>11. timer' = timer \/ (timer' = timer \cup {n[at].dev} /\ link)
    BY <1>3, <1>4
  <1> QED BY <1>7, <1>8, <1>9, <1>10, <1>11 DEF Applied, o, i

(* The interfaces as they are when i has been looked up, at `at', or has    *)
(* been added there with the address m.                                     *)
Enters(n, at, i, m) ==
    /\ n \in Seq(IfT) /\ at \in DOMAIN n /\ n[at].if = i /\ DOMAIN net \subseteq DOMAIN n
    /\ \A x \in DOMAIN n : x # at => x \in DOMAIN net /\ n[x] = net[x]
    /\ at \in DOMAIN net => n[at] = net[at]
    /\ at \notin DOMAIN net =>
         /\ n[at].mac = m /\ n[at].dev = m /\ n[at].state = "new" /\ ~n[at].ready
         /\ n[at].p4 = 0 /\ n[at].p6 = 0
         /\ \A x \in DOMAIN net : net[x].if # i /\ net[x].mac # m

LEMMA EnterOne ==
  ASSUME net \in Seq(IfT), Distinct(net), NEW i \in Ifs, NEW m \in Macs, NEW name \in {0, 1},
         ByIndex(net, i) # 0 \/ ByMac(net, m) = 0
  PROVE  LET n == IF ByIndex(net, i) = 0 THEN Append(net, NewInterface(i, m, name)) ELSE net
             at == ByIndex(n, i)
         IN  Enters(n, at, i, m) /\ (at \in DOMAIN net <=> ByIndex(net, i) # 0)
  <1> DEFINE r == NewInterface(i, m, name)
             n == IF ByIndex(net, i) = 0 THEN Append(net, r) ELSE net
             at == ByIndex(n, i)
  <1>1. /\ r \in IfT /\ r.if = i /\ r.mac = m /\ r.dev = m /\ r.state = "new" /\ ~r.ready
        /\ r.p4 = 0 /\ r.p6 = 0
    BY DEF NewInterface, IfT
  <1> HIDE DEF r
  <1>2. CASE ByIndex(net, i) = 0
    <2> DEFINE t == Append(net, r)
    <2>1. /\ t \in Seq(IfT) /\ Len(t) \in DOMAIN t /\ t[Len(t)] = r /\ Len(t) \notin DOMAIN net
          /\ \A x \in DOMAIN t : x = Len(t) \/ x \in DOMAIN net
          /\ \A x \in DOMAIN net : x \in DOMAIN t /\ t[x] = net[x]
      BY <1>1, AddOne
    <2>2. \A x \in DOMAIN net : net[x].if # i /\ net[x].mac # m
      BY <1>2, Lookup
    <2>3. n = t
      BY <1>2
    <2> HIDE DEF t, n
    <2>4. at = Len(t)
      <3>1. \/ at = 0 /\ \A x \in DOMAIN t : t[x].if # i
            \/ at \in DOMAIN t /\ t[at].if = i
        <4>1. Distinct(t)
          BY <1>1, <2>1, <2>2 DEF Distinct
        <4> QED BY <2>1, <2>3, <4>1, Lookup
      <3>2. at \in DOMAIN t /\ t[at].if = i
        BY <1>1, <2>1, <3>1
      <3> QED BY <2>1, <2>2, <3>2
    <2> HIDE DEF at
    <2>5. Enters(n, at, i, m) /\ at \notin DOMAIN net
      BY <1>1, <2>1, <2>2, <2>3, <2>4 DEF Enters
    <2> QED BY <1>2, <2>5 DEF n, at, r
  <1>3. CASE ByIndex(net, i) # 0
    <2>1. n = net
      BY <1>3
    <2>2. at \in DOMAIN net /\ net[at].if = i
      BY <1>3, <2>1, Lookup
    <2> HIDE DEF n, at
    <2>3. Enters(n, at, i, m)
      BY <2>1, <2>2 DEF Enters
    <2> QED BY <1>3, <2>2, <2>3 DEF n, at, r
  <1> QED BY <1>2, <1>3

(* An interface that is looked up or added, and points to its device,      *)
(* agrees with the devices.                                                 *)
LEMMA EnteredOk ==
  ASSUME NEW i \in Ifs, NEW n, NEW at, Enters(n, at, i, Mac[i]), NetOk(net, devs, timer, client),
         NEW es, devs \subseteq es, es \subseteq devs \cup {Mac[i]},
         NEW r \in IfT, r.if = i, r.mac = Mac[i],
         r.dev = IF Mac[i] \in es THEN Mac[i] ELSE "null", r.state = n[at].state,
         r.p4 = n[at].p4, r.p6 = n[at].p6, n[at].ready => r.ready
  PROVE  LET t == [n EXCEPT ![at] = r]
         IN  /\ t \in Seq(IfT) /\ DOMAIN t = DOMAIN n /\ t[at] = r
             /\ \A x \in DOMAIN n : x # at => t[x] = n[x]
             /\ NetOk(t, es, timer, client)
  <1> DEFINE t == [n EXCEPT ![at] = r]
  <1>1. /\ t \in Seq(IfT) /\ DOMAIN t = DOMAIN n /\ t[at] = r
        /\ \A x \in DOMAIN n : x # at => t[x] = n[x]
    BY ChangeOne DEF Enters
  <1> HIDE DEF t
  <1>2. ASSUME NEW x \in DOMAIN t, x # at
        PROVE  x \in DOMAIN net /\ t[x] = net[x] /\ t[x].mac # Mac[i]
    <2>1. x \in DOMAIN net /\ t[x] = net[x]
      BY <1>1, <1>2 DEF Enters
    <2>2. CASE at \in DOMAIN net
      <3>1. net[at].if = i /\ net[at].mac = Mac[i]
        BY <2>2 DEF Enters, NetOk
      <3> QED BY <1>2, <2>1, <2>2, <3>1 DEF NetOk
    <2>3. CASE at \notin DOMAIN net
      BY <2>1, <2>3 DEF Enters
    <2> QED BY <2>1, <2>2, <2>3
  <1>3. at \in DOMAIN net => net[at].if = i /\ (Named(net[at]) => Named(r)) /\ net[at].mac = Mac[i]
    BY DEF Enters, Named, NetOk
  <1>4. r.state # "new" \/ r.p4 # 0 \/ r.p6 # 0 => Named(r)
    <2>1. CASE at \in DOMAIN net
      BY <1>3, <2>1 DEF Enters, NetOk
    <2>2. CASE at \notin DOMAIN net
      BY <2>2 DEF Enters
    <2> QED BY <2>1, <2>2
  <1>5. \A x \in DOMAIN t :
          /\ t[x].mac = Mac[t[x].if] /\ t[x].dev = IF t[x].mac \in es THEN t[x].mac ELSE "null"
          /\ t[x].state # "new" \/ t[x].p4 # 0 \/ t[x].p6 # 0 => Named(t[x])
    <2>1. ASSUME NEW x \in DOMAIN t, x # at
          PROVE  /\ t[x].mac = Mac[t[x].if] /\ t[x].dev = IF t[x].mac \in es THEN t[x].mac ELSE "null"
                 /\ t[x].state # "new" \/ t[x].p4 # 0 \/ t[x].p6 # 0 => Named(t[x])
      <3>1. t[x].mac \in es <=> t[x].mac \in devs
        BY <1>2, <2>1
      <3> QED BY <1>2, <2>1, <3>1 DEF NetOk
    <2> QED BY <1>1, <1>4, <2>1
  <1>6. \A x, y \in DOMAIN t : t[x].mac = t[y].mac => x = y
    BY <1>1, <1>2 DEF NetOk
  <1>7. \A x \in DOMAIN net : x \in DOMAIN t /\ t[x].mac = net[x].mac /\ t[x].if = net[x].if
                              /\ (Named(net[x]) => Named(t[x]))
    <2>1. \A x \in DOMAIN net : x \in DOMAIN t
      BY <1>1 DEF Enters
    <2> QED BY <1>1, <1>2, <1>3, <2>1
  <1>8. \A m \in timer : m \in es /\ \E x \in DOMAIN t : t[x].mac = m /\ Named(t[x])
    BY <1>7 DEF NetOk
  <1>9. \A c \in Clients : client[c].own # 0 =>
          \E x \in DOMAIN t : t[x].if = client[c].own /\ Named(t[x])
    BY <1>7 DEF NetOk
  <1>10. NetOk(t, es, timer, client)
    BY <1>5, <1>6, <1>8, <1>9, SMTT(30) DEF NetOk
  <1> QED BY <1>1, <1>10 DEF t

LEMMA AppliedOk ==
  ASSUME NEW n \in Seq(IfT), NEW at \in DOMAIN n, NEW up \in BOOLEAN,
         NEW link \in BOOLEAN, NEW q, NEW ok \in BOOLEAN, NEW ok4 \in BOOLEAN, NEW ok6 \in BOOLEAN,
         Applied(n, at, up, link, q, ok, ok4, ok6), NEW es, NetOk(n, es, timer, client),
         es \subseteq Macs, Named(n[at]), link => n[at].dev \in es
  PROVE  NetOk(net', es, timer', client')
  <1>1. /\ Alike(n, net')
        /\ \A x \in DOMAIN n : /\ net'[x].ready = n[x].ready /\ net'[x].dev = n[x].dev
                               /\ x # at => net'[x] = n[x]
        /\ \A c \in Clients : client'[c].own \in {client[c].own, n[at].if}
        /\ timer' = timer \/ (timer' = timer \cup {n[at].dev} /\ link)
    BY DEF Applied
  <1>2. Named(net'[at]) /\ net'[at].if = n[at].if /\ net'[at].mac = n[at].mac
    BY <1>1 DEF Alike, Named
  <1>3. ASSUME NEW x \in DOMAIN n
        PROVE  /\ net'[x].dev = IF net'[x].mac \in es THEN net'[x].mac ELSE "null"
               /\ net'[x].state # "new" \/ net'[x].p4 # 0 \/ net'[x].p6 # 0 => Named(net'[x])
    <2>1. net'[x].dev = IF net'[x].mac \in es THEN net'[x].mac ELSE "null"
      BY <1>1 DEF Alike, NetOk
    <2>2. CASE x = at
      BY <1>2, <2>1, <2>2
    <2>3. CASE x # at
      BY <1>1, <2>1, <2>3 DEF NetOk
    <2> QED BY <2>2, <2>3
  <1>4. ASSUME NEW m \in timer'
        PROVE  m \in es /\ (m \in timer \/ \E x \in DOMAIN n : net'[x].mac = m /\ Named(net'[x]))
    <2>1. CASE m \in timer
      BY <2>1 DEF NetOk
    <2>2. CASE m \notin timer
      <3>1. m = n[at].dev /\ m \in es
        BY <1>1, <1>4, <2>2
      <3>2. \/ n[at].dev = n[at].mac
            \/ n[at].dev = "null" /\ n[at].mac \notin es
        BY DEF NetOk
      <3>3. CASE n[at].dev = n[at].mac
        BY <1>2, <3>1, <3>3
      <3>4. CASE n[at].dev # n[at].mac
        BY <3>1, <3>2, <3>4, NetAssumption
      <3> QED BY <3>3, <3>4
    <2> QED BY <2>1, <2>2
  <1>5. \A c \in Clients : client'[c].own \in {0, client[c].own}
                           \/ \E x \in DOMAIN n : net'[x].if = client'[c].own /\ Named(net'[x])
    BY <1>1, <1>2
  <1> QED BY <1>1, <1>3, <1>4, <1>5, NetOkAlike, SMTT(30)

(* The list differs from what it was at most at `at', where i is. *)
Only(at, i) ==
    /\ DOMAIN net \subseteq DOMAIN net' /\ at \in DOMAIN net' /\ net'[at].if = i
    /\ \A x \in DOMAIN net' : x # at => x \in DOMAIN net /\ net'[x] = net[x]
    /\ at \in DOMAIN net => net[at].if = i

LEMMA OnlySame ==
  ASSUME NEW at, NEW i, Only(at, i)
  PROVE  /\ \A j : j # i => SameFor(j)
         /\ \A x \in DOMAIN net' : net'[x].if = i \/ \E y \in DOMAIN net : net[y].if = net'[x].if
  BY DEF Only, SameFor, Listed

(* A step does not touch what is known of interfaces other than i. *)
OthersAlike(i) ==
    /\ \A j \in Ifs : j # i =>
         /\ SameFor(j) /\ kernel'[j] = kernel[j] /\ (j \in udev' <=> j \in udev)
         /\ NoneFor(j, inbox) <=> NoneFor(j, inbox')
         /\ \A msg : LastFor(j, inbox, msg) => LastFor(j, inbox', msg)
    /\ \A x \in DOMAIN net' : net'[x].if = i \/ \E y \in DOMAIN net : net[y].if = net'[x].if

(* When one interface is handled, what is known of the others stays. *)
LEMMA OthersTold ==
  ASSUME Told, NEW i \in Ifs, UNCHANGED <<conf, deaf>>,
         OthersAlike(i), kernel[i].st # "absent", kernel'[i].st = kernel[i].st,
         Alone(i) /\ kernel[i].st = "here" => Seen(i)'
  PROVE  Told'
  <1>0. /\ \A j \in Ifs : j # i =>
             /\ SameFor(j) /\ kernel'[j] = kernel[j] /\ (j \in udev' <=> j \in udev)
             /\ NoneFor(j, inbox) <=> NoneFor(j, inbox')
             /\ \A msg : LastFor(j, inbox, msg) => LastFor(j, inbox', msg)
        /\ \A x \in DOMAIN net' : net'[x].if = i \/ \E y \in DOMAIN net : net[y].if = net'[x].if
    BY DEF OthersAlike
  <1>1. ASSUME NEW j \in Ifs, kernel'[j].st = "absent" PROVE Unseen(j)'
    <2>1. j # i /\ kernel[j].st = "absent"
      BY <1>0, <1>1
    <2>2. Unseen(j)
      BY <2>1 DEF Told
    <2> QED BY <1>0, <2>1, <2>2 DEF Unseen
  <1>2. ASSUME NEW j \in Ifs, Alone(j), kernel'[j].st = "here" PROVE Seen(j)'
    <2>1. CASE j = i
      BY <1>2, <2>1
    <2>2. CASE j # i
      <3>1. Seen(j)
        BY <1>0, <1>2, <2>2, SMTT(30) DEF Told
      <3>2. LastFor(j, inbox', Message(j, kernel))
        BY <1>0, <2>2, <3>1, SMTT(30) DEF Seen
      <3> QED BY <1>0, <2>2, <3>1, <3>2, SeenKept, SMTT(30)
    <2> QED BY <2>1, <2>2
  <1>3. \A j \in Ifs : Alone(j)' = Alone(j)
    BY DEF Alone
  <1> QED BY <1>1, <1>2, <1>3 DEF Told

(* The kernel queues the message m, or does not. *)
LEMMA MaybeQueued ==
  ASSUME NEW ib \in Seq(MessageT), NEW m \in MessageT, NEW t, t = ib \/ t = Append(ib, m)
  PROVE  /\ t \in Seq(MessageT)
         /\ (\A x \in DOMAIN ib : ib[x].mac = Mac[ib[x].if]) /\ m.mac = Mac[m.if] =>
              \A x \in DOMAIN t : t[x].mac = Mac[t[x].if]
         /\ \A j : m.if # j =>
              /\ NoneFor(j, ib) <=> NoneFor(j, t)
              /\ \A msg : LastFor(j, ib, msg) => LastFor(j, t, msg)
  <1> DEFINE a == Append(ib, m)
  <1>1. /\ a \in Seq(MessageT)
        /\ (\A x \in DOMAIN ib : ib[x].mac = Mac[ib[x].if]) /\ m.mac = Mac[m.if] =>
             \A x \in DOMAIN a : a[x].mac = Mac[a[x].if]
        /\ \A j : m.if # j =>
             /\ NoneFor(j, ib) <=> NoneFor(j, a)
             /\ \A msg : LastFor(j, ib, msg) => LastFor(j, a, msg)
    BY QueueOne, Zenon
  <1>2. t = ib \/ t = a
    OBVIOUS
  <1> HIDE DEF a
  <1>3. CASE t = ib
    BY <1>3
  <1>4. CASE t = a
    BY <1>1, <1>4
  <1> QED BY <1>2, <1>3, <1>4, SMTT(30)

(* An interface has one place in the list. *)
LEMMA OnePlace ==
  ASSUME NEW n, NEW ds, NEW tm, NEW cl, NetOk(n, ds, tm, cl), NEW at \in DOMAIN n
  PROVE  \A x \in DOMAIN n : n[x].if = n[at].if => x = at
  BY DEF NetOk

LEMMA ListedAt ==
  ASSUME NEW n, NEW ds, NEW tm, NEW cl, NetOk(n, ds, tm, cl), NEW at \in DOMAIN n,
         NEW i, n[at].if = i
  PROVE  \A ready, s : Listed(n, i, ready, s) => n[at].ready = ready /\ n[at].state = s
  BY OnePlace DEF Listed

(* An interface that has been looked up, or added, has the device of its    *)
(* address when the message has been dealt with.                            *)
LEMMA DeviceEntered ==
  ASSUME NEW i \in Ifs, NEW n, NEW at, Enters(n, at, i, Mac[i]), NetOk(net, devs, timer, client),
         NEW es, devs \subseteq es, Mac[i] # "null",
         at \notin DOMAIN net \/ n[at].dev = "null" => Mac[i] \in es
  PROVE  /\ Mac[i] = IF n[at].dev = "null" THEN Mac[i] ELSE n[at].dev
         /\ Mac[i] \in es
  <1>1. CASE at \notin DOMAIN net
    BY <1>1 DEF Enters
  <1>2. CASE at \in DOMAIN net
    <2>1. n[at] = net[at] /\ net[at].if = i
      BY <1>2 DEF Enters
    <2>2. n[at].dev = IF Mac[i] \in devs THEN Mac[i] ELSE "null"
      BY <1>2, <2>1 DEF NetOk
    <2> QED BY <2>2
  <1> QED BY <1>1, <1>2

(* What is known of an interface before a message about it is read. *)
LEMMA KnownBefore ==
  ASSUME NEW i \in Ifs, NEW n, NEW at, NEW m, Enters(n, at, i, m),
         NetOk(net, devs, timer, client), Seen(i)
  PROVE  /\ i \in udev <=> ~n[at].ready
         /\ \A ready, s : Listed(net, i, ready, s) => n[at].ready = ready /\ n[at].state = s
  <1>1. \A ready, s : Listed(net, i, ready, s) => n[at].ready = ready /\ n[at].state = s
    <2>1. CASE at \in DOMAIN net
      <3>1. n[at] = net[at] /\ net[at].if = i
        BY <2>1 DEF Enters
      <3> QED BY <2>1, <3>1, ListedAt
    <2>2. CASE at \notin DOMAIN net
      BY <2>2 DEF Enters, Listed
    <2> QED BY <2>1, <2>2
  <1>2. ASSUME i \in udev PROVE ~n[at].ready
    <2>1. CASE at \in DOMAIN net
      <3>1. n[at] = net[at] /\ net[at].if = i /\ n[at] \in IfT
        BY <2>1 DEF Enters
      <3>2. \A s : ~Listed(net, i, TRUE, s)
        BY <1>2, Zenon DEF Seen
      <3>3. net[at].ready # TRUE
        BY <2>1, <3>1, <3>2, Zenon DEF Listed
      <3>4. net[at].ready \in BOOLEAN
        BY <3>1 DEF IfT
      <3> QED BY <3>1, <3>3, <3>4, Zenon
    <2>2. CASE at \notin DOMAIN net
      BY <2>2 DEF Enters
    <2> QED BY <2>1, <2>2
  <1>3. ASSUME i \notin udev PROVE n[at].ready
    BY <1>1, <1>3, Zenon DEF Seen
  <1> QED BY <1>1, <1>2, <1>3

(* A message about an interface that udev has not named leaves it alone. *)
LEMMA SeenWaiting ==
  ASSUME NEW i \in Ifs, Seen(i), i \in udev, UNCHANGED <<kernel, udev>>,
         NetOk(net', devs', timer', client'), NEW at \in DOMAIN net', net'[at].if = i,
         ~net'[at].ready, \A m : LastFor(i, inbox, m) => LastFor(i, inbox', m)
  PROVE  Seen(i)'
  <1>1. ~kernel'[i].up /\ i \in udev'
    BY DEF Seen
  <1>2. Message(i, kernel') = Message(i, kernel)
    OBVIOUS
  <1>3. LastFor(i, inbox', Message(i, kernel'))
    BY <1>2 DEF Seen
  <1>4. \A ready, s : Listed(net', i, ready, s) => net'[at].ready = ready /\ net'[at].state = s
    BY ListedAt, Zenon
  <1>5. \A s : ~Listed(net', i, TRUE, s)
    BY <1>4, Zenon
  <1> QED BY <1>1, <1>3, <1>5, Zenon DEF Seen

(* A message about an interface that is named is applied: the interface is  *)
(* as before, r, but for the state.                                         *)
MessageApplied(i, r, msg, q, o, at) ==
    /\ i \in Ifs /\ i \notin Lo /\ r \in IfT /\ r.if = i /\ r.mac = Mac[i] /\ ~NotReady(r)
    /\ i \in udev <=> ~r.ready
    /\ \A ready, s : Listed(net, i, ready, s) => r.ready = ready /\ r.state = s
    /\ msg.up \in BOOLEAN /\ msg.link \in BOOLEAN
    /\ \A m : LastFor(i, inbox, m) => LastFor(i, q, m) /\ (NoneFor(i, q) => msg = m)
    /\ o = Configure(r, msg.up, msg.link)
    /\ kernel[i].up \/ o.do = "nothing" => UNCHANGED kernel /\ inbox' = q
    /\ at \in DOMAIN net' /\ net'[at].if = i /\ net'[at].ready = r.ready
    /\ net'[at].state = o.state

LEMMA SeenApplied ==
  ASSUME NEW i, NEW r, NEW msg, NEW q, NEW o, NEW at, MessageApplied(i, r, msg, q, o, at),
         Seen(i), UNCHANGED <<conf, udev>>,
         conf \in [Macs -> {"dhcp", "static", "ignore", "none"}]
  PROVE  Seen(i)'
  <1> USE DEF MessageApplied
  <1>1. r.ready /\ i \notin udev
    BY DEF NotReady
  <1>2. r.ready = TRUE /\ (r.state = "ignored" \/ kernel[i].up)
    BY <1>1, Zenon DEF Seen
  <1>3. kernel[i].up => ~Ignored(Mac[i]) /\ r.state # "ignored"
    BY SMTT(30) DEF Seen
  <1>4. /\ r.state = "ignored" => o.state = "ignored" /\ o.do = "nothing"
        /\ r.if \notin Lo /\ r.state # "ignored" /\ ~Ignored(r.mac) =>
             /\ o.state # "ignored"
             /\ msg.up /\ msg.link => o.state = "configured"
    BY ConfigureOne, SMTT(30)
  <1>5. /\ kernel[i].up => o.state # "ignored"
        /\ kernel[i].up /\ msg.up /\ msg.link => o.state = "configured"
    BY <1>3, <1>4, SMTT(30)
  <1>6. UNCHANGED kernel /\ inbox' = q
    BY <1>2, <1>4
  <1>7. Listed(net', i, TRUE, o.state)
    BY <1>2, Zenon DEF Listed
  <1>8. LastFor(i, inbox', Message(i, kernel')) /\ LastFor(i, inbox, Message(i, kernel))
    BY <1>6 DEF Seen
  <1>9. NoneFor(i, inbox') /\ kernel[i].up /\ kernel[i].link => o.state = "configured"
    <2>1. NoneFor(i, q) => msg = Message(i, kernel)
      BY <1>8, SMTT(30)
    <2>2. Message(i, kernel).up = kernel[i].up /\ Message(i, kernel).link = kernel[i].link
      BY Zenon DEF Message
    <2> QED BY <1>5, <1>6, <2>1, <2>2, Zenon
  <1>10. Ignored(Mac[i])' = Ignored(Mac[i])
    BY DEF Ignored, Manual
  <1>11. \E s : /\ Listed(net', i, TRUE, s)
                /\ s = "ignored" \/ kernel'[i].up
                /\ NoneFor(i, inbox') => s = "ignored" \/ (kernel'[i].link => s = "configured")
    BY <1>2, <1>4, <1>6, <1>7, <1>9, Zenon
  <1>12. kernel'[i].up =>
           ~Ignored(Mac[i]) /\ \E ready, s : s # "ignored" /\ Listed(net', i, ready, s)
    BY <1>3, <1>5, <1>6, <1>7, Zenon
  <1>13. i \notin udev'
    BY <1>1, Zenon
  <1> QED BY <1>8, <1>10, <1>11, <1>12, <1>13, Zenon DEF Seen
=============================================================================
